CONSTANTS
  Nil = Nil
  Self = "0"
  Peer = {"q", "r"}
  LocalCluster = "c"
  Kubeconfigs <- Files
  PubKeys <- Keys
  Others = {0, 1, Nil}
  Seen <- Addresses
  IP4 = {"10.0.0.1", "10.0.0.2", "172.16.0.1"}
  RTT = {1, 2}
  MaxLinks = 2
SPECIFICATION Spec
CHECK_DEADLOCK FALSE
INVARIANTS  RankingIsCurrent PanicNeedsOverlap 
PROPERTY RankedInTheEnd
