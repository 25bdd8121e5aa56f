------------------------------- MODULE MCPeers -------------------------------
(* Small instances of Peers for TLC. *)
EXTENDS Peers

\* q is known by key and kubeconfig, r by neither; one file repeats the local
\* cluster, one names its server without a port.
Files == <<[ip |-> "10.0.0.1", cluster |-> "c"], [ip |-> "10.0.0.2", cluster |-> "cq"],
           [ip |-> "", cluster |-> "cs"]>>
Keys == <<[ip |-> "10.0.0.1", id |-> "0"], [ip |-> "10.0.0.2", id |-> "q"]>>

\* r's connections are seen with the address of a gateway, or over IPv6.
Addresses == [q |-> {"10.0.0.2"}, r |-> {"172.16.0.1", "fd00::1"}]
==============================================================================
