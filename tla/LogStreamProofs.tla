-------------------------- MODULE LogStreamProofs --------------------------
(***************************************************************************)
(* The safety of a log request that is left alone, for any number of pods, *)
(* any logs and requests, and any size of the channels.                    *)
(***************************************************************************)
EXTENDS LogStream, FiniteSetTheorems, SequenceTheorems, TLAPS

\* A channel of elements of S.
ChannelOf(S) == [cap : Nat, buf : Seq(S), open : BOOLEAN]

\* What is in the channels of lines does not matter here.
IsChannel(ch) == (\E S : ch \in ChannelOf(S)) /\ Len(ch.buf) <= ch.cap

\* The pods whose podLogs is counted by the loop of GetLogs.
Active == {p \in Pod : streamer[p] \in {"open", "wait", "finish"}}

(***************************************************************************)
(* The invariant, in groups of variables.                                  *)
(***************************************************************************)
ServeType ==
  /\ handler \in {"query", "stream", "complete", "stopped", "failed"}
  /\ ctx \in {"live", "done"} /\ loop \in {"none", "select", "ended"}
  /\ IsChannel(logs) /\ IsChannel(messages)

PodType ==
  /\ pods \subseteq Pod /\ announced \subseteq Pod /\ onAdd \in Pod \cup {Nil}
  /\ IsChannel(added) /\ added.buf \in Seq(Pod)
  /\ streamer \in [Pod -> {"none", "open", "wait", "finish", "ended"}]
  /\ reader \in [Pod -> {"none", "read", "send", "done", "ended"}]

\* A pod that was announced is with OnAdd, in the channel or with its podLogs,
\* in one of them only: podLogs is started once for a pod.
Once ==
  /\ \A p \in Pod \ announced : streamer[p] = "none"
  /\ onAdd # Nil => onAdd \in announced /\ streamer[onAdd] = "none"
  /\ \A i \in 1 .. Len(added.buf) :
       /\ added.buf[i] \in announced \ {onAdd} /\ streamer[added.buf[i]] = "none"
       /\ \A j \in 1 .. Len(added.buf) : added.buf[i] = added.buf[j] => i = j

\* watching is the number of goroutines that will still send to finished.
Counted ==
  /\ spurious = [all |-> spurious.all, waiting |-> spurious.waiting]
  /\ spurious.all \in Nat /\ spurious.waiting \in 0 .. spurious.all
  /\ watching = Cardinality(Active) + spurious.waiting

\* Who closes a channel, and who may still send to it.
Calm ==
  /\ handler = "query" => loop = "none"
  /\ ~added.open => ctx = "done"
  /\ ~logs.open => loop = "ended"
  /\ ctx = "live" =>
       /\ loop = "ended" => Active = {}
       /\ \A p \in Pod : reader[p] \in {"read", "send", "done"} => streamer[p] = "wait"

StreamInv == ServeType /\ PodType /\ Once /\ Counted /\ Calm /\ CrashNeedsCancel

---------------------------------------------------------------------------
(* Channels and counting *)

\* Sending to a channel that has room keeps it a channel.
LEMMA SentIsChannel ==
  ASSUME NEW ch, NEW v, IsChannel(ch), HasRoom(ch)
  PROVE  /\ IsChannel(Sent(ch, v)) /\ Sent(ch, v).open = ch.open
         /\ Sent(ch, v).buf = Append(ch.buf, v)
<1>1. PICK S : ch \in ChannelOf(S)
  BY DEF IsChannel
<1>2. ch \in ChannelOf(S \cup {v})
  BY <1>1 DEF ChannelOf
<1>3. /\ Append(ch.buf, v) \in Seq(S \cup {v})
      /\ Len(Append(ch.buf, v)) = Len(ch.buf) + 1
  BY <1>2, AppendProperties DEF ChannelOf
<1>4. /\ Sent(ch, v) \in ChannelOf(S \cup {v})
      /\ Sent(ch, v).buf = Append(ch.buf, v)
      /\ Sent(ch, v).cap = ch.cap /\ Sent(ch, v).open = ch.open
  BY <1>2, <1>3 DEF ChannelOf, Sent
<1>5. Len(Sent(ch, v).buf) <= Sent(ch, v).cap
  BY <1>1, <1>3, <1>4 DEF HasRoom, ChannelOf
<1> QED BY <1>4, <1>5, Zenon DEF IsChannel

\* So does receiving from one that is not empty.
LEMMA ReceivedIsChannel ==
  ASSUME NEW ch, IsChannel(ch), ch.buf # <<>>
  PROVE  /\ IsChannel(Received(ch)) /\ Received(ch).open = ch.open
         /\ Received(ch).buf = Tail(ch.buf)
<1>1. PICK S : ch \in ChannelOf(S)
  BY DEF IsChannel
<1>2. Tail(ch.buf) \in Seq(S) /\ Len(Tail(ch.buf)) = Len(ch.buf) - 1
  BY <1>1, HeadTailProperties DEF ChannelOf
<1>3. /\ Received(ch) \in ChannelOf(S)
      /\ Received(ch).buf = Tail(ch.buf)
      /\ Received(ch).cap = ch.cap /\ Received(ch).open = ch.open
  BY <1>1, <1>2 DEF ChannelOf, Received
<1>4. Len(Received(ch).buf) <= Received(ch).cap
  BY <1>1, <1>2, <1>3 DEF IsChannel, ChannelOf
<1> QED BY <1>3, <1>4, Zenon DEF IsChannel

\* And closing it.
LEMMA ClosedIsChannel ==
  ASSUME NEW ch, IsChannel(ch)
  PROVE  IsChannel(Closed(ch)) /\ Closed(ch).open = FALSE /\ Closed(ch).buf = ch.buf
<1>1. PICK S : ch \in ChannelOf(S)
  BY DEF IsChannel
<1>2. /\ Closed(ch) \in ChannelOf(S) /\ Closed(ch).open = FALSE
      /\ Closed(ch).buf = ch.buf /\ Closed(ch).cap = ch.cap
  BY <1>1, Zenon DEF ChannelOf, Closed
<1> QED BY <1>2, Zenon DEF IsChannel

\* A new channel is empty and open.
LEMMA NewIsChannel ==
  ASSUME NEW n \in Nat
  PROVE  IsChannel(Channel(n)) /\ Channel(n).open = TRUE /\ Channel(n).buf = <<>>
<1>1. Channel(n) \in ChannelOf({})
  BY DEF ChannelOf, Channel
<1>2. Len(Channel(n).buf) <= Channel(n).cap /\ Channel(n).open = TRUE /\ Channel(n).buf = <<>>
  BY DEF Channel
<1> QED BY <1>1, <1>2, Zenon DEF IsChannel

\* There are finitely many active pods, at any time.
LEMMA ActiveFinite ==
  IsFiniteSet(Active) /\ Cardinality(Active) \in Nat
<1>1. Active \in SUBSET Pod
  BY DEF Active
<1>2. IsFiniteSet(Active)
  BY <1>1, FS_Subset, LogStreamAssumption
<1> QED BY <1>2, FS_CardinalityType

\* What stays the same where the variables of a group do.
LEMMA Kept ==
  /\ ServeType /\ UNCHANGED <<handler, ctx, loop, logs, messages>> => ServeType'
  /\ PodType /\ Once /\ UNCHANGED <<pods, informing, added, streamer, reader>> => PodType' /\ Once'
  /\ Counted /\ UNCHANGED <<spurious, watching, streamer>> => Counted'
  /\ Calm /\ UNCHANGED <<handler, ctx, loop, added, logs, streamer, reader>> => Calm'
  /\ CrashNeedsCancel /\ UNCHANGED <<crashed, ctx>> => CrashNeedsCancel'
<1>1. UNCHANGED streamer => Active' = Active
  BY DEF Active
<1>2. ServeType /\ UNCHANGED <<handler, ctx, loop, logs, messages>> => ServeType'
  BY DEF ServeType
<1>3. PodType /\ Once /\ UNCHANGED <<pods, informing, added, streamer, reader>> => PodType' /\ Once'
  BY DEF PodType, Once, informing
<1>4. Counted /\ UNCHANGED <<spurious, watching, streamer>> => Counted'
  BY <1>1 DEF Counted
<1>5. Calm /\ UNCHANGED <<handler, ctx, loop, added, logs, streamer, reader>> => Calm'
  BY <1>1 DEF Calm
<1>6. CrashNeedsCancel /\ UNCHANGED <<crashed, ctx>> => CrashNeedsCancel'
  BY DEF CrashNeedsCancel
<1> QED BY <1>2, <1>3, <1>4, <1>5, <1>6

\* The state before the request is answered.
LEMMA InitStream == Init => StreamInv
<1> SUFFICES ASSUME Init PROVE StreamInv
  OBVIOUS
<1>0. IsChannel(added) /\ added.buf = <<>>
  BY NewIsChannel, Zenon DEF Init
<1>1. ServeType
  <2>1. IsChannel(logs) /\ IsChannel(messages)
    BY NewIsChannel, LogStreamAssumption, Zenon DEF Init
  <2> QED BY <2>1 DEF Init, ServeType
<1>2. PodType
  <2>1. <<>> \in Seq(Pod)
    BY EmptySeq
  <2>2. /\ streamer \in [Pod -> {"none", "open", "wait", "finish", "ended"}]
        /\ reader \in [Pod -> {"none", "read", "send", "done", "ended"}]
    BY DEF Init
  <2> QED BY <1>0, <2>1, <2>2, LogStreamAssumption, Zenon DEF Init, PodType
<1>3. Once
  BY <1>0 DEF Init, Once
<1>4. Active = {}
  BY DEF Init, Active
<1>5. Counted
  BY <1>4, FS_EmptySet DEF Init, Counted
<1>6. Calm
  BY <1>4, NewIsChannel, LogStreamAssumption, Zenon DEF Init, Calm
<1> QED BY <1>1, <1>2, <1>3, <1>5, <1>6 DEF Init, StreamInv, CrashNeedsCancel

---------------------------------------------------------------------------
(* The HTTP handler and the copier *)

\* GetLogs opens the channel for the pods of its list.
LEMMA QueryStream == StreamInv /\ Query => StreamInv'
<1> SUFFICES ASSUME StreamInv, Query PROVE StreamInv'
  OBVIOUS
<1> USE DEF StreamInv
<1>0. Cardinality(pods) \in Nat
  BY FS_Subset, FS_CardinalityType, LogStreamAssumption DEF PodType
<1>1. \/ /\ ctx' = "done" /\ handler' = "failed" /\ UNCHANGED <<added, loop>>
      \/ /\ ctx' = ctx /\ handler' = "stream" /\ loop' = "select"
         /\ added' = Channel(Cardinality(pods))
  BY DEF Query, startFunctionPodInformer
<1>2. ServeType'
  BY <1>1 DEF Query, ServeType
<1>3. PodType'
  <2>1. added' = added \/ (IsChannel(added') /\ added'.buf = <<>>)
    BY <1>0, <1>1, NewIsChannel, Zenon
  <2>2. IsChannel(added') /\ added'.buf \in Seq(Pod)
    BY <2>1, EmptySeq, Zenon DEF PodType
  <2> QED BY <2>2 DEF Query, PodType, streaming
<1>4. Once'
  <2>1. added' = added \/ added'.buf = <<>>
    BY <1>0, <1>1, NewIsChannel, Zenon
  <2> QED BY <2>1 DEF Query, Once, streaming
<1>5. Counted'
  BY Kept DEF Query, streaming
<1>6. Calm'
  <2>1. Active' = Active
    BY DEF Active, Query, streaming
  <2>2. added' = added \/ added'.open
    BY <1>0, <1>1, NewIsChannel, Zenon
  <2> QED BY <1>1, <2>1, <2>2 DEF Query, Calm, streaming, ServeType
<1> QED BY <1>1, <1>2, <1>3, <1>4, <1>5, <1>6 DEF Query, CrashNeedsCancel

\* The copier and the handler take from channels; the handler ends the context.
LEMMA ServeStream ==
  StreamInv /\ (Copy \/ Deliver \/ ClientLeaves \/ Timeout) => StreamInv'
<1> SUFFICES ASSUME StreamInv, Copy \/ Deliver \/ ClientLeaves \/ Timeout PROVE StreamInv'
  OBVIOUS
<1> USE DEF StreamInv
<1>1. UNCHANGED <<pods, informing, added, loop, watching, streaming, spurious, crashed>>
  BY DEF Copy, Deliver, ClientLeaves, Timeout, serving
<1>2. /\ ctx' \in {ctx, "done"} /\ handler' \in {handler, "complete", "stopped"}
      /\ logs'.open = logs.open /\ IsChannel(logs') /\ IsChannel(messages')
  <2>1. CASE Copy
    <3>1. UNCHANGED <<ctx, handler>>
      BY <2>1 DEF Copy, serving
    <3>2. IsChannel(logs') /\ logs'.open = logs.open
      BY <2>1, ReceivedIsChannel DEF Copy, ServeType
    <3>3. IsChannel(messages')
      BY <2>1, SentIsChannel, ClosedIsChannel, Zenon DEF Copy, ServeType
    <3> QED BY <3>1, <3>2, <3>3
  <2>2. CASE Deliver
    BY <2>2, ReceivedIsChannel DEF Deliver, ServeType
  <2>3. CASE ClientLeaves \/ Timeout
    BY <2>3 DEF ClientLeaves, Timeout, serving, ServeType
  <2> QED BY <2>1, <2>2, <2>3
<1>3. ServeType'
  BY <1>1, <1>2 DEF ServeType
<1>4. PodType' /\ Once' /\ Counted'
  BY <1>1, Kept DEF streaming
<1>5. Calm'
  <2>1. Active' = Active
    BY <1>1 DEF Active, streaming
  <2> QED BY <1>1, <1>2, <2>1 DEF Calm, streaming, ServeType
<1> QED BY <1>1, <1>2, <1>3, <1>4, <1>5 DEF CrashNeedsCancel, ServeType

---------------------------------------------------------------------------
(* The informer *)

\* OnAdd is called with a pod that it was not called with before.
LEMMA AnnounceStream ==
  ASSUME NEW p \in Pod, StreamInv, Announce(p)
  PROVE  StreamInv'
<1> USE DEF StreamInv
<1>1. PodType' /\ Once'
  BY LogStreamAssumption DEF Announce, PodType, Once, streaming
<1>2. ServeType' /\ Counted' /\ Calm' /\ CrashNeedsCancel'
  BY Kept DEF Announce, streaming, serving
<1> QED BY <1>1, <1>2

\* It sends the pod to the loop; on a closed channel it panics.
LEMMA OnAddStream == StreamInv /\ OnAdd => StreamInv'
<1> SUFFICES ASSUME StreamInv, OnAdd PROVE StreamInv'
  OBVIOUS
<1> USE DEF StreamInv
<1>1. ServeType' /\ Counted'
  BY Kept DEF OnAdd, serving, streaming
<1>2. CASE ~added.open /\ crashed' = TRUE /\ UNCHANGED <<added, onAdd>>
  <2>1. PodType' /\ Once' /\ Calm'
    BY <1>2, Kept DEF OnAdd, serving, streaming, informing
  <2> QED BY <1>1, <1>2, <2>1 DEF OnAdd, Calm, CrashNeedsCancel
<1>3. CASE HasRoom(added) /\ added' = Sent(added, onAdd) /\ onAdd' = Nil /\ UNCHANGED crashed
  <2>1. /\ IsChannel(added') /\ added'.open = added.open
        /\ added'.buf = Append(added.buf, onAdd)
    BY <1>3, SentIsChannel DEF PodType
  <2>2. onAdd \in Pod /\ added.buf \in Seq(Pod)
    BY DEF OnAdd, PodType
  <2>3. PodType'
    BY <1>3, <2>1, <2>2, AppendProperties DEF OnAdd, PodType, streaming
  <2>4. Once'
    <3>1. /\ Len(added'.buf) = Len(added.buf) + 1 /\ Len(added.buf) \in Nat
          /\ \A i \in 1 .. Len(added.buf) : added'.buf[i] = added.buf[i]
          /\ added'.buf[Len(added.buf) + 1] = onAdd
      BY <2>1, <2>2, AppendProperties
    <3>2. ASSUME NEW i \in 1 .. Len(added'.buf)
          PROVE  /\ added'.buf[i] \in announced /\ added'.buf[i] # Nil
                 /\ streamer[added'.buf[i]] = "none"
                 /\ \A j \in 1 .. Len(added'.buf) : added'.buf[i] = added'.buf[j] => i = j
      <4>1. \A k \in 1 .. Len(added.buf) :
              /\ added'.buf[k] \in announced \ {onAdd} /\ streamer[added'.buf[k]] = "none"
              /\ \A j \in 1 .. Len(added.buf) : added'.buf[k] = added'.buf[j] => k = j
        BY <3>1 DEF Once
      <4>2. onAdd \in announced /\ streamer[onAdd] = "none"
        BY DEF OnAdd, Once
      <4>3. Nil \notin announced
        BY LogStreamAssumption DEF PodType
      <4>4. \A k \in 1 .. Len(added'.buf) : k \in 1 .. Len(added.buf) \/ k = Len(added.buf) + 1
        BY <3>1
      <4> QED BY <3>1, <4>1, <4>2, <4>3, <4>4
    <3> QED BY <1>3, <3>2 DEF OnAdd, Once, streaming
  <2>5. Calm'
    <3>1. Active' = Active
      BY DEF Active, OnAdd, streaming
    <3> QED BY <2>1, <3>1 DEF OnAdd, Calm, serving, streaming
  <2>6. CrashNeedsCancel'
    BY <1>3, Kept DEF OnAdd
  <2> QED BY <1>1, <2>3, <2>4, <2>5, <2>6
<1> QED BY <1>2, <1>3, Zenon DEF OnAdd

\* The channel is closed when the context is done.
LEMMA CloseAddedStream == StreamInv /\ CloseAdded => StreamInv'
<1> SUFFICES ASSUME StreamInv, CloseAdded PROVE StreamInv'
  OBVIOUS
<1> USE DEF StreamInv
<1>1. ServeType' /\ Counted' /\ CrashNeedsCancel'
  BY Kept DEF CloseAdded, serving, streaming
<1>2. IsChannel(added') /\ added'.buf = added.buf
  BY ClosedIsChannel, Zenon DEF CloseAdded, PodType
<1>3. PodType' /\ Once'
  BY <1>2 DEF CloseAdded, PodType, Once, informing, streaming
<1>4. Calm'
  BY DEF CloseAdded, Calm, serving, streaming
<1> QED BY <1>1, <1>3, <1>4

\* Pods come and go.
LEMMA PodChangeStream == StreamInv /\ PodChange => StreamInv'
<1> SUFFICES ASSUME StreamInv, PodChange PROVE StreamInv'
  OBVIOUS
<1> USE DEF StreamInv
<1>1. ServeType' /\ Counted' /\ Calm' /\ CrashNeedsCancel'
  BY Kept DEF PodChange, serving, streaming
<1>2. PodType'
  BY DEF PodChange, PodType, informing, streaming
<1>3. Once'
  BY DEF PodChange, Once, informing, streaming
<1> QED BY <1>1, <1>2, <1>3

---------------------------------------------------------------------------
(* The loop of GetLogs *)

\* The loop returns when the context is done.
LEMMA CancelledStream == StreamInv /\ Cancelled => StreamInv'
<1> SUFFICES ASSUME StreamInv, Cancelled PROVE StreamInv'
  OBVIOUS
<1> USE DEF StreamInv
<1>1. PodType' /\ Once' /\ Counted' /\ CrashNeedsCancel'
  BY Kept DEF Cancelled, streaming
<1>2. ServeType'
  BY ClosedIsChannel, Zenon DEF Cancelled, End, ServeType, serving
<1>3. Calm'
  BY DEF Cancelled, End, Calm, serving, streaming
<1> QED BY <1>1, <1>2, <1>3

\* A goroutine that sends to finished is one that is counted: the last one
\* ends the loop when nobody is left to send to logs.
LEMMA FinishedStream == StreamInv /\ Finished => StreamInv'
<1> SUFFICES ASSUME StreamInv, Finished PROVE StreamInv'
  OBVIOUS
<1> USE DEF StreamInv
<1>1. loop' \in {loop, "ended"} /\ IsChannel(logs') /\ (~logs'.open => loop' = "ended")
  BY ClosedIsChannel, Zenon DEF Finished, AllFinished, End, ServeType, Calm
<1>2. ServeType'
  BY <1>1 DEF Finished, ServeType, serving
<1>3. PodType'
  BY DEF Finished, PodType, informing
<1>4. \A p \in Pod : streamer'[p] = streamer[p] \/ (streamer[p] = "finish" /\ streamer'[p] = "ended")
  BY DEF Finished, PodType
<1>5. Once'
  <2>1. \A i \in 1 .. Len(added.buf) : added.buf[i] \in Pod
    BY DEF PodType
  <2>2. \A p \in Pod : streamer[p] = "none" => streamer'[p] = "none"
    BY <1>4
  <2>3. onAdd # Nil => onAdd \in Pod
    BY DEF PodType
  <2> QED BY <2>1, <2>2, <2>3 DEF Finished, Once, informing
<1>6. Counted'
  <2>1. CASE \E p \in Pod : streamer[p] = "finish" /\ streamer' = [streamer EXCEPT ![p] = "ended"]
    <3>1. PICK p \in Pod : streamer[p] = "finish" /\ streamer' = [streamer EXCEPT ![p] = "ended"]
      BY <2>1, Zenon
    <3>2. p \in Active /\ Active' = Active \ {p}
      BY <3>1 DEF Active, PodType
    <3>3. Cardinality(Active') = Cardinality(Active) - 1
      BY <3>2, ActiveFinite, FS_RemoveElement
    <3>4. UNCHANGED spurious
      BY <3>1 DEF Finished, Counted, PodType
    <3> QED BY <3>3, <3>4, ActiveFinite DEF Finished, Counted
  <2>2. CASE spurious.waiting > 0 /\ spurious' = [spurious EXCEPT !.waiting = @ - 1] /\ UNCHANGED streamer
    <3>1. Active' = Active
      BY <2>2 DEF Active
    <3>2. spurious' = [all |-> spurious.all, waiting |-> spurious.waiting - 1]
      BY <2>2 DEF Counted
    <3> QED BY <2>2, <3>1, <3>2, ActiveFinite DEF Finished, Counted
  <2> QED BY <2>1, <2>2 DEF Finished
<1>7. Calm'
  <2>1. loop' = "ended" => Active' = {}
    <3>1. CASE loop' = loop
      BY <3>1 DEF Finished
    <3>2. CASE watching' = 0
      <4>1. Cardinality(Active') \in Nat /\ IsFiniteSet(Active')
        BY FS_Subset, FS_CardinalityType, LogStreamAssumption DEF Active
      <4>2. Cardinality(Active') = 0
        BY <1>6, <3>2, <4>1 DEF Counted
      <4> QED BY <4>1, <4>2, FS_EmptySet
    <3> QED BY <3>1, <3>2 DEF Finished, AllFinished
  <2>2. \A p \in Pod : streamer[p] = "wait" => streamer'[p] = "wait"
    BY <1>4
  <2> QED BY <1>1, <2>1, <2>2 DEF Finished, Calm, serving
<1> QED BY <1>2, <1>3, <1>5, <1>6, <1>7, Kept DEF Finished

\* The loop starts podLogs for a pod that had none.
LEMMA AddedStream == StreamInv /\ Added => StreamInv'
<1> SUFFICES ASSUME StreamInv, Added PROVE StreamInv'
  OBVIOUS
<1> USE DEF StreamInv
<1>1. ServeType' /\ CrashNeedsCancel'
  BY Kept DEF Added, serving
<1>2. CASE /\ added.buf # <<>>
           /\ streamer' = [streamer EXCEPT ![Head(added.buf)] = "open"]
           /\ added' = Received(added) /\ UNCHANGED spurious
  <2> DEFINE h == Head(added.buf)
  <2>1. /\ IsChannel(added') /\ added'.open = added.open /\ added'.buf = Tail(added.buf)
    BY <1>2, ReceivedIsChannel DEF PodType
  <2>2. /\ h \in Pod /\ h = added.buf[1] /\ 1 \in 1 .. Len(added.buf)
        /\ added'.buf \in Seq(Pod) /\ Len(added'.buf) = Len(added.buf) - 1
        /\ \A i \in 1 .. Len(added'.buf) :
             i + 1 \in 1 .. Len(added.buf) /\ added'.buf[i] = added.buf[i + 1]
    BY <1>2, <2>1 DEF PodType
  <2>3. streamer[h] = "none" /\ h \in announced /\ h # onAdd
    BY <2>2 DEF Once
  <2>4. \A p \in Pod : streamer'[p] = IF p = h THEN "open" ELSE streamer[p]
    BY <1>2, <2>2 DEF PodType
  <2>5. PodType'
    BY <1>2, <2>1, <2>2 DEF Added, PodType, informing
  <2>6. Once'
    <3>1. \A p \in Pod \ announced : streamer'[p] = "none"
      BY <2>3, <2>4 DEF Once
    <3>2. onAdd # Nil => onAdd \in announced /\ streamer'[onAdd] = "none"
      BY <2>3, <2>4 DEF Once, PodType
    <3>3. ASSUME NEW i \in 1 .. Len(added'.buf)
          PROVE  /\ added'.buf[i] \in announced \ {onAdd} /\ streamer'[added'.buf[i]] = "none"
                 /\ \A j \in 1 .. Len(added'.buf) : added'.buf[i] = added'.buf[j] => i = j
      <4>1. i + 1 \in 1 .. Len(added.buf) /\ added'.buf[i] = added.buf[i + 1] /\ i + 1 # 1
        BY <2>2
      <4>2. added.buf[i + 1] # h
        BY <2>2, <4>1 DEF Once
      <4>3. added'.buf[i] \in announced \ {onAdd} /\ streamer[added'.buf[i]] = "none"
        BY <4>1 DEF Once
      <4>4. added'.buf[i] \in Pod /\ streamer'[added'.buf[i]] = "none"
        BY <2>4, <4>1, <4>2, <4>3 DEF PodType
      <4>5. ASSUME NEW j \in 1 .. Len(added'.buf), added'.buf[i] = added'.buf[j] PROVE i = j
        <5>1. j + 1 \in 1 .. Len(added.buf) /\ added'.buf[j] = added.buf[j + 1]
          BY <2>2
        <5>2. i + 1 = j + 1
          BY <4>1, <4>5, <5>1, Zenon DEF Once
        <5> QED BY <5>2
      <4> QED BY <4>3, <4>4, <4>5
    <3> QED BY <3>1, <3>2, <3>3 DEF Added, Once, informing
  <2>7. h \notin Active /\ Active' = Active \cup {h}
    BY <2>2, <2>3, <2>4 DEF Active
  <2>8. Counted'
    <3>1. Cardinality(Active') = Cardinality(Active) + 1
      BY <2>7, ActiveFinite, FS_AddElement, Zenon
    <3> QED BY <1>2, <3>1, ActiveFinite DEF Added, Counted
  <2>9. Calm'
    BY <2>1, <2>3, <2>4 DEF Added, Calm, serving
  <2> QED BY <1>1, <2>5, <2>6, <2>8, <2>9
<1>3. CASE /\ spurious' = [all |-> spurious.all + 1, waiting |-> spurious.waiting + 1]
           /\ UNCHANGED <<streamer, added>>
  <2>1. Active' = Active
    BY <1>3 DEF Active
  <2>2. Counted'
    BY <1>3, <2>1, ActiveFinite DEF Added, Counted
  <2>3. PodType' /\ Once' /\ Calm'
    BY <1>3, Kept DEF Added, serving
  <2> QED BY <1>1, <2>2, <2>3
<1> QED BY <1>2, <1>3 DEF Added

---------------------------------------------------------------------------
(* podLogs and its reader *)

\* Where podLogs moves between its own states, the loop goes on counting it.
LEMMA StreamerMoves ==
  ASSUME NEW p \in Pod, NEW s \in {"wait", "finish"}, PodType, Once, Counted,
         streamer[p] \in {"open", "wait"},
         streamer' = [streamer EXCEPT ![p] = s],
         reader' \in [Pod -> {"none", "read", "send", "done", "ended"}],
         UNCHANGED <<pods, informing, added, watching, spurious>>
  PROVE  PodType' /\ Once' /\ Counted' /\ Active' = Active
<1>1. \A q \in Pod : streamer'[q] = IF q = p THEN s ELSE streamer[q]
  BY DEF PodType
<1>2. Active' = Active
  BY <1>1 DEF Active
<1>3. PodType'
  BY Zenon DEF PodType, informing
<1>4. Once'
  <2>1. \A q \in Pod : streamer[q] = "none" => streamer'[q] = "none"
    BY <1>1
  <2>2. \A i \in 1 .. Len(added.buf) : added.buf[i] \in Pod
    BY DEF PodType
  <2>3. onAdd # Nil => onAdd \in Pod
    BY DEF PodType
  <2> QED BY <2>1, <2>2, <2>3 DEF Once, informing
<1>5. Counted'
  BY <1>2 DEF Counted
<1> QED BY <1>2, <1>3, <1>4, <1>5

\* The stream is opened, or fails.
LEMMA OpenStreamStream ==
  ASSUME NEW p \in Pod, StreamInv, OpenStream(p)
  PROVE  StreamInv'
<1> USE DEF StreamInv
<1>1. ServeType' /\ CrashNeedsCancel'
  BY Kept DEF OpenStream, serving
<1>2. /\ reader' \in [Pod -> {"none", "read", "send", "done", "ended"}]
      /\ \/ streamer' = [streamer EXCEPT ![p] = "finish"] /\ reader' = reader
         \/ streamer' = [streamer EXCEPT ![p] = "wait"] /\ reader' = [reader EXCEPT ![p] = "read"]
  BY DEF OpenStream, PodType
<1>3. PodType' /\ Once' /\ Counted' /\ Active' = Active
  <2>1. UNCHANGED <<pods, informing, added, watching, spurious>> /\ streamer[p] = "open"
    BY DEF OpenStream
  <2> QED BY <1>2, <2>1, StreamerMoves
<1>4. Calm'
  BY <1>2, <1>3 DEF OpenStream, Calm, serving, PodType
<1> QED BY <1>1, <1>3, <1>4

\* The reader gets a line, or the end.
LEMMA ReadStream ==
  ASSUME NEW p \in Pod, StreamInv, Read(p)
  PROVE  StreamInv'
<1> USE DEF StreamInv
<1>0. UNCHANGED <<serving, ctx, pods, informing, added, loop, watching, streamer, spurious, logs,
                  messages, crashed>>
  BY Zenon DEF Read
<1>1. ServeType' /\ CrashNeedsCancel' /\ Counted'
  BY <1>0, Kept DEF serving
<1>2. reader[p] = "read" /\ \E s \in {"send", "done"} : reader' = [reader EXCEPT ![p] = s]
  BY DEF Read
<1>3. PodType' /\ Once'
  BY <1>0, <1>2 DEF PodType, Once, informing
<1>4. Calm'
  <2>1. Active' = Active
    BY <1>0, Zenon DEF Active
  <2> QED BY <1>0, <1>2, <2>1 DEF Calm, serving, PodType
<1> QED BY <1>1, <1>3, <1>4

\* The reader sends to logs.  While the context is live its podLogs waits for
\* it and is counted, so the loop has not closed logs.
LEMMA SendLineStream ==
  ASSUME NEW p \in Pod, StreamInv, SendLine(p)
  PROVE  StreamInv'
<1> USE DEF StreamInv
<1>1. Counted'
  BY Kept DEF SendLine
<1>2. CASE ~logs.open /\ crashed' = TRUE /\ UNCHANGED <<reader, next, logs>>
  <2>1. ServeType' /\ PodType' /\ Once' /\ Calm'
    BY <1>2, Kept DEF SendLine, serving
  <2>2. ctx # "live"
    <3>1. SUFFICES ASSUME ctx = "live" PROVE FALSE
      OBVIOUS
    <3>2. loop = "ended" /\ streamer[p] = "wait"
      BY <1>2, <3>1 DEF Calm, SendLine
    <3> QED BY <3>1, <3>2 DEF Calm, Active
  <2> QED BY <1>1, <1>2, <2>1, <2>2 DEF SendLine, CrashNeedsCancel, ServeType
<1>3. CASE /\ HasRoom(logs)
           /\ logs' = Sent(logs, [pod |-> p, text |-> extractTimestampAndMsg(Head(next[p]))])
           /\ reader' = [reader EXCEPT ![p] = "read"] /\ UNCHANGED crashed
  <2>1. IsChannel(logs') /\ logs'.open = logs.open
    BY <1>3, SentIsChannel DEF ServeType
  <2>2. ServeType'
    BY <2>1 DEF SendLine, ServeType, serving
  <2>3. PodType' /\ Once'
    BY <1>3 DEF SendLine, PodType, Once, informing
  <2>4. Calm'
    <3>1. Active' = Active
      BY DEF Active, SendLine
    <3> QED BY <1>3, <2>1, <3>1 DEF SendLine, Calm, serving, PodType
  <2> QED BY <1>1, <1>3, <2>2, <2>3, <2>4, Kept DEF SendLine
<1> QED BY <1>2, <1>3, Zenon DEF SendLine

\* podLogs leaves its reader behind only when the context is done.
LEMMA PodLogsEndStream ==
  ASSUME NEW p \in Pod, StreamInv, PodLogsEnd(p)
  PROVE  StreamInv'
<1> USE DEF StreamInv
<1>1. ServeType' /\ CrashNeedsCancel'
  BY Kept DEF PodLogsEnd, serving
<1>2. /\ reader' \in [Pod -> {"none", "read", "send", "done", "ended"}]
      /\ streamer' = [streamer EXCEPT ![p] = "finish"]
      /\ ctx = "done" \/ reader' = [reader EXCEPT ![p] = "ended"]
  BY DEF PodLogsEnd, PodType
<1>3. PodType' /\ Once' /\ Counted' /\ Active' = Active
  <2>1. UNCHANGED <<pods, informing, added, watching, spurious>> /\ streamer[p] = "wait"
    BY DEF PodLogsEnd
  <2> QED BY <1>2, <2>1, StreamerMoves, Zenon
<1>4. Calm'
  BY <1>2, <1>3 DEF PodLogsEnd, Calm, serving, PodType
<1> QED BY <1>1, <1>3, <1>4

---------------------------------------------------------------------------
(* The theorems *)

\* Every step keeps the invariant.
LEMMA NextStream == StreamInv /\ [Next]_vars => StreamInv'
<1> SUFFICES ASSUME StreamInv, [Next]_vars PROVE StreamInv'
  OBVIOUS
<1>1. CASE Goroutine
  <2>1. ASSUME NEW p \in Pod,
               Announce(p) \/ OpenStream(p) \/ Read(p) \/ SendLine(p) \/ PodLogsEnd(p)
        PROVE  StreamInv'
    BY <2>1, AnnounceStream, OpenStreamStream, ReadStream, SendLineStream, PodLogsEndStream
  <2> QED BY <1>1, <2>1, QueryStream, OnAddStream, CloseAddedStream, FinishedStream, AddedStream,
             ServeStream DEF Goroutine
<1>2. CASE Cancelled \/ ClientLeaves \/ Timeout \/ PodChange
  BY <1>2, CancelledStream, ServeStream, PodChangeStream
<1>3. CASE UNCHANGED vars
  BY <1>3, Kept DEF StreamInv, vars, serving, streaming
<1> QED BY <1>1, <1>2, <1>3 DEF Next

\* The variables keep their types; in particular watching, an unsigned counter
\* that the loop of GetLogs decrements (logs.go:75), never wraps, and no channel
\* holds more than it was made for.
THEOREM TypeCorrect == Spec => []TypeOK
<1>1. StreamInv => TypeOK
  <2> SUFFICES ASSUME StreamInv PROVE TypeOK
    OBVIOUS
  <2>1. watching \in Nat /\ spurious.waiting \in 0 .. spurious.all
    BY ActiveFinite DEF StreamInv, Counted
  <2>2. \A ch \in {added, logs, messages} : Len(ch.buf) <= ch.cap
    BY DEF StreamInv, ServeType, PodType, IsChannel
  <2> QED BY <2>1, <2>2 DEF StreamInv, ServeType, PodType, TypeOK
<1> QED BY <1>1, InitStream, NextStream, PTL DEF Spec

\* A log request that nobody cancels does not end the provider: no goroutine
\* sends to added or logs (logs.go:126, 234) once it is closed, unless the
\* context is done.
THEOREM SafeUntilCancelled == Spec => []CrashNeedsCancel
<1>1. StreamInv => CrashNeedsCancel
  BY DEF StreamInv
<1> QED BY <1>1, InitStream, NextStream, PTL DEF Spec
=============================================================================
