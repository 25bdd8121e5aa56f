------------------------------ MODULE LogStream ------------------------------
(***************************************************************************)
(* One request for the logs of a function (pkg/k8s/log.go, logs.go): the   *)
(* goroutines between the pods and the client, and the channels they share.*)
(*                                                                         *)
(*   informer --added--> loop of GetLogs --go--> podLogs --go--> reader    *)
(*   reader --logs--> copier of Query --messages--> HTTP handler           *)
(*                                                                         *)
(* A goroutine that is not enabled is blocked.  A panic in any of them ends *)
(* the provider.  The HTTP handler is that of faas-provider.               *)
(***************************************************************************)
EXTENDS Integers, Sequences, FiniteSets

CONSTANTS
  Pod,
  Log,            \* Log[p]: its lines, [age, kind], the oldest first
  Request,        \* [namespace, tail, since, follow]
  Initial,        \* the sets of pods there may be at the start
  LogBufferSize,
  MaxSpurious,    \* bounds the goroutines for pods without a name
  Nil

ASSUME LogStreamAssumption ==
  /\ LogBufferSize \in Nat \ {0} /\ MaxSpurious \in Nat
  /\ IsFiniteSet(Pod) /\ Nil \notin Pod /\ Initial \subseteq SUBSET Pod

VARIABLES
  request, handler, delivered,    \* the HTTP handler and what it has written
  ctx,                            \* the context: "live" or "done"
  pods,                           \* the pods of the function
  announced, onAdd,               \* the informer: pods seen, the pod OnAdd waits with
  added,                          \* a channel: [cap, buf, open]
  loop, watching,
  streamer, reader,               \* of each pod: podLogs and its goroutine
  next,                           \* next[p]: the lines of p not yet read
  cut,                            \* pods whose stream broke off
  spurious,                       \* podLogs of pods without a name, ended ones too
  logs, copier, messages,
  crashed

informing == <<announced, onAdd>>
streaming == <<streamer, reader, next, cut>>
serving == <<request, handler, delivered>>
vars == <<serving, ctx, pods, informing, added, loop, watching, streaming, spurious,
          logs, copier, messages, crashed>>

---------------------------------------------------------------------------
(* Channels *)

Channel(n) == [cap |-> n, buf |-> <<>>, open |-> TRUE]
HasRoom(ch) == ch.open /\ Len(ch.buf) < ch.cap
Sent(ch, v) == [ch EXCEPT !.buf = Append(@, v)]
Received(ch) == [ch EXCEPT !.buf = Tail(@)]
Closed(ch) == [ch EXCEPT !.open = FALSE]
Drained(ch) == ~ch.open /\ ch.buf = <<>>

---------------------------------------------------------------------------
(* What is asked for *)

\* A namespace in the request counts, but for that of the system.
QueryNamespace(r) == IF r.namespace \in {"", "kube-system"} THEN "fn" ELSE r.namespace

\* Whole seconds; defaultLogSince is 5 minutes.
parseSince(since) == IF since = Nil THEN 300 ELSE since

\* Mutant: the age of a line counts although only the last ones are asked for.
AlwaysSince(r) ==
  [tailLines |-> IF r.tail > 0 THEN r.tail ELSE Nil, sinceSeconds |-> parseSince(r.since)]

PodLogOptions(r) ==
  [tailLines |-> IF r.tail > 0 THEN r.tail ELSE Nil,
   sinceSeconds |-> IF r.tail <= 0 \/ r.since # Nil THEN parseSince(r.since) ELSE Nil]

\* The API server wants a positive number of seconds.
Refused(opts) == opts.sinceSeconds # Nil /\ opts.sinceSeconds < 1

\* The lines the kubelet sends.
Selected(p, opts) ==
  LET young == IF opts.sinceSeconds = Nil THEN Log[p]
               ELSE SelectSeq(Log[p], LAMBDA l : l.age <= opts.sinceSeconds)
  IN  IF opts.tailLines = Nil \/ Len(young) <= opts.tailLines THEN young
      ELSE SubSeq(young, Len(young) - opts.tailLines + 1, Len(young))

\* A line without a timestamp, or with nothing after it, becomes an empty message.
extractTimestampAndMsg(line) == IF line.kind = "stamped" THEN line.age ELSE Nil

---------------------------------------------------------------------------
(* The informer *)

\* The channel of the informer has room for the pods of a list of its own, or
\* there are none.
startFunctionPodInformer ==
  IF pods = {} \/ QueryNamespace(request) # "fn" THEN Nil ELSE Channel(Cardinality(pods))

\* GetLogs fails where the informer has no pods or the list cannot be had.
Query ==
  /\ handler = "query"
  /\ \/ /\ handler' = "failed" /\ ctx' = "done"
        /\ UNCHANGED <<added, loop, copier>>
     \/ /\ startFunctionPodInformer # Nil
        /\ handler' = "stream" /\ added' = startFunctionPodInformer
        /\ loop' = "select" /\ copier' = [pc |-> "receive", msg |-> Nil]
        /\ UNCHANGED ctx
  /\ UNCHANGED <<request, delivered, pods, announced, onAdd, watching, streaming, spurious, logs,
                 messages, crashed>>

\* The informer calls OnAdd for one pod after the other, and may do so for a
\* while when the context is done.
Announce(p) ==
  /\ loop # "none" /\ onAdd = Nil
  /\ p \in pods \ announced
  /\ announced' = announced \cup {p} /\ onAdd' = p
  /\ UNCHANGED <<serving, ctx, pods, added, loop, watching, streaming, spurious, logs, copier,
                 messages, crashed>>

OnAdd ==
  /\ onAdd # Nil
  /\ \/ ~added.open /\ crashed' = TRUE /\ UNCHANGED <<added, onAdd>>
     \/ /\ HasRoom(added)
        /\ added' = Sent(added, onAdd) /\ onAdd' = Nil /\ UNCHANGED crashed
  /\ UNCHANGED <<serving, ctx, pods, announced, loop, watching, streaming, spurious, logs, copier,
                 messages>>

\* Mutant: the channel is closed with the loop.
CloseWithLoop ==
  /\ loop = "ended" /\ added.open
  /\ added' = Closed(added)
  /\ UNCHANGED <<serving, ctx, pods, informing, loop, watching, streaming, spurious, logs, copier,
                 messages, crashed>>

CloseAdded ==
  /\ ctx = "done" /\ loop # "none" /\ added.open
  /\ added' = Closed(added)
  /\ UNCHANGED <<serving, ctx, pods, informing, loop, watching, streaming, spurious, logs, copier,
                 messages, crashed>>

---------------------------------------------------------------------------
(* The loop of GetLogs; its select takes any case that is ready *)

End == loop' = "ended" /\ logs' = Closed(logs)

\* Mutant: the loop returns without closing logs.
CancelledLeavesOpen ==
  /\ loop = "select" /\ ctx = "done"
  /\ loop' = "ended"
  /\ UNCHANGED <<serving, ctx, pods, informing, added, watching, streaming, spurious, logs, copier,
                 messages, crashed>>

Cancelled ==
  /\ loop = "select" /\ ctx = "done"
  /\ End
  /\ UNCHANGED <<serving, ctx, pods, informing, added, watching, streaming, spurious, copier,
                 messages, crashed>>

AllFinished ==
  IF watching' = 0 /\ ~request.follow THEN End ELSE UNCHANGED <<loop, logs>>

\* Mutant: a finish is counted twice (by the goroutine and by the loop).
FinishedTwice ==
  /\ loop = "select" /\ watching' = watching - 2
  /\ \E p \in Pod : streamer[p] = "finish" /\ streamer' = [streamer EXCEPT ![p] = "ended"]
  /\ AllFinished
  /\ UNCHANGED <<serving, ctx, pods, informing, added, reader, next, cut, spurious, copier,
                 messages, crashed>>

\* The channel finished has no buffer: sender and receiver step together.
Finished ==
  /\ loop = "select" /\ watching' = watching - 1
  /\ \/ /\ \E p \in Pod : streamer[p] = "finish" /\ streamer' = [streamer EXCEPT ![p] = "ended"]
        /\ UNCHANGED spurious
     \/ /\ spurious.waiting > 0
        /\ spurious' = [spurious EXCEPT !.waiting = @ - 1]
        /\ UNCHANGED streamer
  /\ AllFinished
  /\ UNCHANGED <<serving, ctx, pods, informing, added, reader, next, cut, copier, messages,
                 crashed>>

\* The closed channel gives pods without a name, whose streams fail.
Added ==
  /\ loop = "select" /\ watching' = watching + 1
  /\ \/ /\ added.buf # <<>>
        /\ streamer' = [streamer EXCEPT ![Head(added.buf)] = "open"]
        /\ added' = Received(added) /\ UNCHANGED spurious
     \/ /\ Drained(added) /\ spurious.all < MaxSpurious
        /\ spurious' = [all |-> spurious.all + 1, waiting |-> spurious.waiting + 1]
        /\ UNCHANGED <<streamer, added>>
  /\ UNCHANGED <<serving, ctx, pods, informing, loop, reader, next, cut, logs, copier,
                 messages, crashed>>

---------------------------------------------------------------------------
(* podLogs and its reader *)

\* The stream fails if the pod is gone or not yet started, among others.
OpenStream(p) ==
  /\ streamer[p] = "open"
  /\ LET opts == PodLogOptions(request)
     IN  \/ /\ streamer' = [streamer EXCEPT ![p] = "finish"]
            /\ cut' = IF Refused(opts) THEN cut ELSE cut \cup {p}
            /\ UNCHANGED <<reader, next>>
         \/ /\ p \in pods /\ ~Refused(opts)
            /\ streamer' = [streamer EXCEPT ![p] = "wait"]
            /\ reader' = [reader EXCEPT ![p] = "read"]
            /\ next' = [next EXCEPT ![p] = Selected(p, opts)]
            /\ UNCHANGED cut
  /\ UNCHANGED <<serving, ctx, pods, informing, added, loop, watching, spurious, logs, copier,
                 messages, crashed>>

\* A line that does not end before the stream does is dropped.  A stream may
\* fail, as it does once podLogs has closed it and what was buffered is read.
Read(p) ==
  LET line == next[p] # <<>> /\ Head(next[p]).kind # "partial"
      eof == ~line /\ (~request.follow \/ p \notin pods)
  IN  /\ reader[p] = "read"
      /\ \/ line /\ reader' = [reader EXCEPT ![p] = "send"] /\ UNCHANGED cut
         \/ eof /\ reader' = [reader EXCEPT ![p] = "done"] /\ UNCHANGED cut
         \/ reader' = [reader EXCEPT ![p] = "done"] /\ cut' = cut \cup {p}
      /\ UNCHANGED <<serving, ctx, pods, informing, added, loop, watching, streamer, next,
                     spurious, logs, copier, messages, crashed>>

SendLine(p) ==
  /\ reader[p] = "send"
  /\ \/ ~logs.open /\ crashed' = TRUE /\ UNCHANGED <<reader, next, logs>>
     \/ /\ HasRoom(logs)
        /\ logs' = Sent(logs, [pod |-> p, text |-> extractTimestampAndMsg(Head(next[p]))])
        /\ next' = [next EXCEPT ![p] = Tail(@)]
        /\ reader' = [reader EXCEPT ![p] = "read"] /\ UNCHANGED crashed
  /\ UNCHANGED <<serving, ctx, pods, informing, added, loop, watching, streamer, cut,
                 spurious, copier, messages>>

\* The select of podLogs; a reader that is left behind stays at done forever.
PodLogsEnd(p) ==
  /\ streamer[p] = "wait"
  /\ \/ ctx = "done" /\ UNCHANGED reader
     \/ reader[p] = "done" /\ reader' = [reader EXCEPT ![p] = "ended"]
  /\ streamer' = [streamer EXCEPT ![p] = "finish"]
  /\ UNCHANGED <<serving, ctx, pods, informing, added, loop, watching, next, cut, spurious, logs,
                 copier, messages, crashed>>

---------------------------------------------------------------------------
(* The goroutine of Query and the HTTP handler *)

\* Mutant: logs is closed and the copier leaves what is buffered.
CopyUntilClosed ==
  /\ \/ /\ copier.pc = "receive" /\ logs.open /\ logs.buf # <<>>
        /\ copier' = [pc |-> "send", msg |-> Head(logs.buf)]
        /\ logs' = Received(logs) /\ UNCHANGED messages
     \/ /\ copier.pc = "send" /\ HasRoom(messages)
        /\ copier' = [pc |-> "receive", msg |-> Nil]
        /\ messages' = Sent(messages, copier.msg) /\ UNCHANGED logs
     \/ /\ copier.pc = "receive" /\ ~logs.open
        /\ copier' = [copier EXCEPT !.pc = "ended"]
        /\ messages' = Closed(messages) /\ UNCHANGED logs
  /\ UNCHANGED <<serving, ctx, pods, informing, added, loop, watching, streaming, spurious, crashed>>

Copy ==
  /\ \/ /\ copier.pc = "receive" /\ logs.buf # <<>>
        /\ copier' = [pc |-> "send", msg |-> Head(logs.buf)]
        /\ logs' = Received(logs) /\ UNCHANGED messages
     \/ /\ copier.pc = "send" /\ HasRoom(messages)
        /\ copier' = [pc |-> "receive", msg |-> Nil]
        /\ messages' = Sent(messages, copier.msg) /\ UNCHANGED logs
     \/ /\ copier.pc = "receive" /\ Drained(logs)
        /\ copier' = [copier EXCEPT !.pc = "ended"]
        /\ messages' = Closed(messages) /\ UNCHANGED logs
  /\ UNCHANGED <<serving, ctx, pods, informing, added, loop, watching, streaming, spurious, crashed>>

\* cancelQuery is called when the handler returns.
Deliver ==
  /\ handler = "stream"
  /\ \/ /\ messages.buf # <<>>
        /\ delivered' = Append(delivered, Head(messages.buf)) /\ messages' = Received(messages)
        /\ UNCHANGED <<handler, ctx>>
     \/ /\ Drained(messages)
        /\ handler' = IF ctx = "live" THEN "complete" ELSE "stopped"
        /\ ctx' = "done" /\ UNCHANGED <<delivered, messages>>
  /\ UNCHANGED <<request, pods, informing, added, loop, watching, streaming, spurious, logs, copier,
                 crashed>>

\* The client goes away: the context of the request is done, the handler returns.
ClientLeaves ==
  /\ handler = "stream"
  /\ handler' = "stopped" /\ ctx' = "done"
  /\ UNCHANGED <<request, delivered, pods, informing, added, loop, watching, streaming, spurious,
                 logs, copier, messages, crashed>>

Timeout ==
  /\ handler = "stream" /\ ctx = "live"
  /\ ctx' = "done"
  /\ UNCHANGED <<serving, pods, informing, added, loop, watching, streaming, spurious, logs, copier,
                 messages, crashed>>

\* Pods come and go; their names are not used again.  The end of a pod shows
\* when its log is followed (a stream may fail at any time).
PodChange ==
  /\ handler \in {"query", "stream"}
  /\ \/ \E p \in Pod \ (pods \cup announced) : pods' = pods \cup {p}
     \/ request.follow /\ \E p \in pods \cap announced : pods' = pods \ {p}
  /\ UNCHANGED <<serving, ctx, informing, added, loop, watching, streaming, spurious, logs, copier,
                 messages, crashed>>

---------------------------------------------------------------------------
Init ==
  /\ request \in Request /\ pods \in Initial
  /\ handler = "query" /\ delivered = <<>> /\ ctx = "live"
  /\ announced = {} /\ onAdd = Nil /\ added = Channel(0)
  /\ loop = "none" /\ watching = 0
  /\ streamer = [p \in Pod |-> "none"] /\ reader = streamer
  /\ next = [p \in Pod |-> <<>>] /\ cut = {}
  /\ spurious = [all |-> 0, waiting |-> 0]
  /\ logs = Channel(LogBufferSize) /\ messages = logs /\ copier = [pc |-> "none", msg |-> Nil]
  /\ crashed = FALSE

Goroutine ==
  \/ Query \/ OnAdd \/ CloseAdded \/ Finished \/ Added \/ Copy \/ Deliver
  \/ \E p \in Pod :
       Announce(p) \/ OpenStream(p) \/ Read(p) \/ SendLine(p) \/ PodLogsEnd(p)

Next == ~crashed /\ (Goroutine \/ Cancelled \/ ClientLeaves \/ Timeout \/ PodChange)

\* Every goroutine runs; select chooses at random, so that the case of the
\* context is taken some time; the context has a deadline.
Fairness ==
  /\ \A p \in Pod :
       WF_vars(~crashed /\ (OpenStream(p) \/ Read(p) \/ SendLine(p) \/ PodLogsEnd(p)))
  /\ WF_vars(~crashed /\ Query) /\ WF_vars(~crashed /\ Copy) /\ WF_vars(~crashed /\ Deliver)
  /\ SF_vars(~crashed /\ Cancelled) /\ WF_vars(~crashed /\ Timeout)

Spec == Init /\ [][Next]_vars /\ Fairness

---------------------------------------------------------------------------
(* Properties *)

\* The types of the variables; watching, a uint, is never decremented below 0.
TypeOK ==
  /\ handler \in {"query", "stream", "complete", "stopped", "failed"} /\ ctx \in {"live", "done"}
  /\ watching \in Nat /\ spurious.waiting \in 0 .. spurious.all
  /\ announced \subseteq Pod /\ onAdd \in Pod \cup {Nil}
  /\ \A ch \in {added, logs, messages} : Len(ch.buf) <= ch.cap
  /\ streamer \in [Pod -> {"none", "open", "wait", "finish", "ended"}]
  /\ reader \in [Pod -> {"none", "read", "send", "done", "ended"}]

\* logs and added are closed while others may send to them, which ends the
\* provider: that needs a client that leaves, the deadline, or a pod that
\* starts when the request is over.  A request that is left alone is safe.
CrashNeedsCancel == crashed => ctx = "done"

Lines(p) == SelectSeq(delivered, LAMBDA m : m.pod = p)
Texts(p, seq) == [i \in DOMAIN seq |-> [pod |-> p, text |-> extractTimestampAndMsg(seq[i])]]

\* Reference: the last tail lines (all, for 0) of those not older than since.
\* Without either, the last 5 minutes.
Wanted(p) ==
  LET old(l) == IF request.since # Nil THEN l.age > request.since
                ELSE request.tail = 0 /\ l.age > 300
      last == {i \in DOMAIN Log[p] : ~old(Log[p][i])
                 /\ (request.tail > 0 =>
                       Cardinality({j \in i + 1 .. Len(Log[p]) : ~old(Log[p][j])}) < request.tail)}
  IN  SelectSeq([i \in DOMAIN Log[p] |-> [Log[p][i] EXCEPT !.kind = IF i \in last THEN @ ELSE "no"]],
                LAMBDA l : l.kind # "no")

\* Through two channels and four goroutines no line of a pod is lost in between,
\* doubled or put before an earlier one, whatever is cut off at the end.
LinesInOrder ==
  \A p \in Pod :
    LET wanted == Texts(p, Wanted(p))
    IN  Len(Lines(p)) <= Len(wanted) /\ \A i \in DOMAIN Lines(p) : Lines(p)[i] = wanted[i]

\* A request that ends by itself has every line it asks for of every pod that
\* the loop took and that did not break off, save an unfinished last line.
\* (since less than a second ago is 0 seconds, which the API server refuses.)
CompleteAtEnd ==
  handler = "complete" =>
    \A p \in Pod \ cut :
      streamer[p] # "none" /\ (request.since # Nil => request.since > 0) =>
        Lines(p) = Texts(p, SelectSeq(Wanted(p), LAMBDA l : l.kind # "partial"))

\* Every request ends: the deadline ends the loop, the loop closes logs, and
\* that ends the copier and the handler, or the provider crashes on the way.
\* The copier of Query, of which log.go:48 says "this ensures that the go routine
\* will resolve", stays behind in one case: the handler has gone while the
\* channel to it is full.
LogRequestEnds ==
  <>(\/ crashed
     \/ /\ handler \in {"complete", "stopped", "failed"}
        /\ \/ copier.pc \in {"none", "ended"}
           \/ handler = "stopped" /\ copier.pc = "send" /\ ~HasRoom(messages))
==============================================================================
