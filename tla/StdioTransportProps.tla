------------------------- MODULE StdioTransportProps -------------------------
(***************************************************************************)
(* What StdioTransport must satisfy: type correctness, the safety of the   *)
(* multiplexing and of Close, the contract it implements, and progress.    *)
(***************************************************************************)
EXTENDS StdioTransport

(* Every variable has its type: in particular the channels and the results *)
(* hold what deliver, the final Range and the exits of Call put there.     *)
Lines == [kind : {"response", "request", "unmatched", "toolong"},
          id : Nat, call : Calls \cup {None}]

DataOK ==
  /\ pc \in [Calls -> {"idle", "numbered", "registered", "writing", "waiting", "done"}]
  /\ id \in [Calls -> Nat]
  /\ chan \in [Calls -> Lines \cup {Failure, Empty}]
  /\ result \in [Calls -> Lines \cup {Failure, Expiry, Empty}]
  /\ ctxDone \subseteq Calls
  /\ nextId \in Nat /\ pending \subseteq Requests /\ writeMu \in Calls \cup {None}
  /\ rpc \in {"reading", "sending", "failed", "draining", "unmapping", "exited"}
  /\ line \in Lines \cup {Empty} /\ target \in Calls \cup {None} /\ owed \subseteq Nat
  /\ stdin \in Seq(Requests) /\ stdout \in Seq(Lines)
  /\ proc \in {"running", "exited"} /\ waitDone \in {"running", "sent", "taken"}
  /\ inbox \subseteq Requests /\ answered \subseteq Requests /\ noise \in Nat
  /\ cpc \in [Closers -> {"idle", "closing", "grace", "killed", "joining", "done"}]

FlagsOK ==
  /\ stdinOpen \in BOOLEAN /\ stdoutOpen \in BOOLEAN
  /\ orphan \in BOOLEAN /\ killed \in BOOLEAN
  /\ closed \in BOOLEAN /\ cancelled \in BOOLEAN

TypeOK == DataOK /\ FlagsOK

(* A call in flight can still be woken: its channel is in pending, or in   *)
(* the hands of the reader, or already holds its result.  No interleaving  *)
(* of Store, LoadAndDelete, Range and Delete loses it.                     *)
NoLostWakeup == \A c \in Calls : InFlight(c) =>
                  Request(c) \in pending \/ target = c \/ chan[c] # Empty

(* The non-blocking sends of deliver and of the final Range never take     *)
(* their default branch: what the reader hands to a call is never dropped. *)
NoDroppedResult == /\ rpc = "sending" => chan[target] = Empty
                   /\ rpc = "draining" => \A p \in pending : chan[p.call] = Empty

(* However calls, answers, duplicates and late answers interleave, a call  *)
(* that returns a response returns the response to its own request.        *)
ResultIsMine == \A c \in Calls : result[c].kind = "response" => result[c].call = c

(* pending holds no entry of a call that has returned, except the one that *)
(* the final Range has woken and is about to delete: no early return of    *)
(* Call leaks its entry.                                                   *)
NoLeakedEntry == \A p \in pending : \/ InFlight(p.call)
                                    \/ rpc = "unmapping" /\ target = p.call

(* When the reader has gone, every call it found registered was woken: a   *)
(* call left to wait for its deadline registered after the final Range     *)
(* began.                                                                  *)
NoneStranded == rpc = "exited" =>
                  \A c \in Calls : InFlight(c) /\ chan[c] = Empty => id[c] \notin owed

(* Once the Close that found the transport open has returned, the process  *)
(* is reaped, the reader has exited, both pipes are closed and, when       *)
(* stderr is copied, nothing of the server is left.                        *)
CloseComplete == closed /\ (\A k \in Closers : cpc[k] \in {"idle", "done"}) =>
                   /\ proc = "exited" /\ rpc = "exited"
                   /\ ~stdinOpen /\ ~stdoutOpen
                   /\ Silent => ~orphan

-----------------------------------------------------------------------------
(* The inductive strengthening of the invariants above.                    *)
Unregistered(c) == pc[c] \in {"idle", "numbered"}

(* Every call that has begun has an id of its own.                         *)
IdsOK == \A c \in Calls :
  /\ id[c] <= nextId
  /\ pc[c] = "idle" => id[c] = 0
  /\ pc[c] = "numbered" \/ InFlight(c) => id[c] # 0
  /\ \A d \in Calls : id[c] = id[d] /\ id[c] # 0 => c = d

(* pending maps the id of a call in flight to the channel of that call,    *)
(* and nothing is in a channel that pending still leads to.                *)
EntriesOK == \A p \in pending :
  /\ p.id = id[p.call] /\ p.id # 0
  /\ ~Unregistered(p.call)
  /\ chan[p.call] = Empty \/ (rpc = "unmapping" /\ target = p.call)

ChannelsOK == \A c \in Calls : Unregistered(c) => chan[c] = Empty

(* Between LoadAndDelete and the send, and between the wake and the Delete *)
(* of the final Range, the reader is the only one to hold the channel.     *)
ReaderOK ==
  /\ target # None <=> rpc \in {"sending", "unmapping"}
  /\ rpc = "sending" => /\ chan[target] = Empty
                        /\ Request(target) \notin pending
                        /\ line \in Lines /\ line.id = id[target]
  /\ rpc = "unmapping" /\ InFlight(target) => chan[target] # Empty
  /\ target # None => ~Unregistered(target)

(* The final Range owes nothing to a call that registers after it began.   *)
OwedOK == /\ \A i \in owed : i # 0 /\ i <= nextId
          /\ \A c \in Calls : Unregistered(c) => id[c] \notin owed
          /\ rpc = "exited" => \A p \in pending : p.id \notin owed

MuxInv == IdsOK /\ EntriesOK /\ ChannelsOK /\ ReaderOK /\ OwedOK
          /\ NoLostWakeup /\ NoLeakedEntry

(* A request, and the answer to it, carry the id of the call they are for; *)
(* the server answers what it has read, and uses ids of its own only if it *)
(* has some; what reaches the channel of a call is meant for it.           *)
Genuine(r) == r.call \in Calls /\ r.id = id[r.call] /\ r.id # 0

Justified(f) == /\ f.kind = "response" => Genuine(f) /\ Request(f.call) \in answered
                /\ f.kind = "request" => ServerIds # {}
                /\ f.kind = "unmatched" => f.id = 0

Meant(f, c) == /\ f.kind \notin {"unmatched", "toolong"}
               /\ f.kind = "response" => f.call = c /\ Request(c) \in answered
               /\ f.kind = "request" => ServerIds # {}

FramesOK == /\ \A i \in 1..Len(stdin) : Genuine(stdin[i])
            /\ \A r \in inbox \cup answered : Genuine(r)
            /\ \A i \in 1..Len(stdout) : Justified(stdout[i])
            /\ rpc = "sending" => Meant(line, target)
            /\ \A c \in Calls : Meant(chan[c], c) /\ Meant(result[c], c)
            /\ \A c \in Calls : chan[c].kind = "transport" => rpc \notin {"reading", "sending"}

(* One closer at a time shuts the transport down; the process is reaped    *)
(* before the pipes close, and a descendant is there only after its exit.  *)
Shutting(k) == cpc[k] \in {"closing", "grace", "killed", "joining"}

CloseInv ==
  /\ \A k, j \in Closers : Shutting(k) /\ Shutting(j) => k = j
  /\ ~closed => \A k \in Closers : cpc[k] = "idle"
  /\ closed => \/ \E k \in Closers : Shutting(k)
               \/ waitDone = "taken" /\ rpc = "exited"
  /\ \A k \in Closers : cpc[k] = "joining" => waitDone = "taken"
  /\ waitDone # "running" => proc = "exited" /\ ~stdinOpen /\ (Silent => ~orphan)
  /\ rpc = "exited" => ~stdoutOpen
  /\ orphan => proc = "exited"
  /\ ~stdinOpen => closed \/ proc = "exited"

-----------------------------------------------------------------------------
(* What the stdio transport promises its callers.                          *)
Status(c) == CASE pc[c] = "idle" -> "idle"
               [] pc[c] = "done" -> IF IsOk(result[c]) THEN "ok" ELSE result[c].kind
               [] OTHER          -> "active"

Statuses  == [c \in Calls |-> Status(c)]
Broken    == ~stdinOpen \/ rpc \notin {"reading", "sending"} \/ proc = "exited"
Lost      == {c \in Calls : Broken}
Addressed == {r.call : r \in answered}

Contract == INSTANCE Transport WITH
              Strays <- ServerIds # {}, status <- Statuses, expired <- ctxDone,
              shut <- closed, broken <- Lost, answered <- Addressed

(* Every behaviour of the goroutines is one the contract allows.           *)
ImplementsContract == Contract!Spec

-----------------------------------------------------------------------------
(* Call honours its context: once that is done, a call in flight returns.  *)
DeadlineHonoured == \A c \in Calls : c \in ctxDone /\ pc[c] # "idle" ~> pc[c] = "done"

(* Close releases every call, wherever it is blocked, without any deadline *)
(* and whatever the server does.                                           *)
CloseReleasesCalls == closed ~> \A c \in Calls : pc[c] \in {"idle", "done"}

(* Close returns, even when the server ignores SIGTERM.                    *)
CloseReturns == \A k \in Closers : cpc[k] # "idle" ~> cpc[k] = "done"

(* When the reader gives up, the calls that wait for an answer are woken   *)
(* without waiting for their deadlines.                                    *)
ReaderFailureWakes ==
  \A c \in Calls : (rpc = "failed" /\ pc[c] = "waiting") ~> pc[c] = "done"

(* After the reader has given up, a call is reported as a transport error  *)
(* and not as a timeout.                                                   *)
LateCallsFailAsTransport ==
  [][\A c \in Calls : rpc = "exited" /\ chan[c] = Empty /\ pc[c] # "done" =>
       result'[c].kind # "timeout"]_vars

=============================================================================
