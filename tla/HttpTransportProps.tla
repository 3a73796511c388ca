-------------------------- MODULE HttpTransportProps --------------------------
(***************************************************************************)
(* What HttpTransport must satisfy: the contract of Transport, to which    *)
(* StdioTransport is also held.                                            *)
(***************************************************************************)
EXTENDS HttpTransport

(* The variables of parseSSE.                                              *)
Parser == [current : Seq(Data), matched : Frames \cup {Nothing},
           event : Events \cup {""}, stopped : BOOLEAN]

DataOK ==
  /\ pc \in [Calls -> {"idle", "encode", "do", "drain", "body", "stream", "returned"}]
  /\ err \in [Calls -> Seq(Links)]
  /\ closed \in BOOLEAN
  /\ ctxDone \subseteq Calls /\ cut \subseteq ctxDone /\ cancelled \subseteq ctxDone
  /\ conn \in [Calls -> {"none", "pending", "open", "ended", "failed"}]
  /\ resp \in [Calls -> Responses \cup {"none"}]
  /\ sent \in [Calls -> Seq(StreamLines)]
  /\ nread \in [Calls -> Nat]
  /\ parse \in [Calls -> Parser]
  /\ \A c \in Calls : nread[c] <= Len(sent[c])

(* Where a call stands in its exchange, and what parseSSE may have found.  *)
Pieces == Data \ {"foreign"}

StageOK(c) ==
  /\ pc[c] \in {"idle", "encode"} => conn[c] = "none"
  /\ conn[c] \in {"none", "pending"} => resp[c] = "none"
  /\ pc[c] = "drain" => resp[c] = "error"
  /\ pc[c] = "body" => resp[c] = "json"
  /\ pc[c] = "stream" => resp[c] = "stream"

HoldsPiece(p) == p.matched # Nothing \/ \E k \in 1..Len(p.current) : p.current[k] \in Pieces

ReadOK(c) == HoldsPiece(parse[c]) => \E k \in 1..nread[c] : sent[c][k] \in Pieces

(* Every variable has its type, a call reads the kind of response it got,  *)
(* and what parseSSE holds for it came with its own stream.                *)
TypeOK == DataOK /\ \A c \in Calls : StageOK(c) /\ ReadOK(c)

-----------------------------------------------------------------------------
(* The caller sees the type of the error.                                  *)
Status(c) == CASE pc[c] = "idle" -> "idle"
               [] pc[c] \notin {"idle", "returned"} -> "active"
               [] pc[c] = "returned" /\ err[c] = <<>> -> "ok"
               [] pc[c] = "returned" /\ err[c] # <<>> ->
                    IF err[c][1] = "TimeoutError" THEN "timeout" ELSE "transport"

(* The server has answered a call with a whole body, or with a frame that  *)
(* carries the id of the call.                                             *)
Answered(c) == \/ resp[c] = "json" /\ conn[c] = "ended"
               \/ \E k \in 1..Len(sent[c]) : sent[c][k] \notin {"blank", "comment", "done", "message", "foreign"}

(* The grounds for a transport error.  A stream that has come to its end,  *)
(* or is cut off by the context, counts as a connection that has failed.   *)
Lost(c) == \/ conn[c] = "failed" \/ resp[c] = "error"
           \/ resp[c] = "stream" /\ (c \in cut \/ conn[c] = "ended" \/ parse[c].stopped)

Contract == INSTANCE Transport WITH
              Strays   <- FALSE,
              status   <- [c \in Calls |-> Status(c)],
              expired  <- ctxDone,
              shut     <- closed,
              broken   <- {c \in Calls : Lost(c)},
              answered <- {c \in Calls : Answered(c)}

(* Call and Close keep the contract: a call succeeds only with an answer   *)
(* of its own, times out only when its context is done, and fails only for *)
(* a reason; none begins after Close.                                      *)
ImplementsContract == Contract!Spec

(* A call that nothing but its deadline has ended is counted as a timeout, *)
(* whatever it was reading; one that nothing but an interrupt has ended is *)
(* too, unless it was reading an event stream: that counts against the     *)
(* transport.                                                              *)
OnlyContext(c) == /\ conn[c] \in {"pending", "open"} /\ resp[c] # "error"
                  /\ pc[c] = "returned" /\ ~parse[c].stopped

DeadlinesAreTimeouts ==
  \A c \in Calls : OnlyContext(c) =>
    \/ Classify(err[c]) = "timeout"
    \/ c \in cancelled /\ resp[c] = "stream" /\ Classify(err[c]) = "transport"

(* Call honours its context: once that is done, a call in flight returns,  *)
(* however long the server withholds a response, or the rest of a body, of *)
(* an error page or of an event stream.                                    *)
DeadlineHonoured ==
  \A c \in Calls : c \in ctxDone /\ pc[c] # "idle" ~> pc[c] = "returned"
=============================================================================
