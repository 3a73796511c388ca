------------------------------ MODULE Transport ------------------------------
(***************************************************************************)
(* The contract of transport.Transport (internal/transport/transport.go):  *)
(* what a caller of Call and Close may rely on, whatever carries the       *)
(* frames.  StdioTransport and HttpTransport are shown to implement it.    *)
(***************************************************************************)
CONSTANTS Calls,      \* the invocations of Call
          Malformed,  \* the calls whose params cannot be encoded as JSON
          Strays      \* may the server emit a frame with an id it was not asked about?

VARIABLES status,     \* where each call stands, or how it returned
          expired,    \* the calls whose context is done
          shut,       \* Close has been called
          broken,     \* the calls whose connection to the server has failed
          answered    \* the calls the server has answered

vars == <<status, expired, shut, broken, answered>>

Returned == {"ok", "timeout", "transport"}

TypeOK == /\ status \in [Calls -> {"idle", "active"} \cup Returned]
          /\ expired \subseteq Calls
          /\ answered \subseteq Calls
          /\ shut \in BOOLEAN
          /\ broken \subseteq Calls

Init == /\ status = [c \in Calls |-> "idle"]
        /\ expired = {}
        /\ answered = {}
        /\ shut = FALSE
        /\ broken = {}

Moves(c, from, to) == /\ status[c] = from
                      /\ status' = [status EXCEPT ![c] = to]
                      /\ UNCHANGED <<expired, shut, broken, answered>>

(* A call begins while the transport is open; after Close it is refused.   *)
Begin(c)  == ~shut /\ Moves(c, "idle", "active")
Refuse(c) == shut /\ Moves(c, "idle", "transport")

(* An active call returns: with an answer, because its context is done, or *)
(* because the transport cannot carry it any more.                         *)
Complete(c) == (c \in answered \/ Strays) /\ Moves(c, "active", "ok")
TimeOut(c)  == c \in expired /\ Moves(c, "active", "timeout")
Fail(c)     == (shut \/ c \in broken \/ c \in Malformed) /\ Moves(c, "active", "transport")

(* The world around the calls.                                             *)
Answer(c) == /\ status[c] # "idle"
             /\ answered' = answered \cup {c}
             /\ UNCHANGED <<status, expired, shut, broken>>
Expire(S) == /\ expired' = expired \cup S
             /\ UNCHANGED <<status, shut, broken, answered>>
Shut      == /\ shut' = TRUE
             /\ UNCHANGED <<status, expired, broken, answered>>
Break(S)  == /\ broken' = broken \cup S
             /\ UNCHANGED <<status, expired, shut, answered>>

Next == \/ \E c \in Calls : \/ Begin(c) \/ Refuse(c)
                            \/ Complete(c) \/ TimeOut(c) \/ Fail(c)
                            \/ Answer(c)
        \/ \E S \in SUBSET Calls : Expire(S) \/ Break(S)
        \/ Shut

Spec == Init /\ [][Next]_vars
=============================================================================
