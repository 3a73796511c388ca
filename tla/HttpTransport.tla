----------------------------- MODULE HttpTransport -----------------------------
(***************************************************************************)
(* internal/transport/http.go.  Each call posts its request and reads the  *)
(* response on a connection of its own; a connection may be refused or     *)
(* fail at any moment (an event too long for the scanner counts as a       *)
(* failure), and net/http cuts it some time after the context of the call  *)
(* is done, with the error of that context.  The server chooses what it    *)
(* responds.                                                               *)
(***************************************************************************)
EXTENDS Errors, Sse

CONSTANTS Calls,
          Malformed,   \* the calls that cannot be made into a request
          StreamLines, \* the lines the server may put into an event stream
          MaxLines     \* bound: the lines of a stream

ASSUME MalformedAssumption == Malformed \subseteq Calls
ASSUME StreamAssumption == StreamLines \subseteq Lines /\ MaxLines \in Nat

VARIABLES
  pc,      \* where each call stands
  err,     \* what it has returned: an error chain, empty for success
  closed,  \* HTTP.closed
  ctxDone, \* the calls whose context is done
  cancelled, \* those among them that were cancelled; the others met a deadline
  conn,    \* the connection of each call
  cut,     \* the calls whose exchange net/http has abandoned
  resp,    \* what the server responds on it
  sent,    \* the lines it has put into the event stream
  nread,   \* how many of them parseSSE has read
  parse    \* the variables of parseSSE

ctxVars  == <<ctxDone, cancelled>>
netVars  == <<conn, cut, resp, sent>>
readVars == <<nread, parse>>
vars == <<pc, err, closed, ctxVars, netVars, readVars>>

(* A status outside 200..299, a body, or an event stream with AllowSSE set. *)
Responses == {"error", "json", "stream"}

Init == /\ pc = [c \in Calls |-> "idle"]
        /\ err = [c \in Calls |-> <<>>]
        /\ closed = FALSE
        /\ ctxDone = {} /\ cancelled = {}
        /\ conn = [c \in Calls |-> "none"]
        /\ cut = {}
        /\ resp = [c \in Calls |-> "none"]
        /\ sent = [c \in Calls |-> <<>>]
        /\ nread = [c \in Calls |-> 0]
        /\ parse = [c \in Calls |-> Start]

Goto(c, from, to)   == pc[c] = from /\ pc' = [pc EXCEPT ![c] = to] /\ UNCHANGED err
Return(c, from, e)  == /\ pc[c] = from /\ pc' = [pc EXCEPT ![c] = "returned"]
                       /\ err' = [err EXCEPT ![c] = e]

TransportError(cause) == <<"TransportError", cause>>

-----------------------------------------------------------------------------
(* Call, up to the request.                                                *)
CallRefused(c) ==
  /\ closed
  /\ Return(c, "idle", TransportError("plain"))
  /\ UNCHANGED <<closed, ctxVars, netVars, readVars>>

CallAdmitted(c) ==
  /\ ~closed
  /\ Goto(c, "idle", "encode")
  /\ UNCHANGED <<closed, ctxVars, netVars, readVars>>

CallCannotEncode(c) ==
  /\ c \in Malformed
  /\ Return(c, "encode", TransportError("plain"))
  /\ UNCHANGED <<closed, ctxVars, netVars, readVars>>

CallPosts(c) ==
  /\ c \notin Malformed
  /\ Goto(c, "encode", "do")
  /\ conn' = [conn EXCEPT ![c] = "pending"]
  /\ UNCHANGED <<closed, ctxVars, cut, resp, sent, readVars>>

(* client.Do: an error is a timeout if the context is done by then.        *)
Causes(c) == {cause \in {"plain", "deadline", "canceled"} :
                \/ cause = "plain" /\ conn[c] = "failed"
                \/ cause = "deadline" /\ c \in cut \ cancelled
                \/ cause = "canceled" /\ c \in cut \cap cancelled}
GivesUp(c) == Causes(c) # {}

Excused(c, cause) == IF c \in ctxDone THEN <<"TimeoutError", cause>> ELSE TransportError(cause)

CallDoFails(c) ==
  /\ \E cause \in Causes(c) : Return(c, "do", Excused(c, cause))
  /\ UNCHANGED <<closed, ctxVars, netVars, readVars>>

CallGetsResponse(c) ==
  /\ resp[c] # "none"
  /\ Goto(c, "do", CASE resp[c] = "error"  -> "drain"
                     [] resp[c] = "json"   -> "body"
                     [] resp[c] = "stream" -> "stream")
  /\ UNCHANGED <<closed, ctxVars, netVars, readVars>>

-----------------------------------------------------------------------------
(* Mutant: the body of an error is drained to its end, come what may.      *)
CallDrainsAll(c) ==
  /\ conn[c] = "ended"
  /\ Return(c, "drain", TransportError("plain"))
  /\ UNCHANGED <<closed, ctxVars, netVars, readVars>>

(* An unwelcome status: the body is drained, its error ignored.            *)
CallDrained(c) ==
  /\ conn[c] = "ended" \/ GivesUp(c)
  /\ Return(c, "drain", TransportError("plain"))
  /\ UNCHANGED <<closed, ctxVars, netVars, readVars>>

CallReadsBody(c) ==
  /\ conn[c] = "ended"
  /\ Return(c, "body", <<>>)
  /\ UNCHANGED <<closed, ctxVars, netVars, readVars>>

CallBodyFails(c) ==
  /\ \E cause \in Causes(c) : Return(c, "body", Excused(c, cause))
  /\ UNCHANGED <<closed, ctxVars, netVars, readVars>>

(* net/http, which watches the context of a request until its body is read. *)
ContextCuts(c) ==
  /\ c \in ctxDone \ cut /\ pc[c] \in {"do", "drain", "body", "stream"}
  /\ cut' = cut \cup {c}
  /\ UNCHANGED <<pc, err, closed, ctxVars, conn, resp, sent, readVars>>

(* parseSSE, a line at a time.                                             *)
CallFeeds(c) ==
  /\ pc[c] = "stream" /\ ~parse[c].stopped /\ nread[c] < Len(sent[c])
  /\ nread' = [nread EXCEPT ![c] = @ + 1]
  /\ parse' = [parse EXCEPT ![c] = Feed(@, sent[c][nread'[c]])]
  /\ UNCHANGED <<pc, err, closed, ctxVars, netVars>>

StreamEnded(c) == parse[c].stopped \/ (conn[c] = "ended" /\ nread[c] = Len(sent[c]))

(* Mutant: a stream without a matching frame is a success.                 *)
CallAcceptsAny(c) ==
  /\ StreamEnded(c)
  /\ parse' = [parse EXCEPT ![c] = Flush(@)]
  /\ Return(c, "stream", <<>>)
  /\ UNCHANGED <<closed, ctxVars, netVars, nread>>

CallStreamEnds(c) ==
  /\ StreamEnded(c)
  /\ parse' = [parse EXCEPT ![c] = Flush(@)]
  /\ Return(c, "stream", IF parse'[c].matched = Nothing THEN TransportError("plain") ELSE <<>>)
  /\ UNCHANGED <<closed, ctxVars, netVars, nread>>

(* scanner.Err: a transport error, whatever frame has matched before.      *)
CallStreamFails(c) ==
  /\ ~parse[c].stopped
  /\ \E cause \in Causes(c) : Return(c, "stream", TransportError(cause))
  /\ parse' = [parse EXCEPT ![c] = Flush(@)]
  /\ UNCHANGED <<closed, ctxVars, netVars, nread>>

CallStep(c) == \/ CallCannotEncode(c) \/ CallPosts(c) \/ CallDoFails(c)
               \/ CallGetsResponse(c) \/ CallDrained(c) \/ CallReadsBody(c)
               \/ CallBodyFails(c) \/ CallFeeds(c) \/ CallStreamEnds(c)
               \/ CallStreamFails(c)

-----------------------------------------------------------------------------
(* Close: only idle connections are closed, so no call is disturbed.       *)
Close ==
  /\ ~closed
  /\ closed' = TRUE
  /\ UNCHANGED <<pc, err, ctxVars, netVars, readVars>>

(* The deadline of the call or of its phase, or an interrupt.              *)
CtxEnds(c, cancel) ==
  /\ pc[c] # "idle" /\ c \notin ctxDone
  /\ ctxDone' = ctxDone \cup {c}
  /\ cancelled' = IF cancel THEN cancelled \cup {c} ELSE cancelled
  /\ UNCHANGED <<pc, err, closed, netVars, readVars>>

(* The server and the network, until the exchange is abandoned.            *)
ServerResponds(c, r) ==
  /\ conn[c] = "pending" /\ c \notin cut
  /\ conn' = [conn EXCEPT ![c] = "open"]
  /\ resp' = [resp EXCEPT ![c] = r]
  /\ UNCHANGED <<pc, err, closed, ctxVars, cut, sent, readVars>>

ServerStreams(c, line) ==
  /\ conn[c] = "open" /\ resp[c] = "stream" /\ Len(sent[c]) < MaxLines
  /\ c \notin cut
  /\ sent' = [sent EXCEPT ![c] = Append(@, line)]
  /\ UNCHANGED <<pc, err, closed, ctxVars, cut, conn, resp, readVars>>

ServerEnds(c) ==
  /\ conn[c] = "open" /\ c \notin cut
  /\ conn' = [conn EXCEPT ![c] = "ended"]
  /\ UNCHANGED <<pc, err, closed, ctxVars, cut, resp, sent, readVars>>

ConnFails(c) ==
  /\ conn[c] \in {"pending", "open"} /\ c \notin cut
  /\ conn' = [conn EXCEPT ![c] = "failed"]
  /\ UNCHANGED <<pc, err, closed, ctxVars, cut, resp, sent, readVars>>

NetStep(c) == \/ \E r \in Responses : ServerResponds(c, r)
              \/ \E line \in StreamLines : ServerStreams(c, line)
              \/ ServerEnds(c) \/ ConnFails(c)

-----------------------------------------------------------------------------
Terminated == (\A c \in Calls : pc[c] = "returned") /\ UNCHANGED vars

Next == \/ \E c \in Calls : \/ CallRefused(c) \/ CallAdmitted(c) \/ CallStep(c)
                            \/ (\E cancel \in BOOLEAN : CtxEnds(c, cancel)) \/ ContextCuts(c) \/ NetStep(c)
        \/ Close \/ Terminated

Spec == Init /\ [][Next]_vars

(* The calls and net/http are scheduled; server and network owe nothing.    *)
FairSpec == Spec /\ \A c \in Calls : WF_vars(CallStep(c)) /\ WF_vars(ContextCuts(c))
=============================================================================
