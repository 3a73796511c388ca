---------------------------- MODULE StdioTransport ----------------------------
(***************************************************************************)
(* transport.Stdio (internal/transport/stdio.go): concurrent Calls share   *)
(* one subprocess; a reader goroutine hands each response line to the Call *)
(* that waits for its id; Close shuts the subprocess down.  The goroutines *)
(* are the callers, the reader, the cmd.Wait goroutine and the closers.    *)
(* The subprocess is not trusted to make progress: it may ignore requests, *)
(* answer late or twice, emit lines of its own, crash, or leave behind a   *)
(* descendant that keeps its pipes open.                                   *)
(***************************************************************************)
EXTENDS Naturals, Sequences, FiniteSets

CONSTANTS Calls,      \* the invocations of Call
          Closers,    \* the invocations of Close
          Malformed,  \* the calls whose params json.Marshal rejects
          StdinCap,   \* request lines the stdin pipe holds before Write blocks
          StdoutCap,  \* lines the stdout pipe holds before the server blocks
          MaxNoise,   \* bound: lines the server emits that answer no request
          ServerIds,  \* ids the server uses for requests of its own
          Silent,     \* StdioConfig.Silent
          Forks,      \* may a descendant of the server outlive it?
          None        \* stands for "no call"

ASSUME NamesAssumption == None \notin Calls
ASSUME BoundsAssumption == /\ Malformed \subseteq Calls
                           /\ StdinCap \in Nat /\ StdoutCap \in Nat /\ MaxNoise \in Nat
                           /\ ServerIds \subseteq Nat
                           /\ Silent \in BOOLEAN /\ Forks \in BOOLEAN

VARIABLES
  pc,         \* pc[c]: the next step of call c
  id,         \* id[c]: its request id, 0 before it has one
  chan,       \* chan[c]: its channel pendingResult, of capacity one
  result,     \* result[c]: what it returned
  ctxDone,    \* the calls whose context is done
  nextId,     \* IDPool.n
  pending,    \* Stdio.pending: the map id -> channel (of a call)
  writeMu,    \* the call holding Stdio.writeMu, or None
  rpc,        \* the next step of the reader goroutine
  line,       \* the line the reader is delivering
  target,     \* the call whose channel the reader has taken from pending
  owed,       \* the ids in pending when the reader began its final Range
  stdin, stdout, stdinOpen, stdoutOpen,   \* the pipes; is our end still open?
  proc,       \* the subprocess: running or exited
  orphan,     \* a descendant outlives it and holds its pipes
  killed,     \* it has been sent SIGKILL
  inbox,      \* the requests the server has read and not answered
  answered,   \* the requests the server has answered
  noise,      \* how many lines the server has emitted unasked
  closed,     \* Stdio.closed; closeCh is closed in the same critical section
  cpc,        \* cpc[k]: the next step of closer k
  waitDone,   \* the Wait goroutine and its channel: running, sent or taken
  cancelled   \* the context given to StartStdio is done

callVars   == <<pc, id, chan, result>>
muxVars    == <<nextId, pending, writeMu>>
readerVars == <<rpc, line, target, owed>>
pipeVars   == <<stdin, stdout, stdinOpen, stdoutOpen>>
serverVars == <<proc, orphan, inbox, answered, noise>>
closeVars  == <<closed, cpc, waitDone>>
ctxVars    == <<ctxDone, cancelled, killed>>
vars == <<callVars, muxVars, readerVars, pipeVars, serverVars, closeVars, ctxVars>>

Request(c) == [id |-> id[c], call |-> c]
Requests   == [id : Nat, call : Calls]

Frame(kind, i, c) == [kind |-> kind, id |-> i, call |-> c]
Empty             == Frame("none", 0, None)
Failure           == Frame("transport", 0, None)
Expiry            == Frame("timeout", 0, None)
IsOk(f)           == f.kind \in {"response", "request"}

(* The lines a server can emit unasked: another answer to a request it has *)
(* answered, a request of its own (JSON-RPC is bidirectional), a line with *)
(* no id or no JSON at all, and a line longer than MaxLineBytes.           *)
Noise == {Frame("response", r.id, r.call) : r \in answered}
         \cup {Frame("request", i, None) : i \in ServerIds}
         \cup {Frame("unmatched", 0, None), Frame("toolong", 0, None)}

(* sync.Map's Store overwrites the entry of an equal key.                  *)
(* Mutant: entries are never deleted.                                      *)
DeleteNothing(i) == pending
Store(i, c) == {p \in pending : p.id # i} \cup {[id |-> i, call |-> c]}
Delete(i)   == {p \in pending : p.id # i}
Entries(i)  == {p \in pending : p.id = i}

(* A send on a channel of capacity one, in a select with a default.        *)
(* Mutant: the channel has no buffer.                                      *)
SentUnbuffered(c, f) == IF pc[c] = "waiting" THEN [chan EXCEPT ![c] = f] ELSE chan
Sent(c, f) == IF chan[c] = Empty THEN [chan EXCEPT ![c] = f] ELSE chan

ServerAlive == proc = "running" \/ orphan
(* Write fails once our end is closed or the last reader of the pipe died. *)
StdinBroken == ~stdinOpen \/ ~ServerAlive

InFlight(c) == pc[c] \in {"registered", "writing", "waiting"}

Init == /\ pc = [c \in Calls |-> "idle"]
        /\ id = [c \in Calls |-> 0]
        /\ chan = [c \in Calls |-> Empty]
        /\ result = [c \in Calls |-> Empty]
        /\ ctxDone = {} /\ cancelled = FALSE /\ killed = FALSE
        /\ nextId = 0 /\ pending = {} /\ writeMu = None
        /\ rpc = "reading" /\ line = Empty /\ target = None /\ owed = {}
        /\ stdin = <<>> /\ stdout = <<>> /\ stdinOpen = TRUE /\ stdoutOpen = TRUE
        /\ proc = "running" /\ orphan = FALSE
        /\ inbox = {} /\ answered = {} /\ noise = 0
        /\ closed = FALSE /\ waitDone = "running"
        /\ cpc = [k \in Closers |-> "idle"]

-----------------------------------------------------------------------------
(* Call.                                                                   *)
Goto(c, l)   == pc' = [pc EXCEPT ![c] = l]
Return(c, f) == Goto(c, "done") /\ result' = [result EXCEPT ![c] = f]

CallRejected(c) ==
  /\ pc[c] = "idle" /\ closed
  /\ Return(c, Failure)
  /\ UNCHANGED <<id, chan, muxVars, readerVars, pipeVars, serverVars, closeVars, ctxVars>>

(* Mutants: no look at closed; IDPool loses increments that race.          *)
CallAdmittedAlways(c) ==
  /\ pc[c] = "idle"
  /\ nextId' = nextId + 1
  /\ id' = [id EXCEPT ![c] = nextId']
  /\ Goto(c, "numbered")
  /\ UNCHANGED <<chan, result, pending, writeMu, readerVars, pipeVars, serverVars,
                 closeVars, ctxVars>>

CallAdmittedRacing(c) ==
  /\ pc[c] = "idle" /\ ~closed
  /\ nextId' = IF \E d \in Calls : pc[d] = "numbered" THEN nextId ELSE nextId + 1
  /\ id' = [id EXCEPT ![c] = nextId']
  /\ Goto(c, "numbered")
  /\ UNCHANGED <<chan, result, pending, writeMu, readerVars, pipeVars, serverVars,
                 closeVars, ctxVars>>

CallAdmitted(c) ==
  /\ pc[c] = "idle" /\ ~closed
  /\ nextId' = nextId + 1
  /\ id' = [id EXCEPT ![c] = nextId']
  /\ Goto(c, "numbered")
  /\ UNCHANGED <<chan, result, pending, writeMu, readerVars, pipeVars, serverVars,
                 closeVars, ctxVars>>

CallMarshalFails(c) ==
  /\ pc[c] = "numbered" /\ c \in Malformed
  /\ Return(c, Failure)
  /\ UNCHANGED <<id, chan, muxVars, readerVars, pipeVars, serverVars, closeVars, ctxVars>>

CallRegisters(c) ==
  /\ pc[c] = "numbered" /\ c \notin Malformed
  /\ pending' = Store(id[c], c)
  /\ Goto(c, "registered")
  /\ UNCHANGED <<id, chan, result, nextId, writeMu, readerVars, pipeVars, serverVars,
                 closeVars, ctxVars>>

CallLocks(c) ==
  /\ pc[c] = "registered" /\ writeMu = None
  /\ writeMu' = c
  /\ Goto(c, "writing")
  /\ UNCHANGED <<id, chan, result, nextId, pending, readerVars, pipeVars, serverVars,
                 closeVars, ctxVars>>

(* Mutant: an exit of the critical section that does not unlock.           *)
CallWriteFailsLocked(c) ==
  /\ pc[c] = "writing" /\ StdinBroken
  /\ pending' = Delete(id[c])
  /\ Return(c, Failure)
  /\ UNCHANGED <<id, chan, nextId, writeMu, readerVars, pipeVars, serverVars, closeVars,
                 ctxVars>>

(* Write blocks, lock in hand and deaf to ctx, while the pipe is full.     *)
CallWrites(c) ==
  /\ pc[c] = "writing" /\ ~StdinBroken
  /\ Len(stdin) < StdinCap
  /\ stdin' = Append(stdin, Request(c))
  /\ writeMu' = None
  /\ Goto(c, "waiting")
  /\ UNCHANGED <<id, chan, result, nextId, pending, readerVars, stdout, stdinOpen,
                 stdoutOpen, serverVars, closeVars, ctxVars>>

CallWriteFails(c) ==
  /\ pc[c] = "writing" /\ StdinBroken
  /\ writeMu' = None
  /\ pending' = Delete(id[c])
  /\ Return(c, Failure)
  /\ UNCHANGED <<id, chan, nextId, readerVars, pipeVars, serverVars, closeVars, ctxVars>>

(* The final select picks any of its ready cases.                          *)
CallReceives(c) ==
  /\ pc[c] = "waiting" /\ chan[c] # Empty
  /\ Return(c, chan[c])
  /\ chan' = [chan EXCEPT ![c] = Empty]
  /\ UNCHANGED <<id, muxVars, readerVars, pipeVars, serverVars, closeVars, ctxVars>>

(* Mutants: the context is looked at only when a result has come; and its  *)
(* branch leaves the entry in pending.                                     *)
CallTimesOutWoken(c) ==
  /\ pc[c] = "waiting" /\ c \in ctxDone /\ chan[c] # Empty
  /\ pending' = Delete(id[c])
  /\ Return(c, Expiry)
  /\ UNCHANGED <<id, chan, nextId, writeMu, readerVars, pipeVars, serverVars, closeVars,
                 ctxVars>>

CallTimesOutMapped(c) ==
  /\ pc[c] = "waiting" /\ c \in ctxDone
  /\ Return(c, Expiry)
  /\ UNCHANGED <<id, chan, muxVars, readerVars, pipeVars, serverVars, closeVars, ctxVars>>

CallTimesOut(c) ==
  /\ pc[c] = "waiting" /\ c \in ctxDone
  /\ pending' = Delete(id[c])
  /\ Return(c, Expiry)
  /\ UNCHANGED <<id, chan, nextId, writeMu, readerVars, pipeVars, serverVars, closeVars,
                 ctxVars>>

CallClosedMidway(c) ==
  /\ pc[c] = "waiting" /\ closed
  /\ pending' = Delete(id[c])
  /\ Return(c, Failure)
  /\ UNCHANGED <<id, chan, nextId, writeMu, readerVars, pipeVars, serverVars, closeVars,
                 ctxVars>>

(* What a call that has begun does by itself.                              *)
CallStep(c) == \/ CallMarshalFails(c) \/ CallRegisters(c) \/ CallLocks(c)
               \/ CallWrites(c) \/ CallWriteFails(c)
               \/ CallReceives(c) \/ CallTimesOut(c) \/ CallClosedMidway(c)

-----------------------------------------------------------------------------
(* Contexts.  Those of the calls derive from the one given to StartStdio,  *)
(* whose end makes exec.CommandContext kill the process.                   *)
CtxExpires(c) ==
  /\ pc[c] # "done" /\ c \notin ctxDone
  /\ ctxDone' = ctxDone \cup {c}
  /\ UNCHANGED <<callVars, muxVars, readerVars, pipeVars, serverVars, closeVars, cancelled,
                 killed>>

RunCancelled ==
  /\ ~cancelled
  /\ cancelled' = TRUE
  /\ ctxDone' = Calls
  /\ UNCHANGED <<callVars, muxVars, readerVars, pipeVars, serverVars, closeVars, killed>>

ContextKills ==
  /\ cancelled /\ proc = "running" /\ ~killed
  /\ killed' = TRUE
  /\ UNCHANGED <<callVars, muxVars, readerVars, pipeVars, serverVars, closeVars, ctxDone,
                 cancelled>>

-----------------------------------------------------------------------------
(* readLoop and deliver.                                                   *)
ReaderTakes ==
  /\ rpc = "reading" /\ stdout # <<>>
  /\ LET f == Head(stdout) IN
     /\ stdout' = Tail(stdout)
     /\ \/ /\ f.kind = "toolong"                     \* bufio.ErrTooLong ends the loop
           /\ rpc' = "failed"
           /\ UNCHANGED <<line, target, pending>>
        \/ /\ f.kind # "toolong" /\ Entries(f.id) = {}             \* dropped
           /\ UNCHANGED <<rpc, line, target, pending>>
        \/ /\ f.kind # "toolong"
           /\ \E p \in Entries(f.id) : target' = p.call
           /\ pending' = Delete(f.id)                              \* LoadAndDelete
           /\ line' = f
           /\ rpc' = "sending"
  /\ UNCHANGED <<callVars, nextId, writeMu, owed, stdin, stdinOpen, stdoutOpen, serverVars,
                 closeVars, ctxVars>>

ReaderSends ==
  /\ rpc = "sending"
  /\ chan' = Sent(target, line)
  /\ rpc' = "reading"
  /\ target' = None /\ line' = Empty
  /\ UNCHANGED <<pc, id, result, muxVars, owed, pipeVars, serverVars, closeVars, ctxVars>>

(* End of file: nobody holds the write end, or Wait closed the read end.   *)
ReaderEnds ==
  /\ rpc = "reading" /\ stdout = <<>>
  /\ ~stdoutOpen \/ ~ServerAlive
  /\ rpc' = "failed"
  /\ UNCHANGED <<callVars, muxVars, line, target, owed, pipeVars, serverVars, closeVars,
                 ctxVars>>

(* pending.Range visits at least the entries present when it starts and    *)
(* not deleted meanwhile; it may or may not visit those stored meanwhile.  *)
ReaderRanges ==
  /\ rpc = "failed"
  /\ rpc' = "draining"
  /\ owed' = {p.id : p \in pending}
  /\ UNCHANGED <<callVars, muxVars, line, target, pipeVars, serverVars, closeVars, ctxVars>>

(* Mutant: the callers are woken with a timeout.                           *)
ReaderWakesExpired ==
  /\ rpc = "draining"
  /\ \E p \in pending : /\ target' = p.call
                        /\ chan' = Sent(p.call, Expiry)
  /\ rpc' = "unmapping"
  /\ UNCHANGED <<pc, id, result, muxVars, line, owed, pipeVars, serverVars, closeVars,
                 ctxVars>>

ReaderWakes ==
  /\ rpc = "draining"
  /\ \E p \in pending : /\ target' = p.call
                        /\ chan' = Sent(p.call, Failure)
  /\ rpc' = "unmapping"
  /\ UNCHANGED <<pc, id, result, muxVars, line, owed, pipeVars, serverVars, closeVars,
                 ctxVars>>

ReaderUnmaps ==
  /\ rpc = "unmapping"
  /\ pending' = Delete(id[target])
  /\ target' = None
  /\ rpc' = "draining"
  /\ UNCHANGED <<callVars, nextId, writeMu, line, owed, pipeVars, serverVars, closeVars,
                 ctxVars>>

(* Mutant: the reader stops without waking everyone.                       *)
ReaderExitsEarly ==
  /\ rpc = "draining"
  /\ rpc' = "exited"
  /\ stdoutOpen' = FALSE /\ stdout' = <<>>
  /\ UNCHANGED <<callVars, muxVars, line, target, owed, stdin, stdinOpen, serverVars,
                 closeVars, ctxVars>>

ReaderExits ==
  /\ rpc = "draining"
  /\ \A p \in pending : p.id \notin owed
  /\ rpc' = "exited"
  /\ stdoutOpen' = FALSE /\ stdout' = <<>>           \* defer r.Close()
  /\ UNCHANGED <<callVars, muxVars, line, target, owed, stdin, stdinOpen, serverVars,
                 closeVars, ctxVars>>

ReaderStep == \/ ReaderTakes \/ ReaderSends \/ ReaderEnds
              \/ ReaderRanges \/ ReaderWakes \/ ReaderUnmaps \/ ReaderExits

-----------------------------------------------------------------------------
(* cmd.Wait: reaps the process; with Silent it also waits for the copy of  *)
(* stderr, which lasts while anyone holds that pipe; then it closes our    *)
(* ends of stdin and stdout.  Unread output is lost but for the lines the  *)
(* scanner has buffered.                                                   *)
WaitReturns ==
  /\ waitDone = "running" /\ proc = "exited"
  /\ Silent => ~orphan
  /\ waitDone' = "sent"
  /\ stdinOpen' = FALSE /\ stdoutOpen' = FALSE
  /\ \E n \in 0..Len(stdout) : stdout' = SubSeq(stdout, 1, n)
  /\ UNCHANGED <<callVars, muxVars, readerVars, stdin, serverVars, closed, cpc, ctxVars>>

-----------------------------------------------------------------------------
(* Close.                                                                  *)
CloseGoto(k, l) == cpc' = [cpc EXCEPT ![k] = l]

CloseRepeated(k) ==
  /\ cpc[k] = "idle" /\ closed
  /\ CloseGoto(k, "done")
  /\ UNCHANGED <<callVars, muxVars, readerVars, pipeVars, serverVars, closed, waitDone,
                 ctxVars>>

CloseBegins(k) ==
  /\ cpc[k] = "idle" /\ ~closed
  /\ closed' = TRUE
  /\ CloseGoto(k, "closing")
  /\ UNCHANGED <<callVars, muxVars, readerVars, pipeVars, serverVars, waitDone, ctxVars>>

(* stdin.Close, SIGTERM (which the server may ignore), and the timer.      *)
CloseShutsDown(k) ==
  /\ cpc[k] = "closing"
  /\ stdinOpen' = FALSE
  /\ CloseGoto(k, "grace")
  /\ UNCHANGED <<callVars, muxVars, readerVars, stdin, stdout, stdoutOpen, serverVars, closed,
                 waitDone, ctxVars>>

(* Mutant: the timer fires and no SIGKILL is sent.                         *)
CloseGivesUp(k) ==
  /\ cpc[k] = "grace"
  /\ CloseGoto(k, "killed")
  /\ UNCHANGED <<callVars, muxVars, readerVars, pipeVars, serverVars, closed, waitDone,
                 ctxVars>>

CloseKills(k) ==
  /\ cpc[k] = "grace"
  /\ killed' = TRUE
  /\ CloseGoto(k, "killed")
  /\ UNCHANGED <<callVars, muxVars, readerVars, pipeVars, serverVars, closed, waitDone,
                 ctxDone, cancelled>>

CloseReaped(k) ==
  /\ cpc[k] \in {"grace", "killed"} /\ waitDone = "sent"
  /\ waitDone' = "taken"
  /\ CloseGoto(k, "joining")
  /\ UNCHANGED <<callVars, muxVars, readerVars, pipeVars, serverVars, closed, ctxVars>>

(* Mutant: Close does not wait for the reader.                             *)
CloseLeaves(k) ==
  /\ cpc[k] = "joining"
  /\ CloseGoto(k, "done")
  /\ UNCHANGED <<callVars, muxVars, readerVars, pipeVars, serverVars, closed, waitDone,
                 ctxVars>>

CloseJoins(k) ==
  /\ cpc[k] = "joining" /\ rpc = "exited"
  /\ CloseGoto(k, "done")
  /\ UNCHANGED <<callVars, muxVars, readerVars, pipeVars, serverVars, closed, waitDone,
                 ctxVars>>

CloseStep(k) == \/ CloseShutsDown(k) \/ CloseKills(k) \/ CloseReaped(k) \/ CloseJoins(k)

-----------------------------------------------------------------------------
(* The subprocess, or the descendant that took over its pipes.             *)
ServerReads ==
  /\ ServerAlive /\ stdin # <<>>
  /\ inbox' = inbox \cup {Head(stdin)}
  /\ stdin' = Tail(stdin)
  /\ UNCHANGED <<callVars, muxVars, readerVars, stdout, stdinOpen, stdoutOpen, proc, orphan,
                 answered, noise, closeVars, ctxVars>>

ServerAnswers(r) ==
  /\ ServerAlive /\ stdoutOpen /\ Len(stdout) < StdoutCap
  /\ inbox' = inbox \ {r}
  /\ answered' = answered \cup {r}
  /\ stdout' = Append(stdout, Frame("response", r.id, r.call))
  /\ UNCHANGED <<callVars, muxVars, readerVars, stdin, stdinOpen, stdoutOpen, proc, orphan,
                 noise, closeVars, ctxVars>>

ServerNoise(f) ==
  /\ ServerAlive /\ stdoutOpen /\ Len(stdout) < StdoutCap
  /\ noise < MaxNoise
  /\ noise' = noise + 1
  /\ stdout' = Append(stdout, f)
  /\ UNCHANGED <<callVars, muxVars, readerVars, stdin, stdinOpen, stdoutOpen, proc, orphan,
                 inbox, answered, closeVars, ctxVars>>

ServerExits ==
  /\ proc = "running"
  /\ proc' = "exited"
  /\ orphan' \in BOOLEAN /\ (orphan' => Forks)
  /\ UNCHANGED <<callVars, muxVars, readerVars, pipeVars, inbox, answered, noise, closeVars,
                 ctxVars>>

OrphanExits ==
  /\ orphan
  /\ orphan' = FALSE
  /\ UNCHANGED <<callVars, muxVars, readerVars, pipeVars, proc, inbox, answered, noise,
                 closeVars, ctxVars>>

-----------------------------------------------------------------------------
Terminated == /\ \A c \in Calls : pc[c] = "done"
              /\ \A k \in Closers : cpc[k] = "done"
              /\ UNCHANGED vars

Next == \/ \E c \in Calls : \/ CallRejected(c) \/ CallAdmitted(c)
                            \/ CallStep(c) \/ CtxExpires(c)
        \/ RunCancelled \/ ContextKills
        \/ ReaderStep \/ WaitReturns
        \/ \E k \in Closers : CloseRepeated(k) \/ CloseBegins(k) \/ CloseStep(k)
        \/ ServerReads \/ ServerExits \/ OrphanExits
        \/ \E r \in inbox : ServerAnswers(r)
        \/ \E f \in Noise : ServerNoise(f)
        \/ Terminated

Spec == Init /\ [][Next]_vars

(* Our goroutines are scheduled and the kernel carries out SIGKILL; nothing *)
(* obliges the server to read, answer or exit, nor the user to cancel.      *)
Fairness == /\ \A c \in Calls : WF_vars(CallStep(c))
            /\ \A k \in Closers : WF_vars(CloseStep(k))
            /\ WF_vars(ReaderStep)
            /\ WF_vars(WaitReturns)
            /\ WF_vars(ContextKills)
            /\ WF_vars(killed /\ ServerExits)

FairSpec == Spec /\ Fairness
=============================================================================
