-------------------------- MODULE StdioTransportProofs --------------------------
(***************************************************************************)
(* Theorems about StdioTransport, for any number of calls and closers, any *)
(* capacity of the pipes and any amount of noise from the server: its      *)
(* wakeups and entries, then that a response reaches only the call it      *)
(* answers, that Close leaves nothing running, and that the transport      *)
(* implements the contract of Transport.                                   *)
(***************************************************************************)
EXTENDS StdioTransportProps, TLAPS

LEMMA StdoutHead ==
  ASSUME DataOK, stdout # <<>>
  PROVE  Head(stdout) \in Lines /\ Tail(stdout) \in Seq(Lines)
BY DEF DataOK

(* Type correctness needs only the assumptions on the constants.           *)
LEMMA DataStep == DataOK /\ [Next]_vars => DataOK'
<1> USE DEF DataOK, callVars, muxVars, readerVars, pipeVars, serverVars, closeVars, ctxVars,
        Goto, Return, CloseGoto
<1>1. ASSUME DataOK, NEW c \in Calls, CallRejected(c) PROVE DataOK'
  BY <1>1 DEF CallRejected
<1>2. ASSUME DataOK, NEW c \in Calls, CallAdmitted(c) PROVE DataOK'
  BY <1>2 DEF CallAdmitted
<1>3. ASSUME DataOK, NEW c \in Calls, CallMarshalFails(c) PROVE DataOK'
  BY <1>3 DEF CallMarshalFails
<1>4. ASSUME DataOK, NEW c \in Calls, CallRegisters(c) PROVE DataOK'
  BY <1>4 DEF CallRegisters, Store, Requests
<1>5. ASSUME DataOK, NEW c \in Calls, CallLocks(c) PROVE DataOK'
  BY <1>5 DEF CallLocks
<1>6. ASSUME DataOK, NEW c \in Calls, CallWrites(c) PROVE DataOK'
  BY <1>6 DEF CallWrites, Request, Requests
<1>7. ASSUME DataOK, NEW c \in Calls, CallWriteFails(c) PROVE DataOK'
  BY <1>7 DEF CallWriteFails, Delete
<1>8. ASSUME DataOK, NEW c \in Calls, CallReceives(c) PROVE DataOK'
  BY <1>8 DEF CallReceives
<1>9. ASSUME DataOK, NEW c \in Calls, CallTimesOut(c) PROVE DataOK'
  BY <1>9 DEF CallTimesOut, Delete
<1>10. ASSUME DataOK, NEW c \in Calls, CallClosedMidway(c) PROVE DataOK'
  BY <1>10 DEF CallClosedMidway, Delete
<1>11. ASSUME DataOK, NEW c \in Calls, CtxExpires(c) PROVE DataOK'
  BY <1>11 DEF CtxExpires
<1>12. ASSUME DataOK, RunCancelled PROVE DataOK'
  BY <1>12 DEF RunCancelled
<1>13. ASSUME DataOK, ContextKills PROVE DataOK'
  BY <1>13 DEF ContextKills
<1>14. ASSUME DataOK, ReaderTakes PROVE DataOK'
  <2>1. Head(stdout) \in Lines /\ Tail(stdout) \in Seq(Lines)
    BY <1>14, StdoutHead DEF ReaderTakes
  <2>2. /\ rpc' \in {"reading", "sending", "failed"}
        /\ target' \in Calls \cup {None} /\ line' \in Lines \cup {Empty}
        /\ pending' \subseteq Requests
    BY <1>14, <2>1 DEF ReaderTakes, Delete, Entries, Requests
  <2> QED
    BY <1>14, <2>1, <2>2 DEF ReaderTakes
<1>15. ASSUME DataOK, ReaderSends PROVE DataOK'
  BY <1>15 DEF ReaderSends, Sent
<1>16. ASSUME DataOK, ReaderEnds PROVE DataOK'
  BY <1>16 DEF ReaderEnds
<1>17. ASSUME DataOK, ReaderRanges PROVE DataOK'
  BY <1>17 DEF ReaderRanges, Requests
<1>18. ASSUME DataOK, ReaderExits PROVE DataOK'
  BY <1>18 DEF ReaderExits
<1>19. ASSUME DataOK, ReaderWakes PROVE DataOK'
  BY <1>19 DEF ReaderWakes, Sent, Requests
<1>20. ASSUME DataOK, ReaderUnmaps PROVE DataOK'
  BY <1>20 DEF ReaderUnmaps, Delete
<1>21. ASSUME DataOK, WaitReturns PROVE DataOK'
  BY <1>21 DEF WaitReturns
<1>22. ASSUME DataOK, NEW k \in Closers, CloseRepeated(k) PROVE DataOK'
  BY <1>22 DEF CloseRepeated
<1>23. ASSUME DataOK, NEW k \in Closers, CloseBegins(k) PROVE DataOK'
  BY <1>23 DEF CloseBegins
<1>24. ASSUME DataOK, NEW k \in Closers, CloseShutsDown(k) PROVE DataOK'
  BY <1>24 DEF CloseShutsDown
<1>25. ASSUME DataOK, NEW k \in Closers, CloseKills(k) PROVE DataOK'
  BY <1>25 DEF CloseKills
<1>26. ASSUME DataOK, NEW k \in Closers, CloseReaped(k) PROVE DataOK'
  BY <1>26 DEF CloseReaped
<1>27. ASSUME DataOK, NEW k \in Closers, CloseJoins(k) PROVE DataOK'
  BY <1>27 DEF CloseJoins
<1>28. ASSUME DataOK, ServerReads PROVE DataOK'
  BY <1>28 DEF ServerReads
<1>29. ASSUME DataOK, NEW r \in inbox, ServerAnswers(r) PROVE DataOK'
  BY <1>29 DEF ServerAnswers, Frame, Lines, Requests
<1>30. ASSUME DataOK, NEW f \in Noise, ServerNoise(f) PROVE DataOK'
  <2>1. f \in Lines
    BY <1>30, BoundsAssumption DEF DataOK, Noise, Frame, Lines, Requests
  <2> QED
    BY <1>30, <2>1 DEF ServerNoise
<1>31. ASSUME DataOK, ServerExits PROVE DataOK'
  BY <1>31 DEF ServerExits
<1>32. ASSUME DataOK, OrphanExits PROVE DataOK'
  BY <1>32 DEF OrphanExits
<1>33. ASSUME DataOK, UNCHANGED vars PROVE DataOK'
  BY <1>33 DEF vars
<1> QED
  BY <1>1, <1>2, <1>3, <1>4, <1>5, <1>6, <1>7, <1>8, <1>9, <1>10, <1>11, <1>12,
     <1>13, <1>14, <1>15, <1>16, <1>17, <1>18, <1>19, <1>20, <1>21, <1>22,
     <1>23, <1>24, <1>25, <1>26, <1>27, <1>28, <1>29, <1>30, <1>31, <1>32, <1>33
     DEF Next, CallStep, ReaderStep, CloseStep, Terminated

LEMMA FlagsStep == FlagsOK /\ [Next]_vars => FlagsOK'
<1> USE DEF FlagsOK, callVars, muxVars, readerVars, pipeVars, serverVars, closeVars, ctxVars
<1>1. ASSUME FlagsOK,
             NEW c \in Calls, CallRejected(c) \/ CallAdmitted(c) \/ CallStep(c) \/ CtxExpires(c)
      PROVE  FlagsOK'
  BY <1>1, Zenon DEF CallRejected, CallAdmitted, CallStep, CtxExpires, CallMarshalFails,
     CallRegisters, CallLocks, CallWrites, CallWriteFails, CallReceives, CallTimesOut,
     CallClosedMidway
<1>2. ASSUME FlagsOK, RunCancelled \/ ContextKills \/ WaitReturns PROVE FlagsOK'
  BY <1>2, Zenon DEF RunCancelled, ContextKills, WaitReturns
<1>3. ASSUME FlagsOK, ReaderStep PROVE FlagsOK'
  BY <1>3, Zenon DEF ReaderStep, ReaderTakes, ReaderSends, ReaderEnds, ReaderRanges,
     ReaderWakes, ReaderUnmaps, ReaderExits
<1>4. ASSUME FlagsOK,
             NEW k \in Closers, CloseRepeated(k) \/ CloseBegins(k) \/ CloseStep(k)
      PROVE  FlagsOK'
  BY <1>4, Zenon DEF CloseRepeated, CloseBegins, CloseStep, CloseShutsDown, CloseKills,
     CloseReaped, CloseJoins
<1>5. ASSUME FlagsOK,
             \/ ServerReads \/ ServerExits \/ OrphanExits
             \/ \E r \in inbox : ServerAnswers(r)
             \/ \E f \in Noise : ServerNoise(f)
      PROVE  FlagsOK'
  BY <1>5, Zenon DEF ServerReads, ServerExits, OrphanExits, ServerAnswers, ServerNoise
<1>6. ASSUME FlagsOK, Terminated \/ UNCHANGED vars PROVE FlagsOK'
  BY <1>6, Zenon DEF Terminated, vars
<1> QED
  BY <1>1, <1>2, <1>3, <1>4, <1>5, <1>6 DEF Next

LEMMA TypeInit == Init => TypeOK
<1>1. Init => DataOK
  BY DEF Init, DataOK, Lines, Empty
<1>2. Init => FlagsOK
  BY Zenon DEF Init, FlagsOK
<1> QED
  BY <1>1, <1>2 DEF TypeOK

(* The state of the transport has the types the code gives it.             *)
THEOREM TypeCorrect == Spec => []TypeOK
<1>1. TypeOK /\ [Next]_vars => TypeOK'
  BY DataStep, FlagsStep DEF TypeOK
<1> QED
  BY TypeInit, <1>1, PTL DEF Spec

-----------------------------------------------------------------------------
(* The variables that MuxInv speaks of.                                    *)
muxState == <<pc, id, chan, nextId, pending, rpc, target, line, owed>>

LEMMA MuxInit == Init => MuxInv
  BY NamesAssumption DEF Init, MuxInv, IdsOK, EntriesOK, ChannelsOK, ReaderOK, OwedOK,
     NoLostWakeup, NoLeakedEntry, Unregistered, InFlight

(* Contexts, the Wait goroutine, Close and the server leave all of it as   *)
(* it is: only the steps of Call and of the reader can disturb MuxInv.     *)
LEMMA OtherSteps ==
  ASSUME \/ \E c \in Calls : CtxExpires(c)
         \/ RunCancelled \/ ContextKills \/ WaitReturns
         \/ \E k \in Closers : CloseRepeated(k) \/ CloseBegins(k) \/ CloseStep(k)
         \/ ServerReads \/ ServerExits \/ OrphanExits
         \/ \E r \in inbox : ServerAnswers(r)
         \/ \E f \in Noise : ServerNoise(f)
         \/ Terminated \/ UNCHANGED vars
  PROVE  UNCHANGED muxState
<1> USE DEF muxState, callVars, muxVars, readerVars, vars
<1> QED
  BY DEF CtxExpires, RunCancelled, ContextKills, WaitReturns, CloseRepeated, CloseBegins,
     CloseStep, CloseShutsDown, CloseKills, CloseReaped, CloseJoins, ServerReads,
     ServerExits, OrphanExits, ServerAnswers, ServerNoise, Terminated

(* deliver either drops the line or takes the entry of its id.             *)
LEMMA TakesCases ==
  ASSUME ReaderTakes
  PROVE  \/ UNCHANGED pending
         \/ \E p \in pending : /\ p.id = Head(stdout).id /\ target' = p.call
                               /\ pending' = Delete(p.id)
                               /\ line' = Head(stdout) /\ rpc' = "sending"
BY DEF ReaderTakes, Entries

LEMMA MuxStep == DataOK /\ MuxInv /\ [Next]_vars => MuxInv'
<1> USE NamesAssumption DEF DataOK, MuxInv, IdsOK, EntriesOK, ChannelsOK, ReaderOK, OwedOK,
        NoLostWakeup, NoLeakedEntry, Unregistered, InFlight, Request, Requests, Lines,
        Frame, Empty, Failure, Expiry, Goto, Return, Sent, Store, Delete, Entries,
        callVars, muxVars, readerVars
<1>1. ASSUME DataOK, MuxInv, NEW c \in Calls, CallRejected(c) PROVE MuxInv'
  BY <1>1 DEF CallRejected
<1>2. ASSUME DataOK, MuxInv, NEW c \in Calls, CallAdmitted(c) PROVE MuxInv'
  BY <1>2 DEF CallAdmitted
<1>3. ASSUME DataOK, MuxInv, NEW c \in Calls, CallMarshalFails(c) PROVE MuxInv'
  BY <1>3 DEF CallMarshalFails
<1>4. ASSUME DataOK, MuxInv, NEW c \in Calls, CallRegisters(c) PROVE MuxInv'
  BY <1>4 DEF CallRegisters
<1>5. ASSUME DataOK, MuxInv, NEW c \in Calls, CallLocks(c) PROVE MuxInv'
  BY <1>5 DEF CallLocks
<1>6. ASSUME DataOK, MuxInv, NEW c \in Calls, CallWrites(c) PROVE MuxInv'
  BY <1>6 DEF CallWrites
<1>7. ASSUME DataOK, MuxInv, NEW c \in Calls, CallWriteFails(c) PROVE MuxInv'
  BY <1>7 DEF CallWriteFails
<1>8. ASSUME DataOK, MuxInv, NEW c \in Calls, CallReceives(c) PROVE MuxInv'
  BY <1>8 DEF CallReceives
<1>9. ASSUME DataOK, MuxInv, NEW c \in Calls, CallTimesOut(c) PROVE MuxInv'
  BY <1>9 DEF CallTimesOut
<1>10. ASSUME DataOK, MuxInv, NEW c \in Calls, CallClosedMidway(c) PROVE MuxInv'
  BY <1>10 DEF CallClosedMidway
<1>11. ASSUME DataOK, MuxInv, ReaderTakes PROVE MuxInv'
  <2>1. Head(stdout) \in Lines
    BY <1>11, StdoutHead DEF ReaderTakes
  <2>2. CASE UNCHANGED pending
    BY <1>11, <2>2 DEF ReaderTakes
  <2>3. ASSUME NEW p \in pending, p.id = Head(stdout).id, target' = p.call,
               pending' = Delete(p.id), line' = Head(stdout), rpc' = "sending"
        PROVE  MuxInv'
    <3>1. IdsOK' /\ EntriesOK' /\ ChannelsOK' /\ OwedOK' /\ NoLeakedEntry'
      BY <1>11, <2>3 DEF ReaderTakes
    <3>2. ReaderOK'
      BY <1>11, <2>1, <2>3 DEF ReaderTakes
    <3>3. NoLostWakeup'
      BY <1>11, <2>3 DEF ReaderTakes
    <3> QED
      BY <3>1, <3>2, <3>3
  <2> QED
    BY <1>11, <2>2, <2>3, TakesCases
<1>12. ASSUME DataOK, MuxInv, ReaderSends PROVE MuxInv'
  BY <1>12 DEF ReaderSends
<1>13. ASSUME DataOK, MuxInv, ReaderEnds PROVE MuxInv'
  BY <1>13 DEF ReaderEnds
<1>14. ASSUME DataOK, MuxInv, ReaderRanges PROVE MuxInv'
  BY <1>14 DEF ReaderRanges
<1>15. ASSUME DataOK, MuxInv, ReaderExits PROVE MuxInv'
  BY <1>15 DEF ReaderExits
<1>16. ASSUME DataOK, MuxInv, ReaderWakes PROVE MuxInv'
  BY <1>16 DEF ReaderWakes
<1>17. ASSUME DataOK, MuxInv, ReaderUnmaps PROVE MuxInv'
  BY <1>17 DEF ReaderUnmaps
<1>18. ASSUME DataOK, MuxInv, UNCHANGED muxState PROVE MuxInv'
  BY <1>18 DEF muxState
<1> QED
  BY OtherSteps, <1>1, <1>2, <1>3, <1>4, <1>5, <1>6, <1>7, <1>8, <1>9, <1>10, <1>11,
     <1>12, <1>13, <1>14, <1>15, <1>16, <1>17, <1>18
     DEF Next, CallStep, ReaderStep

(* No call that is in flight is ever beyond reach of a wake-up.            *)
THEOREM MuxCorrect == Spec => []MuxInv
<1>1. TypeOK /\ MuxInv /\ [Next]_vars => MuxInv'
  BY MuxStep DEF TypeOK
<1> QED
  BY TypeCorrect, MuxInit, <1>1, PTL DEF Spec

(* A call in flight can always be woken.                                   *)
THEOREM WakeupsKept == Spec => []NoLostWakeup
<1>1. MuxInv => NoLostWakeup
  BY DEF MuxInv
<1> QED
  BY MuxCorrect, <1>1, PTL

(* The entries of pending are those of calls in flight.                    *)
THEOREM EntriesReclaimed == Spec => []NoLeakedEntry
<1>1. MuxInv => NoLeakedEntry
  BY DEF MuxInv
<1> QED
  BY MuxCorrect, <1>1, PTL

(* The reader never drops a result at a full channel.                      *)
THEOREM ResultsKept == Spec => []NoDroppedResult
<1>1. MuxInv => NoDroppedResult
  BY DEF MuxInv, NoDroppedResult, ReaderOK, EntriesOK
<1> QED
  BY MuxCorrect, <1>1, PTL

(* A reader that has gone has woken all it found registered.               *)
THEOREM DrainComplete == Spec => []NoneStranded
<1>1. MuxInv => NoneStranded
  BY NamesAssumption DEF MuxInv, NoneStranded, NoLostWakeup, ReaderOK, OwedOK, Request, InFlight
<1> QED
  BY MuxCorrect, <1>1, PTL

-----------------------------------------------------------------------------
(* Frames.                                                                 *)
LEMMA FramesInit == Init => FramesOK
BY DEF Init, FramesOK, Meant, Empty, Frame

LEMMA NoiseLines == DataOK => Noise \subseteq Lines
BY BoundsAssumption DEF DataOK, Noise, Frame, Lines, Requests

(* The steps that leave the frames, the channels and the results alone.    *)
frameState == <<id, chan, result, stdin, stdout, inbox, answered, line, target, rpc>>

LEMMA FramesStep == DataOK /\ MuxInv /\ FramesOK /\ [Next]_vars => FramesOK'
<1> USE NamesAssumption DEF DataOK, FramesOK, Meant, Justified, Genuine, Request, Requests,
        Goto, Return, Sent, Frame, Empty, Failure, Expiry,
        callVars, muxVars, readerVars, pipeVars, serverVars, closeVars, ctxVars
<1>1. ASSUME DataOK, MuxInv, FramesOK, NEW c \in Calls, CallAdmitted(c) PROVE FramesOK'
  <2>1. id[c] = 0
    BY <1>1 DEF CallAdmitted, MuxInv, IdsOK
  <2>2. ASSUME NEW r, Genuine(r) PROVE Genuine(r)' /\ r.call # c
    BY <1>1, <2>1, <2>2 DEF CallAdmitted
  <2>3. ASSUME NEW r, Justified(r) PROVE Justified(r)'
    BY <1>1, <2>1, <2>3 DEF CallAdmitted
  <2>4. ASSUME NEW r, NEW d \in Calls, Meant(r, d) PROVE Meant(r, d)'
    BY <1>1, <2>1, <2>4 DEF CallAdmitted
  <2>5. rpc = "sending" => target \in Calls
    BY <1>1 DEF MuxInv, ReaderOK
  <2>6. /\ (\A i \in 1..Len(stdin) : Genuine(stdin[i]))'
        /\ (\A r \in inbox \cup answered : Genuine(r))'
        /\ (\A i \in 1..Len(stdout) : Justified(stdout[i]))'
    <3> HIDE DEF Genuine, Justified
    <3> QED
      BY <1>1, <2>2, <2>3 DEF CallAdmitted
  <2>7. /\ (rpc = "sending" => Meant(line, target))'
        /\ (\A d \in Calls : Meant(chan[d], d) /\ Meant(result[d], d))'
    <3> HIDE DEF Meant
    <3> QED
      BY <1>1, <2>4, <2>5 DEF CallAdmitted
  <2> QED
    BY <1>1, <2>6, <2>7 DEF CallAdmitted
<1>2. ASSUME DataOK, MuxInv, FramesOK, NEW c \in Calls, CallWrites(c) PROVE FramesOK'
  <2>1. Genuine(Request(c))
    BY <1>2 DEF CallWrites, MuxInv, IdsOK, InFlight
  <2>2. \A i \in 1..Len(stdin') : Genuine(stdin'[i])
    BY <1>2, <2>1 DEF CallWrites
  <2> QED
    BY <1>2, <2>2 DEF CallWrites
<1>3. ASSUME DataOK, MuxInv, FramesOK, NEW c \in Calls, CallRejected(c) PROVE FramesOK'
  BY <1>3 DEF CallRejected
<1>4. ASSUME DataOK, MuxInv, FramesOK, NEW c \in Calls, CallMarshalFails(c) PROVE FramesOK'
  BY <1>4 DEF CallMarshalFails
<1>5. ASSUME DataOK, MuxInv, FramesOK, NEW c \in Calls, CallWriteFails(c) PROVE FramesOK'
  BY <1>5 DEF CallWriteFails
<1>6. ASSUME DataOK, MuxInv, FramesOK, NEW c \in Calls, CallReceives(c) PROVE FramesOK'
  BY <1>6 DEF CallReceives
<1>7. ASSUME DataOK, MuxInv, FramesOK, NEW c \in Calls, CallTimesOut(c) PROVE FramesOK'
  BY <1>7 DEF CallTimesOut
<1>8. ASSUME DataOK, MuxInv, FramesOK, NEW c \in Calls, CallClosedMidway(c) PROVE FramesOK'
  BY <1>8 DEF CallClosedMidway
<1>9. ASSUME DataOK, MuxInv, FramesOK, ReaderTakes PROVE FramesOK'
  <2>1. Head(stdout) = stdout[1] /\ Justified(Head(stdout))
    BY <1>9 DEF ReaderTakes
  <2>2. \A i \in 1..Len(stdout') : Justified(stdout'[i])
    BY <1>9 DEF ReaderTakes
  <2>3. rpc' = "sending" => Meant(line', target')
    <3>1. CASE rpc' = "sending"
      <4>1. PICK p \in pending : /\ p.id = Head(stdout).id /\ target' = p.call
                                 /\ line' = Head(stdout)
        BY <1>9, <3>1 DEF ReaderTakes, Entries
      <4>2. Head(stdout).kind # "toolong"
        BY <1>9, <3>1 DEF ReaderTakes
      <4>3. p.id = id[p.call] /\ p.id # 0
        BY <1>9 DEF MuxInv, EntriesOK
      <4>4. Head(stdout).kind = "response" => Head(stdout).call = p.call
        BY <1>9, <2>1, <4>1, <4>3 DEF MuxInv, IdsOK
      <4> QED
        BY <1>9, <2>1, <4>1, <4>2, <4>3, <4>4 DEF ReaderTakes
    <3> QED
      BY <3>1
  <2> QED
    BY <1>9, <2>2, <2>3 DEF ReaderTakes
<1>10. ASSUME DataOK, MuxInv, FramesOK, ReaderSends PROVE FramesOK'
  <2>1. target \in Calls /\ chan[target] = Empty /\ line \in Lines /\ Meant(line, target)
    BY <1>10 DEF ReaderSends, MuxInv, ReaderOK
  <2>2. chan' = [chan EXCEPT ![target] = line] /\ line.kind # "transport"
    BY <1>10, <2>1 DEF ReaderSends, Lines
  <2> QED
    BY <1>10, <2>1, <2>2 DEF ReaderSends
<1>11. ASSUME DataOK, MuxInv, FramesOK, ReaderEnds PROVE FramesOK'
  BY <1>11 DEF ReaderEnds
<1>12. ASSUME DataOK, MuxInv, FramesOK, ReaderRanges PROVE FramesOK'
  BY <1>12 DEF ReaderRanges
<1>13. ASSUME DataOK, MuxInv, FramesOK, ReaderWakes PROVE FramesOK'
  BY <1>13 DEF ReaderWakes
<1>14. ASSUME DataOK, MuxInv, FramesOK, ReaderUnmaps PROVE FramesOK'
  BY <1>14 DEF ReaderUnmaps
<1>15. ASSUME DataOK, MuxInv, FramesOK, ReaderExits PROVE FramesOK'
  BY <1>15 DEF ReaderExits
<1>16. ASSUME DataOK, MuxInv, FramesOK, WaitReturns PROVE FramesOK'
  BY <1>16 DEF WaitReturns
<1>17. ASSUME DataOK, MuxInv, FramesOK, ServerReads PROVE FramesOK'
  BY <1>17 DEF ServerReads
<1>18. ASSUME DataOK, MuxInv, FramesOK, NEW r \in inbox, ServerAnswers(r) PROVE FramesOK'
  BY <1>18 DEF ServerAnswers, MuxInv, IdsOK
<1>19. ASSUME DataOK, MuxInv, FramesOK, NEW f \in Noise, ServerNoise(f) PROVE FramesOK'
  <2>1. Justified(f)
    BY <1>19 DEF Noise
  <2>2. \A i \in 1..Len(stdout') : stdout'[i] = IF i <= Len(stdout) THEN stdout[i] ELSE f
    <3>1. stdout \in Seq(Lines) /\ f \in Lines /\ stdout' = Append(stdout, f)
      BY <1>19, NoiseLines DEF ServerNoise
    <3>2. Len(stdout') = Len(stdout) + 1 /\ Len(stdout) \in Nat
      BY <3>1
    <3> QED
      BY <3>1, <3>2
  <2>3. (\A i \in 1..Len(stdout) : Justified(stdout[i]))'
    <3>1. Len(stdout) \in Nat /\ Len(stdout') = Len(stdout) + 1
      BY <1>19, NoiseLines DEF ServerNoise
    <3>2. UNCHANGED <<id, answered>>
      BY <1>19 DEF ServerNoise
    <3>3. ASSUME NEW i \in 1..Len(stdout') PROVE Justified(stdout[i])'
      <4>1. CASE i <= Len(stdout)
        <5>1. stdout'[i] = stdout[i] /\ Justified(stdout[i])
          BY <1>19, <2>2, <3>1, <4>1
        <5> QED
          BY <3>2, <5>1
      <4>2. CASE ~(i <= Len(stdout))
        BY <2>1, <2>2, <3>2, <4>2
      <4> QED
        BY <4>1, <4>2
    <3> QED
      BY <3>3
  <2> QED
    BY <1>19, <2>3 DEF ServerNoise
<1>20. ASSUME
             \/ \E c \in Calls : CallRegisters(c) \/ CallLocks(c) \/ CtxExpires(c)
             \/ RunCancelled \/ ContextKills
             \/ \E k \in Closers : CloseRepeated(k) \/ CloseBegins(k) \/ CloseStep(k)
             \/ ServerExits \/ OrphanExits \/ Terminated \/ UNCHANGED vars
      PROVE  UNCHANGED frameState
  BY <1>20 DEF frameState, CallRegisters, CallLocks, CtxExpires, RunCancelled, ContextKills,
     CloseRepeated, CloseBegins, CloseStep, CloseShutsDown, CloseKills, CloseReaped,
     CloseJoins, ServerExits, OrphanExits, Terminated, vars
<1>21. ASSUME FramesOK, UNCHANGED frameState PROVE FramesOK'
  BY <1>21 DEF frameState
<1> HIDE DEF DataOK, FramesOK
<1> QED
  BY <1>1, <1>2, <1>3, <1>4, <1>5, <1>6, <1>7, <1>8, <1>9, <1>10, <1>11, <1>12,
     <1>13, <1>14, <1>15, <1>16, <1>17, <1>18, <1>19, <1>20, <1>21
     DEF Next, CallStep, ReaderStep

(* Frames stay with the calls they are meant for.                          *)
THEOREM FramesCorrect == Spec => []FramesOK
<1>1. TypeOK /\ MuxInv /\ FramesOK /\ [Next]_vars => FramesOK'
  BY FramesStep DEF TypeOK
<1> QED
  BY TypeCorrect, MuxCorrect, FramesInit, <1>1, PTL DEF Spec

(* No call returns the response to another call's request.                 *)
THEOREM DemuxCorrect == Spec => []ResultIsMine
<1>1. FramesOK => ResultIsMine
  BY DEF FramesOK, Meant, ResultIsMine
<1> QED
  BY FramesCorrect, <1>1, PTL

-----------------------------------------------------------------------------
(* Close.                                                                  *)
LEMMA CloseInit == Init => CloseInv
BY DEF Init, CloseInv, Shutting

(* What the closers, the Wait goroutine and the exits share.               *)
closeState == <<closed, cpc, waitDone, rpc, proc, orphan, stdinOpen, stdoutOpen>>

LEMMA CloseInvStep == DataOK /\ CloseInv /\ [Next]_vars => CloseInv'
<1> USE DEF DataOK, CloseInv, Shutting, CloseGoto,
        callVars, muxVars, readerVars, pipeVars, serverVars, closeVars, ctxVars
<1>1. ASSUME DataOK, CloseInv, NEW k \in Closers, CloseRepeated(k) PROVE CloseInv'
  BY <1>1 DEF CloseRepeated
<1>2. ASSUME DataOK, CloseInv, NEW k \in Closers, CloseBegins(k) PROVE CloseInv'
  BY <1>2 DEF CloseBegins
<1>3. ASSUME DataOK, CloseInv, NEW k \in Closers, CloseShutsDown(k) PROVE CloseInv'
  BY <1>3 DEF CloseShutsDown
<1>4. ASSUME DataOK, CloseInv, NEW k \in Closers, CloseKills(k) PROVE CloseInv'
  BY <1>4 DEF CloseKills
<1>5. ASSUME DataOK, CloseInv, NEW k \in Closers, CloseReaped(k) PROVE CloseInv'
  BY <1>5 DEF CloseReaped
<1>6. ASSUME DataOK, CloseInv, NEW k \in Closers, CloseJoins(k) PROVE CloseInv'
  BY <1>6 DEF CloseJoins
<1>7. ASSUME DataOK, CloseInv, WaitReturns PROVE CloseInv'
  BY <1>7 DEF WaitReturns
<1>8. ASSUME DataOK, CloseInv, ServerExits PROVE CloseInv'
  BY <1>8 DEF ServerExits
<1>9. ASSUME DataOK, CloseInv, OrphanExits PROVE CloseInv'
  BY <1>9 DEF OrphanExits
<1>10. ASSUME DataOK, CloseInv, ReaderTakes PROVE CloseInv'
  BY <1>10 DEF ReaderTakes
<1>11. ASSUME DataOK, CloseInv, ReaderSends PROVE CloseInv'
  BY <1>11 DEF ReaderSends
<1>12. ASSUME DataOK, CloseInv, ReaderEnds PROVE CloseInv'
  BY <1>12 DEF ReaderEnds
<1>13. ASSUME DataOK, CloseInv, ReaderRanges PROVE CloseInv'
  BY <1>13 DEF ReaderRanges
<1>14. ASSUME DataOK, CloseInv, ReaderWakes PROVE CloseInv'
  BY <1>14 DEF ReaderWakes
<1>15. ASSUME DataOK, CloseInv, ReaderUnmaps PROVE CloseInv'
  BY <1>15 DEF ReaderUnmaps
<1>16. ASSUME DataOK, CloseInv, ReaderExits PROVE CloseInv'
  BY <1>16 DEF ReaderExits
<1>17. ASSUME
             \/ \E c \in Calls : CallRejected(c) \/ CallAdmitted(c) \/ CallStep(c) \/ CtxExpires(c)
             \/ RunCancelled \/ ContextKills \/ ServerReads
             \/ \E r \in inbox : ServerAnswers(r)
             \/ \E f \in Noise : ServerNoise(f)
             \/ Terminated \/ UNCHANGED vars
      PROVE  UNCHANGED closeState
  BY <1>17 DEF closeState, CallRejected, CallAdmitted, CallStep, CtxExpires, CallMarshalFails,
     CallRegisters, CallLocks, CallWrites, CallWriteFails, CallReceives, CallTimesOut,
     CallClosedMidway, RunCancelled, ContextKills, ServerReads, ServerAnswers,
     ServerNoise, Terminated, vars
<1>18. ASSUME DataOK, CloseInv, UNCHANGED closeState PROVE CloseInv'
  BY <1>18 DEF closeState
<1> HIDE DEF DataOK, CloseInv
<1> QED
  BY <1>1, <1>2, <1>3, <1>4, <1>5, <1>6, <1>7, <1>8, <1>9, <1>10, <1>11, <1>12,
     <1>13, <1>14, <1>15, <1>16, <1>17, <1>18
     DEF Next, ReaderStep, CloseStep

(* The shutdown is the work of one closer, in its order.                   *)
THEOREM CloseCorrect == Spec => []CloseInv
<1>1. TypeOK /\ CloseInv /\ [Next]_vars => CloseInv'
  BY CloseInvStep DEF TypeOK
<1> QED
  BY TypeCorrect, CloseInit, <1>1, PTL DEF Spec

(* Once Close has done its work nothing of the transport is left.          *)
THEOREM NothingLeft == Spec => []CloseComplete
<1>1. CloseInv => CloseComplete
  BY DEF CloseInv, Shutting, CloseComplete
<1> QED
  BY CloseCorrect, <1>1, PTL

-----------------------------------------------------------------------------
(* Refinement.  How the steps of the code move the state of the contract.  *)
LEMMA StatusActive ==
  ASSUME DataOK, NEW c \in Calls, NEW l \in {"numbered", "registered", "writing", "waiting"},
         pc[c] # "done", pc' = [pc EXCEPT ![c] = l], UNCHANGED result
  PROVE  Statuses' = [Statuses EXCEPT ![c] = "active"]
BY DEF Statuses, Status, DataOK

LEMMA StatusReturned ==
  ASSUME DataOK, NEW c \in Calls, NEW f, Return(c, f)
  PROVE  Statuses' = [Statuses EXCEPT ![c] = IF IsOk(f) THEN "ok" ELSE f.kind]
BY DEF Statuses, Status, DataOK, Return, Goto

LEMMA StatusNow ==
  ASSUME NEW c \in Calls
  PROVE  /\ pc[c] = "idle" => Statuses[c] = "idle"
         /\ pc[c] \notin {"idle", "done"} => Statuses[c] = "active"
BY DEF Statuses, Status

LEMMA StatusTypes ==
  ASSUME DataOK
  PROVE  /\ Statuses = [c \in Calls |-> Statuses[c]]
         /\ \A c \in Calls : pc[c] # "idle" => Statuses[c] # "idle"
<1>1. ASSUME NEW c \in Calls PROVE result[c].kind # "idle"
  <2>1. result[c] \in Lines \/ result[c] \in {Failure, Expiry, Empty}
    BY DEF DataOK
  <2>2. CASE result[c] \in Lines
    BY <2>2 DEF Lines
  <2>3. CASE result[c] \in {Failure, Expiry, Empty}
    BY <2>3 DEF Failure, Expiry, Empty, Frame
  <2> QED
    BY <2>1, <2>2, <2>3
<1> QED
  BY <1>1 DEF Statuses, Status, DataOK

(* A state function keeps its value when what it is made of does.          *)
LEMMA Unmoved ==
  /\ UNCHANGED <<pc, result>> => UNCHANGED Statuses
  /\ UNCHANGED <<stdinOpen, rpc, proc>> => UNCHANGED Lost
  /\ UNCHANGED answered => UNCHANGED Addressed
BY DEF Statuses, Status, Broken, Lost, Addressed

(* A call that fails does so on grounds the contract knows.                *)
LEMMA FailStep ==
  ASSUME DataOK, NEW c \in Calls, pc[c] \notin {"idle", "done"}, Return(c, Failure),
         closed \/ Broken \/ c \in Malformed, UNCHANGED <<ctxDone, closed, Lost, Addressed>>
  PROVE  Contract!Fail(c)
<1>1. Statuses' = [Statuses EXCEPT ![c] = "transport"]
  BY StatusReturned DEF IsOk, Failure, Frame
<1> QED
  BY <1>1, StatusNow DEF Contract!Fail, Contract!Moves, Lost

LEMMA ReceiveStep ==
  ASSUME DataOK, FramesOK, NEW c \in Calls, CallReceives(c)
  PROVE  Contract!Complete(c) \/ Contract!Fail(c)
<1> USE DEF callVars, muxVars, readerVars, pipeVars, serverVars, closeVars, ctxVars
<1>1. Statuses' = [Statuses EXCEPT ![c] = IF IsOk(chan[c]) THEN "ok" ELSE chan[c].kind]
  BY StatusReturned DEF CallReceives
<1>2. Statuses[c] = "active"
  BY StatusNow DEF CallReceives
<1>3. UNCHANGED <<ctxDone, closed, Lost, Addressed>>
  BY Unmoved DEF CallReceives
<1>4. CASE IsOk(chan[c])
  <2>1. Meant(chan[c], c)
    BY DEF FramesOK
  <2>2. Request(c).call = c
    BY DEF Request
  <2>3. c \in Addressed \/ ServerIds # {}
    BY <1>4, <2>1, <2>2 DEF Meant, IsOk, Addressed
  <2> QED
    BY <1>1, <1>2, <1>3, <1>4, <2>3 DEF Contract!Complete, Contract!Moves
<1>5. CASE ~IsOk(chan[c])
  <2>1. chan[c].kind = "transport"
    BY <1>5 DEF CallReceives, FramesOK, Meant, IsOk, DataOK, Lines, Failure, Empty, Frame
  <2>2. Broken
    BY <2>1 DEF FramesOK, Broken, Lost
  <2> QED
    BY <1>1, <1>2, <1>3, <1>5, <2>1, <2>2 DEF Contract!Fail, Contract!Moves, Lost
<1> QED
  BY <1>4, <1>5

LEMMA ContractInit == Init => Contract!Init
<1> SUFFICES ASSUME Init PROVE Contract!Init
  OBVIOUS
<1>1. Statuses = [c \in Calls |-> "idle"] /\ Addressed = {} /\ ctxDone = {}
  BY DEF Init, Statuses, Status, Addressed
<1>2. Lost = {} /\ closed = FALSE
  BY DEF Init, Broken, Lost
<1> QED
  BY <1>1, <1>2 DEF Contract!Init

(* The invariants the step simulation rests on.                            *)
ContractInv == DataOK /\ MuxInv /\ FramesOK /\ CloseInv

LEMMA ContractStep == ContractInv /\ [Next]_vars => [Contract!Next]_(Contract!vars)
<1> USE DEF ContractInv, callVars, muxVars, readerVars, pipeVars, serverVars, closeVars, ctxVars
<1>1. ASSUME ContractInv, NEW c \in Calls, CallRejected(c) PROVE Contract!Refuse(c)
  <2>1. Statuses' = [Statuses EXCEPT ![c] = "transport"]
    BY <1>1, StatusReturned DEF CallRejected, IsOk, Failure, Frame
  <2>2. Statuses[c] = "idle" /\ UNCHANGED <<ctxDone, closed, Lost, Addressed>>
    BY <1>1, StatusNow, Unmoved DEF CallRejected
  <2> QED
    BY <1>1, <2>1, <2>2 DEF CallRejected, Contract!Refuse, Contract!Moves
<1>2. ASSUME ContractInv, NEW c \in Calls, CallAdmitted(c) PROVE Contract!Begin(c)
  <2>1. Statuses' = [Statuses EXCEPT ![c] = "active"]
    BY <1>2, StatusActive DEF CallAdmitted, Goto
  <2>2. Statuses[c] = "idle" /\ UNCHANGED <<ctxDone, closed, Lost, Addressed>>
    BY <1>2, StatusNow, Unmoved DEF CallAdmitted
  <2> QED
    BY <1>2, <2>1, <2>2 DEF CallAdmitted, Contract!Begin, Contract!Moves
<1>3. ASSUME ContractInv, NEW c \in Calls, CallMarshalFails(c) \/ CallClosedMidway(c)
      PROVE  Contract!Fail(c)
  BY <1>3, FailStep, Unmoved DEF CallMarshalFails, CallClosedMidway
<1>4. ASSUME ContractInv, NEW c \in Calls, CallWriteFails(c) PROVE Contract!Fail(c)
  <2>1. Broken
    BY <1>4 DEF CallWriteFails, StdinBroken, ServerAlive, Broken, Lost, DataOK
  <2> QED
    BY <1>4, <2>1, FailStep, Unmoved DEF CallWriteFails
<1>5. ASSUME ContractInv, NEW c \in Calls, CallRegisters(c) \/ CallLocks(c) \/ CallWrites(c)
      PROVE  UNCHANGED Contract!vars
  <2>1. Statuses' = [Statuses EXCEPT ![c] = "active"]
    BY <1>5, StatusActive DEF CallRegisters, CallLocks, CallWrites, Goto
  <2>2. Statuses[c] = "active" /\ UNCHANGED <<ctxDone, closed, Lost, Addressed>>
    BY <1>5, StatusNow, Unmoved DEF CallRegisters, CallLocks, CallWrites
  <2>3. UNCHANGED Statuses
    BY <1>5, <2>1, <2>2, StatusTypes
  <2> QED
    BY <2>2, <2>3 DEF Contract!vars
<1>6. ASSUME ContractInv, NEW c \in Calls, CallReceives(c)
      PROVE  Contract!Complete(c) \/ Contract!Fail(c)
  BY <1>6, ReceiveStep
<1>7. ASSUME ContractInv, NEW c \in Calls, CallTimesOut(c) PROVE Contract!TimeOut(c)
  <2>1. Statuses' = [Statuses EXCEPT ![c] = "timeout"]
    BY <1>7, StatusReturned DEF CallTimesOut, IsOk, Expiry, Frame
  <2>2. Statuses[c] = "active" /\ UNCHANGED <<ctxDone, closed, Lost, Addressed>>
    BY <1>7, StatusNow, Unmoved DEF CallTimesOut
  <2> QED
    BY <1>7, <2>1, <2>2 DEF CallTimesOut, Contract!TimeOut, Contract!Moves
<1>8. ASSUME ContractInv, NEW c \in Calls, CtxExpires(c) PROVE Contract!Expire({c})
  BY <1>8, Unmoved DEF CtxExpires, Contract!Expire
<1>9. ASSUME ContractInv, RunCancelled PROVE Contract!Expire(Calls)
  BY <1>9, Unmoved DEF RunCancelled, Contract!Expire, DataOK
<1>10. ASSUME ContractInv, NEW r \in inbox, ServerAnswers(r) PROVE Contract!Answer(r.call)
  <2>1. UNCHANGED <<ctxDone, closed, Statuses, Lost>>
    BY <1>10, Unmoved DEF ServerAnswers
  <2>2. Addressed' = Addressed \cup {r.call}
    BY <1>10 DEF ServerAnswers, Addressed
  <2>3. r.call \in Calls /\ Statuses[r.call] # "idle"
    BY <1>10, StatusTypes DEF Genuine, FramesOK, MuxInv, IdsOK
  <2> QED
    BY <2>1, <2>2, <2>3 DEF Contract!Answer
<1>11. ASSUME ContractInv, NEW k \in Closers, CloseBegins(k) PROVE Contract!Shut
  BY <1>11, Unmoved DEF CloseBegins, Contract!Shut
<1>12. ASSUME ContractInv, ReaderEnds \/ ServerExits \/ (\E k \in Closers : CloseShutsDown(k))
       PROVE  Contract!Break(Calls)
  <2>1. UNCHANGED <<ctxDone, closed, Statuses, Addressed>>
    BY <1>12, Unmoved DEF ReaderEnds, ServerExits, CloseShutsDown
  <2>2. Lost' = Lost \cup Calls
    BY <1>12 DEF ReaderEnds, ServerExits, CloseShutsDown, Broken, Lost
  <2> QED
    BY <2>1, <2>2 DEF Contract!Break
<1>13. ASSUME ContractInv, ReaderTakes PROVE Contract!Break(Calls) \/ UNCHANGED Contract!vars
  <2>1. UNCHANGED <<ctxDone, closed, Statuses, Addressed>>
    BY <1>13, Unmoved DEF ReaderTakes
  <2>2. CASE rpc' = "failed"
    <3>1. Lost' = Lost \cup Calls
      BY <2>2 DEF Broken, Lost
    <3> QED
      BY <2>1, <3>1 DEF Contract!Break
  <2>3. CASE rpc' # "failed"
    <3>1. UNCHANGED Lost
      BY <1>13, <2>3 DEF ReaderTakes, Broken, Lost
    <3> QED
      BY <2>1, <3>1 DEF Contract!vars
  <2> QED
    BY <2>2, <2>3
<1>14. ASSUME ContractInv, ReaderSends \/ ReaderRanges \/ ReaderWakes \/ ReaderUnmaps
                          \/ ReaderExits \/ WaitReturns
       PROVE  UNCHANGED Contract!vars
  <2>1. UNCHANGED <<ctxDone, closed, Statuses, Addressed>>
    BY <1>14, Unmoved DEF ReaderSends, ReaderRanges, ReaderWakes, ReaderUnmaps, ReaderExits,
       WaitReturns
  <2>2. UNCHANGED Lost
    BY <1>14 DEF ReaderSends, ReaderRanges, ReaderWakes, ReaderUnmaps, ReaderExits,
       WaitReturns, Broken, Lost
  <2> QED
    BY <2>1, <2>2 DEF Contract!vars
<1>15. ASSUME
              \/ \E k \in Closers : CloseRepeated(k) \/ CloseKills(k) \/ CloseReaped(k)
                                   \/ CloseJoins(k)
              \/ ContextKills \/ ServerReads \/ OrphanExits
              \/ \E f \in Noise : ServerNoise(f)
              \/ Terminated \/ UNCHANGED vars
       PROVE  UNCHANGED Contract!vars
  <2>1. UNCHANGED <<pc, result, stdinOpen, rpc, proc, answered, ctxDone, closed>>
    BY <1>15 DEF CloseRepeated, CloseKills, CloseReaped, CloseJoins, ContextKills,
       ServerReads, OrphanExits, ServerNoise, Terminated, vars
  <2> QED
    BY <2>1, Unmoved DEF Contract!vars
<1>16. ContractInv => \A r \in inbox : r.call \in Calls
  BY DEF FramesOK, Genuine
<1> HIDE DEF ContractInv
<1>17. ASSUME ContractInv, \E c \in Calls : \/ CallRejected(c) \/ CallAdmitted(c)
                                            \/ CallStep(c) \/ CtxExpires(c)
       PROVE  [Contract!Next]_(Contract!vars)
  BY <1>1, <1>2, <1>3, <1>4, <1>5, <1>6, <1>7, <1>8, <1>17 DEF CallStep, Contract!Next
<1>18. ASSUME ContractInv, ReaderStep \/ WaitReturns PROVE [Contract!Next]_(Contract!vars)
  BY <1>12, <1>13, <1>14, <1>18 DEF ReaderStep, Contract!Next
<1>19. ASSUME ContractInv, \E k \in Closers : \/ CloseRepeated(k) \/ CloseBegins(k)
                                              \/ CloseStep(k)
       PROVE  [Contract!Next]_(Contract!vars)
  BY <1>11, <1>12, <1>15, <1>19 DEF CloseStep, Contract!Next
<1>20. ASSUME ContractInv, \E r \in inbox : ServerAnswers(r)
       PROVE  [Contract!Next]_(Contract!vars)
  BY <1>10, <1>16, <1>20 DEF Contract!Next
<1>21. ASSUME ContractInv, RunCancelled PROVE [Contract!Next]_(Contract!vars)
  BY <1>9, <1>21 DEF Contract!Next
<1> QED
  BY <1>12, <1>15, <1>17, <1>18, <1>19, <1>20, <1>21 DEF Next, Contract!Next

(* The goroutines of the stdio transport implement the contract.           *)
THEOREM StdioImplementsContract == Spec => ImplementsContract
<1>1. TypeOK /\ MuxInv /\ FramesOK /\ CloseInv /\ [Next]_vars
        => [Contract!Next]_(Contract!vars)
  BY ContractStep DEF ContractInv, TypeOK
<1> QED
  BY TypeCorrect, MuxCorrect, FramesCorrect, CloseCorrect, ContractInit, <1>1, PTL
     DEF Spec, ImplementsContract, Contract!Spec
=============================================================================
