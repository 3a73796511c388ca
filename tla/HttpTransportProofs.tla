-------------------------- MODULE HttpTransportProofs --------------------------
(***************************************************************************)
(* Proofs about HttpTransport, for any number of calls, any event stream   *)
(* and any interleaving with the context, the server and the network:      *)
(* what a deadline is counted as, and that Call and Close keep the         *)
(* contract of Transport.                                                  *)
(***************************************************************************)
EXTENDS HttpTransportProps, SetTheorems

-----------------------------------------------------------------------------
(* Feed and Flush keep the variables of parseSSE what they are.            *)
LEMMA FlushType ==
  ASSUME NEW p \in Parser
  PROVE  /\ Flush(p) \in Parser /\ Flush(p).stopped = p.stopped
         /\ Flush(p).event = p.event /\ Flush(p).current = <<>>
         /\ Flush(p).matched = IF p.current \in Frames THEN p.current ELSE p.matched
<1> DEFINE m == IF p.current \in Frames THEN p.current ELSE p.matched
           none == <<>>
<1>1. m \in Frames \cup {Nothing}
  BY DEF Parser
<1>2. none \in Seq(Data)
  OBVIOUS
<1>3. Flush(p) = [p EXCEPT !.current = none, !.matched = m]
  BY DEF Flush
<1> HIDE DEF m, none
<1>4. /\ Flush(p) \in Parser /\ Flush(p).stopped = p.stopped
      /\ Flush(p).event = p.event /\ Flush(p).current = none /\ Flush(p).matched = m
  BY <1>1, <1>2, <1>3 DEF Parser
<1> QED BY <1>4 DEF m, none

LEMMA FeedType ==
  ASSUME NEW p \in Parser, NEW line \in Lines
  PROVE  /\ Feed(p, line) \in Parser
         /\ line = "blank" => /\ Feed(p, line).current = <<>>
                              /\ Feed(p, line).matched = Flush(p).matched
         /\ line # "blank" => Feed(p, line).matched = p.matched
         /\ line \in Data => Feed(p, line).current = Append(p.current, line)
         /\ line # "blank" /\ line \notin Data => Feed(p, line).current = p.current
<1>1. CASE line = "blank"
  <2> DEFINE q == Flush(p)
             stop == p.event = "done"
             event == IF p.event = "done" THEN q.event ELSE ""
  <2>1. q \in Parser /\ q.current = <<>>
    BY FlushType
  <2>2. stop \in BOOLEAN /\ event \in Events \cup {""}
    BY <2>1, FlushType DEF Parser
  <2>3. line \notin Events /\ line \notin Data
    BY <1>1 DEF Events, Data
  <2>4. Feed(p, line) = [q EXCEPT !.stopped = stop, !.event = event]
    BY <1>1, <2>3, Zenon DEF Feed
  <2> HIDE DEF q, stop, event
  <2>5. /\ Feed(p, line) \in Parser /\ Feed(p, line).current = q.current
        /\ Feed(p, line).matched = q.matched
    BY <2>1, <2>2, <2>4 DEF Parser
  <2> QED BY <1>1, <2>1, <2>3, <2>5 DEF q
<1>2. CASE line \in Events
  <2>1. line # "blank" /\ line \notin Data
    BY <1>2 DEF Events, Data
  <2>2. Feed(p, line) = [p EXCEPT !.event = line]
    BY <1>2, <2>1, Zenon DEF Feed
  <2> QED BY <1>2, <2>1, <2>2 DEF Parser
<1>3. CASE line \in Data
  <2> DEFINE more == Append(p.current, line)
  <2>1. p.current \in Seq(Data)
    BY DEF Parser
  <2>2. more \in Seq(Data)
    BY <1>3, <2>1
  <2>3. line # "blank" /\ line \notin Events
    BY <1>3 DEF Events, Data
  <2>4. Feed(p, line) = [p EXCEPT !.current = more]
    BY <1>3, <2>3, Zenon DEF Feed
  <2> HIDE DEF more
  <2>5. /\ Feed(p, line) \in Parser /\ Feed(p, line).current = more
        /\ Feed(p, line).matched = p.matched
    BY <2>2, <2>4 DEF Parser
  <2> QED BY <1>3, <2>3, <2>5 DEF more
<1>4. CASE line = "comment"
  <2>1. line # "blank" /\ line \notin Events /\ line \notin Data
    BY <1>4 DEF Events, Data
  <2>2. Feed(p, line) = p
    BY <2>1, Zenon DEF Feed
  <2> QED BY <2>1, <2>2
<1> QED BY <1>1, <1>2, <1>3, <1>4 DEF Lines

(* The errors that Call makes.                                             *)
LEMMA ErrorTypes ==
  ASSUME NEW c \in Calls, NEW cause \in {"plain", "deadline", "canceled"}
  PROVE  TransportError(cause) \in Seq(Links) /\ Excused(c, cause) \in Seq(Links)
<1>1. {"TransportError", "TimeoutError", cause} \subseteq Links
  BY DEF Links
<1>2. \A S : \A a, b \in S : <<a, b>> \in Seq(S)
  OBVIOUS
<1>3. <<"TransportError", cause>> \in Seq(Links) /\ <<"TimeoutError", cause>> \in Seq(Links)
  BY <1>1, <1>2
<1> QED BY <1>3 DEF TransportError, Excused

-----------------------------------------------------------------------------
(* The steps of Call that do not touch the connection.                     *)
LEMMA ReturnType ==
  ASSUME DataOK, NEW c \in Calls, NEW from, NEW e \in Seq(Links), Return(c, from, e)
  PROVE  /\ pc' \in [Calls -> {"idle", "encode", "do", "drain", "body", "stream", "returned"}]
         /\ err' \in [Calls -> Seq(Links)]
BY DEF DataOK, Return

LEMMA GotoType ==
  ASSUME DataOK, NEW c \in Calls, NEW from,
         NEW to \in {"encode", "do", "drain", "body", "stream"}, Goto(c, from, to)
  PROVE  /\ pc' \in [Calls -> {"idle", "encode", "do", "drain", "body", "stream", "returned"}]
         /\ err' \in [Calls -> Seq(Links)]
BY DEF DataOK, Goto

LEMMA ReturnsType ==
  ASSUME DataOK, NEW c \in Calls,
         \/ CallRefused(c) \/ CallCannotEncode(c) \/ CallDoFails(c) \/ CallDrained(c)
         \/ CallReadsBody(c) \/ CallBodyFails(c)
  PROVE  DataOK'
<1>1. \E from, e : e \in Seq(Links) /\ Return(c, from, e)
  <2>1. TransportError("plain") \in Seq(Links) /\ <<>> \in Seq(Links)
    BY ErrorTypes
  <2>2. \A cause \in Causes(c) : Excused(c, cause) \in Seq(Links)
    BY ErrorTypes DEF Causes
  <2> QED BY <2>1, <2>2 DEF CallRefused, CallCannotEncode, CallDoFails, CallDrained,
             CallReadsBody, CallBodyFails
<1>2. /\ pc' \in [Calls -> {"idle", "encode", "do", "drain", "body", "stream", "returned"}]
      /\ err' \in [Calls -> Seq(Links)]
  BY <1>1, ReturnType
<1>3. UNCHANGED <<closed, ctxVars, netVars, readVars>>
  BY DEF CallRefused, CallCannotEncode, CallDoFails, CallDrained, CallReadsBody,
     CallBodyFails
<1> QED BY <1>2, <1>3 DEF DataOK, ctxVars, netVars, readVars

LEMMA MovesType ==
  ASSUME DataOK, NEW c \in Calls, CallAdmitted(c) \/ CallPosts(c) \/ CallGetsResponse(c)
  PROVE  DataOK'
<1>1. \E from : \E to \in {"encode", "do", "drain", "body", "stream"} : Goto(c, from, to)
  <2>1. resp[c] # "none" => resp[c] \in {"error", "json", "stream"}
    BY DEF DataOK, Responses
  <2> QED BY <2>1 DEF CallAdmitted, CallPosts, CallGetsResponse
<1>2. /\ pc' \in [Calls -> {"idle", "encode", "do", "drain", "body", "stream", "returned"}]
      /\ err' \in [Calls -> Seq(Links)]
  BY <1>1, GotoType
<1>3. conn' \in [Calls -> {"none", "pending", "open", "ended", "failed"}]
  BY DEF DataOK, CallAdmitted, CallPosts, CallGetsResponse, netVars
<1>4. UNCHANGED <<closed, ctxVars, cut, resp, sent, readVars>>
  BY DEF CallAdmitted, CallPosts, CallGetsResponse, netVars
<1> QED BY <1>2, <1>3, <1>4 DEF DataOK, ctxVars, readVars

LEMMA StreamType ==
  ASSUME DataOK, NEW c \in Calls, CallFeeds(c) \/ CallStreamEnds(c) \/ CallStreamFails(c)
  PROVE  DataOK'
<1>1. parse[c] \in Parser
  BY DEF DataOK
<1>2. CASE CallFeeds(c)
  <2> DEFINE line == sent[c][nread[c] + 1]
  <2>1. /\ nread' = [nread EXCEPT ![c] = @ + 1] /\ nread[c] \in Nat
        /\ sent[c] \in Seq(StreamLines) /\ nread[c] < Len(sent[c])
    BY <1>2 DEF CallFeeds, DataOK
  <2>2. line \in Lines
    BY <2>1, StreamAssumption
  <2>3. parse' = [parse EXCEPT ![c] = Feed(parse[c], line)]
    BY <1>2, <2>1 DEF CallFeeds, DataOK
  <2> HIDE DEF line
  <2>4. parse' \in [Calls -> Parser]
    BY <1>1, <2>2, <2>3, FeedType DEF DataOK
  <2>5. nread' \in [Calls -> Nat] /\ \A d \in Calls : nread'[d] <= Len(sent[d])
    BY <2>1 DEF DataOK
  <2> QED BY <1>2, <2>4, <2>5 DEF CallFeeds, DataOK, ctxVars, netVars
<1>3. CASE CallStreamEnds(c) \/ CallStreamFails(c)
  <2>1. parse' = [parse EXCEPT ![c] = Flush(parse[c])]
    BY <1>3 DEF CallStreamEnds, CallStreamFails
  <2>2. parse' \in [Calls -> Parser]
    BY <1>1, <2>1, FlushType DEF DataOK
  <2>3. \E e \in Seq(Links) : Return(c, "stream", e)
    <3>1. TransportError("plain") \in Seq(Links) /\ <<>> \in Seq(Links)
      BY ErrorTypes
    <3>2. \A cause \in Causes(c) : TransportError(cause) \in Seq(Links)
      BY ErrorTypes DEF Causes
    <3> QED BY <1>3, <3>1, <3>2 DEF CallStreamEnds, CallStreamFails
  <2>4. /\ pc' \in [Calls -> {"idle", "encode", "do", "drain", "body", "stream", "returned"}]
        /\ err' \in [Calls -> Seq(Links)]
    BY <2>3, ReturnType
  <2>5. UNCHANGED <<closed, ctxVars, netVars, nread>>
    BY <1>3 DEF CallStreamEnds, CallStreamFails
  <2> QED BY <2>2, <2>4, <2>5 DEF DataOK, ctxVars, netVars
<1> QED BY <1>2, <1>3

LEMMA WorldType ==
  ASSUME DataOK,
         \/ Close
         \/ \E c \in Calls : NetStep(c) \/ ContextCuts(c) \/ \E b \in BOOLEAN : CtxEnds(c, b)
  PROVE  DataOK'
<1> USE DEF DataOK
<1>1. CASE Close
  BY <1>1 DEF Close, ctxVars, netVars, readVars
<1>2. ASSUME NEW c \in Calls, ContextCuts(c) PROVE DataOK'
  BY <1>2 DEF ContextCuts, ctxVars, readVars
<1>3. ASSUME NEW c \in Calls, NEW b \in BOOLEAN, CtxEnds(c, b) PROVE DataOK'
  <2>1. ctxDone' \subseteq Calls /\ cut \subseteq ctxDone' /\ cancelled' \subseteq ctxDone'
    BY <1>3 DEF CtxEnds
  <2> QED BY <1>3, <2>1 DEF CtxEnds, netVars, readVars
<1>4. ASSUME NEW c \in Calls, NEW r \in Responses, ServerResponds(c, r) PROVE DataOK'
  BY <1>4 DEF ServerResponds, ctxVars, readVars
<1>5. ASSUME NEW c \in Calls, NEW line \in StreamLines, ServerStreams(c, line) PROVE DataOK'
  <2>1. /\ sent[c] \in Seq(StreamLines) /\ sent' = [sent EXCEPT ![c] = Append(sent[c], line)]
        /\ Append(sent[c], line) \in Seq(StreamLines)
        /\ Len(Append(sent[c], line)) = Len(sent[c]) + 1
    BY <1>5 DEF ServerStreams
  <2>2. sent' \in [Calls -> Seq(StreamLines)]
    BY <2>1
  <2>3. \A d \in Calls : nread[d] <= Len(sent'[d])
    BY <2>1
  <2> QED BY <1>5, <2>2, <2>3 DEF ServerStreams, ctxVars, readVars
<1>6. ASSUME NEW c \in Calls, ServerEnds(c) \/ ConnFails(c) PROVE DataOK'
  BY <1>6 DEF ServerEnds, ConnFails, ctxVars, readVars
<1> QED BY <1>1, <1>2, <1>3, <1>4, <1>5, <1>6 DEF NetStep

LEMMA DataInit == Init => DataOK
<1>1. Start \in Parser
  BY DEF Start, Parser, Nothing
<1>2. \A S : <<>> \in Seq(S)
  OBVIOUS
<1>3. ASSUME Init
      PROVE  /\ err \in [Calls -> Seq(Links)] /\ sent \in [Calls -> Seq(StreamLines)]
             /\ nread \in [Calls -> Nat] /\ \A c \in Calls : nread[c] <= Len(sent[c])
  BY <1>2, <1>3 DEF Init
<1>4. ASSUME Init
      PROVE  /\ pc \in [Calls -> {"idle", "encode", "do", "drain", "body", "stream", "returned"}]
             /\ conn \in [Calls -> {"none", "pending", "open", "ended", "failed"}]
             /\ resp \in [Calls -> Responses \cup {"none"}]
             /\ closed \in BOOLEAN /\ parse \in [Calls -> Parser]
             /\ ctxDone \subseteq Calls /\ cut \subseteq ctxDone /\ cancelled \subseteq ctxDone
  BY <1>1, <1>4 DEF Init
<1> QED BY <1>3, <1>4 DEF DataOK

LEMMA DataStep == DataOK /\ [Next]_vars => DataOK'
<1> SUFFICES ASSUME DataOK, [Next]_vars PROVE DataOK'
  OBVIOUS
<1>1. CASE UNCHANGED vars
  BY <1>1 DEF vars, DataOK, ctxVars, netVars, readVars
<1> QED BY <1>1, ReturnsType, MovesType, StreamType, WorldType
        DEF Next, CallStep, Terminated

-----------------------------------------------------------------------------

LEMMA StageStep ==
  ASSUME DataOK, NEW c \in Calls, StageOK(c), [Next]_vars
  PROVE  StageOK(c)'
<1> USE DEF DataOK, StageOK, ctxVars, netVars, readVars
<1>1. ASSUME NEW d \in Calls, CallRefused(d) \/ CallAdmitted(d) \/ CallCannotEncode(d)
      PROVE  StageOK(c)'
  BY <1>1 DEF CallRefused, CallAdmitted, CallCannotEncode, Return, Goto
<1>2. ASSUME NEW d \in Calls, CallPosts(d) PROVE StageOK(c)'
  BY <1>2 DEF CallPosts, Goto
<1>3. ASSUME NEW d \in Calls, CallGetsResponse(d) PROVE StageOK(c)'
  <2>1. resp[d] \in {"error", "json", "stream"}
    BY <1>3 DEF CallGetsResponse, Responses
  <2> QED BY <1>3, <2>1 DEF CallGetsResponse, Goto
<1>4. ASSUME NEW d \in Calls, \/ CallDoFails(d) \/ CallDrained(d) \/ CallReadsBody(d)
                              \/ CallBodyFails(d) \/ CallStreamEnds(d) \/ CallStreamFails(d)
      PROVE  StageOK(c)'
  <2>1. UNCHANGED <<conn, resp>>
    BY <1>4 DEF CallDoFails, CallDrained, CallReadsBody, CallBodyFails, CallStreamEnds,
       CallStreamFails
  <2>2. pc' = [pc EXCEPT ![d] = "returned"]
    BY <1>4 DEF CallDoFails, CallDrained, CallReadsBody, CallBodyFails, CallStreamEnds,
       CallStreamFails, Return
  <2> QED BY <2>1, <2>2
<1>5. ASSUME \/ UNCHANGED vars \/ Close
             \/ \E d \in Calls : \/ CallFeeds(d) \/ ContextCuts(d)
                                 \/ \E b \in BOOLEAN : CtxEnds(d, b)
      PROVE  StageOK(c)'
  BY <1>5 DEF vars, Close, CallFeeds, ContextCuts, CtxEnds
<1>6. ASSUME NEW d \in Calls, NetStep(d) PROVE StageOK(c)'
  BY <1>6 DEF NetStep, ServerResponds, ServerStreams, ServerEnds, ConnFails
<1> QED BY <1>1, <1>2, <1>3, <1>4, <1>5, <1>6 DEF Next, CallStep, Terminated

(* A blank line or the end of the stream finds a frame only in the data.   *)
LEMMA FlushHolds ==
  ASSUME NEW p \in Parser, HoldsPiece(Flush(p))
  PROVE  HoldsPiece(p)
<1>1. p.current \in Frames => Len(p.current) >= 1 /\ p.current[1] \in Pieces
  BY DEF Frames, Pieces, Data
<1>2. Flush(p).matched # Nothing
  BY FlushType DEF HoldsPiece
<1>3. p.current \in Frames => 1 \in 1..Len(p.current)
  <2>1. p.current \in Seq(Data)
    BY DEF Parser
  <2> QED BY <1>1, <2>1
<1> QED BY <1>1, <1>2, <1>3, FlushType DEF HoldsPiece

(* A line adds itself only.                                                *)
LEMMA FeedHolds ==
  ASSUME NEW p \in Parser, NEW line \in Lines, HoldsPiece(Feed(p, line))
  PROVE  HoldsPiece(p) \/ line \in Pieces
<1> DEFINE q == Feed(p, line)
<1>1. CASE line = "blank"
  <2>1. q.current = <<>> /\ q.matched = Flush(p).matched
    BY <1>1, FeedType
  <2>2. HoldsPiece(Flush(p))
    BY <2>1 DEF HoldsPiece
  <2> QED BY <2>2, FlushHolds
<1>2. CASE line \in Data /\ line # "blank"
  <2>1. q.current = Append(p.current, line) /\ q.matched = p.matched
    BY <1>2, FeedType
  <2>2. p.current \in Seq(Data)
    BY DEF Parser
  <2>3. ASSUME NEW k \in 1..Len(q.current), q.current[k] \in Pieces
        PROVE  HoldsPiece(p) \/ line \in Pieces
    BY <1>2, <2>1, <2>2, <2>3 DEF HoldsPiece
  <2> QED BY <2>1, <2>3 DEF HoldsPiece
<1>3. CASE line \notin Data /\ line # "blank"
  <2>1. q.current = p.current /\ q.matched = p.matched
    BY <1>3, FeedType
  <2> QED BY <2>1 DEF HoldsPiece
<1> QED BY <1>1, <1>2, <1>3

LEMMA ReadStep ==
  ASSUME DataOK, NEW c \in Calls, ReadOK(c), [Next]_vars
  PROVE  ReadOK(c)'
<1>1. /\ parse[c] \in Parser /\ nread[c] \in Nat /\ sent[c] \in Seq(StreamLines)
      /\ nread[c] <= Len(sent[c])
  BY DEF DataOK
<1>2. ASSUME NEW d \in Calls, CallFeeds(d) PROVE ReadOK(c)'
  <2>1. CASE d # c
    BY <1>2, <2>1 DEF CallFeeds, netVars, ReadOK, DataOK
  <2>2. CASE d = c
    <3> DEFINE line == sent[c][nread[c] + 1]
    <3>1. nread'[c] = nread[c] + 1 /\ sent' = sent /\ nread[c] + 1 \in 1..Len(sent[c])
      BY <1>1, <1>2, <2>2 DEF CallFeeds, netVars, DataOK
    <3>2. parse'[c] = Feed(parse[c], line)
      BY <1>2, <2>2, <3>1 DEF CallFeeds, DataOK
    <3>3. line \in Lines
      BY <1>1, <3>1, StreamAssumption
    <3>4. HoldsPiece(parse'[c]) => HoldsPiece(parse[c]) \/ line \in Pieces
      <4> HIDE DEF line
      <4> QED BY <1>1, <3>2, <3>3, FeedHolds
    <3>5. HoldsPiece(parse'[c]) => \E k \in 1..(nread[c] + 1) : sent[c][k] \in Pieces
      BY <1>1, <3>4 DEF ReadOK
    <3> QED BY <3>1, <3>5 DEF ReadOK, HoldsPiece
  <2> QED BY <2>1, <2>2
<1>3. ASSUME NEW d \in Calls, CallStreamEnds(d) \/ CallStreamFails(d) PROVE ReadOK(c)'
  <2>1. UNCHANGED <<sent, nread>> /\ parse' = [parse EXCEPT ![d] = Flush(parse[d])]
    BY <1>3 DEF CallStreamEnds, CallStreamFails, netVars
  <2>2. parse'[c] = parse[c] \/ parse'[c] = Flush(parse[c])
    BY <2>1 DEF DataOK
  <2>3. HoldsPiece(parse'[c]) => HoldsPiece(parse[c])
    BY <1>1, <2>2, FlushHolds
  <2> QED BY <2>1, <2>3 DEF ReadOK, HoldsPiece
<1>4. ASSUME NEW d \in Calls, NEW line \in StreamLines, ServerStreams(d, line) PROVE ReadOK(c)'
  <2>1. UNCHANGED <<nread, parse>> /\ sent' = [sent EXCEPT ![d] = Append(sent[d], line)]
    BY <1>4 DEF ServerStreams, readVars
  <2>2. \A k \in 1..Len(sent[c]) : sent'[c][k] = sent[c][k]
    BY <1>1, <2>1 DEF DataOK
  <2>3. \A k \in 1..nread[c] : sent'[c][k] = sent[c][k]
    BY <1>1, <2>2
  <2> QED BY <2>1, <2>3 DEF ReadOK, HoldsPiece
<1>5. ASSUME UNCHANGED <<sent, nread, parse>> PROVE ReadOK(c)'
  BY <1>5 DEF ReadOK, HoldsPiece
<1>6. \/ UNCHANGED <<sent, nread, parse>>
      \/ \E d \in Calls : \/ CallFeeds(d) \/ CallStreamEnds(d) \/ CallStreamFails(d)
                          \/ \E line \in StreamLines : ServerStreams(d, line)
  BY DEF Next, CallStep, NetStep, Terminated, vars, CallRefused, CallAdmitted,
     CallCannotEncode, CallPosts, CallDoFails, CallGetsResponse, CallDrained, CallReadsBody,
     CallBodyFails, ContextCuts, Close, CtxEnds, ServerResponds, ServerEnds, ConnFails,
     netVars, readVars
<1> QED BY <1>2, <1>3, <1>4, <1>5, <1>6

-----------------------------------------------------------------------------
(* The type invariant; with it, that only a call whose context is done is  *)
(* ever cut off, and that parseSSE never shows a call the frame of another *)
(* stream, whatever lines its server sends.                                *)
LEMMA TypeInit == Init => TypeOK
<1>1. Init => \A c \in Calls : StageOK(c) /\ ReadOK(c)
  <2> SUFFICES ASSUME Init, NEW c \in Calls PROVE StageOK(c) /\ ReadOK(c)
    OBVIOUS
  <2>1. StageOK(c)
    BY DEF Init, StageOK
  <2>2. parse[c].matched = Nothing /\ parse[c].current = <<>>
    BY DEF Init, Start
  <2>3. ~HoldsPiece(parse[c])
    BY <2>2 DEF HoldsPiece
  <2> QED BY <2>1, <2>3 DEF ReadOK
<1> QED BY <1>1, DataInit DEF TypeOK

LEMMA TypeStep == TypeOK /\ [Next]_vars => TypeOK'
BY DataStep, StageStep, ReadStep DEF TypeOK

THEOREM TypeCorrect == Spec => []TypeOK
BY TypeInit, TypeStep, PTL DEF Spec

-----------------------------------------------------------------------------
(* The rule that decides is the least that finds its link in the chain.    *)
LEMMA Decides ==
  ASSUME NEW chain, NEW i \in 1..7, i \in Hits(chain), \A j \in 1..7 : j < i => j \notin Hits(chain)
  PROVE  Classify(chain) = Rules[i].category
<1>1. Hits(chain) \subseteq 1..7 /\ chain # <<>>
  <2>1. Hits(chain) \subseteq 1..7
    BY DEF Hits, Rules
  <2>2. \E k \in 1..Len(chain) : chain[k] \in Rules[i].links
    BY DEF Hits, Has
  <2> QED BY <2>1, <2>2
<1>2. Hits(chain) \in SUBSET Nat
  BY <1>1
<1>3. Min(Hits(chain)) \in Hits(chain) /\ \A j \in Hits(chain) : Min(Hits(chain)) <= j
  BY <1>2, LeastNat
<1>4. Min(Hits(chain)) = i
  BY <1>1, <1>3
<1> QED BY <1>1, <1>4 DEF Classify

(* What the errors of Call count as.                                       *)
LEMMA CallErrors ==
  /\ \A cause : Classify(<<"TimeoutError", cause>>) = "timeout"
  /\ Classify(TransportError("deadline")) = "timeout"
  /\ Classify(TransportError("canceled")) = "transport"
<1>1. /\ Rules[1].links = {"TimeoutError"} /\ Rules[1].category = "timeout"
      /\ Rules[2].links = {"deadline"} /\ Rules[2].category = "timeout"
      /\ Rules[3].links = Codes /\ Rules[4].links = {"TransportError", "EOF"}
      /\ Rules[4].category = "transport" /\ Len(Rules) = 7
  BY DEF Rules
<1>2. ASSUME NEW a, NEW b, NEW i \in 1..7
      PROVE  i \in Hits(<<a, b>>) <=> a \in Rules[i].links \/ b \in Rules[i].links
  <2>1. Has(<<a, b>>, Rules[i].links) <=> a \in Rules[i].links \/ b \in Rules[i].links
    BY DEF Has
  <2> QED BY <1>1, <2>1 DEF Hits
<1>3. ASSUME NEW cause
      PROVE  Classify(<<"TimeoutError", cause>>) = "timeout"
  BY <1>1, <1>2, Decides
<1>4. Classify(<<"TransportError", "deadline">>) = "timeout"
  <2>1. 2 \in Hits(<<"TransportError", "deadline">>) /\ 1 \notin Hits(<<"TransportError", "deadline">>)
    BY <1>1, <1>2
  <2> QED BY <1>1, <2>1, Decides
<1>5. Classify(<<"TransportError", "canceled">>) = "transport"
  <2> DEFINE chain == <<"TransportError", "canceled">>
  <2>1. 4 \in Hits(chain) /\ 1 \notin Hits(chain) /\ 2 \notin Hits(chain) /\ 3 \notin Hits(chain)
    BY <1>1, <1>2 DEF Codes
  <2> HIDE DEF chain
  <2>2. Classify(chain) = Rules[4].category
    BY <2>1, Decides
  <2> QED BY <1>1, <2>2 DEF chain
<1> QED BY <1>3, <1>4, <1>5 DEF TransportError

-----------------------------------------------------------------------------
CountedRight(c) == OnlyContext(c) =>
                     \/ Classify(err[c]) = "timeout"
                     \/ c \in cancelled /\ resp[c] = "stream" /\ Classify(err[c]) = "transport"

(* A failure of an exchange that has not failed itself is that of its      *)
(* context.                                                                *)
LEMMA CutOff ==
  ASSUME DataOK, NEW c \in Calls, NEW cause \in Causes(c), conn[c] \in {"pending", "open"}
  PROVE  /\ Classify(Excused(c, cause)) = "timeout"
         /\ \/ Classify(TransportError(cause)) = "timeout"
            \/ c \in cancelled /\ Classify(TransportError(cause)) = "transport"
<1>1. /\ cause \in {"deadline", "canceled"} /\ c \in ctxDone
      /\ cause = "canceled" => c \in cancelled
  BY DEF Causes, DataOK
<1>2. Excused(c, cause) = <<"TimeoutError", cause>>
  BY <1>1 DEF Excused
<1> QED BY <1>1, <1>2, CallErrors

LEMMA ReturnsCounted ==
  ASSUME DataOK, NEW c \in Calls, StageOK(c),
         \/ CallRefused(c) \/ CallCannotEncode(c) \/ CallDoFails(c) \/ CallDrained(c)
         \/ CallReadsBody(c) \/ CallBodyFails(c) \/ CallStreamEnds(c) \/ CallStreamFails(c),
         OnlyContext(c)'
  PROVE  CountedRight(c)'
<1>1. /\ conn'[c] = conn[c] /\ resp'[c] = resp[c] /\ cancelled' = cancelled
      /\ conn[c] \in {"pending", "open"} /\ resp[c] # "error" /\ ~parse'[c].stopped
  BY DEF CallRefused, CallCannotEncode, CallDoFails, CallDrained, CallReadsBody,
     CallBodyFails, CallStreamEnds, CallStreamFails, OnlyContext, netVars, ctxVars
<1>2. ~CallRefused(c) /\ ~CallCannotEncode(c) /\ ~CallDrained(c) /\ ~CallReadsBody(c)
  BY <1>1 DEF StageOK, CallRefused, CallCannotEncode, CallDrained, CallReadsBody, Return
<1>3. ~CallStreamEnds(c)
  <2>1. CallStreamEnds(c) => parse'[c].stopped
    <3>1. CallStreamEnds(c) => parse[c].stopped /\ parse'[c] = Flush(parse[c])
      BY <1>1 DEF CallStreamEnds, StreamEnded, DataOK
    <3> QED BY <3>1, FlushType DEF DataOK
  <2> QED BY <1>1, <2>1
<1>4. CASE CallDoFails(c) \/ CallBodyFails(c)
  <2>1. PICK cause \in Causes(c) : err'[c] = Excused(c, cause)
    BY <1>4 DEF CallDoFails, CallBodyFails, Return, DataOK
  <2> QED BY <1>1, <2>1, CutOff DEF CountedRight
<1>5. CASE CallStreamFails(c)
  <2>1. PICK cause \in Causes(c) : err'[c] = TransportError(cause)
    BY <1>5 DEF CallStreamFails, Return, DataOK
  <2>2. resp[c] = "stream"
    BY <1>5 DEF CallStreamFails, Return, StageOK
  <2> QED BY <1>1, <2>1, <2>2, CutOff DEF CountedRight
<1> QED BY <1>2, <1>3, <1>4, <1>5

(* The other steps let no call return, and undo no grounds.                *)
LEMMA OthersCounted ==
  ASSUME DataOK, NEW c \in Calls, StageOK(c), CountedRight(c), OnlyContext(c)',
         OnlyContext(c), err'[c] = err[c], cancelled \subseteq cancelled',
         resp'[c] = resp[c] \/ conn[c] = "pending"
  PROVE  CountedRight(c)'
BY DEF CountedRight, StageOK

LEMMA CountedStep ==
  ASSUME DataOK, NEW c \in Calls, StageOK(c), CountedRight(c), [Next]_vars
  PROVE  CountedRight(c)'
<1> SUFFICES ASSUME OnlyContext(c)' PROVE CountedRight(c)'
  BY DEF CountedRight
<1> USE DEF DataOK, ctxVars, netVars, readVars
<1>1. ASSUME NEW d \in Calls, d # c, CallRefused(d) \/ CallAdmitted(d) \/ CallStep(d)
      PROVE  CountedRight(c)'
  <2>1. pc'[c] = pc[c] /\ err'[c] = err[c] /\ parse'[c] = parse[c]
    BY <1>1 DEF CallStep, CallRefused, CallAdmitted, CallCannotEncode, CallPosts, CallDoFails,
       CallGetsResponse, CallDrained, CallReadsBody, CallBodyFails, CallFeeds,
       CallStreamEnds, CallStreamFails, Goto, Return
  <2>2. conn'[c] = conn[c] /\ resp'[c] = resp[c] /\ cancelled' = cancelled
    BY <1>1 DEF CallStep, CallRefused, CallAdmitted, CallCannotEncode, CallPosts, CallDoFails,
       CallGetsResponse, CallDrained, CallReadsBody, CallBodyFails, CallFeeds,
       CallStreamEnds, CallStreamFails
  <2> QED BY <2>1, <2>2, OthersCounted DEF OnlyContext
<1>2. ~(CallAdmitted(c) \/ CallPosts(c) \/ CallGetsResponse(c) \/ CallFeeds(c))
  <2>1. pc'[c] = "returned"
    BY DEF OnlyContext
  <2>2. CallGetsResponse(c) => pc'[c] \in {"drain", "body", "stream"}
    BY DEF CallGetsResponse, Goto, Responses
  <2>3. CallAdmitted(c) \/ CallPosts(c) \/ CallFeeds(c) => pc'[c] # "returned"
    BY DEF CallAdmitted, CallPosts, CallFeeds, Goto
  <2> QED BY <2>1, <2>2, <2>3
<1>3. ASSUME CallRefused(c) \/ CallAdmitted(c) \/ CallStep(c)
      PROVE  CountedRight(c)'
  BY <1>2, <1>3, ReturnsCounted DEF CallStep
<1>4. ASSUME \/ UNCHANGED vars \/ Close
             \/ \E d \in Calls : ContextCuts(d) \/ \E b \in BOOLEAN : CtxEnds(d, b)
      PROVE  CountedRight(c)'
  <2>1. UNCHANGED <<pc, err, conn, resp, parse>> /\ cancelled \subseteq cancelled'
    BY <1>4 DEF vars, Close, ContextCuts, CtxEnds
  <2> QED BY <2>1, OthersCounted DEF OnlyContext
<1>5. ASSUME NEW d \in Calls, NetStep(d)
      PROVE  CountedRight(c)'
  <2>1. UNCHANGED <<pc, err, cancelled, parse>>
    BY <1>5 DEF NetStep, ServerResponds, ServerStreams, ServerEnds, ConnFails
  <2>2. /\ conn[c] \in {"pending", "open"} /\ (resp'[c] = resp[c] \/ conn[c] = "pending")
        /\ resp'[c] # "error"
    BY <1>5 DEF NetStep, ServerResponds, ServerStreams, ServerEnds, ConnFails, OnlyContext
  <2>3. resp[c] # "error"
    BY <2>2 DEF StageOK
  <2> QED BY <2>1, <2>2, <2>3, OthersCounted DEF OnlyContext
<1> QED BY <1>1, <1>3, <1>4, <1>5 DEF Next, Terminated

(* DeadlinesAreTimeouts: whatever a call was reading when its context cut  *)
(* it off, and whatever else happens before and after, it is counted as a  *)
(* timeout, but for an event stream that an interrupt has cut.             *)
THEOREM DeadlinesCounted == Spec => []DeadlinesAreTimeouts
<1> DEFINE Inv == \A c \in Calls : CountedRight(c)
<1>1. Init => Inv
  BY DEF Init, CountedRight, OnlyContext
<1>2. TypeOK /\ Inv /\ [Next]_vars => Inv'
  BY CountedStep DEF TypeOK
<1>3. Inv <=> DeadlinesAreTimeouts
  BY DEF CountedRight, DeadlinesAreTimeouts
<1> HIDE DEF Inv
<1> QED BY <1>1, <1>2, <1>3, TypeCorrect, PTL DEF Spec

-----------------------------------------------------------------------------
(* The state of the contract that HttpTransport shows.                     *)
Statuses == [c \in Calls |-> Status(c)]
Breaks   == {c \in Calls : Lost(c)}
Answers  == {c \in Calls : Answered(c)}

LEMMA ContractInit == Init => Contract!Init
<1> SUFFICES ASSUME Init PROVE Contract!Init
  OBVIOUS
<1>1. \A c \in Calls : Status(c) = "idle" /\ ~Lost(c) /\ ~Answered(c)
  BY DEF Init, Status, Lost, Answered
<1> QED BY <1>1 DEF Init, Contract!Init

(* Only the call that moves has another status.                            *)
LEMMA Moved ==
  ASSUME DataOK, NEW c \in Calls, NEW from, NEW to, from = Status(c), to = Status(c)',
         \A d \in Calls \ {c} : pc'[d] = pc[d] /\ err'[d] = err[d],
         UNCHANGED <<ctxDone, closed>>,
         Breaks' = Breaks, Answers' = Answers
  PROVE  Contract!Moves(c, from, to)
<1>1. \A d \in Calls \ {c} : Status(d)' = Status(d)
  BY DEF Status
<1>2. Statuses' = [Statuses EXCEPT ![c] = to] /\ Statuses[c] = from
  BY <1>1 DEF Statuses
<1> QED BY <1>2 DEF Contract!Moves, Statuses, Breaks, Answers

(* What keeps the grounds of every call.                                   *)
LEMMA SameGrounds ==
  ASSUME DataOK, UNCHANGED <<conn, cut, resp, sent>>,
         \A d \in Calls : parse'[d].stopped = parse[d].stopped
  PROVE  Breaks' = Breaks /\ Answers' = Answers
<1>1. \A d \in Calls : Lost(d)' <=> Lost(d)
  BY DEF Lost
<1>2. \A d \in Calls : Answered(d)' <=> Answered(d)
  BY DEF Answered
<1> QED BY <1>1, <1>2 DEF Breaks, Answers

(* A frame that parseSSE has found is an answer of the server.             *)
LEMMA FoundAnswered ==
  ASSUME DataOK, NEW c \in Calls, ReadOK(c), Flush(parse[c]).matched # Nothing
  PROVE  Answered(c)
<1>1. parse[c] \in Parser /\ nread[c] \in Nat /\ nread[c] <= Len(sent[c])
  BY DEF DataOK
<1>2. HoldsPiece(parse[c])
  BY <1>1, FlushHolds DEF HoldsPiece
<1>3. PICK k \in 1..nread[c] : sent[c][k] \in Pieces
  BY <1>2 DEF ReadOK
<1>4. k \in 1..Len(sent[c])
  <2>1. Len(sent[c]) \in Nat
    BY DEF DataOK
  <2> QED BY <1>1, <2>1
<1>5. sent[c][k] \notin {"blank", "comment", "done", "message", "foreign"}
  BY <1>3 DEF Pieces, Data
<1> QED BY <1>4, <1>5 DEF Answered

(* A failed exchange times out if its context is done, and has lost its    *)
(* connection otherwise.                                                   *)
LEMMA ExcusedRight ==
  ASSUME DataOK, NEW c \in Calls, NEW cause \in Causes(c), err'[c] = Excused(c, cause),
         pc'[c] = "returned"
  PROVE  \/ c \in ctxDone /\ Status(c)' = "timeout"
         \/ c \notin ctxDone /\ Lost(c) /\ Status(c)' = "transport"
<1>1. CASE c \in ctxDone
  <2>1. err'[c] = <<"TimeoutError", cause>>
    BY <1>1 DEF Excused
  <2>2. err'[c] # <<>> /\ err'[c][1] = "TimeoutError"
    BY <2>1
  <2> QED BY <1>1, <2>2 DEF Status
<1>2. CASE c \notin ctxDone
  <2>1. conn[c] = "failed"
    BY <1>2 DEF Causes, DataOK
  <2>2. err'[c] = <<"TransportError", cause>>
    BY <1>2 DEF Excused, TransportError
  <2>3. err'[c] # <<>> /\ err'[c][1] # "TimeoutError"
    BY <2>2
  <2> QED BY <1>2, <2>1, <2>3 DEF Status, Lost
<1> QED BY <1>1, <1>2

(* Any other error is one of the transport.                                *)
LEMMA FailedRight ==
  ASSUME NEW c \in Calls, NEW cause, err'[c] = TransportError(cause), pc'[c] = "returned"
  PROVE  Status(c)' = "transport"
<1>1. err'[c] = <<"TransportError", cause>>
  BY DEF TransportError
<1>2. err'[c] # <<>> /\ err'[c][1] # "TimeoutError"
  BY <1>1
<1> QED BY <1>2 DEF Status

-----------------------------------------------------------------------------
(* The steps of a call, one by one.                                        *)
LEMMA RefusedContract ==
  ASSUME DataOK, NEW c \in Calls, CallRefused(c) PROVE Contract!Refuse(c)
<1>1. /\ pc[c] = "idle" /\ pc'[c] = "returned" /\ err'[c] = TransportError("plain") /\ closed
      /\ \A d \in Calls \ {c} : pc'[d] = pc[d] /\ err'[d] = err[d]
  BY DEF CallRefused, Return, DataOK
<1>2. Status(c) = "idle" /\ Status(c)' = "transport"
  BY <1>1, FailedRight DEF Status
<1>3. Breaks' = Breaks /\ Answers' = Answers
  BY SameGrounds DEF CallRefused, netVars, readVars
<1>4. UNCHANGED <<ctxDone, closed>>
  BY DEF CallRefused, ctxVars
<1> QED BY <1>1, <1>2, <1>3, <1>4, Moved DEF Contract!Refuse

LEMMA AdmittedContract ==
  ASSUME DataOK, NEW c \in Calls, CallAdmitted(c) PROVE Contract!Begin(c)
<1>1. /\ pc[c] = "idle" /\ pc'[c] = "encode" /\ ~closed
      /\ \A d \in Calls \ {c} : pc'[d] = pc[d] /\ err'[d] = err[d]
  BY DEF CallAdmitted, Goto, DataOK
<1>2. Status(c) = "idle" /\ Status(c)' = "active"
  BY <1>1 DEF Status
<1>3. Breaks' = Breaks /\ Answers' = Answers
  BY SameGrounds DEF CallAdmitted, netVars, readVars
<1>4. UNCHANGED <<ctxDone, closed>>
  BY DEF CallAdmitted, ctxVars
<1> QED BY <1>1, <1>2, <1>3, <1>4, Moved DEF Contract!Begin

LEMMA ActiveStatus ==
  ASSUME NEW c \in Calls, pc[c] \in {"encode", "do", "drain", "body", "stream"}
  PROVE  Status(c) = "active"
BY DEF Status

(* The returns of a call that was under way.                               *)
LEMMA ReturnContract ==
  ASSUME DataOK, NEW c \in Calls, StageOK(c), ReadOK(c),
         \/ CallCannotEncode(c) \/ CallDoFails(c) \/ CallDrained(c)
         \/ CallReadsBody(c) \/ CallBodyFails(c) \/ CallStreamEnds(c) \/ CallStreamFails(c)
  PROVE  Contract!Complete(c) \/ Contract!TimeOut(c) \/ Contract!Fail(c)
<1>1. /\ pc[c] \in {"encode", "do", "drain", "body", "stream"} /\ pc'[c] = "returned"
      /\ \A d \in Calls \ {c} : pc'[d] = pc[d] /\ err'[d] = err[d]
  BY DEF CallCannotEncode, CallDoFails, CallDrained, CallReadsBody, CallBodyFails,
     CallStreamEnds, CallStreamFails, Return, DataOK
<1>2. Status(c) = "active"
  BY <1>1, ActiveStatus
<1>3. UNCHANGED <<ctxDone, closed, conn, cut, resp, sent>>
  BY DEF CallCannotEncode, CallDoFails, CallDrained, CallReadsBody, CallBodyFails,
     CallStreamEnds, CallStreamFails, ctxVars, netVars
<1>4. \A d \in Calls : parse'[d].stopped = parse[d].stopped
  <2>1. CASE CallStreamEnds(c) \/ CallStreamFails(c)
    <3>1. parse' = [parse EXCEPT ![c] = Flush(parse[c])] /\ parse[c] \in Parser
      BY <2>1 DEF CallStreamEnds, CallStreamFails, DataOK
    <3>2. Flush(parse[c]).stopped = parse[c].stopped
      BY <3>1, FlushType
    <3> QED BY <3>1, <3>2 DEF DataOK
  <2>2. CASE UNCHANGED parse
    BY <2>2
  <2> QED BY <2>1, <2>2 DEF CallCannotEncode, CallDoFails, CallDrained, CallReadsBody,
             CallBodyFails, readVars
<1>5. Breaks' = Breaks /\ Answers' = Answers
  BY <1>3, <1>4, SameGrounds
<1>6. Contract!Moves(c, "active", Status(c)')
  BY <1>1, <1>2, <1>3, <1>5, Moved
<1>7. ASSUME c \in Malformed \/ Lost(c), Status(c)' = "transport"
      PROVE  Contract!Fail(c)
  BY <1>6, <1>7 DEF Contract!Fail
<1>8. ASSUME Answered(c), Status(c)' = "ok"
      PROVE  Contract!Complete(c)
  BY <1>6, <1>8 DEF Contract!Complete
<1>9. CASE CallCannotEncode(c)
  BY <1>1, <1>7, <1>9, FailedRight DEF CallCannotEncode, Return, DataOK
<1>10. CASE CallDoFails(c) \/ CallBodyFails(c)
  <2>1. PICK cause \in Causes(c) : err'[c] = Excused(c, cause)
    BY <1>10 DEF CallDoFails, CallBodyFails, Return, DataOK
  <2>2. \/ c \in ctxDone /\ Status(c)' = "timeout"
        \/ c \notin ctxDone /\ Lost(c) /\ Status(c)' = "transport"
    BY <1>1, <2>1, ExcusedRight
  <2> QED BY <1>6, <1>7, <2>2 DEF Contract!TimeOut
<1>11. CASE CallDrained(c)
  <2>1. err'[c] = TransportError("plain") /\ resp[c] = "error"
    BY <1>11 DEF CallDrained, Return, StageOK, DataOK
  <2> QED BY <1>1, <1>7, <2>1, FailedRight DEF Lost
<1>12. CASE CallReadsBody(c)
  <2>1. err'[c] = <<>> /\ resp[c] = "json" /\ conn[c] = "ended"
    BY <1>12 DEF CallReadsBody, Return, StageOK, DataOK
  <2> QED BY <1>1, <1>8, <2>1 DEF Answered, Status
<1>13. CASE CallStreamEnds(c)
  <2>1. /\ err'[c] = IF Flush(parse[c]).matched = Nothing THEN TransportError("plain") ELSE <<>>
        /\ StreamEnded(c) /\ resp[c] = "stream"
    BY <1>13 DEF CallStreamEnds, Return, StageOK, DataOK
  <2>2. CASE Flush(parse[c]).matched = Nothing
    BY <1>1, <1>7, <2>1, <2>2, FailedRight DEF Lost, StreamEnded
  <2>3. CASE Flush(parse[c]).matched # Nothing
    BY <1>1, <1>8, <2>1, <2>3, FoundAnswered DEF Status
  <2> QED BY <2>2, <2>3
<1>14. CASE CallStreamFails(c)
  <2>1. PICK cause \in Causes(c) : err'[c] = TransportError(cause)
    BY <1>14 DEF CallStreamFails, Return, DataOK
  <2>2. resp[c] = "stream" /\ (conn[c] = "failed" \/ c \in cut)
    BY <1>14 DEF CallStreamFails, Return, StageOK, Causes
  <2> QED BY <1>1, <1>7, <2>1, <2>2, FailedRight DEF Lost
<1> QED BY <1>9, <1>10, <1>11, <1>12, <1>13, <1>14

-----------------------------------------------------------------------------
(* What moves no call may break some connections, or answer some calls.    *)
LEMMA Broken ==
  ASSUME UNCHANGED <<pc, err, ctxDone, closed>>, Breaks \subseteq Breaks', Answers' = Answers
  PROVE  Contract!Break(Breaks') /\ Breaks' \in SUBSET Calls
<1>1. Statuses' = Statuses
  BY DEF Statuses, Status
<1>2. Breaks' \in SUBSET Calls
  BY DEF Breaks
<1> QED BY <1>1, <1>2 DEF Contract!Break, Statuses, Breaks, Answers

LEMMA Replied ==
  ASSUME UNCHANGED <<pc, err, ctxDone, closed>>, Breaks' = Breaks,
         NEW c \in Calls, pc[c] # "idle", Answers' = Answers \cup {c} \/ Answers' = Answers
  PROVE  Contract!Answer(c) \/ UNCHANGED Contract!vars
<1>1. Statuses' = Statuses
  BY DEF Statuses, Status
<1>2. Statuses[c] # "idle"
  BY DEF Statuses, Status
<1> QED BY <1>1, <1>2 DEF Contract!Answer, Contract!vars, Statuses, Breaks, Answers

(* The steps of a call that do not end it.                                 *)
LEMMA OnwardContract ==
  ASSUME DataOK, NEW c \in Calls, StageOK(c), CallPosts(c) \/ CallGetsResponse(c)
  PROVE  UNCHANGED Contract!vars
<1>1. /\ pc[c] \in {"encode", "do"} /\ pc'[c] \in {"encode", "do", "drain", "body", "stream"}
      /\ \A d \in Calls \ {c} : pc'[d] = pc[d]
      /\ UNCHANGED <<err, closed, ctxDone, cut, resp, sent, parse>>
  <2>1. resp[c] # "none" => resp[c] \in {"error", "json", "stream"}
    BY DEF DataOK, Responses
  <2> QED BY <2>1 DEF CallPosts, CallGetsResponse, Goto, DataOK, ctxVars, netVars, readVars
<1>2. \A d \in Calls : Status(d)' = Status(d)
  <2>1. \A d \in Calls \ {c} : Status(d)' = Status(d)
    BY <1>1 DEF Status
  <2>2. Status(c) = "active" /\ Status(c)' = "active"
    BY <1>1 DEF Status
  <2> QED BY <2>1, <2>2
<1>3. \A d \in Calls \ {c} : conn'[d] = conn[d]
  BY DEF CallPosts, CallGetsResponse, netVars, DataOK
<1>4. conn'[c] = conn[c] \/ (conn[c] = "none" /\ conn'[c] = "pending")
  BY DEF CallPosts, CallGetsResponse, Goto, StageOK, netVars, DataOK
<1>5. \A d \in Calls : (Lost(d)' <=> Lost(d)) /\ (Answered(d)' <=> Answered(d))
  BY <1>1, <1>3, <1>4 DEF Lost, Answered
<1>6. Statuses' = Statuses /\ Breaks' = Breaks /\ Answers' = Answers
  BY <1>2, <1>5 DEF Statuses, Breaks, Answers
<1> QED BY <1>1, <1>6 DEF Contract!vars, Statuses, Breaks, Answers

LEMMA FeedsContract ==
  ASSUME DataOK, NEW c \in Calls, StageOK(c), CallFeeds(c)
  PROVE  Contract!Break(Breaks') /\ Breaks' \in SUBSET Calls
<1>1. /\ UNCHANGED <<pc, err, closed, ctxDone, conn, cut, resp, sent>>
      /\ ~parse[c].stopped /\ \A d \in Calls \ {c} : parse'[d] = parse[d]
  BY DEF CallFeeds, ctxVars, netVars, DataOK
<1>2. \A d \in Calls : (Lost(d) => Lost(d)') /\ (Answered(d)' <=> Answered(d))
  BY <1>1 DEF Lost, Answered
<1>3. Breaks \subseteq Breaks' /\ Answers' = Answers
  BY <1>2 DEF Breaks, Answers
<1> QED BY <1>1, <1>3, Broken

(* The world around the calls.                                             *)
LEMMA CutContract ==
  ASSUME NEW c \in Calls, ContextCuts(c)
  PROVE  Contract!Break(Breaks') /\ Breaks' \in SUBSET Calls
<1>1. /\ UNCHANGED <<pc, err, closed, ctxDone, conn, resp, sent, parse>> /\ cut \subseteq cut'
  BY DEF ContextCuts, ctxVars, readVars
<1>2. \A d \in Calls : (Lost(d) => Lost(d)') /\ (Answered(d)' <=> Answered(d))
  BY <1>1 DEF Lost, Answered
<1>3. Breaks \subseteq Breaks' /\ Answers' = Answers
  BY <1>2 DEF Breaks, Answers
<1> QED BY <1>1, <1>3, Broken

LEMMA NetContract ==
  ASSUME DataOK, NEW c \in Calls, StageOK(c), NetStep(c)
  PROVE  \/ Contract!Break(Breaks') /\ Breaks' \in SUBSET Calls
         \/ Contract!Answer(c)
         \/ UNCHANGED Contract!vars
<1>1. /\ UNCHANGED <<pc, err, closed, ctxDone, cut, parse>> /\ c \notin cut
      /\ \A d \in Calls \ {c} : /\ conn'[d] = conn[d] /\ resp'[d] = resp[d]
                                /\ sent'[d] = sent[d]
  BY DEF NetStep, ServerResponds, ServerStreams, ServerEnds, ConnFails, ctxVars, readVars,
     DataOK
<1>2. \A d \in Calls \ {c} : (Lost(d)' <=> Lost(d)) /\ (Answered(d)' <=> Answered(d))
  BY <1>1 DEF Lost, Answered
<1>3. pc[c] # "idle"
  BY DEF NetStep, ServerResponds, ServerStreams, ServerEnds, ConnFails, StageOK
<1>4. CASE (Lost(c) => Lost(c)') /\ (Answered(c)' <=> Answered(c))
  <2>1. Breaks \subseteq Breaks' /\ Answers' = Answers
    BY <1>2, <1>4 DEF Breaks, Answers
  <2> QED BY <1>1, <2>1, Broken
<1>5. CASE (Lost(c)' <=> Lost(c)) /\ (Answered(c) => Answered(c)')
  <2>1. Breaks' = Breaks /\ (Answers' = Answers \cup {c} \/ Answers' = Answers)
    BY <1>2, <1>5 DEF Breaks, Answers
  <2> QED BY <1>1, <1>3, <2>1, Replied
<1>6. ASSUME NEW r \in Responses, ServerResponds(c, r)
      PROVE  (Lost(c) => Lost(c)') /\ (Answered(c)' <=> Answered(c))
  <2>1. /\ conn[c] = "pending" /\ conn'[c] = "open" /\ resp[c] = "none" /\ sent' = sent
    BY <1>6 DEF ServerResponds, StageOK, DataOK
  <2> QED BY <2>1 DEF Lost, Answered
<1>7. ASSUME NEW line \in StreamLines, ServerStreams(c, line)
      PROVE  (Lost(c)' <=> Lost(c)) /\ (Answered(c) => Answered(c)')
  <2>1. UNCHANGED <<conn, resp>> /\ sent' = [sent EXCEPT ![c] = Append(sent[c], line)]
    BY <1>7 DEF ServerStreams
  <2>2. sent[c] \in Seq(StreamLines) /\ sent'[c] = Append(sent[c], line)
    BY <2>1 DEF DataOK
  <2>3. \A k \in 1..Len(sent[c]) : k \in 1..Len(sent'[c]) /\ sent'[c][k] = sent[c][k]
    BY <2>2
  <2> QED BY <1>1, <2>1, <2>3 DEF Lost, Answered
<1>8. CASE ServerEnds(c)
  <2>1. /\ conn[c] = "open" /\ conn'[c] = "ended" /\ UNCHANGED <<resp, sent>>
    BY <1>8 DEF ServerEnds, DataOK
  <2>2. resp[c] = "json" => (Lost(c)' <=> Lost(c)) /\ (Answered(c) => Answered(c)')
    BY <1>1, <2>1 DEF Lost, Answered
  <2>3. resp[c] # "json" => (Lost(c) => Lost(c)') /\ (Answered(c)' <=> Answered(c))
    BY <1>1, <2>1 DEF Lost, Answered
  <2> QED BY <1>4, <1>5, <2>2, <2>3
<1>9. CASE ConnFails(c)
  <2>1. /\ conn[c] \in {"pending", "open"} /\ conn'[c] = "failed" /\ UNCHANGED <<resp, sent>>
    BY <1>9 DEF ConnFails, DataOK
  <2>2. (Lost(c) => Lost(c)') /\ (Answered(c)' <=> Answered(c))
    BY <1>1, <2>1 DEF Lost, Answered
  <2> QED BY <1>4, <2>2
<1> QED BY <1>4, <1>5, <1>6, <1>7, <1>8, <1>9 DEF NetStep

LEMMA WorldContract ==
  ASSUME DataOK
  PROVE  /\ Close => Contract!Shut
         /\ \A c \in Calls, b \in BOOLEAN : CtxEnds(c, b) => Contract!Expire({c})
         /\ UNCHANGED vars => UNCHANGED Contract!vars
<1>1. UNCHANGED <<pc, err, conn, cut, resp, sent, parse>>
        => Statuses' = Statuses /\ Breaks' = Breaks /\ Answers' = Answers
  BY DEF Statuses, Status, Breaks, Lost, Answers, Answered
<1>2. Close => Contract!Shut
  BY <1>1 DEF Close, Contract!Shut, ctxVars, netVars, readVars, Statuses, Breaks, Answers
<1>3. ASSUME NEW c \in Calls, NEW b \in BOOLEAN, CtxEnds(c, b)
      PROVE  Contract!Expire({c})
  BY <1>1, <1>3 DEF CtxEnds, Contract!Expire, netVars, readVars, Statuses, Breaks, Answers
<1>4. UNCHANGED vars => UNCHANGED Contract!vars
  BY <1>1 DEF vars, Contract!vars, ctxVars, netVars, readVars, Statuses, Breaks, Answers
<1> QED BY <1>2, <1>3, <1>4

LEMMA ContractStep == TypeOK /\ [Next]_vars => [Contract!Next]_(Contract!vars)
<1> SUFFICES ASSUME TypeOK, [Next]_vars PROVE [Contract!Next]_(Contract!vars)
  OBVIOUS
<1>1. DataOK /\ \A c \in Calls : StageOK(c) /\ ReadOK(c)
  BY DEF TypeOK
<1>2. ASSUME NEW c \in Calls, CallRefused(c) \/ CallAdmitted(c)
      PROVE  Contract!Next
  BY <1>1, <1>2, RefusedContract, AdmittedContract DEF Contract!Next
<1>3. ASSUME NEW c \in Calls, CallStep(c)
      PROVE  [Contract!Next]_(Contract!vars)
  <2>1. CASE CallPosts(c) \/ CallGetsResponse(c)
    BY <1>1, <2>1, OnwardContract
  <2>2. CASE CallFeeds(c)
    BY <1>1, <2>2, FeedsContract DEF Contract!Next
  <2>3. CASE \/ CallCannotEncode(c) \/ CallDoFails(c) \/ CallDrained(c) \/ CallReadsBody(c)
             \/ CallBodyFails(c) \/ CallStreamEnds(c) \/ CallStreamFails(c)
    BY <1>1, <2>3, ReturnContract DEF Contract!Next
  <2> QED BY <1>3, <2>1, <2>2, <2>3 DEF CallStep
<1>4. ASSUME NEW c \in Calls, NEW b \in BOOLEAN, CtxEnds(c, b)
      PROVE  Contract!Next
  BY <1>1, <1>4, WorldContract DEF Contract!Next
<1>5. ASSUME NEW c \in Calls, ContextCuts(c)
      PROVE  Contract!Next
  BY <1>5, CutContract DEF Contract!Next
<1>6. ASSUME NEW c \in Calls, NetStep(c)
      PROVE  [Contract!Next]_(Contract!vars)
  BY <1>1, <1>6, NetContract DEF Contract!Next
<1>7. CASE Close
  BY <1>1, <1>7, WorldContract DEF Contract!Next
<1>8. CASE UNCHANGED vars
  BY <1>1, <1>8, WorldContract
<1> QED BY <1>2, <1>3, <1>4, <1>5, <1>6, <1>7, <1>8 DEF Next, Terminated

(* ImplementsContract: Call and Close keep the contract of Transport,      *)
(* whatever the server sends on whatever connection, and whenever it fails *)
(* or is cut off: no call succeeds without an answer of its own.           *)
THEOREM HttpImplementsContract == Spec => ImplementsContract
BY ContractInit, ContractStep, TypeCorrect, PTL DEF Spec, ImplementsContract, Contract!Spec
=============================================================================
