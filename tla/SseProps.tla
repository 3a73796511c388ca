------------------------------ MODULE SseProps ------------------------------
(* What Sse must satisfy, over every short stream: the definition in the   *)
(* comments of parseSSE and of HTTPConfig.AllowSSE, by which the last      *)
(* well-formed frame with the expected id wins, and an event called done   *)
(* ends the stream.                                                        *)
EXTENDS Sse, Integers, FiniteSets, FiniteSetsExt

CONSTANT MaxLines

VARIABLE stream

Init == stream \in SeqOf(Lines, MaxLines)

(* The events of the stream: its longest stretches without a blank line.   *)
Blank(i) == stream[i] = "blank"
Blocks == {b \in (1..Len(stream)) \X (1..Len(stream)) :
             /\ b[1] <= b[2] /\ \A i \in b[1]..b[2] : ~Blank(i)
             /\ b[1] = 1 \/ Blank(b[1] - 1)
             /\ b[2] = Len(stream) \/ Blank(b[2] + 1)}

(* The data lines of a block, and the last event that it names.            *)
DataOf(b) == FoldLeft(LAMBDA data, line : IF line \in Data THEN Append(data, line) ELSE data,
                      <<>>, SubSeq(stream, b[1], b[2]))
NameOf(b) == LET names == {i \in b[1]..b[2] : stream[i] \in Events}
             IN IF names = {} THEN "" ELSE stream[Max(names)]

(* An event is dispatched by the blank line after it, or the end of the    *)
(* stream; nothing after a dispatched done is read.                        *)
Read     == {b \in Blocks : ~\E a \in Blocks : a[2] < b[1] /\ NameOf(a) = "done"}
Answers  == {b \in Read : DataOf(b) \in Frames}

(* parseSSE returns the data of the last event that answers the call.      *)
LastFrameWins ==
  ParseSSE(stream) =
    IF Answers = {} THEN Nothing
    ELSE DataOf(CHOOSE b \in Answers : \A a \in Answers : a[2] <= b[2])
=============================================================================
