---------------------------------- MODULE Sse ----------------------------------
(***************************************************************************)
(* parseSSE of internal/transport/http.go, as a function of the lines of a *)
(* text/event-stream.  A line is known by its role; a data line carries a  *)
(* whole JSON-RPC frame or a piece of one.                                 *)
(***************************************************************************)
EXTENDS Sequences, SequencesExt

Events == {"done", "message"}                 \* event: done, event: <other>
Data   == {"mine1", "mine2", "foreign", "head", "tail"}
Lines  == Events \cup Data \cup {"blank", "comment"}

(* The data that Unmarshal accepts and whose id is the expected one: a     *)
(* frame on one line, or over two.  "foreign" has another id; anything     *)
(* else is not JSON.                                                       *)
Frames == {<<"mine1">>, <<"mine2">>, <<"head", "tail">>}

Nothing == <<>>

(* The variables of parseSSE before the first line.                        *)
Start == [current |-> <<>>, matched |-> Nothing, event |-> "", stopped |-> FALSE]

(* Mutant: the id of a frame is not compared.                              *)
FlushAnyFrame(p) == [p EXCEPT !.current = <<>>,
                              !.matched = IF p.current # <<>> THEN p.current ELSE @]

Flush(p) == [p EXCEPT !.current = <<>>,
                      !.matched = IF p.current \in Frames THEN p.current ELSE @]

(* Mutant: the data of an event that is not a frame is kept.               *)
FeedKeeping(p, line) ==
  CASE line = "blank" -> [p EXCEPT !.matched = Flush(p).matched,
                                   !.current = IF @ \in Frames THEN <<>> ELSE @,
                                   !.stopped = p.event = "done", !.event = ""]
    [] line \in Events -> [p EXCEPT !.event = line]
    [] line \in Data -> [p EXCEPT !.current = Append(@, line)]
    [] OTHER -> p

(* One turn of the loop over the lines.                                    *)
Feed(p, line) ==
  CASE line = "blank" -> [Flush(p) EXCEPT !.stopped = p.event = "done",
                                          !.event = IF p.event = "done" THEN @ ELSE ""]
    [] line \in Events -> [p EXCEPT !.event = line]
    [] line \in Data -> [p EXCEPT !.current = Append(@, line)]
    [] OTHER -> p

(* The frame that parseSSE returns, or Nothing.                            *)
ParseSSE(lines) ==
  Flush(FoldLeft(LAMBDA p, line : IF p.stopped THEN p ELSE Feed(p, line), Start, lines)).matched
=============================================================================
