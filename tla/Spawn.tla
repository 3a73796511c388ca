--------------------------------- MODULE Spawn ---------------------------------
(***************************************************************************)
(* parseSpawn of internal/cli/run.go, which splits the command of --spawn  *)
(* into arguments: a fold over its characters.  "a" stands for every       *)
(* character that is none of the others.                                   *)
(***************************************************************************)
EXTENDS Sequences, SequencesExt

Quotes == {"'", "q"}                  \* single and double
Spaces == {" ", "t"}                  \* blank and tab
Chars  == Quotes \cup Spaces \cup {"a", "\\"}

(* The variables of parseSpawn before the first character.                 *)
Start == [parts |-> <<>>, cur |-> <<>>, inQuote |-> "", escaped |-> FALSE, emitted |-> FALSE]

Keep(p, c) == [p EXCEPT !.cur = Append(@, c)]

(* An argument ends, if one has begun.                                     *)
Emit(p) == IF p.emitted
           THEN [p EXCEPT !.parts = Append(@, p.cur), !.cur = <<>>, !.emitted = FALSE]
           ELSE p

(* Mutant: a quote that closes ends the argument.                          *)
FeedEndingAtQuote(p, c) ==
  CASE p.escaped -> [Keep(p, c) EXCEPT !.escaped = FALSE, !.emitted = TRUE]
    [] ~p.escaped /\ p.inQuote # "" ->
         IF c = p.inQuote THEN Emit([p EXCEPT !.inQuote = "", !.emitted = TRUE]) ELSE Keep(p, c)
    [] ~p.escaped /\ p.inQuote = "" ->
         CASE c = "\\"      -> [p EXCEPT !.escaped = TRUE]
           [] c \in Quotes  -> [p EXCEPT !.inQuote = c, !.emitted = TRUE]
           [] c \in Spaces  -> Emit(p)
           [] OTHER         -> [Keep(p, c) EXCEPT !.emitted = TRUE]

Feed(p, c) ==
  CASE p.escaped -> [Keep(p, c) EXCEPT !.escaped = FALSE, !.emitted = TRUE]
    [] ~p.escaped /\ p.inQuote # "" ->
         IF c = p.inQuote THEN [p EXCEPT !.inQuote = "", !.emitted = TRUE] ELSE Keep(p, c)
    [] ~p.escaped /\ p.inQuote = "" ->
         CASE c = "\\"      -> [p EXCEPT !.escaped = TRUE]
           [] c \in Quotes  -> [p EXCEPT !.inQuote = c, !.emitted = TRUE]
           [] c \in Spaces  -> Emit(p)
           [] OTHER         -> [Keep(p, c) EXCEPT !.emitted = TRUE]

Unterminated == [error |-> TRUE]

ParseSpawn(s) ==
  LET end == FoldLeft(Feed, Start, s)
  IN IF end.inQuote # "" \/ end.escaped THEN Unterminated ELSE Emit(end).parts
================================================================================
