----------------------------- MODULE SpawnProps -----------------------------
(* What Spawn must satisfy, over every short command line.  A command is a  *)
(* list of arguments, and an argument is written in pieces, [way, text].    *)
EXTENDS Spawn, Naturals

CONSTANTS MaxPieces, MaxChars

VARIABLE command

(* The ways to write a piece: a character as it is, any character after a   *)
(* backslash, and text between quotes of a kind that is not in it.          *)
One(way, chars) == [way : {way}, text : {<<c>> : c \in chars}]
Pieces == One("bare", {"a"}) \cup One("escaped", Chars)
          \cup UNION {[way : {quote}, text : SeqOf(Chars \ {quote}, MaxChars)] : quote \in Quotes}

Written(piece) == CASE piece.way = "bare"    -> piece.text
                    [] piece.way = "escaped" -> <<"\\">> \o piece.text
                    [] piece.way \in Quotes  -> <<piece.way>> \o piece.text \o <<piece.way>>

(* Up to MaxPieces pieces, each of them an argument, or all of them one, or *)
(* all but the last or the first.                                           *)
Init == \E pieces \in SeqOf(Pieces, MaxPieces) :
          LET n == Len(pieces) IN
          \/ command = [i \in 1..n |-> <<pieces[i]>>]
          \/ n > 1 /\ command = <<pieces>>
          \/ n > 2 /\ command = <<SubSeq(pieces, 1, n - 1), <<pieces[n]>>>>
          \/ n > 2 /\ command = <<<<pieces[1]>>, SubSeq(pieces, 2, n)>>

(* What is written for an argument, and what is meant.                      *)
Concat(texts) == FoldLeft(LAMBDA a, b : a \o b, <<>>, texts)
Form(arg)     == Concat([i \in 1..Len(arg) |-> Written(arg[i])])
Text(arg)     == Concat([i \in 1..Len(arg) |-> arg[i].text])

(* The command line: space between the arguments, and edge around them.     *)
Line(space, edge) ==
  Concat([i \in 1..Len(command) |-> (IF i = 1 THEN edge ELSE space) \o Form(command[i])]) \o edge

(* A command whose arguments are written in any mix of these ways, with     *)
(* blanks or tabs between them and perhaps around them, is split into       *)
(* exactly the arguments: none is lost, merged or split where a quote or an *)
(* escape begins or ends within it, and the empty one is kept.  A command   *)
(* that goes on with an open quote or a backslash is refused.               *)
SpawnRoundTrips ==
  \A space \in {<<" ">>, <<"t", " ">>} : \A edge \in {<<>>, space} :
    LET line == Line(space, edge) IN
    /\ ParseSpawn(line) = [i \in 1..Len(command) |-> Text(command[i])]
    /\ \A c \in Quotes \cup {"\\"} : ParseSpawn(Append(line, c)) = Unterminated
=============================================================================
