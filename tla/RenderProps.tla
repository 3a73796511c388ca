----------------------------- MODULE RenderProps -----------------------------
(* What Render must satisfy, over argument maps of limited width and depth, *)
(* and every kind of response.                                              *)
EXTENDS Render

CONSTANT MaxItems

VARIABLE call   \* the arguments and the body of the response

Leaves     == {Value(k, <<>>) : k \in {"plain", "template", "bad", "unknown", "nan"}}
Items(of)  == UNION {[1..n -> of] : n \in 0..MaxItems}
Holding(of) == [kind : {"map", "list", "oddmap"}, items : Items(of)]
Single(of)  == {<<v>> : v \in [kind : {"map", "list", "oddmap"}, items : {<<w>> : w \in of}]}

(* Two levels below the arguments, or, of single values, three.             *)
Arguments == {Value("map", items) :
                items \in Items(Leaves \cup Holding(Leaves)) \cup Single(Holding(Leaves))}

Init == call \in [args : Arguments, body : Bodies]

(* What renderValue meets: it does not look into an odd mapping.            *)
Seen == Reached(call.args, {"oddmap"})

(* A template is rendered wherever it stands, and the call is counted for   *)
(* what was wrong with it: a template that fails, whatever its error says   *)
(* and however deep it is, is a template error and nothing is sent; else a  *)
(* value that has no JSON form is a transport error; else the server's own  *)
(* error counts, and what was sent has no template in it.                   *)
CallsCountForTheirCause ==
  LET err == ExecuteOne(call.args, call.body) IN
  /\ Classify(err) = IF \E v \in Seen : v.kind \in {"bad", "unknown"}     THEN "template"
                      ELSE IF \E v \in Seen : v.kind \in {"nan", "oddmap"} THEN "transport"
                      ELSE IF call.body \in Codes THEN "jsonrpc"
                      ELSE "ok"
  /\ err = <<>> => \A v \in Within(RenderArgs(call.args).value) : v.kind # "template"
=============================================================================
