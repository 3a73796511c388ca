--------------------------------- MODULE Render ---------------------------------
(***************************************************************************)
(* The arguments of a call: RenderArgs of internal/scenario, the encoding  *)
(* of the request, and what executeOne of internal/orchestrator records.   *)
(* A value is [kind, items]; the keys of a map have no bearing.            *)
(*   "plain"     a string without a template, a number, a boolean, null    *)
(*   "template"  a string whose template renders                           *)
(*   "bad"       a string whose template does not parse or execute         *)
(*   "unknown"   the same, and the text of its error has timeout in it     *)
(*   "nan"       a float that JSON has no form for                         *)
(*   "map"       a mapping whose keys are strings                          *)
(*   "list"      a sequence                                                *)
(*   "oddmap"    a mapping with another key: a map[any]any of the parser   *)
(***************************************************************************)
EXTENDS Errors

CONSTANT MaxDepth   \* how deep arguments are nested at most

Value(kind, items) == [kind |-> kind, items |-> items]

Failed(err)     == [value |-> Value("plain", <<>>), err |-> err]
Done(value)     == [value |-> value, err |-> <<>>]

(* Mutant: the error keeps its own type.                                   *)
Unwrapped(result) == result

Wrapped(result) == IF result.err = <<>> THEN result
                   ELSE Failed(<<"TemplateError">> \o result.err)

(* A container is rendered from the results of its items: the first error  *)
(* met ends it.  A map is iterated in any order, but what the first error   *)
(* says has no bearing once it is wrapped.                                 *)
Collect(kind, results) ==
  LET failed == {i \in 1..Len(results) : results[i].err # <<>>} IN
  IF failed # {} THEN Failed(results[CHOOSE i \in failed : TRUE].err)
  ELSE Done(Value(kind, [i \in 1..Len(results) |-> results[i].value]))

(* What a value becomes, given what its items become; a map goes through   *)
(* RenderArgs again, which wraps the error.                                *)
Rendering(v, results) ==
  CASE v.kind = "template" -> Done(Value("plain", <<>>))
    [] v.kind = "bad"      -> Failed(<<"plain">>)
    [] v.kind = "unknown"  -> Failed(<<"timeoutText">>)
    [] v.kind = "map"      -> Wrapped(Collect("map", results))
    [] v.kind = "list"     -> Collect("list", results)
    [] OTHER               -> Done(v)

Children(v) == {v.items[i] : i \in 1..Len(v.items)}

(* A value and what is below it, down to values of the kinds in closed.    *)
Reached(v, closed) ==
  LET level[n \in 0..MaxDepth] ==
        IF n = 0 THEN {v}
        ELSE UNION {Children(w) : w \in {w \in level[n-1] : w.kind \notin closed}}
  IN UNION {level[n] : n \in 0..MaxDepth}

Within(v) == Reached(v, {})

(* renderValue calls itself for the items of a container.                  *)
RenderValue(v) ==
  LET render[w \in Within(v)] == Rendering(w, [i \in 1..Len(w.items) |-> render[w.items[i]]])
  IN render[v]

RenderArgs(args) == RenderValue(args)

(* json.Marshal of the request refuses what JSON has no form for.          *)
Encodes(v) == \A w \in Within(v) : w.kind \notin {"nan", "oddmap"}

(* The two ways Call ends here: with the error of the encoding, or with a  *)
(* body.                                                                   *)
ExecuteOne(args, body) ==
  LET rendered == RenderArgs(args) IN
  IF rendered.err # <<>> THEN rendered.err
  ELSE IF ~Encodes(rendered.value) THEN <<"TransportError", "plain">>
  ELSE ExtractRPCError(body)
=============================================================================
