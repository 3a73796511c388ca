--------------------------------- MODULE Errors ---------------------------------
(***************************************************************************)
(* internal/errors: the category an error is counted under.  An error is   *)
(* the sequence of the links of its chain, the outermost first; nil is the *)
(* empty chain.  errors.Is and errors.As look through the whole chain, and *)
(* the text of an error contains that of the errors it wraps.              *)
(***************************************************************************)
EXTENDS Integers, Sequences, FiniteSetsExt

Codes == {"rpc1", "rpc2"}   \* JSON-RPC errors, known by their codes

(* What a chain is made of: our types, the errors of the context and of    *)
(* io, errors known by their text only, and whatever has no bearing.       *)
Links == Codes \cup {"TimeoutError", "TransportError", "TemplateError",
                     "deadline", "canceled", "EOF",
                     "timeoutText", "refusedText", "plain"}

Categories == {"ok", "timeout", "jsonrpc", "transport", "template", "other"}

(* Mutant: the types are tested before the error of the context.           *)
RulesTypesFirst ==
  <<[links |-> {"TimeoutError"},          category |-> "timeout"],
    [links |-> Codes,                     category |-> "jsonrpc"],
    [links |-> {"TransportError", "EOF"}, category |-> "transport"],
    [links |-> {"TemplateError"},         category |-> "template"],
    [links |-> {"deadline"},              category |-> "timeout"],
    [links |-> {"timeoutText"},           category |-> "timeout"],
    [links |-> {"refusedText"},           category |-> "transport"]>>

(* The tests of Classify, in their order; the first that finds one of its  *)
(* links in the chain decides.                                             *)
Rules ==
  <<[links |-> {"TimeoutError"},          category |-> "timeout"],
    [links |-> {"deadline"},              category |-> "timeout"],
    [links |-> Codes,                     category |-> "jsonrpc"],
    [links |-> {"TransportError", "EOF"}, category |-> "transport"],
    [links |-> {"TemplateError"},         category |-> "template"],
    [links |-> {"timeoutText"},           category |-> "timeout"],
    [links |-> {"refusedText"},           category |-> "transport"]>>

Has(err, links) == \E k \in 1..Len(err) : err[k] \in links
Hits(err)       == {i \in 1..Len(Rules) : Has(err, Rules[i].links)}

Classify(err) == IF err = <<>> THEN "ok"
                 ELSE IF Hits(err) = {} THEN "other"
                 ELSE Rules[Min(Hits(err))].category

(* Mutant: only the type of the error itself is looked at.                 *)
HeadCodes(err) == IF err # <<>> /\ err[1] \in Codes THEN {err[1]} ELSE {}

(* ToolStats.Record: the code that joins the histogram, if there is one.   *)
CountedCodes(err) ==
  IF Classify(err) = "jsonrpc"
  THEN {err[Min({k \in 1..Len(err) : err[k] \in Codes})]}
  ELSE {}

-----------------------------------------------------------------------------
(* The bodies of a response: with a result; empty; not JSON; an error      *)
(* object with a code; an error that is no such object; an error of null.  *)
Bodies == {"result", "empty", "junk", "mistyped", "null"} \cup Codes

(* extractRPCError: what does not unmarshal is no error.                   *)
ExtractRPCError(body) == IF body \in Codes THEN <<body>> ELSE <<>>
=============================================================================
