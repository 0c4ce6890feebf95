---------------------------- MODULE MCThreadSteps ----------------------------
EXTENDS ThreadSteps, Expressions

CONSTANT Longest

Upto(n, kinds) == {s \in UNION {[1 .. m -> kinds] : m \in 0 .. n} : Balanced(s)}

(* All short scripts, longer ones of fewer kinds, and some with blocks     *)
(* inside of blocks.                                                       *)
MCScripts ==
  Upto(Longest, Kinds) \cup Upto(Longest + 2, {"set", "pause", "if", "else", "while", "multi", "end"})
  \cup Upto(Longest + 1, {"do", "pause", "multi", "fixed", "realtime", "end"}) \cup {
  <<"fixed", "multi", "realtime", "do", "end", "end", "end">>,
  <<"while", "if", "do", "else", "pause", "end", "end", "do">>,
  <<"if", "if", "set", "set", "else", "do", "end", "else", "while", "end", "end">>,
  <<"fixed", "do", "realtime", "while", "do", "end", "set", "end", "do", "end", "do">>,
  <<"multi", "do", "while", "do", "end", "do", "end", "do">>,
  <<"realtime", "do", "multi", "if", "do", "end", "do", "end", "do", "end", "pause", "do">>,
  <<"when", "do", "begin", "fixed", "do", "end", "end", "end", "set", "do">>,
  <<"if", "when", "do", "end", "do", "end", "do">>}

(* The values that lines assign are expressions (as are conditions that do *)
(* not begin with a member of an event): up to five terms are the shortest *)
(* that show every way of grouping.                                        *)
MCTerms == <<"a", "b", "c", "d", "e">>

(* The value a line assigns, whatever it is, is the one that the precedence*)
(* of its operators gives it (meta_value_operator.hpp:73), if its groups   *)
(* close.                                                                  *)
ValuesMeanWhatTheySay ==
  \A i \in Lines(script) : script[i] = "set" => PrecedenceWhereClosed

(* The value of a line uses the terms that were written, each once and in  *)
(* order, but for a last one that has an operator in front of it.          *)
ValuesUseTheirTerms ==
  \A i \in Lines(script) : script[i] = "set" => TermsKeepTheirOrder
=============================================================================
