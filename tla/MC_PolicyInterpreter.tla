------------------------ MODULE MC_PolicyInterpreter ------------------------
(***************************************************************************)
(* The worker pool with three records, two workers, two rules and two      *)
(* filters.  The conditions are a truth table chosen so that every branch  *)
(* of the worker occurs: r1 is held by an enabled filter and by a rule,    *)
(* r2 by a rule and by a disabled filter only, r3 by a disabled rule only. *)
(***************************************************************************)
EXTENDS PolicyInterpreter

MCRecords == {"r1", "r2", "r3"}

MCRules   == << [enabled |-> TRUE,  cond |-> "c1"],
                [enabled |-> FALSE, cond |-> "c2"] >>
MCFilters == << [enabled |-> TRUE,  cond |-> "f1"],
                [enabled |-> FALSE, cond |-> "f2"] >>

\* The records each condition holds for.
Holds == [c1 |-> {"r1", "r2"}, c2 |-> {"r3"}, f1 |-> {"r1"}, f2 |-> {"r2"}]

\* The interpreter only sees the boolean a criterion returns, so here the
\* compiled condition and its meaning coincide.
MCEval(c, r) == r \in Holds[c]
=============================================================================
