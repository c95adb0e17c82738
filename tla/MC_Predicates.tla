---------------------------- MODULE MC_Predicates ----------------------------
(***************************************************************************)
(* One call of a predicate closure built by the falco operations           *)
(* (src/core/policyengine/engine/falco/operations.go, src/unnamed/part_001 *)
(* MapInt): either a string builder, over values of up to three of "a",   *)
(* "A" and the separator ",", or an int builder or Exists, over the fields *)
(* and literals of MC_IntOperations.  The builder not called keeps the     *)
(* value "none".                                                           *)
(***************************************************************************)
EXTENDS MC_IntOperations

VARIABLES sop, sl, sr, scalled, sres   \* the string builder's call

SO == INSTANCE Operations
        WITH op <- sop, l <- sl, r <- sr, called <- scalled, res <- sres,
             Chars <- {"a", "A", ","}, Sep <- ",", MaxLen <- 3,
             Lower <- LAMBDA c : IF c = "A" THEN "a" ELSE c

svars == <<sop, sl, sr, scalled, sres>>
allVars == <<vars, svars>>

NoStringCall == sop = "none" /\ sl = <<>> /\ sr = <<>> /\ scalled = FALSE /\ sres = FALSE
NoIntCall == /\ op = "none" /\ lattr = <<>> /\ rattr = <<>> /\ rec = "none"
             /\ called = FALSE /\ res = FALSE

PInit == \/ SO!Init /\ NoIntCall
         \/ Init /\ NoStringCall

PNext == \/ sop # "none" /\ SO!Evaluate /\ UNCHANGED vars
         \/ op # "none" /\ Evaluate /\ UNCHANGED svars

PSpec == PInit /\ [][PNext]_allVars

\* The string builders' closures that call eval return what spec 4.3 says
\* (Operations).
StringPredicatesAsSpecified == SO!PredicateAsSpecified

\* The builders made with Criterion.Not, NEq, Le and Lt, return the
\* negation spec 4.3 gives them.
NegatedPredicatesAsSpecified == SO!NEqAsSpecified /\ NegatedIntAsSpecified
====
