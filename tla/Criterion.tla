------------------------------ MODULE Criterion ------------------------------
(***************************************************************************)
(* The predicate algebra of the policy engine: Criterion.And, Or and Not   *)
(* (src/unnamed/part_002) and the True, False, All and Any criteria        *)
(* (src/core/policyengine/engine/falco/operations.go).                     *)
(*                                                                         *)
(* A criterion is a function of a record returning Go's (bool, error).     *)
(* Records are immutable while criteria run, so a criterion is determined  *)
(* by the result it returns on the record at hand; the operators below     *)
(* combine results.  An error is abstracted to its presence.               *)
(***************************************************************************)
EXTENDS Sequences

\* SequencesExt is taken under a name: it defines an Any of its own.
LOCAL SX == INSTANCE SequencesExt

\* The (bool, error) pair a predicate returns.
Result == [res : BOOLEAN, err : BOOLEAN]

\* The True and False criteria.
True  == [res |-> TRUE,  err |-> FALSE]
False == [res |-> FALSE, err |-> FALSE]

\* c.And(cr): `if b1, err = c.Eval(r); err != nil { if b2, err = c.Eval(r);
\* err != nil { return b1 && b2, err } }; return false, err`.  The second
\* evaluation is of c again, which returns the same result; cr is never
\* evaluated.
And(x, y) == IF x.err THEN [res |-> x.res /\ x.res, err |-> TRUE]
                      ELSE [res |-> FALSE, err |-> FALSE]

\* c.Or(cr): the same body with b1 || b2.
Or(x, y) == IF x.err THEN [res |-> x.res \/ x.res, err |-> TRUE]
                     ELSE [res |-> FALSE, err |-> FALSE]

\* c.Not(): `if res, err = c.Eval(r); err != nil { return !res, err };
\* return false, err`.
Not(x) == IF x.err THEN [res |-> ~x.res, err |-> TRUE]
                   ELSE [res |-> FALSE, err |-> FALSE]

\* All(criteria): True folded with And over the slice, left to right.
All(cs) == SX!FoldLeft(And, True, cs)

\* Any(criteria): False folded with Or over the slice, left to right.
Any(cs) == SX!FoldLeft(Or, False, cs)

-----------------------------------------------------------------------------
(***************************************************************************)
(* The algebra the policy language is specified with (spec 4.2): And and  *)
(* Or short-circuit on a decisive first operand without error, otherwise   *)
(* evaluate both and propagate an error of either; Not negates and keeps   *)
(* the error.  These are the reference the code is compared with.          *)
(***************************************************************************)
SpecAnd(x, y) == IF ~x.err /\ ~x.res THEN x
                 ELSE [res |-> x.res /\ y.res, err |-> x.err \/ y.err]
SpecOr(x, y)  == IF ~x.err /\ x.res THEN x
                 ELSE [res |-> x.res \/ y.res, err |-> x.err \/ y.err]
SpecNot(x)    == [res |-> ~x.res, err |-> x.err]
SpecAll(cs)   == SX!FoldLeft(SpecAnd, True, cs)
SpecAny(cs)   == SX!FoldLeft(SpecOr, False, cs)
=============================================================================
