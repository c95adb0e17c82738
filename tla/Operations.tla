----------------------------- MODULE Operations -----------------------------
(***************************************************************************)
(* The string predicates of src/core/policyengine/engine/falco/           *)
(* operations.go: the comparison operators over strings (ops), eval, which *)
(* splits both mapped values on the list separator and tries every pair,  *)
(* and the builders Eq, NEq, Contains, IContains, StartsWith, EndsWith, In *)
(* and PMatch that apply it.  A Go string is a sequence of characters.     *)
(*                                                                         *)
(* One evaluation of a predicate is a step: Init chooses the operation and *)
(* the two mapped values (for In and PMatch the list), Evaluate returns    *)
(* what the predicate closure returns.                                     *)
(***************************************************************************)
EXTENDS Integers, Sequences

LOCAL OX == INSTANCE SequencesExt
LOCAL CR == INSTANCE Criterion

CONSTANTS
  Chars,    \* the characters values are written with
  Sep,      \* engine.LISTSEP, one of Chars
  Lower(_), \* unicode.ToLower on Chars
  MaxLen    \* the longest value

Strings == OX!BoundedSeq(Chars, MaxLen)

BinaryOps == {"eq", "neq", "contains", "icontains", "startswith", "endswith"}
ListOps   == {"in", "pmatch"}

\* strings.Split(s, sep) for a one-character separator: the pieces between
\* separators, empty pieces included, and one piece for a string without it.
RECURSIVE Split(_)
Split(s) ==
  IF \A i \in DOMAIN s : s[i] # Sep THEN << s >>
  ELSE LET i == CHOOSE k \in DOMAIN s : s[k] = Sep /\ \A j \in 1..k-1 : s[j] # Sep
       IN  << SubSeq(s, 1, i - 1) >> \o Split(SubSeq(s, i + 1, Len(s)))

\* strings.ToLower.
ToLower(s) == [i \in DOMAIN s |-> Lower(s[i])]

\* The operators of ops: ==, strings.Contains, Contains of the lower-cased
\* strings, strings.HasPrefix, strings.HasSuffix.
Apply(op, l, r) ==
  CASE op = "eq"         -> l = r
    [] op = "contains"   -> r \in OX!SubSeqs(l)
    [] op = "icontains"  -> ToLower(r) \in OX!SubSeqs(ToLower(l))
    [] op = "startswith" -> OX!IsPrefix(r, l)
    [] op = "endswith"   -> OX!IsSuffix(r, l)

\* Mutant: only the mapped value of the attribute is split.
EvalLeftSplitOnly(l, r, op) ==
  LET ls == Split(l)
  IN  \E i \in DOMAIN ls : Apply(op, ls[i], r)

\* eval(l, r, op): true as soon as some piece of l and some piece of r
\* satisfy op.
Eval(l, r, op) ==
  LET ls == Split(l)
      rs == Split(r)
  IN  \E i \in DOMAIN ls : \E j \in DOMAIN rs : Apply(op, ls[i], rs[j])

\* In and PMatch: eval with eq, resp. contains, against each list item in
\* turn, true at the first that holds.
ListEval(v, list, op) ==
  \E k \in DOMAIN list : Eval(v, list[k], IF op = "in" THEN "eq" ELSE "contains")

\* NEq is Eq(...).Not(): Criterion.Not of Eq's result, which carries no
\* error (the predicate closures return a bool only).
NEq(l, r) == CR!Not([res |-> Eval(l, r, "eq"), err |-> FALSE]).res

\* The predicate closure of the builder for op on the mapped values.
Result(op, l, r) ==
  CASE op \in ListOps -> ListEval(l, r, op)
    [] op = "neq"     -> NEq(l, r[1])
    [] OTHER          -> Eval(l, r[1], op)

VARIABLES
  op,   \* the builder
  l,    \* the mapped value of the left attribute
  r,    \* << mapped right value >>, or the list of In and PMatch
  called, \* the predicate has been called
  res      \* what it returned

vars == <<op, l, r, called, res>>

Args(o) == IF o \in ListOps THEN {<< a, b >> : a, b \in Strings}
                            ELSE {<< a >> : a \in Strings}

Init == /\ op \in BinaryOps \cup ListOps
        /\ l \in Strings
        /\ r \in Args(op)
        /\ called = FALSE /\ res = FALSE

Evaluate == /\ ~called
            /\ called' = TRUE
            /\ res' = Result(op, l, r)
            /\ UNCHANGED <<op, l, r>>

Next == Evaluate

Spec == Init /\ [][Next]_vars
-----------------------------------------------------------------------------
(* The semantics of spec 4.3, stated over sets of pieces and explicit     *)
(* string positions rather than the code's loop and library calls.        *)

\* s[a..b] is a piece of s: it holds no separator and is bounded by the
\* ends of s or by separators; empty pieces (b = a - 1) included.
IsPiece(s, a, b) ==
  /\ a <= b + 1
  /\ a = 1 \/ s[a - 1] = Sep
  /\ b = Len(s) \/ s[b + 1] = Sep
  /\ \A k \in a..b : s[k] # Sep

Pieces(s) == { SubSeq(s, ab[1], ab[2]) :
                 ab \in {ab \in (1..Len(s) + 1) \X (0..Len(s)) : IsPiece(s, ab[1], ab[2])} }

\* y occurs in x at offset i.
OccursAt(y, x, i) == 0 <= i /\ i + Len(y) <= Len(x) /\ \A k \in 1..Len(y) : x[i + k] = y[k]

\* The primitive on two single values: equality, substring, case-folded
\* substring, prefix, suffix.
Holds(o, x, y) ==
  CASE o = "eq"         -> x = y
    [] o = "contains"   -> \E i \in 0..Len(x) : OccursAt(y, x, i)
    [] o = "icontains"  -> \E i \in 0..Len(x) : OccursAt(ToLower(y), ToLower(x), i)
    [] o = "startswith" -> OccursAt(y, x, 0)
    [] o = "endswith"   -> OccursAt(y, x, Len(x) - Len(y))

\* Some piece of x and some piece of y satisfy the primitive.
AnyPair(o, x, y) == \E p \in Pieces(x) : \E q \in Pieces(y) : Holds(o, p, q)

\* Spec 4.3: In is Eq, PMatch is Contains, against any list element.
SpecResult(o, x, ys) ==
  CASE o = "in"     -> \E k \in DOMAIN ys : AnyPair("eq", x, ys[k])
    [] o = "pmatch" -> \E k \in DOMAIN ys : AnyPair("contains", x, ys[k])
    [] o = "neq"    -> ~AnyPair("eq", x, ys[1])
    [] OTHER        -> AnyPair(o, x, ys[1])

(***************************************************************************)
(* Properties                                                              *)
(***************************************************************************)

\* Every predicate the builders that call eval create returns what spec
\* 4.3 says: the primitive holds for some pair of list elements of the two
\* mapped values, empty elements (a leading, trailing or doubled separator)
\* included; for In and PMatch, for some item of the list.  This is eval's
\* splitting of both sides, the ops table and the loops of In and PMatch
\* together.
PredicateAsSpecified == called /\ op # "neq" => res = SpecResult(op, l, r)

\* NEq returns what spec 4.3 says: the negation of Eq.  This is Eq's
\* closure under Criterion.Not.
NEqAsSpecified == called /\ op = "neq" => res = SpecResult(op, l, r)
====
