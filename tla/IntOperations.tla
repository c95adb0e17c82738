---------------------------- MODULE IntOperations ----------------------------
(***************************************************************************)
(* The predicates of src/core/policyengine/engine/falco/operations.go     *)
(* that do not compare strings: Exists, which tests the raw mapped value   *)
(* with reflect's IsZero, and Ge, Gt, Le and Lt, which compare the int64s  *)
(* FieldMapper.MapInt (src/unnamed/part_001) returns for both attributes.  *)
(* MapInt takes the mapped value when it is an int64, else parses the     *)
(* attribute text as a base-10 literal with strconv.ParseInt, else 0.      *)
(*                                                                         *)
(* Values are FieldMapper's records [t, s, n, b]; for t = "other" (the     *)
(* *[]int64 and *[]*sfgo.Service of the array fields) b says whether the  *)
(* pointer is non-nil.  Int64Max stands for 2^63-1 at a scale TLC can      *)
(* hold, so that literals out of range are among the inputs.  One call of  *)
(* a predicate closure is a step, as in Operations.                        *)
(***************************************************************************)
EXTENDS Integers, Sequences

LOCAL OX == INSTANCE SequencesExt
LOCAL CR == INSTANCE Criterion

CONSTANTS
  Attrs,      \* the attribute texts the predicates are built for
  Mappers,    \* the known attribute names
  BoolAttrs,  \* SF_PROC_TTY and SF_PROC_ENTRY
  Records,    \* functions from Mappers to values
  Int64Max    \* math.MaxInt64, scaled

VARIABLES
  op,      \* the builder
  lattr,   \* its first attribute
  rattr,   \* its second attribute (Exists has one)
  rec,     \* the record the closure is called on
  called,  \* the closure has been called
  res      \* what it returned

vars == <<op, lattr, rattr, rec, called, res>>

LOCAL FM == INSTANCE FieldMapper WITH JsonGet <- LAMBDA v, p : v,
                                      attr <- lattr, res <- FALSE

CmpOps == {"ge", "gt", "le", "lt"}

DigitOf == [c \in {FM!Digits[k] : k \in 1..10} |-> CHOOSE k \in 0..9 : FM!Digits[k + 1] = c]

\* strconv.ParseInt(s, 10, 64): an optional sign and at least one digit,
\* accumulated left to right; err for anything else and for a value out
\* of the int64 range.
ParseOk(s) ==
  LET ds == IF s # << >> /\ s[1] \in {"+", "-"} THEN Tail(s) ELSE s
      syntax == ds # << >> /\ \A k \in DOMAIN ds : ds[k] \in DOMAIN DigitOf
      v  == OX!FoldLeft(LAMBDA acc, c : acc * 10 + DigitOf[c], 0, ds)
      sv == IF s[1] = "-" THEN -v ELSE v
  IN  IF syntax /\ -Int64Max - 1 <= sv /\ sv <= Int64Max
      THEN [ok |-> TRUE, v |-> sv] ELSE [ok |-> FALSE, v |-> 0]

ParseInt(s) == LET p == ParseOk(s) IN IF p.ok THEN p.v ELSE 0

\* Mutant: the literal is not parsed; a non-int64 value maps to 0.
MapIntNoLiteral(a, r) ==
  LET o == FM!Map(a, r) IN IF o.t = "int64" THEN o.n ELSE 0

\* MapInt(attr)(r): an int64 mapped value, else the parsed attribute
\* text, else sfgo.Zeros.Int64.
MapInt(a, r) ==
  LET o == FM!Map(a, r)
  IN  IF o.t = "int64" THEN o.n
      ELSE ParseInt(a)

\* reflect.ValueOf(v).IsZero() for the types a mapper returns.
IsZero(o) ==
  CASE o.t = "string" -> o.s = << >>
    [] o.t \in {"int64", "int32"} -> o.n = 0
    [] o.t = "bool" -> ~o.b
    [] o.t = "other" -> ~o.b

Exists(a, r) == ~IsZero(FM!Map(a, r))

Ge(l, rr, r) == MapInt(l, r) >= MapInt(rr, r)

Gt(l, rr, r) == MapInt(l, r) > MapInt(rr, r)

\* Le is Gt(...).Not(), Lt is Ge(...).Not(): Criterion.Not of a result
\* without error.
Le(l, rr, r) == CR!Not([res |-> Gt(l, rr, r), err |-> FALSE]).res

Lt(l, rr, r) == CR!Not([res |-> Ge(l, rr, r), err |-> FALSE]).res

\* The predicate closure of the builder o.
Result(o, l, rr, r) ==
  CASE o = "exists" -> Exists(l, r)
    [] o = "ge" -> Ge(l, rr, r)
    [] o = "gt" -> Gt(l, rr, r)
    [] o = "le" -> Le(l, rr, r)
    [] o = "lt" -> Lt(l, rr, r)

Init == /\ op \in {"exists"} \cup CmpOps
        /\ lattr \in Attrs
        /\ rattr \in IF op = "exists" THEN {lattr} ELSE Attrs
        /\ rec \in Records
        /\ called = FALSE /\ res = FALSE

Evaluate == /\ ~called
            /\ called' = TRUE
            /\ res' = Result(op, lattr, rattr, rec)
            /\ UNCHANGED <<op, lattr, rattr, rec>>

Next == Evaluate

Spec == Init /\ [][Next]_vars
-----------------------------------------------------------------------------
(* Spec 4.1 and 4.3: MapInt returns the int value of a known attribute;   *)
(* otherwise, if the text is a decimal literal, its value; else zero.      *)
(* Exists is true iff the mapped value is non-zero for its kind.  The      *)
(* literal's value is stated positionally, sum of digit * 10^place.        *)

Pow10(k) == OX!FoldLeft(LAMBDA acc, x : acc * 10, 1, [i \in 1..k |-> 0])

\* s is [sign] digits, and its value.
IsDecimal(s) ==
  \E st \in {1, 2} :
     /\ st <= Len(s)
     /\ (st = 2) = (s[1] \in {"+", "-"})
     /\ \A k \in st..Len(s) : s[k] \in DOMAIN DigitOf

DecimalValue(s) ==
  LET st  == IF s[1] \in {"+", "-"} THEN 2 ELSE 1
      mag == OX!FoldLeft(LAMBDA acc, k : acc + DigitOf[s[k]] * Pow10(Len(s) - k), 0,
                         [i \in 1..Len(s) - st + 1 |-> st + i - 1])
  IN  IF s[1] = "-" THEN -mag ELSE mag

InRange(v) == -Int64Max - 1 <= v /\ v <= Int64Max

SpecMapInt(a, r) ==
  IF a \in Mappers /\ r[a].t \in {"int64", "int32"} THEN r[a].n
  ELSE IF IsDecimal(a) /\ InRange(DecimalValue(a)) THEN DecimalValue(a)
  ELSE 0

SpecExists(a, r) ==
  IF a \notin Mappers THEN a # << >>
  ELSE LET o == r[a]
       IN  CASE o.t = "string" -> o.s # << >>
             [] o.t \in {"int64", "int32"} -> o.n # 0
             [] o.t = "bool" -> o.b
             [] o.t = "other" -> o.b

SpecResult(o, l, rr, r) ==
  CASE o = "exists" -> SpecExists(l, r)
    [] o = "ge" -> SpecMapInt(l, r) >= SpecMapInt(rr, r)
    [] o = "gt" -> SpecMapInt(l, r) > SpecMapInt(rr, r)
    [] o = "le" -> SpecMapInt(l, r) <= SpecMapInt(rr, r)
    [] o = "lt" -> SpecMapInt(l, r) < SpecMapInt(rr, r)

(***************************************************************************)
(* Properties                                                              *)
(***************************************************************************)

\* Exists, Ge and Gt return what spec 4.1 and 4.3 say, for every pair of
\* attributes: known int64, string, bool and array fields, literals with
\* and without sign, malformed and out-of-range literals.  This is MapInt's
\* fallback order, ParseInt and IsZero together.
IntPredicatesAsSpecified ==
  called /\ op \notin {"le", "lt"} => res = SpecResult(op, lattr, rattr, rec)

\* Le and Lt return what spec 4.3 says: <= and < of the two MapInt values.
\* This is Gt's and Ge's closures under Criterion.Not.
NegatedIntAsSpecified ==
  called /\ op \in {"le", "lt"} => res = SpecResult(op, lattr, rattr, rec)
====
