---------------------------- MODULE FieldMapper ----------------------------
(***************************************************************************)
(* The string view of the field mapper of src/unnamed/part_001:           *)
(* FieldMapper.Map, which returns the mapper of a known attribute and     *)
(* otherwise a closure returning the attribute text itself (a literal of  *)
(* a condition), cut, and MapStr, which splits a path expression          *)
(* base[json.path] at its first '[', formats int and bool values, strips  *)
(* bounding quotes from strings and queries JSON with gjson.              *)
(*                                                                         *)
(* A Go string is a sequence of characters.  A value a mapper returns is  *)
(* [t, s, n, b]: t its Go type ("string", "int64", "int32", "bool" or     *)
(* "other" for the slices and nil) and s, n or b the string, integer or   *)
(* bool it holds.  One call of the closure MapStr                         *)
(* returns is a step: Init chooses the attribute and the record.          *)
(***************************************************************************)
EXTENDS Integers, Sequences

CONSTANTS
  Attrs,        \* the attribute texts MapStr is built for
  Mappers,      \* the known attribute names (the keys of m.Mappers)
  BoolAttrs,    \* SF_PROC_TTY and SF_PROC_ENTRY, a subset of Mappers
  Records,      \* the records: functions from Mappers to values
  JsonGet(_, _)   \* gjson.Get(v, path).String()

Quotes == {"\"", "'"}

\* trimBoundingQuotes (engine package, not in the sources): a string that
\* starts and ends with the same quote character loses both.
TrimBoundingQuotes(s) ==
  IF Len(s) >= 2 /\ s[1] \in Quotes /\ s[Len(s)] = s[1]
  THEN SubSeq(s, 2, Len(s) - 1) ELSE s

Digits == <<"0", "1", "2", "3", "4", "5", "6", "7", "8", "9">>

\* strconv.FormatInt(v, 10).
RECURSIVE Decimal(_)
Decimal(v) ==
  IF v < 0 THEN <<"-">> \o Decimal(-v)
  ELSE IF v < 10 THEN << Digits[v + 1] >>
  ELSE Decimal(v \div 10) \o << Digits[(v % 10) + 1] >>

\* strconv.FormatBool.
FormatBool(b) == IF b THEN <<"t", "r", "u", "e">> ELSE <<"f", "a", "l", "s", "e">>

\* Map(attr)(r): the mapper's value for a known attribute, else the
\* attribute text.
Str(x) == [t |-> "string", s |-> x, n |-> 0, b |-> FALSE]

Map(attr, r) == IF attr \in Mappers THEN r[attr] ELSE Str(attr)

\* cut(s, "["): the text before and after the first '[', and whether
\* there is one; two empty strings when there is none.
Cut(s) ==
  IF \A k \in DOMAIN s : s[k] # "[" THEN [before |-> << >>, after |-> << >>, found |-> FALSE]
  ELSE LET i == CHOOSE k \in DOMAIN s : s[k] = "[" /\ \A j \in 1..k-1 : s[j] # "["
       IN  [before |-> SubSeq(s, 1, i - 1), after |-> SubSeq(s, i + 1, Len(s)), found |-> TRUE]

\* The runtime error of slicing an empty string to length -1.
Panic == << "panic: slice bounds out of range" >>

\* Mutant: the path keeps its closing ']'.
JsonPathUntrimmed(after, isPathExp) == after

\* jsonpath = jsonpath[:len(jsonpath)-1] for a path expression.
JsonPath(after, isPathExp) ==
  IF isPathExp THEN SubSeq(after, 1, Len(after) - 1) ELSE after

\* MapStr(attr)(r).  A path expression whose base is a known field has its
\* last character (the ']') cut off, which panics when nothing follows
\* the '['; for any other attribute the base stays what cut returned.
MapStr(attr, r) ==
  LET c == Cut(attr)
      isPathExp == c.found /\ c.before \in Mappers
      baseattr == IF c.found THEN c.before ELSE attr
  IN  IF isPathExp /\ Len(c.after) = 0 THEN Panic
      ELSE LET jsonpath == JsonPath(c.after, isPathExp)
               o == Map(baseattr, r)
           IN  CASE o.t = "string" -> IF isPathExp /\ o.s # << >> /\ jsonpath # << >>
                                      THEN JsonGet(o.s, jsonpath)
                                      ELSE TrimBoundingQuotes(o.s)
                 [] o.t = "int64"  -> IF baseattr \in BoolAttrs THEN FormatBool(o.n # 0)
                                      ELSE Decimal(o.n)
                 [] o.t = "int32"  -> Decimal(o.n)
                 [] o.t = "bool"   -> FormatBool(o.b)
                 [] OTHER          -> << >>

VARIABLES
  attr,    \* the attribute MapStr was built for
  rec,     \* the record the closure is called on
  called,  \* the closure has been called
  res      \* what it returned

vars == <<attr, rec, called, res>>

Init == /\ attr \in Attrs /\ rec \in Records
        /\ called = FALSE /\ res = << >>

Call == /\ ~called
        /\ called' = TRUE /\ res' = MapStr(attr, rec)
        /\ UNCHANGED <<attr, rec>>

Next == Call

Spec == Init /\ [][Next]_vars
-----------------------------------------------------------------------------
(* MapStr as spec 4.1 describes it: an attribute base[path] with a known  *)
(* base and a string value yields the JSON field at path; any other       *)
(* attribute is mapped as a whole: a known one by its value's text form,  *)
(* an unknown one is the literal itself, quotes stripped.                 *)

\* attr is base[path] with base a known field and path not empty.
PathExp(a) ==
  { bp \in {<< SubSeq(a, 1, k - 1), SubSeq(a, k + 1, Len(a) - 1) >> :
              k \in {k \in 1..Len(a) - 1 : a[k] = "[" /\ a[Len(a)] = "]"
                                           /\ \A j \in 1..k-1 : a[j] # "["}} :
      bp[1] \in Mappers /\ bp[2] # << >> }

TextOf(a, o) ==
  CASE o.t = "string" -> TrimBoundingQuotes(o.s)
    [] o.t = "int64"  -> IF a \in BoolAttrs THEN FormatBool(o.n # 0) ELSE Decimal(o.n)
    [] o.t = "int32"  -> Decimal(o.n)
    [] o.t = "bool"   -> FormatBool(o.b)
    [] OTHER          -> << >>

SpecMapStr(a, r) ==
  IF PathExp(a) # {}
  THEN LET bp == CHOOSE bp \in PathExp(a) : TRUE
           o == r[bp[1]]
       IN  IF o.t = "string" /\ o.s # << >> THEN JsonGet(o.s, bp[2]) ELSE TextOf(bp[1], o)
  ELSE IF a \in Mappers THEN TextOf(a, r[a])
  ELSE TrimBoundingQuotes(a)

(***************************************************************************)
(* Properties                                                              *)
(***************************************************************************)

\* The string a condition compares is what spec 4.1 says MapStr returns:
\* the JSON field for base[path] of a known base, the text form of a known
\* attribute's value, and a literal, quotes stripped, for anything else,
\* '[' in literals and malformed path expressions included; and the
\* closure never panics.
MapStrAsSpecified == called => res = SpecMapStr(attr, rec)

\* Attributes without '[' and well-formed path expressions base[path] of a
\* known base are mapped as spec 4.1 says: the JSON field at exactly path
\* for a non-empty string, the quote-stripped string, "true"/"false" for
\* the tty and entry flags and decimal text for the other integers.
WellFormed(a) == PathExp(a) # {} \/ \A k \in DOMAIN a : a[k] # "["

WellFormedAsSpecified == called /\ WellFormed(attr) => res = SpecMapStr(attr, rec)
====
