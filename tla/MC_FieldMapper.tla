--------------------------- MODULE MC_FieldMapper ---------------------------
(***************************************************************************)
(* Two known attributes, "a" (a string, integer or bool field) and "t"    *)
(* (sf.proc.tty, an int64 shown as a bool); attribute texts up to three   *)
(* characters, quotes and brackets included, and the path expressions of  *)
(* both fields.                                                            *)
(***************************************************************************)
EXTENDS FieldMapper

LOCAL FS == INSTANCE SequencesExt

MCMappers   == { <<"a">>, <<"t">> }
MCBoolAttrs == { <<"t">> }

\* A path names the JSON field of the value it is applied to.
MCJsonGet(v, p) == << "json" >> \o v \o << "@" >> \o p

Val(ty, k, bv) == [t |-> ty, s |-> << >>, n |-> k, b |-> bv]

AValues == { Str(x) : x \in { << >>, <<"x">>, <<"'", "x", "'">> } }
           \cup { Val("int64", k, FALSE) : k \in {0, 12} }
           \cup { Val("int32", -3, FALSE), Val("bool", 0, TRUE), Val("other", 0, FALSE) }
TValues == { Val("int64", k, FALSE) : k \in {0, 1} }

MCRecords == { r \in [MCMappers -> AValues \cup TValues] :
                 r[<<"a">>] \in AValues /\ r[<<"t">>] \in TValues }

\* Literals and attribute names without '['.
Plain == FS!BoundedSeq({"a", "t", "x", "'"}, 3)

\* Path expressions of a known base.
Paths == { b \o <<"[">> \o p \o <<"]">> :
             b \in MCMappers, p \in FS!BoundedSeq({"x", "'"}, 2) \ {<< >>} }

MCAttrsWellFormed == Plain \cup Paths

\* A quoted literal holding a '['.
MCAttrsBracketLiteral == MCAttrsWellFormed \cup { <<"'", "x", "[", "'">> }

\* A known attribute followed by a '[' and nothing else.
MCAttrsOpenBracket == MCAttrsWellFormed \cup { <<"a", "[">> }
=============================================================================
