-------------------------- MODULE MC_IntOperations --------------------------
(***************************************************************************)
(* Known fields "p" (an int64, sf.proc.pid), "s" (a string), "y" (a bool,  *)
(* as sf.pproc.tty) and "l" (an array pointer); literals of up to two      *)
(* characters over a sign, "1" and "9" and one three-character one, with   *)
(* int64 scaled to -10..9: signed, unsigned, empty, malformed and out of   *)
(* range in both directions.  With "u" (an int32, as sf.pproc.uid and the *)
(* other sf.pproc.* ints MapStr handles at part_001:248) for the second    *)
(* configuration.                                                          *)
(***************************************************************************)
EXTENDS IntOperations

LOCAL FS == INSTANCE SequencesExt

Val(ty, str, k, bv) == [t |-> ty, s |-> str, n |-> k, b |-> bv]

MCKnown == { <<"p">>, <<"s">>, <<"y">>, <<"l">> }

FieldValues ==
  [ p |-> { Val("int64", << >>, k, FALSE) : k \in {-1, 0, 9} },
    s |-> { Val("string", x, 0, FALSE) : x \in { << >>, <<"1">> } },
    y |-> { Val("bool", << >>, 0, bv) : bv \in BOOLEAN },
    l |-> { Val("other", << >>, 0, bv) : bv \in BOOLEAN },
    u |-> { Val("int32", << >>, k, FALSE) : k \in {0, 1} } ]

RecordsOver(ks) == { r \in [ks -> UNION {FieldValues[f] : f \in DOMAIN FieldValues}] :
                       \A f \in ks : r[f] \in FieldValues[f[1]] }

Literals == FS!BoundedSeq({"-", "+", "1", "9"}, 2) \cup { <<"-", "1", "9">> }

MCMappers      == MCKnown
MCRecords      == RecordsOver(MCKnown)
MCAttrs        == MCKnown \cup Literals

MCMappersInt32 == MCKnown \cup { <<"u">> }
MCRecordsInt32 == RecordsOver(MCMappersInt32)
MCAttrsInt32   == MCMappersInt32 \cup Literals
====
