-------------------------- MODULE MC_CompiledPolicy --------------------------
(***************************************************************************)
(* The worker pool running conditions compiled by the policy compiler, in *)
(* the scenarios S1 to S4 of the specification: a rule using a macro, a   *)
(* filter using nested NOT.  Each record is given by the primitive         *)
(* operations that hold on it.                                             *)
(***************************************************************************)
EXTENDS PolicyInterpreter, PolicyCompiler

MCRecords == {"pe_sh", "pe_zsh", "nf_dns"}

\* Each record: the primitive operations (Eq) that hold on it, and the
\* value of sf.proc.exe.
Atoms == {"isPE", "dns"}
Rec == [pe_sh  |-> [on |-> {"isPE"}, exe |-> "/bin/sh"],
        pe_zsh |-> [on |-> {"isPE"}, exe |-> "/bin/zsh"],
        nf_dns |-> [on |-> {"dns"},  exe |-> ""]]

Txt(w)  == [s |-> w, q |-> FALSE]
QTxt(w) == [s |-> w, q |-> TRUE]
Op(a)   == [kind |-> "op", atom |-> a]
Ref(m)  == [kind |-> "ref", name |-> m]
NotT(t) == [kind |-> "not", sub |-> t]

\* list: bins [ "/bin/sh", "/bin/bash" ]
\* macro: is-shell  sf.proc.exe in (bins)
MCTables ==
  [macros |-> [isshell |-> << << [kind |-> "in", attr |-> "exe",
                                  items |-> << Txt("bins") >>] >> >>],
   lists  |-> [x \in {Txt("bins")} |-> << QTxt("/bin/sh"), QTxt("/bin/bash") >>]]

\* rule shell-exec:  sf.type = "PE" and is-shell
\* filter drop-dns:  sf.net.dport = "53" and not (not sf.net.dport = "53")
MCRules   == << [enabled |-> TRUE, cond |-> << << Op("isPE"), Ref("isshell") >> >>] >>
MCFilters == << [enabled |-> TRUE, cond |-> << << Op("dns"), NotT(NotT(Op("dns"))) >> >>] >>

\* A record as the compiler's criteria see it: Eq never fails.
RecOf(r) == [prim |-> [a \in Atoms |-> [res |-> a \in Rec[r].on, err |-> FALSE]],
             val  |-> [exe |-> Rec[r].exe]]

\* rule.condition.Eval(r) for the criterion the compiler built.
CodeEval(c, r) == EvalCriterion(VisitExpression(c, MCTables), RecOf(r)).res

\* What the policy text says of r.
PolicyEval(c, r) == SpecExpression(c, MCTables, RecOf(r)).res
=============================================================================
