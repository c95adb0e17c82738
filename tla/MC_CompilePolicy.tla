-------------------------- MODULE MC_CompilePolicy --------------------------
(***************************************************************************)
(* Compile on the declarations of scenarios S1 to S4 of the specification,*)
(* in every order within one file, split over two files, and with a file  *)
(* the parser rejects.                                                     *)
(***************************************************************************)
EXTENDS CompilePolicy

LOCAL MS == INSTANCE SequencesExt

Txt(w)  == [s |-> w, q |-> FALSE]
QTxt(w) == [s |-> w, q |-> TRUE]
Op(a)   == [kind |-> "op", atom |-> a]
Ref(m)  == [kind |-> "ref", name |-> m]
InT(x, s) == [kind |-> "in", attr |-> x, items |-> s]

\* - list: bins [ "/bin/sh", "/bin/bash" ]
\* - list: shells [ "bins", "/bin/zsh" ]
\* - macro: isshell  sf.proc.exe in (shells)
\* - rule: shellexec  condition: sf.type = PE and isshell  priority: WARNING
\* - rule: anyexec  condition: sf.type = PE  enabled: F  priority: medium
\* - filter: dropdns  condition: sf.net.dport = 53  enabled: "false"
LBins   == [kind |-> "list", id |-> Txt("bins"),
            items |-> << QTxt("/bin/sh"), QTxt("/bin/bash") >>]
LShells == [kind |-> "list", id |-> Txt("shells"),
            items |-> << QTxt("bins"), QTxt("/bin/zsh") >>]
MShell  == [kind |-> "macro", id |-> "isshell",
            expr |-> << << InT("exe", << Txt("shells") >>) >> >>]
RShell  == [kind |-> "rule", id |-> "shellexec",
            expr |-> << << Op("isPE"), Ref("isshell") >> >>,
            enabled |-> NoToken, severity |-> [w |-> "warning", upper |-> TRUE]]
RAny    == [kind |-> "rule", id |-> "anyexec", expr |-> << << Op("isPE") >> >>,
            enabled |-> Txt("F"), severity |-> [w |-> "medium", upper |-> FALSE]]
FDns    == [kind |-> "filter", id |-> "dropdns", expr |-> << << Op("dns") >> >>,
            enabled |-> QTxt("false")]

File(s) == [items |-> s, bad |-> FALSE, missing |-> FALSE]

\* Every order of the six declarations in one file; definitions and
\* policy in two files; a file with a syntax error; a file that cannot be
\* read after one that compiles.
MCPolicies ==
  { << File(s) >> : s \in MS!SetToSeqs({LBins, LShells, MShell, RShell, RAny, FDns}) }
  \cup { << File(<< LBins, LShells, MShell >>), File(<< RShell, RAny, FDns >>) >>,
         << [File(<< RAny, FDns >>) EXCEPT !.bad = TRUE], File(<< RShell >>) >>,
         << File(<< LBins, RAny >>), [File(<< >>) EXCEPT !.missing = TRUE] >> }

\* A macro defined in a later file than the rule using it.
MCPoliciesForward ==
  { << File(<< RShell, RAny >>), File(<< LBins, LShells, MShell >>) >> }

\* A rule whose condition names a macro defined nowhere.
MCPoliciesUnknown ==
  { << File(<< LBins, LShells, MShell,
               [RShell EXCEPT !.expr = << << Op("isPE"), Ref("isshel") >> >>] >>) >> }
=============================================================================
