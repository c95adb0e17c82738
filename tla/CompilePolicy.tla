---------------------------- MODULE CompilePolicy ----------------------------
(***************************************************************************)
(* PolicyInterpreter.Compile and compile of the falco package             *)
(* (src/unnamed/part_001): each policy file is walked twice by the ANTLR   *)
(* listener, a pre-pass over its definitions and a pass over the whole    *)
(* policy; the Exit callbacks fill pi.lists and pi.macroCtxs and append    *)
(* compiled filters and rules.  After both walks, lexer or parser errors  *)
(* fail the file and Compile returns at once.                              *)
(*                                                                         *)
(* A file is [items, bad, missing]: its declarations in order, whether    *)
(* the lexer or parser reported an error (ANTLR recovers and the walks     *)
(* still run), and whether antlr.NewFileStream fails to read it.           *)
(* A declaration is one of                                                 *)
(*   [kind |-> "list",   id |-> txt, items |-> <<txt, ...>>]               *)
(*   [kind |-> "macro",  id |-> name, expr |-> e]                          *)
(*   [kind |-> "filter", id |-> name, expr |-> e, enabled |-> flag]        *)
(*   [kind |-> "rule",   id |-> name, expr |-> e, enabled |-> flag,        *)
(*                       severity |-> sev]                                 *)
(* flag is an atom text or NoToken; sev is [w |-> lower-case word,         *)
(* upper |-> BOOLEAN] or NoToken.  A compiled condition is a criterion    *)
(* tree of PolicyCompiler.                                                 *)
(***************************************************************************)
EXTENDS PolicyCompiler, Naturals

LOCAL CS == INSTANCE SequencesExt

CONSTANT Policies   \* the sequences of policy files Compile may be called with

\* An absent optional token (ctx.ENABLED(0) or ctx.Severity(0) is nil).
NoToken == [none |-> TRUE]

\* The strings strconv.ParseBool accepts.
ParseBoolTrue  == {"1", "t", "T", "TRUE", "true", "True"}
ParseBoolFalse == {"0", "f", "F", "FALSE", "false", "False"}

\* The Falco severity names (FPriority*) and the engine's own names.
Low == 0
Medium == 1
High == 2
PriorityName == [p \in {Low, Medium, High} |-> <<"low", "medium", "high">>[p + 1]]

VARIABLES
  paths,     \* the files of this call of Compile
  file,      \* the index of the file being compiled
  pass,      \* "defs" (the pre-pass over p.Defs()) or "policy"
  pos,       \* the declaration the walk is at
  lists,     \* pi.lists
  macros,    \* pi.macroCtxs
  filters,   \* pi.filters
  rules,     \* pi.rules
  status     \* "compiling", or what Compile returned: "ok" or "err"

vars == <<paths, file, pass, pos, lists, macros, filters, rules, status>>

Item == paths[file].items[pos]
Tables == [macros |-> macros, lists |-> lists]

\* The criterion compiled from e with the current tables.
Compiled(e) == VisitExpression(e, Tables)

\* getEnabledFlag: strconv.ParseBool of the unquoted text, true if it is
\* not a boolean; a missing ENABLED token means enabled.
GetEnabledFlag(t) == LET f == TrimBoundingQuotes(t) IN
                       IF f \in ParseBoolFalse THEN FALSE ELSE TRUE
Enabled(t) == t = NoToken \/ GetEnabledFlag(t)

\* getPriority: the lower-cased severity against low/medium/high and the
\* Falco names; anything else, or no severity, is Low.
GetPriority(sev) ==
  IF sev = NoToken THEN Low
  ELSE LET w == sev.w IN
       CASE w = PriorityName[Low] -> Low
         [] w = PriorityName[Medium] -> Medium
         [] w = PriorityName[High] -> High
         [] w \in {"debug", "info", "informational", "notice"} -> Low
         [] w = "warning" -> Medium
         [] w \in {"error", "critical", "emergency"} -> High
         [] OTHER -> Low

-----------------------------------------------------------------------------
\* NewPolicyInterpreter, then Compile(paths...).
Init == /\ paths \in Policies
        /\ file = 1 /\ pass = "defs" /\ pos = 1
        /\ lists = [x \in {} |-> <<>>] /\ macros = [x \in {} |-> <<>>]
        /\ filters = <<>> /\ rules = <<>>
        /\ status = IF paths = <<>> THEN "ok" ELSE "compiling"

Opened == status = "compiling" /\ ~paths[file].missing

Walking == Opened /\ pos <= Len(paths[file].items)

\* antlr.NewFileStream(path) fails: compile returns the error, and so does
\* Compile, before any walk.
OpenFail ==
  /\ status = "compiling" /\ paths[file].missing
  /\ status' = "err"
  /\ UNCHANGED <<paths, file, pass, pos, lists, macros, filters, rules>>

\* ExitPlist: pi.lists[id] = extractListFromItems(items), in either walk.
ExitPlist ==
  /\ Walking /\ Item.kind = "list"
  /\ lists' = [x \in DOMAIN lists \cup {Item.id} |->
                 IF x = Item.id THEN [i \in DOMAIN Item.items |->
                                        [s |-> TrimBoundingQuotes(Item.items[i]),
                                         q |-> FALSE]]
                 ELSE lists[x]]
  /\ pos' = pos + 1
  /\ UNCHANGED <<paths, file, pass, macros, filters, rules, status>>

\* Mutant: macros are only recorded in the policy walk, so the pre-pass
\* passes over them.
ExitPmacroPolicyOnly ==
  /\ Walking /\ Item.kind = "macro"
  /\ macros' = IF pass = "defs" THEN macros
               ELSE [x \in DOMAIN macros \cup {Item.id} |->
                       IF x = Item.id THEN Item.expr ELSE macros[x]]
  /\ pos' = pos + 1
  /\ UNCHANGED <<paths, file, pass, lists, filters, rules, status>>

\* ExitPmacro: pi.macroCtxs[id] = the macro's expression, in either walk.
ExitPmacro ==
  /\ Walking /\ Item.kind = "macro"
  /\ macros' = [x \in DOMAIN macros \cup {Item.id} |->
                  IF x = Item.id THEN Item.expr ELSE macros[x]]
  /\ pos' = pos + 1
  /\ UNCHANGED <<paths, file, pass, lists, filters, rules, status>>

\* The pre-pass walks p.Defs(): filters and rules are not part of it.
SkipInDefs ==
  /\ Walking /\ pass = "defs" /\ Item.kind \in {"filter", "rule"}
  /\ pos' = pos + 1
  /\ UNCHANGED <<paths, file, pass, lists, macros, filters, rules, status>>

\* ExitPfilter: append the filter, its condition visited now.
ExitPfilter ==
  /\ Walking /\ pass = "policy" /\ Item.kind = "filter"
  /\ filters' = Append(filters, [id |-> Item.id, cond |-> Compiled(Item.expr),
                                 enabled |-> Enabled(Item.enabled)])
  /\ pos' = pos + 1
  /\ UNCHANGED <<paths, file, pass, lists, macros, rules, status>>

\* ExitPrule: append the rule, its condition visited now.
ExitPrule ==
  /\ Walking /\ pass = "policy" /\ Item.kind = "rule"
  /\ rules' = Append(rules, [id |-> Item.id, cond |-> Compiled(Item.expr),
                             enabled |-> Enabled(Item.enabled),
                             priority |-> GetPriority(Item.severity)])
  /\ pos' = pos + 1
  /\ UNCHANGED <<paths, file, pass, lists, macros, filters, status>>

\* End of the pre-pass: p.GetInputStream().Seek(0), walk p.Policy().
EndDefs ==
  /\ Opened /\ pass = "defs"
  /\ pos > Len(paths[file].items)
  /\ pass' = "policy" /\ pos' = 1
  /\ UNCHANGED <<paths, file, lists, macros, filters, rules, status>>

\* End of compile(path): an error fails Compile at once; otherwise the
\* next file, or Compile returns nil after the last.
EndFile ==
  /\ Opened /\ pass = "policy"
  /\ pos > Len(paths[file].items)
  /\ IF paths[file].bad
     THEN status' = "err" /\ UNCHANGED <<file, pass, pos>>
     ELSE IF file = Len(paths)
          THEN status' = "ok" /\ UNCHANGED <<file, pass, pos>>
          ELSE /\ file' = file + 1 /\ pass' = "defs" /\ pos' = 1
               /\ UNCHANGED status
  /\ UNCHANGED <<paths, lists, macros, filters, rules>>

Next == OpenFail \/ ExitPlist \/ ExitPmacro \/ SkipInDefs \/ ExitPfilter \/ ExitPrule
        \/ EndDefs \/ EndFile

Spec == Init /\ [][Next]_vars /\ WF_vars(Next)
-----------------------------------------------------------------------------
\* The declarations of a kind in all files, in file order then text order.
Declared(k) ==
  LET ofFile(f) == SelectSeq(f.items, LAMBDA d : d.kind = k)
  IN  CS!FlattenSeq([i \in DOMAIN paths |-> ofFile(paths[i])])

\* The severity table of spec 4.4: the Falco names, plus the engine's own
\* low/medium/high (scenario S1), case-insensitive; anything else is low.
SpecPriority(sev) ==
  IF sev = NoToken THEN Low
  ELSE IF sev.w \in {"medium", "warning"} THEN Medium
  ELSE IF sev.w \in {"high", "error", "critical", "emergency"} THEN High
  ELSE Low

\* Spec 4.4: the textual booleans; an unrecognised or missing flag is true.
SpecEnabled(t) == t = NoToken \/ TrimBoundingQuotes(t) \notin ParseBoolFalse

(***************************************************************************)
(* Properties                                                              *)
(***************************************************************************)

\* When Compile returns nil, pi.rules and pi.filters are the declared rules
\* and filters in declaration order (files in the order given), each with
\* the enabled flag and priority the spec's tables give its text, and a
\* condition that evaluates as with all lists and macros of the policy set
\* defined (Compiled with the final tables; spec 4.4's forward references),
\* whatever the order of declarations: the two walks and the Exit
\* callbacks together.
CompiledAsDeclared ==
  status = "ok" =>
    LET dr == Declared("rule")
        df == Declared("filter")
    IN  /\ Len(rules) = Len(dr) /\ Len(filters) = Len(df)
        /\ \A i \in DOMAIN dr :
              /\ rules[i].id = dr[i].id
              /\ rules[i].enabled = SpecEnabled(dr[i].enabled)
              /\ rules[i].priority = SpecPriority(dr[i].severity)
              /\ rules[i].cond = Compiled(dr[i].expr)
        /\ \A i \in DOMAIN df :
              /\ filters[i].id = df[i].id
              /\ filters[i].enabled = SpecEnabled(df[i].enabled)
              /\ filters[i].cond = Compiled(df[i].expr)

\* Compile succeeds only if every macro a rule or filter refers to is
\* defined: a semantic error fails Compile (spec 7) rather than turning
\* into a condition that never holds.
UnknownRefsRejected ==
  status = "ok" =>
    \A d \in CS!Range(Declared("rule")) \cup CS!Range(Declared("filter")) :
      RefsOfExpr(d.expr) \subseteq DOMAIN macros
=============================================================================
