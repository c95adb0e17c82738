---------------------------- MODULE PolicyCompiler ----------------------------
(***************************************************************************)
(* The policy compiler of src/unnamed/part_001 (package falco,             *)
(* PolicyInterpreter): how the parse tree of a condition becomes a         *)
(* criterion.                                                              *)
(*                                                                         *)
(* A condition is kept in the shape the grammar gives it: an expression    *)
(* is a sequence of or-branches, each a sequence of terms.  A term is      *)
(*   [kind |-> "op", atom |-> a]      a primitive operation (Eq, ...),     *)
(*   [kind |-> "in", attr |-> x, items |-> s]   x IN (s), s a sequence of  *)
(*                                    atom texts,                          *)
(*   [kind |-> "not", sub |-> t]      NOT t,                               *)
(*   [kind |-> "paren", expr |-> e]   a parenthesised expression,          *)
(*   [kind |-> "ref", name |-> m]     a reference to a macro.              *)
(* An atom text is [s |-> word, q |-> quoted]: trimBoundingQuotes keeps    *)
(* the word, while table lookups use the raw text.                         *)
(*                                                                         *)
(* tab is [macros, lists], the compiler's pi.macroCtxs and pi.lists when   *)
(* the condition is visited.  A record rec is [prim, val]: the result of  *)
(* each primitive operation on it, and the value of each attribute.        *)
(***************************************************************************)
EXTENDS Criterion

LOCAL SQ == INSTANCE SequencesExt

\* engine.trimBoundingQuotes of an atom text.
TrimBoundingQuotes(a) == a.s

\* reduceList(sl): a list name is replaced, recursively, by the reduction
\* of its items; any other text is a single item with its quotes trimmed.
RECURSIVE ReduceList(_, _)
ReduceList(sl, lists) ==
  IF sl \in DOMAIN lists
  THEN SQ!FlattenSeq([i \in DOMAIN lists[sl] |-> ReduceList(lists[sl][i], lists)])
  ELSE << TrimBoundingQuotes(sl) >>

\* extractListFromAtoms: the reductions of the atoms, concatenated.
ExtractListFromAtoms(s, lists) ==
  SQ!FlattenSeq([i \in DOMAIN s |-> ReduceList(s[i], lists)])

\* In(attr, list): some item equals the attribute's value.  Values here
\* hold no list separator, so eval's split is the identity on them.
InCriterion(x, list, rec) ==
  [res |-> \E i \in DOMAIN list : rec.val[x] = list[i], err |-> FALSE]

(* A criterion is kept as the tree of constructors the closures were     *)
(* built from: [c |-> "any" | "all", args |-> <<...>>], [c |-> "not",     *)
(* arg |-> x], [c |-> "prim", atom |-> a], [c |-> "in", attr |-> x,        *)
(* list |-> l], [c |-> "false"].  EvalCriterion is what calling Eval on   *)
(* the closure does.                                                       *)
RECURSIVE EvalCriterion(_, _)
EvalCriterion(c, rec) ==
  CASE c.c = "any"   -> Any([i \in DOMAIN c.args |-> EvalCriterion(c.args[i], rec)])
    [] c.c = "all"   -> All([i \in DOMAIN c.args |-> EvalCriterion(c.args[i], rec)])
    [] c.c = "not"   -> Not(EvalCriterion(c.arg, rec))
    [] c.c = "prim"  -> rec.prim[c.atom]
    [] c.c = "in"    -> InCriterion(c.attr, c.list, rec)
    [] c.c = "false" -> False

RECURSIVE VisitExpression(_, _), VisitTerm(_, _)

\* visitExpression: Any over the non-empty or-branches of All over each
\* branch's terms.
VisitExpression(e, tab) ==
  [c |-> "any", args |-> [i \in DOMAIN e |->
     [c |-> "all", args |-> [j \in DOMAIN e[i] |-> VisitTerm(e[i][j], tab)]]]]

\* visitTerm: a known macro reference is its visited expression, NOT is the
\* negation of the visited sub-term, a parenthesised expression is visited,
\* an operation is its primitive criterion, IN reduces its list atoms with
\* the lists known now; an unrecognised reference falls through to
\* `return False`.
VisitTerm(t, tab) ==
  CASE t.kind = "ref"   -> IF t.name \in DOMAIN tab.macros
                           THEN VisitExpression(tab.macros[t.name], tab)
                           ELSE [c |-> "false"]
    [] t.kind = "not"   -> [c |-> "not", arg |-> VisitTerm(t.sub, tab)]
    [] t.kind = "paren" -> VisitExpression(t.expr, tab)
    [] t.kind = "op"    -> [c |-> "prim", atom |-> t.atom]
    [] t.kind = "in"    -> [c |-> "in", attr |-> t.attr,
                            list |-> ExtractListFromAtoms(t.items, tab.lists)]

-----------------------------------------------------------------------------
(* The meaning of a condition in the policy language (spec 4.2, 4.4): the *)
(* same structure under the reference algebra.  A reference to an unknown *)
(* macro is an error of the policy (spec 7).                               *)

RECURSIVE SpecExpression(_, _, _), SpecTerm(_, _, _)

SpecExpression(e, tab, rec) ==
  SpecAny([i \in DOMAIN e |->
             SpecAll([j \in DOMAIN e[i] |-> SpecTerm(e[i][j], tab, rec)])])

SpecTerm(t, tab, rec) ==
  CASE t.kind = "ref"   -> IF t.name \in DOMAIN tab.macros
                           THEN SpecExpression(tab.macros[t.name], tab, rec)
                           ELSE [res |-> FALSE, err |-> TRUE]
    [] t.kind = "not"   -> SpecNot(SpecTerm(t.sub, tab, rec))
    [] t.kind = "paren" -> SpecExpression(t.expr, tab, rec)
    [] t.kind = "op"    -> rec.prim[t.atom]
    [] t.kind = "in"    -> InCriterion(t.attr, ExtractListFromAtoms(t.items, tab.lists), rec)

\* The macro names an expression refers to, through NOT and parentheses
\* but not through the macros themselves.
RECURSIVE RefsOfExpr(_), RefsOfTerm(_)
RefsOfExpr(e) == UNION {RefsOfTerm(t) : t \in UNION {SQ!Range(e[i]) : i \in DOMAIN e}}
RefsOfTerm(t) ==
  CASE t.kind = "ref"   -> {t.name}
    [] t.kind = "not"   -> RefsOfTerm(t.sub)
    [] t.kind = "paren" -> RefsOfExpr(t.expr)
    [] OTHER            -> {}
=============================================================================
