---------------------------- MODULE PolicyEngine ----------------------------
(***************************************************************************)
(* What the policy interpreter promises its driver, stated with the        *)
(* synchronous PolicyInterpreter.Process of                                *)
(* src/core/policyengine/engine/interpreter.go: every record accepted      *)
(* before the intake is closed is decided, in one step, by Process, in no  *)
(* particular order (spec 4.5: order across workers is not preserved);     *)
(* once the intake is closed and nothing is pending, the engine has        *)
(* stopped.                                                                *)
(***************************************************************************)
EXTENDS Sequences

CONSTANTS Records, Rules, Filters, Eval(_, _)

VARIABLES
  mode,      \* pi.mode
  accepted,  \* the records handed to the engine
  pending,   \* accepted records not yet decided
  out,       \* the records forwarded downstream, in order
  closed,    \* the intake is closed
  returned   \* the engine has stopped

vars == <<mode, accepted, pending, out, closed, returned>>

\* EvalFilters: some enabled filter holds on r.
EvalFilters(r) == \E i \in DOMAIN Filters :
                     Filters[i].enabled /\ Eval(Filters[i].cond, r)

\* Process(r): nil when a filter drops r; otherwise r when the mode is
\* enrich or some enabled rule holds, nil if none does.
Process(r) ==
  /\ ~EvalFilters(r)
  /\ \/ mode = "enrich"
     \/ \E i \in DOMAIN Rules : Rules[i].enabled /\ Eval(Rules[i].cond, r)

Init == /\ mode \in {"alert", "enrich"}
        /\ accepted = {} /\ pending = {}
        /\ out = <<>>
        /\ closed = FALSE /\ returned = FALSE

Accept(r) == /\ ~closed /\ r \notin accepted
             /\ accepted' = accepted \cup {r}
             /\ pending' = pending \cup {r}
             /\ UNCHANGED <<mode, out, closed, returned>>

Decide(r) == /\ r \in pending
             /\ pending' = pending \ {r}
             /\ out' = IF Process(r) THEN Append(out, r) ELSE out
             /\ UNCHANGED <<mode, accepted, closed, returned>>

Close == /\ ~closed
         /\ closed' = TRUE
         /\ UNCHANGED <<mode, accepted, pending, out, returned>>

Return == /\ closed /\ pending = {} /\ ~returned
          /\ returned' = TRUE
          /\ UNCHANGED <<mode, accepted, pending, out, closed>>

Next == \/ \E r \in Records : Accept(r) \/ Decide(r)
        \/ Close \/ Return

\* Every accepted record is eventually decided; a closed, drained engine
\* eventually stops.
Spec == Init /\ [][Next]_vars
        /\ \A r \in Records : WF_vars(Decide(r))
        /\ WF_vars(Return)
=============================================================================
