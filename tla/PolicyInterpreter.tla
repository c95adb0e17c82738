-------------------------- MODULE PolicyInterpreter --------------------------
(***************************************************************************)
(* The worker pool of the policy interpreter,                              *)
(* src/core/policyengine/engine/interpreter.go.                            *)
(*                                                                         *)
(* StartWorkers creates a buffered channel of capacity `concurrency` and   *)
(* that many worker goroutines.  The driver hands records to ProcessAsync, *)
(* which sends them on the channel.  Each worker receives a record, drops  *)
(* it if an enabled filter holds, evaluates every enabled rule, and calls  *)
(* the out callback when a rule matched or the mode is enrich.            *)
(* StopWorkers closes the channel and waits on the WaitGroup until every   *)
(* worker has drained the channel and exited.                              *)
(*                                                                         *)
(* A compiled condition is abstracted to Eval(cond, r), the boolean the    *)
(* criterion returns for record r; SpecEval(cond, r) is what the policy    *)
(* text means.  The MC modules choose both.                                *)
(***************************************************************************)
EXTENDS Naturals, Sequences, FiniteSets, Functions

CONSTANTS
  Records,      \* the records the driver hands to ProcessAsync, each once
  Concurrency,  \* conf.Concurrency: number of workers, channel capacity
  Rules,        \* pi.rules: a sequence of [enabled: BOOLEAN, cond: _]
  Filters,      \* pi.filters: a sequence of [enabled: BOOLEAN, cond: _]
  Eval(_, _),   \* rule.condition.Eval(r) as compiled by the code
  SpecEval(_, _) \* the meaning of the condition in the policy language

ASSUME Concurrency \in Nat \ {0}

AlertMode  == "alert"
EnrichMode == "enrich"
Workers    == 1..Concurrency
NoRecord   == "none"

VARIABLES
  mode,      \* pi.mode, fixed by the configuration
  started,   \* StartWorkers has run, so pi.workerCh is not nil
  workerCh,  \* the records buffered in pi.workerCh
  chClosed,  \* close(pi.workerCh) has run
  wg,        \* the counter of the WaitGroup pi.wg
  wstate,    \* per worker: "idle" (not started), "recv", "proc", "exited"
  wrec,      \* per worker: the record it received and is processing
  stopper,   \* the goroutine calling StopWorkers: "running", "waiting", "returned"
  queued,    \* history: the records passed to ProcessAsync, in call order
  out,       \* history: the records passed to pi.out, in call order
  done       \* history: the records a worker has finished with

vars == <<mode, started, workerCh, chClosed, wg, wstate, wrec, stopper,
          queued, out, done>>

-----------------------------------------------------------------------------
(* The decision a worker takes on a record.                                *)

\* Mutant: the filter loop ignores the Enabled flag.
EvalFiltersIgnoringEnabled(r) == \E i \in DOMAIN Filters : Eval(Filters[i].cond, r)

\* EvalFilters: some enabled filter holds.
EvalFilters(r) == \E i \in DOMAIN Filters :
                     Filters[i].enabled /\ Eval(Filters[i].cond, r)

\* The rule loop: some enabled rule holds.
RuleMatches(r) == \E i \in DOMAIN Rules :
                     Rules[i].enabled /\ Eval(Rules[i].cond, r)

\* Process: the record is forwarded (not nil) or dropped (nil).
Process(r) == /\ ~EvalFilters(r)
              /\ (mode = EnrichMode) \/ RuleMatches(r)

-----------------------------------------------------------------------------
Init == /\ mode \in {AlertMode, EnrichMode}
        /\ started = FALSE
        /\ workerCh = <<>>
        /\ chClosed = FALSE
        /\ wg = 0
        /\ wstate = [w \in Workers |-> "idle"]
        /\ wrec = [w \in Workers |-> NoRecord]
        /\ stopper = "running"
        /\ queued = <<>>
        /\ out = <<>>
        /\ done = {}

\* StartWorkers: make the channel, wg.Add(concurrency), start the workers.
StartWorkers ==
  /\ ~started
  /\ started' = TRUE
  /\ workerCh' = <<>>
  /\ wg' = Concurrency
  /\ wstate' = [w \in Workers |-> "recv"]
  /\ UNCHANGED <<mode, chClosed, wrec, stopper, queued, out, done>>

\* Mutant: the send never blocks (the channel capacity is not honoured).
ProcessAsyncNoBackpressure(r) ==
  /\ started /\ ~chClosed
  /\ r \notin Range(queued)
  /\ workerCh' = Append(workerCh, r)
  /\ queued' = Append(queued, r)
  /\ UNCHANGED <<mode, started, chClosed, wg, wstate, wrec, stopper, out, done>>

\* Mutant: a record is queued after the channel was closed.
ProcessAsyncAfterClose(r) ==
  /\ started
  /\ r \notin Range(queued)
  /\ Len(workerCh) < Concurrency
  /\ workerCh' = Append(workerCh, r)
  /\ queued' = Append(queued, r)
  /\ UNCHANGED <<mode, started, chClosed, wg, wstate, wrec, stopper, out, done>>

\* ProcessAsync(r): `pi.workerCh <- r`, blocking while the buffer is full.
\* The driver sends each record once, only after StartWorkers and never
\* after StopWorkers.
ProcessAsync(r) ==
  /\ started /\ ~chClosed
  /\ r \notin Range(queued)
  /\ Len(workerCh) < Concurrency
  /\ workerCh' = Append(workerCh, r)
  /\ queued' = Append(queued, r)
  /\ UNCHANGED <<mode, started, chClosed, wg, wstate, wrec, stopper, out, done>>

\* Mutant: the worker stops taking records once the channel is closed, but
\* only leaves the loop on an empty channel.
WorkerReceiveUntilClosed(w) ==
  /\ wstate[w] = "recv"
  /\ workerCh # <<>> /\ ~chClosed
  /\ wrec' = [wrec EXCEPT ![w] = Head(workerCh)]
  /\ workerCh' = Tail(workerCh)
  /\ wstate' = [wstate EXCEPT ![w] = "proc"]
  /\ UNCHANGED <<mode, started, chClosed, wg, stopper, queued, out, done>>


\* worker, `r, ok := <-pi.workerCh` with ok: take the next buffered record.
WorkerReceive(w) ==
  /\ wstate[w] = "recv"
  /\ workerCh # <<>>
  /\ wrec' = [wrec EXCEPT ![w] = Head(workerCh)]
  /\ workerCh' = Tail(workerCh)
  /\ wstate' = [wstate EXCEPT ![w] = "proc"]
  /\ UNCHANGED <<mode, started, chClosed, wg, stopper, queued, out, done>>

\* Mutant: a worker quits as soon as the channel is closed, leaving
\* buffered records behind.
WorkerExitOnClose(w) ==
  /\ wstate[w] = "recv"
  /\ chClosed
  /\ wstate' = [wstate EXCEPT ![w] = "exited"]
  /\ wg' = wg - 1
  /\ UNCHANGED <<mode, started, workerCh, chClosed, wrec, stopper, queued, out, done>>

\* Mutant: the worker returns without wg.Done().
WorkerExitNoDone(w) ==
  /\ wstate[w] = "recv"
  /\ chClosed /\ workerCh = <<>>
  /\ wstate' = [wstate EXCEPT ![w] = "exited"]
  /\ UNCHANGED <<mode, started, workerCh, chClosed, wg, wrec, stopper, queued, out, done>>

\* worker, `!ok`: the channel is closed and drained; break and wg.Done().
WorkerExit(w) ==
  /\ wstate[w] = "recv"
  /\ chClosed /\ workerCh = <<>>
  /\ wstate' = [wstate EXCEPT ![w] = "exited"]
  /\ wg' = wg - 1
  /\ UNCHANGED <<mode, started, workerCh, chClosed, wrec, stopper, queued, out, done>>

\* worker, loop body after the receive: filters, rules, then pi.out(r).
WorkerProcess(w) ==
  /\ wstate[w] = "proc"
  /\ LET r == wrec[w] IN
       /\ out' = IF Process(r) THEN Append(out, r) ELSE out
       /\ done' = done \cup {r}
  /\ wstate' = [wstate EXCEPT ![w] = "recv"]
  /\ wrec' = [wrec EXCEPT ![w] = NoRecord]
  /\ UNCHANGED <<mode, started, workerCh, chClosed, wg, stopper, queued>>

\* StopWorkers, first statement: close(pi.workerCh).
StopWorkers ==
  /\ started /\ stopper = "running"
  /\ chClosed' = TRUE
  /\ stopper' = "waiting"
  /\ UNCHANGED <<mode, started, workerCh, wg, wstate, wrec, queued, out, done>>

\* StopWorkers, second statement: pi.wg.Wait() returns once the counter is 0.
StopWorkersWait ==
  /\ stopper = "waiting"
  /\ wg = 0
  /\ stopper' = "returned"
  /\ UNCHANGED <<mode, started, workerCh, chClosed, wg, wstate, wrec, queued, out, done>>

Next ==
  \/ StartWorkers
  \/ \E r \in Records : ProcessAsync(r)
  \/ \E w \in Workers : WorkerReceive(w) \/ WorkerExit(w) \/ WorkerProcess(w)
  \/ StopWorkers
  \/ StopWorkersWait

\* Every started goroutine is eventually scheduled by the Go runtime.
Fairness ==
  /\ \A w \in Workers : WF_vars(WorkerReceive(w)) /\ WF_vars(WorkerExit(w))
                        /\ WF_vars(WorkerProcess(w))
  /\ WF_vars(StopWorkersWait)

Spec == Init /\ [][Next]_vars /\ Fairness

-----------------------------------------------------------------------------
TypeOK ==
  /\ mode \in {AlertMode, EnrichMode}
  /\ started \in BOOLEAN /\ chClosed \in BOOLEAN
  /\ workerCh \in Seq(Records) /\ Len(workerCh) <= Concurrency
  /\ wg \in 0..Concurrency
  /\ wstate \in [Workers -> {"idle", "recv", "proc", "exited"}]
  /\ wrec \in [Workers -> Records \cup {NoRecord}]
  /\ stopper \in {"running", "waiting", "returned"}
  /\ queued \in Seq(Records) /\ done \in SUBSET Records
  /\ out \in Seq(Records)

\* What the policy says of a record (spec 4.5, 8.5, 8.6): forwarded iff no
\* enabled filter holds and, in alert mode, some enabled rule holds.
ShouldForward(r) ==
  /\ ~\E i \in DOMAIN Filters : Filters[i].enabled /\ SpecEval(Filters[i].cond, r)
  /\ (mode = EnrichMode) \/ \E i \in DOMAIN Rules :
                               Rules[i].enabled /\ SpecEval(Rules[i].cond, r)

(***************************************************************************)
(* Properties                                                              *)
(***************************************************************************)

\* The workers' decisions agree with the policy: every record a worker has
\* finished with was passed to pi.out exactly when the policy forwards it
\* (filters take precedence over rules; enrich mode forwards every record
\* no filter drops), and no record reaches pi.out twice.
ForwardedAsPolicySays ==
  /\ \A r \in done : (r \in Range(out)) <=> ShouldForward(r)
  /\ IsInjective(out)

\* When StopWorkers returns, every record handed to ProcessAsync has been
\* processed: close() plus wg.Wait() drains the buffered channel, and no
\* worker still holds a record.
StopWorkersDrains ==
  stopper = "returned" => /\ done = Range(queued)
                          /\ workerCh = <<>>
                          /\ \A w \in Workers : wstate[w] = "exited"

\* Every record handed to ProcessAsync is eventually processed by a worker.
EveryRecordProcessed == \A r \in Records : (r \in Range(queued)) ~> (r \in done)

\* Once StopWorkers has closed the channel, its wg.Wait() eventually returns.
StopWorkersReturns == (stopper = "waiting") ~> (stopper = "returned")

\* The records accepted and not yet decided: buffered in the channel or
\* held by a worker between its receive and the end of its loop body.
InFlight == Range(workerCh) \cup {wrec[w] : w \in {v \in Workers : wstate[v] = "proc"}}

PE == INSTANCE PolicyEngine
        WITH accepted <- Range(queued), pending <- InFlight, closed <- chClosed,
             returned <- (stopper = "returned")

\* The worker pool implements the synchronous engine: each record handed
\* to ProcessAsync is decided exactly once, as Process decides it, and
\* StopWorkers returns only when nothing accepted is left undecided.
RefinesPolicyEngine == PE!Spec

=============================================================================
