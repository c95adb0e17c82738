------------------------------- MODULE Waker -------------------------------
(***************************************************************************)
(* The test waker of src/driver/log/waker/testwaker.go.  Wakees (the      *)
(* stream goroutines of the tailer) call Wake and block on the channel it *)
(* returns; each call starts a helper goroutine that sends on wakeeDone,   *)
(* receives on wait and sends on wakeeReady.  An init goroutine receives  *)
(* the first n wakeeDone and closes initDone.  The test calls             *)
(* wakeFunc(after): it waits for initDone, sends wait and receives        *)
(* wakeeReady n times, broadcasts (closes the wake channel and makes a     *)
(* new one, under mu), receives wakeeDone `after` times and sets n.       *)
(*                                                                         *)
(* The channels are unbuffered, so each send is a joint step of sender and *)
(* receiver.  Helpers are told apart only by where they are blocked: the  *)
(* model counts them.  The wake channels are numbered by generation; all  *)
(* generations below gen are closed.  ctx may be cancelled at any time:   *)
(* every select of a helper, and the wakee's (the stream's) wait select,  *)
(* has a ctx.Done case; wakeFunc and the init goroutine have none.        *)
(***************************************************************************)
EXTENDS Integers

CONSTANTS
  Wakees,    \* the goroutines calling Wake
  N,         \* the n of NewTest(ctx, n)
  Afters,    \* the arguments the test passes to wakeFunc
  MaxCalls   \* the number of wakeFunc calls explored

VARIABLES
  gen,       \* the generation of t.wake
  wk,        \* wk[w]: "work" (running, will call Wake), "blocked" or "exited"
  wgen,      \* wgen[w]: the channel w's last Wake returned
  hDone,     \* helpers blocked sending on wakeeDone
  hWait,     \* helpers blocked receiving on wait
  hReady,    \* helpers blocked sending on wakeeReady
  initRem,   \* wakeeDone receptions left to the init goroutine
  n,         \* t.n
  tpc,       \* the test goroutine: "idle", or where wakeFunc is
  i,         \* the loop counter of wakeFunc
  aft,       \* the argument of the running wakeFunc
  calls,     \* wakeFunc calls made
  cancelled  \* ctx is done

vars == <<gen, wk, wgen, hDone, hWait, hReady, initRem, n, tpc, i, aft, calls, cancelled>>

\* NewTest(ctx, N); the wakees start running.
Init == /\ gen = 0
        /\ wk = [w \in Wakees |-> "work"] /\ wgen = [w \in Wakees |-> 0]
        /\ hDone = 0 /\ hWait = 0 /\ hReady = 0
        /\ initRem = N /\ n = N
        /\ tpc = "idle" /\ i = 0 /\ aft = 0 /\ calls = 0
        /\ cancelled = FALSE

-----------------------------------------------------------------------------
(* Wakees and helpers *)

\* Wake: read t.wake under mu, start the helper, return the channel; the
\* wakee then blocks on it.
Wake(w) == /\ wk[w] = "work"
           /\ wk' = [wk EXCEPT ![w] = "blocked"]
           /\ wgen' = [wgen EXCEPT ![w] = gen]
           /\ hDone' = hDone + 1
           /\ UNCHANGED <<gen, hWait, hReady, initRem, n, tpc, i, aft, calls, cancelled>>

\* The wakee's select receives from its channel once it is closed.
Woken(w) == /\ wk[w] = "blocked" /\ wgen[w] < gen
            /\ wk' = [wk EXCEPT ![w] = "work"]
            /\ UNCHANGED <<gen, wgen, hDone, hWait, hReady, initRem, n, tpc, i, aft, calls, cancelled>>

\* ctx.Done in the stream's Sleep select or wait select: the wakee exits,
\* whether it is running or blocked on its wake channel.
WakeeCancelled(w) ==
  /\ cancelled /\ wk[w] # "exited"
  /\ wk' = [wk EXCEPT ![w] = "exited"]
  /\ UNCHANGED <<gen, wgen, hDone, hWait, hReady, initRem, n, tpc, i, aft, calls, cancelled>>

\* Mutant: the helper has no ctx.Done case in its third select.
HelperCancelledNotReady ==
  /\ cancelled
  /\ \/ hDone > 0 /\ hDone' = hDone - 1 /\ UNCHANGED <<hWait, hReady>>
     \/ hWait > 0 /\ hWait' = hWait - 1 /\ UNCHANGED <<hDone, hReady>>
  /\ UNCHANGED <<gen, wk, wgen, initRem, n, tpc, i, aft, calls, cancelled>>

\* A helper blocked in one of its three selects takes the ctx.Done case and
\* returns.
HelperCancelled ==
  /\ cancelled
  /\ \/ hDone > 0 /\ hDone' = hDone - 1 /\ UNCHANGED <<hWait, hReady>>
     \/ hWait > 0 /\ hWait' = hWait - 1 /\ UNCHANGED <<hDone, hReady>>
     \/ hReady > 0 /\ hReady' = hReady - 1 /\ UNCHANGED <<hDone, hWait>>
  /\ UNCHANGED <<gen, wk, wgen, initRem, n, tpc, i, aft, calls, cancelled>>

\* Mutant: the init loop runs once more than t.n (i <= t.n).
InitRecvDoneOnceMore ==
  /\ initRem > -1 /\ hDone > 0
  /\ hDone' = hDone - 1 /\ hWait' = hWait + 1
  /\ initRem' = initRem - 1
  /\ UNCHANGED <<gen, wk, wgen, hReady, n, tpc, i, aft, calls, cancelled>>

\* The init goroutine receives one wakeeDone; initDone is closed when
\* initRem reaches zero.
InitRecvDone == /\ initRem > 0 /\ hDone > 0
                /\ hDone' = hDone - 1 /\ hWait' = hWait + 1
                /\ initRem' = initRem - 1
                /\ UNCHANGED <<gen, wk, wgen, hReady, n, tpc, i, aft, calls, cancelled>>

-----------------------------------------------------------------------------
(* wakeFunc(after) *)

Awaken(a) == /\ tpc = "idle" /\ calls < MaxCalls
             /\ tpc' = "init" /\ aft' = a /\ calls' = calls + 1
             /\ UNCHANGED <<gen, wk, wgen, hDone, hWait, hReady, initRem, n, i, cancelled>>

\* <-initDone
InitDone == /\ tpc = "init" /\ initRem = 0
            /\ tpc' = "wait" /\ i' = 0
            /\ UNCHANGED <<gen, wk, wgen, hDone, hWait, hReady, initRem, n, aft, calls, cancelled>>

\* Mutant: the helper returns once it has the wait token, without sending
\* on wakeeReady.
SendWaitHelperReturns ==
  /\ tpc = "wait" /\ i < n /\ hWait > 0
  /\ hWait' = hWait - 1
  /\ i' = i + 1
  /\ UNCHANGED <<gen, wk, wgen, hDone, hReady, initRem, n, tpc, aft, calls, cancelled>>

\* t.wait <- struct{}{}, received by a helper.
SendWait == /\ tpc = "wait" /\ i < n /\ hWait > 0
            /\ hWait' = hWait - 1 /\ hReady' = hReady + 1
            /\ i' = i + 1
            /\ UNCHANGED <<gen, wk, wgen, hDone, initRem, n, tpc, aft, calls, cancelled>>

WaitLoopEnd == /\ tpc = "wait" /\ i = n
               /\ tpc' = "ready" /\ i' = 0
               /\ UNCHANGED <<gen, wk, wgen, hDone, hWait, hReady, initRem, n, aft, calls, cancelled>>

\* <-t.wakeeReady; the helper returns.
RecvReady == /\ tpc = "ready" /\ i < n /\ hReady > 0
             /\ hReady' = hReady - 1
             /\ i' = i + 1
             /\ UNCHANGED <<gen, wk, wgen, hDone, hWait, initRem, n, tpc, aft, calls, cancelled>>

\* broadcastWakeAndReset: close(t.wake); t.wake = make(chan struct{}).
Broadcast == /\ tpc = "ready" /\ i = n
             /\ gen' = gen + 1
             /\ tpc' = "after" /\ i' = 0
             /\ UNCHANGED <<wk, wgen, hDone, hWait, hReady, initRem, n, aft, calls, cancelled>>

\* <-t.wakeeDone: a wakee has re-entered Wake.
RecvDone == /\ tpc = "after" /\ i < aft /\ hDone > 0
            /\ hDone' = hDone - 1 /\ hWait' = hWait + 1
            /\ i' = i + 1
            /\ UNCHANGED <<gen, wk, wgen, hReady, initRem, n, tpc, aft, calls, cancelled>>

\* Mutant: wakeFunc returns right after the broadcast.
ReturnWithoutAwaiting ==
  /\ tpc = "after"
  /\ n' = aft /\ tpc' = "idle" /\ i' = 0
  /\ UNCHANGED <<gen, wk, wgen, hDone, hWait, hReady, initRem, aft, calls, cancelled>>

\* t.n = after; wakeFunc returns.
Return == /\ tpc = "after" /\ i = aft
          /\ n' = aft /\ tpc' = "idle" /\ i' = 0
          /\ UNCHANGED <<gen, wk, wgen, hDone, hWait, hReady, initRem, aft, calls, cancelled>>

\* The context is cancelled, by the test or by whoever owns it.
Cancel == /\ ~cancelled /\ cancelled' = TRUE
          /\ UNCHANGED <<gen, wk, wgen, hDone, hWait, hReady, initRem, n, tpc, i, aft, calls>>

\* The steps of the test goroutine inside wakeFunc.
WakeFunc == \/ InitDone \/ SendWait \/ WaitLoopEnd \/ RecvReady
            \/ Broadcast \/ RecvDone \/ Return

Next == \/ \E w \in Wakees : Wake(w) \/ Woken(w)
        \/ InitRecvDone
        \/ WakeFunc
        \/ \E a \in Afters : Awaken(a)
        \/ \E w \in Wakees : WakeeCancelled(w)
        \/ HelperCancelled
        \/ Cancel

\* Every goroutine that can run is eventually scheduled (the wakees, the
\* init goroutine, wakeFunc once called, and the helpers with them); the
\* test calls wakeFunc, and the context is cancelled, when they like.
Spec == Init /\ [][Next]_vars
        /\ \A w \in Wakees : WF_vars(Wake(w)) /\ WF_vars(Woken(w))
                             /\ WF_vars(WakeeCancelled(w))
        /\ WF_vars(InitRecvDone) /\ WF_vars(WakeFunc) /\ WF_vars(HelperCancelled)
-----------------------------------------------------------------------------
TypeOK == /\ gen \in Nat
          /\ wk \in [Wakees -> {"work", "blocked", "exited"}]
          /\ cancelled \in BOOLEAN
          /\ wgen \in [Wakees -> 0..gen]
          /\ {hDone, hWait, hReady, initRem, n, i, calls} \subseteq Nat
          /\ tpc \in {"idle", "init", "wait", "ready", "after"}

\* When wakeFunc(after) has returned, every wakee has finished the round the
\* broadcast started and is blocked again on the current wake channel, so
\* the test may inspect what the wakees did: the rendezvous on wait and
\* wakeeReady before the broadcast and the after loop on wakeeDone behind it.
AwakenSettled ==
  tpc = "idle" /\ calls > 0 /\ ~cancelled => \A w \in Wakees : wk[w] = "blocked" /\ wgen[w] = gen

\* Every call of wakeFunc returns unless the context is cancelled first: no
\* goroutine of the protocol waits on another forever.  (wakeFunc has no
\* ctx.Done case, so a cancellation during a call leaves it blocked.)
AwakenReturns == tpc # "idle" ~> (tpc = "idle" \/ cancelled)

\* Once ctx is cancelled, every helper goroutine Wake started returns,
\* whichever of its three selects it is blocked in, and every wakee
\* exits: nothing the waker started outlives the context.
CancelReleasesAll ==
  cancelled ~> (hDone + hWait + hReady = 0 /\ \A w \in Wakees : wk[w] = "exited")
====
