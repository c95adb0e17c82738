------------------------------ MODULE TailWaker ------------------------------
(***************************************************************************)
(* The file stream driven by the test waker, as the tailer tests of       *)
(* src/unnamed/part_005 set them up: makeTestTail makes                    *)
(* waker.NewTest(ctx, 1) the streams' poll waker, the test tails one file, *)
(* writes to it and calls awaken(1).                                       *)
(*                                                                         *)
(* The two components meet in the wait select of fileStream.stream        *)
(* (src/unnamed/part_004): Go evaluates every channel operand of a select *)
(* on entry, so each time the goroutine enters it `waker.Wake()` runs and  *)
(* starts a helper, whichever case is then taken.  The stream is the one   *)
(* wakee of Waker; the other steps of each module are its own.  The        *)
(* environment is the test's: it writes to the file it opened and calls   *)
(* awaken; the tailer may stop the stream.  The file is neither rotated    *)
(* nor truncated, and the context is context.Background(): never          *)
(* cancelled, so no ctx.Done case is ever taken.                          *)
(***************************************************************************)
EXTENDS Integers, Sequences

CONSTANTS
  MaxInodes, MaxTruncations, MaxWrites, BufSize, AllowRemove, AllowEstale,
  RaceWithNew, LinesCap, ConsumerMayStop,   \* of FileStream
  Afters, MaxCalls                          \* of Waker

VARIABLES
  content, hist, pathIno, wIno, nextId, created, truncs,
  stopReq, cancelled, stopNLs, stopPc, inChan, reading,
  pc, fd, off, fi, partial, completed, how, pending, after, emitted,
  gen, wk, wgen, hDone, hWait, hReady, initRem, n, tpc, wi, aft, calls,
  nlAtCall   \* history: the newlines written when awaken was last called

Stream == "stream"

FS == INSTANCE FileStream
WK == INSTANCE Waker WITH Wakees <- {Stream}, N <- 1, i <- wi

\* The stream's and the file's variables, and the waker's but the shared
\* context.
fsAll == <<content, hist, pathIno, wIno, nextId, created, truncs,
           stopReq, cancelled, stopNLs, stopPc, inChan, reading,
           pc, fd, off, fi, partial, completed, how, pending, after, emitted>>
wkOwn == <<gen, wk, wgen, hDone, hWait, hReady, initRem, n, tpc, wi, aft, calls>>
vars == <<fsAll, wkOwn, nlAtCall>>

Init == FS!Init /\ WK!Init /\ nlAtCall = {}

-----------------------------------------------------------------------------
(* The stream goroutine.                                                   *)

\* Steps that do not touch the waker.
StreamStep == /\ \/ FS!New \/ FS!ReadData \/ FS!ReadEOF \/ FS!StatSameFile
                 \/ FS!Reopen \/ FS!SendLine
              /\ UNCHANGED <<wkOwn, nlAtCall>>

\* The Sleep select finds stopChan open (ctx is never done) and the
\* goroutine enters the wait select, whose `<-waker.Wake()` operand calls
\* Wake: the wakee takes the current wake channel and starts a helper.
EnterWait == FS!SleepCheck /\ pc' = "wait" /\ WK!Wake(Stream) /\ UNCHANGED nlAtCall

\* The Sleep select takes stopChan: flush and return.
SleepExit == FS!SleepCheck /\ pc' # "wait" /\ UNCHANGED <<wkOwn, nlAtCall>>

\* `case <-waker.Wake()`: the broadcast closed the channel; read again.
WakeReceived == FS!Wake /\ WK!Woken(Stream) /\ UNCHANGED nlAtCall

\* `case <-fs.stopChan`: read once more.  The helper the Wake operand
\* started stays behind.
WaitInterrupted ==
  /\ FS!Wake /\ stopReq
  /\ wk' = [wk EXCEPT ![Stream] = "work"]
  /\ UNCHANGED <<gen, wgen, hDone, hWait, hReady, initRem, n, tpc, wi, aft, calls, nlAtCall>>

-----------------------------------------------------------------------------
(* The waker's goroutines and the test.                                    *)

WakerStep == /\ WK!InitRecvDone \/ WK!WakeFunc
             /\ UNCHANGED <<fsAll, nlAtCall>>

\* The test calls awaken(a) after its writes.
Awaken(a) == WK!Awaken(a) /\ nlAtCall' = FS!AllNLs /\ UNCHANGED fsAll

\* testutil.WriteString(t, f, str): one f.WriteString, then f.Sync(), so the
\* bytes are in the file when it returns; a string is a run of writes of one
\* symbol each, a newline or another rune.  A failed write or sync is fatal
\* to the test: the model's writes do not fail.
WriteString(nl) == FS!Write(nl) /\ UNCHANGED <<wkOwn, nlAtCall>>

\* The tailer stops the stream; the lines channel's consumer receives.
Env == (FS!Stop \/ FS!Consume) /\ UNCHANGED <<wkOwn, nlAtCall>>

Next == \/ StreamStep \/ EnterWait \/ SleepExit \/ WakeReceived \/ WaitInterrupted
        \/ WakerStep \/ \E a \in Afters : Awaken(a)
        \/ \E nl \in BOOLEAN : WriteString(nl)
        \/ Env

\* Every runnable goroutine is scheduled: the stream, the init goroutine,
\* wakeFunc once called, and the consumer.
Spec == Init /\ [][Next]_vars
        /\ WF_vars(StreamStep \/ EnterWait \/ SleepExit \/ WakeReceived \/ WaitInterrupted)
        /\ WF_vars(WakerStep) /\ WF_vars(FS!Consume /\ UNCHANGED <<wkOwn, nlAtCall>>)

-----------------------------------------------------------------------------
(***************************************************************************)
(* Properties                                                              *)
(***************************************************************************)

\* What makeTestTail's awaken gives a test: once awaken(1) has returned,
\* the stream has been woken and has read the file to its end, so every
\* line whose newline was written before the call has been sent on lines.
\* It rests on wakeFunc waiting for the wakee to re-enter Wake, and on the
\* stream reaching the wait select only at EOF.
AwakenDelivers ==
  tpc = "idle" /\ calls > 0 /\ ~stopReq =>
    nlAtCall \subseteq {emitted[k].term : k \in DOMAIN emitted}

\* Every awaken call returns unless the tailer stops the stream: the
\* stream re-enters Wake after each wake-up, and wakeFunc waits for it.
AwakenReturns == tpc # "idle" ~> (tpc = "idle" \/ stopReq)

\* The same when the stream may be stopped: awaken still returns.
AwakenReturnsAfterStop == tpc # "idle" ~> tpc = "idle"
====
