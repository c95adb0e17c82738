------------------------------ MODULE FileStream ------------------------------
(***************************************************************************)
(* The file log stream of the tailer,                                      *)
(* src/driver/log/tailer/logstream/filestream.go (src/unnamed/part_004),   *)
(* its line decoder decode.go, and logstream.New, which stats the pathname *)
(* and hands the FileInfo to newFileStream, whose stream opens the         *)
(* pathname again.                                                         *)
(*                                                                         *)
(* One goroutine follows a pathname: it reads its open file descriptor,   *)
(* decodes the bytes into lines, and at EOF stats the pathname to detect   *)
(* deletion, rotation (another inode behind the name) and truncation (the  *)
(* file shorter than the read offset).  Stop() and the cancellation of the *)
(* context end it after one more read.  sendLine blocks on the lines       *)
(* channel, which holds LinesCap lines and is read by the tailer's         *)
(* consumer (not in src/): a step that sends lines becomes a sequence of   *)
(* SendLine steps, one per line.                                           *)
(*                                                                         *)
(* The environment is a writer appending to the inode it has open, a log   *)
(* rotator that truncates, replaces, removes and creates the pathname, and *)
(* the tailer that calls Stop or cancels the context.                      *)
(*                                                                         *)
(* Every byte the writer writes is a distinct symbol: a character k > 0 or *)
(* a newline -k, with k the order of the write.  hist keeps what was ever  *)
(* written to each inode, with Trunc where it was truncated.               *)
(***************************************************************************)
EXTENDS Integers, Sequences, SequencesExt

CONSTANTS
  MaxInodes,      \* inodes the pathname may ever name (rotations + 1)
  MaxTruncations, \* truncations of the pathname
  MaxWrites,      \* bytes the writer writes
  BufSize,        \* defaultReadBufferSize: bytes one Read returns at most
  AllowRemove,    \* the pathname may be unlinked or renamed away
  AllowEstale,    \* a Read may fail with ESTALE once the inode is replaced
  RaceWithNew,    \* the rotator may act between New's stat and the open
  LinesCap,       \* the capacity of the lines channel
  ConsumerMayStop \* the consumer may stop reading once the context is cancelled

ASSUME /\ MaxInodes \in Nat \ {0}
       /\ MaxTruncations \in Nat /\ MaxWrites \in Nat
       /\ BufSize \in Nat \ {0}
       /\ AllowRemove \in BOOLEAN /\ AllowEstale \in BOOLEAN
       /\ RaceWithNew \in BOOLEAN
       /\ LinesCap \in Nat \ {0} /\ ConsumerMayStop \in BOOLEAN

Inodes == 1..MaxInodes
NoFile == 0           \* no inode: the pathname does not exist
Trunc  == 0           \* the truncation marker in hist
IsNL(s) == s < 0

VARIABLES
  content,   \* [Inodes -> Seq(symbol)]: the bytes each inode holds
  hist,      \* [Inodes -> Seq(symbol or Trunc)]: everything written to it
  pathIno,   \* the inode the pathname names, or NoFile
  wIno,      \* the inode the writer has open
  nextId,    \* the id of the writer's next byte
  created,   \* the inodes allocated so far
  truncs,    \* truncations so far
  stopReq,   \* Stop() was called (fs.stopChan closed)
  cancelled, \* the context was cancelled
  stopNLs,   \* the newlines written before Stop() was called
  stopPc,    \* where the stream goroutine was when Stop() was called
  inChan,    \* the lines in the lines channel
  reading,   \* the consumer still reads the lines channel
  pc,        \* "new", "open" (New and newFileStream), then the stream goroutine:
             \* "read", "stat", "sleep", "wait", "reopen", "send", "exited"
  fd,        \* the inode of the goroutine's open file descriptor
  off,       \* the descriptor's offset
  fi,        \* the inode of the os.FileInfo the goroutine was started with
  partial,   \* the partial line buffer
  completed, \* fs.completed
  how,       \* why the goroutine exited: "", "stop", "gone", "openfail", or
             \* why New returned an error: "staterr", "newfail"
  pending,   \* the lines of the current step still to be sent
  after,     \* where the goroutine goes once they are sent
  emitted    \* history: the LogLines sent, [line, term] with term the newline or 0

fsVars     == <<content, hist, pathIno, wIno, nextId, created, truncs>>
callerVars == <<stopReq, cancelled, stopNLs, stopPc, inChan, reading>>
streamVars == <<pc, fd, off, fi, partial, completed, how, pending, after, emitted>>
vars == <<fsVars, callerVars, streamVars>>

-----------------------------------------------------------------------------
(* Line decoding, decode.go.                                               *)

\* decodeAndSend: a newline sends the partial buffer as a line and resets
\* it, any other rune is appended to it.  Returns the new partial buffer
\* and the lines sent, in order.
RECURSIVE DecodeAndSend(_, _)
DecodeAndSend(p, b) ==
  IF b = <<>> THEN [partial |-> p, lines |-> <<>>]
  ELSE IF IsNL(Head(b))
       THEN LET rest == DecodeAndSend(<<>>, Tail(b))
            IN  [partial |-> rest.partial,
                 lines   |-> <<[line |-> p, term |-> Head(b)]>> \o rest.lines]
       ELSE DecodeAndSend(Append(p, Head(b)), Tail(b))

\* `if partial.Len() > 0 { sendLine(...) }`: flush the partial buffer.
Flush(p) == IF p # <<>> THEN <<[line |-> p, term |-> 0]>> ELSE <<>>

-----------------------------------------------------------------------------
\* newFileStream(..., streamFromStart) on an empty, freshly opened log file.
Init ==
  /\ content = [i \in Inodes |-> <<>>]
  /\ hist = [i \in Inodes |-> <<>>]
  /\ pathIno = 1 /\ wIno = 1 /\ created = 1
  /\ nextId = 1 /\ truncs = 0
  /\ stopReq = FALSE /\ cancelled = FALSE /\ stopNLs = {} /\ stopPc = ""
  /\ inChan = 0 /\ reading = TRUE
  /\ pc = "new" /\ fd = 1 /\ off = 0 /\ fi = 1
  /\ partial = <<>> /\ completed = FALSE /\ how = ""
  /\ pending = <<>> /\ after = "read" /\ emitted = <<>>

(* logstream.New and the stream goroutine.                                  *)

\* New(ctx, wg, waker, pathname, lines, oneShot): os.Stat(path); a stat
\* error is returned; a regular file goes to newFileStream with its
\* FileInfo.
New ==
  /\ pc = "new"
  /\ IF pathIno = NoFile
     THEN pc' = "exited" /\ how' = "staterr" /\ UNCHANGED fi
     ELSE fi' = pathIno /\ pc' = "open" /\ UNCHANGED how
  /\ UNCHANGED <<fsVars, callerVars, fd, off, partial, completed, pending, after, emitted>>

\* Where the goroutine goes once a step's lines are sent: "loop" is
\* `if err == nil && ctx.Err() == nil { continue }`, read after the sends;
\* "gone" and "stop" set fs.completed and return.
Proceed(k) ==
  CASE k \in {"gone", "stop"} -> pc' = "exited" /\ completed' = TRUE /\ how' = k
    [] k = "loop" -> pc' = (IF cancelled THEN "sleep" ELSE "read") /\ UNCHANGED <<completed, how>>
    [] OTHER -> pc' = k /\ UNCHANGED <<completed, how>>

\* Send the lines ls, one sendLine each, then proceed to k.
SendThen(ls, k) ==
  IF ls = <<>>
  THEN Proceed(k) /\ UNCHANGED <<pending, after>>
  ELSE pc' = "send" /\ pending' = ls /\ after' = k /\ UNCHANGED <<completed, how>>

\* sendLine: `lines <- logline.New(...)` blocks until the channel has
\* room; there is no select on ctx.Done().
SendLine ==
  /\ pc = "send"
  /\ inChan < LinesCap
  /\ inChan' = inChan + 1
  /\ emitted' = Append(emitted, Head(pending))
  /\ pending' = Tail(pending)
  /\ IF Len(pending) = 1 THEN Proceed(after) ELSE UNCHANGED <<pc, completed, how>>
  /\ UNCHANGED <<fsVars, stopReq, cancelled, stopNLs, stopPc, reading, fd, off, fi, partial, after>>

\* `count, err := fd.Read(b)` with count > 0: decode and send the bytes,
\* then read again, unless the context is cancelled (to the Sleep label).
ReadData ==
  /\ pc = "read"
  /\ off < Len(content[fd])
  /\ LET n   == IF Len(content[fd]) - off < BufSize THEN Len(content[fd]) - off
                                                     ELSE BufSize
         dec == DecodeAndSend(partial, SubSeq(content[fd], off + 1, off + n))
     IN  /\ off' = off + n
         /\ partial' = dec.partial
         /\ SendThen(dec.lines, "loop")
  /\ UNCHANGED <<fsVars, callerVars, fd, fi, emitted>>

\* fd.Read returns io.EOF with no bytes, at the end of the file or past it
\* once the file was truncated: check for truncation and rotation.
ReadEOF ==
  /\ pc = "read"
  /\ off >= Len(content[fd])
  /\ pc' = "stat"
  /\ UNCHANGED <<fsVars, callerVars, fd, off, fi, partial, completed, how, pending, after, emitted>>

\* fd.Read fails with ESTALE, the inode behind the descriptor having been
\* replaced: start a new stream with the goroutine's fi and return.
ReadEstale ==
  /\ AllowEstale
  /\ pc = "read"
  /\ fd # pathIno
  /\ pc' = "reopen"
  /\ UNCHANGED <<fsVars, callerVars, fd, off, fi, partial, completed, how, pending, after, emitted>>

\* At EOF, os.Stat(pathname) and the three outcomes.
StatNotExist ==
  /\ pc = "stat" /\ pathIno = NoFile
  /\ SendThen(Flush(partial), "gone")
  /\ partial' = <<>>
  /\ UNCHANGED <<fsVars, callerVars, fd, off, fi, emitted>>

\* !os.SameFile(fi, newfi): start a new stream on newfi from the start and
\* return; "we're at EOF so there's nothing left to read here".
StatRotated ==
  /\ pc = "stat" /\ pathIno # NoFile /\ pathIno # fi
  /\ fi' = pathIno
  /\ pc' = "reopen"
  /\ UNCHANGED <<fsVars, callerVars, fd, off, partial, completed, how, pending, after, emitted>>

\* Mutant: a file of exactly the read offset is taken for truncated.
StatSameFileTruncOnEqual ==
  /\ pc = "stat" /\ pathIno # NoFile /\ pathIno = fi
  /\ IF Len(content[pathIno]) <= off
     THEN /\ SendThen(Flush(partial), "read")
          /\ partial' = <<>>
          /\ off' = 0
     ELSE /\ pc' = "sleep"
          /\ UNCHANGED <<off, partial, completed, how, pending, after>>
  /\ UNCHANGED <<fsVars, callerVars, fd, fi, emitted>>

\* Same file: newfi.Size() < currentOffset is a truncation: flush the
\* partial line, seek to 0 and read again; otherwise go to sleep.
StatSameFile ==
  /\ pc = "stat" /\ pathIno # NoFile /\ pathIno = fi
  /\ IF Len(content[pathIno]) < off
     THEN /\ SendThen(Flush(partial), "read")
          /\ partial' = <<>>
          /\ off' = 0
     ELSE /\ pc' = "sleep"
          /\ UNCHANGED <<off, partial, completed, how, pending, after>>
  /\ UNCHANGED <<fsVars, callerVars, fd, fi, emitted>>

\* Mutant: the open error is not checked and the descriptor is used.
ReopenIgnoringOpenError ==
  /\ pc \in {"open", "reopen"}
  /\ fd' = pathIno /\ off' = 0 /\ partial' = <<>>
  /\ pc' = "read"
  /\ UNCHANGED <<fsVars, callerVars, fi, completed, how, pending, after, emitted>>

\* Mutant: the new stream shares the old stream's partial buffer.
ReopenKeepingPartial ==
  /\ pc \in {"open", "reopen"}
  /\ IF pathIno = NoFile
     THEN /\ pc' = "exited" /\ how' = IF pc = "open" THEN "newfail" ELSE "openfail"
          /\ UNCHANGED <<fd, off, partial>>
     ELSE /\ fd' = pathIno /\ off' = 0
          /\ pc' = "read"
          /\ UNCHANGED <<how, partial>>
  /\ UNCHANGED <<fsVars, callerVars, fi, completed, pending, after, emitted>>

\* fs.stream(..., fi, true), from newFileStream and on rotation and on
\* ESTALE: open the pathname and start a goroutine reading it from offset
\* 0 with a fresh partial buffer.  If the open fails, newFileStream returns
\* the error to New's caller, and a rotating or ESTALE goroutine only logs
\* it and returns.
Reopen ==
  /\ pc \in {"open", "reopen"}
  /\ IF pathIno = NoFile
     THEN /\ pc' = "exited" /\ how' = IF pc = "open" THEN "newfail" ELSE "openfail"
          /\ UNCHANGED <<fd, off, partial>>
     ELSE /\ fd' = pathIno /\ off' = 0 /\ partial' = <<>>
          /\ pc' = "read"
          /\ UNCHANGED how
  /\ UNCHANGED <<fsVars, callerVars, fi, completed, pending, after, emitted>>

\* Mutant: the Sleep select has no stopChan case.
SleepCheckIgnoringStop ==
  /\ pc = "sleep"
  /\ IF cancelled
     THEN /\ SendThen(Flush(partial), "stop")
          /\ partial' = <<>>
     ELSE /\ pc' = "wait"
          /\ UNCHANGED <<partial, completed, how, pending, after>>
  /\ UNCHANGED <<fsVars, callerVars, fd, off, fi, emitted>>

\* Mutant: the Sleep select has no ctx.Done() case.
SleepCheckIgnoringCancel ==
  /\ pc = "sleep"
  /\ IF stopReq
     THEN /\ SendThen(Flush(partial), "stop")
          /\ partial' = <<>>
     ELSE /\ pc' = "wait"
          /\ UNCHANGED <<partial, completed, how, pending, after>>
  /\ UNCHANGED <<fsVars, callerVars, fd, off, fi, emitted>>

\* The Sleep label: if stopped or cancelled, flush, mark completed, exit;
\* otherwise wait.
SleepCheck ==
  /\ pc = "sleep"
  /\ IF stopReq \/ cancelled
     THEN /\ SendThen(Flush(partial), "stop")
          /\ partial' = <<>>
     ELSE /\ pc' = "wait"
          /\ UNCHANGED <<partial, completed, how, pending, after>>
  /\ UNCHANGED <<fsVars, callerVars, fd, off, fi, emitted>>

\* Mutant: a stop received while waiting exits without reading again.
WakeExitOnStop ==
  /\ pc = "wait"
  /\ IF stopReq
     THEN /\ SendThen(Flush(partial), "stop")
          /\ partial' = <<>>
     ELSE /\ pc' = "read"
          /\ UNCHANGED <<partial, completed, how, pending, after>>
  /\ UNCHANGED <<fsVars, callerVars, fd, off, fi, emitted>>

\* The wait select: stopChan, ctx.Done() or waker.Wake() each lead to one
\* more read.  The waker fires periodically.
Wake ==
  /\ pc = "wait"
  /\ pc' = "read"
  /\ UNCHANGED <<fsVars, callerVars, fd, off, fi, partial, completed, how, pending, after, emitted>>

StreamNext == New \/ ReadData \/ ReadEOF \/ ReadEstale \/ StatNotExist \/ StatRotated
              \/ StatSameFile \/ Reopen \/ SleepCheck \/ Wake \/ SendLine

-----------------------------------------------------------------------------
(* The environment.                                                        *)

\* New and newFileStream are running: the rotator waits unless it may
\* race with them.
NewQuiet == RaceWithNew \/ pc \notin {"new", "open"}

AllNLs == {s \in UNION {Range(hist[i]) : i \in Inodes} : IsNL(s)}

\* The writer appends a character or a newline to the inode it has open.
Write(nl) ==
  /\ nextId <= MaxWrites
  /\ LET s == IF nl THEN -nextId ELSE nextId IN
       /\ content' = [content EXCEPT ![wIno] = Append(@, s)]
       /\ hist' = [hist EXCEPT ![wIno] = Append(@, s)]
  /\ nextId' = nextId + 1
  /\ UNCHANGED <<pathIno, wIno, created, truncs, callerVars, streamVars>>

\* The file behind the pathname is truncated to zero length.
Truncate ==
  /\ truncs < MaxTruncations /\ pathIno # NoFile /\ NewQuiet
  /\ content' = [content EXCEPT ![pathIno] = <<>>]
  /\ hist' = [hist EXCEPT ![pathIno] = Append(@, Trunc)]
  /\ truncs' = truncs + 1
  /\ UNCHANGED <<pathIno, wIno, nextId, created, callerVars, streamVars>>

\* A new file is renamed onto the pathname (rotation).  The writer keeps
\* its descriptor on the old inode until it reopens.
Rotate ==
  /\ created < MaxInodes /\ pathIno # NoFile /\ NewQuiet
  /\ created' = created + 1
  /\ pathIno' = created + 1
  /\ UNCHANGED <<content, hist, wIno, nextId, truncs, callerVars, streamVars>>

\* The pathname is unlinked or renamed away.
Unlink ==
  /\ AllowRemove /\ pathIno # NoFile /\ NewQuiet
  /\ pathIno' = NoFile
  /\ UNCHANGED <<content, hist, wIno, nextId, created, truncs, callerVars, streamVars>>

\* A new file is created at the missing pathname.
Create ==
  /\ created < MaxInodes /\ pathIno = NoFile /\ NewQuiet
  /\ created' = created + 1
  /\ pathIno' = created + 1
  /\ UNCHANGED <<content, hist, wIno, nextId, truncs, callerVars, streamVars>>

\* The writer reopens the pathname.
WriterReopen ==
  /\ pathIno # NoFile /\ wIno # pathIno
  /\ wIno' = pathIno
  /\ UNCHANGED <<content, hist, pathIno, nextId, created, truncs, callerVars, streamVars>>

\* The tailer calls Stop() on the LogStream New returned; stopOnce makes
\* later calls no-ops.
Stop ==
  /\ ~stopReq
  /\ pc \notin {"new", "open"} /\ how \notin {"staterr", "newfail"}
  /\ stopReq' = TRUE
  /\ stopNLs' = AllNLs
  /\ stopPc' = pc
  /\ UNCHANGED <<fsVars, cancelled, inChan, reading, streamVars>>

\* The shared context is cancelled.
Cancel ==
  /\ ~cancelled
  /\ cancelled' = TRUE
  /\ UNCHANGED <<fsVars, stopReq, stopNLs, stopPc, inChan, reading, streamVars>>

\* The consumer receives a line from the lines channel.
Consume ==
  /\ reading /\ inChan > 0
  /\ inChan' = inChan - 1
  /\ UNCHANGED <<fsVars, stopReq, cancelled, stopNLs, stopPc, reading, streamVars>>

\* The consumer stops reading once the context is cancelled, as a
\* pipeline stage selecting on ctx.Done() does.
ConsumerQuits ==
  /\ ConsumerMayStop /\ reading /\ cancelled
  /\ reading' = FALSE
  /\ UNCHANGED <<fsVars, stopReq, cancelled, stopNLs, stopPc, inChan, streamVars>>

EnvNext == \E nl \in BOOLEAN : Write(nl)
           \/ Truncate \/ Rotate \/ Unlink \/ Create \/ WriterReopen
           \/ Stop \/ Cancel \/ Consume \/ ConsumerQuits

Next == StreamNext \/ EnvNext

\* The stream goroutine is scheduled whenever it can run, the waker keeps
\* firing, and a consumer that reads receives what is in the channel.
Spec == Init /\ [][Next]_vars /\ WF_vars(StreamNext) /\ WF_vars(Consume)

-----------------------------------------------------------------------------
Symbols == {k \in -MaxWrites..MaxWrites : k # 0}

TypeOK ==
  /\ content \in [Inodes -> Seq(Symbols)]
  /\ hist \in [Inodes -> Seq(Symbols \cup {Trunc})]
  /\ pathIno \in Inodes \cup {NoFile} /\ wIno \in Inodes
  /\ pc \in {"new", "open", "read", "stat", "sleep", "wait", "reopen", "send", "exited"}
  /\ fd \in Inodes /\ fi \in Inodes
  /\ off \in 0..MaxWrites
  /\ partial \in Seq(Symbols)
  /\ completed \in BOOLEAN
  /\ how \in {"", "stop", "gone", "openfail", "staterr", "newfail"}
  /\ inChan \in 0..LinesCap /\ reading \in BOOLEAN
  /\ pending \in Seq([line : Seq(Symbols), term : Symbols \cup {0}])
  /\ after \in {"loop", "read", "gone", "stop"}
  /\ emitted \in Seq([line : Seq(Symbols), term : Symbols \cup {0}])

\* Every byte the stream emitted, in emission order.
EmittedBytes ==
  FlattenSeq([i \in DOMAIN emitted |->
                emitted[i].line \o (IF emitted[i].term # 0
                                    THEN <<emitted[i].term>> ELSE <<>>)])

Abs(k) == IF k < 0 THEN -k ELSE k

(***************************************************************************)
(* Properties                                                              *)
(***************************************************************************)

\* Lines are emitted in file-write order and no byte is emitted twice,
\* across truncations, rotations and re-opens of the pathname (spec 8.7).
NoDuplicateOrReorder ==
  LET b == EmittedBytes
  IN  \A i, j \in DOMAIN b : i < j => Abs(b[i]) < Abs(b[j])

\* The line written to some inode that ends with newline nl: the bytes
\* between the previous newline or truncation and nl.
WrittenLine(nl) ==
  LET i == CHOOSE i \in Inodes : \E k \in DOMAIN hist[i] : hist[i][k] = nl
      h == hist[i]
      k == CHOOSE k \in DOMAIN h : h[k] = nl
      starts == {j \in 1..(k - 1) : h[j] <= 0}
      s == IF starts = {} THEN 0 ELSE Max(starts)
  IN  SubSeq(h, s + 1, k - 1)

\* A line sent because its newline was read is exactly the line written
\* before that newline: no fragment and no spurious empty line (spec S6).
LinesAreWritten ==
  \A i \in DOMAIN emitted :
    emitted[i].term # 0 => emitted[i].line = WrittenLine(emitted[i].term)

\* When the stream ends because of Stop(), every line completed before
\* Stop() was called has been sent: on a stop signal the stream reads once
\* more, then flushes and exits (spec 4.6, step 5).
StopDrains ==
  how = "stop" /\ ~cancelled =>
    stopNLs \subseteq {emitted[i].term : i \in DOMAIN emitted}

\* The same for a Stop() that arrives while the stream waits for a wake-up,
\* the case the comment in the wait select is about: the file "is not
\* technically yet at EOF so we need to go back and try one more read".
StopDrainsFromWait ==
  how = "stop" /\ ~cancelled /\ stopPc = "wait" =>
    stopNLs \subseteq {emitted[i].term : i \in DOMAIN emitted}

\* Once Stop() is called the stream eventually completes, so the tailer
\* sees IsComplete() and can clean it up.
StopCompletes == stopReq ~> completed

\* On a pathname that is neither rotated nor truncated (one inode), the
\* stream is what logstream.go's package comment promises, a perpetual
\* source of the file's lines: they are sent in order, each once, each
\* eventually unless the stream completes first, and completion flushes at
\* most a prefix of the next line.
LS == INSTANCE LogSource WITH file <- hist[1], sent <- emitted, done <- completed
RefinesLogSource == LS!Spec

\* Spec 5: the cancellation context propagates to every loop.  Once the
\* context is cancelled the stream goroutine returns, whichever of read,
\* stat, sleep, wait or a blocked sendLine it was in.
CancelEndsStream == cancelled ~> pc = "exited"
=============================================================================
