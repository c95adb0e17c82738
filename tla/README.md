# TLA+ models of the sf-processor policy engine and log tailer

This directory holds TLA+ models of the parts of this repository that have
concurrency, protocol or algorithmic structure. Every definition is a
translation of the Go source named for it in `PROJECT.json` ("map"). Each run
there names a module, a TLC configuration and the properties it checks.

Run a check from this directory, for example:

    tlc -workers 2 -config MC_PolicyInterpreter.cfg MC_PolicyInterpreter
    tlc -workers 2 -config FileStream_order.cfg FileStream
    tlc -workers 2 -config TailWaker.cfg TailWaker

## The system and how its parts interact

| Part | Source | What it does |
|---|---|---|
| Policy interpreter (engine) | `src/core/policyengine/engine/interpreter.go` | A worker pool. `StartWorkers` creates a channel of capacity `concurrency` and that many goroutines. `ProcessAsync` queues a record. Each worker drops a record an enabled filter matches, evaluates the enabled rules, and calls `out` when a rule matched or the mode is enrich. `StopWorkers` closes the channel and waits on a WaitGroup. `Process` is the same decision, taken synchronously. |
| Predicate algebra | `src/unnamed/part_002`, `falco/operations.go` | `Criterion` wraps a `func(R) (bool, error)`. `And`, `Or` and `Not` combine criteria. `True`, `False`, `All` and `Any` are built from them. |
| Policy compiler | `src/unnamed/part_001` (package falco) | ANTLR listener callbacks collect lists, macros, filters and rules. `visitExpression` and `visitTerm` turn a condition's parse tree into a criterion: Any of All of terms, with macro references spliced in. |
| Primitive operations | `falco/operations.go` | Exists, Eq, comparisons, string matching, In, PMatch. They compare mapped attribute values and split list-valued strings on both sides. |
| Field mapper | `src/unnamed/part_001` | Maps attribute names to accessors of a SysFlow record; an unknown name maps to itself, which is how literals of a condition are read. MapStr formats the value as a string and handles a JSON-path suffix. |
| File log stream | `src/unnamed/part_004`, `tailer/logstream/decode.go`, `logstream.go` | `New` stats the pathname and hands its FileInfo to `newFileStream`, whose `stream` opens the pathname again and starts one goroutine per log file. It reads, decodes bytes into lines, and at EOF stats the pathname to detect deletion, rotation and truncation. Stop and context cancellation end it. |
| Test waker | `src/driver/log/waker/testwaker.go` | Lets a test release blocked tailer streams in rounds: a helper goroutine per `Wake` call and a rendezvous over unbuffered channels. |
| Hash action | `src/unnamed/part_000` | A plugin action: the first `process` call loads `hashes.csv` inside `sync.Once`; every call tags the record with the md5 of its file path and executable. |
| Audit and syslog drivers | `src/driver/log/auditdriver.go`, `src/driver/syslog/syslogdriver.go` (the same code) | Registered with the plugin cache, created, given the pipeline by `Init`; `Run` takes the pipeline's root channel, closes it (its reading loop is commented out) and waits on the pipeline; `Cleanup` closes a file that is never opened. |
| Tailer tests | `src/unnamed/part_005`, `testutil/file.go` | `makeTestTail` gives the tailer the test waker `NewTest(ctx, 1)` under `context.Background()`; a test tails one file, writes to it with `WriteString` (write, then sync) and calls `awaken(1)`. |
| Log line, other test utilities | see `PROJECT.json` | Not modelled; the reasons are given there and below. |

The compiler builds the criteria that the interpreter's workers evaluate; a
criterion's primitives call the operations, which read attribute values and
literals through the field mapper's `MapStr`.
Records come from a driver through the pipeline's root channel. The tailer is
meant to feed the log drivers, but in this snapshot `AuditDriver.Run` and
`SyslogDriver.Run` only close the root channel and wait for the pipeline
(outside `src/`). The policy-engine plugin kept in
`src/plugins/actions/hash/README.md` has every call that would start, feed or
stop the interpreter's pool commented out, so nothing under `src/` connects a
driver to the pool. The tailer meets the test waker in the stream's wait
select: every entry into it calls `waker.Wake()`, since Go evaluates a
select's channel operands first.

## Modules

| Module | Models | State and actions |
|---|---|---|
| `PolicyInterpreter` | interpreter.go worker pool | State: `workerCh` (the buffered records), `chClosed`, `wg` (the WaitGroup counter), `wstate`/`wrec` per worker, `stopper` (the goroutine in StopWorkers). History variables: `sent`, `out`, `done`. Actions: `StartWorkers`, `ProcessAsync(r)` (blocks while the buffer is full), `WorkerReceive`, `WorkerProcess` (the whole loop body: filters, rules, `out`), `WorkerExit` (`!ok`, `wg.Done`), `StopWorkers` (close) and `StopWorkersWait` (`wg.Wait` returns). Criteria are the constant operator `Eval(cond, r)`. |
| `LogSource` | logstream.go package comment and `LogStream` | The abstract specification of a stream: one pathname as one perpetual source of lines. The file is a byte sequence. `Deliver` sends its next complete line, and `Complete` ends the stream after flushing at most a prefix of the open line. Weak fairness on `Deliver`. `FileStream` implements it (`RefinesLogSource`) with `file <- hist[1]`, `sent <- emitted` and `done <- completed`. That mapping is sound only on one inode that is never truncated, as in `FileStream_stop.cfg`. |
| `PolicyEngine` | interpreter.go `Process`, `EvalFilters` | The abstract specification. Each accepted record is decided atomically by the synchronous `Process`, in any order. The engine stops once the intake is closed and nothing is pending. |
| `Criterion` | part_002, operations.go | `And`, `Or`, `Not`, `All`, `Any` as operators on `[res, err]` results, beside `SpecAnd`, `SpecOr`, `SpecNot`, `SpecAll`, `SpecAny`, the algebra of spec §4.2. |
| `PolicyCompiler` | part_001 `visitExpression`, `visitTerm`, `reduceList`, `extractListFromAtoms` | Mutually recursive operators that turn a term tree (operation, NOT, parenthesised expression, macro reference, IN over a list) into a criterion tree, which `EvalCriterion` evaluates with the `Criterion` combinators; the spec's meaning `SpecExpression` beside them. |
| `CompilePolicy` | interpreter.go `Compile`, `compile` (the same text as part_001:872-933); part_001 `ExitPlist`, `ExitPmacro`, `ExitPfilter`, `ExitPrule`, `getPriority`, `getEnabledFlag` | State: the files (`paths`), the file and pass (`defs` pre-pass, `policy` walk) being compiled, the position in the file, the tables `lists` and `macros`, the compiled `filters` and `rules`, and `status`. One action per listener callback, plus `OpenFail`, `EndDefs` and `EndFile` (lexer/parser errors, next file, done). Declarations are records; the ANTLR parse is taken as given. |
| `Operations` | operations.go `eval`, `ops`, `Eq`, `NEq` … `PMatch` | Pure operators: `strings.Split` (RECURSIVE), the five string operators and eval's pairwise loop; `NEq` is `Eq` under `Criterion`'s `Not`; one `Evaluate` step returns a predicate's result on chosen values. |
| `IntOperations` | operations.go `Exists`, `Ge`, `Gt`, `Le`, `Lt`; part_001 `MapInt` | Pure operators over `FieldMapper`'s `Map` (taken by `INSTANCE`): `MapInt` with `strconv.ParseInt` as a fold over the digits and an int64 range check (`Int64Max` scaled), reflect's `IsZero` per value type, and the comparisons, `Le` and `Lt` as `Gt` and `Ge` under `Criterion`'s `Not` (taken by `INSTANCE`). One `Evaluate` step returns a predicate's result on chosen attributes and record. |
| `FieldMapper` | part_001 `Map`, `cut`, `MapStr` | Pure operators on strings as character sequences; one `Call` step returns MapStr's closure's result (or the panic) on a chosen attribute and record. `gjson.Get` is the constant operator `JsonGet`. |
| `Waker` | testwaker.go | Counters of helper goroutines by where they block (`hDone`, `hWait`, `hReady`), the wake channel's generation `gen`, each wakee's state and channel, the init goroutine's remaining receives, and `wakeFunc`'s program counter and loop index, and `cancelled`, the context. Each unbuffered send is one joint step of sender and receiver. The context may be cancelled at any time: each helper then leaves its select by `ctx.Done` (`HelperCancelled`), and each wakee leaves the stream's select (`WakeeCancelled`). |
| `HashAction` | part_000 `process`, `getHashMap`, `readCSV`, `createHashMap` | The CSV file, the `sync.Once` state, the table, and per worker its program counter and record; history `done` and `tags`. |
| `TailWaker` | part_004 wait select, part_005 `makeTestTail` and tests, `testutil.WriteString`; `FileStream` and `Waker` by `INSTANCE` | The variables of both modules (the waker's loop index renamed `wi`) and the history `nlAtCall`, the newlines written when `awaken` was last called. The stream's steps are FileStream's, except at the wait: `EnterWait` is the Sleep select's default joined with Waker's `Wake`; `WakeReceived` is the `<-waker.Wake()` case joined with `Woken`; `WaitInterrupted` is the `stopChan` case, which leaves the helper behind. The waker's init goroutine and `wakeFunc` are Waker's; `Awaken` records `nlAtCall`; `WriteString` is FileStream's `Write`; `Env` is `Stop` and the consumer. The file is neither rotated nor truncated and the context is never cancelled, as in the tests. |
| `MC_PolicyInterpreter` | — | Three records, two workers. The rules and filters cover an enabled match, a disabled match, and a record matched by both a filter and a rule. |
| `MC_CompiledPolicy` | — | The pool evaluating the criteria `PolicyCompiler` builds from a rule using a macro and a filter using nested NOT (scenarios S1–S4 of the spec). |
| `MC_CompilePolicy` | — | Six declarations (two lists, one nested in the other, a macro using IN, two rules, a filter) in all 720 orders in one file, split over two files, after a file the parser rejects, and before a missing file. |
| `MC_Predicates` | — | One predicate call: a string builder of `Operations` (its variables renamed by `INSTANCE ... WITH`) or an int builder of `IntOperations` over `MC_IntOperations`' fields and literals; the builder not called holds `"none"`. |
| `MC_IntOperations`, `MC_FieldMapper`, `MC_Waker`, `MC_HashAction` | — | Small alphabets and value sets, three wakees, two workers; see Bounds. |
| `ReadDecode` | part_004 read loop, decode.go `decodeAndSend` and `sendLine` | The read loop at the level of bytes, which `FileStream` abstracts into whole symbols. State: the bytes written (`file`), the offset, the partial buffer (runes) and the lines sent. `Write(x)` appends one byte; `ReadData` reads up to `BufSize` bytes and runs `DecodeAndSend`, which decodes `b[:count]` with `DecodeRune` (utf8.DecodeRune: the lead-byte table, the accept ranges, RuneError of width 1), eats `\r`, sends on `\n` and appends any other rune. The reference `SpecLines` decodes the bytes read as one text. |
| `FileStream` | part_004 `fileStream`, decode.go, logstream.go `New` | Stream state: `pc` (from `"new"` and `"open"`, New and newFileStream), `fd`, `off`, `fi` (the FileInfo the goroutine was started with), `partial`, `completed`, the lines of the current step still to send (`pending`, then `after`), and the history `emitted` of lines sent. Environment state: `content`/`hist` per inode, `pathIno` (the inode behind the pathname), `wIno` (the writer's inode), `stopReq`, `cancelled`, the lines in the channel (`inChan`, at most `LinesCap`) and whether its consumer still reads (`reading`). Every written byte is a distinct symbol (a character `k`, a newline `-k`), which makes loss, duplication and reordering observable. |

Each `FileStream` action is one step of the goroutine between two points where
another actor can act:
- `New` is logstream.New's `os.Stat`: a missing pathname is an error returned to the caller, an existing one gives `fi`.
- `ReadData` is the Read returning bytes and decodeAndSend. The lines it decodes go to `pending`.
- `SendLine` is one `sendLine`: a bare `lines <- ...` that blocks while the channel is full. After the step's last line, `Proceed` does what follows the sends: the `ctx.Err()` check before `continue`, or the `completed = true` and return of an exit.
- `ReadEOF` and `ReadEstale` are the two error outcomes of the Read. `ReadEOF` is taken at the end of the file and past it: after a truncation, a Read at an offset beyond the new end returns `io.EOF`, and the stat that follows detects the truncation and seeks to 0.
- `StatNotExist`, `StatRotated` and `StatSameFile` are the three outcomes of the EOF stat, including the truncation seek.
- `Reopen` is `stream(..., true)`, from newFileStream (`pc = "open"`; an open error is returned by New) and from the rotation and ESTALE paths (`pc = "reopen"`): the open and the start of the new goroutine.
- `SleepCheck` is the Sleep select. `Wake` is the wait select.

The environment's actions are `Write`, `Truncate`, `Rotate` (a new file renamed
onto the path), `Unlink`, `Create`, `WriterReopen`, `Stop`, `Cancel`, and the
consumer's `Consume` and `ConsumerQuits`. A consumer may stop reading once the
context is cancelled only when `ConsumerMayStop` is TRUE. `Stop`
needs the LogStream New returned. The rotator acts while New runs only when
`RaceWithNew` is TRUE: `tailer_lines` allows it, and `tailer_order` and
`tailer_stop` take New as atomic (with one inode, `tailer_stop` has nothing to
race). `FileStream_new_race.cfg` shows why `tailer_order` must.

## Runs and what they show

| Run | Expect | Shows |
|---|---|---|
| `interp_pool` | pass | The pool forwards exactly the records the policy forwards, each at most once (`ForwardedAsPolicySays`). StopWorkers returns only after the channel is drained and every worker has exited (`StopWorkersDrains`). Every queued record is processed (`EveryRecordProcessed`), and StopWorkers returns (`StopWorkersReturns`). The pool refines `PolicyEngine` (`RefinesPolicyEngine`). |
| `compile_policies` | pass | Whenever Compile succeeds, the interpreter holds exactly the declared rules and filters, in file order, with the declared enabled flag and priority, and each condition is the criterion of its expression under the final list and macro tables (`CompiledAsDeclared`), whatever the order of declarations within a file. |
| `waker_rounds` | pass | Every `wakeFunc` call returns unless the context is cancelled (`AwakenReturns`). When it has returned with the context live, every wakee is blocked on the current wake channel (`AwakenSettled`). After a cancel, every helper goroutine and every wakee eventually exits (`CancelReleasesAll`). |
| `hash_lookup` | pass | Two workers racing for the first load: every processed record carries exactly the tags the CSV's last line for its path and executable gives (`ProcessTagsAsListed`). |
| `predicates` | pass | Every string predicate returns what spec §4.3 says for every pair of values of up to three characters over `a`, `A` and the separator, empty list elements included (`StringPredicatesAsSpecified`). `NEq` is left to `predicates_negation`. `Exists`, `Ge` and `Gt` return what spec §4.1 and §4.3 say for every pair of attributes among an int64, a string, a bool and an array field and 22 literals: signed, empty, malformed and out of range both ways (`IntPredicatesAsSpecified`); `Le` and `Lt` are left to `predicates_negation`. |
| `mapstr_wellformed` | pass | For attributes without `[` and well-formed `base[path]` expressions of a known base, MapStr returns what spec §4.1 says, on every combination of string, integer, bool and other values (`WellFormedAsSpecified`). |
| `tailer_order` | pass | Across a truncation (read past the new end, then detected by the stat), a rotation, an unlink and re-create, Stop and cancel, no byte is emitted twice or out of write order (`NoDuplicateOrReorder`). |
| `tailer_lines` | pass | Without truncation, every line sent for a newline is exactly a written line, even across ESTALE re-opens and rotations while New runs (`LinesAreWritten`). |
| `tailer_stop` | pass | A Stop that arrives while the stream waits is followed by the read the code comment promises, so every line completed before Stop is sent (`StopDrainsFromWait`). The stream then completes (`StopCompletes`). With a consumer that keeps reading, a cancelled stream returns from whatever it was doing, a blocked send included (`CancelEndsStream`, spec §5). The stream refines `LogSource` (`RefinesLogSource`): the file's lines are sent in order, each once, each eventually unless the stream completes first, and the final flush is at most a prefix of the open line. |
| `tailer_awaken` | pass | With the test waker driving one stream, as `makeTestTail` sets it up: when `awaken(1)` returns, every line whose newline was written before the call has been sent on `lines` (`AwakenDelivers`), unless the stream was stopped; and every `awaken` returns while the stream is not stopped (`AwakenReturns`). Together they justify the tests' write–awaken–read pattern. |
| `tailer_utf8` | violation | A code bug. The writer writes `é` (C3 A9) and a newline, and a Read returns between the two bytes. decodeAndSend decodes `b[:count]` alone, so C3 becomes U+FFFD, and A9 in the next read becomes another one. The line sent is two U+FFFD runes, not `é` (`LinesAsDecoded`). With a 4096-byte buffer, any multi-byte character across a buffer boundary meets the same fate. The fix is to keep an incomplete rune at the end of `b` for the next read (`utf8.FullRune`). |
| `predicates_negation` | violation | A code bug. `NEq`, `Le` and `Lt` are `Eq(...).Not()`, `Gt(...).Not()` and `Ge(...).Not()`, and `Criterion.Not` returns `(false, nil)` whenever the criterion it negates returns no error, which these never do. `neq` of an empty value and `a` is false, and so are `<=` and `<` on every record (`NegatedPredicatesAsSpecified`, spec §4.3). |

More disagreements have a configuration that reproduces them. They are listed
as hazards in `PROJECT.json`, each with a note naming its cfg:

| cfg | Property violated | What it shows |
|---|---|---|
| `MC_CompiledPolicy.cfg` | `ForwardedAsPolicySays` | With criteria built by the compiler, a record that the rule `isPE and bin-exe` matches is dropped in alert mode. `Criterion.And` never evaluates its second operand and returns false without an error, and `Or` and `Not` do the same, so every compiled condition is false. |
| `FileStream_dead_stream.cfg` | `StopCompletes` | The path disappears between the rotation stat and the open. The goroutine returns without setting `completed`, and even after Stop the stream never completes. |
| `TailWaker_stop.cfg` (module `TailWaker`) | `AwakenReturnsAfterStop` | Once the tailer may stop the stream, `awaken(1)` can block forever: a stream stopped before its first wait never calls `Wake`, so the init goroutine never gets its `wakeeDone`; a stream stopped later never re-enters `Wake` after the broadcast. |
| `MC_CompilePolicy_forward.cfg` | `CompiledAsDeclared` | The definitions pre-pass runs per file: a rule using a macro of a later file compiles, with the constant False for it. |
| `MC_CompilePolicy_unknown.cfg` | `UnknownRefsRejected` | A reference to an undefined macro compiles to False without an error (spec §7 says semantic errors fail compilation). |
| `MC_HashAction_malformed.cfg` | `ProcessTagsAsListed` | One CSV line with three fields makes `ReadAll` fail, so no record is ever tagged, and `sync.Once` keeps the empty table. |
| `MC_FieldMapper_literal.cfg` | `MapStrAsSpecified` | A literal holding `[` is cut at it: `'x['` is read as `'x`. |
| `MC_FieldMapper_open.cfg` | `MapStrAsSpecified` | A known field followed by a bare `[` panics in `jsonpath[:len(jsonpath)-1]`. |
| `FileStream_truncate_race.cfg` | `LinesAreWritten` | A truncation followed by writes past the old offset before the next stat glues old and new bytes into one line (spec S6). |
| `FileStream_stop_at_sleep.cfg` | `StopDrains` | A Stop landing between the EOF stat and the Sleep select exits without the extra read (spec §4.6 step 5). |
| `FileStream_rotation_loss.cfg` | `StopDrainsFromWait` | After a rotation the old inode is never read again (spec §4.6 step 3c). |
| `FileStream_double_rotation.cfg` | `NoDuplicateOrReorder` | Two rotations between the EOF stat and the open leave `fi` naming a file that was not opened. The next stat re-opens the same file from the start, and its lines are emitted twice. |
| `FileStream_new_race.cfg` | `NoDuplicateOrReorder` | The same with one rotation between `New`'s stat and the open in `newFileStream`: the stream re-reads the file it opened, and its first line is sent twice (spec §4.6 compares with the open descriptor's inode). |
| `FileStream_estale.cfg` | `NoDuplicateOrReorder` | The ESTALE re-open keeps the old `fi`, with the same duplicate. |
| `FileStream_cancel_blocked.cfg` | `CancelEndsStream` | A consumer stops reading after the cancellation. The stream's next `sendLine` finds the one-line channel full and blocks forever, because it does not select on `ctx.Done()`. Stop cannot reach it either. |
| `MC_IntOperations_int32.cfg` | `IntPredicatesAsSpecified` | An int32 field (the sf.pproc.* ints, by the comment at part_001:248) fails MapInt's int64 assertion, its name is no literal, and it compares as 0. |

Every property of a passing run has a mutant in `PROJECT.json`: a plausible bug
in the definition it names, under which TLC finds the property violated.

## Bounds

**Interpreter.** Three records and two workers. With these, the channel can be
full (capacity 2) while a third record waits, and both workers can be busy when
StopWorkers closes the channel. Both modes are explored from Init.

**Compiler.** Six declarations reach every listener callback, a list nested
in another, a macro used by a rule and the three forms of severity and enabled
flag that parse differently (absent, quoted, upper case). All 720 orders put
every declaration before and after every other, which is what the two passes
are about.

**Operations and field mapper.** Strings of up to three characters over an
alphabet with a lower/upper pair and the separator hold empty, leading,
trailing and doubled separators and every prefix, suffix and substring
relation. The field mapper's attributes reach every branch of MapStr: no
`[`, a path of a known base, a quoted value, and each value type.

**Integer predicates.** `Int64Max = 9` scales int64 to -10..9, so that the
literals over a sign, `1` and `9` of up to two characters, and `-19`, include
values in range, above it and below it, besides the empty, sign-only and
doubly signed texts ParseInt rejects. The fields hold -1, 0 and 9, empty and
non-empty strings, both bools and nil and non-nil arrays, so every branch of
MapInt and IsZero and both outcomes of every comparison occur.

**ReadDecode.** Bytes `a`, `\n`, `\r`, C3 and A9 (`é`), up to four written, and a two-byte buffer: a rune cut by the buffer's end and a rune cut by a read between two writes both happen, and so do a `\r` inside a line and an invalid byte on its own.

**Waker.** Three wakees, `n = 3` and three `wakeFunc(3)` calls: every helper
state is occupied at once, and a wakee can re-enter `Wake` before or after
the broadcast of the next round.

**TailWaker.** One file of up to four bytes, a two-byte read buffer, a
lines channel that never fills (the tests' holds 1000 lines), and three
`awaken(1)` calls: a write can land before, during or after each round, a
line can be split across the broadcast, and a Stop can land in every phase
of the stream and of `wakeFunc`.

**Hash action.** Two workers and three records: the first call's load races
a second call, and the CSV lists one path twice.

**FileStream.** `MaxWrites` of 3 to 5 bytes with `BufSize = 2` is enough for:
- a line split across two reads;
- a partial line pending at a stat;
- a newline arriving in a later read.

`MaxInodes` is 2 for one rotation, or 3 for the double rotation. One
truncation is allowed where relevant. The runs that need rotation, unlink or
ESTALE enable exactly those options. The lines channel holds one line
(`LinesCap = 1`), so any step that sends two lines blocks between them.
`tailer_lines` lets the consumer quit; this is safe for its invariant and
makes the blocked sends reachable.

## Fairness

`PolicyInterpreter` has weak fairness on each worker's actions and on the
return of `wg.Wait`. These are running goroutines, and the Go scheduler
eventually runs every runnable goroutine. Nothing is assumed of the driver: it
may never call `ProcessAsync` or `StopWorkers`.

`Waker` has weak fairness on each wakee, on the init goroutine and on the
steps of a running `wakeFunc`: all are goroutines blocked only on channel
operations the model makes explicit. The helpers' and the wakees' `ctx.Done`
cases are weakly fair too: once the context is cancelled they stay ready.
The tests use `context.Background()`, but their cancelling teardown is only
commented out (part_005:47-55), so cancellation is modelled at any time. The test itself calls `wakeFunc` when it
likes. `CompilePolicy`, `HashAction`, `Operations`, `FieldMapper` and `ReadDecode`
check only safety.

`TailWaker` keeps those of its parts: the stream's steps, the init goroutine,
a running `wakeFunc` and the consumer are weakly fair; the test's `awaken`,
its writes and the tailer's Stop are not.

`FileStream` has weak fairness on the stream goroutine's steps and on the
consumer's receive while it reads: the consumer is a goroutine looping on the
channel. `ConsumerQuits` is never forced. `Wake` is
always enabled in the wait state: the production waker fires periodically,
and the test `alwaysWaker` is always ready. Nothing is assumed of the writer,
the rotator or the caller of Stop.

## What is not modelled

- **The per-attribute accessors, MapIntArray and MapSvcArray.** They read
  sfgo record columns; `FieldMapper` and `IntOperations` take a record as a
  function from field names to typed values. The policy models take each
  primitive's result as given.
- **logstream.New's URL parsing and non-regular files.** The scheme only picks
  the path text; every inode of `FileStream` is a regular file, and the
  tailer's `oneShot` (seek to the end on open) is outside `src/`, so streams
  read from the start.
- **ANTLR lexer and parser.** Generated code; the compiler model starts from
  the declarations they produce, with a flag for a file they reject.
- **The text of a list's items.** `extractList` strips the brackets from
  `ctx.GetText()` with a regular expression and splits the rest on every
  comma, so a quoted item holding a comma becomes two items, and `[]` becomes
  one empty item. The compiler takes the items as the generated parser
  delivers them, so this is listed as a hazard only.
- **The unterminated tail of a rotated file.** `FileStream` models it as it
  happens: `Reopen` starts with an empty partial buffer, so the tail is never
  sent. Spec §4.6 does not say whether it should be, so no property claims it
  (see the hazards).
- **Cyclic lists and macros.** `reduceList` and `visitTerm` recurse without
  cycle detection; the MC policies are acyclic (see the hazards).
- **A macro declared twice.** The spec does not say which definition wins.
- **Rule actions and alert annotation.** `SetAlert`, `AddRule` and
  `HandleActions` are commented out in the worker.
- **The audit and syslog drivers, the pipeline and the policy-engine
  plugin.** The drivers' `Register`, constructor, `Init` and `Cleanup` only
  store or close a field, and `Run`, its reading loop commented out, only
  closes the root channel and calls `pipeline.Wait()`. What that wait waits
  for is the pipeline's, which is outside `src/`; spec §1 leaves driver
  bootstrapping out. The policy-engine plugin in
  `plugins/actions/hash/README.md` has `StartWorkers`, `ProcessAsync`,
  `StopWorkers` and its `defer wg.Done()` commented out, so it starts and
  stops nothing. A model of `Run` returning would rest on a pipeline and a
  plugin the repository does not have; the possible hang is a hazard.
  `syslogdriver.go` is the same code as `auditdriver.go`.
- **Tailer tests beyond the wait protocol.** `TestTempDir`, `TestOpenFile`,
  `Chdir`, the go-cmp wrappers and `LinesReceived` only set up files, compare
  values or drain a channel.
- **`LastReadTime`, logging and metrics.** They only record.
- **Read errors other than ESTALE and stat errors other than NotExist.** They
  lead to the wait (`goto Sleep`) and behave like `Wake`.
- **Bytes in `FileStream`.** Its symbols are whole runes, and it has no `\r`. `ReadDecode` models the bytes, the UTF-8 decoding and the eaten `\r` for the read loop alone.
- **The consumer of the lines channel.** It is outside `src/`. It is an
  environment that receives lines, and it may stop once the context is
  cancelled.
- **The waker's stop path in `Waker`.** Its generic wakees never leave by
  `stopChan`; `TailWaker` adds that path for the stream and shows, with
  `TailWaker_stop.cfg`, the blocked `awaken` that follows.
- **The init goroutine after a cancel.** It has no `ctx.Done` case and blocks
  for good when fewer than `n` wakees entered `Wake`; this is a hazard.

## Plan for further work

1. `TailWaker` with two streams (`NewTest(ctx, 2)`), once a test tails two
   files.
2. A string predicate module composing `MapStr` with `eval`, to show the
   `[` truncation end to end in a rule.
3. A macro redefinition policy, once the intended winner is settled.
