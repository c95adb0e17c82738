----------------------------- MODULE HashAction -----------------------------
(***************************************************************************)
(* The hash action plugin of src/unnamed/part_000: process(r), called by  *)
(* the policy engine's workers concurrently, looks up the file path (for  *)
(* file-flow records) and the process executable in a table of md5 hashes *)
(* and tags the record.  The table is read from hashes.csv by the first   *)
(* call, inside sync.Once: later callers block in once.Do until it is     *)
(* loaded, and it is never read again.                                    *)
(*                                                                         *)
(* A CSV file is [exists, rows]: whether os.Open finds it, and its rows,  *)
(* each a sequence of fields.  A record is [ff, path, exe]: whether it is a file-flow     *)
(* record, its file path and its process executable.                      *)
(***************************************************************************)
EXTENDS Integers, Sequences, TLC

LOCAL HX == INSTANCE SequencesExt

CONSTANTS
  Files,     \* the contents hashes.csv may have
  Workers,   \* the goroutines calling process
  Records    \* the records they process

VARIABLES
  file,      \* hashes.csv
  once,      \* the sync.Once: "new", "running" (f executing) or "done"
  instance,  \* the table, a function from path to hash
  pc,        \* pc[w]: "idle", "load" (running f), "get" (in getHashMap)
  cur,       \* cur[w]: the record w is processing
  started,   \* the records handed to process
  done,      \* the records process has returned for
  tags       \* the tags added: [rec, kind, hash]

vars == <<file, once, instance, pc, cur, started, done, tags>>

NoRecord == [none |-> TRUE]
EmptyMap == [p \in {} |-> ""]

\* readCSV: nothing if the file cannot be opened; csv.Reader.ReadAll
\* returns nil when a row has another number of fields than the first
\* (FieldsPerRecord is 0).
ReadCSV(f) ==
  IF ~f.exists THEN << >>
  ELSE IF \E k \in DOMAIN f.rows : Len(f.rows[k]) # Len(f.rows[1]) THEN << >>
  ELSE f.rows

\* createHashMap: m[line[1]] = line[0] for each line of two fields, in order.
CreateHashMap(data) ==
  LET put(m, line) == IF Len(line) = 2 THEN (line[2] :> line[1]) @@ m ELSE m
  IN  HX!FoldLeft(put, EmptyMap, data)

\* The tags process adds to r from table m.
TagsOf(r, m) ==
  (IF r.ff /\ r.path \in DOMAIN m
   THEN {[rec |-> r, kind |-> "file", hash |-> m[r.path]]} ELSE {})
  \cup (IF r.exe \in DOMAIN m
        THEN {[rec |-> r, kind |-> "proc", hash |-> m[r.exe]]} ELSE {})

Init == /\ file \in Files
        /\ once = "new" /\ instance = EmptyMap
        /\ pc = [w \in Workers |-> "idle"] /\ cur = [w \in Workers |-> NoRecord]
        /\ started = {} /\ done = {} /\ tags = {}

\* process(r) calls getHashMap: the first caller runs f in once.Do, the
\* others wait in once.Do for it to finish.
Process(w, r) ==
  /\ pc[w] = "idle" /\ r \notin started
  /\ started' = started \cup {r} /\ cur' = [cur EXCEPT ![w] = r]
  /\ IF once = "new" THEN once' = "running" /\ pc' = [pc EXCEPT ![w] = "load"]
                     ELSE pc' = [pc EXCEPT ![w] = "get"] /\ UNCHANGED once
  /\ UNCHANGED <<file, instance, done, tags>>

\* f: instance = createHashMap(); once.Do then returns to every caller.
Load(w) ==
  /\ pc[w] = "load"
  /\ instance' = CreateHashMap(ReadCSV(file))
  /\ once' = "done"
  /\ pc' = [pc EXCEPT ![w] = "get"]
  /\ UNCHANGED <<file, cur, started, done, tags>>

\* Mutant: getHashMap returns the table without waiting for the load.
LookupUnsynchronized(w) ==
  /\ pc[w] = "get"
  /\ tags' = tags \cup TagsOf(cur[w], instance)
  /\ done' = done \cup {cur[w]}
  /\ pc' = [pc EXCEPT ![w] = "idle"]
  /\ UNCHANGED <<file, once, instance, cur, started>>

\* getHashMap returns instance; the lookups and tags of process.
Lookup(w) ==
  /\ pc[w] = "get" /\ once = "done"
  /\ tags' = tags \cup TagsOf(cur[w], instance)
  /\ done' = done \cup {cur[w]}
  /\ pc' = [pc EXCEPT ![w] = "idle"]
  /\ UNCHANGED <<file, once, instance, cur, started>>

Next == \E w \in Workers : \/ \E r \in Records : Process(w, r)
                           \/ Load(w) \/ Lookup(w)

Spec == Init /\ [][Next]_vars
-----------------------------------------------------------------------------
(* hashes.csv as the plugin's README describes it: md5-path pairs, one per *)
(* line; a path listed more than once has the hash of its last line.      *)

Pairs(f) == IF f.exists THEN {k \in DOMAIN f.rows : Len(f.rows[k]) = 2} ELSE {}

HashFor(f, p) == LET ks == {k \in Pairs(f) : f.rows[k][2] = p}
                 IN  f.rows[CHOOSE k \in ks : \A j \in ks : j <= k][1]

Listed(f) == {f.rows[k][2] : k \in Pairs(f)}

ExpectedTags(f, r) ==
  { [rec |-> r, kind |-> k, hash |-> HashFor(f, IF k = "file" THEN r.path ELSE r.exe)] :
      k \in {k \in {"file", "proc"} :
                IF k = "file" THEN r.ff /\ r.path \in Listed(f) ELSE r.exe \in Listed(f)} }

\* Every record process has returned for carries exactly the tags the
\* file's md5-path lines give its file path and executable, whichever
\* worker loaded the table and however the calls interleave.
ProcessTagsAsListed ==
  \A r \in done : {t \in tags : t.rec = r} = ExpectedTags(file, r)
====
