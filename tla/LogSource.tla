----------------------------- MODULE LogSource -----------------------------
(***************************************************************************)
(* What a log stream promises its reader, after the package comment of     *)
(* src/driver/log/tailer/logstream/logstream.go ("makes one pathname look  *)
(* like one perpetual source of logs") and spec 4.6: the lines of the file *)
(* are sent in order, each once, each as soon as its newline is written;   *)
(* when the stream completes it may flush a prefix of the next,            *)
(* unfinished line, without a terminator, and sends nothing after.         *)
(*                                                                         *)
(* Bytes are symbols: a newline is negative, any other rune positive.  A   *)
(* line is [line |-> its bytes, term |-> its newline, or 0 for a flush].   *)
(***************************************************************************)
EXTENDS Naturals, Sequences, FiniteSets

VARIABLES
  file,   \* every byte written to the pathname, in order
  sent,   \* the lines sent to the reader, in order
  done    \* the stream has completed

vars == <<file, sent, done>>

IsNL(s) == s < 0

\* The positions of the newlines of f, and the position of the n-th.
NLs(f) == {i \in DOMAIN f : IsNL(f[i])}
LineEnd(f, n) == CHOOSE i \in NLs(f) : Cardinality({j \in NLs(f) : j <= i}) = n
LineStart(f, n) == IF n = 1 THEN 1 ELSE LineEnd(f, n - 1) + 1

\* The n-th complete line of f.
LineAt(f, n) == [line |-> SubSeq(f, LineStart(f, n), LineEnd(f, n) - 1),
                 term |-> f[LineEnd(f, n)]]

\* The bytes of f that follow its n-th line, up to the next newline.
Open(f, n) == SubSeq(f, LineStart(f, n + 1),
                     IF n + 1 <= Cardinality(NLs(f)) THEN LineEnd(f, n + 1) - 1
                                                       ELSE Len(f))

Init == file = <<>> /\ sent = <<>> /\ done = FALSE

\* A byte is appended to the file.
Write == /\ Len(file') = Len(file) + 1 /\ file' = Append(file, file'[Len(file')])
         /\ file'[Len(file')] # 0
         /\ UNCHANGED <<sent, done>>

\* The next complete line is sent.
Deliver == /\ ~done /\ Len(sent) < Cardinality(NLs(file))
           /\ sent' = Append(sent, LineAt(file, Len(sent) + 1))
           /\ UNCHANGED <<file, done>>

\* The stream completes, flushing a prefix of the line it has not sent.
Complete == /\ ~done /\ done' = TRUE
            /\ LET o == Open(file, Len(sent)) IN
                 \E k \in 0..Len(o) :
                   sent' = IF k = 0 THEN sent
                           ELSE Append(sent, [line |-> SubSeq(o, 1, k), term |-> 0])
            /\ UNCHANGED file

Next == Write \/ Deliver \/ Complete

\* A complete line is sent unless the stream completes first.
Spec == Init /\ [][Next]_vars /\ WF_vars(Deliver)
====
