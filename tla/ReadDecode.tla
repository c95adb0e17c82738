----------------------------- MODULE ReadDecode -----------------------------
(***************************************************************************)
(* The read loop of fileStream.stream (src/unnamed/part_004) and           *)
(* decodeAndSend (src/driver/log/tailer/logstream/decode.go) at the level  *)
(* of bytes, which FileStream abstracts into whole symbols.  Each Read     *)
(* fills b with what the file holds past the offset, at most               *)
(* defaultReadBufferSize bytes, and decodeAndSend decodes b[:count] rune   *)
(* by rune with utf8.DecodeRune: a carriage return is eaten, a newline     *)
(* sends the partial buffer as a line, and every other rune is appended to *)
(* partial.  The partial buffer survives from one read to the next; the   *)
(* bytes of b do not.                                                      *)
(*                                                                         *)
(* A rune is its code point; partial and the lines are sequences of runes *)
(* (partial.WriteRune and partial.String() encode and return them).        *)
(***************************************************************************)
EXTENDS Naturals, Sequences

LOCAL RX == INSTANCE SequencesExt

CONSTANTS
  Bytes,     \* the byte values the writer may write
  MaxBytes,  \* the bytes written in all
  BufSize    \* defaultReadBufferSize, scaled

ASSUME Bytes \subseteq 0..255 /\ MaxBytes \in Nat /\ BufSize \in Nat \ {0}

LF == 10
CR == 13
RuneError == 65533   \* utf8.RuneError, U+FFFD

\* Continuation bytes, utf8's locb..hicb.
IsCont(x) == 128 <= x /\ x <= 191

\* utf8's first[] and acceptRanges: the length of the sequence a byte
\* starts and the range its second byte must be in; size 0 for a byte no
\* sequence starts with.
Lead(x) ==
  CASE x < 128                -> [size |-> 1, lo |-> 0, hi |-> 0]
    [] 194 <= x /\ x <= 223   -> [size |-> 2, lo |-> 128, hi |-> 191]
    [] x = 224                -> [size |-> 3, lo |-> 160, hi |-> 191]
    [] x = 237                -> [size |-> 3, lo |-> 128, hi |-> 159]
    [] 225 <= x /\ x <= 239   -> [size |-> 3, lo |-> 128, hi |-> 191]
    [] x = 240                -> [size |-> 4, lo |-> 144, hi |-> 191]
    [] 241 <= x /\ x <= 243   -> [size |-> 4, lo |-> 128, hi |-> 191]
    [] x = 244                -> [size |-> 4, lo |-> 128, hi |-> 143]
    [] OTHER                  -> [size |-> 0, lo |-> 0, hi |-> 0]

Bad == [r |-> RuneError, w |-> 1]

\* `r, width = utf8.DecodeRune(b[i:])`: the rune p starts with and its
\* width; RuneError of width 1 for an invalid or incomplete sequence.
DecodeRune(p) ==
  LET x == Lead(p[1])
      c(k) == p[k] % 64
  IN  IF x.size = 1 THEN [r |-> p[1], w |-> 1]
      ELSE IF x.size = 0 \/ Len(p) < x.size \/ p[2] < x.lo \/ x.hi < p[2] THEN Bad
      ELSE IF x.size = 2 THEN [r |-> (p[1] % 32) * 64 + c(2), w |-> 2]
      ELSE IF ~IsCont(p[3]) THEN Bad
      ELSE IF x.size = 3 THEN [r |-> (p[1] % 16) * 4096 + c(2) * 64 + c(3), w |-> 3]
      ELSE IF ~IsCont(p[4]) THEN Bad
      ELSE [r |-> (p[1] % 8) * 262144 + c(2) * 4096 + c(3) * 64 + c(4), w |-> 4]

\* decodeAndSend(ctx, lines, pathname, count, b[:count], partial): the
\* partial buffer after b, and the lines sent (sendLine: the buffer's
\* string, then Reset), in order.
RECURSIVE DecodeAndSend(_, _)
DecodeAndSend(p, b) ==
  IF b = <<>> THEN [partial |-> p, lines |-> <<>>]
  ELSE LET d    == DecodeRune(b)
           rest == SubSeq(b, d.w + 1, Len(b))
       IN  CASE d.r = CR -> DecodeAndSend(p, rest)
             [] d.r = LF -> LET t == DecodeAndSend(<<>>, rest)
                            IN  [partial |-> t.partial, lines |-> <<p>> \o t.lines]
             [] OTHER    -> DecodeAndSend(Append(p, d.r), rest)

VARIABLES
  file,     \* the bytes the writer has written to the file
  off,      \* the descriptor's offset
  partial,  \* the partial buffer
  sent      \* the lines sent on the lines channel, in order

vars == <<file, off, partial, sent>>

Init == file = <<>> /\ off = 0 /\ partial = <<>> /\ sent = <<>>

\* The writer appends a byte; its writes may split a rune.
Write(x) == /\ Len(file) < MaxBytes
            /\ file' = Append(file, x)
            /\ UNCHANGED <<off, partial, sent>>

\* `count, err := fd.Read(b)` with count > 0, then decodeAndSend.
ReadData ==
  /\ off < Len(file)
  /\ LET count == IF Len(file) - off < BufSize THEN Len(file) - off ELSE BufSize
         dec   == DecodeAndSend(partial, SubSeq(file, off + 1, off + count))
     IN  /\ off' = off + count
         /\ partial' = dec.partial
         /\ sent' = sent \o dec.lines
  /\ UNCHANGED file

Next == (\E x \in Bytes : Write(x)) \/ ReadData

Spec == Init /\ [][Next]_vars /\ WF_vars(ReadData)

-----------------------------------------------------------------------------
TypeOK == /\ file \in Seq(Bytes) /\ off \in 0..Len(file)
          /\ partial \in Seq(Nat) /\ sent \in Seq(Seq(Nat))

(* Spec 4.6, step 2, for the bytes read so far: decode them as UTF-8 rune  *)
(* by rune, eat the carriage returns, and every newline ends one line.     *)
RECURSIVE Runes(_)
Runes(b) == IF b = <<>> THEN <<>>
            ELSE LET d == DecodeRune(b)
                 IN  <<d.r>> \o Runes(SubSeq(b, d.w + 1, Len(b)))

SpecLines(b) ==
  LET rs   == SelectSeq(Runes(b), LAMBDA c : c # CR)
      ends == RX!SetToSortSeq({i \in DOMAIN rs : rs[i] = LF}, <)
  IN  [k \in DOMAIN ends |->
         SubSeq(rs, IF k = 1 THEN 1 ELSE ends[k - 1] + 1, ends[k] - 1)]

(***************************************************************************)
(* Properties                                                              *)
(***************************************************************************)

\* The lines sent are the lines of the UTF-8 text the stream has read,
\* however the file was cut into reads: decodeAndSend, called once per
\* Read on b[:count], keeps the partial line from one read to the next
\* but not an incomplete rune at the end of b.
LinesAsDecoded == sent = SpecLines(SubSeq(file, 1, off))
====
