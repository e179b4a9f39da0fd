----------------------------- MODULE StdioProofs -----------------------------
(***************************************************************************)
(* Proofs about Stdio for every set of bytes, every buffer size and every  *)
(* bound.  The operators of Stdio map a stream to a stream, so the         *)
(* inductive invariant is a predicate Good on streams, and there is one    *)
(* lemma per operator on what it leaves of a good one.  The second half    *)
(* shows that Stdio implements ByteStream: one lemma per operator on what  *)
(* the program sees of the stream before and after it, and one per action. *)
(***************************************************************************)
EXTENDS Stdio, SequenceTheorems, WellFoundedInduction, TLAPS

Stream == [disk : Seq(Bytes), fdpos : Nat, kind : {"full", "line", "none"},
           rd : BOOLEAN, wr : BOOLEAN, rw : BOOLEAN, eof : BOOLEAN, err : BOOLEAN,
           made : BOOLEAN, npt : BOOLEAN, buf : [1..BufSize -> Bytes], p : Nat, r : Nat, w : Int,
           lbfsize : Int, hasub : BOOLEAN, ub : Seq(Bytes), ubsize : Nat, up : Nat, ur : Nat,
           soff : BOOLEAN, offset : Nat]

FileOK(s) ==
    /\ s.fdpos <= Len(s.disk) /\ Len(s.disk) <= MaxLen
    /\ s.offset = IF s.soff THEN s.fdpos ELSE 0

ModeOK(s) ==
    /\ ~(s.rd /\ s.wr) /\ (s.rd \/ s.wr \/ s.rw)

\* What is left to read is in the buffer, or, after ungetc, in the ungetc buffer.
ReadOK(s) ==
    /\ ~s.rd => s.r = 0 /\ ~s.hasub
    /\ s.rd => s.w = 0 /\ s.lbfsize = 0
    /\ s.rd /\ ~s.hasub => s.p + s.r <= Size(s)
    /\ s.hasub => /\ s.p = 0 /\ s.r = Len(s.ub) /\ s.r <= s.ubsize /\ s.ubsize > 0
                  /\ s.up + s.ur <= Size(s) /\ ~s.eof
    /\ ~s.hasub => s.ub = << >>
    /\ Len(s.ub) <= MaxPush

\* _w is the room left in a buffer, or minus what a line buffer holds; in a misfit
\* stream it tells of some of these bytes only.
WriteOK(s) ==
    /\ s.wr /\ s.made =>
          /\ s.p <= BufSize
          /\ s.kind = "full" => s.w = BufSize - s.p /\ s.lbfsize = 0
          /\ s.kind = "line" => \/ s.w + s.p = 0 /\ s.lbfsize = -BufSize
                                \/ /\ s.w <= 0 /\ s.w + s.p >= 0 /\ (s.p > 0 => s.w < 0)
                                   /\ s.lbfsize = 0
          /\ s.kind = "none" => s.p = 0 /\ s.w = 0 /\ s.lbfsize = 0
    /\ ~s.rd /\ ~(s.wr /\ s.made) => s.p = 0 /\ s.w = 0 /\ s.lbfsize = 0

Good(s) == s \in Stream /\ FileOK(s) /\ ModeOK(s) /\ ReadOK(s) /\ WriteOK(s)

\* The bytes of a stream that is written, and m more, fit into the bound.
Fits(s, m) == s.wr => s.fdpos + s.p + m <= MaxLen

Ops == {"none", "fread", "direct", "fwrite", "overrun"}
USE DEF Ops

BusyOK ==
    /\ busy \in [op : Ops, left : Nat, bytes : Seq(Bytes)]
    /\ busy.op = "fwrite" => f.wr /\ f.made /\ busy.bytes # << >>
    /\ busy.op # "fwrite" => busy.bytes = << >>
    /\ busy.op \in {"fread", "direct"} => dir = "in"
    /\ busy.op = "direct" => f.made /\ f.kind = "none"
    /\ busy.op = "overrun" => Misfit(f)

\* A stream that may be written next has nothing left to read.
DirOK ==
    /\ dir \in {"any", "in", "out"}
    /\ f.rw /\ f.rd /\ dir # "in" => f.r = 0 /\ ~f.hasub

IInv == Good(f) /\ Fits(f, Len(busy.bytes)) /\ BusyOK /\ DirOK

-----------------------------------------------------------------------------
(* Numbers and sequences *)

\* Two streams agree in some of their parts.
SameMode(s, t) == /\ t.kind = s.kind /\ t.rd = s.rd /\ t.wr = s.wr /\ t.rw = s.rw
                  /\ t.made = s.made /\ t.npt = s.npt
SameFile(s, t) == /\ t.disk = s.disk /\ t.fdpos = s.fdpos /\ t.soff = s.soff
                  /\ t.offset = s.offset
SameUb(s, t) == /\ t.hasub = s.hasub /\ t.ub = s.ub /\ t.ubsize = s.ubsize
                /\ t.up = s.up /\ t.ur = s.ur
SameCounters(s, t) == t.p = s.p /\ t.r = s.r /\ t.w = s.w /\ t.lbfsize = s.lbfsize

\* The constants.
LEMMA Sizes ==
    /\ BufSize \in Nat /\ BufSize > 0 /\ BlkSize \in Nat /\ BlkSize > 0
    /\ UbufSize \in Nat /\ UbufSize > 0
    /\ BigUb \in Nat /\ UbufSize < BigUb /\ MaxLen \in Nat /\ MaxPush \in Nat /\ MaxCount \in Nat
    /\ NL \in Bytes
    /\ \A s \in Stream : Size(s) \in Nat /\ 0 < Size(s) /\ Size(s) <= BufSize
  BY StdioAssumption DEF Size

\* Minimum and maximum of two and of three numbers.
LEMMA MinMax ==
    ASSUME NEW a \in Int, NEW b \in Int, NEW c \in Int
    PROVE  /\ Min({a, b}) = IF a <= b THEN a ELSE b
           /\ Max({a, b}) = IF a <= b THEN b ELSE a
           /\ Min({a, b, c}) \in {a, b, c}
           /\ Min({a, b, c}) <= a /\ Min({a, b, c}) <= b /\ Min({a, b, c}) <= c
<1>1. Min({a, b}) = IF a <= b THEN a ELSE b
  BY DEF Min
<1>2. Max({a, b}) = IF a <= b THEN b ELSE a
  BY DEF Max
<1>3. \E x \in {a, b, c} : \A y \in {a, b, c} : x <= y
  OBVIOUS
<1> QED
  BY <1>1, <1>2, <1>3 DEF Min

\* A part of a sequence.
LEMMA Part ==
    ASSUME NEW d \in Seq(Bytes)
    PROVE  \A m, n \in Nat : 0 < m /\ n <= Len(d) =>
              /\ SubSeq(d, m, n) \in Seq(Bytes)
              /\ Len(SubSeq(d, m, n)) = IF m <= n THEN n - m + 1 ELSE 0
<1> SUFFICES ASSUME NEW m \in Nat, NEW n \in Nat, 0 < m, n <= Len(d)
             PROVE  /\ SubSeq(d, m, n) \in Seq(Bytes)
                    /\ Len(SubSeq(d, m, n)) = IF m <= n THEN n - m + 1 ELSE 0
  OBVIOUS
<1>1. \A i \in m..n : d[i] \in Bytes
  OBVIOUS
<1> QED
  BY <1>1, SubSeqProperties

\* A part of the buffer.
LEMMA BufferPart ==
    ASSUME NEW b \in [1..BufSize -> Bytes], NEW n \in Nat, n <= BufSize
    PROVE  SubSeq(b, 1, n) \in Seq(Bytes) /\ Len(SubSeq(b, 1, n)) = n
<1>1. \A i \in 1..n : b[i] \in Bytes
  BY Sizes
<1> QED
  BY <1>1, SubSeqProperties

\* A bounded sequence.
LEMMA Bounded ==
    ASSUME NEW n \in Int
    PROVE  \A d : d \in BoundedSeq(Bytes, n) <=> d \in Seq(Bytes) /\ Len(d) \in Nat /\ Len(d) <= n
<1>1. ASSUME NEW d \in BoundedSeq(Bytes, n)
      PROVE  d \in Seq(Bytes) /\ Len(d) \in Nat /\ Len(d) <= n
  <2>1. PICK m \in 0..n : d \in [1..m -> Bytes]
    BY <1>1 DEF BoundedSeq, SeqOf
  <2>2. m \in Nat /\ m <= n
    OBVIOUS
  <2>3. d \in Seq(Bytes)
    BY <2>1, <2>2
  <2>4. DOMAIN d = 1..m
    BY <2>1
  <2>5. Len(d) = m
    BY <2>2, <2>3, <2>4
  <2> QED
    BY <2>2, <2>3, <2>5
<1>2. ASSUME NEW d \in Seq(Bytes), Len(d) <= n PROVE d \in BoundedSeq(Bytes, n)
  <2>1. Len(d) \in 0..n /\ d \in [1..Len(d) -> Bytes]
    BY <1>2
  <2> QED
    BY <2>1 DEF BoundedSeq, SeqOf
<1> QED
  BY <1>1, <1>2

\* A write inside a file or at its end.
LEMMA OverwriteLen ==
    ASSUME NEW d \in Seq(Bytes), NEW n \in Nat, n <= Len(d), NEW b \in Seq(Bytes)
    PROVE  /\ Overwrite(d, n, b) \in Seq(Bytes)
           /\ Len(Overwrite(d, n, b)) = IF n + Len(b) <= Len(d) THEN Len(d) ELSE n + Len(b)
<1> DEFINE u == SubSeq(d, 1, n)
           v == SubSeq(d, n + Len(b) + 1, Len(d))
<1>1. Len(d) \in Nat /\ Len(b) \in Nat /\ n + Len(b) + 1 \in Nat /\ 0 < n + Len(b) + 1
  OBVIOUS
<1>2. u \in Seq(Bytes) /\ Len(u) = n
  <2>1. 1 \in Nat /\ 0 < 1
    OBVIOUS
  <2>2. u \in Seq(Bytes) /\ Len(u) = IF 1 <= n THEN n - 1 + 1 ELSE 0
    BY <1>1, <2>1, Part, Zenon
  <2> QED
    BY <2>2
<1>3. v \in Seq(Bytes) /\ Len(v) = IF n + Len(b) <= Len(d) THEN Len(d) - n - Len(b) ELSE 0
  <2>1. Len(d) <= Len(d)
    BY <1>1
  <2>2. v \in Seq(Bytes) /\ Len(v) = IF n + Len(b) + 1 <= Len(d)
                                     THEN Len(d) - (n + Len(b) + 1) + 1 ELSE 0
    BY <1>1, <2>1, Part, Zenon
  <2> HIDE DEF v
  <2> QED
    BY <1>1, <2>2
<1> HIDE DEF u, v
<1> DEFINE ub == u \o b
           ubv == ub \o v
<1>4. ub \in Seq(Bytes) /\ Len(ub) = Len(u) + Len(b)
  BY <1>2, ConcatProperties, Zenon
<1> HIDE DEF ub
<1>5. ubv \in Seq(Bytes) /\ Len(ubv) = Len(ub) + Len(v)
  BY <1>3, <1>4, ConcatProperties, Zenon
<1>6. Overwrite(d, n, b) = ubv
  BY Zenon DEF Overwrite, u, v, ub
<1> HIDE DEF ubv
<1>7. Len(v) = IF n + Len(b) <= Len(d) THEN Len(d) - n - Len(b) ELSE 0
  BY <1>3
<1>8. Len(ubv) = n + Len(b) + Len(v)
  BY <1>2, <1>4, <1>5
<1>9. Len(ubv) = IF n + Len(b) <= Len(d) THEN Len(d) ELSE n + Len(b)
  <2>1. CASE n + Len(b) <= Len(d)
    BY <1>1, <1>7, <1>8, <2>1
  <2>2. CASE ~(n + Len(b) <= Len(d))
    BY <1>1, <1>7, <1>8, <2>2
  <2> QED
    BY <2>1, <2>2
<1> QED
  BY <1>5, <1>6, <1>9

-----------------------------------------------------------------------------
(* Operators *)

\* A write of the descriptor.
LEMMA SwriteFacts ==
    ASSUME NEW s \in Stream, s.fdpos <= Len(s.disk), NEW b \in Seq(Bytes)
    PROVE  /\ Swrite(s, b) \in Stream
           /\ Swrite(s, b).fdpos = s.fdpos + Len(b)
           /\ Len(Swrite(s, b).disk) = IF s.fdpos + Len(b) <= Len(s.disk) THEN Len(s.disk)
                                       ELSE s.fdpos + Len(b)
           /\ ~Swrite(s, b).soff /\ Swrite(s, b).offset = 0
           /\ SameMode(s, Swrite(s, b)) /\ SameUb(s, Swrite(s, b))
           /\ SameCounters(s, Swrite(s, b)) /\ Swrite(s, b).eof = s.eof
<1>1. /\ s.disk \in Seq(Bytes) /\ s.fdpos \in Nat /\ Len(b) \in Nat
      /\ s.fdpos + Len(b) \in Nat
  BY DEF Stream
<1>2. /\ Overwrite(s.disk, s.fdpos, b) \in Seq(Bytes)
      /\ Len(Overwrite(s.disk, s.fdpos, b)) = IF s.fdpos + Len(b) <= Len(s.disk) THEN Len(s.disk)
                                              ELSE s.fdpos + Len(b)
  BY <1>1, OverwriteLen
<1>3. Swrite(s, b) \in Stream
  BY <1>1, <1>2 DEF Swrite, Stream
<1>4. /\ Swrite(s, b).fdpos = s.fdpos + Len(b) /\ ~Swrite(s, b).soff /\ Swrite(s, b).offset = 0
      /\ Swrite(s, b).disk = Overwrite(s.disk, s.fdpos, b) /\ Swrite(s, b).eof = s.eof
  BY DEF Swrite, Stream
<1>5. SameMode(s, Swrite(s, b)) /\ SameUb(s, Swrite(s, b)) /\ SameCounters(s, Swrite(s, b))
  BY DEF Swrite, Stream, SameMode, SameUb, SameCounters
<1> QED
  BY <1>2, <1>3, <1>4, <1>5

\* lseek keeps everything but the file offset.
LEMMA SseekFacts ==
    ASSUME NEW s \in Stream, NEW n \in Nat
    PROVE  /\ Sseek(s, n) \in Stream
           /\ Sseek(s, n).disk = s.disk /\ Sseek(s, n).fdpos = n
           /\ Sseek(s, n).soff /\ Sseek(s, n).offset = n
           /\ SameMode(s, Sseek(s, n)) /\ SameUb(s, Sseek(s, n))
           /\ SameCounters(s, Sseek(s, n)) /\ Sseek(s, n).eof = s.eof
<1>1. Sseek(s, n) \in Stream
  BY DEF Sseek, Stream
<1> QED
  BY <1>1 DEF Sseek, Stream, SameMode, SameUb, SameCounters

\* FREEUB keeps everything but the ungetc buffer.
LEMMA FreeUbFacts ==
    ASSUME NEW s \in Stream
    PROVE  /\ FreeUb(s) \in Stream /\ ~FreeUb(s).hasub /\ FreeUb(s).ub = << >>
           /\ SameMode(s, FreeUb(s)) /\ SameFile(s, FreeUb(s)) /\ SameCounters(s, FreeUb(s))
           /\ FreeUb(s).eof = s.eof
<1>1. << >> \in Seq(Bytes)
  OBVIOUS
<1>2. FreeUb(s) \in Stream
  BY <1>1 DEF FreeUb, Stream
<1>3. ~FreeUb(s).hasub /\ FreeUb(s).ub = << >>
  BY DEF FreeUb, Stream
<1> QED
  BY <1>2, <1>3 DEF FreeUb, Stream, SameMode, SameFile, SameCounters

\* __smakebuf.
LEMMA MadeFacts ==
    ASSUME NEW s \in Stream
    PROVE  /\ Made(s) \in Stream /\ Made(s).made
           /\ Made(s).kind = s.kind /\ Made(s).rd = s.rd /\ Made(s).wr = s.wr /\ Made(s).rw = s.rw
           /\ SameFile(s, Made(s)) /\ SameUb(s, Made(s)) /\ Made(s).eof = s.eof
           /\ Made(s).r = s.r /\ Made(s).w = s.w /\ Made(s).lbfsize = s.lbfsize
           /\ Made(s).p = IF s.made THEN s.p ELSE 0
<1>1. Made(s) \in Stream
  BY ZenonT(60) DEF Made, Stream
<1> QED
  BY <1>1 DEF Made, Stream, SameFile, SameUb

\* What __sflush needs: _w may be anything, the rest is as in a good stream.
Flushable(s) ==
    /\ s \in Stream /\ FileOK(s) /\ ModeOK(s) /\ ReadOK(s)
    /\ s.wr /\ s.made => /\ s.p <= BufSize
                         /\ s.lbfsize = 0 \/ (s.kind = "line" /\ s.lbfsize = -BufSize)
    /\ ~s.rd /\ ~(s.wr /\ s.made) => s.p = 0 /\ s.w = 0 /\ s.lbfsize = 0

\* A good stream can be flushed.
LEMMA GoodFlushable == \A s : Good(s) => Flushable(s)
<1> SUFFICES ASSUME NEW s, Good(s) PROVE Flushable(s)
  OBVIOUS
<1>1. s.kind \in {"full", "line", "none"}
  BY DEF Good, Stream
<1> QED
  BY <1>1 DEF Good, Flushable, WriteOK

\* __sflush leaves a good stream, whatever the descriptor takes.
LEMMA SflushFacts ==
    ASSUME NEW s, Flushable(s), Fits(s, 0), NEW j \in Nat
    PROVE  /\ Good(Sflush(s, j))
           /\ SameMode(s, Sflush(s, j)) /\ SameUb(s, Sflush(s, j))
           /\ Sflush(s, j).eof = s.eof /\ Sflush(s, j).r = s.r
           /\ s.wr => Sflush(s, j).p = 0
           /\ ~s.wr \/ ~s.made \/ s.p = 0 => SameFile(s, Sflush(s, j))
           /\ ~s.wr \/ ~s.made => Sflush(s, j) = s
           /\ Len(s.disk) <= Len(Sflush(s, j).disk)
           /\ \A m \in Nat : Fits(s, m) => Fits(Sflush(s, j), m)
<1> DEFINE t == Sflush(s, j)
<1>1. CASE ~s.wr \/ ~s.made
  <2>1. t = s
    BY <1>1 DEF Sflush
  <2>2. Good(s)
    BY <1>1 DEF Flushable, Good, WriteOK
  <2>3. s.wr => s.p = 0
    BY <1>1 DEF Flushable, ModeOK
  <2>4. Len(s.disk) <= Len(s.disk)
    BY DEF Flushable, Stream
  <2> HIDE DEF t
  <2>5. SameMode(s, t) /\ SameUb(s, t) /\ SameFile(s, t)
    BY <2>1 DEF SameMode, SameUb, SameFile
  <2> QED
    BY <2>1, <2>2, <2>3, <2>4, <2>5 DEF t
<1>2. CASE s.wr /\ s.made
  <2> DEFINE n == Min({j, Buffered(s)})
             x == IF s.p > 0 THEN Swrite(s, SubSeq(s.buf, 1, n)) ELSE s
  <2>1. /\ s \in Stream /\ s.p \in Nat /\ s.p <= BufSize /\ BufSize \in Nat /\ s.fdpos \in Nat
        /\ s.fdpos <= Len(s.disk) /\ Len(s.disk) <= MaxLen /\ MaxLen \in Nat /\ Len(s.disk) \in Nat
        /\ s.fdpos + s.p <= MaxLen
    BY <1>2, Sizes DEF Flushable, Stream, FileOK, Fits
  <2>2. n \in Nat /\ n <= s.p /\ n <= BufSize
    <3>1. Buffered(s) = s.p
      BY <1>2 DEF Buffered
    <3>2. n = IF j <= s.p THEN j ELSE s.p
      BY <2>1, <3>1, MinMax
    <3> HIDE DEF n
    <3> QED
      BY <2>1, <3>2
  <2> HIDE DEF n
  <2>3. SubSeq(s.buf, 1, n) \in Seq(Bytes) /\ Len(SubSeq(s.buf, 1, n)) = n
    BY <2>1, <2>2, BufferPart DEF Stream
  <2>4. /\ x \in Stream /\ SameMode(s, x) /\ SameUb(s, x) /\ SameCounters(s, x) /\ x.eof = s.eof
        /\ s.fdpos <= x.fdpos /\ x.fdpos <= s.fdpos + s.p
        /\ x.fdpos <= Len(x.disk) /\ Len(x.disk) <= MaxLen /\ Len(s.disk) <= Len(x.disk)
        /\ x.offset = IF x.soff THEN x.fdpos ELSE 0
        /\ s.p = 0 => SameFile(s, x)
    <3>1. CASE s.p > 0
      <4> DEFINE b == SubSeq(s.buf, 1, n)
      <4>1. b \in Seq(Bytes) /\ Len(b) = n
        BY <2>3
      <4> HIDE DEF b
      <4>2. /\ Swrite(s, b) \in Stream
            /\ Swrite(s, b).fdpos = s.fdpos + n
            /\ Len(Swrite(s, b).disk) = IF s.fdpos + n <= Len(s.disk) THEN Len(s.disk)
                                        ELSE s.fdpos + n
            /\ ~Swrite(s, b).soff /\ Swrite(s, b).offset = 0
            /\ SameMode(s, Swrite(s, b)) /\ SameUb(s, Swrite(s, b))
            /\ SameCounters(s, Swrite(s, b)) /\ Swrite(s, b).eof = s.eof
        BY <2>1, <4>1, SwriteFacts
      <4>3. x = Swrite(s, b)
        BY <3>1 DEF b
      <4> HIDE DEF x
      <4> QED
        BY <2>1, <2>2, <3>1, <4>2, <4>3
    <3>2. CASE s.p = 0
      <4>1. x = s
        BY <3>2
      <4> HIDE DEF x
      <4> QED
        BY <2>1, <3>2, <4>1 DEF Flushable, FileOK, SameMode, SameUb, SameCounters, SameFile
    <3> QED
      BY <2>1, <3>1, <3>2
  <2> HIDE DEF x
  <2>5. t = [x EXCEPT !.p = 0, !.w = IF s.kind = "full" THEN BufSize ELSE 0,
                      !.err = @ \/ FlushFails(s, j)]
    BY <1>2 DEF Sflush, x, n
  <2> HIDE DEF t
  <2>6. /\ t \in Stream /\ SameMode(x, t) /\ SameUb(x, t) /\ SameFile(x, t) /\ t.eof = x.eof
        /\ t.p = 0 /\ t.r = x.r /\ t.lbfsize = x.lbfsize
        /\ t.w = IF s.kind = "full" THEN BufSize ELSE 0
    <3>1. FlushFails(s, j) \in BOOLEAN /\ (IF s.kind = "full" THEN BufSize ELSE 0) \in Int
      BY <2>1 DEF FlushFails
    <3>2. t \in Stream
      BY <2>4, <2>5, <3>1, ZenonT(60) DEF Stream
    <3> QED
      BY <2>4, <2>5, <3>2 DEF Stream, SameMode, SameUb, SameFile
  <2>7. SameMode(s, t) /\ SameUb(s, t) /\ t.eof = s.eof /\ t.r = s.r /\ t.lbfsize = s.lbfsize
    BY <2>4, <2>6 DEF SameMode, SameUb, SameCounters
  <2>8. FileOK(t) /\ Len(s.disk) <= Len(t.disk) /\ (s.p = 0 => SameFile(s, t))
    BY <2>4, <2>6 DEF FileOK, SameFile
  <2>9. ModeOK(t) /\ ReadOK(t)
    BY <1>2, <2>6, <2>7 DEF Flushable, ModeOK, ReadOK, SameMode, SameUb, Size
  <2>10. WriteOK(t)
    <3>1. s.kind \in {"full", "line", "none"}
      BY <2>1 DEF Stream
    <3>2. t.wr /\ t.made /\ t.kind = s.kind /\ ~t.rd
      BY <1>2, <2>7 DEF SameMode, Flushable, ModeOK
    <3>3. s.lbfsize = 0 \/ (s.kind = "line" /\ s.lbfsize = -BufSize)
      BY <1>2 DEF Flushable
    <3>4. 0 + 0 = 0 /\ BufSize - 0 = BufSize /\ 0 <= BufSize /\ 0 <= 0
      BY <2>1
    <3>5. t.p = 0 /\ t.w = (IF s.kind = "full" THEN BufSize ELSE 0) /\ t.lbfsize = s.lbfsize
      BY <2>6, <2>7
    <3> QED
      BY <3>1, <3>2, <3>3, <3>4, <3>5 DEF WriteOK
  <2>11. ASSUME NEW m \in Nat, Fits(s, m) PROVE Fits(t, m)
    <3>1. t.fdpos = x.fdpos /\ t.p = 0 /\ x.fdpos \in Nat
      BY <2>4, <2>6 DEF SameFile, Stream
    <3> QED
      BY <1>2, <2>1, <2>4, <2>11, <3>1 DEF Fits
  <2> QED
    BY <1>2, <2>6, <2>7, <2>8, <2>9, <2>10, <2>11 DEF Good, t
<1> QED
  BY <1>1, <1>2

\* ftello and fseeko find the offset.
LEMMA KnowOffsetFacts ==
    ASSUME NEW s \in Stream, FileOK(s)
    PROVE  /\ KnowOffset(s) \in Stream /\ FileOK(KnowOffset(s))
           /\ KnowOffset(s).disk = s.disk /\ KnowOffset(s).fdpos = s.fdpos
           /\ KnowOffset(s).soff /\ KnowOffset(s).offset = s.fdpos
           /\ SameMode(s, KnowOffset(s)) /\ SameUb(s, KnowOffset(s))
           /\ SameCounters(s, KnowOffset(s)) /\ KnowOffset(s).eof = s.eof
<1>1. s.fdpos \in Nat
  BY DEF Stream
<1>2. CASE s.soff
  BY <1>2 DEF KnowOffset, FileOK, SameMode, SameUb, SameCounters
<1>3. CASE ~s.soff
  <2>1. KnowOffset(s) = Sseek(s, s.fdpos)
    BY <1>3 DEF KnowOffset
  <2>2. /\ Sseek(s, s.fdpos) \in Stream
        /\ Sseek(s, s.fdpos).disk = s.disk /\ Sseek(s, s.fdpos).fdpos = s.fdpos
        /\ Sseek(s, s.fdpos).soff /\ Sseek(s, s.fdpos).offset = s.fdpos
        /\ SameMode(s, Sseek(s, s.fdpos)) /\ SameUb(s, Sseek(s, s.fdpos))
        /\ SameCounters(s, Sseek(s, s.fdpos)) /\ Sseek(s, s.fdpos).eof = s.eof
    BY <1>1, SseekFacts
  <2>3. FileOK(Sseek(s, s.fdpos))
    BY <2>2 DEF FileOK
  <2> QED
    BY <2>1, <2>2, <2>3
<1> QED
  BY <1>2, <1>3

\* A stream that differs from a good one only in its file is good.
LEMMA GoodKept ==
    ASSUME NEW s, Flushable(s), NEW t \in Stream, FileOK(t),
           SameMode(s, t), SameUb(s, t), SameCounters(s, t), t.eof = s.eof
    PROVE  Flushable(t) /\ (Good(s) => Good(t))
<1>1. ModeOK(t) /\ ReadOK(t)
  BY DEF Flushable, ModeOK, ReadOK, SameMode, SameUb, SameCounters, Size
<1>2. WriteOK(s) => WriteOK(t)
  BY DEF WriteOK, SameMode, SameCounters
<1> QED
  BY <1>1, <1>2 DEF Flushable, Good, SameMode, SameCounters

\* __smakebuf leaves a stream that can be flushed, and a good one if it is not
\* being written.
LEMMA MadeGood ==
    ASSUME NEW s, Good(s)
    PROVE  /\ Flushable(Made(s)) /\ (~s.wr => Good(Made(s)))
           /\ \A m \in Nat : Fits(s, m) => Fits(Made(s), m)
<1> DEFINE t == Made(s)
<1>1. s \in Stream /\ s.p \in Nat /\ s.fdpos \in Nat
  BY DEF Good, Stream
<1>2. /\ t \in Stream /\ t.made /\ t.kind = s.kind /\ t.rd = s.rd /\ t.wr = s.wr /\ t.rw = s.rw
      /\ SameFile(s, t) /\ SameUb(s, t) /\ t.eof = s.eof
      /\ t.r = s.r /\ t.w = s.w /\ t.lbfsize = s.lbfsize
      /\ t.p = IF s.made THEN s.p ELSE 0
  BY <1>1, MadeFacts
<1> HIDE DEF t
<1>3. t.p \in Nat /\ t.p <= s.p /\ t.r \in Nat /\ Size(t) \in Nat /\ Size(t) = Size(s)
  BY <1>1, <1>2, Sizes DEF Stream, Size
<1>4. FileOK(t) /\ ModeOK(t)
  BY <1>2 DEF Good, FileOK, ModeOK, SameFile
<1>5. ReadOK(t)
  <2>1. s.rd /\ ~s.hasub => t.p + t.r <= Size(t)
    BY <1>1, <1>2, <1>3 DEF Good, ReadOK
  <2>2. s.hasub => t.p = 0
    BY <1>2 DEF Good, ReadOK
  <2> QED
    BY <1>2, <1>3, <2>1, <2>2 DEF Good, ReadOK, SameUb
<1>6. t.wr => /\ t.p <= BufSize
              /\ t.lbfsize = 0 \/ (t.kind = "line" /\ t.lbfsize = -BufSize)
  <2>1. CASE s.made
    BY <1>2, <2>1, GoodFlushable DEF Flushable
  <2>2. CASE ~s.made
    <3>1. t.p = 0
      BY <1>2, <2>2
    <3>2. t.wr => t.lbfsize = 0
      BY <1>2, <2>2 DEF Good, ModeOK, WriteOK
    <3> QED
      BY <3>1, <3>2, Sizes
  <2> QED
    BY <2>1, <2>2
<1>7. ~t.rd /\ ~t.wr => t.p = 0 /\ t.w = 0 /\ t.lbfsize = 0
  <2>1. ~t.rd /\ ~t.wr => s.p = 0 /\ s.w = 0 /\ s.lbfsize = 0
    BY <1>2 DEF Good, WriteOK
  <2> QED
    BY <1>2, <2>1
<1>8. Flushable(t)
  BY <1>2, <1>4, <1>5, <1>6, <1>7 DEF Flushable
<1>9. ~s.wr => Good(t)
  BY <1>2, <1>4, <1>5, <1>7 DEF Good, WriteOK
<1>10. ASSUME NEW m \in Nat, Fits(s, m) PROVE Fits(t, m)
  BY <1>1, <1>2, <1>3, <1>10, Sizes DEF Fits, SameFile
<1> QED
  BY <1>8, <1>9, <1>10 DEF t

\* The switch to reading leaves a good stream that has nothing to read yet.
LEMMA StartReadingFacts ==
    ASSUME NEW s, Good(s), ~s.rd, Fits(s, 0), NEW j \in Nat
    PROVE  /\ Good(StartReading(s, j)) /\ StartReading(s, j).rd
           /\ ~StartReading(s, j).hasub /\ StartReading(s, j).ub = << >>
           /\ StartReading(s, j).kind = s.kind /\ StartReading(s, j).rw = s.rw
           /\ Len(s.disk) <= Len(StartReading(s, j).disk)
<1> DEFINE x == Sflush(s, j)
           t == StartReading(s, j)
           w0 == IF s.wr THEN 0 ELSE x.w
           l0 == IF s.wr THEN 0 ELSE x.lbfsize
<1>1. /\ Good(x) /\ SameMode(s, x) /\ SameUb(s, x) /\ x.r = s.r /\ (s.wr => x.p = 0)
      /\ (~s.wr => x = s) /\ Len(s.disk) <= Len(x.disk)
  BY SflushFacts, GoodFlushable
<1>2. t = [x EXCEPT !.wr = FALSE, !.rd = TRUE, !.w = w0, !.lbfsize = l0]
  BY DEF StartReading
<1>0. w0 \in Int /\ l0 \in Int
  BY <1>1 DEF Good, Stream
<1> HIDE DEF x, t, w0, l0
<1>3. /\ t \in Stream /\ SameFile(x, t) /\ SameUb(x, t) /\ t.eof = x.eof
      /\ t.kind = x.kind /\ t.rw = x.rw /\ t.made = x.made /\ t.rd /\ ~t.wr
      /\ t.p = x.p /\ t.r = x.r
      /\ t.w = (IF s.wr THEN 0 ELSE x.w) /\ t.lbfsize = (IF s.wr THEN 0 ELSE x.lbfsize)
  <2>1. t \in Stream
    BY <1>0, <1>1, <1>2 DEF Good, Stream
  <2> QED
    BY <1>1, <1>2, <2>1 DEF Good, Stream, SameFile, SameUb, w0, l0
<1>4. s.r = 0 /\ ~s.hasub /\ s.ub = << >>
  BY DEF Good, ReadOK
<1>5. ~s.wr => s.p = 0 /\ s.w = 0 /\ s.lbfsize = 0
  BY DEF Good, WriteOK
<1>6. t.p = 0 /\ t.r = 0 /\ t.w = 0 /\ t.lbfsize = 0 /\ ~t.hasub /\ t.ub = << >>
  BY <1>1, <1>3, <1>4, <1>5 DEF SameUb
<1>7. FileOK(t) /\ ModeOK(t)
  BY <1>1, <1>3 DEF Good, FileOK, ModeOK, SameFile
<1>8. ReadOK(t) /\ WriteOK(t)
  <2>1. Len(<< >>) = 0 /\ 0 <= MaxPush /\ 0 + 0 <= Size(t) /\ Size(t) \in Nat
    BY <1>3, Sizes
  <2> QED
    BY <1>3, <1>6, <2>1 DEF ReadOK, WriteOK
<1> QED
  BY <1>1, <1>3, <1>6, <1>7, <1>8 DEF Good, SameMode, SameFile, t

\* read fetches no more than asked for, and no more than there is.
LEMMA ReadCountFacts ==
    ASSUME NEW s \in Stream, s.fdpos <= Len(s.disk), NEW k \in Int, k >= -1, NEW n \in Nat
    PROVE  /\ ReadCount(s, k, n) \in Int /\ ReadCount(s, k, n) >= -1
           /\ ReadCount(s, k, n) <= n /\ ReadCount(s, k, n) <= Len(s.disk) - s.fdpos
           /\ ReadCount(s, k, n) \in {-1, k, n, Len(s.disk) - s.fdpos}
<1> DEFINE a == Len(s.disk) - s.fdpos
<1>1. a \in Int /\ 0 <= a
  BY DEF Stream
<1>2. Max({0, a}) = a
  <2> HIDE DEF a
  <2>1. 0 \in Int
    OBVIOUS
  <2>2. Max({0, a}) = IF 0 <= a THEN a ELSE 0
    BY <1>1, <2>1, MinMax, Zenon
  <2> QED
    BY <1>1, <2>2
<1>3. ReadCount(s, k, n) = IF k = -1 THEN -1 ELSE Min({k, n, a})
  BY <1>2 DEF ReadCount
<1> HIDE DEF a
<1>4. Min({k, n, a}) \in {k, n, a} /\ Min({k, n, a}) <= n /\ Min({k, n, a}) <= a
  <2>1. n \in Int
    OBVIOUS
  <2> QED
    BY <1>1, <2>1, MinMax, Zenon
<1>5. ReadCount(s, k, n) \in Int /\ ReadCount(s, k, n) >= -1
      /\ ReadCount(s, k, n) <= n /\ ReadCount(s, k, n) <= a
  BY <1>1, <1>3, <1>4
<1>6. ReadCount(s, k, n) \in {-1, k, n, a}
  BY <1>3, <1>4
<1> QED
  BY <1>5, <1>6 DEF a

\* What is read are bytes of the file, and the cached offset moves along.
LEMMA SreadFacts ==
    ASSUME NEW s \in Stream, FileOK(s), NEW c \in Int, c >= -1, c <= Len(s.disk) - s.fdpos
    PROVE  /\ Sread(s, c) \in Stream /\ FileOK(Sread(s, c))
           /\ SameMode(s, Sread(s, c)) /\ SameUb(s, Sread(s, c)) /\ SameCounters(s, Sread(s, c))
           /\ Sread(s, c).disk = s.disk /\ Sread(s, c).eof = s.eof /\ Sread(s, c).err = s.err
           /\ Sread(s, c).fdpos = IF c = -1 THEN s.fdpos ELSE s.fdpos + c
<1> DEFINE t == Sread(s, c)
<1>0. /\ s.disk \in Seq(Bytes) /\ s.fdpos \in Nat /\ s.buf \in [1..BufSize -> Bytes]
      /\ s.offset \in Nat /\ s.soff \in BOOLEAN /\ Len(s.disk) \in Nat
      /\ s.fdpos <= Len(s.disk) /\ Len(s.disk) <= MaxLen
      /\ (s.soff => s.offset = s.fdpos) /\ (~s.soff => s.offset = 0)
  BY DEF Stream, FileOK
<1>1. CASE c = -1
  <2>1. t = [s EXCEPT !.soff = FALSE, !.offset = 0]
    BY <1>1 DEF Sread
  <2> HIDE DEF t
  <2>2. t \in Stream
    BY <2>1 DEF Stream
  <2>3. t.disk = s.disk /\ t.fdpos = s.fdpos /\ ~t.soff /\ t.offset = 0 /\ t.eof = s.eof /\ t.err = s.err
    BY <2>1 DEF Stream
  <2>4. FileOK(t)
    BY <1>0, <2>3 DEF FileOK
  <2> QED
    BY <1>1, <2>1, <2>2, <2>3, <2>4 DEF Stream, SameMode, SameUb, SameCounters, t
<1>2. CASE c # -1
  <2> DEFINE b == [i \in DOMAIN s.buf |-> IF i <= c THEN s.disk[s.fdpos + i] ELSE s.buf[i]]
             o == IF s.soff THEN s.offset + c ELSE 0
  <2>1. c \in Nat /\ s.fdpos + c \in Nat /\ s.fdpos + c <= Len(s.disk)
    BY <1>0, <1>2
  <2>2. b \in [1..BufSize -> Bytes]
    <3>1. ASSUME NEW i \in 1..BufSize, i <= c PROVE s.disk[s.fdpos + i] \in Bytes
      <4>1. s.fdpos + i \in 1..Len(s.disk)
        BY <1>0, <2>1, <3>1, Sizes
      <4> QED
        BY <1>0, <4>1
    <3>2. DOMAIN s.buf = 1..BufSize
      BY <1>0
    <3> QED
      BY <1>0, <3>1, <3>2
  <2>3. o \in Nat /\ (s.soff => o = s.fdpos + c) /\ (~s.soff => o = 0)
    BY <1>0, <2>1
  <2>4. t = [s EXCEPT !.buf = b, !.fdpos = s.fdpos + c, !.offset = o]
    BY <1>2 DEF Sread
  <2> HIDE DEF t, b, o
  <2>5. t \in Stream
    BY <2>1, <2>2, <2>3, <2>4 DEF Stream
  <2>6. /\ t.disk = s.disk /\ t.fdpos = s.fdpos + c /\ t.soff = s.soff /\ t.offset = o
        /\ t.eof = s.eof /\ t.err = s.err
    BY <2>4 DEF Stream
  <2>7. FileOK(t)
    BY <1>0, <2>1, <2>3, <2>6 DEF FileOK
  <2> QED
    BY <1>2, <2>4, <2>5, <2>6, <2>7 DEF Stream, SameMode, SameUb, SameCounters, t
<1> QED
  BY <1>1, <1>2

\* A refill of a buffer of n bytes puts at most n there.
LEMMA FillFacts ==
    ASSUME NEW s \in Stream, FileOK(s), NEW k \in Int, k >= -1, NEW n \in Nat
    PROVE  /\ Fill(s, k, n) \in Stream /\ FileOK(Fill(s, k, n))
           /\ SameMode(s, Fill(s, k, n)) /\ SameUb(s, Fill(s, k, n))
           /\ Fill(s, k, n).disk = s.disk /\ Fill(s, k, n).p = 0 /\ Fill(s, k, n).r <= n
           /\ Fill(s, k, n).w = s.w /\ Fill(s, k, n).lbfsize = s.lbfsize
<1> DEFINE c == ReadCount(s, k, n)
           x == [s EXCEPT !.p = 0]
           y == Sread(x, c)
           r == Max({c, 0})
           t == Fill(s, k, n)
<1>1. c \in Int /\ c >= -1 /\ c <= n /\ c <= Len(s.disk) - s.fdpos
  BY ReadCountFacts DEF FileOK
<1> HIDE DEF c
<1>2. /\ x \in Stream /\ SameMode(s, x) /\ SameUb(s, x) /\ SameFile(s, x)
      /\ x.p = 0 /\ x.w = s.w /\ x.lbfsize = s.lbfsize
  BY DEF Stream, SameMode, SameUb, SameFile
<1> HIDE DEF x
<1>3. FileOK(x) /\ c <= Len(x.disk) - x.fdpos
  BY <1>1, <1>2 DEF FileOK, SameFile
<1>4. /\ y \in Stream /\ FileOK(y) /\ SameMode(x, y) /\ SameUb(x, y) /\ SameCounters(x, y)
      /\ y.disk = x.disk
  BY <1>1, <1>2, <1>3, SreadFacts
<1>5. t = [y EXCEPT !.r = r, !.eof = @ \/ c = 0, !.err = @ \/ c = -1]
  BY DEF Fill, x, c
<1>6. r \in Nat /\ r <= n
  <2>1. 0 \in Int
    OBVIOUS
  <2>2. r = IF c <= 0 THEN 0 ELSE c
    BY <1>1, <2>1, MinMax, Zenon
  <2> HIDE DEF r
  <2> QED
    BY <1>1, <2>2
<1> HIDE DEF y, r, t
<1>7. /\ t \in Stream /\ SameMode(y, t) /\ SameUb(y, t) /\ SameFile(y, t)
      /\ t.p = y.p /\ t.r = r /\ t.w = y.w /\ t.lbfsize = y.lbfsize
  BY <1>4, <1>5, <1>6, ZenonT(60) DEF Stream, SameMode, SameUb, SameFile
<1>8. FileOK(t)
  BY <1>4, <1>7 DEF FileOK, SameFile
<1>9. /\ SameMode(s, t) /\ SameUb(s, t) /\ t.disk = s.disk /\ t.p = 0 /\ t.r <= n
      /\ t.w = s.w /\ t.lbfsize = s.lbfsize
  BY <1>2, <1>4, <1>6, <1>7 DEF SameMode, SameUb, SameFile, SameCounters
<1> QED
  BY <1>7, <1>8, <1>9 DEF t

\* What __srefill leaves of s, given a buffer of n bytes; for fread on an
\* unbuffered stream that is the caller's memory, larger than the stream's.
Refilled(s, t, n) ==
    /\ t \in Stream /\ FileOK(t) /\ ModeOK(t) /\ WriteOK(t)
    /\ t.kind = s.kind /\ t.rw = s.rw /\ (t.wr => s.wr) /\ Len(s.disk) <= Len(t.disk)
    /\ ~t.hasub /\ t.ub = << >> /\ (s.made => t.made)
    /\ ~t.rd => t.r = 0
    /\ t.rd => t.w = 0 /\ t.lbfsize = 0 /\ (t.p + t.r <= Size(t) \/ (t.p = 0 /\ t.r <= n))
    /\ \A m \in Nat : Fits(s, m) => Fits(t, m)

\* A refill of a stream that reads and has nothing pushed back.
LEMMA FillRefills ==
    ASSUME NEW s, Good(s), s.rd, ~s.hasub, NEW k \in Int, k >= -1, NEW n \in Nat
    PROVE  Refilled(s, Fill(Made(s), k, n), n) /\ Fill(Made(s), k, n).made
<1> DEFINE x == Made(s)
           t == Fill(x, k, n)
<1>1. ~s.wr /\ s \in Stream /\ s.w = 0 /\ s.lbfsize = 0 /\ s.ub = << >>
  BY DEF Good, ModeOK, ReadOK
<1>2. Good(x)
  BY <1>1, MadeGood
<1>3. /\ x.made /\ x.kind = s.kind /\ x.rd = s.rd /\ x.wr = s.wr /\ x.rw = s.rw
      /\ SameFile(s, x) /\ SameUb(s, x) /\ x.w = s.w /\ x.lbfsize = s.lbfsize
  BY <1>1, MadeFacts
<1> HIDE DEF x
<1>4. /\ t \in Stream /\ FileOK(t) /\ SameMode(x, t) /\ SameUb(x, t) /\ t.disk = x.disk
      /\ t.p = 0 /\ t.r <= n /\ t.w = x.w /\ t.lbfsize = x.lbfsize
  BY <1>2, FillFacts DEF Good
<1> HIDE DEF t
<1>5. t.rd /\ ~t.wr /\ t.made /\ t.kind = s.kind /\ t.rw = s.rw /\ ~t.hasub /\ t.ub = << >>
      /\ t.w = 0 /\ t.lbfsize = 0 /\ t.disk = s.disk
  BY <1>1, <1>3, <1>4 DEF SameMode, SameUb, SameFile
<1>6. ModeOK(t) /\ WriteOK(t) /\ \A m \in Nat : Fits(t, m)
  BY <1>5 DEF ModeOK, WriteOK, Fits
<1>7. Len(s.disk) <= Len(s.disk)
  BY <1>1 DEF Stream
<1>8. Refilled(s, t, n)
  BY <1>4, <1>5, <1>6, <1>7 DEF Refilled
<1> QED
  BY <1>5, <1>8 DEF t, x

\* __srefill, on all its paths.
LEMMA SrefillFacts ==
    ASSUME NEW s, Good(s), Fits(s, 0), NEW k \in Int, k >= -1, NEW j \in Nat, NEW n \in Nat
    PROVE  Refilled(s, Srefill(s, k, j, n), n)
<1> DEFINE x == [s EXCEPT !.r = 0]
           t == Srefill(s, k, j, n)
<1>1. /\ s \in Stream /\ s.p \in Nat /\ s.r \in Nat /\ s.rd \in BOOLEAN /\ s.rw \in BOOLEAN
      /\ s.eof \in BOOLEAN /\ s.hasub \in BOOLEAN /\ Size(s) \in Nat
      /\ (s.rd => ~s.wr) /\ (s.hasub => s.rd /\ ~s.eof)
  BY Sizes DEF Good, Stream, ModeOK, ReadOK
<1>2. /\ x \in Stream /\ SameMode(s, x) /\ SameFile(s, x) /\ SameUb(s, x)
      /\ x.eof = s.eof /\ x.p = s.p /\ x.r = 0 /\ x.w = s.w /\ x.lbfsize = s.lbfsize
  BY <1>1 DEF Stream, SameMode, SameFile, SameUb
<1>3. t = CASE x.eof -> x
            [] ~x.eof /\ ~x.rd /\ ~x.rw -> [x EXCEPT !.err = TRUE]
            [] ~x.eof /\ ~x.rd /\ x.rw ->
                  IF FlushFails(x, j) THEN Sflush(x, j) ELSE Fill(Made(StartReading(x, j)), k, n)
            [] ~x.eof /\ x.rd ->
                  IF x.hasub /\ x.ur > 0 THEN [FreeUb(x) EXCEPT !.r = x.ur, !.p = x.up]
                  ELSE Fill(Made(FreeUb(x)), k, n)
  BY DEF Srefill
<1> HIDE DEF x, t
<1>4. FileOK(x) /\ ModeOK(x) /\ WriteOK(x) /\ Size(x) = Size(s)
  BY <1>2 DEF Good, FileOK, ModeOK, WriteOK, SameMode, SameFile, Size
<1>5. ASSUME NEW m \in Nat, Fits(s, m) PROVE Fits(x, m)
  BY <1>2, <1>5 DEF Fits, SameMode, SameFile
<1>6. Len(s.disk) <= Len(s.disk)
  BY <1>1 DEF Stream
<1>7. ~s.hasub => Good(x) /\ Refilled(s, x, n)
  <2> SUFFICES ASSUME ~s.hasub PROVE Good(x) /\ Refilled(s, x, n)
    OBVIOUS
  <2>1. x.rd => x.p + x.r <= Size(x) /\ x.w = 0 /\ x.lbfsize = 0
    BY <1>1, <1>2, <1>4 DEF Good, ReadOK, SameMode
  <2>2. ~x.hasub /\ x.ub = << >> /\ Len(x.ub) <= MaxPush
    BY <1>2 DEF Good, ReadOK, SameUb
  <2>3. ReadOK(x)
    BY <1>2, <2>1, <2>2 DEF ReadOK
  <2>4. Good(x)
    BY <1>2, <1>4, <2>3 DEF Good
  <2>5. x.kind = s.kind /\ x.rw = s.rw /\ x.wr = s.wr /\ x.disk = s.disk /\ x.made = s.made
    BY <1>2 DEF SameMode, SameFile
  <2> QED
    BY <1>2, <1>4, <1>5, <1>6, <2>1, <2>2, <2>4, <2>5 DEF Refilled
<1>8. CASE x.eof
  <2>1. t = x
    BY <1>3, <1>8
  <2> QED
    BY <1>1, <1>2, <1>7, <1>8, <2>1 DEF t
<1>9. CASE ~x.eof /\ ~x.rd /\ ~x.rw
  <2>1. t = [x EXCEPT !.err = TRUE]
    BY <1>3, <1>9
  <2>2. Refilled(s, x, n) /\ ~s.hasub
    BY <1>1, <1>2, <1>7, <1>9 DEF SameMode
  <2>3. /\ t \in Stream /\ SameMode(x, t) /\ SameFile(x, t) /\ SameUb(x, t) /\ SameCounters(x, t)
    BY <1>2, <2>1 DEF Stream, SameMode, SameFile, SameUb, SameCounters
  <2>4. FileOK(t) /\ ModeOK(t) /\ WriteOK(t) /\ Size(t) = Size(x)
    BY <1>4, <2>3 DEF FileOK, ModeOK, WriteOK, SameMode, SameFile, SameCounters, Size
  <2>5. ASSUME NEW m \in Nat, Fits(s, m) PROVE Fits(t, m)
    BY <1>5, <2>3, <2>5 DEF Fits, SameMode, SameFile, SameCounters
  <2>6. Refilled(s, t, n)
    BY <2>2, <2>3, <2>4, <2>5 DEF Refilled, SameMode, SameFile, SameUb, SameCounters
  <2> QED
    BY <2>6 DEF t
<1>10. CASE ~x.eof /\ ~x.rd /\ x.rw
  <2>1. Good(x) /\ Fits(x, 0) /\ ~s.hasub
    BY <1>1, <1>2, <1>5, <1>7, <1>10 DEF SameMode
  <2>2. CASE FlushFails(x, j)
    <3>1. t = Sflush(x, j)
      BY <1>3, <1>10, <2>2
    <3>2. /\ Good(t) /\ SameMode(x, t) /\ SameUb(x, t) /\ t.r = x.r /\ Len(x.disk) <= Len(t.disk)
          /\ \A m \in Nat : Fits(x, m) => Fits(t, m)
      BY <2>1, <3>1, SflushFacts, GoodFlushable
    <3>3. ~t.rd /\ t.r = 0 /\ ~t.hasub /\ t.ub = << >> /\ t.kind = s.kind /\ t.rw = s.rw
          /\ t.wr = s.wr /\ t.made = s.made /\ Len(s.disk) <= Len(t.disk)
      BY <1>2, <1>10, <2>1, <3>2 DEF SameMode, SameUb, SameFile, Good, ReadOK
    <3>4. ASSUME NEW m \in Nat, Fits(s, m) PROVE Fits(t, m)
      BY <1>5, <3>2, <3>4
    <3>5. Refilled(s, t, n)
      BY <3>2, <3>3, <3>4 DEF Refilled, Good
    <3> QED
      BY <3>5 DEF t
  <2>3. CASE ~FlushFails(x, j)
    <3> DEFINE y == StartReading(x, j)
    <3>1. t = Fill(Made(y), k, n)
      BY <1>3, <1>10, <2>3
    <3>2. /\ Good(y) /\ y.rd /\ ~y.hasub /\ y.kind = x.kind /\ y.rw = x.rw
          /\ Len(x.disk) <= Len(y.disk)
      BY <1>10, <2>1, StartReadingFacts
    <3> HIDE DEF y
    <3>3. Refilled(y, t, n) /\ t.made
      BY <3>1, <3>2, FillRefills
    <3>4. ~y.wr /\ Len(x.disk) = Len(s.disk) /\ Len(s.disk) \in Nat /\ Len(y.disk) \in Nat
          /\ Len(t.disk) \in Nat
      <4>1. x.disk = s.disk /\ y \in Stream /\ t \in Stream /\ ~y.wr
        BY <1>2, <3>2, <3>3 DEF Good, ModeOK, SameFile, Refilled
      <4>2. \A z \in Stream : Len(z.disk) \in Nat
        BY DEF Stream
      <4> QED
        BY <1>1, <4>1, <4>2
    <3>5. \A m \in Nat : Fits(t, m)
      BY <3>3, <3>4 DEF Refilled, Fits
    <3>6. Refilled(s, t, n)
      BY <1>2, <3>2, <3>3, <3>4, <3>5 DEF Refilled, SameMode
    <3> QED
      BY <3>6 DEF t
  <2> QED
    BY <2>2, <2>3
<1>11. CASE ~x.eof /\ x.rd
  <2> DEFINE y == FreeUb(x)
  <2>1. /\ y \in Stream /\ ~y.hasub /\ y.ub = << >>
        /\ SameMode(x, y) /\ SameFile(x, y) /\ SameCounters(x, y) /\ y.eof = x.eof
    BY <1>2, FreeUbFacts
  <2>2. CASE x.hasub /\ x.ur > 0
    <3>1. t = [y EXCEPT !.r = x.ur, !.p = x.up]
      BY <1>3, <1>11, <2>2
    <3>2. x.ur \in Nat /\ x.up \in Nat /\ x.up + x.ur <= Size(s)
      BY <1>2, <2>2 DEF Stream, Good, ReadOK, SameUb
    <3> HIDE DEF y
    <3>3. /\ t \in Stream /\ SameMode(y, t) /\ SameFile(y, t) /\ SameUb(y, t)
          /\ t.r = x.ur /\ t.p = x.up /\ t.w = y.w /\ t.lbfsize = y.lbfsize
      BY <2>1, <3>1, <3>2 DEF Stream, SameMode, SameFile, SameUb
    <3>4. t.rd /\ ~t.wr /\ t.w = 0 /\ t.lbfsize = 0 /\ ~t.hasub /\ t.ub = << >>
          /\ t.kind = s.kind /\ t.rw = s.rw /\ t.disk = s.disk /\ t.made = s.made
      BY <1>2, <1>4, <1>11, <2>1, <3>3
         DEF SameMode, SameFile, SameUb, SameCounters, Good, ModeOK, ReadOK
    <3>5. FileOK(t)
      BY <1>4, <2>1, <3>3 DEF FileOK, SameFile
    <3>6. ModeOK(t)
      BY <1>4, <2>1, <3>3 DEF ModeOK, SameMode
    <3>7. WriteOK(t) /\ Size(t) = Size(s) /\ \A m \in Nat : Fits(t, m)
      BY <3>4 DEF WriteOK, Size, Fits
    <3>8. t.p + t.r <= Size(t)
      BY <3>2, <3>3, <3>7
    <3>9. Refilled(s, t, n)
      BY <1>6, <3>3, <3>4, <3>5, <3>6, <3>7, <3>8 DEF Refilled
    <3> QED
      BY <3>9 DEF t
  <2>3. CASE ~(x.hasub /\ x.ur > 0)
    <3>1. t = Fill(Made(y), k, n)
      BY <1>3, <1>11, <2>3
    <3> HIDE DEF y
    <3>2. y.rd /\ ~y.wr /\ y.w = 0 /\ y.lbfsize = 0 /\ y.kind = s.kind /\ y.rw = s.rw
          /\ y.disk = s.disk /\ y.r = 0 /\ y.p = s.p
      BY <1>2, <1>4, <1>11, <2>1
         DEF SameMode, SameFile, SameCounters, Good, ModeOK, ReadOK
    <3>3. s.p <= Size(s)
      BY <1>1, <1>2, <1>11 DEF Good, ReadOK, SameMode
    <3>4. FileOK(y) /\ ModeOK(y) /\ WriteOK(y) /\ Size(y) = Size(s)
      BY <1>4, <2>1, <3>2 DEF FileOK, ModeOK, WriteOK, SameFile, SameMode, Size
    <3>5. ReadOK(y)
      <4>1. Len(<< >>) = 0 /\ 0 <= MaxPush
        BY Sizes
      <4>2. y.p + y.r <= Size(y)
        BY <1>1, <3>2, <3>3, <3>4
      <4> QED
        BY <2>1, <3>2, <4>1, <4>2 DEF ReadOK
    <3>6. Refilled(y, t, n) /\ t.made
      BY <2>1, <3>1, <3>2, <3>4, <3>5, FillRefills DEF Good
    <3>7. Refilled(s, t, n)
      BY <3>2, <3>6 DEF Refilled, Fits
    <3> QED
      BY <3>7 DEF t
  <2> QED
    BY <2>2, <2>3
<1> QED
  BY <1>1, <1>2, <1>8, <1>9, <1>10, <1>11 DEF SameMode

\* A stream refilled into its own buffer is good.
LEMMA RefilledGood ==
    ASSUME NEW s \in Stream, NEW t, NEW n \in Nat, Refilled(s, t, n), n <= Size(s)
    PROVE  Good(t)
<1>1. t \in Stream /\ t.p \in Nat /\ t.r \in Nat /\ Size(t) \in Nat /\ Size(t) = Size(s)
  BY Sizes DEF Refilled, Stream, Size
<1>2. t.rd => t.p + t.r <= Size(t)
  <2>1. t.p = 0 /\ t.r <= n => t.p + t.r <= Size(t)
    BY <1>1
  <2> QED
    BY <2>1 DEF Refilled
<1>3. Len(<< >>) = 0 /\ 0 <= MaxPush
  BY Sizes
<1>4. ReadOK(t)
  BY <1>2, <1>3 DEF ReadOK, Refilled
<1> QED
  BY <1>4 DEF Good, Refilled

\* fread takes all that it has read into the caller's memory.
Emptied(t, b) == [t EXCEPT !.p = 0, !.r = 0, !.buf = b]

\* It leaves a good unbuffered stream.
LEMMA EmptiedGood ==
    ASSUME NEW s \in Stream, NEW t, NEW n \in Nat, Refilled(s, t, n), s.kind = "none",
           s.made, NEW b \in [1..BufSize -> Bytes]
    PROVE  /\ Good(Emptied(t, b)) /\ Emptied(t, b).rw = s.rw /\ Emptied(t, b).r = 0
           /\ ~Emptied(t, b).hasub /\ Emptied(t, b).made /\ Emptied(t, b).kind = "none"
           /\ \A m \in Nat : Fits(s, m) => Fits(Emptied(t, b), m)
<1> DEFINE u == Emptied(t, b)
<1>1. /\ u \in Stream /\ SameMode(t, u) /\ SameFile(t, u) /\ SameUb(t, u)
      /\ u.p = 0 /\ u.r = 0 /\ u.w = t.w /\ u.lbfsize = t.lbfsize
  <2>1. u \in Stream
    BY DEF Refilled, Stream, Emptied
  <2> QED
    BY <2>1 DEF Refilled, Stream, SameMode, SameFile, SameUb, Emptied
<1> HIDE DEF u
<1>2. /\ t \in Stream /\ t.p \in Nat /\ t.fdpos \in Nat /\ t.kind = "none" /\ t.made
      /\ t.rw = s.rw /\ ~t.hasub /\ t.ub = << >>
      /\ (t.rd => t.w = 0 /\ t.lbfsize = 0) /\ (t.wr => t.p = 0 /\ t.w = 0 /\ t.lbfsize = 0)
      /\ (~t.rd /\ ~t.wr => t.w = 0 /\ t.lbfsize = 0)
  BY DEF Refilled, Stream, ModeOK, WriteOK
<1>3. FileOK(u) /\ ModeOK(u)
  BY <1>1 DEF Refilled, FileOK, ModeOK, SameFile, SameMode
<1>4. 0 <= BufSize /\ Len(<< >>) = 0 /\ 0 <= MaxPush /\ Size(u) \in Nat /\ 0 + 0 <= Size(u)
  BY <1>1, Sizes
<1>5. WriteOK(u)
  BY <1>1, <1>2, <1>4 DEF WriteOK, SameMode
<1>6. ReadOK(u)
  BY <1>1, <1>2, <1>4 DEF ReadOK, SameMode, SameUb
<1>7. ASSUME NEW m \in Nat, Fits(s, m) PROVE Fits(u, m)
  <2>1. Fits(t, m)
    BY <1>7 DEF Refilled
  <2> QED
    BY <1>1, <1>2, <2>1 DEF Fits, SameMode, SameFile
<1> QED
  BY <1>1, <1>2, <1>3, <1>5, <1>6, <1>7 DEF Good, SameMode, SameUb, u

\* Bytes are taken from the buffer or from the ungetc buffer.
LEMMA TakenGood ==
    ASSUME NEW s, Good(s), NEW n \in Nat, n <= s.r, s.rd
    PROVE  Good(Taken(s, n)) /\ SameMode(s, Taken(s, n))
<1> DEFINE t == Taken(s, n)
<1>0. s \in Stream /\ ModeOK(s) /\ ReadOK(s)
  BY DEF Good
<1>a. s.p \in Nat /\ s.r \in Nat /\ s.ub \in Seq(Bytes)
  BY <1>0 DEF Stream
<1>b. ~s.wr /\ s.w = 0 /\ s.lbfsize = 0
  BY <1>0 DEF ModeOK, ReadOK
<1>1. /\ s \in Stream /\ s.p \in Nat /\ s.r \in Nat /\ s.r - n \in Nat /\ s.p + n \in Nat
      /\ s.ub \in Seq(Bytes) /\ Size(s) \in Nat /\ ~s.wr /\ s.w = 0 /\ s.lbfsize = 0
  BY <1>0, <1>a, <1>b, Sizes
<1>2. CASE s.hasub
  <2> DEFINE b == SubSeq(s.ub, n + 1, Len(s.ub))
  <2>0. /\ s.p = 0 /\ s.r = Len(s.ub) /\ s.r <= s.ubsize /\ s.ubsize > 0 /\ s.ubsize \in Nat
        /\ s.up + s.ur <= Size(s) /\ ~s.eof /\ Len(s.ub) <= MaxPush
    BY <1>2 DEF Good, ReadOK, Stream
  <2>1. n + 1 \in Nat /\ 0 < n + 1 /\ Len(s.ub) \in Nat /\ Len(s.ub) <= Len(s.ub)
    BY <1>1, <2>0
  <2>2. b \in Seq(Bytes) /\ Len(b) = IF n + 1 <= Len(s.ub) THEN Len(s.ub) - (n + 1) + 1 ELSE 0
    BY <1>1, <2>1, Part, Zenon
  <2>3. t = [s EXCEPT !.ub = b, !.r = s.r - n]
    BY <1>2 DEF Taken
  <2> HIDE DEF b, t
  <2>4. Len(b) = s.r - n
    BY <1>1, <2>0, <2>2
  <2>5. t \in Stream
    BY <1>1, <2>2, <2>3 DEF Stream
  <2>6. /\ SameMode(s, t) /\ SameFile(s, t) /\ t.hasub /\ t.ub = b /\ t.ubsize = s.ubsize
        /\ t.up = s.up /\ t.ur = s.ur /\ t.eof = s.eof
        /\ t.r = s.r - n /\ t.p = s.p /\ t.w = s.w /\ t.lbfsize = s.lbfsize
    BY <1>1, <1>2, <2>3 DEF Stream, SameMode, SameFile
  <2>7. FileOK(t) /\ ModeOK(t) /\ WriteOK(t)
    BY <2>6 DEF Good, FileOK, ModeOK, WriteOK, SameMode, SameFile
  <2>8. Size(t) = Size(s) /\ t.r <= t.ubsize /\ Len(t.ub) <= MaxPush /\ t.r = Len(t.ub)
    BY <1>1, <2>0, <2>4, <2>6, Sizes DEF SameMode, Size
  <2>9. ReadOK(t)
    BY <1>1, <2>0, <2>6, <2>8 DEF ReadOK, SameMode
  <2> QED
    BY <2>5, <2>6, <2>7, <2>9 DEF Good, t
<1>3. CASE ~s.hasub
  <2>1. t = [s EXCEPT !.p = s.p + n, !.r = s.r - n]
    BY <1>3 DEF Taken
  <2> HIDE DEF t
  <2>2. t \in Stream
    BY <1>1, <2>1 DEF Stream
  <2>3. /\ SameMode(s, t) /\ SameFile(s, t) /\ SameUb(s, t)
        /\ t.r = s.r - n /\ t.p = s.p + n /\ t.w = s.w /\ t.lbfsize = s.lbfsize
    BY <1>1, <2>1 DEF Stream, SameMode, SameFile, SameUb
  <2>4. FileOK(t) /\ ModeOK(t) /\ Size(t) = Size(s)
    BY <2>3 DEF Good, FileOK, ModeOK, SameMode, SameFile, Size
  <2>5. s.p + s.r <= Size(s) /\ t.p + t.r = s.p + s.r
    BY <1>1, <1>3, <2>3 DEF Good, ReadOK
  <2>6. ReadOK(t)
    BY <1>1, <1>3, <2>3, <2>4, <2>5 DEF Good, ReadOK, SameMode, SameUb
  <2>7. WriteOK(t)
    BY <1>1, <2>3 DEF WriteOK, SameMode
  <2> QED
    BY <2>2, <2>3, <2>4, <2>6, <2>7 DEF Good, t
<1> QED
  BY <1>2, <1>3, <1>1 DEF Stream

\* ungetc: by backing up, into the ungetc buffer there is, or into a new one;
\* __submore makes it larger before it overflows.
LEMMA PushedGood ==
    ASSUME NEW s, Good(s), s.rd, NEW c \in Bytes, Len(s.ub) < MaxPush
    PROVE  Good(Pushed(s, c)) /\ SameMode(s, Pushed(s, c))
<1> DEFINE t == Pushed(s, c)
<1>1. /\ s \in Stream /\ s.p \in Nat /\ s.r \in Nat /\ s.ub \in Seq(Bytes) /\ Len(s.ub) \in Nat
      /\ Size(s) \in Nat /\ ~s.wr /\ s.w = 0 /\ s.lbfsize = 0 /\ s.ubsize \in Nat
      /\ s.hasub \in BOOLEAN /\ s.r + 1 \in Nat
  BY Sizes DEF Good, Stream, ModeOK, ReadOK
<1>2. << c >> \in Seq(Bytes) /\ Len(<< c >>) = 1
  OBVIOUS
\* Whatever ungetc does, the file, the mode and what concerns writing stay.
<1>3. ASSUME t \in Stream, SameMode(s, t), SameFile(s, t), t.w = s.w,
             t.lbfsize = s.lbfsize, ReadOK(t)
      PROVE  Good(t) /\ SameMode(s, t)
  <2> HIDE DEF t
  <2>1. FileOK(t) /\ ModeOK(t)
    BY <1>3 DEF Good, FileOK, ModeOK, SameMode, SameFile
  <2>2. WriteOK(t)
    BY <1>1, <1>3 DEF WriteOK, SameMode
  <2> QED
    BY <1>3, <2>1, <2>2 DEF Good
<1>4. CASE s.hasub
  <2> DEFINE one == << c >>
             b == one \o s.ub
             z == IF s.r < s.ubsize THEN s.ubsize
                  ELSE IF s.ubsize = UbufSize THEN BigUb ELSE 2 * s.ubsize
  <2>1. t = [s EXCEPT !.ub = b, !.r = s.r + 1, !.ubsize = z]
    BY <1>4 DEF Pushed
  <2>2. b \in Seq(Bytes) /\ Len(b) = 1 + Len(s.ub)
    <3>1. one \in Seq(Bytes) /\ Len(one) = 1
      BY <1>2
    <3> DEFINE x == s.ub
    <3>2. one \in Seq(Bytes) /\ x \in Seq(Bytes)
      BY <1>1, <3>1
    <3> HIDE DEF one, x
    <3> DEFINE ox == one \o x
    <3>3. ox \in Seq(Bytes) /\ Len(ox) = Len(one) + Len(x)
      BY <3>2, ConcatProperties, Zenon
    <3> QED
      BY <3>1, <3>3 DEF x
  <2>3. s.p = 0 /\ s.r = Len(s.ub) /\ s.r <= s.ubsize /\ s.ubsize > 0
        /\ s.up + s.ur <= Size(s) /\ ~s.eof
    BY <1>4 DEF Good, ReadOK
  <2>4. z \in Nat /\ z > 0 /\ s.r + 1 <= z
    BY <1>1, <2>3, Sizes
  <2> HIDE DEF t, b, z
  <2>5. t \in Stream
    BY <1>1, <2>1, <2>2, <2>4 DEF Stream
  <2>6. /\ SameMode(s, t) /\ SameFile(s, t) /\ t.w = s.w /\ t.lbfsize = s.lbfsize
        /\ t.hasub /\ t.ub = b /\ t.ubsize = z /\ t.up = s.up /\ t.ur = s.ur /\ t.eof = s.eof
        /\ t.r = s.r + 1 /\ t.p = s.p
    BY <1>1, <1>4, <2>1 DEF Stream, SameMode, SameFile
  <2>7. t.r = Len(t.ub) /\ Len(t.ub) <= MaxPush /\ Size(t) = Size(s)
    BY <1>1, <1>2, <2>2, <2>3, <2>6, Sizes DEF SameMode, Size
  <2>8. ReadOK(t)
    BY <1>1, <2>3, <2>4, <2>6, <2>7 DEF ReadOK, SameMode
  <2> QED
    BY <1>3, <2>5, <2>6, <2>8 DEF t
<1>5. CASE ~s.hasub /\ BackUp(s, c)
  <2>1. t = [s EXCEPT !.eof = FALSE, !.p = s.p - 1, !.r = s.r + 1]
    BY <1>5 DEF Pushed
  <2>2. s.p - 1 \in Nat /\ s.p + s.r <= Size(s)
    BY <1>1, <1>5 DEF BackUp, Good, ReadOK
  <2> HIDE DEF t
  <2>3. t \in Stream
    BY <1>1, <2>1, <2>2 DEF Stream
  <2>4. /\ SameMode(s, t) /\ SameFile(s, t) /\ SameUb(s, t)
        /\ t.w = s.w /\ t.lbfsize = s.lbfsize /\ t.r = s.r + 1 /\ t.p = s.p - 1
    BY <1>1, <2>1 DEF Stream, SameMode, SameFile, SameUb
  <2>5. t.p + t.r <= Size(t)
    BY <1>1, <2>2, <2>4 DEF SameMode, Size
  <2>6. ReadOK(t)
    BY <1>1, <1>5, <2>4, <2>5 DEF Good, ReadOK, SameMode, SameUb
  <2> QED
    BY <1>3, <2>3, <2>4, <2>6 DEF t
<1>6. CASE ~s.hasub /\ ~BackUp(s, c)
  <2>1. t = [s EXCEPT !.eof = FALSE, !.ur = s.r, !.up = s.p, !.hasub = TRUE, !.ub = << c >>,
                      !.ubsize = UbufSize, !.r = 1, !.p = 0]
    BY <1>6 DEF Pushed
  <2>2. s.p + s.r <= Size(s)
    BY <1>6 DEF Good, ReadOK
  <2> HIDE DEF t
  <2>3. t \in Stream
    BY <1>1, <1>2, <2>1, Sizes DEF Stream
  <2>4. /\ SameMode(s, t) /\ SameFile(s, t) /\ t.w = s.w /\ t.lbfsize = s.lbfsize
        /\ t.hasub /\ t.ub = << c >> /\ t.ubsize = UbufSize /\ t.up = s.p /\ t.ur = s.r /\ ~t.eof
        /\ t.r = 1 /\ t.p = 0
    BY <1>1, <2>1 DEF Stream, SameMode, SameFile
  <2>5. 1 <= UbufSize /\ UbufSize > 0 /\ 1 <= MaxPush
    BY <1>1, Sizes
  <2>6. Size(t) = Size(s)
    BY <2>4 DEF SameMode, Size
  <2>7. ReadOK(t)
    BY <1>1, <1>2, <2>2, <2>4, <2>5, <2>6 DEF ReadOK, SameMode
  <2> QED
    BY <1>3, <2>3, <2>4, <2>7 DEF t
<1> QED
  BY <1>1, <1>4, <1>5, <1>6

\* __swsetup: a stream that may be written and has nothing to read is set up for
\* writing, at the position it is at.
LEMMA SwsetupFacts ==
    ASSUME NEW s, Flushable(s), ~CantWrite(s), ~(s.wr /\ s.made), s.rd => s.r = 0 /\ ~s.hasub
    PROVE  /\ Good(Swsetup(s)) /\ Swsetup(s).wr /\ Swsetup(s).made /\ Swsetup(s).p = 0
           /\ Swsetup(s).fdpos = s.fdpos /\ Swsetup(s).kind = s.kind /\ Swsetup(s).rw = s.rw
<1> DEFINE a == IF s.wr THEN s
                ELSE IF s.rd THEN [FreeUb(s) EXCEPT !.rd = FALSE, !.eof = FALSE, !.r = 0,
                                                    !.p = 0, !.wr = TRUE]
                ELSE [s EXCEPT !.wr = TRUE]
           t == Swsetup(s)
           w0 == IF s.kind = "full" THEN BufSize ELSE 0
<1>1. /\ s \in Stream /\ s.wr \in BOOLEAN /\ s.rd \in BOOLEAN /\ s.made \in BOOLEAN
      /\ s.p \in Nat /\ s.kind \in {"full", "line", "none"}
      /\ BufSize \in Nat /\ 0 < BufSize /\ w0 \in Int /\ -BufSize \in Int
  BY Sizes DEF Flushable, Stream
<1>2. /\ a \in Stream /\ a.wr /\ ~a.rd /\ a.rw = s.rw /\ a.made = s.made /\ a.kind = s.kind
      /\ SameFile(s, a) /\ a.p = 0 /\ a.r = 0 /\ a.lbfsize = 0 /\ ~a.hasub /\ a.ub = << >>
  <2>1. CASE s.wr
    BY <1>1, <2>1 DEF Flushable, ModeOK, ReadOK, SameFile
  <2>2. CASE ~s.wr /\ s.rd
    <3> DEFINE y == FreeUb(s)
    <3>1. /\ y \in Stream /\ ~y.hasub /\ y.ub = << >> /\ SameMode(s, y) /\ SameFile(s, y)
          /\ SameCounters(s, y)
      BY <1>1, FreeUbFacts
    <3>2. a = [y EXCEPT !.rd = FALSE, !.eof = FALSE, !.r = 0, !.p = 0, !.wr = TRUE]
      BY <2>2
    <3> HIDE DEF a, y
    <3>3. /\ a \in Stream /\ a.wr /\ ~a.rd /\ a.rw = y.rw /\ a.made = y.made /\ a.kind = y.kind
          /\ SameFile(y, a) /\ SameUb(y, a) /\ a.p = 0 /\ a.r = 0 /\ a.lbfsize = y.lbfsize
      BY <3>1, <3>2 DEF Stream, SameFile, SameUb
    <3> QED
      BY <2>2, <3>1, <3>3 DEF Flushable, ReadOK, SameMode, SameFile, SameUb, SameCounters
  <2>3. CASE ~s.wr /\ ~s.rd
    <3>1. a = [s EXCEPT !.wr = TRUE]
      BY <2>3
    <3> HIDE DEF a
    <3>2. /\ a \in Stream /\ a.wr /\ a.rd = s.rd /\ a.rw = s.rw /\ a.made = s.made /\ a.kind = s.kind
          /\ SameFile(s, a) /\ SameUb(s, a) /\ SameCounters(s, a)
      BY <1>1, <3>1 DEF Stream, SameFile, SameUb, SameCounters
    <3> QED
      BY <2>3, <3>2 DEF Flushable, ReadOK, SameUb, SameCounters
  <2> QED
    BY <1>1, <2>1, <2>2, <2>3
<1> DEFINE m == Made(a)
           l0 == IF s.kind = "line" THEN -BufSize ELSE m.lbfsize
<1>3. t = [m EXCEPT !.w = w0, !.lbfsize = l0]
  BY DEF Swsetup
<1> HIDE DEF a, w0, t
<1>4. /\ m \in Stream /\ m.made /\ m.kind = a.kind /\ m.rd = a.rd /\ m.wr = a.wr /\ m.rw = a.rw
      /\ SameFile(a, m) /\ SameUb(a, m) /\ m.r = a.r /\ m.lbfsize = a.lbfsize
      /\ m.p = IF a.made THEN a.p ELSE 0
  BY <1>2, MadeFacts
<1> HIDE DEF m
<1>5. l0 \in Int /\ (s.kind = "line" => l0 = -BufSize) /\ (s.kind # "line" => l0 = 0)
  BY <1>1, <1>2, <1>4
<1> HIDE DEF l0
<1>6. /\ t \in Stream /\ SameMode(m, t) /\ SameFile(m, t) /\ SameUb(m, t)
      /\ t.p = m.p /\ t.r = m.r /\ t.w = w0 /\ t.lbfsize = l0
  BY <1>1, <1>3, <1>4, <1>5 DEF Stream, SameMode, SameFile, SameUb
<1>7. /\ t.wr /\ t.made /\ ~t.rd /\ t.rw = s.rw /\ t.kind = s.kind /\ t.p = 0 /\ t.r = 0
      /\ ~t.hasub /\ t.ub = << >> /\ SameFile(s, t)
  BY <1>2, <1>4, <1>6 DEF SameMode, SameFile, SameUb
<1>8. FileOK(t) /\ ModeOK(t)
  BY <1>7 DEF Flushable, FileOK, ModeOK, SameFile
<1>9. ReadOK(t)
  <2>1. Len(<< >>) = 0 /\ 0 <= MaxPush
    BY Sizes
  <2> QED
    BY <1>7, <2>1 DEF ReadOK
<1>10. WriteOK(t)
  <2>1. (s.kind = "full" => t.w = BufSize) /\ (s.kind # "full" => t.w = 0)
    BY <1>6 DEF w0
  <2>2. BufSize - 0 = BufSize /\ 0 + 0 = 0 /\ 0 <= BufSize
    BY <1>1
  <2> QED
    BY <1>1, <1>5, <1>6, <1>7, <2>1, <2>2 DEF WriteOK
<1> QED
  BY <1>6, <1>7, <1>8, <1>9, <1>10 DEF Good, SameFile, t

\* Bytes put into the buffer.
LEMMA StoreFacts ==
    ASSUME NEW s \in Stream, NEW b \in Seq(Bytes)
    PROVE  /\ Store(s, b) \in Stream
           /\ SameMode(s, Store(s, b)) /\ SameFile(s, Store(s, b)) /\ SameUb(s, Store(s, b))
           /\ Store(s, b).eof = s.eof /\ Store(s, b).r = s.r
           /\ Store(s, b).lbfsize = s.lbfsize
           /\ Store(s, b).p = s.p + Len(b) /\ Store(s, b).w = s.w - Len(b)
<1> DEFINE t == Store(s, b)
           c == [i \in DOMAIN s.buf |-> IF i \in (s.p + 1)..(s.p + Len(b)) THEN b[i - s.p]
                                        ELSE s.buf[i]]
<1>1. /\ s.buf \in [1..BufSize -> Bytes] /\ s.p \in Nat /\ Len(b) \in Nat /\ s.w \in Int
      /\ s.p + Len(b) \in Nat /\ s.w - Len(b) \in Int
  BY DEF Stream
<1>2. c \in [1..BufSize -> Bytes]
  <2>1. ASSUME NEW i \in (s.p + 1)..(s.p + Len(b)) PROVE b[i - s.p] \in Bytes
    <3>1. i - s.p \in 1..Len(b)
      BY <1>1
    <3> QED
      BY <3>1
  <2>2. DOMAIN s.buf = 1..BufSize
    BY <1>1
  <2> QED
    BY <1>1, <2>1, <2>2
<1>3. t = [s EXCEPT !.buf = c, !.p = s.p + Len(b), !.w = s.w - Len(b)]
  BY DEF Store
<1> HIDE DEF c, t
<1>4. t \in Stream
  BY <1>1, <1>2, <1>3 DEF Stream
<1>5. /\ SameMode(s, t) /\ SameFile(s, t) /\ SameUb(s, t) /\ t.eof = s.eof /\ t.r = s.r
      /\ t.lbfsize = s.lbfsize /\ t.p = s.p + Len(b) /\ t.w = s.w - Len(b)
  BY <1>3 DEF Stream, SameMode, SameFile, SameUb
<1> QED
  BY <1>4, <1>5 DEF t

\* A stream that is written can be flushed after any bytes that fit.
LEMMA StoreFlushable ==
    ASSUME NEW s, Flushable(s), s.wr, s.made, NEW b \in Seq(Bytes), s.p + Len(b) <= BufSize
    PROVE  /\ Flushable(Store(s, b))
           /\ \A m \in Nat : Fits(s, m) /\ Len(b) <= m => Fits(Store(s, b), m - Len(b))
<1> DEFINE t == Store(s, b)
<1>1. /\ s \in Stream /\ s.p \in Nat /\ s.fdpos \in Nat /\ MaxLen \in Nat /\ Len(b) \in Nat
      /\ ~s.rd /\ s.r = 0 /\ ~s.hasub
  BY Sizes DEF Flushable, Stream, ModeOK, ReadOK
<1>2. /\ t \in Stream /\ SameMode(s, t) /\ SameFile(s, t) /\ SameUb(s, t) /\ t.r = s.r
      /\ t.lbfsize = s.lbfsize /\ t.p = s.p + Len(b)
  BY <1>1, StoreFacts
<1> HIDE DEF t
<1>3. FileOK(t) /\ ModeOK(t) /\ ReadOK(t)
  BY <1>1, <1>2 DEF Flushable, FileOK, ModeOK, ReadOK, SameMode, SameFile, SameUb
<1>4. Flushable(t)
  BY <1>2, <1>3 DEF Flushable, SameMode
<1>5. ASSUME NEW m \in Nat, Fits(s, m), Len(b) <= m PROVE Fits(t, m - Len(b))
  <2>1. s.fdpos + s.p + m <= MaxLen
    BY <1>5 DEF Fits
  <2>2. t.fdpos = s.fdpos
    BY <1>2 DEF SameFile
  <2> QED
    BY <1>1, <1>2, <1>5, <2>1, <2>2 DEF Fits
<1> QED
  BY <1>4, <1>5 DEF t

\* The counters are right after bytes that fit were put into a buffered stream.
LEMMA StoreGood ==
    ASSUME NEW s, s.wr, s.made, s.kind # "none", NEW b \in Seq(Bytes), s.p + Len(b) <= BufSize,
           \/ Good(s)
           \/ Flushable(s) /\ s.kind = "line" /\ s.w = 0 /\ s.lbfsize = 0 /\ Len(b) > 0
    PROVE  Good(Store(s, b))
<1> DEFINE t == Store(s, b)
<1>0. Flushable(s)
  BY GoodFlushable
<1>1. Flushable(t)
  BY <1>0, StoreFlushable
<1>2. s \in Stream /\ s.p \in Nat /\ s.w \in Int /\ BufSize \in Nat /\ Len(b) \in Nat
  BY <1>0, Sizes DEF Flushable, Stream
<1>3. /\ SameMode(s, t) /\ t.lbfsize = s.lbfsize /\ t.p = s.p + Len(b) /\ t.w = s.w - Len(b)
  BY <1>2, StoreFacts
<1> HIDE DEF t
<1>4. s.kind = "full" => s.w = BufSize - s.p /\ s.lbfsize = 0
  BY DEF Good, WriteOK
<1>5. s.kind = "line" => \/ s.w + s.p = 0 /\ s.lbfsize = -BufSize
                         \/ /\ s.w <= 0 /\ s.w + s.p >= 0 /\ (s.p > 0 => s.w < 0 \/ Len(b) > 0)
                            /\ s.lbfsize = 0
  BY <1>2 DEF Good, WriteOK
<1>6. /\ s.kind = "full" => t.w = BufSize - t.p
      /\ s.kind = "line" => \/ t.w + t.p = 0 /\ s.lbfsize = -BufSize
                            \/ /\ t.w <= 0 /\ t.w + t.p >= 0 /\ (t.p > 0 => t.w < 0)
                               /\ s.lbfsize = 0
  <2>1. /\ t.w + t.p = s.w + s.p /\ (s.w <= 0 => t.w <= 0)
        /\ s.w <= 0 /\ (s.p > 0 => s.w < 0 \/ Len(b) > 0) => (t.p > 0 => t.w < 0)
    BY <1>2, <1>3
  <2> QED
    BY <1>2, <1>3, <1>4, <1>5, <2>1
<1>7. t.kind = s.kind /\ t.wr /\ t.made /\ ~t.rd /\ t.p <= BufSize
  BY <1>0, <1>3 DEF SameMode, Flushable, ModeOK
<1>8. WriteOK(t)
  BY <1>3, <1>4, <1>5, <1>6, <1>7 DEF WriteOK
<1> QED
  BY <1>1, <1>8 DEF Flushable, Good, t

\* fseeko without optimisation.
LEMMA DumbFacts ==
    ASSUME NEW s, Flushable(s), Fits(s, 0), NEW j \in Nat, NEW n \in Nat,
           n <= Len(Sflush(s, j).disk)
    PROVE  /\ Good(Dumb(s, j, n)) /\ SameMode(s, Dumb(s, j, n))
           /\ Dumb(s, j, n).r = 0 /\ ~Dumb(s, j, n).hasub /\ Fits(Dumb(s, j, n), 0)
<1> DEFINE x == Sflush(s, j)
           y == Sseek(x, n)
           z == FreeUb(y)
           t == Dumb(s, j, n)
<1>1. Good(x) /\ SameMode(s, x) /\ (s.wr => x.p = 0)
  BY SflushFacts
<1>2. /\ y \in Stream /\ y.disk = x.disk /\ y.fdpos = n /\ y.soff /\ y.offset = n
      /\ SameMode(x, y) /\ SameCounters(x, y)
  BY <1>1, SseekFacts DEF Good
<1> HIDE DEF x
<1>3. /\ z \in Stream /\ ~z.hasub /\ z.ub = << >>
      /\ SameMode(y, z) /\ SameFile(y, z) /\ SameCounters(y, z)
  BY <1>2, FreeUbFacts
<1>4. t = [z EXCEPT !.p = 0, !.r = 0, !.eof = FALSE]
  BY DEF Dumb, x
<1> HIDE DEF y, z, t
<1>5. /\ t \in Stream /\ SameMode(z, t) /\ SameFile(z, t) /\ SameUb(z, t)
      /\ t.p = 0 /\ t.r = 0 /\ t.w = z.w /\ t.lbfsize = z.lbfsize
  BY <1>3, <1>4 DEF Stream, SameMode, SameFile, SameUb
<1>6. SameMode(x, t) /\ SameMode(s, t)
  BY <1>1, <1>2, <1>3, <1>5 DEF SameMode
<1>7. t.disk = x.disk /\ t.fdpos = n /\ t.soff /\ t.offset = n
  BY <1>2, <1>3, <1>5 DEF SameFile
<1>8. ~t.hasub /\ t.ub = << >> /\ t.w = x.w /\ t.lbfsize = x.lbfsize
  BY <1>2, <1>3, <1>5 DEF SameUb, SameCounters
<1>9. FileOK(t) /\ ModeOK(t)
  <2>1. n <= Len(x.disk)
    BY DEF x
  <2> QED
    BY <1>1, <1>6, <1>7, <2>1 DEF Good, FileOK, ModeOK, SameMode
<1>10. ReadOK(t)
  <2>1. Len(<< >>) = 0 /\ 0 <= MaxPush /\ Size(t) \in Nat /\ 0 + 0 <= Size(t)
    BY <1>5, Sizes
  <2> QED
    BY <1>1, <1>5, <1>6, <1>8, <2>1 DEF Good, ReadOK, SameMode
<1>11. WriteOK(t)
  BY <1>1, <1>5, <1>6, <1>8 DEF Good, WriteOK, SameMode
<1>12. Fits(t, 0)
  <2>1. n <= MaxLen /\ MaxLen \in Nat
    BY <1>1, Sizes DEF x, Good, FileOK, Stream
  <2>2. n + 0 + 0 <= MaxLen
    BY <2>1
  <2> QED
    BY <1>5, <1>7, <2>2 DEF Fits
<1> QED
  BY <1>5, <1>6, <1>8, <1>9, <1>10, <1>11, <1>12 DEF Good, t

\* fseeko inside the buffer, to a block boundary, or into a block.
LEMMA OptimisedGood ==
    ASSUME NEW s, Good(s), CanOptimise(s), s.made, NEW k \in Int, k >= -1, NEW n \in Nat,
           n <= Len(s.disk)
    PROVE  Good(Optimised(s, k, n)) /\ ~Optimised(s, k, n).rw /\ ~Optimised(s, k, n).wr
<1> DEFINE o == n - BufStart(s)
           block == n - (n % BlkSize)
           u == FreeUb(s)
           v == FreeUb(Sseek(s, block))
           at == [v EXCEPT !.p = 0, !.r = 0, !.eof = FALSE]
           filled == Srefill(at, k, 0, BufSize)
           t == Optimised(s, k, n)
<1>1. /\ s \in Stream /\ s.rd /\ ~s.wr /\ ~s.rw /\ s.kind # "none" /\ s.w = 0 /\ s.lbfsize = 0
      /\ s.p \in Nat /\ s.r \in Nat /\ s.up \in Nat /\ s.ur \in Nat /\ s.offset \in Nat
      /\ Size(s) = BufSize /\ BufSize \in Nat /\ 0 < BufSize /\ Len(s.disk) \in Nat
      /\ BlkSize \in Nat /\ 0 < BlkSize
  BY Sizes DEF Good, CanOptimise, Stream, ModeOK, ReadOK, Size
<1>2. BufCount(s) \in Nat /\ BufCount(s) <= BufSize /\ BufStart(s) \in Int /\ o \in Int
  <2>1. CASE s.hasub
    <3>1. s.up + s.ur <= BufSize
      BY <1>1, <2>1 DEF Good, ReadOK
    <3>2. BufCount(s) = s.up + s.ur /\ BufStart(s) = s.offset - (s.up + s.ur)
      BY <2>1 DEF BufCount, BufStart
    <3> QED
      BY <1>1, <3>1, <3>2
  <2>2. CASE ~s.hasub
    <3>1. s.p + s.r <= BufSize
      BY <1>1, <2>2 DEF Good, ReadOK
    <3>2. BufCount(s) = s.p + s.r /\ BufStart(s) = s.offset - (s.p + s.r)
      BY <2>2 DEF BufCount, BufStart
    <3> QED
      BY <1>1, <3>1, <3>2, SMTT(60)
  <2> QED
    BY <2>1, <2>2
<1>3. block \in Nat /\ block <= n
  <2>1. n % BlkSize \in Nat /\ n % BlkSize <= n
    BY <1>1
  <2> QED
    BY <2>1
<1> HIDE DEF o, block
<1>4. t = IF o >= 0 /\ o < BufCount(s)
          THEN [u EXCEPT !.p = o, !.r = BufCount(s) - o, !.eof = FALSE]
          ELSE IF n = block THEN at
          ELSE IF filled.r < n - block THEN Dumb(filled, 0, n)
          ELSE [filled EXCEPT !.p = n - block, !.r = @ - (n - block)]
  BY DEF Optimised, o, block
\* A stream with the file and the mode of s, or another position in its file.
<1>5. ASSUME NEW x \in Stream, SameMode(s, x), FileOK(x), ~x.hasub, x.ub = << >>,
             x.w = 0, x.lbfsize = 0, x.p + x.r <= BufSize
      PROVE  Good(x) /\ ~x.rw /\ ~x.wr
  <2>1. ModeOK(x) /\ WriteOK(x) /\ Size(x) = BufSize
    BY <1>1, <1>5 DEF Good, ModeOK, WriteOK, SameMode, Size
  <2>2. Len(<< >>) = 0 /\ 0 <= MaxPush
    BY Sizes
  <2>3. ReadOK(x)
    BY <1>1, <1>5, <2>1, <2>2 DEF ReadOK, SameMode
  <2> QED
    BY <1>1, <1>5, <2>1, <2>3 DEF Good, SameMode
<1>6. CASE o >= 0 /\ o < BufCount(s)
  <2>1. /\ u \in Stream /\ ~u.hasub /\ u.ub = << >> /\ SameMode(s, u) /\ SameFile(s, u)
        /\ SameCounters(s, u)
    BY <1>1, FreeUbFacts
  <2> DEFINE r0 == BufCount(s) - o
  <2>2. t = [u EXCEPT !.p = o, !.r = r0, !.eof = FALSE]
    BY <1>4, <1>6
  <2>3. o \in Nat /\ r0 \in Nat /\ o + r0 <= BufSize
    BY <1>1, <1>2, <1>6
  <2> HIDE DEF u, r0, t
  <2>4. /\ t \in Stream /\ SameMode(u, t) /\ SameFile(u, t) /\ SameUb(u, t)
        /\ t.p = o /\ t.r = r0 /\ t.w = u.w /\ t.lbfsize = u.lbfsize
    BY <2>1, <2>2, <2>3 DEF Stream, SameMode, SameFile, SameUb
  <2>5. SameMode(s, t) /\ ~t.hasub /\ t.ub = << >> /\ t.w = 0 /\ t.lbfsize = 0
    BY <1>1, <2>1, <2>4 DEF SameMode, SameUb, SameCounters
  <2>6. FileOK(t)
    BY <2>1, <2>4 DEF Good, FileOK, SameFile
  <2> QED
    BY <1>5, <2>3, <2>4, <2>5, <2>6 DEF t
<1>7. ASSUME ~(o >= 0 /\ o < BufCount(s)) PROVE Good(t) /\ ~t.rw /\ ~t.wr
  <2> DEFINE y == Sseek(s, block)
  <2>1. /\ y \in Stream /\ y.disk = s.disk /\ y.fdpos = block /\ y.soff /\ y.offset = block
        /\ SameMode(s, y) /\ SameCounters(s, y)
    BY <1>1, <1>3, SseekFacts
  <2> HIDE DEF y
  <2>2. /\ v \in Stream /\ ~v.hasub /\ v.ub = << >>
        /\ SameMode(y, v) /\ SameFile(y, v) /\ SameCounters(y, v)
    BY <2>1, FreeUbFacts DEF y
  <2> HIDE DEF v
  <2>3. /\ at \in Stream /\ SameMode(v, at) /\ SameFile(v, at) /\ SameUb(v, at) /\ ~at.eof
        /\ at.p = 0 /\ at.r = 0 /\ at.w = v.w /\ at.lbfsize = v.lbfsize
    BY <2>2 DEF Stream, SameMode, SameFile, SameUb
  <2> HIDE DEF at
  <2>4. /\ SameMode(s, at) /\ ~at.hasub /\ at.ub = << >> /\ at.w = 0 /\ at.lbfsize = 0
        /\ at.disk = s.disk /\ at.fdpos = block /\ at.soff /\ at.offset = block
    BY <1>1, <2>1, <2>2, <2>3 DEF SameMode, SameFile, SameUb, SameCounters
  <2>5. FileOK(at)
    BY <1>1, <1>3, <2>4 DEF Good, FileOK
  <2>6. Good(at) /\ ~at.rw /\ ~at.wr
    <3>1. at.p + at.r <= BufSize
      BY <1>1, <2>3
    <3> QED
      BY <1>5, <2>3, <2>4, <2>5, <3>1
  <2>7. Refilled(at, filled, BufSize)
    BY <1>1, <2>6, SrefillFacts DEF Fits
  <2> HIDE DEF filled
  <2>8. Size(at) = BufSize /\ at.kind # "none"
    BY <1>1, <2>4 DEF Size, SameMode
  <2>9. Good(filled) /\ ~filled.rw /\ ~filled.wr /\ Len(s.disk) <= Len(filled.disk) /\ ~filled.hasub
        /\ filled.ub = << >> /\ filled.kind = s.kind /\ filled.rd
    <3>1. Good(filled)
      BY <1>1, <2>3, <2>7, <2>8, RefilledGood
    <3>2. ~filled.rw /\ ~filled.wr /\ Len(s.disk) <= Len(filled.disk) /\ ~filled.hasub
          /\ filled.ub = << >> /\ filled.kind = s.kind
      BY <2>4, <2>6, <2>7 DEF Refilled, SameMode
    <3> QED
      BY <3>1, <3>2 DEF Good, ModeOK
  <2>10. CASE n = block
    <3>1. t = at
      BY <1>4, <1>7, <2>10
    <3> QED
      BY <2>6, <3>1
  <2>11. CASE n # block /\ filled.r < n - block
    <3>1. t = Dumb(filled, 0, n)
      BY <1>4, <1>7, <2>11
    <3>2. /\ Flushable(filled) /\ Fits(filled, 0) /\ Sflush(filled, 0) = filled
      BY <2>9, GoodFlushable DEF Fits, Sflush
    <3>3. n <= Len(filled.disk)
      BY <1>1, <2>9 DEF Good, Stream
    <3> QED
      BY <2>9, <3>1, <3>2, <3>3, DumbFacts DEF SameMode
  <2>12. CASE n # block /\ ~(filled.r < n - block)
    <3> DEFINE d == n - block
               r0 == filled.r - d
    <3>1. t = [filled EXCEPT !.p = d, !.r = r0]
      BY <1>4, <1>7, <2>12
    <3>2. d \in Nat /\ r0 \in Nat /\ d + r0 = filled.r
      <4>1. filled.r \in Nat
        BY <2>9 DEF Good, Stream
      <4> QED
        BY <1>3, <2>12, <4>1
    <3> HIDE DEF d, r0, t
    <3>3. /\ t \in Stream /\ SameMode(filled, t) /\ SameFile(filled, t) /\ SameUb(filled, t)
          /\ t.p = d /\ t.r = r0 /\ t.w = filled.w /\ t.lbfsize = filled.lbfsize
      BY <2>9, <3>1, <3>2 DEF Good, Stream, SameMode, SameFile, SameUb
    <3>4. FileOK(t) /\ ModeOK(t)
      BY <2>9, <3>3 DEF Good, FileOK, ModeOK, SameFile, SameMode
    <3>5. filled.r <= Size(filled) /\ Size(t) = Size(filled) /\ filled.w = 0 /\ filled.lbfsize = 0
      <4>1. filled \in Stream /\ filled.r \in Nat /\ filled.p \in Nat
        BY <2>9 DEF Good, Stream
      <4>2. Size(t) = Size(filled)
        BY <3>3 DEF SameMode, Size
      <4>3. filled.p + filled.r <= Size(filled) /\ filled.w = 0 /\ filled.lbfsize = 0
        BY <2>9 DEF Good, ReadOK
      <4>4. Size(filled) \in Nat
        BY <4>1, Sizes
      <4> QED
        BY <4>1, <4>2, <4>3, <4>4
    <3>6. ReadOK(t)
      BY <2>9, <3>2, <3>3, <3>5 DEF Good, ReadOK, SameMode, SameUb
    <3>7. WriteOK(t) /\ ~t.rw /\ ~t.wr
      BY <2>9, <3>3 DEF WriteOK, SameMode
    <3> QED
      BY <3>3, <3>4, <3>6, <3>7 DEF Good
  <2> QED
    BY <2>10, <2>11, <2>12
<1> QED
  BY <1>6, <1>7

-----------------------------------------------------------------------------
(* The invariant *)

\* A stream as fopen and setvbuf leave it.
LEMMA InitInv == Init => IInv
<1> SUFFICES ASSUME Init PROVE IInv
  OBVIOUS
<1>1. PICK d \in Files, mode \in {"r", "w", "r+"}, kind \in {"full", "line", "none"},
           set \in BOOLEAN : f = Opened(d, mode, kind, set)
  BY DEF Init
<1>2. d \in Seq(Bytes) /\ Len(d) \in Nat /\ Len(d) <= MaxLen
  <2>1. d \in BoundedSeq(Bytes, MaxLen)
    BY StdioAssumption
  <2> QED
    BY <2>1, Sizes, Bounded
<1> DEFINE e == IF mode = "w" THEN << >> ELSE d
           b == [i \in 1..BufSize |-> NL]
           v == IF set /\ kind = "full" /\ mode = "w" THEN BufSize ELSE 0
           l == IF set /\ kind = "line" /\ mode = "w" THEN -BufSize ELSE 0
<1>3. /\ e \in Seq(Bytes) /\ Len(e) \in Nat /\ Len(e) <= MaxLen /\ 0 <= Len(e)
      /\ << >> \in Seq(Bytes)
  BY <1>2, Sizes
<1>4. b \in [1..BufSize -> Bytes] /\ l \in Int /\ v \in Int
  BY Sizes
<1>5. f = [disk |-> e, fdpos |-> 0,
           kind |-> kind, rd |-> mode = "r", wr |-> mode = "w", rw |-> mode = "r+",
           eof |-> FALSE, err |-> FALSE, made |-> set, npt |-> set /\ BufSize # BlkSize,
           buf |-> b, p |-> 0, r |-> 0, w |-> v, lbfsize |-> l,
           hasub |-> FALSE, ub |-> << >>, ubsize |-> 0, up |-> 0, ur |-> 0,
           soff |-> FALSE, offset |-> 0]
  BY <1>1 DEF Opened
<1> HIDE DEF e, b, l, v
<1>6. f \in Stream
  BY <1>3, <1>4, <1>5 DEF Stream
<1>7. /\ f.disk = e /\ f.fdpos = 0 /\ f.kind = kind /\ (f.rd <=> mode = "r")
      /\ (f.wr <=> mode = "w") /\ (f.rw <=> mode = "r+") /\ (f.made <=> set)
      /\ f.p = 0 /\ f.r = 0 /\ f.w = v /\ f.lbfsize = l
      /\ ~f.hasub /\ f.ub = << >> /\ ~f.soff /\ f.offset = 0
  BY <1>5
<1>8. FileOK(f) /\ ModeOK(f)
  BY <1>3, <1>7 DEF FileOK, ModeOK
<1>9. /\ set /\ mode = "w" /\ kind = "line" => l = -BufSize
      /\ ~(set /\ mode = "w" /\ kind = "line") => l = 0
      /\ set /\ mode = "w" /\ kind = "full" => v = BufSize
      /\ ~(set /\ mode = "w" /\ kind = "full") => v = 0
  BY DEF l, v
<1>10. ReadOK(f)
  <2>1. Len(<< >>) = 0 /\ 0 <= MaxPush /\ Size(f) \in Nat /\ 0 + 0 <= Size(f)
    BY <1>6, Sizes
  <2>2. f.rd => f.lbfsize = 0 /\ f.w = 0
    BY <1>7, <1>9
  <2> QED
    BY <1>7, <2>1, <2>2 DEF ReadOK
<1>11. WriteOK(f)
  <2>1. 0 <= BufSize /\ 0 + 0 = 0 /\ BufSize - 0 = BufSize
    BY Sizes
  <2> QED
    BY <1>7, <1>9, <2>1 DEF WriteOK
<1>12. busy = NoBusy /\ dir = "any" /\ busy.bytes = << >> /\ Len(<< >>) = 0
  BY DEF Init, NoBusy
<1>13. Fits(f, Len(busy.bytes))
  BY <1>7, <1>12, Sizes DEF Fits
<1>14. BusyOK /\ DirOK
  <2>1. NoBusy \in [op : Ops, left : Nat, bytes : Seq(Bytes)]
        /\ NoBusy.op = "none"
    BY <1>3 DEF NoBusy
  <2> QED
    BY <1>7, <1>12, <2>1 DEF BusyOK, DirOK
<1> QED
  BY <1>6, <1>8, <1>10, <1>11, <1>13, <1>14 DEF IInv, Good

\* What the actions start from.
LEMMA Context ==
    ASSUME IInv
    PROVE  /\ Good(f) /\ Fits(f, 0) /\ f \in Stream /\ f.r \in Nat /\ f.p \in Nat
           /\ f.fdpos \in Nat /\ f.w \in Int /\ f.lbfsize \in Int /\ Size(f) \in Nat
           /\ \A j \in Takes : j \in Nat
           /\ \A k \in Reads : k \in Int /\ k >= -1
           /\ busy = NoBusy => Len(busy.bytes) = 0 /\ busy.op = "none"
           /\ NoBusy \in [op : Ops, left : Nat, bytes : Seq(Bytes)]
           /\ NoBusy.op = "none" /\ NoBusy.bytes = << >> /\ Len(<< >>) = 0
<1>1. /\ f \in Stream /\ f.r \in Nat /\ f.p \in Nat /\ f.fdpos \in Nat
      /\ f.w \in Int /\ f.lbfsize \in Int
  BY DEF IInv, Good, Stream
<1>2. Fits(f, 0)
  <2>1. Len(busy.bytes) \in Nat
    BY DEF IInv, BusyOK
  <2> QED
    BY <1>1, <2>1, Sizes DEF IInv, Fits
<1>3. \A j \in Takes : j \in Nat
  BY <1>1 DEF Takes, Buffered
<1>4. \A k \in Reads : k \in Int /\ k >= -1
  BY Sizes DEF Reads
<1>5. << >> \in Seq(Bytes) /\ Len(<< >>) = 0
  OBVIOUS
<1>6. /\ NoBusy \in [op : Ops, left : Nat, bytes : Seq(Bytes)]
      /\ NoBusy.op = "none" /\ NoBusy.bytes = << >>
  BY <1>5 DEF NoBusy
<1> QED
  BY <1>1, <1>2, <1>3, <1>4, <1>5, <1>6, Sizes DEF IInv

\* What the descriptor does is a choice from Reads or Takes in every call.
LEMMA ChoiceOK ==
    ASSUME IInv
    PROVE  /\ \A k \in ReadsIf(f.r = 0) : k \in Reads
           /\ \A k \in ReadsIf(CanOptimise(f)) : k \in Reads
           /\ \A j \in TakesIf(f.p >= Size(f)) : j \in Nat
           /\ \A j \in 0..(f.p + 1) : j \in Nat
<1>1. f.p \in Nat /\ 1 \in Reads /\ (\A j \in Takes : j \in Nat)
  BY Context, Sizes DEF Reads
<1> QED
  BY <1>1 DEF ReadsIf, TakesIf

\* The parts of the invariant after a step that leaves no fread or fwrite.
LEMMA IdleInv ==
    ASSUME IInv, NEW t, f' = t, Good(t), Fits(t, 0), busy' = NoBusy, dir' \in {"any", "in", "out"},
           t.rw /\ t.rd /\ dir' # "in" => t.r = 0 /\ ~t.hasub
    PROVE  IInv'
<1>1. NoBusy \in [op : Ops, left : Nat, bytes : Seq(Bytes)]
      /\ NoBusy.op = "none" /\ NoBusy.bytes = << >> /\ Len(<< >>) = 0
  BY Context
<1>2. BusyOK'
  BY <1>1 DEF BusyOK
<1>3. DirOK'
  BY DEF DirOK
<1>4. Good(f') /\ Fits(f', Len(busy'.bytes))
  BY <1>1
<1> QED
  BY <1>2, <1>3, <1>4 DEF IInv

\* getc.
LEMMA GetcStep == ASSUME IInv, NEW k \in Reads, NEW j \in Takes, Getc(k, j) PROVE IInv'
<1> DEFINE s == IF f.r > 0 THEN f ELSE Srefill(f, k, j, Size(f))
<1>1. /\ Good(f) /\ Fits(f, 0) /\ f \in Stream /\ f.r \in Nat /\ j \in Nat /\ k \in Int /\ k >= -1
      /\ Size(f) \in Nat /\ Size(f) <= Size(f)
  BY Context
<1>2. Good(s) /\ Fits(s, 0) /\ (s.r = 0 => ~s.hasub)
  <2>1. CASE f.r > 0
    BY <1>1, <2>1
  <2>2. CASE ~(f.r > 0)
    <3> DEFINE x == Srefill(f, k, j, Size(f))
    <3>1. Refilled(f, x, Size(f))
      BY <1>1, SrefillFacts
    <3> HIDE DEF x
    <3>2. Good(x)
      BY <1>1, <3>1, RefilledGood
    <3>3. Fits(x, 0) /\ ~x.hasub
      BY <1>1, <3>1 DEF Refilled
    <3> QED
      BY <2>2, <3>2, <3>3 DEF x
  <2> QED
    BY <2>1, <2>2
<1>3. /\ busy = NoBusy /\ busy' = busy
      /\ \/ s.r > 0 /\ f' = Taken(s, 1) /\ dir' = "in"
         \/ s.r = 0 /\ f' = s /\ dir' = IF s.eof THEN "any" ELSE "in"
  BY DEF Getc, Idle
<1> HIDE DEF s
<1>4. CASE s.r > 0 /\ f' = Taken(s, 1) /\ dir' = "in"
  <2>1. s.r \in Nat /\ 1 <= s.r /\ s.rd /\ ~s.wr
    BY <1>2, <1>4 DEF Good, Stream, ReadOK, ModeOK
  <2>2. Good(Taken(s, 1)) /\ SameMode(s, Taken(s, 1))
    BY <1>2, <2>1, TakenGood
  <2>3. Fits(Taken(s, 1), 0)
    BY <2>1, <2>2 DEF Fits, SameMode
  <2> QED
    BY <1>3, <1>4, <2>2, <2>3, IdleInv
<1>5. CASE s.r = 0 /\ f' = s /\ dir' = IF s.eof THEN "any" ELSE "in"
  BY <1>2, <1>3, <1>5, IdleInv
<1> QED
  BY <1>3, <1>4, <1>5

\* The parts of the invariant after a step that leaves no fwrite or overrun.
LEMMA ReadingInv ==
    ASSUME NEW t, NEW b, NEW d, f' = t, busy' = b, dir' = d, Good(t), Fits(t, 0),
           b \in [op : Ops, left : Nat, bytes : Seq(Bytes)],
           b.op \notin {"fwrite", "overrun"}, b.op \in {"fread", "direct"} => d = "in",
           b.op = "direct" => t.made /\ t.kind = "none", b.bytes = << >>,
           d \in {"any", "in", "out"},
           t.rw /\ t.rd /\ d # "in" => t.r = 0 /\ ~t.hasub
    PROVE  IInv'
<1>1. BusyOK' /\ DirOK'
  BY DEF BusyOK, DirOK
<1>2. Good(f') /\ Fits(f', Len(busy'.bytes))
  <2>1. Len(<< >>) = 0
    OBVIOUS
  <2> QED
    BY <2>1
<1> QED
  BY <1>1, <1>2 DEF IInv

\* fread on a buffered stream.
LEMMA FreadStepStep ==
    ASSUME IInv, NEW k \in Reads, NEW j \in Takes, FreadStep(k, j) PROVE IInv'
<1> DEFINE s == Srefill(f, k, j, Size(f))
           n == Min({f.r, busy.left})
<1>1. /\ Good(f) /\ Fits(f, 0) /\ f \in Stream /\ f.r \in Nat /\ j \in Nat /\ k \in Int /\ k >= -1
  BY Context
<1>2. /\ busy \in [op : Ops, left : Nat, bytes : Seq(Bytes)]
      /\ busy.op = "fread" /\ busy.bytes = << >> /\ busy.left \in Nat
      /\ dir = "in"
  BY DEF IInv, BusyOK, FreadStep
<1>3. Size(f) \in Nat /\ Size(f) <= Size(f)
  BY <1>1, Sizes
<1>4. Refilled(f, s, Size(f))
  BY <1>1, <1>3, SrefillFacts
<1>5. \/ /\ f.r > 0 /\ f' = Taken(f, n) /\ dir' = dir
         /\ busy' = IF n = busy.left THEN NoBusy ELSE [busy EXCEPT !.left = @ - n]
      \/ /\ f' = s /\ s.r > 0 /\ busy' = busy /\ dir' = dir /\ f.r = 0
      \/ /\ f' = s /\ s.r = 0 /\ busy' = NoBusy /\ dir' = IF s.eof THEN "any" ELSE "in"
  BY DEF FreadStep
<1> HIDE DEF s
<1>6. Good(s) /\ Fits(s, 0) /\ ~s.hasub /\ s.rw = f.rw
  BY <1>1, <1>3, <1>4, RefilledGood DEF Refilled
<1>7. /\ NoBusy \in [op : Ops, left : Nat, bytes : Seq(Bytes)]
      /\ NoBusy.op = "none" /\ NoBusy.bytes = << >>
  BY Context
<1>8. CASE /\ f.r > 0 /\ f' = Taken(f, n) /\ dir' = dir
           /\ busy' = IF n = busy.left THEN NoBusy ELSE [busy EXCEPT !.left = @ - n]
  <2>1. n \in Nat /\ n <= f.r /\ n <= busy.left
    <3>1. n = IF f.r <= busy.left THEN f.r ELSE busy.left
      BY <1>1, <1>2, MinMax
    <3> HIDE DEF n
    <3> QED
      BY <1>1, <1>2, <3>1
  <2> HIDE DEF n
  <2>2. f.rd /\ ~f.wr
    BY <1>1, <1>8 DEF Good, ReadOK, ModeOK
  <2>3. Good(Taken(f, n)) /\ SameMode(f, Taken(f, n))
    BY <1>1, <2>1, <2>2, TakenGood
  <2>4. Fits(Taken(f, n), 0)
    BY <2>2, <2>3 DEF Fits, SameMode
  <2>5. /\ busy' \in [op : Ops, left : Nat, bytes : Seq(Bytes)]
        /\ busy'.op \in {"none", "fread"} /\ busy'.bytes = << >>
    <3>1. CASE n = busy.left
      BY <1>7, <1>8, <3>1
    <3>2. CASE n # busy.left
      <4>1. busy.left - n \in Nat
        BY <1>2, <2>1
      <4>2. busy' = [busy EXCEPT !.left = busy.left - n]
        BY <1>8, <3>2
      <4> QED
        BY <1>2, <4>1, <4>2
    <3> QED
      BY <3>1, <3>2
  <2> QED
    BY <1>2, <1>8, <2>3, <2>4, <2>5, ReadingInv
<1>9. CASE f' = s /\ s.r > 0 /\ busy' = busy /\ dir' = dir /\ f.r = 0
  BY <1>2, <1>6, <1>9, ReadingInv
<1>10. CASE f' = s /\ s.r = 0 /\ busy' = NoBusy /\ dir' = IF s.eof THEN "any" ELSE "in"
  BY <1>6, <1>10, IdleInv
<1> QED
  BY <1>5, <1>8, <1>9, <1>10

\* fread on an unbuffered stream.
LEMMA FreadDirectStep ==
    ASSUME IInv, NEW k \in Reads, NEW j \in Takes, FreadDirect(k, j) PROVE IInv'
<1> DEFINE s == Srefill(f, k, j, busy.left)
           t == Emptied(s, f.buf)
<1>1. /\ Good(f) /\ Fits(f, 0) /\ f \in Stream /\ j \in Nat /\ k \in Int /\ k >= -1
      /\ f.buf \in [1..BufSize -> Bytes]
  BY Context DEF Stream
<1>2. /\ busy \in [op : Ops, left : Nat, bytes : Seq(Bytes)]
      /\ busy.op = "direct" /\ busy.bytes = << >> /\ busy.left \in Nat
      /\ dir = "in" /\ f.kind = "none" /\ f.made
  BY DEF IInv, BusyOK, FreadDirect
<1>3. Refilled(f, s, busy.left)
  BY <1>1, <1>2, SrefillFacts
<1>4. /\ f' = t
      /\ \/ /\ s.r > 0 /\ dir' = dir
            /\ busy' = IF s.r >= busy.left THEN NoBusy ELSE [busy EXCEPT !.left = @ - s.r]
         \/ busy' = NoBusy /\ dir' = IF s.eof THEN "any" ELSE "in"
  BY DEF FreadDirect, Emptied
<1> HIDE DEF s
<1>5. Good(t) /\ Fits(t, 0) /\ t.r = 0 /\ ~t.hasub /\ t.made /\ t.kind = "none"
  BY <1>1, <1>2, <1>3, EmptiedGood
<1> HIDE DEF t
<1>6. /\ NoBusy \in [op : Ops, left : Nat, bytes : Seq(Bytes)]
      /\ NoBusy.op = "none" /\ NoBusy.bytes = << >>
  BY Context
<1>7. CASE /\ s.r > 0 /\ dir' = dir
           /\ busy' = IF s.r >= busy.left THEN NoBusy ELSE [busy EXCEPT !.left = @ - s.r]
  <2>1. /\ busy' \in [op : Ops, left : Nat, bytes : Seq(Bytes)]
        /\ busy'.op \in {"none", "direct"} /\ busy'.bytes = << >>
    <3>1. CASE s.r >= busy.left
      BY <1>6, <1>7, <3>1
    <3>2. CASE ~(s.r >= busy.left)
      <4>1. s.r \in Nat
        BY <1>3 DEF Refilled, Stream
      <4>2. busy.left - s.r \in Nat
        BY <1>2, <3>2, <4>1
      <4>3. busy' = [busy EXCEPT !.left = busy.left - s.r]
        BY <1>7, <3>2
      <4> QED
        BY <1>2, <4>2, <4>3
    <3> QED
      BY <3>1, <3>2
  <2> QED
    BY <1>2, <1>4, <1>5, <1>7, <2>1, ReadingInv
<1>8. CASE busy' = NoBusy /\ dir' = IF s.eof THEN "any" ELSE "in"
  BY <1>4, <1>5, <1>8, IdleInv
<1> QED
  BY <1>4, <1>7, <1>8

\* ungetc.
LEMMA UngetcStep ==
    ASSUME IInv, NEW c \in Bytes, NEW j \in Takes, Ungetc(c, j) PROVE IInv'
<1>1. Good(f) /\ Flushable(f) /\ Fits(f, 0) /\ j \in Nat
  BY Context, GoodFlushable
<1>2. /\ busy' = NoBusy /\ dir' = "in" /\ Len(f.ub) < MaxPush
      /\ \/ f' = Sflush(f, j)
         \/ f' = Pushed(IF f.rd THEN f ELSE StartReading(f, j), c)
  BY DEF Ungetc, Idle
<1>3. CASE f' = Sflush(f, j)
  <2>1. Good(Sflush(f, j)) /\ Fits(Sflush(f, j), 0)
    BY <1>1, SflushFacts
  <2> QED
    BY <1>2, <1>3, <2>1, IdleInv
<1>4. CASE f' = Pushed(IF f.rd THEN f ELSE StartReading(f, j), c)
  <2> DEFINE s == IF f.rd THEN f ELSE StartReading(f, j)
  <2>1. Good(s) /\ s.rd /\ Len(s.ub) < MaxPush
    <3>1. CASE f.rd
      BY <1>1, <1>2, <3>1
    <3>2. CASE ~f.rd
      <4>1. f.ub = << >>
        BY <1>1, <3>2 DEF Good, ReadOK
      <4> QED
        BY <1>1, <1>2, <3>2, <4>1, StartReadingFacts
    <3> QED
      BY <3>1, <3>2
  <2> HIDE DEF s
  <2>2. Good(Pushed(s, c)) /\ SameMode(s, Pushed(s, c))
    BY <2>1, PushedGood
  <2>3. Fits(Pushed(s, c), 0)
    BY <2>1, <2>2 DEF Fits, Good, ModeOK, SameMode
  <2>4. f' = Pushed(s, c)
    BY <1>4 DEF s
  <2> QED
    BY <1>2, <2>2, <2>3, <2>4, IdleInv
<1> QED
  BY <1>2, <1>3, <1>4

\* fflush.
LEMMA FflushStep ==
    ASSUME IInv, NEW all \in BOOLEAN, NEW j \in Takes, Fflush(all, j) PROVE IInv'
<1>1. Good(f) /\ Flushable(f) /\ Fits(f, 0) /\ j \in Nat
  BY Context, GoodFlushable
<1>2. dir \in {"any", "in", "out"} /\ (f.rw /\ f.rd /\ dir # "in" => f.r = 0 /\ ~f.hasub)
  BY DEF IInv, DirOK
<1>3. CASE f' = f /\ dir' = dir
  <2>1. busy' = busy
    BY DEF Fflush
  <2> QED
    BY <1>3, <2>1 DEF IInv, Good, BusyOK, DirOK, Fits, Misfit
<1>4. CASE f' = Sflush(f, j)
  <2> DEFINE s == Sflush(f, j)
  <2>1. /\ busy \in [op : Ops, left : Nat, bytes : Seq(Bytes)]
        /\ Len(busy.bytes) \in Nat /\ Fits(f, Len(busy.bytes))
    BY DEF IInv, BusyOK
  <2>2. Good(s) /\ Fits(s, Len(busy.bytes)) /\ SameMode(f, s) /\ SameUb(f, s) /\ s.r = f.r
    BY <1>1, <2>1, SflushFacts
  <2> HIDE DEF s
  <2>3. /\ f' = s /\ busy' = busy /\ busy.op # "overrun" /\ dir' \in {dir, "any"}
        /\ dir' = dir \/ (busy.op = "none" /\ dir = "out")
    <3>1. NoBusy.op = "none"
      BY DEF NoBusy
    <3> QED
      BY <1>1, <1>4, <3>1 DEF Fflush, s
  <2>4. BusyOK'
    BY <2>1, <2>2, <2>3 DEF IInv, BusyOK, SameMode
  <2>5. DirOK'
    BY <1>2, <2>2, <2>3 DEF DirOK, SameMode, SameUb
  <2> QED
    BY <2>2, <2>3, <2>4, <2>5 DEF IInv
<1> QED
  BY <1>3, <1>4 DEF Fflush

\* ftell.
LEMMA FtellStep ==
    ASSUME IInv, NEW j \in Takes, Ftell(j) PROVE IInv'
<1>1. Good(f) /\ Flushable(f) /\ Fits(f, 0) /\ j \in Nat
  BY Context, GoodFlushable
<1> DEFINE s == Sflush(f, j)
           t == KnowOffset(s)
<1>2. Good(s) /\ Fits(s, 0) /\ SameMode(f, s) /\ SameUb(f, s) /\ s.r = f.r
  BY <1>1, SflushFacts
<1>3. f' = t /\ busy' = NoBusy /\ dir' = dir
  BY DEF Ftell
<1> HIDE DEF s
<1>4. /\ t \in Stream /\ FileOK(t) /\ t.fdpos = s.fdpos /\ SameMode(s, t) /\ SameUb(s, t)
      /\ SameCounters(s, t) /\ t.eof = s.eof
  BY <1>2, KnowOffsetFacts DEF Good
<1> HIDE DEF t
<1>5. Good(t) /\ Fits(t, 0)
  BY <1>2, <1>4, GoodFlushable, GoodKept DEF Fits, SameMode, SameCounters
<1>6. dir \in {"any", "in", "out"} /\ (f.rw /\ f.rd /\ dir # "in" => f.r = 0 /\ ~f.hasub)
  BY DEF IInv, DirOK
<1>7. t.rw /\ t.rd /\ dir # "in" => t.r = 0 /\ ~t.hasub
  BY <1>2, <1>4, <1>6 DEF SameMode, SameUb, SameCounters
<1> QED
  BY <1>3, <1>5, <1>6, <1>7, IdleInv

\* clearerr.
LEMMA ClearerrStep == ASSUME IInv, Clearerr PROVE IInv'
<1>1. Good(f) /\ Fits(f, 0) /\ f \in Stream
  BY Context
<1> DEFINE t == [f EXCEPT !.err = FALSE, !.eof = FALSE]
<1>2. f' = t /\ busy' = NoBusy /\ dir' = dir
  BY DEF Clearerr
<1>3. /\ t \in Stream /\ SameMode(f, t) /\ SameFile(f, t) /\ SameUb(f, t) /\ SameCounters(f, t)
      /\ ~t.eof
  BY <1>1 DEF Stream, SameMode, SameFile, SameUb, SameCounters
<1> HIDE DEF t
<1>4. FileOK(t) /\ ModeOK(t) /\ WriteOK(t) /\ Fits(t, 0)
  BY <1>1, <1>3 DEF Good, FileOK, ModeOK, WriteOK, Fits, SameMode, SameFile, SameCounters
<1>5. ReadOK(t)
  BY <1>1, <1>3 DEF Good, ReadOK, Size, SameMode, SameUb, SameCounters
<1>6. dir \in {"any", "in", "out"} /\ (f.rw /\ f.rd /\ dir # "in" => f.r = 0 /\ ~f.hasub)
  BY DEF IInv, DirOK
<1>7. t.rw /\ t.rd /\ dir # "in" => t.r = 0 /\ ~t.hasub
  BY <1>3, <1>6 DEF SameMode, SameUb, SameCounters
<1> QED
  BY <1>2, <1>3, <1>4, <1>5, <1>6, <1>7, IdleInv DEF Good

\* The start of fread, and calls that fail.
LEMMA SmallSteps ==
    ASSUME IInv,
           \/ \E n \in 1..MaxCount : Fread(n)
           \/ \E c \in Bytes : PutcFails(c)
           \/ UngetcFails \/ FwriteFails
    PROVE  IInv'
<1>1. /\ Good(f) /\ Fits(f, 0) /\ f \in Stream
      /\ NoBusy \in [op : Ops, left : Nat, bytes : Seq(Bytes)]
      /\ NoBusy.op = "none" /\ NoBusy.bytes = << >>
  BY Context
<1>2. dir \in {"any", "in", "out"} /\ (f.rw /\ f.rd /\ dir # "in" => f.r = 0 /\ ~f.hasub)
  BY DEF IInv, DirOK
<1>3. ASSUME NEW n \in 1..MaxCount, Fread(n) PROVE IInv'
  <2> DEFINE o == IF f.made /\ f.kind = "none" THEN "direct" ELSE "fread"
             b == [NoBusy EXCEPT !.op = o, !.left = n]
  <2>1. n \in Nat
    BY Sizes
  <2>2. /\ b \in [op : Ops, left : Nat, bytes : Seq(Bytes)]
        /\ b.op = o /\ b.bytes = << >>
    BY <1>1, <2>1
  <2>3. f' = f /\ busy' = b /\ dir' = "in"
    BY <1>3 DEF Fread
  <2> HIDE DEF b
  <2> QED
    BY <1>1, <2>2, <2>3, ReadingInv
<1>4. ASSUME NEW c \in Bytes, PutcFails(c) PROVE IInv'
  <2>1. f' = [f EXCEPT !.w = f.lbfsize] /\ busy' = NoBusy /\ dir' = dir /\ ~f.wr /\ ~f.rw
    BY <1>4 DEF PutcFails, Idle, CantWrite
  <2>2. f.w = 0 /\ f.lbfsize = 0
    BY <1>1, <2>1 DEF Good, ReadOK, ModeOK
  <2>3. f' = f
    BY <1>1, <2>1, <2>2 DEF Stream
  <2> QED
    BY <1>1, <1>2, <2>1, <2>3, IdleInv
<1>5. ASSUME UngetcFails \/ FwriteFails PROVE IInv'
  <2>1. f' = f /\ busy' = NoBusy /\ dir' = dir
    BY <1>5 DEF UngetcFails, FwriteFails, Idle
  <2> QED
    BY <1>1, <1>2, <2>1, IdleInv
<1> QED
  BY <1>3, <1>4, <1>5

\* A stream the program may write now has nothing to read, and is at Tell.
LEMMA Writable ==
    ASSUME IInv, Idle("out"), ~CantWrite(f)
    PROVE  /\ f.rd => f.r = 0 /\ ~f.hasub
           /\ Tell = f.fdpos + (IF f.wr THEN f.p ELSE 0)
<1>1. f.rd => f.r = 0 /\ ~f.hasub
  BY DEF IInv, Good, ModeOK, DirOK, Idle, CantWrite
<1>2. f.fdpos \in Nat /\ f.p \in Nat
  BY Context
<1>3. CASE f.rd
  <2>1. Tell = f.fdpos - 0 - 0 /\ ~f.wr
    BY <1>1, <1>3 DEF Tell, Position, IInv, Good, ModeOK
  <2> QED
    BY <1>1, <1>2, <2>1
<1>4. CASE ~f.rd
  BY <1>1, <1>2, <1>4 DEF Tell, Position
<1> QED
  BY <1>3, <1>4

\* cantwrite sets the stream up for writing if need be.
LEMMA ReadyFacts ==
    ASSUME NEW s, Flushable(s), ~CantWrite(s), s.rd => s.r = 0 /\ ~s.hasub,
           NEW m \in Nat, s.fdpos + (IF s.wr THEN s.p ELSE 0) + m <= MaxLen
    PROVE  /\ Flushable(ReadyToWrite(s)) /\ Fits(ReadyToWrite(s), m)
           /\ ReadyToWrite(s).wr /\ ReadyToWrite(s).made /\ ReadyToWrite(s).kind = s.kind
           /\ s.wr /\ s.made => ReadyToWrite(s) = s
           /\ ~(s.wr /\ s.made) => Good(ReadyToWrite(s)) /\ ReadyToWrite(s).p = 0
<1>1. CASE s.wr /\ s.made
  <2>1. ReadyToWrite(s) = s
    BY <1>1 DEF ReadyToWrite
  <2>2. Fits(s, m)
    BY <1>1 DEF Fits
  <2> QED
    BY <1>1, <2>1, <2>2
<1>2. CASE ~(s.wr /\ s.made)
  <2> DEFINE t == Swsetup(s)
  <2>1. ReadyToWrite(s) = t
    BY <1>2 DEF ReadyToWrite
  <2>2. Good(t) /\ t.wr /\ t.made /\ t.p = 0 /\ t.fdpos = s.fdpos /\ t.kind = s.kind
    BY <1>2, SwsetupFacts
  <2> HIDE DEF t
  <2>3. s.fdpos \in Nat /\ s.p \in Nat
    BY DEF Flushable, Stream
  <2>4. Fits(t, m)
    BY <2>2, <2>3, Sizes DEF Fits
  <2> QED
    BY <1>2, <2>1, <2>2, <2>4, GoodFlushable
<1> QED
  BY <1>1, <1>2

\* The parts of the invariant after a step of fwrite.
LEMMA WritingInv ==
    ASSUME NEW t, NEW b, NEW d, f' = t, busy' = b, dir' = d, Good(t), Fits(t, Len(b.bytes)),
           b \in [op : Ops, left : Nat, bytes : Seq(Bytes)],
           b.op = "fwrite", b.bytes # << >>, d \in {"any", "in", "out"}, t.wr, t.made
    PROVE  IInv'
<1>1. BusyOK'
  BY DEF BusyOK
<1>2. DirOK'
  BY DEF DirOK, Good, ModeOK
<1> QED
  BY <1>1, <1>2 DEF IInv

\* The start of fwrite.
LEMMA FwriteStart ==
    ASSUME IInv, NEW b \in BoundedSeq(Bytes, Min({MaxCount, Room})) \ {<< >>}, Fwrite(b)
    PROVE  IInv'
<1> DEFINE t == ReadyToWrite(f)
           c == [NoBusy EXCEPT !.op = "fwrite", !.bytes = b]
<1>1. /\ Good(f) /\ Flushable(f) /\ f.fdpos \in Nat /\ f.p \in Nat
      /\ NoBusy \in [op : Ops, left : Nat, bytes : Seq(Bytes)]
  BY Context, GoodFlushable
<1>2. /\ Idle("out") /\ ~CantWrite(f) /\ f' = t /\ busy' = c /\ dir' = "out"
  BY DEF Fwrite
<1>3. /\ f.rd => f.r = 0 /\ ~f.hasub
      /\ Tell = f.fdpos + (IF f.wr THEN f.p ELSE 0)
  BY <1>2, Writable
<1>4. b \in Seq(Bytes) /\ Len(b) \in Nat /\ Len(b) <= Room /\ b # << >> /\ Room = MaxLen - Tell
  <2>1. Room \in Int /\ MaxCount \in Int /\ Room = MaxLen - Tell
    BY <1>1, <1>3, Sizes DEF Room
  <2>2. Min({MaxCount, Room}) = IF MaxCount <= Room THEN MaxCount ELSE Room
    BY <2>1, MinMax
  <2> DEFINE n == Min({MaxCount, Room})
  <2>3. n \in Int /\ n <= Room
    BY <2>1, <2>2
  <2>4. b \in BoundedSeq(Bytes, n)
    OBVIOUS
  <2> HIDE DEF n
  <2>5. b \in Seq(Bytes) /\ Len(b) \in Nat /\ Len(b) <= n
    BY <2>3, <2>4, Bounded
  <2> QED
    BY <2>1, <2>3, <2>5
<1>5. f.fdpos + (IF f.wr THEN f.p ELSE 0) + Len(b) <= MaxLen
  BY <1>1, <1>3, <1>4, Sizes
<1>6. Good(t) /\ Fits(t, Len(b)) /\ t.wr /\ t.made
  <2>1. /\ Fits(t, Len(b)) /\ t.wr /\ t.made /\ (f.wr /\ f.made => t = f)
        /\ (~(f.wr /\ f.made) => Good(t))
    BY <1>1, <1>2, <1>3, <1>4, <1>5, ReadyFacts
  <2> HIDE DEF t
  <2> QED
    BY <1>1, <2>1
<1>7. /\ c \in [op : Ops, left : Nat, bytes : Seq(Bytes)]
      /\ c.op = "fwrite" /\ c.bytes = b
  BY <1>1, <1>4
<1> HIDE DEF t, c
<1> QED
  BY <1>2, <1>4, <1>6, <1>7, WritingInv

\* putc without a call.
LEMMA PutcFastStep ==
    ASSUME IInv, NEW c \in Bytes, Room > 0, Idle("out"), ~CantWrite(f), PutcFast(f, c),
           f' = Store(f, << c >>), busy' = busy, dir' = "out"
    PROVE  IInv'
<1> DEFINE one == << c >>
           t == Store(f, one)
<1>1. /\ Good(f) /\ Flushable(f) /\ f \in Stream /\ f.fdpos \in Nat /\ f.p \in Nat /\ f.w \in Int
      /\ f.lbfsize \in Int /\ BufSize \in Nat /\ 0 < BufSize /\ MaxLen \in Nat
      /\ f.kind \in {"full", "line", "none"}
  BY Context, GoodFlushable, Sizes DEF Stream
<1>2. one \in Seq(Bytes) /\ Len(one) = 1
  OBVIOUS
<1> HIDE DEF one
<1>3. f.w > 0 \/ f.w - 1 >= f.lbfsize
  BY <1>1 DEF PutcFast
<1>4. f.wr /\ f.made
  <2>1. CASE f.rd
    BY <1>1, <1>3, <2>1 DEF Good, ReadOK
  <2>2. CASE ~f.rd
    BY <1>1, <1>3, <2>2 DEF Good, WriteOK
  <2> QED
    BY <2>1, <2>2
<1>5. f.kind # "none" /\ f.p + 1 <= BufSize
  <2>1. /\ f.p <= BufSize
        /\ f.kind = "full" => f.w = BufSize - f.p /\ f.lbfsize = 0
        /\ f.kind = "line" => \/ f.w + f.p = 0 /\ f.lbfsize = -BufSize
                              \/ f.w <= 0 /\ f.lbfsize = 0
        /\ f.kind = "none" => f.p = 0 /\ f.w = 0 /\ f.lbfsize = 0
    BY <1>1, <1>4 DEF Good, WriteOK
  <2> QED
    BY <1>1, <1>3, <2>1
<1>6. f.p + Len(one) <= BufSize
  BY <1>2, <1>5
<1>7. Good(t)
  BY <1>1, <1>2, <1>4, <1>5, <1>6, StoreGood
<1>8. Fits(t, 0)
  <2>1. Tell = f.fdpos + f.p
    BY <1>4, Writable
  <2>2. f.fdpos + f.p + 1 <= MaxLen
    BY <1>1, <2>1 DEF Room
  <2>3. Fits(f, 1)
    BY <2>2 DEF Fits
  <2>4. Fits(t, 1 - Len(one))
    <3>1. \A m \in Nat : Fits(f, m) /\ Len(one) <= m => Fits(t, m - Len(one))
      BY <1>1, <1>2, <1>4, <1>6, StoreFlushable
    <3>2. 1 \in Nat /\ Len(one) <= 1
      BY <1>2
    <3> QED
      BY <2>3, <3>1, <3>2
  <2>5. 1 - Len(one) = 0
    BY <1>2
  <2> QED
    BY <2>4, <2>5
<1>9. t.rd = f.rd /\ ~f.rd
  BY <1>1, <1>2, <1>4, StoreFacts DEF SameMode, Good, ModeOK
<1>10. busy = NoBusy /\ f' = t
  BY DEF Idle, one
<1> HIDE DEF t
<1> QED
  BY <1>7, <1>8, <1>9, <1>10, IdleInv

\* The stream as __swbuf finds it after cantwrite.
SwbufReady == ReadyToWrite([f EXCEPT !.w = f.lbfsize])

\* It can be written.
LEMMA SwbufReadyFacts ==
    ASSUME IInv, Room > 0, Idle("out"), ~CantWrite(f)
    PROVE  LET s == SwbufReady IN
           /\ Flushable(s) /\ Fits(s, 1) /\ Fits(s, 0) /\ s.wr /\ s.made /\ s.kind = f.kind
           /\ (f.wr /\ f.made => s.p = f.p /\ s.w = f.lbfsize /\ s.lbfsize = f.lbfsize)
           /\ (~(f.wr /\ f.made) => Good(s) /\ s.p = 0)
           /\ s.p \in Nat /\ s.fdpos \in Nat /\ Size(s) \in Nat /\ 0 < Size(s) /\ Size(s) <= BufSize
<1> DEFINE s0 == [f EXCEPT !.w = f.lbfsize]
           s == ReadyToWrite(s0)
<1>1. /\ Good(f) /\ Flushable(f) /\ f \in Stream /\ f.fdpos \in Nat /\ f.p \in Nat /\ f.w \in Int
      /\ f.lbfsize \in Int /\ BufSize \in Nat /\ 0 < BufSize /\ MaxLen \in Nat
      /\ f.kind \in {"full", "line", "none"}
  BY Context, GoodFlushable, Sizes DEF Stream
<1>2. /\ f.rd => f.r = 0 /\ ~f.hasub
      /\ Tell = f.fdpos + (IF f.wr THEN f.p ELSE 0)
  BY Writable
<1>3. /\ s0 \in Stream /\ SameMode(f, s0) /\ SameFile(f, s0) /\ SameUb(f, s0) /\ s0.eof = f.eof
      /\ s0.p = f.p /\ s0.r = f.r /\ s0.w = f.lbfsize /\ s0.lbfsize = f.lbfsize
  BY <1>1 DEF Stream, SameMode, SameFile, SameUb
<1> HIDE DEF s0
<1>4. Flushable(s0)
  <2>1. FileOK(s0) /\ ModeOK(s0)
    BY <1>1, <1>3 DEF Good, FileOK, ModeOK, SameMode, SameFile
  <2>2. ReadOK(s0)
    BY <1>1, <1>3 DEF Good, ReadOK, SameMode, SameUb, Size
  <2> QED
    BY <1>1, <1>3, <2>1, <2>2 DEF Flushable, SameMode
<1>5. /\ Flushable(s) /\ Fits(s, 1) /\ s.wr /\ s.made /\ s.kind = f.kind
      /\ (f.wr /\ f.made => s = s0) /\ (~(f.wr /\ f.made) => Good(s) /\ s.p = 0)
  <2>1. f.fdpos + (IF f.wr THEN f.p ELSE 0) + 1 <= MaxLen
    BY <1>1, <1>2 DEF Room
  <2>2. s0.fdpos = f.fdpos /\ s0.p = f.p /\ (s0.wr <=> f.wr) /\ (s0.made <=> f.made)
        /\ s0.kind = f.kind /\ (s0.rd => s0.r = 0 /\ ~s0.hasub)
    BY <1>2, <1>3 DEF SameMode, SameFile, SameUb
  <2>3. s0.fdpos + (IF s0.wr THEN s0.p ELSE 0) + 1 <= MaxLen
    BY <2>1, <2>2
  <2>4. ~CantWrite(s0) /\ 1 \in Nat
    BY <1>3 DEF CantWrite, SameMode
  <2> QED
    BY <1>4, <2>2, <2>3, <2>4, ReadyFacts
<1>6. SwbufReady = s
  BY DEF SwbufReady, s0
<1> HIDE DEF s
<1>7. s \in Stream /\ s.p \in Nat /\ Size(s) \in Nat /\ 0 < Size(s) /\ Size(s) <= BufSize
      /\ s.fdpos \in Nat /\ Fits(s, 0)
  <2>1. s \in Stream /\ s.p \in Nat /\ s.fdpos \in Nat
    BY <1>5 DEF Flushable, Stream
  <2> QED
    BY <1>1, <1>5, <2>1, Sizes DEF Fits
<1> QED
  BY <1>3, <1>5, <1>6, <1>7

\* After the first flush of __swbuf there is room for a byte.
LEMMA SwbufFirstFacts ==
    ASSUME IInv, Room > 0, Idle("out"), ~CantWrite(f), NEW j \in Nat
    PROVE  LET x == SwbufFirst(SwbufReady, j) IN
           /\ Flushable(x) /\ Fits(x, 1) /\ x.wr /\ x.made /\ x.kind = f.kind
           /\ x.p \in Nat /\ x.p < Size(x) /\ x.p + 1 <= BufSize
           /\ Size(x) = IF f.kind = "none" THEN 1 ELSE BufSize
           /\ (SwbufReady.p >= Size(SwbufReady) => Good(x))
           /\ (~(SwbufReady.p >= Size(SwbufReady)) => x = SwbufReady)
<1> DEFINE s == SwbufReady
           x == SwbufFirst(s, j)
<1>1. /\ Flushable(s) /\ Fits(s, 1) /\ Fits(s, 0) /\ s.wr /\ s.made /\ s.kind = f.kind
      /\ s.p \in Nat /\ Size(s) \in Nat /\ 0 < Size(s) /\ Size(s) <= BufSize
  BY SwbufReadyFacts
<1> HIDE DEF s
<1>2. /\ Flushable(x) /\ Fits(x, 1) /\ x.wr /\ x.made /\ x.kind = f.kind /\ x.p < Size(x)
      /\ (s.p >= Size(s) => Good(x)) /\ (~(s.p >= Size(s)) => x = s)
  <2>1. CASE s.p >= Size(s)
    <3>1. x = Sflush(s, j) /\ 1 \in Nat
      BY <2>1 DEF SwbufFirst
    <3>2. Good(x) /\ SameMode(s, x) /\ x.p = 0 /\ Fits(x, 1)
      BY <1>1, <3>1, SflushFacts
    <3>3. x.kind = s.kind /\ x.wr /\ x.made
      BY <1>1, <3>2 DEF SameMode
    <3>4. Size(x) = Size(s)
      BY <3>3 DEF Size
    <3> QED
      BY <1>1, <2>1, <3>2, <3>3, <3>4, GoodFlushable
  <2>2. CASE ~(s.p >= Size(s))
    <3>1. x = s
      BY <2>2 DEF SwbufFirst
    <3> QED
      BY <1>1, <2>2, <3>1
  <2> QED
    BY <2>1, <2>2
<1> HIDE DEF x
<1>3. /\ x.p \in Nat /\ Size(x) \in Nat /\ Size(x) <= BufSize /\ BufSize \in Nat
      /\ Size(x) = IF f.kind = "none" THEN 1 ELSE BufSize
  <2>1. x \in Stream /\ x.p \in Nat
    BY <1>2 DEF Flushable, Stream
  <2> QED
    BY <1>2, <2>1, Sizes DEF Size
<1>4. x.p + 1 <= BufSize
  BY <1>2, <1>3
<1> QED
  BY <1>2, <1>3, <1>4 DEF x, s

\* The byte is stored there.
LEMMA SwbufStoreFacts ==
    ASSUME IInv, Room > 0, Idle("out"), ~CantWrite(f), NEW j \in Nat, NEW c \in Bytes
    PROVE  LET x == SwbufFirst(SwbufReady, j)
               t == Store(x, << c >>) IN
           /\ << c >> \in Seq(Bytes) /\ x.p + Len(<< c >>) <= BufSize
           /\ Flushable(t) /\ Fits(t, 0) /\ t.p = x.p + 1 /\ ~t.rd /\ t.kind = f.kind /\ t.wr /\ t.made
<1> DEFINE x == SwbufFirst(SwbufReady, j)
           one == << c >>
           t == Store(x, one)
<1>1. /\ Flushable(x) /\ Fits(x, 1) /\ x.wr /\ x.made /\ x.kind = f.kind
      /\ x.p \in Nat /\ x.p + 1 <= BufSize
  BY SwbufFirstFacts
<1>2. one \in Seq(Bytes) /\ Len(one) = 1
  OBVIOUS
<1> HIDE DEF x, one
<1>3. x \in Stream /\ x.p + Len(one) <= BufSize
  BY <1>1, <1>2 DEF Flushable
<1>4. Flushable(t) /\ Fits(t, 0)
  <2>1. Flushable(t) /\ \A m \in Nat : Fits(x, m) /\ Len(one) <= m => Fits(t, m - Len(one))
    BY <1>1, <1>2, <1>3, StoreFlushable
  <2>2. 1 \in Nat /\ Len(one) <= 1 /\ 1 - Len(one) = 0
    BY <1>2
  <2> QED
    BY <1>1, <2>1, <2>2
<1>5. SameMode(x, t) /\ t.p = x.p + 1
  BY <1>2, <1>3, StoreFacts, ZenonT(60)
<1> HIDE DEF t
<1>6. ~t.rd /\ t.kind = f.kind /\ t.wr /\ t.made
  BY <1>1, <1>4, <1>5 DEF SameMode, Flushable, ModeOK
<1> QED
  BY <1>2, <1>3, <1>4, <1>5, <1>6 DEF x, one, t

\* putc through __swbuf.
LEMMA PutcSlowStep ==
    ASSUME IInv, NEW c \in Bytes, NEW j \in Nat, NEW j2 \in Nat, Room > 0,
           Putc(c, j, j2), ~PutcFast(f, c)
    PROVE  IInv'
<1> DEFINE s == SwbufReady
           x == SwbufFirst(s, j)
           one == << c >>
           t == Store(x, one)
<1>1. /\ Good(f) /\ f \in Stream /\ f.p \in Nat /\ f.w \in Int
      /\ f.lbfsize \in Int /\ BufSize \in Nat /\ 0 < BufSize
      /\ j \in Nat /\ j2 \in Nat /\ f.kind \in {"full", "line", "none"}
  BY Context, Sizes DEF Stream
<1>2. /\ Idle("out") /\ ~CantWrite(f) /\ busy' = NoBusy /\ dir' = "out"
      /\ \/ s.p >= Size(s) /\ f' = Sflush(s, j)
         \/ f' = IF Full(t, c) THEN Sflush(t, j2) ELSE t
  BY DEF Putc, Idle, SwbufReady
<1>3. /\ Flushable(s) /\ Fits(s, 0) /\ s.wr /\ s.made /\ s.kind = f.kind
      /\ (f.wr /\ f.made => s.p = f.p /\ s.w = f.lbfsize /\ s.lbfsize = f.lbfsize)
      /\ (~(f.wr /\ f.made) => Good(s))
      /\ s.p \in Nat /\ Size(s) \in Nat /\ Size(s) <= BufSize
  BY <1>2, SwbufReadyFacts
<1>4. CASE s.p >= Size(s) /\ f' = Sflush(s, j)
  <2>1. Good(Sflush(s, j)) /\ SameMode(s, Sflush(s, j)) /\ Fits(Sflush(s, j), 0) /\ 0 \in Nat
    BY <1>1, <1>3, SflushFacts
  <2>2. ~Sflush(s, j).rd
    BY <1>3, <2>1 DEF SameMode, Flushable, ModeOK
  <2> QED
    BY <1>2, <1>4, <2>1, <2>2, IdleInv
<1>5. CASE f' = IF Full(t, c) THEN Sflush(t, j2) ELSE t
  <2>1. /\ x.wr /\ x.made /\ x.kind = f.kind /\ x.p \in Nat /\ x.p < Size(x)
        /\ Size(x) = (IF f.kind = "none" THEN 1 ELSE BufSize)
        /\ (s.p >= Size(s) => Good(x)) /\ (~(s.p >= Size(s)) => x = s)
    BY <1>1, <1>2, SwbufFirstFacts
  <2>2. /\ one \in Seq(Bytes) /\ x.p + Len(one) <= BufSize
        /\ Flushable(t) /\ Fits(t, 0) /\ t.p = x.p + 1 /\ ~t.rd /\ t.kind = f.kind
    BY <1>1, <1>2, SwbufStoreFacts
  <2> HIDE DEF s, x, one
  <2>3. ~Full(t, c) => Good(t)
    <3> SUFFICES ASSUME ~Full(t, c) PROVE Good(t)
      OBVIOUS
    <3>1. f.kind # "none"
      BY <2>1, <2>2 DEF Full, Size
    <3>2. Good(x) \/ (Flushable(x) /\ x.kind = "line" /\ x.w = 0 /\ x.lbfsize = 0 /\ Len(one) > 0)
      <4>1. CASE s.p >= Size(s)
        BY <2>1, <4>1
      <4>2. CASE ~(s.p >= Size(s)) /\ ~(f.wr /\ f.made)
        BY <1>3, <2>1, <4>2
      <4>3. CASE ~(s.p >= Size(s)) /\ f.wr /\ f.made
        <5>1. s.p = f.p /\ f.p < BufSize
          BY <1>1, <1>3, <4>3
        <5>2. /\ f.kind = "full" => f.w = BufSize - f.p /\ f.lbfsize = 0
              /\ f.kind = "line" => \/ f.w + f.p = 0 /\ f.lbfsize = -BufSize
                                    \/ f.lbfsize = 0
          BY <1>1, <4>3 DEF Good, WriteOK
        <5>3. f.w - 1 < 0 /\ (f.w - 1 < f.lbfsize \/ c = NL)
          BY <1>1 DEF PutcFast
        <5>4. f.kind # "full"
          BY <1>1, <5>1, <5>2, <5>3
        <5>5. f.kind = "line" /\ f.lbfsize # 0 => c = NL
          BY <1>1, <5>1, <5>2, <5>3
        <5>6. f.kind = "line" => f.lbfsize = 0
          BY <2>2, <5>5 DEF Full
        <5>7. s.kind = "line" /\ s.w = 0 /\ s.lbfsize = 0
          BY <1>1, <1>3, <3>1, <4>3, <5>1, <5>4, <5>6
        <5>8. Len(one) > 0
          BY DEF one
        <5> QED
          BY <1>3, <2>1, <4>3, <5>7, <5>8
      <4> QED
        BY <4>1, <4>2, <4>3
    <3> QED
      BY <2>1, <2>2, <3>1, <3>2, StoreGood
  <2> HIDE DEF t
  <2>4. /\ Good(Sflush(t, j2)) /\ Fits(Sflush(t, j2), 0) /\ ~Sflush(t, j2).rd
    BY <1>1, <2>2, SflushFacts DEF SameMode
  <2>5. CASE Full(t, c)
    <3>1. f' = Sflush(t, j2)
      BY <1>5, <2>5
    <3> QED
      BY <1>2, <2>4, <3>1, IdleInv
  <2>6. CASE ~Full(t, c)
    <3>1. f' = t
      BY <1>5, <2>6
    <3> QED
      BY <1>2, <2>2, <2>3, <2>6, <3>1, IdleInv
  <2> QED
    BY <2>5, <2>6
<1> QED
  BY <1>2, <1>4, <1>5

\* putc.
LEMMA PutcStep ==
    ASSUME IInv, NEW c \in Bytes, NEW j \in Nat, NEW j2 \in Nat, Room > 0,
           Putc(c, j, j2)
    PROVE  IInv'
<1>1. CASE PutcFast(f, c)
  BY <1>1, PutcFastStep DEF Putc
<1>2. CASE ~PutcFast(f, c)
  BY <1>2, PutcSlowStep
<1> QED
  BY <1>1, <1>2

\* A set of natural numbers has a least element.
LEMMA SmallestIn == ASSUME NEW S \in SUBSET Nat, S # {} PROVE \E n \in S : \A m \in S : n <= m
<1> DEFINE R == {xy \in Nat \X Nat : xy[1] < xy[2]}
<1>1. IsWellFoundedOn(R, Nat)
  BY NatLessThanWellFounded, Zenon DEF OpToRel
<1>2. \A x, y \in Nat : << y, x >> \in R <=> y < x
  OBVIOUS
<1> HIDE DEF R
<1>3. PICK n \in S : \A m \in S : ~(<< m, n >> \in R)
  BY <1>1, WFMin
<1>4. ASSUME NEW m \in S PROVE n <= m
  <2>1. m \in Nat /\ n \in Nat /\ ~(m < n)
    BY <1>2, <1>3
  <2> QED
    BY <2>1
<1> QED
  BY <1>4

\* The bytes up to the first newline.
LEMMA LineLenFacts ==
    ASSUME NEW b \in Seq(Bytes), b # << >>
    PROVE  LineLen(b) \in Nat /\ 0 < LineLen(b) /\ LineLen(b) <= Len(b)
<1>1. Len(b) \in Nat /\ 0 < Len(b) /\ DOMAIN b = 1..Len(b)
  BY EmptySeq
<1>2. CASE NL \in Range(b)
  <2> DEFINE S == {i \in DOMAIN b : b[i] = NL}
  <2>1. S \in SUBSET Nat /\ S # {}
    BY <1>1, <1>2 DEF Range
  <2>2. PICK n \in S : \A m \in S : n <= m
    BY <2>1, SmallestIn
  <2>3. Min(S) \in S
    BY <2>2 DEF Min
  <2>4. LineLen(b) = Min(S)
    BY <1>2 DEF LineLen
  <2> QED
    BY <1>1, <2>3, <2>4
<1>3. CASE NL \notin Range(b)
  BY <1>1, <1>3 DEF LineLen
<1> QED
  BY <1>2, <1>3

\* What fwrite has left after n bytes.
LEMMA WroteFacts ==
    ASSUME BusyOK, busy.op = "fwrite", NEW n \in Nat, n <= Len(busy.bytes), Wrote(n)
    PROVE  \/ busy' = NoBusy
           \/ /\ busy' \in [op : Ops, left : Nat, bytes : Seq(Bytes)]
              /\ busy'.op = "fwrite" /\ busy'.bytes # << >>
              /\ Len(busy'.bytes) = Len(busy.bytes) - n
<1>1. /\ busy \in [op : Ops, left : Nat, bytes : Seq(Bytes)]
      /\ busy.bytes \in Seq(Bytes) /\ Len(busy.bytes) \in Nat
  BY DEF BusyOK
<1>2. CASE n # Len(busy.bytes)
  <2> DEFINE d == busy.bytes
             b == SubSeq(d, n + 1, Len(d))
  <2>1. n + 1 \in Nat /\ 0 < n + 1 /\ Len(d) \in Nat /\ Len(d) <= Len(d) /\ n + 1 <= Len(d)
    BY <1>1, <1>2
  <2>2. b \in Seq(Bytes) /\ Len(b) = IF n + 1 <= Len(d) THEN Len(d) - (n + 1) + 1 ELSE 0
    BY <1>1, <2>1, Part, Zenon
  <2>3. busy' = [busy EXCEPT !.bytes = b]
    BY <1>2 DEF Wrote
  <2> HIDE DEF b
  <2>4. Len(b) = Len(d) - n /\ b # << >>
    <3>1. Len(b) = Len(d) - n /\ Len(b) # 0
      BY <2>1, <2>2
    <3>2. Len(<< >>) = 0
      OBVIOUS
    <3> QED
      BY <3>1, <3>2
  <2>5. /\ busy' \in [op : Ops, left : Nat, bytes : Seq(Bytes)]
        /\ busy'.op = busy.op /\ busy'.bytes = b
    BY <1>1, <2>2, <2>3
  <2> QED
    BY <2>4, <2>5
<1>3. CASE n = Len(busy.bytes)
  BY <1>3 DEF Wrote
<1> QED
  BY <1>2, <1>3

\* A turn of fwrite that leaves a good stream which is written.
LEMMA TurnInv ==
    ASSUME IInv, busy.op = "fwrite", NEW n \in Nat, n <= Len(busy.bytes), Wrote(n) \/ busy' = NoBusy,
           NEW t, f' = t, Good(t), t.wr, t.made, Fits(t, Len(busy.bytes) - n), dir' = dir
    PROVE  IInv'
<1>1. /\ BusyOK /\ dir \in {"any", "in", "out"} /\ Len(busy.bytes) \in Nat
      /\ Len(busy.bytes) - n \in Nat /\ 0 <= Len(busy.bytes) - n
  <2>1. BusyOK /\ dir \in {"any", "in", "out"} /\ Len(busy.bytes) \in Nat
    BY DEF IInv, BusyOK, DirOK
  <2> QED
    BY <2>1
<1>2. CASE busy' = NoBusy
  <2>1. t.fdpos \in Nat /\ t.p \in Nat /\ ~t.rd
    BY DEF Good, Stream, ModeOK
  <2>2. Fits(t, 0)
    BY <1>1, <2>1, Sizes DEF Fits
  <2> QED
    BY <1>1, <1>2, <2>1, <2>2, IdleInv
<1>3. CASE /\ busy' \in [op : Ops, left : Nat, bytes : Seq(Bytes)]
           /\ busy'.op = "fwrite" /\ busy'.bytes # << >>
           /\ Len(busy'.bytes) = Len(busy.bytes) - n
  <2>1. Fits(t, Len(busy'.bytes))
    BY <1>3
  <2> QED
    BY <1>1, <1>3, <2>1, WritingInv
<1> QED
  BY <1>1, <1>2, <1>3, WroteFacts

\* fwrite passes bytes to the descriptor.
LEMMA WriteDirectStep ==
    ASSUME IInv, busy.op = "fwrite", NEW m \in Nat, m <= Len(busy.bytes), NEW j \in Nat,
           WriteDirect(m, j), dir' = dir
    PROVE  IInv'
<1> DEFINE n == Min({j, m})
           b == SubSeq(busy.bytes, 1, n)
<1>1. /\ Good(f) /\ f \in Stream /\ f.wr /\ f.made /\ ~f.rd /\ f.fdpos \in Nat /\ f.p \in Nat
      /\ Len(busy.bytes) \in Nat /\ busy.bytes \in Seq(Bytes) /\ MaxLen \in Nat
      /\ f.fdpos + f.p + Len(busy.bytes) <= MaxLen /\ Len(f.disk) \in Nat
      /\ f.fdpos <= Len(f.disk) /\ Len(f.disk) <= MaxLen
  <2>1. Good(f) /\ f \in Stream /\ f.fdpos \in Nat /\ f.p \in Nat /\ MaxLen \in Nat
    BY Context, Sizes
  <2>2. /\ f.wr /\ f.made /\ busy.bytes \in Seq(Bytes) /\ Len(busy.bytes) \in Nat
        /\ f.fdpos + f.p + Len(busy.bytes) <= MaxLen
    BY DEF IInv, BusyOK, Fits
  <2>3. ~f.rd /\ f.fdpos <= Len(f.disk) /\ Len(f.disk) <= MaxLen
    BY <2>1, <2>2 DEF Good, ModeOK, FileOK
  <2>4. Len(f.disk) \in Nat
    BY <2>1 DEF Stream
  <2> QED
    BY <2>1, <2>2, <2>3, <2>4
<1>2. n \in Nat /\ n <= Len(busy.bytes)
  <2>1. n = IF j <= m THEN j ELSE m
    BY MinMax
  <2> HIDE DEF n
  <2> QED
    BY <1>1, <2>1
<1>3. \/ f' = Swrite(f, b) /\ Wrote(n)
      \/ f' = [f EXCEPT !.err = TRUE, !.soff = FALSE, !.offset = 0] /\ busy' = NoBusy
  BY DEF WriteDirect
<1> HIDE DEF n
<1>4. b \in Seq(Bytes) /\ Len(b) = n
  <2>1. 1 \in Nat /\ 0 < 1
    OBVIOUS
  <2>2. b \in Seq(Bytes) /\ Len(b) = IF 1 <= n THEN n - 1 + 1 ELSE 0
    BY <1>1, <1>2, <2>1, Part, Zenon
  <2> HIDE DEF b
  <2> QED
    BY <1>2, <2>2
<1> HIDE DEF b
<1>5. CASE f' = Swrite(f, b) /\ Wrote(n)
  <2> DEFINE t == Swrite(f, b)
  <2>1. /\ t \in Stream /\ t.fdpos = f.fdpos + n
        /\ Len(t.disk) = (IF f.fdpos + n <= Len(f.disk) THEN Len(f.disk) ELSE f.fdpos + n)
        /\ ~t.soff /\ t.offset = 0 /\ SameMode(f, t) /\ SameUb(f, t)
        /\ SameCounters(f, t) /\ t.eof = f.eof
    BY <1>1, <1>4, SwriteFacts
  <2> HIDE DEF t
  <2>2. t.fdpos <= Len(t.disk) /\ Len(t.disk) <= MaxLen
    BY <1>1, <1>2, <2>1
  <2>3. FileOK(t)
    BY <2>1, <2>2 DEF FileOK
  <2>4. Good(t)
    BY <1>1, <2>1, <2>3, GoodKept, GoodFlushable
  <2>5. t.fdpos + t.p + (Len(busy.bytes) - n) <= MaxLen
    BY <1>1, <1>2, <2>1 DEF SameCounters
  <2>6. Fits(t, Len(busy.bytes) - n) /\ t.wr /\ t.made
    BY <1>1, <2>1, <2>5 DEF Fits, SameMode
  <2> QED
    BY <1>2, <1>5, <2>4, <2>6, TurnInv DEF t
<1>6. CASE f' = [f EXCEPT !.err = TRUE, !.soff = FALSE, !.offset = 0] /\ busy' = NoBusy
  <2> DEFINE t == [f EXCEPT !.err = TRUE, !.soff = FALSE, !.offset = 0]
  <2>1. /\ t \in Stream /\ t.fdpos = f.fdpos /\ t.disk = f.disk /\ ~t.soff /\ t.offset = 0
        /\ SameMode(f, t) /\ SameUb(f, t) /\ SameCounters(f, t) /\ t.eof = f.eof
    BY <1>1 DEF Stream, SameMode, SameUb, SameCounters
  <2>2. f' = t
    BY <1>6
  <2> HIDE DEF t
  <2>3. FileOK(t)
    BY <1>1, <2>1 DEF FileOK
  <2>4. Good(t)
    BY <1>1, <2>1, <2>3, GoodKept, GoodFlushable
  <2>5. t.fdpos + t.p + 0 <= MaxLen
    BY <1>1, <2>1 DEF SameCounters
  <2>6. Fits(t, 0) /\ ~t.rd /\ dir \in {"any", "in", "out"}
    BY <1>1, <2>1, <2>5 DEF Fits, SameMode, IInv, DirOK
  <2> QED
    BY <1>6, <2>2, <2>4, <2>6, IdleInv
<1> QED
  BY <1>3, <1>5, <1>6

\* fwrite overruns the buffer of a misfit stream.
LEMMA OverrunStep ==
    ASSUME IInv, Misfit(f), f' = f, busy' = [NoBusy EXCEPT !.op = "overrun"], dir' = dir
    PROVE  IInv'
<1> DEFINE b == [NoBusy EXCEPT !.op = "overrun"]
<1>1. /\ Good(f) /\ Fits(f, 0) /\ NoBusy \in [op : Ops, left : Nat, bytes : Seq(Bytes)]
      /\ NoBusy.bytes = << >> /\ Len(<< >>) = 0
  BY Context
<1>2. b \in [op : Ops, left : Nat, bytes : Seq(Bytes)] /\ b.op = "overrun" /\ b.bytes = << >>
  BY <1>1
<1> HIDE DEF b
<1>3. busy' = b
  BY DEF b
<1>4. Misfit(f')
  BY DEF Misfit
<1>5. BusyOK'
  BY <1>2, <1>3, <1>4 DEF BusyOK
<1>6. DirOK'
  BY DEF IInv, DirOK
<1>7. Good(f') /\ Fits(f', Len(busy'.bytes))
  BY <1>1, <1>2, <1>3
<1> QED
  BY <1>5, <1>6, <1>7 DEF IInv

\* fwrite puts bytes into the buffer.
LEMMA WriteStoredStep ==
    ASSUME IInv, busy.op = "fwrite", f.kind # "none", NEW n \in Nat, n <= Len(busy.bytes),
           f.p + n <= BufSize, NEW flush \in BOOLEAN, NEW j \in Nat,
           WriteBuffered(n, flush, j), dir' = dir
    PROVE  IInv'
<1> DEFINE b == SubSeq(busy.bytes, 1, n)
           s == Store(f, b)
           len == Len(busy.bytes)
<1>1. /\ Good(f) /\ Flushable(f) /\ f.wr /\ f.made /\ f \in Stream
      /\ len \in Nat /\ busy.bytes \in Seq(Bytes) /\ Fits(f, len)
  BY Context, GoodFlushable DEF IInv, BusyOK
<1>2. IF ~flush THEN f' = s /\ Wrote(n)
      ELSE f' = Sflush(s, j) /\ (busy' = NoBusy \/ Wrote(n))
  <2>1. ~(f.p + n > BufSize)
    BY Context, Sizes
  <2> QED
    BY <2>1 DEF WriteBuffered
<1>3. b \in Seq(Bytes) /\ Len(b) = n
  <2>1. 1 \in Nat /\ 0 < 1
    OBVIOUS
  <2>2. b \in Seq(Bytes) /\ Len(b) = IF 1 <= n THEN n - 1 + 1 ELSE 0
    BY <1>1, <2>1, Part, Zenon
  <2> HIDE DEF b
  <2> QED
    BY <2>2
<1> HIDE DEF b
<1>4. Good(s)
  BY <1>1, <1>3, StoreGood
<1>5. Fits(s, len - n)
  <2>1. \A m \in Nat : Fits(f, m) /\ Len(b) <= m => Fits(s, m - Len(b))
    BY <1>1, <1>3, StoreFlushable
  <2> QED
    BY <1>1, <1>3, <2>1
<1>6. s.wr /\ s.made
  BY <1>1, <1>3, StoreFacts DEF SameMode
<1> HIDE DEF s
<1>7. len - n \in Nat /\ s.fdpos \in Nat /\ s.p \in Nat /\ 0 <= len - n /\ MaxLen \in Nat
  BY <1>1, <1>4, Sizes DEF Good, Stream
<1>8. Fits(s, 0)
  BY <1>5, <1>7 DEF Fits
<1>9. Good(Sflush(s, j)) /\ SameMode(s, Sflush(s, j)) /\ Fits(Sflush(s, j), len - n)
  BY <1>4, <1>5, <1>7, <1>8, SflushFacts, GoodFlushable
<1>10. Sflush(s, j).wr /\ Sflush(s, j).made
  BY <1>6, <1>9 DEF SameMode
<1>11. CASE flush
  <2> DEFINE u == Sflush(s, j)
  <2>1. f' = u /\ (busy' = NoBusy \/ Wrote(n)) /\ Good(u) /\ u.wr /\ u.made /\ Fits(u, len - n)
    BY <1>2, <1>9, <1>10, <1>11
  <2> HIDE DEF u
  <2> QED
    BY <2>1, TurnInv
<1>12. CASE ~flush
  BY <1>2, <1>4, <1>5, <1>6, <1>12, TurnInv
<1> QED
  BY <1>11, <1>12

\* They fit, or the stream is misfit.
LEMMA WriteBufferedStep ==
    ASSUME IInv, busy.op = "fwrite", f.kind # "none", NEW n \in Nat, n <= Len(busy.bytes),
           f.p + n <= BufSize \/ Misfit(f), NEW flush \in BOOLEAN, NEW j \in Nat,
           WriteBuffered(n, flush, j), dir' = dir
    PROVE  IInv'
<1>1. CASE f.p + n <= BufSize
  BY <1>1, WriteStoredStep
<1>2. CASE ~(f.p + n <= BufSize)
  <2>1. f.p + n > BufSize
    BY <1>2, Context, Sizes
  <2>2. f' = f /\ busy' = [NoBusy EXCEPT !.op = "overrun"]
    BY <1>2, <2>1 DEF WriteBuffered
  <2> QED
    BY <1>2, <2>2, OverrunStep
<1> QED
  BY <1>1, <1>2

\* Whole buffers.
LEMMA Whole ==
    ASSUME NEW a \in Nat, NEW b \in Nat, 0 < b
    PROVE  b * (a \div b) \in Nat /\ b * (a \div b) <= a
<1>1. a \div b \in Nat
  OBVIOUS
<1>2. b * (a \div b) <= a
  OBVIOUS
<1> QED
  BY <1>1, <1>2

\* A turn of fwrite.
LEMMA FwriteStepStep ==
    ASSUME IInv, NEW j \in Nat, FwriteStep(j) PROVE IInv'
<1> DEFINE len == Len(busy.bytes)
           n == LineLen(busy.bytes)
<1>1. /\ Good(f) /\ f.wr /\ f.made /\ f.p \in Nat /\ f.w \in Int /\ f.kind \in {"full", "line", "none"}
      /\ len \in Nat /\ busy.bytes \in Seq(Bytes) /\ busy.bytes # << >>
      /\ BufSize \in Nat /\ 0 < BufSize /\ busy.op = "fwrite" /\ dir' = dir
  <2>1. /\ Good(f) /\ f.p \in Nat /\ f.w \in Int /\ f \in Stream /\ BufSize \in Nat /\ 0 < BufSize
    BY Context, Sizes
  <2>2. busy.op = "fwrite" /\ dir' = dir
    BY DEF FwriteStep
  <2>3. /\ f.wr /\ f.made /\ busy.bytes \in Seq(Bytes) /\ busy.bytes # << >> /\ len \in Nat
    BY <2>2 DEF IInv, BusyOK
  <2>4. f.kind \in {"full", "line", "none"}
    BY <2>1 DEF Stream
  <2> QED
    BY <2>1, <2>2, <2>3, <2>4
<1>2. /\ f.p <= BufSize
      /\ f.kind = "full" => f.w = BufSize - f.p
      /\ f.kind = "line" => f.w + f.p = 0 \/ (Misfit(f) /\ f.w <= 0 /\ f.w + f.p >= 0)
  BY <1>1 DEF Good, WriteOK, Misfit
<1>3. n \in Nat /\ 0 < n /\ n <= len
  BY <1>1, LineLenFacts
<1>4. CASE f.kind = "none"
  <2>1. WriteDirect(len, j)
    BY <1>4 DEF FwriteStep
  <2>2. len <= len
    BY <1>1
  <2> QED
    BY <1>1, <2>1, <2>2, WriteDirectStep
<1>5. CASE f.kind = "full"
  <2>0. f.w \in Nat /\ f.p + f.w <= BufSize
    BY <1>1, <1>2, <1>5
  <2>1. IF FillAndFlush(f.w, len) THEN WriteBuffered(f.w, TRUE, j)
        ELSE IF len >= BufSize THEN WriteDirect(BufSize * (len \div BufSize), j)
        ELSE WriteBuffered(len, FALSE, j)
    BY <1>5 DEF FwriteStep
  <2>2. CASE FillAndFlush(f.w, len)
    <3>1. f.w <= len
      BY <1>1, <2>2 DEF FillAndFlush
    <3> QED
      BY <1>1, <1>5, <2>0, <2>1, <2>2, <3>1, WriteBufferedStep
  <2>3. CASE ~FillAndFlush(f.w, len) /\ len >= BufSize
    <3> DEFINE m == BufSize * (len \div BufSize)
    <3>1. m \in Nat /\ m <= len
      BY <1>1, Whole
    <3>2. WriteDirect(m, j)
      BY <2>1, <2>3
    <3> HIDE DEF m
    <3> QED
      BY <1>1, <3>1, <3>2, WriteDirectStep
  <2>4. CASE ~FillAndFlush(f.w, len) /\ ~(len >= BufSize)
    <3>1. f.p + len <= BufSize /\ len <= len
      BY <1>1, <1>2, <1>5, <2>4 DEF FillAndFlush
    <3>2. WriteBuffered(len, FALSE, j)
      BY <2>1, <2>4
    <3> QED
      BY <1>1, <1>5, <3>1, <3>2, WriteBufferedStep
  <2> QED
    BY <2>2, <2>3, <2>4
<1>6. CASE f.kind = "line"
  <2> DEFINE room == f.w + BufSize
             fl == busy.bytes[n] = NL
  <2>0. room \in Nat /\ (f.p + room <= BufSize \/ Misfit(f))
    BY <1>1, <1>2, <1>6
  <2>1. IF FillAndFlush(room, n) THEN WriteBuffered(room, TRUE, j)
        ELSE IF n >= BufSize THEN WriteDirect(BufSize, j)
        ELSE WriteBuffered(n, fl, j)
    BY <1>6 DEF FwriteStep
  <2> HIDE DEF n, room
  <2>2. CASE FillAndFlush(room, n)
    <3>1. room <= len
      BY <1>1, <1>3, <2>0, <2>2 DEF FillAndFlush
    <3> QED
      BY <1>1, <1>6, <2>0, <2>1, <2>2, <3>1, WriteBufferedStep
  <2>3. CASE ~FillAndFlush(room, n) /\ n >= BufSize
    <3>1. BufSize <= len
      BY <1>1, <1>3, <2>3
    <3> QED
      BY <1>1, <2>1, <2>3, <3>1, WriteDirectStep
  <2>4. CASE ~FillAndFlush(room, n) /\ ~(n >= BufSize)
    <3>1. f.p + n <= BufSize \/ Misfit(f)
      BY <1>1, <1>2, <1>3, <1>6, <2>0, <2>4 DEF FillAndFlush
    <3>2. WriteBuffered(n, fl, j) /\ fl \in BOOLEAN
      BY <2>1, <2>4
    <3> HIDE DEF fl
    <3> QED
      BY <1>1, <1>3, <1>6, <3>1, <3>2, WriteBufferedStep
  <2> QED
    BY <2>2, <2>3, <2>4
<1> QED
  BY <1>1, <1>4, <1>5, <1>6

\* Where fseeko starts from: the stream, for SEEK_CUR flushed and its offset known.
SeekBase(whence, j) == IF whence = "cur" THEN KnowOffset(Sflush(f, j)) ELSE f

\* The offset it seeks to.
SeekTarget(whence, x, j) ==
    LET s == Made(SeekBase(whence, j)) IN
    CASE whence = "set" -> x
      [] whence = "cur" -> x + Position(s, s.offset)
      [] whence = "end" -> x + Len(Sflush(f, j).disk)

\* What it finds there.
LEMMA SeekFacts ==
    ASSUME IInv, NEW whence \in {"set", "cur", "end"}, NEW j \in Takes, NEW x \in Offsets(whence)
    PROVE  LET a == Sflush(f, j)
               b == SeekBase(whence, j)
               s == Made(b)
           IN  /\ Good(a) /\ Fits(a, 0) /\ (~f.wr \/ ~f.made => a = f)
               /\ Good(b) /\ Fits(b, 0) /\ SameMode(f, b) /\ SameUb(f, b) /\ b.r = f.r
               /\ Flushable(s) /\ Fits(s, 0) /\ (~s.wr => Good(s)) /\ s.made
               /\ s.kind = b.kind /\ s.rd = b.rd /\ s.wr = b.wr /\ s.rw = b.rw
               /\ SeekTarget(whence, x, j) \in Int
               /\ Len(a.disk) \in Nat /\ Len(s.disk) \in Nat /\ Len(Sflush(s, j).disk) \in Nat
               /\ Len(a.disk) <= Len(Sflush(s, j).disk)
<1> DEFINE a == Sflush(f, j)
           b == IF whence = "cur" THEN KnowOffset(a) ELSE f
           s == Made(b)
           n == CASE whence = "set" -> x
                  [] whence = "cur" -> x + Position(s, s.offset)
                  [] whence = "end" -> x + Len(a.disk)
<1>1. b = SeekBase(whence, j) /\ n = SeekTarget(whence, x, j)
  BY DEF SeekBase, SeekTarget
<1>2. /\ Good(f) /\ Flushable(f) /\ Fits(f, 0) /\ j \in Nat
  BY Context, GoodFlushable
<1>3. /\ Good(a) /\ Fits(a, 0) /\ SameMode(f, a) /\ SameUb(f, a) /\ a.r = f.r
      /\ Len(f.disk) <= Len(a.disk) /\ (~f.wr \/ ~f.made => a = f)
  BY <1>2, SflushFacts
\* b is the stream itself or the stream flushed.
<1>4. /\ Good(b) /\ Fits(b, 0) /\ SameMode(f, b) /\ SameUb(f, b) /\ b.r = f.r
      /\ (whence = "cur" => b.disk = a.disk)
  <2>1. CASE whence = "cur"
    <3> DEFINE c == KnowOffset(a)
    <3>1. /\ c \in Stream /\ FileOK(c) /\ c.fdpos = a.fdpos /\ c.disk = a.disk /\ SameMode(a, c)
          /\ SameUb(a, c) /\ SameCounters(a, c) /\ c.eof = a.eof
      BY <1>3, KnowOffsetFacts DEF Good
    <3> HIDE DEF c, a
    <3>2. Good(c) /\ Fits(c, 0)
      BY <1>3, <3>1, GoodFlushable, GoodKept DEF Fits, SameMode, SameCounters
    <3>3. SameMode(f, c) /\ SameUb(f, c) /\ c.r = f.r
      BY <1>3, <3>1 DEF SameMode, SameUb, SameCounters
    <3> QED
      BY <2>1, <3>1, <3>2, <3>3 DEF c
  <2>2. CASE whence # "cur"
    BY <1>2, <2>2 DEF SameMode, SameUb
  <2> QED
    BY <2>1, <2>2
<1> HIDE DEF b
<1>5. /\ Flushable(s) /\ Fits(s, 0) /\ (~s.wr => Good(s)) /\ s.made
      /\ s.kind = b.kind /\ s.rd = b.rd /\ s.wr = b.wr /\ s.rw = b.rw
      /\ SameFile(b, s)
  <2>1. b \in Stream /\ 0 \in Nat
    BY <1>4 DEF Good
  <2> QED
    BY <1>4, <2>1, MadeGood, MadeFacts
<1> HIDE DEF s
<1>6. n \in Int
  <2>1. /\ s.offset \in Nat /\ s.r \in Nat /\ s.ur \in Nat /\ s.p \in Nat
    BY <1>5 DEF Flushable, Stream
  <2>2. Position(s, s.offset) \in Int
    BY <2>1 DEF Position
  <2>3. Len(a.disk) \in Nat
    BY <1>3 DEF Good, Stream
  <2>4. x \in Int
    BY Sizes DEF Offsets
  <2> HIDE DEF a
  <2> QED
    BY <2>2, <2>3, <2>4
<1> HIDE DEF n
<1>7. Len(a.disk) <= Len(Sflush(s, j).disk) /\ Len(s.disk) <= Len(Sflush(s, j).disk)
  <2>1. Len(s.disk) <= Len(Sflush(s, j).disk)
    BY <1>2, <1>5, SflushFacts
  <2>2. CASE whence = "cur"
    BY <1>4, <1>5, <2>1, <2>2 DEF SameFile
  <2>3. CASE whence # "cur" /\ f.wr /\ f.made
    <3>1. s = f
      BY <2>3 DEF s, b, Made
    <3> QED
      BY <1>3, <2>1, <3>1 DEF Good, Stream
  <2>4. CASE whence # "cur" /\ ~(f.wr /\ f.made)
    <3>1. a = f /\ b = f
      BY <1>3, <2>4 DEF b
    <3> QED
      BY <1>5, <2>1, <3>1 DEF SameFile
  <2> QED
    BY <2>1, <2>2, <2>3, <2>4
<1>8. Len(a.disk) \in Nat /\ Len(s.disk) \in Nat /\ Len(Sflush(s, j).disk) \in Nat
  <2>1. a \in Stream /\ s \in Stream /\ Sflush(s, j) \in Stream
    BY <1>2, <1>3, <1>5, SflushFacts DEF Good, Flushable
  <2>2. \A z \in Stream : Len(z.disk) \in Nat
    BY DEF Stream
  <2> QED
    BY <2>1, <2>2
<1> QED
  BY <1>1, <1>3, <1>4, <1>5, <1>6, <1>7, <1>8 DEF s

\* fseek.
LEMMA FseekStep ==
    ASSUME IInv, NEW whence \in {"set", "cur", "end"}, NEW k \in Reads, NEW j \in Takes,
           NEW x \in Offsets(whence), Fseek(whence, x, k, j)
    PROVE  IInv'
<1> DEFINE a == Sflush(f, j)
           b == SeekBase(whence, j)
           s == Made(b)
           n == SeekTarget(whence, x, j)
<1>1. j \in Nat /\ k \in Int /\ k >= -1
  BY Context
<1>2. /\ busy' = NoBusy /\ n <= Len(a.disk)
      /\ \/ n < 0 /\ f' = b /\ dir' = dir
         \/ n >= 0 /\ CanOptimise(s) /\ f' = Optimised(KnowOffset(s), k, n) /\ dir' = "any"
         \/ /\ n >= 0 /\ ~CanOptimise(s) /\ dir' = "any"
            /\ f' = IF FlushFails(s, j) THEN Sflush(s, j) ELSE Dumb(s, j, n)
  BY DEF Fseek, SeekBase, SeekTarget
<1>3. /\ Good(b) /\ Fits(b, 0) /\ SameMode(f, b) /\ SameUb(f, b) /\ b.r = f.r
      /\ Flushable(s) /\ Fits(s, 0) /\ (~s.wr => Good(s)) /\ s.made
      /\ n \in Int
      /\ Len(a.disk) \in Nat /\ Len(s.disk) \in Nat /\ Len(Sflush(s, j).disk) \in Nat
      /\ Len(a.disk) <= Len(Sflush(s, j).disk)
  BY SeekFacts
<1> HIDE DEF a, b, s, n
<1>4. CASE n < 0 /\ f' = b /\ dir' = dir
  <2>1. dir \in {"any", "in", "out"} /\ (f.rw /\ f.rd /\ dir # "in" => f.r = 0 /\ ~f.hasub)
    BY DEF IInv, DirOK
  <2>2. b.rw /\ b.rd /\ dir # "in" => b.r = 0 /\ ~b.hasub
    BY <1>3, <2>1 DEF SameMode, SameUb
  <2> QED
    BY <1>2, <1>3, <1>4, <2>1, <2>2, IdleInv
<1>5. CASE n >= 0 /\ CanOptimise(s) /\ f' = Optimised(KnowOffset(s), k, n) /\ dir' = "any"
  <2> DEFINE c == KnowOffset(s)
             t == Optimised(c, k, n)
  <2>1. Good(s) /\ ~s.wr /\ ~s.rw /\ s.kind # "none"
    BY <1>3, <1>5 DEF CanOptimise
  <2>2. /\ c \in Stream /\ FileOK(c) /\ c.disk = s.disk /\ SameMode(s, c) /\ SameUb(s, c)
        /\ SameCounters(s, c) /\ c.eof = s.eof
    BY <2>1, KnowOffsetFacts DEF Good
  <2>3. f' = t /\ dir' = "any"
    BY <1>5
  <2> HIDE DEF c
  <2>4. Good(c) /\ CanOptimise(c) /\ c.made
    BY <1>3, <1>5, <2>1, <2>2, GoodKept, GoodFlushable DEF CanOptimise, SameMode
  <2>5. n \in Nat /\ n <= Len(c.disk)
    <3>1. Sflush(s, j) = s
      BY <2>1 DEF Sflush
    <3> QED
      BY <1>2, <1>3, <1>5, <2>2, <3>1
  <2>6. Good(t) /\ ~t.rw /\ ~t.wr
    BY <1>1, <2>4, <2>5, OptimisedGood
  <2> HIDE DEF t
  <2>7. Fits(t, 0)
    BY <2>6 DEF Fits
  <2> QED
    BY <1>2, <2>3, <2>6, <2>7, IdleInv
<1>6. CASE /\ n >= 0 /\ ~CanOptimise(s) /\ dir' = "any"
           /\ f' = IF FlushFails(s, j) THEN Sflush(s, j) ELSE Dumb(s, j, n)
  <2>1. CASE FlushFails(s, j)
    <3>1. s.wr
      BY <1>1, <2>1 DEF FlushFails, Buffered
    <3>2. Good(Sflush(s, j)) /\ Fits(Sflush(s, j), 0) /\ SameMode(s, Sflush(s, j))
      BY <1>1, <1>3, SflushFacts
    <3>3. ~Sflush(s, j).rd
      BY <1>3, <3>1, <3>2 DEF SameMode, Flushable, ModeOK
    <3>4. f' = Sflush(s, j) /\ dir' = "any"
      BY <1>6, <2>1
    <3> QED
      BY <1>2, <3>2, <3>3, <3>4, IdleInv
  <2>2. CASE ~FlushFails(s, j)
    <3>1. n \in Nat /\ n <= Len(Sflush(s, j).disk)
      BY <1>2, <1>3, <1>6
    <3> DEFINE t == Dumb(s, j, n)
    <3>2. Good(t) /\ t.r = 0 /\ ~t.hasub /\ Fits(t, 0)
      BY <1>1, <1>3, <3>1, DumbFacts
    <3>3. f' = t /\ dir' = "any"
      BY <1>6, <2>2
    <3> HIDE DEF t
    <3> QED
      BY <1>2, <3>2, <3>3, IdleInv
  <2> QED
    BY <2>1, <2>2
<1> QED
  BY <1>2, <1>4, <1>5, <1>6

\* The invariant is inductive.
LEMMA InvStep == IInv /\ [Next]_vars => IInv'
<1> SUFFICES ASSUME IInv, [Next]_vars PROVE IInv'
  OBVIOUS
<1>1. CASE \E k \in ReadsIf(f.r = 0), j \in Takes : Getc(k, j) \/ FreadStep(k, j)
  <2>1. PICK k \in ReadsIf(f.r = 0), j \in Takes : Getc(k, j) \/ FreadStep(k, j)
    BY <1>1
  <2>2. k \in Reads
    BY ChoiceOK
  <2> QED
    BY <2>1, <2>2, GetcStep, FreadStepStep
<1>2. CASE \E k \in Reads, j \in Takes : FreadDirect(k, j)
  BY <1>2, FreadDirectStep
<1>3. CASE \E c \in Bytes, j \in Takes : Ungetc(c, j)
  BY <1>3, UngetcStep
<1>4. CASE \E c \in Bytes, j \in TakesIf(f.p >= Size(f)), j2 \in 0..(f.p + 1) :
              Room > 0 /\ Putc(c, j, j2)
  <2>1. PICK c \in Bytes, j \in TakesIf(f.p >= Size(f)), j2 \in 0..(f.p + 1) :
                Room > 0 /\ Putc(c, j, j2)
    BY <1>4
  <2>2. j \in Nat /\ j2 \in Nat
    BY ChoiceOK
  <2> QED
    BY <2>1, <2>2, PutcStep
<1>5. CASE \/ \E n \in 1..MaxCount : Fread(n)
           \/ \E c \in Bytes : PutcFails(c)
           \/ UngetcFails \/ FwriteFails
  BY <1>5, SmallSteps
<1>6. CASE Clearerr
  BY <1>6, ClearerrStep
<1>7. CASE \E b \in BoundedSeq(Bytes, Min({MaxCount, Room})) \ {<< >>} : Fwrite(b)
  BY <1>7, FwriteStart
<1>8. CASE \/ \E j \in Takes, all \in BOOLEAN : Fflush(all, j)
           \/ \E j \in Takes : Ftell(j)
  BY <1>8, FflushStep, FtellStep
<1>9. CASE \E j \in 0..Max({BufSize, MaxCount}) : FwriteStep(j)
  <2>1. PICK j \in 0..Max({BufSize, MaxCount}) : FwriteStep(j)
    BY <1>9
  <2>2. Max({BufSize, MaxCount}) = IF BufSize <= MaxCount THEN MaxCount ELSE BufSize
    <3>1. BufSize \in Int /\ MaxCount \in Int
      BY Sizes
    <3> QED
      BY <3>1, MinMax
  <2>3. j \in Nat
    BY <2>2, Sizes
  <2> QED
    BY <2>1, <2>3, FwriteStepStep
<1>10. CASE \E whence \in {"set", "cur", "end"}, k \in ReadsIf(CanOptimise(f)), j \in Takes :
               \E x \in Offsets(whence) : Fseek(whence, x, k, j)
  <2>1. PICK whence \in {"set", "cur", "end"}, k \in ReadsIf(CanOptimise(f)), j \in Takes :
                \E x \in Offsets(whence) : Fseek(whence, x, k, j)
    BY <1>10
  <2>2. k \in Reads
    BY ChoiceOK
  <2> QED
    BY <2>1, <2>2, FseekStep
<1>11. CASE UNCHANGED vars
  BY <1>11 DEF IInv, Good, BusyOK, DirOK, vars
<1>12. CASE Overrun
  BY <1>11, <1>12 DEF Overrun
<1> QED
  BY <1>1, <1>2, <1>3, <1>4, <1>5, <1>6, <1>7, <1>8, <1>9, <1>10, <1>11, <1>12 DEF Next

\* The inductive invariant holds throughout.
LEMMA Invariance == Spec => []IInv
<1> QED
  BY InitInv, InvStep, PTL DEF Spec

-----------------------------------------------------------------------------
(* Theorems *)

\* Types: the file within its bound, the descriptor's offset in the file, and
\* the pointers and counters of the FILE in the range of their buffer, through
\* every sequence of calls, short transfers and errors, with the buffering that
\* fopen, setvbuf or STDBUF choose, up to an fwrite that overruns the buffer of
\* a misfit stream.
THEOREM TypeCorrect == Spec => []TypeOK
<1>1. IInv => TypeOK
  <2> SUFFICES ASSUME IInv PROVE TypeOK
    OBVIOUS
  <2>1. /\ Good(f) /\ f \in Stream /\ f.r \in Nat /\ f.p \in Nat /\ f.fdpos \in Nat
        /\ f.w \in Int /\ f.lbfsize \in Int /\ Size(f) \in Nat /\ Size(f) <= BufSize
        /\ BufSize \in Nat /\ MaxPush \in Nat /\ MaxLen \in Nat /\ 0 < BufSize
    BY Context, Sizes
  <2>2. /\ f.disk \in Seq(Bytes) /\ Len(f.disk) \in Nat /\ f.buf \in [1..BufSize -> Bytes]
        /\ f.ub \in Seq(Bytes) /\ Len(f.ub) \in Nat /\ f.offset \in Nat
        /\ {f.rd, f.wr, f.rw, f.eof, f.err, f.made, f.npt, f.hasub, f.soff} \subseteq BOOLEAN
        /\ f.kind \in {"full", "line", "none"}
    BY <2>1 DEF Stream
  <2>3. /\ f.disk \in BoundedSeq(Bytes, MaxLen) /\ f.fdpos \in 0..Len(f.disk)
        /\ f.offset \in 0..MaxLen
    <3>1. f.fdpos <= Len(f.disk) /\ Len(f.disk) <= MaxLen /\ (f.offset = f.fdpos \/ f.offset = 0)
      BY <2>1, <2>2 DEF Good, FileOK
    <3>2. f.disk \in BoundedSeq(Bytes, MaxLen)
      BY <2>1, <2>2, <3>1, Bounded
    <3> QED
      BY <2>1, <2>2, <3>1, <3>2
  <2>4. f.r \in 0..Max({BufSize, MaxPush})
    <3>1. Max({BufSize, MaxPush}) = IF BufSize <= MaxPush THEN MaxPush ELSE BufSize
      BY <2>1, MinMax
    <3>2. f.r <= BufSize \/ f.r <= MaxPush
      <4>1. CASE f.hasub
        BY <2>1, <4>1 DEF Good, ReadOK
      <4>2. CASE f.rd /\ ~f.hasub
        <5>1. f.p + f.r <= Size(f)
          BY <2>1, <4>2 DEF Good, ReadOK
        <5> QED
          BY <2>1, <5>1
      <4>3. CASE ~f.rd
        BY <2>1, <4>3 DEF Good, ReadOK
      <4> QED
        BY <4>1, <4>2, <4>3
    <3> QED
      BY <2>1, <3>1, <3>2
  <2>5. f.p \in 0..BufSize /\ f.w \in (-BufSize)..BufSize /\ f.lbfsize \in {0, -BufSize}
    <3>1. CASE f.rd
      <4>1. f.w = 0 /\ f.lbfsize = 0 /\ (f.hasub => f.p = 0)
            /\ (~f.hasub => f.p + f.r <= Size(f))
        BY <2>1, <3>1 DEF Good, ReadOK
      <4> QED
        BY <2>1, <4>1
    <3>2. CASE f.wr /\ f.made
      <4>1. /\ f.p <= BufSize
            /\ f.kind = "full" => f.w = BufSize - f.p /\ f.lbfsize = 0
            /\ f.kind = "line" => /\ f.w <= 0 /\ f.w + f.p >= 0
                                  /\ f.lbfsize = -BufSize \/ f.lbfsize = 0
            /\ f.kind = "none" => f.p = 0 /\ f.w = 0 /\ f.lbfsize = 0
        BY <2>1, <3>2 DEF Good, WriteOK
      <4> QED
        BY <2>1, <2>2, <4>1
    <3>3. CASE ~f.rd /\ ~(f.wr /\ f.made)
      <4>1. f.p = 0 /\ f.w = 0 /\ f.lbfsize = 0
        BY <2>1, <3>3 DEF Good, WriteOK
      <4> QED
        BY <2>1, <4>1
    <3> QED
      BY <3>1, <3>2, <3>3
  <2>6. busy.op \in Ops /\ dir \in {"any", "in", "out"}
    BY DEF IInv, BusyOK, DirOK
  <2> QED
    BY <2>2, <2>3, <2>4, <2>5, <2>6 DEF TypeOK
<1> QED
  BY <1>1, Invariance, PTL

\* getc never reads a byte that was not read from the file or pushed back, and
\* putc never stores one beyond the buffer or into a buffer that holds input:
\* the counters that let them work without a call are right after every call.
\* fwrite stores bytes beyond the buffer only in a misfit stream, which STDBUF
\* makes line buffered in an fseek before the first write.
THEOREM BufferSafety == Spec => []BufferSafe
<1>1. IInv => BufferSafe
  <2> SUFFICES ASSUME IInv PROVE BufferSafe
    OBVIOUS
  <2>1. /\ Good(f) /\ f.r \in Nat /\ f.p \in Nat /\ f.w \in Int /\ f.lbfsize \in Int
        /\ BufSize \in Nat /\ 0 < BufSize /\ f.kind \in {"full", "line", "none"}
    BY Context, Sizes DEF Stream
  <2>2. ~(f.rd /\ f.wr)
    BY <2>1 DEF Good, ModeOK
  <2>3. f.r > 0 => f.rd /\ (IF f.hasub THEN f.r = Len(f.ub) ELSE f.p + f.r <= Size(f))
    BY <2>1 DEF Good, ReadOK
  <2>4. f.hasub => f.rd /\ f.r <= f.ubsize /\ f.up + f.ur <= Size(f)
    BY <2>1 DEF Good, ReadOK
  <2>5. f.w > 0 => f.wr /\ f.made /\ f.p + f.w <= Size(f)
    <3> SUFFICES ASSUME f.w > 0 PROVE f.wr /\ f.made /\ f.p + f.w <= Size(f)
      OBVIOUS
    <3>1. f.wr /\ f.made
      BY <2>1 DEF Good, ReadOK, WriteOK
    <3>2. f.kind = "full" /\ f.w = BufSize - f.p
      BY <2>1, <3>1 DEF Good, WriteOK
    <3> QED
      BY <2>1, <3>1, <3>2 DEF Size
  <2>6. f.lbfsize < 0 => f.wr /\ f.p + (f.w - f.lbfsize) <= Size(f)
    <3> SUFFICES ASSUME f.lbfsize < 0 PROVE f.wr /\ f.p + (f.w - f.lbfsize) <= Size(f)
      OBVIOUS
    <3>1. f.wr /\ f.made
      BY <2>1 DEF Good, ReadOK, WriteOK
    <3>2. f.kind = "line" /\ f.w + f.p = 0 /\ f.lbfsize = -BufSize
      BY <2>1, <3>1 DEF Good, WriteOK
    <3> QED
      BY <2>1, <3>1, <3>2 DEF Size
  <2>7. busy.op = "overrun" => Misfit(f)
    BY DEF IInv, BusyOK
  <2> QED
    BY <2>2, <2>3, <2>4, <2>5, <2>6, <2>7 DEF BufferSafe
<1> QED
  BY <1>1, Invariance, PTL

\* While __SOFF is set the cached offset is the descriptor's, so ftell and fseek
\* may use it in place of lseek.
THEOREM OffsetCorrect == Spec => []OffsetKnown
<1>1. IInv => OffsetKnown
  BY DEF IInv, Good, FileOK, OffsetKnown
<1> QED
  BY <1>1, Invariance, PTL

-----------------------------------------------------------------------------
(* What the program sees of a stream, whatever its buffer holds *)

\* The bytes of d from offset n on.
From(d, n) == SubSeq(d, n + 1, Len(d))

\* A part of a sequence, byte by byte.
LEMMA PartAt ==
    ASSUME NEW d \in Seq(Bytes), NEW m \in Nat, NEW n \in Nat, 0 < m, n <= Len(d)
    PROVE  /\ SubSeq(d, m, n) \in Seq(Bytes)
           /\ Len(SubSeq(d, m, n)) = IF m <= n THEN n - m + 1 ELSE 0
           /\ \A i \in 1..(n - m + 1) : SubSeq(d, m, n)[i] = d[m + i - 1]
<1>1. \A i \in m..n : d[i] \in Bytes
  OBVIOUS
<1> QED
  BY <1>1, SubSeqProperties

\* l bytes of a sequence after the first m.
Cut(d, m, l) == SubSeq(d, m + 1, m + l)

\* They are as many as asked for.
LEMMA Piece ==
    ASSUME NEW d \in Seq(Bytes), NEW m \in Nat, NEW l \in Nat, m + l <= Len(d)
    PROVE  /\ SubSeq(d, m + 1, m + l) \in Seq(Bytes) /\ Len(SubSeq(d, m + 1, m + l)) = l
           /\ \A i \in 1..l : SubSeq(d, m + 1, m + l)[i] = d[m + i]
<1> DEFINE a == m + 1
           b == m + l
           u == SubSeq(d, a, b)
<1>1. a \in Nat /\ b \in Nat /\ 0 < a /\ b <= Len(d)
  OBVIOUS
<1>2. b - a + 1 = l /\ (a <= b <=> l > 0) /\ \A i \in 1..l : a + i - 1 = m + i
  OBVIOUS
<1> HIDE DEF a, b
<1>3. /\ u \in Seq(Bytes) /\ Len(u) = IF a <= b THEN b - a + 1 ELSE 0
      /\ \A i \in 1..(b - a + 1) : u[i] = d[a + i - 1]
  BY <1>1, PartAt, Zenon
<1> HIDE DEF u
<1>4. Len(u) = l
  BY <1>2, <1>3
<1>5. ASSUME NEW i \in 1..l PROVE u[i] = d[m + i]
  <2>1. u[i] = d[a + i - 1] /\ a + i - 1 = m + i
    BY <1>2, <1>3, Zenon
  <2> QED
    BY <2>1, Zenon
<1> QED
  BY <1>3, <1>4, <1>5 DEF u, a, b

\* The l bytes of d after the first m are those of e after the first n.
Agree(d, m, e, n, l) == \A i \in 1..l : d[m + i] = e[n + i]

\* Pieces of two sequences with the same bytes.
LEMMA SamePiece ==
    ASSUME NEW d \in Seq(Bytes), NEW e \in Seq(Bytes), NEW m \in Nat, NEW n \in Nat, NEW l \in Nat,
           m + l <= Len(d), n + l <= Len(e), Agree(d, m, e, n, l)
    PROVE  Cut(d, m, l) = Cut(e, n, l)
<1> DEFINE u == SubSeq(d, m + 1, m + l)
           v == SubSeq(e, n + 1, n + l)
<1>1. u \in Seq(Bytes) /\ Len(u) = l /\ \A i \in 1..l : u[i] = d[m + i]
  BY Piece, Zenon
<1>2. v \in Seq(Bytes) /\ Len(v) = l /\ \A i \in 1..l : v[i] = e[n + i]
  BY Piece, Zenon
<1> HIDE DEF u, v
<1>3. u = v
  BY <1>1, <1>2, SeqEqual DEF Agree
<1> QED
  BY <1>3 DEF u, v, Cut

\* The rest of a sequence.
LEMMA FromFacts ==
    ASSUME NEW d \in Seq(Bytes), NEW n \in Nat
    PROVE  /\ From(d, n) \in Seq(Bytes)
           /\ Len(From(d, n)) = IF n <= Len(d) THEN Len(d) - n ELSE 0
           /\ n >= Len(d) => From(d, n) = << >>
           /\ \A i \in Nat : 0 < i /\ n + i <= Len(d) => From(d, n)[i] = d[n + i]
<1>1. Len(d) \in Nat /\ n + 1 \in Nat /\ 0 < n + 1 /\ Len(d) <= Len(d)
  OBVIOUS
<1>2. /\ SubSeq(d, n + 1, Len(d)) \in Seq(Bytes)
      /\ Len(SubSeq(d, n + 1, Len(d))) = IF n + 1 <= Len(d) THEN Len(d) - (n + 1) + 1 ELSE 0
      /\ \A i \in 1..(Len(d) - (n + 1) + 1) : SubSeq(d, n + 1, Len(d))[i] = d[n + 1 + i - 1]
  BY <1>1, PartAt, Zenon
<1> DEFINE u == SubSeq(d, n + 1, Len(d))
<1> HIDE DEF u
<1>3. u \in Seq(Bytes) /\ Len(u) = IF n <= Len(d) THEN Len(d) - n ELSE 0
  BY <1>1, <1>2 DEF u
<1>4. ASSUME n >= Len(d) PROVE u = << >>
  BY <1>1, <1>4, SubSeqEmpty DEF u
<1>5. ASSUME NEW i \in Nat, 0 < i, n + i <= Len(d) PROVE u[i] = d[n + i]
  <2>1. i \in 1..(Len(d) - (n + 1) + 1) /\ n + 1 + i - 1 = n + i
    BY <1>1, <1>5
  <2> QED
    BY <1>2, <2>1 DEF u
<1>6. From(d, n) = u
  BY DEF From, u
<1> QED
  BY <1>3, <1>4, <1>5, <1>6

\* The parts of d from m to n and from n to l make up that from m to l.
Meets(d, m, n, l) == SubSeq(d, m + 1, n) \o SubSeq(d, n + 1, l) = SubSeq(d, m + 1, l)

\* Two adjacent parts.
LEMMA AdjacentParts ==
    ASSUME NEW d \in Seq(Bytes), NEW m \in Nat, NEW n \in Nat, NEW l \in Nat,
           m <= n, n <= l, l <= Len(d)
    PROVE  Meets(d, m, n, l)
<1>1. m + 1 \in 1..(Len(d) + 1) /\ n \in (m + 1 - 1)..Len(d) /\ l \in n..Len(d)
  OBVIOUS
<1>2. SubSeq(d, m + 1, n) \o SubSeq(d, n + 1, l) = SubSeq(d, m + 1, l)
  BY <1>1, ConcatAdjacentSubSeq
<1> QED
  BY <1>2 DEF Meets

\* A part and the rest after it.
LEMMA Adjacent ==
    ASSUME NEW d \in Seq(Bytes), NEW m \in Nat, NEW n \in Nat, m <= n, n <= Len(d)
    PROVE  SubSeq(d, m + 1, n) \o From(d, n) = From(d, m)
<1>1. Len(d) \in Nat /\ Len(d) <= Len(d)
  OBVIOUS
<1>2. Meets(d, m, n, Len(d))
  BY <1>1, AdjacentParts, Zenon
<1> QED
  BY <1>2 DEF From, Meets

\* The rest of a concatenation, and the rest of a rest.
LEMMA FromConcat ==
    ASSUME NEW a \in Seq(Bytes), NEW b \in Seq(Bytes), NEW n \in Nat
    PROVE  /\ SubSeq(a \o b, 1, Len(a)) = a
           /\ From(a \o b, Len(a) + n) = From(b, n)
           /\ From(From(a, n), Len(b)) = From(a, n + Len(b))
<1> DEFINE c == a \o b
<1>1. /\ c \in Seq(Bytes) /\ Len(c) = Len(a) + Len(b)
      /\ \A i \in 1..Len(a) + Len(b) : c[i] = IF i <= Len(a) THEN a[i] ELSE b[i - Len(a)]
  BY ConcatProperties
<1> HIDE DEF c
<1>2. Len(a) \in Nat /\ Len(b) \in Nat /\ Len(a) + n \in Nat /\ n + Len(b) \in Nat
  OBVIOUS
<1>3. SubSeq(c, 1, Len(a)) = a
  <2>1. /\ SubSeq(c, 1, Len(a)) \in Seq(Bytes)
        /\ Len(SubSeq(c, 1, Len(a))) = IF 1 <= Len(a) THEN Len(a) - 1 + 1 ELSE 0
        /\ \A i \in 1..(Len(a) - 1 + 1) : SubSeq(c, 1, Len(a))[i] = c[1 + i - 1]
    <3>1. c \in Seq(Bytes) /\ 1 \in Nat /\ Len(a) \in Nat /\ 0 < 1 /\ Len(a) <= Len(c)
      BY <1>1, <1>2
    <3> QED
      BY <3>1, PartAt, ZenonT(60)
  <2> DEFINE u == SubSeq(c, 1, Len(a))
  <2> HIDE DEF u
  <2>2. u \in Seq(Bytes) /\ Len(u) = Len(a)
    BY <1>2, <2>1 DEF u
  <2>3. \A i \in 1..Len(a) : u[i] = a[i]
    BY <1>1, <1>2, <2>1 DEF u
  <2>4. u = a
    BY <2>2, <2>3, SeqEqual
  <2> QED
    BY <2>4 DEF u
<1>4. From(c, Len(a) + n) = From(b, n)
  <2> DEFINE u == From(c, Len(a) + n)
             v == From(b, n)
  <2>1. /\ u \in Seq(Bytes)
        /\ Len(u) = IF Len(a) + n <= Len(c) THEN Len(c) - (Len(a) + n) ELSE 0
        /\ \A i \in Nat : 0 < i /\ Len(a) + n + i <= Len(c) => u[i] = c[Len(a) + n + i]
    BY <1>1, <1>2, FromFacts, Zenon
  <2>2. /\ v \in Seq(Bytes) /\ Len(v) = IF n <= Len(b) THEN Len(b) - n ELSE 0
        /\ \A i \in Nat : 0 < i /\ n + i <= Len(b) => v[i] = b[n + i]
    BY FromFacts, Zenon
  <2> HIDE DEF u, v
  <2>3. Len(u) = Len(v)
    BY <1>1, <1>2, <2>1, <2>2
  <2>4. ASSUME NEW i \in 1..Len(u) PROVE u[i] = v[i]
    <3>1. i \in Nat /\ 0 < i /\ n + i <= Len(b) /\ Len(a) + n + i <= Len(c)
      BY <1>1, <1>2, <2>1
    <3>2. u[i] = c[Len(a) + n + i] /\ v[i] = b[n + i]
      BY <2>1, <2>2, <3>1
    <3>3. c[Len(a) + n + i] = b[Len(a) + n + i - Len(a)] /\ Len(a) + n + i - Len(a) = n + i
      BY <1>1, <1>2, <3>1
    <3> QED
      BY <3>2, <3>3
  <2>5. u = v
    BY <2>1, <2>2, <2>3, <2>4, SeqEqual
  <2> QED
    BY <2>5 DEF u, v
<1>5. From(From(a, n), Len(b)) = From(a, n + Len(b))
  <2> DEFINE x == From(a, n)
             u == From(x, Len(b))
             v == From(a, n + Len(b))
  <2>1. /\ x \in Seq(Bytes) /\ Len(x) = IF n <= Len(a) THEN Len(a) - n ELSE 0
        /\ \A i \in Nat : 0 < i /\ n + i <= Len(a) => x[i] = a[n + i]
    BY FromFacts, Zenon
  <2> HIDE DEF x
  <2>2. /\ u \in Seq(Bytes) /\ Len(u) = IF Len(b) <= Len(x) THEN Len(x) - Len(b) ELSE 0
        /\ \A i \in Nat : 0 < i /\ Len(b) + i <= Len(x) => u[i] = x[Len(b) + i]
    BY <1>2, <2>1, FromFacts, Zenon
  <2>3. /\ v \in Seq(Bytes)
        /\ Len(v) = IF n + Len(b) <= Len(a) THEN Len(a) - (n + Len(b)) ELSE 0
        /\ \A i \in Nat : 0 < i /\ n + Len(b) + i <= Len(a) => v[i] = a[n + Len(b) + i]
    BY <1>2, FromFacts, Zenon
  <2> HIDE DEF u, v
  <2>4. Len(u) = Len(v)
    BY <1>2, <2>1, <2>2, <2>3
  <2>5. ASSUME NEW i \in 1..Len(u) PROVE u[i] = v[i]
    <3>1. /\ i \in Nat /\ 0 < i /\ Len(b) + i \in Nat /\ 0 < Len(b) + i
          /\ Len(b) + i <= Len(x) /\ n + (Len(b) + i) <= Len(a) /\ n + Len(b) + i <= Len(a)
      BY <1>2, <2>1, <2>2
    <3>2. u[i] = x[Len(b) + i] /\ v[i] = a[n + Len(b) + i]
      BY <2>2, <2>3, <3>1
    <3>3. x[Len(b) + i] = a[n + (Len(b) + i)] /\ n + (Len(b) + i) = n + Len(b) + i
      BY <1>2, <2>1, <3>1
    <3> QED
      BY <3>2, <3>3
  <2>6. u = v
    BY <2>2, <2>3, <2>4, <2>5, SeqEqual
  <2> QED
    BY <2>6 DEF u, v, x
<1> QED
  BY <1>3, <1>4, <1>5 DEF c

\* A write of a and one of b after it are one of both.
TwoWrites(d, n, a, b) == Overwrite(Overwrite(d, n, a), n + Len(a), b) = Overwrite(d, n, a \o b)

\* Writing nothing changes nothing; two writes in a row are one.
LEMMA OverwriteTwice ==
    ASSUME NEW d \in Seq(Bytes), NEW n \in Nat, n <= Len(d),
           NEW a \in Seq(Bytes), NEW b \in Seq(Bytes)
    PROVE  /\ Overwrite(d, n, << >>) = d
           /\ TwoWrites(d, n, a, b)
<1> DEFINE u == SubSeq(d, 1, n)
           ua == u \o a
           v == From(d, n + Len(a))
           o == ua \o v
<1>1. /\ Len(d) \in Nat /\ Len(a) \in Nat /\ Len(b) \in Nat /\ n + Len(a) \in Nat
      /\ n + Len(a) + Len(b) \in Nat
  OBVIOUS
<1>2. u \in Seq(Bytes) /\ Len(u) = n
  <2>1. 1 \in Nat /\ 0 < 1
    OBVIOUS
  <2>2. u \in Seq(Bytes) /\ Len(u) = IF 1 <= n THEN n - 1 + 1 ELSE 0
    BY <1>1, <2>1, PartAt, Zenon
  <2> QED
    BY <2>2
<1>3. v \in Seq(Bytes)
  BY <1>1, FromFacts, Zenon
<1>4. Overwrite(d, n, a) = o
  BY DEF Overwrite, From
<1>5. Overwrite(d, n, << >>) = d
  <2>1. << >> \in Seq(Bytes) /\ Len(<< >>) = 0 /\ n + 0 = n
    OBVIOUS
  <2>2. Overwrite(d, n, << >>) = (u \o << >>) \o From(d, n)
    BY <2>1 DEF Overwrite, From
  <2>3. u \o << >> = u
    BY <1>2, ConcatEmptySeq, Zenon
  <2>4. SubSeq(d, 0 + 1, n) \o From(d, n) = From(d, 0)
    <3>1. 0 \in Nat /\ 0 <= n
      OBVIOUS
    <3> QED
      BY <3>1, Adjacent, Zenon
  <2>5. From(d, 0) = d
    BY SubSeqFull DEF From
  <2> QED
    BY <2>2, <2>3, <2>4, <2>5
<1> HIDE DEF u
<1>6. ua \in Seq(Bytes) /\ Len(ua) = n + Len(a)
  <2>1. ua \in Seq(Bytes) /\ Len(ua) = Len(u) + Len(a)
    BY <1>2, ConcatProperties, Zenon
  <2> QED
    BY <1>2, <2>1
<1> HIDE DEF ua, v
<1>7. /\ SubSeq(o, 1, n + Len(a)) = ua
      /\ From(o, n + Len(a) + Len(b)) = From(v, Len(b))
  <2>1. SubSeq(o, 1, Len(ua)) = ua /\ From(o, Len(ua) + Len(b)) = From(v, Len(b))
    BY <1>1, <1>3, <1>6, FromConcat, Zenon
  <2> QED
    BY <1>6, <2>1
<1>8. From(v, Len(b)) = From(d, n + Len(a) + Len(b))
  BY <1>1, FromConcat, Zenon DEF v
<1>9. Overwrite(o, n + Len(a), b) = (ua \o b) \o From(d, n + Len(a) + Len(b))
  <2>1. Overwrite(o, n + Len(a), b) = (SubSeq(o, 1, n + Len(a)) \o b) \o From(o, n + Len(a) + Len(b))
    BY DEF Overwrite, From
  <2> QED
    BY <1>7, <1>8, <2>1
<1>10. Overwrite(d, n, a \o b) = (u \o (a \o b)) \o From(d, n + Len(a) + Len(b))
  <2>1. Len(a \o b) = Len(a) + Len(b)
    BY ConcatProperties, Zenon
  <2>2. n + Len(a \o b) = n + Len(a) + Len(b)
    BY <1>1, <2>1
  <2>3. Overwrite(d, n, a \o b) = (u \o (a \o b)) \o From(d, n + Len(a \o b))
    BY DEF Overwrite, From, u
  <2> QED
    BY <2>2, <2>3
<1>11. (u \o a) \o b = u \o (a \o b)
  BY <1>2, ConcatAssociative, SMTT(60)
<1> QED
  BY <1>4, <1>5, <1>9, <1>10, <1>11 DEF ua, TwoWrites

\* The buffer is a sequence.
LEMMA BufferSeq ==
    ASSUME NEW b \in [1..BufSize -> Bytes] PROVE b \in Seq(Bytes) /\ Len(b) = BufSize
<1>1. BufSize \in Nat
  BY Sizes
<1> QED
  BY <1>1

DataOf(s) == Overwrite(s.disk, s.fdpos, SubSeq(s.buf, 1, Buffered(s)))
TellOf(s) == Position(s, s.fdpos)
Ahead(s) == IF s.hasub THEN SubSeq(s.buf, s.up + 1, s.up + s.ur)
            ELSE SubSeq(s.buf, s.p + 1, s.p + s.r)
InputOf(s) == IF s.rd THEN s.ub \o Ahead(s) \o From(s.disk, s.fdpos)
              ELSE From(DataOf(s), TellOf(s))

SameView(s, t) == DataOf(t) = DataOf(s) /\ TellOf(t) = TellOf(s) /\ InputOf(t) = InputOf(s)

\* A stream that reads has nothing to write.
LEMMA ReadingView ==
    ASSUME NEW s \in Stream, s.fdpos <= Len(s.disk), s.rd, ~s.wr
    PROVE  /\ DataOf(s) = s.disk
           /\ TellOf(s) = s.fdpos - s.r - (IF s.hasub THEN s.ur ELSE 0)
           /\ InputOf(s) = s.ub \o Ahead(s) \o From(s.disk, s.fdpos)
<1>1. s.disk \in Seq(Bytes) /\ s.fdpos \in Nat /\ << >> \in Seq(Bytes)
  BY DEF Stream
<1>2. Buffered(s) = 0
  BY DEF Buffered
<1>3. SubSeq(s.buf, 1, 0) = << >>
  BY SubSeqEmpty
<1>4. Overwrite(s.disk, s.fdpos, << >>) = s.disk
  BY <1>1, OverwriteTwice, Zenon
<1>5. DataOf(s) = s.disk
  BY <1>2, <1>3, <1>4 DEF DataOf
<1> QED
  BY <1>5 DEF TellOf, Position, InputOf

\* A stream that does not read reads on where it writes.
LEMMA WritingView ==
    ASSUME NEW s, Flushable(s), ~s.rd
    PROVE  /\ Buffered(s) = s.p /\ s.p \in Nat /\ s.p <= BufSize
           /\ SubSeq(s.buf, 1, s.p) \in Seq(Bytes) /\ Len(SubSeq(s.buf, 1, s.p)) = s.p
           /\ DataOf(s) = Overwrite(s.disk, s.fdpos, SubSeq(s.buf, 1, s.p))
           /\ TellOf(s) = s.fdpos + s.p
           /\ InputOf(s) = From(DataOf(s), TellOf(s))
<1>1. /\ s \in Stream /\ s.p \in Nat /\ s.fdpos \in Nat /\ BufSize \in Nat
      /\ s.buf \in [1..BufSize -> Bytes]
  BY Sizes DEF Flushable, Stream
<1>2. s.p <= BufSize /\ Buffered(s) = s.p
  BY <1>1 DEF Flushable, Buffered
<1>3. SubSeq(s.buf, 1, s.p) \in Seq(Bytes) /\ Len(SubSeq(s.buf, 1, s.p)) = s.p
  BY <1>1, <1>2, BufferPart
<1>4. TellOf(s) = s.fdpos + s.p
  BY <1>1 DEF TellOf, Position, Flushable
<1> QED
  BY <1>1, <1>2, <1>3, <1>4 DEF DataOf, InputOf

\* Nothing in the buffers: the program sees the file behind the descriptor.
Clean(s) == IF s.rd THEN s.r = 0 /\ ~s.hasub ELSE s.p = 0

\* What it sees then.
LEMMA CleanView ==
    ASSUME NEW s, Flushable(s), Clean(s)
    PROVE  DataOf(s) = s.disk /\ TellOf(s) = s.fdpos /\ InputOf(s) = From(s.disk, s.fdpos)
<1>1. /\ s \in Stream /\ s.disk \in Seq(Bytes) /\ s.fdpos \in Nat /\ s.fdpos <= Len(s.disk)
      /\ s.p \in Nat /\ << >> \in Seq(Bytes)
  BY DEF Flushable, Stream, FileOK
<1>2. CASE s.rd
  <2>1. /\ DataOf(s) = s.disk
        /\ TellOf(s) = s.fdpos - s.r - (IF s.hasub THEN s.ur ELSE 0)
        /\ InputOf(s) = s.ub \o Ahead(s) \o From(s.disk, s.fdpos)
    BY <1>1, <1>2, ReadingView DEF Flushable, ModeOK
  <2>2. s.r = 0 /\ ~s.hasub /\ s.ub = << >>
    BY <1>2 DEF Clean, Flushable, ReadOK
  <2>3. Ahead(s) = << >>
    BY <1>1, <2>2, SubSeqEmpty DEF Ahead
  <2>4. From(s.disk, s.fdpos) \in Seq(Bytes)
    BY <1>1, FromFacts, Zenon
  <2>5. << >> \o << >> = << >> /\ << >> \o From(s.disk, s.fdpos) = From(s.disk, s.fdpos)
    BY <1>1, <2>4, ConcatEmptySeq, Zenon
  <2>6. TellOf(s) = s.fdpos
    BY <1>1, <2>1, <2>2
  <2> QED
    BY <2>1, <2>2, <2>3, <2>5, <2>6
<1>3. CASE ~s.rd
  <2>1. s.p = 0
    BY <1>3 DEF Clean
  <2>2. /\ DataOf(s) = Overwrite(s.disk, s.fdpos, SubSeq(s.buf, 1, s.p))
        /\ TellOf(s) = s.fdpos + s.p /\ InputOf(s) = From(DataOf(s), TellOf(s))
    BY <1>3, WritingView
  <2>3. SubSeq(s.buf, 1, 0) = << >>
    BY SubSeqEmpty
  <2>4. Overwrite(s.disk, s.fdpos, << >>) = s.disk
    BY <1>1, OverwriteTwice, Zenon
  <2>5. TellOf(s) = s.fdpos
    BY <1>1, <2>1, <2>2
  <2> QED
    BY <2>1, <2>2, <2>3, <2>4, <2>5
<1> QED
  BY <1>2, <1>3

-----------------------------------------------------------------------------
(* What the operators keep of it *)

\* End of file was seen there, with nothing left to read before it.
EndOK(s) == s.eof => s.rd /\ s.r = 0 /\ ~s.hasub /\ s.fdpos = Len(s.disk)

\* The buffer of a stream that is only read holds the bytes before the
\* descriptor's offset, those already read included.
ReadAhead(s) ==
    s.rd /\ ~s.rw /\ s.kind # "none" =>
       /\ BufCount(s) <= s.fdpos
       /\ \A i \in 1..BufCount(s) : s.buf[i] = s.disk[s.fdpos - BufCount(s) + i]

\* A stream that has no buffer yet has nothing in it.
MadeOK(s) == ~s.made => s.p = 0 /\ (IF s.hasub THEN s.ur = 0 ELSE s.r = 0)

More(s) == EndOK(s) /\ ReadAhead(s) /\ MadeOK(s)

\* A stream that does not read is at no end of file, and its buffer is no copy.
LEMMA MoreWriting ==
    ASSUME NEW s, ~s.rd, ~s.eof, s.made \/ (s.p = 0 /\ s.r = 0 /\ ~s.hasub) PROVE More(s)
  BY DEF More, EndOK, ReadAhead, MadeOK

\* A flush that does not fail changes nothing the program sees, and leaves
\* nothing to write.
LEMMA SflushView ==
    ASSUME NEW s, Flushable(s), Fits(s, 0), NEW j \in Nat, ~FlushFails(s, j)
    PROVE  /\ SameView(s, Sflush(s, j))
           /\ ~s.rd => Clean(Sflush(s, j)) /\ Sflush(s, j).disk = DataOf(s)
                       /\ Sflush(s, j).fdpos = TellOf(s)
           /\ More(s) => More(Sflush(s, j))
<1> DEFINE t == Sflush(s, j)
<1>1. CASE ~s.wr \/ ~s.made
  <2>1. t = s
    BY <1>1, SflushFacts
  <2> HIDE DEF t
  <2>2. ~s.rd => Clean(s)
    BY <1>1 DEF Flushable, Clean
  <2>3. ~s.rd => s.disk = DataOf(s) /\ s.fdpos = TellOf(s)
    BY <2>2, CleanView
  <2>4. SameView(s, t) /\ (~s.rd => Clean(t) /\ t.disk = DataOf(s) /\ t.fdpos = TellOf(s))
        /\ (More(s) => More(t))
    BY <2>1, <2>2, <2>3 DEF SameView
  <2> QED
    BY <2>4 DEF t
<1>2. CASE s.wr /\ s.made
  <2>1. /\ s \in Stream /\ ~s.rd /\ s.p \in Nat /\ s.fdpos \in Nat /\ s.disk \in Seq(Bytes)
        /\ s.fdpos <= Len(s.disk) /\ s.w \in Int /\ << >> \in Seq(Bytes)
    BY <1>2 DEF Flushable, ModeOK, Stream, FileOK
  <2>2. /\ Buffered(s) = s.p
        /\ SubSeq(s.buf, 1, s.p) \in Seq(Bytes) /\ Len(SubSeq(s.buf, 1, s.p)) = s.p
        /\ DataOf(s) = Overwrite(s.disk, s.fdpos, SubSeq(s.buf, 1, s.p))
        /\ TellOf(s) = s.fdpos + s.p
        /\ InputOf(s) = From(DataOf(s), TellOf(s))
    BY <2>1, WritingView
  <2>3. Min({j, Buffered(s)}) = s.p
    <3>1. ~(j < s.p)
      BY <2>2 DEF FlushFails
    <3>2. Min({j, s.p}) = IF j <= s.p THEN j ELSE s.p
      BY <2>1, MinMax
    <3> QED
      BY <2>1, <2>2, <3>1, <3>2
  <2>4. /\ Good(t) /\ SameMode(s, t) /\ SameUb(s, t) /\ t.eof = s.eof /\ t.r = s.r /\ t.p = 0
    BY <1>2, SflushFacts
  <2>5. t.disk = DataOf(s) /\ t.fdpos = TellOf(s)
    <3>1. CASE s.p > 0
      <4>1. t = [Swrite(s, SubSeq(s.buf, 1, s.p))
                  EXCEPT !.p = 0, !.w = IF s.kind = "full" THEN BufSize ELSE 0,
                         !.err = @ \/ FlushFails(s, j)]
        BY <1>2, <2>3, <3>1 DEF Sflush
      <4>2. /\ t.disk = Overwrite(s.disk, s.fdpos, SubSeq(s.buf, 1, s.p))
            /\ t.fdpos = s.fdpos + Len(SubSeq(s.buf, 1, s.p))
        <5> DEFINE B == SubSeq(s.buf, 1, s.p)
        <5> HIDE DEF B
        <5>1. t = [Swrite(s, B)
                  EXCEPT !.p = 0, !.w = IF s.kind = "full" THEN BufSize ELSE 0,
                         !.err = @ \/ FlushFails(s, j)]
          BY <4>1 DEF B
        <5> HIDE DEF t
        <5>2. Swrite(s, B).disk = Overwrite(s.disk, s.fdpos, B) /\ Swrite(s, B).fdpos = s.fdpos + Len(B)
          BY <2>1 DEF Swrite, Stream
        <5>3. Swrite(s, B) \in Stream
          BY <2>1, <2>2, SwriteFacts DEF B
        <5>4. t.disk = Swrite(s, B).disk /\ t.fdpos = Swrite(s, B).fdpos
          BY <5>1, <5>3 DEF Stream
        <5> QED
          BY <5>2, <5>4 DEF B
      <4> QED
        BY <2>2, <4>2
    <3>2. CASE ~(s.p > 0)
      <4>1. s.p = 0
        BY <2>1, <3>2
      <4>2. DataOf(s) = s.disk /\ TellOf(s) = s.fdpos
        BY <2>1, <4>1, CleanView DEF Clean
      <4>3. SameFile(s, t)
        BY <4>1, SflushFacts
      <4> QED
        BY <4>2, <4>3 DEF SameFile
    <3> QED
      BY <3>1, <3>2
  <2> HIDE DEF t
  <2>6. ~t.rd /\ t.made /\ Clean(t)
    BY <1>2, <2>1, <2>4 DEF SameMode, Clean
  <2>7. Flushable(t)
    BY <2>4, GoodFlushable
  <2>8. DataOf(t) = t.disk /\ TellOf(t) = t.fdpos /\ InputOf(t) = From(t.disk, t.fdpos)
    BY <2>6, <2>7, CleanView
  <2>9. SameView(s, t)
    BY <2>2, <2>5, <2>8 DEF SameView
  <2>10. More(s) => More(t)
    <3>1. More(s) => ~s.eof
      BY <2>1 DEF More, EndOK
    <3> QED
      BY <2>4, <2>6, <3>1, MoreWriting
  <2> QED
    BY <2>5, <2>6, <2>9, <2>10 DEF t
<1> QED
  BY <1>1, <1>2

\* Between a stream with nothing in its buffers and another on the same place.
LEMMA CleanSame ==
    ASSUME NEW s, NEW t, Flushable(s), Flushable(t), Clean(s), Clean(t),
           t.disk = s.disk, t.fdpos = s.fdpos
    PROVE  SameView(s, t)
  BY CleanView DEF SameView

\* Getting a buffer.
LEMMA MadeView ==
    ASSUME NEW s, Good(s), More(s)
    PROVE  SameView(s, Made(s)) /\ More(Made(s)) /\ Made(s).p = s.p /\ Made(s).buf = s.buf
<1>1. CASE s.made
  BY <1>1 DEF Made, SameView
<1>2. CASE ~s.made
  <2> DEFINE t == Made(s)
  <2>1. /\ s \in Stream /\ s.p = 0 /\ (s.wr => ~s.rd)
    BY <1>2 DEF Good, More, MadeOK, ModeOK
  <2>2. /\ t.made /\ t.kind = s.kind /\ t.rd = s.rd /\ t.wr = s.wr /\ t.rw = s.rw
        /\ SameFile(s, t) /\ SameUb(s, t) /\ t.eof = s.eof /\ t.r = s.r /\ t.p = s.p
    BY <1>2, <2>1, MadeFacts
  <2>3. t.buf = s.buf
    BY <1>2, <2>1 DEF Made, Stream
  <2> HIDE DEF t
  <2>4. Buffered(t) = Buffered(s)
    BY <1>2, <2>1, <2>2 DEF Buffered
  <2>5. SameView(s, t)
    BY <2>2, <2>3, <2>4 DEF SameView, DataOf, TellOf, InputOf, Ahead, Position, SameFile, SameUb
  <2>6. BufCount(t) = BufCount(s)
    BY <2>2 DEF BufCount, SameUb
  <2>7. More(t)
    BY <2>2, <2>3, <2>6 DEF More, EndOK, ReadAhead, MadeOK, SameFile, SameUb
  <2> QED
    BY <2>2, <2>3, <2>5, <2>7 DEF t
<1> QED
  BY <1>1, <1>2

\* The switch to reading.
LEMMA StartReadingView ==
    ASSUME NEW s, Good(s), ~s.rd, Fits(s, 0), NEW j \in Nat, ~FlushFails(s, j), More(s)
    PROVE  LET t == StartReading(s, j) IN
           SameView(s, t) /\ t.r = 0 /\ t.p = 0 /\ ~t.eof /\ (s.rw => More(t))
<1> DEFINE x == Sflush(s, j)
           t == StartReading(s, j)
<1>1. Flushable(s)
  BY GoodFlushable
<1>2. SameView(s, x) /\ Clean(x) /\ x.disk = DataOf(s) /\ x.fdpos = TellOf(s) /\ More(x)
  BY <1>1, SflushView
<1>3. Good(x) /\ SameMode(s, x) /\ SameUb(s, x) /\ x.eof = s.eof /\ x.r = s.r
  BY <1>1, SflushFacts
<1>4. Good(t) /\ t.rd /\ ~t.hasub /\ t.ub = << >> /\ t.rw = s.rw
  BY StartReadingFacts
<1>5. x \in Stream
  BY <1>3 DEF Good
<1>6. /\ t.disk = x.disk /\ t.fdpos = x.fdpos /\ t.r = x.r /\ t.p = x.p /\ t.made = x.made
      /\ t.eof = x.eof
  <2> HIDE DEF x
  <2>1. t = [x EXCEPT !.wr = FALSE, !.rd = TRUE,
                         !.w = IF s.wr THEN 0 ELSE @, !.lbfsize = IF s.wr THEN 0 ELSE @]
    BY DEF StartReading, x
  <2> HIDE DEF t
  <2> QED
    BY <1>5, <2>1 DEF Stream
<1> HIDE DEF x, t
<1>7. t.r = 0 /\ ~t.eof /\ ~x.rd /\ x.p = 0 /\ t.p = 0
  BY <1>2, <1>3, <1>6 DEF Good, ReadOK, More, EndOK, SameMode, Clean
<1>8. Clean(t)
  BY <1>4, <1>7 DEF Clean
<1>9. Flushable(x) /\ Flushable(t)
  BY <1>3, <1>4, GoodFlushable
<1>10. SameView(x, t)
  BY <1>2, <1>6, <1>8, <1>9, CleanSame
<1>11. s.rw => More(t)
  BY <1>4, <1>7 DEF More, EndOK, ReadAhead, MadeOK
<1>12. SameView(s, t)
  BY <1>2, <1>10 DEF SameView
<1> QED
  BY <1>7, <1>11, <1>12 DEF t

\* What __srefill reads: the next bytes of the file, and none only at its end.
LEMMA FillGives ==
    ASSUME NEW s \in Stream, FileOK(s), NEW k \in Int, k = -1 \/ k > 0, NEW n \in Nat, n > 0
    PROVE  LET t == Fill(s, k, n) IN
           /\ t.r \in Nat /\ t.r <= n /\ t.fdpos = s.fdpos + t.r /\ t.fdpos <= Len(s.disk)
           /\ \A i \in 1..BufSize : i <= t.r => t.buf[i] = s.disk[s.fdpos + i]
           /\ t.eof => s.eof \/ (t.r = 0 /\ s.fdpos = Len(s.disk))
           /\ s.eof => t.eof
<1> DEFINE x == [s EXCEPT !.p = 0]
           c == ReadCount(s, k, n)
           y == Sread(x, c)
           t == Fill(s, k, n)
<1>1. /\ s.fdpos \in Nat /\ Len(s.disk) \in Nat /\ s.fdpos <= Len(s.disk) /\ BufSize \in Nat
      /\ s.offset \in Nat /\ s.soff \in BOOLEAN /\ s.eof \in BOOLEAN /\ k >= -1
  BY Sizes DEF Stream, FileOK
<1>2. /\ c \in Int /\ c >= -1 /\ c <= n /\ c <= Len(s.disk) - s.fdpos
      /\ c \in {-1, k, n, Len(s.disk) - s.fdpos}
  BY <1>1, ReadCountFacts
<1>3. c = 0 => s.fdpos = Len(s.disk)
  BY <1>1, <1>2
<1> HIDE DEF c
<1>4. /\ x \in Stream /\ x.disk = s.disk /\ x.fdpos = s.fdpos /\ x.soff = s.soff
      /\ x.offset = s.offset /\ x.eof = s.eof /\ x.buf = s.buf
  BY DEF Stream
<1> HIDE DEF x
<1>5. FileOK(x)
  BY <1>4 DEF FileOK
<1>6. /\ y \in Stream /\ y.eof = s.eof
      /\ y.fdpos = IF c = -1 THEN s.fdpos ELSE s.fdpos + c
  BY <1>2, <1>4, <1>5, SreadFacts
<1>7. c # -1 => \A i \in 1..BufSize : i <= c => y.buf[i] = s.disk[s.fdpos + i]
  <2>1. ASSUME c # -1, NEW i \in 1..BufSize, i <= c PROVE y.buf[i] = s.disk[s.fdpos + i]
    <3>1. s.buf \in [1..BufSize -> Bytes]
      BY DEF Stream
    <3>2. y.buf = [l \in DOMAIN x.buf |-> IF l <= c THEN x.disk[x.fdpos + l] ELSE x.buf[l]]
      BY <1>4, <2>1 DEF Sread, Stream
    <3>3. DOMAIN x.buf = 1..BufSize
      BY <1>4, <3>1
    <3> QED
      BY <1>4, <2>1, <3>2, <3>3
  <2> QED
    BY <2>1
<1>8. t = [y EXCEPT !.r = Max({c, 0}), !.eof = @ \/ c = 0, !.err = @ \/ c = -1]
  BY DEF Fill, c, x
<1> HIDE DEF y, t
<1>9. Max({c, 0}) = IF c <= 0 THEN 0 ELSE c
  <2>1. 0 \in Int
    OBVIOUS
  <2> QED
    BY <1>2, <2>1, MinMax, Zenon
<1>10. /\ t.r = IF c <= 0 THEN 0 ELSE c
       /\ t.fdpos = y.fdpos /\ t.buf = y.buf /\ t.eof = (y.eof \/ c = 0)
  BY <1>6, <1>8, <1>9 DEF Stream
<1>11. t.r \in Nat /\ t.r <= n /\ t.fdpos = s.fdpos + t.r /\ t.fdpos <= Len(s.disk)
  BY <1>1, <1>2, <1>6, <1>10
<1>12. ASSUME NEW i \in 1..BufSize, i <= t.r PROVE t.buf[i] = s.disk[s.fdpos + i]
  <2>1. c # -1 /\ i <= c
    BY <1>2, <1>10, <1>12
  <2> QED
    BY <1>7, <1>10, <2>1
<1>13. (t.eof => s.eof \/ (t.r = 0 /\ s.fdpos = Len(s.disk))) /\ (s.eof => t.eof)
  BY <1>3, <1>6, <1>10
<1> QED
  BY <1>11, <1>12, <1>13 DEF t

\* A refill that fits into the buffer changes nothing the program sees.
LEMMA FillView ==
    ASSUME NEW s, Good(s), s.rd, s.made, s.r = 0, ~s.hasub, ~s.eof,
           NEW k \in Int, k = -1 \/ k > 0, NEW n \in Nat, n > 0, n <= Size(s)
    PROVE  LET t == Fill(s, k, n) IN
           /\ SameView(s, t) /\ More(t)
           /\ t.eof => InputOf(s) = << >>
<1> DEFINE t == Fill(s, k, n)
<1>1. /\ s \in Stream /\ FileOK(s) /\ s.disk \in Seq(Bytes) /\ s.fdpos \in Nat
      /\ Len(s.disk) \in Nat /\ s.fdpos <= Len(s.disk) /\ ~s.wr /\ s.ub = << >>
      /\ s.eof \in BOOLEAN /\ k >= -1
  BY DEF Good, Stream, FileOK, ModeOK, ReadOK
<1>2. BufSize \in Nat /\ Size(s) \in Nat /\ Size(s) <= BufSize
  BY <1>1, Sizes
<1>3. /\ t \in Stream /\ FileOK(t) /\ SameMode(s, t) /\ SameUb(s, t) /\ t.disk = s.disk /\ t.p = 0
  BY <1>1, FillFacts
<1>4. /\ t.r \in Nat /\ t.r <= n /\ t.fdpos = s.fdpos + t.r /\ t.fdpos <= Len(s.disk)
      /\ \A i \in 1..BufSize : i <= t.r => t.buf[i] = s.disk[s.fdpos + i]
      /\ t.eof => t.r = 0 /\ s.fdpos = Len(s.disk)
  BY <1>1, FillGives
<1> HIDE DEF t
<1>5. Flushable(s) /\ Clean(s)
  BY GoodFlushable DEF Clean
<1>6. DataOf(s) = s.disk /\ TellOf(s) = s.fdpos /\ InputOf(s) = From(s.disk, s.fdpos)
  BY <1>5, CleanView
<1>7. t.rd /\ ~t.wr /\ ~t.hasub /\ t.ub = << >> /\ t.made /\ t.buf \in [1..BufSize -> Bytes]
  BY <1>1, <1>3 DEF SameMode, SameUb, Stream
<1>8. /\ DataOf(t) = t.disk
      /\ TellOf(t) = t.fdpos - t.r - (IF t.hasub THEN t.ur ELSE 0)
      /\ InputOf(t) = t.ub \o Ahead(t) \o From(t.disk, t.fdpos)
  BY <1>3, <1>4, <1>7, ReadingView
<1>9. Ahead(t) = SubSeq(s.disk, s.fdpos + 1, s.fdpos + t.r)
  <2>1. t.buf \in Seq(Bytes) /\ Len(t.buf) = BufSize
    BY <1>7, BufferSeq
  <2>2. /\ s.disk \in Seq(Bytes) /\ t.p \in Nat /\ s.fdpos \in Nat /\ t.r \in Nat
        /\ t.p + t.r <= Len(t.buf) /\ s.fdpos + t.r <= Len(s.disk)
    BY <1>1, <1>2, <1>3, <1>4, <2>1
  <2>3. Agree(t.buf, t.p, s.disk, s.fdpos, t.r)
    BY <1>2, <1>3, <1>4 DEF Agree
  <2>4. Cut(t.buf, t.p, t.r) = Cut(s.disk, s.fdpos, t.r)
    BY <2>1, <2>2, <2>3, SamePiece
  <2> QED
    BY <1>7, <2>4 DEF Ahead, Cut
<1>10. InputOf(t) = From(s.disk, s.fdpos)
  <2>1. Ahead(t) \o From(s.disk, t.fdpos) = From(s.disk, s.fdpos)
    <3>1. s.fdpos + t.r \in Nat /\ s.fdpos <= s.fdpos + t.r /\ s.fdpos + t.r <= Len(s.disk)
      BY <1>1, <1>4
    <3>2. SubSeq(s.disk, s.fdpos + 1, s.fdpos + t.r) \o From(s.disk, s.fdpos + t.r)
              = From(s.disk, s.fdpos)
      BY <1>1, <3>1, Adjacent, Zenon
    <3> QED
      BY <1>4, <1>9, <3>2
  <2>2. Ahead(t) \in Seq(Bytes)
    <3>1. s.fdpos + t.r <= Len(s.disk)
      BY <1>4
    <3> QED
      BY <1>1, <1>4, <1>9, <3>1, Piece
  <2>3. << >> \o Ahead(t) = Ahead(t)
    BY <2>2, ConcatEmptySeq, Zenon
  <2> QED
    BY <1>3, <1>7, <1>8, <2>1, <2>3
<1>11. SameView(s, t)
  <2>1. TellOf(t) = s.fdpos
    BY <1>1, <1>4, <1>7, <1>8
  <2> QED
    BY <1>3, <1>6, <1>8, <1>10, <2>1 DEF SameView
<1>12. More(t)
  <2>1. EndOK(t)
    BY <1>1, <1>3, <1>4, <1>7 DEF EndOK
  <2>2. BufCount(t) = t.r
    BY <1>3, <1>4, <1>7 DEF BufCount
  <2>3. ReadAhead(t)
    <3>1. t.r <= t.fdpos
      BY <1>1, <1>4
    <3>2. ASSUME NEW i \in 1..t.r PROVE t.buf[i] = t.disk[t.fdpos - t.r + i]
      <4>1. i \in 1..BufSize /\ i <= t.r /\ t.fdpos - t.r + i = s.fdpos + i
        BY <1>1, <1>2, <1>4
      <4> QED
        BY <1>3, <1>4, <4>1
    <3> QED
      BY <2>2, <3>1, <3>2 DEF ReadAhead
  <2>4. MadeOK(t)
    BY <1>7 DEF MadeOK
  <2> QED
    BY <2>1, <2>3, <2>4 DEF More
<1>13. ASSUME t.eof PROVE InputOf(s) = << >>
  <2>1. s.fdpos >= Len(s.disk)
    BY <1>1, <1>4, <1>13
  <2>2. From(s.disk, s.fdpos) = << >>
    BY <1>1, <2>1, FromFacts, Zenon
  <2> QED
    BY <1>6, <2>2
<1> QED
  BY <1>11, <1>12, <1>13 DEF t

\* Dropping an ungetc buffer that is empty, with nothing in the buffer behind it.
LEMMA FreeUbView ==
    ASSUME NEW s, Good(s), More(s), s.rd, s.r = 0, s.hasub => s.ur = 0
    PROVE  LET t == FreeUb(s) IN
           Good(t) /\ SameView(s, t) /\ More(t) /\ t.r = 0 /\ ~t.hasub /\ t.rd /\ t.eof = s.eof
           /\ t.kind = s.kind
<1> DEFINE t == FreeUb(s)
<1>1. /\ s \in Stream /\ s.fdpos \in Nat /\ s.disk \in Seq(Bytes) /\ s.fdpos <= Len(s.disk)
      /\ ~s.wr /\ s.ub = << >> /\ s.up \in Nat /\ s.p \in Nat /\ << >> \in Seq(Bytes)
      /\ s.p + s.r <= Size(s)
  <2>1. s \in Stream /\ s.ub \in Seq(Bytes) /\ s.hasub \in BOOLEAN /\ Len(<< >>) = 0
    BY DEF Good, Stream
  <2>2. s.ub = << >>
    <3>1. CASE s.hasub
      <4>1. Len(s.ub) = 0
        BY <3>1 DEF Good, ReadOK
      <4> QED
        BY <2>1, <4>1
    <3>2. CASE ~s.hasub
      BY <3>2 DEF Good, ReadOK
    <3> QED
      BY <3>1, <3>2
  <2>3. s.p + s.r <= Size(s)
    BY <2>1, Sizes DEF Good, ReadOK
  <2> QED
    BY <2>1, <2>2, <2>3 DEF Good, Stream, FileOK, ModeOK
<1>2. /\ t \in Stream /\ ~t.hasub /\ t.ub = << >> /\ t.eof = s.eof
      /\ SameMode(s, t) /\ SameFile(s, t) /\ SameCounters(s, t)
  BY <1>1, FreeUbFacts
<1>3. t.buf = s.buf
  BY <1>1 DEF FreeUb, Stream
<1> HIDE DEF t
<1>4. t.rd /\ ~t.wr /\ t.r = 0 /\ t.p = s.p /\ t.disk = s.disk /\ t.fdpos = s.fdpos
      /\ t.kind = s.kind /\ t.rw = s.rw /\ t.made = s.made
  BY <1>1, <1>2 DEF SameMode, SameFile, SameCounters
<1>5. Good(t)
  <2>1. FileOK(t) /\ ModeOK(t) /\ WriteOK(t)
    BY <1>2, <1>4 DEF Good, FileOK, ModeOK, WriteOK, SameMode, SameFile, SameCounters
  <2>2. Size(t) = Size(s)
    BY <1>4 DEF Size
  <2>3. ReadOK(t)
    BY <1>1, <1>2, <1>4, <2>2 DEF ReadOK, Good, SameCounters
  <2> QED
    BY <1>2, <2>1, <2>3 DEF Good
<1>6. Flushable(t) /\ Clean(t)
  BY <1>2, <1>4, <1>5, GoodFlushable DEF Clean
<1>7. DataOf(t) = t.disk /\ TellOf(t) = t.fdpos /\ InputOf(t) = From(t.disk, t.fdpos)
  BY <1>6, CleanView
<1>8. /\ DataOf(s) = s.disk /\ TellOf(s) = s.fdpos - s.r - (IF s.hasub THEN s.ur ELSE 0)
      /\ InputOf(s) = s.ub \o Ahead(s) \o From(s.disk, s.fdpos)
  BY <1>1, ReadingView
<1>9. Ahead(s) = << >>
  BY <1>1, SubSeqEmpty DEF Ahead
<1>10. From(s.disk, s.fdpos) \in Seq(Bytes)
  BY <1>1, FromFacts, Zenon
<1>11. << >> \o << >> = << >> /\ << >> \o From(s.disk, s.fdpos) = From(s.disk, s.fdpos)
  BY <1>1, <1>10, ConcatEmptySeq, Zenon
<1>12. TellOf(s) = s.fdpos
  BY <1>1, <1>8
<1>13. SameView(s, t)
  BY <1>1, <1>4, <1>7, <1>8, <1>9, <1>11, <1>12 DEF SameView
<1>14. More(t)
  <2>1. EndOK(t) /\ MadeOK(t)
    BY <1>2, <1>4 DEF More, EndOK, MadeOK
  <2>2. CASE s.hasub
    <3>1. BufCount(t) = 0
      BY <1>2, <1>4, <2>2 DEF BufCount, Good, ReadOK
    <3>2. ReadAhead(t)
      BY <1>1, <1>4, <3>1 DEF ReadAhead
    <3> QED
      BY <2>1, <3>2 DEF More
  <2>3. CASE ~s.hasub
    <3>1. BufCount(t) = BufCount(s)
      BY <1>2, <1>4, <2>3 DEF BufCount
    <3>2. ReadAhead(t)
      BY <1>3, <1>4, <3>1 DEF ReadAhead, More
    <3> QED
      BY <2>1, <3>2 DEF More
  <2> QED
    BY <2>2, <2>3
<1> QED
  BY <1>2, <1>4, <1>5, <1>13, <1>14 DEF t

\* __srefill into the buffer changes nothing the program sees, and finds the end
\* of the file only where the input ends.
LEMMA SrefillView ==
    ASSUME NEW s, Good(s), More(s), Fits(s, 0), s.r = 0,
           NEW k \in Int, k = -1 \/ k > 0, NEW j \in Nat, NEW n \in Nat, n > 0, n <= Size(s),
           s.rd \/ ~FlushFails(s, j)
    PROVE  LET t == Srefill(s, k, j, n) IN
           SameView(s, t) /\ More(t) /\ (t.eof /\ t.r = 0 => InputOf(s) = << >>)
<1> DEFINE t == Srefill(s, k, j, n)
           x == [s EXCEPT !.r = 0]
<1>1. /\ s \in Stream /\ s.disk \in Seq(Bytes) /\ s.fdpos \in Nat /\ s.eof \in BOOLEAN
      /\ s.rd \in BOOLEAN /\ s.rw \in BOOLEAN /\ s.hasub \in BOOLEAN /\ s.ur \in Nat
      /\ Len(s.disk) \in Nat /\ s.fdpos <= Len(s.disk) /\ (s.rd => ~s.wr)
  BY DEF Good, Stream, FileOK, ModeOK
<1>2. x = s
  BY <1>1 DEF Stream
<1>3. CASE s.eof
  <2>1. t = s
    BY <1>2, <1>3 DEF Srefill
  <2>2. Clean(s) /\ s.fdpos = Len(s.disk)
    BY <1>3 DEF More, EndOK, Clean
  <2>3. InputOf(s) = From(s.disk, s.fdpos)
    BY <2>2, CleanView, GoodFlushable
  <2>4. s.fdpos >= Len(s.disk)
    BY <1>1, <2>2
  <2>5. From(s.disk, s.fdpos) = << >>
    BY <1>1, <2>4, FromFacts, Zenon
  <2> HIDE DEF t
  <2>6. SameView(s, t) /\ More(t) /\ (t.eof /\ t.r = 0 => InputOf(s) = << >>)
    BY <2>1, <2>3, <2>5 DEF SameView
  <2> QED
    BY <2>6 DEF t
<1>4. CASE ~s.eof /\ ~s.rd /\ ~s.rw
  <2>1. t = [s EXCEPT !.err = TRUE]
    BY <1>2, <1>4 DEF Srefill
  <2> HIDE DEF t
  <2>2. /\ SameMode(s, t) /\ SameFile(s, t) /\ SameUb(s, t) /\ SameCounters(s, t)
        /\ t.buf = s.buf /\ t.eof = s.eof
    BY <1>1, <2>1 DEF Stream, SameMode, SameFile, SameUb, SameCounters
  <2>3. SameView(s, t)
    BY <2>2 DEF SameView, DataOf, TellOf, InputOf, Ahead, Position, Buffered, SameFile, SameUb,
                SameMode, SameCounters
  <2>4. More(t)
    BY <1>4, <2>2 DEF More, EndOK, ReadAhead, MadeOK, SameMode, SameUb, SameCounters
  <2> QED
    BY <1>4, <2>2, <2>3, <2>4 DEF t
<1>5. CASE ~s.eof /\ ~s.rd /\ s.rw
  <2> DEFINE y == StartReading(s, j)
             z == Made(y)
  <2>1. t = Fill(z, k, n)
    BY <1>2, <1>5 DEF Srefill
  <2>2. Good(y) /\ y.rd /\ ~y.hasub /\ y.kind = s.kind
    BY <1>5, StartReadingFacts
  <2>3. SameView(s, y) /\ y.r = 0 /\ ~y.eof /\ More(y)
    BY <1>5, StartReadingView
  <2> HIDE DEF y
  <2>4. Good(z)
    BY <2>2, MadeGood DEF Good, ModeOK
  <2>5. z.made /\ z.rd /\ z.r = 0 /\ ~z.hasub /\ ~z.eof /\ z.kind = s.kind
    BY <2>2, <2>3, MadeFacts DEF Good, SameUb
  <2>6. SameView(y, z)
    BY <2>2, <2>3, MadeView
  <2> HIDE DEF z
  <2>7. n <= Size(z)
    BY <2>5 DEF Size
  <2>8. SameView(z, t) /\ More(t) /\ (t.eof => InputOf(z) = << >>)
    BY <2>1, <2>4, <2>5, <2>7, FillView
  <2> HIDE DEF t
  <2>9. SameView(s, t) /\ InputOf(z) = InputOf(s)
    BY <2>3, <2>6, <2>8 DEF SameView
  <2> QED
    BY <2>8, <2>9 DEF t
<1>6. CASE ~s.eof /\ s.rd /\ s.hasub /\ s.ur > 0
  <2> DEFINE y == FreeUb(s)
  <2>1. t = [y EXCEPT !.r = s.ur, !.p = s.up]
    BY <1>2, <1>6 DEF Srefill
  <2>2. /\ y \in Stream /\ ~y.hasub /\ y.ub = << >> /\ y.eof = s.eof
        /\ SameMode(s, y) /\ SameFile(s, y)
    BY <1>1, FreeUbFacts
  <2>3. y.buf = s.buf
    BY <1>1 DEF FreeUb, Stream
  <2> HIDE DEF y
  <2>4. /\ t.r = s.ur /\ t.p = s.up /\ ~t.hasub /\ t.ub = << >> /\ t.eof = s.eof /\ t.buf = s.buf
        /\ SameMode(s, t) /\ SameFile(s, t)
    BY <2>1, <2>2, <2>3 DEF Stream, SameMode, SameFile
  <2> HIDE DEF t
  <2>5. s.ub = << >>
    <3>1. Len(s.ub) = 0 /\ s.ub \in Seq(Bytes)
      BY <1>6 DEF Good, ReadOK, Stream
    <3> QED
      BY <3>1
  <2>6. TellOf(t) = TellOf(s)
    <3>1. TellOf(t) = t.fdpos - t.r - 0 /\ TellOf(s) = s.fdpos - s.r - s.ur
      BY <1>6, <2>4 DEF TellOf, Position, SameMode
    <3> QED
      BY <1>1, <2>4, <3>1 DEF SameFile
  <2>7. Buffered(t) = Buffered(s)
    BY <1>1, <1>6, <2>4 DEF Buffered, SameMode
  <2>8. SameView(s, t)
    BY <1>6, <2>4, <2>5, <2>6, <2>7 DEF SameView, DataOf, InputOf, Ahead, SameMode, SameFile
  <2>9. More(t)
    <3>1. s.made
      BY <1>1, <1>6 DEF More, MadeOK
    <3>2. BufCount(t) = BufCount(s)
      BY <1>6, <2>4 DEF BufCount
    <3> QED
      BY <1>6, <2>4, <3>1, <3>2 DEF More, EndOK, ReadAhead, MadeOK, SameMode, SameFile
  <2> QED
    BY <1>6, <2>4, <2>8, <2>9 DEF t
<1>7. CASE ~s.eof /\ s.rd /\ ~(s.hasub /\ s.ur > 0)
  <2> DEFINE y == FreeUb(s)
             z == Made(y)
  <2>1. t = Fill(z, k, n)
    BY <1>2, <1>7 DEF Srefill
  <2>2. s.hasub => s.ur = 0
    BY <1>1, <1>7
  <2>3. /\ Good(y) /\ SameView(s, y) /\ More(y) /\ y.r = 0 /\ ~y.hasub /\ y.rd /\ ~y.eof
        /\ y.kind = s.kind
    BY <1>7, <2>2, FreeUbView
  <2> HIDE DEF y
  <2>4. Good(z)
    BY <2>3, MadeGood DEF Good, ModeOK
  <2>5. z.made /\ z.rd /\ z.r = 0 /\ ~z.hasub /\ ~z.eof /\ z.kind = s.kind
    BY <2>3, MadeFacts DEF Good, SameUb
  <2>6. SameView(y, z)
    BY <2>3, MadeView
  <2> HIDE DEF z
  <2>7. n <= Size(z)
    BY <2>5 DEF Size
  <2>8. SameView(z, t) /\ More(t) /\ (t.eof => InputOf(z) = << >>)
    BY <2>1, <2>4, <2>5, <2>7, FillView
  <2> HIDE DEF t
  <2>9. SameView(s, t) /\ InputOf(z) = InputOf(s)
    BY <2>3, <2>6, <2>8 DEF SameView
  <2> QED
    BY <2>8, <2>9 DEF t
<1> QED
  BY <1>1, <1>3, <1>4, <1>5, <1>6, <1>7

\* Concatenation is associative, of three and of four sequences.
Associates(a, b, c) == (a \o b) \o c = a \o (b \o c)
Associates4(a, b, x, y) == ((a \o b) \o x) \o y = a \o ((b \o x) \o y)

\* For sequences of bytes.
LEMMA Assoc ==
    ASSUME NEW a \in Seq(Bytes), NEW b \in Seq(Bytes), NEW c \in Seq(Bytes)
    PROVE  Associates(a, b, c)
  BY ConcatAssociative DEF Associates

\* For four of them.
LEMMA Assoc4 ==
    ASSUME NEW a \in Seq(Bytes), NEW b \in Seq(Bytes), NEW x \in Seq(Bytes), NEW y \in Seq(Bytes)
    PROVE  Associates4(a, b, x, y)
<1>1. b \o x \in Seq(Bytes)
  BY ConcatProperties, Zenon
<1>2. Associates(a, b, x) /\ Associates(a, b \o x, y)
  BY <1>1, Assoc, Zenon
<1> QED
  BY <1>2 DEF Associates, Associates4

\* The input of a stream that reads, in its parts.
LEMMA InputParts ==
    ASSUME NEW s, Good(s), s.rd
    PROVE  /\ s.ub \in Seq(Bytes) /\ Ahead(s) \in Seq(Bytes) /\ From(s.disk, s.fdpos) \in Seq(Bytes)
           /\ DataOf(s) = s.disk /\ TellOf(s) = s.fdpos - s.r - (IF s.hasub THEN s.ur ELSE 0)
           /\ InputOf(s) = (s.ub \o Ahead(s)) \o From(s.disk, s.fdpos)
           /\ s.buf \in Seq(Bytes) /\ Len(s.buf) = BufSize
           /\ IF s.hasub THEN s.up + s.ur <= BufSize ELSE s.p + s.r <= BufSize /\ s.ub = << >>
<1>1. /\ s \in Stream /\ s.disk \in Seq(Bytes) /\ s.fdpos \in Nat /\ s.fdpos <= Len(s.disk)
      /\ ~s.wr /\ s.ub \in Seq(Bytes) /\ s.buf \in [1..BufSize -> Bytes]
      /\ s.p \in Nat /\ s.r \in Nat /\ s.up \in Nat /\ s.ur \in Nat
  BY DEF Good, Stream, FileOK, ModeOK
<1>2. From(s.disk, s.fdpos) \in Seq(Bytes)
  BY <1>1, FromFacts, Zenon
<1>3. s.buf \in Seq(Bytes) /\ Len(s.buf) = BufSize
  BY <1>1, BufferSeq
<1>4. IF s.hasub THEN s.up + s.ur <= BufSize ELSE s.p + s.r <= BufSize /\ s.ub = << >>
  <2>1. Size(s) \in Nat /\ Size(s) <= BufSize /\ BufSize \in Nat
    BY <1>1, Sizes
  <2> QED
    BY <1>1, <2>1 DEF Good, ReadOK
<1>5. Ahead(s) \in Seq(Bytes)
  <2>1. CASE s.hasub
    <3>1. s.up + s.ur <= Len(s.buf)
      BY <1>3, <1>4, <2>1
    <3>2. SubSeq(s.buf, s.up + 1, s.up + s.ur) \in Seq(Bytes)
      BY <1>1, <1>3, <3>1, Piece
    <3> QED
      BY <2>1, <3>2 DEF Ahead
  <2>2. CASE ~s.hasub
    <3>1. s.p + s.r <= Len(s.buf)
      BY <1>3, <1>4, <2>2
    <3>2. SubSeq(s.buf, s.p + 1, s.p + s.r) \in Seq(Bytes)
      BY <1>1, <1>3, <3>1, Piece
    <3> QED
      BY <2>2, <3>2 DEF Ahead
  <2> QED
    BY <2>1, <2>2
<1>6. /\ DataOf(s) = s.disk /\ TellOf(s) = s.fdpos - s.r - (IF s.hasub THEN s.ur ELSE 0)
      /\ InputOf(s) = s.ub \o Ahead(s) \o From(s.disk, s.fdpos)
  BY <1>1, ReadingView
<1> QED
  BY <1>1, <1>2, <1>3, <1>4, <1>5, <1>6

\* What is left of ReadAhead when the bytes in the buffer are only counted anew.
LEMMA MoreRead ==
    ASSUME NEW s, More(s), NEW t, t.disk = s.disk, t.fdpos = s.fdpos, t.buf = s.buf, SameMode(s, t),
           BufCount(t) = BufCount(s), ~t.eof, s.rd, MadeOK(t)
    PROVE  More(t)
  BY DEF More, EndOK, ReadAhead, SameMode

\* getc and fread: the bytes taken are the first of the input.
LEMMA TakenView ==
    ASSUME NEW s, Good(s), More(s), s.rd, NEW n \in Nat, 0 < n, n <= s.r
    PROVE  LET t == Taken(s, n) IN
           /\ DataOf(t) = DataOf(s) /\ TellOf(t) = TellOf(s) + n
           /\ InputOf(s) = Upcoming(s, n) \o InputOf(t) /\ Len(Upcoming(s, n)) = n
           /\ More(t)
<1> DEFINE t == Taken(s, n)
<1>1. /\ s \in Stream /\ s.r \in Nat /\ s.p \in Nat /\ s.fdpos \in Nat /\ s.hasub \in BOOLEAN
      /\ s.ur \in Nat /\ s.up \in Nat /\ s.eof \in BOOLEAN /\ s.ub \in Seq(Bytes)
  BY DEF Good, Stream
<1>2. Good(t) /\ SameMode(s, t)
  BY TakenGood
<1>3. /\ s.ub \in Seq(Bytes) /\ Ahead(s) \in Seq(Bytes) /\ From(s.disk, s.fdpos) \in Seq(Bytes)
      /\ DataOf(s) = s.disk /\ TellOf(s) = s.fdpos - s.r - (IF s.hasub THEN s.ur ELSE 0)
      /\ InputOf(s) = (s.ub \o Ahead(s)) \o From(s.disk, s.fdpos)
      /\ s.buf \in Seq(Bytes) /\ Len(s.buf) = BufSize
      /\ IF s.hasub THEN s.up + s.ur <= BufSize ELSE s.p + s.r <= BufSize /\ s.ub = << >>
  BY InputParts
<1>4. /\ t.disk = s.disk /\ t.fdpos = s.fdpos /\ t.buf = s.buf /\ t.r = s.r - n /\ t.eof = s.eof
      /\ t.hasub = s.hasub /\ t.up = s.up /\ t.ur = s.ur
      /\ s.hasub => t.p = s.p /\ t.ub = SubSeq(s.ub, n + 1, Len(s.ub))
      /\ ~s.hasub => t.p = s.p + n /\ t.ub = s.ub
  BY <1>1, ZenonT(60) DEF Taken, Stream
<1> HIDE DEF t
<1>5. t.rd
  BY <1>2 DEF SameMode
<1>6. /\ t.ub \in Seq(Bytes) /\ Ahead(t) \in Seq(Bytes)
      /\ DataOf(t) = t.disk /\ TellOf(t) = t.fdpos - t.r - (IF t.hasub THEN t.ur ELSE 0)
      /\ InputOf(t) = (t.ub \o Ahead(t)) \o From(t.disk, t.fdpos)
  BY <1>2, <1>5, InputParts
<1>7. DataOf(t) = DataOf(s) /\ TellOf(t) = TellOf(s) + n
  BY <1>1, <1>3, <1>4, <1>6, SMTT(60)
<1>8. CASE s.hasub
  <2>1. Len(s.ub) = s.r /\ n <= Len(s.ub) /\ 0 + n <= Len(s.ub) /\ 0 \in Nat /\ 0 <= n
    BY <1>1, <1>8 DEF Good, ReadOK
  <2>2. SubSeq(s.ub, 0 + 1, n) \o From(s.ub, n) = From(s.ub, 0)
    BY <1>1, <2>1, Adjacent, Zenon
  <2>3. From(s.ub, 0) = s.ub
    BY <1>1, SubSeqFull DEF From
  <2>4. SubSeq(s.ub, 1, n) \o t.ub = s.ub
    <3>1. t.ub = From(s.ub, n) /\ 0 + 1 = 1
      BY <1>4, <1>8 DEF From
    <3> QED
      BY <2>2, <2>3, <3>1
  <2>5. SubSeq(s.ub, 1, n) \in Seq(Bytes) /\ Len(SubSeq(s.ub, 1, n)) = n
    BY <1>1, <2>1, Piece
  <2>6. Ahead(t) = Ahead(s)
    BY <1>4, <1>8 DEF Ahead
  <2>7. Associates4(SubSeq(s.ub, 1, n), t.ub, Ahead(s), From(s.disk, s.fdpos))
    BY <1>3, <1>6, <2>5, Assoc4, Zenon
  <2>8. InputOf(s) = SubSeq(s.ub, 1, n) \o InputOf(t)
    BY <1>3, <1>4, <1>6, <2>4, <2>6, <2>7 DEF Associates4
  <2>9. Upcoming(s, n) = SubSeq(s.ub, 1, n)
    BY <1>8 DEF Upcoming
  <2>10. BufCount(t) = BufCount(s)
    BY <1>4, <1>8 DEF BufCount
  <2>11. MadeOK(t) /\ ~t.eof
    BY <1>2, <1>4, <1>8 DEF MadeOK, More, EndOK, SameMode
  <2>12. More(t)
    BY <1>2, <1>4, <2>10, <2>11, MoreRead
  <2> QED
    BY <1>7, <2>5, <2>8, <2>9, <2>12 DEF t
<1>9. CASE ~s.hasub
  <2>1. /\ s.p + n \in Nat /\ s.p + s.r \in Nat /\ s.p <= s.p + n /\ s.p + n <= s.p + s.r
        /\ s.p + n <= Len(s.buf) /\ s.p + s.r <= Len(s.buf)
    <3>1. s.p + s.r <= Len(s.buf) /\ BufSize \in Nat
      BY <1>3, <1>9, Sizes
    <3> QED
      BY <1>1, <1>3, <3>1
  <2>2. Meets(s.buf, s.p, s.p + n, s.p + s.r)
    BY <1>3, <1>1, <2>1, AdjacentParts, Zenon
  <2>3. SubSeq(s.buf, s.p + 1, s.p + n) \in Seq(Bytes) /\ Len(SubSeq(s.buf, s.p + 1, s.p + n)) = n
    BY <1>1, <1>3, <2>1, Piece, ZenonT(60)
  <2> DEFINE u == SubSeq(s.buf, s.p + 1, s.p + n)
  <2>4. Ahead(t) = SubSeq(s.buf, s.p + n + 1, s.p + s.r)
    <3>1. t.p + t.r = s.p + s.r
      BY <1>1, <1>4, <1>9
    <3> QED
      BY <1>4, <1>9, <3>1 DEF Ahead
  <2>5. Ahead(s) = u \o Ahead(t)
    BY <1>9, <2>2, <2>4 DEF Ahead, Meets
  <2>6. Upcoming(s, n) = u
    BY <1>9 DEF Upcoming
  <2>7. u \in Seq(Bytes) /\ Len(u) = n
    BY <2>3
  <2> HIDE DEF u
  <2>8. s.ub = << >> /\ t.ub = << >>
    BY <1>3, <1>4, <1>9
  <2>9. << >> \o Ahead(s) = Ahead(s) /\ << >> \o Ahead(t) = Ahead(t)
    BY <1>3, <1>6, ConcatEmptySeq, Zenon
  <2>10. Associates(u, Ahead(t), From(s.disk, s.fdpos))
    BY <1>3, <1>6, <2>7, Assoc, Zenon
  <2>11. InputOf(s) = u \o InputOf(t)
    BY <1>3, <1>4, <1>6, <2>5, <2>8, <2>9, <2>10 DEF Associates
  <2>12. BufCount(t) = BufCount(s)
    BY <1>1, <1>4, <1>9 DEF BufCount
  <2>13. MadeOK(t) /\ ~t.eof
    BY <1>1, <1>2, <1>4, <1>9 DEF MadeOK, More, EndOK, SameMode
  <2>14. More(t)
    BY <1>2, <1>4, <2>12, <2>13, MoreRead
  <2> QED
    BY <1>7, <2>6, <2>7, <2>11, <2>14 DEF t
<1> QED
  BY <1>1, <1>8, <1>9

\* ungetc: the byte comes first, and the position is one less.
LEMMA PushedView ==
    ASSUME NEW s, Good(s), More(s), s.rd, NEW c \in Bytes, Len(s.ub) < MaxPush
    PROVE  LET t == Pushed(s, c) IN
           /\ DataOf(t) = DataOf(s) /\ TellOf(t) = TellOf(s) - 1
           /\ InputOf(t) = << c >> \o InputOf(s) /\ More(t)
<1> DEFINE t == Pushed(s, c)
<1>1. /\ s \in Stream /\ s.r \in Nat /\ s.p \in Nat /\ s.fdpos \in Nat /\ s.hasub \in BOOLEAN
      /\ s.ur \in Nat /\ s.up \in Nat /\ s.eof \in BOOLEAN /\ s.ub \in Seq(Bytes)
      /\ << c >> \in Seq(Bytes) /\ << >> \in Seq(Bytes)
  BY DEF Good, Stream
<1>2. Good(t) /\ SameMode(s, t)
  BY PushedGood
<1>3. /\ s.ub \in Seq(Bytes) /\ Ahead(s) \in Seq(Bytes) /\ From(s.disk, s.fdpos) \in Seq(Bytes)
      /\ DataOf(s) = s.disk /\ TellOf(s) = s.fdpos - s.r - (IF s.hasub THEN s.ur ELSE 0)
      /\ InputOf(s) = (s.ub \o Ahead(s)) \o From(s.disk, s.fdpos)
      /\ s.buf \in Seq(Bytes) /\ Len(s.buf) = BufSize
      /\ IF s.hasub THEN s.up + s.ur <= BufSize ELSE s.p + s.r <= BufSize /\ s.ub = << >>
  BY InputParts
<1>4. t.rd
  BY <1>2 DEF SameMode
<1>5. /\ t.ub \in Seq(Bytes) /\ Ahead(t) \in Seq(Bytes)
      /\ DataOf(t) = t.disk /\ TellOf(t) = t.fdpos - t.r - (IF t.hasub THEN t.ur ELSE 0)
      /\ InputOf(t) = (t.ub \o Ahead(t)) \o From(t.disk, t.fdpos)
  BY <1>2, <1>4, InputParts
<1>6. CASE s.hasub
  <2>1. /\ t.disk = s.disk /\ t.fdpos = s.fdpos /\ t.buf = s.buf /\ t.r = s.r + 1 /\ t.eof = s.eof
        /\ t.hasub /\ t.up = s.up /\ t.ur = s.ur /\ t.p = s.p /\ t.ub = << c >> \o s.ub
    BY <1>1, <1>6 DEF Pushed, Stream
  <2> HIDE DEF t
  <2>2. Ahead(t) = Ahead(s)
    BY <1>6, <2>1 DEF Ahead
  <2>3. Associates4(<< c >>, s.ub, Ahead(s), From(s.disk, s.fdpos))
    BY <1>1, <1>3, Assoc4, Zenon
  <2>4. InputOf(t) = << c >> \o InputOf(s)
    BY <1>3, <1>5, <2>1, <2>2, <2>3 DEF Associates4
  <2>5. DataOf(t) = DataOf(s) /\ TellOf(t) = TellOf(s) - 1
    <3>1. TellOf(t) = s.fdpos - (s.r + 1) - s.ur /\ TellOf(s) = s.fdpos - s.r - s.ur
      BY <1>3, <1>5, <1>6, <2>1
    <3>2. DataOf(t) = DataOf(s)
      BY <1>3, <1>5, <2>1
    <3> QED
      BY <1>1, <3>1, <3>2
  <2>6. BufCount(t) = BufCount(s)
    BY <1>6, <2>1 DEF BufCount
  <2>7. MadeOK(t) /\ ~t.eof
    BY <1>2, <1>6, <2>1 DEF MadeOK, More, EndOK, SameMode
  <2>8. More(t)
    BY <1>2, <2>1, <2>6, <2>7, MoreRead
  <2> QED
    BY <2>4, <2>5, <2>8 DEF t
<1>7. CASE ~s.hasub /\ BackUp(s, c)
  <2>1. /\ t.disk = s.disk /\ t.fdpos = s.fdpos /\ t.buf = s.buf /\ t.r = s.r + 1 /\ ~t.eof
        /\ ~t.hasub /\ t.p = s.p - 1 /\ t.ub = s.ub
    BY <1>1, <1>7 DEF Pushed, Stream
  <2>2. s.made /\ s.p > 0 /\ s.buf[s.p] = c
    BY <1>7 DEF BackUp
  <2> HIDE DEF t
  <2>3. t.p + 1 = s.p /\ t.p + t.r = s.p + s.r
    BY <1>1, <2>1, <2>2, SMTT(60)
  <2>4. Ahead(t) = << c >> \o Ahead(s)
    <3>1. s.p \in 1..Len(s.buf) /\ s.p + s.r \in s.p..Len(s.buf)
      BY <1>1, <1>3, <1>7, <2>2, SMTT(60)
    <3>2. SubSeq(s.buf, s.p, s.p + s.r) = << s.buf[s.p] >> \o SubSeq(s.buf, s.p + 1, s.p + s.r)
      BY <1>3, <3>1, SubSeqRecursiveFirst
    <3> QED
      BY <1>7, <2>1, <2>2, <2>3, <3>2 DEF Ahead
  <2>5. s.ub = << >> /\ t.ub = << >>
    BY <1>3, <1>7, <2>1
  <2>6. << >> \o Ahead(s) = Ahead(s) /\ << >> \o Ahead(t) = Ahead(t)
    BY <1>3, <1>5, ConcatEmptySeq, Zenon
  <2>7. Associates(<< c >>, Ahead(s), From(s.disk, s.fdpos))
    BY <1>1, <1>3, Assoc, Zenon
  <2>8. InputOf(t) = << c >> \o InputOf(s)
    BY <1>3, <1>5, <2>1, <2>4, <2>5, <2>6, <2>7 DEF Associates
  <2>9. DataOf(t) = DataOf(s) /\ TellOf(t) = TellOf(s) - 1
    BY <1>1, <1>3, <1>5, <1>7, <2>1
  <2>10. BufCount(t) = BufCount(s)
    BY <1>7, <2>1, <2>3 DEF BufCount
  <2>11. MadeOK(t)
    BY <1>2, <2>2 DEF MadeOK, SameMode
  <2>12. More(t)
    BY <1>2, <2>1, <2>10, <2>11, MoreRead
  <2> QED
    BY <2>8, <2>9, <2>12 DEF t
<1>8. CASE ~s.hasub /\ ~BackUp(s, c)
  <2>1. /\ t.disk = s.disk /\ t.fdpos = s.fdpos /\ t.buf = s.buf /\ t.r = 1 /\ ~t.eof
        /\ t.hasub /\ t.p = 0 /\ t.ub = << c >> /\ t.up = s.p /\ t.ur = s.r
    BY <1>1, <1>8 DEF Pushed, Stream
  <2> HIDE DEF t
  <2>2. Ahead(t) = Ahead(s)
    BY <1>8, <2>1 DEF Ahead
  <2>3. s.ub = << >>
    BY <1>3, <1>8
  <2>4. << >> \o Ahead(s) = Ahead(s)
    BY <1>3, ConcatEmptySeq, Zenon
  <2>5. Associates(<< c >>, Ahead(s), From(s.disk, s.fdpos))
    BY <1>1, <1>3, Assoc, Zenon
  <2>6. InputOf(t) = << c >> \o InputOf(s)
    BY <1>3, <1>5, <2>1, <2>2, <2>3, <2>4, <2>5 DEF Associates
  <2>7. DataOf(t) = DataOf(s) /\ TellOf(t) = TellOf(s) - 1
    BY <1>1, <1>3, <1>5, <1>8, <2>1
  <2>8. BufCount(t) = BufCount(s)
    BY <1>8, <2>1 DEF BufCount
  <2>9. MadeOK(t)
    BY <1>2, <1>8, <2>1 DEF MadeOK, More, SameMode
  <2>10. More(t)
    BY <1>2, <2>1, <2>8, <2>9, MoreRead
  <2> QED
    BY <2>6, <2>7, <2>10 DEF t
<1> QED
  BY <1>1, <1>6, <1>7, <1>8

\* Streams that differ in flags, in _w or in the cached offset look the same.
LEMMA ViewKept ==
    ASSUME NEW s, NEW t, SameMode(s, t), SameUb(s, t), t.disk = s.disk, t.fdpos = s.fdpos,
           t.p = s.p, t.r = s.r, t.buf = s.buf
    PROVE  SameView(s, t) /\ (More(s) /\ (t.eof => s.eof) => More(t))
<1>1. Buffered(t) = Buffered(s) /\ BufCount(t) = BufCount(s) /\ Ahead(t) = Ahead(s)
  BY DEF Buffered, BufCount, Ahead, SameMode, SameUb
<1>2. DataOf(t) = DataOf(s) /\ TellOf(t) = TellOf(s)
  BY <1>1 DEF DataOf, TellOf, Position, SameMode, SameUb
<1>3. InputOf(t) = InputOf(s)
  BY <1>1, <1>2 DEF InputOf, SameMode, SameUb
<1>4. ASSUME More(s), t.eof => s.eof PROVE More(t)
  BY <1>1, <1>4 DEF More, EndOK, ReadAhead, MadeOK, SameMode, SameUb
<1> QED
  BY <1>2, <1>3, <1>4 DEF SameView

\* Learning the offset.
LEMMA KnowOffsetView ==
    ASSUME NEW s, Flushable(s)
    PROVE  SameView(s, KnowOffset(s)) /\ (More(s) => More(KnowOffset(s)))
<1> DEFINE t == KnowOffset(s)
<1>1. s \in Stream /\ FileOK(s) /\ s.eof \in BOOLEAN
  BY DEF Flushable, Stream
<1>2. /\ t.disk = s.disk /\ t.fdpos = s.fdpos /\ SameMode(s, t) /\ SameUb(s, t)
      /\ SameCounters(s, t) /\ t.eof = s.eof
  BY <1>1, KnowOffsetFacts
<1>3. t.buf = s.buf
  BY <1>1 DEF KnowOffset, Sseek, Stream
<1> HIDE DEF t
<1>4. SameView(s, t) /\ (More(s) => More(t))
  BY <1>2, <1>3, ViewKept DEF SameCounters
<1> QED
  BY <1>4 DEF t

\* Turning a stream to writing.
LEMMA ReadyView ==
    ASSUME NEW s, Flushable(s), More(s), ~CantWrite(s), s.rd => s.r = 0 /\ ~s.hasub,
           s.fdpos + (IF s.wr THEN s.p ELSE 0) <= MaxLen
    PROVE  SameView(s, ReadyToWrite(s)) /\ More(ReadyToWrite(s))
<1> DEFINE t == ReadyToWrite(s)
<1>1. CASE s.wr /\ s.made
  BY <1>1 DEF ReadyToWrite, SameView
<1>2. CASE ~(s.wr /\ s.made)
  <2>1. s \in Stream /\ s.fdpos \in Nat /\ s.disk \in Seq(Bytes) /\ s.rd \in BOOLEAN
    BY DEF Flushable, Stream
  <2>2. Good(t) /\ t.wr /\ t.made /\ t.p = 0 /\ t.fdpos = s.fdpos /\ t = Swsetup(s)
    BY <1>2, SwsetupFacts DEF ReadyToWrite
  <2>3. t.disk = s.disk /\ ~t.eof
    <3> DEFINE x == IF s.wr THEN s
                    ELSE IF s.rd THEN [FreeUb(s) EXCEPT !.rd = FALSE, !.eof = FALSE, !.r = 0,
                                                        !.p = 0, !.wr = TRUE]
                    ELSE [s EXCEPT !.wr = TRUE]
               y == Made(x)
    <3>1. x \in Stream /\ x.disk = s.disk /\ ~x.eof
      <4>1. CASE s.wr
        <5>1. ~s.eof
          BY <4>1 DEF Flushable, ModeOK, More, EndOK
        <5> QED
          BY <2>1, <4>1, <5>1
      <4>2. CASE ~s.wr /\ s.rd
        <5> DEFINE z == FreeUb(s)
        <5>1. z \in Stream /\ z.disk = s.disk
          BY <2>1, FreeUbFacts DEF SameFile
        <5> HIDE DEF z
        <5>2. x = [z EXCEPT !.rd = FALSE, !.eof = FALSE, !.r = 0, !.p = 0, !.wr = TRUE]
          BY <4>2 DEF z
        <5> HIDE DEF x
        <5> QED
          BY <5>1, <5>2 DEF Stream
      <4>3. CASE ~s.wr /\ ~s.rd
        <5>1. ~s.eof
          BY <4>3 DEF More, EndOK
        <5>2. x = [s EXCEPT !.wr = TRUE]
          BY <4>3
        <5> HIDE DEF x
        <5> QED
          BY <2>1, <5>1, <5>2 DEF Stream
      <4> QED
        BY <4>1, <4>2, <4>3
    <3> HIDE DEF x
    <3>2. y \in Stream /\ y.disk = s.disk /\ ~y.eof
      BY <3>1, MadeFacts DEF SameFile
    <3> HIDE DEF y
    <3>3. t = [y EXCEPT !.w = IF s.kind = "full" THEN BufSize ELSE 0,
                        !.lbfsize = IF s.kind = "line" THEN -BufSize ELSE @]
      BY <2>2 DEF Swsetup, x, y
    <3> HIDE DEF t
    <3> QED
      BY <3>2, <3>3 DEF Stream
  <2> HIDE DEF t
  <2>4. ~t.rd
    BY <2>2 DEF Good, ModeOK
  <2>5. Clean(s) /\ Clean(t)
    BY <1>2, <2>2, <2>4 DEF Clean, Flushable
  <2>6. Flushable(t)
    BY <2>2, GoodFlushable
  <2>7. SameView(s, t)
    BY <2>2, <2>3, <2>5, <2>6, CleanSame
  <2>8. More(t)
    BY <2>2, <2>3, <2>4, MoreWriting
  <2> QED
    BY <2>7, <2>8 DEF t
<1> QED
  BY <1>1, <1>2

\* b was written where the stream is.
Written(s, t, b) ==
    /\ DataOf(t) = Overwrite(DataOf(s), TellOf(s), b) /\ TellOf(t) = TellOf(s) + Len(b)
    /\ InputOf(t) = From(DataOf(t), TellOf(t))

\* Bytes put into the buffer.
LEMMA StoreView ==
    ASSUME NEW s, Flushable(s), s.wr, s.made, NEW b \in Seq(Bytes), s.p + Len(b) <= BufSize
    PROVE  Written(s, Store(s, b), b) /\ (More(s) => More(Store(s, b)))
<1> DEFINE t == Store(s, b)
<1>1. /\ s \in Stream /\ ~s.rd /\ s.p \in Nat /\ s.fdpos \in Nat /\ s.disk \in Seq(Bytes)
      /\ s.fdpos <= Len(s.disk) /\ s.buf \in [1..BufSize -> Bytes] /\ BufSize \in Nat
      /\ Len(b) \in Nat /\ s.p + Len(b) \in Nat
  BY Sizes, SMTT(60) DEF Flushable, ModeOK, Stream, FileOK
<1>2. Flushable(t)
  BY StoreFlushable
<1>3. /\ t \in Stream /\ SameMode(s, t) /\ SameFile(s, t) /\ SameUb(s, t)
      /\ t.eof = s.eof /\ t.r = s.r /\ t.p = s.p + Len(b)
  BY <1>1, StoreFacts
<1>4. t.buf = [i \in 1..BufSize |-> IF i \in (s.p + 1)..(s.p + Len(b)) THEN b[i - s.p] ELSE s.buf[i]]
  BY <1>1 DEF Store, Stream
<1> HIDE DEF t
<1>5. ~t.rd /\ t.made /\ t.disk = s.disk /\ t.fdpos = s.fdpos
  BY <1>1, <1>3 DEF SameMode, SameFile
<1>6. /\ SubSeq(s.buf, 1, s.p) \in Seq(Bytes) /\ Len(SubSeq(s.buf, 1, s.p)) = s.p
      /\ DataOf(s) = Overwrite(s.disk, s.fdpos, SubSeq(s.buf, 1, s.p))
      /\ TellOf(s) = s.fdpos + s.p
  BY <1>1, WritingView
<1>7. /\ DataOf(t) = Overwrite(t.disk, t.fdpos, SubSeq(t.buf, 1, t.p))
      /\ TellOf(t) = t.fdpos + t.p /\ InputOf(t) = From(DataOf(t), TellOf(t))
  BY <1>2, <1>5, WritingView
<1>8. SubSeq(t.buf, 1, t.p) = SubSeq(s.buf, 1, s.p) \o b
  <2>1. /\ t.buf \in Seq(Bytes) /\ Len(t.buf) = BufSize /\ s.buf \in Seq(Bytes)
        /\ Len(s.buf) = BufSize
    <3>1. t.buf \in [1..BufSize -> Bytes]
      BY <1>3 DEF Stream
    <3> QED
      BY <1>1, <3>1, BufferSeq
  <2>2. 0 \in Nat /\ 0 <= s.p /\ s.p <= s.p + Len(b) /\ s.p + Len(b) <= Len(t.buf)
        /\ 0 + s.p <= Len(t.buf) /\ 0 + s.p <= Len(s.buf) /\ 0 + Len(b) <= Len(b)
    BY <1>1, <2>1
  <2>3. Meets(t.buf, 0, s.p, s.p + Len(b))
    BY <1>1, <2>1, <2>2, AdjacentParts, Zenon
  <2>4. Agree(t.buf, 0, s.buf, 0, s.p)
    <3> SUFFICES ASSUME NEW i \in 1..s.p PROVE t.buf[0 + i] = s.buf[0 + i]
      BY DEF Agree
    <3>1. 0 + i = i /\ i \in 1..BufSize /\ i \notin (s.p + 1)..(s.p + Len(b))
      BY <1>1
    <3> QED
      BY <1>4, <3>1
  <2>5. Agree(t.buf, s.p, b, 0, Len(b))
    <3> SUFFICES ASSUME NEW i \in 1..Len(b) PROVE t.buf[s.p + i] = b[0 + i]
      BY DEF Agree
    <3>1. /\ 0 + i = i /\ s.p + i \in 1..BufSize /\ s.p + i \in (s.p + 1)..(s.p + Len(b))
          /\ (s.p + i) - s.p = i
      BY <1>1
    <3>2. t.buf[s.p + i] = b[(s.p + i) - s.p]
      <4> DEFINE q == s.p + i
      <4>1. q \in 1..BufSize /\ q \in (s.p + 1)..(s.p + Len(b))
        BY <3>1
      <4> HIDE DEF q
      <4>2. t.buf[q] = b[q - s.p]
        BY <1>4, <4>1
      <4> QED
        BY <4>2, Zenon DEF q
    <3> QED
      BY <3>1, <3>2, Zenon
  <2>6. Cut(t.buf, 0, s.p) = Cut(s.buf, 0, s.p)
    BY <1>1, <2>1, <2>2, <2>4, SamePiece
  <2>7. Cut(t.buf, s.p, Len(b)) = Cut(b, 0, Len(b))
    BY <1>1, <2>1, <2>2, <2>5, SamePiece
  <2>8. Cut(b, 0, Len(b)) = b
    BY SubSeqFull DEF Cut
  <2>9. SubSeq(t.buf, 1, s.p) = SubSeq(s.buf, 1, s.p)
    BY <1>1, <2>6 DEF Cut
  <2>10. SubSeq(t.buf, 1, s.p) \o SubSeq(t.buf, s.p + 1, s.p + Len(b)) = SubSeq(t.buf, 1, s.p + Len(b))
    <3>1. 0 + 1 = 1
      OBVIOUS
    <3> QED
      BY <2>3, <3>1 DEF Meets
  <2>11. SubSeq(t.buf, s.p + 1, s.p + Len(b)) = b
    BY <2>7, <2>8, Zenon DEF Cut
  <2> QED
    BY <1>3, <2>9, <2>10, <2>11, Zenon
<1>9. Overwrite(Overwrite(s.disk, s.fdpos, SubSeq(s.buf, 1, s.p)), s.fdpos + s.p, b)
          = Overwrite(s.disk, s.fdpos, SubSeq(s.buf, 1, s.p) \o b)
  <2> DEFINE u == SubSeq(s.buf, 1, s.p)
  <2>1. u \in Seq(Bytes) /\ Len(u) = s.p
    BY <1>6
  <2> HIDE DEF u
  <2>2. TwoWrites(s.disk, s.fdpos, u, b)
    BY <1>1, <2>1, OverwriteTwice, Zenon
  <2> QED
    BY <2>1, <2>2 DEF u, TwoWrites
<1>10. Written(s, t, b)
  <2>1. TellOf(t) = TellOf(s) + Len(b)
    BY <1>1, <1>3, <1>5, <1>6, <1>7
  <2> QED
    BY <1>5, <1>6, <1>7, <1>8, <1>9, <2>1 DEF Written
<1>11. More(s) => More(t)
  <2>1. More(s) => ~s.eof
    BY <1>1 DEF More, EndOK
  <2> QED
    BY <1>3, <1>5, <2>1, MoreWriting
<1> QED
  BY <1>10, <1>11 DEF t

\* Bytes written past an empty buffer.
LEMMA SwriteView ==
    ASSUME NEW s, Flushable(s), s.wr, s.made, s.p = 0, NEW b \in Seq(Bytes),
           Flushable(Swrite(s, b))
    PROVE  Written(s, Swrite(s, b), b) /\ (More(s) => More(Swrite(s, b)))
<1> DEFINE t == Swrite(s, b)
<1>1. s \in Stream /\ ~s.rd /\ s.fdpos \in Nat /\ s.fdpos <= Len(s.disk) /\ Len(b) \in Nat
  <2>1. s \in Stream /\ FileOK(s) /\ ModeOK(s)
    BY Zenon DEF Flushable
  <2> QED
    BY <2>1 DEF ModeOK, Stream, FileOK
<1>2. t.fdpos = s.fdpos + Len(b) /\ SameMode(s, t) /\ SameCounters(s, t) /\ t.eof = s.eof
  BY <1>1, SwriteFacts
<1>3. t.disk = Overwrite(s.disk, s.fdpos, b)
  BY <1>1 DEF Swrite, Stream
<1>4. Flushable(t)
  OBVIOUS
<1> HIDE DEF t
<1>5. ~t.rd /\ t.made /\ Clean(s) /\ Clean(t)
  BY <1>1, <1>2 DEF SameMode, SameCounters, Clean
<1>6. /\ DataOf(s) = s.disk /\ TellOf(s) = s.fdpos /\ DataOf(t) = t.disk /\ TellOf(t) = t.fdpos
      /\ InputOf(t) = From(t.disk, t.fdpos)
  BY <1>4, <1>5, CleanView
<1>7. Written(s, t, b)
  BY <1>2, <1>3, <1>6 DEF Written
<1>8. More(s) => More(t)
  <2>1. More(s) => ~s.eof
    BY <1>1 DEF More, EndOK
  <2> QED
    BY <1>2, <1>5, <2>1, MoreWriting
<1> QED
  BY <1>7, <1>8 DEF t

\* The stream is at offset n, with nothing pushed back.
Sought(s, t, n) == DataOf(t) = DataOf(s) /\ TellOf(t) = n /\ InputOf(t) = From(DataOf(s), n)

\* fseeko by lseek.
LEMMA DumbView ==
    ASSUME NEW s, Flushable(s), Fits(s, 0), NEW j \in Nat, ~FlushFails(s, j), NEW n \in Nat,
           n <= Len(Sflush(s, j).disk)
    PROVE  Sought(s, Dumb(s, j, n), n) /\ More(Dumb(s, j, n))
<1> DEFINE x == Sflush(s, j)
           y == Sseek(x, n)
           z == FreeUb(y)
           t == Dumb(s, j, n)
<1>1. Good(x) /\ SameMode(s, x) /\ (~s.wr \/ ~s.made => x = s)
  BY SflushFacts
<1>2. x.disk = DataOf(s)
  <2>1. CASE ~s.rd
    BY <2>1, SflushView
  <2>2. CASE s.rd
    <3>1. ~s.wr /\ s \in Stream /\ s.fdpos <= Len(s.disk)
      BY <2>2 DEF Flushable, ModeOK, FileOK
    <3>2. DataOf(s) = s.disk
      BY <2>2, <3>1, ReadingView
    <3>3. x = s
      BY <1>1, <3>1
    <3> QED
      BY <3>2, <3>3
  <2> QED
    BY <2>1, <2>2
<1>3. y \in Stream /\ y.disk = x.disk /\ y.fdpos = n
  BY <1>1, SseekFacts DEF Good
<1>4. Good(t) /\ t.r = 0 /\ ~t.hasub
  BY DumbFacts
<1> HIDE DEF x
<1>5. z \in Stream /\ SameFile(y, z)
  BY <1>3, FreeUbFacts
<1>6. t = [z EXCEPT !.p = 0, !.r = 0, !.eof = FALSE]
  BY DEF Dumb, x
<1> HIDE DEF y, z, t
<1>7. t.disk = z.disk /\ t.fdpos = z.fdpos /\ t.p = 0 /\ ~t.eof
  BY <1>5, <1>6 DEF Stream
<1>8. Clean(t) /\ Flushable(t)
  BY <1>4, <1>7, GoodFlushable DEF Clean
<1>9. DataOf(t) = t.disk /\ TellOf(t) = t.fdpos /\ InputOf(t) = From(t.disk, t.fdpos)
  BY <1>8, CleanView
<1>10. Sought(s, t, n)
  BY <1>2, <1>3, <1>5, <1>7, <1>9 DEF Sought, SameFile
<1>11. More(t)
  <2>1. BufCount(t) = 0 /\ t.fdpos \in Nat
    BY <1>4, <1>7 DEF BufCount, Good, Stream
  <2> QED
    BY <1>4, <1>7, <2>1 DEF More, EndOK, ReadAhead, MadeOK
<1> QED
  BY <1>10, <1>11 DEF t

\* What the buffer of a stream that is only read stands for.
LEMMA InBuffer ==
    ASSUME NEW s, Good(s), ReadAhead(s), s.rd, ~s.rw, s.kind # "none", ~s.hasub
    PROVE  /\ DataOf(s) = s.disk /\ TellOf(s) = s.fdpos - s.r
           /\ InputOf(s) = From(s.disk, s.fdpos - s.r)
<1>1. /\ s.ub \in Seq(Bytes) /\ Ahead(s) \in Seq(Bytes) /\ From(s.disk, s.fdpos) \in Seq(Bytes)
      /\ DataOf(s) = s.disk /\ TellOf(s) = s.fdpos - s.r - (IF s.hasub THEN s.ur ELSE 0)
      /\ InputOf(s) = (s.ub \o Ahead(s)) \o From(s.disk, s.fdpos)
      /\ s.buf \in Seq(Bytes) /\ Len(s.buf) = BufSize
      /\ IF s.hasub THEN s.up + s.ur <= BufSize ELSE s.p + s.r <= BufSize /\ s.ub = << >>
  BY InputParts
<1>2. /\ s.disk \in Seq(Bytes) /\ s.fdpos \in Nat /\ s.p \in Nat /\ s.r \in Nat
      /\ Len(s.disk) \in Nat /\ s.fdpos <= Len(s.disk)
  BY DEF Good, Stream, FileOK
<1>3. /\ BufCount(s) = s.p + s.r /\ s.p + s.r <= s.fdpos
      /\ \A i \in 1..(s.p + s.r) : s.buf[i] = s.disk[s.fdpos - (s.p + s.r) + i]
  <2>1. BufCount(s) = s.p + s.r
    BY DEF BufCount
  <2> QED
    BY <2>1 DEF ReadAhead
<1> DEFINE m == s.fdpos - s.r
<1>4. m \in Nat /\ m + s.r = s.fdpos /\ m <= s.fdpos
  BY <1>2, <1>3
<1>5. Agree(s.buf, s.p, s.disk, m, s.r)
  <2> SUFFICES ASSUME NEW i \in 1..s.r PROVE s.buf[s.p + i] = s.disk[m + i]
    BY DEF Agree
  <2>1. s.p + i \in 1..(s.p + s.r) /\ s.fdpos - (s.p + s.r) + (s.p + i) = m + i
    BY <1>2
  <2> QED
    BY <1>3, <2>1
<1> HIDE DEF m
<1>6. s.p + s.r <= Len(s.buf) /\ m + s.r <= Len(s.disk)
  BY <1>1, <1>2, <1>4
<1>7. Cut(s.buf, s.p, s.r) = Cut(s.disk, m, s.r)
  BY <1>1, <1>2, <1>4, <1>5, <1>6, SamePiece, SMTT(60)
<1>8. Ahead(s) = SubSeq(s.disk, m + 1, s.fdpos)
  BY <1>4, <1>7 DEF Ahead, Cut
<1>9. SubSeq(s.disk, m + 1, s.fdpos) \o From(s.disk, s.fdpos) = From(s.disk, m)
  BY <1>2, <1>4, Adjacent, Zenon
<1>10. << >> \o Ahead(s) = Ahead(s)
  BY <1>1, ConcatEmptySeq, Zenon
<1>11. InputOf(s) = From(s.disk, m)
  BY <1>1, <1>8, <1>9, <1>10
<1> QED
  BY <1>1, <1>2, <1>11 DEF m

\* fseeko inside the buffer, to a block boundary, or into a block, is as good as
\* by lseek.
LEMMA OptimisedView ==
    ASSUME NEW s, Good(s), More(s), CanOptimise(s), s.made, s.offset = s.fdpos,
           NEW k \in Int, k = -1 \/ k > 0, NEW n \in Nat, n <= Len(s.disk)
    PROVE  Sought(s, Optimised(s, k, n), n) /\ More(Optimised(s, k, n))
<1> DEFINE o == n - BufStart(s)
           block == n - (n % BlkSize)
           u == FreeUb(s)
           v == FreeUb(Sseek(s, block))
           at == [v EXCEPT !.p = 0, !.r = 0, !.eof = FALSE]
           filled == Srefill(at, k, 0, BufSize)
           t == Optimised(s, k, n)
<1>1. /\ s \in Stream /\ s.rd /\ ~s.wr /\ ~s.rw /\ s.kind # "none" /\ s.fdpos \in Nat
      /\ s.p \in Nat /\ s.r \in Nat /\ s.up \in Nat /\ s.ur \in Nat /\ s.hasub \in BOOLEAN
      /\ Size(s) = BufSize /\ BufSize \in Nat /\ 0 < BufSize /\ Len(s.disk) \in Nat
      /\ s.fdpos <= Len(s.disk) /\ k >= -1
  BY Sizes DEF Good, CanOptimise, Stream, ModeOK, FileOK, Size
<1>2. BufCount(s) \in Nat /\ BufStart(s) = s.fdpos - BufCount(s)
  BY <1>1, SMTT(60) DEF BufCount, BufStart
<1>3. block \in Nat /\ block <= n /\ o \in Int /\ o = n - (s.fdpos - BufCount(s))
  <2>1. n % BlkSize \in Nat /\ n % BlkSize <= n
    BY <1>1, Sizes
  <2> QED
    BY <1>1, <1>2, <2>1
<1> HIDE DEF o, block
<1>4. t = IF o >= 0 /\ o < BufCount(s)
          THEN [u EXCEPT !.p = o, !.r = BufCount(s) - o, !.eof = FALSE]
          ELSE IF n = block THEN at
          ELSE IF filled.r < n - block THEN Dumb(filled, 0, n)
          ELSE [filled EXCEPT !.p = n - block, !.r = @ - (n - block)]
  BY DEF Optimised, o, block
<1>5. Good(t)
  BY <1>1, OptimisedGood
<1>6. DataOf(s) = s.disk
  BY <1>1, ReadingView
<1>7. CASE o >= 0 /\ o < BufCount(s)
  <2>1. u \in Stream /\ ~u.hasub /\ SameMode(s, u) /\ SameFile(s, u)
    BY <1>1, FreeUbFacts
  <2>2. u.buf = s.buf
    BY <1>1 DEF FreeUb, Stream
  <2> DEFINE r0 == BufCount(s) - o
  <2>3. t = [u EXCEPT !.p = o, !.r = r0, !.eof = FALSE]
    BY <1>4, <1>7
  <2>4. o \in Nat /\ r0 \in Nat /\ o + r0 = BufCount(s) /\ s.fdpos - r0 = n
    <3> DEFINE c == BufCount(s)
    <3>1. c \in Nat /\ o \in Int /\ o >= 0 /\ o < c /\ s.fdpos \in Nat /\ o = n - (s.fdpos - c)
      BY <1>1, <1>2, <1>3, <1>7
    <3> HIDE DEF c
    <3>2. o \in Nat /\ c - o \in Nat
      BY <3>1
    <3>3. o + (c - o) = c
      BY <3>1
    <3>4. s.fdpos - (c - o) = n
      BY <3>1
    <3> QED
      BY <3>2, <3>3, <3>4, Zenon DEF c
  <2> HIDE DEF u, r0, t
  <2>5. /\ SameMode(u, t) /\ SameFile(u, t) /\ t.hasub = u.hasub /\ t.p = o /\ t.r = r0 /\ ~t.eof
        /\ t.buf = u.buf
    BY <2>1, <2>3, <2>4 DEF Stream, SameMode, SameFile
  <2>6. /\ SameMode(s, t) /\ t.disk = s.disk /\ t.fdpos = s.fdpos /\ t.buf = s.buf /\ ~t.hasub
    BY <2>1, <2>2, <2>5 DEF SameMode, SameFile
  <2>7. BufCount(t) = BufCount(s)
    BY <2>4, <2>5, <2>6 DEF BufCount
  <2>8. More(t)
    BY <1>1, <2>5, <2>6, <2>7, MoreRead DEF MadeOK, SameMode
  <2>9. t.rd /\ ~t.rw /\ t.kind # "none" /\ ReadAhead(t)
    BY <1>1, <2>6, <2>8 DEF SameMode, More
  <2>10. /\ DataOf(t) = t.disk /\ TellOf(t) = t.fdpos - t.r /\ InputOf(t) = From(t.disk, t.fdpos - t.r)
    BY <1>5, <2>6, <2>9, InBuffer
  <2>11. Sought(s, t, n)
    BY <1>6, <2>4, <2>5, <2>6, <2>10 DEF Sought
  <2> QED
    BY <2>8, <2>11 DEF t
<1>8. ASSUME ~(o >= 0 /\ o < BufCount(s)) PROVE Sought(s, t, n) /\ More(t)
  <2> DEFINE y == Sseek(s, block)
  <2>1. /\ y \in Stream /\ y.disk = s.disk /\ y.fdpos = block /\ y.soff /\ y.offset = block
        /\ SameMode(s, y) /\ SameCounters(s, y)
    BY <1>1, <1>3, SseekFacts
  <2> HIDE DEF y
  <2>2. /\ v \in Stream /\ ~v.hasub /\ v.ub = << >>
        /\ SameMode(y, v) /\ SameFile(y, v) /\ SameCounters(y, v)
    BY <2>1, FreeUbFacts DEF y
  <2> HIDE DEF v
  <2>3. /\ at \in Stream /\ SameMode(v, at) /\ SameFile(v, at) /\ SameUb(v, at) /\ ~at.eof
        /\ at.p = 0 /\ at.r = 0 /\ at.w = v.w /\ at.lbfsize = v.lbfsize
    BY <2>2 DEF Stream, SameMode, SameFile, SameUb
  <2> HIDE DEF at
  <2>4. /\ SameMode(s, at) /\ ~at.hasub /\ at.ub = << >> /\ at.w = 0 /\ at.lbfsize = 0
        /\ at.disk = s.disk /\ at.fdpos = block /\ at.soff /\ at.offset = block
    <3>1. s.w = 0 /\ s.lbfsize = 0
      BY <1>1 DEF Good, ReadOK
    <3> QED
      BY <2>1, <2>2, <2>3, <3>1 DEF SameMode, SameFile, SameUb, SameCounters
  <2>5. at.rd /\ ~at.wr /\ ~at.rw /\ at.made /\ at.kind = s.kind /\ Size(at) = BufSize
    BY <1>1, <2>4 DEF SameMode, Size
  <2>6. Good(at)
    <3>1. FileOK(at) /\ ModeOK(at) /\ WriteOK(at)
      BY <1>1, <1>3, <2>4, <2>5 DEF Good, FileOK, ModeOK, WriteOK
    <3>2. Len(<< >>) = 0 /\ 0 <= MaxPush /\ at.p + at.r <= Size(at)
      BY <1>1, <2>3, <2>5, Sizes
    <3>3. ReadOK(at)
      BY <2>3, <2>4, <2>5, <3>2 DEF ReadOK
    <3> QED
      BY <2>3, <3>1, <3>3 DEF Good
  <2>7. Clean(at) /\ Flushable(at) /\ Fits(at, 0) /\ More(at)
    <3>1. BufCount(at) = 0
      BY <2>3, <2>4 DEF BufCount
    <3> QED
      BY <1>3, <2>3, <2>4, <2>5, <2>6, <3>1, GoodFlushable
         DEF Clean, Fits, More, EndOK, ReadAhead, MadeOK
  <2>8. DataOf(at) = s.disk /\ TellOf(at) = block /\ InputOf(at) = From(s.disk, block)
    BY <2>4, <2>7, CleanView
  <2>9. SameView(at, filled) /\ More(filled)
    <3>1. 0 \in Nat /\ BufSize > 0 /\ BufSize <= Size(at)
      BY <1>1, <2>5
    <3> QED
      BY <1>1, <2>3, <2>5, <2>6, <2>7, <3>1, SrefillView
  <2>10. filled.p = 0 /\ filled.disk = s.disk
    <3> DEFINE x == [at EXCEPT !.r = 0]
               w == FreeUb(x)
               z == Made(w)
    <3>1. x = at
      BY <2>3 DEF Stream
    <3>2. filled = Fill(z, k, BufSize)
      BY <2>3, <2>4, <2>5, <3>1 DEF Srefill
    <3> HIDE DEF x
    <3>3. w \in Stream /\ SameFile(at, w)
      BY <2>3, <3>1, FreeUbFacts
    <3> HIDE DEF w
    <3>4. z \in Stream /\ SameFile(w, z)
      BY <3>3, MadeFacts
    <3> HIDE DEF z
    <3>5. FileOK(z) /\ z.disk = s.disk
      BY <2>4, <2>6, <3>3, <3>4 DEF Good, FileOK, SameFile
    <3> QED
      BY <1>1, <3>2, <3>4, <3>5, FillFacts
  <2>11. Good(filled) /\ ~filled.rw /\ ~filled.wr /\ filled.rd /\ ~filled.hasub
         /\ filled.kind = s.kind /\ filled.made
    <3>1. Refilled(at, filled, BufSize)
      BY <1>1, <2>6, <2>7, SrefillFacts
    <3>2. BufSize <= Size(at)
      BY <1>1, <2>5
    <3>3. Good(filled)
      BY <1>1, <2>3, <3>1, <3>2, RefilledGood
    <3>4. ~filled.rw /\ ~filled.wr /\ ~filled.hasub /\ filled.kind = s.kind
      BY <2>5, <3>1 DEF Refilled
    <3>5. filled.rd
      BY <3>3, <3>4 DEF Good, ModeOK
    <3> DEFINE x == [at EXCEPT !.r = 0]
               w == FreeUb(x)
               z == Made(w)
    <3>6. x = at
      BY <2>3 DEF Stream
    <3>7. filled = Fill(z, k, BufSize)
      BY <2>3, <2>4, <2>5, <3>6 DEF Srefill
    <3> HIDE DEF x
    <3>8. w \in Stream /\ SameFile(at, w)
      BY <2>3, <3>6, FreeUbFacts
    <3> HIDE DEF w
    <3>9. z \in Stream /\ z.made /\ FileOK(z)
      BY <2>6, <3>8, MadeFacts DEF Good, FileOK, SameFile
    <3> HIDE DEF z
    <3>10. filled.made
      <4>1. SameMode(z, filled)
        BY <1>1, <3>7, <3>9, FillFacts
      <4> QED
        BY <3>9, <4>1 DEF SameMode
    <3> QED
      BY <3>3, <3>4, <3>5, <3>10
  <2> HIDE DEF filled
  <2>12. CASE n = block
    <3>1. t = at
      BY <1>4, <1>8, <2>12
    <3>2. Sought(s, at, n)
      BY <1>6, <2>8, <2>12 DEF Sought
    <3> QED
      BY <2>7, <3>1, <3>2
  <2>13. CASE n # block /\ filled.r < n - block
    <3>1. t = Dumb(filled, 0, n)
      BY <1>4, <1>8, <2>13
    <3>2. /\ Flushable(filled) /\ Fits(filled, 0) /\ Sflush(filled, 0) = filled
          /\ ~FlushFails(filled, 0)
      BY <2>11, GoodFlushable DEF Fits, Sflush, FlushFails, Buffered
    <3>3. n <= Len(Sflush(filled, 0).disk)
      BY <2>10, <3>2
    <3>4. Sought(filled, t, n) /\ More(t)
      BY <3>1, <3>2, <3>3, DumbView
    <3>5. DataOf(filled) = DataOf(s)
      BY <1>6, <2>8, <2>9 DEF SameView
    <3> HIDE DEF t
    <3> QED
      BY <3>4, <3>5 DEF Sought
  <2>14. CASE n # block /\ ~(filled.r < n - block)
    <3> DEFINE d == n - block
               r0 == filled.r - d
    <3>1. t = [filled EXCEPT !.p = d, !.r = r0]
      BY <1>4, <1>8, <2>14
    <3>2. filled \in Stream /\ filled.r \in Nat /\ filled.fdpos \in Nat
      BY <2>11 DEF Good, Stream
    <3>3. d \in Nat /\ d > 0 /\ r0 \in Nat /\ d + r0 = filled.r /\ filled.r > 0
      BY <1>3, <2>14, <3>2
    <3>4. filled.fdpos - filled.r = block
      <4>1. TellOf(filled) = filled.fdpos - filled.r
        BY <2>9, <2>11, <1>1, InBuffer DEF More
      <4> QED
        BY <2>8, <2>9, <4>1 DEF SameView
    <3>5. filled.fdpos - r0 = n
      BY <1>3, <3>2, <3>4
    <3> HIDE DEF d, r0, t
    <3>6. /\ SameMode(filled, t) /\ SameFile(filled, t) /\ SameUb(filled, t) /\ t.p = d /\ t.r = r0
          /\ t.eof = filled.eof /\ t.buf = filled.buf
      BY <3>1, <3>2, <3>3 DEF Stream, SameMode, SameFile, SameUb
    <3>7. BufCount(t) = filled.r /\ BufCount(filled) = filled.r
      BY <2>10, <2>11, <3>2, <3>3, <3>6 DEF BufCount, SameUb
    <3>8. ~filled.eof
      BY <2>9, <3>3 DEF More, EndOK
    <3>9. More(t)
      BY <2>9, <2>11, <3>6, <3>7, <3>8, MoreRead DEF MadeOK, SameMode, SameFile
    <3>10. t.rd /\ ~t.rw /\ t.kind # "none" /\ ~t.hasub /\ ReadAhead(t)
      BY <1>1, <2>11, <3>6, <3>9 DEF SameMode, SameUb, More
    <3>11. /\ DataOf(t) = t.disk /\ TellOf(t) = t.fdpos - t.r
           /\ InputOf(t) = From(t.disk, t.fdpos - t.r)
      BY <1>5, <3>10, InBuffer
    <3>12. Sought(s, t, n)
      BY <1>6, <2>10, <3>5, <3>6, <3>11 DEF Sought, SameFile
    <3> QED
      BY <3>9, <3>12
  <2> QED
    BY <2>12, <2>13, <2>14
<1> QED
  BY <1>7, <1>8

-----------------------------------------------------------------------------
(* What the program sees of each call *)

LeftOK == busy.op \in {"fread", "direct"} => busy.left > 0

VInv == IInv /\ More(f) /\ LeftOK

\* The step is one that ByteStream allows, or one that the program does not see.
Abides == \/ call'.op \in {"lost", "overrun"} \/ FreadDropsPushback \/ BS!Next
          \/ UNCHANGED << Data, Tell, Input, call >>

\* The views of Stdio are those of its stream.
LEMMA Views ==
    /\ Data = DataOf(f) /\ Tell = TellOf(f) /\ Input = InputOf(f)
    /\ Data' = DataOf(f') /\ Tell' = TellOf(f') /\ Input' = InputOf(f')
<1>1. Data = DataOf(f) /\ Data' = DataOf(f')
  BY DEF Data, DataOf
<1>2. Tell = TellOf(f) /\ Tell' = TellOf(f')
  BY DEF Tell, TellOf
<1>3. Input = InputOf(f)
  BY <1>1, <1>2 DEF Input, InputOf, Ahead, From
<1>4. Input' = InputOf(f')
  BY <1>1, <1>2 DEF Input, InputOf, Ahead, From
<1> QED
  BY <1>1, <1>2, <1>3, <1>4

\* A step that reads b.
LEMMA AbidesRead ==
    ASSUME NEW b, call' = DidBytes("read", b), Len(b) > 0, InputOf(f) = b \o InputOf(f'),
           TellOf(f') = TellOf(f) + Len(b), DataOf(f') = DataOf(f)
    PROVE  Abides
<1>1. call'.op = "read" /\ call'.bytes = b
  BY DEF DidBytes
<1>2. BS!Read
  BY <1>1, Views DEF BS!Read
<1> QED
  BY <1>2 DEF Abides, BS!Next

\* A step that pushes c back.
LEMMA AbidesUnread ==
    ASSUME NEW c, call' = DidBytes("unread", << c >>), InputOf(f') = << c >> \o InputOf(f),
           TellOf(f') = TellOf(f) - 1, DataOf(f') = DataOf(f)
    PROVE  Abides
<1>1. call'.op = "unread" /\ call'.bytes = << c >>
  BY DEF DidBytes
<1>2. BS!Unread
  BY <1>1, Views DEF BS!Unread
<1> QED
  BY <1>2 DEF Abides, BS!Next

\* A step that writes b.
LEMMA AbidesWrite ==
    ASSUME NEW b, call' = DidBytes("write", b), Written(f, f', b)
    PROVE  Abides
<1>1. call'.op = "write" /\ call'.bytes = b
  BY DEF DidBytes
<1>2. /\ Data' = Overwrite(Data, Tell, b) /\ Tell' = Tell + Len(b) /\ Input' = From(Data', Tell')
  BY Views DEF Written
<1>3. BS!Put(Data, Tell, b) = Overwrite(Data, Tell, b) /\ BS!Rest(Data', Tell') = From(Data', Tell')
  BY DEF BS!Put, BS!Rest, Overwrite, From
<1>4. BS!Write
  BY <1>1, <1>2, <1>3 DEF BS!Write
<1> QED
  BY <1>4 DEF Abides, BS!Next

\* A seek to n.
LEMMA AbidesSeek ==
    ASSUME NEW n, call' = DidPos("seek", n), Sought(f, f', n)
    PROVE  Abides
<1>1. call'.op = "seek" /\ call'.pos = n
  BY DEF DidPos
<1>2. Data' = Data /\ Tell' = n /\ Input' = From(Data, n)
  BY Views DEF Sought
<1>3. BS!Rest(Data, n) = From(Data, n)
  BY DEF BS!Rest, From
<1>4. BS!Seek
  BY <1>1, <1>2, <1>3 DEF BS!Seek
<1> QED
  BY <1>4 DEF Abides, BS!Next

\* A step that shows the program nothing new of the stream.
LEMMA AbidesSame ==
    ASSUME SameView(f, f'),
           \/ call' = Did("flush") \/ call' = Did("fail") \/ call' = call
           \/ call' = Did("eof") /\ InputOf(f) = << >>
           \/ call' = DidPos("tell", TellOf(f))
    PROVE  Abides
<1>1. Data' = Data /\ Tell' = Tell /\ Input' = Input
  BY Views DEF SameView
<1>2. CASE call' = Did("flush")
  <2>1. call'.op = "flush"
    BY <1>2 DEF Did
  <2>2. BS!Flush
    BY <1>1, <2>1 DEF BS!Flush
  <2> QED
    BY <2>2 DEF Abides, BS!Next
<1>3. CASE call' = Did("fail")
  <2>1. call'.op = "fail"
    BY <1>3 DEF Did
  <2>2. BS!Fail
    BY <1>1, <2>1 DEF BS!Fail
  <2> QED
    BY <2>2 DEF Abides, BS!Next
<1>4. CASE call' = call
  BY <1>1, <1>4 DEF Abides
<1>5. CASE call' = Did("eof") /\ InputOf(f) = << >>
  <2>1. call'.op = "eof" /\ Input = << >>
    BY <1>5, Views DEF Did
  <2>2. BS!Eof
    BY <1>1, <2>1 DEF BS!Eof
  <2> QED
    BY <2>2 DEF Abides, BS!Next
<1>6. CASE call' = DidPos("tell", TellOf(f))
  <2>1. call'.op = "tell" /\ call'.pos = Tell
    BY <1>6, Views DEF DidPos
  <2>2. BS!Tell
    BY <1>1, <2>1 DEF BS!Tell
  <2> QED
    BY <2>2 DEF Abides, BS!Next
<1> QED
  BY <1>2, <1>3, <1>4, <1>5, <1>6

\* A step that loses bytes or overruns the buffer is excepted.
LEMMA AbidesLost == ASSUME call' = Did("lost") \/ call' = Did("overrun") PROVE Abides
  BY DEF Abides, Did

\* A failed flush, too, leaves what a refill relies on.
LEMMA SflushMore ==
    ASSUME NEW s, Flushable(s), Fits(s, 0), NEW j \in Nat, More(s) PROVE More(Sflush(s, j))
<1> DEFINE t == Sflush(s, j)
<1>1. /\ SameMode(s, t) /\ t.eof = s.eof /\ (~s.wr \/ ~s.made => t = s)
  BY SflushFacts
<1> HIDE DEF t
<1>2. CASE ~s.wr \/ ~s.made
  BY <1>1, <1>2 DEF t
<1>3. CASE s.wr /\ s.made
  <2>1. ~t.rd /\ t.made /\ ~t.eof
    BY <1>1, <1>3 DEF SameMode, Flushable, ModeOK, More, EndOK
  <2>2. More(t)
    BY <2>1, MoreWriting
  <2> QED
    BY <2>2 DEF t
<1> QED
  BY <1>2, <1>3

\* What the actions have in common.
LEMMA ViewContext ==
    ASSUME VInv
    PROVE  /\ IInv /\ Good(f) /\ Flushable(f) /\ More(f) /\ Fits(f, 0) /\ f \in Stream
           /\ f.r \in Nat /\ f.p \in Nat /\ f.rd \in BOOLEAN /\ f.wr \in BOOLEAN /\ f.eof \in BOOLEAN
           /\ f.hasub \in BOOLEAN /\ Size(f) \in Nat /\ 0 < Size(f) /\ Size(f) <= BufSize
           /\ f.r > 0 => f.rd
           /\ \A j \in Takes : j \in Nat
           /\ \A k \in Reads : k \in Int /\ (k = -1 \/ k > 0)
<1>1. /\ Good(f) /\ Fits(f, 0) /\ f \in Stream /\ \A j \in Takes : j \in Nat
  BY Context DEF VInv
<1>2. \A k \in Reads : k \in Int /\ (k = -1 \/ k > 0)
  BY Sizes DEF Reads
<1>3. Flushable(f)
  BY <1>1, GoodFlushable
<1>4. /\ f.r \in Nat /\ f.p \in Nat /\ f.rd \in BOOLEAN /\ f.wr \in BOOLEAN /\ f.eof \in BOOLEAN
      /\ f.hasub \in BOOLEAN
  BY <1>1 DEF Stream
<1>5. f.r > 0 => f.rd
  BY <1>1, <1>4 DEF Good, ReadOK
<1> QED
  BY <1>1, <1>2, <1>3, <1>4, <1>5, Sizes DEF VInv

\* A refill that cannot write out what is in the buffer.
LEMMA SrefillLost ==
    ASSUME NEW s, Good(s), More(s), Fits(s, 0), s.r = 0, ~s.rd, NEW k, NEW j \in Nat, NEW n,
           FlushFails(s, j)
    PROVE  Srefill(s, k, j, n).r = 0 /\ More(Srefill(s, k, j, n))
<1> DEFINE t == Srefill(s, k, j, n)
           x == [s EXCEPT !.r = 0]
<1>1. s \in Stream /\ s.rw \in BOOLEAN /\ Flushable(s)
  BY GoodFlushable DEF Good, Stream
<1>2. x = s
  BY <1>1 DEF Stream
<1>3. ~s.eof
  BY DEF More, EndOK
<1>4. CASE s.rw
  <2>1. t = Sflush(s, j)
    BY <1>2, <1>3, <1>4 DEF Srefill
  <2>2. Sflush(s, j).r = 0
    BY <1>1, SflushFacts
  <2> QED
    BY <1>1, <2>1, <2>2, SflushMore
<1>5. CASE ~s.rw
  <2>1. t = [s EXCEPT !.err = TRUE]
    BY <1>2, <1>3, <1>5 DEF Srefill
  <2> HIDE DEF t
  <2>2. /\ SameMode(s, t) /\ SameFile(s, t) /\ SameUb(s, t) /\ SameCounters(s, t)
        /\ t.buf = s.buf /\ t.eof = s.eof
    BY <1>1, <2>1 DEF Stream, SameMode, SameFile, SameUb, SameCounters
  <2>3. More(t) /\ t.r = 0
    BY <2>2, ViewKept DEF SameFile, SameCounters
  <2> QED
    BY <2>3 DEF t
<1> QED
  BY <1>1, <1>4, <1>5

\* The refills of getc and fread.
LEMMA RefillView ==
    ASSUME VInv, NEW k \in Reads, NEW j \in Takes, f.r = 0
    PROVE  LET s == Srefill(f, k, j, Size(f)) IN
           /\ Good(s) /\ More(s) /\ s.r \in Nat /\ (s.r > 0 => s.rd)
           /\ ~f.rd /\ FlushFails(f, j) => s.r = 0
           /\ f.rd \/ ~FlushFails(f, j) =>
                 SameView(f, s) /\ (s.eof /\ s.r = 0 => InputOf(f) = << >>)
<1> DEFINE s == Srefill(f, k, j, Size(f))
<1>1. /\ Good(f) /\ More(f) /\ Fits(f, 0) /\ f \in Stream /\ f.rd \in BOOLEAN
      /\ Size(f) \in Nat /\ 0 < Size(f) /\ j \in Nat /\ k \in Int /\ (k = -1 \/ k > 0)
      /\ k >= -1 /\ Size(f) > 0 /\ Size(f) <= Size(f)
  BY ViewContext
<1>2. Refilled(f, s, Size(f))
  BY <1>1, SrefillFacts
<1>3. Good(s)
  BY <1>1, <1>2, RefilledGood
<1>4. s.r \in Nat /\ (s.r > 0 => s.rd)
  <2>1. s.r \in Nat /\ s.rd \in BOOLEAN
    BY <1>3 DEF Good, Stream
  <2> QED
    BY <1>3, <2>1 DEF Good, ReadOK
<1>5. ASSUME ~f.rd, FlushFails(f, j) PROVE s.r = 0 /\ More(s)
  BY <1>1, <1>5, SrefillLost
<1>6. ASSUME f.rd \/ ~FlushFails(f, j)
      PROVE  SameView(f, s) /\ More(s) /\ (s.eof /\ s.r = 0 => InputOf(f) = << >>)
  BY <1>1, <1>6, SrefillView
<1> HIDE DEF s
<1> QED
  BY <1>3, <1>4, <1>5, <1>6 DEF s

\* The bytes taken from a stream that looks like f.
LEMMA TakenStep ==
    ASSUME NEW s, Good(s), More(s), SameView(f, s), s.rd, NEW n \in Nat, 0 < n, n <= s.r,
           f' = Taken(s, n), call' = DidBytes("read", Upcoming(s, n))
    PROVE  More(f') /\ Abides
<1> DEFINE b == Upcoming(s, n)
           t == Taken(s, n)
<1>1. /\ DataOf(t) = DataOf(s) /\ TellOf(t) = TellOf(s) + n
      /\ InputOf(s) = b \o InputOf(t) /\ Len(b) = n /\ More(t)
  BY TakenView
<1> HIDE DEF b, t
<1>2. f' = t /\ call' = DidBytes("read", b)
  BY DEF b, t
<1>3. /\ DataOf(f') = DataOf(f) /\ TellOf(f') = TellOf(f) + Len(b)
      /\ InputOf(f) = b \o InputOf(f') /\ Len(b) > 0
  BY <1>1, <1>2 DEF SameView
<1>4. Abides
  BY <1>2, <1>3, AbidesRead
<1> QED
  BY <1>1, <1>2, <1>4

\* A refill that finds nothing.
LEMMA NothingStep ==
    ASSUME NEW s, More(s), NEW j,
           f.rd \/ ~FlushFails(f, j) =>
              SameView(f, s) /\ (s.eof /\ s.r = 0 => InputOf(f) = << >>),
           s.r = 0, f' = s,
           call' = Did(IF ~f.rd /\ FlushFails(f, j) THEN "lost" ELSE IF s.eof THEN "eof" ELSE "fail")
    PROVE  More(f') /\ Abides
<1>1. CASE ~f.rd /\ FlushFails(f, j)
  BY <1>1, AbidesLost
<1>2. CASE f.rd \/ ~FlushFails(f, j)
  <2>1. SameView(f, f')
    BY <1>2
  <2>2. CASE s.eof
    BY <1>2, <2>1, <2>2, AbidesSame
  <2>3. CASE ~s.eof
    BY <1>2, <2>1, <2>3, AbidesSame
  <2> QED
    BY <2>2, <2>3
<1> QED
  BY <1>1, <1>2

\* getc.
LEMMA GetcView ==
    ASSUME VInv, NEW k \in Reads, NEW j \in Takes, Getc(k, j)
    PROVE  More(f') /\ LeftOK' /\ Abides
<1>1. LeftOK'
  BY DEF Getc, VInv, LeftOK
<1>2. Good(f) /\ More(f) /\ f.r \in Nat /\ (f.r > 0 => f.rd) /\ f.rd \in BOOLEAN
  BY ViewContext
<1>3. CASE f.r > 0
  <2>1. f' = Taken(f, 1) /\ call' = DidBytes("read", Upcoming(f, 1))
    BY <1>2, <1>3 DEF Getc
  <2>2. 1 \in Nat /\ 0 < 1 /\ 1 <= f.r /\ SameView(f, f)
    BY <1>2, <1>3 DEF SameView
  <2> QED
    BY <1>1, <1>2, <1>3, <2>1, <2>2, TakenStep
<1>4. CASE ~(f.r > 0)
  <2> DEFINE s == Srefill(f, k, j, Size(f))
  <2>1. f.r = 0
    BY <1>2, <1>4
  <2>2. /\ Good(s) /\ More(s) /\ s.r \in Nat /\ (s.r > 0 => s.rd)
        /\ ~f.rd /\ FlushFails(f, j) => s.r = 0
        /\ f.rd \/ ~FlushFails(f, j) =>
              SameView(f, s) /\ (s.eof /\ s.r = 0 => InputOf(f) = << >>)
    BY <2>1, RefillView
  <2>3. \/ /\ s.r > 0
           /\ f' = Taken(s, 1) /\ call' = DidBytes("read", Upcoming(s, 1))
        \/ /\ s.r = 0
           /\ f' = s
           /\ call' = Did(IF ~f.rd /\ FlushFails(f, j) THEN "lost"
                          ELSE IF s.eof THEN "eof" ELSE "fail")
    BY <1>4, <2>1 DEF Getc
  <2> HIDE DEF s
  <2>4. CASE s.r > 0
    <3>1. SameView(f, s) /\ s.rd /\ 1 \in Nat /\ 0 < 1 /\ 1 <= s.r
      BY <1>2, <2>2, <2>4
    <3>2. f' = Taken(s, 1) /\ call' = DidBytes("read", Upcoming(s, 1))
      BY <2>3, <2>4
    <3> QED
      BY <1>1, <2>2, <3>1, <3>2, TakenStep
  <2>5. CASE ~(s.r > 0)
    <3>1. s.r = 0
      BY <2>2, <2>5
    <3>2. /\ f' = s
          /\ call' = Did(IF ~f.rd /\ FlushFails(f, j) THEN "lost" ELSE IF s.eof THEN "eof" ELSE "fail")
      BY <2>3, <2>5
    <3> QED
      BY <1>1, <2>2, <3>1, <3>2, NothingStep
  <2> QED
    BY <2>4, <2>5
<1> QED
  BY <1>3, <1>4

\* A turn of fread.
LEMMA FreadStepView ==
    ASSUME VInv, NEW k \in Reads, NEW j \in Takes, FreadStep(k, j)
    PROVE  More(f') /\ LeftOK' /\ Abides
<1>1. Good(f) /\ More(f) /\ f.r \in Nat /\ (f.r > 0 => f.rd) /\ f.rd \in BOOLEAN
  BY ViewContext
<1>2. busy.op = "fread" /\ busy.left \in Nat /\ busy.left > 0 /\ NoBusy.op = "none"
  BY DEF FreadStep, VInv, LeftOK, IInv, BusyOK, NoBusy
<1>3. CASE f.r > 0
  <2> DEFINE n == Min({f.r, busy.left})
  <2>1. f' = Taken(f, n) /\ call' = DidBytes("read", Upcoming(f, n))
        /\ busy' = IF n = busy.left THEN NoBusy ELSE [busy EXCEPT !.left = @ - n]
    BY <1>1, <1>3 DEF FreadStep
  <2>2. n \in Nat /\ 0 < n /\ n <= f.r /\ n <= busy.left
    <3> DEFINE a == f.r
               b == busy.left
    <3>1. a \in Int /\ b \in Int /\ a \in Nat /\ b \in Nat /\ 0 < a /\ 0 < b
      BY <1>1, <1>2, <1>3
    <3> HIDE DEF a, b
    <3>2. Min({a, b}) = IF a <= b THEN a ELSE b
      BY <3>1, MinMax, Zenon
    <3>3. LET m == Min({a, b}) IN m \in Nat /\ 0 < m /\ m <= a /\ m <= b
      BY <3>1, <3>2
    <3> QED
      BY <3>3 DEF a, b
  <2> HIDE DEF n
  <2>3. LeftOK'
    <3>1. CASE n = busy.left
      BY <1>2, <2>1, <3>1 DEF LeftOK
    <3>2. CASE n # busy.left
      <4>1. busy' = [busy EXCEPT !.left = @ - n]
        BY <2>1, <3>2
      <4>2. busy'.left = busy.left - n
        BY <4>1 DEF VInv, IInv, BusyOK
      <4>3. busy.left - n > 0
        BY <1>2, <2>2, <3>2
      <4> QED
        BY <4>2, <4>3 DEF LeftOK
    <3> QED
      BY <3>1, <3>2
  <2>4. SameView(f, f) /\ f.rd
    BY <1>1, <1>3 DEF SameView
  <2> QED
    BY <1>1, <2>1, <2>2, <2>3, <2>4, TakenStep
<1>4. CASE ~(f.r > 0)
  <2> DEFINE s == Srefill(f, k, j, Size(f))
  <2>1. f.r = 0
    BY <1>1, <1>4
  <2>2. /\ Good(s) /\ More(s) /\ s.r \in Nat /\ (s.r > 0 => s.rd)
        /\ ~f.rd /\ FlushFails(f, j) => s.r = 0
        /\ f.rd \/ ~FlushFails(f, j) =>
              SameView(f, s) /\ (s.eof /\ s.r = 0 => InputOf(f) = << >>)
    BY <1>1, <2>1, RefillView
  <2>3. \/ s.r > 0 /\ f' = s /\ UNCHANGED << call, busy >>
        \/ /\ s.r = 0
           /\ f' = s /\ busy' = NoBusy
           /\ call' = Did(IF ~f.rd /\ FlushFails(f, j) THEN "lost"
                          ELSE IF s.eof THEN "eof" ELSE "fail")
    BY <1>4, <2>1 DEF FreadStep
  <2> HIDE DEF s
  <2>4. CASE s.r > 0
    <3>1. SameView(f, f') /\ More(f')
      BY <1>1, <2>2, <2>3, <2>4
    <3>2. call' = call /\ busy' = busy
      BY <2>3, <2>4
    <3> QED
      BY <1>2, <3>1, <3>2, AbidesSame DEF LeftOK
  <2>5. CASE ~(s.r > 0)
    <3>1. s.r = 0
      BY <2>2, <2>5
    <3>2. /\ f' = s /\ busy' = NoBusy
          /\ call' = Did(IF ~f.rd /\ FlushFails(f, j) THEN "lost" ELSE IF s.eof THEN "eof" ELSE "fail")
      BY <2>3, <2>5
    <3>3. LeftOK'
      BY <1>2, <3>2 DEF LeftOK
    <3> QED
      BY <2>2, <3>1, <3>2, <3>3, NothingStep
  <2> QED
    BY <2>4, <2>5
<1> QED
  BY <1>3, <1>4

\* ungetc.
LEMMA UngetcView ==
    ASSUME VInv, NEW c \in Bytes, NEW j \in Takes, Ungetc(c, j)
    PROVE  More(f') /\ LeftOK' /\ Abides
<1>1. LeftOK'
  BY DEF Ungetc, VInv, LeftOK
<1>2. Good(f) /\ Flushable(f) /\ More(f) /\ Fits(f, 0) /\ f.rd \in BOOLEAN /\ j \in Nat
  BY ViewContext
<1>3. Len(f.ub) < MaxPush /\ (f.rd \/ f.rw)
  BY DEF Ungetc
<1>4. CASE ~f.rd /\ FlushFails(f, j)
  <2>1. f' = Sflush(f, j) /\ call' = Did("lost")
    BY <1>4 DEF Ungetc
  <2> QED
    BY <1>1, <1>2, <2>1, SflushMore, AbidesLost
<1>5. CASE f.rd \/ ~FlushFails(f, j)
  <2> DEFINE s == IF f.rd THEN f ELSE StartReading(f, j)
  <2>1. f' = Pushed(s, c) /\ call' = DidBytes("unread", << c >>)
    BY <1>5 DEF Ungetc
  <2>2. Good(s) /\ More(s) /\ s.rd /\ Len(s.ub) < MaxPush /\ SameView(f, s)
    <3>1. CASE f.rd
      BY <1>2, <1>3, <3>1 DEF SameView
    <3>2. CASE ~f.rd
      <4>1. Good(StartReading(f, j)) /\ StartReading(f, j).rd /\ StartReading(f, j).ub = << >>
        BY <1>2, <3>2, StartReadingFacts
      <4>2. f.ub = << >>
        BY <1>2, <3>2 DEF Good, ReadOK
      <4>3. SameView(f, StartReading(f, j)) /\ More(StartReading(f, j))
        BY <1>2, <1>3, <1>5, <3>2, StartReadingView
      <4> QED
        BY <1>3, <3>2, <4>1, <4>2, <4>3
    <3> QED
      BY <3>1, <3>2
  <2> HIDE DEF s
  <2>3. /\ DataOf(Pushed(s, c)) = DataOf(s) /\ TellOf(Pushed(s, c)) = TellOf(s) - 1
        /\ InputOf(Pushed(s, c)) = << c >> \o InputOf(s) /\ More(Pushed(s, c))
    BY <2>2, PushedView
  <2>4. /\ DataOf(f') = DataOf(f) /\ TellOf(f') = TellOf(f) - 1
        /\ InputOf(f') = << c >> \o InputOf(f) /\ More(f')
    BY <2>1, <2>2, <2>3 DEF SameView
  <2> QED
    BY <1>1, <2>1, <2>4, AbidesUnread
<1> QED
  BY <1>4, <1>5

\* fflush, of the stream or of all streams.
LEMMA FflushView ==
    ASSUME VInv, NEW j \in Takes, NEW all \in BOOLEAN, Fflush(all, j)
    PROVE  More(f') /\ LeftOK' /\ Abides
<1>1. LeftOK'
  BY DEF Fflush, VInv, LeftOK
<1>2. Flushable(f) /\ More(f) /\ Fits(f, 0) /\ j \in Nat
  BY ViewContext
<1>3. \/ f' = Sflush(f, j) /\ call' = Did(IF FlushFails(f, j) THEN "lost" ELSE "flush")
      \/ f' = f /\ call' = Did("fail")
  BY DEF Fflush
<1>4. CASE f' = f /\ call' = Did("fail")
  <2>1. SameView(f, f')
    BY <1>4 DEF SameView
  <2> QED
    BY <1>1, <1>2, <1>4, <2>1, AbidesSame
<1>5. CASE f' = Sflush(f, j) /\ call' = Did(IF FlushFails(f, j) THEN "lost" ELSE "flush")
  <2>1. More(f')
    BY <1>2, <1>5, SflushMore
  <2>2. CASE FlushFails(f, j)
    BY <1>1, <1>5, <2>1, <2>2, AbidesLost
  <2>3. CASE ~FlushFails(f, j)
    <3>1. SameView(f, f') /\ call' = Did("flush")
      BY <1>2, <1>5, <2>3, SflushView
    <3> QED
      BY <1>1, <2>1, <3>1, AbidesSame
  <2> QED
    BY <2>2, <2>3
<1> QED
  BY <1>3, <1>4, <1>5

\* ftell.
LEMMA FtellView ==
    ASSUME VInv, NEW j \in Takes, Ftell(j) PROVE More(f') /\ LeftOK' /\ Abides
<1> DEFINE x == Sflush(f, j)
           s == KnowOffset(x)
<1>1. LeftOK'
  BY DEF Ftell, VInv, LeftOK
<1>2. Flushable(f) /\ More(f) /\ Fits(f, 0) /\ j \in Nat
  BY ViewContext
<1>3. f' = s /\ call' = IF FlushFails(f, j) THEN Did("lost") ELSE DidPos("tell", Position(s, s.offset))
  BY DEF Ftell
<1>4. Good(x) /\ Flushable(x) /\ More(x)
  BY <1>2, SflushFacts, SflushMore, GoodFlushable
<1>5. ~FlushFails(f, j) => SameView(f, x)
  BY <1>2, SflushView
<1> HIDE DEF x
<1>6. SameView(x, s) /\ More(s)
  BY <1>4, KnowOffsetView
<1>7. s.offset = s.fdpos
  BY <1>4, KnowOffsetFacts DEF Good
<1> HIDE DEF s
<1>8. CASE FlushFails(f, j)
  BY <1>1, <1>3, <1>6, <1>8, AbidesLost
<1>9. CASE ~FlushFails(f, j)
  <2>1. SameView(f, f')
    BY <1>3, <1>5, <1>6, <1>9 DEF SameView
  <2>2. Position(s, s.offset) = TellOf(f)
    BY <1>3, <1>7, <2>1 DEF SameView, TellOf
  <2>3. call' = DidPos("tell", TellOf(f))
    BY <1>3, <1>9, <2>2
  <2> QED
    BY <1>1, <1>3, <1>6, <2>1, <2>3, AbidesSame
<1> QED
  BY <1>8, <1>9

\* Calls that fail at once, clearerr, the start of fread, and after an overrun.
LEMMA SmallViews ==
    ASSUME VInv,
           \/ \E n \in 1..MaxCount : Fread(n)
           \/ \E c \in Bytes : PutcFails(c)
           \/ UngetcFails \/ FwriteFails \/ Clearerr \/ Overrun
    PROVE  More(f') /\ LeftOK' /\ Abides
<1>1. f \in Stream /\ More(f) /\ f.eof \in BOOLEAN
  BY ViewContext
<1>2. ASSUME NEW n \in 1..MaxCount, Fread(n) PROVE More(f') /\ LeftOK' /\ Abides
  <2>1. /\ f' = f /\ call' = call
        /\ busy' = [NoBusy EXCEPT !.op = IF f.made /\ f.kind = "none" THEN "direct" ELSE "fread",
                                  !.left = n]
    BY <1>2 DEF Fread
  <2>2. busy'.left = n
    BY <2>1 DEF NoBusy
  <2>3. n > 0
    BY Sizes
  <2>4. LeftOK'
    BY <2>2, <2>3 DEF LeftOK
  <2>5. SameView(f, f')
    BY <2>1 DEF SameView
  <2> QED
    BY <1>1, <2>1, <2>4, <2>5, AbidesSame
<1>3. ASSUME busy' = busy, call' = Did("fail") \/ call' = call,
             f' = f \/ f' = [f EXCEPT !.w = f.lbfsize] \/ f' = [f EXCEPT !.err = FALSE, !.eof = FALSE]
      PROVE  More(f') /\ LeftOK' /\ Abides
  <2>1. LeftOK'
    BY <1>3 DEF VInv, LeftOK
  <2>2. /\ SameMode(f, f') /\ SameUb(f, f') /\ f'.disk = f.disk /\ f'.fdpos = f.fdpos
        /\ f'.p = f.p /\ f'.r = f.r /\ f'.buf = f.buf /\ (f'.eof => f.eof)
    <3>1. CASE f' = f
      BY <3>1, Zenon DEF SameMode, SameUb
    <3>2. CASE f' = [f EXCEPT !.w = f.lbfsize]
      BY <1>1, <3>2, SMTT(60) DEF Stream, SameMode, SameUb
    <3>3. CASE f' = [f EXCEPT !.err = FALSE, !.eof = FALSE]
      BY <1>1, <3>3, SMTT(60) DEF Stream, SameMode, SameUb
    <3> QED
      BY <1>3, <3>1, <3>2, <3>3
  <2>3. SameView(f, f') /\ More(f')
    BY <1>1, <2>2, ViewKept
  <2> QED
    BY <1>3, <2>1, <2>3, AbidesSame
<1>4. ASSUME NEW c \in Bytes, PutcFails(c) PROVE More(f') /\ LeftOK' /\ Abides
  BY <1>3, <1>4 DEF PutcFails
<1>5. ASSUME UngetcFails \/ FwriteFails PROVE More(f') /\ LeftOK' /\ Abides
  BY <1>3, <1>5 DEF UngetcFails, FwriteFails
<1>6. ASSUME Clearerr PROVE More(f') /\ LeftOK' /\ Abides
  BY <1>3, <1>6 DEF Clearerr
<1>7. ASSUME Overrun PROVE More(f') /\ LeftOK' /\ Abides
  BY <1>3, <1>7 DEF Overrun, vars
<1> QED
  BY <1>2, <1>4, <1>5, <1>6, <1>7

\* putc without a call.
LEMMA PutcFastView ==
    ASSUME VInv, NEW c \in Bytes, PutcFast(f, c), f' = Store(f, << c >>),
           call' = DidBytes("write", << c >>)
    PROVE  More(f') /\ Abides
<1> DEFINE one == << c >>
<1>1. /\ Good(f) /\ Flushable(f) /\ More(f) /\ f \in Stream /\ f.p \in Nat /\ f.w \in Int
      /\ f.lbfsize \in Int /\ BufSize \in Nat /\ 0 < BufSize /\ f.kind \in {"full", "line", "none"}
  BY ViewContext, Sizes DEF Stream
<1>2. one \in Seq(Bytes) /\ Len(one) = 1
  OBVIOUS
<1>3. f.w > 0 \/ f.w - 1 >= f.lbfsize
  BY <1>1 DEF PutcFast
<1>4. f.wr /\ f.made
  <2>1. CASE f.rd
    BY <1>1, <1>3, <2>1 DEF Good, ReadOK
  <2>2. CASE ~f.rd
    BY <1>1, <1>3, <2>2 DEF Good, WriteOK
  <2> QED
    BY <2>1, <2>2
<1>5. f.p + 1 <= BufSize
  <2>1. /\ f.p <= BufSize
        /\ f.kind = "full" => f.w = BufSize - f.p /\ f.lbfsize = 0
        /\ f.kind = "line" => \/ f.w + f.p = 0 /\ f.lbfsize = -BufSize
                              \/ f.w <= 0 /\ f.lbfsize = 0
        /\ f.kind = "none" => f.p = 0 /\ f.w = 0 /\ f.lbfsize = 0
    BY <1>1, <1>4 DEF Good, WriteOK
  <2> QED
    BY <1>1, <1>3, <2>1
<1>6. f' = Store(f, one) /\ call' = DidBytes("write", one)
  OBVIOUS
<1> HIDE DEF one
<1>7. f.p + Len(one) <= BufSize
  BY <1>2, <1>5
<1>8. Written(f, Store(f, one), one) /\ More(Store(f, one))
  BY <1>1, <1>2, <1>4, <1>7, StoreView
<1> QED
  BY <1>6, <1>8, AbidesWrite

\* The stream that __swbuf writes to looks like f, before and after its first
\* flush.
LEMMA SwbufView ==
    ASSUME VInv, Room > 0, Idle("out"), ~CantWrite(f), NEW j \in Nat
    PROVE  /\ SameView(f, SwbufReady) /\ More(SwbufReady)
           /\ SwbufReady.p < Size(SwbufReady) \/ ~FlushFails(SwbufReady, j) =>
                 SameView(f, SwbufFirst(SwbufReady, j)) /\ More(SwbufFirst(SwbufReady, j))
<1> DEFINE s0 == [f EXCEPT !.w = f.lbfsize]
           s == SwbufReady
           x == SwbufFirst(s, j)
<1>1. /\ IInv /\ Good(f) /\ Flushable(f) /\ More(f) /\ f \in Stream /\ f.fdpos \in Nat /\ f.p \in Nat
      /\ MaxLen \in Nat /\ f.lbfsize \in Int
  BY ViewContext, Sizes DEF Stream
<1>2. /\ f.rd => f.r = 0 /\ ~f.hasub
      /\ Tell = f.fdpos + (IF f.wr THEN f.p ELSE 0)
  BY <1>1, Writable
<1>3. f.fdpos + (IF f.wr THEN f.p ELSE 0) <= MaxLen
  BY <1>1, <1>2 DEF Room
<1>4. /\ s0 \in Stream /\ SameMode(f, s0) /\ SameFile(f, s0) /\ SameUb(f, s0) /\ s0.eof = f.eof
      /\ s0.p = f.p /\ s0.r = f.r /\ s0.w = f.lbfsize /\ s0.lbfsize = f.lbfsize /\ s0.buf = f.buf
  BY <1>1 DEF Stream, SameMode, SameFile, SameUb
<1>5. s = ReadyToWrite(s0)
  BY DEF SwbufReady
<1> HIDE DEF s0, s
<1>6. Flushable(s0)
  <2>1. FileOK(s0) /\ ModeOK(s0)
    BY <1>1, <1>4 DEF Good, FileOK, ModeOK, SameMode, SameFile
  <2>2. ReadOK(s0)
    BY <1>1, <1>4 DEF Good, ReadOK, SameMode, SameUb, Size
  <2> QED
    BY <1>1, <1>4, <2>1, <2>2 DEF Flushable, SameMode
<1>7. SameView(f, s0) /\ More(s0)
  BY <1>1, <1>4, ViewKept DEF SameFile
<1>8. SameView(s0, s) /\ More(s)
  <2>1. ~CantWrite(s0) /\ (s0.rd => s0.r = 0 /\ ~s0.hasub)
    BY <1>2, <1>4 DEF CantWrite, SameMode, SameUb
  <2>2. s0.fdpos + (IF s0.wr THEN s0.p ELSE 0) <= MaxLen
    BY <1>3, <1>4 DEF SameFile, SameMode
  <2> QED
    BY <1>5, <1>6, <1>7, <2>1, <2>2, ReadyView
<1>9. SameView(f, s)
  BY <1>7, <1>8 DEF SameView
<1>10. Flushable(s) /\ Fits(s, 0) /\ s.p \in Nat /\ Size(s) \in Nat
  BY <1>1, SwbufReadyFacts DEF s
<1>11. ASSUME s.p < Size(s) \/ ~FlushFails(s, j) PROVE SameView(f, x) /\ More(x)
  <2>1. CASE s.p < Size(s)
    <3>1. x = s
      BY <1>10, <2>1 DEF SwbufFirst
    <3> QED
      BY <1>8, <1>9, <3>1
  <2>2. CASE ~(s.p < Size(s))
    <3>1. x = Sflush(s, j) /\ ~FlushFails(s, j)
      BY <1>10, <1>11, <2>2 DEF SwbufFirst
    <3>2. SameView(s, x) /\ More(x)
      BY <1>8, <1>10, <3>1, SflushView
    <3> QED
      BY <1>9, <3>2 DEF SameView
  <2> QED
    BY <2>1, <2>2
<1> QED
  BY <1>8, <1>9, <1>11 DEF s

\* putc through __swbuf.
LEMMA PutcSlowView ==
    ASSUME VInv, NEW c \in Bytes, NEW j \in Nat, NEW j2 \in Nat, Room > 0,
           Putc(c, j, j2), ~PutcFast(f, c)
    PROVE  More(f') /\ Abides
<1> DEFINE s == SwbufReady
           x == SwbufFirst(s, j)
           one == << c >>
           t == Store(x, one)
<1>1. IInv /\ j \in Nat /\ j2 \in Nat
  BY ViewContext, Sizes
<1>2. /\ Idle("out") /\ ~CantWrite(f)
      /\ \/ /\ s.p >= Size(s) /\ FlushFails(s, j)
            /\ f' = Sflush(s, j) /\ call' = Did("lost")
         \/ /\ s.p < Size(s) \/ ~FlushFails(s, j)
            /\ f' = IF Full(t, c) THEN Sflush(t, j2) ELSE t
            /\ call' = IF Full(t, c) /\ FlushFails(t, j2) THEN Did("lost")
                       ELSE DidBytes("write", one)
  BY DEF Putc, SwbufReady
<1>3. Flushable(s) /\ Fits(s, 0)
  BY <1>1, <1>2, SwbufReadyFacts
<1>4. /\ SameView(f, s) /\ More(s)
      /\ s.p < Size(s) \/ ~FlushFails(s, j) => SameView(f, x) /\ More(x)
  BY <1>1, <1>2, SwbufView
<1>5. /\ Flushable(x) /\ x.wr /\ x.made
  BY <1>1, <1>2, SwbufFirstFacts
<1>6. /\ one \in Seq(Bytes) /\ x.p + Len(one) <= BufSize
      /\ Flushable(t) /\ Fits(t, 0)
  BY <1>1, <1>2, SwbufStoreFacts
<1> HIDE DEF s, x, one
<1>7. CASE f' = Sflush(s, j) /\ call' = Did("lost")
  BY <1>1, <1>3, <1>4, <1>7, SflushMore, AbidesLost
<1>8. CASE /\ s.p < Size(s) \/ ~FlushFails(s, j)
           /\ f' = IF Full(t, c) THEN Sflush(t, j2) ELSE t
           /\ call' = IF Full(t, c) /\ FlushFails(t, j2) THEN Did("lost")
                      ELSE DidBytes("write", one)
  <2>1. Written(x, t, one) /\ More(t)
    BY <1>4, <1>5, <1>6, <1>8, StoreView
  <2>2. Written(f, t, one)
    BY <1>4, <1>8, <2>1 DEF Written, SameView
  <2> HIDE DEF t
  <2>3. CASE ~Full(t, c)
    BY <1>8, <2>1, <2>2, <2>3, AbidesWrite
  <2>4. CASE Full(t, c) /\ FlushFails(t, j2)
    <3>1. f' = Sflush(t, j2) /\ call' = Did("lost")
      BY <1>8, <2>4
    <3> QED
      BY <1>1, <1>6, <2>1, <3>1, SflushMore, AbidesLost
  <2>5. CASE Full(t, c) /\ ~FlushFails(t, j2)
    <3>1. f' = Sflush(t, j2) /\ call' = DidBytes("write", one)
      BY <1>8, <2>5
    <3>2. SameView(t, f') /\ More(f')
      BY <1>1, <1>6, <2>1, <2>5, <3>1, SflushView
    <3>3. Written(f, f', one)
      BY <2>2, <3>2 DEF Written, SameView
    <3> QED
      BY <3>1, <3>2, <3>3, AbidesWrite
  <2> QED
    BY <2>3, <2>4, <2>5
<1> QED
  BY <1>2, <1>7, <1>8

\* putc.
LEMMA PutcView ==
    ASSUME VInv, NEW c \in Bytes, NEW j \in Nat, NEW j2 \in Nat, Room > 0,
           Putc(c, j, j2)
    PROVE  More(f') /\ LeftOK' /\ Abides
<1>1. LeftOK'
  BY DEF Putc, VInv, LeftOK
<1>2. CASE PutcFast(f, c)
  <2>1. f' = Store(f, << c >>) /\ call' = DidBytes("write", << c >>)
    BY <1>2 DEF Putc
  <2> QED
    BY <1>1, <1>2, <2>1, PutcFastView
<1>3. CASE ~PutcFast(f, c)
  BY <1>1, <1>3, PutcSlowView
<1> QED
  BY <1>2, <1>3

\* The start of fwrite.
LEMMA FwriteView ==
    ASSUME VInv, NEW b \in BoundedSeq(Bytes, Min({MaxCount, Room})) \ {<< >>}, Fwrite(b)
    PROVE  More(f') /\ LeftOK' /\ Abides
<1>1. /\ IInv /\ Good(f) /\ Flushable(f) /\ More(f) /\ f.fdpos \in Nat /\ f.p \in Nat
      /\ MaxLen \in Nat /\ Len(f.disk) \in Nat
  BY ViewContext, Sizes DEF Stream
<1>2. /\ Idle("out") /\ ~CantWrite(f) /\ f' = ReadyToWrite(f) /\ call' = call
      /\ busy' = [NoBusy EXCEPT !.op = "fwrite", !.bytes = b]
  BY DEF Fwrite
<1>3. f.rd => f.r = 0 /\ ~f.hasub
  BY <1>1, <1>2, Writable
<1>4. f.fdpos + (IF f.wr THEN f.p ELSE 0) <= MaxLen
  <2>1. f.fdpos <= MaxLen
    BY <1>1 DEF Good, FileOK
  <2>2. Fits(f, 0)
    BY ViewContext
  <2> QED
    BY <1>1, <2>1, <2>2 DEF Fits
<1>5. SameView(f, f') /\ More(f')
  BY <1>1, <1>2, <1>3, <1>4, ReadyView
<1>6. busy'.op = "fwrite"
  BY <1>2 DEF NoBusy
<1>7. LeftOK'
  BY <1>6 DEF LeftOK
<1> QED
  BY <1>2, <1>5, <1>7, AbidesSame

\* The bytes that a turn of fwrite takes.
LEMMA Portion ==
    ASSUME VInv, busy.op = "fwrite", NEW n \in Nat, n <= Len(busy.bytes)
    PROVE  SubSeq(busy.bytes, 1, n) \in Seq(Bytes) /\ Len(SubSeq(busy.bytes, 1, n)) = n
<1> DEFINE b == SubSeq(busy.bytes, 1, n)
<1>1. busy.bytes \in Seq(Bytes) /\ 1 \in Nat /\ 0 < 1
  BY DEF VInv, IInv, BusyOK
<1>2. b \in Seq(Bytes) /\ Len(b) = IF 1 <= n THEN n - 1 + 1 ELSE 0
  BY <1>1, Part, Zenon
<1> HIDE DEF b
<1>3. b \in Seq(Bytes) /\ Len(b) = n
  BY <1>2
<1> QED
  BY <1>3 DEF b

\* A turn of fwrite leaves no fread behind.
LEMMA TurnLeft ==
    ASSUME VInv, busy.op = "fwrite", NEW n \in Nat, n <= Len(busy.bytes), Wrote(n) \/ busy' = NoBusy
    PROVE  LeftOK'
<1>1. BusyOK /\ NoBusy.op = "none"
  BY DEF VInv, IInv, NoBusy
<1>2. busy' = NoBusy \/ busy'.op = "fwrite"
  BY <1>1, WroteFacts
<1> QED
  BY <1>1, <1>2 DEF LeftOK

\* fwrite past an empty buffer.
LEMMA WriteDirectView ==
    ASSUME VInv, busy.op = "fwrite", f.p = 0, NEW m \in Nat, m <= Len(busy.bytes), NEW j \in Nat,
           WriteDirect(m, j), dir' = dir
    PROVE  More(f') /\ LeftOK' /\ Abides
<1> DEFINE n == Min({j, m})
           b == SubSeq(busy.bytes, 1, n)
<1>1. /\ IInv /\ Flushable(f) /\ More(f) /\ f \in Stream /\ f.eof \in BOOLEAN
  BY ViewContext
<1>2. f.wr /\ f.made /\ Len(busy.bytes) \in Nat
  BY <1>1 DEF IInv, BusyOK
<1>3. n \in Nat /\ n <= Len(busy.bytes)
  <2>1. n = IF j <= m THEN j ELSE m
    BY MinMax
  <2> HIDE DEF n
  <2> QED
    BY <1>2, <2>1
<1>4. \/ f' = Swrite(f, b) /\ Wrote(n)
      \/ /\ f' = [f EXCEPT !.err = TRUE, !.soff = FALSE, !.offset = 0]
         /\ call' = Did("fail") /\ busy' = NoBusy
  BY DEF WriteDirect
<1>5. Good(f')
  BY <1>1, WriteDirectStep DEF IInv
<1>6. b \in Seq(Bytes)
  BY <1>3, Portion
<1> HIDE DEF n
<1>7. CASE f' = Swrite(f, b) /\ Wrote(n)
  <2>1. call' = DidBytes("write", b)
    BY <1>7 DEF Wrote
  <2> HIDE DEF b
  <2>2. Flushable(Swrite(f, b))
    BY <1>5, <1>7, GoodFlushable
  <2>3. Written(f, Swrite(f, b), b) /\ More(Swrite(f, b))
    BY <1>1, <1>2, <1>6, <2>2, SwriteView
  <2>4. Abides
    BY <1>7, <2>1, <2>3, AbidesWrite
  <2> QED
    BY <1>3, <1>7, <2>3, <2>4, TurnLeft
<1>8. CASE /\ f' = [f EXCEPT !.err = TRUE, !.soff = FALSE, !.offset = 0]
           /\ call' = Did("fail") /\ busy' = NoBusy
  <2>1. /\ SameMode(f, f') /\ SameUb(f, f') /\ f'.disk = f.disk /\ f'.fdpos = f.fdpos
        /\ f'.p = f.p /\ f'.r = f.r /\ f'.buf = f.buf /\ (f'.eof => f.eof)
    BY <1>1, <1>8 DEF Stream, SameMode, SameUb
  <2>2. SameView(f, f') /\ More(f')
    BY <1>1, <2>1, ViewKept
  <2>3. Abides
    BY <1>8, <2>2, AbidesSame
  <2> QED
    BY <1>3, <1>8, <2>2, <2>3, TurnLeft
<1> QED
  BY <1>4, <1>7, <1>8

\* fwrite into the buffer.
LEMMA WriteStoredView ==
    ASSUME VInv, busy.op = "fwrite", NEW n \in Nat, n <= Len(busy.bytes),
           f.p + n <= BufSize, NEW flush \in BOOLEAN, NEW j \in Nat, WriteBuffered(n, flush, j)
    PROVE  More(f') /\ LeftOK' /\ Abides
<1> DEFINE b == SubSeq(busy.bytes, 1, n)
           s == Store(f, b)
           len == Len(busy.bytes)
<1>1. /\ IInv /\ Flushable(f) /\ More(f) /\ f \in Stream
  BY ViewContext
<1>2. f.wr /\ f.made /\ len \in Nat /\ Fits(f, len)
  BY <1>1 DEF IInv, BusyOK
<1>3. b \in Seq(Bytes) /\ Len(b) = n
  BY Portion
<1>4. IF ~flush THEN f' = s /\ Wrote(n)
      ELSE /\ f' = Sflush(s, j)
           /\ IF FlushFails(s, j) THEN call' = Did("lost") /\ busy' = NoBusy ELSE Wrote(n)
  <2>1. ~(f.p + n > BufSize)
    BY ViewContext, Sizes
  <2> QED
    BY <2>1 DEF WriteBuffered
<1>5. Wrote(n) => call' = DidBytes("write", b)
  BY DEF Wrote
<1>6. Wrote(n) \/ busy' = NoBusy
  BY <1>4
<1>7. LeftOK'
  BY <1>6, TurnLeft
<1> HIDE DEF b
<1>8. Flushable(s) /\ Fits(s, len - n)
  BY <1>1, <1>2, <1>3, StoreFlushable
<1>9. Written(f, s, b) /\ More(s)
  BY <1>1, <1>2, <1>3, StoreView
<1> HIDE DEF s
<1>10. Fits(s, 0)
  <2>1. len - n \in Nat /\ s.fdpos \in Nat /\ s.p \in Nat /\ MaxLen \in Nat
    BY <1>2, <1>8, Sizes DEF Flushable, Stream
  <2> QED
    BY <1>8, <2>1 DEF Fits
<1>11. CASE ~flush
  <2>1. f' = s /\ call' = DidBytes("write", b)
    BY <1>4, <1>5, <1>11
  <2> QED
    BY <1>7, <1>9, <2>1, AbidesWrite
<1>12. CASE flush /\ FlushFails(s, j)
  <2>1. f' = Sflush(s, j) /\ call' = Did("lost")
    BY <1>4, <1>12
  <2> QED
    BY <1>7, <1>8, <1>9, <1>10, <2>1, SflushMore, AbidesLost
<1>13. CASE flush /\ ~FlushFails(s, j)
  <2>1. f' = Sflush(s, j) /\ call' = DidBytes("write", b)
    BY <1>4, <1>5, <1>13
  <2>2. SameView(s, f') /\ More(f')
    BY <1>8, <1>9, <1>10, <1>13, <2>1, SflushView
  <2>3. Written(f, f', b)
    BY <1>9, <2>2 DEF Written, SameView
  <2> QED
    BY <1>7, <2>1, <2>2, <2>3, AbidesWrite
<1> QED
  BY <1>11, <1>12, <1>13

\* fwrite into the buffer or beyond it.
LEMMA WriteBufferedView ==
    ASSUME VInv, busy.op = "fwrite", NEW n \in Nat, n <= Len(busy.bytes),
           NEW flush \in BOOLEAN, NEW j \in Nat, WriteBuffered(n, flush, j)
    PROVE  More(f') /\ LeftOK' /\ Abides
<1>0. More(f) /\ f.p \in Nat /\ BufSize \in Nat
  BY ViewContext, Sizes
<1>1. CASE f.p + n <= BufSize
  BY <1>1, WriteStoredView
<1>2. CASE ~(f.p + n <= BufSize)
  <2>1. f.p + n > BufSize
    BY <1>0, <1>2
  <2>2. /\ f' = f /\ call' = Did("overrun")
        /\ busy' = [NoBusy EXCEPT !.op = "overrun"]
    BY <1>2, <2>1 DEF WriteBuffered
  <2>3. busy'.op = "overrun"
    BY <2>2 DEF NoBusy
  <2>4. LeftOK'
    BY <2>3 DEF LeftOK
  <2> QED
    BY <1>0, <2>2, <2>4, AbidesLost
<1> QED
  BY <1>1, <1>2

\* A turn of fwrite.
LEMMA FwriteStepView ==
    ASSUME VInv, NEW j \in Nat, FwriteStep(j) PROVE More(f') /\ LeftOK' /\ Abides
<1> DEFINE len == Len(busy.bytes)
           n == LineLen(busy.bytes)
<1>1. /\ Good(f) /\ f.wr /\ f.made /\ f.p \in Nat /\ f.w \in Int /\ f.kind \in {"full", "line", "none"}
      /\ len \in Nat /\ busy.bytes \in Seq(Bytes) /\ busy.bytes # << >>
      /\ BufSize \in Nat /\ 0 < BufSize /\ busy.op = "fwrite" /\ dir' = dir
  <2>1. /\ IInv /\ Good(f) /\ f.p \in Nat /\ f \in Stream /\ BufSize \in Nat /\ 0 < BufSize
    BY ViewContext, Sizes
  <2>2. busy.op = "fwrite" /\ dir' = dir
    BY DEF FwriteStep
  <2>3. /\ f.wr /\ f.made /\ busy.bytes \in Seq(Bytes) /\ busy.bytes # << >> /\ len \in Nat
    BY <2>1, <2>2 DEF IInv, BusyOK
  <2>4. f.kind \in {"full", "line", "none"} /\ f.w \in Int
    BY <2>1 DEF Stream
  <2> QED
    BY <2>1, <2>2, <2>3, <2>4
<1>2. /\ f.p <= BufSize
      /\ f.kind = "full" => f.w = BufSize - f.p
      /\ f.kind = "line" => f.w <= 0 /\ f.w + f.p >= 0 /\ (f.p > 0 => f.w < 0)
      /\ f.kind = "none" => f.p = 0
  BY <1>1 DEF Good, WriteOK
<1>3. n \in Nat /\ 0 < n /\ n <= len
  BY <1>1, LineLenFacts
<1>4. CASE f.kind = "none"
  <2>1. WriteDirect(len, j)
    BY <1>4 DEF FwriteStep
  <2>2. len <= len /\ f.p = 0
    BY <1>1, <1>2, <1>4
  <2> QED
    BY <1>1, <2>1, <2>2, WriteDirectView
<1>5. CASE f.kind = "full"
  <2>0. f.w \in Nat /\ f.p + f.w <= BufSize
    BY <1>1, <1>2, <1>5
  <2>1. IF FillAndFlush(f.w, len) THEN WriteBuffered(f.w, TRUE, j)
        ELSE IF len >= BufSize THEN WriteDirect(BufSize * (len \div BufSize), j)
        ELSE WriteBuffered(len, FALSE, j)
    BY <1>5 DEF FwriteStep
  <2>2. CASE FillAndFlush(f.w, len)
    <3>1. f.w <= len
      BY <1>1, <2>2 DEF FillAndFlush
    <3> QED
      BY <1>1, <2>0, <2>1, <2>2, <3>1, WriteBufferedView
  <2>3. CASE ~FillAndFlush(f.w, len) /\ len >= BufSize
    <3> DEFINE m == BufSize * (len \div BufSize)
    <3>1. m \in Nat /\ m <= len
      BY <1>1, Whole
    <3>2. WriteDirect(m, j)
      BY <2>1, <2>3
    <3> HIDE DEF m
    <3>3. f.p = 0
      BY <1>1, <1>2, <1>5, <2>3 DEF FillAndFlush
    <3> QED
      BY <1>1, <3>1, <3>2, <3>3, WriteDirectView
  <2>4. CASE ~FillAndFlush(f.w, len) /\ ~(len >= BufSize)
    <3>1. len <= len
      BY <1>1
    <3>2. WriteBuffered(len, FALSE, j)
      BY <2>1, <2>4
    <3> QED
      BY <1>1, <3>1, <3>2, WriteBufferedView
  <2> QED
    BY <2>2, <2>3, <2>4
<1>6. CASE f.kind = "line"
  <2> DEFINE room == f.w + BufSize
             fl == busy.bytes[n] = NL
  <2>0. room \in Nat /\ room <= BufSize /\ (f.p > 0 => room < BufSize)
    BY <1>1, <1>2, <1>6
  <2>1. IF FillAndFlush(room, n) THEN WriteBuffered(room, TRUE, j)
        ELSE IF n >= BufSize THEN WriteDirect(BufSize, j)
        ELSE WriteBuffered(n, fl, j)
    BY <1>6 DEF FwriteStep
  <2> HIDE DEF n
  <2>2. CASE FillAndFlush(room, n)
    <3> HIDE DEF room
    <3>1. room <= len
      BY <1>1, <1>3, <2>0, <2>2 DEF FillAndFlush
    <3> QED
      BY <1>1, <2>0, <2>1, <2>2, <3>1, WriteBufferedView
  <2>3. CASE ~FillAndFlush(room, n) /\ n >= BufSize
    <3>1. BufSize <= len
      BY <1>1, <1>3, <2>3
    <3>2. f.p = 0
      BY <1>1, <1>2, <1>3, <1>6, <2>3 DEF FillAndFlush
    <3> QED
      BY <1>1, <2>1, <2>3, <3>1, <3>2, WriteDirectView
  <2>4. CASE ~FillAndFlush(room, n) /\ ~(n >= BufSize)
    <3>1. WriteBuffered(n, fl, j) /\ fl \in BOOLEAN
      BY <2>1, <2>4
    <3> HIDE DEF fl
    <3> QED
      BY <1>1, <1>3, <3>1, WriteBufferedView
  <2> QED
    BY <2>2, <2>3, <2>4
<1> QED
  BY <1>1, <1>4, <1>5, <1>6

\* Where fseeko starts from looks like f, unless bytes were lost.
LEMMA SeekBaseView ==
    ASSUME VInv, NEW whence \in {"set", "cur", "end"}, NEW j \in Takes, Good(SeekBase(whence, j))
    PROVE  LET b == SeekBase(whence, j)
               s == Made(b)
           IN  /\ More(b) /\ More(s)
               /\ ~FlushFails(f, j) => SameView(f, b) /\ SameView(f, s) /\ ~FlushFails(s, j)
<1> DEFINE a == Sflush(f, j)
           b == SeekBase(whence, j)
           s == Made(b)
<1>1. Good(f) /\ Flushable(f) /\ More(f) /\ Fits(f, 0) /\ f \in Stream /\ j \in Nat
  BY ViewContext
<1>2. /\ Good(a) /\ SameMode(f, a) /\ (f.wr => a.p = 0) /\ More(a)
      /\ (~FlushFails(f, j) => SameView(f, a))
  BY <1>1, SflushFacts, SflushMore, SflushView
<1> HIDE DEF a
<1>3. /\ More(b) /\ (~FlushFails(f, j) => SameView(f, b)) /\ SameMode(f, b)
      /\ b.p = f.p \/ (b.wr => b.p = 0)
  <2>1. CASE whence = "cur"
    <3> DEFINE c == KnowOffset(a)
    <3>1. b = c
      BY <2>1 DEF SeekBase, a
    <3>2. SameView(a, c) /\ More(c)
      BY <1>2, GoodFlushable, KnowOffsetView
    <3>3. SameMode(a, c) /\ SameCounters(a, c)
      BY <1>2, KnowOffsetFacts DEF Good
    <3> HIDE DEF c
    <3>4. SameMode(f, c) /\ (c.wr => c.p = 0)
      BY <1>2, <3>3 DEF SameMode, SameCounters
    <3> QED
      BY <1>2, <3>1, <3>2, <3>4 DEF SameView
  <2>2. CASE whence # "cur"
    <3>1. b = f
      BY <2>2 DEF SeekBase
    <3> QED
      BY <1>1, <3>1 DEF SameView, SameMode
  <2> QED
    BY <2>1, <2>2
<1> HIDE DEF b
<1>4. SameView(b, s) /\ More(s)
  BY <1>3, MadeView DEF b
<1>5. /\ s.wr = b.wr /\ s.p = IF b.made THEN b.p ELSE 0
  BY MadeFacts DEF b, Good
<1> HIDE DEF s
<1>6. ASSUME ~FlushFails(f, j) PROVE ~FlushFails(s, j)
  <2>1. Buffered(s) = 0 \/ Buffered(s) = Buffered(f)
    BY <1>3, <1>5 DEF Buffered, SameMode
  <2>2. ~(j < Buffered(f))
    BY <1>6 DEF FlushFails
  <2> QED
    BY <1>1, <2>1, <2>2 DEF FlushFails
<1>7. ~FlushFails(f, j) => SameView(f, s)
  BY <1>3, <1>4 DEF SameView
<1> QED
  BY <1>3, <1>4, <1>6, <1>7 DEF s, b

\* fseek.
LEMMA FseekView ==
    ASSUME VInv, NEW whence \in {"set", "cur", "end"}, NEW k \in Reads, NEW j \in Takes,
           NEW x \in Offsets(whence), Fseek(whence, x, k, j)
    PROVE  More(f') /\ LeftOK' /\ Abides
<1> DEFINE a == Sflush(f, j)
           b == SeekBase(whence, j)
           s == Made(b)
           n == SeekTarget(whence, x, j)
<1>1. /\ IInv /\ f \in Stream /\ j \in Nat /\ k \in Int /\ (k = -1 \/ k > 0)
  BY ViewContext
<1>2. LeftOK'
  BY DEF Fseek, VInv, LeftOK
<1>3. /\ n <= Len(a.disk)
      /\ \/ n < 0 /\ f' = b /\ call' = Did(IF FlushFails(f, j) THEN "lost" ELSE "fail")
         \/ /\ n >= 0 /\ CanOptimise(s) /\ f' = Optimised(KnowOffset(s), k, n)
            /\ call' = DidPos("seek", n)
         \/ /\ n >= 0 /\ ~CanOptimise(s)
            /\ f' = IF FlushFails(s, j) THEN Sflush(s, j) ELSE Dumb(s, j, n)
            /\ call' = IF FlushFails(f, j) THEN Did("lost") ELSE DidPos("seek", n)
  BY DEF Fseek, SeekBase, SeekTarget
<1>4. /\ Good(b) /\ SameMode(f, b) /\ Flushable(s) /\ Fits(s, 0) /\ (~s.wr => Good(s)) /\ s.made
      /\ s.wr = b.wr /\ n \in Int
      /\ Len(a.disk) \in Nat /\ Len(s.disk) \in Nat /\ Len(Sflush(s, j).disk) \in Nat
      /\ Len(a.disk) <= Len(Sflush(s, j).disk)
  BY <1>1, SeekFacts
<1>5. /\ More(b) /\ More(s)
      /\ ~FlushFails(f, j) => SameView(f, b) /\ SameView(f, s) /\ ~FlushFails(s, j)
  BY <1>4, SeekBaseView
<1> HIDE DEF a, b, s, n
<1>6. CASE n < 0 /\ f' = b /\ call' = Did(IF FlushFails(f, j) THEN "lost" ELSE "fail")
  <2>1. CASE FlushFails(f, j)
    BY <1>2, <1>5, <1>6, <2>1, AbidesLost
  <2>2. CASE ~FlushFails(f, j)
    BY <1>2, <1>5, <1>6, <2>2, AbidesSame
  <2> QED
    BY <2>1, <2>2
<1>7. CASE /\ n >= 0 /\ CanOptimise(s) /\ f' = Optimised(KnowOffset(s), k, n)
           /\ call' = DidPos("seek", n)
  <2> DEFINE c == KnowOffset(s)
  <2>1. Good(s) /\ ~s.wr /\ ~s.rw /\ s.kind # "none"
    BY <1>4, <1>7 DEF CanOptimise
  <2>2. /\ c \in Stream /\ FileOK(c) /\ c.disk = s.disk /\ SameMode(s, c) /\ SameUb(s, c)
        /\ SameCounters(s, c) /\ c.eof = s.eof /\ c.offset = s.fdpos /\ c.fdpos = s.fdpos
    BY <2>1, KnowOffsetFacts DEF Good
  <2>3. SameView(s, c) /\ More(c)
    BY <1>4, <1>5, KnowOffsetView
  <2>4. f' = Optimised(c, k, n)
    BY <1>7
  <2> HIDE DEF c
  <2>5. Good(c) /\ CanOptimise(c) /\ c.made
    BY <1>4, <1>7, <2>1, <2>2, GoodKept, GoodFlushable DEF CanOptimise, SameMode
  <2>6. n \in Nat /\ n <= Len(c.disk)
    <3>1. Sflush(s, j) = s
      BY <2>1 DEF Sflush
    <3> QED
      BY <1>3, <1>4, <1>7, <2>2, <3>1
  <2>7. c.offset = c.fdpos
    BY <2>2
  <2>8. Sought(c, f', n) /\ More(f')
    BY <1>1, <2>3, <2>4, <2>5, <2>6, <2>7, OptimisedView
  <2>9. ~FlushFails(f, j)
    <3>1. ~f.wr
      BY <1>4, <2>1 DEF SameMode
    <3> QED
      BY <1>1, <3>1 DEF FlushFails, Buffered
  <2>10. Sought(f, f', n)
    BY <1>5, <2>3, <2>8, <2>9 DEF Sought, SameView
  <2> QED
    BY <1>2, <1>7, <2>8, <2>10, AbidesSeek
<1>8. CASE /\ n >= 0 /\ ~CanOptimise(s)
           /\ f' = IF FlushFails(s, j) THEN Sflush(s, j) ELSE Dumb(s, j, n)
           /\ call' = IF FlushFails(f, j) THEN Did("lost") ELSE DidPos("seek", n)
  <2>1. CASE FlushFails(s, j)
    <3>1. f' = Sflush(s, j) /\ call' = Did("lost")
      BY <1>5, <1>8, <2>1
    <3> QED
      BY <1>1, <1>2, <1>4, <1>5, <3>1, SflushMore, AbidesLost
  <2>2. CASE ~FlushFails(s, j)
    <3>1. n \in Nat /\ n <= Len(Sflush(s, j).disk)
      BY <1>3, <1>4, <1>8
    <3>2. f' = Dumb(s, j, n)
      BY <1>8, <2>2
    <3>3. Sought(s, f', n) /\ More(f')
      BY <1>1, <1>4, <2>2, <3>1, <3>2, DumbView
    <3>4. CASE FlushFails(f, j)
      BY <1>2, <1>8, <3>3, <3>4, AbidesLost
    <3>5. CASE ~FlushFails(f, j)
      <4>1. Sought(f, f', n) /\ call' = DidPos("seek", n)
        BY <1>5, <1>8, <3>3, <3>5 DEF Sought, SameView
      <4> QED
        BY <1>2, <3>3, <4>1, AbidesSeek
    <3> QED
      BY <3>4, <3>5
  <2> QED
    BY <2>1, <2>2
<1> QED
  BY <1>3, <1>6, <1>7, <1>8

\* __srefill of an unbuffered stream, into the caller's memory.
LEMMA SrefillDirect ==
    ASSUME NEW s, Good(s), More(s), Fits(s, 0), s.kind = "none",
           NEW k \in Int, k = -1 \/ k > 0, NEW j \in Nat, NEW n \in Nat, n > 0
    PROVE  LET t == Srefill(s, k, j, n) IN
           /\ t.disk = s.disk /\ t.r \in Nat
           /\ t.eof => t.rd /\ t.fdpos = Len(t.disk)
           /\ Clean(s) => /\ t.fdpos = s.fdpos + t.r /\ t.fdpos <= Len(s.disk)
                          /\ t.eof /\ t.r = 0 => s.fdpos = Len(s.disk)
<1> DEFINE t == Srefill(s, k, j, n)
           x == [s EXCEPT !.r = 0]
<1>1. /\ s \in Stream /\ s.disk \in Seq(Bytes) /\ s.fdpos \in Nat /\ s.eof \in BOOLEAN
      /\ s.rd \in BOOLEAN /\ s.rw \in BOOLEAN /\ s.wr \in BOOLEAN /\ s.made \in BOOLEAN
      /\ s.hasub \in BOOLEAN /\ s.ur \in Nat /\ s.up \in Nat /\ s.r \in Nat
      /\ Len(s.disk) \in Nat /\ s.fdpos <= Len(s.disk) /\ s.fdpos + 0 = s.fdpos
  BY DEF Good, Stream, FileOK
<1>2. /\ x \in Stream /\ SameFile(s, x) /\ SameMode(s, x) /\ SameUb(s, x) /\ x.eof = s.eof /\ x.r = 0
      /\ x.p = s.p /\ x.w = s.w /\ x.lbfsize = s.lbfsize
  BY <1>1 DEF Stream, SameFile, SameMode, SameUb
<1>3. s.eof => s.rd /\ s.fdpos = Len(s.disk)
  BY DEF More, EndOK
<1> HIDE DEF x
\* A fill of a stream on the same place.
<1>4. ASSUME NEW z \in Stream, FileOK(z), z.disk = s.disk, z.fdpos = s.fdpos, ~z.eof, z.rd,
             t = Fill(z, k, n)
      PROVE  /\ t.disk = s.disk /\ t.r \in Nat
             /\ t.eof => t.rd /\ t.fdpos = Len(t.disk)
             /\ t.fdpos = s.fdpos + t.r /\ t.fdpos <= Len(s.disk)
             /\ t.eof /\ t.r = 0 => s.fdpos = Len(s.disk)
  <2>0. k >= -1
    OBVIOUS
  <2>1. t.disk = z.disk /\ SameMode(z, t)
    <3>1. Fill(z, k, n).disk = z.disk /\ SameMode(z, Fill(z, k, n))
      BY <1>4, <2>0, FillFacts
    <3> QED
      BY <1>4, <3>1
  <2>2. /\ t.r \in Nat /\ t.fdpos = z.fdpos + t.r /\ t.fdpos <= Len(z.disk)
        /\ t.eof => z.eof \/ (t.r = 0 /\ z.fdpos = Len(z.disk))
    BY <1>4, FillGives
  <2> HIDE DEF t
  <2> QED
    BY <1>1, <1>4, <2>1, <2>2 DEF SameMode
<1>5. CASE s.eof
  <2>1. t = x
    BY <1>2, <1>5 DEF Srefill, x
  <2> HIDE DEF t
  <2> QED
    BY <1>1, <1>2, <1>3, <1>5, <2>1 DEF SameFile, SameMode, t
<1>6. CASE ~s.eof /\ ~s.rd /\ ~s.rw
  <2>1. t = [x EXCEPT !.err = TRUE]
    BY <1>1, <1>2, <1>6 DEF Srefill, SameMode, x
  <2>2. t.disk = x.disk /\ t.fdpos = x.fdpos /\ t.r = x.r /\ t.eof = x.eof
    BY <1>2, <2>1 DEF Stream
  <2> HIDE DEF t
  <2> QED
    BY <1>1, <1>2, <1>6, <2>2 DEF SameFile, t
<1>7. CASE ~s.eof /\ ~s.rd /\ s.rw
  <2> DEFINE y == StartReading(s, j)
             z == Made(y)
  <2>1. s.r = 0 /\ s.p = 0
    BY <1>1, <1>7 DEF Good, ReadOK, WriteOK
  <2>2. x = s
    BY <1>1, <2>1 DEF x, Stream
  <2>3. ~FlushFails(s, j)
    BY <2>1 DEF FlushFails, Buffered
  <2>4. t = Fill(z, k, n)
    BY <1>7, <2>2, <2>3 DEF Srefill, x
  <2>5. Good(y) /\ y.rd
    BY <1>7, StartReadingFacts
  <2>6. ~y.eof
    BY <1>7, <2>3, StartReadingView
  <2>7. y.disk = s.disk /\ y.fdpos = s.fdpos
    <3>1. SameFile(s, Sflush(s, j)) /\ Sflush(s, j) \in Stream
      BY <2>1, GoodFlushable, SflushFacts DEF Good
    <3>2. y.disk = Sflush(s, j).disk /\ y.fdpos = Sflush(s, j).fdpos
      BY <3>1 DEF StartReading, Stream
    <3> QED
      BY <3>1, <3>2 DEF SameFile
  <2> HIDE DEF y
  <2>8. Good(z)
    BY <2>5, MadeGood DEF Good, ModeOK
  <2>9. z.rd /\ ~z.eof /\ z.disk = s.disk /\ z.fdpos = s.fdpos
    BY <2>5, <2>6, <2>7, MadeFacts DEF Good, SameFile
  <2> HIDE DEF z
  <2> QED
    BY <1>4, <2>4, <2>8, <2>9 DEF Good
<1>8. CASE ~s.eof /\ s.rd /\ s.hasub /\ s.ur > 0
  <2>1. t = [FreeUb(x) EXCEPT !.r = x.ur, !.p = x.up]
    BY <1>1, <1>2, <1>8 DEF Srefill, SameMode, SameUb, x
  <2>2. /\ FreeUb(x) \in Stream /\ FreeUb(x).eof = x.eof /\ SameFile(x, FreeUb(x))
    BY <1>2, FreeUbFacts
  <2>3. t.disk = x.disk /\ t.eof = x.eof /\ t.r = x.ur
    BY <2>1, <2>2 DEF Stream, SameFile
  <2> HIDE DEF t
  <2>4. ~Clean(s)
    BY <1>8 DEF Clean
  <2> QED
    BY <1>1, <1>2, <1>8, <2>3, <2>4 DEF SameFile, SameUb, t
<1>9. CASE ~s.eof /\ s.rd /\ ~(s.hasub /\ s.ur > 0)
  <2> DEFINE y == FreeUb(x)
             z == Made(y)
  <2>1. t = Fill(z, k, n)
    BY <1>1, <1>2, <1>9 DEF Srefill, SameMode, SameUb, x
  <2>2. y \in Stream /\ y.eof = x.eof /\ SameFile(x, y) /\ SameMode(x, y)
    BY <1>2, FreeUbFacts
  <2> HIDE DEF y
  <2>3. /\ z \in Stream /\ SameFile(y, z) /\ z.eof = y.eof /\ z.rd = y.rd
    BY <2>2, MadeFacts
  <2> HIDE DEF z
  <2>4. SameFile(s, z) /\ z.rd /\ ~z.eof
    BY <1>2, <1>9, <2>2, <2>3 DEF SameFile, SameMode
  <2>5. FileOK(z)
    BY <2>4 DEF Good, FileOK, SameFile
  <2> QED
    BY <1>4, <2>1, <2>3, <2>4, <2>5 DEF SameFile
<1> QED
  BY <1>1, <1>5, <1>6, <1>7, <1>8, <1>9

\* A turn of fread on an unbuffered stream.
LEMMA FreadDirectView ==
    ASSUME VInv, NEW k \in Reads, NEW j \in Takes, FreadDirect(k, j)
    PROVE  More(f') /\ LeftOK' /\ Abides
<1> DEFINE s == Srefill(f, k, j, busy.left)
           t == Emptied(s, f.buf)
           b == SubSeq(f.disk, s.fdpos - s.r + 1, s.fdpos)
<1>1. /\ IInv /\ Good(f) /\ Flushable(f) /\ More(f) /\ Fits(f, 0) /\ f \in Stream /\ j \in Nat
      /\ k \in Int /\ (k = -1 \/ k > 0) /\ k >= -1 /\ f.buf \in [1..BufSize -> Bytes]
      /\ f.r \in Nat /\ f.p \in Nat /\ f.rd \in BOOLEAN /\ f.hasub \in BOOLEAN
      /\ f.disk \in Seq(Bytes) /\ f.fdpos \in Nat /\ Len(f.disk) \in Nat
  BY ViewContext DEF Stream
<1>2. /\ busy.op = "direct" /\ busy.left \in Nat /\ busy.left > 0 /\ NoBusy.op = "none"
      /\ f.kind = "none" /\ f.made
      /\ busy \in [op : Ops, left : Nat, bytes : Seq(Bytes)]
  BY DEF FreadDirect, VInv, LeftOK, IInv, BusyOK, NoBusy
<1>3. /\ f' = t
      /\ \/ /\ s.r > 0
            /\ call' = DidBytes("read", IF f.hasub /\ f.ur > 0 THEN << >> ELSE b)
            /\ busy' = IF s.r >= busy.left THEN NoBusy ELSE [busy EXCEPT !.left = @ - s.r]
         \/ /\ s.r = 0
            /\ call' = Did(IF ~f.rd /\ FlushFails(f, j) THEN "lost"
                           ELSE IF s.eof THEN "eof" ELSE "fail")
            /\ busy' = NoBusy
  BY DEF FreadDirect, Emptied
<1>4. Refilled(f, s, busy.left)
  BY <1>1, <1>2, SrefillFacts
<1>5. /\ s.disk = f.disk /\ s.r \in Nat
      /\ s.eof => s.rd /\ s.fdpos = Len(s.disk)
      /\ Clean(f) => /\ s.fdpos = f.fdpos + s.r /\ s.fdpos <= Len(f.disk)
                     /\ s.eof /\ s.r = 0 => f.fdpos = Len(f.disk)
  BY <1>1, <1>2, SrefillDirect
<1> HIDE DEF s
<1>6. Good(t) /\ t.r = 0 /\ ~t.hasub /\ t.made
  BY <1>1, <1>2, <1>4, EmptiedGood
<1>7. /\ t.disk = s.disk /\ t.fdpos = s.fdpos /\ t.p = 0 /\ t.eof = s.eof /\ t.rd = s.rd
      /\ t.kind = "none" /\ s.fdpos \in Nat
  BY <1>2, <1>4 DEF Refilled, Emptied, Stream
<1> HIDE DEF t
<1>8. More(f')
  <2>1. More(t)
    BY <1>5, <1>6, <1>7 DEF More, EndOK, ReadAhead, MadeOK
  <2> QED
    BY <1>3, <2>1
<1>9. LeftOK'
  <2>1. CASE busy' = NoBusy
    BY <1>2, <2>1 DEF LeftOK
  <2>2. CASE ~(s.r >= busy.left) /\ busy' = [busy EXCEPT !.left = @ - s.r]
    <3>1. busy'.left = busy.left - s.r
      BY <1>2, <2>2
    <3>2. busy.left - s.r > 0
      BY <1>2, <1>5, <2>2
    <3> QED
      BY <3>1, <3>2 DEF LeftOK
  <2> QED
    BY <1>3, <2>1, <2>2
<1>10. CASE f.r > 0 \/ f.hasub
  BY <1>2, <1>8, <1>9, <1>10 DEF Abides, FreadDropsPushback
<1>11. CASE ~(f.r > 0 \/ f.hasub)
  <2>1. Clean(f) /\ Clean(t)
    <3>1. f.r = 0 /\ ~f.hasub
      BY <1>1, <1>11
    <3>2. ~f.rd => f.p = 0
      BY <1>1, <1>2 DEF Good, WriteOK
    <3> QED
      BY <1>6, <1>7, <3>1, <3>2 DEF Clean
  <2>2. DataOf(f) = f.disk /\ TellOf(f) = f.fdpos /\ InputOf(f) = From(f.disk, f.fdpos)
    BY <1>1, <2>1, CleanView
  <2>3. DataOf(t) = t.disk /\ TellOf(t) = t.fdpos /\ InputOf(t) = From(t.disk, t.fdpos)
    BY <1>6, <2>1, CleanView, GoodFlushable
  <2>4. CASE s.r > 0
    <3>1. call' = DidBytes("read", b)
      BY <1>3, <1>5, <1>11, <2>4
    <3>2. s.fdpos - s.r + 1 = f.fdpos + 1 /\ s.fdpos = f.fdpos + s.r /\ f.fdpos <= s.fdpos
      BY <1>1, <1>5, <1>7, <2>1
    <3>3. b = SubSeq(f.disk, f.fdpos + 1, f.fdpos + s.r) /\ b = SubSeq(f.disk, f.fdpos + 1, s.fdpos)
      BY <3>2
    <3>4. Len(b) = s.r
      <4>1. Len(SubSeq(f.disk, f.fdpos + 1, f.fdpos + s.r)) = s.r
        <5>1. f.fdpos + s.r <= Len(f.disk)
          BY <1>5, <2>1, <3>2
        <5> QED
          BY <1>1, <1>5, <5>1, Piece, Zenon
      <4> QED
        BY <3>3, <4>1
    <3>5. b \o From(f.disk, s.fdpos) = From(f.disk, f.fdpos)
      <4>1. SubSeq(f.disk, f.fdpos + 1, s.fdpos) \o From(f.disk, s.fdpos) = From(f.disk, f.fdpos)
        BY <1>1, <1>5, <1>7, <2>1, <3>2, Adjacent, Zenon
      <4> QED
        BY <3>3, <4>1
    <3> HIDE DEF b
    <3>6. /\ InputOf(f) = b \o InputOf(f') /\ TellOf(f') = TellOf(f) + Len(b)
          /\ DataOf(f') = DataOf(f) /\ Len(b) > 0
      BY <1>3, <1>5, <1>7, <2>2, <2>3, <2>4, <3>2, <3>4, <3>5
    <3> QED
      BY <1>8, <1>9, <3>1, <3>6, AbidesRead
  <2>5. CASE ~(s.r > 0)
    <3>1. s.r = 0
      BY <1>5, <2>5
    <3>2. s.fdpos = f.fdpos
      BY <1>1, <1>5, <2>1, <3>1
    <3>3. SameView(f, f')
      BY <1>3, <1>5, <1>7, <2>2, <2>3, <3>2 DEF SameView
    <3>4. call' = Did(IF ~f.rd /\ FlushFails(f, j) THEN "lost" ELSE IF s.eof THEN "eof" ELSE "fail")
      BY <1>3, <2>5
    <3>5. CASE ~f.rd /\ FlushFails(f, j)
      BY <1>8, <1>9, <3>4, <3>5, AbidesLost
    <3>6. CASE ~(~f.rd /\ FlushFails(f, j)) /\ s.eof
      <4>1. f.fdpos >= Len(f.disk)
        BY <1>1, <1>5, <2>1, <3>1, <3>6
      <4>2. From(f.disk, f.fdpos) = << >>
        BY <1>1, <4>1, FromFacts, Zenon
      <4> QED
        BY <1>8, <1>9, <2>2, <3>3, <3>4, <3>6, <4>2, AbidesSame
    <3>7. CASE ~(~f.rd /\ FlushFails(f, j)) /\ ~s.eof
      BY <1>8, <1>9, <3>3, <3>4, <3>7, AbidesSame
    <3> QED
      BY <3>5, <3>6, <3>7
  <2> QED
    BY <2>4, <2>5
<1> QED
  BY <1>10, <1>11

\* An opened stream has nothing in its buffers.
LEMMA InitView == Init => VInv
<1> SUFFICES ASSUME Init PROVE VInv
  OBVIOUS
<1>1. IInv
  BY InitInv
<1>2. PICK d \in Files, mode \in {"r", "w", "r+"}, kind \in {"full", "line", "none"},
           set \in BOOLEAN : f = Opened(d, mode, kind, set)
  BY DEF Init
<1>3. f.p = 0 /\ f.r = 0 /\ ~f.hasub /\ ~f.eof /\ f.fdpos = 0
  BY <1>2 DEF Opened
<1>4. BufCount(f) = 0
  BY <1>3 DEF BufCount
<1>5. 0 <= 0 /\ 1..0 = {}
  OBVIOUS
<1>6. More(f)
  BY <1>3, <1>4, <1>5 DEF More, EndOK, ReadAhead, MadeOK
<1>7. busy.op = "none"
  BY DEF Init, NoBusy
<1> QED
  BY <1>1, <1>6, <1>7 DEF VInv, LeftOK

\* Every step keeps the invariant and does what ByteStream allows.
LEMMA StepView == VInv /\ [Next]_vars => VInv' /\ Abides
<1> SUFFICES ASSUME VInv, [Next]_vars PROVE VInv' /\ Abides
  OBVIOUS
<1>1. IInv'
  BY InvStep DEF VInv
<1> SUFFICES More(f') /\ LeftOK' /\ Abides
  BY <1>1 DEF VInv
<1>2. CASE \E k \in ReadsIf(f.r = 0), j \in Takes : Getc(k, j) \/ FreadStep(k, j)
  <2>1. PICK k \in ReadsIf(f.r = 0), j \in Takes : Getc(k, j) \/ FreadStep(k, j)
    BY <1>2
  <2>2. k \in Reads
    BY ChoiceOK DEF VInv
  <2> QED
    BY <2>1, <2>2, GetcView, FreadStepView
<1>3. CASE \E k \in Reads, j \in Takes : FreadDirect(k, j)
  BY <1>3, FreadDirectView
<1>4. CASE \E c \in Bytes, j \in Takes : Ungetc(c, j)
  BY <1>4, UngetcView
<1>5. CASE \E c \in Bytes, j \in TakesIf(f.p >= Size(f)), j2 \in 0..(f.p + 1) :
              Room > 0 /\ Putc(c, j, j2)
  <2>1. PICK c \in Bytes, j \in TakesIf(f.p >= Size(f)), j2 \in 0..(f.p + 1) :
                Room > 0 /\ Putc(c, j, j2)
    BY <1>5
  <2>2. j \in Nat /\ j2 \in Nat
    BY ChoiceOK DEF VInv
  <2> QED
    BY <2>1, <2>2, PutcView
<1>6. CASE \/ \E n \in 1..MaxCount : Fread(n)
           \/ \E c \in Bytes : PutcFails(c)
           \/ UngetcFails \/ FwriteFails \/ Clearerr \/ Overrun
  BY <1>6, SmallViews
<1>7. CASE \E b \in BoundedSeq(Bytes, Min({MaxCount, Room})) \ {<< >>} : Fwrite(b)
  BY <1>7, FwriteView
<1>8. CASE \/ \E j \in Takes, all \in BOOLEAN : Fflush(all, j)
           \/ \E j \in Takes : Ftell(j)
  BY <1>8, FflushView, FtellView
<1>9. CASE \E j \in 0..Max({BufSize, MaxCount}) : FwriteStep(j)
  <2>1. PICK j \in 0..Max({BufSize, MaxCount}) : FwriteStep(j)
    BY <1>9
  <2>2. Max({BufSize, MaxCount}) = IF BufSize <= MaxCount THEN MaxCount ELSE BufSize
    <3>1. BufSize \in Int /\ MaxCount \in Int
      BY Sizes
    <3> QED
      BY <3>1, MinMax
  <2>3. j \in Nat
    BY <2>2, Sizes
  <2> QED
    BY <2>1, <2>3, FwriteStepView
<1>10. CASE \E whence \in {"set", "cur", "end"}, k \in ReadsIf(CanOptimise(f)), j \in Takes :
               \E x \in Offsets(whence) : Fseek(whence, x, k, j)
  <2>1. PICK whence \in {"set", "cur", "end"}, k \in ReadsIf(CanOptimise(f)), j \in Takes :
                \E x \in Offsets(whence) : Fseek(whence, x, k, j)
    BY <1>10
  <2>2. k \in Reads
    BY ChoiceOK DEF VInv
  <2> QED
    BY <2>1, <2>2, FseekView
<1>11. CASE UNCHANGED vars
  <2>1. f' = f /\ call' = call /\ busy' = busy
    BY <1>11 DEF vars
  <2>2. SameView(f, f') /\ More(f') /\ LeftOK'
    BY <2>1 DEF SameView, VInv, LeftOK
  <2> QED
    BY <2>1, <2>2, AbidesSame
<1> QED
  BY <1>2, <1>3, <1>4, <1>5, <1>6, <1>7, <1>8, <1>9, <1>10, <1>11 DEF Next

\* A stdio stream implements ByteStream: through any sequence of calls, short
\* reads and writes and read errors, for buffers of any size and of any kind that
\* fopen, setvbuf or STDBUF choose, what the program reads, writes and is told of
\* its position are those of a plain file of bytes, whichever of the paths of
\* __srefill, ungetc, __sfvwrite and fseeko are taken.  Excepted are the calls
\* that lose buffered bytes in a write error, an fread of an unbuffered stream
\* with bytes pushed back, and an fwrite that overruns the buffer of a misfit
\* stream.
THEOREM StreamIsFile == Spec => BehavesAsFile
<1> DEFINE Step == [call'.op \in {"lost", "overrun"} \/ FreadDropsPushback \/ BS!Next]_
                       << Data, Tell, Input, call >>
<1>1. Abides => Step
  BY DEF Abides
<1>2. VInv /\ [Next]_vars => VInv' /\ Step
  BY <1>1, StepView
<1>3. Init => VInv
  BY InitView
<1> HIDE DEF Step
<1> QED
  BY <1>2, <1>3, PTL DEF Spec, BehavesAsFile, Step
==============================================================================
