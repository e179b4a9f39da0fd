-------------------------------- MODULE Stdio --------------------------------
(***************************************************************************)
(* A stdio stream on a regular file (libc/stdio): the buffer that is used  *)
(* for reading or for writing, the counters that let getc and putc work    *)
(* without a call, the ungetc buffer, and the cached file offset.          *)
(*                                                                         *)
(* A call on the stream holds its lock, so calls are atomic; fread and     *)
(* fwrite are one step per turn of their loops.  fflush(NULL) and the      *)
(* lflush of another stream's refill take no stream's lock (fwalk.c:61):   *)
(* they may come between two turns.  That they come inside a turn is a     *)
(* data race and is left out.  The descriptor is the external part: read   *)
(* and write may transfer less than asked for, or fail.  The program keeps *)
(* to the C rule that reading and writing on one stream have a seek or a   *)
(* flush between them.                                                     *)
(***************************************************************************)
EXTENDS Integers, Sequences, SequencesExt, FiniteSetsExt

CONSTANTS Bytes, NL,      \* bytes, the newline among them
          BufSize,        \* the size of a buffer: STDBUF's, setvbuf's or st_blksize
          BlkSize,        \* st_blksize
          UbufSize,       \* sizeof(_ubuf)
          BigUb,          \* BUFSIZ: the size of the first larger ungetc buffer
          Files,          \* bound: what the file holds at first
          MaxLen,         \* bound: length of the file
          MaxPush,        \* bound: bytes in the ungetc buffer
          MaxCount        \* bound: bytes of one fread or fwrite

ASSUME StdioAssumption ==
    /\ NL \in Bytes /\ {MaxLen, MaxPush, MaxCount} \subseteq Nat
    /\ Files \subseteq BoundedSeq(Bytes, MaxLen)
    /\ {BufSize, BlkSize, UbufSize, BigUb} \subseteq Nat \ {0} /\ UbufSize < BigUb

VARIABLES f,      \* the FILE, and the file and offset behind its descriptor
          call,   \* the last call and its result; "lost": buffered bytes were lost
          busy,   \* the fread or fwrite going on and what it has left
          dir     \* whether the program may read, write or do both next

vars == << f, call, busy, dir >>

NoBusy == [op |-> "none", left |-> 0, bytes |-> << >>]
Did(op) == [op |-> op, bytes |-> << >>, pos |-> 0]
DidBytes(op, b) == [op |-> op, bytes |-> b, pos |-> 0]
DidPos(op, n) == [op |-> op, bytes |-> << >>, pos |-> n]

Size(s) == IF s.kind = "none" THEN 1 ELSE BufSize

\* fopen and, if set, setvbuf: kind is the buffering setvbuf asked for or, if
\* there is no buffer yet, what __smakebuf will choose (STDBUF; unbuffered if
\* malloc fails), with no effect before the buffer is made.  rd, wr, rw, eof, err
\* and npt are __SRD, __SWR, __SRW, __SEOF, __SERR and __SNPT; made is
\* _bf._base != NULL; p, up are offsets from _bf._base; soff is __SOFF; hasub is
\* HASUB, ub the bytes of the ungetc buffer not yet read.
Opened(d, mode, kind, set) ==
    [disk |-> IF mode = "w" THEN << >> ELSE d, fdpos |-> 0,
     kind |-> kind, rd |-> mode = "r", wr |-> mode = "w", rw |-> mode = "r+",
     eof |-> FALSE, err |-> FALSE, made |-> set,
     npt |-> set /\ BufSize # BlkSize,
     buf |-> [i \in 1..BufSize |-> NL], p |-> 0, r |-> 0,
     w |-> IF set /\ kind = "full" /\ mode = "w" THEN BufSize ELSE 0,
     lbfsize |-> IF set /\ kind = "line" /\ mode = "w" THEN -BufSize ELSE 0,
     hasub |-> FALSE, ub |-> << >>, ubsize |-> 0, up |-> 0, ur |-> 0,
     soff |-> FALSE, offset |-> 0]

Init ==
    /\ \E d \in Files, mode \in {"r", "w", "r+"},
          kind \in {"full", "line", "none"}, set \in BOOLEAN : f = Opened(d, mode, kind, set)
    /\ call = Did("open") /\ busy = NoBusy /\ dir = "any"

-----------------------------------------------------------------------------
(* The descriptor: __sread, __swrite, __sseek *)

Overwrite(d, n, b) == SubSeq(d, 1, n) \o b \o SubSeq(d, n + Len(b) + 1, Len(d))

\* A cached offset survives a write.
SwriteKeeps(s, b) ==
    [s EXCEPT !.disk = Overwrite(@, s.fdpos, b), !.fdpos = @ + Len(b)]

\* _offset is not read while __SOFF is clear, and kept at 0 then.
Swrite(s, b) ==
    [s EXCEPT !.disk = Overwrite(@, s.fdpos, b), !.fdpos = @ + Len(b),
              !.soff = FALSE, !.offset = 0]

Sseek(s, n) == [s EXCEPT !.fdpos = n, !.soff = TRUE, !.offset = n]

\* The offset as ftello and fseeko find it.
KnowOffset(s) == IF s.soff THEN s ELSE Sseek(s, s.fdpos)

\* A read of up to k bytes, at most n, into the buffer; k = -1: it fails.
ReadCount(s, k, n) ==
    IF k = -1 THEN -1 ELSE Min({k, n, Max({0, Len(s.disk) - s.fdpos})})

Sread(s, k) ==
    IF k = -1 THEN [s EXCEPT !.soff = FALSE, !.offset = 0]
    ELSE [s EXCEPT !.buf = [i \in DOMAIN @ |-> IF i <= k THEN s.disk[s.fdpos + i] ELSE @[i]],
                   !.fdpos = @ + k, !.offset = IF s.soff THEN @ + k ELSE 0]

-----------------------------------------------------------------------------
(* Buffers *)

\* __smakebuf, with __senvbuf.  It sets no counter: __swsetup does that for a
\* buffer it makes, fseeko does not.
Made(s) == IF s.made THEN s ELSE [s EXCEPT !.made = TRUE, !.p = 0]

\* FREEUB
FreeUb(s) == [s EXCEPT !.hasub = FALSE, !.ub = << >>, !.ubsize = 0, !.up = 0, !.ur = 0]

Buffered(s) == IF s.wr /\ s.made THEN s.p ELSE 0

\* __sflush when the descriptor takes j bytes: it fails if there are more.
FlushFails(s, j) == j < Buffered(s)

Sflush(s, j) ==
    LET n == Min({j, Buffered(s)}) IN
    IF ~s.wr \/ ~s.made THEN s
    ELSE [(IF s.p > 0 THEN Swrite(s, SubSeq(s.buf, 1, n)) ELSE s)
             EXCEPT !.p = 0, !.w = IF s.kind = "full" THEN BufSize ELSE 0,
                    !.err = @ \/ FlushFails(s, j)]

\* _w is left as it was when the stream is switched to reading.
StartReadingKeepsW(s, j) == [Sflush(s, j) EXCEPT !.wr = FALSE, !.rd = TRUE, !.lbfsize = 0]

\* The switch to reading in __srefill and ungetc.
StartReading(s, j) ==
    [Sflush(s, j) EXCEPT !.wr = FALSE, !.rd = TRUE,
                         !.w = IF s.wr THEN 0 ELSE @, !.lbfsize = IF s.wr THEN 0 ELSE @]

Fill(s, k, n) ==
    LET c == ReadCount(s, k, n) IN
    [Sread([s EXCEPT !.p = 0], c)
        EXCEPT !.r = Max({c, 0}), !.eof = @ \/ c = 0, !.err = @ \/ c = -1]

\* __srefill with a buffer of n bytes; it succeeds if it leaves r > 0.
Srefill(s0, k, j, n) ==
    LET s == [s0 EXCEPT !.r = 0] IN
    CASE s.eof -> s
      [] ~s.eof /\ ~s.rd /\ ~s.rw -> [s EXCEPT !.err = TRUE]
      [] ~s.eof /\ ~s.rd /\ s.rw ->
            IF FlushFails(s, j) THEN Sflush(s, j) ELSE Fill(Made(StartReading(s, j)), k, n)
      [] ~s.eof /\ s.rd ->
            IF s.hasub /\ s.ur > 0 THEN [FreeUb(s) EXCEPT !.r = s.ur, !.p = s.up]
            ELSE Fill(Made(FreeUb(s)), k, n)

\* The next n <= r bytes, and the stream after they are taken.
Upcoming(s, n) == IF s.hasub THEN SubSeq(s.ub, 1, n) ELSE SubSeq(s.buf, s.p + 1, s.p + n)

Taken(s, n) ==
    IF s.hasub THEN [s EXCEPT !.ub = SubSeq(@, n + 1, Len(@)), !.r = @ - n]
    ELSE [s EXCEPT !.p = @ + n, !.r = @ - n]

\* __swsetup on a stream that may be written.
Swsetup(s) ==
    LET t == IF s.wr THEN s
             ELSE IF s.rd THEN [FreeUb(s) EXCEPT !.rd = FALSE, !.eof = FALSE, !.r = 0,
                                                 !.p = 0, !.wr = TRUE]
             ELSE [s EXCEPT !.wr = TRUE]
    IN  [Made(t) EXCEPT !.w = IF s.kind = "full" THEN BufSize ELSE 0,
                        !.lbfsize = IF s.kind = "line" THEN -BufSize ELSE @]

\* cantwrite: TRUE only if the stream is read-only.
CantWrite(s) == ~s.wr /\ ~s.rw
ReadyToWrite(s) == IF s.wr /\ s.made THEN s ELSE Swsetup(s)

\* _w does not tell that there is less room.
StoreKeepsW(s, b) ==
    [s EXCEPT !.buf = [i \in DOMAIN @ |-> IF i \in (s.p + 1)..(s.p + Len(b))
                                          THEN b[i - s.p] ELSE @[i]],
              !.p = @ + Len(b)]

Store(s, b) ==
    [s EXCEPT !.buf = [i \in DOMAIN @ |-> IF i \in (s.p + 1)..(s.p + Len(b))
                                          THEN b[i - s.p] ELSE @[i]],
              !.p = @ + Len(b), !.w = @ - Len(b)]

-----------------------------------------------------------------------------
(* Calls.  In all of them k is what the descriptor reads, j, j2 what it takes *)
(* of the bytes written before it fails.                                      *)

Idle(d) == busy = NoBusy /\ (~f.rw \/ dir \in {d, "any"})

Reads == {-1} \cup 1..BufSize
Takes == 0..Buffered(f)

\* The same where the call may read, or write, and one value where it does not.
ReadsIf(may) == IF may THEN Reads ELSE {1}
TakesIf(may) == IF may THEN Takes ELSE {0}

\* __sgetc and __srget.
Getc(k, j) ==
    LET s == IF f.r > 0 THEN f ELSE Srefill(f, k, j, Size(f)) IN
    /\ Idle("in")
    /\ \/ /\ s.r > 0
          /\ f' = Taken(s, 1) /\ call' = DidBytes("read", Upcoming(s, 1)) /\ dir' = "in"
       \/ /\ s.r = 0
          /\ f' = s
          /\ call' = Did(IF f.r = 0 /\ ~f.rd /\ FlushFails(f, j) THEN "lost"
                         ELSE IF s.eof THEN "eof" ELSE "fail")
          /\ dir' = IF s.eof THEN "any" ELSE "in"
    /\ UNCHANGED busy

\* Backing up replaces the byte in the buffer, whatever it was.
BackUpAlways(s, c) == s.made /\ s.p > 0

\* ungetc can be done by backing up in the buffer.
BackUp(s, c) == s.made /\ s.p > 0 /\ s.buf[s.p] = c

\* Pushes c back, with __submore if need be.
Pushed(s, c) ==
    IF s.hasub
    THEN [s EXCEPT !.ub = << c >> \o @, !.r = @ + 1,
                   !.ubsize = IF s.r < @ THEN @ ELSE IF @ = UbufSize THEN BigUb ELSE 2 * @]
    ELSE IF BackUp(s, c) THEN [s EXCEPT !.eof = FALSE, !.p = @ - 1, !.r = @ + 1]
    ELSE [s EXCEPT !.eof = FALSE, !.ur = s.r, !.up = s.p, !.hasub = TRUE, !.ub = << c >>,
                   !.ubsize = UbufSize, !.r = 1, !.p = 0]

Ungetc(c, j) ==
    /\ Idle("in") /\ (f.rd \/ f.rw)
    /\ Len(f.ub) < MaxPush
    /\ \/ /\ ~f.rd /\ FlushFails(f, j)
          /\ f' = Sflush(f, j) /\ call' = Did("lost")
       \/ /\ f.rd \/ ~FlushFails(f, j)
          /\ f' = Pushed(IF f.rd THEN f ELSE StartReading(f, j), c)
          /\ call' = DidBytes("unread", << c >>)
    /\ dir' = "in" /\ UNCHANGED busy

\* malloc fails in __submore, or the stream is write-only.
UngetcFails ==
    /\ Idle("in")
    /\ \/ ~f.rd /\ ~f.rw
       \/ f.rd /\ f.hasub /\ f.r >= f.ubsize
    /\ call' = Did("fail") /\ UNCHANGED << f, busy, dir >>

\* The byte goes into the buffer without a call.
PutcFast(s, c) == s.w - 1 >= 0 \/ (s.w - 1 >= s.lbfsize /\ c # NL)

\* __swbuf: the stream after the first flush, and whether there is a second.
SwbufFirst(s, j) == IF s.p >= Size(s) THEN Sflush(s, j) ELSE s
Full(s, c) == s.p = Size(s) \/ (s.kind = "line" /\ c = NL)

\* __sputc and __swbuf.
Putc(c, j, j2) ==
    LET s == ReadyToWrite([f EXCEPT !.w = f.lbfsize])
        t == Store(SwbufFirst(s, j), << c >>)
    IN  /\ Idle("out") /\ ~CantWrite(f)
        /\ \/ /\ PutcFast(f, c)
              /\ f' = Store(f, << c >>) /\ call' = DidBytes("write", << c >>)
           \/ /\ ~PutcFast(f, c) /\ s.p >= Size(s) /\ FlushFails(s, j)
              /\ f' = Sflush(s, j) /\ call' = Did("lost")
           \/ /\ ~PutcFast(f, c) /\ (s.p < Size(s) \/ ~FlushFails(s, j))
              /\ f' = IF Full(t, c) THEN Sflush(t, j2) ELSE t
              /\ call' = IF Full(t, c) /\ FlushFails(t, j2) THEN Did("lost")
                         ELSE DidBytes("write", << c >>)
        /\ dir' = "out" /\ UNCHANGED busy

PutcFails(c) ==
    /\ Idle("out") /\ CantWrite(f)
    /\ f' = [f EXCEPT !.w = f.lbfsize] /\ call' = Did("fail") /\ UNCHANGED << busy, dir >>

\* fflush of this stream or, if all, of every stream.
Fflush(all, j) ==
    /\ busy = NoBusy \/ (all /\ busy.op # "overrun")
    /\ \/ /\ all \/ f.wr \/ f.rw
          /\ f' = Sflush(f, j)
          /\ call' = Did(IF FlushFails(f, j) THEN "lost" ELSE "flush")
          /\ dir' = IF busy = NoBusy /\ dir = "out" THEN "any" ELSE dir
       \/ /\ ~all /\ ~f.wr /\ ~f.rw
          /\ call' = Did("fail") /\ UNCHANGED << f, dir >>
    /\ UNCHANGED busy

-----------------------------------------------------------------------------
(* fread and fwrite *)

\* __SNBF is tested once, when the buffer may still have to be made.
Fread(n) ==
    /\ Idle("in")
    /\ busy' = [NoBusy EXCEPT !.op = IF f.made /\ f.kind = "none" THEN "direct" ELSE "fread",
                              !.left = n]
    /\ dir' = "in" /\ UNCHANGED << f, call >>

\* One turn of the loop of fread: what is in the buffer, or a refill.
FreadStep(k, j) ==
    LET n == Min({f.r, busy.left})  s == Srefill(f, k, j, Size(f)) IN
    /\ busy.op = "fread"
    /\ \/ /\ f.r > 0
          /\ f' = Taken(f, n) /\ call' = DidBytes("read", Upcoming(f, n))
          /\ busy' = IF n = busy.left THEN NoBusy ELSE [busy EXCEPT !.left = @ - n]
          /\ UNCHANGED dir
       \/ /\ f.r = 0 /\ s.r > 0
          /\ f' = s /\ UNCHANGED << call, busy, dir >>
       \/ /\ f.r = 0 /\ s.r = 0
          /\ f' = s /\ busy' = NoBusy
          /\ call' = Did(IF ~f.rd /\ FlushFails(f, j) THEN "lost"
                         ELSE IF s.eof THEN "eof" ELSE "fail")
          /\ dir' = IF s.eof THEN "any" ELSE "in"

\* The same for an unbuffered stream, which reads into the caller's memory; of
\* bytes that were pushed back nothing gets there.
FreadDirect(k, j) ==
    LET s == Srefill(f, k, j, busy.left)  old == f.hasub /\ f.ur > 0 IN
    /\ busy.op = "direct"
    /\ f' = [s EXCEPT !.p = 0, !.r = 0, !.buf = f.buf]
    /\ \/ /\ s.r > 0
          /\ call' = DidBytes("read", IF old THEN << >>
                                      ELSE SubSeq(f.disk, s.fdpos - s.r + 1, s.fdpos))
          /\ busy' = IF s.r >= busy.left THEN NoBusy ELSE [busy EXCEPT !.left = @ - s.r]
          /\ UNCHANGED dir
       \/ /\ s.r = 0
          /\ call' = Did(IF ~f.rd /\ FlushFails(f, j) THEN "lost"
                         ELSE IF s.eof THEN "eof" ELSE "fail")
          /\ busy' = NoBusy
          /\ dir' = IF s.eof THEN "any" ELSE "in"

Fwrite(b) ==
    /\ Idle("out") /\ ~CantWrite(f)
    /\ f' = ReadyToWrite(f)
    /\ busy' = [NoBusy EXCEPT !.op = "fwrite", !.bytes = b]
    /\ dir' = "out" /\ UNCHANGED call

FwriteFails ==
    /\ Idle("out") /\ CantWrite(f)
    /\ call' = Did("fail") /\ UNCHANGED << f, busy, dir >>

Wrote(n) ==
    /\ call' = DidBytes("write", SubSeq(busy.bytes, 1, n))
    /\ busy' = IF n = Len(busy.bytes) THEN NoBusy
               ELSE [busy EXCEPT !.bytes = SubSeq(@, n + 1, Len(@))]

\* A turn of the loop that writes m bytes to the descriptor, or fewer.
WriteDirect(m, j) ==
    LET n == Min({j, m}) IN
    \/ /\ n > 0
       /\ f' = Swrite(f, SubSeq(busy.bytes, 1, n)) /\ Wrote(n)
    \/ /\ n = 0
       /\ f' = [f EXCEPT !.err = TRUE, !.soff = FALSE, !.offset = 0]
       /\ call' = Did("fail") /\ busy' = NoBusy

\* A turn that puts n bytes into the buffer and then, if flush, writes it out.
\* If that fails __sfvwrite returns EOF.  When the bytes go past the end of the
\* buffer nothing is said of what follows.
WriteBuffered(n, flush, j) ==
    LET s == Store(f, SubSeq(busy.bytes, 1, n)) IN
    CASE f.p + n > BufSize ->
            f' = f /\ call' = Did("overrun") /\ busy' = [NoBusy EXCEPT !.op = "overrun"]
      [] f.p + n <= BufSize /\ ~flush -> f' = s /\ Wrote(n)
      [] f.p + n <= BufSize /\ flush ->
            /\ f' = Sflush(s, j)
            /\ IF FlushFails(s, j) THEN call' = Did("lost") /\ busy' = NoBusy ELSE Wrote(n)

Overrun == busy.op = "overrun" /\ UNCHANGED vars

\* The bytes fill the partly full buffer and must be written out.
FillAndFlush(room, n) == f.p > 0 /\ n > room

\* The bytes up to the newline, or all.
LineLen(b) == IF NL \in Range(b) THEN Min({i \in DOMAIN b : b[i] = NL}) ELSE Len(b)

\* One turn of the loops of __sfvwrite.
FwriteStep(j) ==
    LET len == Len(busy.bytes)  n == LineLen(busy.bytes) IN
    /\ busy.op = "fwrite"
    /\ CASE f.kind = "none" -> WriteDirect(len, j)
         [] f.kind = "full" ->
              IF FillAndFlush(f.w, len) THEN WriteBuffered(f.w, TRUE, j)
              ELSE IF len >= BufSize THEN WriteDirect(BufSize * (len \div BufSize), j)
              ELSE WriteBuffered(len, FALSE, j)
         [] f.kind = "line" ->
              IF FillAndFlush(f.w + BufSize, n) THEN WriteBuffered(f.w + BufSize, TRUE, j)
              ELSE IF n >= BufSize THEN WriteDirect(BufSize, j)
              ELSE WriteBuffered(n, busy.bytes[n] = NL, j)
    /\ UNCHANGED dir

-----------------------------------------------------------------------------
(* Positions *)

\* Where the stream is, from the descriptor's offset o.
Position(s, o) ==
    IF s.rd THEN o - s.r - (IF s.hasub THEN s.ur ELSE 0)
    ELSE IF s.wr THEN o + s.p ELSE o

Ftell(j) ==
    LET s == KnowOffset(Sflush(f, j)) IN
    /\ busy = NoBusy
    /\ f' = s
    /\ call' = IF FlushFails(f, j) THEN Did("lost") ELSE DidPos("tell", Position(s, s.offset))
    /\ UNCHANGED << busy, dir >>

\* fseeko without optimisation; n gives the target from the state it finds.
Dumb(s, j, n) ==
    [FreeUb(Sseek(Sflush(s, j), n)) EXCEPT !.p = 0, !.r = 0, !.eof = FALSE]

CanOptimise(s) == ~s.wr /\ ~s.rw /\ s.kind # "none" /\ ~s.npt

\* The bytes pushed back count as read ahead.
BufStartWithUb(s) == s.offset - s.r - (IF s.hasub THEN s.up + s.ur ELSE s.p)

\* The file offset of the first byte in the buffer, and the bytes there.
BufStart(s) == s.offset - (IF s.hasub THEN s.up + s.ur ELSE s.p + s.r)
BufCount(s) == IF s.hasub THEN s.up + s.ur ELSE s.p + s.r

\* fseeko's optimised path to offset n: in the buffer, or by the block.
Optimised(s, k, n) ==
    LET o == n - BufStart(s)
        block == n - (n % BlkSize)
        at == [FreeUb(Sseek(s, block)) EXCEPT !.p = 0, !.r = 0, !.eof = FALSE]
        filled == Srefill(at, k, 0, BufSize)
    IN  IF o >= 0 /\ o < BufCount(s)
        THEN [FreeUb(s) EXCEPT !.p = o, !.r = BufCount(s) - o, !.eof = FALSE]
        ELSE IF n = block THEN at
        ELSE IF filled.r < n - block THEN Dumb(filled, 0, n)
        ELSE [filled EXCEPT !.p = n - block, !.r = @ - (n - block)]

\* fseeko to an offset from the start, the position or the end of the file.
\* Bound: not beyond the end, which would leave a hole there, and from the end
\* not before the start.
Fseek(whence, x, k, j) ==
    LET s == Made(IF whence = "cur" THEN KnowOffset(Sflush(f, j)) ELSE f)
        n == CASE whence = "set" -> x
               [] whence = "cur" -> x + Position(s, s.offset)
               [] whence = "end" -> x + Len(Sflush(f, j).disk)
    IN  /\ busy = NoBusy
        /\ n <= Len(Sflush(f, j).disk) /\ (whence = "end" => n >= 0)
        /\ \/ /\ n < 0 /\ f' = (IF whence = "cur" THEN KnowOffset(Sflush(f, j)) ELSE f)
              /\ call' = Did(IF FlushFails(f, j) THEN "lost" ELSE "fail")
              /\ UNCHANGED dir
           \/ /\ n >= 0 /\ CanOptimise(s)
              /\ f' = Optimised(KnowOffset(s), k, n)
              /\ call' = DidPos("seek", n) /\ dir' = "any"
           \/ /\ n >= 0 /\ ~CanOptimise(s)
              /\ f' = IF FlushFails(s, j) THEN Sflush(s, j) ELSE Dumb(s, j, n)
              /\ call' = IF FlushFails(f, j) THEN Did("lost") ELSE DidPos("seek", n)
              /\ dir' = "any"
        /\ UNCHANGED busy

Clearerr ==
    /\ busy = NoBusy /\ (f.err \/ f.eof)
    /\ f' = [f EXCEPT !.err = FALSE, !.eof = FALSE]
    /\ UNCHANGED << call, busy, dir >>

-----------------------------------------------------------------------------
(* What the program sees *)

\* The file with the bytes still in the buffer.
Data == Overwrite(f.disk, f.fdpos, SubSeq(f.buf, 1, Buffered(f)))

Tell == Position(f, f.fdpos)

Input ==
    IF f.rd
    THEN f.ub \o (IF f.hasub THEN SubSeq(f.buf, f.up + 1, f.up + f.ur)
                             ELSE SubSeq(f.buf, f.p + 1, f.p + f.r))
              \o SubSeq(f.disk, f.fdpos + 1, Len(f.disk))
    ELSE SubSeq(Data, Tell + 1, Len(Data))

\* Bound: the file does not grow beyond MaxLen.
Room == MaxLen - Tell

\* Bound: what the program seeks to.
Offsets(whence) == CASE whence = "set" -> 0..MaxLen
                     [] whence = "cur" -> {-1, 0, 1}
                     [] whence = "end" -> {-1, 0}

Next ==
    \/ \E k \in ReadsIf(f.r = 0), j \in Takes : Getc(k, j) \/ FreadStep(k, j)
    \/ \E k \in Reads, j \in Takes : FreadDirect(k, j)
    \/ \E c \in Bytes, j \in Takes : Ungetc(c, j)
    \/ \E c \in Bytes, j \in TakesIf(f.p >= Size(f)), j2 \in 0..(f.p + 1) :
          Room > 0 /\ Putc(c, j, j2)
    \/ \E c \in Bytes : PutcFails(c)
    \/ UngetcFails \/ FwriteFails \/ Clearerr \/ Overrun
    \/ \E n \in 1..MaxCount : Fread(n)
    \/ \E b \in BoundedSeq(Bytes, Min({MaxCount, Room})) \ {<< >>} : Fwrite(b)
    \/ \E j \in Takes, all \in BOOLEAN : Fflush(all, j)
    \/ \E j \in Takes : Ftell(j)
    \/ \E j \in 0..Max({BufSize, MaxCount}) : FwriteStep(j)
    \/ \E whence \in {"set", "cur", "end"}, k \in ReadsIf(CanOptimise(f)), j \in Takes :
          \E x \in Offsets(whence) : Fseek(whence, x, k, j)

Spec == Init /\ [][Next]_vars

-----------------------------------------------------------------------------
(* Properties *)

\* Types: the file stays a sequence of bytes within its bound, the descriptor's
\* offset inside the file, and, until a write overruns the buffer (see
\* BufferSafe), pointers and counters (_p, _r, _w, _lbfsize) in the range of
\* their buffer.
TypeOK ==
    /\ f.disk \in BoundedSeq(Bytes, MaxLen) /\ f.fdpos \in 0..Len(f.disk)
    /\ f.buf \in [1..BufSize -> Bytes] /\ f.p \in 0..BufSize /\ f.r \in 0..Max({BufSize, MaxPush})
    /\ f.w \in (-BufSize)..BufSize /\ f.lbfsize \in {0, -BufSize}
    /\ f.ub \in Seq(Bytes) /\ f.offset \in 0..MaxLen
    /\ {f.rd, f.wr, f.rw, f.eof, f.err, f.made, f.npt, f.hasub, f.soff} \subseteq BOOLEAN
    /\ busy.op \in {"none", "fread", "direct", "fwrite", "overrun"}
    /\ dir \in {"any", "in", "out"}

\* A line buffered stream that is written, and _lbfsize is not the buffer's size
\* as stdio.h:93 says it always is: fseeko has made the buffer.
Misfit(s) == s.kind = "line" /\ s.made /\ s.wr /\ s.lbfsize = 0

\* What getc and putc may do without a call is safe: at most the bytes that are
\* there are read, and only from a stream that reads; no byte is stored beyond
\* the buffer, and only into one that is being written (__sgetc and __sputc in
\* stdio.h; __srefill, __swsetup, __swbuf, ungetc, fseeko keep the counters).
\* fwrite stores beyond the buffer only on a stream whose counters do not fit:
\* STDBUF made it line buffered, in an fseeko before the first write.
BufferSafe ==
    /\ ~(f.rd /\ f.wr)
    /\ f.r > 0 => f.rd /\ (IF f.hasub THEN f.r = Len(f.ub) ELSE f.p + f.r <= Size(f))
    /\ f.hasub => f.rd /\ f.r <= f.ubsize /\ f.up + f.ur <= Size(f)
    /\ f.w > 0 => f.wr /\ f.made /\ f.p + f.w <= Size(f)
    /\ f.lbfsize < 0 => f.wr /\ f.p + (f.w - f.lbfsize) <= Size(f)
    /\ busy.op = "overrun" => Misfit(f)

\* The offset that ftello and fseeko take in place of lseek is the descriptor's
\* (__SOFF: "set iff _offset is in fact correct", include/stdio.h:166).
OffsetKnown == f.soff => f.offset = f.fdpos

BS == INSTANCE ByteStream WITH data <- Data, tell <- Tell, input <- Input

\* fread on an unbuffered stream assumes that nothing was pushed back ("we know
\* that the buffer in fp is empty", fread.c:88), which ungetc makes false.
FreadDropsPushback == busy.op = "direct" /\ (f.r > 0 \/ f.hasub)

\* Through any sequence of calls, short reads and writes and read errors, the
\* stream is the file of bytes the program thinks it is: getc and fread return
\* the next bytes, ungetc bytes first; end of file is reported only there;
\* written bytes go where the position says; ftell tells the position; a seek in
\* the buffer or to a block boundary is as good as a real one.  Excepted are
\* calls that report, or cause, the loss of buffered bytes in a write error, and
\* the fwrite that overruns the buffer of a misfit stream, with all that follows.
BehavesAsFile ==
    [][call'.op \in {"lost", "overrun"} \/ FreadDropsPushback \/ BS!Next]_<< Data, Tell, Input, call >>
==============================================================================
