-------------------------- MODULE SerialInputProofs --------------------------
(***************************************************************************)
(* What the host writes reaches the guest once and in order: InputInOrder  *)
(* of Serial, for every size of the caches, every count and however many   *)
(* bytes each read of the file returns.  A byte is followed from the file  *)
(* through the read cache, or from the ring buffer, through UD1RX to the   *)
(* guest: at each hand-over what is ahead of it and what is behind it join *)
(* to the same sequence.                                                   *)
(***************************************************************************)
EXTENDS SerialProofs

Bytes == 0 .. MaxIn

(* The part of the input file that has not been read into the cache.           *)
Rest(p) == SubSeq(infile, p + 1, Len(infile))

(* Until the input file is open nothing has come from it; the place at which   *)
(* it was opened is one that it has.                                           *)
NothingRead == path /\ ~ rcache.open =>
                 received = <<>> /\ ~ uart.ssf /\ rcache.count = 0
Opening == from <= Len(infile)

(* The ring buffer is closed: its write position is as far ahead of its read   *)
(* position as it has bytes.                                                   *)
Ring(f) == f.wr = IF f.rd + f.count >= Size THEN f.rd + f.count - Size ELSE f.rd + f.count

(* The inductive invariant.                                                    *)
InInv == TInv /\ NothingRead /\ Opening /\ Ring(fifo) /\ InputInOrder

-----------------------------------------------------------------------------
(* The read cache.                                                             *)

LEMMA UnreadType ==
  ASSUME NEW r \in ReaderType, r.off + r.count <= Size
  PROVE  /\ Unread(r) \in Seq(Bytes) /\ Len(Unread(r)) = r.count
         /\ \A k \in 1 .. r.count : Unread(r)[k] = r.buf[r.off + k - 1]
<1>1. r.count \in Nat /\ r.off \in Nat /\ r.buf \in Buffer(MaxIn)
  BY Sizes DEF ReaderType
<1>2. \A k \in 1 .. r.count : r.buf[r.off + k - 1] \in Bytes
  BY <1>1, Sizes DEF Buffer, Bytes
<1>3. Unread(r) \in [1 .. r.count -> Bytes]
  BY <1>2 DEF Unread
<1>4. Unread(r) \in Seq(Bytes)
  BY <1>1, <1>3, SeqDef
<1>5. DOMAIN Unread(r) = 1 .. r.count
  BY DEF Unread
<1>6. \A k \in 1 .. r.count : Unread(r)[k] = r.buf[r.off + k - 1]
  BY DEF Unread
<1> QED
  BY <1>1, <1>4, <1>5, <1>6, LenProperties

LEMMA UnreadEmpty ==
  ASSUME NEW r \in ReaderType, r.off + r.count <= Size, r.count = 0
  PROVE  Unread(r) = <<>>
  BY UnreadType, EmptySeq

(* A byte and what follows it.                                                 *)
LEMMA OneByte ==
  ASSUME NEW b \in Bytes
  PROVE  <<b>> \in Seq(Bytes) /\ Len(<<b>>) = 1 /\ <<b>>[1] = b
  OBVIOUS

(* file_cache_read takes the first byte of the cache.                          *)
LEMMA ReadOneFields ==
  ASSUME NEW r \in ReaderType, r.off + r.count <= Size, r.count > 0
  PROVE  /\ ReadOne(r).buf = r.buf
         /\ ReadOne(r).off = r.off + 1
         /\ ReadOne(r).count = r.count - 1
         /\ ReadOne(r).open = r.open
  BY DEF ReadOne, ReaderType

LEMMA UnreadFirst ==
  ASSUME NEW r \in ReaderType, r.off + r.count <= Size, r.count > 0
  PROVE  r.buf[r.off] \in Bytes /\ Unread(r) = <<r.buf[r.off]>> \o Unread(ReadOne(r))
<1> DEFINE b == r.buf[r.off]
           q == ReadOne(r)
           s == Unread(r)
           t == <<b>> \o Unread(q)
<1>1. r.count \in Nat /\ r.off \in Nat /\ r.off <= Size - 1 /\ r.buf \in Buffer(MaxIn)
  BY Sizes DEF ReaderType
<1>2. b \in Bytes
  <2>1. r.off \in 0 .. Size - 1
    BY <1>1, Sizes
  <2>2. r.buf[r.off] \in 0 .. MaxIn
    BY <1>1, <2>1, BufferByte
  <2> QED
    BY <2>2 DEF Bytes
<1>3. /\ q \in ReaderType /\ q.off + q.count <= Size
      /\ q.buf = r.buf /\ q.off = r.off + 1 /\ q.count = r.count - 1
  BY ReadOneType, ReadOneFields
<1>4. /\ s \in Seq(Bytes) /\ Len(s) = r.count
      /\ \A k \in 1 .. r.count : s[k] = r.buf[r.off + k - 1]
  BY UnreadType
<1>5. /\ Unread(q) \in Seq(Bytes) /\ Len(Unread(q)) = r.count - 1
      /\ \A k \in 1 .. r.count - 1 : Unread(q)[k] = r.buf[r.off + 1 + k - 1]
  BY <1>3, UnreadType
<1>6. <<b>> \in Seq(Bytes) /\ Len(<<b>>) = 1 /\ <<b>>[1] = b
  BY <1>2, OneByte
<1> HIDE DEF q
<1>7. /\ t \in Seq(Bytes) /\ Len(t) = 1 + (r.count - 1)
      /\ \A k \in 1 .. 1 + (r.count - 1) :
           t[k] = IF k <= 1 THEN <<b>>[k] ELSE Unread(q)[k - 1]
  BY <1>5, <1>6, ConcatProperties
<1>8. ASSUME NEW k \in 1 .. r.count
      PROVE  s[k] = t[k]
  <2>1. CASE k = 1
    <3>1. s[1] = r.buf[r.off + 1 - 1] /\ r.off + 1 - 1 = r.off
      BY <1>1, <1>4, <2>1
    <3>2. t[1] = b
      BY <1>1, <1>6, <1>7, <2>1
    <3> QED
      BY <2>1, <3>1, <3>2
  <2>2. CASE k # 1
    <3>1. k - 1 \in 1 .. r.count - 1 /\ k \in 1 .. 1 + (r.count - 1) /\ ~ (k <= 1)
      BY <1>1, <2>2
    <3>2. t[k] = Unread(q)[k - 1]
      BY <1>7, <3>1
    <3>3. Unread(q)[k - 1] = r.buf[r.off + 1 + (k - 1) - 1]
      BY <1>5, <3>1
    <3>4. r.off + 1 + (k - 1) - 1 = r.off + k - 1
      BY <1>1
    <3> QED
      BY <1>4, <3>2, <3>3, <3>4
  <2> QED
    BY <2>1, <2>2
<1> HIDE DEF s, t, b
<1>9. Len(s) = Len(t) /\ (\A k \in 1 .. Len(s) : s[k] = t[k])
  <2>1. 1 + (r.count - 1) = r.count
    BY <1>1
  <2> QED
    BY <1>4, <1>7, <1>8, <2>1
<1>10. s = t
  BY <1>4, <1>7, <1>9, SeqEqual
<1> QED
  BY <1>2, <1>10 DEF s, t, b, q

(* The input file, and what is left of it from a place on.                     *)
LEMMA FileType ==
  ASSUME TInv
  PROVE  /\ infile \in Seq(Bytes) /\ Len(infile) \in Nat /\ Len(infile) <= MaxIn
         /\ received \in Seq(Bytes) /\ typed \in Seq(Bytes)
<1>1. \A t : t \in Seq(1 .. MaxIn) => t \in Seq(Bytes)
  <2> SUFFICES ASSUME NEW t, t \in Seq(1 .. MaxIn)
               PROVE  t \in Seq(Bytes)
    OBVIOUS
  <2>1. \A k \in 1 .. Len(t) : t[k] \in Bytes
    <3> TAKE k \in 1 .. Len(t)
    <3>1. t[k] \in 1 .. MaxIn
      BY ElementOfSeq
    <3> QED
      BY <3>1, Sizes DEF Bytes
  <2> QED
    BY <2>1, SeqMonotonic
<1>2. /\ infile \in Seq(1 .. MaxIn) /\ typed \in Seq(1 .. MaxIn) /\ received \in Seq(0 .. MaxIn)
      /\ Len(infile) <= MaxIn
  BY DEF TInv, TypeOK, Bounded
<1>3. Len(infile) \in Nat
  BY <1>2, LenProperties
<1> QED
  BY <1>1, <1>2, <1>3 DEF Bytes

LEMMA RestType ==
  ASSUME infile \in Seq(Bytes), NEW p \in Nat, p <= Len(infile)
  PROVE  /\ Rest(p) \in Seq(Bytes)
         /\ p = Len(infile) => Rest(p) = <<>>
<1>1. Len(infile) \in Nat
  BY LenProperties
<1>2. CASE p = Len(infile)
  <2>1. Len(infile) < p + 1
    BY <1>1, <1>2
  <2>2. Rest(p) = <<>>
    BY <1>1, <2>1, SubSeqEmpty DEF Rest
  <2> QED
    BY <2>2, EmptySeq
<1>3. CASE p # Len(infile)
  <2>1. p + 1 \in 1 .. Len(infile) /\ Len(infile) \in 1 .. Len(infile)
    BY <1>1, <1>3
  <2>2. \A k \in p + 1 .. Len(infile) : infile[k] \in Bytes
    BY <1>1, ElementOfSeq
  <2> QED
    BY <1>1, <1>3, <2>1, <2>2, SubSeqProperties DEF Rest
<1> QED
  BY <1>2, <1>3

LEMMA FilledIsOpen ==
  ASSUME NEW r \in ReaderType, NEW n
  PROVE  Filled(r, n).open = Opened(r).open
<1>1. "open" \in DOMAIN Opened(r)
  BY DEF Opened, ReaderType
<1> QED
  BY <1>1 DEF Filled

(* file_cache_load puts into the cache what it takes from the file.            *)
LEMMA UnreadFilled ==
  ASSUME TInv, NEW r \in ReaderType, r.pos <= Len(infile),
         NEW n \in 1 .. Room(r), n <= Len(infile) - Opened(r).pos
  PROVE  Unread(Filled(r, n)) \o Rest(Filled(r, n).pos) = Rest(Opened(r).pos)
<1> DEFINE o == Opened(r)
           f == IF o.off >= Size THEN 0 ELSE o.off
           v == Filled(r, n)
           s == Unread(v)
           t == SubSeq(infile, o.pos + 1, o.pos + n)
<1>1. /\ infile \in Seq(Bytes) /\ Len(infile) \in Nat /\ Len(infile) \in 0 .. MaxIn
      /\ infile \in Seq(1 .. MaxIn)
  BY FileType DEF TInv, TypeOK
<1>2. o \in ReaderType /\ o.off = r.off /\ o.pos <= Len(infile)
  BY <1>1, OpenedType
<1>3. o.pos \in Nat /\ o.off \in Nat /\ o.off <= Size
  BY <1>2, Sizes DEF ReaderType
<1>4. v \in ReaderType /\ v.off + v.count <= Size
  BY <1>1, FilledType
<1>5. /\ v.off = f /\ v.count = n /\ v.pos = o.pos + n
      /\ \A k \in 0 .. Size - 1 : k \in f .. f + n - 1 => v.buf[k] = infile[o.pos + 1 + k - f]
  <2> HIDE DEF t, s
  <2>1. DOMAIN o = {"buf", "count", "off", "check", "open", "pos"}
    BY <1>2 DEF ReaderType
  <2> DEFINE g == [k \in 0 .. Size - 1 |-> IF k \in f .. f + n - 1
                                           THEN infile[o.pos + 1 + k - f] ELSE o.buf[k]]
  <2>2. v = [o EXCEPT !.buf = g, !.off = f, !.count = n, !.pos = o.pos + n, !.check = 0]
    BY DEF Filled
  <2> HIDE DEF v, f, o
  <2>3. \A k \in 0 .. Size - 1 : k \in f .. f + n - 1 => g[k] = infile[o.pos + 1 + k - f]
    OBVIOUS
  <2> HIDE DEF g
  <2>4. v.off = f /\ v.count = n /\ v.pos = o.pos + n /\ v.buf = g
    BY <2>1, <2>2
  <2> QED
    BY <2>3, <2>4
<1>6. f \in Nat /\ n \in Nat \ {0} /\ f + n <= Size /\ o.pos + n <= Len(infile)
  BY <1>1, <1>2, <1>3, Sizes DEF Room
<1>7. /\ s \in Seq(Bytes) /\ Len(s) = n
      /\ \A k \in 1 .. n : s[k] = v.buf[f + k - 1]
  BY <1>4, <1>5, UnreadType
<1> HIDE DEF o, f, v, s
<1>8. /\ t \in Seq(Bytes) /\ Len(t) = n
      /\ \A k \in 1 .. n : t[k] = infile[o.pos + 1 + k - 1]
  <2>1. /\ o.pos + 1 \in Int /\ o.pos + n \in Int /\ o.pos + 1 <= o.pos + n
        /\ (o.pos + n) - (o.pos + 1) + 1 = n
    BY <1>3, <1>6
  <2>2. \A k \in o.pos + 1 .. o.pos + n : infile[k] \in Bytes
    <3>1. \A k \in o.pos + 1 .. o.pos + n : k \in 1 .. Len(infile)
      BY <1>1, <1>3, <1>6
    <3> QED
      BY <1>1, <3>1, ElementOfSeq
  <2> QED
    BY <2>1, <2>2, SubSeqProperties
<1>9. ASSUME NEW k \in 1 .. n
      PROVE  s[k] = t[k]
  <2>1. /\ f + k - 1 \in 0 .. Size - 1 /\ f + k - 1 \in f .. f + n - 1
        /\ o.pos + 1 + (f + k - 1) - f = o.pos + 1 + k - 1
    BY <1>3, <1>6, Sizes
  <2>2. v.buf[f + k - 1] = infile[o.pos + 1 + (f + k - 1) - f]
    BY <1>5, <2>1
  <2> QED
    BY <1>7, <1>8, <2>1, <2>2
<1>10. s = t
  <2> HIDE DEF t
  <2> QED
    BY <1>6, <1>7, <1>8, <1>9, SeqEqual
<1>11. SubSeq(infile, o.pos + 1, o.pos + n) \o SubSeq(infile, o.pos + n + 1, Len(infile))
         = SubSeq(infile, o.pos + 1, Len(infile))
  <2>1. /\ o.pos + 1 \in 1 .. Len(infile) + 1
        /\ o.pos + n \in (o.pos + 1) - 1 .. Len(infile)
        /\ Len(infile) \in o.pos + n .. Len(infile)
    BY <1>1, <1>3, <1>6
  <2> QED
    BY <1>1, <2>1, ConcatAdjacentSubSeq
<1> QED
  BY <1>5, <1>10, <1>11 DEF Rest, v, s, t, o

(* A load moves bytes from the file to the cache and changes nothing else; the *)
(* one that opens the file starts at its end.                                  *)
LEMMA LoadsKeepsOrder ==
  ASSUME TInv, NEW r \in ReaderType, r.off + r.count <= Size, r.pos <= Len(infile),
         NEW s \in Loads(r)
  PROVE  /\ r.open => /\ s.open
                      /\ Unread(s) \o Rest(s.pos) = Unread(r) \o Rest(r.pos)
         /\ ~ r.open /\ r.count = 0 => /\ s.count = 0
                                       /\ s.open => s.pos = Len(infile)
<1>1. r.count \in Nat /\ DOMAIN r = {"buf", "count", "off", "check", "open", "pos"}
  BY Sizes DEF ReaderType
<1>2. infile \in Seq(Bytes) /\ Len(infile) \in Nat
  BY FileType
<1>3. /\ r.open => Opened(r) = r
      /\ ~ r.open => /\ Opened(r).pos = Len(infile) /\ Opened(r).open
                     /\ Opened(r).count = r.count
      /\ DOMAIN Opened(r) = DOMAIN r
  BY <1>1 DEF Opened
<1>4. CASE r.count > 0
  BY <1>1, <1>4 DEF Loads
<1>5. CASE ~ (r.count > 0) /\ r.check + 1 < RCheckMax
  <2>1. s = [r EXCEPT !.check = r.check + 1]
    BY <1>5 DEF Loads
  <2>2. /\ s.buf = r.buf /\ s.off = r.off /\ s.count = r.count /\ s.open = r.open
        /\ s.pos = r.pos
    BY <1>1, <2>1
  <2> QED
    BY <2>2 DEF Unread
<1>6. CASE /\ ~ (r.count > 0)
           /\ ~ (r.check + 1 < RCheckMax)
           /\ Len(infile) - Opened(r).pos <= 0
  <2> DEFINE o == Opened(r)
  <2>1. s = [o EXCEPT !.check = 0]
    BY <1>6 DEF Loads
  <2> HIDE DEF o
  <2>2. /\ s.buf = o.buf /\ s.off = o.off /\ s.count = o.count /\ s.open = o.open
        /\ s.pos = o.pos
    BY <2>1, <1>1, <1>3 DEF o
  <2> QED
    BY <1>3, <2>2 DEF Unread, o
<1>7. CASE /\ ~ (r.count > 0)
           /\ ~ (r.check + 1 < RCheckMax)
           /\ ~ (Len(infile) - Opened(r).pos <= 0)
  <2>1. PICK n \in 1 .. Room(r) : n <= Len(infile) - Opened(r).pos /\ s = Filled(r, n)
    BY <1>7 DEF Loads
  <2>2. r.open
    BY <1>2, <1>3, <1>7
  <2>3. Opened(r) = r /\ s.open
    BY <1>3, <2>1, <2>2, FilledIsOpen
  <2>4. Unread(s) \o Rest(s.pos) = Rest(r.pos)
    BY <2>1, <2>3, UnreadFilled
  <2>5. r.count = 0
    BY <1>1, <1>7
  <2>6. Unread(r) = <<>>
    BY <2>5, UnreadEmpty
  <2>7. Rest(r.pos) \in Seq(Bytes)
    BY <1>2, RestType, Sizes DEF ReaderType
  <2>8. <<>> \o Rest(r.pos) = Rest(r.pos)
    BY <2>7, ConcatEmptySeq
  <2> QED
    BY <2>2, <2>3, <2>4, <2>6, <2>8
<1> QED
  BY <1>4, <1>5, <1>6, <1>7

-----------------------------------------------------------------------------
(* The ring buffer.                                                            *)

LEMMA OneTurn ==
  ASSUME NEW m \in Nat \ {0}, NEW n \in 0 .. 2 * m - 1
  PROVE  n % m = IF n < m THEN n ELSE n - m
<1> DEFINE q == n \div m
<1>1. n % m \in 0 .. m - 1
  BY SMT
<1>2. n = m * q + (n % m) /\ q \in Int
  BY SMT
<1>3. n < m => q = 0
  BY <1>1, <1>2, SMT
<1>4. ~ (n < m) => q = 1
  BY <1>1, <1>2, SMT
<1> QED
  BY <1>1, <1>2, <1>3, <1>4, SMT

(* Where the k-th byte of the ring is.                                         *)
Place(f, k) == IF f.rd + k - 1 < Size THEN f.rd + k - 1 ELSE f.rd + k - 1 - Size

LEMMA QueueType ==
  ASSUME NEW f \in FifoType
  PROVE  /\ Queue(f) \in Seq(Bytes) /\ Len(Queue(f)) = f.count
         /\ \A k \in 1 .. f.count : Queue(f)[k] = f.buf[Place(f, k)]
<1>1. f.count \in Nat /\ f.count <= Size /\ f.rd \in 0 .. Size - 1 /\ f.buf \in Buffer(MaxIn)
  BY Sizes DEF FifoType
<1>2. ASSUME NEW k \in 1 .. f.count
      PROVE  /\ (f.rd + k - 1) % Size = Place(f, k)
             /\ f.buf[(f.rd + k - 1) % Size] \in Bytes
  <2>1. Size \in Nat \ {0} /\ f.rd + k - 1 \in 0 .. 2 * Size - 1
    BY <1>1, Sizes
  <2>2. (f.rd + k - 1) % Size = Place(f, k)
    <3> DEFINE n == f.rd + k - 1
    <3>1. Size \in Nat \ {0} /\ n \in 0 .. 2 * Size - 1
      BY <2>1
    <3> HIDE DEF n
    <3>2. n % Size = IF n < Size THEN n ELSE n - Size
      BY <3>1, OneTurn
    <3> QED
      BY <1>1, <2>1, <3>2 DEF n, Place
  <2>3. Place(f, k) \in 0 .. Size - 1
    BY <1>1, <2>1 DEF Place
  <2> QED
    BY <1>1, <2>2, <2>3, BufferByte DEF Bytes
<1>3. Queue(f) \in [1 .. f.count -> Bytes]
  BY <1>2 DEF Queue
<1>4. Queue(f) \in Seq(Bytes)
  BY <1>1, <1>3, SeqDef
<1>5. DOMAIN Queue(f) = 1 .. f.count
  BY DEF Queue
<1>6. \A k \in 1 .. f.count : Queue(f)[k] = f.buf[Place(f, k)]
  BY <1>2 DEF Queue
<1> QED
  BY <1>1, <1>4, <1>5, <1>6, LenProperties

(* dbg_serial_getchar takes the first byte.                                    *)
LEMMA QueueFirst ==
  ASSUME NEW f \in FifoType, f.count > 0, Ring(f)
  PROVE  /\ f.buf[f.rd] \in Bytes
         /\ Queue(f) = <<f.buf[f.rd]>> \o Queue(GetOne(f))
         /\ Ring(GetOne(f))
<1> DEFINE b == f.buf[f.rd]
           g == GetOne(f)
           s == Queue(f)
           t == <<b>> \o Queue(g)
<1>1. /\ f.count \in Nat /\ f.count <= Size /\ f.rd \in 0 .. Size - 1
      /\ f.wr \in 0 .. Size - 1 /\ f.buf \in Buffer(MaxIn) /\ Size \in Nat
  BY Sizes DEF FifoType
<1>2. b \in Bytes
  BY <1>1, BufferByte DEF Bytes
<1>3. /\ g \in FifoType /\ g.buf = f.buf /\ g.count = f.count - 1 /\ g.wr = f.wr
      /\ g.rd = IF f.rd + 1 >= Size THEN 0 ELSE f.rd + 1
  <2>1. g \in FifoType
    BY GetOneType
  <2> QED
    BY <2>1 DEF GetOne, FifoType
<1>4. /\ s \in Seq(Bytes) /\ Len(s) = f.count
      /\ \A k \in 1 .. f.count : s[k] = f.buf[Place(f, k)]
  BY QueueType
<1> HIDE DEF g
<1>5. /\ Queue(g) \in Seq(Bytes) /\ Len(Queue(g)) = f.count - 1
      /\ \A k \in 1 .. f.count - 1 : Queue(g)[k] = f.buf[Place(g, k)]
  BY <1>3, QueueType
<1>6. <<b>> \in Seq(Bytes) /\ Len(<<b>>) = 1 /\ <<b>>[1] = b
  BY <1>2, OneByte
<1>7. /\ t \in Seq(Bytes) /\ Len(t) = 1 + (f.count - 1)
      /\ \A k \in 1 .. 1 + (f.count - 1) :
           t[k] = IF k <= 1 THEN <<b>>[k] ELSE Queue(g)[k - 1]
  BY <1>5, <1>6, ConcatProperties
<1>8. ASSUME NEW k \in 1 .. f.count
      PROVE  s[k] = t[k]
  <2>1. CASE k = 1
    <3>1. Place(f, 1) = f.rd
      BY <1>1 DEF Place
    <3>2. s[1] = b
      BY <1>1, <1>4, <2>1, <3>1
    <3>3. t[1] = b
      BY <1>1, <1>6, <1>7, <2>1
    <3> QED
      BY <2>1, <3>2, <3>3
  <2>2. CASE k # 1
    <3>1. k - 1 \in 1 .. f.count - 1 /\ k \in 1 .. 1 + (f.count - 1) /\ ~ (k <= 1)
      BY <1>1, <2>2
    <3>2. t[k] = f.buf[Place(g, k - 1)]
      BY <1>5, <1>7, <3>1
    <3>3. Place(g, k - 1) = Place(f, k)
      BY <1>1, <1>3, <3>1 DEF Place
    <3> QED
      BY <1>4, <3>2, <3>3
  <2> QED
    BY <2>1, <2>2
<1> HIDE DEF s, t, b
<1>9. Len(s) = Len(t) /\ (\A k \in 1 .. Len(s) : s[k] = t[k])
  <2>1. 1 + (f.count - 1) = f.count
    BY <1>1
  <2> QED
    BY <1>4, <1>7, <1>8, <2>1
<1>10. s = t
  BY <1>4, <1>7, <1>9, SeqEqual
<1>11. Ring(g)
  BY <1>1, <1>3 DEF Ring
<1> QED
  BY <1>2, <1>10, <1>11 DEF s, t, b, g

(* dbg_serial_in puts a byte behind the last one, if there is room.            *)
LEMMA QueueLast ==
  ASSUME NEW f \in FifoType, f.count < Size, Ring(f), NEW b \in Bytes
  PROVE  Queue(PutOne(f, b)) = Queue(f) \o <<b>> /\ Ring(PutOne(f, b))
<1> DEFINE g == PutOne(f, b)
           s == Queue(g)
           t == Queue(f) \o <<b>>
<1>1. /\ f.count \in Nat /\ f.count <= Size /\ f.rd \in 0 .. Size - 1
      /\ f.wr \in 0 .. Size - 1 /\ f.buf \in Buffer(MaxIn) /\ Size \in Nat
  BY Sizes DEF FifoType
<1>2. /\ g \in FifoType /\ g.buf = [f.buf EXCEPT ![f.wr] = b] /\ g.count = f.count + 1
      /\ g.rd = f.rd /\ g.wr = IF f.wr + 1 >= Size THEN 0 ELSE f.wr + 1
  <2>1. g \in FifoType
    BY PutOneType DEF Bytes
  <2> QED
    BY <2>1 DEF PutOne, FifoType
<1>3. \A k \in 0 .. Size - 1 : g.buf[k] = IF k = f.wr THEN b ELSE f.buf[k]
  BY <1>1, <1>2 DEF Buffer
<1>4. /\ s \in Seq(Bytes) /\ Len(s) = f.count + 1
      /\ \A k \in 1 .. f.count + 1 : s[k] = g.buf[Place(g, k)]
  BY <1>2, QueueType
<1>5. /\ Queue(f) \in Seq(Bytes) /\ Len(Queue(f)) = f.count
      /\ \A k \in 1 .. f.count : Queue(f)[k] = f.buf[Place(f, k)]
  BY QueueType
<1>6. <<b>> \in Seq(Bytes) /\ Len(<<b>>) = 1 /\ <<b>>[1] = b
  BY OneByte
<1>7. /\ t \in Seq(Bytes) /\ Len(t) = f.count + 1
      /\ \A k \in 1 .. f.count + 1 :
           t[k] = IF k <= f.count THEN Queue(f)[k] ELSE <<b>>[k - f.count]
  BY <1>5, <1>6, ConcatProperties
<1> HIDE DEF g, s, t
<1>8. ASSUME NEW k \in 1 .. f.count + 1
      PROVE  s[k] = t[k]
  <2>1. Place(g, k) = Place(f, k) /\ Place(f, k) \in 0 .. Size - 1
    BY <1>1, <1>2 DEF Place
  <2>2. CASE k <= f.count
    <3>1. Place(f, k) # f.wr
      BY <1>1, <2>2 DEF Place, Ring
    <3>2. s[k] = f.buf[Place(f, k)]
      BY <1>3, <1>4, <2>1, <3>1
    <3>3. k \in 1 .. f.count
      BY <1>1, <2>2
    <3> QED
      BY <1>5, <1>7, <2>2, <3>2, <3>3
  <2>3. CASE ~ (k <= f.count)
    <3>1. k = f.count + 1 /\ k - f.count = 1
      BY <1>1, <2>3
    <3>2. Place(f, k) = f.wr
      <4>1. f.rd + k - 1 = f.rd + f.count /\ f.rd + f.count \in Nat
        BY <1>1, <3>1
      <4>2. f.wr = IF f.rd + f.count >= Size THEN f.rd + f.count - Size ELSE f.rd + f.count
        BY DEF Ring
      <4>3. Place(f, k) = IF f.rd + f.count < Size THEN f.rd + f.count ELSE f.rd + f.count - Size
        <5>1. CASE f.rd + f.count < Size
          BY <1>1, <4>1, <5>1 DEF Place
        <5>2. CASE ~ (f.rd + f.count < Size)
          BY <1>1, <4>1, <5>2 DEF Place
        <5> QED
          BY <5>1, <5>2
      <4>4. f.rd + f.count >= Size <=> ~ (f.rd + f.count < Size)
        BY <1>1
      <4> QED
        BY <4>2, <4>3, <4>4
    <3>3. s[k] = b
      BY <1>3, <1>4, <2>1, <3>2
    <3>4. t[k] = <<b>>[1]
      BY <1>7, <2>3, <3>1
    <3> QED
      BY <1>6, <3>3, <3>4
  <2> QED
    BY <2>2, <2>3
<1>9. Len(s) = Len(t) /\ (\A k \in 1 .. Len(s) : s[k] = t[k])
  BY <1>4, <1>7, <1>8
<1>10. s = t
  BY <1>4, <1>7, <1>9, SeqEqual
<1>11. Ring(g)
  BY <1>1, <1>2 DEF Ring
<1> QED
  BY <1>10, <1>11 DEF s, t, g

-----------------------------------------------------------------------------
(* The bytes on their way, joined.                                             *)

LEMMA PendingType ==
  ASSUME TInv
  PROVE  Pending \in Seq(Bytes)
<1>1. uart.rx \in Bytes
  BY TypeFacts DEF Bytes
<1>2. <<>> \in Seq(Bytes)
  BY EmptySeq
<1> QED
  BY <1>1, <1>2, OneByte DEF Pending

(* A byte that is handed from what is behind to what is ahead.                 *)
LEMMA HandedOver ==
  ASSUME NEW a \in Seq(Bytes), NEW b \in Bytes, NEW c \in Seq(Bytes)
  PROVE  /\ a \o <<>> \o (<<b>> \o c) = a \o <<b>> \o c
         /\ a \o <<b>> \o c = Append(a, b) \o <<>> \o c
<1>1. /\ <<b>> \in Seq(Bytes) /\ <<>> \in Seq(Bytes)
      /\ a \o <<b>> \in Seq(Bytes)
  BY OneByte, EmptySeq, ConcatProperties
<1>2. a \o <<>> = a /\ (a \o <<b>>) \o <<>> = a \o <<b>>
  BY <1>1, ConcatEmptySeq
<1>3. a \o (<<b>> \o c) = (a \o <<b>>) \o c
  BY <1>1, ConcatAssociative
<1>4. Append(a, b) = a \o <<b>>
  BY AppendIsConcat
<1> QED
  BY <1>2, <1>3, <1>4

(* What is left of a file that grows.                                          *)
LEMMA RestGrows ==
  ASSUME infile \in Seq(Bytes), NEW b \in Bytes, NEW p \in Nat, p <= Len(infile)
  PROVE  SubSeq(Append(infile, b), p + 1, Len(Append(infile, b))) = Rest(p) \o <<b>>
<1> DEFINE t == Append(infile, b)
<1>1. Len(infile) \in Nat
  BY LenProperties
<1>2. /\ t \in Seq(Bytes) /\ Len(t) = Len(infile) + 1
      /\ \A k \in 1 .. Len(infile) : t[k] = infile[k]
      /\ t[Len(infile) + 1] = b
  BY AppendProperties
<1> HIDE DEF t
<1>3. SubSeq(t, p + 1, Len(t)) = SubSeq(t, p + 1, Len(t) - 1) \o <<t[Len(t)]>>
  <2>1. p + 1 \in 1 .. Len(t) /\ Len(t) \in p + 1 .. Len(t)
    BY <1>1, <1>2
  <2> QED
    BY <1>2, <2>1, SubSeqRecursiveSecond
<1>4. SubSeq(t, p + 1, Len(infile)) = Rest(p)
  <2> DEFINE s == SubSeq(t, p + 1, Len(infile))
             u == SubSeq(infile, p + 1, Len(infile))
  <2>1. CASE Len(infile) < p + 1
    BY <1>1, <2>1, SubSeqEmpty DEF Rest
  <2>2. CASE ~ (Len(infile) < p + 1)
    <3>1. /\ p + 1 \in Int /\ Len(infile) \in Int /\ p + 1 <= Len(infile)
          /\ \A i \in p + 1 .. Len(infile) : i \in 1 .. Len(infile)
      BY <1>1, <2>2
    <3>2. \A i \in p + 1 .. Len(infile) : infile[i] \in Bytes /\ t[i] \in Bytes
      BY <1>2, <3>1, ElementOfSeq
    <3>3. /\ s \in Seq(Bytes) /\ Len(s) = Len(infile) - (p + 1) + 1
          /\ \A i \in 1 .. Len(infile) - (p + 1) + 1 : s[i] = t[(p + 1) + i - 1]
      BY <3>1, <3>2, SubSeqProperties
    <3>4. /\ u \in Seq(Bytes) /\ Len(u) = Len(infile) - (p + 1) + 1
          /\ \A i \in 1 .. Len(infile) - (p + 1) + 1 : u[i] = infile[(p + 1) + i - 1]
      BY <3>1, <3>2, SubSeqProperties
    <3>5. \A i \in 1 .. Len(infile) - (p + 1) + 1 : (p + 1) + i - 1 \in 1 .. Len(infile)
      BY <1>1
    <3> HIDE DEF s, u
    <3>6. \A i \in 1 .. Len(s) : s[i] = u[i]
      BY <1>2, <3>3, <3>4, <3>5
    <3>7. s = u
      BY <3>3, <3>4, <3>6, SeqEqual
    <3> QED
      BY <3>7 DEF s, u, Rest
  <2> QED
    BY <2>1, <2>2
<1>5. Len(t) - 1 = Len(infile)
  BY <1>1, <1>2
<1> QED
  BY <1>2, <1>3, <1>4, <1>5 DEF t

-----------------------------------------------------------------------------
(* Every step keeps the bytes in order.                                        *)

(* The part of the invariant that is not about types.                          *)
Ordered == NothingRead /\ Opening /\ Ring(fifo) /\ InputInOrder

LEMMA InInvParts ==
  ASSUME InInv
  PROVE  /\ rcache \in ReaderType /\ rcache.off + rcache.count <= Size
         /\ rcache.pos \in Nat /\ rcache.pos <= Len(infile)
         /\ from \in Nat /\ from <= Len(infile)
         /\ fifo \in FifoType
         /\ infile \in Seq(Bytes) /\ Len(infile) \in Nat
         /\ received \in Seq(Bytes) /\ typed \in Seq(Bytes) /\ Pending \in Seq(Bytes)
<1>1. /\ rcache \in ReaderType /\ rcache.off + rcache.count <= Size /\ rcache.pos <= Len(infile)
      /\ fifo \in FifoType /\ from \in 0 .. MaxIn
  BY DEF InInv, TInv, TypeOK, Bounded
<1>2. rcache.pos \in Nat
  BY <1>1, Sizes DEF ReaderType
<1>3. from \in Nat /\ from <= Len(infile)
  BY <1>1, Sizes DEF InInv, Opening
<1> QED
  BY <1>1, <1>2, <1>3, FileType, PendingType DEF InInv

(* A service does nothing to UD1RX but put a byte into it.                     *)
LEMMA ServicePending ==
  ASSUME InInv, Service
  PROVE  /\ Receives => Pending = <<>> /\ Pending' = <<uart'.rx>>
         /\ ~ Receives => Pending' = Pending /\ (uart'.ssf <=> uart.ssf)
<1>1. uart.ssf \in BOOLEAN /\ taken \in BOOLEAN
  BY TypeFacts DEF InInv, TInv, TypeOK
<1>2. Receives \in BOOLEAN
  BY DEF Receives
<1>3. /\ uart'.ssf = (uart.ssf \/ Receives)
      /\ taken' = (taken /\ ~ Receives)
      /\ ~ Receives => uart'.rx = uart.rx
  BY DEF Service
<1>4. CASE Receives
  <2>1. ~ uart.ssf
    BY <1>4 DEF Receives
  <2>2. uart'.ssf /\ ~ taken'
    BY <1>3, <1>4, Zenon
  <2> QED
    BY <1>4, <2>1, <2>2 DEF Pending
<1>5. CASE ~ Receives
  <2>1. (uart'.ssf <=> uart.ssf) /\ (taken' <=> taken) /\ uart'.rx = uart.rx
    BY <1>1, <1>3, <1>5, Zenon
  <2> QED
    BY <1>5, <2>1 DEF Pending
<1> QED
  BY <1>4, <1>5

(* The service with the ring buffer.                                           *)
LEMMA ServiceRing ==
  ASSUME InInv, Service, ~ path
  PROVE  Ordered'
<1>1. /\ path' = path /\ infile' = infile /\ received' = received /\ typed' = typed
      /\ from' = IF rcache'.open /\ ~ rcache.open THEN Len(infile) ELSE from
      /\ fifo' = IF Receives THEN GetOne(fifo) ELSE fifo
      /\ Receives => uart'.rx = fifo.buf[fifo.rd]
  BY DEF Service
<1>2. received \o Pending \o Queue(fifo) = typed /\ Ring(fifo) /\ from <= Len(infile)
  BY DEF InInv, InputInOrder, Opening
<1>3. /\ received \in Seq(Bytes) /\ Pending \in Seq(Bytes) /\ fifo \in FifoType
      /\ Len(infile) \in Nat
  BY InInvParts
<1>4. received' \o Pending' \o Queue(fifo') = typed' /\ Ring(fifo')
  <2>1. CASE Receives
    <3>1. fifo.count > 0
      BY <2>1 DEF Receives
    <3>2. /\ fifo.buf[fifo.rd] \in Bytes
          /\ Queue(fifo) = <<fifo.buf[fifo.rd]>> \o Queue(GetOne(fifo))
          /\ Ring(GetOne(fifo)) /\ Queue(GetOne(fifo)) \in Seq(Bytes)
      BY <1>2, <1>3, <3>1, QueueFirst, GetOneType, QueueType
    <3>3. Pending = <<>> /\ Pending' = <<fifo.buf[fifo.rd]>>
      BY <1>1, <2>1, ServicePending
    <3>4. received \o <<>> \o Queue(fifo)
            = received \o <<fifo.buf[fifo.rd]>> \o Queue(GetOne(fifo))
      <4> DEFINE b == fifo.buf[fifo.rd]
                 c == Queue(GetOne(fifo))
      <4>1. b \in Bytes /\ c \in Seq(Bytes) /\ Queue(fifo) = <<b>> \o c
        BY <3>2
      <4> HIDE DEF b, c
      <4>2. received \o <<>> \o (<<b>> \o c) = received \o <<b>> \o c
        BY <1>3, <4>1, HandedOver
      <4>3. received \o <<>> \o Queue(fifo) = received \o <<b>> \o c
        BY <4>1, <4>2
      <4> QED
        BY <4>3 DEF b, c
    <3> QED
      BY <1>1, <1>2, <2>1, <3>2, <3>3, <3>4
  <2>2. CASE ~ Receives
    BY <1>1, <1>2, <2>2, ServicePending
  <2> QED
    BY <2>1, <2>2
<1>5. from' <= Len(infile')
  BY <1>1, <1>2, <1>3
<1> QED
  BY <1>1, <1>4, <1>5 DEF Ordered, NothingRead, Opening, InputInOrder

(* The service with the files.                                                 *)
LEMMA ServiceFile ==
  ASSUME InInv, Service, path
  PROVE  Ordered'
<1> DEFINE r == IF Receives THEN ReadOne(rcache) ELSE rcache
           all == SubSeq(infile, from + 1, Len(infile))
<1>1. /\ path' = path /\ infile' = infile /\ received' = received /\ fifo' = fifo
      /\ from' = IF rcache'.open /\ ~ rcache.open THEN Len(infile) ELSE from
      /\ rcache' \in (IF FlushDue THEN Loads(r) ELSE {r})
      /\ Receives => uart'.rx = rcache.buf[rcache.off]
  BY DEF Service
<1>2. /\ rcache.open => received \o Pending \o Unread(rcache) \o Rest(rcache.pos) = all
      /\ ~ rcache.open => received = <<>> /\ ~ uart.ssf /\ rcache.count = 0
      /\ Ring(fifo)
  BY DEF InInv, InputInOrder, NothingRead, Rest
<1>3. /\ rcache \in ReaderType /\ rcache.off + rcache.count <= Size
      /\ rcache.pos \in Nat /\ rcache.pos <= Len(infile) /\ from <= Len(infile)
      /\ infile \in Seq(Bytes) /\ Len(infile) \in Nat
      /\ received \in Seq(Bytes) /\ Pending \in Seq(Bytes) /\ TInv
  BY InInvParts DEF InInv
<1>4. ASSUME Receives
      PROVE  rcache.open /\ rcache.count > 0
  <2>1. rcache.count > 0
    BY <1>4 DEF Receives
  <2> QED
    BY <1>2, <2>1
<1>5. /\ r \in ReaderType /\ r.off + r.count <= Size /\ r.pos = rcache.pos
      /\ r.open = rcache.open
      /\ ~ Receives => r = rcache
  BY <1>3, <1>4, ReadOneType, ReadOneFields
<1>6. Unread(r) \in Seq(Bytes) /\ Rest(r.pos) \in Seq(Bytes)
  BY <1>3, <1>5, UnreadType, RestType
<1>7. rcache.open => received \o Pending' \o Unread(r) \o Rest(r.pos) = all
  <2>1. CASE Receives
    <3> DEFINE b == rcache.buf[rcache.off]
    <3>1. b \in Bytes /\ Unread(rcache) = <<b>> \o Unread(r)
      BY <1>3, <1>4, <2>1, UnreadFirst
    <3>2. Pending = <<>> /\ Pending' = <<b>>
      BY <1>1, <2>1, ServicePending
    <3> HIDE DEF b, r
    <3> DEFINE c == Unread(r)
    <3>3. c \in Seq(Bytes)
      BY <1>6
    <3> HIDE DEF c
    <3>4. received \o <<>> \o (<<b>> \o c) = received \o <<b>> \o c
      BY <1>3, <3>1, <3>3, HandedOver
    <3>5. Unread(rcache) = <<b>> \o c
      BY <3>1 DEF c
    <3>6. received \o Pending \o Unread(rcache) = received \o Pending' \o c
      BY <3>2, <3>4, <3>5
    <3> QED
      BY <1>2, <1>4, <1>5, <2>1, <3>6 DEF c
  <2>2. CASE ~ Receives
    BY <1>2, <1>5, <2>2, ServicePending
  <2> QED
    BY <2>1, <2>2
<1>8. Pending' \in Seq(Bytes)
  <2>1. CASE Receives
    BY <1>1, <1>3, <1>4, <2>1, UnreadFirst, ServicePending, OneByte
  <2>2. CASE ~ Receives
    BY <1>3, <2>2, ServicePending
  <2> QED
    BY <2>1, <2>2
<1>9. /\ rcache' \in ReaderType /\ rcache'.off + rcache'.count <= Size
      /\ rcache'.pos <= Len(infile) /\ rcache'.pos \in Nat
      /\ rcache.open => /\ rcache'.open
                        /\ Unread(rcache') \o Rest(rcache'.pos) = Unread(r) \o Rest(r.pos)
      /\ ~ rcache.open => /\ rcache'.count = 0
                          /\ rcache'.open => rcache'.pos = Len(infile)
  <2>1. ~ rcache.open => r = rcache /\ r.count = 0
    BY <1>2, <1>4, <1>5
  <2>2. infile \in Seq(1 .. MaxIn) /\ Len(infile) \in 0 .. MaxIn
    BY <1>3, FileType DEF TInv, TypeOK
  <2>3. ASSUME NEW q \in ReaderType
        PROVE  q.pos \in Nat
    BY Sizes DEF ReaderType
  <2> HIDE DEF r
  <2>4. CASE FlushDue
    <3>1. rcache' \in Loads(r)
      BY <1>1, <2>4
    <3>2. /\ rcache' \in ReaderType /\ rcache'.off + rcache'.count <= Size
          /\ rcache'.pos <= Len(infile)
      BY <1>3, <1>5, <2>2, <3>1, LoadsType
    <3> QED
      BY <1>3, <1>5, <2>1, <2>3, <3>1, <3>2, LoadsKeepsOrder
  <2>5. CASE ~ FlushDue
    BY <1>1, <1>3, <1>5, <2>1, <2>5
  <2> QED
    BY <2>4, <2>5
<1>10. Unread(rcache') \in Seq(Bytes) /\ Rest(rcache'.pos) \in Seq(Bytes)
  BY <1>3, <1>9, UnreadType, RestType
<1> HIDE DEF r
<1>11. CASE rcache.open
  <2>1. received \o Pending' \in Seq(Bytes)
    BY <1>3, <1>8, ConcatProperties
  <2>2. received \o Pending' \o Unread(r) \o Rest(r.pos)
          = (received \o Pending') \o (Unread(r) \o Rest(r.pos))
    BY <1>6, <2>1, ConcatAssociative
  <2>3. received \o Pending' \o Unread(rcache') \o Rest(rcache'.pos)
          = (received \o Pending') \o (Unread(rcache') \o Rest(rcache'.pos))
    <3> DEFINE a == received \o Pending'
               u == Unread(rcache')
               v == Rest(rcache'.pos)
    <3>1. a \in Seq(Bytes) /\ u \in Seq(Bytes) /\ v \in Seq(Bytes)
      BY <1>10, <2>1
    <3> HIDE DEF a, u, v
    <3>2. (a \o u) \o v = a \o (u \o v)
      BY <3>1, ConcatAssociative
    <3> QED
      BY <3>2 DEF a, u, v
  <2>4. received \o Pending' \o Unread(rcache') \o Rest(rcache'.pos) = all
    BY <1>7, <1>9, <1>11, <2>2, <2>3
  <2>5. rcache'.open /\ from' = from
    BY <1>1, <1>9, <1>11
  <2> QED
    BY <1>1, <1>2, <1>3, <2>4, <2>5 DEF Ordered, NothingRead, Opening, InputInOrder, Rest
<1>12. CASE ~ rcache.open
  <2>1. ~ Receives /\ ~ uart'.ssf
    BY <1>2, <1>4, <1>12, ServicePending
  <2>2. received = <<>> /\ Pending' = <<>> /\ Unread(rcache') = <<>>
    BY <1>2, <1>9, <1>12, <2>1, UnreadEmpty DEF Pending
  <2>3. rcache'.open => /\ Rest(rcache'.pos) = <<>> /\ from' = Len(infile)
                        /\ SubSeq(infile, Len(infile) + 1, Len(infile)) = <<>>
    BY <1>1, <1>3, <1>9, <1>12, RestType DEF Rest
  <2>4. <<>> \o <<>> \o <<>> \o <<>> = <<>>
    BY <1>3, EmptySeq, ConcatEmptySeq
  <2>5. from' <= Len(infile')
    BY <1>1, <1>3
  <2> QED
    BY <1>1, <1>2, <1>9, <1>12, <2>1, <2>2, <2>3, <2>4, <2>5
    DEF Ordered, NothingRead, Opening, InputInOrder, Rest
<1> QED
  BY <1>11, <1>12

(* A step that leaves the input where it is.                                   *)
LEMMA InputStays ==
  ASSUME InInv, UNCHANGED <<path, fifo, rcache, infile, received, typed, from>>,
         Pending' = Pending, uart'.ssf => uart.ssf
  PROVE  Ordered'
<1>1. NothingRead' /\ Opening' /\ Ring(fifo)'
  BY DEF InInv, NothingRead, Opening
<1>2. InputInOrder'
  BY DEF InInv, InputInOrder
<1> QED
  BY <1>1, <1>2 DEF Ordered

(* The guest takes UD1RX, and clears SSF only then.                            *)
LEMMA GuestOrdered ==
  ASSUME InInv, Guest
  PROVE  Ordered'
<1>1. uart \in UartType /\ uart.rx \in Bytes
  BY TypeFacts DEF InInv, TInv, TypeOK, Bytes
<1>2. CASE WriteTX(Len(written) + 1)
  <2>1. uart' = [uart EXCEPT !.send = TRUE, !.busy = TRUE]
    BY <1>2 DEF WriteTX
  <2>2. uart'.ssf = uart.ssf /\ uart'.rx = uart.rx
    BY <1>1, <2>1 DEF UartType
  <2>3. taken' = taken /\ UNCHANGED <<path, fifo, rcache, infile, received, typed, from>>
    BY <1>2 DEF WriteTX
  <2> QED
    BY <2>2, <2>3, InputStays DEF Pending
<1>3. CASE ReadRX
  <2>1. /\ uart.ssf /\ ~ taken /\ taken' /\ uart' = uart
        /\ received' = Append(received, uart.rx)
        /\ UNCHANGED <<path, fifo, rcache, infile, typed, from>>
    BY <1>3 DEF ReadRX
  <2>2. Pending = <<uart.rx>> /\ Pending' = <<>>
    BY <2>1 DEF Pending
  <2>3. ASSUME NEW c \in Seq(Bytes)
        PROVE  received \o Pending \o c = received' \o Pending' \o c
    <3>1. received \in Seq(Bytes)
      BY InInvParts
    <3>2. received \o <<uart.rx>> \o c = Append(received, uart.rx) \o <<>> \o c
      BY <1>1, <3>1, HandedOver
    <3> QED
      BY <2>1, <2>2, <3>2
  <2>4. path => rcache.open
    BY <2>1 DEF InInv, NothingRead
  <2>5. Unread(rcache) \in Seq(Bytes) /\ Queue(fifo) \in Seq(Bytes)
    BY InInvParts, UnreadType, QueueType
  <2>6. InputInOrder'
    BY <2>1, <2>3, <2>4, <2>5 DEF InInv, InputInOrder
  <2>7. NothingRead' /\ Opening' /\ Ring(fifo)'
    BY <2>1, <2>4 DEF InInv, NothingRead, Opening
  <2> QED
    BY <2>6, <2>7 DEF Ordered
<1>4. CASE ClearSSF
  <2>1. /\ uart.ssf /\ taken /\ taken' = taken /\ uart' = [uart EXCEPT !.ssf = FALSE]
        /\ UNCHANGED <<path, fifo, rcache, infile, received, typed, from>>
    BY <1>4 DEF ClearSSF, history
  <2>2. Pending' = Pending
    BY <2>1 DEF Pending
  <2> QED
    BY <2>1, <2>2, InputStays
<1>5. CASE OtherInstruction
  <2>1. UNCHANGED <<path, uart, fifo, rcache, infile, taken, received, typed, from>>
    BY <1>5 DEF OtherInstruction, history
  <2> QED
    BY <2>1, InputStays DEF Pending
<1> QED
  BY <1>2, <1>3, <1>4, <1>5 DEF Guest

(* The host adds a byte behind all others.                                     *)
LEMMA HostOrdered ==
  ASSUME InInv, HostAppends(Len(infile) + 1) \/ HostTypes(Len(typed) + 1)
  PROVE  Ordered'
<1>1. /\ received \in Seq(Bytes) /\ Pending \in Seq(Bytes) /\ typed \in Seq(Bytes)
      /\ infile \in Seq(Bytes) /\ Len(infile) \in Nat
      /\ rcache \in ReaderType /\ rcache.off + rcache.count <= Size
      /\ rcache.pos \in Nat /\ rcache.pos <= Len(infile)
      /\ from \in Nat /\ from <= Len(infile) /\ fifo \in FifoType
  BY InInvParts
<1>2. received \o Pending \in Seq(Bytes) /\ <<>> \in Seq(Bytes)
  BY <1>1, ConcatProperties, EmptySeq
<1>3. CASE HostAppends(Len(infile) + 1)
  <2> DEFINE b == Len(infile) + 1
             x == received \o Pending \o Unread(rcache)
             y == Rest(rcache.pos)
  <2>1. /\ path /\ infile' = Append(infile, b)
        /\ UNCHANGED <<path, uart, fifo, rcache, taken, received, typed, from>>
    BY <1>3 DEF HostAppends, history
  <2>2. b \in Bytes
    BY <1>1, <1>3, Sizes DEF HostAppends, Bytes
  <2>3. Pending' = Pending
    BY <2>1 DEF Pending
  <2>4. x \in Seq(Bytes) /\ y \in Seq(Bytes) /\ <<b>> \in Seq(Bytes)
    BY <1>1, <1>2, <2>2, UnreadType, RestType, ConcatProperties, OneByte
  <2>5. rcache.open => x \o y = Rest(from)
    BY <2>1 DEF InInv, InputInOrder, Rest
  <2> HIDE DEF b
  <2>6. /\ SubSeq(infile', rcache.pos + 1, Len(infile')) = y \o <<b>>
        /\ SubSeq(infile', from + 1, Len(infile')) = Rest(from) \o <<b>>
    BY <1>1, <2>1, <2>2, RestGrows
  <2> HIDE DEF x, y
  <2>7. x \o (y \o <<b>>) = (x \o y) \o <<b>>
    BY <2>4, ConcatAssociative
  <2>8. rcache.open => x \o SubSeq(infile', rcache.pos + 1, Len(infile'))
                         = SubSeq(infile', from + 1, Len(infile'))
    BY <2>5, <2>6, <2>7
  <2>9. InputInOrder'
    BY <2>1, <2>3, <2>8 DEF InputInOrder, x
  <2>10. Len(infile') = Len(infile) + 1
    BY <1>1, <2>1, <2>2, AppendProperties
  <2>11. from <= Len(infile')
    BY <1>1, <2>10
  <2>12. NothingRead' /\ Opening' /\ Ring(fifo)'
    BY <2>1, <2>11 DEF InInv, NothingRead, Opening
  <2> QED
    BY <2>9, <2>12 DEF Ordered
<1>4. CASE HostTypes(Len(typed) + 1)
  <2> DEFINE b == Len(typed) + 1
             x == received \o Pending
             q == Queue(fifo)
  <2>1. /\ ~ path /\ fifo.count < Size
        /\ fifo' = PutOne(fifo, b) /\ typed' = Append(typed, b)
        /\ UNCHANGED <<path, uart, rcache, infile, taken, received, from>>
    BY <1>4 DEF HostTypes
  <2>2. b \in Bytes
    BY <1>1, <1>4, LenProperties, Sizes DEF HostTypes, Bytes
  <2>3. Pending' = Pending
    BY <2>1 DEF Pending
  <2>4. x \in Seq(Bytes) /\ q \in Seq(Bytes) /\ <<b>> \in Seq(Bytes)
    BY <1>1, <1>2, <2>2, QueueType, OneByte
  <2>5. x \o q = typed
    BY <2>1 DEF InInv, InputInOrder
  <2>6. Ring(fifo)
    BY DEF InInv
  <2> HIDE DEF b
  <2>7. Queue(fifo') = q \o <<b>> /\ Ring(fifo')
    BY <1>1, <2>1, <2>2, <2>6, QueueLast
  <2>8. typed' = typed \o <<b>>
    BY <1>1, <2>1, <2>2, AppendIsConcat
  <2> HIDE DEF x, q
  <2>9. x \o (q \o <<b>>) = (x \o q) \o <<b>>
    BY <2>4, ConcatAssociative
  <2>10. x \o Queue(fifo') = typed'
    BY <2>5, <2>7, <2>8, <2>9
  <2>11. InputInOrder'
    BY <2>1, <2>3, <2>10 DEF InputInOrder, x
  <2>12. NothingRead' /\ Opening'
    BY <2>1 DEF InInv, NothingRead, Opening
  <2> QED
    BY <2>7, <2>11, <2>12 DEF Ordered
<1> QED
  BY <1>3, <1>4

(* device_reset forgets what is to be sent, not what was received.             *)
LEMMA ResetOrdered ==
  ASSUME InInv, DeviceReset
  PROVE  Ordered'
<1>1. uart \in UartType
  BY DEF InInv, TInv, TypeOK
<1>2. uart' = [uart EXCEPT !.send = FALSE, !.wait = 0, !.flush = 0]
  BY DEF DeviceReset
<1>3. uart'.ssf = uart.ssf /\ uart'.rx = uart.rx
  BY <1>1, <1>2 DEF UartType
<1>4. taken' = taken /\ UNCHANGED <<path, fifo, rcache, infile, received, typed, from>>
  BY DEF DeviceReset
<1> QED
  BY <1>3, <1>4, InputStays DEF Pending

LEMMA InitInInv ==
  ASSUME Init
  PROVE  InInv
<1>1. TInv
  BY InitType
<1>2. /\ received = <<>> /\ uart.ssf = FALSE /\ typed = <<>> /\ infile = <<>> /\ from = 0
      /\ rcache.open = FALSE /\ rcache.count = 0
      /\ fifo.count = 0 /\ fifo.wr = 0 /\ fifo.rd = 0
  BY DEF Init, NewUart, NewReader, NewFifo
<1>3. fifo \in FifoType
  BY <1>1 DEF TInv, TypeOK
<1>4. <<>> \in Seq(Bytes) /\ Len(<<>>) = 0
  BY EmptySeq
<1>5. Queue(fifo) = <<>>
  BY <1>2, <1>3, QueueType, EmptySeq
<1>6. Pending = <<>>
  BY <1>2 DEF Pending
<1>7. <<>> \o <<>> \o <<>> = <<>>
  BY <1>4, ConcatEmptySeq
<1>8. InputInOrder
  BY <1>2, <1>5, <1>6, <1>7 DEF InputInOrder
<1>9. NothingRead /\ Opening /\ Ring(fifo)
  BY <1>2, <1>4, Sizes DEF NothingRead, Opening, Ring
<1> QED
  BY <1>1, <1>8, <1>9 DEF InInv

LEMMA NextInInv ==
  ASSUME InInv, [Next]_vars
  PROVE  InInv'
<1>1. TInv'
  BY NextType DEF InInv
<1>2. Ordered'
  <2>1. CASE Service
    BY <2>1, ServiceRing, ServiceFile
  <2>2. CASE UNCHANGED vars
    <3>1. /\ UNCHANGED <<path, uart, fifo, rcache, infile, taken>>
          /\ UNCHANGED <<received, typed, from>>
      BY <2>2 DEF vars, history
    <3> QED
      BY <3>1, InputStays DEF Pending
  <2> QED
    BY <2>1, <2>2, GuestOrdered, HostOrdered, ResetOrdered DEF Next
<1> QED
  BY <1>1, <1>2 DEF InInv, Ordered

(* Every byte that the host writes, into the file once it is open or into the  *)
(* ring buffer, reaches the guest once and in order.                           *)
THEOREM HostInOrder == Spec => []InputInOrder
<1>1. Init => InInv
  BY InitInInv
<1>2. InInv /\ [Next]_vars => InInv'
  BY NextInInv
<1>3. InInv => InputInOrder
  BY DEF InInv
<1> QED
  BY <1>1, <1>2, <1>3, PTL DEF Spec
=============================================================================
