---------------------------- MODULE SerialProofs ----------------------------
(***************************************************************************)
(* What holds of Serial for every size of the caches and every count: its  *)
(* types, and that no byte of the output is lost where the write cache is  *)
(* flushed before it is full.  CacheSuffices says when it is: the code has *)
(* no guard of its own (Put).                                              *)
(***************************************************************************)
EXTENDS Serial, SequenceTheorems, TLAPS

(* The build clocks the channel, and between two flushes the guest cannot fill *)
(* the cache: Threshold - 1 bytes may stay at a flush, FlushMax + 1 bytes come *)
(* before the next one, and a reset starts the count of the services again.    *)
CacheSuffices == Served /\ Threshold + (MaxResets + 1) * FlushMax <= Size

(* The type invariant is inductive together with the bounds on what was        *)
(* written and with the place up to which the input file has been read.        *)
Bounded ==
  /\ Len(written) <= MaxOut
  /\ Len(infile) <= MaxIn
  /\ Len(typed) <= MaxIn
  /\ rcache.pos <= Len(infile)

TInv == TypeOK /\ Bounded

-----------------------------------------------------------------------------
(* Types.                                                                      *)

(* The constants as the provers want them.                                     *)
LEMMA Sizes ==
  /\ Size \in Nat /\ Size >= 1
  /\ Threshold \in Nat /\ Threshold >= 1 /\ Threshold <= Size
  /\ WCheckMax \in Nat /\ WCheckMax >= 1
  /\ RCheckMax \in Nat /\ RCheckMax >= 1
  /\ FlushMax \in Nat /\ RaiseWait \in Nat
  /\ MaxOut \in Nat /\ MaxIn \in Nat /\ MaxResets \in Nat
  BY SerialAssumption

(* What an assignment to fields of a write cache makes of it.                  *)
LEMMA CacheSetCheck ==
  ASSUME NEW w \in CacheType, NEW k \in 0 .. WCheckMax - 1, NEW v, v = [w EXCEPT !.check = k]
  PROVE  v \in CacheType /\ v.buf = w.buf /\ v.count = w.count
  BY DEF CacheType

LEMMA CacheSetCount ==
  ASSUME NEW w \in CacheType, NEW c \in 0 .. Size, NEW v, v = [w EXCEPT !.count = c]
  PROVE  v \in CacheType /\ v.buf = w.buf /\ v.count = c
  BY DEF CacheType

LEMMA CacheSetBuffer ==
  ASSUME NEW w \in CacheType, NEW b \in Buffer(MaxOut), NEW v, v = [w EXCEPT !.buf = b]
  PROVE  v \in CacheType /\ v.buf = b /\ v.count = w.count
  BY DEF CacheType

(* file_cache_flush.                                                           *)
LEMMA FlushedType ==
  ASSUME NEW w \in CacheType
  PROVE  /\ Flushed(w) \in CacheType
         /\ Flushed(w).buf = w.buf
         /\ Flushed(w).count = IF w.count = 0 \/ Flushes(w) THEN 0 ELSE w.count
<1>1. w.buf \in Buffer(MaxOut) /\ w.count \in 0 .. Size /\ w.check \in 0 .. WCheckMax - 1
  BY DEF CacheType
<1>2. CASE w.count = 0
  BY <1>2 DEF Flushed
<1>3. CASE w.count # 0 /\ Flushes(w)
  <2> DEFINE k == IF w.count < Threshold THEN 0 ELSE w.check
             v == [w EXCEPT !.count = 0]
  <2>1. Flushed(w) = [v EXCEPT !.check = k]
    BY <1>3 DEF Flushed
  <2>2. 0 \in 0 .. Size /\ k \in 0 .. WCheckMax - 1
    BY <1>1, Sizes
  <2>3. v \in CacheType /\ v.buf = w.buf /\ v.count = 0
    BY <2>2, CacheSetCount
  <2>4. Flushed(w) \in CacheType /\ Flushed(w).buf = w.buf /\ Flushed(w).count = 0
    <3> HIDE DEF k, v
    <3> QED
      BY <2>1, <2>2, <2>3, CacheSetCheck
  <2> QED
    BY <1>3, <2>4
<1>4. CASE w.count # 0 /\ ~ Flushes(w)
  <2>1. Flushed(w) = [w EXCEPT !.check = w.check + 1]
    BY <1>4 DEF Flushed
  <2>2. w.check + 1 \in 0 .. WCheckMax - 1
    BY <1>1, <1>4, Sizes DEF Flushes
  <2>3. Flushed(w) \in CacheType /\ Flushed(w).buf = w.buf /\ Flushed(w).count = w.count
    BY <2>1, <2>2, CacheSetCheck
  <2> QED
    BY <1>4, <2>3
<1> QED
  BY <1>2, <1>3, <1>4

(* file_cache_write, with room in the cache.                                   *)
LEMMA PutRoom ==
  ASSUME NEW w \in CacheType, NEW b \in 0 .. MaxOut, w.count # Size
  PROVE  /\ Put(w, b) \in CacheType
         /\ Put(w, b).buf = [w.buf EXCEPT ![w.count] = b]
         /\ Put(w, b).count = w.count + 1
<1>1. w.buf \in Buffer(MaxOut) /\ w.count \in 0 .. Size
  BY DEF CacheType
<1> DEFINE g == [w.buf EXCEPT ![w.count] = b]
           v == [w EXCEPT !.buf = g]
<1>2. Put(w, b) = [v EXCEPT !.count = w.count + 1]
  BY DEF Put
<1>3. g \in Buffer(MaxOut)
  BY <1>1 DEF Buffer
<1>4. w.count + 1 \in 0 .. Size
  BY <1>1, Sizes
<1> HIDE DEF g
<1>5. v \in CacheType /\ v.buf = g /\ v.count = w.count
  BY <1>3, CacheSetBuffer
<1> HIDE DEF v
<1>6. /\ Put(w, b) \in CacheType
      /\ Put(w, b).buf = g
      /\ Put(w, b).count = w.count + 1
  BY <1>2, <1>4, <1>5, CacheSetCount
<1> QED
  BY <1>6 DEF g

(* It stays inside of the types even when the cache is full.                   *)
LEMMA PutType ==
  ASSUME NEW w \in CacheType, NEW b \in 0 .. MaxOut
  PROVE  Put(w, b) \in CacheType
<1>1. CASE w.count = Size
  <2>1. Put(w, b) = [Flushed(w) EXCEPT !.count = 1]
    BY <1>1 DEF Put
  <2>2. 1 \in 0 .. Size
    BY Sizes
  <2> QED
    BY <2>1, <2>2, FlushedType, CacheSetCount
<1>2. CASE w.count # Size
  BY <1>2, PutRoom
<1> QED
  BY <1>1, <1>2

-----------------------------------------------------------------------------
(* What an assignment to fields of the reader makes of it.                     *)
LEMMA ReaderSetOpen ==
  ASSUME NEW r \in ReaderType, NEW s, s = [r EXCEPT !.open = TRUE]
  PROVE  s \in ReaderType /\ s.off = r.off /\ s.count = r.count /\ s.pos = r.pos
  BY DEF ReaderType

LEMMA ReaderSetCheck ==
  ASSUME NEW r \in ReaderType, NEW k \in 0 .. RCheckMax - 1, NEW s, s = [r EXCEPT !.check = k]
  PROVE  s \in ReaderType /\ s.off = r.off /\ s.count = r.count /\ s.pos = r.pos
  BY DEF ReaderType

LEMMA ReaderSetPos ==
  ASSUME NEW r \in ReaderType, NEW p \in 0 .. MaxIn, NEW s, s = [r EXCEPT !.pos = p]
  PROVE  s \in ReaderType /\ s.off = r.off /\ s.count = r.count /\ s.pos = p
  BY DEF ReaderType

LEMMA ReaderSetCount ==
  ASSUME NEW r \in ReaderType, NEW c \in 0 .. Size, NEW s, s = [r EXCEPT !.count = c]
  PROVE  s \in ReaderType /\ s.off = r.off /\ s.count = c /\ s.pos = r.pos
  BY DEF ReaderType

LEMMA ReaderSetOff ==
  ASSUME NEW r \in ReaderType, NEW o \in 0 .. Size, NEW s, s = [r EXCEPT !.off = o]
  PROVE  s \in ReaderType /\ s.off = o /\ s.count = r.count /\ s.pos = r.pos
  BY DEF ReaderType

LEMMA ReaderSetBuffer ==
  ASSUME NEW r \in ReaderType, NEW b \in Buffer(MaxIn), NEW s, s = [r EXCEPT !.buf = b]
  PROVE  s \in ReaderType /\ s.off = r.off /\ s.count = r.count /\ s.pos = r.pos
  BY DEF ReaderType

(* my_file_ropen: the file is read from its end on.                            *)
LEMMA OpenedType ==
  ASSUME NEW r \in ReaderType, Len(infile) \in 0 .. MaxIn, r.pos <= Len(infile)
  PROVE  /\ Opened(r) \in ReaderType
         /\ Opened(r).off = r.off /\ Opened(r).count = r.count
         /\ Opened(r).pos <= Len(infile)
<1>1. /\ r.buf \in Buffer(MaxIn) /\ r.count \in 0 .. Size /\ r.off \in 0 .. Size
      /\ r.check \in 0 .. RCheckMax - 1
  BY DEF ReaderType
<1>2. CASE r.open
  BY <1>2 DEF Opened
<1>3. CASE ~ r.open
  <2> DEFINE v == [r EXCEPT !.open = TRUE]
  <2>1. Opened(r) = [v EXCEPT !.pos = Len(infile)]
    BY <1>3 DEF Opened
  <2>2. v \in ReaderType /\ v.off = r.off /\ v.count = r.count
    BY ReaderSetOpen
  <2> HIDE DEF v
  <2>3. /\ Opened(r) \in ReaderType
        /\ Opened(r).off = r.off /\ Opened(r).count = r.count
        /\ Opened(r).pos = Len(infile)
    BY <2>1, <2>2, ReaderSetPos
  <2> QED
    BY <2>3
<1> QED
  BY <1>2, <1>3

(* n bytes that the file has and the buffer has room for.                      *)
LEMMA FilledType ==
  ASSUME infile \in Seq(1 .. MaxIn), Len(infile) \in 0 .. MaxIn,
         NEW r \in ReaderType, r.pos <= Len(infile),
         NEW n \in 1 .. Room(r), n <= Len(infile) - Opened(r).pos
  PROVE  /\ Filled(r, n) \in ReaderType
         /\ Filled(r, n).off + Filled(r, n).count <= Size
         /\ Filled(r, n).pos <= Len(infile)
<1> DEFINE o == Opened(r)
           f == IF o.off >= Size THEN 0 ELSE o.off
           g == [k \in 0 .. Size - 1 |-> IF k \in f .. f + n - 1
                                         THEN infile[o.pos + 1 + k - f] ELSE o.buf[k]]
<1>1. o \in ReaderType /\ o.off = r.off
  BY OpenedType
<1>2. o.buf \in Buffer(MaxIn) /\ o.off \in 0 .. Size /\ o.pos \in 0 .. MaxIn
  BY <1>1 DEF ReaderType
<1>3. f \in 0 .. Size /\ n \in 0 .. Size /\ f + n <= Size
  BY <1>1, <1>2, Sizes DEF Room
<1>4. o.pos + n \in 0 .. MaxIn /\ o.pos + n <= Len(infile) /\ 0 \in 0 .. RCheckMax - 1
  BY <1>2, <1>3, Sizes
<1> DEFINE v1 == [o EXCEPT !.buf = g]
           v2 == [v1 EXCEPT !.off = f]
           v3 == [v2 EXCEPT !.count = n]
           v4 == [v3 EXCEPT !.pos = o.pos + n]
<1>5. Filled(r, n) = [v4 EXCEPT !.check = 0]
  BY DEF Filled
<1> HIDE DEF o, f
<1>6. g \in Buffer(MaxIn)
  <2> SUFFICES ASSUME NEW k \in 0 .. Size - 1
               PROVE  (IF k \in f .. f + n - 1 THEN infile[o.pos + 1 + k - f] ELSE o.buf[k])
                        \in 0 .. MaxIn
    BY DEF Buffer
  <2>1. CASE k \in f .. f + n - 1
    <3>1. o.pos + 1 + k - f \in 1 .. Len(infile)
      BY <1>2, <1>3, <1>4, <2>1
    <3>2. infile[o.pos + 1 + k - f] \in 1 .. MaxIn
      BY <3>1, ElementOfSeq
    <3> QED
      BY <2>1, <3>2
  <2>2. CASE k \notin f .. f + n - 1
    <3>1. o.buf[k] \in 0 .. MaxIn
      BY <1>2 DEF Buffer
    <3> QED
      BY <2>2, <3>1
  <2> QED
    BY <2>1, <2>2
<1> HIDE DEF g
<1>7. /\ Filled(r, n) \in ReaderType
      /\ Filled(r, n).off = f /\ Filled(r, n).count = n /\ Filled(r, n).pos = o.pos + n
  <2>1. v1 \in ReaderType
    BY <1>1, <1>6, ReaderSetBuffer
  <2> HIDE DEF v1
  <2>2. v2 \in ReaderType /\ v2.off = f
    BY <1>3, <2>1, ReaderSetOff
  <2> HIDE DEF v2
  <2>3. v3 \in ReaderType /\ v3.off = f /\ v3.count = n
    BY <1>3, <2>2, ReaderSetCount
  <2> HIDE DEF v3
  <2>4. v4 \in ReaderType /\ v4.off = f /\ v4.count = n /\ v4.pos = o.pos + n
    BY <1>4, <2>3, ReaderSetPos
  <2> HIDE DEF v4
  <2> QED
    BY <1>4, <1>5, <2>4, ReaderSetCheck
<1> QED
  BY <1>3, <1>4, <1>7

(* file_cache_load reads no further than the file reaches and than the buffer  *)
(* does.                                                                       *)
LEMMA LoadsType ==
  ASSUME infile \in Seq(1 .. MaxIn), Len(infile) \in 0 .. MaxIn,
         NEW r \in ReaderType, r.off + r.count <= Size, r.pos <= Len(infile),
         NEW s \in Loads(r)
  PROVE  /\ s \in ReaderType
         /\ s.off + s.count <= Size
         /\ s.pos <= Len(infile)
<1>1. /\ r.buf \in Buffer(MaxIn) /\ r.count \in 0 .. Size /\ r.off \in 0 .. Size
      /\ r.check \in 0 .. RCheckMax - 1 /\ r.pos \in 0 .. MaxIn
  BY DEF ReaderType
<1>2. CASE r.count > 0
  BY <1>2 DEF Loads
<1>3. CASE ~ (r.count > 0) /\ r.check + 1 < RCheckMax
  <2>1. s = [r EXCEPT !.check = r.check + 1]
    BY <1>3 DEF Loads
  <2>2. r.check + 1 \in 0 .. RCheckMax - 1
    BY <1>1, <1>3, Sizes
  <2>3. s \in ReaderType /\ s.off = r.off /\ s.count = r.count /\ s.pos = r.pos
    BY <2>1, <2>2, ReaderSetCheck
  <2> QED
    BY <2>3
<1>4. CASE /\ ~ (r.count > 0)
           /\ ~ (r.check + 1 < RCheckMax)
           /\ Len(infile) - Opened(r).pos <= 0
  <2>1. s = [Opened(r) EXCEPT !.check = 0]
    BY <1>4 DEF Loads
  <2>2. 0 \in 0 .. RCheckMax - 1
    BY Sizes
  <2>3. /\ s \in ReaderType
        /\ s.off = Opened(r).off /\ s.count = Opened(r).count /\ s.pos = Opened(r).pos
    BY <2>1, <2>2, ReaderSetCheck, OpenedType
  <2> QED
    BY <2>3, OpenedType
<1>5. CASE /\ ~ (r.count > 0)
           /\ ~ (r.check + 1 < RCheckMax)
           /\ ~ (Len(infile) - Opened(r).pos <= 0)
  <2>1. PICK n \in 1 .. Room(r) : n <= Len(infile) - Opened(r).pos /\ s = Filled(r, n)
    BY <1>5 DEF Loads
  <2> QED
    BY <2>1, FilledType
<1> QED
  BY <1>2, <1>3, <1>4, <1>5

(* file_cache_read.                                                            *)
LEMMA ReadOneType ==
  ASSUME NEW r \in ReaderType, r.off + r.count <= Size, r.count > 0
  PROVE  /\ ReadOne(r) \in ReaderType
         /\ ReadOne(r).off + ReadOne(r).count <= Size
         /\ ReadOne(r).pos = r.pos
<1> DEFINE v == [r EXCEPT !.count = r.count - 1]
<1>1. r.count \in 0 .. Size /\ r.off \in 0 .. Size
  BY DEF ReaderType
<1>2. r.count - 1 \in 0 .. Size /\ r.off + 1 \in 0 .. Size
  BY <1>1, Sizes
<1>3. v \in ReaderType /\ v.count = r.count - 1 /\ v.off = r.off /\ v.pos = r.pos
  BY <1>2, ReaderSetCount
<1>4. ReadOne(r) = [v EXCEPT !.off = r.off + 1]
  BY DEF ReadOne
<1> HIDE DEF v
<1>5. /\ ReadOne(r) \in ReaderType
      /\ ReadOne(r).off = r.off + 1 /\ ReadOne(r).count = v.count /\ ReadOne(r).pos = v.pos
  BY <1>2, <1>3, <1>4, ReaderSetOff
<1> QED
  BY <1>1, <1>3, <1>5, Sizes

-----------------------------------------------------------------------------
(* The steps and the types.                                                    *)

(* The initial state.                                                          *)
LEMMA InitType == Init => TInv
<1> SUFFICES ASSUME Init PROVE TInv
  OBVIOUS
<1> USE Sizes DEF Init
<1>1. [k \in 0 .. Size - 1 |-> 0] \in Buffer(MaxOut) /\ [k \in 0 .. Size - 1 |-> 0] \in Buffer(MaxIn)
  BY DEF Buffer
<1>2. fifo \in FifoType
  BY <1>1 DEF NewFifo, FifoType
<1>3. wcache \in CacheType
  BY <1>1 DEF NewCache, CacheType
<1>4. rcache \in ReaderType /\ rcache.off = 0 /\ rcache.count = 0 /\ rcache.pos = 0
  BY <1>1 DEF NewReader, ReaderType
<1>5. uart \in UartType
  BY DEF NewUart, UartType
<1>6. \A S : <<>> \in Seq(S) /\ Len(<<>>) = 0
  BY EmptySeq
<1>7. Len(infile) = 0 /\ Len(written) = 0 /\ Len(typed) = 0
  BY <1>6
<1>8. Bounded
  BY <1>4, <1>7 DEF Bounded
<1>9. /\ outfile \in Seq(0 .. MaxOut) /\ infile \in Seq(1 .. MaxIn)
      /\ written \in Seq(1 .. MaxOut) /\ received \in Seq(0 .. MaxIn) /\ typed \in Seq(1 .. MaxIn)
  BY <1>6
<1>10. path \in BOOLEAN /\ turn \in {"device", "core"} /\ taken \in BOOLEAN
  BY Zenon
<1>12. from \in 0 .. MaxIn /\ resets \in 0 .. MaxResets
  OBVIOUS
<1>11. rcache.off + rcache.count <= Size
  BY <1>4
<1> QED
  BY <1>2, <1>3, <1>4, <1>5, <1>8, <1>9, <1>10, <1>11, <1>12 DEF TInv, TypeOK

(* The parts of the invariant as facts about the state.                        *)
LEMMA TypeFacts ==
  ASSUME TInv
  PROVE  /\ uart.ssf \in BOOLEAN /\ uart.rx \in 0 .. MaxIn /\ uart.busy \in BOOLEAN
         /\ uart.send \in BOOLEAN /\ uart.wait \in 0 .. RaiseWait /\ uart.flush \in 0 .. FlushMax
         /\ fifo.buf \in Buffer(MaxIn) /\ fifo.count \in 0 .. Size
         /\ fifo.wr \in 0 .. Size - 1 /\ fifo.rd \in 0 .. Size - 1
         /\ wcache.buf \in Buffer(MaxOut) /\ wcache.count \in 0 .. Size
         /\ rcache.buf \in Buffer(MaxIn) /\ rcache.count \in 0 .. Size /\ rcache.off \in 0 .. Size
         /\ rcache.off + rcache.count <= Size
<1>1. uart \in UartType /\ fifo \in FifoType /\ wcache \in CacheType /\ rcache \in ReaderType
      /\ rcache.off + rcache.count <= Size
  BY DEF TInv, TypeOK
<1>2. /\ uart.ssf \in BOOLEAN /\ uart.rx \in 0 .. MaxIn /\ uart.busy \in BOOLEAN
      /\ uart.send \in BOOLEAN /\ uart.wait \in 0 .. RaiseWait /\ uart.flush \in 0 .. FlushMax
  BY <1>1 DEF UartType
<1>3. /\ fifo.buf \in Buffer(MaxIn) /\ fifo.count \in 0 .. Size
      /\ fifo.wr \in 0 .. Size - 1 /\ fifo.rd \in 0 .. Size - 1
  BY <1>1 DEF FifoType
<1>4. wcache.buf \in Buffer(MaxOut) /\ wcache.count \in 0 .. Size
  BY <1>1 DEF CacheType
<1>5. rcache.buf \in Buffer(MaxIn) /\ rcache.count \in 0 .. Size /\ rcache.off \in 0 .. Size
  BY <1>1 DEF ReaderType
<1> QED
  BY <1>1, <1>2, <1>3, <1>4, <1>5

(* The bytes of the write cache.                                               *)
LEMMA CachedType ==
  ASSUME NEW w \in CacheType
  PROVE  Cached(w) \in Seq(0 .. MaxOut) /\ Len(Cached(w)) = w.count
<1>1. w.count \in Nat /\ w.count <= Size /\ w.buf \in Buffer(MaxOut)
  BY Sizes DEF CacheType
<1>2. \A k \in 1 .. w.count : w.buf[k - 1] \in 0 .. MaxOut
  BY <1>1, Sizes DEF Buffer
<1>3. Cached(w) \in [1 .. w.count -> 0 .. MaxOut]
  BY <1>2 DEF Cached
<1>4. Cached(w) \in Seq(0 .. MaxOut)
  BY <1>1, <1>3, SeqDef
<1>5. DOMAIN Cached(w) = 1 .. w.count
  BY DEF Cached
<1> QED
  BY <1>1, <1>4, <1>5, LenProperties

(* A byte out of a buffer.                                                     *)
LEMMA BufferByte ==
  ASSUME NEW max, NEW b \in Buffer(max), NEW k \in 0 .. Size - 1
  PROVE  b[k] \in 0 .. max
  BY DEF Buffer

(* dbg_serial_getchar takes what is there.                                     *)
LEMMA GetOneType ==
  ASSUME NEW f \in FifoType, f.count > 0
  PROVE  GetOne(f) \in FifoType
<1>1. f.buf \in Buffer(MaxIn) /\ f.count \in 0 .. Size /\ f.rd \in 0 .. Size - 1
  BY DEF FifoType
<1> DEFINE v == [f EXCEPT !.count = f.count - 1]
           d == IF f.rd + 1 >= Size THEN 0 ELSE f.rd + 1
<1>2. f.count - 1 \in 0 .. Size /\ d \in 0 .. Size - 1
  BY <1>1, Sizes
<1>3. v \in FifoType
  <2>1. ASSUME NEW c \in 0 .. Size PROVE [f EXCEPT !.count = c] \in FifoType
    BY DEF FifoType
  <2> QED
    BY <1>2, <2>1
<1>4. GetOne(f) = [v EXCEPT !.rd = d]
  BY DEF GetOne
<1> HIDE DEF v, d
<1> QED
  <2>1. ASSUME NEW e \in 0 .. Size - 1 PROVE [v EXCEPT !.rd = e] \in FifoType
    BY <1>3 DEF FifoType
  <2> QED
    BY <1>2, <1>4, <2>1

(* dbg_serial_in puts a byte where there is room.                              *)
LEMMA PutOneType ==
  ASSUME NEW f \in FifoType, f.count < Size, NEW b \in 0 .. MaxIn
  PROVE  PutOne(f, b) \in FifoType
<1>1. f.buf \in Buffer(MaxIn) /\ f.count \in 0 .. Size /\ f.wr \in 0 .. Size - 1
  BY DEF FifoType
<1> DEFINE g == [f.buf EXCEPT ![f.wr] = b]
           v == [f EXCEPT !.buf = g]
           u == [v EXCEPT !.count = f.count + 1]
           d == IF f.wr + 1 >= Size THEN 0 ELSE f.wr + 1
<1>2. f.count + 1 \in 0 .. Size /\ d \in 0 .. Size - 1
  BY <1>1, Sizes
<1>3. g \in Buffer(MaxIn)
  BY <1>1 DEF Buffer
<1>4. PutOne(f, b) = [u EXCEPT !.wr = d]
  BY DEF PutOne
<1> HIDE DEF d, g
<1>5. v \in FifoType
  <2>1. ASSUME NEW e \in Buffer(MaxIn) PROVE [f EXCEPT !.buf = e] \in FifoType
    BY DEF FifoType
  <2> QED
    BY <1>3, <2>1
<1> HIDE DEF v
<1>6. u \in FifoType
  <2>1. ASSUME NEW c \in 0 .. Size PROVE [v EXCEPT !.count = c] \in FifoType
    BY <1>5 DEF FifoType
  <2> QED
    BY <1>2, <2>1
<1> HIDE DEF u
<1> QED
  <2>1. ASSUME NEW e \in 0 .. Size - 1 PROVE [u EXCEPT !.wr = e] \in FifoType
    BY <1>6 DEF FifoType
  <2> QED
    BY <1>2, <1>4, <2>1

(* device_do_serial.                                                           *)
LEMMA ServiceType == ASSUME TInv, Service PROVE TInv'
<1>1. /\ path \in BOOLEAN /\ uart \in UartType /\ fifo \in FifoType /\ wcache \in CacheType
      /\ rcache \in ReaderType /\ rcache.off + rcache.count <= Size /\ rcache.pos <= Len(infile)
      /\ infile \in Seq(1 .. MaxIn) /\ outfile \in Seq(0 .. MaxOut)
      /\ Len(infile) <= MaxIn /\ from \in 0 .. MaxIn
  BY DEF TInv, TypeOK, Bounded
<1>2. Len(infile) \in 0 .. MaxIn
  BY <1>1, LenProperties, Sizes
<1>3. uart' \in UartType
  <2>1. /\ rcache.count > 0 => rcache.buf[rcache.off] \in 0 .. MaxIn
        /\ fifo.buf[fifo.rd] \in 0 .. MaxIn
    BY TypeFacts, BufferByte, Sizes
  <2>2. uart'.rx \in 0 .. MaxIn
    BY <2>1, TypeFacts DEF Service, Receives
  <2>3. uart'.wait \in 0 .. RaiseWait
    BY TypeFacts, Sizes DEF Service
  <2>4. uart'.flush \in 0 .. FlushMax
    <3>1. uart.flush \in 0 .. FlushMax
      BY TypeFacts
    <3>2. uart'.flush = IF ~ path THEN uart.flush ELSE IF FlushDue THEN 0 ELSE uart.flush + 1
      BY DEF Service
    <3>3. path /\ ~ FlushDue => uart.flush + 1 \in 0 .. FlushMax
      BY <3>1, Sizes DEF FlushDue
    <3> QED
      BY <3>1, <3>2, <3>3, Sizes
  <2>5. uart'.ssf \in BOOLEAN /\ uart'.busy \in BOOLEAN /\ uart'.send \in BOOLEAN
    BY TypeFacts, Zenon DEF Service, Receives, Transmits
  <2>6. uart' = [ssf |-> uart'.ssf, rx |-> uart'.rx, wait |-> uart'.wait, busy |-> uart'.busy,
                 send |-> uart'.send, flush |-> uart'.flush]
    BY DEF Service
  <2> QED
    BY <2>2, <2>3, <2>4, <2>5, <2>6 DEF UartType
<1>4. fifo' \in FifoType
  BY <1>1, GetOneType DEF Service, Receives
<1>5. /\ rcache' \in ReaderType /\ rcache'.off + rcache'.count <= Size
      /\ rcache'.pos <= Len(infile)
  <2> DEFINE r == IF Receives /\ path THEN ReadOne(rcache) ELSE rcache
  <2>1. r \in ReaderType /\ r.off + r.count <= Size /\ r.pos <= Len(infile)
    BY <1>1, ReadOneType DEF Receives
  <2>2. rcache' \in (IF FlushDue THEN Loads(r) ELSE {r})
    BY DEF Service
  <2> HIDE DEF r
  <2> QED
    BY <1>1, <1>2, <2>1, <2>2, LoadsType
<1>6. wcache' \in CacheType
  BY <1>1, FlushedType DEF Service
<1>7. outfile' \in Seq(0 .. MaxOut)
  BY <1>1, CachedType, ConcatProperties DEF Service
<1>8. from' \in 0 .. MaxIn
  BY <1>1, <1>2 DEF Service
<1>9. taken' \in BOOLEAN /\ turn' \in {"device", "core"}
  BY Zenon DEF Service
<1>10. UNCHANGED <<path, infile, written, received, typed, resets>>
  BY DEF Service
<1> QED
  BY <1>3, <1>4, <1>5, <1>6, <1>7, <1>8, <1>9, <1>10 DEF TInv, TypeOK, Bounded

(* The registers of the UART after a step of the guest, or a reset.            *)
LEMMA UartSet ==
  ASSUME NEW u \in UartType, NEW s \in BOOLEAN, NEW v
  PROVE  /\ v = [u EXCEPT !.ssf = s]  => v \in UartType /\ v.flush = u.flush
         /\ v = [u EXCEPT !.busy = s] => v \in UartType /\ v.flush = u.flush
         /\ v = [u EXCEPT !.send = s] => v \in UartType /\ v.flush = u.flush
  BY DEF UartType

LEMMA UartZero ==
  ASSUME NEW u \in UartType, NEW v
  PROVE  /\ v = [u EXCEPT !.wait = 0]  => v \in UartType
         /\ v = [u EXCEPT !.flush = 0] => v \in UartType /\ v.flush = 0
<1>1. 0 \in 0 .. RaiseWait /\ 0 \in 0 .. FlushMax
  BY Sizes
<1>2. ASSUME NEW k \in 0 .. RaiseWait PROVE [u EXCEPT !.wait = k] \in UartType
  BY DEF UartType
<1>3. ASSUME NEW k \in 0 .. FlushMax
      PROVE  [u EXCEPT !.flush = k] \in UartType /\ [u EXCEPT !.flush = k].flush = k
  BY DEF UartType
<1> QED
  BY <1>1, <1>2, <1>3

(* serial_put_data8 for UD1TX.                                                 *)
LEMMA WriteTXType ==
  ASSUME TInv, NEW b, b = Len(written) + 1, WriteTX(b)
  PROVE  TInv' /\ uart'.flush = uart.flush
<1>1. /\ uart \in UartType /\ wcache \in CacheType
      /\ outfile \in Seq(0 .. MaxOut) /\ written \in Seq(1 .. MaxOut)
  BY DEF TInv, TypeOK
<1>2. Len(written) \in Nat /\ Len(written) < MaxOut
  BY <1>1, LenProperties DEF WriteTX
<1>3. b \in 1 .. MaxOut /\ b \in 0 .. MaxOut
  BY <1>2, Sizes
<1>4. uart' \in UartType /\ uart'.flush = uart.flush
  <2> DEFINE v == [uart EXCEPT !.send = TRUE]
  <2>1. v \in UartType /\ v.flush = uart.flush
    BY <1>1, UartSet
  <2>2. uart' = [v EXCEPT !.busy = TRUE]
    BY DEF WriteTX
  <2> HIDE DEF v
  <2> QED
    BY <2>1, <2>2, UartSet
<1>5. wcache' \in CacheType
  BY <1>1, <1>3, PutType DEF WriteTX
<1>6. outfile' \in Seq(0 .. MaxOut)
  BY <1>1, CachedType, ConcatProperties DEF WriteTX
<1>7. written' \in Seq(1 .. MaxOut) /\ Len(written') = Len(written) + 1
  BY <1>1, <1>3, AppendProperties DEF WriteTX
<1>8. Len(written') <= MaxOut
  BY <1>2, <1>7, Sizes
<1>9. turn' \in {"device", "core"}
  BY DEF WriteTX, NextTurn
<1>10. UNCHANGED <<path, fifo, rcache, infile, taken, received, typed, from, resets>>
  BY DEF WriteTX
<1> QED
  BY <1>4, <1>5, <1>6, <1>7, <1>8, <1>9, <1>10 DEF TInv, TypeOK, Bounded

(* The other instructions of the guest.                                        *)
LEMMA OtherGuestType ==
  ASSUME TInv, ReadRX \/ ClearSSF \/ OtherInstruction
  PROVE  TInv' /\ uart'.flush = uart.flush
<1>1. turn' \in {"device", "core"}
  BY DEF ReadRX, ClearSSF, OtherInstruction, NextTurn
<1>2. CASE ReadRX
  <2>1. received' \in Seq(0 .. MaxIn)
    BY <1>2, TypeFacts, AppendProperties DEF ReadRX, TInv, TypeOK
  <2>2. taken' \in BOOLEAN
    BY <1>2 DEF ReadRX
  <2>3. UNCHANGED <<path, uart, fifo, wcache, rcache, outfile, infile, written, typed, from, resets>>
    BY <1>2 DEF ReadRX
  <2> QED
    BY <1>1, <2>1, <2>2, <2>3 DEF TInv, TypeOK, Bounded
<1>3. CASE ClearSSF
  <2>1. uart' \in UartType /\ uart'.flush = uart.flush
    BY <1>3, UartSet DEF ClearSSF, TInv, TypeOK
  <2>2. UNCHANGED <<path, fifo, wcache, rcache, outfile, infile, taken,
                    written, received, typed, from, resets>>
    BY <1>3 DEF ClearSSF, history
  <2> QED
    BY <1>1, <2>1, <2>2 DEF TInv, TypeOK, Bounded
<1>4. CASE OtherInstruction
  <2>1. UNCHANGED <<path, uart, fifo, wcache, rcache, outfile, infile, taken,
                    written, received, typed, from, resets>>
    BY <1>4 DEF OtherInstruction, history
  <2> QED
    BY <1>1, <2>1 DEF TInv, TypeOK, Bounded
<1> QED
  BY <1>2, <1>3, <1>4

(* The host, at either end.                                                    *)
LEMMA HostType ==
  ASSUME TInv, HostAppends(Len(infile) + 1) \/ HostTypes(Len(typed) + 1)
  PROVE  TInv'
<1>1. /\ infile \in Seq(1 .. MaxIn) /\ typed \in Seq(1 .. MaxIn) /\ fifo \in FifoType
      /\ rcache \in ReaderType /\ rcache.pos <= Len(infile)
  BY DEF TInv, TypeOK, Bounded
<1>2. Len(infile) \in Nat /\ Len(typed) \in Nat
  BY <1>1, LenProperties
<1>3. CASE HostAppends(Len(infile) + 1)
  <2>1. Len(infile) + 1 \in 1 .. MaxIn
    BY <1>2, <1>3, Sizes DEF HostAppends
  <2>2. infile' \in Seq(1 .. MaxIn) /\ Len(infile') = Len(infile) + 1
    BY <1>1, <1>3, <2>1, AppendProperties DEF HostAppends
  <2>3. rcache.pos <= Len(infile') /\ Len(infile') <= MaxIn
    <3>1. rcache.pos \in 0 .. MaxIn
      BY <1>1 DEF ReaderType
    <3> QED
      BY <1>1, <1>2, <2>1, <2>2, <3>1, Sizes
  <2>4. UNCHANGED <<path, uart, fifo, wcache, rcache, outfile, turn, taken,
                    written, received, typed, from, resets>>
    BY <1>3 DEF HostAppends, history
  <2> QED
    BY <2>2, <2>3, <2>4 DEF TInv, TypeOK, Bounded
<1>4. CASE HostTypes(Len(typed) + 1)
  <2>1. Len(typed) + 1 \in 1 .. MaxIn /\ Len(typed) + 1 \in 0 .. MaxIn
    BY <1>2, <1>4, Sizes DEF HostTypes
  <2>2. typed' \in Seq(1 .. MaxIn) /\ Len(typed') = Len(typed) + 1
    BY <1>1, <1>4, <2>1, AppendProperties DEF HostTypes
  <2>3. fifo' \in FifoType
    BY <1>1, <1>4, <2>1, PutOneType DEF HostTypes
  <2>4. Len(typed') <= MaxIn
    BY <2>1, <2>2, Sizes
  <2>5. UNCHANGED <<path, uart, wcache, rcache, outfile, infile, turn, taken,
                    written, received, from, resets>>
    BY <1>4 DEF HostTypes
  <2> QED
    BY <2>2, <2>3, <2>4, <2>5 DEF TInv, TypeOK, Bounded
<1> QED
  BY <1>3, <1>4

(* device_reset.                                                               *)
LEMMA DeviceResetType ==
  ASSUME TInv, DeviceReset
  PROVE  TInv' /\ uart'.flush = 0
<1> DEFINE u == [uart EXCEPT !.send = FALSE]
           v == [u EXCEPT !.wait = 0]
<1>1. uart' = [v EXCEPT !.flush = 0]
  BY DEF DeviceReset
<1>2. uart \in UartType /\ resets \in 0 .. MaxResets
  BY DEF TInv, TypeOK
<1>3. u \in UartType
  BY <1>2, UartSet
<1> HIDE DEF u
<1>4. v \in UartType
  BY <1>3, UartZero
<1> HIDE DEF v
<1>5. uart' \in UartType /\ uart'.flush = 0
  BY <1>1, <1>4, UartZero
<1>6. resets' \in 0 .. MaxResets
  BY <1>2, Sizes DEF DeviceReset
<1>7. UNCHANGED <<path, fifo, wcache, rcache, outfile, infile, turn, taken,
                  written, received, typed, from>>
  BY DEF DeviceReset
<1> QED
  BY <1>5, <1>6, <1>7 DEF TInv, TypeOK, Bounded

LEMMA NextType == ASSUME TInv, [Next]_vars PROVE TInv'
<1>1. CASE UNCHANGED vars
  BY <1>1 DEF vars, history, TInv, TypeOK, Bounded
<1>2. CASE Guest
  BY <1>2, WriteTXType, OtherGuestType DEF Guest
<1> QED
  BY <1>1, <1>2, ServiceType, HostType, DeviceResetType DEF Next

(* The parts keep their types: no cache is read or written out of its bounds,  *)
(* but by the write to a full write cache, and no counter leaves its range.    *)
THEOREM TypeCorrect == Spec => []TypeOK
<1>1. TInv => TypeOK
  BY DEF TInv
<1> QED
  BY <1>1, InitType, NextType, PTL DEF Spec

-----------------------------------------------------------------------------
(* The output, where the cache suffices.                                       *)

(* What may be in the write cache: what a flush may leave, a byte for every    *)
(* service since (and one for the instruction since the last service), and     *)
(* what the resets kept from being flushed.                                    *)
Filling ==
  path => wcache.count <= Threshold - 1 + uart.flush + (IF turn = "device" THEN 1 ELSE 0)
                            + resets * FlushMax

(* The inductive invariant of the output.                                      *)
OInv == TInv /\ Filling /\ OutputAppended

(* The products in Filling.                                                    *)
LEMMA ResetCosts ==
  ASSUME NEW n \in Nat, NEW m \in Nat, n <= m
  PROVE  /\ n * FlushMax \in Nat
         /\ (n + 1) * FlushMax = n * FlushMax + FlushMax
         /\ n * FlushMax <= m * FlushMax
<1>1. \A j, k \in Nat : j * k \in Nat /\ (j + 1) * k = j * k + k
  OBVIOUS
<1>2. PICK d \in Nat : m = n + d
  OBVIOUS
<1>3. m * FlushMax = n * FlushMax + d * FlushMax
  BY <1>2, Sizes
<1> QED
  BY <1>1, <1>3, Sizes

(* Where the cache suffices, the guest never finds it full.                    *)
LEMMA RoomToWrite ==
  ASSUME CacheSuffices, OInv, path, turn = "core"
  PROVE  wcache.count < Size
<1>1. /\ wcache.count <= Threshold - 1 + uart.flush + resets * FlushMax
      /\ wcache.count \in Nat /\ uart.flush \in Nat /\ uart.flush <= FlushMax
  <2>1. wcache.count <= Threshold - 1 + uart.flush + 0 + resets * FlushMax
    BY DEF OInv, Filling
  <2>2. wcache.count \in 0 .. Size /\ uart.flush \in 0 .. FlushMax
    BY TypeFacts DEF OInv
  <2>3. resets \in Nat /\ resets <= MaxResets
    BY Sizes DEF OInv, TInv, TypeOK
  <2>4. resets * FlushMax \in Nat
    BY <2>3, ResetCosts, Sizes
  <2> QED
    BY <2>1, <2>2, <2>4, Sizes
<1>2. resets \in Nat /\ resets <= MaxResets
  BY Sizes DEF OInv, TInv, TypeOK
<1>3. /\ resets * FlushMax \in Nat /\ resets * FlushMax <= MaxResets * FlushMax
      /\ MaxResets * FlushMax \in Nat
      /\ (MaxResets + 1) * FlushMax = MaxResets * FlushMax + FlushMax
  BY <1>2, ResetCosts, Sizes
<1>4. Threshold + (MaxResets + 1) * FlushMax <= Size
  BY DEF CacheSuffices
<1> QED
  BY <1>1, <1>3, <1>4, Sizes

(* A cache with nothing in it.                                                 *)
LEMMA CachedEmpty ==
  ASSUME NEW w \in CacheType, w.count = 0
  PROVE  Cached(w) = <<>>
  BY CachedType, EmptySeq

(* A byte that is put into the cache comes after what is in it.                *)
LEMMA CachedPut ==
  ASSUME NEW w \in CacheType, NEW b \in 0 .. MaxOut, w.count < Size
  PROVE  Cached(Put(w, b)) = Append(Cached(w), b)
<1>1. w.count \in Nat /\ w.buf \in Buffer(MaxOut) /\ w.count \in 0 .. Size - 1
  BY Sizes DEF CacheType
<1>2. /\ Put(w, b) \in CacheType
      /\ Put(w, b).buf = [w.buf EXCEPT ![w.count] = b]
      /\ Put(w, b).count = w.count + 1
  BY <1>1, PutRoom
<1>3. /\ Cached(w) \in Seq(0 .. MaxOut) /\ Len(Cached(w)) = w.count
      /\ Cached(Put(w, b)) \in Seq(0 .. MaxOut) /\ Len(Cached(Put(w, b))) = w.count + 1
  BY <1>2, CachedType
<1>4. /\ Append(Cached(w), b) \in Seq(0 .. MaxOut)
      /\ Len(Append(Cached(w), b)) = w.count + 1
      /\ \A i \in 1 .. w.count : Append(Cached(w), b)[i] = Cached(w)[i]
      /\ Append(Cached(w), b)[w.count + 1] = b
  BY <1>3, AppendProperties
<1>5. \A i \in 1 .. w.count + 1 : Cached(Put(w, b))[i] = Append(Cached(w), b)[i]
  <2> SUFFICES ASSUME NEW i \in 1 .. w.count + 1
               PROVE  Cached(Put(w, b))[i] = Append(Cached(w), b)[i]
    OBVIOUS
  <2>1. Cached(Put(w, b))[i] = [w.buf EXCEPT ![w.count] = b][i - 1]
    BY <1>2 DEF Cached
  <2>2. CASE i = w.count + 1
    <3>1. [w.buf EXCEPT ![w.count] = b][w.count] = b
      BY <1>1 DEF Buffer
    <3>2. i - 1 = w.count
      BY <1>1, <2>2
    <3> QED
      BY <1>4, <2>1, <2>2, <3>1, <3>2
  <2>3. CASE i # w.count + 1
    <3>1. i \in 1 .. w.count /\ i - 1 # w.count /\ i - 1 \in 0 .. Size - 1
      BY <1>1, <2>3, Sizes
    <3>2. [w.buf EXCEPT ![w.count] = b][i - 1] = w.buf[i - 1]
      BY <1>1, <3>1 DEF Buffer
    <3>3. Cached(w)[i] = w.buf[i - 1]
      BY <3>1 DEF Cached
    <3> QED
      BY <1>4, <2>1, <3>1, <3>2, <3>3
  <2> QED
    BY <2>2, <2>3
<1> QED
  BY <1>3, <1>4, <1>5, SeqEqual

(* Nothing is there at first.                                                  *)
LEMMA InitOutput == ASSUME Init PROVE OInv
<1>1. TInv
  BY InitType
<1>2. wcache \in CacheType /\ wcache.count = 0
  BY <1>1 DEF TInv, TypeOK, Init, NewCache
<1>3. Cached(wcache) = <<>> /\ outfile = <<>> /\ written = <<>>
  BY <1>2, CachedEmpty DEF Init
<1>4. OutputAppended
  BY <1>3, ConcatEmptySeq, EmptySeq DEF OutputAppended
<1>5. Filling
  <2>1. uart.flush = 0 /\ resets = 0 /\ turn = "core"
    BY DEF Init, NewUart
  <2>2. 0 * FlushMax = 0
    BY Sizes
  <2>3. wcache.count <= Threshold - 1 + 0 + 0 + 0 * FlushMax
    BY <1>2, <2>2, Sizes
  <2> QED
    BY <2>1, <2>3 DEF Filling
<1> QED
  BY <1>1, <1>4, <1>5 DEF OInv

(* A service moves bytes from the cache to the file, all of them or none.      *)
LEMMA ServiceOutput == ASSUME OInv, Service PROVE OutputAppended' /\ Filling'
<1>1. /\ wcache \in CacheType /\ outfile \in Seq(0 .. MaxOut) /\ written \in Seq(1 .. MaxOut)
      /\ resets \in Nat /\ path' = path /\ written' = written /\ resets' = resets
  BY Sizes DEF OInv, TInv, TypeOK, Service
<1>2. wcache.count \in Nat /\ uart.flush \in Nat /\ resets * FlushMax \in Nat
  BY <1>1, TypeFacts, ResetCosts, Sizes DEF OInv
<1>3. SUFFICES ASSUME path
               PROVE  /\ outfile' \o Cached(wcache') = written
                      /\ wcache'.count <= Threshold - 1 + uart'.flush + 0 + resets * FlushMax
  <2>1. turn' # "device"
    BY DEF Service
  <2> QED
    BY <1>1, <1>3, <2>1 DEF OutputAppended, Filling
<1>4. /\ outfile \o Cached(wcache) = written
      /\ wcache.count <= Threshold - 1 + uart.flush + 1 + resets * FlushMax
  <2>1. turn = "device"
    BY DEF Service
  <2> QED
    BY <1>3, <2>1 DEF OInv, OutputAppended, Filling
<1>5. CASE ~ FlushDue
  <2>1. wcache' = wcache /\ outfile' = outfile /\ uart'.flush = uart.flush + 1
    BY <1>3, <1>5 DEF Service
  <2> QED
    BY <1>2, <1>4, <2>1, Sizes
<1>6. CASE FlushDue
  <2>1. /\ wcache' = Flushed(wcache) /\ uart'.flush = 0
        /\ outfile' = IF Flushes(wcache) THEN outfile \o Cached(wcache) ELSE outfile
    BY <1>3, <1>6 DEF Service
  <2>2. wcache' \in CacheType /\ wcache'.buf = wcache.buf
        /\ wcache'.count = IF wcache.count = 0 \/ Flushes(wcache) THEN 0 ELSE wcache.count
    BY <1>1, <2>1, FlushedType
  <2>3. wcache'.count <= Threshold - 1
    BY <1>2, <2>2, Sizes DEF Flushes
  <2>4. wcache'.count <= Threshold - 1 + uart'.flush + 0 + resets * FlushMax
    <3>1. wcache'.count \in Nat
      BY <1>2, <2>2
    <3> QED
      BY <1>2, <2>1, <2>3, <3>1, Sizes
  <2>5. CASE Flushes(wcache)
    <3>1. Cached(wcache') = <<>>
      BY <2>2, <2>5, CachedEmpty
    <3>2. outfile' = written
      BY <1>4, <2>1, <2>5
    <3> QED
      BY <1>1, <2>4, <3>1, <3>2, ConcatEmptySeq
  <2>6. CASE ~ Flushes(wcache)
    <3>1. wcache'.count = wcache.count
      BY <2>2, <2>6
    <3>2. Cached(wcache') = Cached(wcache)
      BY <2>2, <3>1 DEF Cached
    <3> QED
      BY <1>4, <2>1, <2>4, <2>6, <3>2
  <2> QED
    BY <2>5, <2>6
<1> QED
  BY <1>5, <1>6

(* A write finds room and comes after what is in the cache.                    *)
LEMMA WriteTXOutput ==
  ASSUME CacheSuffices, OInv, NEW b, b = Len(written) + 1, WriteTX(b)
  PROVE  OutputAppended' /\ Filling'
<1>1. /\ wcache \in CacheType /\ outfile \in Seq(0 .. MaxOut) /\ written \in Seq(1 .. MaxOut)
      /\ resets \in Nat /\ path' = path /\ resets' = resets
  BY Sizes DEF OInv, TInv, TypeOK, WriteTX
<1>2. /\ wcache.count \in Nat /\ uart.flush \in Nat /\ resets * FlushMax \in Nat
      /\ uart'.flush = uart.flush
  <2>1. uart'.flush = uart.flush /\ TInv
    BY WriteTXType DEF OInv
  <2> QED
    BY <1>1, <2>1, TypeFacts, ResetCosts, Sizes
<1>3. b \in 0 .. MaxOut
  <2>1. Len(written) \in Nat /\ Len(written) < MaxOut
    BY <1>1, LenProperties DEF WriteTX
  <2> QED
    BY <2>1, Sizes
<1>4. turn = "core" /\ turn' = "device"
  BY DEF WriteTX, NextTurn, CacheSuffices
<1>5. SUFFICES ASSUME path
               PROVE  /\ outfile' \o Cached(wcache') = written'
                      /\ wcache'.count <= Threshold - 1 + uart'.flush + 1 + resets * FlushMax
  BY <1>1, <1>4 DEF OutputAppended, Filling
<1>6. wcache.count < Size
  BY <1>4, <1>5, RoomToWrite
<1>7. wcache' = Put(wcache, b) /\ outfile' = outfile /\ written' = Append(written, b)
  BY <1>2, <1>5, <1>6, Sizes DEF WriteTX
<1>8. Cached(wcache') = Append(Cached(wcache), b)
  BY <1>1, <1>3, <1>6, <1>7, CachedPut
<1>9. wcache'.count = wcache.count + 1
  <2>1. wcache.count # Size
    BY <1>2, <1>6, Sizes
  <2> QED
    BY <1>1, <1>3, <1>7, <2>1, PutRoom
<1>10. /\ outfile \o Cached(wcache) = written
       /\ wcache.count <= Threshold - 1 + uart.flush + 0 + resets * FlushMax
  BY <1>4, <1>5 DEF OInv, OutputAppended, Filling
<1>11. outfile \o Append(Cached(wcache), b) = Append(outfile \o Cached(wcache), b)
  <2>1. Cached(wcache) \in Seq(0 .. MaxOut) /\ <<b>> \in Seq(0 .. MaxOut)
    BY <1>1, <1>3, CachedType
  <2>2. outfile \o Cached(wcache) \in Seq(0 .. MaxOut)
    BY <1>1, <2>1, ConcatProperties
  <2>3. Append(Cached(wcache), b) = Cached(wcache) \o <<b>>
    BY <1>3, <2>1, AppendIsConcat
  <2>4. Append(outfile \o Cached(wcache), b) = (outfile \o Cached(wcache)) \o <<b>>
    BY <1>3, <2>2, AppendIsConcat
  <2> QED
    BY <1>1, <2>1, <2>3, <2>4, ConcatAssociative
<1>12. outfile' \o Cached(wcache') = written'
  BY <1>7, <1>8, <1>10, <1>11
<1>13. wcache'.count <= Threshold - 1 + uart'.flush + 1 + resets * FlushMax
  BY <1>2, <1>9, <1>10, Sizes
<1> QED
  BY <1>12, <1>13

(* A reset starts the count of the services again.                             *)
LEMMA ResetOutput == ASSUME OInv, DeviceReset PROVE OutputAppended' /\ Filling'
<1>1. /\ UNCHANGED <<path, wcache, outfile, written, turn>>
      /\ resets' = resets + 1 /\ uart'.flush = 0
  BY DeviceResetType DEF DeviceReset, OInv
<1>2. resets \in Nat
  BY Sizes DEF OInv, TInv, TypeOK
<1>3. /\ wcache.count \in Nat /\ uart.flush \in Nat /\ uart.flush <= FlushMax
      /\ resets * FlushMax \in Nat /\ (resets + 1) * FlushMax = resets * FlushMax + FlushMax
  BY <1>2, TypeFacts, ResetCosts, Sizes DEF OInv
<1>4. OutputAppended'
  BY <1>1 DEF OInv, OutputAppended, Cached
<1>5. ASSUME path
      PROVE  wcache.count <= Threshold - 1 + 0 + (IF turn = "device" THEN 1 ELSE 0)
                               + (resets + 1) * FlushMax
  <2> DEFINE t == IF turn = "device" THEN 1 ELSE 0
  <2>1. t \in Nat
    OBVIOUS
  <2>2. wcache.count <= Threshold - 1 + uart.flush + t + resets * FlushMax
    BY <1>5 DEF OInv, Filling
  <2> HIDE DEF t
  <2>3. wcache.count <= Threshold - 1 + 0 + t + (resets + 1) * FlushMax
    BY <1>3, <2>1, <2>2, Sizes
  <2> QED
    BY <2>3 DEF t
<1> QED
  BY <1>1, <1>4, <1>5 DEF Filling

(* Everything else leaves the output alone, and lets no service come sooner.   *)
LEMMA OtherOutput ==
  ASSUME OInv, UNCHANGED <<path, wcache, outfile, written, resets>>, uart'.flush = uart.flush,
         turn' = turn \/ turn = "core"
  PROVE  OutputAppended' /\ Filling'
<1>1. OutputAppended'
  BY DEF OInv, OutputAppended, Cached
<1>2. ASSUME path
      PROVE  wcache.count <= Threshold - 1 + uart.flush + (IF turn' = "device" THEN 1 ELSE 0)
                               + resets * FlushMax
  <2>1. wcache.count <= Threshold - 1 + uart.flush + (IF turn = "device" THEN 1 ELSE 0)
                          + resets * FlushMax
    BY <1>2 DEF OInv, Filling
  <2>2. uart.flush \in Nat /\ wcache.count \in Nat /\ resets * FlushMax \in Nat
    BY TypeFacts, ResetCosts, Sizes DEF OInv, TInv, TypeOK
  <2>3. CASE turn' = turn
    BY <2>1, <2>3
  <2>4. CASE turn = "core"
    BY <2>1, <2>2, <2>4, Sizes
  <2> QED
    BY <2>3, <2>4
<1> QED
  BY <1>1, <1>2 DEF Filling

LEMMA NextOutput == ASSUME CacheSuffices, OInv, [Next]_vars PROVE OInv'
<1>1. TInv'
  BY NextType DEF OInv
<1>2. OutputAppended' /\ Filling'
  <2>1. CASE Service
    BY <2>1, ServiceOutput
  <2>2. CASE WriteTX(Len(written) + 1)
    BY <2>2, WriteTXOutput
  <2>3. CASE ReadRX \/ ClearSSF \/ OtherInstruction
    <3>1. uart'.flush = uart.flush
      BY <2>3, OtherGuestType DEF OInv
    <3>2. UNCHANGED <<path, wcache, outfile, written, resets>> /\ turn = "core"
      BY <2>3 DEF ReadRX, ClearSSF, OtherInstruction, history
    <3> QED
      BY <3>1, <3>2, OtherOutput
  <2>4. CASE HostAppends(Len(infile) + 1) \/ HostTypes(Len(typed) + 1)
    <3>1. UNCHANGED <<path, uart, wcache, outfile, written, resets, turn>>
      BY <2>4 DEF HostAppends, HostTypes, history
    <3> QED
      BY <3>1, OtherOutput
  <2>5. CASE DeviceReset
    BY <2>5, ResetOutput
  <2>6. CASE UNCHANGED vars
    <3>1. UNCHANGED <<path, uart, wcache, outfile, written, resets, turn>>
      BY <2>6 DEF vars, history
    <3> QED
      BY <3>1, OtherOutput
  <2> QED
    BY <2>1, <2>2, <2>3, <2>4, <2>5, <2>6 DEF Next, Guest
<1> QED
  BY <1>1, <1>2 DEF OInv

(* The file and the cache after it are what the guest wrote, for every size of *)
(* the cache, every threshold and every pace of the flushes that CacheSuffices *)
(* allows (file_cache_write and file_cache_flush): where the channel is served *)
(* often enough, the missing guard of the full cache does no harm.             *)
THEOREM NothingLost == ASSUME CacheSuffices PROVE Spec => []OutputAppended
<1>1. OInv /\ [Next]_vars => OInv'
  BY NextOutput
<1>2. Init => OInv
  BY InitOutput
<1>3. OInv => OutputAppended
  BY DEF OInv
<1> QED
  BY <1>1, <1>2, <1>3, PTL DEF Spec
=============================================================================
