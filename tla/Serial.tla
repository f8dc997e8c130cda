------------------------------- MODULE Serial -------------------------------
(***************************************************************************)
(* Serial channel UD1: the UART of src/src/device/peripheral/serial/       *)
(* serial.c, and the two back ends of dbg_target_serial.c that             *)
(* device_register_serial_ops gives it.  With SERIAL_FILE_PATH it is a     *)
(* pair of files behind two caches; without, it is the ring buffer that    *)
(* the debugger types into (and UD0 always is).                            *)
(*                                                                         *)
(* The emulator runs in one thread.  A service of the UART and one         *)
(* instruction of the core alternate; the host writes at any time.         *)
(*                                                                         *)
(* A byte is a number, and the n-th one that is written is n: no code here *)
(* looks at a byte, and different bytes tell every loss, repetition and    *)
(* change of order apart.                                                  *)
(*                                                                         *)
(* What is abstracted: the other bits of the status register, the opening  *)
(* and closing of the output file, terminal output, and the errors of file *)
(* calls, on which the emulator exits.  The guest is a driver that reads   *)
(* UD1RX once for every SSF it sees, and then clears SSF with a bit        *)
(* instruction; it writes UD1TX whenever it likes.                         *)
(***************************************************************************)
EXTENDS Integers, Sequences

CONSTANTS
  Size,       (* DBG_SERIAL_BUFFER_SIZE and DBG_SERIAL_CACHE_BUFFER_SIZE       *)
  Threshold,  (* 128: a write cache with fewer bytes is written late           *)
  WCheckMax,  (* 10000: it is written at the flush with this number            *)
  RCheckMax,  (* 100: an empty read cache is loaded at every such flush        *)
  FlushMax,   (* DEBUG_FUNC_SERIAL_FLUSH_COUNT_MAX: services between flushes   *)
  RaiseWait,  (* 1000: services between two receptions                         *)
  Served,     (* the build serves UD1 (neither DISABLE_SERIAL_CLOCK nor        *)
              (* MINIMUM_DEVICE_CONFIG is defined)                             *)
  MaxOut,     (* bound: the bytes that the guest writes                        *)
  MaxIn,      (* bound: the bytes that the host writes                         *)
  MaxResets   (* bound: the resets of the devices                              *)

ASSUME SerialAssumption ==
  /\ Size \in Nat \ {0}
  /\ Threshold \in 1 .. Size
  /\ WCheckMax \in Nat \ {0}
  /\ RCheckMax \in Nat \ {0}
  /\ FlushMax \in Nat
  /\ RaiseWait \in Nat
  /\ Served \in BOOLEAN
  /\ MaxOut \in Nat /\ MaxIn \in Nat /\ MaxResets \in Nat

VARIABLES
  path,     (* SERIAL_FILE_PATH is set; never changes                          *)
  uart,     (* SerialDevice[1] and its registers                               *)
  fifo,     (* dbg_serial_fifo[1]                                              *)
  wcache,   (* DbgSerialCacheWriteBuffer[1]                                    *)
  rcache,   (* DbgSerialCacheReadBuffer[1] and SerialDeviceFile.in             *)
  outfile,  (* what the emulator has appended to serial_in.txt                 *)
  infile,   (* serial_out.txt                                                  *)
  turn,     (* who is next: "device" or "core"                                 *)
  taken,    (* the guest has read UD1RX since SSF was set                      *)
  written,  (* history: the bytes that the guest wrote to UD1TX                *)
  received, (* history: the bytes that the guest read from UD1RX               *)
  typed,    (* history: the bytes that the ring buffer accepted                *)
  from,     (* history: the length of serial_out.txt when it was opened        *)
  resets    (* counts the resets                                               *)

history == <<written, received, typed, from, resets>>
vars    == <<path, uart, fifo, wcache, rcache, outfile, infile, turn, taken, history>>

(* off is not kept apart from count: the code resets and advances them together. *)
NewCache == [buf |-> [k \in 0 .. Size - 1 |-> 0], count |-> 0, check |-> 0]
NewReader == [buf |-> [k \in 0 .. Size - 1 |-> 0], count |-> 0, off |-> 0, check |-> 0,
              open |-> FALSE, pos |-> 0]
NewFifo == [buf |-> [k \in 0 .. Size - 1 |-> 0], count |-> 0, wr |-> 0, rd |-> 0]
NewUart == [ssf |-> FALSE, rx |-> 0, busy |-> FALSE, send |-> FALSE, wait |-> 0, flush |-> 0]

-----------------------------------------------------------------------------
(* The write cache.                                                            *)

Cached(w) == [k \in 1 .. w.count |-> w.buf[k - 1]]

(* file_cache_flush: whether it writes the file, and what it leaves in memory. *)
Flushes(w) == w.count >= Threshold \/ (w.count > 0 /\ w.check + 1 >= WCheckMax)

(* Two slips: the bytes that were written stay in the cache; the count of the  *)
(* flushes does not last from one to the next.                                 *)
FlushedKeeps(w) ==
  IF w.count = 0 \/ Flushes(w) THEN w ELSE [w EXCEPT !.check = @ + 1]
FlushedForgets(w) == IF Flushes(w) THEN [w EXCEPT !.count = 0] ELSE w

Flushed(w) ==
  IF w.count = 0 THEN w
  ELSE IF Flushes(w) THEN [w EXCEPT !.count = 0, !.check = IF w.count < Threshold THEN 0 ELSE @]
  ELSE [w EXCEPT !.check = @ + 1]

(* file_cache_write, a byte with the cache before it.  A full cache is flushed *)
(* first, but the offset is read before that: the byte goes outside of the     *)
(* buffer, into the cache of the next channel, which has no back end.          *)
Put(w, b) ==
  IF w.count = Size
  THEN [Flushed(w) EXCEPT !.count = 1]
  ELSE [w EXCEPT !.buf[w.count] = b, !.count = @ + 1]

-----------------------------------------------------------------------------
(* The read cache and the ring buffer: what the host wrote.                    *)

Unread(r) == [k \in 1 .. r.count |-> r.buf[r.off + k - 1]]

Opened(r) == IF r.open THEN r ELSE [r EXCEPT !.open = TRUE, !.pos = Len(infile)]

(* Two slips: the place left at the end of the buffer is not looked at; the     *)
(* offset that has reached the end is not set back.                            *)
RoomAll(r)    == Size
RoomNoWrap(r) == Size - r.off

(* file_cache_load reads into the buffer from off on, and from 0 once off has  *)
(* reached the end.                                                            *)
Room(r) == IF r.off >= Size THEN Size ELSE Size - r.off

(* n bytes read from the file into the buffer.                                 *)
Filled(r, n) ==
  LET o == Opened(r)
      f == IF o.off >= Size THEN 0 ELSE o.off
  IN  [o EXCEPT !.buf   = [k \in 0 .. Size - 1 |-> IF k \in f .. f + n - 1
                                                   THEN infile[o.pos + 1 + k - f] ELSE o.buf[k]],
                !.off   = f,
                !.count = n,
                !.pos   = @ + n,
                !.check = 0]

(* file_cache_load: the reader after it.  A read returns at least one byte and *)
(* no more than there are or than fit.                                         *)
Loads(r) ==
  LET o    == Opened(r)
      left == Len(infile) - o.pos
  IN  IF r.count > 0 THEN {r}
      ELSE IF r.check + 1 < RCheckMax THEN {[r EXCEPT !.check = @ + 1]}
      ELSE IF left <= 0 THEN {[o EXCEPT !.check = 0]}
      ELSE {Filled(r, n) : n \in {n \in 1 .. Room(r) : n <= left}}

(* file_cache_read.                                                            *)
ReadOne(r) == [r EXCEPT !.count = @ - 1, !.off = @ + 1]

Queue(f) == [k \in 1 .. f.count |-> f.buf[(f.rd + k - 1) % Size]]

(* dbg_serial_getchar and dbg_serial_in.                                       *)
GetOne(f) == [f EXCEPT !.count = @ - 1, !.rd = IF @ + 1 >= Size THEN 0 ELSE @ + 1]
PutOne(f, b) ==
  [f EXCEPT !.buf[f.wr] = b, !.count = @ + 1, !.wr = IF @ + 1 >= Size THEN 0 ELSE @ + 1]

-----------------------------------------------------------------------------
(* device_do_serial: reception, then transmission, then the flush.             *)

(* A slip: a byte is received while the one before it is in UD1RX.             *)
ReceivesBlindly == uart.wait = 0 /\ (IF path THEN rcache.count > 0 ELSE fifo.count > 0)

Receives ==
  /\ ~ uart.ssf
  /\ uart.wait = 0
  /\ IF path THEN rcache.count > 0 ELSE fifo.count > 0

(* A slip: the transmission bit is left to the guest.                          *)
TransmitsForEver == uart.busy

(* The transmission bit of UD1STR after this service.                          *)
Transmits == uart.busy /\ ~ uart.send

FlushDue == path /\ uart.flush >= FlushMax

Service ==
  /\ turn = "device"
  /\ uart' = [ssf   |-> uart.ssf \/ Receives,
              rx    |-> IF Receives THEN IF path THEN rcache.buf[rcache.off]
                                                 ELSE fifo.buf[fifo.rd]
                        ELSE uart.rx,
              wait  |-> IF Receives THEN RaiseWait
                        ELSE IF ~ uart.ssf /\ uart.wait > 0 THEN uart.wait - 1 ELSE uart.wait,
              busy  |-> Transmits,
              send  |-> FALSE,
              flush |-> IF ~ path THEN uart.flush
                        ELSE IF FlushDue THEN 0 ELSE uart.flush + 1]
  /\ fifo'  = IF Receives /\ ~ path THEN GetOne(fifo) ELSE fifo
  /\ LET r == IF Receives /\ path THEN ReadOne(rcache) ELSE rcache
     IN  /\ rcache' \in (IF FlushDue THEN Loads(r) ELSE {r})
         /\ from' = IF rcache'.open /\ ~ rcache.open THEN Len(infile) ELSE from
  /\ wcache'  = IF FlushDue THEN Flushed(wcache) ELSE wcache
  /\ outfile' = IF FlushDue /\ Flushes(wcache) THEN outfile \o Cached(wcache) ELSE outfile
  /\ taken'   = (taken /\ ~ Receives)
  /\ turn'    = "core"
  /\ UNCHANGED <<path, infile, written, received, typed, resets>>

-----------------------------------------------------------------------------
(* One instruction of the guest.                                               *)

(* A build that does not clock the UART has no service between instructions.   *)
NextTurn == turn' = IF Served THEN "device" ELSE "core"

(* UD1TX (serial_put_data8): the back end gets the byte at once.               *)
WriteTX(b) ==
  /\ turn = "core"
  /\ Len(written) < MaxOut
  /\ uart' = [uart EXCEPT !.send = TRUE, !.busy = TRUE]
  /\ wcache'  = IF path THEN Put(wcache, b) ELSE wcache
  /\ outfile' = IF path /\ wcache.count = Size THEN outfile \o Cached(wcache) ELSE outfile
  /\ written' = Append(written, b)
  /\ NextTurn
  /\ UNCHANGED <<path, fifo, rcache, infile, taken, received, typed, from, resets>>

ReadRX ==
  /\ turn = "core"
  /\ uart.ssf /\ ~ taken
  /\ received' = Append(received, uart.rx)
  /\ taken' = TRUE
  /\ NextTurn
  /\ UNCHANGED <<path, uart, fifo, wcache, rcache, outfile, infile,
                 written, typed, from, resets>>

ClearSSF ==
  /\ turn = "core"
  /\ uart.ssf /\ taken
  /\ uart' = [uart EXCEPT !.ssf = FALSE]
  /\ NextTurn
  /\ UNCHANGED <<path, fifo, wcache, rcache, outfile, infile, taken, history>>

OtherInstruction ==
  /\ turn = "core"
  /\ NextTurn
  /\ UNCHANGED <<path, uart, fifo, wcache, rcache, outfile, infile, taken, history>>

-----------------------------------------------------------------------------
(* The host.                                                                   *)

(* External: the host appends a byte to serial_out.txt.                        *)
HostAppends(b) ==
  /\ path
  /\ Len(infile) < MaxIn
  /\ infile' = Append(infile, b)
  /\ UNCHANGED <<path, uart, fifo, wcache, rcache, outfile, turn, taken, history>>

(* dbg_serial_in: the debugger's command; a full ring buffer refuses the byte. *)
HostTypes(b) ==
  /\ ~ path
  /\ Len(typed) < MaxIn
  /\ fifo.count < Size
  /\ fifo'  = PutOne(fifo, b)
  /\ typed' = Append(typed, b)
  /\ UNCHANGED <<path, uart, wcache, rcache, outfile, infile, turn, taken,
                 written, received, from, resets>>

(* device_reset: device_init_serial and device_register_serial_ops.  The       *)
(* registers, which are memory, the caches and the files stay as they are.     *)
DeviceReset ==
  /\ resets < MaxResets
  /\ resets' = resets + 1
  /\ uart' = [uart EXCEPT !.send = FALSE, !.wait = 0, !.flush = 0]
  /\ UNCHANGED <<path, fifo, wcache, rcache, outfile, infile, turn, taken,
                 written, received, typed, from>>

Init ==
  /\ path \in BOOLEAN
  /\ uart = NewUart
  /\ fifo = NewFifo
  /\ wcache = NewCache
  /\ rcache = NewReader
  /\ outfile = <<>>
  /\ infile = <<>>
  /\ turn = "core"
  /\ taken = FALSE
  /\ written = <<>>
  /\ received = <<>>
  /\ typed = <<>>
  /\ from = 0
  /\ resets = 0

Guest ==
  \/ WriteTX(Len(written) + 1)
  \/ ReadRX
  \/ ClearSSF
  \/ OtherInstruction

Next ==
  \/ Service
  \/ Guest
  \/ HostAppends(Len(infile) + 1)
  \/ HostTypes(Len(typed) + 1)
  \/ DeviceReset

Spec == Init /\ [][Next]_vars

(* The loop never stops supplying the clock and running the core.              *)
FairSpec == Spec /\ WF_vars(Service) /\ WF_vars(Guest)

-----------------------------------------------------------------------------
(* Properties.                                                                 *)

Buffer(max) == [0 .. Size - 1 -> 0 .. max]
CacheType  == [buf : Buffer(MaxOut), count : 0 .. Size, check : 0 .. WCheckMax - 1]
ReaderType == [buf : Buffer(MaxIn), count : 0 .. Size, off : 0 .. Size,
               check : 0 .. RCheckMax - 1, open : BOOLEAN, pos : 0 .. MaxIn]
FifoType   == [buf : Buffer(MaxIn), count : 0 .. Size, wr : 0 .. Size - 1, rd : 0 .. Size - 1]
UartType   == [ssf : BOOLEAN, rx : 0 .. MaxIn, busy : BOOLEAN, send : BOOLEAN,
               wait : 0 .. RaiseWait, flush : 0 .. FlushMax]

TypeOK ==
  /\ path \in BOOLEAN
  /\ uart \in UartType
  /\ fifo \in FifoType
  /\ wcache \in CacheType
  /\ rcache \in ReaderType
  /\ rcache.off + rcache.count <= Size
  /\ outfile \in Seq(0 .. MaxOut) /\ infile \in Seq(1 .. MaxIn)
  /\ turn \in {"device", "core"}
  /\ taken \in BOOLEAN
  /\ written \in Seq(1 .. MaxOut) /\ received \in Seq(0 .. MaxIn) /\ typed \in Seq(1 .. MaxIn)
  /\ from \in 0 .. MaxIn
  /\ resets \in 0 .. MaxResets

(* Guest output is appended to serial_in.txt (docs/configuration.md:20-21):    *)
(* the file and the cache after it are what the guest wrote, in that order.    *)
OutputAppended == path => outfile \o Cached(wcache) = written

(* The byte that the guest has not read yet.                                   *)
Pending == IF uart.ssf /\ ~ taken THEN <<uart.rx>> ELSE <<>>

(* What the host writes becomes guest input (docs/configuration.md:21), every  *)
(* byte once and in order: what the guest has read, then UD1RX, then the cache *)
(* and the rest of the file, or the ring buffer.                               *)
InputInOrder ==
  IF path
  THEN rcache.open => received \o Pending \o Unread(rcache)
                        \o SubSeq(infile, rcache.pos + 1, Len(infile))
                      = SubSeq(infile, from + 1, Len(infile))
  ELSE received \o Pending \o Queue(fifo) = typed

(* A byte does not stay in the write cache: even when the guest writes no      *)
(* more, the flush with the number WCheckMax writes it to the file.            *)
EventuallyWritten == wcache.count > 0 ~> wcache.count = 0

(* The transmission bit is cleared, so that a guest that polls it before it    *)
(* writes gets on, unless a reset forgets that there is something to send.     *)
TransmissionEnds == uart.busy ~> ~ uart.busy \/ resets > 0

(* What the host has written is offered to the guest in the end, unless the    *)
(* guest leaves an earlier byte in UD1RX.                                      *)
InputOffered ==
  (IF path THEN rcache.open /\ (rcache.count > 0 \/ rcache.pos < Len(infile))
           ELSE fifo.count > 0)
    ~> uart.ssf

=============================================================================
