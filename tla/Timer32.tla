------------------------------ MODULE Timer32 -------------------------------
(***************************************************************************)
(* The 32-bit timer of src/src/device/peripheral/timer/timer32.c and the   *)
(* device clock it is driven by (device_supply_clock of device.c).         *)
(*                                                                         *)
(* The build defines CPUEMU_CLOCK_BUG_FIX: the devices do not advance the  *)
(* clock, the loop of the athrill core does.  That loop is not in this     *)
(* repository; of it, the model has what the devices tell it: the clock    *)
(* advances by one or, while the core sleeps and a timer has bounded the   *)
(* idle time (min_intr_interval), by any amount within that bound.         *)
(*                                                                         *)
(* What is abstracted: register addresses (an action names the register),  *)
(* the 16-bit accesses and the other bits of CTL0 and CTL1, which the      *)
(* timer ignores, and the interrupt controller, of which a raised timer    *)
(* interrupt shows only that it wakes the core.                            *)
(***************************************************************************)
EXTENDS Integers, FiniteSets, FiniteSetsExt

CONSTANTS
  Channels,  (* the channels that device_supply_clock_timer serves             *)
  Fd,        (* DEVICE_CONFIG_TIMER_FD: clocks per count                       *)
  Wrap,      (* 2^32, the values of a counter, of a compare register and of    *)
             (* the product that bounds the idle time                          *)
  Compares,  (* the values that programs write into TAAnCCR0                   *)
  MaxClock   (* bound: the clock goes no further; only a reset is left then    *)

ASSUME TimerAssumption ==
  /\ IsFiniteSet(Channels)
  /\ Fd \in Nat \ {0}
  /\ Wrap \in Nat \ {0}
  /\ Compares \subseteq 0 .. Wrap - 1
  /\ MaxClock \in Nat
  /\ MaxClock < Wrap * Fd      (* no counter wraps: 2^32 counts are out of reach *)

VARIABLES
  clock,     (* DeviceClockType.clock                                          *)
  timer,     (* TimerDevice[ch]                                                *)
  bound,     (* DeviceClockType.min_intr_interval                              *)
  halted,    (* is_halt of the one core                                        *)
  turn,      (* who is next in the loop: "device", "core" or "loop"            *)
  last       (* history: when ch raised its interrupt last, -1 when it has not *)
             (* since its compare register was written                         *)

vars == <<clock, timer, bound, halted, turn, last>>

(* DEVICE_CLOCK_MAX_INTERVAL, more than any interval a timer computes.         *)
NoBound == Wrap

NewTimer == [cnt |-> 0, state |-> "stop", mode |-> "freerun", compare0 |-> 0, start |-> 0]

Tick == clock % Fd = 0

-----------------------------------------------------------------------------
(* The timer at one tick of the clock.                                         *)

(* Two slips: a stopped counter is restarted instead of held; a timer that gets *)
(* ready is set back by the count that its restart has cost.                   *)
StartRestarted(t) ==
  IF t.state = "stop" /\ t.mode = "freerun" /\ t.start # 0 THEN clock
  ELSE IF t.state = "ready" /\ (t.start = 0 \/ t.mode = "interval") THEN clock
  ELSE t.start
StartCompensated(t) ==
  IF t.state = "stop" /\ t.mode = "freerun" /\ t.start # 0 THEN t.start + Fd
  ELSE IF t.state = "ready" /\ (t.start = 0 \/ t.mode = "interval")
       THEN IF clock < Fd THEN clock ELSE clock - Fd
  ELSE t.start

(* Where the count starts from, as device_timer_do_update leaves it: it follows *)
(* the clock while a free-running timer is stopped, and it is set when a timer *)
(* gets ready (but for a free-running one that has started before).            *)
Start(t) ==
  IF t.state = "stop" /\ t.mode = "freerun" /\ t.start # 0 THEN t.start + Fd
  ELSE IF t.state = "ready" /\ (t.start = 0 \/ t.mode = "interval") THEN clock
  ELSE t.start

Count(t) == ((clock - Start(t)) \div Fd) % Wrap

Fires(t) == t.mode = "interval" /\ Count(t) = t.compare0

(* device_timer_do_update: a timer that fires gets ready again, stopped or not. *)
Updated(t) ==
  [t EXCEPT !.start = Start(t),
            !.cnt   = Count(t),
            !.state = CASE Fires(t)                        -> "ready"
                        [] ~ Fires(t) /\ t.state = "ready" -> "running"
                        [] OTHER                           -> t.state]

(* Two slips: the bound is one count late; a product of 0 is taken as a bound. *)
IntervalLate(t) ==
  LET d == ((t.compare0 - t.cnt + 1) * Fd) % Wrap
  IN  IF t.cnt < t.compare0 /\ d > 0 THEN d ELSE NoBound
IntervalZero(t) ==
  IF t.cnt < t.compare0 THEN ((t.compare0 - t.cnt) * Fd) % Wrap ELSE NoBound

(* device_timer_do_calc_min_interval: for how long nothing happens to a timer, *)
(* in 32 bits.  A product of 0 bounds nothing.                                 *)
Interval(t) ==
  LET d == ((t.compare0 - t.cnt) * Fd) % Wrap
  IN  IF t.cnt < t.compare0 /\ d > 0 THEN d ELSE NoBound

Ticked == [c \in Channels |-> IF Tick THEN Updated(timer[c]) ELSE timer[c]]

Firing == IF Tick THEN {c \in Channels : Fires(timer[c])} ELSE {}

(* device_supply_clock: the timers are updated when the clock is a multiple of *)
(* Fd, one after the other, and the shortest of their intervals is kept.  An   *)
(* interrupt of a timer, or of another device, wakes the core.                 *)
SupplyClock ==
  /\ turn = "device"
  /\ timer'  = Ticked
  /\ bound'  = IF Tick THEN Min({NoBound} \cup {Interval(Ticked[c]) : c \in Channels})
                       ELSE NoBound
  /\ halted' \in {FALSE, halted /\ Firing = {}}
  /\ last'   = [c \in Channels |-> IF c \in Firing THEN clock ELSE last[c]]
  /\ turn'   = "core"
  /\ UNCHANGED clock

-----------------------------------------------------------------------------
(* One instruction of the core, or none while it sleeps (cpu_supply_clock).    *)

Core(c, t, h, l) ==
  /\ turn = "core"
  /\ timer'  = [timer EXCEPT ![c] = t]
  /\ halted' = h
  /\ last'   = [last EXCEPT ![c] = l]
  /\ turn'   = "loop"
  /\ UNCHANGED <<clock, bound>>

(* TAAnCTL0 (timer_put_data8): the counter is left as it is.                   *)
WriteCTL0(c, on) ==
  /\ ~ halted
  /\ Core(c, [timer[c] EXCEPT !.state = IF on THEN "ready" ELSE "stop"], FALSE, last[c])

(* TAAnCTL1 (timer_put_data8).                                                 *)
WriteCTL1(c, m) ==
  /\ ~ halted
  /\ Core(c, [timer[c] EXCEPT !.mode = m], FALSE, last[c])

(* TAAnCCR0 (timer_put_data32): the timer gets ready, stopped or not.          *)
WriteCCR0(c, v) ==
  /\ ~ halted
  /\ Core(c, [timer[c] EXCEPT !.compare0 = v, !.state = "ready"], FALSE, -1)

(* HALT, any other instruction, or the clock of a sleeping core.               *)
OtherInstruction ==
  /\ turn = "core"
  /\ halted' \in {TRUE, halted}
  /\ turn' = "loop"
  /\ UNCHANGED <<clock, timer, bound, last>>

(* External: the loop advances the clock.  The core must sleep for a skip, and *)
(* a timer must have bounded it (vdev_mmap.c:72 and vdev_udp.c:164 read        *)
(* DEVICE_CLOCK_MAX_INTERVAL as "no bound" too).                               *)
Advance ==
  /\ turn = "loop"
  /\ clock' \in clock + 1 .. clock + (IF halted /\ bound # NoBound THEN bound ELSE 1)
  /\ clock' <= MaxClock
  /\ turn' = "device"
  /\ UNCHANGED <<timer, bound, halted, last>>

-----------------------------------------------------------------------------
(* device_init and device_init_timer.                                          *)
Init ==
  /\ clock  = 0
  /\ timer  = [c \in Channels |-> NewTimer]
  /\ bound  = NoBound
  /\ halted = FALSE
  /\ turn   = "device"
  /\ last   = [c \in Channels |-> -1]

(* device_reset, between two rounds of the loop: the core is left alone.       *)
DeviceReset ==
  /\ turn \in {"device", "loop"}
  /\ clock' = 0
  /\ timer' = [c \in Channels |-> NewTimer]
  /\ bound' = NoBound
  /\ last'  = [c \in Channels |-> -1]
  /\ turn'  = "device"
  /\ UNCHANGED halted

Next ==
  \/ SupplyClock
  \/ \E c \in Channels :
       \/ \E on \in BOOLEAN : WriteCTL0(c, on)
       \/ \E m \in {"freerun", "interval"} : WriteCTL1(c, m)
       \/ \E v \in Compares : WriteCCR0(c, v)
  \/ OtherInstruction
  \/ Advance
  \/ DeviceReset

Spec == Init /\ [][Next]_vars

-----------------------------------------------------------------------------
(* Properties.                                                                 *)

TimerType ==
  [cnt      : 0 .. Wrap - 1,
   state    : {"stop", "ready", "running"},
   mode     : {"freerun", "interval"},
   compare0 : 0 .. Wrap - 1,
   start    : 0 .. MaxClock]

(* The idle time a timer allows is at least one clock: with 0 the loop would   *)
(* supply the same clock again and again.                                      *)
TypeOK ==
  /\ clock  \in 0 .. MaxClock
  /\ timer  \in [Channels -> TimerType]
  /\ bound  \in 1 .. NoBound
  /\ halted \in BOOLEAN
  /\ turn   \in {"device", "core", "loop"}
  /\ last   \in [Channels -> -1 .. MaxClock]

(* A skipped clock never jumps over the one at which an interval timer is to   *)
(* fire: a running timer that has not reached its compare value is not past    *)
(* the clock at which it will, whatever the other channels allowed, whatever a *)
(* program wrote meanwhile, and although the bound is computed in 32 bits.     *)
(* Only while it runs: a program that wakes in the middle of a skip can write  *)
(* a smaller compare value and stop the timer, whose counter is still old.     *)
NotOverdue ==
  \A c \in Channels :
    LET t == timer[c]
    IN  t.mode = "interval" /\ t.state = "running" /\ t.cnt < t.compare0
          => clock <= t.start + t.compare0 * Fd

(* An interval timer does not fire again before compare0 + 1 counts are over,  *)
(* whatever is started, stopped or switched meanwhile, unless its compare      *)
(* register is written: the guest's time base never runs fast.                 *)
NoEarlyFiring ==
  [][\A c \in Channels :
       SupplyClock /\ c \in Firing /\ last[c] # -1
         => clock - last[c] >= (timer[c].compare0 + 1) * Fd]_vars

(* The counter that a program reads goes back only where the timer starts      *)
(* anew: stopping holds it, and the subtraction from the clock never borrows.  *)
NeverBackwards ==
  [][\A c \in Channels :
       timer'[c].cnt < timer[c].cnt => timer[c].state = "ready" \/ DeviceReset]_vars

=============================================================================
