# Verification of the athrill V850E2M target

athrill is an instruction-set emulator for automotive microcontrollers. This repository is its
target for the V850E2M: the instructions, the interrupt controller, the timers, the UART, memory
protection and the debugger's view of them. The loop that drives it (the athrill core), the MROS
library and the external devices are other repositories.

This directory holds TLA+ models of the target, translated from its C source, the TLC
configurations that check them, and TLAPS proofs about them. Paths below are relative to
`src/src/` of the repository unless they start with `docs/` or `test/`.

| command | |
|---|---|
| `tlc -workers 2 -config IntcNesting.cfg MCIntc.tla` | checks one run; `PROJECT.json` lists all |
| `tlapm IntcProofs.tla` | checks the proofs of a module |

1. [The system](#1-the-system)
2. [The modules](#2-the-modules)
3. [The runs](#3-the-runs)
4. [Fairness](#4-fairness)
5. [The proofs](#5-the-proofs)
6. [Where the code and its documents disagree](#6-where-the-code-and-its-documents-disagree)
7. [What is not modelled](#7-what-is-not-modelled)
8. [The plan](#8-the-plan)

## 1. The system

What is described is the build of `CMakeLists.txt`: it defines `CPUEMU_CLOCK_BUG_FIX` (the athrill
core advances the device clock, the devices do not), `MINIMUM_DEVICE_CONFIG` and
`DISABLE_SERIAL_CLOCK` (fewer devices are clocked), `SEARCH_REGION_OPTIMIZE` and
`CPU_PERMISSION_OPTIMIZE` (caches in front of memory look-up and permission checks) and
`OPTIMIZE_USE_ONLY_1CPU`; it compiles `timer32.c`, not `timer.c`. Where another build differs in a
way a property sees, the difference is a constant of the model (`Served` of `Serial`, `CoreNum` of
`Intc`).

### One thread

The emulator is one thread. A round of the athrill core's loop is: supply the device clock
(`device_supply_clock`, which clocks timer, UART and interrupt controller in that order), let every
core execute one instruction (`cpu_supply_clock`), advance the clock by one. A core that executed
HALT executes nothing until the interrupt controller clears `is_halt`; while it sleeps the loop may
skip clocks, up to the shortest time the devices say nothing will happen in (`min_intr_interval`).
Nothing pre-empts a C function, so a step of a model is a whole handler. What is concurrent is
logical: interrupt requests, acceptances, the instructions of two cores, and the host at the other
end of a serial line come in every order. The exceptions are the receiver thread of the UDP device
and, depending on the athrill core, the debugger's command thread.

### Components

| component | state | operations | interacts with |
|---|---|---|---|
| Interrupt controller, `device/intc/intc.c` | per core: the interrupt in service, a stack of preempted ones, the waiting entries with the level frozen at the request, and their count; the registers xxICn, IMRn, ISPR; one NMI count and one INTWDT2 flag for all cores | request (`intc_raise_intr`, `intc_cpu_trigger_interrupt`, `intc_raise_nmi`), acceptance at a clock (`intc_raise_pending_intr`), end of service (`intc_clr_currlvl_ispr`, reached from a byte write to xxICn), the IMR hooks, `intc_clr_nmi`, `device_init_intc` | sets PSW, EIPSW, FEPSW, PC and clears `is_halt`; called by devices, stores and RETI |
| Exception entry and return, `cpu/cpu_exec/op_exec_spec.c` | PSW.NP/ID/EP, EIPSW, FEPSW, `is_halt` | EI, DI, HALT, TRAP, FETRAP, SYSCALL, RETI, EIRET, FERET, the illegal opcode trap | decides what the interrupt controller may deliver |
| Device clock and reset, `device/device.c` | `clock`, `min_intr_interval`, the serial operations | `device_init`, `device_reset`, `device_supply_clock` | calls every device |
| 32-bit timer, `device/peripheral/timer/timer32.c` | per channel: counter, stop/ready/running, freerun/interval, compare value, start clock | update and idle bound at a tick; writes to CTL0, CTL1, CCR0 | raises interrupts, bounds the skips of the clock |
| UART, `device/peripheral/serial/serial.c` | per channel: reception wait, "has data to send", flush counter; the registers UDnSTR, UDnTX, UDnRX | clock, register writes, reset | raises interrupts; calls the back end |
| Debugger serial back ends, `dbg_target_serial.c` | ring buffer for typed input; write cache and read cache in front of two files | getchar, putchar, flush, `dbg_serial_in` | the host |
| Memory protection and system registers, `cpu/config/*.c`, LDSR/STSR | the banked system registers; containers of regions derived from the MPU registers; the table of register pointers | LDSR, `cpu_config_*`, permission checks | every load, store and fetch |
| Instruction decoder, `cpu/cpu_dec/` | none | `op_parse`, `OpDecode` | feeds the executor |
| Integer instructions, `cpu/cpu_exec/`, `cpu/cpu_common/cpu_ops.h` | general registers and the flags of PSW | one function per instruction | |
| Loads and stores, `op_exec_load.c`, `op_exec_store.c` | memory, general registers | one function per instruction; CAXI in `op_exec_spec.c` | memory protection, device registers |
| Stack frames and system registers of programs, `op_exec_spec.c` | memory, SP, EP, BSEL, FPSR, FPST, FPCC, FPCFG | PREPARE, DISPOSE, CAXI, SWITCH, LDSR, STSR | memory protection |
| Floating point, `op_exec_fpu.c`, `cpu/cpu_common/cpu_fpu_ops.h` | general registers; FPSR, and parts of it in FPST, FPCC and FPCFG, per bank | one function per instruction, between `prepare_float_op` and `end_float_op` | host floating point, its rounding mode and its exceptions |
| CAN, `can/can.c` | message buffers | only with MROS | |
| Virtual devices, `vdev/` | the clock of the peer simulator, receive flags, a thread | only with a vdev build | |

### What is hard here

The list of hazards, each at its line, is `PROJECT.json`, `hazards`. In short:

* **The order of nested service** rests on levels that were frozen when interrupts were requested,
  while programs rewrite the priorities and masks, and on a stack that is pushed without a limit.
* **Two representations that must agree**: entry and count of waiting interrupts; the frozen level
  and the bit of ISPR; count and offset of the serial caches; the clock and a timer's start.
* **One request, two cores**: NMI has one count and INTWDT2 one flag for all cores, and device
  interrupts go to every core.
* **Skipped time**: the bound on a skip is computed before the core executes its next instruction,
  in 32 bits, and a timer fires at equality only.
* **Things that must eventually happen**: a sleeping core wakes, an NMI is taken, a byte in a cache
  reaches its file.
* **One state in four words**: FPSR and the registers that show parts of it, in three banks.
* **Two number formats, and integers of four kinds, in forty conversions and comparisons**, each
  written out by itself, on masks that are wrong for one of the formats.
* **Two operation codes for fifteen instructions**: what tells them apart is spread over two
  half-words, and the order of the tests decides.
* **A reset in the middle of everything**, which resets the devices' C state but neither their
  registers in memory nor the caches nor the cores.

### What makes each component correct

* Interrupt controller: what is in service waits, is strictly ordered by urgency and resumes in that
  order; counts and entries agree; no interrupt is served without a request; a request is served.
* Exceptions: a handler returns to the PSW it interrupted; a core in the NMI state is not entered
  again.
* Timer: no firing is jumped over, none comes early, the counter never runs back.
* Serial: every byte passes once and in order, in both directions, and none stays behind.
* Memory protection: every access is judged by what the registers say at that moment, and a program
  gains trust only by entering a handler or returning from one.
* Decoder: machine code has one reading, which depends on all of its bits and on none behind it.
* Floating point: a comparison says what its name says, a conversion gives the number or reports,
  results obey the laws of arithmetic, and the registers that show one state agree.
* Instructions: flags, conditions, carries, remainders and saturation agree with arithmetic on
  integers, at any width; a load finds what a store in any other form left; a bit or a half-word of
  memory can be a lock; loops end, calls return and a subroutine gives back the registers it saved.

## 2. The modules

| module | what it is |
|---|---|
| `Intc` | the interrupt controller and the part of a core that accepts interrupts |
| `PriorityInterrupts` | the abstract specification: what a priority interrupt controller promises |
| `IntcRequests` | `Intc` with a history of the requests, and of an NMI, that nobody has served |
| `IntcProofs` | the theorems about `Intc` |
| `IntcPromiseProofs` | the refinement, and the theorems about `IntcRequests` |
| `MCIntc`, `MCIntcRequests` | values for TLC |
| `Timer32` | the timer channels, the device clock and the sleeping core |
| `Timer32Proofs` | the theorems about `Timer32` |
| `Serial` | UD1: UART, both back ends, the driver of the guest and the host |
| `SerialProofs`, `SerialInputProofs` | the theorems about `Serial`: types and output; input |
| `Protection` | one core: LDSR and the banks, the containers of regions, permission checks, exceptions as they change what the core is trusted with |
| `RegionProtection` | the abstract specification: what memory protection promises |
| `ProtectionProofs` | the theorems about `Protection` and the refinement |
| `MCProtection` | values for TLC |
| `Alu` | words of a parametric size, the flags made of operands, the conditions that read them |
| `Core` | the state instructions work on, operands, and what executing one may change |
| `IntegerInstructions` | arithmetic, saturation, logic, shifts, swaps, searches, branches |
| `MemoryInstructions` | loads, stores and the bits of memory |
| `SpecialInstructions` | stack frames, CAXI, SWITCH, LDSR to BSEL and to the registers of floating point |
| `FloatNumbers` | external: the floating-point arithmetic of the host |
| `FloatInstructions` | the floating-point instructions |
| `Instructions` | all of them together and the clock that executes them |
| `Decoder` | machine code: parsers, formats and their fields |
| `Programs`, `MCFloats`, `MCInstructions` | programs for `Instructions` and listings for `Decoder`, and what they compute |
| `InstructionsProofs` | the theorems about `Alu`; which handler a step of `Instructions` is, what every handler leaves alone, and the types of what it writes |
| `ProgramsProofs` | the theorems about the programs: what they compute, for words of every size |

### Intc

`cur` and `stack` are `current_intno` and `saved_intno_stack` up to `saved_intno_off`; `wlvl`,
`wnum` and `wtotal` are `is_waiting_lvl`, `waiting_lvl_num` and `waiting_int_num`; `ic` and `ispr`
are the registers; `wdt` and `nmi` the requests shared by the cores. `psw`, `eipsw`, `fepsw` keep
the bits NP, ID and EP. Only these bits decide what is accepted, and every instruction that writes
them has an action (SYSCALL does what TRAP does to them) but LDSR; see section 7.

`SupplyClock` is `device_supply_clock_intc` for all cores in one step, each with the outcome of
`intc_raise_pending_intr`: `TakesIntwdt2`, `TakesNmi` and `TakesInt` are the three branches with the
early returns as negated conjuncts. `Best` is the result of the linear search of `get_maxpri_itno`,
whose comparison value is `Key` (the level above the number). `RaiseIntr` and `CpuTrigger` are the
two callers of `common_raise_intr`. `WriteIC8` is a byte store to xxICn, including the hook that
ends the interrupt in service; `WriteIC16` and `WriteIC32` are the stores that reach no hook;
`WriteIMR8` and `WriteIMR16` are the mask hooks. In all these the constant `NoUse` is the padding
number and `ImrWidth` the bits per register, so that a small model has a register boundary and a
padding bit too.

An overflow of the stack is undefined behaviour in C, so `Next` stops at a state that violates
`StackFits`; the run `intc_overflow` shows that such states are reachable, and every other result
about `Intc` is about executions without an overflow. `CHECK_DEADLOCK FALSE` is stated there only.

`PriorityInterrupts` knows neither stack nor counters: a set of interrupts is in service, the most
urgent eligible one is accepted, and the most urgent one in service ends. `Promise` in `Intc` is the
refinement mapping: the set in service is the stack and the current interrupt. It is the level
*stored with the request* that the abstract controller compares, as in the code.

`IntcRequests` adds two history variables, which no action reads. `owed` is, for each core, what was
requested there since the core last accepted it; a request that finds the interrupt in service is not
counted, as `set_wait_intno` drops it. `asked` says that an NMI was requested since a core last took
one, where the code has one count for all cores.

### Timer32

`clock`, `timer`, `bound` are `DeviceClockType.clock`, `TimerDevice[ch]` and `min_intr_interval`.
`SupplyClock` updates every served channel at a tick and computes the bound; `Interval` multiplies
modulo `Wrap`, as the 32-bit product does. `turn` is the order of the loop. `Advance` is external and
is all the model assumes of the athrill core: the clock advances by one, or, while the core sleeps
and a timer bounds the time, by at most the bound. `last` is a history variable.

Three facts about this code that no property states, because the repository promises nothing
about them: channels 4 to 7 have their CTL0 at the address of another channel's CTL1 and cannot be
started; a timer that fires is `ready` and bounds nothing until the next tick, so that the skip of a
core that halts at that clock delays its restart; a stopped free-running counter is held by moving
its start one count per served tick, so that it moves by what was skipped.

### Serial

`uart` is `SerialDevice[1]` and its registers, `fifo` the ring buffer, `wcache` and `rcache` the two
caches. `Service` is `device_do_serial`: reception, transmission and flush, with the calls into the
back end (`Loads`, `Flushed`) that the flush makes. `WriteTX` is `serial_put_data8` with `Put`, which
is `file_cache_write`, including the byte that is stored outside of the buffer when the cache is
full. The guest's driver reads UDnRX once per SSF and then clears SSF; it writes UDnTX whenever it
likes. A read of the file may return any number of bytes from 1 to what is there and fits.

The n-th byte written is the number n. No function looks at a byte, so a behaviour with other bytes
is this one renamed, and distinct bytes tell every loss, repetition and change of order apart.

### Protection

`region` holds the registers IPAnL, IPAnU, DPAnL and DPAnU of the setting bank, `configs` the two
containers that `private_cpu_mpu_construct_containers` makes of them, `Built` this function and
`Config` what `private_cpu_mpu_set_common_obj` keeps of an address. An address is the number of its
block of 16 bytes, since a region starts and ends with one. `bank` is the bank that LDSR writes to,
`selected` the test at the end of `op_exec_ldsr` (BSEL is exactly `CPU_CONFIG_BSEL_MPU_BNK_SETTING`);
they differ when a program sets reserved bits of BSEL, which `Reserved` allows. `psw`, `eipsw` and
`fepsw` hold the bits IMP, DMP, NPV and PP that are set. The bank for paging (`0x1010`) has DPAnL and
DPAnU of its own, in another array; writing them is `LdsrOther`.

An action is a whole instruction or a whole access: `Access` includes `cpu_illegal_access`, which the
athrill core calls when an access was refused; `Syscall` includes the read of its table, trusted with
data. `HasPermission` is `cpu_has_permission`; the check for fetches of an optimized build grants the
same and is not a definition of its own. `outcome` is a history variable: the access of the last step.

`RegionProtection` has the registers and what the core is not trusted with, and nothing else. Its
`Holds` reads a mask bit by bit, where the code compares two ranges; the two agree for masks without
holes, the only ones for which `cpu/target_cpu.h:319-320` guarantees anything.

### Alu, Core and the instructions

A word has `Width` bits where the code has 32, a half-word and a byte the half and the quarter of
them; `SignBit` is 2^31. `Alu` is about `SignBit` alone, since the prover knows nothing of powers.
`SumFlags` and `DifferenceFlags` are the calls of `op_chk_and_set_*` that follow an addition or a
subtraction, `Update` sets and clears what an instruction touches, `Conditions` is `op_exec_cond` and
`SetConditions` is `setf_chk_cond`, which reads SAT the other way round.

In `IntegerInstructions` and `MemoryInstructions` every handler of `op_exec_arithm.c`,
`op_exec_sat.c`, `op_exec_logic.c`, `op_exec_branch.c`, `op_exec_bit.c`, `op_exec_load.c` and
`op_exec_store.c` is an action with its `op` for guard. Their state is in `Core`: `code` is the
decoded program by address, `pc` and `r` are `reg.pc` and `reg.r`, `psw` the flags that are set,
`mem` the bytes that the bus serves. `Result`, `Pair`, `Divide`, `Shift` and `Swap` are what
handlers of a kind have in common, with what they do when two of the registers are the same.
`cpu_supply_clock` clears `r[0]` before and after each instruction; the actions clear it after.

The bus is no part of the repository. `Readable`, `Writable`, `Read` and `Written` are
`bus_get_data8/16/32` and `bus_put_data8/16/32` as the handlers use them: an access of one, two or
four bytes, lowest first, at any alignment, is served as a whole or refused; `OfBytes` puts together what
was read. `ReadOnly` makes writes fail where reads succeed. `StackOver` stands for `cpu_may_store_on_stack_overflow`, also external,
which may refuse any store that counts from SP. `FromEp`, `FromR1` and `FarFromR1` are the three ways
to form an address, `BitWrite` the read and write of SET1, CLR1 and NOT1, which nothing comes between
as the handler is one step of the one thread.

Three things stop the emulator (`running`): a handler that fails (`OddPair`, a refused access), an
instruction without a handler (`NotExecuted`), and a division that the host cannot do. The last is
undefined in C; the x86 raises SIGFPE, other hosts answer 0 or the lower word of the quotient, and the
model allows both (`HostTraps`, `Divide`).

### SpecialInstructions

`Prepare` and `Dispose` push and pop the registers of the list in the order of the loops; a slot that
the bus does not serve ends both half way, with SP where the loop had come to (`Pushed`, `Popped`).
`MayPush` is `has_permission_prepare`, which asks for the addresses above SP although the loop writes
below it (`op_exec_spec.c:567`); `ProgramsEnd` says what follows for a subroutine. `Caxi` compares and
exchanges half-words at an address rounded down to four, as the code does (section 6). `Bsel` is
`set_sysreg_grp_bnk`, and `Ldsr` with `Synced` what `fpu_sync_sysreg` copies when BSEL is exactly
0x2000. The instructions that change PSW and the saved contexts are in `Intc` and `Protection`.

### FloatInstructions and FloatNumbers

A format is a record: the bits of exponent, of fraction, and how `cpu_fpu_ops.h` reads them. Its masks
for doubles miss the lowest bit of the exponent and take three bits of it for fraction (`missed`,
`shared`), so that no infinity and no NaN of a double is recognised.

Every handler of `op_exec_fpu.c` is an action: which operands are flushed, in which order they go to
the host, what is limited or answered with a NaN by the handler itself, whether a subnormal result is
flushed, what is written when two registers are the same, and which exceptions are added. `Raise` is
`end_float_op`: exceptions are added to those FPST has and the sum goes to FPST and FPSR. `Computes`,
`Fused3`, `MulAdd` and `Converts` are what handlers of a kind have in common. The handlers read and write
FPSR and its parts in the bank that BSEL selected, of whatever group: `fpu.bank`.

`FloatNumbers` is what C, libm and the host provide: `+ - * /`, `sqrt`, `fma`, the rounding functions and
the casts, in the four rounding modes, on integers and shifts. An operator gives the *set* of what a
host may answer: the payload and sign of a NaN that is made, whether a number that rounds up to the
smallest normal one was tiny, and the result of a cast that C leaves undefined are open. The host's
operations are taken to stay between `prepare_float_op` and `end_float_op`, although nothing in the
source (`FENV_ACCESS`) tells the compiler so.

### Decoder

An instruction is three half-words. Each group of parsers of `op_parse_private.c` is an operator that
gives its rows in the order of the tests: when a row holds, its operation and its format. `Parse` takes
the first that holds, `Fields1` to `FieldsF` are the functions of `op_dec.c`, `OpFormatSize` its table.
The programs of `Instructions` are given decoded, with immediates of the width the model has.

## 3. The runs

| run | question | bounds, and why they are enough |
|---|---|---|
| `intc_nesting` | do nested interrupts keep order, levels and counts, and implement the promise, under every register write? | 1 core, 3 interrupts, 2 levels: equal and different levels, a preemption of a preemption, a word write across two registers; IMR registers of 2 bits put a boundary between interrupts 1 and 2, and interrupt 2 is the padding number. A fourth interrupt brings the overflow, which has a run of its own |
| `intc_cores` | are two cores independent although every request goes to both and MIR writes cross over: does each keep the requests it has not answered, all of them and no others? | 2 cores, one device interrupt and one MIR interrupt, one level: the device interrupt waits on both cores, one of them serves it, or writes its control register, before, while or after the other does |
| `intc_fatal` | NMI, INTWDT2, traps and HALT: what does FEPSW keep, is a halted core woken? | 1 core, 1 interrupt, one NMI outstanding; the count may go below zero by RETI, as in the code, and is bounded at -2 |
| `timer` | skips, bounds, restarts | 2 channels, `Fd` 3, a word of 9 values and compare values 0, 1, 2, 4: (4 - 1) * 3 is 0 modulo 9 and 4 * 3 is 3, so that both kinds of overflow of the bound occur, and a skip of two counts is long enough for a core that wakes in the middle of it to write two registers before the next tick; 17 clocks are a whole period of the longest compare value and its restart |
| `serial` | is a byte lost, repeated or reordered, does one stay behind? | caches of 4, threshold 2, counts of 2: every wrap of the ring and of the read cache, both reasons to flush, a reset anywhere; 6 bytes out and 5 in are more than a cache holds |
| `protection` | is an access ever judged by stale or wrong containers, and can a program get trust by itself? | one IPA and two DPA regions (the first and the last are reset differently); ranges and masks of one and two bits that overlap in part, with an access across two blocks and one below the ranges; block numbers of 3 bits, of which 2 are kept, and memory below 4, where nothing is cut off (above: `protection_high`); programs change one register at a time, so every half-written region occurs |
| `instructions` | do flags, conditions, carries, remainders, saturation, shifts, loads, stores, bits, frames, loops and calls, floats and conversions mean what programs take them for, and machine code what it says? | words of 8 bits, the smallest with bytes of more than one bit: every instruction, with three registers and with two of them the same; comparison with each condition, in its three uses, on the pairs of 20 words, among them the ends and the middle of words and half-words; every divisor; every word through every shift and search; sums and differences of two words with 0, 1, 127, 128 and 255 in each, which are the places where signs, carries and overflows change; each of 9 stores before each of 15 loads at four addresses, from one byte before to two behind, near both ends of memory, with displacements of both signs; each bit operation before each other; two CAXI in a row; a loop that makes a whole turn of its counter; frames of three registers where memory ends, may not be written, or suffices |
| | floats | singles of 5 bits of exponent and 2 of fraction, doubles of 6 and 9: subnormals, both zeros, normals, infinity, and quiet and signaling NaNs in each; the largest single, 57344, is below 2^16, so that singles fit into a long and overflow a word, and doubles overflow both; every single and doubles around every end of the integer types through every conversion; each of 16 conditions on every pair of 16 singles and of 14 doubles; every sequence of three steps of eight that write, raise, compare or change the bank |
| | machine code | every base code with registers that matter to it (0, 1, 16, 29 to 31), the codes 60 to 63 with all values of bits 16 to 19, every extended code with every value of bits 17 to 20, floating point with one operand with every `reg1`: 15,600 words, 9,304 of them instructions, among them each of the 205 operations; and from each every bit of 48 flipped |
| `intc_overflow`, `intc_intwdt2`, `intc_nmi`, `protection_high`, `instructions_length` | the disagreements of section 6 | the smallest instance that shows each; `intc_nmi` has two cores, one interrupt that is never requested, and one NMI outstanding |

The properties, by what they protect:

* `ServiceWaits`, `WaitCount`, `IsprInService`: the redundant structures of the controller agree.
  They fail when `set_wait_intno` or `clr_wait_intno` forgets one of them, or when the end of an
  interrupt clears the wrong entry.
* `NestingOrder`, `LevelKept`, `OnlyTheCurrentEnds`, `KeepsPromise`: preemption and resumption follow
  the urgency at the request. `OnlyTheCurrentEnds` says which stores end a service: a byte write to a
  control register, never a wider one, and then only the interrupt that is current. `KeepsPromise` is the refinement; it also says that no interrupt is
  accepted while a more urgent one is eligible.
* `RequestsWait`, `NoSpuriousService`: the waiting entries are the requests that were not answered, so
  that none is lost but the repeat of one in service, and one acceptance per request at most. They are
  the properties of `intc_cores`; those of `intc_nesting` are proved for one core and for two.
* `FepswKept`: the fatal exceptions. It excepts FETRAP and INTWDT2, which do not look at NP and overwrite
  FEPSW when they nest (`op_exec_spec.c:394`, `intc.c:436-451`).
* `HaltedCoreWakes`: liveness of the controller. `NmiIsTaken`, that an NMI is taken, is violated (section 6).
* `NotOverdue`, `NoEarlyFiring`, `NeverBackwards`: the time base of the guest.
* `OutputAppended`, `InputInOrder`, `EventuallyWritten`, `TransmissionEnds`, `InputOffered`: the
  serial line.
* `RegionsCurrent`, `KeepsProtection`: what an access is checked against, and the verdict.
  `PrivilegeIsEntered`: who becomes trusted, and that what the core was trusted with before is saved.

* `ComparesAsIntegers`, `WideArithmetic`, `DividesOrReports`, `FitsTheWord`: what one instruction
  leaves in registers and flags is what the next one needs. `LoadsSeeStores`: the same of memory, and
  that a store leaves the other bytes alone. `BitsAreLocks`: SET1 works as a test-and-set, CAXI as a
  compare-and-exchange of words that have nothing in the upper half (for others see section 6). `ProgramsEnd`: branches, links and frames, as liveness.
* `FloatsCompare`, `ConvertsOrReports`, `FloatLaws`: floating point against numbers (`Below` is their
  order, by sign, exponent and digits) and against itself. `FloatsCompare` is about all singles, and about
  doubles that are numbers: what CMPF.D makes of NaN contradicts its comment (section 6). `FpuMirrorsAgree`: FPSR and what FPST, FPCC and FPCFG show of it. Where the code falls short of
  what the name of an instruction says, the property states what it does instead, with the line.
* `OneReading`: no two rows of a parser disagree on an instruction, every bit of it counts, and what
  is behind it does not.

Every property of a passing run has a mutant in `PROJECT.json`: a mapped definition with a plausible
slip in it, with which TLC finds the property violated. The slips are the operators named after the
definitions they vary, placed just before them.

## 4. Fairness

`FairSpec` of `Intc` is weak fairness of `SupplyClock`: the loop supplies the device clock for ever,
and in no state does a device or a core hold it up. Nothing is assumed of programs or of requests:
they may come or not.

`HFairSpec` of `IntcRequests` is the same fairness, without resets of the devices: `device_reset` leaves
the cores alone, and a core that it finds in the NMI state would return from an NMI that is counted no
more, which is another matter than the one `NmiIsTaken` is about.

`FairSpec` of `Serial` is weak fairness of `Service` and of `Guest`: the loop supplies the clock and
runs the core. `Guest` as a whole is fair, not its parts: a guest need never read or write. The host
and the reset are not fair.

`FairSpec` of `Instructions` is weak fairness of `WithoutFloats`, all actions but those of floating
point: the loop supplies the core's clock for ever. The programs that are to end contain no float.

`Timer32` has no liveness property: that a timer fires follows from the loop advancing the clock,
which is external; `NotOverdue` says the rest.

## 5. The proofs

### Intc

The assumption is `IntcAssumption`: one or two cores (`CPU_CONFIG_CORE_NUM`), any number of
interrupts up to 65536 (the key packs the number into 16 bits), any number of levels, any values that
programs write, any bound on outstanding NMIs. TLC evaluates it in every run of `Intc`.

`IntcProofs` proves `Spec => []IInv` with `IInv == TypeOK /\ WaitCount /\ ServiceWaits /\
NestingOrder /\ IsprInService`. No conjunct is inductive alone:

* `TypeOK` needs `WaitCount`, because `waiting_int_num` stays a natural number only if what is
  cleared was counted;
* `WaitCount` needs `ServiceWaits`, because the end of an interrupt decrements for one that must
  be waiting;
* `ServiceWaits` needs `NestingOrder`: clearing the current interrupt's entry must not clear that of
  a saved one, and it is the strict order of the keys that tells them apart (an interrupt is never
  on the stack twice);
* `IsprInService` needs `ServiceWaits`, as the bit is looked up in the waiting entry;
* `NestingOrder` needs that a frozen level does not change while its interrupt is in service.

The keys are ordered as pairs of level and number (`KeyOrder`, by arithmetic from the bound on
interrupt numbers), and the search returns the least (`BestIsLeast`, by the well-foundedness of the
natural numbers). From the invariant follow, for every value of the constants: `TypeCorrect`,
`ServiceAlwaysWaits`, `AlwaysNested`, `CountsAgree`, `IsprOfService`; and step by step the action
properties `LevelsAreKept`, `OnlyCurrentEnds`, `FepswIsKept`.

`IntcPromiseProofs` proves `Spec => KeepsPromise`: with the invariant, `SupplyClock` is `Accept`,
a raised interrupt is `Request`, a byte write is `End` or `Remask`, the mask writes are `Remask`, a
reset is `Reset` and everything else stutters.

The same module proves `RequestsWait` and `NoSpuriousService` of `IntcRequests`, whose steps are steps of
`Intc` (`HistoryIsSilent`). `EveryRequestWaits` needs `IInv` beside: the end of an interrupt takes its
waiting entry away with the interrupt, and no other, because a saved one is never the current one too;
a request adds to what waits and to what is owed alike (`Requested`). `ServedOnlyOnRequest` follows: what
is accepted waited and was not in service (`CandidatesAreEligible`), so it was owed.

### Timer32

`Timer32Proofs` is about `TimerAssumption`: any set of channels, any `Fd`, any word, any compare values
that fit, and every clock before a counter would wrap (`MaxClock < Wrap * Fd`). `IInv` is `TypeOK` and,
for each channel, three facts:

* `CounterBehind`: the start of a counter is a multiple of `Fd`, and what it has counted since is not
  more than has passed; while the device is still to be served at this clock, less. So the subtraction
  from the clock does not borrow, which `TypeOK` needs.
* `AheadOfClock`: a running timer is due at a clock that has not passed, and neither the next clock
  nor the bound goes beyond it. `NotOverdue` alone is not inductive: the bound is used a step after it
  was computed, when the core may have written the registers of other channels. The bound is a product
  modulo the word, and what is left of it after an overflow is less than the product itself.
* `FiredBefore`: since a timer fired, it has been started at least one count later, or its counter has not
  got below the compare value, so that it cannot fire.

Clocks are compared in whole counts: of two multiples of `Fd` the smaller one is smaller by `Fd` at
least (`MultiplesApart`). This gives `NeverOverdue`, `TimeBaseNeverFast` and `CounterNeverBackwards`.

### Serial

`SerialProofs` is about `SerialAssumption`: any sizes, thresholds and counts. `TypeCorrect` needs only
`Bounded` beside the types: the input file is never read beyond its end.

`NothingLost` proves `OutputAppended` under one more condition, which the code does not check:
`CacheSuffices`, the build clocks UD1 and `Threshold + (MaxResets + 1) * FlushMax <= Size`. The
invariant that makes it inductive is `Filling`: what the cache holds is what a flush may leave there
(less than `Threshold`), plus one byte per service since the flush, plus what each reset adds by
setting the count of the services back to 0. `RoomToWrite` draws from it that the cache has room
whenever the guest writes, so `file_cache_write` never meets the full cache it mishandles
(section 6). With the values of the code, 128, 1024 and `DEBUG_FUNC_SERIAL_FLUSH_COUNT_MAX` 100, the
condition allows seven resets; without a reset it allows every flush count up to 896, which
`docs/configuration.md:31` does not mention. It is stated for a guest that executes one instruction
between two services. The run `serial` is at the limit of the condition: 2 + 2 * 1 = 4.

`SerialInputProofs` proves `InputInOrder` without a condition. What its invariant has besides: `Ring`,
the write position of the ring buffer is `count` ahead of its read position; `NothingRead`, nothing was
read before the file was open; `Opening`, the file was opened at a place that it has. The proof follows
a byte from hand to hand: `UnreadFirst` and its like for the ring say that taking a byte splits the
sequence into this byte and the rest, and that a read of the file joins what it returns to what the
cache had. It holds for reads that return fewer bytes than asked for.

### Protection

`ProtectionProofs` needs nothing of the constants but, for `AlwaysCurrent`, that programs set no
reserved bit of BSEL. Then `selected` and `bank = "setting"` are the same (`BankAgrees`), so every
LDSR that can change a register rebuilds the containers, and `RegionsCurrent` is inductive with it.
Without the condition `SelectedCurrent` remains: containers may be stale while another value of BSEL
selects the bank, and the LDSR that selects it properly repairs them. `PrivilegeEntered` follows from
the actions one by one. `TypeCorrect` takes for granted that `2 ^ Width` and `2 ^ Kept` are positive
natural numbers, which the provers do not know; its point is that cutting an address to the bits a
container keeps gives an address (`CutIsShorter`).

`RangesProtect` proves the refinement `KeepsProtection` for programs that keep to ranges
(`KeepToRanges`): no masks, no address that a container cuts off (section 6 has the others), no
reserved bits of BSEL, no access that ends before it starts. `Ranges` is the part of this that the
registers keep, `FindsTheRegions` the argument about `is_overlap`: for a region with its addresses in
order, the two comparisons hold exactly if a block of the access is in it. With that and
`RegionsCurrent`, what `HasPermission` grants lies between what must and what may be granted
(`JudgesRightly`). With masks the refinement is model-checked.

### Alu

`InstructionsProofs` begins with words of every size. `Turn` says what a remainder is within one turn of
the modulus; from it `DifferenceIsExact` and `SumIsExact` relate the 64-bit borrow and carry, the word and
the overflow to the exact number. `TwoWordsSubtract` joins two of them: SBF continues what SUB
began. `ConditionsCompare` is the meaning of ten conditions after a comparison.

### Instructions

`TypesAreKept` is `Spec => []TypeOK` for all of `Instructions`: every handler, for
any `Width`, formats of floats of any size, any memory, and any program, not only those of
`MCInstructions`. The assumption about programs is `DecodedAssumption`: their instructions are what
`op_parse` makes of machine code (`IsDecoded`), so registers that exist, bits of a byte or of the
condition bits, and for LDSR the fields of the register it writes. The number of registers is even, as a
pair of them begins at an even one.

`TypeOK` is not inductive: it speaks of each register of floating point, in each bank, by its fields, which
does not say that `fpu` is a record of functions of records with these fields and no others; of an EXCEPT on
anything else nothing follows. `FpuStates` is the set of states there are, and `TypedSoFar`, the invariant, has it next to the types of registers, flags
and bytes that all handlers rely on (`CoreTyped`) and to what the program and the history are (`Started`).
`StepTyped` takes a step to its group (`GroupOfStep`) and each group has its
lemma: `ArithmeticTyped`, `DivisionTyped`, `SaturationTyped`, `LogicTyped`, `ShiftsTyped`, `SwapsTyped`, `BranchesTyped`,
`LoadsTyped`, `StoresTyped`, `MemoryBitsTyped`, `SpecialTyped`, and `FloatsTyped` for the floating-point
instructions. What is not a matter of `Word` alone:

* a quotient fits a word unless it is the one the hardware traps on, and the parts of a product of two
  words are words, signed or not;
* bytes joined make a word, and the bytes stored are bytes, with the stack frames of PREPARE and a bit
  replaced in place (`BitReplaced`);
* what the host answers has the bits of its format. `Rounded` gives a datum of the format for every
  number, those that carry into the exponent, subnormal numbers and overflow included; `Digits` bounds the
  binary digits it has to take apart. A conversion to an integer gives a word, or two, also
  where C leaves the cast undefined.

### Programs

`ProgramsProofs` proves `[]P` of `Instructions` for eight of the properties that the run `instructions`
checks on words of eight bits: for any `Width`, any number of registers, and every value of the registers
and flags the programs start from (the constant `Programs` is any set). The assumptions, all evaluated by
TLC in that run, are

* `PowersAssumption` of `FloatInstructions`: powers of two are positive and add up
  (`2 ^ (m + n) = 2 ^ m * 2 ^ n`), up to the most digits a number has before it is rounded (`Digits`), which
  the provers do not know;
* `ProgramsAssumption`: there are the registers the programs name, a word holds their addresses, the
  displacements of branches, loads and stores have bits enough for those the programs use, and neither r1
  nor EP is the stack pointer, so that no store is refused as an overflow of the stack;
* `StartsAssumption`, on how `Programs` starts them: the programs that branch start from zero in the register
  that tells whether they did, the one that asks for SAT starts without it, and LDSR is given values
  the registers can hold. These are conditions of the properties themselves, as each speaks of programs
  that start so. A reserved bit of BSEL, and LDSR of FPSR, which do break the mirrors, have programs and
  cases of their own (`FromReserved`, `ClearInFpsr`).

An invariant of a program is what holds before each of its instructions: `ComparesSoFar`, `WideSoFar`,
`SaturatesSoFar`, `ShiftedSoFar`, `NormalisedSoFar`, `ClearSoFar`, `AccessSoFar`, `BitsSoFar`,
`CaxiSoFar`, `SinglesSoFar` and `DoublesSoFar` say so, next to `Started`, that program and history are
what they were. Two facts about all of `Instructions` carry them:

* `GroupOfStep` and `Dispatch` of `InstructionsProofs`: a step is made by the group of handlers that the
  operation at `pc` belongs to, and for the operations of these programs by its own handler;
* `StepKeeps`: no step changes program or history, and the registers of floating point change by LDSR, by
  BSEL or by raising and comparing only.

The theorems:

* `ConditionsAgree` (`ComparesAsIntegers`): SETF, CMOV and a branch read from the flags of a
  comparison what it means for integers, for each condition that has such a meaning.
* `WideIsExact` (`WideArithmetic`): ADD with ADF, SUB with SBF, SHL with SASF, and MACU compute on two
  words what integers say, with carry and overflow of two words. `HighDecides` is the reason: sign and
  overflow of two words are those of the upper one.
* `DivisionsReport` (`DividesOrReports`): a division gives quotient and remainder and clears OV, or leaves
  the registers and sets it when the divisor is zero, for each of the divisions and every operand;
  `QuotientRounds` is why truncation leaves a remainder with the sign of the dividend.
* `WhatFitsTheWord` (`FitsTheWord`): sums and differences saturate at the ends (also in the second step,
  after SAT was set by the first); a shift and its way back keep what fits (`ShiftedLeft`,
  `ShiftedBack`); normalisation finds the least shift, by well-founded induction on the natural
  numbers (`HasLeast`).
* `MirrorsAgree` (`FpuMirrorsAgree`): in each bank, not only in the selected one, FPST, FPCC and FPCFG show
  what FPSR has (`Mirrored`). The property of the selected bank alone is not inductive: BSEL may select
  any other next. After FPSR itself was cleared, `ClearSoFar` follows the stale copy up to the instruction
  that brings it back.
* `StoresAreSeen` (`LoadsSeeStores`): each of the nine forms of store followed by each of the fifteen forms
  of load, with any memory and at any addresses, the ones included where the two accesses overlap in
  part. `Stored` is the memory a store leaves and `Finds` what the load makes of its bytes; a
  displacement that fits its bits arrives whole (`FitsBits`, `Displacements`), and only what the bus does
  not serve stops the program.
* `LocksHold` (`BitsAreLocks`): two bit operations, whichever, on any bits of any bytes, and two CAXI on any
  words with nothing in the upper half. `BitReplaced` is why a bit can be replaced by arithmetic: what is below a power of two does
  not reach into its multiples (`BitBelow`), nor what is at it into the greater ones (`BitAbove`).
  `TokenCompares` is why CAXI, which extends the sign of the half-word and subtracts, compares it with the
  low half of r2 and nothing else; `HalfReplaced`, why the second finds what the first wrote.
* `FloatsCompareAsNumbers` (`FloatsCompare`): each of the sixteen conditions of CMPF says of two singles,
  and of two doubles that are numbers, what its name says of the numbers they stand for, whatever the bits of exponent and
  fraction; TRFSR and CMOVF find the condition bit that was set and not the other one. `FurtherIsGreater`
  is why comparing bits compares numbers, subnormal ones included: the distance from zero grows with
  exponent and digits as the magnitude of the bits does. `HoldsSays` draws from it what the macros of
  `cpu_fpu_ops.h` and the host find, and from `NansRecognised` that a single is unordered exactly if it is
  NaN and a double that is a number never.

### Only model-checked

* Liveness: `HaltedCoreWakes`, `EventuallyWritten`, `TransmissionEnds`, `InputOffered`,
  `ProgramsEnd`. Temporal proofs under fairness are out of the prover's reach.
* `ConvertsOrReports`, `FloatLaws`: which number the host's arithmetic rounds to, by shifts whose
  distance is computed from the operands. That the answer is a datum of the format is proved
  (`TypesAreKept`), not which.
* `OneReading`: a half-word of machine code is taken apart by arithmetic on its bits, for each of 15,600 words.
* `KeepsProtection` with masks, which are arithmetic on bits.

## 6. Where the code and its documents disagree

| run | the code | the text |
|---|---|---|
| `intc_overflow` | `intc.c:301-304` saves a preempted interrupt without a limit, and equal levels nest by number | `intc.h:153` has room for one per level |
| `intc_intwdt2` | `intc.c:432` accepts INTWDT2 only with NP set; with NP clear it is never taken and blocks all others | `intc.c:478-481`: the pending request of the highest priority is executed |
| `intc_nmi` | `intc.c:545`: each core that returns from NMI takes the one count of all cores down, so that two cores that took one NMI lose the next | `intc.c:478-481`, as above: the pending NMI is executed by no core |
| `protection_high` | `cpu_config.c:369-370` masks the addresses of a region with `0xFFFFFF0`, so bits 28 to 31 are lost | `cpu/target_cpu.h:311-313`: `au` is the upper address, `al` the lower one |
| `instructions_length` | `op_exec_logic.c:631, 679, 736, 793`: HSH, HSW, BSH and BSW add 2 to the program counter | `cpu/cpu_dec/op_dec.c:35-47`: their format, 12, has 4 bytes |

`intc_nmi` needs the two cores that `config/cpu_config.h:8` compiles in (`CPU_CONFIG_CORE_NUM`), although
`docs/configuration.md:8` speaks of one. In its trace both cores take an NMI (count 1), core 1 returns (0),
the next NMI is requested (1) before the device clock, core 0 returns (0), and both cores wait outside of
the NMI state for ever. With `CoreNum = 1` in `IntcNmi.cfg` TLC finds no violation. Without a request in
between the count goes to -1, and the next NMI is then lost in the same way.

Other places a reader of the code should know, which no text of the repository decides and no run
claims: a byte written to the xxICn register of any interrupt ends the interrupt in service
(`intc.c:594-638`), so a handler that re-prioritises another one ends itself; a request that repeats
while its interrupt is in service is lost at its end (`intc.c:154-167`); MAC joins the words of its
addend with OR after extending the lower one (`op_exec_arithm.c:1412`); the searches set CY in both
branches (`op_exec_bit.c:491-497`); SAR with three registers fills with zeros, and the shifts with
three registers take Z and S from `reg2` (`op_exec_logic.c:551-591`); SATSUB's CY is the carry of
adding the negated operand; SETF and CMOV read SAT inverted (`op_exec_arithm.c:647`); PREPARE asks for the
memory above SP and writes below (`op_exec_spec.c:567`).

Three more disagreements are in the model as they are in the code, and the properties next to them are
stated so that they do not depend on them:

* CAXI's comment says `Load-memory(adr, Word)` and `Store-memory(adr, token,Word)`; its code reads,
  compares and stores 16 bits, and extends their sign into `reg3` (`op_exec_spec.c:747-809`). A lock whose
  values fit 15 bits, in a word that is otherwise zero, cannot tell; any other can.
* The comment of CMPF.D says `if isNaN(reg1) or isNaN(reg2) then ... result.unordered ← 1`, with an
  exception if `fcond[3] == 1` (`op_exec_fpu.c:2022-2035`). The masks of a double miss bit 20 of its upper
  word (`cpu_fpu_ops.h:50-64`), so that no NaN is recognised: none of the conditions, not even UN, holds of
  it, and no exception is raised.
* `file_cache_write` reads the offset before it flushes a full cache (`dbg_target_serial.c:446`): the byte
  goes outside of the buffer and the oldest byte is written again. The cache gets full only where UD1 is
  not clocked, which `docs/configuration.md:24-26` says of the CMake build and forbids to builds that use
  the file, or where `DEBUG_FUNC_SERIAL_FLUSH_COUNT_MAX` is larger than what the cache has room for. In a
  build that clocks UD1 with the default count, `OutputAppended` holds (run `serial`, theorem `NothingLost`).

Of floating point, in the same sense:

* With the same masks no infinity of a double is recognised either.
* `prepare_float_op` compares the two bits of FPSR.RM with 0x10 and 0x11 (`op_exec_fpu.c:70-113`): rounding
  up and down are never selected. `is_FPSR_FS` is always true, so subnormals are always flushed, whatever
  the comment at `cpu_fpu_ops.h:65-69` says of FS; an exact subnormal result is flushed without an exception.
* CVTF and CEILF to integers truncate. CVTF.LD and CVTF.ULD join the words after the low one was extended
  with its sign, which loses the high word (`op_exec_fpu.c:2216-2288`). CVTF.DUW, TRNCF.DUW and CVTF.DUL wrap
  what does not fit without an exception. The comments of RECIPF promise a zero or an infinity with a minus
  that the code does not give.
* MAXF.D, FLOORF.SL and FLOORF.SUL write a second register without asking whether there is one: for
  r31 that is the register group behind the array.
* LDSR to FPSR is not copied to FPST, FPCC and FPCFG (`cpu_fpu_ops.h`, `fpu_sync_sysreg`), so an
  exception cleared in FPSR is back with the next one; the registers are those of the bank that is
  selected even when the group is another (`target_cpu.h:277`).
* FMAF.S, FMSF.S, FNMAF.S and FNMSF.S have handlers, but no operation of the decoder leads to them.

## 7. What is not modelled

* Program counters, vectors, exception codes and EIIC/FEIC: no property needs them, and they are
  single assignments next to the ones modelled.
* LDSR to the bits NP, ID and EP of PSW, EIPSW and FEPSW, in `Intc`: `Protection` has it for the
  protection bits, and a program that writes NP or EP itself is outside of what `Intc` promises.
* The cause of a refused access (the optimized check of a fetch reports MDP where the other one
  reports MIP), the registers that record it, and the containers' release and allocation.
* In `Protection`, accesses whose end wraps around 2^32, and which range PREPARE and DISPOSE ask for.
* The athrill core's loop, which calls the device clock and `device_reset`: external, in any order
  (`Intc`) or as far as the devices tell it what to do (`Timer32`).
* I/O errors of the serial back ends, after which the process exits; UD0's terminal output.
* Traps by a floating-point exception: the code raises none. FPEPC, which no handler writes.
* A host operation that an optimizing compiler moves out of `prepare_float_op` and `end_float_op`.
* STSR, which only reads, and the fetch of an instruction: a
  program is decoded before it runs, and the check of a cached fetch, which takes every instruction for
  two bytes long since `type_id` is never written (`cpu_config.c:737`), has no property.
* CAN and the virtual devices: not in the CMake build of this repository; planned.
* `timer.c`: not compiled. `tools/`, `CMakeLists.txt`: packaging.

## 8. The plan

What is left, in this order, each with its map, its run and the mutants of its properties:

1. **The fetch** (`Decoder` with `Protection`): programs as machine code, the check of the bytes of an
   instruction, and the cache of decoded ones with `type_id` as it is.
2. **Virtual devices** (`VdevUdp`): the receiver thread against the emulator thread; the clock that
   the peer simulator sends; what is overwritten before it is read. It is not in the default build
   and comes last.
3. **More proofs**: `ConvertsOrReports` from the bounds of `Rounded`, one direction of conversion at a
   time, and `OneReading` one opcode at a time.
