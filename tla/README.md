# ts7200: models and proofs

`ts7200` emulates a TS-7200 single-board computer for CS 452 kernels: an ARM
core (the crate `armv4t_emu`), RAM, two vectored interrupt controllers (VIC),
three timers, two or three UARTs and a system controller. The emulator is a
concurrent program. One CPU thread executes the guest and touches every device;
each timer has an interrupter thread, each UART has two buffer threads and up to
two I/O threads; they meet in mutexes and in crossbeam channels. Almost nothing
of that interleaving is reached by a test, and it is what this directory is
about.

Paths such as `device.rs:182` are relative to `src/src/` of the repository.

## Inventory

| component | code | state | operations |
|---|---|---|---|
| UART | `devices/uart/device.rs` | `State` under a mutex: registers and their latch, receive FIFO, count of characters being transmitted, busy, overrun, timeout, CTS change, levels last sent | register accesses (CPU thread); *UART Internal Reader* (input thread) and *UART Internal Writer* (output thread); `UartWorker::drop` |
| UART I/O tasks | `devices/uart/iothreads/mod.rs`, `cfg.rs` | channels `uart_input`, `uart_output` | `reader_to_chan`, `writer_to_chan`; which of them a UART gets |
| terminal | `devices/uart/iothreads/stdio.rs` | raw mode; a channel for Ctrl-C | *stdio reader*, *stdio writer* |
| VIC | `devices/vic/` | per bank: status, enable, select, soft interrupt, 16 vectors | `assert_interrupt`, `clear_interrupt`, register accesses, `irq`, `fiq`, `isr_address` |
| Timer | `devices/timer.rs` | Load, Value, Control, `microticks`, `last_time`; in the interrupter: next deadline and period | register accesses (each runs `update_regs`), interrupter thread, drop |
| Syscon | `devices/syscon.rs` | power state, software lock, `DeviceCfg`, two scratch registers | register accesses |
| machine | `sys/ts7200/mod.rs` | CPU, bus, `interrupt_bus` receiver, breakpoints, watchpoints, frozen | `step`, `check_device_interrupts`, `run` |
| GDB stub | `sys/ts7200/gdb.rs` | none of its own | resume, registers, memory, break- and watchpoints |
| RAM | `devices/ram.rs` | bytes, and which are initialised | accesses of 8, 16, 32 bits |
| memory adapter | `memory/`, `util/mem_*.rs` | the last exception of an instruction | accesses |
| start-up | `main.rs` | none | options, UARTs hooked up, hacks applied, run or GDB, dump and post-mortem session, drop |

How they interact:

- *interrupt_bus*: one unbounded channel of (interrupt, level). All UART
  threads, all interrupters and (through register accesses) the CPU thread send;
  the CPU thread drains it into the VICs after each instruction, or, halted
  under `run()`, blocks in `recv()` on it.
- *Mutex\<State\>*: the UART's registers, shared by the CPU thread and both buffer
  threads. Channel operations happen inside and outside of it.
- *channels of characters*: host reader -> `uart_input` -> input thread -> FIFO;
  guest -> `device_output` -> output thread -> `uart_output` -> host writer.
- *the same bus*: the CPU's accesses go through `MemoryAdapter` and `MemSniffer`
  to `Ts7200Bus` and on to RAM or a device; the GDB stub's go to `Ts7200Bus`
  directly, and with the same effects.
- *step*: called by `run()` (Blocking) or by the GDB stub (NonBlocking); `main`
  goes from the one to the other, and after a fatal error to a second session
  on a frozen machine.
- *Exit channels and closed channels*: `UartWorker::drop` ends and joins its
  threads; a timer's interrupter is never joined and ends by its channel being
  closed.

What is hard, and the properties that answer it:

- UART: no character lost, doubled or reordered in either direction except by
  an overrun that the guest can see (`RxIsPipe`, `TxIsPipe`); every cause of an
  interrupt is on its line, and every line is right in the VIC once the bus is
  drained, whichever of three threads sent; the receive timeout, decided on
  before the wait that it is for, neither comes for an empty FIFO nor forgets a
  character; the drop terminates with everything written out, whatever has
  become of the writer task.
- terminal: Ctrl-C gets through any amount of output, output gets through the
  end of stdin, and no way out of the process leaves the terminal in raw mode.
- VIC and machine: no interrupt on another's bit, none owed between
  instructions, none stuck; Halt ends when it should.
- Timer: registers that count only when looked at agree with a counter that
  always counts; the interrupter, which keeps its own time, stays in phase with
  them, survives being late, and obeys Control.
- Debugger: the guest stands still between the client's commands, never runs
  past a breakpoint, and never again after a fatal error; what an instruction
  did to a watched address or to uninitialised RAM is not lost among its other
  accesses; the client gets the machine back.

`PROJECT.json` lists each hazard at its line with the properties that cover it.

## Modules

| module | content |
|---|---|
| `UartState` | `State` and its methods as operators from a `State` to the `State` that a critical section leaves; no variables |
| `Uart` | one UART with all of its threads, the interrupt bus, the CPU thread's drain and drop, and the host's tasks |
| `Pipe` | abstract specification: what a direction of a UART promises |
| `DeviceLine` | abstract specification: what `Ts7200` takes an interrupt line to be |
| `UartProperties`, `UartMC` | what is checked of it, with the refinement mappings to `Pipe` (twice) and `DeviceLine` (three times); constants of the runs |
| `Stdio`, `StdioProperties` | the terminal's two threads with `main` and the rest of the UART as they see them |
| `Vic`, `VicMC` | both banks, the daisy chain, the wiring of the interrupts |
| `Ts7200`, `Ts7200Properties`, `Ts7200MC` | `Ts7200::step` with `Vic` (extended) and the Halt part of Syscon; a device is its interrupt line |
| `Timer`, `TimerProperties`, `TimerMC` | registers with `update_regs`, the interrupter and its channel, the drop; explicit time |
| `Countdown` | abstract specification: a counter that is decremented at every tick |
| `MemoryBus` | one access: decoding, widths, exceptions, initialised RAM; no variables |
| `Debugger`, `DebuggerProperties`, `DebuggerMC` | `main`, the GDB stub and `step`, over `MemoryBus` |
| `Debuggee` | abstract specification: what a debugger may rely on |
| `UartStateProofs`, `UartProofs`, `UartRefinementProofs`, `VicProofs`, `Ts7200Proofs`, `TimerProofs`, `DebuggerProofs`, `StdioProofs` | theorems |

Definitions whose comment begins with *Mutant* are deliberate mistakes. No
behaviour specification uses them: each shows that one property can fail.

### UART

Every critical section of the mutex is one action, and so is every channel
operation outside of it. `Locked(t)` is such a section: it leaves `State` t and
appends what `update_interrupts` sends. Handlers that do *not* call
`update_interrupts` (an overrun, the latches) are operators without
`UpdateInterrupts`, so that `LinesTrackCauses` says something. The CPU thread
makes accesses (`cpu = "exec"`) until `EndInstruction`, then drains the bus
(`"drain"`), from `"boot"` (threads up, hacks not yet applied) to the drop
(`exit_in`, `exit_out`, `join_in`, `join_out`, `join_writer`). Between two drains
there may be any number of accesses, up to `MaxBus` waiting messages: an `ldm` or
`stm` makes several before `step` drains once, and a GDB client makes more
between two steps, through the same handlers. So a line may go up and down again
before the VIC hears of it. Which registers one `ldm` or `stm` can reach in a row
is not modelled: any sequence is allowed. Characters are numbered in the order
they are produced. Durations are abstracted: a sleep or a timeout ends at any time, so every interleaving a real baud rate allows is
included, and many more.

The user's writer task is there or not (`--uartX=none`), and may die of an I/O
error at any character (`HostWriterFails`); the drop then panics in `join()`,
and `cpu = "panicked"` with `writer_pc = "failed"` says so. A reader task that
dies just stops typing.

Left out: stop and parity bits, bits of Ctrl that are stored and never used,
modem and DMA registers (stubs), and what follows the panic in
`update_linctrl` (a poisoned mutex). A client that writes a byte writes the low
byte of a register; every bit of the registers modelled is in it.

### Terminal

`Stdio` takes the place of the host's tasks of `Uart`, and abstracts the rest of
the UART to `Send`, `InputThreadEnds` and `OutputThreadEnds` (which `Uart`'s
`ShutdownCompletes` justifies). `select!` is the choice between
`TakeCharacter`, `TakeCtrlC`, `ReaderGone` and `OutputEnds`; a message in the
Ctrl-C channel comes before its end. Of the characters one is marked, to be
followed. A CPU thread that panics is not modelled, and `TerminalMode` says
nothing of it. The panic of `uart_divisor` is such a one: the process can end on
the poisoned mutex before the writer restores the terminal, which then stays
raw.

### VIC and machine

A register is the set of the sources whose bit is set. `VectAddrX` only stores
what the guest writes, so `VectAddr` is modelled by which register it returns.
The guest writes bits of the wired sources only. In `Ts7200` an instruction is
`Begin`, up to `MaxAccesses` accesses (to the VICs, a device, Syscon, or the
CPSR) and `EndInstruction`, or `FatalAccess`, which returns before the drain. The
drain has one action per message taken from the bus, so device threads may send
in the middle of it, as they may in the middle of an instruction.
An exception is taken unless the CPSR masks it; that is `armv4t_emu`'s part,
modelled from how `step` relies on it. The variable `blocking` is the
`BlockMode` of `step`: `run()` passes Blocking, the GDB stub NonBlocking, and
`Detach` goes from the latter to the former.

Between two steps of a machine under the GDB stub the client makes the same
accesses (`ClientAccess`; `read_addrs`, `write_addrs` and `write_registers` of
`gdb.rs`), with the guest's side effects and no drain. It writes bytes, so it
sets VIC sources 0 to 7 only (`LowByte`), and what is fatal to the guest is an
error reply to it (`FailLockableWrite`). The history variable `touched` says that
the client has edited the machine since its last step. `NoExceptionOwed` and
`OnlyRaisesWhileAsleep` speak of other times; `SleepEndsOnArrival` and
`VicSeesDevices` hold whatever the client did.

A device is abstracted to the level it last sent: threads raise it at any time,
accesses lower it, or raise it, while the bus is not being drained. That is the
module `DeviceLine`, and `LinesAreDevices` shows that each line of a UART
implements it. A timer sends `true` again at every tick and `false` at every write of Clear.

### Timer

An `Instant` is its distance from now, so passing time decrements deadlines and
increments `since`; an access takes no time. `CaughtUp` and `Fraction` are the
arithmetic of `update_regs` for any tick length, clock and width. The code
reads the clock more than once in an access; here both instants are one. It
rounds the period down to a nanosecond, as `PeriodOf` does to a unit of time;
`Exact` says when nothing is lost by that. The interrupter
waits (`in_thread = "wait"`), takes messages before timeouts as `recv_timeout`
does, decides to interrupt (`TimesOut`) and sends (`Fire`) in two steps. It may
run up to `MaxLate` behind. `Countdown` is what a guest may think Value is; the
mapping shows a `Phase` in which Load and 0 are one point of the cycle, because
`val < ticks` makes the code show 0 at that point if it counts down to it and
Load if it passes over it.

Control written for periodic mode without a Load value enables the timer in its
registers, tells the interrupter nothing, and fails (`FailingWriteControl`). The
guest's write ends the run. A GDB client's does not: the machine goes on with a
timer on which every later access fails in `update_regs`, the one that would
disable it included (`FailingUpdate`). `InterrupterFollows` therefore compares the
interrupter with a timer that runs (`Running`: enabled and not without Load).

The history variable `mixed` says that clock or mode were changed since the
timer was enabled: the interrupter is not told, so `DueAtZero` and
`InterrupterFollows` speak of other times only, while `CountsEveryTick` holds
throughout.

### Memory and debugger

`MemoryBus` is an address space of a few bytes of RAM and some registers, each
of a kind: what it answers to a read and to a write, and with which
`MemException`. Values are left out; which bytes of RAM have been written is
not. In `Debugger` an instruction is a fetch and up to `MaxAccesses - 1`
accesses, each an action, with `MemSniffer` noting watched ones and
`MemoryAdapter` keeping one exception; then the step ends, in a fatal error or
at any program counter, an interrupt taken or not. `mode` is where `main` is:
the client has the turn (`stopped`), or `resume` (`step`, `continue`) or `run()`
steps the machine, or a fatal error is being dealt with (`fatal`), or main has
returned (`ended`). The client may edit everything, step, continue, interrupt,
detach, kill, or vanish. `CheckEvery` is the 1024 of `resume`.

`Debuggee` keeps of this who has the turn, where the guest is and what it can
change. Its `fresh` is where a breakpoint may be passed: after a resume, and,
as the code has it, after a wake from Halt.

## Runs

| run | what it checks | bounds |
|---|---|---|
| `uart_rx` | reception implements `Pipe`; the timeout | FIFO of 3 or, switched off, 1; 5 characters: the FIFO fills, overruns and is refilled; all enables of rx and rt |
| `uart_tx` | transmission implements `Pipe`; the count of characters being sent, CTS, the flush at the drop | FIFO of 3 or 1; 5 characters; drop at any moment; a writer task, none, or one that dies; line control latched and committed, with and without the byte that panics |
| `uart_intr` | causes, lines, bus and VIC agree, each line implements `DeviceLine`, and no thread turns RXFE or TXFF on, with traffic both ways and an infinite receive FIFO | FIFO of 2 or 1; 2 characters each way, enough to cross both half-full thresholds in both directions and to fill the transmit FIFO; accesses until 2 messages wait, so a line changes twice before a drain |
| `uart_live` | delivery, the timeout, settled lines, the end of the drop | FIFO of 2; 1 in, 2 out; a writer task, none, or one that dies |
| `stdio` | raw mode, Ctrl-C, output after the end of stdin, the drop | 3 characters queued; stdout a terminal or not; as many characters, keys and Ctrl-C as there may be |
| `vic` | the vector that VectAddr names | 2 vectors per bank; three devices, two of them on one bank; one soft interrupt |
| `sys` | types, exceptions owed, what the VICs show, what sleeps and wakes, with and without GDB, under the client's edits and across its departure | a timer on VIC1 and a UART on VIC2; 2 accesses in an instruction, any number by the client; accesses and threads send until 2 messages wait |
| `timer` | `Timer` implements `Countdown`; the interrupter follows the registers, in phase, with one stray interrupt at most, for ever | tick of 3 units or 1.5, so that some periods are rounded, width 4, Load 0, 1, 3 and 6 (cut to 2); several wraps and several periods between accesses; any change of clock and mode; 2 messages waiting, 2 units late; time cut off after 12 ticks, a multiple of each Load and of the width, so that it can go on for ever |
| `debug` | the target implements `Debuggee`; watched and uninitialised accesses are told; a resume ends | three words of RAM, one of them never written, and a register of each kind; 14 accesses, 3 in an instruction with its fetch; 2 break- or watchpoints; Ctrl-C looked for every 2 turns |
| `uart_divisor`, `sys_halt_pending`, `timer_stray` | findings, see below | smallest that show them |

`MaxTyped` and `MaxAccepted` bound how many characters exist, `MaxBus` at what
length of the bus an access (and in `Ts7200` a device thread) may still send,
`MaxMsgs`, `MaxIdle` and
`MaxLate` how long the guest and the interrupter let things wait (`MaxIdle` only
after a change of clock or mode), `MaxAccesses` and `MaxMarks` the size of an
instruction and of the two lists of the GDB stub. `BlockModes` says whether a
machine starts under `run()`, under the GDB stub, or either; `sys` has either,
`sys_halt_pending` the former. Two devices show every
conflict that the drain can have (same bank or not is a matter of `vic`), because
messages of different devices touch different bits. Deadlock is checked except in
`uart_live`, where the process ends or has panicked, and `sys_halt_pending`,
where the CPU sleeps for good: that is the finding.

### Fairness

- UART: each thread takes a step if it stays able to (the operating system
  schedules it; the mutex is never held while waiting for something else). Exit
  is taken if it is ready again and again, because `select!` chooses at random
  among ready branches: strong fairness of `InExit` and `OutExit`. Nothing is
  assumed of what the guest executes or whether it halts, nor of the host's
  typing. `EndInstruction` is a step of the CPU thread: an instruction makes
  finitely many accesses, and a client lets the machine take another step in the
  end (or kills it), or the levels it caused stay on the bus.
- Terminal: likewise; a CtrlC that stays in its channel is taken although
  characters keep coming (strong fairness of `TakeCtrlC`). Nobody has to type,
  and the guest need never stop.
- Machine: the CPU thread keeps running (`Step`), which includes that a client
  has the machine take another step in the end and that an instruction ends;
  that a client ever detaches is not assumed. And a drain does not find the bus
  refilled for ever. The code does not guarantee the latter by itself; it rests
  on a turn of that loop taking much less than the shortest period of a timer
  that sends. Load 0 in periodic mode, whose period is 0, breaks that
  assumption and is excluded by it.
- Timer: the interrupter and the drop run and time passes. Time does not run
  ahead of the interrupter by more than `MaxLate`, which is what makes it run.
- Debugger: the thread that steps the machine runs; the client owes nothing.

### Findings

Each is a violation run; the trace is the story.

- `sys_halt_pending`: under `run()`, a CPU that halts with an interrupt already
  moved from the bus to the VIC (masked in the CPSR, say) blocks in `recv()`
  without looking at the VIC (`mod.rs:205`) and needs another message to wake.
  In NonBlocking mode, `HaltWakes` holds.
- `uart_divisor`: `update_linctrl` shifts LinCtrlMid by 32 rather than 8, so any
  byte in it makes the baud rate 0 and the division panic with the mutex held.
- `timer_stray`: an interrupter that has timed out interrupts after the guest
  has disabled the timer and written Clear; the line then stays up. It is one
  interrupt at most (`OneStrayAtMost`).

Disagreements met while modelling that have no run of their own:

- The latch that LinCtrlHigh copies starts at 0 while `new_hle` sets the active
  registers (`device.rs:122`): a guest that writes LinCtrlHigh alone, to switch
  the FIFO, changes 115200 baud to 460800. `Reset` and `Committed` model it.
- The input threads run before `main` applies `--hack-inf-uart-rx`
  (`main.rs:167`), so early characters can overrun the "infinite" FIFO. `Uart`
  starts in `"boot"` for that reason.
- Control written to a timer that stays enabled changes clock or mode of the
  registers and not of the interrupter (`timer.rs:266`). Without their `~mixed`
  TLC violates `DueAtZero` and `InterrupterFollows`.
- At 508 kHz the period of the interrupts is rounded down to a nanosecond
  (`timer.rs:283`) unless Load is a multiple of 127, and each period takes the
  interrupts further away from Value's 0, by less than a nanosecond. Without
  `Exact` TLC violates `DueAtZero`.
- The number of ticks is cut to 32 bits before it is reduced modulo Load
  (`timer.rs:151`): with `TickMod = 4` and Load 3 TLC violates
  `CountsEveryTick`. On the code's scale that takes 2^32 ticks without an access.
- `MemoryAdapter` keeps the last exception of an instruction
  (`armv4t_adaptor.rs:56`), so a fatal one is replaced when a later access of
  the same `ldm` or `stm` only warns, and the machine runs on; the repository's
  README (line 56) says that such an access throws a fatal error. Likewise a read
  of uninitialised RAM, of which README.md:55 promises a warning, is not logged if
  a later access of the instruction fails, be it on a stub. `Stash` models it, and
  `UninitIsTold` says what is left: the read is what the instruction is logged
  for unless a later access of it fails.
- A wake from Halt takes the interrupt and returns before breakpoints are looked
  for (`mod.rs:264-269`): a breakpoint on the first instruction of the handler is
  passed. So `Debuggee` lets a guest pass one where it woke.
- `MemSniffer` looks at a watched address only after the access has succeeded
  (`mem_sniffer.rs:25`): a read that merely warns (uninitialised RAM, a stub) is
  not reported, and neither is a write that does (a stub); a write to
  uninitialised RAM succeeds and is. The kind of a watchpoint is dropped
  (`gdb.rs:183-187`), only the first byte of an access is compared, and an
  instruction fetch counts as a read.
- A client's memory reads have the effects of the guest's (`gdb.rs:141`): reading
  Halt halts the CPU, reading a UART's Data takes a character out. Reads of RAM
  that nobody wrote show 0, where RAM holds `-`.
- Such an access puts messages on the bus with no drain after it. A client that
  detaches from a halted machine after it has read a UART's Data or written a
  timer's Clear leaves a `false` there, for `recv()` to take: without `~touched`
  TLC violates `OnlyRaisesWhileAsleep`, and with `true` and `false` on the bus the
  CPU goes back to sleep with nothing pending. A client may likewise unmask an
  interrupt on a halted machine and detach, and the CPU sleeps on it
  (`InterruptIsTaken` excludes `recv` with `touched`).
- A client's write of Control that is fatal to the guest (periodic mode without
  Load, `timer.rs:266-280`) is only an error reply to it (`gdb.rs:159`): the
  machine runs on with a timer enabled in its registers, of which the interrupter
  was never told and on which every later access by the guest fails.
- `resume` counts steps in an `i32` (`gdb.rs:54`), which overflows after 2^31 of
  them, a panic in debug builds; `Count` is modulo `CheckEvery`, which hides it.
- A misaligned word of RAM counts as initialised when the first byte of the
  *aligned* word before it is (`ram.rs:120`).
- "Disconnected from GDB. Shutting down." is followed by `system.run()`
  (`main.rs:205`), and a post-mortem session that ends well makes a crashed
  emulator exit with success (`main.rs:240`).

## Theorems

TLAPS proves these for every value of the constants that the assumptions named
`...Assumption` allow (FIFOs of any depth, any values written, any devices, any
number of vectors, any clocks, widths and delays, any queue).

- `UartProofs`: `TypeCorrect`, `TxCountCorrect`, `LinesCorrect`, `PathCorrect`,
  `VicCorrect`, `TimeoutCorrect`, `NoByteParked`, `CtsCorrect`, `FlagsUsable`.
  `UartStateProofs` has the lemmas about the operators of `UartState`: what each keeps of the type, of
  `InStep` and of the transmit count. `TypeOK` is not inductive without
  `TxAccounting` (only the count makes `tx_buf_size - 1` a natural number), so
  the two are one invariant. `InterruptPathCoherent` is inductive because a
  critical section appends at most one message per line and only on a change
  (lemmas about `Messages`), and taking the head of the bus keeps the last
  message of every line; `VicTracksUart` is its case of an empty bus with
  `LinesTrackCauses`. `NoParkedByte` needs `TimeoutMeansData` and what the input
  thread knows at each of its points.
  `CtsCorrect` follows from `BusyInv`: busy is set while a character is with the
  host, and only while the count of characters is positive. `FlagsUsable` needs
  what each critical section of a thread does to the FIFO and to that count.
- `UartRefinementProofs`: `ShutdownCorrect`, `TxImplements`, `RxImplements`,
  `LinesImplement`. `DropOrder` ties how far the drop has come to which threads
  have ended, and `Conservation` says that the characters written out, in the
  writer's channel, in the output thread's hand and in `device_output` are as
  many as were accepted; both were checked by TLC with the constants of the
  run `uart_tx`. With them a step of any thread is a step of `Pipe` or moves a
  character from one of its places to the next (lemmas about concatenation). In
  the other direction `Lost` counts what neither is in a place nor was read, and
  only an overrun changes it. For a line, the messages that concern it are
  picked out of the bus by the recursive function `Levels`; what it is for a bus
  with one message more or less (`LevelsAppend`, `LevelsTail`) is proved by
  induction in the form of a least counterexample among the naturals, with a set
  instead of a predicate. The buffer threads only add causes of interrupts
  (`CausesGrow`), hence only raise lines; accesses, of which there may be any
  number before a drain, and the drain are the other steps of `DeviceLine`. It
  says nothing of how often a line changes between two drains.
- `VicProofs`: `ServesPending`, `ServesHighest`. The least answering vector
  exists by well-founded induction on the naturals (`Least`).
- `Ts7200Proofs`: `TypeCorrect`, `NoneOwed`, `DevicesSeen`, `OnlyRaises`. The
  invariant says of each device that the last of its messages on the bus, or
  else its bit in the VIC, is its line (`PathInv`), and of a CPU between two steps
  or in `recv()` that no message on the bus lowers a line where the client has not
  edited the machine (`SleepInv`): what an instruction lowers is drained before
  `step` returns. `NoneOwed` has the same condition. `IndexInjective` is where the wiring of
  the twelve interrupts comes in: no two on one bit of one bank.
- `TimerProofs`: `TypeCorrect`, `OneStray`, `Follows`, `Counts`, `DueWhenZero`.
  `StopInv`: a timer that is disabled has Disabled as its last message, or the
  interrupter has no deadline; `TimesOut` needs an empty channel, hence a timer
  that is enabled. `Counts` is the refinement of `Countdown`: an access changes
  nothing of what a read shows (`ReadKeeps`), a unit of time makes one tick or
  none (`PassTicks`), and a tick takes Value down by one wherever it is in its
  cycle (`CyclesDown`); quotients and remainders by the constants are reduced
  to the uniqueness of division (`Division`). It has a condition, `LookedAt`: an
  enabled timer is accessed before it has made 2^32 ticks. Without it the
  statement is false of the code (see the findings). `DueWhenZero` has the same
  condition and needs `PhaseInv`, because `DueAtZero` is not inductive: it speaks
  of an empty channel only, whereas the deadline may still be in the last
  message, and a timer is in phase when it starts only because a disabled one
  that has a Load value shows that value. TLC has checked `PhaseInv`, too, with
  the constants of the run `timer`.
- `DebuggerProofs`: `TypeCorrect`, `UninitTold`, `WatchesReport`, `Implements`, all
  from `Inv` (`Invariance`). `TypeOK` is not all: that an instruction has touched
  a watched address means that the access to be reported is one of those
  (`SeenInv`), and a guest that the client has resumed stands on no breakpoint
  unless it stands where it was resumed or woken (`StandsInv`). `Implements`
  is the refinement of `Debuggee`, one step per action: the turns of the client
  and of `resume`, the steps inside an instruction, which stutter, and its end.
- `StdioProofs`: `TerminalRestored`. `ModeInv`: where the writer stands says what
  mode the terminal is in, and there is no reader before the writer's start.

Only model-checked: liveness and the fairness it needs, which are out of the
prover's reach (`BytesReachHost`, `ByteIsNoticed`, `SettledLevelReachesVic`,
`ShutdownCompletes`, `HaltWakes`, `SleepEndsOnArrival`, `InterruptIsTaken`,
`PeriodicKeepsTicking`, `StopsOnRequest`, `CtrlCTerminates`, `OutputIsPrinted`,
`DropEnds`). Every invariant and every action property of the runs, and
every refinement they check, is proved.

## Plan

Done: `UartState`, `Uart` (the largest concurrent component), `Vic`, `Ts7200`,
`Timer`, `MemoryBus`, `Debugger` and `Stdio`, with the abstract specifications
`Pipe`, `DeviceLine`, `Countdown` and `Debuggee`, and theorems for all of their
safety properties.

Next:

1. The safety part of what `Stdio` assumes of the UART: that `Send` and the ends
   of the buffer threads there are steps of `Uart`.
2. The steps towards the liveness properties: that each thread's waiting is
   left only in the direction the liveness needs, as action properties.
3. How far an inexact period drifts: a bound on the distance from `DueAtZero` by
   the number of interrupts.

Not modelled and not planned: the parsing of options (`cfg.rs`, `main.rs`) and
the opening of files and sockets, which keep no state; ELF loading, which is the
initial state; `MemLogger` and `probe`, which only produce log lines; Syscon's
scratch registers, which hold what is written; the table of the memory map, a
static list of disjoint ranges; accesses that run over the end of RAM, which
panic; the ARM core and gdbstub (external).
