------------------------------- MODULE Timer -------------------------------
(***************************************************************************)
(* One emulated timer (src/devices/timer.rs): its registers, brought up to *)
(* date only when they are accessed, and its interrupter thread, which the *)
(* Control register commands over a channel and which keeps the time of    *)
(* the interrupts on its own.                                              *)
(*                                                                         *)
(* An Instant is a number of time units from now, so time passes by making *)
(* every one of them smaller; an access takes no time.  An Option is a set *)
(* of at most one element.                                                 *)
(***************************************************************************)
EXTENDS Integers, Sequences

CONSTANTS
  TickUnit,      \* microticks in a tick: 1_000_000 in the code
  Khz,           \* Clock::khz, microticks per unit of time
  Wrap,          \* wrapmask + 1
  TickMod,       \* 2^32, where the number of ticks is cut off
  LoadVals,      \* what the guest writes to Load
  MaxIdle,       \* bound: time between two accesses once it is `mixed`
  MaxLate,       \* bound: how late the interrupter thread runs
  MaxMsgs        \* bound: messages the guest lets wait for it

Clocks == {"Khz2", "Khz508"}
Modes  == {"FreeRunning", "Periodic"}

ASSUME TimerAssumption ==
  /\ TickUnit \in Nat \ {0} /\ Wrap \in Nat \ {0} /\ TickMod \in Nat \ {0}
  /\ Khz \in [Clocks -> 1..TickUnit]
  /\ LoadVals \subseteq Nat
  /\ MaxIdle \in Nat \ {0} /\ MaxLate \in Nat /\ MaxMsgs \in Nat \ {0}

VARIABLES
  cpu,           \* CPU thread: running, and how it stops
  loadval, val, enabled, mode, clksel, microticks,
  since,         \* now - last_time
  msgs,          \* the channel of interrupter_tx
  in_thread,     \* interrupter thread: waiting or about to interrupt
  next, period,
  line,          \* the level last sent on interrupt_bus
  mixed          \* history: clock or mode changed since it was enabled

regs        == <<loadval, val, enabled, mode, clksel, microticks, since>>
interrupter == <<in_thread, next, period>>
vars        == <<cpu, regs, msgs, interrupter, line, mixed>>

Enabled(d) == [kind |-> "Enabled", next |-> d, period |-> d]
Disabled   == [kind |-> "Disabled"]

Init ==
  /\ cpu = "run"
  /\ loadval = {} /\ val = 0 /\ enabled = FALSE
  /\ mode = "FreeRunning" /\ clksel = "Khz2"
  /\ microticks = 0 /\ since = 0
  /\ msgs = <<>>
  /\ in_thread = "wait" /\ next = {} /\ period = 0
  /\ line = FALSE /\ mixed = FALSE

-----------------------------------------------------------------------------
(***************************************************************************)
(* update_regs.                                                            *)
(***************************************************************************)
Load == CHOOSE v \in loadval : TRUE

Elapsed == since * Khz[clksel] + microticks

\* `as u32`
Ticks == (Elapsed \div TickUnit) % TickMod

NoLoad == mode = "Periodic" /\ loadval = {}

\* Mutants: the ticks down to 0 are counted twice; the width is not applied.
CaughtUpFromZero ==
  IF ~enabled \/ NoLoad THEN val
  ELSE IF mode = "FreeRunning" THEN (val - Ticks) % Wrap
  ELSE IF Load = 0 THEN 0
  ELSE IF val < Ticks THEN Load - (Ticks % Load)
  ELSE val - Ticks
CaughtUpUnmasked ==
  IF ~enabled \/ NoLoad THEN val
  ELSE IF mode = "FreeRunning" THEN (val - Ticks) % TickMod
  ELSE IF Load = 0 THEN 0
  ELSE IF val < Ticks THEN Load - ((Ticks - val) % Load)
  ELSE val - Ticks

\* The new `val`.
CaughtUp ==
  IF ~enabled \/ NoLoad THEN val
  ELSE IF mode = "FreeRunning" THEN (val - Ticks) % Wrap
  ELSE IF Load = 0 THEN 0
  ELSE IF val < Ticks THEN Load - ((Ticks - val) % Load)
  ELSE val - Ticks

\* The new `microticks`.
Fraction == IF enabled THEN Elapsed % TickUnit ELSE microticks

-----------------------------------------------------------------------------
(***************************************************************************)
(* Register accesses, the guest's and, between two steps, a GDB client's.  *)
(* Each begins with update_regs, which fails when an enabled periodic timer*)
(* has no Load value.  A failing access is fatal for the guest; a client   *)
(* gets an error reply and the machine runs on.                            *)
(***************************************************************************)
Access == cpu = "run" /\ ~(enabled /\ NoLoad) /\ since' = 0

\* Any read but that of Load before it is set; a client's access that fails
\* after update_regs: that read, a write of Value or of an enabled timer's Load.
Read ==
  /\ Access
  /\ val' = CaughtUp /\ microticks' = Fraction
  /\ UNCHANGED <<cpu, loadval, enabled, mode, clksel, msgs, interrupter,
                 line, mixed>>

WriteLoad(v) ==
  /\ Access
  /\ ~enabled
  /\ loadval' = {v % Wrap} /\ val' = v % Wrap
  /\ microticks' = Fraction
  /\ UNCHANGED <<cpu, enabled, mode, clksel, msgs, interrupter, line, mixed>>

\* Clock or mode of a timer that stays enabled: the interrupter is not told.
Mixes(c, m, e) == enabled /\ e /\ (c # clksel \/ m # mode)

PeriodOf(c) == (Load * TickUnit) \div Khz[c]

Starts(m, e) == e /\ ~enabled /\ m = "Periodic"

\* Mutant: disabling says nothing.
CommandEnableOnly(c, m, e) ==
  IF Starts(m, e) THEN <<Enabled(PeriodOf(c))>> ELSE <<>>

\* What Control tells the interrupter.
Command(c, m, e) ==
  IF ~e THEN <<Disabled>>
  ELSE IF Starts(m, e) THEN <<Enabled(PeriodOf(c))>>
  ELSE <<>>

WriteControl(c, m, e) ==
  /\ Access
  /\ Len(msgs) < MaxMsgs
  /\ Starts(m, e) => loadval # {}
  /\ val' = CaughtUp
  /\ microticks' = IF e /\ ~enabled THEN 0 ELSE Fraction
  /\ clksel' = c /\ mode' = m /\ enabled' = e
  /\ loadval' = IF e THEN loadval ELSE {}
  /\ msgs' = msgs \o Command(c, m, e)
  /\ mixed' = (e /\ (mixed \/ Mixes(c, m, e)))
  /\ UNCHANGED <<cpu, interrupter, line>>

WriteClear ==
  /\ Access
  /\ val' = CaughtUp /\ microticks' = Fraction
  /\ line' = FALSE
  /\ UNCHANGED <<cpu, loadval, enabled, mode, clksel, msgs, interrupter,
                 mixed>>

\* Periodic mode enabled without a Load value: the registers change, the
\* interrupter hears nothing, and the access fails.
FailingWriteControl(c) ==
  /\ Access /\ cpu' \in {"run", "stopped"}
  /\ ~enabled /\ loadval = {}
  /\ val' = CaughtUp /\ microticks' = 0
  /\ clksel' = c /\ mode' = "Periodic" /\ enabled' = TRUE
  /\ UNCHANGED <<loadval, msgs, interrupter, line, mixed>>

\* A client goes on to access the timer that it left so: update_regs has kept
\* the time when it fails.
FailingUpdate ==
  /\ cpu = "run" /\ enabled /\ NoLoad
  /\ since' = 0 /\ microticks' = Fraction
  /\ UNCHANGED <<cpu, loadval, val, enabled, mode, clksel, msgs, interrupter,
                 line, mixed>>

\* The guest writes Value or an enabled timer's Load, reads Load before it is
\* set, accesses a periodic timer without it or an offset that is no register;
\* or the run ends for another reason.
FatalAccess ==
  /\ cpu = "run" /\ cpu' = "stopped"
  /\ UNCHANGED <<regs, msgs, interrupter, line, mixed>>

(***************************************************************************)
(* Ts7200 drops the devices, and this timer's end of the channel, before   *)
(* the receiver of the interrupt bus.  No one joins the interrupter.       *)
(***************************************************************************)
DropTimer ==
  /\ cpu = "stopped" /\ cpu' = "dropped"
  /\ UNCHANGED <<regs, msgs, interrupter, line, mixed>>

DropBus ==
  /\ cpu = "dropped" /\ cpu' = "gone"
  /\ UNCHANGED <<regs, msgs, interrupter, line, mixed>>

Connected == cpu \in {"run", "stopped"}

-----------------------------------------------------------------------------
(***************************************************************************)
(* Interrupter thread.  recv_timeout gives messages precedence over the    *)
(* timeout, and both over the end of the channel.                          *)
(***************************************************************************)
TakeMessage ==
  /\ in_thread = "wait" /\ msgs # <<>>
  /\ msgs' = Tail(msgs)
  /\ IF Head(msgs).kind = "Enabled"
     THEN next' = {Head(msgs).next} /\ period' = Head(msgs).period
     ELSE next' = {} /\ UNCHANGED period
  /\ UNCHANGED <<cpu, regs, in_thread, line, mixed>>

\* Mutant: a timeout beats a message.
TimesOutFirst ==
  /\ in_thread = "wait" /\ Connected
  /\ \E d \in next : d <= 0
  /\ in_thread' = "fire"
  /\ UNCHANGED <<cpu, regs, msgs, next, period, line, mixed>>
TimesOut ==
  /\ in_thread = "wait" /\ msgs = <<>> /\ Connected
  /\ \E d \in next : d <= 0
  /\ in_thread' = "fire"
  /\ UNCHANGED <<cpu, regs, msgs, next, period, line, mixed>>

\* Mutants: the next period starts when the end of this one is noticed; a
\* period ends once.
FireFromNow ==
  /\ in_thread = "fire" /\ cpu # "gone"
  /\ in_thread' = "wait"
  /\ line' = TRUE
  /\ next' = {period}
  /\ UNCHANGED <<cpu, regs, msgs, period, mixed>>

FireOnce ==
  /\ in_thread = "fire" /\ cpu # "gone"
  /\ in_thread' = "wait"
  /\ line' = TRUE
  /\ next' = {}
  /\ UNCHANGED <<cpu, regs, msgs, period, mixed>>

Fire ==
  /\ in_thread = "fire" /\ cpu # "gone"
  /\ in_thread' = "wait"
  /\ line' = TRUE
  /\ next' = {d + period : d \in next}
  /\ UNCHANGED <<cpu, regs, msgs, period, mixed>>

\* send(..).unwrap() without a receiver: the detached thread dies of it.
FirePanics ==
  /\ in_thread = "fire" /\ cpu = "gone"
  /\ in_thread' = "panicked"
  /\ UNCHANGED <<cpu, regs, msgs, next, period, line, mixed>>

InterrupterEnds ==
  /\ in_thread = "wait" /\ msgs = <<>> /\ ~Connected
  /\ in_thread' = "done"
  /\ UNCHANGED <<cpu, regs, msgs, next, period, line, mixed>>

-----------------------------------------------------------------------------
Age(m) == IF m.kind = "Enabled" THEN [m EXCEPT !.next = @ - 1] ELSE m

Soon(d) == d > -MaxLate

(***************************************************************************)
(* A unit of time passes.  `since` may be cut off where the registers read *)
(* the same: TickMod ticks are none at all.                                *)
(***************************************************************************)
Pass ==
  /\ cpu = "run"
  /\ mixed => since < MaxIdle
  /\ \A d \in next : Soon(d)
  /\ \A i \in 1..Len(msgs) : msgs[i].kind = "Enabled" => Soon(msgs[i].next)
  /\ since' = (since + 1) % (TickMod * TickUnit)
  /\ next' = {d - 1 : d \in next}
  /\ msgs' = [i \in 1..Len(msgs) |-> Age(msgs[i])]
  /\ UNCHANGED <<cpu, loadval, val, enabled, mode, clksel, microticks,
                 in_thread, period, line, mixed>>

Guest ==
  \/ Read \/ WriteClear \/ FailingUpdate \/ FatalAccess
  \/ \E v \in LoadVals : WriteLoad(v)
  \/ \E c \in Clocks : FailingWriteControl(c)
  \/ \E c \in Clocks, m \in Modes, e \in BOOLEAN : WriteControl(c, m, e)

Interrupter ==
  TakeMessage \/ TimesOut \/ Fire \/ FirePanics \/ InterrupterEnds

Drop == DropTimer \/ DropBus

Ended ==
  /\ cpu = "gone" /\ in_thread \in {"done", "panicked"}
  /\ UNCHANGED vars

Next == Guest \/ Interrupter \/ Drop \/ Pass \/ Ended

Spec == Init /\ [][Next]_vars

\* The threads run and time passes; nothing is assumed of the guest.
FairSpec ==
  Spec /\ WF_vars(Interrupter) /\ WF_vars(Drop) /\ WF_vars(Pass)
=============================================================================
