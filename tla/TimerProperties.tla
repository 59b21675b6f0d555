-------------------------- MODULE TimerProperties --------------------------
(***************************************************************************)
(* "Timers - Totally Accurate!" (README.md:90): what that comes to.        *)
(***************************************************************************)
EXTENDS Timer

Message == [kind : {"Enabled"}, next : Int, period : Nat] \union {Disabled}

\* Every variable has its type; Value fits the width of the timer.
TypeOK ==
  /\ cpu \in {"run", "stopped", "dropped", "gone"}
  /\ loadval \subseteq 0..(Wrap - 1) /\ \A v, w \in loadval : v = w
  /\ val \in 0..(Wrap - 1)
  /\ enabled \in BOOLEAN /\ mode \in Modes /\ clksel \in Clocks
  /\ microticks \in 0..(TickUnit - 1) /\ since \in Nat
  /\ msgs \in Seq(Message)
  /\ in_thread \in {"wait", "fire", "done", "panicked"}
  /\ next \subseteq Int /\ \A d, e \in next : d = e
  /\ period \in Nat
  /\ line \in BOOLEAN /\ mixed \in BOOLEAN

-----------------------------------------------------------------------------
Running == enabled /\ ~NoLoad

\* Value as a read would return it now, or 0 for Load when that is periodic.
Phase ==
  IF Running /\ mode = "Periodic" /\ CaughtUp = Load THEN 0 ELSE CaughtUp

C == INSTANCE Countdown WITH
       count    <- Phase,
       fraction <- Fraction,
       load     <- loadval,
       running  <- enabled,
       clock    <- clksel

\* The registers, caught up with at each access, are those of a counter that
\* counts at every tick: neither how often the guest looks at them nor when it
\* changes clock or mode makes a tick come late or go missing.
CountsEveryTick == C!Spec

-----------------------------------------------------------------------------
\* Whether the interrupter will be waiting to interrupt, once it has read its
\* messages.
Armed ==
  IF msgs = <<>> THEN next # {} ELSE msgs[Len(msgs)].kind = "Enabled"

\* The interrupter, which is told of changes only, is set when the registers
\* say so and not otherwise (enabled without a Load value, the timer does not
\* run); and again so once a timer whose mode was changed under way has been
\* disabled.
InterrupterFollows ==
  ~mixed => (Armed <=> Running /\ mode = "Periodic")

\* The interrupter never decides to interrupt for a timer that is disabled,
\* though it may not have heard of it yet: what comes after the timer was
\* disabled is one interrupt at most.
OneStrayAtMost ==
  [][in_thread = "wait" /\ in_thread' = "fire" => enabled]_vars

\* Microticks until Value is next at the point of its cycle where it is 0.
ToZero == (Phase * TickUnit - Fraction) % (Load * TickUnit)

\* The period of the interrupts is a whole number of units of time, as it always
\* is on the slow clock: otherwise PeriodOf rounds it down, and every period
\* brings the interrupts forward by what was cut off.
Exact == PeriodOf(clksel) * Khz[clksel] = Load * TickUnit

\* A timer that gives interrupts at whole units of time, and was not changed
\* under way.
Timed ==
  /\ cpu = "run" /\ ~mixed
  /\ Running /\ mode = "Periodic" /\ Load > 0 /\ Exact

\* Interrupts are due when Value passes 0, and stay so however long the timer
\* runs, however late the interrupter is and whenever the guest reads: the two
\* never drift apart although each keeps its own time.
DueAtZero ==
  Timed /\ msgs = <<>> =>
    \A d \in next : (d * Khz[clksel] - ToZero) % (Load * TickUnit) = 0

\* A timer left running in periodic mode goes on interrupting.
PeriodicKeepsTicking ==
  <>[](cpu = "run" /\ Running /\ mode = "Periodic" /\ ~mixed) => []<>(in_thread = "fire")

-----------------------------------------------------------------------------
(***************************************************************************)
(* What the code does not do.                                              *)
(***************************************************************************)

\* A disabled timer does not interrupt.
DisabledIsQuiet ==
  [][in_thread = "fire" /\ in_thread' = "wait" => enabled]_vars
=============================================================================
