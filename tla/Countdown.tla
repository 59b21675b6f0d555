----------------------------- MODULE Countdown -----------------------------
(***************************************************************************)
(* What the guest may think a timer's Value register is: a counter that    *)
(* goes down by one at every tick of the selected clock, whether or not    *)
(* anyone looks.  Timer, which counts only when it is accessed, implements *)
(* this.                                                                   *)
(*                                                                         *)
(* In periodic mode Load and 0 are the same point of the cycle: which of   *)
(* the two Value shows there is left open.                                 *)
(***************************************************************************)
EXTENDS Integers

CONSTANTS
  TickUnit,   \* fractions that make a tick
  Khz,        \* fractions a unit of time adds, for each clock
  Wrap        \* values of the counter in free-running mode

Clocks == DOMAIN Khz
Modes  == {"FreeRunning", "Periodic"}

VARIABLES
  count,      \* 0 in place of Load when running in periodic mode
  fraction,   \* of the next tick
  load,       \* {} or {the Load register}
  running, mode, clock

vars == <<count, fraction, load, running, mode, clock>>

\* 0 stands for Load, too.
Reduced(c, l) == IF c \in l \/ l = {0} THEN 0 ELSE c

\* What may be shown at the present point.
Shown ==
  {count} \union (IF running /\ mode = "Periodic" /\ count = 0 THEN load ELSE {})

Init ==
  /\ count = 0 /\ fraction = 0 /\ load = {}
  /\ running = FALSE /\ mode = "FreeRunning" /\ clock \in Clocks

CountOne ==
  \/ mode = "FreeRunning" /\ count' = (count - 1) % Wrap
  \/ mode = "Periodic" /\ load = {} /\ count' = count
  \/ /\ mode = "Periodic"
     /\ \E v \in load :
          count' = Reduced(IF count = 0 THEN v - 1 ELSE count - 1, load)

Pass ==
  /\ running
  /\ fraction' = (fraction + Khz[clock]) % TickUnit
  /\ IF fraction + Khz[clock] >= TickUnit THEN CountOne ELSE UNCHANGED count
  /\ UNCHANGED <<load, running, mode, clock>>

SetLoad ==
  /\ ~running
  /\ \E v \in 0..(Wrap - 1) : load' = {v} /\ count' = v
  /\ UNCHANGED <<fraction, running, mode, clock>>

SetControl ==
  /\ clock' \in Clocks /\ mode' \in Modes /\ running' \in BOOLEAN
  /\ load' = IF running' THEN load ELSE {}
  /\ \E v \in Shown :
       count' = IF running' /\ mode' = "Periodic" THEN Reduced(v, load) ELSE v
  /\ fraction' = IF running' /\ ~running THEN 0 ELSE fraction

Next == Pass \/ SetLoad \/ SetControl

Spec == Init /\ [][Next]_vars
=============================================================================
