-------------------------- MODULE Ts7200Properties --------------------------
(***************************************************************************)
(* What the machine promises its guest about interrupts and Halt.          *)
(***************************************************************************)
EXTENDS Ts7200

Pcs == {"step", "insn", "recv", "drain", "drain_halt", "exited", "fatal"}

Message == [int : Devices, level : BOOLEAN]

\* Every variable has its type.
TypeOK ==
  /\ VicTypeOK
  /\ pc \in Pcs /\ blocking \in BOOLEAN
  /\ power \in {"Run", "Halt", "Standby"}
  /\ sh_ena \in BOOLEAN /\ locked \in BOOLEAN
  /\ mask_i \in BOOLEAN /\ mask_f \in BOOLEAN
  /\ bus \in Seq(Message)
  /\ line \in [Devices -> BOOLEAN]
  /\ accesses \in 0..MaxAccesses /\ touched \in BOOLEAN

\* Between two steps no exception is owed: whatever was on the bus, and
\* whichever of FIQ and IRQ came with it, an interrupt that the VICs request
\* and the CPSR does not mask has been taken before the next instruction,
\* unless a GDB client unmasks or requests it there.
NoExceptionOwed ==
  pc = "step" /\ ~touched =>
    /\ AnyFiq(vic) => mask_f
    /\ AnyIrq(vic) => mask_i

\* Between two steps a kernel finds in the VICs exactly the interrupts its
\* devices raise, apart from what their threads have sent since: whenever the
\* bus is empty, no interrupt is lost, stuck, or put on another's bit.
VicSeesDevices ==
  bus = <<>> =>
    \A b \in Banks :
      vic[b].status = {Index(i) : i \in {j \in Devices : Bank(j) = b /\ line[j]}}

\* The CPU thread goes to sleep in recv() with the bus as the last step left
\* it, but for what device threads have sent since: what comes to wake it is an
\* interrupt that is still there.  A GDB client that detaches from a halted
\* machine it has just edited (a read of Data, a write of Clear) is another
\* matter: it may leave a `false` for recv() to take.
OnlyRaisesWhileAsleep ==
  pc = "recv" /\ ~touched => \A i \in 1..Len(bus) : bus[i].level

\* Halt ends: with an interrupt pending the CPU runs again (syscon.rs:40-43,
\* mod.rs:264-269), as long as GDB steps it.
HaltWakes ==
  power = "Halt" /\ ~blocking /\ (AnyFiq(vic) \/ AnyIrq(vic))
    ~> \/ power = "Run" \/ blocking \/ Stopped
       \/ ~AnyFiq(vic) /\ ~AnyIrq(vic)

\* The bus tells that interrupt i is there, and does not go on to take it back.
Told(i) ==
  \E k \in 1..Len(bus) :
    /\ bus[k].int = i /\ bus[k].level
    /\ \A j \in (k + 1)..Len(bus) : bus[j].int = i => bus[j].level

\* Asleep in recv(), the CPU is woken by the first interrupt that is enabled,
\* whatever else a client that has just detached left on the bus before it.
SleepEndsOnArrival ==
  pc = "recv" /\ (\E i \in Devices :
                    Told(i) /\ Index(i) \in vic[Bank(i)].enabled)
    ~> power = "Run"

\* Device i requests an exception that the CPU does not mask.
Deliverable(i) ==
  /\ line[i]
  /\ Index(i) \in vic[Bank(i)].enabled
  /\ IF Index(i) \in vic[Bank(i)].select THEN ~mask_f ELSE ~mask_i

\* No interrupt waits for ever with nothing to mask it, unless it was a GDB
\* client that unmasked it on a halted machine and then detached.
InterruptIsTaken ==
  \A i \in Devices :
    Deliverable(i) ~> \/ ~Deliverable(i) \/ Stopped
                      \/ pc = "recv" /\ touched

\* "Low Power Halt" (README.md:103) lasts until there is an interrupt: the CPU
\* does not go to sleep in recv() with one already pending (a client's doing
\* apart).
NoSleepOnPending ==
  pc = "recv" /\ bus = <<>> /\ ~touched => ~AnyFiq(vic) /\ ~AnyIrq(vic)
=============================================================================
