----------------------------- MODULE Interrupts -----------------------------
(***************************************************************************)
(* Where the timer ticks of module Scheduler come from: the PIT raises     *)
(* IRQ 0, the 8259 interrupt controller (PIC) latches it, masks it or      *)
(* offers it through the local APIC, the processor takes it when RFLAGS.IF *)
(* is on, and timer_isr runs the tick handler, which tells the PIC that it *)
(* is done (EOI).  Until then the PIC holds back every further IRQ 0.      *)
(*                                                                         *)
(* kmain sets the devices up with interrupts off and ends with sti.  The   *)
(* kernel's variables have from the start the values they have at sti:     *)
(* nothing but task_prepare_user_entry and the store to current_task       *)
(* writes them on the way, and nothing reads them.                         *)
(***************************************************************************)
EXTENDS Kernel

CONSTANT Lines          \* the lines of the PIC that devices may raise

ASSUME LinesAssumption == Lines \subseteq 0 .. 7 /\ 0 \in Lines

VARIABLES
    stage,      \* what kmain does next, "on" once it has executed sti
    pic_base,   \* the vector of line 0
    imr,        \* masked lines
    irr,        \* lines raised and not yet taken
    isr,        \* lines taken whose EOI is outstanding
    lint0,      \* does the local APIC pass the PIC's interrupts on?
    periodic,   \* is the PIT programmed to raise line 0 for ever?
    vector      \* the interrupt just taken, NO_VECTOR outside its handler

picVars == <<pic_base, imr, irr, isr>>
bootVars == <<stage, lint0, periodic>>
irqVars == <<picVars, bootVars, vector>>
machineVars == <<vars, irqVars>>

NO_VECTOR == -1
FIRMWARE_BASE == 8
PIC_IRQ0_VECTOR == 32
SYSCALL_VECTOR == 128

\* idt_init: the handler of each vector, "none" where the gate is not present.
Gate(v) ==
    CASE v \in 0 .. 31 -> "exception"
      [] v = PIC_IRQ0_VECTOR -> "timer"
      [] v = SYSCALL_VECTOR -> "syscall"
      [] OTHER -> "none"

\* The boot loader leaves every line masked.  What it left pending, and how it
\* set up the local APIC, is not known.
MachineInit ==
    /\ Init
    /\ stage = "remap"
    /\ pic_base = FIRMWARE_BASE
    /\ imr = Lines
    /\ irr \in SUBSET Lines
    /\ isr = {}
    /\ lint0 \in BOOLEAN
    /\ periodic = FALSE
    /\ vector = NO_VECTOR

----------------------------------------------------------------------------
(* kmain with interrupts off. *)

Boots(from, to) == stage = from /\ stage' = to /\ UNCHANGED <<vars, vector>>

\* Without reading the masks first: the initialisation words clear them.
pic_remap_unmasked ==
    /\ Boots("remap", "lapic")
    /\ pic_base' = PIC_IRQ0_VECTOR
    /\ imr' = {}
    /\ irr' \in {irr, {}}
    /\ isr' = {}
    /\ UNCHANGED <<lint0, periodic>>

\* The initialisation words move the vectors and clear masks and lines in
\* service; the masks are written back.  A pending edge may be forgotten.
pic_remap ==
    /\ Boots("remap", "lapic")
    /\ pic_base' = PIC_IRQ0_VECTOR
    /\ irr' \in {irr, {}}
    /\ isr' = {}
    /\ UNCHANGED <<imr, lint0, periodic>>

\* Bit 11 of the base MSR, the spurious vector register, and LINT0 as ExtINT.
lapic_enable ==
    /\ Boots("lapic", "pit")
    /\ lint0' = TRUE
    /\ UNCHANGED <<picVars, periodic>>

\* In mode 0, which counts down once.
pit_init_one_shot ==
    /\ Boots("pit", "unmask")
    /\ irr' = irr \cup {0}
    /\ UNCHANGED <<pic_base, imr, isr, lint0, periodic>>

\* Channel 0 in mode 2, at 100 Hz.
pit_init ==
    /\ Boots("pit", "unmask")
    /\ periodic' = TRUE
    /\ UNCHANGED <<picVars, lint0>>

pic_clear_mask(line) ==
    /\ Boots("unmask", "sti")
    /\ imr' = imr \ {line}
    /\ UNCHANGED <<pic_base, irr, isr, lint0, periodic>>

\* scheduler_init, task_prepare_user_entry, current_task = t, and sti.
StartInterrupts ==
    /\ Boots("sti", "on")
    /\ UNCHANGED <<picVars, lint0, periodic>>

Boot ==
    \/ pic_remap
    \/ lapic_enable
    \/ pit_init
    \/ pic_clear_mask(0)
    \/ StartInterrupts

----------------------------------------------------------------------------
(* The devices. *)

\* An edge on a line; one that comes while the last is pending is lost.
Raise(line) ==
    /\ irr' = irr \cup {line}
    /\ UNCHANGED <<vars, pic_base, imr, isr, bootVars, vector>>

\* The lines the PIC offers: raised, not masked, and of a higher priority than
\* every line in service.
Offered == {l \in irr \ imr : \A s \in isr : l < s}

\* The processor takes the first of them and turns interrupts off.
TakeInterrupt ==
    /\ stage = "on" /\ InterruptsOn /\ vector = NO_VECTOR
    /\ lint0
    /\ Offered # {}
    /\ LET line == Min(Offered)
       IN  /\ irr' = irr \ {line}
           /\ isr' = isr \cup {line}
           /\ vector' = pic_base + line
    /\ UNCHANGED <<vars, pic_base, imr, bootVars>>

----------------------------------------------------------------------------
(* The handlers. *)

\* The non-specific EOI ends the line of the highest priority in service.
pic_send_eoi == isr' = isr \ {Min(isr)}

\* With the EOI behind the switch, where it waits for the task to come back.
timer_isr_late_eoi ==
    /\ vector # NO_VECTOR
    /\ Gate(vector) = "timer"
    /\ TimerTick
    /\ IF current_task' = current_task THEN pic_send_eoi ELSE UNCHANGED isr
    /\ vector' = NO_VECTOR
    /\ UNCHANGED <<pic_base, imr, irr, bootVars>>

\* The tick, the EOI, and the switch at the end of a slice.  The frame of the
\* interrupt, or of the context switched to, restores RFLAGS.IF.
timer_isr ==
    /\ vector # NO_VECTOR
    /\ Gate(vector) = "timer"
    /\ TimerTick
    /\ pic_send_eoi
    /\ vector' = NO_VECTOR
    /\ UNCHANGED <<pic_base, imr, irr, bootVars>>

\* What the processor does between interrupts.
Executes(step) == stage = "on" /\ vector = NO_VECTOR /\ step /\ UNCHANGED irqVars

----------------------------------------------------------------------------
MachineNext ==
    \/ Boot
    \/ \E line \in Lines : Raise(line)
    \/ TakeInterrupt
    \/ timer_isr
    \/ Executes(KernelStep)
    \/ Executes(UserStep)

MachineSpec == MachineInit /\ [][MachineNext]_machineVars

\* The processor takes what it is offered, and the PIT, once programmed, keeps
\* counting.  At 100 Hz a tick is long over when the next one comes, so ticks
\* do not keep kernel code from running (strong fairness).  User code owes
\* nothing.
MachineFairness ==
    /\ WF_machineVars(Boot)
    /\ SF_machineVars(Executes(KernelStep))
    /\ WF_machineVars(TakeInterrupt)
    /\ WF_machineVars(timer_isr)
    /\ WF_machineVars(periodic /\ Raise(0))

FairMachineSpec == MachineSpec /\ MachineFairness

----------------------------------------------------------------------------
(* Properties. *)

\* The EOI is sent before the switch: outside the handler no line is in
\* service, so the task timer_tick_handler switched to can be interrupted in
\* its turn.
NothingLeftInService == isr # {} => vector # NO_VECTOR /\ isr = {vector - pic_base}

\* No interrupt comes through a gate idt_init left empty or that belongs to an
\* exception: lines other than 0 stay masked and line 0 arrives at its own
\* vector, whatever was pending when kmain began.
OnlyTimerInterrupts == vector # NO_VECTOR => Gate(vector) = "timer"

\* The machine does what module Kernel says, and its devices give the ticks
\* that module takes for granted: whenever interrupts stay on, one comes.
ImplementsKernel == FairSpec
=============================================================================
