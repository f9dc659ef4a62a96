---------------------------------- MODULE Irq ----------------------------------
(***************************************************************************)
(* Hardware interrupts: the table of handlers of src/boot/irq.c, the two   *)
(* interrupt controllers as src/boot/pic.c programs them, the entry stubs  *)
(* of src/boot/interrupts.asm, and what decides when the processor takes   *)
(* an interrupt: the interrupt flag of the running task.  The task of the  *)
(* shell clears its flag in irq_save, and for good in exec: a script runs  *)
(* in ring 3 with the flag clear, and SYS_EXIT jumps back into the kernel  *)
(* without restoring it.                                                   *)
(*                                                                         *)
(* The controllers, the processor and the devices are external.  A device  *)
(* holds its request until its handler has run, or takes it back.          *)
(***************************************************************************)
EXTENDS Integers

CONSTANTS
    CHIP,              \* lines of one controller (8 in the code)
    IRQ_HANDLERS_MAX,  \* handlers of one line
    Handlers,          \* a handler with its context, and the device it serves
    LineOf,            \* the line on which the device of a handler requests
    Asked,             \* lines that drivers ask for beside their own
    MAX_RAISES,        \* bound: requests and spurious interrupts in a behaviour
    NONE

IRQ_COUNT == 2 * CHIP
Lines == 0..(IRQ_COUNT - 1)
TIMER == 0
CASCADE == 2                    \* the slave's output is the master's line 2
DeviceLines == Lines \ {TIMER, CASCADE}
Slots == 0..(IRQ_HANDLERS_MAX - 1)
OnSlave(l) == l >= CHIP

ASSUME IrqAssumption ==
    /\ CHIP \in Nat /\ CHIP > 3
    /\ IRQ_HANDLERS_MAX \in Nat \ {0}
    /\ LineOf \in [Handlers -> DeviceLines]
    /\ Asked \subseteq Nat
    /\ MAX_RAISES \in Nat
    /\ NONE \notin Handlers \cup [irq : Lines, at : Nat]

VARIABLES
    slots,     \* slots[irq][i].handler
    imr,       \* the controllers: lines that are masked,
    isr,       \* lines in service
    raised,    \* devices that request
    tick,      \* the edge of the timer is latched
    raises,
    handling,  \* the vector the processor is in, with its place in the loop
    running,   \* "main" (the shell's task) or "other" (idle, a worker)
    awake,     \* main is not blocked
    mode,      \* main is in the "kernel" or in "user" mode
    flag,      \* main's EFLAGS.IF
    saved      \* the flags that irq_save returned to main

picVars == <<imr, isr>>
devVars == <<raised, tick, raises>>
mainVars == <<awake, mode, flag, saved>>
irqVars == <<slots, picVars, devVars, handling, running, mainVars>>
-----------------------------------------------------------------------------
(* The interrupt controllers.                                              *)

\* Requests at the inputs: the timer's edge, the devices' levels.
Requested(l) == IF l = TIMER THEN tick ELSE \E h \in raised : LineOf[h] = l

\* The lines on which anything can be requested.
Inputs == {TIMER} \cup {LineOf[h] : h \in Handlers}

\* The slave's lines have the priority of the master's line 2.
Rank(l) == IF OnSlave(l) THEN <<CASCADE, l>> ELSE <<l, 0>>
Before(k, l) == \/ Rank(k)[1] < Rank(l)[1]
                \/ Rank(k)[1] = Rank(l)[1] /\ Rank(k)[2] < Rank(l)[2]

\* A request is passed on unless it is masked, or a line of the same or a higher
\* priority is in service (fully nested mode).
Served(l) ==
    /\ Requested(l)
    /\ l \notin imr
    /\ OnSlave(l) => CASCADE \notin imr
    /\ \A k \in isr : Before(l, k) /\ ~(OnSlave(l) /\ k = CASCADE)

First(l) == Served(l) /\ \A k \in Inputs \ {l} : Served(k) => Before(l, k)

\* What a line has in service while its handlers run.
InService(l) == IF OnSlave(l) THEN {l, CASCADE} ELSE {l}

\* The last line of a controller is reported when there is no request any more.
SpuriousMaster == CHIP - 1
SpuriousSlave == IRQ_COUNT - 1

\* A non-specific EOI ends what has the highest priority in one controller.
EndHighest(inService, chip) ==
    {l \in inService : OnSlave(l) # chip \/ \E k \in inService : OnSlave(k) = chip /\ k < l}

\* What is in service after pic_eoi.
pic_eoi(irq, inService) ==
    EndHighest(IF OnSlave(irq) THEN EndHighest(inService, TRUE) ELSE inService, FALSE)

\* Mutant: a spurious interrupt of the slave is dropped like one of the master.
SpuriousEnd_none(irq, inService) == inService

\* pic_spurious: the master had a request of the slave in any case.
SpuriousEnd(irq, inService) ==
    IF irq = SpuriousSlave THEN EndHighest(inService, FALSE) ELSE inService

pic_spurious(irq, inService) ==
    irq \in {SpuriousMaster, SpuriousSlave} /\ irq \notin inService

pic_mask(irq) == imr' = imr \cup {irq}

pic_unmask(irq) == imr' = imr \ (IF OnSlave(irq) THEN {irq, CASCADE} ELSE {irq})
-----------------------------------------------------------------------------
(* The processor.                                                          *)

InHandler == handling # NONE
IF_set == ~InHandler /\ (running = "other" \/ flag)

\* A task does not get to its next instruction while an interrupt can be taken.
TaskRuns(t) == /\ running = t /\ ~InHandler
               /\ IF_set => \A l \in Inputs : ~Served(l)

Enter(vector, inService) ==
    /\ handling' = [irq |-> vector, at |-> 0]
    /\ isr' = isr \cup inService

\* The processor takes the request with the highest priority.
accept(l) ==
    /\ IF_set
    /\ First(l)
    /\ Enter(l, InService(l))
    /\ tick' = (tick /\ l # TIMER)
    /\ UNCHANGED <<slots, imr, raised, raises, running, mainVars>>

\* A request went away before the processor acknowledged it, and there is no other:
\* the master reports its last line, or, if it had passed on a request of the slave,
\* the slave does.
accept_spurious ==
    /\ IF_set
    /\ \A l \in Inputs : ~Served(l)
    /\ raises < MAX_RAISES
    /\ raises' = raises + 1
    /\ \/ Enter(SpuriousMaster, {})
       \/ CASCADE \notin imr /\ Enter(SpuriousSlave, {CASCADE})
    /\ UNCHANGED <<slots, imr, raised, tick, running, mainVars>>

\* isr_timer: scheduler_tick may wake main and choose another task; the EOI is sent
\* on the stack of the task that is chosen.
isr_timer ==
    /\ InHandler /\ handling.irq = TIMER
    /\ awake' \in {awake, TRUE}
    /\ running' \in {"other"} \cup {t \in {"main"} : awake'}
    /\ isr' = EndHighest(isr, FALSE)
    /\ handling' = NONE
    /\ UNCHANGED <<slots, imr, devVars, mode, flag, saved>>

Dispatching == InHandler /\ handling.irq # TIMER
Spurious == pic_spurious(handling.irq, isr)

\* irq_dispatch of an interrupt that nobody requested.
irq_dispatch_spurious ==
    /\ Dispatching /\ handling.at = 0
    /\ Spurious
    /\ isr' = SpuriousEnd(handling.irq, isr)
    /\ handling' = NONE
    /\ UNCHANGED <<slots, imr, devVars, running, mainVars>>

\* Mutant: only one handler of a line is called.
LoopEnd_first == 1

LoopEnd == IRQ_HANDLERS_MAX

\* One turn of the loop of irq_dispatch; a handler ends the request of its device.
irq_dispatch_handler ==
    /\ Dispatching /\ ~Spurious
    /\ handling.at < LoopEnd
    /\ raised' = raised \ {slots[handling.irq][handling.at]}
    /\ handling' = [handling EXCEPT !.at = @ + 1]
    /\ UNCHANGED <<slots, picVars, tick, raises, running, mainVars>>

irq_dispatch_eoi ==
    /\ Dispatching /\ ~Spurious
    /\ handling.at >= LoopEnd
    /\ isr' = pic_eoi(handling.irq, isr)
    /\ handling' = NONE
    /\ UNCHANGED <<slots, imr, devVars, running, mainVars>>
-----------------------------------------------------------------------------
(* The task of the shell.                                                  *)

MainRuns == TaskRuns("main")
InKernel == MainRuns /\ mode = "kernel" /\ saved = NONE

Reserved(irq) == irq \in {TIMER, CASCADE} \/ irq >= IRQ_COUNT

\* irq_register, with interrupts off from the search to pic_unmask.
irq_register(irq, h) ==
    /\ InKernel
    /\ ~Reserved(irq)
    /\ LET used == {slots[irq][i] : i \in Slots}
       IN  IF h \in used \/ NONE \notin used
           THEN UNCHANGED <<slots, imr>>        \* -1
           ELSE /\ slots' = [slots EXCEPT ![irq][CHOOSE i \in Slots :
                        slots[irq][i] = NONE /\ \A j \in 0..(i - 1) : slots[irq][j] # NONE] = h]
                /\ pic_unmask(irq)
    /\ UNCHANGED <<isr, devVars, handling, running, mainVars>>

\* Mutant: the line is masked whoever else is registered.
Remaining_none(irq, h) == {}

Remaining(irq, h) == {i \in Slots : slots[irq][i] \notin {h, NONE}}

irq_unregister(irq, h) ==
    /\ InKernel
    /\ ~Reserved(irq)
    /\ slots' = [slots EXCEPT ![irq] = [i \in Slots |-> IF @[i] = h THEN NONE ELSE @[i]]]
    /\ IF Remaining(irq, h) = {} THEN pic_mask(irq) ELSE UNCHANGED imr
    /\ UNCHANGED <<isr, devVars, handling, running, mainVars>>

irq_save ==
    /\ InKernel
    /\ saved' = flag
    /\ flag' = FALSE
    /\ UNCHANGED <<slots, picVars, devVars, handling, running, awake, mode>>

irq_restore ==
    /\ MainRuns
    /\ saved # NONE
    /\ flag' = saved
    /\ saved' = NONE
    /\ UNCHANGED <<slots, picVars, devVars, handling, running, awake, mode>>

\* enter_usermode: iretd with EFLAGS = 2.
enter_usermode ==
    /\ InKernel
    /\ mode' = "user"
    /\ flag' = FALSE
    /\ UNCHANGED <<slots, picVars, devVars, handling, running, awake, saved>>

\* isr_syscall with SYS_EXIT: back behind enter_usermode, the flag as the gate left it.
sys_exit ==
    /\ MainRuns
    /\ mode = "user"
    /\ mode' = "kernel"
    /\ flag' = FALSE
    /\ UNCHANGED <<slots, picVars, devVars, handling, running, awake, saved>>

\* Main waits for a key, a deadline or a semaphore, in the kernel or in a system call:
\* isr_yield goes on with another task, and with that task's flag.
block ==
    /\ MainRuns
    /\ awake' = FALSE
    /\ running' = "other"
    /\ UNCHANGED <<slots, picVars, devVars, handling, mode, flag, saved>>

\* Another task wakes main, or gives up the processor.
wake ==
    /\ TaskRuns("other")
    /\ awake' = TRUE
    /\ running' \in {"main", "other"}
    /\ UNCHANGED <<slots, picVars, devVars, handling, mode, flag, saved>>
-----------------------------------------------------------------------------
(* The devices.                                                            *)

raise(h) ==
    /\ h \notin raised
    /\ raises < MAX_RAISES
    /\ raised' = raised \cup {h}
    /\ raises' = raises + 1
    /\ UNCHANGED <<slots, picVars, tick, handling, running, mainVars>>

withdraw(h) ==
    /\ h \in raised
    /\ raised' = raised \ {h}
    /\ UNCHANGED <<slots, picVars, tick, raises, handling, running, mainVars>>

\* The next tick comes when the handler of the last one is over: it has 10 ms.
timer ==
    /\ ~tick
    /\ TIMER \notin isr
    /\ tick' = TRUE
    /\ UNCHANGED <<slots, picVars, raised, raises, handling, running, mainVars>>
-----------------------------------------------------------------------------
\* After pic_remap and scheduler_start.
IrqInit ==
    /\ slots = [l \in Lines |-> [i \in Slots |-> NONE]]
    /\ imr = Lines \ {TIMER}
    /\ isr = {}
    /\ raised = {}
    /\ tick = FALSE
    /\ raises = 0
    /\ handling = NONE
    /\ running = "main"
    /\ awake = TRUE
    /\ mode = "kernel"
    /\ flag = TRUE
    /\ saved = NONE

irq_dispatch == irq_dispatch_spurious \/ irq_dispatch_handler \/ irq_dispatch_eoi
Processor == isr_timer \/ irq_dispatch
Main == irq_save \/ irq_restore \/ enter_usermode \/ sys_exit \/ block
Api == \E h \in Handlers : \E irq \in Asked \cup {LineOf[h]} :
          irq_register(irq, h) \/ irq_unregister(irq, h)
Device == (\E h \in Handlers : raise(h) \/ withdraw(h)) \/ timer

IrqNext == \/ \E l \in Inputs : accept(l)
           \/ accept_spurious \/ Processor \/ Main \/ Api \/ wake \/ Device

IrqSpec == IrqInit /\ [][IrqNext]_irqVars

\* The controllers and the processor go on; the timer ticks; a handler is not kept
\* away by the timer for ever (a tick is 10 ms, its handler far less); irq_restore
\* follows irq_save, and a script ends or waits; the shell waits for a key again
\* and again, and not always later than a tick (get_key sleeps when there is none).
FairIrqSpec ==
    /\ IrqSpec
    /\ WF_irqVars(Processor) /\ WF_irqVars(timer)
    /\ \A l \in Inputs : SF_irqVars(accept(l))
    /\ SF_irqVars(irq_restore) /\ SF_irqVars(block) /\ SF_irqVars(~tick /\ block)
-----------------------------------------------------------------------------
(* Properties.                                                             *)

\* A line is open exactly while it has a handler, whatever drivers come and go on
\* it, and the way through the master is open for the slave's (irq_register,
\* irq_unregister, pic_unmask).
LinesMatchHandlers ==
    /\ TIMER \notin imr
    /\ \A l \in DeviceLines : l \notin imr <=> \E i \in Slots : slots[l][i] # NONE
    /\ \A l \in DeviceLines \ imr : OnSlave(l) => CASCADE \notin imr

\* What the controllers hold in service is exactly what the running handler is going
\* to acknowledge: a line that stayed in service would block every line behind it for
\* ever (irq_dispatch, pic_eoi, pic_spurious, isr_timer).
InServiceExact ==
    isr = IF ~InHandler THEN {}
          ELSE IF Spurious THEN (IF handling.irq = SpuriousSlave THEN {CASCADE} ELSE {})
          ELSE InService(handling.irq)

\* A device whose handler is registered gets it run, or takes its request back, also
\* when the shell runs with interrupts off after an exec.
RequestsServed ==
    \A h \in Handlers :
        (h \in raised /\ \E i \in Slots : slots[LineOf[h]][i] = h)
            ~> (h \notin raised \/ \A i \in Slots : slots[LineOf[h]][i] # h)
=============================================================================
