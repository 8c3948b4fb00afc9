------------------------------- MODULE Scheduler -------------------------------
(***************************************************************************)
(* The round-robin scheduler of the kernel in 01_cuat/tp_01_06: the task   *)
(* table (scheduler.c), the exception entry points (vector_table.S), the   *)
(* interrupt dispatch and the abort handlers (int_handlers.c), the lazy    *)
(* switch of the vector unit (neon.S) and the parts of the GIC and of the  *)
(* timers they touch.                                                      *)
(*                                                                         *)
(* One core runs with interrupts masked inside every exception handler, so *)
(* a handler is one action; between two instructions of a task an          *)
(* interrupt may be taken.                                                 *)
(***************************************************************************)
EXTENDS Integers, FiniteSets

CONSTANTS
    MaxTasks,     \* SCHEDULER_MAX_TASKS
    MaxAdds,      \* how often the boot code calls __scheduler_add_task
    Tables,       \* first-level tables of the tasks
    KernelTable,  \* kernel_table1_addr
    Word,         \* contents of r0-r12, sp, lr and pc
    IdleEntry,    \* prv_idle_task + 4, with the stack of the idle task
    Entries,      \* entry points of tasks
    Vector,       \* contents of FPSCR and Q0-Q15
    CoreStep,     \* one instruction of a program, as a function on Word
    SkipStep,     \* one instruction that is left out, as a function on Word
    VectorStep,   \* one vector instruction, as a function on Vector
    IrqTimers,    \* the timers whose interrupt some caller enabled
    Testing       \* ENABLE_TESTING

Slots == 0 .. MaxTasks - 1

\* No program returns to the first instruction of the idle task, which is
\* only ever entered.
ASSUME SizeAssumption ==
    /\ MaxTasks \in Nat \ {0}
    /\ MaxAdds \in Nat

ASSUME ProgramAssumption ==
    /\ KernelTable \notin Tables
    /\ IdleEntry \in Word
    /\ Entries \subseteq Word \ {IdleEntry}
    /\ CoreStep \in [Word -> Word \ {IdleEntry}]
    /\ SkipStep \in [Word -> Word \ {IdleEntry}]
    /\ VectorStep \in [Vector -> Vector]
    /\ Vector # {}

ASSUME BuildAssumption == Testing \in BOOLEAN

ASSUME TimerAssumption ==
    /\ "TIMER0" \in IrqTimers
    /\ IrqTimers \subseteq {"TIMER0", "TIMER1"}

AllTables == Tables \cup {KernelTable}
Asids     == 1 .. MaxTasks       \* ASID 0 is reserved
Modes     == {"usr", "sys"}

\* task_context: spsr is the mode, gp is r0_to_r12, sp, lr and pc, vec is
\* fpscr and q.
Context == [table : AllTables, asid : Asids, mode : Modes, gp : Word, vec : Vector]

\* The registers of the core that the handlers save and load.
Cpu == [table : AllTables, asid : Asids \cup {0}, mode : Modes, gp : Word]

Phases == {"boot", "timer_on", "neon_off", "swi", "run"}

VARIABLES
    contexts,   \* prv_task_contexts
    current,    \* prv_current_task
    last,       \* prv_last_task
    cpu,        \* the registers of whatever the core executes
    neonOn,     \* FPEXC.EN
    bank,       \* the vector registers of the core
    ris,        \* the timers whose raw interrupt status is set
    gicActive,  \* an interrupt was acknowledged and not ended (no EOI yet)
    phase,      \* how far main came in __scheduler_start
    adds        \* calls of __scheduler_add_task so far

vars == <<contexts, current, last, cpu, neonOn, bank, ris, gicActive, phase, adds>>
-----------------------------------------------------------------------------
(***************************************************************************)
(* Boot: prv_task_init and __scheduler_start, in main.                     *)
(***************************************************************************)

\* __scheduler_init: every slot starts the idle task.
IdleContext(i) ==
    [table |-> KernelTable, asid |-> i + 1, mode |-> "sys", gp |-> IdleEntry]

\* The table is zeroed with the other statics, so all slots have the same
\* vector registers; the bank of the core holds anything, and the vector
\* unit may have been used before the scheduler starts.
Init ==
    /\ \E zero \in Vector :
          contexts = [i \in Slots |->
                         [table |-> IdleContext(i).table, asid |-> IdleContext(i).asid,
                          mode  |-> IdleContext(i).mode,  gp   |-> IdleContext(i).gp,
                          vec   |-> zero]]
    /\ current = 0
    /\ last = 0
    /\ \E w \in Word : cpu = [table |-> KernelTable, asid |-> 0, mode |-> "sys", gp |-> w]
    /\ neonOn \in BOOLEAN
    /\ bank \in Vector
    /\ ris = {}
    /\ gicActive = FALSE
    /\ phase = "boot"
    /\ adds = 0

IsFree(i) == contexts[i].gp = IdleEntry

\* The first free slot gets the task; with none, 1 is returned.
AddTask(entry, table) ==
    /\ phase = "boot"
    /\ adds < MaxAdds
    /\ adds' = adds + 1
    /\ \/ \E i \in Slots :
             /\ IsFree(i)
             /\ \A j \in Slots : j < i => ~IsFree(j)
             /\ contexts' = [contexts EXCEPT ![i].gp = entry,
                                             ![i].mode = "usr",
                                             ![i].table = table]
       \/ /\ \A i \in Slots : ~IsFree(i)
          /\ UNCHANGED contexts
    /\ UNCHANGED <<current, last, cpu, neonOn, bank, ris, gicActive, phase>>

StartTimer ==
    /\ phase = "boot"
    /\ phase' = "timer_on"
    /\ ris' = ris \ {"TIMER0"}    \* __timer_init clears it before enabling
    /\ UNCHANGED <<contexts, current, last, cpu, neonOn, bank, gicActive, adds>>

DisableNeon ==
    /\ phase = "timer_on"
    /\ phase' = "neon_off"
    /\ neonOn' = FALSE
    /\ UNCHANGED <<contexts, current, last, cpu, bank, ris, gicActive, adds>>

SetSwi ==
    /\ phase = "neon_off"
    /\ phase' = "swi"
    /\ UNCHANGED <<contexts, current, last, cpu, neonOn, bank, ris, gicActive, adds>>
-----------------------------------------------------------------------------
(***************************************************************************)
(* Interrupts.                                                             *)
(***************************************************************************)

\* A timer runs out.  TIMER0 is loaded with 10 ms, so it does not run out
\* before main has executed the few instructions up to __gic_set_swi.
TimerExpires(t) ==
    /\ phase \in {"swi", "run"}
    /\ t \in IrqTimers \ ris
    /\ ris' = ris \cup {t}
    /\ UNCHANGED <<contexts, current, last, cpu, neonOn, bank, gicActive, phase, adds>>

\* save_context: the running registers go to the slot the scheduler ran last;
\* the vector registers only when they were in use.
SavedContext(i) ==
    [contexts[i] EXCEPT !.table = cpu.table,
                        !.mode  = cpu.mode,
                        !.gp    = cpu.gp,
                        !.vec   = IF neonOn THEN bank ELSE contexts[i].vec]

\* Mutant: ASID 0, set while TTBR0 changes, is left in place.
LoadedCpuAsidZero(ctx) ==
    [table |-> ctx.table, asid |-> 0, mode |-> ctx.mode, gp |-> ctx.gp]

\* load_new_context: everything but the vector registers.
LoadedCpu(ctx) ==
    [table |-> ctx.table, asid |-> ctx.asid, mode |-> ctx.mode, gp |-> ctx.gp]

\* Mutant: the vector unit is saved but stays on.
SaveAndLoadNeonOn(from, to) ==
    /\ contexts' = [contexts EXCEPT ![from] = SavedContext(from)]
    /\ cpu' = LoadedCpu(contexts'[to])
    /\ UNCHANGED neonOn

SaveAndLoad(from, to) ==
    /\ contexts' = [contexts EXCEPT ![from] = SavedContext(from)]
    /\ cpu' = LoadedCpu(contexts'[to])
    /\ neonOn' = FALSE

\* Mutant: the rotation wraps one slot early.
NextSlotEarlyWrap(i) == IF i + 2 >= MaxTasks THEN 0 ELSE i + 1

NextSlot(i) == IF i + 1 = MaxTasks THEN 0 ELSE i + 1

\* __gic_get_id acknowledged an interrupt; a handler must both clear its
\* source and write EOI, or the GIC signals no further interrupt.
EndOfInterrupt == gicActive' = FALSE

\* Mutant: the timer is cleared, the GIC is not told.
ClearInterruptNoEoi(t) ==
    /\ ris' = ris \ {t}
    /\ gicActive' = TRUE

\* __timer_clear_interrupt
ClearInterrupt(t) ==
    /\ ris' = ris \ {t}
    /\ EndOfInterrupt

\* IRQ_handler for the software interrupt main sends to itself: the context
\* of main is dropped and the first slot is loaded.
SwiIrq ==
    /\ phase = "swi"
    /\ ~gicActive
    /\ phase' = "run"
    /\ EndOfInterrupt
    /\ cpu' = LoadedCpu(contexts[current])
    /\ UNCHANGED <<contexts, current, last, neonOn, bank, ris, adds>>

\* IRQ_handler for the interrupt line TIMER0 and TIMER1 share.  TIMER0 wins;
\* its handler, prv_scheduler_change_task, clears the interrupt and moves on
\* to the next slot.
SchedulerIrq ==
    /\ phase = "run"
    /\ ~gicActive
    /\ "TIMER0" \in ris
    /\ ClearInterrupt("TIMER0")
    /\ last' = current
    /\ current' = NextSlot(current)
    /\ SaveAndLoad(last', current')
    /\ UNCHANGED <<bank, phase, adds>>

\* The same interrupt line when only TIMER1 ran out: its handler clears the
\* interrupt and does not touch the scheduler.
OtherIrq ==
    /\ phase = "run"
    /\ ~gicActive
    /\ "TIMER1" \in ris
    /\ "TIMER0" \notin ris
    /\ ClearInterrupt("TIMER1")
    /\ SaveAndLoad(last, current)
    /\ UNCHANGED <<current, last, bank, phase, adds>>
-----------------------------------------------------------------------------
(***************************************************************************)
(* The running task.                                                       *)
(***************************************************************************)

Execute ==
    /\ phase = "run"
    /\ cpu' = [cpu EXCEPT !.gp = CoreStep[cpu.gp]]
    /\ UNCHANGED <<contexts, current, last, neonOn, bank, ris, gicActive, phase, adds>>

ExecuteVector ==
    /\ phase = "run"
    /\ neonOn
    /\ cpu' = [cpu EXCEPT !.gp = CoreStep[cpu.gp]]
    /\ bank' = VectorStep[bank]
    /\ UNCHANGED <<contexts, current, last, neonOn, ris, gicActive, phase, adds>>

\* UND_handler while the unit is off, for a vector instruction or any other:
\* switch it on, load the registers of the current task and retry it.
NeonUndef ==
    /\ phase = "run"
    /\ ~neonOn
    /\ neonOn' = TRUE
    /\ bank' = contexts[current].vec
    /\ UNCHANGED <<contexts, current, last, cpu, ris, gicActive, phase, adds>>

\* UND_handler for an instruction that is undefined although the unit is on: it
\* is left out.
Undefined ==
    /\ phase = "run"
    /\ neonOn
    /\ cpu' = [cpu EXCEPT !.gp = SkipStep[cpu.gp]]
    /\ UNCHANGED <<contexts, current, last, neonOn, bank, ris, gicActive, phase, adds>>

\* SVC_handler: interrupts are enabled again while the system call runs.
SvcEntry ==
    /\ phase = "run"
    /\ cpu.mode = "usr"
    /\ cpu' = [cpu EXCEPT !.mode = "sys"]
    /\ UNCHANGED <<contexts, current, last, neonOn, bank, ris, gicActive, phase, adds>>

\* Only a task returns to user mode: the idle task, on the kernel table, makes
\* no system call. (A test that a prefetch abort left in system mode does not
\* return either; the model lets it.)
SvcReturn ==
    /\ phase = "run"
    /\ cpu.mode = "sys"
    /\ cpu.table # KernelTable
    /\ cpu' = [cpu EXCEPT !.mode = "usr"]
    /\ UNCHANGED <<contexts, current, last, neonOn, bank, ris, gicActive, phase, adds>>
-----------------------------------------------------------------------------
(***************************************************************************)
(* Aborts: the running task touches memory it may not, or that is not      *)
(* mapped.                                                                 *)
(***************************************************************************)
instruction_fault ==
    {"IF_TABLE1_EXTERNAL_ABORT", "IF_TABLE2_EXTERNAL_ABORT", "IF_TABLE1_PARITY_ERROR",
     "IF_TABLE2_PARITY_ERROR", "IF_SECTION_TRANSLATION", "IF_PAGE_TRANSLATION",
     "IF_ACCESS_FLAG_SECTION", "IF_ACCESS_FLAG_PAGE", "IF_DOMAIN_SECTION", "IF_DOMAIN_PAGE",
     "IF_PERMISSION_SECTION", "IF_PERMISSION_PAGE"}

data_fault ==
    {"DF_ALIGNMENT", "DF_CACHE_MAINTENANCE", "DF_TABLE1_EXTERNAL_ABORT",
     "DF_TABLE2_EXTERNAL_ABORT", "DF_TABLE1_PARITY_ERROR", "DF_TABLE2_PARITY_ERROR",
     "DF_SECTION_TRANSLATION", "DF_PAGE_TRANSLATION", "DF_ACCESS_FLAG_SECTION",
     "DF_ACCESS_FLAG_PAGE", "DF_DOMAIN_SECTION", "DF_DOMAIN_PAGE", "DF_PERMISSION_SECTION",
     "DF_PERMISSION_PAGE"}

rw_fault == {"READ_ACCESS", "WRITE_ACCESS"}

\* Where the handlers return to: 0, or a code of test_codes.h.
RETURN_TO_SAME == 0

TestCode == [alignment |-> 3, read |-> 4, write |-> 5, instruction |-> 8]

pref_handler(fault) ==
    IF Testing /\ fault \in {"IF_PERMISSION_SECTION", "IF_PERMISSION_PAGE"}
    THEN TestCode.instruction
    ELSE RETURN_TO_SAME

abt_handler(fault, rw) ==
    CASE Testing /\ fault = "DF_ALIGNMENT" -> TestCode.alignment
      [] Testing /\ fault = "DF_PERMISSION_PAGE" /\ rw = "READ_ACCESS" -> TestCode.read
      [] Testing /\ fault = "DF_PERMISSION_PAGE" /\ rw = "WRITE_ACCESS" -> TestCode.write
      [] OTHER -> RETURN_TO_SAME

\* PREF_handler tries the same instruction again; in a test, in system mode.
PrefetchAbort ==
    /\ phase = "run"
    /\ \E code \in {pref_handler(fault) : fault \in instruction_fault} :
          cpu' = IF code = RETURN_TO_SAME THEN cpu ELSE [cpu EXCEPT !.mode = "sys"]
    /\ UNCHANGED <<contexts, current, last, neonOn, bank, ris, gicActive, phase, adds>>

\* ABT_handler tries the same instruction again; in a test, it is left out.
DataAbort ==
    /\ phase = "run"
    /\ \E code \in {abt_handler(fault, rw) : fault \in data_fault, rw \in rw_fault} :
          cpu' = IF code = RETURN_TO_SAME THEN cpu ELSE [cpu EXCEPT !.gp = SkipStep[cpu.gp]]
    /\ UNCHANGED <<contexts, current, last, neonOn, bank, ris, gicActive, phase, adds>>
-----------------------------------------------------------------------------
Next ==
    \/ \E e \in Entries, t \in Tables : AddTask(e, t)
    \/ StartTimer
    \/ DisableNeon
    \/ SetSwi
    \/ \E t \in IrqTimers : TimerExpires(t)
    \/ SwiIrq
    \/ SchedulerIrq
    \/ OtherIrq
    \/ Execute
    \/ ExecuteVector
    \/ NeonUndef
    \/ Undefined
    \/ SvcEntry
    \/ SvcReturn
    \/ PrefetchAbort
    \/ DataAbort

Spec == Init /\ [][Next]_vars

\* The processor executes main until it waits in the idle task; the timers
\* keep running; a pending interrupt of the highest priority is taken at the
\* next instruction.  TIMER0 runs out every 10 ms, much longer than a
\* handler takes, so TIMER1 is not kept waiting for ever.
Fairness ==
    /\ WF_vars(StartTimer) /\ WF_vars(DisableNeon) /\ WF_vars(SetSwi)
    /\ WF_vars(SwiIrq) /\ WF_vars(SchedulerIrq) /\ SF_vars(OtherIrq)
    /\ WF_vars(TimerExpires("TIMER0"))

FairSpec == Spec /\ Fairness
-----------------------------------------------------------------------------
(***************************************************************************)
(* Properties.                                                             *)
(***************************************************************************)

\* The variables have their types; main runs on slot 0's turn with ASID 0
\* until the first switch, then every slot runs under its own ASID.
TypeOK ==
    /\ contexts \in [Slots -> Context]
    /\ \A i \in Slots : contexts[i].asid = i + 1
    /\ current \in Slots
    /\ last \in Slots
    /\ cpu \in Cpu
    /\ phase = "run" => cpu.asid = current + 1
    /\ neonOn \in BOOLEAN
    /\ bank \in Vector
    /\ ris \subseteq IrqTimers
    /\ gicActive \in BOOLEAN
    /\ phase \in Phases
    /\ adds \in 0 .. MaxAdds

\* The machine of a slot: in the core while the slot runs, in its context
\* otherwise; its vector registers are in the core only while the unit is on.
Running(i) == phase = "run" /\ current = i

SlotMachine(i) ==
    IF Running(i)
    THEN [gp    |-> cpu.gp,
          mode  |-> cpu.mode,
          space |-> <<cpu.table, cpu.asid>>,
          vec   |-> IF neonOn THEN bank ELSE contexts[i].vec]
    ELSE [gp    |-> contexts[i].gp,
          mode  |-> contexts[i].mode,
          space |-> <<contexts[i].table, contexts[i].asid>>,
          vec   |-> contexts[i].vec]

Machines == INSTANCE TaskMachines WITH
    Spaces  <- AllTables \X Asids,
    machine <- [i \in Slots |-> SlotMachine(i)],
    running <- IF phase = "run" THEN {current} ELSE {}

\* Preemption is invisible to the tasks: whatever the interleaving of timer
\* interrupts, system calls, aborts and vector instructions (vector_table.S, neon.S),
\* each task finds its registers, mode, address space and vector registers as
\* it left them, and no task changes those of another.
Isolated == Machines!Spec

\* Every slot gets the processor again and again: the rotation of
\* prv_scheduler_change_task reaches all of them and never stops.
EverySlotRuns == \A i \in Slots : []<>Running(i)

\* A timer interrupt that is raised is handled and cleared.
InterruptsServed == \A t \in IrqTimers : (t \in ris) ~> (t \notin ris)

\* vector_table.S:110-113 says of IRQ_handler that it "always saves the context
\* of the current task", whatever raised the interrupt: while the tasks run,
\* the only context a step may change is the one of the slot that is running.
SavesOnlyTheCurrentTask ==
    [][phase = "run" => \A i \in Slots \ {current} : contexts'[i] = contexts[i]]_vars
=============================================================================
