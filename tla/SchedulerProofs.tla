---------------------------- MODULE SchedulerProofs ----------------------------
(***************************************************************************)
(* Proofs about the scheduler, for any number of slots, any programs and   *)
(* any set of tables.                                                      *)
(***************************************************************************)
EXTENDS Scheduler, TLAPS

\* The inductive invariant: the types, and the vector unit is off from
\* neon_disable in __scheduler_start until the first switch.
IInv ==
    /\ TypeOK
    /\ phase \in {"neon_off", "swi"} => ~neonOn

-----------------------------------------------------------------------------
\* The successor of a slot in the rotation is a slot.
LEMMA NextSlotIsSlot == \A i \in Slots : NextSlot(i) \in Slots
  BY SizeAssumption DEF Slots, NextSlot

\* What save_context stores is a context of the same slot.
LEMMA SavedContextType ==
  ASSUME TypeOK, cpu.table \in AllTables, NEW i \in Slots
  PROVE  SavedContext(i) \in Context /\ SavedContext(i).asid = i + 1
  BY DEF TypeOK, SavedContext, Context, Cpu

\* What load_new_context loads is a register file under the slot's ASID.
LEMMA LoadedCpuType ==
  ASSUME NEW ctx \in Context
  PROVE  LoadedCpu(ctx) \in Cpu /\ LoadedCpu(ctx).asid = ctx.asid
  BY DEF LoadedCpu, Context, Cpu

\* Saving one slot and loading another keeps the types of the task table and
\* loads the ASID of the slot.
LEMMA SaveAndLoadType ==
  ASSUME TypeOK, NEW from \in Slots, NEW to \in Slots, SaveAndLoad(from, to)
  PROVE  /\ contexts' \in [Slots -> Context]
         /\ \A i \in Slots : contexts'[i].asid = i + 1
         /\ cpu' \in Cpu
         /\ cpu'.asid = to + 1
         /\ neonOn' \in BOOLEAN
  <1>1. SavedContext(from) \in Context /\ SavedContext(from).asid = from + 1
    BY SavedContextType DEF TypeOK, Cpu
  <1>2. contexts' \in [Slots -> Context] /\ \A i \in Slots : contexts'[i].asid = i + 1
    BY <1>1 DEF TypeOK, SaveAndLoad
  <1>3. contexts'[to] \in Context
    BY <1>2
  <1>4. cpu' \in Cpu /\ cpu'.asid = to + 1
    BY <1>2, <1>3, LoadedCpuType DEF SaveAndLoad
  <1> QED
    BY <1>2, <1>4 DEF SaveAndLoad

-----------------------------------------------------------------------------
LEMMA InitIInv == Init => IInv
  <1> SUFFICES ASSUME Init PROVE IInv
    OBVIOUS
  <1>1. 0 \in Slots
    BY SizeAssumption DEF Slots
  <1>2. /\ contexts \in [Slots -> Context]
        /\ \A i \in Slots : contexts[i].asid = i + 1
    BY SizeAssumption, ProgramAssumption
       DEF Init, Context, IdleContext, AllTables, Asids, Modes, Slots
  <1>3. cpu \in Cpu
    BY DEF Init, Cpu, AllTables, Modes
  <1>4. adds \in 0 .. MaxAdds
    BY SizeAssumption DEF Init
  <1>5. phase = "boot" /\ phase \in Phases
    BY DEF Init, Phases
  <1>6. /\ neonOn \in BOOLEAN /\ gicActive \in BOOLEAN
        /\ bank \in Vector /\ ris \subseteq IrqTimers
        /\ current = 0 /\ last = 0
    BY DEF Init
  <1> QED
    BY <1>1, <1>2, <1>3, <1>4, <1>5, <1>6 DEF IInv, TypeOK

LEMMA NextIInv == IInv /\ [Next]_vars => IInv'
  <1> SUFFICES ASSUME IInv, [Next]_vars PROVE IInv'
    OBVIOUS
  <1> USE DEF IInv
  <1>1. ASSUME NEW e \in Entries, NEW t \in Tables, AddTask(e, t) PROVE IInv'
    <2>1. e \in Word /\ t \in AllTables /\ "usr" \in Modes
      BY ProgramAssumption DEF AllTables, Modes
    <2>2. ASSUME NEW i \in Slots,
                 contexts' = [contexts EXCEPT ![i].gp = e, ![i].mode = "usr", ![i].table = t]
          PROVE  /\ contexts' \in [Slots -> Context]
                 /\ \A j \in Slots : contexts'[j].asid = j + 1
      BY <2>1, <2>2 DEF TypeOK, Context
    <2>3. /\ contexts' \in [Slots -> Context]
          /\ \A j \in Slots : contexts'[j].asid = j + 1
      BY <1>1, <2>2 DEF AddTask, TypeOK
    <2>4. adds' \in 0 .. MaxAdds
      <3>1. adds < MaxAdds /\ adds' = adds + 1
        BY <1>1 DEF AddTask
      <3>2. adds \in 0 .. MaxAdds
        BY DEF TypeOK
      <3> QED
        BY <3>1, <3>2, SizeAssumption
    <2> QED
      BY <1>1, <2>3, <2>4 DEF AddTask, TypeOK
  <1>2. CASE StartTimer
    BY <1>2 DEF StartTimer, TypeOK, Phases
  <1>3. CASE DisableNeon
    BY <1>3 DEF DisableNeon, TypeOK, Phases
  <1>4. CASE SetSwi
    BY <1>4 DEF SetSwi, TypeOK, Phases
  <1>5. ASSUME NEW t \in IrqTimers, TimerExpires(t) PROVE IInv'
    BY <1>5 DEF TimerExpires, TypeOK
  <1>6. CASE SwiIrq
    <2>1. contexts[current] \in Context /\ contexts[current].asid = current + 1
      BY DEF TypeOK
    <2>2. cpu' \in Cpu /\ cpu'.asid = current + 1
      BY <1>6, <2>1, LoadedCpuType DEF SwiIrq
    <2> QED
      BY <1>6, <2>2 DEF SwiIrq, EndOfInterrupt, TypeOK, Phases
  <1>7. CASE SchedulerIrq
    <2>1. last' \in Slots /\ current' \in Slots
      BY <1>7, NextSlotIsSlot DEF SchedulerIrq, TypeOK
    <2>2. SaveAndLoad(last', current')
      BY <1>7 DEF SchedulerIrq
    <2>3. /\ contexts' \in [Slots -> Context]
          /\ \A i \in Slots : contexts'[i].asid = i + 1
          /\ cpu' \in Cpu
          /\ cpu'.asid = current' + 1
          /\ neonOn' \in BOOLEAN
      BY <1>7, <2>1 , SaveAndLoadType DEF SchedulerIrq
    <2> QED
      BY <1>7, <2>1, <2>3 DEF SchedulerIrq, ClearInterrupt, EndOfInterrupt, TypeOK
  <1>8. CASE OtherIrq
    <2>1. /\ contexts' \in [Slots -> Context]
          /\ \A i \in Slots : contexts'[i].asid = i + 1
          /\ cpu' \in Cpu
          /\ cpu'.asid = current + 1
          /\ neonOn' \in BOOLEAN
      BY <1>8, SaveAndLoadType DEF OtherIrq, TypeOK
    <2> QED
      BY <1>8, <2>1 DEF OtherIrq, ClearInterrupt, EndOfInterrupt, TypeOK
  <1>9. CASE Execute
    BY <1>9, ProgramAssumption DEF Execute, TypeOK, Cpu
  <1>10. CASE ExecuteVector
    BY <1>10, ProgramAssumption DEF ExecuteVector, TypeOK, Cpu
  <1>11. CASE NeonUndef
    BY <1>11 DEF NeonUndef, TypeOK, Context
  <1>12. CASE SvcEntry
    BY <1>12 DEF SvcEntry, TypeOK, Cpu, Modes
  <1>13. CASE SvcReturn
    BY <1>13 DEF SvcReturn, TypeOK, Cpu, Modes
  <1>14. CASE UNCHANGED vars
    BY <1>14 DEF vars, TypeOK
  <1>15. CASE PrefetchAbort
    <2>1. cpu' = cpu \/ cpu' = [cpu EXCEPT !.mode = "sys"]
      BY <1>15 DEF PrefetchAbort
    <2>2. cpu' \in Cpu /\ cpu'.asid = cpu.asid
      BY <2>1 DEF TypeOK, Cpu, Modes
    <2> QED
      BY <1>15, <2>2 DEF PrefetchAbort, TypeOK
  <1>16. CASE DataAbort \/ Undefined
    <2>1. cpu' = cpu \/ cpu' = [cpu EXCEPT !.gp = SkipStep[cpu.gp]]
      BY <1>16 DEF DataAbort, Undefined
    <2>2. cpu' \in Cpu /\ cpu'.asid = cpu.asid
      BY <2>1, ProgramAssumption DEF TypeOK, Cpu
    <2> QED
      BY <1>16, <2>2 DEF DataAbort, Undefined, TypeOK
  <1> QED
    BY <1>1, <1>2, <1>3, <1>4, <1>5, <1>6, <1>7, <1>8, <1>9, <1>10, <1>11,
       <1>12, <1>13, <1>14, <1>15, <1>16 DEF Next

LEMMA Invariance == Spec => []IInv
  BY InitIInv, NextIInv, PTL DEF Spec

\* The types of the scheduler's variables (scheduler.c, vector_table.S), with
\* any set of interrupting timers; in particular a slot always runs under its
\* own ASID.
THEOREM TypeCorrect == Spec => []TypeOK
  <1>1. IInv => TypeOK
    BY DEF IInv
  <1> QED
    BY <1>1, Invariance, PTL

-----------------------------------------------------------------------------
(***************************************************************************)
(* The refinement of TaskMachines, for a kernel in which the timer of the  *)
(* scheduler is the only source of interrupts, as in the shipped one.      *)
(***************************************************************************)
OnlySchedulerTimer == IrqTimers = {"TIMER0"}

\* The machine of a slot that does not run is its context.
MachineOf(ctx) ==
    [gp |-> ctx.gp, mode |-> ctx.mode, space |-> <<ctx.table, ctx.asid>>, vec |-> ctx.vec]

\* Slot machines are machines of the abstract specification.
LEMMA SlotMachineType ==
  ASSUME TypeOK, NEW i \in Slots
  PROVE  phase # "run" => SlotMachine(i) \in Machines!Machine
  BY DEF TypeOK, SlotMachine, Running, Context, Machines!Machine, Machines!Modes, Modes

\* A step that leaves every slot machine and the running slot as they are.
LEMMA Stutter ==
  ASSUME UNCHANGED <<contexts, phase, current>>, phase # "run"
  PROVE  UNCHANGED Machines!machineVars
  BY DEF SlotMachine, Running, Machines!machineVars

\* When the running slot is saved, its machine moves from the core to its
\* context, unchanged.
LEMMA SaveKeepsMachine ==
  ASSUME TypeOK, phase = "run", contexts' = [contexts EXCEPT ![current] = SavedContext(current)]
  PROVE  \A i \in Slots : MachineOf(contexts'[i]) = SlotMachine(i)
  <1> TAKE i \in Slots
  <1>1. CASE i = current
    <2>1. contexts'[i] = SavedContext(current)
      BY <1>1 DEF TypeOK
    <2>2. contexts[current] \in Context /\ contexts[current].asid = current + 1
      BY DEF TypeOK
    <2>3. /\ SavedContext(current).gp = cpu.gp
          /\ SavedContext(current).mode = cpu.mode
          /\ SavedContext(current).table = cpu.table
          /\ SavedContext(current).asid = current + 1
          /\ SavedContext(current).vec = IF neonOn THEN bank ELSE contexts[current].vec
      BY <2>2 DEF SavedContext, Context
    <2>4. cpu.asid = current + 1
      BY DEF TypeOK
    <2> QED
      BY <1>1, <2>1, <2>3, <2>4 DEF MachineOf, SlotMachine, Running
  <1>2. CASE i # current
    BY <1>2 DEF TypeOK, MachineOf, SlotMachine, Running
  <1> QED
    BY <1>1, <1>2

\* When a slot is loaded, with the vector unit off, its machine moves from its
\* context to the core, unchanged.
LEMMA LoadKeepsMachine ==
  ASSUME TypeOK', phase' = "run", cpu' = LoadedCpu(contexts'[current']), ~neonOn'
  PROVE  \A i \in Slots : SlotMachine(i)' = MachineOf(contexts'[i])
  BY DEF SlotMachine, Running, MachineOf, LoadedCpu

-----------------------------------------------------------------------------
LEMMA InitRefines == Init => Machines!Init
  <1> SUFFICES ASSUME Init PROVE Machines!Init
    OBVIOUS
  <1>1. TypeOK /\ phase = "boot"
    BY InitIInv DEF Init, IInv
  <1>2. \A i \in Slots : SlotMachine(i) \in Machines!Machine
    BY <1>1, SlotMachineType
  <1> QED
    BY <1>1, <1>2 DEF Machines!Init

\* Every step of the scheduler is an abstract step or changes no machine.
LEMMA NextRefines ==
  ASSUME OnlySchedulerTimer, IInv, IInv', [Next]_vars
  PROVE  [Machines!Next]_(Machines!machineVars)
  <1> DEFINE mach == [i \in Slots |-> SlotMachine(i)]
             runs == IF phase = "run" THEN {current} ELSE {}
  <1> USE DEF IInv
  <1>0. current \in Slots /\ current' \in Slots
    BY DEF TypeOK
  <1>1. ASSUME NEW e \in Entries, NEW t \in Tables, AddTask(e, t)
        PROVE  [Machines!Next]_(Machines!machineVars)
    <2>1. phase = "boot" /\ UNCHANGED <<phase, current>>
      BY <1>1 DEF AddTask
    <2>2. \A i \in Slots : SlotMachine(i)' \in Machines!Machine
      BY <2>1, SlotMachineType DEF TypeOK, SlotMachine, Running, Context,
            Machines!Machine, Machines!Modes, Modes
    <2>3. ASSUME NEW i \in Slots,
                 contexts' = [contexts EXCEPT ![i].gp = e, ![i].mode = "usr", ![i].table = t]
          PROVE  Machines!Install(i)
      <3>1. \A j \in Slots : j # i => contexts'[j] = contexts[j]
        BY <2>3 DEF TypeOK
      <3>2. \A j \in Slots : j # i => SlotMachine(j)' = SlotMachine(j)
        BY <2>1, <3>1 DEF SlotMachine, Running
      <3>3. mach' = [mach EXCEPT ![i] = SlotMachine(i)']
        BY <3>2
      <3> QED
        BY <2>1, <2>2, <3>3 DEF Machines!Install
    <2>4. CASE UNCHANGED contexts
      BY <2>1, <2>4, Stutter
    <2> QED
      BY <1>1, <2>3, <2>4 DEF AddTask, Machines!Next
  <1>2. CASE StartTimer \/ DisableNeon \/ SetSwi
    <2>1. phase # "run" /\ phase' # "run" /\ UNCHANGED <<contexts, current>>
      BY <1>2 DEF StartTimer, DisableNeon, SetSwi
    <2> QED
      BY <2>1 DEF SlotMachine, Running, Machines!machineVars
  <1>3. ASSUME NEW t \in IrqTimers, TimerExpires(t)
        PROVE  UNCHANGED Machines!machineVars
    BY <1>3 DEF TimerExpires, SlotMachine, Running, Machines!machineVars
  <1>4. CASE SwiIrq
    <2>1. /\ phase = "swi" /\ phase' = "run" /\ ~neonOn /\ ~neonOn'
          /\ UNCHANGED <<contexts, current>>
          /\ cpu' = LoadedCpu(contexts'[current'])
      BY <1>4 DEF SwiIrq
    <2>2. \A i \in Slots : SlotMachine(i)' = MachineOf(contexts'[i])
      BY <2>1, LoadKeepsMachine
    <2>3. \A i \in Slots : SlotMachine(i) = MachineOf(contexts[i])
      BY <2>1 DEF SlotMachine, Running, MachineOf
    <2>4. \A i \in Slots : SlotMachine(i)' = SlotMachine(i)
      BY <2>1, <2>2, <2>3
    <2>5. Machines!Dispatch(current')
      BY <2>1, <2>4 DEF Machines!Dispatch
    <2> QED
      BY <1>0, <2>5 DEF Machines!Next
  <1>5. CASE SchedulerIrq
    <2>1. phase = "run" /\ phase' = "run" /\ SaveAndLoad(current, current')
      BY <1>5 DEF SchedulerIrq
    <2>2. /\ contexts' = [contexts EXCEPT ![current] = SavedContext(current)]
          /\ cpu' = LoadedCpu(contexts'[current'])
          /\ ~neonOn'
      BY <2>1 DEF SaveAndLoad
    <2>3. \A i \in Slots : SlotMachine(i)' = MachineOf(contexts'[i])
      BY <2>1, <2>2, LoadKeepsMachine
    <2>4. \A i \in Slots : MachineOf(contexts'[i]) = SlotMachine(i)
      BY <2>1, <2>2, SaveKeepsMachine
    <2>5. Machines!Dispatch(current')
      BY <2>1, <2>3, <2>4 DEF Machines!Dispatch
    <2> QED
      BY <1>0, <2>5 DEF Machines!Next
  <1>6. CASE OtherIrq
    BY <1>6 DEF OtherIrq, OnlySchedulerTimer, TypeOK
  <1>7. ASSUME phase = "run", UNCHANGED <<contexts, current, phase>>,
               cpu'.table = cpu.table, cpu'.asid = cpu.asid,
               NEW m, SlotMachine(current)' = m
        PROVE  /\ mach' = [mach EXCEPT ![current] = m]
               /\ runs = {current} /\ runs' = {current}
    BY <1>0, <1>7 DEF SlotMachine, Running
  <1>8. CASE Execute
    <2>1. /\ phase = "run" /\ UNCHANGED <<contexts, current, phase, neonOn, bank>>
          /\ cpu' = [cpu EXCEPT !.gp = CoreStep[cpu.gp]]
      BY <1>8 DEF Execute
    <2>2. /\ cpu'.table = cpu.table /\ cpu'.asid = cpu.asid
          /\ cpu'.mode = cpu.mode /\ cpu'.gp = CoreStep[cpu.gp]
      BY <2>1 DEF TypeOK, Cpu
    <2>3. SlotMachine(current)' = [SlotMachine(current) EXCEPT !.gp = CoreStep[SlotMachine(current).gp]]
      BY <2>1, <2>2 DEF SlotMachine, Running
    <2>4. /\ mach' = [mach EXCEPT ![current].gp = CoreStep[mach[current].gp]]
          /\ runs = {current} /\ runs' = {current}
      BY <1>0, <1>7, <2>1, <2>2, <2>3
    <2>5. Machines!CoreInstruction(current)
      BY <2>4 DEF Machines!CoreInstruction
    <2> QED
      BY <1>0, <2>5 DEF Machines!Next
  <1>9. CASE ExecuteVector
    <2>1. /\ phase = "run" /\ neonOn /\ neonOn' /\ UNCHANGED <<contexts, current, phase>>
          /\ cpu' = [cpu EXCEPT !.gp = CoreStep[cpu.gp]]
          /\ bank' = VectorStep[bank]
      BY <1>9 DEF ExecuteVector
    <2>2. /\ cpu'.table = cpu.table /\ cpu'.asid = cpu.asid
          /\ cpu'.mode = cpu.mode /\ cpu'.gp = CoreStep[cpu.gp]
      BY <2>1 DEF TypeOK, Cpu
    <2>3. SlotMachine(current)' = Machines!AfterVector(SlotMachine(current))
      <3>1. SlotMachine(current) =
               [gp |-> cpu.gp, mode |-> cpu.mode, space |-> <<cpu.table, cpu.asid>>, vec |-> bank]
        BY <2>1 DEF SlotMachine, Running
      <3>2. SlotMachine(current)' =
               [gp |-> CoreStep[cpu.gp], mode |-> cpu.mode, space |-> <<cpu.table, cpu.asid>>,
                vec |-> VectorStep[bank]]
        BY <2>1, <2>2, Zenon DEF SlotMachine, Running
      <3> QED
        BY <3>1, <3>2 DEF Machines!AfterVector
    <2>4. /\ mach' = [mach EXCEPT ![current] = Machines!AfterVector(mach[current])]
          /\ runs = {current} /\ runs' = {current}
      BY <1>0, <1>7, <2>1, <2>2, <2>3
    <2>5. Machines!VectorInstruction(current)
      BY <2>4 DEF Machines!VectorInstruction
    <2> QED
      BY <1>0, <2>5 DEF Machines!Next
  <1>10. CASE NeonUndef
    BY <1>10 DEF NeonUndef, SlotMachine, Running, Machines!machineVars
  <1>11. ASSUME NEW from \in Modes, NEW to \in Modes, phase = "run", cpu.mode = from,
                UNCHANGED <<contexts, current, phase, neonOn, bank>>,
                cpu' = [cpu EXCEPT !.mode = to]
         PROVE  Machines!ModeChange(current, from, to)
    <2>1. /\ cpu'.table = cpu.table /\ cpu'.asid = cpu.asid
          /\ cpu'.mode = to /\ cpu'.gp = cpu.gp
      BY <1>11 DEF TypeOK, Cpu
    <2>2. /\ SlotMachine(current)' = [SlotMachine(current) EXCEPT !.mode = to]
          /\ SlotMachine(current).mode = from
      BY <1>11, <2>1 DEF SlotMachine, Running
    <2>3. /\ mach' = [mach EXCEPT ![current].mode = to]
          /\ mach[current].mode = from
          /\ runs = {current} /\ runs' = {current}
      BY <1>0, <1>7, <1>11, <2>1, <2>2
    <2> QED
      BY <2>3 DEF Machines!ModeChange
  <1>12. CASE SvcEntry
    <2>1. Machines!ModeChange(current, "usr", "sys")
      BY <1>11, <1>12 DEF SvcEntry, Modes
    <2> QED
      BY <1>0, <2>1 DEF Machines!Next
  <1>13. CASE SvcReturn
    <2>1. Machines!ModeChange(current, "sys", "usr")
      BY <1>11, <1>13 DEF SvcReturn, Modes
    <2> QED
      BY <1>0, <2>1 DEF Machines!Next
  <1>14. CASE UNCHANGED vars
    BY <1>14 DEF vars, SlotMachine, Running, Machines!machineVars
  <1>15. ASSUME phase = "run", UNCHANGED <<contexts, current, phase, neonOn, bank, cpu>>
         PROVE  UNCHANGED Machines!machineVars
    BY <1>15 DEF SlotMachine, Running, Machines!machineVars
  <1>16. CASE PrefetchAbort
    <2>1. /\ phase = "run" /\ UNCHANGED <<contexts, current, phase, neonOn, bank>>
          /\ cpu' = cpu \/ cpu' = [cpu EXCEPT !.mode = "sys"]
      BY <1>16 DEF PrefetchAbort
    <2>2. CASE cpu.mode = "usr" /\ cpu' = [cpu EXCEPT !.mode = "sys"]
      <3>1. Machines!ModeChange(current, "usr", "sys")
        BY <1>11, <2>1, <2>2 DEF Modes
      <3> QED
        BY <1>0, <3>1 DEF Machines!Next
    <2>3. CASE cpu.mode = "sys" /\ cpu' = [cpu EXCEPT !.mode = "sys"]
      <3>1. cpu' = cpu
        BY <2>3 DEF TypeOK, Cpu
      <3> QED
        BY <1>15, <2>1, <3>1
    <2>4. cpu.mode \in {"usr", "sys"}
      BY DEF TypeOK, Cpu, Modes
    <2> QED
      BY <1>15, <2>1, <2>2, <2>3, <2>4
  <1>17. CASE DataAbort \/ Undefined
    <2>1. /\ phase = "run" /\ UNCHANGED <<contexts, current, phase, neonOn, bank>>
          /\ cpu' = cpu \/ cpu' = [cpu EXCEPT !.gp = SkipStep[cpu.gp]]
      BY <1>17 DEF DataAbort, Undefined
    <2>2. CASE cpu' = [cpu EXCEPT !.gp = SkipStep[cpu.gp]]
      <3>1. /\ cpu'.table = cpu.table /\ cpu'.asid = cpu.asid
            /\ cpu'.mode = cpu.mode /\ cpu'.gp = SkipStep[cpu.gp]
        BY <2>2 DEF TypeOK, Cpu
      <3>2. SlotMachine(current)'
              = [SlotMachine(current) EXCEPT !.gp = SkipStep[SlotMachine(current).gp]]
        BY <2>1, <3>1 DEF SlotMachine, Running
      <3>3. /\ mach' = [mach EXCEPT ![current].gp = SkipStep[mach[current].gp]]
            /\ runs = {current} /\ runs' = {current}
        BY <1>0, <1>7, <2>1, <3>1, <3>2
      <3>4. Machines!Skip(current)
        BY <3>3 DEF Machines!Skip
      <3> QED
        BY <1>0, <3>4 DEF Machines!Next
    <2> QED
      BY <1>15, <2>1, <2>2
  <1> QED
    BY <1>1, <1>2, <1>3, <1>4, <1>5, <1>6, <1>8, <1>9, <1>10, <1>12, <1>13,
       <1>14, <1>16, <1>17 DEF Next

\* With the scheduler's timer as the only interrupt source, preemption is
\* invisible to every task: the context switch of vector_table.S and the lazy
\* vector switch of neon.S implement a private machine per slot.
THEOREM Isolation == OnlySchedulerTimer => (Spec => Isolated)
  <1> SUFFICES ASSUME OnlySchedulerTimer PROVE Spec => Isolated
    OBVIOUS
  <1>1. Init => Machines!Init
    BY InitRefines
  <1>2. OnlySchedulerTimer
    OBVIOUS
  <1>3. IInv /\ IInv' /\ [Next]_vars => [Machines!Next]_(Machines!machineVars)
    BY <1>2, NextRefines
  <1> QED
    BY <1>1, <1>3, Invariance, PTL DEF Spec, Isolated, Machines!Spec
=============================================================================
