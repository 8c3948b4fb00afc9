----------------------------- MODULE TaskMachines -----------------------------
(***************************************************************************)
(* What the scheduler of the kernel (01_cuat/tp_01_06) promises its tasks: *)
(* every slot of the task table owns a machine of its own (core registers, *)
(* privilege mode, address space and vector registers).  A machine changes *)
(* only by an instruction of the task that owns it; giving the processor   *)
(* to another slot changes no machine at all.                              *)
(***************************************************************************)
CONSTANTS
    Slots,      \* the entries of the task table
    Spaces,     \* address spaces: <<first-level table, ASID>>
    Word,       \* contents of the core registers, program counter included
    Vector,     \* contents of FPSCR and the vector registers
    CoreStep,   \* what one core instruction makes of the core registers
    SkipStep,   \* what leaving one out makes of them
    VectorStep  \* what one vector instruction makes of the vector registers

Modes == {"usr", "sys"}

Machine == [gp : Word, mode : Modes, space : Spaces, vec : Vector]

VARIABLES
    machine,    \* the machine of every slot
    running     \* the slot that has the processor: a singleton, {} at boot

machineVars == <<machine, running>>

-----------------------------------------------------------------------------
Init ==
    /\ machine \in [Slots -> Machine]
    /\ running = {}

\* Before the first dispatch a slot may be given any program.
Install(s) ==
    /\ running = {}
    /\ \E m \in Machine : machine' = [machine EXCEPT ![s] = m]
    /\ UNCHANGED running

Dispatch(s) ==
    /\ running' = {s}
    /\ UNCHANGED machine

CoreInstruction(s) ==
    /\ s \in running
    /\ machine' = [machine EXCEPT ![s].gp = CoreStep[machine[s].gp]]
    /\ UNCHANGED running

\* An instruction that faults may be left out.
Skip(s) ==
    /\ s \in running
    /\ machine' = [machine EXCEPT ![s].gp = SkipStep[machine[s].gp]]
    /\ UNCHANGED running

AfterVector(m) ==
    [gp |-> CoreStep[m.gp], mode |-> m.mode, space |-> m.space, vec |-> VectorStep[m.vec]]

VectorInstruction(s) ==
    /\ s \in running
    /\ machine' = [machine EXCEPT ![s] = AfterVector(machine[s])]
    /\ UNCHANGED running

\* A system call changes the mode of the caller, on entry and on return; a
\* fault may change it too.
ModeChange(s, from, to) ==
    /\ s \in running
    /\ machine[s].mode = from
    /\ machine' = [machine EXCEPT ![s].mode = to]
    /\ UNCHANGED running

Next ==
    \E s \in Slots :
        \/ Install(s)
        \/ Dispatch(s)
        \/ CoreInstruction(s)
        \/ Skip(s)
        \/ VectorInstruction(s)
        \/ ModeChange(s, "usr", "sys")
        \/ ModeChange(s, "sys", "usr")

Spec == Init /\ [][Next]_machineVars
=============================================================================
