-------------------------------- MODULE Timers --------------------------------
(***************************************************************************)
(* The timer driver (drivers/timer.c), the interrupt controller            *)
(* (drivers/gic.c) and the interrupt dispatch (int_handlers.c) of the       *)
(* kernel in 01_cuat/tp_01_06, under their callers: the tasks the scheduler *)
(* switches between, or main alone when there is no scheduler.              *)
(*                                                                         *)
(* A system call runs with interrupts enabled (vector_table.S), so every    *)
(* |= and &= on a register is a load and a store an interrupt may separate. *)
(* An interrupt handler starts with interrupts masked, but one that makes   *)
(* the system call timer_clear_interrupt has them enabled in it: interrupts *)
(* nest.                                                                   *)
(***************************************************************************)
EXTENDS Integers, Sequences

CONSTANTS
    Lines,      \* interrupt lines; line l is shared by timers 2*l and 2*l + 1
    MaxTasks,   \* SCHEDULER_MAX_TASKS
    Requests,   \* Requests[b][k]: what program k may call in build b, first, second ...
    Modulus,    \* 2^32, the range of the counters
    MsTicks     \* ticks in a millisecond: 1000

Timers   == {2 * l : l \in Lines} \cup {2 * l + 1 : l \in Lines}
Programs == 0 .. MaxTasks - 1
Ticks    == 0 .. Modulus - 1
Modes    == {"FREE_RUNNING", "ONE_SHOT", "PERIODIC"}
Builds   == {"scheduler", "main"}
Line(t)  == t \div 2
Even(l)  == 2 * l
Odd(l)   == 2 * l + 1

\* The bits of CONTROL, true when set: 7 enable, 6 reload (TIMER_FREE_RUNNING
\* of timer.h: "inverted in the docs"), 5 int, 1 wide, 0 oneshot; scaled
\* stands for bits 2 and 3.
Bits    == {"enable", "reload", "int", "wide", "oneshot", "scaled"}
Control == [Bits -> BOOLEAN]

\* The clock-select field of a timer in SYSCTRL: the set of its two bits.
SysctrlBits == Timers \X {"1MHz", "other"}
Block(t)    == IF t < 4 THEN "SYSCTRL0" ELSE "SYSCTRL1"

\* irq_handler of a timer: prv_no_handler, which does nothing; one that calls
\* timer_clear_interrupt for its timer, like those of testing.c; or
\* prv_scheduler_change_task.
Handlers == {"prv_no_handler", "clear", "change_task"}

\* The calls and their arguments.
Owned == Timers \ {0}
AllCalls ==
    [op : {"timer_init"}, t : Owned, us : Ticks, mode : Modes, int : BOOLEAN,
     handler : Handlers \ {"change_task"}]
    \cup [op : {"timer_set_mode"}, t : Owned, mode : Modes]
    \cup [op : {"timer_load_us"}, t : Owned, us : Ticks]
    \cup [op : {"timer_load_ms"}, t : Owned, ms : Nat]
    \cup [op : {"timer_resume", "timer_pause", "timer_reset", "timer_enable_interrupt",
                "timer_disable_int", "timer_clear_interrupt", "timer_time_ms", "timer_time_us",
                "timer_interrupted", "gic_enable_interrupt", "gic_disable_interrupt",
                "gic_clear_interrupt"}, t : Owned]

Operated(b, k) == {c.t : c \in UNION {Requests[b][k][i] : i \in DOMAIN Requests[b][k]}}

\* TIMER0 belongs to the scheduler; no timer is operated by two programs.
ASSUME TimersAssumption ==
    /\ Lines \subseteq Nat /\ 0 \in Lines
    /\ MaxTasks \in Nat \ {0}
    /\ Requests \in [Builds -> [Programs -> Seq(SUBSET AllCalls)]]
    /\ \A b \in Builds : \A j, k \in Programs : j # k => Operated(b, j) \cap Operated(b, k) = {}
    /\ Modulus \in Nat \ {0}
    /\ MsTicks \in Nat \ {0}

VARIABLES
    build,      \* scheduler: the tasks run; main: main alone runs
    control,    \* CONTROL of every timer
    load,       \* LOAD
    value,      \* VALUE, the counter
    ris,        \* the timers whose raw interrupt status is set
    sysctrl,    \* the two system controllers' clock-select bits
    handler,    \* irq_handler of every timer_dev
    enabled,    \* the lines whose SET_ENABLE bit is set
    active,     \* the handler of the interrupt that has had no EOI, or "none"
    handling,   \* of every program, what the handlers that interrupt it have to do
    program,    \* every program: the call it makes and what it holds
    current     \* the program the core runs: prv_current_task

regs == <<control, load, value, ris, sysctrl>>
gic  == <<enabled, active>>
vars == <<build, regs, handler, gic, handling, program, current>>
-----------------------------------------------------------------------------
(***************************************************************************)
(* The calls, each as the register accesses of its body, in order.         *)
(***************************************************************************)
SetBit(t, b)   == [do |-> "control", t |-> t, bit |-> b, to |-> TRUE]
ClearBit(t, b) == [do |-> "control", t |-> t, bit |-> b, to |-> FALSE]
Access(d, t)   == [do |-> d, t |-> t]

Resume(t) == <<SetBit(t, "enable")>>
Pause(t)  == <<ClearBit(t, "enable")>>
Reset(t)  == <<Access("value", t)>> \o Resume(t)
LoadUs(t, v) == <<[do |-> "load", t |-> t, to |-> v]>>
\* Mutant: the product is not cut to the width of the register.
LoadMsWide(t, v) == LoadUs(t, v * MsTicks)

LoadMs(t, v) == LoadUs(t, (v * MsTicks) % Modulus)

\* Mutant: the wrapping bit is cleared first.
SetModeWrapFirst(t, m) ==
    CASE m = "PERIODIC"     -> <<ClearBit(t, "oneshot"), SetBit(t, "reload")>>
      [] m = "ONE_SHOT"     -> <<SetBit(t, "oneshot")>>
      [] m = "FREE_RUNNING" -> <<ClearBit(t, "oneshot"), ClearBit(t, "reload")>>

SetMode(t, m) ==
    CASE m = "PERIODIC"     -> <<SetBit(t, "reload"), ClearBit(t, "oneshot")>>
      [] m = "ONE_SHOT"     -> <<SetBit(t, "oneshot")>>
      [] m = "FREE_RUNNING" -> <<ClearBit(t, "reload"), ClearBit(t, "oneshot")>>

EnableInterrupt(t)  == <<SetBit(t, "int"), Access("line_on", t)>>
DisableInterrupt(t) == <<ClearBit(t, "int"), Access("line_off", t)>>

\* Mutant: the GIC is not told of the end of the interrupt.
ClearInterruptNoEoi(t) == <<Access("intclr", t)>>

ClearInterrupt(t) == <<Access("intclr", t), Access("eoi", t)>>

ClockAt1MHz(t) ==
    <<[do |-> "sysctrl", t |-> t, bit |-> "1MHz",  to |-> TRUE],
      [do |-> "sysctrl", t |-> t, bit |-> "other", to |-> FALSE]>>

InitTimer(c) ==
    <<SetBit(c.t, "wide"), ClearBit(c.t, "scaled")>>
    \o ClockAt1MHz(c.t)
    \o SetMode(c.t, c.mode)
    \o LoadUs(c.t, c.us)
    \o ClearInterrupt(c.t)
    \o (IF c.int THEN EnableInterrupt(c.t) ELSE DisableInterrupt(c.t))
    \o <<[do |-> "handler", t |-> c.t, to |-> c.handler]>>
    \o Reset(c.t)

Accesses(c) ==
    CASE c.op = "timer_init"              -> InitTimer(c)
      [] c.op = "timer_resume"            -> Resume(c.t)
      [] c.op = "timer_pause"             -> Pause(c.t)
      [] c.op = "timer_reset"             -> Reset(c.t)
      [] c.op = "timer_load_ms"           -> LoadMs(c.t, c.ms)
      [] c.op = "timer_load_us"           -> LoadUs(c.t, c.us)
      [] c.op = "timer_set_mode"          -> SetMode(c.t, c.mode)
      [] c.op = "timer_enable_interrupt"  -> EnableInterrupt(c.t)
      [] c.op = "timer_disable_int"       -> DisableInterrupt(c.t)
      [] c.op = "timer_clear_interrupt"   -> ClearInterrupt(c.t)
      [] c.op = "timer_time_ms"           -> <<Access("time_ms", c.t)>>
      [] c.op = "timer_time_us"           -> <<Access("time_us", c.t)>>
      [] c.op = "timer_interrupted"       -> <<Access("interrupted", c.t)>>
      [] c.op = "gic_enable_interrupt"    -> <<Access("line_on", c.t)>>
      [] c.op = "gic_disable_interrupt"   -> <<Access("line_off", c.t)>>
      [] c.op = "gic_clear_interrupt"     -> <<Access("eoi", c.t)>>

Calls ==
    UNION {UNION {Requests[b][k][i] : i \in DOMAIN Requests[b][k]} : b \in Builds, k \in Programs}

NoCall == [op |-> "none"]
Free   == [call |-> NoCall, todo |-> <<>>, held |-> {}, result |-> 0, calls |-> 0]
-----------------------------------------------------------------------------
\* The registers after reset, with the interrupt bit of CONTROL set; the
\* scheduler, when there is one, has started TIMER0.
Init ==
    /\ build \in Builds
    /\ LET ticking(t) == build = "scheduler" /\ t = 0
       IN /\ control = [t \in Timers |-> [b \in Bits |->
                 b = "int" \/ (ticking(t) /\ b \in {"enable", "reload", "wide"})]]
          /\ load = [t \in Timers |-> IF ticking(t) THEN 1 % Modulus ELSE 0]
          /\ value = [t \in Timers |-> IF ticking(t) THEN 1 % Modulus ELSE Modulus - 1]
          /\ sysctrl = [b \in {"SYSCTRL0", "SYSCTRL1"} |->
                           IF build = "scheduler" /\ b = "SYSCTRL0" THEN {<<0, "1MHz">>} ELSE {}]
          /\ handler = [t \in Timers |-> IF ticking(t) THEN "change_task" ELSE "prv_no_handler"]
          /\ enabled = {l \in Lines : ticking(Even(l))}
    /\ ris = {}
    /\ active = "none"
    /\ handling = [k \in Programs |-> <<>>]
    /\ program = [k \in Programs |-> Free]
    /\ current = 0
-----------------------------------------------------------------------------
(***************************************************************************)
(* The running program.                                                    *)
(***************************************************************************)

\* The core runs the current program itself, not a handler on top of it.
Undisturbed == handling[current] = <<>>

\* A stub of timer.c or gic.c enters the kernel.
Call(c) ==
    /\ Undisturbed
    /\ program[current].call = NoCall
    /\ program[current].calls < Len(Requests[build][current])
    /\ c \in Requests[build][current][program[current].calls + 1]
    /\ c.op = "timer_init" \/ control[c.t]["wide"]   \* initialised before
    /\ program' = [program EXCEPT ![current] =
                      [call |-> c, todo |-> Accesses(c), held |-> {}, result |-> 0,
                       calls |-> @.calls + 1]]
    /\ UNCHANGED <<build, regs, handler, gic, handling, current>>

HandlerSteps == [do : {"intclr", "eoi", "return"}, t : Timers]

Step == Head(program[current].todo)

\* The running program goes on with its next access.
Done(held) ==
    program' = [program EXCEPT ![current].todo = Tail(@), ![current].held = held]

\* The register a |=, a &= or __timer_reset reads before it writes.
Register(s) ==
    CASE s.do = "control" -> control[s.t]
      [] s.do = "sysctrl" -> sysctrl[Block(s.t)]
      [] s.do = "value"   -> load[s.t]

Fetch ==
    /\ Undisturbed /\ program[current].todo # <<>>
    /\ Step.do \in {"control", "sysctrl", "value"}
    /\ program[current].held = {}
    /\ program' = [program EXCEPT ![current].held = {Register(Step)}]
    /\ UNCHANGED <<build, regs, handler, gic, handling, current>>

\* Mutant: the register is assigned where it should be or-ed.
ChangedAssigned(was, s) == [b \in Bits |-> b = s.bit /\ s.to]

Changed(was, s) == [was EXCEPT ![s.bit] = s.to]

Store ==
    /\ Undisturbed /\ program[current].todo # <<>>
    /\ \E was \in program[current].held :
          \/ /\ Step.do = "control"
             /\ control' = [control EXCEPT ![Step.t] = Changed(was, Step)]
             /\ UNCHANGED <<load, value, ris, sysctrl>>
          \/ /\ Step.do = "sysctrl"
             /\ sysctrl' = [sysctrl EXCEPT ![Block(Step.t)] =
                               IF Step.to THEN was \cup {<<Step.t, Step.bit>>}
                                          ELSE was \ {<<Step.t, Step.bit>>}]
             /\ UNCHANGED <<control, load, value, ris>>
          \/ /\ Step.do = "value"
             /\ value' \in {value, [value EXCEPT ![Step.t] = was]}
             /\ UNCHANGED <<control, load, ris, sysctrl>>
    /\ Done({})
    /\ UNCHANGED <<build, handler, gic, handling, current>>

\* A plain store.  Writing LOAD also restarts the count from the new value.
WriteLoad ==
    /\ Undisturbed /\ program[current].todo # <<>> /\ Step.do = "load"
    /\ load' = [load EXCEPT ![Step.t] = Step.to]
    /\ value' = [value EXCEPT ![Step.t] = Step.to]
    /\ Done({})
    /\ UNCHANGED <<build, control, ris, sysctrl, handler, gic, handling, current>>

ClearRis ==
    /\ Undisturbed /\ program[current].todo # <<>> /\ Step.do = "intclr"
    /\ ris' = ris \ {Step.t}
    /\ Done({})
    /\ UNCHANGED <<build, control, load, value, sysctrl, handler, gic, handling, current>>

SetHandler ==
    /\ Undisturbed /\ program[current].todo # <<>> /\ Step.do = "handler"
    /\ handler' = [handler EXCEPT ![Step.t] = Step.to]
    /\ Done({})
    /\ UNCHANGED <<build, regs, gic, handling, current>>

\* __gic_enable_interrupt sets a bit of SET_ENABLE; __gic_disable_interrupt
\* writes zeros there, which the register ignores.
WriteGic ==
    /\ Undisturbed /\ program[current].todo # <<>>
    /\ \/ /\ Step.do = "line_on"
          /\ enabled' = enabled \cup {Line(Step.t)}
          /\ UNCHANGED active
       \/ /\ Step.do = "line_off"
          /\ UNCHANGED gic
       \/ /\ Step.do = "eoi"
          /\ active' = "none"
          /\ UNCHANGED enabled
    /\ Done({})
    /\ UNCHANGED <<build, regs, handler, handling, current>>

TimeMs(v) == ((v + MsTicks - 1) % Modulus) \div MsTicks

Observed(s) ==
    CASE s.do = "time_ms"     -> TimeMs(value[s.t])
      [] s.do = "time_us"     -> value[s.t]
      [] s.do = "interrupted" -> IF s.t \in ris THEN 1 ELSE 0

ReadBack ==
    /\ Undisturbed /\ program[current].todo # <<>>
    /\ Step.do \in {"time_ms", "time_us", "interrupted"}
    /\ program' = [program EXCEPT ![current].todo = Tail(@),
                                  ![current].result = Observed(Step)]
    /\ UNCHANGED <<build, regs, handler, gic, handling, current>>

Return ==
    /\ Undisturbed
    /\ program[current].call # NoCall
    /\ program[current].todo = <<>>
    /\ program' = [program EXCEPT ![current].call = NoCall]
    /\ UNCHANGED <<build, regs, handler, gic, handling, current>>
-----------------------------------------------------------------------------
(***************************************************************************)
(* The timers and the interrupts.                                          *)
(***************************************************************************)

\* The handler of the timer has begun and has not returned.
Handled(t) == \E k \in Programs : \E i \in DOMAIN handling[k] : handling[k][i].t = t

\* A running timer counts down; at 0 it raises its interrupt and goes on with
\* LOAD or the largest value, unless it counts once.  It takes longer to run
\* out than its handler to return.
Tick(t) ==
    /\ control[t]["enable"]
    /\ ~Handled(t)
    /\ \/ /\ value[t] > 0
          /\ value' = [value EXCEPT ![t] = @ - 1]
          /\ ris' = IF value[t] = 1 THEN ris \cup {t} ELSE ris
       \/ /\ value[t] = 0
          /\ ~control[t]["oneshot"]
          /\ value' = [value EXCEPT ![t] = IF control[t]["reload"] THEN load[t]
                                                                   ELSE Modulus - 1]
          /\ UNCHANGED ris
    /\ UNCHANGED <<build, control, load, sysctrl, handler, gic, handling, program, current>>

Pending(l) ==
    /\ l \in enabled
    /\ \E t \in {Even(l), Odd(l)} : t \in ris /\ control[t]["int"]

\* The raw status of the even timer decides, whether or not its interrupt is
\* enabled.
Dispatched(l) == IF Even(l) \in ris THEN Even(l) ELSE Odd(l)

NextTask(k) == IF k + 1 = MaxTasks THEN 0 ELSE k + 1

\* prv_scheduler_change_task calls __timer_clear_interrupt and leaves the
\* interrupts masked; a handler that makes the system call goes on step by
\* step; prv_no_handler neither clears the timer nor tells the GIC.
RunHandler(t) ==
    \/ /\ handler[t] = "prv_no_handler"
       /\ active' = "prv_no_handler"
       /\ UNCHANGED <<ris, handling, current>>
    \/ /\ handler[t] = "clear"
       /\ active' = "clear"
       /\ handling' = [handling EXCEPT ![current] =
                          ClearInterrupt(t) \o <<Access("return", t)>> \o @]
       /\ UNCHANGED <<ris, current>>
    \/ /\ handler[t] = "change_task"
       /\ ris' = ris \ {t}
       /\ current' = NextTask(current)
       /\ UNCHANGED <<active, handling>>

\* IRQ_handler around irq_handler, also while the system call of a handler is
\* past its EOI.  Saving one context and loading another is what Scheduler
\* shows to be invisible to the programs as long as no timer but TIMER0
\* interrupts them.
Irq(l) ==
    /\ active = "none"
    /\ Pending(l)
    /\ \A j \in Lines : j < l => ~Pending(j)
    /\ RunHandler(Dispatched(l))
    /\ UNCHANGED <<build, control, load, value, sysctrl, handler, enabled, program>>

\* The handler goes on: its system call, and its return to what it interrupted.
Handle ==
    /\ ~Undisturbed
    /\ LET s == Head(handling[current])
       IN \/ s.do = "intclr" /\ ris' = ris \ {s.t} /\ UNCHANGED active
          \/ s.do = "eoi" /\ active' = "none" /\ UNCHANGED ris
          \/ s.do = "return" /\ UNCHANGED <<ris, active>>
    /\ handling' = [handling EXCEPT ![current] = Tail(@)]
    /\ UNCHANGED <<build, control, load, value, sysctrl, handler, enabled, program, current>>
-----------------------------------------------------------------------------
Program ==
    \/ Fetch \/ Store \/ WriteLoad \/ ClearRis \/ SetHandler \/ WriteGic \/ ReadBack \/ Return
    \/ Handle

Next ==
    \/ \E c \in Calls : Call(c)
    \/ Fetch
    \/ Store
    \/ WriteLoad
    \/ ClearRis
    \/ SetHandler
    \/ WriteGic
    \/ ReadBack
    \/ Return
    \/ Handle
    \/ \E t \in Timers : Tick(t)
    \/ \E l \in Lines : Irq(l)

Spec == Init /\ [][Next]_vars

\* In a time slice of 10 ms a program executes at least one instruction.  As
\* timers take longer to run out than handlers to return, a line of lower
\* priority and the odd timer of a line get their turn.
Fairness ==
    /\ \A k \in Programs : SF_vars(Program /\ current = k)
    /\ WF_vars(Tick(0))
    /\ \A l \in Lines : SF_vars(Irq(l)) /\ SF_vars(Irq(l) /\ Dispatched(l) = Odd(l))

FairSpec == Spec /\ Fairness
-----------------------------------------------------------------------------
(***************************************************************************)
(* Properties.                                                             *)
(***************************************************************************)

\* The variables have their types.
TypeOK ==
    /\ build \in Builds
    /\ control \in [Timers -> Control]
    /\ load \in [Timers -> Ticks]
    /\ value \in [Timers -> Ticks]
    /\ ris \subseteq Timers
    /\ sysctrl \in [{"SYSCTRL0", "SYSCTRL1"} -> SUBSET SysctrlBits]
    /\ handler \in [Timers -> Handlers]
    /\ enabled \subseteq Lines
    /\ active \in {"none"} \cup Handlers
    /\ handling \in [Programs -> Seq(HandlerSteps)]
    /\ current \in Programs

ModeOf(c) ==
    IF c["oneshot"] THEN "ONE_SHOT" ELSE IF c["reload"] THEN "PERIODIC" ELSE "FREE_RUNNING"

Devices == INSTANCE TimerDevices WITH
    mode <- [t \in Timers |-> ModeOf(control[t])],
    on   <- {t \in Timers : control[t]["enable"]},
    irq  <- {t \in Timers : control[t]["int"]}

\* No read-modify-write of CONTROL is lost or undoes another (timer.h:68-80):
\* however interrupts and task switches separate the load from the store, a
\* step changes one attribute of one timer.
OneAttributeAtATime == Devices!Spec

\* __timer_set_mode (timer.c:172) writes two bits of a timer that may be
\* running: no mode is ever seen but the one before and the one asked for.
OnlyTheRequestedMode ==
    [][\A t \in Timers :
          ModeOf(control'[t]) # ModeOf(control[t]) =>
              /\ program[current].call.op \in {"timer_init", "timer_set_mode"}
              /\ program[current].call.t = t
              /\ ModeOf(control'[t]) = program[current].call.mode]_vars

\* Every interrupt that is raised and enabled is cleared, whatever system calls
\* are being executed, whichever timer of a shared line raised it and however
\* the handlers interrupt each other, unless one is dispatched to
\* prv_no_handler (timer.c:81 allows it): then no EOI comes and the GIC
\* signals no interrupt any more.
InterruptsServed ==
    \A t \in Timers :
        (t \in ris /\ control[t]["int"] /\ Line(t) \in enabled)
            ~> (t \notin ris \/ ~control[t]["int"] \/ active = "prv_no_handler")
=============================================================================
