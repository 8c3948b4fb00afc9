------------------------------- MODULE MCTimers -------------------------------
(***************************************************************************)
(* The programs of the run of Timers. With counters of two values and a     *)
(* millisecond of one tick, timers run out and wrap within a few steps.     *)
(***************************************************************************)
EXTENDS Timers

StartsWith(t, mode, int, handle) ==
    [op |-> "timer_init", t |-> t, us |-> 1, mode |-> mode, int |-> int, handler |-> handle]
Starts(t, mode, int) == StartsWith(t, mode, int, "clear")
On(op, t) == [op |-> op, t |-> t]
SetsMode(t, mode) == [op |-> "timer_set_mode", t |-> t, mode |-> mode]

\* Two tasks, each with a timer it polls, under the scheduler; main alone, with
\* both timers of a line and their interrupts, or the even one polled and the
\* empty handler installed for it.
Polled ==
    [k \in Programs |->
        IF k = 0
        THEN <<{Starts(2, "ONE_SHOT", FALSE)},
               {SetsMode(2, "PERIODIC"), On("timer_pause", 2), On("timer_time_us", 2)}>>
        ELSE <<{Starts(3, "FREE_RUNNING", FALSE)}>>]
Interrupting ==
    [k \in Programs |->
        IF k = 0
        THEN <<{Starts(2, "PERIODIC", int) : int \in BOOLEAN}
               \cup {StartsWith(2, "PERIODIC", FALSE, "prv_no_handler")},
               {Starts(3, "PERIODIC", TRUE)},
               {SetsMode(3, m) : m \in Modes}
               \cup {[op |-> "timer_load_us", t |-> 2, us |-> 1],
                     [op |-> "timer_load_ms", t |-> 2, ms |-> 3]}
               \cup {On(op, 2) : op \in {"timer_clear_interrupt", "timer_interrupted",
                                         "timer_time_ms", "timer_resume", "timer_reset",
                                         "gic_clear_interrupt"}}
               \cup {On(op, 3) : op \in {"timer_enable_interrupt", "timer_disable_int",
                                         "gic_enable_interrupt", "gic_disable_interrupt"}}>>
        ELSE <<>>]
Both == [b \in Builds |-> IF b = "scheduler" THEN Polled ELSE Interrupting]
=============================================================================
