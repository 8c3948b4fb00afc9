----------------------------- MODULE TimerDevices -----------------------------
(***************************************************************************)
(* What the timer driver promises its callers: every timer has a mode, runs *)
(* or is paused, and has its interrupt enabled or not; a step of the system *)
(* changes at most one of the three, of one timer.                          *)
(***************************************************************************)
CONSTANTS
    Timers,  \* the timer devices
    Modes    \* timer_mode

VARIABLES
    mode,    \* the operation mode of every timer
    on,      \* the timers that count
    irq      \* the timers whose interrupt is enabled

vars == <<mode, on, irq>>

Init ==
    /\ mode \in [Timers -> Modes]
    /\ on \in SUBSET Timers
    /\ irq \in SUBSET Timers

SetMode(t, m) ==
    /\ mode' = [mode EXCEPT ![t] = m]
    /\ UNCHANGED <<on, irq>>

Resume(t) == on' = on \cup {t} /\ UNCHANGED <<mode, irq>>
Pause(t)  == on' = on \ {t}    /\ UNCHANGED <<mode, irq>>

EnableInterrupt(t)  == irq' = irq \cup {t} /\ UNCHANGED <<mode, on>>
DisableInterrupt(t) == irq' = irq \ {t}    /\ UNCHANGED <<mode, on>>

Next ==
    \E t \in Timers :
        \/ \E m \in Modes : SetMode(t, m)
        \/ Resume(t)
        \/ Pause(t)
        \/ EnableInterrupt(t)
        \/ DisableInterrupt(t)

Spec == Init /\ [][Next]_vars
=============================================================================
