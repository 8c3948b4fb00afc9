----------------------------- MODULE TimersProofs -----------------------------
(***************************************************************************)
(* Proofs about the timer driver, for any timers, tasks, calls and widths   *)
(* of the counters: the types, and that the driver implements TimerDevices. *)
(***************************************************************************)
EXTENDS Timers, TLAPS, SequenceTheorems

\* The accesses a call on timer t may be made of.
StepsOf(t) ==
    [do : {"control"}, t : {t}, bit : Bits, to : BOOLEAN]
    \cup [do : {"sysctrl"}, t : {t}, bit : {"1MHz", "other"}, to : BOOLEAN]
    \cup [do : {"load"}, t : {t}, to : Ticks]
    \cup [do : {"handler"}, t : {t}, to : Handlers \ {"change_task"}]
    \cup [do : {"value", "intclr", "eoi", "line_on", "line_off", "time_ms", "time_us",
                "interrupted"}, t : {t}]

ModeBits    == {"reload", "oneshot"}
ForMode(s)  == s.do = "control" /\ s.bit \in ModeBits
SetsMode(c) == c.op \in {"timer_init", "timer_set_mode"}

\* An access that changes a bit of the mode, in a call that sets it.
Towards(s, c) ==
    /\ SetsMode(c)
    /\ s.bit = "reload"  => c.mode # "ONE_SHOT" /\ (s.to <=> c.mode = "PERIODIC")
    /\ s.bit = "oneshot" => (s.to <=> c.mode = "ONE_SHOT")

\* The one-shot bit is cleared right after the other was given its value.
Precedes(q, n) == n > 1 /\ ForMode(q[n - 1]) /\ q[n - 1].bit = "reload"

Wellformed(q, c) ==
    /\ q \in Seq(StepsOf(c.t))
    /\ \A n \in 1 .. Len(q) : ForMode(q[n]) =>
          /\ Towards(q[n], c)
          /\ q[n].bit = "oneshot" /\ ~q[n].to => Precedes(q, n)
-----------------------------------------------------------------------------
LEMMA StepFields ==
    ASSUME NEW t, NEW s \in StepsOf(t)
    PROVE  /\ s.t = t
           /\ s.do \in {"control", "sysctrl", "load", "handler", "value", "intclr", "eoi", "line_on",
                        "line_off", "time_ms", "time_us", "interrupted"}
           /\ s.do = "control" => s.bit \in Bits /\ s.to \in BOOLEAN
           /\ s.do = "sysctrl" => s.bit \in {"1MHz", "other"} /\ s.to \in BOOLEAN
           /\ s.do = "load" => s.to \in Ticks
           /\ s.do = "handler" => s.to \in Handlers \ {"change_task"}
BY DEF StepsOf

LEMMA CallFields ==
    ASSUME NEW c \in AllCalls
    PROVE  /\ c.t \in Owned
           /\ c.op = "timer_init" => /\ c.us \in Ticks /\ c.mode \in Modes /\ c.int \in BOOLEAN
                                     /\ c.handler \in Handlers \ {"change_task"}
           /\ c.op = "timer_set_mode" => c.mode \in Modes
           /\ c.op = "timer_load_us" => c.us \in Ticks
           /\ c.op = "timer_load_ms" => c.ms \in Nat
           /\ c.op \in {"timer_init", "timer_set_mode", "timer_load_us", "timer_load_ms",
                        "timer_resume", "timer_pause", "timer_reset", "timer_enable_interrupt",
                        "timer_disable_int", "timer_clear_interrupt", "timer_time_ms",
                        "timer_time_us", "timer_interrupted", "gic_enable_interrupt",
                        "gic_disable_interrupt", "gic_clear_interrupt"}
BY DEF AllCalls

LEMMA OneOK ==
    ASSUME NEW c, NEW s \in StepsOf(c.t), ~ForMode(s)
    PROVE  Wellformed(<<s>>, c)
BY DEF Wellformed

LEMMA TwoOK ==
    ASSUME NEW c, NEW s \in StepsOf(c.t), NEW u \in StepsOf(c.t), ~ForMode(s), ~ForMode(u)
    PROVE  Wellformed(<<s, u>>, c)
<1>1. <<s, u>> \in Seq(StepsOf(c.t)) /\ Len(<<s, u>>) = 2
  OBVIOUS
<1>2. \A n \in 1 .. 2 : ~ForMode(<<s, u>>[n])
  OBVIOUS
<1> QED BY <1>1, <1>2 DEF Wellformed

LEMMA ConcatOK ==
    ASSUME NEW c, NEW q, NEW r, Wellformed(q, c), Wellformed(r, c)
    PROVE  Wellformed(q \o r, c)
<1>1. q \in Seq(StepsOf(c.t)) /\ r \in Seq(StepsOf(c.t))
  BY DEF Wellformed
<1>2. /\ q \o r \in Seq(StepsOf(c.t)) /\ Len(q \o r) = Len(q) + Len(r)
      /\ \A n \in 1 .. Len(q) + Len(r) : (q \o r)[n] = IF n <= Len(q) THEN q[n] ELSE r[n - Len(q)]
  BY <1>1, ConcatProperties, Zenon
<1>3. Len(q) \in Nat /\ Len(r) \in Nat
  BY <1>1
<1> DEFINE qr == q \o r
<1>4. ASSUME NEW n \in 1 .. Len(q) + Len(r), ForMode(qr[n])
      PROVE  /\ Towards(qr[n], c)
             /\ qr[n].bit = "oneshot" /\ ~qr[n].to => Precedes(qr, n)
  <2> HIDE DEF qr
  <2>1. CASE n <= Len(q)
    <3>1. n \in 1 .. Len(q) /\ qr[n] = q[n] /\ (n > 1 => qr[n - 1] = q[n - 1])
      BY <1>2, <1>3, <2>1 DEF qr
    <3>2. Precedes(q, n) => Precedes(qr, n)
      BY <3>1 DEF Precedes
    <3> QED BY <1>4, <3>1, <3>2 DEF Wellformed
  <2>2. CASE n > Len(q)
    <3>1. /\ n - Len(q) \in 1 .. Len(r) /\ qr[n] = r[n - Len(q)]
          /\ n - Len(q) > 1 => n > 1 /\ qr[n - 1] = r[(n - Len(q)) - 1]
      BY <1>2, <1>3, <2>2 DEF qr
    <3>2. Precedes(r, n - Len(q)) => Precedes(qr, n)
      BY <3>1 DEF Precedes
    <3> QED BY <1>4, <3>1, <3>2 DEF Wellformed
  <2> QED BY <1>3, <2>1, <2>2
<1> QED BY <1>2, <1>4 DEF Wellformed

LEMMA SetModeOK ==
    ASSUME NEW c \in AllCalls, SetsMode(c)
    PROVE  Wellformed(SetMode(c.t, c.mode), c)
<1>1. c.mode \in Modes
  BY CallFields DEF SetsMode
<1>2. /\ SetBit(c.t, "reload") \in StepsOf(c.t) /\ ClearBit(c.t, "reload") \in StepsOf(c.t)
      /\ SetBit(c.t, "oneshot") \in StepsOf(c.t) /\ ClearBit(c.t, "oneshot") \in StepsOf(c.t)
  BY DEF SetBit, ClearBit, StepsOf, Bits
<1>3. CASE c.mode = "ONE_SHOT"
  <2> DEFINE q == <<SetBit(c.t, "oneshot")>>
  <2>1. SetMode(c.t, c.mode) = q
    BY <1>3 DEF SetMode
  <2>2. q \in Seq(StepsOf(c.t)) /\ Len(q) = 1 /\ q[1] = SetBit(c.t, "oneshot")
    BY <1>2
  <2>3. Towards(q[1], c) /\ q[1].to
    BY <1>3, <2>2 DEF Towards, SetBit
  <2> HIDE DEF q
  <2> QED BY <2>1, <2>2, <2>3 DEF Wellformed
<1>4. ASSUME NEW first \in {SetBit(c.t, "reload"), ClearBit(c.t, "reload")},
             first.to <=> c.mode = "PERIODIC", c.mode # "ONE_SHOT",
             SetMode(c.t, c.mode) = <<first, ClearBit(c.t, "oneshot")>>
      PROVE  Wellformed(SetMode(c.t, c.mode), c)
  <2> DEFINE q == <<first, ClearBit(c.t, "oneshot")>>
  <2>1. q \in Seq(StepsOf(c.t)) /\ Len(q) = 2 /\ q[1] = first /\ q[2] = ClearBit(c.t, "oneshot")
    BY <1>2
  <2>2. ForMode(first) /\ first.bit = "reload"
    BY DEF SetBit, ClearBit, ForMode, ModeBits
  <2>3. Towards(first, c) /\ Towards(q[2], c)
    BY <1>4, <2>1, <2>2 DEF Towards, ClearBit
  <2> HIDE DEF q
  <2>4. Precedes(q, 2)
    BY <2>1, <2>2 DEF Precedes
  <2>5. \A n \in 1 .. 2 : n = 1 \/ n = 2
    OBVIOUS
  <2>6. SetMode(c.t, c.mode) = q
    BY <1>4 DEF q
  <2> QED BY <2>1, <2>2, <2>3, <2>4, <2>5, <2>6 DEF Wellformed
<1>5. CASE c.mode = "PERIODIC"
  <2>1. SetMode(c.t, c.mode) = <<SetBit(c.t, "reload"), ClearBit(c.t, "oneshot")>>
    BY <1>5 DEF SetMode
  <2>2. SetBit(c.t, "reload").to
    BY DEF SetBit
  <2> QED BY <1>4, <1>5, <2>1, <2>2
<1>6. CASE c.mode = "FREE_RUNNING"
  <2>1. SetMode(c.t, c.mode) = <<ClearBit(c.t, "reload"), ClearBit(c.t, "oneshot")>>
    BY <1>6 DEF SetMode
  <2>2. ~ClearBit(c.t, "reload").to
    BY DEF ClearBit
  <2> QED BY <1>4, <1>6, <2>1, <2>2
<1> QED BY <1>1, <1>3, <1>5, <1>6 DEF Modes

\* The bodies of the short functions.
LEMMA BodiesOK ==
    ASSUME NEW c \in AllCalls
    PROVE  /\ Wellformed(Resume(c.t), c) /\ Wellformed(Pause(c.t), c) /\ Wellformed(Reset(c.t), c)
           /\ Wellformed(EnableInterrupt(c.t), c) /\ Wellformed(DisableInterrupt(c.t), c)
           /\ Wellformed(ClearInterrupt(c.t), c) /\ Wellformed(ClockAt1MHz(c.t), c)
           /\ Wellformed(<<SetBit(c.t, "wide"), ClearBit(c.t, "scaled")>>, c)
           /\ \A v \in Ticks : Wellformed(LoadUs(c.t, v), c)
           /\ \A d \in {"value", "intclr", "eoi", "line_on", "line_off", "time_ms", "time_us",
                         "interrupted"} : Wellformed(<<Access(d, c.t)>>, c)
<1>1. /\ \A b \in Bits : SetBit(c.t, b) \in StepsOf(c.t) /\ ClearBit(c.t, b) \in StepsOf(c.t)
      /\ \A b \in Bits \ ModeBits : ~ForMode(SetBit(c.t, b)) /\ ~ForMode(ClearBit(c.t, b))
  BY DEF SetBit, ClearBit, StepsOf, ForMode
<1>2. \A d \in {"value", "intclr", "eoi", "line_on", "line_off", "time_ms", "time_us",
                "interrupted"} : Access(d, c.t) \in StepsOf(c.t) /\ ~ForMode(Access(d, c.t))
  BY DEF Access, StepsOf, ForMode
<1>3. {"enable", "int", "wide", "scaled"} \subseteq Bits \ ModeBits
  BY DEF Bits, ModeBits
<1>4. Wellformed(Resume(c.t), c)
  BY <1>1, <1>3, OneOK DEF Resume
<1>5. Wellformed(Pause(c.t), c)
  BY <1>1, <1>3, OneOK DEF Pause
<1>6. Wellformed(<<Access("value", c.t)>>, c)
  BY <1>2, OneOK
<1>7. Wellformed(Reset(c.t), c)
  BY <1>4, <1>6, ConcatOK DEF Reset
<1>8. Wellformed(EnableInterrupt(c.t), c) /\ Wellformed(DisableInterrupt(c.t), c)
  BY <1>1, <1>2, <1>3, TwoOK DEF EnableInterrupt, DisableInterrupt
<1>9. Wellformed(ClearInterrupt(c.t), c)
  BY <1>2, TwoOK DEF ClearInterrupt
<1>10. Wellformed(ClockAt1MHz(c.t), c)
  <2> DEFINE a == [do |-> "sysctrl", t |-> c.t, bit |-> "1MHz",  to |-> TRUE]
             b == [do |-> "sysctrl", t |-> c.t, bit |-> "other", to |-> FALSE]
  <2>1. a \in StepsOf(c.t) /\ b \in StepsOf(c.t) /\ ~ForMode(a) /\ ~ForMode(b)
    BY DEF StepsOf, ForMode
  <2>2. ClockAt1MHz(c.t) = <<a, b>>
    BY DEF ClockAt1MHz
  <2> HIDE DEF a, b
  <2> QED BY <2>1, <2>2, TwoOK
<1>11. Wellformed(<<SetBit(c.t, "wide"), ClearBit(c.t, "scaled")>>, c)
  BY <1>1, <1>3, TwoOK
<1>12. ASSUME NEW v \in Ticks PROVE Wellformed(LoadUs(c.t, v), c)
  <2> DEFINE a == [do |-> "load", t |-> c.t, to |-> v]
  <2>1. a \in StepsOf(c.t) /\ ~ForMode(a)
    BY DEF StepsOf, ForMode
  <2>2. LoadUs(c.t, v) = <<a>>
    BY DEF LoadUs
  <2> HIDE DEF a
  <2> QED BY <2>1, <2>2, OneOK
<1>13. ASSUME NEW d \in {"value", "intclr", "eoi", "line_on", "line_off", "time_ms", "time_us",
                        "interrupted"}
       PROVE  Wellformed(<<Access(d, c.t)>>, c)
  BY <1>2, OneOK
<1> QED BY <1>4, <1>5, <1>7, <1>8, <1>9, <1>10, <1>11, <1>12, <1>13

LEMMA InitTimerOK ==
    ASSUME NEW c \in AllCalls, c.op = "timer_init"
    PROVE  Wellformed(InitTimer(c), c)
<1>1. /\ c.us \in Ticks /\ c.mode \in Modes /\ c.int \in BOOLEAN
      /\ c.handler \in Handlers \ {"change_task"}
  BY CallFields
<1> DEFINE a == <<SetBit(c.t, "wide"), ClearBit(c.t, "scaled")>> \o ClockAt1MHz(c.t)
           b == a \o SetMode(c.t, c.mode)
           d == b \o LoadUs(c.t, c.us)
           e == d \o ClearInterrupt(c.t)
           i == IF c.int THEN EnableInterrupt(c.t) ELSE DisableInterrupt(c.t)
           f == e \o i
           h == <<[do |-> "handler", t |-> c.t, to |-> c.handler]>>
           g == f \o h
<1>2. Wellformed(a, c)
  BY BodiesOK, ConcatOK
<1>3. Wellformed(b, c)
  <2>1. SetsMode(c)
    BY DEF SetsMode
  <2> HIDE DEF a
  <2> QED BY <1>2, <2>1, SetModeOK, ConcatOK
<1>4. Wellformed(d, c)
  <2> HIDE DEF b
  <2> QED BY <1>1, <1>3, BodiesOK, ConcatOK
<1>5. Wellformed(e, c)
  <2> HIDE DEF d
  <2> QED BY <1>4, BodiesOK, ConcatOK
<1>6. Wellformed(f, c)
  <2>1. Wellformed(i, c)
    BY BodiesOK
  <2> HIDE DEF e, i
  <2> QED BY <1>5, <2>1, ConcatOK
<1>7. Wellformed(g, c)
  <2> DEFINE s == [do |-> "handler", t |-> c.t, to |-> c.handler]
  <2>1. s \in StepsOf(c.t) /\ ~ForMode(s)
    BY <1>1 DEF StepsOf, ForMode
  <2>2. Wellformed(<<s>>, c)
    <3> HIDE DEF s
    <3> QED BY <2>1, OneOK
  <2> HIDE DEF f
  <2> QED BY <1>6, <2>2, ConcatOK
<1>8. Wellformed(g \o Reset(c.t), c)
  <2> HIDE DEF g
  <2> QED BY <1>7, BodiesOK, ConcatOK
<1> QED BY <1>8, Zenon DEF InitTimer

LEMMA MsFits ==
    ASSUME NEW v \in Nat
    PROVE  (v * MsTicks) % Modulus \in Ticks
<1>1. v * MsTicks \in Int
  BY TimersAssumption
<1>2. ASSUME NEW n \in Int PROVE n % Modulus \in 0 .. Modulus - 1
  BY TimersAssumption
<1> QED BY <1>1, <1>2 DEF Ticks

LEMMA AccessesOK ==
    ASSUME NEW c \in AllCalls
    PROVE  Wellformed(Accesses(c), c)
<1>1. CASE c.op = "timer_init"
  <2>1. Accesses(c) = InitTimer(c)
    BY <1>1, Zenon DEF Accesses
  <2> QED BY <1>1, <2>1, InitTimerOK
<1>2. CASE c.op = "timer_resume"
  <2>1. Accesses(c) = Resume(c.t)
    BY <1>2, Zenon DEF Accesses
  <2> QED BY <1>2, <2>1, BodiesOK
<1>3. CASE c.op = "timer_pause"
  <2>1. Accesses(c) = Pause(c.t)
    BY <1>3, Zenon DEF Accesses
  <2> QED BY <1>3, <2>1, BodiesOK
<1>4. CASE c.op = "timer_reset"
  <2>1. Accesses(c) = Reset(c.t)
    BY <1>4, Zenon DEF Accesses
  <2> QED BY <1>4, <2>1, BodiesOK
<1>5. CASE c.op = "timer_load_ms"
  <2>1. Accesses(c) = LoadMs(c.t, c.ms)
    BY <1>5, Zenon DEF Accesses
  <2> QED BY <1>5, <2>1, MsFits, CallFields, BodiesOK DEF LoadMs
<1>6. CASE c.op = "timer_load_us"
  <2>1. Accesses(c) = LoadUs(c.t, c.us)
    BY <1>6, Zenon DEF Accesses
  <2> QED BY <1>6, <2>1, CallFields, BodiesOK
<1>7. CASE c.op = "timer_set_mode"
  <2>1. Accesses(c) = SetMode(c.t, c.mode)
    BY <1>7, Zenon DEF Accesses
  <2> QED BY <1>7, <2>1, SetModeOK DEF SetsMode
<1>8. CASE c.op = "timer_enable_interrupt"
  <2>1. Accesses(c) = EnableInterrupt(c.t)
    BY <1>8, Zenon DEF Accesses
  <2> QED BY <1>8, <2>1, BodiesOK
<1>9. CASE c.op = "timer_disable_int"
  <2>1. Accesses(c) = DisableInterrupt(c.t)
    BY <1>9, Zenon DEF Accesses
  <2> QED BY <1>9, <2>1, BodiesOK
<1>10. CASE c.op = "timer_clear_interrupt"
  <2>1. Accesses(c) = ClearInterrupt(c.t)
    BY <1>10, Zenon DEF Accesses
  <2> QED BY <1>10, <2>1, BodiesOK
<1>11. CASE c.op = "timer_time_ms"
  <2>1. Accesses(c) = <<Access("time_ms", c.t)>>
    BY <1>11, Zenon DEF Accesses
  <2> QED BY <2>1, BodiesOK
<1>12. CASE c.op = "timer_time_us"
  <2>1. Accesses(c) = <<Access("time_us", c.t)>>
    BY <1>12, Zenon DEF Accesses
  <2> QED BY <2>1, BodiesOK
<1>13. CASE c.op = "timer_interrupted"
  <2>1. Accesses(c) = <<Access("interrupted", c.t)>>
    BY <1>13, Zenon DEF Accesses
  <2> QED BY <2>1, BodiesOK
<1>14. CASE c.op = "gic_enable_interrupt"
  <2>1. Accesses(c) = <<Access("line_on", c.t)>>
    BY <1>14, Zenon DEF Accesses
  <2> QED BY <2>1, BodiesOK
<1>15. CASE c.op = "gic_disable_interrupt"
  <2>1. Accesses(c) = <<Access("line_off", c.t)>>
    BY <1>15, Zenon DEF Accesses
  <2> QED BY <2>1, BodiesOK
<1>16. CASE c.op = "gic_clear_interrupt"
  <2>1. Accesses(c) = <<Access("eoi", c.t)>>
    BY <1>16, Zenon DEF Accesses
  <2> QED BY <2>1, BodiesOK
<1> QED BY CallFields, <1>1, <1>2, <1>3, <1>4, <1>5, <1>6, <1>7, <1>8,
           <1>9, <1>10, <1>11, <1>12, <1>13, <1>14, <1>15, <1>16
-----------------------------------------------------------------------------
(***************************************************************************)
(* The invariant.                                                          *)
(***************************************************************************)
Steps == UNION {StepsOf(t) : t \in Owned}
Held  == Control \cup (SUBSET SysctrlBits) \cup Ticks
States ==
    [call : AllCalls \cup {NoCall}, todo : Seq(Steps), held : SUBSET Held, result : Int, calls : Nat]

\* Where the clearing of the one-shot bit is still to be done, the other bit has
\* its value or gets it in the access before.
InOrder(q, c) ==
    /\ q \in Seq(StepsOf(c.t))
    /\ \A n \in 1 .. Len(q) : ForMode(q[n]) =>
          /\ Towards(q[n], c)
          /\ q[n].bit = "oneshot" /\ ~q[n].to =>
                 Precedes(q, n) \/ (control[c.t]["reload"] <=> c.mode = "PERIODIC")

\* A program in the kernel executes a call on a timer of its own.
Serving(p, k) ==
    /\ p.todo # <<>> => p.call # NoCall
    /\ p.call # NoCall => p.call.t \in Operated(build, k) /\ InOrder(p.todo, p.call)

\* What a program has loaded from a CONTROL register is what it still holds.
Loaded(p) ==
    p.held # {} =>
        /\ p.todo # <<>>
        /\ Head(p.todo).do \in {"control", "sysctrl", "value"}
        /\ Head(p.todo).do = "control" => p.held = {control[Head(p.todo).t]}
        /\ Head(p.todo).do = "sysctrl" => p.held \subseteq SUBSET SysctrlBits
        /\ Head(p.todo).do = "value" => p.held \subseteq Ticks

ProgramsOK ==
    /\ program \in [Programs -> States]
    /\ \A k \in Programs : Serving(program[k], k) /\ Loaded(program[k])

IInv == TypeOK /\ ProgramsOK

LEMMA ConstantsOK ==
    /\ 0 \in Timers /\ 0 \in Programs /\ 0 \in Ticks /\ Modulus - 1 \in Ticks /\ 1 % Modulus \in Ticks
    /\ Modulus \in Nat /\ Modulus > 0 /\ MaxTasks \in Nat /\ MsTicks \in Nat /\ MsTicks > 0
    /\ \A l \in Lines : Even(l) \in Timers /\ Odd(l) \in Timers
    /\ Timers \subseteq Nat /\ Owned \subseteq Timers /\ 0 \notin Owned
    /\ \A t \in Timers : Line(t) \in Lines
<1>1. /\ Modulus \in Nat /\ Modulus > 0 /\ MaxTasks \in Nat /\ MaxTasks > 0
      /\ MsTicks \in Nat /\ MsTicks > 0 /\ Lines \subseteq Nat /\ 0 \in Lines
  BY TimersAssumption
<1>2. 1 % Modulus \in 0 .. Modulus - 1
  BY <1>1
<1>3. \A l \in Lines : Even(l) \in Timers /\ Odd(l) \in Timers
  BY DEF Even, Odd, Timers
<1>4. Timers \subseteq Nat
  BY <1>1 DEF Timers
<1>5. 0 \in Timers
  <2>1. 2 * 0 = 0
    OBVIOUS
  <2> QED BY <1>1, <2>1 DEF Timers
<1>6. ASSUME NEW t \in Timers PROVE Line(t) \in Lines
  <2>1. PICK l \in Lines : t = 2 * l \/ t = 2 * l + 1
    BY DEF Timers
  <2>2. (2 * l) \div 2 = l /\ (2 * l + 1) \div 2 = l
    BY <1>1
  <2> QED BY <2>1, <2>2 DEF Line
<1> QED BY <1>1, <1>2, <1>3, <1>4, <1>5, <1>6 DEF Programs, Ticks, Owned

\* The calls of two programs are on different timers.
LEMMA OwnTimers ==
    ASSUME TypeOK, NEW j \in Programs, NEW k \in Programs, j # k,
           NEW t \in Operated(build, j), NEW u \in Operated(build, k)
    PROVE  t # u
BY TimersAssumption DEF TypeOK

LEMMA InitIInv == Init => IInv
<1> SUFFICES ASSUME Init PROVE IInv
  OBVIOUS
<1> USE ConstantsOK
<1>1. build \in Builds
  BY DEF Init
<1>2. control \in [Timers -> Control]
  <2> DEFINE bit(t, b) == b = "int" \/ ((build = "scheduler" /\ t = 0)
                                         /\ b \in {"enable", "reload", "wide"})
  <2>1. control = [t \in Timers |-> [b \in Bits |-> bit(t, b)]]
    BY DEF Init
  <2>2. \A t, b : bit(t, b) \in BOOLEAN
    OBVIOUS
  <2> HIDE DEF bit
  <2> QED BY <2>1, <2>2 DEF Control
<1>3. load \in [Timers -> Ticks] /\ value \in [Timers -> Ticks]
  BY DEF Init
<1>4. /\ sysctrl \in [{"SYSCTRL0", "SYSCTRL1"} -> SUBSET SysctrlBits]
      /\ handler \in [Timers -> Handlers] /\ enabled \subseteq Lines
  BY DEF Init, SysctrlBits, Handlers
<1>5. TypeOK
  BY <1>1, <1>2, <1>3, <1>4 DEF Init, TypeOK
<1>6. Free \in States
  <2>1. <<>> \in Seq(Steps)
    OBVIOUS
  <2> QED BY <2>1 DEF Free, States
<1>7. Serving(Free, 0) /\ \A k : Serving(Free, k)
  BY DEF Serving, Free
<1>8. Loaded(Free)
  BY DEF Loaded, Free
<1> QED BY <1>5, <1>6, <1>7, <1>8 DEF IInv, ProgramsOK, Init

\* The next access of the running program.
LEMMA StepOK ==
    ASSUME IInv, program[current].todo # <<>>
    PROVE  LET p == program[current]
           IN  /\ current \in Programs /\ p \in States /\ p.call \in AllCalls
               /\ p.call.t \in Operated(build, current) /\ p.call.t \in Owned
               /\ p.todo \in Seq(StepsOf(p.call.t)) /\ Len(p.todo) \in Nat /\ Len(p.todo) >= 1
               /\ Step = p.todo[1] /\ Step = Head(p.todo)
               /\ Step \in StepsOf(p.call.t) /\ Step.t = p.call.t
               /\ Step \in Steps
               /\ InOrder(p.todo, p.call)
<1> DEFINE p == program[current]
<1>1. current \in Programs /\ p \in States
  BY DEF IInv, TypeOK, ProgramsOK
<1>2. Serving(p, current) /\ p.todo # <<>>
  BY <1>1 DEF IInv, ProgramsOK
<1> HIDE DEF p
<1>3. p.call # NoCall /\ p.call \in AllCalls
  BY <1>1, <1>2 DEF Serving, States
<1>4. p.call.t \in Operated(build, current) /\ InOrder(p.todo, p.call)
  BY <1>2, <1>3 DEF Serving
<1>5. p.call.t \in Owned
  BY <1>3, CallFields
<1>6. p.todo \in Seq(StepsOf(p.call.t))
  BY <1>4 DEF InOrder
<1>7. Len(p.todo) \in Nat /\ Len(p.todo) >= 1 /\ Head(p.todo) = p.todo[1]
      /\ p.todo[1] \in StepsOf(p.call.t)
  BY <1>2, <1>6
<1>8. Step = Head(p.todo)
  BY DEF Step, p
<1>9. Step.t = p.call.t
  BY <1>7, <1>8, StepFields
<1>10. Step \in Steps
  BY <1>5, <1>7, <1>8 DEF Steps
<1> QED BY <1>1, <1>3, <1>4, <1>5, <1>6, <1>7, <1>8, <1>9, <1>10 DEF p
-----------------------------------------------------------------------------
(***************************************************************************)
(* The steps.                                                              *)
(***************************************************************************)
Periodic(c) == control[c.t]["reload"] <=> c.mode = "PERIODIC"

\* One access less: the other bit of the mode, if it was next, has its value now.
LEMMA TailInOrder ==
    ASSUME NEW c \in AllCalls, NEW q, InOrder(q, c), q # <<>>,
           Periodic(c) => Periodic(c)',
           ForMode(q[1]) /\ q[1].bit = "reload" => Periodic(c)'
    PROVE  InOrder(Tail(q), c)'
<1> DEFINE r == Tail(q)
<1>1. /\ q \in Seq(StepsOf(c.t)) /\ r \in Seq(StepsOf(c.t))
      /\ Len(q) \in Nat /\ Len(r) = Len(q) - 1
      /\ \A n \in 1 .. Len(r) : r[n] = q[n + 1] /\ n + 1 \in 1 .. Len(q)
  BY DEF InOrder
<1> HIDE DEF r
<1>2. ASSUME NEW n \in 1 .. Len(r), ForMode(r[n])
      PROVE  /\ Towards(r[n], c)
             /\ r[n].bit = "oneshot" /\ ~r[n].to => Precedes(r, n) \/ Periodic(c)'
  <2>1. Towards(r[n], c)
    BY <1>1, <1>2 DEF InOrder
  <2>2. ASSUME r[n].bit = "oneshot", ~r[n].to PROVE Precedes(r, n) \/ Periodic(c)'
    <3>1. Precedes(q, n + 1) \/ Periodic(c)
      BY <1>1, <1>2, <2>2 DEF InOrder, Periodic
    <3>2. CASE Precedes(q, n + 1)
      <4>1. ForMode(q[n]) /\ q[n].bit = "reload"
        BY <1>1, <3>2 DEF Precedes
      <4>2. CASE n = 1
        BY <4>1, <4>2
      <4>3. CASE n > 1
        <5>1. n - 1 \in 1 .. Len(r) /\ r[n - 1] = q[n]
          BY <1>1, <4>3
        <5> QED BY <4>1, <4>3, <5>1 DEF Precedes
      <4> QED BY <1>1, <4>2, <4>3
    <3> QED BY <3>1, <3>2
  <2> QED BY <2>1, <2>2
<1> QED BY <1>1, <1>2 DEF InOrder, Periodic, r

\* Nothing another program relies on changes.
LEMMA OthersKept ==
    ASSUME IInv, NEW k \in Programs, NEW t \in Timers,
           build' = build,
           program'[k] = program[k],
           program[k].call # NoCall => program[k].call.t # t,
           \A u \in Timers : u # t => control'[u] = control[u]
    PROVE  Serving(program[k], k)' /\ Loaded(program[k])'
<1>1. program[k] \in States /\ Serving(program[k], k) /\ Loaded(program[k])
  BY DEF IInv, ProgramsOK
<1> SUFFICES ASSUME NEW p, p = program[k], p = program'[k]
             PROVE  Serving(p, k)' /\ Loaded(p)'
  BY DEF Serving, Loaded, InOrder
<1>2. CASE p.call = NoCall
  <2>1. p.todo = <<>>
    BY <1>1, <1>2 DEF Serving
  <2>2. p.held = {}
    BY <1>1, <2>1 DEF Loaded
  <2> QED BY <1>2, <2>1, <2>2 DEF Serving, Loaded
<1>3. CASE p.call # NoCall
  <2>1. p.call \in AllCalls /\ p.call.t \in Timers /\ p.call.t # t
    BY <1>1, <1>3, CallFields, ConstantsOK DEF States
  <2>2. control'[p.call.t] = control[p.call.t]
    BY <2>1
  <2>3. InOrder(p.todo, p.call) /\ p.call.t \in Operated(build, k)
    BY <1>1, <1>3 DEF Serving
  <2>4. InOrder(p.todo, p.call)'
    BY <2>2, <2>3 DEF InOrder
  <2>5. Operated(build, k)' = Operated(build, k)
    BY DEF Operated
  <2>6. Serving(p, k)'
    BY <1>3, <2>3, <2>4, <2>5 DEF Serving
  <2>7. ASSUME p.todo # <<>> PROVE Head(p.todo).t = p.call.t
    <3>1. p.todo \in Seq(StepsOf(p.call.t))
      BY <2>3 DEF InOrder
    <3>2. Head(p.todo) \in StepsOf(p.call.t)
      BY <2>7, <3>1
    <3> QED BY <3>2, StepFields
  <2>8. Loaded(p)'
    BY <1>1, <2>2, <2>7 DEF Loaded
  <2> QED BY <2>6, <2>8
<1> QED BY <1>2, <1>3

\* The running program does its next access.
LEMMA Advance ==
    ASSUME IInv, program[current].todo # <<>>, build' = build, current' = current,
           control' \in [Timers -> Control],
           \A u \in Timers : u # Step.t => control'[u] = control[u],
           program' \in [Programs -> States],
           program'[current].call = program[current].call,
           program'[current].todo = Tail(program[current].todo),
           program'[current].held = {},
           \A k \in Programs : k # current => program'[k] = program[k],
           NEW c, c = program[current].call, NEW q, q = program[current].todo,
           Periodic(c) => Periodic(c)',
           ForMode(Step) /\ Step.bit = "reload" => Periodic(c)'
    PROVE  ProgramsOK'
<1>1. /\ current \in Programs /\ c \in AllCalls /\ c.t \in Operated(build, current)
      /\ q # <<>> /\ Step = q[1] /\ Step.t = c.t /\ c.t \in Owned /\ InOrder(q, c)
  BY StepOK
<1>2. InOrder(Tail(q), c)'
  BY <1>1, TailInOrder
<1>3. ASSUME NEW k \in Programs, k = current
      PROVE  Serving(program[k], k)' /\ Loaded(program[k])'
  <2>1. Operated(build, k)' = Operated(build, k)
    BY DEF Operated
  <2> SUFFICES ASSUME NEW p, p = program'[k], NEW r, r = Tail(q)
               PROVE  Serving(p, k)' /\ Loaded(p)'
    BY DEF Serving, Loaded, InOrder
  <2>2. p.call = c /\ p.todo = r /\ p.held = {}
    BY <1>3
  <2>3. InOrder(r, c)'
    BY <1>2 DEF InOrder
  <2>4. c # NoCall
    BY <1>1, CallFields DEF NoCall
  <2>5. Serving(p, k)'
    BY <1>1, <1>3, <2>1, <2>2, <2>3, <2>4 DEF Serving
  <2> QED BY <2>2, <2>5 DEF Loaded
<1>4. ASSUME NEW k \in Programs, k # current
      PROVE  Serving(program[k], k)' /\ Loaded(program[k])'
  <2>1. program[k].call # NoCall => program[k].call.t # c.t
    <3>1. program[k].call # NoCall => program[k].call.t \in Operated(build, k)
      BY DEF IInv, ProgramsOK, Serving
    <3> QED BY <1>1, <1>4, <3>1, OwnTimers DEF IInv
  <2>2. c.t \in Timers
    BY <1>1, ConstantsOK
  <2>3. program'[k] = program[k] /\ \A u \in Timers : u # c.t => control'[u] = control[u]
    BY <1>1, <1>4
  <2> QED BY <2>1, <2>2, <2>3, OthersKept
<1> QED BY <1>3, <1>4 DEF ProgramsOK

LEMMA DoneOK ==
    ASSUME IInv, program[current].todo # <<>>, NEW h \in SUBSET Held, Done(h)
    PROVE  /\ program' \in [Programs -> States]
           /\ program'[current].call = program[current].call
           /\ program'[current].todo = Tail(program[current].todo)
           /\ program'[current].held = h
           /\ \A k \in Programs : k # current => program'[k] = program[k]
<1>1. current \in Programs /\ program \in [Programs -> States]
  BY DEF IInv, TypeOK, ProgramsOK
<1>2. Tail(program[current].todo) \in Seq(Steps)
  <2>1. program[current].todo \in Seq(Steps)
    BY <1>1 DEF States
  <2> QED BY <2>1
<1> QED BY <1>1, <1>2 DEF Done, States

\* Programs that run no access of their own, in a step that changes no CONTROL.
LEMMA OthersIdle ==
    ASSUME IInv, build' = build, control' = control,
           NEW k \in Programs, program'[k] = program[k]
    PROVE  Serving(program[k], k)' /\ Loaded(program[k])'
<1>1. program[k].call # NoCall => program[k].call.t # 0
  <2>1. program[k].call \in AllCalls \cup {NoCall}
    BY DEF IInv, ProgramsOK, States
  <2> QED BY <2>1, CallFields, ConstantsOK
<1>2. \A u \in Timers : control'[u] = control[u]
  OBVIOUS
<1> QED BY <1>1, <1>2, OthersKept, ConstantsOK

LEMMA CallIInv ==
    ASSUME IInv, NEW c, Call(c)
    PROVE  IInv'
<1> DEFINE i == program[current].calls + 1
<1>1. /\ program[current].calls < Len(Requests[build][current])
      /\ c \in Requests[build][current][i]
      /\ program' = [program EXCEPT ![current] =
                        [call |-> c, todo |-> Accesses(c), held |-> {}, result |-> 0, calls |-> i]]
      /\ UNCHANGED <<build, control, load, value, ris, sysctrl, handler, enabled, active, handling, current>>
  BY DEF Call, regs, gic
<1>2. current \in Programs /\ build \in Builds /\ program \in [Programs -> States]
  BY DEF IInv, TypeOK, ProgramsOK
<1>3. Requests[build][current] \in Seq(SUBSET AllCalls)
  BY <1>2, TimersAssumption
<1>4. i \in 1 .. Len(Requests[build][current]) /\ i \in Nat
  <2>1. program[current].calls \in Nat
    BY <1>2 DEF States
  <2> QED BY <1>1, <1>3, <2>1
<1>5. c \in AllCalls /\ c.t \in Operated(build, current)
  <2> HIDE DEF i
  <2>1. i \in DOMAIN Requests[build][current] /\ Requests[build][current][i] \in SUBSET AllCalls
    BY <1>3, <1>4
  <2> QED BY <1>1, <2>1 DEF Operated
<1>12. PICK new : new = [call |-> c, todo |-> Accesses(c), held |-> {}, result |-> 0, calls |-> i]
  OBVIOUS
<1>6. Wellformed(Accesses(c), c) /\ Accesses(c) \in Seq(Steps)
  <2>1. Wellformed(Accesses(c), c)
    BY <1>5, AccessesOK
  <2>2. StepsOf(c.t) \subseteq Steps
    BY <1>5, CallFields DEF Steps
  <2> QED BY <2>1, <2>2, SeqMonotonic DEF Wellformed
<1>7. new \in States
  BY <1>4, <1>5, <1>12, <1>6 DEF States
<1>8. /\ new.call = c /\ new.todo = Accesses(c) /\ new.held = {}
      /\ program' = [program EXCEPT ![current] = new]
  BY <1>1, <1>12
<1>9. program' \in [Programs -> States] /\ program'[current] = new
  BY <1>2, <1>7, <1>8
<1>10. ASSUME NEW k \in Programs
       PROVE  Serving(program[k], k)' /\ Loaded(program[k])'
  <2>1. CASE k = current
    <3>1. InOrder(new.todo, c)'
      BY <1>6, <1>8 DEF Wellformed, InOrder
    <3>2. Operated(build, k)' = Operated(build, k)
      BY <1>1 DEF Operated
    <3> SUFFICES ASSUME NEW p, p = new, p = program'[k] PROVE Serving(p, k)' /\ Loaded(p)'
      BY <1>9, <2>1 DEF Serving, Loaded, InOrder
    <3>3. InOrder(p.todo, p.call)'
      BY <1>8, <3>1
    <3>4. c # NoCall
      BY <1>5, CallFields DEF NoCall
    <3> QED BY <1>5, <1>8, <2>1, <3>2, <3>3, <3>4 DEF Serving, Loaded
  <2>2. CASE k # current
    <3>1. program'[k] = program[k]
      BY <1>2, <1>8, <2>2
    <3> QED BY <1>1, <3>1, OthersIdle
  <2> QED BY <2>1, <2>2
<1>11. TypeOK'
  BY <1>1 DEF IInv, TypeOK
<1> QED BY <1>9, <1>10, <1>11 DEF IInv, ProgramsOK

\* The load of a read-modify-write.
LEMMA FetchIInv ==
    ASSUME IInv, Fetch
    PROVE  IInv'
<1>1. /\ program[current].todo # <<>> /\ Step.do \in {"control", "sysctrl", "value"}
      /\ program' = [program EXCEPT ![current].held = {Register(Step)}]
      /\ UNCHANGED <<build, control, load, value, ris, sysctrl, handler, enabled, active, handling, current>>
  BY DEF Fetch, regs, gic
<1>2. /\ current \in Programs /\ Step = Head(program[current].todo) /\ Step.t \in Timers
      /\ program \in [Programs -> States]
  BY <1>1, StepOK, ConstantsOK DEF IInv, ProgramsOK
<1>3. /\ Step.do = "control" => Register(Step) = control[Step.t]
      /\ Step.do = "sysctrl" => Register(Step) = sysctrl[Block(Step.t)]
      /\ Step.do = "value" => Register(Step) = load[Step.t]
  BY Zenon DEF Register
<1>4. /\ control[Step.t] \in Control /\ load[Step.t] \in Ticks
      /\ sysctrl[Block(Step.t)] \in SUBSET SysctrlBits
  BY <1>2 DEF IInv, TypeOK, Block
<1>5. Register(Step) \in Held
  BY <1>1, <1>3, <1>4 DEF Held
<1>6. /\ program' \in [Programs -> States]
      /\ program'[current].call = program[current].call
      /\ program'[current].todo = program[current].todo
      /\ program'[current].held = {Register(Step)}
      /\ \A k \in Programs : k # current => program'[k] = program[k]
  BY <1>1, <1>2, <1>5 DEF States
<1>7. ASSUME NEW k \in Programs
      PROVE  Serving(program[k], k)' /\ Loaded(program[k])'
  <2>1. CASE k = current
    <3> SUFFICES ASSUME NEW p, p = program[k], NEW q, q = program'[k]
                 PROVE  Serving(q, k)' /\ Loaded(q)'
      BY DEF Serving, Loaded, InOrder
    <3>1. Serving(p, k)
      BY DEF IInv, ProgramsOK
    <3>2. q.call = p.call /\ q.todo = p.todo /\ q.held = {Register(Step)}
      BY <1>6, <2>1
    <3>3. InOrder(p.todo, p.call) => InOrder(q.todo, q.call)'
      BY <1>1, <3>2 DEF InOrder
    <3>4. Operated(build, k)' = Operated(build, k)
      BY <1>1 DEF Operated
    <3>5. Serving(q, k)'
      BY <3>1, <3>2, <3>3, <3>4 DEF Serving
    <3>6. Step = Head(q.todo) /\ q.todo # <<>>
      BY <1>1, <1>2, <2>1, <3>2
    <3>7. Loaded(q)'
      BY <1>1, <1>3, <1>4, <3>2, <3>6 DEF Loaded
    <3> QED BY <3>5, <3>7
  <2>2. CASE k # current
    BY <1>1, <1>6, <2>2, OthersIdle
  <2> QED BY <2>1, <2>2
<1>8. TypeOK'
  BY <1>1 DEF IInv, TypeOK
<1> QED BY <1>6, <1>7, <1>8 DEF IInv, ProgramsOK

\* The store of a read-modify-write of CONTROL changes the one bit it is about.
LEMMA StoreControl ==
    ASSUME IInv, Store, Step.do = "control"
    PROVE  /\ Step.t \in Timers /\ Step.bit \in Bits /\ Step.to \in BOOLEAN
           /\ Step.t = program[current].call.t
           /\ control' \in [Timers -> Control]
           /\ control'[Step.t][Step.bit] <=> Step.to
           /\ \A b \in Bits : b # Step.bit => (control'[Step.t][b] <=> control[Step.t][b])
           /\ \A u \in Timers : u # Step.t => control'[u] = control[u]
<1>1. program[current].todo # <<>>
  BY DEF Store
<1>2. /\ current \in Programs /\ Step = Head(program[current].todo) /\ Step.t \in Timers
      /\ Step \in StepsOf(program[current].call.t) /\ Step.t = program[current].call.t
  BY <1>1, StepOK, ConstantsOK
<1>3. Step.bit \in Bits /\ Step.to \in BOOLEAN
  BY <1>2, StepFields
<1>4. PICK was \in program[current].held : control' = [control EXCEPT ![Step.t] = Changed(was, Step)]
  BY DEF Store
<1>5. was = control[Step.t]
  BY <1>2 DEF IInv, ProgramsOK, Loaded
<1>6. control \in [Timers -> Control] /\ control[Step.t] \in Control
  BY <1>2 DEF IInv, TypeOK
<1> DEFINE new == Changed(was, Step)
<1>7. /\ new \in Control /\ new[Step.bit] = Step.to
      /\ \A b \in Bits : b # Step.bit => new[b] = control[Step.t][b]
  BY <1>3, <1>5, <1>6, Zenon DEF Changed, Control
<1> HIDE DEF new
<1>8. control' = [control EXCEPT ![Step.t] = new]
  BY <1>4 DEF new
<1>9. /\ control' \in [Timers -> Control] /\ control'[Step.t] = new
      /\ \A u \in Timers : u # Step.t => control'[u] = control[u]
  BY <1>2, <1>6, <1>7, <1>8
<1> QED BY <1>2, <1>3, <1>7, <1>9

LEMMA StoreIInv ==
    ASSUME IInv, Store
    PROVE  IInv'
<1>1. /\ program[current].todo # <<>> /\ Done({})
      /\ UNCHANGED <<build, load, ris, handler, enabled, active, handling, current>>
  BY DEF Store, gic
<1>2. PICK was \in program[current].held :
        \/ /\ Step.do = "control"
           /\ control' = [control EXCEPT ![Step.t] = Changed(was, Step)]
           /\ UNCHANGED <<value, sysctrl>>
        \/ /\ Step.do = "sysctrl"
           /\ sysctrl' = [sysctrl EXCEPT ![Block(Step.t)] =
                              IF Step.to THEN was \cup {<<Step.t, Step.bit>>}
                                         ELSE was \ {<<Step.t, Step.bit>>}]
           /\ UNCHANGED <<control, value>>
        \/ /\ Step.do = "value"
           /\ value' \in {value, [value EXCEPT ![Step.t] = was]}
           /\ UNCHANGED <<control, sysctrl>>
  BY DEF Store
<1>3. /\ current \in Programs /\ Step = Head(program[current].todo) /\ Step.t \in Timers
      /\ Step \in StepsOf(program[current].call.t) /\ Step.t = program[current].call.t
      /\ program[current].call \in AllCalls
      /\ InOrder(program[current].todo, program[current].call)
      /\ Step = program[current].todo[1] /\ Len(program[current].todo) \in Nat
      /\ Len(program[current].todo) >= 1
  BY <1>1, StepOK, ConstantsOK
<1>4. /\ program' \in [Programs -> States]
      /\ program'[current].call = program[current].call
      /\ program'[current].todo = Tail(program[current].todo)
      /\ program'[current].held = {}
      /\ \A k \in Programs : k # current => program'[k] = program[k]
  BY <1>1, DoneOK
<1>5. CASE Step.do = "control"
  <2>1. UNCHANGED <<value, sysctrl>>
    BY <1>2, <1>5
  <2>2. TypeOK'
    BY <1>1, <1>5, <2>1, StoreControl DEF IInv, TypeOK
  <2>3. PICK c : c = program[current].call
    OBVIOUS
  <2>4. PICK q : q = program[current].todo
    OBVIOUS
  <2>5. ASSUME ForMode(Step) PROVE Towards(Step, c)
    BY <1>3, <2>3, <2>5 DEF InOrder
  <2>6. ForMode(Step) /\ Step.bit = "reload" => Periodic(c)'
    <3>1. control'[Step.t][Step.bit] <=> Step.to
      BY <1>5, StoreControl
    <3> QED BY <1>3, <2>3, <2>5, <3>1 DEF Periodic, Towards
  <2>7. Periodic(c) => Periodic(c)'
    <3>1. CASE Step.bit = "reload"
      BY <1>5, <2>6, <3>1 DEF ForMode, ModeBits
    <3>2. CASE Step.bit # "reload"
      <4>1. control'[Step.t]["reload"] <=> control[Step.t]["reload"]
        BY <1>5, <3>2, StoreControl DEF Bits
      <4> QED BY <1>3, <2>3, <4>1 DEF Periodic
    <3> QED BY <3>1, <3>2
  <2>8. ProgramsOK'
    BY <1>1, <1>4, <1>5, <2>3, <2>4, <2>6, <2>7, StoreControl, Advance
  <2> QED BY <2>2, <2>8 DEF IInv
<1>6. CASE Step.do \in {"sysctrl", "value"}
  <2>1. control' = control
    BY <1>2, <1>6
  <2>2. sysctrl' \in [{"SYSCTRL0", "SYSCTRL1"} -> SUBSET SysctrlBits]
    <3>1. CASE Step.do = "sysctrl"
      <4>1. was \in SUBSET SysctrlBits
        BY <1>3, <3>1 DEF IInv, ProgramsOK, Loaded
      <4>2. <<Step.t, Step.bit>> \in SysctrlBits
        BY <1>3, <3>1, StepFields DEF SysctrlBits
      <4>3. sysctrl \in [{"SYSCTRL0", "SYSCTRL1"} -> SUBSET SysctrlBits]
        BY DEF IInv, TypeOK
      <4>4. PICK new \in SUBSET SysctrlBits : sysctrl' = [sysctrl EXCEPT ![Block(Step.t)] = new]
        <5>1. /\ was \cup {<<Step.t, Step.bit>>} \in SUBSET SysctrlBits
              /\ was \ {<<Step.t, Step.bit>>} \in SUBSET SysctrlBits
          BY <4>1, <4>2, Zenon
        <5>2. sysctrl' = [sysctrl EXCEPT ![Block(Step.t)] =
                              IF Step.to THEN was \cup {<<Step.t, Step.bit>>}
                                         ELSE was \ {<<Step.t, Step.bit>>}]
          BY <1>2, <3>1
        <5>3. CASE Step.to
          BY <5>1, <5>2, <5>3
        <5>4. CASE ~Step.to
          BY <5>1, <5>2, <5>4
        <5> QED BY <5>3, <5>4
      <4> QED BY <4>3, <4>4
    <3>2. CASE Step.do = "value"
      BY <1>2, <3>2 DEF IInv, TypeOK
    <3> QED BY <1>6, <3>1, <3>2
  <2>3. value' \in [Timers -> Ticks]
    <3>1. CASE Step.do = "value"
      <4>1. was \in Ticks
        BY <1>3, <3>1 DEF IInv, ProgramsOK, Loaded
      <4> QED BY <1>2, <3>1, <4>1 DEF IInv, TypeOK
    <3>2. CASE Step.do = "sysctrl"
      BY <1>2, <3>2 DEF IInv, TypeOK
    <3> QED BY <1>6, <3>1, <3>2
  <2>4. TypeOK'
    BY <1>1, <2>1, <2>2, <2>3 DEF IInv, TypeOK
  <2>5. ~ForMode(Step)
    BY <1>6 DEF ForMode
  <2>6. \A c : Periodic(c) => Periodic(c)'
    BY <2>1 DEF Periodic
  <2>7. control' \in [Timers -> Control] /\ \A u \in Timers : control'[u] = control[u]
    BY <2>1 DEF IInv, TypeOK
  <2>8. ProgramsOK'
    BY <1>1, <1>4, <2>5, <2>6, <2>7, Advance
  <2> QED BY <2>4, <2>8 DEF IInv
<1> QED BY <1>2, <1>5, <1>6

\* The accesses that read or write once.
LEMMA AccessIInv ==
    ASSUME IInv, WriteLoad \/ ClearRis \/ SetHandler \/ WriteGic \/ ReadBack
    PROVE  IInv'
<1>1. /\ program[current].todo # <<>>
      /\ UNCHANGED <<build, control, sysctrl, current>>
  BY DEF WriteLoad, ClearRis, SetHandler, WriteGic, ReadBack, regs
<1>2. /\ current \in Programs /\ Step.t \in Timers
      /\ Step \in StepsOf(program[current].call.t)
      /\ program[current].todo \in Seq(Steps) /\ program \in [Programs -> States]
  BY <1>1, StepOK, ConstantsOK DEF IInv, ProgramsOK, States
<1>3. ~ForMode(Step)
  BY DEF WriteLoad, ClearRis, SetHandler, WriteGic, ReadBack, ForMode
<1>4. /\ program' \in [Programs -> States]
      /\ program'[current].call = program[current].call
      /\ program'[current].todo = Tail(program[current].todo)
      /\ program'[current].held = {}
      /\ \A k \in Programs : k # current => program'[k] = program[k]
  <2>1. CASE Done({})
    BY <1>1, <2>1, DoneOK
  <2>2. CASE ReadBack
    <3>1. program' = [program EXCEPT ![current].todo = Tail(@), ![current].result = Observed(Step)]
      BY <2>2 DEF ReadBack
    <3>2. Observed(Step) \in Int
      <4>1. value[Step.t] \in Ticks
        BY <1>2 DEF IInv, TypeOK
      <4>2. value[Step.t] \in Int /\ TimeMs(value[Step.t]) \in Int
        BY <4>1, ConstantsOK DEF Ticks, TimeMs
      <4>3. CASE Step.do = "time_ms"
        BY <4>2, <4>3 DEF Observed
      <4>4. CASE Step.do = "time_us"
        BY <4>2, <4>4 DEF Observed
      <4>5. CASE Step.do = "interrupted"
        BY <4>5 DEF Observed
      <4> QED BY <2>2, <4>3, <4>4, <4>5 DEF ReadBack
    <3>3. Tail(program[current].todo) \in Seq(Steps)
      BY <1>1, <1>2
    <3>4. program[current].held = {}
      BY <1>2, <2>2, StepOK, <1>1 DEF IInv, ProgramsOK, Loaded, ReadBack
    <3> QED BY <1>2, <3>1, <3>2, <3>3, <3>4 DEF States
  <2> QED BY <2>1, <2>2 DEF WriteLoad, ClearRis, SetHandler, WriteGic
<1>5. ProgramsOK'
  <2>1. \A c : Periodic(c) => Periodic(c)'
    BY <1>1 DEF Periodic
  <2>2. control' \in [Timers -> Control] /\ \A u \in Timers : control'[u] = control[u]
    BY <1>1 DEF IInv, TypeOK
  <2> QED BY <1>1, <1>3, <1>4, <2>1, <2>2, Advance
<1>6. CASE WriteLoad
  <2>1. Step.to \in Ticks
    BY <1>2, <1>6, StepFields DEF WriteLoad
  <2> QED BY <1>2, <1>5, <1>6, <2>1 DEF WriteLoad, IInv, TypeOK, gic
<1>7. CASE ClearRis
  BY <1>5, <1>7 DEF ClearRis, IInv, TypeOK, gic
<1>8. CASE SetHandler
  <2>1. Step.to \in Handlers
    BY <1>2, <1>8, StepFields DEF SetHandler
  <2> QED BY <1>2, <1>5, <1>8, <2>1 DEF SetHandler, IInv, TypeOK, gic, regs
<1>9. CASE WriteGic
  BY <1>2, <1>5, <1>9, ConstantsOK DEF WriteGic, IInv, TypeOK, gic, regs
<1>10. CASE ReadBack
  BY <1>5, <1>10 DEF ReadBack, IInv, TypeOK, gic, regs
<1> QED BY <1>6, <1>7, <1>8, <1>9, <1>10

LEMMA ReturnIInv ==
    ASSUME IInv, Return
    PROVE  IInv'
<1>1. /\ program[current].todo = <<>>
      /\ program' = [program EXCEPT ![current].call = NoCall]
      /\ UNCHANGED <<build, control, load, value, ris, sysctrl, handler, enabled, active, handling, current>>
  BY DEF Return, regs, gic
<1>2. current \in Programs /\ program \in [Programs -> States]
  BY DEF IInv, TypeOK, ProgramsOK
<1>3. /\ program' \in [Programs -> States] /\ program'[current].call = NoCall
      /\ program'[current].todo = <<>> /\ program'[current].held = program[current].held
      /\ \A k \in Programs : k # current => program'[k] = program[k]
  BY <1>1, <1>2 DEF States
<1>4. program'[current].held = {}
  BY <1>1, <1>2, <1>3 DEF IInv, ProgramsOK, Loaded
<1>5. ASSUME NEW k \in Programs
      PROVE  Serving(program[k], k)' /\ Loaded(program[k])'
  <2>1. CASE k = current
    <3> SUFFICES ASSUME NEW p, p = program'[k] PROVE Serving(p, k)' /\ Loaded(p)'
      BY DEF Serving, Loaded, InOrder
    <3> QED BY <1>3, <1>4, <2>1 DEF Serving, Loaded
  <2>2. CASE k # current
    BY <1>1, <1>3, <2>2, OthersIdle
  <2> QED BY <2>1, <2>2
<1>6. TypeOK'
  BY <1>1 DEF IInv, TypeOK
<1> QED BY <1>3, <1>5, <1>6 DEF IInv, ProgramsOK

\* The timers and the interrupts leave the programs and CONTROL alone.
LEMMA HardwareIInv ==
    ASSUME IInv, (\E t \in Timers : Tick(t)) \/ (\E l \in Lines : Irq(l)) \/ Handle
    PROVE  IInv'
<1>1. UNCHANGED <<build, control, load, sysctrl, handler, enabled, program>>
  BY DEF Tick, Irq, Handle, gic
<1>2. ProgramsOK'
  <2>1. ASSUME NEW k \in Programs PROVE Serving(program[k], k)' /\ Loaded(program[k])'
    BY <1>1, OthersIdle
  <2> QED BY <1>1, <2>1 DEF IInv, ProgramsOK
<1>3. ASSUME NEW t \in Timers, Tick(t) PROVE TypeOK'
  <2>1. value[t] \in Ticks /\ load[t] \in Ticks
    BY DEF IInv, TypeOK
  <2>2. value' \in [Timers -> Ticks] /\ ris' \subseteq Timers
    <3>1. value[t] > 0 => value[t] - 1 \in Ticks
      BY <2>1, ConstantsOK DEF Ticks
    <3> QED BY <1>3, <2>1, <3>1, ConstantsOK DEF Tick, IInv, TypeOK
  <2> QED BY <1>1, <1>3, <2>2 DEF Tick, gic, IInv, TypeOK
<1>4. ASSUME NEW l \in Lines, Irq(l) PROVE TypeOK'
  <2>1. NextTask(current) \in Programs
    BY ConstantsOK DEF NextTask, Programs, IInv, TypeOK
  <2>2. /\ ris' \subseteq Timers /\ active' \in {"none"} \cup Handlers
        /\ current' \in Programs /\ value' = value
    BY <1>4, <2>1 DEF Irq, RunHandler, Handlers, IInv, TypeOK
  <2>3. handling' \in [Programs -> Seq(HandlerSteps)]
    <3> DEFINE t == Dispatched(l)
    <3>1. t \in Timers
      <4>1. Even(l) \in Timers /\ Odd(l) \in Timers
        BY DEF Timers, Even, Odd
      <4> QED BY <4>1 DEF Dispatched
    <3>2. handling \in [Programs -> Seq(HandlerSteps)] /\ current \in Programs
      BY DEF IInv, TypeOK
    <3>3. /\ ClearInterrupt(t) \in Seq(HandlerSteps)
          /\ <<Access("return", t)>> \in Seq(HandlerSteps)
      BY <3>1 DEF ClearInterrupt, Access, HandlerSteps
    <3>4. ClearInterrupt(t) \o <<Access("return", t)>> \o handling[current] \in Seq(HandlerSteps)
      BY <3>2, <3>3
    <3> HIDE DEF t
    <3>5. \/ handling' = handling
          \/ handling' = [handling EXCEPT ![current] =
                 ClearInterrupt(t) \o <<Access("return", t)>> \o handling[current]]
      BY <1>4 DEF Irq, RunHandler, t
    <3> QED BY <3>2, <3>4, <3>5
  <2> QED BY <1>1, <2>2, <2>3 DEF IInv, TypeOK
<1>5. ASSUME Handle PROVE TypeOK'
  <2>1. handling \in [Programs -> Seq(HandlerSteps)] /\ current \in Programs
    BY DEF IInv, TypeOK
  <2>2. handling' \in [Programs -> Seq(HandlerSteps)]
    <3>1. handling[current] \in Seq(HandlerSteps) /\ handling[current] # <<>>
      BY <1>5, <2>1 DEF Handle, Undisturbed
    <3>2. Tail(handling[current]) \in Seq(HandlerSteps)
      BY <3>1
    <3> QED BY <1>5, <2>1, <3>2 DEF Handle
  <2>3. /\ ris' \subseteq Timers /\ active' \in {"none"} \cup Handlers
        /\ UNCHANGED <<value, current>>
    <3>1. ris \subseteq Timers /\ active \in {"none"} \cup Handlers
      BY DEF IInv, TypeOK
    <3>2. /\ ris' = ris \/ \E t : ris' = ris \ {t}
          /\ active' \in {active, "none"}
          /\ UNCHANGED <<value, current>>
      BY <1>5, Zenon DEF Handle
    <3> QED BY <3>1, <3>2
  <2> QED BY <1>1, <2>2, <2>3 DEF IInv, TypeOK
<1> QED BY <1>2, <1>3, <1>4, <1>5 DEF IInv

LEMMA StepIInv == IInv /\ [Next]_vars => IInv'
<1> SUFFICES ASSUME IInv, [Next]_vars PROVE IInv'
  OBVIOUS
<1>1. CASE Next
  BY <1>1, CallIInv, FetchIInv, StoreIInv, AccessIInv, ReturnIInv, HardwareIInv DEF Next
<1>2. CASE UNCHANGED vars
  <2>1. UNCHANGED <<build, control, load, value, ris, sysctrl, handler, enabled, active, handling, program, current>>
    BY <1>2 DEF vars, regs, gic
  <2>2. ProgramsOK'
    <3>1. ASSUME NEW k \in Programs PROVE Serving(program[k], k)' /\ Loaded(program[k])'
      BY <2>1, OthersIdle
    <3> QED BY <2>1, <3>1 DEF IInv, ProgramsOK
  <2> QED BY <2>1, <2>2 DEF IInv, TypeOK
<1> QED BY <1>1, <1>2

LEMMA Inductive == Spec => []IInv
<1>1. Init => IInv
  BY InitIInv
<1> QED BY <1>1, StepIInv, PTL DEF Spec

\* The registers, the counters and the switch between tasks keep their types, for
\* any width of the counters: what timer_load_ms multiplies is cut to it.
THEOREM Typed == Spec => []TypeOK
<1>1. IInv => TypeOK
  BY DEF IInv
<1> QED BY <1>1, Inductive, PTL
-----------------------------------------------------------------------------
(***************************************************************************)
(* The driver implements TimerDevices.                                     *)
(***************************************************************************)
LEMMA ModeType ==
    ASSUME NEW r \in Control
    PROVE  ModeOf(r) \in Modes
BY DEF ModeOf, Modes

\* Only a store to CONTROL changes CONTROL.
LEMMA ControlChanges ==
    ASSUME IInv, [Next]_vars, control' # control
    PROVE  Store /\ Step.do = "control"
<1>1. CASE Next
  BY <1>1 DEF Next, Call, Fetch, Store, WriteLoad, ClearRis, SetHandler, WriteGic, ReadBack, Return,
              Tick, Irq, Handle, regs
<1>2. CASE UNCHANGED vars
  BY <1>2 DEF vars, regs
<1> QED BY <1>1, <1>2

LEMMA InitDevices == Init => Devices!Init
<1> SUFFICES ASSUME Init PROVE Devices!Init
  OBVIOUS
<1>1. control \in [Timers -> Control]
  BY InitIInv DEF IInv, TypeOK
<1>2. [t \in Timers |-> ModeOf(control[t])] \in [Timers -> Modes]
  BY <1>1, ModeType
<1> QED BY <1>2 DEF Devices!Init

LEMMA StepDevices == IInv /\ [Next]_vars => [Devices!Next]_(Devices!vars)
<1> SUFFICES ASSUME IInv, [Next]_vars PROVE [Devices!Next]_(Devices!vars)
  OBVIOUS
<1> DEFINE mode == [t \in Timers |-> ModeOf(control[t])]
           on   == {t \in Timers : control[t]["enable"]}
           irq  == {t \in Timers : control[t]["int"]}
<1>1. CASE control' = control
  BY <1>1 DEF Devices!vars
<1>2. CASE control' # control
  <2> DEFINE s == Step
  <2>1. Store /\ Step.do = "control"
    BY <1>2, ControlChanges
  <2>2. PICK t \in Timers, b \in Bits, to \in BOOLEAN :
          /\ control' \in [Timers -> Control]
          /\ control'[t][b] <=> to
          /\ \A d \in Bits : d # b => (control'[t][d] <=> control[t][d])
          /\ \A u \in Timers : u # t => control'[u] = control[u]
    BY <2>1, StoreControl
  <2>3. control \in [Timers -> Control]
    BY DEF IInv, TypeOK
  <2>4. {"enable", "reload", "int", "oneshot"} \subseteq Bits
    BY DEF Bits
  <2>5. b # "enable" => on' = on
    BY <2>2, <2>4
  <2>6. b # "int" => irq' = irq
    BY <2>2, <2>4
  <2>7. b \notin {"reload", "oneshot"} => mode' = mode
    <3>1. ASSUME b \notin {"reload", "oneshot"}, NEW u \in Timers
          PROVE  ModeOf(control'[u]) = ModeOf(control[u])
      BY <2>2, <2>4, <3>1 DEF ModeOf
    <3> QED BY <3>1
  <2>8. CASE b = "enable"
    <3>1. on' = on \cup {t} \/ on' = on \ {t}
      BY <2>2, <2>8
    <3> QED BY <2>6, <2>7, <2>8, <3>1 DEF Devices!Next, Devices!Resume, Devices!Pause
  <2>9. CASE b = "int"
    <3>1. irq' = irq \cup {t} \/ irq' = irq \ {t}
      BY <2>2, <2>9
    <3> QED BY <2>5, <2>7, <2>9, <3>1
            DEF Devices!Next, Devices!EnableInterrupt, Devices!DisableInterrupt
  <2>10. CASE b \in {"reload", "oneshot"}
    <3>1. ModeOf(control'[t]) \in Modes
      BY <2>2, ModeType
    <3>2. mode' = [mode EXCEPT ![t] = ModeOf(control'[t])]
      BY <2>2
    <3> QED BY <2>5, <2>6, <2>10, <3>1, <3>2 DEF Devices!Next, Devices!SetMode
  <2>11. CASE b \in {"wide", "scaled"}
    BY <2>5, <2>6, <2>7, <2>11 DEF Devices!vars
  <2> QED BY <2>8, <2>9, <2>10, <2>11 DEF Bits
<1> QED BY <1>1, <1>2

\* The read-modify-writes of timer.h:68-80, which an interrupt or a task switch
\* may cut in two anywhere, change one attribute of one timer at a time, for any
\* number of tasks that operate timers of their own.
THEOREM Implements == Spec => OneAttributeAtATime
<1>1. Init => Devices!Init
  BY InitDevices
<1>2. IInv /\ [Next]_vars => [Devices!Next]_(Devices!vars)
  BY StepDevices
<1> QED BY <1>1, <1>2, Inductive, PTL DEF Spec, OneAttributeAtATime, Devices!Spec
-----------------------------------------------------------------------------
(***************************************************************************)
(* A mode of two bits.                                                     *)
(***************************************************************************)
LEMMA ModeChange ==
    ASSUME IInv, [Next]_vars, NEW t \in Timers, ModeOf(control'[t]) # ModeOf(control[t])
    PROVE  /\ program[current].call.op \in {"timer_init", "timer_set_mode"}
           /\ program[current].call.t = t
           /\ ModeOf(control'[t]) = program[current].call.mode
<1> DEFINE c == program[current].call
           q == program[current].todo
<1>1. Store /\ Step.do = "control"
  BY ControlChanges
<1>2. /\ current \in Programs /\ q # <<>> /\ Step = q[1] /\ 1 \in 1 .. Len(q)
      /\ Step.t = c.t /\ c \in AllCalls /\ InOrder(q, c)
  <2>1. q # <<>>
    BY <1>1 DEF Store
  <2> QED BY <2>1, StepOK, ConstantsOK
<1>3. PICK b \in Bits, to \in BOOLEAN :
        /\ Step.bit = b /\ Step.to = to
        /\ control'[Step.t][b] <=> to
        /\ \A d \in Bits : d # b => (control'[Step.t][d] <=> control[Step.t][d])
        /\ \A u \in Timers : u # Step.t => control'[u] = control[u]
  BY <1>1, StoreControl
<1>4. t = Step.t /\ t = c.t
  BY <1>2, <1>3
<1>5. {"reload", "oneshot"} \subseteq Bits
  BY DEF Bits
<1>6. b \in ModeBits
  BY <1>3, <1>4, <1>5 DEF ModeOf, ModeBits
<1>7. /\ Towards(Step, c)
      /\ b = "oneshot" /\ ~to => (control[t]["reload"] <=> c.mode = "PERIODIC")
  <2>1. ForMode(q[1])
    BY <1>1, <1>2, <1>3, <1>6 DEF ForMode
  <2>2. ~Precedes(q, 1)
    BY DEF Precedes
  <2>3. /\ Towards(q[1], c)
        /\ q[1].bit = "oneshot" /\ ~q[1].to =>
               Precedes(q, 1) \/ (control[c.t]["reload"] <=> c.mode = "PERIODIC")
    BY <1>2, <2>1 DEF InOrder
  <2>4. q[1].bit = b /\ q[1].to = to /\ c.t = t
    BY <1>2, <1>3, <1>4
  <2>5. Towards(Step, c)
    BY <1>2, <2>3
  <2>6. b = "oneshot" /\ ~to => (control[t]["reload"] <=> c.mode = "PERIODIC")
    BY <2>2, <2>3, <2>4
  <2> QED BY <2>5, <2>6
<1>8. SetsMode(c) /\ c.mode \in Modes
  <2>1. SetsMode(c)
    BY <1>7 DEF Towards
  <2> QED BY <1>2, <2>1, CallFields DEF SetsMode
<1>9. CASE b = "reload"
  <2>1. c.mode # "ONE_SHOT" /\ (to <=> c.mode = "PERIODIC")
    BY <1>3, <1>7, <1>9 DEF Towards
  <2>2. /\ control'[t]["reload"] <=> to
        /\ control'[t]["oneshot"] <=> control[t]["oneshot"]
    BY <1>3, <1>4, <1>5, <1>9
  <2>3. ~control[t]["oneshot"]
    BY <2>2 DEF ModeOf
  <2> QED BY <1>4, <1>8, <2>1, <2>2, <2>3 DEF ModeOf, Modes, SetsMode
<1>10. CASE b = "oneshot"
  <2>1. to <=> c.mode = "ONE_SHOT"
    BY <1>3, <1>7, <1>10 DEF Towards
  <2>2. /\ control'[t]["oneshot"] <=> to
        /\ control'[t]["reload"] <=> control[t]["reload"]
    BY <1>3, <1>4, <1>5, <1>10
  <2> QED BY <1>4, <1>7, <1>8, <1>10, <2>1, <2>2 DEF ModeOf, Modes, SetsMode
<1> QED BY <1>6, <1>9, <1>10 DEF ModeBits

\* __timer_set_mode (timer.c:172) writes two bits of a timer that may be running,
\* with interrupts enabled: the timer is in the mode it had or the one asked for,
\* and never in the third, whatever interrupts come between the two writes.
THEOREM ModeAsRequested == Spec => OnlyTheRequestedMode
<1>1. IInv /\ [Next]_vars =>
        [\A t \in Timers :
           ModeOf(control'[t]) # ModeOf(control[t]) =>
               /\ program[current].call.op \in {"timer_init", "timer_set_mode"}
               /\ program[current].call.t = t
               /\ ModeOf(control'[t]) = program[current].call.mode]_vars
  BY ModeChange
<1> QED BY <1>1, Inductive, PTL DEF Spec, OnlyTheRequestedMode
=============================================================================
