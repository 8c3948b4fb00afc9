---------------------------- MODULE CottiI2cProofs ----------------------------
(***************************************************************************)
(* Proofs about the I2C driver, for any processes and any bytes, when the  *)
(* bus may refuse or break off a transfer but answers in time, and no      *)
(* signal interrupts a wait; the types hold with every fault.              *)
(***************************************************************************)
EXTENDS CottiI2c, TLAPS

InTime == "slow" \notin Faults /\ "signal" \notin Faults

TxWait == {"wait_sent", "wait_stop"}
RxWait == {"wait_read", "wait_rx_stop"}

\* Where the owner of lock_bus is.
Owner == IF lockBus = NoProc THEN "free" ELSE pc[lockBus]

\* The controller rests and the handler has nothing to do.
Quiet == ctl.mode = "idle" /\ irq = {}

Typed ==
    /\ pc \in [Procs -> Unlocked \cup Locked]
    /\ call \in [Procs -> Calls]
    /\ refused \subseteq Procs
    /\ lockBus \in Procs \cup {NoProc}
    /\ gLen \in 0 .. Width - 1
    /\ compStop \in Nat
    /\ compRead \in Nat
    /\ irq \subseteq Irqs
    /\ ctl \in [mode : {"idle", "tx", "rx"}, left : 0 .. 2, sent : Seq(Byte),
               by : Procs \cup {NoProc}]

\* Only the waits of the owner see the controller at work, and a completion
\* of comp_stop is the last thing a transfer does.
Works ==
    /\ Owner \notin TxWait \cup RxWait => Quiet
    /\ ctl.by = IF ctl.mode = "idle" THEN NoProc ELSE lockBus
    /\ compStop > 0 => Quiet
    /\ "ARDY" \in irq => ctl.mode = "idle"

\* Completions and interrupts of one kind of transfer do not reach the other.
Separate ==
    /\ Owner \notin TxWait \cup RxWait \cup {"rx_end", "finish"} => compStop = 0
    /\ Owner \notin RxWait \cup {"rx_end"} => compRead = 0
    /\ Owner \notin RxWait => "RRDY" \notin irq /\ ctl.mode # "rx"
    /\ Owner \notin TxWait => "XRDY" \notin irq /\ ctl.mode # "tx"

\* g_len is what the controller still wants.
Counted ==
    /\ ctl.mode = "tx" => gLen = ctl.left
    /\ "XRDY" \in irq => gLen \in 1 .. 2
    /\ Owner = "wait_stop" => gLen = 0
    /\ Owner \in {"fill", "start"} => gLen = Count(lockBus)

IInv == Typed /\ LockedInside /\ Works /\ Separate /\ Counted

LEMMA NoCallIsCall == NoCall \in Calls
<1>1. PICK b \in Byte : TRUE
  BY ByteAssumption
<1>2. [kind |-> "read", reg |-> b, val |-> b] \in Calls
  BY DEF Calls
<1> QED BY <1>2 DEF NoCall

LEMMA WidthLarge == Width \in Nat /\ Width > 3
BY DEF Width

LEMMA DecrementedWithin ==
    ASSUME NEW n \in Int
    PROVE  Decremented(n) \in 0 .. Width - 1 /\ (n \in 1 .. 2 => Decremented(n) = n - 1)
<1>1. n - 1 \in Int
  OBVIOUS
<1>2. Decremented(n) \in 0 .. Width - 1
  BY <1>1, WidthLarge DEF Decremented
<1>3. ASSUME n \in 1 .. 2 PROVE Decremented(n) = n - 1
  <2>1. n - 1 >= 0 /\ n - 1 < 65536
    BY <1>3
  <2> QED BY <1>1, <2>1 DEF Decremented, Width
<1> QED BY <1>2, <1>3

LEMMA InitIInv == Init => IInv
<1> SUFFICES ASSUME Init PROVE IInv
  OBVIOUS
<1>1. call \in [Procs -> Calls]
  BY NoCallIsCall DEF Init
<1>2. ctl \in [mode : {"idle", "tx", "rx"}, left : 0 .. 2, sent : Seq(Byte),
               by : Procs \cup {NoProc}]
  BY DEF Init, Idle
<1>3. Typed
  BY <1>1, <1>2 DEF Init, Typed, Unlocked, Width
<1>4. LockedInside
  BY ProcAssumption DEF Init, LockedInside, Locked
<1>5. Works /\ Separate /\ Counted
  BY DEF Init, Works, Separate, Counted, Owner, Quiet, Idle, TxWait, RxWait
<1> QED BY <1>3, <1>4, <1>5 DEF IInv

-----------------------------------------------------------------------------
(***************************************************************************)
(* Steps of a process that does not hold the mutex, before and after.      *)
(***************************************************************************)

\* A step outside the critical section leaves all but Typed and LockedInside as is.
LEMMA OutsideStep ==
    ASSUME IInv, Typed', NEW p \in Procs, lockBus # p, pc'[p] \notin Locked,
           \A q \in Procs \ {p} : pc'[q] = pc[q] /\ call'[q] = call[q],
           UNCHANGED <<lockBus, gLen, compStop, compRead, irq, ctl>>
    PROVE  IInv'
<1>1. LockedInside'
  BY DEF IInv, LockedInside
<1>2. Owner' = Owner
  BY DEF Owner, IInv, Typed
<1>3. Works' /\ Separate'
  BY <1>2 DEF IInv, Works, Separate, Quiet
<1>4. Counted'
  <2>1. Owner \in {"fill", "start"} => Count(lockBus)' = Count(lockBus)
    BY DEF Owner, IInv, Typed, Count
  <2> QED BY <1>2, <2>1 DEF IInv, Counted
<1> QED BY <1>1, <1>3, <1>4 DEF IInv

LEMMA OutsideIInv ==
    ASSUME InTime, IInv, NEW p \in Procs,
           Begin(p) \/ CheckFree(p) \/ CheckBusy(p) \/ Return(p)
    PROVE  IInv'
<1> USE DEF Goto, bufVars, hwVars
<1>1. pc[p] \notin Locked
  BY DEF Begin, CheckFree, CheckBusy, Return, Ends, Returns, Locked
<1>2. lockBus # p
  BY <1>1 DEF IInv, LockedInside
<1>3. pc'[p] \in Unlocked /\ pc' = [pc EXCEPT ![p] = pc'[p]]
  BY DEF Begin, CheckFree, CheckBusy, Return, Ends, Returns, IInv, Typed, Unlocked
<1>4. call' \in [Procs -> Calls] /\ \A q \in Procs \ {p} : call'[q] = call[q]
  BY NoCallIsCall, OperationAssumption DEF Begin, CheckFree, CheckBusy, Return, Ends, Returns, IInv, Typed
<1>5. UNCHANGED <<lockBus, gLen, compStop, compRead, irq, ctl>> /\ refused' \subseteq Procs
  BY DEF Begin, CheckFree, CheckBusy, Return, Ends, Returns, IInv, Typed
<1>6. Typed'
  BY <1>3, <1>4, <1>5 DEF IInv, Typed
<1>7. pc'[p] \notin Locked /\ \A q \in Procs \ {p} : pc'[q] = pc[q]
  BY <1>3 DEF IInv, Typed, Unlocked, Locked
<1> QED BY <1>2, <1>4, <1>5, <1>6, <1>7, OutsideStep

LEMMA LockIInv ==
    ASSUME IInv, NEW p \in Procs, Lock(p)
    PROVE  IInv'
<1> USE DEF Lock, Goto, bufVars, hwVars
<1>1. Typed'
  BY DEF IInv, Typed, Locked
<1>2. Owner = "free" /\ Owner' = "count"
  BY ProcAssumption DEF Owner, IInv, Typed
<1>3. LockedInside'
  BY ProcAssumption DEF IInv, Typed, LockedInside, Locked
<1>4. Works' /\ Separate' /\ Counted'
  BY <1>2 DEF IInv, Works, Separate, Counted, Quiet, TxWait, RxWait
<1> QED BY <1>1, <1>3, <1>4 DEF IInv
-----------------------------------------------------------------------------
(***************************************************************************)
(* Steps of the owner of the mutex.                                        *)
(***************************************************************************)

\* The owner moves inside its critical section.
LEMMA OwnerMoves ==
    ASSUME IInv, NEW p \in Procs, NEW to \in Locked,
           pc[p] \in Locked, pc' = [pc EXCEPT ![p] = to], UNCHANGED <<call, lockBus>>
    PROVE  /\ LockedInside'
           /\ lockBus = p
           /\ Owner = pc[p]
           /\ Owner' = to
           /\ Count(lockBus)' = Count(lockBus)
<1>1. lockBus = p
  BY DEF IInv, LockedInside
<1>2. LockedInside'
  BY DEF IInv, Typed, LockedInside
<1> QED BY <1>1, <1>2, ProcAssumption DEF Owner, IInv, Typed, Count

LEMMA PrepareIInv ==
    ASSUME IInv, NEW p \in Procs,
           SetCount(p) \/ FillBuffer(p) \/ SetRxCount(p) \/ ReinitRead(p)
    PROVE  IInv'
<1> USE DEF Goto, bufVars, hwVars
<1>1. Count(p) \in {1, 2}
  BY DEF Count
<1>2. CASE SetCount(p)
  <2>1. Typed'
    <3>1. gLen' \in 0 .. Width - 1
      <4>1. gLen' \in {1, 2}
        BY <1>1, <1>2 DEF SetCount
      <4> QED BY <4>1, WidthLarge
    <3>2. pc' \in [Procs -> Unlocked \cup Locked]
      BY <1>2 DEF SetCount, IInv, Typed, Locked
    <3> QED BY <1>2, <3>1, <3>2 DEF SetCount, IInv, Typed
  <2>2. LockedInside' /\ lockBus = p /\ Owner = "count" /\ Owner' = "fill" /\ Count(lockBus)' = Count(p)
    BY <1>2, OwnerMoves DEF SetCount, Locked
  <2> QED
    BY <1>2, <2>1, <2>2
       DEF SetCount, IInv, Works, Separate, Counted, Quiet, TxWait, RxWait
<1>3. CASE FillBuffer(p)
  <2>1. Typed'
    BY <1>3 DEF FillBuffer, IInv, Typed, Locked
  <2>2. LockedInside' /\ lockBus = p /\ Owner = "fill" /\ Owner' = "start"
            /\ Count(lockBus)' = Count(lockBus)
    BY <1>3, OwnerMoves DEF FillBuffer, Locked
  <2> QED
    BY <1>3, <2>1, <2>2
       DEF FillBuffer, IInv, Works, Separate, Counted, Quiet, TxWait, RxWait
<1>4. CASE SetRxCount(p)
  <2>1. Typed'
    <3>1. gLen' \in 0 .. Width - 1
      BY <1>4, WidthLarge DEF SetRxCount
    <3>2. pc' \in [Procs -> Unlocked \cup Locked]
      BY <1>4 DEF SetRxCount, IInv, Typed, Locked
    <3> QED BY <1>4, <3>1, <3>2 DEF SetRxCount, IInv, Typed
  <2>2. LockedInside' /\ lockBus = p /\ Owner = "rx_count" /\ Owner' = "rx_start"
    BY <1>4, OwnerMoves DEF SetRxCount, Locked
  <2> QED
    BY <1>4, <2>1, <2>2
       DEF SetRxCount, IInv, Works, Separate, Counted, Quiet, TxWait, RxWait
<1>5. CASE ReinitRead(p)
  <2>1. Typed'
    BY <1>5 DEF ReinitRead, IInv, Typed, Locked
  <2>2. LockedInside' /\ lockBus = p /\ Owner = "rx_end" /\ Owner' = "finish"
    <3>1. pc[p] = "rx_end" /\ pc' = [pc EXCEPT ![p] = "finish"] /\ UNCHANGED <<call, lockBus>>
      BY <1>5 DEF ReinitRead
    <3>2. "rx_end" \in Locked /\ "finish" \in Locked
      BY DEF Locked
    <3>3. pc[p] \in Locked
      BY <3>1, <3>2
    <3>4. lockBus = p
      BY <3>3 DEF IInv, LockedInside
    <3>5. LockedInside'
      BY <3>1, <3>2, <3>3 DEF IInv, Typed, LockedInside
    <3>6. Owner = pc[p] /\ Owner' = pc'[p]
      BY <3>1, <3>4, ProcAssumption DEF Owner
    <3>7. pc'[p] = "finish"
      BY <3>1 DEF IInv, Typed
    <3> QED BY <3>1, <3>4, <3>5, <3>6, <3>7
  <2> QED
    BY <1>5, <2>1, <2>2
       DEF ReinitRead, IInv, Works, Separate, Counted, Quiet, TxWait, RxWait
<1> QED BY <1>2, <1>3, <1>4, <1>5

LEMMA StartIInv ==
    ASSUME IInv, NEW p \in Procs, StartTx(p) \/ StartRx(p)
    PROVE  IInv'
<1> USE DEF Goto, bufVars
<1>1. CASE StartTx(p)
  <2>1. Count(p) \in {1, 2}
    BY DEF Count
  <2>2. LockedInside' /\ lockBus = p /\ Owner = "start" /\ Owner' = "wait_sent"
    BY <1>1, OwnerMoves DEF StartTx, Locked
  <2>3. ctl' \in [mode : {"idle", "tx", "rx"}, left : 0 .. 2, sent : Seq(Byte),
                  by : Procs \cup {NoProc}]
    BY <1>1, <2>1 DEF StartTx
  <2>4. Typed'
    <3>1. pc' \in [Procs -> Unlocked \cup Locked]
      BY <1>1 DEF StartTx, IInv, Typed, Locked
    <3> QED BY <1>1, <2>3, <3>1 DEF StartTx, IInv, Typed
  <2>5. Quiet /\ compStop = 0 /\ compRead = 0 /\ gLen = Count(p)
    BY <2>2 DEF IInv, Works, Separate, Counted, TxWait, RxWait
  <2> QED
    BY <1>1, <2>2, <2>4, <2>5
       DEF StartTx, IInv, Works, Separate, Counted, Quiet, TxWait, RxWait
<1>2. CASE StartRx(p)
  <2>1. LockedInside' /\ lockBus = p /\ Owner = "rx_start" /\ Owner' = "wait_read"
    BY <1>2, OwnerMoves DEF StartRx, Locked
  <2>2. ctl' \in [mode : {"idle", "tx", "rx"}, left : 0 .. 2, sent : Seq(Byte),
                  by : Procs \cup {NoProc}]
    BY <1>2 DEF StartRx
  <2>3. Typed'
    BY <1>2, <2>2 DEF StartRx, IInv, Typed, Locked
  <2>4. Quiet /\ compStop = 0 /\ compRead = 0
    BY <2>1 DEF IInv, Works, Separate, TxWait, RxWait
  <2> QED
    BY <1>2, <2>1, <2>3, <2>4
       DEF StartRx, IInv, Works, Separate, Counted, Quiet, TxWait, RxWait
<1> QED BY <1>1, <1>2

\* A wait that is over, with its event or without, leaves the controller at
\* rest; only the wait for the bytes to be sent ends earlier.
LEMMA WaitIInv ==
    ASSUME InTime, IInv, NEW p \in Procs,
           \/ SentOrSignal(p) \/ WriteStopped(p) \/ AddressStopped(p)
           \/ ReadArrived(p) \/ RxStopped(p) \/ Timeout(p)
    PROVE  IInv'
<1> USE DEF Goto, bufVars, hwVars
<1>1. Expires <=> Quiet
  BY DEF Expires, Quiet, InTime
<1>2. \A done \in Nat : /\ Taken(done) \in Nat
                        /\ TakesOrInterrupted(done) <=> done > 0
                        /\ Taken(done) > 0 => done > 0
  BY DEF Taken, TakesOrInterrupted, Interrupted, InTime, IInv, Typed
<1> HIDE DEF Goto
<1>3. ASSUME NEW to \in Locked, NEW from \in Locked, pc[p] = from, Goto(p, to),
             UNCHANGED <<call, lockBus, irq, ctl, gLen, refused>>,
             compStop' \in Nat, compStop' > 0 => compStop > 0,
             compRead' \in Nat
      PROVE  /\ Typed'
             /\ LockedInside'
             /\ lockBus = p
             /\ Owner = from
             /\ Owner' = to
  <2>1. Typed'
    BY <1>3 DEF Goto, IInv, Typed
  <2> QED BY <1>3, <2>1, OwnerMoves DEF Goto
<1> USE DEF Works, Separate, Counted, Quiet, TxWait, RxWait
<1>4. CASE SentOrSignal(p)
  <2>1. Typed' /\ LockedInside' /\ Owner = "wait_sent" /\ Owner' = "wait_stop" /\ gLen = 0
    BY <1>3, <1>4 DEF SentOrSignal, Interrupted, InTime, IInv, Typed, Locked
  <2> QED BY <1>4, <2>1 DEF SentOrSignal, IInv
<1>5. CASE WriteStopped(p)
  <2>1. Typed' /\ LockedInside' /\ Owner = "wait_stop" /\ Owner' = "finish"
    BY <1>2, <1>3, <1>5 DEF WriteStopped, IInv, Typed, Locked
  <2>2. Quiet
    BY <1>2, <1>5 DEF WriteStopped, IInv, Typed
  <2> QED BY <1>5, <2>1, <2>2 DEF WriteStopped, IInv
<1>6. CASE AddressStopped(p)
  <2>1. Typed' /\ LockedInside' /\ Owner = "wait_stop" /\ Owner' = "rx_count"
    BY <1>3, <1>6 DEF AddressStopped, IInv, Typed, Locked
  <2>2. Quiet
    BY <1>2, <1>6 DEF AddressStopped, IInv, Typed
  <2> QED BY <1>6, <2>1, <2>2 DEF AddressStopped, IInv
<1>7. CASE ReadArrived(p)
  <2>1. Typed' /\ LockedInside' /\ Owner = "wait_read" /\ Owner' = "wait_rx_stop"
    BY <1>2, <1>3, <1>7 DEF ReadArrived, IInv, Typed, Locked
  <2> QED BY <1>7, <2>1 DEF ReadArrived, IInv
<1>8. CASE RxStopped(p)
  <2>1. Typed' /\ LockedInside' /\ Owner = "wait_rx_stop" /\ Owner' = "rx_end"
    BY <1>2, <1>3, <1>8 DEF RxStopped, IInv, Typed, Locked
  <2>2. Quiet
    BY <1>2, <1>8 DEF RxStopped, IInv, Typed
  <2> QED BY <1>8, <2>1, <2>2 DEF RxStopped, IInv
<1>9. CASE SentTimeout(p) \/ StopTimeout(p)
  <2>1. Typed' /\ LockedInside' /\ Owner \in TxWait /\ Owner' = "finish"
    BY <1>3, <1>9 DEF SentTimeout, StopTimeout, IInv, Typed, Locked
  <2>2. Quiet
    BY <1>1, <1>9 DEF SentTimeout, StopTimeout
  <2> QED BY <1>9, <2>1, <2>2 DEF SentTimeout, StopTimeout, IInv
<1>10. CASE RxTimeout(p)
  <2>1. Typed' /\ LockedInside' /\ Owner \in RxWait /\ Owner' = "rx_end"
    BY <1>3, <1>10 DEF RxTimeout, IInv, Typed, Locked
  <2>2. Quiet
    BY <1>1, <1>10 DEF RxTimeout
  <2> QED BY <1>10, <2>1, <2>2 DEF RxTimeout, IInv
<1> QED BY <1>4, <1>5, <1>6, <1>7, <1>8, <1>9, <1>10 DEF Timeout

LEMMA FinishIInv ==
    ASSUME IInv, NEW p \in Procs, Finish(p)
    PROVE  IInv'
<1> USE DEF Finish, Goto, hwVars
<1>1. lockBus = p /\ Owner = "finish" /\ Owner' = "free"
  BY ProcAssumption DEF IInv, Typed, LockedInside, Owner, Locked
<1>2. Typed'
  BY DEF IInv, Typed, Unlocked
<1>3. LockedInside'
  BY <1>1, ProcAssumption DEF IInv, Typed, LockedInside, Locked
<1>4. Works' /\ Separate' /\ Counted'
  BY <1>1 DEF IInv, Works, Separate, Counted, Quiet, TxWait, RxWait
<1> QED BY <1>2, <1>3, <1>4 DEF IInv
-----------------------------------------------------------------------------
(***************************************************************************)
(* The handler, and the controller.                                        *)
(***************************************************************************)

LEMMA SameOwner ==
    ASSUME UNCHANGED <<pc, call, lockBus>>
    PROVE  Owner' = Owner /\ Count(lockBus)' = Count(lockBus) /\ (LockedInside => LockedInside')
BY DEF Owner, Count, LockedInside

LEMMA IsrIInv ==
    ASSUME IInv, Isr
    PROVE  IInv'
<1> USE DEF Isr, procVars
<1>1. Owner' = Owner /\ Count(lockBus)' = Count(lockBus) /\ LockedInside'
  BY SameOwner DEF IInv
<1>2. Owner \in TxWait \cup RxWait
  BY DEF IInv, Works, Quiet
<1>3. CASE "XRDY" \in irq
  <2>1. "RRDY" \notin irq /\ gLen \in 1 .. 2 /\ Owner \in TxWait /\ compStop = 0
    BY <1>3 DEF IInv, Works, Separate, Counted, TxWait, RxWait, Typed, Quiet
  <2>2. gLen' = gLen - 1
    BY <1>3, <2>1 DEF AfterXrdy, AfterRrdy, Decremented, Width
  <2>3. Owner = "wait_sent"
    BY <2>1 DEF IInv, Counted, TxWait
  <2>4. PICK b \in Byte :
             ctl' = IF ctl.mode = "tx" /\ ctl.left > 0
                    THEN [ctl EXCEPT !.left = @ - 1, !.sent = Append(@, b)]
                    ELSE ctl
    BY <1>3 DEF Transmit
  <2>5. /\ ctl' \in [mode : {"idle", "tx", "rx"}, left : 0 .. 2, sent : Seq(Byte),
                     by : Procs \cup {NoProc}]
        /\ ctl'.mode = ctl.mode /\ ctl'.by = ctl.by
        /\ ctl'.left = IF ctl.mode = "tx" /\ ctl.left > 0 THEN ctl.left - 1 ELSE ctl.left
    <3>1. ctl \in [mode : {"idle", "tx", "rx"}, left : 0 .. 2, sent : Seq(Byte),
                   by : Procs \cup {NoProc}]
      BY DEF IInv, Typed
    <3>2. CASE ctl.mode = "tx" /\ ctl.left > 0
      <4>1. ctl' = [ctl EXCEPT !.left = ctl.left - 1, !.sent = Append(ctl.sent, b)]
        BY <2>4, <3>2
      <4>2. ctl.left - 1 \in 0 .. 2 /\ Append(ctl.sent, b) \in Seq(Byte)
        BY <3>1, <3>2
      <4> QED BY <3>1, <3>2, <4>1, <4>2
    <3>3. CASE ~(ctl.mode = "tx" /\ ctl.left > 0)
      BY <2>4, <3>1, <3>3
    <3> QED BY <3>2, <3>3
  <2>6. Typed'
    <3>1. gLen' \in 0 .. Width - 1
      BY <2>1, <2>2, WidthLarge
    <3>2. compStop' \in Nat /\ compRead' \in Nat
      BY <2>1 DEF IInv, Typed
    <3> QED BY <2>5, <3>1, <3>2 DEF IInv, Typed
  <2>7. compRead' = compRead
    BY <2>1
  <2>8. Works'
    BY <1>1, <2>1, <2>3, <2>5 DEF IInv, Works, Quiet, TxWait, RxWait, Typed
  <2>9. Separate' /\ Counted'
    BY <1>1, <2>1, <2>2, <2>3, <2>5, <2>7
       DEF IInv, Separate, Counted, TxWait, RxWait, Typed
  <2> QED BY <1>1, <2>6, <2>8, <2>9 DEF IInv
<1>4. CASE "XRDY" \notin irq
  <2>1. ctl' = ctl
    BY <1>4
  <2>2. gLen' \in 0 .. Width - 1 /\ ("RRDY" \notin irq => gLen' = gLen)
    <3>1. gLen \in 0 .. Width - 1 /\ gLen \in Int
      BY WidthLarge DEF IInv, Typed
    <3>2. gLen' = IF "RRDY" \in irq THEN Decremented(gLen) ELSE gLen
      BY <1>4 DEF AfterXrdy, AfterRrdy
    <3> QED BY <3>1, <3>2, DecrementedWithin
  <2>3. Typed'
    BY <2>1, <2>2 DEF IInv, Typed
  <2>4. Works'
    BY <1>1, <1>2, <2>1 DEF IInv, Works, Quiet, Typed
  <2>5. Separate'
    BY <1>1, <1>2, <2>1 DEF IInv, Separate, Typed
  <2>6. Counted'
    BY <1>1, <1>2, <2>1, <2>2 DEF IInv, Separate, Counted, TxWait, RxWait
  <2> QED BY <1>1, <2>3, <2>4, <2>5, <2>6 DEF IInv
<1> QED BY <1>3, <1>4

LEMMA ControllerIInv ==
    ASSUME IInv, Controller \/ Nack \/ ArbitrationLost
    PROVE  IInv'
<1> USE DEF procVars, bufVars
<1>1. Owner' = Owner /\ Count(lockBus)' = Count(lockBus) /\ LockedInside'
  BY SameOwner
     DEF IInv, Controller, NeedsByte, TxStop, HasByte, RxStop, Nack, ArbitrationLost, Broken
<1>2. ctl.mode # "idle" /\ Owner \in TxWait \cup RxWait /\ compStop = 0 /\ "ARDY" \notin irq
  BY DEF Controller, NeedsByte, TxStop, HasByte, RxStop, Nack, ArbitrationLost, Broken,
         IInv, Works, Quiet, Typed
<1>3. CASE NeedsByte
  <2>1. Typed'
    BY <1>3 DEF NeedsByte, IInv, Typed, Irqs
  <2>2. gLen \in 1 .. 2
    BY <1>3 DEF NeedsByte, IInv, Typed, Counted
  <2> QED
    BY <1>1, <1>2, <1>3, <2>1, <2>2
       DEF NeedsByte, IInv, Works, Separate, Counted, Quiet, TxWait, RxWait
<1>4. CASE HasByte
  <2>1. ctl' \in [mode : {"idle", "tx", "rx"}, left : 0 .. 2, sent : Seq(Byte),
                  by : Procs \cup {NoProc}] /\ ctl'.mode = "rx" /\ ctl'.by = ctl.by
    BY <1>4 DEF HasByte, IInv, Typed
  <2>2. Typed'
    BY <1>4, <2>1 DEF HasByte, IInv, Typed, Irqs
  <2>3. Owner \in RxWait
    BY <1>4 DEF HasByte, IInv, Separate
  <2> QED
    BY <1>1, <1>2, <1>4, <2>1, <2>2, <2>3
       DEF HasByte, IInv, Works, Separate, Counted, Quiet, TxWait, RxWait
<1>5. ASSUME ctl' = Idle, UNCHANGED <<pc, call, lockBus, gLen, compStop, compRead>>,
             refused' \subseteq Procs,
             irq' \subseteq Irqs, "RRDY" \in irq' <=> "RRDY" \in irq,
             "XRDY" \in irq' <=> "XRDY" \in irq
      PROVE  IInv'
  <2>1. ctl'.mode = "idle" /\ ctl'.by = NoProc
        /\ ctl' \in [mode : {"idle", "tx", "rx"}, left : 0 .. 2, sent : Seq(Byte),
                     by : Procs \cup {NoProc}]
    BY <1>5 DEF Idle
  <2>2. Typed'
    BY <1>5, <2>1 DEF IInv, Typed
  <2>3. Works' /\ Separate' /\ Counted'
    BY <1>1, <1>2, <1>5, <2>1 DEF IInv, Works, Separate, Counted, Quiet
  <2> QED BY <1>1, <2>2, <2>3 DEF IInv
<1>6. CASE TxStop \/ RxStop
  BY <1>5, <1>6 DEF TxStop, RxStop, Irqs, IInv, Typed
<1>7. CASE Nack \/ ArbitrationLost
  <2>1. PICK flag \in {"NACK", "AL"}, more \in {{}, {"ARDY"}} : irq' = irq \cup {flag} \cup more
    BY <1>7 DEF Nack, ArbitrationLost, Broken
  <2>2. refused' \subseteq Procs
    BY <1>7 DEF Nack, ArbitrationLost, Broken, IInv, Typed
  <2> QED BY <1>5, <1>7, <2>1, <2>2 DEF Nack, ArbitrationLost, Broken, Irqs, IInv, Typed
<1> QED BY <1>3, <1>4, <1>6, <1>7 DEF Controller

LEMMA StepIInv ==
    ASSUME InTime, IInv, [Next]_vars
    PROVE  IInv'
<1>1. CASE Next
  BY <1>1, OutsideIInv, LockIInv, PrepareIInv, StartIInv, WaitIInv, FinishIInv, IsrIInv,
     ControllerIInv DEF Next, Step
<1>2. CASE UNCHANGED vars
  <2>1. Owner' = Owner /\ Count(lockBus)' = Count(lockBus) /\ LockedInside'
    BY <1>2, SameOwner DEF vars, procVars, IInv
  <2> QED
    BY <1>2, <2>1
       DEF vars, procVars, bufVars, hwVars, IInv, Typed, Works, Separate, Counted, Quiet
<1> QED BY <1>1, <1>2
-----------------------------------------------------------------------------
\* One transfer at a time, for any number of processes and whether or not the
\* slave acknowledges and the bus is kept: a process that holds lock_bus leaves
\* it only when the controller has come to rest.
THEOREM Exclusive == InTime => (Spec => []OneTransfer)
<1> SUFFICES ASSUME InTime PROVE Spec => []OneTransfer
  OBVIOUS
<1>1. Init => IInv
  BY InitIInv
<1>2. IInv /\ [Next]_vars => IInv'
  BY StepIInv
<1>3. IInv => OneTransfer
  BY ProcAssumption DEF IInv, Typed, Works, Quiet, OneTransfer, Owner, TxWait, RxWait
<1> QED BY <1>1, <1>2, <1>3, PTL DEF Spec

\* No completion of an earlier transfer is left when one starts.
THEOREM Fresh == InTime => (Spec => []FreshCompletions)
<1> SUFFICES ASSUME InTime PROVE Spec => []FreshCompletions
  OBVIOUS
<1>1. Init => IInv
  BY InitIInv
<1>2. IInv /\ [Next]_vars => IInv'
  BY StepIInv
<1>3. IInv => FreshCompletions
  BY ProcAssumption
     DEF IInv, LockedInside, Separate, FreshCompletions, Owner, TxWait, RxWait, Locked
<1> QED BY <1>1, <1>2, <1>3, PTL DEF Spec

\* The handler's index into g_write is always 0 or 1.
THEOREM InBuffer == InTime => (Spec => []BufferIndexInRange)
<1> SUFFICES ASSUME InTime PROVE Spec => []BufferIndexInRange
  OBVIOUS
<1>1. Init => IInv
  BY InitIInv
<1>2. IInv /\ [Next]_vars => IInv'
  BY StepIInv
<1>3. IInv => BufferIndexInRange
  <2> SUFFICES ASSUME IInv, "XRDY" \in irq PROVE AfterXrdy \in 0 .. 1
    BY DEF BufferIndexInRange
  <2>1. "RRDY" \notin irq /\ gLen \in 1 .. 2
    BY DEF IInv, Separate, Counted, TxWait, RxWait
  <2> QED BY <2>1 DEF AfterXrdy, AfterRrdy, Decremented, Width
<1> QED BY <1>1, <1>2, <1>3, PTL DEF Spec
-----------------------------------------------------------------------------
(***************************************************************************)
(* The types of the data, and what has been sent.                          *)
(***************************************************************************)
Rest ==
    /\ tries \in [Procs -> 0 .. MaxTries - 1]
    /\ ok \in [Procs -> BOOLEAN]
    /\ result \in [Procs -> Byte \cup {-1, 0}]
    /\ gWrite \in [0 .. 1 -> Byte]
    /\ gRead \in Byte
    /\ mem \in [Byte -> Byte]
    /\ ptr \in Byte

\* Every byte of a transfer is in the FIFO or still to be sent.
Sent == ctl.mode = "tx" => Len(ctl.sent) + ctl.left = Count(lockBus)

SInv == IInv /\ Rest /\ Sent

LEMMA InitSInv == Init => SInv
<1> SUFFICES ASSUME Init PROVE SInv
  OBVIOUS
<1>1. PICK b \in Byte : gWrite = [i \in 0 .. 1 |-> b] /\ gRead = b
  BY DEF Init
<1>2. Rest
  BY <1>1, OperationAssumption DEF Init, Rest
<1>3. Sent
  BY DEF Init, Sent, Idle
<1> QED BY <1>2, <1>3, InitIInv DEF SInv

LEMMA ProcRest ==
    ASSUME Rest, call \in [Procs -> Calls], NEW p \in Procs,
           Begin(p) \/ Step(p) \/ Lock(p) \/ Timeout(p)
    PROVE  Rest'
<1> USE DEF bufVars, hwVars
<1>1. MaxTries \in Nat /\ MaxTries > 0
  BY OperationAssumption
<1>2. call[p].reg \in Byte /\ call[p].val \in Byte
  BY DEF Calls
<1>3. tries' \in [Procs -> 0 .. MaxTries - 1]
  <2>1. ASSUME tries[p] < MaxTries - 1 PROVE tries[p] + 1 \in 0 .. MaxTries - 1
    BY <1>1, <2>1 DEF Rest
  <2>2. 0 \in 0 .. MaxTries - 1
    BY <1>1
  <2>3. \/ tries' = [tries EXCEPT ![p] = 0]
        \/ tries' = [tries EXCEPT ![p] = tries[p] + 1] /\ tries[p] < MaxTries - 1
        \/ tries' = tries
    BY DEF Begin, Step, Lock, Timeout, CheckFree, CheckBusy, SetCount, FillBuffer, StartTx,
           SentOrSignal, WriteStopped, AddressStopped, SetRxCount, StartRx, ReadArrived, RxStopped,
           ReinitRead, Finish, Return, Ends, Returns, SentTimeout, StopTimeout, RxTimeout
  <2> QED BY <2>1, <2>2, <2>3 DEF Rest
<1>4. ok' \in [Procs -> BOOLEAN]
  <2>1. ok' = ok \/ ok' = [ok EXCEPT ![p] = TRUE] \/ ok' = [ok EXCEPT ![p] = FALSE]
    BY DEF Begin, Step, Lock, Timeout, CheckFree, CheckBusy, SetCount, FillBuffer, StartTx,
           SentOrSignal, WriteStopped, AddressStopped, SetRxCount, StartRx, ReadArrived, RxStopped,
           ReinitRead, Finish, Return, Ends, Returns, SentTimeout, StopTimeout, RxTimeout
  <2> QED BY <2>1 DEF Rest
<1>5. result' \in [Procs -> Byte \cup {-1, 0}]
  <2>1. \/ result' = result
        \/ \E v \in Byte \cup {-1, 0} : result' = [result EXCEPT ![p] = v]
    BY DEF Begin, Step, Lock, Timeout, CheckFree, CheckBusy, SetCount, FillBuffer, StartTx,
           SentOrSignal, WriteStopped, AddressStopped, SetRxCount, StartRx, ReadArrived, RxStopped,
           ReinitRead, Finish, Return, Ends, Returns, SentTimeout, StopTimeout, RxTimeout, Rest
  <2> QED BY <2>1 DEF Rest
<1>6. gWrite' \in [0 .. 1 -> Byte]
  <2>1. Filled(p) \in [0 .. 1 -> Byte]
    BY <1>2 DEF Filled, Rest
  <2>2. gWrite' = gWrite \/ gWrite' = Filled(p)
    BY DEF Begin, Step, Lock, Timeout, CheckFree, CheckBusy, SetCount, FillBuffer, StartTx,
           SentOrSignal, WriteStopped, AddressStopped, SetRxCount, StartRx, ReadArrived, RxStopped,
           ReinitRead, Finish, Return, Ends, Returns, SentTimeout, StopTimeout, RxTimeout
  <2> QED BY <2>1, <2>2 DEF Rest
<1>7. UNCHANGED <<gRead, mem, ptr>>
  BY DEF Begin, Step, Lock, Timeout, CheckFree, CheckBusy, SetCount, FillBuffer, StartTx,
         SentOrSignal, WriteStopped, AddressStopped, SetRxCount, StartRx, ReadArrived, RxStopped,
         ReinitRead, Finish, Return, Ends, Returns, SentTimeout, StopTimeout, RxTimeout
<1> QED BY <1>3, <1>4, <1>5, <1>6, <1>7 DEF Rest

\* The process that transmits is not in its call's other steps, so that what it
\* calls for stays as it is.
LEMMA ProcSent ==
    ASSUME SInv, NEW p \in Procs,
           Begin(p) \/ Step(p) \/ Lock(p) \/ Timeout(p)
    PROVE  Sent'
<1> USE DEF bufVars, hwVars, Goto
<1>1. CASE StartTx(p)
  <2>1. lockBus = p
    BY <1>1 DEF StartTx, SInv, IInv, LockedInside, Locked
  <2> QED BY <1>1, <2>1 DEF StartTx, Sent, Count
<1>2. CASE StartRx(p)
  BY <1>2 DEF StartRx, Sent
<1>3. CASE ~StartTx(p) /\ ~StartRx(p) /\ ctl.mode = "tx"
  <2>1. ctl' = ctl
    BY <1>3 DEF Begin, Step, Lock, Timeout, CheckFree, CheckBusy, SetCount, FillBuffer,
           SentOrSignal, WriteStopped, AddressStopped, SetRxCount, ReadArrived, RxStopped,
           ReinitRead, Finish, Return, Ends, Returns, SentTimeout, StopTimeout, RxTimeout
  <2>2. Owner \in TxWait
    BY <1>3 DEF SInv, IInv, Separate
  <2>3. lockBus \in Procs /\ pc[lockBus] \in TxWait
    BY <2>2 DEF Owner, TxWait, SInv, IInv, Typed
  <2>4. lockBus' = lockBus /\ call'[lockBus] = call[lockBus]
    <3>1. ~Lock(p)
      BY <2>3, ProcAssumption DEF Lock
    <3>2. ~Finish(p)
      BY <2>3 DEF Finish, TxWait, Locked, SInv, IInv, LockedInside
    <3>3. CASE Begin(p) \/ CheckBusy(p) \/ Return(p)
      <4>1. p # lockBus
        BY <2>3, <3>3 DEF Begin, CheckBusy, Return, TxWait
      <4> QED BY <2>3, <3>3, <4>1 DEF Begin, CheckBusy, Return, Ends, SInv, IInv, Typed
    <3>4. CASE ~Begin(p) /\ ~CheckBusy(p) /\ ~Return(p)
      BY <1>3, <3>1, <3>2, <3>4
         DEF Step, Timeout, CheckFree, CheckBusy, SetCount, FillBuffer, SentOrSignal,
             WriteStopped, AddressStopped, SetRxCount, ReadArrived, RxStopped, ReinitRead, Return,
             SentTimeout, StopTimeout, RxTimeout
    <3> QED BY <3>3, <3>4
  <2> QED BY <2>1, <2>4 DEF SInv, Sent, Count
<1>4. CASE ~StartTx(p) /\ ~StartRx(p) /\ ctl.mode # "tx"
  <2>1. ctl' = ctl
    BY <1>4 DEF Begin, Step, Lock, Timeout, CheckFree, CheckBusy, SetCount, FillBuffer,
           SentOrSignal, WriteStopped, AddressStopped, SetRxCount, ReadArrived, RxStopped,
           ReinitRead, Finish, Return, Ends, Returns, SentTimeout, StopTimeout, RxTimeout
  <2> QED BY <1>4, <2>1 DEF Sent
<1> QED BY <1>1, <1>2, <1>3, <1>4

LEMMA IsrRest ==
    ASSUME Rest, Isr
    PROVE  Rest'
<1>1. Received \subseteq Byte
  BY DEF Received, Rest
<1> QED BY <1>1 DEF Isr, procVars, Rest

LEMMA IsrSInv ==
    ASSUME SInv, Isr
    PROVE  Rest' /\ Sent'
<1> USE DEF Isr, procVars
<1>1. Rest'
  BY IsrRest DEF SInv
<1>2. Sent'
  <2>1. CASE "XRDY" \in irq /\ ctl.mode = "tx" /\ ctl.left > 0
    <3>1. PICK b \in Byte : ctl' = [ctl EXCEPT !.left = ctl.left - 1, !.sent = Append(ctl.sent, b)]
      BY <2>1 DEF Transmit
    <3>2. ctl.left \in 0 .. 2 /\ ctl.sent \in Seq(Byte)
      BY DEF SInv, IInv, Typed
    <3>3. ctl'.left = ctl.left - 1 /\ Len(ctl'.sent) = Len(ctl.sent) + 1 /\ Len(ctl.sent) \in Nat
      BY <3>1, <3>2 DEF SInv, IInv, Typed
    <3> QED BY <2>1, <3>2, <3>3 DEF SInv, Sent, Count
  <2>2. CASE ~("XRDY" \in irq /\ ctl.mode = "tx" /\ ctl.left > 0)
    <3>1. ctl' = ctl
      BY <2>2 DEF Transmit
    <3> QED BY <3>1 DEF SInv, Sent, Count
  <2> QED BY <2>1, <2>2
<1> QED BY <1>1, <1>2

LEMMA ControllerSInv ==
    ASSUME SInv, Controller \/ Nack \/ ArbitrationLost
    PROVE  Rest' /\ Sent'
<1> USE DEF procVars, bufVars
<1>1. CASE NeedsByte
  BY <1>1 DEF NeedsByte, SInv, Rest, Sent, Count
<1>2. CASE TxStop
  <2>1. Len(ctl.sent) \in {1, 2} /\ ctl.sent \in Seq(Byte)
    BY <1>2 DEF TxStop, SInv, Sent, Count, IInv, Typed
  <2>2. ctl.sent[1] \in Byte /\ (Len(ctl.sent) = 2 => ctl.sent[2] \in Byte)
    BY <2>1
  <2> QED BY <1>2, <2>2 DEF TxStop, Idle, SInv, Rest, Sent
<1>3. CASE HasByte
  <2>1. ctl'.mode = "rx"
    BY <1>3 DEF HasByte, SInv, IInv, Typed
  <2> QED BY <1>3, <2>1 DEF HasByte, SInv, Rest, Sent
<1>4. CASE RxStop \/ Nack \/ ArbitrationLost
  BY <1>4 DEF RxStop, Nack, ArbitrationLost, Broken, Idle, SInv, Rest, Sent
<1> QED BY <1>1, <1>2, <1>3, <1>4 DEF Controller

LEMMA StepSInv ==
    ASSUME InTime, SInv, [Next]_vars
    PROVE  SInv'
<1>1. IInv'
  BY StepIInv DEF SInv
<1>2. CASE \E p \in Procs : Begin(p) \/ Step(p) \/ Lock(p) \/ Timeout(p)
  BY <1>1, <1>2, ProcRest, ProcSent DEF SInv, IInv, Typed
<1>3. CASE Isr \/ Controller \/ Nack \/ ArbitrationLost
  BY <1>1, <1>3, IsrSInv, ControllerSInv DEF SInv
<1>4. CASE UNCHANGED vars
  BY <1>1, <1>4 DEF vars, procVars, bufVars, hwVars, SInv, Rest, Sent, Count
<1> QED BY <1>2, <1>3, <1>4 DEF Next

-----------------------------------------------------------------------------
(***************************************************************************)
(* The types alone hold with every fault, late answers and signals too.    *)
(***************************************************************************)

\* A transfer to the slave has at least the byte of the register in it.
Sizes == ctl.mode = "tx" => Len(ctl.sent) + ctl.left \in {1, 2}

TInv == TypeOK /\ Sizes

LEMMA TypeOKIsRest == TypeOK => Rest /\ call \in [Procs -> Calls]
BY DEF TypeOK, Rest

LEMMA InitTInv == Init => TInv
<1> SUFFICES ASSUME Init PROVE TInv
  OBVIOUS
<1>1. SInv
  BY InitSInv
<1>2. TypeOK
  BY <1>1 DEF SInv, IInv, Typed, Rest, TypeOK
<1>3. Sizes
  BY DEF Init, Sizes, Idle
<1> QED BY <1>2, <1>3 DEF TInv

LEMMA ProcTInv ==
    ASSUME TInv, NEW p \in Procs,
           Begin(p) \/ Step(p) \/ Lock(p) \/ Timeout(p)
    PROVE  TInv'
<1> USE DEF bufVars, hwVars
<1> TypeOK
  BY DEF TInv
<1>1. Rest'
  BY ProcRest, TypeOKIsRest
<1>2. pc' \in [Procs -> Unlocked \cup Locked]
  <2>1. pc' = pc \/ \E to \in Unlocked \cup Locked : pc' = [pc EXCEPT ![p] = to]
    BY DEF Begin, Step, Lock, Timeout, CheckFree, CheckBusy, SetCount, FillBuffer, StartTx,
           SentOrSignal, WriteStopped, AddressStopped, SetRxCount, StartRx, ReadArrived, RxStopped,
           ReinitRead, Finish, Return, Ends, Returns, SentTimeout, StopTimeout, RxTimeout, Goto, Unlocked, Locked
  <2> QED BY <2>1 DEF TypeOK
<1>3. call' \in [Procs -> Calls]
  <2>1. call' = call \/ \E c \in Calls : call' = [call EXCEPT ![p] = c]
    BY NoCallIsCall, OperationAssumption DEF Begin, Step, Lock, Timeout, CheckFree, CheckBusy, SetCount, FillBuffer, StartTx,
           SentOrSignal, WriteStopped, AddressStopped, SetRxCount, StartRx, ReadArrived, RxStopped,
           ReinitRead, Finish, Return, Ends, Returns, SentTimeout, StopTimeout, RxTimeout
  <2> QED BY <2>1 DEF TypeOK
<1>4. refused' \subseteq Procs /\ lockBus' \in Procs \cup {NoProc} /\ irq' \subseteq Irqs
  BY DEF Begin, Step, Lock, Timeout, CheckFree, CheckBusy, SetCount, FillBuffer, StartTx,
         SentOrSignal, WriteStopped, AddressStopped, SetRxCount, StartRx, ReadArrived, RxStopped,
         ReinitRead, Finish, Return, Ends, Returns, SentTimeout, StopTimeout, RxTimeout, TypeOK
<1>5. gLen' \in 0 .. Width - 1
  <2>1. gLen' = gLen \/ gLen' \in {1, 2}
    BY DEF Begin, Step, Lock, Timeout, CheckFree, CheckBusy, SetCount, FillBuffer, StartTx,
           SentOrSignal, WriteStopped, AddressStopped, SetRxCount, StartRx, ReadArrived, RxStopped,
           ReinitRead, Finish, Return, Ends, Returns, SentTimeout, StopTimeout, RxTimeout, Count
  <2> QED BY <2>1, WidthLarge DEF TypeOK
<1>6. compStop' \in Nat /\ compRead' \in Nat
  <2>1. Taken(compStop) \in Nat /\ Taken(compRead) \in Nat
    BY DEF Taken, TypeOK
  <2>2. /\ compStop' \in {compStop, 0, Taken(compStop)}
        /\ compRead' \in {compRead, 0, Taken(compRead)}
    BY DEF Begin, Step, Lock, Timeout, CheckFree, CheckBusy, SetCount, FillBuffer, StartTx,
           SentOrSignal, WriteStopped, AddressStopped, SetRxCount, StartRx, ReadArrived, RxStopped,
           ReinitRead, Finish, Return, Ends, Returns, SentTimeout, StopTimeout, RxTimeout
  <2> QED BY <2>1, <2>2 DEF TypeOK
<1>7. /\ ctl' \in [mode : {"idle", "tx", "rx"}, left : 0 .. 2, sent : Seq(Byte),
                   by : Procs \cup {NoProc}]
      /\ Sizes'
  <2>1. CASE StartTx(p)
    <3>1. Count(p) \in {1, 2}
      BY DEF Count
    <3>2. ctl' = [mode |-> "tx", left |-> Count(p), sent |-> <<>>, by |-> p]
      BY <2>1 DEF StartTx
    <3>3. <<>> \in Seq(Byte) /\ Len(<<>>) = 0
      OBVIOUS
    <3> QED BY <3>1, <3>2, <3>3 DEF Sizes
  <2>2. CASE StartRx(p)
    BY <2>2 DEF StartRx, Sizes
  <2>3. CASE ~StartTx(p) /\ ~StartRx(p)
    <3>1. ctl' = ctl
      BY <2>3 DEF Begin, Step, Lock, Timeout, CheckFree, CheckBusy, SetCount, FillBuffer,
             SentOrSignal, WriteStopped, AddressStopped, SetRxCount, ReadArrived, RxStopped,
             ReinitRead, Finish, Return, Ends, Returns, SentTimeout, StopTimeout, RxTimeout
    <3> QED BY <3>1 DEF TInv, TypeOK, Sizes
  <2> QED BY <2>1, <2>2, <2>3
<1> QED BY <1>1, <1>2, <1>3, <1>4, <1>5, <1>6, <1>7 DEF TInv, TypeOK, Rest

\* The handler takes g_len down as often as bits are set, and it may pass zero
\* when an interrupt of a transfer that was given up comes late: the u16 wraps.
LEMMA IsrTInv ==
    ASSUME TInv, Isr
    PROVE  TInv'
<1> TypeOK
  BY DEF TInv
<1>1. Rest'
  BY IsrRest, TypeOKIsRest
<1>2. gLen' \in 0 .. Width - 1
  <2>1. AfterRrdy \in 0 .. Width - 1
    <3>1. gLen \in 0 .. Width - 1 /\ gLen \in Int
      BY WidthLarge DEF TypeOK
    <3> QED BY <3>1, DecrementedWithin DEF AfterRrdy
  <2>2. AfterXrdy \in 0 .. Width - 1
    <3>1. AfterRrdy \in Int
      BY <2>1, WidthLarge
    <3> QED BY <2>1, <3>1, DecrementedWithin DEF AfterXrdy
  <2> QED BY <2>2 DEF Isr
<1>3. /\ ctl' \in [mode : {"idle", "tx", "rx"}, left : 0 .. 2, sent : Seq(Byte),
                   by : Procs \cup {NoProc}]
      /\ Sizes'
  <2>1. CASE "XRDY" \in irq /\ ctl.mode = "tx" /\ ctl.left > 0
    <3>1. PICK b \in Byte : ctl' = [ctl EXCEPT !.left = ctl.left - 1, !.sent = Append(ctl.sent, b)]
      BY <2>1 DEF Isr, Transmit
    <3>2. ctl.left \in 0 .. 2 /\ ctl.sent \in Seq(Byte)
      BY DEF TypeOK
    <3>3. /\ Append(ctl.sent, b) \in Seq(Byte)
          /\ Len(Append(ctl.sent, b)) = Len(ctl.sent) + 1
          /\ Len(ctl.sent) \in Nat
          /\ ctl.left - 1 \in 0 .. 2
      BY <2>1, <3>2
    <3>4. Len(ctl.sent) + 1 + (ctl.left - 1) = Len(ctl.sent) + ctl.left
      BY <3>2, <3>3
    <3>5. ctl' \in [mode : {"idle", "tx", "rx"}, left : 0 .. 2, sent : Seq(Byte),
                    by : Procs \cup {NoProc}]
      BY <3>1, <3>3 DEF TypeOK
    <3>6. ctl'.left = ctl.left - 1 /\ ctl'.sent = Append(ctl.sent, b)
      BY <3>1 DEF TypeOK
    <3>7. Sizes'
      <4>1. Len(ctl.sent) + ctl.left \in {1, 2}
        BY <2>1 DEF TInv, Sizes
      <4> QED BY <3>3, <3>4, <3>6, <4>1 DEF Sizes
    <3> QED BY <3>5, <3>7
  <2>2. CASE ~("XRDY" \in irq /\ ctl.mode = "tx" /\ ctl.left > 0)
    <3>1. ctl' = ctl
      BY <2>2 DEF Isr, Transmit
    <3> QED BY <3>1 DEF TInv, TypeOK, Sizes
  <2> QED BY <2>1, <2>2
<1> QED BY <1>1, <1>2, <1>3 DEF Isr, procVars, TInv, TypeOK, Rest, Irqs

LEMMA IdleTyped ==
    /\ Idle \in [mode : {"idle", "tx", "rx"}, left : 0 .. 2, sent : Seq(Byte),
                 by : Procs \cup {NoProc}]
    /\ Idle.mode = "idle"
BY DEF Idle

LEMMA ControllerTInv ==
    ASSUME TInv, Controller \/ Nack \/ ArbitrationLost
    PROVE  TInv'
<1> USE DEF procVars, bufVars
<1> TypeOK
  BY DEF TInv
<1>1. CASE NeedsByte
  <2>1. irq' \subseteq Irqs
    BY <1>1 DEF NeedsByte, TypeOK, Irqs
  <2>2. Sizes'
    BY <1>1 DEF NeedsByte, TInv, Sizes
  <2> QED BY <1>1, <2>1, <2>2 DEF NeedsByte, TInv, TypeOK
<1>2. CASE TxStop
  <2>1. Len(ctl.sent) \in {1, 2} /\ ctl.sent \in Seq(Byte)
    BY <1>2 DEF TxStop, TInv, TypeOK, Sizes
  <2>2. ctl.sent[1] \in Byte /\ (Len(ctl.sent) = 2 => ctl.sent[2] \in Byte)
    BY <2>1
  <2>3. ptr' \in Byte /\ mem' \in [Byte -> Byte]
    BY <1>2, <2>2 DEF TxStop, TypeOK
  <2>4. ctl' = Idle /\ irq' \subseteq irq \cup Irqs
    BY <1>2 DEF TxStop, Irqs
  <2> QED BY <1>2, <2>3, <2>4, IdleTyped DEF TxStop, TInv, TypeOK, Sizes
<1>3. CASE HasByte
  <2>1. irq' \subseteq Irqs
    BY <1>3 DEF HasByte, TypeOK, Irqs
  <2>2. ctl' = [ctl EXCEPT !.left = 0]
    BY <1>3 DEF HasByte
  <2>3. ctl' \in [mode : {"idle", "tx", "rx"}, left : 0 .. 2, sent : Seq(Byte),
                  by : Procs \cup {NoProc}]
    <3>1. ctl \in [mode : {"idle", "tx", "rx"}, left : 0 .. 2, sent : Seq(Byte),
                   by : Procs \cup {NoProc}]
      BY DEF TypeOK
    <3> QED BY ONLY <2>2, <3>1, SMT
  <2>4. ctl'.mode = "rx"
    BY <1>3, <2>2 DEF HasByte, TypeOK
  <2> QED BY <1>3, <2>1, <2>3, <2>4 DEF HasByte, TInv, TypeOK, Sizes
<1>4. CASE RxStop \/ Nack \/ ArbitrationLost
  <2>1. ctl' = Idle
    <3>1. RxStop => ctl' = Idle
      BY DEF RxStop
    <3>2. Nack => ctl' = Idle
      BY DEF Nack, Broken
    <3>3. ArbitrationLost => ctl' = Idle
      BY DEF ArbitrationLost, Broken
    <3> QED BY <1>4, <3>1, <3>2, <3>3
  <2>3. irq' \subseteq irq \cup Irqs
    <3>1. CASE RxStop
      BY <3>1 DEF RxStop, Irqs
    <3>2. ASSUME NEW fault, NEW flag \in {"NACK", "AL"}, Broken(fault, flag)
          PROVE  irq' \subseteq irq \cup Irqs
      <4>1. PICK more \in {{}, {"ARDY"}} : irq' = irq \cup {flag} \cup more
        BY <3>2 DEF Broken
      <4>2. {flag} \subseteq Irqs /\ more \subseteq Irqs
        BY <3>2 DEF Irqs
      <4> QED BY <4>1, <4>2
    <3> QED BY <1>4, <3>1, <3>2 DEF Nack, ArbitrationLost
  <2>2. /\ UNCHANGED <<pc, call, tries, ok, result, lockBus, bufVars, mem, ptr>>
        /\ refused' \subseteq Procs
    <3>1. RxStop => refused' = refused
      BY DEF RxStop
    <3>2. Nack \/ ArbitrationLost => refused' = refused \cup ({ctl.by} \ {NoProc})
      BY DEF Nack, ArbitrationLost, Broken
    <3> QED BY <1>4, <3>1, <3>2 DEF RxStop, Nack, ArbitrationLost, Broken, TypeOK
  <2> QED BY <2>1, <2>2, <2>3, IdleTyped DEF TInv, TypeOK, Sizes
<1> QED BY <1>1, <1>2, <1>3, <1>4 DEF Controller

LEMMA StepTInv == TInv /\ [Next]_vars => TInv'
<1> SUFFICES ASSUME TInv, [Next]_vars PROVE TInv'
  OBVIOUS
<1>1. CASE \E p \in Procs : Begin(p) \/ Step(p) \/ Lock(p) \/ Timeout(p)
  BY <1>1, ProcTInv
<1>2. CASE Isr \/ Controller \/ Nack \/ ArbitrationLost
  BY <1>2, IsrTInv, ControllerTInv
<1>3. CASE UNCHANGED vars
  BY <1>3 DEF vars, procVars, bufVars, hwVars, TInv, TypeOK, Sizes
<1> QED BY <1>1, <1>2, <1>3 DEF Next

\* The types, whatever the bus and the signals do.  g_len stays a u16, every
\* index into the bytes sent is one that was sent, and no completion count goes
\* below zero.
THEOREM TypesKept == Spec => []TypeOK
<1>1. Init => TInv
  BY InitTInv
<1>2. TInv /\ [Next]_vars => TInv'
  BY StepTInv
<1>3. TInv => TypeOK
  BY DEF TInv
<1> QED BY <1>1, <1>2, <1>3, PTL DEF Spec
-----------------------------------------------------------------------------
(***************************************************************************)
(* The critical section, with every fault.                                 *)
(***************************************************************************)

\* Whoever is between mutex_lock and mutex_unlock owns lock_bus, and nobody else
\* does: every way out of an operation unlocks, whatever the bus and the signals
\* do, for any number of processes.
THEOREM Critical == Spec => []LockedInside
<1>1. Init => LockedInside
  BY ProcAssumption DEF Init, LockedInside, Locked
<1>2. TypeOK /\ LockedInside /\ [Next]_vars => LockedInside'
  <2> SUFFICES ASSUME TypeOK, LockedInside, [Next]_vars PROVE LockedInside'
    OBVIOUS
  <2>1. ASSUME NEW p \in Procs, NEW to, pc' = [pc EXCEPT ![p] = to],
               \/ UNCHANGED lockBus /\ (to \in Locked <=> pc[p] \in Locked)
               \/ lockBus = NoProc /\ lockBus' = p /\ to \in Locked
               \/ pc[p] \in Locked /\ lockBus' = NoProc /\ to \notin Locked
        PROVE  LockedInside'
    BY <2>1, ProcAssumption DEF LockedInside, TypeOK
  <2>2. ASSUME NEW p \in Procs, Begin(p) \/ Step(p) \/ Lock(p) \/ Timeout(p)
        PROVE  LockedInside'
    <3>1. CASE Begin(p) \/ CheckFree(p) \/ CheckBusy(p) \/ Return(p)
      <4>1. UNCHANGED lockBus
        BY <3>1 DEF Begin, CheckFree, CheckBusy, Return
      <4>2. pc' = pc \/ \E to \in {"check", "lock", "idle"} :
                           pc[p] \notin Locked /\ pc' = [pc EXCEPT ![p] = to]
        BY <3>1 DEF Begin, CheckFree, CheckBusy, Return, Ends, Goto, Locked
      <4> QED BY <2>1, <4>1, <4>2 DEF Locked, LockedInside
    <3>2. CASE Lock(p)
      BY <2>1, <3>2 DEF Lock, Goto, Locked
    <3>3. CASE Finish(p)
      BY <2>1, <3>3 DEF Finish, Goto, Locked
    <3>4. CASE \/ SetCount(p) \/ FillBuffer(p) \/ StartTx(p)
               \/ SentOrSignal(p) \/ WriteStopped(p) \/ AddressStopped(p)
               \/ SetRxCount(p) \/ StartRx(p)
               \/ ReadArrived(p) \/ RxStopped(p) \/ ReinitRead(p) \/ Timeout(p)
      <4>1. UNCHANGED lockBus
        BY <3>4 DEF SetCount, FillBuffer, StartTx, SentOrSignal, WriteStopped, AddressStopped,
                    SetRxCount, StartRx, ReadArrived, RxStopped, ReinitRead, Timeout,
                    SentTimeout, StopTimeout, RxTimeout
      <4>2. pc[p] \in Locked /\ \E to \in Locked : pc' = [pc EXCEPT ![p] = to]
        BY <3>4 DEF SetCount, FillBuffer, StartTx, SentOrSignal, WriteStopped, AddressStopped,
                    SetRxCount, StartRx, ReadArrived, RxStopped, ReinitRead, Timeout,
                    SentTimeout, StopTimeout, RxTimeout, Goto, Locked
      <4> QED BY <2>1, <4>1, <4>2
    <3> QED BY <2>2, <3>1, <3>2, <3>3, <3>4 DEF Step
  <2>3. CASE Isr \/ Controller \/ Nack \/ ArbitrationLost \/ UNCHANGED vars
    <3>1. UNCHANGED <<pc, lockBus>>
      BY <2>3 DEF Isr, Controller, NeedsByte, TxStop, HasByte, RxStop, Nack, ArbitrationLost,
                  Broken, vars, procVars
    <3> QED BY <3>1 DEF LockedInside
  <2> QED BY <2>2, <2>3 DEF Next
<1> QED BY <1>1, <1>2, TypesKept, PTL DEF Spec
-----------------------------------------------------------------------------
(***************************************************************************)
(* What an operation that was not refused has done.                        *)
(***************************************************************************)
Asked == call[lockBus]

IsWrite == Asked.kind = "write"

\* g_write holds what is to be sent, and what was sent is from there.
Loaded ==
    Owner \in {"start"} \cup TxWait =>
        gWrite[Count(lockBus) - 1] = Asked.reg /\ (IsWrite => gWrite[0] = Asked.val)

InTransit ==
    /\ "XRDY" \in irq => ctl.mode = "tx"
    /\ ctl.mode = "tx" => /\ Len(ctl.sent) >= 1 => ctl.sent[1] = Asked.reg
                          /\ Len(ctl.sent) = 2 => ctl.sent[2] = Asked.val

\* The slave has got it.
Delivered ==
    /\ Owner \in TxWait /\ ctl.mode = "idle" => ptr = Asked.reg /\ (IsWrite => mem[Asked.reg] = Asked.val)
    /\ Owner \in {"rx_count", "rx_start"} \cup RxWait => ~IsWrite /\ ptr = Asked.reg

\* Nothing is reported before the end.
Early ==
    \A p \in Procs : pc[p] \in {"check", "lock"} \cup (Locked \ {"rx_end", "finish"}) => ~ok[p]

\* And has answered.
Answered ==
    /\ compRead > 0 \/ Owner = "wait_rx_stop" => gRead = mem[ptr]
    /\ Early
    /\ Owner \in {"rx_end", "finish"} /\ ok[lockBus] =>
           mem[Asked.reg] = IF IsWrite THEN Asked.val ELSE gRead

Data == Loaded /\ InTransit /\ Delivered /\ Answered

DInv == SInv /\ Data

LEMMA InitData == Init => Data
<1> SUFFICES ASSUME Init PROVE Data
  OBVIOUS
<1>1. Owner = "free" /\ irq = {} /\ ctl.mode = "idle" /\ compRead = 0
  BY DEF Init, Owner, Idle
<1> QED BY <1>1 DEF Init, Data, Loaded, InTransit, Delivered, Answered, Early, TxWait, RxWait, Locked

\* Where the others are does not matter.
LEMMA OutsideData ==
    ASSUME InTime, DInv, NEW p \in Procs,
           Begin(p) \/ CheckFree(p) \/ CheckBusy(p) \/ Return(p) \/ Lock(p)
    PROVE  Data'
<1> USE DEF Goto, bufVars, hwVars
<1>1. lockBus # p
  BY ProcAssumption DEF DInv, SInv, IInv, LockedInside, Begin, CheckFree, CheckBusy, Return, Ends, Returns, Lock, Locked
<1>2. UNCHANGED <<gWrite, gRead, mem, ptr, irq, ctl, compRead>>
  BY DEF Begin, CheckFree, CheckBusy, Return, Ends, Returns, Lock
<1>3. \A q \in Procs \ {p} : pc'[q] = pc[q] /\ ok'[q] = ok[q] /\ call'[q] = call[q]
  BY DEF Begin, CheckFree, CheckBusy, Return, Ends, Returns, Lock, DInv, SInv, IInv, Typed, Rest
<1>4. pc'[p] \in {"check", "lock", "count"} => ~ok'[p]
  BY DEF Begin, CheckFree, CheckBusy, Return, Ends, Returns, Lock, DInv, SInv, IInv, Typed, Rest, Data, Answered, Early
<1>5. CASE Lock(p)
  <2>1. Owner = "free" /\ Owner' = "count" /\ pc'[p] = "count"
    BY <1>5, ProcAssumption DEF Lock, Owner, DInv, SInv, IInv, Typed
  <2>2. Quiet /\ compRead = 0
    BY <2>1 DEF DInv, SInv, IInv, Works, Separate, TxWait, RxWait
  <2> QED BY <1>2, <1>3, <1>4, <2>1, <2>2
          DEF DInv, Data, Loaded, InTransit, Delivered, Answered, Early, TxWait, RxWait, Quiet
<1>6. CASE ~Lock(p)
  <2>1. lockBus' = lockBus /\ pc'[p] \notin Locked
    BY <1>6 DEF Begin, CheckFree, CheckBusy, Return, Ends, Returns, DInv, SInv, IInv, Typed, Locked
  <2>2. Owner' = Owner
    BY <1>1, <1>3, <2>1 DEF Owner, DInv, SInv, IInv, Typed
  <2>3. Owner # "free" => Asked' = Asked /\ ok'[lockBus] = ok[lockBus] /\ lockBus \in Procs
    BY <1>1, <1>3, <2>1 DEF Owner, Asked, DInv, SInv, IInv, Typed
  <2>4. Owner = "free" => ctl.mode # "tx" /\ "XRDY" \notin irq
    BY DEF DInv, SInv, IInv, Works, Separate, TxWait
  <2>5. Owner # "free" => Count(lockBus)' = Count(lockBus)
    BY <2>1, <2>3 DEF Count, Asked
  <2>6. Loaded' /\ InTransit' /\ Delivered'
    BY <1>2, <2>1, <2>2, <2>3, <2>4, <2>5
       DEF DInv, Data, Loaded, InTransit, Delivered, IsWrite, TxWait, RxWait
  <2>7. Answered'
    BY <1>2, <1>3, <1>4, <2>1, <2>2, <2>3
       DEF DInv, Data, Answered, Early, IsWrite
  <2> QED BY <2>6, <2>7 DEF Data
<1> QED BY <1>5, <1>6

\* Where the owner goes, and that it is asked the same.
LEMMA OwnerStep ==
    ASSUME DInv, NEW p \in Procs, NEW from \in Locked, NEW to \in Locked,
           pc[p] = from, Goto(p, to), UNCHANGED <<call, lockBus>>
    PROVE  /\ lockBus = p /\ Owner = from /\ Owner' = to
           /\ Asked' = Asked /\ Count(lockBus)' = Count(lockBus) /\ (IsWrite' <=> IsWrite)
           /\ pc'[p] = to /\ \A q \in Procs \ {p} : pc'[q] = pc[q]
           /\ ctl.mode = "tx" => Owner \in TxWait
           /\ from \notin TxWait \cup RxWait => Quiet
           /\ from \notin {"rx_end", "finish"} => ~ok[p]
<1>1. pc' = [pc EXCEPT ![p] = to] /\ pc[p] \in Locked
  BY DEF Goto
<1>2. lockBus = p /\ Owner = from /\ Owner' = to
  BY <1>1, OwnerMoves DEF DInv, SInv
<1>3. pc'[p] = to /\ \A q \in Procs \ {p} : pc'[q] = pc[q]
  BY <1>1 DEF DInv, SInv, IInv, Typed
<1>4. Asked' = Asked /\ Count(lockBus)' = Count(lockBus)
  BY DEF Asked, Count
<1>5. from \notin {"rx_end", "finish"} => ~ok[p]
  BY <1>1 DEF DInv, Data, Answered, Early
<1> QED BY <1>2, <1>3, <1>4, <1>5 DEF IsWrite, DInv, SInv, IInv, Works, Separate

LEMMA PrepareData ==
    ASSUME InTime, DInv, NEW p \in Procs,
           SetCount(p) \/ FillBuffer(p) \/ StartTx(p) \/ SetRxCount(p) \/ StartRx(p)
    PROVE  Data'
<1> USE DEF bufVars, hwVars, Data, Loaded, InTransit, Delivered, Answered, Early, TxWait, RxWait
<1>1. CASE SetCount(p)
  <2>1. Owner = "count" /\ Owner' = "fill" /\ Quiet
    BY <1>1, OwnerStep DEF SetCount, Locked
  <2> QED BY <1>1, <2>1, OwnerStep DEF SetCount, Locked, DInv, Quiet
<1>2. CASE FillBuffer(p)
  <2>1. Owner = "fill" /\ Owner' = "start" /\ Quiet /\ lockBus = p
    BY <1>2, OwnerStep DEF FillBuffer, Locked
  <2>2. gWrite' = Filled(p) /\ gWrite \in [0 .. 1 -> Byte]
    BY <1>2 DEF FillBuffer, DInv, SInv, Rest
  <2>3. gWrite'[Count(p) - 1] = Asked.reg /\ (IsWrite => gWrite'[0] = Asked.val)
    BY <2>1, <2>2 DEF Filled, Count, Asked, IsWrite
  <2> QED BY <1>2, <2>1, <2>3, OwnerStep DEF FillBuffer, Locked, DInv, Quiet
<1>3. CASE StartTx(p)
  <2>1. Owner = "start" /\ Owner' = "wait_sent" /\ Quiet /\ lockBus = p
    BY <1>3, OwnerStep DEF StartTx, Locked
  <2>2. ctl'.mode = "tx" /\ Len(ctl'.sent) = 0
    BY <1>3 DEF StartTx
  <2> QED BY <1>3, <2>1, <2>2, OwnerStep DEF StartTx, Locked, DInv, Quiet
<1>4. CASE SetRxCount(p)
  <2>1. Owner = "rx_count" /\ Owner' = "rx_start" /\ Quiet
    BY <1>4, OwnerStep DEF SetRxCount, Locked
  <2> QED BY <1>4, <2>1, OwnerStep DEF SetRxCount, Locked, DInv, Quiet
<1>5. CASE StartRx(p)
  <2>1. Owner = "rx_start" /\ Owner' = "wait_read" /\ Quiet
    BY <1>5, OwnerStep DEF StartRx, Locked
  <2>2. ctl'.mode = "rx"
    BY <1>5 DEF StartRx
  <2> QED BY <1>5, <2>1, <2>2, OwnerStep DEF StartRx, Locked, DInv, Quiet
<1> QED BY <1>1, <1>2, <1>3, <1>4, <1>5

LEMMA WaitData ==
    ASSUME InTime, DInv, NEW p \in Procs,
           \/ SentOrSignal(p) \/ WriteStopped(p) \/ AddressStopped(p)
           \/ ReadArrived(p) \/ RxStopped(p) \/ ReinitRead(p) \/ Timeout(p)
    PROVE  Data'
<1> USE DEF bufVars, hwVars, Data, Loaded, InTransit, Delivered, Answered, Early, TxWait, RxWait
<1>1. /\ compStop > 0 => Quiet
      /\ \A done \in Nat : TakesOrInterrupted(done) <=> done > 0
      /\ compStop \in Nat /\ compRead \in Nat
  BY DEF TakesOrInterrupted, Interrupted, InTime, DInv, SInv, IInv, Typed, Works
<1>2. ok' = [ok EXCEPT ![p] = TRUE] => ok'[p] /\ \A q \in Procs \ {p} : ok'[q] = ok[q]
  BY DEF DInv, SInv, Rest
<1>3. CASE SentOrSignal(p)
  <2>1. Owner = "wait_sent" /\ Owner' = "wait_stop"
    BY <1>3, OwnerStep DEF SentOrSignal, Interrupted, InTime, Locked
  <2> QED BY <1>3, <2>1, OwnerStep DEF SentOrSignal, Interrupted, InTime, Locked, DInv
<1>4. CASE WriteStopped(p)
  <2>1. Owner = "wait_stop" /\ Owner' = "finish" /\ lockBus = p /\ IsWrite
    BY <1>4, OwnerStep DEF WriteStopped, Locked, IsWrite, Asked
  <2>2. Quiet
    BY <1>1, <1>4 DEF WriteStopped
  <2> QED BY <1>2, <1>4, <2>1, <2>2, OwnerStep DEF WriteStopped, Locked, DInv, Quiet
<1>5. CASE AddressStopped(p)
  <2>1. Owner = "wait_stop" /\ Owner' = "rx_count" /\ lockBus = p /\ ~IsWrite
    BY <1>5, OwnerStep DEF AddressStopped, Locked, IsWrite, Asked
  <2>2. Quiet
    BY <1>1, <1>5 DEF AddressStopped
  <2> QED BY <1>5, <2>1, <2>2, OwnerStep DEF AddressStopped, Locked, DInv, Quiet
<1>6. CASE ReadArrived(p)
  <2>1. Owner = "wait_read" /\ Owner' = "wait_rx_stop" /\ compRead > 0
    BY <1>1, <1>6, OwnerStep DEF ReadArrived, Locked
  <2> QED BY <1>6, <2>1, OwnerStep DEF ReadArrived, Locked, DInv
<1>7. CASE RxStopped(p)
  <2>1. Owner = "wait_rx_stop" /\ Owner' = "rx_end" /\ lockBus = p
    BY <1>7, OwnerStep DEF RxStopped, Locked
  <2> QED BY <1>2, <1>7, <2>1, OwnerStep DEF RxStopped, Locked, DInv
<1>8. CASE ReinitRead(p)
  <2>1. Owner = "rx_end" /\ Owner' = "finish" /\ Quiet /\ lockBus = p
    BY <1>8, OwnerStep DEF ReinitRead, Locked
  <2> QED BY <1>8, <2>1, OwnerStep DEF ReinitRead, Locked, DInv, Quiet
<1>9. CASE SentTimeout(p) \/ StopTimeout(p)
  <2>1. Owner \in TxWait /\ Owner' = "finish" /\ lockBus = p /\ ~ok[p]
    BY <1>9, OwnerStep DEF SentTimeout, StopTimeout, Locked
  <2>2. Quiet
    BY <1>9 DEF SentTimeout, StopTimeout, Expires, Quiet, InTime
  <2> QED BY <1>9, <2>1, <2>2, OwnerStep DEF SentTimeout, StopTimeout, Locked, DInv, Quiet
<1>10. CASE RxTimeout(p)
  <2>1. Owner \in RxWait /\ Owner' = "rx_end" /\ lockBus = p /\ ~ok[p]
    BY <1>10, OwnerStep DEF RxTimeout, Locked
  <2> QED BY <1>10, <2>1, OwnerStep DEF RxTimeout, Locked, DInv
<1> QED BY <1>3, <1>4, <1>5, <1>6, <1>7, <1>8, <1>9, <1>10 DEF Timeout

LEMMA IsrData ==
    ASSUME InTime, DInv, Isr
    PROVE  Data'
<1> USE DEF Isr, procVars
<1>1. /\ Owner' = Owner /\ Count(lockBus)' = Count(lockBus) /\ Asked' = Asked
      /\ (IsWrite' <=> IsWrite)
  BY SameOwner DEF Asked, IsWrite
<1>2. Owner \in TxWait \cup RxWait
  BY DEF DInv, SInv, IInv, Works, Quiet
<1>3. "RRDY" \in irq => Owner \in RxWait /\ ctl.mode # "tx"
  BY DEF DInv, SInv, IInv, Separate, TxWait, RxWait
<1>4. gRead' = IF "RRDY" \in irq THEN mem[ptr] ELSE gRead
  BY <1>3 DEF Received
<1>5. compRead' > 0 => compRead > 0 \/ "RRDY" \in irq
  OBVIOUS
<1>6. Answered'
  BY <1>1, <1>2, <1>4, <1>5 DEF DInv, Data, Answered, Early, TxWait, RxWait
<1>7. Loaded'
  BY <1>1 DEF DInv, Data, Loaded
<1>8. CASE "XRDY" \in irq
  <2>1. ctl.mode = "tx" /\ Owner \in TxWait /\ "RRDY" \notin irq /\ gLen = ctl.left /\ gLen \in 1 .. 2
    BY <1>8 DEF DInv, Data, InTransit, SInv, IInv, Separate, Counted, TxWait, RxWait
  <2>2. AfterXrdy = gLen - 1
    BY <1>8, <2>1 DEF AfterXrdy, AfterRrdy, Decremented, Width
  <2>3. PICK b \in Byte :
          /\ b = gWrite[gLen - 1]
          /\ ctl' = [ctl EXCEPT !.left = ctl.left - 1, !.sent = Append(ctl.sent, b)]
    <3>1. ctl.left > 0 /\ AfterXrdy \in 0 .. 1
      BY <2>1, <2>2
    <3>2. Transmit
      BY <1>8
    <3> QED BY <2>1, <2>2, <3>1, <3>2 DEF Transmit
  <2>4. ctl.sent \in Seq(Byte) /\ Len(ctl.sent) + ctl.left = Count(lockBus) /\ Count(lockBus) \in {1, 2}
    BY <2>1 DEF DInv, SInv, Sent, IInv, Typed, Count
  <2>5. ctl'.mode = "tx" /\ ctl'.sent = Append(ctl.sent, b)
    BY <2>1, <2>3 DEF DInv, SInv, IInv, Typed
  <2>6. /\ Len(ctl.sent) = 0 => b = Asked.reg
        /\ Len(ctl.sent) = 1 => b = Asked.val
    <3>1. gWrite[Count(lockBus) - 1] = Asked.reg /\ (IsWrite => gWrite[0] = Asked.val)
      BY <2>1 DEF DInv, Data, Loaded
    <3>2. CASE Len(ctl.sent) = 0
      <4>1. gLen = Count(lockBus)
        BY <2>1, <2>4, <3>2
      <4> QED BY <2>3, <3>1, <3>2, <4>1
    <3>3. CASE Len(ctl.sent) = 1
      <4>1. Count(lockBus) = 2 /\ gLen = 1
        BY <2>1, <2>4, <3>3
      <4>2. IsWrite
        BY <4>1 DEF Count, IsWrite, Asked
      <4> QED BY <2>3, <3>1, <3>3, <4>1, <4>2
    <3>4. CASE Len(ctl.sent) \notin {0, 1}
      BY <3>4
    <3> QED BY <3>2, <3>3, <3>4
  <2>7. /\ Len(ctl.sent) \in {0, 1}
        /\ Len(ctl'.sent) = Len(ctl.sent) + 1
        /\ ctl'.sent[Len(ctl.sent) + 1] = b
        /\ Len(ctl.sent) = 1 => ctl'.sent[1] = ctl.sent[1]
    <3>1. Len(ctl.sent) \in {0, 1}
      <4>1. Len(ctl.sent) \in Nat /\ ctl.left \in Nat /\ ctl.left >= 1
        BY <2>1, <2>4
      <4>2. Len(ctl.sent) + ctl.left <= 2
        BY <2>4
      <4>3. \A m, n \in Nat : n >= 1 /\ m + n <= 2 => m \in {0, 1}
        OBVIOUS
      <4> QED BY <4>1, <4>2, <4>3, Zenon
    <3> QED BY <2>4, <2>5, <3>1
  <2>8. InTransit'
    BY <1>1, <2>1, <2>6, <2>7 DEF DInv, Data, InTransit
  <2>9. Delivered'
    BY <1>1, <1>2, <2>1, <2>5 DEF DInv, Data, Delivered, TxWait, RxWait
  <2> QED BY <1>6, <1>7, <2>8, <2>9 DEF Data
<1>9. CASE "XRDY" \notin irq
  BY <1>1, <1>6, <1>7, <1>9 DEF DInv, Data, InTransit, Delivered
<1> QED BY <1>8, <1>9

LEMMA ControllerData ==
    ASSUME InTime, DInv, Controller
    PROVE  Data'
<1> USE DEF procVars, bufVars
<1>2. /\ Owner' = Owner /\ Count(lockBus)' = Count(lockBus) /\ Asked' = Asked
      /\ (IsWrite' <=> IsWrite) /\ UNCHANGED <<pc, ok, lockBus, gWrite, gRead, compRead>>
  BY SameOwner DEF Controller, NeedsByte, TxStop, HasByte, RxStop, Asked, IsWrite
<1>3. Loaded'
  BY <1>2 DEF DInv, Data, Loaded
<1>4. CASE NeedsByte
  BY <1>2, <1>3, <1>4 DEF NeedsByte, DInv, Data, InTransit, Delivered, Answered, Early
<1>5. CASE TxStop
  <2>1. Owner \in TxWait /\ compRead = 0
    BY <1>5 DEF TxStop, DInv, SInv, IInv, Separate, TxWait, RxWait
  <2>2. Len(ctl.sent) = Count(lockBus)
    BY <1>5 DEF TxStop, DInv, SInv, Sent, IInv, Typed
  <2>3. /\ ptr' = Asked.reg
        /\ IsWrite => mem'[Asked.reg] = Asked.val
    <3>1. ptr' = Asked.reg
      BY <1>5, <2>2 DEF TxStop, DInv, Data, InTransit, Count
    <3>2. ASSUME IsWrite PROVE mem'[Asked.reg] = Asked.val
      <4>1. Len(ctl.sent) = 2 /\ ctl.sent[1] = Asked.reg /\ ctl.sent[2] = Asked.val
        BY <1>5, <2>2, <3>2 DEF TxStop, DInv, Data, InTransit, Count, IsWrite, Asked
      <4>2. Asked.reg \in Byte
        BY <2>1 DEF Asked, Owner, TxWait, DInv, SInv, IInv, Typed, Calls
      <4> QED BY <1>5, <4>1, <4>2 DEF TxStop, DInv, SInv, Rest
    <3> QED BY <3>1, <3>2
  <2>4. InTransit' /\ Delivered' /\ Answered'
    BY <1>2, <1>5, <2>1, <2>3
       DEF TxStop, Idle, DInv, Data, InTransit, Delivered, Answered, Early, TxWait, RxWait
  <2> QED BY <1>3, <2>4 DEF Data
<1>6. CASE HasByte
  <2>1. ctl'.mode = "rx" /\ Owner \in RxWait
    BY <1>6 DEF HasByte, DInv, SInv, IInv, Typed, Separate
  <2> QED BY <1>2, <1>3, <1>6, <2>1
          DEF HasByte, DInv, Data, InTransit, Delivered, Answered, Early, TxWait, RxWait
<1>7. CASE RxStop
  <2>1. ctl'.mode = "idle" /\ Owner \in RxWait
    BY <1>7 DEF RxStop, Idle, DInv, SInv, IInv, Separate
  <2>2. "XRDY" \notin irq'
    BY <1>7, <2>1 DEF RxStop, DInv, SInv, IInv, Separate, TxWait, RxWait
  <2> QED BY <1>2, <1>3, <1>7, <2>1, <2>2
          DEF RxStop, DInv, Data, InTransit, Delivered, Answered, Early, TxWait, RxWait
<1> QED BY <1>4, <1>5, <1>6, <1>7 DEF Controller

\* As long as no transfer of the owner broke off.
RInv == SInv /\ Early /\ (lockBus \notin refused => Data)

\* At the unlock all of it is over, refused or not.
LEMMA FinishAnyData ==
    ASSUME InTime, SInv, Early, NEW p \in Procs, Finish(p)
    PROVE  Data'
<1> USE DEF Finish, Goto, hwVars
<1>1. Owner = "finish" /\ Owner' = "free" /\ pc'[p] = "return"
  BY ProcAssumption DEF SInv, IInv, Typed, LockedInside, Owner, Locked
<1>2. \A q \in Procs \ {p} : pc'[q] = pc[q]
  BY DEF SInv, IInv, Typed
<1>3. Quiet /\ compRead = 0
  BY <1>1 DEF SInv, IInv, Works, Separate, TxWait, RxWait
<1> QED BY <1>1, <1>2, <1>3
        DEF Early, Data, Loaded, InTransit, Delivered, Answered, TxWait, RxWait, Quiet, Locked

LEMMA EarlyKept ==
    ASSUME SInv, Early, [Next]_vars
    PROVE  Early'
<1> DEFINE Before == {"check", "lock"} \cup (Locked \ {"rx_end", "finish"})
<1>1. ASSUME NEW p \in Procs, Begin(p) \/ Step(p) \/ Lock(p) \/ Timeout(p)
      PROVE  Early'
  <2>1. \A q \in Procs \ {p} : pc'[q] = pc[q] /\ ok'[q] = ok[q]
    <3>1. \E to \in Unlocked \cup Locked : pc' = pc \/ pc' = [pc EXCEPT ![p] = to]
      BY <1>1 DEF Begin, Step, Lock, Timeout, CheckFree, CheckBusy, SetCount, FillBuffer,
             StartTx, SentOrSignal, WriteStopped, AddressStopped, SetRxCount, StartRx, ReadArrived,
             RxStopped, ReinitRead, Finish, Return, Ends, SentTimeout, StopTimeout, RxTimeout, Goto,
             Unlocked, Locked
    <3>2. ok' = ok \/ ok' = [ok EXCEPT ![p] = TRUE] \/ ok' = [ok EXCEPT ![p] = FALSE]
      BY <1>1 DEF Begin, Step, Lock, Timeout, CheckFree, CheckBusy, SetCount, FillBuffer,
             StartTx, SentOrSignal, WriteStopped, AddressStopped, SetRxCount, StartRx, ReadArrived,
             RxStopped, ReinitRead, Finish, Return, Ends, SentTimeout, StopTimeout, RxTimeout
    <3> QED BY <3>1, <3>2 DEF SInv, IInv, Typed, Rest
  <2>2. pc'[p] \in Before => ~ok'[p]
    <3>1. CASE Begin(p)
      BY <3>1 DEF Begin, SInv, Rest
    <3>2. CASE WriteStopped(p) \/ RxStopped(p) \/ Return(p)
      BY <3>2 DEF WriteStopped, RxStopped, Return, Ends, Goto, SInv, IInv, Typed, Locked
    <3>3. CASE ~Begin(p) /\ ~WriteStopped(p) /\ ~RxStopped(p) /\ ~Return(p)
      <4>1. ok' = ok
        BY <1>1, <3>3 DEF Step, Lock, Timeout, CheckFree, CheckBusy, SetCount, FillBuffer,
             StartTx, SentOrSignal, AddressStopped, SetRxCount, StartRx, ReadArrived,
             ReinitRead, Finish, SentTimeout, StopTimeout, RxTimeout
      <4>2. pc'[p] \in Before => pc[p] \in Before
        BY <1>1, <3>3 DEF Step, Lock, Timeout, CheckFree, CheckBusy, SetCount, FillBuffer,
             StartTx, SentOrSignal, AddressStopped, SetRxCount, StartRx, ReadArrived,
             ReinitRead, Finish, Ends, SentTimeout, StopTimeout, RxTimeout, Goto, Locked,
             SInv, IInv, Typed
      <4> QED BY <4>1, <4>2 DEF Early
    <3> QED BY <3>1, <3>2, <3>3
  <2> QED BY <2>1, <2>2 DEF Early
<1>2. CASE Isr \/ Controller \/ Nack \/ ArbitrationLost \/ UNCHANGED vars
  <2>1. UNCHANGED <<pc, ok>>
    BY <1>2 DEF Isr, Controller, NeedsByte, TxStop, HasByte, RxStop, Nack, ArbitrationLost,
                Broken, vars, procVars
  <2> QED BY <2>1 DEF Early
<1> QED BY <1>1, <1>2 DEF Next

LEMMA StepRInv ==
    ASSUME InTime, RInv, [Next]_vars
    PROVE  RInv'
<1>1. SInv' /\ Early'
  BY StepSInv, EarlyKept DEF RInv
<1> SUFFICES ASSUME lockBus' \notin refused' PROVE Data'
  BY <1>1 DEF RInv
<1> SInv /\ Early /\ lockBus \in Procs \cup {NoProc} /\ refused \subseteq Procs
  BY DEF RInv, SInv, IInv, Typed
<1>2. ASSUME NEW p \in Procs, Begin(p) \/ Step(p) \/ Lock(p) \/ Timeout(p)
      PROVE  Data'
  <2>1. CASE Finish(p)
    BY <2>1, FinishAnyData
  <2>2. CASE ~Finish(p)
    <3>1. lockBus \notin refused
      <4>1. CASE Begin(p)
        <5>1. lockBus # p
          BY <4>1, ProcAssumption DEF Begin, SInv, IInv, LockedInside, Locked
        <5> QED BY <4>1, <5>1 DEF Begin
      <4>2. CASE Lock(p)
        BY <4>2, ProcAssumption DEF Lock
      <4>3. CASE ~Begin(p) /\ ~Lock(p)
        <5>1. UNCHANGED <<lockBus, refused>>
          BY <1>2, <2>2, <4>3
             DEF Step, Timeout, CheckFree, CheckBusy, SetCount, FillBuffer,
                 StartTx, SentOrSignal, WriteStopped, AddressStopped, SetRxCount, StartRx,
                 ReadArrived, RxStopped, ReinitRead, Return, SentTimeout, StopTimeout, RxTimeout
        <5> QED BY <5>1
      <4> QED BY <4>1, <4>2, <4>3
    <3>2. DInv
      BY <3>1 DEF RInv, DInv
    <3> QED BY <1>2, <2>2, <3>2, OutsideData, PrepareData, WaitData DEF Step
  <2> QED BY <2>1, <2>2
<1>3. CASE UNCHANGED vars
  <2>1. Owner' = Owner /\ Count(lockBus)' = Count(lockBus) /\ Asked' = Asked /\ (IsWrite' <=> IsWrite)
    BY <1>3, SameOwner DEF vars, procVars, Asked, IsWrite
  <2>2. Data
    BY <1>3 DEF RInv, vars, procVars
  <2> QED BY <1>3, <2>1, <2>2 DEF vars, procVars, bufVars, hwVars, Data, Loaded, InTransit,
                                  Delivered, Answered, Early
<1>4. CASE Isr \/ Controller
  <2>1. UNCHANGED <<lockBus, refused>>
    BY <1>4 DEF Isr, Controller, NeedsByte, TxStop, HasByte, RxStop, procVars
  <2>2. DInv
    BY <2>1 DEF RInv, DInv
  <2> QED BY <1>4, <2>2, IsrData, ControllerData
<1>5. CASE Nack \/ ArbitrationLost
  <2>1. /\ ctl.mode # "idle" /\ lockBus' = lockBus
        /\ refused' = refused \cup ({ctl.by} \ {NoProc})
    BY <1>5 DEF Nack, ArbitrationLost, Broken
  <2>2. ctl.by = lockBus /\ lockBus # NoProc
    BY <2>1 DEF SInv, IInv, Works, Quiet, Owner, TxWait, RxWait
  <2> QED BY <2>1, <2>2
<1> QED BY <1>2, <1>3, <1>4, <1>5 DEF Next

\* An operation that reports success and met no refusal was carried out when it
\* is about to release the bus: the register has the value written, through both
\* bytes of a write in their order, or g_read is the value of the register asked
\* for, through both transfers of a read; for any number of processes, and
\* whatever happened to the transfers before and between.
THEOREM CarriedOut == InTime => (Spec => []DoneUnderLock)
<1> SUFFICES ASSUME InTime PROVE Spec => []DoneUnderLock
  OBVIOUS
<1>1. Init => RInv
  BY InitSInv, InitData DEF RInv, Data, Answered
<1>2. RInv /\ [Next]_vars => RInv'
  BY StepRInv
<1>3. RInv => DoneUnderLock
  <2> SUFFICES ASSUME RInv, NEW p \in Procs, pc[p] = "finish", ok[p], p \notin refused
               PROVE  mem[call[p].reg] = IF call[p].kind = "write" THEN call[p].val ELSE gRead
    BY DEF DoneUnderLock
  <2>1. lockBus = p /\ Owner = "finish"
    BY ProcAssumption DEF RInv, SInv, IInv, LockedInside, Locked, Owner
  <2> QED BY <2>1 DEF RInv, Data, Answered, Asked, IsWrite
<1> QED BY <1>1, <1>2, <1>3, PTL DEF Spec
=============================================================================
