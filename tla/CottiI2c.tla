------------------------------- MODULE CottiI2c -------------------------------
(***************************************************************************)
(* The I2C bus driver of 02_cuat/driver (src/cotti_i2c.c): processes that  *)
(* write or read one register of the slave, the interrupt handler, and the *)
(* controller with the slave behind it.                                    *)
(*                                                                         *)
(* The board has one core, so the interrupt handler runs between any two   *)
(* steps of a process; a step of a process is what it does between two     *)
(* accesses to data it shares with the handler or the other processes.     *)
(***************************************************************************)
EXTENDS Integers, FiniteSets, Sequences

CONSTANTS
    Procs,      \* processes inside a file operation of the device
    NoProc,     \* no process
    Byte,       \* register addresses and register values
    Operations, \* the operations the processes call
    MaxTries,   \* sleeps in prv_wait_for_bus_busy before it gives up (101)
    Faults      \* what the environment does: see below

\* "signal": a signal is sent to a process that waits; "slow": an answer takes
\* longer than TIMEOUT_READ_WRITE; "nack": the slave does not acknowledge;
\* "arbitration": the controller loses the bus to another master.
FaultKinds == {"signal", "slow", "nack", "arbitration"}

ASSUME ProcAssumption == NoProc \notin Procs

ASSUME ByteAssumption == Byte # {}

Calls == [kind : {"read", "write"}, reg : Byte, val : Byte]

ASSUME OperationAssumption ==
    /\ Operations \subseteq Calls
    /\ Faults \subseteq FaultKinds
    /\ MaxTries \in Nat \ {0}

Width == 65536      \* g_len is a u16

\* The states of a process between two calls, and inside one.
Unlocked == {"idle", "check", "lock", "return"}
Locked   == {"count", "fill", "start", "wait_sent", "wait_stop", "rx_count",
             "rx_start", "wait_read", "wait_rx_stop", "rx_end", "finish"}

Irqs == {"AL", "ARDY", "NACK", "RRDY", "XRDY"}

VARIABLES
    pc,         \* where each process is
    call,       \* the operation and its arguments, per process
    tries,      \* i of prv_wait_for_bus_busy
    ok,         \* whether the call reports success
    result,     \* what the last read returned, -1 included
    refused,    \* history: processes with a transfer that broke off since they began
    lockBus,    \* the owner of lock_bus
    gLen, gWrite, gRead,    \* g_len, g_write, g_read
    compStop, compRead,     \* comp_stop.done, comp_read.done
    irq,        \* the bits of IRQSTATUS that are enabled and set
    ctl,        \* the controller: what it transfers, for whom
    mem, ptr    \* the registers of the slave and its register pointer

procVars == <<pc, call, tries, ok, result, refused>>
bufVars  == <<gLen, gWrite, gRead, compStop, compRead>>
hwVars   == <<irq, ctl, mem, ptr>>
vars     == <<procVars, lockBus, bufVars, hwVars>>

Idle == [mode |-> "idle", left |-> 0, sent |-> <<>>, by |-> NoProc]

NoCall == CHOOSE c \in Calls : TRUE      \* between two operations: any

Init ==
    /\ pc = [p \in Procs |-> "idle"]
    /\ call = [p \in Procs |-> NoCall]
    /\ tries = [p \in Procs |-> 0]
    /\ ok = [p \in Procs |-> FALSE]
    /\ result = [p \in Procs |-> -1]
    /\ refused = {}
    /\ lockBus = NoProc
    /\ gLen = 0
    /\ \E b \in Byte : gWrite = [i \in 0 .. 1 |-> b] /\ gRead = b
    /\ compStop = 0
    /\ compRead = 0
    /\ irq = {}
    /\ ctl = Idle
    /\ mem \in [Byte -> Byte]
    /\ ptr \in Byte

Goto(p, label) == pc' = [pc EXCEPT ![p] = label]
-----------------------------------------------------------------------------
(***************************************************************************)
(* cotti_i2c_write and cotti_i2c_read.                                     *)
(***************************************************************************)

Begin(p) ==
    /\ pc[p] = "idle"
    /\ Goto(p, "check")
    /\ \E c \in Operations : call' = [call EXCEPT ![p] = c]
    /\ tries' = [tries EXCEPT ![p] = 0]
    /\ ok' = [ok EXCEPT ![p] = FALSE]
    /\ result' = [result EXCEPT ![p] = -1]
    /\ refused' = refused \ {p}
    /\ UNCHANGED <<lockBus, bufVars, hwVars>>

\* prv_wait_for_bus_busy.  The busy flag is bit 12 of IRQSTATUS, and
\* prv_is_irq_triggered returns a u8: only the mutex is looked at.
BusyBit == 4096

ReportsBusy == ((IF ctl.mode # "idle" THEN BusyBit ELSE 0) % 256) # 0

BusLooksFree == ~ReportsBusy /\ lockBus = NoProc

CheckFree(p) ==
    /\ pc[p] = "check"
    /\ BusLooksFree
    /\ Goto(p, "lock")
    /\ UNCHANGED <<call, tries, ok, result, refused, lockBus, bufVars, hwVars>>

\* The call returns v.
Ends(p, v) ==
    /\ Goto(p, "idle")
    /\ call' = [call EXCEPT ![p] = NoCall]
    /\ result' = [result EXCEPT ![p] = v]

CheckBusy(p) ==
    /\ pc[p] = "check"
    /\ ~BusLooksFree
    /\ \/ /\ tries[p] < MaxTries - 1
          /\ tries' = [tries EXCEPT ![p] = @ + 1]
          /\ UNCHANGED <<pc, call, ok, result>>
       \/ /\ tries[p] = MaxTries - 1
          /\ Ends(p, -1)
          /\ UNCHANGED <<tries, ok>>
    /\ UNCHANGED <<refused, lockBus, bufVars, hwVars>>

Lock(p) ==
    /\ pc[p] = "lock"
    /\ lockBus = NoProc
    /\ lockBus' = p
    /\ Goto(p, "count")
    /\ UNCHANGED <<call, tries, ok, result, refused, bufVars, hwVars>>

\* prv_set_count; the controller takes CNT when the transfer starts.
Count(p) == IF call[p].kind = "write" THEN 2 ELSE 1

\* Mutant: g_len is clamped to one byte less than CNT.
SetCountShort(p) ==
    /\ pc[p] = "count"
    /\ gLen' = 1
    /\ Goto(p, "fill")
    /\ UNCHANGED <<call, tries, ok, result, refused, lockBus,
                   gWrite, gRead, compStop, compRead, hwVars>>

SetCount(p) ==
    /\ pc[p] = "count"
    /\ gLen' = Count(p)
    /\ Goto(p, "fill")
    /\ UNCHANGED <<call, tries, ok, result, refused, lockBus,
                   gWrite, gRead, compStop, compRead, hwVars>>

\* The upper value of g_write is sent first.
\* Mutant: both are filled from the front.
FilledForward(p) ==
    IF call[p].kind = "write"
    THEN [i \in 0 .. 1 |-> IF i = 0 THEN call[p].reg ELSE call[p].val]
    ELSE [gWrite EXCEPT ![1] = call[p].reg]

Filled(p) ==
    IF call[p].kind = "write"
    THEN [i \in 0 .. 1 |-> IF i = 1 THEN call[p].reg ELSE call[p].val]
    ELSE [gWrite EXCEPT ![0] = call[p].reg]

FillBuffer(p) ==
    /\ pc[p] = "fill"
    /\ gWrite' = Filled(p)
    /\ Goto(p, "start")
    /\ UNCHANGED <<call, tries, ok, result, refused, lockBus,
                   gLen, gRead, compStop, compRead, hwVars>>

\* The FIFOs are cleared and CON is written.
StartTx(p) ==
    /\ pc[p] = "start"
    /\ ctl' = [mode |-> "tx", left |-> Count(p), sent |-> <<>>, by |-> p]
    /\ Goto(p, "wait_sent")
    /\ UNCHANGED <<call, tries, ok, result, refused, lockBus, bufVars, irq, mem, ptr>>

\* A wait of 100 ms runs out: the answer is late, or there will be none.
Expires == "slow" \in Faults \/ (ctl.mode = "idle" /\ irq = {})

\* The value of a timed wait that a signal interrupts is negative, not zero, so
\* the signal counts as the event. It matters to nothing but the waits: it may
\* as well come when it ends one.
Interrupted == "signal" \in Faults

SentOrSignal(p) ==
    /\ pc[p] = "wait_sent"
    /\ gLen = 0 \/ Interrupted
    /\ Goto(p, "wait_stop")
    /\ UNCHANGED <<call, tries, ok, result, refused, lockBus, bufVars, hwVars>>

\* Mutant: this error path returns without mutex_unlock.
SentTimeoutLocked(p) ==
    /\ pc[p] = "wait_sent"
    /\ gLen # 0
    /\ Expires
    /\ Goto(p, "return")
    /\ UNCHANGED <<call, tries, ok, result, refused, lockBus, bufVars, hwVars>>

SentTimeout(p) ==
    /\ pc[p] = "wait_sent"
    /\ gLen # 0
    /\ Expires
    /\ Goto(p, "finish")
    /\ UNCHANGED <<call, tries, ok, result, refused, lockBus, bufVars, hwVars>>

\* wait_for_completion_interruptible_timeout takes the completion if it is
\* there, signal or not.
TakesOrInterrupted(done) == done > 0 \/ Interrupted

Taken(done) == IF done > 0 THEN done - 1 ELSE done

\* Mutant: a write returns when its last byte is in the FIFO.
WriteStoppedEarly(p) ==
    /\ pc[p] = "wait_stop"
    /\ call[p].kind = "write"
    /\ compStop' = Taken(compStop)
    /\ ok' = [ok EXCEPT ![p] = TRUE]
    /\ Goto(p, "finish")
    /\ UNCHANGED <<call, tries, result, refused, lockBus,
                   gLen, gWrite, gRead, compRead, hwVars>>

WriteStopped(p) ==
    /\ pc[p] = "wait_stop"
    /\ call[p].kind = "write"
    /\ TakesOrInterrupted(compStop)
    /\ compStop' = Taken(compStop)
    /\ ok' = [ok EXCEPT ![p] = TRUE]
    /\ Goto(p, "finish")
    /\ UNCHANGED <<call, tries, result, refused, lockBus,
                   gLen, gWrite, gRead, compRead, hwVars>>

\* Between the two transfers of a read: comp_stop is initialized again.
AddressStopped(p) ==
    /\ pc[p] = "wait_stop"
    /\ call[p].kind = "read"
    /\ TakesOrInterrupted(compStop)
    /\ compStop' = 0
    /\ Goto(p, "rx_count")
    /\ UNCHANGED <<call, tries, ok, result, refused, lockBus,
                   gLen, gWrite, gRead, compRead, hwVars>>

StopTimeout(p) ==
    /\ pc[p] = "wait_stop"
    /\ compStop = 0
    /\ Expires
    /\ Goto(p, "finish")
    /\ UNCHANGED <<call, tries, ok, result, refused, lockBus, bufVars, hwVars>>

SetRxCount(p) ==
    /\ pc[p] = "rx_count"
    /\ gLen' = 1
    /\ Goto(p, "rx_start")
    /\ UNCHANGED <<call, tries, ok, result, refused, lockBus,
                   gWrite, gRead, compStop, compRead, hwVars>>

StartRx(p) ==
    /\ pc[p] = "rx_start"
    /\ ctl' = [mode |-> "rx", left |-> 1, sent |-> <<>>, by |-> p]
    /\ Goto(p, "wait_read")
    /\ UNCHANGED <<call, tries, ok, result, refused, lockBus, bufVars, irq, mem, ptr>>

ReadArrived(p) ==
    /\ pc[p] = "wait_read"
    /\ TakesOrInterrupted(compRead)
    /\ compRead' = Taken(compRead)
    /\ Goto(p, "wait_rx_stop")
    /\ UNCHANGED <<call, tries, ok, result, refused, lockBus,
                   gLen, gWrite, gRead, compStop, hwVars>>

RxStopped(p) ==
    /\ pc[p] = "wait_rx_stop"
    /\ TakesOrInterrupted(compStop)
    /\ compStop' = Taken(compStop)
    /\ ok' = [ok EXCEPT ![p] = TRUE]
    /\ Goto(p, "rx_end")
    /\ UNCHANGED <<call, tries, result, refused, lockBus,
                   gLen, gWrite, gRead, compRead, hwVars>>

RxTimeout(p) ==
    /\ \/ pc[p] = "wait_read" /\ compRead = 0
       \/ pc[p] = "wait_rx_stop" /\ compStop = 0
    /\ Expires
    /\ Goto(p, "rx_end")
    /\ UNCHANGED <<call, tries, ok, result, refused, lockBus, bufVars, hwVars>>

\* comp_read is initialized again, except when the address phase failed.
ReinitRead(p) ==
    /\ pc[p] = "rx_end"
    /\ compRead' = 0
    /\ Goto(p, "finish")
    /\ UNCHANGED <<call, tries, ok, result, refused, lockBus,
                   gLen, gWrite, gRead, compStop, hwVars>>

\* Mutant: the stop of a transfer that timed out is left behind.
FinishNoReinit(p) ==
    /\ pc[p] = "finish"
    /\ lockBus' = NoProc
    /\ Goto(p, "return")
    /\ UNCHANGED <<call, tries, ok, result, refused, bufVars, hwVars>>

\* Every path ends with reinit_completion(&comp_stop) and mutex_unlock.
Finish(p) ==
    /\ pc[p] = "finish"
    /\ compStop' = 0
    /\ lockBus' = NoProc
    /\ Goto(p, "return")
    /\ UNCHANGED <<call, tries, ok, result, refused,
                   gLen, gWrite, gRead, compRead, hwVars>>

\* Mutant: a write returns how many bytes it sent.
ReturnsCount(p) ==
    IF ~ok[p] THEN -1 ELSE IF call[p].kind = "read" THEN gRead ELSE Count(p)

Returns(p) ==
    IF ~ok[p] THEN -1 ELSE IF call[p].kind = "read" THEN gRead ELSE 0

\* The return statement, after the unlock.
Return(p) ==
    /\ pc[p] = "return"
    /\ Ends(p, Returns(p))
    /\ tries' = [tries EXCEPT ![p] = 0]
    /\ ok' = [ok EXCEPT ![p] = FALSE]
    /\ UNCHANGED <<refused, lockBus, bufVars, hwVars>>
-----------------------------------------------------------------------------
(***************************************************************************)
(* prv_isr: one pass of its loop, in the order of the code.                *)
(***************************************************************************)

\* The u16 length counts down, past zero too.
Decremented(n) == (n - 1) % Width

AfterRrdy == IF "RRDY" \in irq THEN Decremented(gLen) ELSE gLen
AfterXrdy == IF "XRDY" \in irq THEN Decremented(AfterRrdy) ELSE AfterRrdy

\* prv_write(g_write[g_len]): outside the array any byte may be found.
Transmit ==
    \E b \in Byte :
        /\ AfterXrdy \in 0 .. 1 => b = gWrite[AfterXrdy]
        /\ ctl' = IF ctl.mode = "tx" /\ ctl.left > 0
                  THEN [ctl EXCEPT !.left = @ - 1, !.sent = Append(@, b)]
                  ELSE ctl

\* prv_read takes the byte the controller received, if the FIFO still has it.
Received == IF ctl.mode = "tx" THEN Byte ELSE {mem[ptr]}

Isr ==
    /\ irq # {}
    /\ compStop' = IF "ARDY" \in irq THEN compStop + 1 ELSE compStop
    /\ compRead' = IF "RRDY" \in irq THEN compRead + 1 ELSE compRead
    /\ gRead' \in IF "RRDY" \in irq THEN Received ELSE {gRead}
    /\ gLen' = AfterXrdy
    /\ IF "XRDY" \in irq THEN Transmit ELSE UNCHANGED ctl
    /\ irq' = {}
    /\ UNCHANGED <<procVars, lockBus, gWrite, mem, ptr>>
-----------------------------------------------------------------------------
(***************************************************************************)
(* The controller and the slave.                                           *)
(***************************************************************************)

\* The transmitter wants the next byte.
NeedsByte ==
    /\ ctl.mode = "tx"
    /\ ctl.left > 0
    /\ "XRDY" \notin irq
    /\ irq' = irq \cup {"XRDY"}
    /\ UNCHANGED <<procVars, lockBus, bufVars, ctl, mem, ptr>>

\* All bytes are out: the slave takes the first as its register pointer and
\* the second as the value of that register; then the stop condition.
TxStop ==
    /\ ctl.mode = "tx"
    /\ ctl.left = 0
    /\ "XRDY" \notin irq
    /\ ptr' = ctl.sent[1]
    /\ mem' = IF Len(ctl.sent) = 2 THEN [mem EXCEPT ![ctl.sent[1]] = ctl.sent[2]] ELSE mem
    /\ ctl' = Idle
    /\ irq' = irq \cup {"ARDY"}
    /\ UNCHANGED <<procVars, lockBus, bufVars>>

HasByte ==
    /\ ctl.mode = "rx"
    /\ ctl.left = 1
    /\ ctl' = [ctl EXCEPT !.left = 0]
    /\ irq' = irq \cup {"RRDY"}
    /\ UNCHANGED <<procVars, lockBus, bufVars, mem, ptr>>

RxStop ==
    /\ ctl.mode = "rx"
    /\ ctl.left = 0
    /\ ctl' = Idle
    /\ irq' = irq \cup {"ARDY"}
    /\ UNCHANGED <<procVars, lockBus, bufVars, mem, ptr>>

\* The transfer breaks off, and may or may not be reported as done.
Broken(fault, flag) ==
    /\ fault \in Faults
    /\ ctl.mode # "idle"
    /\ ctl' = Idle
    /\ \E more \in {{}, {"ARDY"}} : irq' = irq \cup {flag} \cup more
    /\ refused' = refused \cup ({ctl.by} \ {NoProc})
    /\ UNCHANGED <<pc, call, tries, ok, result, lockBus, bufVars, mem, ptr>>

Nack            == Broken("nack", "NACK")
ArbitrationLost == Broken("arbitration", "AL")
-----------------------------------------------------------------------------
Timeout(p) == SentTimeout(p) \/ StopTimeout(p) \/ RxTimeout(p)

Step(p) ==
    \/ CheckFree(p) \/ CheckBusy(p)
    \/ SetCount(p) \/ FillBuffer(p) \/ StartTx(p)
    \/ SentOrSignal(p) \/ WriteStopped(p) \/ AddressStopped(p)
    \/ SetRxCount(p) \/ StartRx(p)
    \/ ReadArrived(p) \/ RxStopped(p)
    \/ ReinitRead(p) \/ Finish(p) \/ Return(p)

Controller == NeedsByte \/ TxStop \/ HasByte \/ RxStop

Next ==
    \/ \E p \in Procs : Begin(p) \/ Step(p) \/ Lock(p) \/ Timeout(p)
    \/ Isr
    \/ Controller
    \/ Nack
    \/ ArbitrationLost

Spec == Init /\ [][Next]_vars

\* Processes are scheduled, timed waits end, the kernel's mutex hands itself to
\* the waiters in turn, the handler is called while an interrupt is pending,
\* and the controller works.
Fairness ==
    /\ \A p \in Procs : WF_vars(Step(p)) /\ WF_vars(Timeout(p)) /\ SF_vars(Lock(p))
    /\ WF_vars(Isr)
    /\ WF_vars(Controller)

FairSpec == Spec /\ Fairness
-----------------------------------------------------------------------------
(***************************************************************************)
(* Properties.                                                             *)
(***************************************************************************)

\* The types: g_len stays a u16 below zero too, and nothing but a byte, 0 or -1
\* is ever returned.
TypeOK ==
    /\ pc \in [Procs -> Unlocked \cup Locked]
    /\ call \in [Procs -> Calls]
    /\ tries \in [Procs -> 0 .. MaxTries - 1]
    /\ ok \in [Procs -> BOOLEAN]
    /\ result \in [Procs -> Byte \cup {-1, 0}]
    /\ refused \subseteq Procs
    /\ lockBus \in Procs \cup {NoProc}
    /\ gLen \in 0 .. Width - 1
    /\ gWrite \in [0 .. 1 -> Byte]
    /\ gRead \in Byte
    /\ compStop \in Nat
    /\ compRead \in Nat
    /\ irq \subseteq Irqs
    /\ ctl \in [mode : {"idle", "tx", "rx"}, left : 0 .. 2, sent : Seq(Byte),
               by : Procs \cup {NoProc}]
    /\ mem \in [Byte -> Byte]
    /\ ptr \in Byte

\* The critical section: the processes between mutex_lock and mutex_unlock are
\* the owners of lock_bus, so that there is at most one, and every way out of
\* it, of which cotti_i2c.c has four, gives the bus back.
LockedInside == \A p \in Procs : pc[p] \in Locked <=> lockBus = p

\* One transfer at a time: while the controller transfers or an interrupt of a
\* transfer is pending, the process that started it holds lock_bus.  So no
\* process fills g_write, sets g_len or writes CON under a running transfer,
\* and a transfer that is refused is over before its process gives up.
OneTransfer ==
    ctl.mode # "idle" \/ irq # {} => lockBus # NoProc /\ ctl.by \in {lockBus, NoProc}

\* An operation starts each of its transfers with no completion left over from
\* an earlier one, also when that was refused or timed out and completed
\* afterwards: a wait can only be ended by the transfer it waits for.
FreshCompletions ==
    \A p \in Procs : pc[p] \in {"start", "rx_start"} => compStop = 0 /\ compRead = 0

\* The handler never takes a byte from outside g_write: g_len counts the bytes
\* that are still to be sent, whoever set it and whether or not the transfers
\* before were refused in the middle.
BufferIndexInRange == "XRDY" \in irq => AfterXrdy \in 0 .. 1

\* When an operation that succeeded is about to release the bus, and the slave
\* and the bus let its transfers through, it was carried out: the slave's
\* register has the value written ("0" on success, cotti_i2c.c:217), or g_read
\* is the value of the register asked for, through both transfers of a read and
\* after refused transfers of other processes.
DoneUnderLock ==
    \A p \in Procs : pc[p] = "finish" /\ ok[p] /\ p \notin refused =>
        mem[call[p].reg] = IF call[p].kind = "write" THEN call[p].val ELSE gRead

\* Every operation returns, whether the slave answers or not, and whoever else
\* waits for the mutex: no wait is without end and no path leaves lock_bus taken.
OperationsEnd == \A p \in Procs : (pc[p] # "idle") ~> (pc[p] = "idle")
=============================================================================
