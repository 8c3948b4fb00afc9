--------------------------------- MODULE Ipc ---------------------------------
(***************************************************************************)
(* The System V objects of the server's library (02_cuat/server: sem.cpp,   *)
(* shared_memory.h, msg_queue.h), each under its key, and the threads that  *)
(* use them: a server that creates them when it starts and removes them     *)
(* when it leaves (httpserver.cpp), and the processes it forks or that      *)
(* connect to them. Anyone may be killed.                                   *)
(***************************************************************************)
EXTENDS Integers, Sequences, FiniteSets

CONSTANTS
    Threads,    \* thread ids (gettid)
    Main,       \* the server
    Programs,   \* what each program may create, in this order
    Types,      \* values of mtype passed to write
    Reads,      \* values of mtype passed to read
    Capacity,   \* messages a queue holds before msgsnd blocks
    MaxStarts,  \* bound: times the server is started
    Kills,      \* bound: threads killed
    Signals     \* bound: waits for one semaphore that a signal interrupts

Kinds == {"Sem", "SharedMemory", "MsgQueue"}

ASSUME IpcAssumption ==
    /\ Main \in Threads
    /\ Programs \subseteq Seq(Kinds) \ {<<>>}
    /\ \A p \in Programs : \A i, j \in DOMAIN p : p[i] = p[j] => i = j
    /\ Types \subseteq Int /\ Reads \subseteq Int
    /\ Capacity \in Nat \ {0} /\ MaxStarts \in Nat /\ Kills \in Nat /\ Signals \in Nat

VARIABLES
    members,    \* what the server's program creates
    alive,      \* threads that run
    pc,         \* what each is in the middle of
    inst,       \* the instance of each class a thread has, or None
    object,     \* the object under the key of a kind, 0 for none
    starts,     \* times the server was started: the ids of its objects
    semval,     \* the value of the semaphore
    interrupted,\* waits for this semaphore that ended without it
    queue,      \* the types of the messages of the queue, the oldest first
    holding,    \* the threads between sem-- and sem++
    killed      \* threads that were killed or ended by an exception

vars == <<members, alive, pc, inst, object, starts, semval, interrupted, queue, holding, killed>>

None == [id |-> 0, creator |-> FALSE, pid |-> Main]
Idle == [at |-> "idle", arg |-> 0]

\* Mutant: write leaves the type as it is.
TypeUnchecked(mtype) == mtype

\* write turns a type that is not positive into 1.
TypeOf(mtype) == IF mtype <= 0 THEN 1 ELSE mtype
MsgTypes      == {TypeOf(m) : m \in Types}

Has(t, k)   == inst[t][k].id # 0
\* Whether there is an object under the key.
Exists(k)   == object[k] # 0
\* Its object is still the one under the key.
Valid(t, k) == Has(t, k) /\ inst[t][k].id = object[k]
Ready(t)    == t \in alive /\ pc[t].at = "idle"
Pc(t, label, arg) == [pc EXCEPT ![t] = [at |-> label, arg |-> arg]]

Init ==
    /\ members \in Programs
    /\ alive = {} /\ killed = {}
    /\ pc = [t \in Threads |-> Idle]
    /\ inst = [t \in Threads |-> [k \in Kinds |-> None]]
    /\ object = [k \in Kinds |-> 0]
    /\ starts = 0
    /\ semval = 0 /\ interrupted = 0
    /\ queue = <<>>
    /\ holding = {}
-----------------------------------------------------------------------------
(***************************************************************************)
(* The server's life.                                                      *)
(***************************************************************************)
Start ==
    /\ Main \notin alive /\ starts < MaxStarts
    /\ starts' = starts + 1
    /\ alive' = alive \cup {Main}
    /\ pc' = Pc(Main, "create", 1)
    /\ UNCHANGED <<members, inst, object, semval, interrupted, queue, holding, killed>>

\* What dies without running a destructor.
Dies(t) ==
    /\ killed' = killed \cup {t}
    /\ alive' = alive \ {t}
    /\ pc' = Pc(t, "idle", 0)
    /\ inst' = [inst EXCEPT ![t] = [k \in Kinds |-> None]]
    /\ holding' = holding \ {t}

Created(i) == IF i = Len(members) THEN Pc(Main, "idle", 0) ELSE Pc(Main, "create", i + 1)

\* A constructor with IPC_CREAT | IPC_EXCL: the object is new. A semaphore has
\* the value 0 until the constructor sets it.
Create ==
    /\ Main \in alive /\ pc[Main].at = "create"
    /\ LET k == members[pc[Main].arg]
       IN  /\ ~Exists(k)
           /\ object' = [object EXCEPT ![k] = starts]
           /\ inst' = [inst EXCEPT ![Main][k] = [id |-> starts, creator |-> TRUE, pid |-> Main]]
           /\ pc' = IF k = "Sem" THEN Pc(Main, "set", pc[Main].arg) ELSE Created(pc[Main].arg)
           /\ IF k = "Sem" THEN semval' = 0 /\ interrupted' = 0
                           ELSE UNCHANGED <<semval, interrupted>>
           /\ queue' = IF k = "MsgQueue" THEN <<>> ELSE queue
    /\ UNCHANGED <<members, alive, starts, holding, killed>>

\* Mutant: the semaphore is created for two.
SetTwo ==
    /\ Main \in alive /\ pc[Main].at = "set"
    /\ semval' = 2
    /\ pc' = Created(pc[Main].arg)
    /\ UNCHANGED <<members, alive, inst, object, starts, interrupted, queue, holding, killed>>

Set ==
    /\ Main \in alive /\ pc[Main].at = "set"
    /\ semval' = 1
    /\ pc' = Created(pc[Main].arg)
    /\ UNCHANGED <<members, alive, inst, object, starts, interrupted, queue, holding, killed>>

\* The object exists: the exception, which main does not catch, ends the
\* server without its destructors.
CreateThrows ==
    /\ Main \in alive /\ pc[Main].at = "create"
    /\ Exists(members[pc[Main].arg])
    /\ Dies(Main)
    /\ UNCHANGED <<members, object, starts, semval, interrupted, queue>>

\* main returns.
Leave ==
    /\ Ready(Main) /\ Main \notin holding
    /\ pc' = Pc(Main, "destroy", Len(members))
    /\ UNCHANGED <<members, alive, inst, object, starts, semval, interrupted, queue, holding, killed>>

\* Mutant: the destructor does not look at the thread.
RemovesForAll(t, k) == inst[t][k].creator

\* The destructor: the creator removes the object, in the thread that made it.
Removes(t, k) == inst[t][k].creator /\ inst[t][k].pid = t

Destroys(t, k) ==
    /\ inst' = [inst EXCEPT ![t][k] = None]
    /\ object' = IF Removes(t, k) /\ Valid(t, k) THEN [object EXCEPT ![k] = 0] ELSE object

DestroyMember ==
    /\ Main \in alive /\ pc[Main].at = "destroy"
    /\ LET i == pc[Main].arg
       IN  /\ Destroys(Main, members[i])
           /\ pc' = IF i = 1 THEN Pc(Main, "idle", 0) ELSE Pc(Main, "destroy", i - 1)
           /\ alive' = IF i = 1 THEN alive \ {Main} ELSE alive
    /\ UNCHANGED <<members, starts, semval, interrupted, queue, holding, killed>>
-----------------------------------------------------------------------------
(***************************************************************************)
(* Other threads.                                                          *)
(***************************************************************************)
\* fork copies the instances, and the creator's pid in them.
Fork(c) ==
    /\ Ready(Main) /\ Main \notin holding
    /\ c \notin alive
    /\ alive' = alive \cup {c}
    /\ inst' = [inst EXCEPT ![c] = inst[Main]]
    /\ UNCHANGED <<members, pc, object, starts, semval, interrupted, queue, holding, killed>>

\* A program of its own, which connects to what exists.
Runs(c) ==
    /\ c # Main /\ c \notin alive
    /\ alive' = alive \cup {c}
    /\ UNCHANGED <<members, pc, inst, object, starts, semval, interrupted, queue, holding, killed>>

Connect(c, k) ==
    /\ Ready(c) /\ c # Main /\ ~Has(c, k)
    /\ Exists(k)
    /\ inst' = [inst EXCEPT ![c][k] = [id |-> object[k], creator |-> FALSE, pid |-> c]]
    /\ UNCHANGED <<members, alive, pc, object, starts, semval, interrupted, queue, holding, killed>>

Destroy(c, k) ==
    /\ Ready(c) /\ c # Main /\ Has(c, k) /\ c \notin holding
    /\ Destroys(c, k)
    /\ UNCHANGED <<members, alive, pc, starts, semval, interrupted, queue, holding, killed>>

\* A child that calls exit runs none of its destructors either.
Exit(c) ==
    /\ Ready(c) /\ c # Main /\ c \notin holding
    /\ alive' = alive \ {c}
    /\ inst' = [inst EXCEPT ![c] = [k \in Kinds |-> None]]
    /\ UNCHANGED <<members, pc, object, starts, semval, interrupted, queue, holding, killed>>

Kill(t) ==
    /\ t \in alive /\ Cardinality(killed) < Kills
    /\ Dies(t)
    /\ UNCHANGED <<members, object, starts, semval, interrupted, queue>>
-----------------------------------------------------------------------------
(***************************************************************************)
(* The semaphore, as the server pairs sem-- and sem++.                      *)
(***************************************************************************)
Down(t) ==
    /\ Ready(t) /\ Has(t, "Sem") /\ t \notin holding
    /\ pc' = Pc(t, "down", 0)
    /\ UNCHANGED <<members, alive, inst, object, starts, semval, interrupted, queue, holding, killed>>

\* semop waits for the value.
Downs(t) ==
    /\ t \in alive /\ pc[t].at = "down" /\ Valid(t, "Sem")
    /\ semval >= 1
    /\ semval' = semval - 1
    /\ holding' = holding \cup {t}
    /\ pc' = Pc(t, "idle", 0)
    /\ UNCHANGED <<members, alive, inst, object, starts, interrupted, queue, killed>>

\* semop fails once the semaphore is removed, and when a signal ends the wait.
\* op returns -1, which sem-- does not look at: the caller goes on.
DownFails(t) ==
    /\ t \in alive /\ pc[t].at = "down"
    /\ \/ ~Valid(t, "Sem") /\ UNCHANGED interrupted
       \/ /\ Valid(t, "Sem") /\ semval = 0
          /\ interrupted < Signals /\ interrupted' = interrupted + 1
    /\ holding' = holding \cup {t}
    /\ pc' = Pc(t, "idle", 0)
    /\ UNCHANGED <<members, alive, inst, object, starts, semval, queue, killed>>

Up(t) ==
    /\ Ready(t) /\ t \in holding
    /\ holding' = holding \ {t}
    /\ semval' = IF Valid(t, "Sem") THEN semval + 1 ELSE semval
    /\ UNCHANGED <<members, alive, pc, inst, object, starts, interrupted, queue, killed>>

-----------------------------------------------------------------------------
(***************************************************************************)
(* The message queue.                                                      *)
(***************************************************************************)
\* msgsnd waits for room; it fails once the queue is removed.
Write(t) ==
    /\ Ready(t) /\ Has(t, "MsgQueue")
    /\ \E m \in Types : pc' = Pc(t, "send", TypeOf(m))
    /\ UNCHANGED <<members, alive, inst, object, starts, semval, interrupted, queue, holding, killed>>

Sends(t) ==
    /\ t \in alive /\ pc[t].at = "send" /\ Valid(t, "MsgQueue")
    /\ Len(queue) < Capacity
    /\ queue' = Append(queue, pc[t].arg)
    /\ pc' = Pc(t, "idle", 0)
    /\ UNCHANGED <<members, alive, inst, object, starts, semval, interrupted, holding, killed>>

\* The places of the queue a read of a type may take: any message; those of
\* that type; those of the lowest type up to its absolute value.
Matches(mtype) ==
    LET upTo == {i \in DOMAIN queue : queue[i] <= -mtype}
    IN  CASE mtype = 0 -> DOMAIN queue
          [] mtype > 0 -> {i \in DOMAIN queue : queue[i] = mtype}
          [] mtype < 0 -> {i \in upTo : \A j \in upTo : queue[i] <= queue[j]}

\* The kernel takes the oldest of them.
First(s) == CHOOSE i \in s : \A j \in s : i <= j

Without(s, i) == SubSeq(s, 1, i - 1) \o SubSeq(s, i + 1, Len(s))

\* msgrcv waits for a message.
Read(t) ==
    /\ Ready(t) /\ Has(t, "MsgQueue")
    /\ \E m \in Reads : pc' = Pc(t, "receive", m)
    /\ UNCHANGED <<members, alive, inst, object, starts, semval, interrupted, queue, holding, killed>>

Receives(t) ==
    /\ t \in alive /\ pc[t].at = "receive" /\ Valid(t, "MsgQueue")
    /\ Matches(pc[t].arg) # {}
    /\ queue' = Without(queue, First(Matches(pc[t].arg)))
    /\ pc' = Pc(t, "idle", 0)
    /\ UNCHANGED <<members, alive, inst, object, starts, semval, interrupted, holding, killed>>

\* With IPC_NOWAIT it fails at once when no message matches.
ReadNow(t) ==
    /\ Ready(t) /\ Valid(t, "MsgQueue")
    /\ \E m \in Reads : /\ Matches(m) # {}
                       /\ queue' = Without(queue, First(Matches(m)))
    /\ UNCHANGED <<members, alive, pc, inst, object, starts, semval, interrupted, holding, killed>>

\* Both fail once the queue is removed: write returns -1, read a value that
\* was never written and an error in status.
MsgFails(t) ==
    /\ t \in alive /\ pc[t].at \in {"send", "receive"} /\ ~Valid(t, "MsgQueue")
    /\ pc' = Pc(t, "idle", 0)
    /\ UNCHANGED <<members, alive, inst, object, starts, semval, interrupted, queue, holding, killed>>

\* queue << msg is a write of type 1 and queue >> msg a read of type 0: these
\* throw, and a thread that does not catch it dies.
MsgThrows(t) ==
    /\ t \in alive /\ ~Valid(t, "MsgQueue")
    /\ pc[t] \in {[at |-> "send", arg |-> 1], [at |-> "receive", arg |-> 0]}
    /\ Dies(t)
    /\ UNCHANGED <<members, object, starts, semval, interrupted, queue>>
-----------------------------------------------------------------------------
Progress(t) ==
    \/ Downs(t) \/ DownFails(t)
    \/ Sends(t) \/ Receives(t) \/ MsgFails(t) \/ MsgThrows(t)
Server      == Create \/ Set \/ CreateThrows \/ DestroyMember

Next ==
    \/ Start \/ Leave \/ Server
    \/ \E c \in Threads : Fork(c) \/ Runs(c) \/ Exit(c)
    \/ \E c \in Threads, k \in Kinds : Connect(c, k) \/ Destroy(c, k)
    \/ \E t \in Threads :
          \/ Kill(t) \/ Progress(t)
          \/ Down(t) \/ Up(t)
          \/ Write(t) \/ Read(t) \/ ReadNow(t)

Spec == Init /\ [][Next]_vars
-----------------------------------------------------------------------------
\* Every variable has its type; the threads' operations belong to them.
TypeOK ==
    /\ members \in Programs
    /\ alive \subseteq Threads /\ holding \subseteq alive /\ killed \subseteq Threads
    /\ \A t \in Threads : pc[t].at # "idle" => t \in alive
    /\ inst \in [Threads -> [Kinds -> [id : 0 .. MaxStarts, creator : BOOLEAN, pid : Threads]]]
    /\ object \in [Kinds -> 0 .. MaxStarts]
    /\ starts \in 0 .. MaxStarts
    /\ interrupted \in 0 .. Signals /\ semval \in 0 .. 1 + interrupted
    /\ queue \in Seq(MsgTypes \ {0}) /\ Len(queue) <= Capacity

\* An object lives as long as its server. While the thread that created it has
\* its instance, nobody removes it, whatever copies of the instance die
\* elsewhere; and it outlives the server only if that did not end by itself.
ObjectsLiveWithServer ==
    /\ \A t \in Threads, k \in Kinds :
          inst[t][k].creator /\ inst[t][k].pid = t => Valid(t, k)
    /\ Main \notin alive /\ Main \notin killed => \A k \in Kinds : object[k] = 0

\* The threads between sem-- and sem++ on the semaphore under the key.
Holders == {t \in holding : Valid(t, "Sem")}

\* At most one thread is between sem-- and sem++, and there is nothing left to
\* take then, but for one more for every wait that a signal interrupted: who
\* goes on without the semaphore gives back what it never had. So it is in the
\* lives of the server after the first too, with threads that still have an
\* older semaphore and holders that were killed.
LockExcludes == Cardinality(Holders) + semval <= 1 + interrupted
=============================================================================
