------------------------------ MODULE IpcProofs ------------------------------
(***************************************************************************)
(* Proofs about the System V objects, for any threads, programs, message    *)
(* types, capacity and bounds.                                              *)
(***************************************************************************)
EXTENDS Ipc, TLAPS, WellFoundedInduction, FiniteSetTheorems, SequenceTheorems

ServerLabels == {"create", "set", "destroy"}
Labels       == ServerLabels \cup {"idle", "down", "send", "receive"}
Instances    == [id : 0 .. MaxStarts, creator : BOOLEAN, pid : Threads]

\* What a thread is in the middle of fits it.
PcOK ==
    /\ pc \in [Threads -> [at : Labels, arg : Int]]
    /\ \A t \in Threads :
          /\ pc[t].at \in ServerLabels =>
                 t = Main /\ pc[t].arg \in 1 .. Len(members) /\ t \notin holding
          /\ pc[t].at = "set" => members[pc[t].arg] = "Sem"
          /\ pc[t].at = "send" => pc[t].arg \in MsgTypes

\* The server has created the i-th object of its program, and not removed it.
Reached(i) ==
    /\ pc[Main].at = "create" => i < pc[Main].arg
    /\ pc[Main].at \in {"set", "destroy"} => i <= pc[Main].arg

\* An object whose creator was not killed is held by it.
Owned ==
    /\ \A t \in Threads, k \in Kinds :
          inst[t][k].creator => /\ inst[t][k].pid = Main
                                /\ t = Main => Valid(t, k)
    /\ \A k \in Kinds : object[k] # 0 /\ Main \notin killed =>
          /\ Main \in alive /\ inst[Main][k].creator /\ inst[Main][k].id = object[k]
          /\ \E i \in 1 .. Len(members) : members[i] = k /\ Reached(i)

\* The server will still create the i-th object.
Ahead(i) ==
    \/ pc[Main].at = "create" /\ i >= pc[Main].arg
    \/ pc[Main].at = "set" /\ i > pc[Main].arg

\* What is to be created in this life has an id nobody has.
Aged ==
    /\ Main \in alive => starts >= 1
    /\ \A k \in Kinds : object[k] <= starts /\ \A t \in Threads : inst[t][k].id <= starts
    /\ \A i \in 1 .. Len(members) : Ahead(i) =>
          /\ object[members[i]] < starts
          /\ \A t \in Threads : inst[t][members[i]].id < starts

\* Who is between sem-- and sem++ took the only unit there is or will be, but
\* for those whose wait was interrupted.
Taking ==
    /\ IsFiniteSet(holding)
    /\ \A t \in holding : Has(t, "Sem")
    /\ Cardinality(Holders) + semval <= 1 + interrupted
    /\ pc[Main].at = "set" => Cardinality(Holders) + semval <= interrupted

\* Who waits for a semaphore has one.
Waiting == \A t \in Threads : pc[t].at = "down" => Has(t, "Sem")

IInv == TypeOK /\ PcOK /\ Owned /\ Aged /\ Taking
-----------------------------------------------------------------------------
LEMMA ConstantsOK ==
    /\ MsgTypes \subseteq Int /\ 0 \notin MsgTypes
    /\ Main \in Threads
    /\ MaxStarts \in Nat /\ Signals \in Nat /\ Capacity \in Nat /\ Capacity >= 1
BY IpcAssumption DEF MsgTypes, TypeOf

\* The program of the server creates every kind at most once.
LEMMA MembersOK ==
    ASSUME members \in Programs
    PROVE  /\ members \in Seq(Kinds) /\ Len(members) \in Nat /\ Len(members) >= 1
           /\ \A i \in 1 .. Len(members) : members[i] \in Kinds
           /\ \A i, j \in 1 .. Len(members) : members[i] = members[j] => i = j
<1>1. members \in Seq(Kinds) /\ members # <<>>
  BY IpcAssumption
<1>2. \A i, j \in DOMAIN members : members[i] = members[j] => i = j
  BY IpcAssumption
<1> QED BY <1>1, <1>2

LEMMA InitIInv == Init => IInv
<1> SUFFICES ASSUME Init PROVE IInv
  OBVIOUS
<1> USE ConstantsOK
<1>1. TypeOK
  BY IpcAssumption DEF Init, TypeOK, None, Idle
<1>2. PcOK
  BY DEF Init, PcOK, Idle, Labels, ServerLabels
<1>3. Owned /\ Aged
  BY DEF Init, Owned, Aged, None, Idle, Ahead
<1>4. Taking
  <2>1. holding = {} /\ Holders = {}
    BY DEF Init, Holders
  <2>2. IsFiniteSet({}) /\ Cardinality({}) = 0
    BY FS_EmptySet
  <2> QED BY <2>1, <2>2 DEF Init, Taking
<1> QED BY <1>1, <1>2, <1>3, <1>4 DEF IInv

LEMMA PcChange ==
    ASSUME PcOK, NEW t \in Threads, NEW label \in Labels, NEW arg \in Int,
           pc' = Pc(t, label, arg)
    PROVE  /\ pc' \in [Threads -> [at : Labels, arg : Int]]
           /\ pc'[t].at = label /\ pc'[t].arg = arg
           /\ \A u \in Threads : u # t => pc'[u] = pc[u]
BY DEF PcOK, Pc

LEMMA InstChange ==
    ASSUME TypeOK, NEW t \in Threads, NEW k \in Kinds, NEW v \in Instances,
           inst' = [inst EXCEPT ![t][k] = v]
    PROVE  /\ inst' \in [Threads -> [Kinds -> Instances]]
           /\ inst'[t][k] = v
           /\ \A u \in Threads, j \in Kinds : u # t \/ j # k => inst'[u][j] = inst[u][j]
BY DEF TypeOK, Instances

LEMMA NoneOK == None \in Instances /\ None.id = 0 /\ None.creator = FALSE
BY ConstantsOK DEF None, Instances

LEMMA TypesOf ==
    ASSUME IInv
    PROVE  /\ starts \in Nat /\ members \in Programs
           /\ holding \subseteq Threads /\ semval \in Nat /\ interrupted \in Nat
           /\ "Sem" \in Kinds
           /\ inst \in [Threads -> [Kinds -> Instances]]
           /\ \A k \in Kinds : object[k] \in Nat
           /\ \A t \in Threads, k \in Kinds : inst[t][k].id \in Nat
BY ConstantsOK DEF IInv, TypeOK, Instances, Kinds

\* No new id appears, so the ids the server will use are still nobody's.
LEMMA AgedKept ==
    ASSUME IInv, UNCHANGED <<starts, members>>,
           Main \in alive' => Main \in alive,
           \A i \in 1 .. Len(members) : Ahead(i)' => Ahead(i),
           \A k \in Kinds : object'[k] = object[k] \/ object'[k] = 0,
           \A t \in Threads, k \in Kinds :
              \/ inst'[t][k].id = 0 \/ inst'[t][k].id = object[k]
              \/ \E u \in Threads : inst'[t][k].id = inst[u][k].id
    PROVE  Aged'
<1>1. \A k \in Kinds : object'[k] <= starts /\ \A t \in Threads : inst'[t][k].id <= starts
  BY TypesOf DEF IInv, Aged
<1>2. ASSUME NEW i \in 1 .. Len(members), Ahead(i)
      PROVE  /\ object'[members[i]] < starts
             /\ \A t \in Threads : inst'[t][members[i]].id < starts
  <2>1. Main \in alive
    BY <1>2, ConstantsOK DEF IInv, TypeOK, Ahead
  <2>2. starts >= 1 /\ members[i] \in Kinds
    BY <2>1, TypesOf, MembersOK DEF IInv, Aged
  <2>3. object[members[i]] < starts /\ \A t \in Threads : inst[t][members[i]].id < starts
    BY <1>2 DEF IInv, Aged
  <2> QED BY <2>2, <2>3, TypesOf
<1> QED BY <1>1, <1>2 DEF IInv, Aged

LEMMA Counted ==
    ASSUME IInv
    PROVE  IsFiniteSet(Holders) /\ Cardinality(Holders) \in Nat
<1>1. Holders \in SUBSET holding /\ IsFiniteSet(holding)
  BY DEF Holders, IInv, Taking
<1> QED BY <1>1, FS_Subset, FS_CardinalityType

\* Nobody begins to hold the semaphore, and no unit is added.
LEMMA TakingLess ==
    ASSUME IInv, holding' \subseteq holding, Holders' \subseteq Holders,
           semval' = semval, interrupted' = interrupted,
           pc'[Main].at = "set" => pc[Main].at = "set",
           \A u \in holding' : Has(u, "Sem")'
    PROVE  Taking'
<1>1. IsFiniteSet(holding')
  BY FS_Subset DEF IInv, Taking
<1>2. IsFiniteSet(Holders') /\ Cardinality(Holders') <= Cardinality(Holders)
  BY Counted, FS_Subset
<1>3. Cardinality(Holders') \in Nat /\ Cardinality(Holders) \in Nat
  BY <1>2, Counted, FS_CardinalityType
<1>4. semval \in Nat /\ interrupted \in Nat
  BY TypesOf
<1> QED BY <1>1, <1>2, <1>3, <1>4 DEF IInv, Taking

\* Nobody begins to hold the semaphore, and the holders keep theirs.
LEMMA TakingKept ==
    ASSUME IInv, UNCHANGED <<semval, interrupted, object>>, holding' \subseteq holding,
           pc'[Main].at = "set" => pc[Main].at = "set",
           \A u \in holding' : inst'[u]["Sem"] = inst[u]["Sem"]
    PROVE  Taking'
<1>1. \A u \in holding' : /\ u \in holding /\ Has(u, "Sem")'
                          /\ Valid(u, "Sem")' <=> Valid(u, "Sem")
  BY DEF IInv, Taking, Valid, Has
<1>2. Holders' \subseteq Holders
  BY <1>1 DEF Holders
<1> QED BY <1>1, <1>2, TakingLess

LEMMA Invariants == IInv => TypeOK /\ ObjectsLiveWithServer
<1> SUFFICES ASSUME IInv PROVE ObjectsLiveWithServer
  BY DEF IInv
<1>1. ASSUME NEW t \in Threads, NEW k \in Kinds, inst[t][k].creator, inst[t][k].pid = t
      PROVE  Valid(t, k)
  BY <1>1 DEF IInv, Owned
<1>2. Main \notin alive /\ Main \notin killed => \A k \in Kinds : object[k] = 0
  BY DEF IInv, Owned
<1> QED BY <1>1, <1>2 DEF ObjectsLiveWithServer
-----------------------------------------------------------------------------
\* A thread that is not creating or removing objects goes from one operation
\* to another.
LEMMA PcStep ==
    ASSUME IInv, NEW t \in alive, NEW label \in Labels \ ServerLabels, NEW arg \in Int,
           pc[t].at \notin ServerLabels,
           pc' = Pc(t, label, arg),
           label = "send" => arg \in MsgTypes,
           UNCHANGED <<members, alive, inst, object, starts, killed>>
    PROVE  /\ holding' \subseteq holding \cup {t} => PcOK'
           /\ Owned' /\ Aged'
           /\ pc'[Main].at = "set" => pc[Main].at = "set" /\ t # Main
           /\ \A u \in Threads : pc'[u].at # "idle" => u \in alive'
<1>1. t \in Threads /\ Main \in Threads
  BY ConstantsOK DEF IInv, TypeOK
<1>2. /\ pc' \in [Threads -> [at : Labels, arg : Int]]
      /\ pc'[t].at = label /\ pc'[t].arg = arg
      /\ \A u \in Threads : u # t => pc'[u] = pc[u]
  BY <1>1, PcChange DEF IInv
<1>3. ASSUME holding' \subseteq holding \cup {t} PROVE PcOK'
  <2>1. members' = members /\ label \notin ServerLabels
    OBVIOUS
  <2>2. ASSUME NEW u \in Threads
        PROVE  /\ pc'[u].at \in ServerLabels =>
                     u = Main /\ pc'[u].arg \in 1 .. Len(members) /\ u \notin holding'
               /\ pc'[u].at = "set" => members[pc'[u].arg] = "Sem"
               /\ pc'[u].at = "send" => pc'[u].arg \in MsgTypes
    <3>1. CASE u = t
      BY <1>2, <2>1, <3>1 DEF ServerLabels
    <3>2. CASE u # t
      BY <1>2, <1>3, <3>2 DEF IInv, PcOK
    <3> QED BY <3>1, <3>2
  <2> QED BY <1>2, <2>1, <2>2 DEF PcOK
<1>4. \A i : Ahead(i)' => Ahead(i)
  BY <1>1, <1>2 DEF Ahead, ServerLabels
<1>5. \A i : Reached(i) => Reached(i)'
  BY <1>1, <1>2 DEF Reached, ServerLabels
<1>6. Owned'
  BY <1>5 DEF IInv, Owned, Valid, Has
<1>7. Aged'
  BY <1>4 DEF IInv, Aged
<1>8. \A u \in Threads : pc'[u].at # "idle" => u \in alive'
  BY <1>1, <1>2 DEF IInv, TypeOK
<1>9. pc'[Main].at = "set" => pc[Main].at = "set" /\ t # Main
  BY <1>1, <1>2 DEF ServerLabels
<1> QED BY <1>3, <1>6, <1>7, <1>8, <1>9

\* Such a step that takes nothing and sends nothing.
LEMMA QuietStep ==
    ASSUME IInv, NEW t \in alive, NEW label \in Labels \ ServerLabels, NEW arg \in Int,
           pc[t].at \notin ServerLabels,
           pc' = Pc(t, label, arg),
           label = "send" => arg \in MsgTypes,
           UNCHANGED <<members, alive, inst, object, starts, killed>>,
           UNCHANGED <<semval, interrupted, holding, queue>>
    PROVE  IInv'
<1>1. /\ PcOK' /\ Owned' /\ Aged'
      /\ pc'[Main].at = "set" => pc[Main].at = "set" /\ t # Main
      /\ \A u \in Threads : pc'[u].at # "idle" => u \in alive'
  BY PcStep
<1>2. TypeOK'
  BY <1>1 DEF IInv, TypeOK
<1>3. Taking'
  BY <1>1, TakingKept
<1> QED BY <1>1, <1>2, <1>3 DEF IInv

LEMMA ReadyOK ==
    ASSUME IInv, NEW t \in Threads, Ready(t)
    PROVE  t \in alive /\ pc[t].at \notin ServerLabels
BY DEF Ready, ServerLabels

\* Waiting for the semaphore or the queue.
LEMMA QuietIInv ==
    ASSUME IInv, NEW t \in Threads,
           Down(t) \/ Write(t) \/ Read(t) \/ MsgFails(t)
    PROVE  IInv'
<1> USE ConstantsOK
<1>0. \A m \in Types : TypeOf(m) \in MsgTypes
  BY DEF MsgTypes
<1>1. CASE Down(t)
  <2>1. pc' = Pc(t, "down", 0)
    BY <1>1 DEF Down
  <2> QED BY <1>1, <2>1, ReadyOK, QuietStep DEF Down, Labels, ServerLabels
<1>2. CASE Write(t)
  <2>1. PICK m \in Types : pc' = Pc(t, "send", TypeOf(m))
    BY <1>2 DEF Write
  <2>2. TypeOf(m) \in MsgTypes /\ TypeOf(m) \in Int
    BY <1>0
  <2> QED BY <1>2, <2>1, <2>2, ReadyOK, QuietStep DEF Write, Labels, ServerLabels
<1>3. CASE Read(t)
  <2>1. PICK m \in Reads : pc' = Pc(t, "receive", m)
    BY <1>3 DEF Read
  <2>2. m \in Int
    BY IpcAssumption
  <2> QED BY <1>3, <2>1, <2>2, ReadyOK, QuietStep DEF Read, Labels, ServerLabels
<1>4. CASE MsgFails(t)
  <2>1. t \in alive /\ pc[t].at \notin ServerLabels /\ pc' = Pc(t, "idle", 0)
    BY <1>4 DEF MsgFails, ServerLabels
  <2> QED BY <1>4, <2>1, QuietStep DEF MsgFails, Labels, ServerLabels
<1> QED BY <1>1, <1>2, <1>3, <1>4

\* One more thread may hold the semaphore.
LEMMA Joined ==
    ASSUME IInv, NEW t \in Threads, holding' = holding \cup {t},
           UNCHANGED <<inst, object>>
    PROVE  /\ IsFiniteSet(holding') /\ Cardinality(Holders) \in Nat
           /\ Cardinality(Holders') \in Nat
           /\ Cardinality(Holders') <= Cardinality(Holders) + 1
           /\ ~Valid(t, "Sem") => Holders' = Holders
<1>1. \A u \in Threads : Valid(u, "Sem")' <=> Valid(u, "Sem")
  BY DEF Valid, Has
<1>2. /\ Valid(t, "Sem") => Holders' = Holders \cup {t}
      /\ ~Valid(t, "Sem") => Holders' = Holders
  BY <1>1, TypesOf DEF Holders
<1>3. IsFiniteSet(holding')
  BY FS_AddElement DEF IInv, Taking
<1>4. IsFiniteSet(Holders) /\ Cardinality(Holders) \in Nat
  BY Counted
<1>5. /\ Cardinality(Holders \cup {t}) \in Nat
      /\ Cardinality(Holders \cup {t}) <= Cardinality(Holders) + 1
  <2>1. Cardinality(Holders \cup {t}) =
           IF t \in Holders THEN Cardinality(Holders) ELSE Cardinality(Holders) + 1
    BY <1>4, FS_AddElement
  <2> QED BY <1>4, <2>1
<1> QED BY <1>2, <1>3, <1>4, <1>5

\* sem-- and sem++: whoever gets the unit is alone with it, and so is whoever
\* goes on without it, but for one that is counted.
LEMMA SemIInv ==
    ASSUME IInv, Waiting, NEW t \in Threads, Downs(t) \/ DownFails(t) \/ Up(t)
    PROVE  IInv'
<1> USE ConstantsOK
<1>0. semval \in Nat /\ interrupted \in Nat
  BY TypesOf
<1>1. CASE Downs(t) \/ DownFails(t)
  <2>1. UNCHANGED <<members, alive, inst, object, starts, queue, killed>>
    BY <1>1 DEF Downs, DownFails
  <2>2. t \in alive /\ pc[t].at \notin ServerLabels /\ pc' = Pc(t, "idle", 0)
    BY <1>1 DEF Downs, DownFails, ServerLabels
  <2>3. holding' = holding \cup {t} /\ inst[t]["Sem"].id # 0
    <3>1. CASE Downs(t)
      BY <3>1 DEF Downs, Valid, Has
    <3>2. CASE DownFails(t)
      BY <3>2 DEF DownFails, Waiting, Has
    <3> QED BY <1>1, <3>1, <3>2
  <2>4. /\ PcOK' /\ Owned' /\ Aged'
        /\ pc'[Main].at = "set" => pc[Main].at = "set" /\ t # Main
        /\ \A u \in Threads : pc'[u].at # "idle" => u \in alive'
    BY <2>1, <2>2, <2>3, PcStep DEF Labels, ServerLabels
  <2>5. /\ IsFiniteSet(holding') /\ Cardinality(Holders) \in Nat
        /\ Cardinality(Holders') \in Nat
        /\ Cardinality(Holders') <= Cardinality(Holders) + 1
        /\ ~Valid(t, "Sem") => Holders' = Holders
    BY <2>1, <2>3, Joined
  <2>6. \/ semval >= 1 /\ semval' = semval - 1 /\ interrupted' = interrupted
        \/ ~Valid(t, "Sem") /\ semval' = semval /\ interrupted' = interrupted
        \/ semval' = semval /\ interrupted' = interrupted + 1 /\ interrupted < Signals
    BY <1>1 DEF Downs, DownFails
  <2>7. \A u \in holding' : Has(u, "Sem")'
    BY <2>1, <2>3 DEF IInv, Taking, Has
  <2>8. Taking'
    <3>1. /\ Cardinality(Holders) + semval <= 1 + interrupted
          /\ pc[Main].at = "set" => Cardinality(Holders) + semval <= interrupted
      BY DEF IInv, Taking
    <3>2. Cardinality(Holders') + semval' <= 1 + interrupted'
      BY <1>0, <2>5, <2>6, <3>1
    <3>3. pc[Main].at = "set" => Cardinality(Holders') + semval' <= interrupted'
      BY <1>0, <2>5, <2>6, <3>1
    <3> QED BY <2>4, <2>5, <2>7, <3>2, <3>3 DEF Taking
  <2>9. TypeOK'
    <3>1. interrupted' \in 0 .. Signals
      BY <2>6 DEF IInv, TypeOK
    <3>2. semval' \in 0 .. 1 + interrupted'
      BY <1>0, <2>6 DEF IInv, TypeOK
    <3> QED BY <2>1, <2>2, <2>3, <2>4, <3>1, <3>2 DEF IInv, TypeOK
  <2> QED BY <2>4, <2>8, <2>9 DEF IInv
<1>2. CASE Up(t)
  <2>1. UNCHANGED <<members, alive, pc, inst, object, starts, interrupted, queue, killed>>
    BY <1>2 DEF Up
  <2>2. t \in holding /\ holding' = holding \ {t} /\ holding' \subseteq holding
    BY <1>2 DEF Up
  <2>3. \A u \in holding : Has(u, "Sem")' /\ (Valid(u, "Sem")' <=> Valid(u, "Sem"))
    BY <2>1, <2>2 DEF IInv, Taking, Valid, Has
  <2>4. PcOK' /\ Aged'
    BY <2>1, <2>2 DEF IInv, PcOK, Aged, Ahead
  <2>5. Owned'
    BY <2>1 DEF IInv, Owned, Valid, Has, Reached
  <2>6. CASE ~Valid(t, "Sem")
    <3>1. semval' = semval
      BY <1>2, <2>6 DEF Up
    <3>2. Taking'
      BY <2>1, <2>2, <3>1, TakingKept
    <3>3. TypeOK'
      BY <2>1, <2>2, <3>1 DEF IInv, TypeOK
    <3> QED BY <2>4, <2>5, <3>2, <3>3 DEF IInv
  <2>7. CASE Valid(t, "Sem")
    <3>1. semval' = semval + 1
      BY <1>2, <2>7 DEF Up
    <3>2. t \in Holders /\ Holders' = Holders \ {t}
      BY <2>2, <2>3, <2>7 DEF Holders
    <3>3. Cardinality(Holders') = Cardinality(Holders) - 1 /\ Cardinality(Holders) \in Nat
          /\ Cardinality(Holders) >= 1
      <4>1. IsFiniteSet(Holders) /\ IsFiniteSet(Holders') /\ Cardinality(Holders) \in Nat
        BY <3>2, Counted, FS_RemoveElement
      <4>2. Cardinality(Holders') \in Nat
        BY <4>1, FS_CardinalityType
      <4>3. Cardinality(Holders') = Cardinality(Holders) - 1
        BY <3>2, <4>1, FS_RemoveElement
      <4> QED BY <4>1, <4>2, <4>3
    <3>4. IsFiniteSet(holding')
      BY <2>2, FS_RemoveElement DEF IInv, Taking
    <3>5. /\ Cardinality(Holders) + semval <= 1 + interrupted
          /\ pc[Main].at = "set" => Cardinality(Holders) + semval <= interrupted
      BY DEF IInv, Taking
    <3>6. Taking'
      BY <1>0, <2>1, <2>2, <2>3, <3>1, <3>3, <3>4, <3>5 DEF Taking
    <3>7. semval' \in 0 .. 1 + interrupted'
      BY <1>0, <2>1, <3>1, <3>3, <3>5
    <3>8. TypeOK'
      BY <2>1, <2>2, <3>7 DEF IInv, TypeOK
    <3> QED BY <2>4, <2>5, <3>6, <3>8 DEF IInv
  <2> QED BY <2>6, <2>7
<1> QED BY <1>1, <1>2
-----------------------------------------------------------------------------
\* A thread that dies leaves no instances and no objects of its own; if it is
\* the server, its objects stay.
LEMMA DiesIInv ==
    ASSUME IInv, NEW t \in alive, Dies(t),
           UNCHANGED <<members, object, starts, semval, interrupted, queue>>
    PROVE  IInv'
<1> USE ConstantsOK
<1>1. /\ t \in Threads /\ UNCHANGED <<members, object, starts, semval, interrupted, queue>>
      /\ killed' = killed \cup {t} /\ alive' = alive \ {t} /\ holding' = holding \ {t}
      /\ pc' = Pc(t, "idle", 0)
  BY DEF Dies, IInv, TypeOK
<1>2. /\ pc' \in [Threads -> [at : Labels, arg : Int]]
      /\ pc'[t].at = "idle" /\ pc'[t].arg = 0
      /\ \A u \in Threads : u # t => pc'[u] = pc[u]
  BY <1>1, PcChange DEF IInv, Labels
<1>3. /\ inst' \in [Threads -> [Kinds -> Instances]]
      /\ \A k \in Kinds : inst'[t][k] = None
      /\ \A u \in Threads : u # t => inst'[u] = inst[u]
  BY <1>1, NoneOK DEF Dies, IInv, TypeOK, Instances
<1>4. TypeOK'
  BY <1>1, <1>2, <1>3 DEF IInv, TypeOK, Instances
<1>5. PcOK'
  BY <1>1, <1>2 DEF IInv, PcOK, ServerLabels
<1>6. Owned'
  <2>1. ASSUME NEW u \in Threads, NEW k \in Kinds, inst'[u][k].creator
        PROVE  inst'[u][k].pid = Main /\ (u = Main => Valid(u, k)')
    <3>1. u # t
      BY <1>3, <2>1, NoneOK
    <3> QED BY <1>1, <1>3, <2>1, <3>1 DEF IInv, Owned, Valid, Has
  <2>2. ASSUME NEW k \in Kinds, object'[k] # 0, Main \notin killed'
        PROVE  /\ Main \in alive' /\ inst'[Main][k].creator /\ inst'[Main][k].id = object'[k]
               /\ \E i \in 1 .. Len(members) : members[i] = k /\ Reached(i)'
    <3>1. t # Main
      BY <1>1, <2>2
    <3>2. \A i : Reached(i)' <=> Reached(i)
      BY <1>2, <3>1 DEF Reached
    <3> QED BY <1>1, <1>3, <2>2, <3>1, <3>2 DEF IInv, Owned
  <2> QED BY <1>1, <2>1, <2>2 DEF Owned
<1>7. Aged'
  <2>1. \A i : Ahead(i)' => Ahead(i)
    BY <1>2 DEF Ahead
  <2>2. \A u \in Threads, k \in Kinds : inst'[u][k].id = 0 \/ inst'[u][k].id = inst[u][k].id
    BY <1>3, NoneOK
  <2> QED BY <1>1, <2>1, <2>2, AgedKept
<1>8. Taking'
  <2>1. \A u \in holding' : inst'[u]["Sem"] = inst[u]["Sem"]
    BY <1>1, <1>3, TypesOf
  <2> QED BY <1>1, <1>2, <2>1, TakingKept
<1> QED BY <1>4, <1>5, <1>6, <1>7, <1>8 DEF IInv

\* Children and other programs come, connect and go: they are not creators in
\* their own eyes, so they remove nothing.
LEMMA OthersIInv ==
    ASSUME IInv, NEW c \in Threads, NEW k \in Kinds,
           Fork(c) \/ Runs(c) \/ Exit(c) \/ Connect(c, k) \/ Destroy(c, k)
    PROVE  IInv'
<1> USE ConstantsOK
<1>1. CASE Fork(c)
  <2>1. /\ UNCHANGED <<members, pc, object, starts, semval, interrupted, queue, holding, killed>>
        /\ alive' = alive \cup {c} /\ c \notin alive /\ c # Main /\ c \notin holding
        /\ pc[Main].at = "idle"
    BY <1>1 DEF Fork, Ready, IInv, TypeOK
  <2>2. /\ inst' \in [Threads -> [Kinds -> Instances]] /\ inst'[c] = inst[Main]
        /\ \A u \in Threads : u # c => inst'[u] = inst[u]
    BY <1>1 DEF Fork, IInv, TypeOK, Instances
  <2>3. TypeOK'
    BY <2>1, <2>2 DEF IInv, TypeOK, Instances
  <2>4. PcOK'
    BY <2>1 DEF IInv, PcOK
  <2>5. Owned'
    BY <2>1, <2>2 DEF IInv, Owned, Valid, Has, Reached
  <2>6. Aged'
    BY <2>1, <2>2 DEF IInv, Aged, Ahead
  <2>7. Taking'
    BY <2>1, <2>2, TakingKept, TypesOf
  <2> QED BY <2>3, <2>4, <2>5, <2>6, <2>7 DEF IInv
<1>2. CASE Runs(c)
  <2>1. /\ UNCHANGED <<members, pc, inst, object, starts, semval, interrupted, queue, holding, killed>>
        /\ alive' = alive \cup {c} /\ c # Main
    BY <1>2 DEF Runs
  <2>2. TypeOK'
    BY <2>1 DEF IInv, TypeOK
  <2>3. PcOK' /\ Owned' /\ Aged'
    BY <2>1 DEF IInv, PcOK, Owned, Aged, Valid, Has, Reached, Ahead
  <2>4. Taking'
    BY <2>1, TakingKept
  <2> QED BY <2>2, <2>3, <2>4 DEF IInv
<1>3. CASE Exit(c)
  <2>1. /\ UNCHANGED <<members, pc, object, starts, semval, interrupted, queue, holding, killed>>
        /\ alive' = alive \ {c} /\ c # Main /\ c \notin holding /\ pc[c].at = "idle"
    BY <1>3 DEF Exit, Ready
  <2>2. /\ inst' \in [Threads -> [Kinds -> Instances]] /\ \A j \in Kinds : inst'[c][j] = None
        /\ \A u \in Threads : u # c => inst'[u] = inst[u]
    BY <1>3, NoneOK DEF Exit, IInv, TypeOK, Instances
  <2>3. TypeOK'
    BY <2>1, <2>2 DEF IInv, TypeOK, Instances
  <2>4. PcOK'
    BY <2>1 DEF IInv, PcOK
  <2>5. Owned'
    BY <2>1, <2>2, NoneOK DEF IInv, Owned, Valid, Has, Reached
  <2>6. Aged'
    <3>1. \A u \in Threads, j \in Kinds : inst'[u][j].id = 0 \/ inst'[u][j].id = inst[u][j].id
      BY <2>2, NoneOK
    <3> QED BY <2>1, <3>1, AgedKept DEF Ahead
  <2>7. Taking'
    BY <2>1, <2>2, TakingKept, TypesOf
  <2> QED BY <2>3, <2>4, <2>5, <2>6, <2>7 DEF IInv
<1>4. CASE Connect(c, k)
  <2> DEFINE new == [id |-> object[k], creator |-> FALSE, pid |-> c]
  <2>1. /\ UNCHANGED <<members, alive, pc, object, starts, semval, interrupted, queue, holding, killed>>
        /\ c # Main /\ ~Has(c, k)
    BY <1>4 DEF Connect
  <2>2. new \in Instances /\ inst' = [inst EXCEPT ![c][k] = new]
    BY <1>4 DEF Connect, Instances, IInv, TypeOK
  <2>3. /\ inst' \in [Threads -> [Kinds -> Instances]]
        /\ inst'[c][k].id = object[k] /\ ~inst'[c][k].creator
        /\ \A u \in Threads, j \in Kinds : u # c \/ j # k => inst'[u][j] = inst[u][j]
    <3> HIDE DEF new
    <3>1. /\ inst' \in [Threads -> [Kinds -> Instances]] /\ inst'[c][k] = new
          /\ \A u \in Threads, j \in Kinds : u # c \/ j # k => inst'[u][j] = inst[u][j]
      BY <2>2, TypesOf
    <3>2. new.id = object[k] /\ ~new.creator
      BY DEF new
    <3> QED BY <3>1, <3>2
  <2>4. TypeOK'
    BY <2>1, <2>3 DEF IInv, TypeOK, Instances
  <2>5. PcOK'
    BY <2>1 DEF IInv, PcOK
  <2>6. Owned'
    BY <2>1, <2>3 DEF IInv, Owned, Valid, Has, Reached
  <2>7. Aged'
    <3>1. \A u \in Threads, j \in Kinds :
             inst'[u][j].id = object[j] \/ inst'[u][j].id = inst[u][j].id
      BY <2>3
    <3> QED BY <2>1, <3>1, AgedKept DEF Ahead
  <2>8. Taking'
    <3>1. \A u \in holding : u # c \/ k # "Sem"
      BY <2>1 DEF IInv, Taking
    <3>2. \A u \in holding : inst'[u]["Sem"] = inst[u]["Sem"]
      BY <2>3, <3>1, TypesOf
    <3> QED BY <2>1, <3>2, TakingKept
  <2> QED BY <2>4, <2>5, <2>6, <2>7, <2>8 DEF IInv
<1>5. CASE Destroy(c, k)
  <2>1. /\ UNCHANGED <<members, alive, pc, starts, semval, interrupted, queue, holding, killed>>
        /\ c # Main /\ c \notin holding
    BY <1>5 DEF Destroy
  <2>2. object' = object
    BY <1>5, <2>1 DEF Destroy, Destroys, Removes, IInv, Owned
  <2>3. /\ inst' \in [Threads -> [Kinds -> Instances]]
        /\ inst'[c][k] = None
        /\ \A u \in Threads, j \in Kinds : u # c \/ j # k => inst'[u][j] = inst[u][j]
    <3>1. inst' = [inst EXCEPT ![c][k] = None]
      BY <1>5 DEF Destroy, Destroys
    <3> QED BY <3>1, NoneOK, TypesOf
  <2>4. TypeOK'
    BY <2>1, <2>2, <2>3 DEF IInv, TypeOK, Instances
  <2>5. PcOK'
    BY <2>1 DEF IInv, PcOK
  <2>6. Owned'
    BY <2>1, <2>2, <2>3, NoneOK DEF IInv, Owned, Valid, Has, Reached
  <2>7. Aged'
    <3>1. \A u \in Threads, j \in Kinds : inst'[u][j].id = 0 \/ inst'[u][j].id = inst[u][j].id
      BY <2>3, NoneOK
    <3> QED BY <2>1, <2>2, <3>1, AgedKept DEF Ahead
  <2>8. Taking'
    <3>1. \A u \in holding : inst'[u]["Sem"] = inst[u]["Sem"]
      BY <2>1, <2>3, TypesOf
    <3> QED BY <2>1, <2>2, <3>1, TakingKept
  <2> QED BY <2>4, <2>5, <2>6, <2>7, <2>8 DEF IInv
<1> QED BY <1>1, <1>2, <1>3, <1>4, <1>5
-----------------------------------------------------------------------------
\* The server starts, and creates its objects one after the other.
LEMMA StartIInv ==
    ASSUME IInv, Start
    PROVE  IInv'
<1> USE ConstantsOK
<1>1. /\ UNCHANGED <<members, inst, object, semval, interrupted, queue, holding, killed>>
      /\ alive' = alive \cup {Main} /\ Main \notin alive /\ Main \notin holding
      /\ starts' = starts + 1 /\ starts < MaxStarts
      /\ pc' = Pc(Main, "create", 1)
  BY DEF Start, IInv, TypeOK
<1>2. /\ pc' \in [Threads -> [at : Labels, arg : Int]]
      /\ pc'[Main].at = "create" /\ pc'[Main].arg = 1
      /\ \A u \in Threads : u # Main => pc'[u] = pc[u]
  BY <1>1, PcChange DEF IInv, Labels, ServerLabels
<1>3. TypeOK'
  BY <1>1, <1>2 DEF IInv, TypeOK
<1>4. PcOK'
  <2>1. 1 \in 1 .. Len(members)
    BY TypesOf, MembersOK
  <2> QED BY <1>1, <1>2, <2>1 DEF IInv, PcOK
<1>5. Owned'
  BY <1>1 DEF IInv, Owned, Valid, Has
<1>6. Aged'
  <2>1. \A k \in Kinds : object[k] < starts' /\ \A t \in Threads : inst[t][k].id < starts'
    BY <1>1, TypesOf DEF IInv, Aged
  <2>2. starts' >= 1
    BY <1>1, TypesOf
  <2> QED BY <1>1, <2>1, <2>2, TypesOf, MembersOK DEF Aged
<1>7. Taking'
  BY <1>1, <1>2, TakingKept
<1> QED BY <1>3, <1>4, <1>5, <1>6, <1>7 DEF IInv

\* Where the server goes from its i-th object.
LEMMA CreatedOK ==
    ASSUME IInv, Main \notin holding, NEW i \in 1 .. Len(members), pc' = Created(i),
           Main \in alive, UNCHANGED <<members, holding, alive>>
    PROVE  /\ PcOK'
           /\ \A t \in Threads : pc'[t].at # "idle" => t \in alive
           /\ pc'[Main].at # "set"
           /\ \A j \in 1 .. Len(members) : (Ahead(j)' => j > i) /\ (j <= i => Reached(j)')
<1> USE ConstantsOK
<1>1. Len(members) \in Nat
  BY TypesOf, MembersOK
<1>2. CASE i = Len(members)
  <2>1. /\ pc' \in [Threads -> [at : Labels, arg : Int]]
        /\ pc'[Main].at = "idle"
        /\ \A u \in Threads : u # Main => pc'[u] = pc[u]
    <3>1. pc' = Pc(Main, "idle", 0)
      BY <1>2 DEF Created
    <3>2. PcOK /\ "idle" \in Labels /\ 0 \in Int
      BY DEF IInv, Labels
    <3> QED BY <3>1, <3>2, PcChange
  <2>2. PcOK'
    BY <2>1 DEF IInv, PcOK, ServerLabels
  <2> QED BY <2>1, <2>2 DEF IInv, TypeOK, Ahead, Reached
<1>3. CASE i # Len(members)
  <2>0. i + 1 \in 1 .. Len(members) /\ i + 1 \in Int
    BY <1>1, <1>3
  <2>1. /\ pc' \in [Threads -> [at : Labels, arg : Int]]
        /\ pc'[Main].at = "create" /\ pc'[Main].arg = i + 1
        /\ \A u \in Threads : u # Main => pc'[u] = pc[u]
    BY <1>3, <2>0, PcChange DEF IInv, Created, Labels, ServerLabels
  <2>2. PcOK'
    BY <2>0, <2>1 DEF IInv, PcOK
  <2>3. \A t \in Threads : pc'[t].at # "idle" => t \in alive
    BY <2>1 DEF IInv, TypeOK
  <2>4. ASSUME NEW j \in 1 .. Len(members)
        PROVE  (Ahead(j)' => j > i) /\ (j <= i => Reached(j)')
    BY <1>1, <2>1 DEF Ahead, Reached
  <2> QED BY <2>1, <2>2, <2>3, <2>4
<1> QED BY <1>2, <1>3

LEMMA CreateIInv ==
    ASSUME IInv, Create
    PROVE  IInv'
<1> USE ConstantsOK
<1> DEFINE i == pc[Main].arg
           k == members[i]
           new == [id |-> starts, creator |-> TRUE, pid |-> Main]
<1>1. /\ Main \in alive /\ pc[Main].at = "create" /\ object[k] = 0
      /\ object' = [object EXCEPT ![k] = starts]
      /\ inst' = [inst EXCEPT ![Main][k] = new]
      /\ pc' = IF k = "Sem" THEN Pc(Main, "set", i) ELSE Created(i)
      /\ IF k = "Sem" THEN semval' = 0 /\ interrupted' = 0
                      ELSE UNCHANGED <<semval, interrupted>>
      /\ queue' = IF k = "MsgQueue" THEN <<>> ELSE queue
      /\ UNCHANGED <<members, alive, starts, holding, killed>>
  BY DEF Create, Exists
<1>2. Main \notin holding /\ i \in 1 .. Len(members) /\ k \in Kinds
  BY <1>1, TypesOf, MembersOK DEF IInv, PcOK, ServerLabels
<1>3. starts >= 1 /\ starts \in 0 .. MaxStarts /\ new \in Instances
  BY <1>1 DEF IInv, Aged, TypeOK, Instances
<1>4. /\ object' \in [Kinds -> 0 .. MaxStarts] /\ object'[k] = starts
      /\ \A j \in Kinds : j # k => object'[j] = object[j]
  BY <1>1, <1>2, <1>3 DEF IInv, TypeOK
<1>5. /\ inst' \in [Threads -> [Kinds -> Instances]]
      /\ inst'[Main][k].id = starts /\ inst'[Main][k].creator /\ inst'[Main][k].pid = Main
      /\ \A u \in Threads, j \in Kinds : u # Main \/ j # k => inst'[u][j] = inst[u][j]
  <2> HIDE DEF new, k
  <2>1. /\ inst' \in [Threads -> [Kinds -> Instances]] /\ inst'[Main][k] = new
        /\ \A u \in Threads, j \in Kinds : u # Main \/ j # k => inst'[u][j] = inst[u][j]
    BY <1>1, <1>2, <1>3, TypesOf
  <2>2. new.id = starts /\ new.creator /\ new.pid = Main
    BY DEF new
  <2> QED BY <2>1, <2>2
<1>6. /\ PcOK'
      /\ \A t \in Threads : pc'[t].at # "idle" => t \in alive
      /\ pc'[Main].at = "set" => k = "Sem"
      /\ \A j \in 1 .. Len(members) : (Ahead(j)' => j > i) /\ (j <= i => Reached(j)')
  <2>1. CASE k # "Sem"
    <3>1. pc' = Created(i)
      BY <1>1, <2>1
    <3> HIDE DEF i
    <3> QED BY <1>1, <1>2, <3>1, CreatedOK
  <2>2. CASE k = "Sem"
    <3>1. /\ pc' \in [Threads -> [at : Labels, arg : Int]]
          /\ pc'[Main].at = "set" /\ pc'[Main].arg = i
          /\ \A u \in Threads : u # Main => pc'[u] = pc[u]
      BY <1>1, <1>2, <2>2, PcChange DEF IInv, Labels, ServerLabels
    <3>2. PcOK'
      BY <1>1, <1>2, <2>2, <3>1 DEF IInv, PcOK
    <3> QED BY <1>1, <1>2, <2>2, <3>1, <3>2 DEF IInv, TypeOK, Ahead, Reached
  <2> QED BY <2>1, <2>2
<1>8. TypeOK'
  <2>1. queue' \in Seq(MsgTypes \ {0}) /\ Len(queue') <= Capacity
    <3>1. CASE queue' = <<>>
      BY <3>1
    <3>2. CASE queue' = queue
      BY <3>2 DEF IInv, TypeOK
    <3> QED BY <1>1, <3>1, <3>2
  <2>2. interrupted' \in 0 .. Signals /\ semval' \in 0 .. 1 + interrupted'
    BY <1>1 DEF IInv, TypeOK
  <2> QED BY <1>1, <1>4, <1>5, <1>6, <2>1, <2>2 DEF IInv, TypeOK, Instances
<1>9. Owned'
  <2>1. ASSUME NEW t \in Threads, NEW j \in Kinds, inst'[t][j].creator
        PROVE  inst'[t][j].pid = Main /\ (t = Main => Valid(t, j)')
    <3>1. CASE t = Main /\ j = k
      BY <1>3, <1>4, <1>5, <3>1 DEF Valid, Has
    <3>2. CASE t = Main /\ j # k
      BY <1>4, <1>5, <2>1, <3>2 DEF IInv, Owned, Valid, Has
    <3>3. CASE t # Main
      BY <1>5, <2>1, <3>3 DEF IInv, Owned
    <3> QED BY <3>1, <3>2, <3>3
  <2>2. ASSUME NEW j \in Kinds, object'[j] # 0, Main \notin killed
        PROVE  /\ Main \in alive /\ inst'[Main][j].creator /\ inst'[Main][j].id = object'[j]
               /\ \E n \in 1 .. Len(members) : members[n] = j /\ Reached(n)'
    <3>1. CASE j = k
      BY <1>1, <1>2, <1>4, <1>5, <1>6, <3>1
    <3>2. CASE j # k
      <4>1. PICK n \in 1 .. Len(members) : members[n] = j /\ Reached(n)
        BY <1>4, <2>2, <3>2 DEF IInv, Owned
      <4>2. n < i
        BY <1>1, <4>1 DEF Reached
      <4> QED BY <1>1, <1>2, <1>4, <1>5, <1>6, <2>2, <3>2, <4>1, <4>2 DEF IInv, Owned
    <3> QED BY <3>1, <3>2
  <2> QED BY <1>1, <2>1, <2>2 DEF Owned
<1>10. Aged'
  <2>1. \A j \in Kinds : object'[j] <= starts /\ \A t \in Threads : inst'[t][j].id <= starts
    <3>1. ASSUME NEW j \in Kinds PROVE object'[j] <= starts
      BY <1>3, <1>4, TypesOf DEF IInv, Aged
    <3>2. ASSUME NEW j \in Kinds, NEW t \in Threads PROVE inst'[t][j].id <= starts
      BY <1>3, <1>5, TypesOf DEF IInv, Aged
    <3> QED BY <3>1, <3>2
  <2>2. ASSUME NEW n \in 1 .. Len(members), Ahead(n)'
        PROVE  object'[members[n]] < starts /\ \A t \in Threads : inst'[t][members[n]].id < starts
    <3>1. n > i /\ Ahead(n)
      BY <1>1, <1>2, <1>6, <2>2 DEF Ahead
    <3>2. members[n] # k /\ members[n] \in Kinds
      BY <1>2, <3>1, TypesOf, MembersOK
    <3> QED BY <1>4, <1>5, <3>1, <3>2 DEF IInv, Aged
  <2> QED BY <1>1, <1>3, <2>1, <2>2 DEF Aged
<1>11. Taking'
  <2>1. CASE k # "Sem"
    <3>1. UNCHANGED <<semval, interrupted>> /\ object'["Sem"] = object["Sem"]
          /\ pc'[Main].at # "set"
      BY <1>1, <1>4, <1>6, <2>1, TypesOf
    <3>2. \A u \in holding : inst'[u]["Sem"] = inst[u]["Sem"]
      BY <1>5, <2>1, TypesOf
    <3>3. \A u \in holding : Has(u, "Sem")' /\ (Valid(u, "Sem")' <=> Valid(u, "Sem"))
      BY <3>1, <3>2 DEF IInv, Taking, Has, Valid
    <3>4. Holders' \subseteq Holders
      BY <1>1, <3>3 DEF Holders
    <3> QED BY <1>1, <3>1, <3>3, <3>4, TakingLess
  <2>2. CASE k = "Sem"
    <3>1. \A u \in holding : inst'[u]["Sem"] = inst[u]["Sem"] /\ inst[u]["Sem"].id < starts
      <4>1. Ahead(i)
        BY <1>1, <1>2 DEF Ahead, IInv, PcOK
      <4>2. \A t \in Threads : inst[t][k].id < starts
        BY <1>2, <4>1 DEF IInv, Aged
      <4> QED BY <1>2, <1>5, <2>2, <4>2, TypesOf
    <3>2. \A u \in holding : Has(u, "Sem")' /\ ~Valid(u, "Sem")'
      BY <1>4, <2>2, <3>1, TypesOf DEF IInv, Taking, Has, Valid
    <3>3. Holders' = {}
      BY <1>1, <3>2 DEF Holders
    <3>4. Cardinality(Holders') = 0
      BY <3>3, FS_EmptySet
    <3>5. IsFiniteSet(holding')
      BY <1>1 DEF IInv, Taking
    <3> QED BY <1>1, <2>2, <3>2, <3>4, <3>5 DEF Taking
  <2> QED BY <2>1, <2>2
<1> QED BY <1>6, <1>8, <1>9, <1>10, <1>11 DEF IInv

\* The constructor of the semaphore sets its value: nobody holds the new one.
LEMMA SetIInv ==
    ASSUME IInv, Set
    PROVE  IInv'
<1> USE ConstantsOK
<1> DEFINE i == pc[Main].arg
<1>1. /\ Main \in alive /\ pc[Main].at = "set" /\ semval' = 1 /\ pc' = Created(i)
      /\ UNCHANGED <<members, alive, inst, object, starts, interrupted, queue, holding, killed>>
  BY DEF Set
<1>2. Main \notin holding /\ i \in 1 .. Len(members)
  BY <1>1 DEF IInv, PcOK, ServerLabels
<1>3. /\ PcOK'
      /\ \A t \in Threads : pc'[t].at # "idle" => t \in alive
      /\ pc'[Main].at # "set"
      /\ \A j \in 1 .. Len(members) : (Ahead(j)' => j > i) /\ (j <= i => Reached(j)')
  <2> HIDE DEF i
  <2> QED BY <1>1, <1>2, CreatedOK
<1>4. TypeOK'
  <2>1. semval' \in 0 .. 1 + interrupted'
    BY <1>1, TypesOf
  <2> QED BY <1>1, <1>3, <2>1 DEF IInv, TypeOK
<1>5. Owned'
  <2>1. \A j \in 1 .. Len(members) : Reached(j) => Reached(j)'
    BY <1>1, <1>3 DEF Reached
  <2> QED BY <1>1, <2>1 DEF IInv, Owned, Valid, Has
<1>6. Aged'
  <2>1. \A j \in 1 .. Len(members) : Ahead(j)' => Ahead(j)
    BY <1>1, <1>3 DEF Ahead
  <2> QED BY <1>1, <2>1, AgedKept
<1>7. Taking'
  <2>1. Holders' = Holders
    BY <1>1 DEF Holders, Valid, Has
  <2>2. Cardinality(Holders) + semval <= interrupted
    BY <1>1 DEF IInv, Taking
  <2>3. Cardinality(Holders') + 1 <= 1 + interrupted
    BY <2>1, <2>2, Counted, TypesOf
  <2>4. IsFiniteSet(holding') /\ \A u \in holding' : Has(u, "Sem")'
    BY <1>1 DEF IInv, Taking, Has
  <2> QED BY <1>1, <1>3, <2>3, <2>4 DEF Taking
<1> QED BY <1>3, <1>4, <1>5, <1>6, <1>7 DEF IInv

LEMMA LeaveIInv ==
    ASSUME IInv, Leave
    PROVE  IInv'
<1> USE ConstantsOK
<1>1. /\ Main \in alive /\ Main \notin holding /\ pc[Main].at = "idle"
      /\ pc' = Pc(Main, "destroy", Len(members))
      /\ UNCHANGED <<members, alive, inst, object, starts, semval, interrupted, queue, holding, killed>>
  BY DEF Leave, Ready
<1>2. Len(members) \in 1 .. Len(members) /\ Len(members) \in Int
  BY TypesOf, MembersOK
<1>3. /\ pc' \in [Threads -> [at : Labels, arg : Int]]
      /\ pc'[Main].at = "destroy" /\ pc'[Main].arg = Len(members)
      /\ \A u \in Threads : u # Main => pc'[u] = pc[u]
  BY <1>1, <1>2, PcChange DEF IInv, Labels, ServerLabels
<1>4. TypeOK'
  BY <1>1, <1>3 DEF IInv, TypeOK
<1>5. PcOK'
  BY <1>1, <1>2, <1>3 DEF IInv, PcOK
<1>6. Owned'
  <2>1. \A j \in 1 .. Len(members) : Reached(j)'
    BY <1>1, <1>2, <1>3 DEF Reached
  <2> QED BY <1>1, <2>1 DEF IInv, Owned, Valid, Has
<1>7. Aged'
  BY <1>1, <1>3, AgedKept DEF Ahead
<1>8. Taking'
  BY <1>1, <1>3, TakingKept
<1> QED BY <1>4, <1>5, <1>6, <1>7, <1>8 DEF IInv

\* The server removes what it created, the last first.
LEMMA DestroyMemberIInv ==
    ASSUME IInv, DestroyMember
    PROVE  IInv'
<1> USE ConstantsOK
<1> DEFINE i == pc[Main].arg
           k == members[i]
<1>1. /\ Main \in alive /\ pc[Main].at = "destroy"
      /\ inst' = [inst EXCEPT ![Main][k] = None]
      /\ object' = IF Removes(Main, k) /\ Valid(Main, k) THEN [object EXCEPT ![k] = 0] ELSE object
      /\ pc' = IF i = 1 THEN Pc(Main, "idle", 0) ELSE Pc(Main, "destroy", i - 1)
      /\ alive' = IF i = 1 THEN alive \ {Main} ELSE alive
      /\ UNCHANGED <<members, starts, semval, interrupted, queue, holding, killed>>
  BY DEF DestroyMember, Destroys
<1>2. Main \notin holding /\ i \in 1 .. Len(members) /\ k \in Kinds
  BY <1>1, TypesOf, MembersOK DEF IInv, PcOK, ServerLabels
<1>3. /\ inst' \in [Threads -> [Kinds -> Instances]] /\ inst'[Main][k] = None
      /\ \A u \in Threads, j \in Kinds : u # Main \/ j # k => inst'[u][j] = inst[u][j]
  <2> HIDE DEF k
  <2> QED BY <1>1, <1>2, NoneOK, TypesOf
<1>4. /\ object' \in [Kinds -> 0 .. MaxStarts]
      /\ object'[k] = object[k] \/ object'[k] = 0
      /\ \A j \in Kinds : j # k => object'[j] = object[j]
      /\ Removes(Main, k) /\ Valid(Main, k) => object'[k] = 0
  <2> HIDE DEF k
  <2> QED BY <1>1, <1>2 DEF IInv, TypeOK
<1>5. /\ pc' \in [Threads -> [at : Labels, arg : Int]]
      /\ \A u \in Threads : u # Main => pc'[u] = pc[u]
      /\ i = 1 => pc'[Main].at = "idle"
      /\ i # 1 => pc'[Main].at = "destroy" /\ pc'[Main].arg = i - 1 /\ i - 1 \in 1 .. Len(members)
  <2>1. Len(members) \in Nat /\ i \in Int
    BY <1>2, TypesOf, MembersOK
  <2>2. CASE i = 1
    <3>1. pc' = Pc(Main, "idle", 0)
      BY <1>1, <2>2
    <3> QED BY <2>2, <3>1, PcChange DEF IInv, Labels
  <2>3. CASE i # 1
    <3>1. pc' = Pc(Main, "destroy", i - 1) /\ i - 1 \in Int /\ i - 1 \in 1 .. Len(members)
      BY <1>1, <1>2, <2>1, <2>3
    <3> HIDE DEF i
    <3> QED BY <2>3, <3>1, PcChange DEF IInv, Labels, ServerLabels
  <2> QED BY <2>2, <2>3
<1>6. TypeOK'
  <2>1. holding \subseteq alive' /\ alive' \subseteq Threads
    BY <1>1, <1>2 DEF IInv, TypeOK
  <2>2. \A t \in Threads : pc'[t].at # "idle" => t \in alive'
    BY <1>1, <1>5 DEF IInv, TypeOK
  <2> QED BY <1>1, <1>3, <1>4, <2>1, <2>2 DEF IInv, TypeOK, Instances
<1>7. PcOK'
  <2> HIDE DEF i
  <2> QED BY <1>1, <1>2, <1>5 DEF IInv, PcOK, ServerLabels
<1>8. Owned'
  <2>1. ASSUME NEW t \in Threads, NEW j \in Kinds, inst'[t][j].creator
        PROVE  inst'[t][j].pid = Main /\ (t = Main => Valid(t, j)')
    <3>1. t # Main \/ j # k
      BY <1>3, <2>1, NoneOK
    <3>2. inst'[t][j] = inst[t][j] /\ (t = Main => object'[j] = object[j])
      BY <1>3, <1>4, <3>1
    <3> QED BY <2>1, <3>2 DEF IInv, Owned, Valid, Has
  <2>2. ASSUME NEW j \in Kinds, object'[j] # 0, Main \notin killed
        PROVE  /\ Main \in alive' /\ inst'[Main][j].creator /\ inst'[Main][j].id = object'[j]
               /\ \E n \in 1 .. Len(members) : members[n] = j /\ Reached(n)'
    <3>1. object[j] # 0
      BY <1>4, <2>2
    <3>2. PICK n \in 1 .. Len(members) : members[n] = j /\ Reached(n)
      BY <2>2, <3>1 DEF IInv, Owned
    <3>3. inst[Main][j].creator /\ inst[Main][j].id = object[j]
      BY <2>2, <3>1 DEF IInv, Owned
    <3>4. j # k
      <4>1. inst[Main][j].pid = Main /\ Valid(Main, j)
        BY <3>3 DEF IInv, Owned
      <4>2. Removes(Main, j)
        BY <3>3, <4>1 DEF Removes
      <4> QED BY <1>4, <2>2, <4>1, <4>2
    <3>5. n < i
      <4>1. n <= i /\ n # i
        BY <1>1, <3>2, <3>4 DEF Reached
      <4> QED BY <1>2, <4>1
    <3>6. i # 1 /\ Reached(n)'
      BY <1>2, <1>5, <3>5 DEF Reached
    <3> QED BY <1>1, <1>3, <1>4, <3>2, <3>3, <3>4, <3>6
  <2> QED BY <1>1, <2>1, <2>2 DEF Owned
<1>9. Aged'
  <2>1. \A t \in Threads, j \in Kinds : inst'[t][j].id = 0 \/ inst'[t][j].id = inst[t][j].id
    BY <1>3, NoneOK
  <2>2. \A n : ~Ahead(n)'
    BY <1>5 DEF Ahead
  <2>3. \A j \in Kinds : object'[j] = object[j] \/ object'[j] = 0
    BY <1>4
  <2> QED BY <1>1, <2>1, <2>2, <2>3, AgedKept
<1>10. Taking'
  <2>1. \A u \in holding : inst'[u]["Sem"] = inst[u]["Sem"]
    BY <1>2, <1>3, TypesOf
  <2>2. \A u \in holding : Has(u, "Sem")' /\ (Valid(u, "Sem")' => Valid(u, "Sem"))
    BY <1>4, <2>1, TypesOf DEF IInv, Taking, Has, Valid
  <2>3. pc'[Main].at # "set"
    BY <1>5
  <2>4. Holders' \subseteq Holders
    BY <1>1, <2>2 DEF Holders
  <2> QED BY <1>1, <2>2, <2>3, <2>4, TakingLess
<1> QED BY <1>6, <1>7, <1>8, <1>9, <1>10 DEF IInv
-----------------------------------------------------------------------------
\* A set of natural numbers has a first element.
LEMMA FirstOK ==
    ASSUME NEW s \in SUBSET Nat, s # {}
    PROVE  First(s) \in s /\ \A j \in s : First(s) <= j
<1> DEFINE less == OpToRel(<, Nat)
<1>1. IsWellFoundedOn(less, Nat)
  BY NatLessThanWellFounded
<1>2. \E i \in s : \A j \in s : ~(<<j, i>> \in less)
  <2> HIDE DEF less
  <2> QED BY <1>1, WFMin
<1>3. \E i \in s : \A j \in s : i <= j
  <2>1. PICK i \in s : \A j \in s : ~(<<j, i>> \in less)
    BY <1>2
  <2>2. \A j \in s : ~(j < i)
    BY <2>1 DEF OpToRel
  <2> QED BY <2>2
<1> QED BY <1>3 DEF First

\* Taking a message out of the queue leaves the others.
LEMMA WithoutOK ==
    ASSUME NEW S, NEW q \in Seq(S), NEW i \in 1 .. Len(q)
    PROVE  Without(q, i) \in Seq(S) /\ Len(Without(q, i)) = Len(q) - 1
<1>1. Len(q) \in Nat
  OBVIOUS
<1>2. SubSeq(q, 1, i - 1) \in Seq(S) /\ Len(SubSeq(q, 1, i - 1)) = i - 1
  BY <1>1
<1>3. /\ SubSeq(q, i + 1, Len(q)) \in Seq(S)
      /\ Len(SubSeq(q, i + 1, Len(q))) = Len(q) - i
  BY <1>1
<1> DEFINE a == SubSeq(q, 1, i - 1)
           b == SubSeq(q, i + 1, Len(q))
<1> HIDE DEF a, b
<1>4. a \in Seq(S) /\ b \in Seq(S) /\ Len(a) = i - 1 /\ Len(b) = Len(q) - i
  BY <1>2, <1>3 DEF a, b
<1>5. a \o b \in Seq(S) /\ Len(a \o b) = Len(a) + Len(b)
  BY <1>4, ConcatProperties, Zenon
<1>6. Without(q, i) = a \o b
  BY DEF Without, a, b
<1>7. Len(a) + Len(b) = Len(q) - 1
  BY <1>1, <1>4
<1> QED BY <1>5, <1>6, <1>7, Zenon

\* What is left of the queue when a read has taken a message.
LEMMA Taken ==
    ASSUME IInv, NEW m \in Int, Matches(m) # {},
           queue' = Without(queue, First(Matches(m)))
    PROVE  queue' \in Seq(MsgTypes \ {0}) /\ Len(queue') <= Capacity
<1>1. /\ queue \in Seq(MsgTypes \ {0}) /\ DOMAIN queue = 1 .. Len(queue)
      /\ Len(queue) \in Nat /\ Len(queue) <= Capacity
  BY DEF IInv, TypeOK
<1>2. Matches(m) \subseteq 1 .. Len(queue)
  BY <1>1 DEF Matches
<1>3. First(Matches(m)) \in 1 .. Len(queue)
  BY <1>1, <1>2, FirstOK
<1>4. /\ Without(queue, First(Matches(m))) \in Seq(MsgTypes \ {0})
      /\ Len(Without(queue, First(Matches(m)))) = Len(queue) - 1
  BY <1>1, <1>3, WithoutOK
<1> QED BY <1>1, <1>4, ConstantsOK

LEMMA QueueIInv ==
    ASSUME IInv, NEW t \in Threads, Sends(t) \/ Receives(t) \/ ReadNow(t)
    PROVE  IInv'
<1> USE ConstantsOK
<1>1. CASE Sends(t) \/ Receives(t)
  <2>1. /\ t \in alive /\ pc[t].at \notin ServerLabels /\ pc' = Pc(t, "idle", 0)
        /\ UNCHANGED <<members, alive, inst, object, starts, semval, interrupted, holding, killed>>
    BY <1>1 DEF Sends, Receives, ServerLabels
  <2>2. queue' \in Seq(MsgTypes \ {0}) /\ Len(queue') <= Capacity
    <3>1. CASE Sends(t)
      <4>1. /\ pc[t].arg \in MsgTypes \ {0} /\ Len(queue) < Capacity
            /\ queue' = Append(queue, pc[t].arg)
        BY <3>1 DEF Sends, IInv, PcOK
      <4>2. queue \in Seq(MsgTypes \ {0})
        BY DEF IInv, TypeOK
      <4> QED BY <4>1, <4>2
    <3>2. CASE Receives(t)
      <4>1. pc[t].arg \in Int
        BY DEF IInv, PcOK
      <4> QED BY <3>2, <4>1, Taken DEF Receives
    <3> QED BY <1>1, <3>1, <3>2
  <2>3. /\ PcOK' /\ Owned' /\ Aged'
        /\ pc'[Main].at = "set" => pc[Main].at = "set"
        /\ \A u \in Threads : pc'[u].at # "idle" => u \in alive'
    BY <2>1, PcStep DEF Labels, ServerLabels
  <2>4. TypeOK'
    BY <2>1, <2>2, <2>3 DEF IInv, TypeOK
  <2>5. Taking'
    BY <2>1, <2>3, TakingKept
  <2> QED BY <2>3, <2>4, <2>5 DEF IInv
<1>2. CASE ReadNow(t)
  <2>1. PICK m \in Reads : Matches(m) # {} /\ queue' = Without(queue, First(Matches(m)))
    BY <1>2 DEF ReadNow
  <2>2. UNCHANGED <<members, alive, pc, inst, object, starts, semval, interrupted, holding, killed>>
    BY <1>2 DEF ReadNow
  <2>3. m \in Int
    BY IpcAssumption
  <2>4. queue' \in Seq(MsgTypes \ {0}) /\ Len(queue') <= Capacity
    BY <2>1, <2>3, Taken
  <2>5. TypeOK'
    BY <2>2, <2>4 DEF IInv, TypeOK
  <2>6. PcOK' /\ Owned' /\ Aged'
    BY <2>2 DEF IInv, PcOK, Owned, Aged, Valid, Has, Reached, Ahead
  <2>7. Taking'
    BY <2>2, TakingKept
  <2> QED BY <2>5, <2>6, <2>7 DEF IInv
<1> QED BY <1>1, <1>2
-----------------------------------------------------------------------------
LEMMA StepIInv == IInv /\ Waiting /\ [Next]_vars => IInv'
<1> SUFFICES ASSUME IInv, Waiting, [Next]_vars PROVE IInv'
  OBVIOUS
<1>1. CASE Start
  BY <1>1, StartIInv
<1>2. CASE Leave
  BY <1>2, LeaveIInv
<1>3. CASE Server
  <2>1. CASE CreateThrows
    BY <2>1, DiesIInv DEF CreateThrows
  <2> QED BY <1>3, <2>1, CreateIInv, SetIInv, DestroyMemberIInv DEF Server
<1>4. CASE \E c \in Threads : Fork(c) \/ Runs(c) \/ Exit(c)
  <2>1. "Sem" \in Kinds
    BY DEF Kinds
  <2> QED BY <1>4, <2>1, OthersIInv
<1>5. CASE \E c \in Threads, k \in Kinds : Connect(c, k) \/ Destroy(c, k)
  BY <1>5, OthersIInv
<1>6. ASSUME NEW t \in Threads,
             \/ Kill(t) \/ Progress(t)
             \/ Down(t) \/ Up(t)
             \/ Write(t) \/ Read(t) \/ ReadNow(t)
      PROVE  IInv'
  <2>1. CASE Kill(t)
    BY <2>1, DiesIInv DEF Kill
  <2>2. CASE Progress(t)
    <3>1. CASE MsgThrows(t)
      BY <3>1, DiesIInv DEF MsgThrows
    <3> QED BY <2>2, <3>1, QuietIInv, SemIInv, QueueIInv DEF Progress
  <2> QED BY <1>6, <2>1, <2>2, QuietIInv, SemIInv, QueueIInv
<1>7. CASE UNCHANGED vars
  <2>1. UNCHANGED <<members, alive, pc, inst, object, starts, semval, interrupted, queue,
                    holding, killed>>
    BY <1>7 DEF vars
  <2>2. TypeOK'
    BY <2>1 DEF IInv, TypeOK
  <2>3. Taking'
    BY <2>1, TakingKept
  <2> QED BY <2>1, <2>2, <2>3 DEF IInv, PcOK, Owned, Aged, Valid, Has, Reached, Ahead
<1> QED BY <1>1, <1>2, <1>3, <1>4, <1>5, <1>6, <1>7 DEF Next

\* Nobody loses the semaphore while waiting for it.
LEMMA StepWaiting == IInv /\ Waiting /\ [Next]_vars => Waiting'
<1> SUFFICES ASSUME IInv, Waiting, [Next]_vars PROVE Waiting'
  OBVIOUS
<1> USE ConstantsOK DEF Waiting
<1>1. PcOK /\ "Sem" \in Kinds /\ inst \in [Threads -> [Kinds -> Instances]]
  BY TypesOf DEF IInv
\* A thread goes on with something else, and the instances stay.
<1>2. ASSUME NEW t \in Threads, NEW label \in Labels, NEW arg \in Int, pc' = Pc(t, label, arg),
             inst' = inst, label = "down" => Has(t, "Sem")
      PROVE  Waiting'
  <2>1. pc'[t].at = label /\ \A u \in Threads : u # t => pc'[u] = pc[u]
    BY <1>1, <1>2, PcChange
  <2> QED BY <1>2, <2>1 DEF Has
\* A thread that does not wait changes its instances.
<1>3. ASSUME NEW t \in Threads, pc'[t].at # "down",
             \A u \in Threads : u # t => pc'[u] = pc[u] /\ inst'[u] = inst[u]
      PROVE  Waiting'
  BY <1>3 DEF Has
<1>4. ASSUME NEW t \in alive, Dies(t)
      PROVE  Waiting'
  <2>1. t \in Threads
    BY DEF IInv, TypeOK
  <2>2. pc'[t].at = "idle" /\ \A u \in Threads : u # t => pc'[u] = pc[u]
    <3>1. pc' = Pc(t, "idle", 0) /\ "idle" \in Labels /\ 0 \in Int
      BY <1>4 DEF Dies, Labels
    <3> QED BY <1>1, <2>1, <3>1, PcChange
  <2>3. \A u \in Threads : u # t => inst'[u] = inst[u]
    BY <1>1, <1>4 DEF Dies
  <2> QED BY <1>3, <2>1, <2>2, <2>3
<1>5. CASE Start \/ Leave
  <2>1. Len(members) \in Int
    BY TypesOf, MembersOK
  <2> QED BY <1>2, <1>5, <2>1 DEF Start, Leave, Labels, ServerLabels
<1>6. CASE Server
  <2>1. CASE CreateThrows
    BY <1>4, <2>1 DEF CreateThrows
  <2>2. ASSUME \E l \in {"idle", "create", "set", "destroy"} : \E a : pc' = Pc(Main, l, a)
        PROVE  pc'[Main].at # "down" /\ \A u \in Threads : u # Main => pc'[u] = pc[u]
    BY <1>1, <2>2 DEF Pc, PcOK
  <2>3. CASE Create
    <3>1. \A u \in Threads : u # Main => inst'[u] = inst[u]
      BY <1>1, <2>3 DEF Create
    <3>2. \E l \in {"idle", "create", "set", "destroy"} : \E a : pc' = Pc(Main, l, a)
      BY <2>3 DEF Create, Created
    <3> QED BY <1>3, <2>2, <3>1, <3>2
  <2>4. CASE Set
    <3>1. \E l \in {"idle", "create", "set", "destroy"} : \E a : pc' = Pc(Main, l, a)
      BY <2>4 DEF Set, Created
    <3> QED BY <1>3, <2>2, <2>4, <3>1 DEF Set
  <2>5. CASE DestroyMember
    <3>1. \A u \in Threads : u # Main => inst'[u] = inst[u]
      BY <1>1, <2>5 DEF DestroyMember, Destroys
    <3>2. \E l \in {"idle", "create", "set", "destroy"} : \E a : pc' = Pc(Main, l, a)
      BY <2>5 DEF DestroyMember
    <3> QED BY <1>3, <2>2, <3>1, <3>2
  <2> QED BY <1>6, <2>1, <2>3, <2>4, <2>5 DEF Server
<1>7. ASSUME NEW c \in Threads, Fork(c) \/ Runs(c) \/ Exit(c)
      PROVE  Waiting'
  <2>1. pc[c].at # "down" \/ Runs(c)
    BY <1>7 DEF Fork, Ready, Exit, IInv, TypeOK
  <2>2. pc' = pc /\ \A u \in Threads : u # c => inst'[u] = inst[u]
    BY <1>1, <1>7 DEF Fork, Runs, Exit
  <2>3. Runs(c) => inst' = inst
    BY DEF Runs
  <2> QED BY <1>3, <2>1, <2>2, <2>3 DEF Has
<1>8. ASSUME NEW c \in Threads, NEW k \in Kinds, Connect(c, k) \/ Destroy(c, k)
      PROVE  Waiting'
  <2>1. pc[c].at # "down" /\ pc' = pc /\ \A u \in Threads : u # c => inst'[u] = inst[u]
    BY <1>1, <1>8 DEF Connect, Destroy, Destroys, Ready
  <2> QED BY <1>3, <2>1
<1>9. ASSUME NEW t \in Threads,
             Down(t) \/ Write(t) \/ Read(t) \/ MsgFails(t) \/ Downs(t) \/ DownFails(t)
                 \/ Sends(t) \/ Receives(t)
      PROVE  Waiting'
  <2>1. \A m \in Types : TypeOf(m) \in Int
    BY IpcAssumption DEF TypeOf
  <2>2. CASE Down(t)
    BY <1>2, <2>2 DEF Down, Labels
  <2>3. CASE Write(t) \/ Read(t)
    BY <1>2, <2>1, <2>3, IpcAssumption DEF Write, Read, Labels
  <2>4. CASE MsgFails(t) \/ Downs(t) \/ DownFails(t) \/ Sends(t) \/ Receives(t)
    <3>1. pc' = Pc(t, "idle", 0) /\ inst' = inst
      BY <2>4 DEF MsgFails, Downs, DownFails, Sends, Receives
    <3> QED BY <1>2, <3>1 DEF Labels
  <2> QED BY <1>9, <2>2, <2>3, <2>4
<1>10. ASSUME NEW t \in Threads, Up(t) \/ ReadNow(t)
       PROVE  Waiting'
  BY <1>10 DEF Up, ReadNow, Has
<1>11. ASSUME NEW t \in Threads, Kill(t) \/ MsgThrows(t)
       PROVE  Waiting'
  BY <1>4, <1>11 DEF Kill, MsgThrows
<1>12. CASE UNCHANGED vars
  BY <1>12 DEF vars, Has
<1> QED BY <1>5, <1>6, <1>7, <1>8, <1>9, <1>10, <1>11, <1>12 DEF Next, Progress

LEMMA Inductive == Spec => []IInv
<1>1. Init => IInv /\ Waiting
  BY InitIInv DEF Init, Waiting, Idle
<1>2. IInv /\ Waiting /\ [Next]_vars => (IInv /\ Waiting)'
  BY StepIInv, StepWaiting
<1> QED BY <1>1, <1>2, PTL DEF Spec

\* The variables keep their types: the semaphore exceeds 1 by no more than the
\* waits that were interrupted, however the server and the threads come and go.
THEOREM Typed == Spec => []TypeOK
<1>1. IInv => TypeOK
  BY DEF IInv
<1> QED BY <1>1, Inductive, PTL

\* The destructors and the exceptions of sem.cpp, shared_memory.h and
\* msg_queue.h: nobody but the server removes its objects, and it leaves none
\* behind unless it is killed or dies of an exception.
THEOREM Lifetimes == Spec => []ObjectsLiveWithServer
<1>1. IInv => ObjectsLiveWithServer
  BY Invariants
<1> QED BY <1>1, Inductive, PTL

\* sem-- and sem++ exclude each other on the semaphore under the key, but for
\* one more thread for every wait that was interrupted, in every life of the
\* server and with threads that still have an older semaphore.
THEOREM Excludes == Spec => []LockExcludes
<1>1. IInv => LockExcludes
  BY DEF IInv, Taking, LockExcludes
<1> QED BY <1>1, Inductive, PTL
=============================================================================
