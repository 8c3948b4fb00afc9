--------------------------- MODULE HttpServerProofs ---------------------------
(***************************************************************************)
(* Proofs about the web server, for any pages, configuration files and     *)
(* bounds, whatever signals arrive and whatever connections break.         *)
(***************************************************************************)
EXTENDS HttpServer, FiniteSetTheorems, TLAPS

\* The semaphore is free only while nobody is between sem-- and sem++.
SemFree ==
    /\ sem \in {0, 1}
    /\ sem = 1 => ~ServerCritical /\ \A r \in Requests : child[r] \notin Critical

Exclusive ==
    /\ \A r, s \in Requests : child[r] \in Critical /\ child[s] \in Critical => r = s
    /\ \A r \in Requests : child[r] \in Critical => ~ServerCritical

\* What a child found out in its critical section stays true in it.
TestStillTrue ==
    \A r \in Requests :
        /\ child[r] \in {"load", "store"} =>
               IF IsRoot(r) THEN clientCount < maxClients ELSE clientCount > 0
        /\ child[r] = "store" => loaded[r] = clientCount

Safe == SemFree /\ Exclusive /\ TestStillTrue

\* The server forks with a descriptor of the connection; the rest is so as
\* long as nothing has disturbed the semaphore.
TInv == TypeOK /\ (server = "fork" => fds > 0)
IInv == TInv /\ (Undisturbed => Safe)

LEMMA InitIInv == Init => IInv
<1> SUFFICES ASSUME Init PROVE IInv
  OBVIOUS
<1>1. TypeOK
  <2>1. /\ flag \in BOOLEAN /\ exit \in BOOLEAN /\ admitted \in [Pages -> BOOLEAN]
        /\ interrupted \in BOOLEAN
    BY DEF Init
  <2>2. /\ child \in [Requests -> ChildState]
        /\ loaded \in [Requests -> Int]
        /\ page \in [Pages -> {"away", "loading", "open", "refused"}]
    BY DEF Init, ChildState
  <2>3. /\ server \in ServerStates
        /\ fds \in 0 .. MaxFds /\ signals \in 0 .. MaxSignals /\ loads \in 0 .. MaxLoads
        /\ sem \in Nat /\ clientCount \in Int /\ maxClients \in Nat /\ file \in Files
        /\ forgotten \in Nat
    BY BoundAssumption DEF Init, ServerStates
  <2> QED BY <2>1, <2>2, <2>3 DEF TypeOK
<1>2. \A r \in Requests : child[r] \notin Critical
  BY DEF Init, Critical
<1>3. Safe /\ server # "fork"
  BY <1>2 DEF Init, Safe, SemFree, Exclusive, TestStillTrue, ServerCritical, Critical
<1> QED BY <1>1, <1>3 DEF IInv, TInv

\* Nothing but a signal interrupts a wait, and only its removal makes the
\* semaphore disappear: once disturbed, always disturbed.
LEMMA Disturbed ==
    ASSUME TInv, [Next]_vars, Undisturbed'
    PROVE  Undisturbed
<1>1. ~interrupted
  <2>1. UNCHANGED interrupted \/ Sigusr1 \/ Sigint
    BY DEF Next, ServerStep, ChildStep, Loop, OnStart, ReadConfig, ConfigUp, CallAccept,
           AcceptFails, CloseSocket, Destroy, Accept, Fork, ConfigDown, ForkFails,
           ConnectionLost, ReadRequest, Sleep, Test, Load, Store, Up, Respond, Down, Open,
           Leave, Refresh, Unanswered, vars, history
  <2>2. CASE UNCHANGED interrupted
    BY <2>2 DEF Undisturbed
  <2>3. CASE Sigusr1
    BY <2>3 DEF Sigusr1, Undisturbed
  <2>4. CASE Sigint
    BY <2>4 DEF Sigint, Undisturbed
  <2> QED BY <2>1, <2>2, <2>3, <2>4
<1>2. sem = Removed => sem' = Removed
  BY DEF Next, ServerStep, ChildStep, Loop, OnStart, ReadConfig, ConfigUp, CallAccept,
         AcceptFails, CloseSocket, Destroy, Accept, Fork, ConfigDown, ForkFails,
         ConnectionLost, ReadRequest, Sleep, Test, Load, Store, Up, Respond, Down, Open,
         Leave, Refresh, Sigusr1, Sigint, vars, Taken, Released
<1> QED BY <1>1, <1>2 DEF Undisturbed

\* The steps that touch neither shared memory nor the semaphore and enter no
\* critical section.
LEMMA QuietStep ==
    ASSUME TypeOK, Safe,
           UNCHANGED <<sem, clientCount, maxClients, loaded>>,
           ServerCritical' => ServerCritical,
           \A r \in Requests : child'[r] \in Critical => child'[r] = child[r]
    PROVE  Safe'
<1>1. SemFree'
  BY DEF Safe, SemFree
<1>2. Exclusive'
  BY DEF Safe, Exclusive
<1>3. TestStillTrue'
  BY DEF Safe, TestStillTrue, Critical
<1> QED BY <1>1, <1>2, <1>3 DEF Safe

LEMMA ServerTyped ==
    ASSUME TInv, ServerStep \/ ConfigDown
    PROVE  TInv'
<1> USE DEF ServerMoves, ServerStates, boundVars, childVars, shmVars, history
<1>1. CASE Loop \/ OnStart \/ CallAccept \/ AcceptFails
  BY <1>1 DEF Loop, OnStart, CallAccept, AcceptFails, TInv, TypeOK
<1>2. ASSUME NEW r \in Requests, Accept(r)
      PROVE  TInv'
  BY <1>2, BoundAssumption DEF Accept, Becomes, TInv, TypeOK, ChildState, Waiting
<1>3. ASSUME NEW r \in Requests, Fork(r)
      PROVE  TInv'
  BY <1>3 DEF Fork, Becomes, TInv, TypeOK, ChildState, Waiting
<1>4. CASE ConfigDown
  BY <1>4 DEF ConfigDown, CanTake, Taken, Removed, TInv, TypeOK
<1>5. CASE ReadConfig
  <2>1. NewMaxClients \in Nat
    BY DefaultAssumption, FileAssumption DEF NewMaxClients, TInv, TypeOK
  <2> QED BY <1>5, <2>1 DEF ReadConfig, TInv, TypeOK
<1>6. CASE ConfigUp
  BY <1>6 DEF ConfigUp, Released, Removed, TInv, TypeOK
<1>7. CASE CloseSocket
  <2>1. child' \in [Requests -> ChildState]
    BY <1>7 DEF CloseSocket, TInv, TypeOK, ChildState
  <2>2. page' \in [Pages -> {"away", "loading", "open", "refused"}]
    BY <1>7 DEF CloseSocket, TInv, TypeOK
  <2> QED BY <1>7, <2>1, <2>2 DEF CloseSocket, TInv, TypeOK
<1>8. CASE Destroy
  BY <1>8 DEF Destroy, TInv, TypeOK
<1> QED
  BY <1>1, <1>2, <1>3, <1>4, <1>5, <1>6, <1>7, <1>8 DEF ServerStep

LEMMA ChildTyped ==
    ASSUME TInv, NEW r \in Requests, ChildStep(r) \/ Down(r)
    PROVE  TInv'
<1> USE DEF ChildMoves, Becomes, ChildState, Waiting, Critical, serverVars, shmVars, boundVars,
            history
<1>0. PageOf(r) \in Pages
  BY DEF Requests, PageOf
<1>1. CASE ReadRequest(r) \/ Sleep(r) \/ Load(r) \/ Respond(r)
  BY <1>0, <1>1 DEF ReadRequest, Sleep, Load, Respond, TInv, TypeOK
<1>2. CASE Down(r) \/ Up(r)
  BY <1>2 DEF Down, Up, CanTake, Taken, Released, Removed, TInv, TypeOK
<1>3. CASE Test(r)
  <2>1. admitted' \in [Pages -> BOOLEAN]
    <3>1. (clientCount < maxClients) \in BOOLEAN
      OBVIOUS
    <3> QED BY <1>0, <1>3, <3>1 DEF Test, TInv, TypeOK
  <2>2. child' \in [Requests -> ChildState]
    BY <1>3 DEF Test, TInv, TypeOK
  <2> QED BY <1>3, <2>1, <2>2 DEF Test, TInv, TypeOK
<1>4. CASE Store(r)
  BY <1>4 DEF Store, TInv, TypeOK
<1> QED BY <1>1, <1>2, <1>3, <1>4 DEF ChildStep

LEMMA EnvironmentTyped ==
    ASSUME TInv,
           \/ \E r \in Requests : ForkFails(r) \/ ConnectionLost(r)
           \/ \E p \in Pages : Open(p) \/ Leave(p) \/ Refresh(p)
           \/ Sigusr1
           \/ Sigint
    PROVE  TInv'
<1> USE DEF ServerStates, ChildState, Waiting, Critical, Becomes, serverVars, shmVars, boundVars,
            history
<1>1. ASSUME NEW r \in Requests, ForkFails(r) \/ ConnectionLost(r)
      PROVE  TInv'
  <2>1. PageOf(r) \in Pages
    BY DEF Requests, PageOf
  <2>2. /\ page' \in [Pages -> {"away", "loading", "open", "refused"}]
        /\ forgotten' \in Nat /\ interrupted' \in BOOLEAN
        /\ child' \in [Requests -> ChildState]
    BY <1>1, <2>1 DEF ForkFails, ConnectionLost, Unanswered, TInv, TypeOK
  <2> QED
    BY <1>1, <2>2, BoundAssumption DEF ForkFails, ConnectionLost, ServerMoves, TInv, TypeOK
<1>2. ASSUME NEW p \in Pages, Open(p) \/ Leave(p) \/ Refresh(p)
      PROVE  TInv'
  <2>1. <<p, "root">> \in Requests /\ <<p, "dc">> \in Requests
    BY DEF Requests
  <2> QED BY <1>2, <2>1, BoundAssumption DEF Open, Leave, Refresh, TInv, TypeOK
<1>3. CASE Sigusr1 \/ Sigint
  <2>1. /\ server' \in ServerStates /\ (server' = "fork" => server = "fork")
        /\ signals' \in 0 .. MaxSignals
    BY <1>3, BoundAssumption DEF Sigusr1, Sigint, SignalArrives, ServerInterrupted, TInv, TypeOK
  <2>2. interrupted' \in BOOLEAN /\ flag' \in BOOLEAN /\ exit' \in BOOLEAN
    BY <1>3 DEF Sigusr1, Sigint, TInv, TypeOK
  <2>3. child' \in [Requests -> ChildState] /\ file' \in Files
    BY <1>3 DEF Sigusr1, Sigint, TInv, TypeOK, childVars
  <2> QED BY <1>3, <2>1, <2>2, <2>3 DEF Sigusr1, Sigint, TInv, TypeOK, childVars
<1> QED BY <1>1, <1>2, <1>3

LEMMA StepTyped ==
    ASSUME TInv, [Next]_vars
    PROVE  TInv'
<1>1. CASE Next
  BY <1>1, ServerTyped, ChildTyped, EnvironmentTyped DEF Next
<1>2. CASE UNCHANGED vars
  BY <1>2 DEF vars, serverVars, shmVars, childVars, boundVars, history, TInv, TypeOK
<1> QED BY <1>1, <1>2

LEMMA ServerSafe ==
    ASSUME TypeOK, Safe, Undisturbed', ServerStep \/ ConfigDown
    PROVE  Safe'
<1> USE DEF ServerMoves, ServerCritical, childVars, shmVars
<1>1. CASE Loop \/ OnStart \/ CallAccept \/ AcceptFails
  BY <1>1, QuietStep DEF Loop, OnStart, CallAccept, AcceptFails
<1>2. ASSUME NEW r \in Requests, Accept(r) \/ Fork(r)
      PROVE  Safe'
  <2>1. \A s \in Requests : child'[s] \in Critical => child'[s] = child[s]
    BY <1>2 DEF Accept, Fork, Becomes, TypeOK, Critical
  <2> QED BY <1>2, <2>1, QuietStep DEF Accept, Fork
<1>3. CASE ConfigDown
  <2>1. sem = 1 /\ sem' = 0
    BY <1>3 DEF ConfigDown, CanTake, Taken, Removed, Safe, SemFree
  <2> QED BY <1>3, <2>1 DEF ConfigDown, Safe, SemFree, Exclusive, TestStillTrue
<1>4. CASE ReadConfig
  <2>1. \A r \in Requests : child[r] \notin Critical
    BY <1>4 DEF ReadConfig, Safe, Exclusive
  <2>2. SemFree' /\ Exclusive'
    BY <1>4, <2>1 DEF ReadConfig, Safe, SemFree, Exclusive
  <2>3. TestStillTrue'
    BY <1>4, <2>1 DEF ReadConfig, TestStillTrue, Critical
  <2> QED BY <2>2, <2>3 DEF Safe
<1>5. CASE ConfigUp
  <2>1. sem' = 1 /\ \A r \in Requests : child[r] \notin Critical
    BY <1>5 DEF ConfigUp, Released, Removed, Safe, SemFree, Exclusive
  <2> QED BY <1>5, <2>1 DEF ConfigUp, Safe, SemFree, Exclusive, TestStillTrue
<1>6. CASE CloseSocket
  <2>1. \A s \in Requests : child'[s] \in Critical => child'[s] = child[s]
    BY <1>6 DEF CloseSocket, TypeOK, Critical
  <2> QED BY <1>6, <2>1, QuietStep DEF CloseSocket
<1>7. ~Destroy
  BY DEF Destroy, Undisturbed, Removed
<1> QED
  BY <1>1, <1>2, <1>3, <1>4, <1>5, <1>6, <1>7 DEF ServerStep

LEMMA ChildSafe ==
    ASSUME TypeOK, Safe, NEW r \in Requests, ChildStep(r) \/ Down(r)
    PROVE  Safe'
<1> USE DEF ChildMoves, Becomes, serverVars, shmVars
<1>1. CASE ReadRequest(r) \/ Sleep(r) \/ Respond(r)
  <2>1. \A s \in Requests : child'[s] \in Critical => child'[s] = child[s]
    BY <1>1 DEF ReadRequest, Sleep, Respond, TypeOK, Critical
  <2> QED BY <1>1, <2>1, QuietStep DEF ReadRequest, Sleep, Respond, ServerCritical
<1>2. CASE Down(r)
  <2>1. sem = 1 /\ sem' = 0 /\ ~ServerCritical /\ \A s \in Requests : child[s] \notin Critical
    BY <1>2 DEF Down, CanTake, Taken, Removed, Safe, SemFree
  <2>2. SemFree' /\ Exclusive'
    BY <1>2, <2>1 DEF Down, TypeOK, SemFree, Exclusive, ServerCritical, Critical
  <2>3. TestStillTrue'
    BY <1>2, <2>1 DEF Down, TypeOK, TestStillTrue, Critical
  <2> QED BY <2>2, <2>3 DEF Safe
<1>3. ASSUME child[r] \in Critical
      PROVE  /\ sem = 0
             /\ ~ServerCritical
             /\ \A s \in Requests \ {r} : child[s] \notin Critical
  BY <1>3 DEF Safe, SemFree, Exclusive
<1>4. ASSUME child[r] \in Critical, child'[r] \in Critical,
             \A s \in Requests \ {r} : child'[s] = child[s],
             UNCHANGED <<sem, server>>
      PROVE  SemFree' /\ Exclusive'
  BY <1>3, <1>4 DEF SemFree, Exclusive, ServerCritical
<1>5. CASE Test(r)
  <2>1. child[r] \in Critical /\ child'[r] \in Critical
    BY <1>5 DEF Test, TypeOK, Critical
  <2>2. SemFree' /\ Exclusive'
    BY <1>4, <1>5, <2>1 DEF Test, TypeOK
  <2>3. TestStillTrue'
    BY <1>3, <1>5, <2>1 DEF Test, TypeOK, TestStillTrue, Critical
  <2> QED BY <2>2, <2>3 DEF Safe
<1>6. CASE Load(r)
  <2>1. child[r] \in Critical /\ child'[r] \in Critical
    BY <1>6 DEF Load, TypeOK, Critical
  <2>2. SemFree' /\ Exclusive'
    BY <1>4, <1>6, <2>1 DEF Load, TypeOK
  <2>3. TestStillTrue'
    BY <1>3, <1>6, <2>1 DEF Load, TypeOK, Safe, TestStillTrue, Critical
  <2> QED BY <2>2, <2>3 DEF Safe
<1>7. CASE Store(r)
  <2>1. child[r] \in Critical /\ child'[r] \in Critical
    BY <1>7 DEF Store, TypeOK, Critical
  <2>2. SemFree' /\ Exclusive'
    BY <1>4, <1>7, <2>1 DEF Store, TypeOK
  <2>3. TestStillTrue'
    BY <1>3, <1>7, <2>1 DEF Store, TypeOK, TestStillTrue, Critical
  <2> QED BY <2>2, <2>3 DEF Safe
<1>8. CASE Up(r)
  <2>1. child[r] \in Critical
    BY <1>8 DEF Up, Critical
  <2>2. sem' = 1
    BY <1>3, <1>8, <2>1 DEF Up, Released, Removed
  <2>3. \A s \in Requests : child'[s] \notin Critical
    BY <1>3, <1>8, <2>1 DEF Up, TypeOK, Critical
  <2> QED
    BY <1>3, <1>8, <2>1, <2>2, <2>3
       DEF Up, Safe, SemFree, Exclusive, TestStillTrue, ServerCritical, Critical
<1> QED BY <1>1, <1>2, <1>5, <1>6, <1>7, <1>8 DEF ChildStep

LEMMA EnvironmentSafe ==
    ASSUME TypeOK, Safe, Undisturbed',
           \/ \E r \in Requests : ForkFails(r) \/ ConnectionLost(r)
           \/ \E p \in Pages : Open(p) \/ Leave(p) \/ Refresh(p)
           \/ Sigusr1
           \/ Sigint
    PROVE  Safe'
<1> USE DEF Becomes, ServerCritical, serverVars, shmVars, childVars
<1>1. ASSUME NEW r \in Requests, ForkFails(r) \/ ConnectionLost(r)
      PROVE  Safe'
  <2>1. \A s \in Requests : child'[s] \in Critical => child'[s] = child[s]
    BY <1>1 DEF ForkFails, ConnectionLost, TypeOK, Critical
  <2> QED BY <1>1, <2>1, QuietStep DEF ForkFails, ConnectionLost, ServerMoves
<1>2. ASSUME NEW p \in Pages, Open(p) \/ Leave(p) \/ Refresh(p)
      PROVE  Safe'
  <2>1. <<p, "root">> \in Requests /\ <<p, "dc">> \in Requests
    BY DEF Requests
  <2>2. \A s \in Requests : child'[s] \in Critical => child'[s] = child[s]
    BY <1>2, <2>1 DEF Open, Leave, Refresh, TypeOK, Critical
  <2> QED BY <1>2, <2>2, QuietStep DEF Open, Leave, Refresh
<1>3. CASE Sigusr1 \/ Sigint
  <2>1. ~ServerWaits /\ (Sigint => \A r \in Requests : ~ChildWaits(r))
    BY <1>3 DEF Sigusr1, Sigint, Undisturbed
  <2>2. server' = IF server = "blocked" THEN "loop" ELSE server
    BY <1>3, <2>1 DEF Sigusr1, Sigint, SignalArrives, ServerInterrupted
  <2>3. \A r \in Requests : child'[r] = child[r]
    BY <1>3, <2>1 DEF Sigusr1, Sigint
  <2> QED BY <1>3, <2>2, <2>3, QuietStep DEF Sigusr1, Sigint
<1> QED BY <1>1, <1>2, <1>3

LEMMA StepIInv ==
    ASSUME IInv, [Next]_vars
    PROVE  IInv'
<1>1. TInv'
  BY StepTyped DEF IInv
<1>2. ASSUME Undisturbed'
      PROVE  Safe'
  <2>1. TypeOK /\ Safe
    BY <1>2, Disturbed DEF IInv, TInv
  <2>2. CASE Next
    BY <1>2, <2>1, <2>2, ServerSafe, ChildSafe, EnvironmentSafe DEF Next
  <2>3. CASE UNCHANGED vars
    BY <2>1, <2>3, QuietStep DEF vars, serverVars, shmVars, childVars, ServerCritical
  <2> QED BY <2>2, <2>3
<1> QED BY <1>1, <1>2 DEF IInv

\* The types, whatever is lost and interrupted.
THEOREM Typed == Spec => []TypeOK
<1>1. IInv => TypeOK
  BY DEF IInv, TInv
<1>2. IInv /\ [Next]_vars => IInv'
  BY StepIInv
<1> QED BY <1>1, <1>2, InitIInv, PTL DEF Spec

\* The semaphore of httpserver.cpp keeps the critical sections apart: until a
\* signal interrupts a semop or the server removes the semaphore, at most one
\* of the children and of the server is between its sem-- and its sem++.
THEOREM Exclusion == Spec => []MutualExclusion
<1>1. IInv => MutualExclusion
  BY DEF IInv, Safe, Exclusive, MutualExclusion
<1>2. IInv /\ [Next]_vars => IInv'
  BY StepIInv
<1> QED BY <1>1, <1>2, InitIInv, PTL DEF Spec

\* And so GET / never counts a page beyond max_clients: what the child tested
\* is still true when it stores, for every number of pages and any sequence
\* of configurations.
THEOREM Limit == Spec => AdmittedBelowLimit
<1>1. IInv /\ [Next]_vars =>
         [Undisturbed /\ clientCount' > clientCount => clientCount < maxClients]_vars
  <2> SUFFICES ASSUME IInv, Next, Undisturbed, clientCount' > clientCount
               PROVE  clientCount < maxClients
    OBVIOUS
  <2>1. ASSUME NEW r \in Requests, Store(r)
        PROVE  clientCount < maxClients
    BY <2>1 DEF Store, ChildMoves, IInv, TInv, TypeOK, Safe, TestStillTrue
  <2>2. ASSUME UNCHANGED clientCount
        PROVE  FALSE
    BY <2>2 DEF IInv, TInv, TypeOK
  <2>3. \/ UNCHANGED clientCount
        \/ \E r \in Requests : Store(r)
    BY DEF Next, ServerStep, ChildStep, Loop, OnStart, ReadConfig, ConfigUp, CallAccept,
           AcceptFails, CloseSocket, Destroy, Accept, Fork, ConfigDown, ForkFails,
           ConnectionLost, ReadRequest, Sleep, Test, Load, Up, Respond, Down, Open,
           Leave, Refresh, Sigusr1, Sigint, shmVars
  <2> QED BY <2>1, <2>2, <2>3
<1>2. IInv /\ [Next]_vars => IInv'
  BY StepIInv
<1> QED BY <1>1, <1>2, InitIInv, PTL DEF Spec, AdmittedBelowLimit
-----------------------------------------------------------------------------
(***************************************************************************)
(* The count of the clients.                                               *)
(***************************************************************************)

\* A page whose GET / is on its way shows nothing, and a child that counts it
\* has admitted it.
PagesOK ==
    \A p \in Pages :
        /\ child[<<p, "root">>] # "none" => page[p] # "open"
        /\ child[<<p, "root">>] \in {"load", "store"} => admitted[p]

Counting == PagesOK /\ clientCount = Expected + forgotten

Orderly == Undisturbed /\ Listening

CInv == IInv /\ (Orderly => Counting)

Bit(b) == IF b THEN 1 ELSE 0

\* How many times a page is counted.
Times(p) == Bit(page[p] = "open") + Bit(Admitted(p)) + Bit(Departing(p))

LEMMA SetChange ==
    ASSUME NEW S \in SUBSET Pages, NEW T \in SUBSET Pages, NEW p \in Pages,
           \A q \in Pages \ {p} : q \in T <=> q \in S
    PROVE  /\ Cardinality(S) \in Nat /\ Cardinality(T) \in Nat
           /\ Cardinality(T) = Cardinality(S) + Bit(p \in T) - Bit(p \in S)
<1>1. IsFiniteSet(S) /\ IsFiniteSet(T)
  BY PagesAssumption, FS_Subset
<1>2. Cardinality(S) \in Nat /\ Cardinality(T) \in Nat
  BY <1>1, FS_CardinalityType
<1>3. S \ {p} = T \ {p}
  OBVIOUS
<1>4. ASSUME NEW U, IsFiniteSet(U), Cardinality(U) \in Nat
      PROVE  Cardinality(U) = Cardinality(U \ {p}) + Bit(p \in U)
  <2>1. Cardinality(U \ {p}) = IF p \in U THEN Cardinality(U) - 1 ELSE Cardinality(U)
    BY <1>4, FS_RemoveElement
  <2> QED BY <1>4, <2>1 DEF Bit
<1>5. /\ Cardinality(S) = Cardinality(S \ {p}) + Bit(p \in S)
      /\ Cardinality(T) = Cardinality(S \ {p}) + Bit(p \in T)
  BY <1>1, <1>2, <1>3, <1>4
<1>6. Cardinality(S \ {p}) \in Nat
  <2>1. IsFiniteSet(S \ {p})
    BY <1>1, FS_RemoveElement
  <2> QED BY <2>1, FS_CardinalityType
<1> QED BY <1>2, <1>5, <1>6 DEF Bit

LEMMA Counted ==
    /\ Expected \in Nat
    /\ \A p \in Pages : Departing(p) => Expected > 0
<1> DEFINE O == {q \in Pages : page[q] = "open"}
           A == {q \in Pages : Admitted(q)}
           D == {q \in Pages : Departing(q)}
<1>1. IsFiniteSet(O) /\ IsFiniteSet(A) /\ IsFiniteSet(D)
  <2>1. O \in SUBSET Pages /\ A \in SUBSET Pages /\ D \in SUBSET Pages
    OBVIOUS
  <2> HIDE DEF O, A, D
  <2> QED BY <2>1, PagesAssumption, FS_Subset
<1>2. Cardinality(O) \in Nat /\ Cardinality(A) \in Nat /\ Cardinality(D) \in Nat
  BY <1>1, FS_CardinalityType
<1>3. D # {} => Cardinality(D) # 0
  BY <1>1, FS_EmptySet
<1>4. \A p \in Pages : Departing(p) => D # {}
  OBVIOUS
<1>5. Expected = Cardinality(O) + Cardinality(A) + Cardinality(D)
  BY DEF Expected
<1> HIDE DEF O, A, D
<1> QED BY <1>2, <1>3, <1>4, <1>5

\* A step about one page changes what is expected by what that page counts.
LEMMA OnePage ==
    ASSUME NEW p \in Pages,
           \A q \in Pages \ {p} : /\ child'[<<q, "root">>] = child[<<q, "root">>]
                                  /\ child'[<<q, "dc">>] = child[<<q, "dc">>]
                                  /\ page'[q] = page[q] /\ admitted'[q] = admitted[q]
    PROVE  Expected' = Expected + Times(p)' - Times(p)
<1> DEFINE O == {q \in Pages : page[q] = "open"}
           A == {q \in Pages : Admitted(q)}
           D == {q \in Pages : Departing(q)}
<1>1. /\ \A q \in Pages \ {p} : q \in O' <=> q \in O
      /\ \A q \in Pages \ {p} : q \in A' <=> q \in A
      /\ \A q \in Pages \ {p} : q \in D' <=> q \in D
  BY DEF Admitted, Departing
<1>2. /\ O \in SUBSET Pages /\ A \in SUBSET Pages /\ D \in SUBSET Pages
      /\ O' \in SUBSET Pages /\ A' \in SUBSET Pages /\ D' \in SUBSET Pages
  OBVIOUS
<1>3. /\ Expected = Cardinality(O) + Cardinality(A) + Cardinality(D)
      /\ Expected' = Cardinality(O') + Cardinality(A') + Cardinality(D')
  BY DEF Expected
<1>4. /\ Times(p) = Bit(p \in O) + Bit(p \in A) + Bit(p \in D)
      /\ Times(p)' = Bit(p \in O') + Bit(p \in A') + Bit(p \in D')
  BY DEF Times, Bit
<1> HIDE DEF O, A, D
<1>6. /\ Cardinality(O) \in Nat /\ Cardinality(O') = Cardinality(O) + Bit(p \in O') - Bit(p \in O)
      /\ Cardinality(A) \in Nat /\ Cardinality(A') = Cardinality(A) + Bit(p \in A') - Bit(p \in A)
      /\ Cardinality(D) \in Nat /\ Cardinality(D') = Cardinality(D) + Bit(p \in D') - Bit(p \in D)
  BY <1>1, <1>2, SetChange
<1> QED BY <1>3, <1>4, <1>6 DEF Bit

LEMMA PageStep ==
    ASSUME TypeOK, Counting, NEW p \in Pages,
           \A q \in Pages \ {p} : /\ child'[<<q, "root">>] = child[<<q, "root">>]
                                  /\ child'[<<q, "dc">>] = child[<<q, "dc">>]
                                  /\ page'[q] = page[q] /\ admitted'[q] = admitted[q],
           child'[<<p, "root">>] # "none" => page'[p] # "open",
           child'[<<p, "root">>] \in {"load", "store"} => admitted'[p],
           clientCount' \in Int, forgotten' \in Nat,
           clientCount' + forgotten + Times(p) = clientCount + forgotten' + Times(p)'
    PROVE  Counting'
<1>1. PagesOK'
  BY DEF Counting, PagesOK
<1>2. Times(p) \in Int /\ Times(p)' \in Int
  BY DEF Times, Bit
<1>3. /\ clientCount = Expected + forgotten /\ Expected \in Nat
      /\ clientCount \in Int /\ forgotten \in Nat
  BY Counted DEF Counting, TypeOK
<1>4. Expected' = Expected + Times(p)' - Times(p)
  BY OnePage
<1> QED BY <1>1, <1>2, <1>3, <1>4 DEF Counting

\* A step of one connection.
LEMMA RequestStep ==
    ASSUME TypeOK, NEW p \in Pages, NEW k \in {"root", "dc"}, NEW s, Becomes(<<p, k>>, s)
    PROVE  /\ child'[<<p, k>>] = s
           /\ \A j \in {"root", "dc"} \ {k} : child'[<<p, j>>] = child[<<p, j>>]
           /\ \A q \in Pages \ {p} : /\ child'[<<q, "root">>] = child[<<q, "root">>]
                                     /\ child'[<<q, "dc">>] = child[<<q, "dc">>]
BY DEF TypeOK, Requests, Becomes

LEMMA RootCounted ==
    ASSUME TypeOK, Safe, Counting, TypeOK', NEW p \in Pages,
           LET r == <<p, "root">>
           IN  \/ Accept(r) \/ Fork(r) \/ ChildStep(r) \/ Down(r)
               \/ ForkFails(r) \/ ConnectionLost(r)
    PROVE  Counting'
<1> DEFINE r == <<p, "root">>
<1> USE DEF Bit, Waiting, ServerMoves, ChildMoves, PageOf, IsRoot, childVars, shmVars, serverVars, history
<1>1. /\ child[r] # "none" => page[p] # "open"
      /\ child[r] \in {"load", "store"} => admitted[p]
      /\ clientCount' \in Int /\ clientCount \in Int /\ forgotten' \in Nat /\ forgotten \in Nat
      /\ child \in [Requests -> ChildState] /\ r \in Requests
      /\ admitted \in [Pages -> BOOLEAN] /\ page \in [Pages -> {"away", "loading", "open", "refused"}]
  BY DEF Counting, PagesOK, TypeOK, Requests
<1>2. ASSUME NEW s, Becomes(r, s),
             \A q \in Pages \ {p} : page'[q] = page[q] /\ admitted'[q] = admitted[q],
             s # "none" => page'[p] # "open",
             s \in {"load", "store"} => admitted'[p],
             clientCount' + forgotten
                     + Bit(page[p] = "open") + Bit(child[r] \in {"up", "respond"} /\ admitted[p])
                 = clientCount + forgotten'
                     + Bit(page'[p] = "open") + Bit(s \in {"up", "respond"} /\ admitted'[p])
      PROVE  Counting'
  <2>1. /\ child'[r] = s /\ child'[<<p, "dc">>] = child[<<p, "dc">>]
        /\ \A q \in Pages \ {p} : /\ child'[<<q, "root">>] = child[<<q, "root">>]
                                  /\ child'[<<q, "dc">>] = child[<<q, "dc">>]
    BY <1>2, RequestStep
  <2>2. Departing(p)' <=> Departing(p)
    BY <2>1 DEF Departing
  <2>3. clientCount' + forgotten + Times(p) = clientCount + forgotten' + Times(p)'
    BY <1>1, <1>2, <2>1, <2>2 DEF Times, Admitted
  <2> QED BY <1>1, <1>2, <2>1, <2>3, PageStep
<1>3. CASE \/ Accept(r) \/ Fork(r) \/ ReadRequest(r) \/ Sleep(r) \/ Down(r)
  <2>1. PICK s \in Waiting \cup {"test"} : Becomes(r, s) /\ child[r] \in Waiting
    BY <1>3 DEF Accept, Fork, ReadRequest, Sleep, Down
  <2>2. UNCHANGED <<page, admitted, clientCount, forgotten>>
    BY <1>3 DEF Accept, Fork, ReadRequest, Sleep, Down
  <2> QED BY <1>1, <1>2, <2>1, <2>2
<1>4. CASE Test(r)
  <2>1. PICK s \in {"load", "up"} :
          /\ Becomes(r, s) /\ child[r] = "test"
          /\ s = "load" <=> clientCount < maxClients
          /\ admitted' = [admitted EXCEPT ![p] = clientCount < maxClients]
    BY <1>4 DEF Test
  <2>2. UNCHANGED <<page, clientCount, forgotten>>
    BY <1>4 DEF Test
  <2>3. /\ admitted'[p] <=> s = "load"
        /\ \A q \in Pages \ {p} : admitted'[q] = admitted[q]
    BY <1>1, <2>1
  <2> QED BY <1>1, <1>2, <2>1, <2>2, <2>3
<1>5. CASE Load(r)
  <2>1. Becomes(r, "store") /\ child[r] = "load" /\ UNCHANGED <<page, admitted, clientCount, forgotten>>
    BY <1>5 DEF Load
  <2> QED BY <1>1, <1>2, <2>1
<1>6. CASE Store(r)
  <2>1. Becomes(r, "up") /\ child[r] = "store" /\ UNCHANGED <<page, admitted, forgotten>>
    BY <1>6 DEF Store
  <2>2. clientCount' = clientCount + 1
    BY <1>1, <1>6, <2>1 DEF Store, Safe, TestStillTrue
  <2> QED BY <1>1, <1>2, <2>1, <2>2
<1>7. CASE Up(r)
  <2>1. Becomes(r, "respond") /\ child[r] = "up" /\ UNCHANGED <<page, admitted, clientCount, forgotten>>
    BY <1>7 DEF Up
  <2> QED BY <1>1, <1>2, <2>1
<1>8. CASE Respond(r)
  <2>1. /\ Becomes(r, "none") /\ child[r] = "respond" /\ UNCHANGED <<admitted, clientCount, forgotten>>
        /\ page' = [page EXCEPT ![p] = IF admitted[p] THEN "open" ELSE "refused"]
    BY <1>8 DEF Respond
  <2>2. /\ page'[p] = IF admitted[p] THEN "open" ELSE "refused"
        /\ \A q \in Pages \ {p} : page'[q] = page[q]
    BY <1>1, <2>1
  <2> QED BY <1>1, <1>2, <2>1, <2>2
<1>9. CASE ForkFails(r) \/ ConnectionLost(r)
  <2>1. /\ Becomes(r, "none") /\ UNCHANGED <<admitted, clientCount>>
        /\ child[r] \in {"accepted", "request", "respond"}
        /\ page' = [page EXCEPT ![p] = "away"]
        /\ forgotten' = IF child[r] = "respond" /\ admitted[p] THEN forgotten + 1 ELSE forgotten
    BY <1>9 DEF ForkFails, ConnectionLost, Unanswered
  <2>2. page'[p] = "away" /\ \A q \in Pages \ {p} : page'[q] = page[q]
    BY <1>1, <2>1
  <2> QED BY <1>1, <1>2, <2>1, <2>2
<1> QED BY <1>3, <1>4, <1>5, <1>6, <1>7, <1>8, <1>9 DEF ChildStep

LEMMA BeaconCounted ==
    ASSUME TypeOK, Safe, Counting, TypeOK', NEW p \in Pages,
           LET r == <<p, "dc">>
           IN  \/ Accept(r) \/ Fork(r) \/ ChildStep(r) \/ Down(r)
               \/ ForkFails(r) \/ ConnectionLost(r)
    PROVE  Counting'
<1> DEFINE r == <<p, "dc">>
<1> USE DEF Bit, Waiting, ServerMoves, ChildMoves, PageOf, IsRoot, childVars, shmVars, serverVars, history
<1>1. /\ child[<<p, "root">>] # "none" => page[p] # "open"
      /\ child[<<p, "root">>] \in {"load", "store"} => admitted[p]
      /\ clientCount' \in Int /\ clientCount \in Int /\ forgotten' \in Nat /\ forgotten \in Nat
      /\ child \in [Requests -> ChildState] /\ r \in Requests
  BY DEF Counting, PagesOK, TypeOK, Requests
<1> DEFINE before == Waiting \cup {"test", "load", "store"}
<1>2. ASSUME NEW s, Becomes(r, s), page' = page, admitted' = admitted,
             clientCount' + forgotten + Bit(child[r] \in before)
                 = clientCount + forgotten' + Bit(s \in before)
      PROVE  Counting'
  <2>1. /\ child'[r] = s /\ child'[<<p, "root">>] = child[<<p, "root">>]
        /\ \A q \in Pages \ {p} : /\ child'[<<q, "root">>] = child[<<q, "root">>]
                                  /\ child'[<<q, "dc">>] = child[<<q, "dc">>]
    BY <1>2, RequestStep
  <2>2. Admitted(p)' <=> Admitted(p)
    BY <1>2, <2>1 DEF Admitted
  <2>3. clientCount' + forgotten + Times(p) = clientCount + forgotten' + Times(p)'
    BY <1>1, <1>2, <2>1, <2>2 DEF Times, Departing
  <2> QED BY <1>1, <1>2, <2>1, <2>3, PageStep
<1>3. CASE \/ Accept(r) \/ Fork(r) \/ ReadRequest(r) \/ Sleep(r) \/ Down(r)
  <2>1. PICK s \in Waiting \cup {"test"} : Becomes(r, s) /\ child[r] \in Waiting
    BY <1>3 DEF Accept, Fork, ReadRequest, Sleep, Down
  <2>2. UNCHANGED <<page, admitted, clientCount, forgotten>>
    BY <1>3 DEF Accept, Fork, ReadRequest, Sleep, Down
  <2> QED BY <1>1, <1>2, <2>1, <2>2
<1>4. CASE Test(r)
  <2>1. child[r] = "test" /\ UNCHANGED <<page, admitted, clientCount, forgotten>>
    BY <1>4 DEF Test
  <2>2. clientCount > 0
    BY <1>1, <2>1, Counted DEF Counting, Departing
  <2>3. Becomes(r, "load")
    BY <1>4, <2>2 DEF Test
  <2> QED BY <1>1, <1>2, <2>1, <2>3
<1>5. CASE Load(r)
  <2>1. Becomes(r, "store") /\ child[r] = "load" /\ UNCHANGED <<page, admitted, clientCount, forgotten>>
    BY <1>5 DEF Load
  <2> QED BY <1>1, <1>2, <2>1
<1>6. CASE Store(r)
  <2>1. Becomes(r, "up") /\ child[r] = "store" /\ UNCHANGED <<page, admitted, forgotten>>
    BY <1>6 DEF Store
  <2>2. clientCount' = clientCount - 1
    BY <1>1, <1>6, <2>1 DEF Store, Safe, TestStillTrue
  <2> QED BY <1>1, <1>2, <2>1, <2>2
<1>7. CASE Up(r)
  <2>1. Becomes(r, "respond") /\ child[r] = "up" /\ UNCHANGED <<page, admitted, clientCount, forgotten>>
    BY <1>7 DEF Up
  <2> QED BY <1>1, <1>2, <2>1
<1>8. CASE Respond(r)
  <2>1. Becomes(r, "none") /\ child[r] = "respond" /\ UNCHANGED <<page, admitted, clientCount, forgotten>>
    BY <1>8 DEF Respond
  <2> QED BY <1>1, <1>2, <2>1
<1>9. CASE ForkFails(r) \/ ConnectionLost(r)
  <2>1. /\ Becomes(r, "none") /\ UNCHANGED <<page, admitted, clientCount>>
        /\ child[r] \in {"accepted", "request", "respond"}
        /\ forgotten' = IF child[r] = "respond" THEN forgotten ELSE forgotten + 1
    BY <1>9 DEF ForkFails, ConnectionLost, Unanswered
  <2> QED BY <1>1, <1>2, <2>1
<1> QED BY <1>3, <1>4, <1>5, <1>6, <1>7, <1>8, <1>9 DEF ChildStep

LEMMA BrowserCounted ==
    ASSUME TypeOK, Counting, TypeOK', NEW p \in Pages, Open(p) \/ Leave(p) \/ Refresh(p)
    PROVE  Counting'
<1> USE DEF Admitted, Departing, Times, Bit, Waiting, childVars, shmVars, serverVars, history, NoRequest
<1>1. /\ clientCount' \in Int /\ clientCount \in Int /\ forgotten' \in Nat /\ forgotten \in Nat
      /\ child \in [Requests -> ChildState] /\ <<p, "root">> \in Requests /\ <<p, "dc">> \in Requests
      /\ page \in [Pages -> {"away", "loading", "open", "refused"}]
  BY DEF TypeOK, Requests
<1>2. \A q \in Pages \ {p} : /\ child'[<<q, "root">>] = child[<<q, "root">>]
                             /\ child'[<<q, "dc">>] = child[<<q, "dc">>]
                             /\ page'[q] = page[q] /\ admitted'[q] = admitted[q]
  BY <1>1 DEF Open, Leave, Refresh, Becomes, Requests
<1>3. UNCHANGED <<clientCount, admitted, forgotten>>
  BY DEF Open, Leave, Refresh
<1>4. CASE Open(p)
  <2>1. /\ page[p] # "open" /\ page'[p] = "loading"
        /\ child[<<p, "root">>] = "none" /\ child[<<p, "dc">>] = "none"
        /\ child'[<<p, "root">>] = "queued" /\ child'[<<p, "dc">>] = "none"
    BY <1>1, <1>4 DEF Open, Becomes
  <2> QED BY <1>1, <1>2, <1>3, <2>1, PageStep
<1>5. CASE Leave(p)
  <2>1. /\ page[p] = "open" /\ page'[p] = "away"
        /\ child[<<p, "root">>] = "none" /\ child[<<p, "dc">>] = "none"
        /\ child'[<<p, "root">>] = "none" /\ child'[<<p, "dc">>] = "queued"
    BY <1>1, <1>5 DEF Leave, Becomes
  <2> QED BY <1>1, <1>2, <1>3, <2>1, PageStep
<1>6. CASE Refresh(p)
  <2>1. /\ page[p] = "open" /\ page'[p] = "loading"
        /\ child[<<p, "root">>] = "none" /\ child[<<p, "dc">>] = "none"
        /\ child'[<<p, "root">>] = "queued" /\ child'[<<p, "dc">>] = "queued"
    BY <1>1, <1>6 DEF Refresh
  <2> QED BY <1>1, <1>2, <1>3, <2>1, PageStep
<1> QED BY <1>4, <1>5, <1>6

LEMMA InitCInv == Init => CInv
<1> SUFFICES ASSUME Init PROVE CInv
  OBVIOUS
<1>1. PagesOK
  BY DEF Init, PagesOK, Requests
<1>2. /\ {p \in Pages : page[p] = "open"} = {}
      /\ {p \in Pages : Admitted(p)} = {} /\ {p \in Pages : Departing(p)} = {}
  BY DEF Init, Admitted, Departing, Waiting, Requests
<1>3. Counting
  BY <1>1, <1>2, FS_EmptySet DEF Init, Counting, Expected
<1> QED BY <1>3, InitIInv DEF CInv

LEMMA StepCInv ==
    ASSUME CInv, [Next]_vars
    PROVE  CInv'
<1>1. IInv'
  BY StepIInv DEF CInv
<1>2. ASSUME Orderly'
      PROVE  Orderly
  <2>1. Undisturbed
    BY <1>2, Disturbed DEF CInv, IInv, Orderly
  <2>2. Listening' => Listening
    BY DEF Next, ServerStep, ChildStep, Loop, OnStart, ReadConfig, ConfigUp, CallAccept,
           AcceptFails, CloseSocket, Destroy, Accept, Fork, ConfigDown, ForkFails,
           ConnectionLost, ReadRequest, Sleep, Test, Load, Store, Up, Respond, Down, Open,
           Leave, Refresh, Sigusr1, Sigint, SignalArrives, ServerInterrupted, ServerWaits,
           ServerMoves, Listening, vars, serverVars
  <2> QED BY <1>2, <2>1, <2>2 DEF Orderly
<1> SUFFICES ASSUME Orderly' PROVE Counting'
  BY <1>1 DEF CInv
<1>3. TypeOK /\ Safe /\ Counting /\ TypeOK'
  BY <1>1, <1>2 DEF CInv, IInv, TInv, Orderly
<1>4. ASSUME \A r \in Requests : child'[r] = child[r],
             UNCHANGED <<page, admitted, clientCount, forgotten>>
      PROVE  Counting'
  <2>1. \A p \in Pages : <<p, "root">> \in Requests /\ <<p, "dc">> \in Requests
    BY DEF Requests
  <2>2. \A p \in Pages : (Admitted(p)' <=> Admitted(p)) /\ (Departing(p)' <=> Departing(p))
    BY <1>4, <2>1 DEF Admitted, Departing
  <2>3. Expected' = Expected
    BY <1>4, <2>2 DEF Expected
  <2> QED BY <1>3, <1>4, <2>1, <2>3 DEF Counting, PagesOK
<1>5. ASSUME NEW r \in Requests,
             Accept(r) \/ Fork(r) \/ ChildStep(r) \/ Down(r) \/ ForkFails(r) \/ ConnectionLost(r)
      PROVE  Counting'
  <2>1. PICK p \in Pages, k \in {"root", "dc"} : r = <<p, k>>
    BY DEF Requests
  <2> QED BY <1>3, <1>5, <2>1, RootCounted, BeaconCounted
<1>6. ASSUME NEW p \in Pages, Open(p) \/ Leave(p) \/ Refresh(p)
      PROVE  Counting'
  BY <1>3, <1>6, BrowserCounted
<1>7. CASE Sigusr1 \/ Sigint
  <2>1. Sigint => \A r \in Requests : ~ChildWaits(r)
    BY DEF Sigint, Orderly, Undisturbed
  <2>2. \A r \in Requests : child'[r] = child[r]
    BY <1>7, <2>1 DEF Sigusr1, Sigint, childVars
  <2> QED BY <1>4, <1>7, <2>2 DEF Sigusr1, Sigint, childVars, shmVars
<1>8. CASE \/ Loop \/ OnStart \/ ReadConfig \/ ConfigUp \/ CallAccept \/ AcceptFails \/ ConfigDown
  BY <1>4, <1>8 DEF Loop, OnStart, ReadConfig, ConfigUp, CallAccept, AcceptFails, ConfigDown,
                    childVars, shmVars, history
<1>9. ~CloseSocket /\ ~Destroy
  BY DEF CloseSocket, Destroy, ServerMoves, Orderly, Listening
<1>10. CASE UNCHANGED vars
  BY <1>4, <1>10 DEF vars, childVars, shmVars, history
<1> QED BY <1>5, <1>6, <1>7, <1>8, <1>9, <1>10 DEF Next, ServerStep

\* No increment and no decrement of client_count is lost, for any number of
\* pages: it is the number of pages that are shown, about to be shown, or left
\* with the beacon still on its way, and one for every answer and beacon that
\* was lost.  However late the beacon is, the check "client_count > 0" of POST
\* /dc never refuses a decrement.
THEOREM Counts == Spec => []CountMatches
<1>1. CInv /\ [Next]_vars => CInv'
  BY StepCInv
<1>2. CInv => CountMatches
  BY DEF CInv, Orderly, Counting, CountMatches
<1> QED BY <1>1, <1>2, InitCInv, PTL DEF Spec
=============================================================================
