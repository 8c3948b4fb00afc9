------------------------------ MODULE HttpServer ------------------------------
(***************************************************************************)
(* The web server of 02_cuat/server: the accept loop (lib_src/server.cpp), *)
(* the requests that change shared memory (src/httpserver.cpp), the System *)
(* V semaphore around it (lib_src/sem.cpp) and the signals that make the   *)
(* server read its configuration again or leave.                           *)
(*                                                                         *)
(* Every connection is served by a child process of its own.  A page of a  *)
(* browser opens a connection for "GET /" when it is loaded and one for    *)
(* "POST /dc" when it is left; both when it is refreshed.  So a connection *)
(* is named by its page and its request, and stands for its child too.     *)
(***************************************************************************)
EXTENDS Integers, FiniteSets

CONSTANTS
    Pages,          \* pages of browsers
    Files,          \* max_clients in config.cfg: an integer, or NoFile
    NoFile,         \* the configuration file cannot be opened
    DefaultClients, \* DEFAULT_MAX_CLIENTS
    Signals,        \* the signals the server is sent
    Losses,         \* whether connections break and children cannot be created
    MaxSignals,     \* bound: signals sent
    MaxLoads,       \* bound: loads of a page
    MaxFds          \* descriptors the server may hold for connections

ASSUME FileAssumption == NoFile \notin Int /\ Files \subseteq Int \cup {NoFile}

ASSUME PagesAssumption == IsFiniteSet(Pages)

ASSUME DefaultAssumption == DefaultClients \in Nat \ {0}

ASSUME EnvironmentAssumption ==
    Signals \subseteq {"SIGUSR1", "SIGINT"} /\ Losses \in BOOLEAN

ASSUME BoundAssumption == MaxSignals \in Nat /\ MaxLoads \in Nat /\ MaxFds \in Nat

Requests == Pages \X {"root", "dc"}
PageOf(r) == r[1]
IsRoot(r) == r[2] = "root"

Removed == -1       \* the semaphore no longer exists

VARIABLES
    server,         \* where the process of the server is
    flag,           \* flag_update_conf
    exit,           \* Server::exit
    fds,            \* connections the server holds a descriptor of
    sem,            \* semval, or Removed
    clientCount,    \* client_count in shared memory
    maxClients,     \* max_clients in shared memory
    file,           \* the configuration file
    child,          \* where the connection, and then its child, is
    loaded,         \* client_count as the child read it, to add to it
    admitted,       \* the page's last GET / was answered with the page
    page,           \* what each page shows
    signals, loads, \* how many signals and page loads there were
    interrupted,    \* history: a signal ended a wait for the semaphore
    forgotten       \* history: pages counted whose answer or beacon was lost

serverVars == <<server, flag, exit, fds>>
shmVars    == <<clientCount, maxClients, file>>
childVars  == <<child, loaded, admitted>>
boundVars  == <<signals, loads>>
history    == <<interrupted, forgotten>>
vars       == <<serverVars, sem, shmVars, childVars, page, boundVars, history>>

ServerStates == {"loop", "start", "down", "config", "up", "calls", "blocked",
                 "fork", "close", "destroy", "gone"}

\* The states of a connection: waiting to be accepted, accepted, and then
\* those of its child; "none" before and after.
Waiting    == {"queued", "accepted", "request", "sleep", "down"}
Critical   == {"test", "load", "store", "up"}
ChildState == {"none", "respond"} \cup Waiting \cup Critical

Init ==
    /\ server = "loop"
    /\ flag = TRUE
    /\ exit = FALSE
    /\ fds = 0
    /\ sem = 1
    /\ clientCount = 0
    /\ maxClients = 0
    /\ file \in Files
    /\ child = [r \in Requests |-> "none"]
    /\ loaded = [r \in Requests |-> 0]
    /\ admitted = [p \in Pages |-> FALSE]
    /\ page = [p \in Pages |-> "away"]
    /\ signals = 0
    /\ loads = 0
    /\ interrupted = FALSE
    /\ forgotten = 0
-----------------------------------------------------------------------------
(***************************************************************************)
(* The semaphore.  semop fails at once when the semaphore was removed, and *)
(* when a signal interrupts it; Sem::operator-- does not tell its caller,  *)
(* who goes on.                                                            *)
(***************************************************************************)

CanTake == sem # 0

Taken    == IF sem = Removed THEN Removed ELSE sem - 1
Released == IF sem = Removed THEN Removed ELSE sem + 1
-----------------------------------------------------------------------------
(***************************************************************************)
(* Server::start, with HttpServer::on_start and update_configuration.      *)
(***************************************************************************)

ServerMoves(from, to) == server = from /\ server' = to

\* Mutant: on_start is not called.
LoopNoStart ==
    /\ ServerMoves("loop", IF exit THEN "close" ELSE "calls")
    /\ UNCHANGED <<flag, exit, fds, sem, shmVars, childVars, page, boundVars, history>>

\* while(!Server::exit)
Loop ==
    /\ ServerMoves("loop", IF exit THEN "close" ELSE "start")
    /\ UNCHANGED <<flag, exit, fds, sem, shmVars, childVars, page, boundVars, history>>

OnStart ==
    /\ ServerMoves("start", IF flag THEN "down" ELSE "calls")
    /\ flag' = FALSE
    /\ UNCHANGED <<exit, fds, sem, shmVars, childVars, page, boundVars, history>>

\* Mutant: the configuration is read without the semaphore.
ConfigDownUnlocked ==
    /\ ServerMoves("down", "config")
    /\ UNCHANGED <<flag, exit, fds, sem, shmVars, childVars, page, boundVars, history>>

ConfigDown ==
    /\ ServerMoves("down", "config")
    /\ CanTake
    /\ sem' = Taken
    /\ UNCHANGED <<flag, exit, fds, shmVars, childVars, page, boundVars, history>>

NewMaxClientsUnchecked ==       \* mutant: a negative number is taken
    IF file \in {NoFile, 0} THEN DefaultClients ELSE file

\* No file, no number, and zero mean the default; a negative number is
\* refused and the old value kept.
NewMaxClients ==
    IF file \in {NoFile, 0} THEN DefaultClients
    ELSE IF file >= 1 THEN file
    ELSE maxClients

ReadConfig ==
    /\ ServerMoves("config", "up")
    /\ maxClients' = NewMaxClients
    /\ UNCHANGED <<flag, exit, fds, sem, clientCount, file, childVars, page, boundVars, history>>

ConfigUp ==
    /\ ServerMoves("up", "calls")
    /\ sem' = Released
    /\ UNCHANGED <<flag, exit, fds, shmVars, childVars, page, boundVars, history>>

\* From here on a signal interrupts accept.
CallAccept ==
    /\ ServerMoves("calls", "blocked")
    /\ UNCHANGED <<flag, exit, fds, sem, shmVars, childVars, page, boundVars, history>>

Becomes(r, state) == child' = [child EXCEPT ![r] = state]

Accept(r) ==
    /\ ServerMoves("blocked", "fork")
    /\ child[r] = "queued"
    /\ fds < MaxFds
    /\ fds' = fds + 1
    /\ Becomes(r, "accepted")
    /\ UNCHANGED <<flag, exit, sem, shmVars, loaded, admitted, page, boundVars, history>>

\* accept fails with EMFILE, and the loop goes round.
AcceptFails ==
    /\ ServerMoves("blocked", "loop")
    /\ fds = MaxFds
    /\ \E r \in Requests : child[r] = "queued"
    /\ UNCHANGED <<flag, exit, fds, sem, shmVars, childVars, page, boundVars, history>>

\* The server keeps its descriptor: only the child closes the connection.
Fork(r) ==
    /\ ServerMoves("fork", "loop")
    /\ child[r] = "accepted"
    /\ Becomes(r, "request")
    /\ UNCHANGED <<flag, exit, fds, sem, shmVars, loaded, admitted, page, boundVars, history>>

\* Without an answer a page that was being loaded shows nothing; if it was
\* counted it stays so, as does the page whose beacon never came.
Unanswered(r) ==
    LET counted == IF child[r] = "respond" THEN IsRoot(r) /\ admitted[PageOf(r)] ELSE ~IsRoot(r)
    IN  /\ page' = IF IsRoot(r) THEN [page EXCEPT ![PageOf(r)] = "away"] ELSE page
        /\ forgotten' = IF counted THEN forgotten + 1 ELSE forgotten
        /\ UNCHANGED interrupted

\* Socket::init or fork fails: the server closes the connection.
ForkFails(r) ==
    /\ Losses
    /\ ServerMoves("fork", "loop")
    /\ child[r] = "accepted"
    /\ Becomes(r, "none")
    /\ fds' = fds - 1
    /\ Unanswered(r)
    /\ UNCHANGED <<flag, exit, sem, shmVars, loaded, admitted, boundVars>>

\* The listening socket is closed, with the connections not yet accepted.
CloseSocket ==
    /\ ServerMoves("close", "destroy")
    /\ child' = [r \in Requests |-> IF child[r] = "queued" THEN "none" ELSE child[r]]
    /\ page' = [p \in Pages |-> IF child[<<p, "root">>] = "queued" THEN "away" ELSE page[p]]
    /\ UNCHANGED <<flag, exit, fds, sem, shmVars, loaded, admitted, boundVars, history>>

\* The destructor of Sem removes the semaphore; no child is waited for.
Destroy ==
    /\ ServerMoves("destroy", "gone")
    /\ sem' = Removed
    /\ UNCHANGED <<flag, exit, fds, shmVars, childVars, page, boundVars, history>>
-----------------------------------------------------------------------------
(***************************************************************************)
(* HttpServer::on_accept, in a child.                                      *)
(***************************************************************************)

ChildMoves(r, from, to) == child[r] = from /\ Becomes(r, to)

ReadRequest(r) ==
    /\ ChildMoves(r, "request", IF IsRoot(r) THEN "sleep" ELSE "down")
    /\ UNCHANGED <<serverVars, sem, shmVars, loaded, admitted, page, boundVars, history>>

\* usleep(5000), however long the beacon of the page takes.
Sleep(r) ==
    /\ ChildMoves(r, "sleep", "down")
    /\ UNCHANGED <<serverVars, sem, shmVars, loaded, admitted, page, boundVars, history>>

\* Mutant: POST /dc only gives the semaphore back.
DownForRootOnly(r) ==
    /\ ChildMoves(r, "down", "test")
    /\ IsRoot(r) => CanTake
    /\ sem' = IF IsRoot(r) THEN Taken ELSE sem
    /\ UNCHANGED <<serverVars, shmVars, loaded, admitted, page, boundVars, history>>

Down(r) ==
    /\ ChildMoves(r, "down", "test")
    /\ CanTake
    /\ sem' = Taken
    /\ UNCHANGED <<serverVars, shmVars, loaded, admitted, page, boundVars, history>>

\* client_count >= max_clients, or client_count > 0.
Test(r) ==
    /\ child[r] = "test"
    /\ IF IsRoot(r)
       THEN /\ admitted' = [admitted EXCEPT ![PageOf(r)] = clientCount < maxClients]
            /\ Becomes(r, IF clientCount < maxClients THEN "load" ELSE "up")
       ELSE /\ UNCHANGED admitted
            /\ Becomes(r, IF clientCount > 0 THEN "load" ELSE "up")
    /\ UNCHANGED <<serverVars, sem, shmVars, loaded, page, boundVars, history>>

\* client_count++ and client_count-- read and then write shared memory.
Load(r) ==
    /\ ChildMoves(r, "load", "store")
    /\ loaded' = [loaded EXCEPT ![r] = clientCount]
    /\ UNCHANGED <<serverVars, sem, shmVars, admitted, page, boundVars, history>>

Store(r) ==
    /\ ChildMoves(r, "store", "up")
    /\ clientCount' = IF IsRoot(r) THEN loaded[r] + 1 ELSE loaded[r] - 1
    /\ UNCHANGED <<serverVars, sem, maxClients, file, loaded, admitted, page, boundVars, history>>

\* Mutant: a page that is refused keeps the semaphore.
UpForgotten(r) ==
    /\ ChildMoves(r, "up", "respond")
    /\ sem' = IF IsRoot(r) /\ ~admitted[PageOf(r)] THEN sem ELSE Released
    /\ UNCHANGED <<serverVars, shmVars, loaded, admitted, page, boundVars, history>>

Up(r) ==
    /\ ChildMoves(r, "up", "respond")
    /\ sem' = Released
    /\ UNCHANGED <<serverVars, shmVars, loaded, admitted, page, boundVars, history>>

\* The answer arrives, the browser closes the connection, the child ends.
Respond(r) ==
    /\ ChildMoves(r, "respond", "none")
    /\ page' = IF IsRoot(r)
               THEN [page EXCEPT ![PageOf(r)] =
                        IF admitted[PageOf(r)] THEN "open" ELSE "refused"]
               ELSE page
    /\ UNCHANGED <<serverVars, sem, shmVars, loaded, admitted, boundVars, history>>

\* The browser is gone: send fails, or the request never came.
ConnectionLost(r) ==
    /\ Losses
    /\ child[r] \in {"request", "respond"}
    /\ Becomes(r, "none")
    /\ Unanswered(r)
    /\ UNCHANGED <<serverVars, sem, shmVars, loaded, admitted, boundVars>>
-----------------------------------------------------------------------------
(***************************************************************************)
(* The browsers, and the signals.                                          *)
(***************************************************************************)

Listening == server \notin {"destroy", "gone"}

NoRequest(p) == child[<<p, "root">>] = "none" /\ child[<<p, "dc">>] = "none"

Open(p) ==
    /\ Listening
    /\ page[p] \in {"away", "refused"}
    /\ NoRequest(p)
    /\ loads < MaxLoads
    /\ loads' = loads + 1
    /\ page' = [page EXCEPT ![p] = "loading"]
    /\ Becomes(<<p, "root">>, "queued")
    /\ UNCHANGED <<serverVars, sem, shmVars, loaded, admitted, signals, history>>

Leave(p) ==
    /\ Listening
    /\ page[p] = "open"
    /\ NoRequest(p)
    /\ page' = [page EXCEPT ![p] = "away"]
    /\ Becomes(<<p, "dc">>, "queued")
    /\ UNCHANGED <<serverVars, sem, shmVars, loaded, admitted, boundVars, history>>

Refresh(p) ==
    /\ Listening
    /\ page[p] = "open"
    /\ NoRequest(p)
    /\ loads < MaxLoads
    /\ loads' = loads + 1
    /\ page' = [page EXCEPT ![p] = "loading"]
    /\ child' = [child EXCEPT ![<<p, "root">>] = "queued", ![<<p, "dc">>] = "queued"]
    /\ UNCHANGED <<serverVars, sem, shmVars, loaded, admitted, signals, history>>

\* semop fails, and the process goes on as if it had the semaphore.
ServerWaits == server = "down" /\ ~CanTake
ChildWaits(r) == child[r] = "down" /\ ~CanTake

ServerInterrupted ==
    IF server = "blocked" THEN "loop" ELSE IF ServerWaits THEN "config" ELSE server

SignalArrives(s) ==
    /\ s \in Signals
    /\ server # "gone"
    /\ signals < MaxSignals
    /\ signals' = signals + 1
    /\ server' = ServerInterrupted

\* The file was edited, and the server is told.
Sigusr1 ==
    /\ SignalArrives("SIGUSR1")
    /\ interrupted' = (interrupted \/ ServerWaits)
    /\ flag' = TRUE
    /\ file' \in Files
    /\ UNCHANGED <<exit, fds, sem, clientCount, maxClients, childVars, page, loads, forgotten>>

\* Control-C reaches the children too, which inherit the handler.
Sigint ==
    /\ SignalArrives("SIGINT")
    /\ interrupted' = (interrupted \/ ServerWaits \/ \E r \in Requests : ChildWaits(r))
    /\ exit' = TRUE
    /\ child' = [r \in Requests |-> IF ChildWaits(r) THEN "test" ELSE child[r]]
    /\ UNCHANGED <<flag, fds, sem, shmVars, loaded, admitted, page, loads, forgotten>>
-----------------------------------------------------------------------------
ServerStep ==
    \/ Loop \/ OnStart \/ ReadConfig \/ ConfigUp \/ CallAccept
    \/ AcceptFails \/ CloseSocket \/ Destroy
    \/ \E r \in Requests : Accept(r) \/ Fork(r)

ChildStep(r) ==
    \/ ReadRequest(r) \/ Sleep(r) \/ Test(r) \/ Load(r) \/ Store(r) \/ Up(r) \/ Respond(r)

Next ==
    \/ ServerStep
    \/ ConfigDown
    \/ \E r \in Requests : ChildStep(r) \/ Down(r) \/ ForkFails(r) \/ ConnectionLost(r)
    \/ \E p \in Pages : Open(p) \/ Leave(p) \/ Refresh(p)
    \/ Sigusr1
    \/ Sigint

Spec == Init /\ [][Next]_vars

\* The processes run; those that wait for the semaphore get it in the order
\* they came.  Nothing obliges a browser or an operator to do anything.
Fairness ==
    /\ WF_vars(ServerStep) /\ SF_vars(ConfigDown)
    /\ \A r \in Requests : WF_vars(ChildStep(r)) /\ SF_vars(Down(r))

FairSpec == Spec /\ Fairness
-----------------------------------------------------------------------------
(***************************************************************************)
(* Properties.                                                             *)
(***************************************************************************)

\* The types; max_clients never becomes negative.
TypeOK ==
    /\ server \in ServerStates
    /\ flag \in BOOLEAN
    /\ exit \in BOOLEAN
    /\ fds \in 0 .. MaxFds
    /\ sem \in Nat \cup {Removed}
    /\ clientCount \in Int
    /\ maxClients \in Nat
    /\ file \in Files
    /\ child \in [Requests -> ChildState]
    /\ loaded \in [Requests -> Int]
    /\ admitted \in [Pages -> BOOLEAN]
    /\ page \in [Pages -> {"away", "loading", "open", "refused"}]
    /\ signals \in 0 .. MaxSignals
    /\ loads \in 0 .. MaxLoads
    /\ interrupted \in BOOLEAN
    /\ forgotten \in Nat

\* What breaks the exclusion: a wait that a signal ended (sem.cpp:90, 114
\* tells nobody), and the semaphore that the server removes as it leaves.
Undisturbed == ~interrupted /\ sem # Removed

\* sem-- takes one from the semaphore, and there is one: of all the children
\* and the server, at most one is between its sem-- and its sem++.
ServerCritical == server \in {"config", "up"}

MutualExclusion ==
    Undisturbed =>
        /\ \A r, s \in Requests : child[r] \in Critical /\ child[s] \in Critical => r = s
        /\ \A r \in Requests : child[r] \in Critical => ~ServerCritical

\* What client_count is to be: one for every page that is shown, or about to
\* be, and one for every page that was left and whose beacon is on its way.
Admitted(p) == child[<<p, "root">>] \in {"up", "respond"} /\ admitted[p]

Departing(p) == child[<<p, "dc">>] \in Waiting \cup {"test", "load", "store"}

Expected ==
    Cardinality({p \in Pages : page[p] = "open"})
        + Cardinality({p \in Pages : Admitted(p)})
        + Cardinality({p \in Pages : Departing(p)})

\* No increment and no decrement of client_count is lost, and the check
\* "client_count > 0" never swallows a decrement; but every answer and every
\* beacon that is lost leaves a client too many, for ever.
CountMatches == Undisturbed /\ Listening => clientCount = Expected + forgotten

\* A page is added to client_count only while that is below max_clients, the
\* max_clients of that moment: the comparison is still true at the increment,
\* whatever other children and update_configuration do meanwhile.
AdmittedBelowLimit ==
    [][Undisturbed /\ clientCount' > clientCount => clientCount < maxClients]_vars

\* What the sleep in GET / is for (httpserver.cpp:82-84, "to make sure that
\* the "/dc" beacon arrives first in case of refreshing the page"): a page is
\* refused only because of others, and the one that is refreshed does not find
\* its own place still taken.
OthersCounted(p) ==
    Cardinality({q \in Pages \ {p} : page[q] = "open"})
        + Cardinality({q \in Pages \ {p} : Admitted(q)})
        + Cardinality({q \in Pages \ {p} : Departing(q)})

RefusedForOthers ==
    [][\A p \in Pages :
          child[<<p, "root">>] = "test" /\ child'[<<p, "root">>] = "up"
              => OthersCounted(p) >= maxClients]_vars

\* Every connection comes to its end, with an answer or without, even when
\* the server is told to leave: nobody waits for the semaphore for ever.  Only
\* the one that comes when the server, which never closes its descriptors of
\* the others (server.cpp:45-51), has used them all is not accepted.
NotAccepted(r) == child[r] = "queued" /\ fds = MaxFds

ConnectionsEnd ==
    \A r \in Requests : (child[r] # "none") ~> (child[r] = "none" \/ NotAccepted(r))

\* After a SIGUSR1 the configuration is read, or the server leaves: at the
\* latest when the connection that waits now has been accepted.
ReconfiguredByVisit ==
    (flag /\ \E r \in Requests : child[r] = "queued") ~> (server = "config" \/ exit)
=============================================================================
