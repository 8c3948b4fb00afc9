------------------------------ MODULE TempSensor ------------------------------
(***************************************************************************)
(* The sensor thread of the web server (02_cuat/server/src/                *)
(* temp_sensor.cpp): it reads the temperature once per period and keeps a  *)
(* moving average, with the period and the number of samples that          *)
(* HttpServer::update_configuration writes into shared memory, and it is   *)
(* ended by the destructor of TempSensor with two signals and a join. The  *)
(* signals are those of lib_src/signal.cpp: a handler belongs to the       *)
(* process, what is blocked to a thread, and the default action of both    *)
(* signals ends the process.                                               *)
(*                                                                         *)
(* The thread takes the semaphore only to store the average, which nobody  *)
(* reads under it; HttpServer.tla has the semaphore.                       *)
(***************************************************************************)
EXTENDS Integers, FiniteSets

CONSTANTS
    MaxSamples,     \* bound: values of samples_moving_average_filter
    Periods,        \* values of sensor_period
    MaxChanges      \* bound: times the configuration is read

ASSUME SampleAssumption == MaxSamples \in Nat \ {0}

ASSUME PeriodAssumption == Periods # {} /\ Periods \subseteq Nat \ {0}

ASSUME ChangesAssumption == MaxChanges \in Nat \ {0}

Cells == 0 .. MaxSamples - 1

VARIABLES
    shmPeriod, shmSamples,  \* in shared memory; 0 until they are configured
    main,       \* where the thread of the server is
    changes,    \* how often it read the configuration
    th,         \* where the sensor thread is
    quit,       \* TempSensor::quit
    period, samples, prevSamples, currentSample,    \* its locals
    age,        \* temps: how many entries ago each cell was written
    repeated,   \* the cells that got the text of an earlier reading
    timer,      \* the single shot timer is armed
    handled,    \* the signals that have a handler
    blocked,    \* the signals the thread of the server blocks
    outside     \* a cell was written that temps does not have

mainVars   == <<shmPeriod, shmSamples, main, changes>>
configVars == <<period, samples>>
filterVars == <<prevSamples, currentSample, age, repeated, outside>>
signalVars == <<handled, blocked>>
vars       == <<mainVars, th, quit, configVars, filterVars, timer, signalVars>>

Initial == -1       \* the cell holds the 25 degrees it was filled with

Init ==
    /\ shmPeriod = 0
    /\ shmSamples = 0
    /\ main = "create"
    /\ changes = 0
    /\ th = "none"
    /\ quit = FALSE
    /\ period = 0
    /\ samples = 0
    /\ prevSamples = 0
    /\ currentSample = 0
    /\ age = [c \in Cells |-> Initial]
    /\ repeated = {}
    /\ timer = FALSE
    /\ handled = {}
    /\ blocked = {}
    /\ outside = FALSE
-----------------------------------------------------------------------------
(***************************************************************************)
(* read_sensor.                                                            *)
(***************************************************************************)

SetHandler(s) == handled' = handled \cup {s}

SetAlarmHandler ==
    /\ th = "alarm_handler"
    /\ th' = "quit_handler"
    /\ SetHandler("SIGALRM")
    /\ UNCHANGED <<mainVars, quit, configVars, filterVars, timer, blocked>>

SetQuitHandler ==
    /\ th = "quit_handler"
    /\ th' = "open"
    /\ SetHandler("SIGUSR2")
    /\ UNCHANGED <<mainVars, quit, configVars, filterVars, timer, blocked>>

Opens ==
    /\ th = "open"
    /\ th' \in {"check", "ended"}       \* ended: the device cannot be opened
    /\ UNCHANGED <<mainVars, quit, configVars, filterVars, timer, signalVars>>

Check ==
    /\ th = "check"
    /\ th' = IF quit THEN "ended" ELSE "samples"
    /\ UNCHANGED <<mainVars, quit, configVars, filterVars, timer, signalVars>>

LoadSamples ==
    /\ th = "samples"
    /\ th' = "period"
    /\ samples' = shmSamples
    /\ UNCHANGED <<mainVars, quit, period, filterVars, timer, signalVars>>

LoadPeriod ==
    /\ th = "period"
    /\ th' = IF samples = 0 THEN "next" ELSE "read"
    /\ period' = shmPeriod
    /\ UNCHANGED <<mainVars, quit, samples, filterVars, timer, signalVars>>

Older(a) == IF a \in {Initial, MaxSamples} THEN a ELSE a + 1

\* Mutant: temps is filled again only when it grows.
ResizedOnGrowth == prevSamples < samples

\* temps has as many cells as the last number of samples; a new one starts
\* with 25 degrees in each.
Resized == prevSamples # samples
Buffer == IF Resized THEN [c \in Cells |-> Initial] ELSE age
Repeated == IF Resized THEN {} ELSE repeated

\* temps[current_sample] is what str_temp says. The result of read() is not
\* looked at: when it fails, the text of the reading before is entered again
\* (or, at first, what was on the stack). Outside temps anything may be
\* overwritten; no property says more of a run in which it was.
Read ==
    /\ th = "read"
    /\ th' = "next"
    /\ prevSamples' = samples
    /\ age' = [c \in Cells |-> IF c = currentSample THEN 0 ELSE Older(Buffer[c])]
    /\ repeated' \in {Repeated \ {currentSample}, Repeated \cup {currentSample}}
    /\ outside' = (outside \/ currentSample >= samples)
    /\ UNCHANGED <<mainVars, quit, configVars, currentSample, timer, signalVars>>

\* Mutant: the index wraps one cell late.
AfterLate(i) == IF i + 1 > samples THEN 0 ELSE i + 1

After(i) == IF i + 1 >= samples THEN 0 ELSE i + 1

\* Mutant: the single shot timer is not set again.
SleepsUnarmed ==
    /\ th = "next"
    /\ th' = "wait"
    /\ currentSample' = After(currentSample)
    /\ UNCHANGED <<mainVars, quit, configVars, prevSamples, age, repeated, outside, timer, signalVars>>

\* The timer is set and waited for.  A period of 0 disarms it.  The shortest
\* period is a second, so it does not expire before sigwait is called.
Sleeps ==
    /\ th = "next"
    /\ th' = "wait"
    /\ currentSample' = After(currentSample)
    /\ timer' = (period # 0)
    /\ UNCHANGED <<mainVars, quit, configVars, prevSamples, age, repeated, outside, signalVars>>

\* SIGALRM ends sigwait; anywhere else its handler does nothing.
Awake == IF th = "wait" THEN "check" ELSE th

\* The SIGALRM of the timer is for the process: any thread that does not block
\* it may get it.
Expires ==
    /\ timer
    /\ timer' = FALSE
    /\ \/ th' = Awake
       \/ "SIGALRM" \notin blocked /\ th' = th
    /\ UNCHANGED <<mainVars, quit, configVars, filterVars, signalVars>>
-----------------------------------------------------------------------------
(***************************************************************************)
(* The thread of the server.                                               *)
(***************************************************************************)

\* The constructor starts the thread; when it cannot, the exception ends the
\* process.
Create ==
    /\ main = "create"
    /\ \/ main' = "block" /\ th' = "alarm_handler"
       \/ main' = "dead" /\ th' = th
    /\ UNCHANGED <<shmPeriod, shmSamples, changes, quit, configVars, filterVars, timer>>
    /\ UNCHANGED signalVars

\* The thread of the server blocks SIGALRM, after it started the other one.
Block(s) == blocked' = blocked \cup {s}

BlockAlarm ==
    /\ main = "block"
    /\ main' = "start"
    /\ Block("SIGALRM")
    /\ UNCHANGED <<shmPeriod, shmSamples, changes, th, quit, configVars, filterVars, timer, handled>>

\* update_configuration goes through config.cfg, in its order. A key that is
\* missing or has a negative value leaves what there was; 0 means a default.
SetPeriod ==
    /\ main \in {"start", "running"}
    /\ changes < MaxChanges
    /\ changes' = changes + 1
    /\ main' = "config"
    /\ shmPeriod' \in Periods \cup {shmPeriod}
    /\ UNCHANGED <<shmSamples, th, quit, configVars, filterVars, timer, signalVars>>

SetSamples ==
    /\ main = "config"
    /\ main' = "running"
    /\ shmSamples' \in (1 .. MaxSamples) \cup {shmSamples}
    /\ UNCHANGED <<shmPeriod, changes, th, quit, configVars, filterVars, timer, signalVars>>

(***************************************************************************)
(* ~TempSensor, when start returns: at once if SIGINT came before it.      *)
(***************************************************************************)

\* pthread_kill of a signal without a handler ends the process.
Kills(s) ==
    /\ s \notin handled
    /\ main' = "dead"
    /\ th' = "ended"
    /\ UNCHANGED quit

SendAlarm ==
    /\ main \in {"start", "running"}
    /\ \/ Kills("SIGALRM")
       \/ "SIGALRM" \in handled /\ main' = "alarm_sent" /\ th' = Awake /\ quit' = quit
    /\ UNCHANGED <<shmPeriod, shmSamples, changes, configVars, filterVars, timer>>
    /\ UNCHANGED signalVars

\* Mutant: the handler of SIGUSR2 does not say so.
SendQuitIgnored ==
    /\ main = "alarm_sent"
    /\ main' = "join"
    /\ UNCHANGED <<shmPeriod, shmSamples, changes, th, quit, configVars, filterVars, timer>>
    /\ UNCHANGED signalVars

\* sigwait goes on waiting after the handler of SIGUSR2.
SendQuit ==
    /\ main = "alarm_sent"
    /\ \/ Kills("SIGUSR2")
       \/ "SIGUSR2" \in handled /\ main' = "join" /\ quit' = TRUE /\ th' = th
    /\ UNCHANGED <<shmPeriod, shmSamples, changes, configVars, filterVars, timer>>
    /\ UNCHANGED signalVars

Join ==
    /\ main = "join"
    /\ th = "ended"
    /\ main' = "joined"
    /\ UNCHANGED <<shmPeriod, shmSamples, changes, th, quit, configVars, filterVars, timer, signalVars>>
-----------------------------------------------------------------------------
Thread == SetAlarmHandler \/ SetQuitHandler \/ Opens \/ Check \/ LoadSamples \/ LoadPeriod \/ Read \/ Sleeps

Main == Create \/ BlockAlarm \/ SetSamples \/ SendQuit \/ Join

Next == Thread \/ Expires \/ SetPeriod \/ SendAlarm \/ Main

Spec == Init /\ [][Next]_vars

\* Both threads run, the server configures itself when it starts, and an
\* armed timer expires.  Nothing obliges the server to leave.
Fairness ==
    /\ WF_vars(Thread) /\ WF_vars(Main) /\ WF_vars(Expires)
    /\ WF_vars(main = "start" /\ SetPeriod)

FairSpec == Spec /\ Fairness
-----------------------------------------------------------------------------
(***************************************************************************)
(* Properties.                                                             *)
(***************************************************************************)

\* Every reading goes into a cell of temps, however the number of samples
\* changes: config.cfg:12 calls it the "amount of samples taken for the moving
\* average filter", and current_sample is kept when it gets smaller.
IndexInRange == ~outside

\* The types; an index beyond every array there can be is not among them.
TypeOK ==
    /\ shmPeriod \in Periods \cup {0}
    /\ shmSamples \in 0 .. MaxSamples
    /\ main \in {"create", "block", "start", "config", "running", "alarm_sent", "join", "joined",
                 "dead"}
    /\ changes \in 0 .. MaxChanges
    /\ th \in {"none", "alarm_handler", "quit_handler", "open", "check", "samples", "period",
               "read", "next", "wait", "ended"}
    /\ quit \in BOOLEAN
    /\ period \in Periods \cup {0}
    /\ samples \in 0 .. MaxSamples
    /\ prevSamples \in 0 .. MaxSamples
    /\ currentSample \in Cells
    /\ age \in [Cells -> Initial .. MaxSamples]
    /\ repeated \subseteq Cells
    /\ timer \in BOOLEAN
    /\ handled \subseteq {"SIGALRM", "SIGUSR2"} /\ blocked \subseteq {"SIGALRM"}
    /\ outside \in BOOLEAN

\* As long as no entry went outside temps, the average is over the latest
\* entries, each once, whether the number of samples grew, shrank or stayed:
\* of the cells that were written, one has the last entry, one that before it,
\* and so on, and only a buffer that is not yet full has cells of 25 degrees.
\* An entry is a reading, or the reading before it again when read() failed.
WindowIsLatest ==
    th = "next" /\ samples # 0 /\ ~outside =>
        LET cells  == 0 .. samples - 1
            filled == {c \in cells : age[c] # Initial}
        IN  /\ {age[c] : c \in filled} = 0 .. Cardinality(filled) - 1
            /\ \A c \in Cells \ cells : age[c] = Initial
            /\ repeated \subseteq filled

\* The thread has read a period, or is about to: from then on its timer is
\* armed before every sleep. With a period of 0, which it finds when it is
\* faster than the first update_configuration, it sleeps without one.
HasPeriod ==
    \/ period # 0
    \/ shmPeriod # 0 /\ th \in {"alarm_handler", "quit_handler", "open", "check", "samples", "period"}

\* Once the thread has a period and there is a number of samples, the sensor is
\* read for ever, until the server leaves or the device cannot be opened:
\* config.cfg:9 promises a "time in seconds to consult the sensor".
KeepsReading ==
    (HasPeriod /\ shmSamples # 0)
        ~> (th = "read" \/ th = "ended" \/ main \in {"alarm_sent", "dead"})

\* The destructor returns if the thread has a period: it sees quit wherever
\* the two signals find it, in sigwait or on the way there. If they find it
\* before it set its handlers, which nothing waits for, the process dies.
JoinReturns ==
    (main = "alarm_sent" /\ HasPeriod)
        ~> (main = "joined" \/ (main = "dead" /\ handled # {"SIGALRM", "SIGUSR2"}))
=============================================================================
