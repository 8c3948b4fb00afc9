--------------------------- MODULE TempSensorProofs ---------------------------
(***************************************************************************)
(* Proofs about the sensor thread, for any number of samples and any       *)
(* periods.                                                                *)
(***************************************************************************)
EXTENDS TempSensor, FiniteSetTheorems, FunctionTheorems, TLAPS

\* The number of samples is never taken back to 0, and the index fits the
\* number the thread used last, unless an entry already went outside.
IndexFits ==
    /\ shmSamples = 0 => samples = 0
    /\ samples = 0 => prevSamples = 0
    /\ ~outside => currentSample = 0 \/ currentSample < prevSamples
    /\ th = "read" => samples # 0
    /\ th = "next" => prevSamples = samples

IInv == TypeOK /\ IndexFits

LEMMA InitIInv == Init => IInv
<1> SUFFICES ASSUME Init PROVE IInv
  OBVIOUS
<1>1. quit \in BOOLEAN /\ timer \in BOOLEAN /\ outside \in BOOLEAN
  BY DEF Init
<1>2. age \in [Cells -> Initial .. MaxSamples]
  BY SampleAssumption DEF Init, Initial
<1>3. TypeOK
  BY <1>1, <1>2, SampleAssumption, ChangesAssumption DEF Init, TypeOK, Cells
<1>4. IndexFits
  BY DEF Init, IndexFits
<1> QED BY <1>3, <1>4 DEF IInv

\* One reading ages every cell but the one it goes into.
LEMMA AgeType ==
    ASSUME TypeOK
    PROVE  \A c \in Cells : Older(Buffer[c]) \in Initial .. MaxSamples
<1>0. age \in [Cells -> Initial .. MaxSamples]
  BY DEF TypeOK
<1>1. Buffer \in [Cells -> Initial .. MaxSamples]
  BY <1>0, SampleAssumption DEF Buffer, Resized, Initial
<1> QED BY <1>1, SampleAssumption DEF Older, Initial

LEMMA ThreadIInv ==
    ASSUME IInv, Thread \/ Expires
    PROVE  IInv'
<1> USE DEF mainVars, configVars, filterVars, signalVars
<1>1. CASE Opens \/ Check
  <2>1. CASE Opens
    <3>1. TypeOK'
      BY <2>1 DEF Opens, IInv, TypeOK
    <3> QED BY <2>1, <3>1 DEF Opens, IInv, IndexFits
  <2>2. CASE Check
    <3>1. TypeOK'
      BY <2>2 DEF Check, IInv, TypeOK
    <3> QED BY <2>2, <3>1 DEF Check, IInv, IndexFits
  <2> QED BY <1>1, <2>1, <2>2
<1>7. CASE SetAlarmHandler \/ SetQuitHandler
  <2>1. CASE SetAlarmHandler
    <3>1. TypeOK'
      BY <2>1 DEF SetAlarmHandler, SetHandler, IInv, TypeOK
    <3> QED BY <2>1, <3>1 DEF SetAlarmHandler, IInv, IndexFits
  <2>2. CASE SetQuitHandler
    <3>1. TypeOK'
      BY <2>2 DEF SetQuitHandler, SetHandler, IInv, TypeOK
    <3> QED BY <2>2, <3>1 DEF SetQuitHandler, IInv, IndexFits
  <2> QED BY <1>7, <2>1, <2>2
<1>2. CASE LoadSamples
  <2>1. TypeOK'
    BY <1>2 DEF LoadSamples, IInv, TypeOK
  <2>2. IndexFits'
    BY <1>2 DEF LoadSamples, IInv, TypeOK, IndexFits, Cells
  <2> QED BY <1>2, <2>1, <2>2 DEF IInv
<1>3. CASE LoadPeriod
  <2>1. TypeOK'
    BY <1>3 DEF LoadPeriod, IInv, TypeOK
  <2> QED BY <1>3, <2>1 DEF LoadPeriod, IInv, IndexFits
<1>4. CASE Read
  <2>1. age' \in [Cells -> Initial .. MaxSamples]
    BY <1>4, AgeType, SampleAssumption DEF Read, IInv, Initial
  <2>2. repeated' \subseteq Cells
    BY <1>4 DEF Read, Repeated, IInv, TypeOK
  <2>3. outside' \in BOOLEAN
    BY <1>4 DEF Read, IInv, TypeOK
  <2>4. TypeOK'
    BY <1>4, <2>1, <2>2, <2>3 DEF Read, IInv, TypeOK
  <2>5. ~outside' => currentSample < samples
    <3>1. ~outside' => ~(currentSample >= samples)
      BY <1>4, Zenon DEF Read
    <3>2. currentSample \in Nat /\ samples \in Nat
      BY SampleAssumption DEF IInv, TypeOK, Cells
    <3> QED BY <3>1, <3>2
  <2> QED BY <1>4, <2>4, <2>5 DEF Read, IInv, IndexFits
<1>5. CASE Sleeps
  <2>1. currentSample' \in Cells /\ (currentSample' = 0 \/ currentSample' < samples)
    BY <1>5, SampleAssumption DEF Sleeps, After, IInv, TypeOK, Cells
  <2>4. prevSamples = samples
    BY <1>5 DEF Sleeps, IInv, IndexFits
  <2>2. timer' \in BOOLEAN
    BY <1>5 DEF Sleeps
  <2>3. TypeOK'
    BY <1>5, <2>1, <2>2 DEF Sleeps, IInv, TypeOK
  <2> QED BY <1>5, <2>1, <2>3, <2>4 DEF Sleeps, IInv, IndexFits
<1>6. CASE Expires
  <2>1. TypeOK'
    <3>1. th' \in {th, "check"} /\ timer' = FALSE /\ UNCHANGED <<mainVars, quit, configVars, filterVars, signalVars>>
      BY <1>6 DEF Expires, Awake
    <3> QED BY <3>1 DEF IInv, TypeOK
  <2> QED BY <1>6, <2>1 DEF Expires, Awake, IInv, IndexFits
<1> QED BY <1>1, <1>2, <1>3, <1>4, <1>5, <1>6, <1>7 DEF Thread

LEMMA MainIInv ==
    ASSUME IInv, SetPeriod \/ SendAlarm \/ Main
    PROVE  IInv'
<1> USE DEF mainVars, configVars, filterVars, signalVars
<1>1. CASE SetPeriod
  <2>1. TypeOK'
    BY <1>1, ChangesAssumption DEF SetPeriod, IInv, TypeOK
  <2> QED BY <1>1, <2>1 DEF SetPeriod, IInv, IndexFits
<1>2. CASE SetSamples
  <2>1. TypeOK'
    BY <1>2 DEF SetSamples, IInv, TypeOK
  <2>2. shmSamples' = 0 => samples = 0
    BY <1>2 DEF SetSamples, IInv, IndexFits
  <2> QED BY <1>2, <2>1, <2>2 DEF SetSamples, IInv, IndexFits
<1>3. CASE SendAlarm
  <2>1. TypeOK'
    BY <1>3 DEF SendAlarm, Kills, Awake, IInv, TypeOK
  <2> QED BY <1>3, <2>1 DEF SendAlarm, Kills, Awake, IInv, IndexFits
<1>4. CASE SendQuit
  <2>1. TypeOK'
    BY <1>4 DEF SendQuit, Kills, IInv, TypeOK
  <2> QED BY <1>4, <2>1 DEF SendQuit, Kills, IInv, IndexFits
<1>5. CASE Join
  <2>1. TypeOK'
    BY <1>5 DEF Join, IInv, TypeOK
  <2> QED BY <1>5, <2>1 DEF Join, IInv, IndexFits
<1>6. CASE Create
  <2>1. TypeOK'
    BY <1>6 DEF Create, IInv, TypeOK
  <2> QED BY <1>6, <2>1 DEF Create, IInv, IndexFits
<1>7. CASE BlockAlarm
  <2>1. TypeOK'
    BY <1>7 DEF BlockAlarm, Block, IInv, TypeOK
  <2> QED BY <1>7, <2>1 DEF BlockAlarm, IInv, IndexFits
<1> QED BY <1>1, <1>2, <1>3, <1>4, <1>5, <1>6, <1>7 DEF Main

\* The variables of read_sensor keep their types however update_configuration
\* and the two signals interleave with it: the index stays below the largest
\* number of samples there can be, whatever the present one is.
THEOREM Typed == Spec => []TypeOK
<1>1. Init => IInv
  BY InitIInv
<1>2. IInv /\ [Next]_vars => IInv'
  <2>1. ASSUME IInv, Next PROVE IInv'
    BY <2>1, ThreadIInv, MainIInv DEF Next
  <2>2. ASSUME IInv, UNCHANGED vars PROVE IInv'
    BY <2>2 DEF vars, mainVars, configVars, filterVars, signalVars, IInv, TypeOK, IndexFits
  <2> QED BY <2>1, <2>2
<1>3. IInv => TypeOK
  BY DEF IInv
<1> QED BY <1>1, <1>2, <1>3, PTL DEF Spec
-----------------------------------------------------------------------------
(***************************************************************************)
(* The window of the moving average.                                       *)
(***************************************************************************)

\* How many readings before the one in cell i the one in cell c was, in a ring
\* of n cells; and the cell with a given distance.
Distance(c, i, n) == IF c <= i THEN i - c ELSE i - c + n
At(d, i, n) == IF d <= i THEN i - d ELSE i - d + n
Succ(i, n) == IF i + 1 >= n THEN 0 ELSE i + 1

\* The last k readings are in the k cells up to the last one written.
Ring(k, i) ==
    /\ k \in 1 .. prevSamples /\ i \in 0 .. prevSamples - 1
    /\ \A c \in Cells :
          age[c] = IF c < prevSamples /\ Distance(c, i, prevSamples) < k
                   THEN Distance(c, i, prevSamples) ELSE Initial
    /\ currentSample = IF th = "next" THEN i ELSE Succ(i, prevSamples)

\* Nothing was read yet, or the ring is as it should be; a cell with a text
\* of an earlier reading was written all the same.
Windowed ==
    /\ prevSamples # 0 => \E k, i \in Nat : Ring(k, i)
    /\ \A c \in repeated : age[c] # Initial

\* The thread was created, and has the handlers it has set.
Lives ==
    /\ main = "create" => th = "none"
    /\ th \notin {"none", "alarm_handler", "ended"} => "SIGALRM" \in handled
    /\ th \notin {"none", "alarm_handler", "quit_handler", "ended"} => "SIGUSR2" \in handled

WInv == IInv /\ Lives /\ (~outside => Windowed)

LEMMA RingArithmetic ==
    ASSUME NEW n \in Nat, NEW i \in 0 .. n - 1
    PROVE  /\ \A c \in 0 .. n - 1 : /\ Distance(c, i, n) \in 0 .. n - 1
                                    /\ At(Distance(c, i, n), i, n) = c
           /\ \A d \in 0 .. n - 1 : At(d, i, n) \in 0 .. n - 1 /\ Distance(At(d, i, n), i, n) = d
           /\ Succ(i, n) \in 0 .. n - 1
           /\ \A c \in 0 .. n - 1 :
                 Distance(c, Succ(i, n), n) = IF c = Succ(i, n) THEN 0 ELSE Distance(c, i, n) + 1
BY DEF Distance, At, Succ

LEMMA FirstReading ==
    ASSUME WInv, Read, prevSamples # samples, ~outside'
    PROVE  Windowed'
<1>1. /\ prevSamples' = samples /\ samples' = samples /\ th' = "next" /\ currentSample' = currentSample
      /\ age' = [c \in Cells |-> IF c = currentSample THEN 0 ELSE Older(Buffer[c])]
  BY DEF Read, configVars
<1>2. samples \in Nat /\ currentSample \in Cells /\ currentSample < samples
  <2>1. ~(currentSample >= samples)
    BY Zenon DEF Read
  <2>2. samples \in Nat /\ currentSample \in Cells /\ currentSample \in Nat
    BY SampleAssumption DEF WInv, IInv, TypeOK, Cells
  <2> QED BY <2>1, <2>2
<1>3. \A c \in Cells : Older(Buffer[c]) = Initial
  BY DEF Buffer, Resized, Older
<1>4. currentSample \in 0 .. samples - 1 /\ samples > 0
  BY <1>2, SampleAssumption DEF Cells
<1>5. \A c \in Cells : c < samples =>
          (Distance(c, currentSample, samples) < 1 <=> c = currentSample)
  BY <1>2, <1>4, SampleAssumption DEF Distance, Cells
<1>6. Distance(currentSample, currentSample, samples) = 0
  BY <1>4 DEF Distance
<1>7. Ring(1, currentSample)'
  BY <1>1, <1>2, <1>3, <1>4, <1>5, <1>6 DEF Ring
<1>8. currentSample \in Nat
  BY <1>4
<1>9. repeated' \subseteq {currentSample}
  BY DEF Read, Repeated, Resized
<1>10. \A c \in repeated' : age'[c] # Initial
  BY <1>1, <1>2, <1>9 DEF Initial
<1> QED BY <1>1, <1>2, <1>7, <1>8, <1>10 DEF Windowed

LEMMA NextReading ==
    ASSUME WInv, Read, prevSamples = samples, ~outside'
    PROVE  Windowed'
<1> DEFINE n == prevSamples
<1>1. /\ prevSamples' = n /\ samples' = samples /\ th' = "next" /\ currentSample' = currentSample
      /\ age' = [c \in Cells |-> IF c = currentSample THEN 0 ELSE Older(age[c])]
      /\ th = "read" /\ ~outside
  BY DEF Read, configVars, Buffer, Resized
<1>2. n \in 1 .. MaxSamples /\ MaxSamples \in Nat
  BY SampleAssumption DEF Read, WInv, IInv, TypeOK, IndexFits
<1>3. PICK k \in Nat, i \in Nat : Ring(k, i)
  BY <1>1, <1>2 DEF WInv, Windowed
<1>4. k \in 1 .. n /\ i \in 0 .. n - 1 /\ currentSample = Succ(i, n)
  BY <1>1, <1>3 DEF Ring
<1> DEFINE j == Succ(i, n)
           m == IF k = n THEN n ELSE k + 1
<1>5. m \in 1 .. n /\ m \in Nat /\ j \in 0 .. n - 1 /\ j \in Nat
  BY <1>2, <1>4, RingArithmetic
<1>6. ASSUME NEW c \in Cells
      PROVE  age'[c] = IF c < n /\ Distance(c, j, n) < m THEN Distance(c, j, n) ELSE Initial
  <2>1. age'[c] = IF c = j THEN 0 ELSE Older(age[c])
    BY <1>1, <1>4
  <2>2. c \in Nat
    BY <1>2 DEF Cells
  <2>3. CASE c >= n
    <3>1. age[c] = Initial /\ c # j
      BY <1>2, <1>3, <1>5, <2>2, <2>3 DEF Ring
    <3> QED BY <1>2, <2>1, <2>2, <2>3, <3>1 DEF Older
  <2>4. CASE c < n
    <3>1. c \in 0 .. n - 1
      BY <1>2, <2>2, <2>4
    <3>2. /\ Distance(c, j, n) = IF c = j THEN 0 ELSE Distance(c, i, n) + 1
          /\ Distance(c, i, n) \in 0 .. n - 1 /\ Distance(c, j, n) \in 0 .. n - 1
      <4>1. n \in Nat
        BY <1>2
      <4>2. Distance(c, j, n) = IF c = j THEN 0 ELSE Distance(c, i, n) + 1
        BY <1>4, <3>1, <4>1, RingArithmetic
      <4>3. Distance(c, i, n) \in 0 .. n - 1
        BY <1>4, <3>1, <4>1, RingArithmetic
      <4> HIDE DEF j
      <4>4. Distance(c, j, n) \in 0 .. n - 1
        BY <1>5, <3>1, <4>1, RingArithmetic
      <4> QED BY <4>2, <4>3, <4>4
    <3>3. age[c] = IF Distance(c, i, n) < k THEN Distance(c, i, n) ELSE Initial
      BY <1>3, <2>4 DEF Ring
    <3> HIDE DEF j
    <3>4. CASE c = j
      BY <1>5, <2>1, <2>4, <3>2, <3>4
    <3>5. CASE c # j /\ Distance(c, i, n) < k
      <4>1. age[c] = Distance(c, i, n) /\ Distance(c, i, n) + 1 <= n - 1
        BY <1>2, <3>2, <3>3, <3>5
      <4>2. Older(age[c]) = Distance(c, i, n) + 1
        BY <1>2, <3>2, <4>1 DEF Older, Initial
      <4> QED BY <1>2, <1>4, <2>1, <2>4, <3>2, <3>5, <4>1, <4>2
    <3>6. CASE c # j /\ ~(Distance(c, i, n) < k)
      <4>1. Older(age[c]) = Initial
        BY <3>3, <3>6 DEF Older
      <4>2. Distance(c, j, n) >= m
        BY <1>2, <1>4, <3>2, <3>6
      <4> QED BY <1>5, <2>1, <3>2, <3>6, <4>1, <4>2
    <3> QED BY <3>4, <3>5, <3>6
  <2> QED BY <1>2, <2>2, <2>3, <2>4
<1>7. Ring(m, j)'
  BY <1>1, <1>4, <1>5, <1>6 DEF Ring
<1>8. \A c \in repeated' : c \in Cells /\ (c = currentSample \/ c \in repeated)
  BY <1>2 DEF Read, Repeated, Resized, WInv, IInv, TypeOK
<1>9. ASSUME NEW c \in repeated' PROVE age'[c] # Initial
  <2>1. CASE c = currentSample
    BY <1>1, <1>8, <2>1 DEF Initial
  <2>2. CASE c # currentSample
    <3>1. age[c] # Initial /\ age[c] \in Initial .. MaxSamples /\ age'[c] = Older(age[c])
      BY <1>1, <1>8, <2>2 DEF WInv, Windowed, IInv, TypeOK
    <3> QED BY <1>2, <3>1 DEF Older, Initial
  <2> QED BY <2>1, <2>2
<1> QED BY <1>1, <1>2, <1>5, <1>7, <1>9 DEF Windowed

\* Steps that do not read.
LEMMA KeptWindow ==
    ASSUME WInv, ~outside, UNCHANGED <<prevSamples, age, repeated>>,
           \/ UNCHANGED currentSample /\ (th = "next" <=> th' = "next")
           \/ th = "next" /\ th' # "next" /\ currentSample' = After(currentSample)
    PROVE  Windowed'
<1>1. prevSamples # 0 => \E k, i \in Nat : Ring(k, i)
  BY DEF WInv, Windowed
<1>2. ASSUME prevSamples # 0 PROVE \E k, i \in Nat : Ring(k, i)'
  <2>1. PICK k \in Nat, i \in Nat : Ring(k, i)
    BY <1>1, <1>2
  <2>2. currentSample' = IF th' = "next" THEN i ELSE Succ(i, prevSamples)
    BY <2>1 DEF Ring, After, Succ, WInv, IInv, IndexFits
  <2>3. Ring(k, i)'
    BY <2>1, <2>2 DEF Ring
  <2> QED BY <2>3
<1>3. \A c \in repeated' : age'[c] # Initial
  BY DEF WInv, Windowed
<1> QED BY <1>2, <1>3 DEF Windowed

LEMMA StepLives ==
    ASSUME WInv, [Next]_vars
    PROVE  Lives'
<1> USE DEF WInv, Lives, mainVars, configVars, filterVars, signalVars, SetHandler, Kills, Awake
<1>1. CASE Thread
  BY <1>1 DEF Thread, SetAlarmHandler, SetQuitHandler, Opens, Check, LoadSamples, LoadPeriod, Read,
              Sleeps
<1>2. CASE Expires \/ SetPeriod \/ SendAlarm
  BY <1>2 DEF Expires, SetPeriod, SendAlarm
<1>3. CASE Main
  BY <1>3 DEF Main, Create, BlockAlarm, SetSamples, SendQuit, Join
<1>4. CASE UNCHANGED vars
  BY <1>4 DEF vars
<1> QED BY <1>1, <1>2, <1>3, <1>4 DEF Next

LEMMA StepWInv ==
    ASSUME WInv, [Next]_vars
    PROVE  WInv'
<1>1. IInv'
  <2>1. CASE Next
    BY <2>1, ThreadIInv, MainIInv DEF Next, WInv
  <2>2. CASE UNCHANGED vars
    BY <2>2 DEF vars, mainVars, configVars, filterVars, signalVars, WInv, IInv, TypeOK, IndexFits
  <2> QED BY <2>1, <2>2
<1> SUFFICES ASSUME ~outside' PROVE Windowed'
  BY <1>1, StepLives DEF WInv
<1>3. CASE Read
  BY <1>3, FirstReading, NextReading
<1>4. CASE Sleeps
  BY <1>4, KeptWindow DEF Sleeps
<1>5. CASE LoadPeriod
  <2>1. ~outside /\ UNCHANGED <<prevSamples, age, repeated, currentSample>>
    BY <1>5 DEF LoadPeriod, filterVars
  <2>2. CASE samples = 0
    <3>1. prevSamples' = 0
      BY <2>1, <2>2 DEF WInv, IInv, IndexFits
    <3>2. \A c \in repeated' : age'[c] # Initial
      BY <2>1 DEF WInv, Windowed
    <3> QED BY <3>1, <3>2 DEF Windowed
  <2>3. CASE samples # 0
    BY <1>5, <2>1, <2>3, KeptWindow DEF LoadPeriod
  <2> QED BY <2>2, <2>3
<1>7. ASSUME UNCHANGED filterVars, th = "next" <=> th' = "next"
      PROVE  Windowed'
  BY <1>7, KeptWindow DEF filterVars
<1>8. CASE SetAlarmHandler \/ SetQuitHandler \/ Opens \/ Check \/ LoadSamples \/ Expires
  BY <1>7, <1>8 DEF SetAlarmHandler, SetQuitHandler, Opens, Check, LoadSamples, Expires, Awake
<1>9. CASE SetPeriod \/ SendAlarm \/ Main
  <2>1. UNCHANGED filterVars
    BY <1>9 DEF SetPeriod, SendAlarm, Main, Create, BlockAlarm, SetSamples, SendQuit, Join
  <2>2. th = "next" <=> th' = "next"
    BY <1>9 DEF SetPeriod, SendAlarm, Main, Create, BlockAlarm, SetSamples, SendQuit, Join, Kills,
                Awake, WInv, Lives
  <2> QED BY <1>7, <2>1, <2>2
<1>10. CASE UNCHANGED vars
  BY <1>7, <1>10 DEF vars, filterVars
<1> QED BY <1>3, <1>4, <1>5, <1>8, <1>9, <1>10 DEF Next, Thread

LEMMA RingIsWindow ==
    ASSUME WInv, samples # 0, th = "next", ~outside
    PROVE  LET cells  == 0 .. samples - 1
               filled == {c \in cells : age[c] # Initial}
           IN  /\ {age[c] : c \in filled} = 0 .. Cardinality(filled) - 1
               /\ \A c \in Cells \ cells : age[c] = Initial
               /\ repeated \subseteq filled
<1> DEFINE n      == samples
           cells  == 0 .. n - 1
           filled == {c \in cells : age[c] # Initial}
<1>1. n \in 1 .. MaxSamples /\ n \in Nat /\ MaxSamples \in Nat /\ prevSamples = n /\ cells \subseteq Cells
  BY SampleAssumption DEF WInv, IInv, TypeOK, IndexFits, Cells
<1>2. PICK k \in Nat, i \in Nat : Ring(k, i)
  BY <1>1 DEF WInv, Windowed
<1>3. /\ k \in 1 .. n /\ i \in 0 .. n - 1
      /\ \A c \in Cells : age[c] = IF c < n /\ Distance(c, i, n) < k THEN Distance(c, i, n) ELSE Initial
  BY <1>1, <1>2 DEF Ring
<1>4. \A c \in cells : /\ Distance(c, i, n) \in 0 .. n - 1 /\ At(Distance(c, i, n), i, n) = c
                       /\ c \in filled <=> Distance(c, i, n) < k
                       /\ c \in filled => age[c] = Distance(c, i, n)
  <2> SUFFICES ASSUME NEW c \in cells
               PROVE  /\ Distance(c, i, n) \in 0 .. n - 1 /\ At(Distance(c, i, n), i, n) = c
                      /\ c \in filled <=> Distance(c, i, n) < k
                      /\ c \in filled => age[c] = Distance(c, i, n)
    OBVIOUS
  <2>1. Distance(c, i, n) \in 0 .. n - 1 /\ At(Distance(c, i, n), i, n) = c
    BY <1>1, <1>3, RingArithmetic
  <2>2. age[c] = IF Distance(c, i, n) < k THEN Distance(c, i, n) ELSE Initial
    BY <1>1, <1>3
  <2>3. Distance(c, i, n) # Initial
    BY <1>1, <2>1 DEF Initial
  <2>4. c \in filled <=> age[c] # Initial
    OBVIOUS
  <2> HIDE DEF filled
  <2> QED BY <2>1, <2>2, <2>3, <2>4
<1>5. \A d \in 0 .. k - 1 : At(d, i, n) \in filled /\ age[At(d, i, n)] = d
  <2> SUFFICES ASSUME NEW d \in 0 .. k - 1 PROVE At(d, i, n) \in filled /\ age[At(d, i, n)] = d
    OBVIOUS
  <2>1. d \in 0 .. n - 1 /\ d < k
    BY <1>1, <1>3
  <2>2. At(d, i, n) \in cells /\ Distance(At(d, i, n), i, n) = d
    BY <1>1, <1>3, <2>1, RingArithmetic
  <2> QED BY <1>4, <2>1, <2>2
<1>6. \A c \in filled : age[c] \in 0 .. k - 1 /\ At(age[c], i, n) = c
  BY <1>1, <1>3, <1>4
<1>10. repeated \subseteq filled
  <2> SUFFICES ASSUME NEW c \in repeated PROVE c \in filled
    OBVIOUS
  <2>1. c \in Cells /\ age[c] # Initial
    BY DEF WInv, Windowed, IInv, TypeOK
  <2>2. c \in Int /\ c >= 0 /\ c < n
    BY <1>1, <1>3, <2>1 DEF Cells
  <2> QED BY <1>1, <2>1, <2>2
<1> HIDE DEF filled
<1>7. Cardinality(filled) = k
  <2> DEFINE F == [c \in filled |-> age[c]]
  <2>1. F \in [filled -> 0 .. k - 1] /\ \A a, b \in filled : F[a] = F[b] => a = b
    BY <1>6
  <2>2. \A d \in 0 .. k - 1 : \E c \in filled : F[c] = d
    BY <1>5
  <2>3. F \in Bijection(filled, 0 .. k - 1)
    BY <2>1, <2>2, Fun_IsBij
  <2>4. ExistsBijection(0 .. k - 1, filled)
    BY <2>3, Fun_ExistsBij, Fun_ExistsBijSymmetric
  <2>5. IsFiniteSet(0 .. k - 1) /\ Cardinality(0 .. k - 1) = k
    BY <1>3, <1>1, FS_Interval
  <2> QED BY <2>4, <2>5, FS_Bijection
<1>8. {age[c] : c \in filled} = 0 .. k - 1
  BY <1>5, <1>6
<1>9. \A c \in Cells \ cells : age[c] = Initial
  <2> SUFFICES ASSUME NEW c \in Cells, c \notin cells PROVE age[c] = Initial
    OBVIOUS
  <2>1. ~(c < n)
    BY <1>1 DEF Cells
  <2> QED BY <1>3, <2>1
<1> QED BY <1>7, <1>8, <1>9, <1>10 DEF filled

\* As long as no entry went outside temps the average is over the latest
\* entries, for any number of samples and however the configuration changes
\* between two of them: temps is filled again whenever the number changes.
THEOREM LatestWindow == Spec => []WindowIsLatest
<1>1. Init => WInv
  BY InitIInv DEF Init, WInv, Windowed, Lives
<1>2. WInv /\ [Next]_vars => WInv'
  BY StepWInv
<1>3. WInv => WindowIsLatest
  BY RingIsWindow DEF WindowIsLatest
<1> QED BY <1>1, <1>2, <1>3, PTL DEF Spec
=============================================================================
