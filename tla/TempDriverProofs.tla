-------------------------- MODULE TempDriverProofs --------------------------
(***************************************************************************)
(* Proofs about the kernel module, for any processes and operations, and    *)
(* whatever fails.                                                         *)
(***************************************************************************)
EXTENDS TempDriver, TLAPS, SequenceTheorems

\* Where a step is in probe, and what probe is past.
Number(s) == CHOOSE i \in DOMAIN ProbeSteps : ProbeSteps[i] = s
Past(r)   == Number(r) < Number(at)

\* Never given back.
LeftOver == {"sensor_node", "cdev", "number"}

\* What the registers of the controller are reached through, or nothing of it:
\* cotti_i2c_init reports success after a reset that failed.
Full   == Mapped /\ "irq" \in held
Hollow == held \subseteq LeftOver /\ \A p \in Pointers : ~pointer[p]

\* The sensor sleeps, if what it was told reached it.
Quiet == ~missed => sensor.ctrl % 4 = bmp280_mode.SLEEP

\* A device stands on its class; a class is there unless its creation failed.
DeviceHasClass == "device" \in held => "class" \in held
ClassMade      == "class" \notin Faults => "class" \in held

\* In cotti_i2c_init: exactly what the steps so far acquired.
InI2cInit ==
    /\ \A r \in Resources \ LeftOver : r \in held <=> Past(r)
    /\ \A p \in Pointers : pointer[p] <=> Past(p)

\* In the rest of probe.
InProbe ==
    /\ Full \/ (Hollow /\ Number(at) <= Number("is_connected"))
    /\ {"clk_node", "pinmux_node"} \cap held = {}
    /\ \A r \in {"name", "class", "device"} : r \in held => Past(r)
    /\ Past("name") => "name" \in held
    /\ DeviceHasClass
    /\ Past("class") => ClassMade

InStep ==
    at \in Step =>
        /\ IF at \in I2cSteps THEN InI2cInit ELSE InProbe
        /\ Number(at) <= Number("frequency") => Quiet

InUse ==
    at = "bound" =>
        /\ Full /\ "name" \in held
        /\ {"clk_node", "pinmux_node"} \cap held = {}
        /\ DeviceHasClass /\ ClassMade

\* In the error paths and in remove what is still held is still to be released,
\* and what the releases to come stand on is held.
Releasing(list, n) ==
    /\ todo = From(list, n)
    /\ \A r \in held : r \in LeftOver \/ \E i \in n .. Len(list) : list[i] = r

InUndoI2c ==
    at = "undo_i2c" =>
        /\ \E n \in 1 .. 7 : /\ Releasing(I2cErrors, n)
                             /\ n = 7 => \A p \in Pointers : ~pointer[p]
        /\ Quiet

UndoFrom(n) ==
    /\ Releasing(ProbeErrors, n)
    /\ n <= 5 => Full
    /\ n <= 4 => "name" \in held
    /\ n = 1  => DeviceHasClass /\ ClassMade
    /\ n >= 6 => Quiet

InUndo ==
    at \in {"undo", "remove"} =>
        \/ \E n \in 1 .. 10 : UndoFrom(n)
        \/ Releasing(<<"sensor_node">> \o I2cDeinit, 1) /\ Quiet

AtRest ==
    /\ at \in {"out", "unbound"} => held \subseteq LeftOver /\ Quiet
    /\ at = "oops" => "device" \notin held

\* A process that has the file open keeps the module in, and reads what it is
\* in the middle of byte by byte.
UserState == [at   : {"closed", "open", "transfer", "take"},
              job  : {"none", "open", "read"},
              todo : Seq(Registers)]

Asking(u) ==
    user[u].at \in {"transfer", "take"} =>
        \/ user[u].job = "open" /\ user[u].todo = <<"ID">>
        \/ user[u].job = "read" /\ \E n \in 1 .. 3 : user[u].todo = From(Sample, n)

UsersOK ==
    /\ user \in [Users -> UserState]
    /\ \A u \in Users :
          /\ user[u].at # "closed" => at = "bound" /\ "device" \in held
          /\ Asking(u)

Holdings == InStep /\ InUse /\ InUndoI2c /\ InUndo /\ AtRest

IInv == TypeOK /\ Holdings /\ UsersOK
-----------------------------------------------------------------------------
(***************************************************************************)
(* The steps of probe and the lists of its error paths.                    *)
(***************************************************************************)
LEMMA Positions ==
    /\ DOMAIN ProbeSteps = 1 .. 23 /\ Len(ProbeSteps) = 23
    /\ \A i \in 1 .. 23 : ProbeSteps[i] \in Step /\ Number(ProbeSteps[i]) = i
    /\ \A s \in Step : Number(s) \in 1 .. 23 /\ ProbeSteps[Number(s)] = s
<1>1. DOMAIN ProbeSteps = 1 .. 23 /\ Len(ProbeSteps) = 23
  BY DEF ProbeSteps
<1>2. \A i, j \in 1 .. 23 : ProbeSteps[i] = ProbeSteps[j] => i = j
  BY SMTT(60) DEF ProbeSteps
<1>3. ASSUME NEW i \in 1 .. 23
      PROVE  ProbeSteps[i] \in Step /\ Number(ProbeSteps[i]) = i
  <2>1. \E j \in DOMAIN ProbeSteps : ProbeSteps[j] = ProbeSteps[i]
    BY <1>1
  <2>2. Number(ProbeSteps[i]) \in 1 .. 23 /\ ProbeSteps[Number(ProbeSteps[i])] = ProbeSteps[i]
    BY <1>1, <2>1 DEF Number
  <2>3. ProbeSteps[i] \in Step
    BY <1>1 DEF Step
  <2> HIDE DEF Number
  <2> QED BY <1>2, <2>2, <2>3
<1>4. \A s \in Step : Number(s) \in 1 .. 23 /\ ProbeSteps[Number(s)] = s
  BY <1>1 DEF Step, Number
<1> QED BY <1>1, <1>3, <1>4

LEMMA Numbered ==
    /\ Number("parent") = 1 /\ Number("properties") = 2 /\ Number("values") = 3
    /\ Number("clk_node") = 4 /\ Number("pinmux_node") = 5 /\ Number("clk_get") = 6
    /\ Number("clk_ptr") = 7 /\ Number("control_module_ptr") = 8 /\ Number("i2c_ptr") = 9
    /\ Number("reset") = 10 /\ Number("get_irq") = 11 /\ Number("irq") = 12
    /\ Number("sensor_node") = 13 /\ Number("slave_address") = 14
    /\ Number("is_connected") = 15 /\ Number("calibration") = 16 /\ Number("frequency") = 17
    /\ Number("mode") = 18 /\ Number("name") = 19 /\ Number("number") = 20
    /\ Number("class") = 21 /\ Number("device") = 22 /\ Number("cdev") = 23
<1>1. /\ ProbeSteps[1] = "parent" /\ ProbeSteps[2] = "properties" /\ ProbeSteps[3] = "values"
      /\ ProbeSteps[4] = "clk_node" /\ ProbeSteps[5] = "pinmux_node" /\ ProbeSteps[6] = "clk_get"
      /\ ProbeSteps[7] = "clk_ptr" /\ ProbeSteps[8] = "control_module_ptr"
      /\ ProbeSteps[9] = "i2c_ptr" /\ ProbeSteps[10] = "reset" /\ ProbeSteps[11] = "get_irq"
      /\ ProbeSteps[12] = "irq" /\ ProbeSteps[13] = "sensor_node"
      /\ ProbeSteps[14] = "slave_address" /\ ProbeSteps[15] = "is_connected"
      /\ ProbeSteps[16] = "calibration" /\ ProbeSteps[17] = "frequency"
      /\ ProbeSteps[18] = "mode" /\ ProbeSteps[19] = "name" /\ ProbeSteps[20] = "number"
      /\ ProbeSteps[21] = "class" /\ ProbeSteps[22] = "device" /\ ProbeSteps[23] = "cdev"
  BY DEF ProbeSteps
<1> QED BY <1>1, Positions

LEMMA StepIs ==
    Step = {"parent", "properties", "values", "clk_node", "pinmux_node", "clk_get", "clk_ptr",
            "control_module_ptr", "i2c_ptr", "reset", "get_irq", "irq",
            "sensor_node", "slave_address", "is_connected", "calibration", "frequency", "mode",
            "name", "number", "class", "device", "cdev"}
BY Positions, SMTT(60) DEF Step, ProbeSteps

LEMMA NumberType ==
    /\ \A s \in Step : Number(s) \in 1 .. 23
    /\ \A s, r \in Step : Number(s) = Number(r) => s = r
    /\ I2cSteps = {s \in Step : Number(s) <= 12}
<1>1. I2cSteps = {ProbeSteps[i] : i \in 1 .. 12}
  BY DEF I2cSteps
<1>2. ASSUME NEW s \in I2cSteps PROVE s \in Step /\ Number(s) <= 12
  BY <1>1, Positions
<1>3. ASSUME NEW s \in Step, Number(s) <= 12 PROVE s \in I2cSteps
  BY <1>1, <1>3, Positions
<1>4. I2cSteps = {s \in Step : Number(s) <= 12}
  BY <1>2, <1>3
<1> QED BY <1>4, Positions

LEMMA AfterIs ==
    ASSUME NEW s \in Step
    PROVE  /\ s = "cdev" => After(s) = "bound"
           /\ s # "cdev" => After(s) \in Step /\ Number(After(s)) = Number(s) + 1
<1>1. Number("cdev") = 23 /\ Number(s) \in 1 .. 23 /\ "cdev" \in Step
  BY Numbered, Positions, StepIs
<1>2. After(s) = IF Number(s) = 23 THEN "bound" ELSE ProbeSteps[Number(s) + 1]
  BY Positions DEF After, Number
<1>3. CASE s = "cdev"
  BY <1>1, <1>2, <1>3
<1>4. CASE s # "cdev"
  <2>1. Number(s) + 1 \in 1 .. 23 /\ Number(s) # 23
    BY <1>1, <1>4, NumberType
  <2>2. After(s) = ProbeSteps[Number(s) + 1]
    BY <1>2, <2>1
  <2> QED BY <1>4, <2>1, <2>2, Positions
<1> QED BY <1>3, <1>4

\* The rest of a list, released from its front.
LEMMA FromIs ==
    ASSUME NEW S, NEW list \in Seq(S), NEW n \in 1 .. Len(list) + 1
    PROVE  /\ From(list, n) \in Seq(S) /\ Len(From(list, n)) = Len(list) + 1 - n
           /\ From(list, n) = <<>> <=> n = Len(list) + 1
           /\ n <= Len(list) => /\ Head(From(list, n)) = list[n]
                                /\ Tail(From(list, n)) = From(list, n + 1)
<1> USE DEF From
<1>1. Len(list) \in Nat /\ \A i \in n .. Len(list) : list[i] \in S
  BY ElementOfSeq, LenProperties
<1>2. From(list, n) \in Seq(S) /\ Len(From(list, n)) = Len(list) + 1 - n
  BY <1>1, SubSeqProperties
<1>3. From(list, n) = <<>> <=> n = Len(list) + 1
  <2>1. CASE From(list, n) = <<>>
    BY <1>1, <1>2, <2>1
  <2>2. CASE From(list, n) # <<>>
    BY <1>1, <1>2, <2>2, EmptySeq
  <2> QED BY <2>1, <2>2
<1>4. n <= Len(list) => /\ Head(From(list, n)) = list[n]
                        /\ Tail(From(list, n)) = From(list, n + 1)
  BY <1>1, HeadTailOfSubSeq
<1> QED BY <1>2, <1>3, <1>4

\* The elements of two lists, one after the other.
LEMMA Joined ==
    ASSUME NEW S, NEW q \in Seq(S), NEW r \in Seq(S)
    PROVE  /\ q \o r \in Seq(S) /\ Len(q \o r) = Len(q) + Len(r)
           /\ \A i \in 1 .. Len(q) : (q \o r)[i] = q[i]
           /\ \A i \in 1 .. Len(r) : (q \o r)[i + Len(q)] = r[i]
<1>1. \A i \in 1 .. Len(q) : (q \o r)[i] = q[i]
  OBVIOUS
<1>2. \A i \in 1 .. Len(r) : (q \o r)[i + Len(q)] = r[i]
  OBVIOUS
<1> QED BY <1>1, <1>2

Releases == Resources \cup {"sleep", "null"}

LEMMA I2cErrorsIs ==
    /\ I2cErrors \in Seq(Releases) /\ Len(I2cErrors) = 6
    /\ I2cErrors[1] = "i2c_ptr" /\ I2cErrors[2] = "control_module_ptr"
    /\ I2cErrors[3] = "clk_ptr" /\ I2cErrors[4] = "pinmux_node"
    /\ I2cErrors[5] = "clk_node" /\ I2cErrors[6] = "null"
BY DEF I2cErrors, Releases, Resources, Pointers

LEMMA I2cDeinitIs ==
    /\ I2cDeinit \in Seq(Releases) /\ Len(I2cDeinit) = 4
    /\ I2cDeinit[1] = "clk_ptr" /\ I2cDeinit[2] = "control_module_ptr"
    /\ I2cDeinit[3] = "i2c_ptr" /\ I2cDeinit[4] = "irq"
BY DEF I2cDeinit, Releases, Resources, Pointers

\* One more before I2cDeinit.
LEMMA BeforeDeinit ==
    ASSUME NEW r \in Releases
    PROVE  LET list == <<r>> \o I2cDeinit
           IN  /\ list \in Seq(Releases) /\ Len(list) = 5 /\ list[1] = r
               /\ \A i \in 1 .. 4 : list[i + 1] = I2cDeinit[i]
<1> DEFINE one  == <<r>>
           list == one \o I2cDeinit
<1>1. one \in Seq(Releases)
  OBVIOUS
<1>2. Len(one) = 1 /\ one[1] = r
  OBVIOUS
<1>3. I2cDeinit \in Seq(Releases)
  BY I2cDeinitIs
<1> HIDE DEF one
<1>4. /\ list \in Seq(Releases) /\ Len(list) = Len(one) + Len(I2cDeinit)
      /\ \A i \in 1 .. Len(one) : list[i] = one[i]
      /\ \A i \in 1 .. Len(I2cDeinit) : list[i + Len(one)] = I2cDeinit[i]
  BY <1>1, <1>3, Joined
<1> HIDE DEF list
<1>5. /\ list \in Seq(Releases) /\ Len(list) = 5 /\ list[1] = r
      /\ \A i \in 1 .. 4 : list[i + 1] = I2cDeinit[i]
  BY <1>2, <1>4, I2cDeinitIs
<1> QED BY <1>5 DEF list, one

LEMMA ProbeErrorsIs ==
    /\ ProbeErrors \in Seq(Releases) /\ Len(ProbeErrors) = 9
    /\ ProbeErrors[1] = "device" /\ ProbeErrors[2] = "class" /\ ProbeErrors[3] = "number"
    /\ ProbeErrors[4] = "name" /\ ProbeErrors[5] = "sleep" /\ ProbeErrors[6] = "clk_ptr"
    /\ ProbeErrors[7] = "control_module_ptr" /\ ProbeErrors[8] = "i2c_ptr"
    /\ ProbeErrors[9] = "irq"
<1> DEFINE rest == <<"sleep">> \o I2cDeinit
<1>1. CharErrors \in Seq(Releases)
  BY DEF CharErrors, Releases, Resources
<1>2. /\ Len(CharErrors) = 4
      /\ CharErrors[1] = "device" /\ CharErrors[2] = "class" /\ CharErrors[3] = "number"
      /\ CharErrors[4] = "name"
  BY DEF CharErrors
<1>3. /\ rest \in Seq(Releases) /\ Len(rest) = 5 /\ rest[1] = "sleep"
      /\ \A i \in 1 .. 4 : rest[i + 1] = I2cDeinit[i]
  <2>1. "sleep" \in Releases
    BY DEF Releases
  <2> QED BY <2>1, BeforeDeinit
<1>4. ProbeErrors = CharErrors \o rest
  <2>1. I2cDeinit \in Seq(Releases) /\ <<"sleep">> \in Seq(Releases)
    BY I2cDeinitIs DEF Releases
  <2> QED BY <1>1, <2>1, ConcatAssociative DEF ProbeErrors
<1> HIDE DEF rest
<1>5. rest \in Seq(Releases)
  BY <1>3
<1>6. /\ ProbeErrors \in Seq(Releases) /\ Len(ProbeErrors) = Len(CharErrors) + Len(rest)
      /\ \A i \in 1 .. Len(CharErrors) : ProbeErrors[i] = CharErrors[i]
      /\ \A i \in 1 .. Len(rest) : ProbeErrors[i + Len(CharErrors)] = rest[i]
  BY <1>1, <1>4, <1>5, Joined
<1> QED BY <1>2, <1>3, <1>6, I2cDeinitIs

\* The two lists that end in I2cDeinit.
LEMMA Ends ==
    /\ I2cDeinit = From(ProbeErrors, 6)
    /\ From(<<"sensor_node">> \o I2cDeinit, 2) = I2cDeinit
<1>1. ASSUME NEW list, NEW n \in Nat \ {0}, list \in Seq(Releases), Len(list) = n + 3,
             \A i \in 1 .. 4 : list[i + n - 1] = I2cDeinit[i]
      PROVE  From(list, n) = I2cDeinit
  <2>1. n \in 1 .. Len(list) + 1 /\ Len(list) + 1 - n = 4
    BY <1>1
  <2>2. From(list, n) \in Seq(Releases) /\ Len(From(list, n)) = 4
    BY <1>1, <2>1, FromIs
  <2>3. ASSUME NEW i \in 1 .. 4 PROVE From(list, n)[i] = I2cDeinit[i]
    <3>1. From(list, n)[i] = list[n + i - 1]
      BY <1>1, <2>1 DEF From
    <3> QED BY <1>1, <3>1
  <2> QED BY <2>2, <2>3, SeqEqual, I2cDeinitIs
<1>2. I2cDeinit = From(ProbeErrors, 6)
  <2>1. \A i \in 1 .. 4 : ProbeErrors[i + 6 - 1] = I2cDeinit[i]
    BY ProbeErrorsIs, I2cDeinitIs
  <2>2. ProbeErrors \in Seq(Releases) /\ Len(ProbeErrors) = 6 + 3 /\ 6 \in Nat \ {0}
    BY ProbeErrorsIs
  <2> QED BY <1>1, <2>1, <2>2, Zenon
<1>3. From(<<"sensor_node">> \o I2cDeinit, 2) = I2cDeinit
  <2>1. "sensor_node" \in Releases
    BY DEF Releases, Resources
  <2> DEFINE list == <<"sensor_node">> \o I2cDeinit
  <2>2. list \in Seq(Releases) /\ Len(list) = 5 /\ \A i \in 1 .. 4 : list[i + 1] = I2cDeinit[i]
    BY <2>1, BeforeDeinit
  <2> HIDE DEF list
  <2>3. \A i \in 1 .. 4 : list[i + 2 - 1] = I2cDeinit[i]
    BY <2>2
  <2>4. From(list, 2) = I2cDeinit
    BY <1>1, <2>2, <2>3
  <2> QED BY <2>4 DEF list
<1> QED BY <1>2, <1>3
-----------------------------------------------------------------------------
(***************************************************************************)
(* What is held: one lemma for each step of probe and remove.              *)
(***************************************************************************)
ResourcesIn == {"clk_ptr", "control_module_ptr", "i2c_ptr", "clk_node", "pinmux_node", "irq",
                "sensor_node", "name", "number", "class", "device", "cdev"}

LEMMA ResourcesAre ==
    /\ Resources = ResourcesIn /\ Resources \subseteq Step
    /\ Pointers = {"clk_ptr", "control_module_ptr", "i2c_ptr"}
    /\ \A s \in Step : s # "oops" /\ s # "out" /\ s # "bound" /\ s # "unbound"
                       /\ s # "remove" /\ s # "undo" /\ s # "undo_i2c"
BY StepIs DEF Resources, ResourcesIn, Pointers

LEMMA LoaderTypes ==
    ASSUME TypeOK
    PROVE  /\ held \subseteq Resources /\ pointer \in [Pointers -> BOOLEAN]
           /\ retval \in {-1, 0} /\ numbers \in 0 .. MaxNumbers
BY DEF TypeOK, LoaderTypeOK

\* Holdings is about the variables of the loader, and of the bus only Quiet.
LEMMA LoaderKept ==
    ASSUME Holdings, UNCHANGED loaderVars, at = "bound" \/ (Quiet => Quiet')
    PROVE  Holdings'
<1>1. /\ at' = at /\ todo' = todo /\ held' = held /\ pointer' = pointer
      /\ Full' <=> Full
      /\ Hollow' <=> Hollow
      /\ \A r : Past(r)' <=> Past(r)
  BY DEF loaderVars, Full, Mapped, Hollow, Past
<1>2. InStep'
  <2> SUFFICES ASSUME (at \in Step)' PROVE InStep'
    BY DEF InStep
  <2>1. at \in Step /\ at # "bound"
    BY <1>1, ResourcesAre
  <2> QED BY <1>1, <2>1 DEF Holdings, InStep, InI2cInit, InProbe, DeviceHasClass, ClassMade
<1>3. InUse'
  BY <1>1 DEF Holdings, InUse, DeviceHasClass, ClassMade
<1>4. InUndoI2c'
  BY <1>1 DEF Holdings, InUndoI2c, Releasing
<1>5. InUndo'
  <2> SUFFICES ASSUME at \in {"undo", "remove"} PROVE InUndo'
    BY <1>1 DEF InUndo
  <2>1. Quiet => Quiet'
    OBVIOUS
  <2>2. \A n \in 1 .. 10 : UndoFrom(n) => UndoFrom(n)'
    BY <1>1, <2>1 DEF UndoFrom, Releasing, DeviceHasClass, ClassMade
  <2>3. Releasing(<<"sensor_node">> \o I2cDeinit, 1) => Releasing(<<"sensor_node">> \o I2cDeinit, 1)'
    BY <1>1 DEF Releasing
  <2> QED BY <2>1, <2>2, <2>3 DEF Holdings, InUndo
<1>6. AtRest'
  BY <1>1 DEF Holdings, AtRest
<1> QED BY <1>2, <1>3, <1>4, <1>5, <1>6 DEF Holdings

\* A step to a place of probe only has to establish what holds there.
LEMMA ToStep ==
    ASSUME (at \in Step)', InStep' PROVE Holdings'
BY ResourcesAre DEF Holdings, InUse, InUndoI2c, InUndo, AtRest

LEMMA InsmodKeeps ==
    ASSUME IInv, Insmod PROVE Holdings'
<1>1. at' = "parent" /\ held' = held /\ Number("parent") = 1
  BY Numbered DEF Insmod
<1>2. held \subseteq LeftOver /\ Quiet
  BY DEF IInv, Holdings, AtRest, Insmod
<1>3. \A r \in Resources : ~Past(r)'
  BY <1>1, ResourcesAre, NumberType DEF Past
<1>4. InI2cInit'
  BY <1>1, <1>2, <1>3, ResourcesAre DEF InI2cInit, Insmod, Resources
<1>5. Quiet'
  BY <1>2 DEF Quiet, Insmod, busVars
<1>6. (at \in I2cSteps)' /\ (at \in Step)'
  BY <1>1, NumberType, StepIs
<1> QED BY <1>4, <1>5, <1>6, ToStep DEF InStep

LEMMA RmmodKeeps ==
    ASSUME IInv, Rmmod PROVE Holdings'
<1>0. held' = held /\ pointer' = pointer /\ Quiet' = Quiet
  BY DEF Rmmod, Quiet, busVars
<1>1. CASE at = "unbound"
  BY <1>0, <1>1, ResourcesAre DEF IInv, Holdings, AtRest, Rmmod, InStep, InUse, InUndoI2c, InUndo
<1>2. CASE at = "bound"
  <2>1. at' = "remove" /\ todo' = ProbeErrors
    BY <1>2 DEF Rmmod
  <2>2. /\ Full /\ "name" \in held /\ {"clk_node", "pinmux_node"} \cap held = {}
        /\ DeviceHasClass /\ ClassMade
    BY <1>2 DEF IInv, Holdings, InUse
  <2>3. ProbeErrors = From(ProbeErrors, 1)
    BY ProbeErrorsIs, SubSeqFull DEF From
  <2>4. ASSUME NEW r \in held PROVE r \in LeftOver \/ \E i \in 1 .. Len(ProbeErrors) : ProbeErrors[i] = r
    <3>1. r \in ResourcesIn
      BY LoaderTypes, ResourcesAre DEF IInv
    <3> QED BY <2>2, <3>1, ProbeErrorsIs DEF ResourcesIn, LeftOver
  <2>5. UndoFrom(1)'
    BY <1>0, <2>1, <2>2, <2>3, <2>4 DEF UndoFrom, Releasing, Full, Mapped, DeviceHasClass, ClassMade
  <2> QED BY <2>1, <2>5, ResourcesAre DEF Holdings, InStep, InUse, InUndoI2c, InUndo, AtRest
<1> QED BY <1>1, <1>2 DEF Rmmod

LEMMA AcquireKeeps ==
    ASSUME IInv, NEW s \in Step, Acquire(s) PROVE Holdings'
<1>1. /\ at = s /\ at' = After(s)
      /\ Quiet' = Quiet
      /\ pointer' = [p \in Pointers |-> pointer[p] \/ p = s]
      /\ held' = (held \cup ({s} \cap Resources))
                  \ (IF s = "irq" THEN {"clk_node", "pinmux_node"} ELSE {})
      /\ pointer \in [Pointers -> BOOLEAN] /\ held \subseteq Resources
  <2>1. pointer \in [Pointers -> BOOLEAN] /\ held \subseteq Resources
    BY LoaderTypes DEF IInv
  <2>2. Quiet' = Quiet
    BY DEF Acquire, Quiet, busVars
  <2> QED BY <2>1, <2>2 DEF Acquire
<1>2. Number(s) \in 1 .. 23 /\ \A r \in Resources : Number(r) \in 1 .. 23
  BY NumberType, ResourcesAre
<1>3. IF s \in I2cSteps THEN InI2cInit ELSE InProbe
  BY <1>1 DEF IInv, Holdings, InStep
<1>4. Number(s) <= 17 => Quiet
  BY <1>1, Numbered DEF IInv, Holdings, InStep
<1>5. s \notin {"frequency", "mode", "is_connected", "calibration"}
  BY DEF Acquire, OnBus
<1>6. CASE s = "cdev"
  <2>1. at' = "bound" /\ s \notin I2cSteps
    BY <1>1, <1>6, AfterIs, Numbered, NumberType
  <2>2. InProbe /\ Number(at) = 23
    BY <1>1, <1>3, <1>6, <2>1, Numbered
  <2>3. Full /\ "name" \in held /\ DeviceHasClass /\ ClassMade
        /\ {"clk_node", "pinmux_node"} \cap held = {}
    BY <2>2, Numbered DEF InProbe, Past
  <2>4. held' = held \cup {"cdev"} /\ pointer' = pointer
    BY <1>1, <1>6 DEF Resources, Pointers
  <2>5. InUse'
    BY <2>1, <2>3, <2>4 DEF InUse, Full, Mapped, DeviceHasClass, ClassMade
  <2> QED BY <2>1, <2>5, ResourcesAre DEF Holdings, InStep, InUndoI2c, InUndo, AtRest
<1>7. CASE s # "cdev"
  <2>1. at' \in Step /\ Number(at') = Number(s) + 1
    BY <1>1, <1>7, AfterIs
  <2>2. \A r \in Resources : Past(r)' <=> Past(r) \/ r = s
    <3>1. \A r \in Resources : Number(r) = Number(s) => r = s
      BY NumberType, ResourcesAre
    <3> QED BY <1>1, <1>2, <2>1, <3>1 DEF Past
  <2>3. (at \in I2cSteps)' <=> Number(s) <= 11
    BY <1>2, <2>1, NumberType
  <2>4. s \in I2cSteps <=> Number(s) <= 12
    BY NumberType
  <2>5. (Number(at) <= Number("frequency"))' => Quiet'
    BY <1>1, <1>2, <1>4, <2>1, Numbered
  <2>6. CASE Number(s) <= 11
    <3>1. InI2cInit /\ s # "irq"
      BY <1>2, <1>3, <2>4, <2>6, Numbered
    <3>2. ASSUME NEW r \in Resources \ LeftOver PROVE (r \in held <=> Past(r))'
      BY <1>1, <2>2, <3>1 DEF InI2cInit
    <3>3. ASSUME NEW p \in Pointers PROVE (pointer[p] <=> Past(p))'
      BY <1>1, <2>2, <3>1 DEF InI2cInit, Resources
    <3> QED BY <2>1, <2>3, <2>5, <2>6, <3>2, <3>3, ToStep DEF InStep, InI2cInit
  <2>7. CASE s = "irq"
    <3>1. InI2cInit /\ Number(s) = 12
      BY <1>3, <2>4, <2>7, Numbered
    <3>2. \A p \in Pointers : pointer[p] /\ p \in held
      BY <1>1, <2>7, <3>1, Numbered, ResourcesAre DEF InI2cInit, Past, LeftOver, Resources
    <3>3. /\ held' = (held \cup {"irq"}) \ {"clk_node", "pinmux_node"}
          /\ pointer' = pointer
      BY <1>1, <2>7, <3>2 DEF Resources, Pointers
    <3>4. Full'
      BY <3>2, <3>3 DEF Full, Mapped, Pointers
    <3>5. \A r \in {"name", "class", "device"} : r \notin held /\ ~Past(r)'
      BY <1>1, <2>1, <2>7, <3>1, Numbered DEF InI2cInit, Past, LeftOver, Resources
    <3>6. InProbe'
      BY <3>3, <3>4, <3>5 DEF InProbe, DeviceHasClass
    <3> QED BY <2>1, <2>3, <2>5, <3>1, <3>6, ToStep DEF InStep
  <2>8. CASE Number(s) > 12
    <3>1. InProbe
      BY <1>2, <1>3, <2>4, <2>8
    <3>2. pointer' = pointer /\ held' = held \cup ({s} \cap Resources)
      BY <1>1, <2>8, Numbered DEF Pointers
    <3>3. (Full \/ (Hollow /\ Number(at) <= Number("is_connected")))'
      <4>1. CASE Full
        BY <3>2, <4>1 DEF Full, Mapped
      <4>2. CASE Hollow /\ Number(s) <= 15
        <5>1. Number(s) \in {13, 14}
          BY <1>2, <1>5, <2>8, <4>2, NumberType, Numbered, StepIs
        <5>2. s \in {"sensor_node", "slave_address"}
          BY <5>1, NumberType, Numbered, StepIs
        <5>3. Hollow'
          BY <3>2, <4>2, <5>2 DEF Hollow, LeftOver, Resources, Pointers
        <5> QED BY <2>1, <5>1, <5>3, Numbered
      <4> QED BY <1>1, <3>1, <4>1, <4>2, Numbered DEF InProbe
    <3>4. ({"clk_node", "pinmux_node"} \cap held = {})'
      BY <2>8, <3>1, <3>2, Numbered DEF InProbe
    <3>5. \A r \in {"name", "class", "device"} : (r \in held => Past(r))'
      BY <2>2, <3>1, <3>2 DEF InProbe, Resources
    <3>6. (Past("name") => "name" \in held)'
      BY <2>2, <3>1, <3>2 DEF InProbe, Resources
    <3>7. DeviceHasClass'
      BY <3>1, <3>2 DEF InProbe, DeviceHasClass, Acquire
    <3>8. (Past("class") => ClassMade)'
      BY <2>2, <3>1, <3>2 DEF InProbe, ClassMade, Resources
    <3>9. InProbe'
      BY <3>3, <3>4, <3>5, <3>6, <3>7, <3>8 DEF InProbe
    <3> QED BY <1>2, <2>1, <2>3, <2>5, <2>8, <3>9, ToStep DEF InStep
  <2>9. Number(s) = 12 => s = "irq"
    BY NumberType, Numbered, StepIs
  <2> QED BY <1>2, <2>6, <2>7, <2>8, <2>9
<1> QED BY <1>6, <1>7

\* Where the goto of a step that fails leads: to a place of one of the lists
\* after which everything acquired so far is still to come.
LEMMA I2cGoto ==
    ASSUME NEW s \in I2cSteps, s \notin {"clk_get", "i2c_ptr"},
           \A r \in held : r \in Resources,
           at = s, InI2cInit
    PROVE  /\ \E n \in 1 .. 6 :
                 /\ OnError(s) = From(I2cErrors, n)
                 /\ \A r \in held : r \in LeftOver \/ \E i \in n .. 6 : I2cErrors[i] = r
           /\ OnError(s) \in Seq(Releases)
<1>1. s \in Step /\ Number(s) <= 12
  BY NumberType
<1>2. s \in {"parent", "properties", "values", "clk_node", "pinmux_node", "clk_ptr",
             "control_module_ptr", "reset", "get_irq", "irq"}
  BY <1>1, StepIs, Numbered
<1>3. I2cErrors = From(I2cErrors, 1)
  BY I2cErrorsIs, SubSeqFull DEF From
<1> DEFINE n == CASE s \in {"parent", "properties", "values", "clk_node"} -> 6
                  [] s = "pinmux_node" -> 5
                  [] s = "clk_ptr" -> 4
                  [] s = "control_module_ptr" -> 3
                  [] OTHER -> 1
<1>4. n \in 1 .. 6
  OBVIOUS
<1>5. OnError(s) = From(I2cErrors, n)
  BY <1>2, <1>3 DEF OnError
<1>6. ASSUME NEW r \in held PROVE r \in LeftOver \/ \E i \in n .. 6 : I2cErrors[i] = r
  <2>1. r \in LeftOver \/ Number(r) < Number(s)
    BY DEF InI2cInit, Past
  <2>2. r \in ResourcesIn
    BY ResourcesAre
  <2> QED BY <1>2, <2>1, <2>2, Numbered, I2cErrorsIs DEF ResourcesIn, LeftOver
<1>7. OnError(s) \in Seq(Releases)
  <2>1. I2cErrors \in Seq(Releases) /\ n \in 1 .. Len(I2cErrors) + 1
    BY <1>4, I2cErrorsIs
  <2> HIDE DEF n
  <2> QED BY <1>5, <2>1, FromIs
<1> QED BY <1>4, <1>5, <1>6, <1>7

LEMMA ToUndoI2c ==
    ASSUME InUndoI2c', at' = "undo_i2c" PROVE Holdings'
BY ResourcesAre DEF Holdings, InStep, InUse, InUndo, AtRest

LEMMA ToUndo ==
    ASSUME InUndo', at' = "undo" PROVE Holdings'
BY ResourcesAre DEF Holdings, InStep, InUse, InUndoI2c, AtRest

LEMMA ResetFailsKeeps ==
    ASSUME IInv, ResetFails PROVE Holdings'
<1>1. /\ at = "reset" /\ at' = "undo_i2c" /\ todo' = OnError("reset")
      /\ held' = held /\ Quiet' = Quiet
  BY DEF ResetFails, Quiet, busVars
<1>2. "reset" \in I2cSteps /\ "reset" \in Step /\ Number("reset") = 10 /\ Number("frequency") = 17
  BY StepIs, Numbered, NumberType
<1>3. InI2cInit /\ Quiet
  BY <1>1, <1>2 DEF IInv, Holdings, InStep
<1>4. PICK n \in 1 .. 6 : /\ todo' = From(I2cErrors, n)
                          /\ \A r \in held : r \in LeftOver \/ \E i \in n .. 6 : I2cErrors[i] = r
  <2>1. \A r \in held : r \in Resources
    BY LoaderTypes DEF IInv
  <2> QED BY <1>1, <1>2, <1>3, <2>1, I2cGoto
<1>5. (Releasing(I2cErrors, n))'
  BY <1>1, <1>4, I2cErrorsIs DEF Releasing
<1>6. InUndoI2c'
  BY <1>1, <1>3, <1>5 DEF InUndoI2c
<1> QED BY <1>1, <1>6, ToUndoI2c

LEMMA FailStepKeeps ==
    ASSUME IInv, NEW s \in Step, FailStep(s) PROVE Holdings'
<1>1. /\ at = s /\ held' = held /\ pointer' = pointer
      /\ Quiet' = Quiet /\ (\A r \in held : r \in Resources)
      /\ s \notin {"clk_get", "i2c_ptr", "reset", "frequency", "mode", "is_connected", "calibration"}
  BY LoaderTypes DEF FailStep, Quiet, busVars, OnBus, IInv
<1>2. Number(s) \in 1 .. 23 /\ (s \in I2cSteps <=> Number(s) <= 12)
  BY NumberType
<1>3. IF s \in I2cSteps THEN InI2cInit ELSE InProbe
  BY <1>1 DEF IInv, Holdings, InStep
<1>4. Number(s) <= 17 => Quiet
  BY <1>1, Numbered DEF IInv, Holdings, InStep
<1>5. CASE s \in {"class", "device"}
  <2>1. at' = After(s) /\ at' \in Step /\ Number(at') = Number(s) + 1 /\ Number(s) \in {21, 22}
    BY <1>5, AfterIs, Numbered DEF FailStep
  <2>2. InProbe
    BY <1>2, <1>3, <2>1
  <2>3. Full /\ Full'
    BY <1>1, <2>1, <2>2, Numbered DEF InProbe, Full, Mapped
  <2>4. ASSUME NEW r \in {"name", "class", "device"}
        PROVE  /\ Past(r) => Past(r)'
               /\ r = "name" => Past(r)
               /\ r = "class" /\ s = "device" => Past(r)
    BY <1>1, <1>5, <2>1, Numbered DEF Past
  <2>5. s = "class" => "class" \in Faults
    BY DEF FailStep, MayFail
  <2>6. ClassMade'
    BY <1>1, <1>5, <2>2, <2>4, <2>5 DEF ClassMade, InProbe
  <2>7. InProbe'
    BY <1>1, <2>2, <2>3, <2>4, <2>6 DEF InProbe, DeviceHasClass
  <2>8. ~(at \in I2cSteps)' /\ ~(Number(at) <= Number("frequency"))'
    BY <2>1, NumberType, Numbered
  <2> QED BY <2>1, <2>7, <2>8, ToStep DEF InStep
<1>6. CASE s \in I2cSteps
  <2>0. s \notin {"class", "device"}
    BY <1>2, <1>6, Numbered
  <2>1. at' = "undo_i2c" /\ todo' = OnError(s)
    BY <1>6, <2>0 DEF FailStep
  <2>2. InI2cInit /\ Quiet
    BY <1>2, <1>3, <1>4, <1>6
  <2>3. PICK n \in 1 .. 6 : /\ todo' = From(I2cErrors, n)
                            /\ \A r \in held : r \in LeftOver \/ \E i \in n .. 6 : I2cErrors[i] = r
    BY <1>1, <1>6, <2>1, <2>2, I2cGoto
  <2>4. (Releasing(I2cErrors, n))'
    BY <1>1, <2>3, I2cErrorsIs DEF Releasing
  <2>5. InUndoI2c'
    BY <1>1, <2>1, <2>2, <2>4 DEF InUndoI2c
  <2> QED BY <2>1, <2>5, ToUndoI2c
<1>7. CASE s \notin I2cSteps /\ s \notin {"class", "device"}
  <2>1. at' = "undo" /\ todo' = OnError(s)
    BY <1>7 DEF FailStep
  <2>2. s \in {"sensor_node", "slave_address", "name", "number", "cdev"}
    BY <1>1, <1>2, <1>7, Numbered, StepIs
  <2>3. InProbe
    BY <1>3, <1>7
  <2>4. \A r \in held : r \in ResourcesIn /\ r \notin {"clk_node", "pinmux_node"}
    BY <1>1, <2>3, ResourcesAre DEF InProbe
  <2>5. CASE s \in {"sensor_node", "slave_address"}
    <3>1. Quiet /\ \A r \in {"name", "class", "device"} : r \notin held
      BY <1>1, <1>4, <2>3, <2>5, Numbered DEF InProbe, Past
    <3>2. \A r \in held : r \in LeftOver \cup {"clk_ptr", "control_module_ptr", "i2c_ptr", "irq"}
      BY <2>4, <3>1 DEF ResourcesIn, LeftOver
    <3>3. CASE s = "sensor_node"
      <4>1. todo' = From(ProbeErrors, 6)
        BY <2>1, <3>3, Ends DEF OnError, I2cSteps
      <4>2. (Releasing(ProbeErrors, 6))'
        BY <1>1, <3>2, <4>1, ProbeErrorsIs DEF Releasing
      <4>3. UndoFrom(6)'
        BY <1>1, <3>1, <4>2 DEF UndoFrom
      <4> QED BY <2>1, <4>3, ToUndo DEF InUndo
    <3>4. CASE s = "slave_address"
      <4> DEFINE list == <<"sensor_node">> \o I2cDeinit
      <4>1. todo' = list
        BY <2>1, <3>4 DEF OnError
      <4>2. "sensor_node" \in Releases
        BY DEF Releases, Resources
      <4>3. /\ list \in Seq(Releases) /\ Len(list) = 5
            /\ list[2] = "clk_ptr" /\ list[3] = "control_module_ptr"
            /\ list[4] = "i2c_ptr" /\ list[5] = "irq"
        <5>1. /\ list \in Seq(Releases) /\ Len(list) = 5
              /\ \A i \in 1 .. 4 : list[i + 1] = I2cDeinit[i]
          BY <4>2, BeforeDeinit
        <5> HIDE DEF list
        <5> QED BY <5>1, I2cDeinitIs
      <4> HIDE DEF list
      <4>4. list = From(list, 1)
        BY <4>3, SubSeqFull DEF From
      <4>5. (Releasing(list, 1))'
        BY <1>1, <3>2, <4>1, <4>3, <4>4 DEF Releasing
      <4>6. InUndo'
        BY <1>1, <3>1, <4>5 DEF InUndo, list
      <4> QED BY <2>1, <4>6, ToUndo
    <3> QED BY <2>5, <3>3, <3>4
  <2>6. CASE s \in {"name", "number", "cdev"}
    <3>1. Full /\ Full'
      BY <1>1, <2>3, <2>6, Numbered DEF InProbe, Full, Mapped
    <3> DEFINE n == CASE s = "name" -> 5 [] s = "number" -> 4 [] OTHER -> 1
    <3>2. n \in {1, 4, 5} /\ todo' = From(ProbeErrors, n)
      <4>1. ProbeErrors = From(ProbeErrors, 1)
        BY ProbeErrorsIs, SubSeqFull DEF From
      <4> QED BY <2>1, <2>6, <4>1 DEF OnError
    <3>3. ASSUME NEW r \in held
          PROVE  r \in LeftOver \/ \E i \in n .. 9 : ProbeErrors[i] = r
      <4>1. r \in {"name", "class", "device"} => Number(r) < Number(s)
        BY <1>1, <2>3 DEF InProbe, Past
      <4> QED BY <2>4, <2>6, <4>1, Numbered, ProbeErrorsIs DEF ResourcesIn, LeftOver
    <3>4. n <= 4 => "name" \in held
      BY <1>1, <2>3, <2>6, Numbered DEF InProbe, Past
    <3>5. n = 1 => DeviceHasClass /\ ClassMade
      BY <1>1, <2>3, <2>6, Numbered DEF InProbe, Past
    <3> HIDE DEF n
    <3>6. UndoFrom(n)'
      BY <1>1, <3>1, <3>2, <3>3, <3>4, <3>5, ProbeErrorsIs
      DEF UndoFrom, Releasing, DeviceHasClass, ClassMade
    <3> QED BY <2>1, <3>2, <3>6, ToUndo DEF InUndo
  <2> QED BY <2>2, <2>5, <2>6
<1> QED BY <1>5, <1>6, <1>7

LEMMA OopsKeeps ==
    ASSUME IInv, FollowsError \/ Crash PROVE Holdings'
<1>1. at' = "oops" /\ held' = held
  BY DEF FollowsError, Crash
<1>2. "device" \notin held
  <2>1. CASE FollowsError
    <3>1. at \in {"clk_get", "i2c_ptr"}
      BY <2>1 DEF FollowsError
    <3>2. at \in Step /\ at \in I2cSteps /\ ~Past("device")
      BY <3>1, NumberType, Numbered, StepIs DEF Past
    <3> QED BY <3>2 DEF IInv, Holdings, InStep, InI2cInit, Resources, LeftOver
  <2>2. CASE Crash
    <3>1. at \in OnBus /\ ~Mapped
      BY <2>2 DEF Crash
    <3>2. at \in Step /\ at \notin I2cSteps
      BY <3>1, NumberType, Numbered, StepIs DEF OnBus
    <3> QED BY <3>1, <3>2 DEF IInv, Holdings, InStep, InProbe, Full, Hollow, LeftOver
  <2> QED BY <2>1, <2>2
<1> QED BY <1>1, <1>2, ResourcesAre
    DEF Holdings, InStep, InUse, InUndoI2c, InUndo, AtRest

\* The steps on the bus: the sensor's node is held, the registers are mapped.
LEMMA OnBusIs ==
    ASSUME IInv, at \in OnBus, Mapped
    PROVE  /\ at \in Step /\ at \notin I2cSteps /\ Number(at) \in 15 .. 18
           /\ InProbe /\ Full
           /\ \A r \in {"name", "class", "device"} : r \notin held
           /\ Number(at) <= 17 => Quiet
<1>1. at \in Step /\ at \notin I2cSteps /\ Number(at) \in 15 .. 18
  BY NumberType, Numbered, StepIs DEF OnBus
<1>2. InProbe /\ (Number(at) <= 17 => Quiet)
  BY <1>1, Numbered DEF IInv, Holdings, InStep
<1>3. Full
  BY <1>2 DEF InProbe, Hollow, Mapped, Pointers
<1>4. \A r \in {"name", "class", "device"} : r \notin held
  BY <1>1, <1>2, Numbered DEF InProbe, Past
<1> QED BY <1>1, <1>2, <1>3, <1>4

\* Each of them that goes on.
LEMMA OnBusAdvances ==
    ASSUME IInv, at \in OnBus, Mapped, at' = After(at), held' = held, pointer' = pointer,
           Number(at) <= 16 => Quiet'
    PROVE  Holdings'
<1>1. /\ at' \in Step /\ Number(at') = Number(at) + 1 /\ at' \notin I2cSteps
      /\ Number(at) \in 15 .. 18
  BY OnBusIs, AfterIs, Numbered, NumberType
<1>2. Full'
  BY OnBusIs DEF Full, Mapped
<1>3. InProbe'
  <2>1. \A r \in {"name", "class", "device"} : r \notin held /\ (r # "name" => ~Past(r)')
                                               /\ ~Past("name")'
    BY <1>1, OnBusIs, Numbered DEF Past
  <2>2. {"clk_node", "pinmux_node"} \cap held = {}
    BY OnBusIs DEF InProbe
  <2> QED BY <1>2, <2>1, <2>2 DEF InProbe, DeviceHasClass, ClassMade
<1>4. (Number(at) <= Number("frequency"))' => Quiet'
  BY <1>1, Numbered
<1>5. I2cSteps' = I2cSteps
  BY DEF I2cSteps
<1> QED BY <1>1, <1>3, <1>4, <1>5, ToStep DEF InStep

LEMMA IsConnectedKeeps ==
    ASSUME IInv, IsConnected PROVE Holdings'
<1>1. /\ at = "is_connected" /\ at \in OnBus /\ Mapped
      /\ held' = held /\ pointer' = pointer /\ Quiet' = Quiet
  BY DEF IsConnected, OnBus, Quiet
<1>2. Number(at) = 15 /\ Quiet
  BY <1>1, OnBusIs, Numbered
<1>3. CASE at' = After(at)
  BY <1>1, <1>2, <1>3, OnBusAdvances
<1>4. CASE at' = "undo" /\ todo' = OnError(at)
  <2> DEFINE list == <<"sensor_node">> \o I2cDeinit
  <2>1. todo' = list
    BY <1>1, <1>4 DEF OnError
  <2>2. "sensor_node" \in Releases
    BY DEF Releases, Resources
  <2>3. /\ list \in Seq(Releases) /\ Len(list) = 5
        /\ list[2] = "clk_ptr" /\ list[3] = "control_module_ptr"
        /\ list[4] = "i2c_ptr" /\ list[5] = "irq"
    <3>1. /\ list \in Seq(Releases) /\ Len(list) = 5
          /\ \A i \in 1 .. 4 : list[i + 1] = I2cDeinit[i]
      BY <2>2, BeforeDeinit
    <3> HIDE DEF list
    <3> QED BY <3>1, I2cDeinitIs
  <2>4. \A r \in held : r \in LeftOver \cup {"clk_ptr", "control_module_ptr", "i2c_ptr", "irq"}
    <3>1. \A r \in held : r \in ResourcesIn
      BY LoaderTypes, ResourcesAre DEF IInv
    <3>2. "clk_node" \notin held /\ "pinmux_node" \notin held
      BY <1>1, OnBusIs DEF InProbe
    <3> QED BY <1>1, <3>1, <3>2, OnBusIs DEF ResourcesIn, LeftOver
  <2> HIDE DEF list
  <2>5. list = From(list, 1)
    BY <2>3, SubSeqFull DEF From
  <2>6. (Releasing(list, 1))'
    BY <1>1, <2>1, <2>3, <2>4, <2>5 DEF Releasing
  <2>7. InUndo'
    BY <1>1, <1>2, <2>6 DEF InUndo, list
  <2> QED BY <1>4, <2>7, ToUndo
<1> QED BY <1>3, <1>4 DEF IsConnected

LEMMA CalibrateKeeps ==
    ASSUME IInv, Calibrate PROVE Holdings'
<1>1. /\ at = "calibration" /\ at \in OnBus /\ Mapped /\ at' = After(at)
      /\ held' = held /\ pointer' = pointer /\ Quiet' = Quiet
  BY DEF Calibrate, OnBus, Quiet
<1>2. Quiet
  BY <1>1, OnBusIs, Numbered
<1> QED BY <1>1, <1>2, OnBusAdvances

LEMMA ConfigureKeeps ==
    ASSUME IInv, Configure PROVE Holdings'
<1>1. /\ at \in {"frequency", "mode"} /\ at \in OnBus /\ Mapped /\ at' = After(at)
      /\ held' = held /\ pointer' = pointer
  BY DEF Configure, OnBus
<1>2. ~(Number(at) <= 16)
  BY <1>1, Numbered
<1> QED BY <1>1, <1>2, OnBusAdvances

LEMMA InitReturnsZeroKeeps ==
    ASSUME IInv, InitReturnsZero PROVE Holdings'
<1>1. at = "undo_i2c" /\ todo = <<>> /\ at' = "sensor_node" /\ held' = held /\ pointer' = pointer
      /\ Quiet' = Quiet
  BY DEF InitReturnsZero, busVars, Quiet
<1>2. PICK n \in 1 .. 7 : /\ Releasing(I2cErrors, n)
                          /\ n = 7 => \A p \in Pointers : ~pointer[p]
  BY <1>1 DEF IInv, Holdings, InUndoI2c
<1>3. n = 7
  <2>1. I2cErrors \in Seq(Releases) /\ n \in 1 .. Len(I2cErrors) + 1 /\ From(I2cErrors, n) = <<>>
    BY <1>1, <1>2, I2cErrorsIs DEF Releasing
  <2>2. n = Len(I2cErrors) + 1
    BY <2>1, FromIs
  <2> QED BY <2>2, I2cErrorsIs
<1>4. Hollow'
  BY <1>1, <1>2, <1>3, I2cErrorsIs DEF Releasing, Hollow
<1>5. /\ at' \in Step /\ at' \notin I2cSteps /\ Number(at') = 13
      /\ \A r \in {"name", "class", "device"} : ~Past(r)'
  BY <1>1, StepIs, NumberType, Numbered DEF Past
<1>6. InProbe'
  BY <1>4, <1>5, Numbered DEF InProbe, Hollow, LeftOver, DeviceHasClass
<1>7. Quiet'
  BY <1>1 DEF IInv, Holdings, InUndoI2c
<1>8. I2cSteps' = I2cSteps
  BY DEF I2cSteps
<1> QED BY <1>5, <1>6, <1>7, <1>8, ToStep DEF InStep

LEMMA UnboundKeeps ==
    ASSUME IInv, Unbound PROVE Holdings'
<1>1. /\ at \in {"undo_i2c", "undo", "remove"} /\ todo = <<>> /\ at' \in {"out", "unbound"}
      /\ held' \subseteq held /\ Quiet' = Quiet
  BY DEF Unbound, busVars, Quiet
<1>2. ASSUME NEW list \in Seq(Releases), NEW n \in 1 .. Len(list) + 1, Releasing(list, n)
      PROVE  n = Len(list) + 1 /\ held \subseteq LeftOver
  <2>1. n = Len(list) + 1
    BY <1>1, <1>2, FromIs DEF Releasing
  <2>2. Len(list) \in Nat
    OBVIOUS
  <2> QED BY <1>2, <2>1, <2>2 DEF Releasing
<1>3. held \subseteq LeftOver /\ Quiet
  <2>1. CASE at = "undo_i2c"
    <3>1. PICK n \in 1 .. 7 : Releasing(I2cErrors, n)
      BY <2>1 DEF IInv, Holdings, InUndoI2c
    <3>2. Quiet
      BY <2>1 DEF IInv, Holdings, InUndoI2c
    <3> QED BY <1>2, <3>1, <3>2, I2cErrorsIs
  <2>2. CASE at # "undo_i2c"
    <3>1. CASE \E n \in 1 .. 10 : UndoFrom(n)
      <4>1. PICK n \in 1 .. 10 : UndoFrom(n)
        BY <3>1
      <4>2. Releasing(ProbeErrors, n) /\ n \in 1 .. Len(ProbeErrors) + 1
        BY <4>1, ProbeErrorsIs DEF UndoFrom
      <4>0. ProbeErrors \in Seq(Releases) /\ Len(ProbeErrors) = 9
        BY ProbeErrorsIs
      <4>5. n = Len(ProbeErrors) + 1 /\ held \subseteq LeftOver
        BY <1>2, <4>0, <4>2
      <4>3. n = 10 /\ held \subseteq LeftOver
        BY <4>0, <4>5
      <4> QED BY <4>1, <4>3 DEF UndoFrom
    <3>2. CASE Releasing(<<"sensor_node">> \o I2cDeinit, 1) /\ Quiet
      <4>1. "sensor_node" \in Releases
        BY DEF Releases, Resources
      <4> DEFINE list == <<"sensor_node">> \o I2cDeinit
      <4>2. list \in Seq(Releases) /\ Len(list) = 5
        BY <4>1, BeforeDeinit
      <4>3. Releasing(list, 1)
        BY <3>2
      <4> HIDE DEF list
      <4>4. 1 \in 1 .. Len(list) + 1
        BY <4>2
      <4>5. held \subseteq LeftOver
        BY <1>2, <4>2, <4>3, <4>4
      <4> QED BY <3>2, <4>5
    <3> QED BY <1>1, <2>2, <3>1, <3>2 DEF IInv, Holdings, InUndo
  <2> QED BY <2>1, <2>2
<1> QED BY <1>1, <1>3, ResourcesAre DEF Holdings, InStep, InUse, InUndoI2c, InUndo, AtRest, LeftOver

\* One element is released, or nothing that is held.
LEMMA ReleasesOne ==
    ASSUME NEW list \in Seq(Releases), NEW n \in 1 .. Len(list), Releasing(list, n),
           todo' = Tail(todo), held \subseteq Resources,
           \/ held' = held \ {list[n]}
           \/ held' = held /\ (list[n] \notin Resources \/ list[n] \in LeftOver)
    PROVE  Releasing(list, n + 1)'
<1>1. todo' = From(list, n + 1)
  BY FromIs DEF Releasing
<1>2. \A r \in held' : r \in LeftOver \/ \E i \in n + 1 .. Len(list) : list[i] = r
  <2> SUFFICES ASSUME NEW r \in held', r \notin LeftOver
               PROVE  \E i \in n + 1 .. Len(list) : list[i] = r
    OBVIOUS
  <2>1. r \in held /\ r # list[n]
    OBVIOUS
  <2>2. PICK i \in n .. Len(list) : list[i] = r
    BY <2>1 DEF Releasing
  <2>3. i # n /\ Len(list) \in Nat
    BY <2>1, <2>2
  <2> QED BY <2>2, <2>3
<1> QED BY <1>1, <1>2 DEF Releasing

\* What the next step of an error path does.
LEMMA UndoIs ==
    ASSUME Undo, NEW list \in Seq(Releases), NEW n \in 1 .. Len(list) + 1, Releasing(list, n)
    PROVE  /\ n \in 1 .. Len(list)
           /\ todo' = Tail(todo) /\ at' = at
           /\ \/ Release(list[n])
              \/ Forget(list[n])
              \/ Sleep(list[n])
<1>1. todo = From(list, n) /\ todo # <<>> /\ Len(list) \in Nat
  BY DEF Undo, Releasing
<1>2. n \in 1 .. Len(list)
  BY <1>1, FromIs
<1>3. Head(todo) = list[n]
  BY <1>1, <1>2, FromIs
<1> QED BY <1>2, <1>3 DEF Undo

LEMMA UndoI2cKeeps ==
    ASSUME IInv, Undo, at = "undo_i2c" PROVE Holdings'
<1>1. PICK n \in 1 .. 7 : /\ Releasing(I2cErrors, n)
                          /\ n = 7 => \A p \in Pointers : ~pointer[p]
  BY DEF IInv, Holdings, InUndoI2c
<1>2. I2cErrors \in Seq(Releases) /\ Len(I2cErrors) = 6 /\ n \in 1 .. Len(I2cErrors) + 1
  BY I2cErrorsIs
<1>3. /\ n \in 1 .. Len(I2cErrors)
      /\ todo' = Tail(todo) /\ at' = at
      /\ \/ Release(I2cErrors[n]) \/ Forget(I2cErrors[n]) \/ Sleep(I2cErrors[n])
  BY <1>1, <1>2, UndoIs
<1>4. held \subseteq Resources
  BY LoaderTypes DEF IInv
<1>5. n \in 1 .. 6
  BY <1>2, <1>3
<1>6. CASE n = 6
  <2>1. I2cErrors[n] = "null" /\ "null" \notin Resources
    BY <1>6, I2cErrorsIs, ResourcesAre DEF ResourcesIn
  <2>2. Forget("null")
    BY <1>3, <2>1 DEF Release, Sleep
  <2>3. held' = held /\ Quiet' = Quiet /\ \A p \in Pointers : ~pointer'[p]
    BY <2>2 DEF Forget, busVars, Quiet
  <2>4. Releasing(I2cErrors, n + 1)'
    BY <1>1, <1>2, <1>3, <1>4, <2>1, <2>3, ReleasesOne
  <2>5. InUndoI2c'
    BY <1>6, <2>3, <2>4 DEF IInv, Holdings, InUndoI2c
  <2> QED BY <1>3, <2>5, ToUndoI2c
<1>7. CASE n \in 1 .. 5
  <2>1. /\ I2cErrors[n] \in Resources /\ I2cErrors[n] # "null" /\ I2cErrors[n] # "sleep"
        /\ I2cErrors[n] # "number"
    BY <1>7, I2cErrorsIs, ResourcesAre DEF ResourcesIn
  <2>2. Release(I2cErrors[n])
    BY <1>3, <2>1 DEF Forget, Sleep
  <2>3. held' = held \ {I2cErrors[n]} /\ Quiet' = Quiet
    BY <2>1, <2>2 DEF Release, busVars, Quiet
  <2>4. Releasing(I2cErrors, n + 1)'
    BY <1>1, <1>2, <1>3, <1>4, <2>3, ReleasesOne
  <2>5. InUndoI2c'
    BY <1>7, <2>3, <2>4 DEF IInv, Holdings, InUndoI2c
  <2> QED BY <1>3, <2>5, ToUndoI2c
<1> QED BY <1>5, <1>6, <1>7

LEMMA ToUndoOrRemove ==
    ASSUME InUndo', at' \in {"undo", "remove"} PROVE Holdings'
BY ResourcesAre DEF Holdings, InStep, InUse, InUndoI2c, AtRest

LEMMA SleepIs ==
    ASSUME Sleep("sleep"), Mapped, sensor = [sensor EXCEPT !.connected = sensor.connected],
           "ctrl" \in DOMAIN sensor
    PROVE  Quiet' /\ held' = held /\ pointer' = pointer
<1>1. Write("ctrl", CtrlOf(bmp280_mode.SLEEP)) /\ held' = held /\ pointer' = pointer
  BY DEF Sleep
<1>2. CtrlOf(bmp280_mode.SLEEP) = 32
  BY DEF CtrlOf, bmp280_mode
<1>3. CASE missed' = TRUE
  BY <1>1, <1>3 DEF Quiet
<1>4. CASE sensor' = [sensor EXCEPT !.ctrl = 32]
  <2>1. sensor'.ctrl = 32
    BY <1>4
  <2> QED BY <1>1, <2>1 DEF Quiet, bmp280_mode
<1> QED BY <1>1, <1>2, <1>3, <1>4 DEF Write

LEMMA UndoKeeps ==
    ASSUME IInv, Undo, at \in {"undo", "remove"} PROVE Holdings'
<1>1. held \subseteq Resources /\ at' = at
  BY LoaderTypes DEF IInv, Undo
<1>2. ProbeErrors \in Seq(Releases) /\ Len(ProbeErrors) = 9
  BY ProbeErrorsIs
<1>3. ASSUME NEW n \in 1 .. 10, UndoFrom(n) PROVE InUndo'
  <2>1. n \in 1 .. Len(ProbeErrors) + 1 /\ Releasing(ProbeErrors, n)
    BY <1>2, <1>3 DEF UndoFrom
  <2>2. /\ n \in 1 .. 9
        /\ todo' = Tail(todo)
        /\ \/ Release(ProbeErrors[n]) \/ Forget(ProbeErrors[n]) \/ Sleep(ProbeErrors[n])
    BY <1>2, <2>1, UndoIs
  <2>3. CASE n = 5
    <3>1. ProbeErrors[n] = "sleep" /\ "sleep" \notin Resources
      BY <2>3, ProbeErrorsIs, ResourcesAre DEF ResourcesIn
    <3>2. Sleep("sleep")
      BY <2>2, <3>1 DEF Release, Forget
    <3>3. Mapped
      BY <1>3, <2>3 DEF UndoFrom, Full
    <3>4. "ctrl" \in DOMAIN sensor /\ sensor = [sensor EXCEPT !.connected = sensor.connected]
      BY DEF IInv, TypeOK, SensorTypeOK
    <3>5. Quiet' /\ held' = held /\ pointer' = pointer
      BY <3>2, <3>3, <3>4, SleepIs
    <3>6. Releasing(ProbeErrors, n + 1)'
      BY <1>1, <1>2, <2>1, <2>2, <3>1, <3>5, ReleasesOne
    <3>7. UndoFrom(6)'
      BY <2>3, <3>5, <3>6 DEF UndoFrom
    <3> QED BY <3>7 DEF InUndo
  <2>4. CASE n # 5
    <3>1. ProbeErrors[n] # "null" /\ ProbeErrors[n] # "sleep"
      BY <2>2, <2>4, ProbeErrorsIs
    <3>2. Release(ProbeErrors[n])
      BY <2>2, <3>1 DEF Forget, Sleep
    <3>3. /\ \/ held' = held \ {ProbeErrors[n]}
             \/ held' = held /\ ProbeErrors[n] \in LeftOver
          /\ pointer' = pointer /\ Quiet' = Quiet
      BY <3>2 DEF Release, busVars, Quiet, LeftOver
    <3>4. Releasing(ProbeErrors, n + 1)'
      BY <1>1, <1>2, <2>1, <2>2, <3>3, ReleasesOne
    <3>5. n + 1 <= 5 => Full'
      BY <1>3, <2>2, <3>3, ProbeErrorsIs DEF UndoFrom, Full, Mapped, Pointers, LeftOver
    <3>6. n + 1 <= 4 => "name" \in held'
      BY <1>3, <2>2, <3>3, ProbeErrorsIs DEF UndoFrom
    <3>7. n + 1 >= 6 => Quiet'
      BY <1>3, <2>2, <2>4, <3>3 DEF UndoFrom
    <3>8. n + 1 \in 1 .. 10 /\ n + 1 # 1
      BY <2>2
    <3>9. UndoFrom(n + 1)'
      BY <3>4, <3>5, <3>6, <3>7, <3>8 DEF UndoFrom
    <3> QED BY <3>8, <3>9 DEF InUndo
  <2> QED BY <2>3, <2>4
<1>4. ASSUME Releasing(<<"sensor_node">> \o I2cDeinit, 1), Quiet
      PROVE  UndoFrom(6)'
  <2> DEFINE list == <<"sensor_node">> \o I2cDeinit
  <2>1. /\ list \in Seq(Releases) /\ Len(list) = 5 /\ list[1] = "sensor_node"
        /\ \A i \in 1 .. 4 : list[i + 1] = I2cDeinit[i]
    <3>1. "sensor_node" \in Releases
      BY DEF Releases, Resources
    <3> QED BY <3>1, BeforeDeinit
  <2>2. Releasing(list, 1) /\ Quiet /\ From(list, 2) = From(ProbeErrors, 6)
    BY <1>4, Ends
  <2> HIDE DEF list
  <2>3. 1 \in 1 .. Len(list) + 1 /\ 1 \in 1 .. Len(list)
    BY <2>1
  <2>4. /\ todo' = Tail(todo)
        /\ \/ Release("sensor_node") \/ Forget("sensor_node") \/ Sleep("sensor_node")
    BY <2>1, <2>2, <2>3, UndoIs
  <2>5. Release("sensor_node")
    BY <2>4 DEF Forget, Sleep
  <2>6. held' = held \ {list[1]} /\ Quiet' = Quiet
    BY <2>1, <2>5 DEF Release, busVars, Quiet
  <2>7. Releasing(list, 1 + 1)'
    BY <1>1, <2>1, <2>2, <2>3, <2>4, <2>6, ReleasesOne
  <2>8. todo' = From(ProbeErrors, 6)
    BY <2>2, <2>7 DEF Releasing
  <2>9. ASSUME NEW r \in held' PROVE r \in LeftOver \/ \E i \in 6 .. 9 : ProbeErrors[i] = r
    <3>1. r \in LeftOver \/ \E i \in 2 .. 5 : list[i] = r
      BY <2>1, <2>7, <2>9 DEF Releasing
    <3>2. \A i \in 2 .. 5 : list[i] = ProbeErrors[i + 4]
      <4>1. list[2] = I2cDeinit[1] /\ list[3] = I2cDeinit[2] /\ list[4] = I2cDeinit[3]
            /\ list[5] = I2cDeinit[4]
        BY <2>1
      <4> QED BY <4>1, I2cDeinitIs, ProbeErrorsIs
    <3> QED BY <3>1, <3>2
  <2> QED BY <1>2, <2>2, <2>6, <2>8, <2>9 DEF UndoFrom, Releasing
<1>5. InUndo'
  <2>1. UndoFrom(6)' => InUndo'
    BY DEF InUndo
  <2> QED BY <1>3, <1>4, <2>1 DEF IInv, Holdings, InUndo
<1> QED BY <1>1, <1>5, ToUndoOrRemove
-----------------------------------------------------------------------------
(***************************************************************************)
(* The bus and the processes.                                              *)
(***************************************************************************)
LEMMA BusKeeps ==
    ASSUME IInv, Isr \/ Unplug \/ Plug PROVE Holdings' /\ UsersOK'
<1>1. sensor \in [connected : BOOLEAN, ctrl : 0 .. 255, config : 0 .. 255]
  BY DEF IInv, TypeOK, SensorTypeOK
<1>2. UNCHANGED loaderVars /\ user' = user
  BY DEF Isr, Unplug, Plug
<1>3. Quiet => Quiet'
  <2>1. CASE Isr
    BY <2>1 DEF Isr, Quiet
  <2>2. CASE Unplug
    <3>1. sensor'.ctrl = 0
      BY <2>2 DEF Unplug
    <3> QED BY <3>1 DEF Quiet, bmp280_mode
  <2>3. CASE Plug
    <3>1. missed' = missed /\ sensor' = [sensor EXCEPT !.connected = TRUE]
      BY <2>3 DEF Plug
    <3>2. sensor'.ctrl = sensor.ctrl
      BY <1>1, <3>1
    <3> QED BY <3>1, <3>2 DEF Quiet
  <2> QED BY <2>1, <2>2, <2>3
<1>4. Holdings'
  BY <1>2, <1>3, LoaderKept DEF IInv
<1>5. UsersOK'
  BY <1>2 DEF IInv, UsersOK, Asking, loaderVars
<1> QED BY <1>4, <1>5

UserStep(u) == Open(u) \/ Read(u) \/ Close(u) \/ Transfer(u) \/ Take(u) \/ Ioctl(u)

\* A process is served only while the module is in.
LEMMA UserStepIs ==
    ASSUME IInv, NEW u \in Users, UserStep(u)
    PROVE  UNCHANGED loaderVars /\ at = "bound" /\ "device" \in held /\ Full
<1>1. UNCHANGED loaderVars
  BY DEF UserStep, Open, Read, Close, Transfer, Take, Ioctl
<1>2. at = "bound" /\ "device" \in held
  <2>1. CASE Open(u)
    BY <2>1 DEF Open
  <2>2. CASE ~Open(u)
    <3>1. user[u].at # "closed"
      BY <2>2 DEF UserStep, Read, Close, Transfer, Take, Ioctl
    <3> QED BY <3>1 DEF IInv, UsersOK
  <2> QED BY <2>1, <2>2
<1> QED BY <1>1, <1>2 DEF IInv, Holdings, InUse

LEMMA SampleIs ==
    /\ Sample \in Seq(Registers) /\ Len(Sample) = 3
    /\ From(Sample, 1) = Sample
<1>1. Sample \in Seq(Registers) /\ Len(Sample) = 3
  BY DEF Sample, Registers
<1> HIDE DEF Sample
<1>2. From(Sample, 1) = Sample
  BY <1>1, SubSeqFull DEF From
<1> QED BY <1>1, <1>2

\* What a process asks for next: a register, and then the rest of the sample.
LEMMA NextAsked ==
    ASSUME NEW u \in Users, user[u] \in UserState, Asking(u), user[u].at \in {"transfer", "take"}
    PROVE  /\ user[u].todo # <<>> /\ Head(user[u].todo) \in Registers
           /\ Len(user[u].todo) > 1 =>
                 /\ user[u].job = "read"
                 /\ \E n \in 1 .. 3 : Tail(user[u].todo) = From(Sample, n)
                 /\ Tail(user[u].todo) \in Seq(Registers)
<1>1. CASE user[u].job = "open"
  <2>1. user[u].todo = <<"ID">>
    BY <1>1 DEF Asking
  <2> DEFINE q == <<"ID">>
  <2>2. q # <<>> /\ Head(q) = "ID" /\ Len(q) = 1
    OBVIOUS
  <2> HIDE DEF q
  <2>3. user[u].todo = q
    BY <2>1 DEF q
  <2>4. "ID" \in Registers
    BY DEF Registers
  <2>5. user[u].todo # <<>> /\ Head(user[u].todo) \in Registers /\ Len(user[u].todo) = 1
    BY <2>2, <2>3, <2>4
  <2>6. ~(Len(user[u].todo) > 1)
    BY <2>5
  <2> QED BY <2>5, <2>6
<1>2. CASE user[u].job # "open"
  <2>1. user[u].job = "read"
    BY <1>2 DEF Asking
  <2>2. PICK n \in 1 .. 3 : user[u].todo = From(Sample, n)
    BY <1>2 DEF Asking
  <2>3. /\ Sample \in Seq(Registers) /\ n \in 1 .. Len(Sample) + 1 /\ n <= Len(Sample)
        /\ Len(Sample) = 3
    BY SampleIs
  <2> HIDE DEF Sample
  <2>4. /\ From(Sample, n) \in Seq(Registers) /\ Len(From(Sample, n)) = Len(Sample) + 1 - n
        /\ Tail(From(Sample, n)) = From(Sample, n + 1) /\ From(Sample, n) # <<>>
    <3>1. n # Len(Sample) + 1
      BY <2>3
    <3> QED BY <2>3, <3>1, FromIs, Zenon
  <2>5. Head(From(Sample, n)) \in Registers /\ Tail(From(Sample, n)) \in Seq(Registers)
    BY <2>4
  <2>6. Len(From(Sample, n)) > 1 => n + 1 \in 1 .. 3
    BY <2>3, <2>4
  <2> QED BY <2>1, <2>2, <2>4, <2>5, <2>6
<1> QED BY <1>1, <1>2

\* One process moves; the others are as they were.
LEMMA OneMoves ==
    ASSUME IInv, NEW u \in Users, NEW state, user' = [user EXCEPT ![u] = state],
           UNCHANGED loaderVars, at = "bound", "device" \in held,
           state \in UserState,
           state.at \in {"transfer", "take"} =>
               \/ state.job = "open" /\ state.todo = <<"ID">>
               \/ state.job = "read" /\ \E n \in 1 .. 3 : state.todo = From(Sample, n)
    PROVE  UsersOK'
<1>1. user \in [Users -> UserState] /\ at' = at /\ held' = held
  BY DEF IInv, UsersOK, loaderVars
<1>2. user' \in [Users -> UserState] /\ user'[u] = state
      /\ \A v \in Users : v # u => user'[v] = user[v]
  BY <1>1
<1>3. ASSUME NEW v \in Users
      PROVE  /\ (user[v].at # "closed" => at = "bound" /\ "device" \in held)'
             /\ Asking(v)'
  <2>1. CASE v = u
    BY <1>1, <1>2, <2>1 DEF Asking
  <2>2. CASE v # u
    BY <1>1, <1>2, <2>2 DEF IInv, UsersOK, Asking
  <2> QED BY <2>1, <2>2
<1> QED BY <1>2, <1>3 DEF UsersOK

LEMMA RepliesKeep ==
    ASSUME IInv, NEW u \in Users, Reply(u),
           UNCHANGED loaderVars, at = "bound", "device" \in held
    PROVE  UsersOK'
<1> DEFINE state == [at |-> "open", job |-> "none", todo |-> <<>>]
<1>1. state \in UserState /\ state.at = "open"
  BY DEF UserState
<1>2. user' = [user EXCEPT ![u] = state]
  BY DEF Reply
<1> HIDE DEF state
<1> QED BY <1>1, <1>2, OneMoves

LEMMA ClosingKeeps ==
    ASSUME IInv, NEW u \in Users, user' = [user EXCEPT ![u] = Closed],
           UNCHANGED loaderVars, at = "bound", "device" \in held
    PROVE  UsersOK'
<1>1. Closed \in UserState /\ Closed.at = "closed"
  BY DEF UserState, Closed
<1> QED BY <1>1, OneMoves

LEMMA OpenKeeps ==
    ASSUME IInv, NEW u \in Users, Open(u) PROVE UsersOK'
<1> DEFINE state == [at |-> "transfer", job |-> "open", todo |-> <<"ID">>]
<1>1. user' = [user EXCEPT ![u] = state]
  BY DEF Open
<1>2. state \in UserState /\ state.at = "transfer" /\ state.job = "open" /\ state.todo = <<"ID">>
  BY DEF UserState, Registers
<1>3. UNCHANGED loaderVars /\ at = "bound" /\ "device" \in held
  BY UserStepIs DEF UserStep
<1> HIDE DEF state
<1> QED BY <1>1, <1>2, <1>3, OneMoves

LEMMA ReadKeeps ==
    ASSUME IInv, NEW u \in Users, Read(u) PROVE UsersOK'
<1> DEFINE state == [at |-> "transfer", job |-> "read", todo |-> Sample]
<1>1. user' = [user EXCEPT ![u] = state]
  BY DEF Read
<1>2. state \in UserState /\ state.job = "read" /\ state.todo = From(Sample, 1)
  BY SampleIs DEF UserState
<1>3. 1 \in 1 .. 3
  OBVIOUS
<1>4. UNCHANGED loaderVars /\ at = "bound" /\ "device" \in held
  BY UserStepIs DEF UserStep
<1> HIDE DEF state
<1> QED BY <1>1, <1>2, <1>3, <1>4, OneMoves

LEMMA TransferKeeps ==
    ASSUME IInv, NEW u \in Users, Transfer(u) PROVE UsersOK'
<1>1. user[u] \in UserState /\ Asking(u) /\ user[u].at = "transfer"
  BY DEF IInv, UsersOK, Transfer
<1>2. UNCHANGED loaderVars /\ at = "bound" /\ "device" \in held
  BY UserStepIs DEF UserStep
<1>3. CASE user' = [user EXCEPT ![u].at = "take"]
  <2> DEFINE state == [user[u] EXCEPT !.at = "take"]
  <2>1. user' = [user EXCEPT ![u] = state]
    BY <1>1, <1>3 DEF UserState
  <2>2. state \in UserState /\ state.job = user[u].job /\ state.todo = user[u].todo
    BY <1>1 DEF UserState
  <2> HIDE DEF state
  <2> QED BY <1>1, <1>2, <2>1, <2>2, OneMoves DEF Asking
<1>4. CASE Reply(u)
  BY <1>2, <1>4, RepliesKeep
<1>5. CASE user' = [user EXCEPT ![u] = Closed]
  BY <1>2, <1>5, ClosingKeeps
<1> QED BY <1>3, <1>4, <1>5 DEF Transfer

LEMMA TakeKeeps ==
    ASSUME IInv, NEW u \in Users, Take(u) PROVE UsersOK'
<1>1. user[u] \in UserState /\ Asking(u) /\ user[u].at = "take"
  BY DEF IInv, UsersOK, Take
<1>2. UNCHANGED loaderVars /\ at = "bound" /\ "device" \in held
  BY UserStepIs DEF UserStep
<1>3. CASE /\ Len(user[u].todo) > 1
           /\ user' = [user EXCEPT ![u].at = "transfer", ![u].todo = Tail(user[u].todo)]
  <2> DEFINE rest == Tail(user[u].todo)
             state == [user[u] EXCEPT !.at = "transfer", !.todo = rest]
  <2>1. user' = [user EXCEPT ![u] = state]
    BY <1>1, <1>3 DEF UserState
  <2>2. user[u].job = "read" /\ rest \in Seq(Registers) /\ \E n \in 1 .. 3 : rest = From(Sample, n)
    BY <1>1, <1>3, NextAsked
  <2> HIDE DEF rest
  <2>3. state \in UserState /\ state.job = "read" /\ state.todo = rest
    BY <1>1, <2>2 DEF UserState
  <2> HIDE DEF state
  <2> QED BY <1>2, <2>1, <2>2, <2>3, OneMoves
<1>4. CASE Reply(u)
  BY <1>2, <1>4, RepliesKeep
<1>5. CASE user' = [user EXCEPT ![u] = Closed]
  BY <1>2, <1>5, ClosingKeeps
<1> QED BY <1>3, <1>4, <1>5 DEF Take

LEMMA UserKeeps ==
    ASSUME IInv, NEW u \in Users, UserStep(u) PROVE Holdings' /\ UsersOK'
<1>1. UNCHANGED loaderVars /\ at = "bound" /\ "device" \in held
  BY UserStepIs
<1>2. Holdings'
  BY <1>1, LoaderKept DEF IInv
<1>3. CASE Close(u)
  BY <1>1, <1>2, <1>3, ClosingKeeps DEF Close
<1>4. CASE Ioctl(u)
  <2>1. user' = user
    BY <1>4 DEF Ioctl
  <2>2. UsersOK'
    BY <1>1, <2>1 DEF IInv, UsersOK, Asking, loaderVars
  <2> QED BY <1>2, <2>2
<1> QED BY <1>2, <1>3, <1>4, OpenKeeps, ReadKeeps, TransferKeeps, TakeKeeps DEF UserStep

\* What is loaded and unloaded is not in use: the processes stay as they are.
LEMMA LoaderLeavesUsers ==
    ASSUME IInv, Loader PROVE UsersOK'
<1>1. user' = user
  BY DEF Loader, Insmod, Rmmod, Acquire, FailStep, FollowsError, ResetFails, Crash, IsConnected,
         Calibrate, Configure, Undo, InitReturnsZero, Unbound
<1>2. \A u \in Users : user[u].at = "closed"
  <2>1. CASE Rmmod
    BY <2>1 DEF Rmmod
  <2>2. CASE ~Rmmod
    <3>1. at # "bound"
      BY <2>2, ResourcesAre, StepIs
         DEF Loader, Insmod, Acquire, FailStep, FollowsError, ResetFails, Crash, IsConnected,
             Calibrate, Configure, Undo, InitReturnsZero, Unbound, OnBus
    <3> QED BY <3>1 DEF IInv, UsersOK
  <2> QED BY <2>1, <2>2
<1> QED BY <1>1, <1>2 DEF IInv, UsersOK, Asking

LEMMA LoaderKeeps ==
    ASSUME IInv, Loader PROVE Holdings'
<1>1. CASE Undo
  <2>1. at \in {"undo_i2c", "undo", "remove"}
    BY <1>1 DEF Undo
  <2> QED BY <1>1, <2>1, UndoI2cKeeps, UndoKeeps
<1>2. CASE \E s \in Step : Acquire(s) \/ FailStep(s)
  BY <1>2, AcquireKeeps, FailStepKeeps
<1>3. CASE Configure
  BY <1>3, ConfigureKeeps
<1> QED BY <1>1, <1>2, <1>3, InsmodKeeps, RmmodKeeps, OopsKeeps, ResetFailsKeeps, IsConnectedKeeps,
           CalibrateKeeps, InitReturnsZeroKeeps, UnboundKeeps DEF Loader
-----------------------------------------------------------------------------
(***************************************************************************)
(* The types.                                                              *)
(***************************************************************************)
LEMMA OnErrorIs ==
    ASSUME NEW s \in Step, s \notin {"calibration", "frequency", "mode", "class", "device"}
    PROVE  OnError(s) \in Seq(Releases)
<1>1. ASSUME NEW n \in 1 .. 6 PROVE From(I2cErrors, n) \in Seq(Releases)
  <2>1. I2cErrors \in Seq(Releases) /\ n \in 1 .. Len(I2cErrors) + 1
    BY I2cErrorsIs
  <2> QED BY <2>1, FromIs, Zenon
<1>2. ASSUME NEW n \in 1 .. 9 PROVE From(ProbeErrors, n) \in Seq(Releases)
  <2>1. ProbeErrors \in Seq(Releases) /\ n \in 1 .. Len(ProbeErrors) + 1
    BY ProbeErrorsIs
  <2> QED BY <2>1, FromIs, Zenon
<1>3. /\ I2cDeinit \in Seq(Releases) /\ I2cErrors \in Seq(Releases)
      /\ ProbeErrors \in Seq(Releases)
  BY I2cDeinitIs, I2cErrorsIs, ProbeErrorsIs
<1>4. <<"sensor_node">> \o I2cDeinit \in Seq(Releases)
  <2>1. "sensor_node" \in Releases
    BY DEF Releases, Resources
  <2> QED BY <2>1, BeforeDeinit
<1>5. \/ OnError(s) = From(I2cErrors, 6)
      \/ OnError(s) = From(I2cErrors, 5)
      \/ OnError(s) = From(I2cErrors, 4)
      \/ OnError(s) = From(I2cErrors, 3)
      \/ OnError(s) = From(I2cErrors, 2)
      \/ OnError(s) = I2cErrors
      \/ OnError(s) = I2cDeinit
      \/ OnError(s) = <<"sensor_node">> \o I2cDeinit
      \/ OnError(s) = From(ProbeErrors, 5)
      \/ OnError(s) = From(ProbeErrors, 4)
      \/ OnError(s) = ProbeErrors
  BY StepIs DEF OnError
<1>6. /\ From(I2cErrors, 6) \in Seq(Releases) /\ From(I2cErrors, 5) \in Seq(Releases)
      /\ From(I2cErrors, 4) \in Seq(Releases) /\ From(I2cErrors, 3) \in Seq(Releases)
      /\ From(I2cErrors, 2) \in Seq(Releases)
  BY <1>1
<1>7. From(ProbeErrors, 5) \in Seq(Releases) /\ From(ProbeErrors, 4) \in Seq(Releases)
  BY <1>2
<1> QED BY <1>3, <1>4, <1>5, <1>6, <1>7, Zenon

\* Each part of the type of the loader, for every step of it.
LEMMA PlacesKept ==
    ASSUME IInv, Loader PROVE at' \in Places /\ retval' \in {-1, 0}
<1>1. at \in Places /\ retval \in {-1, 0}
  BY DEF IInv, TypeOK, LoaderTypeOK
<1>2. \A s \in Step : After(s) \in Places
  BY AfterIs DEF Places
<1>3. OnBus \subseteq Step /\ "parent" \in Step /\ "sensor_node" \in Step
  BY StepIs DEF OnBus
<1>4. at' \in Places
  BY <1>1, <1>2, <1>3
     DEF Places, Loader, Insmod, Rmmod, Acquire, FailStep, FollowsError, ResetFails, Crash,
         IsConnected, Calibrate, Configure, Undo, InitReturnsZero, Unbound, OnBus
<1>5. retval' \in {-1, 0}
  BY <1>1
     DEF Loader, Insmod, Rmmod, Acquire, FailStep, FollowsError, ResetFails, Crash,
         IsConnected, Calibrate, Configure, Undo, InitReturnsZero, Unbound
<1> QED BY <1>4, <1>5

LEMMA TodoKept ==
    ASSUME IInv, Loader PROVE todo' \in Seq(Releases)
<1>1. todo \in Seq(Releases)
  BY DEF IInv, TypeOK, LoaderTypeOK, Releases
<1>2. CASE Undo
  BY <1>1, <1>2 DEF Undo
<1>3. CASE Rmmod
  BY <1>1, <1>3, ProbeErrorsIs DEF Rmmod
<1>4. CASE todo' = todo
  BY <1>1, <1>4
<1>5. CASE \E s \in Step : FailStep(s)
  <2>1. PICK s \in Step : FailStep(s)
    BY <1>5
  <2>2. CASE s \in {"class", "device"}
    BY <1>1, <2>1, <2>2 DEF FailStep
  <2>3. CASE s \notin {"class", "device"}
    BY <2>1, <2>3, OnErrorIs DEF FailStep, OnBus
  <2> QED BY <2>2, <2>3
<1>6. CASE ResetFails
  BY <1>6, OnErrorIs, StepIs DEF ResetFails
<1>7. CASE IsConnected
  <2>1. CASE todo' = OnError("is_connected")
    BY <2>1, OnErrorIs, StepIs
  <2> QED BY <1>1, <1>7, <2>1 DEF IsConnected
<1> QED BY <1>2, <1>3, <1>4, <1>5, <1>6, <1>7
        DEF Loader, Insmod, Acquire, FollowsError, Crash, Calibrate, Configure,
            InitReturnsZero, Unbound

LEMMA HeldKept ==
    ASSUME IInv, Loader
    PROVE  /\ held' \subseteq Resources /\ numbers' \in 0 .. MaxNumbers
           /\ pointer' \in [Pointers -> BOOLEAN] /\ devm' \in BOOLEAN
<1>1. /\ held \subseteq Resources /\ numbers \in 0 .. MaxNumbers
      /\ pointer \in [Pointers -> BOOLEAN] /\ devm \in BOOLEAN
  BY DEF IInv, TypeOK, LoaderTypeOK
<1>2. held' \subseteq Resources
  <2>1. CASE Undo
    BY <1>1, <2>1 DEF Undo, Release, Forget, Sleep
  <2> QED BY <1>1, <2>1
     DEF Loader, Insmod, Rmmod, Acquire, FailStep, FollowsError, ResetFails, Crash,
         IsConnected, Calibrate, Configure, InitReturnsZero, Unbound
<1>3. numbers' \in 0 .. MaxNumbers
  <2>1. CASE \E s \in Step : Acquire(s)
    BY <1>1, <2>1, DriverAssumption DEF Acquire
  <2>2. CASE numbers' = numbers
    BY <1>1, <2>2
  <2> QED BY <2>1, <2>2
     DEF Loader, Insmod, Rmmod, FailStep, FollowsError, ResetFails, Crash,
         IsConnected, Calibrate, Configure, Undo, InitReturnsZero, Unbound
<1>4. pointer' \in [Pointers -> BOOLEAN]
  <2>1. CASE Undo
    BY <1>1, <2>1 DEF Undo, Release, Forget, Sleep
  <2> QED BY <1>1, <2>1
     DEF Loader, Insmod, Rmmod, Acquire, FailStep, FollowsError, ResetFails, Crash,
         IsConnected, Calibrate, Configure, InitReturnsZero, Unbound
<1>5. devm' \in BOOLEAN
  BY <1>1
     DEF Loader, Insmod, Rmmod, Acquire, FailStep, FollowsError, ResetFails, Crash,
         IsConnected, Calibrate, Configure, Undo, InitReturnsZero, Unbound
<1> QED BY <1>2, <1>3, <1>4, <1>5

LEMMA LoaderTyped ==
    ASSUME IInv, Next PROVE LoaderTypeOK'
<1>1. CASE Loader
  <2>1. todo' \in Seq(Releases) /\ Releases = Resources \cup {"sleep", "null"}
    BY <1>1, TodoKept DEF Releases
  <2> QED BY <1>1, <2>1, PlacesKept, HeldKept DEF LoaderTypeOK
<1>2. CASE UNCHANGED loaderVars
  BY <1>2 DEF IInv, TypeOK, LoaderTypeOK, loaderVars
<1>3. \A u \in Users : UserStep(u) => UNCHANGED loaderVars
  BY UserStepIs
<1> QED BY <1>1, <1>2, <1>3 DEF Next, Isr, Unplug, Plug, UserStep

LEMMA BytesWritten ==
    /\ \A mode \in Nat : CtrlOf(mode) \in 0 .. 255
    /\ \A freq \in Nat : ConfigOf(freq) \in 0 .. 255
BY DEF CtrlOf, ConfigOf

SensorStates == [connected : BOOLEAN, ctrl : 0 .. 255, config : 0 .. 255]
BusTyped == sensor \in SensorStates /\ missed \in BOOLEAN /\ late \in BOOLEAN

LEMMA WriteTyped ==
    ASSUME BusTyped, NEW field \in {"ctrl", "config"}, NEW value \in 0 .. 255,
           Write(field, value)
    PROVE  BusTyped'
<1>1. late' \in BOOLEAN
  BY DEF Write, Answers, Fails, BusTyped
<1>2. missed' \in BOOLEAN
  BY DEF Write
<1>3. sensor' = sensor \/ sensor' = [sensor EXCEPT ![field] = value]
  BY DEF Write
<1>4. sensor' \in SensorStates
  <2>1. CASE field = "ctrl"
    BY <1>3, <2>1 DEF BusTyped, SensorStates
  <2>2. CASE field = "config"
    BY <1>3, <2>2 DEF BusTyped, SensorStates
  <2> QED BY <2>1, <2>2
<1> QED BY <1>1, <1>2, <1>4 DEF BusTyped

LEMMA BusKept ==
    ASSUME IInv, Next PROVE BusTyped'
<1>1. BusTyped
  BY DEF IInv, TypeOK, SensorTypeOK, BusTyped, SensorStates
<1>2. ASSUME NEW u \in Users, UserStep(u) PROVE BusTyped'
  <2>1. CASE UNCHANGED busVars
    BY <1>1, <2>1 DEF BusTyped, busVars
  <2>2. CASE Transfer(u)
    BY <1>1, <2>2 DEF Transfer, BusTyped, Answers, Fails
  <2>3. CASE Ioctl(u)
    <3>1. PICK op \in Operations : Write("config", ConfigOf(op)) \/ Write("ctrl", CtrlOf(op))
      BY <2>3 DEF Ioctl
    <3>2. op \in Nat
      BY DriverAssumption
    <3> QED BY <1>1, <2>1, <3>1, <3>2, BytesWritten, WriteTyped
  <2> QED BY <1>2, <2>1, <2>2, <2>3 DEF UserStep, Open, Read, Close, Take
<1>3. CASE Loader
  <2>1. CASE UNCHANGED busVars
    BY <1>1, <2>1 DEF BusTyped, busVars
  <2>2. CASE Configure
    <3>1. ConfigOf(FREQ_1) \in 0 .. 255 /\ CtrlOf(bmp280_mode.NORMAL) \in 0 .. 255
      BY BytesWritten DEF FREQ_1, bmp280_mode
    <3> QED BY <1>1, <2>2, <3>1, WriteTyped DEF Configure
  <2>3. CASE Undo
    <3>1. UNCHANGED busVars \/ Write("ctrl", CtrlOf(bmp280_mode.SLEEP))
      BY <2>3 DEF Undo, Release, Forget, Sleep
    <3>2. CtrlOf(bmp280_mode.SLEEP) \in 0 .. 255
      BY BytesWritten DEF bmp280_mode
    <3> QED BY <1>1, <2>1, <3>1, <3>2, WriteTyped
  <2>4. CASE IsConnected \/ Calibrate
    BY <1>1, <2>4 DEF IsConnected, Calibrate, BusTyped, Answers, Fails
  <2> QED BY <1>3, <2>1, <2>2, <2>3, <2>4
          DEF Loader, Insmod, Rmmod, Acquire, FailStep, FollowsError, ResetFails, Crash,
              InitReturnsZero, Unbound
<1>4. CASE Isr
  BY <1>1, <1>4 DEF Isr, BusTyped
<1>5. CASE Unplug
  BY <1>1, <1>5 DEF Unplug, BusTyped, SensorStates
<1>6. CASE Plug
  BY <1>1, <1>6 DEF Plug, BusTyped, SensorStates
<1> QED BY <1>2, <1>3, <1>4, <1>5, <1>6 DEF Next, UserStep

LEMMA ReadKept ==
    ASSUME IInv, Next PROVE gRead' \in Registers \cup {"none"}
<1>1. gRead \in Registers \cup {"none"}
  BY DEF IInv, TypeOK, SensorTypeOK
<1>2. CASE IsConnected \/ Calibrate \/ Insmod \/ Isr
  BY <1>1, <1>2 DEF IsConnected, Calibrate, Insmod, Isr, Registers
<1>3. ASSUME NEW u \in Users, UserStep(u) PROVE gRead' \in Registers \cup {"none"}
  <2>1. CASE Transfer(u)
    <3>1. user[u] \in UserState /\ Asking(u) /\ user[u].at = "transfer"
      BY <2>1 DEF IInv, UsersOK, Transfer
    <3>2. Head(user[u].todo) \in Registers
      BY <3>1, NextAsked
    <3> QED BY <1>1, <2>1, <3>2 DEF Transfer
  <2> QED BY <1>1, <1>3, <2>1 DEF UserStep, Open, Read, Close, Take, Ioctl
<1>4. CASE gRead' = gRead
  BY <1>1, <1>4
<1> QED BY <1>2, <1>3, <1>4
     DEF Next, Loader, Rmmod, Acquire, FailStep, FollowsError, ResetFails, Crash,
         Configure, Undo, InitReturnsZero, Unbound, Unplug, Plug, UserStep

LEMMA TypesKept ==
    ASSUME IInv, Next, UsersOK' PROVE TypeOK'
<1>1. SensorTypeOK'
  BY BusKept, ReadKept DEF SensorTypeOK, BusTyped, SensorStates
<1>2. UserTypeOK'
  BY DEF UsersOK, UserTypeOK, UserState
<1>3. (bad \subseteq {"isr", "devm", "probe", "remove", "user"})'
  <2>1. bad \subseteq {"isr", "devm", "probe", "remove", "user"}
    BY DEF IInv, TypeOK
  <2>2. bad' \ bad \subseteq {"isr", "devm", "probe", "remove", "user"}
    BY DEF Next, Loader, Insmod, Rmmod, Acquire, FailStep, FollowsError, ResetFails, Crash,
           IsConnected, Calibrate, Configure, Undo, Release, Forget, Sleep, InitReturnsZero,
           Unbound, Isr, Unplug, Plug, Open, Read, Close, Transfer, Take, Ioctl
  <2> QED BY <2>1, <2>2
<1> QED BY <1>1, <1>2, <1>3, LoaderTyped DEF TypeOK
-----------------------------------------------------------------------------
(***************************************************************************)
(* The invariant and what follows from it.                                 *)
(***************************************************************************)
LEMMA InitIInv == Init => IInv
<1> SUFFICES ASSUME Init PROVE IInv
  OBVIOUS
<1>1. at = "out" /\ held = {} /\ todo = <<>> /\ user = [u \in Users |-> Closed]
  BY DEF Init
<1>2. LoaderTypeOK
  <2>1. MaxNumbers \in Nat
    BY DriverAssumption
  <2>2. 0 \in 0 .. MaxNumbers /\ numbers = 0
    BY <2>1 DEF Init
  <2>3. pointer \in [Pointers -> BOOLEAN] /\ devm \in BOOLEAN /\ retval \in {-1, 0}
    BY DEF Init
  <2>4. todo \in Seq(Resources \cup {"sleep", "null"})
    BY <1>1
  <2> QED BY <1>1, <2>2, <2>3, <2>4 DEF LoaderTypeOK, Places
<1>3. SensorTypeOK
  <2>1. sensor \in [connected : BOOLEAN, ctrl : 0 .. 255, config : 0 .. 255]
    BY DEF Init
  <2>2. gRead \in Registers \cup {"none"} /\ missed \in BOOLEAN /\ late \in BOOLEAN
    BY DEF Init
  <2> QED BY <2>1, <2>2 DEF SensorTypeOK
<1>4. UsersOK
  <2>1. Closed \in UserState /\ Closed.at = "closed"
    BY DEF UserState, Closed
  <2>2. \A u \in Users : user[u] = Closed
    BY <1>1
  <2>3. user \in [Users -> UserState]
    BY <1>1, <2>1
  <2> HIDE DEF Closed
  <2> QED BY <2>1, <2>2, <2>3 DEF UsersOK, Asking
<1>5. UserTypeOK
  BY <1>4 DEF UsersOK, UserTypeOK, UserState
<1>6. Holdings
  BY <1>1, ResourcesAre
     DEF Holdings, InStep, InUse, InUndoI2c, InUndo, AtRest, Init, Quiet, bmp280_mode
<1>7. bad = {}
  BY DEF Init
<1> QED BY <1>2, <1>3, <1>4, <1>5, <1>6, <1>7 DEF IInv, TypeOK

LEMMA NextIInv == IInv /\ [Next]_vars => IInv'
<1>1. ASSUME IInv, Next PROVE IInv'
  <2>1. Holdings' /\ UsersOK'
    BY <1>1, LoaderKeeps, LoaderLeavesUsers, BusKeeps, UserKeeps DEF Next, UserStep
  <2> QED BY <1>1, <2>1, TypesKept DEF IInv
<1>2. ASSUME IInv, UNCHANGED vars PROVE IInv'
  <2>1. Holdings'
    BY <1>2, LoaderKept DEF IInv, vars, busVars, Quiet
  <2>2. UsersOK'
    BY <1>2 DEF IInv, UsersOK, Asking, vars, loaderVars
  <2>3. TypeOK'
    BY <1>2 DEF IInv, TypeOK, LoaderTypeOK, SensorTypeOK, UserTypeOK, vars, loaderVars, busVars
  <2> QED BY <2>1, <2>2, <2>3 DEF IInv
<1> QED BY <1>1, <1>2

LEMMA Inductive == Spec => []IInv
BY InitIInv, NextIInv, PTL DEF Spec

\* Every variable keeps its type, whatever fails (the static variables of the
\* four files).
THEOREM Typed == Spec => []TypeOK
<1>1. IInv => TypeOK
  BY DEF IInv
<1> QED BY <1>1, Inductive, PTL

\* While the device file is there or a process has it open, the registers are
\* mapped, the handler is registered and name and class are there, in every
\* error path of probe and in remove (driver.c, char_device.c). Where the class
\* could not be created there is no file: device_create fails with it.
THEOREM Served == Spec => []FilesAreServed
<1>1. IInv => FilesAreServed
  <2> SUFFICES ASSUME IInv, "device" \in held
               PROVE  Mapped /\ {"irq", "name", "class"} \subseteq held
    BY DEF FilesAreServed, IInv, UsersOK
  <2>1. at \in Places /\ held \subseteq Resources
    BY DEF IInv, TypeOK, LoaderTypeOK
  <2>2. CASE at \in Step
    <3>1. CASE at \in I2cSteps
      <4>1. Number(at) <= 12 /\ InI2cInit
        BY <2>2, <3>1, NumberType DEF IInv, Holdings, InStep
      <4>2. "device" \in Resources \ LeftOver
        BY DEF Resources, LeftOver
      <4>3. Number("device") < Number(at)
        BY <4>1, <4>2 DEF InI2cInit, Past
      <4> QED BY <2>2, <4>1, <4>3, NumberType, Numbered
    <3>2. CASE at \notin I2cSteps
      <4>1. InProbe
        BY <2>2, <3>2 DEF IInv, Holdings, InStep
      <4>2. Past("device") /\ Past("name") /\ Number(at) > 15
        BY <2>2, <4>1, NumberType, Numbered DEF InProbe, Past
      <4> QED BY <2>2, <4>1, <4>2, NumberType, Numbered DEF InProbe, Full, DeviceHasClass
    <3> QED BY <3>1, <3>2
  <2>3. CASE at = "bound"
    BY <2>3 DEF IInv, Holdings, InUse, Full, DeviceHasClass
  <2>4. CASE at = "undo_i2c"
    <3>1. \E n \in 1 .. 7 : Releasing(I2cErrors, n)
      BY <2>4 DEF IInv, Holdings, InUndoI2c
    <3> QED BY <3>1, I2cErrorsIs DEF Releasing, LeftOver
  <2>5. CASE at \in {"undo", "remove"}
    <3>1. CASE \E n \in 1 .. 10 : UndoFrom(n)
      <4>1. PICK n \in 1 .. 10 : UndoFrom(n)
        BY <3>1
      <4>2. \E i \in n .. 9 : ProbeErrors[i] = "device"
        BY <4>1, ProbeErrorsIs DEF UndoFrom, Releasing, LeftOver
      <4>3. n = 1
        BY <4>2, ProbeErrorsIs
      <4> QED BY <4>1, <4>3 DEF UndoFrom, Full, DeviceHasClass
    <3>2. CASE Releasing(<<"sensor_node">> \o I2cDeinit, 1)
      <4>1. "sensor_node" \in Releases
        BY DEF Releases, Resources
      <4> DEFINE list == <<"sensor_node">> \o I2cDeinit
      <4>2. /\ list \in Seq(Releases) /\ Len(list) = 5 /\ list[1] = "sensor_node"
            /\ \A i \in 1 .. 4 : list[i + 1] = I2cDeinit[i]
        BY <4>1, BeforeDeinit
      <4>3. Releasing(list, 1)
        BY <3>2
      <4> HIDE DEF list
      <4>4. \E i \in 1 .. 5 : list[i] = "device"
        BY <4>2, <4>3 DEF Releasing, LeftOver
      <4>5. \A i \in 1 .. 5 : list[i] # "device"
        <5>1. list[2] = I2cDeinit[1] /\ list[3] = I2cDeinit[2] /\ list[4] = I2cDeinit[3]
              /\ list[5] = I2cDeinit[4]
          BY <4>2
        <5> QED BY <4>2, <5>1, I2cDeinitIs
      <4> QED BY <4>4, <4>5
    <3> QED BY <2>5, <3>1, <3>2 DEF IInv, Holdings, InUndo
  <2>6. CASE at \in {"out", "unbound", "oops"}
    BY <2>6 DEF IInv, Holdings, AtRest, LeftOver
  <2> QED BY <2>1, <2>2, <2>3, <2>4, <2>5, <2>6 DEF Places
<1> QED BY <1>1, Inductive, PTL

\* Wherever probe fails, and after remove, everything that was acquired has been
\* released but the sensor's node, the cdev and the device number (the labels of
\* cotti_i2c.c, bmp280.c and char_device.c).
THEOREM AllReleased == Spec => []Released
<1>1. IInv => Released
  BY DEF IInv, Holdings, AtRest, Released, LeftOver
<1> QED BY <1>1, Inductive, PTL

\* A sensor without a driver sleeps unless the write that stops it was lost
\* (bmp280_deinit; the errors before bmp280_set_mode need none).
THEOREM Sleeps == Spec => []SleepsWhenReleased
<1>1. IInv => SleepsWhenReleased
  BY DEF IInv, Holdings, AtRest, SleepsWhenReleased, Quiet
<1> QED BY <1>1, Inductive, PTL
-----------------------------------------------------------------------------
(***************************************************************************)
(* Accesses to memory that is not mapped.                                  *)
(***************************************************************************)
\* class_create does not fail.
ClassesMade == "class" \notin Faults

\* The error paths and remove do not access what was released.
LEMMA UndoIsSafe ==
    ASSUME ClassesMade, IInv, Undo PROVE bad' = bad
<1>1. CASE at = "undo_i2c"
  <2>1. PICK n \in 1 .. 7 : Releasing(I2cErrors, n)
    BY <1>1 DEF IInv, Holdings, InUndoI2c
  <2>2. I2cErrors \in Seq(Releases) /\ n \in 1 .. Len(I2cErrors) + 1 /\ Len(I2cErrors) = 6
    BY I2cErrorsIs
  <2>3. n \in 1 .. 6 /\ (Release(I2cErrors[n]) \/ Forget(I2cErrors[n]) \/ Sleep(I2cErrors[n]))
    BY <2>1, <2>2, UndoIs
  <2>4. I2cErrors[n] # "device" /\ I2cErrors[n] # "sleep"
    BY <2>3, I2cErrorsIs
  <2> QED BY <2>3, <2>4 DEF Release, Forget, Sleep
<1>2. CASE at \in {"undo", "remove"} /\ \E n \in 1 .. 10 : UndoFrom(n)
  <2>1. PICK n \in 1 .. 10 : UndoFrom(n)
    BY <1>2
  <2>2. ProbeErrors \in Seq(Releases) /\ n \in 1 .. Len(ProbeErrors) + 1 /\ Len(ProbeErrors) = 9
    BY ProbeErrorsIs
  <2>3. /\ n \in 1 .. 9
        /\ Release(ProbeErrors[n]) \/ Forget(ProbeErrors[n]) \/ Sleep(ProbeErrors[n])
    BY <2>1, <2>2, UndoIs DEF UndoFrom
  <2>4. ProbeErrors[n] = "device" => "class" \in held
    BY <2>1, <2>3, ProbeErrorsIs DEF UndoFrom, ClassMade, ClassesMade
  <2>5. ProbeErrors[n] = "sleep" => Mapped
    BY <2>1, <2>3, ProbeErrorsIs DEF UndoFrom, Full
  <2> QED BY <2>3, <2>4, <2>5 DEF Release, Forget, Sleep
<1>3. CASE Releasing(<<"sensor_node">> \o I2cDeinit, 1)
  <2>1. "sensor_node" \in Releases
    BY DEF Releases, Resources
  <2> DEFINE list == <<"sensor_node">> \o I2cDeinit
  <2>2. list \in Seq(Releases) /\ Len(list) = 5 /\ list[1] = "sensor_node" /\ Releasing(list, 1)
    BY <1>3, <2>1, BeforeDeinit
  <2> HIDE DEF list
  <2>3. 1 \in 1 .. Len(list) + 1
    BY <2>2
  <2>4. Release("sensor_node") \/ Forget("sensor_node") \/ Sleep("sensor_node")
    BY <2>2, <2>3, UndoIs
  <2> QED BY <2>4 DEF Release, Forget, Sleep
<1>4. at \in {"undo_i2c", "undo", "remove"}
  BY DEF Undo
<1> QED BY <1>1, <1>2, <1>3, <1>4 DEF IInv, Holdings, InUndo

\* No process and no step of remove accesses unmapped memory, whatever probe
\* failed at before (cotti_i2c.c, driver.c, char_device.c), when class_create
\* succeeds: its error pointer would be followed by remove.
THEOREM UsersAreSafe == ClassesMade => (Spec => []NoUserMeetsUnmapped)
<1> SUFFICES ASSUME ClassesMade PROVE Spec => []NoUserMeetsUnmapped
  OBVIOUS
<1>1. Init => NoUserMeetsUnmapped
  BY DEF Init, NoUserMeetsUnmapped
<1>2. NoUserMeetsUnmapped /\ IInv /\ [Next]_vars => NoUserMeetsUnmapped'
  <2>1. ASSUME NoUserMeetsUnmapped, bad' \ bad \subseteq {"isr", "devm", "probe"}
        PROVE  NoUserMeetsUnmapped'
    BY <2>1 DEF NoUserMeetsUnmapped
  <2>2. ASSUME IInv, Next PROVE bad' \ bad \subseteq {"isr", "devm", "probe"}
    <3>1. CASE Undo
      BY <2>2, <3>1, UndoIsSafe
    <3>2. ASSUME NEW u \in Users, UserStep(u) PROVE bad' = bad
      <4>1. Mapped
        BY <2>2, <3>2, UserStepIs DEF Full
      <4> QED BY <3>2, <4>1 DEF UserStep, Open, Read, Close, Transfer, Take, Ioctl
    <3> QED BY <2>2, <3>1, <3>2
        DEF Next, Loader, Insmod, Rmmod, Acquire, FailStep, FollowsError, ResetFails, Crash,
            IsConnected, Calibrate, Configure, InitReturnsZero, Unbound, Isr, Unplug,
            Plug, UserStep
  <2>3. CASE UNCHANGED vars
    BY <2>3 DEF vars, NoUserMeetsUnmapped
  <2> QED BY <2>1, <2>2, <2>3
<1> QED BY <1>1, <1>2, Inductive, PTL DEF Spec
=============================================================================
