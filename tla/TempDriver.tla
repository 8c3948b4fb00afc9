------------------------------ MODULE TempDriver ------------------------------
(***************************************************************************)
(* The kernel module of 02_cuat/driver around the bus: its loading and      *)
(* removal (driver.c), the set-up of the controller (cotti_i2c.c), the      *)
(* BMP280 (bmp280.c) and the character device (char_device.c), with the     *)
(* processes that open, read and control /dev/temp-sensor.                  *)
(*                                                                         *)
(* A transfer on the bus is one step here, from the lock to the unlock;     *)
(* CottiI2c is that step in detail.  What a read returns is taken from      *)
(* g_read after the unlock, a step of its own.  Of a byte only the register *)
(* it was read from is kept: the temperature, its calibration and its unit  *)
(* are left out.                                                            *)
(***************************************************************************)
EXTENDS Integers, Sequences, FiniteSets

CONSTANTS
    Users,      \* processes that use the device file
    Operations, \* the ints passed to ioctl
    MaxNumbers, \* device numbers the kernel can give
    Faults      \* steps of probe that may fail, "slow", "unplug"

\* "slow": a transfer ends after its caller gave up; "unplug": the sensor is
\* disconnected and connected again (user_test.c).
ProbeSteps ==
    <<"parent", "properties", "values", "clk_node", "pinmux_node", "clk_get", "clk_ptr",
      "control_module_ptr", "i2c_ptr", "reset", "get_irq", "irq",
      "sensor_node", "slave_address", "is_connected", "calibration", "frequency", "mode",
      "name", "number", "class", "device", "cdev">>
Step == {ProbeSteps[i] : i \in DOMAIN ProbeSteps}

\* Out of the kernel; in probe; in the error paths of cotti_i2c_init and of
\* the rest of probe; loaded with and without its device; in remove; dead.
Places == Step \cup {"out", "undo_i2c", "undo", "bound", "unbound", "remove", "oops"}

Pointers  == {"clk_ptr", "control_module_ptr", "i2c_ptr"}
Resources == Pointers \cup {"clk_node", "pinmux_node", "irq", "sensor_node",
                            "name", "number", "class", "device", "cdev"}
Registers == {"DIG", "ID", "MSB", "LSB", "XLSB"}

ASSUME DriverAssumption ==
    /\ Users # {}
    /\ Operations \subseteq Nat
    /\ MaxNumbers \in Nat
    /\ Faults \subseteq Step \cup {"slow", "unplug"}

\* bmp280_types.h
bmp280_mode == [SLEEP |-> 0, FORCED |-> 1, NORMAL |-> 3]
FREQ_1 == 5

VARIABLES
    at,         \* the module: see Places
    todo,       \* what is still to be released
    retval,     \* retval of cotti_i2c_init
    held,       \* kernel resources held
    numbers,    \* device numbers allocated: none is given back
    pointer,    \* clk_ptr, control_module_ptr, i2c_ptr: TRUE when not NULL
    devm,       \* the kernel is to unmap i2c_ptr when the device is unbound
    gRead,      \* g_read: the register it was read from
    sensor,     \* the BMP280: connected, CTRL_MEAS, CONFIG
    missed,     \* the last write did not reach the sensor
    late,       \* an interrupt of a transfer given up is to come
    user,       \* the processes: what they do and have still to read
    bad         \* the accesses to unmapped memory made so far

loaderVars == <<at, todo, retval, held, numbers, pointer, devm>>
busVars    == <<sensor, missed, late>>
vars == <<loaderVars, gRead, busVars, user, bad>>

Closed == [at |-> "closed", job |-> "none", todo |-> <<>>]

Init ==
    /\ at = "out" /\ todo = <<>> /\ retval = 0
    /\ held = {} /\ numbers = 0
    /\ pointer = [p \in Pointers |-> FALSE]
    /\ devm = FALSE
    /\ gRead = "none"
    /\ sensor = [connected |-> TRUE, ctrl |-> 0, config |-> 0]
    /\ missed = FALSE /\ late = FALSE
    /\ user = [u \in Users |-> Closed]
    /\ bad = {}
-----------------------------------------------------------------------------
(***************************************************************************)
(* The bus and the sensor.                                                 *)
(***************************************************************************)
Mapped == \A p \in Pointers : pointer[p] /\ p \in held

\* A transfer that fails: the sensor does not answer, or answers too late.
Fails ==
    \/ ~sensor.connected /\ late' = late
    \/ "slow" \in Faults /\ late' = TRUE

Answers == sensor.connected /\ late' = late

\* bmp280_set_mode and bmp280_set_frequency: a u8 is written.
CtrlOf(mode)   == (IF (mode \div 32) % 2 = 1 THEN mode ELSE mode + 32) % 256
\* Mutant: the product is not cut to a u8.
ConfigOfWide(freq) == freq * 32

ConfigOf(freq) == (freq * 32) % 256

Write(field, value) ==
    \/ Answers /\ sensor' = [sensor EXCEPT ![field] = value] /\ missed' = FALSE
    \/ Fails /\ UNCHANGED sensor /\ missed' = TRUE

\* The handler reads IRQSTATUS through i2c_ptr, and a byte if there is one.
Isr ==
    /\ late /\ late' = FALSE
    /\ "irq" \in held
    /\ gRead' \in {gRead} \cup Registers
    /\ bad' = bad \cup (IF Mapped THEN {} ELSE {"isr"})
    /\ UNCHANGED <<loaderVars, sensor, missed, user>>

\* Without power its registers are lost.
Unplug ==
    /\ "unplug" \in Faults /\ sensor.connected
    /\ sensor' = [connected |-> FALSE, ctrl |-> 0, config |-> 0]
    /\ UNCHANGED <<loaderVars, gRead, missed, late, user, bad>>

Plug ==
    /\ ~sensor.connected
    /\ sensor' = [sensor EXCEPT !.connected = TRUE]
    /\ UNCHANGED <<loaderVars, gRead, missed, late, user, bad>>
-----------------------------------------------------------------------------
(***************************************************************************)
(* Loading and removing the module.                                        *)
(***************************************************************************)
\* The labels of the error paths, in the order they fall through.
CharErrors   == <<"device", "class", "number", "name">>
I2cDeinit    == <<"clk_ptr", "control_module_ptr", "i2c_ptr", "irq">>
\* Mutant: remove releases the bus before the devices on it.
ProbeErrorsBusFirst == I2cDeinit \o CharErrors \o <<"sleep">>

ProbeErrors  == CharErrors \o <<"sleep">> \o I2cDeinit

\* Mutant: the clock's node is not put.
I2cErrorsNoPut == <<"i2c_ptr", "control_module_ptr", "clk_ptr", "pinmux_node", "null", "null">>

I2cErrors    == <<"i2c_ptr", "control_module_ptr", "clk_ptr", "pinmux_node", "clk_node", "null">>
From(s, n)   == SubSeq(s, n, Len(s))
I2cSteps     == {ProbeSteps[i] : i \in 1 .. 12}

\* Mutant: a device that cannot be registered leaves its file behind.
OnErrorSkipsDevice(s) ==
    IF s = "cdev" THEN From(ProbeErrors, 2) ELSE From(ProbeErrors, 5)

\* Mutant: the character device's errors leave through i2c_error.
OnErrorStaysAwake(s) ==
    CASE s = "name"   -> I2cDeinit
      [] s = "cdev"   -> CharErrors \o I2cDeinit
      [] OTHER        -> I2cDeinit

\* What probe releases when a step fails: where its goto leads.
OnError(s) ==
    CASE s \in {"parent", "properties", "values", "clk_node"} -> From(I2cErrors, 6)
      [] s = "pinmux_node"                     -> From(I2cErrors, 5)
      [] s \in {"clk_get", "clk_ptr"}          -> From(I2cErrors, 4)
      [] s = "control_module_ptr"              -> From(I2cErrors, 3)
      [] s = "i2c_ptr"                         -> From(I2cErrors, 2)
      [] s \in {"reset", "get_irq", "irq"}     -> I2cErrors
      [] s = "sensor_node"                     -> I2cDeinit
      [] s \in {"slave_address", "is_connected"} -> <<"sensor_node">> \o I2cDeinit
      [] s = "name"                            -> From(ProbeErrors, 5)
      [] s = "number"                          -> From(ProbeErrors, 4)
      [] s = "cdev"                            -> ProbeErrors

\* The step after s. frequency and mode, whose results nobody looks at, cannot
\* fail; class and device cannot either, whose errors are not NULL.
After(s) ==
    LET i == CHOOSE j \in DOMAIN ProbeSteps : ProbeSteps[j] = s
    IN  IF i = Len(ProbeSteps) THEN "bound" ELSE ProbeSteps[i + 1]

\* my_module_init; the static variables are those of the image.
Insmod ==
    /\ at = "out"
    /\ at' = "parent" /\ retval' = -1
    /\ pointer' = [p \in Pointers |-> FALSE]
    /\ gRead' = "none"
    /\ UNCHANGED <<todo, held, numbers, devm, busVars, user, bad>>

OnBus == {"is_connected", "calibration", "frequency", "mode"}

\* A step of probe outside the bus succeeds. The two nodes are put at the end
\* of cotti_i2c_init.
Acquire(s) ==
    /\ at = s /\ s \notin OnBus
    /\ s = "number" => numbers < MaxNumbers
    /\ s = "device" => "class" \in held
    /\ at' = After(s)
    /\ retval' = IF s \in {"values", "irq"} THEN 0 ELSE retval
    /\ held' = (held \cup ({s} \cap Resources))
               \ (IF s = "irq" THEN {"clk_node", "pinmux_node"} ELSE {})
    /\ numbers' = numbers + (IF s = "number" THEN 1 ELSE 0)
    /\ pointer' = [p \in Pointers |-> pointer[p] \/ p = s]
    /\ devm' = (devm \/ s = "i2c_ptr")
    /\ UNCHANGED <<todo, gRead, busVars, user, bad>>

MayFail(s) ==
    \/ s \in Faults
    \/ s = "number" /\ numbers = MaxNumbers
    \/ s = "device" /\ "class" \notin held

\* ... or fails. class_create and device_create return an error pointer, which
\* passes the comparison with NULL.
FailStep(s) ==
    /\ at = s /\ s \notin OnBus \cup {"clk_get", "i2c_ptr", "reset"} /\ MayFail(s)
    /\ IF s \in {"class", "device"}
       THEN at' = After(s) /\ UNCHANGED <<todo, retval>>
       ELSE /\ at' = IF s \in I2cSteps THEN "undo_i2c" ELSE "undo"
            /\ todo' = OnError(s)
            /\ retval' = -1
    /\ UNCHANGED <<held, numbers, pointer, devm, gRead, busVars, user, bad>>

\* So do the clock and the registers of the controller; clk_get_rate and the
\* reset follow the error pointer.
FollowsError ==
    /\ at \in {"clk_get", "i2c_ptr"} /\ MayFail(at)
    /\ at' = "oops" /\ bad' = bad \cup {"probe"}
    /\ UNCHANGED <<todo, retval, held, numbers, pointer, devm, gRead, busVars, user>>

\* prv_reset_i2c gives up after eleven polls; retval stays at the 0 of the
\* property reads.
ResetFails ==
    /\ at = "reset" /\ MayFail("reset")
    /\ at' = "undo_i2c" /\ todo' = OnError("reset")
    /\ UNCHANGED <<retval, held, numbers, pointer, devm, gRead, busVars, user, bad>>

\* A step of bmp280_init on the bus, with the pointers it has.
Crash ==
    /\ at \in OnBus /\ ~Mapped
    /\ at' = "oops" /\ bad' = bad \cup {"probe"}
    /\ UNCHANGED <<todo, retval, held, numbers, pointer, devm, gRead, busVars, user>>

IsConnected ==
    /\ at = "is_connected" /\ Mapped
    /\ \/ Answers /\ gRead' = "ID" /\ at' = After(at) /\ UNCHANGED <<todo, retval>>
       \/ Fails /\ at' = "undo" /\ todo' = OnError(at) /\ retval' = -1 /\ UNCHANGED gRead
    /\ UNCHANGED <<held, numbers, pointer, devm, sensor, missed, user, bad>>

\* Two reads for each of the three words. Nobody looks whether a byte was read.
Calibrate ==
    /\ at = "calibration" /\ Mapped
    /\ \/ Answers /\ gRead' = "DIG"
       \/ Fails /\ gRead' \in {gRead, "DIG"}
    /\ at' = After(at)
    /\ UNCHANGED <<todo, retval, held, numbers, pointer, devm, sensor, missed, user, bad>>

Configure ==
    /\ Mapped
    /\ \/ at = "frequency" /\ Write("config", ConfigOf(FREQ_1))
       \/ at = "mode" /\ Write("ctrl", CtrlOf(bmp280_mode.NORMAL))
    /\ at' = After(at)
    /\ UNCHANGED <<todo, retval, held, numbers, pointer, devm, gRead, user, bad>>

\* The kernel calls remove when no process has the file open; without a
\* device there is nothing to remove.
Rmmod ==
    /\ \/ at = "bound" /\ at' = "remove" /\ todo' = ProbeErrors
       \/ at = "unbound" /\ at' = "out" /\ UNCHANGED todo
    /\ \A u \in Users : user[u].at = "closed"
    /\ UNCHANGED <<retval, held, numbers, pointer, devm, gRead, busVars, user, bad>>

\* iounmap, free_irq, of_node_put, device_destroy, class_destroy, kfree. The
\* number is not given back: unregister_chrdev takes a major number and gets
\* both, and finds nothing under it. A class that is an error pointer is followed.
Release(r) ==
    /\ r \in Resources
    /\ held' = IF r = "number" THEN held ELSE held \ {r}
    /\ bad' = bad \cup (IF r = "device" /\ "class" \notin held THEN {"remove"} ELSE {})
    /\ UNCHANGED <<pointer, busVars>>

\* pdev_error: the pointers are forgotten.
Forget(r) ==
    /\ r = "null"
    /\ pointer' = [p \in Pointers |-> FALSE]
    /\ UNCHANGED <<held, busVars, bad>>

\* bmp280_deinit.
Sleep(r) ==
    /\ r = "sleep"
    /\ IF Mapped
       THEN Write("ctrl", CtrlOf(bmp280_mode.SLEEP)) /\ UNCHANGED bad
       ELSE bad' = bad \cup {"remove"} /\ UNCHANGED busVars
    /\ UNCHANGED <<held, pointer>>

Undo ==
    /\ at \in {"undo_i2c", "undo", "remove"} /\ todo # <<>>
    /\ todo' = Tail(todo)
    /\ \/ Release(Head(todo))
       \/ Forget(Head(todo))
       \/ Sleep(Head(todo))
    /\ UNCHANGED <<at, retval, numbers, devm, gRead, user>>

\* cotti_i2c_init returns retval, and 0 is success.
InitReturnsZero ==
    /\ at = "undo_i2c" /\ todo = <<>> /\ retval = 0
    /\ at' = "sensor_node"
    /\ UNCHANGED <<todo, retval, held, numbers, pointer, devm, gRead, busVars, user, bad>>

\* probe has failed, or remove is over: the kernel unmaps what it mapped for
\* the driver, again.
Unbound ==
    /\ todo = <<>>
    /\ \/ at = "undo_i2c" /\ retval # 0 /\ at' = "unbound"
       \/ at = "undo" /\ at' = "unbound"
       \/ at = "remove" /\ at' = "out"
    /\ devm' = FALSE
    /\ held' = held \ {"i2c_ptr"}
    /\ bad' = bad \cup (IF devm /\ "i2c_ptr" \notin held THEN {"devm"} ELSE {})
    /\ UNCHANGED <<todo, retval, numbers, pointer, gRead, busVars, user>>
-----------------------------------------------------------------------------
(***************************************************************************)
(* The character device.                                                   *)
(***************************************************************************)
Reply(u) == user' = [user EXCEPT ![u] = [at |-> "open", job |-> "none", todo |-> <<>>]]

\* char_device_open asks for the sensor's id; the module cannot be removed
\* while it does.
Open(u) ==
    /\ at = "bound" /\ {"device", "cdev"} \subseteq held
    /\ user[u].at = "closed"
    /\ user' = [user EXCEPT ![u] = [at |-> "transfer", job |-> "open", todo |-> <<"ID">>]]
    /\ UNCHANGED <<loaderVars, gRead, busVars, bad>>

\* bmp280_read_temperature: three registers in three operations.
Sample == <<"MSB", "LSB", "XLSB">>

Read(u) ==
    /\ user[u].at = "open"
    /\ user' = [user EXCEPT ![u] = [at |-> "transfer", job |-> "read", todo |-> Sample]]
    /\ UNCHANGED <<loaderVars, gRead, busVars, bad>>

Close(u) ==
    /\ user[u].at = "open"
    /\ user' = [user EXCEPT ![u] = Closed]
    /\ UNCHANGED <<loaderVars, gRead, busVars, bad>>

\* One call of cotti_i2c_read, up to the unlock. A failed open leaves the file
\* closed, a failed read returns -1.
Transfer(u) ==
    /\ user[u].at = "transfer"
    /\ bad' = bad \cup (IF Mapped THEN {} ELSE {"user"})
    /\ \/ /\ Answers
          /\ gRead' = Head(user[u].todo)
          /\ user' = [user EXCEPT ![u].at = "take"]
       \/ /\ Fails
          /\ IF user[u].job = "open" THEN user' = [user EXCEPT ![u] = Closed] ELSE Reply(u)
          /\ UNCHANGED gRead
    /\ UNCHANGED <<loaderVars, sensor, missed>>

\* ... and its return. A byte of another register, read in between, may or may
\* not be BMP280_ID.
Take(u) ==
    /\ user[u].at = "take"
    /\ \/ /\ Len(user[u].todo) > 1
          /\ user' = [user EXCEPT ![u].at = "transfer", ![u].todo = Tail(user[u].todo)]
       \/ /\ Len(user[u].todo) = 1
          /\ Reply(u)
       \/ /\ user[u].job = "open" /\ gRead # "ID"
          /\ user' = [user EXCEPT ![u] = Closed]
    /\ UNCHANGED <<loaderVars, gRead, busVars, bad>>

\* char_device_ioctl; any int is taken. Setting the unit touches no register.
Ioctl(u) ==
    /\ user[u].at = "open"
    /\ \E op \in Operations :
          Write("config", ConfigOf(op)) \/ Write("ctrl", CtrlOf(op))
    /\ bad' = bad \cup (IF Mapped THEN {} ELSE {"user"})
    /\ UNCHANGED <<loaderVars, gRead, user>>
-----------------------------------------------------------------------------
Loader ==
    \/ Insmod \/ Rmmod
    \/ \E s \in Step : Acquire(s) \/ FailStep(s)
    \/ FollowsError \/ ResetFails
    \/ Crash \/ IsConnected \/ Calibrate \/ Configure
    \/ Undo \/ InitReturnsZero \/ Unbound

Next ==
    \/ Loader
    \/ Isr \/ Unplug \/ Plug
    \/ \E u \in Users : Open(u) \/ Read(u) \/ Close(u) \/ Transfer(u) \/ Take(u) \/ Ioctl(u)

Spec == Init /\ [][Next]_vars
-----------------------------------------------------------------------------
\* Every variable has its type (the static variables of the four files).
LoaderTypeOK ==
    /\ at \in Places
    /\ todo \in Seq(Resources \cup {"sleep", "null"})
    /\ retval \in {-1, 0}
    /\ held \subseteq Resources
    /\ numbers \in 0 .. MaxNumbers
    /\ pointer \in [Pointers -> BOOLEAN]
    /\ devm \in BOOLEAN

SensorTypeOK ==
    /\ gRead \in Registers \cup {"none"}
    /\ sensor \in [connected : BOOLEAN, ctrl : 0 .. 255, config : 0 .. 255]
    /\ missed \in BOOLEAN /\ late \in BOOLEAN

UserTypeOK ==
    user \in [Users -> [at   : {"closed", "open", "transfer", "take"},
                        job  : {"none", "open", "read"},
                        todo : Seq(Registers)]]

TypeOK ==
    /\ LoaderTypeOK /\ SensorTypeOK /\ UserTypeOK
    /\ bad \subseteq {"isr", "devm", "probe", "remove", "user"}

\* While a process has the device file open, or there is one to open, the
\* registers are mapped, the interrupt is handled and what the file stands on
\* is there, in every step of probe, of its error paths and of remove.
FilesAreServed ==
    ("device" \in held \/ \E u \in Users : user[u].at # "closed")
        => Mapped /\ {"irq", "name", "class"} \subseteq held

\* Wherever probe fails, and after remove, everything that was acquired has
\* been released but the reference to the sensor's node, the registered cdev
\* and the device number, which no path gives back.
Released ==
    at \in {"out", "unbound"} => held \subseteq {"sensor_node", "cdev", "number"}

\* No process and no step of remove accesses memory that is not mapped, between
\* all the error paths and removals. (A late interrupt between iounmap and
\* free_irq does, the kernel's own unmapping of i2c_ptr, and a probe that goes
\* on after a failed reset or with an error pointer.)
NoUserMeetsUnmapped == bad \cap {"user", "remove"} = {}

\* A sensor without a driver sleeps, whatever probe failed at and whatever the
\* processes asked for, unless the write that stops it was lost.
SleepsWhenReleased ==
    at \in {"out", "unbound"} /\ ~missed => sensor.ctrl % 4 = bmp280_mode.SLEEP
=============================================================================
