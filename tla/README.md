# Formal models of td3

This directory holds TLA+ models of the two programs of this repository, the
configurations that check them with TLC, and proofs checked by TLAPS:

* `01_cuat/tp_01_06`, a small operating system for a single Cortex-A8 ("Cotti
  OS"): a round-robin scheduler with one address space per task, system calls,
  an MMU, a GIC and SP804 timers, and a lazily switched vector unit;
* `02_cuat`, a Linux driver for an I2C bus with a BMP280 temperature sensor
  (`driver/`) and a web server that shows the temperature (`server/`).

Paths below are relative to `src/`.

## 1. Inventory

### Kernel (01_cuat/tp_01_06)

| Component | State | Operations | What is hard, what makes it correct |
|---|---|---|---|
| Scheduler: `src/kernel/scheduler.c` | `prv_task_contexts`, `prv_current_task`, `prv_last_task` | init, add_task, start, change_task (timer interrupt) | A tick falls between any two instructions; every slot must get its turn. |
| Context switch: `vector_table.S` | core registers, TTBR0 and ASID | save_context, load_new_context, SVC and UND entry | No task may see or change the registers, mode or address space of another. |
| Lazy vector switch: `neon.S` | FPEXC.EN, the register bank | neon_undef_handler, neon_disable | The bank belongs to the task that used it last only while the unit is on. |
| Timers and interrupt dispatch: `drivers/timer.c`, `drivers/gic.c`, `int_handlers.c` | CONTROL, LOAD, VALUE and status of eight timers, SYSCTRL, SET_ENABLE, acknowledge and EOI | the timer and GIC calls, irq_handler | Registers are changed by a load and a store with interrupts on; two timers share a line; an interrupt must be cleared at its source and ended at the GIC. |
| MMU: `mmu.S`, `startup.S` | first- and second-level tables, two page counters, TLB | map, unmap, task_init | Pages handed out twice, stale TLB entries, counters without a bound. |
| Abort handlers: `int_handlers.c` | return codes | prefetch and data abort | Which aborts are repaired and retried. |
| System calls and tests: `syscalls.S`, `common.c`, `kernel_testing.c` | random state | table of calls, run with interrupts on | System calls are preempted by ticks. |
| Earlier exercises: `tp_01_01` to `tp_01_05` | | | Stages of the same program. |

Tasks interact with the kernel by system calls and by vector instructions
(which trap), the devices by interrupts; handlers run with interrupts masked,
except while they make a system call (`vector_table.S:69`).

### Driver (02_cuat/driver)

| Component | State | Operations | What is hard, what makes it correct |
|---|---|---|---|
| I2C bus: `src/cotti_i2c.c` | `lock_bus`, `g_len`, `g_write`, `g_read`, `comp_read`, `comp_stop`, `wq_write`, controller registers | write, read, interrupt handler, init, deinit | Several processes, one handler and the controller share the buffers; timeouts, signals, refused bytes. One transfer at a time; no leftover completion; every path unlocks. |
| BMP280: `src/bmp280.c` | calibration, unit | init, read_temperature, set_mode, set_frequency | A temperature is three bus operations; a sensor nobody uses must sleep. |
| Character device and platform driver: `src/char_device.c`, `src/driver.c` | cdev, class, device number, pointers to registers | probe, remove, open, read, ioctl, close | Probe has 23 steps that may fail, each with an error path of its own; a file must not outlive what it stands on. |

### Server (02_cuat/server)

| Component | State | Operations | What is hard, what makes it correct |
|---|---|---|---|
| Accept loop: `lib_src/server.cpp` | `exit`, open descriptors | start, leave | Signals between a check and `accept`; a child per connection. |
| Pages: `src/httpserver.cpp` | `serverData` in shared memory, `flag_update_conf` | on_accept, update_configuration, handlers | Many children count clients in shared memory under one semaphore; a refresh is two requests in either order. |
| Sensor: `src/temp_sensor.cpp`, `lib_src/signal.cpp` | window of samples, period, `quit` | read loop, destructor | Configuration changes under the loop; the signals that end it. |
| Sockets and HTTP: `lib_src/socket.cpp`, `server.cpp`, `src/httpserver.cpp`, `http_types.cpp` | descriptors, `client_msg`, the request and the answer | construct, accept, read, answer, write, destroy | Requests in pieces or two at once, sends that are cut short, descriptors closed twice or never. |
| System V objects: `lib_src/sem.cpp`, `shared_memory.h`, `msg_queue.h` | keys, ids, creator and its thread | create, connect, read, write, destroy | Objects outlive a process that was killed; copies in forked children must not remove them. |
| Threads and mutexes: `thread.cpp`, `mutex.cpp` | | start, join, detach, lock | Only what the sensor's thread uses is used at all. |
| Page and scripts: `web/`, `scripts/`, `install.sh` | | | |

The sensor thread opens the character device; children read the average it
leaves in shared memory. The server tells itself by SIGUSR1 (operator:
configuration), SIGINT (leave), SIGALRM and SIGUSR2 (sensor thread).

## 2. Modules

| Module | Models | Built on |
|---|---|---|
| `TaskMachines` | what the scheduler promises: a machine per slot that only its task changes | |
| `Scheduler` | the kernel's scheduler, context switch, dispatch, aborts and lazy vector switch | refines `TaskMachines` |
| `TimerDevices` | what the timer driver promises: attributes that change one at a time | |
| `Timers` | timer driver, interrupt controller and dispatch, register by register | refines `TimerDevices` |
| `CottiI2c` | I2C read, write and handler, with the controller and the slave | |
| `TempDriver` | the kernel module around the bus: probe, removal, sensor and device file | a transfer is `CottiI2c` in one step |
| `HttpServer` | accept loop, client count, reconfiguration, semaphore, browsers | |
| `Connection` | the sockets, the requests on a connection and their answers | |
| `Ipc` | semaphore, shared memory and message queue, from creation to removal | |
| `TempSensor` | the sensor thread, its configuration and its end | |
| `MC*` | finite programs, bounds and symmetry for TLC | one each |
| `*Proofs` | theorems | one for each module but the abstract ones |

`HttpServer`, `Connection`, `Ipc` and `TempSensor` are four views of one server,
each with the state its properties need: `HttpServer` has the semaphore and the
counts of many children and a connection that is one request; `Connection` one
child with its bytes; `Ipc` the System V objects under their keys, without what
the server computes with them; `TempSensor` the one thread. They meet where one
calls the other: a request of `HttpServer` is a loop of on_accept in
`Connection`, its `Down` and `Up` are those of `Ipc`, and update_configuration
is in `HttpServer` (the limit) and in `TempSensor` (period and samples).

### Scheduler

`contexts`, `current`, `last` are the three statics; `cpu` and `bank` are the
registers of the core, `neonOn` is FPEXC.EN; `ris` and `gicActive` are the raw
timer status and "acknowledged without EOI". A handler runs with interrupts
masked and is one action: `SchedulerIrq` is irq_handler, prv_scheduler_change_task,
save_context and load_new_context together. `AddTask`, `StartTimer`,
`DisableNeon`, `SetSwi` and `SwiIrq` are the boot sequence of main and
__scheduler_start in its order; `NeonUndef`, `Undefined` (an undefined instruction with the
unit on, which is left out), `SvcEntry`, `SvcReturn` and the two aborts are the
other exceptions; `Execute` and `ExecuteVector` are instructions
of a task. An abort retries the instruction, or skips it in the test image,
according to what its handler returns. A program is any function `CoreStep` on
the registers and a vector instruction any function `VectorStep` on the bank, so
a lost or swapped register file shows. sp, lr, pc and r0-r12 are one value, for
they are saved and loaded together.

Assumptions, named in the module: TIMER0 is loaded with 10 ms and does not
expire before main has executed the instructions up to __gic_set_swi; no program
jumps to the first instruction of the idle task.

### Timers

A call of the driver is the list of its register accesses (`Resume`, `SetMode`,
`Init` ... each returns one), and a program executes them one at a time. An
access that is `|=` or `&=` is two steps, `Fetch` and `Store`, because system
calls run with interrupts enabled; `Tick`, a counter that runs out or wraps, and
`Irq`, the dispatch of an interrupt, come between any two steps. A handler is one
of three: prv_scheduler_change_task, which leaves interrupts masked and is part
of `Irq`; one that clears its timer by the system call, like those of
`testing.c:138-156`, which goes on in steps of its own (`handling`, `Handle`) and
is interrupted in them once the GIC knows of its end; and prv_no_handler
(`timer.c:81`), which clears nothing. There are two builds: the tasks under the
scheduler, where TIMER0's handler changes the task; and main alone, as in the
test image, where timers of a shared line interrupt it and each other's handlers.
Which calls a program makes is the constant `Requests`. A timer takes longer to
run out than its handler to return (`Handled`).

The driver is never told who owns a timer; `TimersAssumption` says that no timer
is operated by two programs, as in the repository. Without it a change by one
task between the load and the store of another is undone. Even so the
clock-select bits of four timers share SYSCTRL: two tasks that initialise
different timers may lose one's bits (`timer.c:263`). TimerDevices does not
promise the clock, and no program of the repository initialises timers in two
tasks.

### CottiI2c

`pc[p]` names the place of a process in cotti_i2c_write or cotti_i2c_read; one
step is what it does between two accesses to state it shares. `irq` are the
pending bits of IRQSTATUS and `Isr` one pass of the loop of prv_isr, in the
order of the code; the board has one core, so a pass is not interleaved with a
process. `ctl`, `mem`, `ptr` are the controller and the slave, modelled from how
the driver programs them. The set `Faults` says what the environment may do:
`nack`, `arbitration`, `slow` (an answer after the 100 ms of
TIMEOUT_READ_WRITE) and `signal` (to a waiting process). Without `slow` a wait
only runs out when nothing more can come, as after a refused byte. `refused`
remembers the processes with a transfer that broke off. A byte taken from the
FIFO that the code may find undefined is any byte. Slave addresses are left out
(there is one slave); prv_wakeup touches nothing else.

### TempDriver

`at` is the step of driver_probe the loader is in, through cotti_i2c_init,
bmp280_init and char_device_create as it calls them, with one `Acquire` or
`FailStep` for each of the 23 steps that may fail. `OnError(s)` is the list of
what the goto of that step releases, in the order the labels fall through, and
`Undo` releases one at a time; `Rmmod` runs through the list of driver_remove
the same way. `held`, `pointer` and `devm` say what the module has, `numbers`
how many device numbers the kernel gave and never got back, and `bad` collects
every access to memory that is not mapped at that moment.

Four paths of the code do not do what they look like, and are modelled as they
are: a reset that fails returns the 0 of an earlier call (`ResetFails`,
`InitReturnsZero`; `cotti_i2c.c:153`); clk_get and devm_platform_ioremap_resource
return error pointers, which pass the tests for NULL (`FollowsError`);
unregister_chrdev is given a device number where it takes a major
(`char_device.c:81`, 90) and releases nothing (`Release`); and when the kernel
unbinds the device it unmaps what remove has unmapped already (`Unbound`). A
sensor may be unplugged and plugged in again, as user_test.c asks for, and a
transfer may be given up while its interrupt is still to come (`slow`, `late`).

Processes open, read, control and close the file; a temperature is three
transfers (`Sample`), each of which leaves its byte in `gRead` at the unlock and
takes it from there afterwards. Of a byte only the register it came from is kept.

### HttpServer

A connection is a pair of a page and a request, `GET /` or `POST /dc`, and
stands for the child that serves it; the requests that only read files change
no shared state and are left to `Connection`. `server` follows Server::start
with on_start and update_configuration inlined, `flag` set from the beginning so
that the first round reads the configuration; `child[r]` follows on_accept.
`client_count++` is a load and a store. `Sleep` is usleep(5000), which returns
whatever else has happened. `sem` is semval, or `Removed` after ~Sem; an
operation on it then fails at once and the caller goes on, as it does when a
signal ends its wait (`Sigusr1`, `Sigint`; `sem.cpp:90`, 114), which
`interrupted` remembers. A browser loads, leaves and refreshes a page; on a
refresh both requests are sent and may be accepted in either order. `Losses`
says that connections break and children cannot be created; `forgotten` counts
the pages that stay counted for it. The constant `Signals` names the signals the
server is sent.

### Connection

The parent: the constructor of Socket tries the addresses of the resolver one
after the other, with each call failing in turn; accept takes the lowest free
descriptor of `fds`, and fork leaves the parent with it for ever
(`server.cpp:44`). `socket` and `sockfd` are the numbers in the listener's and
the client's Socket. Both destructors close theirs whatever it stands for by
then: `Destroy` that of client_socket when start returns, `DestroyServer` that of
the listener when main does, which start has already closed (`Leave`,
`server.cpp:54`) unless listen failed. `strays` records every close of a number
that was not the closer's own, a free one included. The sensor's thread takes a
descriptor at any moment before it is joined, the lowest or, while the server
has another file open, the next one.

The child: a request is a list of words, and TCP delivers it in any fragments,
or two requests at once. The buffer `client_msg` is not terminated, cleared or
even initialised, so what `>>` finds after the end of a read is what the stack
held: one of `Remains`, at the first read too. `req` and `res` are the objects
of on_accept; `res` keeps what it had when nothing is assigned. Socket::write
starts from the beginning when a signal cuts it short (`socket.cpp:171`), and a
file that is missing leaves content_length undefined (`Junk`). A child ends by
exit, which runs no destructor of its objects.

### Ipc

`inst[t][k]` is the instance of Sem, SharedMemory or MsgQueue a thread has: the
id of the object, whether it was the creator and in which thread; fork copies
it. `object[k]` is what is under the key, which a later server finds when an
earlier one was killed: its constructor then throws (`CreateThrows`) and the
server does not start until somebody removes the object. `Dies` is any end
without destructors. The semaphore is 0 between semget and set (`Create`,
`Set`). A wait for it that a signal ends fails like one for an object that is
gone, and the caller goes on as a holder either way (`DownFails`; `interrupted`
counts the first kind). A read of the queue asks for a type, for any (0), or for
the lowest up to a limit (negative). Reading and writing a queue that is gone
fails (`MsgFails`) or, with the stream operators, throws (`MsgThrows`).

Of shared memory only the life is here. SharedMemory::write and read take no
semaphore (`shared_memory.h:98-121`) and the repository uses them without one in
places (`httpserver.cpp:35`, 307-321; `temp_sensor.cpp:34-35`); the elements the
server's properties are about are in `HttpServer` and `TempSensor`, load by load
and store by store.

### TempSensor

`th` follows read_sensor; loading the number of samples and the period are two
steps because update_configuration may come between them, and it writes the
period before the number, `SetPeriod` and `SetSamples`. The thread starts in the
constructor (`Create`), before the server blocks SIGALRM and reads its
configuration: nothing orders it with either. `age` is `temps` with each value
replaced by how many entries ago it was written, `Initial` for the 25 degrees a
new buffer is filled with. A read() that fails enters the text of the reading
before (`temp_sensor.cpp:49`), or the stack's contents at first: such cells are
in `repeated`. An index beyond the buffer sets `outside`. `SendAlarm`,
`SendQuit`, `Join` are the destructor; a signal finds the handlers the thread
has set by then, and without them it ends the process.

## 3. What the runs check

| Run | Properties | Instance | States |
|---|---|---|---|
| `scheduler_isolation` | `TypeOK`, `Isolated` | 3 slots, 4 calls of add_task, 4 register contents, 2 bank contents, TIMER0, aborts in the test image | 748,000 |
| `scheduler_fair` | `EverySlotRuns`, `InterruptsServed` | 3 slots, TIMER0 and TIMER1 on one line | 79,000 |
| `scheduler_other_irq` | `SavesOnlyTheCurrentTask`, violated | 2 slots, TIMER0 and TIMER1 | |
| `timers` | `TypeOK`, `OneAttributeAtATime`, `OnlyTheRequestedMode`, `InterruptsServed` | 4 timers on 2 lines; two tasks, or main with both timers of a line, handlers that clear or do nothing; counters of 2 values | 44,000 |
| `i2c` | `TypeOK`, `LockedInside`, `DoneUnderLock`, `OneTransfer`, `FreshCompletions`, `BufferIndexInRange`, `OperationsEnd` | 2 processes, 2 register addresses and values, refused bytes and lost arbitration | 240,000 |
| `driver` | `TypeOK`, `FilesAreServed`, `Released`, `NoUserMeetsUnmapped`, `SleepsWhenReleased` | 2 processes, 2 device numbers, 2 arguments of ioctl, any step of probe but one fails, late interrupts, unplugging | 196,000 |
| `http` | `TypeOK`, `MutualExclusion`, `CountMatches`, `AdmittedBelowLimit`, `ConnectionsEnd`, `ReconfiguredByVisit` | 2 pages, 2 loads, a SIGUSR1 or a SIGINT, a file of -1, 1 or none, 3 descriptors, losses | 67,000 |
| `http_refresh` | `RefusedForOthers`, violated | 2 pages, 3 loads, a limit of 1, no signals and no losses | |
| `connection` | `TypeOK`, `AnswersMatch`, `EndsAreSeen`, `StrayCloses`, `ChildrenEnd` | 1 client, 2 requests of 4 kinds, reads of 4 words, 3 descriptors, 2 addresses, every call failing | 609,000 |
| `sensor` | `TypeOK`, `WindowIsLatest`, `KeepsReading`, `JoinReturns` | up to 3 samples, 3 configurations at any time, reads that fail | 26,000 |
| `sensor_index` | `IndexInRange`, violated | up to 3 samples, 2 configurations | |
| `ipc` | `TypeOK`, `ObjectsLiveWithServer`, `LockExcludes` | a server started twice, 2 other threads, 1 of them all killed, 2 interrupted waits, a queue of 2, 2 types of message, 3 of read | 338,000 |

What they show:

* **Isolated** is the refinement of `TaskMachines`: the machine of a slot is in
  the core while it runs and in its context otherwise, and its bank is in the
  core only while the unit is on; every step of the kernel is then a stutter or
  a change of the one running machine.
* **OneAttributeAtATime** is the refinement of `TimerDevices`: however
  interrupts, nested handlers and task switches separate the load of CONTROL
  from the store, a step changes the mode, the running or the interrupt of one
  timer, and nothing else. **OnlyTheRequestedMode** adds that the mode, which is
  two bits, only becomes the one asked for: the order in which
  `__timer_set_mode` writes them is what avoids a third mode in between.
* **InterruptsServed** (both modules of the kernel): the even timer of a line is
  looked at first, by its raw status even when its interrupt is disabled
  (`int_handlers.c:117`); the odd one is still served, and neither the status
  nor the GIC is left set, unless the handler that clears nothing was called.
* **LockedInside** and **OperationsEnd** say of the four ways out of an
  operation that each gives the bus back: a second process, which has passed the
  look at `mutex_is_locked`, waits in `mutex_lock` without a timeout.
  **DoneUnderLock** relates the driver's report to the slave's registers over
  both transfers of a read, with another process in the same code and its
  refused transfers. **OneTransfer**, **FreshCompletions** and
  **BufferIndexInRange** are what it rests on when completions, the handler and
  the count meet, also what a refused transfer leaves of each.
* **FilesAreServed**, **Released**, **NoUserMeetsUnmapped** and
  **SleepsWhenReleased** follow the error paths of probe and remove, one release
  at a time, with processes, late interrupts and the sensor's plug in between:
  the device file never outlives what it stands on, everything but three things
  is given back, no process and no step of remove meets unmapped memory, and a
  sensor without a driver sleeps.
* **CountMatches** says that shared memory counts exactly the pages shown, about
  to be shown, and left with their beacon still on the way, and one more for
  every answer or beacon that was lost; **AdmittedBelowLimit** that the
  comparison with `max_clients` still holds at the increment.
* **ConnectionsEnd** says that nobody waits for the semaphore for ever,
  **ReconfiguredByVisit** that a configuration announced by SIGUSR1 is read at
  the latest when the next connection has been accepted: it ends in the read
  itself, not in the test of the flag.
* **AnswersMatch** says that an answer is that of the request read, although
  anything may be in the buffer behind it; **EndsAreSeen** that the descriptors
  the parent keeps do not keep connections open; **StrayCloses** who closes a
  number that is not its own, and what such a close may hit.
* **ObjectsLiveWithServer** says that the copies of a creator's instance, one in
  every child, remove nothing when they die, and that a server that ends by
  itself leaves nothing; **LockExcludes** that a semaphore, one found after a
  restart too, has one holder, and one more for every wait that a signal ended.
* **WindowIsLatest** says that the moving average is over the latest entries,
  each once, across the wrap of the index and changes of the buffer's length;
  **KeepsReading** and **JoinReturns** that a thread with a period goes on until
  the destructor's two signals, which end it wherever they find it.

Bounds.  Three slots are the fewest with a slot that is neither the last nor the
next, and the wrap happens. add_task is called once more than there are slots.
Counters of two values and a millisecond of one tick make timers run out between
any two accesses of a call. Two processes are enough for every pair of bus
operations to overlap, and for one to wait for the mutex the other has;
`MaxTries` is 2 instead of 101, which only shortens a loop that changes nothing.
The alphabet of bytes has two members, for a register and its value have to
differ. In `driver` two processes hold the file open in different calls; what
they do to each other's transfers is in `i2c`. Two pages with `max_clients` 1 and
2 reach the limit from both sides, two loads are two pages or one page
refreshed; the first configuration is read without a signal, so a single SIGUSR1
already makes a second; three descriptors are fewer than the connections, so
accept fails too. In `connection`, reads of four words hold one request and part
of the next, or two short fragments; three descriptors are the listener, the
sensor's and one client. In `ipc`, two lives of the server are the fewest with an
object from an earlier one, two other threads the fewest in which a child and a
newcomer hold different semaphores, and two interrupted waits let all three
threads be holders at once. Three samples are the fewest with a middle cell, and
three configurations let their number grow and shrink.

Fairness.  The kernel takes a pending interrupt (weak fairness), TIMER0 is
periodic, and a TIMER1 that is pending is not kept waiting for ever, as a tick
every 10 ms leaves room (strong fairness of `OtherIrq`). In `Timers` every
program executes an instruction in its time slice again and again, and a line of
lower priority and the odd timer of a line get their turn, for a timer takes
longer to run out than a handler to return (strong fairness of `Program` and
`Irq`). Processes and threads are scheduled, timed waits end, and an interrupt of
the I2C controller is handled. The kernel's mutex and the System V semaphore
serve those who wait in the order they came: strong fairness of `Lock`, `Down`
and `ConfigDown`. In `HttpServer` a browser that has connected sends its request
(`ReadRequest`). In `Connection` the steps of the parent, accept on a waiting
connection and every child go on (weak fairness), but not what Control-C begins
(`Leave`, `DestroyServer`). The server of `TempSensor` reads its configuration
once it has started, as Server::start does first. Nothing obliges a browser, an
operator, a caller of the driver or one who starts a connection to begin anything.

Deadlock is checked where the system goes on for ever: the scheduler and the
bus. `timers` may stop when main alone has made its calls and no timer runs,
`driver` in the oops of a probe that went on with no registers, and the server
models when the bounds on loads, signals, starts and requests are used up or the
server has left; their configurations say so.

## 4. Where the code and its documents part

Three deviations have a run of their own, which ends in a counterexample:

* `scheduler_other_irq` (`SavesOnlyTheCurrentTask`, `IrqTimers` with TIMER1):
  save_context (`vector_table.S:128`) takes the slot from `prv_last_task`, which
  only the scheduler's handler sets. Any other interrupt saves the running
  registers over the task that ran before and resumes the current one from an
  old context. The comment at lines 110-113 says "It always saves the context of
  the current task". The kernel's own main uses only TIMER0; its test image
  others.
* `http_refresh` (`RefusedForOthers`): the 5 ms of `httpserver.cpp:85` end
  whether or not the beacon of the refreshed page has been accepted, so `GET /`
  may find its own page still counted and be refused at the limit. The comment
  at lines 82-84 says that the sleep is there "to make sure" of the order.
* `sensor_index` (`IndexInRange`): update_configuration takes any number of
  samples from 1 (`httpserver.cpp:273-279`). When it gets smaller the buffer is
  reallocated, `current_sample` stays, and the next reading goes outside it
  (`temp_sensor.cpp:50`) and is missing from the average.

Each remaining assumption of a passing run about the environment is a constant.
The properties fail as soon as it is changed:

| Run | Change | Fails | Because |
|---|---|---|---|
| `i2c` | `Faults = {"signal"}` | `OneTransfer`, `DoneUnderLock` | an interrupted wait returns -ERESTARTSYS, which is not 0 and counts as success (`cotti_i2c.c:240`, 276, 290); the mutex is released while the controller transfers |
| `i2c` | `Faults = {"slow"}` | `OneTransfer` | so it is after a timeout; the test of the busy flag does not help, for it is bit 12 and `prv_is_irq_triggered` returns 8 bits (`cotti_i2c.c:57-58`) |
| `driver` | `Faults` with `"class"` | `NoUserMeetsUnmapped` | class_create returns an error pointer, which remove follows once more |

The rest is stated in the properties themselves, as the exceptions they make:

* `DoneUnderLock` excepts a transfer that was refused: its stop is all the wait
  looks at, and the caller gets the 0 of a success (`cotti_i2c.c:240`) that line
  217 promises only for one. It also speaks before the unlock. `g_read` is
  returned after it (`cotti_i2c.c:301`) and another process may replace it in
  between, so "the value read" of line 253 is not kept; a temperature that
  several processes read may be made of bytes of different measurements, or of
  other registers.
* `NoUserMeetsUnmapped` is about processes and remove. Three other accesses to
  unmapped memory happen in the model: a late interrupt between iounmap and
  free_irq (`cotti_i2c.c:210`), the kernel's unmapping of what remove unmapped
  (`cotti_i2c.c:127`, 142), and a probe that goes on after a failed reset
  (`cotti_i2c.c:153`) or with an error pointer.
* `Released` excepts the reference to the sensor's node, the registered cdev and
  the device number (`char_device.c:81`, 90): loading the module again and again
  uses up the device numbers.
* `InterruptsServed` of `Timers` excepts a dispatch to prv_no_handler: an even
  timer that is polled, on the line of an odd one that interrupts, takes the
  interrupt, nobody tells the GIC of its end, and no interrupt comes any more.
* `MutualExclusion`, `CountMatches` and `AdmittedBelowLimit` hold until a signal
  ends a wait for the semaphore or the server removes it as it leaves
  (`sem.cpp:90`, 114): then two are inside. `LockExcludes` counts how many.
  `CountMatches` adds the pages whose answer or beacon was lost, which stay
  counted for ever (`httpserver.cpp:91`).
* `ReconfiguredByVisit` needs a visitor. A SIGUSR1 between the test of the flag
  and accept (`server.cpp:31-32`) is not noticed before accept returns, although
  the comments at `httpserver.cpp:18-19` and 54-56 say that the files are read
  "when" it is received and that it interrupts accept.
* `ConnectionsEnd` excepts connections that are not accepted because the server
  has used all its descriptors, of which it closes none (`server.cpp:44`).
* `AnswersMatch` excepts requests that arrive in pieces or with the next one,
  and answers whose send was repeated (`socket.cpp:171`) or failed.
* `StrayCloses` lists the second closes there are: that of the listener by
  `~Socket` (`socket.cpp:147`) whenever start closed it, and that of the last
  client if the parent refused it; by then the number is free or the sensor's.
  If nobody ever connected, client_socket closes a number it never set. A
  constructor that throws leaves a descriptor for every address inet_ntop could
  not print (`socket.cpp:51-53`).
* `KeepsReading` and `JoinReturns` need a thread that has read a period. When it
  is faster than the first update_configuration it finds 0, which disarms its
  timer (`temp_sensor.cpp:65`), and it sleeps for ever, against `config.cfg:9`.
  The destructor then hangs: SIGALRM wakes the thread, it looks at `quit`, which
  SIGUSR2 has not set yet, sets the timer to 0 and waits again; SIGUSR2 only
  sets `quit`, and the join never returns. `JoinReturns` also excepts a
  destructor that signals the thread before it has set its handlers: the
  process dies, and its System V objects stay behind.
* `WindowIsLatest` holds until an entry went outside the buffer, and counts the
  text that a failed read entered again as an entry.
* `ObjectsLiveWithServer` excepts a server that was killed or died of an
  exception; the next one does not start until the objects are removed by hand.

Neither promised nor excluded by a property, and beyond the models: a nested
interrupt overwrites spsr_irq of the outer one, which IRQ_handler does not save
(`vector_table.S:117-123`); and readers of shared memory without the semaphore
may see one value of an update and not the next.

## 5. What is proved

All theorems hold for every value of the constants that satisfies the ASSUMEs
of the modules and the stated condition. The conditions are those of section 4;
the exceptions that the properties make are part of what is proved.

| Theorem | Statement | Condition |
|---|---|---|
| `SchedulerProofs!TypeCorrect` | `Spec => []TypeOK` | |
| `SchedulerProofs!Isolation` | `Spec => Isolated` | `OnlySchedulerTimer`: no other interrupt is enabled |
| `TimersProofs!Typed` | `Spec => []TypeOK` | |
| `TimersProofs!Implements` | `Spec => OneAttributeAtATime` | |
| `TimersProofs!ModeAsRequested` | `Spec => OnlyTheRequestedMode` | |
| `CottiI2cProofs!TypesKept` | `Spec => []TypeOK` | |
| `CottiI2cProofs!Critical` | `Spec => []LockedInside` | |
| `CottiI2cProofs!Exclusive` | `Spec => []OneTransfer` | `InTime`: no `slow`, no `signal` |
| `CottiI2cProofs!Fresh` | `Spec => []FreshCompletions` | `InTime` |
| `CottiI2cProofs!InBuffer` | `Spec => []BufferIndexInRange` | `InTime` |
| `CottiI2cProofs!CarriedOut` | `Spec => []DoneUnderLock` | `InTime` |
| `TempDriverProofs!Typed` | `Spec => []TypeOK` | |
| `TempDriverProofs!Served` | `Spec => []FilesAreServed` | |
| `TempDriverProofs!AllReleased` | `Spec => []Released` | |
| `TempDriverProofs!Sleeps` | `Spec => []SleepsWhenReleased` | |
| `TempDriverProofs!UsersAreSafe` | `Spec => []NoUserMeetsUnmapped` | `ClassesMade`: class_create does not fail |
| `HttpServerProofs!Typed` | `Spec => []TypeOK` | |
| `HttpServerProofs!Exclusion` | `Spec => []MutualExclusion` | |
| `HttpServerProofs!Limit` | `Spec => AdmittedBelowLimit` | |
| `HttpServerProofs!Counts` | `Spec => []CountMatches` | |
| `ConnectionProofs!Typed` | `Spec => []TypeOK` | |
| `ConnectionProofs!OpenIsServed` | `Spec => []EndsAreSeen` | |
| `ConnectionProofs!StraysAre` | `Spec => []StrayCloses` | |
| `ConnectionProofs!Answered` | `Spec => []AnswersMatch` | `RequestLines`: a request has a method and a route |
| `IpcProofs!Typed` | `Spec => []TypeOK` | |
| `IpcProofs!Lifetimes` | `Spec => []ObjectsLiveWithServer` | |
| `IpcProofs!Excludes` | `Spec => []LockExcludes` | |
| `TempSensorProofs!Typed` | `Spec => []TypeOK` | |
| `TempSensorProofs!LatestWindow` | `Spec => []WindowIsLatest` | |

**Scheduler.** `TypeOK` alone is inductive except that the first vector
instruction must trap: the invariant adds that the unit is off from
neon_disable on until the first task runs, or slot 0 would inherit the bank of
main. The refinement is proved action by action: a handler is a `Dispatch`
because what save_context stored is what `SlotMachine` of the leaving slot
shows, and what load_new_context loads is what that of the entering slot shows;
when the rotation returns to the same slot (one slot) both are the same. With
another interrupt, save_context would write to a slot that is not the current
one, which is where `OnlySchedulerTimer` is used.

**Timers.** The refinement needs that a store undoes nothing: the invariant
`Loaded` says that what a program has loaded from a CONTROL register is what the
register still holds, and it is kept because no other program operates that
timer (`TimersAssumption`) and the handlers, however deep they nest, write other
registers. For the mode,
`InOrder` says of every list of accesses still to be done that its accesses to
the two bits are those of the mode asked for, and that the one-shot bit is
cleared only when the reload bit has its value or gets it in the access before.
That every call's list is so (`Wellformed`) is proved from its definition,
piece by piece through the concatenations.

**CottiI2c.** `LockedInside` is inductive with the types and holds with every
fault. `OneTransfer` says nothing of the completions, the count or the place of
the owner, so it is not. `IInv` has four parts more than it: `Typed`; `Works`,
the controller is at rest and no interrupt pends unless the owner is in one of
the waits, and a completion of comp_stop comes last; `Separate`, completions and
interrupts of one kind of transfer do not reach the other; `Counted`, g_len is
what the controller still wants. Without `Works` a mutex released by a timeout
could free a busy controller; without `Separate` the reading wait could take the
stop of the address phase, and a refused transfer leave its completion to the
next. `DoneUnderLock` needs in addition where the data is (`Data`): `Loaded`,
g_write holds register and value; `InTransit`, so do the bytes sent;
`Delivered`, once the controller rests the slave has them and its pointer is the
register asked for; `Answered`, g_read is the register's value from the byte's
arrival to the unlock. A refused transfer breaks `Data`, so `RInv` claims it only
while the owner has had none; the unlock makes it true again for the next. The
types need none of this, only that a transfer to the slave has at least one byte
in it (`Sizes`), and hold with every fault: what a late interrupt does to g_len
stays within a u16.

**TempDriver.** The properties speak of the ends (a file that is open, a module
that is out), so the invariant has to say for each place in between what is
held. `InI2cInit`: in cotti_i2c_init exactly what the steps before this one
acquire. `InProbe`: after it the registers are mapped and the handler is there
(`Full`), or nothing is (`Hollow`), which is where a reset that failed and was
reported as success leads. `Releasing(list, n)`: in an error path whatever is
held is in the part of the list still to be gone through, and registers and
handler are there until the list has put the sensor to sleep; the lists of the
gotos, from the device file back to the bus, are tails of one list, `UndoFrom(n)`,
and only that of a sensor that was not found is a list of its own. A process inside the file keeps
the module `bound`, because rmmod waits for the last close (`UsersOK`); this is
why no transfer of a process meets an unmapped register. A class that could not be
created leaves an error pointer, with which device_create makes no file
(`DeviceHasClass`); that remove follows the pointer once more is excluded only
by the condition `ClassesMade`, through `ClassMade`.

**Connection.** `EndsAreSeen` is inductive with the types (`Shape`). For the
descriptors, `Descriptors` says that the listener's number stays the listener's
until start closes it, that the number in `sockfd` is the current client's unless
the parent refused it, that either number is free or the sensor's after that,
and that while the constructor tries its addresses, and after it threw,
every descriptor is free or lost. `AnswersMatch` is about a
request and an answer that several steps and a loop lie between: `InAnswer(c)`
says that after a read of one whole request the parsed request is that one
(`LastRead`), because the text begins with what was read and the remains of the
buffer come after it, that what was sent so far is the beginning of one answer
to it (`Matches`), and that a loop that starts again does so for a file that is
missing. `ParsedIs` is where the two words of a request line are needed: with fewer, the second would be taken from the remains.

**HttpServer.** Mutual exclusion needs that the semaphore is 0 or 1 and free
only while nobody is between sem-- and sem++ (`SemFree`); the limit needs that
what a child tested and read remains true until its store (`TestStillTrue`).
Together they are `Safe`, and `IInv` claims it as long as the history shows no
wait that was interrupted and the semaphore is there (`Undisturbed`): a signal
that finds nobody waiting changes nothing. For the count, an action concerns one
page, and `Times(p)` is how often that page is counted: the cardinalities of
`Expected` change by what `Times(p)` changes, and an answer or beacon that is
lost moves one from `Expected` to `forgotten`. `PagesOK` rules out a page that is
shown while its GET is on its way.

**Ipc.** `LockExcludes` across lives of the server needs `Aged`: what the server
will create has an id that nobody has, so a thread that holds an old semaphore
cannot be taken for a holder of the new one; `Taking`, which counts: a sem-- that
succeeds moves a unit from semval to the holders, an interrupted one adds a
holder and an interruption, sem++ and death only take away, and before set the
new semaphore has nothing to give; and `Waiting`, that who waits for a semaphore
has one. `Owned`, an object whose creator was not killed is its creator's, at the
place of the program it has reached, carries `ObjectsLiveWithServer`.

**TempSensor.** As long as no entry went outside, the index is 0 or below the
number of samples used last (`IndexFits`). For the window, `Ring(k, i)` says that
the last k entries are in the k cells up to i, by their distance in a ring of as
many cells as that number; writing at the next index makes it `Ring` of k + 1, or
of k in a full buffer. A buffer of another length starts anew: at the index 0 it
is `Ring` of 1, and at any other index below its length too, for a ring may start
anywhere. A smaller buffer whose index does not fit is the one that sets
`outside`.

Only model-checked: the liveness properties (`EverySlotRuns`, both
`InterruptsServed`, `OperationsEnd`, `ConnectionsEnd`, `ReconfiguredByVisit`,
`KeepsReading`, `JoinReturns`, `ChildrenEnd`), for fairness and ENABLED are out
of the prover's reach. Every invariant and every action property of a run that
passes is proved; the three that section 4 shows violated are not theorems.

## 6. Not modelled

* **MMU, page tables and TLB** (`mmu.S`, `startup.S`). The page tables are built
  at boot from the linker's symbols, and what is reserved for them is in the
  linker script; whether a table or a page is handed out twice is a matter of
  that one layout. What a change of the table base and of the ASID at different
  instructions lets through depends on the core's TLB and pipeline, which no
  source of the repository describes. The change itself, as one step of a
  handler, is in `Scheduler`.
* **add_task while tasks run** (`scheduler.c:59`), a preemptible system call
  that no program of the repository makes then; and the **pseudo-random numbers**
  (`common.c:8`), whose callers expect nothing of two numbers but that they are
  numbers.
* **gic_get_id, gic_get_priority** as system calls, which nobody makes; priorities
  are the order of `Irq` in `Timers` only as far as the fairness says.
* **Values**: the bytes of the BMP280, the arithmetic of the temperature and of its
  unit (`bmp280.c:62-92`), for no document of the repository says which number it
  is; the elements of shared memory in `Ipc`, where nothing orders who writes and
  who reads them.
* **What tasks compute**, what the pages contain, the syntax of the
  configuration file, the scripts of installation and the page's own script
  beyond the requests it sends.
* **Mutex, the stream operators of Socket and detached threads** of the library:
  no program of the repository uses them.
* **Exercises before the kernel** (`tp_01_01` to `tp_01_05`): stages of the same
  program, whose last one is modelled.
