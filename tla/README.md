# Verification of the learn-LDDD drivers

The repository collects the Linux drivers of a book on device driver
development: character drivers written for the book, drivers for the boards it
uses, and copies of kernel files that it discusses. With few exceptions (the
serial core and its UART, the I2C core and its busses) the drivers do not call
each other. Each one is a set of file operations, interrupt handlers, timers and
bus callbacks that the kernel calls from several contexts at once, over a small
amount of shared state. What is hard in all of them is the same: who may run
between two steps, what was checked before a wait and is used after it, and
which way out of a call gives back what.

The modules model the drivers with the part of the kernel that calls them
(scheduler, wait queues, signals, interrupts, timers, DMA, the USB hub's thread)
and with the device, as far as the driver's behaviour depends on it. Kernel and
device are marked external in `PROJECT.json`.

## Inventory

| part | state it keeps | operations | who runs at once | what makes it correct | here |
|---|---|---|---|---|---|
| globalfifo (`code/08`, `code/09`) | byte buffer and length, semaphore, two wait queues, tasks for SIGIO | read, write, ioctl, poll, fasync | any number of tasks, signals | one task inside, no lost wake-up, no stack entry left in a queue, bytes come out in order | modelled |
| globalmem (`code/06`, `code/07`) | memory, semaphore, positions | read, write, llseek, ioctl | threads that share files | accesses stay inside the memory; the locked variant is atomic | modelled |
| second (`code/10`) | counter, timer | open, read, release, timer | openers, timer | the timer is gone after the last close | modelled |
| S3C24xx I2C master (`code/15`) | state of the transfer, cursor in the messages, controller registers | master_xfer, interrupt, clock setting | a caller, the interrupt, the bus | success means the messages went over the bus; the bus is given back; the handler works only on messages of a call that is on; a rate within 2 kHz of what the platform allows | partly |
| PXA I2C bus (`busses/i2c-pxa.c`) | cursor, control register, retries | xfer, interrupt as master and as slave | a caller, the interrupt, other masters | the same, also when another master interrupts the start | partly |
| Marvell and OpenCores I2C busses (`busses/i2c-mv64xxx.c`, `busses/i2c-ocores.c`) | cursor, state, an abort flag; the messages' array | xfer, interrupt | a caller, the interrupt, other masters | the same, with an abort and a reset after time-outs | partly |
| I2C core (`i2c-core.c`) | adapters, drivers, clients on three lists | add and delete adapter, driver and device, use of a client, SMBus operations | registering and unregistering tasks, users | each driver is asked for each adapter once; nothing dangles; nobody waits for ever; an SMBus operation gets the slave's answer, or notices a damaged one | partly |
| USB skeleton (`实例代码/usb`) | table of devices, use, unplugged or not, semaphore, write request | open, read, write, release, probe, disconnect | tasks, the hub's thread, completions | counts exact, no memory freed in use, table and memory agree | partly |
| serial core, S3C2410 UART (`code/14`) | circular buffer, transmitter, modem lines, counts, flags | open, write, flush, stop, start, ioctl, hangup, close, suspend, interrupts | tasks, interrupts, tasklet, hangup thread | each byte once and in order; transmitter never idle beside bytes; what interrupts use is there; openers woken | partly |
| 3c505 (`code/11`) | command blocks, one DMA channel, backlog, busy flags | open, close, transmit, statistics, interrupt | net layer, interrupt, DMA | every announced frame fetched once, the channel has one user, the queue goes on | partly |
| CS89x0 (`code/16`) | DMA ring, transmit state, claims | open, close, transmit, interrupt, timeout | net layer, interrupt, card | frames whole and in order, the queue woken, claims given back | partly |
| watchdog (`code/12`) | open lock, permission to stop, heartbeat | probe, open, write, ioctl, release, suspend, resume, shutdown | one opener, PM | runs on after an unexpected close, stops after a permitted one, set as told | partly |
| touch screen, character driver (`code/12`) | ring of events, pen state, conversion, timer | open, read, poll, release, two interrupts, timer, PM | readers, interrupts, timer | events in order, a lifted pen is reported, the timer is armed once | partly |
| OSS sound (`code/17`) | rings of buffers, semaphores, DMA queues | open, read, write, poll, sync, reset, fragments, release | threads, DMA interrupts | a buffer is the driver's or the DMA's; sound in order | partly |
| real time clock (`code/10`) | registers, alarm, periodic count, flags | read and set time and alarm, periodic interrupt, open, release, PM | calls, the clock itself, interrupt | a time read was a time; ticks are counted; interrupts only for an opener | partly |
| CAN (`实例代码/CAN`) | one flag, one wait queue | read, write, interrupt | reader, interrupt | a message wakes its reader | not modelled |
| touch screen as input device; VirtualDisk, button, threads | as above, on a smaller scale | | | | not modelled: variants of the parts above |
| RAM disk, virtual block devices, other network, ALSA, frame buffer, flash, IDE | hardware registers, queues of the layer above | | | | not modelled: see below |
| other `busses/`, SAA711x | | | | | not modelled: see below |
| applications, board tables, exercises | | | | | not modelled: no state, or pure I/O |

`PROJECT.json` lists the components with their files, and under `hazards` the
places where something can go wrong that a test hardly reaches.

## Modules

| module | what it is |
|---|---|
| `FifoChannel` | abstract specification: a bounded queue of bytes between writers and readers |
| `GlobalFifo`, `MCGlobalFifo` | the globalfifo driver, of code/08 and (`Async`) code/09, and its instances |
| `GlobalFifoProofs` | its theorems: safety, the writers' wake-up, the refinement of `FifoChannel` |
| `S3cI2c`, `MCS3cI2c` | the I2C master driver with controller and slaves, and its instances |
| `S3cI2cClock` | the search for the clock's divisors in the same driver |
| `I2cCore` | adapters, drivers of both styles, clients and their user |
| `Smbus` | the core's SMBus operations over messages, with their checksum |
| `I2cPxa` | the PXA's bus driver, master and slave |
| `I2cMv64`, `I2cOcores` | the bus drivers of Marvell's bridges and of the OpenCores controller |
| `I2cBusses` | the four bus drivers side by side, and what the core relies on of each |
| `MCI2c` | instances of the seven I2C parts; `part` says which one runs |
| `I2cProofs`, `I2cBusProofs`, `SmbusProofs` | the theorems of the master driver, of its clock and of the core; of the other bus drivers, and of all of them; of the SMBus operations |
| `UsbSkel`, `MCUsbSkel` | the USB skeleton driver and an instance of it alone |
| `S3cUart` | the UART's registers, FIFO and handlers |
| `SerialCore`, `MCSerialCore` | one port of the serial core over `S3cUart`, and its instances |
| `SerialProofs` | its theorems: the port's life and its openers; buffer, transmitter and writers |
| `Elp3c505`, `Cs89x0` | the two network drivers |
| `MCCards` | instances of these two and of `UsbSkel`; `card` says which one is in |
| `NetProofs` | the theorems of both |
| `GlobalMem`, `SecondTimer`, `TouchScreen` | the memory device, the second device, the touch screen's character driver |
| `Watchdog`, `Rtc`, `AudioDsp` | the drivers of these names |
| `MCCharDevs` | instances of these six; `loaded` says which driver is in |
| `CharDevProofs`, `AudioProofs` | the theorems of the character devices and of the USB skeleton driver; those of the sound driver |

`MCI2c`, `MCCards` and `MCCharDevs` compose parts that share no state: a behaviour
of theirs is a behaviour of one part, the variables of the others stay as they
began. Their properties are the conjunctions of the parts' properties, or one
part's.

Operators named `X_word` beside a definition `X` are `X` with a plausible bug;
the mutants of `PROJECT.json` put them in its place to see that a property
notices. Nothing else uses them.

### GlobalFifo

A task is at one place `pc[t]` of one system call; `tstate`, `pending` are its
state for the scheduler and its pending signal, `req`, `ret`, `ubuf` the
arguments, the result and what has reached the user's buffer. The rest is
`struct globalfifo_dev`. A step is the code between two points where another
task can see or do something: `down`, `up`, the spin lock in a wait queue head,
`schedule()`. So `ReadEnter` is lines 134-151 (down, add the entry, look at
`current_len`, set the task's state), `ReadSleep` the `up`, `ReadSchedule` the
return of `schedule()` with the test for signals, `ReadRedown` the second
`down`, `ReadCopy` the copy and the move of the rest, `ReadWake` and
`ReadWoken` the walk of the wait queue under its lock, `ReadUp`, `ReadRemoveLock`
and `ReadRemove` the way out; write is built the same way. `r_wait` and `w_wait`
are the sets of tasks with an entry on each list. A fault of the copy to or from
user space is always possible. `down` blocks until the semaphore is free and a
signal does not interrupt it, as in the code.

`remove_wait_queue` in read names the wrong queue: the entry leaves `r_wait`
under the lock of `w_wait`. The model takes the locks the code takes.

`memcpy` with overlapping ranges is undefined; `MemcpyOrders` says in which
directions the build's memcpy may move. A byte of the model stands for the unit
memcpy moves at once: the x86-64 kernel has had a memcpy that copies such units
from the last to the first.

`FifoChannel` has three variables, the queue and what each task has given and
taken. The refinement maps the queue to `Contents`, what is given to the
arguments of a write that has not copied yet, what is taken to `ubuf`.

### S3cI2c and S3cI2cClock

The process in `master_xfer` (`pc`), the interrupt handler (`state`, `msg`,
`msg_num`, `msg_idx`, `msg_ptr`), and the controller (`irqen`, `acken`, `pend`,
`shift`, ...). One action per branch of `i2s_s3c_irq_nextbyte` with the gotos
between them followed to the end. The S3C2410 has one core and the handler runs
with interrupts off, so a run of the handler is one step, and an interrupt that
is pending is served before the process goes on. `wire` records what goes over
the bus since doxfer took it: starts, bytes with their place in the messages,
stop, and a loss of the bus. A byte's value does not matter to the driver and is
left out. Slaves may refuse any byte; `MaxTimeouts` bounds how often the five
seconds pass. `oops` stops the model once the handler has followed a NULL
pointer. Left out: probe, remove, resume, the delays.

`S3cI2cClock` is `s3c24xx_i2c_calcdivisor` and `getdivisor` as operators, over
clocks and wishes of a platform; `RateAllowed` compares what is written to the
register's fields with the frequencies asked for. `freq_acceptable` takes 2 kHz
above the wish as well as below, so the bus may also run above `max_freq`: a
chip's clock of 9697 kHz with 100 kHz wanted gives 101.

### I2cPxa

The process in `i2c_pxa_xfer` (`px_pc`), the handler's cursor, the unit's
registers ICR and ISR as sets of bits, and the bus, which another master may
take, and on which it may address the unit as a slave. A read and write back of
ICR by the process are two steps, since interrupts are on. `px_wire` and
`px_stored` record the transfer as `wire` does. `px_late`, `px_lost`, `px_torn`
are history: the five seconds have passed, the bus was lost after the start or
master mode left before it, ICR was overwritten. `PxSetSlave` is the way into
`i2c_pxa_set_slave`, with the stop it takes back after a transfer that was given up. What `px_torn` leads to is not
followed further. Left out: the polled mode, probe, the register dumps, and the
slave's own data.

### I2cCore

Adapters, drivers and their user as callers; a call that takes `core_lock` is
the steps between which others run: `i2c_register_adapter` up to the lock, its
walk over the drivers one driver a step, `i2c_del_adapter` one detach a step,
and the same for drivers. `ic_dev` holds the devices with the driver bound to
each, `ic_detected` those that new style drivers have detected, `ic_offered`
which pairs have met. `ic_oops` stops the model where the code follows a list
that is not initialised. The order of the driver core's walks is arbitrary; a
call of `device_register` together with the list entry is one step; users unregister
before they put their adapter, and do not wait for `core_lock` while they use a
client. SMBus, `i2c_transfer` itself (the caller in `S3cI2c` is its retry loop)
and the device files are left out.

### I2cMv64 and I2cOcores

`I2cMv64`: `mv_status` is the status that the controller interrupts with, `mv_job`
what it was told; the handler has an action for each branch of `fsm` with what
`do_action` then does. The lock makes handler and process take turns. The two
waits, the abort that asks the handler to stop early, and the reset are steps of
the process; a signal ends the first wait like a time-out. Both are always possible.
Another master may win the bus at any time.

`I2cOcores` has no lock and no state of the controller in the driver: a handler's
step is one of the ways through `ocores_process`, the process sets the fields before it
gives the command. `oc_early` records that a call returned before its stop was
over; the properties except what follows, see the findings. In both drivers slaves
refuse any byte. Left out: probe, remove, suspend, resume, and the dividers.

### Smbus

One operation at a time: the wrappers make a call of `i2c_smbus_xfer`, which becomes
one or two messages, with the checksum computed as `crc8` does it; the slave
computes its own as the remainder of a division of polynomials. `SmPayload` is
how a byte, a word or a block goes into a buffer. The wire may turn over bits of one
byte, but not of a block's count. The bus driver's part of a block read
(I2C_M_RECV_LEN: read as many bytes as the first says, and refuse a count above 32) is external.
So is the transfer: it executes all messages, fails (-121 is a slave's refusal, -5 stands
for any error of a bus driver), or stops short (`SmStopsShort`): `i2c_transfer` returns
the number of messages executed, which the repository's bus drivers leave below the
number asked for when they give up. A buffer that was to be filled then holds anything,
another answer with its right checksum included, but a count in it stays within the
buffer. `SmKept` excepts these transfers, `SmZeroOnSuccess` is the finding about them.

### UsbSkel

Files, the hub's thread and the devices that kmalloc returns. `heap[d]` tells
whether the structure is in memory, `dev[f]` is the pointer a call or an open
file holds. Waits for `minor_table_mutex` and `dev->sem` are separate steps, in
the code's order; `up(&dev->sem)` before `skel_delete` is a step of its own.
What a driver does with freed memory is undefined, and the model stops there:
`Next` has the conjunct `Intact`. Left out: ioctl, which changes nothing; the
kernel's own count through `owner`; a device without a bulk out endpoint (whose
`write_urb` is NULL); what the USB core does to the write of an unplugged
device.

### S3cUart and SerialCore

`S3cUart` has the UART's transmitter, its FIFO, the enabled interrupts and the
port's `x_char`, with `start_tx`, `stop_tx`, the transmit handler, startup and
shutdown. `SerialCore` has one `struct uart_state`: its circular buffer, `count`,
`info->flags`, the tty's stopped states, the blocked openers, and the tasks'
calls as sequences of steps between `state->mutex`, the port's spin lock and waits.
The carrier and CTS change by interrupts; a hangup is run by `Eventd`. A startup may
find no page (-ENOMEM), an opener that is to wait a signal pending already. A write
takes its bytes under the lock and starts the transmitter after it, which is a
step of its own. `CLOCAL`, `CRTSCTS` may be changed, a port may be suspended and
resumed, TIOCSSERIAL may replace its interrupt. Signals during the wait for the
mutex are in `SignalSpec` only. Assumed: `tty_io` lets one writer in at a time
(`atomic_write`). Left out: the receive path's error flags, baud rates, the
console, TIOCMIWAIT, registration, UPF_CONS_FLOW.

### Elp3c505 and Cs89x0

`Elp3c505`: host and card exchange command blocks; the handler's branches
(a response block, a DMA that is over, a time-out) and the net layer's calls are
actions. `adapter` has the driver's fields, its backlog of announced frames among
them, `tx_pcb` whose command is in the shared block, `el_card` the card, `el_armed`
the one DMA channel, and histories which frames were announced, passed up, fetched
and given back. The card takes all it is sent and answers in time but for one odd event
(a damaged block, a block that is refused and comes again, a DMA that never
ends). `adapter_reset` from the handler and the multicast list are left out.

`Cs89x0`: the ring for received frames with the card's and the driver's place in
it, the transmit state with the thresholds, and what `net_open` claims and
`net_close` gives back, in the modes without DMA, with the channel named by the
module's parameter, and by the EEPROM. One event of the interrupt status queue is
one step; the card sends one frame at a time. A register is reached through an
address and a data port, and `net_close` may be interrupted between the two:
`cs_odd` has the registers that such a write missed. `cs_regs` has BusCTL's two bits
apart, since an open that fails leaves ENABLE_IRQ (cs89x0.c:1322) or MEMORY_ON
(cs89x0.c:1383) set, by how far it got (`CsBusAfter`). What `CsClaimsKept` says of that:
no more than BusCTL is left, so that the card asks for no event and reaches no memory
while interrupt and pages are not claimed - except for just the registers missed.

### Watchdog, Rtc, AudioDsp, GlobalMem, SecondTimer, TouchScreen

`Watchdog` has one action per call, with the device's prescaler and count in
registers of `WtReg` bits and the multiplication of `WtWord`; its count register may
hold anything when it is loaded, for `set_heartbeat` does not write it. `Rtc` has the clock's
registers ticking between the reads and writes of a call. `AudioDsp` has two
rings of buffers, their semaphores, the DMA's queues and the two DMA interrupts,
with threads that share one file; each setup of buffers may find no memory, each
enqueue may be refused. `AuMeet` is where calls meet in `audio_setup_buf`, which sleeps
for memory, or a SYNC through a reader's file meets the writer's release: the model
ends there (`au_oops`). `GlobalMem` copies piece by piece, since a copy
from or to a user may sleep; `GmWord` is the width that the offset is cut to; a relative seek looks at the position
three times (`GmSeekCur`, `GmSeekLook`, `GmSeekMove`).
`SecondTimer` runs the timer's handler beside release, in two steps; `sec_late` says that
the last close met the handler between them, after which the timer runs on in a closed
device. `SecondStops` says that this is the only way to it.
`TouchScreen` has the pen, the two interrupts, the timer and a ring of `TsSize`.
`ts_pend` has the events that were logged and not read since the ring last ran over:
`RingFaithful` says that the full ring shows none and the next event loses them all. `ts_odd` notes
second openers, opens during a touch and suspends: `PenInStep` speaks of the behaviours
without them, `PenSettles` of those with them: when the pen comes to rest, driver and
panel agree again, or the panel waits for the pen's next move and nothing else is on.

## Runs

| run | instance | what it shows |
|---|---|---|
| `fifo_safety` | 2 tasks, 1 byte, all calls, select; no clear | the semaphore is held by the one task inside; no entry outlives its call; a task that sleeps for input (room) while there is some is about to be woken; a non-blocking call returns, a blocked reader does not sleep on beside data |
| `fifo_channel` | 2 tasks, 3 bytes, all calls, SIGIO, clear | `ChannelSpec`: the driver implements `FifoChannel` |
| `fifo_blocking` | 3 tasks | finding: two readers are woken by one write and the second returns 0, end of file, for the emptiness is tested with `if` |
| `i2c` | S3C24xx: 2 calls, 3 retries, 2 timeouts, any loss; 4 clocks with 8 wishes; core: 2 adapters, 2 drivers, 6 calls; PXA: 2 calls, a retry, another master; Marvell, OpenCores: 2 calls, any time-outs; SMBus: each operation, blocks of 0 to 3 where 2 are allowed, one damaged byte, transfers that fail or stop short | `HandlerInStep`: interrupts come when expected, the handler stays inside its call's messages; `BussesServed`: what a bus driver reports as done was done; `SmKept`: an SMBus operation is the right messages, and damage the checksum can see is seen; `RateAllowed`; `EveryPairOffered`, `NothingDangles`: driver and adapter meet exactly, no list leads to what is gone; `CallsReturn` |
| `i2c_readnext` | read, then another message | finding: no start is sent and the second message is read from the first slave |
| `smbus_partial` | SMBus alone, as in `i2c` | finding: a transfer that executes fewer messages than it was given counts as success, and a read returns what was on the stack |
| `usb_freed` | 2 files, 1 device | finding: the first release after an unplug frees the device under the second file |
| `cards` | 3c505: ring for one frame, 2 events, 1 frame out; CS89x0: ring of 8, 2 frames, 2 opens; USB: 2 files, 2 devices, 2 minors | announced frames are fetched once, channel and receive count are right (`El...`); `CardKept`: frames whole and in order, claims given back and the card silent through failing opens and diverted closes, never a stopped queue that nobody starts; `FramesGoOn`; `CountsExact`, `TableExact`, `FilesKept`: USB counts, table and memory agree, an open file keeps its device while it is plugged in, no write outlives the last release; every open returns (`OpenReturns`) |
| `serial_tx` | 1 task, a buffer of 4, flow control, flush, echo, suspend | `BufferFaithful`, `TransmitterRuns`, `WritersServed`: each byte once and in order, transmitter and writer never rest beside bytes that may go |
| `serial_life` | 2 tasks, carrier, hangup, setserial, failing startups | what the interrupts use is there, users are counted, blocked openers are woken, the receiver is on |
| `serial_count` | 2 tasks, an interrupted open | finding: the open is closed as if it had been counted |
| `chardevs` | six drivers, one loaded | `WatchdogKept`, `GmCallAtomic`, `GmInBounds`, `SecondStops`, `RingFaithful`, `PenInStep`, `AuBufferOwned`, `SoundKept`, `RtcKept`, that who waits goes on (`WaitersGoOn`) and that pen and panel come to agree (`PenSettles`) |

Bounds. The wait queues and the semaphore of globalfifo treat all tasks alike
(symmetry is used where no liveness is checked); two tasks give a reader and a
writer, three give two that are woken by one. One byte makes the fifo full and
empty all the time; three bytes and payloads of two give partial reads and
writes, and moves that overlap. For I2C two calls of at most three messages of
at most three bytes reach every pair of message kinds, first, middle and last
byte, and what one call leaves to the next; two retries are the first one and
the last; six calls of the core are an adapter and a driver of each style that
come, meet and go while a third is in between. For USB two files are one that closes
and one that stays, two devices are one that takes the minor of the other. A
backlog of one is full with one frame; a ring of eight bytes with frames of one
and three wraps in the data, behind the header and at the end. A transmit buffer
of four with a FIFO of two passes `WAKEUP_CHARS` in both directions. The clock's
days have two hours of two minutes of three seconds, so that each carry comes;
words are of six bits and less in the watchdog, so that its product wraps. Deadlock
is checked in the fifo runs; the others may stop, their calls and devices being
bounded.

Fairness. A task inside globalfifo keeps running (weak). `down` and the wait
queues' spin locks serve a task that tries again and again (strong): the
kernel's semaphores queue their waiters, and the spin locks are held for a few
instructions. No task has to make a call, no signal has to come. In S3cI2c the
handler, the process and the stop condition go on; the controller need not
finish a byte, since a slave may hold the clock. In I2cPxa interrupts are served
(weak) and the process, which has its timeouts, gets its turn between them
(strong), but nobody else on the bus has to do anything. In I2cCore calls that
have begun go on and a user gives back its client. In UsbSkel calls that have begun go
on, reads within their ten seconds. In SerialCore the transmitter sends, the
handlers and tasks run; carrier and CTS need not come, and `WritersServed` says
what holds then. The network cards finish what they have taken, interrupts are
served, DMA ends; the net layer's watchdog fires. The touch screen's
conversions and timer end; the sound driver's threads and DMA go on. Nobody has to
touch the screen or to lift the pen: `PenSettles` is about behaviours in which it
comes to rest. A reader just going to sleep misses an event that comes then; only the
next wakes it, so `WaitersGoOn` is about a pen that stays down.

## Findings

Five runs expect a violation and are listed under `findings`. What else was met
while modelling, with the place where the model leaves it out or a property
excepts it:

- globalfifo: the entry of a reader leaves `r_wait` under the lock of `w_wait`;
  FIFO_CLEAR makes room and wakes no writer (`WritersWoken` fails with a clear in
  `Cmds`); with `"descending"` in `MemcpyOrders` `ChannelSpec` fails.
- globalmem without its semaphore (`GmLocked = FALSE`, code/06) tears reads, and
  two threads that seek relative to one position can leave it out of range.
- second: the handler calls `mod_timer` first (second.c:38), so that a last close whose
  `del_timer` (second.c:61) comes between the handler's start and that call leaves the timer
  armed for ever, also when the module is gone, and the next open initialises it while
  it is pending; a second opener does that to the timer of the first, and the first
  close stops it for both.
- S3C24xx I2C: a write continued as a read follows the NULL message (`oops`);
  after a timeout neither bus nor messages are given back; arbitration lost on
  the last byte is reported as success; the acknowledge of the byte before is not
  looked at; a bus slower than 1/8192 of the clock spills the prescaler into the
  next bit, one asked for below 1000 Hz divides by zero, and at 12 MHz 46 kHz is
  refused though the divisors reach it; probe's error path and remove
  give back the registers but neither interrupt nor adapter.
- i2c-pxa: `set_master` looks at the bus and then writes ICR, and a slave
  address in between is left in master mode: the other's bytes pass for the
  transfer's own, and a write may report success without having been sent;
  each read and write back of ICR in the process can undo the handler's; a lost
  arbitration is ignored on purpose ("We ignore this error", line 782) and the
  transfer waits out its five seconds; after a timeout the stop of the last byte is
  cleared while the byte is still to come, and `msg` stays set; a read of length 0
  stores one byte, and a read that is not last ends the transfer.
- i2c-mv64xxx: every message ends with a stop, so that another master may come
  between the messages of one transfer; a message with I2C_M_NOSTART therefore never
  goes out, costs both time-outs, reads one byte behind an empty buffer and lets
  `bytes_left` wrap; I2C_M_REV_DIR_ADDR turns the address only where the controller then
  moves the bytes the other way; a message that ends while its process times out is
  reported as ETIMEDOUT; the give-up sets `state` and resets outside the lock.
- i2c-ocores: the process waits for `state` only, which the handler sets with the
  stop still to come ("stop has been sent", line 82): one that is held up there starts
  the next call, and the interrupt of the stop is taken for that call's start, which
  then may report success with nothing sent (`oc_early`); after a time-out the handler still
  has the messages of the returned call; an empty message that continues another is
  sent on beyond its buffer.
- SMBus: a transfer that stops short counts as success (`smbus_partial`); no bus driver in the repository handles I2C_M_RECV_LEN, and one that does not
  leaves `i2c_smbus_xfer_emulated` copying as many bytes as the slave's first byte says, up to
  256, of a buffer of 34; the length of a block to be read is not checked ("No checking
  of parameters is done!", line 1809), only cut by the wrapper.
- I2C core: a driver is on its bus before its list is initialised (`ic_oops`);
  `i2c_get_adapter` returns an adapter before it is registered; a refused
  `i2c_del_adapter` leaves the adapter without its detected devices; a failing
  remove leaves `client->driver`; a legacy driver's refusal is ignored at its
  unregistration; only the module's reference keeps `i2c_new_device` from
  meeting `i2c_del_adapter`.
- USB skeleton: see `usb_freed`.
- Serial: an interrupted open followed by TIOCSSERIAL starts a port whose
  `info->tty` is NULL; a hangup of a blocked opener leaks `state->count`, one
  without an active user wakes nobody; `uart_stop` loses an XON or XOFF; CLOCAL
  set while an opener waits clears CHECK_CD; the -EBUSY of TIOCSSERIAL is
  overwritten; TIOCMIWAIT sleeps after its test; TIOCSERGETLSR reads the hardware
  before the buffer.
- Watchdog: `timeout * freq` overflows; `wdt_irq` is never set, so that remove
  does not free the interrupt.
- Touch screen: `open` initialises a timer that may be pending; the sleep comes
  after the test, and an event in between, the lift of the pen for instance, leaves the
  reader asleep beside it until the next; after 16 events the ring counts as empty; a resume with the pen
  down leaves the states apart.
- Sound: the input stream's `dma_ok` is never set, so buffers are freed under
  the DMA; a file opened for both, or for recording first, leaves the bus in
  the receiving direction; a refused enqueue, of a write or of a sync, leaves the semaphore taken and the buffer
  unplayed; two calls may set up one stream, for `audio_setup_buf` sleeps between its test
  and `s->buf`; SYNC does not look at the file's mode; RESET
  under another thread; poll looks at the first buffer only; GETOSPACE after
  RESET follows NULL; two writers skip buffers.
- Clock: the seconds are written first, so that setting second 59 may lose a
  carry; `rtc_open` forgets the first `request_irq`'s error; setting an alarm
  drops the enables of the date's fields; a read is right only if at most one
  second passes.
- 3c505: `elp_set_mc_list` waits with interrupts off for an answer that an
  interrupt brings; `elp_get_stats` shares `tx_pcb` without a lock;
  `receive_packet` without memory, or a damaged frame, leaves `busy` set; after
  the reset in open `rx_active` is one short, and it is decremented when a
  transmit DMA times out; a refused frame leaves the queue stopped until the
  watchdog.
- CS89x0: a channel that only the EEPROM names is never freed by `net_close`
  (cs89x0.c:1753), so that the next open fails; a missing medium after
  `request_dma` leaves the channel claimed; an open that fails leaves ENABLE_IRQ or MEMORY_ON
  in BusCTL; a register write of `net_close` goes elsewhere when the handler comes between
  its two accesses, and that register stays on; the DMA ring has no overrun protection.
- CAN, not modelled: a frame between enabling the interrupt and `sleep_on` wakes nobody.

## Proofs

`GlobalFifoProofs`, for any tasks, any size and any set of calls: `TypeCorrect`,
`MutualExclusion` (`SemaphoreHeld`), `EntriesRemoved` (`NoDanglingEntry`) and
`NoLostWakeup` (`ReadersWoken`). `TypeOK` needs only that a write's count is the
length of its buffer, which is proved first. The other three hold because of one
inductive invariant, `IInv`: none of them is inductive alone. That a sleeper
beside data is about to be woken depends on who may add data (the holder of the
semaphore, who then has the wake-up before him), on every sleeper for input
having its entry in `r_wait` (or the wake-up would pass it by), and on a task
changing its state only while it holds the semaphore. The proof has a lemma per
part, a step per action. The writers' side (`RoomNotLost`) is proved in the same
way, under the condition that nobody clears.
Its last part proves the refinement (`DriverIsChannel`): initial
states map to initial states, each action to a step of the channel or a stutter,
under the condition that memcpy copies upwards; its core is what the move of the
rest leaves in the buffer.

`I2cProofs`, the master driver: `HandlerInTurn` (`HandlerInStep`), for any transfers,
retries, timeouts and losses. The invariant `BusInv` ties the handler's cursor, the
controller's lines, the order of what went over the wire and the process's place
together: that an interrupt is expected needs to know what the controller has been
told, which depends on the handler's state, which depends on the last event on the
wire. `SuccessIsWhole` (`ServedFaithful`) adds to it, as `ServInv`, how far the
messages are: `Follows` names for every state of the handler the events that have
been on the wire, `Whose` says that what the process collects is its own. How far
a transfer is, is written `SoFar`: the messages before the k-th, whole, and the
first p events of that one. What a whole transfer puts on the bus is a
concatenation of a sequence of sequences, `FlattenSeq`, of which the library
states no theorem. Its function is the only one that satisfies its recursion
(`FlattenUnique`), and so one more part appends that part (`FlatStep`); these two
lemmas, by the least number that would refute them, carry all the bus drivers.

`I2cBusProofs`, the other three bus drivers: `OpenCoresServed` (`OcKept`),
`MarvellServed` (`MvKept`), `PxaServed` (`PxaKept`), and `EveryBusServed`
(`BussesServed`) for the four together; for any transfers, any number of calls,
retries and time-outs, any refusals and losses. Each has one inductive invariant
(`OcInv`, `MvInv`, `PxInv`) of the same shape: for every place of the process, what
the controller has been told and how far it is; which of the messages' events
have been on the bus, which bytes are stored; and who will go on. OpenCores' and
the PXA's drivers share fields between process and handler without a lock, and keep
this only while a race has not happened: the process woken before it waits
(`oc_early`), ICR changed by the handler between the process's read and its write
(`px_torn`). Both are variables of the models, part of the properties as the runs
check them and not hypotheses of the theorems. Marvell's needs none: its process
and handler hold the lock; its invariant follows an address of ten bits through
two bytes, the abort after a time-out and the late answer of an aborted message.
The PXA's has the unit as a slave of other masters (`PxAsSlave`), which is
independent of the call that waits meanwhile (`PxCalled`), and messages without a
start and without bytes, which the handler passes in a loop.

`I2cProofs`, its clock: `BusWithinTwo` (`RateAllowed`). While the clock is at most
8192 times the wish the divisor is at most 16, so that the register's field holds
it; that the loop, which takes the highest acceptable frequency, has one to take
is the well-foundedness of `<`.

`I2cProofs`, the core, for any adapters and drivers, legacy or not, and any board:
`EveryPairMeets` (`EveryPairOffered`) from `IcPlaces`, by which who walks a loop
holds `core_lock` and is in the class or on the bus as its place says, and from
`IcOffers`: a pair has met, or one of the two is in its loop and has the other
still before it, or has not begun. `PointersLead` (`NothingDangles`) adds `IcMade`
(who has made a device is a driver on the bus), `IcUserIn` (the user's device is
its adapter's, which is not unloaded meanwhile) and `IcLists`: after a driver was
told, it has no device of the adapter left, after it was detached, none at all,
and the devices made by the user or the board are in no driver's list. The names
for nobody and for a driver that has left are no adapters or drivers
(`I2cNamesAssumption`).

`SmbusProofs`: `SmbusKept` (`SmKept`), for any bytes, any damages and blocks of
up to 32. The first part is the checksum. `SmXor` adds bits without a carry
(`XorBits`), so it is a group of bytes; a step of the loop of `crc8` is a
multiplication by x modulo the polynomial (`DivideIs`), which distributes over
`SmXor` and gives 0 for 0 only (`TimesLinear`, `TimesApart`), and eight of them do
too (`EightLaws`). Two messages that differ in one byte therefore never have the same
checksum, whatever follows the byte (`OneOffTold`), and the byte that makes the
slave's remainder 0, a sum of powers of x over the message's bits, is the one
that `i2c_smbus_pec` computes byte by byte (`NothingRemains`). Both are functions over the
positions of a message: that they exist is an induction over prefixes, done with
a least counterexample (`UpTo`), as in the bus drivers. The second part says what
messages each kind of call becomes (`MadeIs`) and which answers fit in them
(`AnswersAre`). The third is `SmInv`: until the transfer the messages are those; after
it, unless it stopped short, what has the right checksum, or was not damaged, is whole; the
messages stay in their buffers in any case. One lemma per action.

`CharDevProofs`, the USB skeleton driver, for any finite set of files, any devices and minors:
`SkelTypeCorrect`, `OpenersCounted`, `TableLeadsToDevices`, `FilesStayKept`. The invariant adds who holds the table's
lock, where the pointers of calls lead, and that memory not yet allocated is
untouched. The key is that an opener between table and device holds the table's
lock, without which neither delete runs; that a count of zero means no handle
turns `open_count` into a fact about pointers, and needs the counting of finite
sets. One lemma per action.

`SerialProofs`, for any finite set of tasks, any sizes and any set of calls.
`PortInvariant` is the life of a port: who may hold `state->mutex` and the big
lock, and what each stage of each call implies of the port, its file, its page,
its flags and its count. A call that holds the mutex is the only one that opens
or closes, but hangup, which takes the mutex last, marks files dead before; so
the invariant says of every other task only what a hangup leaves true. It counts
the tasks with a file that was not hung up, which needs finite sets. From it
follow `InterruptsOwnedAlways`, `PortKeptAlways` and, with one more inductive
part each, `ReceiverOnAlways` and `OpenersWokenAlways`. The last one has the
hypothesis `CarrierWatched`, that no settings with CLOCAL are used: setting
CLOCAL wakes no opener that waits, and turns off CHECK_CD, so that a carrier
later does not reach it.

Its second part, for rings of any size: `BufferFaithfulAlways` takes the ring
as `head`, `tail` and what lies between, with the arithmetic of a wrap (`ModAdd`
and what follows it) as lemmas, one per way a byte comes or goes.
`WritersWokenAlways` says that a writer asleep has enough pending, or the tasklet
on its way. `TransmitterRunsAlways` adds that a started port has an open file
that is not in its last close, whoever is in between, and that bytes beside a
disabled interrupt have a reason: a stop, or a task about to call `start_tx`. It
has the hypothesis `Carrierless`, the case of this UART, whose `get_mctrl`
reports no change of the carrier: a hangup of a port that blocked openers have
started leaves it started without a file, and the next last close resets
`tty->stopped` with bytes in the ring and the interrupt off.

`NetProofs`, 3c505, for any number of receive commands and any ring of
announced frames. `ElChannelInv`: by the handler's place, which transfer the
card waits for first, what `busy`, `dmaing` and the DMA's controller say, and
that a backlog has a transfer before it. `ElCounted`: the receive commands on
the card, the announced frames on their way and those in the backlog add up to
`rx_active`, or one more after the reset. `ElFramesKeptAlways` is about
sequences that are filtered by kind, which a recursive filter would put out of
reach; it is therefore stated, here and in the run, by places: the n-th
announced frame among the blocks is the one with n places up to its own. The
lemmas on `Rank`, `Places` and `Follow` say what an append, a tail and a
concatenation do to that, `Account` is the invariant.

`NetProofs`, CS89x0, for rings of any size that is a multiple of the alignment
and any lengths. `CsRingInv`: there are offsets (`Laid`) at which the frames
lie one behind the other from the driver's place to the card's, padded, and so
every header is whole before the wrap; frames the driver is to fetch are as many
as it has counted and the card still counts. An arrival that fits keeps all of
them (`LaidArrive`), a receive takes the first (`LaidTail`), and the two pieces
of a copy make the frame (`CopyWhole`). `CsQueueInv`: a stopped queue has a
frame on its way, a bid, or an event; it needs that an open card's registers are
all written. `CsClaimsInv`: which registers a close has silenced at which place, and
which of them it missed; which bits a failed open leaves at which place, and that the
claims stay until all that needs them is off.

`CharDevProofs`: `InsideMemory` for any size, positions and word, with or
without the semaphore: each call keeps bounds in its locals from the check to
the copy. `OneWithMemory` (`GmCallAtomic`) needs the semaphore. `TimerStopped`
(`SecondStops`), from where the handler may stand when release runs: what it says of the
race is what the code does, not that there is none. `PenNeverOutOfStep`, from
`PenInv`, which adds where a conversion stands and whether the timer is pending.
`EventsKeptInOrder` (`RingFaithful`) names the ring's places by their distance from
the tail, at most one less than its size or, when full, all of them and none shown, and
says who is between its look at the ring and its sleep or its event: at most one reader
holds the kernel there, so what it saw is still the oldest event. `WatchdogNeverForgets`: the count in the register
belongs to the divisor beside it; that every accepted timeout has a first divisor
is the well-foundedness of `<`. `ClockKept`: a read, until it is done, has each
field from one of two times the clock showed, and one that began again has them
from the second; a set has left what it wrote, unless it met a carry; what is
compared is an alarm that was set, until another is begun.

`AudioProofs`, the sound driver, for any threads, shapes of the rings and counts:
`BuffersOwned` (`AuBufferOwned`) and `SoundStaysKept` (`SoundKept`). `AuHeld` says
which ring a call may be in: a ring with buffers has an open file, no two calls
are in a stream that is not raced for, none in one that is being closed.
`AuOwned`: a buffer is taken (its semaphore 0) if and only if one call copies into
it or one entry of the DMA's queue names it. The output, `AuOutKept`: the queue's
entries and the current buffer lie one behind the other between what was played
and what was written (`AuWhole` names the position of each entry), the other
buffers are empty, and a call that waits stands at the current buffer or, in a
sync, at the one before it. The input, `AuInKept`, is told from the current
buffer around the ring: `AuStored` has e buffers that were read, or never
recorded, then the recorded ones up to c, each beginning where the one before
ends, the first of them perhaps half read; `AuGiven` has the buffers from c on in
the DMA's queue in this order, behind h entries that a reset has freed. A read
that stays inside a buffer therefore begins at what was heard last. `AuIdle`
says what is left without buffers: everything written is played or dropped,
everything taped heard.

The only assumptions are the named ones on the constants, which TLC evaluates on
every run, and the conditions above, which are stated in the theorems; the runs
that check the same properties meet them.

Every safety invariant and action property of the passing runs is stated by a
theorem. Model-checked only: the liveness properties, which are out of the prover's
reach: `CallsProceed`, `CallsReturn`, `OpenReturns`, `FramesGoOn`, `WritersServed`,
`WaitersGoOn` and `PenSettles`.

## Not modelled

- CAN: one flag between a reader and the interrupt; what the controller does
  between two register writes is not in the repository.
- The touch screen as an input device, VirtualDisk, button and threads: the same
  loops and locks as modelled drivers, on a smaller scale.
- RAM disk, virtual block devices, IDE: request loops of the block layer, which
  is not in the repository.
- ne.c and the other network drivers: probing, and transfers through a chip
  driver (8390) that is not in the repository.
- ALSA: its ring belongs to the ALSA core, which is not in the repository.
- Frame buffer, flash, SAA711x, platform and board tables: register programming
  and tables, hardly any state between calls.
- The other I2C busses: for some forty boards, each with its own controller and
  the structure of the four that are modelled, or polled.
- Applications: they only call the devices.

Assumptions on what is modelled: one processor, interrupt handlers one at a
time with interrupts off (one event per step in Cs89x0), a Linux 2.4 kernel that
does not preempt for the touch screen and the sound driver; the panel's interrupt
is level-like; a refused byte on the PXA's bus is followed by the unit's stop, and a lost
arbitration may or may not be flagged or sent again.

## Plan

1. Done: the three core drivers, the serial core and two network drivers, the
   I2C stack and six character drivers, with a theorem for each safety property.
2. Models next: further interrupt driven busses (omap, davinci), CAN, ALSA's
   DMA loop; their invariants as those of the drivers they resemble.
