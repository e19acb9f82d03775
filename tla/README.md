# The drivers and the scheduler of this repository in TLA+

This directory models the concurrent core of the repository: the Linux driver of
a Xilinx Kintex-7 PCI Express DMA design (`src/fc1553_dma`), the e100 network
driver (`src/pci/pci/e100.c`), five smaller drivers of an S3C2410 board, and the
CFS scheduler (`src/fair.c`). The modules are model-checked with TLC on small
instances; the theorems are proved with TLAPS for every value of the constants.

Paths are relative to `src/`, those of the DMA driver to `src/fc1553_dma/`.

## 1. The system

The parts share no state but what is said below; each is a program of its own.

### The DMA driver

The build modelled is that of the Makefiles: `TH_BH_ISR` is not defined, so
completed descriptors are found by polling; `FIFO_EMPTY_CHECK` is defined,
`DATA_VERIFY` is not. (`IntrPath` alone models the `TH_BH_ISR` build.)
`xrawdata0/sguser.c` and `xrawdata1/sguser.c` are the same file; a macro chooses
the pair of engines (0 and 32, or 1 and 33).

| Component | State | Operations | Hard part |
|---|---|---|---|
| **BD ring** `xdma/xdma_bdring.c`, `.h`, `xdma_bd.h` | head, tail and count of the free, pre-work, work and post-work groups; run state; the BDs in memory; three registers | Create, Start, Alloc, UnAlloc, ToHw, FromHw, ForceFromHw, Free, Check, Align | groups move round a ring by address arithmetic; the hardware shares the memory; a full and an empty work list look alike to it |
| **DMA engine** `xdma/xdma_base.c` (477-627, 741-1105), `xdma.c` | `EngineState`, the BD space `descSpaceVA`, a ring | `PktHandler`, `DmaSetupRecvBuffers`, `descriptor_init`, `descriptor_free`, `poll_routine` | `PktHandler` and `descriptor_free` let go of `DmaLock` in the middle; the state is tested without it |
| **User API** `xdma/xdma_user.c`, `include/xdma_user.h` | `handle[]` of the caller | `DmaRegister`, `DmaSendPkt`, `DmaUnregister`, `DmaFifoEmptyWait` | part of a batch may fit; errors of `descriptor_init` are passed over |
| **Raw data driver** `xrawdata0/sguser.c` | `TxBufs`, `RxBufs` (a circular array with two indices and a count), `TxSeqNo` | `AllocBuf`, `FreeUsedBuf`, `FreeUnusedBuf`, `myPutTxPkt`, `myPutRxPkt`, `myGetRxPkt`, `DmaSetupTransmit`, load and unload | buffers are freed by count, so the order of their return matters |
| **Test mode** `xrawdata0/sguser.c` | `RawTestMode`, `testmode`, `TX_CONFIG`, `RX_CONFIG`, `TxSeqNo` | `mySetState`, `myGetState`, `poll_routine` | the timer routine reads and acts on the mode in two steps |
| **Packet pools** `xdma/xdma_base.c:255-279` | linked list of `MAX_POOL` pools | `DQPool`, `EQPool` | neither handles an empty list |
| **Statistics device** `xdma/xdma_base.c` (629-739, 1427-1833) | a ring of samples per engine (DMA, SW) and one for the link (TRN), `UserOpen` | `poll_stats`, open, release, `IGET_*_STATISTICS` | the sample count is tested before the lock; one loop counter bounds an array and two loops |
| **Interrupt path** `xdma/xdma_base.c:283-473` | `PendingMask`, `LastIntr`, write-one-to-clear bits | `IntrCheck`, `Acks`, `DmaInterrupt`, `IntrBH` | acknowledgement races |
| **Probe and removal** `xdma/xdma_base.c:1912-2334` | PCI resources, BARs, `dmaData`, two timers, `DriverState` | `xdma_probe`, `xdma_remove`, `xdma_cleanup` | removal waits for timers under the locks they take |
| **xpmon GUI** `xpmon/ConfigGui.c` | its copy of the test state | `StartTest`, `StopTest`, start-up, the statistics timer | rebuilds its state from the driver's |

- The raw data driver registers two engines (`DmaRegister`) with three
  callbacks: `UserInit`, `UserPutPkt` (packets come back), `UserGetPkt` (a
  receive ring wants buffers). It sends from its own timer routine with
  `DmaSendPkt`, and unregisters when it is unloaded.
- The base driver's `poll_timer` runs `PktHandler` for every engine whose state
  is `USER_ASSIGNED`. `PktHandler` takes completed BDs off the ring under
  `DmaLock`, gives the packets to `UserPutPkt` **without** the lock, and takes
  it again to refill a receive ring.
- The hardware walks the BDs from `NEXT_BD` to `SW_NEXT_BD` and writes their
  status; on a receive engine it writes the two user words after the status.
- The GUI opens the statistics device, reads statistics with ioctls, and starts
  and stops tests with `ISTART_TEST` and `ISTOP_TEST`, which end in the raw data
  driver's `mySetState`.
- Locks: `DmaLock` (rings and engines), `DmaStatsLock` (taken inside it too),
  `PktPoolLock`, `IntrLock`, and the raw data driver's `RawLock`.

What makes it correct: the four groups follow one another and fill the ring; the
hardware owns exactly the incomplete BDs of the work group; two BDs stay free
while any is used. Only whole packets are handed over; every buffer comes back,
once, in the order of the pool; nothing is used after it was freed. Sequence
numbers have no gap although `DmaSendPkt` may take fewer packets. A test is taken
up, stops, and numbers from zero. Statistics rings are queues that lose their
oldest samples. An interrupt that is turned off is turned on again, and completed
BDs are handled in any case. Removal ends and finds no timer running.

### The e100 driver

| Component | State | Operations | Hard part |
|---|---|---|---|
| **Transmission** | a ring of command blocks, `cb_to_use`, `cb_to_send`, `cb_to_clean`, `cbs_avail`, `cuc_cmd` | `e100_exec_cb`, `e100_xmit_frame`, `e100_tx_clean`, `e100_tx_timeout` | the command unit runs through the ring while CBs are linked in |
| **Reception** | a ring of RFDs, `rx_to_use`, `rx_to_clean`, `ru_running` | `e100_intr`, `e100_poll`, `e100_rx_clean` | the receive unit runs out of RFDs at any point of cleaning, and has to be restarted |
| **Life** | resources, lists, line, watchdog, the poll bit | probe, remove, open, close, suspend, resume, PCI errors, `tx_timeout_task` | several threads take the interface down and up |
| **EEPROM and PHY** | the EEPROM and its cache, the PHYs on the bus | `e100_set_eeprom`, `e100_phy_init` | odd offsets and the checksum; one PHY only |

Locks: `cb_lock`, `cmd_lock`, `mdio_lock`, the kernel's `rtnl` around open, close
and ethtool operations, the poll bit of NAPI. It is correct when the command unit
only runs on queued CBs, one command serves all CBs before it, a stopped queue
wakes, a receive unit restarts on a list without gaps, and nothing is acquired
twice or released late.

### Drivers of the board

| Component | State | Operations | Hard part |
|---|---|---|---|
| **MMC host** `mci/s3cmci.c` | the request, `complete_what`, `pio_active`, the interrupt mask, the FIFO | request, interrupt, tasklet, `set_ios`, probe, remove | handler and tasklet share the mask and the end of the request |
| **CS8900** `net_driver/cs8900.c` | the chip behind an address and a data port, `txlen`, the queue | open, stop, send, interrupt, `set_receive_mode`, timeout | pairs of port accesses can be interrupted; the line is edge-triggered |
| **USB skeleton** `usb/usb-skeleton.c` | `kref`, `limit_sem`, `io_mutex`, `interface` | open, release, read, write, probe, disconnect | unplugging at any time |
| **Keypad** `keybutton/button.c` | `cur_irq`, `key_value`, a timer, a semaphore | open, close, read, interrupt, timer | three contexts share two variables |
| **Key ring** `key/button.c` | a ring of events, `flag` | open, close, read, interrupt | flag and ring are changed separately |

### The scheduler

| Component | State | Operations | Hard part |
|---|---|---|---|
| **Runqueue** | `vruntime`, `min_vruntime`, tree, buddies, `nr_running`, load | enqueue, dequeue, pick, tick, wakeup, yield, fork, exit, migration, class change | virtual time wraps around and is made relative and absolute along many paths |
| **Bandwidth** | the pool's `runtime`, `idle`, timers, the list of throttled queues | account, throttle, unthrottle, two timers, hotplug | timers walk the list without the lock |
| **Load balancing** | tasks on CPUs, `imbalance`, `nr_balance_failed`, `push_cpu` | `load_balance`, `idle_balance`, active balancing | all is read without locks; affinity makes it retry |
| **Idle balancing** | `idle_cpus_mask`, counters, kick bits | tick, kick, IPI, softirq | a lost bit or count has no second chance |
| **Load averages** | per task, queue, group | attach, detach, remove, decay, propagate | a removal happens in the time of a queue whose lock is not held |
| **NUMA** | faults, groups with references, preferred nodes, scan offset and period | `task_numa_fault`, `task_numa_migrate`, `task_numa_work` | groups and tasks are found without locks |

It is correct when queues, counters and pointers are those of the tasks, a
runnable task runs some time, a throttled queue runs again, no task is lost or put
where it may not run, no CPU idles for ever beside one with tasks to spare,
loads are the sums they claim to be, references are given back, every page is
scanned and tasks settle.

### Also in the repository

The board driver `fc1553_driver` and `pcie_test` (programmed I/O), other copies of
kernel drivers (`LCD`, `fb`, `nand`, `cirrus`, `usb/ohci-s3c2410.c`,
`touch_screen`), exercises (`hello`, `sysfs`, `mytest`). Not modelled; section 6.

## 2. Modules

| Module | Models | Source |
|---|---|---|
| `BdRing` | The ring functions as operators on (ring record, BD memory, registers). Groups are a start index and a count modulo N | `xdma_bdring.c`, `.h`, `xdma_bd.h` |
| `RawBuffers` | The buffer pool: array position, free position, count | `sguser.c` |
| `DmaEngine` | One engine with its handlers, its user thread and its hardware. EXTENDS `BdRing` and `RawBuffers` | `xdma_base.c`, `xdma_user.c`, `sguser.c` |
| `PktPool`, `PoolQueue` | The linked list of packet pools; abstract: a queue | `xdma_base.c` |
| `StatsRing`, `StatsDevice`, `LossyQueue` | A ring of samples; open, release, `poll_stats` and the ioctl; abstract: a queue that drops its oldest sample | `xdma_base.c` |
| `RawTest` | The test mode, the timer routine and the GUI that commands them | `sguser.c`, `ConfigGui.c` |
| `IntrPath` | Interrupt routine, bottom half, poll routine | `xdma_base.c`, `xdma_hw.h` |
| `XdmaLife` | Probe with its error exits, timers, removal | `xdma_base.c` |
| `E100Tx`, `E100Rx`, `E100Life`, `E100Config` | The four components of e100 | `e100.c` |
| `S3cMci`, `Cs8900`, `UsbSkel`, `KeyButton`, `KeyRing` | One driver each | as above |
| `CfsRq`, `CfsBandwidth`, `CfsBusiest`, `CfsBalance`, `CfsNohz`, `CfsLoadAvg` | The scheduler but for NUMA; `CfsBalance` EXTENDS `CfsBusiest`, the choice of group, queue and imbalance | `fair.c` |
| `CfsNuma`, `CfsNumaMove`, `CfsNumaScan`, `CfsNumaPeriod` | Faults and groups; placement; scanner; scan period | `fair.c` |
| `MCDma`, `MCXdmaBase`, `MCE100`, `MCBoards`, `MCCfs`, `MCCfsMoves`, `MCCfsSettles`, `MCCfsRq` | Instances for model checking: `MCCfs` composes the parts of the scheduler for any constants, `MCCfsMoves` and `MCCfsSettles` name the functions their runs give it | - |
| `DmaEngineProofs`, `MCDmaProofs`, `XdmaBaseProofs`, `E100Proofs`, `BoardsProofs`, `CfsBandwidthProofs`, `CfsProofs` | Theorems and proofs about the modules they are named after, the first one also about the ring functions that `DmaEngine` uses; those named after an MC module are about each of its parts, `XdmaBaseProofs` also about `PktPool` | - |
| `NatLemmas` | Arithmetic modulo N, least and greatest elements, folds and sums over finite sets | - |

The exact lines of each definition are in `PROJECT.json` under `map`. The mutated
operators marked "Mutant" stand before the originals they are variants of.

An MC module instantiates several modules that share no state in the code. Its
variable `part` is chosen at the start and says whose behaviour this is; the
others stay as they are, so that the state space is the sum of theirs. Its
properties are those of the modules, for that part.

### DmaEngine

A step is what runs under one holding of a lock. `ring`, `bd` and `regs` are the
`Dma_BdRing`, its descriptors and registers; `space` is `descSpaceVA` and whether
its memory has been freed; `bufs` is the user driver's pool; `upc`, `ulist`,
`usent`, `upkts`, `ufree` are the position and locals of the user thread and `hpc`,
`hpkts` those of each handler; `rxFrag` is how far the hardware is in a received
packet. `memFault` (BD memory was used while not allocated) and `session` (how
often the driver was loaded) are not in the code.

| Step | Code |
|---|---|
| `CheckEngine(h)` | `poll_routine` tests `EngineState` without the lock |
| `HandleNothing(h)`, `HandleCompleted(h)` | `PktHandler`, first holding of `DmaLock`: nothing came back and the ring is refilled, or completed BDs are collected and freed |
| `PutPkts(h)` | `UserPutPkt`, with only `RawLock` |
| `Refill(h)` | second holding of `DmaLock`: `DmaSetupRecvBuffers` |
| `DmaRegister`, `StoreHandle` | `DmaRegister` with `descriptor_init`, which may fail; the handle is stored when the call has returned |
| `DmaSetupTransmit`, `DmaSendPkt`, `TakeBack` | packets are prepared; as many BDs as fit are filled and whole packets handed over; the rest is taken back |
| `DmaUnregister`, `RecoverBds`, `PutUnused`, `FreeRecovered`, `ReleaseSpace`, `Detach` | `DmaUnregister` and `descriptor_free` between their lock releases |
| `Unload` | `rawdata_cleanup`, which sleeps a second before it frees the buffers |
| `HwTransmit`, `HwReceive`, `HwUserWord(i)` | the engine completes a BD; a user word of a received packet arrives |

Abstractions: engines share `DmaLock` and the packet pools and nothing else of the
state here; a buffer is its index in the pool; a packet is its BDs with start and
end marks and its sequence number; the length of a BD is zero or not; flags are
sets of names. Reset of an engine is instantaneous. `BdLimit` stands for
`DMA_BD_CNT` where it bounds a scan.

### The rest of the DMA driver

`RawTest`: `pc`, `times`, `pkts`, `result` are the position and locals of
`poll_routine`, `gui` the flags of the GUI, `expected` and `fresh` histories.
`TestInProgress` and `DmaSetupTransmit` hold `RawLock`; `PollCheck` and `TakeBack` do
not. How many packets `DmaSendPkt` takes is any number here. The module starts when
both engines are registered.

`StatsDevice`: one kind of ring, since the code for DMA and SW statistics is the
same. `call` holds the locals of an ioctl and two histories. The copy to the GUI
may fail, and then the sample is lost, as in the code.

`IntrPath`: `CrSr` is the set of event bits and the enable bit of each engine; `isr`
and `bh` are the positions of interrupt routine and bottom half, `done` the engines
with completed BDs, `recent` those whose `LastIntr` is less than the timeout ago.
`XdmaLife`: `held` and `mapped` are the resources, `timer` where each timer routine is,
`lockedBy` who has `DmaStatsLock` and `DmaLock`. `bound` is what the PCI core makes of the
result of `xdma_probe`: it takes `XST_FAILURE`, which is 1, for success, and calls
`xdma_remove` when the module is unloaded. A place `oops` is where the code goes through
a null address.

### e100

`E100Tx`: `call` is the thread in `e100_exec_cb`, whose two halves (the CB is linked
in; the command is given) are steps; `scb` is the command register, `gen_ptr` its
pointer, `cu` the command unit with the CB it is at, `phase` where a reset is.
`E100Rx`: `poll` is the position in `e100_poll`, with its work and `rx_to_start`; `ru` the
receive unit. In `E100Tx` a failed `e100_up` ends in the phase `dead`: the next `e100_down`
waits for ever. `E100Life`: `todo` is what each thread (rtnl, the work of
`tx_timeout_task`, and the PM and PCI callbacks) still has to do, `failed` whether a
recovery from an error has failed. `E100Config`: words are small numbers modulo M, with
two bytes each; `stale` are the words that a refused write has changed in the cache
only, `wrong` whether the checksum was made with such words. The EEPROM and the PHYs
are two parts of the run, since they share nothing.

### Board drivers

`S3cMci`: `host` and `hw` are the driver's and the controller's state; the interrupt
may come between any two steps of the tasklet; `core` is the MMC core's view of the
request, with whether all words were moved. A whole request is taken to be set up
before the first interrupt. `Cs8900`: a function is a sequence `prog` of register
accesses, each of two halves; `hit` records that an interrupt came between the
halves. `UsbSkel`: every call is split where it sleeps; `bad` records a use after
free. `KeyButton`, `KeyRing`: one reader position per process.

### Scheduler

`CfsRq`: every operation is under the rq lock and one step on a record of all
runqueues and vruntimes; the load weight of a task is the inverse of its `Cost`.
In `Change` the running task stays the runqueue's curr, or the scheduler core puts it
first and sets it again. The latter begins a new slice; were it to happen again and again
before each tick, the task would never be stopped and vruntimes would run apart without
bound. It is limited to a task that has just begun to run or is marked to be replaced.
A fork by a task of another class (`Young`) places the child from a vruntime of 0, which is right
while `min_vruntime` is in its lower half, for 292 years.
`CfsBandwidth`: timers give up `cfs_b->lock` while they distribute, so each queue they
come to is a step; every operation on the running group begins with `update_curr`. `CfsBalance`: `lb[c]` is the `lb_env` and position of the balancing
CPU: statistics, detaching under the source's lock and attaching under the
destination's are steps. `CfsNohz`: what happens on a CPU with interrupts off is one
step. `CfsLoadAvg`: the unit of time is the half-life, weights are multiples of 2^Horizon,
so that decay is exact; `late` are CPUs that went on between the halves of a removal.
`CfsNuma`: `fault[t]` is the position in `task_numa_fault`; a group is freed after an RCU
grace period and its address may be used again. `CfsNumaMove`: each CPU looked at is a
step of the search. `CfsNumaScan`: each turn of the loop is a step, with `mmap_sem` held
for reading, so that two tasks may be in it.

## 3. Runs

| Run | Question | Properties | Distinct states |
|---|---|---|---|
| `dma` | A send and a receive engine in steady use | RingSound, SeqNosConsecutive, ReceiverSound, BuffersComeBack, PacketsDelivered, RingReplenished | 35,481 |
| `life` | A send engine over two sessions, the first of which gets no ring, unregistered at any moment, whose packets may be reported short | HoldersAgree, PacketsWhole | 1,424,612 |
| `base` | Packet pools, statistics, probe and removal, interrupt path (twice), test mode | ListSound, StatsInv, LifeInv, IntrInv, RawInv, ImplementsQueue, ImplementsLossyQueue, CompletedIsHandled, WorkEnds | 173,367 |
| `e100` | Rings, life, EEPROM and PHY of e100 | RingsInv, InterfaceInv, StoppedQueueWakes, RuRestarts | 128,113 |
| `boards` | The five drivers of the board | MciInv, ChipInv, SkelInv, PadInv, KeyRingInv, WaitersGoOn | 180,511 |
| `cfs_rq` | A runqueue whose vruntime wraps around | Inv, NoStarvation | 93,645 |
| `cfs_bw` | Bandwidth control on two CPUs, one of which may go offline | Inv, ThrottledRuns | 526,284 |
| `cfs_moves` | Tasks sleep, wake, migrate and end | MigrateInv, BalanceInv, LoadInv, NumaInv, RemoteScansFaster | 801,992 |
| `cfs_settles` | What an undisturbed system gets to | SettleInv, NoIdleCpu, EveryPageScanned, Settles | 77,861 |
| `stale_ring`, `rx_unregister`, `raw_stop` | Disagreements, section 5 | one each | - |

What the invariants named after a module's `Inv` say is next to their parts in the
modules: for instance `HoldersAgree` is that driver, engine and pool agree on who
holds which buffer, that no BD memory is used while not allocated, and that an
unregistered engine leaves an empty ring; `ReceiverSound` is that, `RingSound` and
`UserInfoArrived` of the receive engine; `RingSound` that the ring is well-typed,
tiled by its groups and has two spare BDs. Every property of a passing run has a
mutant of the code in `PROJECT.json` that breaks it: a spare BD too few, a lock-free
delay left out, a bit cleared before the other is set, a counter not reset, a vruntime
made relative twice.

A composed run is one action to TLC's statistics. With `-coverage 1` the count of each
expression shows that every action of every part, and every disjunct of it, happens in
some run: yielding in `cfs_rq` and moves between runqueues in `cfs_moves`, tasks that come
and go (`Churn`) in `cfs_moves` and a search of several nodes in `cfs_settles`.

### Bounds, and why they are enough

- **`dma`, `life`**: the rings have 3999 BDs in the code, 4 or 5 here. Two are always
  spare, so 4 lets two be in flight, the least that wraps both ends of a group and
  splits a packet of two fragments from the next one. `life` needs 5 to send: with three in
  flight a whole packet can precede one that does not fit. The pool has as many
  buffers as the ring takes or fewer. `SeqMod` 3 exceeds what may be in flight, as 2^16
  does. Two sessions: what a session leaves behind is only read by the next.
  **AllocFails** = {1}: the first may fail to get memory. **HwErrors** is {"SHORT"} to send
  in `life`, empty elsewhere: an error ends a packet early (section 5). The receive
  engine, in `dma`, has as many buffers as BDs, and its driver stays registered (section 5
  again); `HoldersStayAgreed` covers every other size.
- **`base`**: three pools and two borrowers, so that the list gets as short as one.
  Rings of two samples that overflow, arrays shorter and longer than a round over
  the engines, an engine slot with no engine; one GUI (see `OneGui`). Every failure of
  the probe. Two engines per direction,
  of which the second is the one the loops leave out; errors on the receive engine.
  Three starts, so that a test follows one that followed another; two transmissions
  per tick instead of nine.
- **`e100`**: rings of three CBs and three RFDs, that fill up and wrap with one
  element always in between; a quota smaller than the ring; every operation on the
  interface with one thread of each kind; `e100_up` may fail wherever it is called. An
  EEPROM of four words and three PHY addresses.
- **`boards`**: two segments of two words with a FIFO of two, so that a transfer takes
  several interrupts and a segment ends within a FIFO; two events in the chip, one
  access under way; two files; two by two keys with two readers, of whom one waits
  for the semaphore; a ring of four events with one reader.
- **`cfs_rq`, `cfs_moves` (rq)**: `W` is 16 instead of 2^64 and exceeds twice the spread of
  vruntimes that the latency and `Lag` allow, as in the code; min_vruntime begins below
  zero. `Horizon` ends an instance after a whole turn (16) where there is one CPU, after
  the wrap where there are two. A sleeper further behind than `Lag` is taken to be that
  far behind, for place_entity then does the same. Two tasks, of different weight in `cfs_rq`: a
  waiting, a running and a third position between are what the buddies tell apart.
- **`cfs_bw`**: a quota of two slices, and consumption of a unit at a time, so that
  pool and queues run out at all points; the slack timer only distributes with more than
  a slice in the pool, hence not less than two. One CPU goes offline and the other stays,
  as one does. `Debt` 0: no tick comes with a debt, but the update of the put or dequeue
  that follows adds to it. The quota exceeds what the
  queue at the head of the list can take, without which the tail starves (section 5).
- **`cfs_moves`, `cfs_settles` (balance)**: three CPUs in two groups give a domain inside a
  group and one between; two or three tasks of equal load, one with restricted
  affinity, one cache-hot. Tasks come and go and two CPUs balance at a time in
  `cfs_moves`; tasks run on and all parts are fair in `cfs_settles`. **nohz**: two
  CPUs with churn, three without.
- **load**: one clock step and a hierarchy of one group; two tasks on two CPUs show
  removal, migration and the level above. **numa**: three tasks of which two
  share memory, two group addresses of which one is freed and taken again.
  **move**: two nodes with churn and two searches at a time; without churn, three nodes
  with a CPU each on a backplane, of which one is farther from the others. **scan**: a mapping that is skipped and
  one of two pages that are not aligned to a huge page. **period**: between 14 and 60
  units, with at most three faults of a kind.

`CHECK_DEADLOCK FALSE` is set where the system really stops: after the last session
(`life`, `rx_unregister`, `stale_ring`), the last start command (`base`, `raw_stop`), a
failed probe or a finished unload (`base`), a driver that is unloaded or was not
loaded (`e100`, `boards`), tasks that have ended or settled (`cfs_*`).

### Fairness

None on what users, networks and other kernel parts choose to do. Weak fairness
of what goes on by itself once it can, strong where a lock or a resource is lost
to others in between:

- `DmaEngine`: each `Handler(h)`, because `poll_routine` re-arms its timer; `UserCall`,
  because a call that has begun goes on; `HwTransmit` and `HwUserWord(i)`, the hardware
  completes what it was given.
- `RawTest`: `Poll` (the timer re-arms itself). `StatsDevice`: `Ioctl(g)`, a system call runs
  until it returns. `XdmaLife`: unloading goes on, timers fire and take a lock that is
  free; strong for `Rearm`, since the loop over the engines ends. `IntrPath`: interrupt
  routine and bottom half run, time passes, `poll_routine` runs.
- `E100Tx`: threads in the driver go on, cleaning is called every two seconds (the
  watchdog's software interrupt), the network core's watchdog reports a stopped
  queue, the work gets its lock (strong), the controller works until it hangs.
  `E100Rx`: interrupts that are not masked are served, polling goes on, frames come;
  strong for memory and for the command register, which are to be had again and
  again.
- `S3cMci`: interrupts, tasklet, and a card that answers or is reported. `Cs8900`: the
  interrupt, the rest of a function, the network core's timeout. `UsbSkel`: calls go on,
  URBs end, the mutex is had some time (strong). `KeyButton`, `KeyRing`: the timer and
  readers that were woken.
- `CfsRq`: ticks and a call of `schedule` after a mark; strong for the clock, which tasks
  cannot stop by coming and going. `CfsBandwidth`: timers fire and their handlers end.
- `CfsBalance`: a pass goes on, the stopper and an idle CPU's choice run, an arriving
  task is queued; strong that every domain is balanced, for that is tried at every
  interval. `CfsNohz`: time, ticks of a busy CPU, also late ones, handlers. `CfsNumaScan`:
  time, ticks, turns; strong that somebody gets `mmap_sem`. `CfsNumaMove`: a search goes
  on. Nothing makes a task search.

## 4. Proofs

All obligations (more than 17,000) are proved by `tlapm` with Z3, Zenon and LS4. A
theorem about an MC module holds for every value of the module's constants, not only
for those of its run; the parts it composes do not share variables, so that its step
lemma has one case per part.

**Ring and engine.** `DmaEngineProofs` proves
`IInv == TypeOK /\ GroupsTile /\ TwoBdsStayFree` inductive (`Invariance`), and from
it `TypeCorrect`, `Tiling`, `SpareBds` and, for the property that `dma` checks,
`RingStaysSound`, for any ring size, direction, number of handlers, pool size,
sessions and failures. The parts cannot be separated:

- `GroupsTile` is preserved by `ToHw` and `Alloc` because of the bounds on the
  counts that `TypeOK` gives;
- `TypeOK` of the next ring needs tiling: moving a pointer by a count that is
  not bounded by its group would leave the range, and the packets read from BDs
  need the set to lie in the ring;
- `TwoBdsStayFree` needs tiling, which makes the four counts add up to `AllCnt`:
  what `DmaSendPkt` and `DmaSetupRecvBuffers` leave free is what is not in
  another group.

The step proofs follow the steps' structure: one lemma per group of actions
(`HandlerKeepsInv`, `UserCallKeepsInv`, `UserStartKeepsInv`, `HardwareKeepsInv`),
and under it one step per action. They rest on the lemmas at the
beginning of the module, where every ring operator is shown to keep a ring well-typed
and tiled. `FromHwTiled` holds
whatever the memory contains, so the hardware cannot upset the ring;
`NatLemmas!LeastExists` gives the "first BD not completed" it needs.

**Sequence numbers.** `SeqNosStayConsecutive` is about consecutive BDs of the work
group, and not inductive: a step that queues more needs to know how the new list
goes on from the last BD, also while some of it has been sent and the rest is about
to be taken back. `TxSeqInv` says so with the number expected next (`Expected`): the
number of the first buffer not yet sent, or `TxSeqNo`. An engine that receives
numbers nothing (`RxSeqInv`).

**Who holds what.** `DmaEngineProofs` goes on with `UserWordsComeFirst`, `PacketsStayWhole` and
`HoldersStayAgreed`. Each rests on `IInv` and on an invariant of its own, built in this order:

- `SetInv`: what the places of the user thread and of the handlers say of the state of the engine
  (`PhaseInv`), that between actions no BDs are in pre-work and post-work BDs only while
  `descriptor_free` has let go of `DmaLock` (`GroupInv`), that the list of
  `DmaSetupTransmit` consists of whole packets (`ListInv`);
- `StatusInv`: which flags a status may hold (`MayReport`); the driver only clears it, as a
  whole. `BdDone` waits at the BD that ends a received packet until each user word is there or
  known to be zero, and nothing takes a word away while the BD is in the work group: hence
  `UserInfoArrived`, as a step from the BDs to the packets read from them;
- `GroupWhole`: the work group of a send engine consists of whole packets, so that what is
  taken from its front up to an EOP is whole too: `PacketsWhole`, if no error ends a packet
  early;
- `MemInv`, `WalkInv`: the ring has memory while it has BDs, and from the head of the work group
  the first BDs are completed and the others are not, with `NEXT_BD` between them and
  `SW_NEXT_BD` behind the last;
- `OrderInv`: counted from the pool's `AllocPtr`, the buffers in use lie in the order of their
  return: with the handler, in the work group, on their way back from `descriptor_free`, in
  the list not yet sent (`HeldInOrder`). This is why a pool that frees by count gets back
  what it gave, and what each step that moves buffers has to keep.

`HoldersStayAgreed` assumes `OneHandler`, at most one context that runs `PktHandler`, and
`KeepsItsRing`: the engine is never unregistered, or it is a send engine whose
allocation fails in the first session at most. Without the first, two handlers return their
packets in either order; without the second, it is refuted by the runs `rx_unregister` and
`stale_ring` (section 5). `PacketsStayWhole` and `UserWordsComeFirst` need neither.

`MCDma` takes its receive engine from `DmaEngineProofs`, theorems included: they hold of that
instance, since `RxAlone` shows that the pair behaves, for that engine, as one alone. So
`ReceiverStaysSound`, under the same two hypotheses.

**Packet pools.** `XdmaBaseProofs` proves `NeverRunsEmpty`, `NoPoolLost`, both together
with the types as `ListStaysSound`, and `Implements`. The inductive invariant says
that *some* sequence without repetition lists the free pools from head to tail
along the `next` pointers. The refinement mapping has to name that sequence with
CHOOSE, so the proof shows it is unique (`TheFreeIs`): two lists from the same head
to the same tail agree.

**Beside the engines.** `XdmaBaseProofs`, for any engines, lengths and numbers:

- `InterruptsDoNotStall`: `IntrPath!Inv` with the locals of the interrupt routine, and that an
  engine without errors is only active because a BD was completed (`PathCause`):
  that is why the routine always has something to schedule for what it turns off.
- `RoutinesAreSafe`: what the driver holds at each place of probe and removal
  (`Memory`, `Timers`, `Binding`): an error exit leaves the timers uninitialised, and an
  unloading that reaches such a timer goes no further.
- `TestsAreNumbered`: while the first test runs, the packets prepared go on from those
  sent (`FirstTest`), at each position of `poll_routine`.
- `ReportsAreFair`: a call that is somewhere in its rounds has taken from each engine
  as often as from any other, up to the round it is in (`InTurn`); an engine found
  empty once is left out. It has the hypothesis `[]OneGui`, since two GUIs inside at
  once share the device (section 5); `ReportsAreFairToOne` has none but that there is
  one GUI, as in the run.
- `RingsImplementQueues`: each step of the two indices and the count is a step of a
  queue that drops its oldest sample, or none.

**e100.** `RingsStaySound` reads both rings from `..._to_clean` on: first `p` (or `d`)
complete elements, then those that are queued (or blank) up to `Used` (or `m`), then
the others (`TxRing`, `RxRing`). Where the command unit and the receive unit may be
then follows (`TxCu`, `RxPoll`), and that the last queued CB is the only one with the S
bit, but while the next is being linked in. `InterfaceStaysSound`: the threads keep
each other out with the poll bit and the rtnl lock, so the invariant lists
which rests of which operations may stand next to which (`RtnlPart`, `WorkPart`, `PmPart`),
that line, timer and lists belong together when nobody is inside (`LinePart`), and that an
interface that is down has nothing (`ClosedPart`). An `e100_up` that fails keeps the poll
bit, which bars (`Barred`) the work and every later `e100_down`; only a failed
`e100_io_resume` leaves the bit free (`failed`). Nothing is assumed of what fails.

**Board.** `SuccessIsWholeTransfer` for the MMC host: each word is in a segment, in the FIFO
or has been on the bus (`Flow`), which, with what the tasklet and the interrupt wait
for in each phase (`DataPhase`, `StopPhase`), makes FINALIZE without an error mean that
nothing is left. `InterfaceReceives`: what is left of a function's register accesses says
what the registers hold (`Progs`, `Registers`), unless an interrupt came between two
halves. `LastOneFrees`: the counter of `usb-skeleton` is the number of files in a position that
holds a reference, plus one for the interface, and the places of `limit_sem` are those
free, in flight and being filled; for any set of files, by `CountMoves`, which
follows the cardinality of the files in a set of positions. `ReadsAreKeys` and
`RingMatchesUnread` are about the two key drivers.

**Bandwidth.** `ThrottledAreListed`: `Inv` needs that a queue with tasks has runtime,
is throttled or is about to be (`Paid`): put_prev and the timers throttle or refill a
queue that `ListMatches` alone would let run on without runtime.

**Scheduler.** `CfsProofs` is about `MCCfs`, for any CPUs, domains, capacities, tasks,
loads, nodes, distances, VMAs and bounds. Each part has an inductive invariant of
its own; `PartsKept` says that all of them hold in every behaviour.

- Balancing, `LbInv`: at each place of a pass its two CPUs are of different groups of the
  level it works on (`LbPasses`), which is what keeps `load_balance` from locking one
  runqueue twice; the tasks on their way are those of the lists, each in one (`LbLists`).
  The choice of group and queue is made of sums and maxima over CPUs and groups, so the
  proof shows of each that it has the type the next one needs, divisors included.
- nohz, `NohzInv`: `Inv` itself, with types; one lemma per function that changes the mask,
  the counter or the bits.
- Scan period, `PeriodInv`: between `Floor` and the longest period a process may have.
  That a second of scanning has 14 periods at least (`Floor >= 14`) is what bounds
  the difference `update_task_scan_period` adds, and keeps its sign.
  `RemoteFasterKept` follows from the same lemma (`Updated`).
- Scanner, `ScanInv`: a walk goes on where budget is left, before the end of its VMA.
- NUMA groups, `GroupInv`: a task that joins has found another group (`Joining`), a group that
  waits for the end of a grace period has no reference (`Unused`). What a step adds to a group is
  what its task did not count for before (`Follows`).
- NUMA migration, `MoveInv`: a search holds a reference to the best task it knows and to no
  other, which is not the searcher itself, and a best CPU is one the task may run on.

- Load averages, `LoadAvgInv`: every load is a multiple of a power of two that lasts until
  the clock stops (`Halvable`), so that decay is exact, is additive (`DecSum`), and twice in a row
  is once for longer (`DecTwice`). What a queue's load is now is then the sum of what its
  tasks' loads are now, whenever the queue and each of them were last brought up to date
  (`SumsNow`); a removal that comes late decays less than it should, and only lowers the
  sum. `LoadSafe` draws `Inv` from it.

`BalanceKept`, `LoadKept`, `NumaKept`, `SettleKept` are the conjunctions that the runs check.

**Assumptions**, all named where the constants are declared: `N`, `TotalNum`,
`SeqMod`, `ErrMod` positive; `BdLimit` at least `N - 2` (the code has
`DMA_BD_CNT` for both, and at most `N - 2` BDs are ever in use); fragments
positive; `HwErrors` within the two flags; `NULL` is no buffer and no pool;
`MAX_POOL` exceeds the number of borrowers. The last one is not written down in
the code: there are ten pools, and each context inside `PktHandler`,
`DmaSetupRecvBuffers` or `descriptor_free` borrows one. `StatsAssumption`,
`IntrAssumption`, `RawAssumption`, `RingsAssumption`, `ConfigAssumption`, `LifeAssumption`,
`MciAssumption`, `ChipAssumption`, `SkelAssumption`, `PadAssumption`, `RingAssumption`
and `BandwidthAssumption` give the constants of the other parts their types, and bounds
from the code where a theorem needs one. Of the scheduler: `BalanceAssumption`, the groups
of a level part the CPUs and none is empty, and a capacity is not zero;
`NohzAssumption`, `PeriodAssumption`, `ScanAssumption` (VMAs in the order of their
addresses), `NumaAssumption` and `MoveAssumption`; `LoadAssumption`, a weight is a multiple of
2^`Horizon`, as in the model of decay, together with two facts about powers of two, which are no
assumptions but not known to the provers.

**Only model-checked.** Every liveness property, since fairness and ENABLED are
beyond the prover, as is induction over data. Of the safety properties: `CfsRq!Inv`
and `MigrateInv`, about the runqueues.

## 5. Where the code disagrees with what is written about it

### With a run

- **`stale_ring`** (`EnabledEngineHasRing`). `descriptor_free` leaves `AllCnt` and
  `descSpaceVA` as they were. If memory fails in the next session,
  `Dma_BdRingStart` takes the freed ring for one that has been created and the
  engine is enabled on freed memory (`xdma_bdring.c:233` promises an error).
- **`rx_unregister`** (`UnregisterReturnsAll`). `DmaUnregister` does not wait for a
  handler that has passed its check; that handler returns its packets, or refills
  the ring with fresh buffers, after `descriptor_free` is done. Against
  `include/xdma_user.h:127`.
- **`raw_stop`** (`StopStops`). `poll_routine` tests `TEST_START` before `RawLock` and
  overwrites `RawTestMode` under it; a stop in between is lost and transmission
  goes on.

### Stated in the modules, without a listed run

TLC refutes these with the constants named.

DMA driver:

- `HoldersAgree` on a receive engine that is unregistered (constants of `rx_unregister`):
  the late handler again, which also reads or fills BDs whose memory has been
  released. On a send engine it holds (`life`, `HoldersStayAgreed`), because there a late handler finds
  no completed BD and refills nothing.
- `PoolMatchesHeld` with two handlers (as `life`, one session): in a `TH_BH_ISR` build
  `IntrBH` and `poll_routine` both run `PktHandler`. BDs are freed under `DmaLock`, but their
  buffers go to `UserPutPkt` afterwards, and the second batch may get there first;
  `xrawdata0/sguser.c:241` says buffers must be freed in the order of allocation.
- `AssignedEngineGetsRing`: `xdma_user.c:169` says ring creation will be tried again
  later; nobody does. `FairSpec`, constants of `stale_ring` with `AllocFails = {1}`, one
  session, no unregistering.
- `PacketsWhole` with `HwErrors = {"ERROR"}` (else as `life`): `Dma_BdRingFromHw` resets
  its count of partial BDs at a BD with an error (`xdma_bdring.c:729`), so an error in
  the middle of a packet lets its first half through (comment at 622).
- `ResetStays` (`RawTest`): `sguser.c:1104` takes `TxSeqNo` back without `RawLock`, and may undo
  the reset of a test just started (comment at 925). Constants of `raw_stop`, two starts.
- `GuiShowsTest` (`RawTest`): a generator-only test never sets `TEST_IN_PROGRESS`, and a GUI
  started during one shows no test running (`ConfigGui.c:2191-2193`). Constants of
  `raw_stop` with `Settings = {{"PKTGEN"}}` and `MayReopen`.
- `OneGui` (`StatsDevice`): `xdma_dev_open` tests `UserOpen` before it takes the lock
  (`xdma_base.c:1435`; comment at 1442). Two Guis.
- `ProbeFailsCleanly` (`XdmaLife`, constants of `base`): error exits after the allocation
  free `dmaData` and leave the pointer, which `xdma_cleanup` frees again; a BAR of the
  wrong type leaves the BARs before it mapped.
- `UnloadEnds` without `NeverEnds`: the exits for no memory, a BAR 0 of length zero and a BAR
  of the wrong type return `XST_FAILURE` (`xdma_base.c:1958`, 2022, 2039), which is 1, so that the
  device stays bound and `xdma_remove` runs at unload. It reads through `dmaData`, which is
  null or freed, and then waits in `del_timer_sync` for timers that were never initialised.
  Without a character device the same happens to `stats_timer` alone.

e100 and board:

- `E100Rx` with `RnrRace`: a frame between the ack of RNR and the restart raises RNR
  again, and the next restart is on an RFD that is not blank (`RuOnBlankRfd`; comment at
  `e100.c:1865`).
- `DownFindsAll` without its last two cases (`E100Life`, constants of `e100`): the error handler
  calls `netdev->stop` for every interface (`e100.c:2794`). One that is down has no line, so
  that a line that was never requested is freed; and its poll bit is free only the first
  time, or never again after a close, which leaves it set, so that the handler waits for
  ever. After an `e100_io_resume` whose `e100_open` fails the interface is marked as running
  with nothing but its timer (`failed`), and close frees the line once more.
- `UpFindsNone` without the lists of `e100_resume`: a suspend frees the line but not the lists,
  which resume allocates anew and leaks. A suspend of an interface that is down, too,
  frees a line that was never requested.
- `StoppedQueueWakes` without `dead` (`E100Tx`): nobody looks at the result of the `e100_up` in
  `tx_timeout_task` (`e100.c:2112`). If it fails the queue stays stopped; as the poll bit
  stays set, close and every other `e100_down` wait for ever in `netif_poll_disable`. So
  it is after `set_ringparam`, `diag_test` and resume. The error exits leave the controller
  running on CBs and RFDs that are freed.
- `ChecksumRight` without `stale` and `wrong` (`E100Config`): `set_eeprom` copies to the cache
  before it refuses an offset (`e100.c:2320`), and the next write makes its checksum from
  a cache that the device does not agree with.
- `OnlyFaultsFail` (`S3cMci`): the transfer may end between the tasklet's tests for words
  left and for FINALIZE (`s3cmci.c:325-334`), and the request fails with `MMC_ERR_DMA`
  though nothing went wrong.
- `ModeIsSet` without `~hit` (`Cs8900`): only `cs8900_send_start` turns interrupts off around
  its accesses. In the others the interrupt handler may come between the two halves
  and leave its own address, so that RxOKA or the mode is written elsewhere.
- `NoUseAfterFree` with `AutopmSleeps` (`UsbSkel`): the kernel lock, which is to "prevent skel_open() from racing
  skel_disconnect()" (`usb-skeleton.c:354`), is dropped while
  `usb_autopm_get_interface` sleeps before the reference is taken.

Scheduler:

- `SavedIsRestored` (`CfsRq`, the part `rq` of `cfs_moves`): dequeue_entity advances
  `min_vruntime` in the case its comment (`fair.c:3810`) excludes.
- `MovedIsPreferred` (`CfsNumaMove`, constants of `cfs_settles`): after a search over several
  nodes the one looked at last is remembered as preferred, not the one moved to
  (comment at `fair.c:1784-1790`, code at 1800).

`MinMonotonic` (`CfsRq`) holds with the constants of `cfs_rq` and of `cfs_moves`; it is
no property of a listed run.

### Seen while modelling

Not properties of a module; the models have the code's behaviour unless noted.

- `IntrPath`: an interrupt with nothing but an error turns a send engine's interrupt
  off for good; only `poll_routine` handles it from then on. The loops over the engines
  leave out the last of each direction. `Dma_mEngIntEnable` acknowledges events it has
  not seen.
- `xdma_base.c:720-726`: `poll_stats` updates the TRN ring outside `DmaStatsLock` (comments at
  178 and 662); not modelled.
- `XdmaLife`: a BAR that cannot be mapped is done without, BAR 0 too, through whose null
  address the probe goes on to turn the interrupts off (`xdma_base.c:2053-2070`). `cdev_alloc`'s
  null is written through. `xdma_remove` reads `xdmaCdev->dev` after `cdev_del` has
  released it.
- e100: a ring filled while no CB could be sent never enters the send loop again until
  the reset. `e100_clean_cbs` does not take `cb_lock`; the reset is modelled between two
  calls. `rx_over_length_errors` is added cumulatively. The work is not cancelled
  by close or remove. Taken not to happen: a PCI error while a reset or an operation of user
  space is under way, which frees the line twice; a close before the recovery has ended;
  a removal while the device is suspended or in recovery; a reset that is scheduled in the
  short time in which `e100_up` has woken the queue and not yet given back the poll bit.
- MMC: `dodma` is never set, so that the DMA path is dead. `pio_active` stays READ after
  an unfinished read, and a later interrupt may find no data (`oops`). A read is
  finalized before its CRC status is seen; the CRC interrupt of a response is never
  looked at. Removal does not kill the tasklet (taken not to be scheduled).
- CS8900: `txlen` is assigned after the lock is released from a buffer that was freed. A
  failing probe leaves the region; a failing request_irq leaves the chip enabled;
  cleanup releases the region before it unregisters.
- Keypad: a read that a signal ends returns 1 without a key. A failed open keeps the
  interrupts it got. In the exit the timer may fire between `iounmap` and `del_timer`.
  Keys of two rows give ghosts. Key ring: in `GPFDAT & (1<<0)==0` the comparison
  binds first, so that no key is ever recognised by that test. A ring full of
  unread events looks empty. Two readers can lose a wake-up. A failed open empties
  the ring and keeps the interrupts.
- Bandwidth: throttled queues go to the head of the list, so that with a quota below
  what all owe the tail starves (`ThrottledRuns` with a quota of 3 and a `Debt` of 1: the
  debt of the one takes it all, again and again); two timers may hand out the same runtime; a queue
  is throttled right after a refill that came too late.
- `vruntime_normalized` tests for TASK_WAKING, which is also the state of a task woken
  from another CPU without a migration; left out. So is the end of init: some task
  is left when one exits. Scan period: a failed page
  migration, once counted, makes the early return double the period until the task
  migrates; below 14 the unsigned product wraps (comment about 1919-1922; the run's
  `Floor` is 14). `task_numa_migrate` computes `dist` in its loop from the node before. A
  load that is removed late makes the queue's too small, clamped at zero, never too
  large. Two tasks in the scan can make one pass skip pages, never all passes. Three
  tasks on two CPUs rotate for ever, by design.

## 6. What is not modelled, and why

- **DMA driver**: `DmaFifoEmptyWait` reads a register until it changes and ignores
  whether it did. `Dma_BdRingAlign` is arithmetic on an address. The registration phase
  of the raw data driver (`RawTest` starts after it), so the second `myInit`, which zeroes
  `TxSeqNo`, and the refusals of `mySetState`. The error exit of `DmaRegister` that keeps
  `DmaLock` (`xdma_user.c:183`) needs an engine that does not start. Packet contents,
  lengths beyond zero or not, `SWrate`, the values of samples, the TRN ring, and the
  drawing part of the GUI.
- **e100**: microcode, statistics dump, ethtool settings and diagnostics beyond their
  down and up, MII access. **MMC**: card detection, power modes, DMA. **CS8900**: the
  EEPROM, counters.
- **Scheduler**: task groups below the first level; the choice of a CPU at wakeup
  (`select_task_rq_fair`, `wake_affine`, `find_idlest_*`), which reads without locks and
  changes nothing: `CfsRq` lets a wakeup go anywhere. Balancing intervals, the history
  `cpu_load`, NUMA classes, LBF_NEED_BREAK. Rounding within a period of the load
  averages. `task_numa_migrate`'s interval of retries.
- **fc1553 board driver** (two copies), **LCD**, **frame buffer**, **NAND**, **cirrus**,
  **OHCI glue**, **touch screen**: register programming for one mode or device after the
  other, with little state that outlives a call. **Exercises**: no state.

## 7. Plan

Written in this order: ring, engine and their proofs; packet pools with the refinement
proof; test mode; statistics; interrupt path; probe and removal; e100; the drivers of
the board; the scheduler from the runqueue outwards.

Next, the proofs:

1. `CfsRq!Inv`: arithmetic modulo `W` on the differences of vruntimes.

And of the model: the TRN ring with loads and stores as steps; the registration phase
in `RawTest`; an abstract engine, a queue of packets between user driver and
hardware, implemented by `DmaEngine`.
