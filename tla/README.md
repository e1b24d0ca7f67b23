# The AISLAB QEMU–SystemC co-simulator in TLA+

The repository joins two processes. **QEMU** boots Linux on an emulated RISC-V
board; a region of its physical address space, the *MMIO bus window*
(0x6000000, 96 MB), is a device called `mmio_bus`. A **SystemC** process
contains the hardware behind that window. The device forwards each access of
the guest to SystemC over a TCP socket, with 32-byte messages of a protocol
called VPIPC, and waits for the answer; SystemC may in turn write and read
guest memory and raise the device's interrupt. The board itself, a machine type
called `aislab`, is put together and described to Linux in a device tree by
`aislab.c`. This directory holds the TLA+ model of that machinery, its
model-checking runs, and proofs.

## 1. Inventory

| part | source | state | operations | hard about it |
|---|---|---|---|---|
| vpipc | `Customized/QEMU/vpipc/vpipc.[ch]`, equal up to one line to `VPsystemC/vpipc/vpipc.cpp` and `Customized/systemc/vpipc/vpipc.cpp` | a listening socket, one `sock_fd`, an epoll instance | `create_vp_module`, `vp_wait`, `vp_nb_response`, `vp_b_transfer`, `client_is_connect`, `cleanup_vp_module` | edge-triggered descriptors read once per event; `sock_fd` overwritten by every new client and never reset by the server; the result of `recv` ignored in one place and fatal in another |
| mmio_bus | `Customized/QEMU/mmio_bus/mmio_bus.[ch]` | `vpm`, `mutex`, `cond`, the interrupt line | `mmio_bus_realize`, `mmio_bus_read`, `mmio_bus_write`, `tcp_thread_func` | two kinds of thread use one socket under `dev->mutex`, inside or outside QEMU's big lock |
| QEMU_CPU | `VPsystemC/QEMU_CPU/QEMU_CPU.hpp`, an older copy without DMA under `Customized/systemc` | `vpm`, `vpt`, `vpt_resp` | `thread_process`, `tlm_read`, `tlm_write`, and under `-DDMA` `b_transport` | coroutines: `thread_process` gives way only in the target's `wait(delay)`; `b_transport` uses its socket |
| Memory | `VPsystemC/demo/test_mmio/target.h` | `mem[SIZE]` | `b_transport`, `transport_dbg`, `get_direct_mem_ptr`, `invalidation_process` | word indexing, partial words, bounds |
| adder | `Customized/QEMU/adder/adder.[ch]` | `id`, `init`, `status`, `vpm` | `adder_read`, `adder_write`, `tcp_thread_func` | `vpm` used before it exists; not installed, and cannot be built (section 6) |
| aislab machine | `Customized/QEMU/riscv/aislab.[ch]` | the address space, the interrupt lines and their controllers, the device tree with its counter of phandles, what boots | `aislab_machine_init`, `create_fdt`, the plugging of a virtio-iommu, `finalize_fdt` with the `create_fdt_*` family, `aislab_machine_done` | each device is placed, wired and described by different functions with arithmetic of their own; `mmio_bus` was added to the tables of QEMU's `virt` board |
| scripts | `startup.sh`, `setup_aislab_soc.sh`, … | files | get, build, copy | guards that look for the wrong file |
| guest demos, configuration | `VPqemu/shared/demo`, `config`, `Dockerfile` | – | – | – |

How they interact:

```
 guest --load/store--> mmio_bus_read/write --vp_b_transfer--> [socket] --vp_wait--> thread_process --> Memory
                        (vCPU, BQL, mutex) <-----recv--------          <--vp_nb_response--
                       tcp_thread_func  <------vp_wait------ [socket] <--vp_b_transfer-- b_transport (DMA)
                        (mutex; BQL for IRQ) ---vp_nb_response-->

 aislab_machine_init --creates, maps, wires--> mmio_bus (waits in realize until SystemC connects)
 aislab_machine_done --device tree--> guest: where the window is, which interrupt it raises
```

What makes each part correct:

* vpipc: no message is lost, taken by the wrong reader or left unread; a
  connection whose peer is gone is noticed and is not used any more.
* mmio_bus: an access gets the answer to *its* request, or fails; it always
  returns; the two threads never block each other for ever; no crash of SystemC
  takes QEMU with it; a batch has no more requests than connections are open.
* QEMU_CPU: each request is carried out once and answered; a request of the
  SystemC side gets its own answer; the process ends when QEMU does.
* Memory: a read returns what was written last to the same bytes.
* machine: no two devices overlap, no two share an interrupt line, the device
  tree describes exactly what was put together, and what the user supplied boots.

`PROJECT.json` lists the hazards line by line with the properties that cover
them, and says of those nothing covers why.

## 2. Modules

| module | models | built from |
|---|---|---|
| `VpSocket` | the messages of VPIPC, TCP connections between QEMU and each client, epoll | – |
| `MmioBus` | the QEMU process: device, callbacks, `tcp_thread`, the server side of vpipc | extends `VpSocket` |
| `QemuCpu` | the SystemC processes: `thread_process`, DMA initiators, the client side of vpipc | extends `VpSocket` |
| `AtomicMmio` | the abstract specification: accesses carried out one at a time, at most once | – |
| `CoSim` | the composition, fairness, all properties, the refinement mapping | `MmioBus`, `QemuCpu`, instance of `AtomicMmio` |
| `MCCoSim` | constants of the runs | extends `CoSim` |
| `CoSimProofs` | theorems about `CoSim` | extends `CoSim`, `TLAPS`, theorem modules of the library |
| `CoSimAtomic` | the proof that `CoSim` implements `AtomicMmio` | extends `CoSimProofs` |
| `CoSimInitiators` | theorems about the requests of the SystemC side | extends `CoSimProofs` |
| `ByteMemory` | the abstract specification of a memory of bytes | – |
| `Tlm` | addresses, lengths and bytes of the transactions at the target and at QEMU_CPU's own `b_transport` | instance of `ByteMemory` |
| `MCTlm` | constants of its runs | extends `Tlm` |
| `TlmProofs` | theorems about `Tlm` | extends `Tlm`, `TLAPS` |
| `AislabMap` | memory map, interrupt numbers and sizes of the machine | – |
| `AislabBoard` | `aislab_machine_init`: the devices, where they answer, what they are wired to | extends `AislabMap` |
| `AislabTree` | the device tree: `create_fdt`, plugging, `finalize_fdt` | extends `AislabBoard` |
| `Aislab` | the whole start of the machine, what boots, all its properties | extends `AislabTree` |
| `MCAislab` | the command lines of its runs | extends `Aislab` |
| `AislabProofs` | theorems about the board, the boot and the phandles | extends `Aislab`, `TLAPS`, theorem modules of the library |
| `AislabNodeProofs` | the theorems about the types of the machine and the references between nodes | extends `AislabProofs` |
| `AislabMatchProofs` | the theorems that the device tree describes the board: ranges, window and interrupts | extends `AislabNodeProofs` |
| `AislabHartProofs` | the theorems that the harts it lists are those the devices drive | extends `AislabMatchProofs` |

`CoSim` and `Tlm` are two views of the same path. `CoSim` has every order of
messages and failures, and a word as one value; `Tlm` has bytes,
address arithmetic and response codes, and one request at a time. What `CoSim`
proves, that an access gets the answer to its own request, justifies that `Tlm` lets a
request and its answer be one step. `Aislab` comes before both: it ends where the guest
begins to run, and shows that the guest finds the window of `CoSim` and `Tlm` in the tree.

### State and code

* `toSrv[c]`, `toCli[c]` are the two directions of the connection of client
  `c`; `cliEnd[c]`, `srvEnd[c]` its two ends. A descriptor of the server is named by the client it leads to.
  An end that is closed with unread input is `"reset"`: the peer's
  next `recv` fails instead of returning 0, and only the first one does
  (`"broken"`). Which of the two a `recv` returns decides between the two
  branches of `vp_wait`, one of which exits, so the model tells them apart.
* `edge[c]` says that EPOLLET has something to report. It is set by arrivals,
  by the end of the peer and by `EPOLL_CTL_ADD`, and dropped by `epoll_wait`.
* `pc[v]`, `req`, `on` are a vCPU inside `mmio_bus_read` or `mmio_bus_write`:
  before the mutex, or in `recv` after the send. One vCPU at a time is in a callback since
  QEMU calls them under its big lock (`bql`), so the local variables need no
  index. `last` is what the latest callback returned and how its transfer ended.
* `tcp`, `evs`, `pend` are the place of `tcp_thread` in its round: in the
  condition wait, about to call `epoll_wait`, or working on a batch; the events of
  the batch it has still to look at; the requests in `vpt[]` it has still to serve.
* `main[c]`, `cur[c]` are `thread_process` of client `c` and the answer in its hands; `asked[c]` is
  the request whose `vp_b_transfer` the whole process is blocked in.

* In `Tlm`, `mem` is `mem[SIZE]` of the target with a word as four bytes, lowest first; `guest`
  is what is left of the access under way, since QEMU's memory core gives a
  callback at most four bytes; `last` is the latest request with the bytes written or
  read; `dma` is the address and the response of the latest transaction of an initiator.
  `sysc` is `"aborted"` after `SC_REPORT_ERROR`, which throws, and `"stuck"` when the
  initiator's request led QEMU into the device's own window, where
  `tcp_thread` waits for the mutex it holds (`ServeWindow` in `MmioBus`).

* In `Aislab`, `cfg` is the command line (accelerator, interrupt controller, sockets and the
  hart of each, memory, firmware, flash, kernel, tree) and never changes. `pc` is the function
  QEMU is in, `sock` the socket its loop is at. `board` is the set of regions of the address
  space, each with its device and the interrupts of harts that device drives; `wires` says which
  output of which device goes to which line of which controller. `irqchip` are the three
  controllers chosen on the way. `tree` is the set of nodes, `phandle` the counter of `finalize_fdt`, and
  `pos`, `intc`, `msi`, `xplic` are the locals of `create_fdt_sockets` (`phandle_pos`, `intc_phandles`,
  the phandles of the two IMSICs, `xplic_phandles`). `boot` is what the reset vector jumps to and
  what that enters. One action is one function, or one round of a loop over the sockets.

One action stands for what a thread does between two points where another thread
or process can see or change something it uses: the acquisition of a lock, `epoll_wait`, one `recv`, one `send`. Thus
`TransferSend` is the lock, the copy of `sock_fd` and the send; `TransferRecv`
is the `recv`, the unlock, the check and the return; each event of a batch and each request of `vpt[]` is a
step of its own.

Uninitialised values are chosen freely: the `resp` of `vp_b_transfer` after a
failed `recv`, and the fields of `vpt_resp` that a branch does not assign.
Operators with the comment "Faulty variant" are versions of an
action with a bug. No specification uses them; they exist so that each property
can be seen to fail when the code is wrong.

### Abstractions

* A message is sent and received whole (32 bytes on a loopback connection). The
  branch for a short read is therefore not modelled.
* A descriptor number is not given to another client after `close`. In the code it may be: a stale
  `sock_fd` can then lead to the next client, which by then has also replaced `sock_fd`.
* `accept` may take any waiting client, the kernel takes the oldest.
* A status is distinct from a length: the two share a word, and no request has length 0.
* `value` in `tcp_thread_func` is one word; what its upper bytes hold after a
  short read of guest memory is not modelled.
* A SystemC process is started once per client name; a restarted simulation is another client.
  QEMU may be restarted any number of times.
* `thread_running` is never cleared and `mmio_bus_clr_irq` never called, so neither appears.
* System calls other than `recv`, `send` and `connect` do not fail.

Of the machine:

* Addresses and sizes are in units of 256 bytes, the greatest that divides all but those of `fw_cfg`, which is rounded up.
* A device is what it shows of itself: regions, lines, harts. Devices of QEMU (PLIC, APLIC, IMSIC, ACLINT,
  the in-kernel irqchip, the platform bus) are modelled from the arguments `aislab.c` gives them and are
  marked external in the map.
* Of a node, only the properties that name an address, an interrupt or another node are kept. The
  two neighbouring ranges of an mtimer are one; `reg` and `ranges` of the PCI node are one
  sequence. APLIC nodes have no `#address-cells`, which Linux takes as 0.
* `-numa` may spread harts in any way, and gives each socket the same share of the memory.
* Only a SystemC process that connects counts as a client: one that comes before `mmio_bus_realize` listens fails and exits, and
  changes nothing. One that connected stays; what happens when it goes is the subject of `CoSim`.
* Under KVM the guest starts in the kernel; the jump of the reset vector is then not used.

## 3. Runs

The `tlm` runs use module `MCTlm`, `aislab` and `ram_limit` use `MCAislab`, all others `MCCoSim`. `MAX_EVENTS` is 10 as in `vpipc.h`; it bounds
no run, since there are at most two clients and a listener.

| run | instance | checks |
|---|---|---|
| `mmio` | 2 clients, 2 vCPUs, 1 address, 2 values, no requests of the SystemC side | `TypeOK`, `IInv`, `OnlyRequestsArePended`, `NoErrorTraffic`, `QemuSurvives`, `EdgeNotLost`, `RepliesAnswerRequests`, `ImplementsAtomicMmio` |
| `mmio_live` | 2 clients, 1 vCPU, 1 value, with fairness | `MmioReturns`, `DisconnectIsNoticed`, `ClientIsAccepted`, `ClientStops` |
| `dma` | 2 clients that make all kinds of requests of their own, no vCPU, with fairness | `DialogueInv`, `BatchFits`, `EdgeNotLost`, `InitiatorsAreAnswered`, `InitiatorReturns` |
| `tlm` | window of 8 bytes, accesses of 4 and 8 bytes, 6 transactions of initiators | `TypeOK`, `NoErrorResponse`, `ImplementsByteMemory` |
| `aislab` | 704 command lines, with fairness | `TypeOK`, `RegionsDisjoint`, `LinesDistinct`, `NodesDescribeDevices`, `WindowAgrees`, `InterruptsArrive`, `PhandlesUnique`, `ReferencesResolve`, `HartsServed`, `ImsicFilesFound`, `SuppliedCodeRuns`, `StartsWithClient` |
| `stale_fd`, `unread_reply`, `dma_crosstalk`, `irq_lock_up`, `tlm_bytes`, `tlm_dma_dram`, `ram_limit` | see section 5 | one property each, violated |

Why the bounds are enough. Two clients are needed for a second connection to replace the
first in the middle of an access; two vCPUs for one to wait for the big
lock; two values tell a stale word from a fresh one; one address is
enough because every word is treated alike and no property relates two words.
Crashes, ends and restarts of either side are not bounded: each client can start
and die once, QEMU any number of times. In `dma` two clients are enough to put two requests
into one batch and to leave a stale field of one answer in the next. `BatchFits` says
that a batch has at most as many requests as connections are open, so the array `vpt` of three is
long enough exactly as long as no more than three are open at once, whoever has come and gone. Nothing in the code
sees to that: with a fourth, one call of `vp_wait` can write past the array. In the runs two are open at most; for more
it is proved (`BatchesFit`).

In `dma` there is no vCPU. Together with accesses of the guest, requests of the
SystemC side go wrong (section 5); this run shows that on their own
they go right. The clients of `dma` and `irq_lock_up` make them between two requests of QEMU (`InitiatorAt = {"wait"}`). They
stand for any program written on vpipc, whose protocol has requests in this direction; the repository has no such
program. The example in `doc/VPIPC.md` only answers, and `QEMU_CPU` cannot ask there: its initiators run
only while it is in the target (`{"tlm"}`), which needs an access of the guest to be under way, and that is the run
`dma_crosstalk`. It never raises an interrupt either. So `dma` and `irq_lock_up` are about what `mmio_bus` does with
requests it has code for, not about the demo.

The addresses of `Tlm` are scaled: the window at 0x6000000 of 0x6000000 bytes
becomes 8 bytes at address 8, `SIZE` 0x6000000 becomes 8 words (in both, address, size and `SIZE` are
one number), and guest memory at 0x80000000 becomes 172..175, above four times the end of the window as in the machine.
A byte is 0 or 1, and what is written has at most one byte that is 1: it can be seen at
which address each byte arrives. The window has two words, so that an access of eight bytes is split
and a byte can land in the wrong word. `MCPayloads` has a word index in the window, one just after it,
one in guest memory, and each kind of refusal. Deadlock is not checked in `tlm`: an
initiator whose word index is in the window stops SystemC for good.

The command lines of `aislab` are `Boards`, every combination of accelerator (TCG, qtest, KVM with and without
its irqchip), `aclint`, interrupt controller (PLIC, APLIC, APLIC with IMSIC for no guests and for two) and
topology; and `Boots`, every combination of 32 and 64 bit, accelerator, little or much memory, own tree, flash,
firmware and kernel; and `LargeMemory`, 32-bit machines with 16 GiB, for which `RegionsDisjoint` allows the one clash the
code does not prevent (`ram_limit`) and no other. The nine topologies have one, two and four sockets, which are all cases of the choice of
controllers for three kinds of devices; equal and unequal sockets in both orders, which tell the offsets
into `intc_phandles` from each other; and three that are refused (a gap in the hartids,
a socket without harts, too many sockets). Two guests make the number of files of a hart, three, differ from
the power of two they take. The run has 18,716 distinct states, and in every one that completes a tree each node is compared with
each device. Where a property depends on more than that, it is
proved for all numbers (section 4). `ram_limit` has the command lines of `LargeMemory` alone. Deadlock is not checked: a machine that
runs or has exited is done.

`ImplementsByteMemory` says that for the guest the window implements `ByteMemory`: the map from the
addresses of the window to bytes changes only by writes of consecutive bytes at the
request's address, and a read gives the bytes stored there.

`ImplementsAtomicMmio` says that the co-simulation implements `AtomicMmio`: the
words of the SystemC processes change only by accesses carried out one at a time, each at most
once, and a call that received a reply was carried out exactly once between its call
and its return and returns the word read at that moment. An access that gets no reply (crash, kill,
stale descriptor) may still be carried out, also after its callback has returned.

### Fairness

`FairSpec` assumes:

* weak fairness of what a thread can do without a lock: the `recv` of a callback,
  the steps of `tcp_thread` inside its round, `mmio_bus_realize`, the loop of `thread_process`. The
  operating system schedules runnable threads, and a poll that finds nothing is repeated.
* strong fairness of the three acquisitions that compete for a lock.
  `tcp_thread` gives `dev->mutex` up in every round for the 10 ms of
  `qemu_cond_timedwait`, far longer than a waiting callback needs to take it, and
  a callback gives it up when it returns; the big lock is passed around between QEMU's threads.
* nothing of starting, ending, crashing, or accessing the device.

In `Aislab`, `FairSpec` assumes weak fairness of QEMU's own steps, one thread that nothing but the missing
client holds up, and nothing of the client: `StartsWithClient` says that QEMU in the end runs, or has exited with
its complaint, or listens and nobody connects.

## 4. Proofs

`CoSimProofs` proves, for any sets of vCPUs, clients, addresses and values and any
`MAX_EVENTS`:

| theorem | statement | needs |
|---|---|---|
| `TypeCorrect` | `Spec => []TypeOK` | the assumptions on constants in `VpSocket`, `MmioBus`, `QemuCpu` |
| `Invariant` | `Spec => []IInv` | also `Initiations = {}` |
| `RepliesCorrect` | `Spec => RepliesAnswerRequests` | also `Initiations = {}` |
| `NoTheft` | `Spec => [](OnlyRequestsArePended /\ NoErrorTraffic)` | also `Initiations = {}` |
| `Survival` | `Spec => []QemuSurvives` | also `Initiations = {}` |
| `EdgesKept` | `Spec => []EdgeNotLost` | also `Initiations = {}` |
| `BatchesCorrect` | `Spec => []OneRequestEach` | – |
| `BatchesFit` | `Spec => []BatchFits` | `Clients` finite |
| `AccessesAreAtomic` (in `CoSimAtomic`) | `Spec => ImplementsAtomicMmio` | `Initiations = {}` |
| `Dialogue` (in `CoSimInitiators`) | `Spec => []DialogueInv` | `Vcpus = {}` |
| `InitiatorsCorrect` (in `CoSimInitiators`) | `Spec => InitiatorsAreAnswered` | `Vcpus = {}` |
| `EdgesKeptForInitiators` (in `CoSimInitiators`) | `Spec => []EdgeNotLost` | `Vcpus = {}` |

`Initiations = {}` is a build without `-DDMA`, the one the Makefile and the README produce by default.
With initiators the statements are false (`dma_crosstalk`). For the same reason the three theorems about initiators
exclude accesses of the guest: with `Vcpus = {}` the requests of SystemC are the only traffic.

The argument. None of the properties is inductive: whether `recv` in a callback gets the right message
depends on what everybody else may have put into or taken from the socket before.
`IInv` says where the only message of a connection can be:

* `LockInv`: a vCPU in `recv` holds the mutex, so `tcp_thread` is in its
  condition wait and its batch is over.
* `LinkInv`, `LifeInv`: a callback uses a client that was once accepted; the state of a
  process and of its end of the connection agree.
* `TalkInv`: while a callback is in `recv` on client `c`, its request is
  at exactly one place, and each place determines the others
  (`Talking`): on its way in `toCli[c]`, in the hands of `thread_process` as an answer `cur[c]`
  that fits, on its way back in `toSrv[c]`, or gone with the process. On
  every other connection nothing is under way (`Silent`). So `vp_wait` in
  `tcp_thread` finds no message at all, and only ends of file.
* a reset with its error still to be reported exists only on the connection of the call, so the
  callback's `recv` collects it and the fatal branch of `vp_wait` is not reached: this is `QemuSurvives`.

The lemmas follow that order: types of each group of actions, `QemuLocks`,
`QemuLinks`/`ClientLinks`, `LifeStep`, then `TalkQemu`/`TalkClient` with one step per
action, then `EdgeQemu`/`EdgeClient`; `InvInit` and `InvStep` combine
them. `RepliesCorrect` reads the property off `Talking` in the state before `TransferRecv`.

`BatchesCorrect` does not need `IInv`: its invariant `BatchInv` says that the events still to be looked at
and the requests already taken belong to different clients, since a descriptor is reported once per
`epoll_wait` and read once per event. With it, and since a request in a batch is that of an open connection, the requests of
a batch are mapped one to one into the open connections, which is `BatchesFit`.

`CoSimAtomic` proves the refinement. What `AtomicMmio` calls `order`, `call` and `result` are computed from
the sockets, `thread_process` and the callback (`Orders`, `TheCall`, `TheResult` in `CoSim`).
Besides `IInv` it needs `OrderInv`: at most one request is before a process, and a call on a
descriptor that is no longer open leads to a dead process; without it a send on a stale descriptor could put a second request
before a process. There is one lemma for each thing that can happen: the send is `Issue` (`SendStep`), the `recv` of an
answer is `Return` (`RecvStep`), a call that ends without one gives up (`GiveUpStep`), the target's transport is `CarryOut`
(`CarryOutStep`), the end of a process is `Lose` (`DieStep`), and all else stutters
(`ReplyStep`, `NoCallStep`, `ClientLeaves`).

`CoSimInitiators` goes the other way round: with no accesses of the guest, the request of a SystemC process that waits in
`vp_b_transfer` is at exactly one place (`OnePlace`, `AskedInv`): in `toSrv[c]`, in `vpt[]` of a batch `tcp_thread` works on, or answered
in `toCli[c]`. It needs `BatchInv`, since `tcp_thread` must not serve a client twice in a batch.

`TlmProofs` proves, for any values that satisfy `TlmAssumption` (the window starts at a multiple of
eight and lies within `mem`):

| theorem | statement | needs |
|---|---|---|
| `TlmTypeCorrect` | `Spec => []TypeOK` | – |
| `NeverRefused` | `Spec => []NoErrorResponse` | – |
| `WordsAreBytes` | `Spec => ImplementsByteMemory` | `GuestSizes \subseteq {4, 8}` |

The invariant is `TypeOK`, `NoErrorResponse` and `GuestInv`: what is left of an access is aligned to its
own size, has as many bytes and ends in the window. Without it nothing bounds the word index of the
next request (`RequestFits`). For `WordsAreBytes` it is joined by `WholeWords`; the core is
`WordBytes`, that `a + i` with `a` a multiple of four and `i` in `0..3` is byte `i` of word `a \div 4`, from which a `memcpy` into a
word is a write of consecutive addresses (`RequestIsAccess`). With accesses of one or
two bytes the statement is false (`tlm_bytes`).

The proof modules of `Aislab` prove, for any set of command lines that satisfies `ConfigAssumption` (what the option parser lets through), so
for any number of harts up to 512, sockets, guests per hart up to 7, spread of harts and memory:

| theorem | statement | needs |
|---|---|---|
| `BoardDisjoint` | `Spec => []RegionsDisjoint` | – |
| `LinesKept` | `Spec => []LinesDistinct` | – |
| `SuppliedCodeIsRun` | `Spec => []SuppliedCodeRuns` | – |
| `PhandlesDistinct` | `Spec => []PhandlesUnique` | – |
| `MachineTypes` (in `AislabNodeProofs`) | `Spec => []TypeOK` | – |
| `ReferencesLead` (in `AislabNodeProofs`) | `Spec => []ReferencesResolve` | the lower bound on memory |
| `TreeDescribesBoard` (in `AislabMatchProofs`) | `Spec => []NodesDescribeDevices` | the lower bound on memory |
| `WindowIsOne` (in `AislabMatchProofs`) | `Spec => []WindowAgrees` | both bounds on memory |
| `EveryInterruptArrives` (in `AislabMatchProofs`) | `Spec => []InterruptsArrive` | both bounds on memory |
| `HartsAreServed` (in `AislabHartProofs`) | `Spec => []HartsServed` | both bounds on memory |
| `ImsicFilesAreFound` (in `AislabHartProofs`) | `Spec => []ImsicFilesFound` | both bounds on memory |

The two bounds: at least four units of 256 bytes (`AISLAB_SOCKETS_MAX <= c.ram`), so that no socket is left without memory, which
excludes nothing, since QEMU rounds `-m` up to 8 KiB; and, on 32-bit machines, at most 10 GiB. `NodesDescribeDevices` itself
speaks only of machines whose memory is within that limit (`RamFits`), and so needs no upper bound as a hypothesis.

For `BoardDisjoint` the board is shown to be, at all times, part of `WholeBoard`, which holds what any machine with four sockets
may have under this command line. Each kind of device has a slot of the map, slots of different kinds are apart
(`SlotsApart`; the PLIC and the APLICs share one, and no machine has both), each device is in
its slot, and devices of one kind are apart within it. The hard case is the IMSIC: the files of the harts of a socket are apart by a
power of two that is at least the number of files, and 512 harts with eight files each just fill the group of a socket
(`ImsicsApart`). The memory of a 32-bit machine beyond the limit, which the code does not enforce
(`ram_limit`), can only meet the high PCIe window (`RamMeetsPcie`); `RegionsDisjoint` excepts this pair, and the proof shows that it is
the only one.
For `LinesKept` the wires are part of `AllWires` once the controllers are chosen.
For `PhandlesDistinct` the invariant has two halves: every phandle in the tree is below the counter or the one QEMU
allocated, and the counter is at most `Limit`, which depends on the function QEMU is in and is never above 4108, while
QEMU allocates from 32768. Each function of `finalize_fdt` then has a lemma that it gives out only what lies between the
counter it got and the one it returns, each once.

`AislabNodeProofs` needs what is in the variables between the functions. `PosInv`: `phandle_pos` is the number
of harts in the sockets up to `sock`, so it starts at the number of CPUs and ends at 0, and the slices of `intc_phandles`
that sockets use are apart. `LinksInv`: at each function, which entries of `intc_phandles` and which of the two IMSIC
phandles lead to nodes that are made. `PathsInv`: the kind of a node tells which function made it (`KindRank`), and, if that
was a loop, its address tells for which socket, which the loop is past (`Stands`); so no function can meet a path it did not make itself.
`CheckedInv`: every socket has passed `riscv_socket_check_hartids`. Without the last two, two nodes of a loop could
get one path; the lower bound on memory keeps the memory nodes of two sockets apart.

`AislabMatchProofs` makes "the tree describes the board" provable by saying exactly what both are at any time.
`BuiltInv`: `board` and `wires` are the union of what the functions that are over add (`Adds`, `SocketRegions`, `Wired`),
and `irqchip` holds the controllers of the sockets so far. `ViewsInv`: what the nodes announce is the union
of what the functions and rounds that are over make known (`Tells`, `SocketViews`, `ChipViews`). `WindowInv`: the node of the
window, once it is there, says where it is. `ChipsInv`: of each socket that the loop is past, the node of its interrupt
controller is in the tree, and if APLICs delegate, exactly the APLIC of M level of the same socket has it as child. What is left is arithmetic on
the finished machine (`Ready`), kind by kind: each range of the tree is met by the device it stands for
(`ExactFits`, `TimersFit`, `ImsicsFit`, `MemoryFits`) and by no device of another slot (`SlotOwner`). For the
IMSICs the range of a node is that of the files of a socket and of all it could have, and the next socket begins after it. For
`EveryInterruptArrives`, `ChipDescribed` finds the controller a phandle leads to, through the child of an APLIC if there is one
(`PhandlesDistinct` makes the parent unique), and `PcieAnnounced` that four slots of four pins stand for all 32.

`AislabHartProofs` adds `HartsInv`, about the lists of harts, which neither `ViewsInv` nor `LinksInv` sees. The loops run from
the last socket to the first. Of each socket that `create_fdt_sockets` is past, the phandle at place `j` of its slice of
`intc_phandles` is that of its `j`-th hart, and its timer nodes list these harts in order (`SocketListed`). Of each that the loop over
the interrupt controllers is past, so do the PLIC or the APLICs (`ChipListers`), and an IMSIC node lists all harts, those of a socket after those of the
sockets before it (`ImsicNodeListed`). A socket can only keep what it has because the slices are apart (`PosInv`, `PlacesGrow`), and
the second loop can only rely on the first because that one has filled the whole array.
On the finished machine there are two things to do. For `HartsAreServed`, a device may drive its harts with all the interrupts its
node names or with one of two (a CLINT is one node and two devices), so the places of the node are mapped to the lines of the
device without changing their order (`Matches`): all of them (`InOrderSame`) or every second one (`InOrderHalf`). For
`ImsicFilesAreFound`, the sum a driver forms over the ranges before a socket is the number of
harts in the sockets before it (`PlacesBefore`); with at most four ranges the sum is unrolled (`OneSum`) and needs no induction. That `aislab_imsic_num_bits`
gives enough index bits for the largest socket is `EnoughBits` and `LargestSocket`.

Every invariant, action property and refinement that a passing run checks is stated by one of these theorems, under what
the tables say it needs. Only model-checked are:

* the liveness properties of `CoSim` and `StartsWithClient`: they depend on fairness, that is on ENABLED, which
  TLAPS does not reason about here;
* the seven disagreements of section 5, each a counterexample of one small instance.

## 5. Where code and documentation disagree

| run | says | does |
|---|---|---|
| `stale_fd` | `vpipc.h:104` "check if client is connect" | after `vp_wait` has closed a dead client's descriptor, `client_is_connect` says yes, until another client connects |
| `unread_reply` | `mmio_bus.c:108` "check recv type and status" | `vp_b_transfer` ignores a failed `recv` and returns an uninitialised local; the check may pass |
| `dma_crosstalk` | `README.md:159` QEMU_CPU supports DMA | a DMA request during a guest access is read by the callback as its answer |
| `irq_lock_up` | `README.md:9` VPIPC supports IRQ | `tcp_thread` takes the big lock under `dev->mutex`, the callbacks the mutex under the big lock: both wait for ever |
| `tlm_bytes` | `target.h:16` "a simple memory" | the target takes the word at `address / 4` and copies from its start: a byte read at address 11 is byte 0 of its word, not byte 3 |
| `tlm_dma_dram` | `README.md:159` "support DMA for systemC to access QEMU DRAM" | the range check compares a word index with the window's byte addresses: addresses of guest memory are refused, and what passes is sent to the device's own window |
| `ram_limit` | `aislab.c:1556` "limit RAM size in a 32-bit system" | only `machine->ram_size` is limited; `machine->ram` is mapped as large as it was asked for, over the high PCIe window |

## 6. Not modelled

* The adder device. Its installation is commented out (`setup_aislab_soc.sh:20-24`), and it cannot be built: `adder.c`,
  `adder.h` and `meson.build` need `vpipc_pipe.h` and `vpipc_pipe.c`, which the repository does not contain. What its
  transfers do is therefore unknown.
* The data `b_transport` of QEMU_CPU returns to an initiator that reads (it copies from the request): no transaction reaches guest memory,
  so there is nothing to compare them with. `transport_dbg` and the direct memory interface of the target with
  `invalidation_process`: no initiator of the repository uses them.
* The scheduler of SystemC and simulated time. In the model `thread_process` runs whenever it can; in the program it
  polls without waiting and gives way only inside the target's `wait(delay)`. The only other process of the sources is
  `invalidation_process`.
* Messages as bytes, and the branch of `vp_wait` for a short read: a message of 32 bytes sent with
  one call over the loopback arrives whole.
* Of the machine: devices plugged into the platform bus, the ACPI and SMBIOS tables, the contents of the `pmu` node, properties of
  cpu nodes that say what a hart can do, the NUMA distance matrix, where firmware, kernel and tree are loaded in
  memory, and the tree of a user (`-dtb`), which the code leaves alone.
* The scripts that fetch, build and copy: sequential, run once by hand.
* Kernel, buildroot, Docker and QEMU configuration (data, no behaviour), and the guest
  demos, which are part of the environment: the models let the guest access the window at any time.
