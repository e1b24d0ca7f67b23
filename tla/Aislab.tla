-------------------------------- MODULE Aislab --------------------------------
(***************************************************************************)
(* The start of the machine aislab, from the command line to the first     *)
(* instruction of the guest: the board, its device tree, and what boots.   *)
(* The guest knows the board from the tree only, so the two must agree.    *)
(***************************************************************************)
EXTENDS AislabTree

VARIABLE boot   \* what the reset vector jumps to, and what that enters

vars == <<boardVars, treeVars, boot>>

Init == BoardInit /\ TreeInit /\ boot = [start |-> "none", entry |-> "none"]

\* KVM runs no firmware; nor does -bios none.
Firmware == IF Kvm /\ cfg.bios = "default" THEN "none" ELSE cfg.bios

\* Faulty variant: also under KVM, where the kernel runs directly.
FlashFirstAlways == cfg.pflash /\ Firmware = "none"

\* The flash holds what M mode runs.
FlashFirst == cfg.pflash /\ Firmware = "none" /\ ~Kvm

\* aislab_machine_done after the tree: firmware, flash, kernel, reset vector.
Boot ==
  /\ pc = "boot"
  /\ IF Kvm /\ cfg.bios = "file"
     THEN /\ pc' = "exited"
          /\ UNCHANGED boot
     ELSE /\ pc' = "running"
          /\ boot' = [start |-> IF FlashFirst THEN "flash" ELSE "dram",
                      entry |-> IF cfg.pflash /\ ~FlashFirst THEN "flash"
                                ELSE IF cfg.kernel THEN "kernel" ELSE "none"]
  /\ UNCHANGED <<cfg, sock, client, ramSize, irqchip, board, wires, treeVars>>

Step ==
  \/ /\ BoardStep
     /\ UNCHANGED <<treeVars, boot>>
  \/ /\ TreeStep
     /\ UNCHANGED boot
  \/ Boot

Next ==
  \/ Step
  \/ /\ ClientConnects
     /\ UNCHANGED <<treeVars, boot>>

Spec == Init /\ [][Next]_vars

\* QEMU's main thread goes on as long as it can; nobody has to start SystemC.
FairSpec == Spec /\ WF_vars(Step)

-----------------------------------------------------------------------------
TypeOK ==
  /\ cfg \in Configs
  /\ sock \in -1 .. cfg.sockets
  /\ client \in {"none", "awaited", "connected"}
  /\ ramSize \in 1 .. cfg.ram
  /\ phandle \in Nat /\ pos \in 0 .. cfg.cpus
  /\ intc \in [0 .. cfg.cpus - 1 -> Nat]
  /\ xplic \in [Sockets -> Nat]
  /\ \A n \in tree : n.phandle \in Nat

-----------------------------------------------------------------------------
(* The board *)

Overlaps(a, b) == a.base < b.base + b.size /\ b.base < a.base + a.size
Inside(a, b) == b.base <= a.base /\ a.base + a.size <= b.base + b.size

\* The memory of a 32-bit machine is within the limit, which the code applies to
\* machine->ram_size and not to the memory it maps (RamIsLimited below).
RamFits == cfg.width = 32 => cfg.ram <= RAM_LIMIT

\* No two devices answer at one address, with any number of sockets, harts and
\* guests: mmio_bus sits between the platform bus and the interrupt controllers
\* of the first socket without a gap.  The one exception is a 32-bit machine
\* with more than 10 GiB, whose memory may run into the high PCIe window, and
\* into nothing else.  (aislab_memmap and the addresses computed from it.)
RegionsDisjoint ==
  \A r, s \in board : r # s /\ Overlaps(r, s) =>
    ~RamFits /\ {r.dev, s.dev} = {"ram", "pcie_mmio_high"}

\* In the in-kernel irqchip the controllers of all sockets are one.
Real(chip) == IF UseKvmAia THEN <<"aplic_s", 0>> ELSE chip

\* Every line a device is wired to is one the controller has, and its own:
\* mmio_bus has the highest, for which the number of sources was raised.
LinesDistinct ==
  \A w \in wires :
    /\ w.line \in 1 .. AISLAB_IRQCHIP_NUM_SOURCES - 1
    /\ \A x \in wires : x # w => x.line # w.line \/ Real(x.chip) # Real(w.chip)

-----------------------------------------------------------------------------
(* The device tree against the board *)

\* The tree of finalize_fdt is complete.
Finalized == pc \in {"boot", "running"} /\ ~cfg.dtb

StandsFor == [
  memory |-> {"ram"}, flash |-> {"flash"}, clint |-> {"mswi", "mtimer"}, mswi |-> {"mswi"},
  mtimer |-> {"mtimer"}, sswi |-> {"sswi"}, plic |-> {"plic"}, aplic |-> {"aplic_m", "aplic_s"},
  imsic |-> {"imsic_m", "imsic_s"}, virtio |-> {"virtio"},
  pci |-> {"ecam", "pio", "pcie_mmio", "pcie_mmio_high"}, test |-> {"test"},
  serial |-> {"uart"}, rtc |-> {"rtc"}, mmio_bus |-> {"mmio_bus"}, fw_cfg |-> {"fw_cfg"},
  platform_bus |-> {"platform_bus"} ]

Describes(n, r) == \E k \in DOMAIN n.reg : Inside(r, n.reg[k])

\* Wherever the tree says a device is, that device and no other answers; and
\* there is no device (but the boot ROM) the tree does not tell the guest of.
\* This is said of machines whose memory fits: beyond, the tree tells of 10 GiB.
\* (create_fdt_* against aislab_machine_init, each with its own arithmetic.)
NodesDescribeDevices ==
  Finalized /\ RamFits =>
    /\ \A n \in tree : \A k \in DOMAIN n.reg :
         /\ \E r \in board : Overlaps(r, n.reg[k])
         /\ \A r \in board : Overlaps(r, n.reg[k]) =>
              /\ r.dev \in StandsFor[n.kind]
              /\ \/ Inside(r, n.reg[k])
                 \/ r.dev = "ram" /\ Inside(n.reg[k], r)
    /\ \A r \in board : r.dev \notin {"mrom", "ram"} => \E n \in tree : Describes(n, r)

\* The window is where the guest finds it in the tree, where the callbacks of
\* mmio_bus tell SystemC it is, and as long as their region.
WindowAgrees ==
  Finalized =>
    \A n \in tree : n.kind = "mmio_bus" =>
      /\ n.reg = <<At(MMIO_ADDR, MMIO_SIZE)>>
      /\ \E r \in board : r.dev = "mmio_bus" /\ r.base = MMIO_ADDR /\ Inside(n.reg[1], r)

\* The controller a node describes.  What is sent to an APLIC that is another's
\* child comes in at the parent, which delegates it.
EntryOf(q) ==
  IF \E m \in tree : Ref("children", q.phandle) \in m.refs
  THEN CHOOSE m \in tree : Ref("children", q.phandle) \in m.refs ELSE q

DescribesChip(q, chip) ==
  \E r \in board : <<r.dev, r.n>> = chip /\ r.base = EntryOf(q).at

Leads(e, w) ==
  /\ e.line = w.line
  /\ \E q \in tree : /\ q.phandle = e.parent /\ q.cells = e.cells
                     /\ DescribesChip(q, Real(w.chip))

\* The interrupt the tree announces for a device is the one it raises: same
\* line, of the controller it is wired to, in as many cells as that one takes.
\* For PCIe, in every slot and for every pin, after masking and swizzling.
InterruptsArrive ==
  Finalized =>
    /\ \A w \in wires : \E n \in tree :
         /\ \E r \in board : r.dev = w.dev /\ r.n = w.n /\ Describes(n, r)
         /\ IF w.dev # "ecam"
            THEN \E e \in n.irqs : e.out = w.out /\ Leads(e, w)
            ELSE \A slot \in 0 .. 31, pin \in 0 .. GPEX_NUM_IRQS - 1 :
                   (slot + pin) % GPEX_NUM_IRQS = w.out =>
                     \E e \in n.irqs : e.slot = PcieSlotMask(slot) /\ e.out = pin /\ Leads(e, w)
    /\ \A n \in tree : \A e \in n.irqs : \E w \in wires : Leads(e, w)

\* A phandle names one node: those finalize_fdt counts up from 1, also where it
\* draws one for a node it does not make, and those QEMU allocates to devices
\* that were plugged before.
PhandlesUnique ==
  \A n, m \in tree : n.phandle = m.phandle /\ n.phandle # 0 => n = m

RefersTo == [cpu |-> "cpu", regmap |-> "test", children |-> "aplic", msi_parent |-> "imsic",
             iommu_map |-> "iommu"]

\* Every phandle in the tree leads to a node of the kind that is meant, and no
\* path is given to two nodes.
ReferencesResolve ==
  Finalized => \A n \in tree :
    /\ \A ref \in n.refs :
         \E m \in tree : m.phandle = ref.phandle /\ m.kind = RefersTo[ref.prop]
    /\ \A k \in DOMAIN n.ext :
         \E m \in tree : m.phandle = n.ext[k][1] /\ m.kind = "cpu-intc"
    /\ \A m \in tree : m.kind = n.kind /\ m.at = n.at => m = n

\* The hart whose interrupt controller has this phandle; -1 when none has.
HartOf(ph) ==
  LET intcs == { m \in tree : m.phandle = ph /\ m.kind = "cpu-intc" }
  IN  IF intcs = {} THEN -1 ELSE (CHOOSE m \in intcs : TRUE).at

\* Of the interrupts of harts node n lists, those device r drives are the ones
\* r serves, in r's order.
InOrder(n, r) ==
  LET irqs == { r.serves[k][2] : k \in DOMAIN r.serves }
      named == [p \in DOMAIN n.ext |-> <<HartOf(n.ext[p][1]), n.ext[p][2]>>]
      mine == { p \in DOMAIN n.ext : n.ext[p][2] \in irqs }
  IN  /\ { named[p] : p \in mine } = { r.serves[k] : k \in DOMAIN r.serves }
      /\ \A p, q \in mine : p < q =>
           \E j, k \in DOMAIN r.serves : j < k /\ named[p] = r.serves[j] /\ named[q] = r.serves[k]

\* A timer or interrupt controller drives the harts its node lists, in that
\* order, so that the guest programs the context of the hart it means.
\* (The index phandle_pos + cpu into intc_phandles, hartid-base + cpu.)
HartsServed ==
  Finalized =>
    \A r \in board : r.serves # <<>> /\ r.dev \notin {"imsic_m", "imsic_s"} =>
      \E n \in tree : Describes(n, r) /\ InOrder(n, r)

\* Harts in the groups of an IMSIC before group g.
Before(n, g) ==
  LET stride == IMSIC_HART_SIZE(n.bits.guest)
      sum[k \in 0 .. Len(n.reg)] ==
        IF k = 0 THEN 0 ELSE sum[k - 1] + n.reg[k].size \div stride
  IN  sum[g - 1]

\* The k-th hart an IMSIC node lists has its interrupt file at the k-th place
\* of its ranges, and the index bits reach it: an MSI goes to the hart meant.
ImsicFilesFound ==
  Finalized =>
    \A n \in tree : n.kind = "imsic" =>
      LET stride == IMSIC_HART_SIZE(n.bits.guest) IN
      \A g \in DOMAIN n.reg : \A k \in 0 .. (n.reg[g].size \div stride) - 1 :
        LET place == Before(n, g) + k + 1
            cell == n.ext[place]
        IN  /\ place \in DOMAIN n.ext
            /\ \E r \in board : /\ r.dev \in StandsFor["imsic"]
                                /\ r.base = n.reg[g].base + k * stride
                                /\ r.size <= stride
                                /\ r.serves = << <<HartOf(cell[1]), cell[2]>> >>
            /\ Len(n.reg) > 1 => k < BIT(n.bits.hart) /\ g - 1 < BIT(n.bits.group)

-----------------------------------------------------------------------------
(* What boots *)

\* What the user supplied gets control: a flash always, a kernel unless the
\* flash holds what is booted; a flash is entered in S mode only when firmware
\* or KVM is below it, and nothing of M mode runs under KVM.
SuppliedCodeRuns ==
  pc = "running" =>
    /\ cfg.pflash => "flash" \in {boot.start, boot.entry}
    /\ cfg.kernel /\ boot.entry # "kernel" => boot.entry = "flash"
    /\ boot.entry = "flash" => Kvm \/ Firmware # "none"
    /\ Kvm => Firmware = "none" /\ boot.start = "dram"

\* "limit RAM size in a 32-bit system" (aislab.c:1556): the memory of the board
\* is no larger than the limit.
RamIsLimited ==
  \A r \in board : r.dev = "ram" /\ cfg.width = 32 => r.size <= RAM_LIMIT

\* Making the machine comes to an end: QEMU runs, has exited with its complaint,
\* or waits in mmio_bus_realize for a SystemC process to connect, and goes on as
\* soon as one does.  (The loop around vp_wait in mmio_bus_realize.)
StartsWithClient == <>[](pc \in {"running", "exited"} \/ client = "awaited")
=============================================================================
