------------------------------ MODULE AislabTree ------------------------------
(***************************************************************************)
(* The device tree of the machine aislab: create_fdt at the end of         *)
(* aislab_machine_init, virtio-iommu devices plugged after it, and         *)
(* finalize_fdt in aislab_machine_done, one function of aislab.c after     *)
(* the other.  Nodes refer to each other by phandles, drawn from a counter *)
(* that is passed along.                                                   *)
(***************************************************************************)
EXTENDS AislabBoard

VARIABLES
  tree,     \* the nodes
  phandle,  \* the next phandle of finalize_fdt
  pos,      \* phandle_pos
  intc,     \* intc_phandles
  msi,      \* the phandles of the IMSICs: msi_m_phandle, msi_s_phandle
  xplic     \* xplic_phandles

treeVars == <<tree, phandle, pos, intc, msi, xplic>>

\* Properties a node may have; the rest of the tree no property is about.
Node0 == [
  kind    |-> "",    \* what it stands for; with at, its path
  at      |-> 0,
  phandle |-> 0,     \* 0: none
  reg     |-> <<>>,  \* ranges it says it answers in
  ext     |-> <<>>,  \* interrupts-extended: a controller and an irq of it
  irqs    |-> {},    \* interrupt-parent with interrupts, or interrupt-map
  cells   |-> -1,    \* #interrupt-cells of a controller
  refs    |-> {},    \* other properties that name a node
  bits    |-> [guest |-> 0, hart |-> 0, group |-> 0] ]  \* of an IMSIC's addresses

\* An interrupt the node asks for: which of its outputs, and where it goes.
Irq(out, parent, line) ==
  [slot |-> 0, out |-> out, parent |-> parent, line |-> line,
   cells |-> IF cfg.aia = "none" THEN 1 ELSE 2]

\* A property that names the node with this phandle.
Ref(prop, ph) == [prop |-> prop, phandle |-> ph]

TreeInit ==
  /\ tree = {}
  /\ phandle = 1
  /\ pos = 0
  /\ intc = [p \in 0 .. cfg.cpus - 1 |-> 0]
  /\ msi = <<0, 0>>
  /\ xplic = [i \in Sockets |-> 0]

-----------------------------------------------------------------------------
(* create_fdt, and load_device_tree for -dtb *)

PciNode == [Node0 EXCEPT !.kind = "pci", !.at = aislab_memmap.PCIE_ECAM.base]

FlashNode == [Node0 EXCEPT !.kind = "flash", !.at = aislab_memmap.FLASH.base,
                           !.reg = <<FlashHalf(0), FlashHalf(1)>>]

FwCfgNode == [Node0 EXCEPT !.kind = "fw_cfg", !.at = aislab_memmap.FW_CFG.base,
                           !.reg = <<aislab_memmap.FW_CFG>>]

PmuNode == [Node0 EXCEPT !.kind = "pmu"]

\* The tree of a user is left alone; of its nodes, the one of the PCI host
\* may matter.
CreateFdt ==
  /\ pc = "tree"
  /\ pc' = "plug"
  /\ tree' = IF cfg.dtb THEN {PciNode} ELSE {PciNode, FlashNode, FwCfgNode, PmuNode}
  /\ UNCHANGED <<cfg, sock, client, ramSize, irqchip, board, wires, phandle, pos, intc, msi, xplic>>

\* qemu_fdt_alloc_phandle counts from here.
ALLOC_PHANDLE == 32768

\* Faulty variant: the phandle of the IOMMU comes from the counter of finalize_fdt.
PlugIommuCounted ==
  /\ pc = "plug"
  /\ ~\E n \in tree : n.kind = "iommu"
  /\ tree' = (tree \ {PciNode})
       \cup { [PciNode EXCEPT !.refs = {Ref("iommu_map", phandle)}],
              [Node0 EXCEPT !.kind = "iommu", !.phandle = phandle] }
  /\ UNCHANGED <<boardVars, phandle, pos, intc, msi, xplic>>

\* aislab_machine_device_plug_cb for a virtio-iommu of the command line.
PlugIommu ==
  /\ pc = "plug"
  /\ ~\E n \in tree : n.kind = "iommu"
  /\ tree' = (tree \ {PciNode})
       \cup { [PciNode EXCEPT !.refs = {Ref("iommu_map", ALLOC_PHANDLE)}],
              [Node0 EXCEPT !.kind = "iommu", !.phandle = ALLOC_PHANDLE] }
  /\ UNCHANGED <<boardVars, phandle, pos, intc, msi, xplic>>

-----------------------------------------------------------------------------
(* create_fdt_sockets: harts, memory and timers of each socket *)

Count == HartCount(sock)

\* create_fdt_socket_cpus counts down: hart k of the socket gets these.
CpuPhandle(k) == phandle + 2 * (Count - 1 - k)
IntcPhandle(k) == CpuPhandle(k) + 1

CpuNodes ==
  LET first == FirstHartid(sock) IN
  UNION { { [Node0 EXCEPT !.kind = "cpu", !.at = first + k, !.phandle = CpuPhandle(k)],
            [Node0 EXCEPT !.kind = "cpu-intc", !.at = first + k, !.phandle = IntcPhandle(k),
                          !.cells = 1],
            [Node0 EXCEPT !.kind = "core", !.at = first + k,
                          !.refs = {Ref("cpu", CpuPhandle(k))}] } : k \in 0 .. Count - 1 }

\* -numa gives each socket its share of what -m asks for.
SocketMemory ==
  IF cfg.sockets = 1 THEN At(aislab_memmap.DRAM.base, ramSize)
  ELSE Nth(At(aislab_memmap.DRAM.base, cfg.ram \div cfg.sockets), sock)

MemoryNode ==
  [Node0 EXCEPT !.kind = "memory", !.at = SocketMemory.base, !.reg = <<SocketMemory>>]

\* For each hart of the socket, its intc with the irqs of the sequence.
Cells(phandles, count, irqs) ==
  [k \in 1 .. count * Len(irqs) |->
     <<phandles[(k - 1) \div Len(irqs)], irqs[((k - 1) % Len(irqs)) + 1]>>]

\* Faulty variant: every socket is given the array from its start.
IntcFromStart(p, phandles) == [k \in 0 .. cfg.cpus - 1 - p |-> phandles[k]]

\* intc_phandles from position p on, counted from 0.
IntcFrom(p, phandles) == [k \in 0 .. cfg.cpus - 1 - p |-> phandles[p + k]]

ClintNode(ph) ==
  LET clint == Nth(aislab_memmap.CLINT, sock) IN
  [Node0 EXCEPT !.kind = "clint", !.at = clint.base, !.reg = <<clint>>,
                !.ext = Cells(ph, Count, <<"M_SOFT", "M_TIMER">>)]

\* Faulty variant: the mtimer of each socket a CLINT apart, as without IMSIC.
MtimerOfClint ==
  LET clint == Nth(aislab_memmap.CLINT, sock) IN
  IF Imsic THEN At(clint.base, RISCV_ACLINT_DEFAULT_MTIMER_SIZE)
  ELSE At(clint.base + RISCV_ACLINT_SWI_SIZE, clint.size - RISCV_ACLINT_SWI_SIZE)

\* The two ranges of an mtimer, mtime and mtimecmp, are neighbours: one here.
Mtimer ==
  LET clint == Nth(aislab_memmap.CLINT, sock) IN
  IF Imsic THEN At(aislab_memmap.CLINT.base + RISCV_ACLINT_DEFAULT_MTIMER_SIZE * sock,
                   RISCV_ACLINT_DEFAULT_MTIMER_SIZE)
  ELSE At(clint.base + RISCV_ACLINT_SWI_SIZE, clint.size - RISCV_ACLINT_SWI_SIZE)

AclintNodes(ph) ==
  LET clint == Nth(aislab_memmap.CLINT, sock)
      sswi == Nth(aislab_memmap.ACLINT_SSWI, sock)
      node(kind, at, irq) == [Node0 EXCEPT !.kind = kind, !.at = at.base, !.reg = <<at>>,
                                           !.ext = Cells(ph, Count, <<irq>>)]
  IN  { node("mtimer", Mtimer, "M_TIMER") }
      \cup (IF Imsic THEN {}
            ELSE { node("mswi", At(clint.base, RISCV_ACLINT_SWI_SIZE), "M_SOFT"),
                   node("sswi", sswi, "S_SOFT") })

TimerNodes(ph) ==
  IF HaveAclint THEN AclintNodes(ph) ELSE IF Tcg THEN {ClintNode(ph)} ELSE {}

\* aislab_machine_done calls finalize_fdt, unless the user gave a tree.
Finalize ==
  /\ pc = "plug"
  /\ pc' = IF cfg.dtb THEN "boot" ELSE "fdt_sockets"
  /\ sock' = cfg.sockets - 1
  /\ pos' = cfg.cpus
  /\ UNCHANGED <<cfg, client, ramSize, irqchip, board, wires, tree, phandle, intc, msi, xplic>>

FdtSocket ==
  /\ pc = "fdt_sockets" /\ sock >= 0
  /\ pos' = pos - Count
  /\ intc' = [p \in DOMAIN intc |->
                IF p \in pos' .. pos' + Count - 1 THEN IntcPhandle(p - pos') ELSE intc[p]]
  /\ tree' = tree \cup CpuNodes \cup {MemoryNode} \cup TimerNodes(IntcFrom(pos', intc'))
  /\ phandle' = phandle + 2 * Count
  /\ sock' = sock - 1
  /\ UNCHANGED <<cfg, pc, client, ramSize, irqchip, board, wires, msi, xplic>>

-----------------------------------------------------------------------------
(* create_fdt_sockets: the interrupt controllers *)

\* The largest socket, for hart-index-bits.
MaxHarts == CHOOSE m \in {HartCount(i) : i \in Sockets} : \A i \in Sockets : HartCount(i) <= m

ImsicNode(entry, irq, ph, guestBits) ==
  [Node0 EXCEPT
     !.kind = "imsic", !.at = entry.base, !.phandle = ph,
     !.cells = FDT_IMSIC_INT_CELLS,
     !.ext = Cells(intc, cfg.cpus, <<irq>>),
     !.reg = [g \in 1 .. cfg.sockets |->
                At(entry.base + (g - 1) * AISLAB_IMSIC_GROUP_MAX_SIZE,
                   IMSIC_HART_SIZE(guestBits) * HartCount(g - 1))],
     !.bits = [guest |-> guestBits,
               hart  |-> IF cfg.sockets > 1 THEN aislab_imsic_num_bits(MaxHarts) ELSE 0,
               group |-> IF cfg.sockets > 1 THEN aislab_imsic_num_bits(cfg.sockets) ELSE 0]]

\* Faulty variant: as if a hart had no file of its own.
GuestBitsOnly == aislab_imsic_num_bits(cfg.guests)

GuestBits == aislab_imsic_num_bits(cfg.guests + 1)

\* Leaves the loop over the sockets; under IMSIC, both phandles are drawn,
\* also where no M-level node is made.
FdtImsic ==
  /\ pc = "fdt_sockets" /\ sock < 0
  /\ pc' = "fdt_xplic"
  /\ sock' = IF UseKvmAia THEN 0 ELSE cfg.sockets - 1
  /\ pos' = IF UseKvmAia THEN 0 ELSE cfg.cpus
  /\ IF Imsic
     THEN /\ msi' = <<phandle, phandle + 1>>
          /\ phandle' = phandle + 2
          /\ tree' = tree
               \cup (IF Kvm THEN {} ELSE {ImsicNode(aislab_memmap.IMSIC_M, "M_EXT", msi'[1], 0)})
               \cup {ImsicNode(aislab_memmap.IMSIC_S, "S_EXT", msi'[2], GuestBits)}
     ELSE UNCHANGED <<msi, phandle, tree>>
  /\ UNCHANGED <<cfg, client, ramSize, irqchip, board, wires, intc, xplic>>

\* platform_bus_add_all_fdt_nodes, called with the controller of socket 0.
PlatformBusNode(parent) ==
  IF sock # 0 THEN {}
  ELSE { [Node0 EXCEPT !.kind = "platform_bus", !.at = aislab_memmap.PLATFORM_BUS.base,
                       !.reg = <<aislab_memmap.PLATFORM_BUS>>,
                       !.irqs = { Irq(n, parent, AISLAB_PLATFORM_BUS_IRQ + n) :
                                    n \in 0 .. AISLAB_PLATFORM_BUS_NUM_IRQS - 1 }] }

PlicNode(ph, phandles) ==
  LET plic == Nth(aislab_memmap.PLIC, sock) IN
  [Node0 EXCEPT !.kind = "plic", !.at = plic.base, !.reg = <<plic>>, !.phandle = ph,
                !.cells = FDT_PLIC_INT_CELLS,
                !.ext = Cells(phandles, Count,
                              IF Kvm THEN <<"S_EXT">> ELSE <<"M_EXT", "S_EXT">>)]

\* child is 0 for the S level.
AplicNode(entry, irq, msiParent, ph, child, phandles, harts) ==
  LET at == Nth(entry, sock) IN
  [Node0 EXCEPT !.kind = "aplic", !.at = at.base, !.reg = <<at>>, !.phandle = ph,
                !.cells = FDT_APLIC_INT_CELLS,
                !.ext = IF Imsic THEN <<>> ELSE Cells(phandles, harts, <<irq>>),
                !.refs = (IF Imsic THEN {Ref("msi_parent", msiParent)} ELSE {})
                         \cup (IF child = 0 THEN {} ELSE {Ref("children", child)})]

\* Both phandles are drawn, the M level has a node only without KVM.
AplicNodes(phandles, harts) ==
  (IF Kvm THEN {}
   ELSE {AplicNode(aislab_memmap.APLIC_M, "M_EXT", msi[1], phandle, phandle + 1, phandles, harts)})
  \cup {AplicNode(aislab_memmap.APLIC_S, "S_EXT", msi[2], phandle + 1, 0, phandles, harts)}

\* KVM AIA has one APLIC for all harts, otherwise each socket has its own.
FdtXplic ==
  /\ pc = "fdt_xplic" /\ sock >= 0
  /\ pos' = IF UseKvmAia THEN pos ELSE pos - Count
  /\ IF cfg.aia = "none"
     THEN /\ tree' = tree \cup {PlicNode(phandle, IntcFrom(pos', intc))}
                          \cup PlatformBusNode(phandle)
          /\ xplic' = [xplic EXCEPT ![sock] = phandle]
          /\ phandle' = phandle + 1
     ELSE /\ tree' = tree
               \cup AplicNodes(IntcFrom(pos', intc), IF UseKvmAia THEN cfg.cpus ELSE Count)
               \cup PlatformBusNode(phandle + 1)
          /\ xplic' = [xplic EXCEPT ![sock] = phandle + 1]
          /\ phandle' = phandle + 2
  /\ sock' = sock - 1
  /\ UNCHANGED <<cfg, pc, client, ramSize, irqchip, board, wires, intc, msi>>

\* Faulty variant: the devices of all kinds at the controller of socket 0.
IrqPhandleFirst(d) == xplic[0]

\* The controller for devices of kind d: the one of the preferred socket, or
\* of the last there is.
IrqPhandle(d) ==
  xplic[ IF UseKvmAia THEN 0
         ELSE IF PreferredSocket(d) \in Sockets THEN PreferredSocket(d) ELSE cfg.sockets - 1 ]

\* Faulty variant: the IMSIC of M level.
MsiPcieM == msi[1]

\* msi_pcie_phandle
MsiPcie == msi[2]

FdtSocketsEnd ==
  /\ pc = "fdt_xplic" /\ sock < 0
  /\ pc' = "fdt_virtio"
  /\ UNCHANGED <<cfg, sock, client, ramSize, irqchip, board, wires, treeVars>>

-----------------------------------------------------------------------------
(* The rest of finalize_fdt *)

\* A function that adds nodes.
Fdt(from, to, nodes) ==
  /\ pc = from
  /\ pc' = to
  /\ tree' = tree \cup nodes
  /\ UNCHANGED <<cfg, sock, client, ramSize, irqchip, board, wires, pos, intc, msi, xplic>>

DeviceNode(kind, at, d, line) ==
  [Node0 EXCEPT !.kind = kind, !.at = at.base, !.reg = <<at>>,
                !.irqs = {Irq(0, IrqPhandle(d), line)}]

FdtVirtio ==
  /\ Fdt("fdt_virtio", "fdt_pcie",
         { DeviceNode("virtio", Nth(aislab_memmap.VIRTIO, n), "virtio", VIRTIO_IRQ + n) :
             n \in 0 .. VIRTIO_COUNT - 1 })
  /\ UNCHANGED phandle

\* create_pcie_irq_map: an entry for four slots and four pins; the mask lets
\* the table stand for every slot.
PcieIrqMap ==
  { [Irq(pin, IrqPhandle("pcie"), PCIE_IRQ + ((pin + slot) % GPEX_NUM_IRQS))
       EXCEPT !.slot = slot] :
      slot \in 0 .. GPEX_NUM_IRQS - 1, pin \in 0 .. GPEX_NUM_IRQS - 1 }

PcieSlotMask(slot) == slot % 4

\* Completes the node create_fdt made; reg and ranges are one sequence here.
FdtPcie ==
  /\ pc = "fdt_pcie"
  /\ pc' = "fdt_reset"
  /\ tree' = { IF n.kind = "pci"
               THEN [n EXCEPT !.reg = <<aislab_memmap.PCIE_ECAM, aislab_memmap.PCIE_PIO,
                                        aislab_memmap.PCIE_MMIO, aislab_high_pcie_memmap>>,
                              !.irqs = PcieIrqMap,
                              !.refs = @ \cup (IF Imsic THEN {Ref("msi_parent", MsiPcie)} ELSE {})]
               ELSE n : n \in tree }
  /\ UNCHANGED <<cfg, sock, client, ramSize, irqchip, board, wires, phandle, pos, intc, msi, xplic>>

FdtReset ==
  /\ Fdt("fdt_reset", "fdt_uart",
         { [Node0 EXCEPT !.kind = "test", !.at = aislab_memmap.TEST.base,
                         !.reg = <<aislab_memmap.TEST>>, !.phandle = phandle],
           [Node0 EXCEPT !.kind = "reboot", !.refs = {Ref("regmap", phandle)}],
           [Node0 EXCEPT !.kind = "poweroff", !.refs = {Ref("regmap", phandle)}] })
  /\ phandle' = phandle + 1

FdtUart ==
  /\ Fdt("fdt_uart", "fdt_rtc", {DeviceNode("serial", aislab_memmap.UART0, "mmio", UART0_IRQ)})
  /\ UNCHANGED phandle

FdtRtc ==
  /\ Fdt("fdt_rtc", "fdt_mmio_bus", {DeviceNode("rtc", aislab_memmap.RTC, "mmio", RTC_IRQ)})
  /\ UNCHANGED phandle

\* Faulty variant: the entry of the platform bus.
FdtMmioBusPlatform ==
  /\ Fdt("fdt_mmio_bus", "boot",
         {DeviceNode("mmio_bus", aislab_memmap.PLATFORM_BUS, "mmio", MMIO_BUS_IRQ)})
  /\ UNCHANGED phandle

FdtMmioBus ==
  /\ Fdt("fdt_mmio_bus", "boot",
         {DeviceNode("mmio_bus", aislab_memmap.MMIO_BUS, "mmio", MMIO_BUS_IRQ)})
  /\ UNCHANGED phandle

TreeStep ==
  \/ CreateFdt \/ PlugIommu \/ Finalize \/ FdtSocket \/ FdtImsic \/ FdtXplic \/ FdtSocketsEnd
  \/ FdtVirtio \/ FdtPcie \/ FdtReset \/ FdtUart \/ FdtRtc \/ FdtMmioBus
=============================================================================
