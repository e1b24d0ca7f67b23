----------------------------- MODULE AislabBoard -----------------------------
(***************************************************************************)
(* aislab_machine_init: how the machine aislab is put together from what   *)
(* the command line asks for.  QEMU runs it once, before the guest; on its *)
(* way, in the realize of mmio_bus, it waits for a SystemC process.        *)
(*                                                                         *)
(* A CPU is named by its hartid, 0 .. cpus - 1; -numa spreads the harts    *)
(* over sockets in any way it likes.  The devices of QEMU the machine is   *)
(* made of appear as the regions of the address space they answer in, the  *)
(* lines they are wired to and the harts they interrupt.                   *)
(***************************************************************************)
EXTENDS AislabMap, FiniteSets, Sequences

\* What the setters of the machine's properties let through.
AiaTypes == {"none", "aplic", "aplic-imsic"}
GuestNumbers == 0 .. AISLAB_IRQCHIP_MAX_GUESTS

\* The command lines.
CONSTANT Configs

ASSUME ConfigAssumption ==
  \A c \in Configs :
    /\ c.width \in {32, 64}
    /\ c.accel \in {"tcg", "kvm", "qtest"}
    /\ c.irqchipInKernel => c.accel = "kvm"
    /\ c.aclint \in BOOLEAN
    /\ c.aia \in AiaTypes
    /\ c.guests \in GuestNumbers
    /\ c.cpus \in 1 .. AISLAB_CPUS_MAX
    /\ c.sockets \in Nat \ {0}
    /\ c.node \in [0 .. c.cpus - 1 -> 0 .. c.sockets - 1]
    /\ c.ram \in Nat \ {0}
    /\ {c.dtb, c.pflash, c.kernel} \subseteq BOOLEAN
    /\ c.bios \in {"default", "none", "file"}

VARIABLES
  cfg,       \* the command line
  pc,        \* what QEMU does next
  sock,      \* the socket its loop is at
  client,    \* the SystemC process: none can connect, awaited, or connected
  ramSize,   \* machine->ram_size
  irqchip,   \* mmio_irqchip, virtio_irqchip and pcie_irqchip
  board,     \* the regions of the address space
  wires      \* the interrupt lines

boardVars == <<cfg, pc, sock, client, ramSize, irqchip, board, wires>>

\* serves: the interrupts of harts the device drives, in its order.
Region(dev, n, at, serves) ==
  [dev |-> dev, n |-> n, base |-> at.base, size |-> at.size, serves |-> serves]
Plain(dev, at) == Region(dev, 0, at, <<>>)

\* Entry of a map that repeats itself.
Nth(entry, n) == At(entry.base + n * entry.size, entry.size)

\* Output out of device n of its kind drives a line of a controller.
Wire(dev, n, out, chip, line) ==
  [dev |-> dev, n |-> n, out |-> out, chip |-> chip, line |-> line]

NoChip == <<"none", 0>>

BoardInit ==
  /\ cfg \in Configs
  /\ pc = "checks"
  /\ sock = 0
  /\ client = "none"
  /\ ramSize = cfg.ram
  /\ irqchip = [d \in {"mmio", "virtio", "pcie"} |-> NoChip]
  /\ board = {}
  /\ wires = {}

-----------------------------------------------------------------------------
(* The command line *)

Kvm == cfg.accel = "kvm"
Tcg == cfg.accel = "tcg"
UseKvmAia == cfg.irqchipInKernel /\ cfg.aia = "aplic-imsic"
AclintAllowed == cfg.accel \in {"tcg", "qtest"}
HaveAclint == AclintAllowed /\ cfg.aclint
Imsic == cfg.aia = "aplic-imsic"
Sockets == 0 .. cfg.sockets - 1

Harts(i) == { h \in 0 .. cfg.cpus - 1 : cfg.node[h] = i }
HartCount(i) == Cardinality(Harts(i))
FirstHartid(i) == CHOOSE h \in Harts(i) : \A g \in Harts(i) : h <= g

\* riscv_socket_check_hartids, and that the socket has a first hart.
SocketHasHartids(i) ==
  /\ Harts(i) # {}
  /\ \A h \in Harts(i), g \in Harts(i) : h .. g \subseteq Harts(i)

\* Harts first, first + 1, ... of a device, one entry each.
Drives(first, count, irq) == [k \in 1 .. count |-> <<first + k - 1, irq>>]

-----------------------------------------------------------------------------
(* One socket *)

\* CLINT, or the parts of ACLINT.
TimerRegions(i) ==
  LET clint == Nth(aislab_memmap.CLINT, i)
      first == FirstHartid(i)
      count == HartCount(i)
      mtimer(base) == Region("mtimer", i, At(base, RISCV_ACLINT_DEFAULT_MTIMER_SIZE),
                             Drives(first, count, "M_TIMER"))
      mswi == Region("mswi", i, At(clint.base, RISCV_ACLINT_SWI_SIZE),
                     Drives(first, count, "M_SOFT"))
      sswi == Region("sswi", i, At(Nth(aislab_memmap.ACLINT_SSWI, i).base, RISCV_ACLINT_SWI_SIZE),
                     Drives(first, count, "S_SOFT"))
  IN  CASE HaveAclint /\ Imsic ->
             { mtimer(aislab_memmap.CLINT.base + i * RISCV_ACLINT_DEFAULT_MTIMER_SIZE) }
        [] HaveAclint /\ ~Imsic ->
             { mswi, mtimer(clint.base + RISCV_ACLINT_SWI_SIZE), sswi }
        [] ~HaveAclint /\ Tcg ->
             { mswi, mtimer(clint.base + RISCV_ACLINT_SWI_SIZE) }
        [] OTHER -> {}

\* A PLIC has one context per hart and mode: M and S, under KVM only S.
PlicRegions(i) ==
  LET first == FirstHartid(i) IN
  { Region("plic", i, Nth(aislab_memmap.PLIC, i),
           IF Kvm THEN Drives(first, HartCount(i), "S_EXT")
           ELSE [k \in 1 .. 2 * HartCount(i) |->
                   <<first + (k - 1) \div 2, IF k % 2 = 1 THEN "M_EXT" ELSE "S_EXT">>]) }

\* The files of the harts of a socket.
ImsicRegions(i, dev, entry, irq, guests) ==
  LET stride == IMSIC_HART_SIZE(aislab_imsic_num_bits(guests + 1))
      group == entry.base + i * AISLAB_IMSIC_GROUP_MAX_SIZE
      first == FirstHartid(i)
  IN  { Region(dev, h, At(group + (h - first) * stride, (guests + 1) * IMSIC_PAGE),
               << <<h, irq>> >>) : h \in Harts(i) }

\* An APLIC drives harts unless it sends its interrupts to an IMSIC.
AplicRegion(i, dev, entry, irq) ==
  Region(dev, i, Nth(entry, i),
         IF Imsic THEN <<>> ELSE Drives(FirstHartid(i), HartCount(i), irq))

\* With the irqchip of KVM, QEMU's APLIC and IMSIC devices answer nowhere.
AiaRegions(i) ==
  IF UseKvmAia THEN {}
  ELSE  (IF Imsic /\ ~Kvm
         THEN ImsicRegions(i, "imsic_m", aislab_memmap.IMSIC_M, "M_EXT", 0) ELSE {})
   \cup (IF Imsic
         THEN ImsicRegions(i, "imsic_s", aislab_memmap.IMSIC_S, "S_EXT", cfg.guests) ELSE {})
   \cup (IF Kvm THEN {} ELSE { AplicRegion(i, "aplic_m", aislab_memmap.APLIC_M, "M_EXT") })
   \cup { AplicRegion(i, "aplic_s", aislab_memmap.APLIC_S, "S_EXT") }

\* kvm_riscv_aia_create: one APLIC, and the files of all harts.
KvmAiaRegions ==
  { AplicRegion(0, "aplic_s", aislab_memmap.APLIC_S, "S_EXT") }
  \cup UNION { ImsicRegions(i, "imsic_s", aislab_memmap.IMSIC_S, "S_EXT", cfg.guests) :
                 i \in Sockets }

\* The controller other devices are wired to.
Chip(i) == << CASE cfg.aia = "none" -> "plic"
                [] cfg.aia # "none" /\ Kvm -> "aplic_s"
                [] OTHER -> "aplic_m", i >>

\* Devices of a kind are wired to the controller of this socket, or the last.
PreferredSocket(d) == CASE d = "mmio" -> 0 [] d = "virtio" -> 1 [] d = "pcie" -> 2

-----------------------------------------------------------------------------
(* aislab_machine_init *)

InitChecks ==
  /\ pc = "checks"
  /\ pc' = IF AISLAB_SOCKETS_MAX < cfg.sockets \/ (~AclintAllowed /\ cfg.aclint)
           THEN "exited" ELSE "sockets"
  /\ UNCHANGED <<cfg, sock, client, ramSize, irqchip, board, wires>>

InitSocket ==
  /\ pc = "sockets" /\ sock \in Sockets
  /\ IF ~SocketHasHartids(sock)
     THEN /\ pc' = "exited"
          /\ UNCHANGED <<sock, irqchip, board>>
     ELSE /\ board' = board \cup TimerRegions(sock)
                            \cup (IF cfg.aia = "none" THEN PlicRegions(sock) ELSE AiaRegions(sock))
          /\ irqchip' = [d \in DOMAIN irqchip |->
                           IF sock <= PreferredSocket(d) THEN Chip(sock) ELSE irqchip[d]]
          /\ sock' = sock + 1
          /\ UNCHANGED pc
  /\ UNCHANGED <<cfg, client, ramSize, wires>>

\* A step of the rest, which only adds devices.
Build(from, to, regions, lines) ==
  /\ pc = from
  /\ pc' = to
  /\ board' = board \cup regions
  /\ wires' = wires \cup lines
  /\ UNCHANGED <<cfg, sock, client, irqchip>>

RAM_LIMIT == 10 * GiB

\* Faulty variant: every 32-bit machine gets 10 GiB.
InitAiaNoTest ==
  /\ sock = cfg.sockets
  /\ Build("sockets", "memory", IF UseKvmAia THEN KvmAiaRegions ELSE {}, {})
  /\ ramSize' = IF cfg.width = 32 THEN RAM_LIMIT ELSE ramSize

InitAia ==
  /\ sock = cfg.sockets
  /\ Build("sockets", "memory", IF UseKvmAia THEN KvmAiaRegions ELSE {}, {})
  /\ ramSize' = IF cfg.width = 32 /\ ramSize > RAM_LIMIT THEN RAM_LIMIT ELSE ramSize

RoundUp(x, unit) == ((x + unit - 1) \div unit) * unit

aislab_high_pcie_memmap ==
  IF cfg.width = 32 THEN AISLAB32_HIGH_PCIE_MMIO
  ELSE At(RoundUp(aislab_memmap.DRAM.base + ramSize, AISLAB64_HIGH_PCIE_MMIO_SIZE),
          AISLAB64_HIGH_PCIE_MMIO_SIZE)

\* machine->ram was made as large as the command line asks for.
MapMemory ==
  /\ Build("memory", "virtio",
           { Plain("ram", At(aislab_memmap.DRAM.base, cfg.ram)),
             Plain("mrom", aislab_memmap.MROM),
             Plain("fw_cfg", aislab_memmap.FW_CFG),
             Plain("test", aislab_memmap.TEST) }, {})
  /\ UNCHANGED ramSize

CreateVirtio ==
  /\ Build("virtio", "pcie",
           { Region("virtio", n, Nth(aislab_memmap.VIRTIO, n), <<>>) :
               n \in 0 .. VIRTIO_COUNT - 1 },
           { Wire("virtio", n, 0, irqchip["virtio"], VIRTIO_IRQ + n) :
               n \in 0 .. VIRTIO_COUNT - 1 })
  /\ UNCHANGED ramSize

GpexPcieInit ==
  /\ Build("pcie", "platform",
           { Plain("ecam", aislab_memmap.PCIE_ECAM),
             Plain("pcie_mmio", aislab_memmap.PCIE_MMIO),
             Plain("pcie_mmio_high", aislab_high_pcie_memmap),
             Plain("pio", aislab_memmap.PCIE_PIO) },
           { Wire("ecam", 0, pin, irqchip["pcie"], PCIE_IRQ + pin) :
               pin \in 0 .. GPEX_NUM_IRQS - 1 })
  /\ UNCHANGED ramSize

CreatePlatformBus ==
  /\ Build("platform", "serial",
           { Plain("platform_bus", aislab_memmap.PLATFORM_BUS) },
           { Wire("platform_bus", 0, n, irqchip["mmio"], AISLAB_PLATFORM_BUS_IRQ + n) :
               n \in 0 .. AISLAB_PLATFORM_BUS_NUM_IRQS - 1 })
  /\ UNCHANGED ramSize

CreateSerialAndRtc ==
  /\ Build("serial", "mmio_bus",
           { Plain("uart", aislab_memmap.UART0), Plain("rtc", aislab_memmap.RTC) },
           { Wire("uart", 0, 0, irqchip["mmio"], UART0_IRQ),
             Wire("rtc", 0, 0, irqchip["mmio"], RTC_IRQ) })
  /\ UNCHANGED ramSize

\* mmio_bus_realize makes the listening socket.
ListenMmioBus ==
  /\ pc = "mmio_bus" /\ client = "none"
  /\ client' = "awaited"
  /\ UNCHANGED <<cfg, pc, sock, ramSize, irqchip, board, wires>>

\* The create_vpipc_client of a SystemC process; before the socket is there,
\* its connect() fails and it exits.
ClientConnects ==
  /\ client = "awaited"
  /\ client' = "connected"
  /\ UNCHANGED <<cfg, pc, sock, ramSize, irqchip, board, wires>>

\* Faulty variant: the loop waits while there is a client.
CreateMmioBusReversed ==
  /\ client = "awaited"
  /\ Build("mmio_bus", "flash",
           { Plain("mmio_bus", At(aislab_memmap.MMIO_BUS.base, MMIO_SIZE)) },
           { Wire("mmio_bus", 0, 0, irqchip["mmio"], MMIO_BUS_IRQ) })
  /\ UNCHANGED ramSize

\* sysbus_create_simple realizes the device, which waits for its client.
CreateMmioBus ==
  /\ client = "connected"
  /\ Build("mmio_bus", "flash",
           { Plain("mmio_bus", At(aislab_memmap.MMIO_BUS.base, MMIO_SIZE)) },
           { Wire("mmio_bus", 0, 0, irqchip["mmio"], MMIO_BUS_IRQ) })
  /\ UNCHANGED ramSize

FlashHalf(n) == Nth(At(aislab_memmap.FLASH.base, aislab_memmap.FLASH.size \div 2), n)

MapFlash ==
  /\ Build("flash", "tree", { Region("flash", n, FlashHalf(n), <<>>) : n \in {0, 1} }, {})
  /\ UNCHANGED ramSize

BoardStep ==
  \/ InitChecks \/ InitSocket \/ InitAia \/ MapMemory \/ CreateVirtio \/ GpexPcieInit
  \/ CreatePlatformBus \/ CreateSerialAndRtc \/ ListenMmioBus \/ CreateMmioBus \/ MapFlash
=============================================================================
