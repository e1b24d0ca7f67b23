------------------------- MODULE AislabMatchProofs -------------------------
(***************************************************************************)
(* The device tree of the machine aislab against its board: exactly which  *)
(* devices aislab_machine_init makes and what each is wired to, exactly    *)
(* which ranges and interrupts the nodes of finalize_fdt announce, and     *)
(* that the one describes the other.                                       *)
(***************************************************************************)
EXTENDS AislabNodeProofs

-----------------------------------------------------------------------------
(* The board, exactly *)

SocketRegions(i) ==
  TimerRegions(i) \cup (IF cfg.aia = "none" THEN PlicRegions(i) ELSE AiaRegions(i))

BoardStages == {"sockets", "memory", "virtio", "pcie", "platform", "serial", "mmio_bus", "flash"}

\* What the functions of aislab_machine_init add, the loop over the sockets apart.
Adds(p) ==
  CASE p = "sockets" -> IF UseKvmAia THEN KvmAiaRegions ELSE {}
    [] p = "memory" -> { Plain("ram", At(aislab_memmap.DRAM.base, cfg.ram)),
                         Plain("mrom", aislab_memmap.MROM),
                         Plain("fw_cfg", aislab_memmap.FW_CFG),
                         Plain("test", aislab_memmap.TEST) }
    [] p = "virtio" -> AllVirtio
    [] p = "pcie" -> { Plain("ecam", aislab_memmap.PCIE_ECAM),
                       Plain("pcie_mmio", aislab_memmap.PCIE_MMIO),
                       Plain("pcie_mmio_high", aislab_high_pcie_memmap),
                       Plain("pio", aislab_memmap.PCIE_PIO) }
    [] p = "platform" -> { Plain("platform_bus", aislab_memmap.PLATFORM_BUS) }
    [] p = "serial" -> { Plain("uart", aislab_memmap.UART0), Plain("rtc", aislab_memmap.RTC) }
    [] p = "mmio_bus" -> { Plain("mmio_bus", At(aislab_memmap.MMIO_BUS.base, MMIO_SIZE)) }
    [] p = "flash" -> AllFlash
    [] OTHER -> {}

\* The lines they wire.
Wired(p) ==
  CASE p = "virtio" ->
         { Wire("virtio", n, 0, irqchip["virtio"], VIRTIO_IRQ + n) : n \in 0 .. VIRTIO_COUNT - 1 }
    [] p = "pcie" ->
         { Wire("ecam", 0, pin, irqchip["pcie"], PCIE_IRQ + pin) : pin \in 0 .. GPEX_NUM_IRQS - 1 }
    [] p = "platform" ->
         { Wire("platform_bus", 0, n, irqchip["mmio"], AISLAB_PLATFORM_BUS_IRQ + n) :
             n \in 0 .. AISLAB_PLATFORM_BUS_NUM_IRQS - 1 }
    [] p = "serial" -> { Wire("uart", 0, 0, irqchip["mmio"], UART0_IRQ),
                         Wire("rtc", 0, 0, irqchip["mmio"], RTC_IRQ) }
    [] p = "mmio_bus" -> { Wire("mmio_bus", 0, 0, irqchip["mmio"], MMIO_BUS_IRQ) }
    [] OTHER -> {}

\* The controller for devices of kind d when there are count sockets.
ChipOf(d, count) ==
  Chip(IF PreferredSocket(d) < count THEN PreferredSocket(d) ELSE count - 1)

\* Of stages S, those that are over.
Over(S) == { p \in S : Rank(p) < Rank(pc) }

SocketsMade == { i \in Sockets : pc \notin {"checks", "sockets"} \/ i < sock }

Built ==
  (UNION { SocketRegions(i) : i \in SocketsMade }) \cup (UNION { Adds(p) : p \in Over(BoardStages) })

DeviceKinds == {"mmio", "virtio", "pcie"}

\* Nothing is on the board but what the functions that are over put there.
BuiltInv ==
  pc # "exited" =>
    /\ board = Built
    /\ wires = UNION { Wired(p) : p \in Over(BoardStages) }
    /\ pc \in {"checks", "sockets"} =>
         irqchip = [d \in DeviceKinds |-> IF sock = 0 THEN NoChip ELSE ChipOf(d, sock)]
    /\ pc \notin {"checks", "sockets"} => irqchip = [d \in DeviceKinds |-> ChipOf(d, cfg.sockets)]

\* What a socket has, and what a function adds, is decided by the command line.
LEMMA AddsKept ==
  ASSUME cfg' = cfg
  PROVE  /\ \A i : SocketRegions(i)' = SocketRegions(i)
         /\ \A p : p # "pcie" \/ ramSize' = ramSize => Adds(p)' = Adds(p)
         /\ \A d, count : ChipOf(d, count)' = ChipOf(d, count)
<1>1. \A i : TimerRegions(i)' = TimerRegions(i) /\ PlicRegions(i)' = PlicRegions(i)
  BY DEF TimerRegions, PlicRegions, HaveAclint, AclintAllowed, Imsic, Tcg, Kvm, Harts, HartCount,
         FirstHartid
<1>2. \A i, dev, entry, irq : AplicRegion(i, dev, entry, irq)' = AplicRegion(i, dev, entry, irq)
  BY DEF AplicRegion, Imsic, HartCount, Harts, FirstHartid
<1>3. \A i, dev, entry, irq, guests : ImsicRegions(i, dev, entry, irq, guests)' = ImsicRegions(i, dev, entry, irq, guests)
  BY DEF ImsicRegions, Harts, FirstHartid
<1>4. \A i : AiaRegions(i)' = AiaRegions(i)
  BY <1>2, <1>3, Zenon DEF AiaRegions, UseKvmAia, Imsic, Kvm
<1>5. KvmAiaRegions' = KvmAiaRegions
  BY <1>2, <1>3, Zenon DEF KvmAiaRegions, Sockets
<1>6. \A i : SocketRegions(i)' = SocketRegions(i)
  BY <1>1, <1>4, Zenon DEF SocketRegions
<1>7. ASSUME NEW p, p # "pcie" \/ ramSize' = ramSize
      PROVE  Adds(p)' = Adds(p)
  <2>1. p = "pcie" => aislab_high_pcie_memmap' = aislab_high_pcie_memmap
    BY <1>7 DEF aislab_high_pcie_memmap
  <2> QED BY <1>5, <1>7, <2>1, Zenon DEF Adds, UseKvmAia
<1>8. \A d, count : ChipOf(d, count)' = ChipOf(d, count)
  BY DEF ChipOf, Chip, Kvm
<1> QED BY <1>6, <1>7, <1>8

\* A stage that comes to its end is over, and no other.
LEMMA OverGrows ==
  ASSUME NEW S, S \subseteq BoardStages \cup {"tree", "plug", "fdt_sockets", "fdt_xplic", "fdt_virtio",
                                              "fdt_pcie", "fdt_reset", "fdt_uart", "fdt_rtc", "fdt_mmio_bus"},
         pc \in S, Rank(pc') = Rank(pc) + 1
  PROVE  Over(S)' = Over(S) \cup {pc}
<1> DEFINE A == BoardStages \cup {"tree", "plug", "fdt_sockets", "fdt_xplic", "fdt_virtio", "fdt_pcie",
                                  "fdt_reset", "fdt_uart", "fdt_rtc", "fdt_mmio_bus"}
<1> DEFINE name == << "sockets", "memory", "virtio", "pcie", "platform", "serial", "mmio_bus", "flash",
                     "tree", "plug", "fdt_sockets", "fdt_xplic", "fdt_virtio", "fdt_pcie", "fdt_reset",
                     "fdt_uart", "fdt_rtc", "fdt_mmio_bus" >>
<1>1. \A p \in A : Rank(p) \in Nat /\ name[Rank(p)] = p
  BY DEF Rank, BoardStages
<1> HIDE DEF A, name
<1>2. \A p \in S : Rank(p) \in Nat /\ (Rank(p) = Rank(pc) => p = pc)
  <2>1. S \subseteq A
    BY DEF A
  <2> QED BY <1>1, <2>1
<1>3. \A p \in S : Rank(p) < Rank(pc') <=> Rank(p) < Rank(pc) \/ p = pc
  BY <1>2
<1> QED BY <1>3 DEF Over

\* A function of aislab_machine_init adds what it adds, and is over.
LEMMA BuiltOn ==
  ASSUME BuiltInv, CheckedInv, cfg \in Configs, NEW from \in BoardStages, NEW to,
         Build(from, to, Adds(from), Wired(from)), Rank(to) = Rank(from) + 1,
         from = "sockets" => sock = cfg.sockets, from = "sockets" \/ ramSize' = ramSize
  PROVE  BuiltInv'
<1>1. /\ cfg' = cfg /\ pc = from /\ pc' = to /\ sock' = sock /\ irqchip' = irqchip
      /\ board' = board \cup Adds(from) /\ wires' = wires \cup Wired(from)
  BY DEF Build
<1>2. Over(BoardStages)' = Over(BoardStages) \cup {from}
  BY <1>1, OverGrows
<1>3. \A p : Wired(p)' = Wired(p)
  BY <1>1 DEF Wired
<1>4. \A p \in Over(BoardStages)' : Adds(p)' = Adds(p)
  <2>1. from = "sockets" => "pcie" \notin Over(BoardStages)'
    BY <1>1, <1>2 DEF Over, Rank
  <2> QED BY <1>1, <2>1, AddsKept
<1>5. from # "exited" /\ from # "checks" /\ to \notin {"checks", "sockets"}
  BY DEF BoardStages, Rank
<1>6. SocketsMade' = SocketsMade
  <2>1. cfg.sockets \in Nat
    BY ConfigAssumption
  <2> QED BY <1>1, <1>5, <2>1 DEF SocketsMade, Sockets
<1>7. board' = Built'
  <2> SUFFICES ASSUME NEW r PROVE r \in board' <=> r \in Built'
    BY Zenon
  <2>1. board = Built
    BY <1>1, <1>5 DEF BuiltInv
  <2>2. r \in Built <=> \/ \E i \in SocketsMade : r \in SocketRegions(i)
                       \/ \E p \in Over(BoardStages) : r \in Adds(p)
    BY Zenon DEF Built
  <2>3. r \in Built' <=> \/ \E i \in SocketsMade' : r \in SocketRegions(i)'
                        \/ \E p \in Over(BoardStages)' : r \in Adds(p)'
    BY Zenon DEF Built
  <2>4. (\E i \in SocketsMade' : r \in SocketRegions(i)') <=> \E i \in SocketsMade : r \in SocketRegions(i)
    BY <1>1, <1>6, AddsKept
  <2>5. (\E p \in Over(BoardStages)' : r \in Adds(p)')
          <=> (\E p \in Over(BoardStages) : r \in Adds(p)) \/ r \in Adds(from)
    BY <1>2, <1>4
  <2> QED BY <1>1, <2>1, <2>2, <2>3, <2>4, <2>5
<1>8. wires' = UNION { Wired(p) : p \in Over(BoardStages) }'
  BY <1>1, <1>2, <1>3, <1>5 DEF BuiltInv
<1>9. irqchip' = [d \in DeviceKinds |-> ChipOf(d, cfg.sockets)]'
  <2>1. irqchip = [d \in DeviceKinds |-> ChipOf(d, cfg.sockets)]
    <3>1. CASE from = "sockets"
      <4>1. cfg.sockets # 0
        BY <1>1, <3>1, ConfigAssumption DEF CheckedInv
      <4> QED BY <1>1, <3>1, <4>1 DEF BuiltInv
    <3>2. CASE from # "sockets"
      BY <1>1, <1>5, <3>2 DEF BuiltInv
    <3> QED BY <3>1, <3>2
  <2>2. \A d, count : ChipOf(d, count)' = ChipOf(d, count)
    BY <1>1, AddsKept
  <2> QED BY <1>1, <2>1, <2>2
<1> QED BY <1>1, <1>5, <1>7, <1>8, <1>9 DEF BuiltInv

\* A socket adds its devices, and takes over the devices that prefer it.
LEMMA BuiltSocket ==
  ASSUME BuiltInv, CheckedInv, cfg \in Configs, InitSocket
  PROVE  BuiltInv'
<1>1. cfg' = cfg /\ ramSize' = ramSize /\ wires' = wires /\ pc = "sockets" /\ sock \in Sockets
  BY DEF InitSocket
<1>2. CASE ~SocketHasHartids(sock)
  BY <1>2 DEF InitSocket, BuiltInv
<1>3. CASE SocketHasHartids(sock)
  <2>1. /\ board' = board \cup SocketRegions(sock) /\ sock' = sock + 1 /\ pc' = pc
        /\ irqchip' = [d \in DOMAIN irqchip |->
                         IF sock <= PreferredSocket(d) THEN Chip(sock) ELSE irqchip[d]]
    <3>1. /\ board' = board \cup TimerRegions(sock)
                            \cup (IF cfg.aia = "none" THEN PlicRegions(sock) ELSE AiaRegions(sock))
          /\ sock' = sock + 1 /\ pc' = pc
          /\ irqchip' = [d \in DOMAIN irqchip |->
                           IF sock <= PreferredSocket(d) THEN Chip(sock) ELSE irqchip[d]]
      BY <1>3, Zenon DEF InitSocket
    <3> QED BY <3>1 DEF SocketRegions
  <2>2. cfg.sockets \in Nat /\ sock \in Nat /\ sock < cfg.sockets
    <3>1. cfg.sockets \in Nat
      BY ConfigAssumption
    <3> QED BY <1>1, <3>1 DEF Sockets
  <2>3. SocketsMade' = SocketsMade \cup {sock}
    BY <1>1, <2>1, <2>2 DEF SocketsMade, Sockets
  <2>4. Over(BoardStages) = {} /\ Over(BoardStages)' = {}
    BY <1>1, <2>1 DEF Over, BoardStages, Rank
  <2>5. board = UNION { SocketRegions(i) : i \in SocketsMade } /\ wires = {}
    <3>1. board = Built /\ wires = UNION { Wired(p) : p \in Over(BoardStages) }
      BY <1>1 DEF BuiltInv
    <3> QED BY <2>4, <3>1 DEF Built
  <2>6. \A i : SocketRegions(i)' = SocketRegions(i)
    BY <1>1, AddsKept
  <2>7. board' = Built'
    <3>1. Built' = UNION { SocketRegions(i) : i \in SocketsMade \cup {sock} }
      BY <2>3, <2>4, <2>6 DEF Built
    <3> QED BY <2>1, <2>5, <3>1
  <2>8. irqchip' = [d \in DeviceKinds |-> ChipOf(d, sock + 1)]
    <3>1. irqchip = [d \in DeviceKinds |-> IF sock = 0 THEN NoChip ELSE ChipOf(d, sock)]
      BY <1>1 DEF BuiltInv
    <3>2. ASSUME NEW d \in DeviceKinds
          PROVE  (IF sock <= PreferredSocket(d) THEN Chip(sock) ELSE irqchip[d]) = ChipOf(d, sock + 1)
      <4>1. PreferredSocket(d) \in 0 .. 2
        BY DEF PreferredSocket, DeviceKinds
      <4>2. CASE sock <= PreferredSocket(d)
        <5>1. (IF PreferredSocket(d) < sock + 1 THEN PreferredSocket(d) ELSE (sock + 1) - 1) = sock
          BY <2>2, <4>1, <4>2
        <5>2. PICK k : k = IF PreferredSocket(d) < sock + 1 THEN PreferredSocket(d) ELSE (sock + 1) - 1
          OBVIOUS
        <5>3. ChipOf(d, sock + 1) = Chip(k)
          BY <5>2, Zenon DEF ChipOf
        <5> QED BY <4>2, <5>1, <5>2, <5>3
      <4>3. CASE PreferredSocket(d) < sock
        <5>1. PreferredSocket(d) < sock + 1 /\ sock # 0 /\ ~(sock <= PreferredSocket(d))
          BY <2>2, <4>1, <4>3
        <5> QED BY <3>1, <4>3, <5>1 DEF ChipOf
      <4> QED BY <2>2, <4>1, <4>2, <4>3
    <3> QED BY <2>1, <3>1, <3>2
  <2>9. irqchip' = [d \in DeviceKinds |-> IF sock = 0 THEN NoChip ELSE ChipOf(d, sock)]'
    <3>1. \A d, count : ChipOf(d, count)' = ChipOf(d, count)
      BY <1>1, AddsKept
    <3> QED BY <2>1, <2>2, <2>8, <3>1
  <2>10. wires' = UNION { Wired(p) : p \in Over(BoardStages) }'
    BY <1>1, <2>4, <2>5
  <2> QED BY <1>1, <2>1, <2>7, <2>9, <2>10 DEF BuiltInv
<1> QED BY <1>2, <1>3

\* What comes after aislab_machine_init leaves the board alone.
LEMMA BuiltStays ==
  ASSUME BuiltInv, UNCHANGED <<cfg, ramSize, board, wires, irqchip>>, 8 < Rank(pc), 8 < Rank(pc'),
         pc # "exited" \/ pc' = pc
  PROVE  BuiltInv'
<1>1. \A p : Rank(p) \in Nat
  BY DEF Rank
<1>2. \A p \in BoardStages : Rank(p) <= 8
  BY DEF Rank, BoardStages
<1>3. Over(BoardStages)' = Over(BoardStages)
  BY <1>1, <1>2 DEF Over
<1>4. pc \notin {"checks", "sockets"} /\ pc' \notin {"checks", "sockets"}
  BY DEF Rank
<1>5. SocketsMade' = SocketsMade
  BY <1>4 DEF SocketsMade, Sockets
<1>6. /\ \A i : SocketRegions(i)' = SocketRegions(i)
      /\ \A p : Adds(p)' = Adds(p)
      /\ \A p : Wired(p)' = Wired(p)
      /\ \A d, count : ChipOf(d, count)' = ChipOf(d, count)
  BY AddsKept DEF Wired
<1>7. Built' = Built
  BY <1>3, <1>5, <1>6, ZenonT(60) DEF Built
<1> QED BY <1>3, <1>4, <1>6, <1>7 DEF BuiltInv

\* The board is built by aislab_machine_init only, function by function.
LEMMA BuiltNext == BuiltInv /\ CheckedInv /\ TypesInv /\ [Next]_vars => BuiltInv'
<1> SUFFICES ASSUME BuiltInv, CheckedInv, TypesInv, [Next]_vars PROVE BuiltInv'
  OBVIOUS
<1>1. cfg \in Configs /\ cfg.sockets \in Nat \ {0}
  BY ConfigAssumption DEF TypesInv, TypeOK
<1>2. CASE InitChecks
  <2>1. /\ cfg' = cfg /\ UNCHANGED <<sock, irqchip, board, wires>> /\ pc = "checks" /\ pc' \in {"exited", "sockets"}
    BY <1>2 DEF InitChecks
  <2>2. sock = 0 /\ SocketsMade = {} /\ (pc' # "exited" => SocketsMade' = {})
    BY <1>1, <2>1 DEF CheckedInv, SocketsMade, Sockets
  <2>3. Over(BoardStages) = {} /\ (pc' # "exited" => Over(BoardStages)' = {})
    BY <2>1 DEF Over, BoardStages, Rank
  <2>4. board = {} /\ wires = {}
    BY <2>1, <2>2, <2>3 DEF BuiltInv, Built
  <2>5. irqchip = [d \in DeviceKinds |-> NoChip]
    BY <2>1, <2>2 DEF BuiltInv
  <2> QED BY <2>1, <2>2, <2>3, <2>4, <2>5 DEF BuiltInv, Built
<1>3. CASE InitSocket
  BY <1>1, <1>3, BuiltSocket
<1>4. ASSUME NEW from, NEW to, Build(from, to, Adds(from), Wired(from)), from \in BoardStages,
             Rank(to) = Rank(from) + 1, from = "sockets" => sock = cfg.sockets,
             from = "sockets" \/ ramSize' = ramSize
      PROVE  BuiltInv'
  BY <1>1, <1>4, BuiltOn
<1>5. CASE InitAia
  <2>1. Build("sockets", "memory", Adds("sockets"), Wired("sockets")) /\ sock = cfg.sockets
    BY <1>5, Zenon DEF InitAia, Adds, Wired
  <2> QED BY <1>4, <2>1 DEF Rank, BoardStages
<1>6. CASE MapMemory
  <2>1. Build("memory", "virtio", Adds("memory"), Wired("memory")) /\ ramSize' = ramSize
    BY <1>6, Zenon DEF MapMemory, Adds, Wired
  <2> QED BY <1>4, <2>1 DEF Rank, BoardStages
<1>7. CASE CreateVirtio
  <2>1. Build("virtio", "pcie", Adds("virtio"), Wired("virtio")) /\ ramSize' = ramSize
    BY <1>7, Zenon DEF CreateVirtio, Adds, Wired, AllVirtio
  <2> QED BY <1>4, <2>1 DEF Rank, BoardStages
<1>8. CASE GpexPcieInit
  <2>1. Build("pcie", "platform", Adds("pcie"), Wired("pcie")) /\ ramSize' = ramSize
    BY <1>8, Zenon DEF GpexPcieInit, Adds, Wired
  <2> QED BY <1>4, <2>1 DEF Rank, BoardStages
<1>9. CASE CreatePlatformBus
  <2>1. Build("platform", "serial", Adds("platform"), Wired("platform")) /\ ramSize' = ramSize
    BY <1>9, Zenon DEF CreatePlatformBus, Adds, Wired
  <2> QED BY <1>4, <2>1 DEF Rank, BoardStages
<1>10. CASE CreateSerialAndRtc
  <2>1. Build("serial", "mmio_bus", Adds("serial"), Wired("serial")) /\ ramSize' = ramSize
    BY <1>10, Zenon DEF CreateSerialAndRtc, Adds, Wired
  <2> QED BY <1>4, <2>1 DEF Rank, BoardStages
<1>11. CASE CreateMmioBus
  <2>1. Build("mmio_bus", "flash", Adds("mmio_bus"), Wired("mmio_bus")) /\ ramSize' = ramSize
    BY <1>11, Zenon DEF CreateMmioBus, Adds, Wired
  <2> QED BY <1>4, <2>1 DEF Rank, BoardStages
<1>12. CASE MapFlash
  <2>1. Build("flash", "tree", Adds("flash"), Wired("flash")) /\ ramSize' = ramSize
    BY <1>12, Zenon DEF MapFlash, Adds, Wired, AllFlash
  <2> QED BY <1>4, <2>1 DEF Rank, BoardStages
<1>13. CASE TreeStep
  <2>1. UNCHANGED <<cfg, ramSize, board, wires, irqchip>> /\ 8 < Rank(pc) /\ 8 < Rank(pc') /\ pc # "exited"
    <3>1. CASE CreateFdt \/ Finalize \/ FdtSocketsEnd
      BY <3>1 DEF CreateFdt, Finalize, FdtSocketsEnd, Rank
    <3>2. CASE PlugIommu
      BY <3>2 DEF PlugIommu, boardVars, Rank
    <3>3. CASE FdtSocket
      BY <3>3 DEF FdtSocket, Rank
    <3>4. CASE FdtImsic
      BY <3>4 DEF FdtImsic, Rank
    <3>5. CASE FdtXplic
      BY <3>5 DEF FdtXplic, Rank
    <3>6. CASE FdtPcie
      <4>1. pc = "fdt_pcie" /\ pc' = "fdt_reset" /\ UNCHANGED <<cfg, ramSize, board, wires, irqchip>>
        BY <3>6, Zenon DEF FdtPcie
      <4> QED BY <4>1 DEF Rank
    <3>7. CASE FdtVirtio \/ FdtReset \/ FdtUart \/ FdtRtc \/ FdtMmioBus
      BY <3>7 DEF FdtVirtio, FdtReset, FdtUart, FdtRtc, FdtMmioBus, Fdt, Rank
    <3> QED BY <1>13, <3>1, <3>2, <3>3, <3>4, <3>5, <3>6, <3>7 DEF TreeStep
  <2> QED BY <2>1, BuiltStays
<1>14. CASE Boot
  <2>1. UNCHANGED <<cfg, ramSize, board, wires, irqchip>> /\ pc = "boot" /\ pc' \in {"exited", "running"}
    BY <1>14 DEF Boot
  <2>2. 8 < Rank(pc) /\ 8 < Rank(pc')
    BY <2>1 DEF Rank
  <2> QED BY <2>1, <2>2, BuiltStays
<1>15. ASSUME UNCHANGED <<cfg, pc, sock, ramSize, board, wires, irqchip>> PROVE BuiltInv'
  <2>1. /\ Over(BoardStages)' = Over(BoardStages) /\ SocketsMade' = SocketsMade
        /\ \A p : Wired(p)' = Wired(p)
    BY <1>15 DEF Over, SocketsMade, Sockets, Wired
  <2>3. /\ \A i : SocketRegions(i)' = SocketRegions(i)
        /\ \A p : Adds(p)' = Adds(p)
        /\ \A d, count : ChipOf(d, count)' = ChipOf(d, count)
    BY <1>15, AddsKept
  <2>2. Built' = Built
    BY <2>1, <2>3, ZenonT(60) DEF Built
  <2> QED BY <1>15, <2>1, <2>2, <2>3 DEF BuiltInv
<1>16. CASE ListenMmioBus \/ ClientConnects \/ UNCHANGED vars
  BY <1>15, <1>16 DEF ListenMmioBus, ClientConnects, vars, boardVars
<1> QED BY <1>2, <1>3, <1>5, <1>6, <1>7, <1>8, <1>9, <1>10, <1>11, <1>12, <1>13, <1>14, <1>16
     DEF Next, Step, BoardStep

-----------------------------------------------------------------------------
(* What the tree tells, exactly *)

\* The ranges and the interrupts a node announces, if it does.
View(kind, reg, irqs) == [kind |-> kind, reg |-> reg, irqs |-> irqs]
Tell(n) == n.reg # <<>> \/ n.irqs # {}
Views(T) == { View(n.kind, n.reg, n.irqs) : n \in { m \in T : Tell(m) } }

SocketViews(i) ==
  { View("memory", <<MemoryEntry(i)>>, {}) }
  \cup { View(kind, <<TimerEntry(kind, i)>>, {}) : kind \in TimerKinds }

ImsicViews ==
  IF Imsic
  THEN (IF Kvm THEN {} ELSE { View("imsic", ImsicRanges(aislab_memmap.IMSIC_M, 0), {}) })
       \cup { View("imsic", ImsicRanges(aislab_memmap.IMSIC_S, GuestBits), {}) }
  ELSE {}

ChipViews(i) ==
  IF cfg.aia = "none" THEN { View("plic", <<Nth(aislab_memmap.PLIC, i)>>, {}) }
  ELSE (IF Kvm THEN {} ELSE { View("aplic", <<Nth(aislab_memmap.APLIC_M, i)>>, {}) })
       \cup { View("aplic", <<Nth(aislab_memmap.APLIC_S, i)>>, {}) }

BusView(parent) ==
  View("platform_bus", <<aislab_memmap.PLATFORM_BUS>>,
       { Irq(n, parent, AISLAB_PLATFORM_BUS_IRQ + n) : n \in 0 .. AISLAB_PLATFORM_BUS_NUM_IRQS - 1 })

DeviceView(kind, at, d, line) == View(kind, <<at>>, {Irq(0, IrqPhandle(d), line)})

PciRanges == <<aislab_memmap.PCIE_ECAM, aislab_memmap.PCIE_PIO, aislab_memmap.PCIE_MMIO,
               aislab_high_pcie_memmap>>

TreeStages == {"tree", "plug", "fdt_sockets", "fdt_xplic", "fdt_virtio", "fdt_pcie", "fdt_reset",
               "fdt_uart", "fdt_rtc", "fdt_mmio_bus"}

\* What the functions of the device tree make known, their loops apart.
Tells(p) ==
  CASE p = "tree" -> { View("flash", <<FlashHalf(0), FlashHalf(1)>>, {}),
                       View("fw_cfg", <<aislab_memmap.FW_CFG>>, {}) }
    [] p = "fdt_sockets" -> ImsicViews
    [] p = "fdt_virtio" ->
         { DeviceView("virtio", Nth(aislab_memmap.VIRTIO, n), "virtio", VIRTIO_IRQ + n) :
             n \in 0 .. VIRTIO_COUNT - 1 }
    [] p = "fdt_pcie" -> { View("pci", PciRanges, PcieIrqMap) }
    [] p = "fdt_reset" -> { View("test", <<aislab_memmap.TEST>>, {}) }
    [] p = "fdt_uart" -> { DeviceView("serial", aislab_memmap.UART0, "mmio", UART0_IRQ) }
    [] p = "fdt_rtc" -> { DeviceView("rtc", aislab_memmap.RTC, "mmio", RTC_IRQ) }
    [] p = "fdt_mmio_bus" -> { DeviceView("mmio_bus", aislab_memmap.MMIO_BUS, "mmio", MMIO_BUS_IRQ) }
    [] OTHER -> {}

\* The loop of function p over the sockets is past socket i.
Passed(p, i) == Rank(p) < Rank(pc) \/ (pc = p /\ sock < i)

\* The in-kernel irqchip has one controller, of socket 0.
XplicSockets == IF UseKvmAia THEN {0} ELSE Sockets

Told ==
  (UNION { Tells(p) : p \in Over(TreeStages) })
  \cup (UNION { SocketViews(i) : i \in { j \in Sockets : Passed("fdt_sockets", j) } })
  \cup (UNION { ChipViews(i) : i \in { j \in XplicSockets : Passed("fdt_xplic", j) } })
  \cup (IF Passed("fdt_xplic", 0) THEN { BusView(xplic[0]) } ELSE {})

\* Between create_fdt and the boot, of the tree that is not the user's.
TreeKnown == 9 < Rank(pc) /\ pc # "exited" /\ ~cfg.dtb

ViewsInv ==
  /\ TreeKnown => Views(tree) = Told
  /\ \A n \in tree : DOMAIN n = DOMAIN Node0
  /\ pc \in {"plug", "fdt_sockets", "fdt_xplic", "fdt_virtio", "fdt_pcie"} => \E n \in tree : n.kind = "pci"
  /\ pc = "fdt_xplic" /\ UseKvmAia => sock <= 0

\* A node tells what it was made with.
LEMMA MadeView ==
  ASSUME NEW n, NEW kind, NEW at, NEW ph, NEW reg, NEW ext, NEW irqs, NEW cells, NEW refs,
         Made(n, kind, at, ph, reg, ext, irqs, cells, refs)
  PROVE  /\ reg # <<>> => Views({n}) = {View(kind, reg, irqs)}
         /\ reg = <<>> /\ irqs = {} => Views({n}) = {}
         /\ DOMAIN n = DOMAIN Node0 /\ n.kind = kind
<1>1. DOMAIN n = DOMAIN Node0 /\ n.kind = kind /\ n.reg = reg /\ n.irqs = irqs
  BY DEF Made
<1> QED BY <1>1 DEF Views, Tell

\* A node tells what it has.
LEMMA NodeView ==
  ASSUME NEW n, n.reg # <<>>
  PROVE  Views({n}) = {View(n.kind, n.reg, n.irqs)}
BY DEF Views, Tell

\* More nodes tell more.
LEMMA ViewsUnion == \A S, T : Views(S \cup T) = Views(S) \cup Views(T)
BY DEF Views

\* Ranges are something.
LEMMA RangesThere ==
  /\ \A x : <<x>> # <<>>
  /\ \A x, y : <<x, y>> # <<>>
  /\ \A x, y, z, w : <<x, y, z, w>> # <<>>
OBVIOUS

\* A range, and an interrupt, is as the command line has it, once the
\* controllers are drawn.
LEMMA TellsKept ==
  ASSUME UNCHANGED <<cfg, ramSize>>
  PROVE  /\ \A i : SocketViews(i)' = SocketViews(i) /\ ChipViews(i)' = ChipViews(i)
         /\ ImsicViews' = ImsicViews /\ XplicSockets' = XplicSockets /\ Sockets' = Sockets
         /\ \A ph : BusView(ph)' = BusView(ph)
         /\ \A p : xplic' = xplic \/ p \in {"tree", "plug", "fdt_sockets", "fdt_xplic"} => Tells(p)' = Tells(p)
<1>1. \A i : Harts(i)' = Harts(i) /\ MemoryEntry(i)' = MemoryEntry(i)
  BY DEF Harts, MemoryEntry
<1>2. \A kind, i : TimerEntry(kind, i)' = TimerEntry(kind, i)
  BY DEF TimerEntry, MtimerEntry, Imsic
<1>3. TimerKinds' = TimerKinds /\ GuestBits' = GuestBits /\ Sockets' = Sockets /\ XplicSockets' = XplicSockets
  BY DEF TimerKinds, GuestBits, Sockets, XplicSockets, UseKvmAia, HaveAclint, AclintAllowed, Imsic, Tcg
<1>4. \A i : SocketViews(i)' = SocketViews(i)
  BY <1>1, <1>2, <1>3, Zenon DEF SocketViews
<1>5. \A i : ChipViews(i)' = ChipViews(i)
  BY Zenon DEF ChipViews, Kvm
<1>6. \A entry, bits : ImsicRanges(entry, bits)' = ImsicRanges(entry, bits)
  BY <1>1, Zenon DEF ImsicRanges, HartCount
<1>7. ImsicViews' = ImsicViews
  BY <1>3, <1>6, Zenon DEF ImsicViews, Imsic, Kvm
<1>8. \A out, parent, line : Irq(out, parent, line)' = Irq(out, parent, line)
  BY Zenon DEF Irq
<1>9. \A ph : BusView(ph)' = BusView(ph)
  BY <1>8, Zenon DEF BusView
<1>10. ASSUME xplic' = xplic
       PROVE  /\ PcieIrqMap' = PcieIrqMap
              /\ \A kind, at, d, line : DeviceView(kind, at, d, line)' = DeviceView(kind, at, d, line)
  <2>1. \A d : IrqPhandle(d)' = IrqPhandle(d)
    BY <1>3, <1>10, Zenon DEF IrqPhandle, UseKvmAia
  <2>2. \A kind, at, d, line : DeviceView(kind, at, d, line)' = DeviceView(kind, at, d, line)
    BY <1>8, <2>1, Zenon DEF DeviceView
  <2>3. PcieIrqMap' = PcieIrqMap
    BY <1>8, <2>1 DEF PcieIrqMap
  <2> QED BY <2>2, <2>3
<1>11. PciRanges' = PciRanges
  BY Zenon DEF PciRanges, aislab_high_pcie_memmap
<1>12. ASSUME NEW p, xplic' = xplic \/ p \in {"tree", "plug", "fdt_sockets", "fdt_xplic"}
       PROVE  Tells(p)' = Tells(p)
  <2>1. CASE xplic' = xplic
    <3>1. /\ PcieIrqMap' = PcieIrqMap
          /\ \A kind, at, d, line : DeviceView(kind, at, d, line)' = DeviceView(kind, at, d, line)
      BY <1>10, <2>1
    <3> QED BY <1>7, <1>11, <3>1, Zenon DEF Tells
  <2>2. CASE p \in {"tree", "plug", "fdt_sockets", "fdt_xplic"}
    BY <1>7, <2>2 DEF Tells
  <2> QED BY <1>12, <2>1, <2>2
<1> QED BY <1>3, <1>4, <1>5, <1>7, <1>9, <1>12

\* What is told, taken apart.
LEMMA ToldIs ==
  ASSUME NEW v
  PROVE  /\ v \in Told <=>
              \/ \E p \in Over(TreeStages) : v \in Tells(p)
              \/ \E i \in Sockets : Passed("fdt_sockets", i) /\ v \in SocketViews(i)
              \/ \E i \in XplicSockets : Passed("fdt_xplic", i) /\ v \in ChipViews(i)
              \/ Passed("fdt_xplic", 0) /\ v = BusView(xplic[0])
         /\ v \in Told' <=>
              \/ \E p \in Over(TreeStages)' : v \in Tells(p)'
              \/ \E i \in Sockets' : Passed("fdt_sockets", i)' /\ v \in SocketViews(i)'
              \/ \E i \in XplicSockets' : Passed("fdt_xplic", i)' /\ v \in ChipViews(i)'
              \/ Passed("fdt_xplic", 0)' /\ v = BusView(xplic[0])'
<1>1. v \in Told <=>
        \/ \E p \in Over(TreeStages) : v \in Tells(p)
        \/ \E i \in Sockets : Passed("fdt_sockets", i) /\ v \in SocketViews(i)
        \/ \E i \in XplicSockets : Passed("fdt_xplic", i) /\ v \in ChipViews(i)
        \/ Passed("fdt_xplic", 0) /\ v = BusView(xplic[0])
  BY Zenon DEF Told
<1>2. v \in Told' <=>
        \/ \E p \in Over(TreeStages)' : v \in Tells(p)'
        \/ \E i \in Sockets' : Passed("fdt_sockets", i)' /\ v \in SocketViews(i)'
        \/ \E i \in XplicSockets' : Passed("fdt_xplic", i)' /\ v \in ChipViews(i)'
        \/ Passed("fdt_xplic", 0)' /\ v = BusView(xplic[0])'
  BY Zenon DEF Told
<1> QED BY <1>1, <1>2

\* The sockets there are; socket 0 among them.
LEMMA ChipSockets ==
  ASSUME cfg \in Configs
  PROVE  0 \in Sockets /\ XplicSockets \subseteq Sockets /\ 0 \in XplicSockets /\ cfg.sockets \in Nat \ {0}
<1>1. cfg.sockets \in Nat \ {0}
  BY ConfigAssumption
<1> QED BY <1>1 DEF Sockets, XplicSockets

\* A function that ends has told what it tells.
LEMMA ToldGrows ==
  ASSUME UNCHANGED <<cfg, ramSize, xplic>>, cfg \in Configs, sock \in Int, sock' \in Int,
         pc \in TreeStages, Rank(pc') = Rank(pc) + 1,
         pc \in {"fdt_sockets", "fdt_xplic"} => sock < 0,
         pc' = "fdt_sockets" => \A i \in Sockets : ~(sock' < i),
         pc' = "fdt_xplic" => \A i \in XplicSockets : ~(sock' < i)
  PROVE  Told' = Told \cup Tells(pc)
<1>1. Over(TreeStages)' = Over(TreeStages) \cup {pc}
  BY OverGrows DEF TreeStages
<1>2. ASSUME NEW p \in {"fdt_sockets", "fdt_xplic"}, NEW i \in Sockets,
             pc' = p => ~(sock' < i)
      PROVE  Passed(p, i)' <=> Passed(p, i)
  <2>1. Rank(p) \in Nat /\ Rank(pc) \in Nat /\ (Rank(p) = Rank(pc) => p = pc)
    BY DEF Rank, TreeStages
  <2>2. i \in Nat
    BY ChipSockets DEF Sockets
  <2>3. pc = p => sock < i
    BY <2>2
  <2> QED BY <1>2, <2>1, <2>3 DEF Passed
<1>3. \A i \in Sockets : Passed("fdt_sockets", i)' <=> Passed("fdt_sockets", i)
  BY <1>2
<1>4. \A i \in XplicSockets : Passed("fdt_xplic", i)' <=> Passed("fdt_xplic", i)
  BY <1>2, ChipSockets
<1>5. \A v : v \in Told' <=> v \in Told \cup Tells(pc)
  <2> TAKE v
  <2>1. /\ Sockets' = Sockets /\ XplicSockets' = XplicSockets /\ BusView(xplic[0])' = BusView(xplic[0])
        /\ \A i : SocketViews(i)' = SocketViews(i) /\ ChipViews(i)' = ChipViews(i)
        /\ \A p : Tells(p)' = Tells(p)
    BY TellsKept
  <2>2. Passed("fdt_xplic", 0)' <=> Passed("fdt_xplic", 0)
    BY <1>4, ChipSockets
  <2>3. (\E p \in Over(TreeStages)' : v \in Tells(p)')
          <=> (\E p \in Over(TreeStages) : v \in Tells(p)) \/ v \in Tells(pc)
    BY <1>1, <2>1
  <2>4. (\E i \in Sockets' : Passed("fdt_sockets", i)' /\ v \in SocketViews(i)')
          <=> \E i \in Sockets : Passed("fdt_sockets", i) /\ v \in SocketViews(i)
    BY <1>3, <2>1
  <2>5. (\E i \in XplicSockets' : Passed("fdt_xplic", i)' /\ v \in ChipViews(i)')
          <=> \E i \in XplicSockets : Passed("fdt_xplic", i) /\ v \in ChipViews(i)
    BY <1>4, <2>1
  <2> QED BY <2>1, <2>2, <2>3, <2>4, <2>5, ToldIs
<1> QED BY <1>5

\* A round of a loop tells of its socket.
LEMMA ToldInLoop ==
  ASSUME UNCHANGED <<cfg, ramSize, pc>>, cfg \in Configs, sock \in Sockets, sock' = sock - 1,
         pc \in {"fdt_sockets", "fdt_xplic"},
         pc = "fdt_sockets" => xplic' = xplic,
         pc = "fdt_xplic" => sock \in XplicSockets
  PROVE  Told' = Told \cup (IF pc = "fdt_sockets" THEN SocketViews(sock)
                            ELSE ChipViews(sock) \cup (IF sock = 0 THEN {BusView(xplic'[0])} ELSE {}))
<1>1. cfg.sockets \in Nat /\ sock \in Nat /\ Sockets \subseteq Nat
  BY ChipSockets DEF Sockets
<1>2. Over(TreeStages)' = Over(TreeStages)
  BY DEF Over
<1>3. \A p : \A i \in Sockets : Passed(p, i)' <=> Passed(p, i) \/ (pc = p /\ i = sock)
  BY <1>1 DEF Passed
<1>4. /\ Sockets' = Sockets /\ XplicSockets' = XplicSockets /\ \A ph : BusView(ph)' = BusView(ph)
      /\ \A i : SocketViews(i)' = SocketViews(i) /\ ChipViews(i)' = ChipViews(i)
  BY TellsKept
<1>5. \A p \in Over(TreeStages)' : Tells(p)' = Tells(p)
  <2>1. pc = "fdt_xplic" => Over(TreeStages)' \subseteq {"tree", "plug", "fdt_sockets"}
    BY <1>2 DEF Over, TreeStages, Rank
  <2> QED BY <2>1, TellsKept
<1>6. 0 \in Sockets /\ 0 \in XplicSockets /\ XplicSockets \subseteq Sockets
  BY ChipSockets
<1>7. pc = "fdt_xplic" => \A i \in Sockets : Passed("fdt_sockets", i)
  BY DEF Passed, Rank
<1>8. pc = "fdt_sockets" => \A i \in Sockets : ~Passed("fdt_xplic", i)
  BY DEF Passed, Rank
<1>9. pc = "fdt_xplic" /\ Passed("fdt_xplic", 0) => FALSE
  BY <1>1 DEF Passed, Rank
<1>10. BusView(xplic[0])' = BusView(xplic'[0])
  BY <1>4
<1>11. \A v : v \in Told' <=> v \in Told \cup (IF pc = "fdt_sockets" THEN SocketViews(sock)
                            ELSE ChipViews(sock) \cup (IF sock = 0 THEN {BusView(xplic'[0])} ELSE {}))
  <2> TAKE v
  <2>3. (\E p \in Over(TreeStages)' : v \in Tells(p)') <=> (\E p \in Over(TreeStages) : v \in Tells(p))
    BY <1>2, <1>5
  <2>4. (\E i \in Sockets' : Passed("fdt_sockets", i)' /\ v \in SocketViews(i)')
          <=> \/ \E i \in Sockets : Passed("fdt_sockets", i) /\ v \in SocketViews(i)
              \/ pc = "fdt_sockets" /\ v \in SocketViews(sock)
    BY <1>3, <1>4
  <2>5. (\E i \in XplicSockets' : Passed("fdt_xplic", i)' /\ v \in ChipViews(i)')
          <=> \/ \E i \in XplicSockets : Passed("fdt_xplic", i) /\ v \in ChipViews(i)
              \/ pc = "fdt_xplic" /\ v \in ChipViews(sock)
    BY <1>3, <1>4, <1>6
  <2>6. Passed("fdt_xplic", 0)' <=> pc = "fdt_xplic" /\ sock = 0
    BY <1>3, <1>6, <1>8, <1>9
  <2>7. ~Passed("fdt_xplic", 0)
    BY <1>6, <1>8, <1>9
  <2> QED BY <1>10, <2>3, <2>4, <2>5, <2>6, <2>7, ToldIs
<1> QED BY <1>11

\* A function that adds nodes which tell what the function is to tell.
LEMMA ViewsStage ==
  ASSUME ViewsInv, cfg \in Configs, sock \in Int, sock' \in Int, UNCHANGED <<cfg, ramSize, xplic>>,
         pc \in TreeStages \ {"tree"}, Rank(pc') = Rank(pc) + 1,
         pc \in {"fdt_sockets", "fdt_xplic"} => sock < 0,
         pc' = "fdt_sockets" => \A i \in Sockets : ~(sock' < i),
         pc' = "fdt_xplic" => (UseKvmAia => sock' <= 0) /\ \A i \in XplicSockets : ~(sock' < i),
         NEW N, tree' = tree \cup N, Views(N) = Tells(pc), \A n \in N : DOMAIN n = DOMAIN Node0
  PROVE  ViewsInv'
<1>1. Told' = Told \cup Tells(pc)
  BY ToldGrows
<1>2. pc # "exited" /\ 9 < Rank(pc)
  BY DEF Rank, TreeStages
<1>3. TreeKnown' => Views(tree) = Told
  BY <1>2 DEF TreeKnown, ViewsInv
<1>4. TreeKnown' => Views(tree)' = Told'
  <2>1. Views(tree)' = Views(tree) \cup Views(N)
    <3>1. Views(tree)' = Views(tree')
      BY Zenon DEF Views, Tell
    <3> QED BY <3>1, ViewsUnion
  <2> QED BY <1>1, <1>3, <2>1
<1>5. \A n \in tree' : DOMAIN n = DOMAIN Node0
  BY DEF ViewsInv
<1>6. pc' \in {"plug", "fdt_sockets", "fdt_xplic", "fdt_virtio", "fdt_pcie"} => \E n \in tree' : n.kind = "pci"
  BY DEF ViewsInv, Rank, TreeStages
<1>7. UseKvmAia' = UseKvmAia
  BY DEF UseKvmAia
<1> QED BY <1>4, <1>5, <1>6, <1>7, Zenon DEF ViewsInv

\* create_fdt: the flash and fw_cfg.
LEMMA ViewsCreateFdt ==
  ASSUME CreateFdt, cfg \in Configs
  PROVE  ViewsInv'
<1>1. /\ pc' = "plug" /\ cfg' = cfg
      /\ tree' = IF cfg.dtb THEN {PciNode} ELSE {PciNode, FlashNode, FwCfgNode, PmuNode}
  BY DEF CreateFdt
<1>2. /\ Views({PciNode}) = {} /\ Views({PmuNode}) = {}
      /\ Views({FlashNode}) = {View("flash", <<FlashHalf(0), FlashHalf(1)>>, {})}
      /\ Views({FwCfgNode}) = {View("fw_cfg", <<aislab_memmap.FW_CFG>>, {})}
      /\ \A n \in {PciNode, FlashNode, FwCfgNode, PmuNode} : DOMAIN n = DOMAIN Node0
      /\ PciNode.kind = "pci"
  <2>1. Made(PciNode, "pci", aislab_memmap.PCIE_ECAM.base, 0, <<>>, <<>>, {}, -1, {})
    BY MadeFirst, Zenon
  <2>2. Made(PmuNode, "pmu", 0, 0, <<>>, <<>>, {}, -1, {})
    BY MadeFirst, Zenon
  <2>3. Made(FlashNode, "flash", aislab_memmap.FLASH.base, 0, <<FlashHalf(0), FlashHalf(1)>>, <<>>, {}, -1, {})
    BY MadeFirst, Zenon
  <2>4. Made(FwCfgNode, "fw_cfg", aislab_memmap.FW_CFG.base, 0, <<aislab_memmap.FW_CFG>>, <<>>, {}, -1, {})
    BY MadeFirst, Zenon
  <2>5. Views({PciNode}) = {} /\ DOMAIN PciNode = DOMAIN Node0 /\ PciNode.kind = "pci"
    BY <2>1, MadeView, Zenon
  <2>6. Views({PmuNode}) = {} /\ DOMAIN PmuNode = DOMAIN Node0
    BY <2>2, MadeView, Zenon
  <2>7. Views({FlashNode}) = {View("flash", <<FlashHalf(0), FlashHalf(1)>>, {})} /\ DOMAIN FlashNode = DOMAIN Node0
    <3>1. PICK reg : reg = <<FlashHalf(0), FlashHalf(1)>>
      OBVIOUS
    <3>2. Made(FlashNode, "flash", aislab_memmap.FLASH.base, 0, reg, <<>>, {}, -1, {}) /\ reg # <<>>
      BY <2>3, <3>1, RangesThere
    <3>3. Views({FlashNode}) = {View("flash", reg, {})} /\ DOMAIN FlashNode = DOMAIN Node0
      <4>1. DOMAIN FlashNode = DOMAIN Node0 /\ FlashNode.kind = "flash" /\ FlashNode.reg = reg /\ FlashNode.irqs = {}
        BY <3>2, Zenon DEF Made
      <4> QED BY <3>2, <4>1, NodeView
    <3> QED BY <3>1, <3>3
  <2>8. Views({FwCfgNode}) = {View("fw_cfg", <<aislab_memmap.FW_CFG>>, {})} /\ DOMAIN FwCfgNode = DOMAIN Node0
    <3>1. <<aislab_memmap.FW_CFG>> # <<>>
      BY RangesThere
    <3> QED BY <2>4, <3>1, MadeView, ZenonT(60)
  <2> QED BY <2>5, <2>6, <2>7, <2>8, Zenon
<1>3. ~cfg.dtb => Views(tree)' = Tells("tree")
  <2>1. Views(tree)' = Views(tree')
    BY Zenon DEF Views, Tell
  <2>2. {PciNode, FlashNode, FwCfgNode, PmuNode} = {PciNode} \cup {FlashNode} \cup {FwCfgNode} \cup {PmuNode}
    OBVIOUS
  <2>3. Views({PciNode, FlashNode, FwCfgNode, PmuNode})
          = Views({PciNode}) \cup Views({FlashNode}) \cup Views({FwCfgNode}) \cup Views({PmuNode})
    <3>1. Views({PciNode} \cup {FlashNode}) = Views({PciNode}) \cup Views({FlashNode})
      BY ViewsUnion, Zenon
    <3>2. Views({PciNode} \cup {FlashNode} \cup {FwCfgNode})
            = Views({PciNode} \cup {FlashNode}) \cup Views({FwCfgNode})
      BY ViewsUnion, Zenon
    <3>3. Views({PciNode} \cup {FlashNode} \cup {FwCfgNode} \cup {PmuNode})
            = Views({PciNode} \cup {FlashNode} \cup {FwCfgNode}) \cup Views({PmuNode})
      BY ViewsUnion, Zenon
    <3> QED BY <2>2, <3>1, <3>2, <3>3
  <2> QED BY <1>1, <1>2, <2>1, <2>3 DEF Tells
<1>4. Told' = Tells("tree")
  <2>1. Over(TreeStages)' = {"tree"}
    BY <1>1 DEF Over, TreeStages, Rank
  <2>2. \A i : ~Passed("fdt_sockets", i)' /\ ~Passed("fdt_xplic", i)'
    BY <1>1 DEF Passed, Rank
  <2>3. Tells("tree")' = Tells("tree")
    BY DEF Tells
  <2>4. \A v : v \in Told' <=> v \in Tells("tree")
    BY <2>1, <2>2, <2>3, ToldIs
  <2> QED BY <2>4
<1>5. \A n \in tree' : DOMAIN n = DOMAIN Node0
  BY <1>1, <1>2
<1>6. \E n \in tree' : n.kind = "pci"
  BY <1>1, <1>2
<1> QED BY <1>1, <1>3, <1>4, <1>5, <1>6 DEF ViewsInv, TreeKnown

\* A virtio-iommu tells nothing of this kind.
LEMMA ViewsPlugIommu ==
  ASSUME ViewsInv, PlugIommu
  PROVE  ViewsInv'
<1>1. PICK ph : ph = ALLOC_PHANDLE
  OBVIOUS
<1> DEFINE pci == [PciNode EXCEPT !.refs = {Ref("iommu_map", ph)}]
           iommu == [Node0 EXCEPT !.kind = "iommu", !.phandle = ph]
<1>2. tree' = (tree \ {PciNode}) \cup {pci, iommu} /\ UNCHANGED boardVars /\ xplic' = xplic /\ pc = "plug"
  BY <1>1 DEF PlugIommu
<1>3. /\ Views({PciNode}) = {} /\ Views({pci}) = {} /\ Views({iommu}) = {}
      /\ \A n \in {pci, iommu} : DOMAIN n = DOMAIN Node0
      /\ pci.kind = "pci"
  <2>1. Made(PciNode, "pci", aislab_memmap.PCIE_ECAM.base, 0, <<>>, <<>>, {}, -1, {})
    BY MadeFirst, Zenon
  <2>2. Made(pci, "pci", aislab_memmap.PCIE_ECAM.base, 0, <<>>, <<>>, {}, -1, {Ref("iommu_map", ph)})
    BY MadeFirst, Zenon
  <2>3. Made(iommu, "iommu", 0, ph, <<>>, <<>>, {}, -1, {})
    BY MadeFirst, Zenon
  <2> HIDE DEF pci, iommu
  <2>4. Views({PciNode}) = {}
    BY <2>1, MadeView, Zenon
  <2>5. Views({pci}) = {} /\ DOMAIN pci = DOMAIN Node0 /\ pci.kind = "pci"
    BY <2>2, MadeView, Zenon
  <2>6. Views({iommu}) = {} /\ DOMAIN iommu = DOMAIN Node0
    BY <2>3, MadeView, Zenon
  <2> QED BY <2>4, <2>5, <2>6, Zenon
<1> HIDE DEF pci, iommu
<1>4. Views(tree)' = Views(tree)
  <2>1. Views(tree)' = Views(tree')
    BY Zenon DEF Views, Tell
  <2>2. Views(tree') = Views(tree \ {PciNode}) \cup Views({pci}) \cup Views({iommu})
    <3>1. tree' = (tree \ {PciNode}) \cup {pci} \cup {iommu}
      BY <1>2
    <3>2. Views((tree \ {PciNode}) \cup {pci}) = Views(tree \ {PciNode}) \cup Views({pci})
      BY ViewsUnion, Zenon
    <3>3. Views((tree \ {PciNode}) \cup {pci} \cup {iommu})
            = Views((tree \ {PciNode}) \cup {pci}) \cup Views({iommu})
      BY ViewsUnion, Zenon
    <3> QED BY <3>1, <3>2, <3>3
  <2>3. Views(tree) = Views(tree \ {PciNode}) \cup Views(tree \cap {PciNode})
    <3>1. tree = (tree \ {PciNode}) \cup (tree \cap {PciNode})
      OBVIOUS
    <3> QED BY <3>1, ViewsUnion
  <2>4. Views(tree \cap {PciNode}) \subseteq Views({PciNode})
    BY DEF Views
  <2> QED BY <1>3, <2>1, <2>2, <2>3, <2>4
<1>5. Told' = Told
  <2>1. /\ Sockets' = Sockets /\ XplicSockets' = XplicSockets /\ BusView(xplic[0])' = BusView(xplic[0])
        /\ \A i : SocketViews(i)' = SocketViews(i) /\ ChipViews(i)' = ChipViews(i)
        /\ \A p : Tells(p)' = Tells(p)
    BY <1>2, TellsKept DEF boardVars
  <2>2. Over(TreeStages)' = Over(TreeStages) /\ \A p, i : Passed(p, i)' <=> Passed(p, i)
    BY <1>2 DEF Over, Passed, boardVars
  <2>3. \A v : v \in Told' <=> v \in Told
    BY <2>1, <2>2, ToldIs
  <2> QED BY <2>3
<1>6. \A n \in tree' : DOMAIN n = DOMAIN Node0
  BY <1>2, <1>3 DEF ViewsInv
<1>7. \E n \in tree' : n.kind = "pci"
  BY <1>2, <1>3
<1> QED BY <1>2, <1>4, <1>5, <1>6, <1>7 DEF ViewsInv, TreeKnown, boardVars

\* What nodes tell together is what each of them tells.
LEMMA ViewsOfMany ==
  ASSUME NEW N
  PROVE  /\ \A v : v \in Views(N) <=> \E n \in N : v \in Views({n})
         /\ (\A n \in N : Views({n}) = {}) => Views(N) = {}
BY DEF Views

\* create_fdt_sockets, one socket: its memory and its timers.
LEMMA ViewsFdtSocket ==
  ASSUME ViewsInv, TypesInv, FdtSocket
  PROVE  ViewsInv'
<1>1. /\ pc = "fdt_sockets" /\ UNCHANGED <<cfg, ramSize, pc, xplic>> /\ sock' = sock - 1
      /\ cfg \in Configs /\ sock \in Sockets
  <2>1. /\ pc = "fdt_sockets" /\ UNCHANGED <<cfg, ramSize, pc, xplic>> /\ sock' = sock - 1 /\ sock >= 0
    BY DEF FdtSocket
  <2>2. cfg \in Configs /\ sock \in -1 .. cfg.sockets - 1
    BY <2>1 DEF TypesInv, PhandlesInv, CounterInv
  <2> QED BY <2>1, <2>2, ChipSockets DEF Sockets
<1>2. PICK hs, first : hs = IntcFrom(pos', intc') /\ first = FirstHartid(sock)
  OBVIOUS
<1> DEFINE cpu(at, ph) == [Node0 EXCEPT !.kind = "cpu", !.at = at, !.phandle = ph]
           ctl(at, ph) == [Node0 EXCEPT !.kind = "cpu-intc", !.at = at, !.phandle = ph, !.cells = 1]
           core(at, ph) == [Node0 EXCEPT !.kind = "core", !.at = at, !.refs = {Ref("cpu", ph)}]
           timer(kind) == TimerNode(kind, hs)
           C == UNION { { cpu(first + k, CpuPhandle(k)), ctl(first + k, IntcPhandle(k)),
                          core(first + k, CpuPhandle(k)) } : k \in 0 .. Count - 1 }
           T == {timer(kind) : kind \in TimerKinds}
           N == C \cup {MemoryNode} \cup T
<1>3. tree' = tree \cup N
  <2>1. CpuNodes = C
    BY <1>2, Zenon DEF CpuNodes
  <2>2. tree' = tree \cup CpuNodes \cup {MemoryNode} \cup TimerNodes(hs)
    BY <1>2, Zenon DEF FdtSocket
  <2>3. TimerNodes(hs) = T
    BY MadeTimers, Zenon
  <2> HIDE DEF C, T
  <2> QED BY <2>1, <2>2, <2>3
<1>4. ASSUME NEW at, NEW ph
      PROVE  /\ Views({cpu(at, ph)}) = {} /\ Views({ctl(at, ph)}) = {} /\ Views({core(at, ph)}) = {}
             /\ DOMAIN cpu(at, ph) = DOMAIN Node0 /\ DOMAIN ctl(at, ph) = DOMAIN Node0
             /\ DOMAIN core(at, ph) = DOMAIN Node0
  <2>2. Made(cpu(at, ph), "cpu", at, ph, <<>>, <<>>, {}, -1, {})
    BY MadeCpu, Zenon
  <2>3. Made(ctl(at, ph), "cpu-intc", at, ph, <<>>, <<>>, {}, 1, {})
    BY MadeCpu, Zenon
  <2>4. Made(core(at, ph), "core", at, 0, <<>>, <<>>, {}, -1, {Ref("cpu", ph)})
    BY MadeCpu, Zenon
  <2> HIDE DEF cpu, ctl, core
  <2>5. Views({cpu(at, ph)}) = {} /\ DOMAIN cpu(at, ph) = DOMAIN Node0
    BY <2>2, MadeView, Zenon
  <2>6. Views({ctl(at, ph)}) = {} /\ DOMAIN ctl(at, ph) = DOMAIN Node0
    BY <2>3, MadeView, Zenon
  <2>7. Views({core(at, ph)}) = {} /\ DOMAIN core(at, ph) = DOMAIN Node0
    BY <2>4, MadeView, Zenon
  <2> QED BY <2>5, <2>6, <2>7
<1>5. ASSUME NEW kind
      PROVE  /\ Views({timer(kind)}) = {View(kind, <<TimerEntry(kind, sock)>>, {})}
             /\ DOMAIN timer(kind) = DOMAIN Node0
  <2>1. PICK entry, ext, reg : /\ entry = TimerEntry(kind, sock) /\ reg = <<entry>>
                               /\ ext = Cells(hs, Count, TimerIrqs[kind])
    OBVIOUS
  <2>2. Made(timer(kind), kind, entry.base, 0, reg, ext, {}, -1, {})
    BY <2>1, MadeTimers
  <2>3. reg # <<>>
    BY <2>1, RangesThere
  <2> HIDE DEF timer
  <2>4. Views({timer(kind)}) = {View(kind, reg, {})} /\ DOMAIN timer(kind) = DOMAIN Node0
    <3>1. /\ DOMAIN timer(kind) = DOMAIN Node0 /\ timer(kind).kind = kind /\ timer(kind).reg = reg
          /\ timer(kind).irqs = {}
      BY <2>2, Zenon DEF Made
    <3> QED BY <2>3, <3>1, NodeView
  <2> QED BY <2>1, <2>4
<1>6. Views({MemoryNode}) = {View("memory", <<MemoryEntry(sock)>>, {})} /\ DOMAIN MemoryNode = DOMAIN Node0
  <2>1. PICK entry, reg : entry = MemoryEntry(sock) /\ reg = <<entry>>
    OBVIOUS
  <2>2. Made(MemoryNode, "memory", entry.base, 0, reg, <<>>, {}, -1, {})
    BY <2>1, MadeMemory
  <2>3. reg # <<>>
    BY <2>1, RangesThere
  <2>4. Views({MemoryNode}) = {View("memory", reg, {})} /\ DOMAIN MemoryNode = DOMAIN Node0
    <3>1. /\ DOMAIN MemoryNode = DOMAIN Node0 /\ MemoryNode.kind = "memory" /\ MemoryNode.reg = reg
          /\ MemoryNode.irqs = {}
      BY <2>2, Zenon DEF Made
    <3> QED BY <2>3, <3>1, NodeView
  <2> QED BY <2>1, <2>4
<1> HIDE DEF cpu, ctl, core, timer
<1>7. Views(C) = {}
  <2>1. \A n \in C : Views({n}) = {}
    <3> SUFFICES ASSUME NEW n \in C PROVE Views({n}) = {}
      OBVIOUS
    <3>1. PICK k \in 0 .. Count - 1 : n \in { cpu(first + k, CpuPhandle(k)), ctl(first + k, IntcPhandle(k)),
                                            core(first + k, CpuPhandle(k)) }
      BY Zenon
    <3> QED BY <1>4, <3>1
  <2> HIDE DEF C
  <2> QED BY <2>1, ViewsOfMany
<1>8. Views(T) = { View(kind, <<TimerEntry(kind, sock)>>, {}) : kind \in TimerKinds }
  <2>1. \A v : v \in Views(T) <=> \E n \in T : v \in Views({n})
    <3> HIDE DEF T
    <3> QED BY ViewsOfMany
  <2>2. \A v : v \in Views(T) <=> \E kind \in TimerKinds : v = View(kind, <<TimerEntry(kind, sock)>>, {})
    <3> TAKE v
    <3>1. ASSUME v \in Views(T)
          PROVE  \E kind \in TimerKinds : v = View(kind, <<TimerEntry(kind, sock)>>, {})
      <4>1. PICK n \in T : v \in Views({n})
        BY <2>1, <3>1
      <4>2. PICK kind \in TimerKinds : n = timer(kind)
        BY <4>1
      <4> QED BY <1>5, <4>1, <4>2
    <3>2. ASSUME NEW kind \in TimerKinds, v = View(kind, <<TimerEntry(kind, sock)>>, {})
          PROVE  v \in Views(T)
      <4>1. timer(kind) \in T /\ v \in Views({timer(kind)})
        BY <1>5, <3>2
      <4> QED BY <2>1, <4>1
    <3> QED BY <3>1, <3>2
  <2> HIDE DEF T
  <2> QED BY <2>2
<1>9. \A n \in N : DOMAIN n = DOMAIN Node0
  <2>1. \A n \in C : DOMAIN n = DOMAIN Node0
    <3> SUFFICES ASSUME NEW n \in C PROVE DOMAIN n = DOMAIN Node0
      OBVIOUS
    <3>1. PICK k \in 0 .. Count - 1 : n \in { cpu(first + k, CpuPhandle(k)), ctl(first + k, IntcPhandle(k)),
                                            core(first + k, CpuPhandle(k)) }
      BY Zenon
    <3>2. \A at, ph : /\ DOMAIN cpu(at, ph) = DOMAIN Node0 /\ DOMAIN ctl(at, ph) = DOMAIN Node0
                      /\ DOMAIN core(at, ph) = DOMAIN Node0
      BY <1>4
    <3>3. CASE n = cpu(first + k, CpuPhandle(k))
      BY <3>2, <3>3, Zenon
    <3>4. CASE n = ctl(first + k, IntcPhandle(k))
      BY <3>2, <3>4, Zenon
    <3>5. CASE n = core(first + k, CpuPhandle(k))
      BY <3>2, <3>5, Zenon
    <3> QED BY <3>1, <3>3, <3>4, <3>5
  <2>2. \A n \in T : DOMAIN n = DOMAIN Node0
    BY <1>5
  <2> HIDE DEF C, T
  <2> QED BY <1>6, <2>1, <2>2
<1> HIDE DEF C, T
<1>10. Views(N) = SocketViews(sock)
  <2>1. Views(C \cup {MemoryNode}) = Views(C) \cup Views({MemoryNode})
    BY ViewsUnion, Zenon
  <2>2. Views(C \cup {MemoryNode} \cup T) = Views(C \cup {MemoryNode}) \cup Views(T)
    BY ViewsUnion, Zenon
  <2> QED BY <1>6, <1>7, <1>8, <2>1, <2>2 DEF SocketViews
<1>11. Told' = Told \cup SocketViews(sock)
  BY <1>1, ToldInLoop
<1> HIDE DEF N
<1>12. Views(tree)' = Views(tree) \cup SocketViews(sock)
  <2>1. Views(tree)' = Views(tree')
    BY Zenon DEF Views, Tell
  <2> QED BY <1>3, <1>10, <2>1, ViewsUnion
<1>13. TreeKnown' <=> TreeKnown
  BY <1>1 DEF TreeKnown
<1> QED BY <1>1, <1>3, <1>9, <1>11, <1>12, <1>13 DEF ViewsInv

\* A machine has a socket, so an IMSIC has a range.
LEMMA ImsicRangesThere ==
  ASSUME cfg \in Configs, NEW entry, NEW bits
  PROVE  ImsicRanges(entry, bits) # <<>>
<1>1. 1 \in DOMAIN ImsicRanges(entry, bits)
  BY ChipSockets DEF ImsicRanges
<1>2. 1 \notin DOMAIN <<>>
  OBVIOUS
<1> QED BY <1>1, <1>2

\* The nodes of the interrupt controllers tell their ranges.
LEMMA ImsicTells ==
  ASSUME cfg \in Configs, NEW entry, NEW irq, NEW ph, NEW bits, NEW n, n = ImsicNode(entry, irq, ph, bits)
  PROVE  DOMAIN n = DOMAIN Node0 /\ Views({n}) = {View("imsic", ImsicRanges(entry, bits), {})}
<1>1. PICK ext : Made(n, "imsic", entry.base, ph, ImsicRanges(entry, bits), ext, {}, 0, {})
  BY MadeChips
<1>2. /\ DOMAIN n = DOMAIN Node0 /\ n.kind = "imsic" /\ n.reg = ImsicRanges(entry, bits) /\ n.irqs = {}
  BY <1>1, Zenon DEF Made
<1> QED BY <1>2, NodeView, ImsicRangesThere

\* So does the PLIC.
LEMMA PlicTells ==
  ASSUME NEW ph, NEW phandles, NEW n, n = PlicNode(ph, phandles)
  PROVE  DOMAIN n = DOMAIN Node0 /\ Views({n}) = {View("plic", <<Nth(aislab_memmap.PLIC, sock)>>, {})}
<1>1. PICK entry, ext, reg : /\ entry = Nth(aislab_memmap.PLIC, sock)
                             /\ Made(n, "plic", entry.base, ph, reg, ext, {}, 1, {}) /\ reg = <<entry>>
  BY MadeChips, Zenon
<1>2. /\ DOMAIN n = DOMAIN Node0 /\ n.kind = "plic" /\ n.reg = reg /\ n.irqs = {}
  BY <1>1, Zenon DEF Made
<1>3. reg # <<>>
  BY <1>1, RangesThere
<1> QED BY <1>1, <1>2, <1>3, NodeView

\* So does the APLIC of either level.
LEMMA AplicTells ==
  ASSUME NEW map, NEW irq, NEW parent, NEW ph, NEW child, NEW phandles, NEW harts,
         NEW n, n = AplicNode(map, irq, parent, ph, child, phandles, harts)
  PROVE  DOMAIN n = DOMAIN Node0 /\ Views({n}) = {View("aplic", <<Nth(map, sock)>>, {})}
<1>1. PICK entry, ext, reg, refs : /\ entry = Nth(map, sock)
                                   /\ Made(n, "aplic", entry.base, ph, reg, ext, {}, 2, refs)
                                   /\ reg = <<entry>>
  BY MadeChips, Zenon
<1>2. /\ DOMAIN n = DOMAIN Node0 /\ n.kind = "aplic" /\ n.reg = reg /\ n.irqs = {}
  BY <1>1, Zenon DEF Made
<1>3. reg # <<>>
  BY <1>1, RangesThere
<1> QED BY <1>1, <1>2, <1>3, NodeView

\* The platform bus, which is of socket 0, tells its range and its lines.
LEMMA BusTells ==
  ASSUME NEW parent
  PROVE  /\ \A n \in PlatformBusNode(parent) : DOMAIN n = DOMAIN Node0
         /\ Views(PlatformBusNode(parent)) = IF sock = 0 THEN {BusView(parent)} ELSE {}
<1>4. ASSUME NEW n, n \in PlatformBusNode(parent)
      PROVE  DOMAIN n = DOMAIN Node0 /\ Views({n}) = {BusView(parent)}
  <2>1. PICK reg, irqs : /\ reg = <<aislab_memmap.PLATFORM_BUS>>
                         /\ irqs = { Irq(k, parent, AISLAB_PLATFORM_BUS_IRQ + k) :
                                       k \in 0 .. AISLAB_PLATFORM_BUS_NUM_IRQS - 1 }
    OBVIOUS
  <2>2. Made(n, "platform_bus", aislab_memmap.PLATFORM_BUS.base, 0, reg, <<>>, irqs, -1, {})
    BY <1>4, <2>1, MadeChips
  <2>3. /\ DOMAIN n = DOMAIN Node0 /\ n.kind = "platform_bus" /\ n.reg = reg /\ n.irqs = irqs
    BY <2>2, Zenon DEF Made
  <2>4. reg # <<>>
    BY <2>1, RangesThere
  <2>5. Views({n}) = {View("platform_bus", reg, irqs)}
    BY <2>3, <2>4, NodeView
  <2> QED BY <2>1, <2>3, <2>5, Zenon DEF BusView
<1>5. Views(PlatformBusNode(parent)) = IF sock = 0 THEN {BusView(parent)} ELSE {}
  <2>1. CASE sock = 0
    <3>1. PICK n : PlatformBusNode(parent) = {n}
      BY <2>1, Zenon DEF PlatformBusNode
    <3>2. Views({n}) = {BusView(parent)}
      BY <1>4, <3>1
    <3> QED BY <2>1, <3>1, <3>2
  <2>2. CASE sock # 0
    BY <2>2 DEF PlatformBusNode, Views
  <2> QED BY <2>1, <2>2
<1> QED BY <1>4, <1>5

\* create_fdt_imsic: the ranges of each level there is.
LEMMA ViewsFdtImsic ==
  ASSUME ViewsInv, TypesInv, FdtImsic
  PROVE  ViewsInv'
<1>1. /\ pc = "fdt_sockets" /\ pc' = "fdt_xplic" /\ UNCHANGED <<cfg, ramSize, xplic>> /\ sock < 0
      /\ sock' = IF UseKvmAia THEN 0 ELSE cfg.sockets - 1
  BY DEF FdtImsic
<1>2. cfg \in Configs /\ sock \in Int
  BY DEF TypesInv, PhandlesInv, CounterInv
<1>3. PICK mphandle, sphandle :
        tree' = IF Imsic
                THEN tree \cup (IF Kvm THEN {} ELSE {ImsicNode(aislab_memmap.IMSIC_M, "M_EXT", mphandle, 0)})
                          \cup {ImsicNode(aislab_memmap.IMSIC_S, "S_EXT", sphandle, GuestBits)}
                ELSE tree
  BY DEF FdtImsic
<1>10. PICK mnode, snode, bits : /\ mnode = ImsicNode(aislab_memmap.IMSIC_M, "M_EXT", mphandle, 0)
                                 /\ snode = ImsicNode(aislab_memmap.IMSIC_S, "S_EXT", sphandle, bits)
                                 /\ bits = GuestBits
  OBVIOUS
<1> DEFINE N == IF Imsic THEN (IF Kvm THEN {} ELSE {mnode}) \cup {snode} ELSE {}
<1>4. tree' = tree \cup N
  BY <1>3, <1>10
<1>5. /\ DOMAIN mnode = DOMAIN Node0 /\ Views({mnode}) = {View("imsic", ImsicRanges(aislab_memmap.IMSIC_M, 0), {})}
      /\ DOMAIN snode = DOMAIN Node0
      /\ Views({snode}) = {View("imsic", ImsicRanges(aislab_memmap.IMSIC_S, GuestBits), {})}
  <2>1. DOMAIN mnode = DOMAIN Node0 /\ Views({mnode}) = {View("imsic", ImsicRanges(aislab_memmap.IMSIC_M, 0), {})}
    BY <1>2, <1>10, ImsicTells
  <2>2. DOMAIN snode = DOMAIN Node0 /\ Views({snode}) = {View("imsic", ImsicRanges(aislab_memmap.IMSIC_S, bits), {})}
    BY <1>2, <1>10, ImsicTells
  <2> QED BY <1>10, <2>1, <2>2
<1>6. Views(N) = Tells(pc)
  <2>1. Tells(pc) = ImsicViews
    BY <1>1 DEF Tells
  <2>2. Views({}) = {}
    BY DEF Views
  <2>3. Views((IF Kvm THEN {} ELSE {mnode}) \cup {snode}) = Views(IF Kvm THEN {} ELSE {mnode}) \cup Views({snode})
    BY ViewsUnion, Zenon
  <2> QED BY <1>5, <2>1, <2>2, <2>3 DEF ImsicViews
<1>7. \A n \in N : DOMAIN n = DOMAIN Node0
  BY <1>5
<1> HIDE DEF N
<1>8. /\ sock' \in Int /\ (UseKvmAia => sock' <= 0) /\ \A i \in XplicSockets : ~(sock' < i)
  BY <1>1, <1>2, ChipSockets DEF XplicSockets, Sockets
<1>9. pc \in TreeStages \ {"tree"} /\ Rank(pc') = Rank(pc) + 1
  BY <1>1 DEF TreeStages, Rank
<1> QED BY <1>1, <1>2, <1>4, <1>6, <1>7, <1>8, <1>9, ViewsStage

\* create_fdt_socket_plic and create_fdt_socket_aplic, one socket, and the bus
\* with the controller of socket 0.
LEMMA ViewsFdtXplic ==
  ASSUME ViewsInv, TypesInv, FdtXplic
  PROVE  ViewsInv'
<1>1. /\ pc = "fdt_xplic" /\ UNCHANGED <<cfg, ramSize, pc>> /\ sock' = sock - 1
      /\ cfg \in Configs /\ sock \in Sockets /\ sock \in XplicSockets
  <2>1. /\ pc = "fdt_xplic" /\ UNCHANGED <<cfg, ramSize, pc>> /\ sock' = sock - 1 /\ sock >= 0
    BY DEF FdtXplic
  <2>2. cfg \in Configs /\ sock \in -1 .. cfg.sockets - 1
    BY <2>1 DEF TypesInv, PhandlesInv, CounterInv
  <2>3. sock \in Sockets
    BY <2>1, <2>2, ChipSockets DEF Sockets
  <2>4. UseKvmAia => sock = 0
    BY <2>1, <2>2, ChipSockets DEF ViewsInv
  <2> QED BY <2>1, <2>2, <2>3, <2>4 DEF XplicSockets
<1>2. xplic' = [xplic EXCEPT ![sock] = IF cfg.aia = "none" THEN phandle ELSE phandle + 1]
  BY DEF FdtXplic
<1>3. PICK ph, parent, hs, harts :
        /\ ph = phandle /\ parent = (IF cfg.aia = "none" THEN phandle ELSE phandle + 1)
        /\ hs = IntcFrom(pos', intc) /\ harts = IF UseKvmAia THEN cfg.cpus ELSE Count
  OBVIOUS
<1>0. PICK plic, mnode, snode, Bus :
         /\ plic = PlicNode(ph, hs) /\ Bus = PlatformBusNode(parent)
         /\ mnode = AplicNode(aislab_memmap.APLIC_M, "M_EXT", msi[1], ph, ph + 1, hs, harts)
         /\ snode = AplicNode(aislab_memmap.APLIC_S, "S_EXT", msi[2], ph + 1, 0, hs, harts)
  OBVIOUS
<1> DEFINE Chips == IF cfg.aia = "none" THEN {plic} ELSE (IF Kvm THEN {} ELSE {mnode}) \cup {snode}
           N == Chips \cup Bus
<1>4. tree' = tree \cup N
  <2>1. CASE cfg.aia = "none"
    <3>1. tree' = tree \cup {PlicNode(ph, hs)} \cup PlatformBusNode(parent)
      BY <1>3, <2>1, Zenon DEF FdtXplic
    <3> QED BY <1>0, <2>1, <3>1
  <2>2. CASE cfg.aia # "none"
    <3>1. tree' = tree \cup AplicNodes(hs, harts) \cup PlatformBusNode(parent)
      BY <1>3, <2>2, Zenon DEF FdtXplic
    <3>2. AplicNodes(hs, harts) = (IF Kvm THEN {} ELSE {mnode}) \cup {snode}
      BY <1>3, <1>0, Zenon DEF AplicNodes
    <3> QED BY <1>0, <2>2, <3>1, <3>2
  <2> QED BY <2>1, <2>2
<1>5. /\ DOMAIN plic = DOMAIN Node0 /\ Views({plic}) = {View("plic", <<Nth(aislab_memmap.PLIC, sock)>>, {})}
      /\ DOMAIN mnode = DOMAIN Node0 /\ Views({mnode}) = {View("aplic", <<Nth(aislab_memmap.APLIC_M, sock)>>, {})}
      /\ DOMAIN snode = DOMAIN Node0 /\ Views({snode}) = {View("aplic", <<Nth(aislab_memmap.APLIC_S, sock)>>, {})}
      /\ Views(Bus) = (IF sock = 0 THEN {BusView(parent)} ELSE {}) /\ \A n \in Bus : DOMAIN n = DOMAIN Node0
  <2>1. DOMAIN plic = DOMAIN Node0 /\ Views({plic}) = {View("plic", <<Nth(aislab_memmap.PLIC, sock)>>, {})}
    BY <1>0, PlicTells
  <2>2. DOMAIN mnode = DOMAIN Node0 /\ Views({mnode}) = {View("aplic", <<Nth(aislab_memmap.APLIC_M, sock)>>, {})}
    BY <1>0, AplicTells
  <2>3. DOMAIN snode = DOMAIN Node0 /\ Views({snode}) = {View("aplic", <<Nth(aislab_memmap.APLIC_S, sock)>>, {})}
    BY <1>0, AplicTells
  <2>4. Views(Bus) = (IF sock = 0 THEN {BusView(parent)} ELSE {}) /\ \A n \in Bus : DOMAIN n = DOMAIN Node0
    BY <1>0, BusTells
  <2> QED BY <2>1, <2>2, <2>3, <2>4
<1>6. Views(Chips) = ChipViews(sock)
  <2>1. Views({}) = {}
    BY DEF Views
  <2>2. Views((IF Kvm THEN {} ELSE {mnode}) \cup {snode}) = Views(IF Kvm THEN {} ELSE {mnode}) \cup Views({snode})
    BY ViewsUnion, Zenon
  <2> QED BY <1>5, <2>1, <2>2 DEF ChipViews
<1>7. \A n \in N : DOMAIN n = DOMAIN Node0
  BY <1>5
<1> HIDE DEF Chips
<1>8. Views(N) = ChipViews(sock) \cup (IF sock = 0 THEN {BusView(xplic'[0])} ELSE {})
  <2>1. Views(N) = Views(Chips) \cup Views(Bus)
    BY ViewsUnion, Zenon
  <2>2. sock = 0 => xplic'[0] = parent
    <3>1. xplic \in [Sockets -> Nat]
      BY DEF TypesInv, TypeOK
    <3> QED BY <1>1, <1>2, <1>3, <3>1
  <2> QED BY <1>5, <1>6, <2>1, <2>2
<1>9. Told' = Told \cup ChipViews(sock) \cup (IF sock = 0 THEN {BusView(xplic'[0])} ELSE {})
  <2>1. Told' = Told \cup (IF pc = "fdt_sockets" THEN SocketViews(sock)
                            ELSE ChipViews(sock) \cup (IF sock = 0 THEN {BusView(xplic'[0])} ELSE {}))
    BY <1>1, ToldInLoop
  <2> QED BY <1>1, <2>1
<1> HIDE DEF N
<1>10. Views(tree)' = Views(tree) \cup Views(N)
  <2>1. Views(tree)' = Views(tree')
    BY Zenon DEF Views, Tell
  <2> QED BY <1>4, <2>1, ViewsUnion
<1>11. TreeKnown' <=> TreeKnown
  BY <1>1 DEF TreeKnown
<1>12. UseKvmAia' <=> UseKvmAia
  BY <1>1 DEF UseKvmAia
<1>13. UseKvmAia => sock' <= 0
  BY <1>1 DEF XplicSockets
<1> QED BY <1>1, <1>4, <1>7, <1>8, <1>9, <1>10, <1>11, <1>12, <1>13 DEF ViewsInv

\* A device node tells one range and one interrupt.
LEMMA DeviceTells ==
  ASSUME NEW kind, NEW at, NEW d, NEW line, NEW n, n = DeviceNode(kind, at, d, line)
  PROVE  DOMAIN n = DOMAIN Node0 /\ Views({n}) = {DeviceView(kind, at, d, line)}
<1>1. PICK reg, irqs : reg = <<at>> /\ irqs = {Irq(0, IrqPhandle(d), line)}
  OBVIOUS
<1>2. Made(n, kind, at.base, 0, reg, <<>>, irqs, -1, {})
  <2>1. Made(DeviceNode(kind, at, d, line), kind, at.base, 0, <<at>>, <<>>,
             {Irq(0, IrqPhandle(d), line)}, -1, {})
    BY MadeDevices, Zenon
  <2> QED BY <1>1, <2>1
<1>3. DOMAIN n = DOMAIN Node0 /\ n.kind = kind /\ n.reg = reg /\ n.irqs = irqs
  BY <1>2, Zenon DEF Made
<1>4. reg # <<>>
  BY <1>1, RangesThere
<1>5. Views({n}) = {View(kind, reg, irqs)}
  BY <1>3, <1>4, NodeView
<1> QED BY <1>1, <1>3, <1>5, Zenon DEF DeviceView

\* create_fdt_virtio, create_fdt_reset, create_fdt_uart, create_fdt_rtc and
\* create_fdt_mmio_bus: the devices of each.
LEMMA ViewsDevices ==
  ASSUME ViewsInv, TypesInv, FdtVirtio \/ FdtReset \/ FdtUart \/ FdtRtc \/ FdtMmioBus
  PROVE  ViewsInv'
<1>1. cfg \in Configs /\ sock \in Int
  BY DEF TypesInv, PhandlesInv, CounterInv
<1>2. ASSUME NEW from, NEW to, NEW N, Fdt(from, to, N), Rank(to) = Rank(from) + 1,
             from \in TreeStages \ {"tree", "fdt_sockets", "fdt_xplic"}, to \notin {"fdt_sockets", "fdt_xplic"},
             Views(N) = Tells(from), \A n \in N : DOMAIN n = DOMAIN Node0
      PROVE  ViewsInv'
  <2>1. tree' = tree \cup N /\ pc = from /\ pc' = to /\ UNCHANGED <<cfg, ramSize, xplic, sock>>
    BY <1>2 DEF Fdt
  <2> QED BY <1>1, <1>2, <2>1, ViewsStage
<1>3. CASE FdtVirtio
  <2> DEFINE node(k) == DeviceNode("virtio", Nth(aislab_memmap.VIRTIO, k), "virtio", VIRTIO_IRQ + k)
             view(k) == DeviceView("virtio", Nth(aislab_memmap.VIRTIO, k), "virtio", VIRTIO_IRQ + k)
             N == { node(k) : k \in 0 .. VIRTIO_COUNT - 1 }
  <2>1. Fdt("fdt_virtio", "fdt_pcie", N)
    BY <1>3, Zenon DEF FdtVirtio
  <2>2. ASSUME NEW k PROVE DOMAIN node(k) = DOMAIN Node0 /\ Views({node(k)}) = {view(k)}
    <3>1. PICK at, line, n : at = Nth(aislab_memmap.VIRTIO, k) /\ line = VIRTIO_IRQ + k /\ n = node(k)
      OBVIOUS
    <3>2. n = DeviceNode("virtio", at, "virtio", line) /\ view(k) = DeviceView("virtio", at, "virtio", line)
      BY <3>1, Zenon
    <3> HIDE DEF node, view
    <3> QED BY <3>1, <3>2, DeviceTells
  <2>3. Tells("fdt_virtio") = { view(k) : k \in 0 .. VIRTIO_COUNT - 1 }
    BY DEF Tells
  <2> HIDE DEF node, view
  <2>4. Views(N) = Tells("fdt_virtio")
    <3>1. \A v : v \in Views(N) <=> \E n \in N : v \in Views({n})
      <4> HIDE DEF N
      <4> QED BY ViewsOfMany
    <3>2. \A v : v \in Views(N) <=> \E k \in 0 .. VIRTIO_COUNT - 1 : v = view(k)
      <4> TAKE v
      <4>1. ASSUME v \in Views(N)
            PROVE  \E k \in 0 .. VIRTIO_COUNT - 1 : v = view(k)
        <5>1. PICK n \in N : v \in Views({n})
          BY <3>1, <4>1
        <5>2. PICK k \in 0 .. VIRTIO_COUNT - 1 : n = node(k)
          BY <5>1
        <5> QED BY <2>2, <5>1, <5>2
      <4>2. ASSUME NEW k \in 0 .. VIRTIO_COUNT - 1, v = view(k)
            PROVE  v \in Views(N)
        <5>1. node(k) \in N /\ v \in Views({node(k)})
          BY <2>2, <4>2
        <5> QED BY <3>1, <5>1
      <4> QED BY <4>1, <4>2
    <3> HIDE DEF N
    <3> QED BY <2>3, <3>2
  <2>5. \A n \in N : DOMAIN n = DOMAIN Node0
    BY <2>2
  <2> HIDE DEF N
  <2> QED BY <1>2, <2>1, <2>4, <2>5 DEF TreeStages, Rank
<1>4. ASSUME NEW from, NEW to, NEW kind, NEW at, NEW line,
             Fdt(from, to, {DeviceNode(kind, at, "mmio", line)}), Rank(to) = Rank(from) + 1,
             from \in TreeStages \ {"tree", "fdt_sockets", "fdt_xplic"}, to \notin {"fdt_sockets", "fdt_xplic"},
             Tells(from) = {DeviceView(kind, at, "mmio", line)}
      PROVE  ViewsInv'
  <2>1. PICK n, d : n = DeviceNode(kind, at, d, line) /\ d = "mmio"
    OBVIOUS
  <2>2. DOMAIN n = DOMAIN Node0 /\ Views({n}) = Tells(from)
    BY <1>4, <2>1, DeviceTells
  <2>3. Fdt(from, to, {n})
    BY <1>4, <2>1
  <2> QED BY <1>2, <1>4, <2>2, <2>3
<1>5. CASE FdtReset
  <2>1. PICK ph, reg : ph = phandle /\ reg = <<aislab_memmap.TEST>>
    OBVIOUS
  <2> DEFINE test == [Node0 EXCEPT !.kind = "test", !.at = aislab_memmap.TEST.base,
                                   !.reg = <<aislab_memmap.TEST>>, !.phandle = ph]
             switch(kind) == [Node0 EXCEPT !.kind = kind, !.refs = {Ref("regmap", ph)}]
             N == {test, switch("reboot"), switch("poweroff")}
  <2>2. Fdt("fdt_reset", "fdt_uart", N)
    BY <1>5, <2>1, Zenon DEF FdtReset
  <2>3. DOMAIN test = DOMAIN Node0 /\ Views({test}) = {View("test", <<aislab_memmap.TEST>>, {})}
    <3>1. Made(test, "test", aislab_memmap.TEST.base, ph, reg, <<>>, {}, -1, {})
      BY <2>1, MadeDevices, Zenon
    <3> HIDE DEF test
    <3>2. DOMAIN test = DOMAIN Node0 /\ test.kind = "test" /\ test.reg = reg /\ test.irqs = {}
      BY <3>1, Zenon DEF Made
    <3>3. reg # <<>>
      BY <2>1, RangesThere
    <3>4. Views({test}) = {View("test", reg, {})}
      BY <3>2, <3>3, NodeView
    <3> QED BY <2>1, <3>2, <3>4
  <2>4. ASSUME NEW kind PROVE DOMAIN switch(kind) = DOMAIN Node0 /\ Views({switch(kind)}) = {}
    <3>1. Made(switch(kind), kind, 0, ph, <<>>, <<>>, {}, -1, {Ref("regmap", ph)})
            \/ Made(switch(kind), kind, 0, 0, <<>>, <<>>, {}, -1, {Ref("regmap", ph)})
      BY MadeDevices, Zenon
    <3> HIDE DEF switch
    <3> QED BY <3>1, MadeView, Zenon
  <2> HIDE DEF test, switch
  <2>5. Views(N) = Tells("fdt_reset")
    <3>1. N = {test} \cup {switch("reboot")} \cup {switch("poweroff")}
      OBVIOUS
    <3>2. Views({test} \cup {switch("reboot")}) = Views({test}) \cup Views({switch("reboot")})
      BY ViewsUnion, Zenon
    <3>3. Views({test} \cup {switch("reboot")} \cup {switch("poweroff")})
            = Views({test} \cup {switch("reboot")}) \cup Views({switch("poweroff")})
      BY ViewsUnion, Zenon
    <3>4. Tells("fdt_reset") = {View("test", <<aislab_memmap.TEST>>, {})}
      BY DEF Tells
    <3>5. Views({switch("reboot")}) = {} /\ Views({switch("poweroff")}) = {}
      BY <2>4, Zenon
    <3> HIDE DEF N
    <3> QED BY <2>3, <3>1, <3>2, <3>3, <3>4, <3>5
  <2>6. \A n \in N : DOMAIN n = DOMAIN Node0
    BY <2>3, <2>4
  <2> HIDE DEF N
  <2> QED BY <1>2, <2>2, <2>5, <2>6 DEF TreeStages, Rank
<1>6. CASE FdtUart
  <2>1. Fdt("fdt_uart", "fdt_rtc", {DeviceNode("serial", aislab_memmap.UART0, "mmio", UART0_IRQ)})
    BY <1>6, Zenon DEF FdtUart
  <2>2. Tells("fdt_uart") = {DeviceView("serial", aislab_memmap.UART0, "mmio", UART0_IRQ)}
    BY Zenon DEF Tells
  <2> QED BY <1>4, <2>1, <2>2 DEF TreeStages, Rank
<1>7. CASE FdtRtc
  <2>1. Fdt("fdt_rtc", "fdt_mmio_bus", {DeviceNode("rtc", aislab_memmap.RTC, "mmio", RTC_IRQ)})
    BY <1>7, Zenon DEF FdtRtc
  <2>2. Tells("fdt_rtc") = {DeviceView("rtc", aislab_memmap.RTC, "mmio", RTC_IRQ)}
    BY Zenon DEF Tells
  <2> QED BY <1>4, <2>1, <2>2 DEF TreeStages, Rank
<1>8. CASE FdtMmioBus
  <2>1. Fdt("fdt_mmio_bus", "boot", {DeviceNode("mmio_bus", aislab_memmap.MMIO_BUS, "mmio", MMIO_BUS_IRQ)})
    BY <1>8, Zenon DEF FdtMmioBus
  <2>2. Tells("fdt_mmio_bus") = {DeviceView("mmio_bus", aislab_memmap.MMIO_BUS, "mmio", MMIO_BUS_IRQ)}
    BY Zenon DEF Tells
  <2> QED BY <1>4, <2>1, <2>2 DEF TreeStages, Rank
<1> QED BY <1>3, <1>5, <1>6, <1>7, <1>8

\* Nothing that is told before create_fdt_pcie is of the PCI host.
LEMMA NoPciTold ==
  ASSUME pc = "fdt_pcie", NEW v \in Told
  PROVE  v.kind # "pci"
<1>1. \A kind, reg, irqs : View(kind, reg, irqs).kind = kind
  BY DEF View
<1>2. CASE \E p \in Over(TreeStages) : v \in Tells(p)
  <2>1. PICK p \in {"tree", "plug", "fdt_sockets", "fdt_xplic", "fdt_virtio"} : v \in Tells(p)
    BY <1>2 DEF Over, TreeStages, Rank
  <2>2. CASE p = "fdt_sockets"
    <3>1. v \in ImsicViews
      BY <2>1, <2>2 DEF Tells
    <3>2. \E reg : v = View("imsic", reg, {})
      BY <3>1, Zenon DEF ImsicViews
    <3> QED BY <1>1, <3>2
  <2>3. CASE p = "fdt_virtio"
    <3>1. \E k : v = DeviceView("virtio", Nth(aislab_memmap.VIRTIO, k), "virtio", VIRTIO_IRQ + k)
      BY <2>1, <2>3 DEF Tells
    <3>2. \E reg, irqs : v = View("virtio", reg, irqs)
      BY <3>1, Zenon DEF DeviceView
    <3> QED BY <1>1, <3>2
  <2>4. CASE p \in {"tree", "plug", "fdt_xplic"}
    <3>1. \E kind \in {"flash", "fw_cfg"} : \E reg, irqs : v = View(kind, reg, irqs)
      BY <2>1, <2>4 DEF Tells
    <3> QED BY <1>1, <3>1
  <2> QED BY <2>1, <2>2, <2>3, <2>4
<1>3. ASSUME NEW i, v \in SocketViews(i)
      PROVE  v.kind # "pci"
  <2>1. \E kind \in TimerKinds \cup {"memory"} : \E reg, irqs : v = View(kind, reg, irqs)
    BY <1>3, Zenon DEF SocketViews
  <2>2. "pci" \notin TimerKinds \cup {"memory"}
    BY DEF TimerKinds
  <2> QED BY <1>1, <2>1, <2>2
<1>4. ASSUME NEW i, v \in ChipViews(i)
      PROVE  v.kind # "pci"
  <2>1. \E kind \in {"plic", "aplic"} : \E reg, irqs : v = View(kind, reg, irqs)
    BY <1>4 DEF ChipViews
  <2> QED BY <1>1, <2>1
<1>5. CASE v = BusView(xplic[0])
  <2>1. \E reg, irqs : v = View("platform_bus", reg, irqs)
    BY <1>5, Zenon DEF BusView
  <2> QED BY <1>1, <2>1
<1> QED BY <1>2, <1>3, <1>4, <1>5, ToldIs

\* create_fdt_pcie: the host, which was there and had told nothing.
LEMMA ViewsFdtPcie ==
  ASSUME ViewsInv, TypesInv, FdtPcie
  PROVE  ViewsInv'
<1>1. /\ tree' = { Completed(n) : n \in tree } /\ pc = "fdt_pcie" /\ pc' = "fdt_reset"
      /\ UNCHANGED <<cfg, ramSize, xplic, sock>>
  BY Zenon DEF FdtPcie, Completed
<1>2. cfg \in Configs /\ sock \in Int
  BY DEF TypesInv, PhandlesInv, CounterInv
<1>3. PICK reg, irqs : reg = PciRanges /\ irqs = PcieIrqMap
  OBVIOUS
<1>4. reg # <<>>
  BY <1>3, RangesThere DEF PciRanges
<1>5. ASSUME NEW n \in tree, NEW m, m = Completed(n)
      PROVE  /\ DOMAIN m = DOMAIN Node0
             /\ n.kind = "pci" => Views({m}) = {View("pci", reg, irqs)}
             /\ n.kind # "pci" => m = n
  <2>1. DOMAIN n = DOMAIN Node0
    BY DEF ViewsInv
  <2>2. DOMAIN m = DOMAIN Node0 /\ m.kind = n.kind
    BY <1>5, <2>1, NodeCompleted
  <2>3. CASE n.kind = "pci"
    <3>1. PICK more : m = [n EXCEPT !.reg = reg, !.irqs = irqs, !.refs = more]
      BY <1>3, <1>5, <2>3, Zenon DEF Completed, PciRanges
    <3>2. {"reg", "irqs"} \subseteq DOMAIN n
      BY <2>1 DEF Node0
    <3>3. m.reg = reg /\ m.irqs = irqs
      BY <3>1, <3>2
    <3> QED BY <1>4, <2>2, <2>3, <3>3, NodeView
  <2>4. CASE n.kind # "pci"
    BY <1>5, <2>2, <2>4 DEF Completed
  <2> QED BY <2>2, <2>3, <2>4
<1>6. Told' = Told \cup {View("pci", reg, irqs)}
  <2>1. Told' = Told \cup Tells(pc)
    BY <1>1, <1>2, ToldGrows DEF TreeStages, Rank
  <2>2. Tells(pc) = {View("pci", reg, irqs)}
    BY <1>1, <1>3, Zenon DEF Tells
  <2> QED BY <2>1, <2>2
<1>7. \A n \in tree' : DOMAIN n = DOMAIN Node0
  BY <1>1, <1>5
<1>8. ASSUME TreeKnown' PROVE Views(tree)' = Told'
  <2>1. Views(tree) = Told
    BY <1>1, <1>8 DEF ViewsInv, TreeKnown, Rank
  <2>2. Views(tree)' = Views(tree')
    BY Zenon DEF Views, Tell
  <2>3. \A v : v \in Views(tree') <=> \E n \in tree' : v \in Views({n})
    BY ViewsOfMany
  <2>4. \A v : v \in Views(tree) <=> \E n \in tree : v \in Views({n})
    BY ViewsOfMany
  <2>5. \A n \in tree : n.kind = "pci" => Views({n}) = {}
    <3> SUFFICES ASSUME NEW n \in tree, n.kind = "pci", NEW v \in Views({n}) PROVE FALSE
      OBVIOUS
    <3>1. v.kind = "pci"
      BY DEF Views, View
    <3>2. v \in Told
      BY <2>1, <2>4
    <3> QED BY <1>1, <3>1, <3>2, NoPciTold
  <2>6. ASSUME NEW v
        PROVE  v \in Views(tree') <=> v \in Told'
    <3>1. ASSUME v \in Views(tree') PROVE v \in Told'
      <4>1. PICK m \in tree' : v \in Views({m})
        BY <2>3, <3>1
      <4>2. PICK n \in tree : m = Completed(n)
        BY <1>1, <4>1
      <4>3. CASE n.kind = "pci"
        BY <1>5, <1>6, <4>1, <4>2, <4>3
      <4>4. CASE n.kind # "pci"
        BY <1>5, <1>6, <2>1, <2>4, <4>1, <4>2, <4>4
      <4> QED BY <4>3, <4>4
    <3>2. ASSUME v \in Told PROVE v \in Views(tree')
      <4>1. PICK n \in tree : v \in Views({n})
        BY <2>1, <2>4, <3>2
      <4>2. n.kind # "pci"
        BY <2>5, <4>1
      <4>3. PICK m : m = Completed(n)
        OBVIOUS
      <4>4. m \in tree' /\ m = n
        BY <1>1, <1>5, <4>2, <4>3
      <4> QED BY <2>3, <4>1, <4>4
    <3>3. View("pci", reg, irqs) \in Views(tree')
      <4>1. PICK n \in tree : n.kind = "pci"
        BY <1>1 DEF ViewsInv
      <4>2. PICK m : m = Completed(n)
        OBVIOUS
      <4>3. m \in tree' /\ Views({m}) = {View("pci", reg, irqs)}
        BY <1>1, <1>5, <4>1, <4>2
      <4> QED BY <2>3, <4>3
    <3> QED BY <1>6, <3>1, <3>2, <3>3
  <2> QED BY <2>2, <2>6
<1> QED BY <1>1, <1>7, <1>8 DEF ViewsInv

\* aislab_machine_done on its way to finalize_fdt, and between its loops.
LEMMA ViewsBetween ==
  ASSUME ViewsInv, TypesInv, Finalize \/ FdtSocketsEnd
  PROVE  ViewsInv'
<1>1. cfg \in Configs /\ sock \in Int /\ cfg.sockets \in Nat
  BY ChipSockets DEF TypesInv, PhandlesInv, CounterInv
<1>2. Views({}) = {} /\ \A n \in {} : DOMAIN n = DOMAIN Node0
  BY DEF Views
<1>3. CASE Finalize
  <2>1. /\ pc = "plug" /\ pc' = (IF cfg.dtb THEN "boot" ELSE "fdt_sockets") /\ sock' = cfg.sockets - 1
        /\ UNCHANGED <<cfg, ramSize, xplic>> /\ tree' = tree
    BY <1>3 DEF Finalize
  <2>2. CASE cfg.dtb
    BY <2>1, <2>2 DEF ViewsInv, TreeKnown
  <2>3. CASE ~cfg.dtb
    <3>1. Views({}) = Tells(pc)
      BY <1>2, <2>1 DEF Tells
    <3>2. sock' \in Int /\ \A i \in Sockets : ~(sock' < i)
      BY <1>1, <2>1 DEF Sockets
    <3>3. tree' = tree \cup {}
      BY <2>1
    <3>4. /\ pc \in TreeStages \ {"tree"} /\ Rank(pc') = Rank(pc) + 1 /\ pc' # "fdt_xplic"
          /\ pc \notin {"fdt_sockets", "fdt_xplic"}
      BY <2>1, <2>3 DEF TreeStages, Rank
    <3> QED BY <1>1, <1>2, <2>1, <3>1, <3>2, <3>3, <3>4, ViewsStage
  <2> QED BY <2>2, <2>3
<1>4. CASE FdtSocketsEnd
  <2>1. /\ pc = "fdt_xplic" /\ pc' = "fdt_virtio" /\ sock < 0 /\ sock' = sock
        /\ UNCHANGED <<cfg, ramSize, xplic>> /\ tree' = tree \cup {}
    BY <1>4 DEF FdtSocketsEnd, treeVars
  <2>2. Views({}) = Tells(pc)
    BY <1>2, <2>1 DEF Tells
  <2>3. pc \in TreeStages \ {"tree"} /\ Rank(pc') = Rank(pc) + 1
    BY <2>1 DEF TreeStages, Rank
  <2> QED BY <1>1, <1>2, <2>1, <2>2, <2>3, ViewsStage
<1> QED BY <1>3, <1>4

\* The tree tells what its functions make known, one after the other.
LEMMA ViewsNext == ViewsInv /\ TypesInv /\ [Next]_vars => ViewsInv'
<1> SUFFICES ASSUME ViewsInv, TypesInv, [Next]_vars PROVE ViewsInv'
  OBVIOUS
<1>1. CASE BoardStep /\ UNCHANGED <<treeVars, boot>>
  <2>1. pc' \notin {"plug", "fdt_sockets", "fdt_xplic", "fdt_virtio", "fdt_pcie"}
    BY <1>1, BoardRuns
  <2>2. pc' = "exited" \/ Rank(pc') <= 9
    <3> USE DEF Build, Rank
    <3>1. CASE InitChecks \/ InitSocket \/ InitAia \/ MapMemory
      BY <3>1 DEF InitChecks, InitSocket, InitAia, MapMemory
    <3>2. CASE CreateVirtio \/ GpexPcieInit \/ CreatePlatformBus
      BY <3>2 DEF CreateVirtio, GpexPcieInit, CreatePlatformBus
    <3>3. CASE CreateSerialAndRtc \/ ListenMmioBus \/ CreateMmioBus \/ MapFlash
      BY <3>3 DEF CreateSerialAndRtc, ListenMmioBus, CreateMmioBus, MapFlash
    <3> QED BY <1>1, <3>1, <3>2, <3>3 DEF BoardStep
  <2>3. Rank(pc') \in Nat
    BY DEF Rank
  <2> QED BY <1>1, <2>1, <2>2, <2>3 DEF ViewsInv, TreeKnown, treeVars
<1>2. CASE TreeStep
  <2>1. cfg \in Configs
    BY DEF TypesInv, PhandlesInv, CounterInv
  <2> QED BY <1>2, <2>1, ViewsCreateFdt, ViewsPlugIommu, ViewsBetween, ViewsFdtSocket, ViewsFdtImsic, ViewsFdtXplic,
             ViewsFdtPcie, ViewsDevices DEF TreeStep
<1>3. ASSUME UNCHANGED <<cfg, ramSize, sock, tree, xplic>>,
             pc' = pc \/ (pc = "boot" /\ pc' \in {"running", "exited"})
      PROVE  ViewsInv'
  <2>1. Rank(pc') = Rank(pc) /\ (TreeKnown' => TreeKnown)
    BY <1>3 DEF Rank, TreeKnown
  <2>2. Over(TreeStages)' = Over(TreeStages) /\ \A p \in TreeStages : \A i : Passed(p, i)' <=> Passed(p, i)
    BY <1>3, <2>1 DEF Over, Passed, TreeStages
  <2>3. Told' = Told
    <3>1. /\ Sockets' = Sockets /\ XplicSockets' = XplicSockets /\ BusView(xplic[0])' = BusView(xplic[0])
          /\ \A i : SocketViews(i)' = SocketViews(i) /\ ChipViews(i)' = ChipViews(i)
          /\ \A p : Tells(p)' = Tells(p)
      BY <1>3, TellsKept
    <3>2. \A v : v \in Told' <=> v \in Told
      BY <2>2, <3>1, ToldIs DEF TreeStages
    <3> QED BY <3>2
  <2>4. Views(tree)' = Views(tree)
    BY <1>3 DEF Views, Tell
  <2>5. UseKvmAia' = UseKvmAia
    BY <1>3 DEF UseKvmAia
  <2> QED BY <1>3, <2>1, <2>3, <2>4, <2>5 DEF ViewsInv
<1>4. CASE Boot
  BY <1>3, <1>4 DEF Boot, treeVars
<1>5. CASE ClientConnects /\ UNCHANGED <<treeVars, boot>>
  BY <1>3, <1>5 DEF ClientConnects, treeVars
<1>6. CASE UNCHANGED vars
  BY <1>3, <1>6 DEF vars, boardVars, treeVars
<1> QED BY <1>1, <1>2, <1>4, <1>5, <1>6 DEF Next, Step

-----------------------------------------------------------------------------
(* The finished tree against the finished board *)

\* What is known once finalize_fdt is through, of a machine with enough memory
\* for its sockets and, if it is of 32 bits, not with too much.
Ready ==
  /\ Finalized
  /\ TypesInv /\ CheckedInv /\ BoardInv /\ BuiltInv /\ ViewsInv
  /\ RamFits /\ MemoryShared

\* The numbers of such a machine.
LEMMA ReadyNumbers ==
  ASSUME Ready
  PROVE  /\ cfg \in Configs /\ cfg.sockets \in Nat \ {0} /\ cfg.sockets <= 4
         /\ cfg.ram \in Nat /\ 4 <= cfg.ram /\ ramSize = cfg.ram /\ aislab_high_pcie_memmap = HighPcie
         /\ \A i \in Sockets : i \in {0, 1, 2, 3} /\ i \in SocketIds /\ SocketHasHartids(i)
<1>1. pc \in {"boot", "running"} /\ CounterInv
  BY DEF Ready, Finalized, TypesInv, PhandlesInv
<1>2. /\ cfg \in Configs /\ cfg.sockets \in Nat \ {0} /\ cfg.sockets <= 4
      /\ \A i \in Sockets : i \in {0, 1, 2, 3}
  BY <1>1, SocketNumbers
<1>3. \A i \in Sockets : SocketHasHartids(i)
  BY <1>1 DEF Ready, CheckedInv
<1>4. ramSize = cfg.ram
  BY DEF Ready, BoardInv
<1>5. cfg.ram \in Nat /\ 4 <= cfg.ram
  BY <1>2, ConfigAssumption DEF Ready, MemoryShared, AISLAB_SOCKETS_MAX
<1>6. aislab_high_pcie_memmap = HighPcie
  BY <1>4 DEF aislab_high_pcie_memmap, HighPcie
<1>7. \A i \in Sockets : i \in SocketIds
  BY <1>2 DEF SocketIds, AISLAB_SOCKETS_MAX
<1> QED BY <1>2, <1>3, <1>4, <1>5, <1>6, <1>7

\* Its devices, in their slots and apart.
LEMMA ReadyRegions ==
  ASSUME Ready
  PROVE  /\ \A r \in board : InSlot(r)
         /\ \A r, s \in board : r = s \/ ~Overlaps(r, s)
<1>1. \A r \in board : InSlot(r)
  BY TimersApart, PlicsApart, AplicsApart, BothImsics, RowsApart, AloneInSlots DEF Ready, BoardInv, WholeBoard
<1>2. RegionsDisjoint
  BY BoardInvDisjoint DEF Ready
<1> QED BY <1>1, <1>2 DEF RegionsDisjoint, Ready

\* All that is on the board.
LEMMA OnBoard ==
  ASSUME Ready, NEW r
  PROVE  r \in board <=> \/ \E i \in Sockets : r \in SocketRegions(i)
                         \/ \E p \in BoardStages : r \in Adds(p)
<1>1. pc \in {"boot", "running"}
  BY DEF Ready, Finalized
<1>2. board = Built
  BY <1>1 DEF Ready, BuiltInv
<1>3. SocketsMade = Sockets /\ Over(BoardStages) = BoardStages
  BY <1>1 DEF SocketsMade, Over, BoardStages, Rank
<1> QED BY <1>2, <1>3, Zenon DEF Built

\* All that the tree tells.
LEMMA InTree ==
  ASSUME Ready, NEW v
  PROVE  v \in Views(tree) <=> \/ \E p \in TreeStages : v \in Tells(p)
                               \/ \E i \in Sockets : v \in SocketViews(i)
                               \/ \E i \in XplicSockets : v \in ChipViews(i)
                               \/ v = BusView(xplic[0])
<1>1. pc \in {"boot", "running"} /\ ~cfg.dtb
  BY DEF Ready, Finalized
<1>2. Views(tree) = Told
  BY <1>1 DEF Ready, ViewsInv, TreeKnown, Rank
<1>3. Over(TreeStages) = TreeStages /\ \A i : Passed("fdt_sockets", i) /\ Passed("fdt_xplic", i)
  BY <1>1 DEF Over, TreeStages, Passed, Rank
<1> QED BY <1>2, <1>3, ToldIs

\* A range of a node of this kind is as it should be.
Fits(kind, e) ==
  /\ \E r \in board : Overlaps(r, e)
  /\ \A r \in board : Overlaps(r, e) =>
       /\ r.dev \in StandsFor[kind]
       /\ \/ Inside(r, e)
          \/ r.dev = "ram" /\ Inside(e, r)

\* The tree tells of this device.
Seen(r) == \E v \in Views(tree) : \E k \in DOMAIN v.reg : Inside(r, v.reg[k])

\* It is enough to look at what nodes tell.
LEMMA ViewsAreNodes ==
  ASSUME \A v \in Views(tree) : \A k \in DOMAIN v.reg : Fits(v.kind, v.reg[k]),
         \A r \in board : r.dev \notin {"mrom", "ram"} => Seen(r)
  PROVE  NodesDescribeDevices
<1>1. ASSUME NEW n \in tree, NEW k \in DOMAIN n.reg
      PROVE  Fits(n.kind, n.reg[k])
  <2>1. n.reg # <<>>
    OBVIOUS
  <2>2. View(n.kind, n.reg, n.irqs) \in Views(tree)
    BY <2>1 DEF Views, Tell
  <2> QED BY <2>2 DEF View
<1>2. ASSUME NEW r \in board, r.dev \notin {"mrom", "ram"}
      PROVE  \E n \in tree : Describes(n, r)
  <2>1. PICK v \in Views(tree) : \E k \in DOMAIN v.reg : Inside(r, v.reg[k])
    BY <1>2 DEF Seen
  <2>2. PICK n \in tree : v = View(n.kind, n.reg, n.irqs)
    BY DEF Views
  <2>3. v.reg = n.reg
    BY <2>2 DEF View
  <2> QED BY <2>1, <2>3 DEF Describes
<1> QED BY <1>1, <1>2 DEF NodesDescribeDevices, Fits

\* A range that is exactly that of a device.
LEMMA ExactFits ==
  ASSUME Ready, NEW dev, NEW n, NEW at, NEW serves, Region(dev, n, at, serves) \in board, 0 < at.size,
         NEW kind, dev \in StandsFor[kind]
  PROVE  Fits(kind, at)
<1>1. PICK d : d = Region(dev, n, at, serves)
  OBVIOUS
<1>2. d \in board /\ d.dev = dev /\ d.base = at.base /\ d.size = at.size
  BY <1>1 DEF Region
<1>3. \A r \in board : InSlot(r)
  BY ReadyRegions
<1>4. Overlaps(d, at)
  BY <1>2, <1>3 DEF Overlaps, InSlot
<1>5. ASSUME NEW r \in board, Overlaps(r, at) PROVE r = d
  <2>1. Overlaps(r, d)
    BY <1>2, <1>5 DEF Overlaps
  <2> QED BY <1>2, <2>1, ReadyRegions
<1>6. Inside(d, at)
  BY <1>2, <1>3 DEF Inside, InSlot
<1> QED BY <1>2, <1>4, <1>5, <1>6 DEF Fits

\* It tells of the device.
LEMMA ExactSeen ==
  ASSUME Ready, NEW dev, NEW n, NEW at, NEW serves, NEW r \in board, r = Region(dev, n, at, serves),
         NEW v \in Views(tree), NEW k \in DOMAIN v.reg, v.reg[k] = at
  PROVE  Seen(r)
<1>1. InSlot(r)
  BY ReadyRegions
<1>2. r.base = at.base /\ r.size = at.size
  BY DEF Region
<1>3. Inside(r, at)
  BY <1>1, <1>2 DEF Inside, InSlot
<1> QED BY <1>3 DEF Seen

\* Which devices a kind of node stands for.
LEMMA StandsForIs ==
  /\ StandsFor["memory"] = {"ram"} /\ StandsFor["flash"] = {"flash"} /\ StandsFor["clint"] = {"mswi", "mtimer"}
  /\ StandsFor["mswi"] = {"mswi"} /\ StandsFor["mtimer"] = {"mtimer"} /\ StandsFor["sswi"] = {"sswi"}
  /\ StandsFor["plic"] = {"plic"} /\ StandsFor["aplic"] = {"aplic_m", "aplic_s"}
  /\ StandsFor["imsic"] = {"imsic_m", "imsic_s"} /\ StandsFor["virtio"] = {"virtio"}
  /\ StandsFor["pci"] = {"ecam", "pio", "pcie_mmio", "pcie_mmio_high"} /\ StandsFor["test"] = {"test"}
  /\ StandsFor["serial"] = {"uart"} /\ StandsFor["rtc"] = {"rtc"} /\ StandsFor["mmio_bus"] = {"mmio_bus"}
  /\ StandsFor["fw_cfg"] = {"fw_cfg"} /\ StandsFor["platform_bus"] = {"platform_bus"}
BY DEF StandsFor

\* The devices of which every machine has the same.
LEMMA FixedOnBoard ==
  ASSUME Ready
  PROVE  /\ Plain("ram", At(aislab_memmap.DRAM.base, cfg.ram)) \in board
         /\ Plain("fw_cfg", aislab_memmap.FW_CFG) \in board /\ Plain("test", aislab_memmap.TEST) \in board
         /\ \A n \in 0 .. VIRTIO_COUNT - 1 : Region("virtio", n, Nth(aislab_memmap.VIRTIO, n), <<>>) \in board
         /\ Plain("ecam", aislab_memmap.PCIE_ECAM) \in board
         /\ Plain("pcie_mmio", aislab_memmap.PCIE_MMIO) \in board
         /\ Plain("pcie_mmio_high", aislab_high_pcie_memmap) \in board
         /\ Plain("pio", aislab_memmap.PCIE_PIO) \in board
         /\ Plain("platform_bus", aislab_memmap.PLATFORM_BUS) \in board
         /\ Plain("uart", aislab_memmap.UART0) \in board /\ Plain("rtc", aislab_memmap.RTC) \in board
         /\ Plain("mmio_bus", At(aislab_memmap.MMIO_BUS.base, MMIO_SIZE)) \in board
         /\ \A n \in {0, 1} : Region("flash", n, FlashHalf(n), <<>>) \in board
<1>1. \A p \in BoardStages : \A r \in Adds(p) : r \in board
  BY OnBoard
<1>2. /\ Adds("memory") \subseteq board /\ Adds("virtio") \subseteq board /\ Adds("pcie") \subseteq board
      /\ Adds("platform") \subseteq board /\ Adds("serial") \subseteq board
      /\ Adds("mmio_bus") \subseteq board /\ Adds("flash") \subseteq board
  BY <1>1 DEF BoardStages
<1>3. /\ Plain("ram", At(aislab_memmap.DRAM.base, cfg.ram)) \in Adds("memory")
      /\ Plain("fw_cfg", aislab_memmap.FW_CFG) \in Adds("memory")
      /\ Plain("test", aislab_memmap.TEST) \in Adds("memory")
  BY Zenon DEF Adds
<1>4. \A n \in 0 .. VIRTIO_COUNT - 1 : Region("virtio", n, Nth(aislab_memmap.VIRTIO, n), <<>>) \in Adds("virtio")
  BY Zenon DEF Adds, AllVirtio
<1>5. /\ Plain("ecam", aislab_memmap.PCIE_ECAM) \in Adds("pcie")
      /\ Plain("pcie_mmio", aislab_memmap.PCIE_MMIO) \in Adds("pcie")
      /\ Plain("pcie_mmio_high", aislab_high_pcie_memmap) \in Adds("pcie")
      /\ Plain("pio", aislab_memmap.PCIE_PIO) \in Adds("pcie")
  BY Zenon DEF Adds
<1>6. /\ Plain("platform_bus", aislab_memmap.PLATFORM_BUS) \in Adds("platform")
      /\ Plain("uart", aislab_memmap.UART0) \in Adds("serial")
      /\ Plain("rtc", aislab_memmap.RTC) \in Adds("serial")
      /\ Plain("mmio_bus", At(aislab_memmap.MMIO_BUS.base, MMIO_SIZE)) \in Adds("mmio_bus")
  BY Zenon DEF Adds
<1>7. \A n \in {0, 1} : Region("flash", n, FlashHalf(n), <<>>) \in Adds("flash")
  BY Zenon DEF Adds, AllFlash
<1> QED BY <1>2, <1>3, <1>4, <1>5, <1>6, <1>7

\* None of them is empty.
LEMMA FixedSizes ==
  ASSUME Ready
  PROVE  /\ 0 < aislab_memmap.FW_CFG.size /\ 0 < aislab_memmap.TEST.size
         /\ \A n : 0 < Nth(aislab_memmap.VIRTIO, n).size
         /\ 0 < aislab_memmap.PCIE_ECAM.size /\ 0 < aislab_memmap.PCIE_MMIO.size
         /\ 0 < aislab_high_pcie_memmap.size /\ 0 < aislab_memmap.PCIE_PIO.size
         /\ 0 < aislab_memmap.PLATFORM_BUS.size /\ 0 < aislab_memmap.UART0.size /\ 0 < aislab_memmap.RTC.size
         /\ aislab_memmap.MMIO_BUS = At(aislab_memmap.MMIO_BUS.base, MMIO_SIZE) /\ 0 < aislab_memmap.MMIO_BUS.size
         /\ \A n : 0 < FlashHalf(n).size
         /\ \A n : 0 < Nth(aislab_memmap.PLIC, n).size /\ 0 < Nth(aislab_memmap.APLIC_M, n).size
                /\ 0 < Nth(aislab_memmap.APLIC_S, n).size
<1>1. \A base, size : At(base, size).base = base /\ At(base, size).size = size
  BY DEF At
<1>2. MMIO_SIZE = 393216
  BY DEF MMIO_SIZE, MiB, KiB
<1>3. 0 < aislab_high_pcie_memmap.size
  BY <1>1 DEF aislab_high_pcie_memmap, AISLAB32_HIGH_PCIE_MMIO, AISLAB64_HIGH_PCIE_MMIO_SIZE, GiB, MiB, KiB
<1>4. /\ \A n : 0 < Nth(aislab_memmap.VIRTIO, n).size /\ 0 < FlashHalf(n).size
      /\ \A n : 0 < Nth(aislab_memmap.PLIC, n).size /\ 0 < Nth(aislab_memmap.APLIC_M, n).size
                /\ 0 < Nth(aislab_memmap.APLIC_S, n).size
  BY <1>1, MapNumbers DEF Nth, FlashHalf
<1> QED BY <1>1, <1>2, <1>3, <1>4, MapNumbers

\* Where the tree has them they are.
LEMMA FixedFits ==
  ASSUME Ready, NEW p \in TreeStages \ {"fdt_sockets"}, NEW v \in Tells(p), NEW k \in DOMAIN v.reg
  PROVE  Fits(v.kind, v.reg[k])
<1> USE StandsForIs, FixedSizes, FixedOnBoard, ExactFits DEF Plain
<1>1. \A kind, reg, irqs : View(kind, reg, irqs).kind = kind /\ View(kind, reg, irqs).reg = reg
  BY DEF View
<1>2. ASSUME NEW kind, NEW at, NEW irqs, v = View(kind, <<at>>, irqs), Fits(kind, at)
      PROVE  Fits(v.kind, v.reg[k])
  <2>1. v.kind = kind /\ v.reg = <<at>>
    BY <1>1, <1>2
  <2> QED BY <1>2, <2>1
<1>3. CASE p = "tree"
  <2>1. v = View("flash", <<FlashHalf(0), FlashHalf(1)>>, {}) \/ v = View("fw_cfg", <<aislab_memmap.FW_CFG>>, {})
    BY <1>3, Zenon DEF Tells
  <2>2. Fits("flash", FlashHalf(0)) /\ Fits("flash", FlashHalf(1)) /\ Fits("fw_cfg", aislab_memmap.FW_CFG)
    OBVIOUS
  <2>3. CASE v = View("flash", <<FlashHalf(0), FlashHalf(1)>>, {})
    <3>1. v.kind = "flash" /\ v.reg = <<FlashHalf(0), FlashHalf(1)>>
      BY <1>1, <2>3
    <3> QED BY <2>2, <3>1
  <2> QED BY <1>2, <2>1, <2>2, <2>3
<1>4. CASE p = "fdt_virtio"
  <2>1. PICK n \in 0 .. VIRTIO_COUNT - 1 : v = DeviceView("virtio", Nth(aislab_memmap.VIRTIO, n), "virtio", VIRTIO_IRQ + n)
    BY <1>4 DEF Tells
  <2>2. Fits("virtio", Nth(aislab_memmap.VIRTIO, n))
    OBVIOUS
  <2>3. PICK irqs : v = View("virtio", <<Nth(aislab_memmap.VIRTIO, n)>>, irqs)
    BY <2>1, Zenon DEF DeviceView
  <2> QED BY <1>2, <2>2, <2>3
<1>5. CASE p = "fdt_pcie"
  <2>1. v = View("pci", PciRanges, PcieIrqMap)
    BY <1>5 DEF Tells
  <2>2. v.kind = "pci" /\ v.reg = PciRanges
    BY <1>1, <2>1
  <2>3. /\ Fits("pci", aislab_memmap.PCIE_ECAM) /\ Fits("pci", aislab_memmap.PCIE_PIO)
        /\ Fits("pci", aislab_memmap.PCIE_MMIO) /\ Fits("pci", aislab_high_pcie_memmap)
    OBVIOUS
  <2> QED BY <2>2, <2>3 DEF PciRanges
<1>6. CASE p = "fdt_reset"
  <2>1. v = View("test", <<aislab_memmap.TEST>>, {})
    BY <1>6 DEF Tells
  <2>2. Fits("test", aislab_memmap.TEST)
    OBVIOUS
  <2> QED BY <1>2, <2>1, <2>2
<1>7. CASE p = "fdt_uart"
  <2>1. v = DeviceView("serial", aislab_memmap.UART0, "mmio", UART0_IRQ)
    BY <1>7 DEF Tells
  <2>2. Fits("serial", aislab_memmap.UART0)
    OBVIOUS
  <2>3. PICK irqs : v = View("serial", <<aislab_memmap.UART0>>, irqs)
    BY <2>1, Zenon DEF DeviceView
  <2> QED BY <1>2, <2>2, <2>3
<1>8. CASE p = "fdt_rtc"
  <2>1. v = DeviceView("rtc", aislab_memmap.RTC, "mmio", RTC_IRQ)
    BY <1>8 DEF Tells
  <2>2. Fits("rtc", aislab_memmap.RTC)
    OBVIOUS
  <2>3. PICK irqs : v = View("rtc", <<aislab_memmap.RTC>>, irqs)
    BY <2>1, Zenon DEF DeviceView
  <2> QED BY <1>2, <2>2, <2>3
<1>9. CASE p = "fdt_mmio_bus"
  <2>1. v = DeviceView("mmio_bus", aislab_memmap.MMIO_BUS, "mmio", MMIO_BUS_IRQ)
    BY <1>9 DEF Tells
  <2>2. Fits("mmio_bus", aislab_memmap.MMIO_BUS)
    OBVIOUS
  <2>3. PICK irqs : v = View("mmio_bus", <<aislab_memmap.MMIO_BUS>>, irqs)
    BY <2>1, Zenon DEF DeviceView
  <2> QED BY <1>2, <2>2, <2>3
<1>10. p \in {"plug", "fdt_xplic"} => FALSE
  BY DEF Tells
<1> QED BY <1>3, <1>4, <1>5, <1>6, <1>7, <1>8, <1>9, <1>10 DEF TreeStages

\* And the tree has them all but the boot ROM, and the memory, of which it has parts.
LEMMA FixedSeen ==
  ASSUME Ready, NEW p \in BoardStages \ {"sockets"}, NEW r \in Adds(p), r.dev \notin {"mrom", "ram"}
  PROVE  Seen(r)
<1>1. r \in board
  BY OnBoard
<1>2. \A kind, reg, irqs : View(kind, reg, irqs).reg = reg
  BY DEF View
<1>3. ASSUME NEW dev, NEW n, NEW at, r = Region(dev, n, at, <<>>), NEW kind, NEW irqs,
             View(kind, <<at>>, irqs) \in Views(tree)
      PROVE  Seen(r)
  <2>1. PICK v : v = View(kind, <<at>>, irqs)
    OBVIOUS
  <2>2. v \in Views(tree) /\ v.reg = <<at>>
    BY <1>2, <1>3, <2>1
  <2>3. 1 \in DOMAIN v.reg /\ v.reg[1] = at
    BY <2>2
  <2> QED BY <1>1, <1>3, <2>2, <2>3, ExactSeen
<1>4. \A q \in TreeStages : \A v \in Tells(q) : v \in Views(tree)
  BY InTree
<1>5. ASSUME NEW q \in TreeStages, NEW kind, NEW at, NEW d, NEW line,
             DeviceView(kind, at, d, line) \in Tells(q)
      PROVE  \E irqs : View(kind, <<at>>, irqs) \in Views(tree)
  BY <1>4, <1>5 DEF DeviceView
<1>6. CASE p = "memory"
  <2>1. r = Plain("fw_cfg", aislab_memmap.FW_CFG) \/ r = Plain("test", aislab_memmap.TEST)
    BY <1>6 DEF Adds, Plain, Region
  <2>2. View("fw_cfg", <<aislab_memmap.FW_CFG>>, {}) \in Tells("tree")
    BY Zenon DEF Tells
  <2>3. View("test", <<aislab_memmap.TEST>>, {}) \in Tells("fdt_reset")
    BY Zenon DEF Tells
  <2> QED BY <1>3, <1>4, <2>1, <2>2, <2>3 DEF Plain, TreeStages
<1>7. CASE p = "virtio"
  <2>1. PICK n \in 0 .. VIRTIO_COUNT - 1 : r = Region("virtio", n, Nth(aislab_memmap.VIRTIO, n), <<>>)
    BY <1>7 DEF Adds, AllVirtio
  <2>2. DeviceView("virtio", Nth(aislab_memmap.VIRTIO, n), "virtio", VIRTIO_IRQ + n) \in Tells("fdt_virtio")
    BY Zenon DEF Tells
  <2>3. PICK irqs : View("virtio", <<Nth(aislab_memmap.VIRTIO, n)>>, irqs) \in Views(tree)
    BY <1>5, <2>2 DEF TreeStages
  <2> QED BY <1>3, <2>1, <2>3
<1>8. CASE p = "pcie"
  <2>1. \E dev : \E k \in 1 .. 4 : r = Region(dev, 0, PciRanges[k], <<>>)
    <3>1. PICK a, b, c, d : /\ PciRanges = <<a, b, c, d>> /\ a = aislab_memmap.PCIE_ECAM
                            /\ b = aislab_memmap.PCIE_PIO /\ c = aislab_memmap.PCIE_MMIO
                            /\ d = aislab_high_pcie_memmap
      BY Zenon DEF PciRanges
    <3>2. /\ PciRanges[1] = aislab_memmap.PCIE_ECAM /\ PciRanges[2] = aislab_memmap.PCIE_PIO
          /\ PciRanges[3] = aislab_memmap.PCIE_MMIO /\ PciRanges[4] = aislab_high_pcie_memmap
      BY <3>1
    <3>3. \/ r = Plain("ecam", aislab_memmap.PCIE_ECAM) \/ r = Plain("pcie_mmio", aislab_memmap.PCIE_MMIO)
          \/ r = Plain("pcie_mmio_high", aislab_high_pcie_memmap) \/ r = Plain("pio", aislab_memmap.PCIE_PIO)
      BY <1>8, Zenon DEF Adds
    <3> QED BY <3>2, <3>3 DEF Plain
  <2>2. PICK v : v = View("pci", PciRanges, PcieIrqMap)
    OBVIOUS
  <2>3. v \in Views(tree) /\ v.reg = PciRanges
    <3>1. v \in Tells("fdt_pcie")
      BY <2>2, Zenon DEF Tells
    <3> QED BY <1>2, <1>4, <2>2, <3>1 DEF TreeStages
  <2>4. DOMAIN v.reg = 1 .. 4
    BY <2>3 DEF PciRanges
  <2> QED BY <1>1, <2>1, <2>3, <2>4, ExactSeen
<1>9. CASE p = "platform"
  <2>1. r = Plain("platform_bus", aislab_memmap.PLATFORM_BUS)
    BY <1>9 DEF Adds
  <2>2. BusView(xplic[0]) \in Views(tree)
    BY InTree
  <2> QED BY <1>3, <2>1, <2>2 DEF BusView, Plain
<1>10. CASE p = "serial"
  <2>1. r = Plain("uart", aislab_memmap.UART0) \/ r = Plain("rtc", aislab_memmap.RTC)
    BY <1>10 DEF Adds
  <2>2. DeviceView("serial", aislab_memmap.UART0, "mmio", UART0_IRQ) \in Tells("fdt_uart")
    BY Zenon DEF Tells
  <2>3. DeviceView("rtc", aislab_memmap.RTC, "mmio", RTC_IRQ) \in Tells("fdt_rtc")
    BY Zenon DEF Tells
  <2>4. PICK irqs : View("serial", <<aislab_memmap.UART0>>, irqs) \in Views(tree)
    BY <1>5, <2>2 DEF TreeStages
  <2>5. PICK lines : View("rtc", <<aislab_memmap.RTC>>, lines) \in Views(tree)
    BY <1>5, <2>3 DEF TreeStages
  <2> QED BY <1>3, <2>1, <2>4, <2>5 DEF Plain
<1>11. CASE p = "mmio_bus"
  <2>1. r = Plain("mmio_bus", aislab_memmap.MMIO_BUS)
    BY <1>11, FixedSizes DEF Adds
  <2>2. DeviceView("mmio_bus", aislab_memmap.MMIO_BUS, "mmio", MMIO_BUS_IRQ) \in Tells("fdt_mmio_bus")
    BY Zenon DEF Tells
  <2>3. PICK irqs : View("mmio_bus", <<aislab_memmap.MMIO_BUS>>, irqs) \in Views(tree)
    BY <1>5, <2>2 DEF TreeStages
  <2> QED BY <1>3, <2>1, <2>3 DEF Plain
<1>12. CASE p = "flash"
  <2>1. r = Region("flash", 0, FlashHalf(0), <<>>) \/ r = Region("flash", 1, FlashHalf(1), <<>>)
    BY <1>12 DEF Adds, AllFlash
  <2>2. PICK v : v = View("flash", <<FlashHalf(0), FlashHalf(1)>>, {})
    OBVIOUS
  <2>3. v \in Views(tree) /\ v.reg = <<FlashHalf(0), FlashHalf(1)>>
    <3>1. v \in Tells("tree")
      BY <2>2, Zenon DEF Tells
    <3> QED BY <1>2, <1>4, <2>2, <3>1 DEF TreeStages
  <2>4. 1 \in DOMAIN v.reg /\ 2 \in DOMAIN v.reg /\ v.reg[1] = FlashHalf(0) /\ v.reg[2] = FlashHalf(1)
    BY <2>3
  <2> QED BY <1>1, <2>1, <2>3, <2>4, ExactSeen
<1> QED BY <1>6, <1>7, <1>8, <1>9, <1>10, <1>11, <1>12 DEF BoardStages

\* The board, kind by kind: the in-kernel irqchip has one APLIC, of socket 0.
LEMMA BoardByKind ==
  ASSUME Ready, NEW r
  PROVE  r \in board <=>
           \/ \E i \in Sockets : r \in TimerRegions(i)
           \/ (cfg.aia = "none" /\ \E i \in XplicSockets : r \in PlicRegions(i))
           \/ /\ cfg.aia # "none"
              /\ \E i \in XplicSockets :
                   \/ r = AplicRegion(i, "aplic_s", aislab_memmap.APLIC_S, "S_EXT")
                   \/ (~Kvm /\ r = AplicRegion(i, "aplic_m", aislab_memmap.APLIC_M, "M_EXT"))
           \/ /\ Imsic
              /\ \E i \in Sockets :
                   \/ r \in ImsicRegions(i, "imsic_s", aislab_memmap.IMSIC_S, "S_EXT", cfg.guests)
                   \/ (~Kvm /\ r \in ImsicRegions(i, "imsic_m", aislab_memmap.IMSIC_M, "M_EXT", 0))
           \/ \E p \in BoardStages \ {"sockets"} : r \in Adds(p)
<1> DEFINE T == \E i \in Sockets : r \in TimerRegions(i)
           A(i) == \/ r = AplicRegion(i, "aplic_s", aislab_memmap.APLIC_S, "S_EXT")
                   \/ (~Kvm /\ r = AplicRegion(i, "aplic_m", aislab_memmap.APLIC_M, "M_EXT"))
           I(i) == \/ r \in ImsicRegions(i, "imsic_s", aislab_memmap.IMSIC_S, "S_EXT", cfg.guests)
                   \/ (~Kvm /\ r \in ImsicRegions(i, "imsic_m", aislab_memmap.IMSIC_M, "M_EXT", 0))
           R == \E p \in BoardStages \ {"sockets"} : r \in Adds(p)
<1>1. r \in board <=> (\E i \in Sockets : r \in SocketRegions(i)) \/ r \in Adds("sockets") \/ R
  BY OnBoard DEF BoardStages
<1>2. (UseKvmAia => Kvm /\ Imsic /\ cfg.aia # "none") /\ (Imsic => cfg.aia # "none")
  <2>1. cfg.irqchipInKernel => cfg.accel = "kvm"
    BY ReadyNumbers, ConfigAssumption
  <2> QED BY <2>1 DEF UseKvmAia, Kvm, Imsic
<1>3. (\E i \in Sockets : r \in SocketRegions(i)) <=>
        \/ T
        \/ (cfg.aia = "none" /\ \E i \in Sockets : r \in PlicRegions(i))
        \/ (cfg.aia # "none" /\ ~UseKvmAia /\ \E i \in Sockets : A(i))
        \/ (cfg.aia # "none" /\ ~UseKvmAia /\ Imsic /\ \E i \in Sockets : I(i))
  <2>1. ASSUME NEW i
        PROVE  r \in AiaRegions(i) <=> ~UseKvmAia /\ (A(i) \/ (Imsic /\ I(i)))
    BY DEF AiaRegions
  <2>2. \A i : r \in SocketRegions(i) <=> ( \/ r \in TimerRegions(i)
                                          \/ (cfg.aia = "none" /\ r \in PlicRegions(i))
                                          \/ (cfg.aia # "none" /\ r \in AiaRegions(i)) )
    BY DEF SocketRegions
  <2> HIDE DEF A, I
  <2> QED BY <2>1, <2>2
<1>4. r \in Adds("sockets") <=> UseKvmAia /\ (A(0) \/ \E i \in Sockets : I(i))
  <2>1. Adds("sockets") = IF UseKvmAia THEN KvmAiaRegions ELSE {}
    BY Zenon DEF Adds
  <2>2. r \in KvmAiaRegions <=>
          \/ r = AplicRegion(0, "aplic_s", aislab_memmap.APLIC_S, "S_EXT")
          \/ \E i \in Sockets : r \in ImsicRegions(i, "imsic_s", aislab_memmap.IMSIC_S, "S_EXT", cfg.guests)
    BY Zenon DEF KvmAiaRegions
  <2> QED BY <1>2, <2>1, <2>2
<1>5. XplicSockets = IF UseKvmAia THEN {0} ELSE Sockets
  BY DEF XplicSockets
<1> HIDE DEF A, I, T, R
<1>6. r \in board <=> ( \/ T
                       \/ (cfg.aia = "none" /\ \E i \in XplicSockets : r \in PlicRegions(i))
                       \/ (cfg.aia # "none" /\ \E i \in XplicSockets : A(i))
                       \/ (Imsic /\ \E i \in Sockets : I(i))
                       \/ R )
  BY <1>1, <1>2, <1>3, <1>4, <1>5
<1> QED BY <1>6 DEF A, I, T, R

\* Nothing but what is of a part of the map is there.
LEMMA SlotOwner ==
  ASSUME Ready, NEW r \in board, NEW d \in Devices, r.base < Slot(d)[2], Slot(d)[1] < r.base + r.size
  PROVE  \/ r.dev = d \/ (r.dev \in Timers /\ d \in Timers)
         \/ (r.dev = "plic" /\ d \in Aplics) \/ (d = "plic" /\ r.dev \in Aplics)
<1>1. InSlot(r) /\ cfg \in Configs /\ RamFits
  BY ReadyRegions, ReadyNumbers DEF Ready
<1>2. /\ Slot(d)[1] \in Int /\ Slot(d)[2] \in Int /\ Slot(r.dev)[1] \in Int /\ Slot(r.dev)[2] \in Int
  <2>1. cfg.ram \in Nat /\ HighPcie.base \in Nat /\ HighPcie.size \in Nat
    BY <1>1, ReadyNumbers, HighPcieAboveRam
  <2>2. ASSUME NEW e \in Devices PROVE Slot(e)[1] \in Int
    BY <2>1 DEF Slot, Devices
  <2>3. ASSUME NEW e \in Devices PROVE Slot(e)[2] \in Int
    BY <2>1 DEF Slot, Devices
  <2> QED BY <1>1, <2>2, <2>3 DEF InSlot
<1>3. SUFFICES ASSUME r.dev # d, ~(r.dev \in Timers /\ d \in Timers),
                      ~(r.dev = "plic" /\ d \in Aplics), ~(d = "plic" /\ r.dev \in Aplics)
               PROVE  FALSE
  OBVIOUS
<1>4. Slot(r.dev)[2] <= Slot(d)[1] \/ Slot(d)[2] <= Slot(r.dev)[1]
  BY <1>1, <1>3, SlotsApart DEF InSlot, RamMeetsPcie
<1> QED BY <1>1, <1>2, <1>4 DEF InSlot

\* The memory of each socket is part of the memory there is.
LEMMA MemoryFits ==
  ASSUME Ready, NEW i \in Sockets
  PROVE  Fits("memory", MemoryEntry(i))
<1>1. PICK d, e : d = Plain("ram", At(aislab_memmap.DRAM.base, cfg.ram)) /\ e = MemoryEntry(i)
  OBVIOUS
<1>2. d \in board /\ d.dev = "ram" /\ d.base = 8388608 /\ d.size = cfg.ram
  BY <1>1, FixedOnBoard, MapNumbers DEF Plain, Region, At
<1>3. e.base \in Nat /\ e.size \in Nat /\ 0 < e.size /\ 8388608 <= e.base /\ e.base + e.size <= 8388608 + cfg.ram
  <2>1. /\ cfg.ram \in Nat /\ 4 <= cfg.ram /\ ramSize = cfg.ram /\ cfg.sockets \in {1, 2, 3, 4}
        /\ i \in 0 .. cfg.sockets - 1
    BY ReadyNumbers DEF Sockets
  <2>2. CASE cfg.sockets = 1
    <3>1. e.base = 8388608 /\ e.size = cfg.ram
      BY <1>1, <2>1, <2>2, MapNumbers DEF MemoryEntry, At
    <3> QED BY <2>1, <3>1
  <2>3. ASSUME NEW s \in {2, 3, 4}, cfg.sockets = s
        PROVE  /\ e.base = 8388608 + i * (cfg.ram \div s) /\ e.size = cfg.ram \div s
    BY <1>1, <2>3, MapNumbers DEF MemoryEntry, Nth, At
  <2>4. ASSUME NEW s \in {2, 3, 4}, cfg.sockets = s
        PROVE  cfg.ram \div s \in Nat /\ 1 <= cfg.ram \div s /\ s * (cfg.ram \div s) <= cfg.ram
    BY <2>1
  <2>5. ASSUME NEW s \in {2, 3, 4}, cfg.sockets = s, NEW q \in Nat, q = cfg.ram \div s
        PROVE  0 < e.size /\ 8388608 <= e.base /\ e.base + e.size <= 8388608 + cfg.ram /\ e.base \in Nat /\ e.size \in Nat
    <3>1. e.base = 8388608 + i * q /\ e.size = q /\ 1 <= q /\ s * q <= cfg.ram
      BY <2>3, <2>4, <2>5
    <3>2. i \in {0, 1, 2, 3} /\ i < s
      BY <2>1, <2>5
    <3> QED BY <2>1, <3>1, <3>2
  <2>6. ASSUME NEW s \in {2, 3, 4}, cfg.sockets = s
        PROVE  0 < e.size /\ 8388608 <= e.base /\ e.base + e.size <= 8388608 + cfg.ram /\ e.base \in Nat /\ e.size \in Nat
    <3>1. PICK q : q = cfg.ram \div s
      OBVIOUS
    <3> QED BY <2>4, <2>5, <2>6, <3>1
  <2>7. CASE cfg.sockets \in {2, 3, 4}
    BY <2>6, <2>7
  <2> QED BY <2>1, <2>2, <2>7
<1>4. Overlaps(d, e) /\ Inside(e, d)
  BY <1>2, <1>3, ReadyNumbers DEF Overlaps, Inside
<1>5. ASSUME NEW r \in board, Overlaps(r, e) PROVE r = d
  <2>1. InSlot(r)
    BY ReadyRegions
  <2>2. Overlaps(r, d)
    BY <1>2, <1>3, <1>5, <2>1, ReadyNumbers DEF Overlaps, InSlot
  <2> QED BY <1>2, <2>2, ReadyRegions
<1> QED BY <1>1, <1>2, <1>4, <1>5, StandsForIs DEF Fits

\* The PLIC or the APLICs of each socket, which there are for sockets of XplicSockets.
LEMMA ChipsFit ==
  ASSUME Ready, NEW i \in XplicSockets, NEW v \in ChipViews(i), NEW k \in DOMAIN v.reg
  PROVE  Fits(v.kind, v.reg[k])
<1>1. ASSUME NEW kind, NEW at, v = View(kind, <<at>>, {}), Fits(kind, at)
      PROVE  Fits(v.kind, v.reg[k])
  <2>1. v.kind = kind /\ v.reg = <<at>>
    BY <1>1 DEF View
  <2> QED BY <1>1, <2>1
<1>2. CASE cfg.aia = "none"
  <2>1. v = View("plic", <<Nth(aislab_memmap.PLIC, i)>>, {})
    BY <1>2 DEF ChipViews
  <2>2. PICK serves : Region("plic", i, Nth(aislab_memmap.PLIC, i), serves) \in PlicRegions(i)
    BY Zenon DEF PlicRegions
  <2>3. Region("plic", i, Nth(aislab_memmap.PLIC, i), serves) \in board
    BY <1>2, <2>2, BoardByKind
  <2>4. Fits("plic", Nth(aislab_memmap.PLIC, i))
    BY <2>3, ExactFits, FixedSizes, StandsForIs
  <2> QED BY <1>1, <2>1, <2>4
<1>3. CASE cfg.aia # "none"
  <2>1. \/ v = View("aplic", <<Nth(aislab_memmap.APLIC_S, i)>>, {})
        \/ ~Kvm /\ v = View("aplic", <<Nth(aislab_memmap.APLIC_M, i)>>, {})
    BY <1>3 DEF ChipViews
  <2>2. PICK serves : AplicRegion(i, "aplic_s", aislab_memmap.APLIC_S, "S_EXT")
                        = Region("aplic_s", i, Nth(aislab_memmap.APLIC_S, i), serves)
    BY Zenon DEF AplicRegion
  <2>3. Region("aplic_s", i, Nth(aislab_memmap.APLIC_S, i), serves) \in board
    BY <1>3, <2>2, BoardByKind
  <2>4. Fits("aplic", Nth(aislab_memmap.APLIC_S, i))
    BY <2>3, ExactFits, FixedSizes, StandsForIs
  <2>5. ASSUME ~Kvm
        PROVE  Fits("aplic", Nth(aislab_memmap.APLIC_M, i))
    <3>1. PICK drives : AplicRegion(i, "aplic_m", aislab_memmap.APLIC_M, "M_EXT")
                          = Region("aplic_m", i, Nth(aislab_memmap.APLIC_M, i), drives)
      BY Zenon DEF AplicRegion
    <3>2. Region("aplic_m", i, Nth(aislab_memmap.APLIC_M, i), drives) \in board
      BY <1>3, <2>5, <3>1, BoardByKind
    <3> QED BY <3>2, ExactFits, FixedSizes, StandsForIs
  <2> QED BY <1>1, <2>1, <2>4, <2>5
<1> QED BY <1>2, <1>3

\* None is missing.
LEMMA ChipsSeen ==
  ASSUME Ready, NEW i \in XplicSockets, NEW r \in board,
         \/ cfg.aia = "none" /\ r \in PlicRegions(i)
         \/ cfg.aia # "none" /\ r = AplicRegion(i, "aplic_s", aislab_memmap.APLIC_S, "S_EXT")
         \/ cfg.aia # "none" /\ ~Kvm /\ r = AplicRegion(i, "aplic_m", aislab_memmap.APLIC_M, "M_EXT")
  PROVE  Seen(r)
<1>1. ASSUME NEW dev, NEW at, NEW serves, r = Region(dev, i, at, serves), NEW kind,
             View(kind, <<at>>, {}) \in ChipViews(i)
      PROVE  Seen(r)
  <2>1. PICK v : v = View(kind, <<at>>, {})
    OBVIOUS
  <2>2. v \in Views(tree) /\ v.reg = <<at>>
    BY <1>1, <2>1, InTree DEF View
  <2>3. 1 \in DOMAIN v.reg /\ v.reg[1] = at
    BY <2>2
  <2> QED BY <1>1, <2>2, <2>3, ExactSeen
<1>2. CASE cfg.aia = "none" /\ r \in PlicRegions(i)
  <2>1. View("plic", <<Nth(aislab_memmap.PLIC, i)>>, {}) \in ChipViews(i)
    BY <1>2, Zenon DEF ChipViews
  <2>2. \E serves : r = Region("plic", i, Nth(aislab_memmap.PLIC, i), serves)
    BY <1>2, Zenon DEF PlicRegions
  <2> QED BY <1>1, <2>1, <2>2
<1>3. CASE cfg.aia # "none" /\ r = AplicRegion(i, "aplic_s", aislab_memmap.APLIC_S, "S_EXT")
  <2>1. View("aplic", <<Nth(aislab_memmap.APLIC_S, i)>>, {}) \in ChipViews(i)
    BY <1>3, Zenon DEF ChipViews
  <2>2. \E serves : r = Region("aplic_s", i, Nth(aislab_memmap.APLIC_S, i), serves)
    BY <1>3, Zenon DEF AplicRegion
  <2> QED BY <1>1, <2>1, <2>2
<1>4. CASE cfg.aia # "none" /\ ~Kvm /\ r = AplicRegion(i, "aplic_m", aislab_memmap.APLIC_M, "M_EXT")
  <2>1. View("aplic", <<Nth(aislab_memmap.APLIC_M, i)>>, {}) \in ChipViews(i)
    BY <1>4, Zenon DEF ChipViews
  <2>2. \E serves : r = Region("aplic_m", i, Nth(aislab_memmap.APLIC_M, i), serves)
    BY <1>4, Zenon DEF AplicRegion
  <2> QED BY <1>1, <2>1, <2>2
<1> QED BY <1>2, <1>3, <1>4

\* The kind of a device tells who made it.
LEMMA KindsOfDevices ==
  /\ \A i : \A r \in TimerRegions(i) : r.dev \in {"mswi", "mtimer", "sswi"}
  /\ \A i : \A r \in PlicRegions(i) : r.dev = "plic"
  /\ \A i, dev, entry, irq : AplicRegion(i, dev, entry, irq).dev = dev
  /\ \A i, dev, entry, irq, guests : \A r \in ImsicRegions(i, dev, entry, irq, guests) : r.dev = dev
  /\ \A p \in BoardStages \ {"sockets"} : \A r \in Adds(p) :
       r.dev \notin {"mswi", "mtimer", "sswi", "plic", "aplic_m", "aplic_s", "imsic_m", "imsic_s"}
<1>1. \A dev, n, at, serves : Region(dev, n, at, serves).dev = dev
  BY DEF Region
<1>2. \A dev, at : Plain(dev, at).dev = dev
  BY <1>1 DEF Plain
<1>3. ASSUME NEW i, NEW r \in TimerRegions(i) PROVE r.dev \in {"mswi", "mtimer", "sswi"}
  BY <1>1 DEF TimerRegions
<1>4. ASSUME NEW i, NEW r \in PlicRegions(i) PROVE r.dev = "plic"
  <2>1. PICK at, serves : r = Region("plic", i, at, serves)
    BY Zenon DEF PlicRegions
  <2> QED BY <1>1, <2>1
<1>5. ASSUME NEW i, NEW dev, NEW entry, NEW irq PROVE AplicRegion(i, dev, entry, irq).dev = dev
  <2>1. PICK at, serves : AplicRegion(i, dev, entry, irq) = Region(dev, i, at, serves)
    BY Zenon DEF AplicRegion
  <2> QED BY <1>1, <2>1
<1>6. ASSUME NEW i, NEW dev, NEW entry, NEW irq, NEW guests, NEW r \in ImsicRegions(i, dev, entry, irq, guests)
      PROVE  r.dev = dev
  <2>1. PICK h, at, serves : r = Region(dev, h, at, serves)
    BY Zenon DEF ImsicRegions
  <2> QED BY <1>1, <2>1
<1>7. ASSUME NEW p \in BoardStages \ {"sockets"}, NEW r \in Adds(p)
      PROVE  r.dev \notin {"mswi", "mtimer", "sswi", "plic", "aplic_m", "aplic_s", "imsic_m", "imsic_s"}
  <2>1. \A q \in AllVirtio : q.dev = "virtio"
    BY <1>1 DEF AllVirtio
  <2>2. \A q \in AllFlash : q.dev = "flash"
    BY <1>1 DEF AllFlash
  <2> QED BY <1>2, <2>1, <2>2 DEF Adds, BoardStages
<1> QED BY <1>3, <1>4, <1>5, <1>6, <1>7

\* Where the timers of a socket are.
Timer(r, i) ==
  \/ HaveAclint /\ Imsic /\ r.dev = "mtimer" /\ r.base = 131072 + i * 128 /\ r.size = 128
  \/ ~(HaveAclint /\ Imsic) /\ r.dev = "mtimer" /\ r.base = 131136 + i * 256 /\ r.size = 128
  \/ ~(HaveAclint /\ Imsic) /\ r.dev = "mswi" /\ r.base = 131072 + i * 256 /\ r.size = 64
  \/ HaveAclint /\ ~Imsic /\ r.dev = "sswi" /\ r.base = 192512 + i * 64 /\ r.size = 64

\* What the nodes of a socket say.
LEMMA TimerEntries ==
  ASSUME NEW i \in Nat
  PROVE  /\ TimerEntry("clint", i).base = 131072 + i * 256 /\ TimerEntry("clint", i).size = 256
         /\ TimerEntry("mtimer", i).base = IF Imsic THEN 131072 + i * 128 ELSE 131136 + i * 256
         /\ TimerEntry("mtimer", i).size = IF Imsic THEN 128 ELSE 192
         /\ TimerEntry("mswi", i).base = 131072 + i * 256 /\ TimerEntry("mswi", i).size = 64
         /\ TimerEntry("sswi", i).base = 192512 + i * 64 /\ TimerEntry("sswi", i).size = 64
<1>1. \A base, size : At(base, size).base = base /\ At(base, size).size = size
  BY DEF At
<1>2. /\ RISCV_ACLINT_SWI_SIZE = 64 /\ RISCV_ACLINT_DEFAULT_MTIMER_SIZE = 128
      /\ aislab_memmap.CLINT.base = 131072 /\ aislab_memmap.CLINT.size = 256
      /\ Nth(aislab_memmap.CLINT, i) = At(131072 + i * 256, 256)
      /\ Nth(aislab_memmap.ACLINT_SSWI, i) = At(192512 + i * 64, 64)
  BY <1>1, MapNumbers DEF RISCV_ACLINT_SWI_SIZE, RISCV_ACLINT_DEFAULT_MTIMER_SIZE, KiB, Nth
<1>3. TimerEntry("clint", i) = At(131072 + i * 256, 256)
  BY <1>2 DEF TimerEntry
<1>4. TimerEntry("mtimer", i) = IF Imsic THEN At(131072 + i * 128, 128) ELSE At(131136 + i * 256, 192)
  <2>1. TimerEntry("mtimer", i) = MtimerEntry(i)
    BY DEF TimerEntry
  <2> QED BY <1>1, <1>2, <2>1 DEF MtimerEntry
<1>5. TimerEntry("mswi", i) = At(131072 + i * 256, 64)
  BY <1>1, <1>2 DEF TimerEntry
<1>6. TimerEntry("sswi", i) = At(192512 + i * 64, 64)
  BY <1>2 DEF TimerEntry
<1> QED BY <1>1, <1>3, <1>4, <1>5, <1>6, SMT

\* The timers of a socket, as a machine with this command line has them.
LEMMA TimerNumbers ==
  ASSUME NEW i \in Nat
  PROVE  /\ \A r \in TimerRegions(i) : Timer(r, i) /\ (HaveAclint \/ Tcg)
         /\ HaveAclint \/ Tcg => \E r \in TimerRegions(i) : r.dev = "mtimer"
         /\ HaveAclint /\ ~Imsic => \E r \in TimerRegions(i) : r.dev = "mswi"
         /\ HaveAclint /\ ~Imsic => \E r \in TimerRegions(i) : r.dev = "sswi"
<1>1. \A dev, n, at, serves : /\ Region(dev, n, at, serves).dev = dev /\ Region(dev, n, at, serves).base = at.base
                              /\ Region(dev, n, at, serves).size = at.size
  BY DEF Region
<1>2. \A base, size : At(base, size).base = base /\ At(base, size).size = size
  BY DEF At
<1>3. /\ RISCV_ACLINT_SWI_SIZE = 64 /\ RISCV_ACLINT_DEFAULT_MTIMER_SIZE = 128
      /\ aislab_memmap.CLINT.base = 131072 /\ aislab_memmap.CLINT.size = 256
      /\ Nth(aislab_memmap.CLINT, i) = At(131072 + i * 256, 256)
      /\ Nth(aislab_memmap.ACLINT_SSWI, i) = At(192512 + i * 64, 64)
  BY <1>2, MapNumbers DEF RISCV_ACLINT_SWI_SIZE, RISCV_ACLINT_DEFAULT_MTIMER_SIZE, KiB, Nth
<1>4. PICK m, s, t, u : /\ m = Region("mtimer", i, At(aislab_memmap.CLINT.base + i * RISCV_ACLINT_DEFAULT_MTIMER_SIZE,
                                                      RISCV_ACLINT_DEFAULT_MTIMER_SIZE),
                                      Drives(FirstHartid(i), HartCount(i), "M_TIMER"))
                        /\ s = Region("mswi", i, At(Nth(aislab_memmap.CLINT, i).base, RISCV_ACLINT_SWI_SIZE),
                                      Drives(FirstHartid(i), HartCount(i), "M_SOFT"))
                        /\ t = Region("mtimer", i, At(Nth(aislab_memmap.CLINT, i).base + RISCV_ACLINT_SWI_SIZE,
                                                      RISCV_ACLINT_DEFAULT_MTIMER_SIZE),
                                      Drives(FirstHartid(i), HartCount(i), "M_TIMER"))
                        /\ u = Region("sswi", i, At(Nth(aislab_memmap.ACLINT_SSWI, i).base, RISCV_ACLINT_SWI_SIZE),
                                      Drives(FirstHartid(i), HartCount(i), "S_SOFT"))
  OBVIOUS
<1>5. TimerRegions(i) = CASE HaveAclint /\ Imsic -> {m}
                          [] HaveAclint /\ ~Imsic -> {s, t, u}
                          [] ~HaveAclint /\ Tcg -> {s, t}
                          [] OTHER -> {}
  BY <1>4, Zenon DEF TimerRegions
<1>6. /\ m.dev = "mtimer" /\ m.base = 131072 + i * 128 /\ m.size = 128
      /\ s.dev = "mswi" /\ s.base = 131072 + i * 256 /\ s.size = 64
      /\ t.dev = "mtimer" /\ t.base = 131136 + i * 256 /\ t.size = 128
      /\ u.dev = "sswi" /\ u.base = 192512 + i * 64 /\ u.size = 64
  BY <1>1, <1>2, <1>3, <1>4
<1>7. \A r \in TimerRegions(i) : Timer(r, i) /\ (HaveAclint \/ Tcg)
  BY <1>5, <1>6 DEF Timer
<1>8. /\ HaveAclint \/ Tcg => \E r \in TimerRegions(i) : r.dev = "mtimer"
      /\ HaveAclint /\ ~Imsic => \E r \in TimerRegions(i) : r.dev = "mswi"
      /\ HaveAclint /\ ~Imsic => \E r \in TimerRegions(i) : r.dev = "sswi"
  BY <1>5, <1>6
<1> QED BY <1>7, <1>8

\* A timer on the board is one of a socket.
LEMMA TimerOwner ==
  ASSUME Ready, NEW r \in board, r.dev \in {"mswi", "mtimer", "sswi"}
  PROVE  \E j \in Sockets : r \in TimerRegions(j) /\ Timer(r, j) /\ j \in {0, 1, 2, 3}
<1>1. \E j \in Sockets : r \in TimerRegions(j)
  BY BoardByKind, KindsOfDevices
<1>2. \A j \in Sockets : j \in {0, 1, 2, 3} /\ j \in Nat
  BY ReadyNumbers
<1> QED BY <1>1, <1>2, TimerNumbers

\* The nodes of timers tell where they are, each of its own.
LEMMA TimersFit ==
  ASSUME Ready, NEW i \in Sockets, NEW kind \in TimerKinds
  PROVE  Fits(kind, TimerEntry(kind, i))
<1>1. PICK e : e = TimerEntry(kind, i)
  OBVIOUS
<1>2. i \in {0, 1, 2, 3} /\ i \in Nat
  BY ReadyNumbers
<1>3. /\ kind = "clint" => e.base = 131072 + i * 256 /\ e.size = 256
      /\ kind = "mtimer" /\ Imsic => e.base = 131072 + i * 128 /\ e.size = 128
      /\ kind = "mtimer" /\ ~Imsic => e.base = 131136 + i * 256 /\ e.size = 192
      /\ kind = "mswi" => e.base = 131072 + i * 256 /\ e.size = 64
      /\ kind = "sswi" => e.base = 192512 + i * 64 /\ e.size = 64
  <2>1. /\ TimerEntry("clint", i).base = 131072 + i * 256 /\ TimerEntry("clint", i).size = 256
        /\ TimerEntry("mtimer", i).base = IF Imsic THEN 131072 + i * 128 ELSE 131136 + i * 256
        /\ TimerEntry("mtimer", i).size = IF Imsic THEN 128 ELSE 192
        /\ TimerEntry("mswi", i).base = 131072 + i * 256 /\ TimerEntry("mswi", i).size = 64
        /\ TimerEntry("sswi", i).base = 192512 + i * 64 /\ TimerEntry("sswi", i).size = 64
    BY <1>2, TimerEntries, SMT
  <2> QED BY <1>1, <2>1, SMT
<1>4. /\ kind \in {"clint", "mtimer", "mswi", "sswi"} /\ (HaveAclint \/ Tcg)
      /\ kind = "clint" => ~HaveAclint
      /\ kind # "clint" => HaveAclint
      /\ kind \in {"mswi", "sswi"} => ~Imsic
  BY DEF TimerKinds
<1>5. PICK d \in TimerRegions(i) : /\ kind \in {"mswi", "sswi"} => d.dev = kind
                                   /\ kind \in {"clint", "mtimer"} => d.dev = "mtimer"
  <2>1. /\ HaveAclint \/ Tcg => \E r \in TimerRegions(i) : r.dev = "mtimer"
        /\ HaveAclint /\ ~Imsic => \E r \in TimerRegions(i) : r.dev = "mswi"
        /\ HaveAclint /\ ~Imsic => \E r \in TimerRegions(i) : r.dev = "sswi"
    BY <1>2, TimerNumbers
  <2> QED BY <1>4, <2>1
<1>6. d \in board /\ Timer(d, i)
  BY <1>2, <1>5, BoardByKind, TimerNumbers
<1>7. Overlaps(d, e)
  <2>1. CASE kind \in {"clint", "mtimer"} /\ Imsic
    BY <1>2, <1>3, <1>4, <1>5, <1>6, <2>1, SMT DEF Overlaps, Timer
  <2>2. CASE kind \in {"clint", "mtimer"} /\ ~Imsic
    BY <1>2, <1>3, <1>4, <1>5, <1>6, <2>2, SMT DEF Overlaps, Timer
  <2>3. CASE kind = "mswi"
    <3>1. d.dev = "mswi" /\ e.base = 131072 + i * 256 /\ e.size = 64
      BY <1>2, <1>3, <1>5, <2>3, SMT
    <3>2. d.base = 131072 + i * 256 /\ d.size = 64
      BY <1>2, <1>6, <3>1, SMT DEF Timer
    <3> QED BY <1>2, <3>1, <3>2, SMT DEF Overlaps
  <2>4. CASE kind = "sswi"
    <3>1. d.dev = "sswi" /\ e.base = 192512 + i * 64 /\ e.size = 64
      BY <1>2, <1>3, <1>5, <2>4, SMT
    <3>2. d.base = 192512 + i * 64 /\ d.size = 64
      BY <1>2, <1>6, <3>1, SMT DEF Timer
    <3> QED BY <1>2, <3>1, <3>2, SMT DEF Overlaps
  <2> QED BY <1>4, <2>1, <2>2, <2>3, <2>4
<1>8. ASSUME NEW r \in board, Overlaps(r, e)
      PROVE  r.dev \in StandsFor[kind] /\ Inside(r, e)
  <2>1. InSlot(r)
    BY ReadyRegions
  <2>2. r.dev \in {"mswi", "mtimer", "sswi"}
    <3>1. CASE kind = "sswi"
      <4>1. r.base < Slot("sswi")[2] /\ Slot("sswi")[1] < r.base + r.size
        BY <1>2, <1>3, <1>8, <2>1, <3>1, SMT DEF Slot, Overlaps, InSlot
      <4> QED BY <4>1, SlotOwner DEF Devices, Timers, Aplics
    <3>2. CASE kind # "sswi"
      <4>1. r.base < Slot("mtimer")[2] /\ Slot("mtimer")[1] < r.base + r.size
        BY <1>2, <1>3, <1>4, <1>8, <2>1, <3>2, SMT DEF Slot, Overlaps, InSlot
      <4> QED BY <4>1, SlotOwner DEF Devices, Timers, Aplics
    <3> QED BY <3>1, <3>2
  <2>3. PICK j \in {0, 1, 2, 3} : Timer(r, j)
    BY <2>2, TimerOwner
  <2>4. r.base \in Nat /\ r.size \in Nat
    BY <2>1 DEF InSlot
  <2>5. CASE kind = "clint"
    BY <1>2, <1>3, <1>4, <1>8, <2>3, <2>4, <2>5, StandsForIs, SMT DEF Overlaps, Inside, Timer
  <2>6. CASE kind = "mtimer" /\ Imsic
    BY <1>2, <1>3, <1>4, <1>8, <2>3, <2>4, <2>6, StandsForIs, SMT DEF Overlaps, Inside, Timer
  <2>7. CASE kind = "mtimer" /\ ~Imsic
    BY <1>2, <1>3, <1>4, <1>8, <2>3, <2>4, <2>7, StandsForIs, SMT DEF Overlaps, Inside, Timer
  <2>8. CASE kind = "mswi"
    BY <1>2, <1>3, <1>4, <1>8, <2>3, <2>4, <2>8, StandsForIs, SMT DEF Overlaps, Inside, Timer
  <2>9. CASE kind = "sswi"
    BY <1>2, <1>3, <1>4, <1>8, <2>3, <2>4, <2>9, StandsForIs, SMT DEF Overlaps, Inside, Timer
  <2> QED BY <1>4, <2>5, <2>6, <2>7, <2>8, <2>9
<1>9. d.dev \in StandsFor[kind]
  <2>1. CASE kind = "clint"
    BY <1>5, <2>1, StandsForIs
  <2>2. CASE kind = "mtimer"
    BY <1>5, <2>2, StandsForIs
  <2>3. CASE kind = "mswi"
    BY <1>5, <2>3, StandsForIs
  <2>4. CASE kind = "sswi"
    BY <1>5, <2>4, StandsForIs
  <2> QED BY <1>4, <2>1, <2>2, <2>3, <2>4
<1> QED BY <1>1, <1>6, <1>7, <1>8, <1>9 DEF Fits

\* No timer is missing.
LEMMA TimersSeen ==
  ASSUME Ready, NEW i \in Sockets, NEW r \in board, r \in TimerRegions(i)
  PROVE  Seen(r)
<1>1. i \in {0, 1, 2, 3} /\ i \in Nat
  BY ReadyNumbers
<1>2. Timer(r, i) /\ (HaveAclint \/ Tcg)
  BY <1>1, TimerNumbers
<1>3. ASSUME NEW kind \in TimerKinds, Inside(r, TimerEntry(kind, i)) PROVE Seen(r)
  <2>1. PICK v : v = View(kind, <<TimerEntry(kind, i)>>, {})
    OBVIOUS
  <2>2. v \in SocketViews(i)
    BY <2>1, Zenon DEF SocketViews
  <2>3. v \in Views(tree) /\ v.reg = <<TimerEntry(kind, i)>>
    BY <2>1, <2>2, InTree DEF View
  <2>4. 1 \in DOMAIN v.reg /\ v.reg[1] = TimerEntry(kind, i)
    BY <2>3
  <2> QED BY <1>3, <2>3, <2>4 DEF Seen
<1>4. PICK c, m, w, s : /\ c = TimerEntry("clint", i) /\ m = TimerEntry("mtimer", i)
                        /\ w = TimerEntry("mswi", i) /\ s = TimerEntry("sswi", i)
  OBVIOUS
<1>5. /\ c.base = 131072 + i * 256 /\ c.size = 256
      /\ Imsic => m.base = 131072 + i * 128 /\ m.size = 128
      /\ ~Imsic => m.base = 131136 + i * 256 /\ m.size = 192
      /\ w.base = 131072 + i * 256 /\ w.size = 64
      /\ s.base = 192512 + i * 64 /\ s.size = 64
  <2>1. /\ TimerEntry("clint", i).base = 131072 + i * 256 /\ TimerEntry("clint", i).size = 256
        /\ TimerEntry("mtimer", i).base = IF Imsic THEN 131072 + i * 128 ELSE 131136 + i * 256
        /\ TimerEntry("mtimer", i).size = IF Imsic THEN 128 ELSE 192
        /\ TimerEntry("mswi", i).base = 131072 + i * 256 /\ TimerEntry("mswi", i).size = 64
        /\ TimerEntry("sswi", i).base = 192512 + i * 64 /\ TimerEntry("sswi", i).size = 64
    BY <1>1, TimerEntries, SMT
  <2> QED BY <1>1, <1>4, <2>1, SMT
<1>6. CASE HaveAclint /\ Imsic
  <2>1. Inside(r, m) /\ "mtimer" \in TimerKinds
    BY <1>1, <1>2, <1>5, <1>6, SMT DEF Timer, TimerKinds, Inside
  <2> QED BY <1>3, <1>4, <2>1
<1>7. CASE HaveAclint /\ ~Imsic
  <2>1. TimerKinds = {"mtimer", "mswi", "sswi"}
    BY <1>7 DEF TimerKinds
  <2>2. Inside(r, m) \/ Inside(r, w) \/ Inside(r, s)
    BY <1>1, <1>2, <1>5, <1>7, SMT DEF Timer, Inside
  <2> QED BY <1>3, <1>4, <2>1, <2>2
<1>8. CASE ~HaveAclint
  <2>1. TimerKinds = {"clint"}
    BY <1>2, <1>8 DEF TimerKinds
  <2>2. Inside(r, c)
    BY <1>1, <1>2, <1>5, <1>8, SMT DEF Timer, Inside
  <2> QED BY <1>3, <1>4, <2>1, <2>2
<1> QED BY <1>6, <1>7, <1>8

\* One file for each hart, when there are no guests.
LEMMA OneFile == aislab_imsic_num_bits(0 + 1) = 0
<1> DEFINE Enough(n) == BIT(n) >= 1 /\ \A m \in 0 .. n - 1 : BIT(m) < 1
<1>1. BIT(0) = 1
  BY DEF BIT
<1>2. 0 \in 0 .. 9 /\ Enough(0)
  BY <1>1
<1>3. \A n \in 0 .. 9 : Enough(n) => n = 0
  <2> SUFFICES ASSUME NEW n \in 0 .. 9, Enough(n), n # 0 PROVE FALSE
    OBVIOUS
  <2>1. 0 \in 0 .. n - 1
    OBVIOUS
  <2> QED BY <1>1, <2>1
<1>4. aislab_imsic_num_bits(0 + 1) = CHOOSE n \in 0 .. 9 : Enough(n)
  BY DEF aislab_imsic_num_bits
<1> HIDE DEF Enough
<1> QED BY <1>2, <1>3, <1>4

\* The interrupt files of a socket have so many units.
LEMMA GroupSize == AISLAB_IMSIC_GROUP_MAX_SIZE = 65536
BY SMT DEF AISLAB_IMSIC_GROUP_MAX_SIZE, MiB, KiB

\* The room a range has for the files of the harts of a socket.
Room(guests, j) == IMSIC_HART_SIZE(aislab_imsic_num_bits(guests + 1)) * HartCount(j)

\* They are in it.
LEMMA ImsicFiles ==
  ASSUME Ready, NEW dev, NEW entry, NEW irq, NEW guests \in GuestNumbers, entry.base \in Nat, NEW j \in Sockets
  PROVE  /\ Room(guests, j) \in Nat /\ 1 <= Room(guests, j) /\ Room(guests, j) <= AISLAB_IMSIC_GROUP_MAX_SIZE
         /\ \A r \in ImsicRegions(j, dev, entry, irq, guests) :
              /\ r.base \in Nat /\ r.size \in Nat /\ 1 <= r.size
              /\ entry.base + j * AISLAB_IMSIC_GROUP_MAX_SIZE <= r.base
              /\ r.base + r.size <= entry.base + j * AISLAB_IMSIC_GROUP_MAX_SIZE + Room(guests, j)
         /\ \E r \in ImsicRegions(j, dev, entry, irq, guests) :
              r.base = entry.base + j * AISLAB_IMSIC_GROUP_MAX_SIZE
<1>0. PICK start, room : start = entry.base /\ start \in Nat /\ room = Room(guests, j)
  OBVIOUS
<1>1. PICK t, first, count : /\ t = IMSIC_HART_SIZE(aislab_imsic_num_bits(guests + 1))
                             /\ first = FirstHartid(j) /\ count = HartCount(j)
  OBVIOUS
<1>2. t \in {16, 32, 48, 64, 80, 96, 112, 128} /\ (guests + 1) * 16 \in 1 .. t
  BY <1>1, NumBits, SMT DEF GuestNumbers, AISLAB_IRQCHIP_MAX_GUESTS, IMSIC_HART_SIZE, IMSIC_PAGE, KiB
<1>3. first \in Nat /\ count \in Nat \ {0} /\ Harts(j) = first .. first + count - 1 /\ count <= 512
  <2>1. cfg \in Configs /\ SocketHasHartids(j)
    BY ReadyNumbers
  <2>2. first \in Nat /\ count \in Nat \ {0} /\ Harts(j) = first .. first + count - 1
    BY <1>1, <2>1, HartsInRow
  <2>3. first + count - 1 \in Harts(j)
    BY <2>2
  <2>4. first + count - 1 \in 0 .. 511
    BY <2>1, <2>3, HartNumbers, SMT DEF AISLAB_CPUS_MAX
  <2> QED BY <2>2, <2>4
<1>4. \A s \in {16, 32, 48, 64, 80, 96, 112, 128} : \A d, c \in Nat :
        d < c => d * s \in Nat /\ d * s + s <= s * c
  BY SMT
<1>5. \A s \in {16, 32, 48, 64, 80, 96, 112, 128} : \A c \in Nat :
        1 <= c /\ c <= 512 => s * c \in Nat /\ 1 <= s * c /\ s * c <= 65536
  BY SMT
<1>6. room = t * count /\ room \in Nat /\ 1 <= room /\ room <= 65536
  <2>1. count \in Nat /\ 1 <= count /\ count <= 512
    BY <1>3
  <2>2. t * count \in Nat /\ 1 <= t * count /\ t * count <= 65536
    BY <1>2, <1>5, <2>1
  <2>3. room = t * count
    BY <1>0, <1>1, Zenon DEF Room
  <2> QED BY <2>2, <2>3
<1>7. j \in Nat
  BY ReadyNumbers
<1>8. AISLAB_IMSIC_GROUP_MAX_SIZE = 65536 /\ IMSIC_PAGE = 16
  BY SMT DEF AISLAB_IMSIC_GROUP_MAX_SIZE, IMSIC_PAGE, MiB, KiB
<1>9. ImsicRegions(j, dev, entry, irq, guests)
        = { Region(dev, h, At(start + j * AISLAB_IMSIC_GROUP_MAX_SIZE + (h - first) * t, (guests + 1) * IMSIC_PAGE),
                   << <<h, irq>> >>) : h \in Harts(j) }
  BY <1>0, <1>1, Zenon DEF ImsicRegions
<1>10. \A h : LET r == Region(dev, h, At(start + j * AISLAB_IMSIC_GROUP_MAX_SIZE + (h - first) * t,
                                         (guests + 1) * IMSIC_PAGE), << <<h, irq>> >>)
              IN  /\ r.base = start + j * AISLAB_IMSIC_GROUP_MAX_SIZE + (h - first) * t
                  /\ r.size = (guests + 1) * IMSIC_PAGE
  BY Zenon DEF Region, At
<1>11. ASSUME NEW r \in ImsicRegions(j, dev, entry, irq, guests)
       PROVE  /\ r.base \in Nat /\ r.size \in Nat /\ 1 <= r.size
              /\ start + j * 65536 <= r.base /\ r.base + r.size <= start + j * 65536 + room
  <2>1. PICK h \in Harts(j) :
               r = Region(dev, h, At(start + j * AISLAB_IMSIC_GROUP_MAX_SIZE + (h - first) * t,
                                     (guests + 1) * IMSIC_PAGE), << <<h, irq>> >>)
    BY <1>9, Zenon
  <2>2. /\ r.base = start + j * AISLAB_IMSIC_GROUP_MAX_SIZE + (h - first) * t
        /\ r.size = (guests + 1) * IMSIC_PAGE
    BY <1>10, <2>1, Zenon
  <2>3. h - first \in Nat /\ h - first < count
    BY <1>3
  <2>4. (h - first) * t \in Nat /\ (h - first) * t + t <= t * count
    <3>1. PICK d : d = h - first
      OBVIOUS
    <3>2. d \in Nat /\ d < count /\ count \in Nat
      BY <1>3, <2>3, <3>1
    <3>3. d * t \in Nat /\ d * t + t <= t * count
      BY <1>2, <1>4, <3>2
    <3> QED BY <3>1, <3>3
  <2>5. PICK o \in Nat, s \in Nat : o = (h - first) * t /\ s = (guests + 1) * 16 /\ 1 <= s /\ s <= t
    BY <1>2, <2>4
  <2>6. r.base = start + j * 65536 + o /\ r.size = s /\ o + t <= room
    BY <1>0, <1>6, <1>8, <2>2, <2>4, <2>5, SMT
  <2> QED BY <1>0, <1>2, <1>6, <1>7, <2>5, <2>6, SMT
<1>12. \E r \in ImsicRegions(j, dev, entry, irq, guests) : r.base = start + j * 65536
  <2>1. first \in Harts(j)
    BY <1>3
  <2>2. PICK r : r = Region(dev, first, At(start + j * AISLAB_IMSIC_GROUP_MAX_SIZE + (first - first) * t,
                                          (guests + 1) * IMSIC_PAGE), << <<first, irq>> >>)
    OBVIOUS
  <2>3. r \in ImsicRegions(j, dev, entry, irq, guests)
    BY <1>9, <2>1, <2>2, Zenon
  <2>4. r.base = start + j * AISLAB_IMSIC_GROUP_MAX_SIZE + (first - first) * t
    BY <1>10, <2>2, Zenon
  <2>5. (first - first) * t = 0
    BY <1>2, <1>3, SMT
  <2> QED BY <1>0, <1>7, <1>8, <2>3, <2>4, <2>5, SMT
<1> QED BY <1>0, <1>6, <1>8, <1>11, <1>12, SMT

\* What an IMSIC node says of a socket.
LEMMA ImsicRange ==
  ASSUME Ready, NEW entry, NEW bits, NEW g \in 1 .. cfg.sockets
  PROVE  /\ g - 1 \in Sockets
         /\ ImsicRanges(entry, bits)[g].base = entry.base + (g - 1) * AISLAB_IMSIC_GROUP_MAX_SIZE
         /\ ImsicRanges(entry, bits)[g].size = IMSIC_HART_SIZE(bits) * HartCount(g - 1)
<1>1. ImsicRanges(entry, bits)[g] = At(entry.base + (g - 1) * AISLAB_IMSIC_GROUP_MAX_SIZE,
                                       IMSIC_HART_SIZE(bits) * HartCount(g - 1))
  BY DEF ImsicRanges
<1>2. g - 1 \in Sockets
  BY ReadyNumbers DEF Sockets
<1>3. \A base, size : At(base, size).base = base /\ At(base, size).size = size
  BY DEF At
<1> QED BY <1>1, <1>2, <1>3

\* An IMSIC node tells of the files of the mode it stands for, and nothing else.
LEMMA ImsicFits ==
  ASSUME Ready, NEW dev \in {"imsic_m", "imsic_s"}, NEW entry, NEW irq, NEW guests \in GuestNumbers,
         entry.base \in Nat, Slot(dev) = <<entry.base, entry.base + AISLAB_IMSIC_MAX_SIZE>>,
         \A j \in Sockets : ImsicRegions(j, dev, entry, irq, guests) \subseteq board,
         \A r \in board : r.dev = dev => \E j \in Sockets : r \in ImsicRegions(j, dev, entry, irq, guests),
         NEW g \in 1 .. cfg.sockets
  PROVE  Fits("imsic", ImsicRanges(entry, aislab_imsic_num_bits(guests + 1))[g])
<1>1. PICK e, i : /\ e = ImsicRanges(entry, aislab_imsic_num_bits(guests + 1))[g] /\ i = g - 1
  OBVIOUS
<1>2. /\ i \in Sockets /\ e.base = entry.base + i * AISLAB_IMSIC_GROUP_MAX_SIZE
      /\ e.size = Room(guests, i)
  BY <1>1, ImsicRange, Zenon DEF Room
<1>3. /\ Room(guests, i) \in Nat /\ 1 <= Room(guests, i) /\ Room(guests, i) <= AISLAB_IMSIC_GROUP_MAX_SIZE
      /\ \A r \in ImsicRegions(i, dev, entry, irq, guests) : r.size \in Nat /\ 1 <= r.size
      /\ \E r \in ImsicRegions(i, dev, entry, irq, guests) : r.base = entry.base + i * AISLAB_IMSIC_GROUP_MAX_SIZE
  <2>1. Room(guests, i) \in Nat /\ 1 <= Room(guests, i) /\ Room(guests, i) <= AISLAB_IMSIC_GROUP_MAX_SIZE
    BY <1>2, ImsicFiles, Zenon
  <2>2. \A r \in ImsicRegions(i, dev, entry, irq, guests) : r.size \in Nat /\ 1 <= r.size
    BY <1>2, ImsicFiles, Zenon
  <2>3. \E r \in ImsicRegions(i, dev, entry, irq, guests) : r.base = entry.base + i * AISLAB_IMSIC_GROUP_MAX_SIZE
    BY <1>2, ImsicFiles, ZenonT(60)
  <2> QED BY <2>1, <2>2, <2>3
<1>4. i \in {0, 1, 2, 3}
  BY <1>2, ReadyNumbers
<1>5. \E r \in board : Overlaps(r, e)
  <2>1. PICK r \in ImsicRegions(i, dev, entry, irq, guests) : r.base = entry.base + i * AISLAB_IMSIC_GROUP_MAX_SIZE
    BY <1>3, Zenon
  <2>2. r.size \in Nat /\ 1 <= r.size /\ r \in board
    BY <1>2, <1>3
  <2> QED BY <1>2, <1>3, <1>4, <2>1, <2>2, GroupSize, SMT DEF Overlaps
<1>6. ASSUME NEW r \in board, Overlaps(r, e) PROVE r.dev \in StandsFor["imsic"] /\ Inside(r, e)
  <2>1. r.base \in Nat /\ r.size \in Nat
    BY ReadyRegions DEF InSlot
  <2>2. r.base < Slot(dev)[2] /\ Slot(dev)[1] < r.base + r.size
    <3>1. AISLAB_IMSIC_MAX_SIZE = 262144
      BY SMT DEF AISLAB_IMSIC_MAX_SIZE, AISLAB_SOCKETS_MAX, AISLAB_IMSIC_GROUP_MAX_SIZE, MiB, KiB
    <3>2. r.base < entry.base + AISLAB_IMSIC_MAX_SIZE /\ entry.base < r.base + r.size
      BY <1>2, <1>3, <1>4, <1>6, <2>1, <3>1, GroupSize, SMT DEF Overlaps
    <3> QED BY <1>1, <3>2
  <2>3. r.dev = dev
    BY <2>2, SlotOwner DEF Devices, Timers, Aplics
  <2>4. PICK j \in Sockets : r \in ImsicRegions(j, dev, entry, irq, guests)
    BY <2>3
  <2>5. /\ Room(guests, j) \in Nat /\ 1 <= Room(guests, j) /\ Room(guests, j) <= AISLAB_IMSIC_GROUP_MAX_SIZE
        /\ entry.base + j * AISLAB_IMSIC_GROUP_MAX_SIZE <= r.base
        /\ r.base + r.size <= entry.base + j * AISLAB_IMSIC_GROUP_MAX_SIZE + Room(guests, j)
    BY <1>1, <2>4, ImsicFiles, Zenon
  <2>6. j \in {0, 1, 2, 3}
    BY ReadyNumbers
  <2>7. i = j
    BY <1>2, <1>3, <1>4, <1>6, <2>1, <2>5, <2>6, GroupSize, SMT DEF Overlaps
  <2>8. Inside(r, e)
    BY <1>2, <2>5, <2>7, Zenon DEF Inside
  <2> QED BY <2>3, <2>8, StandsForIs
<1> QED BY <1>1, <1>5, <1>6 DEF Fits

\* and of all of them.
LEMMA ImsicSeen ==
  ASSUME Ready, NEW dev, NEW entry, NEW irq, NEW guests \in GuestNumbers, entry.base \in Nat,
         View("imsic", ImsicRanges(entry, aislab_imsic_num_bits(guests + 1)), {}) \in Views(tree),
         NEW j \in Sockets, NEW r \in ImsicRegions(j, dev, entry, irq, guests)
  PROVE  Seen(r)
<1>1. PICK v, bits, g : /\ bits = aislab_imsic_num_bits(guests + 1) /\ g = j + 1
                        /\ v = View("imsic", ImsicRanges(entry, bits), {})
  OBVIOUS
<1>2. v \in Views(tree) /\ v.reg = ImsicRanges(entry, bits)
  BY <1>1 DEF View
<1>3. g \in 1 .. cfg.sockets /\ g - 1 = j
  BY <1>1, ReadyNumbers DEF Sockets
<1>4. g \in DOMAIN v.reg
  BY <1>2, <1>3 DEF ImsicRanges
<1>5. PICK e : e = v.reg[g]
  OBVIOUS
<1>6. /\ e.base = entry.base + (g - 1) * AISLAB_IMSIC_GROUP_MAX_SIZE
      /\ e.size = IMSIC_HART_SIZE(bits) * HartCount(g - 1)
  <2>1. /\ ImsicRanges(entry, bits)[g].base = entry.base + (g - 1) * AISLAB_IMSIC_GROUP_MAX_SIZE
        /\ ImsicRanges(entry, bits)[g].size = IMSIC_HART_SIZE(bits) * HartCount(g - 1)
    BY <1>3, ImsicRange, Zenon
  <2> QED BY <1>2, <1>5, <2>1
<1>7. e.base = entry.base + j * AISLAB_IMSIC_GROUP_MAX_SIZE /\ e.size = Room(guests, j)
  BY <1>1, <1>3, <1>6 DEF Room
<1>8. Inside(r, e)
  BY <1>7, ImsicFiles, ZenonT(60) DEF Inside
<1> QED BY <1>2, <1>4, <1>5, <1>8 DEF Seen

\* Where the map has them.
LEMMA ImsicSlots ==
  /\ aislab_memmap.IMSIC_M.base \in Nat /\ aislab_memmap.IMSIC_S.base \in Nat
  /\ Slot("imsic_m") = <<aislab_memmap.IMSIC_M.base, aislab_memmap.IMSIC_M.base + AISLAB_IMSIC_MAX_SIZE>>
  /\ Slot("imsic_s") = <<aislab_memmap.IMSIC_S.base, aislab_memmap.IMSIC_S.base + AISLAB_IMSIC_MAX_SIZE>>
<1>1. AISLAB_IMSIC_MAX_SIZE = 262144
  BY SMT DEF AISLAB_IMSIC_MAX_SIZE, AISLAB_SOCKETS_MAX, AISLAB_IMSIC_GROUP_MAX_SIZE, MiB, KiB
<1>2. aislab_memmap.IMSIC_M.base = 2359296 /\ aislab_memmap.IMSIC_S.base = 2621440
  BY MapNumbers, SMT
<1> QED BY <1>1, <1>2, SMT DEF Slot

\* Which of the devices are files of the one mode, and which of the other.
LEMMA ImsicsOnBoard ==
  ASSUME Ready, Imsic
  PROVE  /\ \A j \in Sockets :
              ImsicRegions(j, "imsic_s", aislab_memmap.IMSIC_S, "S_EXT", cfg.guests) \subseteq board
         /\ ~Kvm => \A j \in Sockets :
              ImsicRegions(j, "imsic_m", aislab_memmap.IMSIC_M, "M_EXT", 0) \subseteq board
         /\ \A r \in board : r.dev = "imsic_s" => \E j \in Sockets :
              r \in ImsicRegions(j, "imsic_s", aislab_memmap.IMSIC_S, "S_EXT", cfg.guests)
         /\ \A r \in board : r.dev = "imsic_m" => \E j \in Sockets :
              r \in ImsicRegions(j, "imsic_m", aislab_memmap.IMSIC_M, "M_EXT", 0)
<1>1. \A r : (\E j \in Sockets :
                \/ r \in ImsicRegions(j, "imsic_s", aislab_memmap.IMSIC_S, "S_EXT", cfg.guests)
                \/ (~Kvm /\ r \in ImsicRegions(j, "imsic_m", aislab_memmap.IMSIC_M, "M_EXT", 0)))
             => r \in board
  BY BoardByKind, Zenon
<1>2. ASSUME NEW r \in board, r.dev \in {"imsic_s", "imsic_m"}
      PROVE  \E j \in Sockets :
               \/ r \in ImsicRegions(j, "imsic_s", aislab_memmap.IMSIC_S, "S_EXT", cfg.guests)
               \/ r \in ImsicRegions(j, "imsic_m", aislab_memmap.IMSIC_M, "M_EXT", 0)
  <2>1. \A i : r \notin TimerRegions(i)
    BY <1>2, KindsOfDevices
  <2>2. \A i : r \notin PlicRegions(i)
    BY <1>2, KindsOfDevices
  <2>3. \A i, dev, entry, irq : dev \in {"aplic_m", "aplic_s"} => r # AplicRegion(i, dev, entry, irq)
    BY <1>2, KindsOfDevices
  <2>4. \A p \in BoardStages \ {"sockets"} : r \notin Adds(p)
    BY <1>2, KindsOfDevices
  <2> QED BY <2>1, <2>2, <2>3, <2>4, BoardByKind
<1>3. \A r, j : /\ r \in ImsicRegions(j, "imsic_s", aislab_memmap.IMSIC_S, "S_EXT", cfg.guests) => r.dev = "imsic_s"
                /\ r \in ImsicRegions(j, "imsic_m", aislab_memmap.IMSIC_M, "M_EXT", 0) => r.dev = "imsic_m"
  BY KindsOfDevices
<1> QED BY <1>1, <1>2, <1>3

\* The IMSIC nodes tell of nothing but interrupt files,
LEMMA ImsicsFit ==
  ASSUME Ready, NEW v \in ImsicViews, NEW k \in DOMAIN v.reg
  PROVE  Fits(v.kind, v.reg[k])
<1>1. Imsic /\ 0 \in GuestNumbers /\ cfg.guests \in GuestNumbers
  BY ReadyNumbers, ConfigAssumption, SMT DEF ImsicViews, GuestNumbers, AISLAB_IRQCHIP_MAX_GUESTS
<1>2. \/ ~Kvm /\ v = View("imsic", ImsicRanges(aislab_memmap.IMSIC_M, 0), {})
      \/ v = View("imsic", ImsicRanges(aislab_memmap.IMSIC_S, GuestBits), {})
  BY Zenon DEF ImsicViews
<1>3. ASSUME NEW entry, NEW bits, v = View("imsic", ImsicRanges(entry, bits), {}),
             \A g \in 1 .. cfg.sockets : Fits("imsic", ImsicRanges(entry, bits)[g])
      PROVE  Fits(v.kind, v.reg[k])
  <2>1. v.kind = "imsic" /\ v.reg = ImsicRanges(entry, bits)
    BY <1>3 DEF View
  <2>2. k \in 1 .. cfg.sockets
    BY <2>1, Zenon DEF ImsicRanges
  <2> QED BY <1>3, <2>1, <2>2
<1>4. CASE ~Kvm /\ v = View("imsic", ImsicRanges(aislab_memmap.IMSIC_M, 0), {})
  <2>1. \A g \in 1 .. cfg.sockets : Fits("imsic", ImsicRanges(aislab_memmap.IMSIC_M, aislab_imsic_num_bits(0 + 1))[g])
    <3> TAKE g \in 1 .. cfg.sockets
    <3> QED BY <1>1, <1>4, ImsicFits, ImsicSlots, ImsicsOnBoard, Zenon
  <2> QED BY <1>3, <1>4, <2>1, OneFile
<1>5. CASE v = View("imsic", ImsicRanges(aislab_memmap.IMSIC_S, GuestBits), {})
  <2>1. \A g \in 1 .. cfg.sockets :
          Fits("imsic", ImsicRanges(aislab_memmap.IMSIC_S, aislab_imsic_num_bits(cfg.guests + 1))[g])
    <3> TAKE g \in 1 .. cfg.sockets
    <3> QED BY <1>1, <1>5, ImsicFits, ImsicSlots, ImsicsOnBoard, Zenon
  <2> QED BY <1>3, <1>5, <2>1 DEF GuestBits
<1> QED BY <1>2, <1>4, <1>5

\* and of them all.
LEMMA ImsicsSeen ==
  ASSUME Ready, Imsic, NEW j \in Sockets, NEW r,
         \/ r \in ImsicRegions(j, "imsic_s", aislab_memmap.IMSIC_S, "S_EXT", cfg.guests)
         \/ (~Kvm /\ r \in ImsicRegions(j, "imsic_m", aislab_memmap.IMSIC_M, "M_EXT", 0))
  PROVE  Seen(r)
<1>1. 0 \in GuestNumbers /\ cfg.guests \in GuestNumbers
  BY ReadyNumbers, ConfigAssumption, SMT DEF GuestNumbers, AISLAB_IRQCHIP_MAX_GUESTS
<1>2. ImsicViews \subseteq Views(tree)
  <2>1. Tells("fdt_sockets") = ImsicViews
    BY Zenon DEF Tells
  <2> QED BY <2>1, InTree DEF TreeStages
<1>3. View("imsic", ImsicRanges(aislab_memmap.IMSIC_S, aislab_imsic_num_bits(cfg.guests + 1)), {}) \in Views(tree)
  BY <1>2 DEF ImsicViews, GuestBits
<1>4. ~Kvm => View("imsic", ImsicRanges(aislab_memmap.IMSIC_M, aislab_imsic_num_bits(0 + 1)), {}) \in Views(tree)
  BY <1>2, OneFile DEF ImsicViews
<1>5. CASE r \in ImsicRegions(j, "imsic_s", aislab_memmap.IMSIC_S, "S_EXT", cfg.guests)
  BY <1>1, <1>3, <1>5, ImsicSeen, ImsicSlots, Zenon
<1>6. CASE ~Kvm /\ r \in ImsicRegions(j, "imsic_m", aislab_memmap.IMSIC_M, "M_EXT", 0)
  BY <1>1, <1>4, <1>6, ImsicSeen, ImsicSlots, Zenon
<1> QED BY <1>5, <1>6

\* Every node's ranges are those of its device, and every device has a node.
LEMMA ReadyDescribes ==
  ASSUME Ready
  PROVE  NodesDescribeDevices
<1>1. ASSUME NEW v, NEW kind, NEW at, NEW irqs, v = View(kind, <<at>>, irqs), Fits(kind, at)
      PROVE  \A k \in DOMAIN v.reg : Fits(v.kind, v.reg[k])
  <2>1. v.kind = kind /\ v.reg = <<at>>
    BY <1>1 DEF View
  <2> QED BY <1>1, <2>1
<1>2. ASSUME NEW v \in Views(tree), NEW k \in DOMAIN v.reg
      PROVE  Fits(v.kind, v.reg[k])
  <2>1. \/ \E p \in TreeStages \ {"fdt_sockets"} : v \in Tells(p)
        \/ v \in ImsicViews
        \/ \E i \in Sockets : v \in SocketViews(i)
        \/ \E i \in XplicSockets : v \in ChipViews(i)
        \/ v = BusView(xplic[0])
    <3>1. Tells("fdt_sockets") = ImsicViews
      BY Zenon DEF Tells
    <3> QED BY <3>1, InTree
  <2>2. ASSUME NEW p \in TreeStages \ {"fdt_sockets"}, v \in Tells(p)
        PROVE  Fits(v.kind, v.reg[k])
    BY <2>2, FixedFits
  <2>3. CASE v \in ImsicViews
    BY <2>3, ImsicsFit
  <2>4. ASSUME NEW i \in Sockets, v \in SocketViews(i)
        PROVE  Fits(v.kind, v.reg[k])
    <3>1. \/ v = View("memory", <<MemoryEntry(i)>>, {})
          \/ \E kind \in TimerKinds : v = View(kind, <<TimerEntry(kind, i)>>, {})
      BY <2>4, Zenon DEF SocketViews
    <3>2. Fits("memory", MemoryEntry(i)) /\ \A kind \in TimerKinds : Fits(kind, TimerEntry(kind, i))
      BY MemoryFits, TimersFit
    <3> QED BY <1>1, <3>1, <3>2
  <2>5. ASSUME NEW i \in XplicSockets, v \in ChipViews(i)
        PROVE  Fits(v.kind, v.reg[k])
    BY <2>5, ChipsFit
  <2>6. CASE v = BusView(xplic[0])
    <3>1. PICK irqs : v = View("platform_bus", <<aislab_memmap.PLATFORM_BUS>>, irqs)
      BY <2>6, Zenon DEF BusView
    <3>2. PICK n, serves : Region("platform_bus", n, aislab_memmap.PLATFORM_BUS, serves) \in board
      BY FixedOnBoard, Zenon DEF Plain
    <3>3. Fits("platform_bus", aislab_memmap.PLATFORM_BUS)
      BY <3>2, ExactFits, FixedSizes, StandsForIs
    <3> QED BY <1>1, <3>1, <3>3
  <2> QED BY <2>1, <2>2, <2>3, <2>4, <2>5, <2>6
<1>3. ASSUME NEW r \in board, r.dev \notin {"mrom", "ram"}
      PROVE  Seen(r)
  <2>1. \/ \E i \in Sockets : r \in TimerRegions(i)
        \/ (cfg.aia = "none" /\ \E i \in XplicSockets : r \in PlicRegions(i))
        \/ /\ cfg.aia # "none"
           /\ \E i \in XplicSockets :
                \/ r = AplicRegion(i, "aplic_s", aislab_memmap.APLIC_S, "S_EXT")
                \/ (~Kvm /\ r = AplicRegion(i, "aplic_m", aislab_memmap.APLIC_M, "M_EXT"))
        \/ /\ Imsic
           /\ \E i \in Sockets :
                \/ r \in ImsicRegions(i, "imsic_s", aislab_memmap.IMSIC_S, "S_EXT", cfg.guests)
                \/ (~Kvm /\ r \in ImsicRegions(i, "imsic_m", aislab_memmap.IMSIC_M, "M_EXT", 0))
        \/ \E p \in BoardStages \ {"sockets"} : r \in Adds(p)
    BY BoardByKind, Zenon
  <2>2. CASE \E i \in Sockets : r \in TimerRegions(i)
    BY <2>2, TimersSeen
  <2>3. CASE cfg.aia = "none" /\ \E i \in XplicSockets : r \in PlicRegions(i)
    BY <2>3, ChipsSeen
  <2>4. CASE /\ cfg.aia # "none"
             /\ \E i \in XplicSockets :
                  \/ r = AplicRegion(i, "aplic_s", aislab_memmap.APLIC_S, "S_EXT")
                  \/ (~Kvm /\ r = AplicRegion(i, "aplic_m", aislab_memmap.APLIC_M, "M_EXT"))
    BY <2>4, ChipsSeen
  <2>5. CASE /\ Imsic
             /\ \E i \in Sockets :
                  \/ r \in ImsicRegions(i, "imsic_s", aislab_memmap.IMSIC_S, "S_EXT", cfg.guests)
                  \/ (~Kvm /\ r \in ImsicRegions(i, "imsic_m", aislab_memmap.IMSIC_M, "M_EXT", 0))
    BY <2>5, ImsicsSeen
  <2>6. CASE \E p \in BoardStages \ {"sockets"} : r \in Adds(p)
    BY <1>3, <2>6, FixedSeen
  <2> QED BY <2>1, <2>2, <2>3, <2>4, <2>5, <2>6
<1> QED BY <1>2, <1>3, ViewsAreNodes

-----------------------------------------------------------------------------
(* The window of mmio_bus *)

\* Its node, once it is there, says where it is.
WindowInv == \A n \in tree : n.kind = "mmio_bus" => Tell(n)

\* create_fdt_mmio_bus makes it; no other function does.
LEMMA WindowNext ==
  ASSUME WindowInv, PathsInv', [Next]_vars
  PROVE  WindowInv'
<1>1. CASE tree' = tree
  BY <1>1 DEF WindowInv, Tell
<1>2. CASE Rank(pc') <= 18
  <2> SUFFICES ASSUME NEW n \in tree', n.kind = "mmio_bus" PROVE FALSE
    BY DEF WindowInv
  <2>1. Stands(n)'
    BY DEF PathsInv
  <2>2. KindRank(n.kind) = 18
    BY DEF KindRank
  <2>3. Rank(pc') \in Nat /\ (pc' \in {"fdt_sockets", "fdt_xplic"} => Rank(pc') # 18)
    BY DEF Rank
  <2> QED BY <1>2, <2>1, <2>2, <2>3 DEF Stands
<1>3. CASE FdtMmioBus
  <2>1. PICK n : n = DeviceNode("mmio_bus", aislab_memmap.MMIO_BUS, "mmio", MMIO_BUS_IRQ)
    OBVIOUS
  <2>2. tree' = tree \cup {n}
    BY <1>3, <2>1, Zenon DEF FdtMmioBus, Fdt
  <2>3. Views({n}) # {}
    <3>1. PICK at, line : n = DeviceNode("mmio_bus", at, "mmio", line)
      BY <2>1, Zenon
    <3>2. PICK kind, d : kind = "mmio_bus" /\ d = "mmio"
      OBVIOUS
    <3>3. n = DeviceNode(kind, at, d, line)
      BY <3>1, <3>2
    <3>4. Views({n}) = {DeviceView(kind, at, d, line)}
      BY <3>3, DeviceTells
    <3> QED BY <3>4
  <2>4. Tell(n)
    BY <2>3 DEF Views
  <2> QED BY <2>2, <2>4 DEF WindowInv, Tell
<1>4. CASE BoardStep /\ UNCHANGED <<treeVars, boot>>
  BY <1>1, <1>4 DEF treeVars
<1>5. CASE TreeStep
  <2>1. CASE CreateFdt \/ PlugIommu
    <3>1. pc' = "plug"
      <4>1. CreateFdt => pc' = "plug"
        BY Zenon DEF CreateFdt
      <4>2. PlugIommu => pc' = pc /\ pc = "plug"
        BY Zenon DEF PlugIommu, boardVars
      <4> QED BY <2>1, <4>1, <4>2
    <3> QED BY <1>2, <3>1 DEF Rank
  <2>2. CASE FdtSocket \/ FdtImsic \/ FdtXplic
    BY <1>2, <2>2 DEF FdtSocket, FdtImsic, FdtXplic, Rank
  <2>3. CASE FdtVirtio \/ FdtPcie
    <3>1. pc' \in {"fdt_pcie", "fdt_reset"}
      BY <2>3, Zenon DEF FdtVirtio, FdtPcie, Fdt
    <3> QED BY <1>2, <3>1 DEF Rank
  <2>4. CASE FdtReset \/ FdtUart \/ FdtRtc
    BY <1>2, <2>4 DEF FdtReset, FdtUart, FdtRtc, Fdt, Rank
  <2>5. CASE Finalize \/ FdtSocketsEnd
    BY <1>1, <2>5 DEF Finalize, FdtSocketsEnd, treeVars
  <2> QED BY <1>3, <1>5, <2>1, <2>2, <2>3, <2>4, <2>5 DEF TreeStep
<1>6. CASE Boot
  BY <1>1, <1>6 DEF Boot, treeVars
<1>7. CASE ClientConnects /\ UNCHANGED <<treeVars, boot>>
  BY <1>1, <1>7 DEF treeVars
<1>8. CASE UNCHANGED vars
  BY <1>1, <1>8 DEF vars, treeVars
<1> QED BY <1>4, <1>5, <1>6, <1>7, <1>8 DEF Next, Step

\* Nothing else is told of a window.
LEMMA WindowTold ==
  ASSUME Ready, NEW v \in Views(tree), v.kind = "mmio_bus"
  PROVE  v.reg = <<aislab_memmap.MMIO_BUS>>
<1>1. \A kind, reg, irqs : View(kind, reg, irqs).kind = kind /\ View(kind, reg, irqs).reg = reg
  BY DEF View
<1>2. ASSUME NEW kind, NEW reg, NEW irqs, v = View(kind, reg, irqs) PROVE kind = "mmio_bus"
  BY <1>1, <1>2
<1>3. ASSUME NEW p \in TreeStages, v \in Tells(p) PROVE v.reg = <<aislab_memmap.MMIO_BUS>>
  <2>1. CASE p = "fdt_sockets"
    <3>1. v \in ImsicViews
      BY <1>3, <2>1 DEF Tells
    <3>2. \E reg : v = View("imsic", reg, {})
      BY <3>1, Zenon DEF ImsicViews
    <3> QED BY <1>2, <3>2
  <2>2. CASE p = "fdt_virtio"
    <3>1. \E n : v = DeviceView("virtio", Nth(aislab_memmap.VIRTIO, n), "virtio", VIRTIO_IRQ + n)
      BY <1>3, <2>2 DEF Tells
    <3>2. \E reg, irqs : v = View("virtio", reg, irqs)
      BY <3>1, Zenon DEF DeviceView
    <3> QED BY <1>2, <3>2
  <2>3. CASE p \in {"tree", "plug", "fdt_xplic", "fdt_pcie", "fdt_reset"}
    <3>1. \E kind \in {"flash", "fw_cfg", "pci", "test"} : \E reg, irqs : v = View(kind, reg, irqs)
      BY <1>3, <2>3 DEF Tells
    <3> QED BY <1>2, <3>1
  <2>4. CASE p \in {"fdt_uart", "fdt_rtc"}
    <3>1. \E kind \in {"serial", "rtc"} : \E at, line : v = DeviceView(kind, at, "mmio", line)
      BY <1>3, <2>4 DEF Tells
    <3>2. \E kind \in {"serial", "rtc"} : \E reg, irqs : v = View(kind, reg, irqs)
      BY <3>1, Zenon DEF DeviceView
    <3> QED BY <1>2, <3>2
  <2>5. CASE p = "fdt_mmio_bus"
    <3>1. v = DeviceView("mmio_bus", aislab_memmap.MMIO_BUS, "mmio", MMIO_BUS_IRQ)
      BY <1>3, <2>5, Zenon DEF Tells
    <3>2. \E irqs : v = View("mmio_bus", <<aislab_memmap.MMIO_BUS>>, irqs)
      BY <3>1, Zenon DEF DeviceView
    <3> QED BY <1>1, <3>2
  <2> QED BY <2>1, <2>2, <2>3, <2>4, <2>5 DEF TreeStages
<1>4. ASSUME NEW i, v \in SocketViews(i) PROVE FALSE
  <2>1. \E kind \in TimerKinds \cup {"memory"} : \E reg, irqs : v = View(kind, reg, irqs)
    BY <1>4, Zenon DEF SocketViews
  <2>2. "mmio_bus" \notin TimerKinds \cup {"memory"}
    BY DEF TimerKinds
  <2> QED BY <1>2, <2>1, <2>2
<1>5. ASSUME NEW i, v \in ChipViews(i) PROVE FALSE
  <2>1. \E kind \in {"plic", "aplic"} : \E reg, irqs : v = View(kind, reg, irqs)
    BY <1>5 DEF ChipViews
  <2> QED BY <1>2, <2>1
<1>6. v # BusView(xplic[0])
  <2> SUFFICES ASSUME v = BusView(xplic[0]) PROVE FALSE
    OBVIOUS
  <2>1. \E reg, irqs : v = View("platform_bus", reg, irqs)
    BY Zenon DEF BusView
  <2> QED BY <1>2, <2>1
<1> QED BY <1>3, <1>4, <1>5, <1>6, InTree

\* The node, the board and the callbacks have it at one place, and as long.
LEMMA ReadyWindow ==
  ASSUME Ready, WindowInv
  PROVE  WindowAgrees
<1>1. SUFFICES ASSUME NEW n \in tree, n.kind = "mmio_bus"
               PROVE  /\ n.reg = <<At(MMIO_ADDR, MMIO_SIZE)>>
                      /\ \E r \in board : r.dev = "mmio_bus" /\ r.base = MMIO_ADDR /\ Inside(n.reg[1], r)
  BY DEF WindowAgrees
<1>2. View(n.kind, n.reg, n.irqs) \in Views(tree)
  BY <1>1 DEF WindowInv, Views
<1>3. n.reg = <<aislab_memmap.MMIO_BUS>>
  <2>1. PICK v : v = View(n.kind, n.reg, n.irqs)
    OBVIOUS
  <2>2. v.kind = "mmio_bus" /\ v.reg = n.reg
    BY <1>1, <2>1 DEF View
  <2> QED BY <1>2, <2>1, <2>2, WindowTold
<1>4. aislab_memmap.MMIO_BUS = At(MMIO_ADDR, MMIO_SIZE) /\ MMIO_ADDR \in Nat /\ MMIO_SIZE \in Nat
  BY MapNumbers, SMT DEF MMIO_ADDR, MMIO_SIZE, MiB, KiB
<1>5. PICK r : r = Plain("mmio_bus", At(aislab_memmap.MMIO_BUS.base, MMIO_SIZE))
  OBVIOUS
<1>6. \A base, size : At(base, size).base = base /\ At(base, size).size = size
  BY DEF At
<1>7. r \in board /\ r.dev = "mmio_bus" /\ r.base = MMIO_ADDR /\ r.size = MMIO_SIZE
  <2>1. r \in board
    BY <1>5, FixedOnBoard
  <2>2. r.dev = "mmio_bus" /\ r.base = aislab_memmap.MMIO_BUS.base /\ r.size = MMIO_SIZE
    BY <1>5, <1>6 DEF Plain, Region
  <2> QED BY <1>4, <1>6, <2>1, <2>2
<1>8. Inside(n.reg[1], r)
  <2>1. n.reg[1] = At(MMIO_ADDR, MMIO_SIZE)
    BY <1>3, <1>4
  <2> QED BY <1>4, <1>6, <1>7, <2>1 DEF Inside
<1> QED BY <1>3, <1>4, <1>7, <1>8

-----------------------------------------------------------------------------
(* The interrupt controllers devices refer to *)

\* The node whose phandle create_fdt_socket_plic or _aplic leaves for devices.
XplicEntry(i) == Nth(IF cfg.aia = "none" THEN aislab_memmap.PLIC ELSE aislab_memmap.APLIC_S, i)
XplicCells == IF cfg.aia = "none" THEN 1 ELSE 2

\* It is the child of another.
Delegated == cfg.aia # "none" /\ ~Kvm

ChipNode(i) ==
  \E q \in tree : /\ q.phandle = xplic[i] /\ q.phandle # 0 /\ q.cells = XplicCells
                  /\ q.at = XplicEntry(i).base /\ q.kind # "pci"

ChildOf(m, ref) ==
  \E i \in XplicSockets : /\ Passed("fdt_xplic", i) /\ Delegated /\ ref = Ref("children", xplic[i])
                          /\ m.at = Nth(aislab_memmap.APLIC_M, i).base /\ m.kind # "pci"

Childless(N) == \A n \in N : \A ref \in n.refs : ref.prop # "children"

\* Every socket the loop of create_fdt_sockets is past has its controller in the
\* tree, under the one that delegates to it if there is one, and nothing else has a child.
ChipsInv ==
  /\ \A i \in XplicSockets : TreeKnown /\ Passed("fdt_xplic", i) =>
       /\ ChipNode(i)
       /\ Delegated => \E m \in tree : Ref("children", xplic[i]) \in m.refs
  /\ \A m \in tree : \A ref \in m.refs : ref.prop = "children" => ChildOf(m, ref)

\* The loop over the sockets does not go back.
LEMMA PassedStays ==
  ASSUME (pc' = pc /\ sock' = sock) \/ Rank(pc) < Rank(pc'),
         NEW i, Passed("fdt_xplic", i)
  PROVE  Passed("fdt_xplic", i)'
<1>1. Rank(pc) \in Nat /\ Rank(pc') \in Nat /\ Rank("fdt_xplic") \in Nat
  BY DEF Rank
<1> QED BY <1>1 DEF Passed

\* Nodes are added that have no children.
LEMMA ChipsOn ==
  ASSUME ChipsInv, UNCHANGED <<cfg, xplic>>, NEW N, tree' = tree \cup N, Childless(N),
         \A i \in XplicSockets : Passed("fdt_xplic", i) => Passed("fdt_xplic", i)',
         \A i \in XplicSockets : TreeKnown' /\ Passed("fdt_xplic", i)' => TreeKnown /\ Passed("fdt_xplic", i)
  PROVE  ChipsInv'
<1>1. /\ XplicSockets' = XplicSockets /\ XplicCells' = XplicCells /\ Delegated' = Delegated
      /\ \A i : XplicEntry(i)' = XplicEntry(i) /\ xplic'[i] = xplic[i]
  BY DEF XplicSockets, UseKvmAia, Sockets, XplicCells, Delegated, Kvm, XplicEntry
<1>2. ASSUME NEW i \in XplicSockets, TreeKnown', Passed("fdt_xplic", i)'
      PROVE  /\ ChipNode(i)'
             /\ Delegated => \E m \in tree' : Ref("children", xplic[i]) \in m.refs
  <2>1. ChipNode(i) /\ (Delegated => \E m \in tree : Ref("children", xplic[i]) \in m.refs)
    BY <1>2 DEF ChipsInv
  <2> QED BY <1>1, <2>1 DEF ChipNode
<1>3. ASSUME NEW m \in tree', NEW ref \in m.refs, ref.prop = "children"
      PROVE  ChildOf(m, ref)'
  <2>1. m \in tree /\ ChildOf(m, ref)
    BY <1>3 DEF ChipsInv, Childless
  <2> QED BY <1>1, <2>1 DEF ChildOf
<1> QED BY <1>1, <1>2, <1>3 DEF ChipsInv

\* create_fdt, the plugging of a virtio-iommu, and what comes before both.
LEMMA ChipsEarly ==
  ASSUME ChipsInv, UNCHANGED <<cfg, xplic>>, Rank(pc) <= 10, pc' = "plug", NEW N, tree' = N \cup (tree' \cap tree),
         Childless(N)
  PROVE  ChipsInv'
<1>1. \A i : ~Passed("fdt_xplic", i) /\ ~Passed("fdt_xplic", i)'
  BY DEF Passed, Rank
<1>2. ASSUME NEW m \in tree', NEW ref \in m.refs PROVE ref.prop # "children"
  <2>1. CASE m \in N
    BY <2>1 DEF Childless
  <2>2. CASE m \in tree
    BY <1>1, <2>2 DEF ChipsInv, ChildOf
  <2> QED BY <2>1, <2>2
<1> QED BY <1>1, <1>2 DEF ChipsInv

\* create_fdt_socket_plic, create_fdt_socket_aplic: the controller of one socket.
LEMMA ChipsFdtXplic ==
  ASSUME ChipsInv, ViewsInv, TypesInv, FdtXplic
  PROVE  ChipsInv'
<1>1. /\ pc = "fdt_xplic" /\ UNCHANGED <<cfg, ramSize, pc>> /\ sock' = sock - 1
      /\ cfg \in Configs /\ sock \in Sockets /\ sock \in XplicSockets /\ sock \in Int
  <2>1. /\ pc = "fdt_xplic" /\ UNCHANGED <<cfg, ramSize, pc>> /\ sock' = sock - 1 /\ sock >= 0
    BY DEF FdtXplic
  <2>2. cfg \in Configs /\ sock \in -1 .. cfg.sockets - 1
    BY <2>1 DEF TypesInv, PhandlesInv, CounterInv
  <2>3. sock \in Sockets
    BY <2>1, <2>2, ChipSockets DEF Sockets
  <2>4. UseKvmAia => sock = 0
    BY <2>1, <2>2, ChipSockets DEF ViewsInv
  <2> QED BY <2>1, <2>2, <2>3, <2>4 DEF XplicSockets
<1>2. PICK ph, hs, harts, own :
        /\ ph = phandle /\ hs = IntcFrom(pos', intc) /\ harts = IF UseKvmAia THEN cfg.cpus ELSE Count
        /\ own = IF cfg.aia = "none" THEN ph ELSE ph + 1
  OBVIOUS
<1>3. /\ ph \in Nat \ {0} /\ own \in Nat \ {0} /\ xplic' = [xplic EXCEPT ![sock] = own]
      /\ xplic \in [Sockets -> Nat]
  <2>1. phandle \in Nat /\ 1 <= phandle
    BY CounterBelow DEF TypesInv, PhandlesInv
  <2>2. xplic' = [xplic EXCEPT ![sock] = IF cfg.aia = "none" THEN phandle ELSE phandle + 1]
    BY DEF FdtXplic
  <2> QED BY <1>2, <2>1, <2>2 DEF TypesInv, TypeOK
<1>4. xplic'[sock] = own /\ \A i \in Sockets : i # sock => xplic'[i] = xplic[i]
  BY <1>1, <1>3
<1>5. /\ XplicSockets' = XplicSockets /\ XplicSockets \subseteq Sockets /\ Sockets \subseteq Int
      /\ XplicCells' = XplicCells /\ Delegated' = Delegated
      /\ \A i : XplicEntry(i)' = XplicEntry(i)
  BY <1>1, ChipSockets DEF XplicSockets, UseKvmAia, Sockets, XplicCells, Delegated, Kvm, XplicEntry
<1>6. \A i \in XplicSockets : Passed("fdt_xplic", i)' <=> Passed("fdt_xplic", i) \/ i = sock
  BY <1>1, <1>5 DEF Passed
<1>7. ~Passed("fdt_xplic", sock) /\ (TreeKnown' <=> TreeKnown)
  <2>1. TreeKnown' <=> TreeKnown
    BY <1>1 DEF TreeKnown
  <2>2. ~Passed("fdt_xplic", sock)
    BY <1>1 DEF Passed, Rank
  <2> QED BY <2>1, <2>2
<1>8. PICK plic, mnode, snode, Bus :
        /\ plic = PlicNode(ph, hs) /\ Bus = PlatformBusNode(own)
        /\ mnode = AplicNode(aislab_memmap.APLIC_M, "M_EXT", msi[1], ph, ph + 1, hs, harts)
        /\ snode = AplicNode(aislab_memmap.APLIC_S, "S_EXT", msi[2], ph + 1, 0, hs, harts)
  OBVIOUS
<1> DEFINE Chips == IF cfg.aia = "none" THEN {plic} ELSE (IF Kvm THEN {} ELSE {mnode}) \cup {snode}
<1>9. tree' = tree \cup Chips \cup Bus
  <2>1. CASE cfg.aia = "none"
    <3>1. tree' = tree \cup {PlicNode(ph, hs)} \cup PlatformBusNode(own)
      BY <1>2, <2>1, Zenon DEF FdtXplic
    <3> QED BY <1>8, <2>1, <3>1
  <2>2. CASE cfg.aia # "none"
    <3>1. tree' = tree \cup AplicNodes(hs, harts) \cup PlatformBusNode(own)
      BY <1>2, <2>2, Zenon DEF FdtXplic
    <3>2. AplicNodes(hs, harts) = (IF Kvm THEN {} ELSE {mnode}) \cup {snode}
      BY <1>2, <1>8, Zenon DEF AplicNodes
    <3> QED BY <1>8, <2>2, <3>1, <3>2
  <2> QED BY <2>1, <2>2
<1>10. /\ plic.phandle = ph /\ plic.cells = 1 /\ plic.at = Nth(aislab_memmap.PLIC, sock).base
       /\ plic.kind = "plic" /\ plic.refs = {}
  <2>1. PICK entry, ext, reg : /\ entry = Nth(aislab_memmap.PLIC, sock)
                               /\ Made(plic, "plic", entry.base, ph, reg, ext, {}, 1, {})
    BY <1>8, MadeChips, Zenon
  <2> QED BY <2>1, Zenon DEF Made
<1>11. /\ snode.phandle = ph + 1 /\ snode.cells = 2 /\ snode.at = Nth(aislab_memmap.APLIC_S, sock).base
       /\ snode.kind = "aplic" /\ \A ref \in snode.refs : ref = Ref("msi_parent", msi[2])
  <2>1. PICK entry, ext, reg, refs :
          /\ entry = Nth(aislab_memmap.APLIC_S, sock)
          /\ refs = (IF Imsic THEN {Ref("msi_parent", msi[2])} ELSE {})
                      \cup (IF 0 = 0 THEN {} ELSE {Ref("children", 0)})
          /\ Made(snode, "aplic", entry.base, ph + 1, reg, ext, {}, 2, refs)
    BY <1>8, MadeChips, Zenon
  <2>2. \A ref \in refs : ref = Ref("msi_parent", msi[2])
    BY <2>1
  <2> QED BY <2>1, <2>2, Zenon DEF Made
<1>12. /\ mnode.at = Nth(aislab_memmap.APLIC_M, sock).base /\ mnode.kind = "aplic"
       /\ Ref("children", ph + 1) \in mnode.refs
       /\ \A ref \in mnode.refs : ref = Ref("msi_parent", msi[1]) \/ ref = Ref("children", ph + 1)
  <2>1. PICK entry, ext, reg, refs, next :
          /\ entry = Nth(aislab_memmap.APLIC_M, sock) /\ next = ph + 1
          /\ refs = (IF Imsic THEN {Ref("msi_parent", msi[1])} ELSE {})
                      \cup (IF next = 0 THEN {} ELSE {Ref("children", next)})
          /\ Made(mnode, "aplic", entry.base, ph, reg, ext, {}, 2, refs)
    BY <1>8, MadeChips, Zenon
  <2>2. next # 0
    BY <1>3, <2>1
  <2>3. /\ Ref("children", ph + 1) \in refs
        /\ \A ref \in refs : ref = Ref("msi_parent", msi[1]) \/ ref = Ref("children", ph + 1)
    BY <2>1, <2>2
  <2> QED BY <2>1, <2>3, Zenon DEF Made
<1>13. \A n \in Bus : n.refs = {}
  <2> SUFFICES ASSUME NEW n \in Bus PROVE n.refs = {}
    OBVIOUS
  <2>1. PICK at, reg, irqs : Made(n, "platform_bus", at, 0, reg, <<>>, irqs, -1, {})
    BY <1>8, MadeChips, Zenon
  <2> QED BY <2>1, Zenon DEF Made
<1>14. \A prop, p : Ref(prop, p).prop = prop
  BY DEF Ref
<1>15. ASSUME NEW i \in XplicSockets, TreeKnown', Passed("fdt_xplic", i)'
       PROVE  /\ ChipNode(i)'
              /\ Delegated => \E m \in tree' : Ref("children", xplic'[i]) \in m.refs
  <2>1. CASE i = sock
    <3>1. CASE cfg.aia = "none"
      BY <1>1, <1>2, <1>3, <1>4, <1>9, <1>10, <2>1, <3>1 DEF ChipNode, XplicCells, XplicEntry, Delegated
    <3>2. CASE cfg.aia # "none"
      <4>1. snode \in tree' /\ (Delegated => mnode \in tree')
        BY <1>9, <3>2 DEF Delegated
      <4>2. ChipNode(i)'
        BY <1>1, <1>2, <1>3, <1>4, <1>11, <2>1, <3>2, <4>1 DEF ChipNode, XplicCells, XplicEntry
      <4> QED BY <1>2, <1>4, <1>12, <2>1, <3>2, <4>1, <4>2
    <3> QED BY <3>1, <3>2
  <2>2. CASE i # sock
    <3>1. ChipNode(i) /\ (Delegated => \E m \in tree : Ref("children", xplic[i]) \in m.refs)
      BY <1>6, <1>7, <1>15, <2>2 DEF ChipsInv
    <3>2. xplic'[i] = xplic[i]
      BY <1>4, <1>5, <2>2
    <3>3. tree \subseteq tree'
      BY <1>9
    <3> QED BY <1>5, <3>1, <3>2, <3>3 DEF ChipNode
  <2> QED BY <2>1, <2>2
<1>16. ASSUME NEW m \in tree', NEW ref \in m.refs, ref.prop = "children"
       PROVE  ChildOf(m, ref)'
  <2>1. CASE m \in tree
    <3>1. PICK i \in XplicSockets :
            /\ Passed("fdt_xplic", i) /\ Delegated /\ ref = Ref("children", xplic[i])
            /\ m.at = Nth(aislab_memmap.APLIC_M, i).base /\ m.kind # "pci"
      BY <1>16, <2>1 DEF ChipsInv, ChildOf
    <3>2. xplic'[i] = xplic[i] /\ Passed("fdt_xplic", i)'
      BY <1>4, <1>5, <1>6, <1>7, <3>1
    <3> QED BY <1>5, <3>1, <3>2 DEF ChildOf
  <2>2. CASE m \in Chips
    <3>1. m = mnode /\ Delegated
      BY <1>10, <1>11, <1>14, <1>16, <2>2 DEF Delegated
    <3>2. ref = Ref("children", ph + 1)
      BY <1>12, <1>14, <1>16, <3>1
    <3>3. PICK i \in XplicSockets : i = sock
      BY <1>1
    <3>4. xplic'[i] = ph + 1 /\ m.at = Nth(aislab_memmap.APLIC_M, i).base
      BY <1>2, <1>4, <1>12, <3>1, <3>3 DEF Delegated
    <3>5. Passed("fdt_xplic", i)'
      BY <1>6, <3>3
    <3> QED BY <1>5, <1>12, <3>1, <3>2, <3>4, <3>5 DEF ChildOf
  <2>3. CASE m \in Bus
    BY <1>13, <1>16, <2>3
  <2> QED BY <1>9, <2>1, <2>2, <2>3
<1> QED BY <1>5, <1>15, <1>16 DEF ChipsInv

\* create_fdt and the plugging of a virtio-iommu: before there are controllers.
LEMMA ChipsFirst ==
  ASSUME ChipsInv, CreateFdt \/ PlugIommu
  PROVE  ChipsInv'
<1>1. \A prop, p : Ref(prop, p).prop = prop
  BY DEF Ref
<1>2. Childless({PciNode, FlashNode, FwCfgNode, PmuNode})
  <2>1. PciNode.refs = {} /\ FlashNode.refs = {} /\ FwCfgNode.refs = {} /\ PmuNode.refs = {}
    BY MadeFirst, Zenon DEF Made
  <2> QED BY <2>1 DEF Childless
<1>3. CASE CreateFdt
  <2>1. /\ UNCHANGED <<cfg, xplic>> /\ pc = "tree" /\ pc' = "plug"
        /\ tree' \subseteq {PciNode, FlashNode, FwCfgNode, PmuNode}
    BY <1>3 DEF CreateFdt
  <2>2. Rank(pc) <= 10 /\ Childless(tree')
    BY <1>2, <2>1 DEF Rank, Childless
  <2>3. tree' = tree' \cup (tree' \cap tree)
    OBVIOUS
  <2> QED BY <2>1, <2>2, <2>3, ChipsEarly
<1>4. CASE PlugIommu
  <2>1. PICK p, m : /\ p = [PciNode EXCEPT !.refs = {Ref("iommu_map", ALLOC_PHANDLE)}]
                    /\ m = [Node0 EXCEPT !.kind = "iommu", !.phandle = ALLOC_PHANDLE]
    OBVIOUS
  <2>2. /\ UNCHANGED <<cfg, xplic>> /\ pc = "plug" /\ pc' = "plug"
        /\ tree' = (tree \ {PciNode}) \cup {p, m}
    BY <1>4, <2>1, Zenon DEF PlugIommu, boardVars
  <2>3. Childless({p, m})
    <3>1. p.refs = {Ref("iommu_map", ALLOC_PHANDLE)} /\ m.refs = {}
      BY <2>1, MadeFirst, Zenon DEF Made
    <3> QED BY <1>1, <3>1 DEF Childless
  <2>4. Rank(pc) <= 10 /\ tree' = {p, m} \cup (tree' \cap tree)
    BY <2>2 DEF Rank
  <2> QED BY <2>2, <2>3, <2>4, ChipsEarly
<1> QED BY <1>3, <1>4

\* create_fdt_sockets up to the controllers of wired interrupts.
LEMMA ChipsSockets ==
  ASSUME ChipsInv, TypesInv, FdtSocket \/ FdtImsic
  PROVE  ChipsInv'
<1>1. pc = "fdt_sockets" /\ cfg \in Configs /\ UNCHANGED <<cfg, xplic>>
  BY DEF TypesInv, PhandlesInv, CounterInv, FdtSocket, FdtImsic
<1>2. \A i : ~Passed("fdt_xplic", i)
  BY <1>1 DEF Passed, Rank
<1>3. \A prop, p : Ref(prop, p).prop = prop
  BY DEF Ref
<1>4. CASE FdtSocket
  <2>1. PICK hs, first : hs = IntcFrom(pos', intc') /\ first = FirstHartid(sock)
    OBVIOUS
  <2>2. tree' = tree \cup (CpuNodes \cup {MemoryNode} \cup TimerNodes(hs))
    <3>1. tree' = tree \cup CpuNodes \cup {MemoryNode} \cup TimerNodes(hs)
      BY <1>4, <2>1, Zenon DEF FdtSocket
    <3> QED BY <3>1
  <2>3. Childless(CpuNodes)
    <3>1. ASSUME NEW n \in CpuNodes
          PROVE  n.refs = {} \/ \E ph : n.refs = {Ref("cpu", ph)}
      <4> DEFINE cpu(at, ph) == [Node0 EXCEPT !.kind = "cpu", !.at = at, !.phandle = ph]
                 ctl(at, ph) == [Node0 EXCEPT !.kind = "cpu-intc", !.at = at, !.phandle = ph, !.cells = 1]
                 core(at, ph) == [Node0 EXCEPT !.kind = "core", !.at = at, !.refs = {Ref("cpu", ph)}]
      <4>1. PICK k \in 0 .. Count - 1 :
              n \in { cpu(first + k, CpuPhandle(k)), ctl(first + k, IntcPhandle(k)),
                      core(first + k, CpuPhandle(k)) }
        BY <2>1, <3>1, Zenon DEF CpuNodes
      <4>2. ASSUME NEW at, NEW ph
            PROVE  cpu(at, ph).refs = {} /\ ctl(at, ph).refs = {} /\ core(at, ph).refs = {Ref("cpu", ph)}
        <5>1. Made(cpu(at, ph), "cpu", at, ph, <<>>, <<>>, {}, -1, {})
          BY MadeCpu, Zenon
        <5>2. Made(ctl(at, ph), "cpu-intc", at, ph, <<>>, <<>>, {}, 1, {})
          BY MadeCpu, Zenon
        <5>3. Made(core(at, ph), "core", at, 0, <<>>, <<>>, {}, -1, {Ref("cpu", ph)})
          BY MadeCpu, Zenon
        <5> HIDE DEF cpu, ctl, core
        <5> QED BY <5>1, <5>2, <5>3, Zenon DEF Made
      <4> HIDE DEF cpu, ctl, core
      <4> QED BY <4>1, <4>2
    <3> QED BY <1>3, <3>1 DEF Childless
  <2>4. MemoryNode.refs = {}
    BY MadeMemory, Zenon DEF Made
  <2>5. \A n \in TimerNodes(hs) : n.refs = {}
    <3> SUFFICES ASSUME NEW n \in TimerNodes(hs) PROVE n.refs = {}
      OBVIOUS
    <3>1. PICK kind \in TimerKinds : n = TimerNode(kind, hs)
      BY MadeTimers, Zenon
    <3> QED BY <3>1, MadeTimers, Zenon DEF Made
  <2>6. Childless(CpuNodes \cup {MemoryNode} \cup TimerNodes(hs))
    BY <2>3, <2>4, <2>5 DEF Childless
  <2>7. pc' = pc
    BY <1>4 DEF FdtSocket
  <2>8. \A i : ~Passed("fdt_xplic", i)'
    BY <1>1, <2>7 DEF Passed, Rank
  <2> QED BY <1>1, <1>2, <2>2, <2>6, <2>8, ChipsOn
<1>5. CASE FdtImsic
  <2>1. PICK N : /\ tree' = tree \cup N
                 /\ \A n \in N : \E entry, irq, ph, bits : n = ImsicNode(entry, irq, ph, bits)
    <3>1. PICK a, b : /\ a = ImsicNode(aislab_memmap.IMSIC_M, "M_EXT", msi'[1], 0)
                      /\ b = ImsicNode(aislab_memmap.IMSIC_S, "S_EXT", msi'[2], GuestBits)
      OBVIOUS
    <3>2. CASE Imsic
      <4>1. tree' = tree \cup (IF Kvm THEN {} ELSE {a}) \cup {b}
        BY <1>5, <3>1, <3>2, Zenon DEF FdtImsic
      <4>2. tree' = tree \cup ((IF Kvm THEN {} ELSE {a}) \cup {b})
        BY <4>1
      <4>3. \A n \in (IF Kvm THEN {} ELSE {a}) \cup {b} : n = a \/ n = b
        OBVIOUS
      <4> QED BY <3>1, <4>2, <4>3
    <3>3. CASE ~Imsic
      <4>1. PICK none : none = {}
        OBVIOUS
      <4>2. tree' = tree \cup none /\ \A n : n \notin none
        BY <1>5, <3>3, <4>1 DEF FdtImsic
      <4> QED BY <4>2
    <3> QED BY <3>2, <3>3
  <2>2. Childless(N)
    <3>1. ASSUME NEW n \in N PROVE n.refs = {}
      <4>1. PICK entry, irq, ph, bits : n = ImsicNode(entry, irq, ph, bits)
        BY <2>1
      <4> QED BY <4>1, MadeChips, Zenon DEF Made
    <3> QED BY <3>1 DEF Childless
  <2>3. pc' = "fdt_xplic" /\ sock' = IF UseKvmAia THEN 0 ELSE cfg.sockets - 1
    BY <1>5 DEF FdtImsic
  <2>4. \A i \in XplicSockets : ~Passed("fdt_xplic", i)'
    <3> TAKE i \in XplicSockets
    <3>1. cfg.sockets \in Nat /\ i \in Int /\ ~(sock' < i)
      BY <1>1, <2>3, ChipSockets DEF XplicSockets, Sockets
    <3> QED BY <2>3, <3>1 DEF Passed, Rank
  <2> QED BY <1>1, <1>2, <2>1, <2>2, <2>4, ChipsOn
<1> QED BY <1>4, <1>5

\* The functions that add devices.
LEMMA ChipsDevices ==
  ASSUME ChipsInv, TypesInv, FdtVirtio \/ FdtReset \/ FdtUart \/ FdtRtc \/ FdtMmioBus
  PROVE  ChipsInv'
<1>1. ASSUME NEW from, NEW to, NEW N, Fdt(from, to, N), 12 < Rank(from), Rank(from) < Rank(to),
             \A n \in N : \E kind, ph : n.refs = {} \/ n.refs = {Ref("regmap", ph)}
      PROVE  ChipsInv'
  <2>1. tree' = tree \cup N /\ UNCHANGED <<cfg, xplic>> /\ pc = from /\ pc' = to
    BY <1>1 DEF Fdt
  <2>2. Childless(N)
    <3>1. \A prop, p : Ref(prop, p).prop = prop
      BY DEF Ref
    <3> QED BY <1>1, <3>1 DEF Childless
  <2>3. \A i : Passed("fdt_xplic", i) /\ Passed("fdt_xplic", i)'
    <3>1. Rank("fdt_xplic") = 12 /\ Rank(pc) \in Nat /\ Rank(pc') \in Nat
      BY DEF Rank
    <3> QED BY <1>1, <2>1, <3>1 DEF Passed
  <2>4. TreeKnown' => TreeKnown
    <3>1. Rank("exited") = 19 /\ Rank(from) \in Nat /\ Rank(to) \in Nat /\ Rank(to) <= 19
      BY DEF Rank
    <3> QED BY <1>1, <2>1, <3>1 DEF TreeKnown
  <2> QED BY <2>1, <2>2, <2>3, <2>4, ChipsOn
<1>2. ASSUME NEW kind, NEW at, NEW d, NEW line PROVE DeviceNode(kind, at, d, line).refs = {}
  BY MadeDevices, Zenon DEF Made
<1>3. CASE FdtVirtio
  <2> DEFINE node(k) == DeviceNode("virtio", Nth(aislab_memmap.VIRTIO, k), "virtio", VIRTIO_IRQ + k)
  <2>1. Fdt("fdt_virtio", "fdt_pcie", { node(k) : k \in 0 .. VIRTIO_COUNT - 1 })
    BY <1>3, Zenon DEF FdtVirtio
  <2>2. \A k : node(k).refs = {}
    BY <1>2
  <2> HIDE DEF node
  <2>3. 12 < Rank("fdt_virtio") /\ Rank("fdt_virtio") < Rank("fdt_pcie")
    BY DEF Rank
  <2>4. \A n \in { node(k) : k \in 0 .. VIRTIO_COUNT - 1 } : n.refs = {}
    BY <2>2
  <2> QED BY <1>1, <2>1, <2>3, <2>4
<1>4. CASE FdtReset
  <2>1. PICK ph, reg : ph = phandle /\ reg = <<aislab_memmap.TEST>>
    OBVIOUS
  <2> DEFINE test == [Node0 EXCEPT !.kind = "test", !.at = aislab_memmap.TEST.base,
                                   !.reg = <<aislab_memmap.TEST>>, !.phandle = ph]
             switch(kind) == [Node0 EXCEPT !.kind = kind, !.refs = {Ref("regmap", ph)}]
  <2>2. Fdt("fdt_reset", "fdt_uart", {test, switch("reboot"), switch("poweroff")})
    BY <1>4, <2>1, Zenon DEF FdtReset
  <2>3. test.refs = {}
    <3>1. Made(test, "test", aislab_memmap.TEST.base, ph, reg, <<>>, {}, -1, {})
      BY <2>1, MadeDevices, Zenon
    <3> HIDE DEF test
    <3> QED BY <3>1, Zenon DEF Made
  <2>4. ASSUME NEW kind PROVE switch(kind).refs = {Ref("regmap", ph)}
    <3>1. Made(switch(kind), kind, 0, 0, <<>>, <<>>, {}, -1, {Ref("regmap", ph)})
      BY MadeDevices, Zenon
    <3> HIDE DEF switch
    <3> QED BY <3>1, Zenon DEF Made
  <2> HIDE DEF test, switch
  <2>5. 12 < Rank("fdt_reset") /\ Rank("fdt_reset") < Rank("fdt_uart")
    BY DEF Rank
  <2>6. \A n \in {test, switch("reboot"), switch("poweroff")} :
          n.refs = {} \/ n.refs = {Ref("regmap", ph)}
    BY <2>3, <2>4
  <2> QED BY <1>1, <2>2, <2>5, <2>6
<1>5. ASSUME NEW from, NEW to, NEW kind, NEW at, NEW line,
             Fdt(from, to, {DeviceNode(kind, at, "mmio", line)}), 12 < Rank(from), Rank(from) < Rank(to)
      PROVE  ChipsInv'
  <2>1. PICK N : N = {DeviceNode(kind, at, "mmio", line)}
    OBVIOUS
  <2>2. \A n \in N : n.refs = {}
    BY <1>2, <2>1
  <2>3. Fdt(from, to, N)
    BY <1>5, <2>1
  <2> QED BY <1>1, <1>5, <2>2, <2>3
<1>6. CASE FdtUart
  <2>1. Fdt("fdt_uart", "fdt_rtc", {DeviceNode("serial", aislab_memmap.UART0, "mmio", UART0_IRQ)})
    BY <1>6, Zenon DEF FdtUart
  <2>2. 12 < Rank("fdt_uart") /\ Rank("fdt_uart") < Rank("fdt_rtc")
    BY DEF Rank
  <2> QED BY <1>5, <2>1, <2>2
<1>7. CASE FdtRtc
  <2>1. Fdt("fdt_rtc", "fdt_mmio_bus", {DeviceNode("rtc", aislab_memmap.RTC, "mmio", RTC_IRQ)})
    BY <1>7, Zenon DEF FdtRtc
  <2>2. 12 < Rank("fdt_rtc") /\ Rank("fdt_rtc") < Rank("fdt_mmio_bus")
    BY DEF Rank
  <2> QED BY <1>5, <2>1, <2>2
<1>8. CASE FdtMmioBus
  <2>1. Fdt("fdt_mmio_bus", "boot", {DeviceNode("mmio_bus", aislab_memmap.MMIO_BUS, "mmio", MMIO_BUS_IRQ)})
    BY <1>8, Zenon DEF FdtMmioBus
  <2>2. 12 < Rank("fdt_mmio_bus") /\ Rank("fdt_mmio_bus") < Rank("boot")
    BY DEF Rank
  <2> QED BY <1>5, <2>1, <2>2
<1> QED BY <1>3, <1>4, <1>6, <1>7, <1>8

\* create_fdt_pcie: the host is nobody's controller.
LEMMA ChipsFdtPcie ==
  ASSUME ChipsInv, ViewsInv, FdtPcie
  PROVE  ChipsInv'
<1>1. /\ tree' = { Completed(n) : n \in tree } /\ pc = "fdt_pcie" /\ pc' = "fdt_reset"
      /\ UNCHANGED <<cfg, xplic>>
  BY Zenon DEF FdtPcie, Completed
<1>2. \A n \in tree : n.kind # "pci" => n \in tree'
  <2>1. \A n : n.kind # "pci" => Completed(n) = n
    BY Zenon DEF Completed
  <2> QED BY <1>1, <2>1
<1>3. /\ XplicSockets' = XplicSockets /\ XplicCells' = XplicCells /\ Delegated' = Delegated
      /\ \A i : XplicEntry(i)' = XplicEntry(i) /\ xplic'[i] = xplic[i]
  BY <1>1 DEF XplicSockets, UseKvmAia, Sockets, XplicCells, Delegated, Kvm, XplicEntry
<1>4. \A i : Passed("fdt_xplic", i) /\ Passed("fdt_xplic", i)'
  BY <1>1 DEF Passed, Rank
<1>5. TreeKnown' => TreeKnown
  BY <1>1 DEF TreeKnown, Rank
<1>6. ASSUME NEW i \in XplicSockets, TreeKnown'
      PROVE  /\ ChipNode(i)'
             /\ Delegated => \E m \in tree' : Ref("children", xplic[i]) \in m.refs
  <2>1. ChipNode(i) /\ (Delegated => \E m \in tree : Ref("children", xplic[i]) \in m.refs)
    BY <1>4, <1>5, <1>6 DEF ChipsInv
  <2>2. ChipNode(i)'
    BY <1>2, <1>3, <2>1 DEF ChipNode
  <2>3. ASSUME Delegated PROVE \E m \in tree' : Ref("children", xplic[i]) \in m.refs
    <3>1. PICK m \in tree : Ref("children", xplic[i]) \in m.refs
      BY <2>1, <2>3
    <3>2. Ref("children", xplic[i]).prop = "children"
      BY DEF Ref
    <3>3. m.kind # "pci"
      BY <3>1, <3>2 DEF ChipsInv, ChildOf
    <3> QED BY <1>2, <3>1, <3>3
  <2> QED BY <2>2, <2>3
<1>7. ASSUME NEW m \in tree', NEW ref \in m.refs, ref.prop = "children"
      PROVE  ChildOf(m, ref)'
  <2>1. PICK n \in tree : m = Completed(n)
    BY <1>1
  <2>2. DOMAIN n = DOMAIN Node0
    BY DEF ViewsInv
  <2>3. m.kind = n.kind /\ m.at = n.at /\ (ref \in n.refs \/ ref = Ref("msi_parent", MsiPcie))
    BY <2>1, <2>2, NodeCompleted
  <2>4. ref \in n.refs
    BY <1>7, <2>3 DEF Ref
  <2>5. ChildOf(n, ref)
    BY <1>7, <2>4 DEF ChipsInv
  <2> QED BY <1>3, <1>4, <2>3, <2>5 DEF ChildOf
<1> QED BY <1>3, <1>6, <1>7 DEF ChipsInv

\* A step that adds no node.
LEMMA ChipsBetween ==
  ASSUME ChipsInv, UNCHANGED <<cfg, xplic, tree>>,
         \A i \in XplicSockets : Passed("fdt_xplic", i) => Passed("fdt_xplic", i)',
         \A i \in XplicSockets : TreeKnown' /\ Passed("fdt_xplic", i)' => TreeKnown /\ Passed("fdt_xplic", i)
  PROVE  ChipsInv'
<1>1. PICK none : none = {}
  OBVIOUS
<1>2. tree' = tree \cup none /\ Childless(none)
  BY <1>1 DEF Childless
<1> QED BY <1>2, ChipsOn

\* The controllers stay where they are, each with its own child.
LEMMA ChipsNext == ChipsInv /\ ViewsInv /\ TypesInv /\ [Next]_vars => ChipsInv'
<1> SUFFICES ASSUME ChipsInv, ViewsInv, TypesInv, [Next]_vars PROVE ChipsInv'
  OBVIOUS
<1>1. CASE BoardStep /\ UNCHANGED <<treeVars, boot>>
  <2>1. Rank(pc) <= 8 /\ UNCHANGED <<cfg, xplic, tree>> /\ (pc' = "exited" \/ Rank(pc') <= 9)
    <3> USE DEF Build, Rank, treeVars
    <3>1. CASE InitChecks \/ InitSocket \/ InitAia \/ MapMemory
      BY <1>1, <3>1 DEF InitChecks, InitSocket, InitAia, MapMemory
    <3>2. CASE CreateVirtio \/ GpexPcieInit \/ CreatePlatformBus
      BY <1>1, <3>2 DEF CreateVirtio, GpexPcieInit, CreatePlatformBus
    <3>3. CASE CreateSerialAndRtc \/ ListenMmioBus \/ CreateMmioBus \/ MapFlash
      BY <1>1, <3>3 DEF CreateSerialAndRtc, ListenMmioBus, CreateMmioBus, MapFlash
    <3> QED BY <1>1, <3>1, <3>2, <3>3 DEF BoardStep
  <2>2. Rank(pc) \in Nat /\ Rank(pc') \in Nat /\ Rank("fdt_xplic") = 12 /\ pc # "fdt_xplic"
    BY <2>1 DEF Rank
  <2>3. ~TreeKnown' /\ \A i : ~Passed("fdt_xplic", i)
    BY <2>1, <2>2 DEF TreeKnown, Passed
  <2> QED BY <2>1, <2>3, ChipsBetween
<1>2. CASE TreeStep
  <2>1. CASE Finalize
    <3>1. /\ pc = "plug" /\ UNCHANGED <<cfg, xplic, tree>> /\ sock' = cfg.sockets - 1
          /\ (cfg.dtb /\ pc' = "boot") \/ (~cfg.dtb /\ pc' = "fdt_sockets")
      BY <2>1 DEF Finalize
    <3>2. \A i : ~Passed("fdt_xplic", i)
      BY <3>1 DEF Passed, Rank
    <3>3. TreeKnown' => \A i : ~Passed("fdt_xplic", i)'
      BY <3>1 DEF TreeKnown, Passed, Rank
    <3> QED BY <3>1, <3>2, <3>3, ChipsBetween
  <2>2. CASE FdtSocketsEnd
    <3>1. pc = "fdt_xplic" /\ sock < 0 /\ pc' = "fdt_virtio" /\ UNCHANGED <<cfg, xplic, tree, sock>>
      BY <2>2 DEF FdtSocketsEnd, treeVars
    <3>2. sock \in Int /\ \A i \in XplicSockets : i \in Nat
      <4>1. cfg \in Configs /\ sock \in Int
        BY <3>1 DEF TypesInv, PhandlesInv, CounterInv
      <4> QED BY <4>1, ChipSockets DEF XplicSockets, Sockets
    <3>3. \A i \in XplicSockets : Passed("fdt_xplic", i) /\ Passed("fdt_xplic", i)'
      BY <3>1, <3>2 DEF Passed, Rank
    <3>4. TreeKnown' => TreeKnown
      BY <3>1 DEF TreeKnown, Rank
    <3> QED BY <3>1, <3>3, <3>4, ChipsBetween
  <2> QED BY <1>2, <2>1, <2>2, ChipsFirst, ChipsSockets, ChipsFdtXplic, ChipsFdtPcie, ChipsDevices DEF TreeStep
<1>3. ASSUME UNCHANGED <<cfg, sock, tree, xplic>>, pc' = pc \/ (pc = "boot" /\ pc' \in {"running", "exited"})
      PROVE  ChipsInv'
  <2>1. Rank(pc') = Rank(pc) /\ (TreeKnown' => TreeKnown)
    BY <1>3 DEF Rank, TreeKnown
  <2>2. \A i : Passed("fdt_xplic", i)' <=> Passed("fdt_xplic", i)
    BY <1>3, <2>1 DEF Passed
  <2> QED BY <1>3, <2>1, <2>2, ChipsBetween
<1>4. CASE Boot
  BY <1>3, <1>4 DEF Boot, treeVars
<1>5. CASE ClientConnects /\ UNCHANGED <<treeVars, boot>>
  BY <1>3, <1>5 DEF ClientConnects, treeVars
<1>6. CASE UNCHANGED vars
  BY <1>3, <1>6 DEF vars, boardVars, treeVars
<1> QED BY <1>1, <1>2, <1>4, <1>5, <1>6 DEF Next, Step

-----------------------------------------------------------------------------
(* The interrupts devices raise, against those the tree announces *)

\* Where on the board the controller of socket i is to be found, delegated or not.
ChipEntry(i) ==
  IF cfg.aia = "none" THEN Nth(aislab_memmap.PLIC, i)
  ELSE IF Kvm THEN Nth(aislab_memmap.APLIC_S, i) ELSE Nth(aislab_memmap.APLIC_M, i)

\* It is there.
LEMMA ChipBuilt ==
  ASSUME Ready, NEW i \in XplicSockets
  PROVE  \E r \in board : <<r.dev, r.n>> = Real(Chip(i)) /\ r.base = ChipEntry(i).base
<1>1. ASSUME NEW dev, NEW at, NEW serves, Region(dev, i, at, serves) \in board,
             <<dev, i>> = Real(Chip(i)), at = ChipEntry(i)
      PROVE  \E r \in board : <<r.dev, r.n>> = Real(Chip(i)) /\ r.base = ChipEntry(i).base
  <2>1. /\ Region(dev, i, at, serves).dev = dev /\ Region(dev, i, at, serves).n = i
        /\ Region(dev, i, at, serves).base = at.base
    BY DEF Region
  <2> QED BY <1>1, <2>1
<1>2. UseKvmAia => Kvm /\ cfg.aia # "none" /\ i = 0
  <2>1. cfg.irqchipInKernel => cfg.accel = "kvm"
    BY ReadyNumbers, ConfigAssumption
  <2> QED BY <2>1 DEF UseKvmAia, Kvm, XplicSockets
<1>3. CASE cfg.aia = "none"
  <2>1. PICK serves : Region("plic", i, Nth(aislab_memmap.PLIC, i), serves) \in PlicRegions(i)
    BY Zenon DEF PlicRegions
  <2>2. Region("plic", i, Nth(aislab_memmap.PLIC, i), serves) \in board
    BY <1>3, <2>1, BoardByKind
  <2>3. <<"plic", i>> = Real(Chip(i)) /\ Nth(aislab_memmap.PLIC, i) = ChipEntry(i)
    BY <1>2, <1>3 DEF Real, Chip, ChipEntry
  <2> QED BY <1>1, <2>2, <2>3
<1>4. CASE cfg.aia # "none" /\ Kvm
  <2>1. PICK serves : AplicRegion(i, "aplic_s", aislab_memmap.APLIC_S, "S_EXT")
                        = Region("aplic_s", i, Nth(aislab_memmap.APLIC_S, i), serves)
    BY Zenon DEF AplicRegion
  <2>2. Region("aplic_s", i, Nth(aislab_memmap.APLIC_S, i), serves) \in board
    BY <1>4, <2>1, BoardByKind
  <2>3. <<"aplic_s", i>> = Real(Chip(i)) /\ Nth(aislab_memmap.APLIC_S, i) = ChipEntry(i)
    BY <1>2, <1>4 DEF Real, Chip, ChipEntry
  <2> QED BY <1>1, <2>2, <2>3
<1>5. CASE cfg.aia # "none" /\ ~Kvm
  <2>1. PICK serves : AplicRegion(i, "aplic_m", aislab_memmap.APLIC_M, "M_EXT")
                        = Region("aplic_m", i, Nth(aislab_memmap.APLIC_M, i), serves)
    BY Zenon DEF AplicRegion
  <2>2. Region("aplic_m", i, Nth(aislab_memmap.APLIC_M, i), serves) \in board
    BY <1>5, <2>1, BoardByKind
  <2>3. <<"aplic_m", i>> = Real(Chip(i)) /\ Nth(aislab_memmap.APLIC_M, i) = ChipEntry(i)
    BY <1>2, <1>5 DEF Real, Chip, ChipEntry
  <2> QED BY <1>1, <2>2, <2>3
<1> QED BY <1>3, <1>4, <1>5

\* The node devices of socket i refer to describes it: an APLIC that is another's
\* child has that one as parent, and no other.
LEMMA ChipDescribed ==
  ASSUME Ready, ChipsInv, NEW i \in XplicSockets
  PROVE  \E q \in tree : /\ q.phandle = xplic[i] /\ q.cells = XplicCells
                         /\ DescribesChip(q, Real(Chip(i)))
<1>1. TreeKnown /\ \A j : Passed("fdt_xplic", j)
  BY DEF Ready, Finalized, TreeKnown, Passed, Rank
<1>2. \A j \in XplicSockets : ChipNode(j)
  BY <1>1 DEF ChipsInv
<1>3. PICK q \in tree : /\ q.phandle = xplic[i] /\ q.phandle # 0 /\ q.cells = XplicCells
                        /\ q.at = XplicEntry(i).base
  BY <1>2 DEF ChipNode
<1>4. PICK child : child = Ref("children", q.phandle)
  OBVIOUS
<1>5. child.prop = "children"
  BY <1>4 DEF Ref
<1>6. EntryOf(q) = IF \E m \in tree : child \in m.refs THEN CHOOSE m \in tree : child \in m.refs ELSE q
  BY <1>4, Zenon DEF EntryOf
<1>7. EntryOf(q).at = ChipEntry(i).base
  <2>1. CASE Delegated
    <3>1. PICK m : m \in tree /\ child \in m.refs /\ EntryOf(q) = m
      <4>1. \E m \in tree : child \in m.refs
        BY <1>1, <1>3, <1>4, <2>1 DEF ChipsInv
      <4> QED BY <1>6, <4>1
    <3>2. PICK j \in XplicSockets : child = Ref("children", xplic[j]) /\ m.at = Nth(aislab_memmap.APLIC_M, j).base
      BY <1>5, <3>1 DEF ChipsInv, ChildOf
    <3>3. xplic[j] = q.phandle
      BY <1>4, <3>2 DEF Ref
    <3>4. PICK p \in tree : p.phandle = xplic[j] /\ p.at = XplicEntry(j).base
      BY <1>2 DEF ChipNode
    <3>5. PhandlesUnique
      BY DEF Ready, TypesInv, PhandlesInv
    <3>6. p = q
      BY <1>3, <3>3, <3>4, <3>5, Zenon DEF PhandlesUnique
    <3>7. XplicEntry(j).base = XplicEntry(i).base
      BY <1>3, <3>4, <3>6
    <3>8. i = j
      <4>1. i \in Nat /\ j \in Nat
        BY ReadyNumbers, ChipSockets DEF Sockets
      <4>2. aislab_memmap.APLIC_S.base + j * aislab_memmap.APLIC_S.size
              = aislab_memmap.APLIC_S.base + i * aislab_memmap.APLIC_S.size
        BY <2>1, <3>7 DEF XplicEntry, Delegated, Nth, At
      <4>3. aislab_memmap.APLIC_S.base = 851968 /\ aislab_memmap.APLIC_S.size = 128
        BY MapNumbers DEF At
      <4> QED BY <4>1, <4>2, <4>3, SMT
    <3> QED BY <2>1, <3>1, <3>2, <3>8 DEF Delegated, ChipEntry
  <2>2. CASE ~Delegated
    <3>1. ~\E m \in tree : child \in m.refs
      BY <1>5, <2>2 DEF ChipsInv, ChildOf
    <3>2. EntryOf(q) = q
      BY <1>6, <3>1
    <3> QED BY <1>3, <2>2, <3>2 DEF Delegated, XplicEntry, ChipEntry
  <2> QED BY <2>1, <2>2
<1> QED BY <1>3, <1>7, ChipBuilt DEF DescribesChip

\* Devices of a kind have their interrupts where the tree says.
LEMMA KindLeads ==
  ASSUME Ready, ChipsInv, NEW d \in DeviceKinds, NEW e, NEW w,
         e.line = w.line, e.parent = IrqPhandle(d), e.cells = XplicCells, w.chip = irqchip[d]
  PROVE  Leads(e, w)
<1>1. cfg \in Configs /\ cfg.sockets \in Nat \ {0}
  BY ReadyNumbers
<1>2. irqchip[d] = ChipOf(d, cfg.sockets)
  BY DEF Ready, Finalized, BuiltInv
<1>3. PICK i : i = IF PreferredSocket(d) < cfg.sockets THEN PreferredSocket(d) ELSE cfg.sockets - 1
  OBVIOUS
<1>4. i \in Sockets /\ irqchip[d] = Chip(i)
  BY <1>1, <1>2, <1>3 DEF ChipOf, PreferredSocket, DeviceKinds, Sockets
<1>5. CASE UseKvmAia
  <2>1. 0 \in XplicSockets /\ IrqPhandle(d) = xplic[0] /\ Real(w.chip) = Real(Chip(0))
    BY <1>5 DEF XplicSockets, IrqPhandle, Real
  <2> QED BY <2>1, ChipDescribed DEF Leads
<1>6. CASE ~UseKvmAia
  <2>1. i \in XplicSockets /\ w.chip = Chip(i)
    BY <1>4, <1>6 DEF XplicSockets
  <2>2. IrqPhandle(d) = xplic[i]
    <3>1. PreferredSocket(d) \in Sockets <=> PreferredSocket(d) < cfg.sockets
      BY <1>1 DEF PreferredSocket, DeviceKinds, Sockets
    <3> QED BY <1>3, <1>6, <3>1 DEF IrqPhandle
  <2> QED BY <2>1, <2>2, ChipDescribed DEF Leads
<1> QED BY <1>5, <1>6

\* All lines there are.
LEMMA WiresAre ==
  ASSUME Ready, NEW w
  PROVE  w \in wires <=> \E p \in BoardStages : w \in Wired(p)
<1>1. pc \in {"boot", "running"}
  BY DEF Ready, Finalized
<1>2. wires = UNION { Wired(p) : p \in Over(BoardStages) } /\ Over(BoardStages) = BoardStages
  BY <1>1 DEF Ready, BuiltInv, Over, BoardStages, Rank
<1> QED BY <1>2

\* The guest learns of line w from node n.
Announces(n, w) ==
  /\ \E r \in board : r.dev = w.dev /\ r.n = w.n /\ Describes(n, r)
  /\ IF w.dev # "ecam"
     THEN \E e \in n.irqs : e.out = w.out /\ Leads(e, w)
     ELSE \A slot \in 0 .. 31, pin \in 0 .. GPEX_NUM_IRQS - 1 :
            (slot + pin) % GPEX_NUM_IRQS = w.out =>
              \E e \in n.irqs : e.slot = PcieSlotMask(slot) /\ e.out = pin /\ Leads(e, w)

\* A device with one line, and the node that has its range and that line.
LEMMA DeviceAnnounced ==
  ASSUME Ready, ChipsInv, NEW kind, NEW at, NEW irqs, View(kind, <<at>>, irqs) \in Views(tree),
         NEW dev, NEW n, Region(dev, n, at, <<>>) \in board, dev # "ecam",
         NEW d \in DeviceKinds, NEW out, NEW line, Irq(out, IrqPhandle(d), line) \in irqs
  PROVE  \E m \in tree : Announces(m, Wire(dev, n, out, irqchip[d], line))
<1>1. PICK w, e, r : /\ w = Wire(dev, n, out, irqchip[d], line) /\ e = Irq(out, IrqPhandle(d), line)
                     /\ r = Region(dev, n, at, <<>>)
  OBVIOUS
<1>2. /\ w.dev = dev /\ w.n = n /\ w.out = out /\ w.chip = irqchip[d] /\ w.line = line
      /\ e.out = out /\ e.parent = IrqPhandle(d) /\ e.line = line /\ e.cells = XplicCells
      /\ r.dev = dev /\ r.n = n /\ r.base = at.base /\ r.size = at.size /\ r \in board
  BY <1>1 DEF Wire, Irq, Region, XplicCells
<1>3. Leads(e, w)
  BY <1>2, KindLeads
<1>4. PICK m \in tree : m.reg = <<at>> /\ m.irqs = irqs
  BY DEF Views, View
<1>5. Describes(m, r)
  <2>1. InSlot(r)
    BY <1>2, ReadyRegions
  <2>2. Inside(r, at)
    BY <1>2, <2>1 DEF Inside, InSlot
  <2>3. 1 \in DOMAIN m.reg /\ m.reg[1] = at
    BY <1>4
  <2> QED BY <2>2, <2>3 DEF Describes
<1>6. Announces(m, w)
  BY <1>1, <1>2, <1>3, <1>4, <1>5 DEF Announces
<1> QED BY <1>1, <1>6

\* The four lines of PCIe: which one is used depends on slot and pin, and the
\* table of four slots stands for all of them.
LEMMA PcieAnnounced ==
  ASSUME Ready, ChipsInv, NEW out \in 0 .. GPEX_NUM_IRQS - 1
  PROVE  \E m \in tree : Announces(m, Wire("ecam", 0, out, irqchip["pcie"], PCIE_IRQ + out))
<1>1. PICK w, r : /\ w = Wire("ecam", 0, out, irqchip["pcie"], PCIE_IRQ + out)
                  /\ r = Region("ecam", 0, aislab_memmap.PCIE_ECAM, <<>>)
  OBVIOUS
<1>2. /\ w.dev = "ecam" /\ w.n = 0 /\ w.out = out /\ w.chip = irqchip["pcie"] /\ w.line = PCIE_IRQ + out
      /\ r.dev = "ecam" /\ r.n = 0 /\ r.base = aislab_memmap.PCIE_ECAM.base
      /\ r.size = aislab_memmap.PCIE_ECAM.size
  BY <1>1 DEF Wire, Region
<1>3. r \in board
  BY <1>1, FixedOnBoard DEF Plain
<1>4. PICK m \in tree : m.reg = PciRanges /\ m.irqs = PcieIrqMap
  <2>1. PICK v, reg, irqs : v = View("pci", reg, irqs) /\ reg = PciRanges /\ irqs = PcieIrqMap
    OBVIOUS
  <2>2. v \in Tells("fdt_pcie")
    BY <2>1, Zenon DEF Tells
  <2>3. v \in Views(tree)
    BY <2>2, InTree DEF TreeStages
  <2>4. PICK m \in tree : v = View(m.kind, m.reg, m.irqs)
    BY <2>3 DEF Views
  <2>5. m.reg = reg /\ m.irqs = irqs
    BY <2>1, <2>4 DEF View
  <2> QED BY <2>1, <2>5
<1>5. Describes(m, r)
  <2>1. PICK a, b, c, d : PciRanges = <<a, b, c, d>> /\ a = aislab_memmap.PCIE_ECAM
    BY Zenon DEF PciRanges
  <2>2. 1 \in DOMAIN m.reg /\ m.reg[1] = aislab_memmap.PCIE_ECAM
    BY <1>4, <2>1
  <2>3. InSlot(r)
    BY <1>3, ReadyRegions
  <2>4. Inside(r, aislab_memmap.PCIE_ECAM)
    BY <1>2, <2>3 DEF Inside, InSlot
  <2> QED BY <2>2, <2>4 DEF Describes
<1>6. ASSUME NEW slot \in 0 .. 31, NEW pin \in 0 .. GPEX_NUM_IRQS - 1, (slot + pin) % GPEX_NUM_IRQS = out
      PROVE  \E e \in m.irqs : e.slot = PcieSlotMask(slot) /\ e.out = pin /\ Leads(e, w)
  <2>1. PICK s : s = PcieSlotMask(slot)
    OBVIOUS
  <2>2. s \in 0 .. GPEX_NUM_IRQS - 1 /\ (pin + s) % GPEX_NUM_IRQS = out
    BY <1>6, <2>1 DEF PcieSlotMask, GPEX_NUM_IRQS
  <2>3. PICK e : e = [Irq(pin, IrqPhandle("pcie"), PCIE_IRQ + ((pin + s) % GPEX_NUM_IRQS)) EXCEPT !.slot = s]
    OBVIOUS
  <2>4. e \in PcieIrqMap
    BY <2>2, <2>3, SMT DEF PcieIrqMap
  <2>5. /\ e.slot = s /\ e.out = pin /\ e.parent = IrqPhandle("pcie")
        /\ e.line = PCIE_IRQ + out /\ e.cells = XplicCells
    BY <2>2, <2>3 DEF Irq, XplicCells
  <2>6. "pcie" \in DeviceKinds
    BY DEF DeviceKinds
  <2>7. Leads(e, w)
    BY <1>2, <2>5, <2>6, KindLeads
  <2> QED BY <1>4, <2>1, <2>4, <2>5, <2>7
<1>7. Announces(m, w)
  BY <1>2, <1>3, <1>5, <1>6 DEF Announces
<1> QED BY <1>1, <1>7

\* The guest learns of every line.
LEMMA WiresAnnounced ==
  ASSUME Ready, ChipsInv, NEW w \in wires
  PROVE  \E m \in tree : Announces(m, w)
<1>1. PICK p \in BoardStages : w \in Wired(p)
  BY WiresAre
<1>2. \A q \in TreeStages : \A v \in Tells(q) : v \in Views(tree)
  BY InTree
<1>3. \A d \in {"mmio", "virtio", "pcie"} : d \in DeviceKinds
  BY DEF DeviceKinds
<1>4. ASSUME NEW q \in TreeStages, NEW kind, NEW at, NEW d \in DeviceKinds, NEW line,
             DeviceView(kind, at, d, line) \in Tells(q), NEW dev, NEW n, Region(dev, n, at, <<>>) \in board,
             dev # "ecam"
      PROVE  \E m \in tree : Announces(m, Wire(dev, n, 0, irqchip[d], line))
  <2>1. PICK irqs : irqs = {Irq(0, IrqPhandle(d), line)}
    OBVIOUS
  <2>2. View(kind, <<at>>, irqs) \in Views(tree)
    BY <1>2, <1>4, <2>1, Zenon DEF DeviceView
  <2>3. Irq(0, IrqPhandle(d), line) \in irqs
    BY <2>1
  <2> QED BY <1>4, <2>2, <2>3, DeviceAnnounced
<1>5. CASE p = "virtio"
  <2>1. PICK n \in 0 .. VIRTIO_COUNT - 1 : w = Wire("virtio", n, 0, irqchip["virtio"], VIRTIO_IRQ + n)
    BY <1>1, <1>5, Zenon DEF Wired
  <2>2. DeviceView("virtio", Nth(aislab_memmap.VIRTIO, n), "virtio", VIRTIO_IRQ + n) \in Tells("fdt_virtio")
    BY Zenon DEF Tells
  <2>3. Region("virtio", n, Nth(aislab_memmap.VIRTIO, n), <<>>) \in board
    BY FixedOnBoard
  <2>4. "fdt_virtio" \in TreeStages /\ "virtio" # "ecam"
    BY DEF TreeStages
  <2> QED BY <1>3, <1>4, <2>1, <2>2, <2>3, <2>4
<1>6. CASE p = "pcie"
  <2>1. PICK out \in 0 .. GPEX_NUM_IRQS - 1 : w = Wire("ecam", 0, out, irqchip["pcie"], PCIE_IRQ + out)
    BY <1>1, <1>6, Zenon DEF Wired
  <2> QED BY <2>1, PcieAnnounced
<1>7. CASE p = "platform"
  <2>1. PICK n \in 0 .. AISLAB_PLATFORM_BUS_NUM_IRQS - 1 :
          w = Wire("platform_bus", 0, n, irqchip["mmio"], AISLAB_PLATFORM_BUS_IRQ + n)
    BY <1>1, <1>7, Zenon DEF Wired
  <2>2. PICK parent, irqs :
          /\ parent = IrqPhandle("mmio")
          /\ irqs = { Irq(k, parent, AISLAB_PLATFORM_BUS_IRQ + k) : k \in 0 .. AISLAB_PLATFORM_BUS_NUM_IRQS - 1 }
    OBVIOUS
  <2>3. xplic[0] = parent
    <3>1. 0 \in Sockets /\ PreferredSocket("mmio") = 0
      BY ReadyNumbers, ChipSockets DEF PreferredSocket
    <3> QED BY <2>2, <3>1 DEF IrqPhandle
  <2>4. View("platform_bus", <<aislab_memmap.PLATFORM_BUS>>, irqs) \in Views(tree)
    <3>1. BusView(parent) \in Views(tree)
      BY <2>3, InTree
    <3> QED BY <2>2, <3>1, Zenon DEF BusView
  <2>5. Irq(n, IrqPhandle("mmio"), AISLAB_PLATFORM_BUS_IRQ + n) \in irqs
    BY <2>2
  <2>6. Region("platform_bus", 0, aislab_memmap.PLATFORM_BUS, <<>>) \in board
    BY FixedOnBoard DEF Plain
  <2> QED BY <1>3, <2>1, <2>4, <2>5, <2>6, DeviceAnnounced
<1>8. CASE p = "serial"
  <2>1. \/ w = Wire("uart", 0, 0, irqchip["mmio"], UART0_IRQ)
        \/ w = Wire("rtc", 0, 0, irqchip["mmio"], RTC_IRQ)
    BY <1>1, <1>8 DEF Wired
  <2>2. DeviceView("serial", aislab_memmap.UART0, "mmio", UART0_IRQ) \in Tells("fdt_uart")
    BY Zenon DEF Tells
  <2>3. DeviceView("rtc", aislab_memmap.RTC, "mmio", RTC_IRQ) \in Tells("fdt_rtc")
    BY Zenon DEF Tells
  <2>4. /\ Region("uart", 0, aislab_memmap.UART0, <<>>) \in board
        /\ Region("rtc", 0, aislab_memmap.RTC, <<>>) \in board
    BY FixedOnBoard DEF Plain
  <2>5. "fdt_uart" \in TreeStages /\ "fdt_rtc" \in TreeStages /\ "uart" # "ecam" /\ "rtc" # "ecam"
    BY DEF TreeStages
  <2>6. \E m \in tree : Announces(m, Wire("uart", 0, 0, irqchip["mmio"], UART0_IRQ))
    BY <1>3, <1>4, <2>2, <2>4, <2>5
  <2>7. \E m \in tree : Announces(m, Wire("rtc", 0, 0, irqchip["mmio"], RTC_IRQ))
    BY <1>3, <1>4, <2>3, <2>4, <2>5
  <2> QED BY <2>1, <2>6, <2>7
<1>9. CASE p = "mmio_bus"
  <2>1. w = Wire("mmio_bus", 0, 0, irqchip["mmio"], MMIO_BUS_IRQ)
    BY <1>1, <1>9 DEF Wired
  <2>2. DeviceView("mmio_bus", aislab_memmap.MMIO_BUS, "mmio", MMIO_BUS_IRQ) \in Tells("fdt_mmio_bus")
    BY Zenon DEF Tells
  <2>3. Region("mmio_bus", 0, aislab_memmap.MMIO_BUS, <<>>) \in board
    BY FixedOnBoard, FixedSizes DEF Plain
  <2>4. "fdt_mmio_bus" \in TreeStages /\ "mmio_bus" # "ecam"
    BY DEF TreeStages
  <2> QED BY <1>3, <1>4, <2>1, <2>2, <2>3, <2>4
<1>10. p \in {"virtio", "pcie", "platform", "serial", "mmio_bus"}
  BY <1>1 DEF Wired, BoardStages
<1> QED BY <1>5, <1>6, <1>7, <1>8, <1>9, <1>10

\* The node of a kind of device announces no line that is not there.
LEMMA LinesAreWired ==
  ASSUME Ready, ChipsInv, NEW v \in Views(tree), NEW e \in v.irqs
  PROVE  \E w \in wires : Leads(e, w)
<1>1. \A kind, reg, irqs : View(kind, reg, irqs).irqs = irqs
  BY DEF View
<1>2. ASSUME NEW p \in BoardStages, NEW dev, NEW n, NEW out, NEW line, NEW d \in DeviceKinds,
             Wire(dev, n, out, irqchip[d], line) \in Wired(p),
             e.line = line, e.parent = IrqPhandle(d), e.cells = XplicCells
      PROVE  \E w \in wires : Leads(e, w)
  <2>1. PICK w : w = Wire(dev, n, out, irqchip[d], line)
    OBVIOUS
  <2>2. w \in wires /\ w.line = line /\ w.chip = irqchip[d]
    BY <1>2, <2>1, WiresAre DEF Wire
  <2> QED BY <1>2, <2>2, KindLeads
<1>3. ASSUME NEW p \in BoardStages, NEW dev, NEW n, NEW kind, NEW at, NEW d \in DeviceKinds, NEW line,
             Wire(dev, n, 0, irqchip[d], line) \in Wired(p), v = DeviceView(kind, at, d, line)
      PROVE  \E w \in wires : Leads(e, w)
  <2>1. e = Irq(0, IrqPhandle(d), line)
    BY <1>1, <1>3 DEF DeviceView
  <2>2. e.line = line /\ e.parent = IrqPhandle(d) /\ e.cells = XplicCells
    BY <2>1 DEF Irq, XplicCells
  <2> QED BY <1>2, <1>3, <2>2
<1>4. \A d \in {"mmio", "virtio", "pcie"} : d \in DeviceKinds
  BY DEF DeviceKinds
<1>5. ASSUME NEW i, v \in SocketViews(i) PROVE FALSE
  <2>1. \/ v = View("memory", <<MemoryEntry(i)>>, {})
        \/ \E kind \in TimerKinds : v = View(kind, <<TimerEntry(kind, i)>>, {})
    BY <1>5, Zenon DEF SocketViews
  <2>2. v.irqs = {}
    BY <1>1, <2>1, Zenon
  <2> QED BY <2>2
<1>6. ASSUME NEW i, v \in ChipViews(i) PROVE FALSE
  BY <1>1, <1>6 DEF ChipViews
<1>7. CASE v = BusView(xplic[0])
  <2>1. PICK parent : parent = IrqPhandle("mmio")
    OBVIOUS
  <2>2. xplic[0] = parent
    <3>1. 0 \in Sockets /\ PreferredSocket("mmio") = 0
      BY ReadyNumbers, ChipSockets DEF PreferredSocket
    <3> QED BY <2>1, <3>1 DEF IrqPhandle
  <2>3. PICK n \in 0 .. AISLAB_PLATFORM_BUS_NUM_IRQS - 1 : e = Irq(n, parent, AISLAB_PLATFORM_BUS_IRQ + n)
    <3>1. PICK irqs : irqs = { Irq(k, parent, AISLAB_PLATFORM_BUS_IRQ + k) : k \in 0 .. AISLAB_PLATFORM_BUS_NUM_IRQS - 1 }
      OBVIOUS
    <3>2. v = BusView(parent)
      BY <1>7, <2>2
    <3>3. v = View("platform_bus", <<aislab_memmap.PLATFORM_BUS>>, irqs)
      BY <3>1, <3>2, Zenon DEF BusView
    <3>4. v.irqs = irqs
      BY <1>1, <3>3, Zenon
    <3> QED BY <3>1, <3>4
  <2>4. /\ e.line = AISLAB_PLATFORM_BUS_IRQ + n /\ e.parent = IrqPhandle("mmio") /\ e.cells = XplicCells
    BY <2>1, <2>3 DEF Irq, XplicCells
  <2>5. Wire("platform_bus", 0, n, irqchip["mmio"], AISLAB_PLATFORM_BUS_IRQ + n) \in Wired("platform")
    BY Zenon DEF Wired
  <2> QED BY <1>2, <1>4, <2>4, <2>5 DEF BoardStages
<1>8. CASE \E p \in TreeStages : v \in Tells(p)
  <2>1. PICK p \in TreeStages : v \in Tells(p)
    BY <1>8
  <2>2. CASE p \in {"tree", "plug", "fdt_sockets", "fdt_xplic", "fdt_reset"}
    BY <1>1, <2>1, <2>2 DEF Tells, ImsicViews
  <2>3. CASE p = "fdt_virtio"
    <3>1. PICK n \in 0 .. VIRTIO_COUNT - 1 :
            v = DeviceView("virtio", Nth(aislab_memmap.VIRTIO, n), "virtio", VIRTIO_IRQ + n)
      BY <2>1, <2>3, Zenon DEF Tells
    <3>2. Wire("virtio", n, 0, irqchip["virtio"], VIRTIO_IRQ + n) \in Wired("virtio")
      BY Zenon DEF Wired
    <3> QED BY <1>3, <1>4, <3>1, <3>2 DEF BoardStages
  <2>4. CASE p = "fdt_pcie"
    <3>1. v = View("pci", PciRanges, PcieIrqMap)
      BY <2>1, <2>4 DEF Tells
    <3>2. v.irqs = PcieIrqMap
      BY <1>1, <3>1
    <3>3. PICK slot \in 0 .. GPEX_NUM_IRQS - 1, pin \in 0 .. GPEX_NUM_IRQS - 1 :
            e = [Irq(pin, IrqPhandle("pcie"), PCIE_IRQ + ((pin + slot) % GPEX_NUM_IRQS)) EXCEPT !.slot = slot]
      BY <3>2, SMT DEF PcieIrqMap
    <3>4. PICK out : out = (pin + slot) % GPEX_NUM_IRQS
      OBVIOUS
    <3>5. out \in 0 .. GPEX_NUM_IRQS - 1
      BY <3>4 DEF GPEX_NUM_IRQS
    <3>6. e.line = PCIE_IRQ + out /\ e.parent = IrqPhandle("pcie") /\ e.cells = XplicCells
      BY <3>3, <3>4 DEF Irq, XplicCells
    <3>7. Wire("ecam", 0, out, irqchip["pcie"], PCIE_IRQ + out) \in Wired("pcie")
      BY <3>5, Zenon DEF Wired
    <3> QED BY <1>2, <1>4, <3>6, <3>7 DEF BoardStages
  <2>5. CASE p = "fdt_uart"
    <3>1. v = DeviceView("serial", aislab_memmap.UART0, "mmio", UART0_IRQ)
      BY <2>1, <2>5 DEF Tells
    <3>2. Wire("uart", 0, 0, irqchip["mmio"], UART0_IRQ) \in Wired("serial")
      BY Zenon DEF Wired
    <3> QED BY <1>3, <1>4, <3>1, <3>2 DEF BoardStages
  <2>6. CASE p = "fdt_rtc"
    <3>1. v = DeviceView("rtc", aislab_memmap.RTC, "mmio", RTC_IRQ)
      BY <2>1, <2>6 DEF Tells
    <3>2. Wire("rtc", 0, 0, irqchip["mmio"], RTC_IRQ) \in Wired("serial")
      BY Zenon DEF Wired
    <3> QED BY <1>3, <1>4, <3>1, <3>2 DEF BoardStages
  <2>7. CASE p = "fdt_mmio_bus"
    <3>1. v = DeviceView("mmio_bus", aislab_memmap.MMIO_BUS, "mmio", MMIO_BUS_IRQ)
      BY <2>1, <2>7 DEF Tells
    <3>2. Wire("mmio_bus", 0, 0, irqchip["mmio"], MMIO_BUS_IRQ) \in Wired("mmio_bus")
      BY Zenon DEF Wired
    <3> QED BY <1>3, <1>4, <3>1, <3>2 DEF BoardStages
  <2> QED BY <2>1, <2>2, <2>3, <2>4, <2>5, <2>6, <2>7 DEF TreeStages
<1> QED BY <1>5, <1>6, <1>7, <1>8, InTree

\* Interrupts arrive in the finished tree.
LEMMA ReadyArrives ==
  ASSUME Ready, ChipsInv
  PROVE  InterruptsArrive
<1>1. ASSUME NEW n \in tree, NEW e \in n.irqs PROVE \E w \in wires : Leads(e, w)
  <2>1. PICK v : v = View(n.kind, n.reg, n.irqs)
    OBVIOUS
  <2>2. v \in Views(tree) /\ v.irqs = n.irqs
    BY <1>1, <2>1 DEF Views, Tell, View
  <2> QED BY <2>2, LinesAreWired
<1>2. \A w \in wires : \E m \in tree : Announces(m, w)
  BY WiresAnnounced
<1> QED BY <1>1, <1>2, Zenon DEF InterruptsArrive, Announces

-----------------------------------------------------------------------------
(* From the command line to the finished tree *)

\* All that is known of the board and the tree, at any time.
MatchInv == TreeInv /\ BoardInv /\ BuiltInv /\ ViewsInv /\ WindowInv /\ ChipsInv

\* Nothing is there at first.
LEMMA MatchInit ==
  ASSUME \A c \in Configs : AISLAB_SOCKETS_MAX <= c.ram
  PROVE  Init => MatchInv
<1> SUFFICES ASSUME Init PROVE MatchInv
  OBVIOUS
<1>1. /\ tree = {} /\ cfg \in Configs /\ pc = "checks" /\ sock = 0 /\ board = {} /\ wires = {}
      /\ irqchip = [d \in DeviceKinds |-> NoChip]
  BY DEF Init, BoardInit, TreeInit, DeviceKinds
<1>2. BuiltInv
  <2>1. SocketsMade = {}
    BY <1>1 DEF SocketsMade, Sockets
  <2>2. Over(BoardStages) = {}
    BY <1>1 DEF Over, BoardStages, Rank
  <2>3. board = Built /\ wires = UNION { Wired(p) : p \in Over(BoardStages) }
    BY <1>1, <2>1, <2>2 DEF Built
  <2> QED BY <1>1, <2>3 DEF BuiltInv
<1>3. ViewsInv
  BY <1>1 DEF ViewsInv, TreeKnown, Rank
<1>4. WindowInv
  BY <1>1 DEF WindowInv
<1>5. ChipsInv
  BY <1>1 DEF ChipsInv, TreeKnown, Rank
<1> QED BY <1>2, <1>3, <1>4, <1>5, TreeInvInit, BoardInvInit DEF MatchInv

\* Every step adds what it should.
LEMMA MatchNext == MatchInv /\ [Next]_vars => MatchInv'
<1> SUFFICES ASSUME MatchInv, [Next]_vars PROVE MatchInv'
  OBVIOUS
<1>1. TreeInv'
  BY TreeInvNext DEF MatchInv
<1>2. BoardInv'
  BY BoardInvNext DEF MatchInv
<1>3. BuiltInv' /\ ViewsInv'
  BY BuiltNext, ViewsNext DEF MatchInv, TreeInv
<1>4. WindowInv'
  BY <1>1, WindowNext DEF MatchInv, TreeInv
<1>5. ChipsInv'
  BY ChipsNext DEF MatchInv, TreeInv
<1> QED BY <1>1, <1>2, <1>3, <1>4, <1>5 DEF MatchInv

\* Once the tree is complete there is enough to tell.
LEMMA MatchReady ==
  ASSUME MatchInv, Finalized, RamFits
  PROVE  Ready
BY DEF Ready, MatchInv, TreeInv

\* With no 32-bit machine beyond the limit, the memory of every machine fits.
LEMMA MatchFits ==
  ASSUME \A c \in Configs : c.width = 32 => c.ram <= RAM_LIMIT, MatchInv
  PROVE  RamFits
BY DEF MatchInv, BoardInv, RamFits

\* The guest finds every device where the tree says, and nothing else there, on
\* any machine with memory for its sockets; of a 32-bit machine with more memory
\* than it is limited to, NodesDescribeDevices itself says nothing.
\* (create_fdt_* against aislab_machine_init, each with its own arithmetic.)
THEOREM TreeDescribesBoard ==
  ASSUME \A c \in Configs : AISLAB_SOCKETS_MAX <= c.ram
  PROVE  Spec => []NodesDescribeDevices
<1>1. MatchInv => NodesDescribeDevices
  BY MatchReady, ReadyDescribes DEF NodesDescribeDevices
<1> QED BY <1>1, MatchInit, MatchNext, PTL DEF Spec

\* The window of mmio_bus is at one place for the guest, for QEMU and for SystemC.
\* (create_fdt_mmio_bus, aislab_machine_init and MMIO_ADDR of mmio_bus.h.)
THEOREM WindowIsOne ==
  ASSUME \A c \in Configs : AISLAB_SOCKETS_MAX <= c.ram,
         \A c \in Configs : c.width = 32 => c.ram <= RAM_LIMIT
  PROVE  Spec => []WindowAgrees
<1>1. MatchInv => WindowAgrees
  <2> SUFFICES ASSUME MatchInv, Finalized PROVE WindowAgrees
    BY DEF WindowAgrees
  <2> QED BY MatchFits, MatchReady, ReadyWindow DEF MatchInv
<1> QED BY <1>1, MatchInit, MatchNext, PTL DEF Spec

\* The line the tree announces for a device, of the controller it names, is the
\* one the device is wired to, and no other line is announced: with any number of
\* sockets, with a PLIC, with APLICs of which one delegates to the other, and in
\* the in-kernel irqchip.
\* (create_fdt_* against the irqchips of aislab_machine_init and gpex_pcie_init.)
THEOREM EveryInterruptArrives ==
  ASSUME \A c \in Configs : AISLAB_SOCKETS_MAX <= c.ram,
         \A c \in Configs : c.width = 32 => c.ram <= RAM_LIMIT
  PROVE  Spec => []InterruptsArrive
<1>1. MatchInv => InterruptsArrive
  <2> SUFFICES ASSUME MatchInv, Finalized PROVE InterruptsArrive
    BY DEF InterruptsArrive
  <2> QED BY MatchFits, MatchReady, ReadyArrives DEF MatchInv
<1> QED BY <1>1, MatchInit, MatchNext, PTL DEF Spec
=============================================================================
