--------------------------- MODULE AislabNodeProofs ---------------------------
(***************************************************************************)
(* More about the device tree of the machine aislab: its types, and that   *)
(* every phandle of the tree leads to the node that is meant.              *)
(***************************************************************************)
EXTENDS AislabProofs

-----------------------------------------------------------------------------
(* Harts, counted socket by socket *)

UpTo(i) == { h \in 0 .. cfg.cpus - 1 : cfg.node[h] <= i }

\* phandle_pos when the loop is at socket i: the harts of it and those below.
HartsUpTo(i) == Cardinality(UpTo(i))

\* The harts of a socket are counted once, all of them at the last socket.
LEMMA HartsCounted ==
  ASSUME cfg \in Configs
  PROVE  /\ \A i : HartsUpTo(i) \in 0 .. cfg.cpus
         /\ HartsUpTo(cfg.sockets - 1) = cfg.cpus
         /\ \A i \in Int : HartsUpTo(i) = HartsUpTo(i - 1) + HartCount(i)
         /\ HartsUpTo(-1) = 0
         /\ \A i : HartCount(i) \in Nat /\ IsFiniteSet(Harts(i))
<1> DEFINE All == 0 .. cfg.cpus - 1
<1>1. cfg.cpus \in 1 .. AISLAB_CPUS_MAX
  BY ConfigAssumption
<1>2. cfg.cpus \in Nat /\ cfg.cpus - 1 \in Int /\ 0 <= cfg.cpus - 1 /\ cfg.sockets \in Nat
  <2>1. cfg.sockets \in Nat
    BY ConfigAssumption
  <2>2. cfg.cpus \in Nat /\ cfg.cpus - 1 \in Int /\ 0 <= cfg.cpus - 1
    BY <1>1, SMTT(30) DEF AISLAB_CPUS_MAX
  <2> QED BY <2>1, <2>2
<1>3. IsFiniteSet(All) /\ Cardinality(All) = cfg.cpus
  <2>1. 0 \in Int /\ ~(0 > cfg.cpus - 1) /\ cfg.cpus - 1 - 0 + 1 = cfg.cpus
    BY <1>2
  <2>2. /\ IsFiniteSet(All)
        /\ Cardinality(All) = IF 0 > cfg.cpus - 1 THEN 0 ELSE cfg.cpus - 1 - 0 + 1
    BY <1>2, <2>1, FS_Interval, Zenon
  <2> QED BY <2>1, <2>2
<1>4. ASSUME NEW T, T \subseteq All
      PROVE  IsFiniteSet(T) /\ Cardinality(T) \in 0 .. cfg.cpus
  <2>1. IsFiniteSet(T) /\ Cardinality(T) <= Cardinality(All)
    BY <1>3, <1>4, FS_Subset, ZenonT(30)
  <2>2. Cardinality(T) \in Nat
    BY <2>1, FS_CardinalityType
  <2> QED BY <1>2, <1>3, <2>1, <2>2
<1>5. \A i : UpTo(i) \subseteq All /\ Harts(i) \subseteq All
  BY DEF UpTo, Harts
<1>6. \A h \in All : cfg.node[h] \in 0 .. cfg.sockets - 1
  BY ConfigAssumption
<1>7. UpTo(cfg.sockets - 1) = All /\ UpTo(-1) = {}
  BY <1>2, <1>6 DEF UpTo
<1>8. ASSUME NEW i \in Int PROVE HartsUpTo(i) = HartsUpTo(i - 1) + HartCount(i)
  <2>1. UpTo(i) = UpTo(i - 1) \cup Harts(i) /\ UpTo(i - 1) \cap Harts(i) = {}
    BY <1>2, <1>6 DEF UpTo, Harts
  <2>2. IsFiniteSet(UpTo(i - 1)) /\ IsFiniteSet(Harts(i))
    BY <1>4, <1>5
  <2>3. Cardinality(UpTo(i)) =
          Cardinality(UpTo(i - 1)) + Cardinality(Harts(i)) - Cardinality(UpTo(i - 1) \cap Harts(i))
    BY <2>1, <2>2, FS_Union, Zenon
  <2>4. Cardinality(UpTo(i - 1) \cap Harts(i)) = 0
    BY <2>1, FS_EmptySet, Zenon
  <2>5. Cardinality(UpTo(i - 1)) \in Nat /\ Cardinality(Harts(i)) \in Nat
    BY <1>4, <1>5
  <2> QED BY <2>3, <2>4, <2>5 DEF HartsUpTo, HartCount
<1>9. \A i : HartsUpTo(i) \in 0 .. cfg.cpus /\ HartCount(i) \in Nat /\ IsFiniteSet(Harts(i))
  BY <1>2, <1>4, <1>5 DEF HartsUpTo, HartCount
<1>10. HartsUpTo(-1) = 0 /\ HartsUpTo(cfg.sockets - 1) = cfg.cpus
  BY <1>3, <1>7, FS_EmptySet, Zenon DEF HartsUpTo
<1> QED BY <1>8, <1>9, <1>10

-----------------------------------------------------------------------------
(* Types *)

\* phandle_pos, which no step may take below 0 nor past the last hart.
PosInv ==
  pc \in {"fdt_sockets", "fdt_xplic"} =>
    pos = IF pc = "fdt_xplic" /\ UseKvmAia THEN 0 ELSE HartsUpTo(sock)

TypesInv == TypeOK /\ PosInv /\ PhandlesInv

\* The types at the beginning.
LEMMA TypesInit == ASSUME Init PROVE TypesInv
<1>1. cfg \in Configs
  BY DEF Init, BoardInit
<1>2. cfg.cpus \in Nat /\ cfg.sockets \in Nat /\ cfg.ram \in Nat \ {0}
  <2>1. cfg.cpus \in 1 .. AISLAB_CPUS_MAX /\ cfg.sockets \in Nat /\ cfg.ram \in Nat \ {0}
    BY <1>1, ConfigAssumption
  <2> QED BY <2>1, SMTT(30) DEF AISLAB_CPUS_MAX
<1>3. TypeOK
  <2>1. sock = 0 /\ client = "none" /\ ramSize = cfg.ram /\ phandle = 1 /\ pos = 0 /\ tree = {}
    BY DEF Init, BoardInit, TreeInit
  <2>2. intc \in [0 .. cfg.cpus - 1 -> Nat] /\ xplic \in [Sockets -> Nat]
    BY DEF Init, TreeInit
  <2>3. sock \in -1 .. cfg.sockets /\ ramSize \in 1 .. cfg.ram /\ pos \in 0 .. cfg.cpus
    BY <1>2, <2>1
  <2> QED BY <1>1, <2>1, <2>2, <2>3 DEF TypeOK
<1> QED BY <1>3, PhandlesInvInit DEF TypesInv, PosInv, Init, BoardInit

\* A step of aislab_machine_init keeps the types.
LEMMA TypesBoard ==
  ASSUME TypeOK, BoardStep, UNCHANGED treeVars
  PROVE  TypeOK'
<1>1. /\ cfg \in Configs /\ cfg.sockets \in Nat /\ cfg.ram \in Nat
      /\ sock \in -1 .. cfg.sockets /\ client \in {"none", "awaited", "connected"} /\ ramSize \in 1 .. cfg.ram
  BY ConfigAssumption DEF TypeOK
<1>2. ASSUME cfg' = cfg, sock' \in -1 .. cfg.sockets, client' = client, ramSize' \in 1 .. cfg.ram
      PROVE  TypeOK'
  BY <1>2 DEF TypeOK, treeVars, Sockets
<1>3. CASE InitChecks
  BY <1>1, <1>2, <1>3 DEF InitChecks
<1>4. CASE InitSocket
  BY <1>1, <1>2, <1>4 DEF InitSocket, Sockets
<1>5. ASSUME NEW from, NEW to, NEW regions, NEW lines, Build(from, to, regions, lines),
             ramSize' = ramSize
      PROVE  TypeOK'
  BY <1>1, <1>2, <1>5 DEF Build
<1>6. CASE InitAia
  <2>1. RAM_LIMIT \in Nat /\ 1 <= RAM_LIMIT
    BY DEF RAM_LIMIT, GiB, MiB, KiB
  <2>2. ramSize' \in 1 .. cfg.ram
    BY <1>1, <1>6, <2>1 DEF InitAia
  <2> QED BY <1>1, <1>2, <1>6, <2>2 DEF InitAia, Build
<1>7. CASE MapMemory \/ CreateVirtio \/ GpexPcieInit \/ CreatePlatformBus
  BY <1>5, <1>7 DEF MapMemory, CreateVirtio, GpexPcieInit, CreatePlatformBus
<1>8. CASE CreateSerialAndRtc \/ CreateMmioBus \/ MapFlash
  BY <1>5, <1>8 DEF CreateSerialAndRtc, CreateMmioBus, MapFlash
<1>9. CASE ListenMmioBus
  BY <1>9 DEF ListenMmioBus, TypeOK, treeVars, Sockets
<1> QED BY <1>3, <1>4, <1>6, <1>7, <1>8, <1>9 DEF BoardStep

\* phandle_pos as the loops over the sockets count it down.
LEMMA PosKept ==
  ASSUME TypesInv, TreeStep
  PROVE  PosInv' /\ pos' \in 0 .. cfg.cpus
<1>1. cfg \in Configs /\ sock \in Int /\ cfg.sockets \in Nat /\ pos \in 0 .. cfg.cpus
  BY ConfigAssumption DEF TypesInv, TypeOK
<1>2. cfg.cpus \in Nat
  <2>1. cfg.cpus \in 1 .. AISLAB_CPUS_MAX
    BY <1>1, ConfigAssumption
  <2> QED BY <2>1, SMTT(30) DEF AISLAB_CPUS_MAX
<1>3. cfg' = cfg => (UseKvmAia' <=> UseKvmAia) /\ \A i : HartsUpTo(i)' = HartsUpTo(i)
  BY DEF UseKvmAia, HartsUpTo, UpTo
<1>4. CASE Finalize
  <2>1. cfg' = cfg /\ pos' = cfg.cpus /\ sock' = cfg.sockets - 1 /\ pc' # "fdt_xplic"
    BY <1>4 DEF Finalize
  <2> QED BY <1>1, <1>2, <1>3, <2>1, HartsCounted DEF PosInv, HartsUpTo, UpTo
<1>5. CASE FdtSocket
  <2>1. /\ pc = "fdt_sockets" /\ pc' = pc /\ cfg' = cfg /\ sock' = sock - 1
        /\ pos' = pos - HartCount(sock) /\ pos = HartsUpTo(sock)
    BY <1>5 DEF FdtSocket, Count, TypesInv, PosInv
  <2>2. pos' = HartsUpTo(sock - 1) /\ HartsUpTo(sock - 1) \in 0 .. cfg.cpus
    <3>1. HartsUpTo(sock) = HartsUpTo(sock - 1) + HartCount(sock)
      BY <1>1, HartsCounted
    <3>2. HartsUpTo(sock - 1) \in 0 .. cfg.cpus /\ HartCount(sock) \in Nat
      BY <1>1, HartsCounted
    <3> QED BY <1>2, <2>1, <3>1, <3>2
  <2> QED BY <2>1, <2>2 DEF PosInv, HartsUpTo, UpTo
<1>6. CASE FdtImsic
  <2>1. /\ pc' = "fdt_xplic" /\ cfg' = cfg
        /\ sock' = IF UseKvmAia THEN 0 ELSE cfg.sockets - 1
        /\ pos' = IF UseKvmAia THEN 0 ELSE cfg.cpus
    BY <1>6 DEF FdtImsic
  <2>2. ~UseKvmAia => HartsUpTo(sock)' = cfg.cpus
    BY <1>1, <2>1, HartsCounted DEF HartsUpTo, UpTo
  <2> QED BY <1>2, <1>3, <2>1, <2>2 DEF PosInv
<1>7. CASE FdtXplic
  <2>1. /\ pc = "fdt_xplic" /\ pc' = pc /\ cfg' = cfg /\ sock' = sock - 1
        /\ pos' = IF UseKvmAia THEN pos ELSE pos - HartCount(sock)
        /\ pos = IF UseKvmAia THEN 0 ELSE HartsUpTo(sock)
    BY <1>7 DEF FdtXplic, Count, TypesInv, PosInv
  <2>2. ~UseKvmAia => pos' = HartsUpTo(sock - 1) /\ HartsUpTo(sock - 1) \in 0 .. cfg.cpus
    <3>1. HartsUpTo(sock) = HartsUpTo(sock - 1) + HartCount(sock)
      BY <1>1, HartsCounted
    <3>2. HartsUpTo(sock - 1) \in 0 .. cfg.cpus /\ HartCount(sock) \in Nat
      BY <1>1, HartsCounted
    <3> QED BY <1>2, <2>1, <3>1, <3>2
  <2>3. HartsUpTo(sock)' = HartsUpTo(sock - 1)
    BY <2>1 DEF HartsUpTo, UpTo
  <2> QED BY <1>1, <1>3, <2>1, <2>2, <2>3 DEF PosInv
<1>8. CASE CreateFdt \/ PlugIommu \/ FdtSocketsEnd \/ FdtVirtio
  BY <1>1, <1>8 DEF CreateFdt, PlugIommu, FdtSocketsEnd, FdtVirtio, Fdt, treeVars, boardVars, PosInv, TypesInv
<1>9. CASE FdtPcie
  <2>1. pc' = "fdt_reset" /\ pos' = pos
    BY <1>9, Zenon DEF FdtPcie
  <2> QED BY <1>1, <2>1 DEF PosInv
<1>10. CASE FdtReset
  BY <1>1, <1>10 DEF FdtReset, Fdt, PosInv
<1>11. CASE FdtUart \/ FdtRtc \/ FdtMmioBus
  BY <1>1, <1>11 DEF FdtUart, FdtRtc, FdtMmioBus, Fdt, PosInv
<1> QED BY <1>4, <1>5, <1>6, <1>7, <1>8, <1>9, <1>10, <1>11 DEF TreeStep

\* The phandles of a socket's interrupt controllers, counted down, are numbers.
LEMMA DrawnNumber ==
  ASSUME NEW next \in Nat, NEW count \in Nat, NEW from \in Int, NEW p \in from .. from + count - 1
  PROVE  next + 2 * (count - 1 - (p - from)) + 1 \in Nat
<1>1. p \in Int /\ p - from \in Int /\ p - from <= count - 1
  OBVIOUS
<1>2. ASSUME NEW k \in Int, k <= count - 1 PROVE next + 2 * (count - 1 - k) + 1 \in Nat
  BY <1>2
<1> QED BY <1>1, <1>2

\* A step of the device tree keeps the types.
LEMMA TypesTree ==
  ASSUME TypesInv, PhandlesInv', TreeStep
  PROVE  TypeOK'
<1>1. /\ cfg \in Configs /\ cfg.sockets \in Nat \ {0}
      /\ sock \in -1 .. cfg.sockets /\ client \in {"none", "awaited", "connected"} /\ ramSize \in 1 .. cfg.ram
      /\ phandle \in Nat /\ pos \in 0 .. cfg.cpus
      /\ intc \in [0 .. cfg.cpus - 1 -> Nat] /\ xplic \in [Sockets -> Nat]
  BY ConfigAssumption DEF TypesInv, TypeOK
<1>2. phandle' \in Nat /\ \A n \in tree' : n.phandle \in Nat
  <2>1. phandle' \in 1 .. Limit' /\ \A n \in tree' : Numbered(n, phandle')
    BY DEF PhandlesInv, CounterInv
  <2>2. phandle' \in Nat
    <3>1. CounterInv /\ phandle <= phandle'
      BY CounterTree DEF TypesInv, PhandlesInv
    <3>2. phandle' \in Int
      BY <2>1
    <3> QED BY <1>1, <3>1, <3>2
  <2> QED BY <2>1, <2>2 DEF Numbered, ALLOC_PHANDLE
<1>3. pos' \in 0 .. cfg.cpus
  BY PosKept
<1>4. ASSUME UNCHANGED <<cfg, client, ramSize>>, sock' \in -1 .. cfg.sockets,
             intc' \in [0 .. cfg.cpus - 1 -> Nat], xplic' \in [Sockets -> Nat]
      PROVE  TypeOK'
  BY <1>1, <1>2, <1>3, <1>4 DEF TypeOK, Sockets
<1>5. CASE CreateFdt \/ PlugIommu \/ FdtSocketsEnd \/ FdtVirtio
  BY <1>1, <1>4, <1>5 DEF CreateFdt, PlugIommu, FdtSocketsEnd, FdtVirtio, Fdt, treeVars, boardVars
<1>6. CASE Finalize
  BY <1>1, <1>4, <1>6 DEF Finalize
<1>7. CASE FdtSocket
  <2>1. UNCHANGED <<cfg, client, ramSize, xplic>> /\ sock' \in -1 .. cfg.sockets
    BY <1>1, <1>7 DEF FdtSocket
  <2>2. Count \in Nat /\ pos' \in Int
    <3>1. HartCount(sock) \in Nat
      BY <1>1, HartsCounted
    <3> QED BY <1>3, <3>1 DEF Count
  <2>3. intc' = [p \in 0 .. cfg.cpus - 1 |->
                   IF p \in pos' .. pos' + Count - 1 THEN IntcPhandle(p - pos') ELSE intc[p]]
    BY <1>1, <1>7 DEF FdtSocket
  <2>4. ASSUME NEW p \in 0 .. cfg.cpus - 1, p \in pos' .. pos' + Count - 1
        PROVE  IntcPhandle(p - pos') \in Nat
    <3>1. phandle + 2 * (Count - 1 - (p - pos')) + 1 \in Nat
      BY <1>1, <2>2, <2>4, DrawnNumber
    <3> QED BY <3>1 DEF IntcPhandle, CpuPhandle
  <2>5. intc' \in [0 .. cfg.cpus - 1 -> Nat]
    BY <1>1, <2>3, <2>4
  <2> QED BY <1>1, <1>4, <2>1, <2>5
<1>8. CASE FdtImsic
  BY <1>1, <1>4, <1>8 DEF FdtImsic
<1>9. CASE FdtXplic
  <2>1. UNCHANGED <<cfg, client, ramSize, intc>> /\ sock' \in -1 .. cfg.sockets
    BY <1>1, <1>9 DEF FdtXplic
  <2>2. \E ph \in Nat : xplic' = [xplic EXCEPT ![sock] = ph]
    BY <1>1, <1>9 DEF FdtXplic
  <2>3. xplic' \in [Sockets -> Nat]
    BY <1>1, <2>2
  <2> QED BY <1>1, <1>4, <2>1, <2>3
<1>10. CASE FdtPcie
  <2>1. UNCHANGED <<cfg, client, ramSize, sock, intc, xplic>>
    BY <1>10, Zenon DEF FdtPcie
  <2> QED BY <1>1, <1>4, <2>1
<1>11. CASE FdtReset
  BY <1>1, <1>4, <1>11 DEF FdtReset, Fdt
<1>12. CASE FdtUart \/ FdtRtc \/ FdtMmioBus
  BY <1>1, <1>4, <1>12 DEF FdtUart, FdtRtc, FdtMmioBus, Fdt
<1> QED BY <1>5, <1>6, <1>7, <1>8, <1>9, <1>10, <1>11, <1>12 DEF TreeStep

\* The position matters in two loops only, which no other step enters.
LEMMA NoLoopEntered ==
  ASSUME BoardStep \/ Boot
  PROVE  pc' \notin {"fdt_sockets", "fdt_xplic"}
<1> USE DEF Build
<1>1. CASE InitChecks \/ InitSocket \/ InitAia \/ MapMemory
  BY <1>1 DEF InitChecks, InitSocket, InitAia, MapMemory
<1>2. CASE CreateVirtio \/ GpexPcieInit \/ CreatePlatformBus
  BY <1>2 DEF CreateVirtio, GpexPcieInit, CreatePlatformBus
<1>3. CASE CreateSerialAndRtc \/ ListenMmioBus \/ CreateMmioBus \/ MapFlash \/ Boot
  BY <1>3 DEF CreateSerialAndRtc, ListenMmioBus, CreateMmioBus, MapFlash, Boot
<1> QED BY <1>1, <1>2, <1>3 DEF BoardStep

\* The types are kept.
LEMMA TypesNext == TypesInv /\ [Next]_vars => TypesInv'
<1> SUFFICES ASSUME TypesInv, [Next]_vars PROVE TypesInv'
  OBVIOUS
<1>1. PhandlesInv'
  BY PhandlesInvNext DEF TypesInv
<1>2. CASE BoardStep /\ UNCHANGED <<treeVars, boot>>
  BY <1>1, <1>2, TypesBoard, NoLoopEntered DEF TypesInv, PosInv
<1>3. CASE TreeStep /\ UNCHANGED boot
  BY <1>1, <1>3, TypesTree, PosKept DEF TypesInv
<1>4. ASSUME UNCHANGED <<cfg, sock, ramSize, treeVars>>, client' \in {"none", "awaited", "connected"} PROVE TypeOK'
  BY <1>4 DEF TypesInv, TypeOK, treeVars, Sockets
<1>5. CASE Boot
  BY <1>1, <1>4, <1>5, NoLoopEntered DEF Boot, TypesInv, TypeOK, PosInv
<1>6. ASSUME UNCHANGED <<cfg, sock, pc, pos>> PROVE PosInv'
  BY <1>6 DEF TypesInv, PosInv, UseKvmAia, HartsUpTo, UpTo
<1>7. CASE ClientConnects /\ UNCHANGED <<treeVars, boot>>
  BY <1>1, <1>4, <1>6, <1>7 DEF ClientConnects, TypesInv, treeVars
<1>8. CASE UNCHANGED vars
  BY <1>1, <1>4, <1>6, <1>8 DEF vars, boardVars, treeVars, TypesInv, TypeOK
<1> QED BY <1>2, <1>3, <1>5, <1>7, <1>8 DEF Next, Step

\* The types of the machine, for any command line: neither loop over the sockets
\* takes phandle_pos below 0 or past the harts there are, since each socket's
\* harts are counted off once, and every entry of intc_phandles is a phandle.
\* (create_fdt_sockets.)
THEOREM MachineTypes == Spec => []TypeOK
<1>1. Init => TypesInv
  BY TypesInit
<1>2. TypesInv => TypeOK
  BY DEF TypesInv
<1> QED BY <1>1, <1>2, TypesNext, PTL DEF Spec

-----------------------------------------------------------------------------
(* Nodes, with all their properties *)

\* What there is to know of a node but its address bits.
Made(n, kind, at, ph, reg, ext, irqs, cells, refs) ==
  /\ DOMAIN n = DOMAIN Node0
  /\ n.kind = kind /\ n.at = at /\ n.phandle = ph /\ n.reg = reg /\ n.ext = ext
  /\ n.irqs = irqs /\ n.cells = cells /\ n.refs = refs

\* The nodes of create_fdt, and the one of a virtio-iommu.
LEMMA MadeFirst ==
  ASSUME NEW ph
  PROVE  /\ Made(PciNode, "pci", aislab_memmap.PCIE_ECAM.base, 0, <<>>, <<>>, {}, -1, {})
         /\ Made([PciNode EXCEPT !.refs = {Ref("iommu_map", ph)}],
                 "pci", aislab_memmap.PCIE_ECAM.base, 0, <<>>, <<>>, {}, -1, {Ref("iommu_map", ph)})
         /\ Made([Node0 EXCEPT !.kind = "iommu", !.phandle = ph],
                 "iommu", 0, ph, <<>>, <<>>, {}, -1, {})
         /\ Made(FlashNode, "flash", aislab_memmap.FLASH.base, 0, <<FlashHalf(0), FlashHalf(1)>>,
                 <<>>, {}, -1, {})
         /\ Made(FwCfgNode, "fw_cfg", aislab_memmap.FW_CFG.base, 0, <<aislab_memmap.FW_CFG>>,
                 <<>>, {}, -1, {})
         /\ Made(PmuNode, "pmu", 0, 0, <<>>, <<>>, {}, -1, {})
<1>1. ASSUME NEW kind, NEW at, NEW reg
      PROVE  /\ Made([Node0 EXCEPT !.kind = kind, !.at = at], kind, at, 0, <<>>, <<>>, {}, -1, {})
             /\ Made([[Node0 EXCEPT !.kind = kind, !.at = at] EXCEPT !.refs = {Ref("iommu_map", ph)}],
                     kind, at, 0, <<>>, <<>>, {}, -1, {Ref("iommu_map", ph)})
             /\ Made([Node0 EXCEPT !.kind = kind, !.at = at, !.reg = reg],
                     kind, at, 0, reg, <<>>, {}, -1, {})
             /\ Made([Node0 EXCEPT !.kind = kind, !.phandle = ph], kind, 0, ph, <<>>, <<>>, {}, -1, {})
             /\ Made([Node0 EXCEPT !.kind = kind], kind, 0, 0, <<>>, <<>>, {}, -1, {})
  BY DEF Made, Node0
<1> QED BY <1>1, Zenon DEF PciNode, FlashNode, FwCfgNode, PmuNode

\* The nodes of hart number k of the socket.
LEMMA MadeCpu ==
  ASSUME NEW at, NEW ph
  PROVE  /\ Made([Node0 EXCEPT !.kind = "cpu", !.at = at, !.phandle = ph],
                 "cpu", at, ph, <<>>, <<>>, {}, -1, {})
         /\ Made([Node0 EXCEPT !.kind = "cpu-intc", !.at = at, !.phandle = ph, !.cells = 1],
                 "cpu-intc", at, ph, <<>>, <<>>, {}, 1, {})
         /\ Made([Node0 EXCEPT !.kind = "core", !.at = at, !.refs = {Ref("cpu", ph)}],
                 "core", at, 0, <<>>, <<>>, {}, -1, {Ref("cpu", ph)})
BY DEF Made, Node0

\* A node with one range of its own, and harts it interrupts.
LEMMA MadeTimer ==
  ASSUME NEW kind, NEW at, NEW reg, NEW ext
  PROVE  Made([Node0 EXCEPT !.kind = kind, !.at = at, !.reg = reg, !.ext = ext],
              kind, at, 0, reg, ext, {}, -1, {})
BY DEF Made, Node0

\* Where the timers of socket i are according to the tree.
MtimerEntry(i) ==
  LET clint == Nth(aislab_memmap.CLINT, i) IN
  IF Imsic THEN At(aislab_memmap.CLINT.base + RISCV_ACLINT_DEFAULT_MTIMER_SIZE * i,
                   RISCV_ACLINT_DEFAULT_MTIMER_SIZE)
  ELSE At(clint.base + RISCV_ACLINT_SWI_SIZE, clint.size - RISCV_ACLINT_SWI_SIZE)

TimerEntry(kind, i) ==
  CASE kind = "clint" -> Nth(aislab_memmap.CLINT, i)
    [] kind = "mtimer" -> MtimerEntry(i)
    [] kind = "mswi" -> At(Nth(aislab_memmap.CLINT, i).base, RISCV_ACLINT_SWI_SIZE)
    [] kind = "sswi" -> Nth(aislab_memmap.ACLINT_SSWI, i)

TimerKinds == IF HaveAclint THEN IF Imsic THEN {"mtimer"} ELSE {"mtimer", "mswi", "sswi"}
              ELSE IF Tcg THEN {"clint"} ELSE {}

TimerIrqs == [clint |-> <<"M_SOFT", "M_TIMER">>, mtimer |-> <<"M_TIMER">>,
              mswi |-> <<"M_SOFT">>, sswi |-> <<"S_SOFT">>]

TimerNode(kind, ph) ==
  [Node0 EXCEPT !.kind = kind, !.at = TimerEntry(kind, sock).base, !.reg = <<TimerEntry(kind, sock)>>,
                !.ext = Cells(ph, Count, TimerIrqs[kind])]

\* The timers of the socket: one node for each kind it has.
LEMMA MadeTimers ==
  ASSUME NEW ph
  PROVE  /\ TimerNodes(ph) = { TimerNode(kind, ph) : kind \in TimerKinds }
         /\ \A kind : LET entry == TimerEntry(kind, sock) IN
              Made(TimerNode(kind, ph), kind, entry.base, 0, <<entry>>,
                   Cells(ph, Count, TimerIrqs[kind]), {}, -1, {})
<1>1. \A kind : LET entry == TimerEntry(kind, sock) IN
        Made(TimerNode(kind, ph), kind, entry.base, 0, <<entry>>,
             Cells(ph, Count, TimerIrqs[kind]), {}, -1, {})
  BY MadeTimer, Zenon DEF TimerNode
<1>2. ClintNode(ph) = TimerNode("clint", ph)
  BY DEF ClintNode, TimerNode, TimerEntry, TimerIrqs
<1>3. AclintNodes(ph) = {TimerNode("mtimer", ph)}
        \cup (IF Imsic THEN {} ELSE {TimerNode("mswi", ph), TimerNode("sswi", ph)})
  <2> DEFINE node(kind, at, irq) == [Node0 EXCEPT !.kind = kind, !.at = at.base, !.reg = <<at>>,
                                                  !.ext = Cells(ph, Count, <<irq>>)]
             clint == Nth(aislab_memmap.CLINT, sock)
  <2>1. AclintNodes(ph) = {node("mtimer", Mtimer, "M_TIMER")}
          \cup (IF Imsic THEN {}
                ELSE {node("mswi", At(clint.base, RISCV_ACLINT_SWI_SIZE), "M_SOFT"),
                      node("sswi", Nth(aislab_memmap.ACLINT_SSWI, sock), "S_SOFT")})
    BY Zenon DEF AclintNodes
  <2>2. /\ TimerEntry("mtimer", sock) = Mtimer
        /\ TimerEntry("mswi", sock) = At(clint.base, RISCV_ACLINT_SWI_SIZE)
        /\ TimerEntry("sswi", sock) = Nth(aislab_memmap.ACLINT_SSWI, sock)
    BY DEF TimerEntry, MtimerEntry, Mtimer
  <2>3. /\ TimerIrqs["mtimer"] = <<"M_TIMER">>
        /\ TimerIrqs["mswi"] = <<"M_SOFT">>
        /\ TimerIrqs["sswi"] = <<"S_SOFT">>
    BY DEF TimerIrqs
  <2>4. /\ node("mtimer", Mtimer, "M_TIMER") = TimerNode("mtimer", ph)
        /\ node("mswi", At(clint.base, RISCV_ACLINT_SWI_SIZE), "M_SOFT") = TimerNode("mswi", ph)
        /\ node("sswi", Nth(aislab_memmap.ACLINT_SSWI, sock), "S_SOFT") = TimerNode("sswi", ph)
    BY <2>2, <2>3, Zenon DEF TimerNode
  <2> QED BY <2>1, <2>4, Zenon
<1>4. TimerNodes(ph) = { TimerNode(kind, ph) : kind \in TimerKinds }
  <2> DEFINE N(kind) == TimerNode(kind, ph)
  <2>1. TimerNodes(ph) =
          IF HaveAclint THEN {N("mtimer")} \cup (IF Imsic THEN {} ELSE {N("mswi"), N("sswi")})
          ELSE IF Tcg THEN {N("clint")} ELSE {}
    BY <1>2, <1>3, Zenon DEF TimerNodes
  <2> HIDE DEF N
  <2> QED BY <2>1 DEF TimerKinds, N
<1> QED BY <1>1, <1>4

\* The memory of socket i, as the tree has it.
MemoryEntry(i) ==
  IF cfg.sockets = 1 THEN At(aislab_memmap.DRAM.base, ramSize)
  ELSE Nth(At(aislab_memmap.DRAM.base, cfg.ram \div cfg.sockets), i)

\* The memory node has that one range.
LEMMA MadeMemory ==
  LET entry == MemoryEntry(sock) IN
  Made(MemoryNode, "memory", entry.base, 0, <<entry>>, <<>>, {}, -1, {})
<1>1. \A at, reg : Made([Node0 EXCEPT !.kind = "memory", !.at = at, !.reg = reg],
                        "memory", at, 0, reg, <<>>, {}, -1, {})
  BY DEF Made, Node0
<1> QED BY <1>1, Zenon DEF MemoryNode, SocketMemory, MemoryEntry

\* The ranges of an IMSIC: one for each socket, with the files of its harts.
ImsicRanges(entry, guestBits) ==
  [g \in 1 .. cfg.sockets |->
     At(entry.base + (g - 1) * AISLAB_IMSIC_GROUP_MAX_SIZE,
        IMSIC_HART_SIZE(guestBits) * HartCount(g - 1))]

\* The nodes of the interrupt controllers, and of the bus.
LEMMA MadeChips ==
  /\ \A entry, irq, ph, guestBits :
       Made(ImsicNode(entry, irq, ph, guestBits), "imsic", entry.base, ph,
            ImsicRanges(entry, guestBits), Cells(intc, cfg.cpus, <<irq>>), {}, 0, {})
  /\ \A ph, phandles :
       LET entry == Nth(aislab_memmap.PLIC, sock) IN
       Made(PlicNode(ph, phandles), "plic", entry.base, ph, <<entry>>,
            Cells(phandles, Count, IF Kvm THEN <<"S_EXT">> ELSE <<"M_EXT", "S_EXT">>), {}, 1, {})
  /\ \A map, irq, parent, ph, child, phandles, harts :
       LET entry == Nth(map, sock) IN
       Made(AplicNode(map, irq, parent, ph, child, phandles, harts), "aplic", entry.base, ph, <<entry>>,
            IF Imsic THEN <<>> ELSE Cells(phandles, harts, <<irq>>), {}, 2,
            (IF Imsic THEN {Ref("msi_parent", parent)} ELSE {})
              \cup (IF child = 0 THEN {} ELSE {Ref("children", child)}))
  /\ \A parent : \A n \in PlatformBusNode(parent) :
       /\ sock = 0
       /\ Made(n, "platform_bus", aislab_memmap.PLATFORM_BUS.base, 0, <<aislab_memmap.PLATFORM_BUS>>, <<>>,
               { Irq(k, parent, AISLAB_PLATFORM_BUS_IRQ + k) : k \in 0 .. AISLAB_PLATFORM_BUS_NUM_IRQS - 1 },
               -1, {})
<1>1. \A at, ph, cells, ext, reg, bits :
        Made([Node0 EXCEPT !.kind = "imsic", !.at = at, !.phandle = ph, !.cells = cells, !.ext = ext,
                           !.reg = reg, !.bits = bits],
             "imsic", at, ph, reg, ext, {}, cells, {})
  BY DEF Made, Node0
<1>2. \A kind, at, reg, ph, cells, ext :
        Made([Node0 EXCEPT !.kind = kind, !.at = at, !.reg = reg, !.phandle = ph, !.cells = cells,
                           !.ext = ext],
             kind, at, ph, reg, ext, {}, cells, {})
  BY DEF Made, Node0
<1>3. \A kind, at, reg, ph, cells, ext, refs :
        Made([Node0 EXCEPT !.kind = kind, !.at = at, !.reg = reg, !.phandle = ph, !.cells = cells,
                           !.ext = ext, !.refs = refs],
             kind, at, ph, reg, ext, {}, cells, refs)
  BY DEF Made, Node0
<1>4. \A kind, at, reg, irqs :
        Made([Node0 EXCEPT !.kind = kind, !.at = at, !.reg = reg, !.irqs = irqs],
             kind, at, 0, reg, <<>>, irqs, -1, {})
  BY DEF Made, Node0
<1>5. ASSUME NEW entry, NEW irq, NEW ph, NEW guestBits
      PROVE  Made(ImsicNode(entry, irq, ph, guestBits), "imsic", entry.base, ph,
                  ImsicRanges(entry, guestBits), Cells(intc, cfg.cpus, <<irq>>), {}, 0, {})
  BY <1>1, ZenonT(60) DEF ImsicNode, ImsicRanges, FDT_IMSIC_INT_CELLS
<1>6. ASSUME NEW ph, NEW phandles
      PROVE  LET entry == Nth(aislab_memmap.PLIC, sock) IN
             Made(PlicNode(ph, phandles), "plic", entry.base, ph, <<entry>>,
                  Cells(phandles, Count, IF Kvm THEN <<"S_EXT">> ELSE <<"M_EXT", "S_EXT">>), {}, 1, {})
  BY <1>2, Zenon DEF PlicNode, FDT_PLIC_INT_CELLS
<1>7. ASSUME NEW map, NEW irq, NEW parent, NEW ph, NEW child, NEW phandles, NEW harts
      PROVE  LET entry == Nth(map, sock) IN
             Made(AplicNode(map, irq, parent, ph, child, phandles, harts), "aplic", entry.base, ph, <<entry>>,
                  IF Imsic THEN <<>> ELSE Cells(phandles, harts, <<irq>>), {}, 2,
                  (IF Imsic THEN {Ref("msi_parent", parent)} ELSE {})
                    \cup (IF child = 0 THEN {} ELSE {Ref("children", child)}))
  BY <1>3, ZenonT(60) DEF AplicNode, FDT_APLIC_INT_CELLS
<1>8. ASSUME NEW parent, NEW n \in PlatformBusNode(parent)
      PROVE  /\ sock = 0
             /\ Made(n, "platform_bus", aislab_memmap.PLATFORM_BUS.base, 0, <<aislab_memmap.PLATFORM_BUS>>, <<>>,
                     { Irq(k, parent, AISLAB_PLATFORM_BUS_IRQ + k) :
                         k \in 0 .. AISLAB_PLATFORM_BUS_NUM_IRQS - 1 },
                     -1, {})
  <2> DEFINE irqs == { Irq(k, parent, AISLAB_PLATFORM_BUS_IRQ + k) :
                         k \in 0 .. AISLAB_PLATFORM_BUS_NUM_IRQS - 1 }
  <2>1. sock = 0
    BY <1>8, Zenon DEF PlatformBusNode
  <2>2. n = [Node0 EXCEPT !.kind = "platform_bus", !.at = aislab_memmap.PLATFORM_BUS.base,
                          !.reg = <<aislab_memmap.PLATFORM_BUS>>, !.irqs = irqs]
    BY <1>8, <2>1, Zenon DEF PlatformBusNode
  <2> HIDE DEF irqs
  <2>3. Made(n, "platform_bus", aislab_memmap.PLATFORM_BUS.base, 0, <<aislab_memmap.PLATFORM_BUS>>, <<>>,
             irqs, -1, {})
    BY <1>4, <2>2, Zenon
  <2> QED BY <2>1, <2>3 DEF irqs
<1> QED BY <1>5, <1>6, <1>7, <1>8, Zenon

\* The nodes of the other devices.
LEMMA MadeDevices ==
  /\ \A kind, at, d, line :
       Made(DeviceNode(kind, at, d, line), kind, at.base, 0, <<at>>, <<>>,
            {Irq(0, IrqPhandle(d), line)}, -1, {})
  /\ \A ph : Made([Node0 EXCEPT !.kind = "test", !.at = aislab_memmap.TEST.base,
                                !.reg = <<aislab_memmap.TEST>>, !.phandle = ph],
                  "test", aislab_memmap.TEST.base, ph, <<aislab_memmap.TEST>>, <<>>, {}, -1, {})
  /\ \A kind, ph : Made([Node0 EXCEPT !.kind = kind, !.refs = {Ref("regmap", ph)}],
                        kind, 0, 0, <<>>, <<>>, {}, -1, {Ref("regmap", ph)})
<1>1. \A kind, at, reg, irqs :
        Made([Node0 EXCEPT !.kind = kind, !.at = at, !.reg = reg, !.irqs = irqs],
             kind, at, 0, reg, <<>>, irqs, -1, {})
  BY DEF Made, Node0
<1>2. \A kind, at, reg, ph : Made([Node0 EXCEPT !.kind = kind, !.at = at, !.reg = reg, !.phandle = ph],
                                  kind, at, ph, reg, <<>>, {}, -1, {})
  BY DEF Made, Node0
<1>3. \A kind, ph : Made([Node0 EXCEPT !.kind = kind, !.refs = {Ref("regmap", ph)}],
                         kind, 0, 0, <<>>, <<>>, {}, -1, {Ref("regmap", ph)})
  BY DEF Made, Node0
<1>4. ASSUME NEW kind, NEW at, NEW d, NEW line
      PROVE  Made(DeviceNode(kind, at, d, line), kind, at.base, 0, <<at>>, <<>>,
                  {Irq(0, IrqPhandle(d), line)}, -1, {})
  BY <1>1, Zenon DEF DeviceNode
<1> QED BY <1>2, <1>3, <1>4, Zenon

-----------------------------------------------------------------------------
(* Harts of a socket, in a row *)

\* riscv_socket_check_hartids holds: the hartids of a socket are consecutive.
LEMMA HartsInRow ==
  ASSUME cfg \in Configs, NEW i, SocketHasHartids(i)
  PROVE  /\ FirstHartid(i) \in Nat
         /\ HartCount(i) \in Nat \ {0}
         /\ Harts(i) = FirstHartid(i) .. FirstHartid(i) + HartCount(i) - 1
<1> DEFINE S == Harts(i)
           T == { AISLAB_CPUS_MAX - h : h \in S }
<1>1. S # {} /\ \A h \in S, g \in S : h .. g \subseteq S
  BY DEF SocketHasHartids
<1>2. S \subseteq 0 .. AISLAB_CPUS_MAX - 1
  BY HartNumbers
<1>3. PICK f \in S : \A g \in S : f <= g
  <2>1. S \subseteq Nat
    BY <1>2 DEF AISLAB_CPUS_MAX
  <2> QED BY <1>1, <2>1, LeastNat
<1>4. FirstHartid(i) \in S /\ \A g \in S : FirstHartid(i) <= g
  BY <1>3 DEF FirstHartid
<1> HIDE DEF S
<1>5. FirstHartid(i) = f /\ f \in Nat
  <2>1. \A g \in S : g \in Nat
    BY <1>2 DEF AISLAB_CPUS_MAX
  <2> QED BY <1>3, <1>4, <2>1
<1>6. PICK l \in S : \A g \in S : g <= l
  <2>1. T \subseteq Nat /\ T # {}
    <3>1. \A g \in S : AISLAB_CPUS_MAX - g \in Nat
      BY <1>2 DEF AISLAB_CPUS_MAX
    <3> QED BY <1>1, <3>1
  <2>2. PICK t \in T : \A u \in T : t <= u
    BY <2>1, LeastNat
  <2>3. PICK l \in S : t = AISLAB_CPUS_MAX - l
    OBVIOUS
  <2>4. ASSUME NEW g \in S PROVE g <= l
    <3>1. AISLAB_CPUS_MAX - l <= AISLAB_CPUS_MAX - g
      BY <2>2, <2>3
    <3>2. l \in Nat /\ g \in Nat
      BY <1>2 DEF AISLAB_CPUS_MAX
    <3> QED BY <3>1, <3>2 DEF AISLAB_CPUS_MAX
  <2> QED BY <2>4
<1>7. l \in Nat /\ f <= l
  BY <1>2, <1>3, <1>6 DEF AISLAB_CPUS_MAX
<1>8. S = f .. l
  <2>1. f .. l \subseteq S
    BY <1>1, <1>3, <1>6
  <2>2. \A g \in S : g \in f .. l
    BY <1>2, <1>3, <1>5, <1>6, <1>7 DEF AISLAB_CPUS_MAX
  <2> QED BY <2>1, <2>2
<1>9. Cardinality(f .. l) = l - f + 1
  <2>1. f \in Int /\ l \in Int /\ ~(f > l)
    BY <1>5, <1>7
  <2>2. Cardinality(f .. l) = IF f > l THEN 0 ELSE l - f + 1
    BY <2>1, FS_Interval, Zenon
  <2> QED BY <2>1, <2>2
<1>10. HartCount(i) = l - f + 1
  BY <1>8, <1>9 DEF S, HartCount
<1> QED BY <1>5, <1>7, <1>8, <1>10 DEF S

\* Which property refers to what.
LEMMA RefersToNumbers ==
  /\ RefersTo["cpu"] = "cpu" /\ RefersTo["regmap"] = "test" /\ RefersTo["children"] = "aplic"
  /\ RefersTo["msi_parent"] = "imsic" /\ RefersTo["iommu_map"] = "iommu"
BY DEF RefersTo

\* The interrupts a node lists go to the first harts of those it is given.
LEMMA CellsAt ==
  ASSUME NEW count \in Nat, NEW phandles, NEW irqs, Len(irqs) \in {1, 2},
         NEW k \in DOMAIN Cells(phandles, count, irqs)
  PROVE  \E j \in 0 .. count - 1 : Cells(phandles, count, irqs)[k][1] = phandles[j]
<1>1. k \in 1 .. count * Len(irqs)
  BY DEF Cells
<1>2. PICK j \in 0 .. count - 1 : j = (k - 1) \div Len(irqs)
  <2>1. CASE Len(irqs) = 1
    BY <1>1, <2>1
  <2>2. CASE Len(irqs) = 2
    BY <1>1, <2>2
  <2> QED BY <2>1, <2>2
<1>3. Cells(phandles, count, irqs)[k][1] = phandles[j]
  BY <1>1, <1>2 DEF Cells
<1> QED BY <1>3

\* Those are the ones from a position on.
LEMMA CellsListed ==
  ASSUME cfg.cpus \in Nat, NEW p \in Nat, NEW count \in Nat, p + count <= cfg.cpus,
         NEW phandles, NEW irqs, Len(irqs) \in {1, 2},
         NEW k \in DOMAIN Cells(IntcFrom(p, phandles), count, irqs)
  PROVE  \E q \in p .. p + count - 1 : Cells(IntcFrom(p, phandles), count, irqs)[k][1] = phandles[q]
<1>1. PICK hs : hs = IntcFrom(p, phandles)
  OBVIOUS
<1>2. PICK j \in 0 .. count - 1 : Cells(hs, count, irqs)[k][1] = hs[j]
  BY <1>1, CellsAt
<1>3. hs[j] = phandles[p + j]
  <2>1. j \in 0 .. cfg.cpus - 1 - p
    BY <1>2
  <2> QED BY <1>1, <2>1 DEF IntcFrom
<1>4. p + j \in p .. p + count - 1
  BY <1>2
<1> QED BY <1>1, <1>2, <1>3, <1>4

-----------------------------------------------------------------------------
(* Phandles lead to nodes *)

Known(ph, kind) == \E m \in tree : m.phandle = ph /\ m.kind = kind

Resolved(n) ==
  /\ \A ref \in n.refs : Known(ref.phandle, RefersTo[ref.prop])
  /\ \A k \in DOMAIN n.ext : Known(n.ext[k][1], "cpu-intc")

\* Plugging comes before every reference; then the loop over the sockets has
\* put the phandles of the harts it is past into intc_phandles, create_fdt_imsic
\* those of the IMSICs into msi_m_phandle and msi_s_phandle, of each level there is.
LinksInv ==
  /\ \A n \in tree : Resolved(n)
  /\ pc = "plug" /\ (\A n \in tree : n.kind # "iommu") =>
       tree \subseteq {PciNode, FlashNode, FwCfgNode, PmuNode}
  /\ pc = "fdt_sockets" => \A p \in pos .. cfg.cpus - 1 : Known(intc[p], "cpu-intc")
  /\ pc = "fdt_xplic" => \A p \in 0 .. cfg.cpus - 1 : Known(intc[p], "cpu-intc")
  /\ Imsic /\ pc \in {"fdt_xplic", "fdt_virtio", "fdt_pcie"} =>
       /\ Known(msi[2], "imsic")
       /\ ~Kvm => Known(msi[1], "imsic")

\* A step that adds nodes loses none of those that are known.
LEMMA StillKnown ==
  ASSUME NEW N, tree' = tree \cup N, NEW ph, NEW kind, Known(ph, kind)
  PROVE  Known(ph, kind)'
BY DEF Known

\* A step that adds nodes which resolve.
LEMMA LinksAdded ==
  ASSUME LinksInv, NEW N, tree' = tree \cup N, \A n \in N : Resolved(n)'
  PROVE  \A n \in tree' : Resolved(n)'
<1>1. ASSUME NEW n \in tree PROVE Resolved(n)'
  <2>1. Resolved(n)
    BY DEF LinksInv
  <2> QED BY <2>1, StillKnown DEF Resolved
<1> QED BY <1>1

\* A node that refers to no other.
LEMMA NoLinks ==
  ASSUME NEW n, n.refs = {}, n.ext = <<>>
  PROVE  Resolved(n) /\ Resolved(n)'
BY DEF Resolved

\* A node that refers to one other, by a property.
LEMMA OneLink ==
  ASSUME NEW n, NEW prop, NEW ph, n.refs = {Ref(prop, ph)}, n.ext = <<>>,
         Known(ph, RefersTo[prop])'
  PROVE  Resolved(n)'
BY DEF Resolved, Ref, RefersTo

\* A node that lists interrupts of harts, and refers to no other.
LEMMA CellsResolve ==
  ASSUME NEW n, n.refs = {}, NEW p \in Nat, NEW count \in Nat, cfg.cpus \in Nat, cfg' = cfg,
         p + count <= cfg.cpus, NEW phandles, NEW irqs, Len(irqs) \in {1, 2},
         n.ext = Cells(IntcFrom(p, phandles), count, irqs),
         \A q \in p .. p + count - 1 : Known(phandles[q], "cpu-intc")'
  PROVE  Resolved(n)'
<1>1. ASSUME NEW k \in DOMAIN n.ext PROVE Known(n.ext[k][1], "cpu-intc")'
  <2>1. PICK q \in p .. p + count - 1 : n.ext[k][1] = phandles[q]
    BY CellsListed
  <2> QED BY <2>1
<1> QED BY <1>1 DEF Resolved

\* create_fdt: no node refers to another.
LEMMA LinksCreateFdt ==
  ASSUME CreateFdt
  PROVE  LinksInv'
<1>1. tree' \subseteq {PciNode, FlashNode, FwCfgNode, PmuNode} /\ pc' = "plug"
  BY DEF CreateFdt
<1>2. \A n \in {PciNode, FlashNode, FwCfgNode, PmuNode} : n.refs = {} /\ n.ext = <<>>
  BY MadeFirst DEF Made
<1>3. \A n \in tree' : Resolved(n)'
  BY <1>1, <1>2, NoLinks
<1> QED BY <1>1, <1>3 DEF LinksInv, PciNode, FlashNode, FwCfgNode, PmuNode

\* A virtio-iommu plugged: the node of the PCI host refers to it.
LEMMA LinksPlugIommu ==
  ASSUME LinksInv, PlugIommu
  PROVE  LinksInv'
<1> DEFINE pci == [PciNode EXCEPT !.refs = {Ref("iommu_map", ALLOC_PHANDLE)}]
           iommu == [Node0 EXCEPT !.kind = "iommu", !.phandle = ALLOC_PHANDLE]
<1>1. tree' \subseteq {FlashNode, FwCfgNode, PmuNode, pci, iommu} /\ iommu \in tree' /\ pc' = "plug"
  BY DEF PlugIommu, LinksInv, boardVars
<1>2. \A n \in {FlashNode, FwCfgNode, PmuNode, iommu} : n.refs = {} /\ n.ext = <<>>
  <2>1. \A n \in {FlashNode, FwCfgNode, PmuNode} : n.refs = {} /\ n.ext = <<>>
    BY MadeFirst DEF Made
  <2>2. iommu.refs = {} /\ iommu.ext = <<>>
    BY MadeFirst, Zenon DEF Made
  <2> QED BY <2>1, <2>2
<1>3. pci.refs = {Ref("iommu_map", ALLOC_PHANDLE)} /\ pci.ext = <<>>
  BY MadeFirst, Zenon DEF Made
<1>4. iommu.kind = "iommu" /\ iommu.phandle = ALLOC_PHANDLE
  BY DEF Node0
<1> HIDE DEF pci, iommu
<1>5. Known(ALLOC_PHANDLE, RefersTo["iommu_map"])'
  BY <1>1, <1>4, RefersToNumbers DEF Known
<1>6. Resolved(pci)'
  BY <1>3, <1>5, OneLink
<1>7. \A n \in tree' : Resolved(n)'
  BY <1>1, <1>2, <1>6, NoLinks
<1> QED BY <1>1, <1>4, <1>7 DEF LinksInv

\* create_fdt_sockets, one socket: its harts have their phandles in
\* intc_phandles from phandle_pos on, and its timers interrupt these.
LEMMA LinksFdtSocket ==
  ASSUME LinksInv, TypesInv, FdtSocket
  PROVE  LinksInv'
<1>1. /\ pc = "fdt_sockets" /\ pc' = pc /\ cfg' = cfg /\ sock \in Int /\ cfg \in Configs
      /\ pos = HartsUpTo(sock) /\ pos' = pos - Count /\ msi' = msi
  BY DEF FdtSocket, TypesInv, TypeOK, PosInv
<1>2. /\ pos \in Nat /\ pos' \in Nat /\ Count \in Nat /\ pos' + Count = pos
      /\ cfg.cpus \in Nat /\ pos <= cfg.cpus
  <2>1. HartsUpTo(sock) = HartsUpTo(sock - 1) + HartCount(sock)
    BY <1>1, HartsCounted
  <2>2. HartsUpTo(sock - 1) \in 0 .. cfg.cpus /\ HartCount(sock) \in Nat /\ HartsUpTo(sock) \in 0 .. cfg.cpus
    BY <1>1, HartsCounted
  <2>3. cfg.cpus \in Nat
    <3>1. cfg.cpus \in 1 .. AISLAB_CPUS_MAX
      BY <1>1, ConfigAssumption
    <3> QED BY <3>1, SMTT(30) DEF AISLAB_CPUS_MAX
  <2> QED BY <1>1, <2>1, <2>2, <2>3 DEF Count
<1>3. PICK ph, from, next, count : ph = intc' /\ from = pos' /\ next = phandle /\ count = Count
  OBVIOUS
<1>0. from \in Nat /\ count \in Nat /\ from + count = pos /\ pos <= cfg.cpus /\ DOMAIN intc = 0 .. cfg.cpus - 1
  BY <1>2, <1>3 DEF TypesInv, TypeOK
<1> DEFINE drawn(k) == next + 2 * (count - 1 - k)
           first == FirstHartid(sock)
           cpu(k) == [Node0 EXCEPT !.kind = "cpu", !.at = first + k, !.phandle = CpuPhandle(k)]
           ctl(k) == [Node0 EXCEPT !.kind = "cpu-intc", !.at = first + k,
                                   !.phandle = IntcPhandle(k), !.cells = 1]
           core(k) == [Node0 EXCEPT !.kind = "core", !.at = first + k,
                                    !.refs = {Ref("cpu", CpuPhandle(k))}]
           N == CpuNodes \cup ({MemoryNode} \cup TimerNodes(IntcFrom(from, ph)))
<1>4. \A k : CpuPhandle(k) = drawn(k) /\ IntcPhandle(k) = drawn(k) + 1
  BY <1>3 DEF CpuPhandle, IntcPhandle
<1>5. tree' = tree \cup N
  <2>1. tree' = tree \cup CpuNodes \cup {MemoryNode} \cup TimerNodes(IntcFrom(from, ph))
    BY <1>3, Zenon DEF FdtSocket
  <2> QED BY <2>1
<1>6. CpuNodes = UNION { {cpu(k), ctl(k), core(k)} : k \in 0 .. count - 1 }
  <2>1. CpuNodes = UNION { {cpu(k), ctl(k), core(k)} : k \in 0 .. Count - 1 }
    BY Zenon DEF CpuNodes
  <2> HIDE DEF cpu, ctl, core
  <2> QED BY <1>3, <2>1
<1>7. \A k : /\ cpu(k).kind = "cpu" /\ cpu(k).phandle = drawn(k) /\ cpu(k).refs = {} /\ cpu(k).ext = <<>>
             /\ ctl(k).kind = "cpu-intc" /\ ctl(k).phandle = drawn(k) + 1
             /\ ctl(k).refs = {} /\ ctl(k).ext = <<>>
             /\ core(k).refs = {Ref("cpu", drawn(k))} /\ core(k).ext = <<>>
  <2>1. \A k : /\ cpu(k).kind = "cpu" /\ cpu(k).phandle = CpuPhandle(k)
               /\ cpu(k).refs = {} /\ cpu(k).ext = <<>>
               /\ ctl(k).kind = "cpu-intc" /\ ctl(k).phandle = IntcPhandle(k)
               /\ ctl(k).refs = {} /\ ctl(k).ext = <<>>
               /\ core(k).refs = {Ref("cpu", CpuPhandle(k))} /\ core(k).ext = <<>>
    BY DEF Node0
  <2> HIDE DEF cpu, ctl, core, drawn
  <2> QED BY <1>4, <2>1
<1> HIDE DEF cpu, ctl, core
<1>8. ASSUME NEW k \in 0 .. count - 1
      PROVE  Known(drawn(k), "cpu")' /\ Known(drawn(k) + 1, "cpu-intc")'
  <2>1. cpu(k) \in tree' /\ ctl(k) \in tree'
    BY <1>5, <1>6
  <2> HIDE DEF drawn
  <2> QED BY <1>7, <2>1 DEF Known
<1>9. ASSUME NEW q \in from .. from + count - 1 PROVE Known(ph[q], "cpu-intc")'
  <2>1. q \in DOMAIN intc /\ q - from \in 0 .. count - 1
    <3>1. q \in Int /\ from <= q /\ q <= from + count - 1
      BY <1>0
    <3>2. q \in 0 .. cfg.cpus - 1
      BY <1>2, <1>0, <3>1
    <3> QED BY <1>0, <3>1, <3>2
  <2>2. ph[q] = IntcPhandle(q - from)
    <3>1. intc' = [p \in DOMAIN intc |->
                     IF p \in from .. from + count - 1 THEN IntcPhandle(p - from) ELSE intc[p]]
      BY <1>3 DEF FdtSocket
    <3> QED BY <1>3, <2>1, <3>1
  <2>3. ph[q] = drawn(q - from) + 1
    BY <1>4, <2>2
  <2> HIDE DEF drawn
  <2> QED BY <1>8, <2>1, <2>3
<1>10. ASSUME NEW q \in pos .. cfg.cpus - 1 PROVE Known(ph[q], "cpu-intc")'
  <2>1. ph[q] = intc[q]
    <3>1. q \in DOMAIN intc /\ q \notin from .. from + count - 1
      <4>1. q \in Int /\ pos <= q /\ q <= cfg.cpus - 1
        BY <1>2
      <4> QED BY <1>2, <1>0, <4>1
    <3> QED BY <1>3, <3>1 DEF FdtSocket
  <2>2. PICK p : p = ph[q]
    OBVIOUS
  <2>3. Known(p, "cpu-intc")
    BY <1>1, <2>1, <2>2 DEF LinksInv
  <2>4. Known(p, "cpu-intc")'
    BY <1>5, <2>3, StillKnown
  <2> QED BY <2>2, <2>4
<1>11. ASSUME NEW n \in N PROVE Resolved(n)'
  <2>1. CASE n \in CpuNodes
    <3>1. PICK k \in 0 .. count - 1 : n \in {cpu(k), ctl(k), core(k)}
      BY <1>6, <2>1
    <3>2. CASE n = cpu(k) \/ n = ctl(k)
      BY <1>7, <3>2, NoLinks
    <3>3. CASE n = core(k)
      <4>1. PICK d : d = drawn(k)
        OBVIOUS
      <4>2. n.refs = {Ref("cpu", d)} /\ n.ext = <<>>
        BY <1>7, <3>3, <4>1
      <4>3. Known(d, RefersTo["cpu"])'
        <5>1. Known(d, "cpu")'
          BY <1>8, <4>1
        <5> QED BY <5>1, RefersToNumbers DEF Known
      <4> QED BY <4>2, <4>3, OneLink
    <3> QED BY <3>1, <3>2, <3>3
  <2>2. CASE n = MemoryNode
    <3>1. MemoryNode.refs = {} /\ MemoryNode.ext = <<>>
      BY MadeMemory DEF Made
    <3> QED BY <2>2, <3>1, NoLinks
  <2>3. CASE n \in TimerNodes(IntcFrom(from, ph))
    <3>1. PICK kind \in TimerKinds : n = TimerNode(kind, IntcFrom(from, ph))
      BY <2>3, MadeTimers
    <3>2. n.refs = {} /\ n.ext = Cells(IntcFrom(from, ph), count, TimerIrqs[kind])
      <4>1. PICK hs : hs = IntcFrom(from, ph)
        OBVIOUS
      <4>2. PICK entry : Made(TimerNode(kind, hs), kind, entry.base, 0, <<entry>>,
                              Cells(hs, Count, TimerIrqs[kind]), {}, -1, {})
        BY MadeTimers
      <4> QED BY <1>3, <3>1, <4>1, <4>2 DEF Made
    <3>3. Len(TimerIrqs[kind]) \in {1, 2}
      <4>1. kind \in {"clint", "mtimer", "mswi", "sswi"}
        BY DEF TimerKinds
      <4> QED BY <4>1 DEF TimerIrqs
    <3>4. PICK irqs : irqs = TimerIrqs[kind]
      OBVIOUS
    <3>5. from \in Nat /\ count \in Nat /\ from + count <= cfg.cpus
      BY <1>0
    <3> QED BY <1>1, <1>2, <1>9, <3>2, <3>3, <3>4, <3>5, CellsResolve
  <2> QED BY <2>1, <2>2, <2>3
<1>12. \A n \in tree' : Resolved(n)'
  <2> HIDE DEF N
  <2> QED BY <1>5, <1>11, LinksAdded
<1>13. \A q \in pos' .. cfg'.cpus - 1 : Known(ph[q], "cpu-intc")'
  <2>1. ASSUME NEW q \in pos' .. cfg'.cpus - 1
        PROVE  q \in from .. from + count - 1 \/ q \in pos .. cfg.cpus - 1
    BY <1>1, <1>2, <1>3, <2>1
  <2> QED BY <1>9, <1>10, <2>1
<1> QED BY <1>1, <1>3, <1>12, <1>13 DEF LinksInv

\* create_fdt_imsic: each level there is has its node, which lists all harts.
LEMMA LinksFdtImsic ==
  ASSUME LinksInv, TypesInv, FdtImsic
  PROVE  LinksInv'
<1>1. /\ pc = "fdt_sockets" /\ pc' = "fdt_xplic" /\ cfg' = cfg /\ sock = -1 /\ cfg \in Configs
      /\ intc' = intc /\ pos = HartsUpTo(sock)
  BY ConfigAssumption DEF FdtImsic, TypesInv, TypeOK, PosInv
<1>2. cfg.cpus \in Nat
  <2>1. cfg.cpus \in 1 .. AISLAB_CPUS_MAX
    BY <1>1, ConfigAssumption
  <2> QED BY <2>1, SMTT(30) DEF AISLAB_CPUS_MAX
<1>3. \A p \in 0 .. cfg.cpus - 1 : Known(intc[p], "cpu-intc")
  <2>1. pos = 0
    BY <1>1, HartsCounted
  <2> QED BY <1>1, <2>1 DEF LinksInv
<1>4. (Imsic' <=> Imsic) /\ (Kvm' <=> Kvm)
  BY <1>1 DEF Imsic, Kvm
<1>5. CASE ~Imsic
  <2>1. tree' = tree
    BY <1>5 DEF FdtImsic
  <2> QED BY <1>1, <1>3, <1>4, <1>5, <2>1 DEF LinksInv, Resolved, Known
<1>6. CASE Imsic
  <2>1. PICK next, hs, count : next = phandle /\ hs = intc /\ count = cfg.cpus
    OBVIOUS
  <2> DEFINE m == ImsicNode(aislab_memmap.IMSIC_M, "M_EXT", next, 0)
             s == ImsicNode(aislab_memmap.IMSIC_S, "S_EXT", next + 1, GuestBits)
             N == (IF Kvm THEN {} ELSE {m}) \cup {s}
  <2>2. msi' = <<next, next + 1>>
    BY <1>6, <2>1 DEF FdtImsic
  <2>3. tree' = tree \cup N
    <3>1. tree' = tree \cup (IF Kvm THEN {}
                             ELSE {ImsicNode(aislab_memmap.IMSIC_M, "M_EXT", msi'[1], 0)})
                       \cup {ImsicNode(aislab_memmap.IMSIC_S, "S_EXT", msi'[2], GuestBits)}
      BY <1>6, Zenon DEF FdtImsic
    <3>2. msi'[1] = next /\ msi'[2] = next + 1
      BY <2>2
    <3> QED BY <3>1, <3>2
  <2>4. /\ m.kind = "imsic" /\ m.phandle = next /\ m.refs = {} /\ m.ext = Cells(hs, count, <<"M_EXT">>)
        /\ s.kind = "imsic" /\ s.phandle = next + 1 /\ s.refs = {} /\ s.ext = Cells(hs, count, <<"S_EXT">>)
    BY <2>1, MadeChips DEF Made
  <2> HIDE DEF m, s
  <2>5. ASSUME NEW n \in N PROVE Resolved(n)'
    <3>1. PICK irq : n.ext = Cells(hs, count, <<irq>>)
      BY <2>4
    <3>2. PICK irqs : irqs = <<irq>> /\ Len(irqs) = 1
      <4>1. Len(<<irq>>) = 1
        OBVIOUS
      <4> QED BY <4>1
    <3>3. ASSUME NEW k \in DOMAIN n.ext PROVE Known(n.ext[k][1], "cpu-intc")'
      <4>1. count \in Nat /\ n.ext = Cells(hs, count, irqs)
        BY <1>2, <2>1, <3>1, <3>2
      <4>2. PICK j \in 0 .. count - 1 : n.ext[k][1] = hs[j]
        BY <3>2, <4>1, CellsAt
      <4>3. PICK p : p = hs[j]
        OBVIOUS
      <4>4. Known(p, "cpu-intc")
        BY <1>3, <2>1, <4>3
      <4>5. Known(p, "cpu-intc")'
        BY <2>3, <4>4, StillKnown
      <4> QED BY <4>2, <4>3, <4>5
    <3>4. n.refs = {}
      BY <2>4
    <3> QED BY <3>3, <3>4 DEF Resolved
  <2>6. \A n \in tree' : Resolved(n)'
    <3> HIDE DEF N
    <3> QED BY <2>3, <2>5, LinksAdded
  <2>7. Known(msi[2], "imsic")' /\ (~Kvm' => Known(msi[1], "imsic")')
    <3>1. s \in tree' /\ (~Kvm => m \in tree')
      BY <2>3
    <3> QED BY <1>4, <2>2, <2>4, <3>1 DEF Known
  <2>8. \A p \in 0 .. cfg'.cpus - 1 : Known(hs[p], "cpu-intc")'
    <3>1. ASSUME NEW p \in 0 .. cfg'.cpus - 1 PROVE Known(hs[p], "cpu-intc")'
      <4>1. PICK ph : ph = hs[p]
        OBVIOUS
      <4>2. Known(ph, "cpu-intc")
        BY <1>1, <1>3, <2>1, <3>1, <4>1
      <4>3. Known(ph, "cpu-intc")'
        BY <2>3, <4>2, StillKnown
      <4> QED BY <4>1, <4>3
    <3> QED BY <3>1
  <2> QED BY <1>1, <2>1, <2>6, <2>7, <2>8 DEF LinksInv
<1> QED BY <1>5, <1>6

\* create_fdt_socket_plic and create_fdt_socket_aplic, one socket: the nodes list
\* harts from phandle_pos on, an APLIC refers to the IMSIC of its level, and the
\* one of M level to the one of S level made with it.
LEMMA LinksFdtXplic ==
  ASSUME LinksInv, TypesInv, FdtXplic
  PROVE  LinksInv'
<1>1. /\ pc = "fdt_xplic" /\ pc' = "fdt_xplic" /\ cfg' = cfg /\ cfg \in Configs /\ sock \in Int
      /\ intc' = intc /\ msi' = msi /\ phandle \in Nat
      /\ pos' = (IF UseKvmAia THEN pos ELSE pos - Count)
      /\ pos = IF UseKvmAia THEN 0 ELSE HartsUpTo(sock)
  BY DEF FdtXplic, TypesInv, TypeOK, PosInv
<1>2. cfg.cpus \in Nat
  <2>1. cfg.cpus \in 1 .. AISLAB_CPUS_MAX
    BY <1>1, ConfigAssumption
  <2> QED BY <2>1, SMTT(30) DEF AISLAB_CPUS_MAX
<1>3. PICK ph, from, next, count, msim, msis :
        /\ ph = intc /\ from = pos' /\ next = phandle /\ msim = msi[1] /\ msis = msi[2]
        /\ count = IF UseKvmAia THEN cfg.cpus ELSE Count
  OBVIOUS
<1>4. from \in Nat /\ count \in Nat /\ from + count <= cfg.cpus
  <2>1. CASE UseKvmAia
    BY <1>1, <1>2, <1>3, <2>1
  <2>2. CASE ~UseKvmAia
    <3>1. HartsUpTo(sock) = HartsUpTo(sock - 1) + HartCount(sock)
      BY <1>1, HartsCounted
    <3>2. HartsUpTo(sock - 1) \in 0 .. cfg.cpus /\ HartCount(sock) \in Nat /\ HartsUpTo(sock) \in 0 .. cfg.cpus
      BY <1>1, HartsCounted
    <3>3. from = HartsUpTo(sock - 1) /\ count = HartCount(sock)
      BY <1>1, <1>3, <2>2, <3>1, <3>2 DEF Count
    <3> QED BY <1>2, <3>1, <3>2, <3>3
  <2> QED BY <2>1, <2>2
<1>5. (Imsic' <=> Imsic) /\ (Kvm' <=> Kvm)
  BY <1>1 DEF Imsic, Kvm
<1>6. \A q \in 0 .. cfg.cpus - 1 : Known(ph[q], "cpu-intc")
  BY <1>1, <1>3 DEF LinksInv
<1>7. ASSUME NEW N, tree' = tree \cup N, \A n \in N : Resolved(n)'
      PROVE  LinksInv'
  <2>1. \A n \in tree' : Resolved(n)'
    BY <1>7, LinksAdded
  <2>2. \A q \in 0 .. cfg'.cpus - 1 : Known(ph[q], "cpu-intc")'
    <3> SUFFICES ASSUME NEW q \in 0 .. cfg.cpus - 1 PROVE Known(ph[q], "cpu-intc")'
      BY <1>1
    <3>1. PICK p : p = ph[q]
      OBVIOUS
    <3> QED BY <1>6, <1>7, <3>1, StillKnown
  <2>3. Imsic => Known(msis, "imsic")' /\ (~Kvm => Known(msim, "imsic")')
    <3>1. Imsic => Known(msis, "imsic") /\ (~Kvm => Known(msim, "imsic"))
      BY <1>1, <1>3 DEF LinksInv
    <3> QED BY <1>7, <3>1, StillKnown
  <2> QED BY <1>1, <1>3, <1>5, <2>1, <2>2, <2>3 DEF LinksInv
<1>8. ASSUME NEW N, tree' = tree \cup N, NEW n, n.refs = {}, NEW irqs, Len(irqs) \in {1, 2},
             n.ext = Cells(IntcFrom(from, ph), count, irqs)
      PROVE  Resolved(n)'
  <2>1. \A q \in from .. from + count - 1 : Known(ph[q], "cpu-intc")'
    <3> SUFFICES ASSUME NEW q \in from .. from + count - 1 PROVE Known(ph[q], "cpu-intc")'
      OBVIOUS
    <3>1. PICK p : p = ph[q]
      OBVIOUS
    <3>2. q \in 0 .. cfg.cpus - 1
      BY <1>2, <1>4
    <3> QED BY <1>6, <1>8, <3>1, <3>2, StillKnown
  <2> QED BY <1>1, <1>2, <1>4, <1>8, <2>1, CellsResolve
<1>9. \A parent : \A n \in PlatformBusNode(parent) : Resolved(n)'
  <2>1. \A parent : \A n \in PlatformBusNode(parent) : n.refs = {} /\ n.ext = <<>>
    BY MadeChips, ZenonT(60) DEF Made
  <2> QED BY <2>1, NoLinks
<1>10. CASE cfg.aia = "none"
  <2> DEFINE plic == PlicNode(next, IntcFrom(from, ph))
             N == {plic} \cup PlatformBusNode(next)
  <2>1. tree' = tree \cup N
    <3>1. tree' = tree \cup {plic} \cup PlatformBusNode(next)
      BY <1>1, <1>3, <1>10, Zenon DEF FdtXplic
    <3> QED BY <3>1
  <2>2. PICK irqs : irqs = IF Kvm THEN <<"S_EXT">> ELSE <<"M_EXT", "S_EXT">>
    OBVIOUS
  <2>3. Len(irqs) \in {1, 2}
    BY <2>2
  <2>4. plic.refs = {} /\ plic.ext = Cells(IntcFrom(from, ph), count, irqs)
    <3>1. PICK hs : hs = IntcFrom(from, ph)
      OBVIOUS
    <3>2. PICK entry : Made(PlicNode(next, hs), "plic", entry.base, next, <<entry>>,
                            Cells(hs, Count, irqs), {}, 1, {})
      BY <2>2, MadeChips
    <3>3. count = Count
      BY <1>3, <1>10 DEF UseKvmAia
    <3> QED BY <3>1, <3>2, <3>3 DEF Made
  <2> HIDE DEF plic
  <2>5. ASSUME NEW n, n = plic PROVE Resolved(n)'
    BY <1>8, <2>1, <2>3, <2>4, <2>5
  <2>6. \A n \in N : Resolved(n)'
    BY <1>9, <2>5
  <2> QED BY <1>7, <2>1, <2>6
<1>11. CASE cfg.aia # "none"
  <2> DEFINE m == AplicNode(aislab_memmap.APLIC_M, "M_EXT", msim, next, next + 1, IntcFrom(from, ph), count)
             s == AplicNode(aislab_memmap.APLIC_S, "S_EXT", msis, next + 1, 0, IntcFrom(from, ph), count)
             N == (IF Kvm THEN {} ELSE {m}) \cup ({s} \cup PlatformBusNode(next + 1))
  <2>1. tree' = tree \cup N
    <3>1. tree' = tree \cup AplicNodes(IntcFrom(from, ph), count) \cup PlatformBusNode(next + 1)
      BY <1>1, <1>3, <1>11, Zenon DEF FdtXplic
    <3>2. AplicNodes(IntcFrom(from, ph), count) = (IF Kvm THEN {} ELSE {m}) \cup {s}
      BY <1>3, Zenon DEF AplicNodes
    <3> QED BY <3>1, <3>2
  <2>2. /\ m.ext = IF Imsic THEN <<>> ELSE Cells(IntcFrom(from, ph), count, <<"M_EXT">>)
        /\ m.refs = (IF Imsic THEN {Ref("msi_parent", msim)} ELSE {})
                      \cup (IF next + 1 = 0 THEN {} ELSE {Ref("children", next + 1)})
    <3>1. PICK hs, child : hs = IntcFrom(from, ph) /\ child = next + 1
      OBVIOUS
    <3>2. PICK entry : Made(AplicNode(aislab_memmap.APLIC_M, "M_EXT", msim, next, child, hs, count),
              "aplic", entry.base, next, <<entry>>, IF Imsic THEN <<>> ELSE Cells(hs, count, <<"M_EXT">>),
              {}, 2, (IF Imsic THEN {Ref("msi_parent", msim)} ELSE {})
                       \cup (IF child = 0 THEN {} ELSE {Ref("children", child)}))
      BY MadeChips, Zenon
    <3> QED BY <3>1, <3>2, Zenon DEF Made
  <2>3. /\ s.kind = "aplic" /\ s.phandle = next + 1
        /\ s.ext = IF Imsic THEN <<>> ELSE Cells(IntcFrom(from, ph), count, <<"S_EXT">>)
        /\ s.refs = (IF Imsic THEN {Ref("msi_parent", msis)} ELSE {}) \cup (IF 0 = 0 THEN {} ELSE {Ref("children", 0)})
    <3>1. PICK hs, own, none : hs = IntcFrom(from, ph) /\ own = next + 1 /\ none = 0
      OBVIOUS
    <3>2. PICK entry : Made(AplicNode(aislab_memmap.APLIC_S, "S_EXT", msis, own, none, hs, count),
              "aplic", entry.base, own, <<entry>>, IF Imsic THEN <<>> ELSE Cells(hs, count, <<"S_EXT">>),
              {}, 2, (IF Imsic THEN {Ref("msi_parent", msis)} ELSE {})
                       \cup (IF none = 0 THEN {} ELSE {Ref("children", none)}))
      BY MadeChips, Zenon
    <3> QED BY <3>1, <3>2, Zenon DEF Made
  <2> HIDE DEF m, s
  <2>4. Imsic => Known(msis, "imsic")' /\ (~Kvm => Known(msim, "imsic")')
    <3>1. Imsic => Known(msis, "imsic") /\ (~Kvm => Known(msim, "imsic"))
      BY <1>1, <1>3 DEF LinksInv
    <3> QED BY <2>1, <3>1, StillKnown
  <2>5. Known(next + 1, "aplic")'
    BY <2>1, <2>3 DEF Known
  <2>6. ASSUME NEW n, n = s \/ (n = m /\ ~Kvm) PROVE Resolved(n)'
    <3>1. \A ref \in n.refs : Known(ref.phandle, RefersTo[ref.prop])'
      <4> SUFFICES ASSUME NEW ref \in n.refs PROVE Known(ref.phandle, RefersTo[ref.prop])'
        OBVIOUS
      <4>1. CASE ref = Ref("children", next + 1)
        BY <2>5, <4>1, RefersToNumbers DEF Ref, Known
      <4>2. CASE ref = Ref("msi_parent", msis) /\ Imsic
        BY <2>4, <4>2, RefersToNumbers DEF Ref, Known
      <4>3. CASE ref = Ref("msi_parent", msim) /\ Imsic /\ ~Kvm
        BY <2>4, <4>3, RefersToNumbers DEF Ref, Known
      <4> QED BY <2>2, <2>3, <2>6, <4>1, <4>2, <4>3
    <3>2. \A k \in DOMAIN n.ext : Known(n.ext[k][1], "cpu-intc")'
      <4>1. CASE Imsic
        <5>1. n.ext = <<>>
          BY <2>2, <2>3, <2>6, <4>1
        <5> QED BY <5>1
      <4>2. CASE ~Imsic
        <5>1. PICK irq : n.ext = Cells(IntcFrom(from, ph), count, <<irq>>)
          BY <2>2, <2>3, <2>6, <4>2
        <5>2. PICK irqs : irqs = <<irq>> /\ Len(irqs) \in {1, 2}
          <6>1. Len(<<irq>>) = 1
            OBVIOUS
          <6> QED BY <6>1
        <5>3. PICK x : x = [refs |-> {}, ext |-> n.ext]
          OBVIOUS
        <5>4. Resolved(x)'
          BY <1>8, <2>1, <5>1, <5>2, <5>3
        <5> QED BY <5>3, <5>4 DEF Resolved
      <4> QED BY <4>1, <4>2
    <3> QED BY <3>1, <3>2 DEF Resolved
  <2>7. \A n \in N : Resolved(n)'
    BY <1>9, <2>6
  <2> QED BY <1>7, <2>1, <2>7
<1> QED BY <1>10, <1>11

\* The rest of finalize_fdt: devices refer to no node by a property, but for the
\* reset devices, which refer to the test device made with them.
LEMMA LinksDevices ==
  ASSUME LinksInv, FdtVirtio \/ FdtReset \/ FdtUart \/ FdtRtc \/ FdtMmioBus
  PROVE  LinksInv'
<1>1. /\ \A kind, at, d, line : LET n == DeviceNode(kind, at, d, line) IN n.refs = {} /\ n.ext = <<>>
      /\ \A n : n.refs = {} /\ n.ext = <<>> => Resolved(n)'
  BY MadeDevices, NoLinks DEF Made
<1>2. ASSUME NEW N, tree' = tree \cup N, \A n \in N : Resolved(n)',
             cfg' = cfg, msi' = msi, pc \in {"fdt_virtio", "fdt_reset", "fdt_uart", "fdt_rtc", "fdt_mmio_bus"},
             pc' \in {"fdt_pcie", "fdt_uart", "fdt_rtc", "fdt_mmio_bus", "boot"},
             pc' = "fdt_pcie" => pc = "fdt_virtio"
      PROVE  LinksInv'
  <2>1. \A n \in tree' : Resolved(n)'
    BY <1>2, LinksAdded
  <2>2. (Imsic' <=> Imsic) /\ (Kvm' <=> Kvm)
    BY <1>2 DEF Imsic, Kvm
  <2>3. PICK msim, msis : msim = msi[1] /\ msis = msi[2]
    OBVIOUS
  <2>4. Imsic /\ pc' = "fdt_pcie" => Known(msis, "imsic")' /\ (~Kvm => Known(msim, "imsic")')
    BY <1>2, <2>3, StillKnown DEF LinksInv
  <2> QED BY <1>2, <2>1, <2>2, <2>3, <2>4 DEF LinksInv
<1>3. ASSUME NEW from \in {"fdt_virtio", "fdt_uart", "fdt_rtc", "fdt_mmio_bus"},
             NEW to \in {"fdt_pcie", "fdt_rtc", "fdt_mmio_bus", "boot"},
             to = "fdt_pcie" => from = "fdt_virtio",
             NEW N, Fdt(from, to, N), \A n \in N : n.refs = {} /\ n.ext = <<>>
      PROVE  LinksInv'
  BY <1>1, <1>2, <1>3 DEF Fdt
<1>4. CASE FdtVirtio
  <2> DEFINE N == { DeviceNode("virtio", Nth(aislab_memmap.VIRTIO, n), "virtio", VIRTIO_IRQ + n) :
                      n \in 0 .. VIRTIO_COUNT - 1 }
  <2>1. Fdt("fdt_virtio", "fdt_pcie", N)
    BY <1>4, Zenon DEF FdtVirtio
  <2>2. \A n \in N : n.refs = {} /\ n.ext = <<>>
    BY <1>1, Zenon
  <2> HIDE DEF N
  <2> QED BY <1>3, <2>1, <2>2
<1>5. CASE FdtReset
  <2>1. PICK ph : ph = phandle
    OBVIOUS
  <2> DEFINE test == [Node0 EXCEPT !.kind = "test", !.at = aislab_memmap.TEST.base,
                                   !.reg = <<aislab_memmap.TEST>>, !.phandle = ph]
             reset(kind) == [Node0 EXCEPT !.kind = kind, !.refs = {Ref("regmap", ph)}]
             N == {test, reset("reboot"), reset("poweroff")}
  <2>2. Fdt("fdt_reset", "fdt_uart", N)
    BY <1>5, <2>1, Zenon DEF FdtReset
  <2>3. /\ test.refs = {} /\ test.ext = <<>> /\ test.kind = "test" /\ test.phandle = ph
        /\ \A kind : reset(kind).refs = {Ref("regmap", ph)} /\ reset(kind).ext = <<>>
    <3>1. Made(test, "test", aislab_memmap.TEST.base, ph, <<aislab_memmap.TEST>>, <<>>, {}, -1, {})
      BY MadeDevices, Zenon
    <3>2. \A kind : Made(reset(kind), kind, 0, 0, <<>>, <<>>, {}, -1, {Ref("regmap", ph)})
      BY MadeDevices, Zenon
    <3> QED BY <3>1, <3>2, Zenon DEF Made
  <2> HIDE DEF test, reset
  <2>4. tree' = tree \cup N
    BY <2>2 DEF Fdt
  <2>5. Known(ph, RefersTo["regmap"])'
    BY <2>3, <2>4, RefersToNumbers DEF Known
  <2>6. ASSUME NEW n \in N PROVE Resolved(n)'
    <3>1. CASE n = test
      BY <2>3, <3>1, NoLinks
    <3>2. CASE n # test
      <4>1. n.refs = {Ref("regmap", ph)} /\ n.ext = <<>>
        BY <2>3, <3>2
      <4> QED BY <2>5, <4>1, OneLink
    <3> QED BY <3>1, <3>2
  <2> HIDE DEF N
  <2> QED BY <1>2, <2>2, <2>6 DEF Fdt
<1>6. CASE FdtUart
  <2> DEFINE N == {DeviceNode("serial", aislab_memmap.UART0, "mmio", UART0_IRQ)}
  <2>1. Fdt("fdt_uart", "fdt_rtc", N)
    BY <1>6, Zenon DEF FdtUart
  <2>2. \A n \in N : n.refs = {} /\ n.ext = <<>>
    BY <1>1, Zenon
  <2> HIDE DEF N
  <2> QED BY <1>3, <2>1, <2>2
<1>7. CASE FdtRtc
  <2> DEFINE N == {DeviceNode("rtc", aislab_memmap.RTC, "mmio", RTC_IRQ)}
  <2>1. Fdt("fdt_rtc", "fdt_mmio_bus", N)
    BY <1>7, Zenon DEF FdtRtc
  <2>2. \A n \in N : n.refs = {} /\ n.ext = <<>>
    BY <1>1, Zenon
  <2> HIDE DEF N
  <2> QED BY <1>3, <2>1, <2>2
<1>8. CASE FdtMmioBus
  <2> DEFINE N == {DeviceNode("mmio_bus", aislab_memmap.MMIO_BUS, "mmio", MMIO_BUS_IRQ)}
  <2>1. Fdt("fdt_mmio_bus", "boot", N)
    BY <1>8, Zenon DEF FdtMmioBus
  <2>2. \A n \in N : n.refs = {} /\ n.ext = <<>>
    BY <1>1, Zenon
  <2> HIDE DEF N
  <2> QED BY <1>3, <2>1, <2>2
<1> QED BY <1>4, <1>5, <1>6, <1>7, <1>8

-----------------------------------------------------------------------------
(* Paths are distinct *)

\* The functions of the machine in the order they run.
Rank(p) ==
  CASE p = "checks" -> 0        [] p = "sockets" -> 1     [] p = "memory" -> 2
    [] p = "virtio" -> 3        [] p = "pcie" -> 4        [] p = "platform" -> 5
    [] p = "serial" -> 6        [] p = "mmio_bus" -> 7    [] p = "flash" -> 8
    [] p = "tree" -> 9          [] p = "plug" -> 10       [] p = "fdt_sockets" -> 11
    [] p = "fdt_xplic" -> 12    [] p = "fdt_virtio" -> 13 [] p = "fdt_pcie" -> 14
    [] p = "fdt_reset" -> 15    [] p = "fdt_uart" -> 16   [] p = "fdt_rtc" -> 17
    [] p = "fdt_mmio_bus" -> 18 [] OTHER -> 19

\* Which of them makes the nodes of a kind; none does those of no kind.
KindRank(kind) ==
  CASE kind \in {"pci", "flash", "fw_cfg", "pmu", "iommu"} -> 9
    [] kind \in {"cpu", "cpu-intc", "core", "memory", "clint", "mtimer", "mswi", "sswi", "imsic"} -> 11
    [] kind \in {"plic", "aplic", "platform_bus"} -> 12
    [] kind = "virtio" -> 13
    [] kind \in {"test", "reboot", "poweroff"} -> 15
    [] kind = "serial" -> 16
    [] kind = "rtc" -> 17
    [] kind = "mmio_bus" -> 18
    [] OTHER -> 20

\* Where the loops over the sockets put the nodes of a kind for socket i.
Spots(kind, i) ==
  CASE kind \in {"cpu", "cpu-intc", "core"} -> Harts(i)
    [] kind = "memory" -> {MemoryEntry(i).base}
    [] kind \in {"clint", "mtimer", "mswi", "sswi"} -> {TimerEntry(kind, i).base}
    [] kind = "plic" -> {Nth(aislab_memmap.PLIC, i).base}
    [] kind = "aplic" -> {Nth(aislab_memmap.APLIC_M, i).base, Nth(aislab_memmap.APLIC_S, i).base}
    [] kind = "platform_bus" /\ i = 0 -> {aislab_memmap.PLATFORM_BUS.base}
    [] OTHER -> {}

\* A node belongs to a function that has run, or to a socket its loop is past.
Stands(n) ==
  /\ DOMAIN n = DOMAIN Node0
  /\ \/ KindRank(n.kind) < Rank(pc)
     \/ /\ KindRank(n.kind) = Rank(pc)
        /\ pc \in {"fdt_sockets", "fdt_xplic"}
        /\ \E i \in Sockets : sock < i /\ n.at \in Spots(n.kind, i)

PathsUnique == \A m, n \in tree : m.kind = n.kind /\ m.at = n.at => m = n

PathsInv == (\A n \in tree : Stands(n)) /\ PathsUnique

\* Every socket the machine has been made with has passed riscv_socket_check_hartids.
CheckedInv ==
  /\ pc \in {"checks", "sockets"} => sock \in Nat
  /\ pc = "checks" => sock = 0
  /\ \A i \in Sockets :
       pc \notin {"checks", "sockets", "exited"} \/ (pc = "sockets" /\ i < sock) => SocketHasHartids(i)

\* There are as many sockets as the command line asks for, at most four.
LEMMA SocketNumbers ==
  ASSUME CounterInv, pc \notin {"checks", "exited"}
  PROVE  /\ cfg \in Configs /\ cfg.sockets \in Nat \ {0} /\ cfg.sockets <= 4
         /\ \A i \in Sockets : i \in {0, 1, 2, 3}
<1>1. cfg \in Configs /\ cfg.sockets \in Nat \ {0}
  BY ConfigAssumption DEF CounterInv
<1>2. cfg.sockets <= 4
  BY DEF CounterInv, AISLAB_SOCKETS_MAX
<1> QED BY <1>1, <1>2 DEF Sockets

\* finalize_fdt and what goes before it come after the sockets.
LEMMA TreeRuns ==
  ASSUME TreeStep
  PROVE  cfg' = cfg /\ pc \notin {"checks", "sockets", "exited"} /\ pc' \notin {"checks", "sockets"}
<1>1. CASE CreateFdt \/ PlugIommu \/ Finalize
  BY <1>1 DEF CreateFdt, PlugIommu, Finalize, boardVars
<1>2. CASE FdtSocket
  BY <1>2 DEF FdtSocket
<1>3. CASE FdtImsic \/ FdtSocketsEnd
  BY <1>3 DEF FdtImsic, FdtSocketsEnd
<1>4. CASE FdtXplic
  BY <1>4 DEF FdtXplic
<1>5. CASE FdtPcie
  BY <1>5, PcieCompleted
<1>6. CASE FdtVirtio \/ FdtReset
  BY <1>6 DEF FdtVirtio, FdtReset, Fdt
<1>7. CASE FdtUart \/ FdtRtc \/ FdtMmioBus
  BY <1>7 DEF FdtUart, FdtRtc, FdtMmioBus, Fdt
<1> QED BY <1>1, <1>2, <1>3, <1>4, <1>5, <1>6, <1>7 DEF TreeStep

\* The checks of the sockets are never undone.
LEMMA CheckedNext ==
  ASSUME CheckedInv, TypesInv, [Next]_vars
  PROVE  CheckedInv'
<1>1. cfg \in Configs /\ cfg.sockets \in Nat /\ sock \in Int
  BY ConfigAssumption DEF TypesInv, TypeOK
<1>2. ASSUME cfg' = cfg, pc' \notin {"checks", "sockets"},
             pc' # "exited" => \A i \in Sockets : SocketHasHartids(i)
      PROVE  CheckedInv'
  BY <1>2 DEF CheckedInv, Sockets, SocketHasHartids, Harts
<1>3. ASSUME cfg' = cfg, pc \notin {"checks", "sockets", "exited"}, pc' \notin {"checks", "sockets"}
      PROVE  CheckedInv'
  BY <1>2, <1>3 DEF CheckedInv
<1>4. CASE InitChecks
  BY <1>1, <1>4 DEF InitChecks, CheckedInv, Sockets
<1>5. CASE InitSocket
  <2>1. CASE SocketHasHartids(sock)
    <3>1. pc = "sockets" /\ pc' = pc /\ cfg' = cfg /\ sock \in Nat /\ sock' = sock + 1
      BY <1>5, <2>1 DEF InitSocket, CheckedInv
    <3>2. ASSUME NEW i \in Sockets, i < sock' PROVE SocketHasHartids(i)
      <4>1. i < sock \/ i = sock
        BY <1>1, <3>1, <3>2 DEF Sockets
      <4> QED BY <2>1, <3>1, <4>1 DEF CheckedInv
    <3> QED BY <3>1, <3>2 DEF CheckedInv, Sockets, SocketHasHartids, Harts
  <2>2. CASE ~SocketHasHartids(sock)
    BY <1>2, <1>5, <2>2 DEF InitSocket
  <2> QED BY <2>1, <2>2
<1>6. CASE InitAia
  <2>1. cfg' = cfg /\ pc = "sockets" /\ pc' = "memory" /\ sock = cfg.sockets
    BY <1>6 DEF InitAia, Build
  <2> QED BY <1>1, <1>2, <2>1 DEF CheckedInv, Sockets
<1>7. CASE MapMemory \/ CreateVirtio \/ GpexPcieInit \/ CreatePlatformBus
  BY <1>3, <1>7 DEF MapMemory, CreateVirtio, GpexPcieInit, CreatePlatformBus, Build
<1>8. CASE CreateSerialAndRtc \/ CreateMmioBus \/ MapFlash
  BY <1>3, <1>8 DEF CreateSerialAndRtc, CreateMmioBus, MapFlash, Build
<1>9. CASE TreeStep
  BY <1>3, <1>9, TreeRuns
<1>10. CASE Boot
  BY <1>3, <1>10 DEF Boot
<1>11. CASE UNCHANGED <<cfg, pc, sock>>
  BY <1>11 DEF CheckedInv, Sockets, SocketHasHartids, Harts
<1>12. CASE ListenMmioBus \/ ClientConnects \/ UNCHANGED vars
  BY <1>11, <1>12 DEF ListenMmioBus, ClientConnects, vars, boardVars
<1> QED BY <1>4, <1>5, <1>6, <1>7, <1>8, <1>9, <1>10, <1>12 DEF Next, Step, BoardStep

\* The memory of each of two sockets or more is not empty: QEMU rounds what
\* -m asks for up to 8 KiB.
MemoryShared == AISLAB_SOCKETS_MAX <= cfg.ram

\* Two sockets have no node of a kind at one address.
LEMMA SpotsApart ==
  ASSUME cfg \in Configs, MemoryShared, NEW i \in Sockets, NEW j \in Sockets, i # j,
         cfg.sockets \in Nat \ {0}, cfg.sockets <= 4, i \in {0, 1, 2, 3}, j \in {0, 1, 2, 3},
         NEW kind, NEW at \in Spots(kind, i)
  PROVE  at \notin Spots(kind, j)
<1>1. CASE kind \in {"cpu", "cpu-intc", "core"}
  BY <1>1 DEF Spots, Harts
<1>2. CASE kind = "memory"
  <2>1. PICK share : share = cfg.ram \div cfg.sockets
    OBVIOUS
  <2>2. share \in Nat \ {0}
    <3>1. cfg.ram \in Nat /\ 4 <= cfg.ram
      BY ConfigAssumption DEF MemoryShared, AISLAB_SOCKETS_MAX
    <3>2. CASE cfg.sockets = 1
      BY <2>1, <3>1, <3>2
    <3>3. CASE cfg.sockets = 2
      BY <2>1, <3>1, <3>3
    <3>4. CASE cfg.sockets = 3
      BY <2>1, <3>1, <3>4
    <3>5. CASE cfg.sockets = 4
      BY <2>1, <3>1, <3>5
    <3> QED BY <3>2, <3>3, <3>4, <3>5
  <2>3. cfg.sockets # 1
    BY DEF Sockets
  <2>4. PICK base : base = aislab_memmap.DRAM.base /\ base \in Nat
    BY MapNumbers
  <2>5. \A k : MemoryEntry(k).base = base + k * share
    BY <2>1, <2>3, <2>4 DEF MemoryEntry, Nth, At
  <2>6. /\ MemoryEntry(0).base = base + 0 * share /\ MemoryEntry(1).base = base + 1 * share
        /\ MemoryEntry(2).base = base + 2 * share /\ MemoryEntry(3).base = base + 3 * share
    BY <2>5
  <2>7. MemoryEntry(i).base # MemoryEntry(j).base
    BY <2>2, <2>4, <2>6
  <2> QED BY <1>2, <2>7 DEF Spots
<1>3. CASE kind \in {"clint", "mtimer", "mswi", "sswi"}
  <2>1. \A k \in {0, 1, 2, 3} :
          /\ TimerEntry("clint", k).base = 131072 + k * 256
          /\ TimerEntry("mtimer", k).base = IF Imsic THEN 131072 + 128 * k ELSE 131072 + k * 256 + 64
          /\ TimerEntry("mswi", k).base = 131072 + k * 256
          /\ TimerEntry("sswi", k).base = 192512 + k * 64
    BY MapNumbers DEF TimerEntry, MtimerEntry, Nth, At, RISCV_ACLINT_SWI_SIZE,
       RISCV_ACLINT_DEFAULT_MTIMER_SIZE, KiB
  <2>2. TimerEntry(kind, i).base # TimerEntry(kind, j).base
    BY <1>3, <2>1
  <2> QED BY <1>3, <2>2 DEF Spots
<1>4. CASE kind = "plic"
  <2>1. Nth(aislab_memmap.PLIC, i).base # Nth(aislab_memmap.PLIC, j).base
    BY MapNumbers DEF Nth, At
  <2> QED BY <1>4, <2>1 DEF Spots
<1>5. CASE kind = "aplic"
  <2>1. /\ Nth(aislab_memmap.APLIC_M, i).base # Nth(aislab_memmap.APLIC_M, j).base
        /\ Nth(aislab_memmap.APLIC_S, i).base # Nth(aislab_memmap.APLIC_S, j).base
        /\ Nth(aislab_memmap.APLIC_M, i).base # Nth(aislab_memmap.APLIC_S, j).base
        /\ Nth(aislab_memmap.APLIC_S, i).base # Nth(aislab_memmap.APLIC_M, j).base
    BY MapNumbers DEF Nth, At
  <2> QED BY <1>5, <2>1 DEF Spots
<1>6. CASE kind \notin {"cpu", "cpu-intc", "core", "memory", "clint", "mtimer", "mswi", "sswi", "plic", "aplic"}
  BY <1>6 DEF Spots
<1> QED BY <1>1, <1>2, <1>3, <1>4, <1>5, <1>6

\* A step that adds nodes to the tree, none where there is one of its kind.
LEMMA PathsAdded ==
  ASSUME PathsInv, NEW N, tree' = tree \cup N,
         \A n \in tree : Stands(n)',
         \A n \in N : Stands(n)',
         \A m, n \in N : m.kind = n.kind /\ m.at = n.at => m = n,
         \A m \in tree, n \in N : m.kind # n.kind \/ m.at # n.at
  PROVE  PathsInv'
BY DEF PathsInv, PathsUnique

\* A node that stands goes on standing when a function is done.
LEMMA StandsOn ==
  ASSUME NEW n, Stands(n), Rank(pc) < Rank(pc')
  PROVE  Stands(n)'
<1>1. KindRank(n.kind) \in Int /\ Rank(pc) \in Int /\ Rank(pc') \in Int
  BY DEF KindRank, Rank
<1> QED BY <1>1 DEF Stands

\* Where nodes go depends on the command line only.
LEMMA SpotsKept ==
  ASSUME UNCHANGED <<cfg, ramSize>>
  PROVE  \A kind, i : Spots(kind, i)' = Spots(kind, i)
<1>1. \A i : Harts(i)' = Harts(i) /\ MemoryEntry(i)' = MemoryEntry(i)
  BY DEF Harts, MemoryEntry
<1>2. \A kind, i : TimerEntry(kind, i)' = TimerEntry(kind, i)
  BY DEF TimerEntry, MtimerEntry, Imsic
<1> QED BY <1>1, <1>2, Zenon DEF Spots

\* A node that stands does so when a loop over the sockets goes on.
LEMMA StandsInLoop ==
  ASSUME NEW n, Stands(n), UNCHANGED <<cfg, ramSize, pc>>, sock \in Int, sock' = sock - 1,
         cfg.sockets \in Nat
  PROVE  Stands(n)'
<1>1. \A kind, i : Spots(kind, i)' = Spots(kind, i)
  BY SpotsKept
<1>2. \A i \in Sockets : sock < i => sock' < i
  BY DEF Sockets
<1> QED BY <1>1, <1>2 DEF Stands, Sockets

\* create_fdt: one node of each kind.
LEMMA PathsCreateFdt ==
  ASSUME CreateFdt
  PROVE  PathsInv'
<1>1. tree' \subseteq {PciNode, FlashNode, FwCfgNode, PmuNode} /\ pc' = "plug"
  BY DEF CreateFdt
<1>2. /\ PciNode.kind = "pci" /\ FlashNode.kind = "flash" /\ FwCfgNode.kind = "fw_cfg"
      /\ PmuNode.kind = "pmu"
      /\ \A n \in {PciNode, FlashNode, FwCfgNode, PmuNode} : DOMAIN n = DOMAIN Node0
  BY MadeFirst DEF Made
<1>3. \A n \in tree' : Stands(n)'
  BY <1>1, <1>2 DEF Stands, KindRank, Rank
<1>4. PathsUnique'
  BY <1>1, <1>2 DEF PathsUnique
<1> QED BY <1>3, <1>4 DEF PathsInv

\* A virtio-iommu plugged: there is no other.
LEMMA PathsPlugIommu ==
  ASSUME LinksInv, PlugIommu
  PROVE  PathsInv'
<1> DEFINE pci == [PciNode EXCEPT !.refs = {Ref("iommu_map", ALLOC_PHANDLE)}]
           iommu == [Node0 EXCEPT !.kind = "iommu", !.phandle = ALLOC_PHANDLE]
<1>1. tree' \subseteq {FlashNode, FwCfgNode, PmuNode, pci, iommu} /\ pc' = "plug"
  BY DEF PlugIommu, LinksInv, boardVars
<1>2. /\ FlashNode.kind = "flash" /\ FwCfgNode.kind = "fw_cfg" /\ PmuNode.kind = "pmu"
      /\ \A n \in {FlashNode, FwCfgNode, PmuNode} : DOMAIN n = DOMAIN Node0
  BY MadeFirst DEF Made
<1>3. /\ pci.kind = "pci" /\ DOMAIN pci = DOMAIN Node0
      /\ iommu.kind = "iommu" /\ DOMAIN iommu = DOMAIN Node0
  BY MadeFirst, Zenon DEF Made
<1> HIDE DEF pci, iommu
<1>4. \A n \in tree' : Stands(n)'
  BY <1>1, <1>2, <1>3 DEF Stands, KindRank, Rank
<1>5. PathsUnique'
  BY <1>1, <1>2, <1>3 DEF PathsUnique
<1> QED BY <1>4, <1>5 DEF PathsInv

\* create_fdt_sockets, one socket: the hartids of sockets differ, and so does
\* where their memory and their timers are.
LEMMA PathsFdtSocket ==
  ASSUME PathsInv, CheckedInv, TypesInv, MemoryShared, FdtSocket
  PROVE  PathsInv'
<1>1. /\ pc = "fdt_sockets" /\ pc' = pc /\ cfg' = cfg /\ ramSize' = ramSize /\ sock' = sock - 1
      /\ cfg \in Configs /\ cfg.sockets \in Nat \ {0} /\ cfg.sockets <= 4 /\ sock \in Sockets
      /\ \A i \in Sockets : i \in {0, 1, 2, 3}
  <2>1. /\ pc = "fdt_sockets" /\ pc' = pc /\ cfg' = cfg /\ ramSize' = ramSize /\ sock' = sock - 1
        /\ sock >= 0
    BY DEF FdtSocket
  <2>2. /\ CounterInv /\ sock \in -1 .. cfg.sockets - 1
    BY <2>1 DEF TypesInv, PhandlesInv, CounterInv
  <2>3. /\ cfg \in Configs /\ cfg.sockets \in Nat \ {0} /\ cfg.sockets <= 4
        /\ \A i \in Sockets : i \in {0, 1, 2, 3}
    BY <2>1, <2>2, SocketNumbers
  <2> QED BY <2>1, <2>2, <2>3 DEF Sockets
<1>2. PICK first, count, from, ph, hs :
        /\ first = FirstHartid(sock) /\ count = Count /\ from = pos' /\ ph = intc'
        /\ hs = IntcFrom(from, ph)
  OBVIOUS
<1>3. /\ first \in Nat /\ count \in Nat \ {0} /\ Harts(sock) = first .. first + count - 1
  <2>1. SocketHasHartids(sock)
    BY <1>1 DEF CheckedInv
  <2> QED BY <1>1, <1>2, <2>1, HartsInRow DEF Count
<1> DEFINE cpu(k) == [Node0 EXCEPT !.kind = "cpu", !.at = first + k, !.phandle = CpuPhandle(k)]
           ctl(k) == [Node0 EXCEPT !.kind = "cpu-intc", !.at = first + k, !.phandle = IntcPhandle(k),
                                   !.cells = 1]
           core(k) == [Node0 EXCEPT !.kind = "core", !.at = first + k,
                                    !.refs = {Ref("cpu", CpuPhandle(k))}]
           timer(kind) == TimerNode(kind, hs)
           C == UNION { {cpu(k), ctl(k), core(k)} : k \in 0 .. count - 1 }
           N == C \cup {MemoryNode} \cup {timer(kind) : kind \in TimerKinds}
<1>4. tree' = tree \cup N
  <2>1. CpuNodes = C
    BY <1>2, Zenon DEF CpuNodes
  <2>2. tree' = tree \cup CpuNodes \cup {MemoryNode} \cup TimerNodes(hs)
    BY <1>2, Zenon DEF FdtSocket
  <2>3. TimerNodes(hs) = {timer(kind) : kind \in TimerKinds}
    BY MadeTimers, Zenon
  <2> HIDE DEF C, timer
  <2> QED BY <2>1, <2>2, <2>3
<1>5. ASSUME NEW k
      PROVE  /\ DOMAIN cpu(k) = DOMAIN Node0 /\ cpu(k).kind = "cpu" /\ cpu(k).at = first + k
             /\ DOMAIN ctl(k) = DOMAIN Node0 /\ ctl(k).kind = "cpu-intc" /\ ctl(k).at = first + k
             /\ DOMAIN core(k) = DOMAIN Node0 /\ core(k).kind = "core" /\ core(k).at = first + k
  BY DEF Node0
<1>6. ASSUME NEW kind
      PROVE  /\ DOMAIN timer(kind) = DOMAIN Node0 /\ timer(kind).kind = kind
             /\ timer(kind).at = TimerEntry(kind, sock).base
  <2>1. PICK entry : /\ entry = TimerEntry(kind, sock)
                     /\ Made(timer(kind), kind, entry.base, 0, <<entry>>,
                             Cells(hs, Count, TimerIrqs[kind]), {}, -1, {})
    BY MadeTimers
  <2> HIDE DEF timer
  <2> QED BY <2>1 DEF Made
<1>7. DOMAIN MemoryNode = DOMAIN Node0 /\ MemoryNode.kind = "memory" /\ MemoryNode.at = MemoryEntry(sock).base
  BY MadeMemory, Zenon DEF Made
<1>8. TimerKinds \subseteq {"clint", "mtimer", "mswi", "sswi"}
  BY DEF TimerKinds
<1> HIDE DEF cpu, ctl, core, timer
<1>9. ASSUME NEW n \in N
      PROVE  /\ DOMAIN n = DOMAIN Node0
             /\ n.kind \in {"cpu", "cpu-intc", "core", "memory", "clint", "mtimer", "mswi", "sswi"}
             /\ n.at \in Spots(n.kind, sock)
  <2>1. CASE n \in C
    <3>1. PICK k \in 0 .. count - 1 : n \in {cpu(k), ctl(k), core(k)}
      BY <2>1
    <3>2. first + k \in Harts(sock)
      BY <1>3
    <3> QED BY <1>5, <3>1, <3>2 DEF Spots
  <2>2. CASE n = MemoryNode
    BY <1>7, <2>2 DEF Spots
  <2>3. CASE n \in {timer(kind) : kind \in TimerKinds}
    BY <1>6, <1>8, <2>3 DEF Spots
  <2> QED BY <2>1, <2>2, <2>3
<1>10. ASSUME NEW m \in N, NEW n \in N, m.kind = n.kind, m.at = n.at PROVE m = n
  <2>1. CASE n \in C /\ m \in C
    <3>1. PICK k \in 0 .. count - 1 : n \in {cpu(k), ctl(k), core(k)}
      BY <2>1
    <3>2. PICK j \in 0 .. count - 1 : m \in {cpu(j), ctl(j), core(j)}
      BY <2>1
    <3>3. first + k = first + j
      BY <1>5, <1>10, <3>1, <3>2
    <3>4. k = j
      BY <1>3, <3>3
    <3> QED BY <1>5, <1>10, <3>1, <3>2, <3>4
  <2>2. ASSUME NEW x \in C PROVE x.kind \in {"cpu", "cpu-intc", "core"}
    BY <1>5
  <2> HIDE DEF C
  <2> QED BY <1>6, <1>7, <1>8, <1>10, <2>1, <2>2
<1> HIDE DEF N
<1>11. ASSUME NEW m \in tree, NEW n \in N PROVE m.kind # n.kind \/ m.at # n.at
  <2> SUFFICES ASSUME m.kind = n.kind, m.at = n.at PROVE FALSE
    OBVIOUS
  <2>1. KindRank(m.kind) = 11
    BY <1>9 DEF KindRank
  <2>2. Stands(m) /\ Rank(pc) = 11
    BY <1>1 DEF PathsInv, Rank
  <2>3. PICK i \in Sockets : sock < i /\ m.at \in Spots(m.kind, i)
    BY <2>1, <2>2 DEF Stands
  <2>4. i # sock
    BY <1>1, <2>3 DEF Sockets
  <2>5. n.at \in Spots(n.kind, sock) /\ n.at \in Spots(n.kind, i)
    BY <1>9, <2>3
  <2> QED BY <1>1, <2>4, <2>5, SpotsApart
<1>12. \A n \in tree : Stands(n)'
  BY <1>1, StandsInLoop DEF PathsInv, Sockets
<1>13. ASSUME NEW n \in N PROVE Stands(n)'
  <2>2. KindRank(n.kind) = 11 /\ Rank(pc') = 11
    BY <1>1, <1>9 DEF KindRank, Rank
  <2>3. \A i : i = sock => i \in Sockets' /\ sock' < i
    BY <1>1 DEF Sockets
  <2>4. PICK i : i = sock
    OBVIOUS
  <2>5. n.at \in Spots(n.kind, i)'
    BY <1>1, <1>9, <2>4, SpotsKept
  <2> QED BY <1>1, <1>9, <2>2, <2>3, <2>4, <2>5 DEF Stands
<1> QED BY <1>4, <1>10, <1>11, <1>12, <1>13, PathsAdded

\* create_fdt_imsic: one node for each level, at different addresses.
LEMMA PathsFdtImsic ==
  ASSUME PathsInv, FdtImsic
  PROVE  PathsInv'
<1>1. pc = "fdt_sockets" /\ pc' = "fdt_xplic" /\ Rank(pc) = 11 /\ Rank(pc') = 12
  BY DEF FdtImsic, Rank
<1>2. \A n \in tree : Stands(n)'
  BY <1>1, StandsOn DEF PathsInv
<1>3. CASE ~Imsic
  BY <1>2, <1>3 DEF FdtImsic, PathsInv, PathsUnique
<1>4. CASE Imsic
  <2>1. PICK pm, ps : pm = msi'[1] /\ ps = msi'[2]
    OBVIOUS
  <2> DEFINE m == ImsicNode(aislab_memmap.IMSIC_M, "M_EXT", pm, 0)
             s == ImsicNode(aislab_memmap.IMSIC_S, "S_EXT", ps, GuestBits)
             N == (IF Kvm THEN {} ELSE {m}) \cup {s}
  <2>2. tree' = tree \cup N
    <3>1. tree' = tree \cup (IF Kvm THEN {}
                             ELSE {ImsicNode(aislab_memmap.IMSIC_M, "M_EXT", msi'[1], 0)})
                       \cup {ImsicNode(aislab_memmap.IMSIC_S, "S_EXT", msi'[2], GuestBits)}
      BY <1>4, Zenon DEF FdtImsic
    <3> QED BY <2>1, <3>1
  <2>3. /\ DOMAIN m = DOMAIN Node0 /\ m.kind = "imsic" /\ m.at = aislab_memmap.IMSIC_M.base
        /\ DOMAIN s = DOMAIN Node0 /\ s.kind = "imsic" /\ s.at = aislab_memmap.IMSIC_S.base
    <3>1. PICK em, es, none, bits :
            em = aislab_memmap.IMSIC_M /\ es = aislab_memmap.IMSIC_S /\ none = 0 /\ bits = GuestBits
      OBVIOUS
    <3>2. Made(ImsicNode(em, "M_EXT", pm, none), "imsic", em.base, pm, ImsicRanges(em, none),
               Cells(intc, cfg.cpus, <<"M_EXT">>), {}, 0, {})
      BY MadeChips, Zenon
    <3>3. Made(ImsicNode(es, "S_EXT", ps, bits), "imsic", es.base, ps, ImsicRanges(es, bits),
               Cells(intc, cfg.cpus, <<"S_EXT">>), {}, 0, {})
      BY MadeChips, Zenon
    <3> QED BY <3>1, <3>2, <3>3, Zenon DEF Made
  <2> HIDE DEF m, s
  <2>4. ASSUME NEW x \in tree, NEW n \in N PROVE x.kind # n.kind
    <3> SUFFICES ASSUME x.kind = "imsic" PROVE FALSE
      BY <2>3
    <3>1. Stands(x) /\ KindRank(x.kind) = 11
      BY DEF PathsInv, KindRank
    <3>2. PICK i \in Sockets : x.at \in Spots(x.kind, i)
      BY <1>1, <3>1 DEF Stands
    <3> QED BY <3>2 DEF Spots
  <2>5. m.at # s.at
    BY <2>3, MapNumbers
  <2>6. \A x \in N : \A n \in N : x.kind = n.kind /\ x.at = n.at => x = n
    BY <2>5
  <2>7. \A n \in N : Stands(n)'
    BY <1>1, <2>3 DEF Stands, KindRank
  <2> HIDE DEF N
  <2> QED BY <1>2, <2>2, <2>4, <2>6, <2>7, PathsAdded
<1> QED BY <1>3, <1>4

\* create_fdt_socket_plic and create_fdt_socket_aplic, one socket: controllers of
\* different sockets, and of different levels, are apart.
LEMMA PathsFdtXplic ==
  ASSUME PathsInv, TypesInv, MemoryShared, FdtXplic
  PROVE  PathsInv'
<1>1. /\ pc = "fdt_xplic" /\ pc' = pc /\ cfg' = cfg /\ ramSize' = ramSize /\ sock' = sock - 1
      /\ cfg \in Configs /\ cfg.sockets \in Nat \ {0} /\ cfg.sockets <= 4 /\ sock \in Sockets
      /\ \A i \in Sockets : i \in {0, 1, 2, 3}
  <2>1. /\ pc = "fdt_xplic" /\ pc' = pc /\ cfg' = cfg /\ ramSize' = ramSize /\ sock' = sock - 1
        /\ sock >= 0
    BY DEF FdtXplic
  <2>2. /\ CounterInv /\ sock \in -1 .. cfg.sockets - 1
    BY <2>1 DEF TypesInv, PhandlesInv, CounterInv
  <2>3. /\ cfg \in Configs /\ cfg.sockets \in Nat \ {0} /\ cfg.sockets <= 4
        /\ \A i \in Sockets : i \in {0, 1, 2, 3}
    BY <2>1, <2>2, SocketNumbers
  <2> QED BY <2>1, <2>2, <2>3 DEF Sockets
<1>2. \A n \in tree : Stands(n)'
  BY <1>1, StandsInLoop DEF PathsInv, Sockets
<1>3. ASSUME NEW N, tree' = tree \cup N,
             \A n \in N : /\ DOMAIN n = DOMAIN Node0 /\ n.kind \in {"plic", "aplic", "platform_bus"}
                          /\ n.at \in Spots(n.kind, sock),
             \A x, n \in N : x.kind = n.kind /\ x.at = n.at => x = n
      PROVE  PathsInv'
  <2>1. ASSUME NEW x \in tree, NEW n \in N PROVE x.kind # n.kind \/ x.at # n.at
    <3> SUFFICES ASSUME x.kind = n.kind, x.at = n.at PROVE FALSE
      OBVIOUS
    <3>1. KindRank(x.kind) = 12
      BY <1>3 DEF KindRank
    <3>2. Stands(x) /\ Rank(pc) = 12
      BY <1>1 DEF PathsInv, Rank
    <3>3. PICK i \in Sockets : sock < i /\ x.at \in Spots(x.kind, i)
      BY <3>1, <3>2 DEF Stands
    <3>4. i # sock
      BY <1>1, <3>3 DEF Sockets
    <3>5. n.at \in Spots(n.kind, sock) /\ n.at \in Spots(n.kind, i)
      BY <1>3, <3>3
    <3> QED BY <1>1, <3>4, <3>5, SpotsApart
  <2>2. ASSUME NEW n \in N PROVE Stands(n)'
    <3>1. KindRank(n.kind) = 12 /\ Rank(pc') = 12
      BY <1>1, <1>3 DEF KindRank, Rank
    <3>2. \A i : i = sock => i \in Sockets' /\ sock' < i
      BY <1>1 DEF Sockets
    <3>3. PICK i : i = sock
      OBVIOUS
    <3>4. n.at \in Spots(n.kind, i)'
      BY <1>1, <1>3, <3>3, SpotsKept
    <3> QED BY <1>1, <1>3, <3>1, <3>2, <3>3, <3>4 DEF Stands
  <2> QED BY <1>2, <1>3, <2>1, <2>2, PathsAdded
<1>4. PICK ph, hs, harts, msim, msis :
        /\ ph = phandle /\ hs = IntcFrom(pos', intc) /\ msim = msi[1] /\ msis = msi[2]
        /\ harts = IF UseKvmAia THEN cfg.cpus ELSE Count
  OBVIOUS
<1>5. ASSUME NEW parent, NEW n \in PlatformBusNode(parent)
      PROVE  /\ DOMAIN n = DOMAIN Node0 /\ n.kind = "platform_bus"
             /\ n.at \in Spots("platform_bus", sock)
             /\ \A x \in PlatformBusNode(parent) : x = n
  <2>1. sock = 0 /\ DOMAIN n = DOMAIN Node0 /\ n.kind = "platform_bus"
        /\ n.at = aislab_memmap.PLATFORM_BUS.base
    BY MadeChips, Zenon DEF Made
  <2>2. \A x \in PlatformBusNode(parent) : x = n
    BY Zenon DEF PlatformBusNode
  <2> QED BY <2>1, <2>2 DEF Spots
<1>6. CASE cfg.aia = "none"
  <2> DEFINE plic == PlicNode(ph, hs)
             N == {plic} \cup PlatformBusNode(ph)
  <2>1. tree' = tree \cup N
    <3>1. tree' = tree \cup {plic} \cup PlatformBusNode(ph)
      BY <1>1, <1>4, <1>6, Zenon DEF FdtXplic
    <3> QED BY <3>1
  <2>2. /\ DOMAIN plic = DOMAIN Node0 /\ plic.kind = "plic"
        /\ plic.at = Nth(aislab_memmap.PLIC, sock).base
    <3>1. PICK e :
              /\ e = Nth(aislab_memmap.PLIC, sock)
              /\ Made(plic, "plic", e.base, ph, <<e>>,
                      Cells(hs, Count, IF Kvm THEN <<"S_EXT">> ELSE <<"M_EXT", "S_EXT">>), {}, 1, {})
      BY MadeChips
    <3> QED BY <3>1, Zenon DEF Made
  <2> HIDE DEF plic
  <2>3. plic.at \in Spots("plic", sock)
    BY <2>2 DEF Spots
  <2>4. \A x \in N : \A n \in N : x.kind = n.kind /\ x.at = n.at => x = n
    BY <1>5, <2>2
  <2>5. \A n \in N : /\ DOMAIN n = DOMAIN Node0 /\ n.kind \in {"plic", "aplic", "platform_bus"}
                     /\ n.at \in Spots(n.kind, sock)
    BY <1>5, <2>2, <2>3
  <2> HIDE DEF N
  <2> QED BY <1>3, <2>1, <2>4, <2>5
<1>7. CASE cfg.aia # "none"
  <2> DEFINE m == AplicNode(aislab_memmap.APLIC_M, "M_EXT", msim, ph, ph + 1, hs, harts)
             s == AplicNode(aislab_memmap.APLIC_S, "S_EXT", msis, ph + 1, 0, hs, harts)
             N == (IF Kvm THEN {} ELSE {m}) \cup ({s} \cup PlatformBusNode(ph + 1))
  <2>1. tree' = tree \cup N
    <3>1. tree' = tree \cup AplicNodes(hs, harts) \cup PlatformBusNode(ph + 1)
      BY <1>1, <1>4, <1>7, Zenon DEF FdtXplic
    <3>2. AplicNodes(hs, harts) = (IF Kvm THEN {} ELSE {m}) \cup {s}
      BY <1>4, Zenon DEF AplicNodes
    <3> QED BY <3>1, <3>2
  <2>2. /\ DOMAIN m = DOMAIN Node0 /\ m.kind = "aplic" /\ m.at = Nth(aislab_memmap.APLIC_M, sock).base
        /\ DOMAIN s = DOMAIN Node0 /\ s.kind = "aplic" /\ s.at = Nth(aislab_memmap.APLIC_S, sock).base
    <3>1. PICK child, none : child = ph + 1 /\ none = 0
      OBVIOUS
    <3>2. PICK e :
              /\ e = Nth(aislab_memmap.APLIC_M, sock)
              /\ Made(AplicNode(aislab_memmap.APLIC_M, "M_EXT", msim, ph, child, hs, harts),
                "aplic", e.base, ph, <<e>>, IF Imsic THEN <<>> ELSE Cells(hs, harts, <<"M_EXT">>), {}, 2,
                (IF Imsic THEN {Ref("msi_parent", msim)} ELSE {})
                  \cup (IF child = 0 THEN {} ELSE {Ref("children", child)}))
      BY MadeChips, Zenon
    <3>3. PICK f :
              /\ f = Nth(aislab_memmap.APLIC_S, sock)
              /\ Made(AplicNode(aislab_memmap.APLIC_S, "S_EXT", msis, child, none, hs, harts),
                "aplic", f.base, child, <<f>>, IF Imsic THEN <<>> ELSE Cells(hs, harts, <<"S_EXT">>), {}, 2,
                (IF Imsic THEN {Ref("msi_parent", msis)} ELSE {})
                  \cup (IF none = 0 THEN {} ELSE {Ref("children", none)}))
      BY MadeChips, Zenon
    <3> QED BY <3>1, <3>2, <3>3, Zenon DEF Made
  <2> HIDE DEF m, s
  <2>3. m.at \in Spots("aplic", sock) /\ s.at \in Spots("aplic", sock)
    BY <2>2 DEF Spots
  <2>4. m.at # s.at
    BY <1>1, <2>2, MapNumbers DEF Nth, At
  <2>5. \A x \in N : \A n \in N : x.kind = n.kind /\ x.at = n.at => x = n
    BY <1>5, <2>2, <2>4
  <2>6. \A n \in N : /\ DOMAIN n = DOMAIN Node0 /\ n.kind \in {"plic", "aplic", "platform_bus"}
                     /\ n.at \in Spots(n.kind, sock)
    BY <1>5, <2>2, <2>3
  <2> HIDE DEF N
  <2> QED BY <1>3, <2>1, <2>5, <2>6
<1> QED BY <1>6, <1>7

\* The other functions of finalize_fdt: each makes nodes of kinds of its own.
LEMMA PathsDevices ==
  ASSUME PathsInv, FdtVirtio \/ FdtReset \/ FdtUart \/ FdtRtc \/ FdtMmioBus
  PROVE  PathsInv'
<1>1. ASSUME NEW from, NEW to, NEW N, Fdt(from, to, N), Rank(from) < Rank(to),
             from \notin {"fdt_sockets", "fdt_xplic"},
             \A n \in N : DOMAIN n = DOMAIN Node0 /\ KindRank(n.kind) = Rank(from),
             \A x, n \in N : x.kind = n.kind /\ x.at = n.at => x = n
      PROVE  PathsInv'
  <2>1. tree' = tree \cup N /\ pc = from /\ pc' = to
    BY <1>1 DEF Fdt
  <2>2. \A n \in tree : Stands(n)'
    BY <1>1, <2>1, StandsOn DEF PathsInv
  <2>3. \A n \in N : Stands(n)'
    BY <1>1, <2>1 DEF Stands
  <2>4. ASSUME NEW x \in tree, NEW n \in N PROVE x.kind # n.kind
    <3>1. Stands(x)
      BY DEF PathsInv
    <3>2. KindRank(x.kind) < Rank(from) /\ Rank(from) \in Int
      BY <1>1, <2>1, <3>1 DEF Stands, Rank
    <3> QED BY <1>1, <3>2
  <2> QED BY <1>1, <2>1, <2>2, <2>3, <2>4, PathsAdded
<1>2. \A kind, at, d, line : LET n == DeviceNode(kind, at, d, line) IN
        DOMAIN n = DOMAIN Node0 /\ n.kind = kind /\ n.at = at.base
  BY MadeDevices DEF Made
<1>3. CASE FdtVirtio
  <2> DEFINE node(k) == DeviceNode("virtio", Nth(aislab_memmap.VIRTIO, k), "virtio", VIRTIO_IRQ + k)
             N == { node(k) : k \in 0 .. VIRTIO_COUNT - 1 }
  <2>1. Fdt("fdt_virtio", "fdt_pcie", N)
    BY <1>3, Zenon DEF FdtVirtio
  <2>2. ASSUME NEW k
        PROVE  /\ DOMAIN node(k) = DOMAIN Node0 /\ node(k).kind = "virtio"
               /\ node(k).at = Nth(aislab_memmap.VIRTIO, k).base
    <3>1. PICK at, line : at = Nth(aislab_memmap.VIRTIO, k) /\ line = VIRTIO_IRQ + k
      OBVIOUS
    <3>2. LET n == DeviceNode("virtio", at, "virtio", line) IN
            DOMAIN n = DOMAIN Node0 /\ n.kind = "virtio" /\ n.at = at.base
      BY <1>2
    <3> QED BY <3>1, <3>2, Zenon
  <2> HIDE DEF node
  <2>3. ASSUME NEW j \in 0 .. VIRTIO_COUNT - 1, NEW k \in 0 .. VIRTIO_COUNT - 1, node(j).at = node(k).at
        PROVE  j = k
    <3>1. Nth(aislab_memmap.VIRTIO, j).base = Nth(aislab_memmap.VIRTIO, k).base
      BY <2>2, <2>3
    <3> QED BY <3>1, MapNumbers DEF Nth, At, VIRTIO_COUNT
  <2>4. \A n \in N : DOMAIN n = DOMAIN Node0 /\ KindRank(n.kind) = Rank("fdt_virtio")
    BY <2>2 DEF KindRank, Rank
  <2>5. \A x \in N : \A n \in N : x.kind = n.kind /\ x.at = n.at => x = n
    BY <2>3
  <2>6. Rank("fdt_virtio") < Rank("fdt_pcie")
    BY DEF Rank
  <2> HIDE DEF N
  <2> QED BY <1>1, <2>1, <2>4, <2>5, <2>6
<1>4. CASE FdtReset
  <2>1. PICK ph : ph = phandle
    OBVIOUS
  <2> DEFINE test == [Node0 EXCEPT !.kind = "test", !.at = aislab_memmap.TEST.base,
                                   !.reg = <<aislab_memmap.TEST>>, !.phandle = ph]
             reset(kind) == [Node0 EXCEPT !.kind = kind, !.refs = {Ref("regmap", ph)}]
             N == {test, reset("reboot"), reset("poweroff")}
  <2>2. Fdt("fdt_reset", "fdt_uart", N)
    BY <1>4, <2>1, Zenon DEF FdtReset
  <2>3. /\ DOMAIN test = DOMAIN Node0 /\ test.kind = "test"
        /\ \A kind : DOMAIN reset(kind) = DOMAIN Node0 /\ reset(kind).kind = kind
    <3>1. Made(test, "test", aislab_memmap.TEST.base, ph, <<aislab_memmap.TEST>>, <<>>, {}, -1, {})
      BY MadeDevices, Zenon
    <3>2. \A kind : Made(reset(kind), kind, 0, 0, <<>>, <<>>, {}, -1, {Ref("regmap", ph)})
      BY MadeDevices, Zenon
    <3> QED BY <3>1, <3>2, Zenon DEF Made
  <2> HIDE DEF test, reset
  <2>4. \A n \in N : DOMAIN n = DOMAIN Node0 /\ KindRank(n.kind) = Rank("fdt_reset")
    BY <2>3 DEF KindRank, Rank
  <2>5. \A x \in N : \A n \in N : x.kind = n.kind /\ x.at = n.at => x = n
    BY <2>3
  <2>6. Rank("fdt_reset") < Rank("fdt_uart")
    BY DEF Rank
  <2> HIDE DEF N
  <2> QED BY <1>1, <2>2, <2>4, <2>5, <2>6
<1>5. ASSUME NEW from, NEW to, NEW kind, NEW at, NEW line,
             Fdt(from, to, {DeviceNode(kind, at, "mmio", line)}),
             <<from, to, kind>> \in { <<"fdt_uart", "fdt_rtc", "serial">>, <<"fdt_rtc", "fdt_mmio_bus", "rtc">>,
                                      <<"fdt_mmio_bus", "boot", "mmio_bus">> }
      PROVE  PathsInv'
  <2>1. PICK n : n = DeviceNode(kind, at, "mmio", line)
    OBVIOUS
  <2>2. DOMAIN n = DOMAIN Node0 /\ n.kind = kind
    BY <1>2, <2>1
  <2>3. /\ Rank(from) < Rank(to) /\ KindRank(kind) = Rank(from)
        /\ from \notin {"fdt_sockets", "fdt_xplic"}
    BY <1>5 DEF Rank, KindRank
  <2>4. Fdt(from, to, {n})
    BY <1>5, <2>1
  <2> QED BY <1>1, <2>2, <2>3, <2>4
<1>6. CASE FdtUart
  BY <1>5, <1>6 DEF FdtUart
<1>7. CASE FdtRtc
  BY <1>5, <1>7 DEF FdtRtc
<1>8. CASE FdtMmioBus
  BY <1>5, <1>8 DEF FdtMmioBus
<1> QED BY <1>3, <1>4, <1>6, <1>7, <1>8

\* What create_fdt_pcie makes of a node.
Completed(n) ==
  IF n.kind = "pci"
  THEN [n EXCEPT !.reg = <<aislab_memmap.PCIE_ECAM, aislab_memmap.PCIE_PIO,
                           aislab_memmap.PCIE_MMIO, aislab_high_pcie_memmap>>,
                 !.irqs = PcieIrqMap,
                 !.refs = @ \cup (IF Imsic THEN {Ref("msi_parent", MsiPcie)} ELSE {})]
  ELSE n

\* It leaves the path of the node, and adds at most one property that names another.
LEMMA NodeCompleted ==
  ASSUME NEW n, DOMAIN n = DOMAIN Node0
  PROVE  LET done == Completed(n) IN
         /\ DOMAIN done = DOMAIN Node0
         /\ done.kind = n.kind /\ done.at = n.at /\ done.phandle = n.phandle /\ done.ext = n.ext
         /\ \A ref \in done.refs : ref \in n.refs \/ (Imsic /\ ref = Ref("msi_parent", MsiPcie))
<1>1. {"kind", "at", "phandle", "ext", "refs", "reg", "irqs"} \subseteq DOMAIN n
  BY DEF Node0
<1>2. ASSUME NEW a, NEW b, NEW c
      PROVE  LET done == [n EXCEPT !.reg = a, !.irqs = b, !.refs = c] IN
             /\ DOMAIN done = DOMAIN n
             /\ done.kind = n.kind /\ done.at = n.at /\ done.phandle = n.phandle /\ done.ext = n.ext
             /\ done.refs = c
  BY <1>1
<1>3. CASE n.kind = "pci"
  <2>1. PICK a, b, more : /\ a = <<aislab_memmap.PCIE_ECAM, aislab_memmap.PCIE_PIO,
                                  aislab_memmap.PCIE_MMIO, aislab_high_pcie_memmap>>
                          /\ b = PcieIrqMap
                          /\ more = IF Imsic THEN {Ref("msi_parent", MsiPcie)} ELSE {}
    OBVIOUS
  <2>2. Completed(n) = [n EXCEPT !.reg = a, !.irqs = b, !.refs = n.refs \cup more]
    BY <1>3, <2>1, Zenon DEF Completed
  <2>3. \A ref \in n.refs \cup more : ref \in n.refs \/ (Imsic /\ ref = Ref("msi_parent", MsiPcie))
    BY <2>1
  <2> QED BY <1>2, <2>2, <2>3
<1>4. CASE n.kind # "pci"
  BY <1>4 DEF Completed
<1> QED BY <1>3, <1>4

\* create_fdt_pcie, the paths.
LEMMA PathsFdtPcie ==
  ASSUME PathsInv, FdtPcie
  PROVE  PathsInv'
<1>1. tree' = { Completed(n) : n \in tree } /\ pc = "fdt_pcie" /\ pc' = "fdt_reset"
  BY Zenon DEF FdtPcie, Completed
<1>2. \A n \in tree : /\ DOMAIN Completed(n) = DOMAIN Node0 /\ Stands(n)
                      /\ Completed(n).kind = n.kind /\ Completed(n).at = n.at
  BY NodeCompleted DEF PathsInv, Stands
<1>3. Rank(pc) < Rank(pc')
  BY <1>1 DEF Rank
<1>4. ASSUME NEW n \in tree, NEW m, m = Completed(n) PROVE Stands(m)'
  <2>1. Stands(n)'
    BY <1>2, <1>3, StandsOn
  <2> QED BY <1>2, <1>4, <2>1 DEF Stands
<1>5. \A m \in tree' : Stands(m)'
  BY <1>1, <1>4
<1>6. PathsUnique'
  BY <1>1, <1>2 DEF PathsInv, PathsUnique
<1> QED BY <1>5, <1>6 DEF PathsInv

\* create_fdt_pcie, the references.
LEMMA LinksFdtPcie ==
  ASSUME LinksInv, PathsInv, FdtPcie
  PROVE  LinksInv'
<1>1. tree' = { Completed(n) : n \in tree } /\ pc = "fdt_pcie" /\ pc' = "fdt_reset"
  BY Zenon DEF FdtPcie, Completed
<1>2. \A n \in tree : DOMAIN n = DOMAIN Node0
  BY DEF PathsInv, Stands
<1>3. ASSUME NEW ph, NEW kind, Known(ph, kind) PROVE Known(ph, kind)'
  <2>1. PICK m \in tree : m.phandle = ph /\ m.kind = kind
    BY <1>3 DEF Known
  <2>2. Completed(m) \in tree' /\ Completed(m).phandle = ph /\ Completed(m).kind = kind
    BY <1>1, <1>2, <2>1, NodeCompleted
  <2> QED BY <2>2 DEF Known
<1>4. ASSUME NEW n \in tree, NEW m, m = Completed(n) PROVE Resolved(m)'
  <2>1. Resolved(n)
    BY DEF LinksInv
  <2>2. \A ref \in m.refs : ref \in n.refs \/ (Imsic /\ ref = Ref("msi_parent", MsiPcie))
    BY <1>2, <1>4, NodeCompleted
  <2>3. m.ext = n.ext
    BY <1>2, <1>4, NodeCompleted
  <2>4. ASSUME NEW ref \in m.refs PROVE Known(ref.phandle, RefersTo[ref.prop])'
    <3>1. CASE ref \in n.refs
      BY <1>3, <2>1, <3>1 DEF Resolved
    <3>2. CASE Imsic /\ ref = Ref("msi_parent", MsiPcie)
      <4>1. Known(ref.phandle, "imsic")
        BY <1>1, <3>2 DEF LinksInv, Ref, MsiPcie
      <4>2. RefersTo[ref.prop] = "imsic"
        BY <3>2, RefersToNumbers DEF Ref
      <4> QED BY <1>3, <4>1, <4>2
    <3> QED BY <2>2, <3>1, <3>2
  <2>5. \A k \in DOMAIN m.ext : Known(m.ext[k][1], "cpu-intc")'
    BY <1>3, <2>1, <2>3 DEF Resolved
  <2> QED BY <2>4, <2>5 DEF Resolved
<1>5. \A m \in tree' : Resolved(m)'
  BY <1>1, <1>4
<1> QED BY <1>1, <1>5 DEF LinksInv

\* aislab_machine_init runs before there is a node.
LEMMA BoardRuns ==
  ASSUME BoardStep
  PROVE  /\ cfg' = cfg /\ Rank(pc) <= 8 /\ pc \notin {"fdt_sockets", "fdt_xplic"}
         /\ pc' \notin {"plug", "fdt_sockets", "fdt_xplic", "fdt_virtio", "fdt_pcie"}
<1> USE DEF Build, Rank
<1>1. CASE InitChecks \/ InitSocket \/ InitAia \/ MapMemory
  BY <1>1 DEF InitChecks, InitSocket, InitAia, MapMemory
<1>2. CASE CreateVirtio \/ GpexPcieInit \/ CreatePlatformBus
  BY <1>2 DEF CreateVirtio, GpexPcieInit, CreatePlatformBus
<1>3. CASE CreateSerialAndRtc \/ ListenMmioBus \/ CreateMmioBus \/ MapFlash
  BY <1>3 DEF CreateSerialAndRtc, ListenMmioBus, CreateMmioBus, MapFlash
<1> QED BY <1>1, <1>2, <1>3 DEF BoardStep

\* Nor do Finalize and the end of the loop make nodes.
LEMMA NoNodesMade ==
  ASSUME PathsInv, LinksInv, TypesInv, Finalize \/ FdtSocketsEnd
  PROVE  PathsInv' /\ LinksInv'
<1>1. tree' = tree /\ cfg' = cfg /\ Rank(pc) < Rank(pc') /\ msi' = msi /\ pc' # "plug"
  BY DEF Finalize, FdtSocketsEnd, Rank, treeVars
<1>2. PathsInv'
  BY <1>1, StandsOn DEF PathsInv, PathsUnique
<1>3. cfg.cpus \in Nat
  <2>1. cfg.cpus \in 1 .. AISLAB_CPUS_MAX
    BY ConfigAssumption DEF TypesInv, TypeOK
  <2> QED BY <2>1, SMTT(30) DEF AISLAB_CPUS_MAX
<1>4. pc' # "fdt_xplic" /\ (pc' = "fdt_sockets" => pos' = cfg.cpus) /\ pc' # "fdt_pcie"
      /\ (pc' = "fdt_virtio" => pc = "fdt_xplic")
  BY DEF Finalize, FdtSocketsEnd
<1>5. pc' = "fdt_sockets" => pos' .. cfg'.cpus - 1 = {}
  BY <1>1, <1>3, <1>4
<1>6. \A ph, kind : Known(ph, kind) => Known(ph, kind)'
  BY <1>1 DEF Known
<1>7. PICK msim, msis : msim = msi[1] /\ msis = msi[2]
  OBVIOUS
<1>8. Imsic /\ pc' = "fdt_virtio" => Known(msis, "imsic")' /\ (~Kvm => Known(msim, "imsic")')
  BY <1>4, <1>6, <1>7 DEF LinksInv
<1>9. \A n \in tree' : Resolved(n)'
  BY <1>1, <1>6 DEF LinksInv, Resolved
<1> QED BY <1>1, <1>2, <1>4, <1>5, <1>7, <1>8, <1>9 DEF LinksInv, Imsic, Kvm

TreeInv == MemoryShared /\ TypesInv /\ CheckedInv /\ LinksInv /\ PathsInv

\* A step leaves every node where it is and what it refers to known.
LEMMA TreeInvNext == TreeInv /\ [Next]_vars => TreeInv'
<1> SUFFICES ASSUME TreeInv, [Next]_vars PROVE TreeInv'
  OBVIOUS
<1>1. TypesInv' /\ CheckedInv'
  BY TypesNext, CheckedNext DEF TreeInv
<1>2. ASSUME LinksInv', PathsInv', cfg' = cfg PROVE TreeInv'
  BY <1>1, <1>2 DEF TreeInv, MemoryShared
<1>3. CASE BoardStep /\ UNCHANGED <<treeVars, boot>>
  <2>1. tree = {}
    <3> SUFFICES ASSUME NEW n \in tree PROVE FALSE
      OBVIOUS
    <3>1. Stands(n)
      BY DEF TreeInv, PathsInv
    <3>2. KindRank(n.kind) < Rank(pc)
      BY <1>3, <3>1, BoardRuns DEF Stands
    <3>3. KindRank(n.kind) \in Int /\ 9 <= KindRank(n.kind) /\ Rank(pc) \in Int
      BY DEF KindRank, Rank
    <3> QED BY <1>3, <3>2, <3>3, BoardRuns
  <2>2. tree' = {}
    BY <1>3, <2>1 DEF treeVars
  <2>3. LinksInv' /\ PathsInv'
    BY <1>3, <2>2, BoardRuns DEF LinksInv, PathsInv, PathsUnique
  <2>4. cfg' = cfg
    BY <1>3, BoardRuns
  <2> QED BY <1>2, <2>3, <2>4
<1>4. CASE TreeStep /\ UNCHANGED boot
  <2>1. cfg' = cfg
    BY <1>4, TreeRuns
  <2>2. CASE CreateFdt
    BY <1>2, <2>1, <2>2, LinksCreateFdt, PathsCreateFdt
  <2>3. CASE PlugIommu
    BY <1>2, <2>1, <2>3, LinksPlugIommu, PathsPlugIommu DEF TreeInv
  <2>4. CASE Finalize \/ FdtSocketsEnd
    BY <1>2, <2>1, <2>4, NoNodesMade DEF TreeInv
  <2>5. CASE FdtSocket
    BY <1>2, <2>1, <2>5, LinksFdtSocket, PathsFdtSocket DEF TreeInv
  <2>6. CASE FdtImsic
    BY <1>2, <2>1, <2>6, LinksFdtImsic, PathsFdtImsic DEF TreeInv
  <2>7. CASE FdtXplic
    BY <1>2, <2>1, <2>7, LinksFdtXplic, PathsFdtXplic DEF TreeInv
  <2>8. CASE FdtPcie
    BY <1>2, <2>1, <2>8, LinksFdtPcie, PathsFdtPcie DEF TreeInv
  <2>9. CASE FdtVirtio \/ FdtReset \/ FdtUart \/ FdtRtc \/ FdtMmioBus
    BY <1>2, <2>1, <2>9, LinksDevices, PathsDevices DEF TreeInv
  <2> QED BY <1>4, <2>2, <2>3, <2>4, <2>5, <2>6, <2>7, <2>8, <2>9 DEF TreeStep
<1>5. ASSUME UNCHANGED <<cfg, ramSize, sock, treeVars>>, pc' = pc \/ (pc = "boot" /\ pc' \in {"running", "exited"})
      PROVE  TreeInv'
  <2>1. \A kind, i : Spots(kind, i)' = Spots(kind, i)
    BY <1>5, SpotsKept
  <2>2. pc' \notin {"plug", "fdt_sockets", "fdt_xplic", "fdt_virtio", "fdt_pcie"} \/ pc' = pc
    BY <1>5
  <2>3. Rank(pc') = Rank(pc) /\ (pc' = pc \/ pc \notin {"fdt_sockets", "fdt_xplic"})
    BY <1>5 DEF Rank
  <2>4. PathsInv'
    BY <1>5, <2>1, <2>3 DEF TreeInv, PathsInv, PathsUnique, Stands, Sockets, treeVars
  <2>5. \A ph, kind : Known(ph, kind)' <=> Known(ph, kind)
    BY <1>5 DEF Known, treeVars
  <2>6. LinksInv'
    BY <1>5, <2>2, <2>5 DEF TreeInv, LinksInv, Resolved, Imsic, Kvm, treeVars, Known
  <2> QED BY <1>2, <1>5, <2>4, <2>6
<1>6. CASE Boot
  BY <1>5, <1>6 DEF Boot
<1>7. CASE ClientConnects /\ UNCHANGED <<treeVars, boot>>
  BY <1>5, <1>7 DEF ClientConnects
<1>8. CASE UNCHANGED vars
  BY <1>5, <1>8 DEF vars, boardVars
<1> QED BY <1>3, <1>4, <1>6, <1>7, <1>8 DEF Next, Step

\* Nothing is in the tree at first.
LEMMA TreeInvInit ==
  ASSUME \A c \in Configs : AISLAB_SOCKETS_MAX <= c.ram
  PROVE  Init => TreeInv
<1> SUFFICES ASSUME Init PROVE TreeInv
  OBVIOUS
<1>1. tree = {} /\ cfg \in Configs /\ pc = "checks" /\ sock = 0
  BY DEF Init, BoardInit, TreeInit
<1>2. LinksInv /\ PathsInv /\ MemoryShared
  BY <1>1 DEF LinksInv, PathsInv, PathsUnique, MemoryShared
<1>3. CheckedInv
  <2>1. \A i \in Sockets : ~(i < 0)
    BY <1>1, ConfigAssumption DEF Sockets
  <2> QED BY <1>1, <2>1 DEF CheckedInv
<1> QED BY <1>2, <1>3, TypesInit DEF TreeInv

\* Whatever sockets, harts and interrupt controllers a machine has, every phandle
\* a node of its tree refers to is that of a node of the kind that is meant: of the
\* interrupt controller of a hart the machine has, of an IMSIC of the level, of the
\* APLIC below, also where finalize_fdt draws phandles it gives to no node; and no
\* two nodes have one path, though the loops over the sockets compute them apart.
\* (create_fdt_sockets and what it calls, with intc_phandles and phandle_pos.)
THEOREM ReferencesLead ==
  ASSUME \A c \in Configs : AISLAB_SOCKETS_MAX <= c.ram
  PROVE  Spec => []ReferencesResolve
<1>1. TreeInv => ReferencesResolve
  BY DEF TreeInv, LinksInv, PathsInv, PathsUnique, ReferencesResolve, Resolved, Known
<1> QED BY <1>1, TreeInvInit, TreeInvNext, PTL DEF Spec
=============================================================================
