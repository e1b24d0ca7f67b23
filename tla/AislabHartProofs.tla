--------------------------- MODULE AislabHartProofs ---------------------------
(***************************************************************************)
(* The harts the device tree of the machine aislab lists for a timer or an *)
(* interrupt controller, against those the device drives.                  *)
(***************************************************************************)
EXTENDS AislabMatchProofs

\* The interrupt controller of hart h has this phandle.
IntcOf(ph, h) == ph # 0 /\ \E m \in tree : m.kind = "cpu-intc" /\ m.phandle = ph /\ m.at = h

\* A node lists these interrupts of every hart of socket i, one hart after the other.
ListsHarts(n, i, irqs) ==
  /\ DOMAIN n.ext = 1 .. HartCount(i) * Len(irqs)
  /\ \A p \in DOMAIN n.ext :
       /\ IntcOf(n.ext[p][1], FirstHartid(i) + (p - 1) \div Len(irqs))
       /\ n.ext[p][2] = irqs[((p - 1) % Len(irqs)) + 1]

\* The node at this place does.
Lister(entry, i, irqs) ==
  \E n \in tree : n.kind # "pci" /\ n.reg = <<entry>> /\ ListsHarts(n, i, irqs)

\* The contexts of a hart at a PLIC.
PlicIrqs == IF Kvm THEN <<"S_EXT">> ELSE <<"M_EXT", "S_EXT">>

\* Those of the interrupt controllers of socket i.
ChipListers(i) ==
  IF cfg.aia = "none" THEN Lister(Nth(aislab_memmap.PLIC, i), i, PlicIrqs)
  ELSE /\ Lister(Nth(aislab_memmap.APLIC_S, i), i, <<"S_EXT">>)
       /\ ~Kvm => Lister(Nth(aislab_memmap.APLIC_M, i), i, <<"M_EXT">>)

\* An IMSIC node lists the harts of socket i where the files of its group are,
\* and has index bits for them.
ListsGroup(n, i, irq) ==
  \A k \in 0 .. HartCount(i) - 1 :
    LET place == HartsUpTo(i - 1) + k + 1 IN
    /\ place \in DOMAIN n.ext
    /\ IntcOf(n.ext[place][1], FirstHartid(i) + k)
    /\ n.ext[place][2] = irq
    /\ cfg.sockets > 1 => k < BIT(n.bits.hart) /\ i < BIT(n.bits.group)

\* It has the ranges of one mode, and lists the harts of every socket.
ListsFiles(n, entry, irq, guests) ==
  LET bits == aislab_imsic_num_bits(guests + 1) IN
  /\ n.reg = ImsicRanges(entry, bits) /\ n.bits.guest = bits
  /\ \A i \in Sockets : ListsGroup(n, i, irq)

\* An IMSIC node is that of one of the two modes.
ImsicNodeListed(n) ==
  /\ Imsic
  /\ \/ ~Kvm /\ ListsFiles(n, aislab_memmap.IMSIC_M, "M_EXT", 0)
     \/ ListsFiles(n, aislab_memmap.IMSIC_S, "S_EXT", cfg.guests)

\* The phandles of the harts of socket i are at their places, and its timers refer to them.
SocketListed(i) ==
  /\ \A k \in 0 .. HartCount(i) - 1 : IntcOf(intc[HartsUpTo(i - 1) + k], FirstHartid(i) + k)
  /\ \A kind \in TimerKinds : Lister(TimerEntry(kind, i), i, TimerIrqs[kind])

\* What the loops over the sockets have left behind them.
HartsInv ==
  /\ TreeKnown => \A i \in Sockets :
       /\ Passed("fdt_sockets", i) => SocketListed(i)
       /\ Passed("fdt_xplic", i) /\ ~Imsic => ChipListers(i)
  /\ ~cfg.dtb => \A n \in tree : n.kind = "imsic" => ImsicNodeListed(n)

-----------------------------------------------------------------------------
(* Facts about them *)

\* A phandle leads to one hart.
LEMMA HartOfIntc ==
  ASSUME PhandlesUnique, NEW ph, NEW h, IntcOf(ph, h)
  PROVE  HartOf(ph) = h
<1>1. PICK m \in tree : m.kind = "cpu-intc" /\ m.phandle = ph /\ m.at = h /\ ph # 0
  BY DEF IntcOf
<1>2. { n \in tree : n.phandle = ph /\ n.kind = "cpu-intc" } = {m}
  BY <1>1 DEF PhandlesUnique
<1>3. PICK intcs : intcs = { n \in tree : n.phandle = ph /\ n.kind = "cpu-intc" }
  OBVIOUS
<1>4. HartOf(ph) = IF intcs = {} THEN -1 ELSE (CHOOSE n \in intcs : TRUE).at
  BY <1>3, SMT DEF HartOf
<1>5. intcs = {m} /\ intcs # {} /\ (CHOOSE n \in intcs : TRUE) = m
  BY <1>2, <1>3
<1> QED BY <1>1, <1>4, <1>5

\* Sockets take their places one after the other.
LEMMA PlacesGrow ==
  ASSUME cfg \in Configs, NEW i \in Int, NEW j \in Int, i <= j
  PROVE  HartsUpTo(i) <= HartsUpTo(j)
<1>1. cfg.cpus - 1 \in Int
  <2>1. cfg.cpus \in 1 .. AISLAB_CPUS_MAX
    BY ConfigAssumption
  <2> QED BY <2>1, SMTT(30) DEF AISLAB_CPUS_MAX
<1>2. UpTo(i) \subseteq UpTo(j)
  <2>1. \A h \in 0 .. cfg.cpus - 1 : cfg.node[h] \in Int
    BY ConfigAssumption
  <2> QED BY <2>1 DEF UpTo
<1>3. IsFiniteSet(UpTo(j))
  <2>1. IsFiniteSet(0 .. cfg.cpus - 1)
    <3>1. 0 \in Int
      OBVIOUS
    <3> QED BY <1>1, <3>1, FS_Interval, Zenon
  <2>2. UpTo(j) \subseteq 0 .. cfg.cpus - 1
    BY DEF UpTo
  <2> QED BY <2>1, <2>2, FS_Subset, ZenonT(30)
<1> QED BY <1>2, <1>3, FS_Subset, Zenon DEF HartsUpTo

\* As many bits as aislab_imsic_num_bits says are enough, for any socket.
LEMMA EnoughBits ==
  ASSUME NEW count \in 0 .. 512
  PROVE  aislab_imsic_num_bits(count) \in 0 .. 9 /\ count <= BIT(aislab_imsic_num_bits(count))
<1> DEFINE S == { n \in 0 .. 9 : BIT(n) >= count }
           Reaches(n) == BIT(n) >= count /\ \A m \in 0 .. n - 1 : BIT(m) < count
<1>1. \A n \in 0 .. 9 : BIT(n) \in Nat
  BY DEF BIT
<1>2. 9 \in S
  BY DEF BIT
<1>3. PICK n \in S : \A m \in S : n <= m
  <2>1. S \subseteq Nat /\ S # {}
    BY <1>2
  <2> HIDE DEF S
  <2> QED BY <2>1, LeastNat
<1>4. n \in 0 .. 9 /\ Reaches(n)
  <2>1. n \in 0 .. 9 /\ BIT(n) >= count
    BY <1>3
  <2>2. ASSUME NEW m \in 0 .. n - 1 PROVE BIT(m) < count
    <3>1. m \in 0 .. 9 /\ m < n
      BY <2>1, <2>2
    <3>2. m \notin S
      BY <1>3, <2>1, <3>1
    <3> QED BY <1>1, <3>1, <3>2
  <2> QED BY <2>1, <2>2
<1>5. aislab_imsic_num_bits(count) = CHOOSE k \in 0 .. 9 : Reaches(k)
  BY DEF aislab_imsic_num_bits
<1>6. Reaches(aislab_imsic_num_bits(count)) /\ aislab_imsic_num_bits(count) \in 0 .. 9
  <2> HIDE DEF Reaches
  <2> QED BY <1>4, <1>5, ZenonT(60)
<1> QED BY <1>1, <1>6

\* No socket has more harts than the largest one.
LEMMA LargestSocket ==
  ASSUME cfg \in Configs
  PROVE  MaxHarts \in 0 .. 512 /\ \A i \in Sockets : HartCount(i) <= MaxHarts
<1> DEFINE S == { HartCount(i) : i \in Sockets }
           T == { 512 - HartCount(i) : i \in Sockets }
<1>1. \A i : HartCount(i) \in 0 .. 512
  <2> SUFFICES ASSUME NEW i PROVE HartCount(i) \in 0 .. 512
    OBVIOUS
  <2> HIDE DEF S, T
  <2>1. cfg.cpus \in Nat /\ 1 <= cfg.cpus /\ cfg.cpus <= 512
    <3>1. cfg.cpus \in 1 .. AISLAB_CPUS_MAX
      BY ConfigAssumption
    <3> QED BY <3>1, SMTT(30) DEF AISLAB_CPUS_MAX
  <2>2. IsFiniteSet(0 .. cfg.cpus - 1) /\ Cardinality(0 .. cfg.cpus - 1) = cfg.cpus
    <3>1. 0 \in Int /\ cfg.cpus - 1 \in Int /\ ~(0 > cfg.cpus - 1) /\ cfg.cpus - 1 - 0 + 1 = cfg.cpus
      BY <2>1
    <3>2. /\ IsFiniteSet(0 .. cfg.cpus - 1)
          /\ Cardinality(0 .. cfg.cpus - 1) = IF 0 > cfg.cpus - 1 THEN 0 ELSE cfg.cpus - 1 - 0 + 1
      BY <3>1, FS_Interval, Zenon
    <3> QED BY <3>1, <3>2
  <2>3. Harts(i) \subseteq 0 .. cfg.cpus - 1
    BY DEF Harts
  <2>4. Cardinality(Harts(i)) <= cfg.cpus
    BY <2>2, <2>3, FS_Subset, ZenonT(30)
  <2>5. HartCount(i) \in Nat
    BY HartsCounted
  <2> QED BY <2>1, <2>4, <2>5 DEF HartCount
<1>2. 0 \in Sockets
  <2>1. cfg.sockets \in Nat \ {0}
    BY ConfigAssumption
  <2> QED BY <2>1 DEF Sockets
<1>3. PICK t \in T : \A u \in T : t <= u
  <2>1. T \subseteq Nat /\ T # {}
    BY <1>1, <1>2
  <2> HIDE DEF T
  <2> QED BY <2>1, LeastNat
<1>4. PICK l \in Sockets : t = 512 - HartCount(l)
  BY <1>3
<1>5. HartCount(l) \in S /\ \A i \in Sockets : HartCount(i) <= HartCount(l)
  <2>1. ASSUME NEW i \in Sockets PROVE HartCount(i) <= HartCount(l)
    <3>1. 512 - HartCount(l) <= 512 - HartCount(i)
      BY <1>3, <1>4
    <3>2. \A a, b \in 0 .. 512 : 512 - a <= 512 - b => b <= a
      OBVIOUS
    <3> QED BY <1>1, <3>1, <3>2, ZenonT(60)
  <2> QED BY <1>4, <2>1
<1>6. MaxHarts = CHOOSE m \in S : \A i \in Sockets : HartCount(i) <= m
  BY DEF MaxHarts
<1>7. MaxHarts \in S /\ \A i \in Sockets : HartCount(i) <= MaxHarts
  <2> HIDE DEF S
  <2> QED BY <1>5, <1>6, Zenon
<1> QED BY <1>1, <1>7

\* The command line decides how many harts a socket has, and which.
LEMMA SpreadKept ==
  ASSUME cfg' = cfg
  PROVE  /\ \A i : HartCount(i)' = HartCount(i) /\ FirstHartid(i)' = FirstHartid(i)
         /\ \A i : HartsUpTo(i)' = HartsUpTo(i)
         /\ \A entry, bits : ImsicRanges(entry, bits)' = ImsicRanges(entry, bits)
         /\ Sockets' = Sockets /\ Imsic' = Imsic /\ Kvm' = Kvm /\ PlicIrqs' = PlicIrqs
         /\ TimerKinds' = TimerKinds /\ \A kind, i : TimerEntry(kind, i)' = TimerEntry(kind, i)
<1>1. \A i : Harts(i)' = Harts(i) /\ UpTo(i)' = UpTo(i)
  BY DEF Harts, UpTo
<1>2. \A i : HartCount(i)' = HartCount(i) /\ FirstHartid(i)' = FirstHartid(i) /\ HartsUpTo(i)' = HartsUpTo(i)
  BY <1>1, Zenon DEF HartCount, FirstHartid, HartsUpTo
<1>3. \A entry, bits : ImsicRanges(entry, bits)' = ImsicRanges(entry, bits)
  BY <1>2, Zenon DEF ImsicRanges
<1>4. Sockets' = Sockets /\ Imsic' = Imsic /\ Kvm' = Kvm
  BY DEF Sockets, Imsic, Kvm
<1>5. PlicIrqs' = PlicIrqs /\ \A i : MtimerEntry(i)' = MtimerEntry(i)
  BY <1>4, Zenon DEF PlicIrqs, MtimerEntry
<1>6. TimerKinds' = TimerKinds
  BY <1>4 DEF TimerKinds, HaveAclint, AclintAllowed, Tcg
<1>7. \A kind, i : TimerEntry(kind, i)' = TimerEntry(kind, i)
  BY <1>5, Zenon DEF TimerEntry
<1> QED BY <1>2, <1>3, <1>4, <1>5, <1>6, <1>7

\* What a node says stays true as long as no node goes but the one of the PCI host.
LEMMA ListsKept ==
  ASSUME cfg' = cfg, \A n \in tree : n.kind # "pci" => n \in tree'
  PROVE  /\ \A ph, h : IntcOf(ph, h) => IntcOf(ph, h)'
         /\ \A entry, i, irqs : Lister(entry, i, irqs) => Lister(entry, i, irqs)'
         /\ \A i : ChipListers(i) => ChipListers(i)'
         /\ \A n : ImsicNodeListed(n) => ImsicNodeListed(n)'
<1>0. Imsic' = Imsic /\ Kvm' = Kvm /\ PlicIrqs' = PlicIrqs
  BY SpreadKept
<1>1. \A ph, h : IntcOf(ph, h) => IntcOf(ph, h)'
  BY DEF IntcOf
<1>2. ASSUME NEW n, NEW i, NEW irqs, ListsHarts(n, i, irqs) PROVE ListsHarts(n, i, irqs)'
  <2>1. PICK first, count : /\ first = FirstHartid(i) /\ first = FirstHartid(i)'
                            /\ count = HartCount(i) /\ count = HartCount(i)'
    BY SpreadKept, Zenon
  <2>2. DOMAIN n.ext = 1 .. count * Len(irqs)
    BY <1>2, <2>1, Zenon DEF ListsHarts
  <2>3. ASSUME NEW p \in DOMAIN n.ext
        PROVE  /\ IntcOf(n.ext[p][1], first + (p - 1) \div Len(irqs))'
               /\ n.ext[p][2] = irqs[((p - 1) % Len(irqs)) + 1]
    <3>1. PICK ph, h : ph = n.ext[p][1] /\ h = first + (p - 1) \div Len(irqs)
      OBVIOUS
    <3>2. IntcOf(ph, h) /\ n.ext[p][2] = irqs[((p - 1) % Len(irqs)) + 1]
      BY <1>2, <2>1, <3>1, Zenon DEF ListsHarts
    <3>3. IntcOf(ph, h)'
      BY <1>1, <3>2
    <3> QED BY <3>1, <3>2, <3>3, Zenon
  <2> QED BY <2>1, <2>2, <2>3, Zenon DEF ListsHarts
<1>3. ASSUME NEW entry, NEW i, NEW irqs, Lister(entry, i, irqs) PROVE Lister(entry, i, irqs)'
  <2>1. PICK n \in tree : n.kind # "pci" /\ n.reg = <<entry>> /\ ListsHarts(n, i, irqs)
    BY <1>3, Zenon DEF Lister
  <2>2. n \in tree' /\ ListsHarts(n, i, irqs)'
    BY <1>2, <2>1
  <2> QED BY <2>1, <2>2, Zenon DEF Lister
<1>4. ASSUME NEW i, ChipListers(i) PROVE ChipListers(i)'
  <2>1. PICK irqs : irqs = PlicIrqs /\ irqs = PlicIrqs'
    BY <1>0
  <2>2. CASE cfg.aia = "none"
    <3>1. Lister(Nth(aislab_memmap.PLIC, i), i, irqs)'
      BY <1>3, <1>4, <2>1, <2>2, Zenon DEF ChipListers
    <3>2. cfg'.aia = "none"
      BY <2>2
    <3> QED BY <2>1, <3>1, <3>2, Zenon DEF ChipListers
  <2>3. CASE cfg.aia # "none"
    <3>1. Lister(Nth(aislab_memmap.APLIC_S, i), i, <<"S_EXT">>)'
      BY <1>3, <1>4, <2>3, Zenon DEF ChipListers
    <3>2. ~Kvm => Lister(Nth(aislab_memmap.APLIC_M, i), i, <<"M_EXT">>)'
      BY <1>3, <1>4, <2>3, Zenon DEF ChipListers
    <3>3. cfg'.aia # "none"
      BY <2>3
    <3> QED BY <1>0, <3>1, <3>2, <3>3, Zenon DEF ChipListers
  <2> QED BY <2>2, <2>3
<1>5. ASSUME NEW n, NEW i, NEW irq, ListsGroup(n, i, irq) PROVE ListsGroup(n, i, irq)'
  <2>1. PICK first, count, from : /\ first = FirstHartid(i) /\ first = FirstHartid(i)'
                                  /\ count = HartCount(i) /\ count = HartCount(i)'
                                  /\ from = HartsUpTo(i - 1) /\ from = HartsUpTo(i - 1)'
    BY SpreadKept, Zenon
  <2>2. ASSUME NEW k \in 0 .. count - 1
        PROVE  LET place == from + k + 1 IN
               /\ place \in DOMAIN n.ext
               /\ IntcOf(n.ext[place][1], first + k)'
               /\ n.ext[place][2] = irq
               /\ cfg.sockets > 1 => k < BIT(n.bits.hart) /\ i < BIT(n.bits.group)
    <3>1. PICK place, ph, h : place = from + k + 1 /\ ph = n.ext[place][1] /\ h = first + k
      OBVIOUS
    <3>2. /\ place \in DOMAIN n.ext /\ IntcOf(ph, h) /\ n.ext[place][2] = irq
          /\ cfg.sockets > 1 => k < BIT(n.bits.hart) /\ i < BIT(n.bits.group)
      BY <1>5, <2>1, <2>2, <3>1, Zenon DEF ListsGroup
    <3>3. IntcOf(ph, h)'
      BY <1>1, <3>2
    <3> QED BY <3>1, <3>2, <3>3, Zenon
  <2> QED BY <2>1, <2>2, Zenon DEF ListsGroup
<1>6. \A n, entry, irq, guests : ListsFiles(n, entry, irq, guests) => ListsFiles(n, entry, irq, guests)'
  BY <1>5, SpreadKept, Zenon DEF ListsFiles
<1>7. ASSUME NEW n, ImsicNodeListed(n) PROVE ImsicNodeListed(n)'
  <2>1. PICK guests : guests = cfg.guests /\ guests = cfg'.guests
    OBVIOUS
  <2>2. Imsic /\ (\/ ~Kvm /\ ListsFiles(n, aislab_memmap.IMSIC_M, "M_EXT", 0)
                  \/ ListsFiles(n, aislab_memmap.IMSIC_S, "S_EXT", guests))
    BY <1>7, <2>1, Zenon DEF ImsicNodeListed
  <2>3. Imsic' /\ (\/ ~Kvm' /\ ListsFiles(n, aislab_memmap.IMSIC_M, "M_EXT", 0)'
                   \/ ListsFiles(n, aislab_memmap.IMSIC_S, "S_EXT", guests)')
    <3>1. ListsFiles(n, aislab_memmap.IMSIC_M, "M_EXT", 0) => ListsFiles(n, aislab_memmap.IMSIC_M, "M_EXT", 0)'
      BY <1>6, Zenon
    <3>2. ListsFiles(n, aislab_memmap.IMSIC_S, "S_EXT", guests) => ListsFiles(n, aislab_memmap.IMSIC_S, "S_EXT", guests)'
      BY <1>6, Zenon
    <3> QED BY <1>0, <2>2, <3>1, <3>2, Zenon
  <2> QED BY <2>1, <2>3, Zenon DEF ImsicNodeListed
<1> QED BY <1>1, <1>3, <1>4, <1>7

\* A step that takes no node away but that of the PCI host, and whose own
\* nodes list what they should.
LEMMA HartsOn ==
  ASSUME HartsInv, UNCHANGED <<cfg, intc>>,
         \A n \in tree : n.kind # "pci" => n \in tree',
         ~cfg.dtb => \A n \in tree' : n.kind = "imsic" => n \in tree \/ ImsicNodeListed(n),
         \A i \in Sockets : TreeKnown' /\ Passed("fdt_sockets", i)' => TreeKnown /\ Passed("fdt_sockets", i),
         \A i \in Sockets : TreeKnown' /\ Passed("fdt_xplic", i)' /\ ~Imsic =>
           ChipListers(i)' \/ (TreeKnown /\ Passed("fdt_xplic", i))
  PROVE  HartsInv'
<1>1. ASSUME NEW i, SocketListed(i) PROVE SocketListed(i)'
  <2>1. PICK first, count, from, ph : /\ first = FirstHartid(i) /\ first = FirstHartid(i)'
                                      /\ count = HartCount(i) /\ count = HartCount(i)'
                                      /\ from = HartsUpTo(i - 1) /\ from = HartsUpTo(i - 1)'
                                      /\ ph = intc /\ ph = intc'
    BY SpreadKept, Zenon
  <2>2. \A k \in 0 .. count - 1 : IntcOf(ph[from + k], first + k)
    BY <1>1, <2>1, Zenon DEF SocketListed
  <2>3. \A k \in 0 .. count - 1 : IntcOf(ph[from + k], first + k)'
    BY <2>2, ListsKept, Zenon
  <2>4. \A kind \in TimerKinds : \E entry : /\ entry = TimerEntry(kind, i) /\ entry = TimerEntry(kind, i)'
                                          /\ Lister(entry, i, TimerIrqs[kind])'
    BY <1>1, ListsKept, SpreadKept, Zenon DEF SocketListed
  <2>5. \A kind \in TimerKinds : Lister(TimerEntry(kind, i), i, TimerIrqs[kind])'
    BY <2>4, Zenon
  <2>6. TimerKinds' = TimerKinds
    BY SpreadKept
  <2> QED BY <2>1, <2>3, <2>5, <2>6, Zenon DEF SocketListed
<1>2. Sockets' = Sockets /\ Imsic' = Imsic
  BY SpreadKept
<1>3. ASSUME NEW i \in Sockets, TreeKnown'
      PROVE  /\ Passed("fdt_sockets", i)' => SocketListed(i)'
             /\ Passed("fdt_xplic", i)' /\ ~Imsic => ChipListers(i)'
  <2>1. Passed("fdt_sockets", i)' => SocketListed(i)'
    BY <1>1, <1>3 DEF HartsInv
  <2>2. Passed("fdt_xplic", i)' /\ ~Imsic => ChipListers(i)'
    BY <1>3, ListsKept DEF HartsInv
  <2> QED BY <2>1, <2>2
<1>4. ASSUME ~cfg.dtb, NEW n \in tree', n.kind = "imsic" PROVE ImsicNodeListed(n)'
  BY <1>4, ListsKept DEF HartsInv
<1> QED BY <1>2, <1>3, <1>4 DEF HartsInv

-----------------------------------------------------------------------------
(* The functions of finalize_fdt *)

\* What a node lists, entry by entry: hart by hart, the phandles from position p on.
Entries(ext, p, count, phandles, irqs) ==
  /\ DOMAIN ext = 1 .. count * Len(irqs)
  /\ \A k \in DOMAIN ext : \E j \in 0 .. count - 1 :
       /\ j = (k - 1) \div Len(irqs)
       /\ ext[k][1] = phandles[p + j] /\ ext[k][2] = irqs[((k - 1) % Len(irqs)) + 1]

\* That is what Cells makes of the rest of the array.
LEMMA CellsAre ==
  ASSUME cfg.cpus \in Nat, NEW p \in Nat, NEW count \in Nat, p + count <= cfg.cpus,
         NEW phandles, NEW irqs, Len(irqs) \in {1, 2}
  PROVE  Entries(Cells(IntcFrom(p, phandles), count, irqs), p, count, phandles, irqs)
<1>1. PICK hs, ext : hs = IntcFrom(p, phandles) /\ ext = Cells(hs, count, irqs)
  OBVIOUS
<1>2. ext = [k \in 1 .. count * Len(irqs) |->
               <<hs[(k - 1) \div Len(irqs)], irqs[((k - 1) % Len(irqs)) + 1]>>]
  BY <1>1, Zenon DEF Cells
<1>3. ASSUME NEW k \in 1 .. count * Len(irqs)
      PROVE  \E j \in 0 .. count - 1 :
               /\ j = (k - 1) \div Len(irqs)
               /\ ext[k][1] = phandles[p + j] /\ ext[k][2] = irqs[((k - 1) % Len(irqs)) + 1]
  <2>1. PICK j \in 0 .. count - 1 : j = (k - 1) \div Len(irqs)
    <3>1. CASE Len(irqs) = 1
      BY <1>3, <3>1
    <3>2. CASE Len(irqs) = 2
      BY <1>3, <3>2
    <3> QED BY <3>1, <3>2
  <2>2. ext[k][1] = hs[j] /\ ext[k][2] = irqs[((k - 1) % Len(irqs)) + 1]
    BY <1>2, <2>1
  <2>3. hs[j] = phandles[p + j]
    <3>1. j \in Int /\ 0 <= j /\ j <= count - 1
      OBVIOUS
    <3>2. j \in 0 .. cfg.cpus - 1 - p
      BY <3>1
    <3> QED BY <1>1, <3>2 DEF IntcFrom
  <2> QED BY <2>1, <2>2, <2>3
<1>4. DOMAIN ext = 1 .. count * Len(irqs)
  BY <1>2
<1> QED BY <1>1, <1>3, <1>4, Zenon DEF Entries

\* A node that lists the harts at the places of a socket.
LEMMA CellsServe ==
  ASSUME cfg \in Configs, cfg' = cfg, NEW i \in Sockets, NEW irqs, Len(irqs) \in {1, 2}, NEW phandles, NEW n,
         NEW first, NEW count, NEW from,
         first = FirstHartid(i), count = HartCount(i), from = HartsUpTo(i - 1),
         n.ext = Cells(IntcFrom(from, phandles), count, irqs),
         \A k \in 0 .. count - 1 : IntcOf(phandles[from + k], first + k)'
  PROVE  ListsHarts(n, i, irqs)'
<1>1. first = FirstHartid(i)' /\ count = HartCount(i)'
  BY SpreadKept, Zenon
<1>2. cfg.cpus \in Nat /\ from \in Nat /\ count \in Nat /\ from + count <= cfg.cpus
  <2>1. cfg.cpus \in Nat /\ i \in Int
    <3>1. cfg.cpus \in 1 .. AISLAB_CPUS_MAX
      BY ConfigAssumption
    <3> QED BY <3>1, SMTT(30) DEF AISLAB_CPUS_MAX, Sockets
  <2>2. HartsUpTo(i) \in 0 .. cfg.cpus /\ from \in 0 .. cfg.cpus /\ count \in Nat /\ HartsUpTo(i) = from + count
    BY <2>1, HartsCounted
  <2> QED BY <2>1, <2>2
<1>4. Entries(n.ext, from, count, phandles, irqs)
  <2>1. Entries(Cells(IntcFrom(from, phandles), count, irqs), from, count, phandles, irqs)
    BY <1>2, CellsAre
  <2> QED BY <2>1
<1>5. ASSUME NEW k \in DOMAIN n.ext
      PROVE  /\ IntcOf(n.ext[k][1], first + (k - 1) \div Len(irqs))'
             /\ n.ext[k][2] = irqs[((k - 1) % Len(irqs)) + 1]
  <2>1. PICK j \in 0 .. count - 1 :
           /\ j = (k - 1) \div Len(irqs)
           /\ n.ext[k][1] = phandles[from + j] /\ n.ext[k][2] = irqs[((k - 1) % Len(irqs)) + 1]
    BY <1>4, Zenon DEF Entries
  <2>2. PICK ph, h : ph = phandles[from + j] /\ h = first + j
    OBVIOUS
  <2>3. IntcOf(ph, h)'
    BY <1>1, <2>2
  <2> QED BY <2>1, <2>2, <2>3, Zenon
<1>6. DOMAIN n.ext = 1 .. count * Len(irqs)
  BY <1>4, Zenon DEF Entries
<1> QED BY <1>1, <1>5, <1>6, Zenon DEF ListsHarts

\* create_fdt_sockets, one socket: its harts have their phandles at their
\* places, in their order, and its timers list them; the other sockets keep theirs.
LEMMA HartsFdtSocket ==
  ASSUME HartsInv, TypesInv, FdtSocket
  PROVE  HartsInv'
<1>1. /\ pc = "fdt_sockets" /\ pc' = pc /\ cfg' = cfg /\ sock \in Int /\ cfg \in Configs /\ sock' = sock - 1
      /\ pos = HartsUpTo(sock) /\ pos' = pos - Count /\ sock \in Sockets /\ phandle \in Nat
  <2>1. /\ pc = "fdt_sockets" /\ pc' = pc /\ cfg' = cfg /\ sock \in Int /\ cfg \in Configs /\ sock' = sock - 1
        /\ pos = HartsUpTo(sock) /\ pos' = pos - Count /\ sock >= 0 /\ phandle \in Nat
    BY DEF FdtSocket, TypesInv, TypeOK, PosInv
  <2>2. sock \in -1 .. cfg.sockets - 1
    BY <2>1 DEF TypesInv, PhandlesInv, CounterInv
  <2> QED BY <2>1, <2>2 DEF Sockets
<1>2. PICK i, ph, hs, from, next, count, first :
        /\ i = sock /\ ph = intc' /\ from = pos' /\ next = phandle /\ hs = IntcFrom(from, ph)
        /\ count = HartCount(i) /\ first = FirstHartid(i)
  OBVIOUS
<1>3. Count = count /\ \A k : IntcPhandle(k) = next + 2 * (count - 1 - k) + 1
  BY <1>2 DEF Count, IntcPhandle, CpuPhandle
<1>4. /\ i \in Int /\ i \in Sockets /\ from = HartsUpTo(i - 1) /\ from \in Nat /\ count \in Nat /\ next \in Nat
      /\ from + count = HartsUpTo(i) /\ from + count <= cfg.cpus /\ cfg.cpus \in Nat
      /\ DOMAIN intc = 0 .. cfg.cpus - 1
  <2>1. cfg.cpus \in Nat
    <3>1. cfg.cpus \in 1 .. AISLAB_CPUS_MAX
      BY <1>1, ConfigAssumption
    <3> QED BY <3>1, SMTT(30) DEF AISLAB_CPUS_MAX
  <2>2. /\ HartsUpTo(i) = HartsUpTo(i - 1) + HartCount(i)
        /\ HartsUpTo(i - 1) \in 0 .. cfg.cpus /\ HartsUpTo(i) \in 0 .. cfg.cpus /\ HartCount(i) \in Nat
    BY <1>1, <1>2, HartsCounted
  <2>3. DOMAIN intc = 0 .. cfg.cpus - 1
    BY DEF TypesInv, TypeOK
  <2> QED BY <1>1, <1>2, <1>3, <2>1, <2>2, <2>3
<1>0. from \in Nat /\ count \in Nat /\ from + count <= cfg.cpus /\ cfg.cpus \in Nat
  BY <1>4
<1> DEFINE ctl(k) == [Node0 EXCEPT !.kind = "cpu-intc", !.at = first + k, !.phandle = IntcPhandle(k), !.cells = 1]
           cpu(k) == [Node0 EXCEPT !.kind = "cpu", !.at = first + k, !.phandle = CpuPhandle(k)]
           core(k) == [Node0 EXCEPT !.kind = "core", !.at = first + k, !.refs = {Ref("cpu", CpuPhandle(k))}]
           N == CpuNodes \cup ({MemoryNode} \cup TimerNodes(hs))
<1>5. tree' = tree \cup N
  <2>1. tree' = tree \cup CpuNodes \cup {MemoryNode} \cup TimerNodes(hs)
    BY <1>2, Zenon DEF FdtSocket
  <2> QED BY <2>1
<1>6. CpuNodes = UNION { {cpu(k), ctl(k), core(k)} : k \in 0 .. count - 1 }
  <2>1. CpuNodes = UNION { {cpu(k), ctl(k), core(k)} : k \in 0 .. Count - 1 }
    BY <1>2, Zenon DEF CpuNodes
  <2> HIDE DEF cpu, ctl, core
  <2> QED BY <1>3, <2>1
<1>7. \A k : /\ ctl(k).kind = "cpu-intc" /\ ctl(k).phandle = IntcPhandle(k) /\ ctl(k).at = first + k
             /\ cpu(k).kind = "cpu" /\ core(k).kind = "core"
  BY DEF Node0
<1> HIDE DEF cpu, ctl, core
<1>8. ASSUME NEW k \in 0 .. count - 1 PROVE IntcOf(ph[from + k], first + k)'
  <2>1. PICK c, d : c = ctl(k) /\ d = ph[from + k]
    OBVIOUS
  <2>2. c \in tree'
    BY <1>5, <1>6, <2>1
  <2>3. d = IntcPhandle(k)
    <3>0. k \in Int /\ 0 <= k /\ k <= count - 1
      BY <1>4
    <3>1. from + k \in 0 .. cfg.cpus - 1 /\ from + k \in from .. from + count - 1 /\ from + k - from = k
      BY <1>0, <3>0
    <3>2. ph = [p \in DOMAIN intc |->
                  IF p \in from .. from + Count - 1 THEN IntcPhandle(p - from) ELSE intc[p]]
      BY <1>2, Zenon DEF FdtSocket
    <3>3. ph[from + k] = IntcPhandle(from + k - from)
      BY <1>3, <1>4, <3>1, <3>2
    <3> QED BY <2>1, <3>1, <3>3
  <2>4. d # 0
    <3>1. IntcPhandle(k) = next + 2 * (count - 1 - k) + 1
      BY <1>3
    <3> QED BY <1>4, <2>3, <3>1
  <2>5. c.kind = "cpu-intc" /\ c.phandle = d /\ c.at = first + k
    BY <1>7, <2>1, <2>3
  <2> QED BY <2>1, <2>2, <2>4, <2>5 DEF IntcOf
<1>9. ASSUME NEW kind \in TimerKinds
      PROVE  Lister(TimerEntry(kind, i), i, TimerIrqs[kind])'
  <2>1. PICK n, entry, irqs : n = TimerNode(kind, hs) /\ entry = TimerEntry(kind, i) /\ irqs = TimerIrqs[kind]
    OBVIOUS
  <2>2. entry = TimerEntry(kind, i)' /\ irqs = TimerIrqs[kind]'
    BY <1>1, <2>1, SpreadKept, Zenon DEF TimerIrqs
  <2>3. Made(n, kind, entry.base, 0, <<entry>>, Cells(hs, Count, irqs), {}, -1, {})
    BY <1>2, <2>1, MadeTimers, Zenon
  <2>4. n.kind = kind /\ n.reg = <<entry>> /\ n.ext = Cells(hs, count, irqs)
    BY <1>3, <2>3, Zenon DEF Made
  <2>5. n \in tree'
    <3>1. n \in TimerNodes(hs)
      BY <2>1, MadeTimers, Zenon
    <3> QED BY <1>5, <3>1
  <2>6. kind \in {"clint", "mtimer", "mswi", "sswi"}
    BY DEF TimerKinds
  <2>7. Len(irqs) \in {1, 2} /\ kind # "pci"
    BY <2>1, <2>6 DEF TimerIrqs
  <2>8. n.ext = Cells(IntcFrom(from, ph), count, irqs)
    BY <1>2, <2>4
  <2>9. \A k \in 0 .. count - 1 : IntcOf(ph[from + k], first + k)'
    BY <1>8
  <2>10. ListsHarts(n, i, irqs)'
    <3>1. cfg \in Configs /\ cfg' = cfg /\ i \in Sockets /\ first = FirstHartid(i) /\ count = HartCount(i)
          /\ from = HartsUpTo(i - 1) /\ Len(irqs) \in {1, 2}
      BY <1>1, <1>2, <1>4, <2>7
    <3> QED BY <3>1, <2>8, <2>9, CellsServe
  <2>11. Lister(entry, i, irqs)'
    BY <2>4, <2>5, <2>7, <2>10, Zenon DEF Lister
  <2> QED BY <2>2, <2>11, Zenon
<1>10. SocketListed(i)'
  <2>1. TimerKinds' = TimerKinds /\ from = HartsUpTo(i - 1)' /\ count = HartCount(i)' /\ first = FirstHartid(i)'
    BY <1>1, <1>2, <1>4, SpreadKept
  <2>2. ph = intc'
    BY <1>2
  <2> QED BY <1>8, <1>9, <2>1, <2>2, Zenon DEF SocketListed
<1>11. \A n \in tree : n \in tree'
  BY <1>5
<1>12. ASSUME NEW j \in Sockets, i < j, SocketListed(j) PROVE SocketListed(j)'
  <2>1. PICK at, of, here : /\ at = HartsUpTo(j - 1) /\ at = HartsUpTo(j - 1)'
                            /\ of = HartCount(j) /\ of = HartCount(j)'
                            /\ here = FirstHartid(j) /\ here = FirstHartid(j)'
    BY <1>1, SpreadKept, Zenon
  <2>2. at \in Nat /\ of \in Nat /\ from + count <= at /\ at + of <= cfg.cpus
    <3>1. j \in Int /\ j - 1 \in Int /\ i <= j - 1
      BY <1>4, <1>12 DEF Sockets
    <3>2. HartsUpTo(i) <= HartsUpTo(j - 1)
      BY <1>1, <1>4, <3>1, PlacesGrow
    <3>3. /\ HartsUpTo(j) = at + of /\ at \in 0 .. cfg.cpus /\ of \in Nat /\ HartsUpTo(j) \in 0 .. cfg.cpus
      BY <1>1, <2>1, <3>1, HartsCounted
    <3> QED BY <1>4, <2>1, <3>2, <3>3
  <2>3. ASSUME NEW k \in 0 .. of - 1 PROVE IntcOf(ph[at + k], here + k)'
    <3>1. ph[at + k] = intc[at + k]
      <4>0. k \in Int /\ 0 <= k /\ k <= of - 1
        BY <2>2
      <4>1. at + k \in 0 .. cfg.cpus - 1 /\ at + k \notin from .. from + count - 1
        BY <1>0, <2>2, <4>0
      <4>2. ph = [p \in DOMAIN intc |->
                    IF p \in from .. from + Count - 1 THEN IntcPhandle(p - from) ELSE intc[p]]
        BY <1>2, Zenon DEF FdtSocket
      <4> QED BY <1>3, <1>4, <4>1, <4>2
    <3>2. PICK d : d = ph[at + k]
      OBVIOUS
    <3>3. IntcOf(d, here + k)
      BY <1>12, <2>1, <2>3, <3>1, <3>2, Zenon DEF SocketListed
    <3>4. IntcOf(d, here + k)'
      BY <1>1, <1>11, <3>3, ListsKept
    <3> QED BY <3>2, <3>4
  <2>4. ASSUME NEW kind \in TimerKinds PROVE Lister(TimerEntry(kind, j), j, TimerIrqs[kind])'
    <3>1. PICK entry, irqs : /\ entry = TimerEntry(kind, j) /\ entry = TimerEntry(kind, j)'
                             /\ irqs = TimerIrqs[kind] /\ irqs = TimerIrqs[kind]'
      BY <1>1, SpreadKept, Zenon DEF TimerIrqs
    <3>2. Lister(entry, j, irqs)
      BY <1>12, <2>4, <3>1, Zenon DEF SocketListed
    <3>3. Lister(entry, j, irqs)'
      BY <1>1, <1>11, <3>2, ListsKept
    <3> QED BY <3>1, <3>3, Zenon
  <2>5. TimerKinds' = TimerKinds /\ ph = intc'
    BY <1>1, <1>2, SpreadKept
  <2> QED BY <2>1, <2>3, <2>4, <2>5, Zenon DEF SocketListed
<1>13. ASSUME ~cfg.dtb, NEW n \in tree', n.kind = "imsic" PROVE ImsicNodeListed(n)'
  <2>1. \A m \in CpuNodes : m.kind \in {"cpu", "cpu-intc", "core"}
    BY <1>6, <1>7
  <2>2. MemoryNode.kind = "memory"
    BY MadeMemory, Zenon DEF Made
  <2>3. \A m \in TimerNodes(hs) : m.kind # "imsic"
    <3> SUFFICES ASSUME NEW m \in TimerNodes(hs) PROVE m.kind # "imsic"
      OBVIOUS
    <3>1. PICK kind \in TimerKinds : m = TimerNode(kind, hs)
      BY MadeTimers, Zenon
    <3>2. m.kind = kind
      <4>1. PICK entry : Made(m, kind, entry.base, 0, <<entry>>, Cells(hs, Count, TimerIrqs[kind]), {}, -1, {})
        BY <3>1, MadeTimers, Zenon
      <4> QED BY <4>1, Zenon DEF Made
    <3> QED BY <3>1, <3>2 DEF TimerKinds
  <2>4. n \in tree
    BY <1>5, <1>13, <2>1, <2>2, <2>3
  <2>5. ImsicNodeListed(n)
    BY <1>13, <2>4 DEF HartsInv
  <2> QED BY <1>1, <1>11, <2>5, ListsKept
<1>14. /\ Sockets' = Sockets /\ TreeKnown' = TreeKnown
       /\ \A j : Passed("fdt_sockets", j)' <=> i - 1 < j
       /\ \A j : Passed("fdt_sockets", j) <=> i < j
       /\ \A j : ~Passed("fdt_xplic", j)'
  BY <1>1, <1>2 DEF Sockets, TreeKnown, Passed, Rank
<1>15. ASSUME NEW j \in Sockets, TreeKnown, i - 1 < j PROVE SocketListed(j)'
  <2>1. j = i \/ i < j
    BY <1>4, <1>15 DEF Sockets
  <2>2. CASE i < j
    BY <1>12, <1>14, <1>15, <2>2 DEF HartsInv
  <2> QED BY <1>10, <2>1, <2>2
<1> QED BY <1>1, <1>13, <1>14, <1>15 DEF HartsInv

\* Where it will find the files of the harts, an IMSIC node lists them.
LEMMA ImsicLists ==
  ASSUME cfg \in Configs, cfg.sockets \in Nat, cfg.sockets <= 4,
         \A i \in Sockets : \A k \in 0 .. HartCount(i) - 1 :
           IntcOf(intc[HartsUpTo(i - 1) + k], FirstHartid(i) + k),
         NEW entry, NEW irq, NEW ph, NEW guests, NEW n,
         n = ImsicNode(entry, irq, ph, aislab_imsic_num_bits(guests + 1))
  PROVE  ListsFiles(n, entry, irq, guests)
<1>1. PICK bits, ranges, reg, ext :
        /\ bits = aislab_imsic_num_bits(guests + 1) /\ ranges = ImsicRanges(entry, bits)
        /\ ext = Cells(intc, cfg.cpus, <<irq>>)
        /\ reg = [g \in 1 .. cfg.sockets |->
                    At(entry.base + (g - 1) * AISLAB_IMSIC_GROUP_MAX_SIZE,
                       IMSIC_HART_SIZE(bits) * HartCount(g - 1))]
  OBVIOUS
<1>2. n.reg = ranges /\ n.ext = ext
  <2>1. Made(ImsicNode(entry, irq, ph, bits), "imsic", entry.base, ph, ranges, ext, {}, 0, {})
    BY <1>1, MadeChips, Zenon
  <2> QED BY <1>1, <2>1, Zenon DEF Made
<1>3. PICK hart, group : /\ hart = (IF cfg.sockets > 1 THEN aislab_imsic_num_bits(MaxHarts) ELSE 0)
                         /\ group = (IF cfg.sockets > 1 THEN aislab_imsic_num_bits(cfg.sockets) ELSE 0)
  OBVIOUS
<1>4. n.bits = [guest |-> bits, hart |-> hart, group |-> group]
  <2>2. n = ImsicNode(entry, irq, ph, bits)
    BY <1>1
  <2>3. PICK b, at, cells : /\ b = [guest |-> bits, hart |-> hart, group |-> group]
                            /\ at = entry.base /\ cells = FDT_IMSIC_INT_CELLS
    OBVIOUS
  <2>4. n = [Node0 EXCEPT !.kind = "imsic", !.at = at, !.phandle = ph, !.cells = cells,
                          !.ext = ext, !.reg = reg, !.bits = b]
    BY <1>1, <1>3, <2>2, <2>3, Zenon DEF ImsicNode
  <2>5. [Node0 EXCEPT !.kind = "imsic", !.at = at, !.phandle = ph, !.cells = cells,
                      !.ext = ext, !.reg = reg, !.bits = b].bits = b
    BY DEF Node0
  <2>6. n.bits = b
    BY <2>4, <2>5, Zenon
  <2> QED BY <2>3, <2>6
<1>5. n.bits.guest = bits /\ n.bits.hart = hart /\ n.bits.group = group
  BY <1>4
<1>6. cfg.cpus \in Nat
  <2>1. cfg.cpus \in 1 .. AISLAB_CPUS_MAX
    BY ConfigAssumption
  <2> QED BY <2>1, SMTT(30) DEF AISLAB_CPUS_MAX
<1>7. ext = [p \in 1 .. cfg.cpus |-> <<intc[p - 1], irq>>]
  <2>1. ext = [p \in 1 .. cfg.cpus * Len(<<irq>>) |->
                 <<intc[(p - 1) \div Len(<<irq>>)], <<irq>>[((p - 1) % Len(<<irq>>)) + 1]>>]
    BY <1>1, Zenon DEF Cells
  <2>2. Len(<<irq>>) = 1 /\ cfg.cpus * 1 = cfg.cpus
    BY <1>6
  <2>3. \A p \in 1 .. cfg.cpus : (p - 1) \div 1 = p - 1 /\ (p - 1) % 1 = 0
    BY <1>6
  <2>4. <<irq>>[0 + 1] = irq
    OBVIOUS
  <2> QED BY <2>1, <2>2, <2>3, <2>4
<1>8. ASSUME NEW i \in Sockets PROVE ListsGroup(n, i, irq)
  <2>1. PICK first, count, from : first = FirstHartid(i) /\ count = HartCount(i) /\ from = HartsUpTo(i - 1)
    OBVIOUS
  <2>2. from \in Nat /\ count \in Nat /\ from + count <= cfg.cpus
    <3>1. i \in Int
      BY DEF Sockets
    <3>2. HartsUpTo(i) \in 0 .. cfg.cpus /\ from \in 0 .. cfg.cpus /\ count \in Nat /\ HartsUpTo(i) = from + count
      BY <2>1, <3>1, HartsCounted
    <3> QED BY <1>6, <3>2
  <2>3. ASSUME NEW k \in 0 .. count - 1
        PROVE  LET place == from + k + 1 IN
               /\ place \in DOMAIN n.ext
               /\ IntcOf(n.ext[place][1], first + k)
               /\ n.ext[place][2] = irq
               /\ cfg.sockets > 1 => k < BIT(n.bits.hart) /\ i < BIT(n.bits.group)
    <3>1. PICK place : place = from + k + 1
      OBVIOUS
    <3>2. place \in 1 .. cfg.cpus /\ place - 1 = from + k
      BY <1>6, <2>2, <3>1
    <3>3. place \in DOMAIN n.ext /\ n.ext[place] = <<intc[from + k], irq>>
      BY <1>2, <1>7, <3>2
    <3>4. IntcOf(intc[from + k], first + k)
      BY <2>1
    <3>5. n.ext[place][1] = intc[from + k] /\ n.ext[place][2] = irq
      BY <3>3
    <3>6. ASSUME cfg.sockets > 1 PROVE k < BIT(n.bits.hart) /\ i < BIT(n.bits.group)
      <4>1. MaxHarts \in 0 .. 512 /\ count <= MaxHarts
        BY <2>1, LargestSocket
      <4>2. MaxHarts <= BIT(hart)
        BY <1>3, <3>6, <4>1, EnoughBits
      <4>3. cfg.sockets \in 0 .. 512
        OBVIOUS
      <4>4. cfg.sockets <= BIT(group)
        BY <1>3, <3>6, <4>3, EnoughBits
      <4>5. \A m \in 0 .. 9 : BIT(m) \in Nat
        BY DEF BIT
      <4>6. hart \in 0 .. 9 /\ group \in 0 .. 9
        <5>1. hart = aislab_imsic_num_bits(MaxHarts) /\ group = aislab_imsic_num_bits(cfg.sockets)
          BY <1>3, <3>6
        <5>2. hart \in 0 .. 9
          BY <4>1, <5>1, EnoughBits, ZenonT(60)
        <5>3. group \in 0 .. 9
          BY <4>3, <5>1, EnoughBits, ZenonT(60)
        <5> QED BY <5>2, <5>3
      <4>7. k < BIT(hart)
        BY <2>2, <4>1, <4>2, <4>5, <4>6
      <4>8. i < BIT(group)
        BY <4>4, <4>5, <4>6 DEF Sockets
      <4> QED BY <1>5, <4>7, <4>8
    <3> QED BY <3>1, <3>3, <3>4, <3>5, <3>6, Zenon
  <2> QED BY <2>1, <2>3, Zenon DEF ListsGroup
<1> QED BY <1>1, <1>2, <1>5, <1>8, Zenon DEF ListsFiles

\* create_fdt_imsic, after the last socket: the harts of all are there.
LEMMA HartsFdtImsic ==
  ASSUME HartsInv, TypesInv, FdtImsic
  PROVE  HartsInv'
<1>1. /\ pc = "fdt_sockets" /\ pc' = "fdt_xplic" /\ UNCHANGED <<cfg, intc>> /\ cfg \in Configs
      /\ sock < 0 /\ sock \in Int /\ sock' = IF UseKvmAia THEN 0 ELSE cfg.sockets - 1
  BY DEF FdtImsic, TypesInv, PhandlesInv, CounterInv
<1>2. cfg.sockets \in Nat /\ cfg.sockets <= 4 /\ \A i \in Sockets : i \in Int /\ sock < i
  <2>1. cfg.sockets \in Nat /\ cfg.sockets <= 4 /\ \A i \in Sockets : i \in {0, 1, 2, 3}
    BY <1>1, SocketNumbers DEF TypesInv, PhandlesInv
  <2> QED BY <1>1, <2>1
<1>3. /\ (TreeKnown <=> ~cfg.dtb) /\ (TreeKnown' <=> ~cfg.dtb)
      /\ \A i \in Sockets : Passed("fdt_sockets", i)
  BY <1>1, <1>2 DEF TreeKnown, Passed, Rank
<1>4. PICK a, b : /\ a = ImsicNode(aislab_memmap.IMSIC_M, "M_EXT", msi'[1], 0)
                  /\ b = ImsicNode(aislab_memmap.IMSIC_S, "S_EXT", msi'[2], GuestBits)
  OBVIOUS
<1>5. ASSUME ~cfg.dtb, Imsic
      PROVE  ImsicNodeListed(b) /\ (~Kvm => ImsicNodeListed(a))
  <2>1. \A i \in Sockets : \A k \in 0 .. HartCount(i) - 1 :
          IntcOf(intc[HartsUpTo(i - 1) + k], FirstHartid(i) + k)
    BY <1>3, <1>5, Zenon DEF HartsInv, SocketListed
  <2>2. PICK p, q, guests : p = msi'[1] /\ q = msi'[2] /\ guests = cfg.guests
    OBVIOUS
  <2>3. /\ a = ImsicNode(aislab_memmap.IMSIC_M, "M_EXT", p, aislab_imsic_num_bits(0 + 1))
        /\ b = ImsicNode(aislab_memmap.IMSIC_S, "S_EXT", q, aislab_imsic_num_bits(guests + 1))
    BY <1>4, <2>2, OneFile, Zenon DEF GuestBits
  <2>4. /\ ListsFiles(a, aislab_memmap.IMSIC_M, "M_EXT", 0)
        /\ ListsFiles(b, aislab_memmap.IMSIC_S, "S_EXT", guests)
    BY <1>1, <1>2, <2>1, <2>3, ImsicLists
  <2> QED BY <1>5, <2>2, <2>4 DEF ImsicNodeListed
<1>6. /\ \A n \in tree : n \in tree'
      /\ \A n \in tree' : n \in tree \/ (Imsic /\ n = b) \/ (Imsic /\ ~Kvm /\ n = a)
  <2>1. CASE Imsic
    <3>1. tree' = tree \cup (IF Kvm THEN {} ELSE {a}) \cup {b}
      BY <1>4, <2>1, Zenon DEF FdtImsic
    <3> QED BY <2>1, <3>1
  <2>2. CASE ~Imsic
    BY <2>2 DEF FdtImsic
  <2> QED BY <2>1, <2>2
<1>7. ASSUME NEW i \in Sockets, ~Imsic PROVE ~Passed("fdt_xplic", i)'
  <2>1. sock' = cfg.sockets - 1
    BY <1>1, <1>7 DEF UseKvmAia, Imsic
  <2> QED BY <1>1, <1>2, <2>1 DEF Passed, Rank, Sockets
<1> QED BY <1>1, <1>3, <1>5, <1>6, <1>7, HartsOn

\* create_fdt_socket_plic, create_fdt_socket_aplic: the harts of one socket.
LEMMA HartsFdtXplic ==
  ASSUME HartsInv, TypesInv, FdtXplic
  PROVE  HartsInv'
<1>1. /\ pc = "fdt_xplic" /\ UNCHANGED <<cfg, pc, intc>> /\ sock' = sock - 1 /\ cfg \in Configs
      /\ sock \in Sockets /\ sock \in Int
  <2>1. /\ pc = "fdt_xplic" /\ UNCHANGED <<cfg, pc, intc>> /\ sock' = sock - 1 /\ sock >= 0
    BY DEF FdtXplic
  <2>2. cfg \in Configs /\ sock \in -1 .. cfg.sockets - 1
    BY <2>1 DEF TypesInv, PhandlesInv, CounterInv
  <2> QED BY <2>1, <2>2, ChipSockets DEF Sockets
<1>2. PICK i, ph, at, hs, harts, own, ints :
        /\ i = sock /\ ph = phandle /\ at = pos' /\ hs = IntcFrom(at, ints) /\ ints = intc
        /\ harts = (IF UseKvmAia THEN cfg.cpus ELSE Count)
        /\ own = IF cfg.aia = "none" THEN ph ELSE ph + 1
  OBVIOUS
<1>3. i \in Sockets /\ i \in Int
  BY <1>1, <1>2
<1>4. PICK plic, mnode, snode, Bus :
        /\ plic = PlicNode(ph, hs) /\ Bus = PlatformBusNode(own)
        /\ mnode = AplicNode(aislab_memmap.APLIC_M, "M_EXT", msi[1], ph, ph + 1, hs, harts)
        /\ snode = AplicNode(aislab_memmap.APLIC_S, "S_EXT", msi[2], ph + 1, 0, hs, harts)
  OBVIOUS
<1> DEFINE Chips == IF cfg.aia = "none" THEN {plic} ELSE (IF Kvm THEN {} ELSE {mnode}) \cup {snode}
<1>5. tree' = tree \cup Chips \cup Bus
  <2>1. CASE cfg.aia = "none"
    <3>1. tree' = tree \cup {PlicNode(ph, hs)} \cup PlatformBusNode(own)
      BY <1>2, <2>1, Zenon DEF FdtXplic
    <3> QED BY <1>4, <2>1, <3>1
  <2>2. CASE cfg.aia # "none"
    <3>1. tree' = tree \cup AplicNodes(hs, harts) \cup PlatformBusNode(own)
      BY <1>2, <2>2, Zenon DEF FdtXplic
    <3>2. AplicNodes(hs, harts) = (IF Kvm THEN {} ELSE {mnode}) \cup {snode}
      BY <1>2, <1>4, Zenon DEF AplicNodes
    <3> QED BY <1>4, <2>2, <3>1, <3>2
  <2> QED BY <2>1, <2>2
<1>6. plic.kind = "plic" /\ snode.kind = "aplic" /\ mnode.kind = "aplic"
  <2>1. PICK entry, ext, reg : Made(plic, "plic", entry.base, ph, reg, ext, {}, 1, {})
    BY <1>4, MadeChips, Zenon
  <2>2. PICK at2, p2, ext2, reg2, refs2 : Made(snode, "aplic", at2, p2, reg2, ext2, {}, 2, refs2)
    BY <1>4, MadeChips, Zenon
  <2>3. PICK at3, p3, ext3, reg3, refs3 : Made(mnode, "aplic", at3, p3, reg3, ext3, {}, 2, refs3)
    BY <1>4, MadeChips, Zenon
  <2> QED BY <2>1, <2>2, <2>3, Zenon DEF Made
<1>7. \A n \in Bus : n.kind = "platform_bus"
  <2> SUFFICES ASSUME NEW n \in Bus PROVE n.kind = "platform_bus"
    OBVIOUS
  <2>1. PICK at1, reg, irqs : Made(n, "platform_bus", at1, 0, reg, <<>>, irqs, -1, {})
    BY <1>4, MadeChips, Zenon
  <2> QED BY <2>1, Zenon DEF Made
<1>8. /\ \A n \in tree : n \in tree'
      /\ \A n \in tree' : n.kind = "imsic" => n \in tree
  BY <1>5, <1>6, <1>7
<1>9. ASSUME ~Imsic, TreeKnown
      PROVE  ChipListers(i)'
  <2>1. PICK first, count, from : first = FirstHartid(i) /\ count = HartCount(i) /\ from = HartsUpTo(i - 1)
    OBVIOUS
  <2>2. at = from /\ harts = count /\ Count = count
    <3>1. ~UseKvmAia
      BY <1>9 DEF UseKvmAia, Imsic
    <3>2. pos = HartsUpTo(i)
      BY <1>1, <1>2, <3>1 DEF TypesInv, PosInv
    <3>3. at = pos - Count
      BY <1>2, <3>1 DEF FdtXplic
    <3>4. Count = count
      BY <1>2, <2>1 DEF Count
    <3>5. HartsUpTo(i) = from + count /\ from \in 0 .. cfg.cpus /\ count \in Nat
      BY <1>1, <1>3, <2>1, HartsCounted
    <3>6. cfg.cpus \in Nat
      <4>1. cfg.cpus \in 1 .. AISLAB_CPUS_MAX
        BY <1>1, ConfigAssumption
      <4> QED BY <4>1, SMTT(30) DEF AISLAB_CPUS_MAX
    <3> QED BY <1>2, <3>1, <3>2, <3>3, <3>4, <3>5, <3>6
  <2>3. \A k \in 0 .. count - 1 : IntcOf(ints[from + k], first + k)'
    <3>1. Passed("fdt_sockets", i)
      BY <1>1 DEF Passed, Rank
    <3>2. SocketListed(i)
      BY <1>3, <1>9, <3>1 DEF HartsInv
    <3>3. \A k \in 0 .. count - 1 : IntcOf(ints[from + k], first + k)
      BY <1>2, <2>1, <3>2, Zenon DEF SocketListed
    <3> QED BY <1>1, <1>8, <3>3, ListsKept, Zenon
  <2>4. ASSUME NEW n \in tree', NEW entry, NEW irqs, Len(irqs) \in {1, 2}, n.kind # "pci", n.reg = <<entry>>,
               n.ext = Cells(hs, count, irqs)
        PROVE  Lister(entry, i, irqs)'
    <3>1. n.ext = Cells(IntcFrom(from, ints), count, irqs)
      BY <1>2, <2>2, <2>4
    <3>2. ListsHarts(n, i, irqs)'
      BY <1>1, <1>3, <2>1, <2>3, <2>4, <3>1, CellsServe
    <3> QED BY <2>4, <3>2, Zenon DEF Lister
  <2>5. CASE cfg.aia = "none"
    <3>1. PICK entry, irqs : entry = Nth(aislab_memmap.PLIC, i) /\ irqs = PlicIrqs
      OBVIOUS
    <3>2. Made(plic, "plic", entry.base, ph, <<entry>>, Cells(hs, Count, irqs), {}, 1, {})
      BY <1>2, <1>4, <3>1, MadeChips, Zenon DEF PlicIrqs
    <3>3. plic.reg = <<entry>> /\ plic.ext = Cells(hs, count, irqs)
      BY <2>2, <3>2, Zenon DEF Made
    <3>4. Len(irqs) \in {1, 2}
      BY <3>1 DEF PlicIrqs
    <3>5. plic \in tree' /\ plic.kind # "pci"
      BY <1>5, <1>6, <2>5
    <3>6. Lister(entry, i, irqs)'
      BY <2>4, <3>3, <3>4, <3>5
    <3>7. irqs = PlicIrqs' /\ cfg'.aia = "none"
      BY <1>1, <2>5, <3>1, SpreadKept
    <3> QED BY <3>1, <3>6, <3>7, Zenon DEF ChipListers
  <2>6. CASE cfg.aia # "none"
    <3>1. ASSUME NEW map, NEW irq, NEW parent, NEW p, NEW child, NEW n,
                 n = AplicNode(map, irq, parent, p, child, hs, harts), n \in tree', n.kind = "aplic"
          PROVE  Lister(Nth(map, i), i, <<irq>>)'
      <4>1. PICK entry, irqs, ext, refs : /\ entry = Nth(map, i) /\ irqs = <<irq>>
                                          /\ ext = (IF Imsic THEN <<>> ELSE Cells(hs, harts, irqs))
                                          /\ refs = (IF Imsic THEN {Ref("msi_parent", parent)} ELSE {})
                                                      \cup (IF child = 0 THEN {} ELSE {Ref("children", child)})
        OBVIOUS
      <4>2. Made(n, "aplic", entry.base, p, <<entry>>, ext, {}, 2, refs)
        BY <1>2, <3>1, <4>1, MadeChips, Zenon
      <4>3. n.reg = <<entry>> /\ n.ext = Cells(hs, count, irqs)
        BY <1>9, <2>2, <4>1, <4>2, Zenon DEF Made
      <4>4. Len(irqs) \in {1, 2} /\ n.kind # "pci"
        BY <3>1, <4>1
      <4>5. Lister(entry, i, irqs)'
        BY <2>4, <3>1, <4>3, <4>4
      <4> QED BY <4>1, <4>5, Zenon
    <3>2. Lister(Nth(aislab_memmap.APLIC_S, i), i, <<"S_EXT">>)'
      <4>1. snode \in tree'
        BY <1>5, <2>6
      <4> QED BY <1>4, <1>6, <3>1, <4>1, Zenon
    <3>3. ~Kvm => Lister(Nth(aislab_memmap.APLIC_M, i), i, <<"M_EXT">>)'
      <4>1. ~Kvm => mnode \in tree'
        BY <1>5, <2>6
      <4> QED BY <1>4, <1>6, <3>1, <4>1, Zenon
    <3>4. cfg'.aia # "none" /\ Kvm' = Kvm
      BY <1>1, <2>6, SpreadKept
    <3> QED BY <3>2, <3>3, <3>4, Zenon DEF ChipListers
  <2> QED BY <2>5, <2>6
<1>10. /\ TreeKnown' => TreeKnown
       /\ \A j : Passed("fdt_sockets", j)
       /\ \A j \in Sockets : Passed("fdt_xplic", j)' => Passed("fdt_xplic", j) \/ j = i
  BY <1>1, <1>2 DEF TreeKnown, Passed, Rank, Sockets
<1> QED BY <1>1, <1>8, <1>9, <1>10, HartsOn

\* create_fdt and the plugging of a virtio-iommu come before the sockets.
LEMMA HartsFirst ==
  ASSUME HartsInv, CreateFdt \/ PlugIommu
  PROVE  HartsInv'
<1>1. pc' = "plug" /\ UNCHANGED <<cfg, intc>>
  BY DEF CreateFdt, PlugIommu, boardVars
<1>2. \A i : ~Passed("fdt_sockets", i)' /\ ~Passed("fdt_xplic", i)'
  BY <1>1 DEF Passed, Rank
<1>3. CASE CreateFdt
  <2>1. tree' \subseteq {PciNode, FlashNode, FwCfgNode, PmuNode}
    BY <1>3 DEF CreateFdt
  <2>2. PciNode.kind = "pci" /\ FlashNode.kind = "flash" /\ FwCfgNode.kind = "fw_cfg" /\ PmuNode.kind = "pmu"
    BY MadeFirst, Zenon DEF Made
  <2>3. \A n \in tree' : n.kind # "imsic"
    BY <2>1, <2>2
  <2> QED BY <1>2, <2>3 DEF HartsInv
<1>4. CASE PlugIommu
  <2>1. PICK p, m : /\ p = [PciNode EXCEPT !.refs = {Ref("iommu_map", ALLOC_PHANDLE)}]
                    /\ m = [Node0 EXCEPT !.kind = "iommu", !.phandle = ALLOC_PHANDLE]
    OBVIOUS
  <2>2. tree' = (tree \ {PciNode}) \cup {p, m}
    BY <1>4, <2>1, Zenon DEF PlugIommu
  <2>3. p.kind = "pci" /\ m.kind = "iommu" /\ PciNode.kind = "pci"
    BY <2>1, MadeFirst, Zenon DEF Made
  <2>4. \A n \in tree : n.kind # "pci" => n \in tree'
    BY <2>2, <2>3
  <2>5. \A n \in tree' : n.kind = "imsic" => n \in tree
    BY <2>2, <2>3
  <2> QED BY <1>1, <1>2, <2>4, <2>5, HartsOn
<1> QED BY <1>3, <1>4

\* The functions that add devices.
LEMMA HartsDevices ==
  ASSUME HartsInv, FdtVirtio \/ FdtReset \/ FdtUart \/ FdtRtc \/ FdtMmioBus
  PROVE  HartsInv'
<1>1. ASSUME NEW from, NEW to, NEW N, Fdt(from, to, N), 12 < Rank(from), Rank(from) < Rank(to),
             \A n \in N : n.kind # "imsic"
      PROVE  HartsInv'
  <2>1. tree' = tree \cup N /\ UNCHANGED <<cfg, intc>> /\ pc = from /\ pc' = to
    BY <1>1 DEF Fdt
  <2>2. \A i : Passed("fdt_sockets", i) /\ Passed("fdt_xplic", i)
    <3>1. Rank("fdt_sockets") = 11 /\ Rank("fdt_xplic") = 12 /\ Rank(pc) \in Nat
      BY DEF Rank
    <3> QED BY <1>1, <2>1, <3>1 DEF Passed
  <2>3. TreeKnown' => TreeKnown
    <3>1. Rank("exited") = 19 /\ Rank(from) \in Nat /\ Rank(to) \in Nat /\ Rank(to) <= 19
      BY DEF Rank
    <3> QED BY <1>1, <2>1, <3>1 DEF TreeKnown
  <2>4. /\ \A n \in tree : n \in tree'
        /\ \A n \in tree' : n.kind = "imsic" => n \in tree
    BY <1>1, <2>1
  <2> QED BY <2>1, <2>2, <2>3, <2>4, HartsOn
<1>2. ASSUME NEW kind, NEW at, NEW d, NEW line PROVE DeviceNode(kind, at, d, line).kind = kind
  <2>1. PICK irqs : Made(DeviceNode(kind, at, d, line), kind, at.base, 0, <<at>>, <<>>, irqs, -1, {})
    BY MadeDevices, Zenon
  <2> QED BY <2>1, Zenon DEF Made
<1>3. CASE FdtVirtio
  <2> DEFINE node(k) == DeviceNode("virtio", Nth(aislab_memmap.VIRTIO, k), "virtio", VIRTIO_IRQ + k)
  <2>1. Fdt("fdt_virtio", "fdt_pcie", { node(k) : k \in 0 .. VIRTIO_COUNT - 1 })
    BY <1>3, Zenon DEF FdtVirtio
  <2>2. \A k : node(k).kind = "virtio"
    BY <1>2
  <2> HIDE DEF node
  <2>3. 12 < Rank("fdt_virtio") /\ Rank("fdt_virtio") < Rank("fdt_pcie")
    BY DEF Rank
  <2>4. \A n \in { node(k) : k \in 0 .. VIRTIO_COUNT - 1 } : n.kind # "imsic"
    BY <2>2
  <2> QED BY <1>1, <2>1, <2>3, <2>4
<1>4. CASE FdtReset
  <2>1. PICK ph, reg : ph = phandle /\ reg = <<aislab_memmap.TEST>>
    OBVIOUS
  <2> DEFINE test == [Node0 EXCEPT !.kind = "test", !.at = aislab_memmap.TEST.base,
                                   !.reg = <<aislab_memmap.TEST>>, !.phandle = ph]
             switch(kind) == [Node0 EXCEPT !.kind = kind, !.refs = {Ref("regmap", ph)}]
  <2>2. Fdt("fdt_reset", "fdt_uart", {test, switch("reboot"), switch("poweroff")})
    BY <1>4, <2>1, Zenon DEF FdtReset
  <2>3. test.kind = "test"
    <3>1. Made(test, "test", aislab_memmap.TEST.base, ph, reg, <<>>, {}, -1, {})
      BY <2>1, MadeDevices, Zenon
    <3> HIDE DEF test
    <3> QED BY <3>1, Zenon DEF Made
  <2>4. ASSUME NEW kind PROVE switch(kind).kind = kind
    <3>1. Made(switch(kind), kind, 0, 0, <<>>, <<>>, {}, -1, {Ref("regmap", ph)})
      BY MadeDevices, Zenon
    <3> HIDE DEF switch
    <3> QED BY <3>1, Zenon DEF Made
  <2> HIDE DEF test, switch
  <2>5. 12 < Rank("fdt_reset") /\ Rank("fdt_reset") < Rank("fdt_uart")
    BY DEF Rank
  <2>6. \A n \in {test, switch("reboot"), switch("poweroff")} : n.kind # "imsic"
    BY <2>3, <2>4
  <2> QED BY <1>1, <2>2, <2>5, <2>6
<1>5. ASSUME NEW from, NEW to, NEW kind, NEW at, NEW line, kind # "imsic",
             Fdt(from, to, {DeviceNode(kind, at, "mmio", line)}), 12 < Rank(from), Rank(from) < Rank(to)
      PROVE  HartsInv'
  <2>1. PICK N : N = {DeviceNode(kind, at, "mmio", line)}
    OBVIOUS
  <2>2. \A n \in N : n.kind # "imsic"
    BY <1>2, <1>5, <2>1
  <2>3. Fdt(from, to, N)
    BY <1>5, <2>1
  <2> QED BY <1>1, <1>5, <2>2, <2>3
<1>6. CASE FdtUart
  <2>1. Fdt("fdt_uart", "fdt_rtc", {DeviceNode("serial", aislab_memmap.UART0, "mmio", UART0_IRQ)})
    BY <1>6, Zenon DEF FdtUart
  <2>2. 12 < Rank("fdt_uart") /\ Rank("fdt_uart") < Rank("fdt_rtc")
    BY DEF Rank
  <2> QED BY <1>5, <2>1, <2>2
<1>7. CASE FdtRtc
  <2>1. Fdt("fdt_rtc", "fdt_mmio_bus", {DeviceNode("rtc", aislab_memmap.RTC, "mmio", RTC_IRQ)})
    BY <1>7, Zenon DEF FdtRtc
  <2>2. 12 < Rank("fdt_rtc") /\ Rank("fdt_rtc") < Rank("fdt_mmio_bus")
    BY DEF Rank
  <2> QED BY <1>5, <2>1, <2>2
<1>8. CASE FdtMmioBus
  <2>1. Fdt("fdt_mmio_bus", "boot", {DeviceNode("mmio_bus", aislab_memmap.MMIO_BUS, "mmio", MMIO_BUS_IRQ)})
    BY <1>8, Zenon DEF FdtMmioBus
  <2>2. 12 < Rank("fdt_mmio_bus") /\ Rank("fdt_mmio_bus") < Rank("boot")
    BY DEF Rank
  <2> QED BY <1>5, <2>1, <2>2
<1> QED BY <1>3, <1>4, <1>6, <1>7, <1>8

\* create_fdt_pcie: the host lists no harts.
LEMMA HartsFdtPcie ==
  ASSUME HartsInv, ViewsInv, FdtPcie
  PROVE  HartsInv'
<1>1. /\ tree' = { Completed(n) : n \in tree } /\ pc = "fdt_pcie" /\ pc' = "fdt_reset"
      /\ UNCHANGED <<cfg, intc>>
  BY Zenon DEF FdtPcie, Completed
<1>2. \A n \in tree : n.kind # "pci" => n \in tree'
  <2>1. \A n : n.kind # "pci" => Completed(n) = n
    BY Zenon DEF Completed
  <2> QED BY <1>1, <2>1
<1>3. \A n \in tree' : n.kind = "imsic" => n \in tree
  <2> SUFFICES ASSUME NEW n \in tree', n.kind = "imsic" PROVE n \in tree
    OBVIOUS
  <2>1. PICK m \in tree : n = Completed(m)
    BY <1>1
  <2>2. DOMAIN m = DOMAIN Node0
    BY DEF ViewsInv
  <2>3. n.kind = m.kind
    BY <2>1, <2>2, NodeCompleted
  <2>4. m.kind # "pci"
    BY <2>3
  <2> QED BY <2>1, <2>4, Zenon DEF Completed
<1>4. /\ \A i : Passed("fdt_sockets", i) /\ Passed("fdt_xplic", i)
      /\ TreeKnown' => TreeKnown
  BY <1>1 DEF Passed, TreeKnown, Rank
<1> QED BY <1>1, <1>2, <1>3, <1>4, HartsOn

\* What the loops have left is left alone.
LEMMA HartsNext == HartsInv /\ ViewsInv /\ TypesInv /\ [Next]_vars => HartsInv'
<1> SUFFICES ASSUME HartsInv, ViewsInv, TypesInv, [Next]_vars PROVE HartsInv'
  OBVIOUS
<1>1. ASSUME UNCHANGED <<cfg, intc, tree>>,
             \A i \in Sockets : \A p \in {"fdt_sockets", "fdt_xplic"} :
               TreeKnown' /\ Passed(p, i)' => TreeKnown /\ Passed(p, i)
      PROVE  HartsInv'
  BY <1>1, HartsOn
<1>2. CASE BoardStep /\ UNCHANGED <<treeVars, boot>>
  <2>1. UNCHANGED <<cfg, intc, tree>> /\ (pc' = "exited" \/ Rank(pc') <= 9)
    <3> USE DEF Build, Rank, treeVars
    <3>1. CASE InitChecks \/ InitSocket \/ InitAia \/ MapMemory
      BY <1>2, <3>1 DEF InitChecks, InitSocket, InitAia, MapMemory
    <3>2. CASE CreateVirtio \/ GpexPcieInit \/ CreatePlatformBus
      BY <1>2, <3>2 DEF CreateVirtio, GpexPcieInit, CreatePlatformBus
    <3>3. CASE CreateSerialAndRtc \/ ListenMmioBus \/ CreateMmioBus \/ MapFlash
      BY <1>2, <3>3 DEF CreateSerialAndRtc, ListenMmioBus, CreateMmioBus, MapFlash
    <3> QED BY <1>2, <3>1, <3>2, <3>3 DEF BoardStep
  <2>2. Rank(pc') \in Nat
    BY DEF Rank
  <2>3. ~TreeKnown'
    BY <2>1, <2>2 DEF TreeKnown
  <2> QED BY <1>1, <2>1, <2>3
<1>3. CASE TreeStep
  <2>1. CASE Finalize
    <3>1. /\ pc = "plug" /\ UNCHANGED <<cfg, intc, tree>> /\ sock' = cfg.sockets - 1
          /\ (cfg.dtb /\ pc' = "boot") \/ (~cfg.dtb /\ pc' = "fdt_sockets")
      BY <2>1 DEF Finalize
    <3>2. cfg.sockets \in Nat
      BY ConfigAssumption DEF TypesInv, PhandlesInv, CounterInv
    <3>3. TreeKnown' => \A i \in Sockets : ~Passed("fdt_sockets", i)' /\ ~Passed("fdt_xplic", i)'
      BY <3>1, <3>2 DEF TreeKnown, Passed, Rank, Sockets
    <3> QED BY <1>1, <3>1, <3>3
  <2>2. CASE FdtSocketsEnd
    <3>1. pc = "fdt_xplic" /\ sock < 0 /\ pc' = "fdt_virtio" /\ UNCHANGED <<cfg, intc, tree, sock>>
      BY <2>2 DEF FdtSocketsEnd, treeVars
    <3>2. sock \in Int /\ cfg.sockets \in Nat
      BY ConfigAssumption DEF TypesInv, PhandlesInv, CounterInv
    <3>3. \A i \in Sockets : Passed("fdt_xplic", i) /\ Passed("fdt_sockets", i)
      BY <3>1, <3>2 DEF Passed, Rank, Sockets
    <3>4. TreeKnown' => TreeKnown
      BY <3>1 DEF TreeKnown, Rank
    <3> QED BY <1>1, <3>1, <3>3, <3>4
  <2> QED BY <1>3, <2>1, <2>2, HartsFirst, HartsFdtSocket, HartsFdtImsic, HartsFdtXplic, HartsFdtPcie,
             HartsDevices DEF TreeStep
<1>4. ASSUME UNCHANGED <<cfg, sock, tree, intc>>, pc' = pc \/ (pc = "boot" /\ pc' \in {"running", "exited"})
      PROVE  HartsInv'
  <2>1. Rank(pc') = Rank(pc) /\ (TreeKnown' => TreeKnown)
    BY <1>4 DEF Rank, TreeKnown
  <2>2. \A p, i : p \in {"fdt_sockets", "fdt_xplic"} => (Passed(p, i)' <=> Passed(p, i))
    BY <1>4, <2>1 DEF Passed
  <2> QED BY <1>1, <1>4, <2>1, <2>2
<1>5. CASE Boot
  BY <1>4, <1>5 DEF Boot, treeVars
<1>6. CASE ClientConnects /\ UNCHANGED <<treeVars, boot>>
  BY <1>4, <1>6 DEF ClientConnects, treeVars
<1>7. CASE UNCHANGED vars
  BY <1>4, <1>7 DEF vars, boardVars, treeVars
<1> QED BY <1>2, <1>3, <1>5, <1>6, <1>7 DEF Next, Step

\* Nothing is listed at first.
LEMMA HartsInit == ASSUME Init PROVE HartsInv
<1>1. tree = {} /\ pc = "checks"
  BY DEF Init, BoardInit, TreeInit
<1> QED BY <1>1 DEF HartsInv, TreeKnown, Rank

-----------------------------------------------------------------------------
(* Timers and controllers of wired interrupts *)

\* Once the tree is complete, the loops are past all sockets.
LEMMA ReadyListed ==
  ASSUME Ready, HartsInv
  PROVE  /\ \A i \in Sockets : SocketListed(i) /\ (~Imsic => ChipListers(i))
         /\ \A n \in tree : n.kind = "imsic" => ImsicNodeListed(n)
<1>1. pc \in {"boot", "running"} /\ ~cfg.dtb
  BY DEF Ready, Finalized
<1>2. TreeKnown /\ \A i : Passed("fdt_sockets", i) /\ Passed("fdt_xplic", i)
  BY <1>1 DEF TreeKnown, Passed, Rank
<1> QED BY <1>1, <1>2 DEF HartsInv

\* A device serves the harts of socket i in order, with these interrupts.
Serves(r, i, irqs) ==
  /\ DOMAIN r.serves = 1 .. HartCount(i) * Len(irqs)
  /\ \A p \in DOMAIN r.serves :
       r.serves[p] = <<FirstHartid(i) + (p - 1) \div Len(irqs), irqs[((p - 1) % Len(irqs)) + 1]>>

\* An order-preserving map from the entries of the node to those of the device.
Matches(f, mine, n, r) ==
  /\ mine = { p \in DOMAIN n.ext : n.ext[p][2] \in { r.serves[k][2] : k \in DOMAIN r.serves } }
  /\ \A p \in mine : /\ f[p] \in DOMAIN r.serves
                     /\ <<HartOf(n.ext[p][1]), n.ext[p][2]>> = r.serves[f[p]]
  /\ \A k \in DOMAIN r.serves : \E p \in mine : f[p] = k
  /\ \A p, q \in mine : p < q => f[p] < f[q]

\* With one, the node lists what the device drives.
LEMMA InOrderBy ==
  ASSUME NEW n, NEW r, NEW mine, NEW f, Matches(f, mine, n, r)
  PROVE  InOrder(n, r)
<1> DEFINE irqs == { r.serves[k][2] : k \in DOMAIN r.serves }
           named == [p \in DOMAIN n.ext |-> <<HartOf(n.ext[p][1]), n.ext[p][2]>>]
           own == { p \in DOMAIN n.ext : n.ext[p][2] \in irqs }
<1>1. own = mine
  BY DEF Matches
<1>2. \A p \in own : f[p] \in DOMAIN r.serves /\ named[p] = r.serves[f[p]]
  BY <1>1 DEF Matches
<1>3. (\A k \in DOMAIN r.serves : \E p \in own : f[p] = k) /\ (\A p, q \in own : p < q => f[p] < f[q])
  BY <1>1, Zenon DEF Matches
<1> HIDE DEF irqs, named, own
<1>4. { named[p] : p \in own } = { r.serves[k] : k \in DOMAIN r.serves }
  BY <1>2, <1>3
<1>5. \A p, q \in own : p < q =>
        \E j, k \in DOMAIN r.serves : j < k /\ named[p] = r.serves[j] /\ named[q] = r.serves[k]
  BY <1>2, <1>3
<1> QED BY <1>4, <1>5, Zenon DEF InOrder, irqs, named, own

\* A node of the interrupts of its device only.
LEMMA InOrderSame ==
  ASSUME PhandlesUnique, NEW n, NEW r, NEW i, NEW irqs, Len(irqs) \in {1, 2}, HartCount(i) \in Nat,
         ListsHarts(n, i, irqs), Serves(r, i, irqs)
  PROVE  InOrder(n, r)
<1>1. PICK first, count, f, mine :
        /\ first = FirstHartid(i) /\ count = HartCount(i) /\ f = [p \in DOMAIN r.serves |-> p]
        /\ mine = { p \in DOMAIN n.ext : n.ext[p][2] \in { r.serves[k][2] : k \in DOMAIN r.serves } }
  OBVIOUS
<1>2. DOMAIN n.ext = 1 .. count * Len(irqs) /\ DOMAIN r.serves = DOMAIN n.ext
  BY <1>1, Zenon DEF ListsHarts, Serves
<1>3. ASSUME NEW p \in DOMAIN n.ext
      PROVE  <<HartOf(n.ext[p][1]), n.ext[p][2]>> = r.serves[p]
  <2>1. PICK h, ph : h = first + (p - 1) \div Len(irqs) /\ ph = n.ext[p][1]
    OBVIOUS
  <2>2. IntcOf(ph, h) /\ n.ext[p][2] = irqs[((p - 1) % Len(irqs)) + 1]
    BY <1>1, <2>1, Zenon DEF ListsHarts
  <2>3. HartOf(ph) = h
    BY <2>2, HartOfIntc
  <2>4. r.serves[p] = <<h, irqs[((p - 1) % Len(irqs)) + 1]>>
    BY <1>1, <1>2, <2>1, Zenon DEF Serves
  <2> QED BY <2>1, <2>2, <2>3, <2>4, Zenon
<1>4. mine = DOMAIN n.ext
  <2>1. \A p \in DOMAIN n.ext : n.ext[p][2] = r.serves[p][2]
    <3> TAKE p \in DOMAIN n.ext
    <3>1. PICK c, d : c = n.ext[p][2] /\ d = HartOf(n.ext[p][1])
      OBVIOUS
    <3>2. r.serves[p] = <<d, c>>
      BY <1>3, <3>1
    <3> QED BY <3>1, <3>2
  <2> QED BY <1>1, <1>2, <2>1
<1>5. \A p \in mine : f[p] = p /\ f[p] \in DOMAIN r.serves
  BY <1>1, <1>2, <1>4
<1>6. \A p \in mine : <<HartOf(n.ext[p][1]), n.ext[p][2]>> = r.serves[f[p]]
  BY <1>3, <1>4, <1>5
<1>7. \A k \in DOMAIN r.serves : \E p \in mine : f[p] = k
  BY <1>2, <1>4, <1>5
<1>8. \A p, q \in mine : p < q => f[p] < f[q]
  BY <1>5
<1>9. Matches(f, mine, n, r)
  BY <1>1, <1>5, <1>6, <1>7, <1>8 DEF Matches
<1> QED BY <1>9, InOrderBy

\* The node of a CLINT, of which each of two devices has every other entry.
LEMMA InOrderHalf ==
  ASSUME PhandlesUnique, NEW n, NEW r, NEW i, HartCount(i) \in Nat, NEW irq \in {"M_SOFT", "M_TIMER"},
         ListsHarts(n, i, <<"M_SOFT", "M_TIMER">>), Serves(r, i, <<irq>>)
  PROVE  InOrder(n, r)
<1>1. PICK first, count, f, mine, irqs, own :
        /\ first = FirstHartid(i) /\ count = HartCount(i)
        /\ f = [p \in DOMAIN n.ext |-> ((p - 1) \div 2) + 1]
        /\ mine = { p \in DOMAIN n.ext : n.ext[p][2] \in { r.serves[k][2] : k \in DOMAIN r.serves } }
        /\ irqs = <<"M_SOFT", "M_TIMER">> /\ own = <<irq>>
  OBVIOUS
<1>2. PICK o \in {1, 2} : irq = irqs[o]
  BY <1>1
<1>3. Len(irqs) = 2 /\ Len(own) = 1 /\ own[1] = irq /\ irqs[1] # irqs[2]
  BY <1>1
<1>4. DOMAIN n.ext = 1 .. count * 2 /\ DOMAIN r.serves = 1 .. count /\ count \in Nat
  <2>1. DOMAIN n.ext = 1 .. count * Len(irqs) /\ DOMAIN r.serves = 1 .. count * Len(own)
    BY <1>1, Zenon DEF ListsHarts, Serves
  <2> QED BY <1>1, <1>3, <2>1
<1>5. \A k \in 1 .. count : r.serves[k] = <<first + (k - 1), irq>>
  <2> TAKE k \in 1 .. count
  <2>1. r.serves[k] = <<first + (k - 1) \div Len(own), own[((k - 1) % Len(own)) + 1]>>
    BY <1>1, <1>4, Zenon DEF Serves
  <2>2. (k - 1) \div 1 = k - 1 /\ (k - 1) % 1 = 0 /\ 0 + 1 = 1
    BY <1>4
  <2>3. r.serves[k] = <<first + (k - 1), irq>>
    BY <1>3, <2>1, <2>2
  <2> QED BY <2>3
<1>6. \A p \in 1 .. count * 2 : /\ (p - 1) \div 2 \in 0 .. count - 1 /\ (p - 1) % 2 \in {0, 1}
                                /\ p = (2 * ((p - 1) \div 2)) + ((p - 1) % 2) + 1
  BY <1>4
<1>7. ASSUME NEW p \in DOMAIN n.ext
      PROVE  HartOf(n.ext[p][1]) = first + (p - 1) \div 2 /\ n.ext[p][2] = irqs[((p - 1) % 2) + 1]
  <2>1. PICK h, ph : h = first + (p - 1) \div 2 /\ ph = n.ext[p][1]
    OBVIOUS
  <2>2. IntcOf(n.ext[p][1], first + (p - 1) \div Len(irqs)) /\ n.ext[p][2] = irqs[((p - 1) % Len(irqs)) + 1]
    BY <1>1, Zenon DEF ListsHarts
  <2>3. IntcOf(ph, h) /\ n.ext[p][2] = irqs[((p - 1) % 2) + 1]
    BY <1>3, <2>1, <2>2, Zenon
  <2>4. HartOf(ph) = h
    BY <2>3, HartOfIntc
  <2> QED BY <2>1, <2>3, <2>4
<1>8. \A p \in DOMAIN n.ext : p \in mine <=> n.ext[p][2] = irq
  <2> TAKE p \in DOMAIN n.ext
  <2>1. 1 \in 1 .. count
    BY <1>4
  <2>2. \A k \in 1 .. count : r.serves[k][2] = irq
    BY <1>5
  <2>3. { r.serves[k][2] : k \in DOMAIN r.serves } = {irq}
    BY <1>4, <2>1, <2>2
  <2> QED BY <1>1, <2>3
<1>9. \A p \in DOMAIN n.ext : p \in mine <=> ((p - 1) % 2) + 1 = o
  <2> TAKE p \in DOMAIN n.ext
  <2>1. p \in mine <=> irqs[((p - 1) % 2) + 1] = irqs[o]
    BY <1>2, <1>7, <1>8
  <2>2. ((p - 1) % 2) + 1 \in {1, 2}
    BY <1>4, <1>6
  <2> QED BY <1>3, <2>1, <2>2
<1>10. mine \subseteq DOMAIN n.ext
  BY <1>1
<1>11. ASSUME NEW p \in mine
       PROVE  /\ f[p] \in DOMAIN r.serves
              /\ <<HartOf(n.ext[p][1]), n.ext[p][2]>> = r.serves[f[p]]
  <2>1. p \in 1 .. count * 2 /\ p \in DOMAIN n.ext
    BY <1>4, <1>10
  <2>2. PICK d : d = (p - 1) \div 2 /\ d \in 0 .. count - 1
    BY <1>6, <2>1
  <2>3. f[p] = d + 1 /\ d + 1 \in 1 .. count /\ d + 1 - 1 = d
    <3>1. f[p] = ((p - 1) \div 2) + 1
      BY <1>1, <2>1
    <3>2. count \in Nat /\ d \in 0 .. count - 1
      BY <1>4, <2>2
    <3>3. d + 1 \in 1 .. count /\ d + 1 - 1 = d
      BY <3>2
    <3> QED BY <2>2, <3>1, <3>3
  <2>4. r.serves[d + 1] = <<first + d, irq>>
    <3>1. PICK k \in 1 .. count : k = d + 1 /\ k - 1 = d
      <4>1. \E k \in 1 .. count : k = d + 1
        BY <2>3, Zenon
      <4> QED BY <2>2, <4>1
    <3>2. r.serves[k] = <<first + (k - 1), irq>>
      BY <1>5, Zenon
    <3> QED BY <3>1, <3>2, Zenon
  <2>5. HartOf(n.ext[p][1]) = first + d /\ n.ext[p][2] = irq
    BY <1>7, <1>8, <2>1, <2>2
  <2> QED BY <1>4, <2>3, <2>4, <2>5
<1>12. ASSUME NEW k \in DOMAIN r.serves PROVE \E p \in mine : f[p] = k
  <2>1. PICK p : p = 2 * (k - 1) + o
    OBVIOUS
  <2>2. k \in 1 .. count
    BY <1>4
  <2>3. p \in 1 .. count * 2 /\ (p - 1) \div 2 = k - 1 /\ ((p - 1) % 2) + 1 = o /\ k - 1 + 1 = k
    <3>1. count \in Nat
      BY <1>4
    <3>2. CASE o = 1
      BY <2>1, <2>2, <3>1, <3>2
    <3>3. CASE o = 2
      BY <2>1, <2>2, <3>1, <3>3
    <3> QED BY <3>2, <3>3
  <2>4. p \in mine
    BY <1>4, <1>9, <2>3
  <2>5. f[p] = k
    BY <1>1, <1>4, <2>3
  <2> QED BY <2>4, <2>5
<1>13. ASSUME NEW p \in mine, NEW q \in mine, p < q PROVE f[p] < f[q]
  <2>1. p \in 1 .. count * 2 /\ q \in 1 .. count * 2
    BY <1>4, <1>10
  <2>2. ((p - 1) % 2) + 1 = o /\ ((q - 1) % 2) + 1 = o
    BY <1>9, <1>10
  <2>3. (p - 1) \div 2 < (q - 1) \div 2
    <3>1. count \in Nat
      BY <1>4
    <3> QED BY <1>13, <2>1, <2>2, <3>1
  <2>4. f[p] = ((p - 1) \div 2) + 1 /\ f[q] = ((q - 1) \div 2) + 1
    BY <1>1, <1>4, <2>1
  <2> QED BY <1>4, <2>1, <2>3, <2>4, SMTT(30)
<1>14. Matches(f, mine, n, r)
  BY <1>1, <1>11, <1>12, <1>13, Zenon DEF Matches
<1> QED BY <1>14, InOrderBy

\* Devices that drive one interrupt of each hart.
LEMMA DrivesServe ==
  ASSUME NEW r, NEW i, NEW irq, FirstHartid(i) \in Nat, HartCount(i) \in Nat,
         r.serves = Drives(FirstHartid(i), HartCount(i), irq)
  PROVE  Serves(r, i, <<irq>>)
<1>1. PICK first, count, irqs : first = FirstHartid(i) /\ count = HartCount(i) /\ irqs = <<irq>>
  OBVIOUS
<1>2. r.serves = [k \in 1 .. count |-> <<first + k - 1, irq>>]
  BY <1>1, Zenon DEF Drives
<1>3. first \in Nat /\ count \in Nat /\ Len(irqs) = 1 /\ irqs[1] = irq /\ count * Len(irqs) = count
  BY <1>1
<1>4. ASSUME NEW p \in 1 .. count
      PROVE  r.serves[p] = <<first + (p - 1) \div Len(irqs), irqs[((p - 1) % Len(irqs)) + 1]>>
  <2>1. (p - 1) \div 1 = p - 1 /\ ((p - 1) % 1) + 1 = 1 /\ first + (p - 1) = first + p - 1
    BY <1>3
  <2>2. r.serves[p] = <<first + p - 1, irq>>
    BY <1>2
  <2> QED BY <1>3, <2>1, <2>2
<1>5. DOMAIN r.serves = 1 .. count * Len(irqs)
  BY <1>2, <1>3
<1>6. DOMAIN r.serves = 1 .. count
  BY <1>2
<1> QED BY <1>1, <1>4, <1>5, <1>6, Zenon DEF Serves

\* So the timers do.
DeviceIrq == [mtimer |-> "M_TIMER", mswi |-> "M_SOFT", sswi |-> "S_SOFT"]

\* A timer device has one line to each hart of its socket, for the one interrupt.
LEMMA TimerServes ==
  ASSUME NEW i, NEW r \in TimerRegions(i)
  PROVE  r.serves = Drives(FirstHartid(i), HartCount(i), DeviceIrq[r.dev])
<1>1. \A dev, n, at, serves : Region(dev, n, at, serves).dev = dev /\ Region(dev, n, at, serves).serves = serves
  BY DEF Region
<1>2. PICK first, count : first = FirstHartid(i) /\ count = HartCount(i)
  OBVIOUS
<1>3. \E at : \/ r = Region("mtimer", i, at, Drives(first, count, "M_TIMER"))
              \/ r = Region("mswi", i, at, Drives(first, count, "M_SOFT"))
              \/ r = Region("sswi", i, at, Drives(first, count, "S_SOFT"))
  <2>1. PICK clint, sswi : clint = Nth(aislab_memmap.CLINT, i) /\ sswi = Nth(aislab_memmap.ACLINT_SSWI, i)
    OBVIOUS
  <2> DEFINE m(base) == Region("mtimer", i, At(base, RISCV_ACLINT_DEFAULT_MTIMER_SIZE),
                               Drives(first, count, "M_TIMER"))
             s == Region("mswi", i, At(clint.base, RISCV_ACLINT_SWI_SIZE), Drives(first, count, "M_SOFT"))
             u == Region("sswi", i, At(sswi.base, RISCV_ACLINT_SWI_SIZE), Drives(first, count, "S_SOFT"))
  <2>2. TimerRegions(i) = CASE HaveAclint /\ Imsic ->
                                 {m(aislab_memmap.CLINT.base + i * RISCV_ACLINT_DEFAULT_MTIMER_SIZE)}
                            [] HaveAclint /\ ~Imsic -> {s, m(clint.base + RISCV_ACLINT_SWI_SIZE), u}
                            [] ~HaveAclint /\ Tcg -> {s, m(clint.base + RISCV_ACLINT_SWI_SIZE)}
                            [] OTHER -> {}
    BY <1>2, <2>1, Zenon DEF TimerRegions
  <2>3. r = s \/ r = u \/ \E base : r = m(base)
    <3> HIDE DEF m, s, u
    <3> QED BY <2>2
  <2> QED BY <2>3
<1>4. DeviceIrq["mtimer"] = "M_TIMER" /\ DeviceIrq["mswi"] = "M_SOFT" /\ DeviceIrq["sswi"] = "S_SOFT"
  BY DEF DeviceIrq
<1> QED BY <1>1, <1>2, <1>3, <1>4

\* Where a node for the harts of the socket is, that one lists them.
LEMMA ServedBy ==
  ASSUME Ready, NEW i \in Sockets, NEW r, NEW entry, NEW irqs, NEW own, Lister(entry, i, irqs),
         Inside(r, entry), Serves(r, i, own),
         \/ own = irqs /\ Len(irqs) \in {1, 2}
         \/ irqs = <<"M_SOFT", "M_TIMER">> /\ own \in {<<"M_SOFT">>, <<"M_TIMER">>}
  PROVE  \E n \in tree : Describes(n, r) /\ InOrder(n, r)
<1>1. PICK n \in tree : n.reg = <<entry>> /\ ListsHarts(n, i, irqs)
  BY Zenon DEF Lister
<1>2. Describes(n, r)
  <2>1. 1 \in DOMAIN n.reg /\ n.reg[1] = entry
    BY <1>1
  <2> QED BY <2>1 DEF Describes
<1>3. PhandlesUnique /\ HartCount(i) \in Nat
  <2>1. cfg \in Configs
    BY ReadyNumbers
  <2> QED BY <2>1, HartsCounted DEF Ready, TypesInv, PhandlesInv
<1>4. InOrder(n, r)
  <2>1. CASE own = irqs /\ Len(irqs) \in {1, 2}
    BY <1>1, <1>3, <2>1, InOrderSame
  <2>2. CASE irqs = <<"M_SOFT", "M_TIMER">> /\ own \in {<<"M_SOFT">>, <<"M_TIMER">>}
    <3>1. PICK irq \in {"M_SOFT", "M_TIMER"} : own = <<irq>>
      BY <2>2
    <3> QED BY <1>1, <1>3, <2>2, <3>1, InOrderHalf, Zenon
  <2> QED BY <2>1, <2>2
<1> QED BY <1>2, <1>4

\* A timer is in the range of the node that is for it.
LEMMA TimersServed ==
  ASSUME Ready, HartsInv, NEW r \in board, r.dev \in {"mswi", "mtimer", "sswi"}
  PROVE  \E n \in tree : Describes(n, r) /\ InOrder(n, r)
<1>1. PICK i \in Sockets : r \in TimerRegions(i) /\ Timer(r, i) /\ i \in {0, 1, 2, 3}
  BY TimerOwner
<1>2. i \in Nat /\ (HaveAclint \/ Tcg)
  BY <1>1, TimerNumbers
<1>3. PICK own : own = <<DeviceIrq[r.dev]>> /\ Serves(r, i, own)
  <2>1. FirstHartid(i) \in Nat /\ HartCount(i) \in Nat
    BY ReadyNumbers, HartsInRow
  <2> QED BY <1>1, <2>1, TimerServes, DrivesServe
<1>4. PICK c, m, w, s : /\ c = TimerEntry("clint", i) /\ m = TimerEntry("mtimer", i)
                        /\ w = TimerEntry("mswi", i) /\ s = TimerEntry("sswi", i)
  OBVIOUS
<1>5. /\ c.base = 131072 + i * 256 /\ c.size = 256
      /\ Imsic => m.base = 131072 + i * 128 /\ m.size = 128
      /\ ~Imsic => m.base = 131136 + i * 256 /\ m.size = 192
      /\ w.base = 131072 + i * 256 /\ w.size = 64
      /\ s.base = 192512 + i * 64 /\ s.size = 64
  <2>1. /\ TimerEntry("clint", i).base = 131072 + i * 256 /\ TimerEntry("clint", i).size = 256
        /\ TimerEntry("mtimer", i).base = IF Imsic THEN 131072 + i * 128 ELSE 131136 + i * 256
        /\ TimerEntry("mtimer", i).size = IF Imsic THEN 128 ELSE 192
        /\ TimerEntry("mswi", i).base = 131072 + i * 256 /\ TimerEntry("mswi", i).size = 64
        /\ TimerEntry("sswi", i).base = 192512 + i * 64 /\ TimerEntry("sswi", i).size = 64
    BY <1>2, TimerEntries, SMT
  <2> QED BY <1>1, <1>4, <2>1, SMT
<1>6. \A kind \in TimerKinds : Lister(TimerEntry(kind, i), i, TimerIrqs[kind])
  BY ReadyListed, Zenon DEF SocketListed
<1>7. /\ TimerIrqs["clint"] = <<"M_SOFT", "M_TIMER">> /\ TimerIrqs["mtimer"] = <<"M_TIMER">>
      /\ TimerIrqs["mswi"] = <<"M_SOFT">> /\ TimerIrqs["sswi"] = <<"S_SOFT">>
      /\ DeviceIrq["mtimer"] = "M_TIMER" /\ DeviceIrq["mswi"] = "M_SOFT" /\ DeviceIrq["sswi"] = "S_SOFT"
  BY DEF TimerIrqs, DeviceIrq
<1>8. ASSUME NEW kind \in TimerKinds, kind = r.dev, Inside(r, TimerEntry(kind, i))
      PROVE  \E n \in tree : Describes(n, r) /\ InOrder(n, r)
  <2>1. own = TimerIrqs[kind] /\ Len(own) \in {1, 2}
    BY <1>3, <1>7, <1>8
  <2>2. PICK entry, irqs : entry = TimerEntry(kind, i) /\ irqs = TimerIrqs[kind]
    OBVIOUS
  <2>3. Lister(entry, i, irqs)
    BY <1>6, <2>2
  <2>4. Inside(r, entry) /\ own = irqs /\ Len(irqs) \in {1, 2}
    BY <1>8, <2>1, <2>2
  <2> QED BY <1>3, <2>3, <2>4, ServedBy
<1>9. CASE HaveAclint /\ Imsic
  <2>1. r.dev = "mtimer" /\ Inside(r, m) /\ "mtimer" \in TimerKinds
    BY <1>1, <1>2, <1>5, <1>9, SMT DEF Timer, TimerKinds, Inside
  <2> QED BY <1>4, <1>8, <2>1
<1>10. CASE HaveAclint /\ ~Imsic
  <2>1. TimerKinds = {"mtimer", "mswi", "sswi"}
    BY <1>10 DEF TimerKinds
  <2>2. \/ r.dev = "mtimer" /\ Inside(r, m)
        \/ r.dev = "mswi" /\ Inside(r, w)
        \/ r.dev = "sswi" /\ Inside(r, s)
    BY <1>1, <1>2, <1>5, <1>10, SMT DEF Timer, Inside
  <2> QED BY <1>4, <1>8, <2>1, <2>2
<1>11. CASE ~HaveAclint
  <2>1. TimerKinds = {"clint"}
    BY <1>2, <1>11 DEF TimerKinds
  <2>2. Inside(r, c) /\ r.dev \in {"mtimer", "mswi"}
    BY <1>1, <1>2, <1>5, <1>11, SMT DEF Timer, Inside
  <2>3. PICK irqs : irqs = <<"M_SOFT", "M_TIMER">> /\ Lister(c, i, irqs)
    BY <1>4, <1>6, <1>7, <2>1
  <2>4. own \in {<<"M_SOFT">>, <<"M_TIMER">>}
    BY <1>3, <1>7, <2>2
  <2> QED BY <1>3, <2>2, <2>3, <2>4, ServedBy
<1> QED BY <1>9, <1>10, <1>11

\* The contexts of a PLIC: M and S of one hart after the other, under KVM only S.
LEMMA PlicServes ==
  ASSUME NEW i, NEW r \in PlicRegions(i), FirstHartid(i) \in Nat, HartCount(i) \in Nat
  PROVE  Serves(r, i, PlicIrqs) /\ \E serves : r = Region("plic", i, Nth(aislab_memmap.PLIC, i), serves)
<1>1. PICK first, count, serves :
        /\ first = FirstHartid(i) /\ count = HartCount(i)
        /\ serves = IF Kvm THEN Drives(first, count, "S_EXT")
                    ELSE [k \in 1 .. 2 * count |->
                            <<first + (k - 1) \div 2, IF k % 2 = 1 THEN "M_EXT" ELSE "S_EXT">>]
  OBVIOUS
<1>2. r = Region("plic", i, Nth(aislab_memmap.PLIC, i), serves)
  BY <1>1, Zenon DEF PlicRegions
<1>3. r.serves = serves
  BY <1>2 DEF Region
<1>4. CASE Kvm
  <2>1. Serves(r, i, <<"S_EXT">>)
    BY <1>1, <1>3, <1>4, DrivesServe
  <2> QED BY <1>2, <1>4, <2>1 DEF PlicIrqs
<1>5. CASE ~Kvm
  <2>1. PICK irqs : irqs = <<"M_EXT", "S_EXT">>
    OBVIOUS
  <2>2. Len(irqs) = 2 /\ irqs[1] = "M_EXT" /\ irqs[2] = "S_EXT" /\ irqs = PlicIrqs
    BY <1>5, <2>1 DEF PlicIrqs
  <2>3. count * Len(irqs) = 2 * count /\ count \in Nat
    BY <1>1, <2>2
  <2>4. serves = [k \in 1 .. 2 * count |->
                    <<first + (k - 1) \div 2, IF k % 2 = 1 THEN "M_EXT" ELSE "S_EXT">>]
    BY <1>1, <1>5
  <2>5. ASSUME NEW p \in 1 .. 2 * count
        PROVE  serves[p] = <<first + (p - 1) \div Len(irqs), irqs[((p - 1) % Len(irqs)) + 1]>>
    <3>1. serves[p] = <<first + (p - 1) \div 2, IF p % 2 = 1 THEN "M_EXT" ELSE "S_EXT">>
      BY <2>4
    <3>2. /\ p % 2 = 1 => ((p - 1) % 2) + 1 = 1
          /\ p % 2 # 1 => ((p - 1) % 2) + 1 = 2
      BY <2>3
    <3>3. irqs[((p - 1) % 2) + 1] = IF p % 2 = 1 THEN "M_EXT" ELSE "S_EXT"
      BY <2>2, <3>2
    <3> QED BY <2>2, <3>1, <3>3
  <2>6. DOMAIN serves = 1 .. 2 * count
    BY <2>4
  <2>7. DOMAIN r.serves = 1 .. HartCount(i) * Len(irqs)
    BY <1>1, <1>3, <2>3, <2>6
  <2>8. \A p \in DOMAIN r.serves :
          r.serves[p] = <<FirstHartid(i) + (p - 1) \div Len(irqs), irqs[((p - 1) % Len(irqs)) + 1]>>
    <3> SUFFICES ASSUME NEW p \in 1 .. 2 * count
                 PROVE  r.serves[p] = <<FirstHartid(i) + (p - 1) \div Len(irqs), irqs[((p - 1) % Len(irqs)) + 1]>>
      BY <1>3, <2>6
    <3>1. first = FirstHartid(i) /\ r.serves = serves
      BY <1>1, <1>3
    <3> QED BY <2>5, <3>1, Zenon
  <2>9. Serves(r, i, irqs)
    BY <2>7, <2>8, Zenon DEF Serves
  <2>10. irqs = PlicIrqs
    BY <2>2
  <2> QED BY <1>2, <2>9, <2>10
<1> QED BY <1>4, <1>5

\* A controller is where the node that is for it says.
LEMMA ChipsServed ==
  ASSUME Ready, HartsInv, NEW r \in board, r.dev \in {"plic", "aplic_m", "aplic_s"}, r.serves # <<>>
  PROVE  \E n \in tree : Describes(n, r) /\ InOrder(n, r)
<1>1. cfg \in Configs /\ XplicSockets \subseteq Sockets
  BY ReadyNumbers, ChipSockets
<1>2. \A i \in Sockets : FirstHartid(i) \in Nat /\ HartCount(i) \in Nat
  BY ReadyNumbers, HartsInRow
<1>3. PICK i \in Sockets :
        \/ cfg.aia = "none" /\ r \in PlicRegions(i)
        \/ cfg.aia # "none" /\ r = AplicRegion(i, "aplic_s", aislab_memmap.APLIC_S, "S_EXT")
        \/ cfg.aia # "none" /\ ~Kvm /\ r = AplicRegion(i, "aplic_m", aislab_memmap.APLIC_M, "M_EXT")
  <2>1. \A j : r \notin TimerRegions(j)
    BY KindsOfDevices
  <2>2. \A j, dev, entry, irq, guests : dev \in {"imsic_s", "imsic_m"} => r \notin ImsicRegions(j, dev, entry, irq, guests)
    BY KindsOfDevices
  <2>3. \A p \in BoardStages \ {"sockets"} : r \notin Adds(p)
    BY KindsOfDevices
  <2> QED BY <1>1, <2>1, <2>2, <2>3, BoardByKind
<1>4. ASSUME NEW dev, NEW n, NEW at, NEW serves, r = Region(dev, n, at, serves) PROVE Inside(r, at)
  <2>1. r.base = at.base /\ r.size = at.size
    BY <1>4 DEF Region
  <2>2. r.base \in Nat /\ r.size \in Nat
    BY ReadyRegions DEF InSlot
  <2> QED BY <2>1, <2>2 DEF Inside
<1>5. CASE cfg.aia = "none" /\ r \in PlicRegions(i)
  <2>1. PICK entry, irqs : entry = Nth(aislab_memmap.PLIC, i) /\ irqs = PlicIrqs
    OBVIOUS
  <2>2. Inside(r, entry) /\ Serves(r, i, irqs)
    BY <1>2, <1>4, <1>5, <2>1, PlicServes
  <2>3. Lister(entry, i, irqs)
    <3>1. ChipListers(i)
      BY <1>5, ReadyListed DEF Imsic
    <3> QED BY <1>5, <2>1, <3>1, Zenon DEF ChipListers
  <2>4. Len(irqs) \in {1, 2}
    BY <2>1 DEF PlicIrqs
  <2> QED BY <2>2, <2>3, <2>4, ServedBy
<1>6. ASSUME NEW dev, NEW map, NEW irq, r = AplicRegion(i, dev, map, irq),
             ~Imsic => Lister(Nth(map, i), i, <<irq>>)
      PROVE  \E n \in tree : Describes(n, r) /\ InOrder(n, r)
  <2>1. PICK entry, irqs : entry = Nth(map, i) /\ irqs = <<irq>>
    OBVIOUS
  <2>2. PICK serves : /\ serves = (IF Imsic THEN <<>> ELSE Drives(FirstHartid(i), HartCount(i), irq))
                      /\ r = Region(dev, i, entry, serves)
    BY <1>6, <2>1, Zenon DEF AplicRegion
  <2>3. r.serves = serves
    BY <2>2 DEF Region
  <2>4. ~Imsic /\ r.serves = Drives(FirstHartid(i), HartCount(i), irq)
    BY <2>2, <2>3
  <2>5. Inside(r, entry) /\ Serves(r, i, irqs)
    BY <1>2, <1>4, <2>1, <2>2, <2>4, DrivesServe
  <2>6. Lister(entry, i, irqs) /\ Len(irqs) \in {1, 2}
    BY <1>6, <2>1, <2>4
  <2> QED BY <2>5, <2>6, ServedBy
<1>7. cfg.aia # "none" /\ ~Imsic => /\ Lister(Nth(aislab_memmap.APLIC_S, i), i, <<"S_EXT">>)
                                    /\ ~Kvm => Lister(Nth(aislab_memmap.APLIC_M, i), i, <<"M_EXT">>)
  BY ReadyListed, Zenon DEF ChipListers
<1> QED BY <1>3, <1>5, <1>6, <1>7

\* Every device that drives harts, but for the files of an IMSIC, has its node.
LEMMA ReadyServed ==
  ASSUME Ready, HartsInv
  PROVE  HartsServed
<1> SUFFICES ASSUME NEW r \in board, r.serves # <<>>, r.dev \notin {"imsic_m", "imsic_s"}
             PROVE  \E n \in tree : Describes(n, r) /\ InOrder(n, r)
  BY DEF HartsServed
<1>1. r.dev \in {"mswi", "mtimer", "sswi", "plic", "aplic_m", "aplic_s"}
  <2>1. \A dev, n, at, serves : Region(dev, n, at, serves).serves = serves
    BY DEF Region
  <2>2. \A dev, at : Plain(dev, at).serves = <<>>
    BY <2>1 DEF Plain
  <2>3. \A q \in AllVirtio : q.serves = <<>>
    BY <2>1 DEF AllVirtio
  <2>4. \A q \in AllFlash : q.serves = <<>>
    BY <2>1 DEF AllFlash
  <2>5. \A p \in BoardStages \ {"sockets"} : r \notin Adds(p)
    BY <2>2, <2>3, <2>4 DEF Adds, BoardStages
  <2>6. \A j, dev, entry, irq, guests : dev \in {"imsic_s", "imsic_m"} => r \notin ImsicRegions(j, dev, entry, irq, guests)
    BY KindsOfDevices
  <2>7. \/ \E i \in Sockets : r \in TimerRegions(i)
        \/ \E i \in XplicSockets : r \in PlicRegions(i)
        \/ \E i \in XplicSockets : \/ r = AplicRegion(i, "aplic_s", aislab_memmap.APLIC_S, "S_EXT")
                                   \/ r = AplicRegion(i, "aplic_m", aislab_memmap.APLIC_M, "M_EXT")
    BY <2>5, <2>6, BoardByKind
  <2> QED BY <2>7, KindsOfDevices
<1> QED BY <1>1, TimersServed, ChipsServed

-----------------------------------------------------------------------------
(* The files of an IMSIC *)

\* f[k] is the sum of the first k of d.
Sums(f, len, d) == f = [k \in 0 .. len |-> IF k = 0 THEN 0 ELSE f[k - 1] + d[k]]

\* A sum over so few ranges is what its equation says, step by step.
LEMMA OneSum ==
  ASSUME NEW len \in 0 .. 4, NEW d, NEW f, NEW g, Sums(f, len, d), Sums(g, len, d)
  PROVE  f = g
<1>1. \A k \in 0 .. len : /\ f[k] = (IF k = 0 THEN 0 ELSE f[k - 1] + d[k])
                          /\ g[k] = (IF k = 0 THEN 0 ELSE g[k - 1] + d[k])
  BY DEF Sums
<1>2. f[0] = g[0]
  BY <1>1
<1>3. 1 \in 0 .. len => f[1] = g[1]
  BY <1>1, <1>2
<1>4. 2 \in 0 .. len => f[2] = g[2]
  BY <1>1, <1>3
<1>5. 3 \in 0 .. len => f[3] = g[3]
  BY <1>1, <1>4
<1>6. 4 \in 0 .. len => f[4] = g[4]
  BY <1>1, <1>5
<1>7. \A k \in 0 .. len : f[k] = g[k]
  <2> SUFFICES ASSUME NEW k \in 0 .. len PROVE f[k] = g[k]
    OBVIOUS
  <2>1. k \in {0, 1, 2, 3, 4}
    OBVIOUS
  <2> QED BY <2>1, <1>2, <1>3, <1>4, <1>5, <1>6
<1> QED BY <1>7 DEF Sums

\* As many files as fit in a range.
LEMMA FilesFit ==
  ASSUME NEW guests \in GuestNumbers, NEW count \in Nat
  PROVE  LET stride == IMSIC_HART_SIZE(aislab_imsic_num_bits(guests + 1)) IN
         /\ stride \in Nat /\ (stride * count) \div stride = count
         /\ (guests + 1) * IMSIC_PAGE <= stride
<1>1. PICK s : s = IMSIC_HART_SIZE(aislab_imsic_num_bits(guests + 1))
  OBVIOUS
<1>2. s \in {16, 32, 48, 64, 80, 96, 112, 128} /\ (guests + 1) * 16 \in 1 .. s
  BY <1>1, NumBits, SMT DEF GuestNumbers, AISLAB_IRQCHIP_MAX_GUESTS, IMSIC_HART_SIZE, IMSIC_PAGE, KiB
<1>3. IMSIC_PAGE = 16
  BY SMT DEF IMSIC_PAGE, KiB
<1>4. (s * count) \div s = count
  <2>1. /\ (16 * count) \div 16 = count /\ (32 * count) \div 32 = count
        /\ (48 * count) \div 48 = count /\ (64 * count) \div 64 = count
        /\ (80 * count) \div 80 = count /\ (96 * count) \div 96 = count
        /\ (112 * count) \div 112 = count /\ (128 * count) \div 128 = count
    OBVIOUS
  <2> QED BY <1>2, <2>1
<1>5. (guests + 1) * IMSIC_PAGE <= s /\ s \in Nat
  BY <1>2, <1>3
<1> QED BY <1>1, <1>4, <1>5, Zenon

\* The places before those of the files of a socket.
LEMMA PlacesBefore ==
  ASSUME Ready, NEW n, NEW entry, NEW guests \in GuestNumbers,
         n.reg = ImsicRanges(entry, aislab_imsic_num_bits(guests + 1)),
         n.bits.guest = aislab_imsic_num_bits(guests + 1)
  PROVE  /\ Len(n.reg) = cfg.sockets
         /\ \A g \in 1 .. cfg.sockets :
              /\ n.reg[g].size \div IMSIC_HART_SIZE(n.bits.guest) = HartCount(g - 1)
              /\ Before(n, g) = HartsUpTo(g - 2)
<1>1. PICK bits, stride, len : /\ bits = aislab_imsic_num_bits(guests + 1)
                               /\ stride = IMSIC_HART_SIZE(bits) /\ len = cfg.sockets
  OBVIOUS
<1>2. cfg \in Configs /\ len \in 1 .. 4
  BY <1>1, ReadyNumbers
<1>3. DOMAIN n.reg = 1 .. len /\ Len(n.reg) = len
  BY <1>1, <1>2 DEF ImsicRanges
<1>4. \A g \in 1 .. len : n.reg[g].size \div stride = HartCount(g - 1)
  <2> SUFFICES ASSUME NEW g \in 1 .. len PROVE n.reg[g].size \div stride = HartCount(g - 1)
    OBVIOUS
  <2>1. PICK count : count = HartCount(g - 1)
    OBVIOUS
  <2>2. g \in 1 .. cfg.sockets
    BY <1>1
  <2>3. ImsicRanges(entry, bits)[g].size = IMSIC_HART_SIZE(bits) * HartCount(g - 1)
    BY <2>2, ImsicRange, Zenon
  <2>4. n.reg[g].size = stride * count
    BY <1>1, <2>1, <2>3, Zenon
  <2>5. count \in Nat
    BY <1>2, <2>1, HartsCounted
  <2>6. (stride * count) \div stride = count
    BY <1>1, <2>5, FilesFit, Zenon
  <2> QED BY <2>1, <2>4, <2>6
<1>5. PICK d : d = [k \in 1 .. len |-> n.reg[k].size \div stride]
  OBVIOUS
<1>6. PICK sum : sum = [k \in 0 .. len |-> HartsUpTo(k - 1)]
  OBVIOUS
<1>7. Sums(sum, len, d)
  <2> SUFFICES ASSUME NEW k \in 0 .. len
               PROVE  HartsUpTo(k - 1) = IF k = 0 THEN 0 ELSE sum[k - 1] + d[k]
    BY <1>6 DEF Sums
  <2>1. CASE k = 0
    BY <1>2, <2>1, HartsCounted
  <2>2. CASE k # 0
    <3>1. k \in 1 .. len /\ k - 1 \in 0 .. len /\ k - 1 \in Int /\ (k - 1) - 1 \in Int
      BY <1>2, <2>2
    <3>2. HartsUpTo(k - 1) = HartsUpTo((k - 1) - 1) + HartCount(k - 1)
      BY <1>2, <3>1, HartsCounted
    <3>3. sum[k - 1] = HartsUpTo((k - 1) - 1)
      BY <1>6, <3>1
    <3>4. d[k] = HartCount(k - 1)
      BY <1>4, <1>5, <3>1
    <3> QED BY <2>2, <3>2, <3>3, <3>4
  <2> QED BY <2>1, <2>2
<1>8. ASSUME NEW g \in 1 .. len PROVE Before(n, g) = HartsUpTo(g - 2)
  <2> DEFINE Own(f) == f = [k \in 0 .. Len(n.reg) |->
                               IF k = 0 THEN 0 ELSE f[k - 1] + n.reg[k].size \div IMSIC_HART_SIZE(n.bits.guest)]
  <2>1. Before(n, g) = (CHOOSE f : Own(f))[g - 1]
    BY Zenon DEF Before
  <2>2. \A f : Own(f) <=> Sums(f, len, d)
    <3>1. n.bits.guest = bits /\ IMSIC_HART_SIZE(n.bits.guest) = stride
      BY <1>1
    <3>2. ASSUME NEW f
          PROVE  [k \in 0 .. Len(n.reg) |->
                    IF k = 0 THEN 0 ELSE f[k - 1] + n.reg[k].size \div IMSIC_HART_SIZE(n.bits.guest)]
                 = [k \in 0 .. len |-> IF k = 0 THEN 0 ELSE f[k - 1] + d[k]]
      <4>1. \A k \in 0 .. len : k # 0 => d[k] = n.reg[k].size \div IMSIC_HART_SIZE(n.bits.guest)
        BY <1>2, <1>5, <3>1
      <4>2. 0 .. Len(n.reg) = 0 .. len
        BY <1>3
      <4> QED BY <4>1, <4>2, Zenon
    <3> QED BY <3>2, Zenon DEF Sums
  <2>3. \A f : Own(f) <=> f = sum
    <3>1. len \in 0 .. 4
      BY <1>2
    <3> HIDE DEF Own
    <3> QED BY <1>7, <2>2, <3>1, OneSum, Zenon
  <2>4. (CHOOSE f : Own(f)) = sum
    <3> HIDE DEF Own
    <3> QED BY <2>3
  <2>5. sum[g - 1] = HartsUpTo(g - 2)
    <3>1. g - 1 \in 0 .. len /\ (g - 1) - 1 = g - 2
      BY <1>2
    <3> QED BY <1>6, <3>1
  <2> QED BY <2>1, <2>4, <2>5, Zenon
<1> QED BY <1>1, <1>3, <1>4, <1>8

\* The k-th file of range g of a node is that of the hart the node lists there.
FileFound(n, g, k) ==
  LET stride == IMSIC_HART_SIZE(n.bits.guest)
      place == Before(n, g) + k + 1
      cell == n.ext[place]
  IN  /\ place \in DOMAIN n.ext
      /\ \E r \in board : /\ r.dev \in StandsFor["imsic"]
                          /\ r.base = n.reg[g].base + k * stride
                          /\ r.size <= stride
                          /\ r.serves = << <<HartOf(cell[1]), cell[2]>> >>
      /\ Len(n.reg) > 1 => k < BIT(n.bits.hart) /\ g - 1 < BIT(n.bits.group)

\* A node lists the harts of the files of one mode, place by place.
LEMMA FilesFound ==
  ASSUME Ready, NEW dev \in {"imsic_m", "imsic_s"}, NEW entry, NEW irq, NEW guests \in GuestNumbers,
         entry.base \in Nat,
         \A j \in Sockets : ImsicRegions(j, dev, entry, irq, guests) \subseteq board,
         NEW n, ListsFiles(n, entry, irq, guests), NEW g \in 1 .. cfg.sockets, NEW k \in 0 .. HartCount(g - 1) - 1
  PROVE  FileFound(n, g, k)
<1>1. PICK i, stride, first, count :
        /\ i = g - 1 /\ stride = IMSIC_HART_SIZE(aislab_imsic_num_bits(guests + 1))
        /\ first = FirstHartid(i) /\ count = HartCount(i)
  OBVIOUS
<1>2. cfg \in Configs /\ cfg.sockets \in Nat /\ g \in Nat /\ PhandlesUnique
  BY ReadyNumbers DEF Ready, TypesInv, PhandlesInv
<1>3. i \in Sockets /\ SocketHasHartids(i) /\ i \in Nat
  BY <1>1, <1>2, ReadyNumbers DEF Sockets
<1>4. first \in Nat /\ count \in Nat \ {0} /\ Harts(i) = first .. first + count - 1
  BY <1>1, <1>2, <1>3, HartsInRow
<1>5. /\ n.reg = ImsicRanges(entry, aislab_imsic_num_bits(guests + 1))
      /\ n.bits.guest = aislab_imsic_num_bits(guests + 1)
      /\ ListsGroup(n, i, irq)
  BY <1>3, Zenon DEF ListsFiles
<1>6. Len(n.reg) = cfg.sockets /\ Before(n, g) = HartsUpTo(g - 2)
  BY <1>5, PlacesBefore, Zenon
<1>7. stride = IMSIC_HART_SIZE(n.bits.guest) /\ stride \in Nat /\ (guests + 1) * IMSIC_PAGE <= stride
  <2>1. stride \in Nat /\ (guests + 1) * IMSIC_PAGE <= stride
    BY <1>1, <1>4, FilesFit, Zenon
  <2> QED BY <1>1, <1>5, <2>1
<1>8. n.reg[g].base = entry.base + i * AISLAB_IMSIC_GROUP_MAX_SIZE
  <2>1. ImsicRanges(entry, aislab_imsic_num_bits(guests + 1))[g].base
          = entry.base + (g - 1) * AISLAB_IMSIC_GROUP_MAX_SIZE
    BY ImsicRange, Zenon
  <2> QED BY <1>1, <1>5, <2>1, Zenon
<1>9. PICK place, ph : /\ place = HartsUpTo(i - 1) + k + 1 /\ ph = n.ext[place][1]
  OBVIOUS
<1>10. k \in 0 .. HartCount(i) - 1
  BY <1>1
<1>11. /\ place \in DOMAIN n.ext /\ IntcOf(ph, first + k) /\ n.ext[place][2] = irq
       /\ cfg.sockets > 1 => k < BIT(n.bits.hart) /\ i < BIT(n.bits.group)
  BY <1>1, <1>5, <1>9, <1>10, Zenon DEF ListsGroup
<1>12. Before(n, g) + k + 1 = place
  <2>1. g - 2 = i - 1
    BY <1>1, <1>2
  <2> QED BY <1>6, <1>9, <2>1
<1>13. HartOf(ph) = first + k
  BY <1>2, <1>11, HartOfIntc, Zenon
<1>14. PICK h, r : /\ h = first + k
                   /\ r = Region(dev, h, At((entry.base + i * AISLAB_IMSIC_GROUP_MAX_SIZE) + (h - first) * stride,
                                            (guests + 1) * IMSIC_PAGE), << <<h, irq>> >>)
  OBVIOUS
<1>15. h \in Harts(i) /\ h - first = k
  <2>1. k \in 0 .. count - 1
    BY <1>1, <1>10, Zenon
  <2>2. h = first + k
    BY <1>14
  <2> QED BY <1>4, <2>1, <2>2
<1>16. r \in board
  <2>1. r \in ImsicRegions(i, dev, entry, irq, guests)
    BY <1>1, <1>14, <1>15, Zenon DEF ImsicRegions
  <2> QED BY <1>3, <2>1
<1>17. /\ r.dev = dev /\ r.base = (entry.base + i * AISLAB_IMSIC_GROUP_MAX_SIZE) + (h - first) * stride
       /\ r.size = (guests + 1) * IMSIC_PAGE /\ r.serves = << <<h, irq>> >>
  BY <1>14, Zenon DEF Region, At
<1>18. /\ r.dev \in StandsFor["imsic"] /\ r.base = n.reg[g].base + k * stride /\ r.size <= stride
       /\ r.serves = << <<HartOf(ph), n.ext[place][2]>> >>
  <2>1. r.dev \in StandsFor["imsic"]
    BY <1>17, StandsForIs
  <2>2. r.base = n.reg[g].base + k * stride
    BY <1>8, <1>15, <1>17, Zenon
  <2>3. r.size <= stride
    BY <1>7, <1>17
  <2>4. r.serves = << <<HartOf(ph), n.ext[place][2]>> >>
    BY <1>11, <1>13, <1>14, <1>17, Zenon
  <2> QED BY <2>1, <2>2, <2>3, <2>4
<1>19. Len(n.reg) > 1 => k < BIT(n.bits.hart) /\ g - 1 < BIT(n.bits.group)
  BY <1>1, <1>6, <1>11
<1> QED BY <1>7, <1>9, <1>11, <1>12, <1>16, <1>18, <1>19, Zenon DEF FileFound

\* Every IMSIC node does.
LEMMA ReadyFiles ==
  ASSUME Ready, HartsInv
  PROVE  ImsicFilesFound
<1> SUFFICES ASSUME NEW n \in tree, n.kind = "imsic", NEW g \in DOMAIN n.reg,
                    NEW k \in 0 .. (n.reg[g].size \div IMSIC_HART_SIZE(n.bits.guest)) - 1
             PROVE  FileFound(n, g, k)
  BY Zenon DEF ImsicFilesFound, FileFound
<1>1. Imsic /\ ImsicNodeListed(n)
  BY ReadyListed DEF ImsicNodeListed
<1>2. cfg \in Configs /\ cfg.guests \in GuestNumbers /\ 0 \in GuestNumbers
  BY ReadyNumbers, ConfigAssumption, SMT DEF GuestNumbers, AISLAB_IRQCHIP_MAX_GUESTS
<1>3. ASSUME NEW dev \in {"imsic_m", "imsic_s"}, NEW entry, NEW irq, NEW guests \in GuestNumbers,
             entry.base \in Nat, \A j \in Sockets : ImsicRegions(j, dev, entry, irq, guests) \subseteq board,
             ListsFiles(n, entry, irq, guests)
      PROVE  FileFound(n, g, k)
  <2>1. /\ n.reg = ImsicRanges(entry, aislab_imsic_num_bits(guests + 1))
        /\ n.bits.guest = aislab_imsic_num_bits(guests + 1)
    BY <1>3, Zenon DEF ListsFiles
  <2>2. g \in 1 .. cfg.sockets
    BY <2>1 DEF ImsicRanges
  <2>3. n.reg[g].size \div IMSIC_HART_SIZE(n.bits.guest) = HartCount(g - 1)
    BY <2>1, <2>2, PlacesBefore, Zenon
  <2>4. k \in 0 .. HartCount(g - 1) - 1
    BY <2>3
  <2> QED BY <1>3, <2>2, <2>4, FilesFound, ZenonT(60)
<1>4. CASE ~Kvm /\ ListsFiles(n, aislab_memmap.IMSIC_M, "M_EXT", 0)
  <2>1. PICK entry : entry = aislab_memmap.IMSIC_M
    OBVIOUS
  <2>2. /\ entry.base \in Nat /\ ListsFiles(n, entry, "M_EXT", 0)
        /\ \A j \in Sockets : ImsicRegions(j, "imsic_m", entry, "M_EXT", 0) \subseteq board
    BY <1>1, <1>4, <2>1, ImsicSlots, ImsicsOnBoard
  <2> QED BY <1>2, <1>3, <2>2, Zenon
<1>5. CASE ListsFiles(n, aislab_memmap.IMSIC_S, "S_EXT", cfg.guests)
  <2>1. PICK entry : entry = aislab_memmap.IMSIC_S
    OBVIOUS
  <2>2. /\ entry.base \in Nat /\ ListsFiles(n, entry, "S_EXT", cfg.guests)
        /\ \A j \in Sockets : ImsicRegions(j, "imsic_s", entry, "S_EXT", cfg.guests) \subseteq board
    BY <1>1, <1>5, <2>1, ImsicSlots, ImsicsOnBoard
  <2> QED BY <1>2, <1>3, <2>2, Zenon
<1> QED BY <1>1, <1>4, <1>5 DEF ImsicNodeListed

-----------------------------------------------------------------------------
(* What the guest is told of the harts *)

\* The loops over the sockets keep what is listed.
LEMMA ListedNext == MatchInv /\ HartsInv /\ [Next]_vars => (MatchInv /\ HartsInv)'
<1>1. MatchInv => TypesInv /\ ViewsInv
  BY DEF MatchInv, TreeInv
<1> QED BY <1>1, MatchNext, HartsNext

\* A timer or interrupt controller drives the harts its node lists, in that order,
\* on any machine: with any split of the harts over the sockets, with CLINTs or
\* ACLINTs, with a PLIC or with APLICs, under KVM or not.
\* (The index phandle_pos + cpu into intc_phandles against hartid-base + cpu.)
THEOREM HartsAreServed ==
  ASSUME \A c \in Configs : AISLAB_SOCKETS_MAX <= c.ram,
         \A c \in Configs : c.width = 32 => c.ram <= RAM_LIMIT
  PROVE  Spec => []HartsServed
<1>1. MatchInv /\ HartsInv => HartsServed
  <2> SUFFICES ASSUME MatchInv, HartsInv, Finalized PROVE HartsServed
    BY DEF HartsServed
  <2> QED BY MatchFits, MatchReady, ReadyServed
<1>2. Init => MatchInv /\ HartsInv
  BY MatchInit, HartsInit
<1> QED BY <1>1, <1>2, ListedNext, PTL DEF Spec

\* The k-th hart an IMSIC node lists has its interrupt file at the k-th place of
\* the ranges, and the index bits reach it: with any number of guests, and sockets
\* that differ in their harts.
\* (imsic_max_hart_per_socket and riscv,group-index-shift against
\* aislab_create_aia, which places the files.)
THEOREM ImsicFilesAreFound ==
  ASSUME \A c \in Configs : AISLAB_SOCKETS_MAX <= c.ram,
         \A c \in Configs : c.width = 32 => c.ram <= RAM_LIMIT
  PROVE  Spec => []ImsicFilesFound
<1>1. MatchInv /\ HartsInv => ImsicFilesFound
  <2> SUFFICES ASSUME MatchInv, HartsInv, Finalized PROVE ImsicFilesFound
    BY DEF ImsicFilesFound
  <2> QED BY MatchFits, MatchReady, ReadyFiles
<1>2. Init => MatchInv /\ HartsInv
  BY MatchInit, HartsInit
<1> QED BY <1>1, <1>2, ListedNext, PTL DEF Spec
===============================================================================
