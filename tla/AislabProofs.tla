----------------------------- MODULE AislabProofs -----------------------------
(***************************************************************************)
(* Theorems about the board of the machine aislab and the phandles of its  *)
(* device tree, for any number of harts, sockets and guests and any        *)
(* memory.  TLC checks the same statements for some command lines only.    *)
(***************************************************************************)
EXTENDS Aislab, FiniteSetTheorems, WellFoundedInduction, TLAPS

-----------------------------------------------------------------------------
(* Every region the machine may have, as the command line decides.          *)

SocketIds == 0 .. AISLAB_SOCKETS_MAX - 1

HighPcie == IF cfg.width = 32 THEN AISLAB32_HIGH_PCIE_MMIO
            ELSE At(RoundUp(aislab_memmap.DRAM.base + cfg.ram, AISLAB64_HIGH_PCIE_MMIO_SIZE),
                    AISLAB64_HIGH_PCIE_MMIO_SIZE)

AllTimers == UNION { TimerRegions(i) : i \in SocketIds }

AllPlics == UNION { PlicRegions(i) : i \in SocketIds }

AllAplics ==
  { AplicRegion(i, "aplic_m", aislab_memmap.APLIC_M, "M_EXT") : i \in SocketIds }
  \cup { AplicRegion(i, "aplic_s", aislab_memmap.APLIC_S, "S_EXT") : i \in SocketIds }

AllImsics(dev, entry, irq, guests) ==
  UNION { ImsicRegions(i, dev, entry, irq, guests) : i \in SocketIds }

AllImsicsM == AllImsics("imsic_m", aislab_memmap.IMSIC_M, "M_EXT", 0)
AllImsicsS == AllImsics("imsic_s", aislab_memmap.IMSIC_S, "S_EXT", cfg.guests)

AllVirtio == { Region("virtio", n, Nth(aislab_memmap.VIRTIO, n), <<>>) : n \in 0 .. VIRTIO_COUNT - 1 }
AllFlash == { Region("flash", n, FlashHalf(n), <<>>) : n \in {0, 1} }

Alone ==
  { Plain("ram", At(aislab_memmap.DRAM.base, cfg.ram)),
    Plain("mrom", aislab_memmap.MROM),
    Plain("fw_cfg", aislab_memmap.FW_CFG),
    Plain("test", aislab_memmap.TEST),
    Plain("ecam", aislab_memmap.PCIE_ECAM),
    Plain("pcie_mmio", aislab_memmap.PCIE_MMIO),
    Plain("pcie_mmio_high", HighPcie),
    Plain("pio", aislab_memmap.PCIE_PIO),
    Plain("platform_bus", aislab_memmap.PLATFORM_BUS),
    Plain("uart", aislab_memmap.UART0),
    Plain("rtc", aislab_memmap.RTC),
    Plain("mmio_bus", At(aislab_memmap.MMIO_BUS.base, MMIO_SIZE)) }

\* The PLIC and the APLICs share their addresses, and no machine has both.
WholeBoard ==
  AllTimers \cup (IF cfg.aia = "none" THEN AllPlics ELSE AllAplics)
  \cup AllImsicsM \cup AllImsicsS \cup AllVirtio \cup AllFlash \cup Alone

-----------------------------------------------------------------------------
(* Numbers *)

\* The entries of aislab_memmap, as numbers.
LEMMA MapNumbers ==
  /\ aislab_memmap.MROM = At(16, 240)
  /\ aislab_memmap.TEST = At(4096, 16)
  /\ aislab_memmap.RTC = At(4112, 16)
  /\ aislab_memmap.CLINT = At(131072, 256)
  /\ aislab_memmap.ACLINT_SSWI = At(192512, 64)
  /\ aislab_memmap.PCIE_PIO = At(196608, 256)
  /\ aislab_memmap.PLATFORM_BUS = At(262144, 131072)
  /\ aislab_memmap.MMIO_BUS = At(393216, 393216)
  /\ aislab_memmap.PLIC = At(786432, 24576)
  /\ aislab_memmap.APLIC_M = At(786432, 128)
  /\ aislab_memmap.APLIC_S = At(851968, 128)
  /\ aislab_memmap.UART0 = At(1048576, 1)
  /\ aislab_memmap.VIRTIO = At(1048592, 16)
  /\ aislab_memmap.FW_CFG = At(1052672, 1)
  /\ aislab_memmap.FLASH = At(2097152, 262144)
  /\ aislab_memmap.IMSIC_M.base = 2359296
  /\ aislab_memmap.IMSIC_S.base = 2621440
  /\ aislab_memmap.PCIE_ECAM = At(3145728, 1048576)
  /\ aislab_memmap.PCIE_MMIO = At(4194304, 4194304)
  /\ aislab_memmap.DRAM.base = 8388608
BY DEF aislab_memmap, At, KiB, MiB, GiB, MmioBusEntry, AISLAB_PLIC_SIZE, AISLAB_CPUS_MAX,
       APLIC_SIZE, AISLAB_IMSIC_MAX_SIZE, AISLAB_SOCKETS_MAX, AISLAB_IMSIC_GROUP_MAX_SIZE

\* Natural numbers have a least among them.
LEMMA LeastNat ==
  ASSUME NEW T, T \subseteq Nat, T # {}
  PROVE  \E x \in T : \A y \in T : x <= y
<1> DEFINE less == OpToRel(<, Nat)
<1>1. \E x \in T : \A y \in T : ~(<<y, x>> \in less)
  <2> HIDE DEF less
  <2> QED BY NatLessThanWellFounded, WFMin, Zenon DEF less
<1>2. \A x, y \in Nat : y < x => <<y, x>> \in less
  BY DEF OpToRel
<1> HIDE DEF less
<1>3. PICK x \in T : \A y \in T : ~(<<y, x>> \in less)
  BY <1>1
<1>4. ASSUME NEW y \in T PROVE x <= y
  <2>1. x \in Nat /\ y \in Nat
    OBVIOUS
  <2>2. ~(y < x)
    BY <1>2, <1>3, <2>1
  <2> QED BY <2>1, <2>2
<1> QED BY <1>4

\* A hart is one of the machine, and not below the first of its socket.
LEMMA HartNumbers ==
  ASSUME cfg \in Configs, NEW i, NEW h \in Harts(i)
  PROVE  /\ h \in 0 .. AISLAB_CPUS_MAX - 1
         /\ FirstHartid(i) \in 0 .. h
         /\ cfg.node[h] = i
<1> USE DEF AISLAB_CPUS_MAX
<1>0. cfg.cpus \in 1 .. AISLAB_CPUS_MAX
  BY ConfigAssumption
<1>1. Harts(i) \subseteq 0 .. AISLAB_CPUS_MAX - 1
  BY <1>0 DEF Harts
<1>2. PICK f \in Harts(i) : \A g \in Harts(i) : f <= g
  <2>1. Harts(i) \subseteq Nat /\ Harts(i) # {}
    BY <1>1
  <2> QED BY <2>1, LeastNat
<1>3. FirstHartid(i) \in Harts(i) /\ \A g \in Harts(i) : FirstHartid(i) <= g
  BY <1>2 DEF FirstHartid
<1>4. cfg.node[h] = i
  BY DEF Harts
<1> QED BY <1>1, <1>3, <1>4

\* aislab_imsic_num_bits, for what a hart may have of interrupt files.
LEMMA NumBits ==
  ASSUME NEW count \in 1 .. 8
  PROVE  LET bits == aislab_imsic_num_bits(count) IN
         bits \in 0 .. 3 /\ BIT(bits) \in 1 .. 8 /\ count <= BIT(bits)
<1> DEFINE Fits(n) == BIT(n) >= count /\ \A m \in 0 .. n - 1 : BIT(m) < count
<1>1. /\ BIT(0) = 1 /\ BIT(1) = 2 /\ BIT(2) = 4 /\ BIT(3) = 8
      /\ \A n \in 4 .. 9 : 3 \in 0 .. n - 1
  BY DEF BIT
<1>2. \E n \in 0 .. 9 : Fits(n)
  <2>1. CASE count = 1
    BY <2>1, <1>1
  <2>2. CASE count = 2
    BY <2>2, <1>1, Fits(1)
  <2>3. CASE count \in 3 .. 4
    BY <2>3, <1>1, Fits(2)
  <2>4. CASE count \in 5 .. 8
    BY <2>4, <1>1, Fits(3)
  <2> QED BY <2>1, <2>2, <2>3, <2>4
<1>3. LET bits == aislab_imsic_num_bits(count) IN bits \in 0 .. 9 /\ Fits(bits)
  BY <1>2 DEF aislab_imsic_num_bits
<1> QED BY <1>1, <1>3

-----------------------------------------------------------------------------
(* Each device has a slot of the map, and the slots are apart               *)

Slot(d) ==
  CASE d = "mrom" -> <<16, 256>>
    [] d = "test" -> <<4096, 4112>>
    [] d = "rtc" -> <<4112, 4128>>
    [] d \in {"mswi", "mtimer"} -> <<131072, 132096>>
    [] d = "sswi" -> <<192512, 192768>>
    [] d = "pio" -> <<196608, 196864>>
    [] d = "platform_bus" -> <<262144, 393216>>
    [] d = "mmio_bus" -> <<393216, 786432>>
    [] d = "plic" -> <<786432, 884736>>
    [] d = "aplic_m" -> <<786432, 786944>>
    [] d = "aplic_s" -> <<851968, 852480>>
    [] d = "uart" -> <<1048576, 1048577>>
    [] d = "virtio" -> <<1048592, 1048720>>
    [] d = "fw_cfg" -> <<1052672, 1052673>>
    [] d = "flash" -> <<2097152, 2359296>>
    [] d = "imsic_m" -> <<2359296, 2621440>>
    [] d = "imsic_s" -> <<2621440, 2883584>>
    [] d = "ecam" -> <<3145728, 4194304>>
    [] d = "pcie_mmio" -> <<4194304, 8388608>>
    [] d = "ram" -> <<8388608, 8388608 + cfg.ram>>
    [] d = "pcie_mmio_high" -> <<HighPcie.base, HighPcie.base + HighPcie.size>>

Devices == {"mrom", "test", "rtc", "mswi", "mtimer", "sswi", "pio", "platform_bus", "mmio_bus",
            "plic", "aplic_m", "aplic_s", "uart", "virtio", "fw_cfg", "flash", "imsic_m",
            "imsic_s", "ecam", "pcie_mmio", "ram", "pcie_mmio_high"}

Timers == {"mswi", "mtimer"}
Aplics == {"aplic_m", "aplic_s"}

\* The high window of PCIe begins above where the memory begins, and above all of
\* it if that fits.
LEMMA HighPcieAboveRam ==
  ASSUME cfg \in Configs
  PROVE  /\ HighPcie.base \in Nat /\ HighPcie.size \in Nat /\ 8388608 <= HighPcie.base
         /\ RamFits => 8388608 + cfg.ram <= HighPcie.base
<1>1. cfg.ram \in Nat /\ cfg.ram > 0 /\ cfg.width \in {32, 64}
  BY ConfigAssumption
<1>2. CASE cfg.width = 32
  BY <1>1, <1>2 DEF RamFits, HighPcie, AISLAB32_HIGH_PCIE_MMIO, At, RAM_LIMIT, GiB, MiB, KiB
<1>3. CASE cfg.width = 64
  <2>1. HighPcie = At(RoundUp(8388608 + cfg.ram, 67108864), 67108864)
    BY <1>3, MapNumbers DEF HighPcie, AISLAB64_HIGH_PCIE_MMIO_SIZE, GiB, MiB, KiB
  <2>2. \A x \in Nat : RoundUp(x, 67108864) \in Nat /\ RoundUp(x, 67108864) >= x
    BY DEF RoundUp
  <2> QED BY <1>1, <2>1, <2>2 DEF At
<1> QED BY <1>1, <1>2, <1>3

\* The two kinds of devices that a memory that does not fit brings together.
RamMeetsPcie(d, e) ==
  /\ ~RamFits
  /\ \/ d = "ram" /\ e = "pcie_mmio_high"
     \/ d = "pcie_mmio_high" /\ e = "ram"

\* Devices of different kinds have different parts of the map.
LEMMA SlotsApart ==
  ASSUME cfg \in Configs, NEW d \in Devices, NEW e \in Devices, d # e, ~RamMeetsPcie(d, e),
         ~(d \in Timers /\ e \in Timers),
         ~(d = "plic" /\ e \in Aplics), ~(e = "plic" /\ d \in Aplics)
  PROVE  Slot(d)[2] <= Slot(e)[1] \/ Slot(e)[2] <= Slot(d)[1]
<1>1. cfg.ram \in Nat
  BY ConfigAssumption
<1>2. \/ d = "ram" /\ e = "pcie_mmio_high" /\ RamFits
      \/ d = "pcie_mmio_high" /\ e = "ram" /\ RamFits
      \/ ~(d = "ram" /\ e = "pcie_mmio_high") /\ ~(d = "pcie_mmio_high" /\ e = "ram")
  BY DEF RamMeetsPcie
<1>3. CASE d = "ram" /\ e = "pcie_mmio_high" /\ RamFits
  BY <1>1, <1>3, HighPcieAboveRam, SMT DEF Slot
<1>4. CASE d = "pcie_mmio_high" /\ e = "ram" /\ RamFits
  BY <1>1, <1>4, HighPcieAboveRam, SMT DEF Slot
<1>5. CASE ~(d = "ram" /\ e = "pcie_mmio_high") /\ ~(d = "pcie_mmio_high" /\ e = "ram")
  BY <1>1, <1>5, HighPcieAboveRam, SMTT(60) DEF Slot, Devices, Timers, Aplics
<1> QED BY <1>2, <1>3, <1>4, <1>5

-----------------------------------------------------------------------------
(* The devices of each kind, in their slots and apart from each other       *)

Apart(r, s) == r.base + r.size <= s.base \/ s.base + s.size <= r.base

InSlot(r) ==
  /\ r.dev \in Devices /\ r.base \in Nat /\ r.size \in Nat
  /\ Slot(r.dev)[1] <= r.base /\ r.base + r.size <= Slot(r.dev)[2]

\* Timers, of all sockets, are apart.
LEMMA TimersApart ==
  /\ \A r \in AllTimers : InSlot(r) /\ r.dev \in {"mswi", "mtimer", "sswi"}
  /\ \A r, s \in AllTimers : r # s => Apart(r, s)
<1> DEFINE At1(r, i) == \/ HaveAclint /\ Imsic /\ r.dev = "mtimer" /\ r.base = 131072 + i * 128 /\ r.size = 128
                        \/ ~(HaveAclint /\ Imsic) /\ r.dev = "mtimer" /\ r.base = 131136 + i * 256 /\ r.size = 128
                        \/ ~(HaveAclint /\ Imsic) /\ r.dev = "mswi" /\ r.base = 131072 + i * 256 /\ r.size = 64
                        \/ r.dev = "sswi" /\ r.base = 192512 + i * 64 /\ r.size = 64
<1>1. \A i \in SocketIds : \A r \in TimerRegions(i) : At1(r, i)
  BY MapNumbers DEF TimerRegions, Region, At, Nth, SocketIds, AISLAB_SOCKETS_MAX,
     RISCV_ACLINT_SWI_SIZE, RISCV_ACLINT_DEFAULT_MTIMER_SIZE, KiB
<1>2. \A i \in SocketIds : \A r, s \in TimerRegions(i) : r.dev = s.dev => r = s
  BY DEF TimerRegions, Region
<1>3. \A r \in AllTimers : \E i \in SocketIds : r \in TimerRegions(i)
  BY DEF AllTimers
<1>4. ASSUME NEW r \in AllTimers PROVE InSlot(r) /\ r.dev \in {"mswi", "mtimer", "sswi"}
  BY <1>1, <1>3 DEF InSlot, Slot, Devices, SocketIds, AISLAB_SOCKETS_MAX
<1>5. ASSUME NEW r \in AllTimers, NEW s \in AllTimers, r # s PROVE Apart(r, s)
  <2>1. PICK i \in SocketIds, j \in SocketIds : r \in TimerRegions(i) /\ s \in TimerRegions(j)
    BY <1>3
  <2>2. At1(r, i) /\ At1(s, j) /\ (i # j \/ r.dev # s.dev)
    BY <1>1, <1>2, <1>5, <2>1
  <2> QED BY <2>2 DEF Apart, SocketIds, AISLAB_SOCKETS_MAX
<1> QED BY <1>4, <1>5

\* So are PLICs,
LEMMA PlicsApart ==
  /\ \A r \in AllPlics : InSlot(r) /\ r.dev = "plic"
  /\ \A r, s \in AllPlics : r # s => Apart(r, s)
<1> USE DEF SocketIds, AISLAB_SOCKETS_MAX
<1>1. \A i \in SocketIds : \A r \in PlicRegions(i) :
        r.dev = "plic" /\ r.base = 786432 + i * 24576 /\ r.size = 24576
  BY MapNumbers DEF PlicRegions, Region, At, Nth
<1>2. \A i \in SocketIds : \A r, s \in PlicRegions(i) : r = s
  BY DEF PlicRegions
<1>3. \A r \in AllPlics : \E i \in SocketIds : r \in PlicRegions(i)
  BY DEF AllPlics
<1>4. ASSUME NEW r \in AllPlics PROVE InSlot(r) /\ r.dev = "plic"
  BY <1>1, <1>3 DEF InSlot, Slot, Devices
<1>5. ASSUME NEW r \in AllPlics, NEW s \in AllPlics, r # s PROVE Apart(r, s)
  <2>1. PICK i \in SocketIds, j \in SocketIds : r \in PlicRegions(i) /\ s \in PlicRegions(j)
    BY <1>3
  <2>2. i # j
    BY <1>2, <1>5, <2>1
  <2> QED BY <1>1, <2>1, <2>2 DEF Apart
<1> QED BY <1>4, <1>5

\* and APLICs of one level,
LEMMA AplicsApart ==
  /\ \A r \in AllAplics : InSlot(r) /\ r.dev \in Aplics
  /\ \A r, s \in AllAplics : r.dev = s.dev /\ r # s => Apart(r, s)
<1> USE DEF SocketIds, AISLAB_SOCKETS_MAX
<1>1. \A i \in SocketIds :
        /\ LET m == AplicRegion(i, "aplic_m", aislab_memmap.APLIC_M, "M_EXT") IN
           m.dev = "aplic_m" /\ m.base = 786432 + i * 128 /\ m.size = 128
        /\ LET s == AplicRegion(i, "aplic_s", aislab_memmap.APLIC_S, "S_EXT") IN
           s.dev = "aplic_s" /\ s.base = 851968 + i * 128 /\ s.size = 128
  BY MapNumbers DEF AplicRegion, Region, At, Nth
<1>2. \A r \in AllAplics :
        \/ \E i \in SocketIds : r = AplicRegion(i, "aplic_m", aislab_memmap.APLIC_M, "M_EXT")
        \/ \E i \in SocketIds : r = AplicRegion(i, "aplic_s", aislab_memmap.APLIC_S, "S_EXT")
  BY DEF AllAplics
<1>3. ASSUME NEW r \in AllAplics PROVE InSlot(r) /\ r.dev \in Aplics
  BY <1>1, <1>2 DEF InSlot, Slot, Devices, Aplics
<1>4. ASSUME NEW r \in AllAplics, NEW s \in AllAplics, r.dev = s.dev, r # s PROVE Apart(r, s)
  BY <1>1, <1>2, <1>4 DEF Apart
<1> QED BY <1>3, <1>4

\* The 512 harts there may be, with seven guests each, just fill a group.
LEMMA ImsicsApart ==
  ASSUME cfg \in Configs, NEW dev, NEW entry, NEW irq, NEW guests \in GuestNumbers,
         NEW start \in Nat, entry.base = start,
         Slot(dev) = <<start, start + AISLAB_IMSIC_MAX_SIZE>>, dev \in Devices
  PROVE  LET fam == AllImsics(dev, entry, irq, guests) IN
         /\ \A r \in fam : InSlot(r) /\ r.dev = dev
         /\ \A r, s \in fam : r # s => Apart(r, s)
<1> DEFINE bits == aislab_imsic_num_bits(guests + 1)
           stride == IMSIC_HART_SIZE(bits)
           fam == AllImsics(dev, entry, irq, guests)
           File(h, i) == Region(dev, h, At(start + i * AISLAB_IMSIC_GROUP_MAX_SIZE + (h - FirstHartid(i)) * stride,
                                           (guests + 1) * 16), << <<h, irq>> >>)
<1>1. /\ stride \in {16, 32, 48, 64, 80, 96, 112, 128}
      /\ (guests + 1) * 16 \in 1 .. stride
  BY NumBits, SMT DEF GuestNumbers, AISLAB_IRQCHIP_MAX_GUESTS, IMSIC_HART_SIZE, IMSIC_PAGE, KiB
<1>2. \A r \in fam : \E i \in SocketIds : \E h \in Harts(i) : r = File(h, i)
  <2> SUFFICES ASSUME NEW r \in fam
               PROVE  \E i \in SocketIds : \E h \in Harts(i) : r = File(h, i)
    OBVIOUS
  <2>1. PICK i \in SocketIds : r \in ImsicRegions(i, dev, entry, irq, guests)
    BY DEF AllImsics
  <2>2. ImsicRegions(i, dev, entry, irq, guests) = { File(h, i) : h \in Harts(i) }
    <3>1. IMSIC_PAGE = 16
      BY DEF IMSIC_PAGE, KiB
    <3> QED BY <3>1 DEF ImsicRegions
  <2> QED BY <2>1, <2>2
<1>g. AISLAB_IMSIC_GROUP_MAX_SIZE = 65536
  BY SMT DEF AISLAB_IMSIC_GROUP_MAX_SIZE, MiB, KiB
<1> HIDE DEF stride, bits
<1>3. \A i, h : /\ File(h, i).dev = dev
               /\ File(h, i).base = start + i * AISLAB_IMSIC_GROUP_MAX_SIZE + (h - FirstHartid(i)) * stride
               /\ File(h, i).size = (guests + 1) * 16
  BY SMT DEF Region, At
<1> HIDE DEF File, fam
<1>4. ASSUME NEW i \in SocketIds, NEW h \in Harts(i)
      PROVE  /\ (h - FirstHartid(i)) * stride \in Nat
             /\ (h - FirstHartid(i)) * stride + stride <= AISLAB_IMSIC_GROUP_MAX_SIZE
  <2>0. h \in Nat /\ h <= 511 /\ FirstHartid(i) \in Nat /\ FirstHartid(i) <= h
    BY HartNumbers, SMT DEF AISLAB_CPUS_MAX
  <2>1. h - FirstHartid(i) \in 0 .. 511
    BY <2>0
  <2>2. \A d \in 0 .. 511 : \A t \in {16, 32, 48, 64, 80, 96, 112, 128} :
          d * t \in Nat /\ d * t + t <= 65536
    BY SMT
  <2>3. \A d \in 0 .. 511 : d * stride \in Nat /\ d * stride + stride <= 65536
    BY <1>1, <2>2
  <2> QED BY <1>g, <2>1, <2>3
<1>5. \A i \in SocketIds : \A h, g \in Harts(i) :
        h < g => (h - FirstHartid(i)) * stride + stride <= (g - FirstHartid(i)) * stride
  <2> SUFFICES ASSUME NEW i \in SocketIds, NEW h \in Harts(i), NEW g \in Harts(i), h < g
               PROVE  (h - FirstHartid(i)) * stride + stride <= (g - FirstHartid(i)) * stride
    BY SMT
  <2>1. h \in Nat /\ g \in Nat /\ FirstHartid(i) \in Nat
    BY HartNumbers, SMT DEF AISLAB_CPUS_MAX
  <2> QED BY <1>1, <2>1, SMT
<1>6. ASSUME NEW r \in fam PROVE InSlot(r) /\ r.dev = dev
  <2>0. PICK i \in SocketIds : \E h \in Harts(i) : r = File(h, i)
    BY <1>2
  <2>1. PICK h \in Harts(i) : r = File(h, i)
    BY <2>0
  <2>2. /\ r.dev = dev /\ r.size = (guests + 1) * 16
        /\ r.base = start + i * AISLAB_IMSIC_GROUP_MAX_SIZE + (h - FirstHartid(i)) * stride
    BY <1>3, <2>1
  <2> QED BY <1>1, <1>4, <2>2, SMT 
     DEF InSlot, SocketIds, AISLAB_SOCKETS_MAX, AISLAB_IMSIC_MAX_SIZE, AISLAB_IMSIC_GROUP_MAX_SIZE, MiB, KiB
<1>7. ASSUME NEW r \in fam, NEW s \in fam, r # s PROVE Apart(r, s)
  <2>i. PICK i \in SocketIds : \E h \in Harts(i) : r = File(h, i)
    BY <1>2
  <2>j. PICK j \in SocketIds : \E g \in Harts(j) : s = File(g, j)
    BY <1>2
  <2>1. PICK h \in Harts(i) : r = File(h, i)
    BY <2>i
  <2>2. PICK g \in Harts(j) : s = File(g, j)
    BY <2>j
  <2>3. /\ r.base = start + i * AISLAB_IMSIC_GROUP_MAX_SIZE + (h - FirstHartid(i)) * stride
        /\ s.base = start + j * AISLAB_IMSIC_GROUP_MAX_SIZE + (g - FirstHartid(j)) * stride
        /\ r.size \in 1 .. stride /\ s.size \in 1 .. stride
    BY <1>1, <1>3, <2>1, <2>2, SMT
  <2>4. h \in Nat /\ g \in Nat
    BY HartNumbers, SMT DEF AISLAB_CPUS_MAX
  <2>5. CASE i # j
    BY <1>1, <1>4, <2>3, <2>5, SMT 
     DEF Apart, SocketIds, AISLAB_SOCKETS_MAX, AISLAB_IMSIC_GROUP_MAX_SIZE, MiB, KiB
  <2>6. CASE i = j
    <3>1. h < g \/ g < h
      BY <1>7, <2>1, <2>2, <2>4, <2>6, SMT
    <3>2. /\ (h - FirstHartid(i)) * stride \in Nat
          /\ (g - FirstHartid(j)) * stride \in Nat
      BY <1>4, SMT
    <3> QED BY <1>1, <1>5, <2>3, <2>6, <3>1, <3>2, SMT 
     DEF Apart, SocketIds, AISLAB_SOCKETS_MAX, AISLAB_IMSIC_GROUP_MAX_SIZE, MiB, KiB
  <2> QED BY <2>5, <2>6, SMT
<1> QED BY <1>6, <1>7 DEF fam

\* and the rows of virtio devices and of the two halves of the flash.
LEMMA RowsApart ==
  /\ \A r \in AllVirtio : InSlot(r) /\ r.dev = "virtio"
  /\ \A r, s \in AllVirtio : r # s => Apart(r, s)
  /\ \A r \in AllFlash : InSlot(r) /\ r.dev = "flash"
  /\ \A r, s \in AllFlash : r # s => Apart(r, s)
<1>1. \A n \in 0 .. 7 : LET v == Region("virtio", n, Nth(aislab_memmap.VIRTIO, n), <<>>) IN
             v.dev = "virtio" /\ v.base = 1048592 + n * 16 /\ v.size = 16
  BY MapNumbers, SMT DEF Region, Nth, At
<1>2. /\ FlashHalf(0) = At(2097152, 131072)
      /\ FlashHalf(1) = At(2228224, 131072)
  BY MapNumbers, SMT DEF FlashHalf, Nth, At
<1>3. \A r \in AllVirtio : \E n \in 0 .. 7 : r = Region("virtio", n, Nth(aislab_memmap.VIRTIO, n), <<>>)
  BY SMT DEF AllVirtio, VIRTIO_COUNT
<1>4. AllFlash = { Region("flash", 0, At(2097152, 131072), <<>>),
                   Region("flash", 1, At(2228224, 131072), <<>>) }
  BY <1>2, SMT DEF AllFlash
<1>5. ASSUME NEW r \in AllVirtio, NEW s \in AllVirtio, r # s PROVE Apart(r, s)
  <2>1. PICK n \in 0 .. 7, m \in 0 .. 7 :
          /\ r = Region("virtio", n, Nth(aislab_memmap.VIRTIO, n), <<>>)
          /\ s = Region("virtio", m, Nth(aislab_memmap.VIRTIO, m), <<>>)
    BY <1>3
  <2>2. r.base = 1048592 + n * 16 /\ r.size = 16
    BY <1>1, <2>1, SMTT(30)
  <2>3. s.base = 1048592 + m * 16 /\ s.size = 16
    BY <1>1, <2>1, SMTT(30)
  <2>4. n # m
    BY <1>5, <2>1
  <2> QED BY <2>2, <2>3, <2>4, SMT DEF Apart
<1>6. ASSUME NEW r \in AllVirtio PROVE InSlot(r) /\ r.dev = "virtio"
  <2>1. PICK n \in 0 .. 7 : r = Region("virtio", n, Nth(aislab_memmap.VIRTIO, n), <<>>)
    BY <1>3
  <2>2. r.dev = "virtio" /\ r.base = 1048592 + n * 16 /\ r.size = 16
    BY <1>1, <2>1
  <2> QED BY <2>2, SMT DEF InSlot, Slot, Devices
<1>7. /\ \A r \in AllFlash : InSlot(r) /\ r.dev = "flash"
      /\ \A r, s \in AllFlash : r # s => Apart(r, s)
  <2>1. \A r \in AllFlash : /\ r.dev = "flash" /\ r.size = 131072
                            /\ r.base = 2097152 \/ r.base = 2228224
    BY <1>4 DEF Region, At
  <2>2. \A r, s \in AllFlash : r # s => r.base # s.base
    BY <1>4, SMT DEF Region, At
  <2> QED BY <2>1, <2>2, SMT DEF InSlot, Slot, Devices, Apart
<1> QED BY <1>5, <1>6, <1>7, SMT

AloneDevices == {"ram", "mrom", "fw_cfg", "test", "ecam", "pcie_mmio", "pcie_mmio_high", "pio",
                 "platform_bus", "uart", "rtc", "mmio_bus"}

\* Of the other kinds there is one device each, in its part of the map.
LEMMA AloneInSlots ==
  ASSUME cfg \in Configs
  PROVE  /\ \A r \in Alone : InSlot(r) /\ r.dev \in AloneDevices
         /\ \A r, s \in Alone : r.dev = s.dev => r = s
<1>1. cfg.ram \in Nat /\ MMIO_SIZE = 393216
  BY ConfigAssumption, SMT DEF MMIO_SIZE, MiB, KiB
<1>2. \A r \in Alone : InSlot(r) /\ r.dev \in AloneDevices
  <2> DEFINE Good(r) == InSlot(r) /\ r.dev \in AloneDevices
  <2> USE DEF AloneDevices, InSlot, Slot, Devices, Plain, Region, At
  <2>1. Good(Plain("ram", At(aislab_memmap.DRAM.base, cfg.ram)))
    BY <1>1, MapNumbers, SMT
  <2>2. Good(Plain("mrom", aislab_memmap.MROM))
    BY MapNumbers, SMT
  <2>3. Good(Plain("fw_cfg", aislab_memmap.FW_CFG))
    BY MapNumbers, SMT
  <2>4. Good(Plain("test", aislab_memmap.TEST))
    BY MapNumbers, SMT
  <2>5. Good(Plain("ecam", aislab_memmap.PCIE_ECAM))
    BY MapNumbers, SMT
  <2>6. Good(Plain("pcie_mmio", aislab_memmap.PCIE_MMIO))
    BY MapNumbers, SMT
  <2>7. Good(Plain("pcie_mmio_high", HighPcie))
    BY HighPcieAboveRam, SMT
  <2>8. Good(Plain("pio", aislab_memmap.PCIE_PIO))
    BY MapNumbers, SMT
  <2>9. Good(Plain("platform_bus", aislab_memmap.PLATFORM_BUS))
    BY MapNumbers, SMT
  <2>10. Good(Plain("uart", aislab_memmap.UART0))
    BY MapNumbers, SMT
  <2>11. Good(Plain("rtc", aislab_memmap.RTC))
    BY MapNumbers, SMT
  <2>12. Good(Plain("mmio_bus", At(aislab_memmap.MMIO_BUS.base, MMIO_SIZE)))
    BY <1>1, MapNumbers, SMT
  <2> HIDE DEF Good
  <2>13. \A r \in Alone : Good(r)
    BY <2>1, <2>2, <2>3, <2>4, <2>5, <2>6, <2>7, <2>8, <2>9, <2>10, <2>11, <2>12, Zenon DEF Alone
  <2> QED BY <2>13 DEF Good
<1>3. \A r, s \in Alone : r.dev = s.dev => r = s
  BY SMT DEF Alone, Plain, Region
<1> QED BY <1>2, <1>3, SMT

\* The files of an IMSIC, of all sockets, are apart, in both levels.
LEMMA BothImsics ==
  ASSUME cfg \in Configs
  PROVE  /\ \A r \in AllImsicsM : InSlot(r) /\ r.dev = "imsic_m"
         /\ \A r, s \in AllImsicsM : r # s => Apart(r, s)
         /\ \A r \in AllImsicsS : InSlot(r) /\ r.dev = "imsic_s"
         /\ \A r, s \in AllImsicsS : r # s => Apart(r, s)
<1>1. AISLAB_IMSIC_MAX_SIZE = 262144
  BY SMT DEF AISLAB_IMSIC_MAX_SIZE, AISLAB_SOCKETS_MAX, AISLAB_IMSIC_GROUP_MAX_SIZE, MiB, KiB
<1>2. /\ Slot("imsic_m") = <<2359296, 2359296 + AISLAB_IMSIC_MAX_SIZE>>
      /\ Slot("imsic_s") = <<2621440, 2621440 + AISLAB_IMSIC_MAX_SIZE>>
      /\ "imsic_m" \in Devices /\ "imsic_s" \in Devices
  BY <1>1, SMT DEF Slot, Devices
<1>3. cfg.guests \in GuestNumbers /\ 0 \in GuestNumbers
  BY ConfigAssumption, SMT DEF GuestNumbers, AISLAB_IRQCHIP_MAX_GUESTS
<1>4. aislab_memmap.IMSIC_M.base = 2359296 /\ aislab_memmap.IMSIC_S.base = 2621440
  BY MapNumbers, SMT
<1>5. 2359296 \in Nat /\ 2621440 \in Nat
  BY SMT
<1>6. /\ \A r \in AllImsicsM : InSlot(r) /\ r.dev = "imsic_m"
      /\ \A r, s \in AllImsicsM : r # s => Apart(r, s)
  BY <1>2, <1>3, <1>4, <1>5, ImsicsApart DEF AllImsicsM
<1>7. /\ \A r \in AllImsicsS : InSlot(r) /\ r.dev = "imsic_s"
      /\ \A r, s \in AllImsicsS : r # s => Apart(r, s)
  BY <1>2, <1>3, <1>4, <1>5, ImsicsApart DEF AllImsicsS
<1> QED BY <1>6, <1>7

\* Two devices of the board are of different kinds, in slots that are apart, or
\* of one kind, which keeps its devices apart.
LEMMA WholeBoardApart ==
  ASSUME cfg \in Configs, NEW r \in WholeBoard, NEW s \in WholeBoard, r # s,
         ~RamMeetsPcie(r.dev, s.dev)
  PROVE  Apart(r, s)
<1> DEFINE Family(x) ==
      \/ x \in AllTimers /\ x.dev \in {"mswi", "mtimer", "sswi"}
      \/ x \in AllPlics /\ x.dev = "plic" /\ cfg.aia = "none"
      \/ x \in AllAplics /\ x.dev \in Aplics /\ cfg.aia # "none"
      \/ x \in AllImsicsM /\ x.dev = "imsic_m"
      \/ x \in AllImsicsS /\ x.dev = "imsic_s"
      \/ x \in AllVirtio /\ x.dev = "virtio"
      \/ x \in AllFlash /\ x.dev = "flash"
      \/ x \in Alone /\ x.dev \in AloneDevices
<1>1. \A x \in WholeBoard : InSlot(x) /\ Family(x)
  BY TimersApart, PlicsApart, AplicsApart, BothImsics, RowsApart, AloneInSlots DEF WholeBoard
<1>2. CASE r.dev = s.dev \/ (r.dev \in Timers /\ s.dev \in Timers)
  <2>1. CASE r \in AllTimers /\ s \in AllTimers
    BY <2>1, TimersApart
  <2>2. CASE r \in AllPlics /\ s \in AllPlics
    BY <2>2, PlicsApart
  <2>3. CASE r \in AllAplics /\ s \in AllAplics /\ r.dev = s.dev
    BY <2>3, AplicsApart
  <2>4. CASE r \in AllImsicsM /\ s \in AllImsicsM
    BY <2>4, BothImsics
  <2>5. CASE r \in AllImsicsS /\ s \in AllImsicsS
    BY <2>5, BothImsics
  <2>6. CASE r \in AllVirtio /\ s \in AllVirtio
    BY <2>6, RowsApart
  <2>7. CASE r \in AllFlash /\ s \in AllFlash
    BY <2>7, RowsApart
  <2>8. ~(r \in Alone /\ s \in Alone /\ r.dev = s.dev)
    BY AloneInSlots
  <2> QED BY <1>1, <1>2, <2>1, <2>2, <2>3, <2>4, <2>5, <2>6, <2>7, <2>8, SMT
             DEF Aplics, AloneDevices, Timers
<1>3. CASE r.dev # s.dev /\ ~(r.dev \in Timers /\ s.dev \in Timers)
  <2>1. InSlot(r) /\ InSlot(s)
    BY <1>1
  <2>2. ~(r.dev = "plic" /\ s.dev \in Aplics) /\ ~(s.dev = "plic" /\ r.dev \in Aplics)
    BY <1>1, SMT DEF Aplics, AloneDevices
  <2>3. Slot(r.dev)[2] <= Slot(s.dev)[1] \/ Slot(s.dev)[2] <= Slot(r.dev)[1]
    BY <1>3, <2>1, <2>2, SlotsApart DEF InSlot
  <2>4. \A d \in Devices : Slot(d)[1] \in Int /\ Slot(d)[2] \in Int
    <3>1. /\ cfg.ram \in Nat /\ HighPcie.base \in Nat /\ HighPcie.size \in Nat
      BY ConfigAssumption, HighPcieAboveRam
    <3>2. ASSUME NEW d \in Devices PROVE Slot(d)[1] \in Int
      BY <3>1, SMT DEF Slot, Devices
    <3>3. ASSUME NEW d \in Devices PROVE Slot(d)[2] \in Int
      BY <3>1, SMT DEF Slot, Devices
    <3> QED BY <3>2, <3>3
  <2> QED BY <2>1, <2>3, <2>4, SMT DEF InSlot, Apart
<1>4. \/ r.dev = s.dev \/ (r.dev \in Timers /\ s.dev \in Timers)
      \/ r.dev # s.dev /\ ~(r.dev \in Timers /\ s.dev \in Timers)
  OBVIOUS
<1> QED BY <1>2, <1>3, <1>4

-----------------------------------------------------------------------------
(* The board is part of the whole board *)

\* The memory of a machine is never cut if it fits, as it does on every machine of
\* 64 bits, so the high PCIe window of a machine is where HighPcie has it.
BoardInv ==
  /\ cfg \in Configs
  /\ sock \in Int
  /\ pc = "checks" => board = {}
  /\ pc \notin {"checks", "exited"} => cfg.sockets <= AISLAB_SOCKETS_MAX
  /\ RamFits => ramSize = cfg.ram
  /\ board \subseteq WholeBoard

\* The command line decides what the whole board is.
LEMMA WholeBoardConstant ==
  ASSUME cfg' = cfg
  PROVE  WholeBoard' = WholeBoard
BY DEF WholeBoard, AllTimers, AllPlics, AllAplics, AllImsicsM, AllImsicsS, AllImsics, AllVirtio,
       AllFlash, Alone, HighPcie, TimerRegions, PlicRegions, AplicRegion, ImsicRegions,
       HaveAclint, AclintAllowed, Imsic, Tcg, Kvm, Harts, HartCount, FirstHartid

\* A step that leaves the board and the command line alone.
LEMMA BoardLeftAlone ==
  ASSUME BoardInv, UNCHANGED <<cfg, ramSize, board>>, sock' \in Int,
         pc # "checks" \/ UNCHANGED pc, pc # "exited" \/ UNCHANGED pc,
         pc' # "checks" \/ UNCHANGED pc
  PROVE  BoardInv'
BY WholeBoardConstant DEF BoardInv, RamFits

\* A step that adds devices of the whole board.
LEMMA BoardGrows ==
  ASSUME BoardInv, NEW from, NEW to, NEW regions, NEW lines, Build(from, to, regions, lines),
         from \notin {"checks", "exited"}, to # "checks", ramSize' = ramSize,
         regions \subseteq WholeBoard
  PROVE  BoardInv'
BY WholeBoardConstant DEF BoardInv, Build, RamFits

\* What a socket adds is of the whole board.
LEMMA SocketRegionsInBoard ==
  ASSUME NEW i \in SocketIds
  PROVE  /\ TimerRegions(i) \subseteq WholeBoard
         /\ cfg.aia = "none" => PlicRegions(i) \subseteq WholeBoard
         /\ cfg.aia # "none" => AiaRegions(i) \subseteq WholeBoard
         /\ ImsicRegions(i, "imsic_s", aislab_memmap.IMSIC_S, "S_EXT", cfg.guests)
              \subseteq WholeBoard
<1>1. TimerRegions(i) \subseteq AllTimers /\ PlicRegions(i) \subseteq AllPlics
  BY DEF AllTimers, AllPlics
<1>2. /\ AplicRegion(i, "aplic_m", aislab_memmap.APLIC_M, "M_EXT") \in AllAplics
      /\ AplicRegion(i, "aplic_s", aislab_memmap.APLIC_S, "S_EXT") \in AllAplics
  BY DEF AllAplics
<1>3. /\ ImsicRegions(i, "imsic_m", aislab_memmap.IMSIC_M, "M_EXT", 0) \subseteq AllImsicsM
      /\ ImsicRegions(i, "imsic_s", aislab_memmap.IMSIC_S, "S_EXT", cfg.guests) \subseteq AllImsicsS
  BY DEF AllImsicsM, AllImsicsS, AllImsics
<1>4. cfg.aia # "none" => AiaRegions(i) \subseteq WholeBoard
  BY <1>2, <1>3 DEF AiaRegions, WholeBoard
<1> QED BY <1>1, <1>3, <1>4 DEF WholeBoard

\* The devices of KVM are among those of the sockets.
LEMMA KvmRegionsInBoard ==
  ASSUME cfg \in Configs, cfg.sockets <= AISLAB_SOCKETS_MAX, UseKvmAia
  PROVE  KvmAiaRegions \subseteq WholeBoard
<1>1. Sockets \subseteq SocketIds /\ 0 \in SocketIds
  BY ConfigAssumption DEF Sockets, SocketIds, AISLAB_SOCKETS_MAX
<1>2. AplicRegion(0, "aplic_s", aislab_memmap.APLIC_S, "S_EXT") \in WholeBoard
  BY <1>1 DEF AllAplics, WholeBoard, UseKvmAia
<1> QED BY <1>1, <1>2, SocketRegionsInBoard DEF KvmAiaRegions

\* At the beginning the board is empty.
LEMMA BoardInvInit == ASSUME Init PROVE BoardInv
BY DEF Init, BoardInit, BoardInv

\* Every function of aislab_machine_init adds devices of the whole board.
LEMMA BoardInvStep ==
  ASSUME BoardInv, BoardStep
  PROVE  BoardInv'
<1>1. CASE InitChecks
  BY <1>1, ConfigAssumption, WholeBoardConstant DEF InitChecks, BoardInv, AISLAB_SOCKETS_MAX, RamFits
<1>2. CASE InitSocket
  <2>1. sock \in SocketIds
    BY <1>2, ConfigAssumption DEF InitSocket, BoardInv, Sockets, SocketIds, AISLAB_SOCKETS_MAX
  <2>2. board' \subseteq WholeBoard
    BY <1>2, <2>1, SocketRegionsInBoard DEF InitSocket, BoardInv
  <2> QED BY <1>2, <2>2, WholeBoardConstant DEF InitSocket, BoardInv, RamFits
<1>3. CASE InitAia
  <2>1. RamFits' => ramSize' = cfg'.ram
    BY <1>3, ConfigAssumption, SMT DEF InitAia, Build, BoardInv, RamFits, RAM_LIMIT, GiB, MiB, KiB
  <2>2. UseKvmAia => KvmAiaRegions \subseteq WholeBoard
    BY <1>3, KvmRegionsInBoard DEF InitAia, Build, BoardInv
  <2> QED BY <1>3, <2>1, <2>2, WholeBoardConstant DEF InitAia, Build, BoardInv
<1>4. CASE MapMemory
  BY <1>4, BoardGrows DEF MapMemory, WholeBoard, Alone
<1>5. CASE CreateVirtio
  BY <1>5, BoardGrows DEF CreateVirtio, WholeBoard, AllVirtio
<1>6. CASE GpexPcieInit
  <2>1. aislab_high_pcie_memmap = HighPcie
    BY ConfigAssumption DEF aislab_high_pcie_memmap, HighPcie, BoardInv, RamFits
  <2> QED BY <1>6, <2>1, BoardGrows DEF GpexPcieInit, WholeBoard, Alone
<1>7. CASE CreatePlatformBus
  BY <1>7, BoardGrows DEF CreatePlatformBus, WholeBoard, Alone
<1>8. CASE CreateSerialAndRtc
  BY <1>8, BoardGrows DEF CreateSerialAndRtc, WholeBoard, Alone
<1>9. CASE CreateMmioBus
  BY <1>9, BoardGrows DEF CreateMmioBus, WholeBoard, Alone
<1>10. CASE MapFlash
  BY <1>10, BoardGrows DEF MapFlash, WholeBoard, AllFlash
<1>11. CASE ListenMmioBus
  BY <1>11, BoardLeftAlone DEF ListenMmioBus, BoardInv
<1> QED BY <1>1, <1>2, <1>3, <1>4, <1>5, <1>6, <1>7, <1>8, <1>9, <1>10, <1>11 DEF BoardStep

\* The device tree and the boot leave the board alone.
LEMMA BoardInvTree ==
  ASSUME BoardInv, TreeStep
  PROVE  BoardInv'
<1> USE BoardLeftAlone
<1>1. CASE CreateFdt
  BY <1>1 DEF CreateFdt, BoardInv
<1>2. CASE PlugIommu
  BY <1>2 DEF PlugIommu, boardVars, BoardInv
<1>3. CASE Finalize
  <2>1. sock' \in Int
    BY <1>3, ConfigAssumption DEF Finalize, BoardInv
  <2> QED BY <1>3, <2>1 DEF Finalize
<1>4. CASE FdtSocket
  BY <1>4 DEF FdtSocket, BoardInv
<1>5. CASE FdtImsic
  <2>1. sock' \in Int
    BY <1>5, ConfigAssumption DEF FdtImsic, BoardInv
  <2> QED BY <1>5, <2>1 DEF FdtImsic
<1>6. CASE FdtXplic
  BY <1>6 DEF FdtXplic, BoardInv
<1>7. CASE FdtSocketsEnd
  BY <1>7 DEF FdtSocketsEnd, BoardInv
<1>8. CASE FdtVirtio
  BY <1>8 DEF FdtVirtio, Fdt, BoardInv
<1>9. CASE FdtPcie
  <2>1. pc = "fdt_pcie" /\ pc' = "fdt_reset" /\ UNCHANGED <<cfg, sock, ramSize, board>>
    BY <1>9, Zenon DEF FdtPcie
  <2> QED BY <2>1 DEF BoardInv
<1>10. CASE FdtReset
  BY <1>10 DEF FdtReset, Fdt, BoardInv
<1>11. CASE FdtUart
  BY <1>11 DEF FdtUart, Fdt, BoardInv
<1>12. CASE FdtRtc
  BY <1>12 DEF FdtRtc, Fdt, BoardInv
<1>13. CASE FdtMmioBus
  BY <1>13 DEF FdtMmioBus, Fdt, BoardInv
<1> QED BY <1>1, <1>2, <1>3, <1>4, <1>5, <1>6, <1>7, <1>8, <1>9, <1>10, <1>11, <1>12, <1>13
        DEF TreeStep

\* The invariant of the board is kept.
LEMMA BoardInvNext ==
  ASSUME BoardInv, [Next]_vars
  PROVE  BoardInv'
<1>1. CASE BoardStep
  BY <1>1, BoardInvStep
<1>2. CASE TreeStep
  BY <1>2, BoardInvTree
<1>3. CASE Boot
  BY <1>3, BoardLeftAlone DEF Boot, BoardInv
<1>4. CASE ClientConnects
  BY <1>4, BoardLeftAlone DEF ClientConnects, BoardInv
<1>5. CASE UNCHANGED vars
  BY <1>5, BoardLeftAlone DEF vars, boardVars, BoardInv
<1> QED BY <1>1, <1>2, <1>3, <1>4, <1>5 DEF Next, Step

\* It implies that the regions are disjoint.
LEMMA BoardInvDisjoint ==
  ASSUME BoardInv
  PROVE  RegionsDisjoint
<1> SUFFICES ASSUME NEW r \in board, NEW s \in board, r # s, ~RamMeetsPcie(r.dev, s.dev)
             PROVE  ~Overlaps(r, s)
  BY Zenon DEF RegionsDisjoint, RamMeetsPcie
<1>1. r \in WholeBoard /\ s \in WholeBoard /\ cfg \in Configs
  BY DEF BoardInv
<1>2. Apart(r, s)
  BY <1>1, WholeBoardApart
<1>3. InSlot(r) /\ InSlot(s)
  BY <1>1, TimersApart, PlicsApart, AplicsApart, BothImsics, RowsApart, AloneInSlots DEF WholeBoard
<1> QED BY <1>2, <1>3 DEF Apart, InSlot, Overlaps

\* However many sockets, harts and guests a machine has, however its harts are
\* spread over the sockets and whatever memory it is asked for, no two of its
\* devices answer at one address, but for the memory and the high PCIe window of
\* a 32-bit machine with more memory than it is limited to.
\* (aislab_memmap, the addresses aislab_machine_init computes from it.)
THEOREM BoardDisjoint == Spec => []RegionsDisjoint
<1>1. Init => BoardInv
  BY BoardInvInit
<1>2. BoardInv /\ [Next]_vars => BoardInv'
  BY BoardInvNext
<1>3. BoardInv => RegionsDisjoint
  BY BoardInvDisjoint
<1> QED BY <1>1, <1>2, <1>3, PTL DEF Spec

-----------------------------------------------------------------------------
(* The interrupt lines *)

\* What is wired once the controllers of the machine are chosen.
AllWires ==
  { Wire("virtio", n, 0, irqchip["virtio"], VIRTIO_IRQ + n) : n \in 0 .. VIRTIO_COUNT - 1 }
  \cup { Wire("ecam", 0, pin, irqchip["pcie"], PCIE_IRQ + pin) : pin \in 0 .. GPEX_NUM_IRQS - 1 }
  \cup { Wire("platform_bus", 0, n, irqchip["mmio"], AISLAB_PLATFORM_BUS_IRQ + n) :
           n \in 0 .. AISLAB_PLATFORM_BUS_NUM_IRQS - 1 }
  \cup { Wire("uart", 0, 0, irqchip["mmio"], UART0_IRQ), Wire("rtc", 0, 0, irqchip["mmio"], RTC_IRQ),
         Wire("mmio_bus", 0, 0, irqchip["mmio"], MMIO_BUS_IRQ) }

WiresInv ==
  /\ pc \in {"checks", "sockets"} => wires = {}
  /\ wires \subseteq AllWires

\* A line is asked for once, whatever controller it is of.
LEMMA LinesApart ==
  ASSUME NEW w \in AllWires
  PROVE  /\ w.line \in 1 .. AISLAB_IRQCHIP_NUM_SOURCES - 1
         /\ \A x \in AllWires : x # w => x.line # w.line
<1> USE DEF VIRTIO_IRQ, VIRTIO_COUNT, PCIE_IRQ, GPEX_NUM_IRQS, AISLAB_PLATFORM_BUS_IRQ,
            AISLAB_PLATFORM_BUS_NUM_IRQS, UART0_IRQ, RTC_IRQ, MMIO_BUS_IRQ
<1> DEFINE By(x, dev, n, out, chip, line) == x = Wire(dev, n, out, irqchip[chip], line) /\ x.line = line
           Known(x) ==
             \/ \E n \in 0 .. 7 : By(x, "virtio", n, 0, "virtio", 1 + n)
             \/ \E pin \in 0 .. 3 : By(x, "ecam", 0, pin, "pcie", 32 + pin)
             \/ \E n \in 0 .. 31 : By(x, "platform_bus", 0, n, "mmio", 64 + n)
             \/ By(x, "uart", 0, 0, "mmio", 10)
             \/ By(x, "rtc", 0, 0, "mmio", 11)
             \/ By(x, "mmio_bus", 0, 0, "mmio", 96)
<1>1. \A dev, n, out, chip, line : Wire(dev, n, out, chip, line).line = line
  BY DEF Wire
<1>2. \A x \in AllWires : Known(x)
  BY <1>1, SMT DEF AllWires
<1> HIDE DEF By
<1>3. \A x, dev, n, out, chip, line : By(x, dev, n, out, chip, line) => x.line = line
  BY DEF By
<1>4. \A x, y, dev, n, out, chip, line :
        By(x, dev, n, out, chip, line) /\ By(y, dev, n, out, chip, line) => x = y
  BY DEF By
<1>5. w.line \in 1 .. AISLAB_IRQCHIP_NUM_SOURCES - 1
  BY <1>2, <1>3, SMT DEF AISLAB_IRQCHIP_NUM_SOURCES
<1>6. ASSUME NEW x \in AllWires, x.line = w.line PROVE x = w
  BY <1>2, <1>3, <1>4, <1>6, SMT
<1> QED BY <1>5, <1>6

\* Every line asked for is one of those the machine can ask for.
LEMMA WiresInvNext ==
  ASSUME WiresInv, [Next]_vars
  PROVE  WiresInv'
<1> USE DEF WiresInv
<1>0. irqchip' = irqchip => AllWires' = AllWires
  BY DEF AllWires
<1>1. ASSUME UNCHANGED <<wires, irqchip>>, pc' \notin {"checks", "sockets"} \/ wires = {}
      PROVE  WiresInv'
  BY <1>0, <1>1
<1>2. CASE BoardStep
  <2>1. CASE InitChecks
    BY <2>1, <1>1 DEF InitChecks
  <2>2. CASE InitSocket
    BY <2>2 DEF InitSocket
  <2>3. ASSUME NEW from, NEW to, NEW regions, NEW lines, Build(from, to, regions, lines),
               to \notin {"checks", "sockets"}, lines \subseteq AllWires
        PROVE  WiresInv'
    BY <1>0, <2>3 DEF Build
  <2>4. CASE InitAia
    BY <2>4, <2>3 DEF InitAia
  <2>5. CASE MapMemory
    BY <2>5, <2>3 DEF MapMemory
  <2>6. CASE CreateVirtio
    BY <2>6, <2>3 DEF CreateVirtio, AllWires
  <2>7. CASE GpexPcieInit
    BY <2>7, <2>3 DEF GpexPcieInit, AllWires
  <2>8. CASE CreatePlatformBus
    BY <2>8, <2>3 DEF CreatePlatformBus, AllWires
  <2>9. CASE CreateSerialAndRtc
    BY <2>9, <2>3 DEF CreateSerialAndRtc, AllWires
  <2>10. CASE CreateMmioBus
    BY <2>10, <2>3 DEF CreateMmioBus, AllWires
  <2>11. CASE MapFlash
    BY <2>11, <2>3 DEF MapFlash
  <2>12. CASE ListenMmioBus
    BY <1>1, <2>12 DEF ListenMmioBus
  <2> QED BY <1>2, <2>1, <2>2, <2>4, <2>5, <2>6, <2>7, <2>8, <2>9, <2>10, <2>11, <2>12 DEF BoardStep
<1>3. CASE TreeStep
  <2>1. UNCHANGED <<wires, irqchip>> /\ pc' \notin {"checks", "sockets"}
    <3> USE DEF Fdt, boardVars
    <3>1. CASE CreateFdt \/ Finalize \/ FdtSocketsEnd \/ FdtReset \/ FdtVirtio
      BY <3>1 DEF CreateFdt, Finalize, FdtSocketsEnd, FdtReset, FdtVirtio
    <3>2. CASE PlugIommu
      BY <3>2 DEF PlugIommu
    <3>3. CASE FdtSocket
      BY <3>3 DEF FdtSocket
    <3>4. CASE FdtImsic
      BY <3>4 DEF FdtImsic
    <3>5. CASE FdtXplic
      BY <3>5 DEF FdtXplic
    <3>6. CASE FdtPcie
      BY <3>6, Zenon DEF FdtPcie
    <3>7. CASE FdtUart \/ FdtRtc \/ FdtMmioBus
      BY <3>7 DEF FdtUart, FdtRtc, FdtMmioBus
    <3> QED BY <1>3, <3>1, <3>2, <3>3, <3>4, <3>5, <3>6, <3>7 DEF TreeStep
  <2> QED BY <2>1, <1>1
<1>4. CASE Boot
  BY <1>1, <1>4 DEF Boot
<1>5. CASE ClientConnects
  BY <1>1, <1>5 DEF ClientConnects
<1>6. CASE UNCHANGED vars
  BY <1>1, <1>6 DEF vars, boardVars
<1> QED BY <1>2, <1>3, <1>4, <1>5, <1>6 DEF Next, Step

\* On every machine each interrupt line is one the controllers have and is
\* asked for by one output of one device, so that the controllers of several
\* sockets, or of the kernel, could even be one.
\* (VIRTIO_IRQ to MMIO_BUS_IRQ against AISLAB_IRQCHIP_NUM_SOURCES.)
THEOREM LinesKept == Spec => []LinesDistinct
<1>1. Init => WiresInv
  BY DEF Init, BoardInit, WiresInv
<1>2. WiresInv /\ [Next]_vars => WiresInv'
  BY WiresInvNext
<1>3. WiresInv => LinesDistinct
  BY LinesApart DEF WiresInv, LinesDistinct
<1> QED BY <1>1, <1>2, <1>3, PTL DEF Spec

-----------------------------------------------------------------------------
(* What boots *)

BootInv == cfg \in Configs /\ SuppliedCodeRuns

\* The machine runs by Boot only, and stays as it booted.
LEMMA BootInvNext ==
  ASSUME BootInv, [Next]_vars
  PROVE  BootInv'
<1> USE DEF BootInv, SuppliedCodeRuns
<1>1. CASE BoardStep \/ TreeStep
  <2>1. pc' # "running" /\ cfg' = cfg
    <3> USE DEF Build, Fdt, boardVars
    <3>1. CASE BoardStep
      <4>1. CASE InitChecks
        BY <4>1 DEF InitChecks
      <4>2. CASE InitSocket
        BY <4>2 DEF InitSocket
      <4>3. CASE InitAia \/ MapMemory \/ CreateVirtio \/ GpexPcieInit
        BY <4>3 DEF InitAia, MapMemory, CreateVirtio, GpexPcieInit
      <4>4. CASE CreatePlatformBus \/ CreateSerialAndRtc \/ CreateMmioBus \/ MapFlash
        BY <4>4 DEF CreatePlatformBus, CreateSerialAndRtc, CreateMmioBus, MapFlash
      <4>5. CASE ListenMmioBus
        BY <4>5 DEF ListenMmioBus
      <4> QED BY <3>1, <4>1, <4>2, <4>3, <4>4, <4>5 DEF BoardStep
    <3>2. CASE TreeStep
      <4>1. CASE CreateFdt \/ Finalize \/ FdtSocketsEnd \/ FdtReset \/ FdtVirtio
        BY <4>1 DEF CreateFdt, Finalize, FdtSocketsEnd, FdtReset, FdtVirtio
      <4>2. CASE PlugIommu
        BY <4>2 DEF PlugIommu
      <4>3. CASE FdtSocket
        BY <4>3 DEF FdtSocket
      <4>4. CASE FdtImsic
        BY <4>4 DEF FdtImsic
      <4>5. CASE FdtXplic
        BY <4>5 DEF FdtXplic
      <4>6. CASE FdtPcie
        BY <4>6, Zenon DEF FdtPcie
      <4>7. CASE FdtUart \/ FdtRtc \/ FdtMmioBus
        BY <4>7 DEF FdtUart, FdtRtc, FdtMmioBus
      <4> QED BY <3>2, <4>1, <4>2, <4>3, <4>4, <4>5, <4>6, <4>7 DEF TreeStep
    <3> QED BY <1>1, <3>1, <3>2
  <2> QED BY <2>1 DEF Firmware, Kvm
<1>2. CASE Boot
  <2>1. CASE Kvm /\ cfg.bios = "file"
    BY <1>2, <2>1 DEF Boot
  <2>2. CASE ~(Kvm /\ cfg.bios = "file")
    <3> DEFINE start == IF FlashFirst THEN "flash" ELSE "dram"
               entry == IF cfg.pflash /\ ~FlashFirst THEN "flash"
                        ELSE IF cfg.kernel THEN "kernel" ELSE "none"
    <3>1. boot' = [start |-> start, entry |-> entry] /\ cfg' = cfg
      BY <1>2, <2>2 DEF Boot
    <3>2. boot'.start = start /\ boot'.entry = entry /\ Kvm' = Kvm /\ Firmware' = Firmware
      BY <3>1 DEF Kvm, Firmware
    <3>3. cfg \in Configs
      OBVIOUS
    <3>4. cfg.bios \in {"default", "none", "file"}
      BY <3>3, ConfigAssumption
    <3>5. Kvm => Firmware = "none"
      BY <2>2, <3>4 DEF Firmware
    <3> QED BY <3>1, <3>2, <3>5 DEF FlashFirst
  <2> QED BY <2>1, <2>2
<1>3. CASE ClientConnects /\ UNCHANGED <<treeVars, boot>>
  BY <1>3 DEF ClientConnects, Firmware, Kvm
<1>4. CASE UNCHANGED vars
  BY <1>4 DEF vars, boardVars, Firmware, Kvm
<1> QED BY <1>1, <1>2, <1>3, <1>4 DEF Next, Step

\* On every machine that runs, what the user supplied gets control: a flash
\* always, a kernel unless the flash holds what is booted, and nothing of M mode
\* runs under KVM.  (aislab_machine_done.)
THEOREM SuppliedCodeIsRun == Spec => []SuppliedCodeRuns
<1>1. Init => BootInv
  BY DEF Init, BoardInit, BootInv, SuppliedCodeRuns
<1>2. BootInv => SuppliedCodeRuns
  BY DEF BootInv
<1> QED BY <1>1, <1>2, BootInvNext, PTL DEF Spec

-----------------------------------------------------------------------------
(* Phandles of the device tree *)

\* Most phandles the counter has given out: two for each hart of a socket done,
\* two for the IMSICs, two for the controllers of a socket done, the test device.
Limit ==
  CASE pc = "fdt_sockets" -> 1 + 2 * AISLAB_CPUS_MAX * (cfg.sockets - 1 - sock)
    [] pc = "fdt_xplic" -> 4099 + 2 * (cfg.sockets - 1 - sock)
    [] pc \in {"fdt_virtio", "fdt_pcie", "fdt_reset"} -> 4107
    [] pc \in {"fdt_uart", "fdt_rtc", "fdt_mmio_bus", "boot", "running", "exited"} -> 4108
    [] OTHER -> 1

\* A phandle is none, one the counter has passed, or the one QEMU allocates.
Numbered(n, next) ==
  /\ "phandle" \in DOMAIN n
  /\ n.phandle \in {0, ALLOC_PHANDLE} \cup 1 .. next - 1

CounterInv ==
  /\ cfg \in Configs
  /\ sock \in Int
  /\ pc \notin {"checks", "exited"} => cfg.sockets <= AISLAB_SOCKETS_MAX
  /\ pc \in {"fdt_sockets", "fdt_xplic"} => sock \in -1 .. cfg.sockets - 1
  /\ phandle \in 1 .. Limit

PhandlesInv ==
  /\ CounterInv
  /\ \A n \in tree : Numbered(n, phandle)
  /\ pc = "plug" => \A n \in tree : n.phandle # 0 => n.kind = "iommu"
  /\ PhandlesUnique

\* The counter stays far below what QEMU allocates.
LEMMA CounterBelow ==
  ASSUME CounterInv
  PROVE  phandle \in Nat /\ 1 <= phandle /\ phandle <= 4108
<1>1. cfg.sockets \in Nat /\ 1 <= cfg.sockets /\ sock \in Int
  BY ConfigAssumption DEF CounterInv
<1>2. pc \in {"fdt_sockets", "fdt_xplic"} => cfg.sockets <= 4 /\ -1 <= sock /\ sock <= cfg.sockets - 1
  BY <1>1 DEF CounterInv, AISLAB_SOCKETS_MAX
<1>3. Limit \in Nat /\ Limit <= 4108
  BY <1>1, <1>2 DEF Limit, AISLAB_CPUS_MAX
<1> QED BY <1>3 DEF CounterInv

\* A socket has at most as many harts as the machine.
LEMMA CountInNat ==
  ASSUME cfg \in Configs, NEW i
  PROVE  HartCount(i) \in 0 .. AISLAB_CPUS_MAX
<1>1. cfg.cpus \in 1 .. AISLAB_CPUS_MAX
  BY ConfigAssumption
<1>2. cfg.cpus \in Nat /\ cfg.cpus - 1 \in Int /\ 0 <= cfg.cpus - 1
  BY <1>1, SMTT(30) DEF AISLAB_CPUS_MAX
<1>3. IsFiniteSet(0 .. cfg.cpus - 1) /\ Cardinality(0 .. cfg.cpus - 1) = cfg.cpus
  <2>1. 0 \in Int /\ cfg.cpus - 1 \in Int /\ ~(0 > cfg.cpus - 1) /\ cfg.cpus - 1 - 0 + 1 = cfg.cpus
    BY <1>2
  <2>2. /\ IsFiniteSet(0 .. cfg.cpus - 1)
        /\ Cardinality(0 .. cfg.cpus - 1) = IF 0 > cfg.cpus - 1 THEN 0 ELSE cfg.cpus - 1 - 0 + 1
    BY <2>1, FS_Interval, Zenon
  <2> QED BY <2>1, <2>2
<1>4. Harts(i) \subseteq 0 .. cfg.cpus - 1
  BY DEF Harts
<1>5. IsFiniteSet(Harts(i)) /\ Cardinality(Harts(i)) <= cfg.cpus
  BY <1>3, <1>4, FS_Subset, ZenonT(30)
<1>6. Cardinality(Harts(i)) \in Nat
  BY <1>5, FS_CardinalityType
<1> QED BY <1>1, <1>5, <1>6 DEF HartCount, AISLAB_CPUS_MAX

-----------------------------------------------------------------------------
(* Nodes and their phandles *)

\* New(n, next): what a step with the counter at next' may add.
New(n, next) ==
  /\ "phandle" \in DOMAIN n
  /\ n.phandle \in {0} \cup phandle .. next - 1

\* A step that adds nodes with phandles the counter gives out meanwhile.
LEMMA NodesAdded ==
  ASSUME PhandlesInv, NEW N, tree' = tree \cup N, CounterInv', phandle <= phandle',
         \A n \in N : New(n, phandle'),
         \A n, m \in N : n.phandle = m.phandle /\ n.phandle # 0 => n = m,
         pc' # "plug"
  PROVE  PhandlesInv'
<1>1. phandle \in Nat /\ 1 <= phandle /\ phandle' \in Nat /\ phandle' <= 4108
  <2>1. phandle' \in Nat /\ phandle' <= 4108
    <3>1. cfg'.sockets \in Nat /\ 1 <= cfg'.sockets /\ sock' \in Int
      BY ConfigAssumption DEF CounterInv
    <3>2. pc' \in {"fdt_sockets", "fdt_xplic"} =>
            cfg'.sockets <= 4 /\ -1 <= sock' /\ sock' <= cfg'.sockets - 1
      BY <3>1 DEF CounterInv, AISLAB_SOCKETS_MAX
    <3>3. Limit' \in Nat /\ Limit' <= 4108
      BY <3>1, <3>2 DEF Limit, AISLAB_CPUS_MAX
    <3> QED BY <3>3 DEF CounterInv
  <2> QED BY <2>1, CounterBelow DEF PhandlesInv
<1>2. \A n \in tree : Numbered(n, phandle)
  BY DEF PhandlesInv
<1>3. \A n \in tree' : Numbered(n, phandle')
  BY <1>1, <1>2 DEF Numbered, New
<1>4. PhandlesUnique'
  <2> SUFFICES ASSUME NEW n \in tree', NEW m \in tree', n.phandle = m.phandle, n.phandle # 0
               PROVE  n = m
    BY DEF PhandlesUnique
  <2>1. CASE n \in tree /\ m \in tree
    BY <2>1 DEF PhandlesInv, PhandlesUnique
  <2>2. CASE n \in N /\ m \in N
    BY <2>2
  <2>3. CASE (n \in tree /\ m \in N) \/ (n \in N /\ m \in tree)
    BY <1>1, <1>2, <2>3 DEF Numbered, New, ALLOC_PHANDLE
  <2>4. (n \in tree \/ n \in N) /\ (m \in tree \/ m \in N)
    OBVIOUS
  <2> QED BY <2>1, <2>2, <2>3, <2>4
<1> QED BY <1>3, <1>4 DEF PhandlesInv

\* A step that leaves the tree alone.
LEMMA TreeLeftAlone ==
  ASSUME PhandlesInv, UNCHANGED <<tree, phandle>>, CounterInv', pc' = "plug" => pc = "plug"
  PROVE  PhandlesInv'
BY DEF PhandlesInv, PhandlesUnique, Numbered

-----------------------------------------------------------------------------
(* The counter, step by step *)

\* A step of aislab_machine_init, which draws no phandles.
LEMMA CounterBoard ==
  ASSUME CounterInv, BoardStep, phandle' = phandle
  PROVE  CounterInv' /\ pc' # "plug"
<1> USE DEF CounterInv, Limit
<1>1. CASE InitChecks
  BY <1>1, ConfigAssumption DEF InitChecks, AISLAB_SOCKETS_MAX
<1>2. CASE InitSocket
  BY <1>2, ConfigAssumption DEF InitSocket, Sockets
<1>3. ASSUME NEW from, NEW to, NEW regions, NEW lines, Build(from, to, regions, lines),
             from \in {"sockets", "memory", "virtio", "pcie", "platform", "serial", "mmio_bus", "flash"},
             to \in {"memory", "virtio", "pcie", "platform", "serial", "mmio_bus", "flash", "tree"}
      PROVE  CounterInv' /\ pc' # "plug"
  BY <1>3 DEF Build
<1>4. CASE InitAia
  BY <1>3, <1>4 DEF InitAia
<1>5. CASE MapMemory
  BY <1>3, <1>5 DEF MapMemory
<1>6. CASE CreateVirtio
  BY <1>3, <1>6 DEF CreateVirtio
<1>7. CASE GpexPcieInit
  BY <1>3, <1>7 DEF GpexPcieInit
<1>8. CASE CreatePlatformBus
  BY <1>3, <1>8 DEF CreatePlatformBus
<1>9. CASE CreateSerialAndRtc
  BY <1>3, <1>9 DEF CreateSerialAndRtc
<1>10. CASE CreateMmioBus
  BY <1>3, <1>10 DEF CreateMmioBus
<1>11. CASE MapFlash
  BY <1>3, <1>11 DEF MapFlash
<1>12. CASE ListenMmioBus
  BY <1>12 DEF ListenMmioBus
<1> QED BY <1>1, <1>2, <1>4, <1>5, <1>6, <1>7, <1>8, <1>9, <1>10, <1>11, <1>12 DEF BoardStep

\* create_fdt_pcie draws no phandle.
LEMMA PcieCompleted ==
  ASSUME FdtPcie
  PROVE  pc = "fdt_pcie" /\ pc' = "fdt_reset" /\ UNCHANGED <<cfg, sock, phandle>>
BY Zenon DEF FdtPcie

\* A step of create_fdt and finalize_fdt.
LEMMA CounterTree ==
  ASSUME CounterInv, TreeStep
  PROVE  CounterInv' /\ phandle <= phandle'
<1> USE DEF CounterInv, Limit
<1>0. phandle \in Nat /\ cfg.sockets \in Nat /\ 1 <= cfg.sockets
  BY CounterBelow, ConfigAssumption
<1>1. CASE CreateFdt
  BY <1>0, <1>1 DEF CreateFdt
<1>2. CASE PlugIommu
  BY <1>0, <1>2 DEF PlugIommu, boardVars
<1>3. CASE Finalize
  <2>1. /\ pc = "plug" /\ pc' \in {"boot", "fdt_sockets"} /\ sock' = cfg.sockets - 1
        /\ cfg' = cfg /\ phandle' = phandle
    BY <1>3 DEF Finalize
  <2>2. phandle = 1
    BY <1>0, <2>1
  <2>3. 1 + 2 * AISLAB_CPUS_MAX * (cfg.sockets - 1 - sock') = 1
    BY <1>0, <2>1 DEF AISLAB_CPUS_MAX
  <2>4. Limit' >= 1
    BY <2>1, <2>3
  <2> QED BY <1>0, <2>1, <2>2, <2>3
<1>4. CASE FdtSocket
  <2>1. Count \in 0 .. 512
    BY CountInNat DEF Count, AISLAB_CPUS_MAX
  <2>2. /\ pc = "fdt_sockets" /\ pc' = pc /\ sock \in 0 .. cfg.sockets - 1 /\ sock' = sock - 1
        /\ cfg' = cfg /\ phandle' = phandle + 2 * Count
    BY <1>4 DEF FdtSocket
  <2>3. phandle <= 1 + 1024 * (cfg.sockets - 1 - sock)
    BY <2>2 DEF AISLAB_CPUS_MAX
  <2>4. phandle' <= 1 + 1024 * (cfg.sockets - 1 - sock')
    BY <1>0, <2>1, <2>2, <2>3
  <2> QED BY <1>0, <2>1, <2>2, <2>4 DEF AISLAB_CPUS_MAX
<1>5. CASE FdtImsic
  <2>1. /\ pc = "fdt_sockets" /\ pc' = "fdt_xplic" /\ sock = -1 /\ sock' \in {0, cfg.sockets - 1}
        /\ cfg' = cfg /\ phandle' \in {phandle, phandle + 2}
    BY <1>5 DEF FdtImsic
  <2>2. phandle <= 4097
    BY <1>0, <2>1 DEF AISLAB_SOCKETS_MAX, AISLAB_CPUS_MAX
  <2> QED BY <1>0, <2>1, <2>2
<1>6. CASE FdtXplic
  <2>1. /\ pc = "fdt_xplic" /\ pc' = pc /\ sock \in 0 .. cfg.sockets - 1 /\ sock' = sock - 1
        /\ cfg' = cfg /\ phandle' \in {phandle + 1, phandle + 2}
    BY <1>6 DEF FdtXplic
  <2>2. phandle <= 4099 + 2 * (cfg.sockets - 1 - sock)
    BY <2>1
  <2> QED BY <1>0, <2>1, <2>2
<1>7. CASE FdtSocketsEnd
  BY <1>0, <1>7 DEF FdtSocketsEnd, treeVars, AISLAB_SOCKETS_MAX
<1>8. CASE FdtVirtio
  BY <1>0, <1>8 DEF FdtVirtio, Fdt
<1>9. CASE FdtPcie
  <2>1. pc = "fdt_pcie" /\ pc' = "fdt_reset" /\ UNCHANGED <<cfg, sock, phandle>>
    BY <1>9, PcieCompleted
  <2> QED BY <1>0, <2>1
<1>10. CASE FdtReset
  BY <1>0, <1>10 DEF FdtReset, Fdt
<1>11. CASE FdtUart \/ FdtRtc \/ FdtMmioBus
  BY <1>0, <1>11 DEF FdtUart, FdtRtc, FdtMmioBus, Fdt
<1> QED BY <1>1, <1>2, <1>3, <1>4, <1>5, <1>6, <1>7, <1>8, <1>9, <1>10, <1>11 DEF TreeStep

-----------------------------------------------------------------------------
(* The nodes, step by step *)

\* An update of a node keeps what it does not name.
LEMMA NodePhandle ==
  /\ "phandle" \in DOMAIN Node0
  /\ Node0.phandle = 0
BY DEF Node0

\* The nodes a socket's harts get: two phandles each, all different.
LEMMA CpuNodesNew ==
  ASSUME CounterInv
  PROVE  \A n \in CpuNodes :
           /\ "phandle" \in DOMAIN n
           /\ n.phandle \in {0} \cup phandle .. phandle + 2 * Count - 1
<1>1. Count \in Nat /\ phandle \in Nat
  BY CountInNat, CounterBelow DEF Count, AISLAB_CPUS_MAX, CounterInv
<1> SUFFICES ASSUME NEW k \in 0 .. Count - 1, NEW n,
                    \/ n = [Node0 EXCEPT !.kind = "cpu", !.at = FirstHartid(sock) + k,
                                         !.phandle = CpuPhandle(k)]
                    \/ n = [Node0 EXCEPT !.kind = "cpu-intc", !.at = FirstHartid(sock) + k,
                                         !.phandle = IntcPhandle(k), !.cells = 1]
                    \/ n = [Node0 EXCEPT !.kind = "core", !.at = FirstHartid(sock) + k,
                                         !.refs = {Ref("cpu", CpuPhandle(k))}]
             PROVE  /\ "phandle" \in DOMAIN n
                    /\ n.phandle \in {0} \cup phandle .. phandle + 2 * Count - 1
  BY Zenon DEF CpuNodes
<1>2. CpuPhandle(k) \in phandle .. phandle + 2 * Count - 1
  BY <1>1 DEF CpuPhandle
<1>3. IntcPhandle(k) \in phandle .. phandle + 2 * Count - 1
  BY <1>1 DEF IntcPhandle, CpuPhandle
<1>4. "phandle" \in DOMAIN n /\ n.phandle \in {0, CpuPhandle(k), IntcPhandle(k)}
  BY DEF Node0
<1> QED BY <1>2, <1>3, <1>4

\* No two of them are the same: those of harts are even steps apart, those of
\* their interrupt controllers odd.
LEMMA CpuNodesDistinct ==
  ASSUME CounterInv
  PROVE  \A n, m \in CpuNodes : n.phandle = m.phandle /\ n.phandle # 0 => n = m
<1> DEFINE first == FirstHartid(sock)
           cpu(k) == [Node0 EXCEPT !.kind = "cpu", !.at = first + k, !.phandle = CpuPhandle(k)]
           ctl(k) == [Node0 EXCEPT !.kind = "cpu-intc", !.at = first + k,
                                   !.phandle = IntcPhandle(k), !.cells = 1]
           core(k) == [Node0 EXCEPT !.kind = "core", !.at = first + k,
                                    !.refs = {Ref("cpu", CpuPhandle(k))}]
<1>1. Count \in Nat /\ phandle \in Nat
  BY CountInNat, CounterBelow DEF Count, AISLAB_CPUS_MAX, CounterInv
<1>2. ASSUME NEW n \in CpuNodes
      PROVE  \E k \in 0 .. Count - 1 : n = cpu(k) \/ n = ctl(k) \/ n = core(k)
  BY <1>2, Zenon DEF CpuNodes
<1>3. \A k \in 0 .. Count - 1 : /\ cpu(k).phandle = CpuPhandle(k)
                                /\ ctl(k).phandle = IntcPhandle(k)
                                /\ core(k).phandle = 0
  BY DEF Node0
<1>4. \A k, l \in 0 .. Count - 1 : /\ CpuPhandle(k) = CpuPhandle(l) => k = l
                                   /\ IntcPhandle(k) = IntcPhandle(l) => k = l
                                   /\ CpuPhandle(k) # IntcPhandle(l)
  BY <1>1 DEF CpuPhandle, IntcPhandle
<1> HIDE DEF cpu, ctl, core
<1> SUFFICES ASSUME NEW n \in CpuNodes, NEW m \in CpuNodes, n.phandle = m.phandle, n.phandle # 0
             PROVE  n = m
  OBVIOUS
<1>5. PICK k \in 0 .. Count - 1 : n = cpu(k) \/ n = ctl(k) \/ n = core(k)
  BY <1>2
<1>6. PICK l \in 0 .. Count - 1 : m = cpu(l) \/ m = ctl(l) \/ m = core(l)
  BY <1>2
<1>7. CASE n = cpu(k) /\ m = cpu(l)
  BY <1>3, <1>4, <1>7
<1>8. CASE n = ctl(k) /\ m = ctl(l)
  BY <1>3, <1>4, <1>8
<1>9. CASE n = cpu(k) /\ m = ctl(l)
  BY <1>3, <1>4, <1>9
<1>10. CASE n = ctl(k) /\ m = cpu(l)
  BY <1>3, <1>4, <1>10
<1> QED BY <1>3, <1>5, <1>6, <1>7, <1>8, <1>9, <1>10

\* Nodes of a socket that have no phandle.
LEMMA OtherNodesOfSocket ==
  ASSUME NEW ph, NEW n \in {MemoryNode} \cup TimerNodes(ph)
  PROVE  "phandle" \in DOMAIN n /\ n.phandle = 0
<1>1. MemoryNode.phandle = 0 /\ "phandle" \in DOMAIN MemoryNode
  BY DEF MemoryNode, Node0
<1>2. ClintNode(ph).phandle = 0 /\ "phandle" \in DOMAIN ClintNode(ph)
  BY DEF ClintNode, Node0
<1>3. \A a \in AclintNodes(ph) : a.phandle = 0 /\ "phandle" \in DOMAIN a
  BY DEF AclintNodes, Node0
<1> QED BY <1>1, <1>2, <1>3 DEF TimerNodes


\* create_fdt: no node has a phandle yet.
LEMMA TreeCreateFdt ==
  ASSUME PhandlesInv, CreateFdt, CounterInv'
  PROVE  PhandlesInv'
<1>1. \A n \in {PciNode, FlashNode, FwCfgNode, PmuNode} : "phandle" \in DOMAIN n /\ n.phandle = 0
  <2>1. "phandle" \in DOMAIN PciNode /\ PciNode.phandle = 0
    BY DEF PciNode, Node0
  <2>2. "phandle" \in DOMAIN FlashNode /\ FlashNode.phandle = 0
    BY DEF FlashNode, Node0
  <2>3. "phandle" \in DOMAIN FwCfgNode /\ FwCfgNode.phandle = 0
    BY DEF FwCfgNode, Node0
  <2>4. "phandle" \in DOMAIN PmuNode /\ PmuNode.phandle = 0
    BY DEF PmuNode, Node0
  <2> QED BY <2>1, <2>2, <2>3, <2>4
<1>2. \A n \in tree' : "phandle" \in DOMAIN n /\ n.phandle = 0
  BY <1>1 DEF CreateFdt
<1> QED BY <1>2 DEF PhandlesInv, PhandlesUnique, Numbered

\* A device plugged: the one phandle there is.
LEMMA TreePlugIommu ==
  ASSUME PhandlesInv, PlugIommu, CounterInv'
  PROVE  PhandlesInv'
<1> DEFINE pci == [PciNode EXCEPT !.refs = {Ref("iommu_map", ALLOC_PHANDLE)}]
           iommu == [Node0 EXCEPT !.kind = "iommu", !.phandle = ALLOC_PHANDLE]
<1>1. "phandle" \in DOMAIN pci /\ pci.phandle = 0
  BY DEF PciNode, Node0
<1>2. "phandle" \in DOMAIN iommu /\ iommu.phandle = ALLOC_PHANDLE /\ iommu.kind = "iommu"
  BY DEF Node0
<1>3. \A n \in tree : "phandle" \in DOMAIN n /\ n.phandle = 0
  BY DEF PhandlesInv, PlugIommu, Numbered
<1>4. tree' \subseteq tree \cup {pci, iommu}
  BY DEF PlugIommu
<1> HIDE DEF pci, iommu
<1>5. \A n \in tree' : "phandle" \in DOMAIN n /\ (n.phandle = 0 \/ n = iommu)
  BY <1>1, <1>2, <1>3, <1>4
<1> QED BY <1>2, <1>5 DEF PhandlesInv, PhandlesUnique, Numbered

\* create_fdt_sockets, one socket.
LEMMA TreeFdtSocket ==
  ASSUME PhandlesInv, FdtSocket, CounterInv', phandle <= phandle'
  PROVE  PhandlesInv'
<1> DEFINE ph == IntcFrom(pos', intc')
           N == CpuNodes \cup ({MemoryNode} \cup TimerNodes(ph))
<1>1. tree' = tree \cup N /\ phandle' = phandle + 2 * Count /\ pc' # "plug"
  BY Zenon DEF FdtSocket
<1>2. \A n \in CpuNodes : New(n, phandle')
  <2>1. \A n \in CpuNodes : /\ "phandle" \in DOMAIN n
                           /\ n.phandle \in {0} \cup phandle .. phandle + 2 * Count - 1
    BY CpuNodesNew DEF PhandlesInv
  <2>2. {0} \cup phandle .. phandle' - 1 = {0} \cup phandle .. phandle + 2 * Count - 1
    <3>1. Count \in Nat /\ phandle \in Nat
      BY CountInNat, CounterBelow DEF Count, AISLAB_CPUS_MAX, CounterInv, PhandlesInv
    <3> QED BY <1>1, <3>1
  <2> QED BY <2>1, <2>2 DEF New
<1>3. \A n \in {MemoryNode} \cup TimerNodes(ph) : "phandle" \in DOMAIN n /\ n.phandle = 0
  BY OtherNodesOfSocket
<1>4. \A n \in N : New(n, phandle')
  BY <1>2, <1>3 DEF New
<1>5. \A n, m \in N : n.phandle = m.phandle /\ n.phandle # 0 => n = m
  BY <1>3, CpuNodesDistinct DEF PhandlesInv
<1> HIDE DEF N
<1> QED BY <1>1, <1>4, <1>5, NodesAdded

\* The phandle of the node of an IMSIC is the one drawn for it.
LEMMA ImsicPhandle ==
  ASSUME NEW entry, NEW irq, NEW ph, NEW guestBits
  PROVE  /\ "phandle" \in DOMAIN ImsicNode(entry, irq, ph, guestBits)
         /\ ImsicNode(entry, irq, ph, guestBits).phandle = ph
<1>1. ASSUME NEW a, NEW b, NEW c, NEW d, NEW e
      PROVE  LET n == [Node0 EXCEPT !.kind = "imsic", !.at = a, !.phandle = ph, !.cells = b,
                                    !.ext = c, !.reg = d, !.bits = e]
             IN  "phandle" \in DOMAIN n /\ n.phandle = ph
  BY DEF Node0
<1> QED BY <1>1, Zenon DEF ImsicNode

\* create_fdt_imsic: two phandles, of the two levels.
LEMMA TreeFdtImsic ==
  ASSUME PhandlesInv, FdtImsic, CounterInv', phandle <= phandle'
  PROVE  PhandlesInv'
<1> DEFINE m == ImsicNode(aislab_memmap.IMSIC_M, "M_EXT", phandle, 0)
           s == ImsicNode(aislab_memmap.IMSIC_S, "S_EXT", phandle + 1, GuestBits)
<1>1. phandle \in Nat /\ 1 <= phandle
  BY CounterBelow DEF PhandlesInv
<1>2. CASE Imsic
  <2> DEFINE N == (IF Kvm THEN {} ELSE {m}) \cup {s}
  <2>1. msi' = <<phandle, phandle + 1>> /\ phandle' = phandle + 2 /\ pc' # "plug"
    BY <1>2 DEF FdtImsic
  <2>2. tree' = tree \cup N
    <3>1. tree' = tree \cup (IF Kvm THEN {}
                             ELSE {ImsicNode(aislab_memmap.IMSIC_M, "M_EXT", msi'[1], 0)})
                       \cup {ImsicNode(aislab_memmap.IMSIC_S, "S_EXT", msi'[2], GuestBits)}
      BY <1>2, Zenon DEF FdtImsic
    <3>2. msi'[1] = phandle /\ msi'[2] = phandle + 1
      BY <2>1
    <3> QED BY <3>1, <3>2
  <2>3. /\ "phandle" \in DOMAIN m /\ m.phandle = phandle
        /\ "phandle" \in DOMAIN s /\ s.phandle = phandle + 1
    BY ImsicPhandle
  <2> HIDE DEF m, s
  <2>4. \A n \in N : New(n, phandle')
    BY <1>1, <2>1, <2>3 DEF New
  <2>5. \A x, y \in N : x.phandle = y.phandle /\ x.phandle # 0 => x = y
    BY <1>1, <2>3
  <2> HIDE DEF N
  <2> QED BY <2>1, <2>2, <2>4, <2>5, NodesAdded
<1>3. CASE ~Imsic
  BY <1>3, TreeLeftAlone DEF FdtImsic
<1> QED BY <1>2, <1>3


\* The phandles of the nodes of the interrupt controllers, and of the bus.
LEMMA ChipPhandles ==
  /\ \A ph, phandles : /\ "phandle" \in DOMAIN PlicNode(ph, phandles)
                       /\ PlicNode(ph, phandles).phandle = ph
  /\ \A entry, irq, parent, ph, child, phandles, harts :
       /\ "phandle" \in DOMAIN AplicNode(entry, irq, parent, ph, child, phandles, harts)
       /\ AplicNode(entry, irq, parent, ph, child, phandles, harts).phandle = ph
  /\ \A parent : \A n \in PlatformBusNode(parent) : "phandle" \in DOMAIN n /\ n.phandle = 0
<1>1. ASSUME NEW kind, NEW ph, NEW a, NEW b, NEW c, NEW d
      PROVE  LET n == [Node0 EXCEPT !.kind = kind, !.at = a, !.reg = b, !.phandle = ph,
                                    !.cells = c, !.ext = d]
             IN  "phandle" \in DOMAIN n /\ n.phandle = ph
  BY DEF Node0
<1>2. ASSUME NEW kind, NEW ph, NEW a, NEW b, NEW c, NEW d, NEW e
      PROVE  LET n == [Node0 EXCEPT !.kind = kind, !.at = a, !.reg = b, !.phandle = ph,
                                    !.cells = c, !.ext = d, !.refs = e]
             IN  "phandle" \in DOMAIN n /\ n.phandle = ph
  BY DEF Node0
<1>3. ASSUME NEW kind, NEW a, NEW b, NEW c
      PROVE  LET n == [Node0 EXCEPT !.kind = kind, !.at = a, !.reg = b, !.irqs = c]
             IN  "phandle" \in DOMAIN n /\ n.phandle = 0
  BY DEF Node0
<1>4. ASSUME NEW ph, NEW phandles
      PROVE  "phandle" \in DOMAIN PlicNode(ph, phandles) /\ PlicNode(ph, phandles).phandle = ph
  BY <1>1, Zenon DEF PlicNode
<1>5. ASSUME NEW entry, NEW irq, NEW parent, NEW ph, NEW child, NEW phandles, NEW harts
      PROVE  /\ "phandle" \in DOMAIN AplicNode(entry, irq, parent, ph, child, phandles, harts)
             /\ AplicNode(entry, irq, parent, ph, child, phandles, harts).phandle = ph
  BY <1>2, Zenon DEF AplicNode
<1>6. ASSUME NEW parent, NEW n \in PlatformBusNode(parent)
      PROVE  "phandle" \in DOMAIN n /\ n.phandle = 0
  BY <1>3, <1>6, Zenon DEF PlatformBusNode
<1> QED BY <1>4, <1>5, <1>6, Zenon

\* create_fdt_socket_plic and create_fdt_socket_aplic, one socket.
LEMMA TreeFdtXplic ==
  ASSUME PhandlesInv, FdtXplic, CounterInv', phandle <= phandle'
  PROVE  PhandlesInv'
<1>1. phandle \in Nat /\ 1 <= phandle /\ pc' # "plug"
  BY CounterBelow DEF PhandlesInv, FdtXplic
<1>2. CASE cfg.aia = "none"
  <2> DEFINE plic == PlicNode(phandle, IntcFrom(pos', intc))
             N == {plic} \cup PlatformBusNode(phandle)
  <2>1. phandle' = phandle + 1
    BY <1>2 DEF FdtXplic
  <2>2. tree' = tree \cup N
    <3>1. tree' = tree \cup {plic} \cup PlatformBusNode(phandle)
      BY <1>2, Zenon DEF FdtXplic
    <3> QED BY <3>1
  <2>3. "phandle" \in DOMAIN plic /\ plic.phandle = phandle
    BY ChipPhandles, Zenon
  <2>4. \A n \in PlatformBusNode(phandle) : "phandle" \in DOMAIN n /\ n.phandle = 0
    BY ChipPhandles, Zenon
  <2> HIDE DEF plic
  <2>5. \A n \in N : New(n, phandle')
    BY <1>1, <2>1, <2>3, <2>4 DEF New
  <2>6. \A x, y \in N : x.phandle = y.phandle /\ x.phandle # 0 => x = y
    BY <2>3, <2>4
  <2> HIDE DEF N
  <2> QED BY <1>1, <2>2, <2>5, <2>6, NodesAdded
<1>3. CASE cfg.aia # "none"
  <2> DEFINE ph == IntcFrom(pos', intc)
             harts == IF UseKvmAia THEN cfg.cpus ELSE Count
             m == AplicNode(aislab_memmap.APLIC_M, "M_EXT", msi[1], phandle, phandle + 1, ph, harts)
             s == AplicNode(aislab_memmap.APLIC_S, "S_EXT", msi[2], phandle + 1, 0, ph, harts)
             bus == PlatformBusNode(phandle + 1)
             N == AplicNodes(ph, harts) \cup bus
  <2>1. phandle' = phandle + 2
    BY <1>3 DEF FdtXplic
  <2>2. tree' = tree \cup N
    <3>1. tree' = tree \cup AplicNodes(ph, harts) \cup bus
      BY <1>3, Zenon DEF FdtXplic
    <3> QED BY <3>1
  <2>3. /\ "phandle" \in DOMAIN m /\ m.phandle = phandle
        /\ "phandle" \in DOMAIN s /\ s.phandle = phandle + 1
    <3>1. "phandle" \in DOMAIN m /\ m.phandle = phandle
      BY ChipPhandles
    <3>2. "phandle" \in DOMAIN s /\ s.phandle = phandle + 1
      BY ChipPhandles
    <3> QED BY <3>1, <3>2
  <2>4. \A n \in bus : "phandle" \in DOMAIN n /\ n.phandle = 0
    BY ChipPhandles, Zenon
  <2>5. AplicNodes(ph, harts) \subseteq {m, s}
    BY DEF AplicNodes
  <2> HIDE DEF m, s, bus
  <2>6. \A n \in N : New(n, phandle')
    BY <1>1, <2>1, <2>3, <2>4, <2>5 DEF New
  <2>7. \A x, y \in N : x.phandle = y.phandle /\ x.phandle # 0 => x = y
    BY <1>1, <2>3, <2>4, <2>5
  <2> HIDE DEF N
  <2> QED BY <1>1, <2>2, <2>6, <2>7, NodesAdded
<1> QED BY <1>2, <1>3

\* Nodes of devices have no phandle.
LEMMA DevicePhandle ==
  ASSUME NEW kind, NEW at, NEW d, NEW line
  PROVE  /\ "phandle" \in DOMAIN DeviceNode(kind, at, d, line)
         /\ DeviceNode(kind, at, d, line).phandle = 0
<1>1. ASSUME NEW a, NEW b, NEW c
      PROVE  LET n == [Node0 EXCEPT !.kind = kind, !.at = a, !.reg = b, !.irqs = c]
             IN  "phandle" \in DOMAIN n /\ n.phandle = 0
  BY DEF Node0
<1> QED BY <1>1, Zenon DEF DeviceNode

\* The functions that add such nodes.
LEMMA TreeDevices ==
  ASSUME PhandlesInv, FdtVirtio \/ FdtUart \/ FdtRtc \/ FdtMmioBus, CounterInv'
  PROVE  PhandlesInv'
<1>1. ASSUME NEW N, NEW from, NEW to, Fdt(from, to, N), phandle' = phandle, to # "plug",
             \A n \in N : "phandle" \in DOMAIN n /\ n.phandle = 0
      PROVE  PhandlesInv'
  <2>1. tree' = tree \cup N /\ pc' = to
    BY <1>1 DEF Fdt
  <2>2. \A n \in N : New(n, phandle')
    BY <1>1 DEF New
  <2>3. \A x, y \in N : x.phandle = y.phandle /\ x.phandle # 0 => x = y
    BY <1>1
  <2>4. phandle <= phandle'
    BY <1>1, CounterBelow DEF PhandlesInv
  <2> QED BY <1>1, <2>1, <2>2, <2>3, <2>4, NodesAdded
<1>2. CASE FdtVirtio
  <2> DEFINE N == { DeviceNode("virtio", Nth(aislab_memmap.VIRTIO, n), "virtio", VIRTIO_IRQ + n) :
                      n \in 0 .. VIRTIO_COUNT - 1 }
  <2>1. \A n \in N : "phandle" \in DOMAIN n /\ n.phandle = 0
    BY DevicePhandle, Zenon
  <2>2. Fdt("fdt_virtio", "fdt_pcie", N) /\ phandle' = phandle
    BY <1>2 DEF FdtVirtio
  <2> HIDE DEF N
  <2> QED BY <1>1, <2>1, <2>2
<1>3. ASSUME NEW from, NEW to, NEW n, Fdt(from, to, {n}), phandle' = phandle, to # "plug",
             "phandle" \in DOMAIN n /\ n.phandle = 0
      PROVE  PhandlesInv'
  <2> DEFINE N == {n}
  <2>1. \A m \in N : "phandle" \in DOMAIN m /\ m.phandle = 0
    BY <1>3
  <2>2. Fdt(from, to, N)
    BY <1>3
  <2> HIDE DEF N
  <2> QED BY <1>1, <1>3, <2>1, <2>2
<1>4. CASE FdtUart
  BY <1>3, <1>4, DevicePhandle DEF FdtUart
<1>5. CASE FdtRtc
  BY <1>3, <1>5, DevicePhandle DEF FdtRtc
<1>6. CASE FdtMmioBus
  BY <1>3, <1>6, DevicePhandle DEF FdtMmioBus
<1> QED BY <1>2, <1>4, <1>5, <1>6

\* create_fdt_reset: one phandle, for the test device.
LEMMA TreeFdtReset ==
  ASSUME PhandlesInv, FdtReset, CounterInv', phandle <= phandle'
  PROVE  PhandlesInv'
<1> DEFINE test == [Node0 EXCEPT !.kind = "test", !.at = aislab_memmap.TEST.base,
                                 !.reg = <<aislab_memmap.TEST>>, !.phandle = phandle]
           reboot == [Node0 EXCEPT !.kind = "reboot", !.refs = {Ref("regmap", phandle)}]
           poweroff == [Node0 EXCEPT !.kind = "poweroff", !.refs = {Ref("regmap", phandle)}]
           N == {test, reboot, poweroff}
<1>1. phandle \in Nat /\ 1 <= phandle
  BY CounterBelow DEF PhandlesInv
<1>2. tree' = tree \cup N /\ phandle' = phandle + 1 /\ pc' # "plug"
  BY Zenon DEF FdtReset, Fdt
<1>3. /\ "phandle" \in DOMAIN test /\ test.phandle = phandle
      /\ "phandle" \in DOMAIN reboot /\ reboot.phandle = 0
      /\ "phandle" \in DOMAIN poweroff /\ poweroff.phandle = 0
  BY DEF Node0
<1> HIDE DEF test, reboot, poweroff
<1>4. \A n \in N : New(n, phandle')
  BY <1>1, <1>2, <1>3 DEF New
<1>5. \A x, y \in N : x.phandle = y.phandle /\ x.phandle # 0 => x = y
  BY <1>3
<1> HIDE DEF N
<1> QED BY <1>2, <1>4, <1>5, NodesAdded

\* create_fdt_pcie completes a node and gives it no other phandle.
LEMMA TreeFdtPcie ==
  ASSUME PhandlesInv, FdtPcie, CounterInv'
  PROVE  PhandlesInv'
<1> DEFINE regs == <<aislab_memmap.PCIE_ECAM, aislab_memmap.PCIE_PIO,
                     aislab_memmap.PCIE_MMIO, aislab_high_pcie_memmap>>
           refs == IF Imsic THEN {Ref("msi_parent", MsiPcie)} ELSE {}
           done(n) == IF n.kind = "pci"
                      THEN [n EXCEPT !.reg = regs, !.irqs = PcieIrqMap, !.refs = @ \cup refs]
                      ELSE n
<1>1. tree' = {done(n) : n \in tree} /\ phandle' = phandle /\ pc' # "plug"
  BY Zenon DEF FdtPcie
<1>2. ASSUME NEW n \in tree
      PROVE  /\ "phandle" \in DOMAIN done(n)
             /\ done(n).phandle = n.phandle
  <2>1. "phandle" \in DOMAIN n
    BY DEF PhandlesInv, Numbered
  <2>2. ASSUME NEW a, NEW b, NEW c
        PROVE  LET m == [n EXCEPT !.reg = a, !.irqs = b, !.refs = c]
               IN  "phandle" \in DOMAIN m /\ m.phandle = n.phandle
    BY <2>1
  <2>3. CASE n.kind = "pci"
    BY <2>2, <2>3, Zenon
  <2>4. CASE n.kind # "pci"
    BY <2>1, <2>4
  <2> QED BY <2>3, <2>4
<1> HIDE DEF done
<1>3. \A n \in tree' : Numbered(n, phandle')
  BY <1>1, <1>2 DEF PhandlesInv, Numbered
<1>4. PhandlesUnique'
  <2> SUFFICES ASSUME NEW n \in tree, NEW m \in tree,
                      done(n).phandle = done(m).phandle, done(n).phandle # 0
               PROVE  done(n) = done(m)
    BY <1>1 DEF PhandlesUnique
  <2>1. n = m
    BY <1>2 DEF PhandlesInv, PhandlesUnique
  <2> QED BY <2>1
<1> QED BY <1>1, <1>3, <1>4 DEF PhandlesInv

-----------------------------------------------------------------------------
(* The theorem *)

\* At the beginning there is no node.
LEMMA PhandlesInvInit == Init => PhandlesInv
BY ConfigAssumption
   DEF Init, BoardInit, TreeInit, PhandlesInv, CounterInv, Limit, Numbered, PhandlesUnique

\* Every step keeps the invariant.
LEMMA PhandlesInvNext == PhandlesInv /\ [Next]_vars => PhandlesInv'
<1> SUFFICES ASSUME PhandlesInv, [Next]_vars
             PROVE  PhandlesInv'
  OBVIOUS
<1>0. CounterInv
  BY DEF PhandlesInv
<1>1. CASE BoardStep /\ UNCHANGED <<treeVars, boot>>
  BY <1>0, <1>1, CounterBoard, TreeLeftAlone DEF treeVars
<1>2. CASE TreeStep
  <2>0. CounterInv' /\ phandle <= phandle'
    BY <1>0, <1>2, CounterTree
  <2>1. CASE Finalize \/ FdtSocketsEnd
    <3>1. UNCHANGED <<tree, phandle>> /\ pc' # "plug"
      BY <2>1 DEF Finalize, FdtSocketsEnd, treeVars
    <3> QED BY <2>0, <3>1, TreeLeftAlone
  <2> QED BY <1>2, <2>0, <2>1, TreeCreateFdt, TreePlugIommu, TreeFdtSocket, TreeFdtImsic,
             TreeFdtXplic, TreeDevices, TreeFdtPcie, TreeFdtReset DEF TreeStep
<1>3. CASE Boot
  <2>1. UNCHANGED <<cfg, sock, tree, phandle>> /\ pc = "boot" /\ pc' \in {"running", "exited"}
    BY <1>3 DEF Boot, treeVars
  <2>2. CounterInv'
    BY <1>0, <2>1 DEF CounterInv, Limit
  <2> QED BY <2>1, <2>2, TreeLeftAlone
<1>4. CASE UNCHANGED <<cfg, pc, sock, tree, phandle>>
  BY <1>0, <1>4, TreeLeftAlone DEF CounterInv, Limit
<1>5. CASE ClientConnects /\ UNCHANGED <<treeVars, boot>>
  BY <1>4, <1>5 DEF ClientConnects, treeVars
<1>6. CASE UNCHANGED vars
  BY <1>4, <1>6 DEF vars, boardVars, treeVars
<1> QED BY <1>1, <1>2, <1>3, <1>5, <1>6 DEF Next, Step

\* A phandle names one node, for any number of harts, sockets and guests: the
\* functions of finalize_fdt pass one counter along, each draws what it gives
\* out, and all of it stays below what QEMU allocates to devices plugged
\* before, which starts at 32768: two for each of at most 4 * 512 harts, eleven more.
THEOREM PhandlesDistinct == Spec => []PhandlesUnique
<1>1. PhandlesInv => PhandlesUnique
  BY DEF PhandlesInv
<1> QED BY PhandlesInvInit, PhandlesInvNext, <1>1, PTL DEF Spec
=============================================================================
