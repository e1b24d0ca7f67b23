------------------------------ MODULE AislabMap ------------------------------
(***************************************************************************)
(* The memory map, the interrupt lines and the limits of the aislab        *)
(* machine (aislab.c, aislab.h).  Addresses and sizes count units of 256   *)
(* bytes, the finest in which two devices of the map differ; the 24 bytes  *)
(* of fw_cfg are rounded up to one unit.                                   *)
(***************************************************************************)
EXTENDS Integers

KiB == 4
MiB == 1024 * KiB
GiB == 1024 * MiB

AISLAB_CPUS_MAX == 512
AISLAB_SOCKETS_MAX == 4
AISLAB_IRQCHIP_MAX_GUESTS == 7

-----------------------------------------------------------------------------
(* Interrupt lines of a controller: 1 .. AISLAB_IRQCHIP_NUM_SOURCES - 1     *)

\* Faulty variant: the number of sources of the virt board, one less.
VIRT_NUM_SOURCES == 96

AISLAB_IRQCHIP_NUM_SOURCES == 97

VIRTIO_COUNT == 8
VIRTIO_IRQ == 1
UART0_IRQ == 10
RTC_IRQ == 11
PCIE_IRQ == 32
GPEX_NUM_IRQS == 4
AISLAB_PLATFORM_BUS_IRQ == 64
AISLAB_PLATFORM_BUS_NUM_IRQS == 32
MMIO_BUS_IRQ == 96

\* Cells of an interrupt specifier.
FDT_PLIC_INT_CELLS == 1
FDT_APLIC_INT_CELLS == 2
FDT_IMSIC_INT_CELLS == 0

-----------------------------------------------------------------------------
(* Sizes *)

AISLAB_PLIC_SIZE(contexts) == 2 * MiB + contexts * 4 * KiB
APLIC_SIZE == 32 * KiB
IMSIC_PAGE == 4 * KiB
AISLAB_IMSIC_GROUP_MAX_SIZE == 16 * MiB
AISLAB_IMSIC_MAX_SIZE == AISLAB_SOCKETS_MAX * AISLAB_IMSIC_GROUP_MAX_SIZE
RISCV_ACLINT_SWI_SIZE == 16 * KiB
RISCV_ACLINT_DEFAULT_MTIMER_SIZE == 32 * KiB

BIT(n) == <<1, 2, 4, 8, 16, 32, 64, 128, 256, 512>>[n + 1]

\* The bits it takes to number count things, at most AISLAB_CPUS_MAX.
aislab_imsic_num_bits(count) ==
  CHOOSE n \in 0 .. 9 : BIT(n) >= count /\ \A m \in 0 .. n - 1 : BIT(m) < count

\* The files of a hart: its own and those of its guests.
IMSIC_HART_SIZE(bits) == BIT(bits) * IMSIC_PAGE

-----------------------------------------------------------------------------
(* The map *)

At(base, size) == [base |-> base, size |-> size]

\* Faulty variant: the window begins where the platform bus still is.
MmioBusEarly == At(80 * MiB, 96 * MiB)

MmioBusEntry == At(96 * MiB, 96 * MiB)

aislab_memmap == [
  MROM         |-> At(4 * KiB, 60 * KiB),
  TEST         |-> At(1 * MiB, 4 * KiB),
  RTC          |-> At(1 * MiB + 4 * KiB, 4 * KiB),
  CLINT        |-> At(32 * MiB, 64 * KiB),
  ACLINT_SSWI  |-> At(47 * MiB, 16 * KiB),
  PCIE_PIO     |-> At(48 * MiB, 64 * KiB),
  PLATFORM_BUS |-> At(64 * MiB, 32 * MiB),
  MMIO_BUS     |-> MmioBusEntry,
  PLIC         |-> At(192 * MiB, AISLAB_PLIC_SIZE(2 * AISLAB_CPUS_MAX)),
  APLIC_M      |-> At(192 * MiB, APLIC_SIZE),
  APLIC_S      |-> At(208 * MiB, APLIC_SIZE),
  UART0        |-> At(256 * MiB, 1),
  VIRTIO       |-> At(256 * MiB + 4 * KiB, 4 * KiB),
  FW_CFG       |-> At(257 * MiB, 1),
  FLASH        |-> At(512 * MiB, 64 * MiB),
  IMSIC_M      |-> At(576 * MiB, AISLAB_IMSIC_MAX_SIZE),
  IMSIC_S      |-> At(640 * MiB, AISLAB_IMSIC_MAX_SIZE),
  PCIE_ECAM    |-> At(768 * MiB, 256 * MiB),
  PCIE_MMIO    |-> At(1 * GiB, 1 * GiB),
  DRAM         |-> At(2 * GiB, 0) ]

AISLAB32_HIGH_PCIE_MMIO == At(12 * GiB, 4 * GiB)
AISLAB64_HIGH_PCIE_MMIO_SIZE == 16 * GiB

\* The window as mmio_bus.c has it: what its callbacks add to an offset, and
\* the size of its region.
MMIO_ADDR == 96 * MiB
MMIO_SIZE == 96 * MiB
=============================================================================
