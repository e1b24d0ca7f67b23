-------------------------------- MODULE Tlm --------------------------------
(***************************************************************************)
(* The data path behind the sockets: what QEMU_CPU and its target do with  *)
(* addresses, lengths and bytes.  An access of the guest to the window     *)
(* becomes one or two requests, each a TLM transaction at the target       *)
(* (tlm_read and tlm_write of QEMU_CPU.hpp, b_transport of target.h).  A   *)
(* transaction of a SystemC initiator at QEMU_CPU's own b_transport, built *)
(* with -DDMA, becomes a request to QEMU (tcp_thread_func).                *)
(*                                                                         *)
(* CoSim has the order of the requests; here they are one at a time.       *)
(***************************************************************************)
EXTENDS Integers

CONSTANTS
  Bytes,          \* values of a byte
  Filler,         \* the byte 0xAA
  Randoms,        \* values of rand() % 256
  SIZE,           \* words of the target
  MMIO_BUS_ADDR,  \* first address of the window, in QEMU and in SystemC
  MMIO_BUS_SIZE,  \* bytes of the window
  DramBytes,      \* addresses of guest memory
  GuestSizes,     \* sizes of the guest's accesses
  GuestData,      \* what the guest writes: functions from 0..(size - 1)
  Payloads        \* transactions of SystemC initiators

ASSUME TlmAssumption ==
  /\ {0, Filler} \cup Randoms \subseteq Bytes /\ Randoms # {}
  /\ SIZE \in Nat /\ MMIO_BUS_ADDR \in Nat /\ MMIO_BUS_SIZE \in Nat
  /\ MMIO_BUS_ADDR % 8 = 0
  /\ MMIO_BUS_ADDR + MMIO_BUS_SIZE <= 4 * SIZE
  /\ DramBytes \subseteq Nat
  /\ GuestSizes \subseteq {1, 2, 4, 8}
  /\ GuestData \subseteq UNION {[0..(n - 1) -> Bytes] : n \in GuestSizes}
  /\ Payloads \subseteq [cmd : {"READ", "WRITE"}, address : Nat, len : Nat,
                         wid : Nat, byt : BOOLEAN]

VARIABLES
  mem,     \* mem[SIZE] of the target, a word as its four bytes
  guest,   \* the access under way: what is still to be done of it
  last,    \* the latest request: where, and the bytes written or read
  sysc,    \* the SystemC process: "up", "aborted", or "stuck" in a recv()
  dram,    \* guest memory
  dma      \* address and response of the latest transaction of an initiator

vars == <<mem, guest, last, sysc, dram, dma>>

Window == MMIO_BUS_ADDR..(MMIO_BUS_ADDR + MMIO_BUS_SIZE - 1)
Words == 0..(SIZE - 1)

\* No access under way, and no request made.
NoAccess == [op |-> "none", at |-> 0, size |-> 0, bytes |-> [i \in {} |-> 0]]
NoRequest == [op |-> "none", at |-> 0, bytes |-> [i \in {} |-> 0]]

Responses == {"INCOMPLETE", "OK", "ADDRESS_ERROR", "BYTE_ENABLE_ERROR", "BURST_ERROR"}

Chunk == UNION {[0..(n - 1) -> Bytes] : n \in 0..8}

TypeOK ==
  /\ mem \in [Words -> [0..3 -> Bytes]]
  /\ guest \in [op : {"none", "read", "write"}, at : Nat, size : Nat, bytes : Chunk]
  /\ last \in [op : {"none", "read", "write"}, at : Nat, bytes : Chunk]
  /\ sysc \in {"up", "aborted", "stuck"}
  /\ dram \in [DramBytes -> Bytes]
  /\ dma \in [address : Nat, response : Responses]

\* The target fills its words with 0xAA000000 | (rand() % 256).
Init ==
  /\ \E r \in [Words -> Randoms] :
       mem = [w \in Words |-> [i \in 0..3 |-> CASE i = 0 -> r[w]
                                                [] i = 3 -> Filler
                                                [] OTHER -> 0]]
  /\ guest = NoAccess
  /\ last = NoRequest
  /\ sysc = "up"
  /\ dram = [a \in DramBytes |-> 0]
  /\ dma = [address |-> 0, response |-> "INCOMPLETE"]

-----------------------------------------------------------------------------
(* The two b_transport functions *)

Adr(p) == p.address \div 4

\* Faulty variant: a whole word is a burst.
SupportedPart(p) == IF p.byt THEN "BYTE_ENABLE_ERROR"
                    ELSE IF p.len >= 4 \/ p.wid < p.len THEN "BURST_ERROR"
                    ELSE "OK"

\* What both check after the address.
Supported(p) == IF p.byt THEN "BYTE_ENABLE_ERROR"
                ELSE IF p.len > 4 \/ p.wid < p.len THEN "BURST_ERROR"
                ELSE "OK"

\* Memory::b_transport
TargetResponse(p) == IF Adr(p) >= SIZE THEN "ADDRESS_ERROR" ELSE Supported(p)

\* QEMU_CPU::b_transport
BridgeResponse(p) ==
  IF Adr(p) < MMIO_BUS_ADDR \/ Adr(p) > MMIO_BUS_ADDR + MMIO_BUS_SIZE
  THEN "ADDRESS_ERROR" ELSE Supported(p)

\* Faulty variant: the bytes in the opposite order.
CopyInSwapped(p, bytes) ==
  [mem EXCEPT ![Adr(p)] = [i \in 0..3 |-> IF i < p.len THEN bytes[p.len - 1 - i] ELSE @[i]]]

\* Faulty variant: copies the whole access, past the end of the word.
CopyInWhole(p, bytes) ==
  [mem EXCEPT ![Adr(p)] = [i \in 0..3 \cup DOMAIN bytes |->
                            IF i \in DOMAIN bytes THEN bytes[i] ELSE @[i]]]

\* memcpy to and from &mem[adr].
CopyIn(p, bytes) ==
  [mem EXCEPT ![Adr(p)] = [i \in 0..3 |-> IF i < p.len THEN bytes[i] ELSE @[i]]]
CopyOut(p) == [i \in 0..(p.len - 1) |-> mem[Adr(p)][i]]

-----------------------------------------------------------------------------
(* Accesses of the guest *)

\* The guest accesses the window; QEMU's memory core takes aligned accesses.
\* The data of a read is 0.
GuestAccess(op, at, bytes) ==
  /\ sysc = "up" /\ guest = NoAccess
  /\ \E n \in GuestSizes :
       /\ DOMAIN bytes = 0..(n - 1)
       /\ at % n = 0 /\ at + n - 1 \in Window
       /\ guest' = [op |-> op, at |-> at, size |-> n, bytes |-> bytes]
  /\ op = "read" => \A i \in DOMAIN bytes : bytes[i] = 0
  /\ UNCHANGED <<mem, last, sysc, dram, dma>>

\* mmio_bus_ops names no sizes, so QEMU's defaults hold: at most four bytes of
\* the access at a time, lowest first.
Length == IF guest.size > 4 THEN 4 ELSE guest.size

Rest == IF guest.size > 4
        THEN [op |-> guest.op, at |-> guest.at + 4, size |-> guest.size - 4,
              bytes |-> [i \in 0..(guest.size - 5) |-> guest.bytes[i + 4]]]
        ELSE NoAccess

\* tlm_read and tlm_write set up the transaction, with a streaming width of 4.
Payload == [cmd |-> IF guest.op = "read" THEN "READ" ELSE "WRITE",
            address |-> guest.at, len |-> Length, wid |-> 4, byt |-> FALSE]

\* One request.  SC_REPORT_ERROR throws, which ends the simulation.
Request ==
  LET p == Payload IN
  /\ sysc = "up" /\ guest # NoAccess
  /\ IF TargetResponse(p) = "OK"
     THEN /\ mem' = IF p.cmd = "WRITE" THEN CopyIn(p, guest.bytes) ELSE mem
          /\ last' = [op |-> guest.op, at |-> p.address,
                      bytes |-> IF p.cmd = "WRITE" THEN [i \in 0..(p.len - 1) |-> guest.bytes[i]]
                                ELSE CopyOut(p)]
          /\ guest' = Rest
          /\ UNCHANGED sysc
     ELSE sysc' = "aborted" /\ UNCHANGED <<mem, last, guest>>
  /\ UNCHANGED <<dram, dma>>

-----------------------------------------------------------------------------
(* Transactions of SystemC initiators *)

\* The request goes to QEMU with the word index as its address.  tcp_thread
\* writes it to guest memory; in the device's own window it locks itself up,
\* and the initiator waits for ever.  The address after the window passes the
\* check too; it is a register of the PLIC.
Transact(p, byte) ==
  LET to == Adr(p) IN
  /\ sysc = "up"
  /\ IF BridgeResponse(p) # "OK"
     THEN dma' = [address |-> p.address, response |-> BridgeResponse(p)] /\ UNCHANGED <<sysc, dram>>
     ELSE IF to \in Window
     THEN sysc' = "stuck" /\ UNCHANGED <<dram, dma>>
     ELSE /\ dma' = [address |-> p.address, response |-> "OK"]
          /\ dram' = [a \in DramBytes |->
                       IF p.cmd = "WRITE" /\ a \in to..(to + p.len - 1) THEN byte ELSE dram[a]]
          /\ UNCHANGED sysc
  /\ UNCHANGED <<mem, guest, last>>

Next ==
  \/ \E at \in Window, bytes \in GuestData :
       GuestAccess("read", at, bytes) \/ GuestAccess("write", at, bytes)
  \/ Request
  \/ \E p \in Payloads, byte \in Bytes : Transact(p, byte)

Spec == Init /\ [][Next]_vars

-----------------------------------------------------------------------------
(* Properties *)

\* No access of the guest makes the target refuse a transaction, which would
\* end the simulation: what QEMU lets through is within mem[] and a word long.
NoErrorResponse == sysc # "aborted"

\* For the guest the window is a simple memory of bytes.  (Memory in target.h.)
Memory == INSTANCE ByteMemory WITH
  Addresses <- Window, MaxLength <- 4,
  store     <- [a \in Window |-> mem[a \div 4][a % 4]],
  access    <- last

ImplementsByteMemory == Memory!BMSpec

\* "support DMA for systemC to access QEMU DRAM" (README.md:159): an initiator's
\* transaction to an address of guest memory is not refused for its address.
\* (QEMU_CPU::b_transport.)
DmaReachesDram ==
  dma.address \in DramBytes => dma.response # "ADDRESS_ERROR"
=============================================================================
