------------------------------ MODULE TlmProofs ------------------------------
(***************************************************************************)
(* Theorems about Tlm, for any window, target and guest memory that meet   *)
(* TlmAssumption.                                                          *)
(***************************************************************************)
EXTENDS Tlm, TLAPS

\* An access under way is within the window and of a size QEMU lets through.
Proper(g) ==
  /\ g.op \in {"read", "write"}
  /\ g.size \in {1, 2, 4, 8}
  /\ g.bytes \in [0..(g.size - 1) -> Bytes]
  /\ g.at \in Window /\ g.at + g.size - 1 \in Window

GuestInv == guest = NoAccess \/ Proper(guest)

Inv == TypeOK /\ GuestInv /\ NoErrorResponse

\* The window and the memories, as numbers.
LEMMA Layout ==
  /\ SIZE \in Nat /\ MMIO_BUS_ADDR \in Nat /\ MMIO_BUS_SIZE \in Nat
  /\ MMIO_BUS_ADDR + MMIO_BUS_SIZE <= 4 * SIZE
BY TlmAssumption

\* The addresses of the window are numbers,
LEMMA WindowInNat == Window \subseteq Nat
BY Layout DEF Window

\* and those between two of them are of the window.
LEMMA WindowIsConvex ==
  ASSUME NEW a \in Window, NEW n \in Nat, a + n \in Window, NEW i \in 0..n
  PROVE  a + i \in Window
BY Layout DEF Window

\* The bytes of no access.
LEMMA EmptyChunk == NoAccess.bytes \in Chunk /\ NoRequest.bytes \in Chunk
<1>1. 0 \in 0..8 /\ 0..(0 - 1) = {} OBVIOUS
<1>2. [i \in {} |-> 0] \in [{} -> Bytes] OBVIOUS
<1> QED BY <1>1, <1>2 DEF Chunk, NoAccess, NoRequest

\* Up to eight bytes are a chunk.
LEMMA IsChunk ==
  ASSUME NEW n \in 0..8, NEW f \in [0..(n - 1) -> Bytes]
  PROVE  f \in Chunk
BY Zenon DEF Chunk

\* A request is at most a word and meets every check of the target.
LEMMA RequestFits ==
  ASSUME Inv, guest # NoAccess
  PROVE  /\ Length \in 1..4 /\ Length <= guest.size
         /\ Payload.address = guest.at /\ Payload.len = Length
         /\ Adr(Payload) \in Words
         /\ TargetResponse(Payload) = "OK"
<1>1. /\ guest.size \in {1, 2, 4, 8} /\ guest.at \in Window
      /\ guest.at + guest.size - 1 \in Window
  BY DEF Inv, GuestInv, Proper
<1>2. Length \in 1..4 /\ Length <= guest.size
  BY <1>1 DEF Length
<1>3. /\ Payload.address = guest.at /\ Payload.len = Length
      /\ Payload.wid = 4 /\ Payload.byt = FALSE
  BY DEF Payload
<1>4. Adr(Payload) \in Words
  BY <1>1, <1>3, TlmAssumption DEF Adr, Window, Words
<1>5. TargetResponse(Payload) = "OK"
  BY <1>2, <1>3, <1>4, TlmAssumption DEF TargetResponse, Supported, Words
<1> QED BY <1>2, <1>3, <1>4, <1>5

\* What is left of an access is again an access, or nothing.
LEMMA RestFits ==
  ASSUME Inv, guest # NoAccess
  PROVE  /\ Rest \in [op : {"none", "read", "write"}, at : Nat, size : Nat, bytes : Chunk]
         /\ Rest = NoAccess \/ Proper(Rest)
<1>1. /\ guest.op \in {"read", "write"}
      /\ guest.size \in {1, 2, 4, 8} /\ guest.at \in Window
      /\ guest.bytes \in [0..(guest.size - 1) -> Bytes]
      /\ guest.at + guest.size - 1 \in Window
  BY DEF Inv, GuestInv, Proper
<1>2. CASE guest.size = 8
  <2>1. Rest = [op |-> guest.op, at |-> guest.at + 4, size |-> 4,
                bytes |-> [i \in 0..3 |-> guest.bytes[i + 4]]]
    BY <1>2 DEF Rest
  <2>2. [i \in 0..3 |-> guest.bytes[i + 4]] \in [0..3 -> Bytes]
    BY <1>1, <1>2
  <2>3. [0..3 -> Bytes] \subseteq Chunk
    <3>1. 4 \in 0..8 /\ 4 - 1 = 3 OBVIOUS
    <3> QED BY <3>1 DEF Chunk
  <2>4. guest.at + 4 \in Nat /\ guest.at + 4 \in Window /\ guest.at + 4 + 3 \in Window
    <3>1. guest.at \in Window /\ guest.at \in Nat
      BY <1>1, WindowInNat
    <3>2. guest.at + guest.size - 1 = guest.at + 7
      BY <1>2, <3>1
    <3>3. guest.at + 7 \in Window
      BY <1>1, <3>2
    <3> QED BY <3>1, <3>3, WindowIsConvex
  <2>5. Rest \in [op : {"none", "read", "write"}, at : Nat, size : Nat, bytes : Chunk]
    BY <1>1, <2>1, <2>2, <2>3, <2>4
  <2>6. Proper(Rest)
    BY <1>1, <2>1, <2>2, <2>4 DEF Proper
  <2> QED BY <2>5, <2>6
<1>3. CASE guest.size # 8
  <2>1. Rest = NoAccess BY <1>1, <1>3 DEF Rest
  <2>2. NoAccess.bytes \in Chunk BY EmptyChunk
  <2> QED BY <2>1, <2>2 DEF NoAccess
<1> QED BY <1>2, <1>3

\* What CopyOut and CopyIn yield are bytes.
LEMMA CopyTypes ==
  ASSUME Inv, guest # NoAccess
  PROVE  /\ CopyOut(Payload) \in [0..(Length - 1) -> Bytes]
         /\ [i \in 0..(Length - 1) |-> guest.bytes[i]] \in [0..(Length - 1) -> Bytes]
         /\ CopyIn(Payload, guest.bytes) \in [Words -> [0..3 -> Bytes]]
         /\ [0..(Length - 1) -> Bytes] \subseteq Chunk
<1> DEFINE p == Payload
<1>1. /\ Length \in 1..4 /\ Length <= guest.size /\ p.len = Length
      /\ Adr(p) \in Words
  BY RequestFits
<1>2. mem \in [Words -> [0..3 -> Bytes]] /\ mem[Adr(p)] \in [0..3 -> Bytes]
  BY <1>1 DEF Inv, TypeOK
<1>3. /\ guest.size \in {1, 2, 4, 8} /\ guest.bytes \in [0..(guest.size - 1) -> Bytes]
  BY DEF Inv, GuestInv, Proper
<1>4. CopyOut(p) \in [0..(Length - 1) -> Bytes]
  BY <1>1, <1>2 DEF CopyOut
<1>5. \A i \in 0..(Length - 1) : guest.bytes[i] \in Bytes
  BY <1>1, <1>3
<1>6. [i \in 0..3 |-> IF i < p.len THEN guest.bytes[i] ELSE mem[Adr(p)][i]] \in [0..3 -> Bytes]
  BY <1>1, <1>2, <1>5
<1>7. CopyIn(p, guest.bytes) \in [Words -> [0..3 -> Bytes]]
  BY <1>1, <1>2, <1>6 DEF CopyIn
<1>8. [0..(Length - 1) -> Bytes] \subseteq Chunk
  BY <1>1 DEF Chunk
<1> QED BY <1>4, <1>5, <1>7, <1>8

\* The invariant holds at the beginning.
LEMMA TlmInit == Init => Inv
<1> SUFFICES ASSUME Init PROVE Inv OBVIOUS
<1>1. PICK r \in [Words -> Randoms] :
        mem = [w \in Words |-> [i \in 0..3 |-> CASE i = 0 -> r[w]
                                                 [] i = 3 -> Filler
                                                 [] OTHER -> 0]]
  BY DEF Init
<1>2. mem \in [Words -> [0..3 -> Bytes]]
  BY <1>1, TlmAssumption
<1>3. dram \in [DramBytes -> Bytes] BY TlmAssumption DEF Init
<1> QED BY <1>2, <1>3, EmptyChunk DEF Init, Inv, TypeOK, GuestInv, NoErrorResponse,
                                   NoAccess, NoRequest, Responses

\* Each step keeps the invariant, one case per action.
LEMMA TlmStep == Inv /\ [Next]_vars => Inv'
<1> SUFFICES ASSUME Inv, [Next]_vars PROVE Inv' OBVIOUS
<1>1. ASSUME NEW op \in {"read", "write"}, NEW at \in Window, NEW bytes \in GuestData,
             GuestAccess(op, at, bytes)
      PROVE Inv'
  <2>1. PICK n \in GuestSizes :
          /\ DOMAIN bytes = 0..(n - 1)
          /\ at + n - 1 \in Window
          /\ guest' = [op |-> op, at |-> at, size |-> n, bytes |-> bytes]
    BY <1>1 DEF GuestAccess
  <2>2. n \in {1, 2, 4, 8} BY TlmAssumption
  <2>3. bytes \in [0..(n - 1) -> Bytes]
    <3>1. PICK m \in GuestSizes : bytes \in [0..(m - 1) -> Bytes] BY TlmAssumption
    <3> QED BY <3>1, <2>1
  <2>4. bytes \in Chunk
    <3>1. n \in 0..8 BY <2>2
    <3> QED BY <2>3, <3>1, IsChunk
  <2>5. at \in Nat BY TlmAssumption DEF Window
  <2>6. UNCHANGED <<mem, last, sysc, dram, dma>> BY <1>1 DEF GuestAccess
  <2> QED BY <2>1, <2>2, <2>3, <2>4, <2>5, <2>6 DEF Inv, TypeOK, GuestInv, Proper, NoErrorResponse, Window
<1>2. CASE Request
  <2> DEFINE p == Payload
  <2>1. guest # NoAccess BY <1>2 DEF Request
  <2>2. TargetResponse(p) = "OK" /\ p.len = Length /\ p.address = guest.at BY <2>1, RequestFits
  <2>3. /\ mem' = IF p.cmd = "WRITE" THEN CopyIn(p, guest.bytes) ELSE mem
        /\ last' = [op |-> guest.op, at |-> p.address,
                    bytes |-> IF p.cmd = "WRITE" THEN [i \in 0..(p.len - 1) |-> guest.bytes[i]]
                              ELSE CopyOut(p)]
        /\ guest' = Rest
        /\ UNCHANGED <<sysc, dram, dma>>
    BY <1>2, <2>2 DEF Request
  <2>4. mem' \in [Words -> [0..3 -> Bytes]]
    BY <2>1, <2>3, CopyTypes DEF Inv, TypeOK
  <2>5. last'.bytes \in Chunk
    BY <2>1, <2>2, <2>3, CopyTypes
  <2>6. guest.op \in {"read", "write"} /\ guest.at \in Nat
    BY <2>1, TlmAssumption DEF Inv, GuestInv, Proper, Window
  <2>7. last' \in [op : {"none", "read", "write"}, at : Nat, bytes : Chunk]
    BY <2>2, <2>3, <2>5, <2>6
  <2>8. GuestInv' /\ guest' \in [op : {"none", "read", "write"}, at : Nat, size : Nat, bytes : Chunk]
    BY <2>1, <2>3, RestFits DEF GuestInv, Proper, NoAccess, Window
  <2> QED BY <2>3, <2>4, <2>7, <2>8 DEF Inv, TypeOK, NoErrorResponse
<1>3. ASSUME NEW p \in Payloads, NEW byte \in Bytes, Transact(p, byte) PROVE Inv'
  <2>1. p.address \in Nat BY TlmAssumption
  <2>2. BridgeResponse(p) \in Responses BY DEF BridgeResponse, Supported, Responses
  <2>3. dma' \in [address : Nat, response : Responses]
    BY <1>3, <2>1, <2>2 DEF Transact, Inv, TypeOK, Responses
  <2>4. dram' \in [DramBytes -> Bytes]
    BY <1>3 DEF Transact, Inv, TypeOK
  <2>5. sysc' \in {"up", "stuck"} /\ UNCHANGED <<mem, guest, last>>
    BY <1>3 DEF Transact
  <2> QED BY <2>3, <2>4, <2>5 DEF Inv, TypeOK, GuestInv, Proper, NoErrorResponse, NoAccess, Window
<1>4. CASE UNCHANGED vars
  BY <1>4 DEF vars, Inv, TypeOK, GuestInv, Proper, NoErrorResponse, NoAccess, Window
<1> QED BY <1>1, <1>2, <1>3, <1>4 DEF Next

\* The types of words, accesses, responses and guest memory.
THEOREM TlmTypeCorrect == Spec => []TypeOK
<1> QED BY TlmInit, TlmStep, PTL DEF Spec, Inv

\* Every transaction the target sees succeeds, whatever the guest accesses, so
\* no access ends the simulation.  (SC_REPORT_ERROR in tlm_read
\* and tlm_write.)
THEOREM NeverRefused == Spec => []NoErrorResponse
<1> QED BY TlmInit, TlmStep, PTL DEF Spec, Inv

-----------------------------------------------------------------------------
(* A guest that accesses words only *)

\* The access under way is of whole words.
WholeWords == guest # NoAccess => guest.size \in {4, 8} /\ guest.at % 4 = 0

\* At the beginning there is no access.
LEMMA WholeWordsInit == Init => WholeWords
BY DEF Init, WholeWords

\* Every step keeps to whole words.
LEMMA WholeWordsStep ==
  ASSUME GuestSizes \subseteq {4, 8}
  PROVE  Inv /\ WholeWords /\ [Next]_vars => WholeWords'
<1> SUFFICES ASSUME Inv, WholeWords, [Next]_vars PROVE WholeWords' OBVIOUS
<1>1. ASSUME NEW op \in {"read", "write"}, NEW at \in Window, NEW bytes \in GuestData,
             GuestAccess(op, at, bytes)
      PROVE WholeWords'
  <2>1. PICK n \in GuestSizes :
          at % n = 0 /\ guest' = [op |-> op, at |-> at, size |-> n, bytes |-> bytes]
    BY <1>1 DEF GuestAccess
  <2>2. n \in {4, 8} /\ at \in Nat BY TlmAssumption DEF Window
  <2>3. at % 4 = 0 BY <2>1, <2>2
  <2> QED BY <2>1, <2>2, <2>3 DEF WholeWords
<1>2. CASE Request
  <2>1. guest # NoAccess /\ (guest' = guest \/ guest' = Rest) BY <1>2 DEF Request
  <2>2. guest.at \in Nat /\ guest.at % 4 = 0 /\ guest.size \in {4, 8}
    BY <2>1, TlmAssumption DEF WholeWords, Inv, GuestInv, Proper, Window
  <2>3. (guest.at + 4) % 4 = 0 BY <2>2
  <2>4. CASE guest.size = 8
    <3>1. Rest.size = 4 /\ Rest.at = guest.at + 4 BY <2>4 DEF Rest
    <3> QED BY <2>1, <2>2, <2>3, <3>1 DEF WholeWords
  <2>5. CASE guest.size = 4
    <3>1. Rest = NoAccess BY <2>5 DEF Rest
    <3> QED BY <2>1, <2>2, <3>1 DEF WholeWords
  <2> QED BY <2>2, <2>4, <2>5
<1>3. ASSUME NEW p \in Payloads, NEW byte \in Bytes, Transact(p, byte) PROVE WholeWords'
  BY <1>3 DEF Transact, WholeWords
<1>4. CASE UNCHANGED vars
  BY <1>4 DEF vars, WholeWords
<1> QED BY <1>1, <1>2, <1>3, <1>4 DEF Next

\* The four bytes of a word are its four addresses.
LEMMA WordBytes ==
  ASSUME NEW a \in Nat, a % 4 = 0, NEW b \in Nat
  PROVE  /\ b \in a..(a + 3) <=> b \div 4 = a \div 4
         /\ b \in a..(a + 3) => b % 4 = b - a
         /\ \A i \in 0..3 : (a + i) \div 4 = a \div 4 /\ (a + i) % 4 = i
OBVIOUS

\* One request of a whole word is one access to the byte memory.
LEMMA RequestIsAccess ==
  ASSUME Inv, WholeWords, Request
  PROVE  Memory!BMNext
<1> DEFINE p == Payload
           a == guest.at
<1>1. /\ guest # NoAccess
      /\ TargetResponse(p) = "OK" /\ p.len = Length /\ p.address = a
      /\ Adr(p) \in Words
  BY RequestFits DEF Request
<1>2. /\ a \in Nat /\ a % 4 = 0 /\ guest.size \in {4, 8} /\ Length = 4
      /\ a \in Window /\ a + 3 \in Window /\ guest.op \in {"read", "write"}
  <2>1. guest.size \in {4, 8} /\ a % 4 = 0 BY <1>1 DEF WholeWords
  <2>2. Proper(guest) BY <1>1 DEF Inv, GuestInv
  <2>3. a \in Window /\ a \in Nat /\ a + guest.size - 1 \in Window
    BY <2>2, WindowInNat DEF Proper
  <2>4. a + 3 \in Window
    <3>1. a + (guest.size - 1) \in Window /\ guest.size - 1 \in Nat /\ 3 \in 0..(guest.size - 1)
      BY <2>1, <2>3
    <3> QED BY <2>3, <3>1, WindowIsConvex
  <2> QED BY <2>1, <2>2, <2>3, <2>4 DEF Proper, Length
<1>3. /\ mem' = IF p.cmd = "WRITE" THEN CopyIn(p, guest.bytes) ELSE mem
      /\ last' = [op |-> guest.op, at |-> a,
                  bytes |-> IF p.cmd = "WRITE" THEN [i \in 0..3 |-> guest.bytes[i]]
                            ELSE CopyOut(p)]
  BY <1>1, <1>2 DEF Request
<1>4. Adr(p) = a \div 4 /\ (p.cmd = "WRITE" <=> guest.op = "write")
  BY <1>1, <1>2 DEF Adr, Payload
<1>5. 4 \in 1..4 /\ a + 4 - 1 = a + 3 /\ 4 - 1 = 3
  BY <1>2
<1>6. CASE guest.op = "read"
  <2>1. mem' = mem BY <1>3, <1>4, <1>6
  <2>2. CopyOut(p) = [i \in 0..3 |-> mem[a \div 4][i]]
    BY <1>1, <1>2, <1>4 DEF CopyOut
  <2>3. \A i \in 0..3 : /\ a + i \in Window
                       /\ (a + i) \div 4 = a \div 4 /\ (a + i) % 4 = i
    BY <1>2, WordBytes, WindowIsConvex, ZenonT(30)
  <2>4. [i \in 0..3 |-> mem[a \div 4][i]]
          = [i \in 0..3 |-> [b \in Window |-> mem[b \div 4][b % 4]][a + i]]
    BY <2>3
  <2>5. Memory!Read(a, 4)
    BY <1>3, <1>4, <1>5, <1>6, <2>1, <2>2, <2>4, ZenonT(30) DEF Memory!Read
  <2> QED BY <1>2, <1>5, <2>5 DEF Memory!BMNext
<1>7. CASE guest.op = "write"
  <2> DEFINE bytes == [i \in 0..3 |-> guest.bytes[i]]
  <2>1. bytes \in [0..3 -> Bytes]
    BY <1>1, <1>2, <1>5, CopyTypes
  <2>2. mem' = [mem EXCEPT ![a \div 4] = [i \in 0..3 |-> guest.bytes[i]]]
    <3>1. mem' = CopyIn(p, guest.bytes) /\ p.len = 4 BY <1>1, <1>2, <1>3, <1>4, <1>7
    <3>2. \A i \in 0..3 : i < p.len BY <3>1
    <3> QED BY <1>4, <3>1, <3>2 DEF CopyIn
  <2>3. ASSUME NEW b \in Window
        PROVE  mem'[b \div 4][b % 4] = IF b \in a..(a + 3) THEN bytes[b - a] ELSE mem[b \div 4][b % 4]
    <3>1. b \in Nat BY TlmAssumption DEF Window
    <3>2. b \in a..(a + 3) <=> b \div 4 = a \div 4 BY <1>2, <3>1, WordBytes
    <3>3. b \in a..(a + 3) => b % 4 = b - a /\ b - a \in 0..3 BY <1>2, <3>1, WordBytes
    <3>4. a \div 4 \in DOMAIN mem BY <1>1, <1>4 DEF Inv, TypeOK
    <3> QED BY <2>2, <3>2, <3>3, <3>4
  <2>4. [b \in Window |-> mem'[b \div 4][b % 4]]
          = [b \in Window |-> IF b \in a..(a + 3) THEN bytes[b - a]
                               ELSE [c \in Window |-> mem[c \div 4][c % 4]][b]]
    BY <2>3
  <2>5. last' = [op |-> "write", at |-> a, bytes |-> bytes]
    BY <1>3, <1>4, <1>7
  <2>6. Memory!Write(a, 4)
    BY <1>5, <2>1, <2>4, <2>5 DEF Memory!Write
  <2> QED BY <1>2, <1>5, <2>6 DEF Memory!BMNext
<1> QED BY <1>2, <1>6, <1>7

\* To a guest that accesses words, the target is a memory of bytes.  (Memory in
\* target.h, tlm_read, tlm_write.)
THEOREM WordsAreBytes ==
  ASSUME GuestSizes \subseteq {4, 8}
  PROVE  Spec => ImplementsByteMemory
<1>1. Init => Memory!BMInit
  <2> SUFFICES ASSUME Init PROVE Memory!BMInit OBVIOUS
  <2>1. mem \in [Words -> [0..3 -> Bytes]] BY TlmInit DEF Inv, TypeOK
  <2>2. \A b \in Window : b \div 4 \in Words /\ b % 4 \in 0..3
    BY TlmAssumption DEF Window, Words
  <2>3. [b \in Window |-> mem[b \div 4][b % 4]] \in [Window -> Bytes] BY <2>1, <2>2
  <2>4. last = Memory!NoAccess BY DEF Init, NoRequest, Memory!NoAccess
  <2> QED BY <2>3, <2>4 DEF Memory!BMInit
<1>2. Inv /\ WholeWords /\ [Next]_vars => [Memory!BMNext]_(Memory!bmVars)
  <2> SUFFICES ASSUME Inv, WholeWords, [Next]_vars, ~UNCHANGED <<mem, last>>
               PROVE  Memory!BMNext
    BY DEF Memory!bmVars
  <2>1. Request
    BY DEF Next, vars, GuestAccess, Transact
  <2> QED BY <2>1, RequestIsAccess
<1> QED BY <1>1, <1>2, TlmInit, TlmStep, WholeWordsInit, WholeWordsStep, PTL
        DEF Spec, ImplementsByteMemory, Memory!BMSpec
=============================================================================
