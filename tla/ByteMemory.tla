----------------------------- MODULE ByteMemory -----------------------------
(***************************************************************************)
(* What "a simple memory" (target.h) is to those who access it: bytes, of  *)
(* which an access reads or writes a few neighbours at once.               *)
(***************************************************************************)
EXTENDS Integers

CONSTANTS Addresses, Bytes, MaxLength

VARIABLES store,  \* store[a]: the byte at address a
          access  \* the latest access: where, and the bytes written or read

bmVars == <<store, access>>

NoAccess == [op |-> "none", at |-> 0, bytes |-> [i \in {} |-> 0]]

BMInit == store \in [Addresses -> Bytes] /\ access = NoAccess

Write(a, n) ==
  \E bytes \in [0..(n - 1) -> Bytes] :
    /\ store' = [b \in Addresses |-> IF b \in a..(a + n - 1) THEN bytes[b - a] ELSE store[b]]
    /\ access' = [op |-> "write", at |-> a, bytes |-> bytes]

Read(a, n) ==
  /\ access' = [op |-> "read", at |-> a, bytes |-> [i \in 0..(n - 1) |-> store[a + i]]]
  /\ UNCHANGED store

BMNext == \E a \in Addresses, n \in 1..MaxLength :
            a + n - 1 \in Addresses /\ (Write(a, n) \/ Read(a, n))

BMSpec == BMInit /\ [][BMNext]_bmVars
=============================================================================
