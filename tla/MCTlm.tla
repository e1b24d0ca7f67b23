------------------------------- MODULE MCTlm -------------------------------
(* The constants of the runs of Tlm.  The addresses of the program are scaled *)
(* so that the window, 0x6000000 bytes from 0x6000000 on, has eight bytes.    *)
EXTENDS Tlm

MCDram == 172..175

\* Written: at most one byte is 1.
MCData == UNION { { f \in [0..(n - 1) -> Bytes] :
                      \A i, j \in DOMAIN f : f[i] = 1 /\ f[j] = 1 => i = j } :
                  n \in GuestSizes }

NoPayloads == {}

\* Word indices in and just after the window and in guest memory, and each kind
\* of refusal.
MCWrite == [cmd |-> "WRITE", address |-> 64, len |-> 4, wid |-> 4, byt |-> FALSE]
MCPayloads == { MCWrite, [MCWrite EXCEPT !.cmd = "READ"],
                [MCWrite EXCEPT !.len = 8], [MCWrite EXCEPT !.byt = TRUE],
                [MCWrite EXCEPT !.address = 32], [MCWrite EXCEPT !.address = 688] }

\* Also one below the window, and an address of guest memory.
MCDramPayloads == { [MCWrite EXCEPT !.address = a] : a \in {28, 32, 64, 172, 688} }
=============================================================================
