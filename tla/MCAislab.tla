------------------------------- MODULE MCAislab -------------------------------
(* The command lines TLC tries. *)
EXTENDS Aislab

\* Harts of sockets: one; all in one; one each; unequal; the other way round;
\* four sockets; and three that are refused: a gap, an empty socket, too many.
Topologies == {
  [sockets |-> 1, node |-> <<0>>], [sockets |-> 1, node |-> <<0, 0, 0>>],
  [sockets |-> 2, node |-> <<0, 1>>], [sockets |-> 2, node |-> <<0, 0, 0, 1>>],
  [sockets |-> 2, node |-> <<1, 0, 0>>], [sockets |-> 4, node |-> <<0, 1, 1, 2, 3>>],
  [sockets |-> 2, node |-> <<0, 1, 0>>], [sockets |-> 2, node |-> <<1>>],
  [sockets |-> 5, node |-> <<0, 1, 2, 3, 4>>] }

Accelerators == { <<"tcg", FALSE>>, <<"qtest", FALSE>>, <<"kvm", FALSE>>, <<"kvm", TRUE>> }

Config(width, acc, aclint, aia, guests, top, ram, dtb, pflash, bios, kernel) ==
  [width |-> width, accel |-> acc[1], irqchipInKernel |-> acc[2], aclint |-> aclint,
   aia |-> aia, guests |-> guests, cpus |-> Len(top.node), sockets |-> top.sockets,
   node |-> [h \in 0 .. Len(top.node) - 1 |-> top.node[h + 1]],
   ram |-> ram, dtb |-> dtb, pflash |-> pflash, bios |-> bios, kernel |-> kernel]

\* Every board, with the most memory a 32-bit machine is limited to.
Boards ==
  { Config(64, acc, aclint, aia[1], aia[2], top, RAM_LIMIT, FALSE, FALSE, "default", TRUE) :
      acc \in Accelerators, aclint \in BOOLEAN, top \in Topologies,
      aia \in { <<"none", 0>>, <<"aplic", 0>>, <<"aplic-imsic", 0>>, <<"aplic-imsic", 2>> } }

\* Every way to boot.
Boots ==
  { Config(width, acc, FALSE, "none", 0, [sockets |-> 1, node |-> <<0>>], ram,
           dtb, pflash, bios, kernel) :
      width \in {32, 64}, acc \in Accelerators, ram \in {1 * MiB, RAM_LIMIT},
      dtb \in BOOLEAN, pflash \in BOOLEAN, bios \in {"default", "none", "file"},
      kernel \in BOOLEAN }

\* More memory than a 32-bit machine is limited to, and has room for.
LargeMemory ==
  { Config(32, acc, FALSE, "none", 0, top, 16 * GiB, FALSE, FALSE, "default", TRUE) :
      acc \in Accelerators, top \in Topologies }

\* The command lines of run aislab.
AllCommandLines == Boards \cup Boots \cup LargeMemory
=============================================================================
