------------------------------ MODULE MCCoSim ------------------------------
(* The constants of the runs of CoSim that are not plain model values. *)
EXTENDS CoSim

CONSTANTS a1, d1

NoRequests == {}

Request(type, addr, data) ==
  [type |-> type, status |-> "length", addr |-> addr, data |-> data]

\* One request of each kind tcp_thread tells apart; VP_ERROR stands for a type
\* it does not know.
DramRequests == { Request("VP_WRITE", d1, 0), Request("VP_READ", d1, 0) }
IrqRequests == { Request("VP_RAISE_IRQ", NullAddr, 0) }
WindowRequests == { Request("VP_WRITE", a1, 0) }
UnknownRequests == { Request("VP_ERROR", NullAddr, 0) }
AllRequests ==
  DramRequests \cup IrqRequests \cup WindowRequests \cup UnknownRequests
=============================================================================
