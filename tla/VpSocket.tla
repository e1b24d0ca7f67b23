------------------------------ MODULE VpSocket ------------------------------
(***************************************************************************)
(* The TCP sockets and the epoll instance under vpipc (vpipc.c/.cpp), as   *)
(* far as the two processes can tell.  QEMU is the server, every SystemC   *)
(* process the client of one connection, so a connection and the server's  *)
(* file descriptor for it are both named by the client.  A message is one  *)
(* struct vp_transfer_data: its 32 bytes are sent and received whole.      *)
(*                                                                         *)
(* An end of a connection passes from "open" to "closed" (orderly: the     *)
(* peer gets a FIN) or to "reset" (closed with unread input: the peer gets *)
(* a RST, and an error it has not been told of).  "broken" is a RST whose  *)
(* error was reported, or one provoked by a send after the FIN.            *)
(***************************************************************************)
EXTENDS Integers, Sequences, FiniteSets

CONSTANTS Clients,   \* SystemC processes, one connection each
          Values,    \* contents of a data word; the word 0 is one of them
          MmioAddr,  \* words of the MMIO bus window
          DramAddr,  \* words of guest memory
          NullAddr   \* the address 0

ASSUME AddrAssumption ==
  /\ MmioAddr \cap DramAddr = {}
  /\ NullAddr \notin MmioAddr \cup DramAddr
  /\ 0 \in Values

VP_Type == { "VP_WRITE", "VP_READ", "VP_RAISE_IRQ",
             "VP_WRITE_RESP", "VP_READ_RESP", "VP_RAISE_IRQ_RESP", "VP_ERROR" }

Addr == MmioAddr \cup DramAddr \cup {NullAddr}

\* The word shared by status and length holds "length" in a request: a byte
\* count, which is never 0 and so never reads as VP_OK.
Transfer == [type : VP_Type, status : {"VP_OK", "VP_FAIL", "length"},
             addr : Addr, data : Values]

\* QEMU reads and writes on the SystemC side inside its window only.
FromQemu == { t \in Transfer : t.type \in {"VP_WRITE", "VP_READ"} => t.addr \in MmioAddr }

NoTransfer == [type |-> "VP_ERROR", status |-> "VP_FAIL",
               addr |-> NullAddr, data |-> 0]

\* The type of the answer to a request.
RespType(type) == CASE type = "VP_WRITE"     -> "VP_WRITE_RESP"
                    [] type = "VP_READ"      -> "VP_READ_RESP"
                    [] type = "VP_RAISE_IRQ" -> "VP_RAISE_IRQ_RESP"
                    [] OTHER                 -> "VP_ERROR"

VARIABLES
  toSrv,   \* toSrv[c]: sent by client c, not yet received by QEMU
  toCli,   \* toCli[c]: sent by QEMU, not yet received by client c
  cliEnd,  \* the client's end of each connection
  srvEnd,  \* QEMU's end; "backlog" until accept() returns it
  edge     \* edge[c]: EPOLLET has an unreported edge for descriptor c

sockVars == <<toSrv, toCli, cliEnd, srvEnd, edge>>

Ends == {"unborn", "open", "closed", "reset", "broken"}

SockTypeOK ==
  /\ toSrv \in [Clients -> Seq(Transfer)]
  /\ toCli \in [Clients -> Seq(FromQemu)]
  /\ cliEnd \in [Clients -> Ends]
  /\ srvEnd \in [Clients -> Ends \cup {"backlog"}]
  /\ edge \in [Clients -> BOOLEAN]

SockInit ==
  /\ toSrv = [c \in Clients |-> <<>>]
  /\ toCli = [c \in Clients |-> <<>>]
  /\ cliEnd = [c \in Clients |-> "unborn"]
  /\ srvEnd = [c \in Clients |-> "unborn"]
  /\ edge = [c \in Clients |-> FALSE]

Gone(end) == end \in {"closed", "reset", "broken"}

\* A send to a closed peer provokes a RST; one after a RST collects its error.
AfterSend(end) == IF Gone(end) THEN "broken" ELSE end

\* recv() takes queued data first, then a pending error, then end of file.
AfterRecv(end) == IF end = "reset" THEN "broken" ELSE end

CloseWith(unread) == IF unread = <<>> THEN "closed" ELSE "reset"

-----------------------------------------------------------------------------
(* The client's calls *)

CliConnect(c) ==
  /\ cliEnd' = [cliEnd EXCEPT ![c] = "open"]
  /\ srvEnd' = [srvEnd EXCEPT ![c] = "backlog"]
  /\ UNCHANGED <<toSrv, toCli, edge>>

CliSend(c, t) ==
  /\ toSrv' = IF Gone(srvEnd[c]) THEN toSrv ELSE [toSrv EXCEPT ![c] = Append(@, t)]
  /\ edge' = [edge EXCEPT ![c] = @ \/ srvEnd[c] = "open"]
  /\ srvEnd' = [srvEnd EXCEPT ![c] = AfterSend(@)]
  /\ UNCHANGED <<toCli, cliEnd>>

CliTake(c) ==
  /\ toCli' = [toCli EXCEPT ![c] = Tail(@)]
  /\ UNCHANGED <<toSrv, cliEnd, srvEnd, edge>>

\* close(), or the kernel's close of every descriptor of a dead process.
CliClose(c) ==
  /\ cliEnd' = [cliEnd EXCEPT ![c] = CloseWith(toCli[c])]
  /\ toCli' = [toCli EXCEPT ![c] = <<>>]
  /\ edge' = [edge EXCEPT ![c] = @ \/ srvEnd[c] = "open"]
  /\ UNCHANGED <<toSrv, srvEnd>>

-----------------------------------------------------------------------------
(* QEMU's calls *)

\* accept() and vp_epoll_add(EPOLLIN | EPOLLET): EPOLL_CTL_ADD reports input
\* that is already there.
SrvAccept(c) ==
  /\ srvEnd[c] = "backlog"
  /\ srvEnd' = [srvEnd EXCEPT ![c] = "open"]
  /\ edge' = [edge EXCEPT ![c] = TRUE]
  /\ UNCHANGED <<toSrv, toCli, cliEnd>>

\* A RST that answers the send raises a new edge on QEMU's descriptor; a
\* closed descriptor is EBADF.
SrvSend(c, t) ==
  IF srvEnd[c] # "open" THEN UNCHANGED sockVars
  ELSE /\ toCli' = IF Gone(cliEnd[c]) THEN toCli
                   ELSE [toCli EXCEPT ![c] = Append(@, t)]
       /\ edge' = [edge EXCEPT ![c] = @ \/ cliEnd[c] = "closed"]
       /\ cliEnd' = [cliEnd EXCEPT ![c] = AfterSend(@)]
       /\ UNCHANGED <<toSrv, srvEnd>>

SrvTake(c) ==
  /\ toSrv' = [toSrv EXCEPT ![c] = Tail(@)]
  /\ UNCHANGED <<toCli, cliEnd, srvEnd, edge>>

\* recv() that returns no data: end of file, or the error of a RST.
SrvTakeEnd(c) ==
  /\ cliEnd' = [cliEnd EXCEPT ![c] = AfterRecv(@)]
  /\ UNCHANGED <<toSrv, toCli, srvEnd, edge>>

SrvClose(c) ==
  /\ srvEnd' = [srvEnd EXCEPT ![c] = "closed"]
  /\ edge' = [edge EXCEPT ![c] = FALSE]
  /\ UNCHANGED <<toSrv, toCli, cliEnd>>

\* The end of the QEMU process, with or without exit().
SrvExit ==
  /\ srvEnd' = [c \in Clients |->
                  CASE srvEnd[c] = "open"    -> CloseWith(toSrv[c])
                    [] srvEnd[c] = "backlog" -> "reset"
                    [] OTHER                 -> srvEnd[c]]
  /\ toSrv' = [c \in Clients |-> <<>>]
  /\ edge' = [c \in Clients |-> FALSE]
  /\ UNCHANGED <<toCli, cliEnd>>

-----------------------------------------------------------------------------
(* Readiness, as epoll_wait computes it *)

Readable(c) == srvEnd[c] = "open" /\ (toSrv[c] # <<>> \/ Gone(cliEnd[c]))

Backlog == {c \in Clients : srvEnd[c] = "backlog"}

\* EPOLLET: an item is reported once per edge.
Ready == {c \in Clients : edge[c] /\ Readable(c)}

\* epoll_wait drops the edge of what it reports and of what is not readable.
EpollCollect(reported) ==
  /\ edge' = [c \in Clients |-> edge[c] /\ Readable(c) /\ c \notin reported]
  /\ UNCHANGED <<toSrv, toCli, cliEnd, srvEnd>>
=============================================================================
