------------------------------ MODULE QemuCpu ------------------------------
(***************************************************************************)
(* The SystemC processes: module QEMU_CPU (QEMU_CPU.hpp) on the client     *)
(* side of vpipc (vpipc.cpp), with the memory it is bound to (target.h).   *)
(* SC_THREAD thread_process serves QEMU's requests; with DMA built in,     *)
(* b_transport makes requests of its own on the same socket.               *)
(*                                                                         *)
(* SystemC's threads are coroutines.  thread_process gives way only in the *)
(* target's wait(delay), in the middle of a request, so that is where      *)
(* b_transport can run: InitiatorAt = {"tlm"} is QEMU_CPU.  {"wait"} is a  *)
(* generic client of vpipc, which serves QEMU's requests and makes its own *)
(* between two of them; the repository has no such client.  Initiations    *)
(* are the requests it may make, none in a build without DMA.              *)
(***************************************************************************)
EXTENDS VpSocket

CONSTANTS Initiations, InitiatorAt

ASSUME InitiatorAssumption ==
  /\ Initiations \subseteq { t \in Transfer : t.status = "length" }
  /\ InitiatorAt \subseteq {"wait", "tlm"}

VARIABLES
  main,   \* main[c]: thread_process waits, is in tlm_read/tlm_write, or has ended
  cur,    \* cur[c]: vpt_resp, while the request it answers is served
  asked,  \* asked[c]: the request whose vp_b_transfer client c is blocked in
  mem     \* mem[c]: the words of the target

cpuVars == <<main, cur, asked, mem>>

CpuTypeOK ==
  /\ main \in [Clients -> {"unborn", "wait", "tlm", "dead"}]
  /\ cur \in [Clients -> Transfer]
  /\ asked \in [Clients -> Transfer]
  /\ mem \in [Clients -> [MmioAddr -> Values]]

\* The target fills its memory with random data.
CpuInit ==
  /\ main = [c \in Clients |-> "unborn"]
  /\ cur = [c \in Clients |-> NoTransfer]
  /\ asked = [c \in Clients |-> NoTransfer]
  /\ mem \in [Clients -> [MmioAddr -> Values]]

\* In vp_b_transfer the whole process is in recv().
Blocked(c) == asked[c] # NoTransfer

\* The process ends: thread_process left its loop, exit() or a signal.
Die(c) ==
  /\ main' = [main EXCEPT ![c] = "dead"]
  /\ cur' = [cur EXCEPT ![c] = NoTransfer]
  /\ asked' = [asked EXCEPT ![c] = NoTransfer]
  /\ CliClose(c)
  /\ UNCHANGED mem

\* create_vp_module: connect, or exit(1) when nothing listens.
Launch(c, listening) ==
  /\ main[c] = "unborn"
  /\ IF listening
     THEN /\ main' = [main EXCEPT ![c] = "wait"]
          /\ CliConnect(c)
     ELSE /\ main' = [main EXCEPT ![c] = "dead"]
          /\ UNCHANGED sockVars
  /\ UNCHANGED <<cur, asked, mem>>

Resp(c, type, status, addr, data) ==
  cur' = [cur EXCEPT ![c] = [type |-> type, status |-> status,
                             addr |-> addr, data |-> data]]

\* tlm_write and tlm_read, through the target's b_transport.
TlmWrite(c, r) == mem' = [mem EXCEPT ![c][r.addr] = r.data]
TlmRead(c, r) == mem[c][r.addr]

\* vp_wait takes a request and the switch starts on it.  The target copies its
\* word before it waits, so the read or write takes effect here.  Fields that
\* a branch does not assign are left over in vpt_resp.
ClientRecv(c) ==
  /\ main[c] = "wait" /\ ~Blocked(c)
  /\ toCli[c] # <<>>
  /\ CliTake(c)
  /\ main' = [main EXCEPT ![c] = "tlm"]
  /\ LET r == Head(toCli[c]) IN
     \E addr \in Addr, left \in Values :
       CASE r.type = "VP_WRITE" ->
              /\ addr = r.addr
              /\ TlmWrite(c, r)
              /\ Resp(c, "VP_WRITE_RESP", "VP_OK", addr, left)
         [] r.type = "VP_READ" ->
              /\ addr = r.addr /\ left = TlmRead(c, r)
              /\ Resp(c, "VP_READ_RESP", "VP_OK", addr, left)
              /\ UNCHANGED mem
         [] OTHER ->
              /\ Resp(c, "VP_ERROR", "VP_FAIL", addr, left)
              /\ UNCHANGED mem
  /\ UNCHANGED asked

\* Faulty variant: the loop answers the request again.
ClientReplyAgain(c) ==
  /\ main[c] = "tlm" /\ ~Blocked(c)
  /\ IF srvEnd[c] = "broken"
     THEN Die(c)
     ELSE /\ CliSend(c, cur[c])
          /\ UNCHANGED <<main, cur, asked, mem>>

\* vp_nb_response; a send on a broken connection is SIGPIPE.
ClientReply(c) ==
  /\ main[c] = "tlm" /\ ~Blocked(c)
  /\ IF srvEnd[c] = "broken"
     THEN Die(c)
     ELSE /\ CliSend(c, cur[c])
          /\ main' = [main EXCEPT ![c] = "wait"]
          /\ cur' = [cur EXCEPT ![c] = NoTransfer]
          /\ UNCHANGED <<asked, mem>>

\* Faulty variant: vp_wait keeps sock_fd, so the loop spins.
ClientGoneSpins(c) ==
  /\ main[c] = "wait" /\ ~Blocked(c)
  /\ toCli[c] = <<>>
  /\ Gone(srvEnd[c])
  /\ UNCHANGED <<sockVars, cpuVars>>

\* vp_wait finds the server gone.  End of file: sock_fd = -1, the loop breaks,
\* cleanup_vp_module.  Error: exit.
ClientGone(c) ==
  /\ main[c] = "wait" /\ ~Blocked(c)
  /\ toCli[c] = <<>>
  /\ Gone(srvEnd[c])
  /\ Die(c)

\* The user stops the simulation, or it crashes.
ClientCrash(c) ==
  /\ main[c] \in {"wait", "tlm"}
  /\ Die(c)

-----------------------------------------------------------------------------
(* Requests of the SystemC side: b_transport and its vp_b_transfer *)

\* The send of vp_b_transfer.  QEMU_CPU gets here only while thread_process is in
\* wait(delay); at "wait" it is a client that makes requests of its own.
InitiatorSend(c) ==
  /\ main[c] \in InitiatorAt /\ ~Blocked(c)
  /\ \E t \in Initiations :
       IF srvEnd[c] = "broken"
       THEN Die(c)
       ELSE /\ CliSend(c, t)
            /\ asked' = [asked EXCEPT ![c] = t]
            /\ UNCHANGED <<main, cur, mem>>

\* recv() takes whatever comes first; without data it fails, unnoticed.
InitiatorRecv(c) ==
  /\ main[c] \in {"wait", "tlm"} /\ Blocked(c)
  /\ \/ toCli[c] # <<>> /\ CliTake(c)
     \/ /\ toCli[c] = <<>> /\ Gone(srvEnd[c])
        /\ srvEnd' = [srvEnd EXCEPT ![c] = AfterRecv(@)]
        /\ UNCHANGED <<toSrv, toCli, cliEnd, edge>>
  /\ asked' = [asked EXCEPT ![c] = NoTransfer]
  /\ UNCHANGED <<main, cur, mem>>

ServeStep(c) == ClientRecv(c) \/ ClientReply(c) \/ ClientGone(c)
InitiatorStep(c) == InitiatorSend(c) \/ InitiatorRecv(c)
=============================================================================
