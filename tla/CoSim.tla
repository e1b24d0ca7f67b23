------------------------------- MODULE CoSim -------------------------------
(***************************************************************************)
(* The co-simulation: one QEMU with its mmio_bus device and the SystemC    *)
(* processes that connect to it.  Either side may be started, killed and   *)
(* started again at any time.                                              *)
(***************************************************************************)
EXTENDS MmioBus, QemuCpu

vars == <<sockVars, qemuVars, cpuVars>>

TypeOK == SockTypeOK /\ QemuTypeOK /\ CpuTypeOK

Init == SockInit /\ QemuInit /\ CpuInit

QemuStep ==
  \/ QemuStart
  \/ QemuExit
  \/ \E c \in Clients : Realize(c)
  \/ \E v \in Vcpus : \/ \E r \in MmioRequests : MmioCall(v, r)
                      \/ TransferSend(v)
                      \/ TransferRecv(v)
                      \/ TransferFail(v)
  \/ TcpStep

ClientStep ==
  \E c \in Clients : \/ Launch(c, Listening)
                     \/ ServeStep(c)
                     \/ ClientCrash(c)
                     \/ InitiatorStep(c)

Next == \/ QemuStep /\ UNCHANGED cpuVars
        \/ ClientStep /\ UNCHANGED qemuVars

Spec == Init /\ [][Next]_vars

-----------------------------------------------------------------------------
(* Fairness.  Every thread that can run does.  Whoever waits for one of the *)
(* two locks gets it if it is free again and again: tcp_thread gives the    *)
(* mutex up for 10 ms in each of its rounds, and QEMU's threads pass the    *)
(* BQL around.  Nobody has to start, stop, crash, or touch a device.        *)

VcpuReturns(v) == (TransferRecv(v) \/ TransferFail(v)) /\ UNCHANGED cpuVars
VcpuLocks(v) == TransferSend(v) /\ UNCHANGED cpuVars
TcpLocks == TcpLock /\ UNCHANGED cpuVars
TcpRaises == ServeIrq /\ UNCHANGED cpuVars
TcpWorks == TcpStep /\ tcp # "timedwait" /\ UNCHANGED cpuVars
Realizes == (\E c \in Clients : Realize(c)) /\ UNCHANGED cpuVars
ClientWorks(c) == (ServeStep(c) \/ InitiatorRecv(c)) /\ UNCHANGED qemuVars

Fairness ==
  /\ \A v \in Vcpus : WF_vars(VcpuReturns(v)) /\ SF_vars(VcpuLocks(v))
  /\ SF_vars(TcpLocks) /\ SF_vars(TcpRaises) /\ WF_vars(TcpWorks)
  /\ WF_vars(Realizes)
  /\ \A c \in Clients : WF_vars(ClientWorks(c))

FairSpec == Spec /\ Fairness

-----------------------------------------------------------------------------
(* Safety *)

\* Does resp answer req, as the memory of c stands?
Answers(resp, r, c) ==
  /\ resp.type = RespType(r.type)
  /\ resp.status = "VP_OK"
  /\ resp.addr = r.addr
  /\ r.type = "VP_READ" => resp.data = mem[c][r.addr]
  /\ r.type = "VP_WRITE" => mem[c][r.addr] = r.data

\* What an MMIO callback receives is the answer to what it sent: a read
\* returns the word the SystemC process holds, a write has been stored there,
\* whatever tcp_thread, other clients, crashes and restarts do meanwhile.
\* (mmio_bus_read and mmio_bus_write, vp_b_transfer.)
RepliesAnswerRequests ==
  [][\A v \in Vcpus :
       pc[v] = "recv" /\ pc'[v] = "idle" /\ last'.how = "reply" =>
         /\ last'.ok
         /\ Answers(Head(toSrv[on]), req, on)
         /\ req.type = "VP_READ" => last'.data = mem[on][req.addr]]_vars

\* vp_wait in tcp_thread never picks up the answer a callback is waiting for:
\* all it puts into vpt[] are requests.  (The use of dev->mutex.)
OnlyRequestsArePended ==
  \A i \in DOMAIN pend : pend[i].msg.type \in {"VP_WRITE", "VP_READ", "VP_RAISE_IRQ"}

\* The answer itself is answered by nobody: no client ever gets VP_ERROR.
NoErrorTraffic ==
  \A c \in Clients : \A i \in DOMAIN toCli[c] : toCli[c][i].type # "VP_ERROR"

\* No crash of a SystemC process, at any point of an access, ends QEMU: the
\* exit in vp_wait after a failed recv is not reached, because the callback
\* always collects the error of a reset connection first.
QemuSurvives == qemu # "failed"

\* A client descriptor is edge-triggered and vp_wait reads it once per event;
\* still nothing is left behind: where input or an end of file waits without
\* an edge, vp_wait is about to read it or the answer it owes raises one.
EdgeNotLost ==
  \A c \in Clients : qemu = "running" /\ Readable(c) /\ ~edge[c] =>
    c \in evs \/ \E i \in DOMAIN pend : pend[i].fd = c

\* A batch of vp_wait has no more requests than there are connections open at
\* that time, whoever has come and gone: the three places its caller has are
\* enough exactly as long as no more than three are open together, which
\* nothing in the code sees to.  (vpt[] in tcp_thread_func.)
BatchFits ==
  Len(pend) <= Cardinality({c \in Clients : srvEnd[c] = "open"})

\* Is resp an answer to the request r of an initiator?  It has the type and the
\* status of that request; its address, of a read or write; and no leftovers of
\* another answer, of an interrupt.
Suits(resp, r) ==
  /\ resp.type = RespType(r.type)
  /\ resp.status = IF r.type \in {"VP_WRITE", "VP_READ", "VP_RAISE_IRQ"} THEN "VP_OK" ELSE "VP_FAIL"
  /\ r.type \in {"VP_READ", "VP_WRITE"} => resp.addr = r.addr
  /\ r.type = "VP_RAISE_IRQ" => resp.addr = NullAddr /\ resp.data = 0

\* Every answer a SystemC initiator gets is to the request it is blocked on, as
\* far as type, status and address tell, also when tcp_thread serves several
\* clients in one batch and one vpt_resp.  (b_transport, tcp_thread_func.)
InitiatorsAreAnswered ==
  [][\A c \in Clients :
       Blocked(c) /\ asked'[c] = NoTransfer /\ toCli[c] # <<>> /\ main'[c] # "dead" =>
         Suits(Head(toCli[c]), asked[c])]_vars

-----------------------------------------------------------------------------
(* Why the accesses are safe: the inductive invariant of a build without    *)
(* initiators on the SystemC side                                           *)

\* Who runs where holds which lock.
LockInv ==
  /\ tcp # "timedwait" => mutex = Tcp
  /\ \A v \in Vcpus : /\ pc[v] = "recv" => mutex = v
                      /\ pc[v] # "idle" => bql = v
  /\ tcp # "batch" => evs = {}
  /\ ~Running => tcp = "timedwait" /\ \A v \in Vcpus : pc[v] = "idle"

\* Callbacks have a descriptor and a request of theirs; a batch has open ones;
\* a QEMU that does not run has accepted nobody.
LinkInv ==
  /\ Running => sockFd \in Clients
  /\ \A v \in Vcpus : /\ pc[v] # "idle" => req \in MmioRequests
                      /\ pc[v] = "recv" => on \in Clients
  /\ \A c \in Clients : /\ c \in evs => srvEnd[c] = "open"
                        /\ srvEnd[c] = "open" => Running

\* A process and its end of the connection.
LifeInv ==
  \A c \in Clients :
    /\ main[c] \in {"wait", "tlm"} <=> cliEnd[c] = "open"
    /\ main[c] = "dead" => toCli[c] = <<>>
    /\ main[c] = "unborn" => cliEnd[c] = "unborn"
    /\ cliEnd[c] = "unborn" => srvEnd[c] = "unborn" /\ toCli[c] = <<>>

\* A callback is waiting for client c.
Called(c) == srvEnd[c] = "open" /\ on = c /\ \E v \in Vcpus : pc[v] = "recv"

\* The request of a call is at one place: on the way to the client, in its
\* hands, answered, or lost with it.
Talking(c) ==
  \/ Len(toCli[c]) = 1 /\ Head(toCli[c]) = req /\ toSrv[c] = <<>> /\ main[c] = "wait"
  \/ toCli[c] = <<>> /\ toSrv[c] = <<>> /\ main[c] = "tlm" /\ Answers(cur[c], req, c)
  \/ /\ toCli[c] = <<>> /\ Len(toSrv[c]) = 1 /\ Answers(Head(toSrv[c]), req, c)
     /\ main[c] # "tlm" /\ cliEnd[c] # "reset"
  \/ toCli[c] = <<>> /\ toSrv[c] = <<>> /\ main[c] = "dead"

\* Outside a call nothing is under way on a connection QEMU holds.
Silent(c) ==
  /\ toSrv[c] = <<>>
  /\ ~Gone(srvEnd[c]) => toCli[c] = <<>> /\ main[c] # "tlm" /\ cliEnd[c] # "reset"

InTurn(c) == IF Called(c) THEN Talking(c) ELSE Silent(c)

TalkInv ==
  /\ pend = <<>>
  /\ \A c \in Clients : ~Blocked(c) /\ InTurn(c)

\* The invariant of which each of the properties above is a consequence.
IInv == TypeOK /\ LockInv /\ LinkInv /\ LifeInv /\ TalkInv /\ EdgeNotLost

\* Why each step is one of AtomicMmio: a process has at most one request before
\* it; a descriptor that is not open any more has led to a process that died.
OrderInv ==
  /\ ~Running => on = NoFd
  /\ \A c \in Clients :
       /\ toCli[c] # <<>> => Len(toCli[c]) = 1 /\ Head(toCli[c]) \in MmioRequests
       /\ Running /\ c \in {sockFd, on} => srvEnd[c] = "open" \/ main[c] = "dead"

\* A batch holds at most one request of each connection.
OneRequestEach ==
  \A i, j \in DOMAIN pend : pend[i].fd = pend[j].fd => i = j

\* Why a batch has one request of each connection, with any requests from the
\* SystemC side: whose entry is in the array has no event left.
BatchInv ==
  /\ tcp \notin {"batch", "selflock"} => pend = <<>>
  /\ \A i \in DOMAIN pend : pend[i].fd \notin evs
  /\ OneRequestEach

-----------------------------------------------------------------------------
(* Why initiators are answered: the inductive invariant of a guest that     *)
(* leaves the window alone                                                  *)

\* tcp_thread owes client c an answer.
Owed(c) == \E i \in DOMAIN pend : pend[i].fd = c

\* The request of an initiator is at one place: on the way to QEMU, in vpt[],
\* answered, or lost with QEMU; the one of a process that has died goes the
\* same way, and its answer raises an edge.
OnePlace(c) ==
  /\ main[c] # "tlm"
  /\ Blocked(c) => main[c] = "wait"
  /\ toSrv[c] # <<>> =>
       /\ Len(toSrv[c]) = 1 /\ toCli[c] = <<>> /\ ~Owed(c)
       /\ cliEnd[c] \in {"open", "closed"} /\ ~Gone(srvEnd[c])
       /\ main[c] = "wait" => Blocked(c) /\ Head(toSrv[c]) = asked[c]
  /\ Owed(c) => toCli[c] = <<>> /\ srvEnd[c] = "open" /\ cliEnd[c] \in {"open", "closed"}
  /\ \A i \in DOMAIN pend :
       pend[i].fd = c /\ main[c] = "wait" => Blocked(c) /\ pend[i].msg = asked[c]
  /\ toCli[c] # <<>> => Len(toCli[c]) = 1 /\ Blocked(c) /\ Suits(Head(toCli[c]), asked[c])

AskedInv == \A c \in Clients : OnePlace(c)

DialogueInv == TypeOK /\ LockInv /\ LinkInv /\ LifeInv /\ BatchInv /\ AskedInv /\ EdgeNotLost

-----------------------------------------------------------------------------
(* What a comment or the documentation says of the code, and the code does  *)
(* not do                                                                   *)

\* "check if client is connect" (vpipc.h:104): after vp_wait has handled a
\* disconnect, client_is_connect does not report a connection it has closed.
ConnectedIsOpen ==
  qemu = "running" /\ tcp = "timedwait" /\ ClientIsConnect => srvEnd[sockFd] = "open"

\* "check recv type and status" (mmio_bus.c:108): what passes that check is an
\* answer that was received.
CheckedIsReceived ==
  last.ok => last.how = "reply"

\* "QEMU_CPU support MMIO R/W and IRQ event passing from systemC to QEMU, which
\* means support DMA" (README.md:159): with an initiator on the SystemC side a
\* callback still gets no request in place of its answer.
\* (b_transport of QEMU_CPU in the middle of tlm_read or tlm_write.)
CallbackGetsNoRequest ==
  [][\A v \in Vcpus :
       pc[v] = "recv" /\ pc'[v] = "idle" /\ last'.how = "reply" =>
         Head(toSrv[on]).type \notin {"VP_WRITE", "VP_READ", "VP_RAISE_IRQ"}]_vars

\* "protocol VPIPC (support R/W and IRQ)" (README.md:9): raising an interrupt
\* does not close a cycle of tcp_thread, which holds dev->mutex and needs the
\* BQL, and a callback, which holds the BQL and needs the mutex.
InterruptsDoNotLockUp ==
  ~ /\ mutex = Tcp /\ evs = {} /\ pend # <<>>
    /\ Head(pend).msg.type = "VP_RAISE_IRQ"
    /\ \E v \in Vcpus : bql = v /\ pc[v] = "lock"

-----------------------------------------------------------------------------
(* The co-simulation implements atomic accesses *)

\* The callback that is in vp_b_transfer, its client and what came of it.
InCall == \E v \in Vcpus : pc[v] = "recv"

Reply(c) == IF toSrv[c] # <<>> THEN Head(toSrv[c]) ELSE cur[c]

CallState == IF toCli[on] # <<>> THEN "issued"
             ELSE IF toSrv[on] # <<>> \/ main[on] = "tlm" THEN "done" ELSE "lost"

NoCall == [st |-> "idle", to |-> NoFd, req |-> NoTransfer, data |-> 0]

\* What AtomicMmio calls order, call and result.
Orders == [c \in Clients |-> IF toCli[c] # <<>> THEN Head(toCli[c]) ELSE NoTransfer]

TheCall ==
  IF ~InCall THEN NoCall
  ELSE [st |-> CallState, to |-> on, req |-> req,
        data |-> IF CallState = "done" /\ req.type = "VP_READ" THEN Reply(on).data ELSE 0]

TheResult == IF last.how = "reply" THEN [answered |-> TRUE, data |-> last.data]
             ELSE [answered |-> FALSE, data |-> 0]

Atomic == INSTANCE AtomicMmio WITH
  Requests  <- MmioRequests,
  Nobody    <- NoFd,
  NoRequest <- NoTransfer,
  store     <- mem,
  order     <- Orders,
  call      <- TheCall,
  result    <- TheResult

\* The sockets, the two threads of QEMU, the crashes and the restarts together
\* behave like accesses that SystemC carries out one at a time and at most once.
ImplementsAtomicMmio == Atomic!AMSpec

-----------------------------------------------------------------------------
(* Liveness, under FairSpec *)

\* An access of the guest returns, unless QEMU is stopped: it is neither
\* starved of dev->mutex by tcp_thread nor left in recv() by a dead client.
MmioReturns == \A v \in Vcpus : pc[v] # "idle" ~> pc[v] = "idle"

\* tcp_thread closes the descriptor of every client that has died.
DisconnectIsNoticed ==
  \A c \in Clients : main[c] = "dead" ~> srvEnd[c] # "open"

\* A SystemC process that connects, also after another, is accepted.
ClientIsAccepted ==
  \A c \in Clients : srvEnd[c] = "backlog" ~> srvEnd[c] # "backlog"

\* When QEMU ends, thread_process ends in every SystemC process.
ClientStops ==
  \A c \in Clients : Gone(srvEnd[c]) ~> main[c] = "dead"

\* A SystemC initiator is answered, or told that QEMU has ended.  One thing
\* only keeps it waiting: some process asked for the device's own window, and
\* tcp_thread waits in that callback for the mutex it holds itself.
InitiatorReturns ==
  \A c \in Clients : Blocked(c) ~> ~Blocked(c) \/ tcp = "selflock"
=============================================================================
