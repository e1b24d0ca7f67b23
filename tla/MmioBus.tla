------------------------------ MODULE MmioBus ------------------------------
(***************************************************************************)
(* The QEMU process: the mmio_bus device (mmio_bus.c) on the server side   *)
(* of vpipc (vpipc.c).  Its threads are the vCPUs, which run the device's  *)
(* read and write callbacks under QEMU's big lock (BQL), and tcp_thread,   *)
(* which polls the sockets and answers what the SystemC side asks.         *)
(*                                                                         *)
(* dev->mutex is meant to give one thread at a time the use of the client  *)
(* socket: a callback holds it from its send to the answer, tcp_thread     *)
(* always, except in the 10 ms of its condition wait.                      *)
(***************************************************************************)
EXTENDS VpSocket

CONSTANTS Vcpus,      \* the vCPU threads
          Tcp,        \* tcp_thread, as an owner of locks
          NoOwner,    \* a free lock
          Listener,   \* server_fd, as a member of an epoll batch
          NoFd,       \* sock_fd = -1
          MAX_EVENTS  \* events one epoll_wait reports

ASSUME QemuAssumption ==
  /\ Tcp \notin Vcpus
  /\ NoOwner \notin Vcpus \cup {Tcp}
  /\ Listener \notin Clients
  /\ NoFd \notin Clients
  /\ MAX_EVENTS \in Nat \ {0}

VARIABLES
  qemu,    \* "off", "realize", "running", "exited" (killed), "failed" (exit in vp_wait)
  sockFd,  \* vpm.sock_fd: the client the callbacks talk to
  mutex,   \* owner of dev->mutex
  bql,     \* owner of the big QEMU lock
  pc,      \* pc[v]: vCPU v is outside the callbacks, at the lock, or in recv()
  req,     \* the callback's vpt_send
  on,      \* the descriptor its vp_b_transfer copied from vpm
  last,    \* how the latest callback ended, and the word it returned
  tcp,     \* "timedwait", "poll", "batch", or "selflock"
  evs,     \* events of the batch still to be looked at
  pend,    \* vpt[]: requests of the batch still to be served
  dram,    \* guest memory
  irq      \* level of the device's interrupt line

qemuVars == <<qemu, sockFd, mutex, bql, pc, req, on, last, tcp, evs, pend, dram, irq>>

tcpVars == <<tcp, evs, pend>>
callVars == <<pc, req, on, last>>

MmioRequests ==
  { t \in [type : {"VP_READ", "VP_WRITE"}, status : {"length"},
           addr : MmioAddr, data : Values] : t.type = "VP_READ" => t.data = 0 }

\* "reply": the transfer received 32 bytes.  After "eof", "error" and "badfd"
\* its local resp holds whatever was on the stack.
Outcomes == [how : {"none", "reply", "eof", "error", "badfd", "unlinked"},
             ok : BOOLEAN, data : Values]

\* struct vp_transfer: a descriptor and what came over it.
Pended == [fd : Clients, msg : Transfer]

QemuTypeOK ==
  /\ qemu \in {"off", "realize", "running", "exited", "failed"}
  /\ sockFd \in Clients \cup {NoFd}
  /\ mutex \in Vcpus \cup {Tcp, NoOwner}
  /\ bql \in Vcpus \cup {Tcp, NoOwner}
  /\ pc \in [Vcpus -> {"idle", "lock", "recv"}]
  /\ req \in FromQemu
  /\ on \in Clients \cup {NoFd}
  /\ last \in Outcomes
  /\ tcp \in {"timedwait", "poll", "batch", "selflock"}
  /\ evs \in SUBSET (Clients \cup {Listener})
  /\ pend \in Seq(Pended)
  /\ dram \in [DramAddr -> Values]
  /\ irq \in Values

Listening == qemu \in {"realize", "running"}

\* client_is_connect
ClientIsConnect == sockFd # NoFd

\* Everything of a QEMU process that has not realized its device.
Blank ==
  /\ sockFd' = NoFd
  /\ mutex' = NoOwner
  /\ bql' = NoOwner
  /\ pc' = [v \in Vcpus |-> "idle"]
  /\ req' = NoTransfer
  /\ on' = NoFd
  /\ last' = [how |-> "none", ok |-> FALSE, data |-> 0]
  /\ tcp' = "timedwait"
  /\ evs' = {}
  /\ pend' = <<>>

QemuInit ==
  /\ qemu = "off"
  /\ sockFd = NoFd
  /\ mutex = NoOwner
  /\ bql = NoOwner
  /\ pc = [v \in Vcpus |-> "idle"]
  /\ req = NoTransfer
  /\ on = NoFd
  /\ last = [how |-> "none", ok |-> FALSE, data |-> 0]
  /\ tcp = "timedwait"
  /\ evs = {}
  /\ pend = <<>>
  /\ dram = [a \in DramAddr |-> 0]
  /\ irq = 0

-----------------------------------------------------------------------------
(* The process *)

\* A new QEMU, up to the loop in mmio_bus_realize: the server listens.
QemuStart ==
  /\ ~Listening
  /\ qemu' = "realize"
  /\ Blank
  /\ dram' = [a \in DramAddr |-> 0]
  /\ irq' = 0
  /\ UNCHANGED sockVars

\* mmio_bus_realize: vp_wait until a client has connected, then the thread.
\* The guest does not run before.
Realize(c) ==
  /\ qemu = "realize"
  /\ SrvAccept(c)
  /\ sockFd' = c
  /\ qemu' = "running"
  /\ UNCHANGED <<mutex, bql, callVars, tcpVars, dram, irq>>

\* The user ends or kills QEMU: every thread stops where it is.
QemuExit ==
  /\ Listening
  /\ qemu' = "exited"
  /\ SrvExit
  /\ Blank
  /\ UNCHANGED <<dram, irq>>

-----------------------------------------------------------------------------
(* The callbacks mmio_bus_read and mmio_bus_write *)

Running == qemu = "running"

\* Faulty variant: vpt_send.addr is the offset, without MMIO_ADDR.
MmioCallAtOffset(v, r) ==
  /\ Running
  /\ pc[v] = "idle"
  /\ bql = NoOwner
  /\ ClientIsConnect
  /\ bql' = v
  /\ pc' = [pc EXCEPT ![v] = "lock"]
  /\ req' = [r EXCEPT !.addr = NullAddr]
  /\ UNCHANGED <<sockVars, qemu, sockFd, mutex, on, last, tcpVars, dram, irq>>

\* The guest touches the window.  QEMU takes the BQL; the callback looks at
\* sock_fd without the mutex and fills in vpt_send.
MmioCall(v, r) ==
  /\ Running
  /\ pc[v] = "idle"
  /\ bql = NoOwner
  /\ IF ClientIsConnect
     THEN /\ bql' = v
          /\ pc' = [pc EXCEPT ![v] = "lock"]
          /\ req' = r
          /\ UNCHANGED last
     ELSE /\ last' = [how |-> "unlinked", ok |-> FALSE, data |-> 0]
          /\ UNCHANGED <<bql, pc, req>>
  /\ UNCHANGED <<sockVars, qemu, sockFd, mutex, on, tcpVars, dram, irq>>

\* Faulty variant: the callback transfers without dev->mutex.
TransferSendUnlocked(v) ==
  /\ Running
  /\ pc[v] = "lock"
  /\ on' = sockFd
  /\ SrvSend(sockFd, req)
  /\ pc' = [pc EXCEPT ![v] = "recv"]
  /\ UNCHANGED <<qemu, sockFd, mutex, bql, req, last, tcpVars, dram, irq>>

\* qemu_mutex_lock; vp_b_transfer copies sock_fd and sends.
TransferSend(v) ==
  /\ Running
  /\ pc[v] = "lock"
  /\ mutex = NoOwner
  /\ mutex' = v
  /\ on' = sockFd
  /\ SrvSend(sockFd, req)
  /\ pc' = [pc EXCEPT ![v] = "recv"]
  /\ UNCHANGED <<qemu, sockFd, bql, req, last, tcpVars, dram, irq>>

\* The rest of a callback, once recv() left resp in vpt_recv: unlock, check
\* type and status (which only prints), return the word of a read, drop the BQL.
\* The locals req and on are gone.
Return(v, how, resp) ==
  /\ mutex' = NoOwner
  /\ bql' = NoOwner
  /\ pc' = [pc EXCEPT ![v] = "idle"]
  /\ last' = [how  |-> how,
              ok   |-> resp.type = RespType(req.type) /\ resp.status = "VP_OK",
              data |-> IF req.type = "VP_READ" THEN resp.data ELSE 0]
  /\ req' = NoTransfer
  /\ on' = NoFd
  /\ UNCHANGED <<qemu, sockFd, tcpVars, dram, irq>>

TransferRecv(v) ==
  /\ Running
  /\ pc[v] = "recv"
  /\ srvEnd[on] = "open"
  /\ toSrv[on] # <<>>
  /\ SrvTake(on)
  /\ Return(v, "reply", Head(toSrv[on]))

\* recv() fails; vp_b_transfer ignores that and returns its uninitialized resp.
TransferFail(v) ==
  /\ Running
  /\ pc[v] = "recv"
  /\ \E resp \in Transfer :
       \/ /\ srvEnd[on] # "open"
          /\ UNCHANGED sockVars
          /\ Return(v, "badfd", resp)
       \/ /\ srvEnd[on] = "open" /\ toSrv[on] = <<>> /\ Gone(cliEnd[on])
          /\ SrvTakeEnd(on)
          /\ Return(v, IF cliEnd[on] = "reset" THEN "error" ELSE "eof", resp)

-----------------------------------------------------------------------------
(* tcp_thread_func *)

\* Faulty variant: a sleep in place of the condition wait, without the mutex.
TcpLockAnytime ==
  /\ Running
  /\ tcp = "timedwait"
  /\ tcp' = "poll"
  /\ UNCHANGED <<sockVars, qemu, sockFd, mutex, bql, callVars, evs, pend, dram, irq>>

\* Faulty variant: server_fd is not in the epoll set any more.
ReadyClients == Ready

\* The 10 ms are over and qemu_cond_timedwait has the mutex again.
TcpLock ==
  /\ Running
  /\ tcp = "timedwait"
  /\ mutex = NoOwner
  /\ mutex' = Tcp
  /\ tcp' = "poll"
  /\ UNCHANGED <<sockVars, qemu, sockFd, bql, callVars, evs, pend, dram, irq>>

ReadyFds == Ready \cup (IF Backlog = {} THEN {} ELSE {Listener})

\* vp_wait, server side: epoll_wait.
TcpPoll ==
  /\ Running
  /\ tcp = "poll"
  /\ \E E \in SUBSET ReadyFds :
       /\ Cardinality(E) <= MAX_EVENTS
       /\ E = ReadyFds \/ Cardinality(E) = MAX_EVENTS
       /\ evs' = E
       /\ EpollCollect(E)
  /\ tcp' = "batch"
  /\ UNCHANGED <<qemu, sockFd, mutex, bql, callVars, pend, dram, irq>>

\* The event of server_fd: the newest client replaces the one the callbacks use.
TcpAccept(c) ==
  /\ Running
  /\ tcp = "batch"
  /\ Listener \in evs
  /\ SrvAccept(c)
  /\ sockFd' = c
  /\ evs' = evs \ {Listener}
  /\ UNCHANGED <<qemu, mutex, bql, callVars, tcp, pend, dram, irq>>

\* Faulty variant: end of file leaves the descriptor open.
TcpReadNoClose(c) ==
  /\ Running
  /\ tcp = "batch"
  /\ c \in evs
  /\ evs' = evs \ {c}
  /\ IF toSrv[c] # <<>>
     THEN /\ SrvTake(c)
          /\ pend' = Append(pend, [fd |-> c, msg |-> Head(toSrv[c])])
     ELSE /\ cliEnd[c] \in {"closed", "broken"}
          /\ UNCHANGED <<sockVars, pend>>
  /\ UNCHANGED <<qemu, sockFd, mutex, bql, callVars, tcp, dram, irq>>

\* Faulty variant: the loop over the events does not move on after a request.
TcpReadAgain(c) ==
  /\ Running
  /\ tcp = "batch"
  /\ c \in evs
  /\ IF toSrv[c] # <<>>
     THEN /\ pend' = Append(pend, [fd |-> c, msg |-> Head(toSrv[c])])
          /\ UNCHANGED <<sockVars, evs>>
     ELSE /\ cliEnd[c] \in {"closed", "broken"}
          /\ evs' = evs \ {c}
          /\ SrvClose(c)
          /\ UNCHANGED pend
  /\ UNCHANGED <<qemu, sockFd, mutex, bql, callVars, tcp, dram, irq>>

\* The event of a client, one recv(): a request into vpt[]; end of file closes
\* the descriptor and leaves sock_fd as it is.
TcpRead(c) ==
  /\ Running
  /\ tcp = "batch"
  /\ c \in evs
  /\ evs' = evs \ {c}
  /\ IF toSrv[c] # <<>>
     THEN /\ SrvTake(c)
          /\ pend' = Append(pend, [fd |-> c, msg |-> Head(toSrv[c])])
     ELSE /\ cliEnd[c] \in {"closed", "broken"}
          /\ SrvClose(c)
          /\ UNCHANGED pend
  /\ UNCHANGED <<qemu, sockFd, mutex, bql, callVars, tcp, dram, irq>>

\* The same recv() returns an error: exit(EXIT_FAILURE).
TcpReadFail(c) ==
  /\ Running
  /\ tcp = "batch"
  /\ c \in evs
  /\ toSrv[c] = <<>>
  /\ cliEnd[c] = "reset"
  /\ qemu' = "failed"
  /\ SrvExit
  /\ Blank
  /\ UNCHANGED <<dram, irq>>

\* The loop over vpt[]: the first request is of one of the types, and leaves it.
Serving(types) ==
  /\ Running
  /\ tcp = "batch"
  /\ evs = {}
  /\ pend # <<>>
  /\ Head(pend).msg.type \in types
  /\ UNCHANGED <<qemu, sockFd, mutex, callVars, evs>>

\* vp_nb_response.  What the branch does not assign of vpt_resp is left over
\* from earlier answers.
Answer(type, status, addr, data) ==
  /\ SrvSend(Head(pend).fd, [type |-> type, status |-> status, addr |-> addr, data |-> data])
  /\ pend' = Tail(pend)

ServeWrite ==
  LET m == Head(pend).msg IN
  /\ Serving({"VP_WRITE"})
  /\ m.addr \notin MmioAddr
  /\ dram' = IF m.addr \in DramAddr THEN [dram EXCEPT ![m.addr] = m.data] ELSE dram
  /\ \E left \in Values : Answer("VP_WRITE_RESP", "VP_OK", m.addr, left)
  /\ UNCHANGED <<bql, tcp, irq>>

\* Faulty variant: the branch does not assign vpt_resp.data.addr.
ServeReadNoAddr ==
  LET m == Head(pend).msg IN
  /\ Serving({"VP_READ"})
  /\ m.addr \notin MmioAddr
  /\ \E left \in Addr :
       Answer("VP_READ_RESP", "VP_OK", left, IF m.addr \in DramAddr THEN dram[m.addr] ELSE 0)
  /\ UNCHANGED <<bql, tcp, dram, irq>>

ServeRead ==
  LET m == Head(pend).msg IN
  /\ Serving({"VP_READ"})
  /\ m.addr \notin MmioAddr
  /\ Answer("VP_READ_RESP", "VP_OK", m.addr,
            IF m.addr \in DramAddr THEN dram[m.addr] ELSE 0)
  /\ UNCHANGED <<bql, tcp, dram, irq>>

\* mmio_bus_set_irq: raising the line of the CPU takes the BQL.
ServeIrq ==
  /\ Serving({"VP_RAISE_IRQ"})
  /\ bql = NoOwner
  /\ irq' = Head(pend).msg.data
  /\ Answer("VP_RAISE_IRQ_RESP", "VP_OK", NullAddr, 0)
  /\ UNCHANGED <<bql, tcp, dram>>

\* An access to the device's own window: under the BQL, its callback waits for
\* the mutex this thread holds.
ServeWindow ==
  /\ Serving({"VP_WRITE", "VP_READ"})
  /\ Head(pend).msg.addr \in MmioAddr
  /\ bql = NoOwner
  /\ bql' = Tcp
  /\ tcp' = "selflock"
  /\ UNCHANGED <<sockVars, pend, dram, irq>>

\* Faulty variant: the default branch drops the request.
ServeOtherSilently ==
  /\ Serving(VP_Type \ {"VP_WRITE", "VP_READ", "VP_RAISE_IRQ"})
  /\ pend' = Tail(pend)
  /\ UNCHANGED <<sockVars, bql, tcp, dram, irq>>

ServeOther ==
  /\ Serving(VP_Type \ {"VP_WRITE", "VP_READ", "VP_RAISE_IRQ"})
  /\ \E addr \in Addr, left \in Values : Answer("VP_ERROR", "VP_FAIL", addr, left)
  /\ UNCHANGED <<bql, tcp, dram, irq>>

\* Faulty variant: tcp_thread sleeps without giving the mutex up.
TcpParkLocked ==
  /\ Running
  /\ tcp = "batch"
  /\ evs = {}
  /\ pend = <<>>
  /\ tcp' = "timedwait"
  /\ UNCHANGED <<sockVars, qemu, sockFd, mutex, bql, callVars, evs, pend, dram, irq>>

\* The batch is done: the condition wait gives the mutex up.
TcpPark ==
  /\ Running
  /\ tcp = "batch"
  /\ evs = {}
  /\ pend = <<>>
  /\ mutex' = NoOwner
  /\ tcp' = "timedwait"
  /\ UNCHANGED <<sockVars, qemu, sockFd, bql, callVars, evs, pend, dram, irq>>

TcpServe == ServeWrite \/ ServeRead \/ ServeIrq \/ ServeWindow \/ ServeOther

TcpStep ==
  \/ TcpLock \/ TcpPoll \/ TcpServe \/ TcpPark
  \/ \E c \in Clients : TcpAccept(c) \/ TcpRead(c) \/ TcpReadFail(c)
=============================================================================
