---------------------------- MODULE CoSimAtomic ----------------------------
(***************************************************************************)
(* Proof that the co-simulation without initiators implements AtomicMmio:  *)
(* every step, under the mapping of CoSim, is a step of it or a stutter.   *)
(***************************************************************************)
EXTENDS CoSimProofs

\* Of one connection: at most one request is on its way ...
Short(c) == toCli[c] # <<>> => Len(toCli[c]) = 1 /\ Head(toCli[c]) \in MmioRequests
\* ... and if QEMU uses it, it is open, or its process is dead.
Live(c) == Running /\ c \in {sockFd, on} => srvEnd[c] = "open" \/ main[c] = "dead"

\* At the beginning nothing is on its way and nobody is connected.
LEMMA OrderInit == Init => OrderInv
BY DEF Init, SockInit, QemuInit, CpuInit, OrderInv, Running

\* Steps of QEMU: only a callback sends, on a connection that is silent.
LEMMA OrderQemu ==
  ASSUME IInv, OrderInv, QemuStep, UNCHANGED cpuVars
  PROVE  OrderInv'
<1> USE DEF IInv, TypeOK, SockTypeOK, QemuTypeOK, CpuTypeOK
<1> DEFINE Kept == (~Running => on = NoFd)' /\ \A c \in Clients : Short(c)' /\ Live(c)'
<1>1. SUFFICES Kept BY DEF OrderInv, Short, Live
<1>2. (~Running => on = NoFd) /\ \A c \in Clients : Short(c) /\ Live(c)
  BY DEF OrderInv, Short, Live
<1>3. UNCHANGED main BY DEF cpuVars
<1>4. pend = <<>> BY DEF TalkInv
<1>5. CASE QemuStart \/ QemuExit \/ \E c \in Clients : TcpReadFail(c)
  <2>1. ~Running' /\ on' = NoFd BY <1>5 DEF QemuStart, QemuExit, TcpReadFail, Running, Blank
  <2>2. UNCHANGED toCli BY <1>5 DEF QemuStart, QemuExit, TcpReadFail, SrvExit, sockVars
  <2> QED BY <1>2, <2>1, <2>2 DEF Short, Live
<1>6. ASSUME NEW d \in Clients, Realize(d) \/ TcpAccept(d) PROVE Kept
  <2>1. SrvAccept(d) /\ sockFd' = d /\ on' = on BY <1>6 DEF Realize, TcpAccept, callVars
  <2>2. UNCHANGED toCli /\ Running' /\ srvEnd' = [srvEnd EXCEPT ![d] = "open"]
    BY <1>6, <2>1 DEF SrvAccept, Realize, TcpAccept, Running
  <2>3. \A c \in Clients : c = on => Running
    BY <1>2, QemuAssumption
  <2> QED BY <1>2, <1>3, <2>1, <2>2, <2>3 DEF Short, Live
<1>7. ASSUME NEW v \in Vcpus, NEW r \in MmioRequests, MmioCall(v, r) PROVE Kept
  BY <1>2, <1>3, <1>7 DEF MmioCall, sockVars, Short, Live, Running
<1>8. ASSUME NEW v \in Vcpus, TransferSend(v) PROVE Kept
  <2>1. /\ on' = sockFd /\ UNCHANGED <<sockFd, qemu>> /\ Running
        /\ SrvSend(sockFd, req) /\ req \in MmioRequests
        /\ sockFd \in Clients
    BY <1>8 DEF TransferSend, LinkInv
  <2>2. UNCHANGED srvEnd BY <2>1 DEF SrvSend, sockVars
  <2>3. Silent(sockFd) BY <1>8, <2>1, NobodyCalls, AllSilent DEF TransferSend
  <2>4. ASSUME NEW c \in Clients PROVE Short(c)'
    <3>1. CASE toCli'[c] = toCli[c] BY <1>2, <3>1 DEF Short
    <3>2. CASE toCli'[c] # toCli[c]
      <4>1. c = sockFd /\ srvEnd[c] = "open" /\ toCli'[c] = Append(toCli[c], req)
        BY <2>1, <3>2 DEF SrvSend, sockVars
      <4>2. toCli[c] = <<>> BY <2>3, <4>1 DEF Silent, Gone
      <4>3. toCli[c] \in Seq(FromQemu) /\ req \in FromQemu OBVIOUS
      <4>4. Len(toCli'[c]) = 1 /\ Head(toCli'[c]) = req
        BY <4>1, <4>2, <4>3, OneElement
      <4> QED BY <2>1, <4>4 DEF Short
    <3> QED BY <3>1, <3>2
  <2> QED BY <1>2, <1>3, <2>1, <2>2, <2>4 DEF Live, Running
<1>9. ASSUME NEW v \in Vcpus, TransferRecv(v) \/ TransferFail(v) PROVE Kept
  <2>1. UNCHANGED <<toCli, srvEnd, sockFd, qemu>> /\ on' = NoFd
    BY <1>9 DEF TransferRecv, TransferFail, Return, SrvTake, SrvTakeEnd, sockVars
  <2> QED BY <1>2, <1>3, <2>1, QemuAssumption DEF Short, Live, Running
<1>10. CASE TcpLock \/ TcpPoll \/ TcpPark
  <2>1. UNCHANGED <<toCli, srvEnd, sockFd, qemu, on>>
    BY <1>10 DEF TcpLock, TcpPoll, TcpPark, EpollCollect, sockVars, callVars
  <2> QED BY <1>2, <1>3, <2>1 DEF Short, Live, Running
<1>11. ASSUME NEW d \in Clients, TcpRead(d) PROVE Kept
  <2>1. UNCHANGED <<toCli, sockFd, qemu, on>> BY <1>11 DEF TcpRead, SrvTake, SrvClose, callVars
  <2>2. CASE UNCHANGED srvEnd BY <1>2, <1>3, <2>1, <2>2 DEF Short, Live, Running
  <2>3. CASE srvEnd' # srvEnd
    <3>1. srvEnd' = [srvEnd EXCEPT ![d] = "closed"] /\ cliEnd[d] \in {"closed", "broken"}
      BY <1>11, <2>3 DEF TcpRead, SrvTake, SrvClose
    <3>2. main[d] = "dead" BY <3>1 DEF LifeInv
    <3> QED BY <1>2, <1>3, <2>1, <3>1, <3>2 DEF Short, Live, Running
  <2> QED BY <2>2, <2>3
<1>12. ~TcpServe BY <1>4, ServedTypes
<1> QED
  BY <1>5, <1>6, <1>7, <1>8, <1>9, <1>10, <1>11, <1>12 DEF QemuStep, TcpStep

\* Steps of a SystemC process: it takes its request, or dies.
LEMMA OrderClient ==
  ASSUME IInv, OrderInv, ClientStep, UNCHANGED qemuVars, Initiations = {}
  PROVE  OrderInv'
<1> USE DEF IInv, TypeOK, SockTypeOK, QemuTypeOK, CpuTypeOK
<1>1. SUFFICES \A c \in Clients : Short(c)' /\ Live(c)'
  BY DEF OrderInv, Short, Live, qemuVars, Running
<1>2. \A c \in Clients : Short(c) /\ Live(c) BY DEF OrderInv, Short, Live
<1>3. UNCHANGED <<sockFd, on, qemu>> /\ \A c \in Clients : ~Blocked(c)
  BY DEF qemuVars, TalkInv
<1>4. ASSUME NEW d \in Clients, Launch(d, Listening)
      PROVE  \A c \in Clients : Short(c)' /\ Live(c)'
  <2>1. main[d] = "unborn" /\ srvEnd[d] = "unborn"
    BY <1>4 DEF Launch, LifeInv
  <2>2. UNCHANGED toCli /\ \A c \in Clients : c # d => srvEnd'[c] = srvEnd[c] /\ main'[c] = main[c]
    BY <1>4 DEF Launch, CliConnect, sockVars
  <2>3. ~(Running /\ d \in {sockFd, on}) BY <1>2, <2>1 DEF Live
  <2> QED BY <1>2, <1>3, <2>2, <2>3 DEF Short, Live, Running
<1>5. ASSUME NEW d \in Clients, Die(d)
      PROVE  \A c \in Clients : Short(c)' /\ Live(c)'
  BY <1>2, <1>3, <1>5 DEF Die, CliClose, Short, Live, Running
<1>6. ASSUME NEW d \in Clients, ClientRecv(d)
      PROVE  \A c \in Clients : Short(c)' /\ Live(c)'
  <2>1. /\ toCli' = [toCli EXCEPT ![d] = Tail(@)] /\ toCli[d] # <<>> /\ main[d] # "dead"
        /\ UNCHANGED srvEnd /\ main' = [main EXCEPT ![d] = "tlm"]
    BY <1>6 DEF ClientRecv, CliTake
  <2>2. Tail(toCli[d]) = <<>>
    <3>1. Len(toCli[d]) = 1 BY <1>2, <2>1 DEF Short
    <3>2. toCli[d] \in Seq(FromQemu) /\ req \in FromQemu OBVIOUS
    <3> QED BY <3>1, <3>2, OneElement
  <2> QED BY <1>2, <1>3, <2>1, <2>2 DEF Short, Live, Running
<1>7. ASSUME NEW d \in Clients, main[d] = "tlm", CliSend(d, cur[d]), main' = [main EXCEPT ![d] = "wait"]
      PROVE  \A c \in Clients : Short(c)' /\ Live(c)'
  BY <1>2, <1>3, <1>7 DEF CliSend, AfterSend, Gone, Short, Live, Running
<1> QED
  BY <1>3, <1>4, <1>5, <1>6, <1>7
  DEF ClientStep, ServeStep, ClientReply, ClientGone, ClientCrash,
      InitiatorStep, InitiatorSend, InitiatorRecv

\* The invariant of the refinement.
LEMMA OrderStep ==
  ASSUME IInv, OrderInv, [Next]_vars, Initiations = {}
  PROVE  OrderInv'
<1>1. CASE QemuStep /\ UNCHANGED cpuVars BY <1>1, OrderQemu
<1>2. CASE ClientStep /\ UNCHANGED qemuVars BY <1>2, OrderClient
<1>3. CASE UNCHANGED vars
  BY <1>3 DEF vars, sockVars, qemuVars, cpuVars, OrderInv, Running
<1> QED BY <1>1, <1>2, <1>3 DEF Next

-----------------------------------------------------------------------------
(* The steps under the mapping *)

\* Who is called, is called on an open connection or is dead.
LEMMA CalledOrDead ==
  ASSUME IInv, OrderInv, InCall
  PROVE  /\ on \in Clients /\ req \in MmioRequests /\ mutex \in Vcpus
         /\ srvEnd[on] = "open" => Talking(on)
         /\ srvEnd[on] # "open" => /\ main[on] = "dead" /\ toCli[on] = <<>>
                                  /\ toSrv[on] = <<>>
<1> PICK v \in Vcpus : pc[v] = "recv" BY DEF InCall
<1>1. on \in Clients /\ req \in MmioRequests /\ mutex = v /\ Running
  BY DEF IInv, LinkInv, LockInv, TypeOK, QemuTypeOK
<1>2. srvEnd[on] = "open" => Talking(on)
  BY <1>1 DEF IInv, TalkInv, InTurn, Called
<1>3. srvEnd[on] # "open" => main[on] = "dead" /\ toSrv[on] = <<>>
  BY <1>1 DEF OrderInv, IInv, TalkInv, InTurn, Called, Silent
<1>4. main[on] = "dead" => toCli[on] = <<>> BY <1>1 DEF IInv, LifeInv
<1> QED BY <1>1, <1>2, <1>3, <1>4

\* A step in which QEMU neither sends nor returns, and SystemC does nothing.
LEMMA NoCallStep ==
  ASSUME ~InCall, ~InCall', UNCHANGED <<toCli, mem, last>>
  PROVE  UNCHANGED Atomic!amVars
BY DEF Atomic!amVars, TheCall, TheResult, Orders

\* A call ends without an answer, or QEMU does.
LEMMA GiveUpStep ==
  ASSUME ~InCall', UNCHANGED <<toCli, mem>>, last'.how # "reply"
  PROVE  Atomic!GiveUp
BY DEF Atomic!GiveUp, Atomic!Idle, Atomic!Nothing, TheCall, NoCall, TheResult, Orders

\* The send issues the request, or finds its process gone.
LEMMA SendStep ==
  ASSUME IInv, OrderInv, NEW v \in Vcpus, TransferSend(v), UNCHANGED cpuVars
  PROVE  \E c \in Clients, r \in MmioRequests : Atomic!Issue(c, r)
<1> USE DEF IInv, TypeOK, SockTypeOK, QemuTypeOK
<1> DEFINE c == sockFd
<1>1. /\ SrvSend(c, req) /\ on' = c /\ UNCHANGED <<req, last, mem, main, cur>>
      /\ c \in Clients /\ req \in MmioRequests /\ Running /\ pc'[v] = "recv"
  BY DEF TransferSend, LinkInv, cpuVars
<1>2. ~InCall /\ Silent(c)
  BY <1>1, NobodyCalls, AllSilent DEF TransferSend, InCall
<1>3. InCall' BY <1>1 DEF InCall
<1>4. UNCHANGED <<toSrv, srvEnd>> BY <1>1 DEF SrvSend, sockVars
<1>5. toSrv[c] = <<>> BY <1>2 DEF Silent
<1>6. CASE srvEnd[c] = "open" /\ ~Gone(cliEnd[c])
  <2>1. toCli[c] = <<>> BY <1>2, <1>6 DEF Silent, Gone
  <2>2. toCli' = [toCli EXCEPT ![c] = Append(@, req)] BY <1>1, <1>6 DEF SrvSend
  <2>3. toCli'[c] # <<>> /\ Head(toCli'[c]) = req
    <3>1. toCli[c] \in Seq(FromQemu) /\ req \in FromQemu BY <1>1
    <3>2. Head(Append(toCli[c], req)) = req /\ Append(toCli[c], req) # <<>>
      BY <2>1, <3>1, OneElement
    <3> QED BY <1>1, <2>2, <3>2
  <2>4. TheCall = NoCall BY <1>2 DEF TheCall
  <2>5. TheCall' = [st |-> "issued", to |-> c, req |-> req, data |-> 0]
    BY <1>1, <1>3, <2>3 DEF TheCall, CallState
  <2>6. Orders' = [Orders EXCEPT ![c] = req]
    BY <1>1, <2>2, <2>3 DEF Orders
  <2>7. TheResult' = TheResult BY <1>1 DEF TheResult
  <2>8. Atomic!Issue(c, req)
    BY <1>1, <2>4, <2>5, <2>6, <2>7 DEF Atomic!Issue, Atomic!Idle, NoCall
  <2> QED BY <1>1, <2>8
<1>7. CASE ~(srvEnd[c] = "open" /\ ~Gone(cliEnd[c]))
  <2>1. toCli' = toCli BY <1>1, <1>7 DEF SrvSend, sockVars
  <2>2. toCli[c] = <<>> /\ main[c] # "tlm"
    <3>1. CASE srvEnd[c] = "open" BY <1>1, <1>2, <1>7, <3>1 DEF Silent, Gone, LifeInv
    <3>2. CASE srvEnd[c] # "open" BY <1>1, <3>2 DEF OrderInv, LifeInv
    <3> QED BY <3>1, <3>2
  <2>4. TheCall = NoCall BY <1>2 DEF TheCall
  <2>5. TheCall' = [st |-> "lost", to |-> c, req |-> req, data |-> 0]
    BY <1>1, <1>3, <1>4, <1>5, <2>1, <2>2 DEF TheCall, CallState
  <2>6. Orders' = Orders /\ Orders = [Orders EXCEPT ![c] = Orders[c]]
    BY <2>1 DEF Orders
  <2>7. TheResult' = TheResult BY <1>1 DEF TheResult
  <2>8. Atomic!Issue(c, req)
    BY <1>1, <2>4, <2>5, <2>6, <2>7 DEF Atomic!Issue, Atomic!Idle, NoCall
  <2> QED BY <1>1, <2>8
<1> QED BY <1>6, <1>7

\* The callback receives the answer of the process that carried its request out.
LEMMA RecvStep ==
  ASSUME IInv, OrderInv, NEW v \in Vcpus, TransferRecv(v), UNCHANGED cpuVars
  PROVE  Atomic!Return
<1> USE DEF IInv, TypeOK, SockTypeOK, QemuTypeOK
<1>1. /\ pc[v] = "recv" /\ srvEnd[on] = "open" /\ toSrv[on] # <<>> /\ SrvTake(on)
      /\ Return(v, "reply", Head(toSrv[on]))
  BY DEF TransferRecv
<1>2. InCall BY <1>1 DEF InCall
<1>3. toCli[on] = <<>> BY <1>1, <1>2, CalledOrDead DEF Talking
<1>4. CallState = "done" /\ Reply(on) = Head(toSrv[on])
  BY <1>1, <1>3 DEF CallState, Reply
<1>5. TheCall.st = "done" /\ TheCall.data = IF req.type = "VP_READ" THEN Head(toSrv[on]).data ELSE 0
  BY <1>2, <1>4 DEF TheCall
<1>6. ~InCall'
  BY <1>1, QemuAssumption DEF Return, InCall, LockInv
<1>7. last'.how = "reply" /\ last'.data = IF req.type = "VP_READ" THEN Head(toSrv[on]).data ELSE 0
  BY <1>1 DEF Return
<1>8. UNCHANGED <<toCli, mem>> BY <1>1 DEF SrvTake, cpuVars
<1>9. Orders' = Orders BY <1>8 DEF Orders
<1>10. TheResult' = [answered |-> TRUE, data |-> TheCall.data]
  BY <1>5, <1>7 DEF TheResult
<1> QED BY <1>5, <1>6, <1>8, <1>9, <1>10 DEF Atomic!Return, Atomic!Idle, TheCall, NoCall

\* Every step of QEMU is one of the abstract specification, or none.
LEMMA AtomicQemu ==
  ASSUME IInv, OrderInv, QemuStep, UNCHANGED cpuVars
  PROVE  [Atomic!AMNext]_(Atomic!amVars)
<1> USE DEF IInv, TypeOK, SockTypeOK, QemuTypeOK
<1>1. UNCHANGED mem /\ pend = <<>> BY DEF cpuVars, TalkInv
<1>2. CASE QemuStart \/ QemuExit \/ \E c \in Clients : TcpReadFail(c)
  <2>1. ~InCall' /\ last'.how # "reply"
    BY <1>2 DEF QemuStart, QemuExit, TcpReadFail, Blank, InCall
  <2>2. UNCHANGED toCli BY <1>2 DEF QemuStart, QemuExit, TcpReadFail, SrvExit, sockVars
  <2> QED BY <1>1, <2>1, <2>2, GiveUpStep DEF Atomic!AMNext
<1>3. ASSUME NEW c \in Clients, Realize(c) \/ TcpAccept(c) PROVE UNCHANGED Atomic!amVars
  <2>1. UNCHANGED <<callVars, toCli>> BY <1>3 DEF Realize, TcpAccept, SrvAccept
  <2>2. ~InCall BY <1>3, NobodyCalls DEF Realize, TcpAccept, Running, InCall
  <2>3. ~InCall' BY <2>1, <2>2 DEF InCall, callVars
  <2> QED BY <1>1, <2>1, <2>2, <2>3, NoCallStep DEF callVars
<1>4. ASSUME NEW v \in Vcpus, NEW r \in MmioRequests, MmioCall(v, r)
      PROVE  [Atomic!AMNext]_(Atomic!amVars)
  <2>1. ~InCall /\ UNCHANGED toCli
    BY <1>4, NobodyCalls DEF MmioCall, InCall, sockVars
  <2>2. ~InCall' BY <1>4, <2>1 DEF MmioCall, InCall
  <2>3. CASE last' = last BY <1>1, <2>1, <2>2, <2>3, NoCallStep
  <2>4. CASE last' # last
    <3>1. last'.how # "reply" BY <1>4, <2>4 DEF MmioCall
    <3> QED BY <1>1, <2>1, <2>2, <3>1, GiveUpStep DEF Atomic!AMNext
  <2> QED BY <2>3, <2>4
<1>5. ASSUME NEW v \in Vcpus, TransferSend(v) PROVE Atomic!AMNext
  BY <1>5, SendStep DEF Atomic!AMNext
<1>6. ASSUME NEW v \in Vcpus, TransferRecv(v) PROVE Atomic!AMNext
  BY <1>6, RecvStep DEF Atomic!AMNext
<1>7. ASSUME NEW v \in Vcpus, TransferFail(v) PROVE Atomic!AMNext
  <2>1. UNCHANGED toCli BY <1>7 DEF TransferFail, SrvTakeEnd, sockVars
  <2>2. PICK how \in {"badfd", "error", "eof"}, resp \in Transfer : Return(v, how, resp)
    BY <1>7 DEF TransferFail
  <2>3. last'.how # "reply" BY <2>2 DEF Return
  <2>4. ~InCall'
    BY <1>7, <2>2, QemuAssumption DEF TransferFail, Return, InCall, LockInv
  <2> QED BY <1>1, <2>1, <2>3, <2>4, GiveUpStep DEF Atomic!AMNext
<1>8. CASE TcpLock \/ TcpPoll \/ TcpPark \/ \E c \in Clients : TcpRead(c)
  <2>1. UNCHANGED <<toCli, callVars>>
    BY <1>8 DEF TcpLock, TcpPoll, TcpPark, TcpRead, SrvTake, SrvClose, EpollCollect, sockVars
  <2>2. ~InCall
    BY <1>8, NobodyCalls DEF TcpLock, TcpPoll, TcpPark, TcpRead, InCall
  <2>3. ~InCall' BY <2>1, <2>2 DEF InCall, callVars
  <2> QED BY <1>1, <2>1, <2>2, <2>3, NoCallStep DEF callVars
<1>9. ~TcpServe BY <1>1, ServedTypes
<1> QED
  BY <1>2, <1>3, <1>4, <1>5, <1>6, <1>7, <1>8, <1>9 DEF QemuStep, TcpStep

\* Callbacks wait while SystemC works; what is on its way is all that changes.
LEMMA ClientLeaves ==
  ASSUME UNCHANGED qemuVars
  PROVE  /\ InCall' <=> InCall
         /\ UNCHANGED <<on, req, last>> /\ TheResult' = TheResult
BY DEF qemuVars, InCall, TheResult

\* All of a client that a call can see.
SameClient(c) == /\ toCli'[c] = toCli[c] /\ toSrv'[c] = toSrv[c] /\ cur'[c] = cur[c]
                 /\ main'[c] = "tlm" <=> main[c] = "tlm"

\* What happens to a client that is not in a call is not seen by the call.
LEMMA CallElsewhere ==
  ASSUME UNCHANGED qemuVars, InCall => SameClient(on)
  PROVE  TheCall' = TheCall
<1>1. (InCall' <=> InCall) /\ UNCHANGED <<on, req>> BY ClientLeaves
<1>2. CASE ~InCall BY <1>1, <1>2 DEF TheCall, NoCall
<1>3. CASE InCall
  <2>1. CallState' = CallState /\ Reply(on)' = Reply(on)
    BY <1>1, <1>3 DEF CallState, Reply, SameClient
  <2> QED BY <1>1, <1>3, <2>1 DEF TheCall
<1> QED BY <1>2, <1>3

\* The request is carried out.
LEMMA CarryOutStep ==
  ASSUME IInv, OrderInv, NEW c \in Clients, ClientRecv(c), UNCHANGED qemuVars
  PROVE  Atomic!CarryOut(c)
<1> USE DEF IInv, TypeOK, SockTypeOK, QemuTypeOK, CpuTypeOK
<1> DEFINE r == Head(toCli[c])
<1>1. /\ main[c] = "wait" /\ toCli[c] # <<>> /\ CliTake(c)
      /\ main' = [main EXCEPT ![c] = "tlm"]
  BY DEF ClientRecv
<1>2. r \in MmioRequests /\ Len(toCli[c]) = 1 BY <1>1 DEF OrderInv
<1>3. Tail(toCli[c]) = <<>>
  <2>1. toCli[c] \in Seq(FromQemu) /\ req \in FromQemu OBVIOUS
  <2> QED BY <1>2, <2>1, OneElement
<1>4. toCli' = [toCli EXCEPT ![c] = <<>>] /\ UNCHANGED toSrv BY <1>1, <1>3 DEF CliTake
<1>5. Orders[c] = r /\ r # NoTransfer
  BY <1>1, <1>2 DEF Orders, MmioRequests, NoTransfer
<1>6. Orders' = [Orders EXCEPT ![c] = NoTransfer] BY <1>4 DEF Orders
<1>7. \/ /\ r.type = "VP_WRITE" /\ mem' = [mem EXCEPT ![c][r.addr] = r.data]
      \/ r.type = "VP_READ" /\ mem' = mem
  BY <1>2 DEF ClientRecv, TlmWrite, MmioRequests
<1>8. r.type = "VP_READ" => cur'[c].data = mem[c][r.addr]
  BY <1>2 DEF ClientRecv, TlmRead, Resp
<1>9. \A d \in Clients \ {c} : cur'[d] = cur[d]
  BY <1>2, <1>7 DEF ClientRecv, Resp
<1>10. TheCall' = IF TheCall.st = "issued" /\ TheCall.to = c
                 THEN [TheCall EXCEPT !.st = "done",
                                      !.data = IF r.type = "VP_READ" THEN mem[c][r.addr] ELSE 0]
                 ELSE TheCall
  <2>1. CASE InCall /\ on = c
    <3>1. Talking(c) BY <1>1, <2>1, CalledOrDead
    <3>2. toSrv[c] = <<>> /\ req = r BY <1>1, <3>1 DEF Talking
    <3>3. TheCall = [st |-> "issued", to |-> c, req |-> req, data |-> 0]
      BY <1>1, <2>1 DEF TheCall, CallState
    <3>4. CallState' = "done" /\ Reply(on)' = cur'[c]
      BY <1>1, <1>4, <2>1, <3>2, ClientLeaves DEF CallState, Reply
    <3>5. TheCall' = [st |-> "done", to |-> c, req |-> req,
                      data |-> IF req.type = "VP_READ" THEN cur'[c].data ELSE 0]
      BY <2>1, <3>4, ClientLeaves DEF TheCall
    <3> QED BY <1>8, <3>2, <3>3, <3>5
  <2>2. CASE ~(InCall /\ on = c)
    <3>1. InCall => on \in Clients \ {c} BY <2>2, CalledOrDead
    <3>2. \A d \in Clients \ {c} : SameClient(d) BY <1>1, <1>4, <1>9 DEF SameClient
    <3>3. TheCall' = TheCall BY <3>1, <3>2, CallElsewhere
    <3>4. ~(TheCall.st = "issued" /\ TheCall.to = c)
      BY <2>2 DEF TheCall, NoCall
    <3> QED BY <3>3, <3>4
  <2> QED BY <2>1, <2>2
<1> QED
  BY <1>5, <1>6, <1>7, <1>10, ClientLeaves DEF Atomic!CarryOut

\* A process ends; with it what it had not answered.
LEMMA DieStep ==
  ASSUME IInv, OrderInv, NEW c \in Clients, Die(c), main[c] \in {"wait", "tlm"},
         UNCHANGED qemuVars
  PROVE  [Atomic!AMNext]_(Atomic!amVars)
<1> USE DEF IInv, TypeOK, SockTypeOK, QemuTypeOK, CpuTypeOK
<1>1. /\ toCli' = [toCli EXCEPT ![c] = <<>>] /\ UNCHANGED <<toSrv, mem>>
      /\ main' = [main EXCEPT ![c] = "dead"]
      /\ cur' = [cur EXCEPT ![c] = NoTransfer]
  BY DEF Die, CliClose
<1>2. Orders' = [Orders EXCEPT ![c] = NoTransfer] BY <1>1 DEF Orders
<1>3. CASE ~(InCall /\ on = c)
  <2>1. InCall => on \in Clients /\ on # c BY <1>3, CalledOrDead
  <2>2. TheCall' = TheCall
    <3>1. \A d \in Clients \ {c} : SameClient(d) BY <1>1 DEF SameClient
    <3> QED BY <2>1, <3>1, CallElsewhere
  <2>3. TheCall.to # c BY <1>3, QemuAssumption DEF TheCall, NoCall
  <2>4. Atomic!Lose(c) BY <1>1, <1>2, <2>2, <2>3, ClientLeaves DEF Atomic!Lose
  <2> QED BY <2>4 DEF Atomic!AMNext
<1>4. CASE InCall /\ on = c
  <2>1. Talking(c) /\ main[c] # "dead" BY <1>4, CalledOrDead
  <2>2. CASE toSrv[c] # <<>>
    <3>1. toCli[c] = <<>> BY <2>1, <2>2 DEF Talking
    <3>2. Orders' = Orders BY <1>1, <3>1 DEF Orders
    <3>3. CallState' = CallState /\ Reply(on)' = Reply(on)
      BY <1>1, <1>4, <2>2, <3>1, ClientLeaves DEF CallState, Reply
    <3>4. TheCall' = TheCall BY <1>4, <3>3, ClientLeaves DEF TheCall
    <3> QED BY <1>1, <3>2, <3>4, ClientLeaves DEF Atomic!amVars
  <2>3. CASE toSrv[c] = <<>>
    <3>1. CallState' = "lost" BY <1>1, <1>4, <2>3, ClientLeaves DEF CallState
    <3>2. TheCall' = [st |-> "lost", to |-> c, req |-> req, data |-> 0]
      BY <1>4, <3>1, ClientLeaves DEF TheCall
    <3>3. TheCall.to = c /\ TheCall.req = req BY <1>4 DEF TheCall
    <3>4. Atomic!Lose(c) BY <1>1, <1>2, <3>2, <3>3, ClientLeaves DEF Atomic!Lose
    <3> QED BY <3>4 DEF Atomic!AMNext
  <2> QED BY <2>2, <2>3
<1> QED BY <1>3, <1>4

\* The answer goes on its way: nothing is seen of that.
LEMMA ReplyStep ==
  ASSUME IInv, OrderInv, NEW c \in Clients, main[c] = "tlm", CliSend(c, cur[c]),
         main' = [main EXCEPT ![c] = "wait"], cur' = [cur EXCEPT ![c] = NoTransfer],
         mem' = mem, UNCHANGED qemuVars
  PROVE  UNCHANGED Atomic!amVars
<1> USE DEF IInv, TypeOK, SockTypeOK, QemuTypeOK, CpuTypeOK
<1>1. toCli' = toCli BY DEF CliSend
<1>2. Orders' = Orders BY <1>1 DEF Orders
<1>3. TheCall' = TheCall
  <2>1. CASE ~(InCall /\ on = c)
    <3>1. InCall => on \in Clients /\ on # c BY <2>1, CalledOrDead
    <3>2. \A d \in Clients \ {c} : SameClient(d) BY <1>1 DEF CliSend, SameClient
    <3> QED BY <3>1, <3>2, CallElsewhere
  <2>2. CASE InCall /\ on = c
    <3>1. srvEnd[c] = "open" /\ Talking(c) BY <2>2, CalledOrDead
    <3>2. toCli[c] = <<>> /\ toSrv[c] = <<>> BY <3>1 DEF Talking
    <3>3. toSrv' = [toSrv EXCEPT ![c] = Append(@, cur[c])] BY <3>1 DEF CliSend, Gone
    <3>4. toSrv'[c] # <<>> /\ Head(toSrv'[c]) = cur[c]
      <4>1. toSrv[c] \in Seq(Transfer) /\ cur[c] \in Transfer OBVIOUS
      <4> QED BY <3>2, <3>3, <4>1, OneElement
    <3>5. CallState = "done" /\ Reply(on) = cur[c]
      BY <2>2, <3>2 DEF CallState, Reply
    <3>6. CallState' = "done" /\ Reply(on)' = cur[c]
      BY <1>1, <2>2, <3>2, <3>4, ClientLeaves DEF CallState, Reply
    <3> QED BY <2>2, <3>5, <3>6, ClientLeaves DEF TheCall
  <2> QED BY <2>1, <2>2
<1> QED BY <1>2, <1>3, ClientLeaves DEF Atomic!amVars

\* So is every step of a SystemC process.
LEMMA AtomicClient ==
  ASSUME IInv, OrderInv, ClientStep, UNCHANGED qemuVars, Initiations = {}
  PROVE  [Atomic!AMNext]_(Atomic!amVars)
<1> USE DEF IInv, TypeOK, SockTypeOK, QemuTypeOK, CpuTypeOK
<1>1. \A c \in Clients : ~Blocked(c) BY DEF TalkInv
<1>2. ASSUME NEW c \in Clients, Launch(c, Listening) PROVE UNCHANGED Atomic!amVars
  <2>1. UNCHANGED <<toCli, toSrv, cur, mem>> /\ \A d \in Clients : d # c => main'[d] = main[d]
    BY <1>2 DEF Launch, CliConnect, sockVars
  <2>2. main[c] # "tlm" /\ main'[c] # "tlm" BY <1>2 DEF Launch
  <2>3. InCall => on \in Clients BY CalledOrDead
  <2>4. \A d \in Clients : SameClient(d) BY <2>1, <2>2 DEF SameClient
  <2>5. TheCall' = TheCall BY <2>3, <2>4, CallElsewhere
  <2> QED BY <2>1, <2>5, ClientLeaves DEF Atomic!amVars, Orders
<1>3. ASSUME NEW c \in Clients, ClientRecv(c) PROVE Atomic!AMNext
  BY <1>3, CarryOutStep DEF Atomic!AMNext
<1>4. ASSUME NEW c \in Clients, ClientReply(c) PROVE [Atomic!AMNext]_(Atomic!amVars)
  BY <1>4, DieStep, ReplyStep DEF ClientReply
<1>5. ASSUME NEW c \in Clients, ClientGone(c) \/ ClientCrash(c)
      PROVE  [Atomic!AMNext]_(Atomic!amVars)
  BY <1>5, DieStep DEF ClientGone, ClientCrash
<1> QED
  BY <1>1, <1>2, <1>3, <1>4, <1>5
  DEF ClientStep, ServeStep, InitiatorStep, InitiatorSend, InitiatorRecv

-----------------------------------------------------------------------------
(* The theorem *)

\* Without initiators on the SystemC side, sockets, locks, threads, crashes and
\* restarts together behave like accesses that SystemC carries out one at a
\* time and at most once; an access that got an answer was carried out exactly
\* once, between its call and its return.  (mmio_bus_read, mmio_bus_write.)
THEOREM AccessesAreAtomic ==
  ASSUME Initiations = {} PROVE Spec => ImplementsAtomicMmio
<1>1. Init => Atomic!AMInit
  BY DEF Init, SockInit, QemuInit, CpuInit, Atomic!AMInit, Atomic!Idle, Atomic!Nothing,
         Orders, TheCall, NoCall, TheResult, InCall
<1>2. IInv /\ OrderInv /\ [Next]_vars => OrderInv' BY OrderStep
<1>3. IInv /\ OrderInv /\ [Next]_vars => [Atomic!AMNext]_(Atomic!amVars)
  <2> SUFFICES ASSUME IInv, OrderInv, [Next]_vars PROVE [Atomic!AMNext]_(Atomic!amVars)
    OBVIOUS
  <2>1. CASE QemuStep /\ UNCHANGED cpuVars BY <2>1, AtomicQemu
  <2>2. CASE ClientStep /\ UNCHANGED qemuVars BY <2>2, AtomicClient
  <2>3. CASE UNCHANGED vars
    <3>1. UNCHANGED <<toCli, toSrv, main, cur, mem>> /\ UNCHANGED qemuVars
      BY <2>3 DEF vars, sockVars, cpuVars
    <3>2. SameClient(on) BY <3>1 DEF SameClient
    <3>3. UNCHANGED <<Orders, TheCall>>
      BY <3>1, <3>2, CallElsewhere DEF Orders
    <3> QED BY <3>1, <3>3, ClientLeaves DEF Atomic!amVars
  <2> QED BY <2>1, <2>2, <2>3 DEF Next
<1> QED BY <1>1, <1>2, <1>3, OrderInit, Invariant, PTL
        DEF Spec, ImplementsAtomicMmio, Atomic!AMSpec
=============================================================================
