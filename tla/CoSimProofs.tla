---------------------------- MODULE CoSimProofs ----------------------------
(***************************************************************************)
(* Proofs about CoSim for any sets of SystemC processes, vCPUs, addresses  *)
(* and values.                                                             *)
(***************************************************************************)
EXTENDS CoSim, SequenceTheorems, FiniteSetTheorems, TLAPS

-----------------------------------------------------------------------------
(* The sockets *)

\* What stands for no transfer has the type of one.
LEMMA NoTransferType == NoTransfer \in FromQemu /\ NoTransfer \in Transfer
BY AddrAssumption DEF NoTransfer, FromQemu, Transfer, Addr, VP_Type

\* So has the request of a callback.
LEMMA MmioRequestType ==
  ASSUME NEW r \in MmioRequests
  PROVE  r \in FromQemu /\ r \in Transfer
BY DEF MmioRequests, FromQemu, Transfer, VP_Type, Addr

\* The calls of a client keep the types of the sockets.
LEMMA CliTypes ==
  ASSUME SockTypeOK, NEW c \in Clients, NEW t \in Transfer,
         \/ CliConnect(c) \/ CliSend(c, t) \/ CliClose(c)
         \/ CliTake(c) /\ toCli[c] # <<>>
  PROVE  SockTypeOK'
<1>1. CASE CliConnect(c) BY <1>1 DEF SockTypeOK, CliConnect, Ends
<1>2. CASE CliSend(c, t)
  BY <1>2 DEF SockTypeOK, CliSend, AfterSend, Gone, Ends
<1>3. CASE CliClose(c)
  BY <1>3 DEF SockTypeOK, CliClose, CloseWith, Ends
<1>4. CASE CliTake(c) /\ toCli[c] # <<>>
  BY <1>4 DEF SockTypeOK, CliTake
<1> QED BY <1>1, <1>2, <1>3, <1>4

\* So do the calls of QEMU.
LEMMA SrvTypes ==
  ASSUME SockTypeOK, NEW c \in Clients, NEW t \in FromQemu,
         \/ SrvAccept(c) \/ SrvSend(c, t) \/ SrvTakeEnd(c) \/ SrvClose(c)
         \/ SrvTake(c) /\ toSrv[c] # <<>>
  PROVE  SockTypeOK'
<1>1. CASE SrvAccept(c) BY <1>1 DEF SockTypeOK, SrvAccept, Ends
<1>2. CASE SrvSend(c, t)
  <2>1. CASE srvEnd[c] # "open" BY <1>2, <2>1 DEF SockTypeOK, SrvSend, sockVars
  <2>2. CASE srvEnd[c] = "open"
    <3>1. toCli' \in [Clients -> Seq(FromQemu)]
      <4>1. CASE Gone(cliEnd[c]) BY <1>2, <2>2, <4>1 DEF SockTypeOK, SrvSend
      <4>2. CASE ~Gone(cliEnd[c]) 
        <5>1. toCli' = [toCli EXCEPT ![c] = Append(@, t)] BY <1>2, <2>2, <4>2 DEF SrvSend
        <5>2. Append(toCli[c], t) \in Seq(FromQemu) BY DEF SockTypeOK
        <5> QED BY <5>1, <5>2 DEF SockTypeOK
      <4> QED BY <4>1, <4>2
    <3>2. cliEnd' \in [Clients -> Ends]
      BY <1>2, <2>2 DEF SockTypeOK, SrvSend, AfterSend, Gone, Ends
    <3>3. edge' \in [Clients -> BOOLEAN] /\ UNCHANGED <<toSrv, srvEnd>>
      BY <1>2, <2>2 DEF SockTypeOK, SrvSend
    <3> QED BY <3>1, <3>2, <3>3 DEF SockTypeOK
  <2> QED BY <2>1, <2>2
<1>3. CASE SrvTakeEnd(c) BY <1>3 DEF SockTypeOK, SrvTakeEnd, AfterRecv, Ends
<1>4. CASE SrvClose(c) BY <1>4 DEF SockTypeOK, SrvClose, Ends
<1>5. CASE SrvTake(c) /\ toSrv[c] # <<>> BY <1>5 DEF SockTypeOK, SrvTake
<1> QED BY <1>1, <1>2, <1>3, <1>4, <1>5

\* The end of QEMU, and what epoll collects, keep the types of the sockets.
LEMMA SrvAllTypes ==
  ASSUME SockTypeOK, NEW E, SrvExit \/ EpollCollect(E)
  PROVE  SockTypeOK'
<1>1. CASE SrvExit BY <1>1 DEF SockTypeOK, SrvExit, CloseWith, Ends
<1>2. CASE EpollCollect(E) BY <1>2 DEF SockTypeOK, EpollCollect, Readable, Gone
<1> QED BY <1>1, <1>2

-----------------------------------------------------------------------------
(* Types *)

\* What a QEMU that starts or ends is left with.
LEMMA BlankTypes ==
  ASSUME QemuTypeOK, Blank, UNCHANGED <<dram, irq>>,
         qemu' \in {"off", "realize", "running", "exited", "failed"}
  PROVE  QemuTypeOK'
BY NoTransferType, AddrAssumption DEF QemuTypeOK, Blank, Outcomes

\* The end of a callback.
LEMMA ReturnTypes ==
  ASSUME QemuTypeOK, NEW v \in Vcpus, NEW resp \in Transfer,
         NEW how \in {"reply", "eof", "error", "badfd"}, Return(v, how, resp)
  PROVE  QemuTypeOK'
<1>1. resp.data \in Values /\ 0 \in Values BY AddrAssumption DEF Transfer
<1>2. last' \in Outcomes BY <1>1 DEF Return, Outcomes
<1>3. /\ mutex' \in Vcpus \cup {Tcp, NoOwner} /\ bql' \in Vcpus \cup {Tcp, NoOwner}
      /\ pc' \in [Vcpus -> {"idle", "lock", "recv"}]
      /\ req' \in FromQemu /\ on' \in Clients \cup {NoFd}
  BY NoTransferType DEF Return, QemuTypeOK
<1> QED BY <1>2, <1>3 DEF Return, QemuTypeOK, tcpVars

\* An answer of tcp_thread.
LEMMA AnswerTypes ==
  ASSUME SockTypeOK, pend \in Seq(Pended), pend # <<>>,
         NEW type \in VP_Type \ {"VP_WRITE", "VP_READ"}, NEW status \in {"VP_OK", "VP_FAIL"},
         NEW addr \in Addr, NEW data \in Values,
         Answer(type, status, addr, data)
  PROVE  SockTypeOK' /\ pend' \in Seq(Pended)
<1> DEFINE t == [type |-> type, status |-> status, addr |-> addr, data |-> data]
<1>1. t \in FromQemu BY DEF FromQemu, Transfer, VP_Type
<1>2. Head(pend) \in Pended OBVIOUS
<1>3. Head(pend).fd \in Clients BY <1>2 DEF Pended
<1>4. SrvSend(Head(pend).fd, t) /\ pend' = Tail(pend) BY DEF Answer
<1>5. SockTypeOK'
  <2> HIDE DEF t
  <2> QED BY <1>1, <1>3, <1>4, SrvTypes
<1> QED BY <1>4, <1>5

\* What tcp_thread serves, and what it answers.
LEMMA ServedTypes ==
  ASSUME QemuTypeOK, TcpServe
  PROVE  /\ pend # <<>> /\ pend \in Seq(Pended)
         /\ Head(pend).fd \in Clients /\ Head(pend).msg \in Transfer
         /\ \/ ServeWindow
            \/ \E type \in VP_Type \ {"VP_WRITE", "VP_READ"}, status \in {"VP_OK", "VP_FAIL"},
                  addr \in Addr, data \in Values : Answer(type, status, addr, data)
<1> DEFINE m == Head(pend).msg
           Answered == \E type \in VP_Type \ {"VP_WRITE", "VP_READ"},
                          status \in {"VP_OK", "VP_FAIL"}, addr \in Addr, data \in Values :
                         Answer(type, status, addr, data)
<1>1. pend # <<>>
  BY DEF TcpServe, ServeWrite, ServeRead, ServeIrq, ServeWindow, ServeOther, Serving
<1>2. pend \in Seq(Pended) BY DEF QemuTypeOK
<1>3. Head(pend) \in Pended BY <1>1, <1>2
<1>4. Head(pend).fd \in Clients /\ m \in Transfer BY <1>3 DEF Pended
<1>5. m.addr \in Addr /\ m.data \in Values /\ 0 \in Values /\ NullAddr \in Addr
  BY <1>4, AddrAssumption DEF Transfer, Addr
<1>6. (IF m.addr \in DramAddr THEN dram[m.addr] ELSE 0) \in Values
  BY <1>5 DEF QemuTypeOK
<1>7. ASSUME ServeWrite PROVE Answered BY <1>7, <1>5 DEF ServeWrite, VP_Type
<1>8. ASSUME ServeRead PROVE Answered BY <1>8, <1>5, <1>6 DEF ServeRead, VP_Type
<1>9. ASSUME ServeIrq PROVE Answered BY <1>9, <1>5 DEF ServeIrq, VP_Type
<1>10. ASSUME ServeOther PROVE Answered BY <1>10 DEF ServeOther, VP_Type
<1> QED BY <1>1, <1>2, <1>4, <1>7, <1>8, <1>9, <1>10 DEF TcpServe

\* Every step of QEMU keeps the types.
LEMMA QemuTypes ==
  ASSUME TypeOK, LockInv, LinkInv, QemuStep
  PROVE  SockTypeOK' /\ QemuTypeOK'
<1> USE DEF TypeOK
<1>1. CASE QemuStart
  <2>1. SockTypeOK' BY <1>1 DEF QemuStart, SockTypeOK, sockVars
  <2>2. QemuTypeOK'
    BY <1>1, NoTransferType, AddrAssumption DEF QemuStart, QemuTypeOK, Blank, Outcomes
  <2> QED BY <2>1, <2>2
<1>2. CASE QemuExit
  BY <1>2, SrvAllTypes, BlankTypes DEF QemuExit
<1>3. ASSUME NEW c \in Clients, Realize(c) PROVE SockTypeOK' /\ QemuTypeOK'
  BY <1>3, SrvTypes, NoTransferType DEF Realize, QemuTypeOK, callVars, tcpVars
<1>4. ASSUME NEW v \in Vcpus, NEW r \in MmioRequests, MmioCall(v, r)
      PROVE  SockTypeOK' /\ QemuTypeOK'
  <2>1. SockTypeOK' BY <1>4 DEF MmioCall, SockTypeOK, sockVars
  <2>2. r \in FromQemu BY MmioRequestType
  <2>3. QemuTypeOK'
    <3>1. CASE ClientIsConnect
      <4>1. /\ bql' = v /\ pc' = [pc EXCEPT ![v] = "lock"] /\ req' = r
            /\ UNCHANGED <<last, qemu, sockFd, mutex, on, tcp, evs, pend, dram, irq>>
        BY <1>4, <3>1 DEF MmioCall, tcpVars
      <4> QED BY <2>2, <4>1 DEF QemuTypeOK
    <3>2. CASE ~ClientIsConnect
      <4>1. /\ last' = [how |-> "unlinked", ok |-> FALSE, data |-> 0]
            /\ UNCHANGED <<bql, pc, req, qemu, sockFd, mutex, on, tcp, evs, pend, dram, irq>>
        BY <1>4, <3>2 DEF MmioCall, tcpVars
      <4>2. last' \in Outcomes BY <4>1, AddrAssumption DEF Outcomes
      <4> QED BY <4>1, <4>2 DEF QemuTypeOK
    <3> QED BY <3>1, <3>2
  <2> QED BY <2>1, <2>3
<1>5. ASSUME NEW v \in Vcpus, TransferSend(v) PROVE SockTypeOK' /\ QemuTypeOK'
  <2>1. sockFd \in Clients /\ req \in FromQemu
    BY <1>5 DEF TransferSend, LinkInv, QemuTypeOK
  <2>2. SockTypeOK' BY <1>5, <2>1, SrvTypes DEF TransferSend
  <2>3. QemuTypeOK' BY <1>5, <2>1 DEF TransferSend, QemuTypeOK, tcpVars
  <2> QED BY <2>2, <2>3
<1>6. ASSUME NEW v \in Vcpus, TransferRecv(v) PROVE SockTypeOK' /\ QemuTypeOK'
  <2>1. on \in Clients BY <1>6 DEF TransferRecv, LinkInv
  <2>2. SockTypeOK' BY <1>6, <2>1, SrvTypes, NoTransferType DEF TransferRecv
  <2>3. Head(toSrv[on]) \in Transfer BY <1>6, <2>1 DEF TransferRecv, SockTypeOK
  <2>4. QemuTypeOK' BY <1>6, <2>3, ReturnTypes DEF TransferRecv
  <2> QED BY <2>2, <2>4
<1>7. ASSUME NEW v \in Vcpus, TransferFail(v) PROVE SockTypeOK' /\ QemuTypeOK'
  <2>1. on \in Clients BY <1>7 DEF TransferFail, LinkInv
  <2>2. SockTypeOK'
    BY <1>7, <2>1, SrvTypes, NoTransferType DEF TransferFail, SockTypeOK, sockVars
  <2>3. QemuTypeOK' BY <1>7, ReturnTypes DEF TransferFail
  <2> QED BY <2>2, <2>3
<1>8. CASE TcpLock
  BY <1>8 DEF TcpLock, SockTypeOK, sockVars, QemuTypeOK, callVars
<1>9. CASE TcpPoll
  <2>1. PICK E \in SUBSET ReadyFds : evs' = E /\ EpollCollect(E)
    BY <1>9 DEF TcpPoll
  <2>2. SockTypeOK' BY <2>1, SrvAllTypes
  <2>3. E \in SUBSET (Clients \cup {Listener})
    BY <2>1 DEF ReadyFds, Ready
  <2> QED BY <1>9, <2>1, <2>2, <2>3 DEF TcpPoll, QemuTypeOK, callVars
<1>10. ASSUME NEW c \in Clients, TcpAccept(c) PROVE SockTypeOK' /\ QemuTypeOK'
  BY <1>10, SrvTypes, NoTransferType DEF TcpAccept, QemuTypeOK, callVars
<1>11. ASSUME NEW c \in Clients, TcpRead(c) PROVE SockTypeOK' /\ QemuTypeOK'
  <2>1. CASE toSrv[c] # <<>>
    <3>1. SockTypeOK' BY <1>11, <2>1, SrvTypes, NoTransferType DEF TcpRead
    <3>2. Head(toSrv[c]) \in Transfer BY <2>1 DEF SockTypeOK
    <3>3. pend' \in Seq(Pended)
      <4>1. pend' = Append(pend, [fd |-> c, msg |-> Head(toSrv[c])])
        BY <1>11, <2>1 DEF TcpRead
      <4>2. [fd |-> c, msg |-> Head(toSrv[c])] \in Pended
        BY <3>2 DEF Pended
      <4> QED BY <4>1, <4>2 DEF QemuTypeOK
    <3> QED BY <1>11, <3>1, <3>3 DEF TcpRead, QemuTypeOK, callVars
  <2>2. CASE toSrv[c] = <<>>
    BY <1>11, <2>2, SrvTypes, NoTransferType DEF TcpRead, QemuTypeOK, callVars
  <2> QED BY <2>1, <2>2
<1>12. ASSUME NEW c \in Clients, TcpReadFail(c) PROVE SockTypeOK' /\ QemuTypeOK'
  BY <1>12, SrvAllTypes, BlankTypes DEF TcpReadFail
<1>13. CASE TcpServe
  <2> DEFINE m == Head(pend).msg
  <2>1. SockTypeOK' /\ pend' \in Seq(Pended)
    <3>1. CASE ServeWindow
      BY <3>1 DEF ServeWindow, SockTypeOK, sockVars, QemuTypeOK
    <3>2. CASE ~ServeWindow BY <1>13, <3>2, ServedTypes, AnswerTypes
    <3> QED BY <3>1, <3>2
  <2>2. m.data \in Values BY <1>13, ServedTypes DEF Transfer
  <2>3. dram' \in [DramAddr -> Values] /\ irq' \in Values
    BY <1>13, <2>2 DEF TcpServe, ServeWrite, ServeRead, ServeIrq, ServeWindow, ServeOther,
                       QemuTypeOK
  <2>4. bql' \in {bql, Tcp} /\ tcp' \in {tcp, "selflock"}
    BY <1>13 DEF TcpServe, ServeWrite, ServeRead, ServeIrq, ServeWindow, ServeOther
  <2>5. UNCHANGED <<qemu, sockFd, mutex, callVars, evs>>
    BY <1>13 DEF TcpServe, ServeWrite, ServeRead, ServeIrq, ServeWindow, ServeOther, Serving
  <2> QED BY <2>1, <2>3, <2>4, <2>5 DEF QemuTypeOK, callVars
<1>14. CASE TcpPark
  BY <1>14 DEF TcpPark, SockTypeOK, sockVars, QemuTypeOK, callVars
<1> QED
  BY <1>1, <1>2, <1>3, <1>4, <1>5, <1>6, <1>7, <1>8, <1>9, <1>10, <1>11, <1>12, <1>13, <1>14
  DEF QemuStep, TcpStep

\* The end of a SystemC process.
LEMMA DieTypes ==
  ASSUME SockTypeOK, CpuTypeOK, NEW c \in Clients, Die(c)
  PROVE  SockTypeOK' /\ CpuTypeOK'
<1>1. SockTypeOK' BY CliTypes, NoTransferType DEF Die
<1>2. CpuTypeOK' BY NoTransferType DEF Die, CpuTypeOK
<1> QED BY <1>1, <1>2

\* So does every step of a SystemC process.
LEMMA ClientTypes ==
  ASSUME TypeOK, ClientStep
  PROVE  SockTypeOK' /\ CpuTypeOK'
<1> USE DEF TypeOK
<1>1. ASSUME NEW c \in Clients, Launch(c, Listening) PROVE SockTypeOK' /\ CpuTypeOK'
  <2>1. SockTypeOK'
    BY <1>1, CliTypes, NoTransferType DEF Launch, sockVars, SockTypeOK
  <2> QED BY <1>1, <2>1 DEF Launch, CpuTypeOK
<1>2. ASSUME NEW c \in Clients, ClientRecv(c) PROVE SockTypeOK' /\ CpuTypeOK'
  <2> DEFINE r == Head(toCli[c])
  <2>1. SockTypeOK' BY <1>2, CliTypes, NoTransferType DEF ClientRecv
  <2>2. r \in FromQemu BY <1>2 DEF ClientRecv, SockTypeOK
  <2>3. r.addr \in Addr /\ r.data \in Values BY <2>2 DEF FromQemu, Transfer
  <2>4. r.type \in {"VP_WRITE", "VP_READ"} => r.addr \in MmioAddr BY <2>2 DEF FromQemu
  <2>5. PICK addr \in Addr, left \in Values :
          CASE r.type = "VP_WRITE" ->
                 /\ addr = r.addr
                 /\ mem' = [mem EXCEPT ![c][r.addr] = r.data]
                 /\ Resp(c, "VP_WRITE_RESP", "VP_OK", addr, left)
            [] r.type = "VP_READ" ->
                 /\ addr = r.addr /\ left = mem[c][r.addr]
                 /\ Resp(c, "VP_READ_RESP", "VP_OK", addr, left)
                 /\ UNCHANGED mem
            [] OTHER ->
                 /\ Resp(c, "VP_ERROR", "VP_FAIL", addr, left)
                 /\ UNCHANGED mem
    BY <1>2 DEF ClientRecv, TlmWrite, TlmRead
  <2>6. \E type \in VP_Type, status \in {"VP_OK", "VP_FAIL"} : Resp(c, type, status, addr, left)
    BY <2>5 DEF VP_Type
  <2>7. cur' \in [Clients -> Transfer]
    <3>1. PICK type \in VP_Type, status \in {"VP_OK", "VP_FAIL"} : Resp(c, type, status, addr, left)
      BY <2>6
    <3>2. [type |-> type, status |-> status, addr |-> addr, data |-> left] \in Transfer
      BY DEF Transfer
    <3> QED BY <3>1, <3>2 DEF Resp, CpuTypeOK
  <2>8. mem' \in [Clients -> [MmioAddr -> Values]]
    <3>1. CASE r.type = "VP_WRITE"
      <4>1. mem' = [mem EXCEPT ![c][r.addr] = r.data] BY <2>5, <3>1
      <4> QED BY <2>3, <4>1 DEF CpuTypeOK
    <3>2. CASE r.type # "VP_WRITE" BY <2>5, <3>2 DEF CpuTypeOK
    <3> QED BY <3>1, <3>2
  <2> QED BY <1>2, <2>1, <2>7, <2>8 DEF ClientRecv, TlmWrite, TlmRead, CpuTypeOK
<1>3. ASSUME NEW c \in Clients, ClientReply(c) PROVE SockTypeOK' /\ CpuTypeOK'
  <2>1. CASE srvEnd[c] = "broken" BY <1>3, <2>1, DieTypes DEF ClientReply
  <2>2. CASE srvEnd[c] # "broken"
    <3>1. cur[c] \in Transfer BY DEF CpuTypeOK
    <3>2. SockTypeOK' BY <1>3, <2>2, <3>1, CliTypes DEF ClientReply
    <3> QED BY <1>3, <2>2, <3>2, NoTransferType DEF ClientReply, CpuTypeOK
  <2> QED BY <2>1, <2>2
<1>4. ASSUME NEW c \in Clients, ClientGone(c) \/ ClientCrash(c)
      PROVE  SockTypeOK' /\ CpuTypeOK'
  BY <1>4, DieTypes DEF ClientGone, ClientCrash
<1>5. ASSUME NEW c \in Clients, InitiatorSend(c) PROVE SockTypeOK' /\ CpuTypeOK'
  <2>1. PICK t \in Initiations :
          IF srvEnd[c] = "broken"
          THEN Die(c)
          ELSE /\ CliSend(c, t)
               /\ asked' = [asked EXCEPT ![c] = t]
               /\ UNCHANGED <<main, cur, mem>>
    BY <1>5 DEF InitiatorSend
  <2>2. t \in Transfer BY InitiatorAssumption
  <2>3. CASE srvEnd[c] = "broken" BY <2>1, <2>3, DieTypes
  <2>4. CASE srvEnd[c] # "broken" BY <2>1, <2>2, <2>4, CliTypes DEF CpuTypeOK
  <2> QED BY <2>3, <2>4
<1>6. ASSUME NEW c \in Clients, InitiatorRecv(c) PROVE SockTypeOK' /\ CpuTypeOK'
  <2>1. SockTypeOK'
    <3>1. CASE toCli[c] # <<>> /\ CliTake(c) BY <3>1, CliTypes, NoTransferType
    <3>2. CASE /\ srvEnd' = [srvEnd EXCEPT ![c] = AfterRecv(@)]
               /\ UNCHANGED <<toSrv, toCli, cliEnd, edge>>
      BY <3>2 DEF SockTypeOK, AfterRecv, Ends
    <3> QED BY <1>6, <3>1, <3>2 DEF InitiatorRecv
  <2> QED BY <1>6, <2>1, NoTransferType DEF InitiatorRecv, CpuTypeOK
<1> QED BY <1>1, <1>2, <1>3, <1>4, <1>5, <1>6 DEF ClientStep, ServeStep, InitiatorStep

-----------------------------------------------------------------------------
(* Locks, and what the threads hold on to *)

\* Steps of QEMU and the two locks.
LEMMA QemuLocks ==
  ASSUME TypeOK, LockInv, QemuStep
  PROVE  LockInv'
<1> USE QemuAssumption DEF TypeOK, QemuTypeOK, LockInv, Running
<1>1. CASE QemuStart \/ QemuExit \/ \E c \in Clients : TcpReadFail(c)
  BY <1>1 DEF QemuStart, QemuExit, TcpReadFail, Blank
<1>2. ASSUME NEW c \in Clients, Realize(c) PROVE LockInv'
  BY <1>2 DEF Realize, callVars, tcpVars
<1>3. ASSUME NEW v \in Vcpus, NEW r \in MmioRequests, MmioCall(v, r) PROVE LockInv'
  BY <1>3 DEF MmioCall, tcpVars
<1>4. ASSUME NEW v \in Vcpus, TransferSend(v) PROVE LockInv'
  BY <1>4 DEF TransferSend, tcpVars
<1>5. ASSUME NEW v \in Vcpus, TransferRecv(v) \/ TransferFail(v) PROVE LockInv'
  BY <1>5 DEF TransferRecv, TransferFail, Return, tcpVars
<1>6. CASE TcpLock BY <1>6 DEF TcpLock, callVars
<1>7. CASE TcpPoll BY <1>7 DEF TcpPoll, callVars
<1>8. ASSUME NEW c \in Clients, TcpAccept(c) \/ TcpRead(c) PROVE LockInv'
  BY <1>8 DEF TcpAccept, TcpRead, callVars
<1>9. CASE TcpServe
  BY <1>9 DEF TcpServe, ServeWrite, ServeRead, ServeIrq, ServeWindow, ServeOther,
              Serving, callVars
<1>10. CASE TcpPark BY <1>10 DEF TcpPark, callVars
<1> QED
  BY <1>1, <1>2, <1>3, <1>4, <1>5, <1>6, <1>7, <1>8, <1>9, <1>10 DEF QemuStep, TcpStep

\* Steps of QEMU and the descriptors.
LEMMA QemuLinks ==
  ASSUME TypeOK, LockInv, LinkInv, QemuStep
  PROVE  LinkInv'
<1> USE QemuAssumption DEF TypeOK, QemuTypeOK, SockTypeOK, LockInv, LinkInv, Running
<1>1. CASE QemuStart \/ QemuExit \/ \E c \in Clients : TcpReadFail(c)
  <2>1. /\ qemu' # "running" /\ evs' = {} /\ \A v \in Vcpus : pc'[v] = "idle"
    BY <1>1 DEF QemuStart, QemuExit, TcpReadFail, Blank
  <2>2. CASE QemuStart
    <3>1. ~Running /\ UNCHANGED srvEnd BY <2>2 DEF QemuStart, Listening, sockVars
    <3> QED BY <2>1, <3>1
  <2>3. CASE SrvExit
    <3>1. \A c \in Clients : srvEnd'[c] # "open" BY <2>3 DEF SrvExit, CloseWith
    <3> QED BY <2>1, <3>1
  <2> QED BY <1>1, <2>2, <2>3 DEF QemuExit, TcpReadFail
<1>2. ASSUME NEW c \in Clients, Realize(c) PROVE LinkInv'
  BY <1>2 DEF Realize, SrvAccept, callVars, tcpVars
<1>3. ASSUME NEW v \in Vcpus, NEW r \in MmioRequests, MmioCall(v, r) PROVE LinkInv'
  BY <1>3 DEF MmioCall, tcpVars, sockVars
<1>4. ASSUME NEW v \in Vcpus, TransferSend(v) PROVE LinkInv'
  BY <1>4 DEF TransferSend, SrvSend, tcpVars, sockVars
<1>5. ASSUME NEW v \in Vcpus, TransferRecv(v) \/ TransferFail(v) PROVE LinkInv'
  <2>1. mutex = v /\ bql = v BY <1>5 DEF TransferRecv, TransferFail
  <2>2. /\ pc' = [pc EXCEPT ![v] = "idle"] /\ UNCHANGED <<qemu, sockFd, evs>>
    BY <1>5 DEF TransferRecv, TransferFail, Return, tcpVars
  <2>3. \A w \in Vcpus : pc'[w] = "idle" BY <2>1, <2>2
  <2>4. UNCHANGED srvEnd
    BY <1>5 DEF TransferRecv, TransferFail, SrvTake, SrvTakeEnd, sockVars
  <2> QED BY <2>2, <2>3, <2>4
<1>6. CASE TcpLock BY <1>6 DEF TcpLock, callVars, sockVars
<1>7. CASE TcpPoll
  BY <1>7 DEF TcpPoll, EpollCollect, ReadyFds, Ready, Readable, callVars
<1>8. ASSUME NEW c \in Clients, TcpAccept(c) \/ TcpRead(c) PROVE LinkInv'
  BY <1>8 DEF TcpAccept, SrvAccept, TcpRead, SrvTake, SrvClose, callVars
<1>9. CASE TcpServe
  BY <1>9, ZenonT(30) DEF TcpServe, ServeWrite, ServeRead, ServeIrq, ServeWindow, ServeOther,
                        Serving, Answer, SrvSend, sockVars, callVars
<1>10. CASE TcpPark BY <1>10 DEF TcpPark, callVars, sockVars
<1> QED
  BY <1>1, <1>2, <1>3, <1>4, <1>5, <1>6, <1>7, <1>8, <1>9, <1>10 DEF QemuStep, TcpStep

\* A client touches none of it: its sends and its end keep QEMU's descriptor.
LEMMA ClientLinks ==
  ASSUME TypeOK, LockInv, LinkInv, LifeInv, ClientStep, UNCHANGED qemuVars
  PROVE  LockInv' /\ LinkInv'
<1>1. LockInv' BY DEF LockInv, Running, qemuVars
<1>2. ASSUME NEW c \in Clients PROVE srvEnd[c] = "open" <=> srvEnd'[c] = "open"
  <2> USE DEF TypeOK, SockTypeOK
  <2>1. ASSUME NEW d \in Clients, Launch(d, Listening) PROVE srvEnd[c] = "open" <=> srvEnd'[c] = "open"
    BY <2>1 DEF Launch, CliConnect, LifeInv, sockVars
  <2>2. ASSUME NEW d \in Clients, ServeStep(d) \/ ClientCrash(d) PROVE srvEnd[c] = "open" <=> srvEnd'[c] = "open"
    BY <2>2 DEF ServeStep, ClientRecv, ClientReply, ClientGone, ClientCrash, Die,
                CliSend, CliTake, CliClose, AfterSend, Gone
  <2>3. ASSUME NEW d \in Clients, InitiatorStep(d) PROVE srvEnd[c] = "open" <=> srvEnd'[c] = "open"
    BY <2>3 DEF InitiatorStep, InitiatorSend, InitiatorRecv, Die,
                CliSend, CliTake, CliClose, AfterSend, AfterRecv, Gone
  <2> QED BY <2>1, <2>2, <2>3 DEF ClientStep
<1>3. UNCHANGED <<evs, qemu, sockFd, pc, req, on>> BY DEF qemuVars
<1> QED BY <1>1, <1>2, <1>3 DEF LinkInv, Running

-----------------------------------------------------------------------------
(* Processes and their connections *)

\* All that a step of QEMU does to the ends of connection c.
SocketUse(c) ==
  \/ SrvAccept(c)
  \/ srvEnd[c] = "open" /\ (SrvClose(c) \/ SrvTakeEnd(c))
  \/ \E t \in FromQemu : SrvSend(c, t)

\* Steps of QEMU and the connections they send and receive on.
LEMMA QemuSocketUse ==
  ASSUME TypeOK, LinkInv, QemuStep
  PROVE  \/ UNCHANGED <<toCli, cliEnd, srvEnd>>
         \/ SrvExit
         \/ \E c \in Clients : SocketUse(c)
<1> DEFINE Use == \/ UNCHANGED <<toCli, cliEnd, srvEnd>>
                  \/ SrvExit
                  \/ \E c \in Clients : SocketUse(c)
<1>1. CASE QemuStart \/ QemuExit
  <2>1. CASE QemuStart BY <2>1 DEF QemuStart, sockVars
  <2>2. CASE QemuExit
    <3>1. SrvExit BY <2>2 DEF QemuExit
    <3> QED BY <3>1
  <2> QED BY <1>1, <2>1, <2>2
<1>2. ASSUME NEW v \in Vcpus, NEW r \in MmioRequests, MmioCall(v, r) PROVE Use
  BY <1>2 DEF MmioCall, sockVars
<1>3. ASSUME NEW v \in Vcpus, TransferSend(v) PROVE Use
  <2>1. sockFd \in Clients /\ req \in FromQemu
    BY <1>3 DEF TransferSend, LinkInv, TypeOK, QemuTypeOK
  <2> QED BY <1>3, <2>1 DEF TransferSend, SocketUse
<1>4. ASSUME NEW v \in Vcpus, TransferRecv(v) \/ TransferFail(v) PROVE Use
  <2>1. on \in Clients BY <1>4 DEF TransferRecv, TransferFail, LinkInv
  <2>2. CASE TransferRecv(v) BY <2>2 DEF TransferRecv, SrvTake
  <2>3. CASE TransferFail(v) BY <2>1, <2>3 DEF TransferFail, SocketUse, sockVars
  <2> QED BY <1>4, <2>2, <2>3
<1>5. CASE TcpLock \/ TcpPoll \/ TcpPark
  BY <1>5 DEF TcpLock, TcpPoll, TcpPark, EpollCollect, sockVars
<1>6. ASSUME NEW c \in Clients, Realize(c) \/ TcpAccept(c) \/ TcpRead(c) \/ TcpReadFail(c)
      PROVE  Use
  <2>1. CASE Realize(c) \/ TcpAccept(c)
    <3>1. SocketUse(c) BY <2>1 DEF Realize, TcpAccept, SocketUse
    <3> QED BY <3>1
  <2>2. CASE TcpRead(c) BY <2>2 DEF TcpRead, SrvTake, LinkInv, SocketUse
  <2>3. CASE TcpReadFail(c) BY <2>3 DEF TcpReadFail
  <2> QED BY <1>6, <2>1, <2>2, <2>3
<1>7. CASE TcpServe
  <2>1. CASE ServeWindow BY <2>1 DEF ServeWindow, sockVars
  <2>2. ASSUME NEW type \in VP_Type \ {"VP_WRITE", "VP_READ"}, NEW status \in {"VP_OK", "VP_FAIL"},
               NEW addr \in Addr, NEW data \in Values,
               Answer(type, status, addr, data)
        PROVE  Use
    <3> DEFINE t == [type |-> type, status |-> status, addr |-> addr, data |-> data]
    <3>1. t \in FromQemu BY <2>2 DEF FromQemu, Transfer, VP_Type
    <3>2. Head(pend).fd \in Clients BY <1>7, ServedTypes DEF TypeOK
    <3>3. SrvSend(Head(pend).fd, t) BY <2>2 DEF Answer
    <3> HIDE DEF t
    <3> QED BY <3>1, <3>2, <3>3 DEF SocketUse
  <2> QED BY <1>7, <2>1, <2>2, ServedTypes DEF TypeOK
<1> QED BY <1>1, <1>2, <1>3, <1>4, <1>5, <1>6, <1>7 DEF QemuStep, TcpStep

\* Every step keeps what is known of the processes that live.
LEMMA LifeStep ==
  ASSUME TypeOK, LockInv, LinkInv, LifeInv, Next
  PROVE  LifeInv'
<1> USE DEF TypeOK, SockTypeOK, CpuTypeOK, LifeInv
<1>1. CASE QemuStep /\ UNCHANGED cpuVars
  <2> USE <1>1 DEF cpuVars
  <2>1. CASE UNCHANGED <<toCli, cliEnd, srvEnd>> BY <2>1
  <2>2. CASE SrvExit BY <2>2 DEF SrvExit
  <2>3. ASSUME NEW c \in Clients, SocketUse(c) PROVE LifeInv'
    <3>1. CASE SrvAccept(c) BY <3>1 DEF SrvAccept
    <3>2. CASE srvEnd[c] = "open" /\ (SrvClose(c) \/ SrvTakeEnd(c))
      BY <3>2 DEF SrvClose, SrvTakeEnd, AfterRecv
    <3>3. ASSUME NEW t \in FromQemu, SrvSend(c, t) PROVE LifeInv'
      <4>1. CASE srvEnd[c] # "open" BY <3>3, <4>1 DEF SrvSend, sockVars
      <4>2. CASE srvEnd[c] = "open" BY <3>3, <4>2 DEF SrvSend, AfterSend, Gone, Ends
      <4> QED BY <4>1, <4>2
    <3> QED BY <2>3, <3>1, <3>2, <3>3 DEF SocketUse
  <2> QED BY <1>1, <2>1, <2>2, <2>3, QemuSocketUse
<1>2. CASE ClientStep /\ UNCHANGED qemuVars
  <2>1. ASSUME NEW c \in Clients, Launch(c, Listening) PROVE LifeInv'
    BY <2>1 DEF Launch, CliConnect, sockVars
  <2>2. ASSUME NEW c \in Clients, Die(c), main[c] \in {"wait", "tlm"} PROVE LifeInv'
    BY <2>2 DEF Die, CliClose, CloseWith
  <2>3. ASSUME NEW c \in Clients, ClientRecv(c) PROVE LifeInv'
    BY <2>3 DEF ClientRecv, CliTake
  <2>4. ASSUME NEW c \in Clients, ClientReply(c), srvEnd[c] # "broken" PROVE LifeInv'
    BY <2>4 DEF ClientReply, CliSend, AfterSend, Gone
  <2>5. ASSUME NEW c \in Clients, InitiatorSend(c), ~Die(c) PROVE LifeInv'
    BY <2>5 DEF InitiatorSend, CliSend, AfterSend, Gone
  <2>6. ASSUME NEW c \in Clients, InitiatorRecv(c) PROVE LifeInv'
    BY <2>6 DEF InitiatorRecv, CliTake, AfterRecv
  <2> QED
    BY <1>2, <2>1, <2>2, <2>3, <2>4, <2>5, <2>6, InitiatorAssumption
    DEF ClientStep, ServeStep, InitiatorStep, ClientReply, ClientGone, ClientCrash, InitiatorSend
<1> QED BY <1>1, <1>2 DEF Next

-----------------------------------------------------------------------------
(* The part of the invariant that holds with initiators too *)

BaseInv == TypeOK /\ LockInv /\ LinkInv /\ LifeInv

\* The first part of the invariant holds at the beginning,
LEMMA BaseInit == Init => BaseInv
<1> SUFFICES ASSUME Init PROVE BaseInv
  OBVIOUS
<1> USE DEF Init, SockInit, QemuInit, CpuInit
<1>1. SockTypeOK BY DEF SockTypeOK, Ends
<1>2. QemuTypeOK BY NoTransferType, AddrAssumption DEF QemuTypeOK, Outcomes
<1>3. CpuTypeOK BY NoTransferType DEF CpuTypeOK
<1>4. LockInv /\ LinkInv /\ LifeInv BY DEF LockInv, LinkInv, LifeInv, Running
<1> QED BY <1>1, <1>2, <1>3, <1>4 DEF BaseInv, TypeOK

\* and every step keeps it.
LEMMA BaseStep == BaseInv /\ [Next]_vars => BaseInv'
<1> SUFFICES ASSUME BaseInv, [Next]_vars PROVE BaseInv'
  OBVIOUS
<1> USE DEF BaseInv
<1>1. CASE QemuStep /\ UNCHANGED cpuVars
  <2>1. CpuTypeOK' BY <1>1 DEF TypeOK, CpuTypeOK, cpuVars
  <2>2. TypeOK' BY <1>1, <2>1, QemuTypes DEF TypeOK
  <2>3. LifeInv' BY <1>1, LifeStep DEF Next
  <2> QED BY <1>1, <2>2, <2>3, QemuLocks, QemuLinks
<1>2. CASE ClientStep /\ UNCHANGED qemuVars
  <2>1. QemuTypeOK' BY <1>2 DEF TypeOK, QemuTypeOK, qemuVars
  <2>2. TypeOK' BY <1>2, <2>1, ClientTypes DEF TypeOK
  <2>3. LifeInv' BY <1>2, LifeStep DEF Next
  <2> QED BY <1>2, <2>2, <2>3, ClientLinks
<1>3. CASE UNCHANGED vars
  <2>1. TypeOK'
    BY <1>3 DEF vars, sockVars, qemuVars, cpuVars, TypeOK, SockTypeOK, QemuTypeOK, CpuTypeOK
  <2>2. LockInv' /\ LinkInv' /\ LifeInv'
    BY <1>3 DEF vars, sockVars, qemuVars, cpuVars, LockInv, LinkInv, LifeInv, Running
  <2> QED BY <2>1, <2>2
<1> QED BY <1>1, <1>2, <1>3 DEF Next

\* The variables keep their types, whatever requests SystemC may initiate; in
\* particular QEMU never asks SystemC for a word outside the MMIO window, so
\* the address check of the target (target.h) never fails for it.
THEOREM TypeCorrect == Spec => []TypeOK
<1>1. Spec => []BaseInv BY BaseInit, BaseStep, PTL DEF Spec
<1>2. BaseInv => TypeOK BY DEF BaseInv
<1> QED BY <1>1, <1>2, PTL

-----------------------------------------------------------------------------
(* Calls and answers, without initiators *)

\* A message is put into an empty sequence and taken out of it.
LEMMA OneElement ==
  ASSUME NEW S, NEW s \in Seq(S), NEW e \in S
  PROVE  /\ Len(s) = 1 => s # <<>> /\ Tail(s) = <<>>
         /\ s = <<>> => Len(Append(s, e)) = 1 /\ Head(Append(s, e)) = e /\ Append(s, e) # <<>>
<1>1. ASSUME Len(s) = 1 PROVE s # <<>> /\ Tail(s) = <<>>
  <2>1. s # <<>> BY <1>1
  <2>2. Tail(s) \in Seq(S) /\ Len(Tail(s)) = 0 BY <1>1, <2>1, HeadTailProperties
  <2> QED BY <2>1, <2>2, EmptySeq
<1>2. ASSUME s = <<>> PROVE Len(Append(s, e)) = 1 /\ Head(Append(s, e)) = e /\ Append(s, e) # <<>>
  <2>1. Len(Append(s, e)) = 1 BY <1>2, AppendProperties
  <2>2. Head(Append(s, e)) = e BY <1>2, AppendProperties
  <2> QED BY <2>1, <2>2, AppendProperties
<1> QED BY <1>1, <1>2

\* A step that does not touch connection c.
LEMMA Untouched ==
  ASSUME NEW c \in Clients, InTurn(c), Called(c)' <=> Called(c),
         UNCHANGED <<toCli[c], toSrv[c], cliEnd[c], srvEnd[c], main[c], cur[c], mem[c]>>,
         Called(c) => UNCHANGED req
  PROVE  InTurn(c)'
<1>1. CASE Called(c) BY <1>1 DEF InTurn, Talking, Answers
<1>2. CASE ~Called(c) BY <1>2 DEF InTurn, Silent, Gone
<1> QED BY <1>1, <1>2

\* While nobody is called, every connection is silent.
LEMMA AllSilent ==
  ASSUME TalkInv, \A v \in Vcpus : pc[v] # "recv"
  PROVE  \A c \in Clients : ~Called(c) /\ Silent(c)
BY DEF TalkInv, InTurn, Called

\* tcp_thread at work, a free mutex or a free BQL: no callback is in recv().
LEMMA NobodyCalls ==
  ASSUME TypeOK, LockInv,
         \/ tcp # "timedwait" \/ mutex = NoOwner \/ bql = NoOwner \/ ~Running
  PROVE  \A v \in Vcpus : pc[v] # "recv"
BY QemuAssumption DEF LockInv

\* Steps of QEMU keep the invariant of the dialogue.
LEMMA TalkQemu ==
  ASSUME BaseInv, TalkInv, QemuStep, UNCHANGED cpuVars
  PROVE  TalkInv'
<1> USE DEF BaseInv
<1> DEFINE Kept == pend' = <<>> /\ \A c \in Clients : InTurn(c)'
<1>0. pend = <<>> BY DEF TalkInv
<1>1. SUFFICES Kept BY DEF TalkInv, Blocked, cpuVars
<1>2. CASE QemuStart
  <2>1. UNCHANGED sockVars /\ pend' = <<>> /\ \A v \in Vcpus : pc'[v] = "idle"
    BY <1>2 DEF QemuStart, Blank
  <2>2. \A c \in Clients : ~Called(c) /\ Silent(c)
    BY <1>2, NobodyCalls, AllSilent DEF QemuStart, Listening, Running
  <2> QED BY <2>1, <2>2 DEF InTurn, Called, Silent, Gone, sockVars, cpuVars
<1>3. CASE QemuExit \/ \E c \in Clients : TcpReadFail(c)
  <2>1. SrvExit /\ pend' = <<>> /\ \A v \in Vcpus : pc'[v] = "idle"
    BY <1>3 DEF QemuExit, TcpReadFail, Blank
  <2>2. ASSUME NEW c \in Clients PROVE Silent(c)'
    <3>1. toSrv'[c] = <<>> /\ UNCHANGED <<toCli, cliEnd, main>>
      BY <2>1 DEF SrvExit, cpuVars
    <3>2. ~Gone(srvEnd'[c]) => srvEnd[c] = "unborn"
      BY <2>1 DEF SrvExit, CloseWith, Gone, TypeOK, SockTypeOK, Ends
    <3>3. srvEnd[c] = "unborn" => Silent(c)
      BY DEF TalkInv, InTurn, Called
    <3> QED BY <3>1, <3>2, <3>3 DEF Silent, Gone
  <2> QED BY <2>1, <2>2 DEF InTurn, Called
<1>4. ASSUME NEW d \in Clients, Realize(d) \/ TcpAccept(d) PROVE Kept
  <2>1. SrvAccept(d) /\ UNCHANGED <<pend, pc, on>>
    BY <1>4 DEF Realize, TcpAccept, callVars, tcpVars
  <2>2. \A v \in Vcpus : pc[v] # "recv"
    BY <1>4, NobodyCalls DEF Realize, TcpAccept, Running
  <2>3. \A c \in Clients : ~Called(c) /\ Silent(c) BY <2>2, AllSilent
  <2>4. \A c \in Clients : ~Called(c)' BY <2>1, <2>2 DEF Called
  <2>5. \A c \in Clients : Silent(c)'
    BY <2>1, <2>3 DEF SrvAccept, Silent, Gone, TypeOK, SockTypeOK, cpuVars
  <2> QED BY <1>0, <2>1, <2>4, <2>5 DEF InTurn
<1>5. ASSUME NEW v \in Vcpus, NEW r \in MmioRequests, MmioCall(v, r) PROVE Kept
  <2>1. \A w \in Vcpus : pc[w] # "recv" BY <1>5, NobodyCalls DEF MmioCall
  <2>2. \A w \in Vcpus : pc'[w] # "recv"
    BY <1>5, <2>1 DEF MmioCall, TypeOK, QemuTypeOK
  <2>3. UNCHANGED sockVars /\ UNCHANGED pend BY <1>5 DEF MmioCall, tcpVars
  <2>4. \A c \in Clients : ~Called(c)' /\ Silent(c)
    BY <2>1, <2>2, AllSilent DEF Called
  <2>5. \A c \in Clients : Silent(c)' BY <2>3, <2>4 DEF Silent, Gone, sockVars, cpuVars
  <2> QED BY <1>0, <2>3, <2>4, <2>5 DEF InTurn
<1>6. ASSUME NEW v \in Vcpus, TransferSend(v) PROVE Kept
  <2>1. sockFd \in Clients /\ req \in FromQemu /\ on' = sockFd /\ UNCHANGED <<pend, req>>
    BY <1>6 DEF TransferSend, LinkInv, TypeOK, QemuTypeOK, tcpVars
  <2>0. PICK d \in Clients : d = sockFd BY <2>1
  <2>2. \A w \in Vcpus : pc[w] # "recv" BY <1>6, NobodyCalls DEF TransferSend
  <2>3. \A c \in Clients : ~Called(c) /\ Silent(c) BY <2>2, AllSilent
  <2>4. SrvSend(d, req) BY <1>6, <2>0 DEF TransferSend
  <2>5. ASSUME NEW c \in Clients, c # d PROVE InTurn(c)'
    <3>1. ~Called(c)' BY <2>1, <2>0, <2>5 DEF Called
    <3>2. UNCHANGED <<toCli[c], toSrv[c], cliEnd[c], srvEnd[c]>>
      BY <2>1, <2>4, <2>5 DEF SrvSend, TypeOK, SockTypeOK, sockVars
    <3> QED BY <2>3, <3>1, <3>2 DEF InTurn, Silent, Gone, cpuVars
  <2>6. InTurn(d)'
    <3>1. CASE srvEnd[d] # "open"
      <4>1. UNCHANGED sockVars BY <2>4, <3>1 DEF SrvSend
      <4>2. ~Called(d)' /\ Silent(d) BY <2>3, <3>1, <4>1 DEF Called, sockVars
      <4>3. Silent(d)' BY <4>1, <4>2 DEF Silent, Gone, sockVars, cpuVars
      <4> QED BY <4>2, <4>3 DEF InTurn
    <3>2. CASE srvEnd[d] = "open"
      <4>1. pc'[v] = "recv" BY <1>6 DEF TransferSend, TypeOK, QemuTypeOK
      <4>2. UNCHANGED <<toSrv, srvEnd, main>> BY <2>4, <3>2 DEF SrvSend, cpuVars
      <4>3. Called(d)' BY <2>1, <2>0, <3>2, <4>1, <4>2 DEF Called
      <4>4. toSrv[d] = <<>> /\ toCli[d] = <<>> /\ main[d] # "tlm"
        BY <2>1, <2>3, <3>2 DEF Silent, Gone
      <4>5. CASE Gone(cliEnd[d])
        <5>1. toCli'[d] = <<>> BY <2>4, <3>2, <4>4, <4>5 DEF SrvSend
        <5>2. main[d] = "dead"
          BY <2>1, <4>5 DEF LifeInv, Gone, TypeOK, CpuTypeOK
        <5> QED BY <2>1, <4>2, <4>3, <4>4, <5>1, <5>2 DEF InTurn, Talking
      <4>6. CASE ~Gone(cliEnd[d])
        <5>1. toCli' = [toCli EXCEPT ![d] = Append(@, req)]
          BY <2>4, <3>2, <4>6 DEF SrvSend
        <5>2. toCli'[d] = Append(toCli[d], req)
          BY <2>1, <5>1 DEF TypeOK, SockTypeOK
        <5>3. toCli[d] \in Seq(FromQemu) BY <2>1 DEF TypeOK, SockTypeOK
        <5>4. Len(toCli'[d]) = 1 /\ Head(toCli'[d]) = req
          BY <2>1, <4>4, <5>2, <5>3, OneElement
        <5>5. main[d] = "wait"
          BY <2>1, <3>2, <4>4, <4>6 DEF LifeInv, Gone, TypeOK, CpuTypeOK, SockTypeOK, Ends
        <5> QED BY <2>1, <4>2, <4>3, <4>4, <5>4, <5>5 DEF InTurn, Talking
      <4> QED BY <4>5, <4>6
    <3> QED BY <3>1, <3>2
  <2> QED BY <1>0, <2>1, <2>5, <2>6
<1>7. ASSUME NEW v \in Vcpus, TransferRecv(v) \/ TransferFail(v) PROVE Kept
  <2>1. mutex = v /\ on \in Clients /\ pc[v] = "recv" /\ UNCHANGED pend
    BY <1>7 DEF TransferRecv, TransferFail, Return, LockInv, LinkInv, tcpVars
  <2>0. PICK d \in Clients : d = on BY <2>1
  <2>2. pc' = [pc EXCEPT ![v] = "idle"] BY <1>7 DEF TransferRecv, TransferFail, Return
  <2>3. \A w \in Vcpus : pc'[w] # "recv"
    BY <2>1, <2>2 DEF LockInv, TypeOK, QemuTypeOK
  <2>4. \A c \in Clients : ~Called(c)' BY <2>3 DEF Called
  <2>5. ASSUME NEW c \in Clients, c # d PROVE Silent(c)'
    <3>1. Silent(c) BY <2>0, <2>5 DEF TalkInv, InTurn, Called
    <3>2. UNCHANGED <<toCli[c], toSrv[c], cliEnd[c], srvEnd[c], main[c]>>
      BY <1>7, <2>0, <2>5
      DEF TransferRecv, TransferFail, SrvTake, SrvTakeEnd, TypeOK, SockTypeOK, sockVars, cpuVars
    <3> QED BY <3>1, <3>2 DEF Silent, Gone
  <2>6. Silent(d)'
    <3>1. CASE srvEnd[d] # "open"
      <4>1. Silent(d) BY <3>1 DEF TalkInv, InTurn, Called
      <4>2. UNCHANGED sockVars BY <1>7, <2>0, <3>1 DEF TransferRecv, TransferFail
      <4> QED BY <4>1, <4>2 DEF Silent, Gone, sockVars, cpuVars
    <3>2. CASE srvEnd[d] = "open"
      <4>1. Talking(d) BY <2>1, <2>0, <3>2 DEF TalkInv, InTurn, Called
      <4>2. CASE TransferRecv(v)
        <5>1. toSrv[d] # <<>> /\ SrvTake(d) BY <2>0, <4>2 DEF TransferRecv
        <5>2. toCli[d] = <<>> /\ Len(toSrv[d]) = 1 /\ main[d] # "tlm" /\ cliEnd[d] # "reset"
          BY <4>1, <5>1 DEF Talking
        <5>3. toSrv'[d] = Tail(toSrv[d]) /\ toSrv[d] \in Seq(Transfer)
          BY <5>1 DEF SrvTake, TypeOK, SockTypeOK
        <5>4. toSrv'[d] = <<>> BY <5>2, <5>3, NoTransferType, OneElement
        <5> QED BY <5>1, <5>2, <5>4 DEF SrvTake, Silent, cpuVars
      <4>3. CASE TransferFail(v)
        <5>1. toSrv[d] = <<>> /\ Gone(cliEnd[d]) /\ SrvTakeEnd(d)
          BY <2>0, <3>2, <4>3 DEF TransferFail
        <5>2. main[d] \notin {"wait", "tlm"} BY <5>1 DEF LifeInv, Gone
        <5>3. toCli[d] = <<>>
          BY <4>1, <5>1, <5>2 DEF Talking
        <5>4. cliEnd'[d] # "reset"
          BY <5>1 DEF SrvTakeEnd, AfterRecv, TypeOK, SockTypeOK
        <5> QED BY <5>1, <5>2, <5>3, <5>4 DEF SrvTakeEnd, Silent, cpuVars
      <4> QED BY <1>7, <4>2, <4>3
    <3> QED BY <3>1, <3>2
  <2> QED BY <1>0, <2>1, <2>4, <2>5, <2>6 DEF InTurn
<1>8. CASE TcpLock \/ TcpPoll \/ TcpPark
  <2>1. UNCHANGED <<toSrv, toCli, cliEnd, srvEnd, pc, on, req, pend>>
    BY <1>8 DEF TcpLock, TcpPoll, TcpPark, EpollCollect, sockVars, callVars
  <2>2. \A c \in Clients : Called(c)' <=> Called(c) BY <2>1 DEF Called
  <2> QED BY <2>1, <2>2, Untouched DEF TalkInv, cpuVars
<1>9. ASSUME NEW d \in Clients, TcpRead(d) PROVE Kept
  <2>1. \A c \in Clients : ~Called(c) /\ Silent(c)
    BY <1>9, NobodyCalls, AllSilent DEF TcpRead
  <2>2. SrvClose(d) /\ UNCHANGED <<pend, pc, on>>
    BY <1>9, <2>1 DEF TcpRead, Silent, callVars
  <2>3. \A c \in Clients : ~Called(c)' /\ Silent(c)'
    BY <2>1, <2>2 DEF SrvClose, Called, Silent, Gone, TypeOK, SockTypeOK, cpuVars
  <2> QED BY <1>0, <2>2, <2>3 DEF InTurn
<1>10. CASE TcpServe
  <2>1. pend # <<>> BY <1>10, ServedTypes DEF TypeOK
  <2> QED BY <2>1 DEF TalkInv
<1> QED
  BY <1>1, <1>2, <1>3, <1>4, <1>5, <1>6, <1>7, <1>8, <1>9, <1>10 DEF QemuStep, TcpStep

\* So do those of a SystemC process.
LEMMA TalkClient ==
  ASSUME Initiations = {}, BaseInv, TalkInv, ClientStep, UNCHANGED qemuVars
  PROVE  TalkInv'
<1> USE DEF BaseInv, TypeOK, SockTypeOK, CpuTypeOK
<1>0. pend' = <<>> /\ \A c \in Clients : asked[c] = NoTransfer /\ InTurn(c)
  BY DEF TalkInv, qemuVars, Blocked
<1>1. SUFFICES ASSUME NEW d \in Clients,
                      Launch(d, Listening) \/ ServeStep(d) \/ ClientCrash(d)
               PROVE  asked'[d] = NoTransfer /\ InTurn(d)'
                      /\ (\A c \in Clients \ {d} :
                            /\ asked'[c] = asked[c]
                            /\ UNCHANGED <<toCli[c], toSrv[c], cliEnd[c], srvEnd[c],
                                          main[c], cur[c], mem[c]>>)
  <2>1. \E d \in Clients : Launch(d, Listening) \/ ServeStep(d) \/ ClientCrash(d)
    BY <1>0 DEF ClientStep, InitiatorStep, InitiatorSend, InitiatorRecv, Blocked
  <2>2. PICK d \in Clients : Launch(d, Listening) \/ ServeStep(d) \/ ClientCrash(d)
    BY <2>1
  <2>3. asked'[d] = NoTransfer /\ InTurn(d)' BY <1>1, <2>2
  <2>4. ASSUME NEW c \in Clients, c # d PROVE asked'[c] = NoTransfer /\ InTurn(c)'
    <3>1. /\ asked'[c] = asked[c]
          /\ UNCHANGED <<toCli[c], toSrv[c], cliEnd[c], srvEnd[c], main[c], cur[c], mem[c]>>
      BY <1>1, <2>2, <2>4
    <3>2. Called(c)' <=> Called(c) BY <3>1 DEF Called, qemuVars
    <3>3. UNCHANGED req BY DEF qemuVars
    <3> QED BY <1>0, <3>1, <3>2, <3>3, Untouched
  <2> QED BY <1>0, <2>3, <2>4 DEF TalkInv, Blocked
<1> DEFINE Elsewhere ==
      \A c \in Clients \ {d} :
        /\ asked'[c] = asked[c]
        /\ UNCHANGED <<toCli[c], toSrv[c], cliEnd[c], srvEnd[c], main[c], cur[c], mem[c]>>
<1>2. UNCHANGED <<on, pc, req>> BY DEF qemuVars
<1>3. CASE Launch(d, Listening)
  <2>1. cliEnd[d] = "unborn" /\ srvEnd[d] = "unborn" /\ toCli[d] = <<>>
    BY <1>3 DEF Launch, LifeInv
  <2>2. Silent(d) BY <1>0, <2>1 DEF InTurn, Called
  <2>3. ~Called(d)' /\ Silent(d)'
    BY <1>3, <2>1, <2>2 DEF Launch, CliConnect, sockVars, Called, Silent, Gone
  <2>4. Elsewhere BY <1>3 DEF Launch, CliConnect, sockVars
  <2> QED BY <1>0, <1>3, <2>3, <2>4 DEF InTurn, Launch
<1>4. ASSUME Die(d), main[d] \in {"wait", "tlm"}
      PROVE  asked'[d] = NoTransfer /\ InTurn(d)' /\ Elsewhere
  <2>1. /\ toCli'[d] = <<>> /\ main'[d] = "dead" /\ asked'[d] = NoTransfer
        /\ UNCHANGED <<toSrv, srvEnd, mem>>
        /\ toCli[d] = <<>> => cliEnd'[d] = "closed"
    BY <1>4 DEF Die, CliClose, CloseWith
  <2>2. Called(d)' <=> Called(d) BY <1>2, <2>1 DEF Called
  <2>3. CASE Called(d)
    <3>1. Talking(d) BY <1>0, <2>3 DEF InTurn
    <3>2. Talking(d)' BY <1>2, <2>1, <3>1 DEF Talking, Answers
    <3> QED BY <2>1, <2>2, <2>3, <3>2, <1>4 DEF InTurn, Die, CliClose
  <2>4. CASE ~Called(d)
    <3>1. Silent(d) BY <1>0, <2>4 DEF InTurn
    <3>2. Silent(d)' BY <2>1, <3>1 DEF Silent, Gone
    <3> QED BY <2>1, <2>2, <2>4, <3>2, <1>4 DEF InTurn, Die, CliClose
  <2> QED BY <2>3, <2>4
<1>5. CASE ClientRecv(d)
  <2> DEFINE r == Head(toCli[d])
  <2>1. main[d] = "wait" /\ toCli[d] # <<>> BY <1>5 DEF ClientRecv
  <2>2. /\ toCli'[d] = Tail(toCli[d]) /\ main'[d] = "tlm"
        /\ UNCHANGED <<toSrv, srvEnd, cliEnd, asked>>
    BY <1>5 DEF ClientRecv, CliTake
  <2>3. Called(d)' <=> Called(d) BY <1>2, <2>2 DEF Called
  <2>4. \A c \in Clients \ {d} : mem'[c] = mem[c] /\ cur'[c] = cur[c]
    BY <1>5 DEF ClientRecv, TlmWrite, Resp
  <2>5. Elsewhere /\ asked'[d] = NoTransfer
    BY <1>0, <1>5, <2>4 DEF ClientRecv, CliTake
  <2>6. CASE Called(d)
    <3>1. Len(toCli[d]) = 1 /\ r = req /\ toSrv[d] = <<>>
      BY <1>0, <2>1, <2>6 DEF InTurn, Talking
    <3>2. toCli'[d] = <<>>
      BY <2>2, <3>1, NoTransferType, OneElement
    <3>3. Answers(cur[d], req, d)'
      <4>1. req \in MmioRequests BY <2>6 DEF Called, LinkInv
      <4>2. PICK addr \in Addr, left \in Values :
              CASE req.type = "VP_WRITE" ->
                     /\ addr = req.addr
                     /\ mem' = [mem EXCEPT ![d][req.addr] = req.data]
                     /\ Resp(d, "VP_WRITE_RESP", "VP_OK", addr, left)
                [] req.type = "VP_READ" ->
                     /\ addr = req.addr /\ left = mem[d][req.addr]
                     /\ Resp(d, "VP_READ_RESP", "VP_OK", addr, left)
                     /\ UNCHANGED mem
                [] OTHER ->
                     /\ Resp(d, "VP_ERROR", "VP_FAIL", addr, left)
                     /\ UNCHANGED mem
        BY <1>5, <3>1 DEF ClientRecv, TlmWrite, TlmRead
      <4>3. req.addr \in MmioAddr /\ req.data \in Values /\ req.type \in {"VP_READ", "VP_WRITE"}
        BY <4>1 DEF MmioRequests
      <4>4. CASE req.type = "VP_WRITE"
        <5>1. /\ mem' = [mem EXCEPT ![d][req.addr] = req.data]
              /\ Resp(d, "VP_WRITE_RESP", "VP_OK", req.addr, left)
          BY <4>2, <4>4
        <5>2. mem'[d][req.addr] = req.data BY <4>3, <5>1
        <5>3. cur'[d] = [type |-> "VP_WRITE_RESP", status |-> "VP_OK",
                         addr |-> req.addr, data |-> left]
          BY <5>1 DEF Resp
        <5> QED BY <1>2, <4>4, <5>2, <5>3 DEF Answers, RespType
      <4>5. CASE req.type = "VP_READ"
        <5>1. Resp(d, "VP_READ_RESP", "VP_OK", req.addr, mem[d][req.addr]) /\ UNCHANGED mem
          BY <4>2, <4>5
        <5>2. cur'[d] = [type |-> "VP_READ_RESP", status |-> "VP_OK",
                         addr |-> req.addr, data |-> mem[d][req.addr]]
          BY <5>1 DEF Resp
        <5> QED BY <1>2, <4>5, <5>1, <5>2 DEF Answers, RespType
      <4> QED BY <4>3, <4>4, <4>5
    <3> QED BY <2>2, <2>3, <2>6, <2>5, <3>1, <3>2, <3>3 DEF InTurn, Talking
  <2>7. CASE ~Called(d)
    <3>1. Silent(d) /\ Gone(srvEnd[d]) BY <1>0, <2>1, <2>7 DEF InTurn, Silent
    <3>2. Silent(d)' BY <2>2, <3>1 DEF Silent, Gone
    <3> QED BY <2>3, <2>7, <2>5, <3>2 DEF InTurn
  <2> QED BY <2>6, <2>7
<1>6. CASE ClientReply(d)
  <2>1. main[d] = "tlm" BY <1>6 DEF ClientReply
  <2>2. CASE srvEnd[d] = "broken" BY <1>4, <1>6, <2>1, <2>2 DEF ClientReply
  <2>3. CASE srvEnd[d] # "broken"
    <3>1. /\ CliSend(d, cur[d]) /\ main' = [main EXCEPT ![d] = "wait"]
          /\ cur' = [cur EXCEPT ![d] = NoTransfer] /\ UNCHANGED <<asked, mem, toCli, cliEnd>>
      BY <1>6, <2>3 DEF ClientReply, CliSend
    <3>2. Elsewhere BY <3>1 DEF CliSend
    <3>3. CASE Called(d)
      <4>1. /\ toCli[d] = <<>> /\ toSrv[d] = <<>> /\ Answers(cur[d], req, d)
            /\ srvEnd[d] = "open" /\ cliEnd[d] = "open"
        BY <1>0, <2>1, <3>3 DEF InTurn, Talking, Called, LifeInv
      <4>2. toSrv'[d] = Append(toSrv[d], cur[d]) /\ srvEnd'[d] = "open"
        BY <3>1, <4>1 DEF CliSend, Gone, AfterSend
      <4>3. Len(toSrv'[d]) = 1 /\ Head(toSrv'[d]) = cur[d]
        BY <4>1, <4>2, OneElement
      <4>4. Called(d)' BY <1>2, <3>3, <4>2 DEF Called
      <4>5. Talking(d)' BY <1>2, <3>1, <4>1, <4>3 DEF Talking, Answers
      <4> QED BY <1>0, <3>1, <3>2, <4>4, <4>5 DEF InTurn
    <3>4. CASE ~Called(d)
      <4>1. Silent(d) /\ Gone(srvEnd[d]) BY <1>0, <2>1, <3>4 DEF InTurn, Silent
      <4>2. toSrv'[d] = toSrv[d] /\ srvEnd'[d] = "broken"
        BY <3>1, <4>1 DEF CliSend, AfterSend
      <4>3. ~Called(d)' /\ Silent(d)' BY <4>1, <4>2 DEF Called, Silent, Gone
      <4> QED BY <1>0, <3>1, <3>2, <4>3 DEF InTurn
    <3> QED BY <3>3, <3>4
  <2> QED BY <2>2, <2>3
<1>7. CASE ClientGone(d) \/ ClientCrash(d)
  BY <1>4, <1>7 DEF ClientGone, ClientCrash
<1> QED BY <1>1, <1>3, <1>5, <1>6, <1>7 DEF ServeStep

-----------------------------------------------------------------------------
(* Edges *)

\* Steps of QEMU leave no edge unseen.
LEMMA EdgeQemu ==
  ASSUME BaseInv, TalkInv, EdgeNotLost, QemuStep, UNCHANGED cpuVars
  PROVE  EdgeNotLost'
<1> USE DEF BaseInv, TypeOK, SockTypeOK, QemuTypeOK
<1> DEFINE Watched(c) == qemu = "running" /\ Readable(c) /\ ~edge[c] => c \in evs
<1>1. pend = <<>> /\ \A c \in Clients : Watched(c) BY DEF TalkInv, EdgeNotLost
<1>2. SUFFICES \A c \in Clients : Watched(c)' BY DEF EdgeNotLost
<1>3. CASE QemuStart \/ QemuExit \/ \E c \in Clients : TcpReadFail(c)
  BY <1>3 DEF QemuStart, QemuExit, TcpReadFail
<1>4. ASSUME NEW d \in Clients, Realize(d) \/ TcpAccept(d), NEW c \in Clients PROVE Watched(c)'
  <2>1. SrvAccept(d) BY <1>4 DEF Realize, TcpAccept
  <2>2. CASE Realize(d)
    BY <2>1, <2>2, QemuAssumption DEF Realize, LinkInv, Running, SrvAccept, Readable
  <2>3. CASE TcpAccept(d)
    <3>1. qemu = "running" /\ evs' = evs \ {Listener} BY <2>3 DEF TcpAccept, Running
    <3> QED BY <1>1, <2>1, <3>1, QemuAssumption DEF SrvAccept, Readable
  <2> QED BY <1>4, <2>2, <2>3
<1>5. ASSUME NEW v \in Vcpus, NEW r \in MmioRequests, MmioCall(v, r) PROVE \A c \in Clients : Watched(c)'
  BY <1>1, <1>5 DEF MmioCall, Readable, sockVars, tcpVars
<1>6. ASSUME NEW v \in Vcpus, TransferSend(v) PROVE \A c \in Clients : Watched(c)'
  <2>1. SrvSend(sockFd, req) /\ UNCHANGED <<evs, qemu>> BY <1>6 DEF TransferSend, tcpVars
  <2>2. CASE srvEnd[sockFd] # "open"
    BY <1>1, <2>1, <2>2 DEF SrvSend, Readable, sockVars
  <2>3. CASE srvEnd[sockFd] = "open"
    BY <1>1, <2>1, <2>3 DEF SrvSend, Readable, Gone, AfterSend
  <2> QED BY <2>2, <2>3
<1>7. ASSUME NEW v \in Vcpus, TransferRecv(v) \/ TransferFail(v) PROVE \A c \in Clients : Watched(c)'
  <2>1. UNCHANGED <<evs, qemu>> BY <1>7 DEF TransferRecv, TransferFail, Return, tcpVars
  <2>2. CASE UNCHANGED sockVars BY <1>1, <2>1, <2>2 DEF Readable, sockVars
  <2>3. CASE SrvTakeEnd(on)
    BY <1>1, <2>1, <2>3 DEF SrvTakeEnd, AfterRecv, Readable, Gone
  <2>4. CASE SrvTake(on) /\ toSrv[on] # <<>>
    BY <1>1, <2>1, <2>4 DEF SrvTake, Readable, Gone
  <2> QED BY <1>7, <2>2, <2>3, <2>4 DEF TransferRecv, TransferFail
<1>8. CASE TcpLock \/ TcpPark
  BY <1>1, <1>8 DEF TcpLock, TcpPark, Readable, sockVars
<1>9. CASE TcpPoll
  <2>1. evs = {} /\ qemu' = qemu BY <1>9 DEF TcpPoll, LockInv
  <2>2. PICK E \in SUBSET ReadyFds : evs' = E /\ EpollCollect(E) BY <1>9 DEF TcpPoll
  <2> QED BY <1>1, <2>1, <2>2 DEF EpollCollect, Readable
<1>10. ASSUME NEW d \in Clients, TcpRead(d) PROVE \A c \in Clients : Watched(c)'
  <2>1. toSrv[d] = <<>>
    BY <1>10, NobodyCalls, AllSilent DEF TcpRead, Silent
  <2>2. SrvClose(d) /\ evs' = evs \ {d} /\ qemu' = qemu BY <1>10, <2>1 DEF TcpRead
  <2> QED BY <1>1, <2>2 DEF SrvClose, Readable
<1>11. CASE TcpServe
  <2>1. pend # <<>> BY <1>11, ServedTypes
  <2> QED BY <1>1, <2>1
<1> QED
  BY <1>3, <1>4, <1>5, <1>6, <1>7, <1>8, <1>9, <1>10, <1>11 DEF QemuStep, TcpStep

\* Nor do those of a SystemC process.
LEMMA EdgeClient ==
  ASSUME BaseInv, TalkInv, EdgeNotLost, ClientStep, UNCHANGED qemuVars, Initiations = {}
  PROVE  EdgeNotLost'
<1> USE DEF BaseInv, TypeOK, SockTypeOK
<1> DEFINE Watched(c) == qemu = "running" /\ Readable(c) /\ ~edge[c] => c \in evs
<1>1. /\ pend = <<>> /\ UNCHANGED <<pend, qemu, evs>>
      /\ \A c \in Clients : Watched(c) /\ ~Blocked(c)
  BY DEF TalkInv, EdgeNotLost, qemuVars
<1>2. SUFFICES \A c \in Clients : Watched(c)' BY DEF EdgeNotLost
<1>3. ASSUME NEW d \in Clients, Launch(d, Listening) PROVE \A c \in Clients : Watched(c)'
  BY <1>1, <1>3 DEF Launch, CliConnect, Readable, Gone, sockVars
<1>4. ASSUME NEW d \in Clients, Die(d) PROVE \A c \in Clients : Watched(c)'
  BY <1>1, <1>4 DEF Die, CliClose, Readable
<1>5. ASSUME NEW d \in Clients, ClientRecv(d) PROVE \A c \in Clients : Watched(c)'
  BY <1>1, <1>5 DEF ClientRecv, CliTake, Readable
<1>6. ASSUME NEW d \in Clients, CliSend(d, cur[d]) PROVE \A c \in Clients : Watched(c)'
  BY <1>1, <1>6 DEF CliSend, AfterSend, Readable, Gone
<1> QED
  BY <1>1, <1>3, <1>4, <1>5, <1>6
  DEF ClientStep, ServeStep, ClientReply, ClientGone, ClientCrash,
      InitiatorStep, InitiatorSend, InitiatorRecv

-----------------------------------------------------------------------------
(* The theorems *)

\* The invariant holds at the beginning,
LEMMA InvInit == Init => IInv
<1> SUFFICES ASSUME Init PROVE IInv
  OBVIOUS
<1>1. BaseInv BY BaseInit
<1>2. TalkInv
  BY DEF Init, SockInit, QemuInit, CpuInit, TalkInv, InTurn, Called, Silent, Blocked
<1>3. EdgeNotLost BY DEF Init, SockInit, QemuInit, EdgeNotLost
<1> QED BY <1>1, <1>2, <1>3 DEF IInv, BaseInv

\* and every step keeps it.
LEMMA InvStep == Initiations = {} /\ IInv /\ [Next]_vars => IInv'
<1> SUFFICES ASSUME Initiations = {}, IInv, [Next]_vars PROVE IInv'
  OBVIOUS
<1>1. BaseInv /\ TalkInv /\ EdgeNotLost BY DEF IInv, BaseInv
<1>2. BaseInv' BY <1>1, BaseStep
<1>3. TalkInv' /\ EdgeNotLost'
  <2>1. CASE QemuStep /\ UNCHANGED cpuVars BY <1>1, <2>1, TalkQemu, EdgeQemu
  <2>2. CASE ClientStep /\ UNCHANGED qemuVars BY <1>1, <2>2, TalkClient, EdgeClient
  <2>3. CASE UNCHANGED vars
    <3>1. TalkInv'
      <4>1. UNCHANGED <<toCli, toSrv, cliEnd, srvEnd, main, cur, mem, req, on, pc, pend, asked>>
        BY <2>3 DEF vars, sockVars, qemuVars, cpuVars
      <4>2. \A c \in Clients : Called(c)' <=> Called(c) BY <4>1 DEF Called
      <4>3. \A c \in Clients : InTurn(c)' BY <1>1, <4>1, <4>2, Untouched DEF TalkInv
      <4> QED BY <1>1, <4>1, <4>3 DEF TalkInv, Blocked
    <3>2. EdgeNotLost'
      BY <1>1, <2>3 DEF vars, sockVars, qemuVars, EdgeNotLost, Readable
    <3> QED BY <3>1, <3>2
  <2> QED BY <2>1, <2>2, <2>3 DEF Next
<1> QED BY <1>2, <1>3 DEF IInv, BaseInv

\* Without initiators on the SystemC side, the conversation of every callback
\* with its client, the locks and the descriptors obey the invariant.
THEOREM Invariant == ASSUME Initiations = {} PROVE Spec => []IInv
<1>1. IInv /\ [Next]_vars => IInv' BY InvStep
<1> QED BY InvInit, <1>1, PTL DEF Spec

\* Then every answer an access receives is its own: it passes the check of
\* mmio_bus.c, a read returns the word its SystemC process holds, a written
\* word has been stored there.
THEOREM RepliesCorrect == ASSUME Initiations = {} PROVE Spec => RepliesAnswerRequests
<1> DEFINE Good ==
      \A v \in Vcpus :
        pc[v] = "recv" /\ pc'[v] = "idle" /\ last'.how = "reply" =>
          /\ last'.ok
          /\ Answers(Head(toSrv[on]), req, on)
          /\ req.type = "VP_READ" => last'.data = mem[on][req.addr]
<1>1. ASSUME IInv, Next PROVE Good
  <2> SUFFICES ASSUME NEW v \in Vcpus, pc[v] = "recv", pc'[v] = "idle", last'.how = "reply"
               PROVE  /\ last'.ok
                      /\ Answers(Head(toSrv[on]), req, on)
                      /\ req.type = "VP_READ" => last'.data = mem[on][req.addr]
    OBVIOUS
  <2> USE <1>1 DEF IInv, TypeOK, QemuTypeOK
  <2>1. mutex = v /\ bql = v /\ on \in Clients /\ req \in MmioRequests
    BY DEF LockInv, LinkInv
  <2>2. QemuStep /\ UNCHANGED cpuVars BY DEF Next, qemuVars
  <2>3. ~QemuStart /\ ~QemuExit /\ \A c \in Clients : ~TcpReadFail(c)
    BY DEF QemuStart, QemuExit, TcpReadFail, Blank
  <2>4. \A c \in Clients : ~Realize(c) BY DEF Realize, callVars
  <2>5. ~TcpStep
    BY <2>3 DEF TcpStep, TcpLock, TcpPoll, TcpServe, ServeWrite, ServeRead, ServeIrq,
        ServeWindow, ServeOther, Serving, TcpPark, TcpAccept, TcpRead, callVars
  <2>6. \A w \in Vcpus : /\ \A r \in MmioRequests : ~MmioCall(w, r)
                         /\ ~TransferSend(w)
    BY <2>1, QemuAssumption DEF MmioCall, TransferSend
  <2>7. \A w \in Vcpus : ~TransferFail(w) BY DEF TransferFail, Return
  <2>8. PICK w \in Vcpus : TransferRecv(w)
    BY <2>2, <2>3, <2>4, <2>5, <2>6, <2>7 DEF QemuStep
  <2>9. srvEnd[on] = "open" /\ toSrv[on] # <<>> BY <2>8 DEF TransferRecv
  <2>10. Answers(Head(toSrv[on]), req, on)
    BY <2>1, <2>9 DEF TalkInv, InTurn, Called, Talking
  <2>11. last' = [how |-> "reply",
                  ok |-> /\ Head(toSrv[on]).type = RespType(req.type)
                         /\ Head(toSrv[on]).status = "VP_OK",
                  data |-> IF req.type = "VP_READ" THEN Head(toSrv[on]).data ELSE 0]
    BY <2>8 DEF TransferRecv, Return
  <2> QED BY <2>10, <2>11 DEF Answers
<1>2. IInv /\ [Next]_vars => [Good]_vars BY <1>1
<1> QED BY Invariant, <1>2, PTL DEF Spec, RepliesAnswerRequests

\* vp_wait in tcp_thread takes no callback's answer, and nobody is sent VP_ERROR.
THEOREM NoTheft == ASSUME Initiations = {} PROVE Spec => [](OnlyRequestsArePended /\ NoErrorTraffic)
<1> DEFINE Asks == \A c \in Clients : toCli[c] \in Seq(MmioRequests)
<1>1. Init => Asks BY DEF Init, SockInit
<1>2. IInv /\ Asks /\ [Next]_vars => Asks'
  <2> SUFFICES ASSUME IInv, Asks, [Next]_vars PROVE Asks'
    OBVIOUS
  <2> USE DEF IInv, TypeOK, SockTypeOK
  <2>1. CASE UNCHANGED toCli BY <2>1
  <2>2. ASSUME NEW v \in Vcpus, TransferSend(v) PROVE Asks'
    <3>1. req \in MmioRequests /\ SrvSend(sockFd, req) BY <2>2 DEF TransferSend, LinkInv
    <3>2. CASE UNCHANGED toCli BY <3>2
    <3>3. CASE toCli' = [toCli EXCEPT ![sockFd] = Append(@, req)] BY <3>1, <3>3
    <3> QED BY <3>1, <3>2, <3>3 DEF SrvSend, sockVars
  <2>3. ASSUME NEW c \in Clients, CliTake(c), toCli[c] # <<>> PROVE Asks'
    BY <2>3 DEF CliTake
  <2>4. ASSUME NEW c \in Clients, CliClose(c) PROVE Asks' BY <2>4 DEF CliClose
  <2>5. CASE QemuStep /\ UNCHANGED cpuVars
    <3>1. ASSUME ~\E v \in Vcpus : TransferSend(v) PROVE UNCHANGED toCli
      <4>1. ~TcpServe BY ServedTypes DEF TalkInv
      <4>2. TcpStep => UNCHANGED toCli
        BY <4>1 DEF TcpStep, TcpLock, TcpPoll, TcpPark, TcpAccept, TcpRead, TcpReadFail,
                    SrvAccept, SrvTake, SrvClose, SrvExit, EpollCollect, sockVars
      <4> QED
        BY <2>5, <3>1, <4>2
        DEF QemuStep, QemuStart, QemuExit, Realize, MmioCall, TransferRecv, TransferFail,
            SrvAccept, SrvTake, SrvTakeEnd, SrvExit, sockVars
    <3> QED BY <2>1, <2>2, <3>1
  <2>6. CASE ClientStep /\ UNCHANGED qemuVars
    BY <2>1, <2>3, <2>4, <2>6
    DEF ClientStep, Launch, ServeStep, ClientRecv, ClientReply, ClientGone, ClientCrash, Die,
        InitiatorStep, InitiatorSend, InitiatorRecv, CliConnect, CliSend, sockVars
  <2>7. CASE UNCHANGED vars BY <2>1, <2>7 DEF vars, sockVars
  <2> QED BY <2>5, <2>6, <2>7 DEF Next
<1>3. IInv => OnlyRequestsArePended BY DEF IInv, TalkInv, OnlyRequestsArePended
<1>4. Asks => NoErrorTraffic
  <2> SUFFICES ASSUME Asks, NEW c \in Clients, NEW i \in DOMAIN toCli[c]
               PROVE  toCli[c][i].type # "VP_ERROR"
    BY DEF NoErrorTraffic
  <2>1. toCli[c][i] \in MmioRequests OBVIOUS
  <2> QED BY <2>1 DEF MmioRequests
<1> QED BY Invariant, <1>1, <1>2, <1>3, <1>4, PTL DEF Spec

\* No crash of a SystemC process makes QEMU exit.
THEOREM Survival == ASSUME Initiations = {} PROVE Spec => []QemuSurvives
<1>1. Init => QemuSurvives BY DEF Init, QemuInit, QemuSurvives
<1>2. IInv /\ QemuSurvives /\ [Next]_vars => QemuSurvives'
  <2> SUFFICES ASSUME IInv, QemuSurvives, [Next]_vars PROVE QemuSurvives'
    OBVIOUS
  <2> USE DEF QemuSurvives
  <2>1. ASSUME NEW c \in Clients, TcpReadFail(c) PROVE FALSE
    <3>1. tcp = "batch" /\ c \in evs /\ cliEnd[c] = "reset" BY <2>1 DEF TcpReadFail
    <3>2. srvEnd[c] = "open" BY <3>1 DEF IInv, LinkInv
    <3>3. Silent(c) BY <3>1, NobodyCalls, AllSilent DEF IInv
    <3> QED BY <3>1, <3>2, <3>3 DEF Silent, Gone
  <2>2. CASE UNCHANGED qemu BY <2>2
  <2>3. CASE qemu' \in {"realize", "running", "exited"} BY <2>3
  <2>4. CASE QemuStep
    BY <2>1, <2>2, <2>3, <2>4
    DEF QemuStep, QemuStart, QemuExit, Realize, MmioCall, TransferSend, TransferRecv,
        TransferFail, Return, TcpStep, TcpLock, TcpPoll, TcpServe, ServeWrite, ServeRead,
        ServeIrq, ServeWindow, ServeOther, Serving, TcpPark, TcpAccept, TcpRead
  <2> QED BY <2>2, <2>4 DEF Next, vars, qemuVars
<1> QED BY Invariant, <1>1, <1>2, PTL DEF Spec

\* No input and no end of file is left behind on an edge-triggered descriptor.
THEOREM EdgesKept == ASSUME Initiations = {} PROVE Spec => []EdgeNotLost
<1>1. IInv => EdgeNotLost BY DEF IInv
<1> QED BY Invariant, <1>1, PTL

-----------------------------------------------------------------------------
(* The batch of tcp_thread, with any requests of the SystemC side *)

\* Reading a descriptor of the batch adds at most one request, of that descriptor.
LEMMA BatchRead ==
  ASSUME TypeOK, BatchInv, NEW c \in Clients, TcpRead(c)
  PROVE  BatchInv'
<1>1. /\ tcp' = "batch" /\ evs' = evs \ {c} /\ c \in evs
      /\ pend \in Seq(Pended)
  BY DEF TcpRead, TypeOK, QemuTypeOK
<1>2. CASE pend' = pend BY <1>1, <1>2 DEF BatchInv, OneRequestEach
<1>3. CASE \E m : pend' = Append(pend, m) /\ m.fd = c /\ m \in Pended
  <2>1. PICK m \in Pended : pend' = Append(pend, m) /\ m.fd = c BY <1>3
  <2>2. /\ Len(pend) \in Nat /\ DOMAIN pend = 1 .. Len(pend)
        /\ DOMAIN pend' = 1 .. Len(pend) + 1
        /\ \A i \in 1 .. Len(pend) : pend'[i] = pend[i]
        /\ pend'[Len(pend) + 1] = m
    BY <1>1, <2>1, AppendProperties
  <2>3. \A i \in DOMAIN pend : pend[i].fd # c BY <1>1 DEF BatchInv
  <2>4. \A i \in DOMAIN pend' : pend'[i].fd \notin evs'
    BY <1>1, <2>1, <2>2 DEF BatchInv
  <2>5. OneRequestEach'
    BY <2>1, <2>2, <2>3 DEF BatchInv, OneRequestEach
  <2> QED BY <1>1, <2>4, <2>5 DEF BatchInv
<1>4. toSrv[c] # <<>> => Head(toSrv[c]) \in Transfer BY DEF TypeOK, SockTypeOK
<1> QED BY <1>2, <1>3, <1>4 DEF TcpRead, Pended

\* Every step keeps the invariant of the batch.
LEMMA BatchStep == TypeOK /\ BatchInv /\ [Next]_vars => BatchInv'
<1> SUFFICES ASSUME TypeOK, BatchInv, [Next]_vars PROVE BatchInv'
  OBVIOUS
<1>1. CASE pend' = <<>> BY <1>1 DEF BatchInv, OneRequestEach
<1>2. CASE UNCHANGED <<pend, evs, tcp>> BY <1>2 DEF BatchInv, OneRequestEach
<1>3. CASE TcpServe
  <2>1. pend # <<>> /\ pend \in Seq(Pended) BY <1>3, ServedTypes DEF TypeOK
  <2>2. evs = {} /\ evs' = {}
    BY <1>3 DEF TcpServe, ServeWrite, ServeRead, ServeIrq, ServeWindow, ServeOther, Serving
  <2>3. CASE ServeWindow
    BY <2>2, <2>3 DEF ServeWindow, Serving, BatchInv, OneRequestEach
  <2>4. CASE ~ServeWindow
    <3>1. pend' = Tail(pend) /\ tcp' = "batch"
      BY <1>3, <2>4
      DEF TcpServe, ServeWrite, ServeRead, ServeIrq, ServeOther, Serving, Answer
    <3>2. /\ Len(pend) \in Nat /\ DOMAIN pend = 1 .. Len(pend)
          /\ DOMAIN pend' = 1 .. Len(pend) - 1
          /\ \A i \in 1 .. Len(pend) - 1 : pend'[i] = pend[i + 1]
      BY <2>1, <3>1, HeadTailProperties
    <3> QED BY <2>2, <3>1, <3>2 DEF BatchInv, OneRequestEach
  <2> QED BY <2>3, <2>4
<1>4. CASE TcpStep
  <2>1. CASE TcpLock \/ TcpPoll \/ TcpPark
    BY <2>1 DEF TcpLock, TcpPoll, TcpPark, BatchInv, OneRequestEach
  <2>2. ASSUME NEW c \in Clients, TcpAccept(c) PROVE BatchInv'
    BY <2>2 DEF TcpAccept, BatchInv, OneRequestEach
  <2>3. ASSUME NEW c \in Clients, TcpReadFail(c) PROVE BatchInv'
    BY <1>1, <2>3 DEF TcpReadFail, Blank
  <2> QED BY <1>3, <1>4, <2>1, <2>2, <2>3, BatchRead DEF TcpStep
<1>5. CASE QemuStep
  BY <1>1, <1>2, <1>4, <1>5
  DEF QemuStep, QemuStart, QemuExit, Realize, MmioCall, TransferSend, TransferRecv,
      TransferFail, Return, Blank, tcpVars
<1> QED BY <1>2, <1>5 DEF Next, vars, qemuVars, tcpVars

\* The invariant of the batch holds always.
LEMMA BatchAlways == Spec => []BatchInv
<1>1. Init => BatchInv
  BY DEF Init, QemuInit, BatchInv, OneRequestEach
<1> QED BY TypeCorrect, BatchStep, <1>1, PTL DEF Spec

\* A batch of vp_wait has at most one request of each connection, whatever the
\* SystemC processes send and whenever they come and go.
THEOREM BatchesCorrect == Spec => []OneRequestEach
<1>1. BatchInv => OneRequestEach BY DEF BatchInv
<1> QED BY BatchAlways, <1>1, PTL

\* Whose request is in the array stays connected until it is answered.
OpenInv == \A i \in DOMAIN pend : srvEnd[pend[i].fd] = "open"

\* No step of a SystemC process takes an open descriptor from QEMU.
LEMMA OpenKept ==
  ASSUME SockTypeOK, LifeInv, ClientStep, NEW c \in Clients, srvEnd[c] = "open"
  PROVE  srvEnd'[c] = "open"
<1> USE DEF SockTypeOK
<1>1. ASSUME NEW d \in Clients, NEW t, CliSend(d, t) PROVE srvEnd'[c] = "open"
  BY <1>1 DEF CliSend, AfterSend, Gone
<1>2. ASSUME NEW d \in Clients, Die(d) PROVE srvEnd'[c] = "open"
  BY <1>2 DEF Die, CliClose
<1>3. ASSUME NEW d \in Clients, Launch(d, Listening) PROVE srvEnd'[c] = "open"
  BY <1>3 DEF Launch, CliConnect, LifeInv, sockVars
<1>4. ASSUME NEW d \in Clients, InitiatorRecv(d) PROVE srvEnd'[c] = "open"
  BY <1>4 DEF InitiatorRecv, CliTake, AfterRecv, Gone
<1>5. ASSUME NEW d \in Clients, ClientRecv(d) PROVE srvEnd'[c] = "open"
  BY <1>5 DEF ClientRecv, CliTake
<1> QED
  BY <1>1, <1>2, <1>3, <1>4, <1>5
  DEF ClientStep, ServeStep, ClientReply, ClientGone, ClientCrash, InitiatorStep, InitiatorSend

\* Reading a descriptor keeps open those that are in the array by then.
LEMMA OpenRead ==
  ASSUME BaseInv, BatchInv, OpenInv, NEW c \in Clients, TcpRead(c)
  PROVE  OpenInv'
<1> USE DEF BaseInv, TypeOK, SockTypeOK
<1>1. /\ srvEnd[c] = "open" /\ pend \in Seq(Pended)
      /\ \A i \in DOMAIN pend : pend[i].fd # c
  BY DEF TcpRead, LinkInv, BatchInv, QemuTypeOK
<1>2. CASE toSrv[c] # <<>>
  <2> DEFINE m == [fd |-> c, msg |-> Head(toSrv[c])]
  <2>1. pend' = Append(pend, m) /\ UNCHANGED srvEnd BY <1>2 DEF TcpRead, SrvTake
  <2>2. m \in Pended /\ m.fd = c BY <1>2 DEF Pended
  <2> HIDE DEF m
  <2>3. /\ DOMAIN pend = 1 .. Len(pend) /\ DOMAIN pend' = 1 .. Len(pend) + 1
        /\ \A i \in 1 .. Len(pend) : pend'[i] = pend[i]
        /\ pend'[Len(pend) + 1] = m /\ Len(pend) \in Nat
    BY <1>1, <2>1, <2>2, AppendProperties
  <2>4. ASSUME NEW i \in DOMAIN pend' PROVE srvEnd'[pend'[i].fd] = "open"
    <3>1. CASE i = Len(pend) + 1 BY <1>1, <2>1, <2>2, <2>3, <3>1
    <3>2. CASE i # Len(pend) + 1
      <4>1. i \in DOMAIN pend BY <2>3, <3>2
      <4> QED BY <2>1, <2>3, <4>1 DEF OpenInv
    <3> QED BY <3>1, <3>2
  <2> QED BY <2>4 DEF OpenInv
<1>3. CASE toSrv[c] = <<>>
  <2>1. UNCHANGED pend /\ srvEnd' = [srvEnd EXCEPT ![c] = "closed"]
    BY <1>3 DEF TcpRead, SrvClose
  <2>2. \A i \in DOMAIN pend : pend[i] \in Pended BY <1>1
  <2>3. \A i \in DOMAIN pend : pend[i].fd \in Clients BY <2>2 DEF Pended
  <2> QED BY <1>1, <2>1, <2>3 DEF OpenInv
<1> QED BY <1>2, <1>3

\* Every step does.
LEMMA OpenStep == BaseInv /\ BatchInv /\ OpenInv /\ [Next]_vars => OpenInv'
<1> SUFFICES ASSUME BaseInv, BatchInv, OpenInv, [Next]_vars PROVE OpenInv'
  OBVIOUS
<1> USE DEF BaseInv, TypeOK, SockTypeOK
<1>1. CASE pend' = <<>> BY <1>1 DEF OpenInv
<1>2. CASE UNCHANGED <<srvEnd, pend>> BY <1>2 DEF OpenInv
<1>3. pend \in Seq(Pended) /\ \A i \in DOMAIN pend : pend[i].fd \in Clients
  <2>1. pend \in Seq(Pended) BY DEF QemuTypeOK
  <2>2. \A i \in DOMAIN pend : pend[i] \in Pended BY <2>1
  <2> QED BY <2>1, <2>2 DEF Pended
<1>4. CASE ClientStep /\ UNCHANGED qemuVars
  BY <1>3, <1>4, OpenKept DEF OpenInv, qemuVars, tcpVars
<1>5. CASE TcpServe
  <2>1. pend # <<>> /\ Head(pend).fd \in Clients BY <1>5, ServedTypes
  <2>2. CASE ServeWindow BY <1>2, <2>2 DEF ServeWindow, sockVars
  <2>3. CASE ~ServeWindow
    <3>1. pend' = Tail(pend) /\ UNCHANGED srvEnd
      <4>1. ASSUME NEW type, NEW status, NEW addr, NEW data, Answer(type, status, addr, data)
            PROVE  pend' = Tail(pend) /\ UNCHANGED srvEnd
        BY <4>1 DEF Answer, SrvSend, sockVars
      <4> QED
        BY <1>5, <2>3, <4>1 DEF TcpServe, ServeWrite, ServeRead, ServeIrq, ServeOther
    <3>2. /\ Len(pend) \in Nat /\ DOMAIN pend = 1 .. Len(pend)
          /\ DOMAIN pend' = 1 .. Len(pend) - 1
          /\ \A i \in 1 .. Len(pend) - 1 : pend'[i] = pend[i + 1]
      BY <1>3, <2>1, <3>1, HeadTailProperties
    <3> QED BY <3>1, <3>2 DEF OpenInv
  <2> QED BY <2>2, <2>3
<1>6. ASSUME NEW c \in Clients, SrvAccept(c), UNCHANGED pend PROVE OpenInv'
  BY <1>3, <1>6 DEF SrvAccept, OpenInv
<1>7. CASE TcpStep
  <2>1. CASE TcpLock \/ TcpPoll \/ TcpPark
    BY <1>2, <2>1 DEF TcpLock, TcpPoll, TcpPark, EpollCollect, sockVars
  <2>2. ASSUME NEW c \in Clients, TcpAccept(c) PROVE OpenInv'
    BY <1>6, <2>2 DEF TcpAccept
  <2>3. ASSUME NEW c \in Clients, TcpReadFail(c) PROVE OpenInv'
    BY <1>1, <2>3 DEF TcpReadFail, Blank
  <2> QED BY <1>5, <1>7, <2>1, <2>2, <2>3, OpenRead DEF TcpStep
<1>8. ASSUME NEW v \in Vcpus,
             TransferSend(v) \/ TransferRecv(v) \/ TransferFail(v) \/ \E r \in MmioRequests : MmioCall(v, r)
      PROVE  UNCHANGED <<srvEnd, pend>>
  BY <1>8
  DEF MmioCall, TransferSend, TransferRecv, TransferFail, Return, SrvSend, SrvTake, SrvTakeEnd,
      sockVars, tcpVars
<1>9. CASE QemuStep
  <2>1. CASE QemuStart \/ QemuExit BY <1>1, <2>1 DEF QemuStart, QemuExit, Blank
  <2>2. ASSUME NEW c \in Clients, Realize(c) PROVE OpenInv'
    BY <1>6, <2>2 DEF Realize, tcpVars
  <2> QED BY <1>2, <1>7, <1>8, <1>9, <2>1, <2>2 DEF QemuStep
<1> QED BY <1>2, <1>4, <1>9 DEF Next, vars, sockVars, qemuVars, tcpVars

\* A batch of vp_wait never has more requests than connections are open, however
\* many SystemC processes there are or have been: by the pigeonhole principle.
THEOREM BatchesFit == ASSUME IsFiniteSet(Clients) PROVE Spec => []BatchFits
<1> DEFINE Open == {c \in Clients : srvEnd[c] = "open"}
<1>1. ASSUME BaseInv, BatchInv, OpenInv PROVE BatchFits
  <2>1. pend \in Seq(Pended) BY <1>1 DEF BaseInv, TypeOK, QemuTypeOK
  <2>2. Len(pend) \in Nat /\ DOMAIN pend = 1 .. Len(pend) BY <2>1
  <2> DEFINE f == [i \in 1 .. Len(pend) |-> pend[i].fd]
  <2>3. f \in Injection(1 .. Len(pend), Open)
    <3>1. \A i \in 1 .. Len(pend) : pend[i] \in Pended BY <2>1, <2>2
    <3>2. f \in [1 .. Len(pend) -> Open] BY <1>1, <2>2, <3>1 DEF Pended, OpenInv
    <3>3. IsInjective(f) BY <1>1, <2>2 DEF IsInjective, BatchInv, OneRequestEach
    <3> QED BY <3>2, <3>3 DEF Injection
  <2>4. IsFiniteSet(Open) BY FS_Subset
  <2>5. Cardinality(1 .. Len(pend)) <= Cardinality(Open)
    <3> HIDE DEF f, Open
    <3> QED BY <2>3, <2>4, FS_Injection
  <2>6. Cardinality(1 .. Len(pend)) = Len(pend)
    <3>1. Cardinality(1 .. Len(pend)) = IF 1 > Len(pend) THEN 0 ELSE Len(pend) - 1 + 1
      <4>1. 1 \in Int /\ Len(pend) \in Int BY <2>2
      <4> QED BY <4>1, FS_Interval, Zenon
    <3> QED BY <2>2, <3>1
  <2> QED BY <2>5, <2>6 DEF BatchFits
<1>2. Init => OpenInv BY DEF Init, QemuInit, OpenInv
<1> QED BY BaseInit, BaseStep, BatchAlways, OpenStep, <1>1, <1>2, PTL DEF Spec
=============================================================================
