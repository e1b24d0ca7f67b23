--------------------------- MODULE CoSimInitiators ---------------------------
(***************************************************************************)
(* Proofs about the requests of the SystemC side, for any sets of          *)
(* processes, addresses and values and any requests they may initiate,     *)
(* while the guest leaves the window alone: there are no vCPUs.            *)
(***************************************************************************)
EXTENDS CoSimProofs

-----------------------------------------------------------------------------
(* Where a request is *)

\* An entry of a sequence was there before, or has been appended.
LEMMA Appended ==
  ASSUME NEW S, NEW s \in Seq(S), NEW e \in S, NEW i \in DOMAIN Append(s, e)
  PROVE  (\E j \in DOMAIN s : Append(s, e)[i] = s[j]) \/ Append(s, e)[i] = e
<1>1. /\ Len(s) \in Nat /\ DOMAIN s = 1 .. Len(s) /\ i \in 1 .. Len(s) + 1
      /\ \A j \in 1 .. Len(s) : Append(s, e)[j] = s[j]
      /\ Append(s, e)[Len(s) + 1] = e
  BY AppendProperties
<1> QED BY <1>1

\* An entry of the rest of a sequence was there before, after the first.
LEMMA Remaining ==
  ASSUME NEW S, NEW s \in Seq(S), s # <<>>, NEW i \in DOMAIN Tail(s)
  PROVE  1 \in DOMAIN s /\ \E j \in DOMAIN s : j # 1 /\ Tail(s)[i] = s[j]
<1>1. /\ Len(s) \in Nat /\ DOMAIN s = 1 .. Len(s) /\ i \in 1 .. Len(s) - 1
      /\ \A j \in 1 .. Len(s) - 1 : Tail(s)[j] = s[j + 1]
  BY HeadTailProperties
<1> QED BY <1>1

\* Nothing is lost when an entry is appended,
LEMMA Prolonged ==
  ASSUME NEW S, NEW s \in Seq(S), NEW e \in S
  PROVE  /\ DOMAIN s \subseteq DOMAIN Append(s, e) /\ \A i \in DOMAIN s : Append(s, e)[i] = s[i]
         /\ Len(s) + 1 \in DOMAIN Append(s, e) /\ Append(s, e)[Len(s) + 1] = e
<1>1. /\ Len(s) \in Nat /\ DOMAIN s = 1 .. Len(s) /\ DOMAIN Append(s, e) = 1 .. Len(s) + 1
      /\ \A j \in 1 .. Len(s) : Append(s, e)[j] = s[j]
      /\ Append(s, e)[Len(s) + 1] = e
  BY AppendProperties
<1> QED BY <1>1

\* and only the first when it is taken.
LEMMA Shortened ==
  ASSUME NEW S, NEW s \in Seq(S), s # <<>>, NEW i \in DOMAIN s, s[i] # Head(s)
  PROVE  \E j \in DOMAIN Tail(s) : Tail(s)[j] = s[i]
<1>1. /\ Len(s) \in Nat /\ DOMAIN s = 1 .. Len(s) /\ DOMAIN Tail(s) = 1 .. Len(s) - 1
      /\ \A j \in 1 .. Len(s) - 1 : Tail(s)[j] = s[j + 1]
      /\ Head(s) = s[1]
  BY HeadTailProperties
<1>2. i - 1 \in 1 .. Len(s) - 1 /\ s[(i - 1) + 1] = s[i]
  BY <1>1
<1> QED BY <1>1, <1>2

\* A step that does nothing on connection d but drop what was sent to QEMU.
LEMMA PlaceKept ==
  ASSUME NEW d \in Clients, OnePlace(d),
         UNCHANGED <<toCli[d], cliEnd[d], main[d], asked[d]>>,
         toSrv'[d] \in {toSrv[d], <<>>},
         Owed(d)' => srvEnd'[d] = "open",
         toSrv'[d] # <<>> => ~Gone(srvEnd'[d]),
         \A j \in DOMAIN pend' : pend'[j].fd = d => \E i \in DOMAIN pend : pend[i] = pend'[j]
  PROVE  OnePlace(d)'
<1>1. Owed(d)' => Owed(d)
  BY DEF Owed
<1> QED BY <1>1 DEF OnePlace, Blocked, Suits

\* The same for a step that leaves vpt[] as it is.
LEMMA PlaceUntouched ==
  ASSUME NEW d \in Clients, OnePlace(d),
         UNCHANGED <<toCli[d], toSrv[d], cliEnd[d], srvEnd[d], main[d], asked[d], pend>>
  PROVE  OnePlace(d)'
<1>1. Owed(d)' <=> Owed(d)
  BY DEF Owed
<1> QED BY <1>1, PlaceKept DEF OnePlace

\* A descriptor of the batch is read: a request goes into vpt[], the end of a
\* process whose request has been answered closes the descriptor.
LEMMA PlaceRead ==
  ASSUME BaseInv, BatchInv, AskedInv, NEW c \in Clients, TcpRead(c), UNCHANGED cpuVars
  PROVE  AskedInv'
<1> USE DEF BaseInv, TypeOK, SockTypeOK, QemuTypeOK, CpuTypeOK
<1>1. /\ c \in evs /\ srvEnd[c] = "open" /\ UNCHANGED <<main, asked>>
      /\ \A i \in DOMAIN pend : pend[i].fd # c
  BY DEF TcpRead, LinkInv, BatchInv, cpuVars
<1>2. CASE toSrv[c] # <<>>
  <2> DEFINE m == [fd |-> c, msg |-> Head(toSrv[c])]
  <2>1. /\ pend' = Append(pend, m) /\ toSrv' = [toSrv EXCEPT ![c] = Tail(@)]
        /\ UNCHANGED <<toCli, cliEnd, srvEnd>>
    BY <1>2 DEF TcpRead, SrvTake
  <2>2. m \in Pended
    BY <1>2 DEF Pended
  <2>4. /\ toCli[c] = <<>> /\ cliEnd[c] \in {"open", "closed"} /\ main[c] # "tlm"
        /\ Blocked(c) => main[c] = "wait"
        /\ Len(toSrv[c]) = 1
        /\ main[c] = "wait" => Blocked(c) /\ Head(toSrv[c]) = asked[c]
    BY <1>2 DEF AskedInv, OnePlace
  <2>5. toSrv'[c] = <<>>
    BY <2>1, <2>4, OneElement
  <2>6. m.fd = c /\ m.msg = Head(toSrv[c])
    OBVIOUS
  <2> HIDE DEF m
  <2>7. \A i \in DOMAIN pend' : (\E j \in DOMAIN pend : pend'[i] = pend[j]) \/ pend'[i] = m
    <3>1. pend \in Seq(Pended)
      OBVIOUS
    <3>2. \A i \in DOMAIN Append(pend, m) :
             (\E j \in DOMAIN pend : Append(pend, m)[i] = pend[j]) \/ Append(pend, m)[i] = m
      BY <2>2, <3>1, Appended
    <3>3. pend' = Append(pend, m)
      BY <2>1
    <3> QED BY <3>2, <3>3, Zenon
  <2>8. OnePlace(c)'
    <3>1. \A i \in DOMAIN pend' : pend'[i].fd = c => pend'[i] = m
      BY <1>1, <2>7
    <3>2. /\ UNCHANGED <<main[c], asked[c], toCli[c], cliEnd[c], srvEnd[c]>>
          /\ Blocked(c)' <=> Blocked(c)
      BY <1>1, <2>1 DEF Blocked
    <3> QED BY <1>1, <2>4, <2>5, <2>6, <3>1, <3>2 DEF OnePlace
  <2>9. ASSUME NEW d \in Clients, d # c PROVE OnePlace(d)'
    <3>1. \A j \in DOMAIN pend' : pend'[j].fd = d => \E i \in DOMAIN pend : pend[i] = pend'[j]
      BY <2>6, <2>7, <2>9
    <3>2. /\ Owed(d)' => srvEnd'[d] = "open"
          /\ toSrv'[d] # <<>> => ~Gone(srvEnd'[d])
      <4>1. toSrv'[d] = toSrv[d] /\ srvEnd'[d] = srvEnd[d]
        BY <2>1, <2>9
      <4>2. Owed(d)' => Owed(d)
        BY <3>1 DEF Owed
      <4>3. /\ Owed(d) => srvEnd[d] = "open"
            /\ toSrv[d] # <<>> => ~Gone(srvEnd[d])
        BY DEF AskedInv, OnePlace
      <4> QED BY <4>1, <4>2, <4>3
    <3>3. UNCHANGED <<toCli[d], toSrv[d], cliEnd[d], main[d], asked[d]>>
      BY <1>1, <2>1, <2>9
    <3> QED BY <3>1, <3>2, <3>3, PlaceKept DEF AskedInv
  <2> QED BY <2>8, <2>9 DEF AskedInv
<1>3. CASE toSrv[c] = <<>>
  <2>1. /\ srvEnd' = [srvEnd EXCEPT ![c] = "closed"]
        /\ UNCHANGED <<pend, toCli, toSrv, cliEnd>>
    BY <1>3 DEF TcpRead, SrvClose
  <2>2. ASSUME NEW d \in Clients PROVE OnePlace(d)'
    <3>1. /\ Owed(d)' => srvEnd'[d] = "open"
          /\ toSrv'[d] # <<>> => ~Gone(srvEnd'[d])
      BY <1>1, <1>3, <2>1 DEF Owed, AskedInv, OnePlace
    <3> QED BY <1>1, <2>1, <3>1, PlaceKept DEF AskedInv
  <2> QED BY <2>2 DEF AskedInv
<1> QED BY <1>2, <1>3

\* What tcp_thread answers to the first request of vpt[] suits it.
LEMMA ServedSuits ==
  ASSUME QemuTypeOK, TcpServe, ~ServeWindow
  PROVE  \E t \in FromQemu : /\ SrvSend(Head(pend).fd, t) /\ pend' = Tail(pend)
                             /\ Suits(t, Head(pend).msg)
<1> DEFINE m == Head(pend).msg
           Good == \E t \in FromQemu : /\ SrvSend(Head(pend).fd, t) /\ pend' = Tail(pend)
                                       /\ Suits(t, m)
<1>1. pend # <<>> /\ m \in Transfer
  BY ServedTypes
<1>2. m.addr \in Addr /\ m.data \in Values /\ 0 \in Values /\ NullAddr \in Addr /\ m.type \in VP_Type
  BY <1>1, AddrAssumption DEF Transfer, Addr
<1>3. (IF m.addr \in DramAddr THEN dram[m.addr] ELSE 0) \in Values
  BY <1>2 DEF QemuTypeOK
<1>4. ASSUME NEW type \in VP_Type \ {"VP_WRITE", "VP_READ"}, NEW status \in {"VP_OK", "VP_FAIL"},
             NEW addr \in Addr, NEW data \in Values, Answer(type, status, addr, data),
             Suits([type |-> type, status |-> status, addr |-> addr, data |-> data], m)
      PROVE  Good
  <2> DEFINE t == [type |-> type, status |-> status, addr |-> addr, data |-> data]
  <2>1. t \in FromQemu
    BY DEF FromQemu, Transfer, VP_Type
  <2>2. Suits(t, m)
    BY <1>4
  <2>3. SrvSend(Head(pend).fd, t) /\ pend' = Tail(pend)
    BY <1>4 DEF Answer
  <2> HIDE DEF t
  <2> QED BY <2>1, <2>2, <2>3
<1>5. ASSUME ServeWrite PROVE Good
  <2>1. m.type = "VP_WRITE"
    BY <1>5 DEF ServeWrite, Serving
  <2>2. PICK left \in Values : Answer("VP_WRITE_RESP", "VP_OK", m.addr, left)
    BY <1>5 DEF ServeWrite
  <2> QED BY <1>2, <1>4, <2>1, <2>2 DEF Suits, RespType, VP_Type
<1>6. ASSUME ServeRead PROVE Good
  <2>1. /\ m.type = "VP_READ"
        /\ Answer("VP_READ_RESP", "VP_OK", m.addr, IF m.addr \in DramAddr THEN dram[m.addr] ELSE 0)
    BY <1>6 DEF ServeRead, Serving
  <2> QED BY <1>2, <1>3, <1>4, <2>1 DEF Suits, RespType, VP_Type
<1>7. ASSUME ServeIrq PROVE Good
  <2>1. m.type = "VP_RAISE_IRQ" /\ Answer("VP_RAISE_IRQ_RESP", "VP_OK", NullAddr, 0)
    BY <1>7 DEF ServeIrq, Serving
  <2> QED BY <1>2, <1>4, <2>1 DEF Suits, RespType, VP_Type
<1>8. ASSUME ServeOther PROVE Good
  <2>1. m.type \notin {"VP_WRITE", "VP_READ", "VP_RAISE_IRQ"}
    BY <1>8 DEF ServeOther, Serving
  <2>2. PICK addr \in Addr, left \in Values : Answer("VP_ERROR", "VP_FAIL", addr, left)
    BY <1>8 DEF ServeOther
  <2> QED BY <1>4, <2>1, <2>2 DEF Suits, RespType, VP_Type
<1> QED BY <1>5, <1>6, <1>7, <1>8 DEF TcpServe

\* tcp_thread answers the first request of vpt[]: the answer is the one its
\* process waits for, or goes nowhere.
LEMMA PlaceServe ==
  ASSUME BaseInv, BatchInv, AskedInv, TcpServe, UNCHANGED cpuVars
  PROVE  AskedInv'
<1>1. UNCHANGED <<main, asked>> /\ TypeOK /\ LifeInv /\ OneRequestEach
  BY DEF cpuVars, BaseInv, BatchInv
<1>2. CASE ServeWindow
  BY <1>1, <1>2, PlaceUntouched DEF ServeWindow, sockVars, AskedInv
<1>3. CASE ~ServeWindow
  <2>0. PICK c \in Clients : c = Head(pend).fd
    BY <1>1, ServedTypes DEF TypeOK
  <2>1. PICK t \in FromQemu : /\ SrvSend(c, t) /\ pend' = Tail(pend)
                              /\ Suits(t, Head(pend).msg)
    BY <1>1, <1>3, <2>0, ServedSuits DEF TypeOK
  <2>2. pend # <<>> /\ pend \in Seq(Pended)
    BY <1>1, ServedTypes DEF TypeOK
  <2>3. Head(pend) = pend[1] /\ 1 \in DOMAIN pend
    BY <2>2, HeadTailProperties
  <2>4. \A i \in DOMAIN pend' : pend'[i].fd # c /\ \E j \in DOMAIN pend : pend[j] = pend'[i]
    BY <1>1, <2>0, <2>1, <2>2, <2>3, Remaining DEF OneRequestEach
  <2>5. Owed(c)
    BY <2>0, <2>3 DEF Owed
  <2>6. /\ srvEnd[c] = "open" /\ toCli[c] = <<>> /\ toSrv[c] = <<>> /\ main[c] # "tlm"
        /\ cliEnd[c] \in {"open", "closed"}
        /\ main[c] = "wait" => Blocked(c) /\ Head(pend).msg = asked[c]
        /\ Blocked(c) => main[c] = "wait"
    BY <2>0, <2>3, <2>5 DEF AskedInv, OnePlace
  <2>7. cliEnd[c] = "open" <=> main[c] = "wait"
    BY <1>1, <2>2, <2>6 DEF LifeInv
  <2>8. UNCHANGED <<toSrv, srvEnd>> /\ ~Owed(c)'
    BY <2>1, <2>4, <2>6 DEF SrvSend, Owed
  <2>9. OnePlace(c)'
    <3>1. CASE cliEnd[c] = "open"
      <4>1. toCli' = [toCli EXCEPT ![c] = Append(@, t)] /\ cliEnd' = [cliEnd EXCEPT ![c] = "open"]
        BY <2>1, <2>6, <3>1 DEF SrvSend, Gone, AfterSend
      <4>2. toCli'[c] = Append(<<>>, t) /\ toSrv'[c] = <<>>
        BY <1>1, <2>6, <2>8, <4>1 DEF TypeOK, SockTypeOK
      <4>3. Len(toCli'[c]) = 1 /\ Head(toCli'[c]) = t
        BY <4>2, OneElement
      <4>4. Blocked(c)' /\ asked'[c] = asked[c] /\ Suits(t, asked[c])
        BY <1>1, <2>0, <2>1, <2>6, <2>7, <3>1 DEF Blocked
      <4> QED BY <1>1, <2>4, <2>6, <2>7, <2>8, <3>1, <4>2, <4>3, <4>4 DEF OnePlace, Suits
    <3>2. CASE cliEnd[c] = "closed"
      <4>1. toCli' = toCli
        BY <2>1, <2>6, <3>2 DEF SrvSend, Gone
      <4> QED BY <1>1, <2>4, <2>6, <2>7, <2>8, <3>2, <4>1 DEF OnePlace, Blocked
    <3> QED BY <2>6, <3>1, <3>2
  <2>10. ASSUME NEW d \in Clients, d # c PROVE OnePlace(d)'
    <3>1. UNCHANGED <<toCli[d], toSrv[d], cliEnd[d], main[d], asked[d], srvEnd[d]>>
      <4>1. UNCHANGED <<toCli[d], cliEnd[d]>>
        BY <1>1, <2>1, <2>6, <2>10 DEF SrvSend, TypeOK, SockTypeOK
      <4> QED BY <1>1, <2>8, <4>1
    <3>2. \A j \in DOMAIN pend' : pend'[j].fd = d => \E i \in DOMAIN pend : pend[i] = pend'[j]
      BY <2>4
    <3>3. Owed(d)' => Owed(d)
      BY <3>2 DEF Owed
    <3>4. /\ Owed(d)' => srvEnd'[d] = "open"
          /\ toSrv'[d] # <<>> => ~Gone(srvEnd'[d])
      BY <3>1, <3>3 DEF AskedInv, OnePlace
    <3> QED BY <3>1, <3>2, <3>4, PlaceKept DEF AskedInv
  <2> QED BY <2>9, <2>10 DEF AskedInv
<1> QED BY <1>2, <1>3

\* Every step of a QEMU whose guest leaves the window alone.
LEMMA AskedQemu ==
  ASSUME Vcpus = {}, BaseInv, BatchInv, AskedInv, QemuStep, UNCHANGED cpuVars
  PROVE  AskedInv'
<1>1. UNCHANGED <<main, asked>>
  BY DEF cpuVars
<1>2. ASSUME pend' = <<>>, UNCHANGED <<toCli, cliEnd>>,
             UNCHANGED <<toSrv, srvEnd>> \/ toSrv' = [c \in Clients |-> <<>>]
      PROVE  AskedInv'
  <2> SUFFICES ASSUME NEW d \in Clients PROVE OnePlace(d)'
    BY DEF AskedInv
  <2>1. DOMAIN pend' = {} /\ ~Owed(d)'
    BY <1>2 DEF Owed
  <2>2. toSrv'[d] \in {toSrv[d], <<>>} /\ (toSrv'[d] # <<>> => ~Gone(srvEnd'[d]))
    BY <1>2 DEF AskedInv, OnePlace
  <2> QED BY <1>1, <1>2, <2>1, <2>2, PlaceKept DEF AskedInv
<1>3. CASE QemuStart
  BY <1>2, <1>3 DEF QemuStart, Blank, sockVars
<1>4. CASE QemuExit \/ \E c \in Clients : TcpReadFail(c)
  BY <1>2, <1>4 DEF QemuExit, TcpReadFail, Blank, SrvExit
<1>5. ASSUME NEW c \in Clients, Realize(c) \/ TcpAccept(c) PROVE AskedInv'
  <2>1. /\ srvEnd[c] = "backlog" /\ srvEnd' = [srvEnd EXCEPT ![c] = "open"]
        /\ UNCHANGED <<toSrv, toCli, cliEnd, pend>>
    BY <1>5 DEF Realize, TcpAccept, SrvAccept, tcpVars
  <2>2. ASSUME NEW d \in Clients PROVE OnePlace(d)'
    <3>1. /\ Owed(d)' => srvEnd'[d] = "open"
          /\ toSrv'[d] # <<>> => ~Gone(srvEnd'[d])
      BY <2>1 DEF Owed, AskedInv, OnePlace, BaseInv, TypeOK, SockTypeOK, Gone
    <3> QED BY <1>1, <2>1, <3>1, PlaceKept DEF AskedInv
  <2> QED BY <2>2 DEF AskedInv
<1>6. CASE TcpLock \/ TcpPoll \/ TcpPark
  <2>1. UNCHANGED <<toSrv, toCli, cliEnd, srvEnd, pend>>
    BY <1>6 DEF TcpLock, TcpPoll, TcpPark, EpollCollect, sockVars
  <2> QED BY <1>1, <2>1, PlaceUntouched DEF AskedInv
<1>7. CASE \E c \in Clients : TcpRead(c)
  BY <1>7, PlaceRead
<1>8. CASE TcpServe
  BY <1>8, PlaceServe
<1> QED BY <1>3, <1>4, <1>5, <1>6, <1>7, <1>8 DEF QemuStep, TcpStep

\* Every step of a SystemC process.
LEMMA AskedClient ==
  ASSUME BaseInv, BatchInv, AskedInv, ClientStep, UNCHANGED qemuVars
  PROVE  AskedInv'
<1> USE DEF BaseInv, TypeOK, SockTypeOK, CpuTypeOK
<1>1. UNCHANGED pend
  BY DEF qemuVars
<1>2. \A d \in Clients : Owed(d)' <=> Owed(d)
  BY <1>1 DEF Owed
<1>3. ASSUME NEW c \in Clients, OnePlace(c)',
             \A d \in Clients \ {c} :
               UNCHANGED <<toCli[d], toSrv[d], cliEnd[d], srvEnd[d], main[d], asked[d]>>
      PROVE  AskedInv'
  <2>1. \A d \in Clients \ {c} : OnePlace(d)'
    BY <1>1, <1>3, PlaceUntouched DEF AskedInv
  <2> QED BY <1>3, <2>1 DEF AskedInv
<1>4. ASSUME NEW c \in Clients, Launch(c, Listening) PROVE AskedInv'
  <2>1. cliEnd[c] = "unborn" /\ srvEnd[c] = "unborn" /\ toCli[c] = <<>> /\ toSrv[c] = <<>>
        /\ ~Blocked(c) /\ ~Owed(c)
    BY <1>4 DEF Launch, LifeInv, AskedInv, OnePlace
  <2>2. OnePlace(c)'
    BY <1>1, <1>2, <1>4, <2>1 DEF Launch, CliConnect, OnePlace, Blocked, Owed, sockVars
  <2> QED BY <1>3, <1>4, <2>2 DEF Launch, CliConnect, sockVars
<1>5. ASSUME NEW c \in Clients, main[c] \in {"wait", "tlm"}, Die(c) PROVE AskedInv'
  <2>1. /\ main'[c] = "dead" /\ ~Blocked(c)' /\ toCli'[c] = <<>>
        /\ UNCHANGED <<toSrv, srvEnd>>
        /\ cliEnd'[c] = CloseWith(toCli[c])
    BY <1>5 DEF Die, CliClose, Blocked
  <2>2. OnePlace(c)'
    BY <1>1, <1>2, <2>1 DEF OnePlace, AskedInv, CloseWith
  <2> QED BY <1>3, <1>5, <2>2 DEF Die, CliClose
<1>6. ASSUME NEW c \in Clients PROVE ~ClientRecv(c) /\ ~ClientReply(c)
  BY DEF ClientRecv, ClientReply, AskedInv, OnePlace
<1>7. ASSUME NEW c \in Clients, InitiatorSend(c), ~Die(c) PROVE AskedInv'
  <2>1. PICK t \in Initiations : /\ srvEnd[c] # "broken" /\ CliSend(c, t)
                                 /\ asked' = [asked EXCEPT ![c] = t]
                                 /\ UNCHANGED <<main, cur, mem>>
    BY <1>7 DEF InitiatorSend
  <2>2. t \in Transfer /\ t.status = "length" /\ t # NoTransfer
    BY InitiatorAssumption DEF NoTransfer
  <2>3. main[c] = "wait" /\ cliEnd[c] = "open" /\ ~Blocked(c)
    BY <1>7, InitiatorAssumption DEF InitiatorSend, AskedInv, OnePlace, LifeInv
  <2>4. toCli[c] = <<>> /\ toSrv[c] = <<>> /\ ~Owed(c)
    BY <2>3 DEF AskedInv, OnePlace, Owed
  <2>5. asked'[c] = t /\ Blocked(c)' /\ UNCHANGED <<toCli, cliEnd, main>>
    BY <2>1, <2>2 DEF CliSend, Blocked
  <2>6. toSrv'[c] # <<>> => Len(toSrv'[c]) = 1 /\ Head(toSrv'[c]) = t /\ ~Gone(srvEnd'[c])
    <3>1. toSrv'[c] = <<>> \/ (toSrv'[c] = Append(<<>>, t) /\ ~Gone(srvEnd'[c]))
      BY <2>1, <2>4 DEF CliSend, AfterSend
    <3>2. <<>> \in Seq(Transfer)
      OBVIOUS
    <3>3. Len(Append(<<>>, t)) = 1 /\ Head(Append(<<>>, t)) = t
      BY <2>2, <3>2, OneElement
    <3> QED BY <3>1, <3>3
  <2>7. OnePlace(c)'
    BY <1>1, <1>2, <2>3, <2>4, <2>5, <2>6 DEF OnePlace, Owed
  <2> QED BY <1>3, <2>1, <2>7 DEF CliSend
<1>8. ASSUME NEW c \in Clients, InitiatorRecv(c) PROVE AskedInv'
  <2>1. /\ asked' = [asked EXCEPT ![c] = NoTransfer] /\ UNCHANGED <<main, toSrv, cliEnd>>
        /\ Blocked(c) /\ main[c] \in {"wait", "tlm"}
    BY <1>8 DEF InitiatorRecv, CliTake
  <2>2. main[c] = "wait" /\ ~Blocked(c)'
    BY <2>1 DEF AskedInv, OnePlace, Blocked
  <2>3. CASE toCli[c] # <<>> /\ CliTake(c)
    <3>1. toCli'[c] = <<>>
      <4>1. Len(toCli[c]) = 1 /\ toCli'[c] = Tail(toCli[c])
        BY <2>3 DEF AskedInv, OnePlace, CliTake
      <4> QED BY <4>1, OneElement
    <3>2. toSrv[c] = <<>> /\ ~Owed(c)
      BY <2>3 DEF AskedInv, OnePlace
    <3>3. OnePlace(c)'
      BY <1>1, <1>2, <2>1, <2>2, <3>1, <3>2 DEF OnePlace, Owed
    <3> QED BY <1>3, <2>1, <2>3, <3>3 DEF CliTake
  <2>4. CASE toCli[c] = <<>> /\ Gone(srvEnd[c])
    <3>1. /\ srvEnd' = [srvEnd EXCEPT ![c] = AfterRecv(@)] /\ UNCHANGED toCli
      BY <1>8, <2>4 DEF InitiatorRecv
    <3>2. ~Owed(c) /\ toSrv[c] = <<>>
      BY <2>4 DEF AskedInv, OnePlace, Gone
    <3>3. OnePlace(c)'
      BY <1>1, <1>2, <2>1, <2>2, <2>4, <3>1, <3>2 DEF OnePlace, Owed
    <3> QED BY <1>3, <2>1, <3>1, <3>3
  <2> QED BY <1>8, <2>3, <2>4 DEF InitiatorRecv
<1>9. ASSUME NEW c \in Clients, ClientGone(c) \/ ClientCrash(c) \/ (InitiatorSend(c) /\ Die(c))
      PROVE  AskedInv'
  <2>1. main[c] \in {"wait", "tlm"} /\ Die(c)
    BY <1>9, InitiatorAssumption DEF ClientGone, ClientCrash, InitiatorSend
  <2> QED BY <1>5, <2>1
<1> QED
  BY <1>4, <1>6, <1>7, <1>8, <1>9 DEF ClientStep, ServeStep, InitiatorStep

-----------------------------------------------------------------------------
(* Edges *)

\* Steps of QEMU leave no edge unseen: tcp_thread reads what it is told of, and
\* the answer it sends to a process that has died is answered by an edge.
LEMMA EdgeQemuAsked ==
  ASSUME Vcpus = {}, BaseInv, BatchInv, AskedInv, EdgeNotLost, QemuStep, UNCHANGED cpuVars
  PROVE  EdgeNotLost'
<1> USE DEF BaseInv, TypeOK, SockTypeOK, QemuTypeOK
<1> DEFINE Seen(c) == qemu = "running" /\ Readable(c) /\ ~edge[c] => c \in evs \/ Owed(c)
<1>1. \A c \in Clients : Seen(c)
  BY DEF EdgeNotLost, Owed
<1>2. SUFFICES \A c \in Clients : Seen(c)'
  BY DEF EdgeNotLost, Owed
<1>3. CASE QemuStart \/ QemuExit \/ \E c \in Clients : TcpReadFail(c)
  BY <1>3 DEF QemuStart, QemuExit, TcpReadFail
<1>4. ASSUME NEW d \in Clients, Realize(d) \/ TcpAccept(d), NEW c \in Clients PROVE Seen(c)'
  <2>1. SrvAccept(d) /\ UNCHANGED pend
    BY <1>4 DEF Realize, TcpAccept, tcpVars
  <2>2. CASE Realize(d)
    BY <2>1, <2>2, QemuAssumption DEF Realize, LinkInv, Running, SrvAccept, Readable
  <2>3. CASE TcpAccept(d)
    <3>1. qemu = "running" /\ evs' = evs \ {Listener}
      BY <2>3 DEF TcpAccept, Running
    <3>2. Owed(c)' <=> Owed(c)
      BY <2>1 DEF Owed
    <3> QED BY <1>1, <2>1, <3>1, <3>2, QemuAssumption DEF SrvAccept, Readable
  <2> QED BY <1>4, <2>2, <2>3
<1>5. CASE TcpLock \/ TcpPark
  <2>1. /\ UNCHANGED <<toSrv, cliEnd, srvEnd, edge, pend, qemu>>
        /\ UNCHANGED evs
    BY <1>5 DEF TcpLock, TcpPark, sockVars
  <2> QED BY <1>1, <2>1 DEF Readable, Owed
<1>6. CASE TcpPoll
  <2>1. evs = {} /\ qemu' = qemu /\ UNCHANGED pend
    BY <1>6 DEF TcpPoll, LockInv
  <2>2. PICK E \in SUBSET ReadyFds : evs' = E /\ EpollCollect(E)
    BY <1>6 DEF TcpPoll
  <2>3. \A c \in Clients : Owed(c)' <=> Owed(c)
    BY <2>1 DEF Owed
  <2> QED BY <1>1, <2>1, <2>2, <2>3 DEF EpollCollect, Readable
<1>7. ASSUME NEW d \in Clients, TcpRead(d), NEW c \in Clients PROVE Seen(c)'
  <2>1. evs' = evs \ {d} /\ qemu' = qemu
    BY <1>7 DEF TcpRead
  <2>2. CASE toSrv[d] # <<>>
    <3> DEFINE m == [fd |-> d, msg |-> Head(toSrv[d])]
    <3>1. pend' = Append(pend, m) /\ toSrv' = [toSrv EXCEPT ![d] = Tail(@)]
          /\ UNCHANGED <<srvEnd, cliEnd, edge>>
      BY <1>7, <2>2 DEF TcpRead, SrvTake
    <3>2. m \in Pended /\ m.fd = d
      BY <2>2 DEF Pended
    <3> HIDE DEF m
    <3>3. /\ DOMAIN pend \subseteq DOMAIN pend' /\ \A i \in DOMAIN pend : pend'[i] = pend[i]
          /\ Len(pend) + 1 \in DOMAIN pend' /\ pend'[Len(pend) + 1] = m
      <4>1. pend \in Seq(Pended)
        OBVIOUS
      <4>2. /\ DOMAIN pend \subseteq DOMAIN Append(pend, m)
            /\ \A i \in DOMAIN pend : Append(pend, m)[i] = pend[i]
            /\ Len(pend) + 1 \in DOMAIN Append(pend, m)
            /\ Append(pend, m)[Len(pend) + 1] = m
        BY <3>2, <4>1, Prolonged
      <4>3. pend' = Append(pend, m)
        BY <3>1
      <4> QED BY <4>2, <4>3, Zenon
    <3>4. Owed(d)' /\ (Owed(c) => Owed(c)')
      BY <3>2, <3>3 DEF Owed
    <3> QED BY <1>1, <2>1, <3>1, <3>4 DEF Readable
  <2>3. CASE toSrv[d] = <<>>
    <3>1. SrvClose(d) /\ UNCHANGED pend
      BY <1>7, <2>3 DEF TcpRead
    <3>2. Owed(c)' <=> Owed(c)
      BY <3>1 DEF Owed
    <3> QED BY <1>1, <2>1, <3>1, <3>2 DEF SrvClose, Readable
  <2> QED BY <2>2, <2>3
<1>8. ASSUME TcpServe, NEW c \in Clients PROVE Seen(c)'
  <2>1. UNCHANGED <<qemu, evs>>
    BY <1>8 DEF TcpServe, ServeWrite, ServeRead, ServeIrq, ServeWindow, ServeOther, Serving
  <2>2. CASE ServeWindow
    BY <1>1, <2>1, <2>2 DEF ServeWindow, Readable, Owed, sockVars
  <2>3. CASE ~ServeWindow
    <3>1. PICK d \in Clients : d = Head(pend).fd
      BY <1>8, ServedTypes
    <3>2. PICK t \in FromQemu : SrvSend(d, t) /\ pend' = Tail(pend)
      BY <1>8, <2>3, <3>1, ServedSuits
    <3>3. pend # <<>> /\ pend \in Seq(Pended)
      BY <1>8, ServedTypes
    <3>4. Owed(d)
      <4>1. Head(pend) = pend[1] /\ 1 \in DOMAIN pend
        BY <3>3, HeadTailProperties
      <4> QED BY <3>1, <4>1 DEF Owed
    <3>5. srvEnd[d] = "open" /\ toSrv[d] = <<>> /\ cliEnd[d] \in {"open", "closed"}
      BY <3>4 DEF AskedInv, OnePlace
    <3>6. /\ edge' = [edge EXCEPT ![d] = @ \/ cliEnd[d] = "closed"]
          /\ cliEnd' = [cliEnd EXCEPT ![d] = AfterSend(@)]
          /\ UNCHANGED <<toSrv, srvEnd>>
      BY <3>2, <3>5 DEF SrvSend
    <3>7. CASE c = d
      BY <3>5, <3>6, <3>7 DEF Readable, AfterSend, Gone
    <3>8. CASE c # d
      <4>1. Owed(c) => Owed(c)'
        <5> SUFFICES ASSUME NEW i \in DOMAIN pend, pend[i].fd = c PROVE Owed(c)'
          BY DEF Owed
        <5>1. pend[i] # Head(pend)
          BY <3>1, <3>8
        <5>2. PICK j \in DOMAIN Tail(pend) : Tail(pend)[j] = pend[i]
          BY <3>3, <5>1, Shortened
        <5> QED BY <3>2, <5>2 DEF Owed
      <4> QED BY <1>1, <2>1, <3>6, <3>8, <4>1 DEF Readable
    <3> QED BY <3>7, <3>8
  <2> QED BY <2>2, <2>3
<1> QED
  BY <1>3, <1>4, <1>5, <1>6, <1>7, <1>8 DEF QemuStep, TcpStep

\* Nor do those of a SystemC process.
LEMMA EdgeClientAsked ==
  ASSUME BaseInv, AskedInv, EdgeNotLost, ClientStep, UNCHANGED qemuVars
  PROVE  EdgeNotLost'
<1> USE DEF BaseInv, TypeOK, SockTypeOK
<1> DEFINE Seen(c) == qemu = "running" /\ Readable(c) /\ ~edge[c] => c \in evs \/ Owed(c)
<1>1. /\ UNCHANGED <<pend, qemu, evs>>
      /\ \A c \in Clients : Seen(c)
  BY DEF EdgeNotLost, Owed, qemuVars
<1>2. \A c \in Clients : Owed(c)' <=> Owed(c)
  BY <1>1 DEF Owed
<1>3. SUFFICES \A c \in Clients : Seen(c)'
  BY DEF EdgeNotLost, Owed
<1>4. ASSUME NEW d \in Clients, Launch(d, Listening) PROVE \A c \in Clients : Seen(c)'
  BY <1>1, <1>2, <1>4 DEF Launch, CliConnect, Readable, Gone, sockVars
<1>5. ASSUME NEW d \in Clients, Die(d) PROVE \A c \in Clients : Seen(c)'
  BY <1>1, <1>2, <1>5 DEF Die, CliClose, Readable
<1>6. ASSUME NEW d \in Clients, NEW t, CliSend(d, t) PROVE \A c \in Clients : Seen(c)'
  BY <1>1, <1>2, <1>6 DEF CliSend, AfterSend, Readable, Gone
<1>7. ASSUME NEW d \in Clients, InitiatorRecv(d) PROVE \A c \in Clients : Seen(c)'
  BY <1>1, <1>2, <1>7 DEF InitiatorRecv, CliTake, AfterRecv, Readable, Gone
<1>8. ASSUME NEW d \in Clients PROVE ~ClientRecv(d) /\ ~ClientReply(d)
  BY DEF ClientRecv, ClientReply, AskedInv, OnePlace
<1> QED
  BY <1>4, <1>5, <1>6, <1>7, <1>8
  DEF ClientStep, ServeStep, ClientGone, ClientCrash, InitiatorStep, InitiatorSend

-----------------------------------------------------------------------------
(* The theorems *)

\* The invariant of the dialogue holds at the beginning, and every step keeps it.
LEMMA DialogueStep ==
  ASSUME Vcpus = {}
  PROVE  (Init => DialogueInv) /\ (DialogueInv /\ [Next]_vars => DialogueInv')
<1>1. ASSUME Init PROVE DialogueInv
  <2>1. BaseInv
    BY <1>1, BaseInit
  <2>2. AskedInv
    BY <1>1 DEF Init, SockInit, QemuInit, CpuInit, AskedInv, OnePlace, Owed, Blocked
  <2>3. EdgeNotLost /\ BatchInv
    BY <1>1 DEF Init, SockInit, QemuInit, EdgeNotLost, BatchInv, OneRequestEach
  <2> QED BY <2>1, <2>2, <2>3 DEF DialogueInv, BaseInv
<1>2. ASSUME DialogueInv, [Next]_vars PROVE DialogueInv'
  <2>1. BaseInv /\ TypeOK /\ BatchInv /\ AskedInv /\ EdgeNotLost
    BY <1>2 DEF DialogueInv, BaseInv
  <2>2. BaseInv' /\ BatchInv'
    BY <1>2, <2>1, BaseStep, BatchStep
  <2>3. CASE QemuStep /\ UNCHANGED cpuVars
    <3>1. AskedInv' /\ EdgeNotLost'
      BY <2>1, <2>3, AskedQemu, EdgeQemuAsked
    <3> QED BY <2>2, <3>1 DEF DialogueInv, BaseInv
  <2>4. CASE ClientStep /\ UNCHANGED qemuVars
    <3>1. AskedInv' /\ EdgeNotLost'
      BY <2>1, <2>4, AskedClient, EdgeClientAsked
    <3> QED BY <2>2, <3>1 DEF DialogueInv, BaseInv
  <2>5. CASE UNCHANGED vars
    <3>1. UNCHANGED <<toCli, toSrv, cliEnd, srvEnd, edge, main, asked, pend, qemu, evs>>
      BY <2>5 DEF vars, sockVars, qemuVars, cpuVars
    <3>2. AskedInv'
      BY <2>1, <3>1, PlaceUntouched DEF AskedInv
    <3>3. EdgeNotLost'
      BY <2>1, <3>1 DEF EdgeNotLost, Readable
    <3> QED BY <2>2, <3>2, <3>3 DEF DialogueInv, BaseInv
  <2> QED BY <1>2, <2>3, <2>4, <2>5 DEF Next
<1> QED BY <1>1, <1>2

\* While the guest leaves the window alone, the request of every initiator is at
\* one place, with any number of processes that ask, die and are replaced.
THEOREM Dialogue == ASSUME Vcpus = {} PROVE Spec => []DialogueInv
<1>1. (Init => DialogueInv) /\ (DialogueInv /\ [Next]_vars => DialogueInv')
  BY DialogueStep
<1> QED BY <1>1, PTL DEF Spec

\* Then every initiator gets the answer to what it asked, by its type, its status
\* and its address; the length and the data of a read or write are not compared.
THEOREM InitiatorsCorrect == ASSUME Vcpus = {} PROVE Spec => InitiatorsAreAnswered
<1> DEFINE Good ==
      \A c \in Clients :
        Blocked(c) /\ asked'[c] = NoTransfer /\ toCli[c] # <<>> /\ main'[c] # "dead" =>
          Suits(Head(toCli[c]), asked[c])
<1>1. DialogueInv => Good
  BY DEF DialogueInv, AskedInv, OnePlace
<1>2. DialogueInv /\ [Next]_vars => [Good]_vars
  BY <1>1
<1> QED BY Dialogue, <1>2, PTL DEF Spec, InitiatorsAreAnswered

\* And no input and no end of file is left behind on an edge-triggered
\* descriptor, though vp_wait reads one request for each event.
THEOREM EdgesKeptForInitiators == ASSUME Vcpus = {} PROVE Spec => []EdgeNotLost
<1>1. DialogueInv => EdgeNotLost
  BY DEF DialogueInv
<1> QED BY Dialogue, <1>1, PTL
=============================================================================
