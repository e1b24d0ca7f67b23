----------------------------- MODULE AtomicMmio -----------------------------
(***************************************************************************)
(* What mmio_bus_read and mmio_bus_write (mmio_bus.c) promise the guest:   *)
(* an access is carried out by one SystemC process, at most once, and, if  *)
(* the callback received an answer, exactly once between its call and its  *)
(* return, with the word that process held at that moment.  There are no   *)
(* sockets, locks or threads here.  An access that gets no answer may be   *)
(* carried out or not, before its callback has returned or after.          *)
(***************************************************************************)
CONSTANTS Clients, Requests, Nobody, NoRequest

VARIABLES
  store,   \* store[c]: the words of SystemC process c
  order,   \* order[c]: a request on its way to c
  call,    \* the call in progress: where it went, what it asks, what came of it
  result   \* what the latest call returned

amVars == <<store, order, call, result>>

Idle == [st |-> "idle", to |-> Nobody, req |-> NoRequest, data |-> 0]
Nothing == [answered |-> FALSE, data |-> 0]

AMInit ==
  /\ order = [c \in Clients |-> NoRequest]
  /\ call = Idle
  /\ result = Nothing

\* A call sends its request, or finds a process that is gone.
Issue(c, r) ==
  /\ call = Idle
  /\ \E st \in {"issued", "lost"} :
       /\ call' = [st |-> st, to |-> c, req |-> r, data |-> 0]
       /\ order' = [order EXCEPT ![c] = IF st = "issued" THEN r ELSE @]
  /\ UNCHANGED <<store, result>>

\* c carries out the request; what it yields belongs to the call, unless that
\* call is over.
CarryOut(c) ==
  LET r == order[c] IN
  /\ r # NoRequest
  /\ order' = [order EXCEPT ![c] = NoRequest]
  /\ store' = IF r.type = "VP_WRITE"
              THEN [store EXCEPT ![c][r.addr] = r.data] ELSE store
  /\ call' = IF call.st = "issued" /\ call.to = c
             THEN [call EXCEPT !.st = "done",
                               !.data = IF r.type = "VP_READ" THEN store[c][r.addr] ELSE 0]
             ELSE call
  /\ UNCHANGED result

\* The process dies: what it had not answered is not answered.
Lose(c) ==
  /\ order' = [order EXCEPT ![c] = NoRequest]
  /\ call' = IF call.to = c
             THEN [st |-> "lost", to |-> c, req |-> call.req, data |-> 0] ELSE call
  /\ UNCHANGED <<store, result>>

Return ==
  /\ call.st = "done"
  /\ call' = Idle
  /\ result' = [answered |-> TRUE, data |-> call.data]
  /\ UNCHANGED <<store, order>>

\* The call ends without an answer, or QEMU does.
GiveUp ==
  /\ call' = Idle
  /\ result' = Nothing
  /\ UNCHANGED <<store, order>>

AMNext == \/ \E c \in Clients : \/ \E r \in Requests : Issue(c, r)
                                \/ CarryOut(c)
                                \/ Lose(c)
          \/ Return
          \/ GiveUp

AMSpec == AMInit /\ [][AMNext]_amVars
=============================================================================
