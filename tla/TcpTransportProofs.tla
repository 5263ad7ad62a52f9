------------------------- MODULE TcpTransportProofs -------------------------
(***************************************************************************)
(* Theorems about TcpTransport, for every number of connections, bytes and *)
(* effects and every capacity of the pipe and the sockets.                 *)
(***************************************************************************)
EXTENDS TcpTransport, FiniteSetTheorems, SequenceTheorems, TLAPS

LEMMA IdsFacts == Ids \subseteq Nat /\ 0 \in Ids
BY ConstantsAssumption DEF Ids, ConstantsAssumption

LEMMA EffectListsAreSequences == EffectLists \subseteq Seq(Effect)
<1> SUFFICES ASSUME NEW e \in EffectLists PROVE e \in Seq(Effect)
  OBVIOUS
<1>1. PICK n \in 0 .. MaxEffects : e \in [1 .. n -> Effect]
  BY DEF EffectLists
<1>2. n \in Nat
  BY ConstantsAssumption DEF ConstantsAssumption
<1>. QED
  BY <1>1, <1>2

(* The events the threads send are events.                                 *)
LEMMA EventType ==
  ASSUME NEW id \in Ids, NEW lo \in Nat, NEW hi \in Nat
  PROVE  /\ Connected(id) \in TcpEvent
         /\ Disconnected(id) \in TcpEvent
         /\ Data(id, lo, hi) \in TcpEvent
BY DEF Connected, Disconnected, Data, TcpEvent

LEMMA HeadTail ==
  ASSUME NEW S, NEW s \in Seq(S), s # <<>>
  PROVE  Head(s) \in S /\ Tail(s) \in Seq(S)
OBVIOUS

LEMMA CounterUp ==
  ASSUME NEW n \in Nat, NEW f \in [Ids -> 0 .. n], NEW id \in Ids, f[id] < n
  PROVE  [f EXCEPT ![id] = @ + 1] \in [Ids -> 0 .. n]
OBVIOUS

LEMMA CounterDown ==
  ASSUME NEW n \in Nat, NEW f \in [Ids -> 0 .. n], NEW id \in Ids, f[id] > 0
  PROVE  [f EXCEPT ![id] = @ - 1] \in [Ids -> 0 .. n]
OBVIOUS

-----------------------------------------------------------------------------
(* Type correctness.  It needs to know that nothing is in the pipe when the*)
(* client start-up writes to it, and that the listener has an id.          *)

TypeInv == TypeOK /\ NothingBeforeStart /\ ListenerHasId

LEMMA TypeInvInit == Init => TypeInv
<1> SUFFICES ASSUME Init PROVE TypeInv
  OBVIOUS
<1>1. TypeOK
  BY ConstantsAssumption, EffectListsAreSequences
  DEF Init, TypeOK, ConstantsAssumption, Ids
<1>2. NothingBeforeStart
  BY DEF Init, NothingBeforeStart
<1>3. ListenerHasId
  BY DEF Init, ListenerHasId
<1>. QED
  BY <1>1, <1>2, <1>3 DEF TypeInv

LEMMA StartTypeInv ==
  ASSUME TypeInv, init_tcp_from_subs
  PROVE  TypeInv'
<1> USE ConstantsAssumption, IdsFacts
    DEF ConstantsAssumption, TypeInv, TypeOK, NothingBeforeStart,
        ListenerHasId, netVars, threadVars
<1>1. CASE StartServer
  BY <1>1 DEF StartServer
<1>2. CASE StartClient
  <2>1. Connected(0) \in TcpEvent
    BY EventType
  <2>2. events' \in Seq(TcpEvent)
    BY <1>2, <2>1 DEF StartClient
  <2>3. pipe' \in 0 .. PipeCap
    BY <1>2 DEF StartClient
  <2>4. TypeOK'
    BY <1>2, <2>2, <2>3 DEF StartClient
  <2>5. NothingBeforeStart'
    BY <1>2 DEF StartClient
  <2>6. ListenerHasId'
    BY <1>2 DEF StartClient
  <2>. QED
    BY <2>4, <2>5, <2>6
<1>3. CASE StartNothing
  BY <1>3 DEF StartNothing
<1>. QED
  BY <1>1, <1>2, <1>3 DEF init_tcp_from_subs

LEMMA ListenerTypeInv ==
  ASSUME TypeInv, Listener
  PROVE  TypeInv'
<1> USE ConstantsAssumption, IdsFacts
    DEF ConstantsAssumption, TypeInv, netVars, mainVars, threadVars
<1>1. TypeOK'
  <2> USE DEF TypeOK
  <2>1. CASE Accept
    <3>1. next_id \in Ids
      BY <2>1 DEF Accept, Ids
    <3>2. next_id' \in 0 .. MaxConns
      BY <2>1 DEF Accept
    <3>. QED
      BY <2>1, <3>1, <3>2 DEF Accept
  <2>2. CASE AcceptCloneFails
    <3>1. next_id' \in 0 .. MaxConns
      BY <2>2 DEF AcceptCloneFails
    <3>. QED
      BY <2>2, <3>1 DEF AcceptCloneFails
  <2>3. CASE ListenerSend
    <3>1. next_id - 1 \in Ids
      BY <2>3 DEF ListenerSend, Ids, ListenerHasId
    <3>2. Connected(next_id - 1) \in TcpEvent
      BY <3>1, EventType
    <3>3. events' \in Seq(TcpEvent)
      BY <2>3, <3>2 DEF ListenerSend
    <3>. QED
      BY <2>3, <3>3 DEF ListenerSend
  <2>4. CASE ListenerNotify
    <3>1. pipe' \in 0 .. PipeCap
      BY <2>4 DEF ListenerNotify
    <3>. QED
      BY <2>4, <3>1 DEF ListenerNotify
  <2>5. CASE ListenerSpawn
    <3>1. next_id - 1 \in Ids
      BY <2>5 DEF ListenerSpawn, Ids, ListenerHasId
    <3>. QED
      BY <2>5, <3>1 DEF ListenerSpawn
  <2>. QED
    BY <2>1, <2>2, <2>3, <2>4, <2>5 DEF Listener, Announce
<1>2. NothingBeforeStart'
  BY DEF NothingBeforeStart, Listener, Announce, Accept, AcceptCloneFails,
         ListenerSend, ListenerNotify, ListenerSpawn
<1>3. ListenerHasId'
  BY DEF ListenerHasId, TypeOK, Listener, Announce, Accept, AcceptCloneFails,
         ListenerSend, ListenerNotify, ListenerSpawn
<1>. QED
  BY <1>1, <1>2, <1>3

LEMMA ReaderTypeInv ==
  ASSUME TypeInv, NEW id \in Ids, Reader(id)
  PROVE  TypeInv'
<1> USE ConstantsAssumption, IdsFacts
    DEF ConstantsAssumption, TypeInv, netVars, mainVars, threadVars
<1>1. TypeOK'
  <2> USE DEF TypeOK
  <2>1. CASE ReadData(id)
    <3>1. buf' \in [Ids -> 0 .. BufSize]
      BY <2>1 DEF ReadData
    <3>2. reader' \in [Ids -> {"none", "read", "sendData", "notifyData",
                              "sendEnd", "notifyEnd", "done"}]
      BY <2>1 DEF ReadData
    <3>. QED
      BY <2>1, <3>1, <3>2 DEF ReadData
  <2>2. CASE ReadEnd(id)
    BY <2>2 DEF ReadEnd
  <2>3. CASE SendData(id)
    <3>1. /\ buf[id] \in Nat /\ taken[id] \in Nat
          /\ Data(id, taken[id] + 1, taken[id] + buf[id]) \in TcpEvent
      <4>1. buf[id] \in 0 .. BufSize /\ taken[id] \in Nat
        OBVIOUS
      <4>2. buf[id] \in Nat
        BY <4>1, ConstantsAssumption DEF ConstantsAssumption
      <4>. HIDE DEF TypeInv, TypeOK
      <4>3. taken[id] + 1 \in Nat /\ taken[id] + buf[id] \in Nat
        BY <4>1, <4>2
      <4>. QED
        BY <4>1, <4>2, <4>3, EventType
    <3>2. events' \in Seq(TcpEvent)
      BY <2>3, <3>1 DEF SendData
    <3>3. taken' \in [Ids -> Nat]
      <4>1. taken \in [Ids -> Nat]
        OBVIOUS
      <4>2. taken' = [taken EXCEPT ![id] = taken[id] + buf[id]]
        BY <2>3 DEF SendData
      <4>. HIDE DEF TypeInv, TypeOK
      <4>. QED
        BY <3>1, <4>1, <4>2
    <3>4. buf' \in [Ids -> 0 .. BufSize]
      BY <2>3 DEF SendData
    <3>. QED
      BY <2>3, <3>2, <3>3, <3>4 DEF SendData
  <2>4. CASE SendEnd(id)
    <3>1. Disconnected(id) \in TcpEvent
      BY EventType
    <3>2. events' \in Seq(TcpEvent)
      BY <2>4, <3>1 DEF SendEnd
    <3>. QED
      BY <2>4, <3>2 DEF SendEnd
  <2>5. CASE ReaderNotify(id)
    <3>1. pipe' \in 0 .. PipeCap
      BY <2>5 DEF ReaderNotify
    <3>. QED
      BY <2>5, <3>1 DEF ReaderNotify
  <2>. QED
    BY <2>1, <2>2, <2>3, <2>4, <2>5 DEF Reader
<1>2. NothingBeforeStart'
  BY DEF NothingBeforeStart, Reader, ReadData, ReadEnd, SendData, SendEnd,
         ReaderNotify
<1>3. ListenerHasId'
  BY DEF ListenerHasId, Reader, ReadData, ReadEnd, SendData, SendEnd,
         ReaderNotify
<1>. QED
  BY <1>1, <1>2, <1>3

LEMMA MainTypeInv ==
  ASSUME TypeInv, DrainByte \/ TryRecv \/ Update \/ OtherWakeup
  PROVE  TypeInv'
<1> USE ConstantsAssumption, IdsFacts
    DEF ConstantsAssumption, TypeInv, TypeOK, NothingBeforeStart,
        ListenerHasId, netVars, threadVars
<1>1. CASE DrainByte
  <2>1. pipe' \in 0 .. PipeCap
    BY <1>1 DEF DrainByte
  <2>. QED
    BY <1>1, <2>1 DEF DrainByte
<1>2. CASE TryRecv
  <2>1. CASE events = <<>>
    BY <1>2, <2>1 DEF TryRecv
  <2>2. CASE events # <<>>
    <3>1. events' \in Seq(TcpEvent)
      <4>1. Tail(events) \in Seq(TcpEvent)
        BY <2>2, HeadTail
      <4>. QED
        BY <1>2, <2>2, <4>1 DEF TryRecv
    <3>2. Head(events).id \in Ids /\ Head(events).hi \in Nat
      <4>1. Head(events) \in TcpEvent
        BY <2>2, HeadTail
      <4>. QED
        BY <4>1 DEF TcpEvent
    <3>3. CASE OnConnected(Head(events).id)
      <4>1. /\ seen' \in [Ids -> {"unknown", "connected", "gone"}]
            /\ writers' \subseteq Ids
            /\ pc' \in {"update", "wait"}
        BY <3>2, <3>3 DEF OnConnected, AfterEvent
      <4>. QED
        BY <1>2, <2>2, <3>1, <3>3, <4>1 DEF TryRecv, OnConnected
    <3>4. CASE OnDisconnected(Head(events).id)
      <4>1. /\ seen' \in [Ids -> {"unknown", "connected", "gone"}]
            /\ writers' \subseteq Ids
            /\ pc' \in {"update", "wait"}
        BY <3>2, <3>4 DEF OnDisconnected, AfterEvent
      <4>. QED
        BY <1>2, <2>2, <3>1, <3>4, <4>1 DEF TryRecv, OnDisconnected
    <3>5. CASE OnData(Head(events).id, Head(events).hi)
      <4>1. got' \in [Ids -> Nat] /\ pc' \in {"update", "wait"}
        BY <3>2, <3>5 DEF OnData, AfterEvent
      <4>. QED
        BY <1>2, <2>2, <3>1, <3>5, <4>1 DEF TryRecv, OnData
    <3>. QED
      BY <1>2, <2>2, <3>3, <3>4, <3>5 DEF TryRecv
  <2>. QED
    BY <2>1, <2>2
<1>3. CASE Update
  BY <1>3, EffectListsAreSequences DEF Update
<1>4. CASE OtherWakeup
  BY <1>4 DEF OtherWakeup, StdinEvent, TimerEvent, WaitReturnsNone
<1>. QED
  BY <1>1, <1>2, <1>3, <1>4

LEMMA EffectsTypeInv ==
  ASSUME TypeInv, handle_effects
  PROVE  TypeInv'
<1> USE ConstantsAssumption, IdsFacts
    DEF ConstantsAssumption, TypeInv, TypeOK, NothingBeforeStart,
        ListenerHasId, netVars, threadVars
<1>1. CASE effects = <<>>
  BY <1>1 DEF handle_effects, SendDropped, SendWritten, SendFails, ExitEffect,
              EffectsDone, NextEffect
<1>2. CASE effects # <<>>
  <2>1. Tail(effects) \in Seq(Effect) /\ Head(effects).stream \in Ids
    BY <1>2 DEF Effect, TcpSend, Exit
  <2>2. CASE SendDropped
    BY <2>1, <2>2 DEF SendDropped, NextEffect
  <2>3. CASE SendWritten
    <3>1. unread' \in [Ids -> 0 .. SendCap]
      BY <2>1, <2>3, CounterUp DEF SendWritten
    <3>. QED
      BY <2>1, <2>3, <3>1 DEF SendWritten, NextEffect
  <2>4. CASE SendFails
    BY <2>1, <2>4 DEF SendFails, NextEffect
  <2>5. CASE ExitEffect
    BY <2>1, <2>5 DEF ExitEffect, NextEffect
  <2>. QED
    BY <1>2, <2>2, <2>3, <2>4, <2>5 DEF handle_effects, EffectsDone
<1>. QED
  BY <1>1, <1>2

LEMMA NetworkTypeInv ==
  ASSUME TypeInv, NEW id \in Ids, Network(id)
  PROVE  TypeInv'
<1> USE ConstantsAssumption, IdsFacts
    DEF ConstantsAssumption, TypeInv, TypeOK, NothingBeforeStart,
        ListenerHasId, mainVars, threadVars
<1>1. CASE PeerSend(id)
  <2>1. sent' \in [Ids -> 0 .. MaxBytes]
    BY <1>1, CounterUp DEF PeerSend
  <2>. QED
    BY <1>1, <2>1 DEF PeerSend
<1>2. CASE PeerClose(id)
  BY <1>2 DEF PeerClose
<1>3. CASE PeerReset(id)
  <2>1. unread' \in [Ids -> 0 .. SendCap]
    BY <1>3 DEF PeerReset
  <2>2. peer' \in [Ids -> {"none", "open", "closed", "reset"}]
    BY <1>3 DEF PeerReset
  <2>3. UNCHANGED <<mainVars, events, pipe, threadVars, sent>>
    BY <1>3 DEF PeerReset
  <2>. QED
    BY <2>1, <2>2, <2>3
<1>4. CASE PeerRead(id)
  <2>1. unread' \in [Ids -> 0 .. SendCap]
    <3>1. unread[id] > 0 /\ unread \in [Ids -> 0 .. SendCap]
      BY <1>4 DEF PeerRead
    <3>. QED
      BY <1>4, <3>1, CounterDown DEF PeerRead
  <2>. QED
    BY <1>4, <2>1 DEF PeerRead
<1>. QED
  BY <1>1, <1>2, <1>3, <1>4 DEF Network

LEMMA TypeInvStep == TypeInv /\ [Next]_vars => TypeInv'
<1> SUFFICES ASSUME TypeInv, [Next]_vars PROVE TypeInv'
  OBVIOUS
<1>1. CASE UNCHANGED vars
  BY <1>1 DEF vars, mainVars, threadVars, netVars, TypeInv, TypeOK,
              NothingBeforeStart, ListenerHasId
<1>2. CASE Main \/ OtherWakeup
  BY <1>2, StartTypeInv, MainTypeInv, EffectsTypeInv DEF Main
<1>3. CASE Listener
  BY <1>3, ListenerTypeInv
<1>4. CASE \E id \in Ids : Reader(id) \/ Network(id)
  BY <1>4, ReaderTypeInv, NetworkTypeInv
<1>. QED
  BY <1>1, <1>2, <1>3, <1>4 DEF Next, Exited

LEMMA TypeInvAlways == Spec => []TypeInv
<1>. QED
  BY TypeInvInit, TypeInvStep, PTL DEF Spec

(* Every variable keeps its type.  In particular the notification pipe     *)
(* never holds more than its capacity: the one write that does not wait for*)
(* room, the main thread's own in start_tcp_client, finds the pipe empty.  *)
THEOREM TypeCorrect == Spec => []TypeOK
BY TypeInvAlways, PTL DEF TypeInv

-----------------------------------------------------------------------------
(* The order of the events of one stream.                                  *)

(* An event that may follow those in q.                                    *)
MayFollow(e, q, known) ==
  /\ e.kind = "Connected" =>
       /\ known[e.id] = "unknown"
       /\ ~Mentions(q, e.id)
  /\ e.kind # "Connected" =>
       /\ known[e.id] = "connected" \/ Has(q, e.id, "Connected")
       /\ known[e.id] # "gone" /\ ~Has(q, e.id, "Disconnected")

LEMMA AppendFacts ==
  ASSUME NEW S, NEW q \in Seq(S), NEW e \in S
  PROVE  /\ Len(q) \in Nat
         /\ Len(Append(q, e)) = Len(q) + 1
         /\ \A i \in 1 .. Len(q) : Append(q, e)[i] = q[i]
         /\ Append(q, e)[Len(q) + 1] = e
OBVIOUS

LEMMA TailFacts ==
  ASSUME NEW S, NEW q \in Seq(S), q # <<>>
  PROVE  /\ Len(q) \in Nat \ {0}
         /\ Len(Tail(q)) = Len(q) - 1
         /\ \A i \in 1 .. Len(q) - 1 : Tail(q)[i] = q[i + 1]
         /\ Head(q) = q[1]
OBVIOUS

LEMMA AppendHas ==
  ASSUME NEW S, NEW q \in Seq(S), NEW e \in S, NEW id, NEW kind
  PROVE  /\ Has(Append(q, e), id, kind) <=>
              Has(q, id, kind) \/ (e.id = id /\ e.kind = kind)
         /\ Mentions(Append(q, e), id) <=> Mentions(q, id) \/ e.id = id
<1> DEFINE r == Append(q, e)
<1>1. /\ Len(q) \in Nat
      /\ Len(r) = Len(q) + 1
      /\ \A i \in 1 .. Len(q) : r[i] = q[i]
      /\ r[Len(q) + 1] = e
  BY AppendFacts
<1>. HIDE DEF r
<1>2. 1 .. Len(r) = 1 .. Len(q) \cup {Len(q) + 1}
  BY <1>1
<1>3. Has(r, id, kind) <=> Has(q, id, kind) \/ (e.id = id /\ e.kind = kind)
  BY <1>1, <1>2 DEF Has
<1>4. Mentions(r, id) <=> Mentions(q, id) \/ e.id = id
  BY <1>1, <1>2 DEF Mentions
<1>. QED
  BY <1>3, <1>4 DEF r

LEMMA TailHas ==
  ASSUME NEW S, NEW q \in Seq(S), q # <<>>, NEW id, NEW kind
  PROVE  /\ Has(q, id, kind) <=>
              \/ Has(Tail(q), id, kind)
              \/ Head(q).id = id /\ Head(q).kind = kind
         /\ Mentions(q, id) <=> Mentions(Tail(q), id) \/ Head(q).id = id
<1> DEFINE t == Tail(q)
<1>1. /\ Len(q) \in Nat \ {0}
      /\ Len(t) = Len(q) - 1
      /\ \A i \in 1 .. Len(q) - 1 : t[i] = q[i + 1]
      /\ Head(q) = q[1]
  BY TailFacts
<1>. HIDE DEF t
<1>2. ASSUME NEW i \in 1 .. Len(q) PROVE i = 1 \/ (i - 1 \in 1 .. Len(t) /\ q[i] = t[i - 1])
  BY <1>1
<1>3. ASSUME NEW i \in 1 .. Len(t) PROVE i + 1 \in 1 .. Len(q) /\ t[i] = q[i + 1]
  BY <1>1
<1>4. 1 \in 1 .. Len(q)
  BY <1>1
<1>5. Has(q, id, kind) <=> Has(t, id, kind) \/ (q[1].id = id /\ q[1].kind = kind)
  <2>1. ASSUME Has(q, id, kind)
        PROVE  Has(t, id, kind) \/ (q[1].id = id /\ q[1].kind = kind)
    <3>1. PICK i \in 1 .. Len(q) : q[i].id = id /\ q[i].kind = kind
      BY <2>1 DEF Has
    <3>. QED
      BY <1>2, <3>1 DEF Has
  <2>2. Has(t, id, kind) => Has(q, id, kind)
    BY <1>3 DEF Has
  <2>. QED
    BY <1>4, <2>1, <2>2 DEF Has
<1>6. Mentions(q, id) <=> Mentions(t, id) \/ q[1].id = id
  BY <1>2, <1>3, <1>4 DEF Mentions
<1>. QED
  BY <1>1, <1>5, <1>6 DEF t

(* Sending an event that may follow keeps the order.                       *)
LEMMA AppendKeepsOrder ==
  ASSUME NEW S, NEW q \in Seq(S), NEW e \in S, NEW known,
         ConnectedFirst(q, known), NothingAfterDisconnected(q, known),
         MayFollow(e, q, known)
  PROVE  /\ ConnectedFirst(Append(q, e), known)
         /\ NothingAfterDisconnected(Append(q, e), known)
<1> DEFINE r == Append(q, e)
<1>1. /\ Len(q) \in Nat
      /\ Len(r) = Len(q) + 1
      /\ \A i \in 1 .. Len(q) : r[i] = q[i]
      /\ r[Len(q) + 1] = e
  BY AppendFacts
<1>. HIDE DEF r
<1>2. ConnectedFirst(r, known)
  <2> SUFFICES ASSUME NEW i \in 1 .. Len(q) + 1
               PROVE  /\ r[i].kind = "Connected" =>
                           /\ known[r[i].id] = "unknown"
                           /\ \A j \in 1 .. i - 1 : r[j].id # r[i].id
                      /\ r[i].kind # "Connected" =>
                           \/ known[r[i].id] = "connected"
                           \/ \E j \in 1 .. i - 1 :
                                r[j].id = r[i].id /\ r[j].kind = "Connected"
    BY <1>1 DEF ConnectedFirst
  <2>1. CASE i <= Len(q)
    BY <1>1, <2>1 DEF ConnectedFirst
  <2>2. CASE i = Len(q) + 1
    BY <1>1, <2>2 DEF MayFollow, Has, Mentions
  <2>. QED
    BY <1>1, <2>1, <2>2
<1>3. NothingAfterDisconnected(r, known)
  <2> SUFFICES ASSUME NEW i \in 1 .. Len(q) + 1, r[i].kind = "Disconnected"
               PROVE  /\ known[r[i].id] # "gone"
                      /\ \A j \in i + 1 .. Len(q) + 1 : r[j].id # r[i].id
    BY <1>1 DEF NothingAfterDisconnected
  <2>1. CASE i <= Len(q)
    <3>1. i \in 1 .. Len(q) /\ r[i] = q[i] /\ q[i].kind = "Disconnected"
      BY <1>1, <2>1
    <3>2. e.id # q[i].id
      BY <3>1 DEF MayFollow, Has, Mentions
    <3>3. known[q[i].id] # "gone" /\ \A j \in i + 1 .. Len(q) : q[j].id # q[i].id
      BY <3>1 DEF NothingAfterDisconnected
    <3>4. \A j \in i + 1 .. Len(q) + 1 : j \in i + 1 .. Len(q) \/ j = Len(q) + 1
      BY <1>1, <3>1
    <3>5. \A j \in i + 1 .. Len(q) : j \in 1 .. Len(q)
      BY <1>1, <3>1
    <3>. QED
      BY <1>1, <3>1, <3>2, <3>3, <3>4, <3>5
  <2>2. CASE i = Len(q) + 1
    BY <1>1, <2>2 DEF MayFollow
  <2>. QED
    BY <1>1, <2>1, <2>2
<1>. QED
  BY <1>2, <1>3 DEF r

(* What the first event in the channel says of its stream is news.         *)
LEMMA HeadIsNews ==
  ASSUME NEW S, NEW q \in Seq(S), q # <<>>, NEW known, ConnectedFirst(q, known)
  PROVE  known[Head(q).id] =
           IF Head(q).kind = "Connected" THEN "unknown" ELSE "connected"
<1>1. 1 \in 1 .. Len(q) /\ Head(q) = q[1]
  BY TailFacts
<1>2. 1 .. 1 - 1 = {}
  OBVIOUS
<1>. QED
  BY <1>1, <1>2 DEF ConnectedFirst

(* What the main loop knows of the streams after event e.                  *)
After(e, known) ==
  IF e.kind = "Data" THEN known
  ELSE [known EXCEPT ![e.id] = IF e.kind = "Connected" THEN "connected"
                                                       ELSE "gone"]

(* Taking an event keeps the order, once what it says is known.            *)
LEMMA TailKeepsOrder ==
  ASSUME NEW q \in Seq(TcpEvent), q # <<>>, NEW R, NEW known \in [Ids -> R],
         ConnectedFirst(q, known), NothingAfterDisconnected(q, known)
  PROVE  /\ ConnectedFirst(Tail(q), After(Head(q), known))
         /\ NothingAfterDisconnected(Tail(q), After(Head(q), known))
<1> DEFINE h == q[1]
           t == Tail(q)
           k == After(h, known)
<1>1. /\ Len(q) \in Nat \ {0}
      /\ Len(t) = Len(q) - 1
      /\ \A i \in 1 .. Len(q) - 1 : t[i] = q[i + 1]
      /\ Head(q) = h
  BY TailFacts
<1>2. \A i \in 1 .. Len(q) : /\ q[i].id \in Ids
                             /\ q[i].kind \in {"Connected", "Disconnected", "Data"}
  <2>1. \A i \in 1 .. Len(q) : q[i] \in TcpEvent
    OBVIOUS
  <2>. QED
    BY <2>1 DEF TcpEvent
<1>3. /\ \A id \in Ids : id # h.id => k[id] = known[id]
      /\ h.kind = "Connected" => k[h.id] = "connected"
      /\ h.kind = "Data" => k = known
  BY <1>1, <1>2 DEF After
<1>. HIDE DEF h, t, k
<1>4. \A i \in 2 .. Len(q) : q[i].id = h.id =>
        h.kind # "Disconnected" /\ q[i].kind # "Connected"
  BY <1>1 DEF ConnectedFirst, NothingAfterDisconnected, h
<1>5. h.kind = "Data" => known[h.id] = "connected"
  BY <1>1, HeadIsNews
<1>6. ConnectedFirst(t, k)
  <2> SUFFICES ASSUME NEW i \in 1 .. Len(q) - 1
               PROVE  /\ t[i].kind = "Connected" =>
                           /\ k[t[i].id] = "unknown"
                           /\ \A j \in 1 .. i - 1 : t[j].id # t[i].id
                      /\ t[i].kind # "Connected" =>
                           \/ k[t[i].id] = "connected"
                           \/ \E j \in 1 .. i - 1 :
                                t[j].id = t[i].id /\ t[j].kind = "Connected"
    BY <1>1 DEF ConnectedFirst
  <2>1. t[i] = q[i + 1] /\ i + 1 \in 2 .. Len(q) /\ i + 1 \in 1 .. Len(q)
    BY <1>1
  <2>2. CASE t[i].kind = "Connected"
    <3>1. t[i].id # h.id
      BY <1>4, <2>1, <2>2
    <3>2. k[t[i].id] = "unknown"
      BY <1>2, <1>3, <2>1, <2>2, <3>1 DEF ConnectedFirst
    <3>3. ASSUME NEW j \in 1 .. i - 1 PROVE t[j].id # t[i].id
      <4>1. j + 1 \in 1 .. (i + 1) - 1 /\ t[j] = q[j + 1]
        BY <1>1
      <4>. QED
        BY <2>1, <2>2, <4>1 DEF ConnectedFirst
    <3>. QED
      BY <2>2, <3>2, <3>3
  <2>3. CASE t[i].kind # "Connected"
    <3>1. CASE t[i].id = h.id
      BY <1>2, <1>3, <1>4, <1>5, <2>1, <2>3, <3>1, <1>1 DEF h
    <3>2. CASE t[i].id # h.id
      <4>1. CASE known[t[i].id] = "connected"
        BY <1>2, <1>3, <2>1, <2>3, <3>2, <4>1
      <4>2. CASE known[t[i].id] # "connected"
        <5>1. PICK j \in 1 .. (i + 1) - 1 :
                     q[j].id = t[i].id /\ q[j].kind = "Connected"
          BY <2>1, <2>3, <4>2 DEF ConnectedFirst
        <5>2. j # 1
          BY <3>2, <5>1 DEF h
        <5>3. j - 1 \in 1 .. i - 1 /\ t[j - 1] = q[j]
          BY <1>1, <5>2
        <5>. QED
          BY <2>3, <5>1, <5>3
      <4>. QED
        BY <4>1, <4>2
    <3>. QED
      BY <3>1, <3>2
  <2>. QED
    BY <2>2, <2>3
<1>7. NothingAfterDisconnected(t, k)
  <2> SUFFICES ASSUME NEW i \in 1 .. Len(q) - 1, t[i].kind = "Disconnected"
               PROVE  /\ k[t[i].id] # "gone"
                      /\ \A j \in i + 1 .. Len(q) - 1 : t[j].id # t[i].id
    BY <1>1 DEF NothingAfterDisconnected
  <2>1. t[i] = q[i + 1] /\ i + 1 \in 2 .. Len(q) /\ i + 1 \in 1 .. Len(q)
    BY <1>1
  <2>2. known[t[i].id] # "gone"
    BY <2>1 DEF NothingAfterDisconnected
  <2>3. k[t[i].id] # "gone"
    BY <1>1, <1>2, <1>3, <1>4, <2>1, <2>2 DEF h
  <2>4. ASSUME NEW j \in i + 1 .. Len(q) - 1 PROVE t[j].id # t[i].id
    <3>1. j + 1 \in (i + 1) + 1 .. Len(q) /\ t[j] = q[j + 1]
      BY <1>1
    <3>. QED
      BY <2>1, <3>1 DEF NothingAfterDisconnected
  <2>. QED
    BY <2>3, <2>4
<1>. QED
  BY <1>1, <1>6, <1>7 DEF t, k

-----------------------------------------------------------------------------
(* The inductive invariant of the order of events.                         *)

OrderInv ==
  /\ TypeInv
  /\ ReaderNotSpawned /\ NothingBeforeSend
  /\ ReaderAfterConnected /\ EndAfterReader
  /\ ChannelOrder

LEMMA OrderInvInit == Init => OrderInv
BY TypeInvInit
   DEF OrderInv, Init, ReaderNotSpawned, NothingBeforeSend,
       ReaderAfterConnected, EndAfterReader, ChannelOrder, ConnectedFirst,
       NothingAfterDisconnected, Has

(* Steps that do not touch what OrderInv speaks of, TypeInv aside.         *)
LEMMA QuietKeepsOrder ==
  ASSUME OrderInv, TypeInv', UNCHANGED <<events, seen, listener, next_id, reader>>
  PROVE  OrderInv'
BY DEF OrderInv, ReaderNotSpawned, NothingBeforeSend, ReaderAfterConnected,
       EndAfterReader, ChannelOrder

(* Steps of a thread that send nothing.                                    *)
LEMMA ThreadKeepsOrder ==
  ASSUME OrderInv, TypeInv',
         \/ StartServer \/ Accept \/ AcceptCloneFails \/ ListenerNotify
         \/ ListenerSpawn
         \/ \E id \in Ids : ReadData(id) \/ ReadEnd(id) \/ ReaderNotify(id)
  PROVE  OrderInv'
<1>1. UNCHANGED <<events, seen>>
  BY DEF StartServer, Accept, AcceptCloneFails, ListenerNotify, ListenerSpawn,
         ReadData, ReadEnd, ReaderNotify, mainVars
<1>2. ChannelOrder'
  BY <1>1 DEF OrderInv, ChannelOrder
<1>3. next_id \in Nat /\ \A id \in Ids : id \in Nat
  BY IdsFacts DEF OrderInv, TypeInv, TypeOK
<1>4. CASE StartServer
  BY <1>1, <1>2, <1>4
     DEF OrderInv, StartServer, ReaderNotSpawned, NothingBeforeSend,
         ReaderAfterConnected, EndAfterReader, TypeInv, NothingBeforeStart,
         Mentions
<1>5. CASE Accept \/ AcceptCloneFails \/ ListenerNotify \/ ListenerSpawn
  <2>1. next_id < MaxConns => next_id \in Ids
    BY ConstantsAssumption, <1>3 DEF Ids, ConstantsAssumption
  <2>2. listener \in {"send", "notify", "spawn"} => next_id - 1 \in Ids
    BY ConstantsAssumption DEF OrderInv, TypeInv, TypeOK, ListenerHasId, Ids,
                               ConstantsAssumption
  <2>3. reader \in [Ids -> {"none", "read", "sendData", "notifyData",
                            "sendEnd", "notifyEnd", "done"}]
    BY DEF OrderInv, TypeInv, TypeOK
  <2>4. ReaderNotSpawned' /\ NothingBeforeSend'
    BY <1>1, <1>3, <1>5, <2>1, <2>2, <2>3
       DEF OrderInv, Accept, AcceptCloneFails, ListenerNotify, ListenerSpawn,
           ReaderNotSpawned, NothingBeforeSend
  <2>5. ReaderAfterConnected' /\ EndAfterReader'
    BY <1>1, <1>3, <1>5, <2>1, <2>2, <2>3
       DEF OrderInv, Accept, AcceptCloneFails, ListenerNotify, ListenerSpawn,
           ReaderNotSpawned, ReaderAfterConnected, EndAfterReader
  <2>. QED
    BY <1>2, <2>4, <2>5 DEF OrderInv
<1>6. ASSUME NEW id \in Ids, ReadData(id) \/ ReadEnd(id) \/ ReaderNotify(id)
      PROVE  OrderInv'
  <2>1. /\ reader[id] # "none" /\ reader'[id] # "none"
        /\ \A other \in Ids \ {id} : reader'[other] = reader[other]
        /\ UNCHANGED <<listener, next_id>>
        /\ reader[id] \in {"notifyEnd", "done"} =>
             reader'[id] \in {"notifyEnd", "done"}
    <3>1. \E s \in {"read", "sendData", "sendEnd", "done"} :
            reader' = [reader EXCEPT ![id] = s] /\
            (reader[id] = "notifyEnd" => s = "done")
      BY <1>6 DEF ReadData, ReadEnd, ReaderNotify
    <3>2. /\ reader[id] \in {"read", "notifyData", "notifyEnd"}
          /\ UNCHANGED <<listener, next_id>>
      BY <1>6 DEF ReadData, ReadEnd, ReaderNotify
    <3>3. reader \in [Ids -> {"none", "read", "sendData", "notifyData",
                              "sendEnd", "notifyEnd", "done"}]
      BY DEF OrderInv, TypeInv, TypeOK
    <3>. QED
      BY <3>1, <3>2, <3>3
  <2>2. listener \in {"send", "notify", "spawn"} => next_id - 1 \in Ids
    BY ConstantsAssumption DEF OrderInv, TypeInv, TypeOK, ListenerHasId, Ids,
                               ConstantsAssumption
  <2>3. ReaderNotSpawned' /\ NothingBeforeSend'
    BY <1>1, <2>1, <2>2 DEF OrderInv, ReaderNotSpawned, NothingBeforeSend
  <2>4. ReaderAfterConnected' /\ EndAfterReader'
    BY <1>1, <2>1 DEF OrderInv, ReaderAfterConnected, EndAfterReader
  <2>. QED
    BY <1>2, <2>3, <2>4 DEF OrderInv
<1>. QED
  BY <1>4, <1>5, <1>6

(* Steps that send an event.                                               *)
LEMMA ReaderSendKeepsOrder ==
  ASSUME OrderInv, TypeInv', NEW id \in Ids, SendData(id) \/ SendEnd(id)
  PROVE  OrderInv'
<1>1. PICK e \in TcpEvent :
        /\ e.id = id /\ events' = Append(events, e)
        /\ e.kind \in {"Data", "Disconnected"}
        /\ e.kind = "Disconnected" => reader' = [reader EXCEPT ![id] = "notifyEnd"]
        /\ e.kind = "Data" => reader' = [reader EXCEPT ![id] = "notifyData"]
  <2>1. CASE SendData(id)
    <3>1. Data(id, taken[id] + 1, taken[id] + buf[id]) \in TcpEvent
      <4>1. taken[id] \in Nat /\ buf[id] \in Nat
        BY ConstantsAssumption
           DEF OrderInv, TypeInv, TypeOK, ConstantsAssumption
      <4>2. taken[id] + 1 \in Nat /\ taken[id] + buf[id] \in Nat
        BY <4>1
      <4>. QED
        BY <4>2, EventType
    <3>. QED
      BY <2>1, <3>1 DEF SendData, Data
  <2>2. CASE SendEnd(id)
    <3>1. Disconnected(id) \in TcpEvent
      BY EventType
    <3>. QED
      BY <2>2, <3>1 DEF SendEnd, Disconnected
  <2>. QED
    BY <2>1, <2>2
<1>2. /\ reader[id] \in {"sendData", "sendEnd"}
      /\ UNCHANGED <<seen, listener, next_id>>
  BY DEF SendData, SendEnd, mainVars
<1>3. /\ events \in Seq(TcpEvent)
      /\ seen[id] \in {"unknown", "connected", "gone"}
      /\ reader \in [Ids -> {"none", "read", "sendData", "notifyData",
                             "sendEnd", "notifyEnd", "done"}]
  BY DEF OrderInv, TypeInv, TypeOK
<1>4. MayFollow(e, events, seen)
  BY <1>1, <1>2, <1>3
     DEF OrderInv, ReaderAfterConnected, EndAfterReader, MayFollow
<1>5. ChannelOrder'
  BY <1>1, <1>2, <1>3, <1>4, AppendKeepsOrder DEF OrderInv, ChannelOrder
<1>6. /\ reader'[id] \notin {"none"}
      /\ reader'[id] \notin {"notifyEnd", "done"} => e.kind = "Data"
      /\ \A other \in Ids \ {id} : reader'[other] = reader[other]
  BY <1>1, <1>3
<1>7. \A s \in Ids, kind \in {"Connected", "Disconnected"} :
        Has(events', s, kind) <=>
          Has(events, s, kind) \/ (id = s /\ e.kind = kind)
  BY <1>1, <1>3, AppendHas
<1>8. \A s \in Ids : Mentions(events', s) <=> Mentions(events, s) \/ id = s
  BY <1>1, <1>3, AppendHas
<1>9. listener \in {"send", "notify", "spawn"} => next_id - 1 \in Ids
  BY ConstantsAssumption DEF OrderInv, TypeInv, TypeOK, ListenerHasId, Ids,
                             ConstantsAssumption
<1>10. ReaderNotSpawned' /\ NothingBeforeSend'
  BY <1>2, <1>6, <1>8, <1>9 DEF OrderInv, ReaderNotSpawned, NothingBeforeSend
<1>11. ReaderAfterConnected'
  BY <1>2, <1>6, <1>7 DEF OrderInv, ReaderAfterConnected
<1>12. EndAfterReader'
  BY <1>1, <1>2, <1>6, <1>7 DEF OrderInv, EndAfterReader
<1>. QED
  BY <1>5, <1>10, <1>11, <1>12 DEF OrderInv

LEMMA ListenerSendKeepsOrder ==
  ASSUME OrderInv, TypeInv', ListenerSend
  PROVE  OrderInv'
<1> DEFINE id == next_id - 1
           e == Connected(id)
<1>1. /\ next_id \in Nat /\ id \in Ids /\ \A s \in Ids : s \in Nat
      /\ e \in TcpEvent /\ e.id = id /\ e.kind = "Connected"
  <2>1. next_id \in Nat /\ id \in Ids
    BY ConstantsAssumption
       DEF OrderInv, TypeInv, TypeOK, ListenerHasId, Ids, ConstantsAssumption,
           ListenerSend
  <2>. QED
    BY <2>1, EventType, IdsFacts DEF Connected
<1>2. /\ events' = Append(events, e) /\ events \in Seq(TcpEvent)
      /\ listener = "send" /\ listener' = "notify"
      /\ UNCHANGED <<seen, reader, next_id>>
  BY DEF ListenerSend, mainVars, OrderInv, TypeInv, TypeOK
<1>. HIDE DEF e
<1>3. seen[id] = "unknown" /\ ~Mentions(events, id)
  BY <1>1, <1>2 DEF OrderInv, NothingBeforeSend
<1>4. MayFollow(e, events, seen)
  BY <1>1, <1>3 DEF MayFollow
<1>5. ChannelOrder'
  BY <1>1, <1>2, <1>4, AppendKeepsOrder DEF OrderInv, ChannelOrder
<1>6. \A s \in Ids, kind \in {"Connected", "Disconnected"} :
        Has(events', s, kind) <=>
          Has(events, s, kind) \/ (id = s /\ kind = "Connected")
  BY <1>1, <1>2, AppendHas
<1>7. \A s \in Ids : Mentions(events', s) <=> Mentions(events, s) \/ id = s
  BY <1>1, <1>2, AppendHas
<1>8. ReaderNotSpawned' /\ NothingBeforeSend'
  BY <1>1, <1>2, <1>7 DEF OrderInv, ReaderNotSpawned, NothingBeforeSend
<1>9. ReaderAfterConnected' /\ EndAfterReader'
  BY <1>1, <1>2, <1>6 DEF OrderInv, ReaderAfterConnected, EndAfterReader
<1>. QED
  BY <1>5, <1>8, <1>9 DEF OrderInv

LEMMA StartClientKeepsOrder ==
  ASSUME OrderInv, TypeInv', StartClient
  PROVE  OrderInv'
<1> DEFINE e == Connected(0)
<1>1. 0 \in Ids /\ e \in TcpEvent /\ e.id = 0 /\ e.kind = "Connected"
  BY IdsFacts, EventType DEF Connected
<1>2. /\ events' = Append(events, e) /\ events \in Seq(TcpEvent)
      /\ events = <<>>
      /\ listener = "none" /\ listener' = "none"
      /\ \A id \in Ids : seen[id] = "unknown" /\ reader[id] = "none"
      /\ reader' = [reader EXCEPT ![0] = "read"]
      /\ reader \in [Ids -> {"none", "read", "sendData", "notifyData",
                             "sendEnd", "notifyEnd", "done"}]
      /\ UNCHANGED <<seen, next_id>>
  BY DEF StartClient, OrderInv, TypeInv, TypeOK, NothingBeforeStart
<1>. HIDE DEF e
<1>3. ~Mentions(events, 0) /\ \A s, kind : ~Has(events, s, kind)
  BY <1>2 DEF Mentions, Has
<1>4. MayFollow(e, events, seen)
  BY <1>1, <1>2, <1>3 DEF MayFollow
<1>5. ChannelOrder'
  BY <1>1, <1>2, <1>4, AppendKeepsOrder DEF OrderInv, ChannelOrder
<1>6. \A s \in Ids, kind \in {"Connected", "Disconnected"} :
        Has(events', s, kind) <=> (s = 0 /\ kind = "Connected")
  BY <1>1, <1>2, <1>3, AppendHas
<1>7. ReaderNotSpawned' /\ NothingBeforeSend'
  BY <1>2 DEF ReaderNotSpawned, NothingBeforeSend
<1>8. ReaderAfterConnected' /\ EndAfterReader'
  BY <1>1, <1>2, <1>6 DEF ReaderAfterConnected, EndAfterReader
<1>. QED
  BY <1>5, <1>7, <1>8 DEF OrderInv

(* The main loop taking one.                                               *)
LEMMA TryRecvSeen ==
  ASSUME TypeInv, TryRecv, events # <<>>
  PROVE  /\ events' = Tail(events) /\ seen' = After(Head(events), seen)
         /\ Head(events) \in TcpEvent
         /\ UNCHANGED <<listener, next_id, reader>>
<1>1. Head(events) \in TcpEvent
  BY HeadTail DEF TypeInv, TypeOK
<1>2. /\ events' = Tail(events)
      /\ UNCHANGED <<listener, next_id, reader>>
  BY DEF TryRecv, threadVars
<1>3. seen' = After(Head(events), seen)
  BY DEF TryRecv, OnConnected, OnDisconnected, OnData, After
<1>. QED
  BY <1>1, <1>2, <1>3

LEMMA TryRecvKeepsOrder ==
  ASSUME OrderInv, TypeInv', TryRecv
  PROVE  OrderInv'
<1>1. CASE events = <<>>
  <2>1. UNCHANGED <<events, seen, listener, next_id, reader>>
    BY <1>1 DEF TryRecv, threadVars
  <2>. QED
    BY <2>1, QuietKeepsOrder
<1>2. CASE events # <<>>
  <2> DEFINE h == Head(events)
  <2>1. /\ events' = Tail(events) /\ seen' = After(h, seen) /\ h \in TcpEvent
        /\ UNCHANGED <<listener, next_id, reader>>
        /\ events \in Seq(TcpEvent)
        /\ seen \in [Ids -> {"unknown", "connected", "gone"}]
    BY <1>2, TryRecvSeen DEF OrderInv, TypeInv, TypeOK
  <2>2. ChannelOrder'
    BY <1>2, <2>1, TailKeepsOrder DEF OrderInv, ChannelOrder
  <2>. HIDE DEF h
  <2>3. /\ h.id \in Ids /\ h.kind \in {"Connected", "Disconnected", "Data"}
        /\ \A id \in Ids : id # h.id => seen'[id] = seen[id]
        /\ h.kind = "Connected" => seen'[h.id] = "connected"
        /\ h.kind = "Disconnected" => seen'[h.id] = "gone"
        /\ h.kind = "Data" => seen' = seen
    BY <2>1 DEF After, TcpEvent
  <2>4. \A id \in Ids, kind \in {"Connected", "Disconnected"} :
          Has(events, id, kind) <=>
            Has(events', id, kind) \/ (h.id = id /\ h.kind = kind)
    BY <1>2, <2>1, TailHas DEF h
  <2>5. \A id \in Ids :
          Mentions(events, id) <=> Mentions(events', id) \/ h.id = id
    BY <1>2, <2>1, TailHas DEF h
  <2>6. ReaderNotSpawned'
    BY <2>1 DEF OrderInv, ReaderNotSpawned
  <2>7. NothingBeforeSend'
    BY <2>1, <2>3, <2>5 DEF OrderInv, NothingBeforeSend
  <2>8. ReaderAfterConnected'
    BY <2>1, <2>3, <2>4 DEF OrderInv, ReaderAfterConnected
  <2>9. EndAfterReader'
    BY <2>1, <2>3, <2>4 DEF OrderInv, EndAfterReader
  <2>. QED
    BY <2>2, <2>6, <2>7, <2>8, <2>9 DEF OrderInv
<1>. QED
  BY <1>1, <1>2

LEMMA OrderInvStep == OrderInv /\ [Next]_vars => OrderInv'
<1> SUFFICES ASSUME OrderInv, [Next]_vars PROVE OrderInv'
  OBVIOUS
<1>1. TypeInv'
  BY TypeInvStep DEF OrderInv
<1>2. CASE UNCHANGED vars
  BY <1>1, <1>2, QuietKeepsOrder DEF vars, mainVars, threadVars
<1>3. CASE StartNothing \/ DrainByte \/ Update \/ handle_effects \/ OtherWakeup
  <2>1. UNCHANGED <<events, seen, listener, next_id, reader>>
    BY <1>3
       DEF StartNothing, DrainByte, Update, handle_effects, SendDropped,
           SendWritten, SendFails, ExitEffect, EffectsDone, OtherWakeup,
           StdinEvent, TimerEvent, WaitReturnsNone, threadVars
  <2>. QED
    BY <1>1, <2>1, QuietKeepsOrder
<1>4. CASE StartServer \/ StartClient \/ TryRecv
  BY <1>1, <1>4, ThreadKeepsOrder, StartClientKeepsOrder, TryRecvKeepsOrder
<1>5. CASE Listener
  BY <1>1, <1>5, ThreadKeepsOrder, ListenerSendKeepsOrder DEF Listener, Announce
<1>6. CASE \E id \in Ids : Reader(id)
  BY <1>1, <1>6, ThreadKeepsOrder, ReaderSendKeepsOrder DEF Reader
<1>7. CASE \E id \in Ids : Network(id)
  <2>1. UNCHANGED <<events, seen, listener, next_id, reader>>
    BY <1>7 DEF Network, PeerSend, PeerClose, PeerReset, PeerRead, mainVars,
                threadVars
  <2>. QED
    BY <1>1, <2>1, QuietKeepsOrder
<1>. QED
  BY <1>2, <1>3, <1>4, <1>5, <1>6, <1>7
     DEF Next, Main, init_tcp_from_subs, Exited

LEMMA OrderInvAlways == Spec => []OrderInv
<1>. QED
  BY OrderInvInit, OrderInvStep, PTL DEF Spec

(* Whatever the threads' interleaving, the channel holds the events of one *)
(* stream in the order start_tcp_server means them to be in: Connected,    *)
(* data, Disconnected, and nothing the main loop has heard already.        *)
THEOREM EventsInOrder == Spec => []ChannelOrder
BY OrderInvAlways, PTL DEF OrderInv

(* The progress of the listener and the readers agrees with what they have *)
(* sent and with what the main loop has handled.                           *)
THEOREM ThreadsInOrder == Spec => []ThreadOrder
BY OrderInvAlways, PTL DEF OrderInv, TypeInv, ThreadOrder

-----------------------------------------------------------------------------
(* One byte per event.                                                     *)

AccountingInv == OrderInv /\ NotifyAccounting

LEMMA NotifiersFinite ==
  /\ IsFiniteSet(Notifiers) /\ Cardinality(Notifiers) \in Nat
  /\ IsFiniteSet(Notifiers') /\ Cardinality(Notifiers') \in Nat
<1>1. IsFiniteSet(Ids)
  BY ConstantsAssumption, FS_Interval DEF Ids, ConstantsAssumption
<1>2. Notifiers \subseteq Ids /\ Notifiers' \subseteq Ids
  BY DEF Notifiers
<1>. QED
  BY <1>1, <1>2, FS_Subset, FS_CardinalityType

(* What a step of one reader does to the number of bytes still to write.   *)
LEMMA OneReaderSteps ==
  ASSUME TypeOK, NEW id \in Ids, NEW s, reader' = [reader EXCEPT ![id] = s]
  PROVE  LET notify == {"notifyData", "notifyEnd"} IN
         /\ reader[id] \notin notify /\ s \in notify =>
              Cardinality(Notifiers') = Cardinality(Notifiers) + 1
         /\ reader[id] \in notify /\ s \notin notify =>
              Cardinality(Notifiers') = Cardinality(Notifiers) - 1
         /\ reader[id] \notin notify /\ s \notin notify =>
              Cardinality(Notifiers') = Cardinality(Notifiers)
<1>1. /\ reader'[id] = s /\ \A other \in Ids \ {id} : reader'[other] = reader[other]
  BY DEF TypeOK
<1>2. CASE reader[id] \notin {"notifyData", "notifyEnd"}
           /\ s \in {"notifyData", "notifyEnd"}
  <2>1. Notifiers' = Notifiers \cup {id} /\ id \notin Notifiers
    BY <1>1, <1>2 DEF Notifiers
  <2>. QED
    BY <1>2, <2>1, NotifiersFinite, FS_AddElement
<1>3. CASE reader[id] \in {"notifyData", "notifyEnd"}
           /\ s \notin {"notifyData", "notifyEnd"}
  <2>1. Notifiers' = Notifiers \ {id} /\ id \in Notifiers
    BY <1>1, <1>3 DEF Notifiers
  <2>. QED
    BY <1>3, <2>1, NotifiersFinite, FS_RemoveElement
<1>4. CASE reader[id] \notin {"notifyData", "notifyEnd"}
           /\ s \notin {"notifyData", "notifyEnd"}
  <2>1. Notifiers' = Notifiers
    BY <1>1, <1>4 DEF Notifiers
  <2>. QED
    BY <1>4, <2>1
<1>. QED
  BY <1>2, <1>3, <1>4

LEMMA AccountingInit == Init => AccountingInv
<1> SUFFICES ASSUME Init PROVE AccountingInv
  OBVIOUS
<1>1. Notifiers = {}
  BY DEF Init, Notifiers
<1>2. NotifyAccounting
  BY <1>1, FS_EmptySet DEF Init, NotifyAccounting, Count
<1>. QED
  BY <1>2, OrderInvInit DEF AccountingInv

(* Steps of the main thread.                                               *)
LEMMA MainAccounting ==
  ASSUME AccountingInv,
         Main \/ OtherWakeup \/ UNCHANGED vars \/ \E id \in Ids : Network(id)
  PROVE  NotifyAccounting'
<1> DEFINE N == Cardinality(Notifiers)
<1>1. /\ N \in Nat /\ Len(events) \in Nat /\ pipe \in Nat
      /\ Len(events) = pipe + N + Count(listener = "notify") + Count(pc = "recv")
  BY ConstantsAssumption, NotifiersFinite
     DEF AccountingInv, NotifyAccounting, OrderInv, TypeInv, TypeOK,
         ConstantsAssumption
<1>2. CASE UNCHANGED <<events, pipe, reader, listener>>
           /\ pc # "recv" /\ pc' # "recv"
  <2>1. Notifiers' = Notifiers
    BY <1>2 DEF Notifiers
  <2>. QED
    BY <1>1, <1>2, <2>1 DEF NotifyAccounting, Count
<1>3. CASE UNCHANGED <<events, pipe, reader, listener, pc>>
  <2>1. Notifiers' = Notifiers
    BY <1>3 DEF Notifiers
  <2>. QED
    BY <1>1, <1>3, <2>1 DEF NotifyAccounting, Count
<1>4. CASE StartServer
  <2>1. Notifiers' = Notifiers
    BY <1>4 DEF StartServer, Notifiers
  <2>2. listener = "none"
    BY <1>4 DEF StartServer, AccountingInv, OrderInv, TypeInv,
                NothingBeforeStart
  <2>. QED
    BY <1>1, <1>4, <2>1, <2>2 DEF StartServer, NotifyAccounting, Count
<1>5. CASE StartClient
  <2>1. 0 \in Ids /\ reader[0] = "none" /\ listener = "none" /\ TypeOK
    BY <1>5, IdsFacts DEF StartClient, AccountingInv, OrderInv, TypeInv,
                          NothingBeforeStart
  <2>2. Cardinality(Notifiers') = N
    <3>1. PICK id \in Ids : id = 0
      BY <2>1
    <3>2. reader' = [reader EXCEPT ![id] = "read"] /\ reader[id] = "none"
      BY <1>5, <2>1, <3>1 DEF StartClient
    <3>3. Notifiers' = Notifiers
      BY <2>1, <3>2 DEF Notifiers, TypeOK
    <3>. QED
      BY <3>3
  <2>3. Len(events') = Len(events) + 1 /\ pipe' = pipe + 1
    <3>1. Connected(0) \in TcpEvent /\ events \in Seq(TcpEvent)
      BY <2>1, EventType DEF TypeOK
    <3>. QED
      BY <1>5, <3>1, AppendFacts DEF StartClient
  <2>. QED
    BY <1>1, <1>5, <2>1, <2>2, <2>3 DEF StartClient, NotifyAccounting, Count
<1>6. CASE DrainByte
  <2>1. Notifiers' = Notifiers
    BY <1>6 DEF DrainByte, threadVars, Notifiers
  <2>. QED
    BY <1>1, <1>6, <2>1 DEF DrainByte, threadVars, NotifyAccounting, Count
<1>7. CASE TryRecv
  <2>1. Notifiers' = Notifiers /\ UNCHANGED <<pipe, listener>> /\ pc = "recv"
    BY <1>7 DEF TryRecv, threadVars, Notifiers
  <2>2. events # <<>>
    BY <1>1, <2>1 DEF Count
  <2>3. Len(events') = Len(events) - 1
    BY <1>7, <2>2, TryRecvSeen, TailFacts
       DEF AccountingInv, OrderInv, TypeInv, TypeOK
  <2>4. pc' # "recv"
    BY <1>7 DEF TryRecv, OnConnected, OnDisconnected, OnData, AfterEvent
  <2>. QED
    BY <1>1, <2>1, <2>3, <2>4 DEF NotifyAccounting, Count
<1>8. CASE StartNothing \/ Update \/ handle_effects \/ OtherWakeup
  <2>1. UNCHANGED <<events, pipe, reader, listener>>
    BY <1>8
       DEF StartNothing, Update, handle_effects, SendDropped, SendWritten,
           SendFails, ExitEffect, EffectsDone, OtherWakeup, StdinEvent,
           TimerEvent, WaitReturnsNone, threadVars
  <2>2. pc # "recv" /\ pc' # "recv"
    BY <1>8
       DEF StartNothing, Update, handle_effects, SendDropped, SendWritten,
           SendFails, ExitEffect, EffectsDone, OtherWakeup, StdinEvent,
           TimerEvent, WaitReturnsNone, NextEffect
  <2>. QED
    BY <1>2, <2>1, <2>2
<1>9. CASE UNCHANGED vars \/ \E id \in Ids : Network(id)
  <2>1. UNCHANGED <<events, pipe, reader, listener, pc>>
    BY <1>9 DEF Network, PeerSend, PeerClose, PeerReset, PeerRead, vars,
                mainVars, threadVars
  <2>. QED
    BY <1>3, <2>1
<1>. QED
  BY <1>4, <1>5, <1>6, <1>7, <1>8, <1>9 DEF Main, init_tcp_from_subs

(* Steps of the other threads.                                             *)
LEMMA ThreadAccounting ==
  ASSUME AccountingInv, Listener \/ \E id \in Ids : Reader(id)
  PROVE  NotifyAccounting'
<1> DEFINE N == Cardinality(Notifiers)
<1>1. /\ N \in Nat /\ Len(events) \in Nat /\ pipe \in Nat
      /\ Len(events) = pipe + N + Count(listener = "notify") + Count(pc = "recv")
      /\ TypeOK /\ events \in Seq(TcpEvent)
  BY ConstantsAssumption, NotifiersFinite
     DEF AccountingInv, NotifyAccounting, OrderInv, TypeInv, TypeOK,
         ConstantsAssumption
<1>2. CASE Accept \/ AcceptCloneFails
  <2>1. Notifiers' = Notifiers
    BY <1>2 DEF Accept, AcceptCloneFails, Notifiers
  <2>. QED
    BY <1>1, <1>2, <2>1
       DEF Accept, AcceptCloneFails, mainVars, NotifyAccounting, Count
<1>3. CASE ListenerSend
  <2>1. Notifiers' = Notifiers
    BY <1>3 DEF ListenerSend, Notifiers
  <2>2. next_id - 1 \in Ids
    BY <1>3, ConstantsAssumption
       DEF ListenerSend, AccountingInv, OrderInv, TypeInv, TypeOK,
           ListenerHasId, Ids, ConstantsAssumption
  <2>3. Connected(next_id - 1) \in TcpEvent
    BY <2>2, EventType
  <2>4. Len(events') = Len(events) + 1
    BY <1>1, <1>3, <2>3, AppendFacts DEF ListenerSend
  <2>. QED
    BY <1>1, <1>3, <2>1, <2>4 DEF ListenerSend, mainVars, NotifyAccounting, Count
<1>4. CASE ListenerNotify
  <2>1. Notifiers' = Notifiers
    BY <1>4 DEF ListenerNotify, Notifiers
  <2>. QED
    BY <1>1, <1>4, <2>1 DEF ListenerNotify, mainVars, NotifyAccounting, Count
<1>5. CASE ListenerSpawn
  <2>1. next_id - 1 \in Ids /\ reader[next_id - 1] = "none"
    BY <1>5, ConstantsAssumption
       DEF ListenerSpawn, AccountingInv, OrderInv, TypeInv, TypeOK,
           ListenerHasId, ReaderNotSpawned, Ids, ConstantsAssumption
  <2>2. Cardinality(Notifiers') = N
    <3>1. PICK id \in Ids : id = next_id - 1
      BY <2>1
    <3>2. reader' = [reader EXCEPT ![id] = "read"] /\ reader[id] = "none"
      BY <1>5, <2>1, <3>1 DEF ListenerSpawn
    <3>3. Notifiers' = Notifiers
      BY <1>1, <3>2 DEF Notifiers, TypeOK
    <3>. QED
      BY <3>3
  <2>. QED
    BY <1>1, <1>5, <2>2 DEF ListenerSpawn, mainVars, NotifyAccounting, Count
<1>6. ASSUME NEW id \in Ids, ReadData(id) \/ ReadEnd(id)
      PROVE  NotifyAccounting'
  <2>1. Cardinality(Notifiers') = N
    BY <1>1, <1>6, OneReaderSteps DEF ReadData, ReadEnd
  <2>. QED
    BY <1>1, <1>6, <2>1 DEF ReadData, ReadEnd, mainVars, NotifyAccounting, Count
<1>7. ASSUME NEW id \in Ids, SendData(id) \/ SendEnd(id)
      PROVE  NotifyAccounting'
  <2>1. Cardinality(Notifiers') = N + 1
    BY <1>1, <1>7, OneReaderSteps DEF SendData, SendEnd
  <2>2. Len(events') = Len(events) + 1
    BY <1>1, <1>7 DEF SendData, SendEnd
  <2>3. UNCHANGED <<pipe, listener, pc>>
    BY <1>7 DEF SendData, SendEnd, mainVars
  <2>. QED
    BY <1>1, <2>1, <2>2, <2>3 DEF NotifyAccounting, Count
<1>8. ASSUME NEW id \in Ids, ReaderNotify(id)
      PROVE  NotifyAccounting'
  <2>1. Cardinality(Notifiers') = N - 1
    BY <1>1, <1>8, OneReaderSteps DEF ReaderNotify
  <2>. QED
    BY <1>1, <1>8, <2>1 DEF ReaderNotify, mainVars, NotifyAccounting, Count
<1>. QED
  BY <1>2, <1>3, <1>4, <1>5, <1>6, <1>7, <1>8 DEF Listener, Announce, Reader

LEMMA AccountingStep == AccountingInv /\ [Next]_vars => AccountingInv'
<1> SUFFICES ASSUME AccountingInv, [Next]_vars PROVE AccountingInv'
  OBVIOUS
<1>1. OrderInv'
  BY OrderInvStep DEF AccountingInv
<1>2. NotifyAccounting'
  BY MainAccounting, ThreadAccounting DEF Next, Exited
<1>. QED
  BY <1>1, <1>2 DEF AccountingInv

LEMMA AccountingAlways == Spec => []AccountingInv
<1>. QED
  BY AccountingInit, AccountingStep, PTL DEF Spec

(* "One event was queued per byte": at every moment the bytes in the pipe, *)
(* the bytes about to be written and the byte just read add up to the      *)
(* events in the channel, whatever the interleaving, the number of         *)
(* connections and the capacity of the pipe.                               *)
THEOREM OneEventPerByte == Spec => []NotifyAccounting
BY AccountingAlways, PTL DEF AccountingInv

(* A byte read from the pipe always finds an event: the branch of          *)
(* wait_for_next_event for an empty channel is never taken.                *)
ByteFindsEvent == pc = "recv" => events # <<>>

THEOREM ByteNeverEmpty == Spec => []ByteFindsEvent
<1>1. AccountingInv => ByteFindsEvent
  <2> SUFFICES ASSUME AccountingInv, pc = "recv", events = <<>> PROVE FALSE
    BY DEF ByteFindsEvent
  <2>1. Cardinality(Notifiers) \in Nat /\ pipe \in Nat
    BY ConstantsAssumption, NotifiersFinite
       DEF AccountingInv, OrderInv, TypeInv, TypeOK, ConstantsAssumption
  <2>. QED
    BY <2>1 DEF AccountingInv, NotifyAccounting, Count
<1>. QED
  BY <1>1, AccountingAlways, PTL

-----------------------------------------------------------------------------
(* The bytes in flight.                                                    *)

LEMMA CarriesAppendData ==
  ASSUME NEW q \in Seq(TcpEvent), NEW e \in TcpEvent, NEW id,
         NEW from \in Nat, NEW to \in Nat,
         Carries(q, id, from, to),
         IsData(e, id), e.lo = to + 1, e.lo <= e.hi
  PROVE  Carries(Append(q, e), id, from, e.hi)
<1> DEFINE r == Append(q, e)
<1>1. /\ Len(q) \in Nat
      /\ Len(r) = Len(q) + 1
      /\ \A i \in 1 .. Len(q) : r[i] = q[i]
      /\ r[Len(q) + 1] = e
  BY AppendFacts
<1>2. \A i \in 1 .. Len(q) : q[i].lo \in Nat /\ q[i].hi \in Nat
  <2>1. \A i \in 1 .. Len(q) : q[i] \in TcpEvent
    OBVIOUS
  <2>. QED
    BY <2>1 DEF TcpEvent
<1>3. e.lo \in Nat /\ e.hi \in Nat
  BY DEF TcpEvent
<1>. HIDE DEF r
<1>4. from <= e.hi
  BY <1>3 DEF Carries
<1>5. \E i \in 1 .. Len(r) : IsData(r[i], id) /\ r[i].hi = e.hi
  BY <1>1
<1>6. ASSUME NEW i \in 1 .. Len(r), IsData(r[i], id)
      PROVE  /\ from < r[i].lo /\ r[i].lo <= r[i].hi /\ r[i].hi <= e.hi
             /\ \/ r[i].lo = from + 1
                \/ \E j \in 1 .. i - 1 : IsData(r[j], id) /\ r[i].lo = r[j].hi + 1
             /\ \A j \in 1 .. i - 1 : IsData(r[j], id) => r[j].hi < r[i].lo
  <2>1. CASE i \in 1 .. Len(q)
    <3>1. r[i] = q[i] /\ \A j \in 1 .. i - 1 : r[j] = q[j]
      BY <1>1, <2>1
    <3>2. /\ from < q[i].lo /\ q[i].lo <= q[i].hi /\ q[i].hi <= to
          /\ \/ q[i].lo = from + 1
             \/ \E j \in 1 .. i - 1 : IsData(q[j], id) /\ q[i].lo = q[j].hi + 1
          /\ \A j \in 1 .. i - 1 : IsData(q[j], id) => q[j].hi < q[i].lo
      BY <1>6, <2>1, <3>1 DEF Carries
    <3>3. q[i].hi <= e.hi
      BY <1>2, <1>3, <2>1, <3>2
    <3>. QED
      BY <3>1, <3>2, <3>3
  <2>2. CASE i = Len(q) + 1
    <3>1. r[i] = e /\ i - 1 = Len(q)
      BY <1>1, <2>2
    <3>2. from < e.lo
      BY <1>3 DEF Carries
    <3>3. e.lo = from + 1 \/ \E j \in 1 .. Len(q) : IsData(r[j], id) /\ e.lo = r[j].hi + 1
      BY <1>1, <1>3 DEF Carries
    <3>4. \A j \in 1 .. Len(q) : IsData(r[j], id) => r[j].hi < e.lo
      BY <1>1, <1>2, <1>3 DEF Carries
    <3>. QED
      BY <1>3, <3>1, <3>2, <3>3, <3>4
  <2>. QED
    BY <1>1, <2>1, <2>2
<1>. QED
  BY <1>4, <1>5, <1>6 DEF Carries, r

LEMMA CarriesAppendOther ==
  ASSUME NEW q \in Seq(TcpEvent), NEW e \in TcpEvent, NEW id, NEW from, NEW to,
         Carries(q, id, from, to), ~IsData(e, id)
  PROVE  Carries(Append(q, e), id, from, to)
<1> DEFINE r == Append(q, e)
<1>1. /\ Len(q) \in Nat
      /\ Len(r) = Len(q) + 1
      /\ \A i \in 1 .. Len(q) : r[i] = q[i]
      /\ r[Len(q) + 1] = e
  BY AppendFacts
<1>. HIDE DEF r
<1>2. from = to \/ \E i \in 1 .. Len(r) : IsData(r[i], id) /\ r[i].hi = to
  BY <1>1 DEF Carries
<1>3. ASSUME NEW i \in 1 .. Len(r), IsData(r[i], id)
      PROVE  /\ from < r[i].lo /\ r[i].lo <= r[i].hi /\ r[i].hi <= to
             /\ \/ r[i].lo = from + 1
                \/ \E j \in 1 .. i - 1 : IsData(r[j], id) /\ r[i].lo = r[j].hi + 1
             /\ \A j \in 1 .. i - 1 : IsData(r[j], id) => r[j].hi < r[i].lo
  <2>1. i \in 1 .. Len(q)
    BY <1>1, <1>3
  <2>2. r[i] = q[i] /\ \A j \in 1 .. i - 1 : r[j] = q[j]
    BY <1>1, <2>1
  <2>. QED
    BY <1>3, <2>1, <2>2 DEF Carries
<1>. QED
  BY <1>2, <1>3 DEF Carries, r

LEMMA CarriesTailData ==
  ASSUME NEW q \in Seq(TcpEvent), q # <<>>, NEW id,
         NEW from \in Nat, NEW to \in Nat,
         Carries(q, id, from, to), IsData(Head(q), id)
  PROVE  /\ Head(q).lo = from + 1 /\ Head(q).lo <= Head(q).hi /\ Head(q).hi <= to
         /\ Carries(Tail(q), id, Head(q).hi, to)
<1> DEFINE t == Tail(q)
           h == q[1]
<1>1. /\ Len(q) \in Nat \ {0}
      /\ Len(t) = Len(q) - 1
      /\ \A i \in 1 .. Len(q) - 1 : t[i] = q[i + 1]
      /\ Head(q) = h
  BY TailFacts
<1>2. \A i \in 1 .. Len(q) : q[i].lo \in Nat /\ q[i].hi \in Nat
  <2>1. \A i \in 1 .. Len(q) : q[i] \in TcpEvent
    OBVIOUS
  <2>. QED
    BY <2>1 DEF TcpEvent
<1>. HIDE DEF t
<1>3. 1 \in 1 .. Len(q) /\ 1 .. 1 - 1 = {} /\ IsData(h, id)
  BY <1>1
<1>4. h.lo = from + 1 /\ h.lo <= h.hi /\ h.hi <= to
  BY <1>2, <1>3 DEF Carries
<1>5. h.hi \in Nat /\ h.lo \in Nat
  BY <1>2, <1>3
<1>6. h.hi = to \/ \E i \in 1 .. Len(t) : IsData(t[i], id) /\ t[i].hi = to
  <2> SUFFICES ASSUME h.hi # to
               PROVE  \E i \in 1 .. Len(t) : IsData(t[i], id) /\ t[i].hi = to
    OBVIOUS
  <2>1. from # to
    BY <1>4, <1>5
  <2>2. PICK i \in 1 .. Len(q) : IsData(q[i], id) /\ q[i].hi = to
    BY <2>1 DEF Carries
  <2>3. i - 1 \in 1 .. Len(t) /\ t[i - 1] = q[i]
    BY <1>1, <2>2
  <2>. QED
    BY <2>2, <2>3
<1>7. ASSUME NEW i \in 1 .. Len(t), IsData(t[i], id)
      PROVE  /\ h.hi < t[i].lo /\ t[i].lo <= t[i].hi /\ t[i].hi <= to
             /\ \/ t[i].lo = h.hi + 1
                \/ \E j \in 1 .. i - 1 : IsData(t[j], id) /\ t[i].lo = t[j].hi + 1
             /\ \A j \in 1 .. i - 1 : IsData(t[j], id) => t[j].hi < t[i].lo
  <2>1. /\ i + 1 \in 1 .. Len(q) /\ t[i] = q[i + 1] /\ (i + 1) - 1 = i
        /\ 1 \in 1 .. i
    BY <1>1
  <2>2. h.hi < t[i].lo /\ t[i].lo <= t[i].hi /\ t[i].hi <= to
    BY <1>3, <1>7, <2>1 DEF Carries
  <2>3. \A j \in 1 .. i - 1 : IsData(t[j], id) => t[j].hi < t[i].lo
    <3> SUFFICES ASSUME NEW j \in 1 .. i - 1, IsData(t[j], id)
                 PROVE  t[j].hi < t[i].lo
      OBVIOUS
    <3>1. j + 1 \in 1 .. i /\ t[j] = q[j + 1]
      BY <1>1
    <3>. QED
      BY <1>7, <2>1, <3>1 DEF Carries
  <2>4. \/ t[i].lo = h.hi + 1
        \/ \E j \in 1 .. i - 1 : IsData(t[j], id) /\ t[i].lo = t[j].hi + 1
    <3>1. t[i].lo # from + 1
      <4>1. t[i].lo \in Nat
        BY <1>2, <2>1
      <4>. QED
        BY <1>4, <1>5, <2>2, <4>1
    <3>2. PICK j \in 1 .. i : IsData(q[j], id) /\ t[i].lo = q[j].hi + 1
      BY <1>7, <2>1, <3>1 DEF Carries
    <3>3. CASE j = 1
      BY <3>2, <3>3
    <3>4. CASE j # 1
      <4>1. j - 1 \in 1 .. i - 1 /\ t[j - 1] = q[j]
        BY <1>1, <3>4
      <4>. QED
        BY <3>2, <4>1
    <3>. QED
      BY <3>3, <3>4
  <2>. QED
    BY <2>2, <2>3, <2>4
<1>8. Carries(t, id, h.hi, to)
  BY <1>4, <1>6, <1>7 DEF Carries
<1>. QED
  BY <1>1, <1>4, <1>8 DEF t

LEMMA CarriesTailOther ==
  ASSUME NEW q \in Seq(TcpEvent), q # <<>>, NEW id, NEW from, NEW to,
         Carries(q, id, from, to), ~IsData(Head(q), id)
  PROVE  Carries(Tail(q), id, from, to)
<1> DEFINE t == Tail(q)
<1>1. /\ Len(q) \in Nat \ {0}
      /\ Len(t) = Len(q) - 1
      /\ \A i \in 1 .. Len(q) - 1 : t[i] = q[i + 1]
      /\ Head(q) = q[1]
  BY TailFacts
<1>. HIDE DEF t
<1>2. ASSUME NEW i \in 1 .. Len(q), IsData(q[i], id)
      PROVE  i - 1 \in 1 .. Len(t) /\ t[i - 1] = q[i]
  BY <1>1, <1>2
<1>3. from = to \/ \E i \in 1 .. Len(t) : IsData(t[i], id) /\ t[i].hi = to
  BY <1>2 DEF Carries
<1>4. ASSUME NEW i \in 1 .. Len(t), IsData(t[i], id)
      PROVE  /\ from < t[i].lo /\ t[i].lo <= t[i].hi /\ t[i].hi <= to
             /\ \/ t[i].lo = from + 1
                \/ \E j \in 1 .. i - 1 : IsData(t[j], id) /\ t[i].lo = t[j].hi + 1
             /\ \A j \in 1 .. i - 1 : IsData(t[j], id) => t[j].hi < t[i].lo
  <2>1. i + 1 \in 1 .. Len(q) /\ t[i] = q[i + 1] /\ (i + 1) - 1 = i
    BY <1>1
  <2>2. from < t[i].lo /\ t[i].lo <= t[i].hi /\ t[i].hi <= to
    BY <1>4, <2>1 DEF Carries
  <2>3. \A j \in 1 .. i - 1 : IsData(t[j], id) => t[j].hi < t[i].lo
    <3> SUFFICES ASSUME NEW j \in 1 .. i - 1, IsData(t[j], id)
                 PROVE  t[j].hi < t[i].lo
      OBVIOUS
    <3>1. j + 1 \in 1 .. i /\ t[j] = q[j + 1]
      BY <1>1
    <3>. QED
      BY <1>4, <2>1, <3>1 DEF Carries
  <2>4. \/ t[i].lo = from + 1
        \/ \E j \in 1 .. i - 1 : IsData(t[j], id) /\ t[i].lo = t[j].hi + 1
    <3> SUFFICES ASSUME t[i].lo # from + 1
                 PROVE  \E j \in 1 .. i - 1 : IsData(t[j], id) /\ t[i].lo = t[j].hi + 1
      OBVIOUS
    <3>1. PICK j \in 1 .. i : IsData(q[j], id) /\ t[i].lo = q[j].hi + 1
      BY <1>4, <2>1 DEF Carries
    <3>2. j # 1
      BY <1>1, <3>1
    <3>3. j - 1 \in 1 .. i - 1 /\ t[j - 1] = q[j]
      BY <1>1, <3>2
    <3>. QED
      BY <3>1, <3>3
  <2>. QED
    BY <2>2, <2>3, <2>4
<1>5. from <= to
  BY DEF Carries
<1>. QED
  BY <1>3, <1>4, <1>5 DEF Carries, t

(* The inductive invariant of the bytes.                                   *)
BytesInv == TypeInv /\ BytesInFlight

LEMMA BytesInit == Init => BytesInv
<1> SUFFICES ASSUME Init PROVE BytesInv
  OBVIOUS
<1>1. events = <<>> /\ \A id \in Ids : /\ got[id] = 0 /\ taken[id] = 0
                                     /\ buf[id] = 0 /\ sent[id] = 0
                                     /\ reader[id] = "none"
  BY DEF Init
<1>2. \A id \in Ids : Carries(events, id, 0, 0)
  BY <1>1 DEF Carries
<1>3. BytesInFlight
  BY <1>1, <1>2 DEF BytesInFlight
<1>. QED
  BY <1>3, TypeInvInit DEF BytesInv

(* Steps that send or take no event.                                       *)
LEMMA QuietKeepsBytes ==
  ASSUME BytesInv, [Next]_vars, events' = events
  PROVE  BytesInFlight'
<1>1. TypeOK
  BY DEF BytesInv, TypeInv
<1>2. CASE UNCHANGED <<got, taken, buf, sent, reader>>
  BY <1>2 DEF BytesInv, BytesInFlight
<1>3. CASE StartServer \/ Accept \/ AcceptCloneFails \/ ListenerNotify
  BY <1>2, <1>3 DEF StartServer, Accept, AcceptCloneFails, ListenerNotify,
                    mainVars, netVars
<1>4. CASE ListenerSpawn \/ \E id \in Ids : ReadEnd(id) \/ ReaderNotify(id)
  <2>1. UNCHANGED <<got, taken, buf, sent>>
    BY <1>4 DEF ListenerSpawn, ReadEnd, ReaderNotify, mainVars, netVars
  <2>2. \A id \in Ids : reader'[id] = "sendData" => reader[id] = "sendData"
    BY <1>1, <1>4 DEF ListenerSpawn, ReadEnd, ReaderNotify, TypeOK
  <2>. QED
    BY <2>1, <2>2 DEF BytesInv, BytesInFlight
<1>5. ASSUME NEW id \in Ids, ReadData(id) PROVE BytesInFlight'
  <2>1. UNCHANGED <<got, taken, sent>>
    BY <1>5 DEF ReadData, mainVars, netVars
  <2>2. PICK n \in 1 .. BufSize :
           taken[id] + n <= sent[id] /\ buf' = [buf EXCEPT ![id] = n]
    BY <1>5 DEF ReadData
  <2>3. /\ buf'[id] = n /\ n > 0
        /\ \A s \in Ids \ {id} : buf'[s] = buf[s] /\ reader'[s] = reader[s]
    BY <1>1, <1>5, <2>2, ConstantsAssumption
       DEF ReadData, TypeOK, ConstantsAssumption
  <2>. QED
    BY <2>1, <2>2, <2>3 DEF BytesInv, BytesInFlight
<1>6. ASSUME NEW id \in Ids, PeerSend(id) PROVE BytesInFlight'
  <2>1. UNCHANGED <<got, taken, buf, reader>>
    BY <1>6 DEF PeerSend, mainVars, threadVars
  <2>2. \A s \in Ids : sent[s] \in Nat /\ sent'[s] \in Nat /\ sent[s] <= sent'[s]
    <3>1. sent \in [Ids -> Nat]
      BY <1>1, ConstantsAssumption DEF TypeOK, ConstantsAssumption
    <3>2. sent' = [sent EXCEPT ![id] = sent[id] + 1]
      BY <1>6 DEF PeerSend
    <3>. QED
      BY <3>1, <3>2
  <2>3. \A s \in Ids : taken[s] + buf[s] \in Nat
    <3>1. \A s \in Ids : taken[s] \in Nat /\ buf[s] \in Nat
      BY <1>1, ConstantsAssumption DEF TypeOK, ConstantsAssumption
    <3>. QED
      BY <3>1
  <2>4. \A s \in Ids : taken[s] + buf[s] <= sent'[s]
    BY <2>2, <2>3 DEF BytesInv, BytesInFlight
  <2>. QED
    BY <2>1, <2>4 DEF BytesInv, BytesInFlight
<1>7. ASSUME NEW id \in Ids, PeerClose(id) \/ PeerReset(id) \/ PeerRead(id)
      PROVE  BytesInFlight'
  BY <1>2, <1>7 DEF PeerClose, PeerReset, PeerRead, mainVars, threadVars
<1>8. CASE StartNothing \/ DrainByte \/ Update \/ handle_effects \/ OtherWakeup
           \/ UNCHANGED vars
  BY <1>2, <1>8
     DEF StartNothing, DrainByte, Update, handle_effects, SendDropped,
         SendWritten, SendFails, ExitEffect, EffectsDone, OtherWakeup,
         StdinEvent, TimerEvent, WaitReturnsNone, threadVars, netVars, vars,
         mainVars
<1>9. CASE StartClient \/ ListenerSend \/ \E id \in Ids : SendData(id) \/ SendEnd(id)
  <2>1. \E e : events' = Append(events, e)
    BY <1>9 DEF StartClient, ListenerSend, SendData, SendEnd
  <2>. QED
    BY <1>1, <2>1 DEF TypeOK
<1>10. CASE TryRecv
  <2>1. CASE events = <<>>
    BY <1>2, <1>10, <2>1 DEF TryRecv, threadVars, netVars
  <2>2. CASE events # <<>>
    BY <1>1, <1>10, <2>2, TailFacts DEF TryRecv, TypeOK
  <2>. QED
    BY <2>1, <2>2
<1>. QED
  BY <1>3, <1>4, <1>5, <1>6, <1>7, <1>8, <1>9, <1>10
     DEF Next, Main, init_tcp_from_subs, Listener, Announce, Reader, Network,
         Exited

(* Steps that send one.                                                    *)
LEMMA SendKeepsBytes ==
  ASSUME BytesInv, StartClient \/ ListenerSend \/ \E id \in Ids : SendEnd(id)
  PROVE  BytesInFlight'
<1>1. TypeOK
  BY DEF BytesInv, TypeInv
<1>2. PICK e \in TcpEvent : e.kind # "Data" /\ events' = Append(events, e)
  <2>1. CASE StartClient
    BY <2>1, IdsFacts, EventType DEF StartClient, Connected
  <2>2. CASE ListenerSend
    <3>1. next_id - 1 \in Ids
      BY <2>2, ConstantsAssumption
         DEF ListenerSend, BytesInv, TypeInv, TypeOK, ListenerHasId, Ids,
             ConstantsAssumption
    <3>. QED
      BY <2>2, <3>1, EventType DEF ListenerSend, Connected
  <2>3. CASE \E id \in Ids : SendEnd(id)
    BY <2>3, EventType DEF SendEnd, Disconnected
  <2>. QED
    BY <2>1, <2>2, <2>3
<1>3. UNCHANGED <<got, taken, buf, sent>>
  BY DEF StartClient, ListenerSend, SendEnd, mainVars, netVars
<1>4. \A id \in Ids : reader'[id] = "sendData" => reader[id] = "sendData"
  BY <1>1 DEF StartClient, ListenerSend, SendEnd, TypeOK
<1>5. ASSUME NEW id \in Ids PROVE Carries(events', id, got[id], taken[id])
  <2>1. ~IsData(e, id)
    BY <1>2 DEF IsData
  <2>2. events \in Seq(TcpEvent) /\ Carries(events, id, got[id], taken[id])
    BY <1>1 DEF TypeOK, BytesInv, BytesInFlight
  <2>. QED
    BY <1>2, <2>1, <2>2, CarriesAppendOther
<1>. QED
  BY <1>3, <1>4, <1>5 DEF BytesInv, BytesInFlight

LEMMA SendDataKeepsBytes ==
  ASSUME BytesInv, NEW id \in Ids, SendData(id)
  PROVE  BytesInFlight'
<1> DEFINE e == Data(id, taken[id] + 1, taken[id] + buf[id])
<1>1. TypeOK /\ events \in Seq(TcpEvent)
  BY DEF BytesInv, TypeInv, TypeOK
<1>2. /\ taken[id] \in Nat /\ buf[id] \in Nat
      /\ \A s \in Ids : got[s] \in Nat
  BY <1>1, ConstantsAssumption DEF TypeOK, ConstantsAssumption
<1>3. taken[id] + 1 \in Nat /\ taken[id] + buf[id] \in Nat /\ buf[id] > 0
  BY <1>2 DEF SendData, BytesInv, BytesInFlight
<1>4. /\ e \in TcpEvent /\ IsData(e, id) /\ e.lo = taken[id] + 1
      /\ e.hi = taken[id] + buf[id] /\ e.lo <= e.hi
      /\ \A s \in Ids \ {id} : ~IsData(e, s)
  BY <1>2, <1>3, EventType DEF Data, IsData
<1>5. events' = Append(events, e) /\ UNCHANGED <<got, sent>>
  BY DEF SendData, mainVars, netVars
<1>6. /\ taken'[id] = taken[id] + buf[id] /\ buf'[id] = 0
      /\ reader'[id] = "notifyData"
      /\ \A s \in Ids \ {id} : taken'[s] = taken[s] /\ buf'[s] = buf[s]
                              /\ reader'[s] = reader[s]
  BY <1>1 DEF SendData, TypeOK
<1>. HIDE DEF e
<1>7. Carries(events', id, got'[id], taken'[id])
  <2>1. Carries(events, id, got[id], taken[id])
    BY DEF BytesInv, BytesInFlight
  <2>2. Carries(Append(events, e), id, got[id], e.hi)
    BY <1>1, <1>2, <1>4, <2>1, CarriesAppendData
  <2>. QED
    BY <1>4, <1>5, <1>6, <2>2
<1>8. ASSUME NEW s \in Ids \ {id} PROVE Carries(events', s, got'[s], taken'[s])
  BY <1>1, <1>4, <1>5, <1>6, CarriesAppendOther DEF BytesInv, BytesInFlight
<1>9. taken'[id] + buf'[id] <= sent'[id]
  BY <1>3, <1>5, <1>6 DEF BytesInv, BytesInFlight
<1>. QED
  BY <1>5, <1>6, <1>7, <1>8, <1>9 DEF BytesInv, BytesInFlight

(* The step that takes one, and what it hands over.                        *)
LEMMA TryRecvBytes ==
  ASSUME BytesInv, TryRecv, events # <<>>
  PROVE  /\ BytesInFlight'
         /\ \/ got' = got
            \/ \E id \in Ids :
                 /\ IsData(Head(events), id)
                 /\ Head(events).lo = got[id] + 1
                 /\ Head(events).hi \in got[id] + 1 .. MaxBytes
                 /\ got' = [got EXCEPT ![id] = Head(events).hi]
<1> DEFINE h == Head(events)
<1>1. /\ TypeOK /\ events \in Seq(TcpEvent) /\ h \in TcpEvent
      /\ events' = Tail(events) /\ UNCHANGED <<taken, buf, sent, reader>>
  <2>1. TypeOK /\ events \in Seq(TcpEvent) /\ TypeInv
    BY DEF BytesInv, TypeInv, TypeOK
  <2>. QED
    BY <2>1, TryRecvSeen DEF TryRecv, threadVars, netVars
<1>2. \A s \in Ids : /\ got[s] \in Nat /\ taken[s] \in Nat /\ buf[s] \in Nat
                     /\ sent[s] \in 0 .. MaxBytes
                     /\ Carries(events, s, got[s], taken[s])
  BY <1>1, ConstantsAssumption
     DEF TypeOK, ConstantsAssumption, BytesInv, BytesInFlight
<1>3. CASE h.kind = "Data"
  <2>1. h.id \in Ids /\ h.lo \in Nat /\ h.hi \in Nat
    BY <1>1 DEF TcpEvent
  <2>2. got' = [got EXCEPT ![h.id] = h.hi]
    BY <1>3 DEF TryRecv, OnData
  <2>3. IsData(h, h.id) /\ \A s \in Ids \ {h.id} : ~IsData(h, s)
    BY <1>3 DEF IsData
  <2>4. /\ h.lo = got[h.id] + 1 /\ h.lo <= h.hi /\ h.hi <= taken[h.id]
        /\ Carries(Tail(events), h.id, h.hi, taken[h.id])
    BY <1>1, <1>2, <2>1, <2>3, CarriesTailData
  <2>5. \A s \in Ids \ {h.id} : Carries(Tail(events), s, got[s], taken[s])
    BY <1>1, <1>2, <2>3, CarriesTailOther
  <2>6. /\ got'[h.id] = h.hi /\ \A s \in Ids \ {h.id} : got'[s] = got[s]
    BY <1>1, <2>1, <2>2 DEF TypeOK
  <2>7. \A s \in Ids : Carries(events', s, got'[s], taken[s])
    BY <1>1, <2>4, <2>5, <2>6
  <2>8. h.hi \in got[h.id] + 1 .. MaxBytes
    <3>1. taken[h.id] + buf[h.id] <= sent[h.id]
      BY <2>1 DEF BytesInv, BytesInFlight
    <3>. QED
      BY <1>2, <2>1, <2>4, <3>1, ConstantsAssumption DEF ConstantsAssumption
  <2>9. BytesInFlight'
    BY <1>1, <2>7 DEF BytesInv, BytesInFlight
  <2>. QED
    BY <2>1, <2>2, <2>3, <2>4, <2>8, <2>9
<1>4. CASE h.kind # "Data"
  <2>1. got' = got
    BY <1>4 DEF TryRecv, OnConnected, OnDisconnected
  <2>2. \A s \in Ids : ~IsData(h, s)
    BY <1>4 DEF IsData
  <2>3. \A s \in Ids : Carries(Tail(events), s, got[s], taken[s])
    BY <1>1, <1>2, <2>2, CarriesTailOther
  <2>. QED
    BY <1>1, <2>1, <2>3 DEF BytesInv, BytesInFlight
<1>. QED
  BY <1>3, <1>4

LEMMA BytesStep == BytesInv /\ [Next]_vars => BytesInv'
<1> SUFFICES ASSUME BytesInv, [Next]_vars PROVE BytesInv'
  OBVIOUS
<1>1. TypeInv'
  BY TypeInvStep DEF BytesInv
<1>2. BytesInFlight'
  <2>1. CASE events' = events
    BY <2>1, QuietKeepsBytes
  <2>2. CASE events' # events
    <3>1. \/ StartClient \/ ListenerSend
          \/ \E id \in Ids : SendData(id) \/ SendEnd(id)
          \/ TryRecv /\ events # <<>>
      BY <2>2
         DEF Next, Main, init_tcp_from_subs, StartServer, StartNothing,
             DrainByte, TryRecv, Update, handle_effects, SendDropped,
             SendWritten, SendFails, ExitEffect, EffectsDone, OtherWakeup,
             StdinEvent, TimerEvent, WaitReturnsNone, Listener, Announce,
             Accept, AcceptCloneFails, ListenerNotify, ListenerSpawn, Reader,
             ReadData, ReadEnd, ReaderNotify, Network, PeerSend, PeerClose,
             PeerReset, PeerRead, Exited, vars, mainVars
    <3>. QED
      BY <3>1, SendKeepsBytes, SendDataKeepsBytes, TryRecvBytes
  <2>. QED
    BY <2>1, <2>2
<1>. QED
  BY <1>1, <1>2 DEF BytesInv

LEMMA BytesAlways == Spec => []BytesInv
<1>. QED
  BY BytesInit, BytesStep, PTL DEF Spec

(* Every byte a reader thread has taken off its socket has been handed over*)
(* or is in the channel, once and in its place.                            *)
THEOREM NoByteLost == Spec => []BytesInFlight
BY BytesAlways, PTL DEF BytesInv

LEMMA GotChangesByRecv ==
  ASSUME [Next]_vars, got' # got
  PROVE  TryRecv /\ events # <<>>
BY DEF Next, Main, init_tcp_from_subs, StartServer, StartClient, StartNothing,
       DrainByte, TryRecv, Update, handle_effects, SendDropped, SendWritten,
       SendFails, ExitEffect, EffectsDone, OtherWakeup, StdinEvent, TimerEvent,
       WaitReturnsNone, Listener, Announce, Accept, AcceptCloneFails,
       ListenerSend, ListenerNotify, ListenerSpawn, Reader, ReadData, ReadEnd,
       SendData, SendEnd, ReaderNotify, Network, PeerSend, PeerClose, PeerReset,
       PeerRead, Exited, vars, mainVars

(* The main loop takes the bytes of a stream from the first on, with no gap*)
(* and no repetition.                                                      *)
THEOREM BytesDeliveredInOrder == Spec => BytesInOrder
<1> DEFINE A == \A id \in Ids :
                  got'[id] # got[id] => /\ Head(events).lo = got[id] + 1
                                        /\ got'[id] = Head(events).hi
                                        /\ got'[id] > got[id]
<1>1. BytesInv /\ [Next]_vars => [A]_vars
  <2> SUFFICES ASSUME BytesInv, [Next]_vars, NEW id \in Ids, got'[id] # got[id]
               PROVE  /\ Head(events).lo = got[id] + 1
                      /\ got'[id] = Head(events).hi
                      /\ got'[id] > got[id]
    OBVIOUS
  <2>1. TryRecv /\ events # <<>>
    BY GotChangesByRecv
  <2>2. got \in [Ids -> Nat]
    BY DEF BytesInv, TypeInv, TypeOK
  <2>3. PICK s \in Ids : /\ Head(events).lo = got[s] + 1
                        /\ Head(events).hi \in got[s] + 1 .. MaxBytes
                        /\ got' = [got EXCEPT ![s] = Head(events).hi]
    BY <2>1, TryRecvBytes
  <2>4. s = id
    BY <2>2, <2>3
  <2>. QED
    BY <2>2, <2>3, <2>4, ConstantsAssumption DEF ConstantsAssumption
<1>. QED
  BY <1>1, BytesAlways, PTL DEF Spec, BytesInOrder

-----------------------------------------------------------------------------
(* The refinement.                                                         *)

WritersKnown == \A id \in writers : seen[id] = "connected"

RefinementInv == OrderInv /\ BytesInv /\ WritersKnown

(* What one step of the transport is for the protocol.                     *)
LEMMA StepImplementsProtocol ==
  ASSUME RefinementInv, [Next]_vars
  PROVE  [Protocol!Next]_<<seen, got, writers>>
<1>1. CASE TryRecv /\ events # <<>>
  <2> DEFINE h == Head(events)
  <2>1. h \in TcpEvent /\ h.id \in Ids
        /\ h.kind \in {"Connected", "Disconnected", "Data"}
    <3>1. h \in TcpEvent
      BY <1>1, HeadTail DEF RefinementInv, OrderInv, TypeInv, TypeOK
    <3>. QED
      BY <3>1 DEF TcpEvent
  <2>2. seen[h.id] = IF h.kind = "Connected" THEN "unknown" ELSE "connected"
    BY <1>1, HeadIsNews
       DEF RefinementInv, OrderInv, TypeInv, TypeOK, ChannelOrder
  <2>3. CASE h.kind = "Connected"
    <3>1. /\ writers' = writers \cup {h.id} /\ got' = got
          /\ seen' = [seen EXCEPT ![h.id] = "connected"]
      BY <1>1, <2>3 DEF TryRecv, OnConnected
    <3>2. Protocol!Connect(h.id)
      BY <2>2, <2>3, <3>1 DEF Protocol!Connect
    <3>. QED
      BY <2>1, <3>2 DEF Protocol!Next
  <2>4. CASE h.kind = "Disconnected"
    <3>1. /\ writers' = writers \ {h.id} /\ got' = got
          /\ seen' = [seen EXCEPT ![h.id] = "gone"]
      BY <1>1, <2>4 DEF TryRecv, OnDisconnected
    <3>2. Protocol!Disconnect(h.id)
      BY <2>2, <2>4, <3>1 DEF Protocol!Disconnect
    <3>. QED
      BY <2>1, <3>2 DEF Protocol!Next
  <2>5. CASE h.kind = "Data"
    <3>1. UNCHANGED <<seen, writers>>
      BY <1>1, <2>5 DEF TryRecv, OnData
    <3>2. CASE got' = got
      BY <3>1, <3>2
    <3>3. ASSUME NEW id \in Ids, IsData(h, id),
                 h.hi \in got[id] + 1 .. MaxBytes,
                 got' = [got EXCEPT ![id] = h.hi]
          PROVE  Protocol!Receive(id)
      BY <2>2, <2>5, <3>1, <3>3 DEF Protocol!Receive, IsData
    <3>4. got' = got \/ \E id \in Ids : Protocol!Receive(id)
      BY <1>1, <3>3, TryRecvBytes DEF RefinementInv
    <3>. QED
      BY <3>2, <3>4 DEF Protocol!Next
  <2>. QED
    BY <2>1, <2>3, <2>4, <2>5
<1>2. CASE SendFails
  <2>1. PICK id \in Ids : /\ id \in writers /\ writers' = writers \ {id}
                         /\ UNCHANGED <<seen, got>>
    BY <1>2 DEF SendFails, RefinementInv, OrderInv, TypeInv, TypeOK
  <2>. QED
    BY <2>1 DEF Protocol!Next, Protocol!WriteFails
<1>3. CASE ~(TryRecv /\ events # <<>>) /\ ~SendFails
  <2>1. UNCHANGED <<seen, got, writers>>
    BY <1>3
       DEF Next, Main, init_tcp_from_subs, StartServer, StartClient,
           StartNothing, DrainByte, TryRecv, Update, handle_effects,
           SendDropped, SendWritten, ExitEffect, EffectsDone, OtherWakeup,
           StdinEvent, TimerEvent, WaitReturnsNone, Listener, Announce, Accept,
           AcceptCloneFails, ListenerSend, ListenerNotify, ListenerSpawn,
           Reader, ReadData, ReadEnd, SendData, SendEnd, ReaderNotify, Network,
           PeerSend, PeerClose, PeerReset, PeerRead, Exited, vars, mainVars
  <2>. QED
    BY <2>1
<1>. QED
  BY <1>1, <1>2, <1>3

LEMMA WritersStep ==
  ASSUME RefinementInv, [Protocol!Next]_<<seen, got, writers>>
  PROVE  WritersKnown'
<1>1. seen \in [Ids -> {"unknown", "connected", "gone"}] /\ writers \subseteq Ids
  BY DEF RefinementInv, OrderInv, TypeInv, TypeOK
<1>2. CASE UNCHANGED <<seen, got, writers>>
  BY <1>2 DEF RefinementInv, WritersKnown
<1>3. ASSUME NEW s \in Ids, Protocol!Connect(s) \/ Protocol!Disconnect(s)
      PROVE  WritersKnown'
  BY <1>1, <1>3 DEF Protocol!Connect, Protocol!Disconnect, RefinementInv,
                    WritersKnown
<1>4. ASSUME NEW s \in Ids, Protocol!Receive(s) \/ Protocol!WriteFails(s)
      PROVE  WritersKnown'
  BY <1>4 DEF Protocol!Receive, Protocol!WriteFails, RefinementInv, WritersKnown
<1>. QED
  BY <1>2, <1>3, <1>4 DEF Protocol!Next

LEMMA RefinementInvAlways == Spec => []RefinementInv
<1>1. Init => WritersKnown
  BY DEF Init, WritersKnown
<1>2. OrderInv /\ BytesInv /\ WritersKnown /\ [Next]_vars => WritersKnown'
  BY StepImplementsProtocol, WritersStep DEF RefinementInv
<1>. QED
  BY <1>1, <1>2, OrderInvAlways, BytesAlways, PTL DEF Spec, RefinementInv

(* The host keeps StreamProtocol's promise about every stream: announced   *)
(* once, then its bytes in order, then its end, and writable at most in    *)
(* between.                                                                *)
THEOREM TransportImplementsProtocol == Spec => ImplementsProtocol
<1>1. Init => Protocol!Init
  BY DEF Init, Protocol!Init
<1>2. RefinementInv /\ [Next]_vars => [Protocol!Next]_<<seen, got, writers>>
  BY StepImplementsProtocol
<1>3. Protocol!vars = <<seen, got, writers>>
  BY DEF Protocol!vars
<1>. QED
  BY <1>1, <1>2, <1>3, RefinementInvAlways, PTL
     DEF Spec, ImplementsProtocol, Protocol!Spec, Protocol!vars

-----------------------------------------------------------------------------
(* The end of a stream.                                                    *)

EndReported ==
  \A id \in Ids :
    reader[id] \in {"notifyEnd", "done"} =>
      seen[id] = "gone" \/ Has(events, id, "Disconnected")

LEMMA EndReportedStep ==
  ASSUME OrderInv, EndReported, [Next]_vars
  PROVE  EndReported'
<1>1. /\ TypeOK /\ events \in Seq(TcpEvent)
      /\ reader \in [Ids -> {"none", "read", "sendData", "notifyData",
                             "sendEnd", "notifyEnd", "done"}]
      /\ seen \in [Ids -> {"unknown", "connected", "gone"}]
  BY DEF OrderInv, TypeInv, TypeOK
<1>2. CASE /\ UNCHANGED <<events, seen>>
           /\ \A id \in Ids : reader'[id] \in {"notifyEnd", "done"} =>
                               reader[id] \in {"notifyEnd", "done"}
  BY <1>2 DEF EndReported
<1>3. ASSUME NEW e \in TcpEvent, events' = Append(events, e), seen' = seen,
             \A id \in Ids :
               reader'[id] \in {"notifyEnd", "done"} =>
                 \/ reader[id] \in {"notifyEnd", "done"}
                 \/ e.id = id /\ e.kind = "Disconnected"
      PROVE  EndReported'
  <2>1. \A id \in Ids : Has(events', id, "Disconnected") <=>
          Has(events, id, "Disconnected") \/ (e.id = id /\ e.kind = "Disconnected")
    BY <1>1, <1>3, AppendHas
  <2>. QED
    BY <1>3, <2>1 DEF EndReported
<1>4. CASE TryRecv /\ events # <<>>
  <2> DEFINE h == Head(events)
  <2>1. /\ events' = Tail(events) /\ seen' = After(h, seen) /\ h \in TcpEvent
        /\ reader' = reader
    BY <1>4, TryRecvSeen DEF OrderInv
  <2>2. seen[h.id] # "gone"
    BY <1>1, <1>4, HeadIsNews DEF OrderInv, ChannelOrder
  <2>3. \A id \in Ids : Has(events, id, "Disconnected") <=>
          Has(events', id, "Disconnected") \/ (h.id = id /\ h.kind = "Disconnected")
    BY <1>1, <1>4, <2>1, TailHas
  <2>. HIDE DEF h
  <2>4. /\ h.id \in Ids
        /\ \A id \in Ids : id # h.id => seen'[id] = seen[id]
        /\ h.kind = "Disconnected" => seen'[h.id] = "gone"
    BY <1>1, <2>1 DEF After, TcpEvent
  <2>. QED
    BY <2>1, <2>2, <2>3, <2>4 DEF EndReported
<1>5. CASE StartClient
  <2>1. Connected(0) \in TcpEvent
    BY IdsFacts, EventType
  <2>. QED
    BY <1>1, <1>3, <1>5, <2>1 DEF StartClient
<1>6. CASE ListenerSend
  <2>1. next_id - 1 \in Ids
    BY <1>6, ConstantsAssumption
       DEF ListenerSend, OrderInv, TypeInv, TypeOK, ListenerHasId, Ids,
           ConstantsAssumption
  <2>2. Connected(next_id - 1) \in TcpEvent
    BY <2>1, EventType
  <2>. QED
    BY <1>3, <1>6, <2>2 DEF ListenerSend, mainVars
<1>7. ASSUME NEW id \in Ids, SendData(id) PROVE EndReported'
  <2>1. taken[id] \in Nat /\ buf[id] \in Nat
    BY <1>1, ConstantsAssumption DEF TypeOK, ConstantsAssumption
  <2>2. taken[id] + 1 \in Nat /\ taken[id] + buf[id] \in Nat
    BY <2>1
  <2>3. Data(id, taken[id] + 1, taken[id] + buf[id]) \in TcpEvent
    BY <2>2, EventType
  <2>4. \A s \in Ids : reader'[s] \in {"notifyEnd", "done"} =>
                       reader[s] \in {"notifyEnd", "done"}
    BY <1>1, <1>7 DEF SendData
  <2>. QED
    BY <1>3, <1>7, <2>3, <2>4 DEF SendData, mainVars
<1>8. ASSUME NEW id \in Ids, SendEnd(id) PROVE EndReported'
  <2>1. Disconnected(id) \in TcpEvent /\ Disconnected(id).id = id
        /\ Disconnected(id).kind = "Disconnected"
    BY EventType DEF Disconnected
  <2>2. \A s \in Ids : reader'[s] \in {"notifyEnd", "done"} =>
                       reader[s] \in {"notifyEnd", "done"} \/ s = id
    BY <1>1, <1>8 DEF SendEnd
  <2>. QED
    BY <1>3, <1>8, <2>1, <2>2 DEF SendEnd, mainVars
<1>9. CASE ListenerSpawn
           \/ \E id \in Ids : ReadData(id) \/ ReadEnd(id) \/ ReaderNotify(id)
  <2>1. UNCHANGED <<events, seen>>
    BY <1>9 DEF ListenerSpawn, ReadData, ReadEnd, ReaderNotify, mainVars
  <2>2. \A id \in Ids : reader'[id] \in {"notifyEnd", "done"} =>
                        reader[id] \in {"notifyEnd", "done"}
    BY <1>1, <1>9 DEF ListenerSpawn, ReadData, ReadEnd, ReaderNotify
  <2>. QED
    BY <1>2, <2>1, <2>2
<1>10. CASE UNCHANGED <<events, seen, reader>>
  BY <1>2, <1>10
<1>11. ASSUME \/ StartServer \/ StartNothing \/ DrainByte \/ Update
              \/ handle_effects \/ OtherWakeup \/ Accept \/ AcceptCloneFails
              \/ ListenerNotify \/ UNCHANGED vars
              \/ TryRecv /\ events = <<>>
              \/ \E id \in Ids : Network(id)
       PROVE  UNCHANGED <<events, seen, reader>>
  BY <1>11
     DEF StartServer, StartNothing, DrainByte, TryRecv, Update, handle_effects,
         SendDropped, SendWritten, SendFails, ExitEffect, EffectsDone,
         OtherWakeup, StdinEvent, TimerEvent, WaitReturnsNone, Accept,
         AcceptCloneFails, ListenerNotify, Network, PeerSend, PeerClose,
         PeerReset, PeerRead, vars, mainVars, threadVars
<1>. QED
  BY <1>4, <1>5, <1>6, <1>7, <1>8, <1>9, <1>10, <1>11
     DEF Next, Main, init_tcp_from_subs, Listener, Announce, Reader, Exited

(* The host holds a handle of no stream whose end it has reported, and a   *)
(* reader thread that has ended has reported the end of its stream.        *)
THEOREM HandlesAreReclaimed == Spec => []HandlesReclaimed
<1>1. Init => EndReported
  BY DEF Init, EndReported
<1>2. OrderInv /\ EndReported /\ [Next]_vars => EndReported'
  BY EndReportedStep
<1>3. RefinementInv /\ EndReported => HandlesReclaimed
  BY DEF RefinementInv, WritersKnown, EndReported, HandlesReclaimed
<1>. QED
  BY <1>1, <1>2, <1>3, OrderInvAlways, RefinementInvAlways, PTL DEF Spec

=============================================================================
