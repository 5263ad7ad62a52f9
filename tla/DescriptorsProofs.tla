-------------------------- MODULE DescriptorsProofs --------------------------
(***************************************************************************)
(* Theorems about Descriptors, for any number of descriptors, connections  *)
(* and any size of the pipe.                                               *)
(***************************************************************************)
EXTENDS Descriptors, TLAPS

USE DEF NoFd, osVars, mainVars, threadVars, vars

(* Before TCP has started, and without it, there are no other threads.     *)
NoThreadsYet ==
  /\ (pc \in {"start", "bind", "connect"} \/ tcp.tx = NoFd =>
        /\ listener = [at |-> "none", stream |-> NoFd, writer |-> NoFd]
        /\ \A id \in Ids : reader[id].at = "none" /\ reader[id].stream = NoFd)
  /\ (pc \in {"bind", "connect"} => tcp.tx # NoFd)

(* Connections are numbered in the order they are accepted.                *)
TypeInv ==
  /\ TypeOK
  /\ next_id + backlog <= MaxConns
  /\ (listener.at \notin {"none", "accept"} => next_id > 0)
  /\ NoThreadsYet

-----------------------------------------------------------------------------
(* Type correctness.                                                       *)

LEMMA ObjectsFact ==
  /\ Unused \in Objects /\ Inherited \in Objects /\ PipeRead \in Objects
  /\ PipeWrite \in Objects /\ Listening \in Objects
  /\ \A id \in Ids : Conn(id) \in Objects
BY DEF Objects

LEMMA ClosedType ==
  ASSUME NEW t \in [Fds -> Objects], NEW n \in Fds \cup {NoFd}
  PROVE  Closed(t, n) \in [Fds -> Objects]
BY ObjectsFact DEF Closed

LEMMA EventType ==
  ASSUME NEW kind \in {"Connected", "Data", "Disconnected"}, NEW id \in Ids,
         NEW fd \in Fds \cup {NoFd}
  PROVE  Event(kind, id, fd) \in TcpEvents /\ Event(kind, id, fd).fd = fd
BY DEF Event, TcpEvents

LEMMA InitType == Init => TypeInv
<1>. SUFFICES ASSUME Init PROVE TypeInv
  OBVIOUS
<1>. USE ConstantsAssumption DEF ConstantsAssumption
<1>1. table \in [Fds -> Objects]
  BY ObjectsFact DEF Init
<1>2. /\ writers \in [Ids -> Fds \cup {NoFd}] /\ events \in Seq(TcpEvents)
      /\ peer \in [Ids -> {"none", "open", "closed"}]
  BY DEF Init
<1>3. reader \in [Ids -> [at : {"none", "read", "notifyData", "notifyEnd", "close", "done"},
                          stream : Fds \cup {NoFd}]]
  BY DEF Init
<1>4. TypeOK
  BY <1>1, <1>2, <1>3 DEF Init, TypeOK
<1>5. NoThreadsYet
  BY DEF Init, NoThreadsYet
<1>. QED
  BY <1>4, <1>5 DEF Init, TypeInv

LEMMA StartType == TypeInv /\ Start => TypeInv'
<1>. SUFFICES ASSUME TypeInv, Start PROVE TypeInv'
  OBVIOUS
<1>. USE ConstantsAssumption DEF ConstantsAssumption, TypeInv
<1>1. CASE StartNothing
  BY <1>1 DEF StartNothing, TypeOK, NoThreadsYet
<1>2. CASE OpenPipe
  <2>1. PICK n \in Fds, m \in Fds :
          /\ table' = [table EXCEPT ![n] = PipeRead, ![m] = PipeWrite]
          /\ tcp' = [rx |-> n, tx |-> m]
    BY <1>2 DEF OpenPipe
  <2>2. table' \in [Fds -> Objects] /\ m # NoFd
    BY <2>1, ObjectsFact DEF TypeOK, Fds
  <2>3. TypeOK'
    BY <1>2, <2>1, <2>2 DEF OpenPipe, TypeOK
  <2>4. NoThreadsYet'
    BY <1>2, <2>1, <2>2 DEF OpenPipe, NoThreadsYet
  <2>. QED
    BY <1>2, <2>3, <2>4 DEF OpenPipe
<1>3. CASE Bind
  <2>1. table' \in [Fds -> Objects]
    BY <1>3, ObjectsFact DEF Bind, TypeOK
  <2>2. TypeOK'
    BY <1>3, <2>1 DEF Bind, TypeOK
  <2>3. NoThreadsYet' /\ listener'.at = "accept"
    BY <1>3 DEF Bind, NoThreadsYet, TypeOK
  <2>. QED
    BY <1>3, <2>2, <2>3 DEF Bind
<1>4. CASE Connect
  <2>1. PICK n \in Fds, m \in Fds :
          /\ table' = [table EXCEPT ![n] = Conn(0), ![m] = Conn(0)]
          /\ events' = <<Event("Connected", 0, m)>> /\ pipe' = 1
          /\ reader' = [reader EXCEPT ![0] = [at |-> "read", stream |-> n]]
    BY <1>4 DEF Connect
  <2>2. 0 \in Ids /\ 1 \in 0 .. PipeCap
    BY DEF Ids
  <2>3. Event("Connected", 0, m) \in TcpEvents
    BY <2>2, EventType
  <2>4. table' \in [Fds -> Objects] /\ events' \in Seq(TcpEvents)
    BY <2>1, <2>2, <2>3, ObjectsFact DEF TypeOK
  <2>5. /\ reader' \in [Ids -> [at : {"none", "read", "notifyData", "notifyEnd", "close", "done"},
                               stream : Fds \cup {NoFd}]]
        /\ peer' \in [Ids -> {"none", "open", "closed"}]
    BY <1>4, <2>1, <2>2 DEF TypeOK, Connect
  <2>6. TypeOK'
    BY <1>4, <2>1, <2>2, <2>4, <2>5 DEF Connect, TypeOK
  <2>7. NoThreadsYet'
    BY <1>4 DEF Connect, NoThreadsYet
  <2>. QED
    BY <1>4, <2>6, <2>7 DEF Connect
<1>5. CASE StartFails
  <2>1. TypeOK'
    BY <1>5 DEF StartFails, TypeOK
  <2>2. NoThreadsYet'
    BY <1>5 DEF StartFails, NoThreadsYet
  <2>. QED
    BY <1>5, <2>1, <2>2 DEF StartFails
<1>. QED
  BY <1>1, <1>2, <1>3, <1>4, <1>5 DEF Start

(* Sending keeps the types of the two variables it may change.             *)
LEMMA SendsType ==
  ASSUME TypeOK, NEW event \in TcpEvents, Sends(event)
  PROVE  events' \in Seq(TcpEvents) /\ table' \in [Fds -> Objects]
<1>1. event.fd \in Fds \cup {NoFd}
  BY DEF TcpEvents
<1>2. table \in [Fds -> Objects] /\ events \in Seq(TcpEvents)
  BY DEF TypeOK
<1>3. Closed(table, event.fd) \in [Fds -> Objects]
  BY <1>1, <1>2, ClosedType
<1>4. Append(events, event) \in Seq(TcpEvents)
  BY <1>2
<1>. QED
  BY <1>2, <1>3, <1>4 DEF Sends

(* The number a thread writes its notification to is a descriptor's.       *)
LEMMA NotifyType ==
  ASSUME TypeInv, Notifying
  PROVE  /\ notify_tx \in Fds
         /\ pc \notin {"start", "bind", "connect"}
         /\ pipe_notify => pipe' \in 0 .. PipeCap /\ stray' \subseteq Ids
<1>. USE ConstantsAssumption DEF ConstantsAssumption, TypeInv
<1>1. notify_tx \in Fds /\ pc \notin {"start", "bind", "connect"}
  BY DEF notify_tx, NoThreadsYet, TypeOK, Notifying
<1>2. CASE WritesToPipe
  BY <1>1, <1>2 DEF WritesToPipe, TypeOK
<1>3. CASE WritesToConnection
  <2>1. table[notify_tx] \in Objects /\ table[notify_tx].what = "conn"
    BY <1>1, <1>3 DEF WritesToConnection, TypeOK
  <2>2. PICK id \in Ids : table[notify_tx] = Conn(id)
    BY <2>1 DEF Objects, Unused, Inherited, PipeRead, PipeWrite, Listening, Object
  <2>3. table[notify_tx].id = id
    BY <2>2 DEF Conn, Object
  <2>. QED
    BY <1>1, <1>3, <2>3 DEF WritesToConnection, TypeOK
<1>4. CASE WritesNowhere
  BY <1>1, <1>4 DEF WritesNowhere, TypeOK
<1>. QED
  BY <1>1, <1>2, <1>3, <1>4 DEF pipe_notify

LEMMA AcceptType == TypeInv /\ Accept => TypeInv'
<1>. SUFFICES ASSUME TypeInv, Accept PROVE TypeInv'
  OBVIOUS
<1>. USE ConstantsAssumption DEF ConstantsAssumption, TypeInv
<1>1. PICK n \in Fds :
        /\ table' = [table EXCEPT ![n] = Conn(next_id)]
        /\ listener' = [listener EXCEPT !.at = "clone", !.stream = n]
  BY DEF Accept
<1>2. next_id \in Nat /\ backlog \in Nat /\ backlog > 0 /\ next_id + backlog <= MaxConns
  BY DEF TypeOK, Accept
<1>3. backlog' = backlog - 1 /\ next_id' = next_id + 1
  BY DEF Accept
<1>4. /\ next_id \in Ids /\ next_id' \in 0 .. MaxConns /\ backlog' \in 0 .. MaxConns
      /\ next_id' + backlog' <= MaxConns /\ next_id' > 0
  BY <1>2, <1>3 DEF Ids
<1>5. table' \in [Fds -> Objects] /\ peer' \in [Ids -> {"none", "open", "closed"}]
  BY <1>1, <1>4, ObjectsFact DEF TypeOK, Accept
<1>6. TypeOK'
  BY <1>1, <1>4, <1>5 DEF Accept, TypeOK
<1>7. NoThreadsYet'
  BY DEF Accept, NoThreadsYet
<1>. QED
  BY <1>4, <1>6, <1>7

LEMMA ListenerType == TypeInv /\ Listener => TypeInv'
<1>. SUFFICES ASSUME TypeInv, Listener PROVE TypeInv'
  OBVIOUS
<1>. USE ConstantsAssumption DEF ConstantsAssumption, TypeInv
<1>1. CASE Accept
  BY <1>1, AcceptType
<1>. DEFINE id == next_id - 1
<1>2. listener.at \notin {"none", "accept"} => id \in Ids
  BY DEF TypeOK, Ids
<1>. HIDE DEF id
<1>4. CASE Clone
  <2>1. PICK n \in Fds :
          /\ table' = [table EXCEPT ![n] = Conn(id)]
          /\ listener' = [listener EXCEPT !.at = "send", !.writer = n]
    BY <1>4 DEF Clone, id
  <2>2. table' \in [Fds -> Objects]
    BY <1>2, <1>4, <2>1, ObjectsFact DEF TypeOK, Clone
  <2>3. TypeOK'
    BY <1>4, <2>1, <2>2 DEF Clone, TypeOK
  <2>. QED
    BY <1>4, <2>3 DEF Clone, NoThreadsYet
<1>5. CASE CloneFails
  <2>1. table' \in [Fds -> Objects]
    BY <1>5, ClosedType DEF CloneFails, TypeOK
  <2>2. TypeOK'
    BY <1>5, <2>1 DEF CloneFails, TypeOK
  <2>3. listener'.at = "accept"
    BY <1>5 DEF CloneFails, TypeOK
  <2>. QED
    BY <1>5, <2>2, <2>3 DEF CloneFails, NoThreadsYet
<1>6. CASE ListenerSend
  <2>1. Event("Connected", id, listener.writer) \in TcpEvents
    BY <1>2, <1>6, EventType DEF ListenerSend, TypeOK
  <2>2. events' \in Seq(TcpEvents) /\ table' \in [Fds -> Objects]
    BY <1>6, <2>1, SendsType DEF ListenerSend, id
  <2>3. TypeOK'
    BY <1>6, <2>2 DEF ListenerSend, TypeOK
  <2>. QED
    BY <1>6, <2>3 DEF ListenerSend, NoThreadsYet
<1>7. CASE ListenerNotify
  <2>1. pipe' \in 0 .. PipeCap /\ stray' \subseteq Ids
    BY <1>7, NotifyType DEF ListenerNotify, Notifying
  <2>2. TypeOK'
    BY <1>7, <2>1 DEF ListenerNotify, TypeOK
  <2>. QED
    BY <1>7, <2>2 DEF ListenerNotify, NoThreadsYet
<1>8. CASE ListenerSpawn
  <2>1. reader' = [reader EXCEPT ![id] = [at |-> "read", stream |-> listener.stream]]
    BY <1>8 DEF ListenerSpawn, id
  <2>2. reader' \in [Ids -> [at : {"none", "read", "notifyData", "notifyEnd", "close", "done"},
                            stream : Fds \cup {NoFd}]]
    <3>1. id \in Ids /\ listener.stream \in Fds \cup {NoFd}
      BY <1>2, <1>8 DEF ListenerSpawn, TypeOK
    <3>. QED
      BY <2>1, <3>1 DEF TypeOK
  <2>3. TypeOK'
    BY <1>8, <2>2 DEF ListenerSpawn, TypeOK
  <2>4. listener'.at = "accept"
    BY <1>8 DEF ListenerSpawn, TypeOK
  <2>. QED
    BY <1>8, <2>3, <2>4 DEF ListenerSpawn, NoThreadsYet
<1>. QED
  BY <1>1, <1>4, <1>5, <1>6, <1>7, <1>8 DEF Listener

LEMMA ReaderType == ASSUME TypeInv, NEW id \in Ids, Reader(id) PROVE TypeInv'
<1>. USE ConstantsAssumption DEF ConstantsAssumption, TypeInv
<1>. DEFINE Readers == [Ids -> [at : {"none", "read", "notifyData", "notifyEnd", "close", "done"},
                                stream : Fds \cup {NoFd}]]
<1>1. reader \in Readers /\ reader[id].at # "none" /\ pc' = pc /\ tcp' = tcp
      /\ next_id' = next_id /\ backlog' = backlog /\ listener' = listener
  BY DEF Reader, ReadData, ReadEnd, ReaderNotify, ReaderReturns, TypeOK
<1>2. NoThreadsYet'
  BY <1>1 DEF NoThreadsYet
<1>3. CASE ReadData(id)
  <2>1. events' \in Seq(TcpEvents) /\ table' \in [Fds -> Objects]
    BY <1>3, EventType, SendsType DEF ReadData
  <2>2. reader' \in Readers
    BY <1>3 DEF ReadData, TypeOK
  <2>3. unread' \in [Ids -> 0 .. MaxReads]
    <3>1. unread[id] - 1 \in 0 .. MaxReads
      BY <1>3 DEF ReadData, TypeOK
    <3>. QED
      BY <1>3, <3>1 DEF ReadData, TypeOK
  <2>4. TypeOK'
    BY <1>3, <2>1, <2>2, <2>3 DEF ReadData, TypeOK
  <2>. QED
    BY <1>1, <1>2, <2>4
<1>4. CASE ReadEnd(id)
  <2>1. events' \in Seq(TcpEvents) /\ table' \in [Fds -> Objects]
    BY <1>4, EventType, SendsType DEF ReadEnd
  <2>2. reader' \in Readers
    BY <1>4 DEF ReadEnd, TypeOK
  <2>3. TypeOK'
    BY <1>4, <2>1, <2>2 DEF ReadEnd, TypeOK
  <2>. QED
    BY <1>1, <1>2, <2>3
<1>5. CASE ReaderNotify(id)
  <2>1. pipe' \in 0 .. PipeCap /\ stray' \subseteq Ids
    BY <1>5, NotifyType DEF ReaderNotify, Notifying
  <2>2. reader' \in Readers
    BY <1>5 DEF ReaderNotify, TypeOK
  <2>3. TypeOK'
    BY <1>5, <2>1, <2>2 DEF ReaderNotify, TypeOK
  <2>. QED
    BY <1>1, <1>2, <2>3
<1>6. CASE ReaderReturns(id)
  <2>1. table' \in [Fds -> Objects]
    BY <1>6, ClosedType DEF ReaderReturns, TypeOK
  <2>2. reader' \in Readers
    BY <1>6 DEF ReaderReturns, TypeOK
  <2>3. TypeOK'
    BY <1>6, <2>1, <2>2 DEF ReaderReturns, TypeOK
  <2>. QED
    BY <1>1, <1>2, <2>3
<1>. QED
  BY <1>3, <1>4, <1>5, <1>6 DEF Reader

(* The rest of Next leaves the threads as they are.                        *)
LEMMA HandleEventType == TypeInv /\ HandleEvent => TypeInv'
<1>. SUFFICES ASSUME TypeInv, HandleEvent PROVE TypeInv'
  OBVIOUS
<1>. USE ConstantsAssumption DEF ConstantsAssumption, TypeInv
<1>. DEFINE event == Head(events)
<1>1. events # <<>> /\ events \in Seq(TcpEvents)
  BY DEF HandleEvent, TypeOK
<1>2. event \in TcpEvents /\ Tail(events) \in Seq(TcpEvents)
  BY <1>1
<1>3. event.id \in Ids /\ event.fd \in Fds \cup {NoFd}
  BY <1>2 DEF TcpEvents
<1>. HIDE DEF event
<1>4. \/ OnConnected(event) \/ OnDisconnected(event) \/ UNCHANGED <<table, writers, heard>>
  BY DEF HandleEvent, event
<1>5. /\ table' \in [Fds -> Objects] /\ writers' \in [Ids -> Fds \cup {NoFd}]
      /\ heard' \subseteq Ids
  <2>1. CASE OnConnected(event)
    BY <1>3, <2>1 DEF OnConnected, TypeOK
  <2>2. CASE OnDisconnected(event)
    BY <1>3, <2>2, ClosedType DEF OnDisconnected, TypeOK
  <2>3. CASE UNCHANGED <<table, writers, heard>>
    BY <2>3 DEF TypeOK
  <2>. QED
    BY <1>4, <2>1, <2>2, <2>3
<1>6. pipe' \in 0 .. PipeCap /\ events' \in Seq(TcpEvents)
  BY <1>2 DEF HandleEvent, TypeOK
<1>7. TypeOK'
  BY <1>5, <1>6 DEF HandleEvent, TypeOK
<1>8. NoThreadsYet'
  BY DEF HandleEvent, NoThreadsYet
<1>. QED
  BY <1>7, <1>8 DEF HandleEvent

LEMMA DroppedType ==
  ASSUME NEW t \in [Fds -> Objects], NEW dropped
  PROVE  [n \in Fds |-> IF n \in dropped THEN Unused ELSE t[n]] \in [Fds -> Objects]
BY ObjectsFact

LEMMA RestType ==
  ASSUME TypeInv,
         \/ Return \/ Shutdown \/ ThreadKilled \/ PeerConnects \/ UNCHANGED vars
         \/ \E id \in Ids : SendFails(id) \/ PeerCloses(id)
  PROVE  TypeInv'
<1>. USE ConstantsAssumption DEF ConstantsAssumption, TypeInv
<1>1. CASE Return \/ ProcessExits \/ Killed
  <2>1. TypeOK'
    BY <1>1 DEF Return, ProcessExits, Killed, TypeOK
  <2>2. NoThreadsYet'
    BY <1>1, <2>1 DEF Return, ProcessExits, Killed, NoThreadsYet
  <2>. QED
    BY <1>1, <2>1, <2>2 DEF Return, ProcessExits, Killed
<1>2. CASE Shutdown
  <2>. USE DEF NoThreadsYet
  <2>1. CASE CloseRx
    <3>1. CASE Killed
      BY <1>1, <3>1
    <3>2. CASE ~Killed
      <4>1. table' \in [Fds -> Objects]
        <5>1. table' = Closed(table, tcp.rx) /\ tcp.rx \in Fds \cup {NoFd}
          BY <2>1, <3>2 DEF CloseRx, TypeOK
        <5>. QED
          BY <5>1, ClosedType DEF TypeOK
      <4>2. TypeOK'
        BY <2>1, <3>2, <4>1 DEF CloseRx, TypeOK
      <4>. QED
        BY <2>1, <3>2, <4>2 DEF CloseRx
    <3>. QED
      BY <3>1, <3>2
  <2>2. CASE CloseTx
    <3>1. table' \in [Fds -> Objects]
      BY <2>2, ClosedType DEF CloseTx, TypeOK
    <3>2. TypeOK'
      BY <2>2, <3>1 DEF CloseTx, TypeOK
    <3>. QED
      BY <2>2, <3>2 DEF CloseTx
  <2>3. CASE DropEvents
    <3>1. table' \in [Fds -> Objects] /\ events' \in Seq(TcpEvents)
      BY <2>3, DroppedType DEF DropEvents, TypeOK
    <3>2. TypeOK'
      BY <2>3, <3>1 DEF DropEvents, TypeOK
    <3>. QED
      BY <2>3, <3>2 DEF DropEvents
  <2>4. CASE DropWriters
    <3>. DEFINE dropped == {writers[id] : id \in Ids}
    <3>0. table' = [n \in Fds |-> IF n \in dropped THEN Unused ELSE table[n]]
      BY <2>4 DEF DropWriters
    <3>. HIDE DEF dropped
    <3>1. table' \in [Fds -> Objects]
      <4>1. table \in [Fds -> Objects]
        BY DEF TypeOK
      <4>. QED
        BY <3>0, <4>1, ObjectsFact
    <3>2. writers' \in [Ids -> Fds \cup {NoFd}]
      BY <2>4 DEF DropWriters
    <3>3. TypeOK'
      BY <2>4, <3>1, <3>2 DEF DropWriters, TypeOK
    <3>. QED
      BY <2>4, <3>3 DEF DropWriters
  <2>. QED
    BY <1>1, <1>2, <2>1, <2>2, <2>3, <2>4 DEF Shutdown
<1>3. CASE ThreadKilled
  BY <1>1, <1>3 DEF ThreadKilled
<1>4. CASE PeerConnects
  <2>1. backlog' \in 0 .. MaxConns /\ next_id' + backlog' <= MaxConns
    BY <1>4 DEF PeerConnects, TypeOK
  <2>2. TypeOK'
    BY <1>4, <2>1 DEF PeerConnects, TypeOK
  <2>. QED
    BY <1>4, <2>1, <2>2 DEF PeerConnects, NoThreadsYet
<1>5. CASE UNCHANGED vars
  BY <1>5 DEF TypeOK, NoThreadsYet
<1>6. ASSUME NEW id \in Ids, SendFails(id) PROVE TypeInv'
  <2>1. table' \in [Fds -> Objects]
    BY <1>6, ClosedType DEF SendFails, TypeOK
  <2>2. TypeOK'
    BY <1>6, <2>1 DEF SendFails, TypeOK
  <2>. QED
    BY <1>6, <2>2 DEF SendFails, NoThreadsYet
<1>7. ASSUME NEW id \in Ids, PeerCloses(id) PROVE TypeInv'
  <2>1. peer' \in [Ids -> {"none", "open", "closed"}]
    BY <1>7 DEF PeerCloses, TypeOK
  <2>2. TypeOK'
    BY <1>7, <2>1 DEF PeerCloses, TypeOK
  <2>. QED
    BY <1>7, <2>2 DEF PeerCloses, NoThreadsYet
<1>. QED
  BY <1>1, <1>2, <1>3, <1>4, <1>5, <1>6, <1>7

LEMMA TypeStep == TypeInv /\ [Next]_vars => TypeInv'
<1>. SUFFICES ASSUME TypeInv, [Next]_vars PROVE TypeInv'
  OBVIOUS
<1>. QED
  BY StartType, ListenerType, ReaderType, HandleEventType, RestType DEF Next, Ended

(* Descriptors, events and handles always have their types.                *)
THEOREM TypeCorrect == Spec => []TypeOK
<1>1. Spec => []TypeInv
  BY InitType, TypeStep, PTL DEF Spec
<1>2. TypeInv => TypeOK
  BY DEF TypeInv
<1>. QED
  BY <1>1, <1>2, PTL

-----------------------------------------------------------------------------
(* The pipe.                                                               *)

(* A descriptor of rust_main's: it is open, and no value that closes its   *)
(* descriptors holds it.                                                   *)
Kept(fd, object) ==
  /\ fd \in Fds /\ table[fd] = object
  /\ listener.stream # fd /\ listener.writer # fd
  /\ \A id \in Ids : reader[id].stream # fd /\ writers[id] # fd
  /\ \A i \in 1 .. Len(events) : events[i].fd # fd

NothingHeldYet ==
  pc = "start" =>
    /\ tcp = [rx |-> NoFd, tx |-> NoFd] /\ events = <<>>
    /\ \A id \in Ids : writers[id] = NoFd

(* Each end of the pipe is kept from pipe() until TcpState::drop closes it,*)
(* the write end last.                                                     *)
PipeKept ==
  /\ (tcp.tx # NoFd /\ pc \in {"bind", "connect", "loop", "closeRx"}
        => Kept(tcp.rx, PipeRead))
  /\ (tcp.tx # NoFd /\ pc \in {"bind", "connect", "loop", "closeRx", "closeTx"}
        => Kept(tcp.tx, PipeWrite))

NoStrayYet ==
  pc \in {"start", "bind", "connect", "loop", "closeRx", "closeTx"} => stray = {}

PipeInv == TypeInv /\ NothingHeldYet /\ PipeKept /\ NoStrayYet

LEMMA DistinctObjects ==
  /\ PipeRead # PipeWrite /\ PipeRead # Unused /\ PipeWrite # Unused
  /\ \A id \in Ids : PipeRead # Conn(id) /\ PipeWrite # Conn(id)
  /\ PipeRead.what # "conn" /\ PipeWrite.what # "conn" /\ Unused.what # "conn"
BY DEF PipeRead, PipeWrite, Unused, Conn, Object

(* Only what is held is closed, and only what is unused is given out.      *)
LEMMA ClosedKeeps ==
  ASSUME TypeOK, NEW object, NEW fd, Kept(fd, object), NEW n, n # fd
  PROVE  Closed(table, n)[fd] = object
BY DEF Closed, Kept, TypeOK

LEMMA NextIsNotKept ==
  ASSUME NEW object, object # Unused, NEW fd, Kept(fd, object), NEW n \in Fds, IsNext(n)
  PROVE  n # fd
BY DEF IsNext, UnusedFds, Kept

LEMMA SendsKeeps ==
  ASSUME TypeOK, NEW object, NEW fd, Kept(fd, object),
         NEW event \in TcpEvents, event.fd # fd, Sends(event)
  PROVE  table'[fd] = object /\ \A i \in 1 .. Len(events') : events'[i].fd # fd
<1>1. CASE ChannelOpen
  <2>1. events' = Append(events, event) /\ table' = table /\ events \in Seq(TcpEvents)
    BY <1>1 DEF Sends, TypeOK
  <2>2. \A i \in 1 .. Len(events') :
          events'[i] = event \/ (i \in 1 .. Len(events) /\ events'[i] = events[i])
    BY <2>1
  <2>. QED
    BY <2>1, <2>2 DEF Kept
<1>2. CASE ~ChannelOpen
  BY <1>2, ClosedKeeps DEF Sends, Kept
<1>. QED
  BY <1>1, <1>2

LEMMA ListenerKeeps ==
  ASSUME TypeInv, Listener, NEW fd, NEW object, Kept(fd, object), object # Unused
  PROVE  Kept(fd, object)'
<1>. USE DEF TypeInv
<1>1. CASE Accept
  <2>1. PICK n \in Fds :
          /\ IsNext(n)
          /\ table' = [table EXCEPT ![n] = Conn(next_id)]
          /\ listener' = [listener EXCEPT !.at = "clone", !.stream = n]
    BY <1>1 DEF Accept
  <2>2. n # fd
    BY <2>1, NextIsNotKept
  <2>. QED
    BY <1>1, <2>1, <2>2 DEF Accept, Kept, TypeOK
<1>2. CASE Clone
  <2>1. PICK n \in Fds :
          /\ IsNext(n)
          /\ table' = [table EXCEPT ![n] = Conn(next_id - 1)]
          /\ listener' = [listener EXCEPT !.at = "send", !.writer = n]
    BY <1>2 DEF Clone
  <2>2. n # fd
    BY <2>1, NextIsNotKept
  <2>. QED
    BY <1>2, <2>1, <2>2 DEF Clone, Kept, TypeOK
<1>3. CASE CloneFails
  <2>1. table'[fd] = object
    BY <1>3, ClosedKeeps DEF CloneFails, Kept
  <2>. QED
    BY <1>3, <2>1 DEF CloneFails, Kept, TypeOK, Fds
<1>4. CASE ListenerSend
  <2>. DEFINE event == Event("Connected", next_id - 1, listener.writer)
  <2>1. next_id - 1 \in Ids
    BY <1>4, ConstantsAssumption DEF ListenerSend, TypeOK, Ids, ConstantsAssumption
  <2>2. event \in TcpEvents /\ event.fd # fd
    BY <2>1, EventType DEF TypeOK, Kept
  <2>3. Sends(event)
    BY <1>4 DEF ListenerSend
  <2>. HIDE DEF event
  <2>4. table'[fd] = object /\ \A i \in 1 .. Len(events') : events'[i].fd # fd
    BY <2>2, <2>3, SendsKeeps
  <2>. QED
    BY <1>4, <2>4 DEF ListenerSend, Kept, TypeOK, Fds
<1>5. CASE ListenerNotify
  BY <1>5 DEF ListenerNotify, Kept, TypeOK
<1>6. CASE ListenerSpawn
  <2>1. \A id \in Ids : reader'[id].stream # fd
    BY <1>6 DEF ListenerSpawn, Kept, TypeOK
  <2>. QED
    BY <1>6, <2>1 DEF ListenerSpawn, Kept, TypeOK, Fds
<1>. QED
  BY <1>1, <1>2, <1>3, <1>4, <1>5, <1>6 DEF Listener

LEMMA ReaderKeeps ==
  ASSUME TypeInv, NEW id \in Ids, Reader(id), NEW fd, NEW object, Kept(fd, object), object # Unused
  PROVE  Kept(fd, object)'
<1>. USE DEF TypeInv
<1>1. fd # NoFd
  BY DEF Kept, Fds
<1>2. CASE ReadData(id) \/ ReadEnd(id)
  <2>1. PICK kind \in {"Data", "Disconnected"} : Sends(Event(kind, id, NoFd))
    BY <1>2 DEF ReadData, ReadEnd
  <2>2. table'[fd] = object /\ \A i \in 1 .. Len(events') : events'[i].fd # fd
    BY <1>1, <2>1, EventType, SendsKeeps
  <2>3. \A i \in Ids : reader'[i].stream # fd
    <3>1. CASE ReadData(id)
      BY <3>1 DEF ReadData, Kept, TypeOK
    <3>2. CASE ReadEnd(id)
      BY <3>2 DEF ReadEnd, Kept, TypeOK
    <3>. QED
      BY <1>2, <3>1, <3>2
  <2>. QED
    BY <1>2, <2>2, <2>3 DEF ReadData, ReadEnd, Kept
<1>3. CASE ReaderNotify(id)
  <2>1. \A i \in Ids : reader'[i].stream # fd
    BY <1>3 DEF ReaderNotify, Kept, TypeOK
  <2>. QED
    BY <1>3, <2>1 DEF ReaderNotify, Kept
<1>4. CASE ReaderReturns(id)
  <2>1. table'[fd] = object
    BY <1>4, ClosedKeeps DEF ReaderReturns, Kept
  <2>2. \A i \in Ids : reader'[i].stream # fd
    BY <1>1, <1>4 DEF ReaderReturns, Kept, TypeOK
  <2>. QED
    BY <1>4, <2>1, <2>2 DEF ReaderReturns, Kept
<1>. QED
  BY <1>2, <1>3, <1>4 DEF Reader

LEMMA MainKeeps ==
  ASSUME TypeInv, NEW fd, NEW object, Kept(fd, object), object # Unused,
         \/ HandleEvent \/ Return \/ Killed \/ PeerConnects \/ UNCHANGED vars
         \/ \E id \in Ids : SendFails(id) \/ PeerCloses(id)
         \/ Bind
         \/ CloseRx /\ tcp.rx # fd
  PROVE  Kept(fd, object)'
<1>. USE DEF TypeInv
<1>1. fd # NoFd
  BY DEF Kept, Fds
<1>2. CASE HandleEvent
  <2>. DEFINE event == Head(events)
  <2>1. events # <<>> /\ events \in Seq(TcpEvents)
    BY <1>2 DEF HandleEvent, TypeOK
  <2>2. event \in TcpEvents /\ event.fd # fd
    BY <2>1 DEF Kept
  <2>3. event.id \in Ids
    BY <2>2 DEF TcpEvents
  <2>4. \A i \in 1 .. Len(events') : events'[i].fd # fd
    BY <1>2, <2>1 DEF HandleEvent, Kept
  <2>. HIDE DEF event
  <2>5. OnConnected(event) \/ OnDisconnected(event) \/ UNCHANGED <<table, writers, heard>>
    BY <1>2 DEF HandleEvent, event
  <2>6. table'[fd] = object /\ \A id \in Ids : writers'[id] # fd
    <3>1. CASE OnConnected(event)
      BY <2>2, <3>1 DEF OnConnected, Kept, TypeOK
    <3>2. CASE OnDisconnected(event)
      <4>1. table'[fd] = object
        BY <2>3, <3>2, ClosedKeeps DEF OnDisconnected, Kept
      <4>. QED
        BY <1>1, <3>2, <4>1 DEF OnDisconnected, Kept, TypeOK
    <3>3. CASE UNCHANGED <<table, writers, heard>>
      BY <3>3 DEF Kept
    <3>. QED
      BY <2>5, <3>1, <3>2, <3>3
  <2>. QED
    BY <1>2, <2>4, <2>6 DEF HandleEvent, Kept
<1>3. CASE Return \/ Killed \/ PeerConnects \/ UNCHANGED vars
  BY <1>3 DEF Return, Killed, PeerConnects, Kept
<1>4. ASSUME NEW id \in Ids, SendFails(id) PROVE Kept(fd, object)'
  <2>1. table'[fd] = object
    BY <1>4, ClosedKeeps DEF SendFails, Kept
  <2>2. \A i \in Ids : writers'[i] # fd
    BY <1>1, <1>4 DEF SendFails, Kept, TypeOK
  <2>. QED
    BY <1>4, <2>1, <2>2 DEF SendFails, Kept
<1>5. ASSUME NEW id \in Ids, PeerCloses(id) PROVE Kept(fd, object)'
  BY <1>5 DEF PeerCloses, Kept
<1>6. CASE Bind
  <2>1. PICK n \in Fds : IsNext(n) /\ table' = [table EXCEPT ![n] = Listening]
    BY <1>6 DEF Bind
  <2>2. n # fd
    BY <2>1, NextIsNotKept
  <2>. QED
    BY <1>6, <2>1, <2>2 DEF Bind, Kept, TypeOK
<1>7. CASE CloseRx /\ tcp.rx # fd
  <2>1. table' = Closed(table, tcp.rx) \/ Killed
    BY <1>7 DEF CloseRx
  <2>2. Closed(table, tcp.rx)[fd] = object
    BY <1>7, ClosedKeeps
  <2>. QED
    BY <1>3, <1>7, <2>1, <2>2 DEF CloseRx, Kept
<1>. QED
  BY <1>2, <1>3, <1>4, <1>5, <1>6, <1>7

LEMMA ConnectKeeps ==
  ASSUME TypeInv, Connect, NEW fd, NEW object, Kept(fd, object), object # Unused
  PROVE  Kept(fd, object)'
<1>. USE DEF TypeInv
<1>1. PICK n \in Fds, m \in Fds :
        /\ AreNext(n, m)
        /\ table' = [table EXCEPT ![n] = Conn(0), ![m] = Conn(0)]
        /\ events' = <<Event("Connected", 0, m)>> /\ pipe' = 1
        /\ reader' = [reader EXCEPT ![0] = [at |-> "read", stream |-> n]]
  BY DEF Connect
<1>2. n # fd /\ m # fd
  BY <1>1 DEF AreNext, IsNext, UnusedFds, Kept
<1>3. \A i \in 1 .. Len(events') : events'[i].fd # fd
  BY <1>1, <1>2 DEF Event
<1>4. \A i \in Ids : reader'[i].stream # fd
  BY <1>1, <1>2 DEF Kept, TypeOK
<1>5. table'[fd] = object
  BY <1>1, <1>2 DEF Kept, TypeOK
<1>. QED
  BY <1>3, <1>4, <1>5 DEF Connect, Kept

(* A thread that notifies as long as the pipe is kept writes to it.        *)
LEMMA NotifiesPipe ==
  ASSUME PipeInv, Notifying,
         pc \in {"start", "bind", "connect", "loop", "closeRx", "closeTx"}
  PROVE  table[notify_tx] = PipeWrite /\ (pipe_notify => stray' = {})
<1>1. tcp.tx # NoFd /\ pc \notin {"start", "bind", "connect"}
  BY NotifyType DEF PipeInv, notify_tx, Fds
<1>2. table[notify_tx] = PipeWrite
  BY <1>1 DEF PipeInv, PipeKept, Kept, notify_tx
<1>. QED
  BY <1>2, DistinctObjects DEF pipe_notify, WritesToPipe, WritesToConnection, WritesNowhere,
     PipeInv, NoStrayYet

LEMMA PipeInit == Init => PipeInv
<1>. SUFFICES ASSUME Init PROVE PipeInv
  OBVIOUS
<1>1. NothingHeldYet /\ PipeKept /\ NoStrayYet
  BY DEF Init, NothingHeldYet, PipeKept, NoStrayYet
<1>. QED
  BY <1>1, InitType DEF PipeInv

LEMMA StartPipe ==
  ASSUME PipeInv, Start PROVE (NothingHeldYet /\ PipeKept /\ NoStrayYet)'
<1>. USE DEF PipeInv
<1>1. NothingHeldYet' /\ NoStrayYet'
  BY DEF Start, StartNothing, OpenPipe, Bind, Connect, StartFails, NothingHeldYet, NoStrayYet
<1>2. CASE StartNothing \/ StartFails
  BY <1>1, <1>2 DEF StartNothing, StartFails, NothingHeldYet, PipeKept
<1>3. CASE OpenPipe
  <2>1. PICK n \in Fds, m \in Fds :
          /\ AreNext(n, m)
          /\ table' = [table EXCEPT ![n] = PipeRead, ![m] = PipeWrite]
          /\ tcp' = [rx |-> n, tx |-> m]
    BY <1>3 DEF OpenPipe
  <2>2. n # m /\ n # NoFd /\ m # NoFd
    BY <2>1 DEF AreNext, Fds
  <2>3. table'[n] = PipeRead /\ table'[m] = PipeWrite
    BY <2>1, <2>2 DEF TypeInv, TypeOK
  <2>4. listener'.stream = NoFd /\ listener'.writer = NoFd
    BY <1>3 DEF OpenPipe, TypeInv, NoThreadsYet
  <2>5. \A id \in Ids : reader'[id].stream = NoFd /\ writers'[id] = NoFd
    BY <1>3 DEF OpenPipe, TypeInv, NoThreadsYet, NothingHeldYet
  <2>6. events' = <<>>
    BY <1>3 DEF OpenPipe, NothingHeldYet
  <2>7. Kept(n, PipeRead)' /\ Kept(m, PipeWrite)'
    BY <2>2, <2>3, <2>4, <2>5, <2>6 DEF Kept
  <2>. QED
    BY <1>1, <2>1, <2>7 DEF PipeKept
<1>4. CASE Bind
  <2>1. tcp.tx # NoFd => Kept(tcp.rx, PipeRead)' /\ Kept(tcp.tx, PipeWrite)'
    BY <1>4, MainKeeps, DistinctObjects DEF PipeKept, Bind
  <2>. QED
    BY <1>1, <1>4, <2>1 DEF Bind, PipeKept, Kept
<1>5. CASE Connect
  <2>1. tcp.tx # NoFd => Kept(tcp.rx, PipeRead)' /\ Kept(tcp.tx, PipeWrite)'
    BY <1>5, ConnectKeeps, DistinctObjects DEF PipeKept, Connect
  <2>. QED
    BY <1>1, <1>5, <2>1 DEF Connect, PipeKept, Kept
<1>. QED
  BY <1>1, <1>2, <1>3, <1>4, <1>5 DEF Start

(* The threads and the peers leave rust_main's place and numbers alone.    *)
LEMMA ThreadsPipe ==
  ASSUME PipeInv, Listener \/ PeerConnects \/ \E id \in Ids : Reader(id) \/ PeerCloses(id)
  PROVE  (NothingHeldYet /\ PipeKept /\ NoStrayYet)'
<1>. USE DEF PipeInv
<1>1. pc' = pc /\ tcp' = tcp /\ writers' = writers
  BY DEF Listener, Accept, Clone, CloneFails, ListenerSend, ListenerNotify, ListenerSpawn,
     PeerConnects, PeerCloses, Reader, ReadData, ReadEnd, ReaderNotify, ReaderReturns
<1>2. NothingHeldYet'
  <2>1. CASE pc = "start"
    <3>1. listener.at = "none" /\ \A id \in Ids : reader[id].at = "none"
      BY <2>1 DEF TypeInv, NoThreadsYet
    <3>2. events' = events
      BY <3>1 DEF Listener, Accept, Clone, CloneFails, ListenerSend, ListenerNotify,
         ListenerSpawn, PeerConnects, PeerCloses, Reader, ReadData, ReadEnd, ReaderNotify,
         ReaderReturns
    <3>. QED
      BY <1>1, <3>2 DEF NothingHeldYet
  <2>. QED
    BY <1>1, <2>1 DEF NothingHeldYet
<1>3. PipeKept'
  <2>1. ASSUME NEW fd, NEW object, Kept(fd, object), object # Unused PROVE Kept(fd, object)'
    BY <2>1, ListenerKeeps, ReaderKeeps, MainKeeps
  <2>. QED
    BY <1>1, <2>1, DistinctObjects DEF PipeKept
<1>4. NoStrayYet'
  <2>1. CASE stray' = stray
    BY <1>1, <2>1 DEF NoStrayYet
  <2>2. CASE pipe_notify /\ Notifying
    BY <1>1, <2>2, NotifiesPipe DEF NoStrayYet
  <2>3. stray' = stray \/ (pipe_notify /\ Notifying)
    BY DEF Listener, Accept, Clone, CloneFails, ListenerSend, ListenerNotify, ListenerSpawn,
       PeerConnects, PeerCloses, Reader, ReadData, ReadEnd, ReaderNotify, ReaderReturns,
       Notifying
  <2>. QED
    BY <2>1, <2>2, <2>3
<1>. QED
  BY <1>2, <1>3, <1>4

LEMMA MainPipe ==
  ASSUME PipeInv,
         \/ HandleEvent \/ Return \/ Shutdown \/ ThreadKilled \/ UNCHANGED vars
         \/ \E id \in Ids : SendFails(id)
  PROVE  (NothingHeldYet /\ PipeKept /\ NoStrayYet)'
<1>. USE DEF PipeInv
<1>1. CASE HandleEvent \/ UNCHANGED vars \/ \E id \in Ids : SendFails(id)
  <2>1. pc' = pc /\ tcp' = tcp /\ stray' = stray
    BY <1>1 DEF HandleEvent, SendFails
  <2>2. NothingHeldYet'
    BY <1>1 DEF NothingHeldYet, HandleEvent, SendFails
  <2>3. ASSUME NEW fd, NEW object, Kept(fd, object), object # Unused PROVE Kept(fd, object)'
    BY <1>1, <2>3, MainKeeps
  <2>. QED
    BY <2>1, <2>2, <2>3, DistinctObjects DEF PipeKept, NoStrayYet
<1>2. CASE Return
  <2>1. ASSUME NEW fd, NEW object, Kept(fd, object), object # Unused PROVE Kept(fd, object)'
    BY <1>2, <2>1, MainKeeps
  <2>. QED
    BY <1>2, <2>1, DistinctObjects DEF Return, NothingHeldYet, PipeKept, NoStrayYet
<1>3. CASE pc' = "ended"
  BY <1>3 DEF NothingHeldYet, PipeKept, NoStrayYet
<1>4. CASE CloseRx
  <2>1. CASE tcp.tx = NoFd \/ Killed
    BY <1>3, <1>4, <2>1 DEF CloseRx, Killed, NothingHeldYet, PipeKept, NoStrayYet
  <2>2. CASE tcp.tx # NoFd /\ ~Killed
    <3>1. Kept(tcp.rx, PipeRead) /\ Kept(tcp.tx, PipeWrite)
      BY <1>4, <2>2 DEF CloseRx, PipeKept
    <3>2. tcp.rx # tcp.tx
      BY <3>1, DistinctObjects DEF Kept
    <3>3. Kept(tcp.tx, PipeWrite)'
      BY <1>4, <2>2, <3>1, <3>2, MainKeeps, DistinctObjects DEF CloseRx
    <3>. QED
      BY <1>4, <2>2, <3>3 DEF CloseRx, NothingHeldYet, PipeKept, NoStrayYet
  <2>. QED
    BY <2>1, <2>2
<1>5. CASE CloseTx \/ DropEvents \/ DropWriters
  BY <1>5 DEF CloseTx, DropEvents, DropWriters, NothingHeldYet, PipeKept, NoStrayYet
<1>. QED
  BY <1>1, <1>2, <1>3, <1>4, <1>5 DEF Shutdown, ProcessExits, ThreadKilled, Killed

LEMMA PipeStep == PipeInv /\ [Next]_vars => PipeInv'
<1>. SUFFICES ASSUME PipeInv, [Next]_vars PROVE PipeInv'
  OBVIOUS
<1>1. TypeInv'
  BY TypeStep DEF PipeInv
<1>2. (NothingHeldYet /\ PipeKept /\ NoStrayYet)'
  BY StartPipe, ThreadsPipe, MainPipe DEF Next, Ended
<1>. QED
  BY <1>1, <1>2 DEF PipeInv

(* As long as the main loop runs, every notification goes into the pipe,   *)
(* whatever descriptors the threads close and are given meanwhile.         *)
THEOREM NotificationsReachTheLoop == Spec => []LoopUndisturbed
<1>1. Spec => []PipeInv
  BY PipeInit, PipeStep, PTL DEF Spec
<1>2. PipeInv => LoopUndisturbed
  <2>. SUFFICES ASSUME PipeInv, pc = "loop"
                PROVE  stray = {} /\ ~(Notifying /\ NotifyIsKilled)
    BY DEF LoopUndisturbed
  <2>1. stray = {}
    BY DEF PipeInv, NoStrayYet
  <2>2. ASSUME Notifying PROVE ~NotifyIsKilled
    <3>1. tcp.tx # NoFd
      BY <2>2, NotifyType DEF PipeInv, notify_tx, Fds
    <3>2. Kept(tcp.rx, PipeRead) /\ table[notify_tx] = PipeWrite
      BY <2>2, <3>1, NotifiesPipe DEF PipeInv, PipeKept
    <3>3. PipeHasReader
      BY <3>2 DEF Kept, PipeHasReader
    <3>. QED
      BY <3>2, <3>3, DistinctObjects DEF NotifyIsKilled
  <2>. QED
    BY <2>1, <2>2
<1>. QED
  BY <1>1, <1>2, PTL

-----------------------------------------------------------------------------
(* After the main loop.                                                    *)

(* What the application has been or may still be told of.                  *)
Announced(id) ==
  id \in heard \/ \E i \in 1 .. Len(events) : events[i].kind = "Connected" /\ events[i].id = id

Unannounced ==
  listener.at # "none" =>
    \A id \in Ids :
      id >= next_id \/ (listener.at \in {"clone", "send"} /\ id = next_id - 1)
        => ~Announced(id)

NothingHeardYet == pc \in {"start", "bind", "connect"} => heard = {} /\ events = <<>>

(* Once TcpState::drop has closed the write end, its number is given to    *)
(* no connection the application was told of.                              *)
NumberUnheard ==
  /\ pc \in {"dropEvents", "dropWriters", "exit"} /\ tcp.tx # NoFd
  /\ table[tcp.tx].what = "conn"
  => table[tcp.tx].id \notin heard

StrayInv == PipeInv /\ NothingHeardYet /\ Unannounced /\ NumberUnheard /\ StraysUnheard

LEMMA ClosedIsUnheard ==
  ASSUME TypeOK, NEW n, NEW fd \in Fds, NEW t, t = Closed(table, n) \/ t = table,
         t[fd].what = "conn"
  PROVE  t[fd] = table[fd]
BY DistinctObjects DEF Closed, TypeOK

(* An event other than Connected announces nothing.                        *)
LEMMA SendsAnnounces ==
  ASSUME TypeOK, NEW event \in TcpEvents, Sends(event), heard' = heard,
         NEW id, Announced(id)'
  PROVE  Announced(id) \/ (event.kind = "Connected" /\ event.id = id)
<1>1. CASE ChannelOpen
  <2>1. events' = Append(events, event) /\ events \in Seq(TcpEvents)
    BY <1>1 DEF Sends, TypeOK
  <2>2. \A i \in 1 .. Len(events') :
          events'[i] = event \/ (i \in 1 .. Len(events) /\ events'[i] = events[i])
    BY <2>1
  <2>. QED
    BY <2>2 DEF Announced
<1>2. CASE ~ChannelOpen
  BY <1>2 DEF Sends, Announced
<1>. QED
  BY <1>1, <1>2

LEMMA ListenerUnannounced ==
  ASSUME TypeInv, Unannounced, Listener PROVE Unannounced'
<1>. USE DEF TypeInv
<1>1. heard' = heard /\ listener.at # "none" /\ next_id \in Nat
  <2>1. listener.at # "none"
    BY DEF Listener, Accept, Clone, CloneFails, ListenerSend, ListenerNotify, ListenerSpawn
  <2>2. heard' = heard
    BY DEF Listener, Accept, Clone, CloneFails, ListenerSend, ListenerNotify, ListenerSpawn
  <2>. QED
    BY <2>1, <2>2 DEF TypeOK
<1>2. CASE Accept \/ Clone \/ CloneFails \/ ListenerNotify \/ ListenerSpawn
  <2>1. events' = events
    BY <1>2 DEF Accept, Clone, CloneFails, ListenerNotify, ListenerSpawn
  <2>2. \A id : Announced(id)' = Announced(id)
    BY <1>1, <2>1 DEF Announced
  <2>3. CASE Accept
    <3>1. next_id' = next_id + 1
      BY <2>3 DEF Accept
    <3>2. ASSUME NEW id \in Ids, id >= next_id' \/ id = next_id' - 1 PROVE id >= next_id
      BY <1>1, <3>1, <3>2 DEF Ids
    <3>. QED
      BY <1>1, <2>2, <3>2 DEF Unannounced
  <2>4. CASE Clone
    BY <1>1, <2>2, <2>4 DEF Clone, Unannounced
  <2>5. CASE CloneFails \/ ListenerNotify \/ ListenerSpawn
    <3>1. next_id' = next_id /\ listener'.at \notin {"clone", "send"}
      BY <2>5 DEF CloneFails, ListenerNotify, ListenerSpawn, TypeOK
    <3>. QED
      BY <1>1, <2>2, <3>1 DEF Unannounced
  <2>. QED
    BY <1>2, <2>3, <2>4, <2>5
<1>3. CASE ListenerSend
  <2>1. next_id - 1 \in Ids /\ next_id' = next_id /\ listener'.at = "notify"
    BY <1>3, ConstantsAssumption DEF ListenerSend, TypeOK, Ids, ConstantsAssumption
  <2>. DEFINE event == Event("Connected", next_id - 1, listener.writer)
  <2>2. event \in TcpEvents /\ event.id = next_id - 1 /\ Sends(event)
    BY <1>3, <2>1, EventType DEF ListenerSend, TypeOK, Event
  <2>. HIDE DEF event
  <2>3. ASSUME NEW id \in Ids, id >= next_id PROVE ~Announced(id)'
    <3>1. ~Announced(id) /\ id # next_id - 1
      BY <1>1, <2>3 DEF Unannounced, Ids
    <3>. QED
      BY <1>1, <2>2, <3>1, SendsAnnounces
  <2>. QED
    BY <2>1, <2>3 DEF Unannounced
<1>. QED
  BY <1>2, <1>3 DEF Listener

LEMMA RestUnannounced ==
  ASSUME TypeInv, NothingHeardYet, Unannounced, [Next]_vars, ~Listener PROVE Unannounced'
<1>. USE DEF TypeInv
<1>1. CASE Bind
  <2>1. heard' = {} /\ events' = <<>>
    BY <1>1 DEF Bind, NothingHeardYet
  <2>2. listener'.at = "accept"
    BY <1>1 DEF Bind, TypeOK
  <2>. QED
    BY <2>1, <2>2 DEF Unannounced, Announced
<1>2. CASE ~Bind
  <2>1. listener' = listener /\ next_id' = next_id
    BY <1>2 DEF Next, Ended, Start, StartNothing, OpenPipe, Connect, StartFails, HandleEvent,
       Return, Shutdown, CloseRx, CloseTx, DropEvents, DropWriters, ProcessExits, Killed,
       ThreadKilled, PeerConnects, Reader, ReadData, ReadEnd, ReaderNotify, ReaderReturns,
       SendFails, PeerCloses
  <2>2. SUFFICES ASSUME listener.at # "none", NEW id \in Ids, Announced(id)'
                 PROVE  Announced(id)
    BY <2>1 DEF Unannounced
  <2>3. CASE Connect
    <3>1. FALSE
      BY <2>2, <2>3 DEF Connect, NoThreadsYet
    <3>. QED
      BY <3>1
  <2>4. CASE HandleEvent
    <3>1. events # <<>> /\ events \in Seq(TcpEvents) /\ events' = Tail(events)
      BY <2>4 DEF HandleEvent, TypeOK
    <3>2. \A i \in 1 .. Len(events') : i + 1 \in 1 .. Len(events) /\ events'[i] = events[i + 1]
      BY <3>1
    <3>3. \/ heard' = heard
          \/ heard' = heard \cup {Head(events).id} /\ Head(events).kind = "Connected"
      <4>. DEFINE event == Head(events)
      <4>1. \/ event.kind = "Connected" /\ OnConnected(event)
            \/ OnDisconnected(event) \/ UNCHANGED heard
        BY <2>4 DEF HandleEvent
      <4>. HIDE DEF event
      <4>2. \/ heard' = heard
            \/ heard' = heard \cup {event.id} /\ event.kind = "Connected"
        BY <4>1 DEF OnConnected, OnDisconnected
      <4>. QED
        BY <4>2 DEF event
    <3>4. 1 \in 1 .. Len(events) /\ events[1] = Head(events)
      BY <3>1
    <3>. QED
      BY <2>2, <3>2, <3>3, <3>4 DEF Announced
  <2>5. ASSUME NEW i \in Ids, Reader(i) PROVE Announced(id)
    <3>1. heard' = heard
      BY <2>5 DEF Reader, ReadData, ReadEnd, ReaderNotify, ReaderReturns
    <3>2. CASE events' = events
      BY <2>2, <3>1, <3>2 DEF Announced
    <3>3. CASE \E kind \in {"Data", "Disconnected"} : Sends(Event(kind, i, NoFd))
      <4>1. PICK kind \in {"Data", "Disconnected"} : Sends(Event(kind, i, NoFd))
        BY <3>3
      <4>. DEFINE event == Event(kind, i, NoFd)
      <4>2. event \in TcpEvents /\ event.kind # "Connected" /\ Sends(event)
        BY <4>1, EventType DEF Event
      <4>. HIDE DEF event
      <4>. QED
        BY <2>2, <3>1, <4>2, SendsAnnounces
    <3>. QED
      BY <2>5, <3>2, <3>3 DEF Reader, ReadData, ReadEnd, ReaderNotify, ReaderReturns
  <2>6. CASE ~Connect /\ ~HandleEvent /\ ~\E i \in Ids : Reader(i)
    <3>1. heard' = heard
      BY <1>2, <2>6 DEF Next, Ended, Start, StartNothing, OpenPipe, StartFails,
         Return, Shutdown, CloseRx, CloseTx, DropEvents, DropWriters, ProcessExits, Killed,
         ThreadKilled, PeerConnects, SendFails, PeerCloses
    <3>2. events' = events \/ events' = <<>>
      BY <1>2, <2>6 DEF Next, Ended, Start, StartNothing, OpenPipe, StartFails,
         Return, Shutdown, CloseRx, CloseTx, DropEvents, DropWriters, ProcessExits, Killed,
         ThreadKilled, PeerConnects, SendFails, PeerCloses
    <3>. QED
      BY <2>2, <3>1, <3>2 DEF Announced
  <2>. QED
    BY <2>3, <2>4, <2>5, <2>6
<1>. QED
  BY <1>1, <1>2

LEMMA NumberStaysUnheard ==
  ASSUME PipeInv, NumberUnheard, Unannounced, [Next]_vars PROVE NumberUnheard'
<1>. USE DEF PipeInv, TypeInv
<1>. DEFINE Over == pc \in {"dropEvents", "dropWriters", "exit"} /\ tcp.tx # NoFd
            tx == tcp.tx
<1>1. CASE pc = "loop"
  <2>1. tcp.tx # NoFd => tcp.rx # NoFd
    BY <1>1 DEF PipeKept, Kept, Fds
  <2>2. Over' => FALSE
    BY <1>1, <2>1 DEF Next, Ended, Start, StartNothing, OpenPipe, Bind, Connect, StartFails,
       HandleEvent, Return, Shutdown, CloseRx, CloseTx, DropEvents, DropWriters, ProcessExits,
       Killed, ThreadKilled, PeerConnects, Listener, Accept, Clone, CloneFails, ListenerSend,
       ListenerNotify, ListenerSpawn, Reader, ReadData, ReadEnd, ReaderNotify, ReaderReturns,
       SendFails, PeerCloses
  <2>. QED
    BY <2>2 DEF NumberUnheard
<1>2. CASE pc \in {"start", "bind", "connect", "closeRx", "ended"}
  <2>1. pc' \notin {"dropEvents", "dropWriters", "exit"}
    BY <1>2 DEF Next, Ended, Start, StartNothing, OpenPipe, Bind, Connect, StartFails,
       HandleEvent, Return, Shutdown, CloseRx, CloseTx, DropEvents, DropWriters, ProcessExits,
       Killed, ThreadKilled, PeerConnects, Listener, Accept, Clone, CloneFails, ListenerSend,
       ListenerNotify, ListenerSpawn, Reader, ReadData, ReadEnd, ReaderNotify, ReaderReturns,
       SendFails, PeerCloses
  <2>. QED
    BY <2>1 DEF NumberUnheard
<1>3. CASE CloseTx
  <2>1. tcp.tx # NoFd => table'[tcp.tx] = Unused
    BY <1>3 DEF CloseTx, Closed, TypeOK
  <2>. QED
    BY <1>3, <2>1, DistinctObjects DEF CloseTx, NumberUnheard
<1>4. CASE pc = "closeTx" /\ ~CloseTx
  <2>1. pc' \in {"closeTx", "ended"}
    BY <1>4 DEF Next, Ended, Start, StartNothing, OpenPipe, Bind, Connect, StartFails,
       HandleEvent, Return, Shutdown, CloseRx, DropEvents, DropWriters, ProcessExits,
       Killed, ThreadKilled, PeerConnects, Listener, Accept, Clone, CloneFails, ListenerSend,
       ListenerNotify, ListenerSpawn, Reader, ReadData, ReadEnd, ReaderNotify, ReaderReturns,
       SendFails, PeerCloses
  <2>. QED
    BY <2>1 DEF NumberUnheard
<1>5. CASE pc \in {"dropEvents", "dropWriters", "exit"} /\ tcp.tx = NoFd
  BY <1>5 DEF Next, Ended, Start, StartNothing, OpenPipe, Bind, Connect, StartFails,
     HandleEvent, Return, Shutdown, CloseRx, CloseTx, DropEvents, DropWriters, ProcessExits,
     Killed, ThreadKilled, PeerConnects, Listener, Accept, Clone, CloneFails, ListenerSend,
     ListenerNotify, ListenerSpawn, Reader, ReadData, ReadEnd, ReaderNotify, ReaderReturns,
     SendFails, PeerCloses, NumberUnheard
<1>6. CASE Over
  <2>1. tx \in Fds /\ (table[tx].what = "conn" => table[tx].id \notin heard)
    BY <1>6 DEF NumberUnheard, TypeOK
  <2>2. heard' = heard /\ tcp' = tcp
    BY <1>6 DEF Next, Ended, Start, StartNothing, OpenPipe, Bind, Connect, StartFails,
       HandleEvent, Return, Shutdown, CloseRx, CloseTx, DropEvents, DropWriters, ProcessExits,
       Killed, ThreadKilled, PeerConnects, Listener, Accept, Clone, CloneFails, ListenerSend,
       ListenerNotify, ListenerSpawn, Reader, ReadData, ReadEnd, ReaderNotify, ReaderReturns,
       SendFails, PeerCloses
  <2>3. SUFFICES table'[tx].what = "conn" => table'[tx].id \notin heard
    BY <2>2 DEF NumberUnheard
  <2>4. CASE Accept
    <3>1. PICK n \in Fds : table' = [table EXCEPT ![n] = Conn(next_id)]
      BY <2>4 DEF Accept
    <3>2. next_id \in Ids /\ listener.at # "none" /\ next_id >= next_id
      BY <2>4, ConstantsAssumption DEF Accept, TypeOK, Ids, ConstantsAssumption
    <3>3. next_id \notin heard
      BY <3>2 DEF Unannounced, Announced
    <3>. QED
      BY <2>1, <3>1, <3>3 DEF TypeOK, Conn, Object
  <2>5. CASE Clone
    <3>1. PICK n \in Fds : table' = [table EXCEPT ![n] = Conn(next_id - 1)]
      BY <2>5 DEF Clone
    <3>2. next_id - 1 \in Ids /\ listener.at = "clone"
      BY <2>5, ConstantsAssumption DEF Clone, TypeOK, Ids, ConstantsAssumption
    <3>3. next_id - 1 \notin heard
      BY <3>2 DEF Unannounced, Announced
    <3>. QED
      BY <2>1, <3>1, <3>3 DEF TypeOK, Conn, Object
  <2>6. CASE table' = table \/ \E n : table' = Closed(table, n)
    BY <2>1, <2>6, ClosedIsUnheard
  <2>7. CASE DropEvents \/ DropWriters
    <3>1. table'[tx] = Unused \/ table'[tx] = table[tx]
      BY <2>1, <2>7 DEF DropEvents, DropWriters
    <3>. QED
      BY <2>1, <3>1, DistinctObjects
  <2>8. CASE ~Accept /\ ~Clone /\ ~DropEvents /\ ~DropWriters
    BY <1>6, <2>6, <2>8 DEF Next, Ended, Start, StartNothing, OpenPipe, Bind, Connect, StartFails,
       HandleEvent, Return, Shutdown, CloseRx, CloseTx, ProcessExits,
       Killed, ThreadKilled, PeerConnects, Listener, CloneFails, ListenerSend, Sends,
       ListenerNotify, ListenerSpawn, Reader, ReadData, ReadEnd, ReaderNotify, ReaderReturns,
       SendFails, PeerCloses
  <2>. QED
    BY <2>4, <2>5, <2>7, <2>8
<1>. QED
  BY <1>1, <1>2, <1>3, <1>4, <1>5, <1>6 DEF TypeOK

LEMMA StraysStayUnheard ==
  ASSUME PipeInv, NumberUnheard, StraysUnheard, [Next]_vars PROVE StraysUnheard'
<1>. USE DEF PipeInv
<1>1. CASE HandleEvent
  BY <1>1 DEF HandleEvent, NoStrayYet, StraysUnheard
<1>2. ASSUME pipe_notify, Notifying, Running, heard' = heard PROVE StraysUnheard'
  <2>1. CASE pc \in {"start", "bind", "connect", "loop", "closeRx", "closeTx"}
    BY <1>2, <2>1, NotifiesPipe DEF StraysUnheard
  <2>2. CASE pc \in {"dropEvents", "dropWriters", "exit"}
    <3>1. notify_tx = tcp.tx /\ tcp.tx # NoFd
      BY <1>2, NotifyType DEF notify_tx, Fds
    <3>2. stray' = stray \/ (/\ table[tcp.tx].what = "conn"
                             /\ stray' = stray \cup {table[tcp.tx].id})
      BY <1>2, <3>1 DEF pipe_notify, WritesToPipe, WritesToConnection, WritesNowhere
    <3>. QED
      BY <1>2, <2>2, <3>1, <3>2 DEF NumberUnheard, StraysUnheard
  <2>. QED
    BY <1>2, <2>1, <2>2 DEF TypeInv, TypeOK, Running
<1>3. CASE ListenerNotify \/ \E id \in Ids : ReaderNotify(id)
  BY <1>2, <1>3 DEF ListenerNotify, ReaderNotify, Notifying
<1>4. CASE /\ ~HandleEvent /\ ~ListenerNotify /\ ~\E id \in Ids : ReaderNotify(id)
  <2>1. heard' = heard
    BY <1>4 DEF Next, Ended, Start, StartNothing, OpenPipe, Bind, Connect, StartFails,
       Return, Shutdown, CloseRx, CloseTx, DropEvents, DropWriters, ProcessExits,
       Killed, ThreadKilled, PeerConnects, Listener, Accept, Clone, CloneFails, ListenerSend,
       ListenerSpawn, Reader, ReadData, ReadEnd, ReaderReturns, SendFails, PeerCloses
  <2>2. stray' = stray
    BY <1>4 DEF Next, Ended, Start, StartNothing, OpenPipe, Bind, Connect, StartFails,
       Return, Shutdown, CloseRx, CloseTx, DropEvents, DropWriters, ProcessExits,
       Killed, ThreadKilled, PeerConnects, Listener, Accept, Clone, CloneFails, ListenerSend,
       ListenerSpawn, Reader, ReadData, ReadEnd, ReaderReturns, SendFails, PeerCloses
  <2>. QED
    BY <2>1, <2>2 DEF StraysUnheard
<1>. QED
  BY <1>1, <1>3, <1>4

LEMMA StrayInit == Init => StrayInv
<1>1. Init => NothingHeardYet /\ Unannounced /\ NumberUnheard /\ StraysUnheard
  BY DEF Init, NothingHeardYet, Unannounced, NumberUnheard, StraysUnheard
<1>. QED
  BY <1>1, PipeInit DEF StrayInv

LEMMA NothingHeardStep == TypeInv /\ NothingHeardYet /\ [Next]_vars => NothingHeardYet'
<1>. SUFFICES ASSUME TypeInv, NothingHeardYet, [Next]_vars,
                     pc' \in {"start", "bind", "connect"}
              PROVE  heard' = {} /\ events' = <<>>
  BY DEF NothingHeardYet
<1>1. pc \in {"start", "bind", "connect"}
  BY DEF Next, Ended, Start, StartNothing, OpenPipe, Bind, Connect, StartFails,
     HandleEvent, Return, Shutdown, CloseRx, CloseTx, DropEvents, DropWriters, ProcessExits,
     Killed, ThreadKilled, PeerConnects, Listener, Accept, Clone, CloneFails, ListenerSend,
     ListenerNotify, ListenerSpawn, Reader, ReadData, ReadEnd, ReaderNotify, ReaderReturns,
     SendFails, PeerCloses
<1>2. listener.at = "none" /\ \A id \in Ids : reader[id].at = "none"
  BY <1>1 DEF TypeInv, NoThreadsYet
<1>3. heard' = heard /\ events' = events
  BY <1>1, <1>2 DEF Next, Ended, Start, StartNothing, OpenPipe, Bind, Connect, StartFails,
     HandleEvent, Return, Shutdown, CloseRx, CloseTx, DropEvents, DropWriters, ProcessExits,
     Killed, ThreadKilled, PeerConnects, Listener, Accept, Clone, CloneFails, ListenerSend,
     ListenerNotify, ListenerSpawn, Reader, ReadData, ReadEnd, ReaderNotify, ReaderReturns,
     SendFails, PeerCloses
<1>. QED
  BY <1>1, <1>3 DEF NothingHeardYet

LEMMA StrayStep == ASSUME StrayInv, [Next]_vars PROVE StrayInv'
<1>1. PipeInv' /\ NothingHeardYet'
  BY PipeStep, NothingHeardStep DEF StrayInv, PipeInv
<1>2. Unannounced' /\ NumberUnheard' /\ StraysUnheard'
  BY ListenerUnannounced, RestUnannounced, NumberStaysUnheard, StraysStayUnheard
  DEF StrayInv, PipeInv
<1>. QED
  BY <1>1, <1>2 DEF StrayInv

(* After the main loop a notification may be written into a connection, but*)
(* never into one the application was told of: a client it has talked to   *)
(* sees no byte it did not send.                                           *)
THEOREM NoStrayByteIsHeard == Spec => []StraysUnheard
<1>1. StrayInv /\ [Next]_vars => StrayInv'
  BY StrayStep
<1>2. StrayInv => StraysUnheard
  BY DEF StrayInv
<1>. QED
  BY <1>1, <1>2, StrayInit, PTL DEF Spec

=============================================================================
