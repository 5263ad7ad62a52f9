-------------------------- MODULE HeldOnceProofs --------------------------
(***************************************************************************)
(* Who holds the descriptors of Descriptors: each is held once and closed  *)
(* once, for any number of descriptors and connections.                    *)
(***************************************************************************)
EXTENDS DescriptorsProofs

USE DEF NoFd, osVars, mainVars, threadVars, vars

-----------------------------------------------------------------------------
(* The values that may hold descriptor n, for connection id.               *)

ByListener(id, n) == listener.stream = n /\ id = next_id - 1
ByClone(id, n)    == listener.writer = n /\ id = next_id - 1
ByReader(id, n)   == reader[id].stream = n
ByEvent(id, n)    == \E i \in 1 .. Len(events) : events[i].fd = n /\ events[i].id = id
ByWriters(id, n)  == writers[id] = n

(* The descriptors of a connection are those that a value holds for it.    *)
Accounted(id, n) ==
  table[n] = Conn(id)
    <=> \/ ByListener(id, n) \/ ByClone(id, n) \/ ByReader(id, n)
        \/ ByEvent(id, n) \/ ByWriters(id, n)

(* One value at most holds it.                                             *)
Exclusive(id, n) ==
  /\ ~(ByListener(id, n) /\ (ByClone(id, n) \/ ByReader(id, n) \/ ByEvent(id, n)
                               \/ ByWriters(id, n)))
  /\ ~(ByClone(id, n) /\ (ByReader(id, n) \/ ByEvent(id, n) \/ ByWriters(id, n)))
  /\ ~(ByReader(id, n) /\ (ByEvent(id, n) \/ ByWriters(id, n)))
  /\ ~(ByEvent(id, n) /\ ByWriters(id, n))

ConnectionsHeld == \A id \in Ids, n \in Fds : Accounted(id, n) /\ Exclusive(id, n)

(* What a value is about to be overwritten with finds it empty.            *)
ListenerFree ==
  /\ (listener.at \in {"none", "accept"} => listener.stream = NoFd)
  /\ (listener.at \notin {"send"} => listener.writer = NoFd)

ReadersAccepted ==
  listener.at # "none" =>
    \A id \in Ids :
      reader[id].stream # NoFd
        => id < next_id /\ (listener.at # "accept" => id # next_id - 1)

(* A writer travels in the Connected event of its connection, the only one.*)
WritersSent ==
  /\ \A id \in Ids : writers[id] # NoFd => id \in heard
  /\ \A i \in 1 .. Len(events) :
       IF events[i].kind = "Connected"
       THEN /\ events[i].id \notin heard
            /\ \A j \in 1 .. Len(events) :
                 events[j].kind = "Connected" /\ events[j].id = events[i].id => j = i
       ELSE events[i].fd = NoFd

(* The ends of a pipe are rust_main's, unless TCP failed to start.         *)
PipeOwned ==
  /\ (tcp.rx = NoFd <=> tcp.tx = NoFd)
  /\ (pc = "start" => \A n \in Fds : table[n] \notin {PipeRead, PipeWrite})
  /\ tcp.rx # NoFd /\ pc # "ended" =>
       \A n \in Fds :
         /\ (table[n] = PipeRead
               => n = tcp.rx /\ pc \in {"bind", "connect", "loop", "closeRx"})
         /\ (table[n] = PipeWrite
               => n = tcp.tx /\ pc \in {"bind", "connect", "loop", "closeRx", "closeTx"})

(* Nothing is left in a channel that no one receives from.                 *)
NothingLeft ==
  pc \in {"dropWriters", "exit"} \/ tcp.tx = NoFd => events = <<>>

HeldInv ==
  /\ StrayInv /\ ConnectionsHeld /\ ListenerFree /\ ReadersAccepted /\ WritersSent
  /\ PipeOwned /\ NothingLeft

-----------------------------------------------------------------------------
(* What the parts of HeldInv say of one descriptor.                        *)

LEMMA ConnFact ==
  /\ \A id, k : Conn(id) = Conn(k) => id = k
  /\ \A id : Conn(id) # Unused /\ Conn(id) # Inherited /\ Conn(id) # Listening
  /\ \A id : Conn(id) # PipeRead /\ Conn(id) # PipeWrite
  /\ PipeRead # Unused /\ PipeWrite # Unused /\ PipeRead # PipeWrite
  /\ PipeRead # Listening /\ PipeWrite # Listening
  /\ PipeRead # Inherited /\ PipeWrite # Inherited
BY DEF Conn, Unused, Inherited, Listening, PipeRead, PipeWrite, Object

(* A listener that holds a descriptor holds it for the last connection.    *)
LEMMA ListenerId ==
  ASSUME HeldInv, listener.at \notin {"none", "accept"}
  PROVE  next_id - 1 \in Ids
BY ConstantsAssumption DEF HeldInv, StrayInv, PipeInv, TypeInv, TypeOK, Ids, ConstantsAssumption

LEMMA EventHasId ==
  ASSUME TypeOK, NEW i \in 1 .. Len(events)
  PROVE  events[i] \in TcpEvents /\ events[i].id \in Ids /\ events[i].fd \in Fds \cup {NoFd}
<1>1. events[i] \in TcpEvents
  BY DEF TypeOK
<1>. QED
  BY <1>1 DEF TcpEvents

(* What is not a connection's is held by none of these.                    *)
LEMMA NoHolder ==
  ASSUME HeldInv, NEW n \in Fds, \A id \in Ids : table[n] # Conn(id)
  PROVE  /\ listener.stream # n /\ listener.writer # n
         /\ \A id \in Ids : reader[id].stream # n /\ writers[id] # n
         /\ \A i \in 1 .. Len(events) : events[i].fd # n
<1>1. TypeOK
  BY DEF HeldInv, StrayInv, PipeInv, TypeInv
<1>2. \A id \in Ids : /\ ~ByListener(id, n) /\ ~ByClone(id, n) /\ ~ByReader(id, n)
                      /\ ~ByEvent(id, n) /\ ~ByWriters(id, n)
  BY DEF HeldInv, ConnectionsHeld, Accounted
<1>3. listener.stream # n /\ listener.writer # n
  <2>1. n # NoFd
    BY DEF Fds
  <2>2. CASE listener.at \in {"none", "accept"}
    BY <2>1, <2>2 DEF HeldInv, ListenerFree
  <2>3. CASE listener.at \notin {"none", "accept"}
    BY <1>2, <2>3, ListenerId DEF ByListener, ByClone
  <2>. QED
    BY <2>2, <2>3
<1>4. \A i \in 1 .. Len(events) : events[i].fd # n
  BY <1>1, <1>2, EventHasId DEF ByEvent
<1>. QED
  BY <1>2, <1>3, <1>4 DEF ByReader, ByWriters

LEMMA NextHasNoHolder ==
  ASSUME HeldInv, NEW n \in Fds, table[n] = Unused
  PROVE  /\ listener.stream # n /\ listener.writer # n
         /\ \A id \in Ids : reader[id].stream # n /\ writers[id] # n
         /\ \A i \in 1 .. Len(events) : events[i].fd # n
BY NoHolder, ConnFact

-----------------------------------------------------------------------------
(* The listener.                                                           *)

LEMMA AcceptHeld ==
  ASSUME HeldInv, Accept
  PROVE  (ConnectionsHeld /\ ListenerFree /\ ReadersAccepted /\ WritersSent)'
<1>1. TypeOK
  BY DEF HeldInv, StrayInv, PipeInv, TypeInv
<1>2. PICK m \in Fds :
        /\ table[m] = Unused
        /\ table' = [table EXCEPT ![m] = Conn(next_id)]
        /\ listener' = [listener EXCEPT !.at = "clone", !.stream = m]
  BY DEF Accept, IsNext, UnusedFds
<1>3. listener.stream = NoFd /\ listener.writer = NoFd
  BY DEF HeldInv, ListenerFree, Accept
<1>4. listener' = [at |-> "clone", stream |-> m, writer |-> NoFd]
  BY <1>1, <1>2, <1>3 DEF TypeOK
<1>5. UNCHANGED <<events, reader, writers, heard>> /\ next_id' = next_id + 1 /\ next_id \in Nat
  BY <1>1 DEF Accept, TypeOK
<1>6. ASSUME NEW id \in Ids, NEW n \in Fds PROVE Accounted(id, n)' /\ Exclusive(id, n)'
  <2>1. id \in Nat /\ n # NoFd
    BY ConstantsAssumption DEF Ids, Fds, ConstantsAssumption
  <2>2. ByListener(id, n)' <=> n = m /\ id = next_id
    BY <1>4, <1>5, <2>1 DEF ByListener
  <2>3. ~ByListener(id, n) /\ ~ByClone(id, n) /\ ~ByClone(id, n)'
    BY <1>3, <1>4, <2>1 DEF ByListener, ByClone
  <2>4. /\ ByReader(id, n)' <=> ByReader(id, n)
        /\ ByEvent(id, n)' <=> ByEvent(id, n)
        /\ ByWriters(id, n)' <=> ByWriters(id, n)
    BY <1>5 DEF ByReader, ByEvent, ByWriters
  <2>5. Accounted(id, n) /\ Exclusive(id, n)
    BY DEF HeldInv, ConnectionsHeld
  <2>6. table'[n] = IF n = m THEN Conn(next_id) ELSE table[n]
    BY <1>1, <1>2 DEF TypeOK
  <2>. QED
    BY <1>2, <2>2, <2>3, <2>4, <2>5, <2>6, ConnFact DEF Accounted, Exclusive
<1>7. ListenerFree'
  BY <1>4 DEF ListenerFree
<1>8. ReadersAccepted'
  <2>1. \A id \in Ids : reader[id].stream # NoFd => id < next_id
    BY DEF HeldInv, ReadersAccepted, Accept
  <2>. QED
    BY <1>4, <1>5, <2>1, ConstantsAssumption DEF ReadersAccepted, Ids, ConstantsAssumption
<1>9. WritersSent'
  BY <1>5 DEF HeldInv, WritersSent
<1>. QED
  BY <1>6, <1>7, <1>8, <1>9 DEF ConnectionsHeld

LEMMA CloneHeld ==
  ASSUME HeldInv, Clone
  PROVE  (ConnectionsHeld /\ ListenerFree /\ ReadersAccepted /\ WritersSent)'
<1>1. TypeOK
  BY DEF HeldInv, StrayInv, PipeInv, TypeInv
<1>2. PICK m \in Fds :
        /\ table[m] = Unused
        /\ table' = [table EXCEPT ![m] = Conn(next_id - 1)]
        /\ listener' = [listener EXCEPT !.at = "send", !.writer = m]
  BY DEF Clone, IsNext, UnusedFds
<1>3. listener.writer = NoFd
  BY DEF HeldInv, ListenerFree, Clone
<1>4. listener' = [at |-> "send", stream |-> listener.stream, writer |-> m]
  BY <1>1, <1>2 DEF TypeOK
<1>5. UNCHANGED <<events, reader, writers, heard, next_id>>
  BY DEF Clone
<1>6. ASSUME NEW id \in Ids, NEW n \in Fds PROVE Accounted(id, n)' /\ Exclusive(id, n)'
  <2>1. n # NoFd
    BY DEF Fds
  <2>2. ByClone(id, n)' <=> n = m /\ id = next_id - 1
    BY <1>4, <1>5 DEF ByClone
  <2>3. ~ByClone(id, n)
    BY <1>3, <2>1 DEF ByClone
  <2>4. /\ ByListener(id, n)' <=> ByListener(id, n)
        /\ ByReader(id, n)' <=> ByReader(id, n)
        /\ ByEvent(id, n)' <=> ByEvent(id, n)
        /\ ByWriters(id, n)' <=> ByWriters(id, n)
    BY <1>4, <1>5 DEF ByListener, ByReader, ByEvent, ByWriters
  <2>5. Accounted(id, n) /\ Exclusive(id, n)
    BY DEF HeldInv, ConnectionsHeld
  <2>6. table'[n] = IF n = m THEN Conn(next_id - 1) ELSE table[n]
    BY <1>1, <1>2 DEF TypeOK
  <2>. QED
    BY <1>2, <2>2, <2>3, <2>4, <2>5, <2>6, ConnFact DEF Accounted, Exclusive
<1>7. ListenerFree'
  BY <1>4 DEF ListenerFree
<1>8. ReadersAccepted'
  BY <1>4, <1>5 DEF HeldInv, ReadersAccepted, Clone
<1>9. WritersSent'
  BY <1>5 DEF HeldInv, WritersSent
<1>. QED
  BY <1>6, <1>7, <1>8, <1>9 DEF ConnectionsHeld

LEMMA CloneFailsHeld ==
  ASSUME HeldInv, CloneFails
  PROVE  (ConnectionsHeld /\ ListenerFree /\ ReadersAccepted /\ WritersSent)'
<1>1. TypeOK
  BY DEF HeldInv, StrayInv, PipeInv, TypeInv
<1>2. listener.writer = NoFd
  BY DEF HeldInv, ListenerFree, CloneFails
<1>3. listener' = [at |-> "accept", stream |-> NoFd, writer |-> NoFd]
  BY <1>1, <1>2 DEF CloneFails, TypeOK
<1>4. UNCHANGED <<events, reader, writers, heard, next_id>>
  BY DEF CloneFails
<1>5. next_id - 1 \in Ids
  BY ListenerId DEF CloneFails
<1>6. ASSUME NEW id \in Ids, NEW n \in Fds PROVE Accounted(id, n)' /\ Exclusive(id, n)'
  <2>1. n # NoFd
    BY DEF Fds
  <2>2. ~ByListener(id, n)' /\ ~ByClone(id, n)' /\ ~ByClone(id, n)
    BY <1>2, <1>3, <2>1 DEF ByListener, ByClone
  <2>3. /\ ByReader(id, n)' <=> ByReader(id, n)
        /\ ByEvent(id, n)' <=> ByEvent(id, n)
        /\ ByWriters(id, n)' <=> ByWriters(id, n)
    BY <1>4 DEF ByReader, ByEvent, ByWriters
  <2>4. /\ Accounted(id, n) /\ Exclusive(id, n)
        /\ Accounted(next_id - 1, n) /\ Exclusive(next_id - 1, n)
    BY <1>5 DEF HeldInv, ConnectionsHeld
  <2>5. table'[n] = IF n = listener.stream THEN Unused ELSE table[n]
    BY <1>1, <2>1 DEF CloneFails, Closed, TypeOK
  <2>6. CASE n = listener.stream
    <3>1. ByListener(next_id - 1, n) /\ table[n] = Conn(next_id - 1)
      BY <2>4, <2>6 DEF ByListener, Accounted
    <3>2. ~ByReader(id, n) /\ ~ByEvent(id, n) /\ ~ByWriters(id, n)
      BY <2>4, <3>1, ConnFact DEF Accounted, Exclusive
    <3>. QED
      BY <2>2, <2>3, <2>5, <2>6, <3>2, ConnFact DEF Accounted, Exclusive
  <2>7. CASE n # listener.stream
    BY <2>2, <2>3, <2>4, <2>5, <2>7 DEF Accounted, Exclusive, ByListener
  <2>. QED
    BY <2>6, <2>7
<1>7. ListenerFree'
  BY <1>3 DEF ListenerFree
<1>8. ReadersAccepted'
  BY <1>3, <1>4 DEF HeldInv, ReadersAccepted, CloneFails
<1>9. WritersSent'
  BY <1>4 DEF HeldInv, WritersSent
<1>. QED
  BY <1>6, <1>7, <1>8, <1>9 DEF ConnectionsHeld

(* What tx.send() does to the events and to the table.                     *)
LEMMA SendsEffect ==
  ASSUME TypeOK, NEW event \in TcpEvents, Sends(event), NEW id, NEW n \in Fds
  PROVE  /\ ChannelOpen =>
              /\ ByEvent(id, n)' <=> ByEvent(id, n) \/ (event.fd = n /\ event.id = id)
              /\ table' = table /\ events' = Append(events, event)
         /\ ~ChannelOpen =>
              /\ ByEvent(id, n)' <=> ByEvent(id, n)
              /\ table'[n] = IF n = event.fd THEN Unused ELSE table[n]
              /\ events' = events
<1>1. CASE ChannelOpen
  <2>1. events' = Append(events, event) /\ table' = table /\ events \in Seq(TcpEvents)
    BY <1>1 DEF Sends, TypeOK
  <2>2. Len(events') = Len(events) + 1 /\ Len(events) \in Nat
    BY <2>1
  <2>3. \A i \in 1 .. Len(events) : events'[i] = events[i]
    BY <2>1
  <2>4. events'[Len(events')] = event
    BY <2>1
  <2>5. \A i : i \in 1 .. Len(events') <=> i \in 1 .. Len(events) \/ i = Len(events')
    BY <2>2
  <2>. QED
    BY <1>1, <2>1, <2>3, <2>4, <2>5 DEF ByEvent
<1>2. CASE ~ChannelOpen
  <2>1. events' = events /\ table' = Closed(table, event.fd)
    BY <1>2 DEF Sends
  <2>. QED
    BY <1>2, <2>1 DEF ByEvent, Closed, TypeOK, Fds
<1>. QED
  BY <1>1, <1>2

LEMMA SendsWriters ==
  ASSUME TypeOK, WritersSent, NEW event \in TcpEvents, Sends(event), UNCHANGED <<writers, heard>>,
         IF event.kind = "Connected" THEN ~Announced(event.id) ELSE event.fd = NoFd
  PROVE  WritersSent'
<1>1. CASE ChannelOpen
  <2>1. events' = Append(events, event) /\ events \in Seq(TcpEvents)
    BY <1>1 DEF Sends, TypeOK
  <2>2. Len(events') = Len(events) + 1 /\ Len(events) \in Nat
    BY <2>1
  <2>3. \A i \in 1 .. Len(events) : events'[i] = events[i]
    BY <2>1
  <2>4. events'[Len(events')] = event
    BY <2>1
  <2>5. \A i : i \in 1 .. Len(events') <=> i \in 1 .. Len(events) \/ i = Len(events')
    BY <2>2
  <2>. QED
    BY <2>3, <2>4, <2>5 DEF WritersSent, Announced
<1>2. CASE ~ChannelOpen
  BY <1>2 DEF Sends, WritersSent
<1>. QED
  BY <1>1, <1>2

LEMMA ListenerSendHeld ==
  ASSUME HeldInv, ListenerSend
  PROVE  (ConnectionsHeld /\ ListenerFree /\ ReadersAccepted /\ WritersSent)'
<1>. DEFINE event == Event("Connected", next_id - 1, listener.writer)
<1>1. TypeOK
  BY DEF HeldInv, StrayInv, PipeInv, TypeInv
<1>2. next_id - 1 \in Ids
  BY ListenerId DEF ListenerSend
<1>3. listener' = [at |-> "notify", stream |-> listener.stream, writer |-> NoFd]
  BY <1>1 DEF ListenerSend, TypeOK
<1>4. UNCHANGED <<reader, writers, heard, next_id>> /\ Sends(event)
  BY DEF ListenerSend, mainVars
<1>5. /\ event \in TcpEvents /\ event.id = next_id - 1 /\ event.fd = listener.writer
      /\ event.kind = "Connected"
  BY <1>1, <1>2, EventType DEF Event, TypeOK
<1>. HIDE DEF event
<1>6. ASSUME NEW id \in Ids, NEW n \in Fds PROVE Accounted(id, n)' /\ Exclusive(id, n)'
  <2>1. n # NoFd
    BY DEF Fds
  <2>2. ~ByClone(id, n)' /\ (ByClone(id, n) <=> event.fd = n /\ event.id = id)
    BY <1>3, <1>5, <2>1 DEF ByClone
  <2>3. /\ ByListener(id, n)' <=> ByListener(id, n)
        /\ ByReader(id, n)' <=> ByReader(id, n)
        /\ ByWriters(id, n)' <=> ByWriters(id, n)
    BY <1>3, <1>4 DEF ByListener, ByReader, ByWriters
  <2>4. /\ Accounted(id, n) /\ Exclusive(id, n)
        /\ Accounted(next_id - 1, n) /\ Exclusive(next_id - 1, n)
    BY <1>2 DEF HeldInv, ConnectionsHeld
  <2>5. CASE ChannelOpen
    BY <1>1, <1>4, <1>5, <2>2, <2>3, <2>4, <2>5, SendsEffect DEF Accounted, Exclusive
  <2>6. CASE ~ChannelOpen
    <3>1. /\ ByEvent(id, n)' <=> ByEvent(id, n)
          /\ table'[n] = IF n = event.fd THEN Unused ELSE table[n]
      BY <1>1, <1>4, <1>5, <2>6, SendsEffect
    <3>2. CASE n = event.fd
      <4>1. ByClone(next_id - 1, n) /\ table[n] = Conn(next_id - 1)
        BY <1>5, <2>4, <3>2 DEF ByClone, Accounted
      <4>2. ~ByListener(id, n) /\ ~ByReader(id, n) /\ ~ByEvent(id, n) /\ ~ByWriters(id, n)
        BY <2>4, <4>1, ConnFact DEF Accounted, Exclusive
      <4>. QED
        BY <2>2, <2>3, <3>1, <3>2, <4>2, ConnFact DEF Accounted, Exclusive
    <3>3. CASE n # event.fd
      BY <2>2, <2>3, <2>4, <3>1, <3>3 DEF Accounted, Exclusive
    <3>. QED
      BY <3>2, <3>3
  <2>. QED
    BY <2>5, <2>6
<1>7. ListenerFree'
  BY <1>3 DEF ListenerFree
<1>8. ReadersAccepted'
  BY <1>3, <1>4 DEF HeldInv, ReadersAccepted, ListenerSend
<1>9. WritersSent'
  <2>1. ~Announced(next_id - 1)
    BY <1>2 DEF HeldInv, StrayInv, Unannounced, ListenerSend
  <2>. QED
    BY <1>1, <1>4, <1>5, <2>1, SendsWriters DEF HeldInv
<1>. QED
  BY <1>6, <1>7, <1>8, <1>9 DEF ConnectionsHeld

LEMMA ListenerSpawnHeld ==
  ASSUME HeldInv, ListenerSpawn
  PROVE  (ConnectionsHeld /\ ListenerFree /\ ReadersAccepted /\ WritersSent)'
<1>1. TypeOK
  BY DEF HeldInv, StrayInv, PipeInv, TypeInv
<1>2. next_id - 1 \in Ids
  BY ListenerId DEF ListenerSpawn
<1>3. listener.writer = NoFd /\ reader[next_id - 1].stream = NoFd
  BY <1>2 DEF HeldInv, ListenerFree, ReadersAccepted, ListenerSpawn
<1>4. listener' = [at |-> "accept", stream |-> NoFd, writer |-> NoFd]
  BY <1>1, <1>3 DEF ListenerSpawn, TypeOK
<1>5. \A id \in Ids : reader'[id].stream = IF id = next_id - 1 THEN listener.stream
                                           ELSE reader[id].stream
  BY <1>1 DEF ListenerSpawn, TypeOK
<1>6. UNCHANGED <<table, events, writers, heard, next_id>>
  BY DEF ListenerSpawn
<1>7. ASSUME NEW id \in Ids, NEW n \in Fds PROVE Accounted(id, n)' /\ Exclusive(id, n)'
  <2>1. n # NoFd
    BY DEF Fds
  <2>2. ~ByListener(id, n)' /\ ~ByClone(id, n)' /\ ~ByClone(id, n)
    BY <1>3, <1>4, <2>1 DEF ByListener, ByClone
  <2>3. ByReader(id, n)' <=> ByReader(id, n) \/ ByListener(id, n)
    BY <1>3, <1>5, <2>1 DEF ByReader, ByListener
  <2>4. /\ ByEvent(id, n)' <=> ByEvent(id, n)
        /\ ByWriters(id, n)' <=> ByWriters(id, n)
    BY <1>6 DEF ByEvent, ByWriters
  <2>5. Accounted(id, n) /\ Exclusive(id, n)
    BY DEF HeldInv, ConnectionsHeld
  <2>. QED
    BY <1>6, <2>2, <2>3, <2>4, <2>5 DEF Accounted, Exclusive
<1>8. ListenerFree'
  BY <1>4 DEF ListenerFree
<1>9. ReadersAccepted'
  <2>1. \A id \in Ids : reader'[id].stream # NoFd => id < next_id
    BY <1>1, <1>5, ConstantsAssumption
    DEF HeldInv, ReadersAccepted, ListenerSpawn, TypeOK, Ids, ConstantsAssumption
  <2>. QED
    BY <1>4, <1>6, <2>1 DEF ReadersAccepted
<1>10. WritersSent'
  BY <1>6 DEF HeldInv, WritersSent
<1>. QED
  BY <1>7, <1>8, <1>9, <1>10 DEF ConnectionsHeld

(* What moves or closes no descriptor.                                     *)
LEMMA SameHeld ==
  ASSUME HeldInv, UNCHANGED <<table, events, writers, heard, next_id, listener>>,
         \A id \in Ids : reader'[id].stream = reader[id].stream
  PROVE  (ConnectionsHeld /\ ListenerFree /\ ReadersAccepted /\ WritersSent)'
BY DEF HeldInv, ConnectionsHeld, Accounted, Exclusive, ByListener, ByClone, ByReader, ByEvent,
       ByWriters, ListenerFree, ReadersAccepted, WritersSent

LEMMA ListenerNotifyHeld ==
  ASSUME HeldInv, ListenerNotify
  PROVE  (ConnectionsHeld /\ ListenerFree /\ ReadersAccepted /\ WritersSent)'
<1>1. listener' = [listener EXCEPT !.at = "spawn"] /\ listener.at = "notify" /\ TypeOK
  BY DEF ListenerNotify, HeldInv, StrayInv, PipeInv, TypeInv
<1>2. listener' = [at |-> "spawn", stream |-> listener.stream, writer |-> listener.writer]
  BY <1>1 DEF TypeOK
<1>3. UNCHANGED <<table, events, writers, heard, next_id, reader>>
  BY DEF ListenerNotify
<1>4. ConnectionsHeld'
  BY <1>2, <1>3 DEF HeldInv, ConnectionsHeld, Accounted, Exclusive, ByListener, ByClone,
     ByReader, ByEvent, ByWriters
<1>. QED
  BY <1>1, <1>2, <1>3, <1>4 DEF HeldInv, ListenerFree, ReadersAccepted, WritersSent

LEMMA ListenerHeld ==
  ASSUME HeldInv, Listener
  PROVE  (ConnectionsHeld /\ ListenerFree /\ ReadersAccepted /\ WritersSent)'
BY AcceptHeld, CloneHeld, CloneFailsHeld, ListenerSendHeld, ListenerNotifyHeld,
   ListenerSpawnHeld DEF Listener

-----------------------------------------------------------------------------
(* The readers.                                                            *)

LEMMA ReaderHeld ==
  ASSUME HeldInv, NEW k \in Ids, Reader(k)
  PROVE  (ConnectionsHeld /\ ListenerFree /\ ReadersAccepted /\ WritersSent)'
<1>1. TypeOK
  BY DEF HeldInv, StrayInv, PipeInv, TypeInv
<1>2. UNCHANGED <<writers, heard, next_id, listener>>
  BY DEF Reader, ReadData, ReadEnd, ReaderNotify, ReaderReturns, mainVars
<1>3. CASE ReadData(k) \/ ReadEnd(k)
  <2>1. PICK kind \in {"Data", "Disconnected"} : Sends(Event(kind, k, NoFd))
    BY <1>3 DEF ReadData, ReadEnd
  <2>. DEFINE event == Event(kind, k, NoFd)
  <2>2. event \in TcpEvents /\ event.fd = NoFd /\ event.kind # "Connected"
    BY EventType DEF Event
  <2>3. Sends(event)
    BY <2>1
  <2>. HIDE DEF event
  <2>4. \A id \in Ids : reader'[id].stream = reader[id].stream
    <3>1. CASE ReadData(k)
      BY <1>1, <3>1 DEF ReadData, TypeOK
    <3>2. CASE ReadEnd(k)
      BY <1>1, <3>2 DEF ReadEnd, TypeOK
    <3>. QED
      BY <1>3, <3>1, <3>2
  <2>5. ASSUME NEW id \in Ids, NEW n \in Fds PROVE Accounted(id, n)' /\ Exclusive(id, n)'
    <3>1. n # NoFd
      BY DEF Fds
    <3>2. (ByEvent(id, n)' <=> ByEvent(id, n)) /\ table'[n] = table[n]
      BY <1>1, <2>2, <2>3, <3>1, SendsEffect
    <3>3. Accounted(id, n) /\ Exclusive(id, n)
      BY DEF HeldInv, ConnectionsHeld
    <3>. QED
      BY <1>2, <2>4, <3>2, <3>3 DEF Accounted, Exclusive, ByListener, ByClone, ByReader, ByWriters
  <2>6. ListenerFree' /\ ReadersAccepted'
    BY <1>2, <2>4 DEF HeldInv, ListenerFree, ReadersAccepted
  <2>7. WritersSent'
    BY <1>1, <1>2, <2>2, <2>3, SendsWriters DEF HeldInv
  <2>. QED
    BY <2>5, <2>6, <2>7 DEF ConnectionsHeld
<1>4. CASE ReaderNotify(k)
  <2>1. \A id \in Ids : reader'[id].stream = reader[id].stream
    BY <1>1, <1>4 DEF ReaderNotify, TypeOK
  <2>. QED
    BY <1>4, <2>1, SameHeld DEF ReaderNotify
<1>5. CASE ReaderReturns(k)
  <2>1. \A id \in Ids : reader'[id].stream = IF id = k THEN NoFd ELSE reader[id].stream
    BY <1>1, <1>5 DEF ReaderReturns, TypeOK
  <2>2. events' = events /\ \A n \in Fds : table'[n] = IF n = reader[k].stream THEN Unused ELSE table[n]
    BY <1>1, <1>5 DEF ReaderReturns, Closed, TypeOK, Fds
  <2>3. ASSUME NEW id \in Ids, NEW n \in Fds PROVE Accounted(id, n)' /\ Exclusive(id, n)'
    <3>1. n # NoFd
      BY DEF Fds
    <3>2. ByReader(id, n)' <=> id # k /\ ByReader(id, n)
      BY <2>1, <3>1 DEF ByReader
    <3>3. /\ ByListener(id, n)' <=> ByListener(id, n)
          /\ ByClone(id, n)' <=> ByClone(id, n)
          /\ ByEvent(id, n)' <=> ByEvent(id, n)
          /\ ByWriters(id, n)' <=> ByWriters(id, n)
      BY <1>2, <2>2 DEF ByListener, ByClone, ByEvent, ByWriters
    <3>4. /\ Accounted(id, n) /\ Exclusive(id, n)
          /\ Accounted(k, n) /\ Exclusive(k, n)
      BY DEF HeldInv, ConnectionsHeld
    <3>5. CASE n = reader[k].stream
      <4>1. ByReader(k, n) /\ table[n] = Conn(k)
        BY <3>4, <3>5 DEF ByReader, Accounted
      <4>. QED
        BY <2>2, <3>2, <3>3, <3>4, <3>5, <4>1, ConnFact DEF Accounted, Exclusive
    <3>6. CASE n # reader[k].stream
      BY <2>2, <3>2, <3>3, <3>4, <3>6 DEF Accounted, Exclusive, ByReader
    <3>. QED
      BY <3>5, <3>6
  <2>4. ListenerFree' /\ ReadersAccepted' /\ WritersSent'
    BY <1>2, <2>1, <2>2 DEF HeldInv, ListenerFree, ReadersAccepted, WritersSent
  <2>. QED
    BY <2>3, <2>4 DEF ConnectionsHeld
<1>. QED
  BY <1>3, <1>4, <1>5 DEF Reader

-----------------------------------------------------------------------------
(* The main thread.                                                        *)

(* A writer is closed.                                                     *)
LEMMA WriterClosed ==
  ASSUME HeldInv, NEW k \in Ids, table' = Closed(table, writers[k]),
         writers' = [writers EXCEPT ![k] = NoFd]
  PROVE  \A n \in Fds :
           /\ table'[n] = IF ByWriters(k, n) THEN Unused ELSE table[n]
           /\ ByWriters(k, n) => table[n] = Conn(k)
           /\ \A id \in Ids : ByWriters(id, n)' <=> id # k /\ ByWriters(id, n)
<1>1. TypeOK
  BY DEF HeldInv, StrayInv, PipeInv, TypeInv
<1>2. ASSUME NEW n \in Fds
      PROVE  table'[n] = IF ByWriters(k, n) THEN Unused ELSE table[n]
  BY <1>1, <1>2 DEF Closed, TypeOK, ByWriters, Fds
<1>3. ASSUME NEW n \in Fds, ByWriters(k, n) PROVE table[n] = Conn(k)
  BY <1>3 DEF HeldInv, ConnectionsHeld, Accounted
<1>4. ASSUME NEW n \in Fds, NEW id \in Ids
      PROVE  ByWriters(id, n)' <=> id # k /\ ByWriters(id, n)
  BY <1>1, <1>4 DEF TypeOK, ByWriters, Fds
<1>. QED
  BY <1>2, <1>3, <1>4

LEMMA SendFailsHeld ==
  ASSUME HeldInv, NEW k \in Ids, SendFails(k)
  PROVE  (ConnectionsHeld /\ ListenerFree /\ ReadersAccepted /\ WritersSent)'
<1>1. TypeOK
  BY DEF HeldInv, StrayInv, PipeInv, TypeInv
<1>2. UNCHANGED <<events, reader, listener, heard, next_id>>
  BY DEF SendFails, threadVars
<1>3. ASSUME NEW id \in Ids, NEW n \in Fds PROVE Accounted(id, n)' /\ Exclusive(id, n)'
  <2>1. /\ ByListener(id, n)' <=> ByListener(id, n)
        /\ ByClone(id, n)' <=> ByClone(id, n)
        /\ ByReader(id, n)' <=> ByReader(id, n)
        /\ ByEvent(id, n)' <=> ByEvent(id, n)
    BY <1>2 DEF ByListener, ByClone, ByReader, ByEvent
  <2>2. /\ table'[n] = IF ByWriters(k, n) THEN Unused ELSE table[n]
        /\ ByWriters(k, n) => table[n] = Conn(k)
        /\ ByWriters(id, n)' <=> id # k /\ ByWriters(id, n)
    BY WriterClosed DEF SendFails
  <2>3. /\ Accounted(id, n) /\ Exclusive(id, n)
        /\ Accounted(k, n) /\ Exclusive(k, n)
    BY DEF HeldInv, ConnectionsHeld
  <2>. QED
    BY <2>1, <2>2, <2>3, ConnFact DEF Accounted, Exclusive
<1>4. WritersSent'
  BY <1>1, <1>2 DEF HeldInv, WritersSent, SendFails, TypeOK
<1>5. ListenerFree' /\ ReadersAccepted'
  BY <1>2 DEF HeldInv, ListenerFree, ReadersAccepted
<1>. QED
  BY <1>3, <1>4, <1>5 DEF ConnectionsHeld

LEMMA HandleEventHeld ==
  ASSUME HeldInv, HandleEvent
  PROVE  (ConnectionsHeld /\ ListenerFree /\ ReadersAccepted /\ WritersSent)'
<1>. DEFINE event == Head(events)
<1>1. TypeOK
  BY DEF HeldInv, StrayInv, PipeInv, TypeInv
<1>2. UNCHANGED <<reader, listener, next_id>> /\ events' = Tail(events)
  BY DEF HandleEvent
<1>3. events \in Seq(TcpEvents) /\ events # <<>>
  BY <1>1 DEF HandleEvent, TypeOK
<1>4. Len(events) \in Nat \ {0} /\ Len(events') = Len(events) - 1 /\ event = events[1]
  BY <1>2, <1>3
<1>5. \A i \in 1 .. Len(events') : events'[i] = events[i + 1] /\ i + 1 \in 1 .. Len(events)
  BY <1>2, <1>3, <1>4
<1>6. event \in TcpEvents /\ 1 \in 1 .. Len(events) /\ event.id \in Ids
  BY <1>1, <1>3, <1>4, EventHasId
<1>7. \A i \in 1 .. Len(events) : i = 1 \/ (i - 1 \in 1 .. Len(events') /\ events'[i - 1] = events[i])
  BY <1>2, <1>3, <1>4
<1>8. IF event.kind = "Connected"
      THEN event.id \notin heard /\ writers[event.id] = NoFd
      ELSE event.fd = NoFd
  BY <1>4, <1>6 DEF HeldInv, WritersSent
<1>9. \/ event.kind = "Connected" /\ OnConnected(event)
      \/ event.kind = "Disconnected" /\ OnDisconnected(event)
      \/ event.kind = "Data" /\ UNCHANGED <<table, writers, heard>>
  BY DEF HandleEvent
<1>10. ASSUME NEW id \in Ids, NEW n \in Fds
       PROVE  /\ ByEvent(id, n) <=> ByEvent(id, n)' \/ (event.fd = n /\ event.id = id)
              /\ event.fd = n => ~ByEvent(id, n)'
  <2>1. ByEvent(id, n) => ByEvent(id, n)' \/ (event.fd = n /\ event.id = id)
    BY <1>4, <1>7 DEF ByEvent
  <2>2. ByEvent(id, n)' \/ (event.fd = n /\ event.id = id) => ByEvent(id, n)
    BY <1>4, <1>5, <1>6 DEF ByEvent
  <2>3. ASSUME event.fd = n, ByEvent(id, n)' PROVE FALSE
    <3>1. PICK i \in 1 .. Len(events') : events'[i].fd = n /\ events'[i].id = id
      BY <2>3 DEF ByEvent
    <3>2. i + 1 \in 1 .. Len(events) /\ events[i + 1].fd = n /\ events[i + 1].id = id /\ i + 1 # 1
      BY <1>5, <3>1
    <3>3. n # NoFd /\ events[i + 1].kind = "Connected" /\ event.kind = "Connected"
      BY <1>8, <2>3, <3>2 DEF Fds, HeldInv, WritersSent
    <3>4. event.id # id
      BY <1>4, <1>6, <3>2, <3>3 DEF HeldInv, WritersSent
    <3>5. ByEvent(id, n) /\ ByEvent(event.id, n)
      BY <1>4, <1>6, <2>3, <3>2 DEF ByEvent
    <3>6. table[n] = Conn(id) /\ table[n] = Conn(event.id)
      BY <1>6, <3>5 DEF HeldInv, ConnectionsHeld, Accounted
    <3>. QED
      BY <3>4, <3>6, ConnFact
  <2>. QED
    BY <2>1, <2>2, <2>3
<1>. HIDE DEF event
<1>11. ASSUME NEW id \in Ids, NEW n \in Fds PROVE Accounted(id, n)' /\ Exclusive(id, n)'
  <2>1. /\ ByListener(id, n)' <=> ByListener(id, n)
        /\ ByClone(id, n)' <=> ByClone(id, n)
        /\ ByReader(id, n)' <=> ByReader(id, n)
    BY <1>2 DEF ByListener, ByClone, ByReader
  <2>2. n # NoFd
    BY DEF Fds
  <2>3. Accounted(id, n) /\ Exclusive(id, n)
    BY DEF HeldInv, ConnectionsHeld
  <2>4. CASE event.kind = "Connected" /\ OnConnected(event)
    <3>1. ByWriters(id, n)' <=> ByWriters(id, n) \/ (event.fd = n /\ event.id = id)
      BY <1>1, <1>6, <1>8, <2>2, <2>4 DEF OnConnected, ByWriters, TypeOK
    <3>2. table' = table
      BY <2>4 DEF OnConnected
    <3>. QED
      BY <1>10, <2>1, <2>3, <3>1, <3>2 DEF Accounted, Exclusive
  <2>5. CASE event.kind = "Disconnected" /\ OnDisconnected(event)
    <3>1. /\ table'[n] = IF ByWriters(event.id, n) THEN Unused ELSE table[n]
          /\ ByWriters(event.id, n) => table[n] = Conn(event.id)
          /\ ByWriters(id, n)' <=> id # event.id /\ ByWriters(id, n)
      BY <1>6, <2>5, WriterClosed DEF OnDisconnected
    <3>2. ByEvent(id, n)' <=> ByEvent(id, n)
      BY <1>8, <1>10, <2>2, <2>5
    <3>3. Exclusive(event.id, n)
      BY <1>6 DEF HeldInv, ConnectionsHeld
    <3>. QED
      BY <2>1, <2>3, <3>1, <3>2, <3>3, ConnFact DEF Accounted, Exclusive
  <2>6. CASE event.kind = "Data" /\ UNCHANGED <<table, writers, heard>>
    <3>1. ByEvent(id, n)' <=> ByEvent(id, n)
      BY <1>8, <1>10, <2>2, <2>6
    <3>. QED
      BY <2>1, <2>3, <2>6, <3>1 DEF Accounted, Exclusive, ByWriters
  <2>. QED
    BY <1>9, <2>4, <2>5, <2>6
<1>12. ListenerFree' /\ ReadersAccepted'
  BY <1>2 DEF HeldInv, ListenerFree, ReadersAccepted
<1>13. WritersSent'
  <2>1. \A id \in Ids : writers'[id] # NoFd => id \in heard'
    BY <1>1, <1>6, <1>9 DEF HeldInv, WritersSent, OnConnected, OnDisconnected, TypeOK
  <2>2. heard' = heard \/ (event.kind = "Connected" /\ heard' = heard \cup {event.id})
    BY <1>9 DEF OnConnected, OnDisconnected
  <2>3. ASSUME NEW i \in 1 .. Len(events'), events'[i].kind = "Connected"
        PROVE  /\ events'[i].id \notin heard'
               /\ \A j \in 1 .. Len(events') :
                    events'[j].kind = "Connected" /\ events'[j].id = events'[i].id => j = i
    <3>1. /\ i + 1 \in 1 .. Len(events) /\ events[i + 1].kind = "Connected"
          /\ events'[i] = events[i + 1] /\ i + 1 # 1
      BY <1>5, <2>3
    <3>2. events[i + 1].id \notin heard
      BY <3>1 DEF HeldInv, WritersSent
    <3>3. \A j \in 1 .. Len(events) :
            events[j].kind = "Connected" /\ events[j].id = events[i + 1].id => j = i + 1
      BY <3>1 DEF HeldInv, WritersSent
    <3>4. event.kind = "Connected" => event.id # events[i + 1].id
      BY <1>4, <1>6, <3>1, <3>3 DEF event
    <3>5. ASSUME NEW j \in 1 .. Len(events'), events'[j].kind = "Connected",
                 events'[j].id = events'[i].id
          PROVE  j = i
      <4>1. j + 1 \in 1 .. Len(events) /\ events'[j] = events[j + 1]
        BY <1>5
      <4>2. j + 1 = i + 1
        BY <3>1, <3>3, <3>5, <4>1
      <4>. QED
        BY <4>2
    <3>. QED
      BY <2>2, <3>1, <3>2, <3>4, <3>5
  <2>4. ASSUME NEW i \in 1 .. Len(events'), events'[i].kind # "Connected"
        PROVE  events'[i].fd = NoFd
    BY <1>5, <2>4 DEF HeldInv, WritersSent
  <2>. QED
    BY <2>1, <2>3, <2>4 DEF WritersSent
<1>. QED
  BY <1>11, <1>12, <1>13 DEF ConnectionsHeld

(* Descriptors that are no connection's change, and nothing else.          *)
LEMMA OtherDescriptors ==
  ASSUME HeldInv, UNCHANGED <<events, reader, listener, writers, heard, next_id>>,
         \A n \in Fds : table'[n] # table[n] => \A id \in Ids : table[n] # Conn(id) /\ table'[n] # Conn(id)
  PROVE  (ConnectionsHeld /\ ListenerFree /\ ReadersAccepted /\ WritersSent)'
<1>1. ASSUME NEW id \in Ids, NEW n \in Fds PROVE Accounted(id, n)' /\ Exclusive(id, n)'
  <2>1. table'[n] = Conn(id) <=> table[n] = Conn(id)
    OBVIOUS
  <2>. QED
    BY <2>1 DEF HeldInv, ConnectionsHeld, Accounted, Exclusive, ByListener, ByClone, ByReader,
       ByEvent, ByWriters
<1>. QED
  BY <1>1 DEF HeldInv, ConnectionsHeld, ListenerFree, ReadersAccepted, WritersSent

LEMMA StartHeld ==
  ASSUME HeldInv, Start
  PROVE  (ConnectionsHeld /\ ListenerFree /\ ReadersAccepted /\ WritersSent)'
<1>1. TypeOK
  BY DEF HeldInv, StrayInv, PipeInv, TypeInv
<1>2. CASE StartNothing \/ StartFails
  BY <1>2, SameHeld DEF StartNothing, StartFails
<1>3. CASE OpenPipe
  <2>1. PICK n \in Fds, m \in Fds :
          /\ AreNext(n, m)
          /\ table' = [table EXCEPT ![n] = PipeRead, ![m] = PipeWrite]
    BY <1>3 DEF OpenPipe
  <2>2. n # m /\ table[n] = Unused /\ table[m] = Unused
    BY <2>1 DEF AreNext, IsNext, UnusedFds
  <2>3. \A k \in Fds : table'[k] = IF k = n THEN PipeRead ELSE IF k = m THEN PipeWrite ELSE table[k]
    BY <1>1, <2>1, <2>2 DEF TypeOK
  <2>. QED
    BY <1>3, <2>2, <2>3, OtherDescriptors, ConnFact DEF OpenPipe
<1>4. CASE Bind
  <2>1. PICK n \in Fds : table[n] = Unused /\ table' = [table EXCEPT ![n] = Listening]
    BY <1>4 DEF Bind, IsNext, UnusedFds
  <2>2. \A k \in Fds : table'[k] = IF k = n THEN Listening ELSE table[k]
    BY <1>1, <2>1 DEF TypeOK
  <2>3. listener' = [at |-> "accept", stream |-> NoFd, writer |-> NoFd]
    BY <1>4 DEF Bind, HeldInv, StrayInv, PipeInv, TypeInv, NoThreadsYet
  <2>4. listener.stream = NoFd /\ listener.writer = NoFd /\ \A id \in Ids : reader[id].stream = NoFd
    BY <1>4 DEF Bind, HeldInv, StrayInv, PipeInv, TypeInv, NoThreadsYet
  <2>5. UNCHANGED <<events, reader, writers, heard, next_id>>
    BY <1>4 DEF Bind
  <2>6. ASSUME NEW id \in Ids, NEW k \in Fds PROVE Accounted(id, k)' /\ Exclusive(id, k)'
    <3>1. table'[k] = Conn(id) <=> table[k] = Conn(id)
      BY <2>1, <2>2, ConnFact
    <3>2. Accounted(id, k) /\ Exclusive(id, k)
      BY DEF HeldInv, ConnectionsHeld
    <3>. QED
      BY <2>3, <2>4, <2>5, <3>1, <3>2 DEF Accounted, Exclusive, ByListener, ByClone, ByReader,
         ByEvent, ByWriters
  <2>. QED
    BY <2>3, <2>4, <2>5, <2>6
    DEF HeldInv, ConnectionsHeld, ListenerFree, ReadersAccepted, WritersSent
<1>5. CASE Connect
  <2>1. PICK n \in Fds, m \in Fds :
          /\ AreNext(n, m)
          /\ table' = [table EXCEPT ![n] = Conn(0), ![m] = Conn(0)]
          /\ events' = <<Event("Connected", 0, m)>>
          /\ reader' = [reader EXCEPT ![0] = [at |-> "read", stream |-> n]]
    BY <1>5 DEF Connect
  <2>2. n # m /\ table[n] = Unused /\ table[m] = Unused
    BY <2>1 DEF AreNext, IsNext, UnusedFds
  <2>3. \A k \in Fds : table'[k] = IF k = n \/ k = m THEN Conn(0) ELSE table[k]
    BY <1>1, <2>1, <2>2 DEF TypeOK
  <2>4. /\ listener.at = "none" /\ listener.stream = NoFd /\ listener.writer = NoFd
        /\ \A id \in Ids : reader[id].stream = NoFd
    BY <1>5 DEF Connect, HeldInv, StrayInv, PipeInv, TypeInv, NoThreadsYet
  <2>5. heard = {} /\ events = <<>>
    BY <1>5 DEF Connect, HeldInv, StrayInv, NothingHeardYet
  <2>6. \A id \in Ids : writers[id] = NoFd
    BY <2>5 DEF HeldInv, WritersSent
  <2>7. UNCHANGED <<listener, writers, heard, next_id>>
    BY <1>5 DEF Connect
  <2>8. \A id \in Ids : reader'[id].stream = IF id = 0 THEN n ELSE NoFd
    BY <1>1, <2>1, <2>4 DEF TypeOK
  <2>9. \A i : i \in 1 .. Len(events') <=> i = 1
    BY <2>1
  <2>10. events'[1].fd = m /\ events'[1].id = 0 /\ events'[1].kind = "Connected"
    BY <2>1 DEF Event
  <2>11. ASSUME NEW id \in Ids, NEW k \in Fds PROVE Accounted(id, k)' /\ Exclusive(id, k)'
    <3>1. k # NoFd
      BY DEF Fds
    <3>2. /\ ~ByListener(id, k)' /\ ~ByClone(id, k)' /\ ~ByWriters(id, k)'
          /\ ~ByListener(id, k) /\ ~ByClone(id, k) /\ ~ByWriters(id, k)
          /\ ~ByReader(id, k) /\ ~ByEvent(id, k)
      BY <2>4, <2>5, <2>6, <2>7, <3>1 DEF ByListener, ByClone, ByWriters, ByReader, ByEvent
    <3>3. ByReader(id, k)' <=> id = 0 /\ k = n
      BY <2>8, <3>1 DEF ByReader
    <3>4. ByEvent(id, k)' <=> id = 0 /\ k = m
      BY <2>9, <2>10 DEF ByEvent
    <3>5. Accounted(id, k)
      BY DEF HeldInv, ConnectionsHeld
    <3>. QED
      BY <2>2, <2>3, <3>2, <3>3, <3>4, <3>5, ConnFact DEF Accounted, Exclusive
  <2>12. ListenerFree' /\ ReadersAccepted'
    BY <2>4, <2>7 DEF ListenerFree, ReadersAccepted
  <2>13. WritersSent'
    BY <2>5, <2>6, <2>7, <2>9, <2>10 DEF WritersSent
  <2>. QED
    BY <2>11, <2>12, <2>13 DEF ConnectionsHeld
<1>. QED
  BY <1>2, <1>3, <1>4, <1>5 DEF Start

LEMMA ShutdownHeld ==
  ASSUME HeldInv, Shutdown
  PROVE  (ConnectionsHeld /\ ListenerFree /\ ReadersAccepted /\ WritersSent)'
<1>1. TypeOK
  BY DEF HeldInv, StrayInv, PipeInv, TypeInv
<1>2. CASE ProcessExits \/ Killed
  BY <1>2, SameHeld DEF ProcessExits, Killed
<1>3. CASE CloseRx /\ ~Killed
  <2>. table' = Closed(table, tcp.rx)
    BY <1>3 DEF CloseRx
  <2>1. \A n \in Fds : table'[n] = IF n = tcp.rx THEN Unused ELSE table[n]
    BY <1>1 DEF Closed, TypeOK, Fds
  <2>2. tcp.rx # NoFd => table[tcp.rx] = PipeRead
    BY <1>3 DEF CloseRx, HeldInv, PipeOwned, StrayInv, PipeInv, PipeKept, Kept
  <2>3. \A n \in Fds : n # NoFd
    BY DEF Fds
  <2>. QED
    BY <1>3, <2>1, <2>2, <2>3, OtherDescriptors, ConnFact DEF CloseRx, threadVars
<1>4. CASE CloseTx
  <2>1. \A n \in Fds : table'[n] = IF n = tcp.tx THEN Unused ELSE table[n]
    BY <1>1, <1>4 DEF CloseTx, Closed, TypeOK, Fds
  <2>2. tcp.tx # NoFd => table[tcp.tx] = PipeWrite
    BY <1>4 DEF CloseTx, HeldInv, StrayInv, PipeInv, PipeKept, Kept
  <2>3. \A n \in Fds : n # NoFd
    BY DEF Fds
  <2>. QED
    BY <1>4, <2>1, <2>2, <2>3, OtherDescriptors, ConnFact DEF CloseTx, threadVars
<1>5. CASE DropEvents
  <2>1. /\ UNCHANGED <<reader, listener, writers, heard, next_id>>
        /\ events' = <<>>
        /\ \A n \in Fds : table'[n] = IF \E i \in DOMAIN events : events[i].fd = n
                                      THEN Unused ELSE table[n]
    BY <1>5 DEF DropEvents
  <2>2. DOMAIN events = 1 .. Len(events)
    BY <1>1 DEF TypeOK
  <2>3. ASSUME NEW id \in Ids, NEW n \in Fds PROVE Accounted(id, n)' /\ Exclusive(id, n)'
    <3>1. ~ByEvent(id, n)'
      BY <2>1 DEF ByEvent
    <3>2. /\ ByListener(id, n)' <=> ByListener(id, n)
          /\ ByClone(id, n)' <=> ByClone(id, n)
          /\ ByReader(id, n)' <=> ByReader(id, n)
          /\ ByWriters(id, n)' <=> ByWriters(id, n)
      BY <2>1 DEF ByListener, ByClone, ByReader, ByWriters
    <3>3. Accounted(id, n) /\ Exclusive(id, n)
      BY DEF HeldInv, ConnectionsHeld
    <3>4. CASE \E i \in 1 .. Len(events) : events[i].fd = n
      <4>1. PICK k \in Ids : ByEvent(k, n)
        BY <1>1, <3>4, EventHasId DEF ByEvent
      <4>2. Accounted(k, n) /\ Exclusive(k, n) /\ table[n] = Conn(k)
        BY <4>1 DEF HeldInv, ConnectionsHeld, Accounted
      <4>3. table'[n] = Unused
        BY <2>1, <2>2, <3>4
      <4>. QED
        BY <3>1, <3>2, <3>3, <4>1, <4>2, <4>3, ConnFact DEF Accounted, Exclusive
    <3>5. CASE ~\E i \in 1 .. Len(events) : events[i].fd = n
      <4>1. ~ByEvent(id, n) /\ table'[n] = table[n]
        BY <2>1, <2>2, <3>5 DEF ByEvent
      <4>. QED
        BY <3>1, <3>2, <3>3, <4>1 DEF Accounted, Exclusive
    <3>. QED
      BY <3>4, <3>5
  <2>4. ListenerFree' /\ ReadersAccepted' /\ WritersSent'
    BY <2>1 DEF HeldInv, ListenerFree, ReadersAccepted, WritersSent
  <2>. QED
    BY <2>3, <2>4 DEF ConnectionsHeld
<1>6. CASE DropWriters
  <2>1. /\ UNCHANGED <<reader, listener, heard, next_id, events>>
        /\ \A id \in Ids : writers'[id] = NoFd
        /\ \A n \in Fds : table'[n] = IF \E id \in Ids : ByWriters(id, n)
                                      THEN Unused ELSE table[n]
    BY <1>6 DEF DropWriters, threadVars, ByWriters
  <2>2. ASSUME NEW id \in Ids, NEW n \in Fds PROVE Accounted(id, n)' /\ Exclusive(id, n)'
    <3>1. ~ByWriters(id, n)'
      BY <2>1 DEF ByWriters, Fds
    <3>2. /\ ByListener(id, n)' <=> ByListener(id, n)
          /\ ByClone(id, n)' <=> ByClone(id, n)
          /\ ByReader(id, n)' <=> ByReader(id, n)
          /\ ByEvent(id, n)' <=> ByEvent(id, n)
      BY <2>1 DEF ByListener, ByClone, ByReader, ByEvent
    <3>3. Accounted(id, n) /\ Exclusive(id, n)
      BY DEF HeldInv, ConnectionsHeld
    <3>4. CASE \E k \in Ids : ByWriters(k, n)
      <4>1. PICK k \in Ids : ByWriters(k, n)
        BY <3>4
      <4>2. Accounted(k, n) /\ Exclusive(k, n) /\ table[n] = Conn(k)
        BY <4>1 DEF HeldInv, ConnectionsHeld, Accounted
      <4>3. table'[n] = Unused
        BY <2>1, <3>4
      <4>. QED
        BY <3>1, <3>2, <3>3, <4>1, <4>2, <4>3, ConnFact DEF Accounted, Exclusive
    <3>5. CASE ~\E k \in Ids : ByWriters(k, n)
      BY <2>1, <3>1, <3>2, <3>3, <3>5 DEF Accounted, Exclusive
    <3>. QED
      BY <3>4, <3>5
  <2>3. ListenerFree' /\ ReadersAccepted' /\ WritersSent'
    BY <2>1 DEF HeldInv, ListenerFree, ReadersAccepted, WritersSent
  <2>. QED
    BY <2>2, <2>3 DEF ConnectionsHeld
<1>. QED
  BY <1>2, <1>3, <1>4, <1>5, <1>6 DEF Shutdown

LEMMA ConnectionsStep ==
  ASSUME HeldInv, [Next]_vars
  PROVE  (ConnectionsHeld /\ ListenerFree /\ ReadersAccepted /\ WritersSent)'
<1>1. CASE Return \/ ThreadKilled \/ PeerConnects \/ UNCHANGED vars \/ \E id \in Ids : PeerCloses(id)
  BY <1>1, SameHeld DEF Return, ThreadKilled, Killed, PeerConnects, PeerCloses
<1>. QED
  BY <1>1, StartHeld, HandleEventHeld, ShutdownHeld, ListenerHeld, ReaderHeld, SendFailsHeld
  DEF Next, Ended

-----------------------------------------------------------------------------
(* The pipe and the channel.                                               *)

(* A descriptor that comes to refer to an end of a pipe is one of pipe()'s.*)
LEMMA PipeFds ==
  ASSUME HeldInv, [Next]_vars, ~OpenPipe, NEW n \in Fds, table'[n] \in {PipeRead, PipeWrite}
  PROVE  table[n] = table'[n]
<1>1. TypeOK
  BY DEF HeldInv, StrayInv, PipeInv, TypeInv
<1>2. ASSUME NEW k, table' = Closed(table, k) PROVE table[n] = table'[n]
  BY <1>1, <1>2, ConnFact DEF Closed, TypeOK
<1>3. ASSUME NEW event, Sends(event) PROVE table[n] = table'[n]
  BY <1>2, <1>3 DEF Sends
<1>4. CASE Accept \/ Clone \/ Bind \/ Connect
  <2>1. PICK object : /\ object \notin {PipeRead, PipeWrite}
                      /\ \E i, k \in Fds : \/ table' = [table EXCEPT ![i] = object]
                                           \/ table' = [table EXCEPT ![i] = object, ![k] = object]
    BY <1>4, ConnFact DEF Accept, Clone, Bind, Connect
  <2>. QED
    BY <1>1, <2>1 DEF TypeOK
<1>5. CASE DropEvents \/ DropWriters
  BY <1>1, <1>5, ConnFact DEF DropEvents, DropWriters, TypeOK
<1>6. CASE HandleEvent
  BY <1>2, <1>6 DEF HandleEvent, OnConnected, OnDisconnected
<1>7. CASE CloneFails \/ ListenerSend \/ CloseRx \/ CloseTx
            \/ \E id \in Ids : ReadData(id) \/ ReadEnd(id) \/ ReaderReturns(id) \/ SendFails(id)
  BY <1>2, <1>3, <1>7
  DEF CloneFails, ListenerSend, CloseRx, CloseTx, Killed, ReadData, ReadEnd, ReaderReturns, SendFails
<1>8. CASE StartNothing \/ StartFails \/ Return \/ ProcessExits \/ ListenerNotify \/ ListenerSpawn
            \/ ThreadKilled \/ PeerConnects \/ UNCHANGED vars
            \/ \E id \in Ids : ReaderNotify(id) \/ PeerCloses(id)
  BY <1>8 DEF StartNothing, StartFails, Return, ProcessExits, ListenerNotify, ListenerSpawn,
     ThreadKilled, Killed, PeerConnects, ReaderNotify, PeerCloses
<1>. QED
  BY <1>4, <1>5, <1>6, <1>7, <1>8
  DEF Next, Ended, Start, Shutdown, Listener, Reader

LEMMA PipeOwnedStep == ASSUME HeldInv, [Next]_vars PROVE PipeOwned'
<1>1. TypeOK
  BY DEF HeldInv, StrayInv, PipeInv, TypeInv
<1>2. CASE OpenPipe
  <2>1. PICK n \in Fds, m \in Fds :
          /\ n # m
          /\ table' = [table EXCEPT ![n] = PipeRead, ![m] = PipeWrite]
          /\ tcp' = [rx |-> n, tx |-> m]
    BY <1>2 DEF OpenPipe, AreNext
  <2>2. \A k \in Fds : table[k] \notin {PipeRead, PipeWrite}
    BY <1>2 DEF OpenPipe, HeldInv, PipeOwned
  <2>3. \A k \in Fds : table'[k] = IF k = n THEN PipeRead ELSE IF k = m THEN PipeWrite ELSE table[k]
    BY <1>1, <2>1 DEF TypeOK
  <2>4. n # NoFd /\ m # NoFd
    BY DEF Fds
  <2>. QED
    BY <1>2, <2>1, <2>2, <2>3, <2>4, ConnFact DEF OpenPipe, PipeOwned
<1>3. CASE ~OpenPipe
  <2>1. \A n \in Fds : table'[n] \in {PipeRead, PipeWrite} => table[n] = table'[n]
    BY <1>3, PipeFds
  <2>2. CASE tcp' = tcp /\ pc' = pc
    BY <2>1, <2>2 DEF HeldInv, PipeOwned
  <2>3. CASE pc' = "ended" /\ tcp' = tcp
    BY <2>3 DEF HeldInv, PipeOwned
  <2>4. CASE Start
    BY <1>3, <2>1, <2>4
    DEF Start, StartNothing, Bind, Connect, StartFails, HeldInv, PipeOwned
  <2>5. CASE Return \/ DropEvents \/ DropWriters
    BY <2>1, <2>5 DEF Return, DropEvents, DropWriters, HeldInv, PipeOwned
  <2>6. CASE CloseRx \/ CloseTx
    <3>1. CASE Killed
      BY <2>3, <3>1 DEF Killed
    <3>2. CASE CloseRx /\ ~Killed
      <4>1. table' = Closed(table, tcp.rx)
        BY <3>2 DEF CloseRx
      <4>2. tcp.rx # NoFd => table'[tcp.rx] = Unused
        BY <1>1, <4>1 DEF Closed, TypeOK
      <4>. QED
        BY <2>1, <3>2, <4>2, ConnFact DEF CloseRx, HeldInv, PipeOwned
    <3>3. CASE CloseTx
      <4>1. table' = Closed(table, tcp.tx)
        BY <3>3 DEF CloseTx
      <4>2. tcp.tx # NoFd => table'[tcp.tx] = Unused
        BY <1>1, <4>1 DEF Closed, TypeOK
      <4>. QED
        BY <2>1, <3>3, <4>2, ConnFact DEF CloseTx, HeldInv, PipeOwned
    <3>. QED
      BY <2>6, <3>1, <3>2, <3>3
  <2>7. CASE ProcessExits \/ ThreadKilled
    BY <2>3, <2>7 DEF ProcessExits, ThreadKilled, Killed
  <2>8. CASE HandleEvent \/ Listener \/ PeerConnects \/ UNCHANGED vars
              \/ \E id \in Ids : Reader(id) \/ SendFails(id) \/ PeerCloses(id)
    <3>1. tcp' = tcp /\ pc' = pc
      BY <2>8 DEF HandleEvent, Listener, Accept, Clone, CloneFails, ListenerSend, ListenerNotify,
         ListenerSpawn, PeerConnects, Reader, ReadData, ReadEnd, ReaderNotify, ReaderReturns,
         SendFails, PeerCloses
    <3>. QED
      BY <2>2, <3>1
  <2>. QED
    BY <2>4, <2>5, <2>6, <2>7, <2>8 DEF Next, Ended, Shutdown
<1>. QED
  BY <1>2, <1>3

LEMMA NothingLeftStep == ASSUME HeldInv, [Next]_vars PROVE NothingLeft'
<1>1. CASE pc \in {"dropWriters", "exit"} \/ tcp.tx = NoFd
  <2>1. events = <<>>
    BY <1>1 DEF HeldInv, NothingLeft
  <2>2. CASE pc \in {"dropWriters", "exit"}
    <3>1. events' = events
      BY <2>1, <2>2
      DEF Next, Ended, Start, StartNothing, OpenPipe, Bind, Connect, StartFails, HandleEvent,
          Return, Shutdown, CloseRx, CloseTx, DropEvents, DropWriters, ProcessExits, Listener,
          Accept, Clone, CloneFails, ListenerSend, ListenerNotify, ListenerSpawn, ThreadKilled,
          Killed, PeerConnects, Reader, ReadData, ReadEnd, ReaderNotify, ReaderReturns,
          SendFails, PeerCloses, Sends, ChannelOpen
    <3>. QED
      BY <2>1, <3>1 DEF NothingLeft
  <2>3. CASE tcp.tx = NoFd
    <3>1. listener.at = "none" /\ pc # "connect" /\ \A id \in Ids : reader[id].at = "none"
      BY <2>3 DEF HeldInv, StrayInv, PipeInv, TypeInv, NoThreadsYet
    <3>2. events' = events
      BY <2>1, <3>1
      DEF Next, Ended, Start, StartNothing, OpenPipe, Bind, Connect, StartFails, HandleEvent,
          Return, Shutdown, CloseRx, CloseTx, DropEvents, DropWriters, ProcessExits, Listener,
          Accept, Clone, CloneFails, ListenerSend, ListenerNotify, ListenerSpawn, ThreadKilled,
          Killed, PeerConnects, Reader, ReadData, ReadEnd, ReaderNotify, ReaderReturns,
          SendFails, PeerCloses
    <3>. QED
      BY <2>1, <3>2 DEF NothingLeft
  <2>. QED
    BY <1>1, <2>2, <2>3
<1>2. CASE pc \notin {"dropWriters", "exit"} /\ tcp.tx # NoFd
  <2>1. CASE DropEvents
    BY <2>1 DEF DropEvents, NothingLeft
  <2>2. CASE StartFails
    BY <2>2 DEF StartFails, HeldInv, StrayInv, NothingHeardYet, NothingLeft
  <2>3. CASE OpenPipe
    BY <1>2, <2>3
    DEF OpenPipe, HeldInv, StrayInv, PipeInv, TypeInv, NoThreadsYet, NothingHeardYet, NothingLeft
  <2>4. CASE ~DropEvents /\ ~StartFails /\ ~OpenPipe
    <3>1. tcp' = tcp /\ pc' \notin {"dropWriters", "exit"}
      BY <1>2, <2>4
      DEF HeldInv, PipeOwned,
          Next, Ended, Start, StartNothing, Bind, Connect, HandleEvent,
          Return, Shutdown, CloseRx, CloseTx, DropWriters, ProcessExits, Listener,
          Accept, Clone, CloneFails, ListenerSend, ListenerNotify, ListenerSpawn, ThreadKilled,
          Killed, PeerConnects, Reader, ReadData, ReadEnd, ReaderNotify, ReaderReturns, SendFails,
          PeerCloses
    <3>. QED
      BY <1>2, <3>1 DEF NothingLeft
  <2>. QED
    BY <2>1, <2>2, <2>3, <2>4
<1>. QED
  BY <1>1, <1>2

-----------------------------------------------------------------------------
(* The theorem.                                                            *)

LEMMA HeldInit == Init => HeldInv
<1>. SUFFICES ASSUME Init PROVE HeldInv
  OBVIOUS
<1>1. StrayInv
  BY StrayInit
<1>2. /\ listener.at = "none" /\ listener.stream = NoFd /\ listener.writer = NoFd
      /\ \A id \in Ids : reader[id].stream = NoFd /\ writers[id] = NoFd
      /\ events = <<>> /\ heard = {} /\ pc = "start" /\ tcp.rx = NoFd /\ tcp.tx = NoFd
      /\ \A n \in Fds : table[n] \in {Inherited, Unused}
  BY DEF Init
<1>3. ConnectionsHeld
  BY <1>2, ConnFact DEF ConnectionsHeld, Accounted, Exclusive, ByListener, ByClone, ByReader,
     ByEvent, ByWriters, Fds
<1>4. ListenerFree /\ ReadersAccepted /\ WritersSent /\ PipeOwned /\ NothingLeft
  BY <1>2, ConnFact DEF ListenerFree, ReadersAccepted, WritersSent, PipeOwned, NothingLeft
<1>. QED
  BY <1>1, <1>3, <1>4 DEF HeldInv

(* A handle on a connection's descriptor is one of these, by its owner.    *)
LEMMA ConnHandle ==
  ASSUME HeldInv, NEW h \in Handles, h \notin PipeHandles
  PROVE  \E id \in Ids :
           /\ h = Handle(h.owner, h.fd, Conn(id)) /\ h.fd \in Fds
           /\ \/ h.owner = "listener" /\ ByListener(id, h.fd)
              \/ h.owner = "clone" /\ ByClone(id, h.fd)
              \/ h.owner = "reader" /\ ByReader(id, h.fd)
              \/ h.owner = "event" /\ ByEvent(id, h.fd)
              \/ h.owner = "writers" /\ ByWriters(id, h.fd)
<1>1. TypeOK
  BY DEF HeldInv, StrayInv, PipeInv, TypeInv
<1>2. h \in ThreadHandles \cup EventHandles \cup WriterHandles /\ h.fd # NoFd
  BY DEF Handles
<1>3. CASE h \in ThreadHandles
  <2>1. CASE h = Handle("listener", listener.stream, Conn(next_id - 1))
    <3>1. listener.stream # NoFd /\ listener.stream \in Fds
      BY <1>1, <1>2, <2>1 DEF Handle, TypeOK
    <3>2. next_id - 1 \in Ids
      BY <3>1, ListenerId DEF HeldInv, ListenerFree
    <3>. QED
      BY <2>1, <3>1, <3>2 DEF Handle, ByListener
  <2>2. CASE h = Handle("clone", listener.writer, Conn(next_id - 1))
    <3>1. listener.writer # NoFd /\ listener.writer \in Fds
      BY <1>1, <1>2, <2>2 DEF Handle, TypeOK
    <3>2. next_id - 1 \in Ids
      BY <3>1, ListenerId DEF HeldInv, ListenerFree
    <3>. QED
      BY <2>2, <3>1, <3>2 DEF Handle, ByClone
  <2>3. ASSUME NEW id \in Ids, h = Handle("reader", reader[id].stream, Conn(id))
        PROVE  \E k \in Ids : h = Handle(h.owner, h.fd, Conn(k)) /\ h.fd \in Fds
                                /\ h.owner = "reader" /\ ByReader(k, h.fd)
    BY <1>1, <1>2, <2>3 DEF Handle, TypeOK, ByReader
  <2>. QED
    BY <1>3, <2>1, <2>2, <2>3 DEF ThreadHandles
<1>4. CASE h \in EventHandles
  <2>1. PICK i \in DOMAIN events : h = Handle("event", events[i].fd, Conn(events[i].id))
    BY <1>4 DEF EventHandles
  <2>2. i \in 1 .. Len(events)
    BY <1>1 DEF TypeOK
  <2>3. events[i].id \in Ids /\ events[i].fd \in Fds \cup {NoFd}
    BY <1>1, <2>2, EventHasId
  <2>. QED
    BY <1>2, <2>1, <2>2, <2>3 DEF Handle, ByEvent
<1>5. CASE h \in WriterHandles
  <2>1. PICK id \in Ids : h = Handle("writers", writers[id], Conn(id))
    BY <1>5 DEF WriterHandles
  <2>. QED
    BY <1>1, <1>2, <2>1 DEF Handle, TypeOK, ByWriters
<1>. QED
  BY <1>2, <1>3, <1>4, <1>5

LEMMA PipeHandle ==
  ASSUME HeldInv, NEW h \in PipeHandles
  PROVE  /\ table[h.fd] = h.object
         /\ h \in {Handle("rx", tcp.rx, PipeRead), Handle("tx", tcp.tx, PipeWrite)}
<1>1. tcp.rx # NoFd /\ tcp.tx # NoFd
  BY DEF PipeHandles, HeldInv, PipeOwned
<1>2. CASE h = Handle("rx", tcp.rx, PipeRead)
  <2>1. pc \in {"bind", "connect", "loop", "closeRx"}
    BY <1>1, <1>2 DEF PipeHandles, Handle
  <2>. QED
    BY <1>1, <1>2, <2>1 DEF HeldInv, StrayInv, PipeInv, PipeKept, Kept, Handle
<1>3. CASE h = Handle("tx", tcp.tx, PipeWrite)
  <2>1. pc \in {"bind", "connect", "loop", "closeRx", "closeTx"}
    BY <1>1, <1>3 DEF PipeHandles, Handle
  <2>. QED
    BY <1>1, <1>3, <2>1 DEF HeldInv, StrayInv, PipeInv, PipeKept, Kept, Handle
<1>. QED
  BY <1>1, <1>2, <1>3 DEF PipeHandles

LEMMA HeldInvImplies == HeldInv => HeldOnce
<1>. SUFFICES ASSUME HeldInv, pc # "ended"
              PROVE  /\ \A h \in Handles : table[h.fd] = h.object
                     /\ \A h, k \in Handles : h.fd = k.fd => h = k
                     /\ \A n \in Fds : \/ table[n] \in {Unused, Inherited, Listening}
                                       \/ (\E h \in Handles : h.fd = n)
                                       \/ tcp.rx = NoFd /\ table[n] \in {PipeRead, PipeWrite}
  BY DEF HeldOnce
<1>1. TypeOK
  BY DEF HeldInv, StrayInv, PipeInv, TypeInv
<1>2. ASSUME NEW h \in Handles PROVE table[h.fd] = h.object
  <2>1. CASE h \in PipeHandles
    BY <2>1, PipeHandle
  <2>2. CASE h \notin PipeHandles
    <3>1. PICK id \in Ids :
            /\ h = Handle(h.owner, h.fd, Conn(id)) /\ h.fd \in Fds
            /\ \/ ByListener(id, h.fd) \/ ByClone(id, h.fd) \/ ByReader(id, h.fd)
               \/ ByEvent(id, h.fd) \/ ByWriters(id, h.fd)
      BY <2>2, ConnHandle
    <3>2. table[h.fd] = Conn(id)
      BY <3>1 DEF HeldInv, ConnectionsHeld, Accounted
    <3>. QED
      BY <3>1, <3>2 DEF Handle
  <2>. QED
    BY <2>1, <2>2
<1>3. ASSUME NEW h \in Handles, NEW k \in Handles, h.fd = k.fd PROVE h = k
  <2>1. h.object = k.object
    BY <1>2, <1>3
  <2>2. CASE h \in PipeHandles /\ k \in PipeHandles
    BY <2>1, <2>2, PipeHandle, ConnFact DEF Handle
  <2>3. \A g \in PipeHandles : g.object \in {PipeRead, PipeWrite}
    BY PipeHandle DEF Handle
  <2>4. \A g \in Handles \ PipeHandles : \E id \in Ids : g.object = Conn(id)
    BY ConnHandle DEF Handle
  <2>5. CASE h \notin PipeHandles /\ k \notin PipeHandles
    <3>1. PICK id \in Ids :
           /\ h = Handle(h.owner, h.fd, Conn(id)) /\ h.fd \in Fds
           /\ \/ h.owner = "listener" /\ ByListener(id, h.fd)
              \/ h.owner = "clone" /\ ByClone(id, h.fd)
              \/ h.owner = "reader" /\ ByReader(id, h.fd)
              \/ h.owner = "event" /\ ByEvent(id, h.fd)
              \/ h.owner = "writers" /\ ByWriters(id, h.fd)
      BY <2>5, ConnHandle
    <3>2. PICK j \in Ids :
           /\ k = Handle(k.owner, k.fd, Conn(j)) /\ k.fd \in Fds
           /\ \/ k.owner = "listener" /\ ByListener(j, k.fd)
              \/ k.owner = "clone" /\ ByClone(j, k.fd)
              \/ k.owner = "reader" /\ ByReader(j, k.fd)
              \/ k.owner = "event" /\ ByEvent(j, k.fd)
              \/ k.owner = "writers" /\ ByWriters(j, k.fd)
      BY <2>5, ConnHandle
    <3>3. id = j
      <4>1. h.object = Conn(id) /\ k.object = Conn(j)
        BY <3>1, <3>2 DEF Handle
      <4>. QED
        BY <2>1, <4>1, ConnFact
    <3>4. Exclusive(id, h.fd)
      BY <3>1 DEF HeldInv, ConnectionsHeld
    <3>5. h.owner = k.owner
      BY <1>3, <3>1, <3>2, <3>3, <3>4 DEF Exclusive
    <3>. QED
      BY <1>3, <3>1, <3>2, <3>3, <3>5
  <2>. QED
    BY <2>1, <2>2, <2>3, <2>4, <2>5, ConnFact
<1>4. ASSUME NEW n \in Fds, table[n] \notin {Unused, Inherited, Listening}
      PROVE  \/ (\E h \in Handles : h.fd = n)
             \/ tcp.rx = NoFd /\ table[n] \in {PipeRead, PipeWrite}
  <2>1. n # NoFd
    BY DEF Fds
  <2>2. table[n] \in {PipeRead, PipeWrite} \/ \E id \in Ids : table[n] = Conn(id)
    BY <1>1, <1>4 DEF TypeOK, Objects
  <2>3. CASE table[n] \in {PipeRead, PipeWrite} /\ tcp.rx # NoFd
    <3>1. \/ n = tcp.rx /\ pc \in {"bind", "connect", "loop", "closeRx"}
          \/ n = tcp.tx /\ pc \in {"bind", "connect", "loop", "closeRx", "closeTx"}
      BY <2>3 DEF HeldInv, PipeOwned
    <3>2. \/ Handle("rx", n, PipeRead) \in PipeHandles
          \/ Handle("tx", n, PipeWrite) \in PipeHandles
      BY <2>3, <3>1 DEF PipeHandles, Handle
    <3>. QED
      BY <3>2 DEF Handles, Handle
  <2>4. ASSUME NEW id \in Ids, table[n] = Conn(id) PROVE \E h \in Handles : h.fd = n
    <3>1. \/ ByListener(id, n) \/ ByClone(id, n) \/ ByReader(id, n)
          \/ ByEvent(id, n) \/ ByWriters(id, n)
      BY <2>4 DEF HeldInv, ConnectionsHeld, Accounted
    <3>2. ASSUME NEW h \in ThreadHandles \cup EventHandles \cup WriterHandles, h.fd = n
          PROVE  \E g \in Handles : g.fd = n
      BY <2>1, <3>2 DEF Handles
    <3>3. CASE ByListener(id, n) \/ ByClone(id, n)
      <4>1. Handle("listener", n, Conn(id)) \in ThreadHandles
              \/ Handle("clone", n, Conn(id)) \in ThreadHandles
        BY <3>3 DEF ByListener, ByClone, ThreadHandles
      <4>. QED
        BY <3>2, <4>1 DEF Handle
    <3>4. CASE ByReader(id, n)
      <4>1. Handle("reader", n, Conn(id)) \in ThreadHandles
        BY <3>4 DEF ByReader, ThreadHandles
      <4>. QED
        BY <3>2, <4>1 DEF Handle
    <3>5. CASE ByEvent(id, n)
      <4>1. PICK i \in 1 .. Len(events) : events[i].fd = n
        BY <3>5 DEF ByEvent
      <4>2. i \in DOMAIN events
        BY <1>1 DEF TypeOK
      <4>3. Handle("event", events[i].fd, Conn(events[i].id)) \in EventHandles
        BY <4>2 DEF EventHandles
      <4>. QED
        BY <3>2, <4>1, <4>3 DEF Handle
    <3>6. CASE ByWriters(id, n)
      <4>1. Handle("writers", n, Conn(id)) \in WriterHandles
        BY <3>6 DEF ByWriters, WriterHandles
      <4>. QED
        BY <3>2, <4>1 DEF Handle
    <3>. QED
      BY <3>1, <3>3, <3>4, <3>5, <3>6
  <2>. QED
    BY <2>2, <2>3, <2>4
<1>. QED
  BY <1>2, <1>3, <1>4

(* Every open descriptor has one value that will close it, and still refers*)
(* to what that value takes it for, whatever fails and in whatever order   *)
(* the threads go on while rust_main returns.                              *)
THEOREM DescriptorsHeldOnce == Spec => []HeldOnce
<1>1. HeldInv /\ [Next]_vars => HeldInv'
  <2>. SUFFICES ASSUME HeldInv, [Next]_vars PROVE HeldInv'
    OBVIOUS
  <2>1. StrayInv'
    BY StrayStep DEF HeldInv
  <2>. QED
    BY <2>1, ConnectionsStep, PipeOwnedStep, NothingLeftStep DEF HeldInv
<1>. QED
  BY <1>1, HeldInit, HeldInvImplies, PTL DEF Spec

=============================================================================
