---------------------------- MODULE TcpTransport ----------------------------
(***************************************************************************)
(* The TCP half of the host (src/src/lib.rs): the listener thread, one     *)
(* reader thread per connection, the mpsc channel of TcpEvents and the     *)
(* notification pipe they wake the main loop with, the main loop's side of *)
(* both, and the TcpSend effect.                                           *)
(*                                                                         *)
(* A thread reports an event in two steps that other threads may interleave*)
(* with: it sends the event on the channel, then it writes one byte to the *)
(* pipe, which blocks while the pipe is full.  The main loop takes one     *)
(* byte, then one event.                                                   *)
(*                                                                         *)
(* Of the rest of the main loop only what TCP depends on is here: that it  *)
(* may call the application for a key or a timer, that an Exit effect and a*)
(* failed poll() end it, and in which order poll()'s results are looked at.*)
(***************************************************************************)
EXTENDS Naturals, Sequences, FiniteSets

CONSTANTS
  MaxConns,     \* bound: connections the listener accepts in a run
  MaxBytes,     \* bound: bytes one peer sends in a run
  MaxEffects,   \* bound: effects one update returns
  BufSize,      \* bytes a reader thread takes with one read() (4096)
  PipeCap,      \* bytes the notification pipe holds (64 KiB on Linux)
  SendCap,      \* writes a socket takes before write_all() blocks
  SubsChoices   \* the subscriptions the application may ask for

Subscriptions == [accept : BOOLEAN, connect : BOOLEAN, receive : BOOLEAN]

ASSUME ConstantsAssumption ==
  /\ MaxConns \in Nat \ {0}
  /\ MaxBytes \in Nat
  /\ MaxEffects \in Nat
  /\ BufSize \in Nat \ {0}
  /\ PipeCap \in Nat \ {0}
  /\ SendCap \in Nat \ {0}
  /\ SubsChoices \subseteq Subscriptions

Ids == 0 .. MaxConns - 1

(* TcpEvent.  lo..hi are the positions of the bytes of a Data event in the *)
(* peer's stream; the other events carry none.                             *)
TcpEvent ==
  [kind : {"Connected", "Disconnected", "Data"}, id : Ids, lo : Nat, hi : Nat]

Connected(id)    == [kind |-> "Connected",    id |-> id, lo |-> 1, hi |-> 0]
Disconnected(id) == [kind |-> "Disconnected", id |-> id, lo |-> 1, hi |-> 0]
Data(id, lo, hi) == [kind |-> "Data",         id |-> id, lo |-> lo, hi |-> hi]

(* The effects that matter here.                                           *)
TcpSend(id) == [tag |-> "TcpSend", stream |-> id]
Exit == [tag |-> "Exit", stream |-> 0]
Effect == {TcpSend(id) : id \in Ids} \cup {Exit}
EffectLists == UNION {[1 .. n -> Effect] : n \in 0 .. MaxEffects}

VARIABLES
  \* The main thread.
  pc,         \* what the main thread is about to do
  subs,       \* current_subs, as far as TCP reads it
  tcp,        \* which of the two modes TcpState is in, "none" for None
  effects,    \* the effects still to be handled
  writers,    \* the ids TcpState.writers holds a handle for
  seen,       \* history: what the main loop has handled of each stream
  got,        \* history: the last byte of each stream it has handled
  \* Shared by the threads.
  events,     \* the channel
  pipe,       \* the bytes in the notification pipe
  \* The listener thread and the reader threads.
  listener, next_id,
  reader,     \* what the reader thread of each connection is about to do
  buf,        \* how many bytes it has read and not sent yet
  taken,      \* how many bytes of the stream it has sent to the channel
  \* The network.
  peer,       \* what the other end of each connection has done
  sent,       \* how many bytes it has sent
  unread      \* how many writes of ours it has not read

mainVars   == <<pc, subs, tcp, effects, writers, seen, got>>
threadVars == <<listener, next_id, reader, buf, taken>>
netVars    == <<peer, sent, unread>>
vars       == <<mainVars, events, pipe, threadVars, netVars>>

(* Type invariant.  In particular the pipe never holds more bytes than it  *)
(* can: every write to it waits for room.                                  *)
TypeOK ==
  /\ pc \in {"init", "effects", "wait", "recv", "update", "exited"}
  /\ subs \in SubsChoices
  /\ tcp \in {"none", "server", "client"}
  /\ effects \in Seq(Effect)
  /\ writers \subseteq Ids
  /\ seen \in [Ids -> {"unknown", "connected", "gone"}]
  /\ got \in [Ids -> Nat]
  /\ events \in Seq(TcpEvent)
  /\ pipe \in 0 .. PipeCap
  /\ listener \in {"none", "accept", "send", "notify", "spawn"}
  /\ next_id \in 0 .. MaxConns
  /\ reader \in [Ids -> {"none", "read", "sendData", "notifyData",
                         "sendEnd", "notifyEnd", "done"}]
  /\ buf \in [Ids -> 0 .. BufSize]
  /\ taken \in [Ids -> Nat]
  /\ peer \in [Ids -> {"none", "open", "closed", "reset"}]
  /\ sent \in [Ids -> 0 .. MaxBytes]
  /\ unread \in [Ids -> 0 .. SendCap]

Init ==
  /\ pc = "init" /\ subs \in SubsChoices /\ tcp = "none"
  /\ effects \in EffectLists
  /\ writers = {}
  /\ seen = [id \in Ids |-> "unknown"]
  /\ got = [id \in Ids |-> 0]
  /\ events = <<>> /\ pipe = 0
  /\ listener = "none" /\ next_id = 0
  /\ reader = [id \in Ids |-> "none"]
  /\ buf = [id \in Ids |-> 0]
  /\ taken = [id \in Ids |-> 0]
  /\ peer = [id \in Ids |-> "none"]
  /\ sent = [id \in Ids |-> 0]
  /\ unread = [id \in Ids |-> 0]

-----------------------------------------------------------------------------
(* Starting TCP, once, from the subscriptions that init returned.          *)

(* bind() succeeds: the listener thread runs.                              *)
StartServer ==
  /\ pc = "init" /\ subs.accept
  /\ tcp' = "server" /\ listener' = "accept" /\ pc' = "effects"
  /\ UNCHANGED <<subs, effects, writers, seen, got, events, pipe,
                 next_id, reader, buf, taken, netVars>>

(* connect() succeeds.  The main thread itself sends Connected and notifies*)
(* before it spawns the only reader thread, so no other thread of ours runs*)
(* in between.                                                             *)
StartClient ==
  /\ pc = "init" /\ ~subs.accept /\ subs.connect
  /\ tcp' = "client" /\ pc' = "effects"
  /\ events' = Append(events, Connected(0)) /\ pipe' = pipe + 1
  /\ reader' = [reader EXCEPT ![0] = "read"]
  /\ peer' = [peer EXCEPT ![0] = "open"]
  /\ UNCHANGED <<subs, effects, writers, seen, got, listener, next_id,
                 buf, taken, sent, unread>>

(* No TCP subscription, or pipe(), bind(), connect() or try_clone() failed.*)
(* A server that cannot bind is not retried as a client.                   *)
StartNothing ==
  /\ pc = "init"
  /\ pc' = "effects"
  /\ UNCHANGED <<subs, tcp, effects, writers, seen, got, events, pipe,
                 threadVars, netVars>>

init_tcp_from_subs == StartServer \/ StartClient \/ StartNothing

-----------------------------------------------------------------------------
(* The listener thread.                                                    *)

(* Mutant of Accept: the reader thread starts before Connected is sent.    *)
AcceptSpawnsFirst ==
  /\ listener = "accept" /\ next_id < MaxConns
  /\ peer' = [peer EXCEPT ![next_id] = "open"]
  /\ reader' = [reader EXCEPT ![next_id] = "read"]
  /\ next_id' = next_id + 1
  /\ listener' = "send"
  /\ UNCHANGED <<mainVars, events, pipe, buf, taken, sent, unread>>

(* accept() and try_clone() succeed.  The connection's id is next_id - 1   *)
(* from here to ListenerSpawn.                                             *)
Accept ==
  /\ listener = "accept" /\ next_id < MaxConns
  /\ peer' = [peer EXCEPT ![next_id] = "open"]
  /\ next_id' = next_id + 1
  /\ listener' = "send"
  /\ UNCHANGED <<mainVars, events, pipe, reader, buf, taken, sent, unread>>

(* accept() succeeds and try_clone() fails: the id is used up and the      *)
(* connection dropped.                                                     *)
AcceptCloneFails ==
  /\ listener = "accept" /\ next_id < MaxConns
  /\ next_id' = next_id + 1
  /\ UNCHANGED <<mainVars, events, pipe, listener, reader, buf, taken, netVars>>

ListenerSend ==
  /\ listener = "send"
  /\ events' = Append(events, Connected(next_id - 1))
  /\ listener' = "notify"
  /\ UNCHANGED <<mainVars, pipe, next_id, reader, buf, taken, netVars>>

(* Mutant of ListenerNotify: no waiting for room in the pipe.              *)
ListenerNotifyOverfull ==
  /\ listener = "notify"
  /\ pipe' = pipe + 1
  /\ listener' = "spawn"
  /\ UNCHANGED <<mainVars, events, next_id, reader, buf, taken, netVars>>

ListenerNotify ==
  /\ listener = "notify" /\ pipe < PipeCap
  /\ pipe' = pipe + 1
  /\ listener' = "spawn"
  /\ UNCHANGED <<mainVars, events, next_id, reader, buf, taken, netVars>>

ListenerSpawn ==
  /\ listener = "spawn"
  /\ reader' = [reader EXCEPT ![next_id - 1] = "read"]
  /\ listener' = "accept"
  /\ UNCHANGED <<mainVars, events, pipe, next_id, buf, taken, netVars>>

(* The listener, once a connection is accepted.                            *)
Announce == ListenerSend \/ ListenerNotify \/ ListenerSpawn

Listener == Accept \/ AcceptCloneFails \/ Announce

-----------------------------------------------------------------------------
(* The reader thread of connection id (the same loop in both modes).       *)

(* read() returns Ok(n): any n bytes that have arrived, up to the buffer.  *)
ReadData(id) ==
  /\ reader[id] = "read"
  /\ \E n \in 1 .. BufSize :
        /\ taken[id] + n <= sent[id]
        /\ buf' = [buf EXCEPT ![id] = n]
  /\ reader' = [reader EXCEPT ![id] = "sendData"]
  /\ UNCHANGED <<mainVars, events, pipe, listener, next_id, taken, netVars>>

(* Mutant of ReadEnd: a read error ends the thread without a report.       *)
ReadEndSilent(id) ==
  /\ reader[id] = "read"
  /\ \/ /\ peer[id] = "closed" /\ taken[id] = sent[id]
        /\ reader' = [reader EXCEPT ![id] = "sendEnd"]
     \/ peer[id] = "reset" /\ reader' = [reader EXCEPT ![id] = "done"]
  /\ UNCHANGED <<mainVars, events, pipe, listener, next_id, buf, taken, netVars>>

(* read() returns Ok(0), which it does after the last byte, or Err, which  *)
(* a reset causes whatever was left to read.                               *)
ReadEnd(id) ==
  /\ reader[id] = "read"
  /\ \/ peer[id] = "closed" /\ taken[id] = sent[id]
     \/ peer[id] = "reset"
  /\ reader' = [reader EXCEPT ![id] = "sendEnd"]
  /\ UNCHANGED <<mainVars, events, pipe, listener, next_id, buf, taken, netVars>>

(* Mutant of SendData: the whole buffer is sent, not its first n bytes.    *)
SendWholeBuffer(id) ==
  /\ reader[id] = "sendData"
  /\ events' = Append(events, Data(id, taken[id] + 1, taken[id] + BufSize))
  /\ taken' = [taken EXCEPT ![id] = @ + buf[id]]
  /\ buf' = [buf EXCEPT ![id] = 0]
  /\ reader' = [reader EXCEPT ![id] = "notifyData"]
  /\ UNCHANGED <<mainVars, pipe, listener, next_id, netVars>>

SendData(id) ==
  /\ reader[id] = "sendData"
  /\ events' = Append(events, Data(id, taken[id] + 1, taken[id] + buf[id]))
  /\ taken' = [taken EXCEPT ![id] = @ + buf[id]]
  /\ buf' = [buf EXCEPT ![id] = 0]
  /\ reader' = [reader EXCEPT ![id] = "notifyData"]
  /\ UNCHANGED <<mainVars, pipe, listener, next_id, netVars>>

(* Mutant of SendEnd: the thread ends without writing its byte.            *)
SendEndUnnotified(id) ==
  /\ reader[id] = "sendEnd"
  /\ events' = Append(events, Disconnected(id))
  /\ reader' = [reader EXCEPT ![id] = "done"]
  /\ UNCHANGED <<mainVars, pipe, listener, next_id, buf, taken, netVars>>

SendEnd(id) ==
  /\ reader[id] = "sendEnd"
  /\ events' = Append(events, Disconnected(id))
  /\ reader' = [reader EXCEPT ![id] = "notifyEnd"]
  /\ UNCHANGED <<mainVars, pipe, listener, next_id, buf, taken, netVars>>

(* Mutants of ReaderNotify: the loop goes on after the end of the stream;  *)
(* the byte is dropped when the pipe is full.                              *)
NotifyWithoutBreak(id) ==
  /\ pipe < PipeCap
  /\ pipe' = pipe + 1
  /\ reader[id] \in {"notifyData", "notifyEnd"}
  /\ reader' = [reader EXCEPT ![id] = "read"]
  /\ UNCHANGED <<mainVars, events, listener, next_id, buf, taken, netVars>>

NotifyNonblocking(id) ==
  /\ pipe' = IF pipe < PipeCap THEN pipe + 1 ELSE pipe
  /\ \/ reader[id] = "notifyData" /\ reader' = [reader EXCEPT ![id] = "read"]
     \/ reader[id] = "notifyEnd"  /\ reader' = [reader EXCEPT ![id] = "done"]
  /\ UNCHANGED <<mainVars, events, listener, next_id, buf, taken, netVars>>

ReaderNotify(id) ==
  /\ pipe < PipeCap
  /\ pipe' = pipe + 1
  /\ \/ reader[id] = "notifyData" /\ reader' = [reader EXCEPT ![id] = "read"]
     \/ reader[id] = "notifyEnd"  /\ reader' = [reader EXCEPT ![id] = "done"]
  /\ UNCHANGED <<mainVars, events, listener, next_id, buf, taken, netVars>>

Reader(id) == \/ ReadData(id) \/ ReadEnd(id)
              \/ SendData(id) \/ SendEnd(id) \/ ReaderNotify(id)

-----------------------------------------------------------------------------
(* The main thread: wait_for_next_event's TCP branch.                      *)

(* poll() reports the pipe readable and one byte is read from it.          *)
DrainByte ==
  /\ pc = "wait" /\ tcp # "none" /\ pipe > 0
  /\ pipe' = pipe - 1
  /\ pc' = "recv"
  /\ UNCHANGED <<subs, tcp, effects, writers, seen, got, events, threadVars,
                 netVars>>

(* An event the application is not subscribed to is dropped, and the loop  *)
(* polls again.                                                            *)
AfterEvent(subscribed) == pc' = IF subscribed THEN "update" ELSE "wait"

OnConnected(id) ==
  /\ writers' = writers \cup {id}
  /\ seen' = [seen EXCEPT ![id] = "connected"]
  /\ AfterEvent(subs.accept \/ subs.connect)
  /\ UNCHANGED got

(* Mutant of OnDisconnected: the handle is not removed.                    *)
DisconnectKeepsWriter(id) ==
  /\ seen' = [seen EXCEPT ![id] = "gone"]
  /\ AfterEvent(subs.accept \/ subs.connect)
  /\ UNCHANGED <<got, writers>>

OnDisconnected(id) ==
  /\ writers' = writers \ {id}
  /\ seen' = [seen EXCEPT ![id] = "gone"]
  /\ AfterEvent(subs.accept \/ subs.connect)
  /\ UNCHANGED got

OnData(id, hi) ==
  /\ got' = [got EXCEPT ![id] = hi]
  /\ AfterEvent(subs.receive)
  /\ UNCHANGED <<writers, seen>>

(* try_recv() takes one event, if there is one.                            *)
TryRecv ==
  /\ pc = "recv"
  /\ IF events = <<>>
     THEN /\ pc' = "wait"
          /\ UNCHANGED <<events, writers, seen, got>>
     ELSE LET ev == Head(events) IN
          /\ events' = Tail(events)
          /\ \/ ev.kind = "Connected"    /\ OnConnected(ev.id)
             \/ ev.kind = "Disconnected" /\ OnDisconnected(ev.id)
             \/ ev.kind = "Data"         /\ OnData(ev.id, ev.hi)
  /\ UNCHANGED <<subs, tcp, effects, pipe, threadVars, netVars>>

(* poll() reports stdin readable and the pipe not: the pipe comes first.   *)
StdinEvent ==
  /\ pc = "wait" /\ pipe = 0
  /\ pc' = "update"
  /\ UNCHANGED <<subs, tcp, effects, writers, seen, got, events, pipe,
                 threadVars, netVars>>

(* A timer that is due is looked at before poll(), whatever is pending.    *)
TimerEvent ==
  /\ pc = "wait"
  /\ pc' = "update"
  /\ UNCHANGED <<subs, tcp, effects, writers, seen, got, events, pipe,
                 threadVars, netVars>>

(* Nothing is subscribed to and TCP never started, or poll() failed.       *)
WaitReturnsNone ==
  /\ pc = "wait"
  /\ pc' = "exited"
  /\ UNCHANGED <<subs, tcp, effects, writers, seen, got, events, pipe,
                 threadVars, netVars>>

-----------------------------------------------------------------------------
(* The main thread: roc_update and handle_effects.                         *)

(* The application may send to any id: TcpStream.new is exported.          *)
Update ==
  /\ pc = "update"
  /\ pc' = "effects"
  /\ subs' \in SubsChoices
  /\ effects' \in EffectLists
  /\ UNCHANGED <<tcp, writers, seen, got, events, pipe, threadVars, netVars>>

NextEffect(tag) ==
  /\ pc = "effects" /\ effects # <<>>
  /\ Head(effects).tag = tag
  /\ effects' = Tail(effects)

(* No TCP, or no writer under that id: the data is dropped.                *)
SendDropped ==
  /\ NextEffect("TcpSend")
  /\ Head(effects).stream \notin writers
  /\ UNCHANGED <<pc, subs, tcp, writers, seen, got, events, pipe, threadVars,
                 netVars>>

(* write_all() succeeds; it blocks the main thread while the socket is     *)
(* full.                                                                   *)
SendWritten ==
  /\ NextEffect("TcpSend")
  /\ LET id == Head(effects).stream IN
       /\ id \in writers
       /\ peer[id] # "reset" /\ unread[id] < SendCap
       /\ unread' = [unread EXCEPT ![id] = @ + 1]
  /\ UNCHANGED <<pc, subs, tcp, writers, seen, got, events, pipe, threadVars,
                 peer, sent>>

(* write_all() fails: the writer is removed at once.                       *)
SendFails ==
  /\ NextEffect("TcpSend")
  /\ LET id == Head(effects).stream IN
       /\ id \in writers
       /\ peer[id] = "reset"
       /\ writers' = writers \ {id}
  /\ UNCHANGED <<pc, subs, tcp, seen, got, events, pipe, threadVars, netVars>>

(* The effects after Exit are not handled.                                 *)
ExitEffect ==
  /\ NextEffect("Exit")
  /\ pc' = "exited"
  /\ UNCHANGED <<subs, tcp, writers, seen, got, events, pipe, threadVars,
                 netVars>>

EffectsDone ==
  /\ pc = "effects" /\ effects = <<>>
  /\ pc' = "wait"
  /\ UNCHANGED <<subs, tcp, effects, writers, seen, got, events, pipe,
                 threadVars, netVars>>

handle_effects == SendDropped \/ SendWritten \/ SendFails \/ ExitEffect
                    \/ EffectsDone

(* What the main thread does of its own accord.                            *)
Main == init_tcp_from_subs \/ DrainByte \/ TryRecv \/ Update \/ handle_effects

(* What it does when something other than TCP wakes it.                    *)
OtherWakeup == StdinEvent \/ TimerEvent \/ WaitReturnsNone

-----------------------------------------------------------------------------
(* The peers and the network.                                              *)

PeerSend(id) ==
  /\ peer[id] = "open" /\ sent[id] < MaxBytes
  /\ sent' = [sent EXCEPT ![id] = @ + 1]
  /\ UNCHANGED <<mainVars, events, pipe, threadVars, peer, unread>>

(* The peer has sent its last byte; it may go on reading.                  *)
PeerClose(id) ==
  /\ peer[id] = "open"
  /\ peer' = [peer EXCEPT ![id] = "closed"]
  /\ UNCHANGED <<mainVars, events, pipe, threadVars, sent, unread>>

PeerReset(id) ==
  /\ peer[id] \in {"open", "closed"}
  /\ peer' = [peer EXCEPT ![id] = "reset"]
  /\ unread' = [unread EXCEPT ![id] = 0]
  /\ UNCHANGED <<mainVars, events, pipe, threadVars, sent>>

PeerRead(id) ==
  /\ unread[id] > 0
  /\ unread' = [unread EXCEPT ![id] = @ - 1]
  /\ UNCHANGED <<mainVars, events, pipe, threadVars, peer, sent>>

Network(id) == PeerSend(id) \/ PeerClose(id) \/ PeerReset(id) \/ PeerRead(id)

-----------------------------------------------------------------------------
(* rust_main has returned; the threads live until the process is gone.      *)
Exited == pc = "exited" /\ UNCHANGED vars

Next ==
  \/ Main
  \/ OtherWakeup
  \/ Listener
  \/ \E id \in Ids : Reader(id) \/ Network(id)
  \/ Exited

Spec == Init /\ [][Next]_vars

-----------------------------------------------------------------------------
(* Properties.                                                             *)

Count(condition) == IF condition THEN 1 ELSE 0

(* The readers that have sent an event and not yet written its byte.       *)
Notifiers == {id \in Ids : reader[id] \in {"notifyData", "notifyEnd"}}

(* "One event was queued per byte" (the comment on the read from the pipe):*)
(* whatever the interleaving of sends, notifications and receives, each    *)
(* event in the channel has its byte in the pipe, in the hands of the      *)
(* thread about to write it, or just taken by the main loop.  So a byte    *)
(* always finds an event, and no event waits without a wakeup.             *)
NotifyAccounting ==
  Len(events) = pipe + Cardinality(Notifiers) + Count(listener = "notify")
                     + Count(pc = "recv")

(* Is there an event of this stream in q, and one of this kind?            *)
Mentions(q, id) == \E i \in 1 .. Len(q) : q[i].id = id

Has(q, id, kind) ==
  \E i \in 1 .. Len(q) : q[i].id = id /\ q[i].kind = kind

ConnectedFirst(q, known) ==
  \A i \in 1 .. Len(q) :
    /\ q[i].kind = "Connected" =>
         /\ known[q[i].id] = "unknown"
         /\ \A j \in 1 .. i - 1 : q[j].id # q[i].id
    /\ q[i].kind # "Connected" =>
         \/ known[q[i].id] = "connected"
         \/ \E j \in 1 .. i - 1 : q[j].id = q[i].id /\ q[j].kind = "Connected"

NothingAfterDisconnected(q, known) ==
  \A i \in 1 .. Len(q) :
    q[i].kind = "Disconnected" =>
      /\ known[q[i].id] # "gone"
      /\ \A j \in i + 1 .. Len(q) : q[j].id # q[i].id

(* Of one stream, the channel holds Connected before anything else and     *)
(* nothing after Disconnected, each at most once and only when it is news  *)
(* to the main loop.                                                       *)
ChannelOrder ==
  ConnectedFirst(events, seen) /\ NothingAfterDisconnected(events, seen)

(* How far the threads have got, which is what the order of the events     *)
(* comes from.                                                             *)

(* Before TCP is started there is nothing.                                 *)
NothingBeforeStart ==
  pc = "init" => /\ pipe = 0 /\ events = <<>> /\ listener = "none"
                 /\ \A id \in Ids : /\ seen[id] = "unknown"
                                    /\ reader[id] = "none"

(* The listener has an id at hand while it announces a connection,         *)
ListenerHasId == listener \in {"send", "notify", "spawn"} => next_id > 0

(* and the reader of that connection does not run yet.                     *)
ReaderNotSpawned ==
  listener \in {"send", "notify", "spawn"} => reader[next_id - 1] = "none"

(* Nothing is known of an id before its Connected event is sent.           *)
NothingBeforeSend ==
  \A id \in Ids :
    listener # "none" /\ (id >= next_id \/ (id = next_id - 1 /\ listener = "send"))
      => /\ seen[id] = "unknown" /\ reader[id] = "none"
         /\ ~Mentions(events, id)

(* A connection is announced before its reader runs, and its end is        *)
(* announced by the last thing its reader does.                            *)
ReaderAfterConnected ==
  \A id \in Ids :
    (reader[id] # "none" \/ (id = next_id - 1 /\ listener \in {"notify", "spawn"}))
      => seen[id] # "unknown" \/ Has(events, id, "Connected")

EndAfterReader ==
  \A id \in Ids :
    reader[id] \notin {"notifyEnd", "done"} =>
      seen[id] # "gone" /\ ~Has(events, id, "Disconnected")

ThreadOrder ==
  /\ NothingBeforeStart
  /\ ListenerHasId
  /\ ReaderNotSpawned
  /\ NothingBeforeSend
  /\ ReaderAfterConnected
  /\ EndAfterReader

(* The Data events of stream id in q carry its bytes from + 1 .. to, all of*)
(* them, once each and in order.                                           *)
IsData(ev, id) == ev.kind = "Data" /\ ev.id = id

Carries(q, id, from, to) ==
  /\ from <= to
  /\ from = to \/ \E i \in 1 .. Len(q) : IsData(q[i], id) /\ q[i].hi = to
  /\ \A i \in 1 .. Len(q) : IsData(q[i], id) =>
       /\ from < q[i].lo /\ q[i].lo <= q[i].hi /\ q[i].hi <= to
       /\ \/ q[i].lo = from + 1
          \/ \E j \in 1 .. i - 1 : IsData(q[j], id) /\ q[i].lo = q[j].hi + 1
       /\ \A j \in 1 .. i - 1 : IsData(q[j], id) => q[j].hi < q[i].lo

(* The bytes between the main loop and the reader thread are in the        *)
(* channel, and those between it and the peer still in the socket.         *)
BytesInFlight ==
  \A id \in Ids :
    /\ Carries(events, id, got[id], taken[id])
    /\ taken[id] + buf[id] <= sent[id]
    /\ reader[id] = "sendData" => buf[id] > 0

(* The main loop takes the bytes of a stream from the first on, with no gap*)
(* and no repetition (and hands them to an application that is subscribed  *)
(* to receive).                                                            *)
BytesInOrder ==
  [][\A id \in Ids :
       got'[id] # got[id] => /\ Head(events).lo = got[id] + 1
                             /\ got'[id] = Head(events).hi
                             /\ got'[id] > got[id]]_vars

(* The handle of a stream is kept from its Connected event to its          *)
(* Disconnected event at most: the host holds no socket of a stream whose  *)
(* end it has reported, and a reader that has ended has reported it.       *)
HandlesReclaimed ==
  /\ \A id \in writers : seen[id] = "connected"
  /\ \A id \in Ids :
       reader[id] \in {"notifyEnd", "done"} =>
         \/ seen[id] = "gone" /\ id \notin writers
         \/ Has(events, id, "Disconnected")

(* The refinement: what the main loop has handled of each stream, and which*)
(* streams it can write to, behave as StreamProtocol says.                 *)
Protocol == INSTANCE StreamProtocol WITH
  Streams <- Ids, phase <- seen, received <- got, writable <- writers

ImplementsProtocol == Protocol!Spec

-----------------------------------------------------------------------------
(* Liveness.                                                               *)

(* Threads that can run are scheduled.  The main loop is not kept from the *)
(* pipe for ever by a timer that is due at every poll (SF: DrainByte is    *)
(* disabled each time the main loop is busy with something else).  Nothing *)
(* is assumed of keys, timers, new connections or peers.                   *)
HostFairness ==
  /\ WF_vars(Main)
  /\ SF_vars(DrainByte)
  /\ WF_vars(Announce)
  /\ \A id \in Ids : WF_vars(Reader(id))

HostSpec == Spec /\ HostFairness

(* Peers that read what is sent to them, until they reset the connection.  *)
FairSpec == HostSpec /\ \A id \in Ids : WF_vars(PeerRead(id))

(* The end of a stream reaches the main loop, however it came about and    *)
(* even when the pipe is full and every thread waits for room in it.       *)
DisconnectReported ==
  \A id \in Ids :
    peer[id] \in {"closed", "reset"} ~> (seen[id] = "gone" \/ pc = "exited")

(* A peer that closes its stream in the usual way loses nothing of it.     *)
AllBytesDelivered ==
  \A id \in Ids :
    peer[id] = "closed" ~>
      (got[id] = sent[id] \/ peer[id] = "reset" \/ pc = "exited")

(* "The reader thread will also send a Disconnected event": after a failed *)
(* write the application hears of the end of the stream.                   *)
SendErrorReported ==
  \A id \in Ids :
    (seen[id] = "connected" /\ id \notin writers) ~>
      (seen[id] = "gone" \/ pc = "exited")

(* "TCP connect, read, and write operations require a caller-configured    *)
(* timeout covering the whole operation" (README.md): a write ends, even   *)
(* when the peer reads nothing.                                            *)
WriteReturns == pc = "effects" ~> pc # "effects"

=============================================================================
