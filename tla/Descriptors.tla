----------------------------- MODULE Descriptors -----------------------------
(***************************************************************************)
(* The life of the process and its file descriptors (src/src/lib.rs): how  *)
(* TCP is started and fails to start, which thread or value holds the      *)
(* descriptors of a connection, and how rust_main returns, which drops the *)
(* TcpState, while listener and reader threads still run.                  *)
(*                                                                         *)
(* The operating system gives out the lowest number that is free and       *)
(* refuses when all are taken.  The threads hold the write end of the pipe *)
(* as a number: pipe_notify writes to whatever that number then refers to. *)
(*                                                                         *)
(* Reading and sending an event on the channel is one step here, draining a*)
(* byte and receiving an event another; TcpTransport has them apart.       *)
(***************************************************************************)
EXTENDS Naturals, Sequences, FiniteSets

CONSTANTS
  MaxFds,     \* the descriptors the process may have open, besides the standard ones
  MaxInherited, \* bound: those the process is started with
  MaxConns,   \* bound: connections made to the server in a run
  MaxReads,   \* bound: times one peer sends data
  PipeCap     \* bytes the notification pipe holds

ASSUME ConstantsAssumption ==
  /\ MaxFds \in Nat /\ MaxInherited \in Nat /\ MaxInherited + 3 < MaxFds
  /\ MaxConns \in Nat \ {0} /\ MaxReads \in Nat
  /\ PipeCap \in Nat \ {0}

Ids == 0 .. MaxConns - 1
Fds == 1 .. MaxFds
NoFd == 0

Object(what, id) == [what |-> what, id |-> id]
Unused    == Object("unused", 0)
Inherited == Object("inherited", 0)
PipeRead  == Object("pipeRead", 0)
PipeWrite == Object("pipeWrite", 0)
Listening == Object("listening", 0)
Conn(id)  == Object("conn", id)

Objects ==
  {Unused, Inherited, PipeRead, PipeWrite, Listening} \cup {Conn(id) : id \in Ids}

(* TcpEvent; Connected carries the writer.                                 *)
TcpEvents ==
  [kind : {"Connected", "Data", "Disconnected"}, id : Ids, fd : Fds \cup {NoFd}]

Event(kind, id, fd) == [kind |-> kind, id |-> id, fd |-> fd]

VARIABLES
  \* The operating system.
  table,      \* what each descriptor refers to
  pipe,       \* the bytes in the notification pipe
  backlog,    \* connections that wait to be accepted
  peer,       \* what the other end of each connection has done
  unread,     \* how often data has arrived that is not read yet
  \* The main thread.
  pc,         \* where rust_main is
  tcp,        \* notify_rx and notify_tx of the TcpState; NoFd for None
  writers,    \* TcpState.writers
  status,     \* how the process ended
  heard,      \* history: the connections the main loop was told of
  stray,      \* history: the connections a notification was written to
  \* The other threads.
  events,     \* the channel
  next_id,
  listener,   \* where the listener is, and the two handles it holds
  reader      \* where each reader is, and its handle

osVars     == <<table, pipe, backlog, peer, unread>>
mainVars   == <<pc, tcp, writers, status, heard, stray>>
threadVars == <<events, next_id, listener, reader>>
vars       == <<osVars, mainVars, threadVars>>

(* Type invariant.                                                         *)
TypeOK ==
  /\ table \in [Fds -> Objects]
  /\ pipe \in 0 .. PipeCap /\ backlog \in 0 .. MaxConns
  /\ peer \in [Ids -> {"none", "open", "closed"}]
  /\ unread \in [Ids -> 0 .. MaxReads]
  /\ pc \in {"start", "bind", "connect", "loop", "closeRx", "closeTx", "dropEvents",
             "dropWriters", "exit", "ended"}
  /\ tcp \in [rx : Fds \cup {NoFd}, tx : Fds \cup {NoFd}]
  /\ writers \in [Ids -> Fds \cup {NoFd}]
  /\ status \in {"running", "killed", "exited"}
  /\ heard \subseteq Ids /\ stray \subseteq Ids
  /\ events \in Seq(TcpEvents)
  /\ next_id \in 0 .. MaxConns
  /\ listener \in [at : {"none", "accept", "clone", "send", "notify", "spawn"},
                   stream : Fds \cup {NoFd}, writer : Fds \cup {NoFd}]
  /\ reader \in [Ids -> [at : {"none", "read", "notifyData", "notifyEnd", "close", "done"},
                         stream : Fds \cup {NoFd}]]

Init ==
  /\ \E inherited \in 0 .. MaxInherited :
       table = [n \in Fds |-> IF n <= inherited THEN Inherited ELSE Unused]
  /\ pipe = 0 /\ backlog = 0
  /\ peer = [id \in Ids |-> "none"]
  /\ unread \in [Ids -> 0 .. MaxReads]
  /\ pc = "start" /\ tcp = [rx |-> NoFd, tx |-> NoFd]
  /\ writers = [id \in Ids |-> NoFd]
  /\ status = "running" /\ heard = {} /\ stray = {}
  /\ events = <<>> /\ next_id = 0
  /\ listener = [at |-> "none", stream |-> NoFd, writer |-> NoFd]
  /\ reader = [id \in Ids |-> [at |-> "none", stream |-> NoFd]]

Running == pc # "ended"

UnusedFds == {n \in Fds : table[n] = Unused}

(* The next descriptor, or the next two, to be given out.                  *)
IsNext(n) == n \in UnusedFds /\ \A k \in UnusedFds : n <= k

AreNext(n, m) ==
  IsNext(n) /\ m \in UnusedFds \ {n} /\ \A k \in UnusedFds \ {n} : m <= k

Closed(t, n) == IF n = NoFd THEN t ELSE [t EXCEPT ![n] = Unused]

PipeHasReader == \E n \in Fds : table[n] = PipeRead

-----------------------------------------------------------------------------
(* Starting TCP.                                                           *)

(* No TCP subscription, or pipe() fails.                                   *)
StartNothing ==
  /\ pc = "start" /\ pc' = "loop"
  /\ UNCHANGED <<osVars, tcp, writers, status, heard, stray, threadVars>>

(* pipe(), by start_tcp_server or start_tcp_client.                        *)
OpenPipe ==
  /\ pc = "start"
  /\ pc' \in {"bind", "connect"}
  /\ \E n, m \in Fds :
       /\ AreNext(n, m)
       /\ table' = [table EXCEPT ![n] = PipeRead, ![m] = PipeWrite]
       /\ tcp' = [rx |-> n, tx |-> m]
  /\ UNCHANGED <<pipe, backlog, peer, unread, writers, status, heard, stray, threadVars>>

(* Mutant of Bind: the write end is closed when start_tcp_server returns.  *)
BindClosesTx ==
  /\ pc = "bind" /\ pc' = "loop"
  /\ \E n \in Fds :
       IsNext(n) /\ table' = [table EXCEPT ![n] = Listening, ![tcp.tx] = Unused]
  /\ listener' = [listener EXCEPT !.at = "accept"]
  /\ UNCHANGED <<pipe, backlog, peer, unread, tcp, writers, status, heard, stray,
                 events, next_id, reader>>

Bind ==
  /\ pc = "bind" /\ pc' = "loop"
  /\ \E n \in Fds : IsNext(n) /\ table' = [table EXCEPT ![n] = Listening]
  /\ listener' = [listener EXCEPT !.at = "accept"]
  /\ UNCHANGED <<pipe, backlog, peer, unread, tcp, writers, status, heard, stray,
                 events, next_id, reader>>

(* connect(), the clone and the first notification of client mode.         *)
Connect ==
  /\ pc = "connect" /\ pc' = "loop"
  /\ \E n, m \in Fds :
       /\ AreNext(n, m)
       /\ table' = [table EXCEPT ![n] = Conn(0), ![m] = Conn(0)]
       /\ events' = <<Event("Connected", 0, m)>> /\ pipe' = 1
       /\ reader' = [reader EXCEPT ![0] = [at |-> "read", stream |-> n]]
  /\ peer' = [peer EXCEPT ![0] = "open"]
  /\ UNCHANGED <<backlog, unread, tcp, writers, status, heard, stray, next_id, listener>>

(* bind(), connect() or the clone fails: None, and no one closes the pipe. *)
StartFails ==
  /\ pc \in {"bind", "connect"} /\ pc' = "loop"
  /\ tcp' = [rx |-> NoFd, tx |-> NoFd]
  /\ UNCHANGED <<osVars, writers, status, heard, stray, threadVars>>

-----------------------------------------------------------------------------
(* What the threads do.                                                    *)

(* The receiver is gone once the TcpState is being dropped.                *)
ChannelOpen == pc \notin {"dropWriters", "exit", "ended"}

(* tx.send(): with no receiver the event is dropped, and the writer in it. *)
Sends(event) ==
  IF ChannelOpen
  THEN events' = Append(events, event) /\ UNCHANGED table
  ELSE table' = Closed(table, event.fd) /\ UNCHANGED events

Killed ==
  /\ pc' = "ended" /\ status' = "killed"
  /\ UNCHANGED <<osVars, tcp, writers, heard, stray, threadVars>>

(* The number the threads have captured; it outlives the TcpState.         *)
notify_tx == tcp.tx

(* Mutant of WritesToPipe: it does not wait for room.                      *)
WritesOverfull ==
  /\ table[notify_tx] = PipeWrite /\ PipeHasReader
  /\ pipe' = pipe + 1 /\ UNCHANGED stray

(* The ways for write() to return: a byte is in the pipe, in someone's     *)
(* connection, or nowhere.                                                 *)
WritesToPipe ==
  /\ table[notify_tx] = PipeWrite /\ PipeHasReader /\ pipe < PipeCap
  /\ pipe' = pipe + 1 /\ UNCHANGED stray

WritesToConnection ==
  /\ table[notify_tx].what = "conn"
  /\ stray' = stray \cup {table[notify_tx].id} /\ UNCHANGED pipe

WritesNowhere ==
  /\ table[notify_tx] = Unused /\ UNCHANGED <<pipe, stray>>

pipe_notify == WritesToPipe \/ WritesToConnection \/ WritesNowhere

(* Or not to return.  main() is not Rust's, so SIGPIPE is not ignored.     *)
NotifyIsKilled ==
  \/ table[notify_tx] = PipeWrite /\ ~PipeHasReader
  \/ table[notify_tx].what = "conn" /\ peer[table[notify_tx].id] = "closed"

Accept ==
  /\ Running /\ listener.at = "accept" /\ backlog > 0
  /\ backlog' = backlog - 1
  /\ next_id' = next_id + 1
  /\ \E n \in Fds :
       /\ IsNext(n)
       /\ table' = [table EXCEPT ![n] = Conn(next_id)]
       /\ listener' = [listener EXCEPT !.at = "clone", !.stream = n]
  /\ peer' = [peer EXCEPT ![next_id] = "open"]
  /\ UNCHANGED <<pipe, unread, mainVars, events, reader>>

Clone ==
  /\ Running /\ listener.at = "clone"
  /\ \E n \in Fds :
       /\ IsNext(n)
       /\ table' = [table EXCEPT ![n] = Conn(next_id - 1)]
       /\ listener' = [listener EXCEPT !.at = "send", !.writer = n]
  /\ UNCHANGED <<pipe, backlog, peer, unread, mainVars, events, next_id, reader>>

(* Mutant of CloneFails: the connection is not dropped.                    *)
CloneFailsHolding ==
  /\ Running /\ listener.at = "clone" /\ UnusedFds = {}
  /\ listener' = [listener EXCEPT !.at = "accept", !.stream = NoFd]
  /\ UNCHANGED <<osVars, mainVars, events, next_id, reader>>

(* At the limit a connection is accepted with the last descriptor, and     *)
(* dropped.                                                                *)
CloneFails ==
  /\ Running /\ listener.at = "clone" /\ UnusedFds = {}
  /\ table' = Closed(table, listener.stream)
  /\ listener' = [listener EXCEPT !.at = "accept", !.stream = NoFd]
  /\ UNCHANGED <<pipe, backlog, peer, unread, mainVars, events, next_id, reader>>

ListenerSend ==
  /\ Running /\ listener.at = "send"
  /\ Sends(Event("Connected", next_id - 1, listener.writer))
  /\ listener' = [listener EXCEPT !.at = "notify", !.writer = NoFd]
  /\ UNCHANGED <<pipe, backlog, peer, unread, mainVars, next_id, reader>>

ListenerNotify ==
  /\ Running /\ listener.at = "notify"
  /\ pipe_notify
  /\ listener' = [listener EXCEPT !.at = "spawn"]
  /\ UNCHANGED <<table, backlog, peer, unread, pc, tcp, writers, status, heard,
                 events, next_id, reader>>

ListenerSpawn ==
  /\ Running /\ listener.at = "spawn"
  /\ reader' = [reader EXCEPT ![next_id - 1] = [at |-> "read", stream |-> listener.stream]]
  /\ listener' = [listener EXCEPT !.at = "accept", !.stream = NoFd]
  /\ UNCHANGED <<osVars, mainVars, events, next_id>>

Listener == \/ Accept \/ Clone \/ CloneFails
            \/ ListenerSend \/ ListenerNotify \/ ListenerSpawn

ReadData(id) ==
  /\ Running /\ reader[id].at = "read" /\ unread[id] > 0
  /\ unread' = [unread EXCEPT ![id] = @ - 1]
  /\ Sends(Event("Data", id, NoFd))
  /\ reader' = [reader EXCEPT ![id].at = "notifyData"]
  /\ UNCHANGED <<pipe, backlog, peer, mainVars, next_id, listener>>

ReadEnd(id) ==
  /\ Running /\ reader[id].at = "read" /\ peer[id] = "closed"
  /\ Sends(Event("Disconnected", id, NoFd))
  /\ reader' = [reader EXCEPT ![id].at = "notifyEnd"]
  /\ UNCHANGED <<pipe, backlog, peer, unread, mainVars, next_id, listener>>

ReaderNotify(id) ==
  /\ Running /\ reader[id].at \in {"notifyData", "notifyEnd"}
  /\ pipe_notify
  /\ reader' = [reader EXCEPT ![id].at = IF @ = "notifyData" THEN "read" ELSE "close"]
  /\ UNCHANGED <<table, backlog, peer, unread, pc, tcp, writers, status, heard,
                 events, next_id, listener>>

(* Mutant of ReaderReturns: its handle stays open.                         *)
ReaderKeepsStream(id) ==
  /\ Running /\ reader[id].at = "close"
  /\ reader' = [reader EXCEPT ![id] = [at |-> "done", stream |-> NoFd]]
  /\ UNCHANGED <<osVars, mainVars, events, next_id, listener>>

(* The thread's closure is dropped.                                        *)
ReaderReturns(id) ==
  /\ Running /\ reader[id].at = "close"
  /\ table' = Closed(table, reader[id].stream)
  /\ reader' = [reader EXCEPT ![id] = [at |-> "done", stream |-> NoFd]]
  /\ UNCHANGED <<pipe, backlog, peer, unread, mainVars, events, next_id, listener>>

Notifying ==
  \/ listener.at = "notify"
  \/ \E id \in Ids : reader[id].at \in {"notifyData", "notifyEnd"}

ThreadKilled == Running /\ Notifying /\ NotifyIsKilled /\ Killed

Reader(id) == \/ ReadData(id) \/ ReadEnd(id)
              \/ ReaderNotify(id) \/ ReaderReturns(id)

-----------------------------------------------------------------------------
(* The main thread.                                                        *)

OnConnected(event) ==
  /\ writers' = [writers EXCEPT ![event.id] = event.fd]
  /\ heard' = heard \cup {event.id}
  /\ UNCHANGED table

OnDisconnected(event) ==
  /\ table' = Closed(table, writers[event.id])
  /\ writers' = [writers EXCEPT ![event.id] = NoFd]
  /\ UNCHANGED heard

(* Mutant of HandleEvent: what is left in the channel is handled at the end.*)
HandleLastEvents ==
  /\ pc \in {"loop", "dropEvents"} /\ events # <<>> /\ tcp.rx # NoFd
  /\ (pc = "loop" => pipe > 0)
  /\ pipe' = (IF pc = "loop" THEN pipe - 1 ELSE pipe) /\ events' = Tail(events)
  /\ LET event == Head(events)
     IN  \/ event.kind = "Connected" /\ OnConnected(event)
         \/ event.kind = "Disconnected" /\ OnDisconnected(event)
         \/ event.kind = "Data" /\ UNCHANGED <<table, writers, heard>>
  /\ UNCHANGED <<backlog, peer, unread, pc, tcp, status, stray, next_id, listener, reader>>

HandleEvent ==
  /\ pc = "loop" /\ tcp.rx # NoFd /\ pipe > 0 /\ events # <<>>
  /\ pipe' = pipe - 1 /\ events' = Tail(events)
  /\ LET event == Head(events)
     IN  \/ event.kind = "Connected" /\ OnConnected(event)
         \/ event.kind = "Disconnected" /\ OnDisconnected(event)
         \/ event.kind = "Data" /\ UNCHANGED <<table, writers, heard>>
  /\ UNCHANGED <<backlog, peer, unread, pc, tcp, status, stray, next_id, listener, reader>>

(* Mutant of SendFails: the descriptor is closed, the writer stays.        *)
SendFailsTwice(id) ==
  /\ pc = "loop" /\ peer[id] = "closed" /\ writers[id] # NoFd
  /\ table' = Closed(table, writers[id])
  /\ UNCHANGED <<pipe, backlog, peer, unread, pc, tcp, writers, status, heard, stray,
                 threadVars>>

(* TcpSend: write_all() fails.                                             *)
SendFails(id) ==
  /\ pc = "loop" /\ peer[id] = "closed" /\ writers[id] # NoFd
  /\ table' = Closed(table, writers[id])
  /\ writers' = [writers EXCEPT ![id] = NoFd]
  /\ UNCHANGED <<pipe, backlog, peer, unread, pc, tcp, status, heard, stray, threadVars>>

(* An Exit effect, or a wait that returns None.                            *)
Return ==
  /\ pc = "loop"
  /\ pc' = IF tcp.rx = NoFd THEN "exit" ELSE "closeRx"
  /\ UNCHANGED <<osVars, tcp, writers, status, heard, stray, threadVars>>

(* TcpState::drop closes one end of the pipe, then the other; then its     *)
(* fields are dropped, the events with their writers first.  A thread that *)
(* is blocked in write() when the read end is closed is killed whatever    *)
(* happens to the number.                                                  *)
CloseRx ==
  /\ pc = "closeRx"
  /\ \/ /\ pc' = "closeTx" /\ table' = Closed(table, tcp.rx)
        /\ UNCHANGED <<pipe, backlog, peer, unread, tcp, writers, status, heard, stray,
                       threadVars>>
     \/ Notifying /\ pipe = PipeCap /\ Killed

CloseTx ==
  /\ pc = "closeTx" /\ pc' = "dropEvents"
  /\ table' = Closed(table, tcp.tx)
  /\ UNCHANGED <<pipe, backlog, peer, unread, tcp, writers, status, heard, stray, threadVars>>

DropEvents ==
  /\ pc = "dropEvents" /\ pc' = "dropWriters"
  /\ LET dropped == {events[i].fd : i \in DOMAIN events}
     IN  table' = [n \in Fds |-> IF n \in dropped THEN Unused ELSE table[n]]
  /\ events' = <<>>
  /\ UNCHANGED <<pipe, backlog, peer, unread, tcp, writers, status, heard, stray,
                 next_id, listener, reader>>

DropWriters ==
  /\ pc = "dropWriters" /\ pc' = "exit"
  /\ LET dropped == {writers[id] : id \in Ids}
     IN  table' = [n \in Fds |-> IF n \in dropped THEN Unused ELSE table[n]]
  /\ writers' = [id \in Ids |-> NoFd]
  /\ UNCHANGED <<pipe, backlog, peer, unread, tcp, status, heard, stray, threadVars>>

(* main() returns: the process ends, and its threads with it.              *)
ProcessExits ==
  /\ pc = "exit" /\ pc' = "ended" /\ status' = "exited"
  /\ UNCHANGED <<osVars, tcp, writers, heard, stray, threadVars>>

Shutdown == CloseRx \/ CloseTx \/ DropEvents \/ DropWriters \/ ProcessExits

-----------------------------------------------------------------------------
(* The peers, and the specification.                                       *)

PeerConnects ==
  /\ listener.at # "none" /\ Running /\ next_id + backlog < MaxConns
  /\ backlog' = backlog + 1
  /\ UNCHANGED <<table, pipe, peer, unread, mainVars, threadVars>>

PeerCloses(id) ==
  /\ Running /\ peer[id] = "open"
  /\ peer' = [peer EXCEPT ![id] = "closed"]
  /\ UNCHANGED <<table, pipe, backlog, unread, mainVars, threadVars>>

Start == StartNothing \/ OpenPipe \/ Bind \/ Connect \/ StartFails

Ended == pc = "ended" /\ UNCHANGED vars

Next ==
  \/ Start \/ HandleEvent \/ Return \/ Shutdown \/ Listener \/ ThreadKilled
  \/ PeerConnects
  \/ \E id \in Ids : Reader(id) \/ SendFails(id) \/ PeerCloses(id)
  \/ Ended

Spec == Init /\ [][Next]_vars

(* The threads are scheduled, the main loop comes back to its events, and  *)
(* no peer stays for ever.                                                 *)
FairSpec ==
  /\ Spec
  /\ WF_vars(Start) /\ WF_vars(HandleEvent) /\ WF_vars(Shutdown)
  /\ WF_vars(Listener)
  /\ \A id \in Ids : WF_vars(Reader(id)) /\ WF_vars(PeerCloses(id))

-----------------------------------------------------------------------------
(* Properties.                                                             *)

(* Who holds which descriptor, and what for.                               *)
Handle(owner, fd, object) == [owner |-> owner, fd |-> fd, object |-> object]

PipeHandles ==
  IF tcp.rx = NoFd THEN {}
  ELSE {h \in {Handle("rx", tcp.rx, PipeRead), Handle("tx", tcp.tx, PipeWrite)} :
          \/ pc \in {"bind", "connect", "loop", "closeRx"}
          \/ pc = "closeTx" /\ h.owner = "tx"}

ThreadHandles ==
  {Handle("listener", listener.stream, Conn(next_id - 1)),
   Handle("clone", listener.writer, Conn(next_id - 1))}
  \cup {Handle("reader", reader[id].stream, Conn(id)) : id \in Ids}

EventHandles ==
  {Handle("event", events[i].fd, Conn(events[i].id)) : i \in DOMAIN events}

WriterHandles == {Handle("writers", writers[id], Conn(id)) : id \in Ids}

Handles ==
  PipeHandles
  \cup {h \in ThreadHandles \cup EventHandles \cup WriterHandles : h.fd # NoFd}

(* Every descriptor that is open is held by one value, which will close it,*)
(* and still refers to what the value takes it for; none is closed twice,  *)
(* and none is left behind but the listening socket and the pipe of a TCP  *)
(* start that failed.                                                      *)
HeldOnce ==
  pc # "ended" =>
    /\ \A h \in Handles : table[h.fd] = h.object
    /\ \A h, k \in Handles : h.fd = k.fd => h = k
    /\ \A n \in Fds : \/ table[n] \in {Unused, Inherited, Listening}
                      \/ (\E h \in Handles : h.fd = n)
                      \/ tcp.rx = NoFd /\ table[n] \in {PipeRead, PipeWrite}

(* As long as the main loop runs, a notification goes into the pipe: it    *)
(* kills no one and reaches no peer, whatever descriptors are closed and   *)
(* given out again in the meantime.                                        *)
LoopUndisturbed ==
  pc = "loop" => stray = {} /\ ~(Notifying /\ NotifyIsKilled)

(* At the end of the program a notification may be written into a          *)
(* connection, but never into one the application was told of.             *)
StraysUnheard == stray \cap heard = {}

(* Both descriptors of a connection that is over go back to the system, as *)
(* long as the main loop runs.                                             *)
DescriptorsReturned ==
  \A id \in Ids :
    peer[id] = "closed" ~> pc # "loop" \/ ~\E n \in Fds : table[n] = Conn(id)

(* Out of descriptors, the server takes new connections again once old ones*)
(* have ended.                                                             *)
BacklogServed == backlog > 0 ~> pc # "loop" \/ backlog = 0

=============================================================================
