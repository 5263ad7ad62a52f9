---------------------------- MODULE HostOwnership ----------------------------
(***************************************************************************)
(* Which references to the application's values the main loop              *)
(* (src/src/lib.rs) owns, gives away, releases and forgets.                *)
(*                                                                         *)
(* roc_init and roc_update return a model box, a list of effects and the   *)
(* closures of the subscriptions, and the host owns a reference to each;   *)
(* what it passes to roc_view, roc_update and make_event_from_... it gives *)
(* away.  Compiled Roc code is taken to count correctly.  The effects are  *)
(* TcpSends, whose data lists are what handle_effects releases.            *)
(***************************************************************************)
EXTENDS RocHeap

CONSTANTS
  MaxSends,       \* bound: effects in a list
  MaxKept,        \* bound: cells the application keeps from call to call
  KeepsEffects    \* may the application keep a list of effects it returns

ASSUME ConstantsAssumption ==
  MaxSends \in Nat /\ MaxKept \in Nat /\ KeepsEffects \in BOOLEAN

Sources == {"timer", "stdin", "accept_tcp_connection", "tcp_connect", "tcp_receive"}

TcpStarters == {"accept_tcp_connection", "tcp_connect"}

(* What each source carries: closures, and the event box of the timer.     *)
Closures ==
  (TcpStarters \X {"on_connected", "on_disconnected"})
    \cup {<<"tcp_receive", "on_data">>, <<"stdin", "on_input">>, <<"timer", "on_fire">>}

NoEvent == <<"none", "none">>

(* Connected, Disconnected and Data, by the closure they call for.         *)
TcpEvents == {"on_connected", "on_disconnected", "on_data"}

VARIABLES
  pc,
  heap,
  model,      \* current_model; its items are what the application keeps
  effects,    \* the list of effects, NoCell for the empty one
  next,       \* the effect that is handled next
  subs,       \* what current_subs subscribes to
  owned,      \* the host's references to the closures of current_subs
  event,      \* the closure the event box was made with
  tcp,        \* is there a TcpState
  lost        \* history: has a reference been forgotten

vars == <<pc, heap, model, effects, next, subs, owned, event, tcp, lost>>

TypeOK ==
  /\ pc \in {"start", "effects", "retain", "view", "wait", "tcp", "stdin", "update",
             "exited"}
  /\ heap \in [Cells -> Cell]
  /\ model \in Cells \cup {NoCell} /\ effects \in Cells \cup {NoCell}
  /\ next \in 1 .. MaxSends + 1
  /\ subs \subseteq Sources /\ owned \in [Closures -> Int]
  /\ event \in Closures \cup {NoEvent} /\ (event # NoEvent <=> pc = "update")
  /\ tcp \in BOOLEAN /\ lost \in BOOLEAN

Init ==
  /\ pc = "start"
  /\ heap = [c \in Cells |-> Free]
  /\ model = NoCell /\ effects = NoCell /\ next = 1
  /\ subs = {} /\ owned = [c \in Closures |-> 0] /\ event = NoEvent
  /\ tcp = FALSE /\ lost = FALSE

-----------------------------------------------------------------------------
(* The application.                                                        *)

ItemsOf(h, c) == IF c = NoCell THEN <<>> ELSE h[c].items

release_all(h, cells) ==
  LET after[k \in 0 .. Len(cells)] ==
        IF k = 0 THEN h
        ELSE release(after[k - 1], cells[k], Len(after[k - 1][cells[k]].items))
  IN  after[Len(cells)]

(* Box.unbox takes the last reference to a box apart, and copies from a box*)
(* that others still refer to.                                             *)
unbox(h, b) ==
  IF h[b].rc = 1 THEN [h EXCEPT ![b] = Free]
  ELSE decref(incref_all(h, h[b].items), b)

Lists(h, held) == {c \in ToSet(held) : h[c].items # <<>>}
DataOf(h, held) == {c \in ToSet(held) : h[c].items = <<>>}

(* The application holds one reference to each of held.  It returns the    *)
(* list of effects l, which sends some of the data it holds and of its new *)
(* data d, and the box b with what it keeps of all that.                   *)
Return(h, held, d, l, b, sends, keeps) ==
  LET withData  == Allocate(h, d, <<>>)
      retained  == incref_all(withData, sends)
      withList  == IF sends = <<>> THEN retained ELSE Allocate(retained, l, sends)
      kept      == incref_all(withList, keeps)
      withModel == Allocate(kept, b, keeps)
  IN  release_all(withModel, held \o <<d>>)

(* It returns a list of effects that it has kept, once more.               *)
ReturnAgain(h, held, l, b, keeps) ==
  release_all(Allocate(incref_all(incref(h, l, 1), keeps), b, keeps), held)

(* What it may keep: data, its list of effects only if KeepsEffects.       *)
MayKeep(h, held, more) ==
  DataOf(h, held) \cup more \cup (IF KeepsEffects THEN Lists(h, held) ELSE {})

(* roc_init and roc_update, of an application that holds held: the heap,   *)
(* model and effects after it.                                             *)
Application(h, held) ==
  LET free == FreeCells(h)
      d    == Min(free)
      l    == Min(free \ {d})
      b    == Min(free \ {d, l})
  IN  \/ /\ Cardinality(free) >= 3
         /\ \E sends \in BoundedSeq(DataOf(h, held) \cup {d}, MaxSends) :
            \E keeps \in BoundedSeq(MayKeep(h, held,
                           IF KeepsEffects /\ sends # <<>> THEN {d, l} ELSE {d}), MaxKept) :
              /\ heap' = Return(h, held, d, l, b, sends, keeps)
              /\ effects' = IF sends = <<>> THEN NoCell ELSE l
         /\ model' = b
      \/ /\ KeepsEffects /\ free # {}
         /\ \E kept \in Lists(h, held) :
              /\ \E keeps \in BoundedSeq(MayKeep(h, held, {}), MaxKept) :
                   heap' = ReturnAgain(h, held, kept, d, keeps)
              /\ effects' = kept
              /\ model' = d

-----------------------------------------------------------------------------
(* The host.                                                               *)

Subscribed(c) == c[1] \in subs

(* The closures in the subscriptions are the host's.                       *)
Subscribe ==
  /\ subs' \in SUBSET Sources
  /\ owned' = [c \in Closures |-> IF Subscribed(c)' THEN 1 ELSE 0]

(* The closures that made no event and the list of effects are overwritten *)
(* without a decref.                                                       *)
Forget == lost' = (lost \/ effects # NoCell \/ \E c \in Closures : owned[c] > 0)

(* TCP is started once, if the first subscriptions ask for it; it may fail.*)
Start ==
  /\ pc = "start"
  /\ Application(heap, <<>>)
  /\ Subscribe
  /\ tcp' \in {FALSE, subs' \cap TcpStarters # {}}
  /\ next' = 1 /\ pc' = "effects"
  /\ UNCHANGED <<event, lost>>

(* Mutant of HandleSend: the data is released once more.                   *)
HandleSendTwice ==
  /\ pc = "effects" /\ next <= Len(ItemsOf(heap, effects))
  /\ LET data == ItemsOf(heap, effects)[next]
     IN  heap' = decref(decref(heap, data), data)
  /\ next' = next + 1
  /\ UNCHANGED <<pc, model, effects, subs, owned, event, tcp, lost>>

(* TcpSend: the data is read from, whether or not it is written to a       *)
(* socket, and payload.decref releases it.                                 *)
HandleSend ==
  /\ pc = "effects" /\ next <= Len(ItemsOf(heap, effects))
  /\ heap' = decref(heap, ItemsOf(heap, effects)[next])
  /\ next' = next + 1
  /\ UNCHANGED <<pc, model, effects, subs, owned, event, tcp, lost>>

(* An Exit effect: nothing that is still held is released.                 *)
HandleExit ==
  /\ pc = "effects" /\ pc' = "exited"
  /\ Forget
  /\ UNCHANGED <<heap, model, effects, next, subs, owned, event, tcp>>

HandledAll ==
  /\ pc = "effects" /\ next > Len(ItemsOf(heap, effects))
  /\ pc' = "retain"
  /\ UNCHANGED <<heap, model, effects, next, subs, owned, event, tcp, lost>>

(* Mutant of Retain: roc_view gets the only reference.                     *)
RetainNot ==
  /\ pc = "retain" /\ pc' = "view"
  /\ UNCHANGED <<heap, model, effects, next, subs, owned, event, tcp, lost>>

(* incref_box, because roc_view consumes a reference.                      *)
Retain ==
  /\ pc = "retain" /\ pc' = "view"
  /\ heap' = incref(heap, model, 1)
  /\ UNCHANGED <<model, effects, next, subs, owned, event, tcp, lost>>

(* roc_view unboxes the model and drops what it got.  It returns a list of *)
(* rows, which the host does not release, or nothing.                      *)
View ==
  /\ pc = "view" /\ pc' = "wait"
  /\ heap' = release_all(unbox(heap, model), heap[model].items)
  /\ lost' \in {lost, TRUE}
  /\ UNCHANGED <<model, effects, next, subs, owned, event, tcp>>

(* make_event_from_...: a closure is given to Roc, which calls it and frees*)
(* it, with a list made for it if it wants one; the timer's box is the     *)
(* event itself.                                                           *)
MakesEvent(c) ==
  /\ owned' = [owned EXCEPT ![c] = @ - 1]
  /\ event' = c /\ pc' = "update"
  /\ UNCHANGED <<heap, model, effects, next, subs, tcp, lost>>

(* No event yet: the loop goes round.                                      *)
WaitsAgain ==
  /\ pc' = "wait"
  /\ UNCHANGED <<heap, model, effects, next, subs, owned, event, tcp, lost>>

(* Nothing to wait for, or poll() fails.                                   *)
WaitReturnsNone ==
  /\ pc = "wait" /\ pc' = "exited"
  /\ Forget
  /\ UNCHANGED <<heap, model, effects, next, subs, owned, event, tcp>>

(* Before poll() or when it times out.                                     *)
TimerFires ==
  /\ pc = "wait" /\ "timer" \in subs
  /\ MakesEvent(<<"timer", "on_fire">>)

(* poll() finds a byte in the pipe, which is drained.                      *)
TcpReady ==
  /\ pc = "wait" /\ tcp /\ pc' = "tcp"
  /\ UNCHANGED <<heap, model, effects, next, subs, owned, event, tcp, lost>>

(* accept_tcp_connection takes precedence over tcp_connect.                *)
ClosureFor(ev) ==
  <<IF ev = "on_data" THEN "tcp_receive"
    ELSE IF "accept_tcp_connection" \in subs THEN "accept_tcp_connection"
    ELSE "tcp_connect", ev>>

(* Mutant of TryRecv: the closure is given before it is decided that no   *)
(* one is told of the event.                                               *)
TryRecvDropping ==
  /\ pc = "tcp"
  /\ \E ev \in TcpEvents :
       \/ Subscribed(ClosureFor(ev)) /\ MakesEvent(ClosureFor(ev))
       \/ /\ pc' = "wait"
          /\ event' = ClosureFor(ev) /\ owned' = [owned EXCEPT ![ClosureFor(ev)] = @ - 1]
          /\ UNCHANGED <<heap, model, effects, next, subs, tcp, lost>>

(* The event that was sent for the byte is received.  If the subscriptions *)
(* of this round have no closure for it, it is dropped.                    *)
TryRecv ==
  /\ pc = "tcp"
  /\ \E ev \in TcpEvents :
       \/ Subscribed(ClosureFor(ev)) /\ MakesEvent(ClosureFor(ev))
       \/ ~Subscribed(ClosureFor(ev)) /\ WaitsAgain

(* poll() finds input, and the closure is copied, not yet given.           *)
StdinReady ==
  /\ pc = "wait" /\ "stdin" \in subs /\ pc' = "stdin"
  /\ UNCHANGED <<heap, model, effects, next, subs, owned, event, tcp, lost>>

KeysRead ==
  /\ pc = "stdin"
  /\ MakesEvent(<<"stdin", "on_input">>)

(* Mutant of StdinEnded: the copy of the closure is released, as that of   *)
(* the payload of a TcpSend is.                                            *)
StdinEndedReleasing ==
  /\ pc = "stdin" /\ pc' = "wait"
  /\ owned' = [owned EXCEPT ![<<"stdin", "on_input">>] = @ - 1]
  /\ UNCHANGED <<heap, model, effects, next, subs, event, tcp, lost>>

(* End of file or an error: the copy is forgotten.  At the end of file the *)
(* next poll() finds input again.                                          *)
StdinEnded == pc = "stdin" /\ WaitsAgain

(* Only what can be reached from the model is looked at again; the cells of*)
(* a list that is forgotten are taken off the heap.                        *)
Reachable(h, m) ==
  LET direct == ToSet(ItemsOf(h, m))
  IN  {m} \cup direct \cup UNION {ToSet(h[c].items) : c \in direct}

(* Mutant of Update: current_subs is not assigned.                         *)
UpdateKeepsSubs ==
  /\ pc = "update"
  /\ LET mine == Reachable(heap, model)
         h == [c \in Cells |-> IF c \in mine THEN heap[c] ELSE Free]
     IN  Application(unbox(h, model), h[model].items)
  /\ Forget
  /\ next' = 1 /\ event' = NoEvent /\ pc' = "effects"
  /\ UNCHANGED <<subs, owned, tcp>>

(* roc_update consumes the model and the event; the old list of effects and*)
(* the closures that made no event are overwritten.                        *)
Update ==
  /\ pc = "update"
  /\ LET mine == Reachable(heap, model)
         h == [c \in Cells |-> IF c \in mine THEN heap[c] ELSE Free]
     IN  Application(unbox(h, model), h[model].items)
  /\ Forget
  /\ Subscribe
  /\ next' = 1 /\ event' = NoEvent /\ pc' = "effects"
  /\ UNCHANGED tcp

Exited == pc = "exited" /\ UNCHANGED vars

Next ==
  \/ Start \/ HandleSend \/ HandleExit \/ HandledAll \/ Retain \/ View
  \/ WaitReturnsNone \/ TimerFires \/ TcpReady \/ TryRecv
  \/ StdinReady \/ KeysRead \/ StdinEnded
  \/ Update \/ Exited

Spec == Init /\ [][Next]_vars

-----------------------------------------------------------------------------
(* Properties.                                                             *)

(* The cells that are still used: the model and everything the application *)
(* keeps, while the host has the model; and the effects still to be handled*)
InUse ==
  (IF pc \in {"start", "exited"} THEN {} ELSE Reachable(heap, model))
    \cup (IF pc = "effects" /\ effects # NoCell
          THEN {effects} \cup {heap[effects].items[i] :
                                 i \in next .. Len(heap[effects].items)}
          ELSE {})

(* Whatever the main loop hands out, releases and overwrites, nothing that *)
(* is still used has been freed.                                           *)
NothingUsedIsFreed == \A c \in InUse : heap[c].live

(* "We own this copy and must decrement both fields" (lib.rs): of the data *)
(* that is still to be sent, the host has a reference of its own, besides  *)
(* those of all that the application keeps.                                *)
KeptReferences(d) == Cardinality(ItemsTo(heap, Reachable(heap, model), d))

CopyIsOwned ==
  pc = "effects" =>
    \A i \in next .. Len(ItemsOf(heap, effects)) :
      LET data == heap[effects].items[i] IN heap[data].rc > KeptReferences(data)

(* However often the wait goes round, with events nobody subscribes to and *)
(* input that has ended, and whatever was given in earlier rounds: the host*)
(* has one reference to each closure of the subscriptions it looks at, but *)
(* for the one that made the event, and has given none it did not have.    *)
ClosuresGivenOnce ==
  \A c \in Closures : owned[c] = IF Subscribed(c) /\ c # event THEN 1 ELSE 0

(* The reference taken for roc_view is the only one it gives up: whenever  *)
(* the host looks at the model it has exactly one of its own.              *)
OneModelReference ==
  /\ pc \in {"effects", "retain", "wait", "tcp", "stdin", "update"} =>
       heap[model].live /\ heap[model].rc = 1
  /\ pc = "view" => heap[model].rc = 2

(* "--errors-for-leak-kinds=all" (scripts/test.py): nothing is left at the *)
(* end.                                                                    *)
NothingLost == ~lost

=============================================================================
