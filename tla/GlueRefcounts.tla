---------------------------- MODULE GlueRefcounts ----------------------------
(***************************************************************************)
(* The contract of the glue's reference counting: a program that keeps to  *)
(* it (owns what it releases, retains what it copies, moves what it puts   *)
(* into a list) frees every allocation when, and only when, its last owner *)
(* lets go of it.                                                          *)
(*                                                                         *)
(* The program is a number of local variables that hold lists and list     *)
(* elements, or boxes; a list may be a seamless slice, which shares its    *)
(* allocation with the list it was cut from.  It also hands a value of one *)
(* of the host's types about: result, subscriptions, effect or rows.       *)
(***************************************************************************)
EXTENDS HostTypes

CONSTANTS
  ActiveChoices,  \* bound: which subscriptions are on together
  Locals,         \* the program's local variables
  MaxCopies,      \* bound: copies of the host's value
  MaxAbandoned    \* bound: references to a cell lost with boxes

Subscriptions == {"timer", "accept", "stdin", "connect", "receive"}

ASSUME ConstantsAssumption ==
  /\ ActiveChoices \subseteq SUBSET Subscriptions
  /\ IsFiniteSet(Locals)
  /\ MaxCopies \in Nat \ {0} /\ MaxAbandoned \in Nat

VARIABLES heap,
          local,    \* what each local variable refers to
          host,     \* a value of one of the host's types, or NoValue
          copies,   \* how many the program holds of it
          boxes,    \* the cells that are boxes of a model or a timer's event
          abandoned \* history: references to each cell in boxes freed by decref_box

vars == <<heap, local, host, copies, boxes, abandoned>>
held == <<host, copies, abandoned>>

(* A value: its allocation and how many of the items it shows.             *)
Value == [cell : Cells \cup {NoCell}, shown : Nat]
Nothing == [cell |-> NoCell, shown |-> 0]

NoValue == HostValue("none", <<>>)

TypeOK ==
  /\ heap \in [Cells -> Cell]
  /\ local \in [Locals -> Value]
  /\ host.type \in {"none", "Subscriptions", "Result", "View", "Exit", "Print",
                   "TcpSend", "WriteToFile"}
  /\ copies \in 0 .. MaxCopies /\ (copies = 0 <=> host = NoValue)
  /\ boxes \subseteq Cells
  /\ abandoned \in [Cells -> 0 .. MaxAbandoned]

Init ==
  /\ heap = [c \in Cells |-> Free]
  /\ local = [l \in Locals |-> Nothing]
  /\ host = NoValue /\ copies = 0 /\ boxes = {}
  /\ abandoned = [c \in Cells |-> 0]

Holds(l) == local[l].cell # NoCell
LocalCells == {local[l].cell : l \in Locals} \ {NoCell}
Whole(c, h) == [cell |-> c, shown |-> Len(h[c].items)]

(* from_slice of bytes, or of a string: an allocation with no items.       *)
NewData(l) ==
  /\ ~Holds(l)
  /\ \E c \in FreeCells(heap) :
       /\ heap' = Allocate(heap, c, <<>>)
       /\ local' = [local EXCEPT ![l] = Whole(c, heap')]
       /\ boxes' = boxes \ {c}
  /\ UNCHANGED held

NewStatic(l) ==
  /\ ~Holds(l)
  /\ \E c \in FreeCells(heap) :
       /\ heap' = AllocateStatic(heap, c)
       /\ local' = [local EXCEPT ![l] = Whole(c, heap')]
       /\ boxes' = boxes \ {c}
  /\ UNCHANGED held

(* from_slice of two values: a shallow copy, so they move into the list.   *)
NewList(l, k) ==
  /\ l # k /\ Holds(l) /\ Holds(k)
  /\ \A c \in {local[l].cell, local[k].cell} : heap[c].items = <<>> /\ c \notin boxes
  /\ \E c \in FreeCells(heap) :
       /\ heap' = Allocate(heap, c, <<local[l].cell, local[k].cell>>)
       /\ local' = [local EXCEPT ![l] = Whole(c, heap'), ![k] = Nothing]
       /\ boxes' = boxes \ {c}
  /\ UNCHANGED held

(* A model, or the event of a timer, with a reference that moves into it.  *)
NewBox(l) ==
  /\ Holds(l) /\ heap[local[l].cell].items = <<>> /\ local[l].cell \notin boxes
  /\ \E c \in FreeCells(heap) :
       /\ heap' = Allocate(heap, c, <<local[l].cell>>)
       /\ local' = [local EXCEPT ![l] = Whole(c, heap')]
       /\ boxes' = boxes \cup {c}
  /\ UNCHANGED held

(* A copy of a value is retained.                                          *)
Copy(l, k) ==
  /\ Holds(l) /\ ~Holds(k)
  /\ heap' = incref(heap, local[l].cell, 1)
  /\ local' = [local EXCEPT ![k] = local[l]]
  /\ UNCHANGED <<boxes, held>>

(* Roc cuts a list in place: the value becomes a seamless slice.           *)
Slice(l) ==
  /\ Holds(l) /\ local[l].shown > 0 /\ local[l].cell \notin boxes
  /\ local' = [local EXCEPT ![l].shown = @ - 1]
  /\ UNCHANGED <<heap, boxes, held>>

(* With the generated decref, or decref_box_with and its callback.         *)
Drop(l) ==
  /\ Holds(l)
  /\ heap' = release(heap, local[l].cell, local[l].shown)
  /\ local' = [local EXCEPT ![l] = Nothing]
  /\ UNCHANGED <<boxes, held>>

(* What a program puts into a subscription.                                *)
FieldsFor(s) ==
  CASE s = "timer"   -> {"on_fire"}
    [] s = "accept"  -> {"host", "accepted", "accept_closed"}
    [] s = "stdin"   -> {"stdin"}
    [] s = "connect" -> {"address", "connected", "connect_closed"}
    [] s = "receive" -> {"receive"}

SubscriptionFields(active) == UNION {FieldsFor(s) : s \in active}

Closures == {"accepted", "accept_closed", "stdin", "connected", "connect_closed", "receive"}

(* The values that can be made of text or list a, text or closure b and box*)
(* x; every field is there before the glue sees it.                        *)
HostValues(a, b, x) ==
  LET made(type, fields) ==
        HostValue(type, [f \in fields |-> IF f \in BoxFields THEN x
                                         ELSE IF f \in Closures \cup {"filename"} THEN b
                                         ELSE a])
  IN  {made("Exit", {}), made("Print", {"text"}), made("TcpSend", {"data"}),
       made("WriteToFile", {"content", "filename"}), made("View", {}), made("View", {"rows"})}
      \cup UNION {{made("Subscriptions", SubscriptionFields(active)),
                   made("Result", SubscriptionFields(active) \cup {"effects", "m"})}
                  : active \in {s \in ActiveChoices : x # NoCell}}

(* Roc makes a value from what it keeps, so it retains each field once.    *)
Make ==
  /\ host = NoValue
  /\ \E a, b \in (LocalCells \ boxes) \cup {NoCell}, x \in (LocalCells \cap boxes) \cup {NoCell} :
       \E v \in HostValues(a, b, x) :
         /\ heap' = incref_fields(heap, v, DOMAIN v.field, 1)
         /\ host' = v
  /\ copies' = 1
  /\ UNCHANGED <<local, boxes, abandoned>>

CopyValue ==
  /\ host # NoValue /\ \E amount \in 1 .. MaxCopies - copies :
       /\ heap' = incref_value(heap, host, amount)
       /\ copies' = copies + amount
  /\ UNCHANGED <<local, host, boxes, abandoned>>

(* decref_box frees a box and not what it holds.                           *)
FreedBoxes(h) == {c \in boxes : heap[c].live /\ ~h[c].live}

DropValue ==
  /\ host # NoValue
  /\ heap' = decref_value(heap, host)
  /\ abandoned' = [c \in Cells |->
                     abandoned[c] + Cardinality(ItemsTo(heap, FreedBoxes(heap'), c))]
  /\ \A c \in Cells : abandoned'[c] <= MaxAbandoned
  /\ copies' = copies - 1
  /\ host' = IF copies = 1 THEN NoValue ELSE host
  /\ UNCHANGED <<local, boxes>>

(* The program may end when it holds nothing.                              *)
End == (\A l \in Locals : ~Holds(l)) /\ host = NoValue /\ UNCHANGED vars

Next ==
  \/ \E l \in Locals : \/ NewData(l) \/ NewStatic(l) \/ NewBox(l) \/ Slice(l) \/ Drop(l)
                       \/ \E k \in Locals : NewList(l, k) \/ Copy(l, k)
  \/ Make \/ CopyValue \/ DropValue
  \/ End

Spec == Init /\ [][Next]_vars

-----------------------------------------------------------------------------
(* Properties.                                                             *)

(* The number of references to a cell from local variables, the copies of  *)
(* the host's value, live cells and lost boxes.                            *)
Owners(c) ==
  Cardinality({l \in Locals : local[l].cell = c})
    + Cardinality(ItemsTo(heap, {d \in Cells : heap[d].live}, c))
    + copies * FieldsTo(host, DOMAIN host.field, c) + abandoned[c]

(* No reference dangles: what can be reached is allocated.                 *)
NothingDangles ==
  /\ \A l \in Locals : Holds(l) => heap[local[l].cell].live
  /\ \A f \in DOMAIN host.field : host.field[f] # NoCell => heap[host.field[f]].live
  /\ \A c \in Cells : \A i \in DOMAIN heap[c].items :
       heap[c].live => heap[heap[c].items[i]].live

(* Every count is the number of owners, so the last one to let go, and no  *)
(* other, frees the allocation.  Nothing leaks but what was in a box that  *)
(* the glue released as part of a result or of subscriptions.              *)
CountsAreOwners ==
  \A c \in Cells : heap[c].live /\ ~IsStatic(heap, c) => heap[c].rc = Owners(c)

(* Static data stays, whatever is done with references to it.              *)
StaticIsKept ==
  [][\A c \in Cells :
       heap[c].live /\ IsStatic(heap, c) => heap'[c] = heap[c]]_vars

=============================================================================
