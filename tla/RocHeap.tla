------------------------------- MODULE RocHeap -------------------------------
(***************************************************************************)
(* The reference counts of the glue (src/src/roc_platform_abi.rs), which   *)
(* the host shares with compiled Roc code.                                 *)
(*                                                                         *)
(* A cell is one allocation: a box, a big string, a closure or a list.  Its*)
(* items are the cells its elements or fields refer to.  The layout of an  *)
(* allocation, null pointers and small strings, which have no cell, are    *)
(* left out.  A count of 0 marks static data, which is never changed.      *)
(***************************************************************************)
EXTENDS Naturals, Sequences, SequencesExt

CONSTANT MaxCells     \* bound: allocations alive at a time

ASSUME MaxCellsAssumption == MaxCells \in Nat \ {0}

Cells == 1 .. MaxCells
NoCell == 0

Cell == [live : BOOLEAN, rc : Nat, items : Seq(Cells)]
Free == [live |-> FALSE, rc |-> 0, items |-> <<>>]

FreeCells(h) == {c \in Cells : ~h[c].live}

(* A new allocation has one reference.                                     *)
Allocate(h, c, items) ==
  [h EXCEPT ![c] = [live |-> TRUE, rc |-> 1, items |-> items]]

(* A constant of the application, compiled into its data section.          *)
AllocateStatic(h, c) ==
  [h EXCEPT ![c] = [live |-> TRUE, rc |-> 0, items |-> <<>>]]

IsStatic(h, c) == h[c].rc = 0

incref(h, c, amount) ==
  IF IsStatic(h, c) THEN h ELSE [h EXCEPT ![c].rc = @ + amount]

(* Mutant of decref: static data is counted down like any other.           *)
DecrefStatic(h, c) ==
  IF h[c].rc = 1 THEN [h EXCEPT ![c] = Free] ELSE [h EXCEPT ![c].rc = @ - 1]

(* The allocation is freed when prev, the count before, is 1.              *)
decref(h, c) ==
  IF IsStatic(h, c) THEN h
  ELSE IF h[c].rc = 1 THEN [h EXCEPT ![c] = Free]
  ELSE [h EXCEPT ![c].rc = @ - 1]

(* How many of these references are to c?                                  *)
Occurrences(cells, c) == Cardinality({i \in DOMAIN cells : cells[i] = c})

(* The references to c among the items of these cells.                     *)
ItemsTo(h, cells, c) ==
  UNION {{d} \X {i \in DOMAIN h[d].items : h[d].items[i] = c} : d \in cells}

(* incref and decref of each of these references in turn.                  *)
incref_all(h, cells) ==
  [c \in Cells |-> IF IsStatic(h, c) THEN h[c]
                   ELSE [h[c] EXCEPT !.rc = @ + Occurrences(cells, c)]]

decref_all(h, cells) ==
  [c \in Cells |-> IF IsStatic(h, c) THEN h[c]
                   ELSE IF h[c].rc <= Occurrences(cells, c) THEN Free
                   ELSE [h[c] EXCEPT !.rc = @ - Occurrences(cells, c)]]

has_one_ref(h, c) == h[c].rc = 1

(* Mutant of allocation_items: the items of this reference, a slice.       *)
SliceItems(h, c, shown) == SubSeq(h[c].items, 1, shown)

(* All items of the backing allocation, of which a slice shows some.       *)
allocation_items(h, c, shown) == h[c].items

(* Mutant of release: the items go whoever else holds the list.            *)
ReleaseItemsAlways(h, c, shown) ==
  decref(decref_all(h, allocation_items(h, c, shown)), c)

(* The generated decref of a list of refcounted values: the last reference *)
(* takes the items with it.                                                *)
release(h, c, shown) ==
  decref(IF has_one_ref(h, c) THEN decref_all(h, allocation_items(h, c, shown))
         ELSE h,
         c)

=============================================================================
