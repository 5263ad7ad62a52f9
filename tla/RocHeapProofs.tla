--------------------------- MODULE RocHeapProofs ---------------------------
(***************************************************************************)
(* Lemmas about the operators of RocHeap: what a count, and the references *)
(* in the heap, become with each of the glue's operations.                 *)
(***************************************************************************)
EXTENDS RocHeap, FiniteSetTheorems, TLAPS

-----------------------------------------------------------------------------
(* Induction over the natural numbers, for a set.                          *)

LEMMA SetInduction ==
  ASSUME NEW S, 0 \in S, \A n \in Nat : n \in S => n + 1 \in S
  PROVE  \A n \in Nat : n \in S
<1>. SUFFICES ASSUME NEW n \in Nat, n \notin S PROVE FALSE
  OBVIOUS
<1>. DEFINE R == {ss \in Nat \X Nat : ss[1] < ss[2]}
            T == {m \in Nat : m \notin S}
<1>1. IsWellFoundedOn(R, Nat)
  BY NatLessThanWellFounded DEF OpToRel
<1>2. \E x \in T : \A y \in T : ~(<<y, x>> \in R)
  <2>1. T \subseteq Nat /\ T # {}
    OBVIOUS
  <2>. HIDE DEF R, T
  <2>. QED
    BY <1>1, <2>1, WFMin
<1>3. PICK x \in T : \A y \in T : ~(<<y, x>> \in R)
  BY <1>2
<1>4. x \in Nat /\ x # 0 /\ x - 1 \in Nat /\ x - 1 \in T
  OBVIOUS
<1>5. <<x - 1, x>> \in R
  BY <1>4
<1>. QED
  BY <1>3, <1>4, <1>5

-----------------------------------------------------------------------------
(* Counting.                                                               *)

Bit(x, c) == IF x = c THEN 1 ELSE 0

(* Where in S the value of m is c.                                         *)
Places(m, S, c) == {y \in S : m[y] = c}

LEMMA PlacesFinite ==
  ASSUME NEW m, NEW S, IsFiniteSet(S), NEW c
  PROVE  /\ IsFiniteSet(Places(m, S, c))
         /\ Cardinality(Places(m, S, c)) \in Nat
         /\ Cardinality(Places(m, S, c)) = 0 <=> \A y \in S : m[y] # c
<1>1. Places(m, S, c) \in SUBSET S
  BY DEF Places
<1>2. IsFiniteSet(Places(m, S, c))
  BY <1>1, FS_Subset
<1>3. Places(m, S, c) = {} <=> \A y \in S : m[y] # c
  BY DEF Places
<1>. QED
  BY <1>2, <1>3, FS_CardinalityType, FS_EmptySet

LEMMA NoPlaces == \A m, c : Cardinality(Places(m, {}, c)) = 0
<1>. SUFFICES ASSUME NEW m, NEW c PROVE Cardinality(Places(m, {}, c)) = 0
  OBVIOUS
<1>1. Places(m, {}, c) = {}
  BY DEF Places
<1>. QED
  BY <1>1, FS_EmptySet

(* One more place to look at.                                              *)
LEMMA CountAdd ==
  ASSUME NEW m, NEW S, IsFiniteSet(S), NEW x, x \notin S, NEW c
  PROVE  Cardinality(Places(m, S \cup {x}, c)) = Cardinality(Places(m, S, c)) + Bit(m[x], c)
<1>1. IsFiniteSet(Places(m, S, c)) /\ Cardinality(Places(m, S, c)) \in Nat
  BY PlacesFinite
<1>2. CASE m[x] = c
  <2>1. Places(m, S \cup {x}, c) = Places(m, S, c) \cup {x} /\ x \notin Places(m, S, c)
    BY <1>2 DEF Places
  <2>2. Cardinality(Places(m, S, c) \cup {x}) = Cardinality(Places(m, S, c)) + 1
    BY <1>1, <2>1, FS_AddElement
  <2>. QED
    BY <1>1, <1>2, <2>1, <2>2 DEF Bit
<1>3. CASE m[x] # c
  <2>1. Places(m, S \cup {x}, c) = Places(m, S, c)
    BY <1>3 DEF Places
  <2>. QED
    BY <1>1, <1>3, <2>1 DEF Bit
<1>. QED
  BY <1>2, <1>3

(* A function that changes at one place.                                   *)
LEMMA CountChange ==
  ASSUME NEW S, IsFiniteSet(S), NEW x \in S, NEW m, NEW k, NEW c,
         \A y \in S \ {x} : k[y] = m[y]
  PROVE  Cardinality(Places(k, S, c)) + Bit(m[x], c)
           = Cardinality(Places(m, S, c)) + Bit(k[x], c)
<1>. DEFINE R == S \ {x}
<1>1. IsFiniteSet(R) /\ x \notin R /\ R \cup {x} = S
  BY FS_Subset
<1>2. Places(k, R, c) = Places(m, R, c)
  BY DEF Places
<1>. HIDE DEF R
<1>3. /\ Cardinality(Places(m, R, c)) \in Nat
      /\ Cardinality(Places(m, S, c)) = Cardinality(Places(m, R, c)) + Bit(m[x], c)
      /\ Cardinality(Places(k, S, c)) = Cardinality(Places(k, R, c)) + Bit(k[x], c)
  BY <1>1, CountAdd, PlacesFinite
<1>. QED
  BY <1>2, <1>3 DEF Bit

LEMMA OccurrencesType ==
  ASSUME NEW T, NEW cells \in Seq(T), NEW c
  PROVE  /\ IsFiniteSet(Places(cells, DOMAIN cells, c))
         /\ Occurrences(cells, c) = Cardinality(Places(cells, DOMAIN cells, c))
         /\ Occurrences(cells, c) \in Nat
         /\ Occurrences(cells, c) = 0 <=> \A i \in DOMAIN cells : cells[i] # c
<1>1. IsFiniteSet(DOMAIN cells)
  BY FS_Interval
<1>2. Occurrences(cells, c) = Cardinality(Places(cells, DOMAIN cells, c))
  BY DEF Occurrences, Places
<1>. QED
  BY <1>1, <1>2, PlacesFinite

LEMMA OccurrencesEmpty == \A c : Occurrences(<<>>, c) = 0
<1>. SUFFICES ASSUME NEW c PROVE Occurrences(<<>>, c) = 0
  OBVIOUS
<1>1. {i \in DOMAIN <<>> : <<>>[i] = c} = {}
  OBVIOUS
<1>. QED
  BY <1>1, FS_EmptySet DEF Occurrences

LEMMA OccurrencesOne == \A x, c : Occurrences(<<x>>, c) = Bit(x, c)
<1>. SUFFICES ASSUME NEW x, NEW c PROVE Occurrences(<<x>>, c) = Bit(x, c)
  OBVIOUS
<1>1. Occurrences(<<x>>, c) = Cardinality(Places(<<x>>, {} \cup {1}, c))
  <2>1. DOMAIN <<x>> = {} \cup {1}
    OBVIOUS
  <2>. QED
    BY <2>1 DEF Occurrences, Places
<1>2. Cardinality(Places(<<x>>, {} \cup {1}, c))
        = Cardinality(Places(<<x>>, {}, c)) + Bit(<<x>>[1], c)
  BY CountAdd, FS_EmptySet
<1>. QED
  BY <1>1, <1>2, NoPlaces DEF Bit

LEMMA OccurrencesTwo == \A x, y, c : Occurrences(<<x, y>>, c) = Bit(x, c) + Bit(y, c)
<1>. SUFFICES ASSUME NEW x, NEW y, NEW c
              PROVE  Occurrences(<<x, y>>, c) = Bit(x, c) + Bit(y, c)
  OBVIOUS
<1>1. Occurrences(<<x, y>>, c) = Cardinality(Places(<<x, y>>, ({} \cup {1}) \cup {2}, c))
  <2>1. DOMAIN <<x, y>> = ({} \cup {1}) \cup {2}
    OBVIOUS
  <2>. QED
    BY <2>1 DEF Occurrences, Places
<1>2. Cardinality(Places(<<x, y>>, ({} \cup {1}) \cup {2}, c))
        = Cardinality(Places(<<x, y>>, {} \cup {1}, c)) + Bit(<<x, y>>[2], c)
  <2>1. IsFiniteSet({} \cup {1}) /\ 2 \notin {} \cup {1}
    BY FS_EmptySet, FS_AddElement
  <2>. QED
    BY <2>1, CountAdd
<1>3. Cardinality(Places(<<x, y>>, {} \cup {1}, c))
        = Cardinality(Places(<<x, y>>, {}, c)) + Bit(<<x, y>>[1], c)
  BY CountAdd, FS_EmptySet
<1>. QED
  BY <1>1, <1>2, <1>3, NoPlaces DEF Bit

-----------------------------------------------------------------------------
(* References from items.                                                  *)

Heaps == [Cells -> Cell]

ItemRefs(h, c) == Cardinality(ItemsTo(h, Cells, c))

(* The references to c in one cell.                                        *)
Refs(h, d, c) == {d} \X Places(h[d].items, DOMAIN h[d].items, c)

LEMMA CellsFinite == IsFiniteSet(Cells)
BY MaxCellsAssumption, FS_Interval DEF Cells

LEMMA HeapType ==
  ASSUME NEW h \in Heaps, NEW d \in Cells
  PROVE  /\ h[d] \in Cell /\ h[d].live \in BOOLEAN /\ h[d].rc \in Nat
         /\ h[d].items \in Seq(Cells)
BY DEF Heaps, Cell

LEMMA RefsCount ==
  ASSUME NEW h \in Heaps, NEW d \in Cells, NEW c
  PROVE  /\ IsFiniteSet(Refs(h, d, c))
         /\ Cardinality(Refs(h, d, c)) = Occurrences(h[d].items, c)
         /\ Occurrences(h[d].items, c) \in Nat
<1>1. /\ IsFiniteSet(Places(h[d].items, DOMAIN h[d].items, c))
      /\ Occurrences(h[d].items, c) = Cardinality(Places(h[d].items, DOMAIN h[d].items, c))
      /\ Occurrences(h[d].items, c) \in Nat
  BY HeapType, OccurrencesType
<1>2. IsFiniteSet({d}) /\ Cardinality({d}) = 1
  BY FS_Singleton
<1>3. /\ IsFiniteSet(Refs(h, d, c))
      /\ Cardinality(Refs(h, d, c))
           = Cardinality({d}) * Cardinality(Places(h[d].items, DOMAIN h[d].items, c))
  BY <1>1, <1>2, FS_Product DEF Refs
<1>. QED
  BY <1>1, <1>2, <1>3

LEMMA ItemsToFinite ==
  ASSUME NEW h \in Heaps, NEW S \in SUBSET Cells, NEW c
  PROVE  IsFiniteSet(ItemsTo(h, S, c)) /\ Cardinality(ItemsTo(h, S, c)) \in Nat
<1>. DEFINE T == {Refs(h, d, c) : d \in S}
            f == [d \in S |-> Refs(h, d, c)]
<1>1. ItemsTo(h, S, c) = UNION T
  BY DEF ItemsTo, Refs, Places
<1>2. IsFiniteSet(S)
  BY CellsFinite, FS_Subset
<1>3. f \in Surjection(S, T)
  BY DEF Surjection, Range
<1>4. IsFiniteSet(T)
  <2>. HIDE DEF f, T
  <2>. QED
    BY <1>2, <1>3, FS_Surjection
<1>5. \A U \in T : IsFiniteSet(U)
  BY RefsCount
<1>6. IsFiniteSet(UNION T)
  <2>. HIDE DEF T
  <2>. QED
    BY <1>4, <1>5, FS_UNION
<1>. QED
  BY <1>1, <1>6, FS_CardinalityType

LEMMA ItemsToAdd ==
  ASSUME NEW h \in Heaps, NEW S \in SUBSET Cells, NEW b \in Cells \ S, NEW c
  PROVE  Cardinality(ItemsTo(h, S \cup {b}, c))
           = Cardinality(ItemsTo(h, S, c)) + Occurrences(h[b].items, c)
<1>1. ItemsTo(h, S \cup {b}, c) = ItemsTo(h, S, c) \cup Refs(h, b, c)
  BY DEF ItemsTo, Refs, Places
<1>2. ItemsTo(h, S, c) \cap Refs(h, b, c) = {}
  BY DEF ItemsTo, Refs
<1>3. /\ IsFiniteSet(ItemsTo(h, S, c)) /\ Cardinality(ItemsTo(h, S, c)) \in Nat
      /\ IsFiniteSet(Refs(h, b, c))
      /\ Cardinality(Refs(h, b, c)) = Occurrences(h[b].items, c)
      /\ Occurrences(h[b].items, c) \in Nat
  BY ItemsToFinite, RefsCount
<1>4. Cardinality(ItemsTo(h, S, c) \cup Refs(h, b, c))
        = Cardinality(ItemsTo(h, S, c)) + Cardinality(Refs(h, b, c))
            - Cardinality(ItemsTo(h, S, c) \cap Refs(h, b, c))
  BY <1>3, FS_Union
<1>5. Cardinality(ItemsTo(h, S, c) \cap Refs(h, b, c)) = 0
  BY <1>2, FS_EmptySet
<1>6. Cardinality(ItemsTo(h, S \cup {b}, c))
        = Cardinality(ItemsTo(h, S, c)) + Occurrences(h[b].items, c) - 0
  BY <1>1, <1>3, <1>4, <1>5, Zenon
<1>. QED
  BY <1>3, <1>6

LEMMA ItemsToSame ==
  ASSUME NEW h, NEW g, NEW S, NEW c, \A d \in S : g[d].items = h[d].items
  PROVE  ItemsTo(g, S, c) = ItemsTo(h, S, c)
<1>1. \A d \in S : {i \in DOMAIN g[d].items : g[d].items[i] = c}
                     = {i \in DOMAIN h[d].items : h[d].items[i] = c}
  OBVIOUS
<1>. QED
  BY <1>1 DEF ItemsTo

(* No item refers to a cell that nothing counts as an item.                *)
LEMMA NoItemRefs ==
  ASSUME NEW h \in Heaps, NEW c, ItemRefs(h, c) = 0,
         NEW d \in Cells, NEW i \in DOMAIN h[d].items
  PROVE  h[d].items[i] # c
<1>1. ItemsTo(h, Cells, c) = {}
  BY ItemsToFinite, FS_EmptySet DEF ItemRefs
<1>2. h[d].items[i] = c => <<d, i>> \in ItemsTo(h, Cells, c)
  BY DEF ItemsTo
<1>. QED
  BY <1>1, <1>2

(* Only the items of b change.                                             *)
LEMMA ReplaceItems ==
  ASSUME NEW h \in Heaps, NEW g \in Heaps, NEW b \in Cells, NEW c,
         \A d \in Cells \ {b} : g[d].items = h[d].items
  PROVE  /\ ItemRefs(h, c) \in Nat /\ ItemRefs(g, c) \in Nat
         /\ Occurrences(h[b].items, c) \in Nat /\ Occurrences(g[b].items, c) \in Nat
         /\ Occurrences(h[b].items, c) <= ItemRefs(h, c)
         /\ ItemRefs(g, c) + Occurrences(h[b].items, c)
              = ItemRefs(h, c) + Occurrences(g[b].items, c)
<1>. DEFINE R == Cells \ {b}
<1>1. R \in SUBSET Cells /\ R \cup {b} = Cells /\ b \in Cells \ R
  OBVIOUS
<1>2. ItemsTo(g, R, c) = ItemsTo(h, R, c)
  BY ItemsToSame
<1>. HIDE DEF R
<1>3. /\ ItemRefs(h, c) = Cardinality(ItemsTo(h, R, c)) + Occurrences(h[b].items, c)
      /\ ItemRefs(g, c) = Cardinality(ItemsTo(g, R, c)) + Occurrences(g[b].items, c)
  BY <1>1, ItemsToAdd DEF ItemRefs
<1>4. /\ Cardinality(ItemsTo(h, R, c)) \in Nat
      /\ Occurrences(h[b].items, c) \in Nat /\ Occurrences(g[b].items, c) \in Nat
  BY <1>1, ItemsToFinite, RefsCount
<1>. QED
  BY <1>2, <1>3, <1>4

LEMMA SameItemRefs ==
  ASSUME NEW h, NEW g, NEW c, \A d \in Cells : g[d].items = h[d].items
  PROVE  ItemRefs(g, c) = ItemRefs(h, c)
BY ItemsToSame DEF ItemRefs

-----------------------------------------------------------------------------
(* A sound heap: no item of a live cell dangles, and items have no items of*)
(* their own.                                                              *)
ItemsSound(h) ==
  \A c \in Cells : \A i \in DOMAIN h[c].items :
    h[h[c].items[i]].live /\ h[h[c].items[i]].items = <<>>

Sound(h) ==
  /\ h \in Heaps
  /\ \A c \in Cells : ~h[c].live => h[c] = Free
  /\ ItemsSound(h)

(* Every count is the number of references from outside the heap, which    *)
(* ext gives for each cell, and of those from items.                       *)
Balanced(h, ext) ==
  /\ ext \in [Cells -> Nat]
  /\ \A c \in Cells :
       /\ ext[c] > 0 => h[c].live
       /\ h[c].live /\ h[c].rc # 0 => h[c].rc = ext[c] + ItemRefs(h, c)

LEMMA ItemOfLive ==
  ASSUME NEW h \in Heaps, NEW c \in Cells, NEW i \in DOMAIN h[c].items
  PROVE  h[c].items[i] \in Cells
<1>1. h[c].items \in Seq(Cells)
  BY HeapType
<1>. QED
  BY <1>1

LEMMA ItemRefsType ==
  ASSUME NEW h \in Heaps, NEW c PROVE ItemRefs(h, c) \in Nat
BY ItemsToFinite DEF ItemRefs

LEMMA ItemRefsCounts ==
  ASSUME NEW h \in Heaps, NEW d \in Cells, NEW i \in DOMAIN h[d].items, NEW c,
         h[d].items[i] = c
  PROVE  ItemRefs(h, c) > 0
BY NoItemRefs, ItemRefsType

LEMMA Unreferenced ==
  ASSUME NEW h, Sound(h), NEW c \in Cells, ~h[c].live
  PROVE  ItemRefs(h, c) = 0
<1>1. ItemsTo(h, Cells, c) = {}
  BY DEF ItemsTo, Sound, ItemsSound
<1>. QED
  BY <1>1, FS_EmptySet DEF ItemRefs

(* What is retained counts for as many owners more.                        *)
LEMMA IncrefBalanced ==
  ASSUME NEW h, NEW ext, Sound(h), Balanced(h, ext),
         NEW n \in [Cells -> Nat], \A c \in Cells : n[c] > 0 => h[c].live,
         NEW g \in Heaps,
         \A c \in Cells : /\ g[c].live = h[c].live /\ g[c].items = h[c].items
                          /\ g[c].rc = IF h[c].rc = 0 THEN 0 ELSE h[c].rc + n[c],
         NEW more \in [Cells -> Nat], \A c \in Cells : more[c] = ext[c] + n[c]
  PROVE  Sound(g) /\ Balanced(g, more)
<1>1. h \in Heaps /\ \A c \in Cells : h[c] \in Cell /\ h[c].rc \in Nat /\ g[c] \in Cell
  BY HeapType DEF Sound
<1>2. \A c \in Cells : ~g[c].live => g[c] = Free
  BY <1>1 DEF Sound, Free, Cell
<1>3. ItemsSound(g)
  BY <1>1, ItemOfLive DEF Sound, ItemsSound
<1>4. \A c \in Cells : ItemRefs(g, c) = ItemRefs(h, c) /\ ItemRefs(h, c) \in Nat
  BY <1>1, SameItemRefs, ItemRefsType
<1>5. ASSUME NEW c \in Cells, more[c] > 0 PROVE g[c].live
  BY <1>5 DEF Balanced
<1>6. ASSUME NEW c \in Cells, g[c].live, g[c].rc # 0
      PROVE  g[c].rc = more[c] + ItemRefs(g, c)
  <2>1. h[c].rc = ext[c] + ItemRefs(h, c) /\ g[c].rc = h[c].rc + n[c]
    BY <1>1, <1>6 DEF Balanced
  <2>2. more[c] = ext[c] + n[c] /\ ext[c] \in Nat /\ n[c] \in Nat
    BY DEF Balanced
  <2>. QED
    BY <1>4, <2>1, <2>2
<1>. QED
  BY <1>2, <1>3, <1>5, <1>6 DEF Sound, Balanced

(* What moves into a new allocation is owned by it.                        *)
LEMMA AllocateBalanced ==
  ASSUME NEW h, NEW ext, Sound(h), Balanced(h, ext), NEW c \in FreeCells(h),
         NEW g \in Heaps, g[c].live, g[c].rc \in {0, 1},
         \A i \in DOMAIN g[c].items :
           h[g[c].items[i]].live /\ h[g[c].items[i]].items = <<>>,
         \A d \in Cells \ {c} : g[d] = h[d],
         NEW more \in [Cells -> Nat], more[c] = 1,
         \A d \in Cells \ {c} : more[d] + Occurrences(g[c].items, d) = ext[d]
  PROVE  Sound(g) /\ Balanced(g, more)
<1>1. c \in Cells /\ ~h[c].live /\ h \in Heaps /\ h[c].items = <<>>
  BY DEF FreeCells, Sound, Free
<1>2. \A d \in Cells : \A i \in DOMAIN g[d].items :
         g[d].items[i] \in Cells \ {c} /\ h[g[d].items[i]].live
           /\ h[g[d].items[i]].items = <<>>
  BY <1>1, ItemOfLive DEF Sound, ItemsSound
<1>3. Sound(g)
  BY <1>1, <1>2 DEF Sound, ItemsSound
<1>4. \A d \in Cells : /\ ItemRefs(h, d) \in Nat /\ Occurrences(g[c].items, d) \in Nat
                       /\ ItemRefs(g, d) = ItemRefs(h, d) + Occurrences(g[c].items, d)
  <2>. TAKE d \in Cells
  <2>1. ItemRefs(g, d) + Occurrences(h[c].items, d)
          = ItemRefs(h, d) + Occurrences(g[c].items, d)
    <3>1. c \in Cells /\ h \in Heaps /\ \A e \in Cells \ {c} : g[e].items = h[e].items
      BY <1>1
    <3>. QED
      BY <3>1, ReplaceItems
  <2>2. Occurrences(h[c].items, d) = 0
    BY <1>1, OccurrencesEmpty
  <2>3. /\ ItemRefs(h, d) \in Nat /\ ItemRefs(g, d) \in Nat
        /\ Occurrences(g[c].items, d) \in Nat
    BY <1>1, ItemRefsType, RefsCount
  <2>. QED
    BY <2>1, <2>2, <2>3
<1>5. ItemRefs(h, c) = 0 /\ Occurrences(g[c].items, c) = 0
  <2>1. \A i \in DOMAIN g[c].items : g[c].items[i] # c
    BY <1>1
  <2>. QED
    BY <1>1, <2>1, HeapType, Unreferenced, OccurrencesType
<1>6. ASSUME NEW d \in Cells, more[d] > 0 PROVE g[d].live
  <2>1. CASE d # c
    <3>1. more[d] + Occurrences(g[c].items, d) = ext[d] /\ more[d] \in Nat /\ ext[d] \in Nat
      BY <2>1 DEF Balanced
    <3>2. ext[d] > 0
      BY <1>4, <1>6, <3>1
    <3>. QED
      BY <2>1, <3>2 DEF Balanced
  <2>. QED
    BY <2>1
<1>7. ASSUME NEW d \in Cells, g[d].live, g[d].rc # 0
      PROVE  g[d].rc = more[d] + ItemRefs(g, d)
  <2>1. CASE d = c
    <3>1. ItemRefs(g, c) = 0
      BY <1>1, <1>4, <1>5
    <3>2. g[c].rc = 1
      BY <1>7, <2>1
    <3>. QED
      BY <2>1, <3>1, <3>2
  <2>2. CASE d # c
    <3>1. h[d].rc = ext[d] + ItemRefs(h, d) /\ g[d].rc = h[d].rc
      BY <1>7, <2>2 DEF Balanced
    <3>2. more[d] + Occurrences(g[c].items, d) = ext[d] /\ more[d] \in Nat /\ ext[d] \in Nat
      BY <2>2 DEF Balanced
    <3>. QED
      BY <1>4, <3>1, <3>2
  <2>. QED
    BY <2>1, <2>2
<1>. QED
  BY <1>3, <1>6, <1>7 DEF Balanced

LEMMA FreeShape ==
  Free \in Cell /\ Free.live = FALSE /\ Free.rc = 0 /\ Free.items = <<>>
BY DEF Free, Cell

LEMMA DecrefShape ==
  ASSUME NEW h \in Heaps, NEW c \in Cells
  PROVE  /\ decref(h, c) \in Heaps
         /\ \A d \in Cells \ {c} : decref(h, c)[d] = h[d]
         /\ h[c].rc = 0 => decref(h, c) = h
         /\ h[c].rc = 1 => decref(h, c)[c] = Free
         /\ h[c].rc > 1 => /\ decref(h, c)[c].live = h[c].live
                           /\ decref(h, c)[c].items = h[c].items
                           /\ decref(h, c)[c].rc = h[c].rc - 1
<1>1. h[c] \in Cell /\ h[c].rc \in Nat
  BY HeapType
<1>2. CASE h[c].rc = 0
  BY <1>2 DEF decref, IsStatic
<1>3. CASE h[c].rc = 1
  <2>1. decref(h, c) = [h EXCEPT ![c] = Free]
    BY <1>3 DEF decref, IsStatic
  <2>. QED
    BY <1>3, <2>1, FreeShape DEF Heaps
<1>4. CASE h[c].rc > 1
  <2>1. decref(h, c) = [h EXCEPT ![c].rc = @ - 1]
    BY <1>1, <1>4 DEF decref, IsStatic
  <2>2. [h[c] EXCEPT !.rc = @ - 1] \in Cell
    BY <1>1, <1>4 DEF Cell
  <2>. QED
    BY <1>1, <1>4, <2>1, <2>2 DEF Heaps, Cell
<1>. QED
  BY <1>1, <1>2, <1>3, <1>4

(* A cell is freed with its last reference: nothing refers to it any more. *)
LEMMA LastReference ==
  ASSUME NEW h, NEW ext, Sound(h), Balanced(h, ext),
         NEW c \in Cells, ext[c] > 0, h[c].rc = 1
  PROVE  /\ ext[c] = 1 /\ ItemRefs(h, c) = 0 /\ Occurrences(h[c].items, c) = 0
         /\ \A d \in Cells : \A i \in DOMAIN h[d].items : h[d].items[i] # c
<1>1. h \in Heaps /\ ext[c] \in Nat /\ h[c].live /\ ItemRefs(h, c) \in Nat
  BY ItemRefsType DEF Sound, Balanced
<1>2. h[c].rc = ext[c] + ItemRefs(h, c)
  BY <1>1 DEF Balanced
<1>3. ext[c] = 1 /\ ItemRefs(h, c) = 0
  BY <1>1, <1>2
<1>4. \A d \in Cells : \A i \in DOMAIN h[d].items : h[d].items[i] # c
  BY <1>1, <1>3, NoItemRefs
<1>5. Occurrences(h[c].items, c) = 0
  BY <1>1, <1>4, HeapType, OccurrencesType
<1>. QED
  BY <1>3, <1>4, <1>5

(* decref of a cell: what a box that is freed with it held, it still owns. *)
LEMMA DecrefBalanced ==
  ASSUME NEW h, NEW ext, Sound(h), Balanced(h, ext),
         NEW c \in Cells, ext[c] > 0,
         NEW more \in [Cells -> Nat],
         \A d \in Cells :
           more[d] + Bit(d, c)
             = ext[d] + (IF h[c].rc = 1 THEN Occurrences(h[c].items, d) ELSE 0)
  PROVE  Sound(decref(h, c)) /\ Balanced(decref(h, c), more)
<1>. DEFINE g == decref(h, c)
<1>. SUFFICES Sound(g) /\ Balanced(g, more)
  OBVIOUS
<1>1. /\ h \in Heaps /\ ext \in [Cells -> Nat] /\ h[c].live /\ h[c].rc \in Nat
  BY HeapType DEF Sound, Balanced
<1>2. /\ g \in Heaps
      /\ \A d \in Cells \ {c} : g[d] = h[d]
      /\ h[c].rc = 0 => g = h
      /\ h[c].rc = 1 => g[c] = Free
      /\ h[c].rc > 1 => g[c].live = h[c].live /\ g[c].items = h[c].items
                          /\ g[c].rc = h[c].rc - 1
  BY <1>1, DecrefShape
<1>. HIDE DEF g
<1>3. CASE h[c].rc # 1
  <2>1. \A d \in Cells : g[d].live = h[d].live /\ g[d].items = h[d].items
    <3>. TAKE d \in Cells
    <3>1. CASE d # c
      BY <1>2, <3>1
    <3>2. CASE d = c /\ h[c].rc = 0
      BY <1>2, <3>2
    <3>3. CASE d = c /\ h[c].rc > 1
      BY <1>2, <3>3
    <3>. QED
      BY <1>1, <1>3, <3>1, <3>2, <3>3
  <2>2. Sound(g)
    <3>1. ItemsSound(g)
      BY <1>1, <2>1, ItemOfLive DEF Sound, ItemsSound
    <3>2. ASSUME NEW d \in Cells, ~g[d].live PROVE g[d] = Free
      <4>1. ~h[d].live /\ d # c
        BY <1>1, <2>1, <3>2
      <4>. QED
        BY <1>2, <4>1 DEF Sound
    <3>. QED
      BY <1>2, <3>1, <3>2 DEF Sound
  <2>3. \A d \in Cells : ItemRefs(g, d) = ItemRefs(h, d) /\ ItemRefs(h, d) \in Nat
    BY <1>1, <2>1, SameItemRefs, ItemRefsType
  <2>4. \A d \in Cells : /\ more[d] + Bit(d, c) = ext[d] /\ ext[d] \in Nat
                         /\ more[d] \in Nat
    BY <1>1, <1>3
  <2>5. ASSUME NEW d \in Cells, more[d] > 0 PROVE g[d].live
    <3>1. ext[d] > 0
      BY <2>4, <2>5 DEF Bit
    <3>. QED
      BY <2>1, <3>1 DEF Balanced
  <2>6. ASSUME NEW d \in Cells, g[d].live, g[d].rc # 0
        PROVE  g[d].rc = more[d] + ItemRefs(g, d)
    <3>1. h[d].rc = ext[d] + ItemRefs(h, d) /\ g[d].rc + Bit(d, c) = h[d].rc
      <4>1. CASE d # c
        BY <1>2, <1>1, HeapType, <2>6, <4>1 DEF Balanced, Bit
      <4>2. CASE d = c /\ h[c].rc > 1
        <5>1. g[c].rc = h[c].rc - 1 /\ h[c].rc \in Nat
          BY <1>1, <1>2, <4>2
        <5>2. h[c].rc = ext[c] + ItemRefs(h, c)
          BY <1>1, <4>2 DEF Balanced
        <5>3. Bit(d, c) = 1
          BY <4>2 DEF Bit
        <5>. QED
          BY <4>2, <5>1, <5>2, <5>3
      <4>3. CASE d = c /\ h[c].rc = 0
        BY <1>2, <2>6, <4>3
      <4>. QED
        BY <1>1, <1>3, <4>1, <4>2, <4>3
    <3>2. Bit(d, c) \in {0, 1} /\ g[d].rc \in Nat
      BY <1>2, HeapType DEF Bit
    <3>. QED
      BY <2>3, <2>4, <3>1, <3>2
  <2>. QED
    BY <2>2, <2>5, <2>6 DEF Balanced
<1>4. CASE h[c].rc = 1
  <2>1. /\ ext[c] = 1 /\ ItemRefs(h, c) = 0 /\ Occurrences(h[c].items, c) = 0
        /\ \A d \in Cells : \A i \in DOMAIN h[d].items : h[d].items[i] # c
    BY <1>4, LastReference
  <2>2. g[c] = Free /\ ~g[c].live /\ g[c].items = <<>>
    BY <1>2, <1>4, FreeShape
  <2>3. Sound(g)
    <3>1. ItemsSound(g)
      <4>. SUFFICES ASSUME NEW d \in Cells, NEW i \in DOMAIN g[d].items
                    PROVE  g[g[d].items[i]].live /\ g[g[d].items[i]].items = <<>>
        BY DEF ItemsSound
      <4>1. d # c /\ g[d] = h[d]
        BY <1>2, <2>2
      <4>2. h[d].items[i] \in Cells \ {c}
        BY <1>1, <2>1, <4>1, ItemOfLive
      <4>. QED
        BY <1>2, <4>1, <4>2 DEF Sound, ItemsSound
    <3>. QED
      BY <1>2, <2>2, <3>1 DEF Sound
  <2>4. \A d \in Cells : /\ ItemRefs(g, d) + Occurrences(h[c].items, d) = ItemRefs(h, d)
                         /\ ItemRefs(g, d) \in Nat /\ ItemRefs(h, d) \in Nat
                         /\ Occurrences(h[c].items, d) \in Nat
    <3>. TAKE d \in Cells
    <3>1. \A e \in Cells \ {c} : g[e].items = h[e].items
      BY <1>2
    <3>2. /\ ItemRefs(g, d) + Occurrences(h[c].items, d)
               = ItemRefs(h, d) + Occurrences(g[c].items, d)
          /\ ItemRefs(g, d) \in Nat /\ ItemRefs(h, d) \in Nat
          /\ Occurrences(h[c].items, d) \in Nat
      BY <1>1, <1>2, <3>1, ReplaceItems
    <3>3. Occurrences(g[c].items, d) = 0
      BY <2>2, OccurrencesEmpty
    <3>. QED
      BY <3>2, <3>3
  <2>5. \A d \in Cells : /\ more[d] + Bit(d, c) = ext[d] + Occurrences(h[c].items, d)
                         /\ ext[d] \in Nat /\ more[d] \in Nat
    BY <1>1, <1>4
  <2>6. more[c] = 0
    BY <2>1, <2>5 DEF Bit
  <2>7. ASSUME NEW d \in Cells, more[d] > 0 PROVE g[d].live
    <3>1. d # c /\ more[d] = ext[d] + Occurrences(h[c].items, d)
      BY <2>4, <2>5, <2>6, <2>7 DEF Bit
    <3>2. CASE ext[d] > 0
      BY <1>2, <3>1, <3>2 DEF Balanced
    <3>3. CASE Occurrences(h[c].items, d) # 0
      <4>1. \E i \in DOMAIN h[c].items : h[c].items[i] = d
        BY <1>1, <3>3, HeapType, OccurrencesType
      <4>. QED
        BY <1>2, <3>1, <4>1 DEF Sound, ItemsSound
    <3>. QED
      BY <2>4, <2>5, <2>7, <3>1, <3>2, <3>3
  <2>8. ASSUME NEW d \in Cells, g[d].live, g[d].rc # 0
        PROVE  g[d].rc = more[d] + ItemRefs(g, d)
    <3>1. d # c /\ g[d] = h[d]
      BY <1>2, <2>2, <2>8
    <3>2. g[d].rc = ext[d] + ItemRefs(h, d)
      BY <2>8, <3>1 DEF Balanced
    <3>3. more[d] = ext[d] + Occurrences(h[c].items, d)
      BY <2>4, <2>5, <3>1 DEF Bit
    <3>. QED
      BY <2>4, <2>5, <3>2, <3>3
  <2>. QED
    BY <2>3, <2>7, <2>8 DEF Balanced
<1>. QED
  BY <1>1, <1>3, <1>4

LEMMA FewerShape ==
  ASSUME NEW x \in Cell, NEW n \in Nat, x.rc > n
  PROVE  /\ [x EXCEPT !.rc = @ - n] \in Cell
         /\ [x EXCEPT !.rc = @ - n].live = x.live
         /\ [x EXCEPT !.rc = @ - n].items = x.items
         /\ [x EXCEPT !.rc = @ - n].rc = x.rc - n
<1>1. x.rc \in Nat /\ x.rc - n \in Nat
  BY DEF Cell
<1>. QED
  BY <1>1 DEF Cell

LEMMA DecrefAllShape ==
  ASSUME NEW h \in Heaps, NEW cells \in Seq(Cells), NEW d \in Cells
  PROVE  /\ decref_all(h, cells) \in Heaps
         /\ h[d].rc = 0 => decref_all(h, cells)[d] = h[d]
         /\ h[d].rc # 0 /\ h[d].rc <= Occurrences(cells, d) => decref_all(h, cells)[d] = Free
         /\ h[d].rc # 0 /\ h[d].rc > Occurrences(cells, d)
              => /\ decref_all(h, cells)[d].live = h[d].live
                 /\ decref_all(h, cells)[d].items = h[d].items
                 /\ decref_all(h, cells)[d].rc = h[d].rc - Occurrences(cells, d)
<1>. DEFINE g == decref_all(h, cells)
<1>1. \A e \in Cells : h[e] \in Cell /\ h[e].rc \in Nat /\ Occurrences(cells, e) \in Nat
  BY HeapType, OccurrencesType
<1>2. ASSUME NEW e \in Cells
      PROVE  /\ h[e].rc = 0 => g[e] = h[e]
             /\ h[e].rc # 0 /\ h[e].rc <= Occurrences(cells, e) => g[e] = Free
             /\ h[e].rc # 0 /\ ~(h[e].rc <= Occurrences(cells, e))
                  => g[e] = [h[e] EXCEPT !.rc = @ - Occurrences(cells, e)]
  BY DEF decref_all, IsStatic
<1>3. DOMAIN g = Cells /\ g = [e \in Cells |-> g[e]]
  BY DEF decref_all
<1>. HIDE DEF g
<1>4. ASSUME NEW e \in Cells, h[e].rc # 0, ~(h[e].rc <= Occurrences(cells, e))
      PROVE  /\ g[e] \in Cell
             /\ g[e].live = h[e].live /\ g[e].items = h[e].items
             /\ g[e].rc = h[e].rc - Occurrences(cells, e)
  <2>1. h[e].rc > Occurrences(cells, e)
    BY <1>1, <1>4
  <2>2. g[e] = [h[e] EXCEPT !.rc = @ - Occurrences(cells, e)]
    BY <1>2, <1>4
  <2>. QED
    BY <1>1, <2>1, <2>2, FewerShape
<1>5. \A e \in Cells : g[e] \in Cell
  BY <1>1, <1>2, <1>4, FreeShape
<1>6. g \in Heaps
  BY <1>3, <1>5 DEF Heaps
<1>7. h[d].rc # 0 /\ h[d].rc > Occurrences(cells, d)
        => /\ g[d].live = h[d].live /\ g[d].items = h[d].items
           /\ g[d].rc = h[d].rc - Occurrences(cells, d)
  BY <1>1, <1>4
<1>. QED
  BY <1>2, <1>6, <1>7 DEF g

(* What a decref of the list c from h to g leaves.                         *)
Released(h, c, g, more) ==
  /\ Sound(g) /\ Balanced(g, more)
  /\ \A d \in Cells :
       /\ g[d].live => h[d].live /\ g[d].items = h[d].items
       /\ h[d].live /\ ~g[d].live => d = c \/ \E i \in DOMAIN h[c].items : h[c].items[i] = d

(* The generated decref of a list: with the last reference to it its items *)
(* are let go of, and every other count stays right.                       *)
LEMMA ReleaseBalanced ==
  ASSUME NEW h, NEW ext, Sound(h), Balanced(h, ext),
         NEW c \in Cells, ext[c] > 0, NEW shown,
         NEW more \in [Cells -> Nat], \A d \in Cells : more[d] + Bit(d, c) = ext[d]
  PROVE  Released(h, c, release(h, c, shown), more)
<1>1. /\ h \in Heaps /\ ext \in [Cells -> Nat] /\ h[c].live /\ h[c].rc \in Nat
  BY HeapType DEF Sound, Balanced
<1>2. CASE h[c].rc # 1
  <2>1. release(h, c, shown) = decref(h, c)
    BY <1>2 DEF release, has_one_ref
  <2>2. Sound(decref(h, c)) /\ Balanced(decref(h, c), more)
    <3>1. \A d \in Cells :
            more[d] + Bit(d, c)
              = ext[d] + (IF h[c].rc = 1 THEN Occurrences(h[c].items, d) ELSE 0)
      BY <1>1, <1>2
    <3>. QED
      BY <3>1, DecrefBalanced
  <2>3. ASSUME NEW d \in Cells
        PROVE  decref(h, c)[d].live = h[d].live /\ decref(h, c)[d].items = h[d].items
    <3>1. CASE d # c \/ h[c].rc = 0
      BY <1>1, <3>1, DecrefShape
    <3>2. CASE d = c /\ h[c].rc > 1
      BY <1>1, <3>2, DecrefShape
    <3>. QED
      BY <1>1, <1>2, <3>1, <3>2
  <2>. QED
    BY <2>1, <2>2, <2>3 DEF Released
<1>3. CASE h[c].rc = 1
  <2>. DEFINE items == h[c].items
              f == decref_all(h, items)
              g == release(h, c, shown)
              k(d) == Occurrences(items, d)
  <2>1. g = decref(f, c)
    BY <1>3 DEF release, has_one_ref, allocation_items
  <2>2. /\ ext[c] = 1 /\ ItemRefs(h, c) = 0 /\ k(c) = 0
        /\ \A d \in Cells : \A i \in DOMAIN h[d].items : h[d].items[i] # c
    BY <1>3, LastReference
  <2>3. items \in Seq(Cells) /\ \A d \in Cells : k(d) \in Nat /\ h[d].rc \in Nat
    BY <1>1, HeapType, OccurrencesType
  <2>4. \A d \in Cells :
          /\ f \in Heaps
          /\ h[d].rc = 0 => f[d] = h[d]
          /\ h[d].rc # 0 /\ h[d].rc <= k(d) => f[d] = Free
          /\ h[d].rc # 0 /\ h[d].rc > k(d)
               => f[d].live = h[d].live /\ f[d].items = h[d].items /\ f[d].rc = h[d].rc - k(d)
    BY <1>1, <2>3, DecrefAllShape
  <2>5. f \in Heaps /\ f[c].rc = 1
    BY <1>3, <2>2, <2>4
  <2>6. g \in Heaps /\ g[c] = Free /\ \A d \in Cells \ {c} : g[d] = f[d]
    BY <2>1, <2>5, DecrefShape
  <2>7. \A d \in Cells : k(d) # 0 => h[d].live /\ h[d].items = <<>>
                                       /\ \E i \in DOMAIN items : items[i] = d
    <3>. SUFFICES ASSUME NEW d \in Cells, k(d) # 0
                  PROVE  h[d].live /\ h[d].items = <<>> /\ \E i \in DOMAIN items : items[i] = d
      OBVIOUS
    <3>1. \E i \in DOMAIN items : items[i] = d
      BY <2>3, OccurrencesType
    <3>. QED
      BY <3>1 DEF Sound, ItemsSound
  <2>. HIDE DEF f, g, items, k
  <2>8. \A d \in Cells \ {c} : g[d].items = h[d].items
    <3>. TAKE d \in Cells \ {c}
    <3>1. CASE h[d].rc = 0 \/ h[d].rc > k(d)
      BY <2>3, <2>4, <2>6, <3>1
    <3>2. CASE h[d].rc # 0 /\ h[d].rc <= k(d)
      <4>1. g[d] = Free /\ k(d) # 0
        BY <2>3, <2>4, <2>6, <3>2
      <4>. QED
        BY <2>7, <4>1, FreeShape
    <3>. QED
      BY <2>3, <3>1, <3>2
  <2>9. \A d \in Cells : /\ ItemRefs(g, d) + k(d) = ItemRefs(h, d)
                         /\ ItemRefs(g, d) \in Nat /\ ItemRefs(h, d) \in Nat
    <3>. TAKE d \in Cells
    <3>1. /\ ItemRefs(g, d) + Occurrences(h[c].items, d)
               = ItemRefs(h, d) + Occurrences(g[c].items, d)
          /\ ItemRefs(g, d) \in Nat /\ ItemRefs(h, d) \in Nat
      BY <1>1, <2>6, <2>8, ReplaceItems
    <3>2. Occurrences(g[c].items, d) = 0
      BY <2>6, FreeShape, OccurrencesEmpty
    <3>. QED
      BY <3>1, <3>2 DEF k, items
  <2>10. \A d \in Cells : /\ more[d] + Bit(d, c) = ext[d]
                          /\ ext[d] \in Nat /\ more[d] \in Nat
    BY <1>1
  <2>11. more[c] = 0
    BY <2>2, <2>10 DEF Bit
  (* A cell that is counted as an item of a cell that stays is not freed.  *)
  <2>12. ASSUME NEW d \in Cells \ {c}, h[d].live, more[d] + ItemRefs(g, d) > 0
         PROVE  g[d].live
    <3>1. more[d] = ext[d]
      BY <2>10 DEF Bit
    <3>2. h[d].rc # 0 => h[d].rc = ext[d] + ItemRefs(h, d)
      BY <2>12 DEF Balanced
    <3>3. h[d].rc # 0 => h[d].rc > k(d)
      BY <2>3, <2>9, <2>10, <2>12, <3>1, <3>2
    <3>. QED
      BY <2>4, <2>6, <2>12, <3>3
  <2>13. ItemsSound(g)
    <3>. SUFFICES ASSUME NEW d \in Cells, NEW i \in DOMAIN g[d].items
                  PROVE  g[g[d].items[i]].live /\ g[g[d].items[i]].items = <<>>
      BY DEF ItemsSound
    <3>1. d # c /\ g[d].items = h[d].items
      BY <2>6, <2>8, FreeShape
    <3>. DEFINE e == g[d].items[i]
    <3>2. e \in Cells \ {c} /\ h[e].live /\ h[e].items = <<>>
      BY <1>1, <2>2, <3>1, ItemOfLive DEF Sound, ItemsSound
    <3>3. ItemRefs(g, e) > 0
      BY <2>6, ItemRefsCounts
    <3>. HIDE DEF e
    <3>4. more[e] + ItemRefs(g, e) > 0
      BY <2>9, <2>10, <3>2, <3>3
    <3>5. g[e].live /\ g[e].items = <<>>
      BY <2>8, <2>12, <3>2, <3>4
    <3>. QED
      BY <3>5 DEF e
  <2>14. ASSUME NEW d \in Cells, ~g[d].live PROVE g[d] = Free
    <3>1. CASE d = c
      BY <2>6, <3>1
    <3>2. CASE d # c /\ h[d].rc = 0
      BY <2>4, <2>6, <2>14, <3>2 DEF Sound
    <3>3. CASE d # c /\ h[d].rc # 0
      <4>1. h[d].live
        BY <3>3, FreeShape DEF Sound
      <4>. QED
        BY <2>3, <2>4, <2>6, <2>14, <3>3, <4>1
    <3>. QED
      BY <3>1, <3>2, <3>3
  <2>15. Sound(g)
    BY <2>6, <2>13, <2>14 DEF Sound
  <2>16. ASSUME NEW d \in Cells, more[d] > 0 PROVE g[d].live
    <3>1. d # c /\ ext[d] > 0
      BY <2>10, <2>11, <2>16 DEF Bit
    <3>2. h[d].live /\ more[d] + ItemRefs(g, d) > 0
      BY <2>9, <2>10, <2>16, <3>1 DEF Balanced
    <3>. QED
      BY <2>12, <3>1, <3>2
  <2>17. ASSUME NEW d \in Cells, g[d].live, g[d].rc # 0
         PROVE  g[d].rc = more[d] + ItemRefs(g, d)
    <3>1. d # c /\ g[d] = f[d]
      BY <2>6, <2>17, FreeShape
    <3>2. h[d].rc # 0 /\ h[d].rc > k(d)
      BY <2>3, <2>4, <2>17, <3>1, FreeShape
    <3>3. g[d].rc = h[d].rc - k(d) /\ h[d].live
      BY <2>4, <2>17, <3>1, <3>2
    <3>4. h[d].rc = ext[d] + ItemRefs(h, d)
      BY <3>2, <3>3 DEF Balanced
    <3>5. more[d] = ext[d]
      BY <2>10, <3>1 DEF Bit
    <3>. QED
      BY <2>3, <2>9, <2>10, <3>3, <3>4, <3>5
  <2>18. Balanced(g, more)
    BY <2>16, <2>17 DEF Balanced
  <2>19. ASSUME NEW d \in Cells, g[d].live PROVE h[d].live /\ g[d].items = h[d].items
    <3>1. d # c /\ g[d] = f[d]
      BY <2>6, <2>19, FreeShape
    <3>. QED
      BY <2>3, <2>4, <2>8, <2>19, <3>1, FreeShape
  <2>20. ASSUME NEW d \in Cells, h[d].live, ~g[d].live
         PROVE  d = c \/ \E i \in DOMAIN items : items[i] = d
    <3>1. CASE k(d) = 0 /\ d # c
      <4>1. g[d] = f[d]
        BY <2>6, <3>1
      <4>2. h[d].rc # 0 => h[d].rc > k(d)
        BY <2>3, <3>1
      <4>. QED
        BY <2>4, <2>20, <4>1, <4>2
    <3>. QED
      BY <2>7, <3>1
  <2>. QED
    BY <2>15, <2>18, <2>19, <2>20 DEF g, items, Released
<1>. QED
  BY <1>2, <1>3

=============================================================================
