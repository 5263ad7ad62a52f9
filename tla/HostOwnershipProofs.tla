------------------------ MODULE HostOwnershipProofs ------------------------
(***************************************************************************)
(* The references of the main loop come out even, for any number of        *)
(* allocations, effects and cells kept, as long as the application does not*)
(* keep the lists of effects it returns.                                   *)
(***************************************************************************)
EXTENDS HostOwnership, RocHeapProofs

-----------------------------------------------------------------------------
(* Data: a cell without items, of which only the count matters.            *)

DataCell(n) == IF n = 0 THEN Free ELSE [live |-> TRUE, rc |-> n, items |-> <<>>]

LEMMA DataShape ==
  ASSUME NEW n \in Nat
  PROVE  /\ DataCell(n) \in Cell /\ (DataCell(n).live <=> n # 0)
         /\ DataCell(n).rc = n /\ DataCell(n).items = <<>>
<1>1. CASE n = 0
  BY <1>1, FreeShape DEF DataCell
<1>2. CASE n # 0
  <2>1. DataCell(n) = [live |-> TRUE, rc |-> n, items |-> <<>>]
    BY <1>2 DEF DataCell
  <2>2. <<>> \in Seq(Cells) /\ TRUE \in BOOLEAN
    OBVIOUS
  <2>. QED
    BY <1>2, <2>1, <2>2 DEF Cell
<1>. QED
  BY <1>1, <1>2

(* A cell is its three fields.                                             *)
LEMMA CellIs ==
  ASSUME NEW x \in Cell
  PROVE  x = [live |-> x.live, rc |-> x.rc, items |-> x.items]
BY DEF Cell

LEMMA DataIs ==
  ASSUME NEW x \in Cell, NEW n \in Nat \ {0}, x.live, x.rc = n, x.items = <<>>
  PROVE  x = DataCell(n)
<1>1. x.live = TRUE
  BY DEF Cell
<1>2. x = [live |-> TRUE, rc |-> n, items |-> <<>>]
  BY <1>1, CellIs, Zenon
<1>. QED
  BY <1>2 DEF DataCell

More(x, n) == [x EXCEPT !.rc = @ + n]

LEMMA MoreShape ==
  ASSUME NEW x \in Cell, NEW n \in Nat
  PROVE  /\ More(x, n) \in Cell /\ More(x, n).live = x.live
         /\ More(x, n).items = x.items /\ More(x, n).rc = x.rc + n
<1>1. x.rc \in Nat /\ x.rc + n \in Nat
  BY DEF Cell
<1>. QED
  BY <1>1 DEF Cell, More

(* One reference more than is held.                                        *)
LEMMA OccurrencesAppend ==
  ASSUME NEW T, NEW cells \in Seq(T), NEW d \in T, NEW c
  PROVE  Occurrences(cells \o <<d>>, c) = Occurrences(cells, c) + Bit(d, c)
<1>. DEFINE all == cells \o <<d>>
            n == Len(cells)
            S == 1 .. n
            x == n + 1
<1>1. /\ n \in Nat /\ IsFiniteSet(S) /\ x \notin S /\ DOMAIN cells = S /\ all \in Seq(T)
      /\ DOMAIN all = S \cup {x} /\ all[x] = d
      /\ \A i \in S : all[i] = cells[i]
  <2>1. n \in Nat /\ x \notin S /\ DOMAIN cells = S /\ all \in Seq(T)
    OBVIOUS
  <2>2. IsFiniteSet(S)
    BY FS_Interval
  <2>3. Len(all) = n + 1
    OBVIOUS
  <2>4. DOMAIN all = 1 .. n + 1
    BY <2>1, <2>3
  <2>5. all[x] = d /\ \A i \in S : all[i] = cells[i]
    OBVIOUS
  <2>. QED
    BY <2>1, <2>2, <2>4, <2>5
<1>. HIDE DEF all, n, S, x
<1>2. Occurrences(all, c) = Cardinality(Places(all, S \cup {x}, c))
  BY <1>1, OccurrencesType
<1>3. Cardinality(Places(all, S \cup {x}, c))
        = Cardinality(Places(all, S, c)) + Bit(all[x], c)
  BY <1>1, CountAdd
<1>4. Places(all, S, c) = Places(cells, DOMAIN cells, c)
  BY <1>1 DEF Places
<1>5. Occurrences(cells, c) = Cardinality(Places(cells, DOMAIN cells, c))
  BY OccurrencesType
<1>. QED
  BY <1>1, <1>2, <1>3, <1>4, <1>5 DEF all

LEMMA OccurrencesIn ==
  ASSUME NEW T, NEW cells \in Seq(T), NEW c
  PROVE  Occurrences(cells, c) > 0 <=> c \in ToSet(cells)
BY OccurrencesType DEF ToSet

(* What is retained has as many references more.                           *)
LEMMA IncrefAllData ==
  ASSUME NEW h \in Heaps, NEW cells \in Seq(Cells)
  PROVE  /\ incref_all(h, cells) \in Heaps
         /\ \A c \in Cells :
              /\ Occurrences(cells, c) = 0 => incref_all(h, cells)[c] = h[c]
              /\ \A n \in Nat : h[c] = DataCell(n) /\ (n = 0 => Occurrences(cells, c) = 0)
                   => incref_all(h, cells)[c] = DataCell(n + Occurrences(cells, c))
<1>. DEFINE g == incref_all(h, cells)
<1>1. \A c \in Cells : h[c] \in Cell /\ h[c].rc \in Nat /\ Occurrences(cells, c) \in Nat
  BY HeapType, OccurrencesType
<1>2. \A c \in Cells : g[c] = IF h[c].rc = 0 THEN h[c]
                              ELSE More(h[c], Occurrences(cells, c))
  BY DEF incref_all, IsStatic, More
<1>3. g = [c \in Cells |-> g[c]]
  BY DEF incref_all
<1>. HIDE DEF g
<1>4. \A c \in Cells : g[c] \in Cell
  BY <1>1, <1>2, MoreShape
<1>5. g \in Heaps
  BY <1>3, <1>4 DEF Heaps
<1>6. ASSUME NEW c \in Cells, Occurrences(cells, c) = 0 PROVE g[c] = h[c]
  <2>1. CASE h[c].rc = 0
    BY <1>2, <2>1
  <2>2. CASE h[c].rc # 0
    <3>1. g[c] = More(h[c], 0)
      BY <1>2, <1>6, <2>2
    <3>2. /\ g[c] \in Cell /\ g[c].live = h[c].live /\ g[c].items = h[c].items
          /\ g[c].rc = h[c].rc + 0 /\ h[c].rc \in Nat
      <4>1. h[c] \in Cell /\ 0 \in Nat /\ h[c].rc \in Nat
        BY <1>1
      <4>. QED
        BY <3>1, <4>1, MoreShape, Zenon
    <3>3. g[c].rc = h[c].rc
      BY <3>2
    <3>. QED
      BY <1>1, <3>2, <3>3, CellIs, Zenon
  <2>. QED
    BY <2>1, <2>2
<1>7. ASSUME NEW c \in Cells, NEW n \in Nat, h[c] = DataCell(n),
             n = 0 => Occurrences(cells, c) = 0
      PROVE  g[c] = DataCell(n + Occurrences(cells, c))
  <2>1. CASE n = 0
    BY <1>6, <1>7, <2>1
  <2>2. CASE n # 0
    <3>1. h[c].live /\ h[c].rc = n /\ h[c].items = <<>>
      BY <1>7, <2>2, DataShape
    <3>2. g[c] = More(h[c], Occurrences(cells, c))
      BY <1>2, <2>2, <3>1
    <3>3. /\ g[c] \in Cell /\ g[c].live /\ g[c].items = <<>>
          /\ g[c].rc = n + Occurrences(cells, c)
      <4>1. h[c] \in Cell /\ Occurrences(cells, c) \in Nat
        BY <1>1
      <4>2. /\ g[c] \in Cell /\ g[c].live = h[c].live /\ g[c].items = h[c].items
            /\ g[c].rc = h[c].rc + Occurrences(cells, c)
        BY <3>2, <4>1, MoreShape, Zenon
      <4>. QED
        BY <3>1, <4>2
    <3>4. n + Occurrences(cells, c) \in Nat \ {0}
      BY <1>1, <2>2
    <3>. QED
      BY <3>3, <3>4, DataIs
  <2>. QED
    BY <2>1, <2>2
<1>. QED
  BY <1>5, <1>6, <1>7 DEF g

(* The release of data takes one reference.                                *)
LEMMA ReleaseData ==
  ASSUME NEW h \in Heaps, NEW c \in Cells, NEW n \in Nat \ {0}, h[c] = DataCell(n), NEW k
  PROVE  /\ release(h, c, k) \in Heaps /\ release(h, c, k)[c] = DataCell(n - 1)
         /\ \A d \in Cells \ {c} : release(h, c, k)[d] = h[d]
         /\ decref(h, c) \in Heaps /\ decref(h, c)[c] = DataCell(n - 1)
         /\ \A d \in Cells \ {c} : decref(h, c)[d] = h[d]
<1>1. h[c].rc = n /\ h[c].items = <<>> /\ h[c].live
  BY DataShape
<1>2. decref(h, c)[c] = DataCell(n - 1)
  <2>1. CASE n = 1
    BY <1>1, <2>1, DecrefShape DEF DataCell
  <2>2. CASE n > 1
    <3>1. /\ decref(h, c)[c] \in Cell /\ decref(h, c)[c].live
          /\ decref(h, c)[c].items = <<>> /\ decref(h, c)[c].rc = n - 1
      BY <1>1, <2>2, DecrefShape, HeapType
    <3>. QED
      BY <2>2, <3>1, DataIs
  <2>. QED
    BY <2>1, <2>2
<1>3. decref_all(h, <<>>) = h
  <2>1. <<>> \in Seq(Cells)
    OBVIOUS
  <2>2. decref_all(h, <<>>) \in Heaps
    BY <2>1, DecrefAllShape
  <2>3. ASSUME NEW d \in Cells PROVE decref_all(h, <<>>)[d] = h[d]
    <3>1. h[d] \in Cell /\ h[d].rc \in Nat /\ decref_all(h, <<>>)[d] \in Cell
      BY <2>2, HeapType
    <3>2. Occurrences(<<>>, d) = 0
      BY OccurrencesEmpty
    <3>3. CASE h[d].rc = 0
      BY <2>1, <3>3, DecrefAllShape
    <3>4. CASE h[d].rc # 0
      <4>1. h[d].rc > Occurrences(<<>>, d)
        BY <3>1, <3>2, <3>4
      <4>2. /\ decref_all(h, <<>>)[d].live = h[d].live
            /\ decref_all(h, <<>>)[d].items = h[d].items
            /\ decref_all(h, <<>>)[d].rc = h[d].rc - 0
        BY <2>1, <3>2, <3>4, <4>1, DecrefAllShape
      <4>. QED
        BY <3>1, <4>2 DEF Cell
    <3>. QED
      BY <3>3, <3>4
  <2>. QED
    BY <2>2, <2>3 DEF Heaps
<1>4. release(h, c, k) = decref(h, c)
  BY <1>1, <1>3 DEF release, allocation_items
<1>5. decref(h, c) \in Heaps /\ \A d \in Cells \ {c} : decref(h, c)[d] = h[d]
  BY DecrefShape
<1>. QED
  BY <1>2, <1>4, <1>5

-----------------------------------------------------------------------------
(* The release of one reference after the other.                           *)

Drops(a, h, cells, n) ==
  a = [k \in 0 .. n |->
         IF k = 0 THEN h
         ELSE release(a[k - 1], cells[k], Len(a[k - 1][cells[k]].items))]

LEMMA DropsExists ==
  ASSUME NEW h, NEW cells PROVE \A n \in Nat : \E a : Drops(a, h, cells, n)
<1>. DEFINE Drop(g, c) == release(g, c, Len(g[c].items))
            S == {n \in Nat : \E a : Drops(a, h, cells, n)}
<1>1. 0 \in S
  <2>. DEFINE a == [k \in 0 .. 0 |-> h]
  <2>1. Drops(a, h, cells, 0)
    BY DEF Drops
  <2>. QED
    BY <2>1
<1>2. ASSUME NEW n \in Nat, n \in S PROVE n + 1 \in S
  <2>1. PICK a : Drops(a, h, cells, n)
    BY <1>2
  <2>. DEFINE b == [k \in 0 .. n + 1 |->
                      IF k = n + 1 THEN Drop(a[n], cells[k]) ELSE a[k]]
  <2>2. \A k \in 0 .. n : b[k] = a[k] /\ a[k] = IF k = 0 THEN h ELSE Drop(a[k - 1], cells[k])
    BY <2>1 DEF Drops
  <2>3. \A k \in 0 .. n + 1 : b[k] = IF k = 0 THEN h ELSE Drop(b[k - 1], cells[k])
    <3>. HIDE DEF Drop
    <3>. TAKE k \in 0 .. n + 1
    <3>1. CASE k = n + 1
      BY <2>2, <3>1
    <3>2. CASE k \in 0 .. n /\ k # 0
      <4>1. k - 1 \in 0 .. n
        BY <3>2
      <4>2. b[k] = a[k] /\ b[k - 1] = a[k - 1]
        BY <2>2, <3>2, <4>1
      <4>. QED
        BY <2>2, <3>2, <4>2
    <3>3. CASE k = 0
      <4>1. 0 \in 0 .. n /\ b[0] = a[0] /\ a[0] = h
        BY <2>2
      <4>. QED
        BY <3>3, <4>1
    <3>. QED
      BY <3>1, <3>2, <3>3
  <2>4. Drops(b, h, cells, n + 1)
    <3>1. b = [k \in 0 .. n + 1 |-> b[k]]
      OBVIOUS
    <3>. HIDE DEF b
    <3>. QED
      BY <2>3, <3>1 DEF Drops
  <2>. QED
    BY <2>4
<1>. HIDE DEF S
<1>3. \A n \in Nat : n \in S
  BY <1>1, <1>2, SetInduction
<1>. QED
  BY <1>3 DEF S

LEMMA ReleaseAllDrops ==
  ASSUME NEW h, NEW cells, Len(cells) \in Nat
  PROVE  \E a : Drops(a, h, cells, Len(cells)) /\ release_all(h, cells) = a[Len(cells)]
<1>. DEFINE n == Len(cells)
            after == CHOOSE a : Drops(a, h, cells, n)
<1>1. Drops(after, h, cells, n)
  BY DropsExists
<1>2. release_all(h, cells) = after[n]
  BY DEF release_all, Drops
<1>. QED
  BY <1>1, <1>2

(* The cell c after k of the references to cells have been released.       *)
LeftOf(cells, n, k, c) == n[c] - Cardinality(Places(cells, 1 .. k, c))

LEMMA ReleaseAllData ==
  ASSUME NEW h \in Heaps, NEW cells \in Seq(Cells), NEW n \in [Cells -> Nat],
         \A c \in Cells : Occurrences(cells, c) > 0 =>
            h[c] = DataCell(n[c]) /\ n[c] >= Occurrences(cells, c)
  PROVE  /\ release_all(h, cells) \in Heaps
         /\ \A c \in Cells :
              release_all(h, cells)[c] = IF Occurrences(cells, c) = 0 THEN h[c]
                                         ELSE DataCell(n[c] - Occurrences(cells, c))
<1>. DEFINE last == Len(cells)
            P(k, c) == Cardinality(Places(cells, 1 .. k, c))
<1>1. PICK a : Drops(a, h, cells, last) /\ release_all(h, cells) = a[last]
  BY ReleaseAllDrops
<1>2. last \in Nat /\ DOMAIN cells = 1 .. last
  OBVIOUS
<1>3. /\ a[0] = h
      /\ \A k \in 0 .. last : k # 0 =>
           a[k] = release(a[k - 1], cells[k], Len(a[k - 1][cells[k]].items))
  <2>1. \A k \in 0 .. last :
          a[k] = IF k = 0 THEN h
                 ELSE release(a[k - 1], cells[k], Len(a[k - 1][cells[k]].items))
    BY <1>1 DEF Drops
  <2>2. 0 \in 0 .. last
    BY <1>2
  <2>. QED
    BY <2>1, <2>2
<1>. HIDE DEF last
<1>4. ASSUME NEW k \in 0 .. last, NEW c
      PROVE  /\ P(k, c) \in Nat /\ P(k, c) <= Occurrences(cells, c)
             /\ Occurrences(cells, c) \in Nat
             /\ k # last => P(k + 1, c) = P(k, c) + Bit(cells[k + 1], c)
  <2>1. /\ Occurrences(cells, c) = Cardinality(Places(cells, 1 .. last, c))
        /\ IsFiniteSet(Places(cells, 1 .. last, c)) /\ Occurrences(cells, c) \in Nat
    BY <1>2, OccurrencesType
  <2>2. Places(cells, 1 .. k, c) \subseteq Places(cells, 1 .. last, c)
    BY <1>2 DEF Places
  <2>3. P(k, c) \in Nat /\ P(k, c) <= Occurrences(cells, c)
    BY <2>1, <2>2, FS_Subset, FS_CardinalityType
  <2>4. ASSUME k # last PROVE P(k + 1, c) = P(k, c) + Bit(cells[k + 1], c)
    <3>. DEFINE S == 1 .. k
                x == k + 1
    <3>1. IsFiniteSet(S) /\ x \notin S /\ 1 .. k + 1 = S \cup {x}
      <4>1. k \in Nat
        BY <1>2
      <4>2. IsFiniteSet(S)
        BY <4>1, FS_Interval
      <4>. QED
        BY <4>1, <4>2
    <3>. HIDE DEF S, x
    <3>2. Cardinality(Places(cells, S \cup {x}, c))
            = Cardinality(Places(cells, S, c)) + Bit(cells[x], c)
      BY <3>1, CountAdd
    <3>. QED
      BY <3>1, <3>2 DEF S, x
  <2>. QED
    BY <2>1, <2>3, <2>4
<1>5. \A c : P(0, c) = 0 /\ P(last, c) = Occurrences(cells, c)
  <2>1. 1 .. 0 = {}
    OBVIOUS
  <2>. QED
    BY <1>2, <2>1, NoPlaces, OccurrencesType
<1>. DEFINE Holds(k) == /\ a[k] \in Heaps
                        /\ \A c \in Cells : a[k][c] = IF Occurrences(cells, c) = 0 THEN h[c]
                                                       ELSE DataCell(n[c] - P(k, c))
            S == {k \in Nat : k <= last => Holds(k)}
<1>6. 0 \in S
  <2>1. \A c \in Cells : n[c] - 0 = n[c] /\ Occurrences(cells, c) \in Nat
    BY <1>2, <1>4
  <2>2. \A c \in Cells : Occurrences(cells, c) # 0 => h[c] = DataCell(n[c] - P(0, c))
    BY <1>5, <2>1
  <2>. HIDE DEF P
  <2>. QED
    BY <1>3, <2>2
<1>7. ASSUME NEW k \in Nat, k \in S PROVE k + 1 \in S
  <2>. SUFFICES ASSUME k + 1 <= last PROVE Holds(k + 1)
    OBVIOUS
  <2>1. k \in 0 .. last /\ k + 1 \in 0 .. last /\ k # last /\ Holds(k)
    BY <1>2, <1>7
  <2>. DEFINE x == cells[k + 1]
              g == a[k]
              m == n[x] - P(k, x)
  <2>2. x \in Cells /\ k + 1 \in DOMAIN cells
    BY <1>2, <2>1
  <2>3. Occurrences(cells, x) # 0
    BY <2>2, OccurrencesType
  <2>4. m \in Nat \ {0} /\ n[x] \in Nat /\ m - 1 = n[x] - P(k + 1, x)
    <3>1. P(k + 1, x) = P(k, x) + 1 /\ P(k, x) \in Nat
      BY <1>4, <2>1 DEF Bit
    <3>2. P(k + 1, x) <= Occurrences(cells, x) /\ Occurrences(cells, x) \in Nat
      BY <1>4, <2>1
    <3>3. n[x] >= Occurrences(cells, x) /\ n[x] \in Nat
      BY <2>2, <2>3, <3>2
    <3>. DEFINE p == P(k, x)
                q == P(k + 1, x)
                o == Occurrences(cells, x)
                y == n[x]
    <3>4. q = p + 1 /\ p \in Nat /\ q <= o /\ o \in Nat /\ y >= o /\ y \in Nat
      BY <3>1, <3>2, <3>3
    <3>. HIDE DEF p, q, o, y
    <3>5. y - p \in Nat \ {0} /\ y \in Nat /\ (y - p) - 1 = y - q
      BY <3>4
    <3>. QED
      BY <3>5 DEF p, q, o, y
  <2>5. g \in Heaps /\ g[x] = DataCell(m)
    BY <2>1, <2>2, <2>3
  <2>6. a[k + 1] = release(g, x, Len(g[x].items))
    BY <1>3, <2>1
  <2>. HIDE DEF x, g, m
  <2>7. /\ a[k + 1] \in Heaps /\ a[k + 1][x] = DataCell(m - 1)
        /\ \A c \in Cells \ {x} : a[k + 1][c] = g[c]
    BY <2>2, <2>4, <2>5, <2>6, ReleaseData
  <2>8. \A c : c # x => P(k + 1, c) = P(k, c)
    <3>. SUFFICES ASSUME NEW c, c # x PROVE P(k + 1, c) = P(k, c)
      OBVIOUS
    <3>1. P(k + 1, c) = P(k, c) + Bit(cells[k + 1], c) /\ P(k, c) \in Nat
      BY <1>4, <2>1
    <3>2. Bit(cells[k + 1], c) = 0
      BY DEF Bit, x
    <3>. HIDE DEF P
    <3>. QED
      BY <3>1, <3>2
  <2>9. \A c \in Cells : g[c] = IF Occurrences(cells, c) = 0 THEN h[c]
                                 ELSE DataCell(n[c] - P(k, c))
    BY <2>1 DEF g
  <2>. HIDE DEF P
  <2>. QED
    BY <2>3, <2>4, <2>7, <2>8, <2>9
<1>8. Holds(last)
  <2>. HIDE DEF S
  <2>1. \A k \in Nat : k \in S
    BY <1>6, <1>7, SetInduction
  <2>. QED
    BY <1>2, <2>1 DEF S
<1>. HIDE DEF P
<1>. QED
  BY <1>1, <1>5, <1>8

-----------------------------------------------------------------------------
(* The application.                                                        *)

Holding(items) == [live |-> TRUE, rc |-> 1, items |-> items]

LEMMA AllocateShape ==
  ASSUME NEW h \in Heaps, NEW c \in Cells, NEW items \in Seq(Cells)
  PROVE  /\ Allocate(h, c, items) \in Heaps /\ Allocate(h, c, items)[c] = Holding(items)
         /\ \A e \in Cells \ {c} : Allocate(h, c, items)[e] = h[e]
<1>1. Holding(items) \in Cell
  BY DEF Holding, Cell
<1>2. Allocate(h, c, items) = [h EXCEPT ![c] = Holding(items)]
  BY DEF Allocate, Holding
<1>. QED
  BY <1>1, <1>2 DEF Heaps

(* What a call leaves: the new model, the new list of effects if there is  *)
(* one, and data that is referred to as often as these two refer to it.    *)
Returned(g, l, b, sends, keeps) ==
  /\ g \in Heaps /\ g[b] = Holding(keeps)
  /\ sends # <<>> => g[l] = Holding(sends)
  /\ \A c \in Cells \ {b} : (c = l => sends = <<>>) =>
       g[c] = DataCell(Occurrences(sends, c) + Occurrences(keeps, c))

LEMMA ReturnShape ==
  ASSUME NEW h \in Heaps, NEW held \in Seq(Cells),
         \A c \in Cells : h[c] = DataCell(Occurrences(held, c)),
         NEW d \in Cells, NEW l \in Cells, NEW b \in Cells, d # l, d # b, l # b,
         Occurrences(held, d) = 0, Occurrences(held, l) = 0, Occurrences(held, b) = 0,
         NEW sends \in Seq(ToSet(held) \cup {d}), NEW keeps \in Seq(ToSet(held) \cup {d})
  PROVE  Returned(Return(h, held, d, l, b, sends, keeps), l, b, sends, keeps)
<1>. DEFINE mine == ToSet(held) \cup {d}
            base(c) == Occurrences(held, c) + Bit(d, c)
            os(c) == Occurrences(sends, c)
            ok(c) == Occurrences(keeps, c)
            h1 == Allocate(h, d, <<>>)
            h2 == incref_all(h1, sends)
            h3 == IF sends = <<>> THEN h2 ELSE Allocate(h2, l, sends)
            h4 == incref_all(h3, keeps)
            h5 == Allocate(h4, b, keeps)
            h6 == release_all(h5, held \o <<d>>)
<1>1. Return(h, held, d, l, b, sends, keeps) = h6
  BY DEF Return
<1>2. sends \in Seq(Cells) /\ keeps \in Seq(Cells) /\ held \o <<d>> \in Seq(Cells)
  <2>1. mine \subseteq Cells
    BY DEF ToSet
  <2>2. sends \in Seq(mine) /\ keeps \in Seq(mine)
    OBVIOUS
  <2>. HIDE DEF mine
  <2>3. sends \in Seq(Cells) /\ keeps \in Seq(Cells)
    BY <2>1, <2>2
  <2>. QED
    BY <2>3
<1>3. ASSUME NEW c \in Cells
      PROVE  /\ base(c) \in Nat /\ os(c) \in Nat /\ ok(c) \in Nat
             /\ base(c) = 0 => os(c) = 0 /\ ok(c) = 0
             /\ Occurrences(held \o <<d>>, c) = base(c)
  <2>1. Occurrences(held, c) \in Nat /\ os(c) \in Nat /\ ok(c) \in Nat
    BY <1>2, OccurrencesType
  <2>2. Occurrences(held \o <<d>>, c) = base(c)
    BY OccurrencesAppend
  <2>3. ASSUME os(c) # 0 \/ ok(c) # 0 PROVE base(c) # 0
    <3>1. c \in mine
      <4>1. sends \in Seq(mine) /\ keeps \in Seq(mine)
        OBVIOUS
      <4>. HIDE DEF mine
      <4>2. c \in ToSet(sends) \/ c \in ToSet(keeps)
        BY <1>2, <2>1, <2>3, OccurrencesIn
      <4>. QED
        BY <4>1, <4>2 DEF ToSet
    <3>2. Occurrences(held, c) > 0 \/ c = d
      BY <3>1, OccurrencesIn
    <3>. QED
      BY <2>1, <3>2 DEF Bit
  <2>. QED
    BY <2>1, <2>2, <2>3 DEF Bit
<1>4. base(l) = 0 /\ base(b) = 0
  BY DEF Bit
<1>5. h1 \in Heaps /\ \A c \in Cells : h1[c] = DataCell(base(c))
  <2>1. <<>> \in Seq(Cells)
    OBVIOUS
  <2>2. h1 \in Heaps /\ h1[d] = Holding(<<>>) /\ \A c \in Cells \ {d} : h1[c] = h[c]
    BY <2>1, AllocateShape
  <2>3. Holding(<<>>) = DataCell(1)
    BY DEF Holding, DataCell
  <2>4. base(d) = 1 /\ \A c \in Cells \ {d} : base(c) = Occurrences(held, c)
    <3>1. \A c \in Cells : Occurrences(held, c) \in Nat
      BY OccurrencesType
    <3>. QED
      BY <3>1 DEF Bit
  <2>. HIDE DEF h1, base
  <2>. QED
    BY <2>2, <2>3, <2>4
<1>. HIDE DEF base, os, ok
<1>6. h2 \in Heaps /\ \A c \in Cells : h2[c] = DataCell(base(c) + os(c))
  <2>. HIDE DEF h1
  <2>1. h2 \in Heaps
    BY <1>2, <1>5, IncrefAllData
  <2>2. ASSUME NEW c \in Cells PROVE h2[c] = DataCell(base(c) + os(c))
    <3>1. h1[c] = DataCell(base(c)) /\ base(c) \in Nat /\ (base(c) = 0 => os(c) = 0)
      BY <1>3, <1>5
    <3>. QED
      BY <1>2, <1>5, <3>1, IncrefAllData DEF os
  <2>. QED
    BY <2>1, <2>2
<1>7. /\ h3 \in Heaps /\ (sends # <<>> => h3[l] = Holding(sends))
      /\ \A c \in Cells : (c = l => sends = <<>>) => h3[c] = DataCell(base(c) + os(c))
  <2>. HIDE DEF h2
  <2>1. CASE sends = <<>>
    BY <1>6, <2>1
  <2>2. CASE sends # <<>>
    <3>1. h3 = Allocate(h2, l, sends)
      BY <2>2
    <3>. HIDE DEF h3
    <3>2. /\ h3 \in Heaps /\ h3[l] = Holding(sends)
          /\ \A c \in Cells \ {l} : h3[c] = h2[c]
      BY <1>2, <1>6, <3>1, AllocateShape
    <3>. QED
      BY <1>6, <2>2, <3>2
  <2>. QED
    BY <2>1, <2>2
<1>. HIDE DEF h3
<1>8. /\ h4 \in Heaps /\ (sends # <<>> => h4[l] = Holding(sends))
      /\ \A c \in Cells : (c = l => sends = <<>>) => h4[c] = DataCell(base(c) + os(c) + ok(c))
  <2>1. h4 \in Heaps
    BY <1>2, <1>7, IncrefAllData
  <2>2. h4[l] = h3[l]
    BY <1>2, <1>3, <1>4, <1>7, IncrefAllData DEF ok
  <2>3. ASSUME NEW c \in Cells, c = l => sends = <<>>
        PROVE  h4[c] = DataCell(base(c) + os(c) + ok(c))
    <3>1. /\ h3[c] = DataCell(base(c) + os(c)) /\ base(c) + os(c) \in Nat
          /\ base(c) + os(c) = 0 => ok(c) = 0
      <4>1. base(c) \in Nat /\ os(c) \in Nat /\ (base(c) = 0 => ok(c) = 0)
        BY <1>3
      <4>2. h3[c] = DataCell(base(c) + os(c))
        BY <1>7, <2>3
      <4>. QED
        BY <4>1, <4>2
    <3>. QED
      BY <1>2, <1>7, <3>1, IncrefAllData DEF ok
  <2>. HIDE DEF h4
  <2>. QED
    BY <1>7, <2>1, <2>2, <2>3
<1>. HIDE DEF h4
<1>9. /\ h5 \in Heaps /\ h5[b] = Holding(keeps) /\ \A c \in Cells \ {b} : h5[c] = h4[c]
  BY <1>2, <1>8, AllocateShape
<1>. HIDE DEF h5
<1>10. /\ h6 \in Heaps
       /\ \A c \in Cells : h6[c] = IF base(c) = 0 THEN h5[c] ELSE DataCell(os(c) + ok(c))
  <2>. DEFINE n == [c \in Cells |-> base(c) + os(c) + ok(c)]
              all == held \o <<d>>
  <2>1. n \in [Cells -> Nat]
    BY <1>3
  <2>2. \A c \in Cells : n[c] = base(c) + os(c) + ok(c)
    OBVIOUS
  <2>3. all \in Seq(Cells) /\ \A c \in Cells : Occurrences(all, c) = base(c)
    BY <1>2, <1>3
  <2>. HIDE DEF n, all
  <2>4. \A c \in Cells : Occurrences(all, c) > 0 =>
           h5[c] = DataCell(n[c]) /\ n[c] >= Occurrences(all, c)
    <3>. SUFFICES ASSUME NEW c \in Cells, base(c) > 0
                  PROVE  h5[c] = DataCell(n[c]) /\ n[c] >= base(c)
      BY <2>3
    <3>1. c # l /\ c # b
      BY <1>4
    <3>2. h5[c] = DataCell(n[c])
      BY <1>8, <1>9, <2>2, <3>1
    <3>3. base(c) \in Nat /\ os(c) \in Nat /\ ok(c) \in Nat
      BY <1>3
    <3>. QED
      BY <2>2, <3>2, <3>3
  <2>5. /\ release_all(h5, all) \in Heaps
        /\ \A c \in Cells :
             release_all(h5, all)[c] = IF Occurrences(all, c) = 0 THEN h5[c]
                                       ELSE DataCell(n[c] - Occurrences(all, c))
    BY <1>9, <2>1, <2>3, <2>4, ReleaseAllData
  <2>6. h6 = release_all(h5, all)
    BY DEF all
  <2>7. \A c \in Cells : n[c] - base(c) = os(c) + ok(c)
    <3>. TAKE c \in Cells
    <3>1. base(c) \in Nat /\ os(c) \in Nat /\ ok(c) \in Nat
      BY <1>3
    <3>2. n[c] = base(c) + os(c) + ok(c)
      BY <2>2
    <3>. QED
      BY <3>1, <3>2
  <2>. HIDE DEF h6
  <2>. QED
    BY <2>3, <2>5, <2>6, <2>7
<1>. HIDE DEF h6
<1>11. h6[b] = Holding(keeps) /\ (sends # <<>> => h6[l] = Holding(sends))
  BY <1>4, <1>8, <1>9, <1>10
<1>12. ASSUME NEW c \in Cells \ {b}, c = l => sends = <<>>
       PROVE  h6[c] = DataCell(os(c) + ok(c))
  <2>1. CASE base(c) = 0
    <3>1. h6[c] = DataCell(base(c) + os(c) + ok(c))
      BY <1>8, <1>9, <1>10, <1>12, <2>1
    <3>2. base(c) + os(c) + ok(c) = os(c) + ok(c)
      BY <1>3, <2>1
    <3>. QED
      BY <3>1, <3>2
  <2>2. CASE base(c) # 0
    BY <1>10, <2>2
  <2>. QED
    BY <2>1, <2>2
<1>. QED
  BY <1>1, <1>10, <1>11, <1>12 DEF Returned, os, ok

-----------------------------------------------------------------------------
(* The inductive invariant.                                                *)

(* How often c is among the effects that are still to be handled.          *)
ToHandle == next .. Len(ItemsOf(heap, effects))
Pending(c) == Cardinality(Places(ItemsOf(heap, effects), ToHandle, c))

(* While the program runs: model and list of effects are the host's alone, *)
(* and all else is data with one reference for each time the application   *)
(* keeps it and for each effect that is still to be handled.               *)
Owned ==
  /\ model \in Cells /\ effects # model
  /\ heap[model].live /\ heap[model].rc = IF pc = "view" THEN 2 ELSE 1
  /\ \A i \in DOMAIN heap[model].items : heap[model].items[i] \notin {model, effects}
  /\ effects # NoCell =>
       /\ heap[effects].live
       /\ \A i \in DOMAIN heap[effects].items :
            heap[effects].items[i] \notin {model, effects}
  /\ Len(ItemsOf(heap, effects)) <= MaxSends
  /\ pc # "effects" => next > Len(ItemsOf(heap, effects))
  /\ \A c \in Cells \ {model, effects} :
       heap[c] = DataCell(Occurrences(heap[model].items, c) + Pending(c))

OwnInv ==
  /\ TypeOK
  /\ pc = "start" => heap = [c \in Cells |-> Free]
  /\ pc \notin {"start", "exited"} => Owned

-----------------------------------------------------------------------------
(* The choices of the application.                                         *)

LEMMA SequencesOver ==
  ASSUME NEW S, NEW T, S \subseteq T, NEW s \in Seq(S) PROVE s \in Seq(T)
OBVIOUS

LEMMA MinIn ==
  ASSUME NEW S \in SUBSET Nat, S # {} PROVE Min(S) \in S
<1>. DEFINE R == {ss \in Nat \X Nat : ss[1] < ss[2]}
<1>1. IsWellFoundedOn(R, Nat)
  BY NatLessThanWellFounded DEF OpToRel
<1>2. \E x \in S : \A y \in S : ~(<<y, x>> \in R)
  <2>. HIDE DEF R
  <2>. QED
    BY <1>1, WFMin
<1>3. \E x \in S : \A y \in S : x <= y
  <2>1. PICK x \in S : \A y \in S : ~(<<y, x>> \in R)
    BY <1>2
  <2>2. ASSUME NEW y \in S PROVE x <= y
    <3>1. x \in Nat /\ y \in Nat
      OBVIOUS
    <3>2. y < x => <<y, x>> \in R
      BY <3>1
    <3>. QED
      BY <2>1, <3>1, <3>2
  <2>. QED
    BY <2>2
<1>. QED
  BY <1>3 DEF Min

LEMMA BoundedSeqs ==
  ASSUME NEW S, NEW n \in Nat, NEW s \in BoundedSeq(S, n)
  PROVE  s \in Seq(S) /\ Len(s) <= n
<1>1. PICK m \in 0 .. n : s \in [1 .. m -> S]
  BY DEF BoundedSeq, SeqOf
<1>2. m \in Nat /\ m <= n
  BY <1>1
<1>3. s \in Seq(S) /\ Len(s) = m
  BY <1>1, <1>2
<1>. QED
  BY <1>2, <1>3

LEMMA ThreeFree ==
  ASSUME NEW S \in SUBSET Cells, Cardinality(S) >= 3
  PROVE  LET d == Min(S)
             l == Min(S \ {d})
             b == Min(S \ {d, l})
         IN  d \in S /\ l \in S /\ b \in S /\ d # l /\ d # b /\ l # b
<1>. DEFINE d == Min(S)
            T == S \ {d}
            l == Min(T)
            U == T \ {l}
<1>1. /\ S \in SUBSET Nat /\ IsFiniteSet(S) /\ Cardinality(S) \in Nat /\ S # {}
  <2>1. S \in SUBSET Nat
    BY MaxCellsAssumption DEF Cells
  <2>2. IsFiniteSet(S)
    BY CellsFinite, FS_Subset
  <2>. QED
    BY <2>1, <2>2, FS_CardinalityType, FS_EmptySet
<1>2. d \in S
  BY <1>1, MinIn
<1>3. IsFiniteSet(T) /\ Cardinality(T) = Cardinality(S) - 1
  BY <1>1, <1>2, FS_RemoveElement
<1>4. T # {} /\ T \in SUBSET Nat /\ Cardinality(T) >= 2
  <2>. HIDE DEF T, d
  <2>1. Cardinality(T) >= 2
    BY <1>1, <1>3
  <2>2. T # {}
    BY <2>1, FS_EmptySet
  <2>. QED
    BY <1>1, <2>1, <2>2 DEF T
<1>5. l \in T
  <2>. HIDE DEF T
  <2>. QED
    BY <1>4, MinIn
<1>6. IsFiniteSet(U) /\ Cardinality(U) = Cardinality(T) - 1
  <2>. HIDE DEF T, l
  <2>. QED
    BY <1>3, <1>5, FS_RemoveElement
<1>7. U # {} /\ U \in SUBSET Nat
  <2>. HIDE DEF T, U, d, l
  <2>1. Cardinality(U) # 0
    BY <1>1, <1>3, <1>6
  <2>2. U # {}
    BY <2>1, FS_EmptySet
  <2>. QED
    BY <1>4, <2>2 DEF U
<1>8. Min(U) \in U
  <2>. HIDE DEF U
  <2>. QED
    BY <1>7, MinIn
<1>9. U = S \ {d, l}
  OBVIOUS
<1>10. Min(S \ {d, l}) \in S \ {d, l}
  BY <1>8, <1>9
<1>. HIDE DEF d, l, U
<1>11. l \in S /\ d # l
  BY <1>5
<1>. QED
  BY <1>2, <1>10, <1>11 DEF d, l

(* What a call of the application sets.                                    *)
Made(l, b, sends, keeps) ==
  /\ l \in Cells /\ b \in Cells /\ l # b
  /\ sends \in Seq(Cells) /\ keeps \in Seq(Cells) /\ Len(sends) <= MaxSends
  /\ \A i \in DOMAIN sends : sends[i] \notin {l, b}
  /\ \A i \in DOMAIN keeps : keeps[i] \notin {l, b}
  /\ Returned(heap', l, b, sends, keeps)
  /\ model' = b /\ effects' = IF sends = <<>> THEN NoCell ELSE l

LEMMA ApplicationMakes ==
  ASSUME KeepsEffects = FALSE,
         NEW h \in Heaps, NEW held \in Seq(Cells),
         \A c \in Cells : h[c] = DataCell(Occurrences(held, c)),
         Application(h, held)
  PROVE  \E l, b, sends, keeps : Made(l, b, sends, keeps)
<1>. DEFINE free == FreeCells(h)
            d == Min(free)
            l == Min(free \ {d})
            b == Min(free \ {d, l})
            mine == ToSet(held) \cup {d}
<1>1. /\ Cardinality(free) >= 3
      /\ \E sends \in BoundedSeq(DataOf(h, held) \cup {d}, MaxSends) :
         \E keeps \in BoundedSeq(MayKeep(h, held, {d}), MaxKept) :
           /\ heap' = Return(h, held, d, l, b, sends, keeps)
           /\ effects' = IF sends = <<>> THEN NoCell ELSE l
      /\ model' = b
  BY DEF Application
<1>2. PICK sends \in BoundedSeq(DataOf(h, held) \cup {d}, MaxSends),
           keeps \in BoundedSeq(MayKeep(h, held, {d}), MaxKept) :
        /\ heap' = Return(h, held, d, l, b, sends, keeps)
        /\ effects' = IF sends = <<>> THEN NoCell ELSE l
  BY <1>1
<1>3. /\ d \in free /\ l \in free /\ b \in free /\ d # l /\ d # b /\ l # b
  <2>1. free \in SUBSET Cells /\ Cardinality(free) >= 3
    BY <1>1 DEF FreeCells
  <2>. HIDE DEF free
  <2>. QED
    BY <2>1, ThreeFree
<1>4. \A c \in free : c \in Cells /\ Occurrences(held, c) = 0 /\ c \notin ToSet(held)
  <2>. SUFFICES ASSUME NEW c \in Cells, ~h[c].live
                PROVE  Occurrences(held, c) = 0 /\ c \notin ToSet(held)
    BY DEF FreeCells
  <2>1. Occurrences(held, c) \in Nat /\ h[c] = DataCell(Occurrences(held, c))
    BY OccurrencesType
  <2>2. Occurrences(held, c) = 0
    BY <2>1, DataShape
  <2>. QED
    BY <2>2, OccurrencesIn
<1>. HIDE DEF d, l, b, free
<1>5. DataOf(h, held) \cup {d} \subseteq mine /\ MayKeep(h, held, {d}) \subseteq mine
  BY DEF DataOf, MayKeep
<1>6. sends \in Seq(mine) /\ keeps \in Seq(mine) /\ Len(sends) <= MaxSends
  <2>. HIDE DEF mine
  <2>1. /\ sends \in Seq(DataOf(h, held) \cup {d}) /\ Len(sends) <= MaxSends
        /\ keeps \in Seq(MayKeep(h, held, {d}))
    BY <1>2, BoundedSeqs, ConstantsAssumption
  <2>. QED
    BY <1>5, <2>1, SequencesOver
<1>7. mine \subseteq Cells /\ l \notin mine /\ b \notin mine
  BY <1>3, <1>4 DEF ToSet
<1>8. Returned(Return(h, held, d, l, b, sends, keeps), l, b, sends, keeps)
  <2>1. /\ d \in Cells /\ l \in Cells /\ b \in Cells
        /\ Occurrences(held, d) = 0 /\ Occurrences(held, l) = 0 /\ Occurrences(held, b) = 0
    BY <1>3, <1>4
  <2>. QED
    BY <1>3, <1>6, <2>1, ReturnShape
<1>9. Returned(heap', l, b, sends, keeps)
  BY <1>2, <1>8
<1>10. /\ sends \in Seq(Cells) /\ keeps \in Seq(Cells)
       /\ \A i \in DOMAIN sends : sends[i] \notin {l, b}
       /\ \A i \in DOMAIN keeps : keeps[i] \notin {l, b}
  <2>. HIDE DEF mine
  <2>. QED
    BY <1>6, <1>7
<1>11. Made(l, b, sends, keeps)
  BY <1>1, <1>2, <1>3, <1>4, <1>6, <1>9, <1>10 DEF Made, b
<1>. QED
  BY <1>11

(* A call starts the list of effects from its head.                        *)
LEMMA MadeOwned ==
  ASSUME NEW l, NEW b, NEW sends, NEW keeps, Made(l, b, sends, keeps),
         next' = 1, pc' = "effects"
  PROVE  Owned' /\ heap' \in Heaps /\ model' \in Cells /\ effects' \in Cells \cup {NoCell}
<1>1. /\ l \in Cells /\ b \in Cells /\ l # b /\ b # NoCell /\ l # NoCell /\ NoCell \notin Cells
      /\ sends \in Seq(Cells) /\ keeps \in Seq(Cells) /\ Len(sends) <= MaxSends
  BY DEF Made, Cells, NoCell
<1>2. /\ heap' \in Heaps /\ heap'[b] = Holding(keeps)
      /\ sends # <<>> => heap'[l] = Holding(sends)
      /\ \A c \in Cells \ {b} : (c = l => sends = <<>>) =>
           heap'[c] = DataCell(Occurrences(sends, c) + Occurrences(keeps, c))
  BY DEF Made, Returned
<1>3. model' = b /\ effects' = IF sends = <<>> THEN NoCell ELSE l
  BY DEF Made
<1>4. ItemsOf(heap', effects') = sends
  BY <1>1, <1>2, <1>3 DEF ItemsOf, Holding
<1>5. \A c : Pending(c)' = Occurrences(sends, c)
  <2>1. ToHandle' = DOMAIN sends
    BY <1>1, <1>4 DEF ToHandle
  <2>. QED
    BY <1>1, <1>4, <2>1, OccurrencesType DEF Pending
<1>6. /\ heap'[b].live /\ heap'[b].rc = 1 /\ heap'[b].items = keeps
      /\ sends # <<>> => heap'[l].live /\ heap'[l].items = sends
  BY <1>2 DEF Holding
<1>7. /\ \A i \in DOMAIN sends : sends[i] \notin {l, b, NoCell}
      /\ \A i \in DOMAIN keeps : keeps[i] \notin {l, b, NoCell}
  BY <1>1 DEF Made
<1>8. \A c \in Cells \ {model', effects'} :
         heap'[c] = DataCell(Occurrences(heap'[model'].items, c) + Pending(c)')
  <2>. SUFFICES ASSUME NEW c \in Cells \ {model', effects'}
                PROVE  heap'[c] = DataCell(Occurrences(keeps, c) + Occurrences(sends, c))
    BY <1>3, <1>5, <1>6
  <2>1. heap'[c] = DataCell(Occurrences(sends, c) + Occurrences(keeps, c))
    BY <1>2, <1>3
  <2>2. Occurrences(sends, c) \in Nat /\ Occurrences(keeps, c) \in Nat
    BY <1>1, OccurrencesType
  <2>. QED
    BY <2>1, <2>2
<1>9. /\ model' \in Cells /\ effects' # model' /\ effects' \in Cells \cup {NoCell}
      /\ effects' \in {l, NoCell}
      /\ effects' # NoCell => effects' = l /\ sends # <<>>
  BY <1>1, <1>3
<1>. QED
  BY <1>1, <1>2, <1>3, <1>4, <1>6, <1>7, <1>8, <1>9 DEF Owned

LEMMA NoneHeld == ASSUME NEW c PROVE DataCell(Occurrences(<<>>, c)) = Free
BY OccurrencesEmpty DEF DataCell

(* The closures that there are.                                            *)
LEMMA ClosuresAre ==
  /\ NoEvent \notin Closures
  /\ <<"timer", "on_fire">> \in Closures /\ <<"stdin", "on_input">> \in Closures
  /\ \A ev \in TcpEvents : ClosureFor(ev) \in Closures
<1>1. \A ev \in TcpEvents : ClosureFor(ev) \in Closures
  BY DEF TcpEvents, ClosureFor, Closures, TcpStarters
<1>2. NoEvent \notin Closures
  BY DEF NoEvent, Closures, TcpStarters
<1>. QED
  BY <1>1, <1>2 DEF Closures

LEMMA SubscribeTyped ==
  ASSUME Subscribe PROVE subs' \subseteq Sources /\ owned' \in [Closures -> Int]
BY DEF Subscribe

LEMMA StartKeeps ==
  ASSUME KeepsEffects = FALSE, OwnInv, Start PROVE OwnInv'
<1>1. pc = "start" /\ heap = [c \in Cells |-> Free] /\ TypeOK
  BY DEF Start, OwnInv
<1>2. /\ Application(heap, <<>>) /\ next' = 1 /\ pc' = "effects" /\ Subscribe
      /\ tcp' \in BOOLEAN /\ event' = event /\ lost' = lost
  BY DEF Start
<1>3. \E l, b, sends, keeps : Made(l, b, sends, keeps)
  <2>1. heap \in Heaps /\ <<>> \in Seq(Cells)
    BY <1>1 DEF TypeOK, Heaps
  <2>2. \A c \in Cells : heap[c] = DataCell(Occurrences(<<>>, c))
    BY <1>1, NoneHeld
  <2>. QED
    BY <1>2, <2>1, <2>2, ApplicationMakes
<1>4. Owned' /\ heap' \in Heaps /\ model' \in Cells /\ effects' \in Cells \cup {NoCell}
  BY <1>2, <1>3, MadeOwned
<1>5. TypeOK'
  <2>1. subs' \subseteq Sources /\ owned' \in [Closures -> Int]
    BY <1>2, SubscribeTyped
  <2>2. event' \in Closures \cup {NoEvent} /\ (event' # NoEvent <=> pc' = "update")
    BY <1>1, <1>2 DEF TypeOK
  <2>3. next' \in 1 .. MaxSends + 1 /\ lost' \in BOOLEAN
    BY <1>1, <1>2, ConstantsAssumption DEF TypeOK
  <2>. QED
    BY <1>2, <1>4, <2>1, <2>2, <2>3 DEF TypeOK, Heaps
<1>. QED
  BY <1>2, <1>4, <1>5 DEF OwnInv

-----------------------------------------------------------------------------
(* The host.                                                               *)

(* While the program runs the counts are numbers.                          *)
LEMMA OwnedTypes ==
  ASSUME OwnInv, Owned
  PROVE  /\ heap \in Heaps /\ model \in Cells /\ heap[model].items \in Seq(Cells)
         /\ ItemsOf(heap, effects) \in Seq(Cells)
         /\ \A i \in DOMAIN heap[model].items : heap[model].items[i] \in Cells
         /\ \A i \in DOMAIN ItemsOf(heap, effects) :
              /\ ItemsOf(heap, effects)[i] \in Cells \ {model, effects}
              /\ effects # NoCell /\ ItemsOf(heap, effects) = heap[effects].items
         /\ \A c : Occurrences(heap[model].items, c) \in Nat /\ Pending(c) \in Nat
         /\ Occurrences(heap[model].items, model) = 0
         /\ Occurrences(heap[model].items, effects) = 0
<1>1. heap \in Heaps /\ model \in Cells /\ effects \in Cells \cup {NoCell} /\ next \in Nat
  BY DEF OwnInv, TypeOK, Owned, Heaps
<1>2. heap[model].items \in Seq(Cells)
  BY <1>1, HeapType
<1>3. ItemsOf(heap, effects) \in Seq(Cells)
  <2>1. CASE effects = NoCell
    <3>1. ItemsOf(heap, effects) = <<>>
      BY <2>1 DEF ItemsOf
    <3>. QED
      BY <3>1
  <2>2. CASE effects # NoCell
    BY <1>1, <2>2, HeapType DEF ItemsOf
  <2>. QED
    BY <2>1, <2>2
<1>4. ASSUME NEW i \in DOMAIN ItemsOf(heap, effects)
      PROVE  /\ ItemsOf(heap, effects)[i] \in Cells \ {model, effects}
             /\ effects # NoCell /\ ItemsOf(heap, effects) = heap[effects].items
  <2>1. effects # NoCell
    BY <1>4 DEF ItemsOf
  <2>2. ItemsOf(heap, effects) = heap[effects].items
    BY <2>1 DEF ItemsOf
  <2>3. ItemsOf(heap, effects)[i] \in Cells
    BY <1>3
  <2>. QED
    BY <2>1, <2>2, <2>3 DEF Owned
<1>5. \A c : Occurrences(heap[model].items, c) \in Nat /\ Pending(c) \in Nat
  <2>. SUFFICES ASSUME NEW c
                PROVE  Occurrences(heap[model].items, c) \in Nat /\ Pending(c) \in Nat
    OBVIOUS
  <2>1. Len(ItemsOf(heap, effects)) \in Nat
    BY <1>3
  <2>2. IsFiniteSet(ToHandle)
    BY <1>1, <2>1, FS_Interval DEF ToHandle
  <2>. QED
    BY <1>2, <2>2, OccurrencesType, PlacesFinite DEF Pending
<1>6. /\ Occurrences(heap[model].items, model) = 0
      /\ Occurrences(heap[model].items, effects) = 0
  BY <1>2, OccurrencesType DEF Owned
<1>7. \A i \in DOMAIN heap[model].items : heap[model].items[i] \in Cells
  BY <1>2
<1>. QED
  BY <1>1, <1>2, <1>3, <1>4, <1>5, <1>6, <1>7

(* When the effects are handled nothing is pending.                        *)
LEMMA NonePending ==
  ASSUME OwnInv, Owned, next > Len(ItemsOf(heap, effects)), NEW c PROVE Pending(c) = 0
<1>1. next \in Nat /\ Len(ItemsOf(heap, effects)) \in Nat
  BY OwnedTypes DEF OwnInv, TypeOK
<1>2. ToHandle = {}
  BY <1>1 DEF ToHandle
<1>. QED
  BY <1>2, NoPlaces DEF Pending

LEMMA HandleSendKeeps ==
  ASSUME OwnInv, HandleSend PROVE OwnInv'
<1>. DEFINE items == ItemsOf(heap, effects)
            x == items[next]
            keeps == heap[model].items
<1>1. /\ pc = "effects" /\ pc' = pc /\ next <= Len(items) /\ next' = next + 1
      /\ heap' = decref(heap, x) /\ model' = model /\ effects' = effects
      /\ UNCHANGED <<subs, owned, event, tcp, lost>>
  BY DEF HandleSend
<1>2. TypeOK /\ Owned
  BY <1>1 DEF OwnInv
<1>3. /\ heap \in Heaps /\ model \in Cells /\ keeps \in Seq(Cells) /\ items \in Seq(Cells)
      /\ \A c : Occurrences(keeps, c) \in Nat /\ Pending(c) \in Nat
  BY <1>2, OwnedTypes
<1>4. next \in Nat \ {0} /\ Len(items) \in Nat /\ next \in DOMAIN items /\ Len(items) <= MaxSends
  BY <1>1, <1>2, <1>3 DEF TypeOK, Owned
<1>5. x \in Cells \ {model, effects} /\ effects # NoCell /\ items = heap[effects].items
  BY <1>2, <1>4, OwnedTypes
<1>. DEFINE rest(c) == Cardinality(Places(items, next + 1 .. Len(items), c))
<1>6. \A c : Pending(c) = rest(c) + Bit(x, c) /\ rest(c) \in Nat
  <2>. TAKE c
  <2>. DEFINE S == next + 1 .. Len(items)
  <2>1. IsFiniteSet(S) /\ next \notin S /\ ToHandle = S \cup {next}
    <3>1. ToHandle = S \cup {next} /\ next \notin S
      BY <1>1, <1>4 DEF ToHandle
    <3>2. next + 1 \in Int /\ Len(items) \in Int
      BY <1>4
    <3>3. IsFiniteSet(S)
      BY <3>2, FS_Interval
    <3>. QED
      BY <3>1, <3>3
  <2>. HIDE DEF S, items
  <2>2. Cardinality(Places(items, S \cup {next}, c))
          = Cardinality(Places(items, S, c)) + Bit(items[next], c)
    BY <2>1, CountAdd
  <2>3. Cardinality(Places(items, S, c)) \in Nat
    BY <2>1, PlacesFinite
  <2>. QED
    BY <2>1, <2>2, <2>3 DEF Pending, items, S
<1>. DEFINE n == Occurrences(keeps, x) + Pending(x)
<1>7. heap[x] = DataCell(n) /\ n \in Nat \ {0} /\ n - 1 = Occurrences(keeps, x) + rest(x)
  <2>1. heap[x] = DataCell(n)
    BY <1>2, <1>5 DEF Owned
  <2>2. Occurrences(keeps, x) \in Nat /\ rest(x) \in Nat /\ Pending(x) = rest(x) + 1
    BY <1>3, <1>6 DEF Bit
  <2>. HIDE DEF rest, keeps, x
  <2>. QED
    BY <2>1, <2>2
<1>. HIDE DEF n, x
<1>8. /\ heap' \in Heaps /\ heap'[x] = DataCell(n - 1)
      /\ \A d \in Cells \ {x} : heap'[d] = heap[d]
  BY <1>1, <1>3, <1>5, <1>7, ReleaseData
<1>9. heap'[model] = heap[model] /\ heap'[effects] = heap[effects]
  BY <1>2, <1>3, <1>5, <1>8 DEF TypeOK
<1>10. ItemsOf(heap', effects') = items
  BY <1>1, <1>5, <1>9 DEF ItemsOf
<1>11. \A c : Pending(c)' = rest(c)
  <2>1. ToHandle' = next + 1 .. Len(items)
    BY <1>1, <1>10 DEF ToHandle
  <2>. QED
    BY <1>10, <2>1 DEF Pending
<1>. HIDE DEF rest, items
<1>12. ASSUME NEW c \in Cells \ {model, effects}
       PROVE  heap'[c] = DataCell(Occurrences(keeps, c) + Pending(c)')
  <2>1. CASE c = x
    BY <1>7, <1>8, <1>11, <2>1
  <2>2. CASE c # x
    <3>1. heap'[c] = heap[c] /\ heap[c] = DataCell(Occurrences(keeps, c) + Pending(c))
      BY <1>2, <1>8, <2>2 DEF Owned
    <3>2. Pending(c) = Pending(c)'
      BY <1>6, <1>11, <2>2 DEF Bit
    <3>. QED
      BY <3>1, <3>2
  <2>. QED
    BY <2>1, <2>2
<1>13. Owned'
  BY <1>1, <1>2, <1>4, <1>9, <1>10, <1>12 DEF Owned, items
<1>14. TypeOK'
  BY <1>1, <1>2, <1>4, <1>8, ConstantsAssumption DEF TypeOK, Heaps
<1>. QED
  BY <1>1, <1>13, <1>14 DEF OwnInv

(* A step of the wait gives a closure away and leaves it, or goes on with  *)
(* everything as it was.                                                   *)
WaitStep == \/ TimerFires \/ TcpReady \/ TryRecv
            \/ StdinReady \/ KeysRead \/ StdinEnded

Waiting == pc \in {"wait", "tcp", "stdin"}

LEMMA WaitSteps ==
  ASSUME WaitStep
  PROVE  /\ Waiting
         /\ \/ \E c \in Closures :
                 /\ MakesEvent(c)
                 /\ Subscribed(c) \/ (pc = "stdin" /\ c = <<"stdin", "on_input">>)
            \/ /\ Waiting' /\ (pc' = "stdin" => "stdin" \in subs)
               /\ UNCHANGED <<heap, model, effects, next, subs, owned, event, tcp, lost>>
<1>1. CASE TimerFires
  <2>1. Subscribed(<<"timer", "on_fire">>)
    BY <1>1 DEF TimerFires, Subscribed
  <2>. QED
    BY <1>1, <2>1, ClosuresAre DEF TimerFires, Waiting
<1>2. CASE TcpReady
  BY <1>2 DEF TcpReady, Waiting
<1>3. CASE TryRecv
  <2>1. PICK ev \in TcpEvents :
          \/ Subscribed(ClosureFor(ev)) /\ MakesEvent(ClosureFor(ev))
          \/ ~Subscribed(ClosureFor(ev)) /\ WaitsAgain
    BY <1>3 DEF TryRecv
  <2>2. ClosureFor(ev) \in Closures /\ Waiting
    BY <1>3, ClosuresAre DEF TryRecv, Waiting
  <2>3. CASE WaitsAgain
    BY <2>2, <2>3 DEF WaitsAgain, Waiting
  <2>. QED
    BY <2>1, <2>2, <2>3
<1>4. CASE StdinReady
  BY <1>4 DEF StdinReady, Waiting
<1>5. CASE KeysRead
  BY <1>5, ClosuresAre DEF KeysRead, Waiting
<1>6. CASE StdinEnded
  BY <1>6 DEF StdinEnded, WaitsAgain, Waiting
<1>. QED
  BY <1>1, <1>2, <1>3, <1>4, <1>5, <1>6 DEF WaitStep

(* What changes no count.                                                  *)
LEMMA OthersKeep ==
  ASSUME OwnInv, HandleExit \/ HandledAll \/ WaitStep \/ WaitReturnsNone PROVE OwnInv'
<1>1. UNCHANGED <<heap, model, effects, next>> /\ TypeOK
  BY WaitSteps DEF HandleExit, HandledAll, MakesEvent, WaitReturnsNone, OwnInv
<1>2. \A c : Pending(c)' = Pending(c)
  BY <1>1 DEF Pending, ToHandle, ItemsOf
<1>3. ItemsOf(heap', effects') = ItemsOf(heap, effects)
  BY <1>1 DEF ItemsOf
<1>4. CASE HandleExit \/ WaitReturnsNone
  <2>1. /\ pc \in {"effects", "wait"} /\ pc' = "exited"
        /\ UNCHANGED <<subs, owned, event, tcp>> /\ lost' \in BOOLEAN
    BY <1>4, Zenon DEF HandleExit, WaitReturnsNone, Forget
  <2>2. TypeOK'
    BY <1>1, <2>1 DEF TypeOK
  <2>. QED
    BY <2>1, <2>2 DEF OwnInv
<1>5. CASE HandledAll
  <2>1. /\ pc = "effects" /\ pc' = "retain" /\ next > Len(ItemsOf(heap, effects))
        /\ UNCHANGED <<subs, owned, event, tcp, lost>>
    BY <1>5 DEF HandledAll
  <2>2. Owned
    BY <2>1 DEF OwnInv
  <2>3. Owned'
    BY <1>1, <1>2, <1>3, <2>1, <2>2 DEF Owned
  <2>4. TypeOK'
    BY <1>1, <2>1 DEF TypeOK
  <2>. QED
    BY <2>1, <2>3, <2>4 DEF OwnInv
<1>6. CASE WaitStep
  <2>1. Waiting /\ (Waiting \/ pc = "update")' /\ UNCHANGED <<subs, tcp, lost>>
    BY <1>6, WaitSteps DEF MakesEvent, Waiting
  <2>2. Owned
    BY <2>1 DEF OwnInv, Waiting
  <2>3. Owned'
    BY <1>1, <1>2, <1>3, <2>1, <2>2 DEF Owned, Waiting
  <2>4. TypeOK'
    <3>1. /\ owned' \in [Closures -> Int] /\ event' \in Closures \cup {NoEvent}
          /\ (event' # NoEvent <=> pc' = "update")
      <4>1. CASE \E c \in Closures : MakesEvent(c)
        <5>1. PICK c \in Closures : MakesEvent(c)
          BY <4>1
        <5>2. owned' \in [Closures -> Int]
          BY <1>1, <5>1 DEF TypeOK, MakesEvent
        <5>. QED
          BY <5>1, <5>2, ClosuresAre DEF MakesEvent
      <4>2. CASE Waiting' /\ UNCHANGED <<owned, event>>
        BY <1>1, <2>1, <4>2 DEF TypeOK, Waiting
      <4>. QED
        BY <1>6, <4>1, <4>2, WaitSteps
    <3>. QED
      BY <1>1, <2>1, <3>1 DEF TypeOK, Waiting
  <2>. QED
    BY <2>1, <2>3, <2>4 DEF OwnInv, Waiting
<1>. QED
  BY <1>4, <1>5, <1>6

LEMMA RetainKeeps ==
  ASSUME OwnInv, Retain PROVE OwnInv'
<1>1. /\ pc = "retain" /\ pc' = "view" /\ heap' = incref(heap, model, 1)
      /\ UNCHANGED <<model, effects, next, subs, owned, event, tcp, lost>>
  BY DEF Retain
<1>2. TypeOK /\ Owned
  BY <1>1 DEF OwnInv
<1>3. heap \in Heaps /\ model \in Cells /\ heap[model].live /\ heap[model].rc = 1
  BY <1>1, <1>2, OwnedTypes DEF Owned
<1>4. /\ heap' \in Heaps /\ heap'[model] = More(heap[model], 1)
      /\ \A c \in Cells \ {model} : heap'[c] = heap[c]
  <2>1. heap' = [heap EXCEPT ![model] = More(@, 1)]
    BY <1>1, <1>3 DEF incref, IsStatic, More
  <2>2. More(heap[model], 1) \in Cell
    BY <1>3, HeapType, MoreShape
  <2>. QED
    BY <1>3, <2>1, <2>2 DEF Heaps
<1>5. heap'[model].live /\ heap'[model].rc = 2 /\ heap'[model].items = heap[model].items
  <2>1. heap[model] \in Cell
    BY <1>3, HeapType
  <2>2. /\ More(heap[model], 1).live = heap[model].live
        /\ More(heap[model], 1).items = heap[model].items
        /\ More(heap[model], 1).rc = heap[model].rc + 1
    BY <2>1, MoreShape
  <2>3. heap'[model] = More(heap[model], 1)
    BY <1>4
  <2>. HIDE DEF More
  <2>4. /\ heap'[model].live = heap[model].live /\ heap'[model].items = heap[model].items
        /\ heap'[model].rc = heap[model].rc + 1
    BY <2>2, <2>3, Zenon
  <2>. QED
    BY <1>3, <2>4
<1>6. effects # NoCell => heap'[effects] = heap[effects]
  BY <1>2, <1>4 DEF TypeOK, Owned
<1>7. ItemsOf(heap', effects') = ItemsOf(heap, effects)
  BY <1>1, <1>6 DEF ItemsOf
<1>8. \A c : Pending(c)' = Pending(c)
  BY <1>1, <1>7 DEF Pending, ToHandle
<1>9. Owned'
  <2>1. model' = model /\ effects' = effects /\ next' = next
    BY <1>1
  <2>2. \A c \in Cells \ {model, effects} :
          heap'[c] = DataCell(Occurrences(heap'[model].items, c) + Pending(c)')
    BY <1>2, <1>4, <1>5, <1>8 DEF Owned
  <2>. QED
    BY <1>1, <1>2, <1>5, <1>6, <1>7, <2>1, <2>2 DEF Owned
<1>10. TypeOK'
  BY <1>1, <1>2, <1>4 DEF TypeOK, Heaps
<1>. QED
  BY <1>1, <1>9, <1>10 DEF OwnInv

(* What roc_view gets it gives back: every count is as before.             *)
LEMMA ViewKeeps ==
  ASSUME OwnInv, View PROVE OwnInv'
<1>. DEFINE keeps == heap[model].items
            h1 == incref_all(heap, keeps)
            h2 == decref(h1, model)
            n == [c \in Cells |-> (Occurrences(keeps, c) + Pending(c)) + Occurrences(keeps, c)]
<1>1. /\ pc = "view" /\ pc' = "wait" /\ heap' = release_all(unbox(heap, model), keeps)
      /\ lost' \in {lost, TRUE} /\ UNCHANGED <<model, effects, next, subs, owned, event, tcp>>
  BY DEF View
<1>2. TypeOK /\ Owned
  BY <1>1 DEF OwnInv
<1>3. /\ heap \in Heaps /\ model \in Cells /\ heap[model].live /\ heap[model].rc = 2
      /\ keeps \in Seq(Cells)
      /\ \A c : Occurrences(keeps, c) \in Nat /\ Pending(c) \in Nat
      /\ Occurrences(keeps, model) = 0 /\ Occurrences(keeps, effects) = 0
  BY <1>1, <1>2, OwnedTypes DEF Owned
<1>4. unbox(heap, model) = h2
  BY <1>3 DEF unbox
<1>5. /\ h1 \in Heaps /\ h1[model] = heap[model] /\ (effects # NoCell => h1[effects] = heap[effects])
      /\ \A c \in Cells \ {model, effects} : h1[c] = DataCell(n[c])
  <2>1. h1 \in Heaps /\ h1[model] = heap[model]
    BY <1>3, IncrefAllData
  <2>2. effects # NoCell => h1[effects] = heap[effects]
    BY <1>2, <1>3, IncrefAllData DEF TypeOK
  <2>3. ASSUME NEW c \in Cells \ {model, effects} PROVE h1[c] = DataCell(n[c])
    <3>. DEFINE m == Occurrences(keeps, c) + Pending(c)
    <3>1. heap[c] = DataCell(m)
      BY <1>2, <2>3 DEF Owned
    <3>2. m \in Nat /\ (m = 0 => Occurrences(keeps, c) = 0)
      <4>1. Occurrences(keeps, c) \in Nat /\ Pending(c) \in Nat
        BY <1>3
      <4>. QED
        BY <4>1
    <3>3. n[c] = m + Occurrences(keeps, c)
      OBVIOUS
    <3>. HIDE DEF m, n
    <3>4. h1[c] = DataCell(m + Occurrences(keeps, c))
      BY <1>3, <3>1, <3>2, IncrefAllData
    <3>. QED
      BY <3>3, <3>4
  <2>. QED
    BY <2>1, <2>2, <2>3
<1>6. n \in [Cells -> Nat] /\ \A c \in Cells : /\ n[c] >= Occurrences(keeps, c)
                                             /\ n[c] - Occurrences(keeps, c)
                                                  = Occurrences(keeps, c) + Pending(c)
  <2>1. ASSUME NEW c \in Cells
        PROVE  /\ n[c] \in Nat /\ n[c] >= Occurrences(keeps, c)
               /\ n[c] - Occurrences(keeps, c) = Occurrences(keeps, c) + Pending(c)
    <3>1. Occurrences(keeps, c) \in Nat /\ Pending(c) \in Nat
      BY <1>3
    <3>. QED
      BY <3>1
  <2>. QED
    BY <2>1
<1>. HIDE DEF n, h1
<1>7. /\ h2 \in Heaps /\ h2[model].live /\ h2[model].rc = 1 /\ h2[model].items = keeps
      /\ \A c \in Cells \ {model} : h2[c] = h1[c]
  BY <1>3, <1>5, DecrefShape
<1>. HIDE DEF h2
<1>8. /\ heap' \in Heaps
      /\ \A c \in Cells : heap'[c] = IF Occurrences(keeps, c) = 0 THEN h2[c]
                                      ELSE DataCell(n[c] - Occurrences(keeps, c))
  <2>1. \A c \in Cells : Occurrences(keeps, c) > 0 =>
           h2[c] = DataCell(n[c]) /\ n[c] >= Occurrences(keeps, c)
    <3>. SUFFICES ASSUME NEW c \in Cells, Occurrences(keeps, c) > 0
                  PROVE  h2[c] = DataCell(n[c]) /\ n[c] >= Occurrences(keeps, c)
      OBVIOUS
    <3>1. c # model /\ c # effects
      BY <1>3
    <3>. QED
      BY <1>5, <1>6, <1>7, <3>1
  <2>2. /\ release_all(h2, keeps) \in Heaps
        /\ \A c \in Cells :
             release_all(h2, keeps)[c] = IF Occurrences(keeps, c) = 0 THEN h2[c]
                                         ELSE DataCell(n[c] - Occurrences(keeps, c))
    <3>. HIDE DEF keeps
    <3>. QED
      BY <1>3, <1>6, <1>7, <2>1, ReleaseAllData
  <2>. HIDE DEF keeps
  <2>. QED
    BY <1>1, <1>4, <2>2
<1>9. heap'[model].live /\ heap'[model].rc = 1 /\ heap'[model].items = keeps
  BY <1>3, <1>7, <1>8
<1>10. effects # NoCell => heap'[effects] = heap[effects]
  <2>1. effects # NoCell => effects \in Cells \ {model}
    BY <1>2 DEF TypeOK, Owned
  <2>. QED
    BY <1>3, <1>5, <1>7, <1>8, <2>1
<1>11. ItemsOf(heap', effects') = ItemsOf(heap, effects)
  BY <1>1, <1>10 DEF ItemsOf
<1>12. \A c : Pending(c)' = Pending(c)
  BY <1>1, <1>11 DEF Pending, ToHandle
<1>13. ASSUME NEW c \in Cells \ {model, effects}
       PROVE  heap'[c] = DataCell(Occurrences(keeps, c) + Pending(c)')
  <2>1. n[c] - Occurrences(keeps, c) = Occurrences(keeps, c) + Pending(c)'
    BY <1>6, <1>12
  <2>2. CASE Occurrences(keeps, c) = 0
    <3>1. heap'[c] = DataCell(n[c]) /\ n[c] \in Nat
      BY <1>5, <1>6, <1>7, <1>8, <2>2
    <3>2. n[c] = n[c] - Occurrences(keeps, c)
      BY <2>2, <3>1
    <3>. QED
      BY <2>1, <3>1, <3>2
  <2>3. CASE Occurrences(keeps, c) # 0
    BY <1>8, <2>1, <2>3
  <2>. QED
    BY <2>2, <2>3
<1>14. Owned'
  <2>1. model' = model /\ effects' = effects /\ next' = next
    BY <1>1
  <2>. HIDE DEF keeps
  <2>2. \A c \in Cells \ {model, effects} :
          heap'[c] = DataCell(Occurrences(heap'[model].items, c) + Pending(c)')
    BY <1>9, <1>13
  <2>3. \A i \in DOMAIN keeps : keeps[i] \notin {model, effects}
    BY <1>2 DEF Owned, keeps
  <2>. QED
    BY <1>1, <1>2, <1>9, <1>10, <1>11, <2>1, <2>2, <2>3 DEF Owned
<1>15. TypeOK'
  BY <1>1, <1>2, <1>8 DEF TypeOK, Heaps
<1>. QED
  BY <1>1, <1>14, <1>15 DEF OwnInv

(* The cells that are looked at again.                                     *)
LEMMA ReachableAre ==
  ASSUME OwnInv, Owned
  PROVE  Reachable(heap, model) = {model} \cup ToSet(heap[model].items)
<1>. DEFINE direct == ToSet(heap[model].items)
<1>1. model # NoCell /\ heap \in Heaps
  BY OwnedTypes DEF Cells, NoCell
<1>2. ItemsOf(heap, model) = heap[model].items
  BY <1>1 DEF ItemsOf
<1>3. ASSUME NEW c \in direct PROVE heap[c].items = <<>>
  <2>1. c \in Cells \ {model, effects}
    BY <1>3, OwnedTypes DEF ToSet, Owned
  <2>2. heap[c] = DataCell(Occurrences(heap[model].items, c) + Pending(c))
    BY <2>1 DEF Owned
  <2>3. Occurrences(heap[model].items, c) + Pending(c) \in Nat
    BY OwnedTypes
  <2>. QED
    BY <2>2, <2>3, DataShape
<1>4. \A c \in direct : ToSet(heap[c].items) = {}
  BY <1>3 DEF ToSet
<1>5. UNION {ToSet(heap[c].items) : c \in direct} = {}
  <2>. HIDE DEF direct
  <2>. QED
    BY <1>4
<1>. QED
  BY <1>2, <1>5 DEF Reachable

LEMMA UpdateKeeps ==
  ASSUME KeepsEffects = FALSE, OwnInv, Update PROVE OwnInv'
<1>. DEFINE mine == Reachable(heap, model)
            h == [c \in Cells |-> IF c \in mine THEN heap[c] ELSE Free]
            keeps == heap[model].items
            g == unbox(h, model)
<1>1. /\ pc = "update" /\ Application(g, h[model].items)
      /\ Forget /\ Subscribe /\ next' = 1 /\ event' = NoEvent /\ pc' = "effects"
      /\ tcp' = tcp
  BY DEF Update
<1>2. TypeOK /\ Owned
  BY <1>1 DEF OwnInv
<1>3. /\ heap \in Heaps /\ model \in Cells /\ heap[model].rc = 1
      /\ keeps \in Seq(Cells)
      /\ \A c : Occurrences(keeps, c) \in Nat /\ Pending(c) = 0
      /\ Occurrences(keeps, model) = 0 /\ Occurrences(keeps, effects) = 0
  <2>1. next > Len(ItemsOf(heap, effects)) /\ heap[model].rc = 1
    BY <1>1, <1>2 DEF Owned
  <2>. QED
    BY <1>2, <2>1, OwnedTypes, NonePending
<1>4. mine = {model} \cup ToSet(keeps)
  BY <1>2, ReachableAre
<1>. HIDE DEF mine
<1>5. h \in Heaps /\ h[model] = heap[model]
  BY <1>3, <1>4, FreeShape DEF Heaps
<1>6. \A c \in Cells \ {model} : h[c] = DataCell(Occurrences(keeps, c))
  <2>. SUFFICES ASSUME NEW c \in Cells \ {model} PROVE h[c] = DataCell(Occurrences(keeps, c))
    OBVIOUS
  <2>1. CASE c \in ToSet(keeps)
    <3>1. Occurrences(keeps, c) > 0
      BY <1>3, <2>1, OccurrencesIn
    <3>2. c # effects
      BY <1>3, <3>1
    <3>3. heap[c] = DataCell(Occurrences(keeps, c) + Pending(c))
      BY <1>2, <3>2 DEF Owned
    <3>4. Occurrences(keeps, c) + Pending(c) = Occurrences(keeps, c)
      BY <1>3
    <3>5. h[c] = heap[c]
      BY <1>4, <2>1
    <3>. QED
      BY <3>3, <3>4, <3>5
  <2>2. CASE c \notin ToSet(keeps)
    <3>1. Occurrences(keeps, c) = 0
      BY <1>3, <2>2, OccurrencesIn
    <3>2. h[c] = Free
      BY <1>4, <2>2
    <3>. QED
      BY <3>1, <3>2 DEF DataCell
  <2>. QED
    BY <2>1, <2>2
<1>. HIDE DEF h
<1>7. g = [h EXCEPT ![model] = Free]
  BY <1>3, <1>5 DEF unbox
<1>8. g \in Heaps /\ \A c \in Cells : g[c] = DataCell(Occurrences(keeps, c))
  <2>. HIDE DEF g
  <2>1. g \in Heaps /\ g[model] = Free /\ \A c \in Cells \ {model} : g[c] = h[c]
    BY <1>3, <1>5, <1>7, FreeShape DEF Heaps
  <2>2. DataCell(Occurrences(keeps, model)) = Free
    BY <1>3 DEF DataCell
  <2>. QED
    BY <1>6, <2>1, <2>2
<1>9. Application(g, keeps)
  BY <1>1, <1>5
<1>. HIDE DEF g, keeps
<1>10. \E l, b, sends, more : Made(l, b, sends, more)
  BY <1>3, <1>8, <1>9, ApplicationMakes
<1>11. Owned' /\ heap' \in Heaps /\ model' \in Cells /\ effects' \in Cells \cup {NoCell}
  BY <1>1, <1>10, MadeOwned
<1>12. TypeOK'
  <2>1. next' \in 1 .. MaxSends + 1
    BY <1>1, ConstantsAssumption
  <2>2. lost' \in BOOLEAN
    BY <1>1, Zenon DEF Forget
  <2>3. subs' \subseteq Sources /\ owned' \in [Closures -> Int] /\ tcp' \in BOOLEAN
    BY <1>1, <1>2, SubscribeTyped DEF TypeOK
  <2>. QED
    BY <1>1, <1>11, <2>1, <2>2, <2>3 DEF TypeOK, Heaps
<1>. QED
  BY <1>1, <1>11, <1>12 DEF OwnInv

-----------------------------------------------------------------------------
(* The theorems.                                                           *)

LEMMA InitOwnInv == Init => OwnInv
<1>. SUFFICES ASSUME Init PROVE OwnInv
  OBVIOUS
<1>1. [c \in Cells |-> Free] \in [Cells -> Cell]
  BY FreeShape
<1>2. 1 \in 1 .. MaxSends + 1
  BY ConstantsAssumption
<1>3. pc = "start" /\ heap = [c \in Cells |-> Free]
  BY DEF Init
<1>4. /\ model = NoCell /\ effects = NoCell /\ next = 1 /\ subs = {}
      /\ owned = [c \in Closures |-> 0] /\ event = NoEvent /\ tcp = FALSE /\ lost = FALSE
  BY DEF Init
<1>5. heap \in [Cells -> Cell]
  BY <1>1, <1>3
<1>6. TypeOK
  <2>1. owned \in [Closures -> Int] /\ (event # NoEvent <=> pc = "update")
    BY <1>3, <1>4
  <2>2. event \in Closures \cup {NoEvent}
    BY <1>4
  <2>. QED
    BY <1>2, <1>3, <1>4, <1>5, <2>1, <2>2 DEF TypeOK
<1>. QED
  BY <1>3, <1>6 DEF OwnInv

LEMMA NextOwnInv ==
  ASSUME KeepsEffects = FALSE PROVE OwnInv /\ [Next]_vars => OwnInv'
<1>. SUFFICES ASSUME OwnInv, [Next]_vars PROVE OwnInv'
  OBVIOUS
<1>1. CASE UNCHANGED vars
  BY <1>1 DEF vars, OwnInv, TypeOK, Owned, Pending, ToHandle, ItemsOf
<1>2. CASE Start
  BY <1>2, StartKeeps
<1>3. CASE HandleSend
  BY <1>3, HandleSendKeeps
<1>4. CASE HandleExit \/ HandledAll \/ WaitStep \/ WaitReturnsNone
  BY <1>4, OthersKeep
<1>5. CASE Retain
  BY <1>5, RetainKeeps
<1>6. CASE View
  BY <1>6, ViewKeeps
<1>7. CASE Update
  BY <1>7, UpdateKeeps
<1>8. CASE Exited
  BY <1>1, <1>8 DEF Exited
<1>. QED
  BY <1>1, <1>2, <1>3, <1>4, <1>5, <1>6, <1>7, <1>8 DEF Next, WaitStep

(* The inductive invariant, of an application that does not keep the lists *)
(* of effects it returns: the host alone holds the model and the list, and *)
(* a count is what the application keeps and what is still to be sent.     *)
THEOREM OwnershipInvariant == ASSUME KeepsEffects = FALSE PROVE Spec => []OwnInv
<1>1. Init => OwnInv
  BY InitOwnInv
<1>2. OwnInv /\ [Next]_vars => OwnInv'
  BY NextOwnInv
<1>. QED
  BY <1>1, <1>2, PTL DEF Spec

(* Every variable of the main loop keeps its type; no effect is handled    *)
(* beyond the end of the list.                                             *)
THEOREM OwnershipTypeCorrect == ASSUME KeepsEffects = FALSE PROVE Spec => []TypeOK
<1>1. OwnInv => TypeOK
  BY DEF OwnInv
<1>. QED
  BY <1>1, OwnershipInvariant, PTL

(* incref_box before roc_view (lib.rs 345) is the reference that roc_view  *)
(* gives up: whenever the host looks at its model, it has exactly one.     *)
THEOREM OneReferenceToModel == ASSUME KeepsEffects = FALSE PROVE Spec => []OneModelReference
<1>1. OwnInv => OneModelReference
  BY DEF OwnInv, Owned, OneModelReference
<1>. QED
  BY <1>1, OwnershipInvariant, PTL

(* What the loop hands out, releases (lib.rs 661) and overwrites frees     *)
(* nothing that the application keeps or that is still to be sent.         *)
THEOREM NothingInUseIsFreed == ASSUME KeepsEffects = FALSE PROVE Spec => []NothingUsedIsFreed
<1>1. ASSUME OwnInv PROVE NothingUsedIsFreed
  <2>. SUFFICES ASSUME NEW c \in InUse PROVE heap[c].live
    BY DEF NothingUsedIsFreed
  <2>1. Owned
    BY <1>1 DEF OwnInv, InUse
  <2>2. CASE c \in Reachable(heap, model)
    <3>1. CASE c = model
      BY <2>1, <3>1 DEF Owned
    <3>2. CASE c \in ToSet(heap[model].items)
      <4>1. c \in Cells \ {model, effects}
        BY <1>1, <2>1, <3>2, OwnedTypes DEF ToSet, Owned
      <4>2. heap[c] = DataCell(Occurrences(heap[model].items, c) + Pending(c))
        BY <2>1, <4>1 DEF Owned
      <4>3. Occurrences(heap[model].items, c) > 0
        BY <1>1, <2>1, <3>2, OwnedTypes, OccurrencesIn
      <4>4. Occurrences(heap[model].items, c) + Pending(c) \in Nat \ {0}
        BY <1>1, <2>1, <4>3, OwnedTypes
      <4>. QED
        BY <4>2, <4>4, DataShape
    <3>. QED
      BY <1>1, <2>1, <2>2, <3>1, <3>2, ReachableAre
  <2>3. CASE effects # NoCell /\ c = effects
    BY <2>1, <2>3 DEF Owned
  <2>4. ASSUME effects # NoCell,
               NEW i \in next .. Len(heap[effects].items), c = heap[effects].items[i]
        PROVE  heap[c].live
    <3>. DEFINE items == ItemsOf(heap, effects)
    <3>1. items = heap[effects].items /\ items \in Seq(Cells) /\ next \in Nat \ {0}
      BY <1>1, <2>1, <2>4, OwnedTypes DEF ItemsOf, OwnInv, TypeOK
    <3>2. i \in DOMAIN items /\ i \in ToHandle /\ items[i] = c
      BY <2>4, <3>1 DEF ToHandle
    <3>3. c \in Cells \ {model, effects}
      BY <1>1, <2>1, <3>2, OwnedTypes
    <3>4. Pending(c) > 0
      <4>1. IsFiniteSet(ToHandle)
        BY <3>1, FS_Interval DEF ToHandle
      <4>. QED
        BY <3>2, <4>1, PlacesFinite DEF Pending
    <3>5. heap[c] = DataCell(Occurrences(heap[model].items, c) + Pending(c))
      BY <2>1, <3>3 DEF Owned
    <3>6. Occurrences(heap[model].items, c) + Pending(c) \in Nat \ {0}
      BY <1>1, <2>1, <3>4, OwnedTypes
    <3>. QED
      BY <3>5, <3>6, DataShape
  <2>. QED
    BY <2>2, <2>3, <2>4 DEF InUse
<1>. QED
  BY <1>1, OwnershipInvariant, PTL

(* A closure is given to Roc at most once (make_event_from_... at lib.rs   *)
(* 531-595), whatever the application keeps, over any number of rounds of  *)
(* the wait and of the main loop: on the ways round, past an event nobody  *)
(* subscribes to (515-519) and the end of the input (533-535), the host    *)
(* still has all of them, and each branch that gives one looks first that  *)
(* the subscriptions have it, or did before the closure was copied (523).  *)
ClosuresInv ==
  /\ owned \in [Closures -> Int]
  /\ ClosuresGivenOnce
  /\ event # NoEvent => pc = "update"
  /\ pc = "stdin" => "stdin" \in subs

LEMMA MakesEventKeeps ==
  ASSUME ClosuresInv, Waiting, NEW c \in Closures, Subscribed(c), MakesEvent(c)
  PROVE  ClosuresInv'
<1>1. /\ owned' = [owned EXCEPT ![c] = @ - 1] /\ event' = c /\ pc' = "update"
      /\ subs' = subs
  BY DEF MakesEvent
<1>2. event = NoEvent /\ c # NoEvent /\ owned \in [Closures -> Int]
  BY ClosuresAre DEF ClosuresInv, Waiting
<1>3. owned[c] = 1 /\ owned' \in [Closures -> Int]
  BY <1>1, <1>2 DEF ClosuresInv, ClosuresGivenOnce
<1>4. ASSUME NEW d \in Closures
      PROVE  owned'[d] = IF Subscribed(d)' /\ d # event' THEN 1 ELSE 0
  <2>1. Subscribed(d)' <=> Subscribed(d)
    BY <1>1 DEF Subscribed
  <2>2. CASE d = c
    BY <1>1, <1>2, <1>3, <2>2
  <2>3. CASE d # c
    <3>1. d # event
      BY <1>2, ClosuresAre
    <3>2. owned'[d] = owned[d] /\ owned[d] = IF Subscribed(d) /\ d # event THEN 1 ELSE 0
      BY <1>1, <1>2, <2>3 DEF ClosuresInv, ClosuresGivenOnce
    <3>. QED
      BY <1>1, <2>1, <2>3, <3>1, <3>2
  <2>. QED
    BY <2>2, <2>3
<1>5. ClosuresGivenOnce'
  BY <1>4 DEF ClosuresGivenOnce
<1>. QED
  BY <1>1, <1>3, <1>5 DEF ClosuresInv

(* New closures come with new subscriptions.                               *)
LEMMA SubscribeKeeps ==
  ASSUME Subscribe, event' = NoEvent, pc' = "effects" PROVE ClosuresInv'
<1>1. owned' = [c \in Closures |-> IF Subscribed(c)' THEN 1 ELSE 0]
  BY DEF Subscribe
<1>2. \A c \in Closures : c # event'
  BY ClosuresAre
<1>3. ClosuresGivenOnce'
  BY <1>1, <1>2 DEF ClosuresGivenOnce
<1>. QED
  BY <1>1, <1>3 DEF ClosuresInv

THEOREM EachClosureGivenOnce == Spec => []ClosuresGivenOnce
<1>1. Init => ClosuresInv
  <2>. SUFFICES ASSUME Init PROVE ClosuresInv
    OBVIOUS
  <2>1. pc = "start" /\ subs = {} /\ owned = [c \in Closures |-> 0] /\ event = NoEvent
    BY DEF Init
  <2>2. ClosuresGivenOnce
    BY <2>1 DEF ClosuresGivenOnce, Subscribed
  <2>. QED
    BY <2>1, <2>2 DEF ClosuresInv
<1>2. ClosuresInv /\ [Next]_vars => ClosuresInv'
  <2>. SUFFICES ASSUME ClosuresInv, [Next]_vars PROVE ClosuresInv'
    OBVIOUS
  <2>1. CASE Start
    <3>1. Subscribe /\ event' = event /\ pc = "start" /\ pc' = "effects"
      BY <2>1 DEF Start
    <3>. QED
      BY <3>1, SubscribeKeeps DEF ClosuresInv
  <2>2. CASE Update
    BY <2>2, SubscribeKeeps DEF Update
  <2>3. CASE WaitStep
    <3>1. CASE \E c \in Closures :
                 /\ MakesEvent(c)
                 /\ Subscribed(c) \/ (pc = "stdin" /\ c = <<"stdin", "on_input">>)
      <4>1. PICK c \in Closures :
              /\ MakesEvent(c)
              /\ Subscribed(c) \/ (pc = "stdin" /\ c = <<"stdin", "on_input">>)
        BY <3>1
      <4>2. Subscribed(c)
        BY <4>1 DEF ClosuresInv, Subscribed
      <4>. QED
        BY <2>3, <4>1, <4>2, WaitSteps, MakesEventKeeps
    <3>2. CASE /\ Waiting' /\ (pc' = "stdin" => "stdin" \in subs)
               /\ UNCHANGED <<subs, owned, event>>
      <4>1. Waiting
        BY <2>3, WaitSteps
      <4>. QED
        BY <3>2, <4>1 DEF ClosuresInv, ClosuresGivenOnce, Subscribed, Waiting
    <3>. QED
      BY <2>3, <3>1, <3>2, WaitSteps
  <2>4. CASE HandleSend \/ HandledAll \/ Retain \/ View \/ HandleExit \/ WaitReturnsNone
    <3>1. /\ UNCHANGED <<subs, owned, event>>
          /\ pc # "update" /\ pc' \notin {"update", "stdin"}
      BY <2>4 DEF HandleSend, HandledAll, Retain, View, HandleExit, WaitReturnsNone
    <3>. QED
      BY <3>1 DEF ClosuresInv, ClosuresGivenOnce, Subscribed
  <2>5. CASE Exited \/ UNCHANGED vars
    BY <2>5 DEF Exited, vars, ClosuresInv, ClosuresGivenOnce, Subscribed
  <2>. QED
    BY <2>1, <2>2, <2>3, <2>4, <2>5 DEF Next, WaitStep
<1>3. ClosuresInv => ClosuresGivenOnce
  BY DEF ClosuresInv
<1>. QED
  BY <1>1, <1>2, <1>3, PTL DEF Spec

=============================================================================
