------------------------ MODULE GlueRefcountsProofs ------------------------
(***************************************************************************)
(* The counts of GlueRefcounts are right, for any number of allocations,   *)
(* local variables and copies.                                             *)
(***************************************************************************)
EXTENDS GlueRefcounts, RocHeapProofs

-----------------------------------------------------------------------------
(* The fields of the host's types.                                         *)

Types == {"Subscriptions", "Result", "View"} \cup Effects

FieldNames ==
  {"on_fire", "host", "accepted", "accept_closed", "stdin", "address", "connected",
   "connect_closed", "receive", "effects", "m", "rows", "text", "data", "content",
   "filename"}

LEMMA Concatenation ==
  ASSUME NEW S, NEW s \in Seq(S), NEW t \in Seq(S)
  PROVE  /\ s \o t \in Seq(S) /\ Len(s \o t) = Len(s) + Len(t)
         /\ \A i \in 1 .. Len(s) + Len(t) :
              (s \o t)[i] = IF i <= Len(s) THEN s[i] ELSE t[i - Len(s)]
OBVIOUS

LEMMA SubscriptionsFieldsAre ==
  SubscriptionsFields = <<"on_fire", "host", "accepted", "accept_closed", "stdin", "address",
                          "connected", "connect_closed", "receive">>
<1>. DEFINE s1 == TimerFields \o AcceptFields
            s2 == s1 \o StdinFields
            s3 == s2 \o ConnectFields
            s4 == s3 \o ReceiveFields
<1>1. /\ TimerFields \in Seq(FieldNames) /\ Len(TimerFields) = 1
      /\ AcceptFields \in Seq(FieldNames) /\ Len(AcceptFields) = 3
      /\ StdinFields \in Seq(FieldNames) /\ Len(StdinFields) = 1
      /\ ConnectFields \in Seq(FieldNames) /\ Len(ConnectFields) = 3
      /\ ReceiveFields \in Seq(FieldNames) /\ Len(ReceiveFields) = 1
  BY DEF FieldNames, TimerFields, AcceptFields, StdinFields, ConnectFields, ReceiveFields
<1>. HIDE DEF s1, s2, s3, s4
<1>2. s1 \in Seq(FieldNames) /\ s1 = <<"on_fire", "host", "accepted", "accept_closed">>
  <2>1. /\ TimerFields \in Seq(FieldNames) /\ Len(TimerFields) = 1
        /\ AcceptFields \in Seq(FieldNames) /\ Len(AcceptFields) = 3
    BY <1>1
  <2>2. /\ s1 \in Seq(FieldNames) /\ Len(s1) = Len(TimerFields) + Len(AcceptFields)
        /\ \A i \in 1 .. Len(TimerFields) + Len(AcceptFields) :
             s1[i] = IF i <= Len(TimerFields) THEN TimerFields[i] ELSE AcceptFields[i - Len(TimerFields)]
    BY <2>1, Concatenation, Zenon DEF s1
  <2>. QED
    BY <2>1, <2>2 DEF AcceptFields, TimerFields
<1>3. s2 \in Seq(FieldNames) /\ s2 = <<"on_fire", "host", "accepted", "accept_closed", "stdin">>
  <2>1. /\ s1 \in Seq(FieldNames) /\ Len(s1) = 4
        /\ StdinFields \in Seq(FieldNames) /\ Len(StdinFields) = 1
    BY <1>1, <1>2
  <2>2. /\ s2 \in Seq(FieldNames) /\ Len(s2) = Len(s1) + Len(StdinFields)
        /\ \A i \in 1 .. Len(s1) + Len(StdinFields) :
             s2[i] = IF i <= Len(s1) THEN s1[i] ELSE StdinFields[i - Len(s1)]
    BY <2>1, Concatenation, Zenon DEF s2
  <2>. QED
    BY <2>1, <2>2, <1>2 DEF StdinFields
<1>4. s3 \in Seq(FieldNames) /\ s3 = <<"on_fire", "host", "accepted", "accept_closed", "stdin",
                                       "address", "connected", "connect_closed">>
  <2>1. /\ s2 \in Seq(FieldNames) /\ Len(s2) = 5
        /\ ConnectFields \in Seq(FieldNames) /\ Len(ConnectFields) = 3
    BY <1>1, <1>3
  <2>2. /\ s3 \in Seq(FieldNames) /\ Len(s3) = Len(s2) + Len(ConnectFields)
        /\ \A i \in 1 .. Len(s2) + Len(ConnectFields) :
             s3[i] = IF i <= Len(s2) THEN s2[i] ELSE ConnectFields[i - Len(s2)]
    BY <2>1, Concatenation, Zenon DEF s3
  <2>. QED
    BY <2>1, <2>2, <1>3 DEF ConnectFields
<1>5. s4 \in Seq(FieldNames) /\ s4 = <<"on_fire", "host", "accepted", "accept_closed", "stdin",
                                       "address", "connected", "connect_closed", "receive">>
  <2>1. /\ s3 \in Seq(FieldNames) /\ Len(s3) = 8
        /\ ReceiveFields \in Seq(FieldNames) /\ Len(ReceiveFields) = 1
    BY <1>1, <1>4
  <2>2. /\ s4 \in Seq(FieldNames) /\ Len(s4) = Len(s3) + Len(ReceiveFields)
        /\ \A i \in 1 .. Len(s3) + Len(ReceiveFields) :
             s4[i] = IF i <= Len(s3) THEN s3[i] ELSE ReceiveFields[i - Len(s3)]
    BY <2>1, Concatenation, Zenon DEF s4
  <2>. QED
    BY <2>1, <2>2, <1>4 DEF ReceiveFields
<1>. QED
  BY <1>5 DEF s1, s2, s3, s4, SubscriptionsFields

LEMMA ResultFieldsAre ==
  ResultFields = <<"on_fire", "host", "accepted", "accept_closed", "stdin", "address",
                   "connected", "connect_closed", "receive", "effects", "m">>
<1>. DEFINE s == SubscriptionsFields
            t == <<"effects", "m">>
<1>1. s \in Seq(FieldNames) /\ Len(s) = 9 /\ t \in Seq(FieldNames) /\ Len(t) = 2
  BY SubscriptionsFieldsAre DEF FieldNames
<1>2. t[1] = "effects" /\ t[2] = "m"
  OBVIOUS
<1>. HIDE DEF s, t
<1>3. /\ s \o t \in Seq(FieldNames) /\ Len(s \o t) = Len(s) + Len(t)
      /\ \A i \in 1 .. Len(s) + Len(t) : (s \o t)[i] = IF i <= Len(s) THEN s[i] ELSE t[i - Len(s)]
  BY <1>1, Concatenation, Zenon
<1>. DEFINE r == s \o t
<1>. HIDE DEF r
<1>4. r \in Seq(FieldNames) /\ Len(r) = 11
  BY <1>1, <1>3 DEF r
<1>5. /\ \A i \in 1 .. 9 : r[i] = s[i]
      /\ r[10] = t[1] /\ r[11] = t[2]
  BY <1>1, <1>3 DEF r
<1>6. r = <<"on_fire", "host", "accepted", "accept_closed", "stdin", "address",
            "connected", "connect_closed", "receive", "effects", "m">>
  BY <1>2, <1>4, <1>5, SubscriptionsFieldsAre DEF s
<1>. QED
  BY <1>6 DEF r, s, t, ResultFields

(* No field is touched twice.                                              *)
LEMMA FieldsDistinct ==
  ASSUME NEW type \in Types
  PROVE  /\ Len(Fields(type)) \in Nat /\ DOMAIN Fields(type) = 1 .. Len(Fields(type))
         /\ \A i, j \in DOMAIN Fields(type) : Fields(type)[i] = Fields(type)[j] => i = j
<1>1. CASE type = "Subscriptions"
  <2>1. Fields(type) = SubscriptionsFields
    BY <1>1 DEF Fields, Effects
  <2>. QED
    BY <2>1, SubscriptionsFieldsAre
<1>2. CASE type = "Result"
  <2>1. Fields(type) = ResultFields
    BY <1>2 DEF Fields, Effects
  <2>. QED
    BY <2>1, ResultFieldsAre
<1>3. CASE type = "View"
  <2>1. Fields(type) = <<"rows">>
    BY <1>3 DEF Fields, Effects, ViewFields
  <2>. QED
    BY <2>1
<1>4. CASE type \in Effects
  <2>1. Fields(type) = EffectFields(type)
    BY <1>4 DEF Fields, Effects
  <2>2. EffectFields(type) \in {<<>>, <<"text">>, <<"data">>, <<"content", "filename">>}
    BY <1>4 DEF Effects, EffectFields
  <2>. QED
    BY <2>1, <2>2
<1>. QED
  BY <1>1, <1>2, <1>3, <1>4 DEF Types

-----------------------------------------------------------------------------
(* The decref of a value goes through its fields one by one.               *)

Goes(a, h, v, n) ==
  a = [k \in 0 .. n |-> IF k = 0 THEN h ELSE decref_field(a[k - 1], v, Fields(v.type)[k])]

LEMMA GoesExists ==
  ASSUME NEW h, NEW v PROVE \A n \in Nat : \E a : Goes(a, h, v, n)
<1>. DEFINE S == {n \in Nat : \E a : Goes(a, h, v, n)}
<1>1. 0 \in S
  <2>. DEFINE a == [k \in 0 .. 0 |-> h]
  <2>1. Goes(a, h, v, 0)
    BY DEF Goes
  <2>. QED
    BY <2>1
<1>2. ASSUME NEW n \in Nat, n \in S PROVE n + 1 \in S
  <2>1. PICK a : Goes(a, h, v, n)
    BY <1>2
  <2>. DEFINE b == [k \in 0 .. n + 1 |->
                      IF k = n + 1 THEN decref_field(a[n], v, Fields(v.type)[k]) ELSE a[k]]
  <2>2. \A k \in 0 .. n : /\ b[k] = a[k]
                          /\ a[k] = IF k = 0 THEN h
                                    ELSE decref_field(a[k - 1], v, Fields(v.type)[k])
    BY <2>1 DEF Goes
  <2>3. \A k \in 0 .. n + 1 :
          b[k] = IF k = 0 THEN h ELSE decref_field(b[k - 1], v, Fields(v.type)[k])
    <3>. TAKE k \in 0 .. n + 1
    <3>1. CASE k = n + 1
      BY <2>2, <3>1
    <3>2. CASE k \in 0 .. n /\ k # 0
      <4>1. k - 1 \in 0 .. n
        BY <3>2
      <4>2. b[k] = a[k] /\ b[k - 1] = a[k - 1]
        BY <2>2, <3>2, <4>1
      <4>. QED
        BY <2>2, <3>2, <4>2
    <3>3. CASE k = 0
      <4>1. 0 \in 0 .. n /\ b[0] = a[0] /\ a[0] = h
        BY <2>2
      <4>. QED
        BY <3>3, <4>1
    <3>. QED
      BY <3>1, <3>2, <3>3
  <2>4. Goes(b, h, v, n + 1)
    <3>1. b = [k \in 0 .. n + 1 |-> b[k]]
      OBVIOUS
    <3>. HIDE DEF b
    <3>. QED
      BY <2>3, <3>1 DEF Goes
  <2>. QED
    BY <2>4
<1>. HIDE DEF S
<1>3. \A n \in Nat : n \in S
  BY <1>1, <1>2, SetInduction
<1>. QED
  BY <1>3 DEF S

LEMMA DecrefValueGoes ==
  ASSUME NEW h, NEW v, v.type \in Types
  PROVE  \E a : /\ Goes(a, h, v, Len(Fields(v.type)))
                /\ decref_value(h, v) = a[Len(Fields(v.type))]
<1>. DEFINE n == Len(Fields(v.type))
            after == CHOOSE a : Goes(a, h, v, n)
<1>1. n \in Nat
  BY FieldsDistinct
<1>2. Goes(after, h, v, n)
  BY <1>1, GoesExists
<1>3. decref_value(h, v) = after[n]
  BY DEF decref_value, Goes
<1>. QED
  BY <1>2, <1>3

-----------------------------------------------------------------------------
(* The decref of one field.                                                *)

(* What a step from g to h keeps: nothing new lives, what lives has its    *)
(* items.                                                                  *)
Shrinks(g, h) == \A d \in Cells : h[d].live => g[d].live /\ h[d].items = g[d].items

(* What is lost with boxes that a step from g to h frees.                  *)
Lost(g, h) == {b \in boxes : g[b].live /\ ~h[b].live}

FieldCell(v, f) == f \in DOMAIN v.field /\ v.field[f] # NoCell

(* The items of lists and of boxes are no boxes.                           *)
NoBoxedBoxes(h) == \A d \in Cells : \A i \in DOMAIN h[d].items : h[d].items[i] \notin boxes

(* What a decref of c from g to h does to the owners.                      *)
Advances(g, h, c, ext, more) ==
  /\ Sound(h) /\ Balanced(h, more) /\ Shrinks(g, h)
  /\ \/ /\ Lost(g, h) = {}
        /\ \A d \in Cells : more[d] + Bit(c, d) = ext[d]
     \/ /\ Lost(g, h) = {c}
        /\ \A d \in Cells : more[d] + Bit(c, d) = ext[d] + Occurrences(g[c].items, d)

LEMMA BoxStep ==
  ASSUME NEW g, NEW ext, Sound(g), Balanced(g, ext), boxes \subseteq Cells,
         NEW c \in boxes, ext[c] > 0
  PROVE  \E more \in [Cells -> Nat] : Advances(g, decref(g, c), c, ext, more)
<1>. DEFINE h == decref(g, c)
<1>0. /\ g \in Heaps /\ ext \in [Cells -> Nat] /\ g[c].live /\ g[c].rc \in Nat
      /\ \A d \in Cells : Occurrences(g[c].items, d) \in Nat
  BY HeapType, OccurrencesType DEF Sound, Balanced
<1>. DEFINE more == [d \in Cells |-> ext[d] - Bit(d, c)
                       + (IF g[c].rc = 1 THEN Occurrences(g[c].items, d) ELSE 0)]
<1>2. \A d \in Cells : /\ more[d] \in Nat
                       /\ more[d] + Bit(d, c)
                            = ext[d] + (IF g[c].rc = 1 THEN Occurrences(g[c].items, d) ELSE 0)
  BY <1>0 DEF Bit
<1>3. more \in [Cells -> Nat]
  BY <1>2
<1>1. h = decref(g, c)
  OBVIOUS
<1>. HIDE DEF more, h
<1>4. Sound(h) /\ Balanced(h, more)
  BY <1>1, <1>2, <1>3, DecrefBalanced
<1>5. /\ \A d \in Cells \ {c} : h[d] = g[d]
      /\ g[c].rc = 1 => h[c] = Free
      /\ g[c].rc # 1 => h[c].live = g[c].live /\ h[c].items = g[c].items
  <2>1. /\ \A d \in Cells \ {c} : decref(g, c)[d] = g[d]
        /\ g[c].rc = 0 => decref(g, c) = g
        /\ g[c].rc = 1 => decref(g, c)[c] = Free
        /\ g[c].rc > 1 => /\ decref(g, c)[c].live = g[c].live
                          /\ decref(g, c)[c].items = g[c].items
    BY <1>0, DecrefShape
  <2>2. g[c].rc = 0 \/ g[c].rc = 1 \/ g[c].rc > 1
    BY <1>0
  <2>. QED
    BY <1>1, <2>1, <2>2
<1>6. Shrinks(g, h)
  <2>. SUFFICES ASSUME NEW d \in Cells, h[d].live PROVE g[d].live /\ h[d].items = g[d].items
    BY DEF Shrinks
  <2>1. CASE d # c
    BY <1>5, <2>1
  <2>2. CASE d = c
    BY <1>5, <2>2, FreeShape
  <2>. QED
    BY <2>1, <2>2
<1>7. CASE g[c].rc = 1
  <2>1. Lost(g, h) = {c}
    <3>1. g[c].live /\ ~h[c].live
      BY <1>0, <1>5, <1>7, FreeShape
    <3>2. \A b \in boxes \ {c} : h[b].live = g[b].live
      BY <1>5
    <3>. QED
      BY <3>1, <3>2 DEF Lost
  <2>2. \A d \in Cells : more[d] + Bit(c, d) = ext[d] + Occurrences(g[c].items, d)
    BY <1>2, <1>7 DEF Bit
  <2>. QED
    BY <1>3, <1>4, <1>6, <2>1, <2>2 DEF h, Advances
<1>8. CASE g[c].rc # 1
  <2>1. h[c].live
    BY <1>0, <1>5, <1>8
  <2>2. Lost(g, h) = {}
    <3>1. \A b \in boxes \ {c} : h[b].live = g[b].live
      BY <1>5
    <3>. QED
      BY <2>1, <3>1 DEF Lost
  <2>3. \A d \in Cells : more[d] + Bit(c, d) = ext[d]
    BY <1>0, <1>2, <1>8 DEF Bit
  <2>. QED
    BY <1>3, <1>4, <1>6, <2>2, <2>3 DEF h, Advances
<1>. QED
  BY <1>7, <1>8

LEMMA ListStep ==
  ASSUME NEW g, NEW ext, Sound(g), Balanced(g, ext), boxes \subseteq Cells, NoBoxedBoxes(g),
         NEW c \in Cells, c \notin boxes, ext[c] > 0, NEW shown
  PROVE  \E more \in [Cells -> Nat] : Advances(g, release(g, c, shown), c, ext, more)
<1>. DEFINE h == release(g, c, shown)
<1>0. /\ g \in Heaps /\ ext \in [Cells -> Nat] /\ g[c].live /\ g[c].rc \in Nat
      /\ \A d \in Cells : Occurrences(g[c].items, d) \in Nat
  BY HeapType, OccurrencesType DEF Sound, Balanced
<1>. DEFINE more == [d \in Cells |-> ext[d] - Bit(d, c)]
<1>2. \A d \in Cells : more[d] \in Nat /\ more[d] + Bit(d, c) = ext[d]
  BY <1>0 DEF Bit
<1>3. more \in [Cells -> Nat]
  BY <1>2
<1>1. h = release(g, c, shown)
  OBVIOUS
<1>. HIDE DEF more, h
<1>4. Released(g, c, release(g, c, shown), more)
  BY <1>2, <1>3, ReleaseBalanced
<1>5. Shrinks(g, h)
  BY <1>1, <1>4 DEF Shrinks, Released
<1>6. Lost(g, h) = {}
  BY <1>1, <1>4 DEF Lost, NoBoxedBoxes, Released
<1>7. \A d \in Cells : more[d] + Bit(c, d) = ext[d]
  BY <1>2 DEF Bit
<1>. QED
  BY <1>3, <1>4, <1>5, <1>6, <1>7 DEF h, Advances, Released

LEMMA FieldStep ==
  ASSUME NEW g, NEW ext, Sound(g), Balanced(g, ext), boxes \subseteq Cells, NoBoxedBoxes(g),
         NEW v, NEW f, FieldCell(v, f), v.field[f] \in Cells,
         f \in BoxFields <=> v.field[f] \in boxes,
         ext[v.field[f]] > 0
  PROVE  \E more \in [Cells -> Nat] : Advances(g, decref_field(g, v, f), v.field[f], ext, more)
<1>1. CASE v.field[f] \in boxes
  <2>1. decref_field(g, v, f) = decref(g, v.field[f])
    BY <1>1 DEF decref_field, FieldCell
  <2>. QED
    BY <1>1, <2>1, BoxStep
<1>2. CASE v.field[f] \notin boxes
  <2>1. decref_field(g, v, f) = release(g, v.field[f], Len(g[v.field[f]].items))
    BY <1>2 DEF decref_field, FieldCell
  <2>. QED
    BY <1>2, <2>1, ListStep
<1>. QED
  BY <1>1, <1>2

-----------------------------------------------------------------------------
(* The decref of a value, field by field.                                  *)

Done(v, k) == {Fields(v.type)[i] : i \in 1 .. k}

LEMMA FieldsFinite ==
  ASSUME NEW v, v.type \in Types, DOMAIN v.field \subseteq ToSet(Fields(v.type)), NEW S
  PROVE  IsFiniteSet(S \cap DOMAIN v.field)
<1>. DEFINE s == Fields(v.type)
            f == [i \in DOMAIN s |-> s[i]]
<1>1. IsFiniteSet(DOMAIN s)
  BY FieldsDistinct, FS_Interval
<1>2. f \in Surjection(DOMAIN s, ToSet(s))
  BY DEF Surjection, ToSet
<1>3. IsFiniteSet(ToSet(s))
  <2>. HIDE DEF s, f
  <2>. QED
    BY <1>1, <1>2, FS_Surjection
<1>. QED
  BY <1>3, FS_Subset

LEMMA FieldsToType ==
  ASSUME NEW v, v.type \in Types, DOMAIN v.field \subseteq ToSet(Fields(v.type)), NEW S, NEW c
  PROVE  /\ FieldsTo(v, S, c) = Cardinality(Places(v.field, S \cap DOMAIN v.field, c))
         /\ FieldsTo(v, S, c) \in Nat
<1>1. FieldsTo(v, S, c) = Cardinality(Places(v.field, S \cap DOMAIN v.field, c))
  BY DEF FieldsTo, Places
<1>. QED
  BY <1>1, FieldsFinite, PlacesFinite

LEMMA FieldsToSame ==
  ASSUME NEW v, NEW S, NEW T, S \cap DOMAIN v.field = T \cap DOMAIN v.field, NEW c
  PROVE  FieldsTo(v, S, c) = FieldsTo(v, T, c)
<1>1. {f \in S \cap DOMAIN v.field : v.field[f] = c}
        = {f \in T \cap DOMAIN v.field : v.field[f] = c}
  OBVIOUS
<1>. QED
  BY <1>1 DEF FieldsTo

LEMMA FieldsToAdd ==
  ASSUME NEW v, v.type \in Types, DOMAIN v.field \subseteq ToSet(Fields(v.type)), NEW c,
         NEW S, NEW f, f \notin S
  PROVE  /\ f \in DOMAIN v.field
              => /\ FieldsTo(v, S \cup {f}, c) = FieldsTo(v, S, c) + Bit(v.field[f], c)
                 /\ v.field[f] = c => FieldsTo(v, S, c) < FieldsTo(v, DOMAIN v.field, c)
         /\ f \notin DOMAIN v.field => FieldsTo(v, S \cup {f}, c) = FieldsTo(v, S, c)
<1>. DEFINE D == DOMAIN v.field
            T == S \cap D
<1>1. IsFiniteSet(T) /\ IsFiniteSet(D) /\ f \notin T
  <2>1. D = D \cap D
    OBVIOUS
  <2>. QED
    BY <2>1, FieldsFinite
<1>2. CASE f \in D
  <2>1. (S \cup {f}) \cap D = T \cup {f}
    BY <1>2
  <2>2. Cardinality(Places(v.field, T \cup {f}, c))
          = Cardinality(Places(v.field, T, c)) + Bit(v.field[f], c)
    BY <1>1, CountAdd
  <2>3. FieldsTo(v, S \cup {f}, c) = FieldsTo(v, S, c) + Bit(v.field[f], c)
    BY <2>1, <2>2, FieldsToType
  <2>4. ASSUME v.field[f] = c PROVE FieldsTo(v, S, c) < FieldsTo(v, D, c)
    <3>1. Places(v.field, T \cup {f}, c) \in SUBSET Places(v.field, D \cap D, c)
      BY <1>2 DEF Places
    <3>2. IsFiniteSet(Places(v.field, D \cap D, c))
      BY FieldsFinite, PlacesFinite
    <3>3. Cardinality(Places(v.field, T \cup {f}, c))
            <= Cardinality(Places(v.field, D \cap D, c))
      BY <3>1, <3>2, FS_Subset
    <3>4. FieldsTo(v, S \cup {f}, c) <= FieldsTo(v, D, c)
      BY <2>1, <3>3, FieldsToType
    <3>5. FieldsTo(v, S, c) \in Nat /\ FieldsTo(v, D, c) \in Nat
      BY FieldsToType
    <3>6. FieldsTo(v, S \cup {f}, c) = FieldsTo(v, S, c) + 1
      BY <2>3, <2>4 DEF Bit
    <3>. QED
      BY <3>4, <3>5, <3>6
  <2>. QED
    BY <1>2, <2>3, <2>4
<1>3. CASE f \notin D
  <2>1. (S \cup {f}) \cap D = S \cap D
    BY <1>3
  <2>. QED
    BY <1>3, <2>1, FieldsToSame
<1>. QED
  BY <1>2, <1>3

LEMMA DoneStep ==
  ASSUME NEW v, v.type \in Types, NEW k \in Nat, k < Len(Fields(v.type))
  PROVE  /\ Done(v, k + 1) = Done(v, k) \cup {Fields(v.type)[k + 1]}
         /\ Fields(v.type)[k + 1] \notin Done(v, k)
<1>1. 1 .. k + 1 = (1 .. k) \cup {k + 1}
  OBVIOUS
<1>2. \A i \in 1 .. k : i \in DOMAIN Fields(v.type) /\ k + 1 \in DOMAIN Fields(v.type) /\ i # k + 1
  BY FieldsDistinct
<1>. QED
  BY <1>1, <1>2, FieldsDistinct DEF Done

LEMMA AllDone ==
  ASSUME NEW v, v.type \in Types, DOMAIN v.field \subseteq ToSet(Fields(v.type)), NEW c
  PROVE  /\ FieldsTo(v, Done(v, Len(Fields(v.type))), c) = FieldsTo(v, DOMAIN v.field, c)
         /\ FieldsTo(v, ToSet(Fields(v.type)), c) = FieldsTo(v, DOMAIN v.field, c)
<1>1. Done(v, Len(Fields(v.type))) = ToSet(Fields(v.type))
  BY FieldsDistinct DEF Done, ToSet
<1>2. FieldsTo(v, ToSet(Fields(v.type)), c) = FieldsTo(v, DOMAIN v.field, c)
  BY FieldsToSame
<1>. QED
  BY <1>1, <1>2

(* A value whose fields are as its type has them.                          *)
WellFormed(v) ==
  /\ v.type \in Types /\ DOMAIN v.field \subseteq ToSet(Fields(v.type))
  /\ \A f \in DOMAIN v.field :
       /\ v.field[f] \in Cells \cup {NoCell}
       /\ v.field[f] # NoCell => (f \in BoxFields <=> v.field[f] \in boxes)

LEMMA LostStep ==
  ASSUME NEW h \in Heaps, NEW g, NEW f, Shrinks(h, g), Shrinks(g, f), boxes \subseteq Cells,
         NEW c \in Cells, NEW d
  PROVE  /\ Cardinality(ItemsTo(h, Lost(h, g), d)) \in Nat
         /\ Lost(g, f) = {}  => Lost(h, f) = Lost(h, g)
         /\ Lost(g, f) = {c} => Cardinality(ItemsTo(h, Lost(h, f), d))
                                  = Cardinality(ItemsTo(h, Lost(h, g), d))
                                      + Occurrences(g[c].items, d)
<1>1. Lost(h, f) = Lost(h, g) \cup Lost(g, f)
  BY DEF Lost, Shrinks
<1>2. Lost(h, g) \in SUBSET Cells
  BY DEF Lost
<1>3. Cardinality(ItemsTo(h, Lost(h, g), d)) \in Nat
  BY <1>2, ItemsToFinite
<1>4. CASE Lost(g, f) = {c}
  <2>1. c \in Cells \ Lost(h, g) /\ g[c].items = h[c].items
    BY <1>4 DEF Lost, Shrinks
  <2>2. Lost(h, f) = Lost(h, g) \cup {c}
    BY <1>1, <1>4
  <2>. DEFINE L == Lost(h, g)
  <2>. HIDE DEF L
  <2>3. Cardinality(ItemsTo(h, L \cup {c}, d))
          = Cardinality(ItemsTo(h, L, d)) + Occurrences(h[c].items, d)
    BY <1>2, <2>1, ItemsToAdd DEF L
  <2>4. Lost(g, f) # {}
    BY <1>4
  <2>. QED
    BY <1>3, <2>1, <2>2, <2>3, <2>4 DEF L
<1>5. CASE Lost(g, f) = {}
  BY <1>1, <1>3, <1>5
<1>. QED
  BY <1>3, <1>4, <1>5

(* How far the decref of v has come with heap g: the owners are fewer by   *)
(* the fields that are done, and more by what was lost with boxes.         *)
Progress(h, v, ext, k, g, more) ==
  /\ more \in [Cells -> Nat] /\ Sound(g) /\ Balanced(g, more) /\ Shrinks(h, g)
  /\ \A d \in Cells : more[d] + FieldsTo(v, Done(v, k), d)
                        = ext[d] + Cardinality(ItemsTo(h, Lost(h, g), d))

LEMMA ProgressStep ==
  ASSUME NEW h, Sound(h), NoBoxedBoxes(h), boxes \subseteq Cells, NEW v, WellFormed(v),
         NEW ext \in [Cells -> Nat], \A d \in Cells : FieldsTo(v, DOMAIN v.field, d) <= ext[d],
         NEW k \in Nat, k < Len(Fields(v.type)), NEW g, NEW old, Progress(h, v, ext, k, g, old)
  PROVE  \E more : Progress(h, v, ext, k + 1, decref_field(g, v, Fields(v.type)[k + 1]), more)
<1>. DEFINE f == Fields(v.type)[k + 1]
            u == decref_field(g, v, f)
            S == Done(v, k)
<1>0. /\ v.type \in Types /\ DOMAIN v.field \subseteq ToSet(Fields(v.type))
      /\ h \in Heaps /\ g \in Heaps
  BY DEF WellFormed, Sound, Progress
<1>1. Done(v, k + 1) = S \cup {f} /\ f \notin S
  BY <1>0, DoneStep
<1>2. /\ old \in [Cells -> Nat] /\ Sound(g) /\ Balanced(g, old) /\ Shrinks(h, g)
      /\ \A d \in Cells : old[d] + FieldsTo(v, S, d)
                            = ext[d] + Cardinality(ItemsTo(h, Lost(h, g), d))
  BY DEF Progress
<1>3. \A d \in Cells : /\ FieldsTo(v, S, d) \in Nat /\ FieldsTo(v, DOMAIN v.field, d) \in Nat
                       /\ ext[d] \in Nat /\ old[d] \in Nat
                       /\ Cardinality(ItemsTo(h, Lost(h, g), d)) \in Nat
  <2>1. Lost(h, g) \in SUBSET Cells
    BY DEF Lost
  <2>. QED
    BY <1>0, <1>2, <2>1, FieldsToType, ItemsToFinite
<1>. HIDE DEF f, u, S
<1>4. CASE FieldCell(v, f)
  <2>. DEFINE c == v.field[f]
  <2>1. /\ f \in DOMAIN v.field /\ c \in Cells /\ (f \in BoxFields <=> c \in boxes)
    BY <1>4 DEF FieldCell, WellFormed
  <2>2. FieldsTo(v, S, c) < FieldsTo(v, DOMAIN v.field, c)
    BY <1>0, <1>1, <2>1, FieldsToAdd
  <2>3. old[c] > 0
    BY <1>2, <1>3, <2>1, <2>2
  <2>4. NoBoxedBoxes(g)
    <3>. SUFFICES ASSUME NEW d \in Cells, NEW i \in DOMAIN g[d].items
                  PROVE  g[d].items[i] \notin boxes
      BY DEF NoBoxedBoxes
    <3>1. g[d].live
      BY <1>2, FreeShape DEF Sound
    <3>2. g[d].items = h[d].items
      BY <1>2, <3>1 DEF Shrinks
    <3>. QED
      BY <3>2 DEF NoBoxedBoxes
  <2>5. PICK more \in [Cells -> Nat] : Advances(g, u, c, old, more)
    BY <1>2, <1>4, <2>1, <2>3, <2>4, FieldStep DEF u
  <2>6. Shrinks(h, u)
    BY <1>2, <2>5 DEF Shrinks, Advances
  <2>7. \A d \in Cells : FieldsTo(v, Done(v, k + 1), d) = FieldsTo(v, S, d) + Bit(c, d)
    BY <1>0, <1>1, <2>1, FieldsToAdd
  <2>8. \A d \in Cells : Bit(c, d) \in Nat /\ more[d] \in Nat /\ Occurrences(g[c].items, d) \in Nat
    BY <1>0, <2>1, RefsCount DEF Bit
  <2>. HIDE DEF c
  <2>9. \A d \in Cells :
          more[d] + Bit(c, d) + Cardinality(ItemsTo(h, Lost(h, g), d))
            = old[d] + Cardinality(ItemsTo(h, Lost(h, u), d))
    <3>. TAKE d \in Cells
    <3>1. /\ h \in Heaps /\ Shrinks(h, g) /\ Shrinks(g, u) /\ c \in Cells
          /\ Lost(g, u) \in {{}, {c}}
      BY <1>0, <1>2, <2>1, <2>5 DEF Advances
    <3>2. /\ Lost(g, u) = {}  => Lost(h, u) = Lost(h, g)
          /\ Lost(g, u) = {c} => Cardinality(ItemsTo(h, Lost(h, u), d))
                                   = Cardinality(ItemsTo(h, Lost(h, g), d))
                                       + Occurrences(g[c].items, d)
      BY <3>1, LostStep
    <3>3. CASE Lost(g, u) = {}
      <4>1. more[d] + Bit(c, d) = old[d]
        BY <2>5, <3>3 DEF Advances
      <4>2. Cardinality(ItemsTo(h, Lost(h, u), d)) = Cardinality(ItemsTo(h, Lost(h, g), d))
        BY <3>2, <3>3
      <4>. QED
        BY <1>3, <2>8, <4>1, <4>2
    <3>4. CASE Lost(g, u) = {c}
      <4>1. more[d] + Bit(c, d) = old[d] + Occurrences(g[c].items, d)
        BY <2>5, <3>4 DEF Advances
      <4>2. Cardinality(ItemsTo(h, Lost(h, u), d))
              = Cardinality(ItemsTo(h, Lost(h, g), d)) + Occurrences(g[c].items, d)
        BY <3>2, <3>4
      <4>. QED
        BY <1>3, <2>8, <4>1, <4>2
    <3>. QED
      BY <3>1, <3>3, <3>4
  <2>10. \A d \in Cells : Cardinality(ItemsTo(h, Lost(h, u), d)) \in Nat
    <3>1. Lost(h, u) \in SUBSET Cells
      BY DEF Lost
    <3>. QED
      BY <1>0, <3>1, ItemsToFinite
  <2>11. \A d \in Cells : more[d] + FieldsTo(v, Done(v, k + 1), d)
                            = ext[d] + Cardinality(ItemsTo(h, Lost(h, u), d))
    <3>. TAKE d \in Cells
    <3>. DEFINE x == more[d]
                b == Bit(c, d)
                i == Cardinality(ItemsTo(h, Lost(h, g), d))
                j == Cardinality(ItemsTo(h, Lost(h, u), d))
                o == old[d]
                m == FieldsTo(v, S, d)
                n == FieldsTo(v, Done(v, k + 1), d)
                e == ext[d]
    <3>1. /\ x \in Nat /\ b \in Nat /\ i \in Nat /\ j \in Nat
          /\ o \in Nat /\ m \in Nat /\ e \in Nat
      BY <1>3, <2>8, <2>10
    <3>2. x + b + i = o + j
      BY <2>9
    <3>3. o + m = e + i
      BY <1>2
    <3>4. n = m + b
      BY <2>7
    <3>. HIDE DEF x, b, i, j, o, m, n, e
    <3>5. x + n = e + j
      BY <3>1, <3>2, <3>3, <3>4
    <3>. QED
      BY <3>5 DEF x, n, e, j
  <2>12. Progress(h, v, ext, k + 1, u, more)
    BY <2>5, <2>6, <2>11 DEF Progress, Advances
  <2>. QED
    BY <2>12 DEF u, f
<1>5. CASE ~FieldCell(v, f)
  <2>1. u = g
    BY <1>5 DEF u, decref_field, FieldCell
  <2>2. \A d \in Cells : FieldsTo(v, Done(v, k + 1), d) = FieldsTo(v, S, d)
    <3>. TAKE d \in Cells
    <3>1. CASE f \notin DOMAIN v.field
      BY <1>0, <1>1, <3>1, FieldsToAdd
    <3>2. CASE f \in DOMAIN v.field /\ v.field[f] = NoCell
      <4>1. FieldsTo(v, Done(v, k + 1), d) = FieldsTo(v, S, d) + Bit(v.field[f], d)
        BY <1>0, <1>1, <3>2, FieldsToAdd
      <4>2. Bit(v.field[f], d) = 0
        BY <3>2 DEF Bit, NoCell, Cells
      <4>. QED
        BY <1>3, <4>1, <4>2
    <3>. QED
      BY <1>5, <3>1, <3>2 DEF FieldCell
  <2>3. Progress(h, v, ext, k + 1, g, old)
    BY <1>2, <2>2 DEF Progress
  <2>. QED
    BY <2>1, <2>3 DEF u, f
<1>. QED
  BY <1>4, <1>5

LEMMA DecrefValueBalanced ==
  ASSUME NEW h, NEW ext, Sound(h), Balanced(h, ext), NoBoxedBoxes(h), boxes \subseteq Cells,
         NEW v, WellFormed(v), \A d \in Cells : FieldsTo(v, DOMAIN v.field, d) <= ext[d]
  PROVE  \E more \in [Cells -> Nat] :
           /\ Sound(decref_value(h, v)) /\ Balanced(decref_value(h, v), more)
           /\ Shrinks(h, decref_value(h, v))
           /\ \A d \in Cells :
                more[d] + FieldsTo(v, DOMAIN v.field, d)
                  = ext[d] + Cardinality(ItemsTo(h, Lost(h, decref_value(h, v)), d))
<1>. DEFINE n == Len(Fields(v.type))
<1>0. /\ v.type \in Types /\ DOMAIN v.field \subseteq ToSet(Fields(v.type)) /\ n \in Nat
      /\ h \in Heaps /\ ext \in [Cells -> Nat]
  BY FieldsDistinct DEF WellFormed, Sound, Balanced
<1>1. PICK a : Goes(a, h, v, n) /\ decref_value(h, v) = a[n]
  BY <1>0, DecrefValueGoes
<1>. DEFINE S == {k \in Nat : k <= n => \E more : Progress(h, v, ext, k, a[k], more)}
<1>. HIDE DEF n
<1>2. \A k \in 0 .. n : a[k] = IF k = 0 THEN h ELSE decref_field(a[k - 1], v, Fields(v.type)[k])
  BY <1>1 DEF Goes
<1>3. 0 \in S
  <2>1. a[0] = h
    BY <1>0, <1>2
  <2>2. Shrinks(h, h) /\ Lost(h, h) = {}
    BY DEF Shrinks, Lost
  <2>3. \A d \in Cells : FieldsTo(v, Done(v, 0), d) = 0
    <3>. TAKE d \in Cells
    <3>1. Done(v, 0) \cap DOMAIN v.field = {}
      BY DEF Done
    <3>2. {f \in Done(v, 0) \cap DOMAIN v.field : v.field[f] = d} = {}
      BY <3>1
    <3>. QED
      BY <3>2, FS_EmptySet DEF FieldsTo
  <2>4. \A d \in Cells : Cardinality(ItemsTo(h, {}, d)) = 0
    <3>1. \A d \in Cells : ItemsTo(h, {}, d) = {}
      BY DEF ItemsTo
    <3>. QED
      BY <3>1, FS_EmptySet
  <2>5. \A d \in Cells : ext[d] + FieldsTo(v, Done(v, 0), d)
                           = ext[d] + Cardinality(ItemsTo(h, Lost(h, h), d))
    BY <2>2, <2>3, <2>4
  <2>6. Progress(h, v, ext, 0, h, ext)
    BY <1>0, <2>2, <2>5 DEF Progress
  <2>. QED
    BY <2>1, <2>6
<1>4. ASSUME NEW k \in Nat, k \in S PROVE k + 1 \in S
  <2>. SUFFICES ASSUME k + 1 <= n PROVE \E more : Progress(h, v, ext, k + 1, a[k + 1], more)
    OBVIOUS
  <2>1. k < n /\ k <= n /\ k + 1 \in 0 .. n /\ (k + 1) - 1 = k /\ k + 1 # 0
    BY <1>0
  <2>2. PICK old : Progress(h, v, ext, k, a[k], old)
    BY <1>4, <2>1
  <2>3. a[k + 1] = decref_field(a[k], v, Fields(v.type)[k + 1])
    BY <1>2, <2>1
  <2>4. k < Len(Fields(v.type))
    BY <2>1 DEF n
  <2>5. \E more : Progress(h, v, ext, k + 1, decref_field(a[k], v, Fields(v.type)[k + 1]), more)
    BY <1>0, <2>2, <2>4, ProgressStep
  <2>. QED
    BY <2>3, <2>5
<1>5. n \in S
  <2>. HIDE DEF S
  <2>. QED
    BY <1>0, <1>3, <1>4, SetInduction
<1>6. PICK more : Progress(h, v, ext, n, a[n], more)
  BY <1>0, <1>5
<1>7. \A d \in Cells : FieldsTo(v, Done(v, n), d) = FieldsTo(v, DOMAIN v.field, d)
  BY <1>0, AllDone DEF n
<1>. QED
  BY <1>1, <1>6, <1>7 DEF Progress

-----------------------------------------------------------------------------
(* The references from outside the heap.                                   *)

LocalTo(loc, c) == Cardinality({l \in Locals : loc[l].cell = c})

HostTo(v, n, c) == n * FieldsTo(v, DOMAIN v.field, c)

Outside(loc, v, n, lost) ==
  [c \in Cells |-> LocalTo(loc, c) + HostTo(v, n, c) + lost[c]]

LEMMA LocalToType ==
  ASSUME NEW loc, NEW c
  PROVE  /\ LocalTo(loc, c) \in Nat
         /\ LocalTo(loc, c) = 0 <=> \A l \in Locals : loc[l].cell # c
<1>. DEFINE m == [l \in Locals |-> loc[l].cell]
<1>1. LocalTo(loc, c) = Cardinality(Places(m, Locals, c))
  BY DEF LocalTo, Places
<1>2. /\ Cardinality(Places(m, Locals, c)) \in Nat
      /\ Cardinality(Places(m, Locals, c)) = 0 <=> \A l \in Locals : m[l] # c
  <2>. HIDE DEF m
  <2>. QED
    BY ConstantsAssumption, PlacesFinite
<1>. QED
  BY <1>1, <1>2

(* One variable refers to something else.                                  *)
With(loc, l, v) == [loc EXCEPT ![l] = v]

LEMMA LocalChange ==
  ASSUME NEW loc \in [Locals -> Value], NEW l \in Locals, NEW v \in Value, NEW c
  PROVE  /\ With(loc, l, v) \in [Locals -> Value]
         /\ LocalTo(With(loc, l, v), c) + Bit(loc[l].cell, c)
              = LocalTo(loc, c) + Bit(v.cell, c)
<1>. DEFINE m == [k \in Locals |-> loc[k].cell]
            new == [loc EXCEPT ![l] = v]
            n == [k \in Locals |-> new[k].cell]
<1>1. /\ LocalTo(loc, c) = Cardinality(Places(m, Locals, c))
      /\ LocalTo(new, c) = Cardinality(Places(n, Locals, c))
  <2>1. \A k \in Locals : m[k] = loc[k].cell /\ n[k] = new[k].cell
    OBVIOUS
  <2>. HIDE DEF m, n, new
  <2>. QED
    BY <2>1 DEF LocalTo, Places
<1>2. \A k \in Locals \ {l} : n[k] = m[k]
  OBVIOUS
<1>3. m[l] = loc[l].cell /\ n[l] = v.cell
  OBVIOUS
<1>4. Cardinality(Places(n, Locals, c)) + Bit(m[l], c)
        = Cardinality(Places(m, Locals, c)) + Bit(n[l], c)
  <2>. HIDE DEF m, n
  <2>. QED
    BY <1>2, ConstantsAssumption, CountChange
<1>5. new \in [Locals -> Value]
  OBVIOUS
<1>. HIDE DEF m, n, new
<1>6. LocalTo(new, c) + Bit(m[l], c) = LocalTo(loc, c) + Bit(n[l], c)
  BY <1>1, <1>4
<1>7. LocalTo(new, c) + Bit(loc[l].cell, c) = LocalTo(loc, c) + Bit(v.cell, c)
  BY <1>3, <1>6, Zenon
<1>. QED
  BY <1>5, <1>7 DEF new, With

LEMMA HostToNone ==
  ASSUME NEW n \in Nat, NEW c PROVE HostTo(NoValue, n, c) = 0
<1>1. DOMAIN NoValue.field = {}
  BY DEF NoValue, HostValue
<1>2. {f \in DOMAIN NoValue.field \cap DOMAIN NoValue.field : NoValue.field[f] = c} = {}
  BY <1>1
<1>3. FieldsTo(NoValue, DOMAIN NoValue.field, c) = 0
  BY <1>2, FS_EmptySet DEF FieldsTo
<1>. QED
  BY <1>3 DEF HostTo

LEMMA HostToType ==
  ASSUME NEW v, WellFormed(v), NEW n \in Nat, NEW c
  PROVE  /\ FieldsTo(v, DOMAIN v.field, c) \in Nat /\ HostTo(v, n, c) \in Nat
         /\ n > 0 => FieldsTo(v, DOMAIN v.field, c) <= HostTo(v, n, c)
         /\ \A k \in Nat : HostTo(v, n + k, c) = HostTo(v, n, c) + HostTo(v, k, c)
         /\ HostTo(v, 0, c) = 0
         /\ HostTo(v, 1, c) = FieldsTo(v, DOMAIN v.field, c)
         /\ FieldsTo(v, DOMAIN v.field, c) = 0 <=> \A f \in DOMAIN v.field : v.field[f] # c
<1>1. v.type \in Types /\ DOMAIN v.field \subseteq ToSet(Fields(v.type))
  BY DEF WellFormed
<1>. DEFINE D == DOMAIN v.field
            x == FieldsTo(v, D, c)
<1>2. D \cap D = D
  OBVIOUS
<1>3. IsFiniteSet(D) /\ x = Cardinality(Places(v.field, D, c))
  BY <1>1, <1>2, FieldsFinite, FieldsToType
<1>4. x \in Nat /\ (x = 0 <=> \A f \in D : v.field[f] # c)
  BY <1>3, PlacesFinite
<1>5. \A k : HostTo(v, k, c) = k * x
  BY DEF HostTo
<1>. HIDE DEF x, D
<1>6. n * x \in Nat /\ (n > 0 => x <= n * x) /\ 0 * x = 0 /\ 1 * x = x
  BY <1>4
<1>7. \A k \in Nat : (n + k) * x = n * x + k * x
  BY <1>4
<1>. QED
  BY <1>4, <1>5, <1>6, <1>7 DEF x, D

-----------------------------------------------------------------------------
(* The invariant.                                                          *)

(* The counts are right, references go to live cells, and boxes are where  *)
(* boxes belong.                                                           *)
RefInv ==
  /\ TypeOK
  /\ host = NoValue \/ WellFormed(host)
  /\ Sound(heap) /\ Balanced(heap, Outside(local, host, copies, abandoned))
  /\ NoBoxedBoxes(heap)

LEMMA OutsideType ==
  ASSUME RefInv, NEW c \in Cells
  PROVE  /\ LocalTo(local, c) \in Nat /\ HostTo(host, copies, c) \in Nat
         /\ abandoned[c] \in Nat
         /\ Outside(local, host, copies, abandoned)[c]
              = LocalTo(local, c) + HostTo(host, copies, c) + abandoned[c]
<1>1. copies \in Nat /\ abandoned[c] \in Nat
  BY ConstantsAssumption DEF RefInv, TypeOK
<1>2. HostTo(host, copies, c) \in Nat
  BY <1>1, HostToNone, HostToType DEF RefInv
<1>. QED
  BY <1>1, <1>2, LocalToType DEF Outside

(* What is referred to from outside is live.                               *)
LEMMA Alive ==
  ASSUME RefInv
  PROVE  /\ heap \in Heaps /\ local \in [Locals -> Value]
         /\ \A l \in Locals : Holds(l) => local[l].cell \in Cells /\ heap[local[l].cell].live
         /\ \A f \in DOMAIN host.field : host.field[f] # NoCell
              => host.field[f] \in Cells /\ heap[host.field[f]].live
<1>1. heap \in Heaps /\ local \in [Locals -> Value]
  BY DEF RefInv, TypeOK, Sound
<1>2. ASSUME NEW l \in Locals, Holds(l)
      PROVE  local[l].cell \in Cells /\ heap[local[l].cell].live
  <2>1. local[l].cell \in Cells
    BY <1>1, <1>2 DEF Value, Holds
  <2>2. LocalTo(local, local[l].cell) # 0
    BY LocalToType
  <2>3. Outside(local, host, copies, abandoned)[local[l].cell] > 0
    BY <2>1, <2>2, OutsideType
  <2>. QED
    BY <2>1, <2>3 DEF RefInv, Balanced
<1>3. ASSUME NEW f \in DOMAIN host.field, host.field[f] # NoCell
      PROVE  host.field[f] \in Cells /\ heap[host.field[f]].live
  <2>1. host # NoValue
    BY <1>3 DEF NoValue, HostValue
  <2>2. WellFormed(host) /\ copies \in Nat /\ copies > 0
    BY <2>1, ConstantsAssumption DEF RefInv, TypeOK
  <2>3. host.field[f] \in Cells
    BY <1>3, <2>2 DEF WellFormed
  <2>4. HostTo(host, copies, host.field[f]) > 0
    <3>1. \A c : /\ FieldsTo(host, DOMAIN host.field, c) \in Nat
                 /\ HostTo(host, copies, c) \in Nat
                 /\ FieldsTo(host, DOMAIN host.field, c) <= HostTo(host, copies, c)
                 /\ FieldsTo(host, DOMAIN host.field, c) = 0
                      => \A g \in DOMAIN host.field : host.field[g] # c
      BY <2>2, HostToType
    <3>2. FieldsTo(host, DOMAIN host.field, host.field[f]) # 0
      BY <3>1
    <3>. QED
      BY <3>1, <3>2
  <2>5. Outside(local, host, copies, abandoned)[host.field[f]] > 0
    BY <2>3, <2>4, OutsideType
  <2>. QED
    BY <2>3, <2>5 DEF RefInv, Balanced
<1>. QED
  BY <1>1, <1>2, <1>3

(* Nothing refers to a cell that is free.                                  *)
LEMMA NothingRefersToFree ==
  ASSUME RefInv, NEW c \in FreeCells(heap)
  PROVE  /\ c \in Cells /\ ~heap[c].live
         /\ LocalTo(local, c) = 0 /\ HostTo(host, copies, c) = 0 /\ abandoned[c] = 0
         /\ \A l \in Locals : local[l].cell # c
         /\ \A f \in DOMAIN host.field : host.field[f] # c
         /\ \A d \in Cells : \A i \in DOMAIN heap[d].items : heap[d].items[i] # c
<1>1. c \in Cells /\ ~heap[c].live
  BY DEF FreeCells
<1>2. ~(Outside(local, host, copies, abandoned)[c] > 0)
  BY <1>1 DEF RefInv, Balanced
<1>3. LocalTo(local, c) = 0 /\ HostTo(host, copies, c) = 0 /\ abandoned[c] = 0
  BY <1>1, <1>2, OutsideType
<1>4. \A f \in DOMAIN host.field : host.field[f] # c
  BY <1>1, Alive DEF NoCell, Cells
<1>5. \A d \in Cells : \A i \in DOMAIN heap[d].items : heap[d].items[i] # c
  BY <1>1 DEF RefInv, Sound, ItemsSound
<1>. QED
  BY <1>1, <1>3, <1>4, <1>5, LocalToType

-----------------------------------------------------------------------------
(* The actions that allocate.                                              *)

(* A new cell takes its references from local variables.                   *)
NewCell(c, r, items) ==
  /\ heap' = [heap EXCEPT ![c] = [live |-> TRUE, rc |-> r, items |-> items]]
  /\ boxes' = boxes \ {c} \/ boxes' = boxes \cup {c}
  /\ UNCHANGED held

LEMMA NewCellShape ==
  ASSUME RefInv, NEW c \in FreeCells(heap), NEW r \in {0, 1}, NEW items \in Seq(Cells),
         NewCell(c, r, items)
  PROVE  /\ heap' \in Heaps /\ \A d \in Cells \ {c} : heap'[d] = heap[d]
         /\ heap'[c].live /\ heap'[c].rc = r /\ heap'[c].items = items
         /\ Whole(c, heap') \in Value /\ Whole(c, heap').cell = c
<1>1. c \in Cells /\ heap \in Heaps
  BY DEF FreeCells, RefInv, Sound
<1>2. [live |-> TRUE, rc |-> r, items |-> items] \in Cell
  BY DEF Cell
<1>3. heap'[c] = [live |-> TRUE, rc |-> r, items |-> items]
  BY <1>1 DEF Heaps, NewCell
<1>4. heap' \in Heaps /\ \A d \in Cells \ {c} : heap'[d] = heap[d]
  BY <1>1, <1>2 DEF Heaps, NewCell
<1>5. heap'[c].live = TRUE /\ heap'[c].rc = r /\ heap'[c].items = items
  BY <1>3
<1>. QED
  BY <1>1, <1>4, <1>5 DEF Whole, Value

LEMMA NewCellKeeps ==
  ASSUME RefInv, NEW c \in FreeCells(heap), NEW r \in {0, 1}, NEW items \in Seq(Cells),
         \A i \in DOMAIN items : /\ heap[items[i]].live /\ heap[items[i]].items = <<>>
                                 /\ items[i] \notin boxes,
         NewCell(c, r, items),
         local' \in [Locals -> Value], LocalTo(local', c) = 1,
         \A d \in Cells \ {c} : LocalTo(local', d) + Occurrences(items, d) = LocalTo(local, d)
  PROVE  RefInv'
<1>. DEFINE ext == Outside(local, host, copies, abandoned)
            more == Outside(local', host', copies', abandoned')
            g == heap'
<1>1. /\ c \in Cells /\ ~heap[c].live /\ heap \in Heaps /\ boxes \subseteq Cells
      /\ host' = host /\ copies' = copies /\ abandoned' = abandoned
      /\ boxes' = boxes \ {c} \/ boxes' = boxes \cup {c}
  BY DEF FreeCells, held, RefInv, TypeOK, Sound, NewCell
<1>2. /\ g \in Heaps /\ \A d \in Cells \ {c} : g[d] = heap[d]
      /\ g[c].live /\ g[c].rc = r /\ g[c].items = items
  BY NewCellShape
<1>3. ASSUME NEW d \in Cells
      PROVE  /\ LocalTo(local', d) \in Nat /\ HostTo(host, copies, d) \in Nat
             /\ abandoned[d] \in Nat
             /\ more[d] = LocalTo(local', d) + HostTo(host, copies, d) + abandoned[d]
             /\ ext[d] = LocalTo(local, d) + HostTo(host, copies, d) + abandoned[d]
  <2>1. LocalTo(local', d) \in Nat
    BY LocalToType
  <2>2. more[d] = LocalTo(local', d) + HostTo(host, copies, d) + abandoned[d]
    BY <1>1 DEF Outside
  <2>. QED
    BY <2>1, <2>2, OutsideType
<1>4. more \in [Cells -> Nat]
  <2>1. more = [d \in Cells |-> more[d]]
    BY DEF Outside
  <2>. HIDE DEF more, ext
  <2>2. ASSUME NEW d \in Cells PROVE more[d] \in Nat
    <3>1. LocalTo(local', d) \in Nat /\ HostTo(host, copies, d) \in Nat /\ abandoned[d] \in Nat
      BY <1>3
    <3>2. more[d] = LocalTo(local', d) + HostTo(host, copies, d) + abandoned[d]
      BY <1>3
    <3>. QED
      BY <3>1, <3>2
  <2>. HIDE DEF more
  <2>. QED
    BY <2>1, <2>2
<1>5. more[c] = 1
  <2>1. HostTo(host, copies, c) = 0 /\ abandoned[c] = 0
    BY NothingRefersToFree
  <2>2. more[c] = LocalTo(local', c) + HostTo(host, copies, c) + abandoned[c]
    BY <1>1, <1>3
  <2>. HIDE DEF more
  <2>. QED
    BY <2>1, <2>2
<1>6. \A d \in Cells \ {c} : more[d] + Occurrences(g[c].items, d) = ext[d]
  <2>. TAKE d \in Cells \ {c}
  <2>. DEFINE x == LocalTo(local', d)
              y == HostTo(host, copies, d)
              z == abandoned[d]
              o == Occurrences(items, d)
              l == LocalTo(local, d)
  <2>1. x \in Nat /\ y \in Nat /\ z \in Nat /\ more[d] = x + y + z /\ ext[d] = l + y + z
    BY <1>3
  <2>2. x + o = l /\ o \in Nat
    BY OccurrencesType
  <2>3. g[c].items = items
    BY <1>2
  <2>. HIDE DEF x, y, z, l, more, ext, g
  <2>4. more[d] + o = ext[d]
    BY <2>1, <2>2
  <2>. QED
    BY <2>3, <2>4
<1>. HIDE DEF g
<1>7. Sound(g) /\ Balanced(g, more)
  <2>. HIDE DEF more, ext
  <2>1. /\ g[c].live /\ g[c].rc \in {0, 1} /\ g \in Heaps
        /\ \A i \in DOMAIN g[c].items :
             heap[g[c].items[i]].live /\ heap[g[c].items[i]].items = <<>>
        /\ \A d \in Cells \ {c} : g[d] = heap[d]
        /\ Sound(heap) /\ Balanced(heap, ext)
    BY <1>2 DEF RefInv, ext
  <2>. QED
    BY <1>4, <1>5, <1>6, <2>1, AllocateBalanced
<1>8. /\ \A d \in Cells : \A i \in DOMAIN g[d].items : g[d].items[i] \notin boxes'
      /\ boxes' \subseteq Cells
  <2>1. \A d \in Cells : \A i \in DOMAIN g[d].items : g[d].items[i] \notin boxes /\ g[d].items[i] # c
    <3>. SUFFICES ASSUME NEW d \in Cells, NEW i \in DOMAIN g[d].items
                  PROVE  g[d].items[i] \notin boxes /\ g[d].items[i] # c
      OBVIOUS
    <3>1. CASE d = c
      BY <1>1, <1>2, <3>1
    <3>2. CASE d # c
      BY <1>2, <3>2, NothingRefersToFree DEF RefInv, NoBoxedBoxes
    <3>. QED
      BY <3>1, <3>2
  <2>. QED
    BY <1>1, <2>1
<1>9. (host = NoValue \/ WellFormed(host))'
  <2>1. \A f \in DOMAIN host.field : host.field[f] # c
    BY NothingRefersToFree
  <2>2. \A d : d # c => (d \in boxes' <=> d \in boxes)
    BY <1>1
  <2>. QED
    BY <1>1, <2>1, <2>2 DEF RefInv, WellFormed
<1>10. TypeOK'
  <2>1. heap' \in [Cells -> Cell]
    BY <1>2 DEF Heaps, g
  <2>. QED
    BY <1>1, <1>8, <2>1 DEF RefInv, TypeOK
<1>. QED
  BY <1>7, <1>8, <1>9, <1>10 DEF RefInv, NoBoxedBoxes, g

(* What a variable refers to, before and after.                            *)
LEMMA NothingIs == Nothing \in Value /\ Nothing.cell = NoCell /\ NoCell \notin Cells
BY DEF Nothing, Value, NoCell, Cells

LEMMA NewEmptyKeeps ==
  ASSUME RefInv, NEW l \in Locals, NewData(l) \/ NewStatic(l) PROVE RefInv'
<1>1. PICK c \in FreeCells(heap), r \in {0, 1} :
        /\ NewCell(c, r, <<>>) /\ local' = With(local, l, Whole(c, heap'))
  BY DEF NewData, NewStatic, Allocate, AllocateStatic, NewCell, With
<1>2. <<>> \in Seq(Cells)
  OBVIOUS
<1>3. /\ Whole(c, heap') \in Value /\ Whole(c, heap').cell = c /\ c \in Cells
  <2>1. NewCell(c, r, <<>>)
    BY <1>1
  <2>2. Whole(c, heap') \in Value /\ Whole(c, heap').cell = c
    BY <1>2, <2>1, NewCellShape, Zenon
  <2>. QED
    BY <2>2 DEF FreeCells
<1>4. local \in [Locals -> Value] /\ local[l].cell = NoCell
  BY Alive DEF NewData, NewStatic, Holds
<1>5. ASSUME NEW d \in Cells
      PROVE  LocalTo(local', d) = LocalTo(local, d) + Bit(c, d)
  <2>. DEFINE v == Whole(c, heap')
  <2>. HIDE DEF v
  <2>1. LocalTo(With(local, l, v), d) + Bit(local[l].cell, d)
          = LocalTo(local, d) + Bit(v.cell, d)
    <3>1. v \in Value /\ local \in [Locals -> Value]
      BY <1>3, <1>4 DEF v
    <3>. QED
      BY <3>1, LocalChange
  <2>2. LocalTo(local', d) + Bit(NoCell, d) = LocalTo(local, d) + Bit(c, d)
    BY <1>1, <1>3, <1>4, <2>1, Zenon DEF v
  <2>3. Bit(NoCell, d) = 0 /\ LocalTo(local', d) \in Nat
    BY NothingIs, LocalToType DEF Bit
  <2>. QED
    BY <2>2, <2>3
<1>6. local' \in [Locals -> Value]
  BY <1>1, <1>3, <1>4 DEF With
<1>7. LocalTo(local', c) = 1
  <2>1. LocalTo(local, c) = 0 /\ Bit(c, c) = 1
    BY NothingRefersToFree DEF Bit
  <2>2. LocalTo(local', c) = LocalTo(local, c) + Bit(c, c)
    BY <1>3, <1>5
  <2>. QED
    BY <2>1, <2>2
<1>8. ASSUME NEW d \in Cells \ {c}
      PROVE  LocalTo(local', d) + Occurrences(<<>>, d) = LocalTo(local, d)
  <2>1. Occurrences(<<>>, d) = 0 /\ Bit(c, d) = 0 /\ LocalTo(local, d) \in Nat
    BY OccurrencesEmpty, LocalToType DEF Bit
  <2>2. LocalTo(local', d) = LocalTo(local, d) + Bit(c, d)
    BY <1>5
  <2>. QED
    BY <2>1, <2>2
<1>9. NewCell(c, r, <<>>)
  BY <1>1
<1>10. \A i \in DOMAIN <<>> : /\ heap[<<>>[i]].live /\ heap[<<>>[i]].items = <<>>
                              /\ <<>>[i] \notin boxes
  OBVIOUS
<1>. QED
  BY <1>2, <1>6, <1>7, <1>8, <1>9, <1>10, NewCellKeeps

LEMMA NewBoxKeeps ==
  ASSUME RefInv, NEW l \in Locals, NewBox(l) PROVE RefInv'
<1>. DEFINE x == local[l].cell
<1>1. /\ x \in Cells /\ heap[x].live /\ heap[x].items = <<>> /\ x \notin boxes
      /\ local \in [Locals -> Value]
  BY Alive DEF NewBox
<1>2. PICK c \in FreeCells(heap) :
        NewCell(c, 1, <<x>>) /\ local' = With(local, l, Whole(c, heap'))
  BY DEF NewBox, Allocate, NewCell, With
<1>. HIDE DEF x
<1>3. <<x>> \in Seq(Cells) /\ DOMAIN <<x>> = {1} /\ <<x>>[1] = x
  BY <1>1
<1>4. /\ Whole(c, heap') \in Value /\ Whole(c, heap').cell = c /\ c \in Cells
  BY <1>2, <1>3, NewCellShape, NothingRefersToFree
<1>5. local' \in [Locals -> Value]
  BY <1>1, <1>2, <1>4 DEF With
<1>6. ASSUME NEW d \in Cells
      PROVE  LocalTo(local', d) + Bit(x, d) = LocalTo(local, d) + Bit(c, d)
  <2>. DEFINE v == Whole(c, heap')
  <2>. HIDE DEF v
  <2>1. LocalTo(With(local, l, v), d) + Bit(local[l].cell, d)
          = LocalTo(local, d) + Bit(v.cell, d)
    <3>1. v \in Value /\ local \in [Locals -> Value]
      BY <1>1, <1>4 DEF v
    <3>. QED
      BY <3>1, LocalChange
  <2>. QED
    BY <1>2, <1>4, <2>1, Zenon DEF v, x
<1>7. x # c
  BY <1>2, NothingRefersToFree DEF x
<1>8. LocalTo(local', c) = 1
  <2>1. Bit(x, c) = 0 /\ Bit(c, c) = 1 /\ LocalTo(local, c) = 0 /\ LocalTo(local', c) \in Nat
    BY <1>7, NothingRefersToFree, LocalToType DEF Bit
  <2>2. LocalTo(local', c) + Bit(x, c) = LocalTo(local, c) + Bit(c, c)
    BY <1>4, <1>6
  <2>. QED
    BY <2>1, <2>2
<1>9. ASSUME NEW d \in Cells \ {c}
      PROVE  LocalTo(local', d) + Occurrences(<<x>>, d) = LocalTo(local, d)
  <2>1. Occurrences(<<x>>, d) = Bit(x, d) /\ Bit(c, d) = 0 /\ LocalTo(local, d) \in Nat
    BY <1>7, OccurrencesOne, LocalToType DEF Bit
  <2>2. LocalTo(local', d) + Bit(x, d) = LocalTo(local, d) + Bit(c, d)
    BY <1>6
  <2>. QED
    BY <2>1, <2>2
<1>10. \A i \in DOMAIN <<x>> : /\ heap[<<x>>[i]].live /\ heap[<<x>>[i]].items = <<>>
                               /\ <<x>>[i] \notin boxes
  BY <1>1, <1>3
<1>11. NewCell(c, 1, <<x>>)
  BY <1>2
<1>. QED
  BY <1>3, <1>5, <1>8, <1>9, <1>10, <1>11, NewCellKeeps

LEMMA NewListKeeps ==
  ASSUME RefInv, NEW l \in Locals, NEW k \in Locals, NewList(l, k) PROVE RefInv'
<1>. DEFINE x == local[l].cell
            y == local[k].cell
<1>1. /\ x \in Cells /\ heap[x].live /\ heap[x].items = <<>> /\ x \notin boxes
      /\ y \in Cells /\ heap[y].live /\ heap[y].items = <<>> /\ y \notin boxes
      /\ local \in [Locals -> Value] /\ l # k
  BY Alive DEF NewList
<1>2. PICK c \in FreeCells(heap) :
        /\ NewCell(c, 1, <<x, y>>)
        /\ local' = With(With(local, l, Whole(c, heap')), k, Nothing)
  BY DEF NewList, Allocate, NewCell, With
<1>. HIDE DEF x, y
<1>3. <<x, y>> \in Seq(Cells) /\ DOMAIN <<x, y>> = {1, 2} /\ <<x, y>>[1] = x /\ <<x, y>>[2] = y
  BY <1>1
<1>4. /\ Whole(c, heap') \in Value /\ Whole(c, heap').cell = c /\ c \in Cells
  BY <1>2, <1>3, NewCellShape, NothingRefersToFree
<1>5. local' \in [Locals -> Value]
  BY <1>1, <1>2, <1>4, NothingIs DEF With
<1>6. ASSUME NEW d \in Cells
      PROVE  LocalTo(local', d) + Bit(x, d) + Bit(y, d) = LocalTo(local, d) + Bit(c, d)
  <2>. DEFINE v == Whole(c, heap')
              between == With(local, l, v)
  <2>1. between[k].cell = y /\ local' = With(between, k, Nothing)
    BY <1>1, <1>2 DEF y, With
  <2>. HIDE DEF v
  <2>2. /\ between \in [Locals -> Value]
        /\ LocalTo(between, d) + Bit(local[l].cell, d) = LocalTo(local, d) + Bit(v.cell, d)
    <3>1. v \in Value /\ local \in [Locals -> Value]
      BY <1>1, <1>4 DEF v
    <3>. QED
      BY <3>1, LocalChange
  <2>. HIDE DEF between
  <2>3. LocalTo(With(between, k, Nothing), d) + Bit(between[k].cell, d)
          = LocalTo(between, d) + Bit(Nothing.cell, d)
    <3>1. Nothing \in Value /\ between \in [Locals -> Value]
      BY <2>2, NothingIs
    <3>. QED
      BY <3>1, LocalChange
  <2>4. LocalTo(between, d) + Bit(x, d) = LocalTo(local, d) + Bit(c, d)
    BY <1>4, <2>2, Zenon DEF x, v
  <2>5. LocalTo(local', d) + Bit(y, d) = LocalTo(between, d) + Bit(NoCell, d)
    BY <2>1, <2>3, NothingIs, Zenon
  <2>6. /\ LocalTo(local', d) \in Nat /\ LocalTo(between, d) \in Nat /\ LocalTo(local, d) \in Nat
        /\ Bit(x, d) \in Nat /\ Bit(y, d) \in Nat /\ Bit(c, d) \in Nat
        /\ Bit(NoCell, d) = 0
    BY NothingIs, LocalToType DEF Bit
  <2>. QED
    BY <2>4, <2>5, <2>6
<1>7. x # c /\ y # c
  BY <1>2, NothingRefersToFree DEF x, y
<1>8. LocalTo(local', c) = 1
  <2>1. /\ Bit(x, c) = 0 /\ Bit(y, c) = 0 /\ Bit(c, c) = 1 /\ LocalTo(local, c) = 0
        /\ LocalTo(local', c) \in Nat
    BY <1>7, NothingRefersToFree, LocalToType DEF Bit
  <2>2. LocalTo(local', c) + Bit(x, c) + Bit(y, c) = LocalTo(local, c) + Bit(c, c)
    BY <1>4, <1>6
  <2>. QED
    BY <2>1, <2>2
<1>9. ASSUME NEW d \in Cells \ {c}
      PROVE  LocalTo(local', d) + Occurrences(<<x, y>>, d) = LocalTo(local, d)
  <2>1. /\ Occurrences(<<x, y>>, d) = Bit(x, d) + Bit(y, d) /\ Bit(c, d) = 0
        /\ LocalTo(local, d) \in Nat /\ LocalTo(local', d) \in Nat
        /\ Bit(x, d) \in Nat /\ Bit(y, d) \in Nat
    BY <1>7, OccurrencesTwo, LocalToType DEF Bit
  <2>2. LocalTo(local', d) + Bit(x, d) + Bit(y, d) = LocalTo(local, d) + Bit(c, d)
    BY <1>6
  <2>. QED
    BY <2>1, <2>2
<1>10. \A i \in DOMAIN <<x, y>> : /\ heap[<<x, y>>[i]].live /\ heap[<<x, y>>[i]].items = <<>>
                                  /\ <<x, y>>[i] \notin boxes
  BY <1>1, <1>3
<1>11. NewCell(c, 1, <<x, y>>)
  BY <1>2
<1>. QED
  BY <1>3, <1>5, <1>8, <1>9, <1>10, <1>11, NewCellKeeps

-----------------------------------------------------------------------------
(* The actions on one variable's reference.                                *)

LEMMA LocalKeeps ==
  ASSUME RefInv, UNCHANGED <<boxes, held>>, local' \in [Locals -> Value],
         Sound(heap'), Balanced(heap', Outside(local', host, copies, abandoned)),
         \A d \in Cells : heap'[d].items = heap[d].items \/ ~heap'[d].live
  PROVE  RefInv'
<1>1. /\ host' = host /\ copies' = copies /\ abandoned' = abandoned /\ boxes' = boxes
  BY DEF held
<1>2. heap' \in [Cells -> Cell]
  BY DEF Sound, Heaps
<1>3. TypeOK'
  BY <1>1, <1>2 DEF RefInv, TypeOK
<1>4. (host = NoValue \/ WellFormed(host))'
  BY <1>1 DEF RefInv, WellFormed
<1>5. ASSUME NEW d \in Cells, NEW i \in DOMAIN heap'[d].items
      PROVE  heap'[d].items[i] \notin boxes
  <2>1. heap'[d].items = heap[d].items
    <3>1. heap'[d].live
      BY FreeShape DEF Sound
    <3>. QED
      BY <3>1
  <2>. QED
    BY <2>1 DEF RefInv, NoBoxedBoxes
<1>. QED
  BY <1>1, <1>3, <1>4, <1>5 DEF RefInv, NoBoxedBoxes

(* What the change of one variable does to the references from outside.    *)
LEMMA OutsideLocal ==
  ASSUME RefInv, NEW l \in Locals, NEW v \in Value
  PROVE  /\ With(local, l, v) \in [Locals -> Value]
         /\ Outside(With(local, l, v), host, copies, abandoned) \in [Cells -> Nat]
         /\ \A d \in Cells :
              Outside(With(local, l, v), host, copies, abandoned)[d] + Bit(local[l].cell, d)
                = Outside(local, host, copies, abandoned)[d] + Bit(v.cell, d)
<1>. DEFINE new == With(local, l, v)
            more == Outside(new, host, copies, abandoned)
            ext == Outside(local, host, copies, abandoned)
<1>1. new \in [Locals -> Value]
  BY Alive, LocalChange
<1>2. ASSUME NEW d \in Cells
      PROVE  more[d] \in Nat /\ more[d] + Bit(local[l].cell, d) = ext[d] + Bit(v.cell, d)
  <2>. DEFINE x == LocalTo(new, d)
              y == LocalTo(local, d)
              z == HostTo(host, copies, d)
              w == abandoned[d]
              p == Bit(local[l].cell, d)
              q == Bit(v.cell, d)
  <2>1. x + p = y + q
    BY Alive, LocalChange
  <2>2. x \in Nat /\ y \in Nat /\ z \in Nat /\ w \in Nat /\ p \in Nat /\ q \in Nat
    BY OutsideType, LocalToType DEF Bit
  <2>3. more[d] = x + z + w
    BY DEF Outside
  <2>4. ext[d] = y + z + w
    BY OutsideType
  <2>. HIDE DEF x, y, z, w, p, q, more, ext
  <2>5. more[d] \in Nat /\ more[d] + p = ext[d] + q
    BY <2>1, <2>2, <2>3, <2>4
  <2>. QED
    BY <2>5 DEF p, q
<1>3. more = [d \in Cells |-> more[d]]
  BY DEF Outside
<1>. HIDE DEF more, ext, new
<1>4. more \in [Cells -> Nat]
  BY <1>2, <1>3
<1>. QED
  BY <1>1, <1>2, <1>4 DEF more, ext, new

LEMMA IncrefShape ==
  ASSUME NEW h \in Heaps, NEW c \in Cells
  PROVE  /\ incref(h, c, 1) \in Heaps
         /\ \A d \in Cells :
              /\ incref(h, c, 1)[d].live = h[d].live /\ incref(h, c, 1)[d].items = h[d].items
              /\ incref(h, c, 1)[d].rc = IF h[d].rc = 0 THEN 0 ELSE h[d].rc + Bit(c, d)
<1>1. \A d \in Cells : h[d] \in Cell /\ h[d].rc \in Nat
  BY HeapType
<1>2. CASE h[c].rc = 0
  BY <1>1, <1>2 DEF incref, IsStatic, Bit
<1>3. CASE h[c].rc # 0
  <2>1. incref(h, c, 1) = [h EXCEPT ![c].rc = @ + 1]
    BY <1>3 DEF incref, IsStatic
  <2>2. [h[c] EXCEPT !.rc = @ + 1] \in Cell
    BY <1>1 DEF Cell
  <2>3. \A d \in Cells \ {c} : incref(h, c, 1)[d] = h[d]
    BY <2>1 DEF Heaps
  <2>4. incref(h, c, 1)[c] = [h[c] EXCEPT !.rc = @ + 1]
    BY <2>1 DEF Heaps
  <2>5. incref(h, c, 1) \in Heaps
    BY <2>1, <2>2 DEF Heaps
  <2>6. /\ incref(h, c, 1)[c].live = h[c].live /\ incref(h, c, 1)[c].items = h[c].items
        /\ incref(h, c, 1)[c].rc = h[c].rc + 1
    BY <1>1, <2>4 DEF Cell
  <2>7. ASSUME NEW d \in Cells
        PROVE  /\ incref(h, c, 1)[d].live = h[d].live /\ incref(h, c, 1)[d].items = h[d].items
               /\ incref(h, c, 1)[d].rc = IF h[d].rc = 0 THEN 0 ELSE h[d].rc + Bit(c, d)
    <3>1. CASE d = c
      BY <1>3, <2>6, <3>1 DEF Bit
    <3>2. CASE d # c
      <4>1. Bit(c, d) = 0 /\ incref(h, c, 1)[d] = h[d] /\ h[d].rc \in Nat
        BY <1>1, <2>3, <3>2 DEF Bit
      <4>. QED
        BY <4>1
    <3>. QED
      BY <3>1, <3>2
  <2>. QED
    BY <2>5, <2>7
<1>. QED
  BY <1>2, <1>3

LEMMA CopyKeeps ==
  ASSUME RefInv, NEW l \in Locals, NEW k \in Locals, Copy(l, k) PROVE RefInv'
<1>. DEFINE c == local[l].cell
            n == [d \in Cells |-> Bit(c, d)]
            ext == Outside(local, host, copies, abandoned)
            more == Outside(local', host, copies, abandoned)
<1>1. /\ c \in Cells /\ heap[c].live /\ heap \in Heaps /\ local[l] \in Value
      /\ local[k].cell = NoCell
  BY Alive DEF Copy, Holds
<1>2. local' = With(local, k, local[l])
  BY DEF Copy, With
<1>3. /\ local' \in [Locals -> Value] /\ more \in [Cells -> Nat]
      /\ \A d \in Cells : more[d] + Bit(NoCell, d) = ext[d] + Bit(c, d)
  <2>1. /\ With(local, k, local[l]) \in [Locals -> Value]
        /\ Outside(With(local, k, local[l]), host, copies, abandoned) \in [Cells -> Nat]
        /\ \A d \in Cells :
             Outside(With(local, k, local[l]), host, copies, abandoned)[d] + Bit(local[k].cell, d)
               = ext[d] + Bit(local[l].cell, d)
    <3>1. local[l] \in Value
      BY <1>1
    <3>. QED
      BY <3>1, OutsideLocal
  <2>. QED
    BY <1>1, <1>2, <2>1, Zenon
<1>4. \A d \in Cells : n[d] \in Nat /\ n[d] = Bit(c, d) /\ (n[d] > 0 => heap[d].live)
  BY <1>1 DEF Bit
<1>5. n \in [Cells -> Nat]
  BY <1>4
<1>6. heap' = incref(heap, c, 1)
  BY DEF Copy
<1>. HIDE DEF n, c, ext, more
<1>7. \A d \in Cells : more[d] = ext[d] + n[d]
  <2>. TAKE d \in Cells
  <2>1. more[d] + Bit(NoCell, d) = ext[d] + Bit(c, d) /\ n[d] = Bit(c, d) /\ more[d] \in Nat
    BY <1>3, <1>4
  <2>2. Bit(NoCell, d) = 0
    BY NothingIs DEF Bit
  <2>. QED
    BY <2>1, <2>2
<1>8. /\ heap' \in Heaps
      /\ \A d \in Cells : /\ heap'[d].live = heap[d].live /\ heap'[d].items = heap[d].items
                          /\ heap'[d].rc = IF heap[d].rc = 0 THEN 0 ELSE heap[d].rc + n[d]
  <2>1. /\ incref(heap, c, 1) \in Heaps
        /\ \A d \in Cells :
              /\ incref(heap, c, 1)[d].live = heap[d].live
              /\ incref(heap, c, 1)[d].items = heap[d].items
              /\ incref(heap, c, 1)[d].rc = IF heap[d].rc = 0 THEN 0 ELSE heap[d].rc + Bit(c, d)
    <3>1. heap \in Heaps /\ c \in Cells
      BY <1>1
    <3>. QED
      BY <3>1, IncrefShape
  <2>. QED
    BY <1>4, <1>6, <2>1
<1>9. Sound(heap') /\ Balanced(heap', more)
  <2>1. Sound(heap) /\ Balanced(heap, ext) /\ \A d \in Cells : n[d] > 0 => heap[d].live
    BY <1>4 DEF RefInv, ext
  <2>2. more \in [Cells -> Nat]
    BY <1>3
  <2>. QED
    BY <1>5, <1>7, <1>8, <2>1, <2>2, IncrefBalanced
<1>10. UNCHANGED <<boxes, held>>
  BY DEF Copy
<1>. QED
  BY <1>3, <1>8, <1>9, <1>10, LocalKeeps DEF more

LEMMA SliceKeeps ==
  ASSUME RefInv, NEW l \in Locals, Slice(l) PROVE RefInv'
<1>. DEFINE v == [local[l] EXCEPT !.shown = @ - 1]
            ext == Outside(local, host, copies, abandoned)
            more == Outside(local', host, copies, abandoned)
<1>1. v \in Value /\ v.cell = local[l].cell /\ local' = With(local, l, v) /\ heap' = heap
  <2>1. local[l] \in Value /\ local[l].shown > 0
    BY Alive DEF Slice
  <2>. QED
    BY <2>1 DEF Slice, With, Value
<1>. HIDE DEF v
<1>2. /\ local' \in [Locals -> Value] /\ more \in [Cells -> Nat]
      /\ \A d \in Cells : more[d] + Bit(v.cell, d) = ext[d] + Bit(v.cell, d)
  <2>1. /\ With(local, l, v) \in [Locals -> Value]
        /\ Outside(With(local, l, v), host, copies, abandoned) \in [Cells -> Nat]
        /\ \A d \in Cells :
             Outside(With(local, l, v), host, copies, abandoned)[d] + Bit(local[l].cell, d)
               = ext[d] + Bit(v.cell, d)
    <3>1. v \in Value
      BY <1>1
    <3>. QED
      BY <3>1, OutsideLocal
  <2>. QED
    BY <1>1, <2>1, Zenon
<1>3. Sound(heap) /\ Balanced(heap, ext)
  BY DEF RefInv
<1>. HIDE DEF ext, more
<1>4. \A d \in Cells : more[d] = ext[d]
  <2>. TAKE d \in Cells
  <2>1. more[d] \in Nat /\ ext[d] \in Nat /\ Bit(v.cell, d) \in Nat
    BY <1>2, <1>3 DEF Balanced, Bit
  <2>. QED
    BY <1>2, <2>1
<1>5. Balanced(heap, more)
  BY <1>2, <1>3, <1>4 DEF Balanced
<1>6. UNCHANGED <<boxes, held>>
  BY DEF Slice
<1>7. Sound(heap') /\ Balanced(heap', more) /\ \A d \in Cells : heap'[d].items = heap[d].items
  BY <1>1, <1>3, <1>5
<1>. QED
  BY <1>2, <1>6, <1>7, LocalKeeps DEF more

LEMMA DropKeeps ==
  ASSUME RefInv, NEW l \in Locals, Drop(l) PROVE RefInv'
<1>. DEFINE c == local[l].cell
            ext == Outside(local, host, copies, abandoned)
            more == Outside(local', host, copies, abandoned)
<1>1. /\ c \in Cells /\ heap \in Heaps /\ local' = With(local, l, Nothing)
      /\ heap' = release(heap, c, local[l].shown)
  BY Alive DEF Drop, With
<1>2. /\ local' \in [Locals -> Value] /\ more \in [Cells -> Nat]
      /\ \A d \in Cells : more[d] + Bit(c, d) = ext[d] + Bit(NoCell, d)
  <2>1. /\ With(local, l, Nothing) \in [Locals -> Value]
        /\ Outside(With(local, l, Nothing), host, copies, abandoned) \in [Cells -> Nat]
        /\ \A d \in Cells :
             Outside(With(local, l, Nothing), host, copies, abandoned)[d] + Bit(local[l].cell, d)
               = ext[d] + Bit(Nothing.cell, d)
    BY NothingIs, OutsideLocal
  <2>. QED
    BY <1>1, <2>1, NothingIs, Zenon
<1>3. Sound(heap) /\ Balanced(heap, ext)
  BY DEF RefInv
<1>. HIDE DEF c, ext, more
<1>4. ASSUME NEW d \in Cells PROVE more[d] + Bit(d, c) = ext[d] /\ ext[d] \in Nat /\ more[d] \in Nat
  <2>1. Bit(NoCell, d) = 0 /\ Bit(d, c) = Bit(c, d)
    BY NothingIs DEF Bit
  <2>2. ext[d] \in Nat /\ more[d] \in Nat
    BY <1>2, <1>3 DEF Balanced
  <2>3. more[d] + Bit(c, d) = ext[d] + Bit(NoCell, d)
    BY <1>2
  <2>. QED
    BY <2>1, <2>2, <2>3
<1>5. ext[c] > 0
  <2>1. Bit(c, c) = 1
    BY DEF Bit
  <2>. QED
    BY <1>1, <1>4, <2>1
<1>6. Released(heap, c, release(heap, c, local[l].shown), more)
  <2>1. c \in Cells /\ more \in [Cells -> Nat] /\ \A d \in Cells : more[d] + Bit(d, c) = ext[d]
    BY <1>1, <1>2, <1>4
  <2>. QED
    BY <1>3, <1>5, <2>1, ReleaseBalanced
<1>7. /\ Sound(heap') /\ Balanced(heap', more)
      /\ \A d \in Cells : heap'[d].items = heap[d].items \/ ~heap'[d].live
  BY <1>1, <1>6 DEF Released
<1>8. UNCHANGED <<boxes, held>>
  BY DEF Drop
<1>. QED
  BY <1>2, <1>7, <1>8, LocalKeeps DEF more

-----------------------------------------------------------------------------
(* The actions on the host's value.                                        *)

LEMMA FieldsOfSubscriptions ==
  /\ \A s \in Subscriptions : FieldsFor(s) \subseteq ToSet(Fields("Subscriptions"))
  /\ \A s \in Subscriptions : FieldsFor(s) \subseteq ToSet(Fields("Result"))
  /\ {"effects", "m"} \subseteq ToSet(Fields("Result"))
<1>. DEFINE names == {"on_fire", "host", "accepted", "accept_closed", "stdin", "address",
                      "connected", "connect_closed", "receive"}
<1>1. Fields("Subscriptions") = SubscriptionsFields
  BY DEF Fields, Effects
<1>2. Fields("Result") = ResultFields
  BY DEF Fields, Effects
<1>3. names \subseteq ToSet(SubscriptionsFields)
  <2>. DEFINE s == <<"on_fire", "host", "accepted", "accept_closed", "stdin", "address",
                     "connected", "connect_closed", "receive">>
  <2>1. /\ s[1] = "on_fire" /\ s[2] = "host" /\ s[3] = "accepted" /\ s[4] = "accept_closed"
        /\ s[5] = "stdin" /\ s[6] = "address" /\ s[7] = "connected" /\ s[8] = "connect_closed"
        /\ s[9] = "receive" /\ DOMAIN s = 1 .. 9
    OBVIOUS
  <2>2. s = SubscriptionsFields
    BY SubscriptionsFieldsAre
  <2>. HIDE DEF s
  <2>3. \A f \in names : \E i \in DOMAIN s : s[i] = f
    BY <2>1
  <2>4. \A f \in names : f \in {s[i] : i \in DOMAIN s}
    BY <2>3
  <2>. QED
    BY <2>2, <2>4 DEF ToSet
<1>4. names \cup {"effects", "m"} \subseteq ToSet(ResultFields)
  <2>. DEFINE s == <<"on_fire", "host", "accepted", "accept_closed", "stdin", "address",
                     "connected", "connect_closed", "receive", "effects", "m">>
  <2>1. /\ s[1] = "on_fire" /\ s[2] = "host" /\ s[3] = "accepted" /\ s[4] = "accept_closed"
        /\ s[5] = "stdin" /\ s[6] = "address" /\ s[7] = "connected" /\ s[8] = "connect_closed"
        /\ s[9] = "receive" /\ s[10] = "effects" /\ s[11] = "m" /\ DOMAIN s = 1 .. 11
    OBVIOUS
  <2>2. s = ResultFields
    BY ResultFieldsAre
  <2>. HIDE DEF s
  <2>3. \A f \in names \cup {"effects", "m"} : \E i \in DOMAIN s : s[i] = f
    BY <2>1
  <2>4. \A f \in names \cup {"effects", "m"} : f \in {s[i] : i \in DOMAIN s}
    BY <2>3
  <2>. QED
    BY <2>2, <2>4 DEF ToSet
<1>5. \A s \in Subscriptions : FieldsFor(s) \subseteq names
  <2>1. FieldsFor("timer") \subseteq names
    BY DEF FieldsFor
  <2>2. FieldsFor("accept") \subseteq names
    BY DEF FieldsFor
  <2>3. FieldsFor("stdin") \subseteq names
    BY DEF FieldsFor
  <2>4. FieldsFor("connect") \subseteq names
    BY DEF FieldsFor
  <2>5. FieldsFor("receive") \subseteq names
    BY DEF FieldsFor
  <2>. HIDE DEF names
  <2>. QED
    BY <2>1, <2>2, <2>3, <2>4, <2>5 DEF Subscriptions
<1>. HIDE DEF names
<1>. QED
  BY <1>1, <1>2, <1>3, <1>4, <1>5

LEMMA FieldsOfOthers ==
  /\ {"text"} \subseteq ToSet(Fields("Print")) /\ {"data"} \subseteq ToSet(Fields("TcpSend"))
  /\ {"content", "filename"} \subseteq ToSet(Fields("WriteToFile"))
  /\ {"rows"} \subseteq ToSet(Fields("View"))
<1>1. Fields("Print") = <<"text">>
  BY DEF Fields, Effects, EffectFields
<1>2. Fields("TcpSend") = <<"data">>
  BY DEF Fields, Effects, EffectFields
<1>3. Fields("WriteToFile") = <<"content", "filename">>
  BY DEF Fields, Effects, EffectFields
<1>4. Fields("View") = <<"rows">>
  BY DEF Fields, Effects, ViewFields
<1>5. ToSet(<<"content", "filename">>) = {"content", "filename"}
  BY DEF ToSet
<1>6. \A f : ToSet(<<f>>) = {f}
  BY DEF ToSet
<1>. QED
  BY <1>1, <1>2, <1>3, <1>4, <1>5, <1>6

(* The values a program makes are as their types have them.                *)
LEMMA HostValuesWellFormed ==
  ASSUME RefInv, NEW a \in (LocalCells \ boxes) \cup {NoCell},
         NEW b \in (LocalCells \ boxes) \cup {NoCell},
         NEW x \in (LocalCells \cap boxes) \cup {NoCell}, NEW v \in HostValues(a, b, x)
  PROVE  /\ WellFormed(v) /\ v.type # "none"
         /\ \A f \in DOMAIN v.field : v.field[f] # NoCell => heap[v.field[f]].live
<1>. DEFINE is(f) == IF f \in BoxFields THEN x
                     ELSE IF f \in Closures \cup {"filename"} THEN b ELSE a
            made(type, fields) == HostValue(type, [f \in fields |-> is(f)])
<1>1. \A c \in LocalCells : c \in Cells /\ heap[c].live
  BY Alive DEF LocalCells, Holds
<1>2. ASSUME NEW f
      PROVE  /\ is(f) \in Cells \cup {NoCell}
             /\ is(f) # NoCell => (f \in BoxFields <=> is(f) \in boxes) /\ heap[is(f)].live
  BY <1>1
<1>. HIDE DEF is
<1>3. ASSUME NEW type \in Types, NEW fields, fields \subseteq ToSet(Fields(type)), v = made(type, fields)
      PROVE  /\ WellFormed(v) /\ v.type # "none"
             /\ \A f \in DOMAIN v.field : v.field[f] # NoCell => heap[v.field[f]].live
  <2>1. v.type = type /\ v.field = [f \in fields |-> is(f)]
    BY <1>3 DEF HostValue
  <2>2. DOMAIN v.field = fields /\ \A f \in fields : v.field[f] = is(f)
    BY <2>1
  <2>3. \A f \in DOMAIN v.field :
          /\ v.field[f] \in Cells \cup {NoCell}
          /\ v.field[f] # NoCell => (f \in BoxFields <=> v.field[f] \in boxes)
          /\ v.field[f] # NoCell => heap[v.field[f]].live
    BY <1>2, <2>2
  <2>4. v.type \in Types /\ DOMAIN v.field \subseteq ToSet(Fields(v.type))
    BY <1>3, <2>1, <2>2
  <2>5. v.type # "none"
    BY <2>1 DEF Types, Effects
  <2>. QED
    BY <2>3, <2>4, <2>5 DEF WellFormed
<1>4. \E type \in Types : \E fields : fields \subseteq ToSet(Fields(type)) /\ v = made(type, fields)
  <2>1. \/ v = made("Exit", {}) \/ v = made("Print", {"text"}) \/ v = made("TcpSend", {"data"})
        \/ v = made("WriteToFile", {"content", "filename"}) \/ v = made("View", {})
        \/ v = made("View", {"rows"})
        \/ \E active \in ActiveChoices :
             \/ v = made("Subscriptions", SubscriptionFields(active))
             \/ v = made("Result", SubscriptionFields(active) \cup {"effects", "m"})
    BY DEF HostValues, is
  <2>2. /\ "Exit" \in Types /\ "Print" \in Types /\ "TcpSend" \in Types /\ "WriteToFile" \in Types
        /\ "View" \in Types /\ "Subscriptions" \in Types /\ "Result" \in Types
    BY DEF Types, Effects
  <2>3. \A active \in ActiveChoices :
          /\ SubscriptionFields(active) \subseteq ToSet(Fields("Subscriptions"))
          /\ SubscriptionFields(active) \cup {"effects", "m"} \subseteq ToSet(Fields("Result"))
    <3>. TAKE active \in ActiveChoices
    <3>1. active \subseteq Subscriptions
      BY ConstantsAssumption
    <3>. QED
      BY <3>1, FieldsOfSubscriptions DEF SubscriptionFields
  <2>4. \A type : {} \subseteq ToSet(Fields(type))
    OBVIOUS
  <2>. HIDE DEF made
  <2>. QED
    BY <2>1, <2>2, <2>3, <2>4, FieldsOfOthers
<1>. QED
  BY <1>3, <1>4

LEMMA IncrefFieldsShape ==
  ASSUME NEW h \in Heaps, NEW v, NEW S, NEW amount \in Nat,
         \A c \in Cells : FieldsTo(v, S, c) \in Nat
  PROVE  /\ incref_fields(h, v, S, amount) \in Heaps
         /\ \A d \in Cells :
              /\ incref_fields(h, v, S, amount)[d].live = h[d].live
              /\ incref_fields(h, v, S, amount)[d].items = h[d].items
              /\ incref_fields(h, v, S, amount)[d].rc
                   = IF h[d].rc = 0 THEN 0 ELSE h[d].rc + amount * FieldsTo(v, S, d)
<1>. DEFINE g == incref_fields(h, v, S, amount)
            n(d) == amount * FieldsTo(v, S, d)
<1>1. \A d \in Cells : n(d) \in Nat
  OBVIOUS
<1>2. \A d \in Cells : g[d] = IF h[d].rc = 0 THEN h[d] ELSE [h[d] EXCEPT !.rc = @ + n(d)]
  BY DEF incref_fields, IsStatic
<1>3. g = [d \in Cells |-> g[d]]
  BY DEF incref_fields
<1>. HIDE DEF g, n
<1>4. ASSUME NEW d \in Cells
      PROVE  /\ g[d] \in Cell /\ g[d].live = h[d].live /\ g[d].items = h[d].items
             /\ g[d].rc = IF h[d].rc = 0 THEN 0 ELSE h[d].rc + n(d)
  <2>1. h[d] \in Cell /\ h[d].rc \in Nat /\ n(d) \in Nat
    BY <1>1, HeapType
  <2>2. CASE h[d].rc = 0
    BY <1>2, <2>1, <2>2
  <2>3. CASE h[d].rc # 0
    <3>1. g[d] = [h[d] EXCEPT !.rc = @ + n(d)]
      BY <1>2, <2>3
    <3>2. h[d].rc + n(d) \in Nat
      BY <2>1
    <3>. QED
      BY <2>1, <2>3, <3>1, <3>2 DEF Cell
  <2>. QED
    BY <2>2, <2>3
<1>5. g \in Heaps
  BY <1>3, <1>4 DEF Heaps
<1>. QED
  BY <1>4, <1>5 DEF g, n

(* The references of the host's copies are retained.                       *)
LEMMA HostIncref ==
  ASSUME RefInv, NEW v, WellFormed(v),
         \A f \in DOMAIN v.field : v.field[f] # NoCell => heap[v.field[f]].live,
         NEW S, \A d \in Cells : FieldsTo(v, S, d) = FieldsTo(v, DOMAIN v.field, d),
         NEW m \in Nat, NEW amount \in Nat,
         \A d \in Cells : HostTo(v, m, d) = HostTo(host, copies, d) + HostTo(v, amount, d)
  PROVE  /\ Sound(incref_fields(heap, v, S, amount))
         /\ Balanced(incref_fields(heap, v, S, amount), Outside(local, v, m, abandoned))
         /\ \A d \in Cells : incref_fields(heap, v, S, amount)[d].items = heap[d].items
<1>. DEFINE g == incref_fields(heap, v, S, amount)
            n == [d \in Cells |-> HostTo(v, amount, d)]
            ext == Outside(local, host, copies, abandoned)
            more == Outside(local, v, m, abandoned)
<1>1. Sound(heap) /\ Balanced(heap, ext) /\ heap \in Heaps
  BY DEF RefInv, Sound
<1>2. \A d \in Cells : FieldsTo(v, DOMAIN v.field, d) \in Nat /\ HostTo(v, amount, d) \in Nat
  BY HostToType
<1>3. n \in [Cells -> Nat] /\ \A d \in Cells : n[d] = HostTo(v, amount, d)
  BY <1>2
<1>4. ASSUME NEW d \in Cells, n[d] > 0 PROVE heap[d].live
  <2>1. FieldsTo(v, DOMAIN v.field, d) # 0
    BY <1>2, <1>3, <1>4 DEF HostTo
  <2>2. \E f \in DOMAIN v.field : v.field[f] = d
    <3>1. FieldsTo(v, DOMAIN v.field, d) = 0 <=> \A f \in DOMAIN v.field : v.field[f] # d
      BY HostToType
    <3>. QED
      BY <2>1, <3>1
  <2>3. d # NoCell
    BY DEF Cells, NoCell
  <2>. QED
    BY <2>2, <2>3
<1>5. ASSUME NEW d \in Cells PROVE more[d] \in Nat /\ more[d] = ext[d] + n[d]
  <2>. DEFINE x == LocalTo(local, d)
              y == HostTo(host, copies, d)
              z == abandoned[d]
              w == HostTo(v, amount, d)
              u == HostTo(v, m, d)
  <2>1. x \in Nat /\ y \in Nat /\ z \in Nat /\ w \in Nat /\ ext[d] = x + y + z
    BY <1>2, OutsideType
  <2>2. more[d] = x + u + z /\ n[d] = w
    BY DEF Outside
  <2>3. u = y + w
    OBVIOUS
  <2>. HIDE DEF x, y, z, w, u, more, ext, n
  <2>. QED
    BY <2>1, <2>2, <2>3
<1>6. more = [d \in Cells |-> more[d]]
  BY DEF Outside
<1>7. /\ g \in Heaps
      /\ \A d \in Cells :
           /\ g[d].live = heap[d].live /\ g[d].items = heap[d].items
           /\ g[d].rc = IF heap[d].rc = 0 THEN 0 ELSE heap[d].rc + n[d]
  <2>1. heap \in Heaps /\ \A d \in Cells : FieldsTo(v, S, d) \in Nat
    BY <1>1, <1>2
  <2>2. /\ g \in Heaps
        /\ \A d \in Cells :
             /\ g[d].live = heap[d].live /\ g[d].items = heap[d].items
             /\ g[d].rc = IF heap[d].rc = 0 THEN 0 ELSE heap[d].rc + amount * FieldsTo(v, S, d)
    BY <2>1, IncrefFieldsShape
  <2>3. \A d \in Cells : amount * FieldsTo(v, S, d) = n[d]
    BY <1>3 DEF HostTo
  <2>. HIDE DEF g, n
  <2>. QED
    BY <2>2, <2>3
<1>. HIDE DEF g, n, more, ext
<1>8. more \in [Cells -> Nat] /\ \A d \in Cells : more[d] = ext[d] + n[d]
  BY <1>5, <1>6
<1>9. Sound(g) /\ Balanced(g, more)
  <2>1. n \in [Cells -> Nat] /\ \A d \in Cells : n[d] > 0 => heap[d].live
    BY <1>3, <1>4
  <2>. QED
    BY <1>1, <1>7, <1>8, <2>1, IncrefBalanced
<1>. QED
  BY <1>7, <1>9 DEF g, more

LEMMA MakeKeeps ==
  ASSUME RefInv, Make PROVE RefInv'
<1>1. PICK a \in (LocalCells \ boxes) \cup {NoCell}, b \in (LocalCells \ boxes) \cup {NoCell},
           x \in (LocalCells \cap boxes) \cup {NoCell} :
        \E v \in HostValues(a, b, x) :
          heap' = incref_fields(heap, v, DOMAIN v.field, 1) /\ host' = v
  BY DEF Make
<1>2. PICK v \in HostValues(a, b, x) :
        heap' = incref_fields(heap, v, DOMAIN v.field, 1) /\ host' = v
  BY <1>1
<1>3. /\ WellFormed(v) /\ v.type # "none"
      /\ \A f \in DOMAIN v.field : v.field[f] # NoCell => heap[v.field[f]].live
  BY HostValuesWellFormed
<1>4. /\ host = NoValue /\ copies = 0 /\ copies' = 1
      /\ local' = local /\ boxes' = boxes /\ abandoned' = abandoned
  BY DEF Make, RefInv, TypeOK
<1>5. \A d \in Cells : HostTo(v, 1, d) = HostTo(host, copies, d) + HostTo(v, 1, d)
  <2>. TAKE d \in Cells
  <2>1. HostTo(host, copies, d) = 0
    BY <1>4, HostToNone
  <2>2. HostTo(v, 1, d) \in Nat
    BY <1>3, HostToType
  <2>. QED
    BY <2>1, <2>2
<1>6. /\ Sound(heap') /\ Balanced(heap', Outside(local, v, 1, abandoned))
      /\ \A d \in Cells : heap'[d].items = heap[d].items
  <2>1. /\ Sound(incref_fields(heap, v, DOMAIN v.field, 1))
        /\ Balanced(incref_fields(heap, v, DOMAIN v.field, 1), Outside(local, v, 1, abandoned))
        /\ \A d \in Cells : incref_fields(heap, v, DOMAIN v.field, 1)[d].items = heap[d].items
    BY <1>3, <1>5, HostIncref
  <2>. QED
    BY <1>2, <2>1
<1>7. TypeOK'
  <2>1. heap' \in [Cells -> Cell]
    BY <1>6 DEF Sound, Heaps
  <2>2. host'.type \in Types /\ host' # NoValue
    BY <1>2, <1>3 DEF WellFormed, NoValue, HostValue
  <2>3. 1 \in 0 .. MaxCopies
    BY ConstantsAssumption
  <2>. QED
    BY <1>4, <2>1, <2>2, <2>3 DEF RefInv, TypeOK, Types, Effects
<1>8. WellFormed(host)'
  BY <1>2, <1>3, <1>4 DEF WellFormed
<1>9. NoBoxedBoxes(heap)'
  BY <1>4, <1>6 DEF RefInv, NoBoxedBoxes
<1>10. Balanced(heap', Outside(local', host', copies', abandoned'))
  BY <1>2, <1>4, <1>6
<1>. QED
  BY <1>6, <1>7, <1>8, <1>9, <1>10 DEF RefInv

LEMMA CopyValueKeeps ==
  ASSUME RefInv, CopyValue PROVE RefInv'
<1>1. PICK amount \in 1 .. MaxCopies - copies :
        heap' = incref_value(heap, host, amount) /\ copies' = copies + amount
  BY DEF CopyValue
<1>2. /\ host # NoValue /\ WellFormed(host) /\ copies \in Nat /\ amount \in Nat
      /\ copies + amount \in 1 .. MaxCopies
      /\ local' = local /\ host' = host /\ boxes' = boxes /\ abandoned' = abandoned
  BY ConstantsAssumption DEF CopyValue, RefInv, TypeOK
<1>. DEFINE S == ToSet(Fields(host.type))
            m == copies + amount
<1>3. \A f \in DOMAIN host.field : host.field[f] # NoCell => heap[host.field[f]].live
  BY Alive
<1>4. \A d \in Cells : FieldsTo(host, S, d) = FieldsTo(host, DOMAIN host.field, d)
  <2>1. host.type \in Types /\ DOMAIN host.field \subseteq ToSet(Fields(host.type))
    BY <1>2 DEF WellFormed
  <2>. QED
    BY <2>1, AllDone
<1>5. \A d \in Cells : HostTo(host, m, d) = HostTo(host, copies, d) + HostTo(host, amount, d)
  BY <1>2, HostToType
<1>6. /\ Sound(incref_fields(heap, host, S, amount))
      /\ Balanced(incref_fields(heap, host, S, amount), Outside(local, host, m, abandoned))
      /\ \A d \in Cells : incref_fields(heap, host, S, amount)[d].items = heap[d].items
  <2>1. m \in Nat
    BY <1>2
  <2>. HIDE DEF S, m
  <2>2. WellFormed(host) /\ amount \in Nat
    BY <1>2
  <2>. QED
    BY <1>3, <1>4, <1>5, <2>1, <2>2, HostIncref
<1>7. heap' = incref_fields(heap, host, S, amount)
  BY <1>1 DEF incref_value
<1>8. /\ Sound(heap') /\ Balanced(heap', Outside(local, host, m, abandoned))
      /\ \A d \in Cells : heap'[d].items = heap[d].items
  <2>. HIDE DEF S, m
  <2>. QED
    BY <1>6, <1>7
<1>9. TypeOK'
  <2>1. heap' \in [Cells -> Cell]
    BY <1>8 DEF Sound, Heaps
  <2>2. copies' \in 0 .. MaxCopies /\ copies' # 0
    BY <1>1, <1>2, ConstantsAssumption
  <2>. QED
    BY <1>2, <2>1, <2>2 DEF RefInv, TypeOK
<1>10. WellFormed(host)'
  BY <1>2 DEF WellFormed
<1>11. NoBoxedBoxes(heap)'
  BY <1>2, <1>8 DEF RefInv, NoBoxedBoxes
<1>12. Balanced(heap', Outside(local', host', copies', abandoned'))
  BY <1>1, <1>2, <1>8
<1>. QED
  BY <1>8, <1>9, <1>10, <1>11, <1>12 DEF RefInv

LEMMA DropValueKeeps ==
  ASSUME RefInv, DropValue PROVE RefInv'
<1>. DEFINE ext == Outside(local, host, copies, abandoned)
            k == copies - 1
            lost(d) == Cardinality(ItemsTo(heap, Lost(heap, heap'), d))
<1>1. /\ host # NoValue /\ WellFormed(host) /\ copies \in Nat /\ copies # 0 /\ k \in Nat
      /\ copies <= MaxCopies /\ boxes \subseteq Cells
      /\ local' = local /\ boxes' = boxes /\ copies' = k
      /\ host' = (IF copies = 1 THEN NoValue ELSE host)
      /\ heap' = decref_value(heap, host)
      /\ abandoned' = [d \in Cells |-> abandoned[d] + lost(d)]
      /\ \A d \in Cells : abandoned'[d] <= MaxAbandoned
  BY ConstantsAssumption DEF DropValue, RefInv, TypeOK, FreedBoxes, Lost
<1>2. Sound(heap) /\ Balanced(heap, ext) /\ NoBoxedBoxes(heap) /\ heap \in Heaps
  BY DEF RefInv, Sound
<1>3. ASSUME NEW d \in Cells
      PROVE  /\ FieldsTo(host, DOMAIN host.field, d) \in Nat
             /\ HostTo(host, copies, d) = HostTo(host, k, d) + FieldsTo(host, DOMAIN host.field, d)
             /\ HostTo(host, k, d) \in Nat
             /\ FieldsTo(host, DOMAIN host.field, d) <= ext[d]
  <2>1. /\ FieldsTo(host, DOMAIN host.field, d) \in Nat /\ HostTo(host, k, d) \in Nat
        /\ HostTo(host, k + 1, d) = HostTo(host, k, d) + HostTo(host, 1, d)
        /\ HostTo(host, 1, d) = FieldsTo(host, DOMAIN host.field, d)
    <3>1. k \in Nat /\ 1 \in Nat /\ WellFormed(host)
      BY <1>1
    <3>. HIDE DEF k
    <3>2. FieldsTo(host, DOMAIN host.field, d) \in Nat /\ HostTo(host, k, d) \in Nat
      BY <3>1, HostToType
    <3>3. \A j \in Nat : HostTo(host, k + j, d) = HostTo(host, k, d) + HostTo(host, j, d)
      BY <3>1, HostToType
    <3>4. HostTo(host, 1, d) = FieldsTo(host, DOMAIN host.field, d)
      BY <3>1, HostToType
    <3>. QED
      BY <3>1, <3>2, <3>3, <3>4
  <2>2. k + 1 = copies
    BY <1>1
  <2>3. /\ HostTo(host, copies, d) = HostTo(host, k, d) + FieldsTo(host, DOMAIN host.field, d)
    BY <2>1, <2>2
  <2>4. /\ LocalTo(local, d) \in Nat /\ abandoned[d] \in Nat
        /\ ext[d] = LocalTo(local, d) + HostTo(host, copies, d) + abandoned[d]
    BY OutsideType
  <2>. HIDE DEF k, ext
  <2>5. FieldsTo(host, DOMAIN host.field, d) <= ext[d]
    BY <2>1, <2>3, <2>4
  <2>. QED
    BY <2>1, <2>3, <2>5
<1>4. \E more \in [Cells -> Nat] :
        /\ Sound(heap') /\ Balanced(heap', more) /\ Shrinks(heap, heap')
        /\ \A d \in Cells : more[d] + FieldsTo(host, DOMAIN host.field, d) = ext[d] + lost(d)
  <2>. HIDE DEF ext
  <2>1. /\ boxes \subseteq Cells /\ WellFormed(host)
        /\ \A d \in Cells : FieldsTo(host, DOMAIN host.field, d) <= ext[d]
    BY <1>1, <1>3
  <2>2. \E more \in [Cells -> Nat] :
          /\ Sound(decref_value(heap, host)) /\ Balanced(decref_value(heap, host), more)
          /\ Shrinks(heap, decref_value(heap, host))
          /\ \A d \in Cells :
               more[d] + FieldsTo(host, DOMAIN host.field, d)
                 = ext[d] + Cardinality(ItemsTo(heap, Lost(heap, decref_value(heap, host)), d))
    BY <1>2, <2>1, DecrefValueBalanced
  <2>3. heap' = decref_value(heap, host)
    BY <1>1
  <2>. QED
    BY <2>2, <2>3
<1>5. PICK more \in [Cells -> Nat] :
        /\ Sound(heap') /\ Balanced(heap', more) /\ Shrinks(heap, heap')
        /\ \A d \in Cells : more[d] + FieldsTo(host, DOMAIN host.field, d) = ext[d] + lost(d)
  BY <1>4
<1>6. \A d \in Cells : lost(d) \in Nat
  <2>1. Lost(heap, heap') \in SUBSET Cells
    BY <1>1 DEF Lost
  <2>. QED
    BY <1>2, <2>1, ItemsToFinite
<1>7. \A d \in Cells : HostTo(host', k, d) = HostTo(host, k, d)
  <2>1. CASE copies = 1
    <3>1. k = 0 /\ host' = NoValue
      BY <1>1, <2>1
    <3>2. \A d \in Cells : HostTo(NoValue, 0, d) = 0 /\ HostTo(host, 0, d) = 0
      BY <1>1, HostToNone, HostToType
    <3>. QED
      BY <3>1, <3>2
  <2>2. CASE copies # 1
    BY <1>1, <2>2
  <2>. QED
    BY <2>1, <2>2
<1>. DEFINE new == Outside(local', host', copies', abandoned')
<1>8. ASSUME NEW d \in Cells PROVE new[d] = more[d]
  <2>. DEFINE x == LocalTo(local, d)
              y == HostTo(host, k, d)
              z == abandoned[d]
              w == FieldsTo(host, DOMAIN host.field, d)
              j == lost(d)
  <2>1. new[d] = x + y + abandoned'[d]
    <3>1. new[d] = LocalTo(local', d) + HostTo(host', copies', d) + abandoned'[d]
      BY DEF Outside
    <3>2. LocalTo(local', d) = x /\ HostTo(host', copies', d) = y
      BY <1>1, <1>7
    <3>. QED
      BY <3>1, <3>2
  <2>2. abandoned'[d] = z + j
    BY <1>1
  <2>3. ext[d] = x + (y + w) + z
    BY <1>3, OutsideType
  <2>4. more[d] + w = ext[d] + j
    BY <1>5
  <2>5. x \in Nat /\ y \in Nat /\ z \in Nat /\ w \in Nat /\ j \in Nat /\ more[d] \in Nat
    BY <1>3, <1>5, <1>6, OutsideType
  <2>. HIDE DEF x, y, z, w, j, new, ext
  <2>. QED
    BY <2>1, <2>2, <2>3, <2>4, <2>5
<1>9. Balanced(heap', new)
  <2>1. new = [d \in Cells |-> new[d]] /\ more = [d \in Cells |-> more[d]]
    BY DEF Outside
  <2>. HIDE DEF new
  <2>2. new = more
    BY <1>8, <2>1
  <2>. QED
    BY <1>5, <2>2
<1>10. TypeOK'
  <2>1. heap' \in [Cells -> Cell]
    BY <1>5 DEF Sound, Heaps
  <2>2. abandoned' \in [Cells -> 0 .. MaxAbandoned]
    <3>1. \A d \in Cells : abandoned[d] \in Nat /\ lost(d) \in Nat
      BY <1>6, OutsideType
    <3>. HIDE DEF lost
    <3>2. \A d \in Cells : abandoned'[d] = abandoned[d] + lost(d)
      BY <1>1
    <3>3. \A d \in Cells : abandoned'[d] \in 0 .. MaxAbandoned
      <4>. TAKE d \in Cells
      <4>1. abandoned'[d] \in Nat /\ abandoned'[d] <= MaxAbandoned
        BY <1>1, <3>1, <3>2
      <4>. QED
        BY <4>1, ConstantsAssumption
    <3>4. abandoned' = [d \in Cells |-> abandoned'[d]]
      BY <1>1
    <3>. QED
      BY <3>3, <3>4
  <2>3. copies' \in 0 .. MaxCopies /\ (copies' = 0 <=> host' = NoValue)
    BY <1>1, ConstantsAssumption
  <2>4. host'.type \in Types \cup {"none"}
    BY <1>1 DEF WellFormed, NoValue, HostValue
  <2>. QED
    BY <1>1, <2>1, <2>2, <2>3, <2>4, Alive DEF TypeOK, Types, Effects
<1>11. (host = NoValue \/ WellFormed(host))'
  BY <1>1 DEF WellFormed
<1>12. NoBoxedBoxes(heap)'
  <2>. SUFFICES ASSUME NEW d \in Cells, NEW i \in DOMAIN heap'[d].items
                PROVE  heap'[d].items[i] \notin boxes
    BY <1>1 DEF NoBoxedBoxes
  <2>1. heap'[d].live
    BY <1>5, FreeShape DEF Sound
  <2>2. heap'[d].items = heap[d].items
    BY <1>5, <2>1 DEF Shrinks
  <2>. QED
    BY <1>2, <2>2 DEF NoBoxedBoxes
<1>. HIDE DEF new
<1>13. Sound(heap')
  BY <1>5
<1>. QED
  BY <1>9, <1>10, <1>11, <1>12, <1>13 DEF RefInv, new

-----------------------------------------------------------------------------
(* The invariant holds, and what follows from it.                          *)

LEMMA InitRefInv == Init => RefInv
<1>. SUFFICES ASSUME Init PROVE RefInv
  OBVIOUS
<1>1. \A c \in Cells : heap[c] = Free /\ abandoned[c] = 0
  BY DEF Init
<1>2. heap \in Heaps /\ heap \in [Cells -> Cell]
  BY FreeShape DEF Init, Heaps
<1>3. Sound(heap) /\ NoBoxedBoxes(heap)
  BY <1>1, <1>2, FreeShape DEF Sound, ItemsSound, NoBoxedBoxes
<1>. DEFINE ext == Outside(local, host, copies, abandoned)
<1>4. \A c \in Cells : ext[c] = 0
  <2>. TAKE c \in Cells
  <2>1. LocalTo(local, c) = 0
    BY NothingIs, LocalToType DEF Init
  <2>2. host = NoValue /\ copies = 0
    BY DEF Init
  <2>3. HostTo(host, copies, c) = 0
    BY <2>2, HostToNone
  <2>4. ext[c] = LocalTo(local, c) + HostTo(host, copies, c) + abandoned[c]
    BY DEF Outside
  <2>. HIDE DEF ext
  <2>. QED
    BY <1>1, <2>1, <2>3, <2>4
<1>5. ext = [c \in Cells |-> ext[c]]
  BY DEF Outside
<1>. HIDE DEF ext
<1>6. Balanced(heap, ext)
  BY <1>1, <1>4, <1>5, FreeShape DEF Balanced
<1>7. TypeOK
  BY <1>2, NothingIs, ConstantsAssumption DEF Init, TypeOK, NoValue, HostValue
<1>8. host = NoValue
  BY DEF Init
<1>. QED
  BY <1>3, <1>6, <1>7, <1>8 DEF RefInv, ext

LEMMA NextRefInv == RefInv /\ [Next]_vars => RefInv'
<1>. SUFFICES ASSUME RefInv, [Next]_vars PROVE RefInv'
  OBVIOUS
<1>1. ASSUME NEW l \in Locals, NewData(l) \/ NewStatic(l) PROVE RefInv'
  BY <1>1, NewEmptyKeeps
<1>2. ASSUME NEW l \in Locals, NewBox(l) PROVE RefInv'
  BY <1>2, NewBoxKeeps
<1>3. ASSUME NEW l \in Locals, Slice(l) PROVE RefInv'
  BY <1>3, SliceKeeps
<1>4. ASSUME NEW l \in Locals, Drop(l) PROVE RefInv'
  BY <1>4, DropKeeps
<1>5. ASSUME NEW l \in Locals, NEW k \in Locals, NewList(l, k) PROVE RefInv'
  BY <1>5, NewListKeeps
<1>6. ASSUME NEW l \in Locals, NEW k \in Locals, Copy(l, k) PROVE RefInv'
  BY <1>6, CopyKeeps
<1>7. CASE Make
  BY <1>7, MakeKeeps
<1>8. CASE CopyValue
  BY <1>8, CopyValueKeeps
<1>9. CASE DropValue
  BY <1>9, DropValueKeeps
<1>10. CASE End \/ UNCHANGED vars
  <2>1. UNCHANGED vars
    BY <1>10 DEF End
  <2>. QED
    BY <2>1 DEF vars, RefInv, TypeOK, WellFormed, NoBoxedBoxes
<1>. QED
  BY <1>1, <1>2, <1>3, <1>4, <1>5, <1>6, <1>7, <1>8, <1>9, <1>10 DEF Next

THEOREM GlueInvariant == Spec => []RefInv
<1>1. Init => RefInv
  BY InitRefInv
<1>2. RefInv /\ [Next]_vars => RefInv'
  BY NextRefInv
<1>. QED
  BY <1>1, <1>2, PTL DEF Spec

(* The glue keeps heap, variables and the host's value in shape: of        *)
(* whatever is freed and retained, no count becomes negative.              *)
THEOREM GlueTypeCorrect == Spec => []TypeOK
<1>1. RefInv => TypeOK
  BY DEF RefInv
<1>. QED
  BY <1>1, GlueInvariant, PTL

(* No variable, value or live cell refers to an allocation the glue freed. *)
THEOREM GlueNothingDangles == Spec => []NothingDangles
<1>1. RefInv => NothingDangles
  BY Alive DEF NothingDangles, RefInv, Sound, ItemsSound
<1>. QED
  BY <1>1, GlueInvariant, PTL

(* The count that incref and decref keep is the number of owners, so the   *)
(* last of them, and no other, frees an allocation.                        *)
THEOREM GlueCountsAreOwners == Spec => []CountsAreOwners
<1>1. RefInv => CountsAreOwners
  <2>. SUFFICES ASSUME RefInv, NEW c \in Cells, heap[c].live, ~IsStatic(heap, c)
                PROVE  heap[c].rc = Owners(c)
    BY DEF CountsAreOwners
  <2>1. heap[c].rc = Outside(local, host, copies, abandoned)[c] + ItemRefs(heap, c)
    BY DEF RefInv, Balanced, IsStatic
  <2>2. ItemsTo(heap, {d \in Cells : heap[d].live}, c) = ItemsTo(heap, Cells, c)
    <3>1. \A d \in Cells : ~heap[d].live => heap[d].items = <<>>
      BY FreeShape DEF RefInv, Sound
    <3>2. \A d \in Cells : ~heap[d].live => {d} \X {i \in DOMAIN heap[d].items : heap[d].items[i] = c} = {}
      BY <3>1
    <3>. QED
      BY <3>2 DEF ItemsTo
  <2>. DEFINE x == LocalTo(local, c)
              y == HostTo(host, copies, c)
              z == abandoned[c]
              w == ItemRefs(heap, c)
  <2>3. heap[c].rc = x + y + z + w
    BY <2>1, OutsideType
  <2>4. Owners(c) = x + w + y + z
    BY <2>2 DEF Owners, LocalTo, HostTo, ItemRefs
  <2>5. x \in Nat /\ y \in Nat /\ z \in Nat /\ w \in Nat
    BY Alive, OutsideType, ItemRefsType
  <2>. HIDE DEF x, y, z, w
  <2>. QED
    BY <2>3, <2>4, <2>5
<1>. QED
  BY <1>1, GlueInvariant, PTL

-----------------------------------------------------------------------------
(* Static data is never changed.                                           *)

Kept(g, h) == h \in Heaps /\ \A d \in Cells : g[d].live /\ g[d].rc = 0 => h[d] = g[d]

LEMMA DecrefKept ==
  ASSUME NEW h \in Heaps, NEW c \in Cells PROVE Kept(h, decref(h, c))
<1>1. \A d \in Cells \ {c} : decref(h, c)[d] = h[d]
  BY DecrefShape
<1>2. decref(h, c) \in Heaps /\ (h[c].rc = 0 => decref(h, c) = h)
  BY DecrefShape
<1>. QED
  BY <1>1, <1>2 DEF Kept

LEMMA ReleaseKept ==
  ASSUME NEW h \in Heaps, NEW c \in Cells, NEW shown PROVE Kept(h, release(h, c, shown))
<1>. DEFINE f == decref_all(h, h[c].items)
<1>1. f \in Heaps /\ \A d \in Cells : h[d].rc = 0 => f[d] = h[d]
  <2>1. h[c].items \in Seq(Cells)
    BY HeapType
  <2>. QED
    BY <2>1, DecrefAllShape
<1>. HIDE DEF f
<1>2. Kept(f, decref(f, c)) /\ Kept(h, decref(h, c))
  BY <1>1, DecrefKept
<1>3. release(h, c, shown) = decref(f, c) \/ release(h, c, shown) = decref(h, c)
  BY DEF release, allocation_items, f
<1>. QED
  BY <1>1, <1>2, <1>3 DEF Kept

LEMMA DecrefValueKept ==
  ASSUME NEW h \in Heaps, NEW v, WellFormed(v) PROVE Kept(h, decref_value(h, v))
<1>. DEFINE n == Len(Fields(v.type))
<1>0. v.type \in Types /\ n \in Nat
  BY FieldsDistinct DEF WellFormed
<1>1. PICK a : Goes(a, h, v, n) /\ decref_value(h, v) = a[n]
  BY <1>0, DecrefValueGoes
<1>. DEFINE S == {k \in Nat : k <= n => Kept(h, a[k])}
<1>. HIDE DEF n
<1>2. \A k \in 0 .. n : a[k] = IF k = 0 THEN h ELSE decref_field(a[k - 1], v, Fields(v.type)[k])
  BY <1>1 DEF Goes
<1>3. 0 \in S
  BY <1>0, <1>2 DEF Kept
<1>4. ASSUME NEW k \in Nat, k \in S PROVE k + 1 \in S
  <2>. SUFFICES ASSUME k + 1 <= n PROVE Kept(h, a[k + 1])
    OBVIOUS
  <2>1. k <= n /\ k + 1 \in 0 .. n /\ (k + 1) - 1 = k /\ k + 1 # 0
    BY <1>0
  <2>2. Kept(h, a[k])
    BY <1>4, <2>1
  <2>. DEFINE f == Fields(v.type)[k + 1]
              g == a[k]
              u == decref_field(g, v, f)
  <2>3. a[k + 1] = u
    BY <1>2, <2>1
  <2>. HIDE DEF f, g
  <2>4. Kept(g, u)
    <3>1. g \in Heaps
      BY <2>2 DEF Kept, g
    <3>2. CASE ~FieldCell(v, f)
      BY <3>1, <3>2 DEF decref_field, FieldCell, Kept
    <3>3. CASE FieldCell(v, f)
      <4>1. v.field[f] \in Cells
        BY <3>3 DEF FieldCell, WellFormed
      <4>2. \/ u = decref(g, v.field[f])
            \/ u = release(g, v.field[f], Len(g[v.field[f]].items))
        BY <3>3 DEF FieldCell, decref_field
      <4>. HIDE DEF u
      <4>. QED
        BY <3>1, <4>1, <4>2, DecrefKept, ReleaseKept
    <3>. QED
      BY <3>2, <3>3
  <2>. HIDE DEF u
  <2>. QED
    BY <2>2, <2>3, <2>4 DEF Kept, g
<1>5. n \in S
  <2>. HIDE DEF S
  <2>. QED
    BY <1>0, <1>3, <1>4, SetInduction
<1>. QED
  BY <1>0, <1>1, <1>5

LEMMA NewCellKept ==
  ASSUME RefInv, NEW c \in FreeCells(heap), NEW x, heap' = [heap EXCEPT ![c] = x],
         NEW d \in Cells, heap[d].live
  PROVE  heap'[d] = heap[d]
BY Alive DEF FreeCells, Heaps

(* The glue never touches a constant of the application, whatever is done  *)
(* with references to it.                                                  *)
THEOREM GlueStaticIsKept == Spec => StaticIsKept
<1>. DEFINE Keeps == \A c \in Cells : heap[c].live /\ IsStatic(heap, c) => heap'[c] = heap[c]
<1>1. RefInv /\ [Next]_vars => [Keeps]_vars
  <2>. SUFFICES ASSUME RefInv, Next, NEW d \in Cells, heap[d].live, heap[d].rc = 0
                PROVE  heap'[d] = heap[d]
    BY DEF IsStatic
  <2>1. heap \in Heaps
    BY Alive
  <2>2. ASSUME NEW l \in Locals, NewData(l) \/ NewStatic(l) PROVE heap'[d] = heap[d]
    BY <2>2, NewCellKept DEF NewData, NewStatic, Allocate, AllocateStatic
  <2>3. ASSUME NEW l \in Locals, NewBox(l) PROVE heap'[d] = heap[d]
    BY <2>3, NewCellKept DEF NewBox, Allocate
  <2>4. ASSUME NEW l \in Locals, NEW k \in Locals, NewList(l, k) PROVE heap'[d] = heap[d]
    BY <2>4, NewCellKept DEF NewList, Allocate
  <2>5. ASSUME NEW l \in Locals, NEW k \in Locals, Copy(l, k) PROVE heap'[d] = heap[d]
    BY <2>1, <2>5 DEF Copy, incref, IsStatic, Heaps
  <2>6. ASSUME NEW l \in Locals, Slice(l) PROVE heap'[d] = heap[d]
    BY <2>6 DEF Slice
  <2>7. ASSUME NEW l \in Locals, Drop(l) PROVE heap'[d] = heap[d]
    <3>1. local[l].cell \in Cells /\ heap' = release(heap, local[l].cell, local[l].shown)
      BY <2>7, Alive DEF Drop
    <3>2. Kept(heap, release(heap, local[l].cell, local[l].shown))
      BY <2>1, <3>1, ReleaseKept
    <3>. QED
      BY <3>1, <3>2 DEF Kept
  <2>8. CASE Make
    BY <2>8 DEF Make, incref_fields, IsStatic
  <2>9. CASE CopyValue
    BY <2>9 DEF CopyValue, incref_value, incref_fields, IsStatic
  <2>10. CASE DropValue
    <3>1. WellFormed(host) /\ heap' = decref_value(heap, host)
      BY <2>10 DEF DropValue, RefInv
    <3>2. Kept(heap, decref_value(heap, host))
      BY <2>1, <3>1, DecrefValueKept
    <3>. QED
      BY <3>1, <3>2 DEF Kept
  <2>11. CASE End
    BY <2>11 DEF End, vars
  <2>. QED
    BY <2>2, <2>3, <2>4, <2>5, <2>6, <2>7, <2>8, <2>9, <2>10, <2>11 DEF Next
<1>2. Spec => [][Keeps]_vars
  BY <1>1, GlueInvariant, PTL DEF Spec
<1>. QED
  BY <1>2 DEF StaticIsKept

=============================================================================
