------------------------------ MODULE GlueMemory ------------------------------
(***************************************************************************)
(* Where the glue (src/src/roc_platform_abi.rs) puts what it allocates: the*)
(* size that the default allocator keeps in front of every block, the      *)
(* header of strings, lists, boxes and closures with the reference count   *)
(* and, for some, the number of elements, the payload behind it, and the   *)
(* pointers, capacities and tags in the values that refer to it.           *)
(*                                                                         *)
(* Addresses are in bytes, what memory holds is told word by word.  RocHeap*)
(* is the same without addresses.                                          *)
(***************************************************************************)
EXTENDS Naturals, FiniteSets, SequencesExt

CONSTANTS
  PtrWidth,   \* size_of::<usize>()
  MaxAddr,    \* bound: the last address of the memory
  Locals,     \* the program's local variables
  Lengths,    \* bound: the lengths of the strings and byte lists it makes
  MaxItems    \* bound: the strings in a list

(* Text stands for the bytes of a text.  As a word it is odd, like a tagged*)
(* pointer; SmallBit stands for the top bit of a word, which no address and*)
(* no length has set.                                                      *)
Garbage == 99990
Text == 99991
SmallBit == 100000

ASSUME ConstantsAssumption ==
  /\ PtrWidth \in {4, 8}
  /\ MaxAddr \in 65 .. SmallBit - 1
  /\ IsFiniteSet(Locals)
  /\ Lengths \subseteq Nat /\ MaxItems \in Nat \ {0}

VARIABLES
  memory,     \* the blocks of the Rust allocator and the words
  local       \* the value each local variable holds

vars == <<memory, local>>

Larger(a, b) == IF a >= b THEN a ELSE b
Smaller(a, b) == IF a <= b THEN a ELSE b

-----------------------------------------------------------------------------
(* Words.                                                                  *)

Words == 1 .. MaxAddr \div PtrWidth

Write(m, at, n, value) ==
  [m EXCEPT !.word = [w \in Words |->
                        IF at <= w * PtrWidth /\ w * PtrWidth < at + n
                        THEN value ELSE m.word[w]]]

WriteWord(m, at, value) == Write(m, at, PtrWidth, value)

Reads(m, at, n, value) ==
  n > 0 => \A w \in at \div PtrWidth .. (at + n - 1) \div PtrWidth :
             w \in Words /\ m.word[w] = value

Word(m, at) ==
  IF at % PtrWidth = 0 /\ at \div PtrWidth \in Words
  THEN m.word[at \div PtrWidth] ELSE Garbage

-----------------------------------------------------------------------------
(* Static data: a string in the data section, behind a count of 0.         *)

StrSize == 3 * PtrWidth      \* ROC_STR_SIZE, size_of::<RocStr>()

StaticPtr == 2 * PtrWidth
StaticLen == StrSize

(* The Rust allocator: the first fit behind that.  A block that is given back must be  *)
(* one it has handed out, with the size and alignment it was asked for.    *)

Fits(m, size, align) ==
  {a \in StaticPtr + StaticLen .. MaxAddr :
     /\ a % align = 0 /\ a + size <= MaxAddr
     /\ \A b \in m.blocks : a + size <= b.base \/ b.base + b.size <= a}

First(S) == CHOOSE a \in S : \A b \in S : a <= b

Block(base, size, align) == [base |-> base, size |-> size, align |-> align]

GiveBack(m, block) ==
  IF block \notin m.blocks THEN [m EXCEPT !.misused = TRUE]
  ELSE Write([m EXCEPT !.blocks = @ \ {block}], block.base, block.size, Garbage)

(* DefaultAllocators, which recovers a block's size from the word in front *)
(* of what it hands out.  An allocation is the memory after it and the     *)
(* pointer it returns.                                                     *)

SizeStorage(alignment) == Larger(alignment, PtrWidth)

roc_alloc(m, length, alignment) ==
  LET storage == SizeStorage(alignment)
      total   == length + storage
      base    == First(Fits(m, total, storage))
      taken   == [m EXCEPT !.blocks = @ \cup {Block(base, total, storage)}]
  IN  [m   |-> WriteWord(taken, base + storage - PtrWidth, total),
       ptr |-> base + storage]

roc_dealloc(m, ptr, alignment) ==
  LET storage == SizeStorage(alignment)
  IN  GiveBack(m, Block(ptr - storage, Word(m, ptr - PtrWidth), storage))

(* Where there is no room, either exits: the program takes no such step.   *)
Room(m, length, alignment) ==
  Fits(m, length + SizeStorage(alignment), SizeStorage(alignment)) # {}

(* The block may move; what fits of the old one is copied.                 *)
roc_realloc(m, ptr, new_length, alignment) ==
  LET storage == SizeStorage(alignment)
      old     == Block(ptr - storage, Word(m, ptr - PtrWidth), storage)
      total   == new_length + storage
      freed   == roc_dealloc(m, ptr, alignment)
      base    == First(Fits(freed, total, storage))
      copied  == [freed EXCEPT !.blocks = @ \cup {Block(base, total, storage)},
                    !.word = [w \in Words |->
                       LET at == w * PtrWidth - base
                       IN  IF 0 <= at /\ at < Smaller(old.size, total)
                           THEN Word(m, old.base + at) ELSE freed.word[w]]]
  IN  [m   |-> WriteWord(copied, base + storage - PtrWidth, total),
       ptr |-> base + storage]

-----------------------------------------------------------------------------
(* Values: RocStr, RocListWith of bytes, of elements with an alignment of  *)
(* 16 and of strings, boxes of a string and of such an element, and boxed  *)
(* closures.                                                               *)

ListTypes == {"bytes", "wides", "strs"}
BoxTypes  == {"strbox", "widebox", "fn"}

(* Size and alignment of an element or payload, and whether it holds       *)
(* references (of a closure the captures do that, which is their own       *)
(* affair).                                                                *)
Layout(type) ==
  CASE type \in {"str", "bytes"}     -> [size |-> 1, align |-> 1, refcounted |-> FALSE]
    [] type \in {"wides", "widebox"} -> [size |-> 16, align |-> 16, refcounted |-> FALSE]
    [] type \in {"strs", "strbox"}   -> [size |-> StrSize, align |-> PtrWidth, refcounted |-> TRUE]
    [] type = "fn"                   -> [size |-> 1, align |-> 16, refcounted |-> FALSE]

Value(type, ptr, cap, len) ==
  [type |-> type, ptr |-> ptr, cap |-> cap, len |-> len]

Nothing == Value("none", 0, 0, 0)

is_small_str(v) == v.type = "str" /\ v.len >= SmallBit

is_seamless_slice(v) == ~is_small_str(v) /\ v.cap % 2 = 1

get_allocation_ptr(v) == IF is_seamless_slice(v) THEN v.cap - 1 ELSE v.ptr

(* Does v refer to an allocation at all?                                   *)
Allocated(v) == v.type # "none" /\ ~is_small_str(v) /\ get_allocation_ptr(v) # 0

len(v) == IF is_small_str(v) THEN v.len - SmallBit ELSE v.len

shifted_capacity(capacity) == 2 * capacity

-----------------------------------------------------------------------------
(* Headers.                                                                *)

(* Mutant of header_bytes: the alignment of the elements is left out.      *)
HeaderUnaligned(type) == IF Layout(type).refcounted THEN 2 * PtrWidth ELSE PtrWidth

header_bytes(type) ==
  Larger(IF Layout(type).refcounted THEN 2 * PtrWidth ELSE PtrWidth,
         Layout(type).align)

alloc_alignment(type) == Larger(PtrWidth, Layout(type).align)

Refcount(m, data) == Word(m, data - PtrWidth)
ElementCount(m, data) == Word(m, data - 2 * PtrWidth)

(* A header and n bytes after it, with one reference.                      *)
WithRefcount(m, type, n) ==
  LET got  == roc_alloc(m, header_bytes(type) + n, alloc_alignment(type))
      data == got.ptr + header_bytes(type)
  IN  [m |-> WriteWord(got.m, data - PtrWidth, 1), ptr |-> data]

RoomFor(type, n) == Room(memory, header_bytes(type) + n, alloc_alignment(type))

incref_at(m, data, amount) ==
  IF Refcount(m, data) = 0 THEN m     \* static data
  ELSE WriteWord(m, data - PtrWidth, Refcount(m, data) + amount)

free_allocation(m, data, type) ==
  roc_dealloc(m, data - header_bytes(type), alloc_alignment(type))

(* Mutant of decref_at: static data is counted down too.                   *)
DecrefStatic(m, data, type) ==
  LET prev == Refcount(m, data)
      less == WriteWord(m, data - PtrWidth, prev - 1)
  IN  IF prev = 1 THEN free_allocation(less, data, type) ELSE less

decref_at(m, data, type) ==
  LET prev == Refcount(m, data)
      less == WriteWord(m, data - PtrWidth, prev - 1)
  IN  IF prev = 0 THEN m               \* static data
      ELSE IF prev = 1 THEN free_allocation(less, data, type)
      ELSE less

-----------------------------------------------------------------------------
(* RocStr.                                                                 *)

(* A text of n bytes: up to 23 bytes (11 on 32 bits) it is kept in the     *)
(* value, whose last byte is then its length and the top bit.              *)
str_from_slice(m, n) ==
  IF n < StrSize
  THEN [m |-> m, v |-> Value("str", IF n > 0 THEN Text ELSE 0,
                             IF n > PtrWidth THEN Text ELSE 0, SmallBit + n)]
  ELSE LET got == WithRefcount(m, "str", n)
       IN  [m |-> Write(got.m, got.ptr, n, Text),
            v |-> Value("str", got.ptr, shifted_capacity(n), n)]

incref_str(m, v, amount) ==
  IF ~Allocated(v) THEN m ELSE incref_at(m, get_allocation_ptr(v), amount)

decref_str(m, v) ==
  IF ~Allocated(v) THEN m ELSE decref_at(m, get_allocation_ptr(v), "str")

(* A RocStr in memory: three words.                                        *)
StoreStr(m, at, v) ==
  WriteWord(WriteWord(WriteWord(m, at, v.ptr), at + PtrWidth, v.cap),
            at + 2 * PtrWidth, v.len)

LoadStr(m, at) ==
  Value("str", Word(m, at), Word(m, at + PtrWidth), Word(m, at + 2 * PtrWidth))

-----------------------------------------------------------------------------
(* RocListWith.                                                            *)

(* Mutant of list_allocate: the number of elements is always written.      *)
CountAlways(m, type, length) ==
  IF length = 0 THEN [m |-> m, v |-> Value(type, 0, 0, 0)]
  ELSE LET got == WithRefcount(m, type, length * Layout(type).size)
       IN  [m |-> WriteWord(got.m, got.ptr - 2 * PtrWidth, length),
            v |-> Value(type, got.ptr, shifted_capacity(length), length)]

list_allocate(m, type, length) ==
  IF length = 0 THEN [m |-> m, v |-> Value(type, 0, 0, 0)]
  ELSE LET got == WithRefcount(m, type, length * Layout(type).size)
       IN  [m |-> IF Layout(type).refcounted
                  THEN WriteWord(got.m, got.ptr - 2 * PtrWidth, length) ELSE got.m,
            v |-> Value(type, got.ptr, shifted_capacity(length), length)]

(* from_slice copies the elements: n of text, or the strings given.        *)
list_from_slice(m, type, n) ==
  LET got == list_allocate(m, type, n)
  IN  [got EXCEPT !.m = Write(@, got.v.ptr, n * Layout(type).size, Text)]

list_from_strings(m, strings) ==
  LET got == list_allocate(m, "strs", Len(strings))
      at(i) == got.v.ptr + (i - 1) * StrSize
      after[i \in 0 .. Len(strings)] ==
        IF i = 0 THEN got.m ELSE StoreStr(after[i - 1], at(i), strings[i])
  IN  [got EXCEPT !.m = after[Len(strings)]]

has_one_ref(m, v) == Allocated(v) /\ Refcount(m, get_allocation_ptr(v)) = 1

(* Mutant of allocation_element_count: a slice counts what it shows.       *)
ElementsShown(m, v) == v.len

allocation_element_count(m, v) ==
  IF is_seamless_slice(v) /\ Layout(v.type).refcounted
  THEN ElementCount(m, get_allocation_ptr(v)) ELSE v.len

allocation_items(m, v) ==
  [i \in 1 .. allocation_element_count(m, v) |->
     LoadStr(m, get_allocation_ptr(v) + (i - 1) * StrSize)]

(* Mutant of incref_list: the count in front of the first element shown.   *)
IncrefShown(m, v, amount) ==
  IF ~Allocated(v) THEN m ELSE incref_at(m, v.ptr, amount)

incref_list(m, v, amount) ==
  IF ~Allocated(v) THEN m ELSE incref_at(m, get_allocation_ptr(v), amount)

(* The references to the given strings, one after the other.               *)
release_strings(m, strings) ==
  LET after[i \in 0 .. Len(strings)] ==
        IF i = 0 THEN m ELSE decref_str(after[i - 1], strings[i])
  IN  after[Len(strings)]

(* With the generated release of the strings of a list.                    *)
decref_list(m, v) ==
  LET released == IF v.type = "strs" /\ has_one_ref(m, v)
                  THEN release_strings(m, allocation_items(m, v)) ELSE m
  IN  IF ~Allocated(v) THEN m
      ELSE decref_at(released, get_allocation_ptr(v), v.type)

-----------------------------------------------------------------------------
(* Boxes and closures.                                                     *)

allocate_box(m, type) ==
  LET got == WithRefcount(m, type, Layout(type).size)
  IN  [m |-> got.m, v |-> Value(type, got.ptr, 0, 0)]

CaptureOffset == 16     \* ROC_ERASED_CALLABLE_CAPTURE_OFFSET
OnDrop == 3             \* an on_drop callback; 0 for None

(* A closure that captures the given strings: the function pointer, on_drop*)
(* and the captures.                                                       *)
erased_callable_allocate(m, strings) ==
  LET got  == WithRefcount(m, "fn", CaptureOffset + StrSize * Len(strings))
      with == WriteWord(WriteWord(got.m, got.ptr, Text), got.ptr + PtrWidth,
                        IF strings = <<>> THEN 0 ELSE OnDrop)
  IN  [m |-> IF strings = <<>> THEN with
             ELSE StoreStr(with, got.ptr + CaptureOffset, strings[1]),
       v |-> Value("fn", got.ptr, 0, 0)]

(* The strings a payload holds, and the callback that releases them.       *)
PayloadStrings(m, v) ==
  CASE v.type = "strbox" -> <<LoadStr(m, v.ptr)>>
    [] v.type = "fn" /\ Word(m, v.ptr + PtrWidth) = OnDrop
         -> <<LoadStr(m, v.ptr + CaptureOffset)>>
    [] OTHER -> <<>>

payload_decref(m, v) == release_strings(m, PayloadStrings(m, v))

incref_box(m, v, amount) == incref_at(m, v.ptr, amount)

is_unique_box(m, v) == Refcount(m, v.ptr) = 1

free_box_with(m, v) == free_allocation(payload_decref(m, v), v.ptr, v.type)

(* decref_box_with, and decref_erased_callable by it: the callback runs    *)
(* when the count is 0 and the box not freed yet.                          *)
decref_box_with(m, v) ==
  LET prev == Refcount(m, v.ptr)
      less == WriteWord(m, v.ptr - PtrWidth, prev - 1)
  IN  IF prev = 0 THEN m
      ELSE IF prev = 1 THEN free_box_with(less, v)
      ELSE less

(* The strings a program sees in a value.                                  *)
Shown(m, v) ==
  IF v.type = "strs"
  THEN [i \in 1 .. v.len |-> LoadStr(m, v.ptr + (i - 1) * StrSize)]
  ELSE PayloadStrings(m, v)

-----------------------------------------------------------------------------
(* A program that keeps to the contract of the glue.                       *)

incref(m, v, amount) ==
  CASE v.type = "str"        -> incref_str(m, v, amount)
    [] v.type \in ListTypes  -> incref_list(m, v, amount)
    [] v.type \in BoxTypes   -> incref_box(m, v, amount)

decref(m, v) ==
  CASE v.type = "str"        -> decref_str(m, v)
    [] v.type \in ListTypes  -> decref_list(m, v)
    [] v.type \in BoxTypes   -> decref_box_with(m, v)

EmptyStr == str_from_slice(memory, 0).v

StaticStr == Value("str", StaticPtr, shifted_capacity(StaticLen), StaticLen)

Init ==
  /\ memory = Write(WriteWord([blocks |-> {}, misused |-> FALSE,
                               word |-> [w \in Words |-> Garbage]],
                              StaticPtr - PtrWidth, 0),
                    StaticPtr, StaticLen, Text)
  /\ local = [l \in Locals |-> Nothing]

Holds(l) == local[l].type # "none"
HoldsStr(l) == local[l].type = "str"

(* l gets a new value; the locals in moved give theirs to it.              *)
Gets(l, new, moved) ==
  /\ memory' = new.m
  /\ local' = [k \in Locals |-> IF k = l THEN new.v
                                ELSE IF k \in moved THEN Nothing ELSE local[k]]

NewStr(l) ==
  /\ ~Holds(l)
  /\ \E n \in Lengths :
       (n >= StrSize => RoomFor("str", n)) /\ Gets(l, str_from_slice(memory, n), {})

NewStatic(l) == ~Holds(l) /\ Gets(l, [m |-> memory, v |-> StaticStr], {})

NewData(l) ==
  /\ ~Holds(l)
  /\ \/ \E n \in Lengths :
          (n > 0 => RoomFor("bytes", n)) /\ Gets(l, list_from_slice(memory, "bytes", n), {})
     \/ \E n \in 1 .. MaxItems :
          RoomFor("wides", 16 * n) /\ Gets(l, list_from_slice(memory, "wides", n), {})

(* The string of a local variable moves into a list, with empty ones before*)
(* and after it.                                                           *)
NewList(l) ==
  /\ ~Holds(l)
  /\ \E n \in 1 .. MaxItems, k \in Locals : \E i \in 1 .. n :
       /\ HoldsStr(k) /\ RoomFor("strs", n * StrSize)
       /\ Gets(l, list_from_strings(memory, [[j \in 1 .. n |-> EmptyStr] EXCEPT ![i] = local[k]]),
               {k})

(* allocate_box, and the payload: a string that moves, or data.            *)
NewBox(l) ==
  /\ ~Holds(l)
  /\ \/ LET got == allocate_box(memory, "widebox")
        IN  /\ RoomFor("widebox", 16)
            /\ Gets(l, [got EXCEPT !.m = Write(@, got.v.ptr, 16, Text)], {})
     \/ LET got == allocate_box(memory, "strbox")
        IN  \E k \in Locals :
              /\ HoldsStr(k) /\ RoomFor("strbox", StrSize)
              /\ Gets(l, [got EXCEPT !.m = StoreStr(@, got.v.ptr, local[k])], {k})

NewClosure(l) ==
  /\ ~Holds(l)
  /\ \/ /\ RoomFor("fn", CaptureOffset)
        /\ Gets(l, erased_callable_allocate(memory, <<>>), {})
     \/ \E k \in Locals :
          /\ HoldsStr(k) /\ RoomFor("fn", CaptureOffset + StrSize)
          /\ Gets(l, erased_callable_allocate(memory, <<local[k]>>), {k})

Copy(l) ==
  /\ ~Holds(l)
  /\ \E k \in Locals :
       /\ Holds(k)
       /\ memory' = incref(memory, local[k], 1)
       /\ local' = [local EXCEPT ![l] = local[k]]

(* A string out of a list, a box or a closure; what it was in keeps it.    *)
CopyItem(l) ==
  /\ ~Holds(l)
  /\ \E k \in Locals : \E item \in ToSet(Shown(memory, local[k])) :
       /\ memory' = incref_str(memory, item, 1)
       /\ local' = [local EXCEPT ![l] = item]

(* Roc cuts off the first element in place; the tag marks the pointer to   *)
(* the allocation.                                                         *)
Slice(l) ==
  /\ local[l].type \in ListTypes \cup {"str"} /\ Allocated(local[l])
  /\ local[l].len > 1
  /\ local' = [local EXCEPT
                 ![l].ptr = @ + Layout(local[l].type).size,
                 ![l].cap = get_allocation_ptr(local[l]) + 1,
                 ![l].len = @ - 1]
  /\ UNCHANGED memory

(* Roc appends a byte in place to a list that no one else refers to.       *)
Grow(l) ==
  /\ local[l].type = "bytes" /\ has_one_ref(memory, local[l])
  /\ ~is_seamless_slice(local[l]) /\ local[l].len + 1 \in Lengths
  /\ LET n     == local[l].len + 1
         start == local[l].ptr - header_bytes("bytes")
         total == header_bytes("bytes") + n
         align == alloc_alignment("bytes")
         got   == roc_realloc(memory, start, total, align)
         ptr   == got.ptr + header_bytes("bytes")
     IN  /\ Room(roc_dealloc(memory, start, align), total, align)
         /\ Gets(l, [m |-> Write(got.m, ptr + n - 1, 1, Text),
                      v |-> Value("bytes", ptr, shifted_capacity(n), n)], {})

Drop(l) ==
  /\ Holds(l)
  /\ memory' = decref(memory, local[l])
  /\ local' = [local EXCEPT ![l] = Nothing]

(* The owner of the only reference to a box need not count it down.        *)
FreeUnique(l) ==
  /\ local[l].type \in {"strbox", "widebox"} /\ is_unique_box(memory, local[l])
  /\ memory' = free_box_with(memory, local[l])
  /\ local' = [local EXCEPT ![l] = Nothing]

End == (\A l \in Locals : ~Holds(l)) /\ UNCHANGED vars

Next ==
  \/ \E l \in Locals :
       \/ NewStr(l) \/ NewStatic(l) \/ NewData(l) \/ NewList(l) \/ NewBox(l)
       \/ NewClosure(l) \/ Copy(l) \/ CopyItem(l) \/ Slice(l) \/ Grow(l) \/ Drop(l)
       \/ FreeUnique(l)
  \/ End

Spec == Init /\ [][Next]_vars

-----------------------------------------------------------------------------
(* Properties.                                                             *)

TypeOK ==
  /\ memory.blocks \subseteq [base : 1 .. MaxAddr, size : Nat, align : Nat]
  /\ memory.misused \in BOOLEAN
  /\ memory.word \in [Words -> Nat]
  /\ local \in [Locals -> [type : {"none", "str"} \cup ListTypes \cup BoxTypes,
                           ptr : Nat, cap : Nat, len : Nat]]

(* The strings in an allocation, and the allocations that can be reached.  *)
Inner(v) ==
  IF v.type = "strs" THEN allocation_items(memory, v) ELSE PayloadStrings(memory, v)

At(d) == {l \in Locals : Allocated(local[l]) /\ get_allocation_ptr(local[l]) = d}

Held == {get_allocation_ptr(local[l]) : l \in {k \in Locals : Allocated(local[k])}}

InnerOf(d) == Inner(local[CHOOSE l \in At(d) : TRUE])

RefersTo(v, d) == Allocated(v) /\ get_allocation_ptr(v) = d

InnerReferences(d) ==
  {at \in Held \X (1 .. MaxItems) :
     at[2] <= Len(InnerOf(at[1])) /\ RefersTo(InnerOf(at[1])[at[2]], d)}

Reached ==
  Held \cup {get_allocation_ptr(v) :
               v \in UNION {{w \in ToSet(InnerOf(d)) : Allocated(w)} : d \in Held}}

References(d) == Cardinality(At(d)) + Cardinality(InnerReferences(d))

(* Every block goes back to the allocator once, as it was handed out: the  *)
(* glue finds its start, its size and its alignment again from a pointer   *)
(* to the payload, or into it.                                             *)
AllocatorContract == ~memory.misused

(* Whatever is written to payloads, elements and other headers, the count  *)
(* in front of each allocation is the number of references to it, and that *)
(* of static data stays 0.                                                 *)
CountsInHeaders ==
  \A d \in Reached : Refcount(memory, d) = IF d = StaticPtr THEN 0 ELSE References(d)

(* Nothing is left behind.                                                 *)
NothingLeaks == Cardinality(memory.blocks) = Cardinality(Reached \ {StaticPtr})

(* A payload is where its type needs it, and reads as it was written.      *)
StrReads(v) ==
  IF is_small_str(v) THEN len(v) < StrSize ELSE Reads(memory, v.ptr, len(v), Text)

PayloadsIntact ==
  \A l \in Locals : LET v == local[l] IN Holds(l) =>
    CASE v.type = "str" -> StrReads(v)
      [] v.type \in {"bytes", "wides"} ->
           /\ v.ptr % Layout(v.type).align = 0
           /\ Reads(memory, v.ptr, v.len * Layout(v.type).size, Text)
      [] v.type = "widebox" ->
           v.ptr % Layout(v.type).align = 0 /\ Reads(memory, v.ptr, 16, Text)
      [] OTHER -> v.ptr % PtrWidth = 0 /\ \A i \in DOMAIN Inner(v) : StrReads(Inner(v)[i])

=============================================================================
