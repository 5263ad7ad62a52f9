-------------------------- MODULE GlueMemoryProofs --------------------------
(***************************************************************************)
(* The generated glue keeps memory in order, for both widths of a pointer, *)
(* any size of memory, and any local variables, texts and lists:           *)
(* MemoryInv, which every operation preserves, and the properties of       *)
(* GlueMemory, which follow from it.                                       *)
(*                                                                         *)
(* MemoryInv says that there is a set D of allocations such that the       *)
(* allocator's blocks are those of D and of nothing else, no two of them   *)
(* overlap, each holds its size, its number of elements or its on_drop and *)
(* its text, every value is nothing, small, empty, or points to one of D   *)
(* or to the static string, and the count of each is the number of         *)
(* references to it, at least one.                                         *)
(*                                                                         *)
(* An operation passes through states where that is not yet so: a new      *)
(* allocation nobody refers to, one that is being freed with some of its   *)
(* strings released.  Good names the exceptions.                           *)
(***************************************************************************)
EXTENDS GlueMemory, FiniteSetTheorems, TLAPS

Types == {"str"} \cup ListTypes \cup BoxTypes

Memory == [blocks  : SUBSET [base : 1 .. MaxAddr, size : Nat, align : Nat],
           misused : BOOLEAN,
           word    : [Words -> Nat]]

(* Addresses of words.                                                     *)
WordAddr(a) == a \in Nat /\ a % PtrWidth = 0 /\ a \div PtrWidth \in Words

(* The block around a payload of n bytes at data, and where its size is.   *)
Storage(type) == SizeStorage(alloc_alignment(type))
Start(data, type) == data - header_bytes(type) - Storage(type)
BlockAround(data, type, n) ==
  Block(Start(data, type), n + header_bytes(type) + Storage(type), Storage(type))
SizeAddr(data, type) == data - header_bytes(type) - PtrWidth

-----------------------------------------------------------------------------
(* Layouts.                                                                *)

(* What the proofs use of the assumption on the constants.                 *)
LEMMA Widths == PtrWidth \in {4, 8} /\ MaxAddr \in Nat /\ MaxAddr > 64
BY ConstantsAssumption

(* The header has room for the count and, of what holds references, for the*)
(* number of elements; a multiple of every alignment is one of the header's*)
(* and of the storage's.                                                   *)
LEMMA Layouts ==
  ASSUME NEW type \in Types
  PROVE  /\ header_bytes(type) \in {4, 8, 16}
         /\ Storage(type) \in {4, 8, 16}
         /\ header_bytes(type) >= PtrWidth /\ Storage(type) >= PtrWidth
         /\ header_bytes(type) % PtrWidth = 0 /\ Storage(type) % PtrWidth = 0
         /\ header_bytes(type) % Layout(type).align = 0
         /\ Storage(type) % Layout(type).align = 0
         /\ Layout(type).refcounted => header_bytes(type) >= 2 * PtrWidth
<1>. USE Widths DEF header_bytes, Storage, SizeStorage, alloc_alignment, Layout, Larger
<1>1. CASE type \in {"str", "bytes"}
  BY <1>1
<1>2. CASE type \in {"wides", "widebox"}
  BY <1>2
<1>3. CASE type \in {"strs", "strbox"}
  BY <1>3
<1>4. CASE type = "fn"
  BY <1>4
<1>. QED
  BY <1>1, <1>2, <1>3, <1>4 DEF Types, ListTypes, BoxTypes

(* A set of numbers has a least one: First finds a place when one fits.    *)
LEMMA LeastOf ==
  ASSUME NEW S \in SUBSET Nat, S # {}
  PROVE  \E a \in S : \A b \in S : a <= b
<1>. DEFINE R == {ss \in Nat \X Nat : ss[1] < ss[2]}
<1>1. IsWellFoundedOn(R, Nat)
  BY NatLessThanWellFounded DEF OpToRel
<1>2. \E x \in S : \A y \in S : ~(<<y, x>> \in R)
  <2>. HIDE DEF R
  <2>. QED
    BY <1>1, WFMin
<1>3. PICK x \in S : \A y \in S : ~(<<y, x>> \in R)
  BY <1>2
<1>4. ASSUME NEW y \in S PROVE x <= y
  <2>1. x \in Nat /\ y \in Nat /\ ~(<<y, x>> \in R)
    BY <1>3
  <2>2. y < x => <<y, x>> \in R
    BY <2>1
  <2>. QED
    BY <2>1, <2>2
<1>. QED
  BY <1>4

(* The allocator hands out a place that fits, if there is one.             *)
LEMMA FitsAt ==
  ASSUME NEW m, NEW size \in Nat, NEW align \in Nat, Fits(m, size, align) # {}
  PROVE  First(Fits(m, size, align)) \in Fits(m, size, align)
<1>. DEFINE S == Fits(m, size, align)
<1>1. S # {} /\ S \subseteq Nat
  BY Widths DEF Fits, StaticPtr, StaticLen, StrSize
<1>2. \E a \in S : \A b \in S : a <= b
  BY <1>1, LeastOf
<1>. QED
  BY <1>2 DEF First

-----------------------------------------------------------------------------
(* Words of memory.                                                        *)

(* The word an address below the end of memory lies in is one of memory's. *)
LEMMA WordOf ==
  ASSUME NEW a \in Nat, PtrWidth <= a, a < MaxAddr
  PROVE  a \div PtrWidth \in Words
<1>1. CASE PtrWidth = 4
  <2>1. a \div 4 \in 1 .. MaxAddr \div 4
    BY <1>1, Widths
  <2>. QED
    BY <1>1, <2>1 DEF Words
<1>2. CASE PtrWidth = 8
  <2>1. a \div 8 \in 1 .. MaxAddr \div 8
    BY <1>2, Widths
  <2>. QED
    BY <1>2, <2>1 DEF Words
<1>. QED
  BY <1>1, <1>2, Widths

(* A write changes no block and is no misuse of the allocator.             *)
LEMMA WriteKeepsMemory ==
  ASSUME NEW m \in Memory, NEW at \in Nat, NEW n \in Nat, NEW value \in Nat
  PROVE  /\ Write(m, at, n, value) \in Memory
         /\ Write(m, at, n, value).blocks = m.blocks
         /\ Write(m, at, n, value).misused = m.misused
BY DEF Memory, Write

(* A word keeps its value when what is written is before it or behind it.  *)
LEMMA WordElsewhere ==
  ASSUME NEW m \in Memory, NEW at \in Nat, NEW n \in Nat, NEW value \in Nat,
         NEW a \in Nat, a + PtrWidth <= at \/ at + n <= a
  PROVE  Word(Write(m, at, n, value), a) = Word(m, a)
<1>1. CASE ~(a % PtrWidth = 0 /\ a \div PtrWidth \in Words)
  BY <1>1 DEF Word
<1>2. CASE a % PtrWidth = 0 /\ a \div PtrWidth \in Words
  <2>. DEFINE w == a \div PtrWidth
  <2>1. w * PtrWidth = a
    BY <1>2, Widths
  <2>2. ~(at <= a /\ a < at + n)
    BY Widths
  <2>3. Write(m, at, n, value).word[w] = m.word[w]
    BY <1>2, <2>1, <2>2 DEF Write, Memory
  <2>. QED
    BY <1>2, <2>3 DEF Word
<1>. QED
  BY <1>1, <1>2

(* A word reads as it was last written.                                    *)
LEMMA WordWritten ==
  ASSUME NEW m \in Memory, NEW a, WordAddr(a), NEW value \in Nat
  PROVE  /\ WriteWord(m, a, value) \in Memory
         /\ Word(WriteWord(m, a, value), a) = value
<1>. DEFINE w == a \div PtrWidth
<1>1. w * PtrWidth = a
  BY Widths DEF WordAddr
<1>2. a <= a /\ a < a + PtrWidth
  BY Widths DEF WordAddr
<1>3. WriteWord(m, a, value).word[w] = value
  BY <1>1, <1>2 DEF WriteWord, Write, Memory, WordAddr
<1>. QED
  BY <1>3, WriteKeepsMemory, Widths DEF Word, WriteWord, WordAddr

-----------------------------------------------------------------------------
(* What WithRefcount hands out.                                            *)

(* What an allocation of the glue hands out: a block that was free, with   *)
(* its size in front of the header, a count of one in it, and all other    *)
(* memory as it was.                                                       *)
LEMMA HandedOut ==
  ASSUME NEW m \in Memory, NEW type \in Types, NEW n \in Nat,
         Fits(m, n + header_bytes(type) + Storage(type), Storage(type)) # {}
  PROVE  LET got   == WithRefcount(m, type, n)
             block == BlockAround(got.ptr, type, n)
         IN  /\ got.m \in Memory /\ got.ptr \in Nat
             /\ block.base \in Fits(m, block.size, block.align)
             /\ got.m.blocks = m.blocks \cup {block}
             /\ got.m.misused = m.misused
             /\ WordAddr(SizeAddr(got.ptr, type)) /\ WordAddr(got.ptr - PtrWidth)
             /\ Word(got.m, SizeAddr(got.ptr, type)) = block.size
             /\ Refcount(got.m, got.ptr) = 1
             /\ \A a \in Nat : a + PtrWidth <= block.base \/ block.base + block.size <= a
                               => Word(got.m, a) = Word(m, a)
<1>. DEFINE storage == Storage(type)
            header  == header_bytes(type)
            total   == n + header + storage
            base    == First(Fits(m, total, storage))
            ptr     == base + storage + header
            taken   == [m EXCEPT !.blocks = @ \cup {Block(base, total, storage)}]
            sized   == WriteWord(taken, base + storage - PtrWidth, total)
            counted == WriteWord(sized, ptr - PtrWidth, 1)
<1>1. /\ header \in {4, 8, 16} /\ storage \in {4, 8, 16}
      /\ header >= PtrWidth /\ storage >= PtrWidth
  BY Layouts
<1>2. base \in Fits(m, total, storage)
  BY <1>1, FitsAt
<1>3. /\ base \in Nat /\ base > 0 /\ base + total <= MaxAddr /\ base \in 1 .. MaxAddr
      /\ base >= PtrWidth /\ total \in Nat /\ storage + header <= total
  <2>1. base \in StaticPtr + StaticLen .. MaxAddr /\ base + total <= MaxAddr
    BY <1>2 DEF Fits
  <2>. HIDE DEF base
  <2>. QED
    BY <1>1, <2>1, Widths DEF StaticPtr, StaticLen, StrSize
<1>4. WithRefcount(m, type, n) = [m |-> counted, ptr |-> ptr]
  <2>1. (header + n) + storage = total
    BY <1>1
  <2>. QED
    BY <2>1 DEF WithRefcount, roc_alloc, Storage
<1>5. /\ SizeAddr(ptr, type) = base + storage - PtrWidth
      /\ BlockAround(ptr, type, n) = Block(base, total, storage)
  <2>1. ptr - header - PtrWidth = base + storage - PtrWidth /\ ptr - header - storage = base
    BY <1>1, <1>3, Widths
  <2>. QED
    BY <2>1 DEF SizeAddr, BlockAround, Start
<1>6. WordAddr(base + storage - PtrWidth) /\ WordAddr(ptr - PtrWidth)
  <2>1. base % PtrWidth = 0
    <3>1. base % storage = 0
      BY <1>2 DEF Fits
    <3>. QED
      BY <1>1, <1>3, <3>1, Widths
  <2>2. (base + storage - PtrWidth) % PtrWidth = 0 /\ (ptr - PtrWidth) % PtrWidth = 0
    <3>1. header % PtrWidth = 0 /\ storage % PtrWidth = 0
      BY Layouts
    <3>. HIDE DEF base
    <3>2. CASE PtrWidth = 4
      BY <1>1, <1>3, <2>1, <3>1, <3>2
    <3>3. CASE PtrWidth = 8
      BY <1>1, <1>3, <2>1, <3>1, <3>3
    <3>. QED
      BY <3>2, <3>3, Widths
  <2>. QED
    <3>1. ASSUME NEW a \in Nat, PtrWidth <= a, a < MaxAddr PROVE a \div PtrWidth \in Words
      BY <3>1, Widths, WordOf
    <3>2. /\ base + storage - PtrWidth \in Nat /\ base + storage - PtrWidth >= PtrWidth
          /\ base + storage - PtrWidth < MaxAddr
          /\ ptr - PtrWidth \in Nat /\ ptr - PtrWidth >= PtrWidth /\ ptr - PtrWidth < MaxAddr
      <4>. HIDE DEF base, total, header, storage
      <4>. QED
        BY <1>1, <1>3, Widths
    <3>. QED
      BY <2>2, <3>1, <3>2 DEF WordAddr
<1>7. taken \in Memory
  BY <1>1, <1>3 DEF Memory, Block
<1>8. sized \in Memory /\ Word(sized, base + storage - PtrWidth) = total
  <2>1. total \in Nat
    BY <1>1
  <2>. HIDE DEF taken, base, total
  <2>. QED
    BY <1>6, <1>7, <2>1, WordWritten
<1>9. counted \in Memory /\ Word(counted, ptr - PtrWidth) = 1
  <2>. HIDE DEF sized, ptr
  <2>. QED
    BY <1>6, <1>8, WordWritten
<1>10. Word(counted, base + storage - PtrWidth) = total
  <2>1. base + storage - PtrWidth + PtrWidth <= ptr - PtrWidth
    <3>. HIDE DEF base
    <3>. QED
      BY <1>1, <1>3, Widths
  <2>2. base + storage - PtrWidth \in Nat /\ ptr - PtrWidth \in Nat
    BY <1>6 DEF WordAddr
  <2>. HIDE DEF sized, base, ptr
  <2>. QED
    BY <1>8, <2>1, <2>2, WordElsewhere, Widths DEF WriteWord
<1>11. counted.blocks = m.blocks \cup {Block(base, total, storage)} /\ counted.misused = m.misused
  BY DEF WriteWord, Write, Memory
<1>12. ASSUME NEW a \in Nat, a + PtrWidth <= base \/ base + total <= a
       PROVE  Word(counted, a) = Word(m, a)
  <2>1. /\ a + PtrWidth <= base + storage - PtrWidth \/ base + storage <= a
        /\ a + PtrWidth <= ptr - PtrWidth \/ ptr <= a
    <3>. HIDE DEF base, total, header, storage
    <3>. QED
      BY <1>1, <1>3, <1>12, Widths
  <2>2. /\ base + storage - PtrWidth \in Nat /\ ptr - PtrWidth \in Nat /\ total \in Nat
        /\ base + storage - PtrWidth + PtrWidth = base + storage
        /\ ptr - PtrWidth + PtrWidth = ptr
    <3>. HIDE DEF base
    <3>. QED
      BY <1>1, <1>3, Widths
  <2>3. Word(sized, a) = Word(taken, a)
    <3>. HIDE DEF taken, base, total, ptr
    <3>. QED
      BY <1>7, <2>1, <2>2, WordElsewhere, Widths DEF WriteWord
  <2>5. Word(counted, a) = Word(sized, a)
    <3>. HIDE DEF sized, base, total, ptr
    <3>. QED
      BY <1>8, <2>1, <2>2, WordElsewhere, Widths DEF WriteWord
  <2>4. Word(taken, a) = Word(m, a)
    BY DEF Word, Memory
  <2>. QED
    BY <2>3, <2>4, <2>5
<1>. HIDE DEF counted, sized, taken, ptr, base, total
<1>13. ptr \in Nat /\ BlockAround(ptr, type, n).size = total
       /\ BlockAround(ptr, type, n).align = storage
       /\ BlockAround(ptr, type, n).base = base
  BY <1>1, <1>3, <1>5 DEF ptr, Block
<1>. QED
  BY <1>2, <1>4, <1>5, <1>6, <1>9, <1>10, <1>11, <1>12, <1>13 DEF Refcount

(* What follows a header may be written, without the size in front of it.  *)
LEMMA SizeKept ==
  ASSUME NEW m \in Memory, NEW type \in Types, NEW data \in Nat, WordAddr(SizeAddr(data, type)),
         NEW at \in Nat, at >= data - header_bytes(type), NEW n \in Nat, NEW value \in Nat
  PROVE  Word(Write(m, at, n, value), SizeAddr(data, type)) = Word(m, SizeAddr(data, type))
<1>1. header_bytes(type) \in {4, 8, 16}
  BY Layouts
<1>2. SizeAddr(data, type) + PtrWidth <= at /\ SizeAddr(data, type) \in Nat
  BY <1>1, Widths DEF SizeAddr, WordAddr
<1>. QED
  BY <1>2, WordElsewhere

(* As long as the block is there and its size in front of it, freeing by a *)
(* pointer to the payload gives that block back.                           *)
LEMMA GivesBlockBack ==
  ASSUME NEW m \in Memory, NEW type \in Types, NEW data \in Nat, NEW n \in Nat,
         BlockAround(data, type, n) \in m.blocks,
         Word(m, SizeAddr(data, type)) = BlockAround(data, type, n).size
  PROVE  LET freed == free_allocation(m, data, type)
         IN  /\ freed.misused = m.misused
             /\ freed.blocks = m.blocks \ {BlockAround(data, type, n)}
<1>. DEFINE block == BlockAround(data, type, n)
<1>1. free_allocation(m, data, type) = GiveBack(m, block)
  BY DEF free_allocation, roc_dealloc, BlockAround, Block, Start, Storage, SizeAddr
<1>2. block \in m.blocks
  OBVIOUS
<1>. QED
  BY <1>1, <1>2 DEF GiveBack, Write, Memory
-----------------------------------------------------------------------------
(* The allocations D there are: n bytes of payload at data, with k strings *)
(* in them.                                                                *)

Alloc == [data : Nat, type : Types, n : Nat, k : Nat]

Low(d)  == Start(d.data, d.type)
High(d) == d.data + d.n
BlockOf(d) == BlockAround(d.data, d.type, d.n)

SlotAt(d, i) == d.data + (IF d.type = "fn" THEN CaptureOffset ELSE 0) + (i - 1) * StrSize
Slots(d)     == {SlotAt(d, i) : i \in 1 .. d.k}
AllSlots(D)  == UNION {Slots(d) : d \in D}

Plain == {"str", "bytes", "wides", "widebox"}

AllocOK(d) ==
  /\ d \in Alloc
  /\ Low(d) >= StaticPtr + StaticLen /\ High(d) <= MaxAddr
  /\ d.data % PtrWidth = 0 /\ d.data % Layout(d.type).align = 0
  /\ d.k <= MaxItems
  /\ d.type \in Plain => d.k = 0
  /\ d.type = "widebox" => d.n = 16
  /\ d.type \in {"strs", "strbox"} => d.n = d.k * StrSize
  /\ d.type = "strbox" => d.k = 1
  /\ d.type = "fn" => d.k \in {0, 1} /\ d.n = CaptureOffset + d.k * StrSize

Apart(d, e) == High(d) <= Low(e) \/ High(e) <= Low(d)

StaticAlloc == [data |-> StaticPtr, type |-> "str", n |-> StaticLen, k |-> 0]

-----------------------------------------------------------------------------
(* Values.                                                                 *)

Val == [type : {"none"} \cup Types, ptr : Nat, cap : Nat, len : Nat]

Small(v)  == v.type = "str" /\ v.len \in SmallBit .. SmallBit + StrSize - 1
Empty(v)  == v.type \in ListTypes /\ v.ptr = 0 /\ v.cap = 0 /\ v.len = 0

(* v refers to d, or to a part of it.                                      *)
PointsTo(v, d) ==
  /\ v.type = d.type /\ get_allocation_ptr(v) = d.data /\ v.len < SmallBit
  /\ d.data <= v.ptr /\ v.ptr % Layout(v.type).align = 0
  /\ v.type \in {"str", "bytes", "wides"} => v.ptr + v.len * Layout(v.type).size <= High(d)
  /\ v.type = "strs" => \E j \in Nat : v.ptr = d.data + j * StrSize /\ j + v.len <= d.k
  /\ v.type \in BoxTypes => v.cap = 0
  /\ v.cap % 2 = 0 => v.ptr = d.data /\ (v.type = "strs" => v.len = d.k)

ValueOK(v, D) ==
  /\ v \in Val
  /\ v = Nothing \/ Small(v) \/ Empty(v) \/ \E d \in D \cup {StaticAlloc} : PointsTo(v, d)

-----------------------------------------------------------------------------
(* What memory holds.  The references in S are those still counted, the    *)
(* allocations in X are being freed.                                       *)

TextIn(m, lo, hi) == \A a : WordAddr(a) /\ lo <= a /\ a < hi => Word(m, a) = Text

Contents(m, d) ==
  /\ Word(m, SizeAddr(d.data, d.type)) = BlockOf(d).size
  /\ d.type = "strs" => ElementCount(m, d.data) = d.k
  /\ d.type = "fn" => Word(m, d.data + PtrWidth) = IF d.k = 1 THEN OnDrop ELSE 0
  /\ d.type \in Plain => TextIn(m, d.data, High(d))

LocalRefs(loc, a) == {l \in Locals : RefersTo(loc[l], a)}
SlotRefs(m, S, a) == {s \in S : RefersTo(LoadStr(m, s), a)}
Count(m, loc, S, a) == Cardinality(LocalRefs(loc, a)) + Cardinality(SlotRefs(m, S, a))

MemoryOK(m, D) ==
  /\ m \in Memory /\ ~m.misused
  /\ D \in SUBSET Alloc
  /\ \A d \in D : AllocOK(d) /\ Contents(m, d)
  /\ \A d, e \in D : d # e => Apart(d, e)
  /\ m.blocks = {BlockOf(d) : d \in D}
  /\ Refcount(m, StaticPtr) = 0 /\ TextIn(m, StaticPtr, StaticPtr + StaticLen)

ValuesOK(m, loc, D, S) ==
  /\ loc \in [Locals -> Val] /\ S \subseteq AllSlots(D)
  /\ \A l \in Locals : ValueOK(loc[l], D)
  /\ \A a \in S : LoadStr(m, a).type = "str" /\ ValueOK(LoadStr(m, a), D)

CountsOK(m, loc, D, S, X) ==
  \A d \in D : IF d \in X THEN Count(m, loc, S, d.data) = 0
              ELSE Refcount(m, d.data) = Count(m, loc, S, d.data) /\ Refcount(m, d.data) > 0

Good(m, loc, D, S, X) ==
  MemoryOK(m, D) /\ ValuesOK(m, loc, D, S) /\ CountsOK(m, loc, D, S, X)

Made(m, loc) == \E D \in SUBSET Alloc : Good(m, loc, D, AllSlots(D), {})

MemoryInv == Made(memory, local)

-----------------------------------------------------------------------------
(* Where the parts of an allocation are.                                   *)

(* Two words do not overlap.                                               *)
LEMMA WordsApart ==
  ASSUME NEW a \in Nat, NEW b \in Nat, a % PtrWidth = 0, b % PtrWidth = 0, a < b
  PROVE  a + PtrWidth <= b
<1>1. CASE PtrWidth = 4
  BY <1>1
<1>2. CASE PtrWidth = 8
  BY <1>2
<1>. QED
  BY <1>1, <1>2, Widths

LEMMA IsWordAddr ==
  ASSUME NEW a \in Nat, a % PtrWidth = 0, PtrWidth <= a, a < MaxAddr
  PROVE  WordAddr(a)
BY WordOf DEF WordAddr

LEMMA StrSizes == StrSize = 3 * PtrWidth /\ StrSize \in {12, 24} /\ StaticPtr = 2 * PtrWidth
                  /\ StaticLen = 3 * PtrWidth
BY Widths DEF StrSize, StaticPtr, StaticLen

(* The size, the count and the payload, in this order.                     *)
LEMMA Parts ==
  ASSUME NEW d, AllocOK(d)
  PROVE  LET size == SizeAddr(d.data, d.type)
         IN  /\ d.data \in Nat /\ d.type \in Types /\ d.n \in Nat /\ d.k \in Nat
             /\ Low(d) \in Nat /\ Low(d) >= 5 * PtrWidth /\ Low(d) % PtrWidth = 0
             /\ High(d) \in Nat /\ High(d) <= MaxAddr /\ d.data <= High(d)
             /\ size \in Nat /\ size % PtrWidth = 0
             /\ Low(d) <= size /\ size + PtrWidth = d.data - header_bytes(d.type)
             /\ size + PtrWidth <= d.data - PtrWidth
             /\ d.data - PtrWidth \in Nat /\ (d.data - PtrWidth) % PtrWidth = 0
             /\ d.data % PtrWidth = 0 /\ d.data % 2 = 0
             /\ BlockOf(d) = Block(Low(d), High(d) - Low(d), Storage(d.type))
<1>. DEFINE header == header_bytes(d.type)  storage == Storage(d.type)
<1>1. d.data \in Nat /\ d.type \in Types /\ d.n \in Nat /\ d.k \in Nat
  BY DEF AllocOK, Alloc
<1>2. /\ header \in {4, 8, 16} /\ storage \in {4, 8, 16}
      /\ header >= PtrWidth /\ storage >= PtrWidth
  BY <1>1, Layouts
<1>3. header % PtrWidth = 0 /\ storage % PtrWidth = 0
  BY <1>1, Layouts
<1>4. /\ Low(d) = d.data - header - storage /\ SizeAddr(d.data, d.type) = d.data - header - PtrWidth
      /\ High(d) = d.data + d.n
  BY DEF Low, Start, SizeAddr, High
<1>5. Low(d) >= 5 * PtrWidth /\ High(d) <= MaxAddr /\ d.data % PtrWidth = 0
  BY StrSizes, Widths DEF AllocOK, StaticPtr, StaticLen, StrSize
<1>6. BlockOf(d) = Block(Low(d), High(d) - Low(d), Storage(d.type))
  <2>1. d.n + header + storage = High(d) - Low(d)
    <3>. HIDE DEF header, storage
    <3>. QED
      BY <1>1, <1>2, <1>4
  <2>. QED
    BY <2>1 DEF BlockOf, BlockAround, Low
<1>. HIDE DEF header, storage
<1>7. /\ Low(d) \in Nat /\ High(d) \in Nat /\ d.data <= High(d)
      /\ SizeAddr(d.data, d.type) \in Nat /\ Low(d) <= SizeAddr(d.data, d.type)
      /\ SizeAddr(d.data, d.type) + PtrWidth = d.data - header
      /\ SizeAddr(d.data, d.type) + PtrWidth <= d.data - PtrWidth
      /\ d.data - PtrWidth \in Nat
  BY <1>1, <1>2, <1>4, <1>5, Widths
<1>8. /\ Low(d) % PtrWidth = 0 /\ SizeAddr(d.data, d.type) % PtrWidth = 0
      /\ (d.data - PtrWidth) % PtrWidth = 0 /\ d.data % 2 = 0
  <2>1. CASE PtrWidth = 4
    BY <1>1, <1>2, <1>3, <1>4, <1>5, <1>7, <2>1
  <2>2. CASE PtrWidth = 8
    <3>1. d.data % 8 = 0 /\ header \in {8, 16} /\ storage \in {8, 16}
      BY <1>2, <1>3, <1>5, <2>2
    <3>2. (d.data - header) % 8 = 0 /\ (d.data - 8) % 8 = 0 /\ d.data % 2 = 0
      BY <1>1, <3>1
    <3>3. (d.data - header - storage) % 8 = 0 /\ (d.data - header - 8) % 8 = 0
      BY <1>1, <3>1, <3>2
    <3>. QED
      BY <1>4, <2>2, <3>2, <3>3
  <2>. QED
    BY <2>1, <2>2, Widths
<1>. QED
  BY <1>1, <1>5, <1>6, <1>7, <1>8 DEF header

(* The number of elements lies between a block's size and its count.       *)
LEMMA CountOfElements ==
  ASSUME NEW d, AllocOK(d), d.type = "strs"
  PROVE  /\ d.data - 2 * PtrWidth \in Nat /\ (d.data - 2 * PtrWidth) % PtrWidth = 0
         /\ Low(d) <= d.data - 2 * PtrWidth
         /\ SizeAddr(d.data, d.type) + PtrWidth <= d.data - 2 * PtrWidth
<1>1. header_bytes("strs") = 2 * PtrWidth
  BY Widths DEF header_bytes, Layout, Larger
<1>2. /\ d.data \in Nat /\ Low(d) \in Nat /\ Low(d) <= SizeAddr(d.data, d.type)
      /\ SizeAddr(d.data, d.type) \in Nat /\ d.data % PtrWidth = 0
      /\ SizeAddr(d.data, d.type) + PtrWidth = d.data - header_bytes(d.type)
  BY Parts
<1>3. d.data - 2 * PtrWidth \in Nat
  BY <1>1, <1>2, Widths
<1>4. (d.data - 2 * PtrWidth) % PtrWidth = 0
  <2>1. CASE PtrWidth = 4
    BY <1>2, <1>3, <2>1
  <2>2. CASE PtrWidth = 8
    BY <1>2, <1>3, <2>2
  <2>. QED
    BY <2>1, <2>2, Widths
<1>. QED
  BY <1>1, <1>2, <1>3, <1>4, Widths

(* A string in a list, a box or a closure lies inside its payload.         *)
LEMMA SlotIn ==
  ASSUME NEW d, AllocOK(d), NEW i \in 1 .. d.k
  PROVE  /\ SlotAt(d, i) \in Nat /\ SlotAt(d, i) % PtrWidth = 0
         /\ d.data <= SlotAt(d, i) /\ SlotAt(d, i) + StrSize <= High(d)
         /\ d.type = "fn" => SlotAt(d, i) = d.data + CaptureOffset
         /\ d.type # "fn" => SlotAt(d, i) = d.data + (i - 1) * StrSize
         /\ d.type \notin Plain
<1>1. /\ d.data \in Nat /\ d.type \in Types /\ d.n \in Nat /\ d.k \in Nat
      /\ d.data % PtrWidth = 0 /\ High(d) = d.data + d.n
  BY Parts DEF High
<1>2. d.type \notin Plain
  BY <1>1 DEF AllocOK
<1>3. CASE d.type = "fn"
  <2>1. i = 1 /\ d.k = 1 /\ d.n = CaptureOffset + StrSize
    BY <1>3, StrSizes DEF AllocOK
  <2>2. SlotAt(d, i) = d.data + CaptureOffset
    BY <1>1, <1>3, <2>1, StrSizes DEF SlotAt, CaptureOffset
  <2>3. (d.data + CaptureOffset) % PtrWidth = 0
    <3>1. CASE PtrWidth = 4
      BY <1>1, <3>1 DEF CaptureOffset
    <3>2. CASE PtrWidth = 8
      BY <1>1, <3>2 DEF CaptureOffset
    <3>. QED
      BY <3>1, <3>2, Widths
  <2>. QED
    BY <1>1, <1>2, <1>3, <2>1, <2>2, <2>3, StrSizes DEF CaptureOffset
<1>4. CASE d.type # "fn"
  <2>1. d.n = d.k * StrSize
    BY <1>1, <1>2, <1>4 DEF AllocOK, Types, ListTypes, BoxTypes, Plain
  <2>2. SlotAt(d, i) = d.data + (i - 1) * StrSize
    BY <1>1, <1>4, StrSizes DEF SlotAt
  <2>3. CASE PtrWidth = 4
    BY <1>1, <1>2, <1>4, <2>1, <2>2, <2>3, StrSizes
  <2>4. CASE PtrWidth = 8
    BY <1>1, <1>2, <1>4, <2>1, <2>2, <2>4, StrSizes
  <2>. QED
    BY <2>3, <2>4, Widths
<1>. QED
  BY <1>3, <1>4

(* Strings of one allocation do not overlap.                               *)
LEMMA SlotsDiffer ==
  ASSUME NEW d, AllocOK(d), NEW i \in 1 .. d.k, NEW j \in 1 .. d.k, i < j
  PROVE  SlotAt(d, i) + StrSize <= SlotAt(d, j)
<1>1. d.type # "fn"
  BY DEF AllocOK
<1>2. SlotAt(d, i) = d.data + (i - 1) * StrSize /\ SlotAt(d, j) = d.data + (j - 1) * StrSize
  BY <1>1, SlotIn
<1>3. d.data \in Nat /\ d.k \in Nat
  BY Parts
<1>4. CASE StrSize = 12
  BY <1>2, <1>3, <1>4
<1>5. CASE StrSize = 24
  BY <1>2, <1>3, <1>5
<1>. QED
  BY <1>4, <1>5, StrSizes

-----------------------------------------------------------------------------
(* What a change of some words leaves as it was.                           *)

KeepsBut(m, m2, lo, hi) ==
  \A a \in Nat : a + PtrWidth <= lo \/ hi <= a => Word(m2, a) = Word(m, a)

LEMMA SlotWords ==
  ASSUME NEW d, AllocOK(d), NEW s \in Slots(d)
  PROVE  /\ s \in Nat /\ s % PtrWidth = 0 /\ d.data <= s /\ s + StrSize <= High(d)
         /\ s + PtrWidth \in Nat /\ (s + PtrWidth) % PtrWidth = 0
         /\ s + 2 * PtrWidth \in Nat /\ (s + 2 * PtrWidth) % PtrWidth = 0
<1>1. PICK i \in 1 .. d.k : s = SlotAt(d, i)
  BY DEF Slots
<1>2. s \in Nat /\ s % PtrWidth = 0 /\ d.data <= s /\ s + StrSize <= High(d)
  BY <1>1, SlotIn
<1>3. (s + PtrWidth) % PtrWidth = 0 /\ (s + 2 * PtrWidth) % PtrWidth = 0
  <2>1. CASE PtrWidth = 4
    BY <1>2, <2>1
  <2>2. CASE PtrWidth = 8
    BY <1>2, <2>2
  <2>. QED
    BY <2>1, <2>2, Widths
<1>. QED
  BY <1>2, <1>3, Widths

(* A word of one allocation lies outside another.                          *)
LEMMA Outside ==
  ASSUME NEW d, AllocOK(d), NEW e, AllocOK(e), Apart(d, e),
         NEW a \in Nat, a % PtrWidth = 0, Low(e) <= a, a < High(e)
  PROVE  a + PtrWidth <= Low(d) \/ High(d) <= a
<1>1. Low(d) \in Nat /\ Low(d) % PtrWidth = 0 /\ High(d) \in Nat /\ Low(e) \in Nat /\ High(e) \in Nat
  BY Parts
<1>2. CASE High(e) <= Low(d)
  BY <1>1, <1>2, WordsApart
<1>3. CASE High(d) <= Low(e)
  BY <1>1, <1>3
<1>. QED
  BY <1>2, <1>3 DEF Apart

(* An allocation holds what it held if none of its words but the count     *)
(* changed.                                                                *)
LEMMA ContentsKept ==
  ASSUME NEW m, NEW m2, NEW d, AllocOK(d), Contents(m, d),
         \A a \in Nat : a % PtrWidth = 0 /\ Low(d) <= a /\ a < High(d) /\ a # d.data - PtrWidth
                        => Word(m2, a) = Word(m, a)
  PROVE  Contents(m2, d)
<1>1. Word(m2, SizeAddr(d.data, d.type)) = Word(m, SizeAddr(d.data, d.type))
  <2>1. LET size == SizeAddr(d.data, d.type)
        IN size \in Nat /\ size % PtrWidth = 0 /\ Low(d) <= size /\ size < High(d)
           /\ size # d.data - PtrWidth
    BY Parts, Widths
  <2>. QED
    BY <2>1
<1>2. ASSUME d.type = "strs" PROVE ElementCount(m2, d.data) = ElementCount(m, d.data)
  <2>1. LET at == d.data - 2 * PtrWidth
        IN at \in Nat /\ at % PtrWidth = 0 /\ Low(d) <= at /\ at < High(d)
           /\ at # d.data - PtrWidth
    BY <1>2, CountOfElements, Parts, Widths
  <2>. QED
    BY <2>1 DEF ElementCount
<1>3. ASSUME d.type = "fn" PROVE Word(m2, d.data + PtrWidth) = Word(m, d.data + PtrWidth)
  <2>1. d.data \in Nat /\ d.n >= 16 /\ d.n \in Nat /\ High(d) = d.data + d.n /\ d.data % PtrWidth = 0
        /\ Low(d) \in Nat /\ Low(d) <= d.data - PtrWidth
    <3>1. /\ d.data \in Nat /\ d.n \in Nat /\ d.data % PtrWidth = 0 /\ Low(d) \in Nat
          /\ Low(d) <= SizeAddr(d.data, d.type) /\ SizeAddr(d.data, d.type) \in Nat
          /\ SizeAddr(d.data, d.type) + PtrWidth <= d.data - PtrWidth
      BY Parts
    <3>2. d.n >= 16
      BY <1>3, StrSizes DEF AllocOK, CaptureOffset
    <3>. QED
      BY <3>1, <3>2, Widths DEF High
  <2>2. (d.data + PtrWidth) % PtrWidth = 0
    <3>1. CASE PtrWidth = 4
      BY <2>1, <3>1
    <3>2. CASE PtrWidth = 8
      BY <2>1, <3>2
    <3>. QED
      BY <3>1, <3>2, Widths
  <2>3. LET at == d.data + PtrWidth
        IN at \in Nat /\ Low(d) <= at /\ at < High(d) /\ at # d.data - PtrWidth
    BY <2>1, Widths
  <2>. QED
    BY <2>2, <2>3
<1>4. ASSUME TextIn(m, d.data, High(d)) PROVE TextIn(m2, d.data, High(d))
  <2>1. SUFFICES ASSUME NEW a, WordAddr(a), d.data <= a, a < High(d) PROVE Word(m2, a) = Text
    BY DEF TextIn
  <2>2. Word(m, a) = Text
    BY <1>4, <2>1 DEF TextIn
  <2>3. a \in Nat /\ a % PtrWidth = 0 /\ Low(d) <= a /\ a # d.data - PtrWidth
    <3>1. /\ d.data \in Nat /\ Low(d) \in Nat /\ SizeAddr(d.data, d.type) \in Nat
          /\ Low(d) <= SizeAddr(d.data, d.type)
          /\ SizeAddr(d.data, d.type) + PtrWidth <= d.data - PtrWidth
      BY Parts
    <3>. QED
      BY <2>1, <3>1, Widths DEF WordAddr
  <2>. QED
    BY <2>1, <2>2, <2>3
<1>. QED
  BY <1>1, <1>2, <1>3, <1>4 DEF Contents

(* A change within the words of d does not concern another allocation e.   *)
LEMMA OthersKept ==
  ASSUME NEW m, NEW m2, NEW d, AllocOK(d), KeepsBut(m, m2, Low(d), High(d)),
         NEW e, AllocOK(e), Apart(d, e)
  PROVE  /\ Contents(m, e) => Contents(m2, e)
         /\ Refcount(m2, e.data) = Refcount(m, e.data)
         /\ \A s \in Slots(e) : LoadStr(m2, s) = LoadStr(m, s)
<1>1. ASSUME NEW a \in Nat, a % PtrWidth = 0, Low(e) <= a, a < High(e)
      PROVE  Word(m2, a) = Word(m, a)
  BY <1>1, Outside DEF KeepsBut
<1>2. Contents(m, e) => Contents(m2, e)
  BY <1>1, ContentsKept
<1>3. Refcount(m2, e.data) = Refcount(m, e.data)
  <2>1. LET at == e.data - PtrWidth
        IN at \in Nat /\ at % PtrWidth = 0 /\ Low(e) <= at /\ at < High(e)
    BY Parts, Widths
  <2>. QED
    BY <1>1, <2>1 DEF Refcount
<1>4. ASSUME NEW s \in Slots(e) PROVE LoadStr(m2, s) = LoadStr(m, s)
  <2>1. /\ s \in Nat /\ s % PtrWidth = 0 /\ e.data <= s /\ s + StrSize <= High(e)
        /\ s + PtrWidth \in Nat /\ (s + PtrWidth) % PtrWidth = 0
        /\ s + 2 * PtrWidth \in Nat /\ (s + 2 * PtrWidth) % PtrWidth = 0
    BY SlotWords
  <2>2. /\ e.data \in Nat /\ Low(e) \in Nat /\ Low(e) <= e.data /\ High(e) \in Nat
    BY Parts, Widths
  <2>3. /\ Word(m2, s) = Word(m, s) /\ Word(m2, s + PtrWidth) = Word(m, s + PtrWidth)
        /\ Word(m2, s + 2 * PtrWidth) = Word(m, s + 2 * PtrWidth)
    BY <1>1, <2>1, <2>2, StrSizes, Widths
  <2>. QED
    BY <2>3 DEF LoadStr
<1>. QED
  BY <1>2, <1>3, <1>4

(* Nothing above the static string changes it.                             *)
LEMMA StaticKept ==
  ASSUME NEW m, NEW m2, NEW lo \in Nat, lo >= 5 * PtrWidth, NEW hi, KeepsBut(m, m2, lo, hi)
  PROVE  /\ Refcount(m2, StaticPtr) = Refcount(m, StaticPtr)
         /\ TextIn(m, StaticPtr, StaticPtr + StaticLen)
            => TextIn(m2, StaticPtr, StaticPtr + StaticLen)
<1>1. ASSUME NEW a \in Nat, a % PtrWidth = 0, a < 5 * PtrWidth
      PROVE  Word(m2, a) = Word(m, a)
  <2>1. (5 * PtrWidth) % PtrWidth = 0 /\ 5 * PtrWidth \in Nat
    BY Widths
  <2>2. a + PtrWidth <= lo
    BY <1>1, <2>1, WordsApart, Widths
  <2>. QED
    BY <2>2 DEF KeepsBut
<1>2. Refcount(m2, StaticPtr) = Refcount(m, StaticPtr)
  <2>1. LET at == StaticPtr - PtrWidth IN at \in Nat /\ at % PtrWidth = 0 /\ at < 5 * PtrWidth
    BY StrSizes, Widths
  <2>. QED
    BY <1>1, <2>1 DEF Refcount
<1>3. ASSUME NEW a, WordAddr(a), StaticPtr <= a, a < StaticPtr + StaticLen
      PROVE  Word(m2, a) = Word(m, a)
  BY <1>1, <1>3, StrSizes, Widths DEF WordAddr
<1>. QED
  BY <1>2, <1>3 DEF TextIn

-----------------------------------------------------------------------------
(* The three things that happen to an allocation: its count is changed, it *)
(* is given back, it is new.                                               *)

(* What a change leaves as it was for the allocations in D.                *)
KeepsOthers(m, m2, D) ==
  \A d \in D : Refcount(m2, d.data) = Refcount(m, d.data)

KeepsSlots(m, m2, D) == \A s \in AllSlots(D) : LoadStr(m2, s) = LoadStr(m, s)

LEMMA WriteKeepsBut ==
  ASSUME NEW m \in Memory, NEW at \in Nat, NEW n \in Nat, NEW value \in Nat
  PROVE  KeepsBut(m, Write(m, at, n, value), at, at + n)
BY WordElsewhere DEF KeepsBut

LEMMA KeepsWider ==
  ASSUME NEW m, NEW m2, NEW lo \in Nat, NEW hi \in Nat, KeepsBut(m, m2, lo, hi),
         NEW lo2 \in Nat, NEW hi2 \in Nat, lo2 <= lo, hi <= hi2
  PROVE  KeepsBut(m, m2, lo2, hi2)
BY Widths DEF KeepsBut

(* Allocations that do not overlap share neither pointers nor strings.     *)
LEMMA DataDiffer ==
  ASSUME NEW d, AllocOK(d), NEW e, AllocOK(e), Apart(d, e)
  PROVE  d.data # e.data /\ Low(d) # Low(e) /\ BlockOf(d) # BlockOf(e) /\ Slots(d) \cap Slots(e) = {}
<1>1. /\ d.data \in Nat /\ Low(d) \in Nat /\ High(d) \in Nat /\ Low(d) < d.data /\ d.data <= High(d)
      /\ BlockOf(d).base = Low(d)
  BY Parts, Widths DEF Block
<1>2. /\ e.data \in Nat /\ Low(e) \in Nat /\ High(e) \in Nat /\ Low(e) < e.data /\ e.data <= High(e)
      /\ BlockOf(e).base = Low(e)
  BY Parts, Widths DEF Block
<1>3. d.data # e.data /\ Low(d) # Low(e) /\ BlockOf(d) # BlockOf(e)
  BY <1>1, <1>2 DEF Apart
<1>4. ASSUME NEW s \in Slots(d), s \in Slots(e) PROVE FALSE
  <2>1. s \in Nat /\ d.data <= s /\ s + StrSize <= High(d) /\ e.data <= s /\ s + StrSize <= High(e)
    BY <1>4, SlotWords
  <2>. QED
    BY <1>1, <1>2, <2>1, StrSizes DEF Apart
<1>. QED
  BY <1>3, <1>4

LEMMA StaticApart ==
  ASSUME NEW d, AllocOK(d)
  PROVE  d.data # StaticPtr /\ d.data > 5 * PtrWidth
BY Parts, StrSizes, Widths

RecountedTo(m, m2, D, d, c) ==
  /\ MemoryOK(m2, D) /\ Refcount(m2, d.data) = c
  /\ KeepsOthers(m, m2, D \ {d}) /\ KeepsSlots(m, m2, D) /\ KeepsBut(m, m2, Low(d), High(d))
  /\ \A a \in Nat : a % PtrWidth = 0 /\ a # d.data - PtrWidth => Word(m2, a) = Word(m, a)

(* A count may be set without changing anything else of memory.            *)
LEMMA Recounted ==
  ASSUME NEW m, NEW D, MemoryOK(m, D), NEW d \in D, NEW c \in Nat
  PROVE  RecountedTo(m, WriteWord(m, d.data - PtrWidth, c), D, d, c)
<1>. DEFINE at == d.data - PtrWidth  m2 == WriteWord(m, at, c)
<1>1. AllocOK(d) /\ m \in Memory /\ D \in SUBSET Alloc
  BY DEF MemoryOK
<1>2. /\ at \in Nat /\ at % PtrWidth = 0 /\ Low(d) \in Nat /\ Low(d) <= at /\ at + PtrWidth <= High(d)
      /\ High(d) \in Nat /\ High(d) <= MaxAddr /\ PtrWidth <= at /\ at < MaxAddr
      /\ at + PtrWidth = d.data /\ Low(d) >= 5 * PtrWidth
  BY <1>1, Parts, Widths
<1>3. WordAddr(at)
  BY <1>2, IsWordAddr
<1>4. m2 \in Memory /\ Word(m2, at) = c /\ m2.blocks = m.blocks /\ m2.misused = m.misused
  <2>1. m2 \in Memory /\ Word(m2, at) = c
    BY <1>1, <1>3, WordWritten
  <2>. QED
    BY <2>1 DEF WriteWord, Write
<1>5. KeepsBut(m, m2, at, at + PtrWidth)
  BY <1>1, <1>2, WriteKeepsBut, Widths DEF WriteWord
<1>6. KeepsBut(m, m2, Low(d), High(d))
  BY <1>2, <1>5, KeepsWider, Widths
<1>. HIDE DEF m2
<1>7. ASSUME NEW a \in Nat, a % PtrWidth = 0, a # at PROVE Word(m2, a) = Word(m, a)
  <2>1. a + PtrWidth <= at \/ at + PtrWidth <= a
    BY <1>2, <1>7, WordsApart
  <2>. QED
    BY <1>5, <2>1 DEF KeepsBut
<1>8. ASSUME NEW e \in D, e # d
      PROVE  /\ Contents(m2, e) /\ Refcount(m2, e.data) = Refcount(m, e.data)
             /\ \A s \in Slots(e) : LoadStr(m2, s) = LoadStr(m, s)
  BY <1>1, <1>6, <1>8, OthersKept DEF MemoryOK, Apart
<1>9. Contents(m2, d)
  BY <1>1, <1>7, ContentsKept DEF MemoryOK
<1>10. ASSUME NEW s \in Slots(d) PROVE LoadStr(m2, s) = LoadStr(m, s)
  <2>1. /\ s \in Nat /\ s % PtrWidth = 0 /\ at < s
        /\ s + PtrWidth \in Nat /\ (s + PtrWidth) % PtrWidth = 0
        /\ s + 2 * PtrWidth \in Nat /\ (s + 2 * PtrWidth) % PtrWidth = 0
    BY <1>1, <1>2, SlotWords, Parts, Widths
  <2>. QED
    BY <1>2, <1>7, <2>1, Widths DEF LoadStr
<1>11. MemoryOK(m2, D)
  <2>1. \A e \in D : AllocOK(e) /\ Contents(m2, e)
    BY <1>8, <1>9 DEF MemoryOK
  <2>2. /\ Refcount(m2, StaticPtr) = 0
        /\ TextIn(m2, StaticPtr, StaticPtr + StaticLen)
    BY <1>2, <1>6, StaticKept DEF MemoryOK
  <2>. QED
    BY <1>4, <2>1, <2>2 DEF MemoryOK
<1>12. Refcount(m2, d.data) = c
  BY <1>4 DEF Refcount
<1>13. KeepsSlots(m, m2, D)
  BY <1>8, <1>10 DEF KeepsSlots, AllSlots
<1>14. KeepsOthers(m, m2, D \ {d})
  BY <1>8 DEF KeepsOthers
<1>. QED
  BY <1>6, <1>7, <1>11, <1>12, <1>13, <1>14 DEF m2, RecountedTo

(* An allocation that is freed takes its block with it and leaves the      *)
(* others as they are.                                                     *)
LEMMA FreedOne ==
  ASSUME NEW m, NEW D, MemoryOK(m, D), NEW d \in D
  PROVE  LET m2 == free_allocation(m, d.data, d.type)
         IN  /\ MemoryOK(m2, D \ {d})
             /\ KeepsOthers(m, m2, D \ {d}) /\ KeepsSlots(m, m2, D \ {d})
             /\ KeepsBut(m, m2, Low(d), High(d))
<1>. DEFINE m2 == free_allocation(m, d.data, d.type)
<1>1. AllocOK(d) /\ Contents(m, d) /\ m \in Memory /\ D \in SUBSET Alloc
  BY DEF MemoryOK
<1>2. /\ Low(d) \in Nat /\ High(d) \in Nat /\ Low(d) <= High(d) /\ Low(d) >= 5 * PtrWidth
      /\ BlockOf(d) = Block(Low(d), High(d) - Low(d), Storage(d.type))
      /\ d.data \in Nat /\ d.type \in Types /\ d.n \in Nat
  BY <1>1, Parts, Widths
<1>3. BlockOf(d) \in m.blocks
  BY DEF MemoryOK
<1>4. m2 = GiveBack(m, BlockOf(d))
  BY <1>1 DEF free_allocation, roc_dealloc, BlockOf, BlockAround, Block, Start, Storage, SizeAddr,
              Contents
<1>5. m2 = Write([m EXCEPT !.blocks = @ \ {BlockOf(d)}], Low(d), High(d) - Low(d), Garbage)
  <2>1. BlockOf(d).base = Low(d) /\ BlockOf(d).size = High(d) - Low(d)
    BY <1>2 DEF Block
  <2>. QED
    BY <1>3, <1>4, <2>1 DEF GiveBack
<1>. DEFINE m1 == [m EXCEPT !.blocks = @ \ {BlockOf(d)}]
<1>6. m1 \in Memory /\ m1.blocks = m.blocks \ {BlockOf(d)} /\ m1.misused = m.misused /\ m1.word = m.word
  BY <1>1 DEF Memory
<1>. HIDE DEF m1, m2
<1>7. /\ m2 \in Memory /\ m2.blocks = m.blocks \ {BlockOf(d)} /\ m2.misused = m.misused
      /\ KeepsBut(m1, m2, Low(d), High(d))
  <2>1. High(d) - Low(d) \in Nat /\ Low(d) + (High(d) - Low(d)) = High(d) /\ Garbage \in Nat
    BY <1>2 DEF Garbage
  <2>2. m2 = Write(m1, Low(d), High(d) - Low(d), Garbage)
    BY <1>5 DEF m1
  <2>. HIDE DEF m1
  <2>3. KeepsBut(m1, m2, Low(d), Low(d) + (High(d) - Low(d)))
    BY <1>2, <1>6, <2>1, <2>2, WriteKeepsBut
  <2>4. m2 \in Memory /\ m2.blocks = m1.blocks /\ m2.misused = m1.misused
    <3>1. m2 \in Memory
      BY <1>2, <1>6, <2>1, <2>2, WriteKeepsMemory
    <3>. QED
      BY <2>2, <3>1 DEF Write
  <2>. QED
    BY <1>6, <2>1, <2>3, <2>4
<1>8. KeepsBut(m, m2, Low(d), High(d))
  BY <1>6, <1>7 DEF KeepsBut, Word
<1>9. ASSUME NEW e \in D \ {d}
      PROVE  /\ AllocOK(e) /\ Contents(m2, e) /\ Refcount(m2, e.data) = Refcount(m, e.data)
             /\ \A s \in Slots(e) : LoadStr(m2, s) = LoadStr(m, s)
             /\ BlockOf(e) # BlockOf(d)
  BY <1>1, <1>8, OthersKept, DataDiffer DEF MemoryOK
<1>10. MemoryOK(m2, D \ {d})
  <2>1. /\ Refcount(m2, StaticPtr) = 0
        /\ TextIn(m2, StaticPtr, StaticPtr + StaticLen)
    BY <1>2, <1>8, StaticKept DEF MemoryOK
  <2>2. m2.blocks = {BlockOf(e) : e \in D \ {d}}
    BY <1>7, <1>9 DEF MemoryOK
  <2>. QED
    BY <1>7, <1>9, <2>1, <2>2 DEF MemoryOK
<1>11. KeepsOthers(m, m2, D \ {d}) /\ KeepsSlots(m, m2, D \ {d})
  BY <1>9 DEF KeepsOthers, KeepsSlots, AllSlots
<1>. QED
  BY <1>8, <1>10, <1>11 DEF m2

(* A new allocation joins the others without touching them.                *)
LEMMA AddedOne ==
  ASSUME NEW m, NEW D, MemoryOK(m, D), NEW e, AllocOK(e), NEW m2 \in Memory,
         Low(e) \in Fits(m, High(e) - Low(e), Storage(e.type)),
         m2.blocks = m.blocks \cup {BlockOf(e)}, m2.misused = m.misused,
         Contents(m2, e), KeepsBut(m, m2, Low(e), High(e))
  PROVE  /\ MemoryOK(m2, D \cup {e}) /\ e \notin D
         /\ KeepsOthers(m, m2, D) /\ KeepsSlots(m, m2, D)
         /\ \A d \in D : Apart(d, e)
<1>1. D \in SUBSET Alloc /\ e \in Alloc
  BY DEF MemoryOK, AllocOK
<1>2. Low(e) \in Nat /\ High(e) \in Nat /\ Low(e) < High(e) /\ Low(e) >= 5 * PtrWidth
  BY Parts, Widths
<1>3. ASSUME NEW d \in D PROVE Apart(d, e) /\ Apart(e, d)
  <2>1. AllocOK(d) /\ BlockOf(d) \in m.blocks
    BY DEF MemoryOK
  <2>2. /\ Low(d) \in Nat /\ High(d) \in Nat
        /\ BlockOf(d).base = Low(d) /\ BlockOf(d).size = High(d) - Low(d)
    BY <2>1, Parts DEF Block
  <2>3. Low(e) + (High(e) - Low(e)) <= Low(d) \/ Low(d) + (High(d) - Low(d)) <= Low(e)
    BY <2>1, <2>2 DEF Fits
  <2>. QED
    BY <1>2, <2>2, <2>3 DEF Apart
<1>4. ASSUME NEW d \in D
      PROVE  /\ AllocOK(d) /\ Contents(m2, d) /\ Refcount(m2, d.data) = Refcount(m, d.data)
             /\ \A s \in Slots(d) : LoadStr(m2, s) = LoadStr(m, s)
             /\ d # e
  BY <1>3, OthersKept, DataDiffer DEF MemoryOK
<1>5. MemoryOK(m2, D \cup {e})
  <2>1. /\ Refcount(m2, StaticPtr) = 0
        /\ TextIn(m2, StaticPtr, StaticPtr + StaticLen)
    BY <1>2, StaticKept DEF MemoryOK
  <2>2. m2.blocks = {BlockOf(d) : d \in D \cup {e}}
    BY DEF MemoryOK
  <2>3. \A d, f \in D \cup {e} : d # f => Apart(d, f)
    BY <1>3 DEF MemoryOK
  <2>4. \A d \in D \cup {e} : AllocOK(d) /\ Contents(m2, d)
    BY <1>4
  <2>5. ~m2.misused
    BY DEF MemoryOK
  <2>. QED
    BY <1>1, <2>1, <2>2, <2>3, <2>4, <2>5 DEF MemoryOK
<1>. QED
  BY <1>3, <1>4, <1>5 DEF KeepsOthers, KeepsSlots, AllSlots

-----------------------------------------------------------------------------
(* What a value refers to.                                                 *)

(* What is read from a string's three words is a string.                   *)
LEMMA LoadIsStr ==
  ASSUME NEW m \in Memory, NEW a
  PROVE  LoadStr(m, a) \in Val /\ LoadStr(m, a).type = "str"
<1>1. \A b : Word(m, b) \in Nat
  BY DEF Word, Memory, Garbage
<1>. QED
  BY <1>1 DEF LoadStr, Value, Val, Types

Allocs(D) == \A d \in D : AllocOK(d) /\ \A e \in D : d # e => Apart(d, e)

LEMMA MemoryAllocs ==
  ASSUME NEW m, NEW D, MemoryOK(m, D)
  PROVE  Allocs(D) /\ D \in SUBSET Alloc /\ m \in Memory
BY DEF MemoryOK, Allocs

(* The glue recognises a value that refers to an allocation as one, and    *)
(* finds the allocation's payload from it.                                 *)
LEMMA PointerIsAllocated ==
  ASSUME NEW v \in Val, NEW d, AllocOK(d) \/ d = StaticAlloc, PointsTo(v, d)
  PROVE  Allocated(v) /\ RefersTo(v, d.data)
<1>1. d.data \in Nat /\ d.data # 0 /\ d.type \in Types
  BY StaticApart, Parts, StrSizes, Widths DEF StaticAlloc, Types
<1>2. v.type # "none" /\ v.len < SmallBit
  BY <1>1 DEF PointsTo, Types, ListTypes, BoxTypes
<1>. QED
  BY <1>1, <1>2 DEF PointsTo, Allocated, RefersTo, is_small_str, Val, SmallBit

(* Of a value with nothing, little or no element in it, it recognises that *)
(* there is no allocation.                                                 *)
LEMMA NotAllocated ==
  ASSUME NEW v \in Val, v = Nothing \/ Small(v) \/ Empty(v)
  PROVE  ~Allocated(v)
<1>1. CASE v = Nothing
  BY <1>1 DEF Allocated, Nothing, Value
<1>2. CASE Small(v)
  BY <1>2, StrSizes DEF Allocated, Small, is_small_str, SmallBit
<1>3. CASE Empty(v)
  BY <1>3 DEF Allocated, Empty, get_allocation_ptr, is_seamless_slice
<1>. QED
  BY <1>1, <1>2, <1>3

(* A value that refers to a payload by the glue's reckoning points to that *)
(* allocation.                                                             *)
LEMMA Target ==
  ASSUME NEW D, Allocs(D), NEW v, ValueOK(v, D), NEW d \in D, RefersTo(v, d.data)
  PROVE  PointsTo(v, d)
<1>1. v \in Val /\ Allocated(v)
  BY DEF ValueOK, RefersTo
<1>2. PICK e \in D \cup {StaticAlloc} : PointsTo(v, e)
  BY <1>1, NotAllocated DEF ValueOK
<1>3. e.data = d.data
  BY <1>2 DEF PointsTo, RefersTo
<1>4. e # StaticAlloc
  BY <1>3, StaticApart DEF Allocs, StaticAlloc
<1>. QED
  BY <1>2, <1>3, <1>4, DataDiffer DEF Allocs

LEMMA AllocatedTarget ==
  ASSUME NEW D, NEW v, ValueOK(v, D), Allocated(v)
  PROVE  \E d \in D \cup {StaticAlloc} : PointsTo(v, d) /\ RefersTo(v, d.data)
BY NotAllocated DEF ValueOK, RefersTo, PointsTo

(* A value is not affected by the end of an allocation it does not refer   *)
(* to.                                                                     *)
LEMMA ValueKept ==
  ASSUME NEW D, NEW v, ValueOK(v, D), NEW d, AllocOK(d), ~RefersTo(v, d.data)
  PROVE  ValueOK(v, D \ {d})
<1>1. v \in Val
  BY DEF ValueOK
<1>2. ~PointsTo(v, d)
  BY <1>1, PointerIsAllocated
<1>. QED
  BY <1>2 DEF ValueOK

LEMMA ValueMore ==
  ASSUME NEW D, NEW v, ValueOK(v, D), NEW E, D \subseteq E
  PROVE  ValueOK(v, E)
BY DEF ValueOK

LEMMA NothingOK == \A D : ValueOK(Nothing, D)
BY DEF ValueOK, Nothing, Value, Val

-----------------------------------------------------------------------------
(* Counting references.                                                    *)

LEMMA FiniteSlots ==
  ASSUME NEW D, Allocs(D), NEW S, S \subseteq AllSlots(D)
  PROVE  IsFiniteSet(S)
<1>1. \A d \in D : Slots(d) \subseteq 0 .. MaxAddr
  BY SlotWords, Parts, StrSizes, Widths DEF Allocs
<1>2. S \subseteq 0 .. MaxAddr
  BY <1>1 DEF AllSlots
<1>3. IsFiniteSet(0 .. MaxAddr)
  BY FS_Interval, Widths
<1>. QED
  BY <1>2, <1>3, FS_Subset

(* References to an allocation can be counted.                             *)
LEMMA CountTypes ==
  ASSUME NEW m, NEW loc, NEW S, IsFiniteSet(S), NEW a
  PROVE  /\ IsFiniteSet(LocalRefs(loc, a)) /\ Cardinality(LocalRefs(loc, a)) \in Nat
         /\ IsFiniteSet(SlotRefs(m, S, a)) /\ Cardinality(SlotRefs(m, S, a)) \in Nat
         /\ Count(m, loc, S, a) \in Nat
         /\ Count(m, loc, S, a) = 0 => LocalRefs(loc, a) = {} /\ SlotRefs(m, S, a) = {}
<1>1. LocalRefs(loc, a) \subseteq Locals /\ SlotRefs(m, S, a) \subseteq S
  BY DEF LocalRefs, SlotRefs
<1>2. IsFiniteSet(LocalRefs(loc, a)) /\ IsFiniteSet(SlotRefs(m, S, a))
  BY <1>1, FS_Subset, ConstantsAssumption DEF ConstantsAssumption
<1>3. Cardinality(LocalRefs(loc, a)) \in Nat /\ Cardinality(SlotRefs(m, S, a)) \in Nat
  BY <1>2, FS_CardinalityType
<1>. QED
  BY <1>2, <1>3, FS_EmptySet DEF Count

One(v, a) == IF RefersTo(v, a) THEN 1 ELSE 0

With(loc, l, v) == [loc EXCEPT ![l] = v]

(* A local variable that gets a value adds a reference to what the value   *)
(* refers to, and to nothing else.                                         *)
LEMMA LocalSet ==
  ASSUME NEW loc \in [Locals -> Val], NEW l \in Locals, NEW v, NEW a, ~RefersTo(loc[l], a)
  PROVE  Cardinality(LocalRefs(With(loc, l, v), a))
         = Cardinality(LocalRefs(loc, a)) + One(v, a)
<1>. DEFINE R == LocalRefs(loc, a)
<1>1. IsFiniteSet(R) /\ l \notin R
  BY CountTypes, FS_EmptySet DEF LocalRefs
<1>2. LocalRefs(With(loc, l, v), a) = IF RefersTo(v, a) THEN R \cup {l} ELSE R
  BY DEF LocalRefs, With
<1>. QED
  BY <1>1, <1>2, FS_AddElement, FS_CardinalityType DEF One

LEMMA LocalUnset ==
  ASSUME NEW loc \in [Locals -> Val], NEW l \in Locals, NEW a
  PROVE  Cardinality(LocalRefs([loc EXCEPT ![l] = Nothing], a))
         = Cardinality(LocalRefs(loc, a)) - One(loc[l], a)
<1>. DEFINE R == LocalRefs(loc, a)
<1>1. IsFiniteSet(R) /\ Cardinality(R) \in Nat
  BY CountTypes, FS_EmptySet
<1>2. ~RefersTo(Nothing, a)
  BY DEF RefersTo, Allocated, Nothing, Value
<1>3. LocalRefs([loc EXCEPT ![l] = Nothing], a) = R \ {l}
  BY <1>2 DEF LocalRefs
<1>4. (l \in R) <=> RefersTo(loc[l], a)
  BY DEF LocalRefs
<1>. HIDE DEF R
<1>5. Cardinality(R \ {l}) = IF l \in R THEN Cardinality(R) - 1 ELSE Cardinality(R)
  BY <1>1, FS_RemoveElement
<1>6. CASE RefersTo(loc[l], a)
  <2>1. l \in R /\ One(loc[l], a) = 1
    BY <1>4, <1>6 DEF One
  <2>2. Cardinality(R \ {l}) = Cardinality(R) - 1
    BY <1>5, <2>1
  <2>. QED
    BY <1>3, <2>1, <2>2 DEF R
<1>7. CASE ~RefersTo(loc[l], a)
  <2>1. l \notin R /\ One(loc[l], a) = 0
    BY <1>4, <1>7 DEF One
  <2>2. Cardinality(R \ {l}) = Cardinality(R) - 0
    BY <1>1, <1>5, <2>1
  <2>. QED
    BY <1>3, <2>1, <2>2 DEF R
<1>. QED
  BY <1>6, <1>7

(* A string that is released takes one reference with it.                  *)
LEMMA SlotUnset ==
  ASSUME NEW m, NEW S, IsFiniteSet(S), NEW s \in S, NEW a
  PROVE  Cardinality(SlotRefs(m, S \ {s}, a))
         = Cardinality(SlotRefs(m, S, a)) - One(LoadStr(m, s), a)
<1>. DEFINE R == SlotRefs(m, S, a)
<1>1. IsFiniteSet(R) /\ Cardinality(R) \in Nat
  BY CountTypes
<1>2. SlotRefs(m, S \ {s}, a) = R \ {s} /\ ((s \in R) <=> RefersTo(LoadStr(m, s), a))
  BY DEF SlotRefs
<1>. HIDE DEF R
<1>3. Cardinality(R \ {s}) = IF s \in R THEN Cardinality(R) - 1 ELSE Cardinality(R)
  BY <1>1, FS_RemoveElement
<1>4. CASE RefersTo(LoadStr(m, s), a)
  <2>1. s \in R /\ One(LoadStr(m, s), a) = 1
    BY <1>2, <1>4 DEF One
  <2>2. Cardinality(R \ {s}) = Cardinality(R) - 1
    BY <1>3, <2>1
  <2>. QED
    BY <1>2, <2>1, <2>2 DEF R
<1>5. CASE ~RefersTo(LoadStr(m, s), a)
  <2>1. s \notin R /\ One(LoadStr(m, s), a) = 0
    BY <1>2, <1>5 DEF One
  <2>2. Cardinality(R \ {s}) = Cardinality(R) - 0
    BY <1>1, <1>3, <2>1
  <2>. QED
    BY <1>2, <2>1, <2>2 DEF R
<1>. QED
  BY <1>4, <1>5

(* A string that is stored adds one.                                       *)
LEMMA SlotSet ==
  ASSUME NEW m, NEW S, IsFiniteSet(S), NEW T, S \cap T = {}, NEW t \in T, NEW a,
         \A u \in T \ {t} : ~RefersTo(LoadStr(m, u), a)
  PROVE  Cardinality(SlotRefs(m, S \cup T, a))
         = Cardinality(SlotRefs(m, S, a)) + One(LoadStr(m, t), a)
<1>. DEFINE R == SlotRefs(m, S, a)
<1>1. IsFiniteSet(R) /\ Cardinality(R) \in Nat /\ t \notin R
  BY CountTypes DEF SlotRefs
<1>2. SlotRefs(m, S \cup T, a) = IF RefersTo(LoadStr(m, t), a) THEN R \cup {t} ELSE R
  BY DEF SlotRefs
<1>. HIDE DEF R
<1>3. Cardinality(R \cup {t}) = Cardinality(R) + 1
  BY <1>1, FS_AddElement
<1>. QED
  BY <1>1, <1>2, <1>3 DEF R, One

LEMMA SameSlotRefs ==
  ASSUME NEW m, NEW m2, NEW S, \A s \in S : LoadStr(m2, s) = LoadStr(m, s), NEW a
  PROVE  SlotRefs(m2, S, a) = SlotRefs(m, S, a)
BY DEF SlotRefs

-----------------------------------------------------------------------------
(* References that go.                                                     *)

LEMMA RefcountType ==
  ASSUME NEW m \in Memory, NEW a PROVE Refcount(m, a) \in Nat
BY DEF Refcount, Word, Memory, Garbage

Fewer(loc2, S2, loc, S) ==
  /\ loc2 \in [Locals -> Val] /\ \A l \in Locals : loc2[l] \in {loc[l], Nothing}
  /\ S2 \subseteq S

LEMMA FewerValues ==
  ASSUME NEW m, NEW m2, NEW loc, NEW loc2, NEW D, NEW S, NEW S2, ValuesOK(m, loc, D, S),
         Fewer(loc2, S2, loc, S), \A s \in S2 : LoadStr(m2, s) = LoadStr(m, s)
  PROVE  ValuesOK(m2, loc2, D, S2)
BY NothingOK DEF ValuesOK, Fewer

LEMMA ValuesWithout ==
  ASSUME NEW m, NEW loc, NEW D, NEW S, ValuesOK(m, loc, D, S), Allocs(D),
         NEW d \in D, Count(m, loc, S, d.data) = 0, S \cap Slots(d) = {}
  PROVE  ValuesOK(m, loc, D \ {d}, S)
<1>1. AllocOK(d) /\ IsFiniteSet(S)
  BY FiniteSlots DEF Allocs, ValuesOK
<1>2. LocalRefs(loc, d.data) = {} /\ SlotRefs(m, S, d.data) = {}
  BY <1>1, CountTypes
<1>3. \A l \in Locals : ValueOK(loc[l], D \ {d})
  BY <1>1, <1>2, ValueKept DEF ValuesOK, LocalRefs
<1>4. \A s \in S : ValueOK(LoadStr(m, s), D \ {d})
  BY <1>1, <1>2, ValueKept DEF ValuesOK, SlotRefs
<1>5. S \subseteq AllSlots(D \ {d})
  BY DEF ValuesOK, AllSlots
<1>. QED
  BY <1>3, <1>4, <1>5 DEF ValuesOK

LEMMA SameCount ==
  ASSUME NEW m, NEW m2, NEW loc, NEW S, \A s \in S : LoadStr(m2, s) = LoadStr(m, s)
  PROVE  \A a : Count(m2, loc, S, a) = Count(m, loc, S, a)
BY SameSlotRefs DEF Count

(* One of the references to d goes.                                        *)
OneFewer(m, loc2, S2, loc, S, D, d) ==
  \A e \in D : Count(m, loc2, S2, e.data) = Count(m, loc, S, e.data) - (IF e = d THEN 1 ELSE 0)

(* What is there afterwards.                                               *)
GoodWithout(m, m2, loc, D, S, X, d) ==
  \E D2 \in {D, D \ {d}} :
    /\ Good(m2, loc, D2, S, X) /\ KeepsBut(m, m2, Low(d), High(d))
    /\ Refcount(m, d.data) > 1 => D2 = D

(* A reference to d goes: d is counted down, and freed with the last one.  *)
LEMMA CountedDown ==
  ASSUME NEW m, NEW loc, NEW D, NEW S, NEW X, Good(m, loc, D, S, X),
         NEW d \in D \ X, NEW loc2, NEW S2, Fewer(loc2, S2, loc, S),
         Refcount(m, d.data) > 1 \/ Slots(d) \cap S2 = {}, OneFewer(m, loc2, S2, loc, S, D, d)
  PROVE  GoodWithout(m, decref_at(m, d.data, d.type), loc2, D, S2, X, d)
<1>. DEFINE prev == Refcount(m, d.data)
            less == WriteWord(m, d.data - PtrWidth, prev - 1)
            m2   == decref_at(m, d.data, d.type)
<1>. USE DEF OneFewer, GoodWithout
<1>1. MemoryOK(m, D) /\ Allocs(D) /\ m \in Memory /\ AllocOK(d)
  BY MemoryAllocs DEF Good, MemoryOK
<1>2. prev \in Nat /\ prev > 0 /\ prev = Count(m, loc, S, d.data)
  BY <1>1, RefcountType DEF Good, CountsOK
<1>3. Count(m, loc2, S2, d.data) = prev - 1
  BY <1>2
<1>4. /\ MemoryOK(less, D) /\ Refcount(less, d.data) = prev - 1
      /\ KeepsOthers(m, less, D \ {d}) /\ KeepsSlots(m, less, D)
      /\ KeepsBut(m, less, Low(d), High(d))
  <2>1. prev - 1 \in Nat
    BY <1>2
  <2>2. RecountedTo(m, less, D, d, prev - 1)
    BY <1>1, <2>1, Recounted
  <2>. QED
    BY <2>2 DEF RecountedTo
<1>5. S2 \subseteq S /\ S \subseteq AllSlots(D)
  BY DEF Fewer, Good, ValuesOK
<1>6. \A s \in S2 : LoadStr(less, s) = LoadStr(m, s)
  BY <1>4, <1>5 DEF KeepsSlots
<1>7. ValuesOK(less, loc2, D, S2)
  BY <1>6, FewerValues DEF Good
<1>8. \A e \in D \ {d} : /\ Refcount(less, e.data) = Refcount(m, e.data)
                         /\ Count(less, loc2, S2, e.data) = Count(m, loc, S, e.data)
  <2>1. \A e \in D \ {d} : Count(m, loc, S, e.data) \in Nat
    BY <1>1, <1>5, FiniteSlots, CountTypes
  <2>. HIDE DEF less
  <2>. QED
    BY <1>4, <1>6, <2>1, SameCount DEF KeepsOthers
<1>9. Count(less, loc2, S2, d.data) = prev - 1
  BY <1>3, <1>6, SameCount
<1>10. CASE prev > 1
  <2>1. m2 = less
    BY <1>2, <1>10 DEF decref_at
  <2>2. CountsOK(less, loc2, D, S2, X)
    BY <1>2, <1>4, <1>8, <1>9, <1>10 DEF CountsOK, Good
  <2>. QED
    BY <1>4, <1>7, <2>1, <2>2 DEF Good
<1>11. CASE prev = 1
  <2>. DEFINE freed == free_allocation(less, d.data, d.type)
  <2>1. m2 = freed
    BY <1>11 DEF decref_at
  <2>2. ValuesOK(less, loc2, D \ {d}, S2)
    BY <1>1, <1>7, <1>9, <1>11, ValuesWithout
  <2>3. /\ MemoryOK(freed, D \ {d})
        /\ KeepsOthers(less, freed, D \ {d}) /\ KeepsSlots(less, freed, D \ {d})
        /\ KeepsBut(less, freed, Low(d), High(d))
    BY <1>4, FreedOne
  <2>. HIDE DEF less, freed
  <2>4. \A s \in S2 : LoadStr(freed, s) = LoadStr(less, s)
    BY <2>2, <2>3 DEF KeepsSlots, ValuesOK
  <2>5. ValuesOK(freed, loc2, D \ {d}, S2)
    BY <2>2, <2>4 DEF ValuesOK
  <2>6. CountsOK(freed, loc2, D \ {d}, S2, X)
    BY <1>8, <2>3, <2>4, SameCount DEF CountsOK, Good, KeepsOthers
  <2>7. KeepsBut(m, freed, Low(d), High(d))
    BY <1>4, <2>3 DEF KeepsBut
  <2>. QED
    BY <1>11, <2>1, <2>3, <2>5, <2>6, <2>7 DEF Good
<1>. QED
  BY <1>2, <1>10, <1>11

(* The last reference to d goes, while d is still to be emptied.           *)
LEMMA LastReference ==
  ASSUME NEW m, NEW loc, NEW D, NEW S, Good(m, loc, D, S, {}),
         NEW d \in D, Refcount(m, d.data) = 1, NEW loc2, Fewer(loc2, S, loc, S),
         OneFewer(m, loc2, S, loc, S, D, d)
  PROVE  Good(m, loc2, D, S, {d})
<1>1. Allocs(D) /\ S \subseteq AllSlots(D)
  BY MemoryAllocs DEF Good, ValuesOK
<1>2. \A e \in D : Count(m, loc, S, e.data) \in Nat
  BY <1>1, FiniteSlots, CountTypes
<1>3. CountsOK(m, loc2, D, S, {d})
  BY <1>2 DEF CountsOK, Good, OneFewer
<1>4. ValuesOK(m, loc2, D, S)
  BY FewerValues DEF Good
<1>. QED
  BY <1>3, <1>4 DEF Good

(* The count of an allocation that is being freed is of no more interest.  *)
LEMMA Uncounted ==
  ASSUME NEW m, NEW loc, NEW D, NEW S, NEW d \in D, Good(m, loc, D, S, {d}), NEW c \in Nat
  PROVE  Good(WriteWord(m, d.data - PtrWidth, c), loc, D, S, {d})
<1>. DEFINE m2 == WriteWord(m, d.data - PtrWidth, c)
<1>1. MemoryOK(m2, D) /\ KeepsOthers(m, m2, D \ {d}) /\ KeepsSlots(m, m2, D)
  BY Recounted DEF Good, RecountedTo
<1>. HIDE DEF m2
<1>2. \A s \in S : LoadStr(m2, s) = LoadStr(m, s)
  BY <1>1 DEF KeepsSlots, Good, ValuesOK
<1>3. ValuesOK(m2, loc, D, S)
  BY <1>2 DEF ValuesOK, Good
<1>4. CountsOK(m2, loc, D, S, {d})
  BY <1>1, <1>2, SameCount DEF CountsOK, Good, KeepsOthers
<1>. QED
  BY <1>1, <1>3, <1>4 DEF Good, m2

(* An allocation that is being freed, with no string left in it, is freed. *)
LEMMA EmptiedFreed ==
  ASSUME NEW m, NEW loc, NEW D, NEW S, NEW d \in D, Good(m, loc, D, S, {d}),
         S \cap Slots(d) = {}
  PROVE  Good(free_allocation(m, d.data, d.type), loc, D \ {d}, S, {})
<1>. DEFINE m2 == free_allocation(m, d.data, d.type)
<1>1. MemoryOK(m2, D \ {d}) /\ KeepsOthers(m, m2, D \ {d}) /\ KeepsSlots(m, m2, D \ {d})
  BY FreedOne DEF Good
<1>. HIDE DEF m2
<1>2. ValuesOK(m, loc, D \ {d}, S)
  BY MemoryAllocs, ValuesWithout DEF Good, CountsOK
<1>3. \A s \in S : LoadStr(m2, s) = LoadStr(m, s)
  BY <1>1, <1>2 DEF KeepsSlots, ValuesOK
<1>4. ValuesOK(m2, loc, D \ {d}, S)
  BY <1>2, <1>3 DEF ValuesOK
<1>5. CountsOK(m2, loc, D \ {d}, S, {})
  BY <1>1, <1>3, SameCount DEF CountsOK, Good, KeepsOthers
<1>. QED
  BY <1>1, <1>4, <1>5 DEF Good, m2

KeepsWithin(m, m2, d) ==
  \A a \in Nat : a % PtrWidth = 0 /\ Low(d) <= a /\ a < High(d) => Word(m2, a) = Word(m, a)

(* What goes refers to nothing that is counted.                            *)
LEMMA NothingCounted ==
  ASSUME NEW m, NEW loc, NEW D, NEW S, NEW X, Good(m, loc, D, S, X),
         NEW loc2, NEW S2, Fewer(loc2, S2, loc, S),
         \A e \in D : Count(m, loc2, S2, e.data) = Count(m, loc, S, e.data)
  PROVE  Good(m, loc2, D, S2, X)
<1>1. ValuesOK(m, loc2, D, S2)
  BY FewerValues DEF Good
<1>2. CountsOK(m, loc2, D, S2, X)
  BY DEF CountsOK, Good
<1>. QED
  BY <1>1, <1>2 DEF Good

(* The count of static data is 0, and stays so.                            *)
LEMMA StaticUncounted ==
  ASSUME NEW m, NEW D, MemoryOK(m, D), NEW type, NEW n
  PROVE  decref_at(m, StaticPtr, type) = m /\ incref_at(m, StaticPtr, n) = m
BY DEF MemoryOK, decref_at, incref_at

(* The string at s is released from e.                                     *)
SlotGone(m, m2, loc, D, S, s, e) ==
  \E D2 \in SUBSET D : /\ e \in D2 /\ AllSlots(D2) = AllSlots(D)
                       /\ Good(m2, loc, D2, S \ {s}, {e}) /\ KeepsWithin(m, m2, e)

(* One string of an allocation that is being freed is released: the        *)
(* reference goes, and with it, if it was the last, the allocation of the  *)
(* string.                                                                 *)
LEMMA SlotReleased ==
  ASSUME NEW m, NEW loc, NEW D, NEW S, NEW e \in D, Good(m, loc, D, S, {e}),
         NEW s \in S, s \in Slots(e)
  PROVE  SlotGone(m, decref_str(m, LoadStr(m, s)), loc, D, S, s, e)
<1>. DEFINE v == LoadStr(m, s)  m2 == decref_str(m, v)
<1>. USE DEF SlotGone
<1>1. /\ Allocs(D) /\ AllocOK(e) /\ S \subseteq AllSlots(D) /\ IsFiniteSet(S) /\ m \in Memory
      /\ loc \in [Locals -> Val] /\ MemoryOK(m, D)
  BY MemoryAllocs, FiniteSlots DEF Good, ValuesOK, Allocs
<1>2. ValueOK(v, D) /\ v.type = "str"
  BY DEF Good, ValuesOK
<1>3. Fewer(loc, S \ {s}, loc, S)
  BY <1>1 DEF Fewer
<1>4. \A a : /\ Count(m, loc, S \ {s}, a) = Count(m, loc, S, a) - One(v, a)
             /\ Count(m, loc, S, a) \in Nat
  <2>. TAKE a
  <2>1. /\ Cardinality(LocalRefs(loc, a)) \in Nat /\ Cardinality(SlotRefs(m, S, a)) \in Nat
        /\ Count(m, loc, S, a) \in Nat
    BY <1>1, CountTypes
  <2>2. Cardinality(SlotRefs(m, S \ {s}, a)) = Cardinality(SlotRefs(m, S, a)) - One(v, a)
    BY <1>1, SlotUnset
  <2>3. One(v, a) \in Nat
    BY DEF One
  <2>. HIDE DEF v
  <2>. QED
    BY <2>1, <2>2, <2>3 DEF Count
<1>. HIDE DEF v
<1>5. CASE (\A d \in D : ~RefersTo(v, d.data)) /\ m2 = m
  <2>0. \A d \in D : Count(m, loc, S \ {s}, d.data) = Count(m, loc, S, d.data)
    <3>. TAKE d \in D
    <3>1. One(v, d.data) = 0
      BY <1>5 DEF One
    <3>2. \A i \in Nat : i - 0 = i
      OBVIOUS
    <3>. QED
      BY <1>4, <3>1, <3>2
  <2>1. Good(m, loc, D, S \ {s}, {e})
    BY <1>3, <2>0, NothingCounted
  <2>. QED
    BY <1>5, <2>1 DEF KeepsWithin, v
<1>6. CASE ~Allocated(v)
  BY <1>5, <1>6 DEF RefersTo, decref_str
<1>7. CASE Allocated(v)
  <2>1. PICK d \in D \cup {StaticAlloc} : PointsTo(v, d) /\ RefersTo(v, d.data)
    BY <1>2, <1>7, AllocatedTarget
  <2>2. m2 = decref_at(m, d.data, "str")
    BY <1>7, <2>1 DEF decref_str, RefersTo
  <2>3. CASE d = StaticAlloc
    <3>1. d.data = StaticPtr
      BY <2>3 DEF StaticAlloc
    <3>2. m2 = m
      BY <1>1, <2>2, <3>1, StaticUncounted
    <3>3. \A f \in D : ~RefersTo(v, f.data)
      BY <1>1, <2>1, <3>1, StaticApart DEF RefersTo, Allocs
    <3>. QED
      BY <1>5, <3>2, <3>3
  <2>4. CASE d \in D
    <3>1. d.type = "str" /\ AllocOK(d)
      BY <1>1, <1>2, <2>1, <2>4 DEF PointsTo, Allocs
    <3>2. Slots(d) = {}
      BY <3>1, Parts DEF AllocOK, Plain, Slots
    <3>3. d # e
      BY <3>2
    <3>4. \A f \in D : One(v, f.data) = IF f = d THEN 1 ELSE 0
      BY <1>1, <2>1, <2>4, DataDiffer DEF RefersTo, Allocs, One
    <3>5. PICK D2 \in {D, D \ {d}} : Good(m2, loc, D2, S \ {s}, {e}) /\ KeepsBut(m, m2, Low(d), High(d))
      <4>. HIDE DEF m2
      <4>1. d \in D \ {e} /\ decref_at(m, d.data, d.type) = m2 /\ Slots(d) \cap (S \ {s}) = {}
        BY <2>2, <2>4, <3>1, <3>2, <3>3
      <4>2. OneFewer(m, loc, S \ {s}, loc, S, D, d)
        BY <1>4, <3>4 DEF OneFewer
      <4>3. GoodWithout(m, decref_at(m, d.data, d.type), loc, D, S \ {s}, {e}, d)
        BY <1>3, <4>1, <4>2, CountedDown
      <4>. QED
        BY <4>1, <4>3 DEF GoodWithout
    <3>6. KeepsWithin(m, m2, e)
      BY <1>1, <2>4, <3>1, <3>3, <3>5, Outside DEF KeepsWithin, KeepsBut, Allocs
    <3>7. AllSlots(D2) = AllSlots(D)
      BY <3>2 DEF AllSlots
    <3>. QED
      BY <3>3, <3>5, <3>6, <3>7 DEF v
  <2>. QED
    BY <2>1, <2>3, <2>4
<1>. QED
  BY <1>6, <1>7

-----------------------------------------------------------------------------
(* The strings of an allocation go.                                        *)

(* Induction over a set: the library's theorem takes an operator, which    *)
(* the provers cannot instantiate.                                         *)
LEMMA SetInduction ==
  ASSUME NEW S, 0 \in S, \A n \in Nat : n \in S => n + 1 \in S
  PROVE  \A n \in Nat : n \in S
<1>. SUFFICES ASSUME NEW n \in Nat, n \notin S PROVE FALSE
  OBVIOUS
<1>. DEFINE T == {i \in Nat : i \notin S}
<1>1. PICK x \in T : \A y \in T : x <= y
  <2>1. T \in SUBSET Nat /\ T # {}
    OBVIOUS
  <2>. HIDE DEF T
  <2>. QED
    BY <2>1, LeastOf
<1>2. x # 0 /\ x - 1 \in Nat /\ x - 1 \notin T
  BY <1>1
<1>. QED
  BY <1>2

(* release_strings, as far as the first n strings.                         *)
Releases(f, m, strings, n) ==
  f = [i \in 0 .. n |-> IF i = 0 THEN m ELSE decref_str(f[i - 1], strings[i])]

(* The function by which release_strings is defined exists: without that   *)
(* nothing is known of its values.                                         *)
LEMMA ReleasesExists ==
  ASSUME NEW m, NEW strings PROVE \A n \in Nat : \E f : Releases(f, m, strings, n)
<1>. DEFINE S == {n \in Nat : \E f : Releases(f, m, strings, n)}
<1>1. 0 \in S
  <2>. DEFINE f == [i \in 0 .. 0 |-> m]
  <2>1. Releases(f, m, strings, 0)
    BY DEF Releases
  <2>. QED
    BY <2>1
<1>2. ASSUME NEW n \in Nat, n \in S PROVE n + 1 \in S
  <2>1. PICK f : Releases(f, m, strings, n)
    BY <1>2
  <2>. DEFINE g == [i \in 0 .. n + 1 |->
                      IF i = n + 1 THEN decref_str(f[n], strings[i]) ELSE f[i]]
  <2>2. \A i \in 0 .. n : g[i] = f[i] /\ f[i] = IF i = 0 THEN m ELSE decref_str(f[i - 1], strings[i])
    BY <2>1 DEF Releases
  <2>3. \A i \in 0 .. n + 1 : g[i] = IF i = 0 THEN m ELSE decref_str(g[i - 1], strings[i])
    <3>. TAKE i \in 0 .. n + 1
    <3>1. CASE i = n + 1
      BY <2>2, <3>1
    <3>2. CASE i \in 0 .. n /\ i # 0
      <4>1. i - 1 \in 0 .. n
        BY <3>2
      <4>2. g[i] = f[i] /\ g[i - 1] = f[i - 1]
        BY <2>2, <3>2, <4>1
      <4>. QED
        BY <2>2, <3>2, <4>2
    <3>3. CASE i = 0
      <4>1. 0 \in 0 .. n
        OBVIOUS
      <4>2. g[0] = f[0] /\ f[0] = m
        BY <2>2, <4>1
      <4>. QED
        BY <3>3, <4>2
    <3>. QED
      BY <3>1, <3>2, <3>3
  <2>4. Releases(g, m, strings, n + 1)
    <3>1. g = [i \in 0 .. n + 1 |-> g[i]]
      OBVIOUS
    <3>. HIDE DEF g
    <3>. QED
      BY <2>3, <3>1 DEF Releases
  <2>. QED
    BY <2>4
<1>. HIDE DEF S
<1>3. \A n \in Nat : n \in S
  BY <1>1, <1>2, SetInduction
<1>. QED
  BY <1>3 DEF S

StringReleases(m, strings, n, f) ==
  /\ release_strings(m, strings) = f[n] /\ f[0] = m
  /\ \A i \in 1 .. n : f[i] = decref_str(f[i - 1], strings[i])

LEMMA ReleasesOne ==
  ASSUME NEW m, NEW strings, NEW n \in Nat, Len(strings) = n
  PROVE  \E f : StringReleases(m, strings, n, f)
<1>. DEFINE f == CHOOSE g : Releases(g, m, strings, n)
<1>1. Releases(f, m, strings, n)
  BY ReleasesExists
<1>2. release_strings(m, strings) = f[n]
  BY DEF release_strings, Releases
<1>. HIDE DEF f
<1>3. \A i \in 0 .. n : f[i] = IF i = 0 THEN m ELSE decref_str(f[i - 1], strings[i])
  BY <1>1 DEF Releases
<1>4. f[0] = m
  BY <1>3
<1>5. \A i \in 1 .. n : f[i] = decref_str(f[i - 1], strings[i])
  BY <1>3
<1>. QED
  BY <1>2, <1>4, <1>5 DEF StringReleases

StringsOf(m, d) == [i \in 1 .. d.k |-> LoadStr(m, SlotAt(d, i))]

(* The first n strings of e are released.                                  *)
Emptied(m, m2, loc, D, e, n) ==
  \E D2 \in SUBSET D :
    /\ e \in D2 /\ AllSlots(D2) = AllSlots(D)
    /\ Good(m2, loc, D2, AllSlots(D) \ {SlotAt(e, i) : i \in 1 .. n}, {e})
    /\ KeepsWithin(m, m2, e)

LEMMA WithinTrans ==
  ASSUME NEW m, NEW m1, NEW m2, NEW d, KeepsWithin(m, m1, d), KeepsWithin(m1, m2, d)
  PROVE  KeepsWithin(m, m2, d)
BY DEF KeepsWithin

LEMMA WithinSlots ==
  ASSUME NEW m, NEW m2, NEW d, AllocOK(d), KeepsWithin(m, m2, d)
  PROVE  /\ \A s \in Slots(d) : LoadStr(m2, s) = LoadStr(m, s)
         /\ Refcount(m2, d.data) = Refcount(m, d.data)
<1>1. ASSUME NEW s \in Slots(d) PROVE LoadStr(m2, s) = LoadStr(m, s)
  <2>1. /\ s \in Nat /\ s % PtrWidth = 0 /\ d.data <= s /\ s + StrSize <= High(d)
        /\ s + PtrWidth \in Nat /\ (s + PtrWidth) % PtrWidth = 0
        /\ s + 2 * PtrWidth \in Nat /\ (s + 2 * PtrWidth) % PtrWidth = 0
    BY SlotWords
  <2>2. /\ d.data \in Nat /\ Low(d) \in Nat /\ Low(d) <= d.data /\ High(d) \in Nat
    BY Parts, Widths
  <2>3. /\ Word(m2, s) = Word(m, s) /\ Word(m2, s + PtrWidth) = Word(m, s + PtrWidth)
        /\ Word(m2, s + 2 * PtrWidth) = Word(m, s + 2 * PtrWidth)
    BY <2>1, <2>2, StrSizes, Widths DEF KeepsWithin
  <2>. QED
    BY <2>3 DEF LoadStr
<1>2. LET at == d.data - PtrWidth
      IN at \in Nat /\ at % PtrWidth = 0 /\ Low(d) <= at /\ at < High(d)
  BY Parts, Widths
<1>. QED
  BY <1>1, <1>2 DEF KeepsWithin, Refcount

(* All strings of an allocation that is being freed are released, each     *)
(* once.                                                                   *)
LEMMA StringsReleased ==
  ASSUME NEW m, NEW loc, NEW D, NEW e \in D, Good(m, loc, D, AllSlots(D), {e})
  PROVE  Emptied(m, release_strings(m, StringsOf(m, e)), loc, D, e, e.k)
<1>1. Allocs(D) /\ AllocOK(e) /\ e.k \in Nat
  BY MemoryAllocs, Parts DEF Good, Allocs
<1>2. Len(StringsOf(m, e)) = e.k
  BY <1>1 DEF StringsOf
<1>3. PICK f : StringReleases(m, StringsOf(m, e), e.k, f)
  BY <1>1, <1>2, ReleasesOne
<1>. DEFINE T == {n \in Nat : n <= e.k => Emptied(m, f[n], loc, D, e, n)}
<1>4. 0 \in T
  <2>1. AllSlots(D) \ {SlotAt(e, i) : i \in 1 .. 0} = AllSlots(D)
    OBVIOUS
  <2>2. Emptied(m, m, loc, D, e, 0)
    BY <2>1 DEF Emptied, KeepsWithin
  <2>. QED
    BY <1>3, <2>2 DEF StringReleases
<1>5. ASSUME NEW n \in Nat, n \in T PROVE n + 1 \in T
  <2>. SUFFICES ASSUME n + 1 <= e.k PROVE Emptied(m, f[n + 1], loc, D, e, n + 1)
    OBVIOUS
  <2>. DEFINE s == SlotAt(e, n + 1)
              S == AllSlots(D) \ {SlotAt(e, i) : i \in 1 .. n}
  <2>1. n + 1 \in 1 .. e.k /\ n <= e.k
    BY <1>1
  <2>2. PICK D2 \in SUBSET D : /\ e \in D2 /\ AllSlots(D2) = AllSlots(D)
                               /\ Good(f[n], loc, D2, S, {e}) /\ KeepsWithin(m, f[n], e)
    BY <1>5, <2>1 DEF Emptied
  <2>3. s \in Slots(e) /\ s \in S
    <3>1. s \in Slots(e) /\ s \in AllSlots(D)
      BY <2>1 DEF Slots, AllSlots
    <3>2. ASSUME NEW i \in 1 .. n PROVE SlotAt(e, i) # s
      <4>1. i \in 1 .. e.k /\ i < n + 1
        BY <2>1, <1>1
      <4>2. SlotAt(e, i) + StrSize <= s /\ SlotAt(e, i) \in Nat
        BY <1>1, <2>1, <4>1, SlotsDiffer, SlotIn
      <4>. QED
        BY <4>2, StrSizes
    <3>. QED
      BY <3>1, <3>2
  <2>4. f[n + 1] = decref_str(f[n], LoadStr(f[n], s))
    <3>1. f[n + 1] = decref_str(f[n], StringsOf(m, e)[n + 1])
      <4>1. f[n + 1] = decref_str(f[(n + 1) - 1], StringsOf(m, e)[n + 1])
        BY <1>3, <2>1 DEF StringReleases
      <4>2. (n + 1) - 1 = n
        OBVIOUS
      <4>. QED
        BY <4>1, <4>2
    <3>2. LoadStr(f[n], s) = LoadStr(m, s)
      BY <1>1, <2>2, <2>3, WithinSlots
    <3>. QED
      BY <2>1, <3>1, <3>2 DEF StringsOf
  <2>5. S \ {s} = AllSlots(D) \ {SlotAt(e, i) : i \in 1 .. n + 1}
    <3>1. 1 .. n + 1 = (1 .. n) \cup {n + 1}
      OBVIOUS
    <3>. QED
      BY <3>1
  <2>. HIDE DEF S, s
  <2>6. PICK D3 \in SUBSET D2 : /\ e \in D3 /\ AllSlots(D3) = AllSlots(D2)
                                /\ Good(f[n + 1], loc, D3, S \ {s}, {e})
                                /\ KeepsWithin(f[n], f[n + 1], e)
    <3>1. SlotGone(f[n], f[n + 1], loc, D2, S, s, e)
      BY <2>2, <2>3, <2>4, SlotReleased
    <3>. QED
      BY <3>1 DEF SlotGone
  <2>. QED
    BY <2>2, <2>5, <2>6, WithinTrans DEF Emptied
<1>. HIDE DEF T
<1>6. e.k \in T
  BY <1>1, <1>4, <1>5, SetInduction
<1>. QED
  BY <1>1, <1>3, <1>6 DEF T, StringReleases

-----------------------------------------------------------------------------
(* A local variable gives its value up.                                    *)

Dropped(m2, loc2, D) == \E D2 \in SUBSET D : Good(m2, loc2, D2, AllSlots(D2), {})

LEMMA SlotsWithout ==
  ASSUME NEW D, Allocs(D), NEW d \in D
  PROVE  AllSlots(D) \ Slots(d) = AllSlots(D \ {d})
BY DataDiffer DEF AllSlots, Allocs

(* An allocation without references, in which no string is counted any     *)
(* longer, can be given back.                                              *)
LEMMA EmptiedDropped ==
  ASSUME NEW m, NEW m2, NEW loc, NEW D, NEW e, Emptied(m, m2, loc, D, e, e.k)
  PROVE  /\ Dropped(free_allocation(m2, e.data, e.type), loc, D)
         /\ Dropped(free_allocation(WriteWord(m2, e.data - PtrWidth, 0), e.data, e.type), loc, D)
<1>1. AllSlots(D) \ {SlotAt(e, i) : i \in 1 .. e.k} = AllSlots(D) \ Slots(e)
  BY DEF Slots
<1>2. PICK D2 \in SUBSET D : /\ e \in D2 /\ AllSlots(D2) = AllSlots(D)
                             /\ Good(m2, loc, D2, AllSlots(D) \ Slots(e), {e})
  BY <1>1 DEF Emptied
<1>3. AllSlots(D2) \ Slots(e) = AllSlots(D2 \ {e})
  BY <1>2, SlotsWithout, MemoryAllocs DEF Good
<1>. DEFINE S == AllSlots(D2 \ {e})
<1>4. Good(m2, loc, D2, S, {e}) /\ S \cap Slots(e) = {}
  BY <1>2, <1>3
<1>. HIDE DEF S
<1>5. Good(WriteWord(m2, e.data - PtrWidth, 0), loc, D2, S, {e})
  BY <1>2, <1>4, Uncounted
<1>6. Good(free_allocation(m2, e.data, e.type), loc, D2 \ {e}, S, {})
  BY <1>2, <1>4, EmptiedFreed
<1>7. Good(free_allocation(WriteWord(m2, e.data - PtrWidth, 0), e.data, e.type), loc, D2 \ {e}, S, {})
  BY <1>2, <1>4, <1>5, EmptiedFreed
<1>. QED
  BY <1>6, <1>7 DEF Dropped, S

(* The strings in a box or closure are those of its allocation.            *)
LEMMA PayloadStringsOf ==
  ASSUME NEW m, NEW D, MemoryOK(m, D), NEW d \in D, d.type \in BoxTypes,
         NEW v, v.type = d.type, v.ptr = d.data
  PROVE  PayloadStrings(m, v) = StringsOf(m, d)
<1>1. AllocOK(d) /\ Contents(m, d) /\ d.data \in Nat
  BY Parts DEF MemoryOK
<1>2. CASE d.type = "widebox"
  <2>1. d.k = 0
    BY <1>1, <1>2 DEF AllocOK, Plain
  <2>. QED
    BY <1>2, <2>1 DEF PayloadStrings, StringsOf
<1>3. CASE d.type = "strbox"
  <2>1. d.k = 1 /\ SlotAt(d, 1) = d.data
    BY <1>1, <1>3, StrSizes DEF AllocOK, SlotAt
  <2>. QED
    BY <1>3, <2>1 DEF PayloadStrings, StringsOf
<1>4. CASE d.type = "fn"
  <2>1. SlotAt(d, 1) = d.data + CaptureOffset
    BY <1>1, <1>4, StrSizes DEF SlotAt, CaptureOffset
  <2>2. d.k \in {0, 1} /\ Word(m, d.data + PtrWidth) = IF d.k = 1 THEN OnDrop ELSE 0
    BY <1>1, <1>4 DEF AllocOK, Contents
  <2>3. CASE d.k = 0
    BY <1>4, <2>2, <2>3 DEF PayloadStrings, StringsOf, OnDrop
  <2>4. CASE d.k = 1
    BY <1>4, <2>1, <2>2, <2>4 DEF PayloadStrings, StringsOf
  <2>. QED
    BY <2>2, <2>3, <2>4
<1>. QED
  BY <1>2, <1>3, <1>4 DEF BoxTypes

(* And those of a list, however little of it is shown.                     *)
LEMMA AllocationItemsOf ==
  ASSUME NEW m, NEW D, MemoryOK(m, D), NEW d \in D, d.type = "strs",
         NEW v \in Val, PointsTo(v, d)
  PROVE  allocation_items(m, v) = StringsOf(m, d)
<1>1. AllocOK(d) /\ Contents(m, d) /\ d.data \in Nat
  BY Parts DEF MemoryOK
<1>2. get_allocation_ptr(v) = d.data /\ v.type = "strs"
  BY DEF PointsTo
<1>3. allocation_element_count(m, v) = d.k
  <2>1. CASE is_seamless_slice(v)
    BY <1>1, <1>2, <2>1 DEF allocation_element_count, Layout, Contents
  <2>2. CASE ~is_seamless_slice(v)
    <3>1. v.cap % 2 # 1
      BY <1>2, <2>2 DEF is_seamless_slice, is_small_str
    <3>2. v.cap \in Nat /\ v.cap % 2 = 0
      <4>1. v.cap \in Nat
        BY DEF Val
      <4>. QED
        BY <3>1, <4>1
    <3>3. v.len = d.k
      BY <1>2, <3>2 DEF PointsTo
    <3>. QED
      BY <2>2, <3>3 DEF allocation_element_count
  <2>. QED
    BY <2>1, <2>2
<1>4. ASSUME NEW i \in 1 .. d.k
      PROVE  SlotAt(d, i) = get_allocation_ptr(v) + (i - 1) * StrSize
  BY <1>1, <1>2, SlotIn
<1>. QED
  BY <1>3, <1>4 DEF allocation_items, StringsOf

LEMMA LocalGone ==
  ASSUME NEW m, NEW loc \in [Locals -> Val], NEW S, IsFiniteSet(S), NEW l \in Locals, NEW a
  PROVE  /\ Count(m, [loc EXCEPT ![l] = Nothing], S, a) = Count(m, loc, S, a) - One(loc[l], a)
         /\ Count(m, loc, S, a) \in Nat
<1>1. /\ Cardinality(LocalRefs(loc, a)) \in Nat /\ Cardinality(SlotRefs(m, S, a)) \in Nat
      /\ Count(m, loc, S, a) \in Nat /\ One(loc[l], a) \in Nat
  BY CountTypes DEF One
<1>2. Cardinality(LocalRefs([loc EXCEPT ![l] = Nothing], a))
      = Cardinality(LocalRefs(loc, a)) - One(loc[l], a)
  BY LocalUnset
<1>. QED
  BY <1>1, <1>2 DEF Count

(* What dropping a reference to d comes down to.                           *)
LEMMA ReferenceDropped ==
  ASSUME NEW m, NEW loc, NEW D, Good(m, loc, D, AllSlots(D), {}), NEW l \in Locals,
         NEW d \in D, PointsTo(loc[l], d)
  PROVE  LET loc2 == [loc EXCEPT ![l] = Nothing]
         IN  /\ Fewer(loc2, AllSlots(D), loc, AllSlots(D))
             /\ OneFewer(m, loc2, AllSlots(D), loc, AllSlots(D), D, d)
<1>. DEFINE loc2 == [loc EXCEPT ![l] = Nothing]  S == AllSlots(D)
<1>1. loc \in [Locals -> Val] /\ Allocs(D) /\ ValueOK(loc[l], D)
  BY MemoryAllocs DEF Good, ValuesOK
<1>2. IsFiniteSet(S)
  BY <1>1, FiniteSlots
<1>3. Nothing \in Val
  BY DEF Nothing, Value, Val
<1>4. Fewer(loc2, S, loc, S)
  BY <1>1, <1>3 DEF Fewer
<1>5. \A e \in D : One(loc[l], e.data) = IF e = d THEN 1 ELSE 0
  <2>1. loc[l] \in Val
    BY <1>1
  <2>2. RefersTo(loc[l], d.data)
    BY <1>1, <2>1, PointerIsAllocated DEF Allocs
  <2>. QED
    BY <1>1, <2>2, DataDiffer DEF RefersTo, Allocs, One
<1>6. OneFewer(m, loc2, S, loc, S, D, d)
  <2>1. \A e \in D : /\ Count(m, loc2, S, e.data) = Count(m, loc, S, e.data) - One(loc[l], e.data)
                     /\ Count(m, loc, S, e.data) \in Nat
    BY <1>1, <1>2, LocalGone
  <2>. HIDE DEF S, loc2
  <2>. QED
    BY <1>5, <2>1 DEF OneFewer
<1>. HIDE DEF S, loc2
<1>. QED
  BY <1>4, <1>6 DEF S, loc2

(* A local variable that refers to no allocation gives nothing up.         *)
LEMMA UnallocatedDropped ==
  ASSUME NEW m, NEW loc, NEW D, Good(m, loc, D, AllSlots(D), {}), NEW l \in Locals,
         \A d \in D : ~RefersTo(loc[l], d.data)
  PROVE  Dropped(m, [loc EXCEPT ![l] = Nothing], D)
<1>. DEFINE loc2 == [loc EXCEPT ![l] = Nothing]  S == AllSlots(D)
<1>1. loc \in [Locals -> Val] /\ Allocs(D)
  BY MemoryAllocs DEF Good, ValuesOK
<1>2. IsFiniteSet(S)
  BY <1>1, FiniteSlots
<1>3. Nothing \in Val
  BY DEF Nothing, Value, Val
<1>4. Fewer(loc2, S, loc, S)
  BY <1>1, <1>3 DEF Fewer
<1>5. \A e \in D : Count(m, loc2, S, e.data) = Count(m, loc, S, e.data)
  <2>. TAKE e \in D
  <2>1. Count(m, loc2, S, e.data) = Count(m, loc, S, e.data) - One(loc[l], e.data)
        /\ Count(m, loc, S, e.data) \in Nat
    BY <1>1, <1>2, LocalGone
  <2>2. One(loc[l], e.data) = 0
    BY DEF One
  <2>3. \A i \in Nat : i - 0 = i
    OBVIOUS
  <2>. QED
    BY <2>1, <2>2, <2>3
<1>6. Good(m, loc2, D, S, {})
  BY <1>4, <1>5, NothingCounted
<1>. QED
  BY <1>6 DEF Dropped

(* Strings, and lists of what holds no references.                         *)
LEMMA PlainDropped ==
  ASSUME NEW m, NEW loc, NEW D, Good(m, loc, D, AllSlots(D), {}), NEW l \in Locals,
         NEW d \in D, PointsTo(loc[l], d), d.type \in Plain \/ Refcount(m, d.data) > 1
  PROVE  Dropped(decref_at(m, d.data, d.type), [loc EXCEPT ![l] = Nothing], D)
<1>. DEFINE loc2 == [loc EXCEPT ![l] = Nothing]  S == AllSlots(D)
<1>1. Fewer(loc2, S, loc, S) /\ OneFewer(m, loc2, S, loc, S, D, d)
  BY ReferenceDropped
<1>2. AllocOK(d) /\ d.k \in Nat
  BY MemoryAllocs, Parts DEF Good, Allocs
<1>3. d.type \in Plain => Slots(d) = {}
  BY <1>2 DEF AllocOK, Slots
<1>. DEFINE m2 == decref_at(m, d.data, d.type)
<1>4. GoodWithout(m, m2, loc2, D, S, {}, d)
  <2>1. Refcount(m, d.data) > 1 \/ Slots(d) \cap S = {}
    BY <1>3
  <2>2. d \in D \ {}
    OBVIOUS
  <2>. HIDE DEF S, loc2
  <2>3. Good(m, loc, D, S, {})
    BY DEF S
  <2>. QED
    BY <1>1, <2>1, <2>2, <2>3, CountedDown
<1>. HIDE DEF m2, loc2
<1>5. PICK D2 \in {D, D \ {d}} : Good(m2, loc2, D2, S, {}) /\ (Refcount(m, d.data) > 1 => D2 = D)
  BY <1>4 DEF GoodWithout
<1>6. AllSlots(D2) = S
  BY <1>3, <1>5 DEF AllSlots
<1>. QED
  BY <1>5, <1>6 DEF Dropped, m2, loc2

(* The last reference to a list of strings or to a box.                    *)
LEMMA LastDropped ==
  ASSUME NEW m, NEW loc, NEW D, Good(m, loc, D, AllSlots(D), {}), NEW l \in Locals,
         NEW d \in D, PointsTo(loc[l], d), Refcount(m, d.data) = 1
  PROVE  LET loc2 == [loc EXCEPT ![l] = Nothing]
             less == WriteWord(m, d.data - PtrWidth, 0)
         IN  /\ Emptied(m, release_strings(m, StringsOf(m, d)), loc2, D, d, d.k)
             /\ Emptied(less, release_strings(less, StringsOf(less, d)), loc2, D, d, d.k)
<1>. DEFINE loc2 == [loc EXCEPT ![l] = Nothing]  S == AllSlots(D)
<1>1. Fewer(loc2, S, loc, S) /\ OneFewer(m, loc2, S, loc, S, D, d)
  BY ReferenceDropped
<1>. HIDE DEF loc2
<1>2. Good(m, loc2, D, S, {d})
  BY <1>1, LastReference
<1>3. Good(WriteWord(m, d.data - PtrWidth, 0), loc2, D, S, {d})
  BY <1>2, Uncounted
<1>. QED
  BY <1>2, <1>3, StringsReleased DEF loc2

LEMMA NewCount ==
  ASSUME NEW m \in Memory, NEW d, NEW type
  PROVE  /\ Refcount(m, d) = 1 =>
              decref_at(m, d, type) = free_allocation(WriteWord(m, d - PtrWidth, 0), d, type)
         /\ Refcount(m, d) > 1 => decref_at(m, d, type) = WriteWord(m, d - PtrWidth, Refcount(m, d) - 1)
BY RefcountType DEF decref_at

(* The release of a list: the count goes down, or the list's strings are   *)
(* released and its block given back.                                      *)
LEMMA ListDropped ==
  ASSUME NEW m, NEW loc, NEW D, Good(m, loc, D, AllSlots(D), {}), NEW l \in Locals,
         NEW d \in D, PointsTo(loc[l], d), d.type \in ListTypes
  PROVE  Dropped(decref_list(m, loc[l]), [loc EXCEPT ![l] = Nothing], D)
<1>. DEFINE v == loc[l]  loc2 == [loc EXCEPT ![l] = Nothing]
<1>1. /\ MemoryOK(m, D) /\ m \in Memory /\ AllocOK(d) /\ v \in Val /\ v.type = d.type
      /\ get_allocation_ptr(v) = d.data
  BY MemoryAllocs DEF Good, Allocs, ValuesOK, PointsTo
<1>2. Allocated(v)
  BY <1>1, PointerIsAllocated
<1>3. Refcount(m, d.data) \in Nat /\ Refcount(m, d.data) > 0
  BY <1>1, RefcountType DEF Good, CountsOK
<1>4. CASE d.type # "strs" \/ Refcount(m, d.data) > 1
  <2>1. ~(v.type = "strs" /\ has_one_ref(m, v))
    BY <1>1, <1>4 DEF has_one_ref
  <2>2. decref_list(m, v) = decref_at(m, d.data, d.type)
    BY <1>1, <1>2, <2>1 DEF decref_list
  <2>3. d.type \in Plain \/ Refcount(m, d.data) > 1
    BY <1>4 DEF ListTypes, Plain
  <2>. QED
    BY <2>2, <2>3, PlainDropped
<1>5. CASE d.type = "strs" /\ Refcount(m, d.data) = 1
  <2>. DEFINE m1 == release_strings(m, StringsOf(m, d))
  <2>1. allocation_items(m, v) = StringsOf(m, d)
    BY <1>1, <1>5, AllocationItemsOf
  <2>2. decref_list(m, v) = decref_at(m1, d.data, d.type)
    BY <1>1, <1>2, <1>5, <2>1 DEF decref_list, has_one_ref
  <2>3. Emptied(m, m1, loc2, D, d, d.k)
    BY <1>5, LastDropped
  <2>. HIDE DEF m1, loc2
  <2>4. m1 \in Memory /\ Refcount(m1, d.data) = 1
    BY <1>1, <1>5, <2>3, WithinSlots, MemoryAllocs DEF Emptied, Good
  <2>5. decref_at(m1, d.data, d.type)
        = free_allocation(WriteWord(m1, d.data - PtrWidth, 0), d.data, d.type)
    BY <2>4, NewCount
  <2>. QED
    BY <2>2, <2>3, <2>5, EmptiedDropped DEF loc2
<1>. QED
  BY <1>3, <1>4, <1>5

(* The release of a box or a closure, and the freeing of a box that has a  *)
(* single reference.                                                       *)
LEMMA BoxDropped ==
  ASSUME NEW m, NEW loc, NEW D, Good(m, loc, D, AllSlots(D), {}), NEW l \in Locals,
         NEW d \in D, PointsTo(loc[l], d), d.type \in BoxTypes
  PROVE  LET loc2 == [loc EXCEPT ![l] = Nothing]
         IN  /\ Dropped(decref_box_with(m, loc[l]), loc2, D)
             /\ is_unique_box(m, loc[l]) => Dropped(free_box_with(m, loc[l]), loc2, D)
<1>. DEFINE v == loc[l]  loc2 == [loc EXCEPT ![l] = Nothing]
            less == WriteWord(m, d.data - PtrWidth, 0)
<1>1. /\ MemoryOK(m, D) /\ m \in Memory /\ AllocOK(d) /\ v \in Val /\ v.type = d.type
      /\ v.ptr = d.data
  BY MemoryAllocs DEF Good, Allocs, ValuesOK, PointsTo
<1>2. Refcount(m, d.data) \in Nat /\ Refcount(m, d.data) > 0
  BY <1>1, RefcountType DEF Good, CountsOK
<1>3. CASE Refcount(m, d.data) > 1
  <2>1. decref_box_with(m, v) = WriteWord(m, d.data - PtrWidth, Refcount(m, d.data) - 1)
    BY <1>1, <1>3 DEF decref_box_with
  <2>2. decref_box_with(m, v) = decref_at(m, d.data, d.type)
    BY <1>1, <1>3, <2>1, NewCount
  <2>3. Dropped(decref_at(m, d.data, d.type), loc2, D)
    BY <1>3, PlainDropped
  <2>4. ~is_unique_box(m, v)
    BY <1>1, <1>3 DEF is_unique_box
  <2>. QED
    BY <2>2, <2>3, <2>4
<1>4. CASE Refcount(m, d.data) = 1
  <2>1. /\ Emptied(m, release_strings(m, StringsOf(m, d)), loc2, D, d, d.k)
        /\ Emptied(less, release_strings(less, StringsOf(less, d)), loc2, D, d, d.k)
    BY <1>4, LastDropped
  <2>2. MemoryOK(less, D)
    BY <1>1, Recounted DEF RecountedTo
  <2>3. PayloadStrings(m, v) = StringsOf(m, d) /\ PayloadStrings(less, v) = StringsOf(less, d)
    BY <1>1, <2>2, PayloadStringsOf
  <2>4. /\ free_box_with(m, v)
           = free_allocation(release_strings(m, StringsOf(m, d)), d.data, d.type)
        /\ free_box_with(less, v)
           = free_allocation(release_strings(less, StringsOf(less, d)), d.data, d.type)
    BY <1>1, <2>3 DEF free_box_with, payload_decref
  <2>5. decref_box_with(m, v) = free_box_with(less, v)
    BY <1>1, <1>4 DEF decref_box_with
  <2>6. Dropped(free_box_with(m, v), loc2, D) /\ Dropped(free_box_with(less, v), loc2, D)
    BY <2>1, <2>4, EmptiedDropped
  <2>. QED
    BY <2>5, <2>6
<1>. QED
  BY <1>2, <1>3, <1>4

(* The release of any value.                                               *)
LEMMA ValueDropped ==
  ASSUME NEW m, NEW loc, NEW D, Good(m, loc, D, AllSlots(D), {}), NEW l \in Locals,
         loc[l].type # "none"
  PROVE  Dropped(decref(m, loc[l]), [loc EXCEPT ![l] = Nothing], D)
<1>. DEFINE v == loc[l]  loc2 == [loc EXCEPT ![l] = Nothing]
<1>1. /\ MemoryOK(m, D) /\ Allocs(D) /\ ValueOK(v, D) /\ v \in Val
  BY MemoryAllocs DEF Good, ValuesOK, ValueOK
<1>2. v.type \in Types /\ v # Nothing
  BY <1>1 DEF Val, Nothing, Value
<1>3. CASE ~Allocated(v)
  <2>1. v.type \notin BoxTypes
    <3>1. ASSUME NEW d \in D \cup {StaticAlloc}, PointsTo(v, d) PROVE FALSE
      BY <1>1, <1>3, <3>1, PointerIsAllocated DEF Allocs
    <3>. QED
      BY <1>1, <1>2, <3>1 DEF ValueOK, Small, Empty, BoxTypes, ListTypes
  <2>2. decref(m, v) = m
    BY <1>2, <1>3, <2>1 DEF decref, decref_str, decref_list, Types, ListTypes, BoxTypes
  <2>3. \A d \in D : ~RefersTo(v, d.data)
    BY <1>3 DEF RefersTo
  <2>. QED
    BY <2>2, <2>3, UnallocatedDropped
<1>4. CASE Allocated(v)
  <2>1. PICK d \in D \cup {StaticAlloc} : PointsTo(v, d) /\ RefersTo(v, d.data)
    BY <1>1, <1>4, AllocatedTarget
  <2>2. v.type = d.type /\ get_allocation_ptr(v) = d.data
    BY <2>1 DEF PointsTo
  <2>3. CASE d = StaticAlloc
    <3>1. d.data = StaticPtr /\ v.type = "str"
      BY <2>2, <2>3 DEF StaticAlloc
    <3>2. decref(m, v) = m
      BY <1>1, <1>4, <2>2, <3>1, StaticUncounted DEF decref, decref_str, ListTypes, BoxTypes
    <3>3. \A f \in D : ~RefersTo(v, f.data)
      BY <1>1, <2>1, <3>1, StaticApart DEF RefersTo, Allocs
    <3>. QED
      BY <3>2, <3>3, UnallocatedDropped
  <2>4. CASE d \in D
    <3>1. CASE v.type = "str"
      <4>1. decref(m, v) = decref_at(m, d.data, d.type)
        BY <1>4, <2>2, <3>1 DEF decref, decref_str, ListTypes, BoxTypes
      <4>2. d.type \in Plain
        BY <2>2, <3>1 DEF Plain
      <4>. QED
        BY <2>1, <2>4, <4>1, <4>2, PlainDropped
    <3>2. CASE v.type \in ListTypes
      <4>1. decref(m, v) = decref_list(m, v)
        BY <3>2 DEF decref, ListTypes, BoxTypes
      <4>. QED
        BY <2>1, <2>2, <2>4, <3>2, <4>1, ListDropped
    <3>3. CASE v.type \in BoxTypes
      <4>1. decref(m, v) = decref_box_with(m, v)
        BY <3>3 DEF decref, ListTypes, BoxTypes
      <4>. QED
        BY <2>1, <2>2, <2>4, <3>3, <4>1, BoxDropped
    <3>. QED
      BY <1>2, <3>1, <3>2, <3>3 DEF Types
  <2>. QED
    BY <2>1, <2>3, <2>4
<1>. QED
  BY <1>3, <1>4

-----------------------------------------------------------------------------
(* A local variable gets a value.                                          *)

LEMMA LocalAdded ==
  ASSUME NEW m, NEW loc \in [Locals -> Val], NEW S, IsFiniteSet(S), NEW l \in Locals,
         loc[l] = Nothing, NEW v, NEW a
  PROVE  /\ Count(m, With(loc, l, v), S, a) = Count(m, loc, S, a) + One(v, a)
         /\ Count(m, loc, S, a) \in Nat
<1>1. /\ Cardinality(LocalRefs(loc, a)) \in Nat /\ Cardinality(SlotRefs(m, S, a)) \in Nat
      /\ Count(m, loc, S, a) \in Nat /\ One(v, a) \in Nat
  BY CountTypes DEF One
<1>2. ~RefersTo(loc[l], a)
  BY DEF RefersTo, Allocated, Nothing, Value
<1>3. Cardinality(LocalRefs(With(loc, l, v), a)) = Cardinality(LocalRefs(loc, a)) + One(v, a)
  BY <1>2, LocalSet
<1>. QED
  BY <1>1, <1>3 DEF Count

(* A value that refers to nothing that is counted.                         *)
LEMMA UncountedAdded ==
  ASSUME NEW m, NEW loc, NEW D, Good(m, loc, D, AllSlots(D), {}), NEW l \in Locals,
         loc[l] = Nothing, NEW v, ValueOK(v, D), \A d \in D : ~RefersTo(v, d.data)
  PROVE  Good(m, With(loc, l, v), D, AllSlots(D), {})
<1>. DEFINE loc2 == With(loc, l, v)  S == AllSlots(D)
<1>1. loc \in [Locals -> Val] /\ Allocs(D) /\ v \in Val
  BY MemoryAllocs DEF Good, ValuesOK, ValueOK
<1>2. IsFiniteSet(S)
  BY <1>1, FiniteSlots
<1>3. \A e \in D : Count(m, loc2, S, e.data) = Count(m, loc, S, e.data)
  <2>. TAKE e \in D
  <2>1. Count(m, loc2, S, e.data) = Count(m, loc, S, e.data) + One(v, e.data)
        /\ Count(m, loc, S, e.data) \in Nat
    BY <1>1, <1>2, LocalAdded
  <2>2. One(v, e.data) = 0
    BY DEF One
  <2>3. \A i \in Nat : i + 0 = i
    OBVIOUS
  <2>. QED
    BY <2>1, <2>2, <2>3
<1>4. ValuesOK(m, loc2, D, S)
  BY <1>1 DEF Good, ValuesOK, With
<1>5. CountsOK(m, loc2, D, S, {})
  BY <1>3 DEF Good, CountsOK
<1>. QED
  BY <1>4, <1>5 DEF Good

(* A reference to d, which is counted up.                                  *)
LEMMA CountedUp ==
  ASSUME NEW m, NEW loc, NEW D, Good(m, loc, D, AllSlots(D), {}), NEW l \in Locals,
         loc[l] = Nothing, NEW v, ValueOK(v, D), NEW d \in D, PointsTo(v, d)
  PROVE  Good(incref_at(m, d.data, 1), With(loc, l, v), D, AllSlots(D), {})
<1>. DEFINE loc2 == With(loc, l, v)  S == AllSlots(D)
            m2   == incref_at(m, d.data, 1)
<1>1. loc \in [Locals -> Val] /\ Allocs(D) /\ v \in Val /\ MemoryOK(m, D) /\ m \in Memory
  BY MemoryAllocs DEF Good, ValuesOK, ValueOK
<1>2. IsFiniteSet(S)
  BY <1>1, FiniteSlots
<1>3. Refcount(m, d.data) \in Nat /\ Refcount(m, d.data) > 0
  BY <1>1, RefcountType DEF Good, CountsOK
<1>4. RecountedTo(m, m2, D, d, Refcount(m, d.data) + 1)
  <2>1. m2 = WriteWord(m, d.data - PtrWidth, Refcount(m, d.data) + 1)
    BY <1>3 DEF incref_at
  <2>2. Refcount(m, d.data) + 1 \in Nat
    BY <1>3
  <2>. QED
    BY <1>1, <2>1, <2>2, Recounted
<1>5. \A e \in D : One(v, e.data) = IF e = d THEN 1 ELSE 0
  <2>1. RefersTo(v, d.data)
    BY <1>1, PointerIsAllocated DEF Allocs
  <2>. QED
    BY <1>1, <2>1, DataDiffer DEF RefersTo, Allocs, One
<1>6. \A e \in D : /\ Count(m, loc2, S, e.data) = Count(m, loc, S, e.data) + One(v, e.data)
                   /\ Count(m, loc, S, e.data) \in Nat
  BY <1>1, <1>2, LocalAdded
<1>. HIDE DEF m2
<1>7. \A s \in S : LoadStr(m2, s) = LoadStr(m, s)
  BY <1>4 DEF RecountedTo, KeepsSlots
<1>8. ValuesOK(m2, loc2, D, S)
  BY <1>1, <1>7 DEF Good, ValuesOK, With
<1>. HIDE DEF S, loc2
<1>9. CountsOK(m2, loc2, D, S, {})
  <2>1. \A e \in D : Count(m2, loc2, S, e.data) = Count(m, loc, S, e.data) + One(v, e.data)
    BY <1>6, <1>7, SameCount
  <2>2. \A e \in D : Refcount(m, e.data) = Count(m, loc, S, e.data) /\ Refcount(m, e.data) > 0
    BY DEF Good, CountsOK, S
  <2>3. \A e \in D : Refcount(m2, e.data) = IF e = d THEN Refcount(m, e.data) + 1
                                           ELSE Refcount(m, e.data)
    BY <1>4 DEF RecountedTo, KeepsOthers
  <2>. QED
    BY <1>5, <1>6, <2>1, <2>2, <2>3 DEF CountsOK
<1>. QED
  BY <1>4, <1>8, <1>9 DEF Good, RecountedTo, m2, S, loc2

(* A value that refers to no allocation or to static data needs no count.  *)
LEMMA StaticAdded ==
  ASSUME NEW m, NEW loc, NEW D, Good(m, loc, D, AllSlots(D), {}), NEW l \in Locals,
         loc[l] = Nothing, NEW v, ValueOK(v, D), PointsTo(v, StaticAlloc) \/ ~Allocated(v)
  PROVE  Good(m, With(loc, l, v), D, AllSlots(D), {})
<1>1. \A d \in D : ~RefersTo(v, d.data)
  BY MemoryAllocs, StaticApart DEF Good, Allocs, RefersTo, PointsTo, StaticAlloc
<1>. QED
  BY <1>1, UncountedAdded

(* Copies of strings, and of all values.                                   *)
LEMMA StringCopied ==
  ASSUME NEW m, NEW loc, NEW D, Good(m, loc, D, AllSlots(D), {}), NEW l \in Locals,
         loc[l] = Nothing, NEW v, ValueOK(v, D), v.type \in {"str"} \cup ListTypes
  PROVE  LET m2 == IF Allocated(v) THEN incref_at(m, get_allocation_ptr(v), 1) ELSE m
         IN  Good(m2, With(loc, l, v), D, AllSlots(D), {})
<1>1. CASE ~Allocated(v)
  BY <1>1, StaticAdded
<1>2. CASE Allocated(v)
  <2>1. PICK d \in D \cup {StaticAlloc} : PointsTo(v, d) /\ get_allocation_ptr(v) = d.data
    BY <1>2, AllocatedTarget DEF PointsTo
  <2>2. CASE d = StaticAlloc
    <3>1. incref_at(m, d.data, 1) = m
      BY <2>2, StaticUncounted DEF Good, StaticAlloc
    <3>. QED
      BY <1>2, <2>1, <2>2, <3>1, StaticAdded
  <2>3. CASE d \in D
    BY <1>2, <2>1, <2>3, CountedUp
  <2>. QED
    BY <2>1, <2>2, <2>3
<1>. QED
  BY <1>1, <1>2

(* A copy of a value, counted where it refers to an allocation.            *)
LEMMA ValueCopied ==
  ASSUME NEW m, NEW loc, NEW D, Good(m, loc, D, AllSlots(D), {}), NEW l \in Locals,
         loc[l] = Nothing, NEW v, ValueOK(v, D), v.type # "none"
  PROVE  Good(incref(m, v, 1), With(loc, l, v), D, AllSlots(D), {})
<1>1. v \in Val /\ v.type \in Types
  BY DEF ValueOK, Val
<1>2. CASE v.type \in {"str"} \cup ListTypes
  <2>1. incref(m, v, 1) = IF Allocated(v) THEN incref_at(m, get_allocation_ptr(v), 1) ELSE m
    BY <1>2 DEF incref, incref_str, incref_list, ListTypes, BoxTypes
  <2>. QED
    BY <1>2, <2>1, StringCopied
<1>3. CASE v.type \in BoxTypes
  <2>1. incref(m, v, 1) = incref_at(m, v.ptr, 1)
    BY <1>3 DEF incref, incref_box, ListTypes, BoxTypes
  <2>2. PICK d \in D : PointsTo(v, d)
    BY <1>3 DEF ValueOK, Small, Empty, Nothing, Value, BoxTypes, ListTypes, PointsTo, StaticAlloc
  <2>3. v.ptr = d.data
    BY <1>3, <2>2 DEF PointsTo
  <2>. QED
    BY <2>1, <2>2, <2>3, CountedUp
<1>. QED
  BY <1>1, <1>2, <1>3 DEF Types

(* What is shown of a list, a box or a closure are strings it holds.       *)
LEMMA ShownStrings ==
  ASSUME NEW m, NEW loc, NEW D, Good(m, loc, D, AllSlots(D), {}), NEW k \in Locals,
         NEW item \in ToSet(Shown(m, loc[k]))
  PROVE  ValueOK(item, D) /\ item.type = "str"
<1>. DEFINE v == loc[k]
<1>1. /\ MemoryOK(m, D) /\ Allocs(D) /\ ValueOK(v, D) /\ v \in Val
      /\ \A s \in AllSlots(D) : LoadStr(m, s).type = "str" /\ ValueOK(LoadStr(m, s), D)
  BY MemoryAllocs DEF Good, ValuesOK, ValueOK
<1>2. SUFFICES \E s \in AllSlots(D) : item = LoadStr(m, s)
  BY <1>1
<1>3. CASE v.type = "strs"
  <2>1. Shown(m, v) = [i \in 1 .. v.len |-> LoadStr(m, v.ptr + (i - 1) * StrSize)]
    BY <1>3 DEF Shown
  <2>2. v.len \in Nat /\ v.ptr \in Nat
    BY <1>1 DEF Val
  <2>3. PICK i \in 1 .. v.len : item = LoadStr(m, v.ptr + (i - 1) * StrSize)
    BY <2>1, <2>2 DEF ToSet
  <2>4. PICK d \in D : PointsTo(v, d)
    <3>1. v # Nothing /\ ~Small(v) /\ ~Empty(v)
      BY <1>3, <2>2, <2>3 DEF Nothing, Value, Small, Empty
    <3>. QED
      BY <1>1, <1>3, <3>1 DEF ValueOK, PointsTo, StaticAlloc
  <2>5. PICK j \in Nat : v.ptr = d.data + j * StrSize /\ j + v.len <= d.k
    BY <1>3, <2>4 DEF PointsTo
  <2>6. AllocOK(d) /\ d.type = "strs" /\ d.data \in Nat /\ d.k \in Nat
    BY <1>1, <1>3, <2>4, Parts DEF Allocs, PointsTo
  <2>7. i + j \in 1 .. d.k
    BY <2>2, <2>5, <2>6
  <2>8. SlotAt(d, i + j) = v.ptr + (i - 1) * StrSize
    <3>1. SlotAt(d, i + j) = d.data + ((i + j) - 1) * StrSize
      BY <2>6, <2>7, SlotIn
    <3>2. CASE StrSize = 12
      BY <2>2, <2>5, <2>6, <3>1, <3>2
    <3>3. CASE StrSize = 24
      BY <2>2, <2>5, <2>6, <3>1, <3>3
    <3>. QED
      BY <3>2, <3>3, StrSizes
  <2>. QED
    BY <2>3, <2>7, <2>8 DEF AllSlots, Slots
<1>4. CASE v.type \in BoxTypes
  <2>1. PICK d \in D : PointsTo(v, d)
    BY <1>1, <1>4 DEF ValueOK, Small, Empty, Nothing, Value, BoxTypes, ListTypes, PointsTo, StaticAlloc
  <2>2. v.ptr = d.data /\ v.type = d.type
    BY <1>4, <2>1 DEF PointsTo
  <2>3. Shown(m, v) = StringsOf(m, d)
    BY <1>1, <1>4, <2>2, PayloadStringsOf DEF Shown, BoxTypes
  <2>4. d.k \in Nat
    BY <1>1, Parts DEF Allocs
  <2>5. PICK i \in 1 .. d.k : item = LoadStr(m, SlotAt(d, i))
    BY <2>3, <2>4 DEF ToSet, StringsOf
  <2>. QED
    BY <2>5 DEF AllSlots, Slots
<1>5. CASE v.type # "strs" /\ v.type \notin BoxTypes
  <2>1. Shown(m, v) = <<>>
    BY <1>5 DEF Shown, PayloadStrings, BoxTypes
  <2>. QED
    BY <2>1 DEF ToSet
<1>. QED
  BY <1>3, <1>4, <1>5

-----------------------------------------------------------------------------
(* Values that Roc makes of others.                                        *)

LEMMA StaticStrOK == \A D : ValueOK(StaticStr, D) /\ PointsTo(StaticStr, StaticAlloc)
<1>1. StaticStr = [type |-> "str", ptr |-> 2 * PtrWidth, cap |-> 6 * PtrWidth, len |-> 3 * PtrWidth]
  BY StrSizes, Widths DEF StaticStr, Value, shifted_capacity
<1>2. (6 * PtrWidth) % 2 = 0 /\ (2 * PtrWidth) % 1 = 0
  BY Widths
<1>3. get_allocation_ptr(StaticStr) = 2 * PtrWidth
  BY <1>1, <1>2 DEF get_allocation_ptr, is_seamless_slice
<1>4. PointsTo(StaticStr, StaticAlloc)
  <2>1. Layout("str").align = 1 /\ Layout("str").size = 1
    BY DEF Layout
  <2>. QED
    BY <1>1, <1>2, <1>3, <2>1, StrSizes, Widths DEF PointsTo, StaticAlloc, High, SmallBit, BoxTypes
<1>5. StaticStr \in Val
  BY <1>1, Widths DEF Val, Types
<1>. QED
  BY <1>4, <1>5 DEF ValueOK

LEMMA ElementSizes ==
  ASSUME NEW type \in {"str"} \cup ListTypes
  PROVE  /\ Layout(type).size \in Nat /\ Layout(type).align \in {1, 4, 8, 16}
         /\ Layout(type).size % Layout(type).align = 0
         /\ type \in {"str", "bytes"} => Layout(type).size = 1 /\ Layout(type).align = 1
         /\ type = "wides" => Layout(type).size = 16 /\ Layout(type).align = 16
         /\ type = "strs" => Layout(type).size = StrSize /\ Layout(type).align = PtrWidth
<1>1. Layout("str") = [size |-> 1, align |-> 1, refcounted |-> FALSE]
  BY DEF Layout
<1>2. Layout("bytes") = [size |-> 1, align |-> 1, refcounted |-> FALSE]
  BY DEF Layout
<1>3. Layout("wides") = [size |-> 16, align |-> 16, refcounted |-> FALSE]
  BY DEF Layout
<1>4. Layout("strs") = [size |-> StrSize, align |-> PtrWidth, refcounted |-> TRUE]
  BY DEF Layout
<1>5. StrSize % PtrWidth = 0
  BY StrSizes, Widths
<1>. QED
  BY <1>1, <1>2, <1>3, <1>4, <1>5, StrSizes, Widths DEF ListTypes

Sliced(v) == [v EXCEPT !.ptr = @ + Layout(v.type).size,
                       !.cap = get_allocation_ptr(v) + 1, !.len = @ - 1]

(* A slice refers to what it was cut off from.                             *)
LEMMA SliceOK ==
  ASSUME NEW D, Allocs(D), NEW v, ValueOK(v, D), v.type \in {"str"} \cup ListTypes,
         Allocated(v), v.len > 1
  PROVE  /\ ValueOK(Sliced(v), D)
         /\ \A a : RefersTo(Sliced(v), a) <=> RefersTo(v, a)
<1>. DEFINE w == Sliced(v)  size == Layout(v.type).size  align == Layout(v.type).align
<1>1. PICK d \in D \cup {StaticAlloc} : PointsTo(v, d)
  BY AllocatedTarget
<1>2. v \in Val /\ v.ptr \in Nat /\ v.len \in Nat /\ v.cap \in Nat /\ v.type \in Types
  BY DEF ValueOK, Val, Types
<1>3. d.data \in Nat /\ d.data % 2 = 0 /\ d.data > 0 /\ High(d) \in Nat /\ d.k \in Nat
  <2>1. CASE d = StaticAlloc
    <3>1. (2 * PtrWidth) % 2 = 0
      BY Widths
    <3>. QED
      BY <2>1, <3>1, StrSizes, Widths DEF StaticAlloc, High
  <2>2. CASE d \in D
    BY <2>2, Parts, StaticApart, Widths DEF Allocs
  <2>. QED
    BY <2>1, <2>2
<1>4. get_allocation_ptr(v) = d.data /\ v.len < SmallBit
  BY <1>1 DEF PointsTo
<1>5. w = [type |-> v.type, ptr |-> v.ptr + size, cap |-> d.data + 1, len |-> v.len - 1]
  <2>1. v = [type |-> v.type, ptr |-> v.ptr, cap |-> v.cap, len |-> v.len]
    BY <1>2 DEF Val
  <2>2. w = [v EXCEPT !.ptr = v.ptr + size, !.cap = d.data + 1, !.len = v.len - 1]
    BY <1>4, <2>1 DEF Sliced
  <2>. HIDE DEF w, size
  <2>. QED
    BY <2>1, <2>2
<1>6. get_allocation_ptr(w) = d.data
  <2>1. (d.data + 1) % 2 = 1 /\ (d.data + 1) - 1 = d.data
    BY <1>3
  <2>2. ~is_small_str(w)
    BY <1>2, <1>4, <1>5 DEF is_small_str, SmallBit
  <2>. HIDE DEF w
  <2>. QED
    BY <1>5, <2>1, <2>2 DEF get_allocation_ptr, is_seamless_slice
<1>7. size \in Nat /\ align \in {1, 4, 8, 16} /\ size % align = 0
  BY ElementSizes
<1>8. (v.ptr + size) % align = 0
  <2>1. v.ptr % align = 0
    BY <1>1 DEF PointsTo
  <2>. HIDE DEF size, align
  <2>2. CASE align = 1
    BY <1>2, <1>7, <2>1, <2>2
  <2>3. CASE align = 4
    BY <1>2, <1>7, <2>1, <2>3
  <2>4. CASE align = 8
    BY <1>2, <1>7, <2>1, <2>4
  <2>5. CASE align = 16
    BY <1>2, <1>7, <2>1, <2>5
  <2>. QED
    BY <1>7, <2>2, <2>3, <2>4, <2>5
<1>9. ASSUME v.type \in {"str", "bytes", "wides"}
      PROVE  (v.ptr + size) + (v.len - 1) * size <= High(d)
  <2>1. v.ptr + v.len * size <= High(d)
    BY <1>1, <1>9 DEF PointsTo
  <2>2. size \in {1, 16}
    BY <1>9, ElementSizes
  <2>. HIDE DEF size
  <2>3. CASE size = 1
    BY <1>2, <1>3, <2>1, <2>3
  <2>4. CASE size = 16
    BY <1>2, <1>3, <2>1, <2>4
  <2>. QED
    BY <2>2, <2>3, <2>4
<1>10. ASSUME v.type = "strs"
       PROVE  \E j \in Nat : v.ptr + size = d.data + j * StrSize /\ j + (v.len - 1) <= d.k
  <2>1. PICK j \in Nat : v.ptr = d.data + j * StrSize /\ j + v.len <= d.k
    BY <1>1, <1>10 DEF PointsTo
  <2>2. size = StrSize
    BY <1>10, ElementSizes
  <2>3. v.ptr + StrSize = d.data + (j + 1) * StrSize
    <3>1. CASE StrSize = 12
      BY <1>3, <2>1, <3>1
    <3>2. CASE StrSize = 24
      BY <1>3, <2>1, <3>2
    <3>. QED
      BY <3>1, <3>2, StrSizes
  <2>. HIDE DEF size
  <2>4. j + 1 \in Nat /\ (j + 1) + (v.len - 1) <= d.k
    BY <1>2, <1>3, <2>1
  <2>. QED
    BY <2>2, <2>3, <2>4
<1>. HIDE DEF w, size, align
<1>11. PointsTo(w, d)
  <2>1. d.data <= v.ptr + size /\ v.len - 1 < SmallBit
    BY <1>1, <1>2, <1>3, <1>4, <1>7 DEF PointsTo, SmallBit
  <2>2. (d.data + 1) % 2 # 0
    BY <1>3
  <2>3. v.type = d.type /\ v.type \notin BoxTypes
    BY <1>1 DEF PointsTo, ListTypes, BoxTypes
  <2>. QED
    BY <1>5, <1>6, <1>8, <1>9, <1>10, <2>1, <2>2, <2>3 DEF PointsTo, size, align
<1>12. w \in Val
  BY <1>2, <1>3, <1>5, <1>7 DEF Val
<1>13. ValueOK(w, D)
  BY <1>1, <1>11, <1>12 DEF ValueOK
<1>14. Allocated(w)
  BY <1>1, <1>11, <1>12, PointerIsAllocated DEF Allocs
<1>. QED
  BY <1>4, <1>6, <1>13, <1>14 DEF RefersTo, w

-----------------------------------------------------------------------------
(* New allocations.                                                        *)

(* e is in m2 and not in m, and is referred to once.                       *)
Fresh(m, m2, e) ==
  /\ m2 \in Memory /\ Low(e) \in Fits(m, High(e) - Low(e), Storage(e.type))
  /\ m2.blocks = m.blocks \cup {BlockOf(e)} /\ m2.misused = m.misused
  /\ Word(m2, SizeAddr(e.data, e.type)) = BlockOf(e).size
  /\ Refcount(m2, e.data) = 1
  /\ KeepsBut(m, m2, Low(e), High(e))

ShapeOK(type, n, k) ==
  /\ type \in Types /\ n \in Nat /\ k \in Nat /\ k <= MaxItems
  /\ type \in Plain => k = 0
  /\ type = "widebox" => n = 16
  /\ type \in {"strs", "strbox"} => n = k * StrSize
  /\ type = "strbox" => k = 1
  /\ type = "fn" => k \in {0, 1} /\ n = CaptureOffset + k * StrSize

NewAlloc(m, type, n, k) ==
  [data |-> WithRefcount(m, type, n).ptr, type |-> type, n |-> n, k |-> k]

HasRoom(m, type, n) == Room(m, header_bytes(type) + n, alloc_alignment(type))

(* With room for it, an allocation of the right shape is made in free      *)
(* memory, its header in place.                                            *)
LEMMA FreshAlloc ==
  ASSUME NEW m \in Memory, NEW type, NEW n, NEW k, ShapeOK(type, n, k), HasRoom(m, type, n)
  PROVE  LET e == NewAlloc(m, type, n, k)
         IN  AllocOK(e) /\ Fresh(m, WithRefcount(m, type, n).m, e)
<1>. DEFINE got == WithRefcount(m, type, n)  e == NewAlloc(m, type, n, k)
            block == BlockAround(got.ptr, type, n)
            header == header_bytes(type)  storage == Storage(type)
<1>1. type \in Types /\ n \in Nat
  BY DEF ShapeOK
<1>2. /\ header \in {4, 8, 16} /\ storage \in {4, 8, 16}
      /\ header >= PtrWidth /\ storage >= PtrWidth
  BY <1>1, Layouts
<1>3. Fits(m, n + header + storage, storage) # {}
  <2>1. (header + n) + storage = n + header + storage
    BY <1>1, <1>2
  <2>. QED
    BY <2>1 DEF HasRoom, Room, Storage
<1>4. /\ got.m \in Memory /\ got.ptr \in Nat
      /\ block.base \in Fits(m, block.size, block.align)
      /\ got.m.blocks = m.blocks \cup {block} /\ got.m.misused = m.misused
      /\ Word(got.m, SizeAddr(got.ptr, type)) = block.size
      /\ Refcount(got.m, got.ptr) = 1
      /\ \A a \in Nat : a + PtrWidth <= block.base \/ block.base + block.size <= a
                        => Word(got.m, a) = Word(m, a)
  BY <1>1, <1>3, HandedOut
<1>5. e.data = got.ptr /\ e.type = type /\ e.n = n /\ e.k = k /\ e \in [data : Nat, type : {type}, n : {n}, k : {k}]
  BY <1>4 DEF NewAlloc
<1>. HIDE DEF got, e
<1>6. block = BlockOf(e) /\ Low(e) = got.ptr - header - storage /\ High(e) = got.ptr + n
  BY <1>5 DEF BlockOf, Low, Start, High
<1>7. block.base = Low(e) /\ block.size = n + header + storage /\ block.align = storage
  BY <1>5 DEF BlockAround, Block, Low
<1>. HIDE DEF block, header, storage
<1>8. block.size = High(e) - Low(e)
  BY <1>1, <1>2, <1>4, <1>6, <1>7
<1>9. /\ Low(e) \in Nat /\ Low(e) >= StaticPtr + StaticLen /\ Low(e) + block.size <= MaxAddr
      /\ Low(e) % storage = 0
  <2>1. Low(e) \in StaticPtr + StaticLen .. MaxAddr
        /\ Low(e) + block.size <= MaxAddr /\ Low(e) % storage = 0
    BY <1>4, <1>7 DEF Fits
  <2>. QED
    BY <2>1, StrSizes, Widths
<1>10. got.ptr = Low(e) + storage + header /\ High(e) <= MaxAddr
  BY <1>1, <1>2, <1>4, <1>6, <1>7, <1>9, Widths
<1>11. got.ptr % PtrWidth = 0 /\ got.ptr % Layout(type).align = 0
  <2>1. /\ header % PtrWidth = 0 /\ storage % PtrWidth = 0
        /\ header % Layout(type).align = 0 /\ storage % Layout(type).align = 0
    BY <1>1, Layouts DEF header, storage
  <2>2. Layout(type).align \in {1, 4, 8, 16}
    BY <1>1, Widths DEF Layout, Types, ListTypes, BoxTypes
  <2>3. ASSUME NEW a \in {1, 4, 8, 16}, header % a = 0, storage % a = 0 PROVE got.ptr % a = 0
    <3>1. CASE a = 1
      BY <1>4, <3>1
    <3>2. CASE a = 4
      BY <1>2, <1>9, <1>10, <2>3, <3>2
    <3>3. CASE a = 8
      BY <1>2, <1>9, <1>10, <2>3, <3>3
    <3>4. CASE a = 16
      BY <1>2, <1>9, <1>10, <2>3, <3>4
    <3>. QED
      BY <3>1, <3>2, <3>3, <3>4
  <2>. QED
    BY <2>1, <2>2, <2>3, Widths
<1>12. AllocOK(e)
  <2>1. e \in Alloc
    BY <1>5 DEF ShapeOK, Alloc
  <2>. QED
    BY <1>5, <1>9, <1>10, <1>11, <2>1 DEF ShapeOK, AllocOK
<1>13. Fresh(m, got.m, e)
  <2>1. \A a \in Nat : a + PtrWidth <= Low(e) \/ High(e) <= a => Word(got.m, a) = Word(m, a)
    <3>1. Low(e) + block.size = High(e)
      BY <1>1, <1>2, <1>4, <1>6, <1>8, <1>9
    <3>. QED
      BY <1>4, <1>7, <3>1
  <2>2. Low(e) \in Fits(m, High(e) - Low(e), Storage(e.type))
    BY <1>4, <1>5, <1>7, <1>8 DEF storage
  <2>. QED
    BY <1>4, <1>5, <1>6, <2>1, <2>2 DEF Fresh, KeepsBut
<1>. QED
  BY <1>12, <1>13 DEF got, e

(* Its payload is written, or the number of elements in front of the count.*)
LEMMA FreshWritten ==
  ASSUME NEW m, NEW m1, NEW e, AllocOK(e), Fresh(m, m1, e),
         NEW at \in Nat, NEW n \in Nat, NEW value \in Nat, at + n <= High(e),
         SizeAddr(e.data, e.type) + PtrWidth <= at,
         e.data <= at \/ at + n <= e.data - PtrWidth
  PROVE  Fresh(m, Write(m1, at, n, value), e)
<1>. DEFINE m2 == Write(m1, at, n, value)
<1>1. /\ e.data \in Nat /\ e.data - PtrWidth \in Nat /\ Low(e) \in Nat /\ High(e) \in Nat
      /\ SizeAddr(e.data, e.type) \in Nat /\ Low(e) <= SizeAddr(e.data, e.type)
  BY Parts
<1>2. m1 \in Memory
  BY DEF Fresh
<1>3. m2 \in Memory
  BY <1>2, WriteKeepsMemory
<1>4. m2.blocks = m1.blocks /\ m2.misused = m1.misused
  BY DEF Write
<1>5. KeepsBut(m1, m2, at, at + n)
  BY <1>2, WriteKeepsBut
<1>6. KeepsBut(m1, m2, Low(e), High(e))
  <2>1. Low(e) <= at
    BY <1>1, Widths
  <2>. HIDE DEF m2
  <2>. QED
    BY <1>1, <1>5, <2>1, KeepsWider
<1>. HIDE DEF m2
<1>7. KeepsBut(m, m2, Low(e), High(e))
  BY <1>6 DEF Fresh, KeepsBut
<1>8. Word(m2, SizeAddr(e.data, e.type)) = Word(m1, SizeAddr(e.data, e.type))
  BY <1>1, <1>5 DEF KeepsBut
<1>9. Refcount(m2, e.data) = Refcount(m1, e.data)
  <2>1. (e.data - PtrWidth) + PtrWidth = e.data
    BY <1>1, Widths
  <2>. QED
    BY <1>1, <1>5, <2>1 DEF KeepsBut, Refcount
<1>. QED
  BY <1>3, <1>4, <1>7, <1>8, <1>9 DEF Fresh, m2

LEMMA TextWritten ==
  ASSUME NEW m \in Memory, NEW at \in Nat, NEW n \in Nat
  PROVE  TextIn(Write(m, at, n, Text), at, at + n)
<1>. SUFFICES ASSUME NEW a, WordAddr(a), at <= a, a < at + n
              PROVE  Word(Write(m, at, n, Text), a) = Text
  BY DEF TextIn
<1>. DEFINE w == a \div PtrWidth
<1>1. w \in Words /\ w * PtrWidth = a /\ a % PtrWidth = 0
  BY Widths DEF WordAddr
<1>2. Write(m, at, n, Text).word[w] = Text
  BY <1>1 DEF Write
<1>. QED
  BY <1>1, <1>2 DEF Word

-----------------------------------------------------------------------------
(* A new allocation, before anything refers to it, and then with the value *)
(* that does.                                                              *)

(* Nothing refers to an allocation that is new.                            *)
LEMMA NotNew ==
  ASSUME NEW D, Allocs(D), NEW e, AllocOK(e), \A d \in D : Apart(d, e), NEW v, ValueOK(v, D)
  PROVE  ~RefersTo(v, e.data)
<1>1. SUFFICES ASSUME RefersTo(v, e.data) PROVE FALSE
  OBVIOUS
<1>2. PICK d \in D \cup {StaticAlloc} : RefersTo(v, d.data)
  BY <1>1, AllocatedTarget DEF RefersTo
<1>3. d.data = e.data
  BY <1>1, <1>2 DEF RefersTo
<1>4. CASE d \in D
  BY <1>3, <1>4, DataDiffer DEF Allocs
<1>5. CASE d = StaticAlloc
  BY <1>3, <1>5, StaticApart DEF StaticAlloc
<1>. QED
  BY <1>2, <1>4, <1>5

StillCounted(m, m2, loc, loc2, D, e) ==
  \A d \in D : Count(m2, loc2, AllSlots(D) \cup Slots(e), d.data)
               = Count(m, loc, AllSlots(D), d.data)

StringsIn(m, e, D) == \A s \in Slots(e) : ValueOK(LoadStr(m, s), D)

(* A new allocation, not yet referred to, leaves everything else counted   *)
(* as it was.                                                              *)
LEMMA AddedAlloc ==
  ASSUME NEW m, NEW m2, NEW loc, NEW loc2, NEW D, NEW e,
         Good(m, loc, D, AllSlots(D), {}), AllocOK(e), Fresh(m, m2, e), Contents(m2, e),
         Fewer(loc2, AllSlots(D), loc, AllSlots(D)),
         StringsIn(m2, e, D), StillCounted(m, m2, loc, loc2, D, e)
  PROVE  Good(m2, loc2, D \cup {e}, AllSlots(D \cup {e}), {e}) /\ Refcount(m2, e.data) = 1
<1>. DEFINE E == D \cup {e}
<1>1. MemoryOK(m, D) /\ Allocs(D) /\ ValuesOK(m, loc, D, AllSlots(D)) /\ m2 \in Memory
  BY MemoryAllocs DEF Good, Fresh
<1>2. /\ MemoryOK(m2, E) /\ e \notin D /\ KeepsOthers(m, m2, D) /\ KeepsSlots(m, m2, D)
      /\ \A d \in D : Apart(d, e)
  BY <1>1, AddedOne DEF Fresh
<1>3. AllSlots(E) = AllSlots(D) \cup Slots(e)
  BY DEF AllSlots
<1>4. \A l \in Locals : ValueOK(loc2[l], D)
  BY <1>1, NothingOK DEF ValuesOK, Fewer
<1>5. \A s \in AllSlots(E) : ValueOK(LoadStr(m2, s), D)
  BY <1>1, <1>2, <1>3 DEF ValuesOK, KeepsSlots, StringsIn
<1>6. ValuesOK(m2, loc2, E, AllSlots(E))
  <2>1. D \subseteq E
    OBVIOUS
  <2>2. \A l \in Locals : ValueOK(loc2[l], E)
    BY <1>4, <2>1, ValueMore
  <2>3. \A s \in AllSlots(E) : LoadStr(m2, s).type = "str" /\ ValueOK(LoadStr(m2, s), E)
    BY <1>1, <1>5, <2>1, ValueMore, LoadIsStr
  <2>. QED
    BY <2>2, <2>3 DEF ValuesOK, Fewer
<1>7. Count(m2, loc2, AllSlots(E), e.data) = 0
  <2>1. LocalRefs(loc2, e.data) = {}
    BY <1>1, <1>2, <1>4, NotNew DEF LocalRefs
  <2>2. SlotRefs(m2, AllSlots(E), e.data) = {}
    BY <1>1, <1>2, <1>5, NotNew DEF SlotRefs
  <2>. QED
    BY <2>1, <2>2, FS_EmptySet DEF Count
<1>8. CountsOK(m2, loc2, E, AllSlots(E), {e})
  <2>1. \A d \in D : Refcount(m2, d.data) = Count(m2, loc2, AllSlots(E), d.data)
                     /\ Refcount(m2, d.data) > 0
    BY <1>2, <1>3 DEF Good, CountsOK, KeepsOthers, StillCounted
  <2>. QED
    BY <1>2, <1>7, <2>1 DEF CountsOK
<1>. QED
  BY <1>2, <1>6, <1>8 DEF Good, Fresh

(* The variable that gets the new value is the one reference its count     *)
(* says there is.                                                          *)
LEMMA ReferenceAdded ==
  ASSUME NEW m, NEW loc, NEW D, NEW e \in D, Good(m, loc, D, AllSlots(D), {e}),
         Refcount(m, e.data) = 1, NEW l \in Locals, loc[l] = Nothing,
         NEW v \in Val, PointsTo(v, e)
  PROVE  Good(m, With(loc, l, v), D, AllSlots(D), {})
<1>. DEFINE loc2 == With(loc, l, v)  S == AllSlots(D)
<1>1. loc \in [Locals -> Val] /\ Allocs(D)
  BY MemoryAllocs DEF Good, ValuesOK
<1>2. IsFiniteSet(S)
  BY <1>1, FiniteSlots
<1>3. \A d \in D : One(v, d.data) = IF d = e THEN 1 ELSE 0
  <2>1. RefersTo(v, e.data)
    BY <1>1, PointerIsAllocated DEF Allocs
  <2>. QED
    BY <1>1, <2>1, DataDiffer DEF RefersTo, Allocs, One
<1>4. \A d \in D : /\ Count(m, loc2, S, d.data) = Count(m, loc, S, d.data) + One(v, d.data)
                   /\ Count(m, loc, S, d.data) \in Nat
  BY <1>1, <1>2, LocalAdded
<1>5. \A d \in D : IF d = e THEN Count(m, loc, S, d.data) = 0
                   ELSE Refcount(m, d.data) = Count(m, loc, S, d.data) /\ Refcount(m, d.data) > 0
  BY DEF Good, CountsOK
<1>. HIDE DEF S
<1>6. CountsOK(m, loc2, D, S, {})
  <2>. HIDE DEF loc2
  <2>. QED
    BY <1>3, <1>4, <1>5 DEF CountsOK
<1>7. ValuesOK(m, loc2, D, S)
  BY <1>1 DEF Good, ValuesOK, With, ValueOK, S
<1>. QED
  BY <1>6, <1>7 DEF Good, S

(* Nothing moves into it.                                                  *)
LEMMA AddedPlain ==
  ASSUME NEW m, NEW m2, NEW loc, NEW D, NEW e,
         Good(m, loc, D, AllSlots(D), {}), AllocOK(e), Fresh(m, m2, e), Contents(m2, e),
         Slots(e) = {}, NEW l \in Locals, loc[l] = Nothing, NEW v \in Val, PointsTo(v, e)
  PROVE  Good(m2, With(loc, l, v), D \cup {e}, AllSlots(D \cup {e}), {})
<1>1. loc \in [Locals -> Val] /\ MemoryOK(m, D)
  BY DEF Good, ValuesOK
<1>2. KeepsSlots(m, m2, D)
  BY <1>1, AddedOne DEF Fresh
<1>3. StillCounted(m, m2, loc, loc, D, e)
  BY <1>2, SameCount DEF StillCounted, KeepsSlots
<1>4. Fewer(loc, AllSlots(D), loc, AllSlots(D)) /\ StringsIn(m2, e, D)
  BY <1>1 DEF Fewer, StringsIn
<1>5. Good(m2, loc, D \cup {e}, AllSlots(D \cup {e}), {e}) /\ Refcount(m2, e.data) = 1
  BY <1>3, <1>4, AddedAlloc
<1>. QED
  BY <1>5, ReferenceAdded

(* The string of k moves into it, to t, and empty strings are around it.   *)
Filled(m, e, t, v) ==
  /\ t \in Slots(e) /\ LoadStr(m, t) = v
  /\ \A s \in Slots(e) \ {t} : Small(LoadStr(m, s))

(* A string moves from a variable into a new allocation: its reference is  *)
(* now the one in there.                                                   *)
LEMMA AddedMoved ==
  ASSUME NEW m, NEW m2, NEW loc, NEW D, NEW e,
         Good(m, loc, D, AllSlots(D), {}), AllocOK(e), Fresh(m, m2, e), Contents(m2, e),
         NEW k \in Locals, NEW t, Filled(m2, e, t, loc[k]),
         NEW l \in Locals, l # k, loc[l] = Nothing, NEW v \in Val, PointsTo(v, e)
  PROVE  Good(m2, With([loc EXCEPT ![k] = Nothing], l, v), D \cup {e}, AllSlots(D \cup {e}), {})
<1>. DEFINE loc2 == [loc EXCEPT ![k] = Nothing]  S == AllSlots(D)
<1>1. loc \in [Locals -> Val] /\ MemoryOK(m, D) /\ Allocs(D) /\ ValuesOK(m, loc, D, S)
  BY MemoryAllocs DEF Good, ValuesOK
<1>2. KeepsSlots(m, m2, D) /\ m2 \in Memory /\ \A d \in D : Apart(d, e)
  BY <1>1, AddedOne DEF Fresh
<1>3. IsFiniteSet(S) /\ S \cap Slots(e) = {}
  <2>1. IsFiniteSet(S)
    BY <1>1, FiniteSlots
  <2>2. \A d \in D : Slots(d) \cap Slots(e) = {}
    BY <1>1, <1>2, DataDiffer DEF Allocs
  <2>. QED
    BY <2>1, <2>2 DEF AllSlots
<1>4. ASSUME NEW s \in Slots(e) \ {t} PROVE ~Allocated(LoadStr(m2, s)) /\ ValueOK(LoadStr(m2, s), D)
  <2>1. Small(LoadStr(m2, s)) /\ LoadStr(m2, s) \in Val
    BY <1>2, LoadIsStr DEF Filled
  <2>. QED
    BY <2>1, NotAllocated DEF ValueOK
<1>5. StringsIn(m2, e, D)
  BY <1>1, <1>4 DEF StringsIn, Filled, ValuesOK
<1>6. Fewer(loc2, S, loc, S)
  <2>1. Nothing \in Val
    BY NothingOK DEF ValueOK
  <2>. QED
    BY <1>1, <2>1 DEF Fewer
<1>7. StillCounted(m, m2, loc, loc2, D, e)
  <2>. SUFFICES ASSUME NEW d \in D
                PROVE  Count(m2, loc2, S \cup Slots(e), d.data) = Count(m, loc, S, d.data)
    BY DEF StillCounted
  <2>1. Cardinality(LocalRefs(loc2, d.data))
        = Cardinality(LocalRefs(loc, d.data)) - One(loc[k], d.data)
    BY <1>1, LocalUnset
  <2>2. Cardinality(SlotRefs(m2, S \cup Slots(e), d.data))
        = Cardinality(SlotRefs(m2, S, d.data)) + One(loc[k], d.data)
    <3>1. \A u \in Slots(e) \ {t} : ~RefersTo(LoadStr(m2, u), d.data)
      BY <1>4 DEF RefersTo
    <3>2. t \in Slots(e) /\ LoadStr(m2, t) = loc[k]
      BY DEF Filled
    <3>. HIDE DEF S
    <3>. QED
      BY <1>3, <3>1, <3>2, SlotSet
  <2>3. SlotRefs(m2, S, d.data) = SlotRefs(m, S, d.data)
    BY <1>2, SameSlotRefs DEF KeepsSlots
  <2>4. /\ Cardinality(LocalRefs(loc, d.data)) \in Nat /\ Cardinality(SlotRefs(m, S, d.data)) \in Nat
        /\ One(loc[k], d.data) \in Nat
    BY <1>3, CountTypes DEF One
  <2>. HIDE DEF S, loc2
  <2>. QED
    BY <2>1, <2>2, <2>3, <2>4 DEF Count
<1>8. Good(m2, loc2, D \cup {e}, AllSlots(D \cup {e}), {e}) /\ Refcount(m2, e.data) = 1
  <2>. HIDE DEF loc2
  <2>. QED
    BY <1>5, <1>6, <1>7, AddedAlloc
<1>9. loc2[l] = Nothing
  BY <1>1
<1>. HIDE DEF loc2
<1>. QED
  BY <1>8, <1>9, ReferenceAdded DEF loc2

(* The value from_slice makes refers to all of what it allocated.          *)
LEMMA WholePoints ==
  ASSUME NEW e, AllocOK(e), e.type \in {"str"} \cup ListTypes, NEW n \in Nat,
         e.n = n * Layout(e.type).size, e.type = "strs" => e.k = n,
         NEW v, v = Value(e.type, e.data, shifted_capacity(n), n)
  PROVE  v \in Val /\ PointsTo(v, e)
<1>. DEFINE size == Layout(e.type).size
<1>1. /\ v.type = e.type /\ v.ptr = e.data /\ v.cap = 2 * n /\ v.len = n
      /\ v = [type |-> e.type, ptr |-> e.data, cap |-> 2 * n, len |-> n]
  BY DEF Value, shifted_capacity
<1>2. /\ e.data \in Nat /\ High(e) = e.data + n * size /\ High(e) <= MaxAddr /\ e.type \in Types
  BY Parts DEF High
<1>3. size \in Nat /\ size >= 1
  BY ElementSizes, StrSizes DEF ListTypes
<1>4. n <= n * size
  BY <1>3
<1>5. MaxAddr \in Nat /\ MaxAddr < SmallBit
  <2>1. MaxAddr \in 65 .. SmallBit - 1
    BY ConstantsAssumption
  <2>2. SmallBit \in Nat
    BY DEF SmallBit
  <2>. QED
    BY <2>1, <2>2
<1>6. n < SmallBit
  <2>1. n * size \in Nat
    BY <1>3
  <2>. HIDE DEF size
  <2>. QED
    BY <1>2, <1>4, <1>5, <2>1 DEF SmallBit
<1>7. v \in Val
  BY <1>1, <1>2 DEF Val
<1>8. (2 * n) % 2 = 0
  OBVIOUS
<1>9. ~is_small_str(v) /\ ~is_seamless_slice(v) /\ get_allocation_ptr(v) = e.data
  BY <1>1, <1>6, <1>8 DEF is_small_str, is_seamless_slice, get_allocation_ptr, SmallBit
<1>10. e.data % Layout(e.type).align = 0
  BY DEF AllocOK
<1>11. e.type \in {"str", "bytes", "wides"} => v.ptr + v.len * Layout(v.type).size <= High(e)
  <2>1. n * size \in Nat
    BY <1>3
  <2>. QED
    BY <1>1, <1>2, <2>1
<1>12. e.type = "strs" => \E j \in Nat : v.ptr = e.data + j * StrSize /\ j + v.len <= e.k
  <2>1. e.type = "strs" => v.ptr = e.data + 0 * StrSize /\ 0 + v.len <= e.k
    BY <1>1, <1>2, StrSizes
  <2>. QED
    BY <2>1
<1>13. v.type \notin BoxTypes
  BY <1>1 DEF ListTypes, BoxTypes
<1>14. v.len < SmallBit /\ e.data <= v.ptr
  BY <1>1, <1>2, <1>6
<1>15. v.type = "strs" => v.len = e.k
  BY <1>1
<1>. QED
  BY <1>1, <1>7, <1>9, <1>10, <1>11, <1>12, <1>13, <1>14, <1>15 DEF PointsTo

LEMMA BoxPoints ==
  ASSUME NEW e, AllocOK(e), e.type \in BoxTypes, NEW v, v = Value(e.type, e.data, 0, 0)
  PROVE  v \in Val /\ PointsTo(v, e)
<1>1. /\ v.type = e.type /\ v.ptr = e.data /\ v.cap = 0 /\ v.len = 0
      /\ v = [type |-> e.type, ptr |-> e.data, cap |-> 0, len |-> 0]
  BY DEF Value
<1>2. e.data \in Nat /\ e.type \in Types /\ e.type \notin {"str", "bytes", "wides", "strs"}
  BY Parts DEF BoxTypes
<1>3. v \in Val
  BY <1>1, <1>2 DEF Val
<1>4. ~is_seamless_slice(v) /\ get_allocation_ptr(v) = e.data
  BY <1>1 DEF is_seamless_slice, get_allocation_ptr
<1>5. e.data % Layout(e.type).align = 0
  BY DEF AllocOK
<1>. QED
  BY <1>1, <1>2, <1>3, <1>4, <1>5 DEF PointsTo, SmallBit

(* Data, which holds no references.                                        *)
LEMMA DataAdded ==
  ASSUME NEW m, NEW loc, NEW D, Good(m, loc, D, AllSlots(D), {}), NEW l \in Locals,
         loc[l] = Nothing, NEW type \in Plain, NEW n, ShapeOK(type, n, 0), HasRoom(m, type, n),
         NEW v \in Val, PointsTo(v, NewAlloc(m, type, n, 0))
  PROVE  LET got == WithRefcount(m, type, n)
         IN  Made(Write(got.m, got.ptr, n, Text), With(loc, l, v))
<1>. DEFINE got == WithRefcount(m, type, n)  e == NewAlloc(m, type, n, 0)
            m2  == Write(got.m, e.data, n, Text)
<1>1. m \in Memory /\ D \in SUBSET Alloc
  BY MemoryAllocs DEF Good
<1>2. AllocOK(e) /\ Fresh(m, got.m, e)
  BY <1>1, FreshAlloc
<1>3. e.data = got.ptr /\ e.type = type /\ e.n = n /\ e.k = 0
  BY DEF NewAlloc
<1>. HIDE DEF got, e
<1>4. e.data \in Nat /\ n \in Nat /\ High(e) = e.data + n /\ got.m \in Memory
  BY <1>2, <1>3, Parts DEF High, Fresh
<1>5. Fresh(m, m2, e)
  <2>1. SizeAddr(e.data, e.type) + PtrWidth <= e.data /\ e.data + n <= High(e) /\ e.data <= e.data
    <3>1. /\ SizeAddr(e.data, e.type) \in Nat /\ e.data - PtrWidth \in Nat
          /\ SizeAddr(e.data, e.type) + PtrWidth <= e.data - PtrWidth
      BY <1>2, Parts
    <3>. QED
      BY <1>4, <3>1, Widths
  <2>2. Text \in Nat
    BY DEF Text
  <2>. QED
    BY <1>2, <1>4, <2>1, <2>2, FreshWritten
<1>6. TextIn(m2, e.data, High(e))
  BY <1>4, TextWritten
<1>. HIDE DEF m2
<1>7. Contents(m2, e)
  BY <1>3, <1>5, <1>6 DEF Fresh, Contents, Plain
<1>8. Slots(e) = {}
  BY <1>3 DEF Slots
<1>9. Good(m2, With(loc, l, v), D \cup {e}, AllSlots(D \cup {e}), {})
  BY <1>2, <1>5, <1>7, <1>8, AddedPlain DEF e
<1>10. D \cup {e} \in SUBSET Alloc
  BY <1>1, <1>2 DEF AllocOK
<1>. QED
  BY <1>3, <1>9, <1>10 DEF Made, m2, got

(* RocStr::from_slice.                                                     *)
LEMMA StringMade ==
  ASSUME NEW m, NEW loc, NEW D, Good(m, loc, D, AllSlots(D), {}), NEW l \in Locals,
         loc[l] = Nothing, NEW n \in Nat, n >= StrSize => HasRoom(m, "str", n)
  PROVE  LET got == str_from_slice(m, n) IN Made(got.m, With(loc, l, got.v))
<1>. DEFINE got == str_from_slice(m, n)
<1>1. m \in Memory /\ D \in SUBSET Alloc
  BY MemoryAllocs DEF Good
<1>2. CASE n < StrSize
  <2>. DEFINE ptr == IF n > 0 THEN Text ELSE 0  cap == IF n > PtrWidth THEN Text ELSE 0
  <2>0. /\ got = [m |-> m, v |-> [type |-> "str", ptr |-> ptr, cap |-> cap, len |-> SmallBit + n]]
        /\ ptr \in Nat /\ cap \in Nat /\ SmallBit \in Nat
    BY <1>2 DEF str_from_slice, Value, Text, SmallBit
  <2>. HIDE DEF got, ptr, cap
  <2>1. got.m = m /\ Small(got.v) /\ got.v \in Val
    <3>1. SmallBit + n \in SmallBit .. SmallBit + StrSize - 1 /\ SmallBit + n \in Nat
      BY <1>2, <2>0, StrSizes
    <3>. QED
      BY <2>0, <3>1 DEF Small, Val, Types
  <2>2. ValueOK(got.v, D) /\ ~Allocated(got.v)
    BY <2>1, NotAllocated DEF ValueOK
  <2>3. Good(m, With(loc, l, got.v), D, AllSlots(D), {})
    BY <2>2, StaticAdded
  <2>. QED
    BY <1>1, <2>1, <2>3 DEF Made, got
<1>3. CASE n >= StrSize
  <2>. DEFINE e == NewAlloc(m, "str", n, 0)  new == WithRefcount(m, "str", n)
  <2>1. ~(n < StrSize)
    BY <1>3, StrSizes
  <2>2. /\ got.m = Write(new.m, new.ptr, n, Text)
        /\ got.v = Value("str", new.ptr, shifted_capacity(n), n)
    BY <2>1 DEF str_from_slice
  <2>3. ShapeOK("str", n, 0)
    BY Widths, ConstantsAssumption DEF ShapeOK, Types, ListTypes, BoxTypes
  <2>4. AllocOK(e)
    BY <1>1, <1>3, <2>3, FreshAlloc
  <2>5. e.data = new.ptr /\ e.type = "str" /\ e.n = n /\ Layout("str").size = 1
    BY DEF NewAlloc, Layout
  <2>. HIDE DEF e, new, got
  <2>6. got.v \in Val /\ PointsTo(got.v, e)
    BY <2>2, <2>4, <2>5, WholePoints
  <2>. QED
    BY <1>3, <2>2, <2>3, <2>6, DataAdded DEF e, new, got, Plain
<1>. QED
  BY <1>2, <1>3, StrSizes

(* RocListWith::from_slice of elements without references.                 *)
LEMMA ListMade ==
  ASSUME NEW m, NEW loc, NEW D, Good(m, loc, D, AllSlots(D), {}), NEW l \in Locals,
         loc[l] = Nothing, NEW type \in {"bytes", "wides"}, NEW n \in Nat,
         n > 0 => HasRoom(m, type, n * Layout(type).size)
  PROVE  LET got == list_from_slice(m, type, n) IN Made(got.m, With(loc, l, got.v))
<1>. DEFINE got == list_from_slice(m, type, n)  size == Layout(type).size
<1>1. m \in Memory /\ D \in SUBSET Alloc
  BY MemoryAllocs DEF Good
<1>2. size \in Nat /\ ~Layout(type).refcounted /\ size \in {1, 16}
  BY DEF Layout
<1>3. CASE n = 0
  <2>1. list_allocate(m, type, n) = [m |-> m, v |-> Value(type, 0, 0, 0)]
    BY <1>3 DEF list_allocate
  <2>2. got.m = Write(m, 0, 0, Text) /\ got.v = Value(type, 0, 0, 0)
    <3>1. 0 * size = 0
      BY <1>2
    <3>. QED
      BY <1>3, <2>1, <3>1 DEF list_from_slice, Value
  <2>3. Write(m, 0, 0, Text) = m
    BY <1>1, Widths DEF Write, Memory, Words
  <2>4. Empty(got.v) /\ got.v \in Val
    BY <2>2 DEF Empty, Value, Val, ListTypes, Types
  <2>. HIDE DEF got
  <2>5. ValueOK(got.v, D) /\ ~Allocated(got.v)
    BY <2>4, NotAllocated DEF ValueOK
  <2>6. Good(m, With(loc, l, got.v), D, AllSlots(D), {})
    BY <2>5, StaticAdded
  <2>. QED
    BY <1>1, <2>2, <2>3, <2>6 DEF Made, got
<1>4. CASE n > 0
  <2>. DEFINE e == NewAlloc(m, type, n * size, 0)  new == WithRefcount(m, type, n * size)
  <2>1. list_allocate(m, type, n) = [m |-> new.m, v |-> Value(type, new.ptr, shifted_capacity(n), n)]
    BY <1>2, <1>4 DEF list_allocate
  <2>2. /\ got.m = Write(new.m, new.ptr, n * size, Text)
        /\ got.v = Value(type, new.ptr, shifted_capacity(n), n)
    <3>1. got = [m |-> Write(new.m, new.ptr, n * size, Text),
                 v |-> Value(type, new.ptr, shifted_capacity(n), n)]
      <4>. HIDE DEF new
      <4>. QED
        BY <2>1 DEF list_from_slice, Value
    <3>. QED
      BY <3>1
  <2>3. ShapeOK(type, n * size, 0)
    <3>1. n * size \in Nat
      BY <1>2
    <3>. QED
      BY <3>1, Widths, ConstantsAssumption DEF ShapeOK, Types, ListTypes, BoxTypes
  <2>4. AllocOK(e)
    BY <1>1, <1>4, <2>3, FreshAlloc
  <2>5. e.data = new.ptr /\ e.type = type /\ e.n = n * size
    BY DEF NewAlloc
  <2>. HIDE DEF e, new, got
  <2>6. got.v \in Val /\ PointsTo(got.v, e)
    BY <2>2, <2>4, <2>5, WholePoints DEF ListTypes
  <2>. HIDE DEF size
  <2>. QED
    BY <1>4, <2>2, <2>3, <2>6, DataAdded DEF e, new, got, Plain, size
<1>. QED
  BY <1>3, <1>4

(* allocate_box, and the payload written into it.                          *)
LEMMA WideBoxMade ==
  ASSUME NEW m, NEW loc, NEW D, Good(m, loc, D, AllSlots(D), {}), NEW l \in Locals,
         loc[l] = Nothing, HasRoom(m, "widebox", 16)
  PROVE  LET got == allocate_box(m, "widebox")
         IN  Made(Write(got.m, got.v.ptr, 16, Text), With(loc, l, got.v))
<1>. DEFINE got == allocate_box(m, "widebox")  e == NewAlloc(m, "widebox", 16, 0)
            new == WithRefcount(m, "widebox", 16)
<1>1. m \in Memory
  BY MemoryAllocs DEF Good
<1>2. got.m = new.m /\ got.v = Value("widebox", new.ptr, 0, 0) /\ got.v.ptr = new.ptr
  BY DEF allocate_box, Layout, Value
<1>3. ShapeOK("widebox", 16, 0)
  BY ConstantsAssumption DEF ShapeOK, Types, ListTypes, BoxTypes
<1>4. AllocOK(e)
  BY <1>1, <1>3, FreshAlloc
<1>5. e.data = new.ptr /\ e.type = "widebox"
  BY DEF NewAlloc
<1>. HIDE DEF e, new, got
<1>6. got.v \in Val /\ PointsTo(got.v, e)
  BY <1>2, <1>4, <1>5, BoxPoints DEF BoxTypes
<1>. QED
  BY <1>2, <1>3, <1>6, DataAdded DEF e, new, got, Plain

-----------------------------------------------------------------------------
(* Allocations into which a string moves.                                  *)

(* A string that is stored reads as it was stored.                         *)
LEMMA StrStored ==
  ASSUME NEW m \in Memory, NEW at, WordAddr(at), WordAddr(at + PtrWidth),
         WordAddr(at + 2 * PtrWidth), NEW v \in Val, v.type = "str"
  PROVE  /\ StoreStr(m, at, v) \in Memory /\ LoadStr(StoreStr(m, at, v), at) = v
         /\ KeepsBut(m, StoreStr(m, at, v), at, at + StrSize)
<1>. DEFINE m1 == WriteWord(m, at, v.ptr)  m2 == WriteWord(m1, at + PtrWidth, v.cap)
            m3 == WriteWord(m2, at + 2 * PtrWidth, v.len)
<1>1. /\ v.ptr \in Nat /\ v.cap \in Nat /\ v.len \in Nat
      /\ v = [type |-> "str", ptr |-> v.ptr, cap |-> v.cap, len |-> v.len]
  BY DEF Val
<1>2. at \in Nat /\ at + PtrWidth \in Nat /\ at + 2 * PtrWidth \in Nat /\ PtrWidth \in Nat
      /\ (at + PtrWidth) + PtrWidth = at + 2 * PtrWidth
      /\ (at + 2 * PtrWidth) + PtrWidth = at + StrSize
  BY StrSizes, Widths DEF WordAddr
<1>3. m1 \in Memory /\ Word(m1, at) = v.ptr /\ KeepsBut(m, m1, at, at + PtrWidth)
  BY <1>1, <1>2, WordWritten, WriteKeepsBut DEF WriteWord
<1>. HIDE DEF m1
<1>4. m2 \in Memory /\ Word(m2, at + PtrWidth) = v.cap
      /\ KeepsBut(m1, m2, at + PtrWidth, at + 2 * PtrWidth)
  BY <1>1, <1>2, <1>3, WordWritten, WriteKeepsBut DEF WriteWord
<1>. HIDE DEF m2
<1>5. m3 \in Memory /\ Word(m3, at + 2 * PtrWidth) = v.len
      /\ KeepsBut(m2, m3, at + 2 * PtrWidth, at + StrSize)
  BY <1>1, <1>2, <1>4, WordWritten, WriteKeepsBut DEF WriteWord
<1>. HIDE DEF m3
<1>6. Word(m3, at) = v.ptr /\ Word(m3, at + PtrWidth) = v.cap
  <2>1. Word(m2, at) = Word(m1, at)
    BY <1>2, <1>4 DEF KeepsBut
  <2>2. Word(m3, at) = Word(m2, at) /\ Word(m3, at + PtrWidth) = Word(m2, at + PtrWidth)
    BY <1>2, <1>5 DEF KeepsBut
  <2>. QED
    BY <1>3, <1>4, <2>1, <2>2
<1>7. KeepsBut(m, m3, at, at + StrSize)
  <2>. SUFFICES ASSUME NEW a \in Nat, a + PtrWidth <= at \/ at + StrSize <= a
                PROVE  Word(m3, a) = Word(m, a)
    BY DEF KeepsBut
  <2>1. /\ a + PtrWidth <= at + PtrWidth \/ at + 2 * PtrWidth <= a
        /\ a + PtrWidth <= at \/ at + PtrWidth <= a
        /\ a + PtrWidth <= at + 2 * PtrWidth \/ at + StrSize <= a
    BY <1>2, StrSizes
  <2>. QED
    BY <1>3, <1>4, <1>5, <2>1 DEF KeepsBut
<1>8. StoreStr(m, at, v) = m3
  BY DEF StoreStr, m1, m2, m3
<1>9. LoadStr(m3, at) = v
  BY <1>1, <1>5, <1>6 DEF LoadStr, Value
<1>. QED
  BY <1>5, <1>7, <1>8, <1>9

LEMMA SlotAddrs ==
  ASSUME NEW d, AllocOK(d), NEW s \in Slots(d)
  PROVE  WordAddr(s) /\ WordAddr(s + PtrWidth) /\ WordAddr(s + 2 * PtrWidth)
<1>1. /\ s \in Nat /\ s % PtrWidth = 0 /\ d.data <= s /\ s + StrSize <= High(d)
      /\ s + PtrWidth \in Nat /\ (s + PtrWidth) % PtrWidth = 0
      /\ s + 2 * PtrWidth \in Nat /\ (s + 2 * PtrWidth) % PtrWidth = 0
  BY SlotWords
<1>2. /\ d.data \in Nat /\ d.data > 5 * PtrWidth /\ High(d) <= MaxAddr /\ High(d) \in Nat
  BY Parts, StaticApart
<1>3. /\ PtrWidth <= s /\ s < MaxAddr /\ PtrWidth <= s + PtrWidth /\ s + PtrWidth < MaxAddr
      /\ PtrWidth <= s + 2 * PtrWidth /\ s + 2 * PtrWidth < MaxAddr
  BY <1>1, <1>2, StrSizes, Widths
<1>. QED
  BY <1>1, <1>3, IsWordAddr

(* One more word of the payload is written, or one string.                 *)
LEMMA FreshStored ==
  ASSUME NEW m, NEW m1, NEW e, AllocOK(e), Fresh(m, m1, e), NEW s \in Slots(e),
         NEW v \in Val, v.type = "str"
  PROVE  LET m2 == StoreStr(m1, s, v)
         IN Fresh(m, m2, e) /\ LoadStr(m2, s) = v /\ KeepsBut(m1, m2, s, s + StrSize)
<1>. DEFINE m2 == StoreStr(m1, s, v)
<1>1. /\ e.data \in Nat /\ e.data - PtrWidth \in Nat /\ SizeAddr(e.data, e.type) \in Nat
      /\ SizeAddr(e.data, e.type) + PtrWidth <= e.data - PtrWidth
      /\ High(e) \in Nat
  BY Parts
<1>2. /\ s \in Nat /\ e.data <= s /\ s + StrSize <= High(e)
      /\ s + PtrWidth \in Nat /\ s + 2 * PtrWidth \in Nat
  BY SlotWords
<1>3. /\ s + PtrWidth <= High(e) /\ SizeAddr(e.data, e.type) + PtrWidth <= s
      /\ (s + PtrWidth) + PtrWidth <= High(e) /\ SizeAddr(e.data, e.type) + PtrWidth <= s + PtrWidth
      /\ (s + 2 * PtrWidth) + PtrWidth <= High(e)
      /\ SizeAddr(e.data, e.type) + PtrWidth <= s + 2 * PtrWidth
      /\ e.data <= s + PtrWidth /\ e.data <= s + 2 * PtrWidth
  BY <1>1, <1>2, StrSizes, Widths
<1>4. v.ptr \in Nat /\ v.cap \in Nat /\ v.len \in Nat /\ PtrWidth \in Nat
  BY Widths DEF Val
<1>5. Fresh(m, WriteWord(m1, s, v.ptr), e)
  BY <1>2, <1>3, <1>4, FreshWritten DEF WriteWord
<1>6. Fresh(m, WriteWord(WriteWord(m1, s, v.ptr), s + PtrWidth, v.cap), e)
  <2>. DEFINE w == WriteWord(m1, s, v.ptr)
  <2>. HIDE DEF w
  <2>1. Fresh(m, WriteWord(w, s + PtrWidth, v.cap), e)
    BY <1>2, <1>3, <1>4, <1>5, FreshWritten DEF WriteWord, w
  <2>. QED
    BY <2>1 DEF w
<1>7. Fresh(m, m2, e)
  <2>. DEFINE w == WriteWord(WriteWord(m1, s, v.ptr), s + PtrWidth, v.cap)
  <2>. HIDE DEF w
  <2>1. Fresh(m, WriteWord(w, s + 2 * PtrWidth, v.len), e)
    BY <1>2, <1>3, <1>4, <1>6, FreshWritten DEF WriteWord, w
  <2>. QED
    BY <2>1 DEF w, StoreStr
<1>8. LoadStr(m2, s) = v /\ KeepsBut(m1, m2, s, s + StrSize)
  <2>1. m1 \in Memory
    BY DEF Fresh
  <2>. QED
    BY <2>1, SlotAddrs, StrStored
<1>. QED
  BY <1>7, <1>8

(* allocate_box, and a string moved into it.                               *)
LEMMA StrBoxMade ==
  ASSUME NEW m, NEW loc, NEW D, Good(m, loc, D, AllSlots(D), {}), NEW l \in Locals,
         loc[l] = Nothing, NEW k \in Locals, l # k, loc[k].type = "str",
         HasRoom(m, "strbox", StrSize)
  PROVE  LET got == allocate_box(m, "strbox")
         IN  Made(StoreStr(got.m, got.v.ptr, loc[k]), With([loc EXCEPT ![k] = Nothing], l, got.v))
<1>. DEFINE got == allocate_box(m, "strbox")  e == NewAlloc(m, "strbox", StrSize, 1)
            new == WithRefcount(m, "strbox", StrSize)
            m2  == StoreStr(new.m, e.data, loc[k])
<1>1. m \in Memory /\ D \in SUBSET Alloc /\ loc \in [Locals -> Val]
  BY MemoryAllocs DEF Good, ValuesOK
<1>2. got.m = new.m /\ got.v = Value("strbox", new.ptr, 0, 0) /\ got.v.ptr = new.ptr
  BY DEF allocate_box, Layout, Value
<1>3. ShapeOK("strbox", StrSize, 1)
  <2>1. 1 <= MaxItems
    BY ConstantsAssumption
  <2>2. StrSize \in Nat /\ 1 * StrSize = StrSize
    BY StrSizes
  <2>. QED
    BY <2>1, <2>2 DEF ShapeOK, Types, ListTypes, BoxTypes, Plain
<1>4. AllocOK(e) /\ Fresh(m, new.m, e)
  BY <1>1, <1>3, FreshAlloc
<1>5. e.data = new.ptr /\ e.type = "strbox" /\ e.k = 1
  BY DEF NewAlloc
<1>. HIDE DEF e, new, got
<1>6. got.v \in Val /\ PointsTo(got.v, e)
  BY <1>2, <1>4, <1>5, BoxPoints DEF BoxTypes
<1>7. SlotAt(e, 1) = e.data /\ Slots(e) = {e.data}
  <2>1. e.data \in Nat
    BY <1>4, Parts
  <2>2. SlotAt(e, 1) = e.data
    BY <1>5, <2>1, StrSizes DEF SlotAt
  <2>. QED
    BY <1>5, <2>2 DEF Slots
<1>8. Fresh(m, m2, e) /\ LoadStr(m2, e.data) = loc[k]
  BY <1>1, <1>4, <1>7, FreshStored
<1>9. Contents(m2, e) /\ Filled(m2, e, e.data, loc[k])
  BY <1>5, <1>7, <1>8 DEF Fresh, Contents, Filled, Plain
<1>. HIDE DEF m2
<1>10. Good(m2, With([loc EXCEPT ![k] = Nothing], l, got.v), D \cup {e}, AllSlots(D \cup {e}), {})
  BY <1>4, <1>6, <1>8, <1>9, AddedMoved
<1>11. D \cup {e} \in SUBSET Alloc
  BY <1>1, <1>4 DEF AllocOK
<1>. QED
  BY <1>2, <1>5, <1>10, <1>11 DEF Made, m2, got

(* A closure's function pointer and on_drop.                               *)
ClosureWords(m, data, on_drop) ==
  WriteWord(WriteWord(m, data, Text), data + PtrWidth, on_drop)

(* What roc_erased_callable_allocate writes into the payload.              *)
LEMMA ClosureStarted ==
  ASSUME NEW m, NEW m1, NEW e, AllocOK(e), e.type = "fn", Fresh(m, m1, e), NEW c \in Nat
  PROVE  LET m2 == ClosureWords(m1, e.data, c)
         IN  Fresh(m, m2, e) /\ Word(m2, e.data + PtrWidth) = c
<1>. DEFINE w == WriteWord(m1, e.data, Text)  m2 == WriteWord(w, e.data + PtrWidth, c)
<1>1. /\ e.data \in Nat /\ e.data - PtrWidth \in Nat /\ SizeAddr(e.data, e.type) \in Nat
      /\ SizeAddr(e.data, e.type) + PtrWidth <= e.data - PtrWidth
      /\ High(e) \in Nat /\ High(e) <= MaxAddr /\ e.data % PtrWidth = 0 /\ e.n \in Nat
      /\ High(e) = e.data + e.n
  BY Parts DEF High
<1>2. e.n >= 16
  <2>1. e.k \in Nat /\ e.k * StrSize \in Nat
    BY StrSizes DEF AllocOK, Alloc
  <2>. QED
    BY <2>1 DEF AllocOK, CaptureOffset
<1>3. /\ e.data + PtrWidth <= High(e) /\ SizeAddr(e.data, e.type) + PtrWidth <= e.data
      /\ (e.data + PtrWidth) + PtrWidth <= High(e)
      /\ SizeAddr(e.data, e.type) + PtrWidth <= e.data + PtrWidth
      /\ e.data <= e.data + PtrWidth /\ e.data + PtrWidth \in Nat /\ e.data <= e.data
      /\ PtrWidth \in Nat /\ Text \in Nat
  BY <1>1, <1>2, Widths DEF Text
<1>4. Fresh(m, w, e)
  BY <1>1, <1>3, FreshWritten DEF WriteWord
<1>. HIDE DEF w
<1>5. Fresh(m, m2, e)
  BY <1>3, <1>4, FreshWritten DEF WriteWord
<1>6. WordAddr(e.data + PtrWidth)
  <2>1. (e.data + PtrWidth) % PtrWidth = 0
    <3>1. CASE PtrWidth = 4
      BY <1>1, <3>1
    <3>2. CASE PtrWidth = 8
      BY <1>1, <3>2
    <3>. QED
      BY <3>1, <3>2, Widths
  <2>2. PtrWidth <= e.data + PtrWidth /\ e.data + PtrWidth < MaxAddr
    BY <1>1, <1>2, Widths
  <2>. QED
    BY <1>3, <2>1, <2>2, IsWordAddr
<1>7. Word(m2, e.data + PtrWidth) = c
  BY <1>4, <1>6, WordWritten DEF Fresh
<1>. QED
  BY <1>5, <1>7 DEF ClosureWords, w

(* roc_erased_callable_allocate without a capture.                         *)
LEMMA ClosureMade ==
  ASSUME NEW m, NEW loc, NEW D, Good(m, loc, D, AllSlots(D), {}), NEW l \in Locals,
         loc[l] = Nothing, HasRoom(m, "fn", CaptureOffset)
  PROVE  LET got == erased_callable_allocate(m, <<>>) IN Made(got.m, With(loc, l, got.v))
<1>. DEFINE got == erased_callable_allocate(m, <<>>)  e == NewAlloc(m, "fn", CaptureOffset, 0)
            new == WithRefcount(m, "fn", CaptureOffset)
            m2  == ClosureWords(new.m, new.ptr, 0)
<1>1. m \in Memory /\ D \in SUBSET Alloc
  BY MemoryAllocs DEF Good
<1>2. got.m = m2 /\ got.v = Value("fn", new.ptr, 0, 0)
  <2>1. CaptureOffset + StrSize * Len(<<>>) = CaptureOffset
    BY StrSizes DEF CaptureOffset
  <2>. QED
    BY <2>1 DEF erased_callable_allocate, ClosureWords
<1>3. ShapeOK("fn", CaptureOffset, 0)
  <2>1. CaptureOffset + 0 * StrSize = CaptureOffset /\ CaptureOffset \in Nat /\ 0 <= MaxItems
    BY StrSizes, ConstantsAssumption DEF CaptureOffset
  <2>. QED
    BY <2>1 DEF ShapeOK, Types, ListTypes, BoxTypes, Plain
<1>4. AllocOK(e) /\ Fresh(m, new.m, e)
  BY <1>1, <1>3, FreshAlloc
<1>5. e.data = new.ptr /\ e.type = "fn" /\ e.k = 0
  BY DEF NewAlloc
<1>. HIDE DEF e, new, got
<1>6. got.v \in Val /\ PointsTo(got.v, e)
  BY <1>2, <1>4, <1>5, BoxPoints DEF BoxTypes
<1>7. Fresh(m, m2, e) /\ Word(m2, e.data + PtrWidth) = 0
  BY <1>4, <1>5, ClosureStarted
<1>8. Contents(m2, e) /\ Slots(e) = {}
  BY <1>5, <1>7 DEF Contents, Fresh, Plain, Slots
<1>. HIDE DEF m2
<1>9. Good(m2, With(loc, l, got.v), D \cup {e}, AllSlots(D \cup {e}), {})
  BY <1>4, <1>6, <1>7, <1>8, AddedPlain
<1>10. D \cup {e} \in SUBSET Alloc
  BY <1>1, <1>4 DEF AllocOK
<1>. QED
  BY <1>2, <1>9, <1>10 DEF Made, got

(* roc_erased_callable_allocate with a string moved into its capture.      *)
LEMMA CaptureMade ==
  ASSUME NEW m, NEW loc, NEW D, Good(m, loc, D, AllSlots(D), {}), NEW l \in Locals,
         loc[l] = Nothing, NEW k \in Locals, l # k, loc[k].type = "str",
         HasRoom(m, "fn", CaptureOffset + StrSize)
  PROVE  LET got == erased_callable_allocate(m, <<loc[k]>>)
         IN  Made(got.m, With([loc EXCEPT ![k] = Nothing], l, got.v))
<1>. DEFINE got == erased_callable_allocate(m, <<loc[k]>>)
            e   == NewAlloc(m, "fn", CaptureOffset + StrSize, 1)
            new == WithRefcount(m, "fn", CaptureOffset + StrSize)
            m1  == ClosureWords(new.m, new.ptr, OnDrop)
            at  == new.ptr + CaptureOffset
            m2  == StoreStr(m1, at, loc[k])
<1>1. m \in Memory /\ D \in SUBSET Alloc /\ loc \in [Locals -> Val]
  BY MemoryAllocs DEF Good, ValuesOK
<1>2. got.m = m2 /\ got.v = Value("fn", new.ptr, 0, 0)
  <2>1. /\ StrSize * Len(<<loc[k]>>) = StrSize /\ <<loc[k]>> # <<>> /\ <<loc[k]>>[1] = loc[k]
    BY StrSizes
  <2>. QED
    BY <2>1 DEF erased_callable_allocate, ClosureWords
<1>3. ShapeOK("fn", CaptureOffset + StrSize, 1)
  <2>1. /\ CaptureOffset + 1 * StrSize = CaptureOffset + StrSize
        /\ CaptureOffset + StrSize \in Nat /\ 1 <= MaxItems
    BY StrSizes, ConstantsAssumption DEF CaptureOffset
  <2>. QED
    BY <2>1 DEF ShapeOK, Types, ListTypes, BoxTypes, Plain
<1>4. AllocOK(e) /\ Fresh(m, new.m, e)
  BY <1>1, <1>3, FreshAlloc
<1>5. e.data = new.ptr /\ e.type = "fn" /\ e.k = 1
  BY DEF NewAlloc
<1>. HIDE DEF e, new, got
<1>6. got.v \in Val /\ PointsTo(got.v, e)
  BY <1>2, <1>4, <1>5, BoxPoints DEF BoxTypes
<1>7. Fresh(m, m1, e) /\ Word(m1, e.data + PtrWidth) = OnDrop
  BY <1>4, <1>5, ClosureStarted DEF OnDrop
<1>8. SlotAt(e, 1) = at /\ Slots(e) = {at} /\ e.data \in Nat /\ at \in Nat
  <2>1. e.data \in Nat /\ at \in Nat
    BY <1>4, <1>5, Parts DEF CaptureOffset
  <2>2. SlotAt(e, 1) = at
    BY <1>5, <2>1, StrSizes DEF SlotAt, CaptureOffset
  <2>. QED
    BY <1>5, <2>1, <2>2 DEF Slots
<1>. HIDE DEF m1
<1>9. Fresh(m, m2, e) /\ LoadStr(m2, at) = loc[k] /\ KeepsBut(m1, m2, at, at + StrSize)
  BY <1>1, <1>4, <1>7, <1>8, FreshStored
<1>10. Word(m2, e.data + PtrWidth) = OnDrop
  <2>1. e.data + PtrWidth \in Nat /\ (e.data + PtrWidth) + PtrWidth <= at
    BY <1>5, <1>8, Widths DEF CaptureOffset
  <2>. QED
    BY <1>7, <1>9, <2>1 DEF KeepsBut
<1>11. Contents(m2, e) /\ Filled(m2, e, at, loc[k])
  BY <1>5, <1>8, <1>9, <1>10 DEF Fresh, Contents, Filled, Plain
<1>. HIDE DEF m2
<1>12. Good(m2, With([loc EXCEPT ![k] = Nothing], l, got.v), D \cup {e}, AllSlots(D \cup {e}), {})
  BY <1>4, <1>6, <1>9, <1>11, AddedMoved
<1>13. D \cup {e} \in SUBSET Alloc
  BY <1>1, <1>4 DEF AllocOK
<1>. QED
  BY <1>2, <1>12, <1>13 DEF Made, got

(* list_from_strings, as far as the first n strings.                       *)
Stores(f, m, ptr, strings, n) ==
  f = [i \in 0 .. n |-> IF i = 0 THEN m
                        ELSE StoreStr(f[i - 1], ptr + (i - 1) * StrSize, strings[i])]

(* The function by which list_from_strings is defined exists.              *)
LEMMA StoresExists ==
  ASSUME NEW m, NEW ptr, NEW strings PROVE \A n \in Nat : \E f : Stores(f, m, ptr, strings, n)
<1>. DEFINE S == {n \in Nat : \E f : Stores(f, m, ptr, strings, n)}
            at(i) == ptr + (i - 1) * StrSize
<1>1. 0 \in S
  <2>. DEFINE f == [i \in 0 .. 0 |-> m]
  <2>1. Stores(f, m, ptr, strings, 0)
    BY DEF Stores
  <2>. QED
    BY <2>1
<1>2. ASSUME NEW n \in Nat, n \in S PROVE n + 1 \in S
  <2>1. PICK f : Stores(f, m, ptr, strings, n)
    BY <1>2
  <2>. DEFINE g == [i \in 0 .. n + 1 |->
                      IF i = n + 1 THEN StoreStr(f[n], at(i), strings[i]) ELSE f[i]]
  <2>2. \A i \in 0 .. n : g[i] = f[i]
                          /\ f[i] = IF i = 0 THEN m ELSE StoreStr(f[i - 1], at(i), strings[i])
    BY <2>1 DEF Stores
  <2>3. \A i \in 0 .. n + 1 : g[i] = IF i = 0 THEN m ELSE StoreStr(g[i - 1], at(i), strings[i])
    <3>. TAKE i \in 0 .. n + 1
    <3>1. CASE i = n + 1
      <4>1. i # 0 /\ i - 1 = n /\ n \in 0 .. n
        BY <3>1
      <4>2. g[n] = f[n]
        BY <2>2, <4>1
      <4>3. g[i] = StoreStr(f[n], at(i), strings[i])
        BY <3>1
      <4>. HIDE DEF g, at
      <4>. QED
        BY <4>1, <4>2, <4>3
    <3>2. CASE i \in 0 .. n /\ i # 0
      <4>1. i - 1 \in 0 .. n
        BY <3>2
      <4>2. g[i] = f[i] /\ g[i - 1] = f[i - 1]
        BY <2>2, <3>2, <4>1
      <4>. HIDE DEF g, at
      <4>. QED
        BY <2>2, <3>2, <4>2
    <3>3. CASE i = 0
      <4>1. 0 \in 0 .. n
        OBVIOUS
      <4>2. g[0] = f[0] /\ f[0] = m
        BY <2>2, <4>1
      <4>. QED
        BY <3>3, <4>2
    <3>. QED
      BY <3>1, <3>2, <3>3
  <2>4. Stores(g, m, ptr, strings, n + 1)
    <3>1. g = [i \in 0 .. n + 1 |-> g[i]]
      OBVIOUS
    <3>. HIDE DEF g
    <3>. QED
      BY <2>3, <3>1 DEF Stores
  <2>. QED
    BY <2>4
<1>. HIDE DEF S
<1>3. \A n \in Nat : n \in S
  BY <1>1, <1>2, SetInduction
<1>. QED
  BY <1>3 DEF S

ListStores(m, strings, n, f) ==
  LET got == list_allocate(m, "strs", n)
  IN  /\ list_from_strings(m, strings) = [got EXCEPT !.m = f[n]]
      /\ f[0] = got.m
      /\ \A i \in 1 .. n : f[i] = StoreStr(f[i - 1], got.v.ptr + (i - 1) * StrSize, strings[i])

LEMMA StoresOne ==
  ASSUME NEW m, NEW strings, NEW n \in Nat, Len(strings) = n
  PROVE  \E f : ListStores(m, strings, n, f)
<1>. DEFINE got == list_allocate(m, "strs", n)
            f   == CHOOSE g : Stores(g, got.m, got.v.ptr, strings, n)
<1>1. Stores(f, got.m, got.v.ptr, strings, n)
  BY StoresExists
<1>2. list_from_strings(m, strings) = [got EXCEPT !.m = f[n]]
  BY DEF list_from_strings, Stores
<1>. HIDE DEF f, got
<1>3. \A i \in 0 .. n : f[i] = IF i = 0 THEN got.m
                               ELSE StoreStr(f[i - 1], got.v.ptr + (i - 1) * StrSize, strings[i])
  BY <1>1 DEF Stores
<1>4. f[0] = got.m
  BY <1>3
<1>5. \A i \in 1 .. n : f[i] = StoreStr(f[i - 1], got.v.ptr + (i - 1) * StrSize, strings[i])
  BY <1>3
<1>. QED
  BY <1>2, <1>4, <1>5 DEF got, ListStores

(* The first i strings are in the list.                                    *)
Stored(m, m2, e, strings, i) ==
  /\ Fresh(m, m2, e) /\ ElementCount(m2, e.data) = e.k
  /\ \A j \in 1 .. i : LoadStr(m2, SlotAt(e, j)) = strings[j]

LEMMA StringStored ==
  ASSUME NEW m, NEW m1, NEW e, AllocOK(e), e.type = "strs", NEW strings,
         NEW i \in Nat, i + 1 <= e.k, Stored(m, m1, e, strings, i),
         strings[i + 1] \in Val, strings[i + 1].type = "str"
  PROVE  Stored(m, StoreStr(m1, SlotAt(e, i + 1), strings[i + 1]), e, strings, i + 1)
<1>. DEFINE s == SlotAt(e, i + 1)  m2 == StoreStr(m1, s, strings[i + 1])
<1>1. e.k \in Nat /\ i + 1 \in 1 .. e.k
  BY Parts
<1>2. s \in Slots(e) /\ s \in Nat /\ e.data <= s
  BY <1>1, SlotIn DEF Slots
<1>3. Fresh(m, m2, e) /\ LoadStr(m2, s) = strings[i + 1] /\ KeepsBut(m1, m2, s, s + StrSize)
  BY <1>2, FreshStored DEF Stored
<1>. HIDE DEF m2
<1>4. ElementCount(m2, e.data) = ElementCount(m1, e.data)
  <2>1. e.data - 2 * PtrWidth \in Nat /\ e.data \in Nat
    BY CountOfElements, Parts
  <2>2. (e.data - 2 * PtrWidth) + PtrWidth <= s
    BY <1>2, <2>1, Widths
  <2>. QED
    BY <1>3, <2>1, <2>2 DEF KeepsBut, ElementCount
<1>5. ASSUME NEW j \in 1 .. i PROVE LoadStr(m2, SlotAt(e, j)) = LoadStr(m1, SlotAt(e, j))
  <2>. DEFINE r == SlotAt(e, j)
  <2>1. j \in 1 .. e.k /\ j < i + 1
    BY <1>1
  <2>2. r + StrSize <= s
    BY <1>1, <2>1, SlotsDiffer
  <2>3. r \in Nat /\ r + PtrWidth \in Nat /\ r + 2 * PtrWidth \in Nat
    BY <2>1, SlotIn, Widths
  <2>. HIDE DEF r, s
  <2>4. r + PtrWidth <= s /\ (r + PtrWidth) + PtrWidth <= s /\ (r + 2 * PtrWidth) + PtrWidth <= s
    BY <1>2, <2>2, <2>3, StrSizes, Widths
  <2>5. LoadStr(m2, r) = LoadStr(m1, r)
    BY <1>3, <2>3, <2>4 DEF KeepsBut, LoadStr
  <2>. QED
    BY <2>5 DEF r
<1>6. \A j \in 1 .. i + 1 : LoadStr(m2, SlotAt(e, j)) = strings[j]
  <2>. TAKE j \in 1 .. i + 1
  <2>1. CASE j = i + 1
    BY <1>3, <2>1
  <2>2. CASE j \in 1 .. i
    BY <1>5, <2>2 DEF Stored
  <2>. QED
    BY <2>1, <2>2
<1>. QED
  BY <1>3, <1>4, <1>6 DEF Stored, m2

(* All strings of a list are stored, none over another.                    *)
LEMMA AllStored ==
  ASSUME NEW m, NEW e, AllocOK(e), e.type = "strs", NEW strings,
         \A j \in 1 .. e.k : strings[j] \in Val /\ strings[j].type = "str",
         NEW f, Stored(m, f[0], e, strings, 0),
         \A i \in 1 .. e.k : f[i] = StoreStr(f[i - 1], SlotAt(e, i), strings[i])
  PROVE  Stored(m, f[e.k], e, strings, e.k)
<1>. DEFINE S == {i \in Nat : i <= e.k => Stored(m, f[i], e, strings, i)}
<1>1. e.k \in Nat
  BY Parts
<1>2. 0 \in S
  OBVIOUS
<1>3. ASSUME NEW i \in Nat, i \in S PROVE i + 1 \in S
  <2>1. SUFFICES ASSUME i + 1 <= e.k PROVE Stored(m, f[i + 1], e, strings, i + 1)
    OBVIOUS
  <2>2. Stored(m, f[i], e, strings, i) /\ i + 1 \in 1 .. e.k /\ (i + 1) - 1 = i
    BY <1>1, <1>3, <2>1
  <2>3. f[i + 1] = StoreStr(f[i], SlotAt(e, i + 1), strings[i + 1])
    BY <2>2
  <2>. QED
    BY <2>1, <2>2, <2>3, StringStored
<1>. HIDE DEF S
<1>4. \A i \in Nat : i \in S
  BY <1>2, <1>3, SetInduction
<1>. QED
  BY <1>1, <1>4 DEF S

LEMMA EmptyIsSmall == \A m : Small(str_from_slice(m, 0).v) /\ str_from_slice(m, 0).v \in Val
<1>. TAKE m
<1>1. 0 < StrSize /\ ~(0 > PtrWidth)
  BY StrSizes, Widths
<1>2. str_from_slice(m, 0).v = [type |-> "str", ptr |-> 0, cap |-> 0, len |-> SmallBit + 0]
  BY <1>1 DEF str_from_slice, Value
<1>3. SmallBit + 0 \in SmallBit .. SmallBit + StrSize - 1 /\ SmallBit + 0 \in Nat
  BY StrSizes DEF SmallBit
<1>. QED
  BY <1>2, <1>3 DEF Small, Val, Types

Surrounded(v, small, i, n) == [[j \in 1 .. n |-> small] EXCEPT ![i] = v]

(* RocListWith::from_slice of strings, one of them moved from a variable.  *)
LEMMA StringsMade ==
  ASSUME NEW m, NEW loc, NEW D, Good(m, loc, D, AllSlots(D), {}), NEW l \in Locals,
         loc[l] = Nothing, NEW k \in Locals, l # k, loc[k].type = "str",
         NEW n \in 1 .. MaxItems, NEW i \in 1 .. n, HasRoom(m, "strs", n * StrSize),
         NEW small \in Val, Small(small)
  PROVE  LET got == list_from_strings(m, Surrounded(loc[k], small, i, n))
         IN  Made(got.m, With([loc EXCEPT ![k] = Nothing], l, got.v))
<1>. DEFINE strings == Surrounded(loc[k], small, i, n)
            all == list_allocate(m, "strs", n)
            got == list_from_strings(m, strings)
            e   == NewAlloc(m, "strs", n * StrSize, n)
            new == WithRefcount(m, "strs", n * StrSize)
            t   == SlotAt(e, i)
<1>1. m \in Memory /\ D \in SUBSET Alloc /\ loc \in [Locals -> Val]
  BY MemoryAllocs DEF Good, ValuesOK
<1>2. n \in Nat /\ n > 0 /\ n <= MaxItems
  BY ConstantsAssumption
<1>3. /\ DOMAIN strings = 1 .. n /\ Len(strings) = n /\ strings[i] = loc[k]
      /\ \A j \in 1 .. n : j # i => strings[j] = small
      /\ \A j \in 1 .. n : strings[j] \in Val /\ strings[j].type = "str"
  <2>1. DOMAIN strings = 1 .. n /\ \A j \in 1 .. n : strings[j] = IF j = i THEN loc[k] ELSE small
    BY DEF Surrounded
  <2>2. strings \in Seq(Val)
    <3>1. strings \in [1 .. n -> Val]
      BY <1>1 DEF Surrounded
    <3>. QED
      BY <1>2, <3>1
  <2>. HIDE DEF strings
  <2>3. Len(strings) = n
    BY <1>2, <2>1, <2>2
  <2>. QED
    BY <1>1, <2>1, <2>3 DEF Small
<1>. HIDE DEF strings
<1>4. /\ all.m = WriteWord(new.m, new.ptr - 2 * PtrWidth, n)
      /\ all.v = Value("strs", new.ptr, shifted_capacity(n), n)
  <2>1. Layout("strs").size = StrSize /\ Layout("strs").refcounted /\ n # 0
    BY <1>2 DEF Layout
  <2>. QED
    BY <2>1 DEF list_allocate
<1>5. PICK f : ListStores(m, strings, n, f)
  BY <1>2, <1>3, StoresOne
<1>6. got.m = f[n] /\ got.v = all.v
  <2>1. all = [m |-> all.m, v |-> all.v]
    BY <1>2 DEF list_allocate
  <2>2. got = [all EXCEPT !.m = f[n]]
    BY <1>5 DEF ListStores
  <2>. HIDE DEF all, got
  <2>. QED
    BY <2>1, <2>2
<1>7. ShapeOK("strs", n * StrSize, n)
  <2>1. n * StrSize \in Nat
    BY <1>2, StrSizes
  <2>. QED
    BY <1>2, <2>1 DEF ShapeOK, Types, ListTypes, BoxTypes, Plain
<1>8. AllocOK(e) /\ Fresh(m, new.m, e)
  BY <1>1, <1>7, FreshAlloc
<1>9. e.data = new.ptr /\ e.type = "strs" /\ e.k = n /\ e.n = n * StrSize
  BY DEF NewAlloc
<1>10. all.v.ptr = e.data
  BY <1>4, <1>9 DEF Value
<1>. HIDE DEF e, new, all, got
<1>11. got.v \in Val /\ PointsTo(got.v, e)
  <2>1. Layout("strs").size = StrSize
    BY DEF Layout
  <2>. QED
    BY <1>2, <1>4, <1>6, <1>8, <1>9, <2>1, WholePoints DEF ListTypes
<1>12. e.data \in Nat /\ e.data - 2 * PtrWidth \in Nat
  BY <1>8, <1>9, Parts, CountOfElements
<1>13. Fresh(m, all.m, e) /\ ElementCount(all.m, e.data) = e.k
  <2>1. /\ (e.data - 2 * PtrWidth) + PtrWidth = e.data - PtrWidth
        /\ SizeAddr(e.data, e.type) + PtrWidth <= e.data - 2 * PtrWidth
        /\ e.data - PtrWidth <= High(e) /\ (e.data - 2 * PtrWidth) + PtrWidth <= e.data - PtrWidth
        /\ (e.data - 2 * PtrWidth) + PtrWidth <= High(e)
    <3>1. e.data <= High(e) /\ High(e) \in Nat /\ e.data - PtrWidth \in Nat
      BY <1>8, Parts
    <3>2. SizeAddr(e.data, e.type) + PtrWidth <= e.data - 2 * PtrWidth
      BY <1>8, <1>9, CountOfElements
    <3>. QED
      BY <1>12, <3>1, <3>2, Widths
  <2>2. PtrWidth \in Nat
    BY Widths
  <2>3. Fresh(m, all.m, e)
    BY <1>2, <1>4, <1>8, <1>9, <1>12, <2>1, <2>2, FreshWritten DEF WriteWord
  <2>4. WordAddr(e.data - 2 * PtrWidth)
    <3>1. e.data - 2 * PtrWidth < MaxAddr /\ PtrWidth <= e.data - 2 * PtrWidth
      <4>1. e.data <= High(e) /\ High(e) <= MaxAddr /\ High(e) \in Nat /\ e.data > 5 * PtrWidth
        BY <1>8, Parts, StaticApart
      <4>. QED
        BY <1>12, <4>1, Widths
    <3>2. (e.data - 2 * PtrWidth) % PtrWidth = 0
      BY <1>8, <1>9, CountOfElements
    <3>. QED
      BY <1>12, <3>1, <3>2, IsWordAddr
  <2>5. new.m \in Memory
    BY <1>8 DEF Fresh
  <2>6. Word(all.m, e.data - 2 * PtrWidth) = n
    BY <1>2, <1>4, <1>9, <2>4, <2>5, WordWritten
  <2>. QED
    BY <1>9, <2>3, <2>6 DEF ElementCount
<1>14. Stored(m, f[n], e, strings, n)
  <2>1. \A j \in 1 .. n : f[j] = StoreStr(f[j - 1], SlotAt(e, j), strings[j])
    <3>. TAKE j \in 1 .. n
    <3>1. SlotAt(e, j) = e.data + (j - 1) * StrSize
      BY <1>8, <1>9, SlotIn
    <3>. QED
      BY <1>5, <1>10, <3>1 DEF ListStores, all
  <2>2. Stored(m, f[0], e, strings, 0)
    <3>1. f[0] = all.m
      BY <1>5 DEF ListStores, all
    <3>. QED
      BY <1>13, <3>1 DEF Stored
  <2>. QED
    BY <1>3, <1>8, <1>9, <2>1, <2>2, AllStored
<1>15. Contents(f[n], e)
  BY <1>9, <1>14 DEF Contents, Stored, Fresh, Plain
<1>16. Filled(f[n], e, t, loc[k])
  <2>1. t \in Slots(e) /\ LoadStr(f[n], t) = loc[k]
    BY <1>3, <1>9, <1>14 DEF Slots, Stored
  <2>2. ASSUME NEW s \in Slots(e) \ {t} PROVE Small(LoadStr(f[n], s))
    <3>1. PICK j \in 1 .. n : s = SlotAt(e, j)
      BY <1>9 DEF Slots
    <3>2. j # i
      BY <3>1
    <3>. QED
      BY <1>3, <1>14, <3>1, <3>2 DEF Stored
  <2>. QED
    BY <2>1, <2>2 DEF Filled
<1>. HIDE DEF t
<1>17. Good(f[n], With([loc EXCEPT ![k] = Nothing], l, got.v), D \cup {e}, AllSlots(D \cup {e}), {})
  BY <1>8, <1>11, <1>14, <1>15, <1>16, AddedMoved DEF Stored
<1>18. D \cup {e} \in SUBSET Alloc
  BY <1>1, <1>8 DEF AllocOK
<1>. QED
  BY <1>6, <1>17, <1>18 DEF Made, got, strings

-----------------------------------------------------------------------------
(* roc_realloc, of a list of bytes that grows.                             *)

Copied(m, freed, from, base, n, block) ==
  [freed EXCEPT !.blocks = @ \cup {block},
     !.word = [w \in Words |->
                 LET at == w * PtrWidth - base
                 IN  IF 0 <= at /\ at < n THEN Word(m, from + at) ELSE freed.word[w]]]

LEMMA WordType ==
  ASSUME NEW m \in Memory, NEW a PROVE Word(m, a) \in Nat
BY DEF Word, Memory, Garbage

CopyOK(m, freed, from, base, n, block, m2) ==
  /\ m2 \in Memory /\ m2.blocks = freed.blocks \cup {block} /\ m2.misused = freed.misused
  /\ \A a \in Nat : WordAddr(a) =>
       Word(m2, a) = IF base <= a /\ a < base + n THEN Word(m, from + (a - base))
                     ELSE Word(freed, a)
  /\ KeepsBut(freed, m2, base, base + n)

(* roc_realloc copies what it was asked to into the new block, wherever    *)
(* that lies, and writes nothing else.                                     *)
LEMMA CopiedWords ==
  ASSUME NEW m \in Memory, NEW freed \in Memory, NEW from \in Nat, NEW base \in Nat,
         NEW n \in Nat, NEW block \in [base : 1 .. MaxAddr, size : Nat, align : Nat]
  PROVE  CopyOK(m, freed, from, base, n, block, Copied(m, freed, from, base, n, block))
<1>. DEFINE m2 == Copied(m, freed, from, base, n, block)
            new(w) == LET at == w * PtrWidth - base
                      IN  IF 0 <= at /\ at < n THEN Word(m, from + at) ELSE freed.word[w]
<1>1. \A w \in Words : new(w) \in Nat
  BY WordType DEF Memory
<1>2. /\ m2.blocks = freed.blocks \cup {block} /\ m2.misused = freed.misused
      /\ m2.word = [w \in Words |-> new(w)]
      /\ m2 = [blocks |-> m2.blocks, misused |-> m2.misused, word |-> m2.word]
  <2>. DEFINE B == freed.blocks \cup {block}  W == [w \in Words |-> new(w)]
  <2>1. m2 = [freed EXCEPT !.blocks = B, !.word = W]
    BY DEF Copied
  <2>. HIDE DEF m2, W
  <2>2. m2 = [blocks |-> B, misused |-> freed.misused, word |-> W]
    BY <2>1 DEF Memory
  <2>. QED
    BY <2>2 DEF W
<1>3. m2 \in Memory
  <2>1. m2.word \in [Words -> Nat]
    <3>. HIDE DEF new, m2
    <3>. QED
      BY <1>1, <1>2
  <2>2. m2.blocks \in SUBSET [base : 1 .. MaxAddr, size : Nat, align : Nat] /\ m2.misused \in BOOLEAN
    BY <1>2 DEF Memory
  <2>. HIDE DEF m2
  <2>. QED
    BY <1>2, <2>1, <2>2 DEF Memory
<1>. HIDE DEF m2
<1>4. ASSUME NEW a \in Nat, WordAddr(a)
      PROVE  Word(m2, a) = IF base <= a /\ a < base + n THEN Word(m, from + (a - base))
                           ELSE Word(freed, a)
  <2>. DEFINE w == a \div PtrWidth
  <2>1. w \in Words /\ w * PtrWidth = a /\ a % PtrWidth = 0
    BY <1>4, Widths DEF WordAddr
  <2>2. Word(m2, a) = new(w) /\ Word(freed, a) = freed.word[w]
    <3>1. m2.word[w] = new(w)
      BY <1>2, <2>1
    <3>. HIDE DEF new
    <3>. QED
      BY <2>1, <3>1 DEF Word
  <2>3. new(w) = IF 0 <= a - base /\ a - base < n THEN Word(m, from + (a - base)) ELSE freed.word[w]
    BY <2>1
  <2>4. (0 <= a - base /\ a - base < n) <=> (base <= a /\ a < base + n)
    OBVIOUS
  <2>. HIDE DEF new, w
  <2>. QED
    BY <2>2, <2>3, <2>4
<1>5. KeepsBut(freed, m2, base, base + n)
  <2>. SUFFICES ASSUME NEW a \in Nat, a + PtrWidth <= base \/ base + n <= a
                PROVE  Word(m2, a) = Word(freed, a)
    BY DEF KeepsBut
  <2>1. CASE WordAddr(a)
    BY <1>4, <2>1, Widths
  <2>2. CASE ~WordAddr(a)
    BY <2>2 DEF WordAddr, Word
  <2>. QED
    BY <2>1, <2>2
<1>. QED
  BY <1>2, <1>3, <1>4, <1>5 DEF m2, CopyOK

LEMMA BytesLayout ==
  /\ header_bytes("bytes") = PtrWidth /\ alloc_alignment("bytes") = PtrWidth
  /\ Storage("bytes") = PtrWidth /\ SizeStorage(PtrWidth) = PtrWidth
  /\ Layout("bytes").size = 1 /\ Layout("bytes").align = 1 /\ "bytes" \in Types
BY Widths DEF header_bytes, alloc_alignment, Storage, SizeStorage, Layout, Larger, Types, ListTypes

(* A word stays one when it moves with its block.                          *)
LEMMA WordMoves ==
  ASSUME NEW x \in Nat, NEW y \in Nat, NEW z \in Nat, z <= y,
         x % PtrWidth = 0, y % PtrWidth = 0, z % PtrWidth = 0
  PROVE  (x + (y - z)) % PtrWidth = 0
<1>1. CASE PtrWidth = 4
  <2>1. x % 4 = 0 /\ y % 4 = 0 /\ z % 4 = 0
    BY <1>1
  <2>2. (x + (y - z)) % 4 = 0
    BY <2>1
  <2>. QED
    BY <1>1, <2>2
<1>2. CASE PtrWidth = 8
  <2>1. x % 8 = 0 /\ y % 8 = 0 /\ z % 8 = 0
    BY <1>2
  <2>2. (x + (y - z)) % 8 = 0
    BY <2>1
  <2>. QED
    BY <1>2, <2>2
<1>. QED
  BY <1>1, <1>2, Widths

Grown(got, had) ==
  [data |-> got.ptr + PtrWidth, type |-> "bytes", n |-> had + 1, k |-> 0]

(* The list it has moved is one of bytes again, with the old block given   *)
(* back.                                                                   *)
LEMMA Reallocated ==
  ASSUME NEW m, NEW D, MemoryOK(m, D), NEW d \in D, d.type = "bytes", Refcount(m, d.data) = 1,
         NEW had \in Nat, d.data + had <= High(d),
         Room(free_allocation(m, d.data, "bytes"), PtrWidth + (had + 1), PtrWidth)
  PROVE  LET freed == free_allocation(m, d.data, "bytes")
             got   == roc_realloc(m, d.data - PtrWidth, PtrWidth + (had + 1), PtrWidth)
             e     == Grown(got, had)
             m2    == Write(got.m, e.data + had, 1, Text)
         IN  AllocOK(e) /\ Fresh(freed, m2, e) /\ Contents(m2, e)
<1>. DEFINE freed  == free_allocation(m, d.data, "bytes")
            got    == roc_realloc(m, d.data - PtrWidth, PtrWidth + (had + 1), PtrWidth)
            e      == Grown(got, had)
            total  == PtrWidth + (had + 1) + PtrWidth
            base   == First(Fits(freed, total, PtrWidth))
            old    == d.n + PtrWidth + PtrWidth
            n      == Smaller(old, total)
            copied == Copied(m, freed, Low(d), base, n, Block(base, total, PtrWidth))
            sized  == WriteWord(copied, base, total)
            m2     == Write(sized, base + 2 * PtrWidth + had, 1, Text)
<1>1. AllocOK(d) /\ Contents(m, d) /\ m \in Memory
  BY DEF MemoryOK
<1>2. /\ d.data \in Nat /\ d.n \in Nat /\ High(d) = d.data + d.n /\ High(d) <= MaxAddr
      /\ d.data % PtrWidth = 0 /\ d.data > 5 * PtrWidth /\ had <= d.n
      /\ Low(d) = d.data - PtrWidth - PtrWidth /\ Low(d) \in Nat
  BY <1>1, Parts, StaticApart, BytesLayout, Widths DEF High, Low, Start
<1>3. Word(m, d.data - PtrWidth - PtrWidth) = old
  BY <1>1, BytesLayout DEF Contents, SizeAddr, BlockOf, BlockAround, Block
<1>4. freed \in Memory
  BY FreedOne DEF MemoryOK
<1>5. freed = roc_dealloc(m, d.data - PtrWidth, PtrWidth)
  BY BytesLayout DEF free_allocation
<1>. HIDE DEF freed
<1>6. base \in Fits(freed, total, PtrWidth) /\ total \in Nat
  <2>1. total \in Nat /\ PtrWidth \in Nat
    BY Widths
  <2>2. Fits(freed, total, PtrWidth) # {}
    BY BytesLayout DEF Room, freed
  <2>. QED
    BY <2>1, <2>2, FitsAt
<1>7. /\ base \in Nat /\ base \in 1 .. MaxAddr /\ base >= 5 * PtrWidth /\ base % PtrWidth = 0
      /\ base + total <= MaxAddr
  <2>1. base \in StaticPtr + StaticLen .. MaxAddr /\ base % PtrWidth = 0 /\ base + total <= MaxAddr
    BY <1>6 DEF Fits
  <2>. HIDE DEF base, total
  <2>. QED
    BY <1>6, <2>1, StrSizes, Widths
<1>. HIDE DEF base
<1>8. got = [m |-> sized, ptr |-> base + PtrWidth]
  <2>1. got = [m |-> WriteWord(copied, base + PtrWidth - PtrWidth, total), ptr |-> base + PtrWidth]
    BY <1>2, <1>3, <1>5, BytesLayout DEF roc_realloc, Copied, Block, base
  <2>2. base + PtrWidth - PtrWidth = base
    BY <1>7, Widths
  <2>. QED
    BY <2>1, <2>2
<1>9. e = [data |-> base + 2 * PtrWidth, type |-> "bytes", n |-> had + 1, k |-> 0]
  BY <1>7, <1>8, Widths DEF Grown
<1>. HIDE DEF got, e
<1>10. /\ e.type = "bytes" /\ e.n = had + 1 /\ e.k = 0 /\ e.data = base + 2 * PtrWidth /\ e.data \in Nat
       /\ Low(e) = base /\ High(e) = base + total /\ High(e) = e.data + had + 1
       /\ SizeAddr(e.data, e.type) = base
  BY <1>7, <1>9, BytesLayout, Widths DEF Low, High, Start, SizeAddr
<1>11. BlockOf(e) = Block(base, total, PtrWidth) /\ BlockOf(e).size = total
  BY <1>7, <1>10, BytesLayout, Widths DEF BlockOf, BlockAround, Start, Block
<1>12. AllocOK(e)
  <2>1. e.data % PtrWidth = 0 /\ e.data % 1 = 0
    <3>1. CASE PtrWidth = 4
      BY <1>7, <1>10, <3>1
    <3>2. CASE PtrWidth = 8
      BY <1>7, <1>10, <3>2
    <3>. QED
      BY <3>1, <3>2, Widths
  <2>2. e \in Alloc
    BY <1>9, <1>10, BytesLayout DEF Alloc
  <2>3. 0 <= MaxItems
    BY ConstantsAssumption
  <2>4. Low(e) >= StaticPtr + StaticLen
    BY <1>7, <1>10, StrSizes, Widths
  <2>. QED
    BY <1>7, <1>10, <2>1, <2>2, <2>3, <2>4, BytesLayout DEF AllocOK, Plain
<1>13. n \in Nat /\ n >= 2 * PtrWidth + had /\ n <= total
  BY <1>2, Widths DEF Smaller
<1>14. /\ copied \in Memory /\ copied.blocks = freed.blocks \cup {BlockOf(e)}
       /\ copied.misused = freed.misused
       /\ \A a \in Nat : WordAddr(a) =>
            Word(copied, a) = IF base <= a /\ a < base + n THEN Word(m, Low(d) + (a - base))
                              ELSE Word(freed, a)
       /\ KeepsBut(freed, copied, base, base + n)
  <2>1. Block(base, total, PtrWidth) \in [base : 1 .. MaxAddr, size : Nat, align : Nat]
    BY <1>6, <1>7, Widths DEF Block
  <2>2. Low(d) \in Nat /\ base \in Nat /\ n \in Nat
    BY <1>2, <1>7, <1>13
  <2>. HIDE DEF n, total
  <2>3. CopyOK(m, freed, Low(d), base, n, Block(base, total, PtrWidth), copied)
    BY <1>1, <1>4, <2>1, <2>2, CopiedWords
  <2>. HIDE DEF copied
  <2>. QED
    BY <1>11, <2>3 DEF CopyOK
<1>. HIDE DEF copied
<1>15. /\ sized \in Memory /\ Word(sized, base) = total /\ KeepsBut(copied, sized, base, base + PtrWidth)
       /\ sized.blocks = copied.blocks /\ sized.misused = copied.misused
  <2>1. WordAddr(base)
    BY <1>7, Widths, IsWordAddr
  <2>2. PtrWidth \in Nat
    BY Widths
  <2>. HIDE DEF total
  <2>3. sized \in Memory /\ Word(sized, base) = total
    BY <1>6, <1>14, <2>1, WordWritten
  <2>4. sized.blocks = copied.blocks /\ sized.misused = copied.misused
    BY DEF sized, WriteWord, Write
  <2>5. KeepsBut(copied, sized, base, base + PtrWidth)
    BY <1>6, <1>7, <1>14, <2>2, WriteKeepsBut DEF WriteWord
  <2>. QED
    BY <2>3, <2>4, <2>5
<1>. HIDE DEF sized
<1>16. ASSUME NEW a, WordAddr(a), base + PtrWidth <= a, a < base + 2 * PtrWidth + had
       PROVE  Word(sized, a) = Word(m, Low(d) + (a - base))
  <2>1. a \in Nat
    BY <1>16 DEF WordAddr
  <2>2. Word(sized, a) = Word(copied, a)
    BY <1>15, <1>16, <2>1 DEF KeepsBut
  <2>3. base <= a /\ a < base + n
    BY <1>7, <1>13, <1>16, <2>1, Widths
  <2>. QED
    BY <1>14, <1>16, <2>1, <2>2, <2>3
<1>17. Fresh(freed, sized, e)
  <2>1. Word(sized, e.data - PtrWidth) = 1
    <3>1. e.data - PtrWidth = base + PtrWidth
      BY <1>7, <1>10, Widths
    <3>2. WordAddr(base + PtrWidth)
      <4>1. (base + PtrWidth) % PtrWidth = 0
        <5>1. CASE PtrWidth = 4
          BY <1>7, <5>1
        <5>2. CASE PtrWidth = 8
          BY <1>7, <5>2
        <5>. QED
          BY <5>1, <5>2, Widths
      <4>. QED
        BY <1>7, <4>1, Widths, IsWordAddr
    <3>4. base + PtrWidth <= base + PtrWidth /\ base + PtrWidth < base + 2 * PtrWidth + had
      BY <1>7, Widths
    <3>5. Word(sized, base + PtrWidth) = Word(m, d.data - PtrWidth)
      <4>. DEFINE a == base + PtrWidth
      <4>1. WordAddr(a) /\ base + PtrWidth <= a /\ a < base + 2 * PtrWidth + had
        BY <3>2, <3>4
      <4>2. Low(d) + (a - base) = d.data - PtrWidth
        BY <1>2, <1>7, Widths
      <4>. HIDE DEF a
      <4>3. Word(sized, a) = Word(m, d.data - PtrWidth)
        BY <1>16, <4>1, <4>2
      <4>. QED
        BY <4>3 DEF a
    <3>6. Word(m, d.data - PtrWidth) = 1
      BY DEF Refcount
    <3>. QED
      BY <3>1, <3>5, <3>6
  <2>2. KeepsBut(freed, sized, base, base + total)
    <3>. SUFFICES ASSUME NEW a \in Nat, a + PtrWidth <= base \/ base + total <= a
                  PROVE  Word(sized, a) = Word(freed, a)
      BY DEF KeepsBut
    <3>1. /\ a + PtrWidth <= base \/ base + PtrWidth <= a
          /\ a + PtrWidth <= base \/ base + n <= a
      BY <1>7, <1>13, Widths
    <3>. QED
      BY <1>14, <1>15, <3>1 DEF KeepsBut
  <2>3. High(e) - Low(e) = total
    BY <1>6, <1>7, <1>10
  <2>. QED
    BY <1>6, <1>10, <1>11, <1>14, <1>15, <2>1, <2>2, <2>3, BytesLayout DEF Fresh, Refcount
<1>18. Fresh(freed, m2, e)
  <2>1. /\ base + 2 * PtrWidth + had \in Nat /\ base + 2 * PtrWidth + had + 1 <= High(e)
        /\ SizeAddr(e.data, e.type) + PtrWidth <= base + 2 * PtrWidth + had
        /\ e.data <= base + 2 * PtrWidth + had
    BY <1>7, <1>10, Widths
  <2>2. Text \in Nat /\ 1 \in Nat
    BY DEF Text
  <2>. QED
    BY <1>12, <1>17, <2>1, <2>2, FreshWritten
<1>19. TextIn(m2, e.data, High(e))
  <2>. SUFFICES ASSUME NEW a, WordAddr(a), e.data <= a, a < High(e) PROVE Word(m2, a) = Text
    BY DEF TextIn
  <2>. DEFINE last == base + 2 * PtrWidth + had
  <2>1. a \in Nat /\ a % PtrWidth = 0 /\ last \in Nat /\ 1 \in Nat /\ Text \in Nat /\ last = e.data + had
    BY <1>7, <1>10, Widths DEF WordAddr, Text
  <2>2. CASE a = last
    <3>1. TextIn(m2, last, last + 1)
      BY <1>15, <2>1, TextWritten
    <3>. QED
      BY <2>1, <2>2, <3>1 DEF TextIn
  <2>3. CASE a < last
    <3>1. Word(sized, a) = Word(m, Low(d) + (a - base))
      BY <1>7, <1>10, <1>16, <2>1, <2>3, Widths
    <3>2. Word(m, Low(d) + (a - base)) = Text
      <4>. DEFINE b == Low(d) + (a - base)
      <4>1. b = d.data + (a - e.data) /\ b \in Nat /\ d.data <= b /\ b < High(d)
        <5>1. /\ base \in Nat /\ a \in Nat /\ had \in Nat /\ d.data \in Nat /\ d.n \in Nat
              /\ PtrWidth \in Nat /\ e.data \in Nat /\ Low(d) \in Nat
              /\ e.data = base + 2 * PtrWidth /\ Low(d) = d.data - PtrWidth - PtrWidth
              /\ e.data <= a /\ a < e.data + had /\ had <= d.n /\ High(d) = d.data + d.n
          BY <1>2, <1>7, <1>10, <2>1, <2>3, Widths
        <5>2. b = d.data + (a - e.data)
          BY <5>1
        <5>. HIDE DEF b
        <5>. QED
          BY <5>1, <5>2
      <4>2. b % PtrWidth = 0
        <5>1. /\ e.data % PtrWidth = 0 /\ d.data % PtrWidth = 0
              /\ e.data \in Nat /\ d.data \in Nat /\ a \in Nat /\ e.data <= a
          BY <1>2, <1>10, <1>12, <2>1 DEF AllocOK
        <5>2. (d.data + (a - e.data)) % PtrWidth = 0
          BY <2>1, <5>1, WordMoves
        <5>. QED
          BY <4>1, <5>2
      <4>3. PtrWidth <= b /\ b < MaxAddr
        BY <1>2, <4>1, Widths
      <4>. HIDE DEF b
      <4>4. WordAddr(b)
        BY <4>1, <4>2, <4>3, IsWordAddr
      <4>5. Word(m, b) = Text
        BY <1>1, <4>1, <4>4 DEF Contents, Plain, TextIn
      <4>. QED
        BY <4>5 DEF b
    <3>3. Word(m2, a) = Word(sized, a)
      <4>. DEFINE w == a \div PtrWidth
      <4>1. w \in Words /\ w * PtrWidth = a
        BY <2>1, Widths DEF WordAddr
      <4>2. m2.word[w] = sized.word[w]
        BY <1>15, <2>1, <2>3, <4>1 DEF Write, Memory
      <4>. QED
        BY <2>1, <4>1, <4>2 DEF Word
    <3>. QED
      BY <3>1, <3>2, <3>3
  <2>. QED
    BY <1>10, <2>1, <2>2, <2>3
<1>20. Contents(m2, e)
  BY <1>10, <1>18, <1>19 DEF Contents, Fresh
<1>21. Write(got.m, e.data + had, 1, Text) = m2
  BY <1>7, <1>8, <1>10
<1>. HIDE DEF m2
<1>. QED
  BY <1>12, <1>18, <1>20, <1>21 DEF freed, got, e

(* A list of bytes that no other value shares grows in place or moves.     *)
LEMMA BytesGrown ==
  ASSUME NEW m, NEW loc, NEW D, Good(m, loc, D, AllSlots(D), {}), NEW l \in Locals,
         loc[l].type = "bytes", has_one_ref(m, loc[l]), ~is_seamless_slice(loc[l]),
         Room(free_allocation(m, loc[l].ptr, "bytes"), PtrWidth + (loc[l].len + 1), PtrWidth),
         D \in SUBSET Alloc
  PROVE  LET had == loc[l].len
             got == roc_realloc(m, loc[l].ptr - PtrWidth, PtrWidth + (had + 1), PtrWidth)
             e   == Grown(got, had)
         IN  Made(Write(got.m, e.data + had, 1, Text),
                  With(loc, l, Value("bytes", e.data, shifted_capacity(had + 1), had + 1)))
<1>. DEFINE v == loc[l]  had == v.len  loc2 == [loc EXCEPT ![l] = Nothing]
            got == roc_realloc(m, v.ptr - PtrWidth, PtrWidth + (had + 1), PtrWidth)
            e   == Grown(got, had)
            m2  == Write(got.m, e.data + had, 1, Text)
            freed == free_allocation(m, v.ptr, "bytes")
            w   == Value("bytes", e.data, shifted_capacity(had + 1), had + 1)
<1>1. /\ MemoryOK(m, D) /\ loc \in [Locals -> Val] /\ v \in Val /\ ValueOK(v, D) /\ had \in Nat
      /\ m \in Memory
  BY DEF Good, ValuesOK, ValueOK, MemoryOK, Val
<1>2. Allocated(v) /\ Refcount(m, get_allocation_ptr(v)) = 1 /\ get_allocation_ptr(v) = v.ptr
  BY DEF has_one_ref, get_allocation_ptr
<1>3. PICK d \in D : PointsTo(v, d)
  <2>1. PICK d \in D \cup {StaticAlloc} : PointsTo(v, d)
    BY <1>1, <1>2, AllocatedTarget
  <2>2. d # StaticAlloc
    BY <2>1 DEF PointsTo, StaticAlloc
  <2>. QED
    BY <2>1, <2>2
<1>4. /\ d.type = "bytes" /\ d.data = v.ptr /\ AllocOK(d) /\ d.k = 0 /\ Refcount(m, d.data) = 1
      /\ d.data + had <= High(d)
  <2>1. d.type = "bytes" /\ d.data = v.ptr /\ AllocOK(d)
    BY <1>1, <1>2, <1>3 DEF PointsTo, MemoryOK
  <2>2. v.ptr + had * 1 <= High(d)
    BY <1>3, BytesLayout DEF PointsTo
  <2>3. had * 1 = had
    BY <1>1
  <2>. QED
    BY <1>2, <2>1, <2>2, <2>3 DEF AllocOK, Plain
<1>5. PICK D2 \in SUBSET D : Good(freed, loc2, D2, AllSlots(D2), {})
  <2>1. release_strings(m, StringsOf(m, d)) = m
    <3>1. Len(StringsOf(m, d)) = 0
      <4>1. StringsOf(m, d) = [i \in 1 .. 0 |-> LoadStr(m, SlotAt(d, i))]
        BY <1>4 DEF StringsOf
      <4>2. StringsOf(m, d) = <<>>
        BY <4>1
      <4>. QED
        BY <4>2
    <3>2. PICK f : StringReleases(m, StringsOf(m, d), 0, f)
      BY <3>1, ReleasesOne
    <3>. QED
      BY <3>2 DEF StringReleases
  <2>2. Emptied(m, m, loc2, D, d, d.k)
    BY <1>3, <1>4, <2>1, LastDropped
  <2>3. Dropped(freed, loc2, D)
    BY <1>4, <2>2, EmptiedDropped
  <2>. QED
    BY <2>3 DEF Dropped
<1>6. AllocOK(e) /\ Fresh(freed, m2, e) /\ Contents(m2, e)
  <2>1. Room(freed, PtrWidth + (had + 1), PtrWidth)
    OBVIOUS
  <2>. QED
    BY <1>1, <1>4, <2>1, Reallocated
<1>7. e.type = "bytes" /\ e.n = had + 1 /\ e.k = 0
  BY DEF Grown
<1>. HIDE DEF got, e, m2, freed
<1>8. w \in Val /\ PointsTo(w, e)
  <2>1. had + 1 \in Nat /\ e.n = (had + 1) * Layout("bytes").size
    BY <1>1, <1>7, BytesLayout
  <2>. HIDE DEF had
  <2>. QED
    BY <1>6, <1>7, <2>1, WholePoints DEF ListTypes
<1>9. Slots(e) = {}
  BY <1>7 DEF Slots
<1>10. loc2[l] = Nothing
  BY <1>1
<1>. HIDE DEF w, loc2
<1>11. Good(m2, With(loc2, l, w), D2 \cup {e}, AllSlots(D2 \cup {e}), {})
  BY <1>5, <1>6, <1>8, <1>9, <1>10, AddedPlain
<1>12. With(loc2, l, w) = With(loc, l, w)
  BY <1>1 DEF With, loc2
<1>13. D2 \cup {e} \in SUBSET Alloc
  BY <1>5, <1>6 DEF AllocOK
<1>14. Made(m2, With(loc, l, w))
  BY <1>11, <1>12, <1>13 DEF Made
<1>. QED
  BY <1>14 DEF m2, e, w, got

(* A seamless slice refers to the allocation of what it was cut from.      *)
LEMMA ValueSliced ==
  ASSUME NEW m, NEW loc, NEW D, Good(m, loc, D, AllSlots(D), {}), NEW l \in Locals,
         loc[l].type \in {"str"} \cup ListTypes, Allocated(loc[l]), loc[l].len > 1
  PROVE  Good(m, With(loc, l, Sliced(loc[l])), D, AllSlots(D), {})
<1>. DEFINE w == Sliced(loc[l])  loc2 == With(loc, l, w)  S == AllSlots(D)
<1>1. loc \in [Locals -> Val] /\ Allocs(D) /\ ValueOK(loc[l], D)
  BY MemoryAllocs DEF Good, ValuesOK
<1>2. ValueOK(w, D) /\ \A a : RefersTo(w, a) <=> RefersTo(loc[l], a)
  BY <1>1, SliceOK
<1>. HIDE DEF w
<1>3. \A a : LocalRefs(loc2, a) = LocalRefs(loc, a)
  BY <1>1, <1>2 DEF LocalRefs, With
<1>4. \A a : Count(m, loc2, S, a) = Count(m, loc, S, a)
  BY <1>3 DEF Count
<1>5. ValuesOK(m, loc2, D, S)
  BY <1>1, <1>2 DEF Good, ValuesOK, ValueOK, With
<1>. QED
  BY <1>4, <1>5 DEF Good, CountsOK, w

-----------------------------------------------------------------------------
(* Init and the actions.                                                   *)

(* A program that owns nothing: no allocation at all.                      *)
LEMMA MemoryStarts ==
  ASSUME Init PROVE MemoryInv
<1>. DEFINE m0 == [blocks |-> {}, misused |-> FALSE, word |-> [w \in Words |-> Garbage]]
            m1 == WriteWord(m0, StaticPtr - PtrWidth, 0)
            m2 == Write(m1, StaticPtr, StaticLen, Text)
<1>1. m0 \in Memory
  BY DEF Memory, Garbage
<1>2. /\ StaticPtr \in Nat /\ StaticLen \in Nat /\ StaticPtr - PtrWidth \in Nat /\ PtrWidth \in Nat
      /\ (StaticPtr - PtrWidth) + PtrWidth <= StaticPtr /\ Text \in Nat
      /\ StaticPtr - PtrWidth = PtrWidth
  BY StrSizes, Widths DEF Text
<1>3. WordAddr(StaticPtr - PtrWidth)
  <2>1. PtrWidth % PtrWidth = 0 /\ PtrWidth < MaxAddr /\ PtrWidth <= PtrWidth
    BY Widths
  <2>. QED
    BY <1>2, <2>1, IsWordAddr
<1>4. m0.blocks = {} /\ m0.misused = FALSE
  OBVIOUS
<1>. HIDE DEF m0
<1>5. m1 \in Memory /\ Word(m1, StaticPtr - PtrWidth) = 0
  BY <1>1, <1>3, WordWritten
<1>6. m1.blocks = {} /\ m1.misused = FALSE
  BY <1>4 DEF WriteWord, Write
<1>. HIDE DEF m1
<1>7. m2 \in Memory /\ m2.blocks = {} /\ m2.misused = FALSE
  <2>1. m2 \in Memory
    BY <1>2, <1>5, WriteKeepsMemory
  <2>2. m2.blocks = m1.blocks /\ m2.misused = m1.misused
    BY DEF Write
  <2>. QED
    BY <1>6, <2>1, <2>2
<1>8. Refcount(m2, StaticPtr) = 0
  BY <1>2, <1>5, WordElsewhere DEF Refcount
<1>9. TextIn(m2, StaticPtr, StaticPtr + StaticLen)
  BY <1>2, <1>5, TextWritten
<1>10. memory = m2 /\ local = [l \in Locals |-> Nothing]
  BY DEF Init, m0, m1
<1>. HIDE DEF m2
<1>11. MemoryOK(m2, {})
  BY <1>7, <1>8, <1>9 DEF MemoryOK
<1>12. AllSlots({}) = {}
  BY DEF AllSlots
<1>13. ValuesOK(m2, local, {}, {})
  <2>1. Nothing \in Val
    BY NothingOK DEF ValueOK
  <2>. QED
    BY <1>10, <2>1, NothingOK DEF ValuesOK
<1>14. Good(m2, local, {}, {}, {})
  BY <1>11, <1>13 DEF Good, CountsOK
<1>. QED
  BY <1>10, <1>12, <1>14 DEF MemoryInv, Made

(* A variable without a type holds nothing.                                *)
LEMMA HoldsNothing ==
  ASSUME NEW D, Allocs(D), NEW v, ValueOK(v, D), v.type = "none"
  PROVE  v = Nothing
<1>1. ASSUME NEW d \in D \cup {StaticAlloc}, PointsTo(v, d) PROVE FALSE
  <2>1. d.type \in Types
    BY Parts DEF Allocs, StaticAlloc, Types
  <2>. QED
    BY <1>1, <2>1 DEF PointsTo, Types, ListTypes, BoxTypes
<1>. QED
  BY <1>1 DEF ValueOK, Small, Empty, ListTypes

(* What holds before a step of l.                                          *)
Before(D) ==
  /\ Good(memory, local, D, AllSlots(D), {}) /\ D \in SUBSET Alloc

(* What the steps below use of the invariant.                              *)
LEMMA BeforeStep ==
  ASSUME NEW D, Before(D)
  PROVE  /\ memory \in Memory /\ local \in [Locals -> Val] /\ Allocs(D)
         /\ \A l \in Locals : ValueOK(local[l], D) /\ (~Holds(l) => local[l] = Nothing)
BY MemoryAllocs, HoldsNothing DEF Before, Good, ValuesOK, Holds

(* A step that gives a variable a value.                                   *)
LEMMA GetsValue ==
  ASSUME NEW D, Before(D), NEW l \in Locals, NEW new, Gets(l, new, {}),
         Made(new.m, With(local, l, new.v))
  PROVE  MemoryInv'
<1>1. local' = With(local, l, new.v) /\ memory' = new.m
  <2>1. local \in [Locals -> Val]
    BY BeforeStep
  <2>. QED
    BY <2>1 DEF Gets, With
<1>. QED
  BY <1>1 DEF MemoryInv

(* A step that also moves a string out of another.                         *)
LEMMA GetsString ==
  ASSUME NEW D, Before(D), NEW l \in Locals, NEW k \in Locals, l # k, NEW new, Gets(l, new, {k}),
         Made(new.m, With([local EXCEPT ![k] = Nothing], l, new.v))
  PROVE  MemoryInv'
<1>1. local' = With([local EXCEPT ![k] = Nothing], l, new.v) /\ memory' = new.m
  <2>1. local \in [Locals -> Val]
    BY BeforeStep
  <2>. QED
    BY <2>1 DEF Gets, With
<1>. QED
  BY <1>1 DEF MemoryInv

LEMMA HasRoomFor ==
  \A type, n : RoomFor(type, n) => HasRoom(memory, type, n)
BY DEF RoomFor, HasRoom

LEMMA StepNewStr ==
  ASSUME NEW D, Before(D), NEW l \in Locals, NewStr(l)
  PROVE  MemoryInv'
<1>1. PICK n \in Lengths : /\ n >= StrSize => RoomFor("str", n)
                           /\ Gets(l, str_from_slice(memory, n), {})
  BY DEF NewStr
<1>2. n \in Nat /\ local[l] = Nothing
  BY ConstantsAssumption, BeforeStep DEF NewStr
<1>3. n >= StrSize => HasRoom(memory, "str", n)
  BY <1>1, HasRoomFor
<1>. DEFINE got == str_from_slice(memory, n)
<1>4. Made(got.m, With(local, l, got.v))
  BY <1>2, <1>3, StringMade DEF Before
<1>. HIDE DEF got
<1>. QED
  BY <1>1, <1>4, GetsValue DEF got

LEMMA StepNewStatic ==
  ASSUME NEW D, Before(D), NEW l \in Locals, NewStatic(l)
  PROVE  MemoryInv'
<1>. DEFINE new == [m |-> memory, v |-> StaticStr]
<1>1. local[l] = Nothing /\ Gets(l, new, {})
  BY BeforeStep DEF NewStatic
<1>2. Good(memory, With(local, l, StaticStr), D, AllSlots(D), {})
  BY <1>1, StaticStrOK, StaticAdded DEF Before
<1>3. Made(new.m, With(local, l, new.v))
  BY <1>2 DEF Made, Before
<1>. QED
  BY <1>1, <1>3, GetsValue

LEMMA StepNewData ==
  ASSUME NEW D, Before(D), NEW l \in Locals, NewData(l)
  PROVE  MemoryInv'
<1>1. local[l] = Nothing
  BY BeforeStep DEF NewData
<1>2. ASSUME NEW type \in {"bytes", "wides"}, NEW n \in Nat,
             n > 0 => HasRoom(memory, type, n * Layout(type).size),
             Gets(l, list_from_slice(memory, type, n), {})
      PROVE  MemoryInv'
  <2>. DEFINE got == list_from_slice(memory, type, n)
  <2>1. Made(got.m, With(local, l, got.v))
    BY <1>1, <1>2, ListMade DEF Before
  <2>. HIDE DEF got
  <2>. QED
    BY <1>2, <2>1, GetsValue DEF got
<1>3. CASE \E n \in Lengths : (n > 0 => RoomFor("bytes", n))
                              /\ Gets(l, list_from_slice(memory, "bytes", n), {})
  <2>1. PICK n \in Lengths : (n > 0 => RoomFor("bytes", n))
                             /\ Gets(l, list_from_slice(memory, "bytes", n), {})
    BY <1>3
  <2>2. n \in Nat /\ n * Layout("bytes").size = n
    BY ConstantsAssumption, BytesLayout
  <2>. QED
    BY <1>2, <2>1, <2>2, HasRoomFor
<1>4. CASE \E n \in 1 .. MaxItems : RoomFor("wides", 16 * n)
                                    /\ Gets(l, list_from_slice(memory, "wides", n), {})
  <2>1. PICK n \in 1 .. MaxItems : RoomFor("wides", 16 * n)
                                   /\ Gets(l, list_from_slice(memory, "wides", n), {})
    BY <1>4
  <2>2. n \in Nat /\ Layout("wides").size = 16 /\ 16 * n = n * 16
    BY DEF Layout
  <2>. QED
    BY <1>2, <2>1, <2>2, HasRoomFor
<1>. QED
  BY <1>3, <1>4 DEF NewData

LEMMA StepNewList ==
  ASSUME NEW D, Before(D), NEW l \in Locals, NewList(l)
  PROVE  MemoryInv'
<1>. DEFINE made(n, k, i) ==
              list_from_strings(memory, [[j \in 1 .. n |-> EmptyStr] EXCEPT ![i] = local[k]])
<1>0. PICK n \in 1 .. MaxItems, k \in Locals :
        \E i \in 1 .. n : HoldsStr(k) /\ RoomFor("strs", n * StrSize) /\ Gets(l, made(n, k, i), {k})
  BY DEF NewList
<1>1. PICK i \in 1 .. n :
        HoldsStr(k) /\ RoomFor("strs", n * StrSize) /\ Gets(l, made(n, k, i), {k})
  BY <1>0
<1>2. local[l] = Nothing /\ local[k].type = "str" /\ l # k
  BY <1>1, BeforeStep DEF NewList, HoldsStr, Holds
<1>3. Small(EmptyStr) /\ EmptyStr \in Val
  BY EmptyIsSmall DEF EmptyStr
<1>. DEFINE got == list_from_strings(memory, Surrounded(local[k], EmptyStr, i, n))
<1>4. Made(got.m, With([local EXCEPT ![k] = Nothing], l, got.v))
  BY <1>1, <1>2, <1>3, HasRoomFor, StringsMade DEF Before
<1>5. Gets(l, got, {k})
  BY <1>1 DEF Surrounded
<1>. HIDE DEF got
<1>. QED
  BY <1>2, <1>4, <1>5, GetsString

LEMMA StepNewBox ==
  ASSUME NEW D, Before(D), NEW l \in Locals, NewBox(l)
  PROVE  MemoryInv'
<1>1. local[l] = Nothing
  BY BeforeStep DEF NewBox
<1>. DEFINE wide == allocate_box(memory, "widebox")  box == allocate_box(memory, "strbox")
            data == [wide EXCEPT !.m = Write(@, wide.v.ptr, 16, Text)]
            string(k) == [box EXCEPT !.m = StoreStr(@, box.v.ptr, local[k])]
<1>2. wide = [m |-> wide.m, v |-> wide.v] /\ box = [m |-> box.m, v |-> box.v]
  BY DEF allocate_box
<1>3. \/ RoomFor("widebox", 16) /\ Gets(l, data, {})
      \/ \E k \in Locals : HoldsStr(k) /\ RoomFor("strbox", StrSize) /\ Gets(l, string(k), {k})
  BY DEF NewBox
<1>4. CASE RoomFor("widebox", 16) /\ Gets(l, data, {})
  <2>1. Made(Write(wide.m, wide.v.ptr, 16, Text), With(local, l, wide.v))
    BY <1>1, <1>4, HasRoomFor, WideBoxMade DEF Before
  <2>. HIDE DEF wide
  <2>2. data.m = Write(wide.m, wide.v.ptr, 16, Text) /\ data.v = wide.v
    BY <1>2
  <2>. HIDE DEF data
  <2>. QED
    BY <1>4, <2>1, <2>2, GetsValue
<1>5. CASE \E k \in Locals : HoldsStr(k) /\ RoomFor("strbox", StrSize) /\ Gets(l, string(k), {k})
  <2>1. PICK k \in Locals : HoldsStr(k) /\ RoomFor("strbox", StrSize) /\ Gets(l, string(k), {k})
    BY <1>5
  <2>2. l # k /\ local[k].type = "str"
    BY <2>1 DEF NewBox, HoldsStr, Holds
  <2>3. Made(StoreStr(box.m, box.v.ptr, local[k]), With([local EXCEPT ![k] = Nothing], l, box.v))
    BY <1>1, <2>1, <2>2, HasRoomFor, StrBoxMade DEF Before
  <2>. HIDE DEF box
  <2>4. string(k).m = StoreStr(box.m, box.v.ptr, local[k]) /\ string(k).v = box.v
    BY <1>2
  <2>. HIDE DEF string
  <2>. QED
    BY <2>1, <2>2, <2>3, <2>4, GetsString
<1>. QED
  BY <1>3, <1>4, <1>5

LEMMA StepNewClosure ==
  ASSUME NEW D, Before(D), NEW l \in Locals, NewClosure(l)
  PROVE  MemoryInv'
<1>1. local[l] = Nothing
  BY BeforeStep DEF NewClosure
<1>2. CASE RoomFor("fn", CaptureOffset) /\ Gets(l, erased_callable_allocate(memory, <<>>), {})
  <2>. DEFINE got == erased_callable_allocate(memory, <<>>)
  <2>1. Made(got.m, With(local, l, got.v))
    BY <1>1, <1>2, HasRoomFor, ClosureMade DEF Before
  <2>. HIDE DEF got
  <2>. QED
    BY <1>2, <2>1, GetsValue DEF got
<1>3. CASE \E k \in Locals : /\ HoldsStr(k) /\ RoomFor("fn", CaptureOffset + StrSize)
                             /\ Gets(l, erased_callable_allocate(memory, <<local[k]>>), {k})
  <2>1. PICK k \in Locals : /\ HoldsStr(k) /\ RoomFor("fn", CaptureOffset + StrSize)
                            /\ Gets(l, erased_callable_allocate(memory, <<local[k]>>), {k})
    BY <1>3
  <2>2. l # k /\ local[k].type = "str"
    BY <2>1 DEF NewClosure, HoldsStr, Holds
  <2>. DEFINE got == erased_callable_allocate(memory, <<local[k]>>)
  <2>3. Made(got.m, With([local EXCEPT ![k] = Nothing], l, got.v))
    BY <1>1, <2>1, <2>2, HasRoomFor, CaptureMade DEF Before
  <2>4. Gets(l, got, {k})
    BY <2>1
  <2>. HIDE DEF got
  <2>. QED
    BY <2>2, <2>3, <2>4, GetsString
<1>. QED
  BY <1>2, <1>3 DEF NewClosure

LEMMA StepCopy ==
  ASSUME NEW D, Before(D), NEW l \in Locals, Copy(l)
  PROVE  MemoryInv'
<1>1. PICK k \in Locals : /\ Holds(k) /\ memory' = incref(memory, local[k], 1)
                          /\ local' = [local EXCEPT ![l] = local[k]]
  BY DEF Copy
<1>2. local[l] = Nothing /\ ValueOK(local[k], D) /\ local[k].type # "none"
  BY <1>1, BeforeStep DEF Copy, Holds
<1>3. Good(incref(memory, local[k], 1), With(local, l, local[k]), D, AllSlots(D), {})
  BY <1>2, ValueCopied DEF Before
<1>. QED
  BY <1>1, <1>3 DEF MemoryInv, Made, Before, With

LEMMA StepCopyItem ==
  ASSUME NEW D, Before(D), NEW l \in Locals, CopyItem(l)
  PROVE  MemoryInv'
<1>1. PICK k \in Locals : \E item \in ToSet(Shown(memory, local[k])) :
        memory' = incref_str(memory, item, 1) /\ local' = [local EXCEPT ![l] = item]
  BY DEF CopyItem
<1>2. PICK item \in ToSet(Shown(memory, local[k])) :
        memory' = incref_str(memory, item, 1) /\ local' = [local EXCEPT ![l] = item]
  BY <1>1
<1>3. local[l] = Nothing
  BY BeforeStep DEF CopyItem
<1>4. ValueOK(item, D) /\ item.type = "str"
  BY ShownStrings DEF Before
<1>. DEFINE m2 == IF Allocated(item) THEN incref_at(memory, get_allocation_ptr(item), 1) ELSE memory
<1>5. Good(m2, With(local, l, item), D, AllSlots(D), {})
  BY <1>3, <1>4, StringCopied DEF Before
<1>6. incref_str(memory, item, 1) = m2
  BY DEF incref_str
<1>. HIDE DEF m2
<1>. QED
  BY <1>2, <1>5, <1>6 DEF MemoryInv, Made, Before, With

LEMMA StepSlice ==
  ASSUME NEW D, Before(D), NEW l \in Locals, Slice(l)
  PROVE  MemoryInv'
<1>1. /\ local[l].type \in {"str"} \cup ListTypes /\ Allocated(local[l]) /\ local[l].len > 1
      /\ memory' = memory
  BY DEF Slice
<1>2. Good(memory, With(local, l, Sliced(local[l])), D, AllSlots(D), {})
  BY <1>1, ValueSliced DEF Before
<1>3. local' = With(local, l, Sliced(local[l]))
  <2>1. local \in [Locals -> Val]
    BY BeforeStep
  <2>. QED
    BY <2>1 DEF Slice, Sliced, With, Val
<1>. QED
  BY <1>1, <1>2, <1>3 DEF MemoryInv, Made, Before

LEMMA StepGrow ==
  ASSUME NEW D, Before(D), NEW l \in Locals, Grow(l)
  PROVE  MemoryInv'
<1>. DEFINE v   == local[l]
            got == roc_realloc(memory, v.ptr - PtrWidth, PtrWidth + (v.len + 1), PtrWidth)
            e   == Grown(got, v.len)
            new == [m |-> Write(got.m, e.data + v.len, 1, Text),
                    v |-> Value("bytes", e.data, shifted_capacity(v.len + 1), v.len + 1)]
            freed == roc_dealloc(memory, v.ptr - PtrWidth, PtrWidth)
            made  == [m |-> Write(got.m, (got.ptr + PtrWidth) + (v.len + 1) - 1, 1, Text),
                      v |-> Value("bytes", got.ptr + PtrWidth, shifted_capacity(v.len + 1), v.len + 1)]
<1>1. v \in Val /\ v.type = "bytes" /\ has_one_ref(memory, v) /\ ~is_seamless_slice(v)
  BY BeforeStep DEF Grow
<1>2. Room(freed, PtrWidth + (v.len + 1), PtrWidth) /\ Gets(l, made, {})
  <2>. HIDE DEF Gets
  <2>. QED
    BY BytesLayout DEF Grow
<1>3. freed = free_allocation(memory, v.ptr, "bytes")
  BY BytesLayout DEF free_allocation
<1>4. Made(new.m, With(local, l, new.v))
  <2>. HIDE DEF got
  <2>1. Made(Write(got.m, e.data + v.len, 1, Text),
             With(local, l, Value("bytes", e.data, shifted_capacity(v.len + 1), v.len + 1)))
    BY <1>1, <1>2, <1>3, BytesGrown DEF Before, got
  <2>. HIDE DEF e
  <2>. QED
    BY <2>1
<1>5. made = new
  <2>1. v.len \in Nat /\ v.ptr \in Nat
    BY <1>1 DEF Val
  <2>2. got.ptr \in Nat
    <3>. DEFINE total == (PtrWidth + (v.len + 1)) + PtrWidth
    <3>1. got.ptr = First(Fits(freed, total, PtrWidth)) + PtrWidth
      BY BytesLayout DEF roc_realloc
    <3>2. total \in Nat /\ PtrWidth \in Nat
      BY <2>1, Widths
    <3>3. First(Fits(freed, total, PtrWidth)) \in Fits(freed, total, PtrWidth)
      BY <1>2, <3>2, FitsAt, BytesLayout DEF Room
    <3>4. First(Fits(freed, total, PtrWidth)) \in Nat
      <4>1. \A m : Fits(m, total, PtrWidth) \subseteq Nat
        BY StrSizes, Widths DEF Fits
      <4>. QED
        BY <3>3, <4>1
    <3>. QED
      BY <3>1, <3>2, <3>4
  <2>3. e.data = got.ptr + PtrWidth
    BY DEF Grown
  <2>. HIDE DEF got, e
  <2>4. (got.ptr + PtrWidth) + (v.len + 1) - 1 = e.data + v.len
    BY <2>1, <2>2, <2>3, Widths
  <2>. QED
    BY <2>3, <2>4
<1>. HIDE DEF new, made
<1>. QED
  BY <1>2, <1>4, <1>5, GetsValue

LEMMA DroppedIsMade ==
  ASSUME NEW m, NEW loc, NEW D \in SUBSET Alloc, Dropped(m, loc, D) PROVE Made(m, loc)
BY DEF Dropped, Made

LEMMA StepDrop ==
  ASSUME NEW D, Before(D), NEW l \in Locals, Drop(l)
  PROVE  MemoryInv'
<1>1. local[l].type # "none" /\ memory' = decref(memory, local[l])
      /\ local' = [local EXCEPT ![l] = Nothing]
  BY DEF Drop, Holds
<1>2. Dropped(decref(memory, local[l]), [local EXCEPT ![l] = Nothing], D)
  BY <1>1, ValueDropped DEF Before
<1>. QED
  BY <1>1, <1>2, DroppedIsMade DEF MemoryInv, Before

LEMMA StepFreeUnique ==
  ASSUME NEW D, Before(D), NEW l \in Locals, FreeUnique(l)
  PROVE  MemoryInv'
<1>. DEFINE v == local[l]
<1>1. /\ v.type \in BoxTypes /\ is_unique_box(memory, v)
      /\ memory' = free_box_with(memory, v) /\ local' = [local EXCEPT ![l] = Nothing]
  BY DEF FreeUnique, BoxTypes
<1>2. PICK d \in D \cup {StaticAlloc} : PointsTo(v, d)
  BY <1>1, BeforeStep DEF ValueOK, Nothing, Value, Small, Empty, BoxTypes, ListTypes
<1>3. d \in D /\ d.type \in BoxTypes
  BY <1>1, <1>2 DEF PointsTo, StaticAlloc, BoxTypes
<1>4. Dropped(free_box_with(memory, v), [local EXCEPT ![l] = Nothing], D)
  BY <1>1, <1>2, <1>3, BoxDropped DEF Before
<1>. QED
  BY <1>1, <1>4, DroppedIsMade DEF MemoryInv, Before

(* Whatever a program does with its values through the glue, which         *)
(* allocates, retains, releases, frees and reallocates for it, MemoryInv   *)
(* stays true.                                                             *)
THEOREM MemoryStep == MemoryInv /\ [Next]_vars => MemoryInv'
<1>1. SUFFICES ASSUME MemoryInv, [Next]_vars PROVE MemoryInv'
  OBVIOUS
<1>2. PICK D : Before(D)
  BY <1>1 DEF MemoryInv, Made, Before
<1>3. CASE UNCHANGED vars
  BY <1>1, <1>3 DEF MemoryInv, vars
<1>4. ASSUME NEW l \in Locals,
             \/ NewStr(l) \/ NewStatic(l) \/ NewData(l) \/ NewList(l) \/ NewBox(l)
             \/ NewClosure(l) \/ Copy(l) \/ CopyItem(l) \/ Slice(l) \/ Grow(l) \/ Drop(l)
             \/ FreeUnique(l)
      PROVE  MemoryInv'
  BY <1>2, <1>4, StepNewStr, StepNewStatic, StepNewData, StepNewList, StepNewBox, StepNewClosure,
     StepCopy, StepCopyItem, StepSlice, StepGrow, StepDrop, StepFreeUnique
<1>. QED
  BY <1>1, <1>3, <1>4 DEF Next, End

(* MemoryInv is inductive.                                                 *)
THEOREM MemoryInvariant == Spec => []MemoryInv
BY MemoryStarts, MemoryStep, PTL DEF Spec

-----------------------------------------------------------------------------
(* What the references in the properties are: D holds what is reached.     *)

(* Where a value points to, the strings the properties see in it are those *)
(* of the allocation.                                                      *)
LEMMA InnerStrings ==
  ASSUME NEW D, Before(D), NEW l \in Locals, NEW d \in D \cup {StaticAlloc}, PointsTo(local[l], d)
  PROVE  Inner(local[l]) = StringsOf(memory, d)
<1>. DEFINE v == local[l]
<1>1. MemoryOK(memory, D) /\ v \in Val
  BY BeforeStep DEF Before, Good, ValueOK
<1>2. v.type = d.type
  BY DEF PointsTo
<1>3. CASE d \in D /\ d.type = "strs"
  BY <1>1, <1>2, <1>3, AllocationItemsOf DEF Inner
<1>4. CASE d \in D /\ d.type \in BoxTypes
  <2>1. v.ptr = d.data /\ v.type # "strs"
    BY <1>2, <1>4 DEF PointsTo, BoxTypes
  <2>. QED
    BY <1>1, <1>2, <1>4, <2>1, PayloadStringsOf DEF Inner
<1>5. CASE d.type \in {"str", "bytes", "wides"}
  <2>1. d.k = 0
    BY <1>1, <1>5 DEF MemoryOK, AllocOK, Plain, StaticAlloc
  <2>2. Inner(v) = <<>>
    BY <1>2, <1>5 DEF Inner, PayloadStrings
  <2>3. StringsOf(memory, d) = <<>>
    BY <2>1 DEF StringsOf
  <2>. QED
    BY <2>2, <2>3
<1>6. d.type \in Types
  BY <1>1, Parts DEF MemoryOK, StaticAlloc, Types
<1>. QED
  BY <1>3, <1>4, <1>5, <1>6 DEF Types, ListTypes, StaticAlloc

LEMMA StringsLength ==
  ASSUME NEW m, NEW d, d.k \in Nat
  PROVE  /\ Len(StringsOf(m, d)) = d.k /\ DOMAIN StringsOf(m, d) = 1 .. d.k
         /\ \A i \in 1 .. d.k : StringsOf(m, d)[i] = LoadStr(m, SlotAt(d, i))
<1>1. StringsOf(m, d) = [i \in 1 .. d.k |-> LoadStr(m, SlotAt(d, i))]
  BY DEF StringsOf
<1>. QED
  BY <1>1

(* One allocation is at an address, the static one or one of D.            *)
LEMMA SameData ==
  ASSUME NEW D, Allocs(D), NEW d \in D \cup {StaticAlloc}, NEW e \in D \cup {StaticAlloc},
         d.data = e.data
  PROVE  d = e
<1>1. CASE d \in D /\ e \in D
  BY <1>1, DataDiffer DEF Allocs
<1>2. CASE d = StaticAlloc \/ e = StaticAlloc
  <2>1. \A f \in D : f.data # StaticPtr
    BY StaticApart DEF Allocs
  <2>2. StaticAlloc.data = StaticPtr
    BY DEF StaticAlloc
  <2>. QED
    BY <1>2, <2>1, <2>2
<1>. QED
  BY <1>1, <1>2

(* So are those of what is reached from several values.                    *)
LEMMA HeldStrings ==
  ASSUME NEW D, Before(D), NEW d \in D \cup {StaticAlloc}, d.data \in Held
  PROVE  InnerOf(d.data) = StringsOf(memory, d)
<1>1. Allocs(D)
  BY BeforeStep
<1>. DEFINE l == CHOOSE k \in At(d.data) : TRUE
<1>2. l \in Locals /\ RefersTo(local[l], d.data)
  <2>1. At(d.data) # {}
    BY DEF Held, At
  <2>. QED
    BY <2>1 DEF At, RefersTo
<1>3. PICK e \in D \cup {StaticAlloc} : PointsTo(local[l], e) /\ RefersTo(local[l], e.data)
  BY <1>2, BeforeStep, AllocatedTarget DEF RefersTo
<1>4. e.data = d.data
  BY <1>2, <1>3 DEF RefersTo
<1>5. e = d
  BY <1>1, <1>4, SameData
<1>6. Inner(local[l]) = StringsOf(memory, d)
  BY <1>2, <1>3, <1>5, InnerStrings
<1>. QED
  BY <1>6 DEF InnerOf

(* All that is reached is one of the allocations, or static.               *)
LEMMA HeldAlloc ==
  ASSUME NEW D, Before(D), NEW a \in Held
  PROVE  \E d \in D \cup {StaticAlloc} : d.data = a
<1>1. PICK l \in Locals : Allocated(local[l]) /\ get_allocation_ptr(local[l]) = a
  BY DEF Held
<1>2. PICK d \in D \cup {StaticAlloc} : RefersTo(local[l], d.data)
  BY <1>1, BeforeStep, AllocatedTarget
<1>. QED
  BY <1>1, <1>2 DEF RefersTo

(* Only local variables refer to what holds strings.                       *)
LEMMA HoldersHeld ==
  ASSUME NEW D, Before(D), NEW d \in D, d.type # "str"
  PROVE  d.data \in Held
<1>1. /\ Allocs(D) /\ IsFiniteSet(AllSlots(D)) /\ AllocOK(d)
      /\ \A s \in AllSlots(D) : LoadStr(memory, s).type = "str" /\ ValueOK(LoadStr(memory, s), D)
  BY BeforeStep, FiniteSlots DEF Before, Good, ValuesOK, Allocs
<1>2. SlotRefs(memory, AllSlots(D), d.data) = {}
  BY <1>1, Target DEF SlotRefs, PointsTo
<1>3. /\ Refcount(memory, d.data) = Count(memory, local, AllSlots(D), d.data)
      /\ Refcount(memory, d.data) > 0
  BY DEF Before, Good, CountsOK
<1>4. LocalRefs(local, d.data) # {}
  <2>1. Count(memory, local, AllSlots(D), d.data) = Cardinality(LocalRefs(local, d.data)) + 0
    BY <1>2, FS_EmptySet DEF Count
  <2>2. SUFFICES ASSUME LocalRefs(local, d.data) = {} PROVE FALSE
    OBVIOUS
  <2>. QED
    BY <1>3, <2>1, <2>2, FS_EmptySet
<1>. QED
  BY <1>4 DEF LocalRefs, RefersTo, Held

(* The pairs (allocation, place) of InnerReferences are the slots.         *)
LEMMA SlotPairs ==
  ASSUME NEW D, Before(D), NEW a
  PROVE  Cardinality(InnerReferences(a)) = Cardinality(SlotRefs(memory, AllSlots(D), a))
<1>. DEFINE R == InnerReferences(a)  S == SlotRefs(memory, AllSlots(D), a)
            By(b) == CHOOSE d \in D : d.data = b
            f == [p \in R |-> SlotAt(By(p[1]), p[2])]
<1>1. Allocs(D) /\ IsFiniteSet(S)
  <2>1. Allocs(D) /\ IsFiniteSet(AllSlots(D))
    BY BeforeStep, FiniteSlots
  <2>. QED
    BY <2>1, FS_Subset DEF SlotRefs
<1>2. \A d \in D : By(d.data) = d
  BY <1>1, SameData
<1>. HIDE DEF By
<1>3. ASSUME NEW p \in R
      PROVE  /\ By(p[1]) \in D /\ By(p[1]).data = p[1] /\ p[2] \in 1 .. By(p[1]).k
             /\ p = <<p[1], p[2]>> /\ f[p] \in S
  <2>1. /\ p[1] \in Held /\ p[2] \in 1 .. MaxItems /\ p = <<p[1], p[2]>>
        /\ p[2] <= Len(InnerOf(p[1])) /\ RefersTo(InnerOf(p[1])[p[2]], a)
    BY DEF InnerReferences
  <2>2. PICK d \in D \cup {StaticAlloc} : d.data = p[1]
    BY <2>1, HeldAlloc
  <2>3. d.k \in Nat /\ InnerOf(p[1]) = StringsOf(memory, d)
    BY <1>1, <2>1, <2>2, HeldStrings, Parts DEF Allocs, StaticAlloc
  <2>4. p[2] \in 1 .. d.k
    BY <2>1, <2>3, StringsLength, ConstantsAssumption
  <2>5. d \in D
    BY <2>4 DEF StaticAlloc
  <2>6. By(p[1]) = d
    BY <1>2, <2>2, <2>5
  <2>7. RefersTo(LoadStr(memory, SlotAt(d, p[2])), a)
    BY <2>1, <2>3, <2>4, StringsLength
  <2>8. SlotAt(d, p[2]) \in AllSlots(D)
    BY <2>4, <2>5 DEF AllSlots, Slots
  <2>. QED
    BY <2>1, <2>2, <2>4, <2>5, <2>6, <2>7, <2>8 DEF SlotRefs
<1>4. f \in [R -> S]
  BY <1>3
<1>5. ASSUME NEW p \in R, NEW q \in R, f[p] = f[q] PROVE p = q
  <2>. DEFINE d == By(p[1])  e == By(q[1])
  <2>1. /\ d \in D /\ e \in D /\ d.data = p[1] /\ e.data = q[1]
        /\ p[2] \in 1 .. d.k /\ q[2] \in 1 .. e.k /\ SlotAt(d, p[2]) = SlotAt(e, q[2])
    BY <1>3, <1>5
  <2>. HIDE DEF d, e
  <2>2. d = e
    <3>1. SlotAt(d, p[2]) \in Slots(d) /\ SlotAt(e, q[2]) \in Slots(e)
      BY <2>1 DEF Slots
    <3>. QED
      BY <1>1, <2>1, <3>1, DataDiffer DEF Allocs
  <2>3. p[2] = q[2]
    <3>1. AllocOK(d) /\ d.k \in Nat /\ p[2] \in Nat /\ q[2] \in Nat
      BY <1>1, <2>1, Parts DEF Allocs
    <3>2. \A i, j \in 1 .. d.k : i < j => SlotAt(d, i) # SlotAt(d, j)
      BY <3>1, SlotsDiffer, SlotIn, StrSizes
    <3>. QED
      BY <2>1, <2>2, <3>1, <3>2
  <2>. QED
    BY <1>3, <2>1, <2>2, <2>3
<1>6. ASSUME NEW s \in S PROVE \E p \in R : f[p] = s
  <2>1. PICK d \in D : s \in Slots(d)
    BY DEF SlotRefs, AllSlots
  <2>2. PICK i \in 1 .. d.k : s = SlotAt(d, i)
    BY <2>1 DEF Slots
  <2>3. AllocOK(d) /\ d.k \in Nat /\ d.k <= MaxItems /\ i \in 1 .. MaxItems
    BY <1>1, <2>1, Parts, ConstantsAssumption DEF Allocs, AllocOK
  <2>4. d.data \in Held
    BY <2>3, SlotIn, HoldersHeld DEF Plain
  <2>5. InnerOf(d.data) = StringsOf(memory, d)
    BY <2>4, HeldStrings
  <2>6. i <= Len(InnerOf(d.data)) /\ InnerOf(d.data)[i] = LoadStr(memory, s)
    BY <2>2, <2>3, <2>5, StringsLength
  <2>7. RefersTo(InnerOf(d.data)[i], a)
    BY <2>6 DEF SlotRefs
  <2>. DEFINE p == <<d.data, i>>
  <2>8. p \in R
    BY <2>3, <2>4, <2>6, <2>7 DEF InnerReferences
  <2>9. f[p] = s
    BY <1>2, <2>2, <2>8
  <2>. QED
    BY <2>8, <2>9
<1>. HIDE DEF f, R, S
<1>7. f \in Injection(R, S) /\ f \in Surjection(R, S)
  BY <1>4, <1>5, <1>6 DEF Injection, IsInjective, Surjection
<1>8. Cardinality(R) = Cardinality(S)
  BY <1>1, <1>7, FS_Injection
<1>. QED
  BY <1>8 DEF R, S

(* What is reached are the allocations, and the static one perhaps.        *)
LEMMA ReachedAllocs ==
  ASSUME NEW D, Before(D)
  PROVE  /\ \A a \in Reached : \E d \in D \cup {StaticAlloc} : d.data = a
         /\ \A d \in D : d.data \in Reached
<1>1. /\ Allocs(D) /\ IsFiniteSet(AllSlots(D))
      /\ \A s \in AllSlots(D) : ValueOK(LoadStr(memory, s), D)
  BY BeforeStep, FiniteSlots DEF Before, Good, ValuesOK
<1>2. ASSUME NEW a \in Reached PROVE \E d \in D \cup {StaticAlloc} : d.data = a
  <2>1. CASE a \in Held
    BY <2>1, HeldAlloc
  <2>2. CASE a \notin Held
    <3>1. PICK b \in Held : \E v \in ToSet(InnerOf(b)) : Allocated(v) /\ get_allocation_ptr(v) = a
      BY <2>2 DEF Reached
    <3>2. PICK v \in ToSet(InnerOf(b)) : Allocated(v) /\ get_allocation_ptr(v) = a
      BY <3>1
    <3>3. PICK e \in D \cup {StaticAlloc} : e.data = b
      BY HeldAlloc
    <3>4. e.k \in Nat /\ InnerOf(b) = StringsOf(memory, e)
      BY <1>1, <3>3, HeldStrings, Parts DEF Allocs, StaticAlloc
    <3>5. PICK i \in 1 .. e.k : v = LoadStr(memory, SlotAt(e, i))
      BY <3>2, <3>4, StringsLength DEF ToSet
    <3>6. e \in D
      BY <3>5 DEF StaticAlloc
    <3>7. ValueOK(v, D)
      BY <1>1, <3>5, <3>6 DEF AllSlots, Slots
    <3>. QED
      BY <3>2, <3>7, AllocatedTarget DEF RefersTo
  <2>. QED
    BY <2>1, <2>2
<1>3. ASSUME NEW d \in D PROVE d.data \in Reached
  <2>1. /\ Refcount(memory, d.data) = Count(memory, local, AllSlots(D), d.data)
        /\ Refcount(memory, d.data) > 0
    BY DEF Before, Good, CountsOK
  <2>2. LocalRefs(local, d.data) # {} \/ SlotRefs(memory, AllSlots(D), d.data) # {}
    <3>1. SUFFICES ASSUME LocalRefs(local, d.data) = {}, SlotRefs(memory, AllSlots(D), d.data) = {}
                   PROVE  FALSE
      OBVIOUS
    <3>. QED
      BY <2>1, <3>1, FS_EmptySet DEF Count
  <2>3. CASE LocalRefs(local, d.data) # {}
    BY <2>3 DEF LocalRefs, RefersTo, Reached, Held
  <2>4. CASE SlotRefs(memory, AllSlots(D), d.data) # {}
    <3>0. PICK e \in D : \E s \in Slots(e) : RefersTo(LoadStr(memory, s), d.data)
      BY <2>4 DEF SlotRefs, AllSlots
    <3>1. PICK s \in Slots(e) : RefersTo(LoadStr(memory, s), d.data)
      BY <3>0
    <3>2. PICK i \in 1 .. e.k : s = SlotAt(e, i)
      BY DEF Slots
    <3>3. AllocOK(e) /\ e.k \in Nat
      BY <1>1, Parts DEF Allocs
    <3>4. e.data \in Held
      BY <3>3, SlotIn, HoldersHeld DEF Plain
    <3>5. LoadStr(memory, s) \in ToSet(InnerOf(e.data))
      BY <3>2, <3>3, <3>4, HeldStrings, StringsLength DEF ToSet
    <3>. QED
      BY <3>1, <3>4, <3>5 DEF Reached, RefersTo
  <2>. QED
    BY <2>2, <2>3, <2>4
<1>. QED
  BY <1>2, <1>3

-----------------------------------------------------------------------------
(* What payloads read.                                                     *)

(* Words that hold the text read as the text.                              *)
LEMMA TextReads ==
  ASSUME NEW m \in Memory, NEW lo \in Nat, lo % PtrWidth = 0, PtrWidth <= lo,
         NEW hi \in Nat, hi <= MaxAddr, TextIn(m, lo, hi),
         NEW at \in Nat, NEW n \in Nat, lo <= at, at + n <= hi
  PROVE  Reads(m, at, n, Text)
<1>. SUFFICES ASSUME n > 0, NEW w \in at \div PtrWidth .. (at + n - 1) \div PtrWidth
              PROVE  w \in Words /\ m.word[w] = Text
  BY DEF Reads
<1>. DEFINE a == w * PtrWidth
<1>1. /\ at \div PtrWidth \in Nat /\ (at + n - 1) \div PtrWidth \in Nat /\ w \in Nat
      /\ at \div PtrWidth <= w /\ w <= (at + n - 1) \div PtrWidth
  BY Widths
<1>2. a \in Nat /\ lo <= a /\ a <= at + n - 1
  <2>1. CASE PtrWidth = 4
    BY <1>1, <2>1
  <2>2. CASE PtrWidth = 8
    BY <1>1, <2>2
  <2>. QED
    BY <2>1, <2>2, Widths
<1>3. a % PtrWidth = 0 /\ a \div PtrWidth = w
  BY <1>1, Widths
<1>. HIDE DEF a
<1>4. PtrWidth <= a /\ a < hi /\ a < MaxAddr
  BY <1>2, Widths
<1>5. WordAddr(a)
  BY <1>2, <1>3, <1>4, IsWordAddr
<1>6. Word(m, a) = Text
  BY <1>2, <1>4, <1>5 DEF TextIn
<1>. QED
  BY <1>3, <1>5, <1>6 DEF WordAddr, Word

LEMMA PlainReads ==
  ASSUME NEW D, Before(D), NEW d \in D \cup {StaticAlloc}, d.type \in Plain,
         NEW at \in Nat, NEW n \in Nat, d.data <= at, at + n <= High(d)
  PROVE  Reads(memory, at, n, Text)
<1>1. memory \in Memory /\ MemoryOK(memory, D)
  BY BeforeStep DEF Before, Good
<1>2. CASE d \in D
  <2>1. AllocOK(d) /\ TextIn(memory, d.data, High(d))
    BY <1>1, <1>2 DEF MemoryOK, Contents
  <2>2. /\ d.data \in Nat /\ d.data % PtrWidth = 0 /\ PtrWidth <= d.data
        /\ High(d) \in Nat /\ High(d) <= MaxAddr
    BY <2>1, Parts, StaticApart, Widths
  <2>. QED
    BY <1>1, <2>1, <2>2, TextReads
<1>3. CASE d = StaticAlloc
  <2>1. d.data = StaticPtr /\ High(d) = StaticPtr + StaticLen
    BY <1>3 DEF StaticAlloc, High
  <2>2. /\ StaticPtr \in Nat /\ StaticPtr % PtrWidth = 0 /\ PtrWidth <= StaticPtr
        /\ StaticPtr + StaticLen \in Nat /\ StaticPtr + StaticLen <= MaxAddr
    BY StrSizes, Widths
  <2>3. TextIn(memory, StaticPtr, StaticPtr + StaticLen)
    BY <1>1 DEF MemoryOK
  <2>. QED
    BY <1>1, <2>1, <2>2, <2>3, TextReads
<1>. QED
  BY <1>2, <1>3

(* A string reads as it was written, small, static or allocated.           *)
LEMMA StringReads ==
  ASSUME NEW D, Before(D), NEW v, ValueOK(v, D), v.type = "str"
  PROVE  StrReads(v)
<1>1. v.len \in Nat /\ v.ptr \in Nat /\ SmallBit \in Nat
  BY DEF ValueOK, Val, SmallBit
<1>2. CASE Small(v)
  <2>1. v.len \in SmallBit .. SmallBit + StrSize - 1
    BY <1>2 DEF Small
  <2>2. is_small_str(v) /\ v.len - SmallBit < StrSize
    BY <1>1, <2>1, StrSizes DEF is_small_str
  <2>. QED
    BY <2>2 DEF StrReads, len
<1>3. CASE ~Small(v)
  <2>1. PICK d \in D \cup {StaticAlloc} : PointsTo(v, d)
    BY <1>3 DEF ValueOK, Nothing, Value, Empty, ListTypes
  <2>2. d.type = "str" /\ v.len < SmallBit /\ d.data <= v.ptr /\ v.ptr + v.len <= High(d)
    <3>1. v.ptr + v.len * Layout("str").size <= High(d)
      BY <2>1 DEF PointsTo
    <3>2. v.len * Layout("str").size = v.len
      BY <1>1 DEF Layout
    <3>. QED
      BY <2>1, <3>1, <3>2 DEF PointsTo
  <2>3. ~is_small_str(v) /\ len(v) = v.len
    BY <1>1, <2>2 DEF is_small_str, len
  <2>4. Reads(memory, v.ptr, v.len, Text)
    BY <1>1, <2>1, <2>2, PlainReads DEF Plain
  <2>. QED
    BY <2>3, <2>4 DEF StrReads
<1>. QED
  BY <1>2, <1>3

(* Of a value that refers to an allocation.                                *)
LEMMA PointedReads ==
  ASSUME NEW D, Before(D), NEW l \in Locals, NEW d \in D \cup {StaticAlloc}, PointsTo(local[l], d)
  PROVE  LET v == local[l]
         IN  /\ v.type \in {"bytes", "wides"} =>
                  /\ v.ptr % Layout(v.type).align = 0
                  /\ Reads(memory, v.ptr, v.len * Layout(v.type).size, Text)
             /\ v.type = "widebox" =>
                  v.ptr % Layout(v.type).align = 0 /\ Reads(memory, v.ptr, 16, Text)
             /\ v.type \in {"strs", "strbox", "fn"} =>
                  v.ptr % PtrWidth = 0 /\ \A i \in DOMAIN Inner(v) : StrReads(Inner(v)[i])
<1>. DEFINE v == local[l]
<1>1. /\ Allocs(D) /\ v \in Val /\ v.ptr \in Nat /\ v.len \in Nat /\ d.type = v.type /\ d.data <= v.ptr
      /\ v.ptr % Layout(v.type).align = 0
      /\ \A s \in AllSlots(D) : LoadStr(memory, s).type = "str" /\ ValueOK(LoadStr(memory, s), D)
  BY BeforeStep DEF ValueOK, PointsTo, Val, Before, Good, ValuesOK
<1>2. CASE v.type \in {"bytes", "wides"}
  <2>1. v.ptr + v.len * Layout(v.type).size <= High(d) /\ v.len * Layout(v.type).size \in Nat
    <3>1. Layout(v.type).size \in Nat
      BY <1>2, ElementSizes DEF ListTypes
    <3>. QED
      BY <1>1, <1>2, <3>1 DEF PointsTo
  <2>2. Reads(memory, v.ptr, v.len * Layout(v.type).size, Text)
    BY <1>1, <1>2, <2>1, PlainReads DEF Plain
  <2>. QED
    BY <1>1, <1>2, <2>2
<1>3. CASE v.type = "widebox"
  <2>1. d \in D /\ AllocOK(d)
    BY <1>1, <1>3 DEF StaticAlloc, Allocs
  <2>2. d.data = v.ptr /\ d.n = 16
    BY <1>1, <1>3, <2>1 DEF PointsTo, BoxTypes, AllocOK
  <2>3. v.ptr + 16 <= High(d)
    BY <1>1, <2>2 DEF High
  <2>4. Reads(memory, v.ptr, 16, Text)
    BY <1>1, <1>3, <2>3, PlainReads DEF Plain
  <2>. QED
    BY <1>1, <1>3, <2>4
<1>4. CASE v.type \in {"strs", "strbox", "fn"}
  <2>1. d \in D /\ d.k \in Nat
    BY <1>1, <1>4, Parts DEF StaticAlloc, Allocs
  <2>2. v.ptr % PtrWidth = 0
    <3>1. CASE v.type \in {"strs", "strbox"}
      BY <1>1, <3>1 DEF Layout
    <3>2. CASE v.type = "fn"
      <4>1. v.ptr % 16 = 0
        BY <1>1, <3>2 DEF Layout
      <4>. QED
        BY <1>1, <4>1, Widths
    <3>. QED
      BY <1>4, <3>1, <3>2
  <2>3. Inner(v) = StringsOf(memory, d)
    BY InnerStrings
  <2>4. ASSUME NEW i \in DOMAIN Inner(v) PROVE StrReads(Inner(v)[i])
    <3>1. i \in 1 .. d.k /\ Inner(v)[i] = LoadStr(memory, SlotAt(d, i))
      BY <2>1, <2>3, StringsLength
    <3>2. SlotAt(d, i) \in AllSlots(D)
      BY <2>1, <3>1 DEF AllSlots, Slots
    <3>. QED
      BY <1>1, <3>1, <3>2, StringReads
  <2>. QED
    BY <1>4, <2>2, <2>4
<1>. QED
  BY <1>2, <1>3, <1>4

LEMMA EmptyReads ==
  ASSUME NEW v, v.type \in ListTypes, v.ptr = 0, v.cap = 0, v.len = 0
  PROVE  /\ v.type \in {"bytes", "wides"} =>
              /\ v.ptr % Layout(v.type).align = 0
              /\ Reads(memory, v.ptr, v.len * Layout(v.type).size, Text)
         /\ v.type = "strs" => v.ptr % PtrWidth = 0 /\ DOMAIN Inner(v) = {}
<1>1. CASE v.type \in {"bytes", "wides"}
  <2>1. Layout(v.type).align \in {1, 16} /\ Layout(v.type).size \in {1, 16}
    BY <1>1 DEF Layout
  <2>2. v.len * Layout(v.type).size = 0 /\ v.ptr % Layout(v.type).align = 0
    BY <2>1
  <2>. QED
    BY <1>1, <2>2 DEF Reads
<1>2. CASE v.type = "strs"
  <2>1. ~is_seamless_slice(v)
    BY DEF is_seamless_slice
  <2>2. allocation_element_count(memory, v) = 0
    BY <2>1 DEF allocation_element_count
  <2>3. DOMAIN allocation_items(memory, v) = {}
    BY <2>2 DEF allocation_items
  <2>4. 0 % PtrWidth = 0
    BY Widths
  <2>. QED
    BY <1>2, <2>3, <2>4 DEF Inner
<1>. QED
  BY <1>1, <1>2 DEF ListTypes

-----------------------------------------------------------------------------
(* The properties.                                                         *)

LEMMA InvBefore == MemoryInv => \E D : Before(D)
BY DEF MemoryInv, Made, Before

(* Memory is made of words, blocks and values as declared.                 *)
LEMMA InvTypes == MemoryInv => TypeOK
<1>. SUFFICES ASSUME NEW D, Before(D) PROVE TypeOK
  BY InvBefore
<1>1. memory \in Memory /\ local \in [Locals -> Val]
  BY BeforeStep
<1>2. Val = [type : {"none", "str"} \cup ListTypes \cup BoxTypes, ptr : Nat, cap : Nat, len : Nat]
  BY DEF Val, Types
<1>. QED
  BY <1>1, <1>2 DEF TypeOK, Memory

LEMMA InvContract == MemoryInv => AllocatorContract
BY InvBefore DEF Before, Good, MemoryOK, AllocatorContract

LEMMA InvCounts == MemoryInv => CountsInHeaders
<1>. SUFFICES ASSUME NEW D, Before(D), NEW a \in Reached
              PROVE  Refcount(memory, a) = IF a = StaticPtr THEN 0 ELSE References(a)
  BY InvBefore DEF CountsInHeaders
<1>1. PICK d \in D \cup {StaticAlloc} : d.data = a
  BY ReachedAllocs
<1>2. CASE d = StaticAlloc
  BY <1>1, <1>2 DEF StaticAlloc, Before, Good, MemoryOK
<1>3. CASE d \in D
  <2>1. a # StaticPtr
    BY <1>1, <1>3, BeforeStep, StaticApart DEF Allocs
  <2>2. Refcount(memory, a) = Count(memory, local, AllSlots(D), a)
    BY <1>1, <1>3 DEF Before, Good, CountsOK
  <2>3. At(a) = LocalRefs(local, a)
    BY DEF At, LocalRefs, RefersTo
  <2>4. Cardinality(InnerReferences(a)) = Cardinality(SlotRefs(memory, AllSlots(D), a))
    BY SlotPairs
  <2>. QED
    BY <2>1, <2>2, <2>3, <2>4 DEF Count, References
<1>. QED
  BY <1>2, <1>3

LEMMA InvNoLeak == MemoryInv => NothingLeaks
<1>. SUFFICES ASSUME NEW D, Before(D) PROVE NothingLeaks
  BY InvBefore
<1>. DEFINE B == {BlockOf(d) : d \in D}  A == {d.data : d \in D}
            By(a) == CHOOSE d \in D : d.data = a
            f == [a \in A |-> BlockOf(By(a))]
<1>1. Allocs(D) /\ memory.blocks = B
  BY BeforeStep DEF Before, Good, MemoryOK
<1>2. Reached \ {StaticPtr} = A
  <2>1. \A d \in D : d.data # StaticPtr
    BY <1>1, StaticApart DEF Allocs
  <2>2. StaticAlloc.data = StaticPtr
    BY DEF StaticAlloc
  <2>. QED
    BY <2>1, <2>2, ReachedAllocs
<1>3. IsFiniteSet(A)
  <2>1. ASSUME NEW d \in D PROVE d.data \in 0 .. MaxAddr
    BY <1>1, Parts, Widths DEF Allocs
  <2>2. A \subseteq 0 .. MaxAddr /\ IsFiniteSet(0 .. MaxAddr)
    BY <2>1, FS_Interval, Widths
  <2>. QED
    BY <2>2, FS_Subset
<1>4. \A d \in D : By(d.data) = d
  BY <1>1, SameData
<1>. HIDE DEF By
<1>5. f \in [A -> B] /\ \A d \in D : f[d.data] = BlockOf(d)
  BY <1>4
<1>6. \A d, e \in D : BlockOf(d) = BlockOf(e) => d = e
  BY <1>1, DataDiffer DEF Allocs
<1>. HIDE DEF f
<1>7. f \in Injection(A, B) /\ f \in Surjection(A, B)
  <2>1. \A a, b \in A : f[a] = f[b] => a = b
    BY <1>5, <1>6
  <2>2. \A x \in B : \E a \in A : f[a] = x
    BY <1>5
  <2>. QED
    BY <1>5, <2>1, <2>2 DEF Injection, IsInjective, Surjection
<1>8. Cardinality(B) = Cardinality(A)
  <2>1. ExistsBijection(A, B)
    BY <1>7 DEF ExistsBijection, Bijection
  <2>. HIDE DEF A, B
  <2>. QED
    BY <1>3, <2>1, FS_Bijection
<1>. QED
  BY <1>1, <1>2, <1>8 DEF NothingLeaks

LEMMA InvPayloads == MemoryInv => PayloadsIntact
<1>. SUFFICES ASSUME NEW D, Before(D) PROVE PayloadsIntact
  BY InvBefore
<1>. DEFINE Good1(v) == v.ptr % Layout(v.type).align = 0
                        /\ Reads(memory, v.ptr, v.len * Layout(v.type).size, Text)
            Good2(v) == v.ptr % Layout(v.type).align = 0 /\ Reads(memory, v.ptr, 16, Text)
            Good3(v) == v.ptr % PtrWidth = 0 /\ \A i \in DOMAIN Inner(v) : StrReads(Inner(v)[i])
<1>1. ASSUME NEW l \in Locals, Holds(l)
      PROVE  LET v == local[l]
             IN  /\ v.type = "str" => StrReads(v)
                 /\ v.type \in {"bytes", "wides"} => Good1(v)
                 /\ v.type = "widebox" => Good2(v)
                 /\ v.type \in {"strs", "strbox", "fn"} => Good3(v)
                 /\ v.type \in Types
  <2>. DEFINE v == local[l]
  <2>1. ValueOK(v, D) /\ v \in Val /\ v.type # "none"
    BY <1>1, BeforeStep DEF ValueOK, Holds
  <2>2. v.type \in Types
    BY <2>1 DEF Val
  <2>3. CASE v.type = "str"
    BY <2>1, <2>2, <2>3, StringReads
  <2>4. CASE v.type # "str" /\ Empty(v)
    BY <2>2, <2>4, EmptyReads DEF Empty, ListTypes
  <2>5. CASE v.type # "str" /\ ~Empty(v)
    <3>1. PICK d \in D \cup {StaticAlloc} : PointsTo(v, d)
      BY <2>1, <2>5 DEF ValueOK, Small, Nothing, Value
    <3>2. /\ v.type \in {"bytes", "wides"} => Good1(v)
          /\ v.type = "widebox" => Good2(v)
          /\ v.type \in {"strs", "strbox", "fn"} => Good3(v)
      BY <3>1, PointedReads
    <3>. QED
      BY <2>2, <2>5, <3>2
  <2>. QED
    BY <2>3, <2>4, <2>5
<1>. HIDE DEF Good1, Good2, Good3
<1>2. \A l \in Locals : LET v == local[l] IN Holds(l) =>
        CASE v.type = "str" -> StrReads(v)
          [] v.type \in {"bytes", "wides"} -> Good1(v)
          [] v.type = "widebox" -> Good2(v)
          [] OTHER -> Good3(v)
  BY <1>1 DEF Types, ListTypes, BoxTypes
<1>. QED
  BY <1>2 DEF PayloadsIntact, Good1, Good2, Good3

(* Blocks, words and local variables keep their types.                     *)
THEOREM MemoryTypeCorrect == Spec => []TypeOK
BY MemoryInvariant, InvTypes, PTL

(* The glue gives every block back at most once, with the base, size and   *)
(* alignment with which the allocator handed it out: it finds them again   *)
(* from any pointer to the payload or into it.                             *)
THEOREM BlocksFoundAgain == Spec => []AllocatorContract
BY MemoryInvariant, InvContract, PTL

(* The count in front of an allocation is the number of references to it.  *)
THEOREM HeadersCount == Spec => []CountsInHeaders
BY MemoryInvariant, InvCounts, PTL

(* There is a block for each allocation that is reached, and no other.     *)
THEOREM NoBlockLeaks == Spec => []NothingLeaks
BY MemoryInvariant, InvNoLeak, PTL

(* Payloads are aligned and read as they were written.                     *)
THEOREM PayloadsKept == Spec => []PayloadsIntact
BY MemoryInvariant, InvPayloads, PTL
=============================================================================
