--------------------------- MODULE ResourcesProofs ---------------------------
(***************************************************************************)
(* The memory and net buffers that drivers take are exactly what somebody   *)
(* has to release, for any number of blocks, any page size and any buffers; *)
(* and the three parts of Resources, each of which has its own proof.       *)
(***************************************************************************)
EXTENDS Resources, TLAPS

-----------------------------------------------------------------------------
(* Packets.  The invariant is a predicate of the heap, of what the driver    *)
(* has and of the net buffers gone astray.                                  *)

Kinds == {"nil", "mdl", "nbl", "nb", "data", "object", "pool"}
Allocators == {"none", "malloc", "cxplat", "pool"}
Flags == {"none", "nonpaged", "nonpaged aligned", "paged", "paged aligned"}
Givers ==
  {"none", "ExAllocatePool2", "IoAllocateMdl", "MmAllocatePagesForMdlEx", "MmFreePagesFromMdl",
   "NdisAllocateGenericObject", "NdisAllocateNetBufferListPool", "NdisAllocateNetBufferList",
   "NdisAllocateNetBuffer", "NdisAllocateCloneNetBufferList",
   "FwpsAllocateNetBufferAndNetBufferList0"}

BlockRecord ==
  [kind : Kinds, by : Allocators, flags : Flags, pool_flags : Flags,
   nb : Blocks \cup {NoBlock}, mdl : Blocks \cup {NoBlock},
   start_va : Int, byte_offset : Int, byte_count : Int,
   mapped : BOOLEAN, pages : Int, moved : Nat]

\* Where the bytes of a descriptor are, the moved ones not counted.
Window(r) ==
  LET first == r.start_va + r.byte_offset
      count == r.byte_count - r.moved
  IN  count > 0 => IF r.pages = 0
                   THEN 1 <= first /\ first + count <= BufferLen + 1
                   ELSE PagesAt <= first /\ first + count <= PagesAt + r.pages

\* A record is one of its block.
Fits(b, r) ==
  /\ r \in BlockRecord
  /\ r.kind = "nil" => r = Nil
  /\ r.kind = "mdl" => b \in MdlBlocks
  /\ r.kind = "nbl" => b \in NblBlocks
  /\ r.kind = "nb" => b \in NbBlocks
  /\ r.kind \in {"data", "object", "pool"} => b \in PlainBlocks
  /\ r.nb # NoBlock => r.kind = "nbl" /\ r.nb \in NbBlocks
  /\ r.kind = "mdl" => Window(r) /\ (r.by = "cxplat" => r.pages = 0)

\* The allocator a record is from.
OfPool(r) == r.by = "pool" /\ r.flags = r.pool_flags
OfLibrary(r) == r.by = "cxplat" /\ r.flags = "nonpaged"
OfMalloc(r) == r.by = "malloc" /\ r.flags = "none"

\* The types of pools have flags.
LEMMA PoolFlags == \A type \in PoolTypes : _pool_type_to_flags(type) \in Flags
<1> SUFFICES ASSUME NEW type \in PoolTypes PROVE _pool_type_to_flags(type) \in Flags
  OBVIOUS
<1>1. CASE type = "NonPagedPoolNx"
  BY <1>1 DEF Flags, _pool_type_to_flags
<1>2. CASE type = "NonPagedPoolNxCacheAligned"
  BY <1>2 DEF Flags, _pool_type_to_flags
<1>3. CASE type = "PagedPool"
  BY <1>3 DEF Flags, _pool_type_to_flags
<1>4. CASE type = "PagedPoolCacheAligned"
  BY <1>4 DEF Flags, _pool_type_to_flags
<1> QED BY <1>1, <1>2, <1>3, <1>4 DEF PoolTypes

\* The record of a block that the driver has from a call.
Given(fn, r) ==
  \/ fn = "ExAllocatePool2" /\ r.kind = "data" /\ OfPool(r)
  \/ fn = "IoAllocateMdl" /\ r.kind = "mdl" /\ OfLibrary(r)
  \/ fn \in {"MmAllocatePagesForMdlEx", "MmFreePagesFromMdl"} /\ r.kind = "mdl" /\ OfPool(r)
  \/ fn = "NdisAllocateGenericObject" /\ r.kind = "object" /\ OfMalloc(r)
  \/ fn = "NdisAllocateNetBufferListPool" /\ r.kind = "pool" /\ OfMalloc(r)
  \/ fn = "NdisAllocateNetBufferList" /\ r.kind = "nbl" /\ OfMalloc(r) /\ r.nb = NoBlock
  \/ fn = "NdisAllocateNetBuffer" /\ r.kind = "nb" /\ OfMalloc(r)
  \/ fn = "NdisAllocateCloneNetBufferList" /\ r.kind = "nbl" /\ OfMalloc(r) /\ r.nb # NoBlock
  \/ fn = "FwpsAllocateNetBufferAndNetBufferList0" /\ r.kind = "nbl" /\ OfPool(r) /\ r.nb # NoBlock

\* The driver has list l, and b is its net buffer.
Holds(h, m, l, b) == m[l] # "none" /\ h[l].nb = b

\* Every block in use is the driver's, a net buffer of a list of the driver's or
\* astray, and only one of these.
Owned(h, m, a) ==
  /\ \A b \in Blocks : m[b] # "none" => Given(m[b], h[b])
  /\ \A b \in Blocks : h[b].kind # "nil" =>
       m[b] # "none" \/ b \in a \/ \E l \in Blocks : Holds(h, m, l, b)
  /\ \A b \in a : h[b].kind = "nb" /\ m[b] = "none"
  /\ \A l, b \in Blocks : Holds(h, m, l, b) =>
       /\ h[b].kind = "nb" /\ m[b] = "none" /\ b \notin a
       /\ m[l] = "FwpsAllocateNetBufferAndNetBufferList0" => OfPool(h[b])
  /\ \A k, l, b \in Blocks : Holds(h, m, k, b) /\ Holds(h, m, l, b) => k = l

\* A net buffer that is not astray has a descriptor.
Described(h, a) ==
  \A b \in Blocks : h[b].kind = "nb" /\ b \notin a => h[b].mdl \in Blocks /\ h[h[b].mdl].kind = "mdl"

Sound(h, m, a) ==
  /\ h \in [Blocks -> BlockRecord]
  /\ m \in [Blocks -> Givers]
  /\ a \subseteq NbBlocks
  /\ \A b \in Blocks : Fits(b, h[b])
  /\ Owned(h, m, a)
  /\ Described(h, a)

PacketInv == Sound(heap, mine, astray)

\* The record of an unused block.
LEMMA NilRecord ==
  /\ Nil \in BlockRecord
  /\ Nil.kind = "nil" /\ Nil.by = "none" /\ Nil.nb = NoBlock
  /\ \A b : Fits(b, Nil)
<1>1. /\ Nil \in BlockRecord
      /\ Nil.kind = "nil" /\ Nil.by = "none" /\ Nil.nb = NoBlock
  BY DEF Nil, BlockRecord, Kinds, Allocators, Flags
<1> QED BY <1>1, Zenon DEF Fits

\* An empty heap is sound.
LEMMA EmptyHeap == Sound([b \in Blocks |-> Nil], NothingMine, {})
<1> DEFINE h == [b \in Blocks |-> Nil]
<1>1. /\ h \in [Blocks -> BlockRecord] /\ NothingMine \in [Blocks -> Givers]
      /\ \A b \in Blocks : h[b] = Nil /\ NothingMine[b] = "none"
  BY NilRecord DEF NothingMine, Givers
<1> HIDE DEF h
<1>2. Owned(h, NothingMine, {})
  BY <1>1, NilRecord DEF Owned, Holds
<1>3. Described(h, {})
  BY <1>1, NilRecord DEF Described
<1>4. Sound(h, NothingMine, {})
  BY <1>1, <1>2, <1>3, NilRecord DEF Sound
<1> QED BY <1>4 DEF h

\* A call that has given the driver a block is one of those that do.
LEMMA GivenBy ==
  ASSUME NEW fn, NEW r, Given(fn, r)
  PROVE  fn \in Givers /\ fn # "none" /\ r.kind # "nil" /\ r.by # "none"
BY DEF Given, Givers, OfPool, OfLibrary, OfMalloc

\* What an unused block and a block of the driver's are not.
LEMMA UnusedBlock ==
  ASSUME NEW h, NEW m, NEW a, Sound(h, m, a), NEW b \in Blocks, h[b] = Nil
  PROVE  m[b] = "none" /\ b \notin a /\ \A l \in Blocks : ~Holds(h, m, l, b)
BY NilRecord DEF Sound, Owned, Given

\* One block without a net buffer changes, which no list holds and which is not
\* astray: it stays or becomes the driver's, or unused.
LEMMA SoundAfter ==
  ASSUME NEW h, NEW m, NEW a, Sound(h, m, a),
         NEW b \in Blocks, b \notin a, \A l \in Blocks : ~Holds(h, m, l, b),
         NEW h2 \in [Blocks -> BlockRecord], NEW m2 \in [Blocks -> Givers],
         \A x \in Blocks : x # b => h2[x] = h[x] /\ m2[x] = m[x],
         h[b].nb = NoBlock, h2[b].nb = NoBlock, Fits(b, h2[b]),
         m2[b] = "none" => h2[b].kind = "nil",
         m2[b] # "none" => Given(m2[b], h2[b]),
         Described(h2, a)
  PROVE  Sound(h2, m2, a)
<1>1. NoBlock \notin Blocks
  BY PacketsAssumption DEF Blocks
<1>2. \A l, x \in Blocks : Holds(h2, m2, l, x) <=> Holds(h, m, l, x)
  <2> TAKE l \in Blocks, x \in Blocks
  <2>1. CASE l = b
    BY <1>1, <2>1 DEF Holds
  <2>2. CASE l # b
    BY <2>2 DEF Holds
  <2> QED BY <2>1, <2>2
<1>3. \A x \in Blocks : m2[x] # "none" => Given(m2[x], h2[x])
  BY DEF Sound, Owned
<1>4. \A x \in Blocks : h2[x].kind # "nil" =>
        m2[x] # "none" \/ x \in a \/ \E l \in Blocks : Holds(h2, m2, l, x)
  BY <1>2 DEF Sound, Owned
<1>5. \A x \in a : h2[x].kind = "nb" /\ m2[x] = "none"
  BY DEF Sound, Owned, Blocks
<1>6. \A l, x \in Blocks : Holds(h2, m2, l, x) =>
        /\ h2[x].kind = "nb" /\ m2[x] = "none" /\ x \notin a
        /\ m2[l] = "FwpsAllocateNetBufferAndNetBufferList0" => OfPool(h2[x])
  <2> SUFFICES ASSUME NEW l \in Blocks, NEW x \in Blocks, Holds(h, m, l, x)
               PROVE  /\ h2[x].kind = "nb" /\ m2[x] = "none" /\ x \notin a
                      /\ m2[l] = "FwpsAllocateNetBufferAndNetBufferList0" => OfPool(h2[x])
    BY <1>2, Zenon
  <2>1. x # b
    OBVIOUS
  <2>2. l # b
    BY <1>1 DEF Holds
  <2> QED BY <2>1, <2>2 DEF Sound, Owned
<1>7. \A k, l, x \in Blocks : Holds(h2, m2, k, x) /\ Holds(h2, m2, l, x) => k = l
  BY <1>2, Zenon DEF Sound, Owned
<1>8. Owned(h2, m2, a)
  BY <1>3, <1>4, <1>5, <1>6, <1>7, Zenon DEF Owned
<1>9. \A x \in Blocks : Fits(x, h2[x])
  BY DEF Sound
<1> QED BY <1>8, <1>9, Zenon DEF Sound

\* A new block is given to the driver.
LEMMA SoundAllocation ==
  ASSUME NEW h, NEW m, NEW a, Sound(h, m, a),
         NEW b \in Blocks, h[b] = Nil,
         NEW r, Fits(b, r), r.nb = NoBlock,
         r.kind = "nb" => r.mdl \in Blocks /\ h[r.mdl].kind = "mdl",
         NEW fn, Given(fn, r)
  PROVE  Sound([h EXCEPT ![b] = r], [m EXCEPT ![b] = fn], a)
<1> DEFINE h2 == [h EXCEPT ![b] = r]
           m2 == [m EXCEPT ![b] = fn]
<1>1. /\ h2 \in [Blocks -> BlockRecord] /\ m2 \in [Blocks -> Givers]
      /\ h2[b] = r /\ m2[b] = fn
      /\ \A x \in Blocks : x # b => h2[x] = h[x] /\ m2[x] = m[x]
  BY GivenBy DEF Sound, Fits
<1>2. b \notin a /\ \A l \in Blocks : ~Holds(h, m, l, b)
  BY UnusedBlock
<1>3. fn # "none" /\ h[b].kind = "nil" /\ h[b].nb = NoBlock
  BY NilRecord DEF Given
<1> HIDE DEF h2, m2
<1>4. Described(h2, a)
  <2> SUFFICES ASSUME NEW x \in Blocks, h2[x].kind = "nb", x \notin a
               PROVE  h2[x].mdl \in Blocks /\ h2[h2[x].mdl].kind = "mdl"
    BY DEF Described
  <2>1. PICK d : d = h2[x].mdl
    OBVIOUS
  <2>2. d \in Blocks /\ h[d].kind = "mdl"
    BY <1>1, <2>1 DEF Sound, Described
  <2>3. d # b
    BY <1>3, <2>2
  <2> QED BY <1>1, <2>1, <2>2, <2>3
<1>5. Sound(h2, m2, a)
  BY <1>1, <1>2, <1>3, <1>4, SoundAfter
<1> QED BY <1>5 DEF h2, m2

\* The driver releases a block that has no other with it and is not referred to.
LEMMA SoundRelease ==
  ASSUME NEW h, NEW m, NEW a, Sound(h, m, a),
         NEW b \in Blocks, m[b] # "none", h[b].nb = NoBlock,
         \A x \in Blocks : h[x].kind = "nb" /\ x \notin a => h[x].mdl # b
  PROVE  Sound([h EXCEPT ![b] = Nil], [m EXCEPT ![b] = "none"], a)
<1> DEFINE h2 == [h EXCEPT ![b] = Nil]
           m2 == [m EXCEPT ![b] = "none"]
<1>1. /\ h2 \in [Blocks -> BlockRecord] /\ m2 \in [Blocks -> Givers]
      /\ h2[b] = Nil /\ m2[b] = "none"
      /\ \A x \in Blocks : x # b => h2[x] = h[x] /\ m2[x] = m[x]
  BY NilRecord DEF Sound, Givers
<1>2. b \notin a /\ \A l \in Blocks : ~Holds(h, m, l, b)
  BY DEF Sound, Owned
<1> HIDE DEF h2, m2
<1>3. Described(h2, a)
  <2> SUFFICES ASSUME NEW x \in Blocks, h2[x].kind = "nb", x \notin a
               PROVE  h2[x].mdl \in Blocks /\ h2[h2[x].mdl].kind = "mdl"
    BY DEF Described
  <2>1. x # b /\ h2[x] = h[x]
    BY <1>1, NilRecord
  <2>2. PICK d : d = h[x].mdl
    OBVIOUS
  <2>3. d \in Blocks /\ h[d].kind = "mdl" /\ d # b
    BY <2>1, <2>2 DEF Sound, Described
  <2> QED BY <1>1, <2>1, <2>2, <2>3
<1>4. Sound(h2, m2, a)
  BY <1>1, <1>2, <1>3, NilRecord, SoundAfter
<1> QED BY <1>4 DEF h2, m2

\* A descriptor of the driver's changes; it may now be the driver's from another
\* call.
LEMMA SoundChange ==
  ASSUME NEW h, NEW m, NEW a, Sound(h, m, a),
         NEW b \in Blocks, h[b].kind = "mdl",
         NEW r, Fits(b, r), r.kind = "mdl",
         NEW m2 \in [Blocks -> Givers], Given(m2[b], r),
         \A x \in Blocks : x # b => m2[x] = m[x]
  PROVE  Sound([h EXCEPT ![b] = r], m2, a)
<1> DEFINE h2 == [h EXCEPT ![b] = r]
<1>1. /\ h2 \in [Blocks -> BlockRecord] /\ h2[b] = r
      /\ \A x \in Blocks : x # b => h2[x] = h[x]
  BY DEF Sound, Fits
<1>2. b \notin a /\ \A l \in Blocks : ~Holds(h, m, l, b)
  BY DEF Sound, Owned
<1>3. h[b].nb = NoBlock /\ r.nb = NoBlock
  BY DEF Sound, Fits
<1>4. m2[b] # "none"
  BY DEF Given
<1> HIDE DEF h2
<1>5. Described(h2, a)
  <2> SUFFICES ASSUME NEW x \in Blocks, h2[x].kind = "nb", x \notin a
               PROVE  h2[x].mdl \in Blocks /\ h2[h2[x].mdl].kind = "mdl"
    BY DEF Described
  <2>1. x # b /\ h2[x] = h[x]
    BY <1>1
  <2>2. PICK d : d = h[x].mdl
    OBVIOUS
  <2>3. d \in Blocks /\ h[d].kind = "mdl"
    BY <2>1, <2>2 DEF Sound, Described
  <2> QED BY <1>1, <2>1, <2>2, <2>3
<1>6. Sound(h2, m2, a)
  BY <1>1, <1>2, <1>3, <1>4, <1>5, SoundAfter
<1> QED BY <1>6 DEF h2

\* A list and its net buffer are allocated together.
LEMMA SoundPair ==
  ASSUME NEW h, NEW m, NEW a, Sound(h, m, a),
         NEW l \in Blocks, h[l] = Nil, NEW b \in Blocks, h[b] = Nil,
         NEW lr, Fits(l, lr), lr.nb = b,
         NEW br, Fits(b, br), br.kind = "nb", br.mdl \in Blocks, h[br.mdl].kind = "mdl",
         NEW fn, Given(fn, lr),
         fn = "FwpsAllocateNetBufferAndNetBufferList0" => OfPool(br)
  PROVE  Sound([h EXCEPT ![l] = lr, ![b] = br], [m EXCEPT ![l] = fn], a)
<1> DEFINE h2 == [h EXCEPT ![l] = lr, ![b] = br]
           m2 == [m EXCEPT ![l] = fn]
<1>1. NoBlock \notin Blocks /\ lr.kind = "nbl" /\ l # b /\ br.nb = NoBlock
  BY PacketsAssumption DEF Blocks, Fits
<1>2. /\ h2 \in [Blocks -> BlockRecord] /\ m2 \in [Blocks -> Givers]
      /\ h2[l] = lr /\ h2[b] = br /\ m2[l] = fn
      /\ \A x \in Blocks : x # l /\ x # b => h2[x] = h[x]
      /\ \A x \in Blocks : x # l => m2[x] = m[x]
  BY <1>1, GivenBy, Zenon DEF Sound, Fits
<1>3. /\ m[b] = "none" /\ b \notin a /\ \A k \in Blocks : ~Holds(h, m, k, b)
      /\ m[l] = "none" /\ l \notin a /\ \A k \in Blocks : ~Holds(h, m, k, l)
  <2>1. \A x \in Blocks : h[x] = Nil => m[x] = "none" /\ x \notin a /\ \A k \in Blocks : ~Holds(h, m, k, x)
    BY UnusedBlock, Zenon
  <2> QED BY <2>1, Zenon
<1>4. fn # "none"
  BY DEF Given
<1> HIDE DEF h2, m2
<1>5. \A k, x \in Blocks : Holds(h2, m2, k, x) <=> Holds(h, m, k, x) \/ (k = l /\ x = b)
  <2> TAKE k \in Blocks, x \in Blocks
  <2>1. CASE k = l
    BY <1>2, <1>3, <1>4, <2>1 DEF Holds
  <2>2. CASE k = b
    BY <1>1, <1>2, <1>3, <2>2 DEF Holds
  <2>3. CASE k # l /\ k # b
    BY <1>2, <2>3 DEF Holds
  <2> QED BY <2>1, <2>2, <2>3
<1>6. Owned(h2, m2, a)
  <2>1. ASSUME NEW x \in Blocks, m2[x] # "none"
        PROVE  Given(m2[x], h2[x])
    <3>1. CASE x = l
      BY <1>2, <3>1
    <3>2. CASE x = b
      BY <1>1, <1>2, <1>3, <2>1, <3>2
    <3>3. CASE x # l /\ x # b
      <4>1. m[x] # "none" => Given(m[x], h[x])
        BY Zenon DEF Sound, Owned
      <4> QED BY <1>2, <2>1, <3>3, <4>1
    <3> QED BY <3>1, <3>2, <3>3
  <2>2. ASSUME NEW x \in Blocks, h2[x].kind # "nil"
        PROVE  m2[x] # "none" \/ x \in a \/ \E k \in Blocks : Holds(h2, m2, k, x)
    <3>1. CASE x = l
      BY <1>2, <1>4, <3>1
    <3>2. CASE x = b
      BY <1>5, <3>2
    <3>3. CASE x # l /\ x # b
      <4>1. h2[x] = h[x] /\ m2[x] = m[x]
        BY <1>2, <3>3
      <4>2. h[x].kind # "nil" => m[x] # "none" \/ x \in a \/ \E k \in Blocks : Holds(h, m, k, x)
        BY Zenon DEF Sound, Owned
      <4> QED BY <1>5, <2>2, <4>1, <4>2, Zenon
    <3> QED BY <3>1, <3>2, <3>3
  <2>3. \A x \in a : h2[x].kind = "nb" /\ m2[x] = "none"
    <3> TAKE x \in a
    <3>1. x \in Blocks /\ x # l /\ x # b
      BY <1>3, Zenon DEF Sound, Blocks
    <3>2. h[x].kind = "nb" /\ m[x] = "none"
      BY Zenon DEF Sound, Owned
    <3> QED BY <1>2, <3>1, <3>2
  <2>4. ASSUME NEW k \in Blocks, NEW x \in Blocks, Holds(h2, m2, k, x)
        PROVE  /\ h2[x].kind = "nb" /\ m2[x] = "none" /\ x \notin a
               /\ m2[k] = "FwpsAllocateNetBufferAndNetBufferList0" => OfPool(h2[x])
    <3>1. CASE k = l /\ x = b
      BY <1>1, <1>2, <1>3, <3>1, Zenon
    <3>2. CASE Holds(h, m, k, x)
      <4>1. x # l /\ x # b
        BY <1>3, <3>2, Zenon
      <4>2. k # l
        BY <1>3, <3>2 DEF Holds
      <4>3. /\ h[x].kind = "nb" /\ m[x] = "none" /\ x \notin a
            /\ m[k] = "FwpsAllocateNetBufferAndNetBufferList0" => OfPool(h[x])
        BY <3>2, Zenon DEF Sound, Owned
      <4> QED BY <1>2, <4>1, <4>2, <4>3
    <3> QED BY <1>5, <2>4, <3>1, <3>2, Zenon
  <2>5. ASSUME NEW j \in Blocks, NEW k \in Blocks, NEW x \in Blocks,
               Holds(h2, m2, j, x), Holds(h2, m2, k, x)
        PROVE  j = k
    <3>1. Holds(h, m, j, x) \/ (j = l /\ x = b)
      BY <1>5, <2>5
    <3>2. Holds(h, m, k, x) \/ (k = l /\ x = b)
      BY <1>5, <2>5
    <3>3. ~Holds(h, m, j, b) /\ ~Holds(h, m, k, b)
      BY <1>3
    <3>4. Holds(h, m, j, x) /\ Holds(h, m, k, x) => j = k
      BY Zenon DEF Sound, Owned
    <3> QED BY <3>1, <3>2, <3>3, <3>4
  <2> QED BY <2>1, <2>2, <2>3, <2>4, <2>5, Zenon DEF Owned
<1>7. Described(h2, a)
  <2> SUFFICES ASSUME NEW x \in Blocks, h2[x].kind = "nb", x \notin a
               PROVE  h2[x].mdl \in Blocks /\ h2[h2[x].mdl].kind = "mdl"
    BY DEF Described
  <2>1. PICK d : d = h2[x].mdl
    OBVIOUS
  <2>2. d \in Blocks /\ h[d].kind = "mdl"
    <3>1. CASE x = b
      BY <1>2, <2>1, <3>1
    <3>2. x # l
      BY <1>1, <1>2
    <3>3. CASE x # b
      <4>1. h2[x] = h[x]
        BY <1>2, <3>2, <3>3
      <4> QED BY <2>1, <4>1, Zenon DEF Sound, Described
    <3> QED BY <3>1, <3>3
  <2>3. d # b /\ d # l
    BY <2>2, NilRecord
  <2> QED BY <1>2, <2>1, <2>2, <2>3
<1>8. \A x \in Blocks : Fits(x, h2[x])
  BY <1>2, Zenon DEF Sound
<1>9. Sound(h2, m2, a)
  BY <1>2, <1>6, <1>7, <1>8, Zenon DEF Sound
<1> QED BY <1>9 DEF h2, m2

\* A list is released, with its net buffer or leaving it astray.
LEMMA SoundPairRelease ==
  ASSUME NEW h, NEW m, NEW a, Sound(h, m, a),
         NEW l \in Blocks, m[l] # "none", NEW b \in Blocks, h[l].nb = b,
         NEW h2 \in [Blocks -> BlockRecord], NEW a2, h2[l] = Nil,
         \A x \in Blocks : x # l /\ x # b => h2[x] = h[x],
         \/ h2[b] = Nil /\ a2 = a
         \/ h2[b] = h[b] /\ a2 = a \cup {b}
  PROVE  Sound(h2, [m EXCEPT ![l] = "none"], a2)
<1> DEFINE m2 == [m EXCEPT ![l] = "none"]
<1>1. NoBlock \notin Blocks /\ h[l].kind = "nbl" /\ h[b].kind = "nb" /\ b \in NbBlocks
  <2>1. Holds(h, m, l, b)
    BY Zenon DEF Holds
  <2>2. NoBlock \notin Blocks
    BY PacketsAssumption DEF Blocks
  <2>3. h[b].kind = "nb"
    BY <2>1, Zenon DEF Sound, Owned
  <2>4. Fits(l, h[l]) /\ Fits(b, h[b])
    BY Zenon DEF Sound
  <2> QED BY <2>2, <2>3, <2>4, Zenon DEF Fits
<1>2. /\ m2 \in [Blocks -> Givers] /\ m2[l] = "none"
      /\ \A x \in Blocks : x # l => m2[x] = m[x]
  BY DEF Sound, Givers
<1>3. l # b /\ l \notin a /\ b \notin a /\ m[b] = "none" /\ a2 \subseteq a \cup {b}
  BY <1>1 DEF Sound, Owned, Holds
<1>4. h[b].nb = NoBlock /\ h2[b].nb = NoBlock
  BY <1>1, NilRecord DEF Sound, Fits
<1> HIDE DEF m2
<1>5. \A k, x \in Blocks : Holds(h2, m2, k, x) <=> Holds(h, m, k, x) /\ k # l
  <2> TAKE k \in Blocks, x \in Blocks
  <2>1. CASE k = l
    BY <1>2, <2>1 DEF Holds
  <2>2. CASE k = b
    BY <1>1, <1>4, <2>2 DEF Holds
  <2>3. CASE k # l /\ k # b
    BY <1>2, <2>3 DEF Holds
  <2> QED BY <2>1, <2>2, <2>3, Zenon
<1>6. \A k \in Blocks : Holds(h, m, k, b) => k = l
  BY DEF Sound, Owned, Holds
<1>7. Owned(h2, m2, a2)
  <2>1. \A x \in Blocks : m2[x] # "none" => Given(m2[x], h2[x])
    BY <1>2, <1>3 DEF Sound, Owned
  <2>2. ASSUME NEW x \in Blocks, h2[x].kind # "nil"
        PROVE  m2[x] # "none" \/ x \in a2 \/ \E k \in Blocks : Holds(h2, m2, k, x)
    <3>1. CASE x = l
      BY <2>2, <3>1, NilRecord, Zenon
    <3>2. CASE x = b
      BY <2>2, <3>2, NilRecord, Zenon
    <3>3. CASE x # l /\ x # b
      <4>1. m[x] # "none" \/ x \in a \/ \E k \in Blocks : Holds(h, m, k, x)
        BY <2>2, <3>3 DEF Sound, Owned
      <4>2. \A k \in Blocks : Holds(h, m, k, x) => k # l
        BY <3>3 DEF Holds
      <4> QED BY <1>2, <1>5, <3>3, <4>1, <4>2
    <3> QED BY <3>1, <3>2, <3>3, Zenon
  <2>3. \A x \in a2 : h2[x].kind = "nb" /\ m2[x] = "none"
    <3> TAKE x \in a2
    <3>1. CASE x = b
      BY <1>1, <1>2, <1>3, <3>1
    <3>2. CASE x \in a /\ x # b
      <4>1. x \in Blocks /\ x # l
        BY <1>3, <3>2, Zenon DEF Sound, Blocks
      <4>2. h[x].kind = "nb" /\ m[x] = "none"
        BY <3>2, Zenon DEF Sound, Owned
      <4> QED BY <1>2, <3>2, <4>1, <4>2
    <3> QED BY <1>3, <3>1, <3>2
  <2>4. ASSUME NEW k \in Blocks, NEW x \in Blocks, Holds(h2, m2, k, x)
        PROVE  /\ h2[x].kind = "nb" /\ m2[x] = "none" /\ x \notin a2
               /\ m2[k] = "FwpsAllocateNetBufferAndNetBufferList0" => OfPool(h2[x])
    <3>1. Holds(h, m, k, x) /\ k # l
      BY <1>5, <2>4
    <3>2. x # b
      BY <1>6, <3>1
    <3>3. /\ h[x].kind = "nb" /\ m[x] = "none" /\ x \notin a
          /\ m[k] = "FwpsAllocateNetBufferAndNetBufferList0" => OfPool(h[x])
      BY <3>1 DEF Sound, Owned
    <3>4. x # l
      BY <1>1, <3>3, Zenon
    <3> QED BY <1>2, <1>3, <3>1, <3>2, <3>3, <3>4, Zenon
  <2>5. \A j, k, x \in Blocks : Holds(h2, m2, j, x) /\ Holds(h2, m2, k, x) => j = k
    BY <1>5, Zenon DEF Sound, Owned
  <2> QED BY <2>1, <2>2, <2>3, <2>4, <2>5, Zenon DEF Owned
<1>8. Described(h2, a2)
  <2> SUFFICES ASSUME NEW x \in Blocks, h2[x].kind = "nb", x \notin a2
               PROVE  h2[x].mdl \in Blocks /\ h2[h2[x].mdl].kind = "mdl"
    BY Zenon DEF Described
  <2>1. x # b /\ x # l /\ x \notin a
    BY NilRecord, Zenon
  <2>2. PICK d : d = h[x].mdl
    OBVIOUS
  <2>3. d \in Blocks /\ h[d].kind = "mdl"
    BY <2>1, <2>2 DEF Sound, Described
  <2>4. d # b /\ d # l
    BY <1>1, <2>3
  <2> QED BY <2>1, <2>2, <2>3, <2>4, Zenon
<1>9. a2 \subseteq NbBlocks /\ \A x \in Blocks : Fits(x, h2[x])
  BY <1>1, <1>3, NilRecord DEF Sound
<1>10. Sound(h2, m2, a2)
  BY <1>2, <1>7, <1>8, <1>9, Zenon DEF Sound
<1> QED BY <1>10 DEF m2

\* The block an allocation takes is one of its kind, and unused.
LEMMA NextUnused ==
  ASSUME NEW h, NEW kind, Unused(h, kind) # {}
  PROVE  /\ h[NextBlock(h, kind)] = Nil /\ NextBlock(h, kind) \in Blocks
         /\ kind = "mdl" => NextBlock(h, kind) \in MdlBlocks
         /\ kind = "nbl" => NextBlock(h, kind) \in NblBlocks
         /\ kind = "nb" => NextBlock(h, kind) \in NbBlocks
         /\ kind \in {"data", "object", "pool"} => NextBlock(h, kind) \in PlainBlocks
<1>1. NextBlock(h, kind) \in Unused(h, kind)
  BY DEF NextBlock
<1> HIDE DEF NextBlock
<1>2. CASE kind = "mdl"
  BY <1>1, <1>2 DEF Unused, Blocks
<1>3. CASE kind = "nbl"
  BY <1>1, <1>3 DEF Unused, Blocks
<1>4. CASE kind = "nb"
  BY <1>1, <1>4 DEF Unused, Blocks
<1>5. CASE kind \notin {"mdl", "nbl", "nb"}
  BY <1>1, <1>5 DEF Unused, Blocks
<1> QED BY <1>2, <1>3, <1>4, <1>5

\* A block that goes back to the allocator it is from is unused again.
LEMMA GoesBack ==
  ASSUME NEW h \in [Blocks -> BlockRecord], NEW b \in Blocks, h[b].kind # "nil"
  PROVE  /\ OfPool(h[b]) => ExFreePoolCPP(h, b) = [h EXCEPT ![b] = Nil]
         /\ OfLibrary(h[b]) => cxplat_free(h, b) = [h EXCEPT ![b] = Nil]
         /\ OfMalloc(h[b]) => free(h, b) = [h EXCEPT ![b] = Nil]
BY Zenon DEF ExFreePoolCPP, cxplat_free, free, Deallocated, OfPool, OfLibrary, OfMalloc

\* What was allocated and goes back leaves the heap as it was.
LEMMA Undone ==
  ASSUME NEW h \in [Blocks -> BlockRecord], NEW b \in Blocks, h[b] = Nil, NEW r
  PROVE  [[h EXCEPT ![b] = r] EXCEPT ![b] = Nil] = h
BY Zenon

\* A record is another but for the allocator it is from.
Like(r, n) ==
  /\ r \in BlockRecord
  /\ r.kind = n.kind /\ r.nb = n.nb /\ r.mdl = n.mdl
  /\ r.start_va = n.start_va /\ r.byte_offset = n.byte_offset /\ r.byte_count = n.byte_count
  /\ r.pages = n.pages /\ r.moved = n.moved

\* What each allocator returns is such a record.
LEMMA Allocation ==
  ASSUME NEW h, NEW n \in BlockRecord
  PROVE  /\ \E r : /\ malloc(h, n) = [h EXCEPT ![NextBlock(h, n.kind)] = r]
                   /\ Like(r, n) /\ OfMalloc(r)
         /\ \E r : /\ cxplat_allocate(h, n) = [h EXCEPT ![NextBlock(h, n.kind)] = r]
                   /\ Like(r, n) /\ OfLibrary(r)
         /\ \A type \in PoolTypes : \E r :
              /\ ExAllocatePoolUninitializedCPP(h, type, n) = [h EXCEPT ![NextBlock(h, n.kind)] = r]
              /\ Like(r, n) /\ OfPool(r)
<1>1. ASSUME NEW fl \in Flags
      PROVE  /\ [n EXCEPT !.pool_flags = fl] \in BlockRecord
             /\ Like([n EXCEPT !.pool_flags = fl], n)
             /\ [n EXCEPT !.pool_flags = fl].pool_flags = fl
  BY DEF BlockRecord, Like
<1>2. /\ "malloc" \in Allocators /\ "cxplat" \in Allocators /\ "pool" \in Allocators
      /\ "none" \in Flags /\ "nonpaged" \in Flags
  BY DEF Allocators, Flags
<1>3. \E r : malloc(h, n) = [h EXCEPT ![NextBlock(h, n.kind)] = r] /\ Like(r, n) /\ OfMalloc(r)
  <2> DEFINE r == [n EXCEPT !.by = "malloc", !.flags = "none"]
  <2>1. malloc(h, n) = [h EXCEPT ![NextBlock(h, n.kind)] = r]
    BY Zenon DEF malloc, Allocated
  <2>2. Like(r, n) /\ r.by = "malloc" /\ r.flags = "none"
    BY <1>2, Zenon DEF BlockRecord, Like
  <2> HIDE DEF r
  <2> QED BY <2>1, <2>2, Zenon DEF OfMalloc
<1>4. \E r : cxplat_allocate(h, n) = [h EXCEPT ![NextBlock(h, n.kind)] = r] /\ Like(r, n) /\ OfLibrary(r)
  <2> DEFINE r == [n EXCEPT !.by = "cxplat", !.flags = "nonpaged"]
  <2>1. cxplat_allocate(h, n) = [h EXCEPT ![NextBlock(h, n.kind)] = r]
    BY Zenon DEF cxplat_allocate, Allocated
  <2>2. Like(r, n) /\ r.by = "cxplat" /\ r.flags = "nonpaged"
    BY <1>2, Zenon DEF BlockRecord, Like
  <2> HIDE DEF r
  <2> QED BY <2>1, <2>2, Zenon DEF OfLibrary
<1>5. ASSUME NEW type \in PoolTypes
      PROVE  \E r : /\ ExAllocatePoolUninitializedCPP(h, type, n) = [h EXCEPT ![NextBlock(h, n.kind)] = r]
                    /\ Like(r, n) /\ OfPool(r)
  <2> DEFINE fl == _pool_type_to_flags(type)
             x == [n EXCEPT !.pool_flags = fl]
             r == [x EXCEPT !.by = "pool", !.flags = fl]
  <2>1. fl \in Flags
    BY PoolFlags
  <2>2. ExAllocatePoolUninitializedCPP(h, type, n) = [h EXCEPT ![NextBlock(h, x.kind)] = r]
    BY Zenon DEF ExAllocatePoolUninitializedCPP, Allocated
  <2> HIDE DEF fl
  <2>3. x \in BlockRecord /\ Like(x, n) /\ x.pool_flags = fl
    BY <1>1, <2>1, Zenon
  <2> HIDE DEF x
  <2>4. Like(r, x) /\ r.by = "pool" /\ r.flags = fl /\ r.pool_flags = x.pool_flags
    BY <1>2, <2>1, <2>3, Zenon DEF BlockRecord, Like
  <2> HIDE DEF r
  <2>5. x.kind = n.kind /\ Like(r, n) /\ OfPool(r)
    BY <2>3, <2>4, Zenon DEF Like, OfPool
  <2> QED BY <2>2, <2>5, Zenon
<1> QED BY <1>3, <1>4, <1>5, Zenon

\* The fields of a new block,
LEMMA BlockFields ==
  ASSUME NEW k \in Kinds
  PROVE  /\ Block(k) \in BlockRecord
         /\ Block(k).kind = k /\ Block(k).nb = NoBlock
BY NilRecord DEF Block, BlockRecord

\* of a net buffer over a descriptor,
LEMMA NetBufferFields ==
  ASSUME NEW m \in Blocks
  PROVE  /\ Nb(m) \in BlockRecord
         /\ Nb(m).kind = "nb" /\ Nb(m).nb = NoBlock /\ Nb(m).mdl = m
<1>1. Block("nb") \in BlockRecord /\ Block("nb").kind = "nb" /\ Block("nb").nb = NoBlock
  BY BlockFields DEF Kinds
<1> QED BY <1>1 DEF Nb, BlockRecord

\* and of a descriptor.
LEMMA DescriptorFields ==
  ASSUME NEW va \in Int, NEW count \in Int, NEW pages \in Int, NEW d,
         d = MmInitializeMdl(va, count, pages)
  PROVE  /\ d \in BlockRecord
         /\ d.kind = "mdl" /\ d.nb = NoBlock
         /\ d.start_va = PageAlign(va) /\ d.byte_offset = ByteOffset(va)
         /\ d.byte_count = count /\ d.pages = pages /\ d.moved = 0
<1>1. PageAlign(va) \in Int /\ ByteOffset(va) \in Int
  BY PacketsAssumption DEF PageAlign, ByteOffset
<1>2. Block("mdl") \in BlockRecord /\ Block("mdl").kind = "mdl" /\ Block("mdl").nb = NoBlock
      /\ Block("mdl").moved = 0
  BY BlockFields DEF Kinds, Block, Nil
<1> QED BY <1>1, <1>2, Zenon DEF MmInitializeMdl, BlockRecord

\* The first byte of a page aligned address and its offset is the address.
LEMMA Aligned ==
  ASSUME NEW va \in Int
  PROVE  /\ PageAlign(va) \in Int /\ ByteOffset(va) \in Int
         /\ PageAlign(va) + ByteOffset(va) = va
BY PacketsAssumption DEF PageAlign, ByteOffset
-----------------------------------------------------------------------------
(* The calls, one lemma each.                                               *)

\* A step that changes nothing, and a bug check.
LEMMA Untouched ==
  ASSUME PacketInv, UNCHANGED <<heap, mine, astray>>
  PROVE  PacketInv'
BY Zenon DEF PacketInv

\* A bug check, which ends the test and empties the heap.
LEMMA BugCheckInv ==
  ASSUME BugCheck
  PROVE  PacketInv'
BY EmptyHeap, Zenon DEF BugCheck, PacketInv

\* A block without a net buffer is allocated and given to the driver.
LEMMA AllocationInv ==
  ASSUME PacketInv, NEW n \in BlockRecord, n.nb = NoBlock,
         n.kind \in {"nbl", "nb", "data", "object", "pool"}, Unused(heap, n.kind) # {},
         n.kind = "nb" => n.mdl \in Blocks /\ heap[n.mdl].kind = "mdl",
         NEW fn, NEW r, Like(r, n), Given(fn, r),
         heap' = [heap EXCEPT ![NextBlock(heap, n.kind)] = r], Got(NextBlock(heap, n.kind), fn)
  PROVE  PacketInv'
<1> DEFINE b == NextBlock(heap, n.kind)
<1>1. heap[b] = Nil /\ b \in Blocks
  BY NextUnused
<1>2. Fits(b, r)
  BY NextUnused DEF Fits, Like
<1>3. heap' = [heap EXCEPT ![b] = r] /\ mine' = [mine EXCEPT ![b] = fn] /\ astray' = astray
  BY DEF Got
<1> HIDE DEF b
<1>4. r.nb = NoBlock /\ (r.kind = "nb" => r.mdl \in Blocks /\ heap[r.mdl].kind = "mdl")
  BY DEF Like
<1>5. Sound([heap EXCEPT ![b] = r], [mine EXCEPT ![b] = fn], astray)
  BY <1>1, <1>2, <1>4, SoundAllocation, Zenon DEF PacketInv
<1> QED BY <1>3, <1>5, Zenon DEF PacketInv

\* NDIS objects come from malloc.
LEMMA NdisAllocateInv ==
  ASSUME PacketInv, NEW n \in BlockRecord, n.nb = NoBlock,
         n.kind \in {"nbl", "nb", "object", "pool"},
         n.kind = "nb" => n.mdl \in Blocks /\ heap[n.mdl].kind = "mdl",
         NEW fn, NEW ok, NdisAllocate(fn, n, ok),
         \A r : Like(r, n) /\ OfMalloc(r) => Given(fn, r)
  PROVE  PacketInv'
<1>1. CASE ok
  <2>1. heap' = malloc(heap, n) /\ Got(NextBlock(heap, n.kind), fn) /\ Unused(heap, n.kind) # {}
    BY <1>1, Zenon DEF NdisAllocate, Room
  <2>2. PICK r : malloc(heap, n) = [heap EXCEPT ![NextBlock(heap, n.kind)] = r] /\ Like(r, n) /\ OfMalloc(r)
    BY Allocation, Zenon
  <2>3. Given(fn, r)
    BY <2>2, Zenon
  <2> QED BY <2>1, <2>2, <2>3, AllocationInv, Zenon
<1>2. CASE ~ok
  BY <1>2, Untouched, Zenon DEF NdisAllocate, Fails, packetVars
<1> QED BY <1>1, <1>2, Zenon

\* The objects of NDIS that no net buffer is attached to.
LEMMA NdisObjectsInv ==
  ASSUME PacketInv, NEW ok \in BOOLEAN,
         \/ NdisAllocateGenericObject(ok) \/ NdisAllocateNetBufferListPool(ok)
         \/ NdisAllocateNetBufferList(ok)
  PROVE  PacketInv'
<1>1. \A k \in {"object", "pool", "nbl"} :
        Block(k) \in BlockRecord /\ Block(k).kind = k /\ Block(k).nb = NoBlock
  BY BlockFields DEF Kinds
<1>2. CASE NdisAllocateGenericObject(ok)
  <2>1. \A r : Like(r, Block("object")) /\ OfMalloc(r) => Given("NdisAllocateGenericObject", r)
    BY <1>1, Zenon DEF Like, Given
  <2> QED BY <1>1, <1>2, <2>1, NdisAllocateInv DEF NdisAllocateGenericObject
<1>3. CASE NdisAllocateNetBufferListPool(ok)
  <2>1. \A r : Like(r, Block("pool")) /\ OfMalloc(r) => Given("NdisAllocateNetBufferListPool", r)
    BY <1>1, Zenon DEF Like, Given
  <2> QED BY <1>1, <1>3, <2>1, NdisAllocateInv DEF NdisAllocateNetBufferListPool
<1>4. CASE NdisAllocateNetBufferList(ok)
  <2>1. \A r : Like(r, Block("nbl")) /\ OfMalloc(r) => Given("NdisAllocateNetBufferList", r)
    BY <1>1, Zenon DEF Like, Given
  <2> QED BY <1>1, <1>4, <2>1, NdisAllocateInv, Zenon DEF NdisAllocateNetBufferList
<1> QED BY <1>2, <1>3, <1>4

\* A net buffer over a descriptor of the driver's.
LEMMA NdisNetBufferInv ==
  ASSUME PacketInv, NEW m \in Mdls, NEW ok \in BOOLEAN, NdisAllocateNetBuffer(m, ok)
  PROVE  PacketInv'
<1>1. m \in Blocks /\ heap[m].kind = "mdl"
  BY Zenon DEF Mdls, OfKind
<1>2. Nb(m) \in BlockRecord /\ Nb(m).kind = "nb" /\ Nb(m).nb = NoBlock /\ Nb(m).mdl = m
  BY <1>1, NetBufferFields
<1>3. \A r : Like(r, Nb(m)) /\ OfMalloc(r) => Given("NdisAllocateNetBuffer", r)
  BY <1>2, Zenon DEF Like, Given
<1> QED BY <1>1, <1>2, <1>3, NdisAllocateInv, Zenon DEF NdisAllocateNetBuffer

\* The driver's own memory.
LEMMA ExAllocateInv ==
  ASSUME PacketInv, NEW type \in PoolTypes, NEW bytes, NEW tag, NEW ok,
         ExAllocatePool2CPP(type, bytes, tag, ok)
  PROVE  PacketInv'
<1>1. CASE tag = 0 \/ bytes = 0
  BY <1>1, BugCheckInv, Zenon DEF ExAllocatePool2CPP
<1>2. CASE ~(tag = 0 \/ bytes = 0) /\ ~ok
  BY <1>2, Untouched, Zenon DEF ExAllocatePool2CPP, Fails, packetVars
<1>3. CASE ~(tag = 0 \/ bytes = 0) /\ ok
  <2>1. Block("data") \in BlockRecord /\ Block("data").kind = "data" /\ Block("data").nb = NoBlock
    BY BlockFields DEF Kinds
  <2>2. /\ heap' = ExAllocatePoolUninitializedCPP(heap, type, Block("data"))
        /\ Got(NextBlock(heap, "data"), "ExAllocatePool2") /\ Unused(heap, "data") # {}
    BY <1>3, Zenon DEF ExAllocatePool2CPP, Room
  <2>3. PICK r : /\ ExAllocatePoolUninitializedCPP(heap, type, Block("data"))
                      = [heap EXCEPT ![NextBlock(heap, "data")] = r]
                 /\ Like(r, Block("data")) /\ OfPool(r)
    <3>1. PICK n : n = Block("data")
      OBVIOUS
    <3>2. n \in BlockRecord /\ n.kind = "data"
      BY <2>1, <3>1
    <3>3. \E r : /\ ExAllocatePoolUninitializedCPP(heap, type, n) = [heap EXCEPT ![NextBlock(heap, n.kind)] = r]
                /\ Like(r, n) /\ OfPool(r)
      BY <3>2, Allocation, Zenon
    <3>4. NextBlock(heap, n.kind) = NextBlock(heap, "data")
      BY <3>2
    <3> QED BY <3>1, <3>3, <3>4
  <2>4. Given("ExAllocatePool2", r)
    BY <2>1, <2>3, Zenon DEF Like, Given
  <2> QED BY <2>1, <2>2, <2>3, <2>4, AllocationInv, Zenon
<1> QED BY <1>1, <1>2, <1>3

\* What the driver has it got from one of the calls.
LEMMA HasGiven ==
  ASSUME PacketInv, NEW b \in Blocks, NEW fn, Has(b, fn), fn # "none"
  PROVE  mine[b] # "none" /\ Given(fn, heap[b]) /\ heap[b].kind # "nil"
<1>1. mine[b] = fn
  BY Zenon DEF Has
<1>2. Given(fn, heap[b])
  BY <1>1, Zenon DEF PacketInv, Sound, Owned
<1> QED BY <1>1, <1>2, GivenBy

\* A block the driver releases goes back to the allocator it is from.
LEMMA ReleaseInv ==
  ASSUME PacketInv, NEW b \in Blocks, mine[b] # "none", heap[b].nb = NoBlock,
         heap[b].kind # "mdl" \/ ~Referenced(b),
         heap' = [heap EXCEPT ![b] = Nil], Released(b), UNCHANGED astray
  PROVE  PacketInv'
<1>1. \A x \in Blocks : heap[x].kind = "nb" /\ x \notin astray => heap[x].mdl # b
  <2>1. CASE heap[b].kind # "mdl"
    BY <2>1, Zenon DEF PacketInv, Sound, Described
  <2>2. CASE ~Referenced(b)
    BY <2>2, Zenon DEF Referenced, Nbs, OfKind
  <2> QED BY <2>1, <2>2
<1>2. Sound([heap EXCEPT ![b] = Nil], [mine EXCEPT ![b] = "none"], astray)
  BY <1>1, SoundRelease, Zenon DEF PacketInv
<1> QED BY <1>2, Zenon DEF PacketInv, Released

\* The releases of a block that nothing is attached to.
LEMMA PlainReleaseInv ==
  ASSUME PacketInv, NEW b \in Blocks,
         \/ ExFreePoolWithTagCPP(b) \/ NdisFreeGenericObject(b) \/ NdisFreeNetBufferListPool(b)
         \/ NdisFreeNetBufferList(b) \/ NdisFreeNetBuffer(b)
         \/ IoFreeMdl(b) \/ FreePagesMdl(b)
  PROVE  PacketInv'
<1>0. heap \in [Blocks -> BlockRecord] /\ Fits(b, heap[b])
  BY Zenon DEF PacketInv, Sound
<1>1. CASE ExFreePoolWithTagCPP(b)
  <2>1. mine[b] # "none" /\ Given("ExAllocatePool2", heap[b]) /\ heap[b].kind # "nil"
    BY <1>1, HasGiven, Zenon DEF ExFreePoolWithTagCPP
  <2>2. heap[b].kind = "data" /\ OfPool(heap[b])
    BY <2>1, Zenon DEF Given
  <2>3. heap[b].nb = NoBlock
    BY <1>0, <2>2 DEF Fits
  <2>4. heap' = [heap EXCEPT ![b] = Nil]
    BY <1>0, <1>1, <2>1, <2>2, GoesBack DEF ExFreePoolWithTagCPP
  <2> QED BY <1>1, <2>1, <2>2, <2>3, <2>4, ReleaseInv, Zenon DEF ExFreePoolWithTagCPP
<1>2. ASSUME NEW fn, NdisFree(b, fn),
             fn \in {"NdisAllocateGenericObject", "NdisAllocateNetBufferListPool",
                     "NdisAllocateNetBufferList", "NdisAllocateNetBuffer"}
      PROVE  PacketInv'
  <2>1. mine[b] # "none" /\ Given(fn, heap[b]) /\ heap[b].kind # "nil"
    BY <1>2, HasGiven, Zenon DEF NdisFree
  <2>2. heap[b].kind \in {"object", "pool", "nbl", "nb"} /\ OfMalloc(heap[b])
        /\ (heap[b].kind = "nbl" => heap[b].nb = NoBlock)
    BY <1>2, <2>1, Zenon DEF Given
  <2>3. heap[b].nb = NoBlock
    BY <1>0, <2>2 DEF Fits
  <2>4. heap' = [heap EXCEPT ![b] = Nil]
    BY <1>0, <1>2, <2>1, <2>2, GoesBack DEF NdisFree
  <2> QED BY <1>2, <2>1, <2>2, <2>3, <2>4, ReleaseInv, Zenon DEF NdisFree
<1>3. CASE \/ NdisFreeGenericObject(b) \/ NdisFreeNetBufferListPool(b)
           \/ NdisFreeNetBufferList(b) \/ NdisFreeNetBuffer(b)
  BY <1>2, <1>3 DEF NdisFreeGenericObject, NdisFreeNetBufferListPool, NdisFreeNetBufferList,
                    NdisFreeNetBuffer
<1>4. CASE IoFreeMdl(b)
  <2>1. mine[b] # "none" /\ Given("IoAllocateMdl", heap[b]) /\ heap[b].kind # "nil"
    BY <1>4, HasGiven, Zenon DEF IoFreeMdl
  <2>2. heap[b].kind = "mdl" /\ OfLibrary(heap[b])
    BY <2>1, Zenon DEF Given
  <2>3. heap[b].nb = NoBlock
    BY <1>0, <2>2 DEF Fits
  <2>4. heap' = [heap EXCEPT ![b] = Nil]
    BY <1>0, <1>4, <2>1, <2>2, GoesBack DEF IoFreeMdl
  <2> QED BY <1>4, <2>1, <2>2, <2>3, <2>4, ReleaseInv, Zenon DEF IoFreeMdl
<1>5. CASE FreePagesMdl(b)
  <2>1. mine[b] # "none" /\ Given("MmFreePagesFromMdl", heap[b]) /\ heap[b].kind # "nil"
    BY <1>5, HasGiven, Zenon DEF FreePagesMdl
  <2>2. heap[b].kind = "mdl" /\ OfPool(heap[b])
    BY <2>1, Zenon DEF Given
  <2>3. heap[b].nb = NoBlock
    BY <1>0, <2>2 DEF Fits
  <2>4. heap' = [heap EXCEPT ![b] = Nil]
    BY <1>0, <1>5, <2>1, <2>2, GoesBack DEF FreePagesMdl
  <2> QED BY <1>5, <2>1, <2>2, <2>3, <2>4, ReleaseInv, Zenon DEF FreePagesMdl
<1> QED BY <1>1, <1>3, <1>4, <1>5

\* A descriptor for a buffer of the driver's.
LEMMA IoAllocateMdlInv ==
  ASSUME PacketInv, NEW w \in Windows, NEW ok, IoAllocateMdl(w, ok)
  PROVE  PacketInv'
<1>1. CASE ~ok
  BY <1>1, Untouched, Zenon DEF IoAllocateMdl, Fails, packetVars
<1>2. CASE ok
  <2> DEFINE va == w[1]
             count == w[2]
             d == MmInitializeMdl(va, count, 0)
             b == NextBlock(heap, "mdl")
  <2>1. va \in Int /\ count \in Int
        /\ (count > 0 => 1 <= va /\ va + count <= BufferLen + 1)
    BY PacketsAssumption
  <2>2. /\ heap' = cxplat_allocate(heap, d) /\ Got(b, "IoAllocateMdl")
        /\ Unused(heap, "mdl") # {}
    BY <1>2, Zenon DEF IoAllocateMdl, Room
  <2> HIDE DEF va, count
  <2>3. /\ d \in BlockRecord /\ d.kind = "mdl" /\ d.nb = NoBlock
        /\ d.start_va = PageAlign(va) /\ d.byte_offset = ByteOffset(va)
        /\ d.byte_count = count /\ d.pages = 0 /\ d.moved = 0
    BY <2>1, DescriptorFields
  <2> HIDE DEF d
  <2>4. PICK r : /\ cxplat_allocate(heap, d) = [heap EXCEPT ![b] = r]
                 /\ Like(r, d) /\ OfLibrary(r)
    BY <2>3, Allocation, Zenon
  <2>5. b \in Blocks /\ b \in MdlBlocks /\ heap[b] = Nil
    BY <2>2, NextUnused
  <2> HIDE DEF b
  <2>6. Window(r)
    <3>1. r.start_va + r.byte_offset = va
      BY <2>1, <2>3, <2>4, Aligned DEF Like
    <3>2. r.byte_count = count /\ r.pages = 0 /\ r.moved = 0
      BY <2>3, <2>4 DEF Like
    <3> QED BY <2>1, <3>1, <3>2 DEF Window
  <2>7. Fits(b, r) /\ Given("IoAllocateMdl", r) /\ r.nb = NoBlock /\ r.kind = "mdl"
    BY <2>3, <2>4, <2>5, <2>6, Zenon DEF Like, Fits, Given
  <2>8. Sound([heap EXCEPT ![b] = r], [mine EXCEPT ![b] = "IoAllocateMdl"], astray)
    BY <2>5, <2>7, SoundAllocation DEF PacketInv
  <2> QED BY <2>2, <2>4, <2>8, Zenon DEF PacketInv, Got
<1> QED BY <1>1, <1>2

\* A descriptor with pages of its own; without the pages it goes back.
LEMMA AllocatePagesInv ==
  ASSUME PacketInv, NEW mdl_ok, NEW pages_ok, MmAllocatePagesForMdlEx(PageSize, mdl_ok, pages_ok)
  PROVE  PacketInv'
<1> DEFINE d == MmInitializeMdl(PagesAt, PageSize, PageSize)
           b == NextBlock(heap, "mdl")
           h == ExAllocatePoolUninitializedCPP(heap, "NonPagedPoolNx", d)
<1>1. PagesAt \in Int /\ PageSize \in Int /\ PageSize > 0
  BY PacketsAssumption DEF PagesAt
<1>2. /\ d \in BlockRecord /\ d.kind = "mdl" /\ d.nb = NoBlock
      /\ d.start_va = PageAlign(PagesAt) /\ d.byte_offset = ByteOffset(PagesAt)
      /\ d.byte_count = PageSize /\ d.pages = PageSize /\ d.moved = 0
  BY <1>1, DescriptorFields
<1>3. Unused(heap, "mdl") # {}
  BY Zenon DEF MmAllocatePagesForMdlEx, Room
<1>4. \/ UNCHANGED <<heap, mine, astray>>
      \/ heap' = h /\ Got(b, "MmAllocatePagesForMdlEx")
      \/ heap' = ExFreePoolCPP(h, b) /\ UNCHANGED <<mine, astray>>
  BY Zenon DEF MmAllocatePagesForMdlEx, Fails, packetVars
<1> HIDE DEF d
<1>5. PICK r : h = [heap EXCEPT ![b] = r] /\ Like(r, d) /\ OfPool(r)
  <2>1. "NonPagedPoolNx" \in PoolTypes
    BY DEF PoolTypes
  <2>2. d \in BlockRecord /\ d.kind = "mdl"
    BY <1>2
  <2>3. \E r : /\ ExAllocatePoolUninitializedCPP(heap, "NonPagedPoolNx", d) = [heap EXCEPT ![NextBlock(heap, d.kind)] = r]
              /\ Like(r, d) /\ OfPool(r)
    BY <2>1, <2>2, Allocation, Zenon
  <2>4. NextBlock(heap, d.kind) = NextBlock(heap, "mdl")
    BY <2>2
  <2> QED BY <2>3, <2>4
<1>6. b \in Blocks /\ b \in MdlBlocks /\ heap[b] = Nil
  BY <1>3, NextUnused
<1> HIDE DEF b, h
<1>7. Window(r)
  <2>1. r.start_va + r.byte_offset = PagesAt
    BY <1>1, <1>2, <1>5, Aligned DEF Like
  <2>2. r.byte_count = PageSize /\ r.pages = PageSize /\ r.moved = 0
    BY <1>2, <1>5, Zenon DEF Like
  <2> QED BY <1>1, <2>1, <2>2 DEF Window
<1>8. /\ Fits(b, r) /\ Given("MmAllocatePagesForMdlEx", r)
      /\ r.nb = NoBlock /\ r.kind = "mdl" /\ r \in BlockRecord
  BY <1>2, <1>5, <1>6, <1>7, Zenon DEF Like, Fits, Given, OfPool
<1>9. CASE UNCHANGED <<heap, mine, astray>>
  BY <1>9, Untouched
<1>10. CASE heap' = h /\ Got(b, "MmAllocatePagesForMdlEx")
  <2>1. Sound([heap EXCEPT ![b] = r], [mine EXCEPT ![b] = "MmAllocatePagesForMdlEx"], astray)
    BY <1>6, <1>8, SoundAllocation DEF PacketInv
  <2> QED BY <1>5, <1>10, <2>1, Zenon DEF PacketInv, Got
<1>11. CASE heap' = ExFreePoolCPP(h, b) /\ UNCHANGED <<mine, astray>>
  <2>1. heap \in [Blocks -> BlockRecord]
    BY Zenon DEF PacketInv, Sound
  <2>2. h \in [Blocks -> BlockRecord] /\ h[b] = r
    BY <1>5, <1>6, <1>8, <2>1
  <2>3. ExFreePoolCPP(h, b) = [h EXCEPT ![b] = Nil]
    BY <1>5, <1>6, <1>8, <2>2, GoesBack, Zenon
  <2>4. heap' = heap
    BY <1>5, <1>6, <1>11, <2>1, <2>3, Undone
  <2> QED BY <1>11, <2>4, Untouched
<1> QED BY <1>4, <1>9, <1>10, <1>11

\* Every descriptor is the driver's.
LEMMA DescriptorOwned ==
  ASSUME PacketInv, NEW m \in Blocks, heap[m].kind = "mdl"
  PROVE  /\ Fits(m, heap[m]) /\ heap[m] \in BlockRecord /\ Window(heap[m])
         /\ heap[m].nb = NoBlock
         /\ mine[m] # "none" /\ Given(mine[m], heap[m])
         /\ mine[m] \in {"IoAllocateMdl", "MmAllocatePagesForMdlEx", "MmFreePagesFromMdl"}
<1>1. Fits(m, heap[m])
  BY Zenon DEF PacketInv, Sound
<1>2. heap[m] \in BlockRecord /\ Window(heap[m]) /\ heap[m].nb = NoBlock
  BY <1>1 DEF Fits
<1>3. mine[m] # "none"
  <2>1. m \notin astray
    BY DEF PacketInv, Sound, Owned
  <2>2. \A l \in Blocks : ~Holds(heap, mine, l, m)
    BY DEF PacketInv, Sound, Owned
  <2> QED BY <2>1, <2>2 DEF PacketInv, Sound, Owned
<1>4. Given(mine[m], heap[m])
  BY <1>3, Zenon DEF PacketInv, Sound, Owned
<1>5. mine[m] \in {"IoAllocateMdl", "MmAllocatePagesForMdlEx", "MmFreePagesFromMdl"}
  BY <1>4, Zenon DEF Given
<1> QED BY <1>1, <1>2, <1>3, <1>4, <1>5, Zenon

\* A descriptor describes other bytes of its buffer.
LEMMA ChangeInv ==
  ASSUME PacketInv, NEW m \in Blocks, heap[m].kind = "mdl",
         NEW r \in BlockRecord, r.kind = "mdl", r.nb = NoBlock,
         r.by = heap[m].by, r.flags = heap[m].flags, r.pool_flags = heap[m].pool_flags,
         Window(r), r.pages = heap[m].pages,
         heap' = [heap EXCEPT ![m] = r], UNCHANGED <<mine, astray>>
  PROVE  PacketInv'
<1>1. /\ Fits(m, heap[m]) /\ mine[m] # "none" /\ Given(mine[m], heap[m])
      /\ mine[m] \in {"IoAllocateMdl", "MmAllocatePagesForMdlEx", "MmFreePagesFromMdl"}
  BY DescriptorOwned, Zenon
<1>2. Fits(m, r)
  BY <1>1, Zenon DEF Fits
<1>3. Given(mine[m], r)
  BY <1>1, Zenon DEF Given, OfPool, OfLibrary
<1>4. mine \in [Blocks -> Givers]
  BY Zenon DEF PacketInv, Sound
<1>5. Sound([heap EXCEPT ![m] = r], mine, astray)
  BY <1>2, <1>3, <1>4, SoundChange, Zenon DEF PacketInv
<1> QED BY <1>5, Zenon DEF PacketInv

\* A descriptor is mapped or unmapped.
LEMMA MappedInv ==
  ASSUME PacketInv, NEW m \in Blocks, heap[m].kind = "mdl", NEW ok \in BOOLEAN,
         heap' = [heap EXCEPT ![m].mapped = ok], UNCHANGED <<mine, astray>>
  PROVE  PacketInv'
<1> DEFINE r == [heap[m] EXCEPT !.mapped = ok]
<1>1. heap[m] \in BlockRecord /\ Window(heap[m]) /\ heap[m].nb = NoBlock
  BY DescriptorOwned
<1>2. /\ r \in BlockRecord /\ r.kind = "mdl" /\ r.nb = NoBlock
      /\ r.by = heap[m].by /\ r.flags = heap[m].flags /\ r.pool_flags = heap[m].pool_flags
      /\ r.start_va = heap[m].start_va /\ r.byte_offset = heap[m].byte_offset
      /\ r.byte_count = heap[m].byte_count /\ r.pages = heap[m].pages /\ r.moved = heap[m].moved
  BY <1>1 DEF BlockRecord
<1>3. heap' = [heap EXCEPT ![m] = r]
  OBVIOUS
<1> HIDE DEF r
<1>4. Window(r)
  BY <1>1, <1>2 DEF Window
<1> QED BY <1>2, <1>3, <1>4, ChangeInv, Zenon

\* The calls that map and unmap.
LEMMA MapInv ==
  ASSUME PacketInv, NEW m \in Mdls, NEW fatal \in BOOLEAN, NEW ok \in BOOLEAN,
         \/ MmMapLockedPagesSpecifyCache(m, fatal, ok)
         \/ MmUnmapLockedPagesCPP(m)
         \/ MmGetSystemAddressForMdlSafe(m, ok)
  PROVE  PacketInv'
<1>1. m \in Blocks /\ heap[m].kind = "mdl"
  BY Zenon DEF Mdls, OfKind
<1>2. \/ BugCheck
      \/ UNCHANGED <<heap, mine, astray>>
      \/ \E v \in BOOLEAN : heap' = [heap EXCEPT ![m].mapped = v] /\ UNCHANGED <<mine, astray>>
  <2>1. CASE MmMapLockedPagesSpecifyCache(m, fatal, ok)
    BY <2>1, Zenon DEF MmMapLockedPagesSpecifyCache
  <2>2. CASE MmUnmapLockedPagesCPP(m)
    BY <2>2, Zenon DEF MmUnmapLockedPagesCPP
  <2>3. CASE MmGetSystemAddressForMdlSafe(m, ok)
    BY <2>3, Zenon DEF MmGetSystemAddressForMdlSafe, MmMapLockedPagesSpecifyCache, Fails, packetVars
  <2> QED BY <2>1, <2>2, <2>3
<1> QED BY <1>1, <1>2, BugCheckInv, Untouched, MappedInv

\* The pages go back; the descriptor describes nothing.
LEMMA FreePagesInv ==
  ASSUME PacketInv, NEW m \in Blocks, MmFreePagesFromMdl(m)
  PROVE  PacketInv'
<1> DEFINE x == heap[m]
           r == [x EXCEPT !.start_va = 0, !.byte_count = 0, !.pages = 0]
           m2 == [mine EXCEPT ![m] = "MmFreePagesFromMdl"]
<1>1. Given("MmAllocatePagesForMdlEx", heap[m])
  BY HasGiven DEF MmFreePagesFromMdl
<1>2. heap[m].kind = "mdl" /\ OfPool(heap[m])
  BY <1>1, Zenon DEF Given
<1>3. heap[m] \in BlockRecord /\ Fits(m, heap[m]) /\ heap[m].nb = NoBlock
  BY <1>2, DescriptorOwned, Zenon
<1>5. heap' = [heap EXCEPT ![m] = r] /\ mine' = m2 /\ astray' = astray
  BY Zenon DEF MmFreePagesFromMdl
<1>6. m2 \in [Blocks -> Givers] /\ m2[m] = "MmFreePagesFromMdl"
      /\ \A b \in Blocks : b # m => m2[b] = mine[b]
  BY DEF PacketInv, Sound, Givers
<1>0. x = heap[m]
  OBVIOUS
<1> HIDE DEF x, m2
<1>4. /\ r \in BlockRecord /\ r.kind = x.kind /\ r.nb = x.nb
      /\ r.by = x.by /\ r.flags = x.flags /\ r.pool_flags = x.pool_flags
      /\ r.byte_count = 0 /\ r.pages = 0 /\ r.moved \in Nat
  <2>1. x \in BlockRecord
    BY <1>0, <1>3
  <2>2. r \in BlockRecord
    <3> DEFINE x1 == [x EXCEPT !.start_va = 0]
               x2 == [x1 EXCEPT !.byte_count = 0]
    <3>1. x1 \in BlockRecord
      BY <2>1 DEF BlockRecord
    <3> HIDE DEF x1
    <3>2. x2 \in BlockRecord
      BY <3>1 DEF BlockRecord
    <3> HIDE DEF x2
    <3>3. [x2 EXCEPT !.pages = 0] \in BlockRecord
      BY <3>2 DEF BlockRecord
    <3> QED BY <3>3 DEF x1, x2
  <2>3. /\ r.kind = x.kind /\ r.nb = x.nb
        /\ r.by = x.by /\ r.flags = x.flags /\ r.pool_flags = x.pool_flags
        /\ r.byte_count = 0 /\ r.pages = 0
    BY <2>1 DEF BlockRecord
  <2>4. r.moved \in Nat
    BY <2>2, Zenon DEF BlockRecord
  <2> QED BY <2>2, <2>3, <2>4
<1> HIDE DEF r
<1>7. Window(r)
  BY <1>4 DEF Window
<1>8. Fits(m, r)
  BY <1>0, <1>3, <1>2, <1>4, <1>7, Zenon DEF Fits
<1>9. Given(m2[m], r) /\ r.kind = "mdl"
  BY <1>0, <1>2, <1>4, <1>6, Zenon DEF Given, OfPool
<1>10. Sound([heap EXCEPT ![m] = r], m2, astray)
  BY <1>2, <1>4, <1>6, <1>8, <1>9, SoundChange, Zenon DEF PacketInv
<1> QED BY <1>5, <1>10, Zenon DEF PacketInv

\* A part of a part of the driver's buffer is a part of it.
LEMMA BuildPartialInv ==
  ASSUME PacketInv, NEW source \in Mdls, NEW target \in Mdls, BuildPartial(source, target)
  PROVE  PacketInv'
<1>1. /\ source \in Blocks /\ heap[source].kind = "mdl"
      /\ target \in Blocks /\ heap[target].kind = "mdl"
  BY Zenon DEF Mdls, OfKind
<1>2. PICK n \in 0..(heap[source].byte_count - heap[source].moved - 1), length \in {0, 1} :
        heap' = [heap EXCEPT ![target] =
                   IoBuildPartialMdl(heap[source], heap[target], FirstByte(source) + n, length)]
  BY Zenon DEF BuildPartial
<1> DEFINE s == heap[source]
           t == heap[target]
           va == FirstByte(source) + n
           r == IoBuildPartialMdl(s, t, va, length)
<1>3. s.pages = 0 /\ t.by = "cxplat" /\ UNCHANGED <<mine, astray>>
  BY Zenon DEF BuildPartial
<1>4. /\ s \in BlockRecord /\ Window(s)
      /\ t \in BlockRecord /\ Fits(target, t) /\ t.nb = NoBlock
  BY <1>1, DescriptorOwned, Zenon
<1>5. t.pages = 0
  BY <1>1, <1>3, <1>4, Zenon DEF Fits
<1>6. va = s.start_va + s.byte_offset + n
  BY Zenon DEF FirstByte
<1>7. heap' = [heap EXCEPT ![target] = r]
  BY <1>2
<1>8. heap[target].kind = "mdl" /\ t = heap[target]
  BY <1>1, Zenon
<1> HIDE DEF va, s, t
<1>9. /\ s.start_va \in Int /\ s.byte_offset \in Int /\ s.byte_count \in Int /\ s.moved \in Nat
      /\ s.mapped \in BOOLEAN
  BY <1>4, Zenon DEF BlockRecord
<1>10. n \in Int /\ 0 <= n /\ n < s.byte_count - s.moved
  BY <1>9 DEF s
<1>0. PICK sv \in Int, so \in Int, sc \in Int, sm \in Nat :
        s.start_va = sv /\ s.byte_offset = so /\ s.byte_count = sc /\ s.moved = sm
  BY <1>9, Zenon
<1>11. /\ va \in Int
       /\ PageAlign(va) \in Int
       /\ ByteOffset(va) \in Int
       /\ PageAlign(va) + ByteOffset(va) = va
  <2>1. sv + so + n \in Int
    BY <1>10
  <2>2. va \in Int
    BY <1>0, <1>6, <2>1, Zenon
  <2> QED BY <2>2, Aligned, Zenon
<1>12. va - s.start_va - s.byte_offset = n
  <2>1. (sv + so + n) - sv - so = n
    BY <1>10
  <2> QED BY <1>0, <1>6, <2>1, Zenon
<1> DEFINE bc == IF length = 0 THEN s.byte_count - n ELSE length
           mv == IF length = 0 THEN s.moved ELSE 0
<1>13. r = [t EXCEPT !.start_va = PageAlign(va), !.byte_offset = ByteOffset(va),
                     !.byte_count = bc, !.mapped = s.mapped, !.moved = mv]
  BY <1>12, Zenon DEF IoBuildPartialMdl
<1>14. bc \in Int /\ mv \in Nat
  BY <1>9, <1>10
<1> HIDE DEF r
<1>15. bc - mv > 0 => bc - mv <= s.byte_count - s.moved - n
  BY <1>9, <1>10
<1> HIDE DEF bc, mv
<1>16. /\ r \in BlockRecord /\ r.kind = t.kind /\ r.nb = NoBlock
       /\ r.by = t.by /\ r.flags = t.flags /\ r.pool_flags = t.pool_flags
       /\ r.start_va = PageAlign(va) /\ r.byte_offset = ByteOffset(va)
       /\ r.byte_count = bc /\ r.pages = 0 /\ r.moved = mv
  BY <1>4, <1>5, <1>9, <1>11, <1>13, <1>14, Zenon DEF BlockRecord
<1>17. 1 <= s.start_va + s.byte_offset
       /\ s.start_va + s.byte_offset + (s.byte_count - s.moved) <= BufferLen + 1
  <2>1. s.byte_count - s.moved > 0
    <3>1. sc - sm > 0
      BY <1>0, <1>10
    <3> QED BY <1>0, <3>1, Zenon
  <2> QED BY <1>3, <1>4, <2>1, Zenon DEF Window
<1>18. Window(r)
  <2>1. r.start_va + r.byte_offset = va
    BY <1>11, <1>16
  <2>2. ASSUME bc - mv > 0
        PROVE  1 <= va /\ va + (bc - mv) <= BufferLen + 1
    <3>1. /\ bc - mv <= sc - sm - n
          /\ 1 <= sv + so /\ sv + so + (sc - sm) <= BufferLen + 1
      BY <1>0, <1>15, <1>17, <2>2, Zenon
    <3>2. 1 <= sv + so + n /\ sv + so + n + (bc - mv) <= BufferLen + 1
      BY <1>10, <1>14, <3>1, PacketsAssumption
    <3> QED BY <1>0, <1>6, <3>2, Zenon
  <2> QED BY <1>16, <2>1, <2>2, Zenon DEF Window
<1> QED
  BY <1>1, <1>3, <1>5, <1>7, <1>8, <1>16, <1>18, ChangeInv, Zenon

\* The data start moves towards the end of the buffer.
LEMMA AdvanceInv ==
  ASSUME PacketInv, NEW nb \in Nbs, NdisAdvanceNetBufferDataStart(nb, 1)
  PROVE  PacketInv'
<1> DEFINE m == heap[nb].mdl
           x == heap[m]
           r == [x EXCEPT !.byte_offset = @ + 1, !.moved = @ + 1]
<1>1. nb \in Blocks /\ heap[nb].kind = "nb" /\ nb \notin astray
  BY Zenon DEF Nbs, OfKind
<1>2. m \in Blocks /\ heap[m].kind = "mdl"
  BY <1>1, Zenon DEF PacketInv, Sound, Described
<1>3. heap' = [heap EXCEPT ![m] = r] /\ UNCHANGED <<mine, astray>>
  BY Zenon DEF NdisAdvanceNetBufferDataStart
<1> HIDE DEF m
<1>4. heap[m] \in BlockRecord /\ Window(heap[m]) /\ heap[m].nb = NoBlock
  BY <1>2, DescriptorOwned, Zenon
<1>5. /\ heap[m].start_va \in Int /\ heap[m].byte_offset \in Int /\ heap[m].byte_count \in Int
      /\ heap[m].moved \in Nat /\ heap[m].pages \in Int
  BY <1>4, Zenon DEF BlockRecord
<1>0. x = heap[m]
  OBVIOUS
<1> HIDE DEF x
<1>6. /\ r \in BlockRecord /\ r.kind = x.kind /\ r.nb = x.nb
      /\ r.by = x.by /\ r.flags = x.flags /\ r.pool_flags = x.pool_flags
      /\ r.start_va = x.start_va /\ r.byte_offset = x.byte_offset + 1
      /\ r.byte_count = x.byte_count /\ r.pages = x.pages /\ r.moved = x.moved + 1
  <2>1. x \in BlockRecord
    BY <1>0, <1>4
  <2>2. x.byte_offset + 1 \in Int /\ x.moved + 1 \in Nat
    BY <1>0, <1>5
  <2> QED BY <2>1, <2>2, Zenon DEF BlockRecord
<1> HIDE DEF r
<1>7. Window(r)
  <2>1. PICK sv \in Int, so \in Int, sc \in Int, sp \in Int, sm \in Nat :
          x.start_va = sv /\ x.byte_offset = so /\ x.byte_count = sc /\ x.pages = sp /\ x.moved = sm
    BY <1>0, <1>5, Zenon
  <2>2. sc - sm > 0 => IF sp = 0
                       THEN 1 <= sv + so /\ sv + so + (sc - sm) <= BufferLen + 1
                       ELSE PagesAt <= sv + so /\ sv + so + (sc - sm) <= PagesAt + sp
    BY <1>0, <1>4, <2>1, Zenon DEF Window
  <2>3. sc - (sm + 1) > 0 => IF sp = 0
                             THEN 1 <= sv + (so + 1) /\ sv + (so + 1) + (sc - (sm + 1)) <= BufferLen + 1
                             ELSE PagesAt <= sv + (so + 1) /\ sv + (so + 1) + (sc - (sm + 1)) <= PagesAt + sp
    BY <2>2, PacketsAssumption DEF PagesAt
  <2> QED BY <1>6, <2>1, <2>3, Zenon DEF Window
<1>8. r.kind = "mdl" /\ r.nb = NoBlock
  BY <1>0, <1>2, <1>4, <1>6, Zenon
<1> QED BY <1>0, <1>2, <1>3, <1>6, <1>7, <1>8, ChangeInv, Zenon

\* What is read may be mapped for it.
LEMMA GetDataBufferInv ==
  ASSUME PacketInv, NEW nb \in Nbs, NEW needed, NEW ok \in BOOLEAN, NEW map_ok \in BOOLEAN,
         NdisGetDataBuffer(nb, needed, ok, map_ok)
  PROVE  PacketInv'
<1>1. nb \in Blocks /\ heap[nb].kind = "nb" /\ nb \notin astray
  BY Zenon DEF Nbs, OfKind
<1>2. heap[nb].mdl \in Mdls
  BY <1>1, Zenon DEF PacketInv, Sound, Described, Mdls, OfKind
<1>3. MmGetSystemAddressForMdlSafe(heap[nb].mdl, map_ok) \/ UNCHANGED <<heap, mine, astray>>
  BY Zenon DEF NdisGetDataBuffer, Fails, packetVars
<1> QED BY <1>2, <1>3, MapInv, Untouched

\* The heap after a list and a net buffer were allocated and put together.
Attached(lr, br) ==
  LET l == NextBlock(heap, "nbl")
      h == [heap EXCEPT ![l] = lr]
      b == NextBlock(h, "nb")
  IN  [[h EXCEPT ![b] = br] EXCEPT ![l].nb = b]

\* A list and its net buffer, one after the other.
LEMMA PairInv ==
  ASSUME PacketInv, Unused(heap, "nbl") # {}, Unused(heap, "nb") # {},
         NEW m \in Blocks, heap[m].kind = "mdl",
         NEW lr, Like(lr, Block("nbl")), NEW br, Like(br, Nb(m)),
         NEW fn,
         \/ fn = "NdisAllocateCloneNetBufferList" /\ OfMalloc(lr)
         \/ fn = "FwpsAllocateNetBufferAndNetBufferList0" /\ OfPool(lr) /\ OfPool(br),
         heap' = Attached(lr, br), Got(NextBlock(heap, "nbl"), fn)
  PROVE  PacketInv'
<1> DEFINE l == NextBlock(heap, "nbl")
           h == [heap EXCEPT ![l] = lr]
           b == NextBlock(h, "nb")
<1>0. heap' = [[h EXCEPT ![b] = br] EXCEPT ![l].nb = b] /\ Got(l, fn)
  BY Zenon DEF Attached
<1>1. l \in Blocks /\ l \in NblBlocks /\ heap[l] = Nil
  BY NextUnused, Zenon
<1>2. heap \in [Blocks -> BlockRecord]
  BY Zenon DEF PacketInv, Sound
<1>3. lr \in BlockRecord /\ lr.kind = "nbl" /\ lr.nb = NoBlock
  BY BlockFields, Zenon DEF Like, Kinds
<1>4. br \in BlockRecord /\ br.kind = "nb" /\ br.nb = NoBlock /\ br.mdl = m
  BY NetBufferFields, Zenon DEF Like
<1>5. NblBlocks \cap NbBlocks = {} /\ NoBlock \notin Blocks /\ NbBlocks \subseteq Blocks
  BY PacketsAssumption, Zenon DEF Blocks
<1>6. h \in [Blocks -> BlockRecord] /\ h[l] = lr /\ \A x \in Blocks : x # l => h[x] = heap[x]
  BY <1>1, <1>2, <1>3
<1>7. b \in Blocks /\ b \in NbBlocks /\ b # l /\ heap[b] = Nil
  <2>1. PICK x : x \in Unused(heap, "nb")
    BY Zenon
  <2>2. x \in NbBlocks /\ heap[x] = Nil
    BY <2>1 DEF Unused
  <2>3. x \in Unused(h, "nb")
    BY <1>1, <1>5, <1>6, <2>2 DEF Unused
  <2>4. b \in Blocks /\ b \in NbBlocks /\ h[b] = Nil
    BY <2>3, NextUnused, Zenon
  <2> HIDE DEF l, h, b
  <2> QED BY <1>1, <1>5, <1>6, <2>4, Zenon
<1> HIDE DEF l, h, b
<1> DEFINE r == [lr EXCEPT !.nb = b]
<1>8. /\ r \in BlockRecord /\ r.kind = "nbl" /\ r.nb = b
      /\ r.by = lr.by /\ r.flags = lr.flags /\ r.pool_flags = lr.pool_flags
  BY <1>3, <1>7 DEF BlockRecord
<1>9. heap' = [heap EXCEPT ![l] = r, ![b] = br]
  <2>1. [h EXCEPT ![b] = br][l] = lr
    BY <1>1, <1>6, <1>7, Zenon
  <2>2. heap' = [[h EXCEPT ![b] = br] EXCEPT ![l] = r]
    BY <1>0, <2>1, Zenon
  <2> HIDE DEF r
  <2> QED BY <1>1, <1>2, <1>7, <2>2, Zenon DEF h
<1> HIDE DEF r
<1>10. Fits(l, r) /\ Fits(b, br)
  BY <1>1, <1>4, <1>7, <1>8, Zenon DEF Fits
<1>11. Given(fn, r)
  BY <1>5, <1>7, <1>8, Zenon DEF Given, OfPool, OfMalloc
<1>12. fn = "FwpsAllocateNetBufferAndNetBufferList0" => OfPool(br)
  BY Zenon
<1>13. Sound([heap EXCEPT ![l] = r, ![b] = br], [mine EXCEPT ![l] = fn], astray)
  BY <1>1, <1>4, <1>7, <1>8, <1>10, <1>11, <1>12, SoundPair, Zenon DEF PacketInv
<1> QED BY <1>0, <1>9, <1>13, Zenon DEF PacketInv, Got

\* A list and a net buffer from the pool; a list without the net buffer goes
\* back.
LEMMA FwpsAllocateInv ==
  ASSUME PacketInv, NEW m \in Mdls, NEW nbl_ok, NEW nb_ok,
         FwpsAllocateNetBufferAndNetBufferList0(m, nbl_ok, nb_ok)
  PROVE  PacketInv'
<1> DEFINE l == NextBlock(heap, "nbl")
           h == ExAllocatePoolUninitializedCPP(heap, "NonPagedPoolNx", Block("nbl"))
           b == NextBlock(h, "nb")
<1>1. m \in Blocks /\ heap[m].kind = "mdl"
  BY Zenon DEF Mdls, OfKind
<1>2. Unused(heap, "nbl") # {} /\ Unused(heap, "nb") # {}
  BY Zenon DEF FwpsAllocateNetBufferAndNetBufferList0, Room
<1>3. \/ UNCHANGED <<heap, mine, astray>>
      \/ /\ heap' = [ExAllocatePoolUninitializedCPP(h, "NonPagedPoolNx", Nb(m)) EXCEPT ![l].nb = b]
         /\ Got(l, "FwpsAllocateNetBufferAndNetBufferList0")
      \/ heap' = FwpsFreeNetBufferList0(h, l) /\ UNCHANGED <<mine, astray>>
  BY Zenon DEF FwpsAllocateNetBufferAndNetBufferList0, Fails, packetVars
<1>4. "NonPagedPoolNx" \in PoolTypes
  BY DEF PoolTypes
<1>5. Block("nbl") \in BlockRecord /\ Block("nbl").kind = "nbl" /\ Block("nbl").nb = NoBlock
  BY BlockFields DEF Kinds
<1>6. Nb(m) \in BlockRecord /\ Nb(m).kind = "nb"
  BY <1>1, NetBufferFields
<1>7. PICK lr : h = [heap EXCEPT ![l] = lr] /\ Like(lr, Block("nbl")) /\ OfPool(lr)
  <2>1. \E lr : /\ ExAllocatePoolUninitializedCPP(heap, "NonPagedPoolNx", Block("nbl"))
                    = [heap EXCEPT ![NextBlock(heap, "nbl")] = lr]
               /\ Like(lr, Block("nbl")) /\ OfPool(lr)
    <3>1. PICK n : n = Block("nbl")
      OBVIOUS
    <3>2. n \in BlockRecord /\ n.kind = "nbl"
      BY <1>5, <3>1
    <3>3. \E lr : /\ ExAllocatePoolUninitializedCPP(heap, "NonPagedPoolNx", n) = [heap EXCEPT ![NextBlock(heap, n.kind)] = lr]
                 /\ Like(lr, n) /\ OfPool(lr)
      BY <1>4, <3>2, Allocation, Zenon
    <3>4. NextBlock(heap, n.kind) = NextBlock(heap, "nbl")
      BY <3>2
    <3> QED BY <3>1, <3>3, <3>4
  <2> QED BY <2>1, Zenon
<1> HIDE DEF h
<1>8. PICK br : /\ ExAllocatePoolUninitializedCPP(h, "NonPagedPoolNx", Nb(m)) = [h EXCEPT ![b] = br]
                /\ Like(br, Nb(m)) /\ OfPool(br)
  <2>1. PICK n : n = Nb(m)
    OBVIOUS
  <2>2. n \in BlockRecord /\ n.kind = "nb"
    BY <1>6, <2>1
  <2>3. \E br : /\ ExAllocatePoolUninitializedCPP(h, "NonPagedPoolNx", n) = [h EXCEPT ![NextBlock(h, n.kind)] = br]
               /\ Like(br, n) /\ OfPool(br)
    BY <1>4, <2>2, Allocation, Zenon
  <2>4. NextBlock(h, n.kind) = NextBlock(h, "nb")
    BY <2>2
  <2> QED BY <2>1, <2>3, <2>4
<1>9. CASE UNCHANGED <<heap, mine, astray>>
  BY <1>9, Untouched
<1>10. CASE /\ heap' = [ExAllocatePoolUninitializedCPP(h, "NonPagedPoolNx", Nb(m)) EXCEPT ![l].nb = b]
            /\ Got(l, "FwpsAllocateNetBufferAndNetBufferList0")
  <2>1. heap' = Attached(lr, br)
    BY <1>7, <1>8, <1>10, Zenon DEF Attached
  <2>2. /\ Like(lr, Block("nbl")) /\ Like(br, Nb(m)) /\ OfPool(lr) /\ OfPool(br)
        /\ Got(NextBlock(heap, "nbl"), "FwpsAllocateNetBufferAndNetBufferList0")
    BY <1>7, <1>8, <1>10, Zenon
  <2> QED BY <1>1, <1>2, <2>1, <2>2, PairInv, Zenon
<1>11. CASE heap' = FwpsFreeNetBufferList0(h, l) /\ UNCHANGED <<mine, astray>>
  <2>1. heap \in [Blocks -> BlockRecord] /\ l \in Blocks /\ heap[l] = Nil
    BY <1>2, NextUnused DEF PacketInv, Sound
  <2> HIDE DEF l, b
  <2>2. lr \in BlockRecord /\ lr.kind = "nbl" /\ lr.nb = NoBlock
    BY <1>5, <1>7, Zenon DEF Like
  <2>3. h \in [Blocks -> BlockRecord] /\ h[l] = lr
    BY <1>7, <2>1, <2>2
  <2>4. FwpsFreeNetBufferList0(h, l) = ExFreePoolCPP(h, l)
    BY <2>2, <2>3, Zenon DEF FwpsFreeNetBufferList0
  <2>5. ExFreePoolCPP(h, l) = [h EXCEPT ![l] = Nil]
    BY <1>7, <2>1, <2>2, <2>3, GoesBack, Zenon
  <2>6. heap' = heap
    BY <1>7, <1>11, <2>1, <2>4, <2>5, Undone
  <2> QED BY <1>11, <2>6, Untouched
<1> QED BY <1>3, <1>9, <1>10, <1>11

\* The clone of a list refers to the descriptor of the original.
LEMMA CloneInv ==
  ASSUME PacketInv, NEW nbl \in Mine, NEW nbl_ok, NEW nb_ok,
         FwpsAllocateCloneNetBufferList0(nbl, nbl_ok, nb_ok)
  PROVE  PacketInv'
<1> DEFINE l == NextBlock(heap, "nbl")
           h == malloc(heap, Block("nbl"))
           b == NextBlock(h, "nb")
           m == heap[heap[nbl].nb].mdl
<1>1. nbl \in Blocks /\ mine[nbl] # "none" /\ heap[nbl].kind = "nbl" /\ heap[nbl].nb # NoBlock
  BY Zenon DEF Mine, FwpsAllocateCloneNetBufferList0, OfKind
<1>2. m \in Blocks /\ heap[m].kind = "mdl"
  <2> DEFINE o == heap[nbl].nb
  <2>1. Fits(nbl, heap[nbl])
    BY <1>1, Zenon DEF PacketInv, Sound
  <2>2. o \in NbBlocks
    BY <1>1, <2>1, Zenon DEF Fits
  <2>3. o \in Blocks /\ Holds(heap, mine, nbl, o)
    BY <1>1, <2>2, Zenon DEF Blocks, Holds
  <2> HIDE DEF o
  <2>4. heap[o].kind = "nb" /\ o \notin astray
    BY <1>1, <2>3, Zenon DEF PacketInv, Sound, Owned
  <2>5. heap[o].mdl \in Blocks /\ heap[heap[o].mdl].kind = "mdl"
    BY <2>3, <2>4, Zenon DEF PacketInv, Sound, Described
  <2> QED BY <2>5, Zenon DEF o
<1>3. Unused(heap, "nbl") # {} /\ Unused(heap, "nb") # {}
  BY Zenon DEF FwpsAllocateCloneNetBufferList0, Room
<1>4. \/ UNCHANGED <<heap, mine, astray>>
      \/ heap' = [malloc(h, Nb(m)) EXCEPT ![l].nb = b] /\ Got(l, "NdisAllocateCloneNetBufferList")
      \/ heap' = free(h, l) /\ UNCHANGED <<mine, astray>>
  BY Zenon DEF FwpsAllocateCloneNetBufferList0, NdisAllocateCloneNetBufferList, Fails, packetVars
<1> HIDE DEF m
<1>5. Block("nbl") \in BlockRecord /\ Block("nbl").kind = "nbl" /\ Block("nbl").nb = NoBlock
  BY BlockFields DEF Kinds
<1>6. Nb(m) \in BlockRecord /\ Nb(m).kind = "nb"
  BY <1>2, NetBufferFields
<1>7. PICK lr : h = [heap EXCEPT ![l] = lr] /\ Like(lr, Block("nbl")) /\ OfMalloc(lr)
  BY <1>5, Allocation, Zenon
<1> HIDE DEF h
<1>8. PICK br : malloc(h, Nb(m)) = [h EXCEPT ![b] = br] /\ Like(br, Nb(m))
  BY <1>6, Allocation, Zenon
<1>9. CASE UNCHANGED <<heap, mine, astray>>
  BY <1>9, Untouched
<1>10. CASE heap' = [malloc(h, Nb(m)) EXCEPT ![l].nb = b] /\ Got(l, "NdisAllocateCloneNetBufferList")
  <2>1. heap' = Attached(lr, br)
    BY <1>7, <1>8, <1>10, Zenon DEF Attached
  <2>2. /\ Like(lr, Block("nbl")) /\ Like(br, Nb(m)) /\ OfMalloc(lr)
        /\ Got(NextBlock(heap, "nbl"), "NdisAllocateCloneNetBufferList")
    BY <1>7, <1>8, <1>10, Zenon
  <2> QED BY <1>2, <1>3, <2>1, <2>2, PairInv, Zenon
<1>11. CASE heap' = free(h, l) /\ UNCHANGED <<mine, astray>>
  <2>1. heap \in [Blocks -> BlockRecord] /\ l \in Blocks /\ heap[l] = Nil
    BY <1>3, NextUnused, Zenon DEF PacketInv, Sound
  <2> HIDE DEF l, b
  <2>2. lr \in BlockRecord /\ lr.kind = "nbl"
    BY <1>5, <1>7, Zenon DEF Like
  <2>3. h \in [Blocks -> BlockRecord] /\ h[l] = lr
    BY <1>7, <2>1, <2>2
  <2>4. free(h, l) = [h EXCEPT ![l] = Nil]
    BY <1>7, <2>1, <2>2, <2>3, GoesBack, Zenon
  <2>5. heap' = heap
    BY <1>7, <1>11, <2>1, <2>4, Undone
  <2> QED BY <1>11, <2>5, Untouched
<1> QED BY <1>4, <1>9, <1>10, <1>11

\* A list goes back with its net buffer, a clone without.
LEMMA PairReleaseInv ==
  ASSUME PacketInv, NEW l \in Blocks, FreeNetBufferList(l) \/ FwpsFreeCloneNetBufferList0(l)
  PROVE  PacketInv'
<1> DEFINE b == heap[l].nb
<1>1. heap \in [Blocks -> BlockRecord] /\ Fits(l, heap[l])
  BY Zenon DEF PacketInv, Sound
<1>2. ASSUME heap[l].kind = "nbl", mine[l] # "none", b # NoBlock
      PROVE  b \in Blocks /\ b # l /\ heap[b].kind = "nb"
             /\ (mine[l] = "FwpsAllocateNetBufferAndNetBufferList0" => OfPool(heap[b]))
  <2>1. b \in Blocks /\ Holds(heap, mine, l, b)
    BY <1>1, <1>2, Zenon DEF Fits, Blocks, Holds
  <2>2. heap[b].kind = "nb" /\ (mine[l] = "FwpsAllocateNetBufferAndNetBufferList0" => OfPool(heap[b]))
    BY <2>1, Zenon DEF PacketInv, Sound, Owned
  <2> QED BY <1>2, <2>1, <2>2, Zenon
<1>3. CASE FreeNetBufferList(l)
  <2>1. /\ Given("FwpsAllocateNetBufferAndNetBufferList0", heap[l])
        /\ mine[l] = "FwpsAllocateNetBufferAndNetBufferList0" /\ heap[l].kind # "nil"
    BY <1>3, HasGiven, Zenon DEF FreeNetBufferList, Has
  <2>2. heap[l].kind = "nbl" /\ OfPool(heap[l]) /\ b # NoBlock
    BY <2>1, Zenon DEF Given
  <2>3. b \in Blocks /\ b # l /\ heap[b].kind = "nb" /\ OfPool(heap[b])
    BY <1>2, <2>1, <2>2, Zenon
  <2> DEFINE h1 == ExFreePoolCPP(heap, b)
  <2>4. h1 = [heap EXCEPT ![b] = Nil]
    BY <1>1, <2>3, GoesBack, Zenon
  <2>5. heap' = ExFreePoolCPP(h1, l)
    BY <1>3, <2>2, Zenon DEF FreeNetBufferList, FwpsFreeNetBufferList0
  <2> HIDE DEF h1, b
  <2>6. h1 \in [Blocks -> BlockRecord] /\ h1[l] = heap[l]
    BY <1>1, <2>3, <2>4, NilRecord
  <2>7. heap' = [h1 EXCEPT ![l] = Nil]
    BY <2>1, <2>2, <2>5, <2>6, GoesBack, Zenon
  <2>8. /\ heap' \in [Blocks -> BlockRecord] /\ heap'[l] = Nil /\ heap'[b] = Nil
        /\ \A x \in Blocks : x # l /\ x # b => heap'[x] = heap[x]
    BY <1>1, <2>3, <2>4, <2>7, NilRecord
  <2>9. mine' = [mine EXCEPT ![l] = "none"] /\ astray' = astray
    BY <1>3, Zenon DEF FreeNetBufferList, Released
  <2>10. Sound(heap', [mine EXCEPT ![l] = "none"], astray)
    BY <2>1, <2>3, <2>8, SoundPairRelease, Zenon DEF PacketInv, b
  <2> QED BY <2>9, <2>10, Zenon DEF PacketInv
<1>4. CASE FwpsFreeCloneNetBufferList0(l)
  <2>1. Given("NdisAllocateCloneNetBufferList", heap[l]) /\ mine[l] # "none" /\ heap[l].kind # "nil"
    BY <1>4, HasGiven, Zenon DEF FwpsFreeCloneNetBufferList0
  <2>2. heap[l].kind = "nbl" /\ OfMalloc(heap[l]) /\ b # NoBlock
    BY <2>1, Zenon DEF Given
  <2>3. b \in Blocks /\ b # l
    BY <1>2, <2>1, <2>2, Zenon
  <2>4. /\ heap' = free(heap, l) /\ mine' = [mine EXCEPT ![l] = "none"]
        /\ astray' = astray \cup {b}
    BY <1>4, Zenon DEF FwpsFreeCloneNetBufferList0, NdisFreeCloneNetBufferList, Released
  <2>5. heap' = [heap EXCEPT ![l] = Nil]
    BY <1>1, <2>1, <2>2, <2>4, GoesBack, Zenon
  <2> HIDE DEF b
  <2>6. /\ heap' \in [Blocks -> BlockRecord] /\ heap'[l] = Nil
        /\ \A x \in Blocks : x # l => heap'[x] = heap[x]
    BY <1>1, <2>5, NilRecord
  <2>7. Sound(heap', [mine EXCEPT ![l] = "none"], astray \cup {b})
    <3>1. heap[l].nb = b /\ heap'[b] = heap[b] /\ Sound(heap, mine, astray)
      BY <2>3, <2>6, Zenon DEF PacketInv, b
    <3>2. mine[l] # "none"
      BY <2>1, Zenon
    <3>3. PICK a2 : a2 = astray \cup {b}
      BY Zenon
    <3>4. Sound(heap', [mine EXCEPT ![l] = "none"], a2)
      BY <2>3, <2>6, <3>1, <3>2, <3>3, SoundPairRelease, Zenon
    <3> QED BY <3>3, <3>4
  <2> QED BY <2>4, <2>7, Zenon DEF PacketInv
<1> QED BY <1>3, <1>4

\* Every call keeps the invariant.
LEMMA PacketStep ==
  ASSUME PacketInv, PacketNext
  PROVE  PacketInv'
<1>1. CASE MdlStep
  <2>1. \A m \in Mdls : m \in Blocks
    BY Zenon DEF Mdls, OfKind
  <2> QED
    BY <1>1, <2>1, IoAllocateMdlInv, AllocatePagesInv, PlainReleaseInv, FreePagesInv, MapInv,
       BuildPartialInv, Zenon DEF MdlStep
<1>2. CASE BlockStep
  <2>1. \A b \in Mine : b \in Blocks
    BY Zenon DEF Mine
  <2> QED
    BY <1>2, <2>1, ExAllocateInv, NdisObjectsInv, PlainReleaseInv, PairReleaseInv, Zenon
       DEF BlockStep
<1>3. CASE NetBufferStep
  BY <1>3, NdisNetBufferInv, FwpsAllocateInv, CloneInv, GetDataBufferInv, AdvanceInv, Zenon
  DEF NetBufferStep
<1> QED BY <1>1, <1>2, <1>3, Zenon DEF PacketNext

\* What the invariant says.
LEMMA PacketInvImplies == PacketInv => HeapExact /\ WindowInside
<1> SUFFICES ASSUME PacketInv PROVE HeapExact /\ WindowInside
  OBVIOUS
<1>1. \A b \in Blocks : Fits(b, heap[b])
  BY Zenon DEF PacketInv, Sound
<1>2. Corrupt \notin {heap[b] : b \in Blocks}
  <2>1. Corrupt.kind = "corrupt"
    BY DEF Corrupt, Nil
  <2>2. \A b \in Blocks : heap[b].kind \in Kinds
    BY <1>1, Zenon DEF Fits, BlockRecord
  <2>3. "corrupt" \notin Kinds
    BY DEF Kinds
  <2> QED BY <2>1, <2>2, <2>3, Zenon
<1>3. \A b \in Blocks : heap[b] # Nil <=> heap[b].kind # "nil"
  BY <1>1, NilRecord, Zenon DEF Fits
<1>4. ASSUME NEW x
      PROVE  x \in Used(heap) <=>
               x \in Mine \cup astray \cup ({heap[b].nb : b \in Mine \cap OfKind("nbl")} \ {NoBlock})
  <2> DEFINE N == {heap[b].nb : b \in Mine \cap OfKind("nbl")} \ {NoBlock}
  <2>1. x \in Used(heap) <=> x \in Blocks /\ heap[x].kind # "nil"
    BY <1>3, Zenon DEF Used
  <2>2. x \in N <=> x # NoBlock /\ \E l \in Blocks : mine[l] # "none" /\ heap[l].kind = "nbl" /\ heap[l].nb = x
    BY Zenon DEF Mine, OfKind
  <2>3. x \in N <=> x \in Blocks /\ \E l \in Blocks : Holds(heap, mine, l, x)
    <3>1. NoBlock \notin Blocks /\ NbBlocks \subseteq Blocks
      BY PacketsAssumption DEF Blocks
    <3>2. \A l \in Blocks : heap[l].nb # NoBlock => heap[l].kind = "nbl" /\ heap[l].nb \in NbBlocks
      BY <1>1, Zenon DEF Fits
    <3> HIDE DEF N
    <3> QED BY <2>2, <3>1, <3>2 DEF Holds
  <2> HIDE DEF N
  <2>4. x \in Mine <=> x \in Blocks /\ mine[x] # "none"
    BY Zenon DEF Mine
  <2>5. CASE x \in Used(heap)
    <3>1. mine[x] # "none" \/ x \in astray \/ \E l \in Blocks : Holds(heap, mine, l, x)
      BY <2>1, <2>5, Zenon DEF PacketInv, Sound, Owned
    <3> QED BY <2>1, <2>3, <2>4, <2>5, <3>1, Zenon DEF N
  <2>6. CASE x \in Mine
    BY <2>1, <2>4, <2>6, GivenBy, Zenon DEF PacketInv, Sound, Owned
  <2>7. CASE x \in astray
    <3>1. x \in Blocks
      BY <2>7 DEF PacketInv, Sound, Blocks
    <3>2. heap[x].kind = "nb"
      BY <2>7, Zenon DEF PacketInv, Sound, Owned
    <3> QED BY <2>1, <2>7, <3>1, <3>2
  <2>8. CASE x \in N
    <3>1. heap[x].kind = "nb"
      BY <2>3, <2>8, Zenon DEF PacketInv, Sound, Owned
    <3> QED BY <2>1, <2>3, <2>8, <3>1, Zenon DEF N
  <2> QED BY <2>5, <2>6, <2>7, <2>8, Zenon DEF N
<1>5. Used(heap) = Mine \cup astray \cup ({heap[b].nb : b \in Mine \cap OfKind("nbl")} \ {NoBlock})
  BY <1>4, Zenon
<1>6. WindowInside
  <2> SUFFICES ASSUME NEW m \in Mdls
               PROVE  FirstByte(m)..(FirstByte(m) + heap[m].byte_count - heap[m].moved - 1)
                        \subseteq BufferOf(m)
    BY Zenon DEF WindowInside
  <2>1. heap[m] \in BlockRecord /\ Window(heap[m])
    BY DescriptorOwned, Zenon DEF Mdls, OfKind
  <2> DEFINE first == FirstByte(m)
             count == heap[m].byte_count - heap[m].moved
             pages == heap[m].pages
  <2>0. PICK sv \in Int, so \in Int, sc \in Int, sm \in Nat :
          /\ heap[m].start_va = sv /\ heap[m].byte_offset = so
          /\ heap[m].byte_count = sc /\ heap[m].moved = sm
    BY <2>1, Zenon DEF BlockRecord
  <2>2. first \in Int /\ count \in Int /\ pages \in Int
    <3>1. sv + so \in Int /\ sc - sm \in Int
      OBVIOUS
    <3> QED BY <2>0, <2>1, <3>1, Zenon DEF FirstByte, BlockRecord
  <2>3. count > 0 => IF pages = 0
                     THEN 1 <= first /\ first + count <= BufferLen + 1
                     ELSE PagesAt <= first /\ first + count <= PagesAt + pages
    BY <2>1, Zenon DEF Window, FirstByte
  <2>4. first + heap[m].byte_count - heap[m].moved - 1 = first + count - 1
    <3>1. (sv + so) + sc - sm - 1 = (sv + so) + (sc - sm) - 1
      OBVIOUS
    <3> QED BY <2>0, <3>1, Zenon DEF FirstByte
  <2>5. BufferOf(m) = IF pages = 0 THEN 1..BufferLen ELSE PagesAt..(PagesAt + pages - 1)
    BY Zenon DEF BufferOf
  <2>6. PagesAt \in Int /\ BufferLen \in Int
    BY PacketsAssumption DEF PagesAt
  <2> HIDE DEF first, count, pages
  <2>7. first..(first + count - 1) \subseteq (IF pages = 0 THEN 1..BufferLen ELSE PagesAt..(PagesAt + pages - 1))
    BY <2>2, <2>3, <2>6
  <2> QED BY <2>4, <2>5, <2>7 DEF first
<1> QED BY <1>2, <1>5, <1>6, Zenon DEF HeapExact

\* The invariant of the heap holds always.
LEMMA PacketsSound == PacketSpec => []PacketInv
<1>1. PacketInit => PacketInv
  BY EmptyHeap, Zenon DEF PacketInit, PacketInv
<1>2. PacketInv /\ [PacketNext]_packetVars => PacketInv'
  <2>1. PacketInv /\ UNCHANGED packetVars => PacketInv'
    BY Untouched, Zenon DEF packetVars
  <2> QED BY <2>1, PacketStep
<1> QED BY <1>1, <1>2, PTL DEF PacketSpec

\* A behaviour of the three parts together is one of each of them: what holds of
\* a part holds in the system.
THEOREM PartsOfResources == Spec => PacketSpec /\ CallSpec /\ HandleSpec
<1>1. Init => PacketInit /\ CallInit /\ HandleInit
  BY Zenon DEF Init
<1>2. [Next]_vars => [PacketNext]_packetVars /\ [CallNext]_callVars /\ [HandleNext]_handleVars
  BY Zenon DEF Next, vars
<1> QED BY <1>1, <1>2, PTL DEF Spec, PacketSpec, CallSpec, HandleSpec

\* No call that fails half way leaves a block behind, releasing a list releases
\* what came with it and every block goes back to its allocator: for any number
\* of blocks of each kind.
THEOREM HeapAlwaysExact == Spec => []HeapExact
<1>1. PacketInv => HeapExact
  BY PacketInvImplies
<1> QED BY <1>1, PacketsSound, PartsOfResources, PTL

\* The bytes a descriptor describes are bytes of its buffer, through every chain
\* of partial descriptors and of advances: for any page size and any buffer.
THEOREM WindowsAlwaysInside == Spec => []WindowInside
<1>1. PacketInv => WindowInside
  BY PacketInvImplies
<1> QED BY <1>1, PacketsSound, PartsOfResources, PTL

=============================================================================
