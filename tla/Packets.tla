------------------------------ MODULE Packets ------------------------------
(* The memory a driver gets from the pool (ex.cpp), memory descriptor lists *)
(* (io.cpp, mm.cpp) and net buffers (ndis_um.cpp, fwp_um.cpp).  The driver   *)
(* keeps the usual contract: it releases each thing once, with the function *)
(* that belongs to the call that gave it, and not while a net buffer refers *)
(* to it.  A parameter ok is the answer of fault injection and of the       *)
(* allocator below.                                                         *)
EXTENDS Integers

CONSTANTS
  MdlBlocks,   \* bound: the descriptors that can be allocated,
  NblBlocks,   \* the net buffer lists,
  NbBlocks,    \* the net buffers
  PlainBlocks, \* and the blocks of other kinds, while there are no others
  NoBlock,     \* the null pointer
  PageSize,    \* PAGE_ALIGN and BYTE_OFFSET
  BufferLen,   \* bytes of the driver's own buffer, at address 1
  Windows,     \* the <<address, length>> pairs IoAllocateMdl is called with
  MaxMoved     \* bound: by how much a data start is advanced

ASSUME PacketsAssumption ==
  /\ NoBlock \notin MdlBlocks \cup NblBlocks \cup NbBlocks \cup PlainBlocks
  /\ MdlBlocks \cap (NblBlocks \cup NbBlocks \cup PlainBlocks) = {}
  /\ NblBlocks \cap (NbBlocks \cup PlainBlocks) = {}
  /\ NbBlocks \cap PlainBlocks = {}
  /\ PageSize \in Nat \ {0} /\ BufferLen \in Nat /\ MaxMoved \in Nat
  /\ Windows \subseteq Nat \X Nat
  /\ \A w \in Windows \ {<<0, 0>>} : w[1] \in 1..BufferLen /\ w[1] + w[2] <= BufferLen + 1

VARIABLES
  heap,      \* [Blocks -> a block, Nil or Corrupt]
  mine,      \* [Blocks -> the call that gave the driver the block, or "none"]
  astray,    \* (history) net buffers of released clones
  bugcheck   \* KeBugCheck stopped the process

packetVars == <<heap, mine, astray, bugcheck>>

Blocks == MdlBlocks \cup NblBlocks \cup NbBlocks \cup PlainBlocks

\* by and flags are those of the allocation, pool_flags those in the header of
\* the pool; the other fields belong to one kind of block or the other.
Nil ==
  [kind |-> "nil", by |-> "none", flags |-> "none", pool_flags |-> "none",
   nb |-> NoBlock, mdl |-> NoBlock, start_va |-> 0, byte_offset |-> 0, byte_count |-> 0,
   mapped |-> FALSE, pages |-> 0, moved |-> 0]
Corrupt == [Nil EXCEPT !.kind = "corrupt"]
Block(kind) == [Nil EXCEPT !.kind = kind]
Used(h) == {b \in Blocks : h[b] # Nil}
OfKind(k) == {b \in Blocks : heap[b].kind = k}
Mine == {b \in Blocks : mine[b] # "none"}
NothingMine == [b \in Blocks |-> "none"]

PacketInit ==
  /\ heap = [b \in Blocks |-> Nil]
  /\ mine = NothingMine
  /\ astray = {}
  /\ bugcheck = FALSE

-----------------------------------------------------------------------------
(* Allocation and release, as functions of the heap.  A block that goes to  *)
(* an allocator it is not from, or with other flags, corrupts the heap.     *)

\* Unused blocks are alike.
Unused(h, kind) ==
  {b \in (CASE kind = "mdl" -> MdlBlocks [] kind = "nbl" -> NblBlocks
            [] kind = "nb" -> NbBlocks [] OTHER -> PlainBlocks) : h[b] = Nil}
NextBlock(h, kind) == CHOOSE b \in Unused(h, kind) : TRUE
\* Bound: a plain block, which shares nothing with others, is allocated alone.
Room(kind) ==
  /\ Unused(heap, kind) # {}
  /\ \A b \in IF kind \in {"mdl", "nbl", "nb"} THEN PlainBlocks ELSE Blocks : heap[b] = Nil

Allocated(h, by, flags, fields) ==
  [h EXCEPT ![NextBlock(h, fields.kind)] = [fields EXCEPT !.by = by, !.flags = flags]]
Deallocated(h, b, by, flags) ==
  [h EXCEPT ![b] = IF @.kind # "nil" /\ @.by = by /\ @.flags = flags THEN Nil ELSE Corrupt]

malloc(h, fields) == Allocated(h, "malloc", "none", fields)
free(h, b) == Deallocated(h, b, "malloc", "none")
cxplat_allocate(h, fields) == Allocated(h, "cxplat", "nonpaged", fields)
cxplat_free(h, b) == Deallocated(h, b, "cxplat", "nonpaged")

PoolTypes == {"NonPagedPoolNx", "NonPagedPoolNxCacheAligned", "PagedPool", "PagedPoolCacheAligned"}

\* The other pool types stop the process.
_pool_type_to_flags(pool_type) ==
  [NonPagedPoolNx |-> "nonpaged", NonPagedPoolNxCacheAligned |-> "nonpaged aligned",
   PagedPool |-> "paged", PagedPoolCacheAligned |-> "paged aligned"][pool_type]

\* A block of the pool has a header in front that keeps the flags; the driver
\* sees the address behind the header.
ExAllocatePoolUninitializedCPP(h, pool_type, fields) ==
  LET flags == _pool_type_to_flags(pool_type)
  IN  Allocated(h, "pool", flags, [fields EXCEPT !.pool_flags = flags])

\* The block goes back with the flags of its header.
ExFreePoolCPP(h, b) ==
  Deallocated(h, b, "pool", h[b].pool_flags)

\* The driver now has block b of call; it releases it; nothing happens.
Got(b, call) == mine' = [mine EXCEPT ![b] = call] /\ UNCHANGED <<astray, bugcheck>>
Has(b, call) == mine[b] = call
Released(b) == mine' = [mine EXCEPT ![b] = "none"] /\ UNCHANGED bugcheck
Fails == UNCHANGED packetVars
BugCheck ==
  /\ bugcheck' = TRUE
  /\ heap' = [b \in Blocks |-> Nil] /\ mine' = NothingMine /\ astray' = {}

\* The driver's own memory.  No tag and no bytes are a bug check.
ExAllocatePool2CPP(pool_type, bytes, tag, ok) ==
  /\ Room("data")
  /\ IF tag = 0 \/ bytes = 0
     THEN BugCheck
     ELSE IF ok
     THEN /\ heap' = ExAllocatePoolUninitializedCPP(heap, pool_type, Block("data"))
          /\ Got(NextBlock(heap, "data"), "ExAllocatePool2")
     ELSE Fails

ExFreePoolWithTagCPP(b) ==
  /\ Has(b, "ExAllocatePool2")
  /\ heap' = ExFreePoolCPP(heap, b)
  /\ Released(b)
  /\ UNCHANGED astray

-----------------------------------------------------------------------------
(* Memory descriptor lists.  pages is the number of bytes of the pages a    *)
(* descriptor owns, which are at PagesAt (one descriptor at a time has any); moved     *)
(* (history) is by how much the data start was advanced.                    *)

PageAlign(va) == va - (va % PageSize)
ByteOffset(va) == va % PageSize

MmInitializeMdl(va, count, pages) ==
  [Block("mdl") EXCEPT !.start_va = PageAlign(va), !.byte_offset = ByteOffset(va),
                       !.byte_count = count, !.pages = pages]

Mdls == OfKind("mdl")
PagesAt == 16 * PageSize
Nbs == OfKind("nb") \ astray
Referenced(m) == \E b \in Nbs : heap[b].mdl = m
FirstByte(m) == heap[m].start_va + heap[m].byte_offset

IoAllocateMdl(w, ok) ==
  /\ Room("mdl")
  /\ IF ok
     THEN /\ heap' = cxplat_allocate(heap, MmInitializeMdl(w[1], w[2], 0))
          /\ Got(NextBlock(heap, "mdl"), "IoAllocateMdl")
     ELSE Fails

IoFreeMdl(m) ==
  /\ Has(m, "IoAllocateMdl") /\ ~Referenced(m)
  /\ heap' = cxplat_free(heap, m)
  /\ Released(m)
  /\ UNCHANGED astray

\* The target describes length bytes of the source from va on, or all that is
\* left of it.  The flags are copied, the mapped one included.
IoBuildPartialMdl_no_offset(s, t, va, length) ==
  LET offset == va - PageAlign(va) - ByteOffset(va)
  IN  [t EXCEPT !.start_va = PageAlign(va), !.byte_offset = ByteOffset(va),
                !.byte_count = IF length = 0 THEN s.byte_count - offset ELSE length,
                !.mapped = s.mapped, !.moved = IF length = 0 THEN s.moved ELSE 0]

IoBuildPartialMdl(s, t, va, length) ==
  LET offset == va - s.start_va - s.byte_offset
  IN  [t EXCEPT !.start_va = PageAlign(va), !.byte_offset = ByteOffset(va),
                !.byte_count = IF length = 0 THEN s.byte_count - offset ELSE length,
                !.mapped = s.mapped, !.moved = IF length = 0 THEN s.moved ELSE 0]

\* The driver takes a part of a descriptor over its own buffer, inside it.
BuildPartial(source, target) ==
  /\ {source, target} \subseteq Mdls /\ source # target
  /\ heap[source].pages = 0 /\ heap[target].by = "cxplat"
  /\ \E n \in 0..(heap[source].byte_count - heap[source].moved - 1), length \in {0, 1} :
       heap' = [heap EXCEPT ![target] =
                  IoBuildPartialMdl(heap[source], @, FirstByte(source) + n, length)]
  /\ UNCHANGED <<mine, astray, bugcheck>>

\* The descriptor from the pool, then the pages; without them it goes back.
MmAllocatePagesForMdlEx(bytes, mdl_ok, pages_ok) ==
  LET b == NextBlock(heap, "mdl")
      descriptor == MmInitializeMdl(PagesAt, bytes, bytes)
      h == ExAllocatePoolUninitializedCPP(heap, "NonPagedPoolNx", descriptor)
  IN  /\ Room("mdl") /\ \A m \in Mdls : heap[m].pages = 0
      /\ IF ~mdl_ok
         THEN Fails
         ELSE IF pages_ok
         THEN heap' = h /\ Got(b, "MmAllocatePagesForMdlEx")
         ELSE heap' = ExFreePoolCPP(h, b) /\ UNCHANGED <<mine, astray, bugcheck>>

\* VirtualFree of the pages; the driver frees the descriptor after that.
MmFreePagesFromMdl(m) ==
  /\ Has(m, "MmAllocatePagesForMdlEx") /\ ~Referenced(m)
  /\ heap' = [heap EXCEPT ![m].start_va = 0, ![m].byte_count = 0, ![m].pages = 0]
  /\ mine' = [mine EXCEPT ![m] = "MmFreePagesFromMdl"]
  /\ UNCHANGED <<astray, bugcheck>>

FreePagesMdl(m) ==
  /\ Has(m, "MmFreePagesFromMdl") /\ ~Referenced(m)
  /\ heap' = ExFreePoolCPP(heap, m)
  /\ Released(m)
  /\ UNCHANGED astray

\* Mapping twice, unmapping what is not mapped, and a fault when the caller
\* asked for it, stop the process.
MmMapLockedPagesSpecifyCache(m, bug_check_on_failure, ok) ==
  IF heap[m].mapped \/ (~ok /\ bug_check_on_failure)
  THEN BugCheck
  ELSE heap' = [heap EXCEPT ![m].mapped = ok] /\ UNCHANGED <<mine, astray, bugcheck>>

MmUnmapLockedPagesCPP(m) ==
  IF heap[m].mapped
  THEN heap' = [heap EXCEPT ![m].mapped = FALSE] /\ UNCHANGED <<mine, astray, bugcheck>>
  ELSE BugCheck

MmGetSystemAddressForMdlSafe(m, ok) ==
  IF heap[m].mapped THEN Fails ELSE MmMapLockedPagesSpecifyCache(m, FALSE, ok)

-----------------------------------------------------------------------------
(* Net buffers, the lists that hold one, and other objects of NDIS.         *)

Nb(m) == [Block("nb") EXCEPT !.mdl = m]

NdisAllocate(call, fields, ok) ==
  /\ Room(fields.kind)
  /\ IF ok THEN heap' = malloc(heap, fields) /\ Got(NextBlock(heap, fields.kind), call) ELSE Fails

NdisFree(b, call) ==
  /\ Has(b, call)
  /\ heap' = free(heap, b)
  /\ Released(b)
  /\ UNCHANGED astray

NdisAllocateGenericObject(ok) ==
  NdisAllocate("NdisAllocateGenericObject", Block("object"), ok)
NdisFreeGenericObject(b) == NdisFree(b, "NdisAllocateGenericObject")
NdisAllocateNetBufferListPool(ok) ==
  NdisAllocate("NdisAllocateNetBufferListPool", Block("pool"), ok)
NdisFreeNetBufferListPool(b) == NdisFree(b, "NdisAllocateNetBufferListPool")
NdisAllocateNetBufferList(ok) ==
  NdisAllocate("NdisAllocateNetBufferList", Block("nbl"), ok)
NdisFreeNetBufferList(b) == NdisFree(b, "NdisAllocateNetBufferList")
NdisAllocateNetBuffer(m, ok) == NdisAllocate("NdisAllocateNetBuffer", Nb(m), ok)
NdisFreeNetBuffer(b) == NdisFree(b, "NdisAllocateNetBuffer")

\* A list, then a net buffer over the descriptor of the original; without the
\* net buffer the list goes back.
NdisAllocateCloneNetBufferList(nbl, nbl_ok, nb_ok) ==
  LET b == NextBlock(heap, "nbl")
      h == malloc(heap, Block("nbl"))
      nb == NextBlock(h, "nb")
  IN  IF ~nbl_ok
      THEN Fails
      ELSE IF nb_ok
      THEN /\ heap' = [malloc(h, Nb(heap[heap[nbl].nb].mdl)) EXCEPT ![b].nb = nb]
           /\ Got(b, "NdisAllocateCloneNetBufferList")
      ELSE heap' = free(h, b) /\ UNCHANGED <<mine, astray, bugcheck>>

\* The list alone goes back; the net buffer of the clone is never released.
NdisFreeCloneNetBufferList(nbl) ==
  /\ heap' = free(heap, nbl)
  /\ Released(nbl)
  /\ astray' = astray \cup {heap[nbl].nb}

FwpsAllocateCloneNetBufferList0(nbl, nbl_ok, nb_ok) ==
  /\ Room("nbl") /\ Room("nb") /\ nbl \in OfKind("nbl")
  /\ heap[nbl].nb # NoBlock
  /\ NdisAllocateCloneNetBufferList(nbl, nbl_ok, nb_ok)

FwpsFreeCloneNetBufferList0(nbl) ==
  /\ Has(nbl, "NdisAllocateCloneNetBufferList")
  /\ NdisFreeCloneNetBufferList(nbl)

\* The net buffer, when there is one, and the list go back to the pool.
FwpsFreeNetBufferList0_list_only(h, nbl) == ExFreePoolCPP(h, nbl)
FwpsFreeNetBufferList0(h, nbl) ==
  ExFreePoolCPP(IF h[nbl].nb # NoBlock THEN ExFreePoolCPP(h, h[nbl].nb) ELSE h, nbl)

\* Both from the pool; a list without a net buffer goes back.
FwpsAllocateNetBufferAndNetBufferList0(m, nbl_ok, nb_ok) ==
  LET b == NextBlock(heap, "nbl")
      h == ExAllocatePoolUninitializedCPP(heap, "NonPagedPoolNx", Block("nbl"))
      nb == NextBlock(h, "nb")
  IN  /\ Room("nbl") /\ Room("nb") /\ m \in Mdls
      /\ IF ~nbl_ok
         THEN Fails
         ELSE IF nb_ok
         THEN /\ heap' = [ExAllocatePoolUninitializedCPP(h, "NonPagedPoolNx", Nb(m))
                            EXCEPT ![b].nb = nb]
              /\ Got(b, "FwpsAllocateNetBufferAndNetBufferList0")
         ELSE heap' = FwpsFreeNetBufferList0(h, b) /\ UNCHANGED <<mine, astray, bugcheck>>

FreeNetBufferList(nbl) ==
  /\ Has(nbl, "FwpsAllocateNetBufferAndNetBufferList0")
  /\ heap' = FwpsFreeNetBufferList0(heap, nbl)
  /\ Released(nbl)
  /\ UNCHANGED astray

\* What is asked for is compared with the byte count of the descriptor, and
\* the descriptor is mapped when it is not yet.
NdisGetDataBuffer(nb, needed, ok, map_ok) ==
  IF ok /\ heap[heap[nb].mdl].byte_count >= needed
  THEN MmGetSystemAddressForMdlSafe(heap[nb].mdl, map_ok)
  ELSE Fails

\* The data start moves; the byte count stays.
NdisAdvanceNetBufferDataStart(nb, delta) ==
  LET m == heap[nb].mdl
  IN  /\ heap[m].moved + delta <= heap[m].byte_count /\ heap[m].moved + delta <= MaxMoved
      /\ heap' = [heap EXCEPT ![m].byte_offset = @ + delta, ![m].moved = @ + delta]
      /\ UNCHANGED <<mine, astray, bugcheck>>

-----------------------------------------------------------------------------
MdlStep ==
  \/ \E w \in Windows, ok \in BOOLEAN : IoAllocateMdl(w, ok)
  \/ \E mdl_ok, pages_ok \in BOOLEAN : MmAllocatePagesForMdlEx(PageSize, mdl_ok, pages_ok)
  \/ \E m \in Mdls :
       \/ IoFreeMdl(m)
       \/ MmFreePagesFromMdl(m)
       \/ FreePagesMdl(m)
       \/ \E fatal, ok \in BOOLEAN : MmMapLockedPagesSpecifyCache(m, fatal, ok)
       \/ MmUnmapLockedPagesCPP(m)
       \/ \E t \in Mdls : BuildPartial(m, t)

BlockStep ==
  \/ \E type \in PoolTypes, bytes, tag \in {0, 1}, ok \in BOOLEAN :
       ExAllocatePool2CPP(type, bytes, tag, ok)
  \/ \E ok \in BOOLEAN :
       \/ NdisAllocateGenericObject(ok)
       \/ NdisAllocateNetBufferListPool(ok)
       \/ NdisAllocateNetBufferList(ok)
  \/ \E b \in Mine :
       \/ ExFreePoolWithTagCPP(b)
       \/ NdisFreeGenericObject(b)
       \/ NdisFreeNetBufferListPool(b)
       \/ NdisFreeNetBufferList(b)
       \/ NdisFreeNetBuffer(b)
       \/ FwpsFreeCloneNetBufferList0(b)
       \/ FreeNetBufferList(b)

NetBufferStep ==
  \/ \E m \in Mdls, ok \in BOOLEAN :
       \/ NdisAllocateNetBuffer(m, ok)
       \/ \E nb_ok \in BOOLEAN : FwpsAllocateNetBufferAndNetBufferList0(m, ok, nb_ok)
  \/ \E nbl \in Mine, ok, nb_ok \in BOOLEAN : FwpsAllocateCloneNetBufferList0(nbl, ok, nb_ok)
  \/ \E nb \in Nbs :
       \/ \E needed \in {1, BufferLen}, ok, map_ok \in BOOLEAN : NdisGetDataBuffer(nb, needed, ok, map_ok)
       \/ NdisAdvanceNetBufferDataStart(nb, 1)

PacketNext == ~bugcheck /\ (MdlStep \/ BlockStep \/ NetBufferStep)

PacketSpec == PacketInit /\ [][PacketNext]_packetVars

-----------------------------------------------------------------------------
\* What is allocated is what the driver still has to release, and the net
\* buffers of its lists: no call that fails half way leaves a block behind,
\* releasing a list releases what came with it, and every block goes back to
\* the allocator it is from.  The one exception is the net buffer of a clone,
\* which NdisFreeCloneNetBufferList leaves behind.
HeapExact ==
  /\ Corrupt \notin {heap[b] : b \in Blocks}
  /\ Used(heap) = Mine \cup astray
                  \cup ({heap[b].nb : b \in Mine \cap OfKind("nbl")} \ {NoBlock})

\* The buffer a descriptor was made for: the driver's own or its pages.
BufferOf(m) == IF heap[m].pages = 0 THEN 1..BufferLen ELSE PagesAt..(PagesAt + heap[m].pages - 1)

\* The bytes a descriptor describes are bytes of its buffer: through page
\* alignment, parts of parts and parts of advanced descriptors.  What
\* NdisAdvanceNetBufferDataStart moved is counted off at the end, because it
\* leaves the byte count as it is.
WindowInside ==
  \A m \in Mdls :
    FirstByte(m)..(FirstByte(m) + heap[m].byte_count - heap[m].moved - 1) \subseteq BufferOf(m)
=============================================================================
