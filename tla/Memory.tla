-------------------------------- MODULE Memory --------------------------------
(***************************************************************************)
(* cxplat_winuser/memory_winuser.cpp, the leak detector it feeds           *)
(* (leak_detector.cpp) and the fault injection it asks (FaultInjection),   *)
(* in a debug build with both switched on, used by several threads.        *)
(*                                                                         *)
(* The heap (malloc, realloc, free) is external: each of its calls is      *)
(* atomic, it may fail, and it hands out any address that is not in use,   *)
(* at once.  A call of cxplat is a sequence of such atomic steps: ask for  *)
(* a fault, call the heap, and lock the detector's mutex to register or    *)
(* unregister a pointer.  An assertion of the code is the guard of the     *)
(* step it stands in: when it fails, Crash is all that is left.            *)
(***************************************************************************)
EXTENDS FaultInjection

CONSTANTS Addresses   \* the pointers the heap may return

VARIABLES heap,         \* Addresses -> NoBlock or the block there
          _allocations, \* the pointers the leak detector holds
          call,         \* Threads -> the call in progress
          moved         \* history: pointers a heap realloc took or refused

memVars == <<heap, _allocations, call, moved>>
memoryVars == <<faultVars, memVars>>

NoBlock == [owner |-> "none"]
Idle == [pc |-> "idle"]

\* A block with its header, of which the size matters: whether header->size is
\* the size the caller was last given.
Block(t) == [owner |-> t, sizeKnown |-> TRUE]

Live == {a \in Addresses : heap[a] # NoBlock}
Owned(t) == {a \in Live : heap[a].owner = t}
InCall == UNION {{call[t].ptr} \cup (IF call[t].pc = "swap" THEN call[t].new ELSE {})
                    : t \in {u \in Threads : "ptr" \in DOMAIN call[u]}}

MemoryInit ==
    /\ FaultInit
    /\ heap = [a \in Addresses |-> NoBlock]
    /\ _allocations = {}
    /\ call = [t \in Threads |-> Idle]
    /\ moved = {}

ReturnToCaller(t) == call' = [call EXCEPT ![t] = Idle]
Goto(t, c) == call' = [call EXCEPT ![t] = c]

-----------------------------------------------------------------------------
(* The leak detector, each operation under its mutex.                      *)

register_allocation(a) == _allocations' = _allocations \cup {a}

unregister_allocation(a) ==
    /\ a \in _allocations       \* CXPLAT_RUNTIME_ASSERT; a "Double-free" otherwise
    /\ _allocations' = _allocations \ {a}

\* cxplat_cleanup() reports what is registered, and the process ends.
dump_leaks ==
    /\ \A t \in Threads : call[t] = Idle
    /\ _allocations' = {}
    /\ heap' = [a \in Addresses |-> NoBlock]
    /\ moved' = {}
    /\ call' = call
    /\ FaultCrash

-----------------------------------------------------------------------------
(* The caller is told NULL: a fault was injected.                          *)
Faulted(t) ==
    /\ call[t].pc = "fault"
    /\ inj[t].pc = "answered" /\ inj[t].fault
    /\ inj' = [inj EXCEPT ![t] = Outside]
    /\ ReturnToCaller(t)
    /\ UNCHANGED <<_modules_under_test, _fault_hash, enabled, log, attempted, delivered,
                   heap, _allocations, moved>>

NotFaulted(t, op) ==
    /\ call[t].pc = "fault"
    /\ call[t].op = op
    /\ inj[t].pc = "answered" /\ ~inj[t].fault
    /\ inj' = [inj EXCEPT ![t] = Outside]
    /\ UNCHANGED <<_modules_under_test, _fault_hash, enabled, log, attempted, delivered>>

-----------------------------------------------------------------------------
(* cxplat_allocate.  cxplat_duplicate_string and                           *)
(* cxplat_duplicate_utf8_string are a call of it with their own kind.      *)

cxplat_allocate(t) ==
    /\ call[t] = Idle
    /\ \E stack \in CallStacks :
          /\ Goto(t, [pc |-> "fault", op |-> "allocate"])
          /\ inject_fault(t, stack)
    /\ UNCHANGED <<heap, _allocations, moved>>

AllocateBlock(t) ==
    /\ NotFaulted(t, "allocate")
    /\ \/ \E a \in Addresses \ Live :
             /\ heap' = [heap EXCEPT ![a] = Block(t)]
             /\ Goto(t, [pc |-> "register", ptr |-> a])
       \/ ReturnToCaller(t) /\ UNCHANGED heap
    /\ UNCHANGED <<_allocations, moved>>

\* The last step of cxplat_allocate and of cxplat_reallocate.
Register(t) ==
    /\ call[t].pc = "register"
    /\ register_allocation(call[t].ptr)
    /\ ReturnToCaller(t)
    /\ UNCHANGED <<faultVars, heap, moved>>

-----------------------------------------------------------------------------
(* cxplat_reallocate.  On failure the old block still belongs to the       *)
(* caller, as with realloc.                                                *)

cxplat_reallocate(t) ==
    /\ call[t] = Idle
    /\ \E a \in Owned(t) \ InCall, stack \in CallStacks :
          /\ Goto(t, [pc |-> "fault", op |-> "reallocate", ptr |-> a])
          /\ inject_fault(t, stack)
    /\ UNCHANGED <<heap, _allocations, moved>>

\* The contents move with their header, whose size stays the old one: right when
\* the new size is the same, wrong otherwise.
Resized(block) == {block, [block EXCEPT !.sizeKnown = FALSE]}

ReallocateBlock(t) ==
    /\ NotFaulted(t, "reallocate")
    /\ LET old == call[t].ptr IN
       /\ heap[old].sizeKnown                          \* CXPLAT_DEBUG_ASSERT
       /\ \/ \E b \in Resized(heap[old]) :
                /\ heap' = [heap EXCEPT ![old] = b]
                /\ Goto(t, [pc |-> "swap", ptr |-> old, new |-> {old}])
                /\ UNCHANGED moved
          \/ \E a \in Addresses \ Live, b \in Resized(heap[old]) :
                /\ heap' = [heap EXCEPT ![old] = NoBlock, ![a] = b]
                /\ Goto(t, [pc |-> "swap", ptr |-> old, new |-> {a}])
                /\ moved' = moved \cup {old}
          \/ /\ Goto(t, [pc |-> "swap", ptr |-> old, new |-> {}])
             /\ moved' = moved \cup {old}
             /\ UNCHANGED heap
    /\ UNCHANGED _allocations

\* Only now is the old pointer unregistered, even after a failure.
Swap(t) ==
    /\ call[t].pc = "swap"
    /\ unregister_allocation(call[t].ptr)
    /\ \/ \E a \in call[t].new : Goto(t, [pc |-> "register", ptr |-> a])
       \/ call[t].new = {} /\ ReturnToCaller(t)
    /\ UNCHANGED <<faultVars, heap, moved>>

-----------------------------------------------------------------------------
(* cxplat_free, and cxplat_free_string and cxplat_free_utf8_string with    *)
(* the tag of their kind.                                                  *)

\* Mutant: the block goes back to the heap before it is unregistered.
cxplat_free_released_first(t) ==
    /\ call[t] = Idle
    /\ \E a \in Owned(t) \ InCall :
          /\ heap' = [heap EXCEPT ![a] = NoBlock]
          /\ Goto(t, [pc |-> "swap", ptr |-> a, new |-> {}])
    /\ UNCHANGED <<faultVars, _allocations, moved>>

cxplat_free(t) ==
    /\ call[t] = Idle
    /\ \E a \in Owned(t) \ InCall :
          /\ unregister_allocation(a)
          /\ Goto(t, [pc |-> "release", ptr |-> a])
    /\ UNCHANGED <<faultVars, heap, moved>>

ReleaseBlock(t) ==
    /\ call[t].pc = "release"
    /\ heap' = [heap EXCEPT ![call[t].ptr] = NoBlock]
    /\ ReturnToCaller(t)
    /\ UNCHANGED <<faultVars, _allocations, moved>>

-----------------------------------------------------------------------------
Crash ==
    /\ FaultCrash
    /\ heap' = [a \in Addresses |-> NoBlock]
    /\ _allocations' = {}
    /\ call' = [t \in Threads |-> Idle]
    /\ moved' = {}

FaultControl ==
    /\ \/ cxplat_fault_injection_initialize
       \/ cxplat_fault_injection_uninitialize
       \/ cxplat_fault_injection_reset
       \/ \E m \in Images : cxplat_fault_injection_add_module(m)
       \/ \E m \in Images : cxplat_fault_injection_remove_module(m)
       \/ \E t \in Threads : is_new_stack(t)
       \/ \E t \in Threads : log_stack_trace(t)
    /\ UNCHANGED memVars

MemoryNext ==
    \/ FaultControl
    \/ \E t \in Threads :
          \/ Faulted(t)
          \/ cxplat_allocate(t) \/ AllocateBlock(t) \/ Register(t)
          \/ cxplat_reallocate(t) \/ ReallocateBlock(t) \/ Swap(t)
          \/ cxplat_free(t) \/ ReleaseBlock(t)
    \/ dump_leaks
    \/ Crash

MemorySpec == MemoryInit /\ [][MemoryNext]_memoryVars

-----------------------------------------------------------------------------
\* What the leak detector would report is what the callers hold: a pointer no
\* moving or failing reallocation has touched is registered exactly while its
\* block is in use and no call on it is under way, however threads interleave
\* and however soon the heap reuses an address.
DetectorExact ==
    \A a \in Addresses \ (moved \cup InCall) : a \in _allocations <=> a \in Live

=============================================================================
