---------------------------- MODULE CxplatProofs ----------------------------
(***************************************************************************)
(* The parts of cxplat that the rest builds on.                            *)
(* Memory: fault injection fails a call path once, and the leak detector   *)
(* is exact, for any number of threads, addresses, call stacks and loaded  *)
(* modules.                                                                *)
(* Rundown protection, for every finite set of users and any references    *)
(* and waiting threads: the count is exact, nobody is inside after a wait  *)
(* has returned, no wake-up is lost, and the table implements              *)
(* RundownProtection.                                                      *)
(* The work items built on one such reference.                             *)
(***************************************************************************)
EXTENDS Memory, RundownClients, WorkItem, TLAPS

-----------------------------------------------------------------------------
(* Fault injection.                                                        *)

\* A thread between its two critical sections has a complete record.
LogState == {t \in Threads : inj[t].pc = "log"}
Writing == {t \in LogState : ~inj[t].late}

\* Every path a caller saw fail is in the file and, while fault injection is on,
\* in the set; what is in either was failed since the last reset.  A thread about
\* to write a record that no reset has overtaken has its path in the set, alone.
FaultInv ==
    /\ DOMAIN inj = Threads
    /\ inj = [t \in Threads |-> inj[t]]
    /\ \A t \in LogState : inj[t] \in [pc : {"log"}, stack : attempted, late : BOOLEAN]
    /\ \A t \in Threads : inj[t].pc \in {"captured", "log"} => enabled
    /\ delivered \subseteq log
    /\ enabled => delivered \subseteq _fault_hash
    /\ log \subseteq attempted \cup {EmptyStack}
    /\ _fault_hash \subseteq attempted \cup {EmptyStack}
    /\ \A t \in Writing : inj[t].stack \in _fault_hash \ delivered
    /\ \A t, u \in Writing : inj[t].stack = inj[u].stack => t = u

\* Nothing is failed and nobody is inside at the start.
LEMMA FaultInitially == FaultInit => FaultInv
BY DEF FaultInit, FaultInv, LogState, Writing, Outside

\* The set and the log are right as long as they and the threads stay as they are,
\* whatever becomes of the list of modules under test.
LEMMA ModulesStep ==
  ASSUME FaultInv, UNCHANGED <<_fault_hash, enabled, log, inj, attempted, delivered>>
  PROVE  FaultInv'
BY DEF FaultInv, LogState, Writing

\* A thread goes on to a place where it is not about to write a record; it may
\* only form its stack while fault injection is on.
LEMMA ThreadMoves ==
  ASSUME FaultInv, NEW t \in Threads, NEW s, inj' = [inj EXCEPT ![t] = s],
         s.pc # "log", s.pc = "captured" => enabled,
         UNCHANGED <<_fault_hash, enabled, log, attempted, delivered>>
  PROVE  FaultInv'
<1>1. inj'[t] = s /\ \A u \in Threads \ {t} : inj'[u] = inj[u]
  BY DEF FaultInv
<1>2. DOMAIN inj' = Threads /\ inj' = [u \in Threads |-> inj'[u]]
  BY DEF FaultInv
<1>3. LogState' = LogState \ {t} /\ Writing' = Writing \ {t}
  BY <1>1 DEF LogState, Writing
<1> QED BY <1>1, <1>2, <1>3 DEF FaultInv, LogState, Writing

\* inject_fault answers at once when fault injection is off.
LEMMA InjectStep ==
  ASSUME FaultInv, NEW t \in Threads, NEW stack, inject_fault(t, stack)
  PROVE  FaultInv'
<1>1. CASE enabled
  <2> DEFINE s == [pc |-> "captured", stack |-> CanonicalStack(_modules_under_test, stack)]
  <2>1. inj' = [inj EXCEPT ![t] = s]
    BY <1>1 DEF inject_fault
  <2>2. s.pc = "captured"
    OBVIOUS
  <2> HIDE DEF s
  <2> QED BY <1>1, <2>1, <2>2, ThreadMoves, Zenon DEF inject_fault
<1>2. CASE ~enabled
  <2> DEFINE s == [pc |-> "answered", fault |-> FALSE]
  <2>1. inj' = [inj EXCEPT ![t] = s]
    BY <1>2 DEF inject_fault, Answer
  <2>2. s.pc = "answered"
    OBVIOUS
  <2> HIDE DEF s
  <2> QED BY <2>1, <2>2, ThreadMoves, Zenon DEF inject_fault
<1> QED BY <1>1, <1>2

\* The caller takes its answer.
LEMMA AnswerTaken ==
  ASSUME FaultInv, NEW t \in Threads, inj' = [inj EXCEPT ![t] = Outside],
         UNCHANGED <<_fault_hash, enabled, log, attempted, delivered>>
  PROVE  FaultInv'
<1>1. Outside.pc = "outside"
  BY DEF Outside
<1> QED BY <1>1, ThreadMoves, Zenon

\* The test and the insertion: a path that is put into the set was not delivered
\* and is nobody else's to write.
LEMMA NewStackStep ==
  ASSUME FaultInv, NEW t \in Threads, is_new_stack(t)
  PROVE  FaultInv'
<1> DEFINE stack == inj[t].stack
<1>1. CASE stack \in _fault_hash
  BY <1>1, ThreadMoves, Zenon DEF is_new_stack, Answer
<1>2. CASE stack \notin _fault_hash
  <2> DEFINE s == [pc |-> "log", stack |-> stack, late |-> FALSE]
  <2>1. /\ inj[t].pc = "captured" /\ inj' = [inj EXCEPT ![t] = s]
        /\ _fault_hash' = _fault_hash \cup {stack}
        /\ attempted' = attempted \cup {stack}
        /\ UNCHANGED <<enabled, log, delivered>>
    BY <1>2 DEF is_new_stack
  <2>2. enabled /\ stack \notin delivered
    BY <1>2, <2>1 DEF FaultInv
  <2>3. inj'[t] = s /\ \A u \in Threads \ {t} : inj'[u] = inj[u]
    BY <2>1 DEF FaultInv
  <2>4. DOMAIN inj' = Threads /\ inj' = [u \in Threads |-> inj'[u]]
    BY <2>1, Zenon DEF FaultInv
  <2>5. LogState' = LogState \cup {t} /\ Writing' = Writing \cup {t}
    BY <2>1, <2>3 DEF LogState, Writing
  <2>6. \A u \in Writing : inj[u].stack \in _fault_hash \ delivered
    BY DEF FaultInv
  <2>7. t \notin LogState /\ t \notin Writing
    BY <2>1 DEF LogState, Writing
  <2>8. \A u \in Writing' : inj'[u].stack \in _fault_hash' \ delivered'
    BY <2>1, <2>2, <2>3, <2>5, <2>6, <2>7 DEF Writing, LogState
  <2>9. \A u, v \in Writing' : inj'[u].stack = inj'[v].stack => u = v
    BY <1>2, <2>3, <2>5, <2>6, <2>7 DEF FaultInv, Writing, LogState
  <2>10. \A u \in LogState' : inj'[u] \in [pc : {"log"}, stack : attempted', late : BOOLEAN]
    BY <2>1, <2>3, <2>5, <2>7 DEF FaultInv, LogState
  <2> QED BY <2>1, <2>2, <2>3, <2>4, <2>8, <2>9, <2>10 DEF FaultInv
<1> QED BY <1>1, <1>2

\* The record goes into the file: its path is delivered unless a reset came first.
LEMMA LogStep ==
  ASSUME FaultInv, NEW t \in Threads, log_stack_trace(t)
  PROVE  FaultInv'
<1> DEFINE s == [pc |-> "answered", fault |-> TRUE]
           stack == inj[t].stack
<1>1. /\ inj[t].pc = "log" /\ inj' = [inj EXCEPT ![t] = s]
      /\ log' = log \cup {stack, EmptyStack}
      /\ delivered' = IF inj[t].late THEN delivered ELSE delivered \cup {stack}
      /\ UNCHANGED <<_fault_hash, enabled, attempted>>
  BY DEF log_stack_trace, Answer, RecordLines
<1>2. inj'[t] = s /\ \A u \in Threads \ {t} : inj'[u] = inj[u]
  BY <1>1 DEF FaultInv
<1>3. DOMAIN inj' = Threads /\ inj' = [u \in Threads |-> inj'[u]]
  BY <1>1, Zenon DEF FaultInv
<1>4. LogState' = LogState \ {t} /\ Writing' = Writing \ {t}
  BY <1>2 DEF LogState, Writing
<1>5. t \in LogState /\ stack \in attempted /\ enabled /\ inj[t].late \in BOOLEAN
  BY <1>1 DEF FaultInv, LogState
<1>6. ~inj[t].late => t \in Writing /\ stack \in _fault_hash
  BY <1>5 DEF FaultInv, Writing
<1>7. delivered' \subseteq log' /\ delivered' \subseteq _fault_hash'
  BY <1>1, <1>5, <1>6 DEF FaultInv
<1>8. log' \subseteq attempted' \cup {EmptyStack}
  BY <1>1, <1>5 DEF FaultInv
<1>9. \A u \in Writing' : inj'[u].stack \in _fault_hash' \ delivered'
  <2> SUFFICES ASSUME NEW u \in Writing' PROVE inj'[u].stack \in _fault_hash' \ delivered'
    OBVIOUS
  <2>1. u \in Writing /\ u # t /\ inj'[u] = inj[u]
    BY <1>2, <1>4 DEF Writing, LogState
  <2>2. inj[u].stack \in _fault_hash \ delivered
    BY <2>1 DEF FaultInv
  <2>3. ~inj[t].late => inj[u].stack # stack
    BY <2>1, <1>6 DEF FaultInv
  <2> QED BY <1>1, <2>1, <2>2, <2>3, <1>5
<1>10. \A u, v \in Writing' : inj'[u].stack = inj'[v].stack => u = v
  BY <1>2, <1>4 DEF FaultInv, Writing, LogState
<1>11. \A u \in LogState' : inj'[u] \in [pc : {"log"}, stack : attempted', late : BOOLEAN]
  BY <1>1, <1>2, <1>4 DEF FaultInv, LogState
<1> QED BY <1>1, <1>2, <1>3, <1>5, <1>7, <1>8, <1>9, <1>10, <1>11 DEF FaultInv

\* A record that is marked late keeps its stack.
LEMMA MarkedLate ==
  ASSUME NEW S, NEW r \in [pc : {"log"}, stack : S, late : BOOLEAN]
  PROVE  /\ [r EXCEPT !.late = TRUE].pc = "log"
         /\ [r EXCEPT !.late = TRUE].stack = r.stack
         /\ [r EXCEPT !.late = TRUE].late = TRUE
         /\ [r EXCEPT !.late = TRUE] \in [pc : {"log"}, stack : {r.stack}, late : BOOLEAN]
BY Zenon

\* A reset makes every record that is about to be written a late one.
LEMMA ResetStep ==
  ASSUME FaultInv, cxplat_fault_injection_reset
  PROVE  FaultInv'
<1>1. /\ enabled /\ enabled' = enabled
      /\ _fault_hash' = {} /\ log' = {} /\ delivered' = {}
      /\ inj' = [t \in Threads |-> IF inj[t].pc = "log" THEN [inj[t] EXCEPT !.late = TRUE]
                                                        ELSE inj[t]]
      /\ attempted' = {inj[t].stack : t \in LogState}
  BY DEF cxplat_fault_injection_reset, LogState
<1>2. \A t \in Threads \ LogState : inj'[t] = inj[t] /\ inj[t].pc # "log"
  BY <1>1 DEF LogState
<1>3. \A t \in LogState :
        /\ inj'[t].pc = "log" /\ inj'[t].late = TRUE
        /\ inj'[t] \in [pc : {"log"}, stack : {inj[t].stack}, late : BOOLEAN]
  <2> SUFFICES ASSUME NEW t \in LogState
               PROVE  /\ inj'[t].pc = "log" /\ inj'[t].late = TRUE
                      /\ inj'[t] \in [pc : {"log"}, stack : {inj[t].stack}, late : BOOLEAN]
    BY Zenon
  <2>1. inj'[t] = [inj[t] EXCEPT !.late = TRUE]
    BY <1>1 DEF LogState
  <2>2. inj[t] \in [pc : {"log"}, stack : attempted, late : BOOLEAN]
    BY DEF FaultInv
  <2> QED BY <2>1, <2>2, MarkedLate
<1>4. LogState' = LogState /\ Writing' = {}
  BY <1>2, <1>3 DEF LogState, Writing
<1>5. DOMAIN inj' = Threads /\ inj' = [u \in Threads |-> inj'[u]]
  BY <1>1
<1>6. \A u \in LogState' : inj'[u] \in [pc : {"log"}, stack : attempted', late : BOOLEAN]
  <2> SUFFICES ASSUME NEW u \in LogState
               PROVE  inj'[u] \in [pc : {"log"}, stack : attempted', late : BOOLEAN]
    BY <1>4
  <2>1. inj[u].stack \in attempted'
    BY <1>1
  <2> QED BY <1>3, <2>1
<1>7. \A u \in Threads : inj'[u].pc \in {"captured", "log"} => enabled'
  BY <1>1
<1> QED BY <1>1, <1>4, <1>5, <1>6, <1>7, Zenon DEF FaultInv

\* Starting reads the file; nobody is inside.
LEMMA InitializeStep ==
  ASSUME FaultInv, cxplat_fault_injection_initialize
  PROVE  FaultInv'
<1>1. LogState = {} /\ LogState' = {} /\ Writing' = {}
  BY DEF FaultInv, cxplat_fault_injection_initialize, LogState, Writing
<1> QED BY <1>1 DEF FaultInv, cxplat_fault_injection_initialize, load_fault_log

\* Stopping, and the end of the process, leave only the file.
LEMMA StopStep ==
  ASSUME FaultInv, cxplat_fault_injection_uninitialize \/ FaultCrash
  PROVE  FaultInv'
<1>1. /\ enabled' = FALSE /\ _fault_hash' = {}
      /\ inj' = [t \in Threads |-> Outside]
      /\ UNCHANGED <<log, attempted, delivered>>
  BY DEF FaultInv, cxplat_fault_injection_uninitialize, FaultCrash
<1>2. LogState' = {} /\ Writing' = {}
  BY <1>1 DEF LogState, Writing, Outside
<1> QED BY <1>1, <1>2 DEF FaultInv, Outside

\* Every step of the allocator and of fault injection keeps the invariant.
LEMMA FaultStep ==
  ASSUME FaultInv, [MemoryNext]_memoryVars
  PROVE  FaultInv'
<1>1. CASE FaultControl
  <2>1. ASSUME NEW m \in Images,
               \/ cxplat_fault_injection_add_module(m)
               \/ cxplat_fault_injection_remove_module(m)
        PROVE  FaultInv'
    BY <2>1, ModulesStep
       DEF cxplat_fault_injection_add_module, cxplat_fault_injection_remove_module
  <2> QED BY <1>1, <2>1, InitializeStep, StopStep, ResetStep, NewStackStep, LogStep
             DEF FaultControl
<1>2. ASSUME NEW t \in Threads,
             \/ Faulted(t) \/ AllocateBlock(t) \/ ReallocateBlock(t)
      PROVE  FaultInv'
  BY <1>2, AnswerTaken DEF Faulted, AllocateBlock, ReallocateBlock, NotFaulted
<1>3. ASSUME NEW t \in Threads, cxplat_allocate(t) \/ cxplat_reallocate(t)
      PROVE  FaultInv'
  BY <1>3, InjectStep, Zenon DEF cxplat_allocate, cxplat_reallocate
<1>4. ASSUME UNCHANGED faultVars
      PROVE  FaultInv'
  BY <1>4, ModulesStep DEF faultVars
<1>5. ASSUME NEW t \in Threads,
             \/ Register(t) \/ Swap(t) \/ cxplat_free(t) \/ ReleaseBlock(t)
      PROVE  FaultInv'
  BY <1>5, <1>4 DEF Register, Swap, cxplat_free, ReleaseBlock
<1>6. CASE dump_leaks \/ Crash
  BY <1>6, StopStep DEF dump_leaks, Crash
<1> QED BY <1>1, <1>2, <1>3, <1>4, <1>5, <1>6 DEF MemoryNext, memoryVars

\* No call path is failed twice between two resets, however often the process is
\* restarted or crashes.
THEOREM FaultsOncePerPath == MemorySpec => []OneFaultPerPath
<1>1. MemoryInit => FaultInv
  BY FaultInitially DEF MemoryInit
<1>2. FaultInv /\ [MemoryNext]_memoryVars => FaultInv'
  BY FaultStep
<1>3. FaultInv => OneFaultPerPath
  BY DEF FaultInv, OneFaultPerPath, Writing, LogState
<1> QED BY <1>1, <1>2, <1>3, PTL DEF MemorySpec

\* No call path is skipped that was not failed since the last reset.
THEOREM FaultsNeverSkipped == MemorySpec => []FaultsNotSkipped
<1>1. MemoryInit => FaultInv
  BY FaultInitially DEF MemoryInit
<1>2. FaultInv /\ [MemoryNext]_memoryVars => FaultInv'
  BY FaultStep
<1>3. FaultInv => FaultsNotSkipped
  BY DEF FaultInv, FaultsNotSkipped
<1> QED BY <1>1, <1>2, <1>3, PTL DEF MemorySpec

-----------------------------------------------------------------------------
(* The leak detector.                                                      *)

BlockStates == {NoBlock} \cup [owner : Threads, sizeKnown : BOOLEAN]

MovedTo == {{}} \cup {{a} : a \in Addresses}

CallStates ==
    {Idle}
    \cup [pc : {"fault"}, op : {"allocate"}]
    \cup [pc : {"fault"}, op : {"reallocate"}, ptr : Addresses]
    \cup [pc : {"register", "release"}, ptr : Addresses]
    \cup [pc : {"swap"}, ptr : Addresses, new : MovedTo]

\* A call on a block of its caller, which is not yet or no longer another's.
OnBlock(c) == c.pc \in {"register", "release"} \/ (c.pc = "fault" /\ c.op = "reallocate")

\* The pointers a call works on.
Uses(c) == IF OnBlock(c) THEN {c.ptr}
           ELSE IF c.pc = "swap" THEN {c.ptr} \cup c.new ELSE {}

\* The block a thread's call works on is the thread's own.  Before it is
\* reallocated it is registered, before it is released it is not; the old pointer
\* of a reallocation that has left its place may be anyone's.
CallExact(t, c) ==
    /\ OnBlock(c) => c.ptr \in Owned(t)
    /\ c.pc = "fault" /\ c.op = "reallocate" => c.ptr \in moved \cup _allocations
    /\ c.pc = "release" => c.ptr \in moved \/ c.ptr \notin _allocations
    /\ c.pc = "swap" => c.new \subseteq Owned(t) /\ (c.new = {c.ptr} \/ c.ptr \in moved)

\* The invariant of the allocator: DetectorExact with what the calls in progress
\* hold.
MemInv ==
    /\ heap \in [Addresses -> BlockStates]
    /\ call \in [Threads -> CallStates]
    /\ \A t \in Threads : CallExact(t, call[t])
    /\ DetectorExact

\* The shape of a call decides whether it holds a pointer.
LEMMA CallShape ==
  ASSUME NEW c \in CallStates
  PROVE  /\ "ptr" \in DOMAIN c <=> OnBlock(c) \/ c.pc = "swap"
         /\ OnBlock(c) \/ c.pc = "swap" => c.ptr \in Addresses
         /\ c.pc = "swap" => ~OnBlock(c) /\ c.new \in MovedTo
BY DEF CallStates, OnBlock, Idle

\* The pointers in calls are the ones some thread's call uses.
LEMMA InCallUses ==
  ASSUME NEW cs \in [Threads -> CallStates], NEW a
  PROVE  a \in UNION {{cs[t].ptr} \cup (IF cs[t].pc = "swap" THEN cs[t].new ELSE {})
                         : t \in {u \in Threads : "ptr" \in DOMAIN cs[u]}}
            <=> \E t \in Threads : a \in Uses(cs[t])
<1> DEFINE P(u) == {cs[u].ptr} \cup (IF cs[u].pc = "swap" THEN cs[u].new ELSE {})
           H == {u \in Threads : "ptr" \in DOMAIN cs[u]}
<1>1. \A u \in Threads : u \in H <=> OnBlock(cs[u]) \/ cs[u].pc = "swap"
  BY CallShape
<1>2. \A u \in H : P(u) = Uses(cs[u])
  BY <1>1, CallShape DEF Uses
<1>3. \A u \in Threads \ H : Uses(cs[u]) = {}
  BY <1>1 DEF Uses
<1>4. SUFFICES a \in UNION {P(u) : u \in H} <=> \E u \in Threads : a \in Uses(cs[u])
  OBVIOUS
<1>5. H \subseteq Threads
  OBVIOUS
<1> HIDE DEF P, H
<1> QED BY <1>2, <1>3, <1>5

\* A block has one owner, and none when it is free.
LEMMA BlockShape ==
  ASSUME NEW t \in Threads
  PROVE  /\ Block(t) \in BlockStates /\ Block(t) # NoBlock /\ Block(t).owner = t
         /\ \A b \in BlockStates \ {NoBlock} : \A r \in Resized(b) :
               r \in BlockStates /\ r # NoBlock /\ r.owner = b.owner
<1>1. Block(t) \in BlockStates /\ Block(t) # NoBlock /\ Block(t).owner = t
  BY DEF Block, BlockStates, NoBlock
<1>2. ASSUME NEW b \in BlockStates \ {NoBlock}, NEW r \in Resized(b)
      PROVE  r \in BlockStates /\ r # NoBlock /\ r.owner = b.owner
  <2>1. b \in [owner : Threads, sizeKnown : BOOLEAN]
    BY DEF BlockStates
  <2>2. CASE r = b
    BY <2>2
  <2>3. CASE r = [b EXCEPT !.sizeKnown = FALSE]
    <3>1. r \in [owner : Threads, sizeKnown : BOOLEAN] /\ r.owner = b.owner
      BY <2>1, <2>3, Zenon
    <3> QED BY <3>1 DEF BlockStates, NoBlock
  <2> QED BY <2>2, <2>3 DEF Resized
<1> QED BY <1>1, <1>2

\* What a thread may do without disturbing another one's call: keep the other's
\* blocks, and register or unregister only blocks of its own or moved pointers.
LEMMA OthersKept ==
  ASSUME MemInv, NEW t \in Threads, NEW u \in Threads \ {t},
         call'[u] = call[u], Owned(u) \subseteq Owned(u)', moved \subseteq moved',
         \A a \in Owned(u) \ moved : a \in _allocations' <=> a \in _allocations
  PROVE  CallExact(u, call[u])'
<1>1. CallExact(u, call[u])
  BY DEF MemInv
<1> QED BY <1>1 DEF CallExact, OnBlock

\* One thread's call goes on to c.
LEMMA CallMoves ==
  ASSUME MemInv, NEW t \in Threads, NEW c \in CallStates, call' = [call EXCEPT ![t] = c],
         heap' \in [Addresses -> BlockStates], moved \subseteq moved',
         \A u \in Threads \ {t} : Owned(u) \subseteq Owned(u)',
         \A u \in Threads \ {t} : \A a \in Owned(u) \ moved :
            a \in _allocations' <=> a \in _allocations,
         CallExact(t, c)',
         \A a \in Addresses \ (moved' \cup Uses(c)) :
            (\A u \in Threads \ {t} : a \notin Uses(call[u]))
               => (a \in _allocations' <=> a \in Live')
  PROVE  MemInv'
<1>1. call \in [Threads -> CallStates]
  BY DEF MemInv
<1>2. call' \in [Threads -> CallStates] /\ call'[t] = c
  BY <1>1
<1>3. \A u \in Threads \ {t} : call'[u] = call[u]
  BY <1>1
<1>4. \A u \in Threads : CallExact(u, call[u])'
  <2>1. CallExact(t, call[t])'
    BY <1>2 DEF CallExact, OnBlock
  <2> QED BY <1>3, <2>1, OthersKept
<1>5. DetectorExact'
  <2> SUFFICES ASSUME NEW a \in Addresses \ (moved' \cup InCall')
               PROVE  a \in _allocations' <=> a \in Live'
    BY DEF DetectorExact
  <2>1. \A u \in Threads : a \notin Uses(call'[u])
    <3> DEFINE cs == call'
    <3>1. cs \in [Threads -> CallStates]
      BY <1>2
    <3>2. a \notin UNION {{cs[u].ptr} \cup (IF cs[u].pc = "swap" THEN cs[u].new ELSE {})
                           : u \in {v \in Threads : "ptr" \in DOMAIN cs[v]}}
      BY DEF InCall
    <3> HIDE DEF cs
    <3>3. \A u \in Threads : a \notin Uses(cs[u])
      BY <3>1, <3>2, InCallUses
    <3> QED BY <3>3 DEF cs
  <2> QED BY <1>2, <1>3, <2>1
<1> QED BY <1>2, <1>4, <1>5 DEF MemInv

\* A step that leaves the heap, the detector and the moved pointers alone, to a
\* call that uses no pointer the old one did not use.
LEMMA QuietCall ==
  ASSUME MemInv, NEW t \in Threads, NEW c \in CallStates, call' = [call EXCEPT ![t] = c],
         UNCHANGED <<heap, _allocations, moved>>, CallExact(t, c),
         \A a \in Uses(call[t]) \ Uses(c) : a \in moved \/ (a \in _allocations <=> a \in Live)
  PROVE  MemInv'
<1>1. /\ heap' \in [Addresses -> BlockStates] /\ moved \subseteq moved'
      /\ Live' = Live /\ \A u \in Threads : Owned(u)' = Owned(u)
  BY DEF MemInv, Owned, Live
<1>2. CallExact(t, c)'
  BY <1>1 DEF CallExact
<1>3. ASSUME NEW a \in Addresses \ (moved' \cup Uses(c)),
             \A u \in Threads \ {t} : a \notin Uses(call[u])
      PROVE  a \in _allocations' <=> a \in Live'
  <2>1. CASE a \in Uses(call[t])
    BY <2>1, <1>1
  <2>2. CASE a \notin Uses(call[t])
    <3>1. a \notin InCall
      BY <1>3, <2>2, InCallUses, Zenon DEF MemInv, InCall
    <3> QED BY <3>1, <1>1 DEF MemInv, DetectorExact
  <2> QED BY <2>1, <2>2
<1> QED BY <1>1, <1>2, <1>3, CallMoves, Zenon

\* What thread t's call guarantees.
LEMMA CallFacts ==
  ASSUME MemInv, NEW t \in Threads
  PROVE  call[t] \in CallStates /\ CallExact(t, call[t])
BY DEF MemInv

\* The caller is told NULL: the block it asked to reallocate is still registered.
LEMMA FaultedStep ==
  ASSUME MemInv, NEW t \in Threads, Faulted(t)
  PROVE  MemInv'
<1>1. Idle \in CallStates /\ Uses(Idle) = {} /\ CallExact(t, Idle)
  BY DEF CallStates, Uses, OnBlock, CallExact, Idle
<1>2. \A a \in Uses(call[t]) : a \in moved \/ (a \in _allocations /\ a \in Live)
  BY CallFacts DEF Faulted, CallExact, Uses, OnBlock, Owned
<1> QED BY <1>1, <1>2, QuietCall, Zenon DEF Faulted, ReturnToCaller

\* An allocation begins with no pointer.
LEMMA AllocateStep ==
  ASSUME MemInv, NEW t \in Threads, cxplat_allocate(t)
  PROVE  MemInv'
<1> DEFINE c == [pc |-> "fault", op |-> "allocate"]
<1>1. c \in CallStates /\ CallExact(t, c)
  BY DEF CallStates, OnBlock, CallExact
<1>2. Uses(call[t]) = {}
  BY DEF cxplat_allocate, Uses, OnBlock, Idle
<1>3. call' = [call EXCEPT ![t] = c] /\ UNCHANGED <<heap, _allocations, moved>>
  BY DEF cxplat_allocate, Goto
<1> HIDE DEF c
<1> QED BY <1>1, <1>2, <1>3, QuietCall, Zenon

\* A reallocation begins with a block of the caller that no call uses: it is
\* registered.
LEMMA ReallocateStep ==
  ASSUME MemInv, NEW t \in Threads, cxplat_reallocate(t)
  PROVE  MemInv'
<1>1. PICK a \in Owned(t) \ InCall :
        call' = [call EXCEPT ![t] = [pc |-> "fault", op |-> "reallocate", ptr |-> a]]
  BY Zenon DEF cxplat_reallocate, Goto
<1> DEFINE c == [pc |-> "fault", op |-> "reallocate", ptr |-> a]
<1>2. a \in Addresses /\ a \in Live /\ a \in moved \cup _allocations
  BY DEF Owned, Live, MemInv, DetectorExact
<1>3. c \in CallStates /\ CallExact(t, c)
  BY <1>2 DEF CallStates, OnBlock, CallExact
<1>4. Uses(call[t]) = {}
  BY DEF cxplat_reallocate, Uses, OnBlock, Idle
<1>5. call' = [call EXCEPT ![t] = c] /\ UNCHANGED <<heap, _allocations, moved>>
  BY <1>1 DEF cxplat_reallocate
<1> HIDE DEF c
<1> QED BY <1>3, <1>4, <1>5, QuietCall, Zenon

\* The heap returns a fresh block, which no call and no caller has, or NULL.
LEMMA AllocateBlockStep ==
  ASSUME MemInv, NEW t \in Threads, AllocateBlock(t)
  PROVE  MemInv'
<1>1. call[t].pc = "fault" /\ call[t].op = "allocate" /\ Uses(call[t]) = {}
  BY DEF AllocateBlock, NotFaulted, Uses, OnBlock
<1>2. CASE ReturnToCaller(t) /\ UNCHANGED heap
  <2>1. Idle \in CallStates /\ CallExact(t, Idle)
    BY DEF CallStates, OnBlock, CallExact, Idle
  <2> QED BY <1>1, <1>2, <2>1, QuietCall, Zenon DEF AllocateBlock, ReturnToCaller
<1>3. ASSUME NEW a \in Addresses \ Live, heap' = [heap EXCEPT ![a] = Block(t)],
             Goto(t, [pc |-> "register", ptr |-> a])
      PROVE  MemInv'
  <2> DEFINE c == [pc |-> "register", ptr |-> a]
  <2>1. c \in CallStates /\ Uses(c) = {a}
    BY DEF CallStates, Uses, OnBlock
  <2>2. UNCHANGED <<_allocations, moved>> /\ call' = [call EXCEPT ![t] = c]
    BY <1>3 DEF AllocateBlock, Goto
  <2>3. heap \in [Addresses -> BlockStates]
    BY DEF MemInv
  <2>4. heap' \in [Addresses -> BlockStates]
    BY <1>3, <2>3, BlockShape
  <2>5. a \in Owned(t)' /\ \A b \in Addresses \ {a} : heap'[b] = heap[b]
    BY <1>3, <2>3, BlockShape DEF Owned, Live
  <2>6. \A u \in Threads \ {t} : Owned(u) \subseteq Owned(u)'
    BY <2>5 DEF Owned, Live
  <2>7. CallExact(t, c)'
    BY <2>5 DEF CallExact, OnBlock
  <2>8. ASSUME NEW b \in Addresses \ (moved' \cup Uses(c)),
               \A u \in Threads \ {t} : b \notin Uses(call[u])
        PROVE  b \in _allocations' <=> b \in Live'
    <3>1. b \notin InCall
      BY <1>1, <2>8, InCallUses DEF MemInv, InCall
    <3>2. b \in Live' <=> b \in Live
      BY <2>1, <2>5 DEF Live
    <3> QED BY <2>2, <3>1, <3>2 DEF MemInv, DetectorExact
  <2> HIDE DEF c
  <2> QED BY <2>1, <2>2, <2>4, <2>6, <2>7, <2>8, CallMoves, Zenon
<1> QED BY <1>2, <1>3, Zenon DEF AllocateBlock

\* The last step of an allocation or a reallocation registers the caller's block.
LEMMA RegisterStep ==
  ASSUME MemInv, NEW t \in Threads, Register(t)
  PROVE  MemInv'
<1> DEFINE p == call[t].ptr
<1>1. p \in Owned(t) /\ Uses(call[t]) = {p}
  BY CallFacts DEF Register, CallExact, Uses, OnBlock
<1>2. /\ _allocations' = _allocations \cup {p} /\ call' = [call EXCEPT ![t] = Idle]
      /\ UNCHANGED <<heap, moved>>
  BY DEF Register, register_allocation, ReturnToCaller
<1>3. Idle \in CallStates /\ Uses(Idle) = {} /\ CallExact(t, Idle)'
  BY DEF CallStates, Uses, OnBlock, CallExact, Idle
<1>4. /\ heap' \in [Addresses -> BlockStates] /\ moved \subseteq moved'
      /\ Live' = Live /\ \A u \in Threads : Owned(u)' = Owned(u)
  BY <1>2 DEF MemInv, Owned, Live
<1>5. \A u \in Threads \ {t} : p \notin Owned(u)
  BY <1>1 DEF Owned
<1>6. ASSUME NEW b \in Addresses \ (moved' \cup Uses(Idle)),
             \A u \in Threads \ {t} : b \notin Uses(call[u])
      PROVE  b \in _allocations' <=> b \in Live'
  <2>1. CASE b = p
    BY <1>1, <1>2, <1>4, <2>1 DEF Owned
  <2>2. CASE b # p
    <3>1. b \notin InCall
      BY <1>1, <1>6, <2>2, InCallUses DEF MemInv, InCall
    <3> QED BY <1>2, <1>4, <2>2, <3>1 DEF MemInv, DetectorExact
  <2> QED BY <2>1, <2>2
<1> HIDE DEF p
<1> QED BY <1>2, <1>3, <1>4, <1>5, <1>6, CallMoves, Zenon

\* A block that is freed is unregistered first, by its owner.
LEMMA FreeStep ==
  ASSUME MemInv, NEW t \in Threads, cxplat_free(t)
  PROVE  MemInv'
<1>1. PICK a \in Owned(t) \ InCall :
        /\ _allocations' = _allocations \ {a}
        /\ call' = [call EXCEPT ![t] = [pc |-> "release", ptr |-> a]]
  BY Zenon DEF cxplat_free, unregister_allocation, Goto
<1> DEFINE c == [pc |-> "release", ptr |-> a]
<1>2. a \in Addresses /\ UNCHANGED <<heap, moved>> /\ Uses(call[t]) = {}
  BY DEF Owned, Live, cxplat_free, Uses, OnBlock, Idle
<1>3. /\ heap' \in [Addresses -> BlockStates] /\ moved \subseteq moved'
      /\ Live' = Live /\ \A u \in Threads : Owned(u)' = Owned(u)
  BY <1>2 DEF MemInv, Owned, Live
<1>4. c \in CallStates /\ Uses(c) = {a} /\ CallExact(t, c)'
  BY <1>1, <1>2, <1>3, Zenon DEF CallStates, Uses, OnBlock, CallExact
<1>5. \A u \in Threads \ {t} : a \notin Owned(u)
  BY DEF Owned
<1>6. ASSUME NEW b \in Addresses \ (moved' \cup Uses(c)),
             \A u \in Threads \ {t} : b \notin Uses(call[u])
      PROVE  b \in _allocations' <=> b \in Live'
  <2>1. b \notin InCall
    BY <1>2, <1>6, InCallUses DEF MemInv, InCall
  <2> QED BY <1>1, <1>2, <1>3, <1>4, <2>1 DEF MemInv, DetectorExact
<1>7. call' = [call EXCEPT ![t] = c]
  BY <1>1
<1>8. \A u \in Threads \ {t} : \A b \in Owned(u) \ moved :
        b \in _allocations' <=> b \in _allocations
  BY <1>1, <1>5
<1> HIDE DEF c
<1> QED BY <1>3, <1>4, <1>6, <1>7, <1>8, CallMoves, Zenon

\* Then its block goes back to the heap.
LEMMA ReleaseStep ==
  ASSUME MemInv, NEW t \in Threads, ReleaseBlock(t)
  PROVE  MemInv'
<1> DEFINE p == call[t].ptr
<1>1. /\ p \in Owned(t) /\ p \in Addresses /\ Uses(call[t]) = {p}
      /\ p \in moved \/ p \notin _allocations
  BY CallFacts DEF ReleaseBlock, CallExact, Uses, OnBlock, Owned, Live
<1>2. /\ heap' = [heap EXCEPT ![p] = NoBlock] /\ call' = [call EXCEPT ![t] = Idle]
      /\ UNCHANGED <<_allocations, moved>>
  BY DEF ReleaseBlock, ReturnToCaller
<1>3. Idle \in CallStates /\ Uses(Idle) = {} /\ CallExact(t, Idle)'
  BY DEF CallStates, Uses, OnBlock, CallExact, Idle
<1>4. heap \in [Addresses -> BlockStates] /\ NoBlock \in BlockStates
  BY DEF MemInv, BlockStates
<1> HIDE DEF p
<1>5. /\ heap' \in [Addresses -> BlockStates]
      /\ heap'[p] = NoBlock /\ \A b \in Addresses \ {p} : heap'[b] = heap[b]
  BY <1>1, <1>2, <1>4
<1>6. \A u \in Threads \ {t} : Owned(u) \subseteq Owned(u)'
  BY <1>1, <1>5 DEF Owned, Live
<1>7. ASSUME NEW b \in Addresses \ (moved' \cup Uses(Idle)),
             \A u \in Threads \ {t} : b \notin Uses(call[u])
      PROVE  b \in _allocations' <=> b \in Live'
  <2>1. CASE b = p
    BY <1>1, <1>2, <1>5, <1>7, <2>1 DEF Live
  <2>2. CASE b # p
    <3>1. b \notin InCall
      BY <1>1, <1>7, <2>2, InCallUses DEF MemInv, InCall
    <3>2. b \in Live' <=> b \in Live
      BY <1>5, <2>2 DEF Live
    <3> QED BY <1>2, <1>7, <3>1, <3>2 DEF MemInv, DetectorExact
  <2> QED BY <2>1, <2>2
<1> QED BY <1>2, <1>3, <1>5, <1>6, <1>7, CallMoves, Zenon

\* The heap keeps the block in its place, moves it to a fresh one, or refuses.
LEMMA ReallocateBlockStep ==
  ASSUME MemInv, NEW t \in Threads, ReallocateBlock(t)
  PROVE  MemInv'
<1>0. PICK old : old = call[t].ptr
  OBVIOUS
<1>1. old \in Owned(t) /\ Uses(call[t]) = {old}
  BY <1>0, CallFacts, Zenon DEF ReallocateBlock, NotFaulted, CallExact, Uses, OnBlock
<1>2. old \in Addresses /\ heap[old] # NoBlock /\ heap[old].owner = t
  BY <1>1 DEF Owned, Live
<1>3. heap \in [Addresses -> BlockStates] /\ NoBlock \in BlockStates
  BY DEF MemInv, BlockStates
<1>4. heap[old] \in BlockStates \ {NoBlock}
  BY <1>2, <1>3
<1>5. _allocations' = _allocations
  BY DEF ReallocateBlock
<1>6. \A n \in MovedTo :
        /\ [pc |-> "swap", ptr |-> old, new |-> n] \in CallStates
        /\ Uses([pc |-> "swap", ptr |-> old, new |-> n]) = {old} \cup n
  BY <1>2 DEF CallStates, Uses, OnBlock
<1>7. \/ \E b \in Resized(heap[old]) :
           /\ heap' = [heap EXCEPT ![old] = b]
           /\ call' = [call EXCEPT ![t] = [pc |-> "swap", ptr |-> old, new |-> {old}]]
           /\ moved' = moved
      \/ \E a \in Addresses \ Live, b \in Resized(heap[old]) :
           /\ heap' = [heap EXCEPT ![old] = NoBlock, ![a] = b]
           /\ call' = [call EXCEPT ![t] = [pc |-> "swap", ptr |-> old, new |-> {a}]]
           /\ moved' = moved \cup {old}
      \/ /\ call' = [call EXCEPT ![t] = [pc |-> "swap", ptr |-> old, new |-> {}]]
         /\ moved' = moved \cup {old}
         /\ heap' = heap
  BY <1>0 DEF ReallocateBlock, Goto
<1>8. ASSUME NEW n \in MovedTo,
             call' = [call EXCEPT ![t] = [pc |-> "swap", ptr |-> old, new |-> n]],
             heap' \in [Addresses -> BlockStates], moved \subseteq moved',
             \A b \in Addresses \ ({old} \cup n) : heap'[b] = heap[b],
             \A u \in Threads \ {t} : n \cap Owned(u) = {},
             n \subseteq Owned(t)', n = {old} \/ old \in moved'
      PROVE  MemInv'
  <2> DEFINE c == [pc |-> "swap", ptr |-> old, new |-> n]
  <2>1. c \in CallStates /\ Uses(c) = {old} \cup n
    BY <1>6
  <2>2. CallExact(t, c)'
    <3>1. c.pc = "swap" /\ c.ptr = old /\ c.new = n
      OBVIOUS
    <3> HIDE DEF c
    <3> QED BY <1>8, <3>1 DEF CallExact, OnBlock
  <2>3. \A u \in Threads \ {t} : old \notin Owned(u)
    BY <1>2 DEF Owned
  <2>4. \A u \in Threads \ {t} : Owned(u) \subseteq Owned(u)'
    BY <1>8, <2>3 DEF Owned, Live
  <2>5. ASSUME NEW b \in Addresses \ (moved' \cup Uses(c)),
               \A u \in Threads \ {t} : b \notin Uses(call[u])
        PROVE  b \in _allocations' <=> b \in Live'
    <3>1. b \notin {old} \cup n
      BY <2>1
    <3>2. b \notin InCall
      BY <1>1, <2>5, <3>1, InCallUses DEF MemInv, InCall
    <3>3. b \in Live' <=> b \in Live
      BY <1>8, <3>1, Zenon DEF Live
    <3> QED BY <1>5, <1>8, <3>2, <3>3 DEF MemInv, DetectorExact
  <2>6. /\ call' = [call EXCEPT ![t] = c]
        /\ heap' \in [Addresses -> BlockStates] /\ moved \subseteq moved'
    BY <1>8, Zenon
  <2> HIDE DEF c
  <2> QED BY <1>5, <2>1, <2>2, <2>4, <2>5, <2>6, CallMoves, Zenon
<1>9. ASSUME NEW b \in Resized(heap[old]), heap' = [heap EXCEPT ![old] = b],
             call' = [call EXCEPT ![t] = [pc |-> "swap", ptr |-> old, new |-> {old}]],
             moved' = moved
      PROVE  MemInv'
  <2>1. b \in BlockStates /\ b # NoBlock /\ b.owner = t
    BY <1>2, <1>4, BlockShape
  <2>2. /\ heap' \in [Addresses -> BlockStates] /\ heap'[old] = b
        /\ \A a \in Addresses \ {old} : heap'[a] = heap[a]
    BY <1>2, <1>3, <1>9, <2>1
  <2>3. old \in Owned(t)' /\ \A u \in Threads \ {t} : {old} \cap Owned(u) = {}
    BY <1>2, <2>1, <2>2 DEF Owned, Live
  <2>4. {old} \in MovedTo
    BY <1>2 DEF MovedTo
  <2> QED BY <1>8, <1>9, <2>2, <2>3, <2>4, Zenon
<1>10. ASSUME NEW a \in Addresses \ Live, NEW b \in Resized(heap[old]),
              heap' = [heap EXCEPT ![old] = NoBlock, ![a] = b],
              call' = [call EXCEPT ![t] = [pc |-> "swap", ptr |-> old, new |-> {a}]],
              moved' = moved \cup {old}
       PROVE  MemInv'
  <2>1. b \in BlockStates /\ b # NoBlock /\ b.owner = t
    BY <1>2, <1>4, BlockShape
  <2>2. a # old
    BY <1>2 DEF Live
  <2>3. /\ heap' \in [Addresses -> BlockStates] /\ heap'[a] = b
        /\ \A d \in Addresses \ {old, a} : heap'[d] = heap[d]
    BY <1>2, <1>3, <1>10, <2>1, <2>2
  <2>4. a \in Owned(t)' /\ \A u \in Threads \ {t} : {a} \cap Owned(u) = {}
    BY <2>1, <2>3 DEF Owned, Live
  <2>5. /\ {a} \in MovedTo /\ old \in moved' /\ moved \subseteq moved'
        /\ call' = [call EXCEPT ![t] = [pc |-> "swap", ptr |-> old, new |-> {a}]]
        /\ \A d \in Addresses \ ({old} \cup {a}) : heap'[d] = heap[d]
        /\ {a} \subseteq Owned(t)'
    BY <1>10, <2>3, <2>4 DEF MovedTo
  <2> QED BY <1>8, <2>3, <2>4, <2>5, Zenon
<1>11. ASSUME call' = [call EXCEPT ![t] = [pc |-> "swap", ptr |-> old, new |-> {}]],
              moved' = moved \cup {old}, heap' = heap
       PROVE  MemInv'
  <2>1. {} \in MovedTo /\ old \in moved' /\ moved \subseteq moved'
    BY <1>11 DEF MovedTo
  <2> QED BY <1>3, <1>8, <1>11, <2>1, Zenon
<1> QED BY <1>7, <1>9, <1>10, <1>11

\* The old pointer is unregistered: it is the block's, or one that has moved.
LEMMA SwapStep ==
  ASSUME MemInv, NEW t \in Threads, Swap(t)
  PROVE  MemInv'
<1> DEFINE p == call[t].ptr
           n == call[t].new
<1>1. /\ Uses(call[t]) = {p} \cup n /\ n \subseteq Owned(t) /\ n \in MovedTo
      /\ n = {p} \/ p \in moved
  BY CallFacts, CallShape, Zenon DEF Swap, CallExact, Uses, OnBlock
<1>2. _allocations' = _allocations \ {p} /\ UNCHANGED <<heap, moved>>
  BY DEF Swap, unregister_allocation
<1>3. \/ \E a \in n : call' = [call EXCEPT ![t] = [pc |-> "register", ptr |-> a]]
      \/ n = {} /\ call' = [call EXCEPT ![t] = Idle]
  BY DEF Swap, Goto, ReturnToCaller
<1> HIDE DEF p, n
<1>4. /\ heap' \in [Addresses -> BlockStates] /\ moved \subseteq moved'
      /\ Live' = Live /\ \A u \in Threads : Owned(u)' = Owned(u)
  BY <1>2 DEF MemInv, Owned, Live
<1>5. \A u \in Threads \ {t} : \A a \in Owned(u) \ moved :
        a \in _allocations' <=> a \in _allocations
  BY <1>1, <1>2 DEF Owned
<1>6. ASSUME NEW c \in CallStates, call' = [call EXCEPT ![t] = c], CallExact(t, c)',
             n \subseteq Uses(c)
      PROVE  MemInv'
  <2>1. ASSUME NEW b \in Addresses \ (moved' \cup Uses(c)),
               \A u \in Threads \ {t} : b \notin Uses(call[u])
        PROVE  b \in _allocations' <=> b \in Live'
    <3>1. b \notin Uses(call[t])
      BY <1>1, <1>2, <1>6
    <3>2. b \notin InCall
      BY <2>1, <3>1, InCallUses DEF MemInv, InCall
    <3>3. b # p
      BY <1>1, <3>1
    <3> QED BY <1>2, <1>4, <3>2, <3>3 DEF MemInv, DetectorExact
  <2> QED BY <1>4, <1>5, <1>6, <2>1, CallMoves, Zenon
<1>7. ASSUME NEW a \in n, call' = [call EXCEPT ![t] = [pc |-> "register", ptr |-> a]]
      PROVE  MemInv'
  <2> DEFINE c == [pc |-> "register", ptr |-> a]
  <2>1. c \in CallStates /\ Uses(c) = {a} /\ CallExact(t, c)'
    BY <1>1, <1>4, Zenon DEF CallStates, Uses, OnBlock, CallExact, MovedTo
  <2>2. n = {a}
    BY <1>1 DEF MovedTo
  <2>3. call' = [call EXCEPT ![t] = c]
    BY <1>7
  <2> HIDE DEF c
  <2> QED BY <1>6, <2>1, <2>2, <2>3, Zenon
<1>8. ASSUME n = {}, call' = [call EXCEPT ![t] = Idle]
      PROVE  MemInv'
  <2>1. Idle \in CallStates /\ CallExact(t, Idle)'
    BY Zenon DEF CallStates, OnBlock, CallExact, Idle
  <2> QED BY <1>6, <1>8, <2>1, Zenon
<1> QED BY <1>3, <1>7, <1>8

\* The process starts, or has ended: no block, no call, nothing registered.
LEMMA MemoryEmpty ==
  ASSUME heap = [a \in Addresses |-> NoBlock], _allocations = {},
         call = [t \in Threads |-> Idle]
  PROVE  MemInv
<1>1. heap \in [Addresses -> BlockStates] /\ call \in [Threads -> CallStates]
  BY DEF BlockStates, CallStates
<1>2. \A t \in Threads : CallExact(t, call[t])
  BY DEF CallExact, OnBlock, Idle
<1> QED BY <1>1, <1>2 DEF MemInv, DetectorExact, Live

\* Every step of the allocator and of fault injection keeps the invariant.
LEMMA MemStep ==
  ASSUME MemInv, [MemoryNext]_memoryVars
  PROVE  MemInv'
<1>1. CASE UNCHANGED memVars
  <2>1. heap' = heap /\ _allocations' = _allocations /\ call' = call /\ moved' = moved
    BY Zenon, <1>1 DEF memVars
  <2>2. Live' = Live /\ InCall' = InCall /\ \A t \in Threads : Owned(t)' = Owned(t)
    BY Zenon, <2>1 DEF Live, InCall, Owned
  <2>3. \A t \in Threads : CallExact(t, call[t])'
    BY Zenon, <2>1, <2>2 DEF MemInv, CallExact
  <2>4. DetectorExact'
    BY Zenon, <2>1, <2>2 DEF MemInv, DetectorExact
  <2> QED BY Zenon, <2>1, <2>3, <2>4 DEF MemInv
<1>2. CASE FaultControl
  BY <1>1, <1>2 DEF FaultControl
<1>3. CASE dump_leaks \/ Crash
  <2>1. /\ heap' = [a \in Addresses |-> NoBlock] /\ _allocations' = {}
        /\ call' = [t \in Threads |-> Idle]
    BY <1>3 DEF dump_leaks, Crash, MemInv
  <2>2. heap' \in [Addresses -> BlockStates] /\ call' \in [Threads -> CallStates]
    BY <2>1 DEF BlockStates, CallStates
  <2>3. \A t \in Threads : CallExact(t, call[t])'
    BY <2>1 DEF CallExact, OnBlock, Idle
  <2> QED BY <2>1, <2>2, <2>3 DEF MemInv, DetectorExact, Live
<1>4. ASSUME NEW t \in Threads,
             \/ Faulted(t)
             \/ cxplat_allocate(t) \/ AllocateBlock(t) \/ Register(t)
             \/ cxplat_reallocate(t) \/ ReallocateBlock(t) \/ Swap(t)
             \/ cxplat_free(t) \/ ReleaseBlock(t)
      PROVE  MemInv'
  BY <1>4, FaultedStep, AllocateStep, AllocateBlockStep, RegisterStep, ReallocateStep,
     ReallocateBlockStep, SwapStep, FreeStep, ReleaseStep
<1> QED BY <1>1, <1>2, <1>3, <1>4 DEF MemoryNext, memoryVars

\* The leak detector's report is exact at every moment, for any number of threads
\* and addresses, apart from pointers a call is working on and those a moving or
\* failing reallocation has touched.
THEOREM DetectorAlwaysExact == MemorySpec => []DetectorExact
<1>1. MemoryInit => MemInv
  BY MemoryEmpty DEF MemoryInit
<1>2. MemInv /\ [MemoryNext]_memoryVars => MemInv'
  BY MemStep
<1>3. MemInv => DetectorExact
  BY DEF MemInv
<1> QED BY <1>1, <1>2, <1>3, PTL DEF MemorySpec

-----------------------------------------------------------------------------
(* Rundown protection.                                                     *)

INSTANCE FiniteSetTheorems

\* The sets of users inside are finite, and their cardinality is a count of
\* the kind acquire_rundown_ref and release_rundown_ref maintain.
LEMMA HoldersCount ==
  ASSUME TypeOK, NEW r \in Refs
  PROVE  /\ IsFiniteSet(holders[r])
         /\ Cardinality(holders[r]) \in Nat
         /\ Cardinality(holders[r]) = 0 <=> holders[r] = {}
         /\ \A u \in Users : u \notin holders[r] =>
              Cardinality(holders[r] \cup {u}) = Cardinality(holders[r]) + 1
         /\ \A u \in holders[r] :
              Cardinality(holders[r] \ {u}) = Cardinality(holders[r]) - 1
<1>1. IsFiniteSet(holders[r])
  BY Zenon, UsersAssumption, FS_Subset DEF TypeOK
<1> QED
  BY Zenon, <1>1, FS_CardinalityType, FS_EmptySet, FS_AddElement, FS_RemoveElement

\* An initialised entry is the pair of a flag and a count.
LEMMA EntryType ==
  ASSUME TypeOK, NEW r \in Refs, Initialized(r)
  PROVE  /\ table[r] \in Entry
         /\ table[r].rundown \in BOOLEAN
         /\ table[r].ref_count \in Nat
         /\ table[r] # NoEntry
BY Zenon, RundownAssumption DEF TypeOK, RundownTypeOK, Initialized, Entry

\* The table is empty at first: no counts, nobody inside, nobody waiting.
LEMMA InitInv == Init => IInv
BY Zenon DEF Init, RundownInit, IInv, TypeOK, RundownTypeOK, Initialized, NoLostWakeup

\* initialize_rundown_ref makes a fresh entry for a reference nobody uses.
LEMMA InitializeInv ==
  ASSUME IInv, NEW r \in Refs, Initialize(r)
  PROVE  IInv'
<1> DEFINE fresh == [rundown |-> FALSE, ref_count |-> 0]
<1>0. fresh \in Entry
  BY Zenon DEF Entry
<1>1. fresh \in Entry /\ fresh # NoEntry
  BY Zenon, <1>0, RundownAssumption
<1>2. table' = [table EXCEPT ![r] = fresh] /\ UNCHANGED <<waiting_for, awake, holders>>
  BY Zenon DEF Initialize, InitializeRundownRef
<1>3. TypeOK'
  BY Zenon, <1>1, <1>2 DEF Initialize, IInv, TypeOK, RundownTypeOK
<1>4. Cardinality(holders[r]) = 0
  BY Zenon, HoldersCount DEF Initialize, Unused, IInv
<1> QED
  BY Zenon, <1>1, <1>2, <1>3, <1>4
  DEF Initialize, Unused, IInv, TypeOK, RundownTypeOK, Initialized, NoLostWakeup

\* reinitialize_rundown_ref allows acquisitions again; nobody is inside then.
LEMMA ReinitializeInv ==
  ASSUME IInv, NEW r \in Refs, Reinitialize(r)
  PROVE  IInv'
<1> DEFINE e == [table[r] EXCEPT !.rundown = FALSE]
<1>1. table[r] \in Entry
  BY Zenon, EntryType DEF IInv, Reinitialize, ReinitializeRundownRef
<1>2. e \in Entry /\ e # NoEntry /\ e.ref_count = table[r].ref_count
  BY Zenon, <1>1, RundownAssumption DEF Entry
<1>3. table' = [table EXCEPT ![r] = e] /\ UNCHANGED <<waiting_for, awake, holders>>
  BY Zenon DEF Reinitialize, ReinitializeRundownRef
<1>4. TypeOK'
  BY Zenon, <1>2, <1>3 DEF Reinitialize, IInv, TypeOK, RundownTypeOK
<1> HIDE DEF e
<1> QED
  BY <1>2, <1>3, <1>4
  DEF Reinitialize, ReinitializeRundownRef, Unused, IInv, TypeOK, RundownTypeOK, Initialized, NoLostWakeup

\* acquire_rundown_ref counts the user it lets in, and lets in nobody once
\* somebody waits for the rundown.
LEMMA AcquireInv ==
  ASSUME IInv, NEW r \in Refs, NEW u \in Users, Acquire(u, r)
  PROVE  IInv'
<1>1. CASE AcquireRefused(r) /\ UNCHANGED holders
  BY Zenon, <1>1 DEF Acquire, AcquireRefused, rundownVars, IInv, TypeOK, RundownTypeOK, Initialized, NoLostWakeup
<1>2. CASE AcquireRundownRef(r) /\ holders' = [holders EXCEPT ![r] = @ \cup {u}]
  <2> DEFINE e == [table[r] EXCEPT !.ref_count = @ + 1]
  <2>1. table[r] \in Entry /\ table[r].ref_count \in Nat
    BY Zenon, <1>2, EntryType DEF IInv, AcquireRundownRef
  <2>2. e \in Entry /\ e # NoEntry /\ e.rundown = table[r].rundown /\ e.ref_count = table[r].ref_count + 1
    BY <2>1, RundownAssumption DEF Entry
  <2>3. table' = [table EXCEPT ![r] = e] /\ UNCHANGED <<waiting_for, awake, down>>
    BY Zenon, <1>2 DEF Acquire, AcquireRundownRef
  <2>4. TypeOK'
    BY Zenon, <1>2, <2>2, <2>3 DEF IInv, TypeOK, RundownTypeOK
  <2>5. Cardinality(holders'[r]) = table[r].ref_count + 1
    BY <1>2, HoldersCount DEF IInv, TypeOK, Acquire, AcquireRundownRef
  <2>6. ~table[r].rundown /\ Initialized(r)
    BY Zenon, <1>2 DEF AcquireRundownRef
  <2> HIDE DEF e
  <2> QED
    BY Zenon, <1>2, <2>1, <2>2, <2>3, <2>4, <2>5, <2>6
    DEF IInv, TypeOK, RundownTypeOK, Initialized, NoLostWakeup
<1> QED
  BY Zenon, <1>1, <1>2 DEF Acquire

\* release_rundown_ref counts the user out, and wakes every sleeping thread
\* when that was the last one.
LEMMA ReleaseInv ==
  ASSUME IInv, NEW r \in Refs, NEW u \in Users, Release(u, r)
  PROVE  IInv'
<1> DEFINE e == [table[r] EXCEPT !.ref_count = @ - 1]
<1>1. table[r] \in Entry /\ table[r].ref_count \in Nat \ {0}
  BY Zenon, EntryType DEF IInv, Release, ReleaseRundownRef
<1>2. e \in Entry /\ e # NoEntry /\ e.rundown = table[r].rundown /\ e.ref_count = table[r].ref_count - 1
  BY <1>1, RundownAssumption DEF Entry
<1>3. table' = [table EXCEPT ![r] = e] /\ UNCHANGED <<waiting_for, down>>
  BY Zenon DEF Release, ReleaseRundownRef
<1>4. TypeOK'
  BY <1>2, <1>3 DEF Release, ReleaseRundownRef, IInv, TypeOK, RundownTypeOK
<1>5. Cardinality(holders'[r]) = table[r].ref_count - 1
  BY HoldersCount DEF IInv, TypeOK, Release, ReleaseRundownRef
<1> HIDE DEF e
<1>6. NoLostWakeup'
  BY <1>1, <1>2, <1>3 DEF Release, ReleaseRundownRef, IInv, TypeOK, RundownTypeOK, NoLostWakeup
<1> QED
  BY <1>1, <1>2, <1>3, <1>4, <1>5, <1>6
  DEF Release, ReleaseRundownRef, IInv, TypeOK, RundownTypeOK, Initialized

\* wait_for_rundown_ref starts the rundown, and sleeps only while somebody is
\* inside.
LEMMA WaitInv ==
  ASSUME IInv, NEW r \in Refs, NEW w \in Waiters, Wait(w, r)
  PROVE  IInv'
<1> DEFINE e == [table[r] EXCEPT !.rundown = TRUE]
<1>0. Initialized(r)
  BY Zenon DEF Wait, WaitNotNeeded, WaitBlocks
<1>1. table[r] \in Entry
  BY Zenon, <1>0, EntryType DEF IInv
<1>2. e \in Entry /\ e # NoEntry /\ e.rundown /\ e.ref_count = table[r].ref_count
  BY Zenon, <1>1, RundownAssumption DEF Entry
<1>3. table' = [table EXCEPT ![r] = e] /\ UNCHANGED <<awake, holders>>
  BY Zenon DEF Wait, WaitNotNeeded, WaitBlocks
<1> HIDE DEF e
<1>4. TypeOK'
  <2>1. table' \in [Refs -> Entry \cup {NoEntry}]
    BY <1>2, <1>3 DEF IInv, TypeOK, RundownTypeOK
  <2>2. waiting_for' \in [Waiters -> Refs \cup {NoRef}]
    BY Zenon DEF Wait, WaitNotNeeded, WaitBlocks, IInv, TypeOK, RundownTypeOK
  <2>3. down' \in [Refs -> BOOLEAN]
    BY Zenon DEF Wait, IInv, TypeOK
  <2> QED
    BY Zenon, <1>3, <2>1, <2>2, <2>3 DEF IInv, TypeOK, RundownTypeOK
<1>5. CASE WaitNotNeeded(w, r) /\ down' = [down EXCEPT ![r] = TRUE]
  <2>1. holders[r] = {}
    BY Zenon, <1>0, <1>5, HoldersCount DEF IInv, WaitNotNeeded
  <2> QED
    BY <1>0, <1>2, <1>3, <1>4, <1>5, <2>1
    DEF WaitNotNeeded, IInv, TypeOK, RundownTypeOK, Initialized, NoLostWakeup
<1>6. CASE WaitBlocks(w, r) /\ UNCHANGED down
  BY <1>0, <1>2, <1>3, <1>4, <1>6, RundownAssumption
  DEF WaitBlocks, IInv, TypeOK, RundownTypeOK, Initialized, NoLostWakeup
<1> QED
  BY Zenon, <1>5, <1>6 DEF Wait

\* A thread whose wait returns has found the count zero.
LEMMA WakeInv ==
  ASSUME IInv, NEW w \in Waiters, Wake(w)
  PROVE  IInv'
<1>0. waiting_for[w] \in Refs /\ Initialized(waiting_for[w]) /\ table[waiting_for[w]].rundown
  BY Zenon DEF Wake, WaitReturns, WaitsOn, IInv, TypeOK, RundownTypeOK
<1>1. CASE WaitReturns(w) /\ down' = [down EXCEPT ![waiting_for[w]] = TRUE]
  <2>1. holders[waiting_for[w]] = {}
    BY Zenon, <1>0, <1>1, HoldersCount DEF IInv, WaitReturns
  <2> QED
    BY Zenon, <1>0, <1>1, <2>1
    DEF Wake, WaitReturns, IInv, TypeOK, RundownTypeOK, Initialized, NoLostWakeup
<1>2. CASE WaitsOn(w) /\ UNCHANGED down
  BY Zenon, <1>0, <1>2
  DEF Wake, WaitsOn, IInv, TypeOK, RundownTypeOK, Initialized, NoLostWakeup
<1> QED
  BY Zenon, <1>1, <1>2 DEF Wake

\* A spurious wake-up changes nothing that matters.
LEMMA SpuriousInv ==
  ASSUME IInv, NEW w \in Waiters, Spurious(w)
  PROVE  IInv'
BY Zenon DEF Spurious, SpuriousWakeup, IInv, TypeOK, RundownTypeOK, Initialized, NoLostWakeup

\* Every critical section of the table preserves the invariant.
LEMMA NextInv == IInv /\ [Next]_vars => IInv'
<1> SUFFICES ASSUME IInv, [Next]_vars PROVE IInv'
  OBVIOUS
<1>1. CASE UNCHANGED vars
  BY Zenon, <1>1 DEF vars, rundownVars, IInv, TypeOK, RundownTypeOK, Initialized, NoLostWakeup
<1>2. CASE Next
  BY Zenon, <1>2, InitializeInv, ReinitializeInv, AcquireInv, ReleaseInv, WaitInv, WakeInv, SpuriousInv
  DEF Next
<1> QED
  BY Zenon, <1>1, <1>2

\* The invariant holds in every reachable state.
THEOREM Invariance == Spec => []IInv
BY InitInv, NextInv, PTL DEF Spec

\* The count of an entry is always the number of users inside, so a release
\* never throws.
THEOREM CountAlwaysExact == Spec => []CountExact
<1>1. IInv => CountExact
  BY Zenon DEF IInv, CountExact
<1> QED
  BY <1>1, Invariance, PTL

\* After a wait has returned nobody is inside and nobody gets in.
THEOREM DownIsSafe == Spec => []NobodyInsideWhenDown
<1>1. IInv => NobodyInsideWhenDown
  BY Zenon DEF IInv, NobodyInsideWhenDown
<1> QED
  BY <1>1, Invariance, PTL

\* No sleeping thread has missed the release it waits for.
THEOREM WakeupsNeverLost == Spec => []NoLostWakeup
<1>1. IInv => NoLostWakeup
  BY Zenon DEF IInv
<1> QED
  BY <1>1, Invariance, PTL

\* The table implements the abstract protection: its initial state is an
\* initial state there, and each critical section a step or a stutter.
THEOREM Refinement == Spec => ImplementsProtection
<1>1. Init => Protection!Init
  BY Zenon DEF Init, RundownInit, Protection!Init, Phase, Initialized
<1>2. ASSUME IInv, [Next]_vars
      PROVE  [Protection!Next]_(Protection!vars)
  <2> USE <1>2
  <2>1. CASE UNCHANGED vars
    BY Zenon, <2>1 DEF vars, rundownVars, Protection!vars, Phase, Initialized
  <2>2. ASSUME NEW r \in Refs, Initialize(r)
        PROVE  Protection!Next
    <3> DEFINE fresh == [rundown |-> FALSE, ref_count |-> 0]
    <3>1. fresh \in Entry
      BY Zenon DEF Entry
    <3>2. fresh # NoEntry /\ ~fresh.rundown
      BY Zenon, <3>1, RundownAssumption
    <3>3. table' = [table EXCEPT ![r] = fresh]
      BY Zenon, <2>2 DEF Initialize, InitializeRundownRef
    <3> HIDE DEF fresh
    <3>4. Protection!Initialize(r)
      BY Zenon, <2>2, <3>2, <3>3
      DEF Initialize, Unused, Protection!Initialize, Phase, Initialized, IInv, TypeOK, RundownTypeOK
    <3> QED
      BY Zenon, <3>4 DEF Protection!Next
  <2>3. ASSUME NEW r \in Refs, Reinitialize(r)
        PROVE  Protection!Next
    <3>1. table'[r] # NoEntry /\ ~table'[r].rundown
      BY Zenon, <2>3, EntryType, RundownAssumption
      DEF Reinitialize, ReinitializeRundownRef, IInv, TypeOK, RundownTypeOK, Entry
    <3>2. Protection!Reinitialize(r)
      BY Zenon, <2>3, <3>1
      DEF Reinitialize, ReinitializeRundownRef, Protection!Reinitialize, Phase, Initialized, IInv,
          TypeOK, RundownTypeOK
    <3> QED
      BY Zenon, <3>2 DEF Protection!Next
  <2>4. ASSUME NEW r \in Refs, NEW u \in Users, Acquire(u, r)
        PROVE  [Protection!Next]_(Protection!vars)
    <3>1. CASE AcquireRefused(r) /\ UNCHANGED holders
      BY Zenon, <2>4, <3>1 DEF Acquire, AcquireRefused, rundownVars, Protection!vars, Phase, Initialized
    <3>2. CASE AcquireRundownRef(r) /\ holders' = [holders EXCEPT ![r] = @ \cup {u}]
      <4>1. table'[r] # NoEntry /\ table'[r].rundown = table[r].rundown
        BY <3>2, EntryType, RundownAssumption
        DEF AcquireRundownRef, IInv, TypeOK, RundownTypeOK, Entry
      <4>2. Protection!Enter(u, r)
        BY Zenon, <2>4, <3>2, <4>1
        DEF Acquire, AcquireRundownRef, Protection!Enter, Phase, Initialized, IInv, TypeOK,
            RundownTypeOK
      <4> QED
        BY Zenon, <4>2 DEF Protection!Next
    <3> QED
      BY Zenon, <2>4, <3>1, <3>2 DEF Acquire
  <2>5. ASSUME NEW r \in Refs, NEW u \in Users, Release(u, r)
        PROVE  Protection!Next
    <3>1. table'[r] # NoEntry /\ table'[r].rundown = table[r].rundown
      BY <2>5, EntryType, RundownAssumption
      DEF Release, ReleaseRundownRef, IInv, TypeOK, RundownTypeOK, Entry
    <3>2. Protection!Leave(u, r)
      BY Zenon, <2>5, <3>1
      DEF Release, ReleaseRundownRef, Protection!Leave, Phase, Initialized, IInv, TypeOK,
          RundownTypeOK
    <3> QED
      BY Zenon, <3>2 DEF Protection!Next
  <2>6. ASSUME NEW r \in Refs, NEW w \in Waiters, Wait(w, r)
        PROVE  [Protection!Next]_(Protection!vars)
    <3> DEFINE e == [table[r] EXCEPT !.rundown = TRUE]
    <3>a. table[r] \in Entry /\ table' = [table EXCEPT ![r] = e]
      BY Zenon, <2>6, EntryType DEF IInv, Wait, WaitNotNeeded, WaitBlocks
    <3>b. e \in Entry /\ e # NoEntry /\ e.rundown
      BY Zenon, <3>a, RundownAssumption DEF Entry
    <3> HIDE DEF e
    <3>1. table'[r] # NoEntry /\ table'[r].rundown
      BY Zenon, <3>a, <3>b DEF IInv, TypeOK, RundownTypeOK
    <3>2. Initialized(r) /\ UNCHANGED holders
          /\ \A s \in Refs : s # r => table'[s] = table[s]
      BY Zenon, <2>6 DEF Wait, WaitNotNeeded, WaitBlocks, IInv, TypeOK, RundownTypeOK
    <3>3. CASE WaitNotNeeded(w, r) /\ down' = [down EXCEPT ![r] = TRUE]
      <4>1. holders[r] = {}
        BY Zenon, <3>2, <3>3, HoldersCount DEF IInv, WaitNotNeeded
      <4>2. CASE Phase(r) = "down"
        <5>1. down[r] /\ down' = down
          BY Zenon, <3>2, <3>3, <4>2 DEF Phase, IInv, TypeOK
        <5>2. \A s \in Refs : Phase(s)' = Phase(s)
          BY Zenon, <3>1, <3>2, <4>2, <5>1 DEF Phase, Initialized
        <5> QED
          BY Zenon, <3>2, <5>2 DEF Protection!vars
      <4>3. CASE Phase(r) # "down"
        <5>1. Phase(r)' = "down" /\ \A s \in Refs : s # r => Phase(s)' = Phase(s)
          BY Zenon, <3>1, <3>2, <3>3 DEF Phase, Initialized, IInv, TypeOK
        <5>2. Phase(r) \in {"active", "draining"}
          BY Zenon, <3>2, <4>3 DEF Phase
        <5>3. Protection!FinishRundown(r)
          BY Zenon, <3>2, <4>1, <5>1, <5>2 DEF Protection!FinishRundown
        <5> QED
          BY Zenon, <5>3 DEF Protection!Next
      <4> QED
        BY Zenon, <4>2, <4>3
    <3>4. CASE WaitBlocks(w, r) /\ UNCHANGED down
      <4>1. ~down[r]
        BY Zenon, <3>2, <3>4, HoldersCount DEF IInv, WaitBlocks
      <4>2. CASE table[r].rundown
        <5>1. \A s \in Refs : Phase(s)' = Phase(s)
          BY Zenon, <3>1, <3>2, <3>4, <4>1, <4>2 DEF Phase, Initialized
        <5> QED
          BY Zenon, <3>2, <5>1 DEF Protection!vars
      <4>3. CASE ~table[r].rundown
        <5>1. Phase(r)' = "draining" /\ \A s \in Refs : s # r => Phase(s)' = Phase(s)
          BY Zenon, <3>1, <3>2, <3>4, <4>1 DEF Phase, Initialized
        <5>2. Phase(r) = "active"
          BY Zenon, <3>2, <4>3 DEF Phase
        <5>3. Protection!StartRundown(r)
          BY Zenon, <3>2, <5>1, <5>2 DEF Protection!StartRundown
        <5> QED
          BY Zenon, <5>3 DEF Protection!Next
      <4> QED
        BY Zenon, <4>2, <4>3
    <3> QED
      BY Zenon, <2>6, <3>3, <3>4 DEF Wait
  <2>7. ASSUME NEW w \in Waiters, Wake(w)
        PROVE  [Protection!Next]_(Protection!vars)
    <3>1. CASE WaitsOn(w) /\ UNCHANGED down
      BY Zenon, <2>7, <3>1 DEF Wake, WaitsOn, Protection!vars, Phase, Initialized
    <3>2. CASE WaitReturns(w) /\ down' = [down EXCEPT ![waiting_for[w]] = TRUE]
      <4> DEFINE r == waiting_for[w]
      <4>1. r \in Refs /\ Initialized(r) /\ table[r].rundown /\ UNCHANGED <<table, holders>>
        BY Zenon, <2>7, <3>2 DEF Wake, WaitReturns, IInv, TypeOK, RundownTypeOK
      <4>2. holders[r] = {}
        BY Zenon, <3>2, <4>1, HoldersCount DEF IInv, WaitReturns
      <4> HIDE DEF r
      <4>3. down' = [down EXCEPT ![r] = TRUE]
        BY Zenon, <3>2 DEF r
      <4>4. CASE down[r]
        BY Zenon, <4>1, <4>3, <4>4 DEF Protection!vars, Phase, Initialized, IInv, TypeOK
      <4>5. CASE ~down[r]
        <5>1. Protection!FinishRundown(r)
          BY Zenon, <4>1, <4>2, <4>3, <4>5
          DEF Protection!FinishRundown, Phase, Initialized, IInv, TypeOK
        <5> QED
          BY Zenon, <4>1, <5>1 DEF Protection!Next
      <4> QED
        BY Zenon, <4>4, <4>5
    <3> QED
      BY Zenon, <2>7, <3>1, <3>2 DEF Wake
  <2>8. ASSUME NEW w \in Waiters, Spurious(w)
        PROVE  [Protection!Next]_(Protection!vars)
    BY Zenon, <2>8 DEF Spurious, SpuriousWakeup, Protection!vars, Phase, Initialized
  <2> QED
    BY Zenon, <2>1, <2>2, <2>3, <2>4, <2>5, <2>6, <2>7, <2>8 DEF Next
<1> QED
  BY <1>1, <1>2, Invariance, PTL DEF Spec, ImplementsProtection, Protection!Spec

----------------------------------------------------------------------------
(* The work items, for every finite set of items and any number of waiting *)
(* threads, provided that nobody queues after the rundown has started or   *)
(* that the assertion against it is compiled in.                           *)

\* A refused acquisition never goes unnoticed.
SafeUse == AssertsEnabled \/ ~LateQueue

\* The pending items are counted by a natural number that queueing and calling
\* an item change by one.
LEMMA PendingCount ==
  ASSUME PoolTypeOK
  PROVE  /\ Cardinality(pending) \in Nat
         /\ Cardinality(pending) = 0 <=> pending = {}
         /\ \A i \in Items : i \notin pending => Cardinality(pending \cup {i}) = Cardinality(pending) + 1
         /\ \A i \in pending : Cardinality(pending \ {i}) = Cardinality(pending) - 1
<1>1. IsFiniteSet(pending)
  BY Zenon, WorkItemAssumption, FS_Subset DEF PoolTypeOK
<1> QED
  BY Zenon, <1>1, FS_CardinalityType, FS_EmptySet, FS_AddElement, FS_RemoveElement

\* The entry of the pool's rundown reference, once there is one.
LEMMA PoolEntry ==
  ASSUME PoolTypeOK, Initialized(PoolRef)
  PROVE  /\ table[PoolRef] \in Entry
         /\ table[PoolRef].rundown \in BOOLEAN
         /\ table[PoolRef].ref_count \in Nat
         /\ table[PoolRef] # NoEntry
BY Zenon, RundownAssumption, WorkItemAssumption DEF PoolTypeOK, RundownTypeOK, Initialized, Entry

\* At first there is no pool and nothing to run.
LEMMA PoolInitInv == PoolInit => PoolInv
BY Zenon DEF PoolInit, RundownInit, PoolInv, PoolTypeOK, RundownTypeOK, ReferencesExact, WaitCoversWorkItems,
       ItemAliveWhenCalled

\* The fresh entry of cxplat_winuser_initialize_thread_pool counts no item.
LEMMA PoolInitializeInv ==
  ASSUME PoolInv, InitializeThreadPool \/ InitializeThreadPoolFails
  PROVE  PoolInv'
<1> DEFINE fresh == [rundown |-> FALSE, ref_count |-> 0]
<1>1. fresh \in Entry
  BY Zenon DEF Entry
<1>2. fresh # NoEntry
  BY Zenon, <1>1, RundownAssumption
<1>3. table' = [table EXCEPT ![PoolRef] = fresh]
  BY Zenon DEF InitializeThreadPool, InitializeThreadPoolFails, InitializeRundownRef
<1>4. pending = {} /\ stage = "idle" /\ Cardinality(pending) = 0
  BY Zenon, PendingCount DEF InitializeThreadPool, InitializeThreadPoolFails, PoolInv
<1>5. fresh.ref_count = 0
  OBVIOUS
<1> HIDE DEF fresh
<1>6. PoolTypeOK'
  BY Zenon, <1>1, <1>3
  DEF InitializeThreadPool, InitializeThreadPoolFails, InitializeRundownRef, poolVars, PoolInv, PoolTypeOK,
      RundownTypeOK
<1>7. table'[PoolRef] = fresh
  BY Zenon, <1>3, WorkItemAssumption DEF PoolInv, PoolTypeOK, RundownTypeOK
<1>8. /\ pending' = pending /\ stage' = stage /\ item' = item /\ process' = process /\ ~waited'
      /\ \A w \in Waiters : waiting_for[w] # PoolRef
      /\ UNCHANGED <<waiting_for, awake>>
  BY Zenon DEF InitializeThreadPool, InitializeThreadPoolFails, InitializeRundownRef, poolVars
<1>9. ReferencesExact'
  <2>1. table'[PoolRef].ref_count = 0 /\ Cardinality(pending') = 0 /\ stage' = "idle"
    BY Zenon, <1>4, <1>5, <1>7, <1>8
  <2>2. process' # "exception"
    BY Zenon, <1>8 DEF PoolInv, ReferencesExact
  <2> QED BY <2>1, <2>2 DEF ReferencesExact
<1> QED
  BY Zenon, <1>2, <1>4, <1>6, <1>7, <1>8, <1>9
  DEF PoolInv, WaitCoversWorkItems, ItemAliveWhenCalled, Initialized

\* Allocating and freeing items leaves the references alone; an item is freed
\* only when the pool's thread will not read it.
LEMMA ItemInv ==
  ASSUME PoolInv, NEW i \in Items, Allocate(i) \/ Free(i)
  PROVE  PoolInv'
<1>1. /\ UNCHANGED <<table, waiting_for, awake, pool, pending, running, stage, waited, process>>
      /\ item \in [Items -> {"none", "allocated", "closed"}]
  BY Zenon DEF Allocate, Free, rundownVars, PoolInv, PoolTypeOK
<1>2. /\ item' \in [Items -> {"none", "allocated", "closed"}]
      /\ \A j \in Items : j # i => item'[j] = item[j]
  BY Zenon, <1>1 DEF Allocate, Free
<1>3. ItemAliveWhenCalled'
  <2>1. CASE Allocate(i)
    <3>1. item'[i] = "allocated"
      BY Zenon, <1>1, <2>1 DEF Allocate
    <3> QED BY Zenon, <1>1, <1>2, <3>1 DEF PoolInv, PoolTypeOK, ItemAliveWhenCalled
  <2>2. CASE Free(i)
    <3>1. i \notin pending /\ ~(running = i /\ stage = "called")
      BY Zenon, <2>2 DEF Free, PoolInv, WaitCoversWorkItems
    <3>2. \A j \in pending : j # i /\ j \in Items
      BY Zenon, <3>1 DEF PoolInv, PoolTypeOK
    <3>3. stage = "called" => running # i /\ running \in Items
      BY Zenon, <3>1 DEF PoolInv
    <3> QED BY Zenon, <1>1, <1>2, <3>2, <3>3 DEF PoolInv, ItemAliveWhenCalled
  <2> QED BY Zenon, <2>1, <2>2
<1> QED
  BY Zenon, <1>1, <1>2, <1>3
  DEF PoolInv, PoolTypeOK, RundownTypeOK, ReferencesExact, WaitCoversWorkItems, Initialized

\* Queueing acquires the reference of the new pending item.
LEMMA QueueInv ==
  ASSUME SafeUse, PoolInv, NEW i \in Items, Queue(i)
  PROVE  PoolInv'
<1>0. pool /\ Initialized(PoolRef) /\ item[i] = "allocated" /\ i \notin pending
  BY Zenon DEF Queue, MayQueue, PoolInv
<1>1. CASE AcquireRefused(PoolRef)
  <2>1. AssertsEnabled
    BY Zenon, <1>1 DEF SafeUse, Queue, MayQueue, AcquireRefused
  <2>2. process' = "assertion" /\ UNCHANGED pending
    BY Zenon, <1>0, <1>1, <2>1 DEF Queue, AcquireRefused, AcquireRundownRef
  <2> QED
    BY Zenon, <1>1, <2>2
    DEF Queue, AcquireRefused, rundownVars, PoolInv, PoolTypeOK, RundownTypeOK, ReferencesExact,
        WaitCoversWorkItems, ItemAliveWhenCalled, Initialized
<1>2. CASE AcquireRundownRef(PoolRef)
  <2> DEFINE e == [table[PoolRef] EXCEPT !.ref_count = @ + 1]
  <2>1. table[PoolRef] \in Entry /\ table[PoolRef].ref_count \in Nat
    BY Zenon, <1>0, PoolEntry DEF PoolInv
  <2>2. e \in Entry /\ e # NoEntry /\ e.rundown = table[PoolRef].rundown /\ e.ref_count = table[PoolRef].ref_count + 1
    BY <2>1, RundownAssumption DEF Entry
  <2>3. table' = [table EXCEPT ![PoolRef] = e] /\ UNCHANGED <<waiting_for, awake>>
    BY Zenon, <1>2 DEF AcquireRundownRef
  <2>4. pending' = pending \cup {i} /\ UNCHANGED process
    BY Zenon, <1>2 DEF Queue, AcquireRefused, AcquireRundownRef
  <2>5. ~table[PoolRef].rundown
    BY Zenon, <1>2 DEF AcquireRundownRef
  <2> HIDE DEF e
  <2>6. PoolTypeOK'
    BY Zenon, <2>2, <2>3, <2>4 DEF Queue, PoolInv, PoolTypeOK, RundownTypeOK
  <2>7. table'[PoolRef] = e
    BY Zenon, <2>3, WorkItemAssumption DEF PoolInv, PoolTypeOK, RundownTypeOK
  <2>8. Cardinality(pending') = Cardinality(pending) + 1 /\ Cardinality(pending) \in Nat
    BY Zenon, <1>0, <2>4, PendingCount DEF PoolInv
  <2>9. ~waited
    BY Zenon, <1>0, <2>5 DEF PoolInv
  <2>10. ReferencesExact'
    <3>1. stage' = stage /\ pool' = pool /\ process' # "exception"
      BY Zenon, <2>4 DEF Queue, PoolInv, ReferencesExact
    <3>2. table[PoolRef].ref_count = Cardinality(pending) + (IF stage = "idle" THEN 0 ELSE 1)
      BY Zenon, <1>0 DEF PoolInv, ReferencesExact
    <3>3. e.ref_count = Cardinality(pending') + (IF stage = "idle" THEN 0 ELSE 1)
      BY <2>2, <2>8, <3>2
    <3> QED BY Zenon, <2>7, <3>1, <3>3 DEF ReferencesExact
  <2> QED
    BY Zenon, <1>0, <2>2, <2>3, <2>4, <2>5, <2>6, <2>7, <2>9, <2>10
    DEF Queue, PoolInv, WaitCoversWorkItems, ItemAliveWhenCalled, Initialized
<1> QED
  BY Zenon, <1>1, <1>2 DEF Queue

\* A call takes the reference of a pending item over to the pool's thread.
LEMMA CallInv ==
  ASSUME PoolInv, NEW i \in Items, Call(i)
  PROVE  PoolInv'
<1>1. Cardinality(pending') = Cardinality(pending) - 1 /\ Cardinality(pending) \in Nat
  BY Zenon, PendingCount DEF Call, PoolInv
<1>2. ~waited /\ pool
  BY Zenon DEF Call, PoolInv, WaitCoversWorkItems
<1>3. PoolTypeOK'
  BY Zenon DEF Call, rundownVars, PoolInv, PoolTypeOK, RundownTypeOK
<1>4. ReferencesExact'
  <2>1. table' = table /\ stage = "idle" /\ stage' = "called" /\ process' # "exception"
    BY Zenon DEF Call, rundownVars, PoolInv, ReferencesExact
  <2>2. table[PoolRef].ref_count = Cardinality(pending) + 0
    BY Zenon, <1>2, <2>1 DEF PoolInv, ReferencesExact
  <2>3. table'[PoolRef].ref_count = Cardinality(pending') + 1
    BY <1>1, <2>1, <2>2
  <2>4. stage' # "idle"
    BY <2>1
  <2> QED BY Zenon, <2>1, <2>3, <2>4 DEF ReferencesExact
<1> QED
  BY Zenon, <1>2, <1>3, <1>4
  DEF Call, rundownVars, PoolInv, WaitCoversWorkItems, ItemAliveWhenCalled, Initialized

\* The routine runs with the reference held.
LEMMA RunInv ==
  ASSUME PoolInv, Run \/ RoutineReturns
  PROVE  PoolInv'
<1>1. /\ stage \in {"called", "routine"} /\ stage' \in {"routine", "release"}
      /\ UNCHANGED <<table, waiting_for, awake, pool, item, pending, running, waited, process>>
  BY Zenon DEF Run, RoutineReturns, rundownVars
<1>2. stage # "idle" /\ stage' # "idle" /\ stage' # "called"
      /\ stage' \in {"idle", "called", "routine", "release"}
  BY <1>1
<1> QED
  BY Zenon, <1>1, <1>2
  DEF PoolInv, PoolTypeOK, RundownTypeOK, ReferencesExact, WaitCoversWorkItems, ItemAliveWhenCalled,
      Initialized

\* The reference of a callback exists when it is released.
LEMMA ReturnInv ==
  ASSUME PoolInv, Return
  PROVE  PoolInv'
<1>0. pool /\ Initialized(PoolRef) /\ ~waited /\ stage = "release"
  BY Zenon DEF Return, PoolInv, WaitCoversWorkItems
<1>1. table[PoolRef] \in Entry /\ table[PoolRef].ref_count = Cardinality(pending) + 1
      /\ Cardinality(pending) \in Nat
  BY Zenon, <1>0, PoolEntry, PendingCount DEF PoolInv, ReferencesExact
<1>2. ReleaseRundownRef(PoolRef) /\ UNCHANGED process
  <2>1. table[PoolRef].ref_count # 0
    BY <1>1
  <2> QED BY Zenon, <1>0, <2>1 DEF Return, ReleaseThrows
<1> DEFINE e == [table[PoolRef] EXCEPT !.ref_count = @ - 1]
<1>3. e \in Entry /\ e # NoEntry /\ e.rundown = table[PoolRef].rundown /\ e.ref_count = Cardinality(pending)
  BY <1>1, RundownAssumption DEF Entry
<1>4. table' = [table EXCEPT ![PoolRef] = e]
  BY Zenon, <1>2 DEF ReleaseRundownRef
<1> HIDE DEF e
<1>5. PoolTypeOK'
  <2>1. table' \in [Refs -> Entry \cup {NoEntry}]
    BY Zenon, <1>3, <1>4 DEF PoolInv, PoolTypeOK, RundownTypeOK
  <2>2. awake' \subseteq Waiters /\ waiting_for' = waiting_for
    BY Zenon, <1>2 DEF ReleaseRundownRef, PoolInv, PoolTypeOK, RundownTypeOK
  <2> QED
    BY Zenon, <1>2, <2>1, <2>2 DEF Return, PoolInv, PoolTypeOK, RundownTypeOK
<1>6. table'[PoolRef] = e
  BY Zenon, <1>4, WorkItemAssumption DEF PoolInv, PoolTypeOK, RundownTypeOK
<1>7. awake' \subseteq awake \cup {w \in Waiters : waiting_for[w] # NoRef} /\ waiting_for' = waiting_for
  BY Zenon, <1>2 DEF ReleaseRundownRef
<1>8. ReferencesExact'
  <2>1. pending' = pending /\ stage' = "idle" /\ process' # "exception"
    BY Zenon, <1>2 DEF Return, PoolInv, ReferencesExact
  <2>2. table'[PoolRef].ref_count = Cardinality(pending') + (IF stage' = "idle" THEN 0 ELSE 1)
    BY <1>1, <1>3, <1>6, <2>1
  <2> QED BY Zenon, <2>1, <2>2 DEF ReferencesExact
<1> QED
  BY Zenon, <1>0, <1>2, <1>3, <1>5, <1>6, <1>7, <1>8
  DEF Return, PoolInv, WaitCoversWorkItems, ItemAliveWhenCalled, Initialized

\* A wait that returns at once has found the count zero.
LEMMA WaitForPoolInv ==
  ASSUME PoolInv, NEW w \in Waiters, WaitForPool(w)
  PROVE  PoolInv'
<1>0. pool /\ Initialized(PoolRef)
  BY Zenon DEF WaitForPool, PoolInv
<1> DEFINE e == [table[PoolRef] EXCEPT !.rundown = TRUE]
<1>1. table[PoolRef] \in Entry /\ Cardinality(pending) \in Nat
  BY Zenon, <1>0, PoolEntry, PendingCount DEF PoolInv
<1>2. e \in Entry /\ e # NoEntry /\ e.rundown /\ e.ref_count = table[PoolRef].ref_count
  BY Zenon, <1>1, RundownAssumption DEF Entry
<1>3. table' = [table EXCEPT ![PoolRef] = e] /\ UNCHANGED <<awake, poolVars, process>>
  BY Zenon DEF WaitForPool, WaitNotNeeded, WaitBlocks
<1> HIDE DEF e
<1>4. PoolTypeOK'
  <2>1. table' \in [Refs -> Entry \cup {NoEntry}]
    BY Zenon, <1>2, <1>3 DEF PoolInv, PoolTypeOK, RundownTypeOK
  <2>2. waiting_for' \in [Waiters -> Refs \cup {NoRef}]
    BY Zenon, WorkItemAssumption DEF WaitForPool, WaitNotNeeded, WaitBlocks, PoolInv, PoolTypeOK, RundownTypeOK
  <2>3. waited' \in BOOLEAN
    BY Zenon DEF WaitForPool, PoolInv, PoolTypeOK
  <2> QED
    BY Zenon, <1>3, <2>1, <2>2, <2>3 DEF poolVars, PoolInv, PoolTypeOK, RundownTypeOK
<1>5. table'[PoolRef] = e
  BY Zenon, <1>3, WorkItemAssumption DEF PoolInv, PoolTypeOK, RundownTypeOK
<1>6. CASE WaitNotNeeded(w, PoolRef) /\ waited' = TRUE
  <2>1. pending = {} /\ stage = "idle"
    BY <1>0, <1>1, <1>6, PendingCount DEF WaitNotNeeded, PoolInv, ReferencesExact
  <2> QED
    BY Zenon, <1>0, <1>2, <1>3, <1>4, <1>5, <1>6, <2>1
    DEF WaitNotNeeded, poolVars, PoolInv, ReferencesExact, WaitCoversWorkItems, ItemAliveWhenCalled,
        Initialized
<1>7. CASE WaitBlocks(w, PoolRef) /\ UNCHANGED waited
  BY <1>0, <1>2, <1>3, <1>4, <1>5, <1>7
  DEF WaitBlocks, poolVars, PoolInv, PoolTypeOK, RundownTypeOK, ReferencesExact, WaitCoversWorkItems,
      ItemAliveWhenCalled, Initialized
<1> QED
  BY Zenon, <1>6, <1>7 DEF WaitForPool

\* A wait that returns after a wake-up has found the count zero, too.
LEMMA WakeFromPoolInv ==
  ASSUME PoolInv, NEW w \in Waiters, WakeFromPool(w)
  PROVE  PoolInv'
<1>0. pool /\ waiting_for[w] = PoolRef /\ table[PoolRef].rundown /\ Cardinality(pending) \in Nat
  BY Zenon, PendingCount DEF WakeFromPool, WaitReturns, WaitsOn, PoolInv
<1>1. CASE WaitReturns(w) /\ waited' = TRUE
  <2>1. pending = {} /\ stage = "idle"
    <3>1. table[PoolRef].ref_count = 0
      BY Zenon, <1>0, <1>1 DEF WaitReturns
    <3>2. table[PoolRef].ref_count = Cardinality(pending) + (IF stage = "idle" THEN 0 ELSE 1)
      BY Zenon, <1>0 DEF PoolInv, ReferencesExact
    <3>3. Cardinality(pending) = 0 /\ stage = "idle"
      BY <1>0, <3>1, <3>2
    <3> QED BY Zenon, <3>3, PendingCount DEF PoolInv
  <2> QED
    BY Zenon, <1>0, <1>1, <2>1
    DEF WakeFromPool, WaitReturns, poolVars, PoolInv, PoolTypeOK, RundownTypeOK, ReferencesExact,
        WaitCoversWorkItems, ItemAliveWhenCalled, Initialized
<1>2. CASE WaitsOn(w) /\ UNCHANGED waited
  BY Zenon, <1>0, <1>2
  DEF WakeFromPool, WaitsOn, poolVars, PoolInv, PoolTypeOK, RundownTypeOK, ReferencesExact,
      WaitCoversWorkItems, ItemAliveWhenCalled, Initialized
<1> QED
  BY Zenon, <1>1, <1>2 DEF WakeFromPool

\* A spurious wake-up changes nothing that matters.
LEMMA SpuriousOfPoolInv ==
  ASSUME PoolInv, NEW w \in Waiters, SpuriousOfPool(w)
  PROVE  PoolInv'
BY Zenon DEF SpuriousOfPool, SpuriousWakeup, poolVars, PoolInv, PoolTypeOK, RundownTypeOK, ReferencesExact,
       WaitCoversWorkItems, ItemAliveWhenCalled, Initialized

\* The pool is closed when nothing is pending and nobody waits.
LEMMA CleanUpInv ==
  ASSUME PoolInv, CleanUpThreadPool
  PROVE  PoolInv'
BY Zenon DEF CleanUpThreadPool, rundownVars, PoolInv, PoolTypeOK, RundownTypeOK, ReferencesExact,
       WaitCoversWorkItems, ItemAliveWhenCalled, Initialized

\* Every step preserves the invariant.
LEMMA PoolNextInv == SafeUse /\ PoolInv /\ [PoolNext]_workItemVars => PoolInv'
<1> SUFFICES ASSUME SafeUse, PoolInv, [PoolNext]_workItemVars PROVE PoolInv'
  OBVIOUS
<1>1. CASE UNCHANGED workItemVars
  BY Zenon, <1>1
  DEF workItemVars, poolVars, rundownVars, PoolInv, PoolTypeOK, RundownTypeOK, ReferencesExact,
      WaitCoversWorkItems, ItemAliveWhenCalled, Initialized
<1>2. CASE PoolNext
  BY Zenon, <1>2, PoolInitializeInv, ItemInv, QueueInv, CallInv, RunInv, ReturnInv, WaitForPoolInv, WakeFromPoolInv,
     SpuriousOfPoolInv, CleanUpInv
  DEF PoolNext, WorkerStep
<1> QED
  BY Zenon, <1>1, <1>2

\* The invariant holds in every reachable state of a safe use.
THEOREM PoolInvariance == SafeUse /\ PoolSpec => []PoolInv
<1>1. SafeUse => [](SafeUse)
  <2>1. SafeUse => SafeUse'
    BY Zenon DEF SafeUse
  <2> QED
    BY <2>1, PTL DEF SafeUse
<1> QED
  BY <1>1, PoolInitInv, PoolNextInv, PTL DEF PoolSpec

\* References are exact, and the release after a routine never throws.
THEOREM ReferencesAlwaysExact == SafeUse /\ PoolSpec => []ReferencesExact
<1>1. PoolInv => ReferencesExact
  BY Zenon DEF PoolInv
<1> QED
  BY <1>1, PoolInvariance, PTL

\* After the wait for the work items no routine runs and none is queued.
THEOREM WaitIsComplete == SafeUse /\ PoolSpec => []WaitCoversWorkItems
<1>1. PoolInv => WaitCoversWorkItems
  BY Zenon DEF PoolInv
<1> QED
  BY <1>1, PoolInvariance, PTL

\* The pool's thread reads only items that are allocated.
THEOREM ItemsAliveWhenCalled == SafeUse /\ PoolSpec => []ItemAliveWhenCalled
<1>1. PoolInv => ItemAliveWhenCalled
  BY Zenon DEF PoolInv
<1> QED
  BY <1>1, PoolInvariance, PTL
=============================================================================
