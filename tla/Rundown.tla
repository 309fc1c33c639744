------------------------------ MODULE Rundown ------------------------------
(***************************************************************************)
(* The rundown reference table of cxplat for user mode                     *)
(* (src/cxplat/src/cxplat_winuser/rundown_winuser.cpp).                    *)
(*                                                                         *)
(* One mutex guards the table, and one condition variable serves the waits *)
(* for all its entries.  Every operator below is the critical section of   *)
(* one method, for the modules that extend this one to combine with what   *)
(* their threads do.                                                       *)
(***************************************************************************)
EXTENDS Integers

CONSTANTS
  Refs,     \* addresses of cxplat_rundown_reference_t structures
  Waiters,  \* threads that call wait_for_rundown_ref
  NoEntry,  \* the table has no entry for an address
  NoRef     \* the thread is not in wait_for_rundown_ref

Entry == [rundown : BOOLEAN, ref_count : Nat]

ASSUME RundownAssumption == NoRef \notin Refs /\ NoEntry \notin Entry

VARIABLES
  table,       \* _rundown_ref_counts: NoEntry or the pair of rundown and ref_count
  waiting_for, \* the entry a thread in wait_for_rundown_ref waits for
  awake        \* waiting threads that the condition variable has woken

rundownVars == <<table, waiting_for, awake>>

RundownTypeOK ==
  /\ table \in [Refs -> Entry \cup {NoEntry}]
  /\ waiting_for \in [Waiters -> Refs \cup {NoRef}]
  /\ awake \subseteq Waiters

RundownInit ==
  /\ table = [r \in Refs |-> NoEntry]
  /\ waiting_for = [w \in Waiters |-> NoRef]
  /\ awake = {}

Initialized(r) == table[r] # NoEntry

\* initialize_rundown_ref: an entry that exists is erased first.
InitializeRundownRef(r) ==
  /\ table' = [table EXCEPT ![r] = [rundown |-> FALSE, ref_count |-> 0]]
  /\ UNCHANGED <<waiting_for, awake>>

\* reinitialize_rundown_ref; it throws unless the entry is run down.
ReinitializeRundownRef(r) ==
  /\ Initialized(r) /\ table[r].rundown /\ table[r].ref_count = 0
  /\ table' = [table EXCEPT ![r].rundown = FALSE]
  /\ UNCHANGED <<waiting_for, awake>>

\* Mutant of AcquireRundownRef: it does not look at rundown.
AcquireRundownRefAnyway(r) ==
  /\ Initialized(r)
  /\ table' = [table EXCEPT ![r].ref_count = @ + 1]
  /\ UNCHANGED <<waiting_for, awake>>

\* acquire_rundown_ref returns true.
AcquireRundownRef(r) ==
  /\ Initialized(r) /\ ~table[r].rundown
  /\ table' = [table EXCEPT ![r].ref_count = @ + 1]
  /\ UNCHANGED <<waiting_for, awake>>

\* acquire_rundown_ref returns false.
AcquireRefused(r) ==
  /\ Initialized(r) /\ table[r].rundown
  /\ UNCHANGED rundownVars

\* Mutant of ReleaseRundownRef: the notification reaches one waiter only.
ReleaseRundownRefNotifiesOne(r) ==
  /\ Initialized(r) /\ table[r].ref_count # 0
  /\ table' = [table EXCEPT ![r].ref_count = @ - 1]
  /\ LET blocked == {w \in Waiters : waiting_for[w] # NoRef} IN
       IF table[r].ref_count = 1 /\ blocked # {}
       THEN \E w \in blocked : awake' = awake \cup {w}
       ELSE UNCHANGED awake
  /\ UNCHANGED waiting_for

\* release_rundown_ref: notify_all when the count reaches zero.
ReleaseRundownRef(r) ==
  /\ Initialized(r) /\ table[r].ref_count # 0
  /\ table' = [table EXCEPT ![r].ref_count = @ - 1]
  /\ awake' = IF table[r].ref_count = 1
              THEN awake \cup {w \in Waiters : waiting_for[w] # NoRef}
              ELSE awake
  /\ UNCHANGED waiting_for

\* release_rundown_ref throws: no entry, or nothing to release.
ReleaseThrows(r) ==
  /\ Initialized(r) => table[r].ref_count = 0
  /\ UNCHANGED rundownVars

\* wait_for_rundown_ref finds the count zero and returns without waiting.
WaitNotNeeded(w, r) ==
  /\ waiting_for[w] = NoRef
  /\ Initialized(r) /\ table[r].ref_count = 0
  /\ table' = [table EXCEPT ![r].rundown = TRUE]
  /\ UNCHANGED <<waiting_for, awake>>

\* wait_for_rundown_ref starts the rundown and blocks.
WaitBlocks(w, r) ==
  /\ waiting_for[w] = NoRef
  /\ Initialized(r) /\ table[r].ref_count # 0
  /\ table' = [table EXCEPT ![r].rundown = TRUE]
  /\ waiting_for' = [waiting_for EXCEPT ![w] = r]
  /\ UNCHANGED awake

\* A woken thread finds the predicate true and returns.
WaitReturns(w) ==
  /\ w \in awake
  /\ table[waiting_for[w]].ref_count = 0
  /\ waiting_for' = [waiting_for EXCEPT ![w] = NoRef]
  /\ awake' = awake \ {w}
  /\ UNCHANGED table

\* A woken thread finds the predicate false and blocks again.
WaitsOn(w) ==
  /\ w \in awake
  /\ table[waiting_for[w]].ref_count # 0
  /\ awake' = awake \ {w}
  /\ UNCHANGED <<table, waiting_for>>

\* A condition variable may wake a thread without any notification.
SpuriousWakeup(w) ==
  /\ waiting_for[w] # NoRef
  /\ w \notin awake
  /\ awake' = awake \cup {w}
  /\ UNCHANGED <<table, waiting_for>>

\* No wake-up is lost: a thread that sleeps waits for an entry that is still
\* referenced, so the release that takes the count to zero is still to come.
\* (Several entries share the condition variable, and a thread that was woken
\* for another entry sleeps again.)
NoLostWakeup ==
  \A w \in Waiters :
    waiting_for[w] # NoRef /\ w \notin awake => table[waiting_for[w]].ref_count # 0
=============================================================================
