--------------------------- MODULE RundownClients ---------------------------
(***************************************************************************)
(* Threads that use rundown protection as a driver does: users that enter  *)
(* and leave protected sections, threads that wait for the rundown, and an *)
(* owner that initialises a reference nobody uses and reinitialises it     *)
(* after a wait has returned.  The table then implements RundownProtection.*)
(***************************************************************************)
EXTENDS Rundown, FiniteSets

CONSTANT Users  \* a user is one protected section; a thread may be several

ASSUME UsersAssumption == IsFiniteSet(Users)

VARIABLES
  holders,  \* users that were given a reference and have not released it
  down      \* a wait has returned since the reference was last (re)initialised

vars == <<rundownVars, holders, down>>

TypeOK ==
  /\ RundownTypeOK
  /\ holders \in [Refs -> SUBSET Users]
  /\ down \in [Refs -> BOOLEAN]

Init ==
  /\ RundownInit
  /\ holders = [r \in Refs |-> {}]
  /\ down = [r \in Refs |-> FALSE]

\* The owner initialises only what nobody uses.
Unused(r) ==
  /\ holders[r] = {}
  /\ \A w \in Waiters : waiting_for[w] # r

\* cxplat_initialize_rundown_protection, ExInitializeRundownProtection and
\* ExAllocateCacheAwareRundownProtection.
Initialize(r) ==
  /\ Unused(r)
  /\ InitializeRundownRef(r)
  /\ down' = [down EXCEPT ![r] = FALSE]
  /\ UNCHANGED holders

\* cxplat_reinitialize_rundown_protection, after a wait has returned.
Reinitialize(r) ==
  /\ down[r]
  /\ Unused(r)
  /\ ReinitializeRundownRef(r)
  /\ down' = [down EXCEPT ![r] = FALSE]
  /\ UNCHANGED holders

\* cxplat_acquire_rundown_protection.
Acquire(u, r) ==
  /\ u \notin holders[r]
  /\ \/ /\ AcquireRundownRef(r)
        /\ holders' = [holders EXCEPT ![r] = @ \cup {u}]
     \/ /\ AcquireRefused(r)
        /\ UNCHANGED holders
  /\ UNCHANGED down

\* cxplat_release_rundown_protection.
Release(u, r) ==
  /\ u \in holders[r]
  /\ ReleaseRundownRef(r)
  /\ holders' = [holders EXCEPT ![r] = @ \ {u}]
  /\ UNCHANGED down

\* cxplat_wait_for_rundown_protection_release, entered by w.
Wait(w, r) ==
  /\ \/ /\ WaitNotNeeded(w, r)
        /\ down' = [down EXCEPT ![r] = TRUE]
     \/ /\ WaitBlocks(w, r)
        /\ UNCHANGED down
  /\ UNCHANGED holders

\* The wait of w wakes up.
Wake(w) ==
  /\ \/ /\ WaitReturns(w)
        /\ down' = [down EXCEPT ![waiting_for[w]] = TRUE]
     \/ /\ WaitsOn(w)
        /\ UNCHANGED down
  /\ UNCHANGED holders

Spurious(w) ==
  /\ SpuriousWakeup(w)
  /\ UNCHANGED <<holders, down>>

Next ==
  \/ \E r \in Refs :
       \/ Initialize(r) \/ Reinitialize(r)
       \/ \E u \in Users : Acquire(u, r) \/ Release(u, r)
       \/ \E w \in Waiters : Wait(w, r)
  \/ \E w \in Waiters : Wake(w) \/ Spurious(w)

Spec == Init /\ [][Next]_vars

\* Users leave the sections they entered, and threads that were woken run.
\* Nothing is assumed of spurious wake-ups.
FairSpec ==
  /\ Spec
  /\ \A u \in Users, r \in Refs : WF_vars(Release(u, r))
  /\ \A w \in Waiters : WF_vars(Wake(w))

----------------------------------------------------------------------------
(* Properties.                                                             *)

\* The inductive invariant: with the properties below, who may be inside, and
\* who may be woken, at all.
IInv ==
  /\ TypeOK
  /\ \A r \in Refs :
       /\ ~Initialized(r) => holders[r] = {} /\ ~down[r]
       /\ Initialized(r) => table[r].ref_count = Cardinality(holders[r])
       /\ down[r] => holders[r] = {} /\ table[r].rundown
  /\ \A w \in Waiters :
       /\ w \in awake => waiting_for[w] # NoRef
       /\ waiting_for[w] # NoRef =>
            Initialized(waiting_for[w]) /\ table[waiting_for[w]].rundown
  /\ NoLostWakeup

\* The reference count is the number of users inside, so that a release never
\* finds the count zero (the "already released" throw).
CountExact ==
  \A r \in Refs : Initialized(r) => table[r].ref_count = Cardinality(holders[r])

\* Once a wait has returned nobody is inside a protected section, and nobody
\* gets in, until the owner reinitialises the reference: what was protected
\* may be freed.
NobodyInsideWhenDown == \A r \in Refs : down[r] => holders[r] = {} /\ table[r].rundown

\* Every wait for a rundown returns, however many waits for however many
\* references share the condition variable.
WaitEnds ==
  \A w \in Waiters, r \in Refs : (waiting_for[w] = r) ~> (waiting_for[w] # r)

\* The phase of a reference as RundownProtection knows it.
Phase(r) ==
  IF ~Initialized(r) THEN "none"
  ELSE IF ~table[r].rundown THEN "active"
  ELSE IF down[r] THEN "down" ELSE "draining"

Protection == INSTANCE RundownProtection WITH phase <- [r \in Refs |-> Phase(r)]

\* The table, its counts and its condition variable implement the abstract
\* protection: users get in only while nobody has asked for the rundown, and a
\* wait returns only when all of them have left.
ImplementsProtection == Protection!Spec
=============================================================================
