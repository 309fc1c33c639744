------------------------- MODULE RundownProtection -------------------------
(***************************************************************************)
(* What rundown protection promises its users, without a table, counts or  *)
(* a condition variable: while a reference is active users enter and leave *)
(* sections it protects; once somebody waits for the rundown nobody enters *)
(* any more; the wait ends when everybody has left, and from then on, until*)
(* the reference is reinitialised, nobody is inside.                       *)
(***************************************************************************)
CONSTANTS Refs, Users

VARIABLES
  phase,    \* of each reference
  holders   \* the users inside a section it protects

vars == <<phase, holders>>

Init ==
  /\ phase = [r \in Refs |-> "none"]
  /\ holders = [r \in Refs |-> {}]

Initialize(r) ==
  /\ holders[r] = {}
  /\ phase' = [phase EXCEPT ![r] = "active"]
  /\ UNCHANGED holders

Enter(u, r) ==
  /\ phase[r] = "active"
  /\ holders' = [holders EXCEPT ![r] = @ \cup {u}]
  /\ UNCHANGED phase

Leave(u, r) ==
  /\ u \in holders[r]
  /\ holders' = [holders EXCEPT ![r] = @ \ {u}]
  /\ UNCHANGED phase

StartRundown(r) ==
  /\ phase[r] = "active"
  /\ phase' = [phase EXCEPT ![r] = "draining"]
  /\ UNCHANGED holders

\* Rundown may start and finish in one step when nobody is inside.
FinishRundown(r) ==
  /\ phase[r] \in {"active", "draining"}
  /\ holders[r] = {}
  /\ phase' = [phase EXCEPT ![r] = "down"]
  /\ UNCHANGED holders

Reinitialize(r) ==
  /\ phase[r] = "down"
  /\ phase' = [phase EXCEPT ![r] = "active"]
  /\ UNCHANGED holders

Next ==
  \E r \in Refs :
    \/ Initialize(r) \/ StartRundown(r) \/ FinishRundown(r) \/ Reinitialize(r)
    \/ \E u \in Users : Enter(u, r) \/ Leave(u, r)

Spec == Init /\ [][Next]_vars
=============================================================================
