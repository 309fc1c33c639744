----------------------------- MODULE NmrProofs -----------------------------
(***************************************************************************)
(* Proofs about Nmr.  The safety properties hold in every instance, of any *)
(* number of modules, by the inductive invariant IInv of NmrInvariant: the *)
(* steps of registration keep it (add, perform_bind, the attach            *)
(* callbacks), those of deregistration (deactivate, perform_unbind,        *)
(* begin_unbind, remove) and the completions of pending detaches.          *)
(***************************************************************************)
EXTENDS NmrInvariant, FiniteSetTheorems, TLAPS

-----------------------------------------------------------------------------
(* Bindings, counts and phases, and the steps of registration.             *)

\* A binding is a pair of two different modules, one of each kind.
LEMMA BindingFacts ==
  ASSUME NEW b \in Binding
  PROVE  /\ b[1] \in Modules /\ b[2] \in Modules /\ b[1] # b[2]
         /\ b = <<b[1], b[2]>>
         /\ b # NoBinding
         /\ ClientOf(b) \in Clients /\ ProviderOf(b) \in Providers
         /\ ClientOf(b) \in Modules /\ ProviderOf(b) \in Modules
         /\ ClientOf(b) # ProviderOf(b)
         /\ {ClientOf(b), ProviderOf(b)} = {b[1], b[2]}
  BY ModulesAssumption DEF Binding, Modules, ClientOf, ProviderOf

\* There are finitely many bindings.
LEMMA BindingFinite ==
  ASSUME NEW S, S \subseteq Binding
  PROVE  IsFiniteSet(S)
<1>1. IsFiniteSet(Clients \X Providers) /\ IsFiniteSet(Providers \X Clients)
  BY Zenon, FS_Product, ModulesAssumption
<1>2. IsFiniteSet(Binding)
  BY <1>1, FS_Union, Zenon DEF Binding
<1> QED
  BY Zenon, <1>2, FS_Subset

\* unbind_complete keeps the counts exact: it drops one binding and one
\* reference of either end.
LEMMA UnbindCompleteCounts ==
  ASSUME TypeOK, CountsExact, NEW b \in bindings, UnbindComplete(b)
  PROVE  CountsExact' /\ binding_count' \in [Modules -> Nat]
<1> b \in Binding
  BY Zenon DEF TypeOK
<1>1. ASSUME NEW m \in Modules
      PROVE  /\ binding_count'[m] = Cardinality(BindingsOf(m)')
             /\ binding_count'[m] \in Nat
  <2>1. IsFiniteSet(BindingsOf(m)) /\ IsFiniteSet(BindingsOf(m)')
    BY Zenon, BindingFinite DEF TypeOK, BindingsOf, UnbindComplete
  <2>2. BindingsOf(m)' = BindingsOf(m) \ {b}
    BY Zenon DEF BindingsOf, UnbindComplete
  <2>3. b \in BindingsOf(m) <=> m = ClientOf(b) \/ m = ProviderOf(b)
    BY Zenon, BindingFacts DEF BindingsOf
  <2>4. binding_count'[m] = IF b \in BindingsOf(m) THEN binding_count[m] - 1 ELSE binding_count[m]
    BY Zenon, <2>3, BindingFacts DEF TypeOK, UnbindComplete
  <2>5. Cardinality(BindingsOf(m)') =
          IF b \in BindingsOf(m) THEN Cardinality(BindingsOf(m)) - 1 ELSE Cardinality(BindingsOf(m))
    BY Zenon, <2>1, <2>2, FS_RemoveElement
  <2>6. Cardinality(BindingsOf(m)') \in Nat
    BY Zenon, <2>1, FS_CardinalityType
  <2> QED
    BY Zenon, <2>4, <2>5, <2>6 DEF CountsExact
<1>2. CountsExact'
  BY Zenon, <1>1 DEF CountsExact
<1>3. DOMAIN binding_count' = Modules /\ binding_count' = [m \in Modules |-> binding_count'[m]]
  BY BindingFacts, Zenon DEF TypeOK, UnbindComplete
<1> QED
  BY Zenon, <1>1, <1>2, <1>3

USE DEF Both, Goto, At, registrationVars, statusVars, contextVars, threadVars,
        completionVars, cleanupVars

\* remove may erase a registration: a count of zero means no binding refers to it.
LEMMA ZeroCount ==
  ASSUME TypeOK, CountsExact, NEW m \in Modules
  PROVE  binding_count[m] <= 0 <=> BindingsOf(m) = {}
<1>1. IsFiniteSet(BindingsOf(m))
  BY Zenon, BindingFinite DEF TypeOK, BindingsOf
<1>2. binding_count[m] \in Nat /\ binding_count[m] = Cardinality(BindingsOf(m))
  BY Zenon DEF TypeOK, CountsExact
<1> QED
  BY <1>1, <1>2, FS_EmptySet

\* Who may hold a binding whose two statuses agree: nobody owes a completion
\* for it; only its creator is in its attach callback, and only at Start.
LEMMA Quiet ==
  ASSUME IInv, NEW b \in Binding,
         NEW status \in {"Start", "Ready", "UnbindComplete"}, Both(b, status)
  PROVE  /\ \A side \in Side : <<b, side>> \notin owed
         /\ status # "UnbindComplete" => \A side \in Side : <<b, side>> \notin finishing
         /\ \A n \in Modules : cur[n] = b =>
              \/ status = "Start" /\ pc[n] = "provider_attach" /\ b[1] = n
              \/ status = "UnbindComplete" /\ pc[n] = "unbind_complete"
<1>1. \A side \in Side : <<b, side>> \notin owed
  BY Zenon DEF IInv, OwedInv, Side
<1>2. status # "UnbindComplete" => \A side \in Side : <<b, side>> \notin finishing
  BY Zenon DEF IInv, FinishInv, Side
<1>3. ASSUME NEW n \in Modules, cur[n] = b
      PROVE  \/ status = "Start" /\ pc[n] = "provider_attach" /\ b[1] = n
             \/ status = "UnbindComplete" /\ pc[n] = "unbind_complete"
  <2>1. pc[n] \in {"provider_attach", "detached", "unbind_complete"}
    BY Zenon, <1>3, BindingFacts DEF IInv, ThreadsInv
  <2>2. CASE pc[n] = "provider_attach"
    BY Zenon, <1>3, <2>2 DEF IInv, AttachInv
  <2>3. CASE pc[n] = "detached"
    BY <1>3, <2>3, Zenon DEF IInv, DetachInv, DetachPhase
  <2>4. CASE pc[n] = "unbind_complete"
    BY Zenon, <1>3, <2>4 DEF IInv, FinishInv
  <2> QED
    BY Zenon, <2>1, <2>2, <2>3, <2>4
<1> QED
  BY Zenon, <1>1, <1>2, <1>3

\* What a thread inside a callback holds is a binding of the map.
LEMMA CurrentBinding ==
  ASSUME IInv, NEW m \in Modules,
         pc[m] \in {"provider_attach", "detached", "unbind_complete"}
  PROVE  cur[m] \in Binding /\ cur[m] \in bindings
  BY Zenon DEF IInv, TypeOK, ThreadsInv, AbsentInv

\* A binding with both statuses Start or both complete can leave the map: if no
\* thread but the one that removes it holds it, AbsentInv holds afterwards.
LEMMA BindingLeaves ==
  ASSUME IInv, NEW b \in bindings,
         Both(b, "Start") \/ Both(b, "UnbindComplete"),
         UnbindComplete(b), UNCHANGED <<statusVars, contextVars>>,
         \A n \in Modules : cur'[n] # b /\ cur'[n] \in {cur[n], NoBinding},
         owed' = owed, finishing' \subseteq finishing,
         \A side \in Side : <<b, side>> \notin finishing'
  PROVE  /\ AbsentInv' /\ CountsExact' /\ ContextsCleanedOnce'
         /\ binding_count' \in [Modules -> Nat]
         /\ client_cleanups' \in [Binding -> Nat] /\ provider_cleanups' \in [Binding -> Nat]
<1>1. b \in Binding
  BY Zenon DEF IInv, TypeOK
<1>2. CountsExact' /\ binding_count' \in [Modules -> Nat]
  BY Zenon, UnbindCompleteCounts DEF IInv
<1>3. /\ client_cleanups' \in [Binding -> Nat] /\ provider_cleanups' \in [Binding -> Nat]
      /\ ContextsCleanedOnce'
  BY <1>1 DEF IInv, TypeOK, ContextsCleanedOnce, UnbindComplete
<1>4. ASSUME NEW d \in Binding, d \notin bindings'
      PROVE  /\ Both(d, "Start") \/ Both(d, "UnbindComplete")
             /\ \A n \in Modules : cur'[n] # d
             /\ \A side \in Side : <<d, side>> \notin owed' /\ <<d, side>> \notin finishing'
  <2>1. CASE d = b
    BY Zenon, <1>1, <2>1, Quiet
  <2>2. CASE d # b
    BY <1>4, <2>2, BindingFacts DEF IInv, AbsentInv, UnbindComplete
  <2> QED
    BY Zenon, <2>1, <2>2
<1>5. AbsentInv'
  BY Zenon, <1>4 DEF AbsentInv
<1> QED
  BY Zenon, <1>2, <1>3, <1>5

\* A step that at most stops the process by an assertion keeps the invariant.
LEMMA ProcessStops ==
  ASSUME IInv,
         UNCHANGED <<registrationVars, bindings, statusVars, contextVars, threadVars,
                     completionVars, cleanupVars>>,
         process' \in {process, "detach_assert", "wait_assert"}
  PROVE  IInv'
<1>1. TypeOK'
  BY Zenon DEF IInv, TypeOK
<1>2. ThreadsInv'
  BY Zenon DEF IInv, ThreadsInv
<1>3. FreshInv'
  BY Zenon DEF IInv, FreshInv
<1>4. AbsentInv'
  BY Zenon DEF IInv, AbsentInv
<1>5. AttachInv'
  BY Zenon DEF IInv, AttachInv
<1>6. OwedInv'
  BY Zenon DEF IInv, OwedInv
<1>7. DetachInv'
  BY Zenon DEF IInv, DetachInv, DetachPhase
<1>8. PhaseInv'
  BY Zenon DEF IInv, PhaseInv
<1>9. FinishInv'
  BY Zenon DEF IInv, FinishInv
<1>10. OneDetacher'
  BY Zenon DEF IInv, OneDetacher
<1>11. SnapshotInv'
  BY Zenon DEF IInv, SnapshotInv, BindingsOf
<1>12. RegisteredInv'
  BY Zenon DEF IInv, RegisteredInv
<1>13. CountsExact'
  BY Zenon DEF IInv, CountsExact, BindingsOf
<1>14. ContextsCleanedOnce'
  BY Zenon DEF IInv, ContextsCleanedOnce
<1>15. BlocksOnlyIfPending'
  BY Zenon DEF IInv, BlocksOnlyIfPending
<1> QED
  BY Zenon, <1>1, <1>2, <1>3, <1>4, <1>5, <1>6, <1>7, <1>8, <1>9, <1>10, <1>11, <1>12, <1>13, <1>14,
     <1>15 DEF IInv

\* perform_bind keeps the counts exact: the new bindings were not in the map,
\* and the targets are different modules.
LEMMA PerformBindCounts ==
  ASSUME IInv, NEW m \in Modules, PerformBind(m)
  PROVE  CountsExact' /\ binding_count' \in [Modules -> Nat]
<1> DEFINE targets == Targets(m)
           new == {<<m, t>> : t \in targets}
<1>1. targets \subseteq Modules /\ m \notin targets /\ new \subseteq Binding
      /\ new \cap bindings = {}
  BY DEF IInv, TypeOK, FreshInv, PerformBind, Targets, CanBind, Binding, Modules
<1>2. IsFiniteSet(Modules)
  BY ModulesAssumption, FS_Union, Zenon DEF Modules
<1>3. IsFiniteSet(targets) /\ IsFiniteSet(new) /\ IsFiniteSet(bindings)
  BY Zenon, <1>1, <1>2, FS_Subset, BindingFinite DEF IInv, TypeOK
<1>4. Cardinality(new) = Cardinality(targets)
  <2>1. [t \in targets |-> <<m, t>>] \in Bijection(targets, new)
    BY Zenon DEF Bijection, Injection, Surjection, IsInjective
  <2> HIDE DEF targets, new
  <2> QED
    BY Zenon, <1>3, <2>1, FS_Bijection DEF ExistsBijection
<1>5. ASSUME NEW x \in Modules
      PROVE  /\ binding_count'[x] = Cardinality(BindingsOf(x)')
             /\ binding_count'[x] \in Nat
  <2> DEFINE added == {b \in new : x \in {b[1], b[2]}}
  <2>1. /\ BindingsOf(x)' = BindingsOf(x) \cup added
        /\ BindingsOf(x) \cap added = {}
    BY Zenon, <1>1 DEF BindingsOf, PerformBind
  <2>2. IsFiniteSet(BindingsOf(x)) /\ IsFiniteSet(added)
    BY Zenon, <1>3, FS_Subset DEF BindingsOf
  <2>3. Cardinality(added) = (IF x = m THEN Cardinality(targets) ELSE 0)
                             + (IF x \in targets THEN 1 ELSE 0)
    <3>1. Cardinality(targets) \in Nat
      BY Zenon, <1>3, FS_CardinalityType
    <3>2. CASE x = m
      <4>1. added = new /\ x \notin targets
        BY <3>2, <1>1
      <4> HIDE DEF added, new, targets
      <4> QED
        BY <3>1, <3>2, <4>1, <1>4
    <3>3. CASE x # m /\ x \in targets
      <4>1. added = {<<m, x>>}
        BY <3>3
      <4> HIDE DEF added, targets
      <4>2. Cardinality(added) = 1
        BY <4>1, FS_Singleton, Zenon
      <4> QED
        BY <3>3, <4>2
    <3>4. CASE x # m /\ x \notin targets
      <4>1. added = {}
        BY <3>4
      <4> QED
        BY <3>4, <4>1, FS_EmptySet
    <3> QED
      BY Zenon, <3>2, <3>3, <3>4
  <2>4. Cardinality(BindingsOf(x) \cup added) = Cardinality(BindingsOf(x)) + Cardinality(added)
    <3> HIDE DEF added
    <3>1. Cardinality(BindingsOf(x) \cap added) = 0
      BY Zenon, <2>1, FS_EmptySet
    <3>2. /\ Cardinality(BindingsOf(x)) \in Nat /\ Cardinality(added) \in Nat
      BY Zenon, <2>2, FS_CardinalityType
    <3>3. Cardinality(BindingsOf(x) \cup added) =
            Cardinality(BindingsOf(x)) + Cardinality(added) - Cardinality(BindingsOf(x) \cap added)
      BY Zenon, <2>2, FS_Union
    <3> QED
      BY <3>1, <3>2, <3>3
  <2>5. binding_count'[x] = binding_count[x] + (IF x = m THEN Cardinality(targets) ELSE 0)
                                             + (IF x \in targets THEN 1 ELSE 0)
    BY Zenon DEF PerformBind
  <2>6. Cardinality(BindingsOf(x)) \in Nat /\ Cardinality(targets) \in Nat
    BY Zenon, <1>3, <2>2, FS_CardinalityType
  <2> HIDE DEF added, targets
  <2> QED
    BY <2>1, <2>3, <2>4, <2>5, <2>6 DEF IInv, CountsExact
<1>6. binding_count' = [x \in Modules |-> binding_count'[x]]
  BY Zenon DEF PerformBind
<1> QED
  BY Zenon, <1>5, <1>6 DEF CountsExact

\* add keeps the invariant: nothing refers to the new registration.
LEMMA AddStep ==
  ASSUME IInv, NEW m \in Modules, Add(m)
  PROVE  IInv'
<1>1. OwedInv'
  BY Zenon DEF IInv, OwedInv, Add
<1>2. FreshInv' /\ AbsentInv' /\ AttachInv' /\ DetachInv' /\ PhaseInv'
  BY DEF IInv, FreshInv, Add, AbsentInv, AttachInv, DetachInv, DetachPhase, PhaseInv
<1>3. FinishInv' /\ OneDetacher' /\ SnapshotInv' /\ RegisteredInv' /\ CountsExact'
  BY DEF IInv, FinishInv, Add, OneDetacher, SnapshotInv, BindingsOf, RegisteredInv, CountsExact
<1>4. ContextsCleanedOnce' /\ BlocksOnlyIfPending' /\ process' # "invalid_handle"
  BY DEF IInv, ContextsCleanedOnce, Add, BlocksOnlyIfPending
<1>5. TypeOK' /\ ThreadsInv'
  BY Zenon DEF IInv, TypeOK, PC, BindingStatus, Side, Add, ThreadsInv
<1> QED
  BY Zenon, <1>1, <1>2, <1>3, <1>4, <1>5 DEF IInv

\* perform_bind keeps the invariant.
LEMMA PerformBindStep ==
  ASSUME IInv, NEW m \in Modules, PerformBind(m)
  PROVE  IInv'
<1> DEFINE new == {<<m, t>> : t \in Targets(m)}
<1>a. /\ new \subseteq Binding /\ new \cap bindings = {}
      /\ \A b \in new : /\ b[1] = m /\ b[2] \in registered /\ ~deregistering[b[2]]
                        /\ Both(b, "Start")
      /\ m \in registered /\ ~deregistering[m]
  BY DEF IInv, TypeOK, ThreadsInv, FreshInv, PerformBind, Targets, CanBind, Binding, Modules
<1>b. /\ bindings' = bindings \cup new
      /\ todo' = [todo EXCEPT ![m] = new]
  BY Zenon DEF PerformBind
<1> HIDE DEF new
<1>1. TypeOK'
  <2>1. bindings' \subseteq Binding /\ todo' \in [Modules -> SUBSET Binding]
    BY Zenon, <1>a, <1>b DEF IInv, TypeOK
  <2>2. binding_count' \in [Modules -> Nat] /\ pc' \in [Modules -> PC]
    BY PerformBindCounts, Zenon DEF IInv, TypeOK, PC, PerformBind
  <2> QED
    BY Zenon, <2>1, <2>2 DEF IInv, TypeOK, PerformBind
<1>2. AttachInv'
  BY <1>a, <1>b DEF IInv, TypeOK, AttachInv, ThreadsInv, FreshInv, PerformBind
<1>3. OwedInv'
  BY Zenon DEF IInv, OwedInv, PerformBind
<1>4. SnapshotInv'
  BY <1>a, <1>b DEF IInv, TypeOK, SnapshotInv, ThreadsInv, FreshInv, BindingsOf, PerformBind
<1>5. RegisteredInv'
  BY <1>a, <1>b DEF IInv, TypeOK, RegisteredInv, ThreadsInv, FreshInv, PerformBind
<1>6. CountsExact'
  BY Zenon, PerformBindCounts
<1>7. ContextsCleanedOnce'
  BY <1>a, <1>b DEF IInv, TypeOK, ContextsCleanedOnce, ThreadsInv, FreshInv, PerformBind
<1>8. ThreadsInv' /\ AbsentInv' /\ DetachInv' /\ PhaseInv' /\ FinishInv'
  BY DEF IInv, ThreadsInv, PerformBind, AbsentInv, DetachInv, DetachPhase, PhaseInv, FinishInv
<1>9. OneDetacher' /\ BlocksOnlyIfPending' /\ process' # "invalid_handle"
  BY DEF IInv, OneDetacher, PerformBind, BlocksOnlyIfPending
<1>10. FreshInv'
  BY DEF IInv, TypeOK, FreshInv, PerformBind
<1> QED
  BY Zenon, <1>1, <1>2, <1>3, <1>4, <1>5, <1>6, <1>7, <1>8, <1>9, <1>10 DEF IInv

\* An attach call that fails at once keeps the invariant.
LEMMA AttachRefusedStep ==
  ASSUME IInv, NEW m \in Modules, NEW b \in Binding, AttachRefused(m, b)
  PROVE  IInv'
<1>a. b \in bindings /\ b[1] = m /\ Both(b, "Start")
  BY Zenon DEF IInv, AttachInv, AttachRefused
<1>b. /\ AbsentInv' /\ CountsExact' /\ ContextsCleanedOnce'
      /\ binding_count' \in [Modules -> Nat]
      /\ client_cleanups' \in [Binding -> Nat] /\ provider_cleanups' \in [Binding -> Nat]
  <2>1. \A n \in Modules : cur'[n] # b /\ cur'[n] \in {cur[n], NoBinding}
    BY <1>a, BindingFacts, Quiet DEF IInv, TypeOK, OneDetacher, AttachRefused
  <2>2. \A side \in Side : <<b, side>> \notin finishing'
    BY Zenon, <1>a, Quiet DEF IInv, FinishInv, AttachRefused
  <2> QED
    BY Zenon, <1>a, <2>1, <2>2, BindingLeaves DEF AttachRefused
<1>1. TypeOK'
  BY <1>b, BindingFacts, Zenon DEF IInv, TypeOK, PC, AttachRefused, UnbindComplete
<1>2. OwedInv'
  BY Zenon DEF IInv, OwedInv, AttachRefused, UnbindComplete
<1>3. ThreadsInv' /\ FreshInv' /\ DetachInv'
  BY Zenon DEF IInv, ThreadsInv, FreshInv, DetachInv, DetachPhase, AttachRefused, UnbindComplete
<1>4. PhaseInv' /\ FinishInv'
  BY Zenon DEF IInv, PhaseInv, FinishInv, AttachRefused, UnbindComplete
<1>5. OneDetacher' /\ SnapshotInv' /\ RegisteredInv' /\ BlocksOnlyIfPending'
      /\ process' # "invalid_handle"
  BY DEF IInv, OneDetacher, AttachRefused, UnbindComplete, SnapshotInv, BindingsOf,
     RegisteredInv, BlocksOnlyIfPending
<1>6. AttachInv'
  BY DEF IInv, TypeOK, AttachInv, AttachRefused, UnbindComplete
<1> QED
  BY Zenon, <1>b, <1>1, <1>2, <1>3, <1>4, <1>5, <1>6 DEF IInv

\* client_attach_provider keeps the invariant.
LEMMA ClientAttachProviderStep ==
  ASSUME IInv, NEW m \in Modules, NEW b \in Binding, ClientAttachProvider(m, b)
  PROVE  IInv'
<1>1. ThreadsInv'
  BY BindingFacts DEF IInv, TypeOK, ThreadsInv, AttachInv, ClientAttachProvider
<1>2. OwedInv'
  BY Zenon DEF IInv, OwedInv, ClientAttachProvider
<1>3. DetachInv' /\ PhaseInv' /\ FinishInv' /\ OneDetacher' /\ SnapshotInv'
  BY DEF IInv, DetachInv, DetachPhase, ClientAttachProvider, PhaseInv, FinishInv, OneDetacher,
     SnapshotInv, BindingsOf
<1>4. RegisteredInv' /\ BlocksOnlyIfPending' /\ process' # "invalid_handle"
  BY DEF IInv, RegisteredInv, ClientAttachProvider, BlocksOnlyIfPending
<1>5. TypeOK' /\ FreshInv' /\ AbsentInv' /\ AttachInv' /\ CountsExact'
  BY DEF IInv, TypeOK, PC, BindingStatus, Side, ClientAttachProvider, FreshInv, ThreadsInv,
     AttachInv, AbsentInv, CountsExact, BindingsOf
<1>6. ContextsCleanedOnce'
  BY DEF IInv, TypeOK, ContextsCleanedOnce, ThreadsInv, AttachInv, ClientAttachProvider
<1> QED
  BY Zenon, <1>1, <1>2, <1>3, <1>4, <1>5, <1>6 DEF IInv

\* An attach that succeeds keeps the invariant.
LEMMA AttachOkStep ==
  ASSUME IInv, NEW m \in Modules, AttachOk(m)
  PROVE  IInv'
<1>a. cur[m] \in Binding /\ cur[m] \in bindings /\ cur[m][1] = m /\ Both(cur[m], "Start")
  BY Zenon, CurrentBinding DEF IInv, AttachInv, AttachOk
<1>1. FreshInv'
  BY <1>a DEF IInv, TypeOK, FreshInv, ThreadsInv, AttachInv, AbsentInv, AttachOk
<1>2. AbsentInv'
  BY BindingFacts, <1>a DEF IInv, TypeOK, AbsentInv, ThreadsInv, AttachInv, AttachOk
<1>3. OwedInv'
  <2>1. <<cur[m], "client">> \notin owed /\ <<cur[m], "provider">> \notin owed
    BY Zenon, <1>a DEF IInv, OwedInv
  <2> QED
    BY <1>a, <2>1, Zenon DEF IInv, TypeOK, OwedInv, AttachOk
<1>4. DetachInv'
  BY <1>a DEF IInv, TypeOK, DetachInv, ThreadsInv, AttachInv, AbsentInv, DetachPhase, AttachOk
<1>5. FinishInv'
  BY <1>a DEF IInv, TypeOK, FinishInv, ThreadsInv, AttachInv, AbsentInv, AttachOk
<1>6. ContextsCleanedOnce'
  BY <1>a DEF IInv, TypeOK, ContextsCleanedOnce, ThreadsInv, AttachInv, AbsentInv, AttachOk
<1>7. PhaseInv' /\ OneDetacher' /\ SnapshotInv' /\ RegisteredInv' /\ BlocksOnlyIfPending'
  BY DEF IInv, PhaseInv, AttachOk, OneDetacher, SnapshotInv, BindingsOf, RegisteredInv,
     BlocksOnlyIfPending
<1>8. process' # "invalid_handle"
  BY Zenon DEF IInv, AttachOk
<1>9. TypeOK' /\ ThreadsInv' /\ AttachInv' /\ CountsExact'
  BY DEF IInv, TypeOK, ThreadsInv, PC, BindingStatus, Side, AttachOk, AttachInv, CountsExact,
     BindingsOf
<1> QED
  BY Zenon, <1>1, <1>2, <1>3, <1>4, <1>5, <1>6, <1>7, <1>8, <1>9 DEF IInv

\* An attach that the provider refuses keeps the invariant.
LEMMA AttachFailedStep ==
  ASSUME IInv, NEW m \in Modules, AttachFailed(m)
  PROVE  IInv'
<1>a. cur[m] \in Binding /\ cur[m] \in bindings /\ cur[m][1] = m /\ Both(cur[m], "Start")
  BY Zenon, CurrentBinding DEF IInv, AttachInv, AttachFailed
<1>b. /\ AbsentInv' /\ CountsExact' /\ ContextsCleanedOnce'
      /\ binding_count' \in [Modules -> Nat]
      /\ client_cleanups' \in [Binding -> Nat] /\ provider_cleanups' \in [Binding -> Nat]
  <2>1. \A n \in Modules : cur'[n] # cur[m] /\ cur'[n] \in {cur[n], NoBinding}
    BY <1>a, BindingFacts, Quiet DEF IInv, TypeOK, OneDetacher, AttachFailed
  <2>2. \A side \in Side : <<cur[m], side>> \notin finishing'
    BY Zenon, <1>a, Quiet DEF IInv, FinishInv, AttachFailed
  <2> QED
    BY Zenon, <1>a, <2>1, <2>2, BindingLeaves DEF AttachFailed
<1>1. TypeOK'
  BY Zenon, <1>b, BindingFacts DEF IInv, TypeOK, PC, AttachFailed, UnbindComplete
<1>2. OwedInv'
  BY Zenon DEF IInv, OwedInv, AttachFailed, UnbindComplete
<1>3. FreshInv' /\ DetachInv' /\ PhaseInv' /\ FinishInv' /\ OneDetacher'
  BY DEF IInv, FreshInv, AttachFailed, UnbindComplete, DetachInv, DetachPhase, PhaseInv,
     FinishInv, OneDetacher
<1>4. SnapshotInv' /\ RegisteredInv' /\ BlocksOnlyIfPending' /\ process' # "invalid_handle"
  BY DEF IInv, SnapshotInv, BindingsOf, AttachFailed, UnbindComplete, RegisteredInv,
     BlocksOnlyIfPending
<1>5. ThreadsInv' /\ AttachInv'
  BY DEF IInv, TypeOK, ThreadsInv, AttachFailed, UnbindComplete, AttachInv
<1> QED
  BY Zenon, <1>b, <1>1, <1>2, <1>3, <1>4, <1>5 DEF IInv

-----------------------------------------------------------------------------
(* The steps of deregistration.                                            *)

\* deactivate keeps the invariant.
LEMMA DeactivateStep ==
  ASSUME IInv, NEW m \in Modules, Deactivate(m)
  PROVE  IInv'
<1>1. OwedInv'
  BY Zenon DEF IInv, OwedInv, Deactivate, Active
<1>2. FreshInv' /\ AbsentInv' /\ AttachInv' /\ DetachInv' /\ PhaseInv'
  BY DEF IInv, FreshInv, Deactivate, Active, AbsentInv, AttachInv, DetachInv, DetachPhase, PhaseInv
<1>3. FinishInv' /\ OneDetacher' /\ SnapshotInv' /\ RegisteredInv' /\ CountsExact'
  BY DEF IInv, FinishInv, Deactivate, Active, OneDetacher, SnapshotInv, BindingsOf,
     RegisteredInv, CountsExact
<1>4. ContextsCleanedOnce' /\ BlocksOnlyIfPending' /\ process' # "invalid_handle"
  BY DEF IInv, ContextsCleanedOnce, Deactivate, Active, BlocksOnlyIfPending
<1>5. TypeOK' /\ ThreadsInv'
  BY Zenon DEF IInv, TypeOK, PC, BindingStatus, Side, Deactivate, Active, ThreadsInv
<1> QED
  BY Zenon, <1>1, <1>2, <1>3, <1>4, <1>5 DEF IInv

\* The snapshot of perform_unbind keeps the invariant.
LEMMA PerformUnbindStep ==
  ASSUME IInv, NEW m \in Modules, PerformUnbind(m)
  PROVE  IInv'
<1>1. OwedInv'
  BY Zenon DEF IInv, OwedInv, PerformUnbind
<1>2. ThreadsInv' /\ FreshInv' /\ AbsentInv' /\ AttachInv' /\ DetachInv'
  BY SMTT(30) DEF IInv, ThreadsInv, PerformUnbind, FreshInv, AbsentInv, AttachInv, DetachInv, DetachPhase
<1>3. PhaseInv' /\ FinishInv' /\ OneDetacher'
  BY DEF IInv, PhaseInv, FinishInv, OneDetacher, PerformUnbind
<1>4. RegisteredInv' /\ CountsExact'
  BY Zenon DEF IInv, RegisteredInv, CountsExact, BindingsOf, PerformUnbind
<1>5. ContextsCleanedOnce' /\ BlocksOnlyIfPending' /\ process' # "invalid_handle"
  BY DEF IInv, ContextsCleanedOnce, PerformUnbind, BlocksOnlyIfPending
<1>6. TypeOK' /\ SnapshotInv'
  BY DEF IInv, TypeOK, PC, BindingStatus, Side, PerformUnbind, SnapshotInv, BindingsOf
<1> QED
  BY Zenon, <1>1, <1>2, <1>3, <1>4, <1>5, <1>6 DEF IInv

\* The early return of begin_unbind keeps the invariant.
LEMMA UnbindAlreadyStartedStep ==
  ASSUME IInv, NEW m \in Modules, NEW b \in Binding, UnbindAlreadyStarted(m, b)
  PROVE  IInv'
<1>1. ThreadsInv'
  BY Zenon DEF IInv, ThreadsInv, UnbindAlreadyStarted
<1>2. OwedInv'
  BY Zenon DEF IInv, OwedInv, UnbindAlreadyStarted
<1>3. FreshInv' /\ AbsentInv' /\ AttachInv' /\ DetachInv' /\ PhaseInv'
  BY DEF IInv, FreshInv, UnbindAlreadyStarted, AbsentInv, AttachInv, DetachInv, DetachPhase,
     PhaseInv
<1>4. FinishInv' /\ OneDetacher' /\ RegisteredInv' /\ CountsExact' /\ ContextsCleanedOnce'
  BY Zenon DEF IInv, FinishInv, UnbindAlreadyStarted, OneDetacher, RegisteredInv, CountsExact,
     BindingsOf, ContextsCleanedOnce
<1>5. BlocksOnlyIfPending' /\ process' # "invalid_handle"
  BY DEF IInv, BlocksOnlyIfPending, UnbindAlreadyStarted
<1>6. TypeOK' /\ SnapshotInv'
  BY DEF IInv, TypeOK, PC, BindingStatus, Side, UnbindAlreadyStarted, SnapshotInv, BindingsOf
<1> QED
  BY Zenon, <1>1, <1>2, <1>3, <1>4, <1>5, <1>6 DEF IInv

\* The first critical section of begin_unbind keeps the invariant: the binding was
\* Ready, so nobody else holds it.
LEMMA BeginUnbindStep ==
  ASSUME SafeInstance, IInv, NEW m \in Modules, NEW b \in Binding, BeginUnbind(m, b)
  PROVE  IInv'
<1>a. /\ b \in bindings
      /\ \A n \in Modules : cur[n] # b
      /\ \A side \in Side : <<b, side>> \notin owed /\ <<b, side>> \notin finishing
  BY Quiet DEF IInv, AbsentInv, BeginUnbind
<1>b. PICK sides \in SUBSET MayPend(b) :
        /\ detach_pending' = [detach_pending EXCEPT ![m] = sides]
        /\ owed' = owed \cup ({b} \X sides)
  BY Zenon DEF BeginUnbind
<1>c. sides \subseteq Side /\ (AssertsEnabled \/ "client" \notin sides \/ "provider" \notin sides)
  BY BindingFacts DEF MayPend, SafeInstance, Side
<1>1. TypeOK'
  BY BindingFacts, <1>a, <1>b, <1>c DEF IInv, TypeOK, ThreadsInv, AbsentInv, PC, BindingStatus,
     Side, BeginUnbind
<1>2. ThreadsInv'
  BY <1>a, <1>b, <1>c DEF IInv, TypeOK, ThreadsInv, AbsentInv, BeginUnbind
<1>3. OwedInv'
  BY Zenon DEF IInv, TypeOK, OwedInv, BeginUnbind
<1>4. DetachInv'
  <2> SUFFICES ASSUME NEW n \in Modules, pc'[n] = "detached"
               PROVE  DetachPhase(n)'
    BY Zenon DEF DetachInv
  <2>1. CASE n = m
    <3>1. /\ cur'[n] = b /\ detach_pending'[n] = sides
          /\ client_binding_status'[b] = "BeginUnbind" /\ provider_binding_status'[b] = "BeginUnbind"
      BY Zenon, <1>b, <2>1 DEF IInv, TypeOK, BeginUnbind
    <3>2. \A side \in Side : <<b, side>> \in owed' => side \in sides
      BY Zenon, <1>a, <1>b
    <3> QED
      BY Zenon, <1>c, <3>1, <3>2 DEF DetachPhase, Side
  <2>2. CASE n # m
    <3>1. UNCHANGED <<pc[n], cur[n], detach_pending[n]>> /\ cur[n] # b
      BY Zenon, <1>a, <1>b, <2>2 DEF IInv, TypeOK, BeginUnbind
    <3>2. DetachPhase(n) /\ cur[n] \in Binding
      BY Zenon, <3>1, CurrentBinding DEF IInv, DetachInv
    <3> QED
      BY <1>b, <3>1, <3>2, Zenon DEF IInv, TypeOK, DetachPhase, BeginUnbind
  <2> QED
    BY Zenon, <2>1, <2>2
<1>5. OneDetacher'
  BY <1>a, <1>b, <1>c DEF IInv, TypeOK, OneDetacher, ThreadsInv, AbsentInv, BeginUnbind
<1>6. SnapshotInv'
  BY BindingFacts, <1>a, <1>b, <1>c DEF IInv, TypeOK, SnapshotInv, ThreadsInv, AbsentInv,
     BindingsOf, BeginUnbind
<1>7. ContextsCleanedOnce'
  BY Zenon DEF IInv, ContextsCleanedOnce, BeginUnbind
<1>8. FreshInv' /\ AbsentInv' /\ AttachInv' /\ FinishInv' /\ RegisteredInv'
  BY DEF IInv, FreshInv, BeginUnbind, AbsentInv, AttachInv, FinishInv, RegisteredInv
<1>9. process' # "invalid_handle"
  BY Zenon DEF IInv, BeginUnbind
<1>10. PhaseInv' /\ CountsExact' /\ BlocksOnlyIfPending'
  BY DEF IInv, TypeOK, PhaseInv, BeginUnbind, CountsExact, BindingsOf, BlocksOnlyIfPending
<1> QED
  BY Zenon, <1>1, <1>2, <1>3, <1>4, <1>5, <1>6, <1>7, <1>8, <1>9, <1>10 DEF IInv

\* The second critical section of begin_unbind keeps the invariant.
LEMMA DetachedStep ==
  ASSUME IInv, NEW m \in Modules, Detached(m)
  PROVE  IInv'
<1>a. /\ cur[m] \in Binding /\ cur[m] \in bindings
      /\ \A side \in Side : <<cur[m], side>> \notin finishing
  BY CurrentBinding, Zenon DEF IInv, DetachInv, DetachPhase, FinishInv, Detached
<1>b. \A n \in Modules \ {m} : cur[n] # cur[m]
  <2> SUFFICES ASSUME NEW n \in Modules \ {m}, cur[n] = cur[m]
               PROVE  FALSE
    OBVIOUS
  <2>1. pc[n] \in {"provider_attach", "detached", "unbind_complete"}
    BY Zenon, <1>a, BindingFacts DEF IInv, ThreadsInv
  <2>2. pc[n] # "provider_attach"
    BY Zenon DEF IInv, AttachInv, DetachInv, DetachPhase, Detached
  <2> QED
    BY Zenon, <2>1, <2>2 DEF IInv, OneDetacher, Detached
<1>c. PICK cs \in {"UnbindPending", "UnbindComplete"}, ps \in {"UnbindPending", "UnbindComplete"} :
        /\ client_binding_status' = [client_binding_status EXCEPT ![cur[m]] = cs]
        /\ provider_binding_status' = [provider_binding_status EXCEPT ![cur[m]] = ps]
        /\ cs = DetachedStatus(client_binding_status[cur[m]], "provider" \in detach_pending[m])
        /\ ps = DetachedStatus(provider_binding_status[cur[m]], "client" \in detach_pending[m])
        /\ pc' = [pc EXCEPT ![m] = IF cs = "UnbindComplete" /\ ps = "UnbindComplete"
                                   THEN "unbind_complete" ELSE "detach"]
        /\ cur' = [cur EXCEPT ![m] = IF cs = "UnbindComplete" /\ ps = "UnbindComplete"
                                     THEN cur[m] ELSE NoBinding]
        /\ pending' = [pending EXCEPT ![m] = @ \/ ~(cs = "UnbindComplete" /\ ps = "UnbindComplete")]
  BY Zenon DEF Detached, DetachedStatus
<1>d. /\ client_binding_status \in [Binding -> BindingStatus]
      /\ provider_binding_status \in [Binding -> BindingStatus]
      /\ pc \in [Modules -> PC] /\ cur \in [Modules -> Binding \cup {NoBinding}]
      /\ FreshInv /\ AbsentInv /\ ThreadsInv
  BY Zenon DEF IInv, TypeOK
<1>e. UNCHANGED <<bindings, client_context, provider_context, owed, finishing>> /\ pc[m] = "detached"
  BY Zenon DEF Detached, Goto, contextVars, completionVars
<1>1. FreshInv'
  BY <1>a, <1>c, <1>d, <1>e DEF FreshInv, Both
<1>2. AbsentInv'
  <2> SUFFICES ASSUME NEW b \in Binding, b \notin bindings
               PROVE  /\ Both(b, "Start")' \/ Both(b, "UnbindComplete")'
                      /\ \A n \in Modules : cur'[n] # b
                      /\ \A side \in Side : <<b, side>> \notin owed /\ <<b, side>> \notin finishing
    BY Zenon, <1>e DEF AbsentInv
  <2>1. b # cur[m] /\ b # NoBinding
    BY Zenon, <1>a, BindingFacts
  <2>2. client_binding_status'[b] = client_binding_status[b]
        /\ provider_binding_status'[b] = provider_binding_status[b]
    BY <1>c, <1>d, <2>1
  <2>3. \A n \in Modules : cur'[n] # b
    BY Zenon, <1>c, <1>d, <2>1 DEF AbsentInv
  <2> QED
    BY Zenon, <1>d, <2>2, <2>3 DEF AbsentInv, Both
<1>3. AttachInv'
  <2>1. client_binding_status[cur[m]] # "Start"
    BY Zenon DEF IInv, DetachInv, DetachPhase, Detached
  <2> QED
    BY SMTT(30), <1>a, <1>b, <1>c, <2>1 DEF IInv, TypeOK, AttachInv, ThreadsInv, Detached
<1>4. OwedInv'
  <2>1. /\ <<cur[m], "client">> \in owed => ps = "UnbindPending"
        /\ <<cur[m], "provider">> \in owed => cs = "UnbindPending"
    BY Zenon, <1>a, <1>c DEF IInv, OwedInv, DetachInv, DetachPhase, DetachedStatus, Detached
  <2> QED
    BY <1>a, <1>c, <2>1, Zenon DEF IInv, TypeOK, OwedInv, Detached
<1>5. DetachInv'
  <2> SUFFICES ASSUME NEW n \in Modules, pc'[n] = "detached"
               PROVE  DetachPhase(n)'
    BY Zenon DEF DetachInv
  <2>1. n # m /\ cur[n] # cur[m] /\ UNCHANGED <<pc[n], cur[n], detach_pending[n]>>
    BY <1>b, <1>c, Zenon DEF IInv, TypeOK, Detached
  <2>2. DetachPhase(n) /\ cur[n] \in Binding
    BY Zenon, <2>1, CurrentBinding DEF IInv, DetachInv
  <2> QED
    BY SMTT(30), <1>c, <2>1, <2>2 DEF IInv, TypeOK, DetachPhase, Detached
<1>6. FinishInv'
  BY SMTT(30), <1>a, <1>b, <1>c, BindingFacts DEF IInv, TypeOK, FinishInv, Detached
<1>7. SnapshotInv'
  <2> SUFFICES ASSUME NEW n \in Modules, NEW b \in BindingsOf(n),
                      pc'[n] \in {"detach", "detached", "unbind_complete"}, ~pending'[n]
               PROVE  b \in todo[n] \/ b = cur'[n]
    BY Zenon DEF SnapshotInv, BindingsOf, Detached
  <2>1. pc[n] \in {"detach", "detached", "unbind_complete"} /\ ~pending[n] /\ cur'[n] = cur[n]
    <3>1. CASE n = m
      <4>1. cs = "UnbindComplete" /\ ps = "UnbindComplete"
        BY <1>c, <3>1, Zenon DEF IInv, TypeOK
      <4> QED
        BY <1>c, <3>1, <4>1 DEF IInv, TypeOK, Detached
    <3>2. CASE n # m
      BY Zenon, <1>c, <3>2 DEF IInv, TypeOK, Detached
    <3> QED
      BY Zenon, <3>1, <3>2
  <2> QED
    BY Zenon, <2>1 DEF IInv, SnapshotInv
<1>8. RegisteredInv' /\ ContextsCleanedOnce' /\ BlocksOnlyIfPending' /\ process' # "invalid_handle"
  BY DEF IInv, RegisteredInv, Detached, DetachedStatus, ContextsCleanedOnce, BlocksOnlyIfPending
<1>9. TypeOK' /\ ThreadsInv' /\ PhaseInv' /\ OneDetacher' /\ CountsExact'
  BY DEF IInv, TypeOK, ThreadsInv, PC, BindingStatus, Side, Detached, DetachedStatus, PhaseInv,
     OneDetacher, CountsExact, BindingsOf
<1> QED
  BY Zenon, <1>1, <1>2, <1>3, <1>4, <1>5, <1>6, <1>7, <1>8, <1>9 DEF IInv

\* unbind_complete, called by the detaching thread, keeps the invariant.
LEMMA DetachCompletesStep ==
  ASSUME IInv, NEW m \in Modules, DetachCompletes(m)
  PROVE  IInv'
<1>a. cur[m] \in Binding /\ cur[m] \in bindings /\ Both(cur[m], "UnbindComplete")
  BY Zenon, CurrentBinding DEF IInv, FinishInv, DetachCompletes
<1>b. /\ AbsentInv' /\ CountsExact' /\ ContextsCleanedOnce'
      /\ binding_count' \in [Modules -> Nat]
      /\ client_cleanups' \in [Binding -> Nat] /\ provider_cleanups' \in [Binding -> Nat]
  <2>1. \A n \in Modules : cur'[n] # cur[m] /\ cur'[n] \in {cur[n], NoBinding}
    BY <1>a, BindingFacts, Quiet DEF IInv, TypeOK, OneDetacher, DetachCompletes
  <2>2. \A side \in Side : <<cur[m], side>> \notin finishing'
    BY Zenon, <1>a, Quiet DEF IInv, FinishInv, DetachCompletes
  <2> QED
    BY Zenon, <1>a, <2>1, <2>2, BindingLeaves DEF DetachCompletes
<1>1. TypeOK'
  BY Zenon, <1>b, BindingFacts DEF IInv, TypeOK, PC, DetachCompletes, UnbindComplete
<1>2. AttachInv'
  BY <1>a DEF IInv, TypeOK, AttachInv, ThreadsInv, FinishInv, DetachCompletes, UnbindComplete
<1>3. OwedInv'
  BY Zenon DEF IInv, OwedInv, DetachCompletes, UnbindComplete
<1>4. FreshInv' /\ DetachInv' /\ PhaseInv' /\ SnapshotInv' /\ RegisteredInv'
  BY SMTT(30) DEF IInv, FreshInv, DetachCompletes, UnbindComplete, DetachInv, DetachPhase, PhaseInv,
     SnapshotInv, BindingsOf, RegisteredInv
<1>5. BlocksOnlyIfPending' /\ process' # "invalid_handle"
  BY DEF IInv, BlocksOnlyIfPending, DetachCompletes, UnbindComplete
<1>6. ThreadsInv' /\ FinishInv' /\ OneDetacher'
  BY DEF IInv, TypeOK, ThreadsInv, DetachCompletes, UnbindComplete, FinishInv, OneDetacher
<1> QED
  BY Zenon, <1>b, <1>1, <1>2, <1>3, <1>4, <1>5, <1>6 DEF IInv

\* remove keeps the invariant: it erases only if no binding is left, and waits only
\* if an unbind is pending.
LEMMA RemoveStep ==
  ASSUME IInv, NEW m \in Modules, Remove(m)
  PROVE  IInv'
<1>a. /\ binding_count[m] \in Nat
      /\ binding_count[m] <= 0 <=> BindingsOf(m) = {}
  BY Zenon, ZeroCount DEF IInv, TypeOK
<1>b. /\ pc' = [pc EXCEPT ![m] = IF binding_count[m] <= 0 THEN "done" ELSE "waiting"]
      /\ registered' = IF binding_count[m] <= 0 THEN registered \ {m} ELSE registered
  <2>1. binding_count[m] <= 0 <=> ~(binding_count[m] > 0)
    BY <1>a
  <2> QED BY <2>1, Zenon DEF Remove
<1>1. FreshInv'
  BY <1>b DEF IInv, TypeOK, FreshInv, ThreadsInv, Remove
<1>2. OwedInv'
  BY Zenon DEF IInv, OwedInv, Remove
<1>3. RegisteredInv'
  BY Zenon, <1>a, <1>b, BindingFacts DEF IInv, TypeOK, RegisteredInv, BindingsOf, Remove
<1>4. BlocksOnlyIfPending'
  <2>1. ~pending[m] => BindingsOf(m) = {}
    <3>1. pc[m] = "detach" /\ todo[m] = {} /\ cur[m] = NoBinding
      BY Zenon DEF IInv, ThreadsInv, Remove
    <3>2. \A b \in BindingsOf(m) : b # NoBinding
      BY Zenon, BindingFacts DEF IInv, TypeOK, BindingsOf
    <3> QED
      BY Zenon, <3>1, <3>2 DEF IInv, SnapshotInv
  <2> QED
    BY Zenon, <1>a, <1>b, <2>1 DEF IInv, TypeOK, BlocksOnlyIfPending, Remove
<1>5. AbsentInv' /\ CountsExact' /\ ContextsCleanedOnce' /\ process' # "invalid_handle"
  BY Zenon DEF IInv, AbsentInv, Remove, CountsExact, BindingsOf, ContextsCleanedOnce
<1>6. TypeOK' /\ ThreadsInv' /\ AttachInv' /\ DetachInv' /\ PhaseInv'
  BY SMTT(30) DEF IInv, TypeOK, PC, BindingStatus, Side, Remove, ThreadsInv, AttachInv, DetachInv,
     DetachPhase, PhaseInv
<1>7. FinishInv' /\ OneDetacher' /\ SnapshotInv'
  BY DEF IInv, TypeOK, FinishInv, Remove, OneDetacher, SnapshotInv, BindingsOf
<1> QED
  BY Zenon, <1>1, <1>2, <1>3, <1>4, <1>5, <1>6, <1>7 DEF IInv

\* The end of the wait keeps the invariant.
LEMMA WaitedStep ==
  ASSUME IInv, NEW m \in Modules, Waited(m)
  PROVE  IInv'
<1>1. OwedInv'
  BY Zenon DEF IInv, OwedInv, Waited
<1>2. RegisteredInv'
  <2>1. BindingsOf(m) = {}
    BY ZeroCount DEF IInv, Waited
  <2> QED
    BY Zenon, <2>1, BindingFacts DEF IInv, TypeOK, RegisteredInv, BindingsOf, Waited
<1>3. FreshInv' /\ AbsentInv' /\ AttachInv' /\ DetachInv' /\ PhaseInv'
  BY SMTT(30) DEF IInv, FreshInv, Waited, AbsentInv, AttachInv, DetachInv, DetachPhase, PhaseInv
<1>4. FinishInv' /\ OneDetacher'
  BY SMTT(30) DEF IInv, FinishInv, OneDetacher, Waited
<1>5. SnapshotInv' /\ ContextsCleanedOnce' /\ BlocksOnlyIfPending'
  BY DEF IInv, SnapshotInv, BindingsOf, ContextsCleanedOnce, BlocksOnlyIfPending, Waited
<1>6. process' # "invalid_handle"
  BY Zenon DEF IInv, Waited
<1>7. TypeOK' /\ ThreadsInv' /\ CountsExact'
  BY Zenon DEF IInv, TypeOK, PC, BindingStatus, Side, Waited, ThreadsInv, CountsExact, BindingsOf
<1> QED
  BY Zenon, <1>1, <1>2, <1>3, <1>4, <1>5, <1>6, <1>7 DEF IInv

-----------------------------------------------------------------------------
(* The completions of pending detaches, and the theorems.                  *)

\* A wait that times out can only stop the process.
LEMMA WaitTimesOutStep ==
  ASSUME IInv, NEW m \in Modules, WaitTimesOut(m)
  PROVE  IInv'
  BY ProcessStops, Zenon DEF WaitTimesOut

\* What the completion of the client's detach does: its binding is in the map and the
\* status it sets not yet complete; either the ASSERT stops the process, or the
\* status becomes complete.
LEMMA BindingDetachProviderCompleteEffect ==
  ASSUME IInv, NEW b \in Binding, BindingDetachProviderComplete(b)
  PROVE  /\ b \in bindings
         /\ <<b, "client">> \in owed
         /\ provider_binding_status[b] \in {"BeginUnbind", "UnbindPending"}
         /\ \/ /\ process' = "detach_assert"
               /\ UNCHANGED <<registrationVars, bindings, statusVars, contextVars, threadVars,
                              completionVars, cleanupVars>>
            \/ /\ AssertsEnabled => provider_binding_status[b] = "UnbindPending"
               /\ provider_binding_status' = [provider_binding_status EXCEPT ![b] = "UnbindComplete"]
               /\ client_binding_status' = client_binding_status
               /\ owed' = owed \ {<<b, "client">>}
               /\ finishing' = IF client_binding_status[b] = "UnbindComplete"
                               THEN finishing \cup {<<b, "client">>} ELSE finishing
               /\ UNCHANGED <<registrationVars, bindings, contextVars, threadVars, cleanupVars, process>>
<1>1. b \in bindings /\ <<b, "client">> \in owed
  BY Zenon DEF IInv, AbsentInv, Side, BindingDetachProviderComplete, DetachComplete
<1>2. provider_binding_status[b] \in {"BeginUnbind", "UnbindPending"}
  BY <1>1, Zenon DEF IInv, OwedInv
<1> QED
  BY Zenon, <1>1, <1>2 DEF BindingDetachProviderComplete, DetachComplete

\* The completion of the client's pending detach keeps the invariant.
LEMMA BindingDetachProviderCompleteStep ==
  ASSUME IInv, NEW b \in Binding, BindingDetachProviderComplete(b)
  PROVE  IInv'
<1> SUFFICES ASSUME AssertsEnabled => provider_binding_status[b] = "UnbindPending",
                    /\ provider_binding_status' = [provider_binding_status EXCEPT ![b] = "UnbindComplete"]
                    /\ client_binding_status' = client_binding_status
                    /\ owed' = owed \ {<<b, "client">>}
                    /\ finishing' = IF client_binding_status[b] = "UnbindComplete"
                                    THEN finishing \cup {<<b, "client">>} ELSE finishing
                    /\ UNCHANGED <<registrationVars, bindings, contextVars, threadVars, cleanupVars, process>>
             PROVE  IInv'
  BY BindingDetachProviderCompleteEffect, ProcessStops, Zenon
<1>a. /\ b \in bindings /\ <<b, "client">> \in owed
      /\ provider_binding_status[b] \in {"BeginUnbind", "UnbindPending"}
  BY BindingDetachProviderCompleteEffect, Zenon
<1>b. \A d \in Binding \ {b} : /\ client_binding_status'[d] = client_binding_status[d]
                               /\ provider_binding_status'[d] = provider_binding_status[d]
  BY Zenon DEF IInv, TypeOK
<1>1. FreshInv'
  BY Zenon, <1>a, <1>b DEF IInv, FreshInv
<1>2. AbsentInv'
  BY Zenon, <1>a, <1>b DEF IInv, AbsentInv
<1>3. AttachInv'
  <2>1. provider_binding_status[b] # "Start"
    BY Zenon, <1>a
  <2>2. \A m \in Modules : pc[m] = "provider_attach" => cur[m] \in Binding
    BY Zenon, CurrentBinding
  <2> QED
    BY <1>b, <2>1, <2>2 DEF IInv, TypeOK, AttachInv
<1>4. OwedInv'
  BY <1>a, <1>b, Zenon DEF IInv, TypeOK, OwedInv
<1>5. DetachInv'
  <2> SUFFICES ASSUME NEW n \in Modules, pc[n] = "detached", DetachPhase(n), cur[n] \in Binding
               PROVE  DetachPhase(n)'
    BY Zenon, CurrentBinding DEF IInv, DetachInv
  <2>1. CASE cur[n] = b
    BY Zenon, <1>a, <2>1 DEF IInv, TypeOK, DetachPhase
  <2>2. CASE cur[n] # b
    BY Zenon, <1>b, <2>2 DEF DetachPhase
  <2> QED
    BY Zenon, <2>1, <2>2
<1>6. PhaseInv'
  <2>1. provider_binding_status'[b] = "UnbindComplete" /\ client_binding_status'[b] = client_binding_status[b]
    BY Zenon DEF IInv, TypeOK
  <2> QED
    BY <1>b, <2>1 DEF IInv, PhaseInv
<1>7. FinishInv'
  <2>1. provider_binding_status'[b] = "UnbindComplete" /\ client_binding_status'[b] = client_binding_status[b]
    BY Zenon DEF IInv, TypeOK
  <2>2. \A side \in Side : <<b, side>> \notin finishing
    BY Zenon, <1>a DEF IInv, FinishInv
  <2>3. ASSUME NEW m \in Modules, pc[m] = "unbind_complete"
        PROVE  Both(cur[m], "UnbindComplete")' /\ \A side \in Side : <<cur[m], side>> \notin finishing'
    <3>1. cur[m] \in Binding /\ cur[m] # b /\ Both(cur[m], "UnbindComplete")
      BY Zenon, <1>a, <2>3, CurrentBinding DEF IInv, FinishInv
    <3> QED
      BY Zenon, <1>b, <2>3, <3>1 DEF IInv, FinishInv
  <2>4. ASSUME NEW d \in Binding, NEW side \in Side, <<d, side>> \in finishing'
        PROVE  /\ Both(d, "UnbindComplete")'
               /\ \A other \in Side : <<d, other>> \in finishing' => side = other
    <3>1. CASE d = b
      BY Zenon, <2>1, <2>2, <2>4, <3>1
    <3>2. CASE d # b
      BY <1>b, <2>4, <3>2, Zenon DEF IInv, FinishInv
    <3> QED
      BY Zenon, <3>1, <3>2
  <2> QED
    BY Zenon, <2>3, <2>4 DEF FinishInv
<1>8. process' # "invalid_handle"
  BY Zenon DEF IInv
<1>9. ThreadsInv' /\ OneDetacher'
  BY Zenon DEF IInv, ThreadsInv, OneDetacher
<1>10. SnapshotInv' /\ RegisteredInv' /\ CountsExact'
  BY Zenon DEF IInv, SnapshotInv, BindingsOf, RegisteredInv, CountsExact
<1>11. ContextsCleanedOnce' /\ BlocksOnlyIfPending'
  BY Zenon DEF IInv, ContextsCleanedOnce, BlocksOnlyIfPending
<1>12. TypeOK'
  BY DEF IInv, TypeOK, BindingStatus, Side
<1> QED
  BY Zenon, <1>1, <1>2, <1>3, <1>4, <1>5, <1>6, <1>7, <1>8, <1>9, <1>10, <1>11, <1>12 DEF IInv

\* What the completion of the provider's detach does: its binding is in the map and the
\* status it sets not yet complete; either the ASSERT stops the process, or the
\* status becomes complete.
LEMMA BindingDetachClientCompleteEffect ==
  ASSUME IInv, NEW b \in Binding, BindingDetachClientComplete(b)
  PROVE  /\ b \in bindings
         /\ <<b, "provider">> \in owed
         /\ client_binding_status[b] \in {"BeginUnbind", "UnbindPending"}
         /\ \/ /\ process' = "detach_assert"
               /\ UNCHANGED <<registrationVars, bindings, statusVars, contextVars, threadVars,
                              completionVars, cleanupVars>>
            \/ /\ AssertsEnabled => client_binding_status[b] = "UnbindPending"
               /\ client_binding_status' = [client_binding_status EXCEPT ![b] = "UnbindComplete"]
               /\ provider_binding_status' = provider_binding_status
               /\ owed' = owed \ {<<b, "provider">>}
               /\ finishing' = IF provider_binding_status[b] = "UnbindComplete"
                               THEN finishing \cup {<<b, "provider">>} ELSE finishing
               /\ UNCHANGED <<registrationVars, bindings, contextVars, threadVars, cleanupVars, process>>
<1>1. b \in bindings /\ <<b, "provider">> \in owed
  BY Zenon DEF IInv, AbsentInv, Side, BindingDetachClientComplete, DetachComplete
<1>2. client_binding_status[b] \in {"BeginUnbind", "UnbindPending"}
  BY <1>1, Zenon DEF IInv, OwedInv
<1> QED
  BY Zenon, <1>1, <1>2 DEF BindingDetachClientComplete, DetachComplete

\* The completion of the provider's pending detach keeps the invariant.
LEMMA BindingDetachClientCompleteStep ==
  ASSUME IInv, NEW b \in Binding, BindingDetachClientComplete(b)
  PROVE  IInv'
<1> SUFFICES ASSUME AssertsEnabled => client_binding_status[b] = "UnbindPending",
                    /\ client_binding_status' = [client_binding_status EXCEPT ![b] = "UnbindComplete"]
                    /\ provider_binding_status' = provider_binding_status
                    /\ owed' = owed \ {<<b, "provider">>}
                    /\ finishing' = IF provider_binding_status[b] = "UnbindComplete"
                                    THEN finishing \cup {<<b, "provider">>} ELSE finishing
                    /\ UNCHANGED <<registrationVars, bindings, contextVars, threadVars, cleanupVars, process>>
             PROVE  IInv'
  BY BindingDetachClientCompleteEffect, ProcessStops, Zenon
<1>a. /\ b \in bindings /\ <<b, "provider">> \in owed
      /\ client_binding_status[b] \in {"BeginUnbind", "UnbindPending"}
  BY BindingDetachClientCompleteEffect, Zenon
<1>b. \A d \in Binding \ {b} : /\ client_binding_status'[d] = client_binding_status[d]
                               /\ provider_binding_status'[d] = provider_binding_status[d]
  BY Zenon DEF IInv, TypeOK
<1>1. FreshInv'
  BY Zenon, <1>a, <1>b DEF IInv, FreshInv
<1>2. AbsentInv'
  BY Zenon, <1>a, <1>b DEF IInv, AbsentInv
<1>3. AttachInv'
  <2>1. client_binding_status[b] # "Start"
    BY Zenon, <1>a
  <2>2. \A m \in Modules : pc[m] = "provider_attach" => cur[m] \in Binding
    BY Zenon, CurrentBinding
  <2> QED
    BY <1>b, <2>1, <2>2 DEF IInv, TypeOK, AttachInv
<1>4. OwedInv'
  BY <1>a, <1>b, Zenon DEF IInv, TypeOK, OwedInv
<1>5. DetachInv'
  <2> SUFFICES ASSUME NEW n \in Modules, pc[n] = "detached", DetachPhase(n), cur[n] \in Binding
               PROVE  DetachPhase(n)'
    BY Zenon, CurrentBinding DEF IInv, DetachInv
  <2>1. CASE cur[n] = b
    BY Zenon, <1>a, <2>1 DEF IInv, TypeOK, DetachPhase
  <2>2. CASE cur[n] # b
    BY Zenon, <1>b, <2>2 DEF DetachPhase
  <2> QED
    BY Zenon, <2>1, <2>2
<1>6. PhaseInv'
  <2>1. client_binding_status'[b] = "UnbindComplete" /\ provider_binding_status'[b] = provider_binding_status[b]
    BY Zenon DEF IInv, TypeOK
  <2> QED
    BY <1>b, <2>1 DEF IInv, PhaseInv
<1>7. FinishInv'
  <2>1. client_binding_status'[b] = "UnbindComplete" /\ provider_binding_status'[b] = provider_binding_status[b]
    BY Zenon DEF IInv, TypeOK
  <2>2. \A side \in Side : <<b, side>> \notin finishing
    BY Zenon, <1>a DEF IInv, FinishInv
  <2>3. ASSUME NEW m \in Modules, pc[m] = "unbind_complete"
        PROVE  Both(cur[m], "UnbindComplete")' /\ \A side \in Side : <<cur[m], side>> \notin finishing'
    <3>1. cur[m] \in Binding /\ cur[m] # b /\ Both(cur[m], "UnbindComplete")
      BY Zenon, <1>a, <2>3, CurrentBinding DEF IInv, FinishInv
    <3> QED
      BY Zenon, <1>b, <2>3, <3>1 DEF IInv, FinishInv
  <2>4. ASSUME NEW d \in Binding, NEW side \in Side, <<d, side>> \in finishing'
        PROVE  /\ Both(d, "UnbindComplete")'
               /\ \A other \in Side : <<d, other>> \in finishing' => side = other
    <3>1. CASE d = b
      BY Zenon, <2>1, <2>2, <2>4, <3>1
    <3>2. CASE d # b
      BY <1>b, <2>4, <3>2, Zenon DEF IInv, FinishInv
    <3> QED
      BY Zenon, <3>1, <3>2
  <2> QED
    BY Zenon, <2>3, <2>4 DEF FinishInv
<1>8. process' # "invalid_handle"
  BY Zenon DEF IInv
<1>9. ThreadsInv' /\ OneDetacher'
  BY Zenon DEF IInv, ThreadsInv, OneDetacher
<1>10. SnapshotInv' /\ RegisteredInv' /\ CountsExact'
  BY Zenon DEF IInv, SnapshotInv, BindingsOf, RegisteredInv, CountsExact
<1>11. ContextsCleanedOnce' /\ BlocksOnlyIfPending'
  BY Zenon DEF IInv, ContextsCleanedOnce, BlocksOnlyIfPending
<1>12. TypeOK'
  BY DEF IInv, TypeOK, BindingStatus, Side
<1> QED
  BY Zenon, <1>1, <1>2, <1>3, <1>4, <1>5, <1>6, <1>7, <1>8, <1>9, <1>10, <1>11, <1>12 DEF IInv

\* unbind_complete, called by a completing thread, keeps the invariant.
LEMMA CompletionUnbindsStep ==
  ASSUME IInv, NEW b \in Binding, NEW side \in Side, CompletionUnbinds(b, side)
  PROVE  IInv'
<1>a. b \in bindings /\ Both(b, "UnbindComplete") /\ <<b, side>> \in finishing
  BY Zenon DEF IInv, AbsentInv, FinishInv, CompletionUnbinds
<1>b. /\ AbsentInv' /\ CountsExact' /\ ContextsCleanedOnce'
      /\ binding_count' \in [Modules -> Nat]
      /\ client_cleanups' \in [Binding -> Nat] /\ provider_cleanups' \in [Binding -> Nat]
  <2>1. \A n \in Modules : cur'[n] # b /\ cur'[n] \in {cur[n], NoBinding}
    <3>1. \A n \in Modules : cur[n] = b => pc[n] = "unbind_complete"
      BY Zenon, <1>a, Quiet
    <3>2. \A n \in Modules : cur[n] # b
      BY Zenon, <1>a, <3>1 DEF IInv, FinishInv
    <3> QED
      BY Zenon, <3>2 DEF CompletionUnbinds
  <2>2. \A other \in Side : <<b, other>> \notin finishing'
    BY <1>a, Quiet DEF IInv, FinishInv, CompletionUnbinds
  <2> QED
    BY Zenon, <1>a, <2>1, <2>2, BindingLeaves DEF CompletionUnbinds
<1>1. TypeOK'
  BY <1>b, BindingFacts, Zenon DEF IInv, TypeOK, PC, CompletionUnbinds, UnbindComplete
<1>2. AttachInv'
  BY <1>a DEF IInv, TypeOK, AttachInv, FinishInv, CompletionUnbinds, UnbindComplete
<1>3. OwedInv'
  BY Zenon DEF IInv, OwedInv, CompletionUnbinds, UnbindComplete
<1>4. ThreadsInv' /\ FreshInv' /\ DetachInv' /\ PhaseInv' /\ FinishInv'
  BY SMTT(30) DEF IInv, ThreadsInv, CompletionUnbinds, UnbindComplete, FreshInv, DetachInv, DetachPhase,
     PhaseInv, FinishInv
<1>5. OneDetacher' /\ SnapshotInv'
  BY Zenon DEF IInv, OneDetacher, SnapshotInv, BindingsOf, CompletionUnbinds, UnbindComplete
<1>6. RegisteredInv' /\ BlocksOnlyIfPending' /\ process' # "invalid_handle"
  BY Zenon DEF IInv, RegisteredInv, BlocksOnlyIfPending, CompletionUnbinds, UnbindComplete
<1> QED
  BY Zenon, <1>b, <1>1, <1>2, <1>3, <1>4, <1>5, <1>6 DEF IInv

\* The invariant holds initially.
LEMMA InitIInv == Init => IInv
<1> SUFFICES ASSUME Init
             PROVE  IInv
  OBVIOUS
<1>1. TypeOK
  BY Zenon DEF Init, TypeOK, PC, BindingStatus
<1>2. ThreadsInv /\ FreshInv /\ AbsentInv /\ RegisteredInv
  BY Zenon, BindingFacts DEF Init, ThreadsInv, FreshInv, AbsentInv, RegisteredInv
<1>3. AttachInv /\ OwedInv /\ DetachInv /\ PhaseInv /\ FinishInv /\ OneDetacher /\ SnapshotInv
  BY Zenon, BindingFacts DEF Init, AttachInv, OwedInv, DetachInv, PhaseInv, FinishInv, OneDetacher,
     SnapshotInv
<1>4. CountsExact
  <2>1. \A m \in Modules : BindingsOf(m) = {}
    BY Zenon DEF Init, BindingsOf
  <2> QED
    BY <2>1, FS_EmptySet, Zenon DEF Init, CountsExact
<1>5. ContextsCleanedOnce /\ BlocksOnlyIfPending /\ process # "invalid_handle"
  BY Zenon DEF Init, ContextsCleanedOnce, BlocksOnlyIfPending
<1> QED
  BY Zenon, <1>1, <1>2, <1>3, <1>4, <1>5 DEF IInv

\* Every step keeps the invariant.
LEMMA NextIInv ==
  ASSUME SafeInstance, IInv, [Next]_vars
  PROVE  IInv'
<1>1. ASSUME NEW m \in Modules, Add(m) \/ Deactivate(m)
      PROVE  IInv'
  BY Zenon, <1>1, AddStep, DeactivateStep
<1>2. ASSUME NEW m \in Modules, ThreadStep(m)
      PROVE  IInv'
  BY Zenon, <1>2, PerformBindStep, AttachRefusedStep, ClientAttachProviderStep, AttachOkStep,
     AttachFailedStep, PerformUnbindStep, UnbindAlreadyStartedStep, BeginUnbindStep, DetachedStep,
     DetachCompletesStep, RemoveStep, WaitedStep, WaitTimesOutStep DEF ThreadStep
<1>3. ASSUME NEW b \in Binding, CompletionStep(b)
      PROVE  IInv'
  BY Zenon, <1>3, BindingDetachProviderCompleteStep, BindingDetachClientCompleteStep,
     CompletionUnbindsStep DEF CompletionStep
<1>4. CASE Finished \/ UNCHANGED vars
  BY Zenon, <1>4, ProcessStops DEF Finished, vars
<1> QED
  BY Zenon, <1>1, <1>2, <1>3, <1>4 DEF Next

\* In every execution of every safe instance the inductive invariant holds: the
\* whole of the locking discipline of nmr_impl.cpp, thread by thread and
\* binding by binding.
THEOREM Invariance ==
  ASSUME SafeInstance
  PROVE  Spec => []IInv
<1>1. IInv /\ [Next]_vars => IInv'
  BY Zenon, NextIInv
<1> QED
  BY InitIInv, <1>1, PTL DEF Spec

\* The count that remove waits on is the number of bindings that refer to the
\* registration, for any number of clients and providers.
THEOREM CountsAlwaysExact ==
  ASSUME SafeInstance
  PROVE  Spec => []CountsExact
<1>1. IInv => CountsExact
  BY Zenon DEF IInv
<1> QED
  BY Invariance, <1>1, PTL

\* No registration is erased while a binding in the map, or one that a thread is
\* in a callback of, refers to it.
THEOREM NeverDangling ==
  ASSUME SafeInstance
  PROVE  Spec => []NoDanglingRegistration
<1>1. ASSUME IInv
      PROVE  NoDanglingRegistration
  <2>1. \A b \in bindings : b[1] \in registered /\ b[2] \in registered
    BY Zenon, <1>1 DEF IInv, RegisteredInv
  <2>2. \A m \in Modules : cur[m] # NoBinding => cur[m] \in bindings
    BY Zenon, <1>1, CurrentBinding DEF IInv, ThreadsInv
  <2>3. \A f \in finishing : f[1] \in bindings
    BY <1>1 DEF IInv, TypeOK, AbsentInv
  <2> QED
    BY Zenon, <2>1, <2>2, <2>3 DEF NoDanglingRegistration
<1> QED
  BY Invariance, <1>1, PTL

\* Each context is cleaned up exactly once, when its binding leaves the map.
THEOREM CleanedExactlyOnce ==
  ASSUME SafeInstance
  PROVE  Spec => []ContextsCleanedOnce
<1>1. IInv => ContextsCleanedOnce
  BY Zenon DEF IInv
<1> QED
  BY Invariance, <1>1, PTL

\* A completion that a module owes always finds its binding: the "invalid
\* handle" throw of binding_detach_*_complete is unreachable for it.
THEOREM CompletionsFindBinding ==
  ASSUME SafeInstance
  PROVE  Spec => []CompletionFindsBinding
<1>1. ASSUME IInv
      PROVE  CompletionFindsBinding
  BY <1>1 DEF IInv, TypeOK, AbsentInv, CompletionFindsBinding
<1> QED
  BY Invariance, <1>1, PTL

\* Of the threads that race to unbind a binding, one runs its detach callbacks.
THEOREM AtMostOneDetacher ==
  ASSUME SafeInstance
  PROVE  Spec => []OneDetacher
<1>1. IInv => OneDetacher
  BY Zenon DEF IInv
<1> QED
  BY Invariance, <1>1, PTL

\* A deregistration that reported success does not block in remove.
THEOREM BlocksOnlyWhenPending ==
  ASSUME SafeInstance
  PROVE  Spec => []BlocksOnlyIfPending
<1>1. IInv => BlocksOnlyIfPending
  BY Zenon DEF IInv
<1> QED
  BY Invariance, <1>1, PTL

\* The order of the statuses.
LEMMA RankOrder ==
  /\ Rank("Start") = 0 /\ Rank("Ready") = 1 /\ Rank("BeginUnbind") = 2
  /\ Rank("UnbindPending") = 3 /\ Rank("UnbindComplete") = 4
  BY Zenon DEF Rank

\* No status of a binding ever moves backwards, in particular from
\* UnbindComplete to UnbindPending.
THEOREM StatusesNeverRegress ==
  ASSUME SafeInstance
  PROVE  Spec => StatusNeverRegresses
<1> DEFINE Forward(b) == /\ Rank(client_binding_status'[b]) >= Rank(client_binding_status[b])
                         /\ Rank(provider_binding_status'[b]) >= Rank(provider_binding_status[b])
<1>1. ASSUME IInv, Next, NEW b \in Binding
      PROVE  Forward(b)
  <2>0. /\ client_binding_status \in [Binding -> BindingStatus]
        /\ provider_binding_status \in [Binding -> BindingStatus]
    BY Zenon, <1>1 DEF IInv, TypeOK
  <2>1. /\ Rank(client_binding_status[b]) \in 0..4
        /\ Rank(provider_binding_status[b]) \in 0..4
    BY <2>0, RankOrder DEF BindingStatus
  <2>2. CASE UNCHANGED statusVars
    BY <2>1, <2>2
  <2>3. ASSUME NEW m \in Modules, AttachOk(m)
        PROVE  Forward(b)
    <3>1. cur[m] \in Binding /\ Both(cur[m], "Start")
      BY Zenon, <1>1, <2>3, CurrentBinding DEF IInv, AttachInv, AttachOk
    <3>2. /\ client_binding_status' = [client_binding_status EXCEPT ![cur[m]] = "Ready"]
          /\ provider_binding_status' = [provider_binding_status EXCEPT ![cur[m]] = "Ready"]
      BY Zenon, <2>3 DEF AttachOk
    <3>3. CASE b = cur[m]
      BY <2>0, <3>1, <3>2, <3>3, RankOrder
    <3>4. CASE b # cur[m]
      BY <2>0, <2>1, <3>2, <3>4
    <3> QED
      BY <3>3, <3>4, Zenon
  <2>4. ASSUME NEW m \in Modules, NEW d \in Binding, BeginUnbind(m, d)
        PROVE  Forward(b)
    <3>1. /\ client_binding_status[d] = "Ready" /\ provider_binding_status[d] = "Ready"
          /\ client_binding_status' = [client_binding_status EXCEPT ![d] = "BeginUnbind"]
          /\ provider_binding_status' = [provider_binding_status EXCEPT ![d] = "BeginUnbind"]
      BY Zenon, <2>4 DEF BeginUnbind
    <3>2. CASE b = d
      BY <2>0, <3>1, <3>2, RankOrder
    <3>3. CASE b # d
      BY <2>0, <2>1, <3>1, <3>3
    <3> QED
      BY <3>2, <3>3, Zenon
  <2>5. ASSUME NEW m \in Modules, Detached(m)
        PROVE  Forward(b)
    <3>1. /\ cur[m] \in Binding
          /\ client_binding_status[cur[m]] \in {"BeginUnbind", "UnbindComplete"}
          /\ provider_binding_status[cur[m]] \in {"BeginUnbind", "UnbindComplete"}
      BY <1>1, <2>5, CurrentBinding, Zenon DEF IInv, DetachInv, DetachPhase, Detached
    <3> DEFINE cs == DetachedStatus(client_binding_status[cur[m]], "provider" \in detach_pending[m])
               ps == DetachedStatus(provider_binding_status[cur[m]], "client" \in detach_pending[m])
    <3>a. /\ client_binding_status' = [client_binding_status EXCEPT ![cur[m]] = cs]
          /\ provider_binding_status' = [provider_binding_status EXCEPT ![cur[m]] = ps]
      BY Zenon, <2>5 DEF Detached
    <3>b. /\ client_binding_status[cur[m]] = "UnbindComplete" => cs = "UnbindComplete"
          /\ provider_binding_status[cur[m]] = "UnbindComplete" => ps = "UnbindComplete"
          /\ cs \in {"UnbindPending", "UnbindComplete"}
          /\ ps \in {"UnbindPending", "UnbindComplete"}
      BY Zenon DEF DetachedStatus
    <3> HIDE DEF cs, ps
    <3>3. CASE b = cur[m]
      BY <2>0, <3>1, <3>a, <3>b, <3>3, RankOrder
    <3>4. CASE b # cur[m]
      BY <2>0, <2>1, <3>a, <3>4
    <3> QED
      BY <3>3, <3>4, Zenon
  <2>6. ASSUME NEW d \in Binding, BindingDetachProviderComplete(d), ~UNCHANGED statusVars
        PROVE  Forward(b)
    <3>1. /\ provider_binding_status[d] \in {"BeginUnbind", "UnbindPending"}
          /\ provider_binding_status' = [provider_binding_status EXCEPT ![d] = "UnbindComplete"]
          /\ client_binding_status' = client_binding_status
      BY <1>1, <2>6, BindingDetachProviderCompleteEffect, Zenon
    <3>2. CASE b = d
      BY <2>0, <2>1, <3>1, <3>2, RankOrder
    <3>3. CASE b # d
      BY <2>0, <2>1, <3>1, <3>3
    <3> QED
      BY <3>2, <3>3, Zenon
  <2>7. ASSUME NEW d \in Binding, BindingDetachClientComplete(d), ~UNCHANGED statusVars
        PROVE  Forward(b)
    <3>1. /\ client_binding_status[d] \in {"BeginUnbind", "UnbindPending"}
          /\ client_binding_status' = [client_binding_status EXCEPT ![d] = "UnbindComplete"]
          /\ provider_binding_status' = provider_binding_status
      BY <1>1, <2>7, BindingDetachClientCompleteEffect, Zenon
    <3>2. CASE b = d
      BY <2>0, <2>1, <3>1, <3>2, RankOrder
    <3>3. CASE b # d
      BY <2>0, <2>1, <3>1, <3>3
    <3> QED
      BY <3>2, <3>3, Zenon
  <2>8. ASSUME NEW m \in Modules, ThreadStep(m)
        PROVE  \/ UNCHANGED statusVars
               \/ AttachOk(m) \/ Detached(m) \/ \E d \in Binding : BeginUnbind(m, d)
    BY <2>8, Zenon
    DEF ThreadStep, PerformBind, AttachRefused, ClientAttachProvider, AttachFailed, PerformUnbind,
        UnbindAlreadyStarted, DetachCompletes, Remove, Waited, WaitTimesOut
  <2>9. ASSUME NEW m \in Modules, Add(m) \/ Deactivate(m)
        PROVE  UNCHANGED statusVars
    BY <2>9, Zenon DEF Add, Deactivate
  <2>10. ASSUME NEW d \in Binding, CompletionStep(d)
         PROVE  \/ UNCHANGED statusVars
                \/ BindingDetachProviderComplete(d) \/ BindingDetachClientComplete(d)
    BY <2>10, Zenon DEF CompletionStep, CompletionUnbinds
  <2>11. Finished => UNCHANGED statusVars
    BY Zenon DEF Finished, vars, statusVars
  <2> QED
    BY <1>1, <2>2, <2>3, <2>4, <2>5, <2>6, <2>7, <2>8, <2>9, <2>10, <2>11, Zenon DEF Next
<1>2. IInv /\ [Next]_vars => [\A b \in Binding : Forward(b)]_statusVars
  BY <1>1, Zenon DEF vars
<1> QED
  BY Invariance, <1>2, PTL DEF Spec, StatusNeverRegresses
=============================================================================
