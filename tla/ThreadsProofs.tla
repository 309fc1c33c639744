--------------------------- MODULE ThreadsProofs ---------------------------
(***************************************************************************)
(* What holds of any number of threads.  DISPATCH_LEVEL for any processors, *)
(* threads and spin locks: exclusion on each processor, no circular wait,   *)
(* and the affinity restored.  The calls that take several resources, for   *)
(* any callers, locks, buffers and names.                                   *)
(***************************************************************************)
EXTENDS Irql, Calls, TLAPS

\* The levels are ordered, and only the highest takes the dispatch lock.
LEMMA LevelFacts ==
  ASSUME NEW level \in Levels
  PROVE  /\ level \in Int
         /\ level <= DISPATCH_LEVEL
         /\ level >= DISPATCH_LEVEL <=> level = DISPATCH_LEVEL
         /\ level < DISPATCH_LEVEL <=> level # DISPATCH_LEVEL
BY DEF Levels, PASSIVE_LEVEL, APC_LEVEL, DISPATCH_LEVEL

\* The level is assigned before the priority is computed, so that the priority
\* never changes.
LEMMA PriorityUnchanged ==
  ASSUME NEW t \in Threads, NEW level \in Levels, SetPriorityByIrql(t, level, level)
  PROVE  UNCHANGED priorityVars
BY Zenon DEF SetPriorityByIrql

\* Setting the affinity leaves the thread on a processor it may run on, in
\* accordance with the cache unless the call did nothing.
LEMMA SetAffinityFacts ==
  ASSUME TypeOK, NEW t \in Threads, NEW mask \in SUBSET Cpus,
         cpu[t] \in affinity[t],
         affinity[t] = Allowed(cache[t]) \/ affinity[t] = {cpu[t]},
         SetCurrentThreadAffinity(t, mask)
  PROVE  /\ cpu' \in [Threads -> Cpus]
         /\ affinity' \in [Threads -> SUBSET Cpus]
         /\ cache' \in [Threads -> SUBSET Cpus]
         /\ cache'[t] = mask
         /\ cpu'[t] \in affinity'[t]
         /\ affinity'[t] = Allowed(mask) \/ affinity'[t] = {cpu'[t]}
         /\ affinity[t] = Allowed(cache[t]) => affinity'[t] = Allowed(mask)
         /\ \A s \in Threads : s # t =>
              cpu'[s] = cpu[s] /\ affinity'[s] = affinity[s] /\ cache'[s] = cache[s]
<1>1. CASE mask = cache[t]
  BY Zenon, <1>1 DEF SetCurrentThreadAffinity, TypeOK
<1>2. CASE mask # cache[t]
  <2>1. Allowed(mask) \subseteq Cpus
    BY Zenon DEF Allowed
  <2>2. affinity' = [affinity EXCEPT ![t] = Allowed(mask)] /\ cache' = [cache EXCEPT ![t] = mask]
    BY Zenon, <1>2 DEF SetCurrentThreadAffinity
  <2>3. \E p \in Allowed(mask) : cpu' = [cpu EXCEPT ![t] = p]
    <3>1. CASE cpu[t] \in Allowed(mask)
      BY <1>2, <3>1 DEF SetCurrentThreadAffinity, TypeOK
    <3>2. CASE cpu[t] \notin Allowed(mask)
      BY Zenon, <1>2, <3>2 DEF SetCurrentThreadAffinity
    <3> QED
      BY Zenon, <3>1, <3>2
  <2> QED
    BY Zenon, <2>1, <2>2, <2>3 DEF TypeOK
<1> QED
  BY Zenon, <1>1, <1>2

\* A thread that enters DISPATCH_LEVEL is pinned to the processor it was on.
LEMMA PinFacts ==
  ASSUME TypeOK, NEW t \in Threads,
         cpu[t] \in affinity[t],
         affinity[t] = Allowed(cache[t]) \/ affinity[t] = {cpu[t]},
         Pin(t)
  PROVE  /\ cpu' = cpu
         /\ affinity' = [affinity EXCEPT ![t] = {cpu[t]}]
         /\ cache' = [cache EXCEPT ![t] = {cpu[t]}]
         /\ before_raise' = [before_raise EXCEPT ![t] = cache[t]]
         /\ wanted' = wanted
<1>0. Allowed({cpu[t]}) = {cpu[t]}
  BY Zenon DEF Allowed
<1>1. CASE {cpu[t]} = cache[t]
  BY Zenon, <1>0, <1>1 DEF Pin, SetCurrentThreadAffinity, TypeOK
<1>2. CASE {cpu[t]} # cache[t]
  BY Zenon, <1>0, <1>2 DEF Pin, SetCurrentThreadAffinity, TypeOK
<1> QED
  BY Zenon, <1>1, <1>2

\* At first no thread is above PASSIVE_LEVEL.
LEMMA InitInv == Init => IInv
BY IrqlAssumption
DEF Init, IInv, TypeOK, AtDispatch, NoCircularWait, AffinityRestored, AffinityAsWanted, Allowed, Levels, Priorities,
    PASSIVE_LEVEL, APC_LEVEL, DISPATCH_LEVEL

\* A thread at DISPATCH_LEVEL does not migrate.
LEMMA MigrateInv ==
  ASSUME IInv, NEW t \in Threads, Migrate(t)
  PROVE  IInv'
<1>1. PICK p \in affinity[t] \ {cpu[t]} : cpu' = [cpu EXCEPT ![t] = p]
  BY Zenon DEF Migrate
<1>2. ~(irql[t] >= DISPATCH_LEVEL)
  BY Zenon DEF Migrate, IInv
<1>3. p \in Cpus
  BY Zenon DEF IInv, TypeOK
<1>4. TypeOK'
  BY Zenon, <1>1, <1>3 DEF Migrate, priorityVars, lockVars, IInv, TypeOK
<1>5. affinity[t] = Allowed(cache[t])
  BY Zenon, <1>1 DEF IInv
<1>6. \A s \in Threads : irql[s] >= DISPATCH_LEVEL => cpu'[s] = cpu[s]
  BY <1>1, <1>2 DEF IInv, TypeOK
<1> QED
  BY <1>1, <1>2, <1>4, <1>5, <1>6
  DEF Migrate, priorityVars, lockVars, IInv, TypeOK, AtDispatch, NoCircularWait, AffinityRestored, AffinityAsWanted

\* A new affinity takes effect at once below DISPATCH_LEVEL, and does not move
\* the thread at DISPATCH_LEVEL.
LEMMA SetAffinityInv ==
  ASSUME IInv, NEW t \in Threads, NEW mask \in Masks, KeSetSystemAffinityThreadEx(t, mask)
  PROVE  IInv'
<1>0. mask \in SUBSET Cpus
  BY Zenon, IrqlAssumption
<1>1. CASE irql[t] >= DISPATCH_LEVEL
  <2>1. t \in AffinityAtDispatch
    BY Zenon, <1>1 DEF KeSetSystemAffinityThreadEx
  <2>2. TypeOK'
    BY <1>0, <1>1 DEF KeSetSystemAffinityThreadEx, priorityVars, lockVars, IInv, TypeOK
  <2> QED
    BY <1>1, <2>1, <2>2
    DEF KeSetSystemAffinityThreadEx, priorityVars, lockVars, IInv, TypeOK, AtDispatch, NoCircularWait,
        AffinityRestored, AffinityAsWanted
<1>2. CASE ~(irql[t] >= DISPATCH_LEVEL)
  <2>1. /\ SetCurrentThreadAffinity(t, mask)
        /\ UNCHANGED <<before_raise, irql, priorityVars, pc, want, lockVars>>
        /\ wanted' = [wanted EXCEPT ![t] = mask]
    BY Zenon, <1>2 DEF KeSetSystemAffinityThreadEx
  <2> DEFINE facts ==
        /\ cpu' \in [Threads -> Cpus]
        /\ affinity' \in [Threads -> SUBSET Cpus]
        /\ cache' \in [Threads -> SUBSET Cpus]
        /\ cache'[t] = mask
        /\ cpu'[t] \in affinity'[t]
        /\ affinity'[t] = Allowed(mask) \/ affinity'[t] = {cpu'[t]}
        /\ affinity[t] = Allowed(cache[t]) => affinity'[t] = Allowed(mask)
        /\ \A s \in Threads : s # t =>
             cpu'[s] = cpu[s] /\ affinity'[s] = affinity[s] /\ cache'[s] = cache[s]
  <2>2. facts
    BY Zenon, <1>0, <2>1, SetAffinityFacts DEF IInv
  <2>3. TypeOK'
    BY Zenon, <1>0, <2>1, <2>2 DEF priorityVars, lockVars, IInv, TypeOK
  <2>4. t \notin AffinityAtDispatch => affinity[t] = Allowed(cache[t])
    BY Zenon, <1>2, LevelFacts DEF IInv, AffinityRestored, AffinityAsWanted, TypeOK
  <2>5. \A s \in Threads : irql[s] >= DISPATCH_LEVEL => s # t
    BY Zenon, <1>2
  <2>6. NoCircularWait'
    BY Zenon, <2>1 DEF lockVars, IInv, NoCircularWait, AtDispatch
  <2>7. AffinityRestored'
    BY <2>1, <2>2, <2>4 DEF IInv, AffinityRestored, AffinityAsWanted, TypeOK
  <2> QED
    BY <2>1, <2>2, <2>3, <2>5, <2>6, <2>7 DEF priorityVars, lockVars, IInv, TypeOK, AtDispatch
<1> QED
  BY Zenon, <1>1, <1>2

\* Raising the level pins a thread that was below DISPATCH_LEVEL; it holds no
\* dispatch lock then and does not run at that level before it has one.
LEMMA RaiseInv ==
  ASSUME IInv, NEW t \in Threads, NEW level \in Levels, level >= irql[t], pc[t] = "running",
         \/ want' = want
         \/ level = DISPATCH_LEVEL /\ \E l \in SpinLocks : want' = [want EXCEPT ![t] = l],
         RaiseTo(t, level)
  PROVE  IInv'
<1>0. irql[t] \in Levels /\ want[t] = NoLock
  BY Zenon DEF IInv, TypeOK
<1>1. UNCHANGED <<priorityVars, lockVars>> /\ irql' = [irql EXCEPT ![t] = level]
  BY Zenon, PriorityUnchanged DEF RaiseTo
<1>2. want' \in [Threads -> SpinLocks \cup {NoLock}] /\ \A s \in Threads : s # t => want'[s] = want[s]
  BY DEF IInv, TypeOK
<1>3. CASE level >= DISPATCH_LEVEL /\ irql[t] < DISPATCH_LEVEL
  <2>1. Pin(t) /\ pc' = [pc EXCEPT ![t] = "locking"]
    BY Zenon, <1>3 DEF RaiseTo
  <2>2. /\ cpu' = cpu
        /\ affinity' = [affinity EXCEPT ![t] = {cpu[t]}]
        /\ cache' = [cache EXCEPT ![t] = {cpu[t]}]
        /\ before_raise' = [before_raise EXCEPT ![t] = cache[t]]
        /\ wanted' = wanted
    BY Zenon, <2>1, PinFacts DEF IInv
  <2>3. TypeOK'
    BY <1>1, <1>2, <2>1, <2>2 DEF priorityVars, lockVars, IInv, TypeOK
  <2>4. \A p \in Cpus : dispatch_lock[p] # t
    BY Zenon, <1>0, <1>3, LevelFacts DEF IInv, AtDispatch
  <2>5. \A l \in SpinLocks : spin[l] # t
    BY <1>0, <1>3, LevelFacts DEF IInv, NoCircularWait, AtDispatch
  <2>6. \A s \in Threads : s # t => (AtDispatch(s)' <=> AtDispatch(s))
    BY <1>1, <2>1 DEF AtDispatch, IInv, TypeOK
  <2>7. NoCircularWait'
    BY Zenon, <1>1, <2>5, <2>6 DEF lockVars, IInv, NoCircularWait
  <2>8. AffinityRestored' /\ (t \notin AffinityAtDispatch => cache[t] = wanted[t])
    BY <1>0, <1>1, <1>3, <2>2, LevelFacts DEF IInv, AffinityRestored, AffinityAsWanted, TypeOK
  <2>9. ~AtDispatch(t)'
    BY Zenon, <2>1 DEF AtDispatch, IInv, TypeOK
  <2>10. irql'[t] >= DISPATCH_LEVEL /\ pc'[t] = "locking"
    BY <1>1, <1>3, <2>1 DEF IInv, TypeOK
  <2> QED
    BY <1>1, <1>2, <2>1, <2>2, <2>3, <2>4, <2>6, <2>7, <2>8, <2>9, <2>10
    DEF lockVars, IInv, TypeOK
<1>4. CASE ~(level >= DISPATCH_LEVEL /\ irql[t] < DISPATCH_LEVEL)
  <2>1. /\ UNCHANGED affinityVars
        /\ pc' = [pc EXCEPT ![t] = IF want'[t] = NoLock THEN "running" ELSE "spinning"]
    BY Zenon, <1>4 DEF RaiseTo
  <2>2. level >= DISPATCH_LEVEL <=> irql[t] >= DISPATCH_LEVEL
    BY Zenon, <1>0, <1>4, LevelFacts
  <2>3. level < DISPATCH_LEVEL <=> irql[t] < DISPATCH_LEVEL
    BY Zenon, <1>0, <1>4, LevelFacts
  <2>4. TypeOK'
    BY Zenon, <1>1, <1>2, <2>1 DEF affinityVars, priorityVars, lockVars, IInv, TypeOK
  <2>5. \A s \in Threads : AtDispatch(s)' <=> AtDispatch(s)
    BY <1>1, <2>1, <2>2 DEF AtDispatch, IInv, TypeOK
  <2>6. \A s \in Threads : (irql'[s] >= DISPATCH_LEVEL <=> irql[s] >= DISPATCH_LEVEL)
                           /\ (irql'[s] < DISPATCH_LEVEL <=> irql[s] < DISPATCH_LEVEL)
    BY <1>1, <2>2, <2>3 DEF IInv, TypeOK
  <2>7. NoCircularWait'
    BY Zenon, <1>1, <2>5 DEF lockVars, IInv, NoCircularWait
  <2>8. AffinityRestored'
    BY Zenon, <2>1, <2>6 DEF affinityVars, IInv, AffinityRestored, AffinityAsWanted
  <2>9. /\ pc'[t] \in {"running", "lowering"} => want'[t] = NoLock
        /\ pc'[t] = "spinning" => want'[t] \in SpinLocks
        /\ pc'[t] # "running" => irql'[t] >= DISPATCH_LEVEL
    BY <1>0, <1>1, <1>2, <2>1, LevelFacts DEF IInv, TypeOK
  <2>10. \A s \in Threads : s # t => pc'[s] = pc[s]
    BY <2>1 DEF IInv, TypeOK
  <2> QED
    BY <1>1, <1>2, <2>1, <2>4, <2>5, <2>6, <2>7, <2>8, <2>9, <2>10
    DEF affinityVars, lockVars, IInv
<1> QED
  BY Zenon, <1>3, <1>4

\* The dispatch lock is taken on the processor the thread is pinned to.
LEMMA LockDispatchInv ==
  ASSUME IInv, NEW t \in Threads, LockDispatch(t)
  PROVE  IInv'
<1>0. cpu[t] \in Cpus /\ irql[t] >= DISPATCH_LEVEL
  BY Zenon DEF LockDispatch, IInv, TypeOK
<1>1. TypeOK'
  BY Zenon, <1>0 DEF LockDispatch, affinityVars, priorityVars, IInv, TypeOK
<1>2. \A s \in Threads : AtDispatch(s)' <=> AtDispatch(s) \/ s = t
  BY <1>0 DEF LockDispatch, AtDispatch, IInv, TypeOK
<1>3. NoCircularWait'
  BY <1>2, IrqlAssumption DEF LockDispatch, IInv, NoCircularWait, TypeOK
<1>4. /\ pc'[t] \in {"running", "lowering"} => want'[t] = NoLock
      /\ pc'[t] = "spinning" => want'[t] \in SpinLocks
  BY DEF LockDispatch, IInv, TypeOK
<1>5. AffinityRestored'
  BY Zenon DEF LockDispatch, affinityVars, IInv, AffinityRestored, AffinityAsWanted
<1>6. \A s \in Threads : AtDispatch(s)' => dispatch_lock'[cpu[s]] = s
  BY <1>0, <1>2, IrqlAssumption DEF LockDispatch, IInv, TypeOK
<1>7. \A s \in Threads : \A p \in Cpus : dispatch_lock'[p] = s => cpu[s] = p /\ AtDispatch(s)'
  BY <1>0, <1>2, IrqlAssumption DEF LockDispatch, IInv, TypeOK
<1>8. \A p, q \in Cpus : dispatch_lock'[p] = q => p = q
  BY <1>0, IrqlAssumption DEF LockDispatch, IInv, TypeOK
<1> QED
  BY <1>0, <1>1, <1>3, <1>4, <1>5, <1>6, <1>7, <1>8
  DEF LockDispatch, affinityVars, priorityVars, IInv, TypeOK

\* A spin lock is taken at DISPATCH_LEVEL.
LEMMA LockSpinInv ==
  ASSUME IInv, NEW t \in Threads, LockSpin(t)
  PROVE  IInv'
<1>0. want[t] \in SpinLocks /\ AtDispatch(t) /\ t \notin Cpus
  BY Zenon, IrqlAssumption DEF LockSpin, AtDispatch, IInv, TypeOK
<1>1. TypeOK'
  BY Zenon, <1>0 DEF LockSpin, affinityVars, priorityVars, IInv, TypeOK
<1>2. \A s \in Threads : AtDispatch(s)' <=> AtDispatch(s)
  BY DEF LockSpin, AtDispatch, IInv, TypeOK
<1>3. NoCircularWait'
  BY <1>0, <1>2 DEF LockSpin, IInv, NoCircularWait, TypeOK
<1>4. AffinityRestored'
  BY Zenon DEF LockSpin, affinityVars, IInv, AffinityRestored, AffinityAsWanted
<1> QED
  BY <1>0, <1>1, <1>2, <1>3, <1>4 DEF LockSpin, affinityVars, priorityVars, IInv, TypeOK

\* Lowering the level releases the lock that the thread took, and then lets the
\* thread go.
LEMMA LowerInv ==
  ASSUME IInv, NEW t \in Threads, NEW level \in Levels, KeLowerIrql(t, level)
  PROVE  IInv'
<1>0. irql[t] \in Levels /\ cpu[t] \in Cpus /\ level <= irql[t] /\ want[t] = NoLock /\ pc[t] # "locking"
  BY Zenon DEF KeLowerIrql, IInv, TypeOK
<1>1. /\ UNCHANGED <<priorityVars, want, spin>>
      /\ irql' = [irql EXCEPT ![t] = level]
      /\ pc' = [pc EXCEPT ![t] = "running"]
  BY Zenon, PriorityUnchanged DEF KeLowerIrql
<1>2. CASE irql[t] >= DISPATCH_LEVEL /\ level < DISPATCH_LEVEL
  <2>1. /\ dispatch_lock' = [dispatch_lock EXCEPT ![cpu[t]] = NoOne]
        /\ SetCurrentThreadAffinity(t, before_raise[t])
        /\ UNCHANGED <<before_raise, wanted>>
        /\ \A l \in SpinLocks : spin[l] # t
    BY Zenon, <1>2 DEF KeLowerIrql
  <2>2. AtDispatch(t) /\ dispatch_lock[cpu[t]] = t
    BY Zenon, <1>0, <1>2 DEF IInv, AtDispatch
  <2> DEFINE mask == before_raise[t]
  <2>3. mask \in SUBSET Cpus
    BY Zenon DEF IInv, TypeOK
  <2> HIDE DEF mask
  <2>4. /\ cpu' \in [Threads -> Cpus]
        /\ affinity' \in [Threads -> SUBSET Cpus]
        /\ cache' \in [Threads -> SUBSET Cpus]
        /\ cache'[t] = mask
        /\ cpu'[t] \in affinity'[t]
        /\ affinity'[t] = Allowed(mask) \/ affinity'[t] = {cpu'[t]}
        /\ affinity[t] = Allowed(cache[t]) => affinity'[t] = Allowed(mask)
        /\ \A s \in Threads : s # t =>
             cpu'[s] = cpu[s] /\ affinity'[s] = affinity[s] /\ cache'[s] = cache[s]
    BY Zenon, <2>1, <2>3, SetAffinityFacts DEF IInv, mask
  <2>5. TypeOK'
    BY Zenon, <1>1, <2>1, <2>4 DEF priorityVars, IInv, TypeOK
  <2>6. \A s \in Threads : AtDispatch(s)' <=> AtDispatch(s) /\ s # t
    BY <1>1, <1>2, LevelFacts DEF AtDispatch, IInv, TypeOK
  <2>7. \A p \in Cpus : p # cpu[t] => dispatch_lock'[p] = dispatch_lock[p]
    BY <2>1 DEF IInv, TypeOK
  <2>8. dispatch_lock'[cpu[t]] = NoOne
    BY <1>0, <2>1 DEF IInv, TypeOK
  <2>9. NoCircularWait'
    BY SMTT(30), <1>0, <1>1, <2>1, <2>2, <2>6, <2>7, IrqlAssumption DEF IInv, NoCircularWait
  <2>10. /\ AffinityRestored'
         /\ \A s \in Threads \ AffinityAtDispatch : irql'[s] >= DISPATCH_LEVEL =>
              before_raise'[s] = wanted'[s] /\ cache'[s] = {cpu'[s]}
    <3>1. t \notin AffinityAtDispatch => affinity[t] = Allowed(cache[t]) /\ mask = wanted[t]
      BY Zenon, <1>2 DEF IInv, Allowed, mask
    <3> QED
      BY <1>1, <1>2, <2>1, <2>4, <3>1, LevelFacts DEF IInv, AffinityRestored, AffinityAsWanted,
         TypeOK
  <2>11. \A s \in Threads : s # t => cpu[s] # cpu[t] \/ ~AtDispatch(s)
    BY Zenon, <2>2 DEF IInv
  <2>12. \A s \in Threads : AtDispatch(s)' => dispatch_lock'[cpu'[s]] = s
    BY SMTT(30), <2>4, <2>6, <2>7, <2>11 DEF IInv, TypeOK
  <2>13. \A s \in Threads : \A p \in Cpus : dispatch_lock'[p] = s => cpu'[s] = p /\ AtDispatch(s)'
    BY <2>2, <2>4, <2>6, <2>7, <2>8, IrqlAssumption DEF IInv
  <2>14. \A p, q \in Cpus : dispatch_lock'[p] = q => p = q
    BY <2>7, <2>8, IrqlAssumption DEF IInv
  <2>15. \A s \in Threads : /\ cpu'[s] \in affinity'[s]
                            /\ irql'[s] >= DISPATCH_LEVEL => affinity'[s] = {cpu'[s]}
                            /\ affinity'[s] = Allowed(cache'[s]) \/ affinity'[s] = {cpu'[s]}
                            /\ pc'[s] # "running" => irql'[s] >= DISPATCH_LEVEL
                            /\ pc'[s] \in {"running", "lowering"} => want'[s] = NoLock
                            /\ pc'[s] = "spinning" => want'[s] \in SpinLocks
    <3>1. ASSUME NEW s \in Threads, s # t
          PROVE  irql'[s] = irql[s] /\ cpu'[s] = cpu[s] /\ affinity'[s] = affinity[s] /\ cache'[s] = cache[s]
      BY <1>1, <2>4, <3>1 DEF IInv, TypeOK
    <3>2. irql'[t] = level /\ ~(level >= DISPATCH_LEVEL)
      BY <1>1, <1>2, LevelFacts DEF IInv, TypeOK
    <3>3. pc'[t] = "running" /\ \A s \in Threads : s # t => pc'[s] = pc[s]
      BY <1>1 DEF IInv, TypeOK
    <3> QED
      BY SMTT(30), <1>0, <1>1, <2>4, <3>1, <3>2, <3>3 DEF IInv
  <2> QED
    BY Zenon, <2>5, <2>9, <2>10, <2>12, <2>13, <2>14, <2>15 DEF IInv
<1>3. CASE ~(irql[t] >= DISPATCH_LEVEL /\ level < DISPATCH_LEVEL)
  <2>1. UNCHANGED <<affinityVars, dispatch_lock>>
    BY Zenon, <1>3 DEF KeLowerIrql
  <2>2. \A s \in Threads : (irql'[s] >= DISPATCH_LEVEL <=> irql[s] >= DISPATCH_LEVEL)
                           /\ (irql'[s] < DISPATCH_LEVEL <=> irql[s] < DISPATCH_LEVEL)
    BY <1>0, <1>1, <1>3, LevelFacts DEF IInv, TypeOK
  <2>3. \A s \in Threads : AtDispatch(s)' <=> AtDispatch(s)
    BY <1>0, <1>1, <2>2 DEF AtDispatch, IInv, TypeOK
  <2>4. TypeOK'
    BY Zenon, <1>1, <2>1 DEF affinityVars, priorityVars, IInv, TypeOK
  <2>5. NoCircularWait'
    BY Zenon, <1>1, <2>1, <2>3 DEF IInv, NoCircularWait
  <2>6. AffinityRestored'
    BY Zenon, <2>1, <2>2 DEF affinityVars, IInv, AffinityRestored, AffinityAsWanted
  <2>7. pc'[t] = "running" /\ \A s \in Threads : s # t => pc'[s] = pc[s]
    BY <1>1 DEF IInv, TypeOK
  <2> QED
    BY SMTT(30), <1>0, <1>1, <2>1, <2>2, <2>3, <2>4, <2>5, <2>6, <2>7 DEF affinityVars, IInv
<1> QED
  BY Zenon, <1>2, <1>3

\* Releasing a spin lock affects no dispatch lock.
LEMMA ReleaseSpinInv ==
  ASSUME IInv, NEW t \in Threads, NEW l \in SpinLocks,
         KeReleaseSpinLock(t, l) \/ KeReleaseSpinLockFromDpcLevel(t, l)
  PROVE  IInv'
<1>0. /\ Unspin(t, l) /\ pc[t] = "running"
      /\ pc' = pc \/ pc' = [pc EXCEPT ![t] = "lowering"]
  BY Zenon DEF KeReleaseSpinLock, KeReleaseSpinLockFromDpcLevel, Unspin
<1>1. TypeOK'
  BY <1>0 DEF Unspin, affinityVars, priorityVars, IInv, TypeOK
<1>2. \A s \in Threads : AtDispatch(s)' <=> AtDispatch(s)
  BY <1>0 DEF Unspin, AtDispatch, IInv, TypeOK
<1>3. NoCircularWait'
  BY <1>0, <1>2, IrqlAssumption DEF Unspin, IInv, NoCircularWait, TypeOK
<1>4. irql[t] >= DISPATCH_LEVEL /\ want[t] = NoLock
  BY Zenon, <1>0 DEF Unspin, IInv, NoCircularWait, AtDispatch
<1>5. pc'[t] # "spinning" /\ \A s \in Threads : s # t => pc'[s] = pc[s]
  BY <1>0 DEF IInv, TypeOK
<1>6. AffinityRestored' <=> AffinityRestored
  BY Zenon, <1>0 DEF Unspin, affinityVars, AffinityRestored, AffinityAsWanted
<1> QED
  BY SMTT(30), <1>0, <1>1, <1>2, <1>3, <1>4, <1>5, <1>6 DEF Unspin, affinityVars, priorityVars, IInv

\* A DPC thread takes and releases the dispatch lock of its own processor, and
\* spin locks only in between.
LEMMA DpcInv ==
  ASSUME IInv, NEW p \in Cpus, StartDpc(p) \/ FinishDpc(p) \/ \E l \in SpinLocks : DpcSpin(p, l)
  PROVE  IInv'
<1>0. UNCHANGED <<affinityVars, irql, priorityVars, pc, want>>
  BY Zenon DEF StartDpc, FinishDpc, DpcSpin
<1>1. TypeOK'
  BY <1>0 DEF StartDpc, FinishDpc, DpcSpin, affinityVars, priorityVars, IInv, TypeOK
<1>2. \A s \in Threads : AtDispatch(s)' <=> AtDispatch(s)
  BY Zenon, <1>0 DEF AtDispatch
<1>3. \A q \in Cpus : dispatch_lock[q] \in Threads => dispatch_lock'[q] = dispatch_lock[q]
  BY IrqlAssumption DEF StartDpc, FinishDpc, DpcSpin, IInv, TypeOK
<1>4. \A q \in Cpus : dispatch_lock'[q] \in Threads => dispatch_lock'[q] = dispatch_lock[q]
  BY IrqlAssumption DEF StartDpc, FinishDpc, DpcSpin, IInv, TypeOK
<1>5. \A q, r \in Cpus : dispatch_lock'[q] = r => q = r
  BY IrqlAssumption DEF StartDpc, FinishDpc, DpcSpin, IInv, TypeOK
<1>6. NoCircularWait'
  <2>1. CASE StartDpc(p)
    BY <1>2, <2>1, IrqlAssumption DEF StartDpc, IInv, NoCircularWait, TypeOK
  <2>2. CASE FinishDpc(p)
    BY <1>2, <2>2, IrqlAssumption DEF FinishDpc, IInv, NoCircularWait, TypeOK
  <2>3. ASSUME NEW l \in SpinLocks, DpcSpin(p, l)
        PROVE  NoCircularWait'
    BY <1>2, <2>3, IrqlAssumption DEF DpcSpin, IInv, NoCircularWait, TypeOK
  <2> QED
    BY Zenon, <2>1, <2>2, <2>3
<1>7. \A s \in Threads : cpu[s] \in Cpus
  BY DEF IInv, TypeOK
<1> QED
  BY <1>0, <1>1, <1>2, <1>3, <1>4, <1>5, <1>6, <1>7
  DEF affinityVars, priorityVars, IInv, AffinityRestored, AffinityAsWanted

\* Every step preserves the invariant.
LEMMA NextInv == IInv /\ [Next]_vars => IInv'
<1> SUFFICES ASSUME IInv, [Next]_vars PROVE IInv'
  OBVIOUS
<1>1. CASE UNCHANGED vars
  BY SMTT(30), <1>1
  DEF vars, affinityVars, priorityVars, lockVars, IInv, TypeOK, AtDispatch, NoCircularWait,
      AffinityRestored, AffinityAsWanted
<1>2. ASSUME NEW t \in Threads, NEW level \in Levels, KeRaiseIrql(t, level)
      PROVE  IInv'
  BY Zenon, <1>2, RaiseInv DEF KeRaiseIrql
<1>3. ASSUME NEW t \in Threads, NEW l \in SpinLocks, KeAcquireSpinLock(t, l)
      PROVE  IInv'
  <2>1. DISPATCH_LEVEL \in Levels /\ irql[t] \in Levels
    BY Zenon DEF Levels, IInv, TypeOK
  <2>2. DISPATCH_LEVEL >= irql[t]
    BY Zenon, <2>1, LevelFacts
  <2> QED
    BY Zenon, <1>3, <2>1, <2>2, RaiseInv DEF KeAcquireSpinLock
<1> QED
  BY Zenon, <1>1, <1>2, <1>3, MigrateInv, SetAffinityInv, LockDispatchInv, LockSpinInv, LowerInv,
     ReleaseSpinInv, DpcInv
  DEF Next

\* The invariant holds in every reachable state.
THEOREM Invariance == Spec => []IInv
BY InitInv, NextInv, PTL DEF Spec

\* On every processor the threads at DISPATCH_LEVEL and the DPC routines exclude
\* each other, whatever affinities threads ask for and when.
THEOREM DispatchExcludes == Spec => []DispatchExclusion
<1>1. IInv => DispatchExclusion
  BY Zenon DEF IInv, DispatchExclusion
<1> QED
  BY <1>1, Invariance, PTL

\* The holder of a spin lock never waits for a dispatch lock.
THEOREM NeverCircular == Spec => []NoCircularWait
<1>1. IInv => NoCircularWait
  BY Zenon DEF IInv
<1> QED
  BY <1>1, Invariance, PTL

\* Lowering the level restores the affinity of a thread that does not change
\* it at DISPATCH_LEVEL, whatever the other threads do.
THEOREM AffinityAlwaysRestored == Spec => []AffinityRestored
<1>1. IInv => AffinityRestored
  BY Zenon DEF IInv
<1> QED
  BY <1>1, Invariance, PTL

-----------------------------------------------------------------------------
(* Calls.  The invariant says of every call what it holds and how it will    *)
(* answer, place by place.                                                  *)

\* A record with the fields of a call.
IsCall(r) ==
  r \in [at : {r.at}, fn : {r.fn}, held : {r.held}, status : {r.status}, failed : {r.failed},
         locked : {r.locked}, name : {r.name}, domain : {r.domain},
         name_chars : {r.name_chars}, domain_chars : {r.domain_chars}]

\* No step was refused yet; one was, and the clean-up follows; either the
\* clean-up after a refusal or the one after a success follows.
Running(r, fn, held) == r.fn = fn /\ r.held = held /\ r.status = "none" /\ ~r.failed
Failing(r, fn, most) == r.fn = fn /\ r.held \subseteq most /\ r.status = "failure" /\ r.failed
Ending(r, fn, most) ==
  Failing(r, fn, most) \/ (r.fn = fn /\ r.held \subseteq most /\ r.status = "success" /\ ~r.failed)

LegalChecks(r) ==
  /\ r.at = "ac fault" => Running(r, "usersim_access_check", {})
  /\ r.at = "ImpersonateSelf" => Running(r, "usersim_access_check", {})
  /\ r.at = "OpenThreadToken" => Running(r, "usersim_access_check", {"impersonation"})
  /\ r.at = "AccessCheck" => Running(r, "usersim_access_check", {"token", "impersonation"})
  /\ r.at = "ac done" => Ending(r, "usersim_access_check", {"token", "impersonation"})
  /\ r.at \in {"vs fault", "IsValidSecurityDescriptor", "GetSecurityDescriptorControl", "self relative",
               "vs length"} => Running(r, "usersim_validate_security_descriptor", {})
  /\ r.at \in {"ai fault", "ai size", "ai allocate"} =>
       Running(r, "usersim_platform_get_authentication_id", {})
  /\ r.at = "ai get" => Running(r, "usersim_platform_get_authentication_id", {"privileges"})
  /\ r.at = "ai exit" => Ending(r, "usersim_platform_get_authentication_id", {"privileges"})
  /\ r.at \in {"ta size", "ta allocate"} => Running(r, "SeAccessCheck", {})
  /\ r.at = "SeAccessCheckFromState" => Running(r, "SeAccessCheck", {"access information"})
  /\ r.at = "ta done" => Ending(r, "SeAccessCheck", {"access information"})

LegalQueries(r) ==
  /\ r.at \in {"qa fault", "qa get"} => Running(r, "SeQueryAuthenticationIdToken", {})
  /\ r.at \in {"qi fault", "qi size", "qi allocate"} => Running(r, "SeQueryInformationToken", {})
  /\ r.at = "qi get" => Running(r, "SeQueryInformationToken", {"token information"})
  /\ r.at = "qi free" => Failing(r, "SeQueryInformationToken", {"token information"})

\* The names are whole.
Whole(chars, buffer) == buffer = << >> \/ WCHAR * chars <= buffer[1]
Answered(r) ==
  r.status = "success" <=>
    ~(r.name = << >> /\ r.domain = << >>) /\ Whole(r.name_chars, r.name) /\ Whole(r.domain_chars, r.domain)

LookingUp(r, held) ==
  /\ Running(r, "SecLookupAccountSid", held)
  /\ r.name \in AccountBuffers /\ r.domain \in AccountBuffers
Asked(r, least) ==
  /\ ~(r.name = << >> /\ r.domain = << >>)
  /\ r.name_chars \in Nat /\ r.domain_chars \in Nat
  /\ least <= r.name_chars /\ least <= r.domain_chars

LegalNames(r) ==
  /\ r.at \in {"la fault", "la size"} => LookingUp(r, {})
  /\ r.at = "la name" => LookingUp(r, {}) /\ Asked(r, 1)
  /\ r.at = "la domain" => LookingUp(r, {"name"}) /\ Asked(r, 1)
  /\ r.at = "LookupAccountSidW" => LookingUp(r, {"name", "domain"}) /\ Asked(r, 1)
  /\ r.at = "la copy" => LookingUp(r, {"name", "domain"}) /\ Asked(r, 0)
  /\ r.at = "la free" =>
       /\ r.fn = "SecLookupAccountSid" /\ r.held \subseteq {"name", "domain"}
       /\ \/ r.status = "failure" /\ r.failed
          \/ r.status \in {"success", "too small"} /\ ~r.failed /\ Answered(r)

RingBuffer == "usersim_allocate_ring_buffer_memory"
RingHolds(r, held) == r.fn = RingBuffer /\ r.held = held /\ r.status = "success"

LegalRing(r) ==
  /\ r.at \in {"rb length", "rb descriptor"} => Running(r, RingBuffer, {})
  /\ r.at = "VirtualAlloc2" => Running(r, RingBuffer, {"descriptor"})
  /\ r.at = "rb split" => Running(r, RingBuffer, {"descriptor", "placeholder1"})
  /\ r.at = "CreateFileMapping" => RingHolds(r, {"descriptor", "placeholder1", "placeholder2"})
  /\ r.at = "rb view1" => RingHolds(r, {"descriptor", "placeholder1", "placeholder2", "section"})
  /\ r.at = "rb view2" => RingHolds(r, {"descriptor", "view1", "placeholder2", "section"})
  /\ r.at = "rb exit" =>
       /\ r.fn = RingBuffer
       /\ \/ r.held \subseteq RingLocals \cup {"descriptor"}
          \/ RingHolds(r, {"descriptor", "primary_view", "secondary_view", "section"})

LegalResults(r) ==
  /\ r.at \in {"us size", "us allocate"} => Running(r, "usersim_utf8_string_to_unicode", {})
  /\ r.at = "us convert" => Running(r, "usersim_utf8_string_to_unicode", {"unicode string"})
  /\ r.at = "us done" => Failing(r, "usersim_utf8_string_to_unicode", {"unicode string"})
  /\ r.at \in {"mp module", "mp name", "mp size", "mp allocate"} =>
       Running(r, "cxplat_get_module_path_from_address", {})
  /\ r.at = "mp convert" => Running(r, "cxplat_get_module_path_from_address", {"path"})
  /\ r.at = "mp done" => Failing(r, "cxplat_get_module_path_from_address", {"path"})
  /\ r.at = "ds allocate" => Running(r, "cxplat_duplicate_string", {})
  /\ r.at = "du allocate" => Running(r, "cxplat_duplicate_utf8_string", {})
  /\ r.at = "er allocate" => Running(r, "EtwRegister", {})
  /\ r.at = "rh allocate" => Running(r, "FwpsRedirectHandleCreate0", {})
  /\ r.at \in {"zw fault", "zw arguments", "machine key", "user key"} => Running(r, "ZwCreateKey", {})

\* What CallsBalanced and AccountNamesWhole say of a call that has ended.
LegalEnd(r) ==
  /\ IF r.fn = RingBuffer
     THEN r.held \in {{}, {"descriptor"}, Gives(r.fn)}
     ELSE IF r.status = "success" THEN ~r.failed /\ r.held = Gives(r.fn)
     ELSE r.held = {} /\ (r.status = "failure" <=> r.failed)
  /\ r.fn = "SecLookupAccountSid" /\ ~r.failed => Answered(r)

Legal(r) ==
  /\ IsCall(r)
  /\ r.at = "idle" => r.fn = "none"
  /\ r.at = "return" => LegalEnd(r)
  /\ LegalChecks(r) /\ LegalQueries(r) /\ LegalNames(r) /\ LegalRing(r) /\ LegalResults(r)

\* The access checks that have locked the context themselves.
InCheck(r) == r.fn = "SeAccessCheck" /\ ~r.locked /\ r.at # "return"

\* The inductive invariant.
CallInv ==
  /\ call = [c \in Callers |-> call[c]]
  /\ \A c \in Callers : Legal(call[c])
  /\ locks \in [Callers -> 0..MaxLocks]
  /\ ~underflow
  /\ lock_count = Cardinality(CallerLocks) + Cardinality(CheckLocks)

\* What each call gives.
LEMMA GivesTable ==
  /\ Gives("SeQueryInformationToken") = {"token information"}
  /\ Gives("usersim_allocate_ring_buffer_memory") = {"descriptor", "primary_view", "secondary_view"}
  /\ Gives("usersim_utf8_string_to_unicode") = {"unicode string"}
  /\ Gives("cxplat_get_module_path_from_address") = {"path"}
  /\ Gives("cxplat_duplicate_string") = {"string"}
  /\ Gives("cxplat_duplicate_utf8_string") = {"utf8 string"}
  /\ Gives("EtwRegister") = {"provider"}
  /\ Gives("FwpsRedirectHandleCreate0") = {"redirect handle"}
  /\ Gives("ZwCreateKey") = {"key"}
  /\ \A fn \in {"usersim_access_check", "usersim_validate_security_descriptor",
                "usersim_platform_get_authentication_id", "SeAccessCheck",
                "SeQueryAuthenticationIdToken", "SecLookupAccountSid", "empty utf8 string"} :
       Gives(fn) = {}
BY DEF Gives

\* How a step changes the record of a call.
Goes(r, r2, at, held, status, failed) ==
  /\ IsCall(r2)
  /\ r2.at = at /\ r2.held = held /\ r2.status = status /\ r2.failed = failed
  /\ r2.fn = r.fn /\ r2.locked = r.locked
  /\ r2.name = r.name /\ r2.domain = r.domain
  /\ r2.name_chars = r.name_chars /\ r2.domain_chars = r.domain_chars

\* The updates of the record.
LEMMA Updates ==
  ASSUME NEW r, IsCall(r), NEW to, NEW things
  PROVE  /\ Goes(r, [r EXCEPT !.at = to, !.held = things], to, things, r.status, r.failed)
         /\ Goes(r, [r EXCEPT !.at = to, !.status = "success", !.held = things], to, things, "success", r.failed)
         /\ Goes(r, [r EXCEPT !.at = to, !.status = "failure", !.failed = TRUE], to, r.held, "failure", TRUE)
         /\ Goes(r, [r EXCEPT !.at = to, !.failed = TRUE], to, r.held, r.status, TRUE)
         /\ Goes(r, [r EXCEPT !.at = to], to, r.held, r.status, r.failed)
<1>1. Goes(r, [r EXCEPT !.at = to, !.held = things], to, things, r.status, r.failed)
  BY Zenon DEF Goes, IsCall
<1>2. Goes(r, [r EXCEPT !.at = to, !.status = "success", !.held = things], to, things, "success", r.failed)
  BY Zenon DEF Goes, IsCall
<1>3. Goes(r, [r EXCEPT !.at = to, !.status = "failure", !.failed = TRUE], to, r.held, "failure", TRUE)
  BY Zenon DEF Goes, IsCall
<1>4. Goes(r, [r EXCEPT !.at = to, !.failed = TRUE], to, r.held, r.status, TRUE)
  BY Zenon DEF Goes, IsCall
<1>5. Goes(r, [r EXCEPT !.at = to], to, r.held, r.status, r.failed)
  BY DEF Goes, IsCall
<1> QED BY <1>1, <1>2, <1>3, <1>4, <1>5, Zenon

\* From one place to another: the step works, is refused, is the last one and
\* works, or lets something go.
Step(r, r2) == Legal(r2) /\ (InCheck(r2) <=> InCheck(r))
Passes(at, gains, next) == \A r, r2 :
  Legal(r) /\ r.at = at /\ Goes(r, r2, next, r.held \cup gains, r.status, r.failed) => Step(r, r2)
Refused(at, stop) == \A r, r2 :
  Legal(r) /\ r.at = at /\ Goes(r, r2, stop, r.held, "failure", TRUE) => Step(r, r2)
Concludes(at, gains, done) == \A r, r2 :
  Legal(r) /\ r.at = at /\ Goes(r, r2, done, r.held \cup gains, "success", r.failed) => Step(r, r2)
LetsGo(at, released) == \A r, r2 :
  Legal(r) /\ r.at = at /\ Goes(r, r2, "return", r.held \ released, r.status, r.failed) => Step(r, r2)

\* The change of one call's record.
LEMMA UpdateInv ==
  ASSUME CallInv, NEW c \in Callers, NEW r, Step(call[c], r), Update(c, r)
  PROVE  CallInv'
<1>1. /\ call' = [call EXCEPT ![c] = r]
      /\ locks' = locks
      /\ lock_count' = lock_count
      /\ underflow' = underflow
  BY Zenon DEF Update
<1>2. call' = [d \in Callers |-> call'[d]] /\ call'[c] = r /\ \A d \in Callers : d # c => call'[d] = call[d]
  BY <1>1 DEF CallInv
<1>3. \A d \in Callers : Legal(call'[d]) /\ (InCheck(call'[d]) <=> InCheck(call[d]))
  BY <1>2, Zenon DEF CallInv, Step
<1>4. CheckLocks' = CheckLocks
  BY <1>3, Zenon DEF CheckLocks, InCheck
<1>5. CallerLocks' = CallerLocks
  BY <1>1, Zenon DEF CallerLocks
<1> QED BY <1>1, <1>2, <1>3, <1>4, <1>5, Zenon DEF CallInv

\* The kinds of steps.
LEMMA TryInv ==
  ASSUME CallInv, NEW c \in Callers, NEW at, NEW gains, NEW next, NEW stop,
         Passes(at, gains, next), Refused(at, stop), Try(c, at, gains, next, stop)
  PROVE  CallInv'
<1>1. IsCall(call[c]) /\ Legal(call[c]) /\ call[c].at = at
  BY Zenon DEF CallInv, Legal, Try
<1>2. Goes(call[c], [call[c] EXCEPT !.at = next, !.held = @ \cup gains], next, call[c].held \cup gains,
           call[c].status, call[c].failed)
  BY <1>1, Updates, Zenon
<1>3. Goes(call[c], [call[c] EXCEPT !.at = stop, !.status = "failure", !.failed = TRUE], stop, call[c].held,
           "failure", TRUE)
  BY <1>1, Updates, Zenon
<1>4. CASE Update(c, [call[c] EXCEPT !.at = next, !.held = @ \cup gains])
  BY <1>1, <1>2, <1>4, UpdateInv DEF Passes
<1>5. CASE Update(c, [call[c] EXCEPT !.at = stop, !.status = "failure", !.failed = TRUE])
  BY <1>1, <1>3, <1>5, UpdateInv, Zenon DEF Refused
<1> QED BY <1>4, <1>5, Zenon DEF Try

\* The last step of a call works or is refused.
LEMMA TryLastInv ==
  ASSUME CallInv, NEW c \in Callers, NEW at, NEW gains, NEW done, NEW stop,
         Concludes(at, gains, done), Refused(at, stop), TryLast(c, at, gains, done, stop)
  PROVE  CallInv'
<1>1. IsCall(call[c]) /\ Legal(call[c]) /\ call[c].at = at
  BY Zenon DEF CallInv, Legal, TryLast
<1>2. Goes(call[c], [call[c] EXCEPT !.at = done, !.status = "success", !.held = @ \cup gains], done,
           call[c].held \cup gains, "success", call[c].failed)
  BY <1>1, Updates, Zenon
<1>3. Goes(call[c], [call[c] EXCEPT !.at = stop, !.status = "failure", !.failed = TRUE], stop, call[c].held,
           "failure", TRUE)
  BY <1>1, Updates, Zenon
<1>4. CASE Update(c, [call[c] EXCEPT !.at = done, !.status = "success", !.held = @ \cup gains])
  BY <1>1, <1>2, <1>4, UpdateInv DEF Concludes
<1>5. CASE Update(c, [call[c] EXCEPT !.at = stop, !.status = "failure", !.failed = TRUE])
  BY <1>1, <1>3, <1>5, UpdateInv, Zenon DEF Refused
<1> QED BY <1>4, <1>5, Zenon DEF TryLast

\* The clean-up of a call lets something go.
LEMMA CleanupInv ==
  ASSUME CallInv, NEW c \in Callers, NEW at, NEW released, LetsGo(at, released), Cleanup(c, at, released)
  PROVE  CallInv'
<1>1. IsCall(call[c]) /\ Legal(call[c]) /\ call[c].at = at
  BY Zenon DEF CallInv, Legal, Cleanup
<1>2. Goes(call[c], [call[c] EXCEPT !.at = "return", !.held = @ \ released], "return",
           call[c].held \ released, call[c].status, call[c].failed)
  BY <1>1, Updates, Zenon
<1> QED BY <1>1, <1>2, UpdateInv DEF Cleanup, LetsGo

\* The record of a call that begins.
Fresh(r, at, fn) ==
  /\ IsCall(r) /\ r.at = at /\ r.fn = fn /\ r.held = {} /\ r.status = "none" /\ ~r.failed
Starts(at, fn) == \A r : Fresh(r, at, fn) => Legal(r) /\ ~InCheck(r)

\* A call begins.
LEMMA BeginInv ==
  ASSUME CallInv, NEW c \in Callers, NEW at, NEW fn, Starts(at, fn), Begin(c, fn, at)
  PROVE  CallInv'
<1> DEFINE r == [NoCall EXCEPT !.at = at, !.fn = fn]
<1>1. Fresh(r, at, fn)
  BY Zenon DEF Fresh, IsCall, NoCall
<1>2. call[c].at = "idle" /\ Update(c, r)
  BY Zenon DEF Begin
<1> HIDE DEF r
<1>3. ~InCheck(call[c])
  BY <1>2 DEF CallInv, Legal, InCheck
<1>4. Step(call[c], r)
  BY <1>1, <1>3, Zenon DEF Starts, Step
<1> QED BY <1>2, <1>4, UpdateInv

\* A record is judged by the place it is at.
AtChecks ==
  {"ac fault", "ImpersonateSelf", "OpenThreadToken", "AccessCheck", "ac done",
   "vs fault", "IsValidSecurityDescriptor", "GetSecurityDescriptorControl", "self relative", "vs length",
   "ai fault", "ai size", "ai allocate", "ai get", "ai exit",
   "ta size", "ta allocate", "SeAccessCheckFromState", "ta done"}
AtQueries == {"qa fault", "qa get", "qi fault", "qi size", "qi allocate", "qi get", "qi free"}
AtNames == {"la fault", "la size", "la name", "la domain", "LookupAccountSidW", "la copy", "la free"}
AtRing ==
  {"rb length", "rb descriptor", "VirtualAlloc2", "rb split", "CreateFileMapping", "rb view1", "rb view2", "rb exit"}
AtResults ==
  {"us size", "us allocate", "us convert", "us done",
   "mp module", "mp name", "mp size", "mp allocate", "mp convert", "mp done",
   "ds allocate", "du allocate", "er allocate", "rh allocate",
   "zw fault", "zw arguments", "machine key", "user key"}

\* What is asked of one part of the calls says nothing of a call elsewhere.
LEMMA Elsewhere ==
  ASSUME NEW r
  PROVE  /\ r.at \notin AtChecks => LegalChecks(r)
         /\ r.at \notin AtQueries => LegalQueries(r)
         /\ r.at \notin AtNames => LegalNames(r)
         /\ r.at \notin AtRing => LegalRing(r)
         /\ r.at \notin AtResults => LegalResults(r)
<1>1. r.at \notin AtChecks => LegalChecks(r)
  BY Zenon DEF AtChecks, LegalChecks
<1>2. r.at \notin AtQueries => LegalQueries(r)
  BY Zenon DEF AtQueries, LegalQueries
<1>3. r.at \notin AtNames => LegalNames(r)
  BY Zenon DEF AtNames, LegalNames
<1>4. r.at \notin AtRing => LegalRing(r)
  BY Zenon DEF AtRing, LegalRing
<1>5. r.at \notin AtResults => LegalResults(r)
  BY Zenon DEF AtResults, LegalResults
<1> QED BY <1>1, <1>2, <1>3, <1>4, <1>5

\* A call is judged by the part that it is in.
LEMMA Judged ==
  ASSUME NEW r, IsCall(r),
         \/ r.at = "return" /\ LegalEnd(r)
         \/ r.at \in AtChecks /\ LegalChecks(r)
         \/ r.at \in AtQueries /\ LegalQueries(r)
         \/ r.at \in AtNames /\ LegalNames(r)
         \/ r.at \in AtRing /\ LegalRing(r)
         \/ r.at \in AtResults /\ LegalResults(r)
  PROVE  Legal(r)
<1>1. r.at \notin {"idle", "return"} =>
        (r.at = "idle" => r.fn = "none") /\ (r.at = "return" => LegalEnd(r))
  OBVIOUS
<1>2. CASE r.at = "return" /\ LegalEnd(r)
  <2>1. r.at \notin AtChecks /\ r.at \notin AtQueries /\ r.at \notin AtNames /\ r.at \notin AtRing
        /\ r.at \notin AtResults
    BY <1>2 DEF AtChecks, AtQueries, AtNames, AtRing, AtResults
  <2> QED BY <1>2, <2>1, Elsewhere DEF Legal
<1>3. CASE r.at \in AtChecks /\ LegalChecks(r)
  <2>1. r.at # "idle" /\ r.at # "return"
        /\ r.at \notin AtQueries /\ r.at \notin AtNames /\ r.at \notin AtRing /\ r.at \notin AtResults
    BY <1>3, Zenon DEF AtChecks, AtQueries, AtNames, AtRing, AtResults
  <2> QED BY <1>3, <2>1, Elsewhere DEF Legal
<1>4. CASE r.at \in AtQueries /\ LegalQueries(r)
  <2>1. r.at # "idle" /\ r.at # "return"
        /\ r.at \notin AtChecks /\ r.at \notin AtNames /\ r.at \notin AtRing /\ r.at \notin AtResults
    BY <1>4, Zenon DEF AtChecks, AtQueries, AtNames, AtRing, AtResults
  <2> QED BY <1>4, <2>1, Elsewhere DEF Legal
<1>5. CASE r.at \in AtNames /\ LegalNames(r)
  <2>1. r.at # "idle" /\ r.at # "return"
        /\ r.at \notin AtChecks /\ r.at \notin AtQueries /\ r.at \notin AtRing /\ r.at \notin AtResults
    BY <1>5, Zenon DEF AtChecks, AtQueries, AtNames, AtRing, AtResults
  <2> QED BY <1>5, <2>1, Elsewhere DEF Legal
<1>6. CASE r.at \in AtRing /\ LegalRing(r)
  <2>1. r.at # "idle" /\ r.at # "return"
        /\ r.at \notin AtChecks /\ r.at \notin AtQueries /\ r.at \notin AtNames /\ r.at \notin AtResults
    BY <1>6, Zenon DEF AtChecks, AtQueries, AtNames, AtRing, AtResults
  <2> QED BY <1>6, <2>1, Elsewhere DEF Legal
<1>7. CASE r.at \in AtResults /\ LegalResults(r)
  <2>1. r.at # "idle" /\ r.at # "return"
        /\ r.at \notin AtChecks /\ r.at \notin AtQueries /\ r.at \notin AtNames /\ r.at \notin AtRing
    BY <1>7, Zenon DEF AtChecks, AtQueries, AtNames, AtRing, AtResults
  <2> QED BY <1>7, <2>1, Elsewhere DEF Legal
<1> QED BY <1>2, <1>3, <1>4, <1>5, <1>6, <1>7

\* The rows of the table: at a place a call runs or ends.
RunsAt(at, fn, held) == \A r : IsCall(r) /\ r.at = at => (Legal(r) <=> Running(r, fn, held))
EndsAt(at, fn, most) == \A r : IsCall(r) /\ r.at = at => (Legal(r) <=> Ending(r, fn, most))
FailsAt(at, fn, most) == \A r : IsCall(r) /\ r.at = at => (Legal(r) <=> Failing(r, fn, most))

\* What the access checks hold, place by place.
LEMMA ChecksTable ==
  /\ RunsAt("ac fault", "usersim_access_check", {})
  /\ RunsAt("ImpersonateSelf", "usersim_access_check", {})
  /\ RunsAt("OpenThreadToken", "usersim_access_check", {"impersonation"})
  /\ RunsAt("AccessCheck", "usersim_access_check", {"token", "impersonation"})
  /\ EndsAt("ac done", "usersim_access_check", {"token", "impersonation"})
  /\ \A at \in {"vs fault", "IsValidSecurityDescriptor", "GetSecurityDescriptorControl", "self relative",
               "vs length"} : RunsAt(at, "usersim_validate_security_descriptor", {})
  /\ \A at \in {"ai fault", "ai size", "ai allocate"} :
       RunsAt(at, "usersim_platform_get_authentication_id", {})
  /\ RunsAt("ai get", "usersim_platform_get_authentication_id", {"privileges"})
  /\ EndsAt("ai exit", "usersim_platform_get_authentication_id", {"privileges"})
  /\ \A at \in {"ta size", "ta allocate"} : RunsAt(at, "SeAccessCheck", {})
  /\ RunsAt("SeAccessCheckFromState", "SeAccessCheck", {"access information"})
  /\ EndsAt("ta done", "SeAccessCheck", {"access information"})
<1>1. \A r : IsCall(r) /\ r.at \in AtChecks => (Legal(r) <=> LegalChecks(r))
  BY Judged, Zenon DEF Legal
<1> USE <1>1 DEF RunsAt, EndsAt, AtChecks, LegalChecks
<1>2. /\ RunsAt("ac fault", "usersim_access_check", {})
      /\ RunsAt("ImpersonateSelf", "usersim_access_check", {})
      /\ RunsAt("OpenThreadToken", "usersim_access_check", {"impersonation"})
      /\ RunsAt("AccessCheck", "usersim_access_check", {"token", "impersonation"})
      /\ EndsAt("ac done", "usersim_access_check", {"token", "impersonation"})
  BY Zenon
<1>3. \A at \in {"vs fault", "IsValidSecurityDescriptor", "GetSecurityDescriptorControl", "self relative",
               "vs length"} : RunsAt(at, "usersim_validate_security_descriptor", {})
  BY Zenon
<1>4. /\ \A at \in {"ai fault", "ai size", "ai allocate"} :
          RunsAt(at, "usersim_platform_get_authentication_id", {})
      /\ RunsAt("ai get", "usersim_platform_get_authentication_id", {"privileges"})
      /\ EndsAt("ai exit", "usersim_platform_get_authentication_id", {"privileges"})
  BY Zenon
<1>5. /\ \A at \in {"ta size", "ta allocate"} : RunsAt(at, "SeAccessCheck", {})
      /\ RunsAt("SeAccessCheckFromState", "SeAccessCheck", {"access information"})
      /\ EndsAt("ta done", "SeAccessCheck", {"access information"})
  BY Zenon
<1> QED BY <1>2, <1>3, <1>4, <1>5, Zenon

\* A refused call that holds nothing may return; a call that has all it gives
\* may, too.
LEMMA MayReturn ==
  ASSUME NEW r, IsCall(r), r.at = "return"
  PROVE  /\ r.held = {} /\ r.status = "failure" /\ r.failed => Legal(r)
         /\ /\ r.fn \notin {RingBuffer, "SecLookupAccountSid"}
            /\ r.held = Gives(r.fn) /\ r.status = "success" /\ ~r.failed
            => Legal(r)
BY Judged DEF LegalEnd

\* What a place makes of a call that was refused, and of one that has its answer.
TakesRefused(at, fn, held) ==
  \A r : IsCall(r) /\ r.at = at /\ r.fn = fn /\ r.held = held /\ r.status = "failure" /\ r.failed => Legal(r)
TakesAnswered(at, fn, held) ==
  \A r : IsCall(r) /\ r.at = at /\ r.fn = fn /\ r.held = held /\ r.status = "success" /\ ~r.failed => Legal(r)

\* A step leaves an access check where it stays between its two ends.
Within(at, fn, next) == at # "return" /\ (fn # "SeAccessCheck" \/ next # "return")

\* A step that works leads from a place to the next.
LEMMA PassesFrom ==
  ASSUME NEW at, NEW gains, NEW next, NEW fn, NEW held, NEW held2, held2 = held \cup gains,
         RunsAt(at, fn, held), RunsAt(next, fn, held2), Within(at, fn, next)
  PROVE  Passes(at, gains, next)
<1> SUFFICES ASSUME NEW r, NEW r2, Legal(r), r.at = at,
                    Goes(r, r2, next, r.held \cup gains, r.status, r.failed)
             PROVE  Step(r, r2)
  BY Zenon DEF Passes
<1>1. IsCall(r) /\ Running(r, fn, held)
  BY Zenon DEF RunsAt, Legal
<1>2. IsCall(r2) /\ r2.at = next /\ r2.fn = r.fn /\ r2.locked = r.locked /\ Running(r2, fn, held2)
  BY <1>1 DEF Goes, Running
<1>3. Legal(r2)
  BY <1>2, Zenon DEF RunsAt
<1> QED BY <1>1, <1>2, <1>3 DEF Step, InCheck, Running, Within

\* A step that is refused leads from a place to the one that cleans up.
LEMMA RefusedFrom ==
  ASSUME NEW at, NEW stop, NEW fn, NEW held,
         RunsAt(at, fn, held), TakesRefused(stop, fn, held), Within(at, fn, stop)
  PROVE  Refused(at, stop)
<1> SUFFICES ASSUME NEW r, NEW r2, Legal(r), r.at = at, Goes(r, r2, stop, r.held, "failure", TRUE)
             PROVE  Step(r, r2)
  BY Zenon DEF Refused
<1>1. IsCall(r) /\ Running(r, fn, held)
  BY Zenon DEF RunsAt, Legal
<1>2. /\ IsCall(r2) /\ r2.at = stop /\ r2.fn = r.fn /\ r2.locked = r.locked
      /\ r2.fn = fn /\ r2.held = held /\ r2.status = "failure" /\ r2.failed
  BY <1>1 DEF Goes, Running
<1>3. Legal(r2)
  BY <1>2, Zenon DEF TakesRefused
<1> QED BY <1>1, <1>2, <1>3 DEF Step, InCheck, Running, Within

\* The last step leads to a place that takes the answer.
LEMMA ConcludesFrom ==
  ASSUME NEW at, NEW gains, NEW done, NEW fn, NEW held, NEW held2, held2 = held \cup gains,
         RunsAt(at, fn, held), TakesAnswered(done, fn, held2), Within(at, fn, done)
  PROVE  Concludes(at, gains, done)
<1> SUFFICES ASSUME NEW r, NEW r2, Legal(r), r.at = at,
                    Goes(r, r2, done, r.held \cup gains, "success", r.failed)
             PROVE  Step(r, r2)
  BY Zenon DEF Concludes
<1>1. IsCall(r) /\ Running(r, fn, held)
  BY Zenon DEF RunsAt, Legal
<1>2. /\ IsCall(r2) /\ r2.at = done /\ r2.fn = r.fn /\ r2.locked = r.locked
      /\ r2.fn = fn /\ r2.held = held2 /\ r2.status = "success" /\ ~r2.failed
  BY <1>1 DEF Goes, Running
<1>3. Legal(r2)
  BY <1>2, Zenon DEF TakesAnswered
<1> QED BY <1>1, <1>2, <1>3 DEF Step, InCheck, Running, Within

\* The three ways into the clean-up, and into the return.
LEMMA IntoEnd ==
  ASSUME NEW at, NEW fn, NEW most, NEW held, held \subseteq most
  PROVE  /\ EndsAt(at, fn, most) => TakesRefused(at, fn, held) /\ TakesAnswered(at, fn, held)
         /\ FailsAt(at, fn, most) => TakesRefused(at, fn, held)
BY DEF EndsAt, FailsAt, TakesRefused, TakesAnswered, Ending, Failing

\* A call that holds nothing may fail, and one that holds what it gives may succeed.
LEMMA IntoReturn ==
  ASSUME NEW fn
  PROVE  /\ TakesRefused("return", fn, {})
         /\ fn \notin {RingBuffer, "SecLookupAccountSid"} => TakesAnswered("return", fn, Gives(fn))
BY MayReturn, Zenon DEF TakesRefused, TakesAnswered

\* The end of the clean-up.
LEMMA LetsGoFrom ==
  ASSUME NEW at, NEW released, NEW fn,
         \/ EndsAt(at, fn, released) /\ Gives(fn) = {}
         \/ FailsAt(at, fn, released),
         fn \notin {RingBuffer, "SecLookupAccountSid"}, Within(at, fn, "return")
  PROVE  LetsGo(at, released)
<1> SUFFICES ASSUME NEW r, NEW r2, Legal(r), r.at = at,
                    Goes(r, r2, "return", r.held \ released, r.status, r.failed)
             PROVE  Step(r, r2)
  BY Zenon DEF LetsGo
<1>1. IsCall(r) /\ (Failing(r, fn, released) \/ (Ending(r, fn, released) /\ Gives(fn) = {}))
  BY Zenon DEF EndsAt, FailsAt, Legal
<1>2. r.fn = fn /\ r.held \ released = {}
  BY <1>1 DEF Ending, Failing
<1>3. /\ IsCall(r2) /\ r2.at = "return" /\ r2.fn = r.fn /\ r2.locked = r.locked /\ r2.held = {}
      /\ r2.status = r.status /\ r2.failed = r.failed
  BY <1>2, Zenon DEF Goes
<1>4. \/ r.status = "failure" /\ r.failed
      \/ r.status = "success" /\ ~r.failed /\ Gives(fn) = {}
  BY <1>1, Zenon DEF Ending, Failing
<1>5. Legal(r2)
  BY <1>2, <1>3, <1>4, MayReturn
<1> QED BY <1>2, <1>3, <1>5 DEF Step, InCheck, Within

\* What the queries of a token hold, place by place.
LEMMA QueriesTable ==
  /\ RunsAt("qa fault", "SeQueryAuthenticationIdToken", {})
  /\ RunsAt("qa get", "SeQueryAuthenticationIdToken", {})
  /\ RunsAt("qi fault", "SeQueryInformationToken", {})
  /\ RunsAt("qi size", "SeQueryInformationToken", {})
  /\ RunsAt("qi allocate", "SeQueryInformationToken", {})
  /\ RunsAt("qi get", "SeQueryInformationToken", {"token information"})
  /\ FailsAt("qi free", "SeQueryInformationToken", {"token information"})
<1>1. \A r : IsCall(r) /\ r.at \in AtQueries => (Legal(r) <=> LegalQueries(r))
  BY Judged, Zenon DEF Legal
<1> QED BY <1>1, Zenon DEF RunsAt, FailsAt, AtQueries, LegalQueries

\* What the calls that give one result hold, place by place.
LEMMA ResultsTable ==
  /\ RunsAt("us size", "usersim_utf8_string_to_unicode", {})
  /\ RunsAt("us allocate", "usersim_utf8_string_to_unicode", {})
  /\ RunsAt("us convert", "usersim_utf8_string_to_unicode", {"unicode string"})
  /\ FailsAt("us done", "usersim_utf8_string_to_unicode", {"unicode string"})
  /\ RunsAt("mp module", "cxplat_get_module_path_from_address", {})
  /\ RunsAt("mp name", "cxplat_get_module_path_from_address", {})
  /\ RunsAt("mp size", "cxplat_get_module_path_from_address", {})
  /\ RunsAt("mp allocate", "cxplat_get_module_path_from_address", {})
  /\ RunsAt("mp convert", "cxplat_get_module_path_from_address", {"path"})
  /\ FailsAt("mp done", "cxplat_get_module_path_from_address", {"path"})
  /\ RunsAt("ds allocate", "cxplat_duplicate_string", {})
  /\ RunsAt("du allocate", "cxplat_duplicate_utf8_string", {})
  /\ RunsAt("er allocate", "EtwRegister", {})
  /\ RunsAt("rh allocate", "FwpsRedirectHandleCreate0", {})
  /\ RunsAt("zw fault", "ZwCreateKey", {})
  /\ RunsAt("zw arguments", "ZwCreateKey", {})
  /\ RunsAt("machine key", "ZwCreateKey", {})
  /\ RunsAt("user key", "ZwCreateKey", {})
<1>1. \A r : IsCall(r) /\ r.at \in AtResults => (Legal(r) <=> LegalResults(r))
  BY Judged, Zenon DEF Legal
<1>2. /\ RunsAt("us size", "usersim_utf8_string_to_unicode", {})
      /\ RunsAt("us allocate", "usersim_utf8_string_to_unicode", {})
      /\ RunsAt("us convert", "usersim_utf8_string_to_unicode", {"unicode string"})
      /\ FailsAt("us done", "usersim_utf8_string_to_unicode", {"unicode string"})
  BY <1>1, Zenon DEF RunsAt, FailsAt, AtResults, LegalResults
<1>3. /\ RunsAt("mp module", "cxplat_get_module_path_from_address", {})
      /\ RunsAt("mp name", "cxplat_get_module_path_from_address", {})
      /\ RunsAt("mp size", "cxplat_get_module_path_from_address", {})
      /\ RunsAt("mp allocate", "cxplat_get_module_path_from_address", {})
      /\ RunsAt("mp convert", "cxplat_get_module_path_from_address", {"path"})
      /\ FailsAt("mp done", "cxplat_get_module_path_from_address", {"path"})
  BY <1>1, Zenon DEF RunsAt, FailsAt, AtResults, LegalResults
<1>4. /\ RunsAt("ds allocate", "cxplat_duplicate_string", {})
      /\ RunsAt("du allocate", "cxplat_duplicate_utf8_string", {})
      /\ RunsAt("er allocate", "EtwRegister", {})
      /\ RunsAt("rh allocate", "FwpsRedirectHandleCreate0", {})
  BY <1>1, Zenon DEF RunsAt, AtResults, LegalResults
<1>5. /\ RunsAt("zw fault", "ZwCreateKey", {})
      /\ RunsAt("zw arguments", "ZwCreateKey", {})
      /\ RunsAt("machine key", "ZwCreateKey", {})
      /\ RunsAt("user key", "ZwCreateKey", {})
  BY <1>1, Zenon DEF RunsAt, AtResults, LegalResults
<1> QED BY <1>2, <1>3, <1>4, <1>5, Zenon

\* Access checks of the platform.
LEMMA AccessCheckInv ==
  ASSUME CallInv, NEW c \in Callers, usersim_access_check(c)
  PROVE  CallInv'
<1> USE ChecksTable DEF Within
<1>1. Starts("ac fault", "usersim_access_check")
  BY Zenon DEF Starts, Fresh, RunsAt, Running, InCheck
<1>2. /\ {} = {} \cup {}
      /\ {"impersonation"} = {} \cup {"impersonation"}
      /\ {"token", "impersonation"} = {"impersonation"} \cup {"token"}
      /\ {"token", "impersonation"} = {"token", "impersonation"} \cup {}
  BY Zenon
<1>3. "usersim_access_check" # RingBuffer /\ "usersim_access_check" # "SecLookupAccountSid"
  BY Zenon DEF RingBuffer
<1>4. Gives("usersim_access_check") = {}
  BY GivesTable, Zenon
<1>5. /\ TakesRefused("return", "usersim_access_check", {})
      /\ TakesAnswered("return", "usersim_access_check", {})
  BY <1>3, <1>4, IntoReturn, Zenon
<1>6. \A held \in SUBSET {"token", "impersonation"} :
        /\ TakesRefused("ac done", "usersim_access_check", held)
        /\ TakesAnswered("ac done", "usersim_access_check", held)
  BY IntoEnd, Zenon
<1>7. /\ Passes("ac fault", {}, "ImpersonateSelf")
      /\ Passes("ImpersonateSelf", {"impersonation"}, "OpenThreadToken")
      /\ Passes("OpenThreadToken", {"token"}, "AccessCheck")
  BY <1>2, PassesFrom, Zenon
<1>8. Concludes("AccessCheck", {}, "ac done")
  BY <1>2, <1>5, <1>6, ConcludesFrom, Zenon
<1>9. /\ Refused("ac fault", "return")
      /\ Refused("ImpersonateSelf", "ac done")
      /\ Refused("OpenThreadToken", "ac done")
      /\ Refused("AccessCheck", "ac done")
  BY <1>5, <1>6, RefusedFrom, Zenon
<1>10. LetsGo("ac done", {"token", "impersonation"})
  BY <1>3, <1>4, LetsGoFrom, Zenon
<1> QED
  BY <1>1, <1>7, <1>8, <1>9, <1>10, BeginInv, TryInv, TryLastInv, CleanupInv, Zenon
     DEF usersim_access_check

\* The tests of a descriptor.
LEMMA ValidateInv ==
  ASSUME CallInv, NEW c \in Callers, usersim_validate_security_descriptor(c)
  PROVE  CallInv'
<1> USE ChecksTable DEF Within
<1>1. Starts("vs fault", "usersim_validate_security_descriptor")
  BY Zenon DEF Starts, Fresh, RunsAt, Running, InCheck
<1>2. {} = {} \cup {}
  BY Zenon
<1>3. /\ "usersim_validate_security_descriptor" # RingBuffer
      /\ "usersim_validate_security_descriptor" # "SecLookupAccountSid"
  BY Zenon DEF RingBuffer
<1>4. Gives("usersim_validate_security_descriptor") = {}
  BY GivesTable, Zenon
<1>5. /\ TakesRefused("return", "usersim_validate_security_descriptor", {})
      /\ TakesAnswered("return", "usersim_validate_security_descriptor", {})
  BY <1>3, <1>4, IntoReturn, Zenon
<1>6. /\ Passes("vs fault", {}, "IsValidSecurityDescriptor")
      /\ Passes("IsValidSecurityDescriptor", {}, "GetSecurityDescriptorControl")
      /\ Passes("GetSecurityDescriptorControl", {}, "self relative")
      /\ Passes("self relative", {}, "vs length")
  BY <1>2, PassesFrom, Zenon
<1>7. Concludes("vs length", {}, "return")
  BY <1>2, <1>5, ConcludesFrom, Zenon
<1>8. /\ Refused("vs fault", "return")
      /\ Refused("IsValidSecurityDescriptor", "return")
      /\ Refused("GetSecurityDescriptorControl", "return")
      /\ Refused("self relative", "return")
      /\ Refused("vs length", "return")
  BY <1>5, RefusedFrom, Zenon
<1> QED
  BY <1>1, <1>6, <1>7, <1>8, BeginInv, TryInv, TryLastInv, CleanupInv, Zenon
     DEF usersim_validate_security_descriptor

\* The authentication identifier.
LEMMA AuthenticationIdInv ==
  ASSUME CallInv, NEW c \in Callers, usersim_platform_get_authentication_id(c)
  PROVE  CallInv'
<1> USE ChecksTable DEF Within
<1>1. Starts("ai fault", "usersim_platform_get_authentication_id")
  BY Zenon DEF Starts, Fresh, RunsAt, Running, InCheck
<1>2. /\ {} = {} \cup {}
      /\ {"privileges"} = {} \cup {"privileges"}
      /\ {"privileges"} = {"privileges"} \cup {}
  BY Zenon
<1>3. /\ "usersim_platform_get_authentication_id" # RingBuffer
      /\ "usersim_platform_get_authentication_id" # "SecLookupAccountSid"
  BY Zenon DEF RingBuffer
<1>4. Gives("usersim_platform_get_authentication_id") = {}
  BY GivesTable, Zenon
<1>5. /\ TakesRefused("return", "usersim_platform_get_authentication_id", {})
      /\ TakesAnswered("return", "usersim_platform_get_authentication_id", {})
  BY <1>3, <1>4, IntoReturn, Zenon
<1>6. \A held \in SUBSET {"privileges"} :
        /\ TakesRefused("ai exit", "usersim_platform_get_authentication_id", held)
        /\ TakesAnswered("ai exit", "usersim_platform_get_authentication_id", held)
  BY IntoEnd, Zenon
<1>7. /\ Passes("ai fault", {}, "ai size")
      /\ Passes("ai size", {}, "ai allocate")
      /\ Passes("ai allocate", {"privileges"}, "ai get")
  BY <1>2, PassesFrom, Zenon
<1>8. Concludes("ai get", {}, "ai exit")
  BY <1>2, <1>5, <1>6, ConcludesFrom, Zenon
<1>9. /\ Refused("ai fault", "return")
      /\ Refused("ai size", "return")
      /\ Refused("ai allocate", "return")
      /\ Refused("ai get", "ai exit")
  BY <1>5, <1>6, RefusedFrom, Zenon
<1>10. LetsGo("ai exit", {"privileges"})
  BY <1>3, <1>4, LetsGoFrom, Zenon
<1> QED
  BY <1>1, <1>7, <1>8, <1>9, <1>10, BeginInv, TryInv, TryLastInv, CleanupInv, Zenon
     DEF usersim_platform_get_authentication_id

\* Token queries.
LEMMA QueryAuthenticationInv ==
  ASSUME CallInv, NEW c \in Callers, SeQueryAuthenticationIdToken(c)
  PROVE  CallInv'
<1> USE QueriesTable DEF Within
<1>1. Starts("qa fault", "SeQueryAuthenticationIdToken")
  BY Zenon DEF Starts, Fresh, RunsAt, Running, InCheck
<1>2. {} = {} \cup {}
  BY Zenon
<1>3. /\ "SeQueryAuthenticationIdToken" # RingBuffer
      /\ "SeQueryAuthenticationIdToken" # "SecLookupAccountSid"
  BY Zenon DEF RingBuffer
<1>4. Gives("SeQueryAuthenticationIdToken") = {}
  BY GivesTable, Zenon
<1>5. /\ TakesRefused("return", "SeQueryAuthenticationIdToken", {})
      /\ TakesAnswered("return", "SeQueryAuthenticationIdToken", {})
  BY <1>3, <1>4, IntoReturn, Zenon
<1>6. Passes("qa fault", {}, "qa get")
  BY <1>2, PassesFrom, Zenon
<1>7. Concludes("qa get", {}, "return")
  BY <1>2, <1>5, ConcludesFrom, Zenon
<1>8. /\ Refused("qa fault", "return")
      /\ Refused("qa get", "return")
  BY <1>5, RefusedFrom, Zenon
<1> QED
  BY <1>1, <1>6, <1>7, <1>8, BeginInv, TryInv, TryLastInv, CleanupInv, Zenon
     DEF SeQueryAuthenticationIdToken

\* The answer is a buffer.
LEMMA QueryInformationInv ==
  ASSUME CallInv, NEW c \in Callers, SeQueryInformationToken(c)
  PROVE  CallInv'
<1> USE QueriesTable DEF Within
<1>1. Starts("qi fault", "SeQueryInformationToken")
  BY Zenon DEF Starts, Fresh, RunsAt, Running, InCheck
<1>2. /\ {} = {} \cup {}
      /\ {"token information"} = {} \cup {"token information"}
      /\ {"token information"} = {"token information"} \cup {}
  BY Zenon
<1>3. "SeQueryInformationToken" # RingBuffer /\ "SeQueryInformationToken" # "SecLookupAccountSid"
  BY Zenon DEF RingBuffer
<1>4. Gives("SeQueryInformationToken") = {"token information"}
  BY GivesTable, Zenon
<1>5. /\ TakesRefused("return", "SeQueryInformationToken", {})
      /\ TakesAnswered("return", "SeQueryInformationToken", {"token information"})
  BY <1>3, <1>4, IntoReturn, Zenon
<1>6. \A held \in SUBSET {"token information"} : TakesRefused("qi free", "SeQueryInformationToken", held)
  BY IntoEnd, Zenon
<1>7. /\ Passes("qi fault", {}, "qi size")
      /\ Passes("qi size", {}, "qi allocate")
      /\ Passes("qi allocate", {"token information"}, "qi get")
  BY <1>2, PassesFrom, Zenon
<1>8. Concludes("qi get", {}, "return")
  BY <1>2, <1>5, <1>6, ConcludesFrom, Zenon
<1>9. /\ Refused("qi fault", "return")
      /\ Refused("qi size", "return")
      /\ Refused("qi allocate", "return")
      /\ Refused("qi get", "qi free")
  BY <1>5, <1>6, RefusedFrom, Zenon
<1>10. LetsGo("qi free", {"token information"})
  BY <1>3, <1>4, LetsGoFrom, Zenon
<1> QED
  BY <1>1, <1>7, <1>8, <1>9, <1>10, BeginInv, TryInv, TryLastInv, CleanupInv, Zenon
     DEF SeQueryInformationToken

\* Strings and paths.
LEMMA ToUnicodeInv ==
  ASSUME CallInv, NEW c \in Callers, usersim_utf8_string_to_unicode(c)
  PROVE  CallInv'
<1> USE ResultsTable DEF Within
<1>1. Starts("us size", "usersim_utf8_string_to_unicode")
  BY Zenon DEF Starts, Fresh, RunsAt, Running, InCheck
<1>2. /\ {} = {} \cup {}
      /\ {"unicode string"} = {} \cup {"unicode string"}
      /\ {"unicode string"} = {"unicode string"} \cup {}
  BY Zenon
<1>3. /\ "usersim_utf8_string_to_unicode" # RingBuffer
      /\ "usersim_utf8_string_to_unicode" # "SecLookupAccountSid"
  BY Zenon DEF RingBuffer
<1>4. Gives("usersim_utf8_string_to_unicode") = {"unicode string"}
  BY GivesTable, Zenon
<1>5. /\ TakesRefused("return", "usersim_utf8_string_to_unicode", {})
      /\ TakesAnswered("return", "usersim_utf8_string_to_unicode", {"unicode string"})
  BY <1>3, <1>4, IntoReturn, Zenon
<1>6. \A held \in SUBSET {"unicode string"} :
        /\ TakesRefused("us done", "usersim_utf8_string_to_unicode", held)
  BY IntoEnd, Zenon
<1>7. /\ Passes("us size", {}, "us allocate")
      /\ Passes("us allocate", {"unicode string"}, "us convert")
  BY <1>2, PassesFrom, Zenon
<1>8. Concludes("us convert", {}, "return")
  BY <1>2, <1>5, <1>6, ConcludesFrom, Zenon
<1>9. /\ Refused("us size", "us done")
      /\ Refused("us allocate", "us done")
      /\ Refused("us convert", "us done")
  BY <1>5, <1>6, RefusedFrom, Zenon
<1>10. LetsGo("us done", {"unicode string"})
  BY <1>3, <1>4, LetsGoFrom, Zenon
<1> QED
  BY <1>1, <1>7, <1>8, <1>9, <1>10, BeginInv, TryInv, TryLastInv, CleanupInv, Zenon
     DEF usersim_utf8_string_to_unicode

\* The path of a module.
LEMMA ModulePathInv ==
  ASSUME CallInv, NEW c \in Callers, cxplat_get_module_path_from_address(c)
  PROVE  CallInv'
<1> USE ResultsTable DEF Within
<1>1. Starts("mp module", "cxplat_get_module_path_from_address")
  BY Zenon DEF Starts, Fresh, RunsAt, Running, InCheck
<1>2. /\ {} = {} \cup {}
      /\ {"path"} = {} \cup {"path"}
      /\ {"path"} = {"path"} \cup {}
  BY Zenon
<1>3. /\ "cxplat_get_module_path_from_address" # RingBuffer
      /\ "cxplat_get_module_path_from_address" # "SecLookupAccountSid"
  BY Zenon DEF RingBuffer
<1>4. Gives("cxplat_get_module_path_from_address") = {"path"}
  BY GivesTable, Zenon
<1>5. /\ TakesRefused("return", "cxplat_get_module_path_from_address", {})
      /\ TakesAnswered("return", "cxplat_get_module_path_from_address", {"path"})
  BY <1>3, <1>4, IntoReturn, Zenon
<1>6. \A held \in SUBSET {"path"} : TakesRefused("mp done", "cxplat_get_module_path_from_address", held)
  BY IntoEnd, Zenon
<1>7. /\ Passes("mp module", {}, "mp name")
      /\ Passes("mp name", {}, "mp size")
      /\ Passes("mp size", {}, "mp allocate")
      /\ Passes("mp allocate", {"path"}, "mp convert")
  BY <1>2, PassesFrom, Zenon
<1>8. Concludes("mp convert", {}, "return")
  BY <1>2, <1>5, <1>6, ConcludesFrom, Zenon
<1>9. /\ Refused("mp module", "mp done")
      /\ Refused("mp name", "return")
      /\ Refused("mp size", "mp done")
      /\ Refused("mp allocate", "mp done")
      /\ Refused("mp convert", "mp done")
  BY <1>5, <1>6, RefusedFrom, Zenon
<1>10. LetsGo("mp done", {"path"})
  BY <1>3, <1>4, LetsGoFrom, Zenon
<1> QED
  BY <1>1, <1>7, <1>8, <1>9, <1>10, BeginInv, TryInv, TryLastInv, CleanupInv, Zenon
     DEF cxplat_get_module_path_from_address

\* One allocation.
LEMMA DuplicateInv ==
  ASSUME CallInv, NEW c \in Callers, cxplat_duplicate_string(c)
  PROVE  CallInv'
<1> USE ResultsTable DEF Within
<1>1. Starts("ds allocate", "cxplat_duplicate_string")
  BY Zenon DEF Starts, Fresh, RunsAt, Running, InCheck
<1>2. {"string"} = {} \cup {"string"}
  BY Zenon
<1>3. "cxplat_duplicate_string" # RingBuffer /\ "cxplat_duplicate_string" # "SecLookupAccountSid"
  BY Zenon DEF RingBuffer
<1>4. Gives("cxplat_duplicate_string") = {"string"}
  BY GivesTable, Zenon
<1>5. /\ TakesRefused("return", "cxplat_duplicate_string", {})
      /\ TakesAnswered("return", "cxplat_duplicate_string", {"string"})
  BY <1>3, <1>4, IntoReturn, Zenon
<1>6. Concludes("ds allocate", {"string"}, "return")
  BY <1>2, <1>5, ConcludesFrom, Zenon
<1>7. Refused("ds allocate", "return")
  BY <1>5, RefusedFrom, Zenon
<1> QED
  BY <1>1, <1>6, <1>7, BeginInv, TryInv, TryLastInv, CleanupInv, Zenon DEF cxplat_duplicate_string

\* One allocation.
LEMMA EtwRegisterInv ==
  ASSUME CallInv, NEW c \in Callers, EtwRegister(c)
  PROVE  CallInv'
<1> USE ResultsTable DEF Within
<1>1. Starts("er allocate", "EtwRegister")
  BY Zenon DEF Starts, Fresh, RunsAt, Running, InCheck
<1>2. {"provider"} = {} \cup {"provider"}
  BY Zenon
<1>3. "EtwRegister" # RingBuffer /\ "EtwRegister" # "SecLookupAccountSid"
  BY Zenon DEF RingBuffer
<1>4. Gives("EtwRegister") = {"provider"}
  BY GivesTable, Zenon
<1>5. TakesRefused("return", "EtwRegister", {}) /\ TakesAnswered("return", "EtwRegister", {"provider"})
  BY <1>3, <1>4, IntoReturn, Zenon
<1>6. Concludes("er allocate", {"provider"}, "return")
  BY <1>2, <1>5, ConcludesFrom, Zenon
<1>7. Refused("er allocate", "return")
  BY <1>5, RefusedFrom, Zenon
<1> QED
  BY <1>1, <1>6, <1>7, BeginInv, TryInv, TryLastInv, CleanupInv, Zenon DEF EtwRegister

\* One allocation.
LEMMA RedirectHandleInv ==
  ASSUME CallInv, NEW c \in Callers, FwpsRedirectHandleCreate0(c)
  PROVE  CallInv'
<1> USE ResultsTable DEF Within
<1>1. Starts("rh allocate", "FwpsRedirectHandleCreate0")
  BY Zenon DEF Starts, Fresh, RunsAt, Running, InCheck
<1>2. {"redirect handle"} = {} \cup {"redirect handle"}
  BY Zenon
<1>3. "FwpsRedirectHandleCreate0" # RingBuffer /\ "FwpsRedirectHandleCreate0" # "SecLookupAccountSid"
  BY Zenon DEF RingBuffer
<1>4. Gives("FwpsRedirectHandleCreate0") = {"redirect handle"}
  BY GivesTable, Zenon
<1>5. /\ TakesRefused("return", "FwpsRedirectHandleCreate0", {})
      /\ TakesAnswered("return", "FwpsRedirectHandleCreate0", {"redirect handle"})
  BY <1>3, <1>4, IntoReturn, Zenon
<1>6. Concludes("rh allocate", {"redirect handle"}, "return")
  BY <1>2, <1>5, ConcludesFrom, Zenon
<1>7. Refused("rh allocate", "return")
  BY <1>5, RefusedFrom, Zenon
<1> QED
  BY <1>1, <1>6, <1>7, BeginInv, TryInv, TryLastInv, CleanupInv, Zenon DEF FwpsRedirectHandleCreate0

\* A call that is idle is no access check.
LEMMA IdleInv ==
  ASSUME CallInv, NEW c \in Callers, call[c].at = "idle", NEW r, Legal(r), ~InCheck(r), Update(c, r)
  PROVE  CallInv'
<1>1. call[c].fn = "none"
  BY Zenon DEF CallInv, Legal
<1>2. ~InCheck(call[c])
  BY <1>1 DEF InCheck
<1> QED BY <1>2, UpdateInv, Zenon DEF Step

\* Of an empty UTF-8 string there is nothing to copy.
LEMMA EmptyStringInv ==
  ASSUME CallInv, NEW c \in Callers, call[c].at = "idle",
         Update(c, [NoCall EXCEPT !.at = "return", !.fn = "empty utf8 string", !.status = "success"])
  PROVE  CallInv'
<1> DEFINE r == [NoCall EXCEPT !.at = "return", !.fn = "empty utf8 string", !.status = "success"]
<1>1. /\ IsCall(r)
      /\ r.at = "return"
      /\ r.fn = "empty utf8 string"
      /\ r.held = {}
      /\ r.status = "success"
      /\ ~r.failed
  BY Zenon DEF IsCall, NoCall
<1>2. Update(c, r)
  OBVIOUS
<1> HIDE DEF r
<1>3. Legal(r)
  BY <1>1, MayReturn, GivesTable, Zenon DEF RingBuffer
<1> QED BY <1>1, <1>2, <1>3, IdleInv, Zenon DEF InCheck

\* cxplat_duplicate_utf8_string.
LEMMA DuplicateUtf8Inv ==
  ASSUME CallInv, NEW c \in Callers, cxplat_duplicate_utf8_string(c)
  PROVE  CallInv'
<1> USE ResultsTable DEF Within
<1>1. Starts("du allocate", "cxplat_duplicate_utf8_string")
  BY Zenon DEF Starts, Fresh, RunsAt, Running, InCheck
<1>2. {"utf8 string"} = {} \cup {"utf8 string"}
  BY Zenon
<1>3. TakesRefused("return", "cxplat_duplicate_utf8_string", {})
      /\ TakesAnswered("return", "cxplat_duplicate_utf8_string", {"utf8 string"})
  <2>1. "cxplat_duplicate_utf8_string" # RingBuffer
    BY Zenon DEF RingBuffer
  <2>2. Gives("cxplat_duplicate_utf8_string") = {"utf8 string"}
    BY GivesTable, Zenon
  <2> QED BY <2>1, <2>2, IntoReturn, Zenon
<1>4. Concludes("du allocate", {"utf8 string"}, "return")
  BY <1>2, <1>3, ConcludesFrom, Zenon
<1>5. Refused("du allocate", "return")
  BY <1>3, RefusedFrom, Zenon
<1> QED
  BY <1>1, <1>4, <1>5, BeginInv, TryLastInv, EmptyStringInv, Zenon DEF cxplat_duplicate_utf8_string

\* A key that was denied under the machine is made under the user.
LEMMA CreateKeyInv ==
  ASSUME CallInv, NEW c \in Callers, ZwCreateKey(c)
  PROVE  CallInv'
<1> USE ResultsTable DEF Within
<1>1. Starts("zw fault", "ZwCreateKey")
  BY Zenon DEF Starts, Fresh, RunsAt, Running, InCheck
<1>2. {} = {} \cup {} /\ {"key"} = {} \cup {"key"}
  BY Zenon
<1>3. TakesRefused("return", "ZwCreateKey", {}) /\ TakesAnswered("return", "ZwCreateKey", {"key"})
  <2>1. "ZwCreateKey" # RingBuffer
    BY Zenon DEF RingBuffer
  <2>2. Gives("ZwCreateKey") = {"key"}
    BY GivesTable, Zenon
  <2> QED BY <2>1, <2>2, IntoReturn, Zenon
<1>4. Passes("zw fault", {}, "zw arguments")
      /\ Passes("zw arguments", {}, "machine key") /\ Passes("zw arguments", {}, "user key")
      /\ Passes("machine key", {}, "user key")
  BY <1>2, PassesFrom, Zenon
<1>5. Concludes("machine key", {"key"}, "return") /\ Concludes("user key", {"key"}, "return")
  BY <1>2, <1>3, ConcludesFrom, Zenon
<1>6. Refused("zw fault", "return") /\ Refused("zw arguments", "return")
      /\ Refused("machine key", "return") /\ Refused("user key", "return")
  BY <1>3, RefusedFrom, Zenon
<1>7. ASSUME MachineKeyDenied(c)
      PROVE  CallInv'
  <2>1. IsCall(call[c]) /\ Legal(call[c]) /\ call[c].at = "machine key"
    BY <1>7, Zenon DEF CallInv, Legal, MachineKeyDenied
  <2>2. Goes(call[c], [call[c] EXCEPT !.at = "user key"], "user key", call[c].held, call[c].status, call[c].failed)
    BY <2>1, Updates, Zenon
  <2>3. call[c].held = call[c].held \cup {}
    BY Zenon
  <2>4. Step(call[c], [call[c] EXCEPT !.at = "user key"])
    BY <1>4, <2>1, <2>2, <2>3, Zenon DEF Passes
  <2> QED BY <1>7, <2>4, UpdateInv, Zenon DEF MachineKeyDenied
<1>8. ASSUME NEW root \in {"machine key", "user key"}, Try(c, "zw arguments", {}, root, "return")
      PROVE  CallInv'
  BY <1>4, <1>6, <1>8, TryInv, Zenon
<1> QED
  BY <1>1, <1>4, <1>5, <1>6, <1>7, <1>8, BeginInv, TryInv, TryLastInv, Zenon DEF ZwCreateKey

\* The ring buffer.
LEMMA RingTable ==
  /\ RunsAt("rb length", RingBuffer, {})
  /\ RunsAt("rb descriptor", RingBuffer, {})
  /\ RunsAt("VirtualAlloc2", RingBuffer, {"descriptor"})
  /\ RunsAt("rb split", RingBuffer, {"descriptor", "placeholder1"})
  /\ TakesAnswered("CreateFileMapping", RingBuffer, {"descriptor", "placeholder1", "placeholder2"})
  /\ \A r : IsCall(r) /\ r.at \in AtRing => (Legal(r) <=> LegalRing(r))
<1>1. \A r : IsCall(r) /\ r.at \in AtRing => (Legal(r) <=> LegalRing(r))
  BY Judged, Zenon DEF Legal
<1>2. /\ RunsAt("rb length", RingBuffer, {})
      /\ RunsAt("rb descriptor", RingBuffer, {})
      /\ RunsAt("VirtualAlloc2", RingBuffer, {"descriptor"})
      /\ RunsAt("rb split", RingBuffer, {"descriptor", "placeholder1"})
  BY <1>1, Zenon DEF RunsAt, AtRing, LegalRing
<1>3. TakesAnswered("CreateFileMapping", RingBuffer, {"descriptor", "placeholder1", "placeholder2"})
  BY <1>1, Zenon DEF TakesAnswered, AtRing, LegalRing, RingHolds
<1> QED BY <1>1, <1>2, <1>3, Zenon

\* A refused step leads to the exit, whatever of the locals it holds.
LEMMA RingRefused ==
  ASSUME NEW r, IsCall(r), r.at = "rb exit", r.fn = RingBuffer, r.held \subseteq RingLocals \cup {"descriptor"}
  PROVE  Legal(r)
BY RingTable, Zenon DEF AtRing, LegalRing

\* What a step after the split starts from.
RingAt(at, held) == \A r : Legal(r) /\ r.at = at => RingHolds(r, held)
RingGoes(at, loses, gains, next) == \A r, r2 :
  Legal(r) /\ r.at = at /\ Goes(r, r2, next, (r.held \ loses) \cup gains, r.status, r.failed) => Legal(r2)

RingMay(at, held) == \A r : IsCall(r) /\ r.at = at /\ RingHolds(r, held) => Legal(r)

\* What the ring buffer may hold where a view has replaced a placeholder.
LEMMA RingNext ==
  /\ RingMay("rb view1", {"descriptor", "placeholder1", "placeholder2", "section"})
  /\ RingMay("rb view2", {"descriptor", "view1", "placeholder2", "section"})
  /\ RingMay("rb exit", {"descriptor", "primary_view", "secondary_view", "section"})
<1> USE RingTable DEF RingMay, AtRing, LegalRing
<1>1. RingMay("rb view1", {"descriptor", "placeholder1", "placeholder2", "section"})
  BY Zenon
<1>2. RingMay("rb view2", {"descriptor", "view1", "placeholder2", "section"})
  BY Zenon
<1>3. RingMay("rb exit", {"descriptor", "primary_view", "secondary_view", "section"})
  BY Zenon DEF RingHolds
<1> QED BY <1>1, <1>2, <1>3, Zenon

\* A step of the ring buffer exchanges what it holds.
LEMMA RingGoesFrom ==
  ASSUME NEW at, NEW loses, NEW gains, NEW next, NEW held, RingAt(at, held),
         RingMay(next, (held \ loses) \cup gains)
  PROVE  RingGoes(at, loses, gains, next)
<1> SUFFICES ASSUME NEW r, NEW r2, Legal(r), r.at = at,
                    Goes(r, r2, next, (r.held \ loses) \cup gains, r.status, r.failed)
             PROVE  Legal(r2)
  BY Zenon DEF RingGoes
<1>1. RingHolds(r, held)
  BY Zenon DEF RingAt
<1>2. IsCall(r2) /\ r2.at = next /\ RingHolds(r2, (held \ loses) \cup gains)
  BY <1>1, Zenon DEF RingHolds, Goes
<1> QED BY <1>2, Zenon DEF RingMay

\* A step of the ring buffer works, or goes to the clean-up with what it holds.
LEMMA RingStepInv ==
  ASSUME CallInv, NEW c \in Callers, NEW at, NEW gains, NEW loses, NEW next, NEW held,
         RingAt(at, held), held \subseteq RingLocals \cup {"descriptor"},
         RingGoes(at, loses, gains, next), RingStep(c, at, gains, loses, next)
  PROVE  CallInv'
<1>1. IsCall(call[c]) /\ Legal(call[c]) /\ call[c].at = at
  BY Zenon DEF CallInv, Legal, RingStep
<1>2. call[c].fn = RingBuffer /\ call[c].held = held
  BY <1>1, Zenon DEF RingAt, RingHolds
<1>3. RingBuffer # "SeAccessCheck"
  BY DEF RingBuffer
<1>4. CASE Update(c, [call[c] EXCEPT !.at = next, !.held = (@ \ loses) \cup gains])
  <2> DEFINE r == [call[c] EXCEPT !.at = next, !.held = (call[c].held \ loses) \cup gains]
  <2>1. Goes(call[c], r, next, (call[c].held \ loses) \cup gains, call[c].status, call[c].failed)
    BY <1>1, Updates, Zenon
  <2>2. Update(c, r)
    BY <1>4
  <2> HIDE DEF r
  <2>3. Legal(r)
    BY <1>1, <2>1, Zenon DEF RingGoes
  <2>4. r.fn = RingBuffer
    BY <1>2, <2>1, Zenon DEF Goes
  <2> QED BY <1>2, <1>3, <2>2, <2>3, <2>4, UpdateInv, Zenon DEF Step, InCheck
<1>5. CASE Update(c, [call[c] EXCEPT !.at = "rb exit", !.failed = TRUE])
  <2> DEFINE r == [call[c] EXCEPT !.at = "rb exit", !.failed = TRUE]
  <2>1. Goes(call[c], r, "rb exit", call[c].held, call[c].status, TRUE)
    BY <1>1, Updates, Zenon
  <2>2. Update(c, r)
    BY <1>5
  <2> HIDE DEF r
  <2>3. IsCall(r) /\ r.at = "rb exit" /\ r.fn = RingBuffer /\ r.held = held
    BY <1>2, <2>1, Zenon DEF Goes
  <2>4. Legal(r)
    BY <2>3, RingRefused, Zenon
  <2> QED BY <1>2, <1>3, <2>2, <2>3, <2>4, UpdateInv, Zenon DEF Step, InCheck
<1> QED BY <1>4, <1>5, Zenon DEF RingStep

\* The exit keeps the descriptor of a call that went past the split, and with
\* it the views when the call got both.
LEMMA RingExitInv ==
  ASSUME CallInv, NEW c \in Callers, RingExit(c)
  PROVE  CallInv'
<1> DEFINE released == RingLocals \cup IF call[c].status = "success" THEN {} ELSE {"descriptor"}
           r == [call[c] EXCEPT !.at = "return", !.held = call[c].held \ released]
<1>1. IsCall(call[c]) /\ Legal(call[c]) /\ call[c].at = "rb exit" /\ Update(c, r)
  BY Zenon DEF CallInv, Legal, RingExit, Cleanup
<1>2. Goes(call[c], r, "return", call[c].held \ released, call[c].status, call[c].failed)
  BY <1>1, Updates, Zenon
<1>3. /\ call[c].fn = RingBuffer
      /\ \/ call[c].held \subseteq RingLocals \cup {"descriptor"}
         \/ RingHolds(call[c], {"descriptor", "primary_view", "secondary_view", "section"})
  BY <1>1, RingTable, Zenon DEF AtRing, LegalRing
<1>4. call[c].held \ released \in {{}, {"descriptor"}, {"descriptor", "primary_view", "secondary_view"}}
  <2>1. CASE call[c].held \subseteq RingLocals \cup {"descriptor"}
    BY <2>1 DEF RingLocals
  <2>2. CASE RingHolds(call[c], {"descriptor", "primary_view", "secondary_view", "section"})
    BY <2>2 DEF RingLocals, RingHolds
  <2> QED BY <1>3, <2>1, <2>2
<1> HIDE DEF released, r
<1>5. /\ IsCall(r)
      /\ r.at = "return"
      /\ r.fn = RingBuffer
      /\ r.held \in {{}, {"descriptor"}, Gives(RingBuffer)}
  BY <1>2, <1>3, <1>4, GivesTable, Zenon DEF Goes, RingBuffer
<1>6. RingBuffer # "SeAccessCheck" /\ RingBuffer # "SecLookupAccountSid"
  BY DEF RingBuffer
<1>7. Legal(r)
  BY <1>5, <1>6, Judged DEF LegalEnd
<1> QED BY <1>1, <1>3, <1>5, <1>6, <1>7, UpdateInv, Zenon DEF Step, InCheck

\* usersim_allocate_ring_buffer_memory.
LEMMA RingInv ==
  ASSUME CallInv, NEW c \in Callers, usersim_allocate_ring_buffer_memory(c)
  PROVE  CallInv'
<1> USE RingTable DEF Within
<1>1. RingBuffer # "SeAccessCheck" /\ RingBuffer # "SecLookupAccountSid"
  BY Zenon DEF RingBuffer
<1>2. Starts("rb length", RingBuffer)
  BY <1>1, Zenon DEF Starts, Fresh, RunsAt, Running, InCheck
<1>3. /\ {} = {} \cup {} /\ {"descriptor"} = {} \cup {"descriptor"}
      /\ {"descriptor", "placeholder1"} = {"descriptor"} \cup {"placeholder1"}
      /\ {"descriptor", "placeholder1", "placeholder2"} = {"descriptor", "placeholder1"} \cup {"placeholder2"}
  BY Zenon
<1>4. /\ Passes("rb length", {}, "rb descriptor")
      /\ Passes("rb descriptor", {"descriptor"}, "VirtualAlloc2")
      /\ Passes("VirtualAlloc2", {"placeholder1"}, "rb split")
  BY <1>1, <1>3, PassesFrom, Zenon
<1>5. Concludes("rb split", {"placeholder2"}, "CreateFileMapping")
  BY <1>1, <1>3, ConcludesFrom, Zenon
<1>6. TakesRefused("return", RingBuffer, {})
  BY IntoReturn, Zenon
<1>7. /\ TakesRefused("rb exit", RingBuffer, {})
      /\ TakesRefused("rb exit", RingBuffer, {"descriptor"})
      /\ TakesRefused("rb exit", RingBuffer, {"descriptor", "placeholder1"})
  BY RingRefused, Zenon DEF TakesRefused, RingLocals
<1>8. /\ Refused("rb length", "return") /\ Refused("rb descriptor", "rb exit")
      /\ Refused("VirtualAlloc2", "rb exit") /\ Refused("rb split", "rb exit")
  BY <1>1, <1>6, <1>7, RefusedFrom, Zenon
<1>9. /\ RingAt("CreateFileMapping", {"descriptor", "placeholder1", "placeholder2"})
      /\ RingAt("rb view1", {"descriptor", "placeholder1", "placeholder2", "section"})
      /\ RingAt("rb view2", {"descriptor", "view1", "placeholder2", "section"})
  BY Zenon DEF RingAt, Legal, LegalRing
<1>10. /\ {"descriptor", "placeholder1", "placeholder2"} \subseteq RingLocals \cup {"descriptor"}
       /\ {"descriptor", "placeholder1", "placeholder2", "section"} \subseteq RingLocals \cup {"descriptor"}
       /\ {"descriptor", "view1", "placeholder2", "section"} \subseteq RingLocals \cup {"descriptor"}
  BY Zenon DEF RingLocals
<1>11. /\ ({"descriptor", "placeholder1", "placeholder2"} \ {}) \cup {"section"}
            = {"descriptor", "placeholder1", "placeholder2", "section"}
       /\ ({"descriptor", "placeholder1", "placeholder2", "section"} \ {"placeholder1"}) \cup {"view1"}
            = {"descriptor", "view1", "placeholder2", "section"}
       /\ ({"descriptor", "view1", "placeholder2", "section"} \ {"view1", "placeholder2"})
              \cup {"primary_view", "secondary_view"}
            = {"descriptor", "primary_view", "secondary_view", "section"}
  BY Zenon
<1>12. RingGoes("CreateFileMapping", {}, {"section"}, "rb view1")
  BY <1>9, <1>11, RingNext, RingGoesFrom, Zenon
<1>13. /\ RingGoes("rb view1", {"placeholder1"}, {"view1"}, "rb view2")
       /\ RingGoes("rb view2", {"view1", "placeholder2"}, {"primary_view", "secondary_view"}, "rb exit")
  BY <1>9, <1>11, RingNext, RingGoesFrom, Zenon
<1>14. ASSUME RingStep(c, "CreateFileMapping", {"section"}, {}, "rb view1")
       PROVE  CallInv'
  BY <1>9, <1>10, <1>12, <1>14, RingStepInv, Zenon
<1>15. ASSUME RingStep(c, "rb view1", {"view1"}, {"placeholder1"}, "rb view2")
       PROVE  CallInv'
  BY <1>9, <1>10, <1>13, <1>15, RingStepInv, Zenon
<1>16. ASSUME RingStep(c, "rb view2", {"primary_view", "secondary_view"}, {"view1", "placeholder2"}, "rb exit")
       PROVE  CallInv'
  BY <1>9, <1>10, <1>13, <1>16, RingStepInv, Zenon
<1>17. usersim_allocate_ring_buffer_memory(c) =>
         \/ Begin(c, RingBuffer, "rb length")
         \/ Try(c, "rb length", {}, "rb descriptor", "return")
         \/ Try(c, "rb descriptor", {"descriptor"}, "VirtualAlloc2", "rb exit")
         \/ Try(c, "VirtualAlloc2", {"placeholder1"}, "rb split", "rb exit")
         \/ TryLast(c, "rb split", {"placeholder2"}, "CreateFileMapping", "rb exit")
         \/ RingStep(c, "CreateFileMapping", {"section"}, {}, "rb view1")
         \/ RingStep(c, "rb view1", {"view1"}, {"placeholder1"}, "rb view2")
         \/ RingStep(c, "rb view2", {"primary_view", "secondary_view"}, {"view1", "placeholder2"}, "rb exit")
         \/ RingExit(c)
  BY Zenon DEF usersim_allocate_ring_buffer_memory, RingBuffer
<1> QED
  BY <1>2, <1>4, <1>5, <1>8, <1>14, <1>15, <1>16, <1>17, BeginInv, TryInv, TryLastInv,
     RingExitInv, Zenon


\* The names.
LEMMA NamesTable ==
  \A r : IsCall(r) /\ r.at \in AtNames => (Legal(r) <=> LegalNames(r))
BY Judged, Zenon DEF Legal

\* A call for names that was refused may return once it holds nothing.
LEMMA NamesRefused ==
  ASSUME NEW r, IsCall(r), r.fn = "SecLookupAccountSid", r.status = "failure", r.failed,
         \/ r.at = "return" /\ r.held = {}
         \/ r.at = "la free" /\ r.held \subseteq {"name", "domain"}
  PROVE  Legal(r)
BY NamesTable, MayReturn, Zenon DEF AtNames, LegalNames

\* The buffers and the lengths of a call.
SameNames(r, r2) ==
  /\ r2.name = r.name /\ r2.domain = r.domain
  /\ r2.name_chars = r.name_chars /\ r2.domain_chars = r.domain_chars

\* A step that keeps the names and the answer keeps what is asked of them.
LEMMA NamesWhereTheyWere ==
  ASSUME NEW r, NEW r2, SameNames(r, r2), r2.fn = r.fn, r2.held = r.held, r2.status = r.status,
         r2.failed = r.failed, NEW held, NEW least
  PROVE  /\ LookingUp(r, held) => LookingUp(r2, held)
         /\ Asked(r, least) => Asked(r2, least)
         /\ Answered(r) => Answered(r2)
BY DEF SameNames, LookingUp, Asked, Answered, Running

\* Steps that gain something while the names are looked up.
LEMMA NamesPass ==
  ASSUME NEW at, NEW next, NEW gains, NEW held, NEW held2, held2 = held \cup gains,
         at # "return",
         \A r : Legal(r) /\ r.at = at => LookingUp(r, held) /\ (next # "la size" => Asked(r, 1)),
         \A r : /\ IsCall(r) /\ r.at = next
                /\ LookingUp(r, held2) /\ (next # "la size" => Asked(r, 1))
                => Legal(r)
  PROVE  Passes(at, gains, next)
<1> SUFFICES ASSUME NEW r, NEW r2, Legal(r), r.at = at,
                    Goes(r, r2, next, r.held \cup gains, r.status, r.failed)
             PROVE  Step(r, r2)
  BY Zenon DEF Passes
<1>1. LookingUp(r, held) /\ (next # "la size" => Asked(r, 1))
  BY Zenon
<1>2. IsCall(r2) /\ r2.at = next /\ r2.fn = r.fn
  BY Zenon DEF Goes
<1>3. LookingUp(r2, held2)
  BY <1>1, Zenon DEF LookingUp, Running, Goes
<1>4. next # "la size" => Asked(r2, 1)
  BY <1>1, Zenon DEF Asked, Goes
<1>5. r.fn # "SeAccessCheck"
  BY <1>1, Zenon DEF LookingUp, Running
<1> QED BY <1>2, <1>3, <1>4, <1>5, Zenon DEF Step, InCheck

\* A step that is refused while the names are looked up.
LEMMA NamesRefuse ==
  ASSUME NEW at, NEW stop, NEW held, at # "return",
         \A r : Legal(r) /\ r.at = at => LookingUp(r, held),
         \/ stop = "return" /\ held = {}
         \/ stop = "la free" /\ held \subseteq {"name", "domain"}
  PROVE  Refused(at, stop)
<1> SUFFICES ASSUME NEW r, NEW r2, Legal(r), r.at = at, Goes(r, r2, stop, r.held, "failure", TRUE)
             PROVE  Step(r, r2)
  BY Zenon DEF Refused
<1>1. r.fn = "SecLookupAccountSid" /\ r.held = held
  BY Zenon DEF LookingUp, Running
<1>2. /\ IsCall(r2)
      /\ r2.at = stop
      /\ r2.fn = r.fn
      /\ r2.held = r.held
      /\ r2.status = "failure"
      /\ r2.failed
  BY Zenon DEF Goes
<1>3. Legal(r2)
  BY <1>1, <1>2, NamesRefused, Zenon
<1> QED BY <1>1, <1>2, <1>3, Zenon DEF Step, InCheck

\* What is stored of a name falls short of what is needed exactly when the name
\* is not whole.
LEMMA ShortOfNeeded ==
  ASSUME NEW chars \in Nat, NEW buffer \in AccountBuffers
  PROVE  ByteLen(chars, buffer) < NeededSize(chars, buffer) <=> ~Whole(chars, buffer)
<1>1. buffer = << >> \/ \E n \in AccountSizes : buffer = <<n>>
  BY DEF AccountBuffers
<1>2. CASE buffer = << >>
  BY <1>2 DEF ByteLen, NeededSize, Whole
<1>3. CASE \E n \in AccountSizes : buffer = <<n>>
  <2>1. PICK n \in AccountSizes : buffer = <<n>>
    BY <1>3
  <2>2. n \in Nat /\ buffer # << >> /\ buffer[1] = n
    BY <2>1, CallsAssumption
  <2> QED BY <2>2 DEF ByteLen, NeededSize, Whole, WCHAR, min
<1> QED BY <1>1, <1>2, <1>3

\* No name is truncated exactly when each buffer got the whole of its name.
LEMMA TruncatedNames ==
  ASSUME NEW r, r.name \in AccountBuffers, r.domain \in AccountBuffers, Asked(r, 0)
  PROVE  ~Truncated(r) <=> Whole(r.name_chars, r.name) /\ Whole(r.domain_chars, r.domain)
BY ShortOfNeeded, Zenon DEF Truncated, Asked

\* The names are copied into the buffers that the caller has.
LEMMA CopyNamesInv ==
  ASSUME CallInv, NEW c \in Callers, CopyNames(c)
  PROVE  CallInv'
<1> DEFINE answer == IF Truncated(call[c]) THEN "too small" ELSE "success"
           r == [call[c] EXCEPT !.at = "la free", !.status = answer]
<1>1. IsCall(call[c]) /\ Legal(call[c]) /\ call[c].at = "la copy" /\ Update(c, r)
  BY Zenon DEF CallInv, Legal, CopyNames
<1>2. LookingUp(call[c], {"name", "domain"}) /\ Asked(call[c], 0)
  BY <1>1, NamesTable, Zenon DEF AtNames, LegalNames
<1>3. /\ IsCall(r) /\ r.at = "la free" /\ r.status = answer /\ r.fn = call[c].fn /\ r.held = call[c].held
      /\ r.failed = call[c].failed /\ SameNames(call[c], r)
  BY <1>1, Zenon DEF IsCall, SameNames
<1>4. answer \in {"success", "too small"} /\ (answer = "success" <=> ~Truncated(call[c]))
  OBVIOUS
<1> HIDE DEF answer, r
<1>5. answer = "success" <=> Whole(call[c].name_chars, call[c].name) /\ Whole(call[c].domain_chars, call[c].domain)
  BY <1>2, <1>4, TruncatedNames, Zenon DEF LookingUp
<1>6. Answered(r)
  BY <1>2, <1>3, <1>5, Zenon DEF Answered, SameNames, Asked
<1>7. Legal(r)
  BY <1>2, <1>3, <1>4, <1>6, NamesTable, Zenon DEF AtNames, LegalNames, LookingUp, Running
<1>8. call[c].fn = "SecLookupAccountSid"
  BY <1>2 DEF LookingUp, Running
<1> QED BY <1>1, <1>3, <1>7, <1>8, UpdateInv, Zenon DEF Step, InCheck

\* The second lookup answers without the terminators.
LEMMA LookupNamesInv ==
  ASSUME CallInv, NEW c \in Callers, LookupNames(c)
  PROVE  CallInv'
<1>1. IsCall(call[c]) /\ Legal(call[c]) /\ call[c].at = "LookupAccountSidW"
  BY Zenon DEF CallInv, Legal, LookupNames
<1>2. LookingUp(call[c], {"name", "domain"}) /\ Asked(call[c], 1)
  BY <1>1, NamesTable, Zenon DEF AtNames, LegalNames
<1>3. call[c].fn = "SecLookupAccountSid" /\ call[c].held = {"name", "domain"}
  BY <1>2 DEF LookingUp, Running
<1>4. CASE Update(c, [call[c] EXCEPT !.at = "la copy", !.name_chars = @ - 1, !.domain_chars = @ - 1])
  <2> DEFINE r == [call[c] EXCEPT !.at = "la copy", !.name_chars = call[c].name_chars - 1,
                                  !.domain_chars = call[c].domain_chars - 1]
  <2>1. /\ IsCall(r) /\ r.at = "la copy" /\ r.fn = call[c].fn /\ r.held = call[c].held
        /\ r.status = call[c].status /\ r.failed = call[c].failed
        /\ r.name = call[c].name /\ r.domain = call[c].domain
        /\ r.name_chars = call[c].name_chars - 1 /\ r.domain_chars = call[c].domain_chars - 1
    BY <1>1, Zenon DEF IsCall
  <2>2. Update(c, r)
    BY <1>4
  <2> HIDE DEF r
  <2>3. LookingUp(r, {"name", "domain"})
    BY <1>2, <2>1, Zenon DEF LookingUp, Running
  <2>4. Asked(r, 0)
    <3>1. \A n \in Nat : 1 <= n => n - 1 \in Nat /\ 0 <= n - 1
      OBVIOUS
    <3> QED BY <1>2, <2>1, <3>1, Zenon DEF Asked
  <2>5. Legal(r)
    BY <2>1, <2>3, <2>4, NamesTable, Zenon DEF AtNames, LegalNames
  <2> QED BY <1>1, <1>3, <2>1, <2>2, <2>5, UpdateInv, Zenon DEF Step, InCheck
<1>5. CASE Update(c, [call[c] EXCEPT !.at = "la free", !.status = "failure", !.failed = TRUE])
  <2> DEFINE r == [call[c] EXCEPT !.at = "la free", !.status = "failure", !.failed = TRUE]
  <2>1. Goes(call[c], r, "la free", call[c].held, "failure", TRUE)
    BY <1>1, Updates, Zenon
  <2>2. Update(c, r)
    BY <1>5
  <2> HIDE DEF r
  <2>3. /\ IsCall(r)
        /\ r.at = "la free"
        /\ r.fn = call[c].fn
        /\ r.held = call[c].held
        /\ r.status = "failure"
        /\ r.failed
    BY <2>1, Zenon DEF Goes
  <2>4. Legal(r)
    BY <1>3, <2>3, NamesRefused, Zenon
  <2> QED BY <1>1, <1>3, <2>2, <2>3, <2>4, UpdateInv, Zenon DEF Step, InCheck
<1> QED BY <1>4, <1>5, Zenon DEF LookupNames

\* The first lookup answers with the sizes, and ends a call without buffers.
LEMMA LookupSizesInv ==
  ASSUME CallInv, NEW c \in Callers, LookupSizes(c)
  PROVE  CallInv'
<1>1. IsCall(call[c]) /\ Legal(call[c]) /\ call[c].at = "la size"
  BY Zenon DEF CallInv, Legal, LookupSizes
<1>2. LookingUp(call[c], {})
  BY <1>1, NamesTable, Zenon DEF AtNames, LegalNames
<1>3. /\ call[c].fn = "SecLookupAccountSid"
      /\ call[c].held = {}
      /\ call[c].status = "none"
      /\ ~call[c].failed
  BY <1>2 DEF LookingUp, Running
<1>4. CASE Update(c, [call[c] EXCEPT !.at = "return", !.status = "failure", !.failed = TRUE])
  <2> DEFINE r == [call[c] EXCEPT !.at = "return", !.status = "failure", !.failed = TRUE]
  <2>1. Goes(call[c], r, "return", call[c].held, "failure", TRUE)
    BY <1>1, Updates, Zenon
  <2>2. Update(c, r)
    BY <1>4
  <2> HIDE DEF r
  <2>3. /\ IsCall(r)
        /\ r.at = "return"
        /\ r.fn = call[c].fn
        /\ r.held = call[c].held
        /\ r.status = "failure"
        /\ r.failed
    BY <2>1, Zenon DEF Goes
  <2>4. Legal(r)
    BY <1>3, <2>3, NamesRefused, Zenon
  <2> QED BY <1>1, <1>3, <2>2, <2>3, <2>4, UpdateInv, Zenon DEF Step, InCheck
<1>5. ASSUME NEW n \in AccountChars, NEW d \in AccountChars, call[c].name = << >> /\ call[c].domain = << >>,
             Update(c, [call[c] EXCEPT !.at = "return", !.status = "too small",
                                       !.name_chars = n - 1, !.domain_chars = d - 1])
      PROVE  CallInv'
  <2> DEFINE r == [call[c] EXCEPT !.at = "return", !.status = "too small",
                                  !.name_chars = n - 1, !.domain_chars = d - 1]
  <2>1. /\ IsCall(r) /\ r.at = "return" /\ r.fn = call[c].fn /\ r.held = call[c].held
        /\ r.status = "too small" /\ r.failed = call[c].failed
        /\ r.name = call[c].name /\ r.domain = call[c].domain
    BY <1>1, Zenon DEF IsCall
  <2>2. Update(c, r)
    BY <1>5
  <2> HIDE DEF r
  <2>3. Answered(r)
    BY <1>5, <2>1, Zenon DEF Answered
  <2>4. LegalEnd(r)
    BY <1>3, <2>1, <2>3, Zenon DEF LegalEnd, RingBuffer
  <2>5. Legal(r)
    BY <2>1, <2>4, Judged, Zenon
  <2> QED BY <1>1, <1>3, <2>1, <2>2, <2>5, UpdateInv, Zenon DEF Step, InCheck
<1>6. ASSUME NEW n \in AccountChars, NEW d \in AccountChars, ~(call[c].name = << >> /\ call[c].domain = << >>),
             Update(c, [call[c] EXCEPT !.at = "la name", !.name_chars = n, !.domain_chars = d])
      PROVE  CallInv'
  <2> DEFINE r == [call[c] EXCEPT !.at = "la name", !.name_chars = n, !.domain_chars = d]
  <2>1. /\ IsCall(r) /\ r.at = "la name" /\ r.fn = call[c].fn /\ r.held = call[c].held
        /\ r.status = call[c].status /\ r.failed = call[c].failed
        /\ r.name = call[c].name /\ r.domain = call[c].domain
        /\ r.name_chars = n /\ r.domain_chars = d
    BY <1>1, Zenon DEF IsCall
  <2>2. Update(c, r)
    BY <1>6
  <2>3. n \in Nat /\ d \in Nat /\ 1 <= n /\ 1 <= d
    BY CallsAssumption
  <2> HIDE DEF r
  <2>4. LookingUp(r, {})
    BY <1>2, <2>1, Zenon DEF LookingUp, Running
  <2>5. Asked(r, 1)
    BY <1>6, <2>1, <2>3, Zenon DEF Asked
  <2>6. Legal(r)
    BY <2>1, <2>4, <2>5, NamesTable, Zenon DEF AtNames, LegalNames
  <2> QED BY <1>1, <1>3, <2>1, <2>2, <2>6, UpdateInv, Zenon DEF Step, InCheck
<1> QED BY <1>4, <1>5, <1>6, Zenon DEF LookupSizes

\* SecLookupAccountSid begins, with any buffers.
LEMMA LookupBeginsInv ==
  ASSUME CallInv, NEW c \in Callers, NEW name \in AccountBuffers, NEW domain \in AccountBuffers,
         SecLookupAccountSidBegins(c, name, domain)
  PROVE  CallInv'
<1> DEFINE r == [NoCall EXCEPT !.at = "la fault", !.fn = "SecLookupAccountSid", !.name = name, !.domain = domain]
<1>1. call[c].at = "idle" /\ Update(c, r)
  BY Zenon DEF SecLookupAccountSidBegins
<1>2. /\ IsCall(r) /\ r.at = "la fault" /\ r.fn = "SecLookupAccountSid" /\ r.held = {} /\ r.status = "none"
      /\ ~r.failed /\ r.name = name /\ r.domain = domain
  BY Zenon DEF IsCall, NoCall
<1> HIDE DEF r
<1>3. LookingUp(r, {})
  BY <1>2, Zenon DEF LookingUp, Running
<1>4. Legal(r)
  BY <1>2, <1>3, NamesTable, Zenon DEF AtNames, LegalNames
<1>5. ~InCheck(r)
  BY <1>2, Zenon DEF InCheck
<1> QED BY <1>1, <1>4, <1>5, IdleInv

\* SecLookupAccountSid frees the names it allocated.
LEMMA NamesLetGo == LetsGo("la free", {"name", "domain"})
<1> SUFFICES ASSUME NEW r, NEW r2, Legal(r), r.at = "la free",
                    Goes(r, r2, "return", r.held \ {"name", "domain"}, r.status, r.failed)
             PROVE  Step(r, r2)
  BY Zenon DEF LetsGo
<1>1. /\ r.fn = "SecLookupAccountSid" /\ r.held \subseteq {"name", "domain"}
      /\ \/ r.status = "failure" /\ r.failed
         \/ r.status \in {"success", "too small"} /\ ~r.failed /\ Answered(r)
  BY Zenon DEF Legal, LegalNames
<1>2. r.held \ {"name", "domain"} = {}
  BY <1>1, Zenon
<1>3. /\ IsCall(r2) /\ r2.at = "return" /\ r2.fn = r.fn /\ r2.held = {} /\ r2.status = r.status
      /\ r2.failed = r.failed /\ SameNames(r, r2)
  BY <1>2, Zenon DEF Goes, SameNames
<1>4. Answered(r) => Answered(r2)
  BY <1>3, Zenon DEF Answered, SameNames
<1>5. Gives("SecLookupAccountSid") = {} /\ "SecLookupAccountSid" # RingBuffer
  BY GivesTable, Zenon DEF RingBuffer
<1>6. LegalEnd(r2)
  BY <1>1, <1>3, <1>4, <1>5, Zenon DEF LegalEnd
<1>7. Legal(r2)
  BY <1>3, <1>6, Judged, Zenon
<1> QED BY <1>1, <1>3, <1>7, Zenon DEF Step, InCheck

\* SecLookupAccountSid, every step.
LEMMA LookupInv ==
  ASSUME CallInv, NEW c \in Callers, SecLookupAccountSid(c)
  PROVE  CallInv'
<1>1. /\ \A r : Legal(r) /\ r.at = "la fault" => LookingUp(r, {})
      /\ \A r : Legal(r) /\ r.at = "la name" => LookingUp(r, {}) /\ Asked(r, 1)
      /\ \A r : Legal(r) /\ r.at = "la domain" => LookingUp(r, {"name"}) /\ Asked(r, 1)
  BY Zenon DEF Legal, LegalNames
<1>2. /\ \A r : IsCall(r) /\ r.at = "la size" /\ LookingUp(r, {}) => Legal(r)
      /\ \A r : IsCall(r) /\ r.at = "la domain" /\ LookingUp(r, {"name"}) /\ Asked(r, 1) => Legal(r)
      /\ \A r : IsCall(r) /\ r.at = "LookupAccountSidW" /\ LookingUp(r, {"name", "domain"}) /\ Asked(r, 1) => Legal(r)
  BY NamesTable, Zenon DEF AtNames, LegalNames
<1>3. {} = {} \cup {} /\ {"name"} = {} \cup {"name"} /\ {"name", "domain"} = {"name"} \cup {"domain"}
  OBVIOUS
<1>4. Passes("la fault", {}, "la size")
  BY <1>1, <1>2, <1>3, NamesPass, Zenon
<1>5. Passes("la name", {"name"}, "la domain")
  BY <1>1, <1>2, <1>3, NamesPass, Zenon
<1>6. Passes("la domain", {"domain"}, "LookupAccountSidW")
  BY <1>1, <1>2, <1>3, NamesPass, Zenon
<1>7. Refused("la fault", "return") /\ Refused("la name", "return") /\ Refused("la domain", "la free")
  <2>1. Refused("la fault", "return")
    BY <1>1, NamesRefuse, Zenon
  <2>2. Refused("la name", "return")
    BY <1>1, NamesRefuse, Zenon
  <2>3. {"name"} \subseteq {"name", "domain"}
    OBVIOUS
  <2>4. Refused("la domain", "la free")
    BY <1>1, <2>3, NamesRefuse, Zenon
  <2> QED BY <2>1, <2>2, <2>4, Zenon
<1> QED
  BY <1>4, <1>5, <1>6, <1>7, TryInv, CleanupInv, LookupBeginsInv, LookupSizesInv, LookupNamesInv,
     CopyNamesInv,
     NamesLetGo, Zenon
  DEF SecLookupAccountSid


-----------------------------------------------------------------------------
INSTANCE FiniteSetTheorems

\* The lock count.
LEMMA LocksFinite ==
  IsFiniteSet(CallerLocks) /\ IsFiniteSet(CheckLocks)
<1>1. IsFiniteSet(Callers) /\ IsFiniteSet(1..MaxLocks)
  BY CallsAssumption, FS_Interval
<1>2. IsFiniteSet(Callers \X (1..MaxLocks))
  BY <1>1, FS_Product, Zenon
<1>3. CallerLocks \subseteq Callers \X (1..MaxLocks) /\ CheckLocks \subseteq Callers
  BY Zenon DEF CallerLocks, CheckLocks
<1> QED BY <1>1, <1>2, <1>3, FS_Subset

\* A call from a record to one that is no access check of its own, or to one
\* that is; the locks of the callers stay as they are.
LEMMA ChecksAfter ==
  ASSUME CallInv, NEW c \in Callers, NEW r, Legal(r), call' = [call EXCEPT ![c] = r], locks' = locks
  PROVE  /\ call' = [d \in Callers |-> call'[d]]
         /\ \A d \in Callers : Legal(call'[d])
         /\ locks' \in [Callers -> 0..MaxLocks]
         /\ CallerLocks' = CallerLocks
         /\ InCheck(r) => CheckLocks' = CheckLocks \cup {c}
         /\ ~InCheck(r) => CheckLocks' = CheckLocks \ {c}
         /\ c \in CheckLocks <=> InCheck(call[c])
<1>1. call' = [d \in Callers |-> call'[d]] /\ call'[c] = r /\ \A d \in Callers : d # c => call'[d] = call[d]
  BY DEF CallInv
<1>2. /\ CheckLocks = {d \in Callers : InCheck(call[d])}
      /\ CheckLocks' = {d \in Callers : InCheck(call'[d])}
  BY Zenon DEF CheckLocks, InCheck
<1>3. \A d \in Callers : Legal(call'[d])
  BY <1>1, Zenon DEF CallInv
<1>4. CallerLocks' = CallerLocks /\ locks' \in [Callers -> 0..MaxLocks]
  BY Zenon DEF CallerLocks, CallInv
<1>5. /\ InCheck(r) => CheckLocks' = CheckLocks \cup {c}
      /\ ~InCheck(r) => CheckLocks' = CheckLocks \ {c}
      /\ c \in CheckLocks <=> InCheck(call[c])
  BY <1>1, <1>2, Zenon
<1> QED BY <1>1, <1>3, <1>4, <1>5

\* SeAccessCheck begins, and locks the subject context unless the caller has.
LEMMA BeginsCheckInv ==
  ASSUME CallInv, NEW c \in Callers, NEW locked \in BOOLEAN, SeAccessCheckBegins(c, locked)
  PROVE  CallInv'
<1> DEFINE r == [NoCall EXCEPT !.at = "ta size", !.fn = "SeAccessCheck", !.locked = locked]
<1>1. /\ call[c].at = "idle" /\ call' = [call EXCEPT ![c] = r] /\ locks' = locks
      /\ IF locked THEN lock_count' = lock_count /\ underflow' = underflow ELSE SeLockSubjectContext
  BY Zenon DEF SeAccessCheckBegins
<1>2. /\ IsCall(r) /\ r.at = "ta size" /\ r.fn = "SeAccessCheck" /\ r.held = {} /\ r.status = "none"
      /\ ~r.failed /\ r.locked = locked
  BY Zenon DEF IsCall, NoCall
<1> HIDE DEF r
<1>3. Legal(r)
  BY <1>2, ChecksTable, Zenon DEF RunsAt, Running
<1>4. call[c].fn = "none"
  BY <1>1, Zenon DEF CallInv, Legal
<1>5. ~InCheck(call[c]) /\ (InCheck(r) <=> ~locked)
  BY <1>2, <1>4, Zenon DEF InCheck
<1>6. /\ call' = [d \in Callers |-> call'[d]] /\ \A d \in Callers : Legal(call'[d])
      /\ locks' \in [Callers -> 0..MaxLocks] /\ CallerLocks' = CallerLocks
      /\ InCheck(r) => CheckLocks' = CheckLocks \cup {c}
      /\ ~InCheck(r) => CheckLocks' = CheckLocks \ {c}
      /\ c \in CheckLocks <=> InCheck(call[c])
  BY <1>1, <1>3, ChecksAfter, Zenon
<1>7. lock_count' = Cardinality(CallerLocks') + Cardinality(CheckLocks') /\ ~underflow'
  <2>1. Cardinality(CallerLocks) \in Nat /\ Cardinality(CheckLocks) \in Nat
    BY LocksFinite, FS_CardinalityType
  <2>2. CASE locked
    <3>1. CheckLocks' = CheckLocks
      BY <1>5, <1>6, <2>2
    <3> QED BY <1>1, <1>6, <2>2, <3>1, Zenon DEF CallInv
  <2>3. CASE ~locked
    <3>1. Cardinality(CheckLocks') = Cardinality(CheckLocks) + 1
      BY <1>5, <1>6, <2>3, LocksFinite, FS_AddElement
    <3>2. /\ lock_count' = lock_count + 1
          /\ ~underflow'
          /\ lock_count = Cardinality(CallerLocks) + Cardinality(CheckLocks)
      BY <1>1, <2>3, Zenon DEF SeLockSubjectContext, CallInv
    <3> QED BY <1>6, <2>1, <3>1, <3>2
  <2> QED BY <2>2, <2>3
<1> QED BY <1>6, <1>7, Zenon DEF CallInv

\* SeAccessCheck ends, and unlocks the subject context if it had locked it.
LEMMA CheckDoneInv ==
  ASSUME CallInv, NEW c \in Callers, SeAccessCheckDone(c)
  PROVE  CallInv'
<1> DEFINE r == [call[c] EXCEPT !.at = "return", !.held = call[c].held \ {"access information"}]
<1>1. IsCall(call[c]) /\ Legal(call[c]) /\ call[c].at = "ta done" /\ call = [d \in Callers |-> call[d]]
  BY Zenon DEF CallInv, Legal, SeAccessCheckDone
<1>2. /\ call' = [call EXCEPT ![c] = r] /\ locks' = locks
      /\ IF call[c].locked THEN lock_count' = lock_count /\ underflow' = underflow ELSE SeUnlockSubjectContext
  <2>1. /\ call' = [call EXCEPT ![c].at = "return", ![c].held = @ \ {"access information"}] /\ locks' = locks
        /\ IF call[c].locked THEN lock_count' = lock_count /\ underflow' = underflow ELSE SeUnlockSubjectContext
    BY Zenon DEF SeAccessCheckDone
  <2> QED BY <1>1, <2>1, Zenon
<1>3. Ending(call[c], "SeAccessCheck", {"access information"})
  BY <1>1, ChecksTable, Zenon DEF EndsAt
<1>4. call[c].fn = "SeAccessCheck" /\ call[c].held \ {"access information"} = {}
  BY <1>3, Zenon DEF Ending, Failing
<1>5. Goes(call[c], r, "return", call[c].held \ {"access information"}, call[c].status, call[c].failed)
  BY <1>1, Updates, Zenon
<1> HIDE DEF r
<1>6. /\ IsCall(r) /\ r.at = "return" /\ r.fn = "SeAccessCheck" /\ r.held = {}
      /\ r.status = call[c].status /\ r.failed = call[c].failed
  BY <1>4, <1>5, Zenon DEF Goes
<1>7. Legal(r)
  BY <1>3, <1>6, MayReturn, GivesTable, Zenon DEF Ending, Failing, RingBuffer
<1>8. ~InCheck(r) /\ (InCheck(call[c]) <=> ~call[c].locked)
  BY <1>1, <1>4, <1>6, Zenon DEF InCheck
<1>9. /\ call' = [d \in Callers |-> call'[d]] /\ \A d \in Callers : Legal(call'[d])
      /\ locks' \in [Callers -> 0..MaxLocks] /\ CallerLocks' = CallerLocks
      /\ CheckLocks' = CheckLocks \ {c}
      /\ c \in CheckLocks <=> InCheck(call[c])
  BY <1>2, <1>7, <1>8, ChecksAfter, Zenon
<1>10. lock_count' = Cardinality(CallerLocks') + Cardinality(CheckLocks') /\ ~underflow'
  <2>1. Cardinality(CallerLocks) \in Nat /\ Cardinality(CheckLocks) \in Nat
    BY LocksFinite, FS_CardinalityType
  <2>2. lock_count = Cardinality(CallerLocks) + Cardinality(CheckLocks) /\ ~underflow
    BY Zenon DEF CallInv
  <2>3. CASE call[c].locked
    <3>1. CheckLocks' = CheckLocks
      BY <1>8, <1>9, <2>3
    <3> QED BY <1>2, <1>9, <2>2, <2>3, <3>1, Zenon
  <2>4. CASE ~call[c].locked
    <3>1. c \in CheckLocks
      BY <1>8, <1>9, <2>4
    <3>2. Cardinality(CheckLocks') = Cardinality(CheckLocks) - 1
      BY <1>9, <3>1, LocksFinite, FS_RemoveElement, Zenon
    <3>3. Cardinality(CheckLocks) # 0
      BY <3>1, LocksFinite, FS_EmptySet
    <3>4. SeUnlockSubjectContext
      BY <1>2, <2>4
    <3>5. lock_count' = lock_count - 1 /\ underflow' = underflow
      BY <2>1, <2>2, <3>3, <3>4 DEF SeUnlockSubjectContext
    <3> QED BY <1>9, <2>1, <2>2, <3>2, <3>5
  <2> QED BY <2>3, <2>4
<1> QED BY <1>9, <1>10, Zenon DEF CallInv

\* SeAccessCheck, every step.
LEMMA SeAccessCheckInv ==
  ASSUME CallInv, NEW c \in Callers, SeAccessCheck(c)
  PROVE  CallInv'
<1> USE ChecksTable DEF Within
<1>1. {} = {} \cup {} /\ {"access information"} = {} \cup {"access information"}
      /\ {"access information"} = {"access information"} \cup {}
  BY Zenon
<1>2. \A held \in SUBSET {"access information"} :
        TakesRefused("ta done", "SeAccessCheck", held) /\ TakesAnswered("ta done", "SeAccessCheck", held)
  BY IntoEnd, Zenon
<1>3. /\ Passes("ta size", {}, "ta allocate")
      /\ Passes("ta allocate", {"access information"}, "SeAccessCheckFromState")
  BY <1>1, PassesFrom, Zenon
<1>4. Concludes("SeAccessCheckFromState", {}, "ta done")
  BY <1>1, <1>2, ConcludesFrom, Zenon
<1>5. /\ Refused("ta size", "ta done")
      /\ Refused("ta allocate", "ta done")
      /\ Refused("SeAccessCheckFromState", "ta done")
  BY <1>2, RefusedFrom, Zenon
<1> QED
  BY <1>3, <1>4, <1>5, TryInv, TryLastInv, BeginsCheckInv, CheckDoneInv, Zenon
  DEF SeAccessCheck, SeAccessCheckFromState

\* A caller's own lock is one more, or one less.
LEMMA LockInv ==
  ASSUME CallInv, NEW c \in Callers, Lock(c) \/ Unlock(c)
  PROVE  CallInv'
<1>1. call' = call /\ locks \in [Callers -> 0..MaxLocks] /\ MaxLocks \in Nat
  BY CallsAssumption, Zenon DEF CallInv, Lock, Unlock
<1>2. CheckLocks' = CheckLocks
  BY <1>1, Zenon DEF CheckLocks
<1>3. Cardinality(CallerLocks) \in Nat /\ Cardinality(CheckLocks) \in Nat
  BY LocksFinite, FS_CardinalityType
<1>4. lock_count = Cardinality(CallerLocks) + Cardinality(CheckLocks) /\ ~underflow
  BY Zenon DEF CallInv
<1>5. CASE Lock(c)
  <2>1. /\ locks[c] < MaxLocks /\ locks' = [locks EXCEPT ![c] = @ + 1]
        /\ lock_count' = lock_count + 1 /\ underflow' = underflow
    BY <1>5, Zenon DEF Lock, SeLockSubjectContext
  <2>2. locks' \in [Callers -> 0..MaxLocks]
    BY <1>1, <2>1
  <2>3. CallerLocks' = CallerLocks \cup {<<c, locks[c] + 1>>} /\ <<c, locks[c] + 1>> \notin CallerLocks
    BY <1>1, <2>1 DEF CallerLocks
  <2>4. Cardinality(CallerLocks') = Cardinality(CallerLocks) + 1
    BY <2>3, LocksFinite, FS_AddElement, Zenon
  <2>5. lock_count' = Cardinality(CallerLocks') + Cardinality(CheckLocks') /\ ~underflow'
    BY <1>2, <1>3, <1>4, <2>1, <2>4
  <2> QED BY <1>1, <2>2, <2>5, Zenon DEF CallInv
<1>6. CASE Unlock(c)
  <2>1. locks[c] > 0 /\ locks' = [locks EXCEPT ![c] = @ - 1] /\ SeUnlockSubjectContext
    BY <1>6, Zenon DEF Unlock
  <2>2. locks' \in [Callers -> 0..MaxLocks]
    BY <1>1, <2>1
  <2>3. CallerLocks' = CallerLocks \ {<<c, locks[c]>>} /\ <<c, locks[c]>> \in CallerLocks
    BY <1>1, <2>1 DEF CallerLocks
  <2>4. Cardinality(CallerLocks') = Cardinality(CallerLocks) - 1 /\ Cardinality(CallerLocks) # 0
    BY <2>3, LocksFinite, FS_RemoveElement, FS_EmptySet, Zenon
  <2>5. lock_count' = lock_count - 1 /\ underflow' = underflow
    BY <1>3, <1>4, <2>1, <2>4 DEF SeUnlockSubjectContext
  <2>6. lock_count' = Cardinality(CallerLocks') + Cardinality(CheckLocks') /\ ~underflow'
    BY <1>2, <1>3, <1>4, <2>4, <2>5
  <2> QED BY <1>1, <2>2, <2>6, Zenon DEF CallInv
<1> QED BY <1>5, <1>6

\* What the caller keeps is no concern of the invariant.
LEMMA KeptInv ==
  ASSUME CallInv, UNCHANGED <<call, locks, lock_count, underflow>>
  PROVE  CallInv'
<1>1. call' = call /\ locks' = locks /\ lock_count' = lock_count /\ underflow' = underflow
  OBVIOUS
<1>2. CallerLocks' = CallerLocks
  BY <1>1, Zenon DEF CallerLocks
<1>3. CheckLocks' = CheckLocks
  BY <1>1, Zenon DEF CheckLocks
<1> QED BY <1>1, <1>2, <1>3 DEF CallInv

\* No call in progress.
LEMMA IdleLegal == Legal(NoCall)
<1> DEFINE r == NoCall
<1>1. IsCall(r) /\ r.at = "idle" /\ r.fn = "none"
  BY Zenon DEF NoCall, IsCall
<1> HIDE DEF r
<1>2. r.at \notin AtChecks /\ r.at \notin AtQueries /\ r.at \notin AtNames /\ r.at \notin AtRing
      /\ r.at \notin AtResults
  BY <1>1 DEF AtChecks, AtQueries, AtNames, AtRing, AtResults
<1>3. Legal(r)
  BY <1>1, <1>2, Elsewhere DEF Legal
<1> QED BY <1>3 DEF r

\* A call returns, and the caller keeps what it gave.
LEMMA ReturnsInv ==
  ASSUME CallInv, NEW c \in Callers, Return(c)
  PROVE  CallInv'
<1>1. /\ call[c].at = "return"
      /\ call' = [call EXCEPT ![c] = NoCall]
      /\ locks' = locks
      /\ lock_count' = lock_count
      /\ underflow' = underflow
  BY Zenon DEF Return
<1>2. Legal(NoCall)
  BY IdleLegal
<1>3. ~InCheck(NoCall) /\ ~InCheck(call[c])
  BY <1>1 DEF InCheck, NoCall
<1>4. /\ call' = [d \in Callers |-> call'[d]] /\ \A d \in Callers : Legal(call'[d])
      /\ locks' \in [Callers -> 0..MaxLocks] /\ CallerLocks' = CallerLocks
      /\ CheckLocks' = CheckLocks \ {c} /\ c \notin CheckLocks
  BY <1>1, <1>2, <1>3, ChecksAfter, Zenon
<1>5. CheckLocks' = CheckLocks
  BY <1>4
<1> QED BY <1>1, <1>4, <1>5, Zenon DEF CallInv

\* Every step of a call keeps the invariant.
LEMMA CallStep ==
  ASSUME CallInv, CallNext
  PROVE  CallInv'
<1>1. Walker \in Callers
  BY CallsAssumption
<1>2. CASE WalkerStep(Walker)
  <2>1. CASE usersim_free_ring_buffer_memory(Walker)
    BY <2>1, KeptInv, Zenon DEF usersim_free_ring_buffer_memory
  <2>2. CASE \E r \in kept[Walker] \ Gives("usersim_allocate_ring_buffer_memory") : Release(Walker, r)
    BY <2>2, KeptInv, Zenon DEF Release
  <2> QED
    BY <1>1, <1>2, <2>1, <2>2, AccessCheckInv, ValidateInv, AuthenticationIdInv,
       QueryAuthenticationInv,
       QueryInformationInv, LookupInv, RingInv, ToUnicodeInv, ModulePathInv, DuplicateInv, DuplicateUtf8Inv,
       EtwRegisterInv, RedirectHandleInv, CreateKeyInv, Zenon
    DEF WalkerStep
<1>3. CASE \E c \in Callers : Lock(c) \/ Unlock(c) \/ SeAccessCheck(c) \/ Return(c)
  BY <1>3, LockInv, SeAccessCheckInv, ReturnsInv, Zenon
<1> QED BY <1>2, <1>3, Zenon DEF CallNext

\* Nothing is called at the start.
LEMMA NothingCalled == CallInit => CallInv
<1> SUFFICES ASSUME CallInit PROVE CallInv
  OBVIOUS
<1>1. /\ call = [c \in Callers |-> NoCall]
      /\ locks = [c \in Callers |-> 0]
      /\ lock_count = 0
      /\ underflow = FALSE
  BY Zenon DEF CallInit
<1>2. Legal(NoCall)
  BY IdleLegal
<1>3. CallerLocks = {}
  BY <1>1 DEF CallerLocks
<1>4. CheckLocks = {}
  <2>1. NoCall.fn # "SeAccessCheck"
    BY DEF NoCall
  <2> QED BY <1>1, <2>1, Zenon DEF CheckLocks
<1>5. MaxLocks \in Nat /\ Cardinality({}) = 0
  BY CallsAssumption, FS_EmptySet
<1> QED BY <1>1, <1>2, <1>3, <1>4, <1>5 DEF CallInv

\* The invariant says what the two properties say.
LEMMA CallInvImplies == CallInv => CallsBalanced /\ AccountNamesWhole
<1> SUFFICES ASSUME CallInv PROVE CallsBalanced /\ AccountNamesWhole
  OBVIOUS
<1>1. \A c \in Ended : LegalEnd(call[c])
  BY Zenon DEF CallInv, Legal, Ended
<1>2. CallsBalanced
  BY <1>1, Zenon DEF CallsBalanced, CallInv, LegalEnd, RingBuffer
<1>3. AccountNamesWhole
  BY <1>1, Zenon DEF AccountNamesWhole, LegalEnd, Answered, Whole
<1> QED BY <1>2, <1>3

\* The invariant of the calls holds always.
LEMMA CallsSound == CallSpec => []CallInv
<1>1. CallInit => CallInv
  BY NothingCalled
<1>2. CallInv /\ [CallNext]_callVars => CallInv'
  <2>1. CallInv /\ UNCHANGED callVars => CallInv'
    BY KeptInv, Zenon DEF callVars
  <2> QED BY <2>1, CallStep
<1> QED BY <1>1, <1>2, PTL DEF CallSpec

\* Whatever step of a call is refused, the call gives back what it took, and the
\* lock count of the subject context does not drift: for any number of callers in
\* any interleaving, and any number of locks.
THEOREM CallsAlwaysBalanced == CallSpec => []CallsBalanced
<1>1. CallInv => CallsBalanced
  BY CallInvImplies
<1> QED BY <1>1, CallsSound, PTL

\* SecLookupAccountSid succeeds exactly when every buffer it has got the whole
\* name: for any sizes of the buffers and any lengths of the names.
THEOREM AccountNamesAlwaysWhole == CallSpec => []AccountNamesWhole
<1>1. CallInv => AccountNamesWhole
  BY CallInvImplies
<1> QED BY <1>1, CallsSound, PTL

=============================================================================
