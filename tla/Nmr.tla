-------------------------------- MODULE Nmr --------------------------------
(***************************************************************************)
(* The Network Module Registrar of usersim (src/src/nmr_impl.cpp).         *)
(*                                                                         *)
(* Client and provider modules register, are bound to every matching       *)
(* module of the other kind, and deregister.  One thread per registration  *)
(* makes the register, deregister and wait calls of that registration;     *)
(* further threads call the detach-complete functions.  A step is one      *)
(* critical section of nmr_t::lock, or one callback made outside it.       *)
(*                                                                         *)
(* A registration is identified with its handle: next_handle never hands   *)
(* out a handle twice, so a module that registers again is another element *)
(* of Clients or Providers.  perform_bind runs once per registration, so a *)
(* binding is identified by <<initiator, target>>.                         *)
(***************************************************************************)
EXTENDS Integers, FiniteSets

CONSTANTS
  Clients,         \* handles of client registrations
  Providers,       \* handles of provider registrations
  NpiId,           \* NpiId[m]: the interface m registers for, or NoNpi
  NoNpi,           \* a null NpiId pointer
  NoBinding,       \* the value of cur outside a callback
  AsyncModules,    \* modules whose detach callback may return STATUS_PENDING
  ContextModules,  \* modules that attach with a binding context that is not null
  FailingModules,  \* modules whose attach callback may fail
  AssertsEnabled   \* debug build: ASSERT and CXPLAT_DEBUG_ASSERT stop the process

Modules == Clients \cup Providers

Binding == (Clients \X Providers) \cup (Providers \X Clients)

ASSUME ModulesAssumption ==
  /\ IsFiniteSet(Clients) /\ IsFiniteSet(Providers)
  /\ Clients \cap Providers = {}
  /\ NoBinding \notin Binding
  /\ AsyncModules \subseteq Modules
  /\ ContextModules \subseteq Modules
  /\ FailingModules \subseteq Modules
  /\ AssertsEnabled \in BOOLEAN

ClientOf(b) == IF b[1] \in Clients THEN b[1] ELSE b[2]

ProviderOf(b) == IF b[1] \in Clients THEN b[2] ELSE b[1]

\* enum binding_status.
BindingStatus == {"Start", "Ready", "BeginUnbind", "UnbindPending", "UnbindComplete"}

\* The two modules of a binding, for the detach each of them owes.
Side == {"client", "provider"}

VARIABLES
  registered,               \* keys of the maps providers and clients
  deregistering,            \* registration.deregistering
  binding_count,            \* registration.binding_count
  bindings,                 \* keys of the map bindings
  client_binding_status,    \* binding.client_binding_status
  provider_binding_status,  \* binding.provider_binding_status
  client_context,           \* binding.client_binding_context # nullptr
  provider_context,         \* binding.provider_binding_context # nullptr
  pc,                       \* where the thread of each registration is
  todo,                     \* pending_actions or bindings_to_unbind of that thread
  cur,                      \* the binding whose callback that thread is in
  pending,                  \* local `pending` of perform_unbind
  detach_pending,           \* sides whose detach callback returned STATUS_PENDING to it
  owed,                     \* <<b, side>>: side must still complete its pending detach
  finishing,                \* <<b, side>>: completing thread about to call unbind_complete
  client_cleanups,          \* calls of ClientCleanupBindingContext, per binding
  provider_cleanups,        \* calls of ProviderCleanupBindingContext, per binding
  process                   \* how the process stopped, or "running"

registrationVars == <<registered, deregistering, binding_count>>
statusVars == <<client_binding_status, provider_binding_status>>
contextVars == <<client_context, provider_context>>
threadVars == <<pc, todo, cur, pending, detach_pending>>
completionVars == <<owed, finishing>>
cleanupVars == <<client_cleanups, provider_cleanups>>
vars == <<registrationVars, bindings, statusVars, contextVars, threadVars,
          completionVars, cleanupVars, process>>

PC == {"idle", "bind", "attach", "provider_attach", "unbind", "detach", "detached",
       "unbind_complete", "waiting", "done"}

TypeOK ==
  /\ registered \subseteq Modules
  /\ deregistering \in [Modules -> BOOLEAN]
  /\ binding_count \in [Modules -> Nat]
  /\ bindings \subseteq Binding
  /\ client_binding_status \in [Binding -> BindingStatus]
  /\ provider_binding_status \in [Binding -> BindingStatus]
  /\ client_context \in [Binding -> BOOLEAN]
  /\ provider_context \in [Binding -> BOOLEAN]
  /\ pc \in [Modules -> PC]
  /\ todo \in [Modules -> SUBSET Binding]
  /\ cur \in [Modules -> Binding \cup {NoBinding}]
  /\ pending \in [Modules -> BOOLEAN]
  /\ detach_pending \in [Modules -> SUBSET Side]
  /\ owed \subseteq Binding \X Side
  /\ finishing \subseteq Binding \X Side
  /\ client_cleanups \in [Binding -> Nat]
  /\ provider_cleanups \in [Binding -> Nat]
  /\ process \in {"running", "detach_assert", "wait_assert", "invalid_handle"}

Init ==
  /\ registered = {}
  /\ deregistering = [m \in Modules |-> FALSE]
  /\ binding_count = [m \in Modules |-> 0]
  /\ bindings = {}
  /\ client_binding_status = [b \in Binding |-> "Start"]
  /\ provider_binding_status = [b \in Binding |-> "Start"]
  /\ client_context = [b \in Binding |-> FALSE]
  /\ provider_context = [b \in Binding |-> FALSE]
  /\ pc = [m \in Modules |-> "idle"]
  /\ todo = [m \in Modules |-> {}]
  /\ cur = [m \in Modules |-> NoBinding]
  /\ pending = [m \in Modules |-> FALSE]
  /\ detach_pending = [m \in Modules |-> {}]
  /\ owed = {}
  /\ finishing = {}
  /\ client_cleanups = [b \in Binding |-> 0]
  /\ provider_cleanups = [b \in Binding |-> 0]
  /\ process = "running"

----------------------------------------------------------------------------
(* Registration: add, perform_bind and the attach callbacks.               *)

At(m, label) == process = "running" /\ pc[m] = label

Goto(m, from, to) ==
  /\ At(m, from)
  /\ pc' = [pc EXCEPT ![m] = to]

\* add: the first critical section of register_client and register_provider.
\* (When fault injection makes the call return STATUS_NO_MEMORY nothing
\* changes; the module stays idle.)
Add(m) ==
  /\ Goto(m, "idle", "bind")
  /\ registered' = registered \cup {m}
  /\ UNCHANGED <<deregistering, binding_count, bindings, statusVars, contextVars, todo, cur,
                 pending, detach_pending, completionVars, cleanupVars, process>>

\* bind: same interface, and neither side is deregistering.
CanBind(m, t) ==
  /\ NpiId[m] # NoNpi
  /\ NpiId[m] = NpiId[t]
  /\ ~deregistering[m]
  /\ ~deregistering[t]

Targets(m) ==
  {t \in registered : (m \in Clients) # (t \in Clients) /\ CanBind(m, t)}

\* perform_bind: one critical section creates a binding with every target and
\* takes a reference on both sides; the attach calls are queued.
PerformBind(m) ==
  LET targets == Targets(m) IN
  /\ Goto(m, "bind", "attach")
  /\ bindings' = bindings \cup {<<m, t>> : t \in targets}
  /\ binding_count' = [x \in Modules |->
       binding_count[x] + (IF x = m THEN Cardinality(targets) ELSE 0)
                        + (IF x \in targets THEN 1 ELSE 0)]
  /\ todo' = [todo EXCEPT ![m] = {<<m, t>> : t \in targets}]
  /\ UNCHANGED <<registered, deregistering, statusVars, contextVars, cur, pending,
                 detach_pending, completionVars, cleanupVars, process>>

\* Mutant of UnbindComplete: one test of the client's context for both callbacks.
UnbindCompleteOneTest(b) ==
  /\ client_cleanups' = [client_cleanups EXCEPT ![b] = @ + (IF client_context[b] THEN 1 ELSE 0)]
  /\ provider_cleanups' = [provider_cleanups EXCEPT ![b] = @ + (IF client_context[b] THEN 1 ELSE 0)]
  /\ binding_count' = [binding_count EXCEPT ![ClientOf(b)] = @ - 1, ![ProviderOf(b)] = @ - 1]
  /\ bindings' = bindings \ {b}

\* Mutant of UnbindComplete: the provider's reference is not released.
UnbindCompleteLeaks(b) ==
  /\ client_cleanups' = [client_cleanups EXCEPT ![b] = @ + (IF client_context[b] THEN 1 ELSE 0)]
  /\ provider_cleanups' = [provider_cleanups EXCEPT ![b] = @ + (IF provider_context[b] THEN 1 ELSE 0)]
  /\ binding_count' = [binding_count EXCEPT ![ClientOf(b)] = @ - 1]
  /\ bindings' = bindings \ {b}

\* unbind_complete: the cleanup callbacks, the two references, the map entry.
\* Its notification of bindings_changed is the re-evaluation of Waited's guard.
UnbindComplete(b) ==
  /\ client_cleanups' = [client_cleanups EXCEPT ![b] = @ + (IF client_context[b] THEN 1 ELSE 0)]
  /\ provider_cleanups' = [provider_cleanups EXCEPT ![b] = @ + (IF provider_context[b] THEN 1 ELSE 0)]
  /\ binding_count' = [binding_count EXCEPT ![ClientOf(b)] = @ - 1, ![ProviderOf(b)] = @ - 1]
  /\ bindings' = bindings \ {b}

\* ClientAttachProvider fails without having called client_attach_provider
\* (or fault injection fails that call): the binding is taken down again.
AttachRefused(m, b) ==
  /\ At(m, "attach")
  /\ b \in todo[m]
  /\ ClientOf(b) \in FailingModules
  /\ todo' = [todo EXCEPT ![m] = @ \ {b}]
  /\ UnbindComplete(b)
  /\ UNCHANGED <<registered, deregistering, statusVars, contextVars, pc, cur, pending,
                 detach_pending, completionVars, process>>

\* ClientAttachProvider calls client_attach_provider, whose critical section
\* saves the client's context.
ClientAttachProvider(m, b) ==
  /\ Goto(m, "attach", "provider_attach")
  /\ b \in todo[m]
  /\ todo' = [todo EXCEPT ![m] = @ \ {b}]
  /\ cur' = [cur EXCEPT ![m] = b]
  /\ client_context' = [client_context EXCEPT ![b] = ClientOf(b) \in ContextModules]
  /\ UNCHANGED <<registrationVars, bindings, statusVars, provider_context, pending,
                 detach_pending, completionVars, cleanupVars, process>>

\* ProviderAttachClient accepts, the client passes its status on, and both
\* statuses become Ready, whatever they were.  Nobody reads the provider's
\* context before that.
AttachOk(m) ==
  /\ Goto(m, "provider_attach", "attach")
  /\ provider_context' =
       [provider_context EXCEPT ![cur[m]] = ProviderOf(cur[m]) \in ContextModules]
  /\ client_binding_status' = [client_binding_status EXCEPT ![cur[m]] = "Ready"]
  /\ provider_binding_status' = [provider_binding_status EXCEPT ![cur[m]] = "Ready"]
  /\ cur' = [cur EXCEPT ![m] = NoBinding]
  /\ UNCHANGED <<registrationVars, bindings, client_context, todo, pending, detach_pending,
                 completionVars, cleanupVars, process>>

\* ProviderAttachClient fails, the client passes its status on, and the
\* binding is taken down again.
AttachFailed(m) ==
  /\ Goto(m, "provider_attach", "attach")
  /\ ProviderOf(cur[m]) \in FailingModules
  /\ UnbindComplete(cur[m])
  /\ cur' = [cur EXCEPT ![m] = NoBinding]
  /\ UNCHANGED <<registered, deregistering, statusVars, contextVars, todo, pending,
                 detach_pending, completionVars, process>>

----------------------------------------------------------------------------
(* Deregistration: deactivate, perform_unbind, begin_unbind, remove.       *)

\* The register call has made all its attach calls and returned the handle.
Active(m) == pc[m] = "attach" /\ todo[m] = {}

\* deactivate: block new bindings.
Deactivate(m) ==
  /\ Active(m)
  /\ Goto(m, "attach", "unbind")
  /\ deregistering' = [deregistering EXCEPT ![m] = TRUE]
  /\ UNCHANGED <<registered, binding_count, bindings, statusVars, contextVars, todo, cur,
                 pending, detach_pending, completionVars, cleanupVars, process>>

\* perform_unbind: the snapshot of the bindings of m.
PerformUnbind(m) ==
  /\ Goto(m, "unbind", "detach")
  /\ todo' = [todo EXCEPT ![m] = {b \in bindings : m \in {b[1], b[2]}}]
  /\ UNCHANGED <<registrationVars, bindings, statusVars, contextVars, cur, pending,
                 detach_pending, completionVars, cleanupVars, process>>

\* begin_unbind, early return: not Ready means "unbind already started".
UnbindAlreadyStarted(m, b) ==
  /\ At(m, "detach")
  /\ b \in todo[m]
  /\ client_binding_status[b] # "Ready" \/ provider_binding_status[b] # "Ready"
  /\ todo' = [todo EXCEPT ![m] = @ \ {b}]
  /\ pending' = [pending EXCEPT ![m] = TRUE]
  /\ UNCHANGED <<registrationVars, bindings, statusVars, contextVars, pc, cur,
                 detach_pending, completionVars, cleanupVars, process>>

\* The sides whose detach callback may return STATUS_PENDING: a callback is
\* made only for a side that has a context.
MayPend(b) ==
  {side \in Side : IF side = "client" THEN client_context[b] /\ ClientOf(b) \in AsyncModules
                    ELSE provider_context[b] /\ ProviderOf(b) \in AsyncModules}

\* begin_unbind, first critical section, then ClientDetachProvider and
\* ProviderDetachClient outside it.  A side that answers STATUS_PENDING owes a
\* completion, which may come at once.  (The callbacks read and write nothing
\* that others change before then, so they are part of this step.)
BeginUnbind(m, b) ==
  /\ Goto(m, "detach", "detached")
  /\ b \in todo[m]
  /\ client_binding_status[b] = "Ready" /\ provider_binding_status[b] = "Ready"
  /\ client_binding_status' = [client_binding_status EXCEPT ![b] = "BeginUnbind"]
  /\ provider_binding_status' = [provider_binding_status EXCEPT ![b] = "BeginUnbind"]
  /\ todo' = [todo EXCEPT ![m] = @ \ {b}]
  /\ cur' = [cur EXCEPT ![m] = b]
  /\ \E sides \in SUBSET MayPend(b) :
       /\ detach_pending' = [detach_pending EXCEPT ![m] = sides]
       /\ owed' = owed \cup ({b} \X sides)
  /\ UNCHANGED <<registrationVars, bindings, contextVars, pending, finishing, cleanupVars,
                 process>>

\* Mutant of DetachedStatus: an early completion is overwritten.
DetachedStatusOverwrites(status, isPending) ==
  IF isPending THEN "UnbindPending" ELSE "UnbindComplete"

\* The status begin_unbind's second critical section leaves, for a status
\* value and whether the detach it waits for returned STATUS_PENDING.
DetachedStatus(status, isPending) ==
  IF isPending /\ status # "UnbindComplete" THEN "UnbindPending" ELSE "UnbindComplete"

\* begin_unbind, second critical section.  The client's detach answer decides
\* the provider's status and vice versa.
Detached(m) ==
  LET b == cur[m]
      provider_status == DetachedStatus(provider_binding_status[b], "client" \in detach_pending[m])
      client_status == DetachedStatus(client_binding_status[b], "provider" \in detach_pending[m])
      complete == client_status = "UnbindComplete" /\ provider_status = "UnbindComplete"
  IN
  /\ Goto(m, "detached", IF complete THEN "unbind_complete" ELSE "detach")
  /\ provider_binding_status' = [provider_binding_status EXCEPT ![b] = provider_status]
  /\ client_binding_status' = [client_binding_status EXCEPT ![b] = client_status]
  /\ cur' = [cur EXCEPT ![m] = IF complete THEN b ELSE NoBinding]
  /\ pending' = [pending EXCEPT ![m] = @ \/ ~complete]
  /\ detach_pending' = [detach_pending EXCEPT ![m] = {}]
  /\ UNCHANGED <<registrationVars, bindings, contextVars, todo, completionVars, cleanupVars,
                 process>>

\* begin_unbind, both detached: unbind_complete.
DetachCompletes(m) ==
  /\ Goto(m, "unbind_complete", "detach")
  /\ UnbindComplete(cur[m])
  /\ cur' = [cur EXCEPT ![m] = NoBinding]
  /\ UNCHANGED <<registered, deregistering, statusVars, contextVars, todo, pending,
                 detach_pending, completionVars, process>>

\* Mutant of Remove: the count is not looked at.
RemoveAtOnce(m) ==
  /\ todo[m] = {}
  /\ Goto(m, "detach", "done")
  /\ registered' = registered \ {m}
  /\ UNCHANGED <<deregistering, binding_count, bindings, statusVars, contextVars, todo, cur,
                 pending, detach_pending, completionVars, cleanupVars, process>>

\* perform_unbind returned.  Not pending: deregister calls remove.  Pending: it
\* returns STATUS_PENDING and the module calls wait_for_deregister, which is
\* remove.  remove erases at once, or waits on bindings_changed.
Remove(m) ==
  /\ todo[m] = {}
  /\ \/ /\ binding_count[m] <= 0
        /\ Goto(m, "detach", "done")
        /\ registered' = registered \ {m}
     \/ /\ binding_count[m] > 0
        /\ Goto(m, "detach", "waiting")
        /\ UNCHANGED registered
  /\ UNCHANGED <<deregistering, binding_count, bindings, statusVars, contextVars, todo, cur,
                 pending, detach_pending, completionVars, cleanupVars, process>>

\* The predicate of the wait holds: erase.
Waited(m) ==
  /\ binding_count[m] = 0
  /\ Goto(m, "waiting", "done")
  /\ registered' = registered \ {m}
  /\ UNCHANGED <<deregistering, binding_count, bindings, statusVars, contextVars, todo, cur,
                 pending, detach_pending, completionVars, cleanupVars, process>>

\* The wait times out with the count not zero: debug builds assert, release
\* builds wait again (no step).
WaitTimesOut(m) ==
  /\ At(m, "waiting")
  /\ binding_count[m] # 0
  /\ AssertsEnabled
  /\ process' = "wait_assert"
  /\ UNCHANGED <<registrationVars, bindings, statusVars, contextVars, threadVars,
                 completionVars, cleanupVars>>

----------------------------------------------------------------------------
(* Completion of pending detaches, by threads of the modules.              *)

\* binding_detach_provider_complete (called by the client, side "client") and
\* binding_detach_client_complete (called by the provider): the critical
\* section.  own is the status it sets, other the one it tests.
DetachComplete(b, side, own, other) ==
  /\ process = "running"
  /\ <<b, side>> \in owed
  /\ \/ /\ b \notin bindings
        /\ process' = "invalid_handle"
        /\ UNCHANGED <<statusVars, completionVars>>
     \/ /\ b \in bindings
        /\ AssertsEnabled /\ own[b] # "UnbindPending"
        /\ process' = "detach_assert"
        /\ UNCHANGED <<statusVars, completionVars>>
     \/ /\ b \in bindings
        /\ AssertsEnabled => own[b] = "UnbindPending"
        /\ IF side = "client"
           THEN /\ provider_binding_status' = [own EXCEPT ![b] = "UnbindComplete"]
                /\ UNCHANGED client_binding_status
           ELSE /\ client_binding_status' = [own EXCEPT ![b] = "UnbindComplete"]
                /\ UNCHANGED provider_binding_status
        /\ owed' = owed \ {<<b, side>>}
        /\ finishing' = IF other[b] = "UnbindComplete"
                        THEN finishing \cup {<<b, side>>} ELSE finishing
        /\ UNCHANGED process
  /\ UNCHANGED <<registrationVars, bindings, contextVars, threadVars, cleanupVars>>

BindingDetachProviderComplete(b) ==
  DetachComplete(b, "client", provider_binding_status, client_binding_status)

BindingDetachClientComplete(b) ==
  DetachComplete(b, "provider", client_binding_status, provider_binding_status)

\* The completing thread saw both sides complete: unbind_complete.
CompletionUnbinds(b, side) ==
  /\ process = "running"
  /\ <<b, side>> \in finishing
  /\ finishing' = finishing \ {<<b, side>>}
  /\ UnbindComplete(b)
  /\ UNCHANGED <<registered, deregistering, statusVars, contextVars, threadVars, owed, process>>

----------------------------------------------------------------------------
(* The specification.                                                      *)

\* What the code does in the thread of m once a call was made.
ThreadStep(m) ==
  \/ PerformBind(m)
  \/ \E b \in Binding : AttachRefused(m, b) \/ ClientAttachProvider(m, b)
  \/ AttachOk(m) \/ AttachFailed(m)
  \/ PerformUnbind(m)
  \/ \E b \in Binding : UnbindAlreadyStarted(m, b) \/ BeginUnbind(m, b)
  \/ Detached(m) \/ DetachCompletes(m)
  \/ Remove(m) \/ Waited(m) \/ WaitTimesOut(m)

CompletionStep(b) ==
  \/ BindingDetachProviderComplete(b) \/ BindingDetachClientComplete(b)
  \/ \E side \in Side : CompletionUnbinds(b, side)

\* The process has stopped, or every registration has come and gone.
Finished ==
  /\ process = "running" => \A m \in Modules : pc[m] = "done"
  /\ UNCHANGED vars

Next ==
  \/ \E m \in Modules : Add(m) \/ Deactivate(m) \/ ThreadStep(m)
  \/ \E b \in Binding : CompletionStep(b)
  \/ Finished

Spec == Init /\ [][Next]_vars

\* The scheduler runs every thread that can run, callbacks return, and a
\* module that answered STATUS_PENDING completes its detach.  Nobody is
\* obliged to register or to deregister.
ServiceSpec ==
  /\ Spec
  /\ \A m \in Modules : WF_vars(ThreadStep(m))
  /\ \A b \in Binding : WF_vars(CompletionStep(b))

\* In addition every registered module deregisters in the end.
FairSpec ==
  /\ ServiceSpec
  /\ \A m \in Modules : WF_vars(Deactivate(m))

----------------------------------------------------------------------------
(* Properties.                                                             *)

BindingsOf(m) == {b \in bindings : m \in {b[1], b[2]}}

\* The reference count that remove waits on is exact: binding_count of a
\* registration is the number of bindings in the map that refer to it, through
\* every interleaving of binds, failed attaches, unbinds and completions.
CountsExact == \A m \in Modules : binding_count[m] = Cardinality(BindingsOf(m))

\* A registration is erased only when nothing can reach it any more: both ends
\* of every binding in the map, and of every binding a thread is inside an
\* attach or detach call for, are still registered.  (The binding objects hold
\* plain references to the registrations.)
NoDanglingRegistration ==
  /\ \A b \in bindings : b[1] \in registered /\ b[2] \in registered
  /\ \A m \in Modules : cur[m] # NoBinding => cur[m] \in bindings
  /\ \A f \in finishing : f[1] \in bindings

\* Every context a module attached to a binding is handed to its cleanup
\* callback exactly once, when the binding leaves the map (unbind_complete), on
\* the failure path of the attach as well as after a detach.
ContextsCleanedOnce ==
  \A b \in Binding :
    /\ client_cleanups[b] = IF client_context[b] /\ b \notin bindings THEN 1 ELSE 0
    /\ provider_cleanups[b] = IF provider_context[b] /\ b \notin bindings THEN 1 ELSE 0

\* A binding that was attached leaves the map only after both detaches are
\* done: no module still owes a completion for it and no thread is still
\* inside its detach callbacks, so a late completion never meets an unknown
\* handle (the "invalid handle" throw of binding_detach_*_complete).
CompletionFindsBinding ==
  /\ \A o \in owed : o[1] \in bindings
  /\ process # "invalid_handle"

\* The comment in begin_unbind: "make sure we don't replace UnbindComplete
\* with UnbindPending".  More generally neither status of a binding ever moves
\* backwards, whichever of the deregistering threads, the attaching thread and
\* the completing threads writes it.
Rank(status) ==
  CASE status = "Start" -> 0 [] status = "Ready" -> 1 [] status = "BeginUnbind" -> 2
    [] status = "UnbindPending" -> 3 [] status = "UnbindComplete" -> 4

StatusNeverRegresses ==
  [][\A b \in Binding :
       /\ Rank(client_binding_status'[b]) >= Rank(client_binding_status[b])
       /\ Rank(provider_binding_status'[b]) >= Rank(provider_binding_status[b])]_statusVars

\* At most one of the threads that race to unbind a binding (its client's and
\* its provider's deregister) runs the detach callbacks of that binding.
OneDetacher ==
  \A m, n \in Modules :
    /\ pc[m] \in {"detached", "unbind_complete"}
    /\ pc[n] \in {"detached", "unbind_complete"}
    /\ cur[m] = cur[n]
    => m = n

\* A deregistration that reports no pending unbind (so that the caller gets
\* STATUS_SUCCESS from NmrDeregister*) never blocks in remove.
BlocksOnlyIfPending == \A m \in Modules : pc[m] = "waiting" => pending[m]

\* A registration whose deregistration began is gone in the end.
DeregistrationCompletes ==
  \A m \in Modules : (pc[m] = "unbind") ~> (pc[m] = "done")

=============================================================================
