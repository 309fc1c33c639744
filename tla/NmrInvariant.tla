---------------------------- MODULE NmrInvariant ----------------------------
(***************************************************************************)
(* The inductive invariant behind the safety properties of Nmr.            *)
(*                                                                         *)
(* Every binding in the map is in exactly one phase, and in every phase    *)
(* exactly one party can take it to the next one: the attaching thread,    *)
(* nobody (Ready), the detaching thread, the modules that owe a            *)
(* completion, or the thread about to run unbind_complete.                 *)
(***************************************************************************)
EXTENDS Nmr

\* The instances in which no binding can be completed from both sides before
\* begin_unbind takes the lock again: either that trips an assertion, or at
\* most one side of a binding detaches asynchronously.
SafeInstance ==
  AssertsEnabled \/ \A c \in Clients, p \in Providers : {c, p} \cap AsyncModules # {c, p}

Both(b, status) ==
  client_binding_status[b] = status /\ provider_binding_status[b] = status

\* Where a thread is determines what it holds and whether it is registered.
ThreadsInv ==
  \A m \in Modules :
    /\ m \in registered <=> pc[m] \notin {"idle", "done"}
    /\ cur[m] # NoBinding <=> pc[m] \in {"provider_attach", "detached", "unbind_complete"}
    /\ deregistering[m] <=> pc[m] \notin {"idle", "bind", "attach", "provider_attach"}

\* A binding not created yet has left no trace.
FreshInv ==
  \A b \in Binding :
    pc[b[1]] \in {"idle", "bind"} =>
      /\ b \notin bindings
      /\ Both(b, "Start")
      /\ ~client_context[b] /\ ~provider_context[b]

\* A binding not in the map is held by nobody and will never be Ready again.
AbsentInv ==
  \A b \in Binding : b \notin bindings =>
    /\ Both(b, "Start") \/ Both(b, "UnbindComplete")
    /\ \A m \in Modules : cur[m] # b
    /\ \A side \in Side : <<b, side>> \notin owed /\ <<b, side>> \notin finishing

\* Bindings being attached are held by the thread that created them.
AttachInv ==
  \A m \in Modules : pc[m] \in {"attach", "provider_attach"} =>
    /\ \A b \in todo[m] : b[1] = m /\ b \in bindings /\ Both(b, "Start")
    /\ pc[m] = "provider_attach" =>
         cur[m][1] = m /\ cur[m] \notin todo[m] /\ Both(cur[m], "Start")

\* A completion is owed only between the detach callback and the completion,
\* while the status it will set is not UnbindComplete.
OwedInv ==
  \A b \in Binding :
    /\ <<b, "client">> \in owed =>
         provider_binding_status[b] \in {"BeginUnbind", "UnbindPending"}
    /\ <<b, "provider">> \in owed =>
         client_binding_status[b] \in {"BeginUnbind", "UnbindPending"}

\* The thread inside begin_unbind, and what early completions have done to
\* its binding meanwhile: at most one of the two statuses is complete.
DetachPhase(m) ==
  /\ client_binding_status[cur[m]] = "BeginUnbind" \/ provider_binding_status[cur[m]] = "BeginUnbind"
  /\ \/ provider_binding_status[cur[m]] = "BeginUnbind"
     \/ provider_binding_status[cur[m]] = "UnbindComplete" /\ "client" \in detach_pending[m]
  /\ \/ client_binding_status[cur[m]] = "BeginUnbind"
     \/ client_binding_status[cur[m]] = "UnbindComplete" /\ "provider" \in detach_pending[m]
  /\ <<cur[m], "client">> \in owed => "client" \in detach_pending[m]
  /\ <<cur[m], "provider">> \in owed => "provider" \in detach_pending[m]
  /\ AssertsEnabled \/ "client" \notin detach_pending[m] \/ "provider" \notin detach_pending[m]

DetachInv == \A m \in Modules : pc[m] = "detached" => DetachPhase(m)

\* A status of BeginUnbind means a thread is inside begin_unbind.
PhaseInv ==
  \A b \in Binding :
    client_binding_status[b] = "BeginUnbind" \/ provider_binding_status[b] = "BeginUnbind"
      => \E m \in Modules : pc[m] = "detached" /\ cur[m] = b

\* Whoever is about to call unbind_complete found both statuses complete, and
\* is the only one.
FinishInv ==
  /\ \A m \in Modules : pc[m] = "unbind_complete" =>
       /\ Both(cur[m], "UnbindComplete")
       /\ \A side \in Side : <<cur[m], side>> \notin finishing
  /\ \A b \in Binding, side \in Side : <<b, side>> \in finishing =>
       /\ Both(b, "UnbindComplete")
       /\ \A other \in Side : <<b, other>> \in finishing => side = other

\* A deregistering thread that has met no pending unbind still holds every
\* binding that refers to it.
SnapshotInv ==
  \A m \in Modules :
    pc[m] \in {"detach", "detached", "unbind_complete"} /\ ~pending[m] =>
      \A b \in BindingsOf(m) : b \in todo[m] \/ b = cur[m]

RegisteredInv == \A b \in bindings : b[1] \in registered /\ b[2] \in registered

\* The inductive invariant: the phases of bindings and threads, the exact
\* counts and the contexts cleaned once, as the code maintains them together.
IInv ==
  /\ TypeOK
  /\ ThreadsInv /\ FreshInv /\ AbsentInv /\ AttachInv /\ OwedInv /\ DetachInv /\ PhaseInv
  /\ FinishInv /\ OneDetacher /\ SnapshotInv /\ RegisteredInv
  /\ CountsExact /\ ContextsCleanedOnce /\ BlocksOnlyIfPending
  /\ process # "invalid_handle"
=============================================================================
