--------------------------------- MODULE Fwp ---------------------------------
(***************************************************************************)
(* The simulated filtering platform (src/src/fwp_um.h, src/src/fwp_um.cpp):*)
(* the engine's tables, the Fwpm and Fwps calls of a driver that change    *)
(* them, and the hooks a test harness runs on its own threads.  A section  *)
(* under the engine's lock is one step; the callout's functions are called *)
(* after the lock is released, except by classify_test_packet.             *)
(***************************************************************************)
EXTENDS Naturals, Sequences, FiniteSets, TLC

CONSTANTS
  Threads,   \* threads of the driver and of the harness
  Plan,      \* the callouts of the driver: [key, layer, sublayer], in order
  SubLayers, \* the keys of the sub layers of the driver, in order
  MaxId,     \* bound on next_id
  MaxFlow,   \* bound on next_flow_id
  Racing     \* two threads may remove the context of one flow at a time

ASSUME FwpAssumption ==
  /\ MaxId \in Nat /\ MaxFlow \in Nat /\ Racing \in BOOLEAN
  /\ IsFiniteSet(Threads)
  /\ Len(Plan) \in Nat /\ DOMAIN Plan = 1 .. Len(Plan)
  /\ Len(SubLayers) \in Nat \ {0} /\ DOMAIN SubLayers = 1 .. Len(SubLayers)
  /\ \A i, j \in DOMAIN Plan : Plan[i].key = Plan[j].key => i = j

VARIABLES
  next_id, next_flow_id,
  fwps_callouts,      \* id -> key
  fwpm_callouts,      \* id -> [key, layer]
  fwpm_filters,       \* id -> [key, layer, sublayer, context]
  fwpm_sub_layers,    \* id -> key
  fwpm_flow_contexts, \* flow -> context: the id of the callout it belongs to
  th,                 \* each thread: where it is, and its local variables
  attached,           \* the callouts' own count of the filters notified
  owned               \* the callouts' own flow contexts: <<callout, flow>>

tables == <<next_id, fwps_callouts, fwpm_callouts, fwpm_filters, fwpm_sub_layers>>
flows == <<next_flow_id, fwpm_flow_contexts>>
vars == <<tables, flows, th, attached, owned>>

Keys == {Plan[i].key : i \in DOMAIN Plan}
NoCallout == 0
NoFlow == 0
NoRequest == [port |-> <<"none", FALSE>>, address |-> "none"]

\* A port is a value and whether its bytes are swapped.
Swap(p) == <<p[1], ~p[2]>>

\* The destination in the harness's parameters: in host byte order.
Parameters == [port |-> <<"dest", FALSE>>, address |-> "dest"]

Idle == [pc |-> "idle", hook |-> "none", layer |-> "none", callout |-> NoCallout,
         flow |-> NoFlow, key |-> "none", request |-> NoRequest,
         redirected |-> FALSE, seen |-> NoRequest]

Init ==
  /\ next_id = 1 /\ next_flow_id = 1
  /\ fwps_callouts = <<>> /\ fwpm_callouts = <<>>
  /\ fwpm_filters = <<>> /\ fwpm_sub_layers = <<>>
  /\ fwpm_flow_contexts = <<>>
  /\ th = [t \in Threads |-> Idle]
  /\ attached = [k \in Keys |-> 0]
  /\ owned = {}

Without(f, x) == [y \in DOMAIN f \ {x} |-> f[y]]

\* classify_test_packet calls the callout with the lock held for sharing.
ExclusiveLock == \A t \in Threads : th[t].pc # "packet"

\* The lookups walk an unordered map: any entry that matches may come first.
get_fwps_callout(key) == {id \in DOMAIN fwps_callouts : fwps_callouts[id] = key}

get_callout_from_key(key) == get_fwps_callout(key)
get_callout_id_from_key(key) == get_fwps_callout(key)

\* The result of a lookup whose caller does not test for null.
Untested(found) == IF found = {} THEN {NoCallout} ELSE found

get_fwpm_filter_with_context(layer) ==
  {id \in DOMAIN fwpm_filters :
     fwpm_filters[id].layer = layer /\ fwpm_filters[id].context}

get_fwpm_filter_in_sublayer(layer, sublayer) ==
  {id \in get_fwpm_filter_with_context(layer) : fwpm_filters[id].sublayer = sublayer}

get_callout_key_from_layer_guid(layer) ==
  {fwpm_callouts[id].key : id \in {i \in DOMAIN fwpm_callouts : fwpm_callouts[i].layer = layer}}

-------------------------------------------------------------------------------
(* The driver's calls.  An injected fault returns before anything changes.  *)
(* The driver registers its callouts, adds their objects and then its sub   *)
(* layers, each in order, and takes them away in the opposite order.        *)

Registered == {fwps_callouts[id] : id \in DOMAIN fwps_callouts}
Added == {fwpm_callouts[id].key : id \in DOMAIN fwpm_callouts}
Layered == {fwpm_sub_layers[id] : id \in DOMAIN fwpm_sub_layers}
Loaded == \A i \in DOMAIN SubLayers : SubLayers[i] \in Layered

\* A thread that is inside a hook or a call may use any callout.
Quiet == /\ \A t \in Threads : th[t].pc = "idle"
         /\ DOMAIN fwpm_filters = {}
         /\ DOMAIN fwpm_flow_contexts = {}

\* The first of the keys that is not present yet, and the last that is.
NextOf(present, keys) ==
  {keys[i] : i \in {j \in DOMAIN keys : keys[j] \notin present
                                        /\ \A h \in 1 .. j - 1 : keys[h] \in present}}
LastOf(present, keys) ==
  {keys[i] : i \in {j \in DOMAIN keys : keys[j] \in present
                                        /\ \A h \in DOMAIN keys : h > j => keys[h] \notin present}}
PlanKeys == [i \in DOMAIN Plan |-> Plan[i].key]

\* insert of an unordered map: an entry that is there stays.
MapInsert(table, x, value) ==
  [y \in DOMAIN table \cup {x} |-> IF y \in DOMAIN table THEN table[y] ELSE value]

Insert(table, value) == MapInsert(table, next_id, value)

register_fwps_callout(k) ==
  /\ ExclusiveLock /\ next_id < MaxId
  /\ next_id' = next_id + 1
  /\ fwps_callouts' = Insert(fwps_callouts, k)
  /\ UNCHANGED <<fwpm_callouts, fwpm_filters, fwpm_sub_layers>>

add_fwpm_callout(p) ==
  /\ ExclusiveLock /\ next_id < MaxId
  /\ next_id' = next_id + 1
  /\ fwpm_callouts' = Insert(fwpm_callouts, [key |-> p.key, layer |-> p.layer])
  /\ UNCHANGED <<fwps_callouts, fwpm_filters, fwpm_sub_layers>>

add_fwpm_sub_layer(k) ==
  /\ ExclusiveLock /\ next_id < MaxId
  /\ next_id' = next_id + 1
  /\ fwpm_sub_layers' = Insert(fwpm_sub_layers, k)
  /\ UNCHANGED <<fwps_callouts, fwpm_callouts, fwpm_filters>>

remove_fwpm_sub_layer(k) ==
  /\ ExclusiveLock
  /\ \E id \in DOMAIN fwpm_sub_layers :
       fwpm_sub_layers[id] = k /\ fwpm_sub_layers' = Without(fwpm_sub_layers, id)
  /\ UNCHANGED <<next_id, fwps_callouts, fwpm_callouts, fwpm_filters>>

remove_fwpm_callout(k) ==
  /\ ExclusiveLock
  /\ \E id \in DOMAIN fwpm_callouts :
       fwpm_callouts[id].key = k /\ fwpm_callouts' = Without(fwpm_callouts, id)
  /\ UNCHANGED <<next_id, fwps_callouts, fwpm_filters, fwpm_sub_layers>>

remove_fwps_callout(id) ==
  /\ ExclusiveLock
  /\ fwps_callouts' = Without(fwps_callouts, id)
  /\ UNCHANGED <<next_id, fwpm_callouts, fwpm_filters, fwpm_sub_layers>>

FwpsCalloutRegister3 ==
  /\ Added = {}
  /\ \E k \in NextOf(Registered, PlanKeys) : register_fwps_callout(k)
  /\ UNCHANGED <<flows, th, attached, owned>>

FwpmCalloutAdd0 ==
  /\ Registered = Keys /\ Layered = {}
  /\ \E i \in DOMAIN Plan :
       Plan[i].key \in NextOf(Added, PlanKeys) /\ add_fwpm_callout(Plan[i])
  /\ UNCHANGED <<flows, th, attached, owned>>

FwpmSubLayerAdd0 ==
  /\ Added = Keys
  /\ \E k \in NextOf(Layered, SubLayers) : add_fwpm_sub_layer(k)
  /\ UNCHANGED <<flows, th, attached, owned>>

FwpmSubLayerDeleteByKey0 ==
  /\ Quiet
  /\ \E k \in LastOf(Layered, SubLayers) : remove_fwpm_sub_layer(k)
  /\ UNCHANGED <<flows, th, attached, owned>>

FwpmCalloutDeleteByKey0 ==
  /\ Quiet /\ Layered = {}
  /\ \E k \in LastOf(Added, PlanKeys) : remove_fwpm_callout(k)
  /\ UNCHANGED <<flows, th, attached, owned>>

FwpsCalloutUnregisterById0 ==
  /\ Quiet /\ Added = {}
  /\ \E k \in LastOf(Registered, PlanKeys) :
       \E id \in get_fwps_callout(k) : remove_fwps_callout(id)
  /\ UNCHANGED <<flows, th, attached, owned>>

\* add_fwpm_filter under the lock: the filter, and the callout to notify.
add_fwpm_filter(t, p, context) ==
  /\ ExclusiveLock /\ next_id < MaxId
  /\ next_id' = next_id + 1
  /\ fwpm_filters' = Insert(fwpm_filters, [key |-> p.key, layer |-> p.layer,
                                           sublayer |-> p.sublayer, context |-> context])
  /\ \E c \in Untested(get_fwps_callout(p.key)) :
       th' = [th EXCEPT ![t].pc = "notify add", ![t].callout = c, ![t].key = p.key]
  /\ UNCHANGED <<fwps_callouts, fwpm_callouts, fwpm_sub_layers>>

\* Mutant of remove_fwpm_filter: the callout is looked up once the filter is gone.
remove_fwpm_filter_late(t, id) ==
  /\ ExclusiveLock
  /\ fwpm_filters' = Without(fwpm_filters, id)
  /\ th' = [th EXCEPT ![t].pc = "notify delete", ![t].key = fwpm_filters[id].key]
  /\ UNCHANGED <<next_id, fwps_callouts, fwpm_callouts, fwpm_sub_layers>>

\* remove_fwpm_filter under the lock, for a filter that is there.
remove_fwpm_filter(t, id) ==
  /\ ExclusiveLock
  /\ fwpm_filters' = Without(fwpm_filters, id)
  /\ \E c \in Untested(get_fwps_callout(fwpm_filters[id].key)) :
       th' = [th EXCEPT ![t].pc = "notify delete", ![t].callout = c,
                        ![t].key = fwpm_filters[id].key]
  /\ UNCHANGED <<next_id, fwps_callouts, fwpm_callouts, fwpm_sub_layers>>

\* Mutant of FwpmFilterAdd0: a fault is injected once the filter is in.
FwpmFilterAdd0FaultsLate(t) ==
  /\ th[t].pc = "idle" /\ Loaded /\ ExclusiveLock /\ next_id < MaxId
  /\ next_id' = next_id + 1
  /\ \E i \in DOMAIN Plan :
       fwpm_filters' = Insert(fwpm_filters, [key |-> Plan[i].key, layer |-> Plan[i].layer,
                                             sublayer |-> Plan[i].sublayer, context |-> TRUE])
  /\ UNCHANGED <<fwps_callouts, fwpm_callouts, fwpm_sub_layers, flows, th, attached, owned>>

\* A filter may be added and deleted while hooks run.
FwpmFilterAdd0(t) ==
  /\ th[t].pc = "idle" /\ Loaded
  /\ \E i \in DOMAIN Plan, context \in BOOLEAN : add_fwpm_filter(t, Plan[i], context)
  /\ UNCHANGED <<flows, attached, owned>>

\* The driver deletes a filter once FwpmFilterAdd0 has returned its id: while
\* one thread adds a filter of a callout no other deletes one of it.
FwpmFilterDeleteById0(t) ==
  /\ th[t].pc = "idle"
  /\ \E id \in DOMAIN fwpm_filters :
       /\ \A u \in Threads : th[u].pc = "notify add" => th[u].key # fwpm_filters[id].key
       /\ remove_fwpm_filter(t, id)
  /\ UNCHANGED <<flows, attached, owned>>

\* notifyFn, called by add_fwpm_filter and remove_fwpm_filter once the lock is
\* released: the callout counts its filters.
notifyFn(t) ==
  /\ \/ /\ th[t].pc = "notify add"
        /\ attached' = [attached EXCEPT ![th[t].key] = @ + 1]
     \/ /\ th[t].pc = "notify delete"
        /\ attached' = [attached EXCEPT ![th[t].key] = @ - 1]
  /\ th' = [th EXCEPT ![t] = Idle]
  /\ UNCHANGED <<tables, flows, owned>>

-------------------------------------------------------------------------------
(* Hooks of the harness.                                                     *)

\* test_callout up to the call of classifyFn: r is the thread's record when it
\* calls, and after(unknown) the record of a thread whose lookup fails.
test_callout(t, r, layer, sublayer, unknown) ==
  /\ \/ /\ get_fwpm_filter_in_sublayer(layer, sublayer) = {}
        /\ th' = [th EXCEPT ![t] = unknown]
        /\ UNCHANGED next_flow_id
     \/ /\ next_flow_id < MaxFlow
        /\ \E f \in get_fwpm_filter_in_sublayer(layer, sublayer) :
             IF get_callout_from_key(fwpm_filters[f].key) = {}
             THEN th' = [th EXCEPT ![t] = unknown] /\ UNCHANGED next_flow_id
             ELSE \E c \in get_callout_from_key(fwpm_filters[f].key) :
                    /\ next_flow_id' = next_flow_id + 1
                    /\ th' = [th EXCEPT ![t] = [r EXCEPT !.pc = "classify", !.layer = layer,
                                                         !.callout = c, !.flow = next_flow_id']]
  /\ UNCHANGED <<tables, fwpm_flow_contexts, attached, owned>>

\* A hook that runs one callout in the default sub layer.
Hook(t, layer) ==
  /\ th[t].pc = "idle"
  /\ test_callout(t, [Idle EXCEPT !.hook = "single"], layer, "default", Idle)

test_bind_ipv4(t) == Hook(t, "RESOURCE_ASSIGNMENT_V4")
test_bind_ipv6(t) == Hook(t, "RESOURCE_ASSIGNMENT_V6")
test_cgroup_inet4_recv_accept(t) == Hook(t, "AUTH_RECV_ACCEPT_V4")
test_cgroup_inet6_recv_accept(t) == Hook(t, "AUTH_RECV_ACCEPT_V6")
test_sock_ops_v4(t) == Hook(t, "FLOW_ESTABLISHED_V4")
test_sock_ops_v6(t) == Hook(t, "FLOW_ESTABLISHED_V6")
test_cgroup_inet4_listen(t) == Hook(t, "AUTH_LISTEN_V4")
test_cgroup_inet6_listen(t) == Hook(t, "AUTH_LISTEN_V6")

\* classify_test_packet finds the callout by the layer and keeps the lock; one
\* of its four allocations may fail.
classify_test_packet(t) ==
  /\ th[t].pc = "idle"
  /\ get_fwpm_filter_with_context("INBOUND_MAC") # {}
  /\ \E k \in get_callout_key_from_layer_guid("INBOUND_MAC") : \E c \in get_callout_from_key(k) :
       th' = [th EXCEPT ![t].pc = "packet", ![t].hook = "single", ![t].callout = c]
  /\ UNCHANGED <<tables, flows, attached, owned>>

\* The layers of the connect hooks: the redirect one is looked up in the sub
\* layer for connections in version 6 only.
Redirect(hook) == IF hook = "connect4" THEN <<"CONNECT_REDIRECT_V4", "default">>
                  ELSE <<"CONNECT_REDIRECT_V6", "connect_v6">>
Auth(hook) == IF hook = "connect4" THEN <<"AUTH_CONNECT_V4", "default">>
              ELSE <<"AUTH_CONNECT_V6", "default">>

\* _allocate_and_initialize_connection_request: the address stays zero.
_allocate_and_initialize_connection_request ==
  {NoRequest, [port |-> Parameters.port, address |-> "zero"]}

\* The connect hooks up to the call of the redirect callout.
Connect(t, hook) ==
  /\ th[t].pc = "idle"
  /\ \E request \in _allocate_and_initialize_connection_request :
       LET r == [Idle EXCEPT !.hook = hook, !.request = request] IN
       test_callout(t, r, Redirect(hook)[1], Redirect(hook)[2],
                    [r EXCEPT !.pc = "redirected"])

\* Mutant of test_cgroup_inet6_connect: it returns when the redirect callout is
\* not found.
test_cgroup_inet6_connect_returns(t) ==
  /\ th[t].pc = "idle"
  /\ \E request \in _allocate_and_initialize_connection_request :
       LET r == [Idle EXCEPT !.hook = "connect6", !.request = request] IN
       test_callout(t, r, Redirect("connect6")[1], Redirect("connect6")[2],
                    [Idle EXCEPT !.request = request])

test_cgroup_inet4_connect(t) == Connect(t, "connect4")
test_cgroup_inet6_connect(t) == Connect(t, "connect6")

\* Mutant of _is_connection_redirected: the test of the port is inverted.
_is_connection_not_redirected(hook, request) ==
  /\ request # NoRequest
  /\ request.port = Parameters.port

\* _is_connection_redirected: the port and the address both differ.  An address
\* of version 4 is stored in network byte order and compared as it is.
_is_connection_redirected(hook, request) ==
  /\ request # NoRequest
  /\ request.port # Parameters.port
  /\ ~(hook = "connect6" /\ request.address = Parameters.address)

\* What a connect hook does between two callouts: AUTH_CONNECT is classified
\* for the original destination, and again for the redirected one.
ConnectAuth(t) ==
  LET h == th[t].hook  q == th[t].request
      again == th[t].pc = "authorized"
      r == [th[t] EXCEPT !.redirected = _is_connection_redirected(h, q),
                         !.seen = IF again THEN [port |-> Swap(q.port), address |-> q.address]
                                  ELSE Parameters] IN
  /\ \/ th[t].pc = "redirected"
     \/ again /\ th[t].redirected
  /\ test_callout(t, r, Auth(h)[1], Auth(h)[2],
                  [r EXCEPT !.pc = IF again THEN "reauthorized" ELSE "authorized"])

\* _free_connection_request, and the return of the connect hooks.
_free_connection_request(t) ==
  /\ \/ th[t].pc = "reauthorized"
     \/ th[t].pc = "authorized" /\ ~th[t].redirected
  /\ th' = [th EXCEPT ![t] = Idle]
  /\ UNCHANGED <<tables, flows, attached, owned>>

\* The thread's record once classifyFn has returned.
Returned(r) ==
  IF r.hook = "single" THEN Idle
  ELSE [r EXCEPT !.callout = NoCallout, !.flow = NoFlow,
                 !.layer = "none",
                 !.pc = IF r.layer = Redirect(r.hook)[1] THEN "redirected"
                        ELSE IF r.seen = Parameters THEN "authorized" ELSE "reauthorized"]

\* FwpsAcquireWritableLayerDataPointer0 and what a redirect callout writes
\* through the pointer: another port, in network byte order, and maybe an
\* address; or nothing.
FwpsAcquireWritableLayerDataPointer0(request) ==
  {request} \cup
  (IF request = NoRequest THEN {}
   ELSE [port : {<<"proxy", TRUE>>}, address : {"zero", "dest", "proxy"}])

\* classifyFn of a callout that associates no flow context.
classifyFn(t) ==
  /\ \/ th[t].pc = "packet" /\ th' = [th EXCEPT ![t] = Idle]
     \/ /\ th[t].pc = "classify" /\ th[t].layer \in {Redirect(h)[1] : h \in {"connect4", "connect6"}}
        /\ \E q \in FwpsAcquireWritableLayerDataPointer0(th[t].request) :
             th' = [th EXCEPT ![t] = Returned([th[t] EXCEPT !.request = q])]
     \/ /\ th[t].pc = "classify"
        /\ th[t].layer \notin {Redirect(h)[1] : h \in {"connect4", "connect6"}}
        /\ th' = [th EXCEPT ![t] = Returned(th[t])]
  /\ UNCHANGED <<tables, flows, attached, owned>>

FlowLayers == {"FLOW_ESTABLISHED_V4", "FLOW_ESTABLISHED_V6"}

\* classifyFn of a callout that calls FwpsFlowAssociateContext0: the context is
\* not stored when the flow has one.
FwpsFlowAssociateContext0(t) ==
  /\ th[t].pc = "classify" /\ th[t].layer \in FlowLayers /\ ExclusiveLock
  /\ fwpm_flow_contexts' = MapInsert(fwpm_flow_contexts, th[t].flow, th[t].callout)
  /\ owned' = owned \cup {<<th[t].callout, th[t].flow>>}
  /\ th' = [th EXCEPT ![t] = Returned(th[t])]
  /\ UNCHANGED <<tables, next_flow_id, attached>>

-------------------------------------------------------------------------------
(* Removal of flow contexts, by the driver or by the harness.                *)

\* Nobody else is removing the context of the flow.
SoleRemover(flow) ==
  Racing \/ \A t \in Threads : th[t].pc = "remove" => th[t].flow # flow

\* Mutant of delete_flow_context: the context stays in the table.
delete_flow_context_keeps(t, flow, id) ==
  /\ ExclusiveLock
  /\ th' = [th EXCEPT ![t].pc = "flow delete", ![t].flow = flow,
                      ![t].callout = IF flow \in DOMAIN fwpm_flow_contexts THEN id ELSE NoCallout]
  /\ UNCHANGED <<tables, flows, attached, owned>>

delete_flow_context(t, flow, id) ==
  /\ ExclusiveLock
  /\ th' = [th EXCEPT ![t].pc = "flow delete", ![t].flow = flow,
                      ![t].callout = IF flow \in DOMAIN fwpm_flow_contexts THEN id ELSE NoCallout]
  /\ fwpm_flow_contexts' = Without(fwpm_flow_contexts, flow)
  /\ UNCHANGED <<tables, next_flow_id, attached, owned>>

\* The driver removes a context it has associated.
FwpsFlowRemoveContext0(t) ==
  /\ th[t].pc = "idle"
  /\ \E flow \in DOMAIN fwpm_flow_contexts :
       SoleRemover(flow) /\ delete_flow_context(t, flow, fwpm_flow_contexts[flow])

\* test_remove_flow_context under the shared lock; the callout is the first
\* one found at the layer.
test_remove_flow_context(t, layer) ==
  /\ th[t].pc = "idle" /\ Loaded
  /\ \E flow \in 2 .. next_flow_id, k \in get_callout_key_from_layer_guid(layer) :
       \E c \in Untested(get_callout_id_from_key(k)) :
         /\ SoleRemover(flow)
         /\ flow \in DOMAIN fwpm_flow_contexts
         /\ th' = [th EXCEPT ![t].pc = "remove", ![t].flow = flow, ![t].callout = c]
  /\ UNCHANGED <<tables, flows, attached, owned>>

test_sock_ops_v4_remove_flow_context(t) == test_remove_flow_context(t, "FLOW_ESTABLISHED_V4")
test_sock_ops_v6_remove_flow_context(t) == test_remove_flow_context(t, "FLOW_ESTABLISHED_V6")

\* test_remove_flow_context after the shared lock is released.
RemoveFound(t) ==
  /\ th[t].pc = "remove"
  /\ delete_flow_context(t, th[t].flow, th[t].callout)

\* flowDeleteFn: the callout drops the context it is given.
flowDeleteFn(t) ==
  /\ th[t].pc = "flow delete" /\ th[t].callout # NoCallout
  /\ owned' = owned \ {<<th[t].callout, th[t].flow>>}
  /\ th' = [th EXCEPT ![t] = Idle]
  /\ UNCHANGED <<tables, flows, attached>>

-------------------------------------------------------------------------------
Driver ==
  \/ FwpsCalloutRegister3
  \/ FwpmCalloutAdd0
  \/ FwpmSubLayerAdd0
  \/ FwpmSubLayerDeleteByKey0
  \/ FwpmCalloutDeleteByKey0
  \/ FwpsCalloutUnregisterById0

\* What a thread does once it has begun a call or a hook.
Continue(t) ==
  \/ notifyFn(t)
  \/ classifyFn(t)
  \/ FwpsFlowAssociateContext0(t)
  \/ ConnectAuth(t)
  \/ _free_connection_request(t)
  \/ RemoveFound(t)
  \/ flowDeleteFn(t)

Begin(t) ==
  \/ FwpmFilterAdd0(t)
  \/ FwpmFilterDeleteById0(t)
  \/ FwpsFlowRemoveContext0(t)
  \/ test_bind_ipv4(t)
  \/ test_bind_ipv6(t)
  \/ test_cgroup_inet4_recv_accept(t)
  \/ test_cgroup_inet6_recv_accept(t)
  \/ test_cgroup_inet4_connect(t)
  \/ test_cgroup_inet6_connect(t)
  \/ test_sock_ops_v4(t)
  \/ test_sock_ops_v6(t)
  \/ test_cgroup_inet4_listen(t)
  \/ test_cgroup_inet6_listen(t)
  \/ classify_test_packet(t)
  \/ test_sock_ops_v4_remove_flow_context(t)
  \/ test_sock_ops_v6_remove_flow_context(t)

Next == Driver \/ \E t \in Threads : Begin(t) \/ Continue(t)

Spec == Init /\ [][Next]_vars

-------------------------------------------------------------------------------
\* A callout whose address a thread took under the lock is still registered
\* when the thread, without the lock, calls one of its functions: the
\* assertions and the dereferences of fwp_um.h 114-126, 141-147 and 162-174.
CalloutValid ==
  \A t \in Threads :
    th[t].pc \in {"notify add", "notify delete", "classify", "packet", "flow delete"}
      => th[t].callout \in DOMAIN fwps_callouts

\* What the callouts have been notified of is what the table of filters holds,
\* up to the notifications that are on their way.
NotificationsExact ==
  \A k \in Keys :
    attached[k] + Cardinality({t \in Threads : th[t].pc = "notify add" /\ th[t].key = k})
      = Cardinality({id \in DOMAIN fwpm_filters : fwpm_filters[id].key = k})
        + Cardinality({t \in Threads : th[t].pc = "notify delete" /\ th[t].key = k})

\* Every context a callout has associated is in the engine's table or being
\* handed back, once, to the callout it belongs to.
FlowContextsExact ==
  LET deleting == {t \in Threads : th[t].pc = "flow delete"} IN
  /\ owned = {<<fwpm_flow_contexts[f], f>> : f \in DOMAIN fwpm_flow_contexts}
               \cup {<<th[t].callout, th[t].flow>> : t \in deleting}
  /\ \A t \in deleting : th[t].flow \notin DOMAIN fwpm_flow_contexts
  /\ \A t, u \in deleting : th[t].flow = th[u].flow => t = u

\* A thread has a connection request only inside a connect hook: the next hook
\* of the thread finds none (the assertion of fwp_um.cpp 45) and none leaks.
RequestScoped ==
  \A t \in Threads : th[t].pc = "idle" => th[t].request = NoRequest

\* A connect hook whose callout has moved the connection to another port and
\* another address has last been authorised for where it was moved to.
RedirectAuthorized ==
  \A t \in Threads :
    /\ th[t].pc = "reauthorized" \/ (th[t].pc = "authorized" /\ ~th[t].redirected)
    /\ th[t].request.port = <<"proxy", TRUE>>
    /\ th[t].request.address = "proxy"
    => th[t].seen = [port |-> <<"proxy", FALSE>>, address |-> "proxy"]

===============================================================================
