------------------------------ MODULE FwpProofs ------------------------------
(***************************************************************************)
(* The filtering platform calls only callouts that are registered, counts  *)
(* its notifications right and hands every flow context back once, for any  *)
(* number of threads, any plan of callouts and any number of filters.       *)
(***************************************************************************)
EXTENDS Fwp, Integers, TLAPS

-----------------------------------------------------------------------------
(* The tables.                                                             *)

\* An object of the engine is one the plan names.
Planned(o) == \E i \in DOMAIN Plan : o.key = Plan[i].key /\ o.layer = Plan[i].layer

\* The first n keys of the plan: the driver registers its callouts in order.
Prefix(n) == {PlanKeys[i] : i \in 1 .. n}

\* Ids are handed out in order and stay unique.  Objects are added for registered
\* callouts only, sub layers once every object is there, and filters once a sub
\* layer is.
TablesInv ==
    /\ next_id \in Nat \ {0} /\ next_flow_id \in Nat
    /\ DOMAIN fwps_callouts \subseteq 1 .. next_id - 1
    /\ DOMAIN fwpm_callouts \subseteq 1 .. next_id - 1
    /\ DOMAIN fwpm_filters \subseteq 1 .. next_id - 1
    /\ DOMAIN fwpm_sub_layers \subseteq 1 .. next_id - 1
    /\ \A i, j \in DOMAIN fwps_callouts : fwps_callouts[i] = fwps_callouts[j] => i = j
    /\ \E n \in 0 .. Len(Plan) : Registered = Prefix(n)
    /\ \A id \in DOMAIN fwpm_callouts : Planned(fwpm_callouts[id])
    /\ \A id \in DOMAIN fwpm_filters : Planned(fwpm_filters[id])
    /\ Added # {} => Registered = Keys
    /\ Layered # {} => Added = Keys
    /\ DOMAIN fwpm_filters # {} => Registered = Keys

\* The keys of the plan are a sequence without repetition.
LEMMA PlanFacts ==
  /\ Len(Plan) \in Nat /\ Len(PlanKeys) = Len(Plan) /\ DOMAIN PlanKeys = 1 .. Len(Plan)
  /\ \A i \in 1 .. Len(Plan) : PlanKeys[i] = Plan[i].key /\ PlanKeys[i] \in Keys
  /\ \A i, j \in 1 .. Len(Plan) : PlanKeys[i] = PlanKeys[j] => i = j
  /\ \A n \in 0 .. Len(Plan) : Prefix(n) \subseteq Keys
<1>1. Len(Plan) \in Nat /\ DOMAIN Plan = 1 .. Len(Plan)
  BY FwpAssumption
<1>2. \A i \in 1 .. Len(Plan) : PlanKeys[i] = Plan[i].key /\ PlanKeys[i] \in Keys
  BY <1>1 DEF PlanKeys, Keys
<1>3. DOMAIN PlanKeys = 1 .. Len(Plan) /\ Len(PlanKeys) = Len(Plan)
  BY <1>1 DEF PlanKeys
<1>4. \A i, j \in 1 .. Len(Plan) : PlanKeys[i] = PlanKeys[j] => i = j
  BY <1>1, <1>2, FwpAssumption
<1>5. \A n \in 0 .. Len(Plan) : Prefix(n) \subseteq Keys
  BY <1>1, <1>2 DEF Prefix
<1> QED BY <1>1, <1>2, <1>3, <1>4, <1>5

\* The next key of the plan after a prefix is not in it, and the last of a prefix is
\* its last key.
LEMMA PrefixFacts ==
  ASSUME NEW n \in 0 .. Len(Plan)
  PROVE  /\ \A i \in 1 .. Len(Plan) : PlanKeys[i] \in Prefix(n) <=> i <= n
         /\ n < Len(Plan) => Prefix(n + 1) = Prefix(n) \cup {PlanKeys[n + 1]}
         /\ n > 0 => Prefix(n - 1) = Prefix(n) \ {PlanKeys[n]}
<1>0. n \in Nat /\ n <= Len(Plan) /\ Len(Plan) \in Nat
  BY PlanFacts
<1>1. \A i \in 1 .. Len(Plan) : PlanKeys[i] \in Prefix(n) <=> i <= n
  BY <1>0, PlanFacts DEF Prefix
<1>2. ASSUME n < Len(Plan)
      PROVE  Prefix(n + 1) = Prefix(n) \cup {PlanKeys[n + 1]}
  <2>1. 1 .. (n + 1) = (1 .. n) \cup {n + 1}
    BY <1>0
  <2> QED BY <2>1 DEF Prefix
<1>3. ASSUME n > 0
      PROVE  Prefix(n - 1) = Prefix(n) \ {PlanKeys[n]}
  <2>1. 1 .. n = (1 .. (n - 1)) \cup {n} /\ n \in 1 .. Len(Plan) /\ n \notin 1 .. (n - 1)
    BY <1>0, <1>3
  <2> QED BY <2>1, PlanFacts DEF Prefix
<1> QED BY <1>1, <1>2, <1>3

\* The key that is registered next, and the one that was registered last.
LEMMA NextAndLast ==
  ASSUME NEW n \in 0 .. Len(Plan), NEW k
  PROVE  /\ k \in NextOf(Prefix(n), PlanKeys) => n < Len(Plan) /\ k = PlanKeys[n + 1]
         /\ k \in LastOf(Prefix(n), PlanKeys) => n > 0 /\ k = PlanKeys[n]
<1>0. n \in Nat /\ n <= Len(Plan) /\ Len(Plan) \in Nat
  BY PlanFacts
<1>1. ASSUME k \in NextOf(Prefix(n), PlanKeys)
      PROVE  n < Len(Plan) /\ k = PlanKeys[n + 1]
  <2>1. PICK j \in 1 .. Len(Plan) :
          /\ k = PlanKeys[j] /\ PlanKeys[j] \notin Prefix(n)
          /\ \A h \in 1 .. j - 1 : PlanKeys[h] \in Prefix(n)
    BY <1>1, PlanFacts, Zenon DEF NextOf
  <2>2. ~(j <= n) /\ \A h \in 1 .. j - 1 : h <= n
    BY <1>0, <2>1, PrefixFacts
  <2>3. j = n + 1
    BY <1>0, <2>2
  <2> QED BY <1>0, <2>1, <2>3
<1>2. ASSUME k \in LastOf(Prefix(n), PlanKeys)
      PROVE  n > 0 /\ k = PlanKeys[n]
  <2>1. PICK j \in 1 .. Len(Plan) :
          /\ k = PlanKeys[j] /\ PlanKeys[j] \in Prefix(n)
          /\ \A h \in 1 .. Len(Plan) : h > j => PlanKeys[h] \notin Prefix(n)
    BY <1>2, PlanFacts, Zenon DEF LastOf
  <2>2. j <= n /\ \A h \in 1 .. Len(Plan) : h > j => ~(h <= n)
    BY <1>0, <2>1, PrefixFacts
  <2>3. j = n
    BY <1>0, <2>2
  <2> QED BY <1>0, <2>1, <2>3
<1> QED BY <1>1, <1>2

\* Taking an entry away leaves the others as they were.
LEMMA WithoutFacts ==
  ASSUME NEW f, NEW x
  PROVE  /\ DOMAIN Without(f, x) = DOMAIN f \ {x}
         /\ \A y \in DOMAIN f \ {x} : Without(f, x)[y] = f[y]
BY DEF Without

\* The next id is in no table, and the entries keep below it.
LEMMA FreshId ==
  ASSUME TablesInv
  PROVE  /\ next_id \notin DOMAIN fwps_callouts /\ next_id \notin DOMAIN fwpm_callouts
         /\ next_id \notin DOMAIN fwpm_filters /\ next_id \notin DOMAIN fwpm_sub_layers
         /\ next_id + 1 \in Nat \ {0}
         /\ \A S : S \subseteq 1 .. next_id - 1
                   => /\ S \subseteq 1 .. (next_id + 1) - 1
                      /\ S \cup {next_id} \subseteq 1 .. (next_id + 1) - 1
BY DEF TablesInv

\* While a sub layer is there, or an object of the engine, every callout is
\* registered.
LEMMA AllRegistered ==
  ASSUME TablesInv, Layered # {} \/ Added # {} \/ DOMAIN fwpm_filters # {}
  PROVE  Registered = Keys
BY PlanFacts, Zenon DEF TablesInv

\* Once the driver is loaded there is a sub layer.
LEMMA LoadedLayers == Loaded => Layered # {}
<1>1. 1 \in DOMAIN SubLayers
  <2>1. Len(SubLayers) \in Nat \ {0} /\ DOMAIN SubLayers = 1 .. Len(SubLayers)
    BY FwpAssumption, Zenon
  <2> QED BY <2>1
<1> QED BY <1>1, Zenon DEF Loaded

\* Ids are natural numbers.
LEMMA IdTypes ==
  ASSUME TablesInv
  PROVE  next_flow_id \in Nat /\ \A c \in DOMAIN fwps_callouts : c \in Nat
<1>1. next_flow_id \in Nat /\ DOMAIN fwps_callouts \subseteq 1 .. next_id - 1
  BY Zenon DEF TablesInv
<1>2. next_id \in Nat
  BY Zenon DEF TablesInv
<1>3. \A c \in 1 .. next_id - 1 : c \in Nat
  BY <1>2
<1> QED BY <1>1, <1>3, Zenon

\* A planned object's key is one of the plan.
LEMMA PlannedKey ==
  ASSUME NEW o, Planned(o)
  PROVE  o.key \in Keys
BY DEF Planned, Keys

\* The callout a lookup by a registered key returns is registered under that key.
LEMMA LookupFacts ==
  ASSUME NEW k, NEW c
  PROVE  /\ c \in get_fwps_callout(k) => c \in DOMAIN fwps_callouts /\ fwps_callouts[c] = k
         /\ k \in Registered /\ c \in Untested(get_fwps_callout(k))
              => c \in DOMAIN fwps_callouts /\ fwps_callouts[c] = k
BY DEF get_fwps_callout, Untested, Registered

\* Nothing is in the tables at the start.
LEMMA TablesInit == Init => TablesInv
<1>1. Prefix(0) = {}
  BY DEF Prefix
<1> QED BY <1>1, PlanFacts DEF Init, TablesInv, Added, Layered, Registered

\* What is registered after a callout is added or taken away.
LEMMA RegisteredFacts ==
  ASSUME TablesInv
  PROVE  /\ UNCHANGED fwps_callouts => Registered' = Registered
         /\ UNCHANGED fwpm_callouts => Added' = Added
         /\ UNCHANGED fwpm_sub_layers => Layered' = Layered
BY DEF Registered, Added, Layered

\* FwpsCalloutRegister3 registers a callout of the plan, before there is any object.
LEMMA RegisterTables ==
  ASSUME TablesInv, FwpsCalloutRegister3
  PROVE  TablesInv'
<1>1. PICK k \in NextOf(Registered, PlanKeys) : register_fwps_callout(k)
  BY DEF FwpsCalloutRegister3
<1>2. PICK n \in 0 .. Len(Plan) : Registered = Prefix(n)
  BY DEF TablesInv
<1>3. n < Len(Plan) /\ k = PlanKeys[n + 1]
  BY <1>1, <1>2, NextAndLast
<1>4. /\ next_id' = next_id + 1 /\ fwps_callouts' = MapInsert(fwps_callouts, next_id, k)
      /\ UNCHANGED <<fwpm_callouts, fwpm_filters, fwpm_sub_layers, next_flow_id>>
      /\ Added' = {} /\ Layered' = Layered
  BY <1>1, RegisteredFacts DEF FwpsCalloutRegister3, register_fwps_callout, flows, Insert
<1>5. /\ DOMAIN fwps_callouts' = DOMAIN fwps_callouts \cup {next_id}
      /\ fwps_callouts'[next_id] = k
      /\ \A id \in DOMAIN fwps_callouts : fwps_callouts'[id] = fwps_callouts[id]
  BY <1>4, FreshId DEF MapInsert
<1>6. Registered' = Registered \cup {k} /\ Registered' = Prefix(n + 1)
  BY <1>2, <1>3, <1>5, FreshId, PrefixFacts DEF Registered
<1>7. \A i, j \in DOMAIN fwps_callouts' : fwps_callouts'[i] = fwps_callouts'[j] => i = j
  <2>1. \A i \in DOMAIN fwps_callouts : fwps_callouts[i] # k
    BY <1>2, <1>3, PrefixFacts DEF Registered
  <2> QED BY <1>5, <2>1, FreshId DEF TablesInv
<1>8. n + 1 \in 0 .. Len(Plan)
  BY <1>3, PlanFacts
<1>9. DOMAIN fwpm_filters # {} => Registered' = Keys
  BY <1>6, <1>8, PlanFacts DEF TablesInv
<1>10. DOMAIN fwps_callouts' \subseteq 1 .. next_id' - 1
  BY <1>4, <1>5, FreshId DEF TablesInv
<1> QED BY <1>4, <1>6, <1>7, <1>8, <1>9, <1>10, FreshId, Zenon DEF TablesInv, FwpsCalloutRegister3

\* FwpmCalloutAdd0 adds an object of the plan, once every callout is registered.
LEMMA CalloutAddTables ==
  ASSUME TablesInv, FwpmCalloutAdd0
  PROVE  TablesInv'
<1>1. PICK i \in DOMAIN Plan : add_fwpm_callout(Plan[i])
  BY DEF FwpmCalloutAdd0
<1> DEFINE o == [key |-> Plan[i].key, layer |-> Plan[i].layer]
<1>2. /\ next_id' = next_id + 1 /\ fwpm_callouts' = MapInsert(fwpm_callouts, next_id, o)
      /\ UNCHANGED <<fwps_callouts, fwpm_filters, fwpm_sub_layers, next_flow_id>>
  BY <1>1 DEF FwpmCalloutAdd0, add_fwpm_callout, flows, Insert
<1>3. Registered' = Keys /\ Registered = Keys /\ Layered' = {}
  BY <1>2, RegisteredFacts DEF FwpmCalloutAdd0
<1>4. Planned(o)
  BY DEF Planned
<1> HIDE DEF o
<1>5. next_id \notin DOMAIN fwpm_callouts
  BY FreshId
<1>6. /\ DOMAIN fwpm_callouts' = DOMAIN fwpm_callouts \cup {next_id}
      /\ fwpm_callouts'[next_id] = o
      /\ \A id \in DOMAIN fwpm_callouts : fwpm_callouts'[id] = fwpm_callouts[id]
  BY <1>2, <1>5 DEF MapInsert
<1>7. \A id \in DOMAIN fwpm_callouts' : Planned(fwpm_callouts'[id])
  BY <1>4, <1>6 DEF TablesInv
<1>8. DOMAIN fwpm_callouts' \subseteq 1 .. next_id' - 1
  BY <1>2, <1>6, FreshId DEF TablesInv
<1> QED BY <1>2, <1>3, <1>7, <1>8, FreshId, Zenon DEF TablesInv, Planned

\* FwpmSubLayerAdd0 adds a sub layer, once every object is there.
LEMMA SubLayerAddTables ==
  ASSUME TablesInv, FwpmSubLayerAdd0
  PROVE  TablesInv'
<1>1. PICK k : add_fwpm_sub_layer(k)
  BY DEF FwpmSubLayerAdd0
<1>2. /\ next_id' = next_id + 1 /\ fwpm_sub_layers' = MapInsert(fwpm_sub_layers, next_id, k)
      /\ UNCHANGED <<fwps_callouts, fwpm_callouts, fwpm_filters, next_flow_id>>
  BY <1>1 DEF FwpmSubLayerAdd0, add_fwpm_sub_layer, flows, Insert
<1>3. Registered' = Registered /\ Added' = Keys /\ Added = Keys
  BY <1>2, RegisteredFacts DEF FwpmSubLayerAdd0
<1>4. DOMAIN fwpm_sub_layers' = DOMAIN fwpm_sub_layers \cup {next_id}
  BY <1>2 DEF MapInsert
<1>5. DOMAIN fwpm_sub_layers' \subseteq 1 .. next_id' - 1
  BY <1>2, <1>4, FreshId DEF TablesInv
<1> QED BY <1>2, <1>3, <1>5, FreshId DEF TablesInv, Planned

\* FwpmSubLayerDeleteByKey0 takes a sub layer away.
LEMMA SubLayerDeleteTables ==
  ASSUME TablesInv, FwpmSubLayerDeleteByKey0
  PROVE  TablesInv'
<1>1. PICK x : /\ fwpm_sub_layers' = Without(fwpm_sub_layers, x)
               /\ UNCHANGED <<next_id, fwps_callouts, fwpm_callouts, fwpm_filters, next_flow_id>>
  BY DEF FwpmSubLayerDeleteByKey0, remove_fwpm_sub_layer, flows
<1>2. DOMAIN fwpm_sub_layers' \subseteq DOMAIN fwpm_sub_layers
  BY <1>1, WithoutFacts, Zenon
<1>3. Layered' # {} => Layered # {}
  BY <1>2 DEF Layered
<1>4. Registered' = Registered /\ Added' = Added
  BY <1>1, RegisteredFacts
<1> QED BY <1>1, <1>2, <1>3, <1>4 DEF TablesInv, Planned

\* FwpmCalloutDeleteByKey0 takes an object away; no sub layer is left.
LEMMA CalloutDeleteTables ==
  ASSUME TablesInv, FwpmCalloutDeleteByKey0
  PROVE  TablesInv'
<1>1. PICK x : /\ fwpm_callouts' = Without(fwpm_callouts, x)
               /\ UNCHANGED <<next_id, fwps_callouts, fwpm_sub_layers, fwpm_filters, next_flow_id>>
  BY DEF FwpmCalloutDeleteByKey0, remove_fwpm_callout, flows
<1>2. /\ DOMAIN fwpm_callouts' \subseteq DOMAIN fwpm_callouts
      /\ \A id \in DOMAIN fwpm_callouts' : fwpm_callouts'[id] = fwpm_callouts[id]
  BY <1>1, WithoutFacts, Zenon
<1>3. Added' # {} => Added # {}
  BY <1>2 DEF Added
<1>4. Registered' = Registered /\ Layered' = {}
  BY <1>1, RegisteredFacts DEF FwpmCalloutDeleteByKey0
<1> QED BY <1>1, <1>2, <1>3, <1>4 DEF TablesInv, Planned

\* FwpsCalloutUnregisterById0 takes the last callout away; no object is left.
LEMMA UnregisterTables ==
  ASSUME TablesInv, FwpsCalloutUnregisterById0
  PROVE  TablesInv'
<1>a. PICK k \in LastOf(Registered, PlanKeys) :
        \E x \in get_fwps_callout(k) : remove_fwps_callout(x)
  BY DEF FwpsCalloutUnregisterById0
<1>1. PICK x \in get_fwps_callout(k) : remove_fwps_callout(x)
  BY <1>a
<1>2. PICK n \in 0 .. Len(Plan) : Registered = Prefix(n)
  BY DEF TablesInv
<1>3. n > 0 /\ k = PlanKeys[n]
  BY <1>a, <1>2, NextAndLast
<1>4. /\ fwps_callouts' = Without(fwps_callouts, x)
      /\ UNCHANGED <<next_id, fwpm_callouts, fwpm_sub_layers, fwpm_filters, next_flow_id>>
      /\ Added' = {} /\ Layered' = Layered /\ DOMAIN fwpm_filters = {}
  BY <1>1, RegisteredFacts DEF FwpsCalloutUnregisterById0, remove_fwps_callout, flows, Quiet
<1>5. /\ x \in DOMAIN fwps_callouts /\ fwps_callouts[x] = k
      /\ DOMAIN fwps_callouts' = DOMAIN fwps_callouts \ {x}
      /\ \A id \in DOMAIN fwps_callouts' : fwps_callouts'[id] = fwps_callouts[id]
  <2>1. x \in DOMAIN fwps_callouts /\ fwps_callouts[x] = k
    BY DEF get_fwps_callout
  <2>2. fwps_callouts' = [y \in DOMAIN fwps_callouts \ {x} |-> fwps_callouts[y]]
    BY <1>4, Zenon DEF Without
  <2> QED BY <2>1, <2>2
<1>6. Registered' = Registered \ {k}
  BY <1>5 DEF Registered, TablesInv
<1>7. Registered' = Prefix(n - 1) /\ n - 1 \in 0 .. Len(Plan)
  BY <1>2, <1>3, <1>6, PrefixFacts, PlanFacts
<1>8. \A i, j \in DOMAIN fwps_callouts' : fwps_callouts'[i] = fwps_callouts'[j] => i = j
  BY <1>5 DEF TablesInv
<1>9. Added = {}
  BY DEF FwpsCalloutUnregisterById0
<1> QED BY <1>4, <1>5, <1>7, <1>8, <1>9 DEF TablesInv, Planned

\* FwpmFilterAdd0 adds a filter of the plan, once the driver is loaded.
LEMMA FilterAddTables ==
  ASSUME TablesInv, NEW t \in Threads, FwpmFilterAdd0(t)
  PROVE  TablesInv'
<1>1. PICK i \in DOMAIN Plan, context \in BOOLEAN : add_fwpm_filter(t, Plan[i], context)
  BY DEF FwpmFilterAdd0
<1> DEFINE o == [key |-> Plan[i].key, layer |-> Plan[i].layer,
                 sublayer |-> Plan[i].sublayer, context |-> context]
<1>2. /\ next_id' = next_id + 1 /\ fwpm_filters' = MapInsert(fwpm_filters, next_id, o)
      /\ UNCHANGED <<fwps_callouts, fwpm_callouts, fwpm_sub_layers, next_flow_id>>
  BY <1>1, Zenon DEF FwpmFilterAdd0, add_fwpm_filter, flows, Insert
<1>3. Registered = Keys /\ Registered' = Registered /\ Added' = Added /\ Layered' = Layered
  BY <1>2, LoadedLayers, AllRegistered, RegisteredFacts DEF FwpmFilterAdd0
<1>4. Planned(o)
  BY DEF Planned
<1> HIDE DEF o
<1>5. next_id \notin DOMAIN fwpm_filters
  BY FreshId
<1>6. /\ DOMAIN fwpm_filters' = DOMAIN fwpm_filters \cup {next_id}
      /\ fwpm_filters'[next_id] = o
      /\ \A id \in DOMAIN fwpm_filters : fwpm_filters'[id] = fwpm_filters[id]
  BY <1>2, <1>5 DEF MapInsert
<1>7. \A id \in DOMAIN fwpm_filters' : Planned(fwpm_filters'[id])
  BY <1>4, <1>6 DEF TablesInv
<1>8. DOMAIN fwpm_filters' \subseteq 1 .. next_id' - 1
  BY <1>2, <1>6, FreshId DEF TablesInv
<1> QED BY <1>2, <1>3, <1>7, <1>8, FreshId, ZenonT(30) DEF TablesInv, Planned

\* FwpmFilterDeleteById0 takes a filter away.
LEMMA FilterDeleteTables ==
  ASSUME TablesInv, NEW t \in Threads, FwpmFilterDeleteById0(t)
  PROVE  TablesInv'
<1>1. PICK x \in DOMAIN fwpm_filters : remove_fwpm_filter(t, x)
  BY Zenon DEF FwpmFilterDeleteById0
<1>2. /\ fwpm_filters' = Without(fwpm_filters, x)
      /\ UNCHANGED <<next_id, fwps_callouts, fwpm_callouts, fwpm_sub_layers, next_flow_id>>
  BY <1>1, Zenon DEF FwpmFilterDeleteById0, remove_fwpm_filter, flows
<1>3. /\ DOMAIN fwpm_filters' \subseteq DOMAIN fwpm_filters
      /\ \A id \in DOMAIN fwpm_filters' : fwpm_filters'[id] = fwpm_filters[id]
  BY <1>2, WithoutFacts, Zenon
<1>4. Registered' = Registered /\ Added' = Added /\ Layered' = Layered
  BY <1>2, RegisteredFacts
<1> QED BY <1>2, <1>3, <1>4 DEF TablesInv, Planned

-----------------------------------------------------------------------------
(* The threads.                                                            *)

Requests == {NoRequest, [port |-> Parameters.port, address |-> "zero"]}
              \cup [port : {<<"proxy", TRUE>>}, address : {"zero", "dest", "proxy"}]
Destinations == [port : {"none", "dest", "proxy"} \X BOOLEAN,
                 address : {"none", "zero", "dest", "proxy"}]
HookLayers == {"none", "RESOURCE_ASSIGNMENT_V4", "RESOURCE_ASSIGNMENT_V6",
               "AUTH_RECV_ACCEPT_V4", "AUTH_RECV_ACCEPT_V6", "FLOW_ESTABLISHED_V4",
               "FLOW_ESTABLISHED_V6", "AUTH_LISTEN_V4", "AUTH_LISTEN_V6",
               "CONNECT_REDIRECT_V4", "CONNECT_REDIRECT_V6", "AUTH_CONNECT_V4",
               "AUTH_CONNECT_V6"}
Connects == {"connect4", "connect6"}

\* Where a thread calls no callout and removes no flow context.
Calm == {"idle", "redirected", "authorized", "reauthorized"}
Places == Calm \cup {"notify add", "notify delete", "classify", "packet", "remove",
                     "flow delete"}

ThreadStates ==
  [pc : Places, hook : {"none", "single"} \cup Connects, layer : HookLayers,
   callout : Nat, flow : Nat, key : Keys \cup {"none"}, request : Requests,
   redirected : BOOLEAN, seen : Destinations]

\* The destination the redirect callout has written.
Target(q) == [port |-> Swap(q.port), address |-> q.address]

\* A connect hook has looked at the request as it is now.
Decided(r) == r.redirected <=> _is_connection_redirected(r.hook, r.request)

\* A thread that is idle has no local state.  In a connect hook, what was asked of
\* the authorisation callout is the original destination or, if the request was
\* found to be redirected, the new one.
ThreadOK(r) ==
  /\ r.pc = "idle" => r = Idle
  /\ r.pc = "classify" => r.hook \in {"single"} \cup Connects
  /\ r.pc \in {"redirected", "authorized", "reauthorized"} => r.hook \in Connects
  /\ r.pc = "classify" /\ r.hook \in Connects
       => \/ r.layer = Redirect(r.hook)[1]
          \/ /\ r.layer = Auth(r.hook)[1]
             /\ Decided(r)
             /\ r.seen = Parameters \/ (r.redirected /\ r.seen = Target(r.request))
  /\ r.pc = "authorized" => Decided(r)
  /\ r.pc = "reauthorized" => r.seen = Target(r.request)

ThreadInv ==
    /\ th \in [Threads -> ThreadStates]
    /\ \A t \in Threads : ThreadOK(th[t])

\* Thread t goes on with the record r.
Moves(t, r) == r \in ThreadStates /\ ThreadOK(r) /\ th' = [th EXCEPT ![t] = r]

\* A step of thread t changes the record of t only.
LEMMA ThreadMoves ==
  ASSUME ThreadInv, NEW t \in Threads, NEW r, Moves(t, r)
  PROVE  ThreadInv' /\ th'[t] = r /\ \A u \in Threads \ {t} : th'[u] = th[u]
<1>1. th \in [Threads -> ThreadStates] /\ r \in ThreadStates /\ th' = [th EXCEPT ![t] = r]
  BY DEF ThreadInv, Moves
<1>2. th' \in [Threads -> ThreadStates] /\ th'[t] = r /\ \A u \in Threads \ {t} : th'[u] = th[u]
  BY <1>1
<1>3. \A u \in Threads : ThreadOK(th'[u])
  BY <1>2 DEF ThreadInv, Moves
<1> QED BY <1>2, <1>3, Zenon DEF ThreadInv, ThreadOK, Decided

\* A port and an address make a destination.
LEMMA DestinationType ==
  ASSUME NEW a \in {"none", "dest", "proxy"}, NEW b \in BOOLEAN,
         NEW d \in {"none", "zero", "dest", "proxy"}
  PROVE  [port |-> <<a, b>>, address |-> d] \in Destinations
<1>1. <<a, b>> \in {"none", "dest", "proxy"} \X BOOLEAN
  OBVIOUS
<1> DEFINE p == <<a, b>>
<1> HIDE DEF p
<1> QED BY <1>1 DEF Destinations, p

\* What the connect hooks read and write are requests and destinations.
LEMMA RequestType ==
  /\ NoRequest \in Requests /\ NoRequest \in Destinations /\ Parameters \in Destinations
  /\ [port |-> Parameters.port, address |-> "zero"] \in Requests
  /\ \A q \in Requests : Target(q) \in Destinations
<1>1. NoRequest \in Requests /\ [port |-> Parameters.port, address |-> "zero"] \in Requests
  BY DEF Requests
<1>2. NoRequest \in Destinations
  BY DestinationType, Zenon DEF NoRequest
<1>3. Parameters \in Destinations
  BY DestinationType, Zenon DEF Parameters
<1>4. ASSUME NEW q \in Requests
      PROVE  Target(q) \in Destinations
  <2>1. CASE q = NoRequest
    <3>1. Swap(q.port) = <<"none", TRUE>> /\ q.address = "none"
      BY <2>1, Zenon DEF NoRequest, Swap
    <3> QED BY <3>1, DestinationType, Zenon DEF Target
  <2>2. CASE q = [port |-> Parameters.port, address |-> "zero"]
    <3>1. Swap(q.port) = <<"dest", TRUE>> /\ q.address = "zero"
      BY <2>2, Zenon DEF Parameters, Swap
    <3> QED BY <3>1, DestinationType, Zenon DEF Target
  <2>3. CASE q \in [port : {<<"proxy", TRUE>>}, address : {"zero", "dest", "proxy"}]
    <3>1. Swap(q.port) = <<"proxy", FALSE>> /\ q.address \in {"zero", "dest", "proxy"}
      <4>1. q.port = <<"proxy", TRUE>> /\ q.address \in {"zero", "dest", "proxy"}
        BY <2>3, Zenon
      <4>2. Swap(<<"proxy", TRUE>>) = <<"proxy", FALSE>>
        BY Zenon DEF Swap
      <4> QED BY <4>1, <4>2, Zenon
    <3> QED BY <3>1, DestinationType, Zenon DEF Target
  <2> QED BY <2>1, <2>2, <2>3, Zenon DEF Requests
<1> QED BY <1>1, <1>2, <1>3, <1>4

\* An idle thread is in a state it may be in.
LEMMA IdleType == Idle \in ThreadStates /\ ThreadOK(Idle) /\ Idle.pc = "idle"
<1>1. NoCallout \in Nat /\ NoFlow \in Nat
  BY DEF NoCallout, NoFlow
<1>2. Idle \in ThreadStates
  BY <1>1, RequestType DEF Idle, ThreadStates, Places, Calm, HookLayers
<1>3. Idle.pc = "idle"
  BY DEF Idle
<1> QED BY <1>2, <1>3 DEF ThreadOK

\* The record of a thread that is in no call and in no hook.
LEMMA IdleThread ==
  ASSUME ThreadInv, NEW t \in Threads, th[t].pc = "idle"
  PROVE  th[t] = Idle
BY DEF ThreadInv, ThreadOK

\* A thread that returns is idle.
LEMMA ReturnsIdle ==
  ASSUME NEW t \in Threads, th' = [th EXCEPT ![t] = Idle]
  PROVE  Moves(t, Idle)
BY IdleType DEF Moves

\* The record of an idle thread that begins a call of the driver.
LEMMA CallRecord ==
  ASSUME NEW pc \in {"notify add", "notify delete"}, NEW c \in Nat, NEW k \in Keys
  PROVE  LET r == [Idle EXCEPT !.pc = pc, !.callout = c, !.key = k]
         IN  r \in ThreadStates /\ ThreadOK(r) /\ r.pc = pc /\ r.callout = c /\ r.key = k
<1> DEFINE r == [Idle EXCEPT !.pc = pc, !.callout = c, !.key = k]
<1>1. Idle \in ThreadStates
  BY IdleType, Zenon
<1>2. r \in ThreadStates /\ r.pc = pc /\ r.callout = c /\ r.key = k
  BY <1>1, Zenon DEF ThreadStates, Places
<1> HIDE DEF r
<1>3. ThreadOK(r)
  BY <1>2, Zenon DEF ThreadOK
<1> QED BY <1>2, <1>3, Zenon DEF r

\* The record of an idle thread that begins to remove a flow context.
LEMMA RemovalRecord ==
  ASSUME NEW s \in ThreadStates, NEW pc \in {"remove", "flow delete"}, NEW f \in Nat, NEW c \in Nat
  PROVE  LET r == [s EXCEPT !.pc = pc, !.flow = f, !.callout = c]
         IN  r \in ThreadStates /\ ThreadOK(r) /\ r.pc = pc /\ r.flow = f /\ r.callout = c
<1> DEFINE r == [s EXCEPT !.pc = pc, !.flow = f, !.callout = c]
<1>2. r \in ThreadStates /\ r.pc = pc /\ r.callout = c /\ r.flow = f
  BY Zenon DEF ThreadStates, Places
<1> HIDE DEF r
<1>3. ThreadOK(r)
  BY <1>2, Zenon DEF ThreadOK
<1> QED BY <1>2, <1>3, Zenon DEF r

\* The record of a thread in a connect hook.
LEMMA ConnectRecord ==
  ASSUME NEW h \in Connects, NEW q \in Requests
  PROVE  LET r == [Idle EXCEPT !.hook = h, !.request = q]
         IN  r \in ThreadStates /\ r.hook = h /\ r.request = q
<1>1. Idle \in ThreadStates
  BY IdleType
<1> QED BY <1>1, Zenon DEF ThreadStates

\* The record of a thread in a hook with one callout.
LEMMA SingleRecord ==
  LET r == [Idle EXCEPT !.hook = "single"] IN r \in ThreadStates /\ r.hook = "single"
<1>1. Idle \in ThreadStates
  BY IdleType
<1> QED BY <1>1 DEF ThreadStates

\* A thread goes to another place of its hook.
LEMMA PlaceRecord ==
  ASSUME NEW s \in ThreadStates, NEW pc \in Places
  PROVE  LET r == [s EXCEPT !.pc = pc]
         IN  /\ r \in ThreadStates /\ r.pc = pc /\ r.hook = s.hook /\ r.request = s.request
             /\ r.redirected = s.redirected /\ r.seen = s.seen
BY DEF ThreadStates

\* A redirect callout has written the request.
LEMMA RequestRecord ==
  ASSUME NEW s \in ThreadStates, NEW q \in Requests
  PROVE  LET r == [s EXCEPT !.request = q]
         IN  /\ r \in ThreadStates /\ r.pc = s.pc /\ r.hook = s.hook /\ r.layer = s.layer
             /\ r.request = q
BY DEF ThreadStates

\* The record of a thread whose callout has returned.
LEMMA ReturnedRecord ==
  ASSUME NEW s \in ThreadStates, NEW pc \in Places
  PROVE  LET r == [s EXCEPT !.callout = NoCallout, !.flow = NoFlow, !.layer = "none", !.pc = pc]
         IN  /\ r \in ThreadStates /\ r.pc = pc /\ r.hook = s.hook /\ r.request = s.request
             /\ r.redirected = s.redirected /\ r.seen = s.seen
<1>1. NoCallout \in Nat /\ NoFlow \in Nat
  BY DEF NoCallout, NoFlow
<1> QED BY <1>1, Zenon DEF ThreadStates, HookLayers

\* The layers of the hooks are different ones.
LEMMA LayerFacts ==
  /\ \A h \in Connects : /\ Redirect(h)[1] \in HookLayers /\ Auth(h)[1] \in HookLayers
                         /\ Redirect(h)[1] \notin FlowLayers /\ Auth(h)[1] \notin FlowLayers
  /\ \A h, g \in Connects : Auth(h)[1] # Redirect(g)[1]
BY DEF Connects, Redirect, Auth, HookLayers, FlowLayers

\* Once classifyFn has returned, a thread is idle or goes on in its connect hook.
LEMMA ReturnedFacts ==
  ASSUME NEW s \in ThreadStates, ThreadOK(s), s.pc = "classify"
  PROVE  Returned(s) \in ThreadStates /\ ThreadOK(Returned(s)) /\ Returned(s).pc \in Calm
<1>1. CASE s.hook = "single"
  BY <1>1, IdleType DEF Returned, Calm
<1>2. CASE s.hook \in Connects
  <2> DEFINE pc == IF s.layer = Redirect(s.hook)[1] THEN "redirected"
                   ELSE IF s.seen = Parameters THEN "authorized" ELSE "reauthorized"
  <2>1. pc \in {"redirected", "authorized", "reauthorized"} /\ s.hook # "single"
    BY <1>2 DEF Connects
  <2>2. Returned(s) = [s EXCEPT !.callout = NoCallout, !.flow = NoFlow, !.layer = "none",
                                !.pc = pc]
    BY <2>1 DEF Returned
  <2>3. /\ pc # "redirected" => Decided(s)
        /\ pc = "reauthorized" => s.seen = Target(s.request)
    BY <1>2 DEF ThreadOK
  <2> HIDE DEF pc
  <2>4. /\ Returned(s) \in ThreadStates /\ Returned(s).pc = pc /\ Returned(s).hook = s.hook
        /\ Returned(s).request = s.request /\ Returned(s).redirected = s.redirected
        /\ Returned(s).seen = s.seen
    <3>1. pc \in Places
      BY <2>1, Zenon DEF Places, Calm
    <3> DEFINE r == [s EXCEPT !.callout = NoCallout, !.flow = NoFlow, !.layer = "none",
                              !.pc = pc]
    <3>2. /\ r \in ThreadStates /\ r.pc = pc /\ r.hook = s.hook /\ r.request = s.request
          /\ r.redirected = s.redirected /\ r.seen = s.seen
      BY <3>1, ReturnedRecord, Zenon
    <3>3. Returned(s) = r
      BY <2>2
    <3> HIDE DEF r
    <3> QED BY <3>2, <3>3
  <2>5. ThreadOK(Returned(s))
    BY <1>2, <2>1, <2>3, <2>4 DEF ThreadOK, Decided
  <2> QED BY <2>1, <2>4, <2>5 DEF Calm
<1> QED BY <1>1, <1>2, Zenon DEF ThreadOK

\* Thread t calls the callout of a filter at the layer, outside the lock.
Classifies(t, r) ==
    /\ Moves(t, r) /\ r.pc = "classify"
    /\ next_flow_id' = next_flow_id + 1 /\ r.flow = next_flow_id + 1
    /\ r.callout \in DOMAIN fwps_callouts
    /\ \E f \in DOMAIN fwpm_filters :
         fwpm_filters[f].layer = r.layer /\ fwps_callouts[r.callout] = fwpm_filters[f].key

\* test_callout finds a filter and its callout, or neither.
LEMMA TestCallout ==
  ASSUME NEW t \in Threads, NEW s, NEW l, NEW sl, NEW unknown,
         test_callout(t, s, l, sl, unknown)
  PROVE  /\ UNCHANGED <<tables, fwpm_flow_contexts, attached, owned>>
         /\ \/ th' = [th EXCEPT ![t] = unknown] /\ UNCHANGED next_flow_id
            \/ \E c \in DOMAIN fwps_callouts :
                 /\ \E f \in DOMAIN fwpm_filters :
                      fwpm_filters[f].layer = l /\ fwps_callouts[c] = fwpm_filters[f].key
                 /\ next_flow_id' = next_flow_id + 1
                 /\ th' = [th EXCEPT ![t] = [s EXCEPT !.pc = "classify", !.layer = l,
                                              !.callout = c, !.flow = next_flow_id + 1]]
BY Zenon DEF test_callout, get_fwpm_filter_in_sublayer, get_fwpm_filter_with_context,
       get_callout_from_key, get_fwps_callout

\* A hook goes on, calmly, or to the call of a callout.
GoesOn(t) ==
    /\ th[t].pc \in Calm
    /\ UNCHANGED <<tables, fwpm_flow_contexts, attached, owned>>
    /\ \E r : \/ Moves(t, r) /\ r.pc \in Calm /\ UNCHANGED next_flow_id
              \/ Classifies(t, r)

\* The same for any record s of the hook and any record for a failing lookup.
LEMMA HookGoesOn ==
  ASSUME TablesInv, ThreadInv, NEW t \in Threads, th[t].pc \in Calm,
         NEW s \in ThreadStates, NEW l \in HookLayers, NEW sl,
         NEW unknown \in ThreadStates, ThreadOK(unknown), unknown.pc \in Calm,
         test_callout(t, s, l, sl, unknown),
         \/ s.hook = "single"
         \/ s.hook \in Connects /\ l = Redirect(s.hook)[1]
         \/ /\ s.hook \in Connects /\ l = Auth(s.hook)[1] /\ Decided(s)
            /\ s.seen = Parameters \/ (s.redirected /\ s.seen = Target(s.request))
  PROVE  GoesOn(t)
<1>1. UNCHANGED <<tables, fwpm_flow_contexts, attached, owned>>
  BY TestCallout, Zenon
<1>2. CASE th' = [th EXCEPT ![t] = unknown] /\ UNCHANGED next_flow_id
  BY <1>1, <1>2, Zenon DEF GoesOn, Moves
<1>3. ASSUME NEW c \in DOMAIN fwps_callouts,
             \E f \in DOMAIN fwpm_filters :
               fwpm_filters[f].layer = l /\ fwps_callouts[c] = fwpm_filters[f].key,
             next_flow_id' = next_flow_id + 1,
             th' = [th EXCEPT ![t] = [s EXCEPT !.pc = "classify", !.layer = l,
                                               !.callout = c, !.flow = next_flow_id + 1]]
      PROVE  GoesOn(t)
  <2>0. PICK f \in Nat : f = next_flow_id + 1
    <3>1. next_flow_id \in Nat
      BY IdTypes, Zenon
    <3> QED BY <3>1
  <2>1. c \in Nat
    BY IdTypes, Zenon
  <2> DEFINE r == [s EXCEPT !.pc = "classify", !.layer = l, !.callout = c, !.flow = f]
  <2>2. /\ r \in ThreadStates /\ r.pc = "classify" /\ r.layer = l /\ r.callout = c
        /\ r.flow = f /\ r.hook = s.hook /\ r.request = s.request
        /\ r.redirected = s.redirected /\ r.seen = s.seen
    BY <2>0, <2>1, Zenon DEF ThreadStates, Places
  <2>3. th' = [th EXCEPT ![t] = r]
    BY <1>3, <2>0
  <2> HIDE DEF r
  <2>4. ThreadOK(r)
    <3>1. CASE s.hook = "single"
      BY <2>2, <3>1, Zenon DEF ThreadOK, Connects
    <3>2. CASE s.hook \in Connects /\ l = Redirect(s.hook)[1]
      BY <2>2, <3>2, Zenon DEF ThreadOK
    <3>3. CASE /\ s.hook \in Connects /\ l = Auth(s.hook)[1] /\ Decided(s)
               /\ s.seen = Parameters \/ (s.redirected /\ s.seen = Target(s.request))
      BY <2>2, <3>3, Zenon DEF ThreadOK, Decided
    <3> QED BY <3>1, <3>2, <3>3
  <2>5. Classifies(t, r)
    BY <1>3, <2>0, <2>2, <2>3, <2>4, Zenon DEF Classifies, Moves
  <2> QED BY <1>1, <2>5, Zenon DEF GoesOn
<1>4. \/ th' = [th EXCEPT ![t] = unknown] /\ UNCHANGED next_flow_id
      \/ \E c \in DOMAIN fwps_callouts :
           /\ \E f \in DOMAIN fwpm_filters :
                fwpm_filters[f].layer = l /\ fwps_callouts[c] = fwpm_filters[f].key
           /\ next_flow_id' = next_flow_id + 1
           /\ th' = [th EXCEPT ![t] = [s EXCEPT !.pc = "classify", !.layer = l,
                                        !.callout = c, !.flow = next_flow_id + 1]]
  BY Zenon DEF test_callout, get_fwpm_filter_in_sublayer, get_fwpm_filter_with_context,
         get_callout_from_key, get_fwps_callout
<1> QED BY <1>2, <1>3, <1>4, Zenon

\* A hook with one callout.
LEMMA HookStep ==
  ASSUME TablesInv, ThreadInv, NEW t \in Threads, NEW l \in HookLayers, Hook(t, l)
  PROVE  GoesOn(t)
<1> DEFINE s == [Idle EXCEPT !.hook = "single"]
<1>1. th[t].pc \in Calm /\ test_callout(t, s, l, "default", Idle)
  BY DEF Hook, Calm
<1>2. s \in ThreadStates /\ s.hook = "single"
  BY SingleRecord
<1>3. Idle \in ThreadStates /\ ThreadOK(Idle) /\ Idle.pc \in Calm
  BY IdleType DEF Calm
<1> HIDE DEF s
<1> QED BY <1>1, <1>2, <1>3, HookGoesOn, Zenon

\* A connect hook, up to its redirect callout.
LEMMA ConnectStep ==
  ASSUME TablesInv, ThreadInv, NEW t \in Threads, NEW h \in Connects, Connect(t, h)
  PROVE  GoesOn(t)
<1>1. PICK q \in _allocate_and_initialize_connection_request :
        test_callout(t, [Idle EXCEPT !.hook = h, !.request = q], Redirect(h)[1], Redirect(h)[2],
                     [[Idle EXCEPT !.hook = h, !.request = q] EXCEPT !.pc = "redirected"])
  BY Zenon DEF Connect
<1>2. q \in Requests
  BY RequestType DEF _allocate_and_initialize_connection_request
<1> DEFINE s == [Idle EXCEPT !.hook = h, !.request = q]
           w == [s EXCEPT !.pc = "redirected"]
<1>3. s \in ThreadStates /\ s.hook = h /\ s.request = q
  BY <1>2, ConnectRecord, Zenon
<1>4. test_callout(t, s, Redirect(h)[1], Redirect(h)[2], w)
  BY <1>1
<1> HIDE DEF s
<1>5. w \in ThreadStates /\ w.pc = "redirected" /\ w.hook = s.hook
  <2>1. "redirected" \in Places
    BY DEF Places, Calm
  <2> QED BY <1>3, <2>1, PlaceRecord, Zenon
<1> HIDE DEF w
<1>6. ThreadOK(w) /\ w.pc \in Calm
  BY <1>3, <1>5 DEF ThreadOK, Calm
<1>7. th[t].pc \in Calm
  BY DEF Connect, Calm
<1> QED BY <1>3, <1>4, <1>5, <1>6, <1>7, LayerFacts, HookGoesOn, Zenon

\* A connect hook, up to its authorisation callout.
LEMMA ConnectAuthStep ==
  ASSUME TablesInv, ThreadInv, NEW t \in Threads, ConnectAuth(t)
  PROVE  GoesOn(t)
<1>a. PICK h, q, s0 : h = th[t].hook /\ q = th[t].request /\ s0 = th[t]
  OBVIOUS
<1> DEFINE again == s0.pc = "authorized"
           b == _is_connection_redirected(h, q)
           d == IF again THEN Target(q) ELSE Parameters
           s == [s0 EXCEPT !.redirected = b, !.seen = d]
           p == IF again THEN "reauthorized" ELSE "authorized"
           w == [s EXCEPT !.pc = p]
<1>1. test_callout(t, s, Auth(h)[1], Auth(h)[2], w)
  BY <1>a DEF ConnectAuth, Target
<1>2. s0 \in ThreadStates /\ ThreadOK(s0) /\ h = s0.hook /\ q = s0.request
  BY <1>a DEF ThreadInv
<1>3. s0.pc = "redirected" \/ (again /\ s0.redirected)
  BY <1>a DEF ConnectAuth
<1>4. th[t].pc \in Calm
  BY <1>a, <1>3 DEF Calm
<1>5. h \in Connects /\ q \in Requests /\ (again => Decided(s0))
  BY <1>2, <1>3 DEF ThreadOK, ThreadStates
<1>6. b \in BOOLEAN /\ d \in Destinations /\ (again => b)
  BY <1>2, <1>3, <1>5, RequestType DEF Decided, _is_connection_redirected
<1>7. /\ s \in ThreadStates /\ s.hook = h /\ s.request = q
      /\ s.redirected = b /\ s.seen = d
  <2> HIDE DEF b, d
  <2>1. /\ s \in ThreadStates /\ s.hook = s0.hook /\ s.request = s0.request
        /\ s.redirected = b /\ s.seen = d
    BY <1>2, <1>6, Zenon DEF ThreadStates
  <2> HIDE DEF s
  <2> QED BY <1>2, <2>1
<1>8. Decided(s) /\ (s.seen = Parameters \/ (s.redirected /\ s.seen = Target(s.request)))
  <2>1. Decided(s)
    <3> HIDE DEF s
    <3> QED BY <1>7 DEF Decided
  <2> HIDE DEF s, b
  <2> QED BY <1>6, <1>7, <2>1
<1> HIDE DEF s
<1>9. /\ w \in ThreadStates /\ w.pc = p /\ w.hook = s.hook /\ w.request = s.request
      /\ w.redirected = s.redirected /\ w.seen = s.seen
  <2>1. p \in Places
    BY DEF Places, Calm
  <2> HIDE DEF p
  <2> QED BY <1>7, <2>1, PlaceRecord, Zenon
<1>10. p = "reauthorized" => w.seen = Target(w.request)
  BY <1>7, <1>9
<1>11. p \in {"authorized", "reauthorized"}
  OBVIOUS
<1> HIDE DEF w, p, b, d
<1>12. ThreadOK(w) /\ w.pc \in Calm
  BY <1>5, <1>7, <1>8, <1>9, <1>10, <1>11 DEF ThreadOK, Calm, Decided
<1> QED BY <1>1, <1>4, <1>5, <1>7, <1>8, <1>9, <1>12, LayerFacts, HookGoesOn, Zenon

\* Every hook that looks for a callout is one of these.
LEMMA GoOnSteps ==
  ASSUME TablesInv, ThreadInv, NEW t \in Threads,
         \/ test_bind_ipv4(t) \/ test_bind_ipv6(t)
         \/ test_cgroup_inet4_recv_accept(t) \/ test_cgroup_inet6_recv_accept(t)
         \/ test_cgroup_inet4_connect(t) \/ test_cgroup_inet6_connect(t)
         \/ test_sock_ops_v4(t) \/ test_sock_ops_v6(t)
         \/ test_cgroup_inet4_listen(t) \/ test_cgroup_inet6_listen(t)
         \/ ConnectAuth(t)
  PROVE  GoesOn(t)
<1>1. \A l \in HookLayers : Hook(t, l) => GoesOn(t)
  BY HookStep
<1>2. \A h \in Connects : Connect(t, h) => GoesOn(t)
  BY ConnectStep
<1> QED BY <1>1, <1>2, ConnectAuthStep
       DEF test_bind_ipv4, test_bind_ipv6, test_cgroup_inet4_recv_accept,
           test_cgroup_inet6_recv_accept, test_cgroup_inet4_connect, test_cgroup_inet6_connect,
           test_sock_ops_v4, test_sock_ops_v6, test_cgroup_inet4_listen,
           test_cgroup_inet6_listen, HookLayers, Connects

\* A filter is added: its callout, which is registered, is about to be notified.
FilterAdded(t, r, o) ==
    /\ th[t].pc = "idle" /\ Moves(t, r)
    /\ r.pc = "notify add" /\ r.callout \in DOMAIN fwps_callouts /\ r.key \in Keys
    /\ o.key = r.key /\ next_id' = next_id + 1
    /\ fwpm_filters' = MapInsert(fwpm_filters, next_id, o)
    /\ UNCHANGED <<fwps_callouts, fwpm_callouts, fwpm_sub_layers, flows, attached, owned>>

\* FwpmFilterAdd0 adds a filter that way.
LEMMA FilterAddStep ==
  ASSUME TablesInv, ThreadInv, NEW t \in Threads, FwpmFilterAdd0(t)
  PROVE  \E r, o : FilterAdded(t, r, o)
<1>1. PICK i \in DOMAIN Plan, context \in BOOLEAN : add_fwpm_filter(t, Plan[i], context)
  BY DEF FwpmFilterAdd0
<1>2. PICK k : k = Plan[i].key
  OBVIOUS
<1> DEFINE o == [key |-> Plan[i].key, layer |-> Plan[i].layer,
                 sublayer |-> Plan[i].sublayer, context |-> context]
<1>3. /\ next_id' = next_id + 1 /\ fwpm_filters' = MapInsert(fwpm_filters, next_id, o)
      /\ UNCHANGED <<fwps_callouts, fwpm_callouts, fwpm_sub_layers, flows, attached, owned>>
  BY <1>1, Zenon DEF FwpmFilterAdd0, add_fwpm_filter, Insert
<1>4. o.key = k
  BY <1>2
<1>5. PICK c \in Untested(get_fwps_callout(k)) :
        th' = [th EXCEPT ![t].pc = "notify add", ![t].callout = c, ![t].key = k]
  BY <1>1, <1>2, Zenon DEF add_fwpm_filter
<1>6. k \in Keys /\ Registered = Keys
  BY <1>2, LoadedLayers, AllRegistered DEF FwpmFilterAdd0, Keys
<1>7. c \in DOMAIN fwps_callouts /\ c \in Nat
  BY <1>6, LookupFacts DEF TablesInv
<1>8. th[t] = Idle /\ th[t].pc = "idle" /\ th \in [Threads -> ThreadStates]
  BY IdleThread DEF FwpmFilterAdd0, ThreadInv
<1> DEFINE r == [Idle EXCEPT !.pc = "notify add", !.callout = c, !.key = k]
<1>9. r \in ThreadStates /\ ThreadOK(r) /\ r.pc = "notify add" /\ r.callout = c /\ r.key = k
  BY <1>6, <1>7, CallRecord, Zenon
<1>10. th' = [th EXCEPT ![t] = r]
  BY <1>5, <1>8, Zenon
<1> HIDE DEF r, o
<1> QED BY <1>3, <1>4, <1>6, <1>7, <1>8, <1>9, <1>10, Zenon DEF FilterAdded, Moves

\* A filter is deleted: its callout, which is registered, is about to be notified.
FilterDeleted(t, r, x) ==
    /\ th[t].pc = "idle" /\ Moves(t, r)
    /\ r.pc = "notify delete" /\ r.callout \in DOMAIN fwps_callouts /\ r.key \in Keys
    /\ x \in DOMAIN fwpm_filters /\ r.key = fwpm_filters[x].key
    /\ fwpm_filters' = Without(fwpm_filters, x)
    /\ UNCHANGED <<next_id, fwps_callouts, fwpm_callouts, fwpm_sub_layers, flows, attached, owned>>

\* FwpmFilterDeleteById0 deletes a filter that way.
LEMMA FilterDeleteStep ==
  ASSUME TablesInv, ThreadInv, NEW t \in Threads, FwpmFilterDeleteById0(t)
  PROVE  \E r, x : FilterDeleted(t, r, x)
<1>1. PICK x \in DOMAIN fwpm_filters : remove_fwpm_filter(t, x)
  BY Zenon DEF FwpmFilterDeleteById0
<1>2. PICK k : k = fwpm_filters[x].key
  OBVIOUS
<1>3. /\ fwpm_filters' = Without(fwpm_filters, x)
      /\ UNCHANGED <<next_id, fwps_callouts, fwpm_callouts, fwpm_sub_layers, flows, attached, owned>>
  BY <1>1, Zenon DEF FwpmFilterDeleteById0, remove_fwpm_filter
<1>5. PICK c \in Untested(get_fwps_callout(k)) :
        th' = [th EXCEPT ![t].pc = "notify delete", ![t].callout = c, ![t].key = k]
  BY <1>1, <1>2, Zenon DEF remove_fwpm_filter
<1>6. k \in Keys /\ Registered = Keys
  BY <1>1, <1>2, AllRegistered, PlannedKey DEF TablesInv
<1>7. c \in DOMAIN fwps_callouts /\ c \in Nat
  BY <1>6, LookupFacts DEF TablesInv
<1>8. th[t] = Idle /\ th[t].pc = "idle" /\ th \in [Threads -> ThreadStates]
  BY IdleThread, Zenon DEF FwpmFilterDeleteById0, ThreadInv
<1> DEFINE r == [Idle EXCEPT !.pc = "notify delete", !.callout = c, !.key = k]
<1>9. r \in ThreadStates /\ ThreadOK(r) /\ r.pc = "notify delete" /\ r.callout = c /\ r.key = k
  BY <1>6, <1>7, CallRecord, Zenon
<1>10. th' = [th EXCEPT ![t] = r]
  BY <1>5, <1>8, Zenon
<1> HIDE DEF r
<1> QED BY <1>2, <1>3, <1>6, <1>7, <1>8, <1>9, <1>10, Zenon DEF FilterDeleted, Moves

\* classify_test_packet calls a registered callout, with the lock held.
LEMMA PacketStep ==
  ASSUME TablesInv, ThreadInv, NEW t \in Threads, classify_test_packet(t)
  PROVE  /\ th[t].pc = "idle" /\ UNCHANGED <<tables, flows, attached, owned>>
         /\ \E r : Moves(t, r) /\ r.pc = "packet" /\ r.callout \in DOMAIN fwps_callouts
<1>1. PICK k \in get_callout_key_from_layer_guid("INBOUND_MAC") :
        \E c \in get_callout_from_key(k) :
          th' = [th EXCEPT ![t].pc = "packet", ![t].hook = "single", ![t].callout = c]
  BY Zenon DEF classify_test_packet
<1>2. PICK c \in get_callout_from_key(k) :
        th' = [th EXCEPT ![t].pc = "packet", ![t].hook = "single", ![t].callout = c]
  BY <1>1, Zenon
<1>3. c \in DOMAIN fwps_callouts /\ c \in Nat
  BY IdTypes, Zenon DEF get_callout_from_key, get_fwps_callout
<1>4. th[t] = Idle /\ th[t].pc = "idle" /\ th \in [Threads -> ThreadStates]
  BY IdleThread DEF classify_test_packet, ThreadInv
<1> DEFINE r == [Idle EXCEPT !.pc = "packet", !.hook = "single", !.callout = c]
<1>5. r \in ThreadStates /\ r.pc = "packet" /\ r.callout = c
  BY <1>3, IdleType, Zenon DEF ThreadStates, Places
<1>6. th' = [th EXCEPT ![t] = r]
  BY <1>2, <1>4, Zenon
<1> HIDE DEF r
<1>7. ThreadOK(r)
  BY <1>5, Zenon DEF ThreadOK
<1> QED BY <1>3, <1>4, <1>5, <1>6, <1>7, Zenon DEF classify_test_packet, Moves

\* Callout c is registered under a key that the plan has at layer l.
AtLayer(c, l) == \E i \in DOMAIN Plan : Plan[i].layer = l /\ Plan[i].key = fwps_callouts[c]

\* test_remove_flow_context takes the context of a flow and the callout of the
\* layer, which is registered.
LEMMA RemoveStep ==
  ASSUME TablesInv, ThreadInv, NEW t \in Threads, NEW l, test_remove_flow_context(t, l)
  PROVE  /\ th[t].pc = "idle" /\ UNCHANGED <<tables, flows, attached, owned>>
         /\ \E r : /\ Moves(t, r) /\ r.pc = "remove"
                   /\ r.callout \in DOMAIN fwps_callouts
                   /\ AtLayer(r.callout, l)
                   /\ r.flow \in DOMAIN fwpm_flow_contexts /\ SoleRemover(r.flow)
<1>1. PICK flow \in 2 .. next_flow_id, k \in get_callout_key_from_layer_guid(l) :
        \E c \in Untested(get_callout_id_from_key(k)) :
          /\ SoleRemover(flow) /\ flow \in DOMAIN fwpm_flow_contexts
          /\ th' = [th EXCEPT ![t].pc = "remove", ![t].flow = flow, ![t].callout = c]
  BY Zenon DEF test_remove_flow_context
<1>2. PICK c \in Untested(get_fwps_callout(k)) :
          /\ SoleRemover(flow) /\ flow \in DOMAIN fwpm_flow_contexts
          /\ th' = [th EXCEPT ![t].pc = "remove", ![t].flow = flow, ![t].callout = c]
  BY <1>1, Zenon DEF get_callout_id_from_key
<1>3. PICK id \in DOMAIN fwpm_callouts : fwpm_callouts[id].layer = l /\ fwpm_callouts[id].key = k
  BY Zenon DEF get_callout_key_from_layer_guid
<1>4. PICK i \in DOMAIN Plan : Plan[i].layer = l /\ Plan[i].key = k
  BY <1>3, Zenon DEF TablesInv, Planned
<1>5. k \in Keys /\ Registered = Keys
  BY <1>3, <1>4, AllRegistered, Zenon DEF Keys, Added
<1>6. c \in DOMAIN fwps_callouts /\ c \in Nat /\ fwps_callouts[c] = k
  <2>1. c \in DOMAIN fwps_callouts /\ fwps_callouts[c] = k
    BY <1>5, LookupFacts, Zenon
  <2> QED BY <2>1, IdTypes, Zenon
<1>7. flow \in Nat
  <2>1. next_flow_id \in Nat
    BY IdTypes, Zenon
  <2> QED BY <2>1
<1>8. th[t] = Idle /\ th[t].pc = "idle" /\ th \in [Threads -> ThreadStates]
  BY IdleThread DEF test_remove_flow_context, ThreadInv
<1> DEFINE r == [Idle EXCEPT !.pc = "remove", !.flow = flow, !.callout = c]
<1>9. r \in ThreadStates /\ ThreadOK(r) /\ r.pc = "remove" /\ r.flow = flow /\ r.callout = c
  BY <1>6, <1>7, IdleType, RemovalRecord, Zenon
<1>10. th' = [th EXCEPT ![t] = r]
  BY <1>2, <1>8, Zenon
<1> HIDE DEF r
<1>11. UNCHANGED <<tables, flows, attached, owned>>
  BY DEF test_remove_flow_context
<1>12. SoleRemover(r.flow) /\ r.flow \in DOMAIN fwpm_flow_contexts
  BY <1>2, <1>9
<1>13. AtLayer(r.callout, l)
  BY <1>4, <1>6, <1>9, Zenon DEF AtLayer
<1> QED BY <1>6, <1>8, <1>9, <1>10, <1>11, <1>12, <1>13, Zenon DEF Moves

\* classifyFn returns to its hook.
LEMMA ClassifyReturns ==
  ASSUME ThreadInv, NEW t \in Threads, classifyFn(t)
  PROVE  /\ th[t].pc \in {"packet", "classify"} /\ UNCHANGED <<tables, flows, attached, owned>>
         /\ \E r : Moves(t, r) /\ r.pc \in Calm
<1>0. PICK s : s = th[t]
  OBVIOUS
<1>1. s \in ThreadStates /\ ThreadOK(s)
  BY <1>0 DEF ThreadInv
<1>2. CASE th[t].pc = "packet" /\ th' = [th EXCEPT ![t] = Idle]
  BY <1>2, ReturnsIdle, IdleType, Zenon DEF classifyFn, Calm
<1>3. ASSUME th[t].pc = "classify", th' = [th EXCEPT ![t] = Returned(th[t])]
      PROVE  \E r : Moves(t, r) /\ r.pc \in Calm
  BY <1>0, <1>1, <1>3, ReturnedFacts, Zenon DEF Moves
<1>4. ASSUME th[t].pc = "classify",
             th[t].layer \in {Redirect(h)[1] : h \in {"connect4", "connect6"}},
             NEW q \in FwpsAcquireWritableLayerDataPointer0(th[t].request),
             th' = [th EXCEPT ![t] = Returned([th[t] EXCEPT !.request = q])]
      PROVE  \E r : Moves(t, r) /\ r.pc \in Calm
  <2>1. q \in Requests
    BY <1>0, <1>1, Zenon DEF FwpsAcquireWritableLayerDataPointer0, ThreadStates, Requests
  <2> DEFINE r == [s EXCEPT !.request = q]
  <2>2. r \in ThreadStates /\ r.pc = s.pc /\ r.hook = s.hook /\ r.layer = s.layer
    BY <1>1, <2>1, RequestRecord, Zenon
  <2>3. th' = [th EXCEPT ![t] = Returned(r)]
    BY <1>0, <1>4
  <2> HIDE DEF r
  <2>4. s.pc = "classify" /\ \E h \in Connects : s.layer = Redirect(h)[1]
    BY <1>0, <1>4 DEF Connects
  <2>5. ThreadOK(r)
    BY <1>1, <2>2, <2>4, LayerFacts DEF ThreadOK
  <2> QED BY <2>2, <2>3, <2>4, <2>5, ReturnedFacts, Zenon DEF Moves
<1>5. th[t].pc \in {"packet", "classify"} /\ UNCHANGED <<tables, flows, attached, owned>>
  BY DEF classifyFn
<1> QED BY <1>2, <1>3, <1>4, <1>5, Zenon DEF classifyFn

\* notifyFn, _free_connection_request and flowDeleteFn end their thread's call.
LEMMA IdleSteps ==
  ASSUME NEW t \in Threads, notifyFn(t) \/ _free_connection_request(t) \/ flowDeleteFn(t)
  PROVE  Moves(t, Idle) /\ Idle.pc \in Calm /\ UNCHANGED <<tables, flows>>
BY ReturnsIdle, IdleType, Zenon DEF notifyFn, _free_connection_request, flowDeleteFn, Calm

\* FwpsFlowAssociateContext0 returns to the hook as well.
LEMMA AssociateReturns ==
  ASSUME ThreadInv, NEW t \in Threads, FwpsFlowAssociateContext0(t)
  PROVE  \E r : Moves(t, r) /\ r.pc \in Calm
<1>1. th[t] \in ThreadStates /\ ThreadOK(th[t]) /\ th[t].pc = "classify"
  BY DEF ThreadInv, FwpsFlowAssociateContext0
<1>2. th' = [th EXCEPT ![t] = Returned(th[t])]
  BY DEF FwpsFlowAssociateContext0
<1> QED BY <1>1, <1>2, ReturnedFacts, Zenon DEF Moves

-----------------------------------------------------------------------------
(* The callouts that threads and flow contexts refer to.                   *)

Calling == {"notify add", "notify delete", "classify", "packet", "flow delete"}

\* CalloutValid with what it needs of the flow contexts: theirs are registered
\* callouts, and a thread that is removing a context finds it.
CalloutInv ==
    /\ \A t \in Threads : th[t].pc \in Calling \cup {"remove"}
                            => th[t].callout \in DOMAIN fwps_callouts
    /\ DOMAIN fwpm_flow_contexts \subseteq Nat
    /\ \A f \in DOMAIN fwpm_flow_contexts : fwpm_flow_contexts[f] \in DOMAIN fwps_callouts
    /\ \A t \in Threads : th[t].pc = "remove" => th[t].flow \in DOMAIN fwpm_flow_contexts
    /\ \A t, u \in Threads : /\ th[t].pc = "remove" /\ th[u].pc = "remove"
                             /\ th[t].flow = th[u].flow
                             => t = u

\* The context of flow f is taken out of the table by thread t, for the callout
\* it belongs to or the one that the thread found before; nobody else is removing it.
ContextTaken(t, r, f) ==
    /\ Moves(t, r) /\ r.pc = "flow delete" /\ r.flow = f
    /\ f \in DOMAIN fwpm_flow_contexts
    /\ fwpm_flow_contexts' = Without(fwpm_flow_contexts, f)
    /\ r.callout \in DOMAIN fwps_callouts
    /\ \/ th[t].pc = "idle" /\ r.callout = fwpm_flow_contexts[f]
       \/ th[t].pc = "remove" /\ r.callout = th[t].callout /\ f = th[t].flow
    /\ \A u \in Threads \ {t} : th[u].pc = "remove" => th[u].flow # f
    /\ UNCHANGED <<tables, next_flow_id, attached, owned>>

\* FwpsFlowRemoveContext0 and test_remove_flow_context take a context that way.
LEMMA TakeStep ==
  ASSUME TablesInv, ThreadInv, CalloutInv, ~Racing, NEW t \in Threads,
         FwpsFlowRemoveContext0(t) \/ RemoveFound(t)
  PROVE  \E r, f : ContextTaken(t, r, f)
<1>0. PICK s : s = th[t]
  OBVIOUS
<1>1. \E f, c : /\ f \in DOMAIN fwpm_flow_contexts /\ c \in DOMAIN fwps_callouts
                /\ delete_flow_context(t, f, c)
                /\ \/ th[t].pc = "idle" /\ c = fwpm_flow_contexts[f]
                   \/ th[t].pc = "remove" /\ c = th[t].callout /\ f = th[t].flow
                /\ \A u \in Threads \ {t} : th[u].pc = "remove" => th[u].flow # f
  <2>1. CASE FwpsFlowRemoveContext0(t)
    BY <2>1, Zenon DEF FwpsFlowRemoveContext0, SoleRemover, CalloutInv
  <2>2. CASE RemoveFound(t)
    BY <2>2 DEF RemoveFound, CalloutInv
  <2> QED BY <2>1, <2>2, Zenon
<1>2. PICK f, c : /\ f \in DOMAIN fwpm_flow_contexts /\ c \in DOMAIN fwps_callouts
                  /\ delete_flow_context(t, f, c)
                  /\ \/ th[t].pc = "idle" /\ c = fwpm_flow_contexts[f]
                     \/ th[t].pc = "remove" /\ c = th[t].callout /\ f = th[t].flow
                  /\ \A u \in Threads \ {t} : th[u].pc = "remove" => th[u].flow # f
  BY <1>1
<1>3. f \in Nat /\ c \in Nat
  BY <1>2, IdTypes, Zenon DEF CalloutInv
<1>4. th \in [Threads -> ThreadStates] /\ s \in ThreadStates
  BY <1>0 DEF ThreadInv
<1>5. th' = [th EXCEPT ![t].pc = "flow delete", ![t].flow = f, ![t].callout = c]
  BY <1>2, Zenon DEF delete_flow_context
<1> DEFINE r == [s EXCEPT !.pc = "flow delete", !.flow = f, !.callout = c]
<1>6. r \in ThreadStates /\ ThreadOK(r) /\ r.pc = "flow delete" /\ r.flow = f /\ r.callout = c
  <2>1. r \in ThreadStates /\ r.pc = "flow delete" /\ r.flow = f /\ r.callout = c
    BY <1>3, <1>4, Zenon DEF ThreadStates, Places
  <2> HIDE DEF r
  <2> QED BY <2>1, Zenon DEF ThreadOK
<1>7. th' = [th EXCEPT ![t] = r]
  BY <1>0, <1>4, <1>5, Zenon
<1> HIDE DEF r
<1> QED BY <1>2, <1>6, <1>7, Zenon DEF ContextTaken, Moves, delete_flow_context

\* A step of thread t that keeps the callouts and the flow contexts.
LEMMA CalloutsKept ==
  ASSUME ThreadInv, CalloutInv, NEW t \in Threads, NEW r, Moves(t, r), r.pc # "remove",
         r.pc \in Calling => r.callout \in DOMAIN fwps_callouts,
         UNCHANGED <<fwps_callouts, fwpm_flow_contexts>>
  PROVE  CalloutInv'
<1>1. th'[t] = r /\ \A u \in Threads \ {t} : th'[u] = th[u]
  BY ThreadMoves
<1> QED BY <1>1, Zenon DEF CalloutInv

\* The same, when the thread is to call nothing.
LEMMA CalloutsCalm ==
  ASSUME ThreadInv, CalloutInv, NEW t \in Threads, NEW r, Moves(t, r), r.pc \in Calm,
         UNCHANGED <<fwps_callouts, fwpm_flow_contexts>>
  PROVE  CalloutInv'
<1>1. r.pc \notin Calling /\ r.pc # "remove"
  BY Zenon DEF Calm, Calling
<1> QED BY <1>1, CalloutsKept, Zenon

\* CalloutInv through every step: callouts are taken away only when no thread is
\* at work and no flow has a context.
LEMMA CalloutStep ==
  ASSUME TablesInv, ThreadInv, CalloutInv, ~Racing, [Next]_vars
  PROVE  CalloutInv'
<1>1. CASE UNCHANGED <<th, flows>> /\ DOMAIN fwps_callouts \subseteq DOMAIN fwps_callouts'
  BY <1>1 DEF CalloutInv, flows
<1>2. CASE FwpsCalloutRegister3
  <2>1. DOMAIN fwps_callouts \subseteq DOMAIN fwps_callouts'
    BY <1>2 DEF FwpsCalloutRegister3, register_fwps_callout, Insert, MapInsert
  <2> QED BY <1>1, <1>2, <2>1 DEF FwpsCalloutRegister3
<1>3. CASE \/ FwpmCalloutAdd0 \/ FwpmSubLayerAdd0 \/ FwpmSubLayerDeleteByKey0
           \/ FwpmCalloutDeleteByKey0 \/ UNCHANGED vars
  <2>1. UNCHANGED <<th, flows, fwps_callouts>>
    BY <1>3, Zenon DEF FwpmCalloutAdd0, FwpmSubLayerAdd0, FwpmSubLayerDeleteByKey0,
                FwpmCalloutDeleteByKey0, add_fwpm_callout, add_fwpm_sub_layer,
                remove_fwpm_sub_layer, remove_fwpm_callout, vars, tables
  <2> QED BY <1>1, <2>1
<1>4. CASE FwpsCalloutUnregisterById0
  <2>1. /\ UNCHANGED <<th, fwpm_flow_contexts>> /\ DOMAIN fwpm_flow_contexts = {}
        /\ \A t \in Threads : th[t].pc = "idle"
    BY <1>4 DEF FwpsCalloutUnregisterById0, Quiet, flows
  <2> QED BY <2>1, Zenon DEF CalloutInv, Calling
<1>5. ASSUME NEW t \in Threads, FwpmFilterAdd0(t)
      PROVE  CalloutInv'
  <2>1. PICK r, o : FilterAdded(t, r, o)
    BY <1>5, FilterAddStep
  <2> QED BY <2>1, CalloutsKept, Zenon DEF FilterAdded, flows
<1>6. ASSUME NEW t \in Threads, FwpmFilterDeleteById0(t)
      PROVE  CalloutInv'
  <2>1. PICK r, x : FilterDeleted(t, r, x)
    BY <1>6, FilterDeleteStep
  <2> QED BY <2>1, CalloutsKept, Zenon DEF FilterDeleted, flows
<1>7. ASSUME NEW t \in Threads, GoesOn(t)
      PROVE  CalloutInv'
  <2>1. UNCHANGED <<fwps_callouts, fwpm_flow_contexts>>
    BY <1>7 DEF GoesOn, tables
  <2>2. PICK r : (Moves(t, r) /\ r.pc \in Calm) \/ Classifies(t, r)
    BY <1>7 DEF GoesOn
  <2> QED BY <2>1, <2>2, CalloutsCalm, CalloutsKept DEF Classifies
<1>8. ASSUME NEW t \in Threads, classify_test_packet(t)
      PROVE  CalloutInv'
  <2>1. PICK r : Moves(t, r) /\ r.pc = "packet" /\ r.callout \in DOMAIN fwps_callouts
    BY <1>8, PacketStep
  <2>2. UNCHANGED <<fwps_callouts, fwpm_flow_contexts>>
    BY <1>8, PacketStep DEF tables, flows
  <2> QED BY <2>1, <2>2, CalloutsKept
<1>9. ASSUME NEW t \in Threads, NEW l, test_remove_flow_context(t, l)
      PROVE  CalloutInv'
  <2>1. PICK r : /\ Moves(t, r) /\ r.pc = "remove" /\ r.callout \in DOMAIN fwps_callouts
                 /\ r.flow \in DOMAIN fwpm_flow_contexts /\ SoleRemover(r.flow)
    BY <1>9, RemoveStep, Zenon
  <2>2. UNCHANGED <<fwps_callouts, fwpm_flow_contexts>>
    BY <1>9, RemoveStep, Zenon DEF tables, flows
  <2>3. th'[t] = r /\ \A u \in Threads \ {t} : th'[u] = th[u]
    BY <2>1, ThreadMoves
  <2>4. \A u \in Threads : th'[u].pc \in Calling \cup {"remove"}
                             => th'[u].callout \in DOMAIN fwps_callouts'
    BY <2>1, <2>2, <2>3, Zenon DEF CalloutInv
  <2>5. \A u \in Threads : th'[u].pc = "remove" => th'[u].flow \in DOMAIN fwpm_flow_contexts'
    BY <2>1, <2>2, <2>3, Zenon DEF CalloutInv
  <2>6. \A u \in Threads \ {t} : th[u].pc = "remove" => th[u].flow # r.flow
    BY <2>1, Zenon DEF SoleRemover
  <2>7. \A u, v \in Threads : /\ th'[u].pc = "remove" /\ th'[v].pc = "remove"
                              /\ th'[u].flow = th'[v].flow
                              => u = v
    BY <2>3, <2>6, Zenon DEF CalloutInv
  <2> QED BY <2>2, <2>4, <2>5, <2>7, Zenon DEF CalloutInv
<1>10. ASSUME NEW t \in Threads, FwpsFlowRemoveContext0(t) \/ RemoveFound(t)
       PROVE  CalloutInv'
  <2>1. PICK r, f : ContextTaken(t, r, f)
    BY <1>10, TakeStep
  <2>2. th'[t] = r /\ \A u \in Threads \ {t} : th'[u] = th[u]
    BY <2>1, ThreadMoves, Zenon DEF ContextTaken
  <2>3. /\ DOMAIN fwpm_flow_contexts' = DOMAIN fwpm_flow_contexts \ {f}
        /\ \A g \in DOMAIN fwpm_flow_contexts' : fwpm_flow_contexts'[g] = fwpm_flow_contexts[g]
    BY <2>1, Zenon DEF ContextTaken, Without
  <2>4. r.pc = "flow delete" /\ r.callout \in DOMAIN fwps_callouts /\ fwps_callouts' = fwps_callouts
    BY <2>1, Zenon DEF ContextTaken, tables
  <2>5. \A u \in Threads \ {t} : th[u].pc = "remove" => th[u].flow # f
    BY <2>1, Zenon DEF ContextTaken
  <2>6. \A u \in Threads : th'[u].pc = "remove" => u # t /\ th'[u] = th[u]
    BY <2>2, <2>4, Zenon
  <2>7. \A u \in Threads : th'[u].pc \in Calling \cup {"remove"}
                             => th'[u].callout \in DOMAIN fwps_callouts'
    BY <2>2, <2>4, Zenon DEF CalloutInv
  <2>8. \A u \in Threads : th'[u].pc = "remove" => th'[u].flow \in DOMAIN fwpm_flow_contexts'
    BY <2>3, <2>5, <2>6, Zenon DEF CalloutInv
  <2>9. /\ DOMAIN fwpm_flow_contexts' \subseteq Nat
        /\ \A g \in DOMAIN fwpm_flow_contexts' : fwpm_flow_contexts'[g] \in DOMAIN fwps_callouts'
    BY <2>3, <2>4, Zenon DEF CalloutInv
  <2>10. \A u, v \in Threads : /\ th'[u].pc = "remove" /\ th'[v].pc = "remove"
                               /\ th'[u].flow = th'[v].flow
                               => u = v
    BY <2>6, Zenon DEF CalloutInv
  <2> QED BY <2>7, <2>8, <2>9, <2>10, Zenon DEF CalloutInv
<1>11. ASSUME NEW t \in Threads, classifyFn(t)
       PROVE  CalloutInv'
  BY <1>11, ClassifyReturns, CalloutsCalm DEF tables, flows
<1>12. ASSUME NEW t \in Threads,
              notifyFn(t) \/ _free_connection_request(t) \/ flowDeleteFn(t)
       PROVE  CalloutInv'
  BY <1>12, IdleSteps, CalloutsCalm DEF tables, flows
<1>13. ASSUME NEW t \in Threads, FwpsFlowAssociateContext0(t)
       PROVE  CalloutInv'
  <2>1. PICK r : Moves(t, r) /\ r.pc \in Calm
    BY <1>13, AssociateReturns
  <2>2. th'[t] = r /\ \A u \in Threads \ {t} : th'[u] = th[u]
    BY <2>1, ThreadMoves
  <2>3. /\ th[t].pc = "classify" /\ fwps_callouts' = fwps_callouts
        /\ fwpm_flow_contexts' = MapInsert(fwpm_flow_contexts, th[t].flow, th[t].callout)
    BY <1>13 DEF FwpsFlowAssociateContext0, tables
  <2>4. th[t].flow \in Nat /\ th[t].callout \in DOMAIN fwps_callouts
    BY <2>3, Zenon DEF ThreadInv, ThreadStates, CalloutInv, Calling
  <2>5. /\ DOMAIN fwpm_flow_contexts' = DOMAIN fwpm_flow_contexts \cup {th[t].flow}
        /\ \A g \in DOMAIN fwpm_flow_contexts' :
             fwpm_flow_contexts'[g] \in {th[t].callout} \cup {fwpm_flow_contexts[x] : x \in DOMAIN fwpm_flow_contexts}
    BY <2>3 DEF MapInsert
  <2>6. r.pc \notin Calling /\ r.pc # "remove"
    BY <2>1, Zenon DEF Calm, Calling
  <2>7. \A u \in Threads : th'[u].pc \in Calling \cup {"remove"} => u # t /\ th'[u] = th[u]
    BY <2>2, <2>6, Zenon
  <2>8. /\ DOMAIN fwpm_flow_contexts' \subseteq Nat
        /\ \A g \in DOMAIN fwpm_flow_contexts' : fwpm_flow_contexts'[g] \in DOMAIN fwps_callouts'
    BY <2>3, <2>4, <2>5, Zenon DEF CalloutInv
  <2>9. \A u \in Threads : th'[u].pc \in Calling \cup {"remove"}
                             => th'[u].callout \in DOMAIN fwps_callouts'
    BY <2>3, <2>7, Zenon DEF CalloutInv
  <2>10. \A u \in Threads : th'[u].pc = "remove"
                              => u # t /\ th'[u] = th[u]
                                 /\ th'[u].flow \in DOMAIN fwpm_flow_contexts'
    BY <2>5, <2>7, Zenon DEF CalloutInv
  <2>11. \A u, v \in Threads : /\ th'[u].pc = "remove" /\ th'[v].pc = "remove"
                               /\ th'[u].flow = th'[v].flow
                               => u = v
    BY <2>10, Zenon DEF CalloutInv
  <2> QED BY <2>8, <2>9, <2>10, <2>11, Zenon DEF CalloutInv
<1>14. ASSUME NEW t \in Threads, Begin(t) \/ Continue(t)
       PROVE  CalloutInv'
  BY <1>5, <1>6, <1>7, <1>8, <1>9, <1>10, <1>11, <1>12, <1>13, <1>14, GoOnSteps
     DEF Begin, Continue, test_sock_ops_v4_remove_flow_context,
         test_sock_ops_v6_remove_flow_context
<1> QED BY <1>2, <1>3, <1>4, <1>14 DEF Next, Driver

-----------------------------------------------------------------------------
(* Tables and threads through every step, and the theorems about hooks.    *)

FlowTypes == \A f \in DOMAIN fwpm_flow_contexts : f \in Nat /\ fwpm_flow_contexts[f] \in Nat

BaseInv == TablesInv /\ ThreadInv /\ FlowTypes

\* delete_flow_context, whoever calls it and whatever the others do.
LEMMA DeleteStep ==
  ASSUME BaseInv, NEW t \in Threads, FwpsFlowRemoveContext0(t) \/ RemoveFound(t)
  PROVE  /\ th[t].pc \in {"idle", "remove"}
         /\ UNCHANGED <<tables, next_flow_id, attached, owned>>
         /\ \E f : fwpm_flow_contexts' = Without(fwpm_flow_contexts, f)
         /\ \E r : Moves(t, r) /\ r.pc = "flow delete"
<1>0. PICK s : s = th[t]
  OBVIOUS
<1>1. th \in [Threads -> ThreadStates] /\ s \in ThreadStates
  BY <1>0 DEF BaseInv, ThreadInv
<1>2. \E f, c \in Nat : delete_flow_context(t, f, c)
  <2>1. CASE FwpsFlowRemoveContext0(t)
    BY <2>1 DEF FwpsFlowRemoveContext0, BaseInv, FlowTypes
  <2>2. CASE RemoveFound(t)
    <3>1. th[t].flow \in Nat /\ th[t].callout \in Nat
      BY <1>0, <1>1 DEF ThreadStates
    <3> QED BY <2>2, <3>1 DEF RemoveFound
  <2> QED BY <2>1, <2>2
<1>3. PICK f \in Nat, c \in Nat : delete_flow_context(t, f, c)
  BY <1>2
<1>4. PICK d \in Nat : d = IF f \in DOMAIN fwpm_flow_contexts THEN c ELSE NoCallout
  BY DEF NoCallout
<1>5. th' = [th EXCEPT ![t].pc = "flow delete", ![t].flow = f, ![t].callout = d]
  BY <1>3, <1>4, Zenon DEF delete_flow_context
<1> DEFINE r == [s EXCEPT !.pc = "flow delete", !.flow = f, !.callout = d]
<1>6. r \in ThreadStates /\ ThreadOK(r) /\ r.pc = "flow delete"
  <2>1. r \in ThreadStates /\ r.pc = "flow delete"
    BY <1>1, Zenon DEF ThreadStates, Places
  <2> HIDE DEF r
  <2> QED BY <2>1, Zenon DEF ThreadOK
<1>7. th' = [th EXCEPT ![t] = r]
  BY <1>0, <1>1, <1>5, Zenon
<1> HIDE DEF r
<1>8. th[t].pc \in {"idle", "remove"}
  BY DEF FwpsFlowRemoveContext0, RemoveFound
<1> QED BY <1>3, <1>6, <1>7, <1>8, Zenon DEF Moves, delete_flow_context

\* A step that leaves the tables alone.
LEMMA TablesKept ==
  ASSUME TablesInv, UNCHANGED tables, next_flow_id' \in Nat
  PROVE  TablesInv'
BY DEF TablesInv, tables, Registered, Added, Layered

\* A step of thread t that leaves the tables and the flow contexts alone.
LEMMA BaseKept ==
  ASSUME BaseInv, NEW t \in Threads, NEW r, Moves(t, r), UNCHANGED <<tables, fwpm_flow_contexts>>,
         next_flow_id' \in Nat
  PROVE  BaseInv'
BY TablesKept, ThreadMoves DEF BaseInv, FlowTypes

\* What a thread does to the tables and to its own state.
LEMMA BaseThread ==
  ASSUME BaseInv, NEW t \in Threads, Begin(t) \/ Continue(t)
  PROVE  BaseInv'
<1>1. TablesInv /\ ThreadInv /\ FlowTypes /\ next_flow_id \in Nat
  BY Zenon DEF BaseInv, TablesInv
<1>2. CASE FwpmFilterAdd0(t)
  <2>1. PICK r, o : FilterAdded(t, r, o)
    BY <1>1, <1>2, FilterAddStep
  <2>2. ThreadInv' /\ fwpm_flow_contexts' = fwpm_flow_contexts
    BY <1>1, <2>1, ThreadMoves, Zenon DEF FilterAdded, flows
  <2> QED BY <1>1, <1>2, <2>2, FilterAddTables DEF BaseInv, FlowTypes
<1>3. CASE FwpmFilterDeleteById0(t)
  <2>1. PICK r, x : FilterDeleted(t, r, x)
    BY <1>1, <1>3, FilterDeleteStep
  <2>2. ThreadInv' /\ fwpm_flow_contexts' = fwpm_flow_contexts
    BY <1>1, <2>1, ThreadMoves, Zenon DEF FilterDeleted, flows
  <2> QED BY <1>1, <1>3, <2>2, FilterDeleteTables DEF BaseInv, FlowTypes
<1>4. CASE GoesOn(t)
  <2>1. PICK r : Moves(t, r) /\ (UNCHANGED next_flow_id \/ next_flow_id' = next_flow_id + 1)
    BY <1>4 DEF GoesOn, Classifies
  <2> QED BY <1>1, <1>4, <2>1, BaseKept DEF GoesOn
<1>5. CASE classify_test_packet(t)
  BY <1>1, <1>5, PacketStep, BaseKept DEF flows
<1>6. ASSUME NEW l, test_remove_flow_context(t, l)
      PROVE  BaseInv'
  BY <1>1, <1>6, RemoveStep, BaseKept DEF flows
<1>7. CASE classifyFn(t)
  BY <1>1, <1>7, ClassifyReturns, BaseKept DEF flows
<1>8. CASE notifyFn(t) \/ _free_connection_request(t) \/ flowDeleteFn(t)
  BY <1>1, <1>8, IdleSteps, BaseKept DEF flows
<1>9. CASE FwpsFlowRemoveContext0(t) \/ RemoveFound(t)
  <2>1. PICK r : Moves(t, r)
    BY <1>9, DeleteStep, Zenon
  <2>2. PICK f : fwpm_flow_contexts' = Without(fwpm_flow_contexts, f)
    BY <1>9, DeleteStep, Zenon
  <2>3. UNCHANGED <<tables, next_flow_id>>
    BY <1>9, DeleteStep, Zenon
  <2>4. FlowTypes'
    BY <1>1, <2>2 DEF FlowTypes, Without
  <2> QED BY <1>1, <2>1, <2>3, <2>4, TablesKept, ThreadMoves DEF BaseInv
<1>10. CASE FwpsFlowAssociateContext0(t)
  <2>1. PICK r : Moves(t, r)
    BY <1>1, <1>10, AssociateReturns
  <2>2. /\ UNCHANGED <<tables, next_flow_id>>
        /\ fwpm_flow_contexts' = MapInsert(fwpm_flow_contexts, th[t].flow, th[t].callout)
    BY <1>10 DEF FwpsFlowAssociateContext0
  <2>3. th[t].flow \in Nat /\ th[t].callout \in Nat
    BY <1>1 DEF ThreadInv, ThreadStates
  <2>4. FlowTypes'
    BY <1>1, <2>2, <2>3 DEF FlowTypes, MapInsert
  <2> QED BY <1>1, <2>1, <2>2, <2>4, TablesKept, ThreadMoves, Zenon DEF BaseInv
<1> QED BY <1>1, <1>2, <1>3, <1>4, <1>5, <1>6, <1>7, <1>8, <1>9, <1>10, GoOnSteps
        DEF Begin, Continue, test_sock_ops_v4_remove_flow_context,
            test_sock_ops_v6_remove_flow_context

\* The driver's own calls leave the threads and the flows alone.
LEMMA DriverKeeps ==
  ASSUME Driver
  PROVE  UNCHANGED <<th, flows, attached, owned, fwpm_filters>>
BY Zenon DEF Driver, FwpsCalloutRegister3, FwpmCalloutAdd0, FwpmSubLayerAdd0,
       FwpmSubLayerDeleteByKey0, FwpmCalloutDeleteByKey0, FwpsCalloutUnregisterById0,
       register_fwps_callout, add_fwpm_callout, add_fwpm_sub_layer, remove_fwpm_sub_layer,
       remove_fwpm_callout, remove_fwps_callout

\* BaseInv through every step.
LEMMA BaseStep ==
  ASSUME BaseInv, [Next]_vars
  PROVE  BaseInv'
<1>1. CASE Driver
  <2>1. TablesInv'
    BY <1>1, RegisterTables, CalloutAddTables, SubLayerAddTables, SubLayerDeleteTables,
       CalloutDeleteTables, UnregisterTables DEF BaseInv, Driver
  <2>2. UNCHANGED <<th, fwpm_flow_contexts>>
    BY <1>1, DriverKeeps DEF flows
  <2> QED BY <2>1, <2>2 DEF BaseInv, ThreadInv, FlowTypes
<1>2. CASE UNCHANGED vars
  <2>1. UNCHANGED <<tables, th, fwpm_flow_contexts, next_flow_id>>
    BY <1>2 DEF vars, flows
  <2>2. TablesInv'
    BY <2>1, TablesKept, Zenon DEF BaseInv, TablesInv
  <2> QED BY <2>1, <2>2 DEF BaseInv, ThreadInv, FlowTypes
<1> QED BY <1>1, <1>2, BaseThread DEF Next

\* BaseInv at the start.
LEMMA BaseInit ==
  ASSUME Init
  PROVE  BaseInv
<1>1. ThreadInv
  BY IdleType DEF Init, ThreadInv
<1> QED BY <1>1, TablesInit DEF BaseInv, FlowTypes, Init

\* BaseInv holds throughout.
LEMMA BaseAlways == Spec => []BaseInv
BY BaseInit, BaseStep, PTL DEF Spec

\* Every connection request is released by the connect hook that made it: a
\* thread that is in no hook has none (fwp_um.cpp 45).
THEOREM RequestsScoped == Spec => []RequestScoped
<1>1. BaseInv => RequestScoped
  <2>1. Idle.request = NoRequest
    BY DEF Idle
  <2> QED BY <2>1, Zenon DEF BaseInv, ThreadInv, ThreadOK, RequestScoped
<1> QED BY <1>1, BaseAlways, PTL

\* A connection that the redirect callout has moved to another port and another
\* address was last authorised for that destination when its hook returns.
THEOREM RedirectsAuthorized == Spec => []RedirectAuthorized
<1>1. ASSUME BaseInv, NEW t \in Threads,
             th[t].pc = "reauthorized" \/ (th[t].pc = "authorized" /\ ~th[t].redirected),
             th[t].request.port = <<"proxy", TRUE>>, th[t].request.address = "proxy"
      PROVE  th[t].seen = [port |-> <<"proxy", FALSE>>, address |-> "proxy"]
  <2>1. ThreadOK(th[t]) /\ th[t] \in ThreadStates
    BY <1>1 DEF BaseInv, ThreadInv
  <2>2. CASE th[t].pc = "reauthorized"
    <3>1. th[t].seen = Target(th[t].request)
      BY <2>1, <2>2, Zenon DEF ThreadOK
    <3>2. Swap(<<"proxy", TRUE>>) = <<"proxy", FALSE>>
      BY Zenon DEF Swap
    <3> QED BY <1>1, <3>1, <3>2, Zenon DEF Target
  <2>3. CASE th[t].pc = "authorized" /\ ~th[t].redirected
    <3>1. ~_is_connection_redirected(th[t].hook, th[t].request)
      BY <2>1, <2>3, Zenon DEF ThreadOK, Decided
    <3>2. th[t].request # NoRequest
      BY <1>1 DEF NoRequest
    <3>3. th[t].request.port # Parameters.port /\ th[t].request.address # Parameters.address
      BY <1>1 DEF Parameters
    <3> QED BY <3>1, <3>2, <3>3, Zenon DEF _is_connection_redirected
  <2> QED BY <1>1, <2>2, <2>3
<1>2. BaseInv => RedirectAuthorized
  BY <1>1, Zenon DEF RedirectAuthorized
<1> QED BY <1>2, BaseAlways, PTL

\* Unless two calls remove the context of one flow at once, every callout that a
\* thread calls outside the lock is registered (fwp_um.h 114-126, 141-147, 162-174).
THEOREM CalloutsAlwaysValid == ~Racing => (Spec => []CalloutValid)
<1> SUFFICES ASSUME ~Racing PROVE Spec => []CalloutValid
  OBVIOUS
<1>1. Init => CalloutInv
  <2> SUFFICES ASSUME Init PROVE CalloutInv
    OBVIOUS
  <2>1. /\ \A t \in Threads : th[t].pc = "idle"
        /\ DOMAIN fwpm_flow_contexts = {}
    BY IdleType DEF Init
  <2> QED BY <2>1, Zenon DEF CalloutInv, Calling
<1>2. CalloutInv => CalloutValid
  BY Zenon DEF CalloutInv, CalloutValid, Calling
<1>3. BaseInv /\ CalloutInv /\ [Next]_vars => CalloutInv'
  BY CalloutStep DEF BaseInv
<1> QED BY <1>1, <1>2, <1>3, BaseAlways, PTL DEF Spec

-----------------------------------------------------------------------------
(* The flow contexts.                                                      *)

\* The driver has one callout that associates flow contexts: with two, one at each
\* layer, test_sock_ops_v6_remove_flow_context would hand a context of the first
\* callout to the second.
FlowKeys == {Plan[i].key : i \in {j \in DOMAIN Plan : Plan[j].layer \in FlowLayers}}
OneFlowCallout == \A k, l \in FlowKeys : k = l

\* The flow of a thread in flight is not in the table of contexts.
InFlight == {"classify", "flow delete"}
Held == {<<fwpm_flow_contexts[f], f>> : f \in DOMAIN fwpm_flow_contexts}
Deleting == {t \in Threads : th[t].pc = "flow delete"}
GoingBack == {<<th[t].callout, th[t].flow>> : t \in Deleting}

FlowInv ==
    /\ \A f \in DOMAIN fwpm_flow_contexts :
         f <= next_flow_id /\ fwps_callouts[fwpm_flow_contexts[f]] \in FlowKeys
    /\ \A t \in Threads : th[t].pc \in InFlight
                            => /\ th[t].flow \notin DOMAIN fwpm_flow_contexts
                               /\ th[t].flow <= next_flow_id
    /\ \A t, u \in Threads : /\ th[t].pc \in InFlight /\ th[u].pc \in InFlight
                             /\ th[t].flow = th[u].flow
                             => t = u
    /\ \A t \in Threads : th[t].pc = "classify" /\ th[t].layer \in FlowLayers
                            => fwps_callouts[th[t].callout] \in FlowKeys
    /\ \A t \in Threads : th[t].pc = "remove" => th[t].callout = fwpm_flow_contexts[th[t].flow]
    /\ owned = Held \cup GoingBack

\* A thread goes on, on flows of its own or on none.
LEMMA FlowKept ==
  ASSUME ThreadInv, FlowInv, NEW t \in Threads, NEW r, Moves(t, r),
         th[t].pc # "flow delete", r.pc \notin InFlight, r.pc # "remove",
         UNCHANGED <<fwps_callouts, fwpm_flow_contexts, next_flow_id, owned>>
  PROVE  FlowInv'
<1>1. th'[t] = r /\ \A u \in Threads \ {t} : th'[u] = th[u]
  BY ThreadMoves, Zenon
<1>2. Held' = Held
  BY Zenon DEF Held
<1>3. Deleting' = Deleting /\ \A u \in Deleting : th'[u] = th[u]
  BY <1>1, Zenon DEF Deleting, InFlight
<1>4. GoingBack' = GoingBack
  BY <1>3, Zenon DEF GoingBack
<1> QED BY <1>1, <1>2, <1>4, Zenon DEF FlowInv, InFlight

\* The same, when the thread is to call nothing.
LEMMA FlowCalm ==
  ASSUME ThreadInv, FlowInv, NEW t \in Threads, NEW r, Moves(t, r),
         th[t].pc # "flow delete", r.pc \in Calm,
         UNCHANGED <<tables, flows, owned>>
  PROVE  FlowInv'
<1>1. r.pc \notin InFlight /\ r.pc # "remove"
  BY Zenon DEF Calm, InFlight
<1> QED BY <1>1, FlowKept, Zenon DEF tables, flows

\* A hook takes a new flow for the callout that it calls.
LEMMA FlowClassifies ==
  ASSUME BaseInv, FlowInv, NEW t \in Threads, NEW r, th[t].pc \in Calm, Classifies(t, r),
         UNCHANGED <<tables, fwpm_flow_contexts, attached, owned>>
  PROVE  FlowInv'
<1>1. th'[t] = r /\ \A u \in Threads \ {t} : th'[u] = th[u]
  BY ThreadMoves DEF Classifies, BaseInv
<1>2. next_flow_id \in Nat /\ next_flow_id' = next_flow_id + 1 /\ r.flow = next_flow_id + 1
  BY DEF BaseInv, TablesInv, Classifies
<1>3. r.pc = "classify" /\ fwps_callouts' = fwps_callouts
  BY DEF Classifies, tables
<1>4. ASSUME r.layer \in FlowLayers
      PROVE  fwps_callouts[r.callout] \in FlowKeys
  <2>1. PICK f \in DOMAIN fwpm_filters :
          fwpm_filters[f].layer = r.layer /\ fwps_callouts[r.callout] = fwpm_filters[f].key
    BY DEF Classifies
  <2>2. PICK i \in DOMAIN Plan :
          fwpm_filters[f].key = Plan[i].key /\ fwpm_filters[f].layer = Plan[i].layer
    BY Zenon DEF BaseInv, TablesInv, Planned
  <2> QED BY <1>4, <2>1, <2>2 DEF FlowKeys
<1>5. Held' = Held
  BY Zenon DEF Held
<1>6. Deleting' = Deleting /\ \A u \in Deleting : th'[u] = th[u]
  BY <1>1, <1>3, Zenon DEF Deleting, Calm
<1>7. GoingBack' = GoingBack
  BY <1>6 DEF GoingBack
<1>8. \A f \in DOMAIN fwpm_flow_contexts : f \in Nat /\ f <= next_flow_id
  BY Zenon DEF BaseInv, FlowTypes, FlowInv
<1>9. \A u \in Threads : th[u].flow \in Nat
  BY DEF BaseInv, ThreadInv, ThreadStates
<1>a. /\ \A f \in DOMAIN fwpm_flow_contexts : f <= next_flow_id' /\ f # r.flow
      /\ \A f \in Nat : f <= next_flow_id => f <= next_flow_id' /\ f # r.flow
      /\ r.flow <= next_flow_id'
  BY <1>2, <1>8
<1>b. \A u \in Threads : th[u].pc \in InFlight
                            => /\ th[u].flow \notin DOMAIN fwpm_flow_contexts
                               /\ th[u].flow <= next_flow_id' /\ th[u].flow # r.flow
  BY <1>9, <1>a, Zenon DEF FlowInv
<1>c. fwpm_flow_contexts' = fwpm_flow_contexts
  OBVIOUS
<1>10. \A u \in Threads : th'[u].pc \in InFlight
                            => /\ th'[u].flow \notin DOMAIN fwpm_flow_contexts'
                               /\ th'[u].flow <= next_flow_id'
  BY <1>1, <1>a, <1>b, <1>c, Zenon
<1>11. \A u \in Threads \ {t} : th'[u].pc \in InFlight => th'[u].flow # r.flow
  BY <1>1, <1>b, Zenon
<1>12. \A u, v \in Threads : /\ th'[u].pc \in InFlight /\ th'[v].pc \in InFlight
                             /\ th'[u].flow = th'[v].flow
                             => u = v
  BY <1>1, <1>11, Zenon DEF FlowInv
<1>13. \A f \in DOMAIN fwpm_flow_contexts' :
         f <= next_flow_id' /\ fwps_callouts'[fwpm_flow_contexts'[f]] \in FlowKeys
  BY <1>3, <1>a, <1>c, Zenon DEF FlowInv
<1>14. \A u \in Threads : th'[u].pc = "classify" /\ th'[u].layer \in FlowLayers
                            => fwps_callouts'[th'[u].callout] \in FlowKeys
  BY <1>1, <1>3, <1>4, Zenon DEF FlowInv
<1>15. \A u \in Threads : th'[u].pc = "remove"
                            => th'[u].callout = fwpm_flow_contexts'[th'[u].flow]
  BY <1>1, <1>3, Zenon DEF FlowInv
<1>16. owned' = Held' \cup GoingBack'
  BY <1>5, <1>7, Zenon DEF FlowInv
<1> QED BY <1>10, <1>12, <1>13, <1>14, <1>15, <1>16, Zenon DEF FlowInv

\* test_remove_flow_context finds the callout that the context belongs to: there
\* is one callout at the flow layers.
LEMMA FlowFound ==
  ASSUME BaseInv, CalloutInv, FlowInv, OneFlowCallout, NEW t \in Threads, NEW l \in FlowLayers,
         test_remove_flow_context(t, l)
  PROVE  FlowInv'
<1>0. TablesInv /\ ThreadInv
  BY DEF BaseInv
<1>1. PICK r : /\ Moves(t, r) /\ r.pc = "remove" /\ r.callout \in DOMAIN fwps_callouts
               /\ AtLayer(r.callout, l)
               /\ r.flow \in DOMAIN fwpm_flow_contexts /\ SoleRemover(r.flow)
  BY <1>0, RemoveStep, Zenon
<1>2. th[t].pc = "idle" /\ UNCHANGED <<fwps_callouts, fwpm_flow_contexts, next_flow_id, owned>>
  BY <1>0, RemoveStep, Zenon DEF tables, flows
<1>3. th'[t] = r /\ \A u \in Threads \ {t} : th'[u] = th[u]
  BY <1>0, <1>1, ThreadMoves
<1>4. fwps_callouts[r.callout] \in FlowKeys
  BY <1>1 DEF FlowKeys, AtLayer
<1>5. /\ fwps_callouts[fwpm_flow_contexts[r.flow]] \in FlowKeys
      /\ fwpm_flow_contexts[r.flow] \in DOMAIN fwps_callouts
  BY <1>1, Zenon DEF FlowInv, CalloutInv
<1>6. r.callout = fwpm_flow_contexts[r.flow]
  BY <1>0, <1>1, <1>4, <1>5, Zenon DEF TablesInv, OneFlowCallout
<1>7. Held' = Held
  BY <1>2 DEF Held
<1>8. Deleting' = Deleting /\ \A u \in Deleting : th'[u] = th[u]
  BY <1>1, <1>2, <1>3, Zenon DEF Deleting
<1>9. GoingBack' = GoingBack
  BY <1>8 DEF GoingBack
<1>10. \A u \in Threads : th'[u].pc \in InFlight => u # t /\ th'[u] = th[u]
  BY <1>1, <1>3, Zenon DEF InFlight
<1>11. \A u \in Threads : th'[u].pc = "remove"
                            => th'[u].callout = fwpm_flow_contexts'[th'[u].flow]
  BY <1>2, <1>3, <1>6, Zenon DEF FlowInv
<1>12. \A u \in Threads : th'[u].pc = "classify" /\ th'[u].layer \in FlowLayers
                            => fwps_callouts'[th'[u].callout] \in FlowKeys
  BY <1>2, <1>10, Zenon DEF FlowInv, InFlight
<1>13. owned' = Held' \cup GoingBack'
  BY <1>2, <1>7, <1>9, Zenon DEF FlowInv
<1>14. \A u, v \in Threads : /\ th'[u].pc \in InFlight /\ th'[v].pc \in InFlight
                             /\ th'[u].flow = th'[v].flow
                             => u = v
  BY <1>10, Zenon DEF FlowInv
<1> QED BY <1>2, <1>10, <1>11, <1>12, <1>13, <1>14, Zenon DEF FlowInv

\* A context that is taken out of the table goes back to the callout it belongs to.
LEMMA FlowTaken ==
  ASSUME BaseInv, CalloutInv, FlowInv, NEW t \in Threads, NEW r, NEW f, ContextTaken(t, r, f)
  PROVE  FlowInv'
<1>1. th'[t] = r /\ \A u \in Threads \ {t} : th'[u] = th[u]
  BY ThreadMoves, Zenon DEF ContextTaken, BaseInv
<1>2. /\ DOMAIN fwpm_flow_contexts' = DOMAIN fwpm_flow_contexts \ {f}
      /\ \A g \in DOMAIN fwpm_flow_contexts' : fwpm_flow_contexts'[g] = fwpm_flow_contexts[g]
  BY Zenon DEF ContextTaken, Without
<1>3. /\ r.pc = "flow delete" /\ r.flow = f /\ f \in DOMAIN fwpm_flow_contexts
      /\ UNCHANGED <<fwps_callouts, next_flow_id, owned>>
      /\ th[t].pc \notin InFlight
      /\ \A u \in Threads \ {t} : th[u].pc = "remove" => th[u].flow # f
  BY Zenon DEF ContextTaken, tables, InFlight
<1>4. r.callout = fwpm_flow_contexts[f]
  BY Zenon DEF ContextTaken, FlowInv
<1>5. Held = Held' \cup {<<r.callout, f>>}
  <2>1. ASSUME NEW p \in Held PROVE p \in Held' \cup {<<r.callout, f>>}
    <3>1. PICK g \in DOMAIN fwpm_flow_contexts : p = <<fwpm_flow_contexts[g], g>>
      BY <2>1, Zenon DEF Held
    <3>2. CASE g = f
      BY <1>4, <3>1, <3>2, Zenon
    <3>3. CASE g # f
      BY <1>2, <3>1, <3>3, Zenon DEF Held
    <3> QED BY <3>2, <3>3, Zenon
  <2>2. ASSUME NEW p \in Held' PROVE p \in Held
    BY <1>2, <2>2, Zenon DEF Held
  <2>3. <<r.callout, f>> \in Held
    BY <1>3, <1>4, Zenon DEF Held
  <2> QED BY <2>1, <2>2, <2>3, Zenon
<1>6. /\ Deleting' = Deleting \cup {t} /\ t \notin Deleting
      /\ \A u \in Deleting : th'[u] = th[u]
  BY <1>1, <1>3, Zenon DEF Deleting, InFlight
<1>7. GoingBack' = GoingBack \cup {<<r.callout, f>>}
  <2>1. ASSUME NEW p \in GoingBack' PROVE p \in GoingBack \cup {<<r.callout, f>>}
    <3>1. PICK u \in Deleting' : p = <<th'[u].callout, th'[u].flow>>
      BY <2>1, Zenon DEF GoingBack
    <3>2. CASE u = t
      BY <1>1, <1>3, <3>1, <3>2, Zenon
    <3>3. CASE u # t
      BY <1>6, <3>1, <3>3, Zenon DEF GoingBack
    <3> QED BY <3>2, <3>3, Zenon
  <2>2. ASSUME NEW p \in GoingBack PROVE p \in GoingBack'
    <3>1. PICK u \in Deleting : p = <<th[u].callout, th[u].flow>>
      BY <2>2, Zenon DEF GoingBack
    <3> QED BY <1>6, <3>1, Zenon DEF GoingBack
  <2>3. <<r.callout, f>> \in GoingBack'
    <3>1. t \in Deleting' /\ th'[t].callout = r.callout /\ th'[t].flow = f
      BY <1>1, <1>3, <1>6, Zenon
    <3> QED BY <3>1, Zenon DEF GoingBack
  <2> QED BY <2>1, <2>2, <2>3, Zenon
<1>8. owned' = Held' \cup GoingBack'
  BY <1>3, <1>5, <1>7, Zenon DEF FlowInv
<1>9. \A g \in DOMAIN fwpm_flow_contexts' :
        g <= next_flow_id' /\ fwps_callouts'[fwpm_flow_contexts'[g]] \in FlowKeys
  BY <1>2, <1>3, Zenon DEF FlowInv
<1>10. \A u \in Threads : th'[u].pc \in InFlight
                            => /\ th'[u].flow \notin DOMAIN fwpm_flow_contexts'
                               /\ th'[u].flow <= next_flow_id'
  BY <1>1, <1>2, <1>3, Zenon DEF FlowInv
<1>11. \A u, v \in Threads : /\ th'[u].pc \in InFlight /\ th'[v].pc \in InFlight
                             /\ th'[u].flow = th'[v].flow
                             => u = v
  <2>1. \A u \in Threads \ {t} : th[u].pc \in InFlight => th[u].flow # r.flow
    BY <1>3, Zenon DEF FlowInv
  <2>2. \A u, v \in Threads \ {t} : /\ th[u].pc \in InFlight /\ th[v].pc \in InFlight
                                    /\ th[u].flow = th[v].flow
                                    => u = v
    BY Zenon DEF FlowInv
  <2> QED BY <1>1, <2>1, <2>2, Zenon
<1>12. \A u \in Threads : th'[u].pc = "classify" /\ th'[u].layer \in FlowLayers
                            => fwps_callouts'[th'[u].callout] \in FlowKeys
  BY <1>1, <1>3, Zenon DEF FlowInv
<1>13. \A u \in Threads : th'[u].pc = "remove"
                            => th'[u].callout = fwpm_flow_contexts'[th'[u].flow]
  <2>1. \A u \in Threads \ {t} : th[u].pc = "remove" => th[u].flow \in DOMAIN fwpm_flow_contexts'
    BY <1>2, <1>3, Zenon DEF CalloutInv
  <2>2. \A u \in Threads \ {t} : th[u].pc = "remove" => th[u].callout = fwpm_flow_contexts[th[u].flow]
    BY Zenon DEF FlowInv
  <2>3. \A u \in Threads : th'[u].pc = "remove" => u # t
    BY <1>1, <1>3, Zenon
  <2> QED BY <1>1, <1>2, <2>1, <2>2, <2>3
<1> QED BY <1>8, <1>9, <1>10, <1>11, <1>12, <1>13, Zenon DEF FlowInv

\* A context is stored for a flow that has none.
LEMMA FlowAssociated ==
  ASSUME BaseInv, CalloutInv, FlowInv, NEW t \in Threads, FwpsFlowAssociateContext0(t)
  PROVE  FlowInv'
<1>0. PICK c, f : c = th[t].callout /\ f = th[t].flow
  OBVIOUS
<1>1. PICK r : Moves(t, r) /\ r.pc \in Calm
  BY AssociateReturns DEF BaseInv
<1>2. th'[t] = r /\ \A u \in Threads \ {t} : th'[u] = th[u]
  BY <1>1, ThreadMoves DEF BaseInv
<1>3. /\ th[t].pc = "classify" /\ th[t].layer \in FlowLayers
      /\ UNCHANGED <<fwps_callouts, next_flow_id>>
      /\ fwpm_flow_contexts' = MapInsert(fwpm_flow_contexts, f, c)
      /\ owned' = owned \cup {<<c, f>>}
  BY <1>0 DEF FwpsFlowAssociateContext0, tables
<1>4. /\ f \notin DOMAIN fwpm_flow_contexts /\ f <= next_flow_id
      /\ fwps_callouts[c] \in FlowKeys
      /\ \A u \in Threads \ {t} : th[u].pc \in InFlight => th[u].flow # f
  BY <1>0, <1>3, Zenon DEF FlowInv, InFlight
<1>5. /\ DOMAIN fwpm_flow_contexts' = DOMAIN fwpm_flow_contexts \cup {f}
      /\ fwpm_flow_contexts'[f] = c
      /\ \A g \in DOMAIN fwpm_flow_contexts : fwpm_flow_contexts'[g] = fwpm_flow_contexts[g]
  BY <1>3, <1>4, Zenon DEF MapInsert
<1>6. r.pc \notin InFlight /\ r.pc # "remove" /\ r.pc # "classify" /\ r.pc # "flow delete"
  BY <1>1, Zenon DEF InFlight, Calm
<1>7. Held' = Held \cup {<<c, f>>}
  BY <1>5 DEF Held
<1>8. Deleting' = Deleting /\ \A u \in Deleting : th'[u] = th[u]
  BY <1>2, <1>3, <1>6, Zenon DEF Deleting
<1>9. GoingBack' = GoingBack
  BY <1>8, Zenon DEF GoingBack
<1>10. owned' = Held' \cup GoingBack'
  BY <1>3, <1>7, <1>9, Zenon DEF FlowInv
<1>11. \A g \in DOMAIN fwpm_flow_contexts' :
         g <= next_flow_id' /\ fwps_callouts'[fwpm_flow_contexts'[g]] \in FlowKeys
  BY <1>3, <1>4, <1>5, Zenon DEF FlowInv
<1>12. \A u \in Threads : th'[u].pc \in InFlight
                            => /\ th'[u].flow \notin DOMAIN fwpm_flow_contexts'
                               /\ th'[u].flow <= next_flow_id'
  <2>1. \A u \in Threads : th'[u].pc \in InFlight => u # t /\ th'[u] = th[u]
    BY <1>2, <1>6, Zenon
  <2>2. \A u \in Threads : th[u].pc \in InFlight
                            => /\ th[u].flow \notin DOMAIN fwpm_flow_contexts
                               /\ th[u].flow <= next_flow_id
    BY Zenon DEF FlowInv
  <2> QED BY <1>3, <1>4, <1>5, <2>1, <2>2, Zenon
<1>13. \A u, v \in Threads : /\ th'[u].pc \in InFlight /\ th'[v].pc \in InFlight
                             /\ th'[u].flow = th'[v].flow
                             => u = v
  BY <1>2, <1>6, Zenon DEF FlowInv
<1>14. \A u \in Threads : th'[u].pc = "classify" /\ th'[u].layer \in FlowLayers
                            => fwps_callouts'[th'[u].callout] \in FlowKeys
  BY <1>2, <1>3, <1>6, Zenon DEF FlowInv
<1>15. \A u \in Threads : th'[u].pc = "remove"
                            => th'[u].callout = fwpm_flow_contexts'[th'[u].flow]
  <2>1. \A u \in Threads \ {t} : th[u].pc = "remove" => th[u].flow \in DOMAIN fwpm_flow_contexts
    BY DEF CalloutInv
  <2>2. \A u \in Threads \ {t} : th[u].pc = "remove" => th[u].callout = fwpm_flow_contexts[th[u].flow]
    BY Zenon DEF FlowInv
  <2>3. \A u \in Threads : th'[u].pc = "remove" => u # t
    BY <1>2, <1>6, Zenon
  <2>4. \A u \in Threads : th'[u].pc = "remove" => u # t /\ th'[u] = th[u]
    BY <1>2, <2>3, Zenon
  <2> SUFFICES ASSUME NEW u \in Threads, th'[u].pc = "remove"
               PROVE  th'[u].callout = fwpm_flow_contexts'[th'[u].flow]
    OBVIOUS
  <2>5. u \in Threads \ {t} /\ th'[u] = th[u] /\ th[u].pc = "remove"
    BY <2>4, Zenon
  <2>6. PICK g \in DOMAIN fwpm_flow_contexts : g = th[u].flow /\ th[u].callout = fwpm_flow_contexts[g]
    BY <2>1, <2>2, <2>5, Zenon
  <2>7. fwpm_flow_contexts'[g] = fwpm_flow_contexts[g]
    BY <1>5, Zenon
  <2> QED BY <2>5, <2>6, <2>7, Zenon
<1> QED BY <1>10, <1>11, <1>12, <1>13, <1>14, <1>15, Zenon DEF FlowInv

\* flowDeleteFn: the context is dropped by the one thread that hands it back.
LEMMA FlowDropped ==
  ASSUME BaseInv, FlowInv, NEW t \in Threads, flowDeleteFn(t)
  PROVE  FlowInv'
<1>0. PICK c, f : c = th[t].callout /\ f = th[t].flow
  OBVIOUS
<1>1. Moves(t, Idle) /\ Idle.pc = "idle" /\ UNCHANGED <<tables, flows>>
  BY IdleSteps, IdleType
<1>2. th'[t] = Idle /\ \A u \in Threads \ {t} : th'[u] = th[u]
  BY <1>1, ThreadMoves DEF BaseInv
<1>3. th[t].pc = "flow delete" /\ owned' = owned \ {<<c, f>>}
  BY <1>0, Zenon DEF flowDeleteFn
<1>4. UNCHANGED <<fwps_callouts, fwpm_flow_contexts, next_flow_id>>
  BY <1>1 DEF tables, flows
<1>5. Held' = Held
  BY <1>4 DEF Held
<1>6. /\ Deleting = Deleting' \cup {t} /\ t \notin Deleting'
      /\ \A u \in Deleting' : th'[u] = th[u]
  BY <1>1, <1>2, <1>3, Zenon DEF Deleting
<1>7. GoingBack = GoingBack' \cup {<<c, f>>}
  BY <1>0, <1>6 DEF GoingBack
<1>8. <<c, f>> \notin Held
  BY <1>0, <1>3, Zenon DEF Held, FlowInv, InFlight
<1>9. <<c, f>> \notin GoingBack'
  <2>1. \A u \in Deleting' : u \in Threads \ {t} /\ th[u].pc = "flow delete"
    BY <1>1, <1>2, Zenon DEF Deleting
  <2>2. \A u \in Deleting' : th'[u].flow # f
    BY <1>0, <1>2, <1>3, <2>1, Zenon DEF FlowInv, InFlight
  <2> QED BY <2>2 DEF GoingBack
<1>10. owned' = Held' \cup GoingBack'
  BY <1>3, <1>5, <1>7, <1>8, <1>9, Zenon DEF FlowInv
<1> QED BY <1>1, <1>2, <1>4, <1>10, Zenon DEF FlowInv, InFlight

\* FlowInv through every step.
LEMMA FlowStep ==
  ASSUME BaseInv, CalloutInv, FlowInv, ~Racing, OneFlowCallout, [Next]_vars
  PROVE  FlowInv'
<1>1. TablesInv /\ ThreadInv
  BY DEF BaseInv
<1>2. ASSUME UNCHANGED <<th, flows, owned>>,
             \A id \in DOMAIN fwps_callouts : fwps_callouts'[id] = fwps_callouts[id]
      PROVE  FlowInv'
  <2>1. UNCHANGED <<th, fwpm_flow_contexts, next_flow_id, owned>> /\ UNCHANGED <<Held, GoingBack>>
    BY <1>2, Zenon DEF flows, Held, GoingBack, Deleting
  <2>2. \A f \in DOMAIN fwpm_flow_contexts :
          fwps_callouts'[fwpm_flow_contexts[f]] = fwps_callouts[fwpm_flow_contexts[f]]
    BY <1>2, Zenon DEF CalloutInv
  <2>3. \A t \in Threads : th[t].pc = "classify"
                             => fwps_callouts'[th[t].callout] = fwps_callouts[th[t].callout]
    BY <1>2, Zenon DEF CalloutInv, Calling
  <2> QED BY <2>1, <2>2, <2>3, Zenon DEF FlowInv
<1>3. CASE FwpsCalloutRegister3
  <2>1. \A id \in DOMAIN fwps_callouts : fwps_callouts'[id] = fwps_callouts[id]
    BY <1>3 DEF FwpsCalloutRegister3, register_fwps_callout, Insert, MapInsert
  <2> QED BY <1>2, <1>3, <2>1, Zenon DEF FwpsCalloutRegister3
<1>4. CASE \/ FwpmCalloutAdd0 \/ FwpmSubLayerAdd0 \/ FwpmSubLayerDeleteByKey0
           \/ FwpmCalloutDeleteByKey0 \/ UNCHANGED vars
  <2>1. UNCHANGED <<th, flows, owned, fwps_callouts>>
    BY <1>4, Zenon DEF FwpmCalloutAdd0, FwpmSubLayerAdd0, FwpmSubLayerDeleteByKey0,
                FwpmCalloutDeleteByKey0, add_fwpm_callout, add_fwpm_sub_layer,
                remove_fwpm_sub_layer, remove_fwpm_callout, vars, tables
  <2> QED BY <1>2, <2>1
<1>5. CASE FwpsCalloutUnregisterById0
  <2>1. /\ UNCHANGED <<th, fwpm_flow_contexts, next_flow_id, owned>>
        /\ DOMAIN fwpm_flow_contexts = {}
        /\ \A t \in Threads : th[t].pc = "idle"
    BY <1>5 DEF FwpsCalloutUnregisterById0, Quiet, flows
  <2>2. UNCHANGED <<Held, GoingBack>>
    BY <2>1 DEF Held, GoingBack, Deleting
  <2> QED BY <2>1, <2>2, Zenon DEF FlowInv, InFlight
<1>6. ASSUME NEW t \in Threads, FwpmFilterAdd0(t)
      PROVE  FlowInv'
  <2>1. PICK r, o : FilterAdded(t, r, o)
    BY <1>1, <1>6, FilterAddStep
  <2>2. /\ Moves(t, r) /\ th[t].pc = "idle" /\ r.pc = "notify add"
        /\ UNCHANGED <<fwps_callouts, fwpm_flow_contexts, next_flow_id, owned>>
    BY <2>1, Zenon DEF FilterAdded, flows
  <2> QED BY <1>1, <2>2, FlowKept, Zenon DEF InFlight
<1>7. ASSUME NEW t \in Threads, FwpmFilterDeleteById0(t)
      PROVE  FlowInv'
  <2>1. PICK r, x : FilterDeleted(t, r, x)
    BY <1>1, <1>7, FilterDeleteStep
  <2>2. /\ Moves(t, r) /\ th[t].pc = "idle" /\ r.pc = "notify delete"
        /\ UNCHANGED <<fwps_callouts, fwpm_flow_contexts, next_flow_id, owned>>
    BY <2>1, Zenon DEF FilterDeleted, flows
  <2> QED BY <1>1, <2>2, FlowKept, Zenon DEF InFlight
<1>8. ASSUME NEW t \in Threads, GoesOn(t)
      PROVE  FlowInv'
  <2>1. th[t].pc \in Calm /\ UNCHANGED <<tables, fwpm_flow_contexts, attached, owned>>
    BY <1>8 DEF GoesOn
  <2>2. PICK r : (Moves(t, r) /\ r.pc \in Calm /\ UNCHANGED next_flow_id) \/ Classifies(t, r)
    BY <1>8 DEF GoesOn
  <2>3. CASE Moves(t, r) /\ r.pc \in Calm /\ UNCHANGED next_flow_id
    <3>1. th[t].pc # "flow delete" /\ UNCHANGED flows
      BY <2>1, <2>3, Zenon DEF Calm, flows
    <3> QED BY <1>1, <2>1, <2>3, <3>1, FlowCalm, Zenon
  <2> QED BY <2>1, <2>2, <2>3, FlowClassifies
<1>9. ASSUME NEW t \in Threads, classify_test_packet(t)
      PROVE  FlowInv'
  <2>1. PICK r : Moves(t, r) /\ r.pc = "packet"
    BY <1>1, <1>9, PacketStep
  <2>2. th[t].pc = "idle" /\ UNCHANGED <<fwps_callouts, fwpm_flow_contexts, next_flow_id, owned>>
    BY <1>1, <1>9, PacketStep, Zenon DEF tables, flows
  <2> QED BY <1>1, <2>1, <2>2, FlowKept, Zenon DEF InFlight
<1>10. ASSUME NEW t \in Threads, NEW l \in FlowLayers, test_remove_flow_context(t, l)
       PROVE  FlowInv'
  BY <1>10, FlowFound
<1>11. ASSUME NEW t \in Threads, FwpsFlowRemoveContext0(t) \/ RemoveFound(t)
       PROVE  FlowInv'
  <2>1. PICK r, f : ContextTaken(t, r, f)
    BY <1>1, <1>11, TakeStep
  <2> QED BY <2>1, FlowTaken
<1>12. ASSUME NEW t \in Threads, classifyFn(t)
       PROVE  FlowInv'
  <2>1. PICK r : Moves(t, r) /\ r.pc \in Calm
    BY <1>1, <1>12, ClassifyReturns
  <2>2. th[t].pc # "flow delete" /\ UNCHANGED <<tables, flows, owned>>
    BY <1>1, <1>12, ClassifyReturns, Zenon
  <2> QED BY <1>1, <2>1, <2>2, FlowCalm, Zenon
<1>13. ASSUME NEW t \in Threads, notifyFn(t) \/ _free_connection_request(t)
       PROVE  FlowInv'
  <2>1. /\ Moves(t, Idle) /\ Idle.pc \in Calm /\ th[t].pc # "flow delete"
        /\ UNCHANGED <<tables, flows, owned>>
    BY <1>13, IdleSteps, Zenon DEF notifyFn, _free_connection_request
  <2> QED BY <1>1, <2>1, FlowCalm, Zenon
<1>14. ASSUME NEW t \in Threads, Begin(t) \/ Continue(t)
       PROVE  FlowInv'
  BY Zenon, <1>1, <1>6, <1>7, <1>8, <1>9, <1>10, <1>11, <1>12, <1>13, <1>14, GoOnSteps,
     FlowAssociated, FlowDropped
     DEF Begin, Continue, test_sock_ops_v4_remove_flow_context,
         test_sock_ops_v6_remove_flow_context, FlowLayers
<1> QED BY <1>3, <1>4, <1>5, <1>14 DEF Next, Driver

\* With one callout that associates flow contexts, and unless two calls remove the
\* context of one flow at once, each context is in the engine's table or being
\* handed back, once, to the callout that associated it (fwp_um.h 162-174,
\* 195-230).
THEOREM FlowContextsAlwaysExact ==
  ~Racing /\ OneFlowCallout => (Spec => []FlowContextsExact)
<1> SUFFICES ASSUME ~Racing, OneFlowCallout PROVE Spec => []FlowContextsExact
  OBVIOUS
<1>1. Init => CalloutInv /\ FlowInv
  <2> SUFFICES ASSUME Init PROVE CalloutInv /\ FlowInv
    OBVIOUS
  <2>1. /\ \A t \in Threads : th[t].pc = "idle"
        /\ DOMAIN fwpm_flow_contexts = {} /\ owned = {}
    BY IdleType DEF Init
  <2>2. CalloutInv
    BY <2>1, Zenon DEF CalloutInv, Calling
  <2>3. Held = {} /\ GoingBack = {}
    BY <2>1, Zenon DEF Held, GoingBack, Deleting
  <2> QED BY <2>1, <2>2, <2>3, Zenon DEF FlowInv, InFlight
<1>2. FlowInv => FlowContextsExact
  BY Zenon DEF FlowInv, FlowContextsExact, Held, GoingBack, Deleting, InFlight
<1>3. BaseInv /\ CalloutInv /\ FlowInv /\ [Next]_vars => CalloutInv' /\ FlowInv'
  BY CalloutStep, FlowStep DEF BaseInv
<1> QED BY <1>1, <1>2, <1>3, BaseAlways, PTL DEF Spec

-----------------------------------------------------------------------------
(* The notifications.                                                      *)

INSTANCE FiniteSetTheorems

Notifying(pc, k) == {t \in Threads : th[t].pc = pc /\ th[t].key = k}
FiltersOf(k) == {id \in DOMAIN fwpm_filters : fwpm_filters[id].key = k}

\* NotificationsExact, of counts that are integers.
NotifyInv ==
    /\ attached \in [Keys -> Int]
    /\ \A t \in Threads : th[t].pc \in {"notify add", "notify delete"} => th[t].key \in Keys
    /\ \A k \in Keys :
         attached[k] + Cardinality(Notifying("notify add", k))
           = Cardinality(FiltersOf(k)) + Cardinality(Notifying("notify delete", k))

\* The sets that are counted are finite.
LEMMA CountsFinite ==
  ASSUME TablesInv, NEW k
  PROVE  /\ IsFiniteSet(FiltersOf(k)) /\ Cardinality(FiltersOf(k)) \in Nat
         /\ \A pc : IsFiniteSet(Notifying(pc, k)) /\ Cardinality(Notifying(pc, k)) \in Nat
<1>1. IsFiniteSet(1 .. next_id - 1)
  BY FS_Interval DEF TablesInv
<1>2. FiltersOf(k) \subseteq 1 .. next_id - 1
  BY Zenon DEF FiltersOf, TablesInv
<1>3. \A pc : Notifying(pc, k) \subseteq Threads
  BY DEF Notifying
<1>4. IsFiniteSet(FiltersOf(k)) /\ \A pc : IsFiniteSet(Notifying(pc, k))
  BY <1>1, <1>2, <1>3, FS_Subset, FwpAssumption, Zenon
<1> QED BY <1>4, FS_CardinalityType

\* The counts of a key are numbers, in the relation of NotificationsExact.
Counts(k) ==
    /\ attached[k] \in Int
    /\ Cardinality(FiltersOf(k)) \in Nat
    /\ Cardinality(Notifying("notify add", k)) \in Nat
    /\ Cardinality(Notifying("notify delete", k)) \in Nat
    /\ attached[k] + Cardinality(Notifying("notify add", k))
         = Cardinality(FiltersOf(k)) + Cardinality(Notifying("notify delete", k))

\* Every key of the plan has such counts.
LEMMA CountTypes ==
  ASSUME TablesInv, NotifyInv, NEW k \in Keys
  PROVE  Counts(k)
<1>1. attached[k] \in Int
  BY Zenon DEF NotifyInv
<1>2. /\ Cardinality(FiltersOf(k)) \in Nat
      /\ Cardinality(Notifying("notify add", k)) \in Nat
      /\ Cardinality(Notifying("notify delete", k)) \in Nat
  BY CountsFinite, Zenon
<1> QED BY <1>1, <1>2, Zenon DEF NotifyInv, Counts

\* A step that notifies nobody.
LEMMA NotifyKept ==
  ASSUME ThreadInv, NotifyInv, NEW t \in Threads, NEW r, Moves(t, r),
         th[t].pc \notin {"notify add", "notify delete"},
         r.pc \notin {"notify add", "notify delete"},
         UNCHANGED <<fwpm_filters, attached>>
  PROVE  NotifyInv'
<1>1. th'[t] = r /\ \A u \in Threads \ {t} : th'[u] = th[u]
  BY ThreadMoves, Zenon
<1>2. \A pc \in {"notify add", "notify delete"} : \A k : Notifying(pc, k)' = Notifying(pc, k)
  BY <1>1, Zenon DEF Notifying
<1>3. \A k : FiltersOf(k)' = FiltersOf(k)
  BY Zenon DEF FiltersOf
<1>4. \A u \in Threads : th'[u].pc \in {"notify add", "notify delete"} => th'[u].key \in Keys
  BY <1>1, Zenon DEF NotifyInv
<1> QED BY <1>2, <1>3, <1>4, Zenon DEF NotifyInv

\* A filter is in the table, and its notification on the way.
LEMMA NotifyAdded ==
  ASSUME TablesInv, ThreadInv, NotifyInv, NEW t \in Threads, NEW r, NEW o, FilterAdded(t, r, o)
  PROVE  NotifyInv'
<1>1. th'[t] = r /\ \A u \in Threads \ {t} : th'[u] = th[u]
  BY ThreadMoves, Zenon DEF FilterAdded
<1>2. /\ th[t].pc = "idle" /\ r.pc = "notify add" /\ r.key \in Keys /\ o.key = r.key
      /\ UNCHANGED attached
  BY Zenon DEF FilterAdded
<1>3. /\ next_id \notin DOMAIN fwpm_filters
      /\ DOMAIN fwpm_filters' = DOMAIN fwpm_filters \cup {next_id}
      /\ fwpm_filters'[next_id] = o
      /\ \A id \in DOMAIN fwpm_filters : fwpm_filters'[id] = fwpm_filters[id]
  BY FreshId, Zenon DEF FilterAdded, MapInsert
<1>4. ASSUME NEW k \in Keys
      PROVE  attached'[k] + Cardinality(Notifying("notify add", k)')
               = Cardinality(FiltersOf(k)') + Cardinality(Notifying("notify delete", k)')
  <2>0. Counts(k)
    BY CountTypes
  <2>1. Notifying("notify delete", k)' = Notifying("notify delete", k)
    BY <1>1, <1>2, Zenon DEF Notifying
  <2>2. CASE k = r.key
    <3>1. /\ Notifying("notify add", k)' = Notifying("notify add", k) \cup {t}
          /\ t \notin Notifying("notify add", k)
      BY <1>1, <1>2, <2>2, Zenon DEF Notifying
    <3>2. FiltersOf(k)' = FiltersOf(k) \cup {next_id} /\ next_id \notin FiltersOf(k)
      BY <1>2, <1>3, <2>2, Zenon DEF FiltersOf
    <3>3. /\ Cardinality(Notifying("notify add", k)') = Cardinality(Notifying("notify add", k)) + 1
          /\ Cardinality(FiltersOf(k)') = Cardinality(FiltersOf(k)) + 1
      BY <3>1, <3>2, CountsFinite, FS_AddElement, Zenon
    <3>4. attached'[k] = attached[k]
      BY <1>2, Zenon
    <3>5. PICK a \in Int, x \in Nat, f \in Nat, d \in Nat :
          /\ a = attached[k] /\ x = Cardinality(Notifying("notify add", k))
          /\ f = Cardinality(FiltersOf(k)) /\ d = Cardinality(Notifying("notify delete", k))
          /\ a + x = f + d
      BY <2>0, Zenon DEF Counts
    <3>6. Cardinality(Notifying("notify add", k)') = x + 1
      BY <2>1, <3>3, <3>5, Zenon
    <3>7. Cardinality(FiltersOf(k)') = f + 1
      BY <3>3, <3>5, Zenon
    <3>8. Cardinality(Notifying("notify delete", k)') = d
      BY <2>1, <3>3, <3>5, Zenon
    <3>9. attached'[k] = a
      BY <3>4, <3>5, Zenon
    <3>10. a + x = f + d
      BY <3>5, Zenon
    <3>11. a + (x + 1) = (f + 1) + d
      BY <3>10
    <3> QED BY <3>6, <3>7, <3>8, <3>9, <3>11, Zenon
  <2>3. CASE k # r.key
    <3>1. Notifying("notify add", k)' = Notifying("notify add", k)
      BY <1>1, <1>2, <2>3, Zenon DEF Notifying
    <3>2. FiltersOf(k)' = FiltersOf(k)
      BY <1>2, <1>3, <2>3, Zenon DEF FiltersOf
    <3> QED BY <1>2, <2>1, <3>1, <3>2, Zenon DEF NotifyInv
  <2> QED BY <2>2, <2>3, Zenon
<1>5. \A u \in Threads : th'[u].pc \in {"notify add", "notify delete"} => th'[u].key \in Keys
  BY <1>1, <1>2, Zenon DEF NotifyInv
<1> QED BY <1>2, <1>4, <1>5, Zenon DEF NotifyInv

\* A filter is out of the table, and its notification on the way.
LEMMA NotifyDeleted ==
  ASSUME TablesInv, ThreadInv, NotifyInv, NEW t \in Threads, NEW r, NEW x, FilterDeleted(t, r, x)
  PROVE  NotifyInv'
<1>1. th'[t] = r /\ \A u \in Threads \ {t} : th'[u] = th[u]
  BY ThreadMoves, Zenon DEF FilterDeleted
<1>2. /\ th[t].pc = "idle" /\ r.pc = "notify delete" /\ r.key \in Keys
      /\ x \in DOMAIN fwpm_filters /\ r.key = fwpm_filters[x].key
      /\ UNCHANGED attached
  BY Zenon DEF FilterDeleted
<1>3. /\ DOMAIN fwpm_filters' = DOMAIN fwpm_filters \ {x}
      /\ \A id \in DOMAIN fwpm_filters' : fwpm_filters'[id] = fwpm_filters[id]
  BY Zenon DEF FilterDeleted, Without
<1>4. ASSUME NEW k \in Keys
      PROVE  attached'[k] + Cardinality(Notifying("notify add", k)')
               = Cardinality(FiltersOf(k)') + Cardinality(Notifying("notify delete", k)')
  <2>0. Counts(k)
    BY CountTypes
  <2>1. Notifying("notify add", k)' = Notifying("notify add", k)
    BY <1>1, <1>2, Zenon DEF Notifying
  <2>2. CASE k = r.key
    <3>1. /\ Notifying("notify delete", k)' = Notifying("notify delete", k) \cup {t}
          /\ t \notin Notifying("notify delete", k)
      BY <1>1, <1>2, <2>2, Zenon DEF Notifying
    <3>2. FiltersOf(k)' = FiltersOf(k) \ {x} /\ x \in FiltersOf(k)
      BY <1>2, <1>3, <2>2, Zenon DEF FiltersOf
    <3>3. /\ Cardinality(Notifying("notify delete", k)')
               = Cardinality(Notifying("notify delete", k)) + 1
          /\ Cardinality(FiltersOf(k)') = Cardinality(FiltersOf(k)) - 1
      <4>1. IsFiniteSet(FiltersOf(k)) /\ IsFiniteSet(Notifying("notify delete", k))
        BY CountsFinite, Zenon
      <4>2. Cardinality(FiltersOf(k)') = Cardinality(FiltersOf(k)) - 1
        BY <3>2, <4>1, FS_RemoveElement, Zenon
      <4>3. Cardinality(Notifying("notify delete", k)')
              = Cardinality(Notifying("notify delete", k)) + 1
        BY <3>1, <4>1, FS_AddElement, Zenon
      <4> QED BY <4>2, <4>3, Zenon
    <3>4. attached'[k] = attached[k]
      BY <1>2, Zenon
    <3>5. PICK a \in Int, y \in Nat, f \in Nat, d \in Nat :
          /\ a = attached[k] /\ y = Cardinality(Notifying("notify add", k))
          /\ f = Cardinality(FiltersOf(k)) /\ d = Cardinality(Notifying("notify delete", k))
          /\ a + y = f + d
      BY <2>0, Zenon DEF Counts
    <3>6. Cardinality(Notifying("notify add", k)') = y
      BY <2>1, <3>3, <3>5, Zenon
    <3>7. Cardinality(FiltersOf(k)') = f - 1
      BY <3>3, <3>5, Zenon
    <3>8. Cardinality(Notifying("notify delete", k)') = d + 1
      BY <2>1, <3>3, <3>5, Zenon
    <3>9. attached'[k] = a
      BY <3>4, <3>5, Zenon
    <3>10. a + y = f + d
      BY <3>5, Zenon
    <3>11. a + y = (f - 1) + (d + 1)
      BY <3>10
    <3> QED BY <3>6, <3>7, <3>8, <3>9, <3>11, Zenon
  <2>3. CASE k # r.key
    <3>1. Notifying("notify delete", k)' = Notifying("notify delete", k)
      BY <1>1, <1>2, <2>3, Zenon DEF Notifying
    <3>2. FiltersOf(k)' = FiltersOf(k)
      BY <1>2, <1>3, <2>3, Zenon DEF FiltersOf
    <3> QED BY <1>2, <2>1, <3>1, <3>2, Zenon DEF NotifyInv
  <2> QED BY <2>2, <2>3, Zenon
<1>5. \A u \in Threads : th'[u].pc \in {"notify add", "notify delete"} => th'[u].key \in Keys
  BY <1>1, <1>2, Zenon DEF NotifyInv
<1> QED BY <1>2, <1>4, <1>5, Zenon DEF NotifyInv

\* notifyFn counts the filter.
LEMMA NotifyCounted ==
  ASSUME TablesInv, ThreadInv, NotifyInv, NEW t \in Threads, notifyFn(t)
  PROVE  NotifyInv'
<1>0. PICK x, pc : x = th[t].key /\ pc = th[t].pc
  OBVIOUS
<1>1. th'[t] = Idle /\ Idle.pc = "idle" /\ \A u \in Threads \ {t} : th'[u] = th[u]
  BY IdleSteps, IdleType, ThreadMoves, Zenon
<1>2. pc \in {"notify add", "notify delete"} /\ x \in Keys /\ fwpm_filters' = fwpm_filters
  BY <1>0, Zenon DEF notifyFn, NotifyInv, tables
<1>3. attached' = [attached EXCEPT ![x] = IF pc = "notify add" THEN @ + 1 ELSE @ - 1]
  BY <1>0, Zenon DEF notifyFn
<1>4. /\ attached' \in [Keys -> Int]
      /\ attached'[x] = IF pc = "notify add" THEN attached[x] + 1 ELSE attached[x] - 1
      /\ \A k \in Keys \ {x} : attached'[k] = attached[k]
  <2>1. attached \in [Keys -> Int]
    BY Zenon DEF NotifyInv
  <2>2. x \in Keys
    BY <1>2, Zenon
  <2>3. PICK a \in Int : a = attached[x]
    BY <2>1, <2>2
  <2>4. a + 1 \in Int /\ a - 1 \in Int
    OBVIOUS
  <2>5. PICK b \in Int : b = IF pc = "notify add" THEN a + 1 ELSE a - 1
    BY <2>4, Zenon
  <2>6. attached' = [attached EXCEPT ![x] = b]
    BY <1>3, <2>1, <2>2, <2>3, <2>5, Zenon
  <2> QED BY <2>1, <2>2, <2>3, <2>5, <2>6, Zenon
<1>5. \A k : FiltersOf(k)' = FiltersOf(k)
  BY <1>2, Zenon DEF FiltersOf
<1>6. ASSUME NEW k, NEW p \in {"notify add", "notify delete"}, k # x \/ p # pc
      PROVE  Notifying(p, k)' = Notifying(p, k)
  BY <1>0, <1>1, <1>6, Zenon DEF Notifying
<1>7. Notifying(pc, x)' = Notifying(pc, x) \ {t} /\ t \in Notifying(pc, x)
  BY <1>0, <1>1, <1>2, Zenon DEF Notifying
<1>8. Cardinality(Notifying(pc, x)') = Cardinality(Notifying(pc, x)) - 1
  BY <1>7, CountsFinite, FS_RemoveElement, Zenon
<1>9. ASSUME NEW k \in Keys
      PROVE  attached'[k] + Cardinality(Notifying("notify add", k)')
               = Cardinality(FiltersOf(k)') + Cardinality(Notifying("notify delete", k)')
  <2>1. CASE k # x
    BY <1>4, <1>5, <1>6, <2>1, Zenon DEF NotifyInv
  <2>2. CASE k = x /\ pc = "notify add"
    <3>1. Notifying("notify delete", k)' = Notifying("notify delete", k)
      BY <1>6, <2>2, Zenon
    <3>2. Counts(x)
      BY <1>2, CountTypes, Zenon
    <3>3. /\ attached'[x] = attached[x] + 1
          /\ Cardinality(Notifying("notify add", x)')
               = Cardinality(Notifying("notify add", x)) - 1
      BY <1>4, <1>8, <2>2, Zenon
    <3>4. PICK a \in Int, y \in Nat, f \in Nat, d \in Nat :
          /\ a = attached[k] /\ y = Cardinality(Notifying("notify add", k))
          /\ f = Cardinality(FiltersOf(k)) /\ d = Cardinality(Notifying("notify delete", k))
          /\ a + y = f + d
      BY <2>2, <3>2, Zenon DEF Counts
    <3>5. Cardinality(Notifying("notify add", k)') = y - 1
      BY <2>2, <3>1, <3>3, <3>4, Zenon
    <3>6. Cardinality(FiltersOf(k)') = f
      BY <1>5, <3>4, Zenon
    <3>7. Cardinality(Notifying("notify delete", k)') = d
      BY <2>2, <3>1, <3>3, <3>4, Zenon
    <3>8. attached'[k] = a + 1
      BY <2>2, <3>3, <3>4, Zenon
    <3>9. a + y = f + d
      BY <3>4, Zenon
    <3>10. (a + 1) + (y - 1) = f + d
      BY <3>9
    <3> QED BY <3>5, <3>6, <3>7, <3>8, <3>10, Zenon
  <2>3. CASE k = x /\ pc = "notify delete"
    <3>1. Notifying("notify add", k)' = Notifying("notify add", k)
      BY <1>6, <2>3, Zenon
    <3>2. Counts(x)
      BY <1>2, CountTypes, Zenon
    <3>3. /\ attached'[x] = attached[x] - 1
          /\ Cardinality(Notifying("notify delete", x)')
               = Cardinality(Notifying("notify delete", x)) - 1
      BY <1>2, <1>4, <1>8, <2>3, Zenon
    <3>4. PICK a \in Int, y \in Nat, f \in Nat, d \in Nat :
          /\ a = attached[k] /\ y = Cardinality(Notifying("notify add", k))
          /\ f = Cardinality(FiltersOf(k)) /\ d = Cardinality(Notifying("notify delete", k))
          /\ a + y = f + d
      BY <2>3, <3>2, Zenon DEF Counts
    <3>5. Cardinality(Notifying("notify add", k)') = y
      BY <2>3, <3>1, <3>3, <3>4, Zenon
    <3>6. Cardinality(FiltersOf(k)') = f
      BY <1>5, <3>4, Zenon
    <3>7. Cardinality(Notifying("notify delete", k)') = d - 1
      BY <2>3, <3>1, <3>3, <3>4, Zenon
    <3>8. attached'[k] = a - 1
      BY <2>3, <3>3, <3>4, Zenon
    <3>9. a + y = f + d
      BY <3>4, Zenon
    <3>10. (a - 1) + y = f + (d - 1)
      BY <3>9
    <3> QED BY <3>5, <3>6, <3>7, <3>8, <3>10, Zenon
  <2> QED BY <1>2, <2>1, <2>2, <2>3, Zenon
<1>10. \A u \in Threads : th'[u].pc \in {"notify add", "notify delete"} => th'[u].key \in Keys
  BY <1>1, Zenon DEF NotifyInv
<1> QED BY <1>4, <1>9, <1>10, Zenon DEF NotifyInv

\* NotifyInv through every step.
LEMMA NotifyStep ==
  ASSUME BaseInv, NotifyInv, [Next]_vars
  PROVE  NotifyInv'
<1>1. TablesInv /\ ThreadInv
  BY DEF BaseInv
<1>2. CASE UNCHANGED <<th, attached, fwpm_filters>>
  BY <1>2, Zenon DEF NotifyInv, Notifying, FiltersOf
<1>3. CASE UNCHANGED vars
  BY <1>2, <1>3 DEF vars, tables
<1>4. CASE Driver
  BY <1>2, <1>4, DriverKeeps
<1>5. ASSUME NEW t \in Threads, FwpmFilterAdd0(t)
      PROVE  NotifyInv'
  BY <1>1, <1>5, FilterAddStep, NotifyAdded
<1>6. ASSUME NEW t \in Threads, FwpmFilterDeleteById0(t)
      PROVE  NotifyInv'
  BY <1>1, <1>6, FilterDeleteStep, NotifyDeleted
<1>7. ASSUME NEW t \in Threads, NEW r, Moves(t, r),
             th[t].pc \in Places \ {"notify add", "notify delete"},
             r.pc \in Places \ {"notify add", "notify delete"},
             UNCHANGED <<tables, attached>>
      PROVE  NotifyInv'
  <2>1. UNCHANGED <<fwpm_filters, attached>>
    BY <1>7, Zenon DEF tables
  <2>2. th[t].pc \notin {"notify add", "notify delete"} /\ r.pc \notin {"notify add", "notify delete"}
    BY <1>7, Zenon
  <2> QED BY <1>1, <1>7, <2>1, <2>2, NotifyKept, Zenon
<1>8. \A p \in Calm \cup {"classify", "packet", "remove", "flow delete"} :
        p \in Places \ {"notify add", "notify delete"}
  BY Zenon DEF Places, Calm
<1>9. ASSUME NEW t \in Threads, GoesOn(t)
      PROVE  NotifyInv'
  <2>1. PICK r : Moves(t, r) /\ r.pc \in Calm \cup {"classify"}
    BY <1>9, Zenon DEF GoesOn, Classifies
  <2>2. th[t].pc \in Calm /\ UNCHANGED <<tables, attached>>
    BY <1>9 DEF GoesOn
  <2> QED BY <1>7, <1>8, <2>1, <2>2, Zenon
<1>10. ASSUME NEW t \in Threads, classify_test_packet(t)
       PROVE  NotifyInv'
  BY <1>1, <1>7, <1>8, <1>10, PacketStep, Zenon DEF Calm
<1>11. ASSUME NEW t \in Threads, NEW l, test_remove_flow_context(t, l)
       PROVE  NotifyInv'
  BY <1>1, <1>7, <1>8, <1>11, RemoveStep, Zenon DEF Calm
<1>12. ASSUME NEW t \in Threads, FwpsFlowRemoveContext0(t) \/ RemoveFound(t)
       PROVE  NotifyInv'
  BY <1>7, <1>8, <1>12, DeleteStep, Zenon DEF Calm
<1>13. ASSUME NEW t \in Threads, classifyFn(t)
       PROVE  NotifyInv'
  BY <1>1, <1>7, <1>8, <1>13, ClassifyReturns, Zenon
<1>14. ASSUME NEW t \in Threads, _free_connection_request(t) \/ flowDeleteFn(t)
       PROVE  NotifyInv'
  <2>1. /\ Moves(t, Idle) /\ Idle.pc \in Calm /\ UNCHANGED <<tables, attached>>
        /\ th[t].pc \in Calm \cup {"flow delete"}
    BY <1>14, IdleSteps, Zenon DEF _free_connection_request, flowDeleteFn, Calm
  <2> QED BY <1>7, <1>8, <2>1, Zenon
<1>15. ASSUME NEW t \in Threads, FwpsFlowAssociateContext0(t)
       PROVE  NotifyInv'
  <2>1. th[t].pc = "classify" /\ UNCHANGED <<tables, attached>>
    BY <1>15 DEF FwpsFlowAssociateContext0
  <2> QED BY <1>1, <1>7, <1>8, <1>15, <2>1, AssociateReturns, Zenon
<1>16. ASSUME NEW t \in Threads, Begin(t) \/ Continue(t)
       PROVE  NotifyInv'
  BY Zenon, <1>1, <1>5, <1>6, <1>9, <1>10, <1>11, <1>12, <1>13, <1>14, <1>15, <1>16, GoOnSteps,
     NotifyCounted
     DEF Begin, Continue, test_sock_ops_v4_remove_flow_context,
         test_sock_ops_v6_remove_flow_context
<1> QED BY <1>3, <1>4, <1>16 DEF Next

\* The callouts have been notified of the filters that are in the table, up to
\* the notifications on their way (fwp_um.h 99-126 and 141-147), whatever the
\* number of threads that add and delete filters of the same callout.
THEOREM NotificationsAlwaysExact == Spec => []NotificationsExact
<1>1. Init => NotifyInv
  <2> SUFFICES ASSUME Init PROVE NotifyInv
    OBVIOUS
  <2>1. /\ th = [t \in Threads |-> Idle] /\ Idle.pc = "idle"
        /\ DOMAIN fwpm_filters = {} /\ attached = [k \in Keys |-> 0]
    BY IdleType DEF Init
  <2>2. \A k : FiltersOf(k) = {} /\ \A pc \in {"notify add", "notify delete"} : Notifying(pc, k) = {}
    BY <2>1, Zenon DEF FiltersOf, Notifying
  <2>3. Cardinality({}) = 0
    BY FS_EmptySet
  <2>4. \A k \in Keys :
          /\ attached[k] = 0 /\ Cardinality(FiltersOf(k)) = 0
          /\ Cardinality(Notifying("notify add", k)) = 0
          /\ Cardinality(Notifying("notify delete", k)) = 0
    BY <2>1, <2>2, <2>3, Zenon
  <2>5. attached \in [Keys -> Int]
    BY <2>1
  <2>6. \A t \in Threads : th[t].pc \in {"notify add", "notify delete"} => th[t].key \in Keys
    BY <2>1, Zenon
  <2> QED BY <2>4, <2>5, <2>6, Zenon DEF NotifyInv
<1>2. NotifyInv => NotificationsExact
  BY Zenon DEF NotifyInv, NotificationsExact, Notifying, FiltersOf
<1>3. BaseInv /\ NotifyInv /\ [Next]_vars => NotifyInv'
  BY NotifyStep
<1> QED BY <1>1, <1>2, <1>3, BaseAlways, PTL DEF Spec

=============================================================================
