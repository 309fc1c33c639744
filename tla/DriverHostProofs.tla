-------------------------- MODULE DriverHostProofs --------------------------
(***************************************************************************)
(* The library follows its users, a loaded driver serves its clients and a  *)
(* load leaves nothing behind, for any number of threads, DLLs, devices and *)
(* clients, whatever step of a load fails.                                  *)
(***************************************************************************)
EXTENDS DriverHost, TLAPS

-----------------------------------------------------------------------------
(* The invariant.                                                          *)

Loads == {"usersim", "start", "init", "queue"}
Ends  == {"detach", "unmap"}

\* What the loader and the clients may be at.
LoaderStates ==
    [pc : Loads \cup Ends \cup {"idle", "undo", "gone"}, c : Clients \cup {None}, dll : Dlls \cup {None},
     devices : {0}, add : BOOLEAN, device : Devices \cup {None}]

Requests == {NewRequest(in, out) : in, out \in Sizes}

ClientStates ==
    [pc : {"out", "loaded", "device", "request"}, dll : Dlls \cup {None}, device : Devices \cup {None},
     request : Requests \cup {None}, code : {0, 1}]

\* A client that is not out has a DLL, and one that waits for an answer a request.
ClientOK(s) ==
    /\ s.pc # "out" => s.dll \in Dlls
    /\ s.pc = "request" => s.request \in Requests

HostTypes ==
    /\ refs \in [Dlls -> Nat]
    /\ ld \in LoaderStates
    /\ client \in [Clients -> ClientStates]
    /\ ld.pc = "idle" => ld = Idle
    /\ ld.pc # "idle" => ld.dll \in Dlls
    /\ ld.pc \in Loads => ld.c \in Clients
    /\ \A c \in Clients : ClientOK(client[c])

\* The library is up while it has users, whose calls are all counted.
LibInv ==
    /\ holds \in [Threads -> 0 .. MaxHolds]
    /\ _cxplat_initialized \in BOOLEAN
    /\ _cxplat_initialization_count = Cardinality(Users)
    /\ {"processors", "pool"} \cap parts = IF Users = {} THEN {} ELSE {"processors", "pool"}

\* What the platform has, as a whole.
Up ==
    /\ _usersim_platform_initiate_count = 1
    /\ _cxplat_initialized
    /\ {"irql", "dpcs", "se", "wdf"} \subseteq subsystems
NoSubsystems == {"irql", "dpcs"} \cap subsystems = {}
Down ==
    /\ ~_cxplat_initialized
    /\ NoSubsystems

\* The platform at each step of the loader's calls: usersim.dll is attached
\* before the first driver is mapped and detached after the last.  A failed attach
\* is followed by a second termination, which takes the count below zero.
Steps == {"out", "cxplat", "subsystems", "terminate", "cleanup", "count"}
Results == {"none", "ok", "failed"}

PlatInv ==
    /\ at \in [Threads -> Steps]
    /\ outcome \in [Threads -> Results]
    /\ ld.pc \in {"usersim", "gone"} => Mapped = {}
    /\ ld.pc = "idle" => /\ at[Loader] = "out"
                         /\ Mapped = {} => Down /\ _usersim_platform_initiate_count = 0
                         /\ Mapped # {} => Up
    /\ ld.pc \in {"start", "init", "queue", "undo", "detach", "unmap"} => at[Loader] = "out" /\ Up
    /\ ld.pc = "usersim" =>
         /\ at[Loader] = "cxplat" => Down /\ _usersim_platform_initiate_count = 1
         /\ at[Loader] = "subsystems" => NoSubsystems /\ _usersim_platform_initiate_count = 1 /\ _cxplat_initialized
         /\ at[Loader] = "out" => IF outcome[Loader] = "ok" THEN Up
                                  ELSE Down /\ _usersim_platform_initiate_count = 0
         /\ at[Loader] \in {"terminate", "cleanup", "count"} =>
              outcome[Loader] = "failed" /\ _usersim_platform_initiate_count = 1
    /\ ld.pc = "gone" =>
         /\ at[Loader] \in {"terminate", "cleanup", "count", "out"}
         /\ at[Loader] # "out" => _usersim_platform_initiate_count \in {0, 1}
         /\ at[Loader] = "out" /\ ~bugcheck => _usersim_platform_initiate_count = 0
         /\ at[Loader] = "out" => Down
    /\ at[Loader] = "cleanup" => NoSubsystems
    /\ at[Loader] = "count" => Down

\* The framework: the devices alive are on the list of the driver in the slot, and
\* the other lists are empty; the structure belongs to the load that is under way.
WdfInv ==
    /\ Driver \in Dlls \cup {None}
    /\ driver_object \in [Dlls -> [devices : Seq(Devices), EvtDriverDeviceAdd : BOOLEAN]]
    /\ device_init \in InitStructs \cup {None}
    /\ device \in [Devices -> DeviceObjects \cup {None}]
    /\ \A d \in Dlls \ {Driver} : driver_object[d].devices = << >>
    /\ \A x \in Devices : device[x] # None <=>
         Driver # None /\ x \in Range(driver_object[Driver].devices)
    /\ ld.pc \in {"init", "queue", "undo"} => Driver = ld.dll
    /\ ld.pc = "init" => device_init \in InitStructs /\ driver_object[ld.dll].devices = << >>
    /\ ld.pc = "queue" => ld.device \in Range(driver_object[ld.dll].devices)
    /\ ld.pc = "undo" => device_init = None \/ driver_object[ld.dll].devices = << >>
    /\ ld.pc \notin {"init", "undo"} => device_init = None

\* The references of a DLL are its clients, but for one that is being loaded or
\* detached.
Ending(d) == ld.pc \in Ends /\ ld.dll = d
ClientsOf(d) == {c \in Clients : client[c].pc # "out" /\ client[c].dll = d}
RefsInv ==
    /\ \A d \in Dlls : Ending(d) => refs[d] <= 1 /\ ClientsOf(d) = {}
    /\ \A d \in Dlls : ~Ending(d) => refs[d] = Cardinality(ClientsOf(d))
    /\ ld.pc \in Loads \cup {"undo"} => refs[ld.dll] = 0
    /\ ld.pc \in Loads => client[ld.c] = Out

\* A mapped driver has the slot unless another's detach stopped it, and the slot
\* belongs to a mapped driver or to the one that is being loaded.
SlotInv ==
    /\ \A d \in Mapped \ usurped : Driver = d \/ (ld.pc = "unmap" /\ ld.dll = d)
    /\ Driver # None => Driver \in Mapped \/ (ld.pc \in {"init", "queue", "undo", "detach"} /\ Driver = ld.dll)
    /\ ld.pc = "unmap" => Driver = None

\* What a client of a driver that was not stopped holds is a device of the driver.
Serving(d) == d \in Mapped \ usurped /\ ~Ending(d)
DevicesInv ==
    \A c \in Clients :
      client[c].pc \in {"device", "request"} /\ Serving(client[c].dll)
        => client[c].device \in Range(driver_object[client[c].dll].devices)

HostInv == HostTypes /\ LibInv /\ PlatInv /\ WdfInv /\ RefsInv /\ SlotInv /\ DevicesInv


-----------------------------------------------------------------------------
(* Counting.  The facts about finite sets that the lemmas below use; they   *)
(* are proved from the library in the section on the users of the library.  *)
SetFacts ==
    /\ IsFiniteSet({}) /\ Cardinality({}) = 0
    /\ \A S : IsFiniteSet(S) => Cardinality(S) \in Nat /\ (Cardinality(S) = 0 <=> S = {})
    /\ \A S, T : IsFiniteSet(T) /\ S \subseteq T => IsFiniteSet(S)
    /\ \A S, x : IsFiniteSet(S) /\ x \notin S => Cardinality(S \cup {x}) = Cardinality(S) + 1
    /\ \A S, x : IsFiniteSet(S) /\ x \in S =>
         IsFiniteSet(S \ {x}) /\ Cardinality(S \ {x}) = Cardinality(S) - 1

-----------------------------------------------------------------------------
(* How the records of the loader and of a client change.                   *)

\* Loading(p) changes the step of the loader and nothing else of it.
LEMMA LoaderMoves ==
  ASSUME ld \in LoaderStates, ld.dll \in Dlls,
         NEW p \in (Loads \cup Ends \cup {"undo", "gone"}), Loading(p), p \in Loads => ld.c \in Clients
  PROVE  /\ ld' \in LoaderStates
         /\ ld'.pc = p /\ ld'.c = ld.c /\ ld'.dll = ld.dll /\ ld'.device = ld.device
BY DEF Loading, LoaderStates

\* A client that changes to a legal state leaves the others as they are.
LEMMA ClientMoves ==
  ASSUME HostTypes, NEW c \in Clients, NEW r \in ClientStates,
         client' = [client EXCEPT ![c] = r], ClientOK(r)
  PROVE  /\ client' \in [Clients -> ClientStates]
         /\ client'[c] = r /\ \A b \in Clients \ {c} : client'[b] = client[b]
         /\ \A b \in Clients : ClientOK(client'[b])
<1>1. client \in [Clients -> ClientStates]
  BY DEF HostTypes
<1>2. client' \in [Clients -> ClientStates] /\ client'[c] = r /\ \A b \in Clients \ {c} : client'[b] = client[b]
  BY <1>1
<1> QED BY <1>2 DEF HostTypes

\* A loader that is idle is at "idle".
LEMMA IdleIsIdle == Idle.pc = "idle"
BY DEF Idle

\* A client that has no DLL is at "out".
LEMMA OutIsOut == Out.pc = "out"
BY DEF Out

\* What a list of devices contains are devices.
LEMMA DevicesOnly ==
  ASSUME NEW s \in Seq(Devices), NEW x \in Range(s)
  PROVE  x \in Devices
BY DEF Range

\* A client with the DLL d is a client in the state "loaded".
LEMMA OutAndLoaded ==
  ASSUME NEW d \in Dlls
  PROVE  LET r == [Out EXCEPT !.pc = "loaded", !.dll = d]
         IN  ClientOK(Out) /\ ClientOK(r) /\ Out \in ClientStates /\ Out.pc = "out" /\ r \in ClientStates /\ r.pc = "loaded" /\ r.dll = d
BY Zenon DEF Out, ClientStates, ClientOK

\* A client that has loaded a DLL has it, and nothing else yet.
LEMMA LoadedBy ==
  ASSUME HostTypes, NEW c \in Clients, NEW d \in Dlls, Loaded(c, d)
  PROVE  /\ client' \in [Clients -> ClientStates]
         /\ client'[c].pc = "loaded" /\ client'[c].dll = d
         /\ \A b \in Clients \ {c} : client'[b] = client[b]
         /\ \A b \in Clients : ClientOK(client'[b])
<1> DEFINE r == [Out EXCEPT !.pc = "loaded", !.dll = d]
<1>1. r \in ClientStates /\ r.pc = "loaded" /\ r.dll = d /\ ClientOK(r) /\ client' = [client EXCEPT ![c] = r]
  BY OutAndLoaded, Zenon DEF Loaded
<1> HIDE DEF r
<1> QED BY <1>1, ClientMoves, Zenon

\* The steps of a client that change only what it holds.
ClientStep(c) == GetDevice(c) \/ usersim_device_io_control(c) \/ KmdfHelloWorldIoDeviceControl(c)

\* A step of a client, getting a device or making or getting the answer to a
\* request, keeps its DLL; a device it gets is one of the driver in the slot.
LEMMA ClientSteps ==
  ASSUME HostTypes, WdfInv, NEW c \in Clients, ClientStep(c)
  PROVE  /\ HostTypes'
         /\ \A b \in Clients \ {c} : client'[b] = client[b]
         /\ client[c].pc # "out" /\ client'[c].pc \in {"device", "request"} /\ client'[c].dll = client[c].dll
         /\ \/ client[c].pc \in {"device", "request"} /\ client'[c].device = client[c].device
            \/ Driver # None /\ client'[c].device \in Range(driver_object[Driver].devices)
<1>0. PICK s \in ClientStates : s = client[c] /\ ClientOK(s)
  BY DEF HostTypes
<1>1. /\ client \in [Clients -> ClientStates]
      /\ UNCHANGED <<refs, ld>>
  BY Zenon DEF HostTypes, ClientStep, GetDevice, usersim_device_io_control, KmdfHelloWorldIoDeviceControl
<1>2. ASSUME NEW r \in ClientStates, client' = [client EXCEPT ![c] = r], ClientOK(r)
      PROVE  HostTypes' /\ client'[c] = r /\ \A b \in Clients \ {c} : client'[b] = client[b]
  BY <1>1, <1>2, ClientMoves DEF HostTypes
<1>3. CASE GetDevice(c)
  <2>1. PICK name, x : /\ x \in usersim_get_device_by_name(Driver, name)
                       /\ client' = [client EXCEPT ![c].pc = "device", ![c].device = x]
    BY <1>3, Zenon DEF GetDevice, usersim_dll_get_driver_from_module
  <2>2. Driver \in Dlls /\ s.pc = "loaded"
    BY <1>0, <1>3 DEF GetDevice, usersim_dll_get_driver_from_module, WdfInv
  <2>3. x \in Range(driver_object[Driver].devices)
    BY <2>1 DEF usersim_get_device_by_name, Range
  <2>4. driver_object[Driver].devices \in Seq(Devices)
    BY <2>2 DEF WdfInv
  <2>5. x \in Devices
    BY <2>3, <2>4 DEF Range
  <2> DEFINE r == [s EXCEPT !.pc = "device", !.device = x]
  <2>6. r \in ClientStates /\ r.pc = "device" /\ r.device = x /\ r.dll = s.dll /\ ClientOK(r)
    BY <2>2, <2>5, <1>0, Zenon DEF ClientStates, ClientOK
  <2>7. client' = [client EXCEPT ![c] = r]
    BY <2>1, <1>0, <1>1, Zenon
  <2> HIDE DEF r
  <2> QED BY <2>2, <2>3, <2>6, <2>7, <1>0, <1>2, WdfAssumption, Zenon
<1>4. CASE usersim_device_io_control(c)
  <2>1. PICK in, out \in Sizes, code \in {0, 1} :
          client' = [client EXCEPT ![c].pc = "request", ![c].request = NewRequest(in, out), ![c].code = code]
    BY <1>4, Zenon DEF usersim_device_io_control
  <2>2. s.pc = "device"
    BY <1>0, <1>4 DEF usersim_device_io_control
  <2>3. PICK q \in Requests : q = NewRequest(in, out)
    BY DEF Requests
  <2> DEFINE r == [s EXCEPT !.pc = "request", !.request = q, !.code = code]
  <2>6. r \in ClientStates /\ r.pc = "request" /\ r.device = s.device /\ r.dll = s.dll /\ ClientOK(r)
    BY <2>2, <1>0, Zenon DEF ClientStates, ClientOK
  <2>7. client' = [client EXCEPT ![c] = r]
    BY <2>1, <2>3, <1>0, <1>1, Zenon
  <2> HIDE DEF r
  <2> QED BY <2>2, <2>6, <2>7, <1>0, <1>2, Zenon
<1>5. CASE KmdfHelloWorldIoDeviceControl(c)
  <2>1. client' = [client EXCEPT ![c].pc = "device", ![c].request = None, ![c].code = 0]
    BY <1>5 DEF KmdfHelloWorldIoDeviceControl
  <2>2. s.pc = "request"
    BY <1>0, <1>5 DEF KmdfHelloWorldIoDeviceControl
  <2> DEFINE r == [s EXCEPT !.pc = "device", !.request = None, !.code = 0]
  <2>6. r \in ClientStates /\ r.pc = "device" /\ r.device = s.device /\ r.dll = s.dll /\ ClientOK(r)
    BY <2>2, <1>0, Zenon DEF ClientStates, ClientOK
  <2>7. client' = [client EXCEPT ![c] = r]
    BY <2>1, <1>0, <1>1, Zenon
  <2> HIDE DEF r
  <2> QED BY <2>2, <2>6, <2>7, <1>0, <1>2, Zenon
<1> QED BY <1>3, <1>4, <1>5 DEF ClientStep

-----------------------------------------------------------------------------
(* The platform.                                                           *)

PlatformState == <<at, outcome, _usersim_platform_initiate_count, _cxplat_initialized, subsystems>>

\* A driver is being attached or detached: the platform is up.
Mid == {"start", "init", "queue", "undo", "detach", "unmap"}

\* A step beside the platform.
LEMMA PlatUnchanged ==
  ASSUME PlatInv, UNCHANGED PlatformState, ld'.pc = ld.pc, Mapped' = Mapped, bugcheck' = bugcheck
  PROVE  PlatInv'
BY DEF PlatInv, PlatformState, Up, Down, NoSubsystems

\* A step of the loader in the middle of a load or a detach: usersim.dll is attached.
LEMMA PlatMid ==
  ASSUME PlatInv, UNCHANGED PlatformState, ld.pc \in Mid, ld'.pc \in Mid
  PROVE  PlatInv'
<1>1. at[Loader] = "out" /\ Up
  BY DEF PlatInv, Mid
<1>2. at'[Loader] = "out" /\ Up'
  BY <1>1 DEF PlatformState, Up
<1> QED BY <1>2 DEF PlatInv, Mid, PlatformState

\* With a driver mapped, the loader is idle before or after it.
LEMMA PlatMapped ==
  ASSUME PlatInv, UNCHANGED PlatformState, at[Loader] = "out" /\ Up,
         ld'.pc \in Mid \/ (ld'.pc = "idle" /\ Mapped' # {})
  PROVE  PlatInv'
<1>2. at'[Loader] = "out" /\ Up'
  BY DEF PlatformState, Up
<1> QED BY <1>2 DEF PlatInv, Mid, PlatformState

\* Every step of usersim_platform_initiate and usersim_platform_terminate keeps
\* the platform as PlatInv describes it, the steps that fail included.
LEMMA PlatSteps ==
  ASSUME HostTypes, PlatInv, ~bugcheck, PlatformStep(Loader), UNCHANGED <<ld, refs>>
  PROVE  PlatInv'
<1>0. PICK p, q : p = ld.pc /\ q = at[Loader]
  OBVIOUS
<1>1. /\ ld'.pc = p /\ Mapped' = Mapped
      /\ p \in Loads \cup Ends \cup {"idle", "undo", "gone"}
      /\ at \in [Threads -> Steps]
      /\ outcome \in [Threads -> Results]
  BY <1>0 DEF PlatInv, Mapped, HostTypes, LoaderStates
<1>2. q # "out" => p \in {"usersim", "gone"} /\ Mapped = {}
  BY <1>0, <1>1 DEF PlatInv, Loads, Ends
<1>3. CASE initiate_cxplat(Loader)
  <2>1. q = "cxplat"
    BY <1>0, <1>3 DEF initiate_cxplat
  <2>2. p = "usersim" /\ Down /\ _usersim_platform_initiate_count = 1
    BY <1>0, <1>2, <2>1 DEF PlatInv
  <2>3. PICK ok \in BOOLEAN :
          /\ _cxplat_initialized' = (ok \/ _cxplat_initialized)
          /\ IF ok THEN Goto(Loader, "subsystems") /\ UNCHANGED outcome
                   ELSE Goto(Loader, "terminate") /\ Returns(Loader, "failed")
    BY <1>3 DEF initiate_cxplat
  <2>4. UNCHANGED <<_usersim_platform_initiate_count, subsystems, bugcheck>>
    BY <1>3 DEF initiate_cxplat
  <2>5. CASE ok
    <3>1. at' = [at EXCEPT ![Loader] = "subsystems"] /\ outcome' = outcome /\ _cxplat_initialized'
      BY <2>3, <2>5, Zenon DEF Goto
    <3>2. at'[Loader] = "subsystems" /\ at' \in [Threads -> Steps]
      BY <3>1, <1>1, HostAssumption DEF Steps, Results
    <3> QED BY <3>1, <3>2, <2>2, <2>4, <1>1, <1>2, <2>1 DEF PlatInv, Down, NoSubsystems
  <2>6. CASE ~ok
    <3>1. at' = [at EXCEPT ![Loader] = "terminate"] /\ outcome' = [outcome EXCEPT ![Loader] = "failed"]
      BY <2>3, <2>6 DEF Goto, Returns
    <3>2. /\ at'[Loader] = "terminate" /\ at' \in [Threads -> Steps]
          /\ outcome'[Loader] = "failed" /\ outcome' \in [Threads -> Results]
      BY <3>1, <1>1, HostAssumption DEF Steps, Results
    <3> QED BY <3>2, <2>2, <2>4, <1>1, <1>2, <2>1 DEF PlatInv
  <2> QED BY <2>5, <2>6
<1>4. CASE initiate_subsystems(Loader)
  <2>1. q = "subsystems"
    BY <1>0, <1>4 DEF initiate_subsystems
  <2>2. p = "usersim" /\ _cxplat_initialized /\ _usersim_platform_initiate_count = 1
    BY <1>0, <1>2, <2>1 DEF PlatInv
  <2>3. PICK n \in {0, 1, 2, 4} :
          /\ subsystems' = subsystems \cup {Subsystems[i] : i \in 1..n}
          /\ IF n = 4 THEN Goto(Loader, "out") /\ Returns(Loader, "ok")
                      ELSE Goto(Loader, "terminate") /\ Returns(Loader, "failed")
    BY <1>4 DEF initiate_subsystems
  <2>4. UNCHANGED <<_usersim_platform_initiate_count, _cxplat_initialized, bugcheck>>
    BY <1>4 DEF initiate_subsystems
  <2>5. CASE n = 4
    <3>1. at' = [at EXCEPT ![Loader] = "out"] /\ outcome' = [outcome EXCEPT ![Loader] = "ok"]
      BY <2>3, <2>5 DEF Goto, Returns
    <3>2. /\ at'[Loader] = "out" /\ at' \in [Threads -> Steps]
          /\ outcome'[Loader] = "ok" /\ outcome' \in [Threads -> Results]
      BY <3>1, <1>1, HostAssumption DEF Steps, Results
    <3>3. {"irql", "dpcs", "se", "wdf"} \subseteq {Subsystems[i] : i \in 1..4}
      <4>1. Subsystems[1] = "irql" /\ Subsystems[2] = "dpcs" /\ Subsystems[3] = "se" /\ Subsystems[4] = "wdf"
        BY DEF Subsystems
      <4> QED BY <4>1
    <3>4. Up'
      BY <3>3, <2>2, <2>3, <2>4, <2>5 DEF Up
    <3> QED BY <3>2, <3>4, <2>2, <1>1, <1>2, <2>1 DEF PlatInv
  <2>6. CASE n # 4
    <3>1. at' = [at EXCEPT ![Loader] = "terminate"] /\ outcome' = [outcome EXCEPT ![Loader] = "failed"]
      BY <2>3, <2>6 DEF Goto, Returns
    <3>2. /\ at'[Loader] = "terminate" /\ at' \in [Threads -> Steps]
          /\ outcome'[Loader] = "failed" /\ outcome' \in [Threads -> Results]
      BY <3>1, <1>1, HostAssumption DEF Steps, Results
    <3> QED BY <3>2, <2>2, <2>4, <1>1, <1>2, <2>1 DEF PlatInv
  <2> QED BY <2>5, <2>6
<1>5. CASE terminate_subsystems(Loader)
  <2>1. q = "terminate" /\ subsystems' = subsystems \ {"dpcs", "irql"} /\ at' = [at EXCEPT ![Loader] = "cleanup"]
    BY <1>0, <1>5 DEF terminate_subsystems, Goto
  <2>2. UNCHANGED <<_usersim_platform_initiate_count, _cxplat_initialized, outcome, bugcheck>>
    BY <1>5 DEF terminate_subsystems
  <2>3. at'[Loader] = "cleanup" /\ at' \in [Threads -> Steps]
    BY <2>1, <1>1, HostAssumption DEF Steps, Results
  <2>4. NoSubsystems'
    BY <2>1 DEF NoSubsystems
  <2> QED BY <1>0, <1>1, <1>2, <2>1, <2>2, <2>3, <2>4 DEF PlatInv
<1>6. CASE terminate_cxplat(Loader)
  <2>1. q = "cleanup" /\ ~_cxplat_initialized' /\ at' = [at EXCEPT ![Loader] = "count"]
    BY <1>0, <1>6 DEF terminate_cxplat, Goto
  <2>2. UNCHANGED <<_usersim_platform_initiate_count, subsystems, outcome, bugcheck>>
    BY <1>6 DEF terminate_cxplat
  <2>3. at'[Loader] = "count" /\ at' \in [Threads -> Steps]
    BY <2>1, <1>1, HostAssumption DEF Steps, Results
  <2>4. Down'
    BY <1>0, <2>1, <2>2 DEF Down, NoSubsystems, PlatInv
  <2> QED BY <1>0, <1>1, <1>2, <2>1, <2>2, <2>3, <2>4 DEF PlatInv
<1>7. CASE terminate_count(Loader)
  <2>1. /\ q = "count" /\ _usersim_platform_initiate_count' = _usersim_platform_initiate_count - 1
        /\ bugcheck' = (_usersim_platform_initiate_count - 1 < 0) /\ at' = [at EXCEPT ![Loader] = "out"]
    BY <1>0, <1>7 DEF terminate_count, Goto
  <2>2. UNCHANGED <<_cxplat_initialized, subsystems, outcome>>
    BY <1>7 DEF terminate_count
  <2>3. at'[Loader] = "out" /\ at' \in [Threads -> Steps]
    BY <2>1, <1>1, HostAssumption DEF Steps, Results
  <2>4. Down'
    BY <1>0, <2>1, <2>2 DEF Down, NoSubsystems, PlatInv
  <2>5. CASE p = "usersim"
    <3>1. _usersim_platform_initiate_count = 1 /\ outcome[Loader] = "failed"
      BY <1>0, <2>1, <2>5 DEF PlatInv
    <3>2. _usersim_platform_initiate_count' = 0 /\ outcome'[Loader] = "failed"
      BY <3>1, <2>1, <2>2
    <3> QED BY <1>1, <1>2, <2>1, <2>2, <2>3, <2>4, <2>5, <3>2, Zenon DEF PlatInv
  <2>6. CASE p = "gone"
    <3>1. _usersim_platform_initiate_count \in {0, 1}
      BY <1>0, <2>1, <2>6 DEF PlatInv
    <3>2. ~bugcheck' => _usersim_platform_initiate_count' = 0
      <4>1. CASE _usersim_platform_initiate_count = 1
        BY <4>1, <2>1
      <4>2. CASE _usersim_platform_initiate_count = 0
        <5>1. _usersim_platform_initiate_count - 1 < 0
          BY <4>2
        <5> QED BY <5>1, <2>1, Zenon
      <4> QED BY <3>1, <4>1, <4>2
    <3> QED BY <1>1, <1>2, <2>1, <2>2, <2>3, <2>4, <2>6, <3>2 DEF PlatInv
  <2> QED BY <2>1, <2>5, <2>6, <1>2
<1> QED BY <1>3, <1>4, <1>5, <1>6, <1>7 DEF PlatformStep

\* At the start there is no platform.
LEMMA PlatInitially == Init => PlatInv
<1> SUFFICES ASSUME Init PROVE PlatInv
  OBVIOUS
<1>1. /\ ld.pc = "idle" /\ at = [t \in Threads |-> "out"] /\ outcome = [t \in Threads |-> "none"]
      /\ refs = [d \in Dlls |-> 0] /\ _usersim_platform_initiate_count = 0 /\ _cxplat_initialized = FALSE /\ subsystems = {}
  BY DEF Init, PlatformInit, Idle
<1>2. Mapped = {} /\ Down /\ at[Loader] = "out"
  BY <1>1, HostAssumption DEF Mapped, Down, NoSubsystems
<1> QED BY <1>1, <1>2 DEF PlatInv, Steps, Results

-----------------------------------------------------------------------------
(* The framework, the references and the slot.                             *)

\* The clients of a DLL can be counted.
LEMMA ClientsFinite ==
  ASSUME SetFacts
  PROVE  \A d : /\ IsFiniteSet(ClientsOf(d)) /\ Cardinality(ClientsOf(d)) \in Nat
                /\ Cardinality(ClientsOf(d)) = 0 <=> ClientsOf(d) = {}
<1> SUFFICES ASSUME NEW d
             PROVE  /\ IsFiniteSet(ClientsOf(d)) /\ Cardinality(ClientsOf(d)) \in Nat
                    /\ Cardinality(ClientsOf(d)) = 0 <=> ClientsOf(d) = {}
  OBVIOUS
<1>1. IsFiniteSet(ClientsOf(d))
  BY HostAssumption DEF ClientsOf, SetFacts
<1> QED BY <1>1 DEF SetFacts

\* A step beside the framework and the loader.
LEMMA WdfUnchanged ==
  ASSUME WdfInv, UNCHANGED wdfVars, ld' = ld
  PROVE  WdfInv'
BY DEF WdfInv, wdfVars

\* A step of the loader beside the framework, outside a load of a device.
LEMMA WdfAside ==
  ASSUME WdfInv, UNCHANGED wdfVars, ld.pc \notin {"init", "undo"}, ld'.pc \notin {"init", "queue", "undo"}
  PROVE  WdfInv'
BY DEF WdfInv, wdfVars

\* A step that touches neither the loader, the references nor the framework, and
\* no client but one that goes on with its DLL.
LEMMA OthersUnchanged ==
  ASSUME HostTypes, RefsInv, SlotInv, DevicesInv, UNCHANGED <<wdfVars, refs, ld, client, usurped>>
  PROVE  HostTypes' /\ RefsInv' /\ SlotInv' /\ DevicesInv'
BY DEF HostTypes, RefsInv, SlotInv, DevicesInv, wdfVars, Mapped, Ending, ClientsOf, Serving

\* The steps of a client after it has loaded its DLL.
LEMMA ClientStepInv ==
  ASSUME HostInv, NEW c \in Clients, ClientStep(c)
  PROVE  HostTypes' /\ PlatInv' /\ WdfInv' /\ RefsInv' /\ SlotInv' /\ DevicesInv'
<1>1. UNCHANGED <<platformVars, wdfVars, refs, ld, usurped>>
  BY Zenon DEF ClientStep, GetDevice, usersim_device_io_control, KmdfHelloWorldIoDeviceControl
<1>2. /\ HostTypes'
      /\ \A b \in Clients \ {c} : client'[b] = client[b]
      /\ client[c].pc # "out" /\ client'[c].pc \in {"device", "request"} /\ client'[c].dll = client[c].dll
      /\ \/ client[c].pc \in {"device", "request"} /\ client'[c].device = client[c].device
         \/ Driver # None /\ client'[c].device \in Range(driver_object[Driver].devices)
  BY ClientSteps DEF HostInv
<1>3. PlatInv'
  BY <1>1, PlatUnchanged DEF HostInv, platformVars, PlatformState, Mapped
<1>4. WdfInv'
  BY <1>1, WdfUnchanged DEF HostInv
<1>5. \A d \in Dlls : ClientsOf(d)' = ClientsOf(d) /\ Ending(d)' = Ending(d) /\ Serving(d)' = Serving(d)
  BY <1>1, <1>2, Zenon DEF ClientsOf, Ending, Serving, Mapped
<1>6. ld.pc \in Loads => ld.c # c
  BY <1>2, OutIsOut, Zenon DEF HostInv, RefsInv
<1>7. RefsInv'
  BY <1>1, <1>2, <1>5, <1>6 DEF HostInv, HostTypes, RefsInv
<1>8. SlotInv'
  BY <1>1 DEF HostInv, SlotInv, Mapped, wdfVars
<1>9. DevicesInv'
  <2> SUFFICES ASSUME NEW b \in Clients, client'[b].pc \in {"device", "request"}, Serving(client[b].dll)
               PROVE  client'[b].device \in Range(driver_object[client[b].dll].devices)
    BY <1>1, <1>2 DEF DevicesInv, wdfVars, Serving, Mapped, Ending
  <2>1. CASE b # c
    BY <2>1, <1>2 DEF HostInv, DevicesInv
  <2>2. CASE b = c
    <3>1. CASE client[c].pc \in {"device", "request"} /\ client'[c].device = client[c].device
      BY <3>1, <2>2 DEF HostInv, DevicesInv
    <3>2. CASE client'[c].device \in Range(driver_object[Driver].devices)
      <4>1. Driver = client[c].dll
        BY <2>2 DEF HostInv, SlotInv, Serving, Ending, Ends
      <4> QED BY <4>1, <3>2, <2>2
    <3> QED BY <3>1, <3>2, <1>2
  <2> QED BY <2>1, <2>2
<1> QED BY <1>2, <1>3, <1>4, <1>7, <1>8, <1>9

\* A loader step that leaves the references, the clients and the slot alone.
LEMMA LoaderAside ==
  ASSUME HostTypes, RefsInv, SlotInv, DevicesInv, UNCHANGED <<refs, client, usurped, Driver, driver_object>>,
         ld.pc \notin Ends, ld'.pc \notin Ends,
         ld'.pc \in Loads \cup {"undo"} => ld.pc \in Loads \cup {"undo"} /\ ld'.dll = ld.dll,
         ld'.pc \in Loads => ld.pc \in Loads /\ ld'.c = ld.c,
         ld.pc \in {"init", "queue", "undo"} /\ Driver = ld.dll => ld'.pc \in {"init", "queue", "undo"}
  PROVE  RefsInv' /\ SlotInv' /\ DevicesInv'
<1>1. \A d : ~Ending(d) /\ ~Ending(d)' /\ ClientsOf(d)' = ClientsOf(d) /\ Serving(d)' = Serving(d)
  BY DEF Ending, ClientsOf, Serving, Mapped
<1>2. Mapped' = Mapped
  BY DEF Mapped
<1>3. RefsInv'
  BY <1>1 DEF RefsInv
<1>4. SlotInv'
  BY <1>2 DEF SlotInv, Ends, Loads
<1>5. DevicesInv'
  BY <1>1 DEF DevicesInv
<1> QED BY <1>3, <1>4, <1>5

\* A load that failed goes on with the detach of its DLL.
LEMMA LoaderFails ==
  ASSUME SetFacts, HostTypes, RefsInv, UNCHANGED <<refs, client, usurped>>, ld.pc \in Loads \cup {"undo"},
         ld'.pc = "detach", ld'.dll = ld.dll,
         \A d \in Mapped \ usurped : Driver' = d,
         Driver' # None => Driver' \in Mapped \cup {ld.dll},
         DevicesInv, \A d \in Dlls \ {ld.dll} : driver_object'[d].devices = driver_object[d].devices
  PROVE  RefsInv' /\ SlotInv' /\ DevicesInv'
<1>1. ld.dll \in Dlls /\ ClientsOf(ld.dll) = {} /\ refs[ld.dll] = 0
  BY ClientsFinite DEF HostTypes, RefsInv, Ending, Loads, Ends
<1>2. \A d : ClientsOf(d)' = ClientsOf(d) /\ ~Ending(d) /\ (Ending(d)' <=> d = ld.dll)
  BY DEF ClientsOf, Ending, Loads, Ends
<1>3. Mapped' = Mapped
  BY DEF Mapped
<1>4. RefsInv'
  BY <1>1, <1>2 DEF RefsInv, Loads, Ends
<1>5. SlotInv'
  BY <1>1, <1>3 DEF SlotInv
<1>6. ASSUME NEW d, Serving(d)' PROVE Serving(d) /\ d # ld.dll
  BY <1>2, <1>3, <1>6 DEF Serving
<1>7. DevicesInv'
  <2> SUFFICES ASSUME NEW c \in Clients, client[c].pc \in {"device", "request"}, Serving(client[c].dll)'
               PROVE  client[c].device \in Range(driver_object'[client[c].dll].devices)
    BY DEF DevicesInv, Serving, Ending, Mapped
  <2>1. Serving(client[c].dll) /\ client[c].dll \in Dlls \ {ld.dll}
    BY <1>6 DEF Serving, Mapped
  <2> QED BY <2>1 DEF DevicesInv
<1> QED BY <1>4, <1>5, <1>7

-----------------------------------------------------------------------------
(* The steps of the loader, and the clients' loads and frees.              *)

Others == HostTypes /\ PlatInv /\ WdfInv /\ RefsInv /\ SlotInv /\ DevicesInv

\* The DLL is mapped already: one more client of it.
LEMMA LoadCounted ==
  ASSUME SetFacts, Others, NEW c \in Clients, NEW d \in Dlls, ld = Idle, client[c] = Out, refs[d] > 0,
         Loaded(c, d), refs' = [refs EXCEPT ![d] = @ + 1],
         UNCHANGED <<platformVars, ld, wdfVars, usurped>>
  PROVE  Others'
<1>0. PICK n \in Nat : n = refs[d]
  BY DEF Others, HostTypes
<1>1. /\ client' \in [Clients -> ClientStates]
      /\ client'[c].pc = "loaded" /\ client'[c].dll = d
      /\ \A b \in Clients \ {c} : client'[b] = client[b]
      /\ \A b \in Clients : ClientOK(client'[b])
  BY LoadedBy DEF Others
<1>2. ld.pc = "idle" /\ client[c].pc = "out"
  BY IdleIsIdle, OutIsOut, Zenon
<1>3. n > 0 /\ refs \in [Dlls -> Nat] /\ refs' = [refs EXCEPT ![d] = n + 1]
  BY <1>0 DEF Others, HostTypes
<1>4. refs' \in [Dlls -> Nat] /\ refs'[d] = n + 1 /\ \A e \in Dlls \ {d} : refs'[e] = refs[e]
  BY <1>3
<1>5. Mapped' = Mapped
  BY <1>0, <1>3, <1>4 DEF Mapped
<1>6. HostTypes'
  BY <1>1, <1>4 DEF Others, HostTypes
<1>7. PlatInv'
  BY <1>5, PlatUnchanged DEF Others, platformVars, PlatformState
<1>8. WdfInv'
  BY WdfUnchanged DEF Others
<1>9. \A e : ~Ending(e) /\ ~Ending(e)' /\ Serving(e)' = Serving(e)
  BY <1>2, <1>5 DEF Ending, Serving, Ends
<1>10. RefsInv'
  <2>1. \A e \in Dlls : refs'[e] = Cardinality(ClientsOf(e)')
    <3>1. ASSUME NEW e \in Dlls \ {d} PROVE ClientsOf(e)' = ClientsOf(e)
      BY <1>1, <1>2 DEF ClientsOf
    <3>2. ClientsOf(d)' = ClientsOf(d) \cup {c} /\ c \notin ClientsOf(d)
      BY <1>1, <1>2 DEF ClientsOf
    <3>3. Cardinality(ClientsOf(d) \cup {c}) = Cardinality(ClientsOf(d)) + 1
      BY <3>2, ClientsFinite, Zenon DEF SetFacts
    <3>4. \A e \in Dlls : refs[e] = Cardinality(ClientsOf(e))
      BY <1>9 DEF Others, RefsInv
    <3>5. n + 1 = Cardinality(ClientsOf(d)) + 1
      BY <3>4, <1>0
    <3> QED BY <3>1, <3>2, <3>3, <3>4, <3>5, <1>4, Zenon
  <2> QED BY <2>1, <1>2, <1>9 DEF RefsInv, Loads
<1>11. SlotInv'
  BY <1>5 DEF Others, SlotInv, wdfVars
<1>12. DevicesInv'
  BY <1>1, <1>9, Zenon DEF Others, DevicesInv, wdfVars
<1> QED BY <1>6, <1>7, <1>8, <1>10, <1>11, <1>12 DEF Others

\* The DLL is not mapped: the loader maps it, after usersim.dll if it is the first.
LEMMA LoadBegins ==
  ASSUME Others, NEW c \in Clients, NEW d \in Dlls, ld = Idle, client[c] = Out, ~(refs[d] > 0),
         ld' = [Idle EXCEPT !.pc = IF Mapped = {} THEN "usersim" ELSE "start", !.c = c, !.dll = d],
         IF Mapped = {} THEN usersim_platform_initiate(Loader) ELSE UNCHANGED platformVars,
         UNCHANGED <<refs, client, wdfVars, usurped>>
  PROVE  Others'
<1>1. ld.pc = "idle"
  BY DEF Idle
<1>2. /\ ld' \in LoaderStates /\ ld'.c = c /\ ld'.dll = d
      /\ ld'.pc = IF Mapped = {} THEN "usersim" ELSE "start"
  <2>1. PICK p \in {"usersim", "start"} : p = IF Mapped = {} THEN "usersim" ELSE "start"
    OBVIOUS
  <2>2. ld' = [Idle EXCEPT !.pc = p, !.c = c, !.dll = d]
    BY <2>1
  <2> QED BY <2>1, <2>2, Zenon DEF Idle, LoaderStates, Loads
<1>3. Mapped' = Mapped
  BY DEF Mapped
<1>4. HostTypes'
  BY <1>2 DEF Others, HostTypes
<1>5. PlatInv'
  <2>1. CASE Mapped # {}
    BY <2>1, <1>1, <1>2, PlatMapped DEF Others, PlatInv, platformVars, PlatformState, Mid
  <2>2. CASE Mapped = {}
    <3>1. /\ at[Loader] = "out" /\ Down /\ _usersim_platform_initiate_count = 0
          /\ at \in [Threads -> Steps]
          /\ outcome \in [Threads -> Results]
      BY <2>2, <1>1 DEF Others, PlatInv
    <3>2. /\ _usersim_platform_initiate_count' = 1 /\ UNCHANGED <<_cxplat_initialized, subsystems>>
          /\ at' = [at EXCEPT ![Loader] = "cxplat"] /\ outcome' = [outcome EXCEPT ![Loader] = "none"]
      BY <2>2, <3>1 DEF usersim_platform_initiate, Goto, Returns
    <3>3. /\ at'[Loader] = "cxplat" /\ outcome' \in [Threads -> Results]
          /\ at' \in [Threads -> Steps]
      BY <3>1, <3>2, HostAssumption DEF Steps, Results
    <3>4. Down'
      BY <3>1, <3>2 DEF Down, NoSubsystems
    <3> QED BY <3>2, <3>3, <3>4, <2>2, <1>2, <1>3 DEF PlatInv
  <2> QED BY <2>1, <2>2
<1>6. WdfInv'
  BY <1>1, <1>2, WdfAside DEF Others
<1>7. \A e : ~Ending(e) /\ ~Ending(e)' /\ ClientsOf(e)' = ClientsOf(e) /\ Serving(e)' = Serving(e)
  BY <1>1, <1>2, <1>3 DEF Ending, Serving, Ends, ClientsOf
<1>8. refs[d] = 0
  BY DEF Others, HostTypes
<1>9. RefsInv'
  BY <1>1, <1>2, <1>7, <1>8 DEF Others, RefsInv, Loads
<1>10. SlotInv'
  BY <1>1, <1>2, <1>3 DEF Others, SlotInv, wdfVars
<1>11. DevicesInv'
  BY <1>7 DEF Others, DevicesInv, wdfVars
<1> QED BY <1>4, <1>5, <1>6, <1>9, <1>10, <1>11 DEF Others

\* LoadLibrary, of a DLL that is mapped or not.
LEMMA LoadLibraryInv ==
  ASSUME SetFacts, Others, NEW c \in Clients, NEW d \in Dlls, LoadLibrary(c, d)
  PROVE  Others'
<1>1. CASE refs[d] > 0
  BY <1>1, LoadCounted DEF LoadLibrary
<1>2. CASE ~(refs[d] > 0)
  BY <1>2, LoadBegins, Zenon DEF LoadLibrary
<1> QED BY <1>1, <1>2

\* The answer of usersim.dll's DllMain: the load goes on, or usersim.dll is
\* detached again.
LEMMA AttachedInv ==
  ASSUME Others, usersim_attached
  PROVE  Others'
<1>1. /\ ld.pc = "usersim" /\ at[Loader] = "out" /\ ld.dll \in Dlls /\ ld.c \in Clients
      /\ UNCHANGED <<wdfVars, refs, client, holds, usurped>>
  BY Zenon DEF usersim_attached, Others, HostTypes, Loads
<1>2. PICK p \in {"start", "gone"} :
        /\ Loading(p)
        /\ p = "start" => outcome[Loader] = "ok" /\ UNCHANGED platformVars
        /\ p = "gone" => outcome[Loader] # "ok" /\ usersim_platform_terminate(Loader)
  BY DEF usersim_attached
<1>3. ld' \in LoaderStates /\ ld'.pc = p /\ ld'.c = ld.c /\ ld'.dll = ld.dll
  BY <1>1, <1>2, LoaderMoves DEF Others, HostTypes, Loads
<1>4. HostTypes'
  BY <1>1, <1>2, <1>3 DEF Others, HostTypes
<1>5. Mapped = {} /\ Mapped' = Mapped
  BY <1>1 DEF Others, PlatInv, Mapped
<1>6. PlatInv'
  <2>1. CASE p = "start"
    <3>1. Up
      BY <1>1, <1>2, <2>1 DEF Others, PlatInv
    <3> QED BY <3>1, <2>1, <1>1, <1>2, <1>3, PlatMapped, Zenon DEF Others, platformVars, PlatformState, Mid
  <2>2. CASE p = "gone"
    <3>1. /\ Down /\ _usersim_platform_initiate_count = 0
          /\ at \in [Threads -> Steps]
          /\ outcome \in [Threads -> Results]
      BY <1>1, <1>2, <2>2 DEF Others, PlatInv
    <3>2. /\ UNCHANGED <<_usersim_platform_initiate_count, _cxplat_initialized, subsystems>>
          /\ at' = [at EXCEPT ![Loader] = "terminate"] /\ outcome' = [outcome EXCEPT ![Loader] = "none"]
      BY <1>2, <2>2 DEF usersim_platform_terminate, Goto, Returns
    <3>3. /\ at'[Loader] = "terminate" /\ outcome' \in [Threads -> Results]
          /\ at' \in [Threads -> Steps]
      BY <3>1, <3>2, HostAssumption DEF Steps, Results
    <3> QED BY <3>1, <3>2, <3>3, <2>2, <1>3, <1>5, Zenon DEF PlatInv
  <2> QED BY <2>1, <2>2
<1>7. WdfInv'
  BY <1>1, <1>2, <1>3, WdfAside DEF Others
<1>8. RefsInv' /\ SlotInv' /\ DevicesInv'
  BY <1>1, <1>2, <1>3, LoaderAside DEF Others, Loads, Ends, wdfVars
<1> QED BY <1>4, <1>6, <1>7, <1>8 DEF Others

\* usersim.dll has been detached.
LEMMA DetachedInv ==
  ASSUME Others, ~bugcheck, usersim_detached
  PROVE  Others'
<1>1. /\ ld.pc = "gone" /\ at[Loader] = "out" /\ ld' = Idle
      /\ UNCHANGED <<platformVars, wdfVars, refs, client, holds, usurped>>
  BY DEF usersim_detached
<1>2. ld'.pc = "idle" /\ ld' \in LoaderStates
  BY <1>1 DEF Idle, LoaderStates
<1>4. HostTypes'
  BY <1>1, <1>2 DEF Others, HostTypes, Loads
<1>5. Mapped = {} /\ Mapped' = Mapped
  BY <1>1 DEF Others, PlatInv, Mapped
<1>6. PlatInv'
  <2>1. Down /\ _usersim_platform_initiate_count = 0
    BY <1>1 DEF Others, PlatInv
  <2>2. Down' /\ _usersim_platform_initiate_count' = 0 /\ at'[Loader] = "out" /\ UNCHANGED <<at, outcome>>
    BY <2>1, <1>1 DEF Down, NoSubsystems, platformVars
  <2> QED BY <2>2, <1>2, <1>5 DEF Others, PlatInv
<1>7. WdfInv'
  BY <1>1, <1>2, WdfAside DEF Others
<1>8. RefsInv' /\ SlotInv' /\ DevicesInv'
  BY <1>1, <1>2, LoaderAside DEF Others, Loads, Ends, wdfVars
<1> QED BY <1>4, <1>6, <1>7, <1>8 DEF Others

\* The slot is empty, so no driver that is not stopped is mapped, and every list of
\* devices is empty.
LEMMA EmptySlot ==
  ASSUME Others, Driver = None
  PROVE  /\ \A d \in Dlls : driver_object[d].devices = << >>
         /\ \A x \in Devices : device[x] = None
         /\ ld.pc # "unmap" => Mapped \ usurped = {}
<1>1. \A d \in Dlls : d # None
  BY WdfAssumption
<1>2. \A d \in Dlls : driver_object[d].devices = << >>
  BY <1>1 DEF Others, WdfInv
<1>3. \A x \in Devices : device[x] = None
  BY DEF Others, WdfInv
<1>4. ld.pc # "unmap" => Mapped \ usurped = {}
  BY <1>1 DEF Others, SlotInv, Mapped
<1> QED BY <1>2, <1>3, <1>4

\* UsersimStartDriver up to the driver's EvtDriverDeviceAdd.
LEMMA StartDriverInv ==
  ASSUME SetFacts, Others, UsersimStartDriver
  PROVE  Others'
<1>1. /\ ld.pc = "start" /\ ld.dll \in Dlls /\ ld.c \in Clients /\ ld \in LoaderStates /\ device_init = None
      /\ UNCHANGED <<platformVars, refs, client, holds, usurped>>
  BY DEF UsersimStartDriver, Others, HostTypes, WdfInv, Loads
<1>2. PICK add \in BOOLEAN, ok \in BOOLEAN :
        /\ _WdfDriverCreate(ld.dll, add, ok)
        /\ IF ok THEN ld' = [ld EXCEPT !.pc = "init", !.add = add, !.devices = Len(driver_object[ld.dll].devices)]
                 ELSE LoadFails
  BY Zenon DEF UsersimStartDriver, DriverEntry
<1>3. Mapped' = Mapped
  BY <1>1 DEF Mapped
<1>4. ASSUME ~ok PROVE ld' \in LoaderStates /\ ld'.pc = "detach" /\ ld'.dll = ld.dll
  BY <1>1, <1>2, <1>4, LoaderMoves DEF LoadFails, Ends, Loads
<1>5. ASSUME ld' \in LoaderStates, ld'.dll = ld.dll, ld'.c = ld.c \/ ld'.pc \notin Loads, ld'.pc \in {"init", "detach"}
      PROVE  HostTypes' /\ PlatInv'
  <2>1. HostTypes'
    BY <1>1, <1>5 DEF Others, HostTypes
  <2>2. PlatInv'
    BY <1>1, <1>5, PlatMid DEF Others, platformVars, PlatformState, Mid
  <2> QED BY <2>1, <2>2
<1>6. CASE Driver # None
  <2>1. ~ok /\ UNCHANGED wdfVars
    BY <1>2, <1>6 DEF _WdfDriverCreate
  <2>2. HostTypes' /\ PlatInv'
    BY <2>1, <1>4, <1>5 DEF Loads
  <2>3. WdfInv'
    BY <2>1, <1>1, <1>4, WdfAside DEF Others
  <2>4. /\ \A d \in Mapped \ usurped : Driver' = d
        /\ Driver' # None => Driver' \in Mapped \cup {ld.dll}
        /\ \A d \in Dlls \ {ld.dll} : driver_object'[d].devices = driver_object[d].devices
    BY <2>1, <1>1 DEF Others, SlotInv, wdfVars
  <2>5. RefsInv' /\ SlotInv' /\ DevicesInv'
    BY <2>1, <2>4, <1>1, <1>4, LoaderFails DEF Others, Loads
  <2> QED BY <2>2, <2>3, <2>5 DEF Others
<1>7. CASE Driver = None
  <2>1. /\ Driver' = ld.dll /\ device' = device
        /\ driver_object' = [driver_object EXCEPT ![ld.dll].EvtDriverDeviceAdd = add]
        /\ device_init' = IF ok THEN [device_name |-> None, preprocess |-> FALSE] ELSE device_init
    BY <1>2, <1>7 DEF _WdfDriverCreate, _WdfControlDeviceInitAllocate
  <2>2. /\ \A d \in Dlls : driver_object[d].devices = << >>
        /\ \A x \in Devices : device[x] = None
        /\ Mapped \ usurped = {}
    BY <1>1, <1>7, EmptySlot
  <2>3. /\ driver_object' \in [Dlls -> [devices : Seq(Devices), EvtDriverDeviceAdd : BOOLEAN]]
        /\ \A d \in Dlls : driver_object'[d].devices = << >>
    BY <2>1, <2>2, <1>1 DEF Others, WdfInv
  <2>4. Range(<< >>) = {}
    BY DEF Range
  <2>5. \A x \in Devices : device'[x] # None <=>
          Driver' # None /\ x \in Range(driver_object'[Driver'].devices)
    BY <2>1, <2>2, <2>3, <2>4, <1>1
  <2>6. CASE ok
    <3>1. /\ ld' \in LoaderStates /\ ld'.pc = "init" /\ ld'.dll = ld.dll /\ ld'.c = ld.c
      <4>1. Len(driver_object[ld.dll].devices) = 0
        BY <2>2, <1>1
      <4>2. ld' = [ld EXCEPT !.pc = "init", !.add = add, !.devices = 0]
        BY <4>1, <2>6, <1>2
      <4> QED BY <4>2, <1>1, Zenon DEF LoaderStates, Loads
    <3>2. HostTypes' /\ PlatInv'
      BY <3>1, <1>5
    <3>3. device_init' \in InitStructs
      BY <2>1, <2>6 DEF InitStructs
    <3>4. WdfInv'
      BY <3>1, <3>3, <2>1, <2>3, <2>5, <1>1 DEF Others, WdfInv
    <3>5. \A e : ~Ending(e) /\ ~Ending(e)' /\ ClientsOf(e)' = ClientsOf(e) /\ Serving(e)' = Serving(e)
      BY <3>1, <1>1, <1>3 DEF Ending, Serving, Ends, ClientsOf
    <3>6. RefsInv'
      BY <3>1, <3>5, <1>1 DEF Others, RefsInv, Loads
    <3>7. SlotInv'
      BY <3>1, <2>1, <2>2, <1>1, <1>3 DEF SlotInv
    <3>8. DevicesInv'
      BY <3>5, <2>2, Zenon DEF DevicesInv, Serving
    <3> QED BY <3>2, <3>4, <3>6, <3>7, <3>8 DEF Others
  <2>7. CASE ~ok
    <3>1. ld' \in LoaderStates /\ ld'.pc = "detach" /\ ld'.dll = ld.dll
      BY <2>7, <1>4
    <3>2. HostTypes' /\ PlatInv'
      BY <3>1, <1>5 DEF Loads
    <3>3. device_init' = None
      BY <2>1, <2>7, <1>1
    <3>4. WdfInv'
      BY <3>1, <3>3, <2>1, <2>3, <2>5, <1>1, Zenon DEF Others, WdfInv
    <3>5. RefsInv' /\ SlotInv' /\ DevicesInv'
      BY <3>1, <2>1, <2>2, <2>3, <1>1, LoaderFails DEF Others, Loads
    <3> QED BY <3>2, <3>4, <3>5 DEF Others
  <2> QED BY <2>6, <2>7
<1> QED BY <1>6, <1>7

\* A call that fills in the structure, with a name or an IRP callback, and may fail.
LEMMA DeviceInitInv ==
  ASSUME SetFacts, Others, DeviceInit
  PROVE  Others'
<1>1. /\ ld.pc = "init" /\ ld.dll \in Dlls /\ ld.c \in Clients /\ ld \in LoaderStates
      /\ device_init \in InitStructs /\ Driver = ld.dll
      /\ UNCHANGED <<platformVars, Driver, driver_object, device, refs, client, holds, usurped>>
  BY DEF DeviceInit, Others, HostTypes, WdfInv, Loads
<1>2. PICK ok \in BOOLEAN :
         /\ \/ \E n \in Names : _WdfDeviceInitAssignName(n, ok)
            \/ \E minors \in BOOLEAN : _WdfDeviceInitAssignWdmIrpPreprocessCallback(minors, ok)
         /\ IF ok THEN UNCHANGED ld ELSE Loading("undo")
  BY DEF DeviceInit
<1>3. device_init' \in InitStructs
  BY <1>1, <1>2 DEF InitStructs, _WdfDeviceInitAssignName, _WdfDeviceInitAssignWdmIrpPreprocessCallback
<1>4. ld' \in LoaderStates /\ ld'.pc \in {"init", "undo"} /\ ld'.c = ld.c /\ ld'.dll = ld.dll
  BY <1>1, <1>2, LoaderMoves DEF Loads
<1>5. HostTypes'
  BY <1>1, <1>4 DEF Others, HostTypes
<1>6. PlatInv'
  BY <1>1, <1>4, PlatMid DEF Others, platformVars, PlatformState, Mid
<1>7. WdfInv'
  BY <1>1, <1>3, <1>4, Zenon DEF Others, WdfInv
<1>8. RefsInv' /\ SlotInv' /\ DevicesInv'
  BY <1>1, <1>4, LoaderAside DEF Others, Loads, Ends
<1> QED BY <1>5, <1>6, <1>7, <1>8 DEF Others

\* WdfDeviceCreate: the structure becomes a device, or the load is undone.
LEMMA DeviceCreateInv ==
  ASSUME SetFacts, Others, DeviceCreate
  PROVE  Others'
<1>1. /\ ld.pc = "init" /\ ld.dll \in Dlls /\ ld.c \in Clients /\ ld \in LoaderStates
      /\ device_init \in InitStructs /\ Driver = ld.dll /\ driver_object[ld.dll].devices = << >>
      /\ UNCHANGED <<platformVars, Driver, refs, client, holds, usurped>>
  BY DEF DeviceCreate, Others, HostTypes, WdfInv, Loads
<1>2. PICK x \in Devices, ok \in BOOLEAN :
         /\ _WdfDeviceCreate(x, ok)
         /\ ld' = IF ok THEN [ld EXCEPT !.pc = "queue", !.device = x] ELSE [ld EXCEPT !.pc = "undo"]
  BY Zenon DEF DeviceCreate
<1>3. /\ ld' \in LoaderStates /\ ld'.pc = (IF ok THEN "queue" ELSE "undo") /\ ld'.c = ld.c /\ ld'.dll = ld.dll
      /\ ok => ld'.device = x
  BY <1>1, <1>2, Zenon DEF LoaderStates, Loads
<1>5. HostTypes'
  BY <1>1, <1>3 DEF Others, HostTypes
<1>6. PlatInv'
  BY <1>1, <1>3, PlatMid DEF Others, platformVars, PlatformState, Mid
<1>7. CASE ~ok
  <2>1. UNCHANGED <<device, driver_object, device_init>>
    BY <1>2, <1>7 DEF _WdfDeviceCreate
  <2>2. WdfInv'
    BY <2>1, <1>1, <1>3, <1>7, Zenon DEF Others, WdfInv
  <2>3. RefsInv' /\ SlotInv' /\ DevicesInv'
    BY <2>1, <1>1, <1>3, <1>7, LoaderAside, Zenon DEF Others, Loads, Ends
  <2> QED BY <2>2, <2>3, <1>5, <1>6 DEF Others
<1>8. CASE ok
  <2>0. PICK i \in InitStructs : i = device_init
    BY <1>1
  <2> DEFINE o == [init |-> i, EvtIoDeviceControl |-> FALSE]
  <2>1. /\ device' = [device EXCEPT ![x] = o] /\ device_init' = None
        /\ driver_object' = [driver_object EXCEPT ![ld.dll].devices = Append(@, x)]
    BY <2>0, <1>1, <1>2, <1>8 DEF _WdfDeviceCreate, _WdfDeviceInitFree
  <2>2. o \in DeviceObjects
    BY DEF DeviceObjects
  <2> HIDE DEF o
  <2>13. o # None
    BY <2>2, WdfAssumption
  <2>3. /\ device' \in [Devices -> DeviceObjects \cup {None}]
        /\ device'[x] # None /\ \A y \in Devices \ {x} : device'[y] = device[y]
    BY <2>1, <2>2, <2>13 DEF Others, WdfInv
  <2>4. /\ driver_object' \in [Dlls -> [devices : Seq(Devices), EvtDriverDeviceAdd : BOOLEAN]]
        /\ driver_object'[ld.dll].devices = Append(<< >>, x)
        /\ \A d \in Dlls \ {ld.dll} : driver_object'[d] = driver_object[d]
    <3>1. driver_object \in [Dlls -> [devices : Seq(Devices), EvtDriverDeviceAdd : BOOLEAN]]
      BY DEF Others, WdfInv
    <3>2. Append(<< >>, x) \in Seq(Devices)
      OBVIOUS
    <3> QED BY <3>1, <3>2, <2>1, <1>1, Zenon
  <2>5. Range(Append(<< >>, x)) = {x} /\ Range(<< >>) = {}
    BY DEF Range
  <2>6. \A y \in Devices : device[y] = None
    BY <2>5, <1>1 DEF Others, WdfInv
  <2>7. WdfInv'
    <3>1. \A d \in Dlls \ {Driver'} : driver_object'[d].devices = << >>
      BY <2>4, <1>1 DEF Others, WdfInv
    <3>2. \A y \in Devices : device'[y] # None <=>
            Driver' # None /\ y \in Range(driver_object'[Driver'].devices)
      BY <2>3, <2>4, <2>5, <2>6, <1>1, WdfAssumption
    <3>3. ld'.device \in Range(driver_object'[ld'.dll].devices)
      BY <2>4, <2>5, <1>3, <1>8
    <3> QED BY <3>1, <3>2, <3>3, <2>1, <2>3, <2>4, <1>1, <1>3, <1>8 DEF Others, WdfInv
  <2>8. \A e : ~Ending(e) /\ ~Ending(e)' /\ ClientsOf(e)' = ClientsOf(e) /\ Serving(e)' = Serving(e)
    BY <1>1, <1>3, <1>8, Zenon DEF Ending, Serving, Ends, ClientsOf, Mapped
  <2>9. RefsInv'
    BY <2>8, <1>1, <1>3, <1>8, Zenon DEF Others, RefsInv, Loads
  <2>10. SlotInv'
    BY <1>1, <1>3, <1>8, Zenon DEF Others, SlotInv, Mapped
  <2>11. \A e : Serving(e) => e # ld.dll /\ e \in Dlls
    <3>1. \A e : Serving(e) => e \in Dlls /\ refs[e] > 0
      BY DEF Serving, Mapped
    <3>2. refs[ld.dll] = 0 /\ ~(0 > 0)
      <4>1. refs[ld.dll] = 0
        BY <1>1, Zenon DEF Others, RefsInv, Loads
      <4> QED BY <4>1
    <3> QED BY <3>1, <3>2
  <2>12. DevicesInv'
    BY <2>4, <2>8, <2>11, <1>1, Zenon DEF Others, DevicesInv
  <2> QED BY <2>7, <2>9, <2>10, <2>12, <1>5, <1>6 DEF Others
<1> QED BY <1>7, <1>8

\* WdfIoQueueCreate and the end of a load that worked, or its undoing.
LEMMA IoQueueCreateInv ==
  ASSUME SetFacts, Others, IoQueueCreate
  PROVE  Others'
<1>1. /\ ld.pc = "queue" /\ ld.dll \in Dlls /\ ld.c \in Clients /\ ld \in LoaderStates
      /\ device_init = None /\ Driver = ld.dll /\ ld.device \in Range(driver_object[ld.dll].devices)
      /\ refs[ld.dll] = 0 /\ client[ld.c] = Out
      /\ UNCHANGED <<platformVars, Driver, driver_object, device_init, holds, usurped>>
  BY Zenon DEF IoQueueCreate, Others, HostTypes, WdfInv, RefsInv, Loads
<1>2. PICK ok \in BOOLEAN, linked \in BOOLEAN :
         /\ IF linked THEN _WdfIoQueueCreate(ld.device, TRUE) ELSE UNCHANGED device
         /\ IF ok /\ linked
            THEN /\ refs' = [refs EXCEPT ![ld.dll] = 1]
                 /\ Loaded(ld.c, ld.dll)
                 /\ ld' = Idle
            ELSE Loading("undo") /\ UNCHANGED <<refs, client>>
  BY Zenon DEF IoQueueCreate
<1>3. /\ device' \in [Devices -> DeviceObjects \cup {None}]
      /\ \A y \in Devices : device'[y] # None <=> device[y] # None
  <2>1. CASE ~linked
    BY <1>2, <2>1, Zenon DEF Others, WdfInv
  <2>2. CASE linked
    <3>1. driver_object[ld.dll].devices \in Seq(Devices)
      BY <1>1 DEF Others, WdfInv
    <3>2. ld.device \in Devices
      BY <3>1, <1>1, DevicesOnly, Zenon
    <3>3. device \in [Devices -> DeviceObjects \cup {None}] /\ device[ld.device] # None
      BY <3>2, <1>1, WdfAssumption DEF Others, WdfInv
    <3>4. device[ld.device] \in DeviceObjects
      BY <3>2, <3>3
    <3> DEFINE o == [device[ld.device] EXCEPT !.EvtIoDeviceControl = TRUE]
    <3>5. o \in DeviceObjects /\ o # None
      BY <3>4, WdfAssumption, Zenon DEF DeviceObjects
    <3>6. device' = [device EXCEPT ![ld.device] = o]
      BY <1>2, <2>2 DEF _WdfIoQueueCreate
    <3> HIDE DEF o
    <3> QED BY <3>2, <3>3, <3>5, <3>6
  <2> QED BY <2>1, <2>2
<1>4. CASE ok /\ linked
  <2>1. /\ refs' = [refs EXCEPT ![ld.dll] = 1] /\ Loaded(ld.c, ld.dll) /\ ld' = Idle
    BY <1>2, <1>4
  <2>0. PICK d \in Dlls, c \in Clients : d = ld.dll /\ c = ld.c
    BY <1>1
  <2>2. ld' \in LoaderStates /\ ld'.pc = "idle"
    BY <2>1 DEF Idle, LoaderStates
  <2>3. /\ client' \in [Clients -> ClientStates]
        /\ client'[ld.c].pc = "loaded" /\ client'[ld.c].dll = ld.dll
        /\ \A b \in Clients \ {ld.c} : client'[b] = client[b]
        /\ \A b \in Clients : ClientOK(client'[b])
    BY <2>1, <1>1, LoadedBy, Zenon DEF Others
  <2>4. refs' \in [Dlls -> Nat] /\ refs'[d] = 1 /\ refs[d] = 0 /\ \A e \in Dlls \ {d} : refs'[e] = refs[e]
    BY <2>0, <2>1, <1>1, Zenon DEF Others, HostTypes
  <2>5. HostTypes'
    BY <2>1, <2>2, <2>3, <2>4, Zenon DEF HostTypes, Loads
  <2>6. Mapped' = Mapped \cup {d} /\ d \notin Mapped
    BY <2>4 DEF Mapped
  <2>7. PlatInv'
    BY <2>2, <2>6, <1>1, PlatMapped, Zenon DEF Others, PlatInv, platformVars, PlatformState
  <2>8. WdfInv'
    BY <2>2, <1>1, <1>3, Zenon DEF Others, WdfInv
  <2>9. \A e : ~Ending(e) /\ ~Ending(e)'
    BY <2>2, <1>1 DEF Ending, Ends
  <2>10. \A e \in Dlls : refs'[e] = Cardinality(ClientsOf(e)')
    <3>0. /\ client[c].pc = "out" /\ client'[c].pc # "out" /\ client'[c].dll = d
          /\ \A b \in Clients \ {c} : client'[b] = client[b]
      <4>1. client[c].pc = "out"
        BY <2>0, <1>1, OutIsOut, Zenon
      <4>2. client'[c].pc = "loaded" /\ client'[c].dll = d /\ \A b \in Clients \ {c} : client'[b] = client[b]
        BY <2>0, <2>3, Zenon
      <4> QED BY <4>1, <4>2
    <3>1. ASSUME NEW e \in Dlls \ {d} PROVE ClientsOf(e)' = ClientsOf(e)
      BY <3>0 DEF ClientsOf
    <3>2. ClientsOf(d) = {}
      BY <2>4, <2>9, ClientsFinite DEF Others, RefsInv
    <3>3. ClientsOf(d)' = {c}
      BY <3>0, <3>2 DEF ClientsOf
    <3>4. Cardinality({c}) = 1
      <4>1. {c} = {} \cup {c} /\ c \notin {}
        OBVIOUS
      <4>2. Cardinality({} \cup {c}) = 0 + 1
        BY <4>1 DEF SetFacts
      <4> QED BY <4>1, <4>2
    <3>5. \A e \in Dlls : refs[e] = Cardinality(ClientsOf(e))
      BY <2>9 DEF Others, RefsInv
    <3> QED BY <3>1, <3>3, <3>4, <3>5, <2>0, <2>4
  <2>11. RefsInv'
    BY <2>2, <2>9, <2>10 DEF RefsInv, Loads
  <2>12. SlotInv'
    BY <2>0, <2>2, <2>6, <1>1 DEF Others, SlotInv
  <2>13. DevicesInv'
    <3> SUFFICES ASSUME NEW b \in Clients, client'[b].pc \in {"device", "request"}, Serving(client[b].dll)'
                 PROVE  client'[b].device \in Range(driver_object[client'[b].dll].devices)
      BY <1>1, Zenon DEF DevicesInv
    <3>1. b # c /\ client'[b] = client[b]
      BY <2>0, <2>3
    <3>2. PICK e : e = client[b].dll
      OBVIOUS
    <3>4. e # d
      BY <3>1, <3>2, <2>0, <2>9, <1>1, ClientsFinite, Zenon DEF Others, RefsInv, ClientsOf
    <3>5. Serving(e)'
      BY <3>1, <3>2 DEF Serving, Ending, Mapped
    <3>6. Serving(e)
      BY <3>4, <3>5, <2>0, <2>6, <2>9, <1>1, Zenon DEF Serving
    <3>3. Serving(client[b].dll)
      BY <3>2, <3>6, Zenon
    <3> QED BY <3>1, <3>3 DEF Others, DevicesInv
  <2> QED BY <2>5, <2>7, <2>8, <2>11, <2>12, <2>13 DEF Others
<1>5. CASE ~(ok /\ linked)
  <2>1. Loading("undo") /\ UNCHANGED <<refs, client>>
    BY <1>2, <1>5
  <2>2. ld' \in LoaderStates /\ ld'.pc = "undo" /\ ld'.c = ld.c /\ ld'.dll = ld.dll
    BY <2>1, <1>1, LoaderMoves DEF Loads
  <2>3. HostTypes'
    BY <2>1, <2>2, <1>1, Zenon DEF Others, HostTypes, Loads
  <2>4. PlatInv'
    BY <2>2, <1>1, PlatMid, Zenon DEF Others, platformVars, PlatformState, Mid
  <2>5. WdfInv'
    BY <2>2, <1>1, <1>3, Zenon DEF Others, WdfInv
  <2>6. RefsInv' /\ SlotInv' /\ DevicesInv'
    BY <2>1, <2>2, <1>1, LoaderAside, Zenon DEF Others, Loads, Ends
  <2> QED BY <2>3, <2>4, <2>5, <2>6 DEF Others
<1> QED BY <1>4, <1>5

\* All devices of the driver in the slot are deleted.
LEMMA DeletesAll ==
  ASSUME WdfInv, Driver # None, _WdfObjectDelete(0)
  PROVE  /\ driver_object' \in [Dlls -> [devices : Seq(Devices), EvtDriverDeviceAdd : BOOLEAN]]
         /\ \A d \in Dlls : driver_object'[d].devices = << >>
         /\ device' = [x \in Devices |-> None]
<1>0. PICK d \in Dlls : d = Driver
  BY DEF WdfInv
<1>1. driver_object \in [Dlls -> [devices : Seq(Devices), EvtDriverDeviceAdd : BOOLEAN]]
  BY DEF WdfInv
<1>2. PICK s \in Seq(Devices) : s = driver_object[d].devices
  BY <1>1
<1>3. /\ device' = [x \in Devices |-> IF x \in {s[i] : i \in 0 + 1 .. Len(s)} THEN None ELSE device[x]]
      /\ driver_object' = [driver_object EXCEPT ![d].devices = SubSeq(s, 1, 0)]
  BY <1>0, <1>2 DEF _WdfObjectDelete
<1>4. SubSeq(s, 1, 0) = << >> /\ << >> \in Seq(Devices)
  BY <1>2
<1>5. /\ driver_object' \in [Dlls -> [devices : Seq(Devices), EvtDriverDeviceAdd : BOOLEAN]]
      /\ driver_object'[d].devices = << >>
      /\ \A e \in Dlls \ {d} : driver_object'[e] = driver_object[e]
  BY <1>1, <1>3, <1>4, Zenon
<1>6. \A e \in Dlls : driver_object'[e].devices = << >>
  BY <1>0, <1>5 DEF WdfInv
<1>7. {s[i] : i \in 0 + 1 .. Len(s)} = Range(s)
  BY <1>2 DEF Range
<1>8. \A x \in Devices : x \notin Range(s) => device[x] = None
  BY <1>0, <1>2 DEF WdfInv
<1>9. device' = [x \in Devices |-> None]
  BY <1>3, <1>7, <1>8
<1> QED BY <1>5, <1>6, <1>9

\* The undoing of EvtDriverDeviceAdd: devices and structure are freed.
LEMMA UndoInv ==
  ASSUME SetFacts, Others, Undo
  PROVE  Others'
<1>1. /\ ld.pc = "undo" /\ ld.dll \in Dlls /\ ld \in LoaderStates /\ Driver = ld.dll
      /\ UNCHANGED <<platformVars, Driver, refs, client, holds, usurped>>
  BY DEF Undo, Others, HostTypes, WdfInv
<1>2. ld.devices = 0
  BY <1>1 DEF LoaderStates
<1>3. ld' \in LoaderStates /\ ld'.pc = "detach" /\ ld'.dll = ld.dll
  BY <1>1, LoaderMoves DEF Undo, LoadFails, Ends, Loads
<1>4. HostTypes'
  BY <1>1, <1>3 DEF Others, HostTypes, Loads
<1>5. PlatInv'
  BY <1>1, <1>3, PlatMid DEF Others, platformVars, PlatformState, Mid
<1>6. \/ _WdfObjectDelete(0) /\ device_init' = device_init /\ driver_object[ld.dll].devices # << >>
      \/ device_init' = None /\ UNCHANGED <<device, driver_object>>
  <2>1. CASE ~ld.add
    BY <2>1 DEF Undo, _WdfDeviceInitFree
  <2>2. CASE ld.add
    <3>1. undo_device_add(0)
      BY <2>2, <1>2 DEF Undo
    <3>2. driver_object[Driver].devices = << >> => ~(Len(driver_object[Driver].devices) > 0)
      OBVIOUS
    <3> QED BY <3>1, <3>2, <1>1 DEF undo_device_add, _WdfDeviceInitFree
  <2> QED BY <2>1, <2>2
<1>7. /\ WdfInv'
      /\ \A d \in Dlls \ {ld.dll} : driver_object'[d].devices = driver_object[d].devices
  <2>1. CASE device_init' = None /\ UNCHANGED <<device, driver_object>>
    BY <2>1, <1>1, <1>3, Zenon DEF Others, WdfInv
  <2>2. CASE _WdfObjectDelete(0) /\ device_init' = device_init /\ driver_object[ld.dll].devices # << >>
    <3>1. Driver # None
      BY <1>1, WdfAssumption
    <3>2. /\ driver_object' \in [Dlls -> [devices : Seq(Devices), EvtDriverDeviceAdd : BOOLEAN]]
          /\ \A d \in Dlls : driver_object'[d].devices = << >>
          /\ device' = [x \in Devices |-> None]
      BY <3>1, <2>2, DeletesAll DEF Others
    <3>3. Range(<< >>) = {}
      BY DEF Range
    <3>4. device_init' = None
      BY <2>2, <1>1 DEF Others, WdfInv
    <3>5. \A x \in Devices : device'[x] = None /\ x \notin Range(driver_object'[Driver'].devices)
      BY <3>2, <3>3, <1>1
    <3>6. WdfInv'
      BY <3>2, <3>4, <3>5, <1>1, <1>3, Zenon DEF WdfInv
    <3> QED BY <3>2, <3>6, <1>1, Zenon DEF Others, WdfInv
  <2> QED BY <2>1, <2>2, <1>6
<1>8. /\ \A d \in Mapped \ usurped : Driver' = d
      /\ Driver' # None => Driver' \in Mapped \cup {ld.dll}
  BY <1>1 DEF Others, SlotInv
<1>9. RefsInv' /\ SlotInv' /\ DevicesInv'
  BY <1>1, <1>3, <1>7, <1>8, LoaderFails DEF Others, Loads
<1> QED BY <1>4, <1>5, <1>7, <1>9 DEF Others

\* UsersimStopDriver, for the driver in the slot, whose it may not be.
LEMMA StopDriverInv ==
  ASSUME SetFacts, Others, UsersimStopDriver
  PROVE  Others'
<1>1. /\ ld.pc = "detach" /\ ld.dll \in Dlls /\ ld \in LoaderStates /\ device_init = None
      /\ Loading("unmap")
      /\ UNCHANGED <<at, outcome, _usersim_platform_initiate_count, _cxplat_initialized, subsystems,
                     refs, client, holds>>
  BY DEF UsersimStopDriver, Others, HostTypes, WdfInv
<1>2. ld' \in LoaderStates /\ ld'.pc = "unmap" /\ ld'.dll = ld.dll
  BY <1>1, LoaderMoves DEF Ends, Loads
<1>3. HostTypes'
  BY <1>1, <1>2 DEF Others, HostTypes, Loads
<1>4. PlatInv'
  BY <1>1, <1>2, PlatMid DEF Others, PlatformState, Mid
<1>5. Driver' = None /\ device_init' = None /\ usurped \subseteq usurped'
      /\ \A d \in Mapped \ usurped' : d = ld.dll
  <2>1. CASE Driver = None
    <3>1. UNCHANGED <<wdfVars, usurped>>
      BY <2>1 DEF UsersimStopDriver
    <3>2. Mapped \ usurped = {}
      BY <2>1, <1>1, EmptySlot
    <3> QED BY <3>1, <3>2, <2>1, <1>1 DEF wdfVars
  <2>2. CASE Driver # None
    <3>1. /\ Driver' = None /\ device_init' = device_init
          /\ usurped' = IF Driver = ld.dll THEN usurped ELSE usurped \cup {Driver}
      BY <2>2 DEF UsersimStopDriver
    <3>2. \A d \in Mapped \ usurped : d = Driver
      BY <1>1 DEF Others, SlotInv
    <3> QED BY <3>1, <3>2, <1>1
  <2> QED BY <2>1, <2>2
<1>6. /\ driver_object' \in [Dlls -> [devices : Seq(Devices), EvtDriverDeviceAdd : BOOLEAN]]
      /\ \A d \in Dlls : driver_object'[d].devices = << >>
      /\ device' \in [Devices -> DeviceObjects \cup {None}]
      /\ \A x \in Devices : device'[x] = None
  <2>1. CASE Driver = None
    <3>1. UNCHANGED wdfVars
      BY <2>1 DEF UsersimStopDriver
    <3> QED BY <3>1, <2>1, EmptySlot, Zenon DEF Others, WdfInv, wdfVars
  <2>2. CASE Driver # None
    <3>1. _WdfObjectDelete(0)
      BY <2>2 DEF UsersimStopDriver
    <3> QED BY <3>1, <2>2, DeletesAll DEF Others
  <2> QED BY <2>1, <2>2
<1>7. WdfInv'
  BY <1>2, <1>5, <1>6, Zenon DEF WdfInv
<1>8. Mapped' = Mapped
  BY <1>1 DEF Mapped
<1>9. \A e : Ending(e)' = Ending(e) /\ ClientsOf(e)' = ClientsOf(e)
  BY <1>1, <1>2 DEF Ending, ClientsOf, Ends
<1>10. RefsInv'
  BY <1>1, <1>2, <1>9, Zenon DEF Others, RefsInv, Loads
<1>11. SlotInv'
  BY <1>2, <1>5, <1>8 DEF SlotInv
<1>12. \A e : ~Serving(e)'
  BY <1>2, <1>5, <1>8 DEF Serving, Ending, Ends
<1>13. DevicesInv'
  <2>1. \A c \in Clients : ~Serving(client[c].dll)'
    BY <1>2, <1>5, <1>8 DEF Serving, Ending, Ends
  <2> QED BY <2>1 DEF DevicesInv
<1> QED BY <1>3, <1>4, <1>7, <1>10, <1>11, <1>13 DEF Others

\* The DLL is unmapped, and after the last one usersim.dll is detached.
LEMMA UnmapInv ==
  ASSUME SetFacts, Others, Unmap
  PROVE  Others'
<1>0. PICK d \in Dlls : d = ld.dll
  BY DEF Unmap, Others, HostTypes
<1>1. /\ ld.pc = "unmap" /\ ld \in LoaderStates /\ device_init = None /\ Driver = None
      /\ at[Loader] = "out" /\ Up
      /\ refs' = [refs EXCEPT ![d] = 0] /\ driver_object' = [driver_object EXCEPT ![d] = FreshDriverObject]
      /\ usurped' = usurped \ {d}
      /\ UNCHANGED <<Driver, device_init, device, client, holds>>
  BY <1>0, Zenon DEF Unmap, Others, HostTypes, WdfInv, SlotInv, PlatInv
<1>2. refs' \in [Dlls -> Nat] /\ refs'[d] = 0 /\ \A e \in Dlls \ {d} : refs'[e] = refs[e]
  BY <1>1 DEF Others, HostTypes
<1>3. Mapped' = Mapped \ {d}
  BY <1>2 DEF Mapped
<1>4. PICK p \in {"idle", "gone"} :
        /\ p = "gone" => Loading("gone") /\ usersim_platform_terminate(Loader) /\ Mapped \ {d} = {}
        /\ p = "idle" => ld' = Idle /\ UNCHANGED platformVars /\ Mapped \ {d} # {}
  BY <1>0 DEF Unmap
<1>5. ld' \in LoaderStates /\ ld'.pc = p /\ (p = "gone" => ld'.dll \in Dlls) /\ (p = "idle" => ld' = Idle)
  <2>1. CASE p = "gone"
    BY <2>1, <1>0, <1>1, <1>4, LoaderMoves DEF Loads
  <2>2. CASE p = "idle"
    <3>1. Idle \in LoaderStates /\ Idle.pc = "idle"
      BY DEF Idle, LoaderStates
    <3> QED BY <3>1, <2>2, <1>4
  <2> QED BY <2>1, <2>2
<1>6. HostTypes'
  BY <1>1, <1>2, <1>5 DEF Others, HostTypes, Loads
<1>7. PlatInv'
  <2>1. CASE p = "idle"
    BY <2>1, <1>1, <1>3, <1>4, <1>5, PlatMapped DEF Others, platformVars, PlatformState
  <2>2. CASE p = "gone"
    <3>1. /\ _usersim_platform_initiate_count = 1
          /\ at \in [Threads -> Steps]
          /\ outcome \in [Threads -> Results]
      BY <1>1 DEF Others, PlatInv, Up
    <3>2. /\ UNCHANGED <<_usersim_platform_initiate_count, _cxplat_initialized, subsystems>>
          /\ at' = [at EXCEPT ![Loader] = "terminate"] /\ outcome' = [outcome EXCEPT ![Loader] = "none"]
      BY <2>2, <1>4 DEF usersim_platform_terminate, Goto, Returns
    <3>3. /\ at'[Loader] = "terminate" /\ outcome' \in [Threads -> Results]
          /\ at' \in [Threads -> Steps]
      BY <3>1, <3>2, HostAssumption DEF Steps, Results
    <3> QED BY <3>1, <3>2, <3>3, <2>2, <1>3, <1>4, <1>5, Zenon DEF PlatInv
  <2> QED BY <2>1, <2>2
<1>8. WdfInv'
  <2>1. /\ \A e \in Dlls : driver_object[e].devices = << >>
        /\ \A x \in Devices : device[x] = None
    BY <1>1, EmptySlot, Zenon
  <2>2. FreshDriverObject \in [devices : Seq(Devices), EvtDriverDeviceAdd : BOOLEAN] /\ FreshDriverObject.devices = << >>
    BY DEF FreshDriverObject
  <2>3. /\ driver_object' \in [Dlls -> [devices : Seq(Devices), EvtDriverDeviceAdd : BOOLEAN]]
        /\ \A e \in Dlls : driver_object'[e].devices = << >>
    BY <2>1, <2>2, <1>1, Zenon DEF Others, WdfInv
  <2> QED BY <2>1, <2>3, <1>1, <1>5, Zenon DEF Others, WdfInv
<1>9. \A e : ~Ending(e)' /\ ClientsOf(e)' = ClientsOf(e) /\ (Ending(e) <=> e = d)
  BY <1>0, <1>1, <1>5 DEF Ending, Ends, ClientsOf
<1>10. RefsInv'
  <2>1. ClientsOf(d) = {}
    BY <1>9 DEF Others, RefsInv
  <2>2. \A e \in Dlls : refs'[e] = Cardinality(ClientsOf(e))
    BY <2>1, <1>2, <1>9, Zenon DEF Others, RefsInv, SetFacts
  <2> QED BY <2>2, <1>5, <1>9 DEF RefsInv, Loads
<1>11. \A e \in Mapped \ usurped : e = d
  BY <1>0, <1>1, WdfAssumption DEF Others, SlotInv, Mapped
<1>12. Mapped' \ usurped' = {}
  BY <1>1, <1>3, <1>11
<1>13. SlotInv'
  BY <1>1, <1>5, <1>12 DEF SlotInv
<1>14. DevicesInv'
  <2>1. \A c \in Clients : ~Serving(client[c].dll)'
    BY <1>12 DEF Serving
  <2> QED BY <2>1 DEF DevicesInv
<1> QED BY <1>6, <1>7, <1>8, <1>10, <1>13, <1>14 DEF Others

\* FreeLibrary: one client less, and for the last one the detach begins.
LEMMA FreeLibraryInv ==
  ASSUME SetFacts, Others, NEW c \in Clients, FreeLibrary(c)
  PROVE  Others'
<1>1. /\ ld = Idle /\ ld.pc = "idle" /\ client[c].pc \in {"loaded", "device"}
      /\ client' = [client EXCEPT ![c] = Out]
      /\ UNCHANGED <<platformVars, wdfVars, holds, usurped>>
  BY DEF FreeLibrary, Idle
<1>2. PICK d \in Dlls : d = client[c].dll
  BY <1>1 DEF Others, HostTypes, ClientOK
<1>3. PICK n \in Nat : n = refs[d]
  BY DEF Others, HostTypes
<1>4. \A e : ~Ending(e)
  BY <1>1 DEF Ending, Ends
<1>5. Out \in ClientStates /\ Out.pc = "out" /\ ClientOK(Out)
  BY OutAndLoaded, Zenon
<1>6. /\ client' \in [Clients -> ClientStates] /\ client'[c] = Out
      /\ \A b \in Clients \ {c} : client'[b] = client[b]
      /\ \A b \in Clients : ClientOK(client'[b])
  BY <1>1, <1>5, ClientMoves, Zenon DEF Others
<1>7. c \in ClientsOf(d) /\ n = Cardinality(ClientsOf(d)) /\ ClientsOf(d)' = ClientsOf(d) \ {c}
  <2>1. c \in ClientsOf(d)
    BY <1>1, <1>2 DEF ClientsOf
  <2>2. n = Cardinality(ClientsOf(d))
    BY <1>3, <1>4, Zenon DEF Others, RefsInv
  <2>3. ClientsOf(d)' = ClientsOf(d) \ {c}
    BY <1>5, <1>6, Zenon DEF ClientsOf
  <2> QED BY <2>1, <2>2, <2>3
<1>8. \A e \in Dlls \ {d} : ClientsOf(e)' = ClientsOf(e) /\ refs[e] = Cardinality(ClientsOf(e))
  BY <1>1, <1>2, <1>4, <1>5, <1>6, Zenon DEF ClientsOf, Others, RefsInv
<1>9. Cardinality(ClientsOf(d)') = n - 1 /\ n > 0 /\ (n = 1 => ClientsOf(d)' = {})
  <2>1. PICK S : S = ClientsOf(d)
    OBVIOUS
  <2>2. IsFiniteSet(S) /\ c \in S /\ n = Cardinality(S) /\ ClientsOf(d)' = S \ {c}
    BY <2>1, <1>7, ClientsFinite
  <2>3. /\ IsFiniteSet(S \ {c}) /\ Cardinality(S \ {c}) = Cardinality(S) - 1
        /\ Cardinality(S \ {c}) \in Nat /\ (Cardinality(S \ {c}) = 0 <=> S \ {c} = {})
    BY <2>2 DEF SetFacts
  <2>4. n > 0 /\ (n = 1 => Cardinality(S \ {c}) = 0)
    BY <2>2, <2>3
  <2> QED BY <2>2, <2>3, <2>4
<1>10. d \in Mapped
  BY <1>3, <1>9 DEF Mapped
<1>11. at[Loader] = "out" /\ Up
  BY <1>1, <1>10 DEF Others, PlatInv
<1>12. CASE n > 1
  <2>1. refs' = [refs EXCEPT ![d] = n - 1] /\ ld' = ld
    BY <1>2, <1>3, <1>12 DEF FreeLibrary
  <2>2. refs' \in [Dlls -> Nat] /\ refs'[d] = n - 1 /\ \A e \in Dlls \ {d} : refs'[e] = refs[e]
    BY <2>1, <1>12 DEF Others, HostTypes
  <2>3. Mapped' = Mapped
    BY <2>2, <1>3, <1>12 DEF Mapped
  <2>4. HostTypes'
    BY <2>1, <2>2, <1>6 DEF Others, HostTypes
  <2>5. PlatInv'
    BY <2>1, <2>3, <1>1, PlatUnchanged DEF Others, platformVars, PlatformState
  <2>6. WdfInv'
    BY <2>1, <1>1, WdfUnchanged DEF Others
  <2>7. \A e : ~Ending(e)' /\ Serving(e)' = Serving(e)
    BY <2>1, <2>3, <1>1, <1>4 DEF Ending, Serving
  <2>8. \A e \in Dlls : refs'[e] = Cardinality(ClientsOf(e)')
    BY <2>2, <1>8, <1>9
  <2>9. RefsInv'
    BY <2>1, <2>7, <2>8, <1>1, Zenon DEF RefsInv, Loads
  <2>10. SlotInv'
    BY <2>1, <2>3, <1>1 DEF Others, SlotInv, wdfVars
  <2>11. DevicesInv'
    BY <2>7, <1>1, <1>5, <1>6, Zenon DEF Others, DevicesInv, wdfVars
  <2> QED BY <2>4, <2>5, <2>6, <2>9, <2>10, <2>11 DEF Others
<1>13. CASE n = 1
  <2>1. ld' = [Idle EXCEPT !.pc = "detach", !.dll = d] /\ refs' = refs
    BY <1>2, <1>3, <1>13 DEF FreeLibrary
  <2>2. ld' \in LoaderStates /\ ld'.pc = "detach" /\ ld'.dll = d
    BY <2>1, Zenon DEF Idle, LoaderStates, Ends
  <2>3. Mapped' = Mapped
    BY <2>1 DEF Mapped
  <2>4. HostTypes'
    BY <2>1, <2>2, <1>6 DEF Others, HostTypes, Loads
  <2>5. PlatInv'
    BY <2>2, <1>1, <1>11, PlatMapped DEF Others, platformVars, PlatformState, Mid
  <2>6. WdfInv'
    BY <2>2, <1>1, WdfAside DEF Others
  <2>7. \A e : (Ending(e)' <=> e = d) /\ (Serving(e)' => Serving(e))
    BY <2>2, <2>3, <1>1, <1>4 DEF Ending, Serving, Ends
  <2>8. RefsInv'
    <3>1. refs'[d] <= 1 /\ ClientsOf(d)' = {}
      BY <2>1, <1>3, <1>9, <1>13
    <3>2. \A e \in Dlls \ {d} : refs'[e] = Cardinality(ClientsOf(e)')
      BY <2>1, <1>8
    <3> QED BY <3>1, <3>2, <2>2, <2>7, Zenon DEF RefsInv, Loads
  <2>9. SlotInv'
    BY <2>2, <2>3, <1>1, Zenon DEF Others, SlotInv, wdfVars
  <2>10. DevicesInv'
    BY <2>7, <1>1, <1>5, <1>6, Zenon DEF Others, DevicesInv, wdfVars
  <2> QED BY <2>4, <2>5, <2>6, <2>8, <2>9, <2>10 DEF Others
<1> QED BY <1>9, <1>12, <1>13

-----------------------------------------------------------------------------
(* The library and its users.                                              *)

INSTANCE FiniteSetTheorems

\* The library has the facts the lemmas above assume.
LEMMA Counting == SetFacts
<1>1. \A S, x : IsFiniteSet(S) /\ x \notin S => Cardinality(S \cup {x}) = Cardinality(S) + 1
  BY FS_AddElement
<1>2. \A S, x : IsFiniteSet(S) /\ x \in S =>
        IsFiniteSet(S \ {x}) /\ Cardinality(S \ {x}) = Cardinality(S) - 1
  BY FS_RemoveElement
<1>3. \A S, T : IsFiniteSet(T) /\ S \subseteq T => IsFiniteSet(S)
  BY FS_Subset
<1>4. \A S : IsFiniteSet(S) => Cardinality(S) \in Nat /\ (Cardinality(S) = 0 <=> S = {})
  BY FS_CardinalityType, FS_EmptySet
<1>5. IsFiniteSet({}) /\ Cardinality({}) = 0
  BY FS_EmptySet
<1> QED BY <1>1, <1>2, <1>3, <1>4, <1>5 DEF SetFacts

\* The users can be counted.
LEMMA UsersFinite ==
  ASSUME LibInv
  PROVE  IsFiniteSet(Users) /\ Cardinality(Users) \in Nat /\ (Cardinality(Users) = 0 <=> Users = {})
<1>1. IsFiniteSet(1 .. MaxHolds)
  BY FS_Interval, HostAssumption
<1>2. IsFiniteSet(Threads \X (1 .. MaxHolds))
  BY <1>1, FS_Product, HostAssumption
<1>3. IsFiniteSet((Threads \X (1 .. MaxHolds)) \cup {<<Loader, 0>>})
  BY <1>2, FS_AddElement
<1>4. Users \subseteq (Threads \X (1 .. MaxHolds)) \cup {<<Loader, 0>>}
  BY DEF Users
<1>5. IsFiniteSet(Users)
  BY <1>3, <1>4, FS_Subset
<1> QED BY <1>5, FS_CardinalityType, FS_EmptySet

\* Which parts a first initialisation leaves.
LEMMA StartedEither ==
  ASSUME NEW n \in 1..7
  PROVE  /\ n = 7 => {"processors", "pool"} \subseteq StartedParts(n)
         /\ n # 7 => {"processors", "pool"} \cap StartedParts(n) = {}
<1>1. ASSUME n = 7 PROVE {"processors", "pool"} \subseteq StartedParts(n)
  <2>1. Wanted(StartSteps[5]) /\ StartSteps[5] = "processors" /\ Wanted(StartSteps[6]) /\ StartSteps[6] = "pool"
    BY DEF Wanted, StartSteps
  <2> QED BY <1>1, <2>1 DEF StartedParts
<1>2. ASSUME n # 7 PROVE {"processors", "pool"} \cap StartedParts(n) = {}
  <2>1. \A i \in 1 .. n - 1 : StartSteps[i] # "pool"
    BY <1>2 DEF StartSteps
  <2>2. \A i \in 1 .. n - 1 : StartSteps[i] = "processors" => n = 6
    BY <1>2 DEF StartSteps
  <2> QED BY <2>1, <2>2 DEF StartedParts
<1> QED BY <1>1, <1>2

\* cxplat_initialize, for a new user u.
LEMMA Initializes ==
  ASSUME LibInv, NEW ok \in BOOLEAN, cxplat_initialize(ok),
         NEW u, u \notin Users, Users' = IF ok THEN Users \cup {u} ELSE Users
  PROVE  /\ _cxplat_initialization_count' = Cardinality(Users')
         /\ {"processors", "pool"} \cap parts' = IF Users' = {} THEN {} ELSE {"processors", "pool"}
<1>0. PICK S : S = Users
  OBVIOUS
<1>1. IsFiniteSet(S) /\ Cardinality(S) \in Nat /\ (Cardinality(S) = 0 <=> S = {})
  BY <1>0, UsersFinite
<1>2. _cxplat_initialization_count = Cardinality(S)
  BY <1>0 DEF LibInv
<1>3. Cardinality(S \cup {u}) = Cardinality(S) + 1
  BY <1>0, <1>1, FS_AddElement
<1>4. CASE S # {}
  <2>1. cxplat_initialize_again(ok)
    BY <1>1, <1>2, <1>4 DEF cxplat_initialize
  <2>2. parts' = parts /\ _cxplat_initialization_count' = Cardinality(S) + IF ok THEN 1 ELSE 0
    BY <2>1, <1>2 DEF cxplat_initialize_again
  <2>3. Users' # {}
    BY <1>0, <1>4
  <2>4. _cxplat_initialization_count' = Cardinality(Users')
    BY <2>2, <1>0, <1>1, <1>3
  <2> QED BY <2>2, <2>3, <2>4, <1>0, <1>4 DEF LibInv
<1>5. CASE S = {}
  <2>1. cxplat_initialize_first(ok)
    BY <1>1, <1>2, <1>5 DEF cxplat_initialize
  <2>2. PICK n \in 1..7 : /\ ok <=> n = 7
                          /\ parts' = parts \cup StartedParts(n)
                          /\ _cxplat_initialization_count' = IF ok THEN 1 ELSE 0
    BY <2>1 DEF cxplat_initialize_first
  <2>3. {"processors", "pool"} \cap parts = {}
    BY <1>0, <1>5 DEF LibInv
  <2>4. CASE ok
    <3>1. Users' = S \cup {u} /\ Users' # {}
      BY <1>0, <2>4
    <3>4. Cardinality(S \cup {u}) = 1 /\ _cxplat_initialization_count' = 1
      BY <1>1, <1>3, <1>5, <2>2, <2>4
    <3>2. _cxplat_initialization_count' = Cardinality(Users')
      BY <3>1, <3>4
    <3>3. {"processors", "pool"} \subseteq parts'
      BY <2>2, <2>4, StartedEither
    <3> QED BY <3>1, <3>2, <3>3
  <2>5. CASE ~ok
    <3>1. Users' = S
      BY <1>0, <2>5
    <3>2. _cxplat_initialization_count' = Cardinality(Users')
      BY <3>1, <1>1, <1>5, <2>2, <2>5
    <3>3. {"processors", "pool"} \cap parts' = {}
      BY <2>2, <2>3, <2>5, StartedEither
    <3> QED BY <3>1, <3>2, <3>3, <1>5
  <2> QED BY <2>4, <2>5
<1> QED BY <1>4, <1>5

\* cxplat_cleanup, by user u.
LEMMA CleansUp ==
  ASSUME LibInv, cxplat_cleanup, NEW u, u \in Users, Users' = Users \ {u}
  PROVE  /\ _cxplat_initialization_count' = Cardinality(Users')
         /\ {"processors", "pool"} \cap parts' = IF Users' = {} THEN {} ELSE {"processors", "pool"}
<1>0. PICK S : S = Users
  OBVIOUS
<1>1. IsFiniteSet(S) /\ Cardinality(S) \in Nat
  BY <1>0, UsersFinite
<1>2. _cxplat_initialization_count = Cardinality(S) /\ u \in S /\ Users' = S \ {u}
  BY <1>0 DEF LibInv
<1>3. /\ IsFiniteSet(S \ {u}) /\ Cardinality(S \ {u}) \in Nat
      /\ Cardinality(S \ {u}) = Cardinality(S) - 1
      /\ Cardinality(S \ {u}) = 0 <=> S \ {u} = {}
  BY <1>1, <1>2, FS_RemoveElement, FS_EmptySet, FS_CardinalityType
<1>4. _cxplat_initialization_count' = Cardinality(Users')
  BY <1>2, <1>3, Zenon DEF cxplat_cleanup
<1>5. {"processors", "pool"} \cap parts = {"processors", "pool"}
  BY <1>0, <1>2 DEF LibInv
<1>6. CASE S \ {u} = {}
  <2>1. Cardinality(S) = 1
    BY <1>1, <1>3, <1>6
  <2>2. parts' = parts \cap {"faults", "module"}
    BY <2>1, <1>2 DEF cxplat_cleanup
  <2>3. {"processors", "pool"} \cap parts' = {}
    BY <2>2
  <2> QED BY <2>3, <1>2, <1>4, <1>6
<1>7. CASE S \ {u} # {}
  <2>1. Cardinality(S) > 1
    BY <1>1, <1>3, <1>7
  <2>2. parts' = parts
    BY <2>1, <1>2 DEF cxplat_cleanup
  <2> QED BY <2>2, <1>2, <1>4, <1>5, <1>7
<1> QED BY <1>6, <1>7

\* A step that leaves the users and the library alone.
LEMMA LibUnchanged ==
  ASSUME LibInv, UNCHANGED <<cxplatVars, _cxplat_initialized, holds>>
  PROVE  LibInv'
BY DEF LibInv, Users, cxplatVars

\* Hold and Release: one more or one less call of a thread.
LEMMA LibHolds ==
  ASSUME LibInv, NEW t \in Threads, Hold(t) \/ Release(t)
  PROVE  LibInv'
<1>0. holds \in [Threads -> 0 .. MaxHolds] /\ _cxplat_initialized \in BOOLEAN
  BY DEF LibInv
<1>1. PICK h \in 0 .. MaxHolds : h = holds[t]
  BY <1>0
<1>2. _cxplat_initialized' = _cxplat_initialized
  BY DEF Hold, Release
<1>3. CASE Hold(t)
  <2>1. PICK ok \in BOOLEAN : /\ cxplat_initialize(ok)
                              /\ holds' = [holds EXCEPT ![t] = @ + IF ok THEN 1 ELSE 0]
    BY <1>3, Zenon DEF Hold
  <2>2. h < MaxHolds
    BY <1>1, <1>3 DEF Hold
  <2>3. h + 1 \in 1 .. MaxHolds
    BY <2>2, HostAssumption
  <2>4. <<t, h + 1>> \notin Users
    BY <1>1, <2>3 DEF Users
  <2>5. CASE ok
    <3>1. holds' = [holds EXCEPT ![t] = h + 1]
      BY <2>1, <2>5, <1>1
    <3>2. holds' \in [Threads -> 0 .. MaxHolds] /\ holds'[t] = h + 1 /\ \A s \in Threads \ {t} : holds'[s] = holds[s]
      BY <3>1, <1>0, <2>3
    <3>3. ASSUME NEW s \in Threads, NEW i \in 1 .. MaxHolds
          PROVE  i <= holds'[s] <=> i <= holds[s] \/ (s = t /\ i = h + 1)
      BY <3>2, <1>1
    <3>4. Users' = Users \cup {<<t, h + 1>>}
      BY <3>3, <1>2, <2>3 DEF Users
    <3> QED BY <3>2, <3>4, <2>1, <2>4, <2>5, <1>0, <1>2, Initializes, Zenon DEF LibInv
  <2>6. CASE ~ok
    <3>1. holds' = holds
      BY <2>1, <2>6, <1>0
    <3>2. Users' = Users
      BY <3>1, <1>2 DEF Users
    <3> QED BY <3>1, <3>2, <2>1, <2>4, <2>6, <1>0, <1>2, Initializes DEF LibInv
  <2> QED BY <2>5, <2>6
<1>4. CASE Release(t)
  <2>1. cxplat_cleanup /\ h > 0 /\ holds' = [holds EXCEPT ![t] = h - 1]
    BY <1>1, <1>4 DEF Release
  <2>2. h \in 1 .. MaxHolds /\ h - 1 \in 0 .. MaxHolds
    BY <2>1, HostAssumption
  <2>3. holds' \in [Threads -> 0 .. MaxHolds] /\ holds'[t] = h - 1 /\ \A s \in Threads \ {t} : holds'[s] = holds[s]
    BY <2>1, <2>2, <1>0
  <2>4. ASSUME NEW s \in Threads, NEW i \in 1 .. MaxHolds
        PROVE  i <= holds'[s] <=> i <= holds[s] /\ ~(s = t /\ i = h)
    BY <2>3, <1>1
  <2>5. <<t, h>> \in Users
    BY <1>1, <2>2 DEF Users
  <2>6. Users' = Users \ {<<t, h>>}
    BY <2>4, <2>2, <1>2 DEF Users
  <2> QED BY <2>1, <2>3, <2>5, <2>6, <1>0, <1>2, CleansUp, Zenon DEF LibInv
<1> QED BY <1>3, <1>4

\* The calls the platform itself makes.
LEMMA LibPlatform ==
  ASSUME LibInv, at[Loader] = "cxplat" => ~_cxplat_initialized,
         initiate_cxplat(Loader) \/ terminate_cxplat(Loader), holds' = holds
  PROVE  LibInv'
<1>0. holds \in [Threads -> 0 .. MaxHolds] /\ _cxplat_initialized \in BOOLEAN
  BY DEF LibInv
<1>1. <<Loader, 0>> \in Users <=> _cxplat_initialized
  BY <1>0 DEF Users
<1>2. CASE initiate_cxplat(Loader)
  <2>1. PICK ok \in BOOLEAN : cxplat_initialize(ok) /\ _cxplat_initialized' = (ok \/ _cxplat_initialized)
    BY <1>2 DEF initiate_cxplat
  <2>2. ~_cxplat_initialized
    BY <1>2 DEF initiate_cxplat
  <2>3. _cxplat_initialized' \in BOOLEAN /\ (_cxplat_initialized' <=> ok)
    BY <2>1, <2>2
  <2>4. Users' = IF ok THEN Users \cup {<<Loader, 0>>} ELSE Users
    BY <2>2, <2>3 DEF Users
  <2> QED BY <2>1, <2>2, <2>3, <2>4, <1>0, <1>1, Initializes, Zenon DEF LibInv
<1>3. CASE terminate_cxplat(Loader)
  <2>1. _cxplat_initialized' = FALSE
    BY <1>3 DEF terminate_cxplat
  <2>2. Users' = Users \ {<<Loader, 0>>}
    BY <2>1, <1>0 DEF Users
  <2>3. CASE _cxplat_initialized
    <3>1. cxplat_cleanup
      BY <2>3, <1>3 DEF terminate_cxplat
    <3> QED BY <3>1, <2>1, <2>2, <2>3, <1>0, <1>1, CleansUp, Zenon DEF LibInv
  <2>4. CASE ~_cxplat_initialized
    <3>1. UNCHANGED cxplatVars /\ Users' = Users
      BY <2>2, <2>4, <1>1, <1>3 DEF terminate_cxplat
    <3> QED BY <3>1, <2>1, <1>0, Zenon DEF LibInv, cxplatVars
  <2> QED BY <2>3, <2>4, <1>0
<1> QED BY <1>2, <1>3

\* At the start there is no user and no part of the library.
LEMMA LibInitially == Init => LibInv
<1> SUFFICES ASSUME Init PROVE LibInv
  OBVIOUS
<1>1. holds = [t \in Threads |-> 0] /\ _cxplat_initialized = FALSE /\ _cxplat_initialization_count = 0 /\ parts = {}
  BY DEF Init, PlatformInit, CxplatInit
<1>2. holds \in [Threads -> 0 .. MaxHolds]
  BY <1>1, HostAssumption
<1>3. Users = {}
  BY <1>1 DEF Users
<1> QED BY <1>1, <1>2, <1>3, FS_EmptySet, Zenon DEF LibInv

-----------------------------------------------------------------------------
(* The invariant, and what follows from it.                                *)

\* The invariant holds at the start,
LEMMA HostInitially == Init => HostInv
<1> SUFFICES ASSUME Init PROVE HostInv
  OBVIOUS
<1>1. /\ ld = Idle /\ client = [c \in Clients |-> Out] /\ refs = [d \in Dlls |-> 0]
      /\ Driver = None /\ driver_object = [d \in Dlls |-> FreshDriverObject]
      /\ device_init = None /\ device = [x \in Devices |-> None]
  BY DEF Init, WdfInit
<1>2. ld.pc = "idle" /\ ld \in LoaderStates
  BY <1>1 DEF Idle, LoaderStates
<1>3. Out \in ClientStates /\ Out.pc = "out" /\ ClientOK(Out)
  BY DEF Out, ClientStates, ClientOK
<1>4. HostTypes
  BY <1>1, <1>2, <1>3 DEF HostTypes, Loads
<1>5. WdfInv
  <2>1. FreshDriverObject \in [devices : Seq(Devices), EvtDriverDeviceAdd : BOOLEAN] /\ FreshDriverObject.devices = << >>
    BY DEF FreshDriverObject
  <2> QED BY <2>1, <1>1, <1>2, Zenon DEF WdfInv
<1>6. Mapped = {} /\ \A d : ClientsOf(d) = {} /\ ~Ending(d)
  <2>1. Mapped = {}
    BY <1>1 DEF Mapped
  <2>2. \A c \in Clients : client[c] = Out
    BY <1>1
  <2>3. \A d : ClientsOf(d) = {}
    BY <2>2, <1>3 DEF ClientsOf
  <2>4. \A d : ~Ending(d)
    BY <1>2 DEF Ending, Ends
  <2> QED BY <2>1, <2>3, <2>4
<1>7. RefsInv
  BY <1>1, <1>2, <1>6, Counting, Zenon DEF SetFacts, RefsInv, Loads
<1>8. SlotInv /\ DevicesInv
  BY <1>1, <1>2, <1>6, Zenon DEF SlotInv, DevicesInv, Serving
<1> QED BY <1>4, <1>5, <1>7, <1>8, LibInitially, PlatInitially DEF HostInv

\* and a step keeps the part on the library
LEMMA LibStep ==
  ASSUME HostInv, Next
  PROVE  LibInv'
<1>1. CASE PlatformStep(Loader) /\ UNCHANGED <<wdfVars, refs, ld, client, holds, usurped>>
  <2>1. CASE initiate_cxplat(Loader) \/ terminate_cxplat(Loader)
    <3>1. at[Loader] = "cxplat" => ~_cxplat_initialized
      BY Zenon DEF HostInv, HostTypes, LoaderStates, PlatInv, Down, Loads, Ends
    <3> QED BY <3>1, <2>1, <1>1, LibPlatform DEF HostInv
  <2>2. CASE initiate_subsystems(Loader) \/ terminate_subsystems(Loader) \/ terminate_count(Loader)
    <3>1. UNCHANGED <<cxplatVars, _cxplat_initialized, holds>>
      BY <2>2, <1>1, Zenon DEF initiate_subsystems, terminate_subsystems, terminate_count
    <3> QED BY <3>1, LibUnchanged DEF HostInv
  <2> QED BY <2>1, <2>2, <1>1 DEF PlatformStep
<1>2. CASE \/ usersim_attached \/ usersim_detached
           \/ UsersimStartDriver \/ DeviceInit \/ DeviceCreate \/ IoQueueCreate \/ Undo
           \/ UsersimStopDriver \/ Unmap
  <2>1. UNCHANGED <<cxplatVars, _cxplat_initialized, holds>>
    BY <1>2, Zenon DEF usersim_attached, usersim_detached, UsersimStartDriver, DeviceInit, DeviceCreate,
                IoQueueCreate, Undo, UsersimStopDriver, Unmap, usersim_platform_terminate, platformVars
  <2> QED BY <2>1, LibUnchanged DEF HostInv
<1>3. ASSUME NEW c \in Clients, ClientNext(c) PROVE LibInv'
  <2>1. UNCHANGED <<cxplatVars, _cxplat_initialized, holds>>
    BY <1>3, Zenon DEF ClientNext, LoadLibrary, FreeLibrary, GetDevice, usersim_device_io_control,
                KmdfHelloWorldIoDeviceControl, usersim_platform_initiate, platformVars
  <2> QED BY <2>1, LibUnchanged DEF HostInv
<1>4. ASSUME NEW t \in Threads, Hold(t) \/ Release(t) PROVE LibInv'
  BY <1>4, LibHolds DEF HostInv
<1> QED BY <1>1, <1>2, <1>3, <1>4 DEF Next, LoaderNext

\* and the rest of it,
LEMMA OthersStep ==
  ASSUME HostInv, Next
  PROVE  Others'
<1>0. Others /\ ~bugcheck
  BY DEF HostInv, Others, Next
<1>1. CASE PlatformStep(Loader) /\ UNCHANGED <<wdfVars, refs, ld, client, holds, usurped>>
  BY <1>0, <1>1, PlatSteps, WdfUnchanged, OthersUnchanged DEF Others
<1>2. ASSUME NEW t \in Threads, Hold(t) \/ Release(t) PROVE Others'
  <2>1. UNCHANGED <<_usersim_platform_initiate_count, _cxplat_initialized, subsystems, at, outcome,
                    bugcheck, wdfVars, refs, ld, client, usurped>>
    BY <1>2 DEF Hold, Release
  <2>2. PlatInv'
    BY <2>1, <1>0, PlatUnchanged DEF Others, PlatformState, Mapped
  <2> QED BY <2>1, <2>2, <1>0, WdfUnchanged, OthersUnchanged DEF Others
<1>3. ASSUME NEW c \in Clients, ClientNext(c) PROVE Others'
  <2>1. CASE ClientStep(c)
    BY <2>1, ClientStepInv DEF Others
  <2> QED BY <2>1, <1>0, <1>3, Counting, LoadLibraryInv, FreeLibraryInv DEF ClientNext, ClientStep
<1> QED BY <1>0, <1>1, <1>2, <1>3, Counting, AttachedInv, DetachedInv, StartDriverInv, DeviceInitInv, DeviceCreateInv,
           IoQueueCreateInv, UndoInv, StopDriverInv, UnmapInv DEF Next, LoaderNext

\* as does a step that changes nothing,
LEMMA HostUnchanged ==
  ASSUME HostInv, UNCHANGED vars
  PROVE  HostInv'
<1>1. /\ UNCHANGED <<cxplatVars, _cxplat_initialized, holds>> /\ UNCHANGED PlatformState
      /\ UNCHANGED <<wdfVars, refs, ld, client, usurped>> /\ bugcheck' = bugcheck
  BY DEF vars, platformVars, PlatformState
<1>2. LibInv' /\ WdfInv'
  BY <1>1, LibUnchanged, WdfUnchanged DEF HostInv
<1>3. PlatInv'
  BY <1>1, PlatUnchanged DEF HostInv, Mapped
<1> QED BY <1>1, <1>2, <1>3, OthersUnchanged DEF HostInv

\* so that every step keeps it.
LEMMA HostStep == HostInv /\ [Next]_vars => HostInv'
BY LibStep, OthersStep, HostUnchanged DEF HostInv, Others

\* The library is up exactly while it has users.
THEOREM LibraryAlwaysFollowsUsers == Spec => []LibraryFollowsUsers
<1>1. HostInv => LibraryFollowsUsers
  <2> SUFFICES ASSUME HostInv PROVE LibraryFollowsUsers
    OBVIOUS
  <2>1. Users = {} /\ ld = Idle /\ Mapped = {} => "irql" \notin subsystems
    BY IdleIsIdle DEF HostInv, PlatInv, Down, NoSubsystems
  <2> QED BY <2>1 DEF HostInv, LibInv, LibraryFollowsUsers
<1> QED BY <1>1, HostInitially, HostStep, PTL DEF Spec

\* A load that failed and a driver that is gone leave nothing to the framework.
THEOREM NothingEverLeftBehind == Spec => []NothingLeftBehind
<1>1. HostInv => NothingLeftBehind
  <2> SUFFICES ASSUME HostInv, ld.pc \in {"idle", "gone"}, Mapped = {}
               PROVE  Driver = None /\ device_init = None /\ \A x \in Devices : device[x] = None
    BY DEF NothingLeftBehind
  <2>1. Driver = None
    BY DEF HostInv, SlotInv
  <2> QED BY <2>1 DEF HostInv, WdfInv
<1> QED BY <1>1, HostInitially, HostStep, PTL DEF Spec

\* What the sample driver answers fits, and a success echoes the request.
LEMMA RepliesFit ==
  ASSUME HostTypes, NEW c \in Clients, client[c].pc = "request"
  PROVE  LET r == HelloWorldReply(c)
         IN  /\ r.bytes_returned <= r.room /\ r.bytes_returned <= r.out
             /\ r.ok => r.echoed = r.bytes_returned
<1>0. client[c].request \in Requests
  BY DEF HostTypes, ClientOK
<1>1. PICK in \in Sizes, out \in Sizes : client[c].request = NewRequest(in, out)
  BY <1>0, SMTT(30) DEF Requests
<1>2. PICK q : q = client[c].request
  BY Zenon
<1>3. in \in Nat /\ out \in Nat
  BY HostAssumption
<1>4. PICK m \in Nat : m = max(max(in, out), 1) /\ out <= m
  <2>1. max(in, out) \in Nat /\ out <= max(in, out)
    BY <1>3 DEF max
  <2>2. \A n \in Nat : max(n, 1) \in Nat /\ n <= max(n, 1)
    BY DEF max
  <2>3. PICK n \in Nat : n = max(in, out) /\ out <= n
    BY <2>1
  <2>4. PICK m \in Nat : m = max(n, 1) /\ n <= m
    BY <2>2
  <2> QED BY <2>3, <2>4, <1>3
<1>5. q = [in |-> in, out |-> out, room |-> m, buffer_size |-> in]
  BY <1>1, <1>2, <1>4, Zenon DEF NewRequest
<1>6. q.in = in /\ q.out = out /\ q.room = m /\ q.buffer_size = in
  BY <1>5
<1>7. HelloWorldSucceeds(q, client[c].code) => in >= out
  BY <1>6 DEF HelloWorldSucceeds, _WdfRequestRetrieveOutputBuffer
<1>8. PICK ok : ok = HelloWorldSucceeds(q, client[c].code)
  OBVIOUS
<1>9. HelloWorldReply(c) = [ok |-> ok, bytes_returned |-> out, room |-> m, out |-> out,
                            echoed |-> IF out <= in THEN out ELSE in]
  BY <1>2, <1>6, <1>8, Zenon DEF HelloWorldReply, Reply
<1>10. ok => (IF out <= in THEN out ELSE in) = out
  BY <1>3, <1>7, <1>8
<1>11. PICK r : r = HelloWorldReply(c)
  OBVIOUS
<1>12. r.ok = ok /\ r.bytes_returned = out /\ r.room = m /\ r.out = out /\ r.echoed = (IF out <= in THEN out ELSE in)
  <2>1. PICK e : e = IF out <= in THEN out ELSE in
    OBVIOUS
  <2>2. r = [ok |-> ok, bytes_returned |-> out, room |-> m, out |-> out, echoed |-> e]
    BY <2>1, <1>9, <1>11, Zenon
  <2>3. r.ok = ok /\ r.bytes_returned = out /\ r.room = m /\ r.out = out /\ r.echoed = e
    BY <2>2, Zenon
  <2> QED BY <2>1, <2>3
<1>13. out <= m /\ out <= out
  BY <1>3, <1>4
<1> QED BY <1>10, <1>11, <1>12, <1>13

\* A driver that is loaded serves its clients.
THEOREM LoadedDriversServe == Spec => []LoadedDriverServes
<1>1. HostInv => LoadedDriverServes
  <2> SUFFICES ASSUME HostInv PROVE LoadedDriverServes
    OBVIOUS
  <2>1. ASSUME NEW d \in Mapped \ usurped, ~(ld.pc \in {"detach", "unmap"} /\ ld.dll = d)
        PROVE  /\ Driver = d
               /\ {"irql", "dpcs", "se", "wdf"} \subseteq subsystems
               /\ \A c \in Clients : client[c].pc \in {"device", "request"} /\ client[c].dll = d =>
                    /\ device[client[c].device] # None
                    /\ client[c].device \in Range(driver_object[d].devices)
    <3>1. d \in Dlls /\ Serving(d) /\ Mapped # {}
      BY <2>1, Zenon DEF Serving, Ending, Ends, Mapped
    <3>2. Driver = d
      BY <2>1 DEF HostInv, SlotInv
    <3>3. Up
      BY <3>1, Zenon DEF HostInv, HostTypes, LoaderStates, PlatInv, Loads, Ends
    <3>4. ASSUME NEW c \in Clients, client[c].pc \in {"device", "request"}, client[c].dll = d
          PROVE  /\ device[client[c].device] # None
                 /\ client[c].device \in Range(driver_object[d].devices)
      <4>1. client[c].device \in Range(driver_object[d].devices)
        BY <3>1, <3>4, Zenon DEF HostInv, DevicesInv
      <4>2. driver_object[d].devices \in Seq(Devices)
        BY <3>1 DEF HostInv, WdfInv
      <4>3. client[c].device \in Devices
        BY <4>1, <4>2, DevicesOnly, Zenon
      <4> QED BY <4>1, <4>3, <3>1, <3>2, WdfAssumption, Zenon DEF HostInv, WdfInv
    <3> QED BY <3>2, <3>3, <3>4, Zenon DEF Up
  <2>2. \A c \in Clients : client[c].pc = "request" =>
          LET r == HelloWorldReply(c)
          IN  /\ r.bytes_returned <= r.room /\ r.bytes_returned <= r.out
              /\ r.ok => r.echoed = r.bytes_returned
    BY RepliesFit, Zenon DEF HostInv
  <2> QED BY <2>1, <2>2, Zenon DEF LoadedDriverServes
<1> QED BY <1>1, HostInitially, HostStep, PTL DEF Spec
=============================================================================
