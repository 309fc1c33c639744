----------------------------- MODULE DriverHost -----------------------------
(***************************************************************************)
(* A process that loads driver DLLs: the DllMain of usersim.dll             *)
(* (dllmain.cpp), that of a driver (dll_skeleton.cpp), the sample driver     *)
(* (sample/driver.c) and another that names its device and makes it without  *)
(* EvtDriverDeviceAdd, over the platform and the framework.  Clients load a   *)
(* DLL, look up its device, send it requests and free the DLL.               *)
(*                                                                         *)
(* The loader is external: it runs one DllMain at a time under its lock,      *)
(* counts the references of a DLL, loads usersim.dll before the first driver  *)
(* and unloads it after the last, and when DllMain answers FALSE to an        *)
(* attach it calls it again to detach and unloads the DLL.                    *)
(***************************************************************************)
EXTENDS Platform, Wdf

CONSTANTS Clients,
          Loader,      \* the loader's place among the Threads of the platform
          Sizes,       \* lengths of request and reply, in bytes
          MaxHolds     \* bound: how often a thread holds the cxplat library

VARIABLES refs,        \* Dlls -> the loader's reference count
          ld,          \* what the loader is doing
          client,      \* Clients -> where the client is
          holds,       \* Threads -> its cxplat_initialize calls not yet undone
          usurped      \* history: DLLs whose driver another DLL's detach stopped

ASSUME HostAssumption ==
    /\ IsFiniteSet(Threads) /\ IsFiniteSet(Clients)
    /\ Loader \in Threads /\ None \notin Clients
    /\ MaxHolds \in Nat /\ Sizes \subseteq Nat

vars == <<platformVars, wdfVars, refs, ld, client, holds, usurped>>

Idle == [pc |-> "idle", c |-> None, dll |-> None, devices |-> 0, add |-> FALSE, device |-> None]
Out  == [pc |-> "out", dll |-> None, device |-> None, request |-> None, code |-> 0]

Init ==
    /\ PlatformInit
    /\ WdfInit
    /\ refs = [d \in Dlls |-> 0]
    /\ ld = Idle
    /\ client = [c \in Clients |-> Out]
    /\ holds = [t \in Threads |-> 0]
    /\ usurped = {}

Loading(pc) == ld' = [ld EXCEPT !.pc = pc]
LoadFails == Loading("detach")
Mapped == {d \in Dlls : refs[d] > 0}
Loaded(c, d) == client' = [client EXCEPT ![c] = [Out EXCEPT !.pc = "loaded", !.dll = d]]

-----------------------------------------------------------------------------
\* LoadLibrary: a DLL already loaded is only counted.
LoadLibrary(c, d) ==
    /\ ld = Idle
    /\ client[c] = Out
    /\ IF refs[d] > 0
       THEN /\ Loaded(c, d)
            /\ refs' = [refs EXCEPT ![d] = @ + 1]
            /\ UNCHANGED <<platformVars, ld>>
       ELSE /\ ld' = [Idle EXCEPT !.pc = IF Mapped = {} THEN "usersim" ELSE "start", !.c = c, !.dll = d]
            /\ IF Mapped = {} THEN usersim_platform_initiate(Loader) ELSE UNCHANGED platformVars
            /\ UNCHANGED <<refs, client>>
    /\ UNCHANGED <<wdfVars, holds, usurped>>

\* DllMain of usersim.dll has answered its attach.
usersim_attached ==
    /\ ld.pc = "usersim"
    /\ at[Loader] = "out"
    /\ IF outcome[Loader] = "ok"
       THEN Loading("start") /\ UNCHANGED platformVars
       ELSE Loading("gone") /\ usersim_platform_terminate(Loader)
    /\ UNCHANGED <<wdfVars, refs, client, holds, usurped>>

\* usersim.dll is unloaded, with the last driver or after a failed attach.
usersim_detached ==
    /\ ld.pc = "gone"
    /\ at[Loader] = "out"
    /\ ld' = Idle
    /\ UNCHANGED <<platformVars, wdfVars, refs, client, holds, usurped>>

DriverEntry(add, ok) == _WdfDriverCreate(ld.dll, add, ok)

UsersimStartDriver ==
    /\ ld.pc = "start"
    /\ \E add, ok \in BOOLEAN :
         /\ DriverEntry(add, ok)
         /\ IF ok THEN ld' = [ld EXCEPT !.pc = "init", !.add = add,
                                        !.devices = Len(driver_object[ld.dll].devices)]
                  ELSE LoadFails
    /\ UNCHANGED <<platformVars, refs, client, holds, usurped>>

\* The driver sets up the structure; the sample leaves it as it is.  Its type,
\* characteristics and file object settings are only stored.
DeviceInit ==
    /\ ld.pc = "init"
    /\ \E ok \in BOOLEAN :
         /\ \/ \E n \in Names : _WdfDeviceInitAssignName(n, ok)
            \/ \E minors \in BOOLEAN : _WdfDeviceInitAssignWdmIrpPreprocessCallback(minors, ok)
         /\ IF ok THEN UNCHANGED ld ELSE Loading("undo")
    /\ UNCHANGED <<platformVars, Driver, driver_object, device, refs, client, holds, usurped>>

DeviceCreate ==
    /\ ld.pc = "init"
    /\ \E x \in Devices, ok \in BOOLEAN :
         /\ _WdfDeviceCreate(x, ok)
         /\ ld' = IF ok THEN [ld EXCEPT !.pc = "queue", !.device = x]
                        ELSE [ld EXCEPT !.pc = "undo"]
    /\ UNCHANGED <<platformVars, Driver, refs, client, holds, usurped>>

\* KmdfHelloWorldEvtDeviceAdd ends with the queue.  (A symbolic link before it
\* can only fail, without a trace.)
IoQueueCreate ==
    /\ ld.pc = "queue"
    /\ \E ok, linked \in BOOLEAN :
         /\ IF linked THEN _WdfIoQueueCreate(ld.device, TRUE) ELSE UNCHANGED device
         /\ IF ok /\ linked
            THEN /\ refs' = [refs EXCEPT ![ld.dll] = 1]
                 /\ Loaded(ld.c, ld.dll)
                 /\ ld' = Idle
            ELSE Loading("undo") /\ UNCHANGED <<refs, client>>
    /\ UNCHANGED <<platformVars, Driver, driver_object, device_init, holds, usurped>>

\* WdfDriverCreate undoes a failed EvtDriverDeviceAdd; a driver that allocated
\* the structure frees it, and leaves its device to the detach.
Undo ==
    /\ ld.pc = "undo"
    /\ IF ld.add THEN undo_device_add(ld.devices)
                 ELSE _WdfDeviceInitFree /\ UNCHANGED <<device, driver_object>>
    /\ LoadFails
    /\ UNCHANGED <<platformVars, Driver, refs, client, holds, usurped>>

\* The driver stopped is the one in the global slot, whichever DLL detaches; an
\* empty slot is a null pointer.
UsersimStopDriver ==
    /\ ld.pc = "detach"
    /\ IF Driver = None
       THEN bugcheck' = TRUE /\ UNCHANGED <<wdfVars, usurped>>
       ELSE /\ _WdfObjectDelete(0)
            /\ usurped' = IF Driver = ld.dll THEN usurped ELSE usurped \cup {Driver}
            /\ Driver' = None
            /\ UNCHANGED <<device_init, bugcheck>>
    /\ Loading("unmap")
    /\ UNCHANGED <<cxplatVars, _usersim_platform_initiate_count, _cxplat_initialized, subsystems,
                   at, outcome, refs, client, holds>>

\* The DLL is unmapped, and with the last one usersim.dll is detached.
Unmap ==
    /\ ld.pc = "unmap"
    /\ refs' = [refs EXCEPT ![ld.dll] = 0]
    /\ driver_object' = [driver_object EXCEPT ![ld.dll] = FreshDriverObject]
    /\ usurped' = usurped \ {ld.dll}
    /\ IF Mapped \ {ld.dll} = {}
       THEN Loading("gone") /\ usersim_platform_terminate(Loader)
       ELSE ld' = Idle /\ UNCHANGED platformVars
    /\ UNCHANGED <<Driver, device_init, device, client, holds>>

FreeLibrary(c) ==
    /\ ld = Idle
    /\ client[c].pc \in {"loaded", "device"}
    /\ LET d == client[c].dll
       IN  IF refs[d] > 1
           THEN refs' = [refs EXCEPT ![d] = @ - 1] /\ UNCHANGED ld
           ELSE ld' = [Idle EXCEPT !.pc = "detach", !.dll = d] /\ UNCHANGED refs
    /\ client' = [client EXCEPT ![c] = Out]
    /\ UNCHANGED <<platformVars, wdfVars, holds, usurped>>

-----------------------------------------------------------------------------
\* The client asks the DLL for its driver (the DLL answers with the global
\* slot) and the driver for its device.
usersim_dll_get_driver_from_module == Driver

GetDevice(c) ==
    /\ client[c].pc = "loaded"
    /\ usersim_dll_get_driver_from_module # None
    /\ \E name \in Names \cup {None} :
         \E x \in usersim_get_device_by_name(usersim_dll_get_driver_from_module, name) :
           client' = [client EXCEPT ![c].pc = "device", ![c].device = x]
    /\ UNCHANGED <<platformVars, wdfVars, refs, ld, holds, usurped>>

\* usersim_device_io_control, up to the driver's callback.
usersim_device_io_control(c) ==
    /\ client[c].pc = "device"
    /\ device[client[c].device] # None
    /\ device[client[c].device].EvtIoDeviceControl
    /\ \E in, out \in Sizes, code \in {0, 1} :
         client' = [client EXCEPT ![c].pc = "request", ![c].request = NewRequest(in, out), ![c].code = code]
    /\ UNCHANGED <<platformVars, wdfVars, refs, ld, holds, usurped>>

MinimumSize == 8

\* Mutant: the reply may be longer than the request.
HelloWorldSucceeds_any_reply(request, code) ==
    /\ code = 1
    /\ request.in # 0
    /\ _WdfRequestRetrieveInputBuffer(request, request.in)
    /\ request.in >= MinimumSize
    /\ request.out >= MinimumSize

HelloWorldSucceeds(request, code) ==
    /\ code = 1
    /\ request.in # 0
    /\ _WdfRequestRetrieveInputBuffer(request, request.in)
    /\ request.in >= MinimumSize
    /\ request.out >= MinimumSize
    /\ _WdfRequestRetrieveOutputBuffer(request, request.out)

\* The sample's callback completes every request with the length of the output
\* buffer; the caller copies that much and frees the request.
HelloWorldReply(c) ==
    LET request == client[c].request
    IN  Reply(request, HelloWorldSucceeds(request, client[c].code), request.out)

KmdfHelloWorldIoDeviceControl(c) ==
    /\ client[c].pc = "request"
    /\ client' = [client EXCEPT ![c].pc = "device", ![c].request = None, ![c].code = 0]
    /\ UNCHANGED <<platformVars, wdfVars, refs, ld, holds, usurped>>

-----------------------------------------------------------------------------
\* Other users of the cxplat library in the process.
Hold(t) ==
    /\ t # Loader /\ holds[t] < MaxHolds
    /\ \E ok \in BOOLEAN :
         /\ cxplat_initialize(ok)
         /\ holds' = [holds EXCEPT ![t] = @ + IF ok THEN 1 ELSE 0]
    /\ UNCHANGED <<_usersim_platform_initiate_count, _cxplat_initialized, subsystems, at, outcome,
                   bugcheck, wdfVars, refs, ld, client, usurped>>

Release(t) ==
    /\ t # Loader /\ holds[t] > 0
    /\ cxplat_cleanup
    /\ holds' = [holds EXCEPT ![t] = @ - 1]
    /\ UNCHANGED <<_usersim_platform_initiate_count, _cxplat_initialized, subsystems, at, outcome,
                   bugcheck, wdfVars, refs, ld, client, usurped>>

LoaderNext ==
    \/ PlatformStep(Loader) /\ UNCHANGED <<wdfVars, refs, ld, client, holds, usurped>>
    \/ usersim_attached \/ usersim_detached
    \/ UsersimStartDriver \/ DeviceInit \/ DeviceCreate \/ IoQueueCreate \/ Undo
    \/ UsersimStopDriver \/ Unmap

ClientNext(c) ==
    \/ \E d \in Dlls : LoadLibrary(c, d)
    \/ FreeLibrary(c)
    \/ GetDevice(c)
    \/ usersim_device_io_control(c)
    \/ KmdfHelloWorldIoDeviceControl(c)

\* A bug check or a null pointer ends the process.
Next ==
    /\ ~bugcheck
    /\ \/ LoaderNext
       \/ \E c \in Clients : ClientNext(c)
       \/ \E t \in Threads : Hold(t) \/ Release(t)

Spec == Init /\ [][Next]_vars

-----------------------------------------------------------------------------
\* The users of the library: each initialisation that a thread or the platform has
\* not undone.
Users ==
    {u \in Threads \X (1 .. MaxHolds) : u[2] <= holds[u[1]]}
      \cup (IF _cxplat_initialized THEN {<<Loader, 0>>} ELSE {})

\* The library is up exactly while someone who initialised it has not cleaned it
\* up, whatever failed on the way: its users are the platform and the threads
\* that hold it (cxplat_winuser.cpp:118-203, platform_user.cpp:59-65 and 111).
LibraryFollowsUsers ==
    /\ _cxplat_initialization_count = Cardinality(Users)
    /\ {"processors", "pool"} \cap parts = IF Users = {} THEN {} ELSE {"processors", "pool"}
    /\ Users = {} /\ ld = Idle /\ Mapped = {} => "irql" \notin subsystems

\* A driver DLL that is loaded has the driver slot and a platform that is up, and
\* the devices its clients hold are alive and its own, as long as no other
\* driver's detach has stopped it (dll_skeleton.cpp:47-64, wdf.cpp:44).  What it
\* answers stays inside the request's buffer and the caller's, and an answer that
\* reports success is the request's own bytes, all of them (wdf.cpp:465-479,
\* sample/driver.c:94-152).
LoadedDriverServes ==
    /\ \A d \in Mapped \ usurped :
         ~(ld.pc \in {"detach", "unmap"} /\ ld.dll = d) =>
           /\ Driver = d
           /\ {"irql", "dpcs", "se", "wdf"} \subseteq subsystems
           /\ \A c \in Clients : client[c].pc \in {"device", "request"} /\ client[c].dll = d =>
                /\ device[client[c].device] # None
                /\ client[c].device \in Range(driver_object[d].devices)
    /\ \A c \in Clients : client[c].pc = "request" =>
         LET r == HelloWorldReply(c)
         IN  /\ r.bytes_returned <= r.room /\ r.bytes_returned <= r.out
             /\ r.ok => r.echoed = r.bytes_returned

\* With nothing loaded the framework owns nothing: whatever step of a load
\* failed, its structure and devices are freed and the driver slot is empty
\* (wdf.cpp:55-76, 114-144, dll_skeleton.cpp:55-63).
NothingLeftBehind ==
    ld.pc \in {"idle", "gone"} /\ Mapped = {} =>
      /\ Driver = None
      /\ device_init = None
      /\ \A x \in Devices : device[x] = None
=============================================================================
