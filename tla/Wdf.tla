--------------------------------- MODULE Wdf ---------------------------------
(***************************************************************************)
(* wdf.cpp: the driver framework.  There is one global driver slot; every   *)
(* driver DLL has a static DRIVER_OBJECT with the list of its devices.       *)
(* A WDFDEVICE_INIT is built up and turned into a device by WdfDeviceCreate. *)
(* Allocation and fault-injection failures are the "ok" parameters.          *)
(***************************************************************************)
EXTENDS Naturals, Sequences, Functions

CONSTANTS Dlls, Devices, Names, None

\* A WDFDEVICE_INIT, and a device object.
InitStructs   == [device_name : Names \cup {None}, preprocess : BOOLEAN]
DeviceObjects == [init : InitStructs, EvtIoDeviceControl : BOOLEAN]

ASSUME WdfAssumption == None \notin Dlls \cup Devices \cup Names \cup InitStructs \cup DeviceObjects

VARIABLES Driver,          \* g_UsersimWdfDriverGlobals.Driver: the DLL whose object it is, or None
          driver_object,   \* Dlls -> its static DRIVER_OBJECT
          device_init,     \* the WDFDEVICE_INIT allocated and not freed, or None
          device           \* Devices -> the device object, or None when free

wdfVars == <<Driver, driver_object, device_init, device>>

FreshDriverObject == [devices |-> << >>, EvtDriverDeviceAdd |-> FALSE]

WdfInit ==
    /\ Driver = None
    /\ driver_object = [d \in Dlls |-> FreshDriverObject]
    /\ device_init = None
    /\ device = [x \in Devices |-> None]

-----------------------------------------------------------------------------
_WdfControlDeviceInitAllocate(ok) ==
    device_init' = IF ok THEN [device_name |-> None, preprocess |-> FALSE] ELSE device_init

\* Mutant: a driver is created although another has the slot.
_WdfDriverCreate_takes_slot(d, add, ok) ==
    /\ Driver' = d
    /\ driver_object' = [driver_object EXCEPT ![d].EvtDriverDeviceAdd = add]
    /\ _WdfControlDeviceInitAllocate(ok)
    /\ UNCHANGED device

\* A taken slot refuses the driver; otherwise the slot is its own even if the
\* rest fails.  The structure is for EvtDriverDeviceAdd, or for a driver without
\* one, which asks for it as soon as it has the slot.
_WdfDriverCreate(d, add, ok) ==
    IF Driver # None
    THEN ~ok /\ UNCHANGED wdfVars
    ELSE /\ Driver' = d
         /\ driver_object' = [driver_object EXCEPT ![d].EvtDriverDeviceAdd = add]
         /\ _WdfControlDeviceInitAllocate(ok)
         /\ UNCHANGED device

_WdfDeviceInitFree == device_init' = None

_WdfDeviceInitAssignName(name, ok) ==
    device_init' = IF ok THEN [device_init EXCEPT !.device_name = name] ELSE device_init

\* A second callback for a major function is refused only when the first one
\* named its minor functions; preprocess says that one did.
_WdfDeviceInitAssignWdmIrpPreprocessCallback(minors, ok) ==
    /\ device_init.preprocess => ~ok
    /\ device_init' = IF ok THEN [device_init EXCEPT !.preprocess = minors] ELSE device_init

\* The device takes over the structure, which is freed; on failure it is still
\* the caller's.
_WdfDeviceCreate(x, ok) ==
    IF ok THEN /\ device[x] = None
               /\ device' = [device EXCEPT ![x] = [init |-> device_init, EvtIoDeviceControl |-> FALSE]]
               /\ driver_object' = [driver_object EXCEPT ![Driver].devices = Append(@, x)]
               /\ _WdfDeviceInitFree
          ELSE UNCHANGED <<device, driver_object, device_init>>

\* The configuration is stored whatever the result.
_WdfIoQueueCreate(x, config) == device' = [device EXCEPT ![x].EvtIoDeviceControl = config]

\* Deletes the last device of the current driver until its first n are left: each
\* is freed and taken off the list.
_WdfObjectDelete(n) ==
    LET devices == driver_object[Driver].devices
        freed   == {devices[i] : i \in n + 1 .. Len(devices)}
    IN  /\ device' = [x \in Devices |-> IF x \in freed THEN None ELSE device[x]]
        /\ driver_object' = [driver_object EXCEPT ![Driver].devices = SubSeq(@, 1, n)]

\* Mutant: the structure of a failed EvtDriverDeviceAdd is not freed.
undo_device_add_no_free(original) == _WdfObjectDelete(original) /\ UNCHANGED device_init

\* After EvtDriverDeviceAdd failed: the framework deletes the devices it made or,
\* if it made none, frees the structure it was given.
undo_device_add(original) ==
    IF Len(driver_object[Driver].devices) > original
    THEN _WdfObjectDelete(original) /\ UNCHANGED device_init
    ELSE _WdfDeviceInitFree /\ UNCHANGED <<device, driver_object>>

\* No name asks for the first device; a name for the first device that has it.
\* The answer is a set: the device, or none.
usersim_get_device_by_name(d, name) ==
    LET devices == driver_object[d].devices
        named   == {i \in DOMAIN devices : name = None \/ device[devices[i]].init.device_name = name}
    IN  {devices[i] : i \in {j \in named : \A k \in named : j <= k}}

-----------------------------------------------------------------------------
\* The request buffer is shared by input and output: it has room for the larger
\* of the two, and buffer_size is the length of the input.
max(m, n) == IF m >= n THEN m ELSE n
NewRequest(in, out) == [in |-> in, out |-> out, room |-> max(max(in, out), 1), buffer_size |-> in]

_WdfRequestRetrieveInputBuffer(request, minimum) == request.buffer_size >= minimum
_WdfRequestRetrieveOutputBuffer(request, minimum) == request.buffer_size >= minimum

\* What usersim_device_io_control hands back: information bytes are copied out
\* of the shared buffer, and the first buffer_size of them are the caller's own.
Reply(request, success, information) ==
    [ok |-> success, bytes_returned |-> information, room |-> request.room,
     out |-> request.out,
     echoed |-> IF information <= request.buffer_size THEN information ELSE request.buffer_size]
=============================================================================
