------------------------------ MODULE Platform ------------------------------
(***************************************************************************)
(* platform_user.cpp: usersim_platform_initiate and                         *)
(* usersim_platform_terminate.  They take no lock: a counter decides who     *)
(* does the work, and the calls of several threads interleave.  A thread is  *)
(* "out", or at the step its call takes next.                               *)
(***************************************************************************)
EXTENDS Cxplat, Integers, FiniteSets

CONSTANT Threads

VARIABLES _usersim_platform_initiate_count,
          _cxplat_initialized,
          subsystems,      \* those of ke.cpp, se.cpp and wdf.cpp that are initialised
          at,              \* Threads -> its step
          outcome,         \* Threads -> what its last call of initiate returned
          bugcheck         \* KeBugCheck was called, or a null pointer used

platformVars == <<cxplatVars, _usersim_platform_initiate_count, _cxplat_initialized,
                  subsystems, at, outcome, bugcheck>>

\* usersim_initialize_irql, _dpcs, _se and _wdf, in the order they are called.
Subsystems == <<"irql", "dpcs", "se", "wdf">>

PlatformInit ==
    /\ CxplatInit
    /\ _usersim_platform_initiate_count = 0
    /\ _cxplat_initialized = FALSE
    /\ subsystems = {}
    /\ at = [t \in Threads |-> "out"]
    /\ outcome = [t \in Threads |-> "none"]
    /\ bugcheck = FALSE

Goto(t, step) == at' = [at EXCEPT ![t] = step]
Returns(t, result) == outcome' = [outcome EXCEPT ![t] = result]

\* Only the caller that takes the counter to one initialises anything; the
\* others return at once.
usersim_platform_initiate(t) ==
    /\ at[t] = "out"
    /\ _usersim_platform_initiate_count' = _usersim_platform_initiate_count + 1
    /\ IF _usersim_platform_initiate_count + 1 > 1
       THEN Returns(t, "ok") /\ UNCHANGED at
       ELSE Returns(t, "none") /\ Goto(t, "cxplat")
    /\ UNCHANGED <<cxplatVars, _cxplat_initialized, subsystems, bugcheck>>

initiate_cxplat(t) ==
    /\ at[t] = "cxplat"
    /\ \E ok \in BOOLEAN :
         /\ cxplat_initialize(ok)
         /\ _cxplat_initialized' = (ok \/ _cxplat_initialized)
         /\ IF ok THEN Goto(t, "subsystems") /\ UNCHANGED outcome
                  ELSE Goto(t, "terminate") /\ Returns(t, "failed")
    /\ UNCHANGED <<_usersim_platform_initiate_count, subsystems, bugcheck>>

\* The first of them to fail ends the call, which then terminates by itself.
\* (usersim_initialize_wdf only fills a table and cannot fail.)
initiate_subsystems(t) ==
    /\ at[t] = "subsystems"
    /\ \E n \in {0, 1, 2, 4} :
         /\ subsystems' = subsystems \cup {Subsystems[i] : i \in 1..n}
         /\ IF n = 4 THEN Goto(t, "out") /\ Returns(t, "ok")
                     ELSE Goto(t, "terminate") /\ Returns(t, "failed")
    /\ UNCHANGED <<cxplatVars, _usersim_platform_initiate_count, _cxplat_initialized, bugcheck>>

\* Called by a thread, or by the failing initiate above.
usersim_platform_terminate(t) ==
    /\ at[t] = "out"
    /\ Goto(t, "terminate")
    /\ Returns(t, "none")
    /\ UNCHANGED <<cxplatVars, _usersim_platform_initiate_count, _cxplat_initialized, subsystems, bugcheck>>

\* Waits for the work items, frees semaphores and timers, then the DPC and IRQL
\* state; the SIDs of se.cpp and the function table of wdf.cpp stay.
terminate_subsystems(t) ==
    /\ at[t] = "terminate"
    /\ subsystems' = subsystems \ {"dpcs", "irql"}
    /\ Goto(t, "cleanup")
    /\ UNCHANGED <<cxplatVars, _usersim_platform_initiate_count, _cxplat_initialized, outcome, bugcheck>>

terminate_cxplat(t) ==
    /\ at[t] = "cleanup"
    /\ IF _cxplat_initialized THEN cxplat_cleanup ELSE UNCHANGED cxplatVars
    /\ _cxplat_initialized' = FALSE
    /\ Goto(t, "count")
    /\ UNCHANGED <<_usersim_platform_initiate_count, subsystems, outcome, bugcheck>>

terminate_count(t) ==
    /\ at[t] = "count"
    /\ _usersim_platform_initiate_count' = _usersim_platform_initiate_count - 1
    /\ bugcheck' = (_usersim_platform_initiate_count - 1 < 0)
    /\ Goto(t, "out")
    /\ UNCHANGED <<cxplatVars, _cxplat_initialized, subsystems, outcome>>

PlatformStep(t) ==
    \/ initiate_cxplat(t)
    \/ initiate_subsystems(t)
    \/ terminate_subsystems(t)
    \/ terminate_cxplat(t)
    \/ terminate_count(t)
=============================================================================
