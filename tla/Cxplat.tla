------------------------------- MODULE Cxplat -------------------------------
(***************************************************************************)
(* cxplat_winuser.cpp: the reference-counted start and stop of the cxplat   *)
(* library, with the processor table of processor_winuser.cpp.  Both run    *)
(* under cxplat_initialization_mutex, so each is one step.                  *)
(***************************************************************************)
EXTENDS Naturals

VARIABLES environment,                    \* what the environment variables ask for
          _cxplat_initialization_count,
          parts                           \* the parts of the library that are up

cxplatVars == <<environment, _cxplat_initialization_count, parts>>

\* An unset, empty, "false" or "0" variable is off; so is a depth that is no number.
Environments == [faults : BOOLEAN, leaks : BOOLEAN]

CxplatInit ==
    /\ environment \in Environments
    /\ _cxplat_initialization_count = 0
    /\ parts = {}

\* The steps of a first initialisation, in order; "module" puts the caller's
\* module on the list of modules under test.
StartSteps == <<"decoder", "faults", "module", "detector", "processors", "pool">>

\* Fault injection is never stopped again, so a later first initialisation skips it.
Wanted(step) ==
    /\ step = "decoder" => environment.faults \/ environment.leaks
    /\ step \in {"faults", "module"} => environment.faults /\ "faults" \notin parts
    /\ step = "detector" => environment.leaks

\* Mutant: the processor table survives a failure to make the thread pool.
StartedParts_keeps_processors(n) == {StartSteps[i] : i \in {j \in 1 .. n - 1 : Wanted(StartSteps[j])}}

\* What is up when step n fails, or, past the last one, when none does: only the
\* processor table is undone, by the failure of the step that follows it.
StartedParts(n) ==
    {StartSteps[i] : i \in {j \in 1 .. n - 1 : Wanted(StartSteps[j])}}
      \ (IF n = 6 THEN {"processors"} ELSE {})

cxplat_initialize_first(ok) ==
    \E n \in 1..7 :
      /\ n < 7 => Wanted(StartSteps[n])
      /\ ok <=> n = 7
      /\ parts' = parts \cup StartedParts(n)
      /\ _cxplat_initialization_count' = IF ok THEN 1 ELSE 0

\* Another initialisation fails only when the list of modules cannot grow.
cxplat_initialize_again(ok) ==
    /\ ok \/ "faults" \in parts
    /\ _cxplat_initialization_count' = _cxplat_initialization_count + IF ok THEN 1 ELSE 0
    /\ UNCHANGED parts

cxplat_initialize(ok) ==
    /\ IF _cxplat_initialization_count > 0 THEN cxplat_initialize_again(ok) ELSE cxplat_initialize_first(ok)
    /\ UNCHANGED environment

\* The first conjunct is the runtime assertion.
cxplat_cleanup ==
    /\ _cxplat_initialization_count > 0
    /\ _cxplat_initialization_count' = _cxplat_initialization_count - 1
    /\ parts' = IF _cxplat_initialization_count > 1 THEN parts ELSE parts \cap {"faults", "module"}
    /\ UNCHANGED environment
=============================================================================
