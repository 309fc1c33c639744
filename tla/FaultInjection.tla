--------------------------- MODULE FaultInjection ---------------------------
(***************************************************************************)
(* cxplat_winuser/fault_injection.cpp: every call path that asks           *)
(* cxplat_fault_injection_inject_fault() is failed once, and the paths      *)
(* failed so far are kept in a log file so that a restarted test run goes   *)
(* on where the last one stopped (or crashed).                              *)
(*                                                                         *)
(* A call stack is a sequence of addresses.  Its canonical form keeps the   *)
(* frames of the modules under test, as offsets from the module's base.     *)
(* A thread inside is_new_stack() is at one of three points: "captured"     *)
(* (the canonical stack is formed, without the mutex), "log" (the stack is  *)
(* in _fault_hash, its record is not yet in the file) and "answered".       *)
(***************************************************************************)
EXTENDS Naturals, Sequences, FiniteSets

CONSTANTS Threads,
          CallStacks,     \* the stacks CaptureStackBackTrace may return
          Images,         \* the loaded modules, <<base, size>>
          MaxCount        \* bound: times one module is added

VARIABLES _modules_under_test,  \* Images -> number of times added
          _fault_hash,          \* the canonical stacks known to be failed
          enabled,              \* _cxplat_fault_injection_singleton is set
          log,                  \* the lines of the log file, which outlives the process
          inj,                  \* Threads -> where the thread is
          attempted,            \* history: stacks failed since the last reset
          delivered             \* history: those whose caller saw the failure

faultVars == <<_modules_under_test, _fault_hash, enabled, log, inj, attempted, delivered>>

Outside == [pc |-> "outside"]

FaultInit ==
    /\ _modules_under_test = [m \in Images |-> 0]
    /\ _fault_hash = {}
    /\ enabled = FALSE
    /\ log = {}
    /\ inj = [t \in Threads |-> Outside]
    /\ attempted = {}
    /\ delivered = {}

-----------------------------------------------------------------------------
\* The map is sorted by <<start, end>>, and lower_bound(<<address, 0>>) is the
\* first module that does not start below the address: the one before it is the
\* last that does.
find_base_address(modules, address) ==
    LET below == {m \in Images : modules[m] > 0 /\ m[1] < address}
        last  == CHOOSE m \in below : \A n \in below : n[1] <= m[1]
        end   == last[1] + last[2]           \* module.second, the end address
    IN  IF below # {} /\ address < last[1] + end THEN last[1] ELSE 0

CanonicalStack(modules, stack) ==
    LET frames == SelectSeq(stack, LAMBDA a : find_base_address(modules, a) # 0)
    IN  [i \in DOMAIN frames |-> frames[i] - find_base_address(modules, frames[i])]

\* A record of the log is a line with the frames, comment lines, and an empty
\* line: the loader skips the comments (the iteration numbers are comments too)
\* and reads the empty line as a stack without frames.
EmptyStack == << >>
RecordLines(stack) == {stack, EmptyStack}

\* Mutant: the known stacks are not read back.
load_fault_log_keeps_nothing == {}

load_fault_log == log

\* The constructor loads the log; a second call is refused (INVALID_STATE).
cxplat_fault_injection_initialize ==
    /\ ~enabled
    /\ _fault_hash' = load_fault_log
    /\ enabled' = TRUE
    /\ _modules_under_test' = [m \in Images |-> 0]
    /\ UNCHANGED <<log, inj, attempted, delivered>>

\* Must come after every other call, so no thread is inside.
cxplat_fault_injection_uninitialize ==
    /\ enabled
    /\ \A t \in Threads : inj[t] = Outside
    /\ enabled' = FALSE
    /\ _fault_hash' = {}
    /\ _modules_under_test' = [m \in Images |-> 0]
    /\ UNCHANGED <<log, inj, attempted, delivered>>

\* Mutant: the file is not truncated.
reset_in_memory_only ==
    /\ enabled
    /\ _fault_hash' = {}
    /\ log' = log
    /\ inj' = [t \in Threads |-> IF inj[t].pc = "log" THEN [inj[t] EXCEPT !.late = TRUE] ELSE inj[t]]
    /\ attempted' = {inj[t].stack : t \in {u \in Threads : inj[u].pc = "log"}}
    /\ delivered' = {}
    /\ UNCHANGED <<_modules_under_test, enabled>>

\* Clears the set and truncates the file.  A thread that has put its stack
\* into the set but not yet into the file will still write its record.
cxplat_fault_injection_reset ==
    /\ enabled
    /\ _fault_hash' = {}
    /\ log' = {}
    /\ inj' = [t \in Threads |-> IF inj[t].pc = "log" THEN [inj[t] EXCEPT !.late = TRUE] ELSE inj[t]]
    /\ attempted' = {inj[t].stack : t \in {u \in Threads : inj[u].pc = "log"}}
    /\ delivered' = {}
    /\ UNCHANGED <<_modules_under_test, enabled>>

\* A module is counted: it is under test until it was removed as often as added.
add_module_under_test(m) == _modules_under_test' = [_modules_under_test EXCEPT ![m] = @ + 1]

remove_module_under_test(m) ==
    _modules_under_test' = IF _modules_under_test[m] > 0
                           THEN [_modules_under_test EXCEPT ![m] = @ - 1]
                           ELSE _modules_under_test

\* Both leave the list alone when fault injection is off or the system does not
\* know the module.
cxplat_fault_injection_add_module(m) ==
    /\ enabled
    /\ _modules_under_test[m] < MaxCount
    /\ add_module_under_test(m)
    /\ UNCHANGED <<_fault_hash, enabled, log, inj, attempted, delivered>>

cxplat_fault_injection_remove_module(m) ==
    /\ enabled
    /\ remove_module_under_test(m)
    /\ UNCHANGED <<_fault_hash, enabled, log, inj, attempted, delivered>>

-----------------------------------------------------------------------------
Answer(t, fault) == inj' = [inj EXCEPT ![t] = [pc |-> "answered", fault |-> fault]]

\* cxplat_fault_injection_inject_fault() up to the canonical stack, which is
\* formed from the module list without taking the mutex.
inject_fault(t, stack) ==
    /\ inj[t] = Outside
    /\ IF enabled
       THEN inj' = [inj EXCEPT ![t] =
                       [pc |-> "captured", stack |-> CanonicalStack(_modules_under_test, stack)]]
       ELSE Answer(t, FALSE)
    /\ UNCHANGED <<_modules_under_test, _fault_hash, enabled, log, attempted, delivered>>

\* The test and the insertion, in one critical section.
is_new_stack(t) ==
    /\ inj[t].pc = "captured"
    /\ LET stack == inj[t].stack IN
       IF stack \in _fault_hash
       THEN Answer(t, FALSE) /\ UNCHANGED <<_fault_hash, attempted>>
       ELSE /\ _fault_hash' = _fault_hash \cup {stack}
            /\ attempted' = attempted \cup {stack}
            /\ inj' = [inj EXCEPT ![t] = [pc |-> "log", stack |-> stack, late |-> FALSE]]
    /\ UNCHANGED <<_modules_under_test, enabled, log, delivered>>

\* The record is written and flushed in a second critical section.
log_stack_trace(t) ==
    /\ inj[t].pc = "log"
    /\ log' = log \cup RecordLines(inj[t].stack)
    /\ delivered' = IF inj[t].late THEN delivered ELSE delivered \cup {inj[t].stack}
    /\ Answer(t, TRUE)
    /\ UNCHANGED <<_modules_under_test, _fault_hash, enabled, attempted>>

\* The process dies (a crash the injected fault provoked, an assertion, or the
\* end of the program): only the file is left.
FaultCrash ==
    /\ enabled' = FALSE
    /\ _fault_hash' = {}
    /\ _modules_under_test' = [m \in Images |-> 0]
    /\ inj' = [t \in Threads |-> Outside]
    /\ UNCHANGED <<log, attempted, delivered>>

-----------------------------------------------------------------------------
\* A call path whose failure a caller has seen is not failed again before the
\* next reset, whatever other threads do and however often the process is
\* restarted or crashes in between (is_new_stack, load_fault_log).
OneFaultPerPath ==
    \A t \in Threads : inj[t].pc = "log" /\ ~inj[t].late => inj[t].stack \notin delivered

\* The paths that will not be failed any more are ones that were failed since
\* the last reset: neither a restart nor a reset racing with a writer makes
\* fault injection skip a path.  The path without a frame in a module under
\* test is the exception, the loader reads it out of every record's empty line.
FaultsNotSkipped == _fault_hash \subseteq attempted \cup {EmptyStack}

=============================================================================
