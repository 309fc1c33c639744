------------------------------ MODULE Handles ------------------------------
(* What drivers share through counts and slots: objects (ob.cpp), the        *)
(* primary token and the process notify routine (ps.cpp), and the numbers    *)
(* of processors (platform_user.cpp, processor_winuser.cpp).  None of these  *)
(* has a lock: the drivers call one at a time, and keep the usual contract,  *)
(* one ObfDereferenceObject or ObCloseHandle for each reference.             *)
EXTENDS Integers, Sequences, FiniteSets

CONSTANTS
  Drivers,
  Objects,
  MaxRefs,      \* bound: references of a driver to an object, or to the token
  GroupSizes    \* bound: machines, each the sequence of its group sizes

ASSUME HandlesAssumption ==
  /\ IsFiniteSet(Drivers)
  /\ MaxRefs \in Nat
  /\ GroupSizes # {} /\ \A g \in GroupSizes : g \in Seq(Nat) /\ g # << >>

VARIABLES
  _object_references,        \* Objects -> count; 0 is no entry in the map
  open,                      \* objects CloseHandle was not called for
  refs,                      \* Drivers -> Objects -> references the driver has
  _primary_token_ref_count,
  tokens,                    \* Drivers -> token references the driver has
  notify,                    \* drivers whose notify routine is set: at most one
  groups,                    \* sizes of the processor groups
  Offset,                    \* of the groups in _cxplat_processor_group_info so far
  current_processor_count,
  _usersim_platform_group_to_index_map,  \* the groups so far
  base_index

referenceVars ==
  <<_object_references, open, refs, _primary_token_ref_count, tokens, notify>>
processorVars ==
  <<Offset, current_processor_count, _usersim_platform_group_to_index_map, base_index>>
handleVars == <<referenceVars, groups, processorVars>>

HandleInit ==
  /\ _object_references = [o \in Objects |-> 0]
  /\ open = Objects
  /\ refs = [d \in Drivers |-> [o \in Objects |-> 0]]
  /\ _primary_token_ref_count = 0
  /\ tokens = [d \in Drivers |-> 0]
  /\ notify = {}
  /\ groups \in GroupSizes
  /\ Offset = << >> /\ current_processor_count = 0
  /\ _usersim_platform_group_to_index_map = << >> /\ base_index = 0

-----------------------------------------------------------------------------
\* The first reference makes the entry of the object.
ObfReferenceObject(o) == _object_references' = [_object_references EXCEPT ![o] = @ + 1]

\* The last one removes it and closes the object.
ObfDereferenceObject_early(o) ==
  /\ _object_references' = [_object_references EXCEPT ![o] = @ - 1]
  /\ open' = IF _object_references[o] <= 2 THEN open \ {o} ELSE open

ObfDereferenceObject(o) ==
  /\ _object_references' = [_object_references EXCEPT ![o] = @ - 1]
  /\ open' = IF _object_references'[o] = 0 THEN open \ {o} ELSE open

\* A call that asks for handle information fails before the reference.
ObReferenceObjectByHandle(d, o, information) ==
  /\ o \in open /\ refs[d][o] < MaxRefs
  /\ IF information
     THEN UNCHANGED <<_object_references, refs>>
     ELSE ObfReferenceObject(o) /\ refs' = [refs EXCEPT ![d][o] = @ + 1]
  /\ UNCHANGED <<open, _primary_token_ref_count, tokens, notify, groups, processorVars>>

\* ObCloseHandle is ObfDereferenceObject.
ObCloseHandle(d, o) ==
  /\ refs[d][o] > 0
  /\ ObfDereferenceObject(o)
  /\ refs' = [refs EXCEPT ![d][o] = @ - 1]
  /\ UNCHANGED <<_primary_token_ref_count, tokens, notify, groups, processorVars>>

-----------------------------------------------------------------------------
PsReferencePrimaryToken(d) ==
  /\ tokens[d] < MaxRefs
  /\ _primary_token_ref_count' = _primary_token_ref_count + 1
  /\ tokens' = [tokens EXCEPT ![d] = @ + 1]
  /\ UNCHANGED <<_object_references, open, refs, notify, groups, processorVars>>

\* The assertion on the count is a guard.
PsDereferencePrimaryToken(d) ==
  /\ tokens[d] > 0 /\ _primary_token_ref_count > 0
  /\ _primary_token_ref_count' = _primary_token_ref_count - 1
  /\ tokens' = [tokens EXCEPT ![d] = @ - 1]
  /\ UNCHANGED <<_object_references, open, refs, notify, groups, processorVars>>

\* There is one routine.  Removing does not look whose it is.
PsSetCreateProcessNotifyRoutineEx(d, remove) ==
  /\ IF remove
     THEN notify' = {}
     ELSE notify' = IF notify = {} THEN {d} ELSE notify
  /\ UNCHANGED <<_object_references, open, refs, _primary_token_ref_count, tokens, groups, processorVars>>

-----------------------------------------------------------------------------
(* Processors.  The index counts through the groups; a processor number is   *)
(* a group, from 0 on, and a place in it.  Both libraries sum up the sizes   *)
(* of the groups when they start, cxplat before the platform.                *)

\* What the operating system has; the indices are those below the count.
ProcessorsBefore(g) == UNION {{i} \X (1..groups[i]) : i \in 1..g}
ProcessorCount == Cardinality(ProcessorsBefore(Len(groups)))

\* One round of the loop of cxplat_winuser_initialize_processor_info.
AddGroupOffset ==
  LET i == Len(Offset) + 1
  IN  /\ i <= Len(groups)
      /\ Offset' = Append(Offset, current_processor_count)
      /\ current_processor_count' = current_processor_count + groups[i]
      /\ UNCHANGED <<referenceVars, groups, _usersim_platform_group_to_index_map, base_index>>

\* One round of the loop of usersim_platform_initiate.
AddGroupIndex ==
  LET i == Len(_usersim_platform_group_to_index_map) + 1
  IN  /\ Len(Offset) = Len(groups) /\ i <= Len(groups)
      /\ _usersim_platform_group_to_index_map' =
           Append(_usersim_platform_group_to_index_map, base_index)
      /\ base_index' = base_index + groups[i]
      /\ UNCHANGED <<referenceVars, groups, Offset, current_processor_count>>

\* The loops are over, and drivers run.
Started == Len(_usersim_platform_group_to_index_map) = Len(groups)

GroupToIndex(g) == _usersim_platform_group_to_index_map[g + 1]

KeGetProcessorIndexFromNumber(n) == GroupToIndex(n.group) + n.number
cxplat_get_current_processor_number(n) == Offset[n.group + 1] + n.number

\* The group before the first one that starts behind the index, or the last.
FirstOf(S) == CHOOSE g \in S : \A h \in S : g <= h

KeGetProcessorNumberFromIndex_at_start(index) ==
  LET behind == {g \in 1..(Len(groups) - 1) : index <= GroupToIndex(g)}
      group == (IF behind # {} THEN FirstOf(behind) ELSE Len(groups)) - 1
  IN  [group |-> group, number |-> index - GroupToIndex(group)]

KeGetProcessorNumberFromIndex(index) ==
  LET behind == {g \in 0..(Len(groups) - 1) : index < GroupToIndex(g)}
      group == (IF behind # {} THEN FirstOf(behind) ELSE Len(groups)) - 1
  IN  [group |-> group, number |-> index - GroupToIndex(group)]

DriverStep(d) ==
  \/ \E o \in Objects :
       \/ \E information \in BOOLEAN : ObReferenceObjectByHandle(d, o, information)
       \/ ObCloseHandle(d, o)
  \/ PsReferencePrimaryToken(d)
  \/ PsDereferencePrimaryToken(d)
  \/ \E remove \in BOOLEAN : PsSetCreateProcessNotifyRoutineEx(d, remove)

HandleNext ==
  \/ AddGroupOffset
  \/ AddGroupIndex
  \/ Started /\ \E d \in Drivers : DriverStep(d)

HandleSpec == HandleInit /\ [][HandleNext]_handleVars

-----------------------------------------------------------------------------
\* The references of the drivers to an object, and to the token, one by one.
ReferencesTo(o) == {x \in Drivers \X (1..MaxRefs) : x[2] <= refs[x[1]][o]}
TokenReferences == {x \in Drivers \X (1..MaxRefs) : x[2] <= tokens[x[1]]}

\* The counts are the references the drivers have.  So an object is open as
\* long as a driver has a reference, the assertion of PsDereferencePrimaryToken
\* holds for a driver that has one, and usersim_clean_up_ps meets the count 0
\* it asserts when every driver has returned its own.
ReferencesCounted ==
  /\ \A o \in Objects :
       /\ _object_references[o] = Cardinality(ReferencesTo(o))
       /\ (\E d \in Drivers : refs[d][o] > 0) => o \in open
  /\ _primary_token_ref_count = Cardinality(TokenReferences)

\* The three numberings agree on every processor of every machine, groups
\* without processors included: index to number and back is the identity, the
\* number is one of its group, and the two libraries count alike.
ProcessorsNumberedAlike ==
  Started => \A index \in 0..(ProcessorCount - 1) :
    LET n == KeGetProcessorNumberFromIndex(index)
    IN  /\ n.group \in 0..(Len(groups) - 1)
        /\ n.number \in 0..(groups[n.group + 1] - 1)
        /\ KeGetProcessorIndexFromNumber(n) = index
        /\ cxplat_get_current_processor_number(n) = index
=============================================================================
