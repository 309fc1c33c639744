------------------------------- MODULE Calls -------------------------------
(* The calls that take several system resources one after the other, each   *)
(* of which may be refused, and give them back before they return: access    *)
(* checks and token queries (se.cpp, platform_user.cpp), the ring buffer     *)
(* (platform_user.cpp), strings and paths (memory.c, module_winuser.cpp),    *)
(* keys (zw.cpp), trace providers (etw.cpp) and redirect handles             *)
(* (fwp_um.cpp).  A call is a walk through named steps.  The operating       *)
(* system is external: every step of it may work or not.                     *)
EXTENDS Integers, FiniteSets, Sequences

CONSTANTS
  Callers,     \* threads
  Walker,      \* bound: the thread that makes the calls that share nothing
  MaxKept,     \* bound: results a caller has not released
  MaxLocks,    \* bound: locks of the subject context a caller holds
  AccountSizes,  \* bound: sizes in bytes of the buffers for account names
  AccountChars   \* bound: lengths in characters of account names, with the terminator

ASSUME CallsAssumption ==
  /\ IsFiniteSet(Callers) /\ Walker \in Callers
  /\ MaxLocks \in Nat
  /\ AccountSizes \subseteq Nat /\ AccountChars \subseteq Nat \ {0}

VARIABLES
  call,        \* Callers -> the call in progress
  kept,        \* Callers -> results it has to release
  locks,       \* Callers -> its SeLockSubjectContext calls not yet undone
  lock_count,  \* of the one subject context, shared by the callers
  underflow    \* SeUnlockSubjectContext met the count 0: KeBugCheck

callVars == <<call, kept, locks, lock_count, underflow>>

\* locked is the parameter of SeAccessCheck, the rest are the buffers and the
\* lengths of SecLookupAccountSid.
NoCall ==
  [at |-> "idle", fn |-> "none", held |-> {}, status |-> "none", failed |-> FALSE,
   locked |-> FALSE, name |-> << >>, domain |-> << >>, name_chars |-> 0, domain_chars |-> 0]

CallInit ==
  /\ call = [c \in Callers |-> NoCall]
  /\ kept = [c \in Callers |-> {}]
  /\ locks = [c \in Callers |-> 0]
  /\ lock_count = 0
  /\ underflow = FALSE

-----------------------------------------------------------------------------
(* Steps.  failed (history) remembers that a step of the call was refused.  *)

Update(c, r) == call' = [call EXCEPT ![c] = r] /\ UNCHANGED <<kept, locks, lock_count, underflow>>

Begin(c, fn, first) ==
  /\ call[c].at = "idle"
  /\ Update(c, [NoCall EXCEPT !.at = first, !.fn = fn])

\* A step that works gains resources; one that does not ends the call with a
\* failure, by way of the clean-up at stop.
Try(c, at, gains, next, stop) ==
  /\ call[c].at = at
  /\ \/ Update(c, [call[c] EXCEPT !.at = next, !.held = @ \cup gains])
     \/ Update(c, [call[c] EXCEPT !.at = stop, !.status = "failure", !.failed = TRUE])

\* The last such step decides the answer.
TryLast(c, at, gains, done, stop) ==
  /\ call[c].at = at
  /\ \/ Update(c, [call[c] EXCEPT !.at = done, !.status = "success", !.held = @ \cup gains])
     \/ Update(c, [call[c] EXCEPT !.at = stop, !.status = "failure", !.failed = TRUE])

\* What was gained of released goes back.
Cleanup(c, at, released) ==
  /\ call[c].at = at
  /\ Update(c, [call[c] EXCEPT !.at = "return", !.held = @ \ released])

\* The caller gets what the call still holds.
Return(c) ==
  /\ call[c].at = "return"
  /\ call' = [call EXCEPT ![c] = NoCall]
  /\ kept' = [kept EXCEPT ![c] = @ \cup call[c].held]
  /\ UNCHANGED <<locks, lock_count, underflow>>

\* The caller releases a result, or asks for one more.
Release(c, r) ==
  /\ call[c].at = "idle" /\ r \in kept[c]
  /\ kept' = [kept EXCEPT ![c] = @ \ {r}]
  /\ UNCHANGED <<call, locks, lock_count, underflow>>
Asks(c, r) == r \notin kept[c] /\ Cardinality(kept[c]) < MaxKept

-----------------------------------------------------------------------------
(* Access checks of the platform.                                           *)

usersim_access_check(c) ==
  \/ Begin(c, "usersim_access_check", "ac fault")
  \/ Try(c, "ac fault", {}, "ImpersonateSelf", "return")
  \/ Try(c, "ImpersonateSelf", {"impersonation"}, "OpenThreadToken", "ac done")
  \/ Try(c, "OpenThreadToken", {"token"}, "AccessCheck", "ac done")
  \/ TryLast(c, "AccessCheck", {}, "ac done", "ac done")
  \/ Cleanup(c, "ac done", {"token", "impersonation"})

\* Four tests of the descriptor.
usersim_validate_security_descriptor(c) ==
  \/ Begin(c, "usersim_validate_security_descriptor", "vs fault")
  \/ Try(c, "vs fault", {}, "IsValidSecurityDescriptor", "return")
  \/ Try(c, "IsValidSecurityDescriptor", {}, "GetSecurityDescriptorControl", "return")
  \/ Try(c, "GetSecurityDescriptorControl", {}, "self relative", "return")
  \/ Try(c, "self relative", {}, "vs length", "return")
  \/ TryLast(c, "vs length", {}, "return", "return")

usersim_platform_get_authentication_id(c) ==
  \/ Begin(c, "usersim_platform_get_authentication_id", "ai fault")
  \/ Try(c, "ai fault", {}, "ai size", "return")
  \/ Try(c, "ai size", {}, "ai allocate", "return")
  \/ Try(c, "ai allocate", {"privileges"}, "ai get", "return")
  \/ TryLast(c, "ai get", {}, "ai exit", "ai exit")
  \/ Cleanup(c, "ai exit", {"privileges"})

-----------------------------------------------------------------------------
(* The subject context and SeAccessCheck.  The count is interlocked.        *)

SeLockSubjectContext == lock_count' = lock_count + 1 /\ UNCHANGED underflow
SeUnlockSubjectContext ==
  IF lock_count = 0
  THEN underflow' = TRUE /\ UNCHANGED lock_count
  ELSE lock_count' = lock_count - 1 /\ UNCHANGED underflow

\* A caller locks and unlocks the context itself.
Lock(c) ==
  /\ call[c].at = "idle" /\ locks[c] < MaxLocks
  /\ SeLockSubjectContext
  /\ locks' = [locks EXCEPT ![c] = @ + 1]
  /\ UNCHANGED <<call, kept>>

Unlock(c) ==
  /\ call[c].at = "idle" /\ locks[c] > 0
  /\ SeUnlockSubjectContext
  /\ locks' = [locks EXCEPT ![c] = @ - 1]
  /\ UNCHANGED <<call, kept>>

\* A caller that says it has locked the context has.
SeAccessCheckBegins(c, locked) ==
  /\ call[c].at = "idle" /\ (locked => locks[c] > 0)
  /\ call' = [call EXCEPT ![c] =
       [NoCall EXCEPT !.at = "ta size", !.fn = "SeAccessCheck", !.locked = locked]]
  /\ IF locked THEN UNCHANGED <<lock_count, underflow>> ELSE SeLockSubjectContext
  /\ UNCHANGED <<kept, locks>>

\* Everything is granted, except by fault injection.
SeAccessCheckFromState(c) == TryLast(c, "SeAccessCheckFromState", {}, "ta done", "ta done")

SeAccessCheckDone_unlocks(c) ==
  /\ call[c].at = "ta done"
  /\ call' = [call EXCEPT ![c].at = "return", ![c].held = @ \ {"access information"}]
  /\ SeUnlockSubjectContext
  /\ UNCHANGED <<kept, locks>>

SeAccessCheckDone(c) ==
  /\ call[c].at = "ta done"
  /\ call' = [call EXCEPT ![c].at = "return", ![c].held = @ \ {"access information"}]
  /\ IF call[c].locked THEN UNCHANGED <<lock_count, underflow>> ELSE SeUnlockSubjectContext
  /\ UNCHANGED <<kept, locks>>

SeAccessCheck(c) ==
  \/ \E locked \in BOOLEAN : SeAccessCheckBegins(c, locked)
  \/ Try(c, "ta size", {}, "ta allocate", "ta done")
  \/ Try(c, "ta allocate", {"access information"}, "SeAccessCheckFromState", "ta done")
  \/ SeAccessCheckFromState(c)
  \/ SeAccessCheckDone(c)

-----------------------------------------------------------------------------
(* Token queries.                                                           *)

SeQueryAuthenticationIdToken(c) ==
  \/ Begin(c, "SeQueryAuthenticationIdToken", "qa fault")
  \/ Try(c, "qa fault", {}, "qa get", "return")
  \/ TryLast(c, "qa get", {}, "return", "return")

\* The caller releases the buffer with ExFreePool.
SeQueryInformationToken(c) ==
  \/ Asks(c, "token information") /\ Begin(c, "SeQueryInformationToken", "qi fault")
  \/ Try(c, "qi fault", {}, "qi size", "return")
  \/ Try(c, "qi size", {}, "qi allocate", "return")
  \/ Try(c, "qi allocate", {"token information"}, "qi get", "return")
  \/ TryLast(c, "qi get", {}, "return", "qi free")
  \/ Cleanup(c, "qi free", {"token information"})

-----------------------------------------------------------------------------
(* The account name of a SID.  A buffer is << >> or <<its size in bytes>>;   *)
(* LookupAccountSidW counts in characters, with the terminator when it is    *)
(* asked for sizes and without it when it answers.                           *)

WCHAR == 2
AccountBuffers == {<< >>} \cup {<<n>> : n \in AccountSizes}

SecLookupAccountSidBegins(c, name, domain) ==
  /\ call[c].at = "idle"
  /\ Update(c, [NoCall EXCEPT !.at = "la fault", !.fn = "SecLookupAccountSid",
                              !.name = name, !.domain = domain])

\* Without buffers the sizes are the answer.
LookupSizes(c) ==
  /\ call[c].at = "la size"
  /\ \/ \E n, d \in AccountChars :
          Update(c, IF call[c].name = << >> /\ call[c].domain = << >>
                    THEN [call[c] EXCEPT !.at = "return", !.status = "too small",
                                         !.name_chars = n - 1, !.domain_chars = d - 1]
                    ELSE [call[c] EXCEPT !.at = "la name", !.name_chars = n, !.domain_chars = d])
     \/ Update(c, [call[c] EXCEPT !.at = "return", !.status = "failure", !.failed = TRUE])

LookupNames(c) ==
  /\ call[c].at = "LookupAccountSidW"
  /\ \/ Update(c, [call[c] EXCEPT !.at = "la copy", !.name_chars = @ - 1, !.domain_chars = @ - 1])
     \/ Update(c, [call[c] EXCEPT !.at = "la free", !.status = "failure", !.failed = TRUE])

min(m, n) == IF m <= n THEN m ELSE n

\* The bytes stored in a buffer, and the size the caller is told.
ByteLen(chars, buffer) ==
  IF buffer # << >> /\ chars > 0 THEN min(WCHAR * chars, buffer[1]) ELSE 0
NeededSize(chars, buffer) == IF buffer # << >> /\ chars > 0 THEN WCHAR * chars ELSE 0

Truncated_name_only(r) == ByteLen(r.name_chars, r.name) < NeededSize(r.name_chars, r.name)
Truncated(r) ==
  \/ ByteLen(r.name_chars, r.name) < NeededSize(r.name_chars, r.name)
  \/ ByteLen(r.domain_chars, r.domain) < NeededSize(r.domain_chars, r.domain)

CopyNames(c) ==
  /\ call[c].at = "la copy"
  /\ Update(c, [call[c] EXCEPT !.at = "la free",
                               !.status = IF Truncated(call[c]) THEN "too small" ELSE "success"])

SecLookupAccountSid(c) ==
  \/ \E name, domain \in AccountBuffers : SecLookupAccountSidBegins(c, name, domain)
  \/ Try(c, "la fault", {}, "la size", "return")
  \/ LookupSizes(c)
  \/ Try(c, "la name", {"name"}, "la domain", "return")
  \/ Try(c, "la domain", {"domain"}, "LookupAccountSidW", "la free")
  \/ LookupNames(c)
  \/ CopyNames(c)
  \/ Cleanup(c, "la free", {"name", "domain"})

-----------------------------------------------------------------------------
(* The ring buffer: one section mapped twice, side by side.  The views       *)
(* replace the placeholders, and the descriptor takes them over at the end.  *)

\* result is set by the split and not touched again by the steps after it
\* that fail, so that the clean-up keeps the descriptor.
RingStep(c, at, gains, loses, next) ==
  /\ call[c].at = at
  /\ \/ Update(c, [call[c] EXCEPT !.at = next, !.held = (@ \ loses) \cup gains])
     \/ Update(c, [call[c] EXCEPT !.at = "rb exit", !.failed = TRUE])

RingLocals_without_section == {"placeholder1", "placeholder2", "view1", "view2"}
RingLocals == {"section", "placeholder1", "placeholder2", "view1", "view2"}

RingExit(c) ==
  Cleanup(c, "rb exit", RingLocals \cup IF call[c].status = "success" THEN {} ELSE {"descriptor"})

usersim_allocate_ring_buffer_memory(c) ==
  \/ Asks(c, "descriptor") /\ Begin(c, "usersim_allocate_ring_buffer_memory", "rb length")
  \/ Try(c, "rb length", {}, "rb descriptor", "return")
  \/ Try(c, "rb descriptor", {"descriptor"}, "VirtualAlloc2", "rb exit")
  \/ Try(c, "VirtualAlloc2", {"placeholder1"}, "rb split", "rb exit")
  \/ TryLast(c, "rb split", {"placeholder2"}, "CreateFileMapping", "rb exit")
  \/ RingStep(c, "CreateFileMapping", {"section"}, {}, "rb view1")
  \/ RingStep(c, "rb view1", {"view1"}, {"placeholder1"}, "rb view2")
  \/ RingStep(c, "rb view2", {"primary_view", "secondary_view"}, {"view1", "placeholder2"}, "rb exit")
  \/ RingExit(c)

\* Views that are not there are not unmapped.
usersim_free_ring_buffer_memory(c) ==
  /\ call[c].at = "idle" /\ "descriptor" \in kept[c]
  /\ kept' = [kept EXCEPT ![c] = @ \ {"descriptor", "primary_view", "secondary_view"}]
  /\ UNCHANGED <<call, locks, lock_count, underflow>>

-----------------------------------------------------------------------------
(* Strings, paths, keys, providers and handles.                             *)

usersim_utf8_string_to_unicode(c) ==
  \/ Asks(c, "unicode string") /\ Begin(c, "usersim_utf8_string_to_unicode", "us size")
  \/ Try(c, "us size", {}, "us allocate", "us done")
  \/ Try(c, "us allocate", {"unicode string"}, "us convert", "us done")
  \/ TryLast(c, "us convert", {}, "return", "us done")
  \/ Cleanup(c, "us done", {"unicode string"})

\* The caller passes a string that is empty: the clean-up looks at it.
cxplat_get_module_path_from_address(c) ==
  \/ Asks(c, "path") /\ Begin(c, "cxplat_get_module_path_from_address", "mp module")
  \/ Try(c, "mp module", {}, "mp name", "mp done")
  \/ Try(c, "mp name", {}, "mp size", "return")
  \/ Try(c, "mp size", {}, "mp allocate", "mp done")
  \/ Try(c, "mp allocate", {"path"}, "mp convert", "mp done")
  \/ TryLast(c, "mp convert", {}, "return", "mp done")
  \/ Cleanup(c, "mp done", {"path"})

\* cxplat_duplicate_string has the one step that allocates; of an empty UTF-8
\* string there is nothing to copy.
cxplat_duplicate_string(c) ==
  \/ Asks(c, "string") /\ Begin(c, "cxplat_duplicate_string", "ds allocate")
  \/ TryLast(c, "ds allocate", {"string"}, "return", "return")

cxplat_duplicate_utf8_string(c) ==
  \/ Asks(c, "utf8 string") /\ Begin(c, "cxplat_duplicate_utf8_string", "du allocate")
  \/ call[c].at = "idle" /\ Update(c, [NoCall EXCEPT !.at = "return", !.fn = "empty utf8 string", !.status = "success"])
  \/ TryLast(c, "du allocate", {"utf8 string"}, "return", "return")

EtwRegister(c) ==
  \/ Asks(c, "provider") /\ Begin(c, "EtwRegister", "er allocate")
  \/ TryLast(c, "er allocate", {"provider"}, "return", "return")

FwpsRedirectHandleCreate0(c) ==
  \/ Asks(c, "redirect handle") /\ Begin(c, "FwpsRedirectHandleCreate0", "rh allocate")
  \/ TryLast(c, "rh allocate", {"redirect handle"}, "return", "return")

\* A key under the machine that the process may not write is made under the
\* user instead.
MachineKeyDenied(c) ==
  /\ call[c].at = "machine key"
  /\ Update(c, [call[c] EXCEPT !.at = "user key"])

ZwCreateKey(c) ==
  \/ Asks(c, "key") /\ Begin(c, "ZwCreateKey", "zw fault")
  \/ Try(c, "zw fault", {}, "zw arguments", "return")
  \/ \E root \in {"machine key", "user key"} : Try(c, "zw arguments", {}, root, "return")
  \/ TryLast(c, "machine key", {"key"}, "return", "return")
  \/ MachineKeyDenied(c)
  \/ TryLast(c, "user key", {"key"}, "return", "return")

\* What a successful call gives its caller.
Gives(fn) ==
  CASE fn = "SeQueryInformationToken" -> {"token information"}
    [] fn = "usersim_allocate_ring_buffer_memory" -> {"descriptor", "primary_view", "secondary_view"}
    [] fn = "usersim_utf8_string_to_unicode" -> {"unicode string"}
    [] fn = "cxplat_get_module_path_from_address" -> {"path"}
    [] fn = "cxplat_duplicate_string" -> {"string"}
    [] fn = "cxplat_duplicate_utf8_string" -> {"utf8 string"}
    [] fn = "EtwRegister" -> {"provider"}
    [] fn = "FwpsRedirectHandleCreate0" -> {"redirect handle"}
    [] fn = "ZwCreateKey" -> {"key"}
    [] OTHER -> {}

\* The calls that share nothing with other threads.
WalkerStep(c) ==
  \/ usersim_access_check(c)
  \/ usersim_validate_security_descriptor(c)
  \/ usersim_platform_get_authentication_id(c)
  \/ SeQueryAuthenticationIdToken(c)
  \/ SeQueryInformationToken(c)
  \/ SecLookupAccountSid(c)
  \/ usersim_allocate_ring_buffer_memory(c)
  \/ usersim_free_ring_buffer_memory(c)
  \/ usersim_utf8_string_to_unicode(c)
  \/ cxplat_get_module_path_from_address(c)
  \/ cxplat_duplicate_string(c)
  \/ cxplat_duplicate_utf8_string(c)
  \/ EtwRegister(c)
  \/ FwpsRedirectHandleCreate0(c)
  \/ ZwCreateKey(c)
  \/ \E r \in kept[c] \ Gives("usersim_allocate_ring_buffer_memory") : Release(c, r)

CallNext ==
  /\ ~underflow
  /\ \/ WalkerStep(Walker)
     \/ \E c \in Callers : Lock(c) \/ Unlock(c) \/ SeAccessCheck(c) \/ Return(c)

CallSpec == CallInit /\ [][CallNext]_callVars

-----------------------------------------------------------------------------
\* The locks of the callers, one by one, and the access checks that locked the
\* context themselves.
CallerLocks == {x \in Callers \X (1..MaxLocks) : x[2] <= locks[x[1]]}
CheckLocks ==
  {c \in Callers : call[c].fn = "SeAccessCheck" /\ ~call[c].locked /\ call[c].at # "return"}

Ended == {c \in Callers : call[c].at = "return"}

\* Whatever step of a call is refused, the call gives back what it took: no
\* impersonation, token, section, placeholder, view or buffer is left.  It
\* answers success exactly when no step was refused, and then the caller has
\* all it asked for.  The exception is the ring buffer, which answers with a
\* descriptor without views when a step after the split is refused; it, too,
\* leaves nothing else.  The lock count of the subject context is the
\* number of locks callers hold and of access checks that locked it themselves,
\* so that SeUnlockSubjectContext never meets the underflow it stops the process
\* for.
CallsBalanced ==
  /\ \A c \in Ended :
       LET r == call[c]
       IN  IF r.fn = "usersim_allocate_ring_buffer_memory"
           THEN r.held \in {{}, {"descriptor"}, Gives(r.fn)}
           ELSE IF r.status = "success" THEN ~r.failed /\ r.held = Gives(r.fn)
           ELSE r.held = {} /\ (r.status = "failure" <=> r.failed)
  /\ ~underflow
  /\ lock_count = Cardinality(CallerLocks) + Cardinality(CheckLocks)

\* A SecLookupAccountSid that meets no refusal succeeds exactly when it has a
\* buffer to fill and every buffer it has got the whole name: the terminator the
\* sizes include and the names do not neither hides nor feigns a truncation.
AccountNamesWhole ==
  \A c \in Ended :
    LET r == call[c]
        whole(chars, buffer) == buffer = << >> \/ WCHAR * chars <= buffer[1]
    IN  r.fn = "SecLookupAccountSid" /\ ~r.failed =>
          (r.status = "success" <=> <<r.name, r.domain>> # <<<< >>, << >>>>
                                    /\ whole(r.name_chars, r.name) /\ whole(r.domain_chars, r.domain))
=============================================================================
