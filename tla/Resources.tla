----------------------------- MODULE Resources -----------------------------
(* The resources drivers take through the kernel interface: memory and net   *)
(* buffers (Packets), calls that hold several resources for a while (Calls)  *)
(* and shared counts and slots (Handles).  The three share no state, so that *)
(* a behaviour is one of one part, with the others at rest: focus says of     *)
(* which, and the reachable states of the parts add up.                      *)
EXTENDS Packets, Calls, Handles

VARIABLE focus

vars == <<packetVars, callVars, handleVars, focus>>

Init ==
  /\ PacketInit
  /\ CallInit
  /\ HandleInit
  /\ focus \in {"packets", "calls", "handles"}
  /\ focus # "handles" => groups = CHOOSE g \in GroupSizes : TRUE

Next ==
  \/ focus = "packets" /\ UNCHANGED <<callVars, handleVars, focus>> /\ PacketNext
  \/ focus = "calls" /\ UNCHANGED <<packetVars, handleVars, focus>> /\ CallNext
  \/ focus = "handles" /\ UNCHANGED <<packetVars, callVars, focus>> /\ HandleNext

Spec == Init /\ [][Next]_vars
=============================================================================
