------------------------------- MODULE MCMemory -------------------------------
(* One module in the address space and two call stacks that pass through    *)
(* it and, when it is not under test, are the stack without frames.         *)
EXTENDS Memory, TLC

MCImages == {<<10, 4>>}
MCCallStacks == {<<11, 20>>, <<12, 5>>}
MCSymmetry == Permutations(Threads) \cup Permutations(Addresses)
=============================================================================
