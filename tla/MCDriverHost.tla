---------------------------- MODULE MCDriverHost ----------------------------
(* Two clients of two driver DLLs, and one other user of the cxplat library. *)
EXTENDS DriverHost, TLC

MCSymmetry == Permutations(Clients) \cup Permutations(Dlls) \cup Permutations(Devices)
=============================================================================
