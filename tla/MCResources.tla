---------------------------- MODULE MCResources ----------------------------
(* Two descriptors, a list with its net buffer and a clone of it.            *)
EXTENDS Resources

\* No buffer, and a buffer that does not start at a page and spans two.
MCWindows == {<<0, 0>>, <<1, 3>>}

\* Machines with up to three groups of up to two processors.
MCGroupSizes == UNION {[1..n -> 0..2] : n \in 1..3}
=============================================================================
