------------------------------- MODULE MCFwp -------------------------------
EXTENDS Fwp

MCPlan == << [key |-> "flow", layer |-> "FLOW_ESTABLISHED_V4", sublayer |-> "default"],
             [key |-> "redirect", layer |-> "CONNECT_REDIRECT_V6", sublayer |-> "connect_v6"],
             [key |-> "auth", layer |-> "AUTH_CONNECT_V6", sublayer |-> "default"],
             [key |-> "packet", layer |-> "INBOUND_MAC", sublayer |-> "default"] >>
MCSubLayers == <<"default">>
MCSymmetry == Permutations(Threads)
=============================================================================
