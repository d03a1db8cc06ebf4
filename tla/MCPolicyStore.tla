---------------------------- MODULE MCPolicyStore ----------------------------
(* Small instances of PolicyStore for TLC.                                 *)
EXTENDS PolicyStore, TLC

\* Both interfaces, or either of them missing when the service starts.
MCTopologies == {{1, 2}, {1}, {2}}

HandlerSymmetry == Permutations(Handlers)
=============================================================================
