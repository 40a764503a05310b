------------------------- MODULE MCEndpointExecutor -------------------------
(* EndpointExecutor for TLC: the retry blocks a configuration may hold. *)
EXTENDS EndpointExecutor

MCGlobalRetries == {<<>>, [count |-> 1], [strict |-> TRUE]}
MCOwnRetries == {<<>>, [count |-> 1, strict |-> FALSE]}
MCCliRetries == {<<>>, [count |-> 0]}
=============================================================================
