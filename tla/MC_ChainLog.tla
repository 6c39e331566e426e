---------------------------- MODULE MC_ChainLog ----------------------------
(***************************************************************************)
(* Two routes, the first and the last of the four: what matters is whether *)
(* a block is the last one.                                                *)
(***************************************************************************)
EXTENDS ChainLog

PrintOrder == <<"standard", "classify">>

\* Two deployments each, a last route without any, a first one without any.
ShortChains == {[standard |-> 2, classify |-> 2], [standard |-> 1, classify |-> 0],
                [standard |-> 0, classify |-> 1]}

=============================================================================
