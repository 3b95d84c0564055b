----------------------------- MODULE MCSwapMerge -----------------------------
(* SwapMerge for TLC: one parent with two children, and a chain under it. *)
EXTENDS SwapMerge

CONSTANTS d1, d2

MCDomains == {d1, d2}
\* node 0 feeds 1 and 2, and 1 feeds 2
MCOrigEdges == {<<0, 1>>, <<0, 2>>, <<1, 2>>}
=============================================================================
