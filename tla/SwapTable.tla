----------------------------- MODULE SwapTable -----------------------------
(***************************************************************************)
(* The merge of the swap maps in Migration::commit (migrate/mod.rs, lines *)
(* 398-439): sharding's swaps s0 and routing's swaps s1, both mapping      *)
(* <<child, original parent>> to the node that now stands in for the      *)
(* parent, become the one map commit continues with.  Pure operators,     *)
(* shared by SwapMerge (with sharding) and Migration (without).           *)
(***************************************************************************)
EXTENDS Sequences, TLC

\* mutant: no rewrite of entries that pointed at src (lines 433-437 dropped)
MergeOneNoRewrite(s0, key, instead, g) ==
  IF key \in DOMAIN s0
    THEN IF s0[key] # instead /\ <<key[2], instead>> \notin g
           THEN [s0 EXCEPT ![key] = instead]
           ELSE s0
    ELSE (key :> instead) @@ s0

(* Lines 399-438: merge one routing swap <<dst, src>> -> instead into s0.  *)
(* On a key clash with a different substitute, keep s0's unless no edge    *)
(* runs src -> instead; then rewrite every entry of s0 whose substitute is *)
(* src to instead, since lookups in the merged map are one hop only.       *)
MergeOne(s0, key, instead, g) ==
  LET src      == key[2]
      resolved == IF key \in DOMAIN s0
                    THEN IF s0[key] # instead /\ <<src, instead>> \notin g
                           THEN [s0 EXCEPT ![key] = instead]
                           ELSE s0
                    ELSE (key :> instead) @@ s0
  IN [k \in DOMAIN resolved |-> IF resolved[k] = src THEN instead ELSE resolved[k]]

\* lines 399-439: swapped1's entries, in the order `keys` lists them
RECURSIVE MergeSwaps(_, _, _, _)
MergeSwaps(s0, s1, keys, g) ==
  IF keys = <<>> THEN s0
  ELSE MergeSwaps(MergeOne(s0, Head(keys), s1[Head(keys)], g), s1, Tail(keys), g)

=============================================================================
