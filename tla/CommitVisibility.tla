-------------------------- MODULE CommitVisibility --------------------------
(***************************************************************************)
(* What a migration promises the running domains, stated without the       *)
(* commit's pipeline.  Every domain has a table from local slots to nodes  *)
(* and a copy of each node's schema: what it holds, or has been sent and   *)
(* will apply in order.  Nothing of it changes while a change set is only  *)
(* being built: a commit is the only time domains are sent new nodes or    *)
(* column changes, every commit that starts ends, and                      *)
(*   - a node is placed once, at a slot no node of that domain has held,   *)
(*     in one domain only, and stays at that slot;                         *)
(*   - a schema copy changes only by one added or one dropped column.      *)
(***************************************************************************)
EXTENDS Naturals, FiniteSets, Functions

CONSTANTS Domains

VARIABLES
  table,      \* domain -> (local slot -> node)
  copy,       \* node -> [cols, dropped] as its domain holds it
  committing  \* whether a commit is in progress

vars == <<table, copy, committing>>

Held == UNION {Range(table[d]) : d \in Domains}

Init ==
  /\ table = [d \in Domains |-> [s \in {} |-> 0]]
  /\ copy = [n \in {} |-> 0]
  /\ committing = FALSE

Begin ==
  /\ ~committing
  /\ committing' = TRUE
  /\ UNCHANGED <<table, copy>>

\* domain d learns of new nodes: its old slots keep their nodes, the new
\* slots hold distinct nodes no domain held, and each comes with a schema
Place(d) ==
  LET old == table[d]
      fresh == DOMAIN table'[d] \ DOMAIN old
  IN
  /\ committing
  /\ DOMAIN old \subseteq DOMAIN table'[d]
  /\ \A s \in DOMAIN old : table'[d][s] = old[s]
  /\ IsInjective(table'[d])
  /\ \A s \in fresh : table'[d][s] \notin Held
  /\ \A e \in Domains \ {d} : table'[e] = table[e]
  /\ DOMAIN copy' = DOMAIN copy \cup {table'[d][s] : s \in fresh}
  /\ \A n \in DOMAIN copy : copy'[n] = copy[n]
  /\ UNCHANGED committing

\* one node's copy gains a column or records one more dropped column
Alter(n) ==
  /\ committing
  /\ n \in DOMAIN copy
  /\ DOMAIN copy' = DOMAIN copy
  /\ \/ copy'[n] = [copy[n] EXCEPT !.cols = @ + 1]
     \/ \E c \in 0..(copy[n].cols - 1) :
          copy'[n] = [copy[n] EXCEPT !.dropped = @ \cup {c}]
  /\ \A m \in DOMAIN copy \ {n} : copy'[m] = copy[m]
  /\ UNCHANGED <<table, committing>>

End ==
  /\ committing
  /\ committing' = FALSE
  /\ UNCHANGED <<table, copy>>

Next ==
  \/ Begin \/ End
  \/ \E d \in Domains : Place(d)
  \/ \E n \in DOMAIN copy : Alter(n)

Spec == Init /\ [][Next]_vars /\ WF_vars(End)

=============================================================================
