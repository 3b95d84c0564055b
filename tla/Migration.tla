------------------------------ MODULE Migration ------------------------------
(***************************************************************************)
(* The migration of noria-server/src/controller/migrate/mod.rs: a          *)
(* `Migration` builder that stages new nodes, column changes and readers   *)
(* against the controller's graph, and `Migration::commit`, which assigns  *)
(* domains, splices ingress/egress pairs into cross-domain edges, gives    *)
(* every new node a local address in its domain, initialises the new       *)
(* operators with a remap of their parents, boots new domains, informs     *)
(* existing ones, propagates column changes with an acknowledgement        *)
(* barrier, wires the domains together and sets up materializations.      *)
(*                                                                         *)
(* Migrations run one after another (only one `Migration` exists at a      *)
(* time); the graph, the remap tables and the set of running domains       *)
(* persist across them.  Domains are concurrent processes that drain       *)
(* their control channel and acknowledge each packet.                      *)
(*                                                                         *)
(* Node identities are petgraph indices: the next node gets the number of  *)
(* nodes so far.  Node 0 is the source.  Names, field names, default       *)
(* values, shard counts and lookup keys are abstracted away.               *)
(***************************************************************************)
EXTENDS Naturals, Sequences, FiniteSets, Functions, TLC, SwapTable

LOCAL SeqX == INSTANCE SequencesExt

CONSTANTS
  Domains,        \* domain indices the assignment may choose from
  MaxMigrations,  \* bound on the number of migrations of a behaviour
  MaxOps,         \* bound on the builder calls of one migration
  None,           \* "no value" (an unassigned domain or address)
  QueryNames,     \* query names maintain is called with (sequences of letters)
  ContextIds,     \* a migration context's "id": <<>> if absent, else <<id>>
  MaxDeaths       \* bound on the domain threads that die in a behaviour

ASSUME MaxMigrations \in Nat /\ MaxOps \in Nat /\ MaxDeaths \in Nat /\ Domains # {}

VARIABLES
  graph,      \* mainline.ingredients nodes: id -> node record
  edges,      \* mainline.ingredients edges: <<parent, child>>
  remap,      \* mainline.remap: domain -> (node -> local slot)
  running,    \* the keys of mainline.domains: booted domains
  added,      \* Migration.added (sequence of new node ids)
  columns,    \* Migration.columns (queue of column changes)
  readers,    \* Migration.readers: node -> its reader node
  ops,        \* builder calls made in the open migration
  migrations, \* migrations committed so far
  pc,         \* controller phase
  new,        \* commit's `new` set
  swapped,    \* commit's merged swap map: <<child, parent>> -> substitute
  toAddress,  \* changed domains whose new nodes still need local slots
  toBoot,     \* changed domains not yet running, still to be booted
  toInform,   \* changed domains already running, still to be augmented
  colIdx,     \* index of the next column change to propagate
  targets,    \* nodes of the current column change still to be told
  waitOn,     \* domain whose acknowledgements the controller awaits
  chan,       \* control channel of each domain
  dnodes,     \* each domain's nodes: local slot -> node id
  dcopy,      \* schema of each node as its domain holds it
  onCommit,   \* remap an operator received in on_commit: ancestor -> slot
  context,    \* Migration.context's "id" entry, as a 0/1-element sequence
  queryToReaders, \* map_meta.query_to_readers: query name -> readers
  readerToUid,    \* map_meta.reader_to_uid: reader -> universe id
  dead        \* domains whose thread has died

\* controller state that outlives a migration
metaVars    == <<queryToReaders, readerToUid>>
linkVars    == <<dead>>
structVars  == <<graph, edges, remap, running, migrations, onCommit, metaVars,
                 linkVars>>
builderVars == <<added, columns, readers, ops, context>>
\* commit's locals: placement and boot, then column propagation
placeVars   == <<new, swapped, toAddress, toBoot, toInform>>
propVars    == <<colIdx, targets, waitOn>>
domainVars  == <<chan, dnodes, dcopy>>
vars == <<structVars, builderVars, pc, placeVars, propVars, domainVars>>
\* what the builder calls leave alone
buildingFrozen == <<remap, running, migrations, onCommit, pc, placeVars,
                    propVars, domainVars, linkVars>>

Source == 0
Kinds == {"source", "base", "internal", "reader", "egress", "ingress"}
EmptyFn == [x \in {} |-> None]

Nodes == DOMAIN graph
Kind(n) == graph[n].kind
Dom(n) == graph[n].dom
Parents(n) == {p \in Nodes : <<p, n>> \in edges}
Children(n) == {c \in Nodes : <<n, c>> \in edges}
\* petgraph's add_node returns the next dense index
NextId == Cardinality(Nodes)
\* nodes a caller may build on: base tables and operators
UserNodes == {n \in Nodes : Kind(n) \in {"base", "internal"}}
IsNew(n) == n \in Range(added)

NodeRec(k, anc, cols) ==
  [kind |-> k, dom |-> None, addr |-> None, anc |-> anc,
   cols |-> cols, dropped |-> {}, name |-> None]
Schema(n) == [cols |-> graph[n].cols, dropped |-> graph[n].dropped]

Init ==
  /\ graph = (Source :> NodeRec("source", {}, 0))
  /\ edges = {}
  /\ remap = [d \in Domains |-> EmptyFn]
  /\ running = {}
  /\ added = <<>> /\ columns = <<>> /\ readers = EmptyFn /\ ops = 0
  /\ migrations = 0
  /\ pc = "idle"
  /\ new = {} /\ swapped = EmptyFn /\ toAddress = {} /\ toBoot = {} /\ toInform = {}
  /\ colIdx = 1 /\ targets = {} /\ waitOn = None
  /\ chan = [d \in Domains |-> <<>>]
  /\ dnodes = [d \in Domains |-> EmptyFn]
  /\ dcopy = EmptyFn
  /\ onCommit = EmptyFn
  /\ context = <<>> /\ queryToReaders = EmptyFn /\ readerToUid = EmptyFn
  /\ dead = {}

-----------------------------------------------------------------------------
(* The builder.  ControllerInner::migrate hands out a fresh Migration.     *)

StartMigration ==
  /\ pc = "idle"
  /\ migrations < MaxMigrations
  /\ pc' = "building"
  /\ added' = <<>> /\ columns' = <<>> /\ readers' = EmptyFn /\ ops' = 0
  /\ context' \in ContextIds
  /\ UNCHANGED <<structVars, placeVars, propVars, domainVars>>

Building ==
  /\ pc = "building"
  /\ ops < MaxOps
  /\ ops' = ops + 1

\* add_ingredient: the operator's ancestors become its parents; the
\* assertion that it has at least one is a precondition of the caller.
AddIngredient(parents) ==
  LET ni == NextId IN
  /\ Building
  /\ parents # {}
  /\ graph' = graph @@ (ni :> NodeRec("internal", parents, 1))
  /\ added' = Append(added, ni)
  /\ edges' = edges \cup {<<p, ni>> : p \in parents}
  /\ UNCHANGED <<buildingFrozen, metaVars, columns, readers, context>>

\* add_base: a new base table under the source
AddBase ==
  LET ni == NextId IN
  /\ Building
  /\ graph' = graph @@ (ni :> NodeRec("base", {Source}, 1))
  /\ added' = Append(added, ni)
  /\ edges' = edges \cup {<<Source, ni>>}
  /\ UNCHANGED <<buildingFrozen, metaVars, columns, readers, context>>

\* add_column: the base's schema grows now, the change is queued for its
\* domain; col_i1 (the new column's index) is the old column count.
AddColumn(n) ==
  /\ Building
  /\ ~IsNew(n)
  /\ Kind(n) = "base"
  /\ graph' = [graph EXCEPT ![n].cols = @ + 1]
  /\ columns' = Append(columns, [node |-> n, type |-> "add",
                                 col |-> graph[n].cols])
  /\ UNCHANGED <<buildingFrozen, metaVars, edges, added, readers, context>>

\* drop_column: the base records the dropped column now, the change is
\* queued for its domain.
DropColumn(n, c) ==
  /\ Building
  /\ ~IsNew(n)
  /\ Kind(n) = "base"
  /\ c < graph[n].cols
  /\ graph' = [graph EXCEPT ![n].dropped = @ \cup {c}]
  /\ columns' = Append(columns, [node |-> n, type |-> "drop", col |-> c])
  /\ UNCHANGED <<buildingFrozen, metaVars, edges, added, readers, context>>

\* str::contains: k occurs in name as a contiguous run of letters
ContainsName(name, k) ==
  \E i \in 0..(Len(name) - Len(k)) : SubSeq(name, i + 1, i + Len(k)) = k

\* lines 221-239: general_query is the last key of query_to_readers, in
\* HashSet order, that the name contains; any contained key may be last
GroupCandidates(name) == {k \in DOMAIN queryToReaders : ContainsName(name, k)}

\* lines 243-281: add r to the readers of query k, creating the set
Register(q2r, k, r) ==
  IF k \in DOMAIN q2r THEN [q2r EXCEPT ![k] = @ \cup {r}] ELSE (k :> {r}) @@ q2r

\* universe().0 (lines 138-141) as maintain turns it into a number (lines
\* 316-322): absent ("global") is 0, a numeric id parses to itself
Uid == IF context = <<>> THEN 0 ELSE context[1]

\* maintain(name, n, key): ensure_reader_for creates a named mirror reader
\* under n unless this migration already made one, and files it under the
\* query group its name matches; then the reader's universe id is recorded.
\* The lookup key it sets and the unused leaf_to_query are not modelled.
Maintain(n, name) ==
  LET r  == NextId
      ri == IF n \in DOMAIN readers THEN readers[n] ELSE r
  IN
  /\ Building
  /\ n \in UserNodes
  /\ IF n \in DOMAIN readers
       THEN UNCHANGED <<graph, edges, readers, queryToReaders>>
       ELSE /\ graph' = graph @@ (r :> [NodeRec("reader", {n}, graph[n].cols)
                                          EXCEPT !.name = name])
            /\ edges' = edges \cup {<<n, r>>}
            /\ readers' = readers @@ (n :> r)
            /\ \/ \E k \in GroupCandidates(name) :
                    queryToReaders' = Register(queryToReaders, k, r)
               \/ /\ GroupCandidates(name) = {}
                  /\ queryToReaders' = Register(queryToReaders, name, r)
  /\ readerToUid' = (ri :> Uid) @@ readerToUid
  /\ UNCHANGED <<buildingFrozen, added, columns, context>>

-----------------------------------------------------------------------------
(* Migration::commit.  Each action is a stretch of commit that runs        *)
(* without waiting on a domain; the waits are separate actions.            *)

\* mutant: the readers left out of the new set
NewSetNoReaders == Range(added)

\* lines 368-373: the new set is the added nodes plus the readers
NewSet == Range(added) \cup Range(readers)

\* lines 361-373
Commit ==
  /\ pc = "building"
  /\ pc' = "assign"
  /\ new' = NewSet
  /\ swapped' = EmptyFn
  /\ UNCHANGED <<structVars, builderVars, propVars, domainVars, toAddress, toBoot, toInform>>

\* assignment::assign (mainline.sharding is None, so no sharding pass):
\* every new node gets exactly one domain.
Assign ==
  /\ pc = "assign"
  /\ \E f \in [new -> Domains] :
       graph' = [n \in Nodes |-> IF n \in new
                                   THEN [graph[n] EXCEPT !.dom = f[n]]
                                   ELSE graph[n]]
  /\ pc' = "route"
  /\ UNCHANGED <<builderVars, metaVars, placeVars, propVars, domainVars, edges, remap, running, migrations, onCommit, linkVars>>

\* edges into a new node from a node of another domain, not yet routed
CrossEdges ==
  {e \in edges : /\ e[2] \in new
                 /\ Kind(e[2]) # "ingress"
                 /\ e[1] # Source
                 /\ Dom(e[1]) # Dom(e[2])}

\* routing::add, one cross-domain edge p -> c at a time: reuse p's egress
\* and the ingress under it in c's domain, or create them; the edge now
\* runs p -> egress -> ingress -> c and the swap <<c, p>> -> ingress is
\* recorded.  Created nodes are mirrors of their parent and join `new`.
RouteEdge(p, c) ==
  LET egs     == {e \in Children(p) : Kind(e) = "egress"}
      eg      == IF egs = {} THEN NextId ELSE CHOOSE e \in egs : TRUE
      igs     == {i \in Nodes : /\ <<eg, i>> \in edges
                                /\ Kind(i) = "ingress"
                                /\ Dom(i) = Dom(c)}
      ig      == IF igs # {} THEN CHOOSE i \in igs : TRUE
                 ELSE IF egs = {} THEN NextId + 1 ELSE NextId
      egRec   == [NodeRec("egress", {p}, graph[p].cols) EXCEPT !.dom = Dom(p)]
      igRec   == [NodeRec("ingress", {eg}, graph[p].cols) EXCEPT !.dom = Dom(c)]
      created == (IF egs = {} THEN {eg} ELSE {}) \cup (IF igs = {} THEN {ig} ELSE {})
  IN
  /\ pc = "route"
  /\ <<p, c>> \in CrossEdges
  /\ graph' = graph @@ [x \in created |-> IF x = eg THEN egRec ELSE igRec]
  /\ edges' = (edges \ {<<p, c>>}) \cup {<<p, eg>>, <<eg, ig>>, <<ig, c>>}
  /\ new' = new \cup created
  /\ swapped' = (<<c, p>> :> ig) @@ swapped
  /\ UNCHANGED <<builderVars, metaVars, propVars, domainVars, remap, running, migrations, onCommit, linkVars, pc, toAddress, toBoot, toInform>>

\* domains owning a new node (the code's changed_domains)
ChangedDomains == {Dom(n) : n \in new}
NewIn(d) == {n \in new : Dom(n) = d}

\* lines 375-441: mainline.sharding is None, so sharding's swaps are empty
\* and routing's are merged into them, walking them in HashMap order
FinishRouting ==
  /\ pc = "route"
  /\ CrossEdges = {}
  /\ pc' = "address"
  /\ \E keys \in SeqX!SetToSeqs(DOMAIN swapped) :
       swapped' = MergeSwaps(EmptyFn, swapped, keys, edges)
  /\ toAddress' = ChangedDomains
  /\ UNCHANGED <<structVars, builderVars, propVars, domainVars, new, toBoot, toInform>>

\* mutant: slots restart at 0 in every migration
FirstSlotZero(d) == 0

\* line 463: the domain's first free slot is the size of its remap table
FirstSlot(d) == Cardinality(DOMAIN remap[d])

\* mutant: slots counted from one below the first free slot
SlotOfBefore(ns, first, n) == first + Cardinality({m \in ns : m < n}) - 1

\* lines 473-489: new nodes of a domain take slots in id order (sorted_new)
SlotOf(ns, first, n) == first + Cardinality({m \in ns : m < n})

SwapsOf(n) == {k \in DOMAIN swapped : k[1] = n}

\* mutant: the swaps ignored when building the node's remap
OverridesNone(rd, n) == [src \in {} |-> rd]

\* lines 503-511: each swap <<n, src>> -> instead makes src resolve to the
\* slot of instead
Overrides(rd, n) == [src \in {k[2] : k \in SwapsOf(n)} |-> rd[swapped[<<n, src>>]]]

\* lines 461-521 for one domain: slots for its new nodes after the
\* domain's existing ones, then on_commit of each new operator with the
\* domain's remap overridden by the node's swaps.  A substitute with no
\* slot here (index panic, line 509), a swap for a parent already in the
\* remap (assert_eq, line 510) or an ancestor the remap cannot resolve
\* (on_commit) aborts the commit.
AddressDomain(d) ==
  LET ns       == NewIn(d)
      slot(n)  == SlotOf(ns, FirstSlot(d), n)
      rd       == remap[d] @@ [n \in ns |-> slot(n)]
      opers    == {n \in ns : Kind(n) = "internal"}
      view(n)  == Overrides(rd, n) @@ rd
      fails(n) == \/ \E k \in SwapsOf(n) : swapped[k] \notin DOMAIN rd
                  \/ \E k \in SwapsOf(n) : k[2] \in DOMAIN rd
                  \/ ~(graph[n].anc \subseteq DOMAIN view(n))
  IN
  /\ pc = "address"
  /\ d \in toAddress
  /\ IF \E n \in opers : fails(n)
       THEN /\ pc' = "panicked"
            /\ UNCHANGED <<graph, remap, onCommit, toAddress>>
       ELSE /\ graph' = [n \in Nodes |-> IF n \in ns
                                           THEN [graph[n] EXCEPT !.addr = slot(n)]
                                           ELSE graph[n]]
            /\ remap' = [remap EXCEPT ![d] = rd]
            /\ onCommit' = onCommit @@ [n \in opers |-> [p \in graph[n].anc |-> view(n)[p]]]
            /\ toAddress' = toAddress \ {d}
            /\ UNCHANGED pc
  /\ UNCHANGED <<builderVars, metaVars, propVars, domainVars, linkVars, edges, running, migrations, new, swapped, toBoot, toInform>>

\* lines 523-583 up to the boot loop: changed domains that are not running
\* are to be booted, the others to be informed of their new nodes
AddressingDone ==
  /\ pc = "address"
  /\ toAddress = {}
  /\ pc' = "boot"
  /\ toBoot' = ChangedDomains \ running
  /\ toInform' = ChangedDomains \cap running
  /\ UNCHANGED <<structVars, builderVars, propVars, domainVars, new, swapped, toAddress>>

\* lines 558-579: boot a changed domain that is not running with all of
\* its nodes at their local slots (it ignores updates until wired)
BootDomain(d) ==
  LET held == {n \in Nodes \ {Source} : Dom(n) = d} IN
  /\ pc = "boot"
  /\ d \in toBoot
  /\ running' = running \cup {d}
  /\ dnodes' = [dnodes EXCEPT ![d] =
                  [a \in {graph[n].addr : n \in held} |->
                     CHOOSE n \in held : graph[n].addr = a]]
  /\ dcopy' = dcopy @@ [n \in held |-> Schema(n)]
  /\ toBoot' = toBoot \ {d}
  /\ UNCHANGED <<builderVars, metaVars, propVars, graph, edges, remap, migrations, onCommit, linkVars, pc, new, swapped, toAddress, toInform, chan>>

\* augmentation::inform (line 583) for one running domain: send its new
\* nodes.  Nothing waits for the domain to handle them (spec 5, 6); FIFO
\* order puts them ahead of every later packet to that domain.
InformDomain(d) ==
  LET S == NewIn(d) IN
  /\ pc = "boot"
  /\ toBoot = {}
  /\ d \in toInform
  /\ chan' = [chan EXCEPT ![d] = Append(@, [type   |-> "nodes",
                                            slots  |-> [n \in S |-> graph[n].addr],
                                            schema |-> [n \in S |-> Schema(n)]])]
  /\ toInform' = toInform \ {d}
  /\ UNCHANGED <<structVars, builderVars, pc, new, swapped, toAddress, toBoot, propVars, dnodes, dcopy>>

\* mutant: the wait returns before the domain has handled its packets
AwaitAcksNoWait ==
  /\ waitOn # None
  /\ waitOn' = None
  /\ UNCHANGED <<structVars, builderVars, placeVars, domainVars, pc, colIdx, targets>>

\* replies.wait_for_acks: returns once the domain has handled every packet
AwaitAcks ==
  /\ waitOn # None
  /\ chan[waitOn] = <<>>
  /\ waitOn' = None
  /\ UNCHANGED <<structVars, builderVars, placeVars, domainVars, pc, colIdx, targets>>

StartColumns ==
  /\ pc = "boot"
  /\ toBoot = {} /\ toInform = {} /\ waitOn = None
  /\ pc' = "columns"
  /\ colIdx' = 1
  /\ UNCHANGED <<structVars, builderVars, placeVars, domainVars, targets, waitOn>>

\* lines 587-606: who hears of a column change: the base, and for an Add
\* also every child of every egress under the base
Informed(ch) ==
  {ch.node} \cup
    IF ch.type = "add"
      THEN UNION {Children(e) : e \in {x \in Children(ch.node) : Kind(x) = "egress"}}
      ELSE {}

\* line 586: take the next queued column change
NextChange ==
  /\ pc = "columns"
  /\ waitOn = None /\ targets = {}
  /\ colIdx <= Len(columns)
  /\ targets' = Informed(columns[colIdx])
  /\ colIdx' = colIdx + 1
  /\ UNCHANGED <<structVars, builderVars, placeVars, domainVars, pc, waitOn>>

\* mutant: packets name the target by its global index
ColumnAddrGlobal(t) == t

\* line 612/617: packets name the target by its local address
ColumnAddr(t) == graph[t].addr

\* mutant: no wait for the acknowledgement
ColumnWaitNone(t) == None

\* lines 622-625: the domain whose acknowledgement the send waits for
ColumnWait(t) == Dom(t)

\* lines 608-626 for one target (the base itself is pushed last): send
\* AddBaseColumn / DropBaseColumn to the target's local address in its
\* domain, then wait for the acknowledgement
SendColumn(t) ==
  LET ch == columns[colIdx - 1] IN
  /\ pc = "columns"
  /\ waitOn = None
  /\ t \in targets
  /\ t = ch.node => targets = {t}
  /\ chan' = [chan EXCEPT ![Dom(t)] = Append(@, [type |-> ch.type,
                                                addr |-> ColumnAddr(t),
                                                node |-> t,
                                                col  |-> ch.col])]
  /\ waitOn' = ColumnWait(t)
  /\ targets' = targets \ {t}
  /\ UNCHANGED <<structVars, builderVars, placeVars, pc, colIdx, dnodes, dcopy>>

\* line 624: send_to_healthy fails once the worker of a dead domain is
\* seen as unhealthy, and the unwrap panics the controller mid-commit
SendColumnUnhealthy(t) ==
  /\ pc = "columns"
  /\ waitOn = None
  /\ t \in targets
  /\ t = columns[colIdx - 1].node => targets = {t}
  /\ Dom(t) \in dead
  /\ pc' = "panicked"
  /\ UNCHANGED <<structVars, builderVars, placeVars, propVars, domainVars>>

ColumnsDone ==
  /\ pc = "columns"
  /\ waitOn = None /\ targets = {}
  /\ colIdx > Len(columns)
  /\ pc' = "connect"
  /\ UNCHANGED <<structVars, builderVars, placeVars, propVars, domainVars>>

\* routing::connect (lines 629-638), outside src/: wires egress/ingress
\* pairs.  Only its place in commit's order is modelled.
Connect ==
  /\ pc = "connect"
  /\ pc' = "materialize"
  /\ UNCHANGED <<structVars, builderVars, placeVars, propVars, domainVars>>

\* materializations.commit (lines 640-652), outside src/; commit returns
Materialize ==
  /\ pc = "materialize"
  /\ pc' = "idle"
  /\ migrations' = migrations + 1
  /\ new' = {} /\ swapped' = EmptyFn
  /\ UNCHANGED <<builderVars, metaVars, linkVars, propVars, domainVars, graph, edges, remap, running, onCommit, toAddress, toBoot, toInform>>

-----------------------------------------------------------------------------
(* A domain handles the head of its control channel and acknowledges it.   *)
(* It looks nodes up by local address; a packet for an address it does not *)
(* hold panics the domain's thread, which then never acknowledges.         *)
\* the slot -> node table a nodes packet installs
SlotTable(m) == [a \in Range(m.slots) |-> CHOOSE n \in DOMAIN m.slots : m.slots[n] = a]

Handle(d) ==
  LET m == Head(chan[d]) IN
  /\ d \notin dead
  /\ chan[d] # <<>>
  /\ IF m.type = "nodes" THEN TRUE ELSE m.addr \in DOMAIN dnodes[d]
  /\ chan' = [chan EXCEPT ![d] = Tail(@)]
  /\ IF m.type = "nodes"
       THEN /\ dnodes' = [dnodes EXCEPT ![d] = SlotTable(m) @@ @]
            /\ dcopy' = m.schema @@ dcopy
       ELSE LET n == dnodes[d][m.addr] IN
            /\ dcopy' = [dcopy EXCEPT ![n] =
                           IF m.type = "add" THEN [@ EXCEPT !.cols = @ + 1]
                           ELSE [@ EXCEPT !.dropped = @ \cup {m.col}]]
            /\ UNCHANGED dnodes
  /\ UNCHANGED <<structVars, builderVars, placeVars, propVars, pc>>

\* A running domain's thread dies (a panic in an operator, say).  Its
\* channel stays open and takes packets, but nothing is acknowledged again.
DomainDies(d) ==
  /\ d \in running \ dead
  /\ Cardinality(dead) < MaxDeaths
  /\ dead' = dead \cup {d}
  /\ UNCHANGED <<graph, edges, remap, running, migrations, onCommit, metaVars,
                 builderVars, pc, placeVars, propVars, domainVars>>

\* the bounded run has made all its migrations
Terminating ==
  /\ pc = "idle"
  /\ migrations = MaxMigrations
  /\ UNCHANGED vars

CommitStep ==
  \/ Commit \/ Assign \/ FinishRouting
  \/ \E e \in CrossEdges : RouteEdge(e[1], e[2])
  \/ \E d \in Domains : AddressDomain(d) \/ BootDomain(d) \/ InformDomain(d)
  \/ AddressingDone \/ AwaitAcks \/ StartColumns \/ NextChange
  \/ \E t \in targets : SendColumn(t) \/ SendColumnUnhealthy(t)
  \/ ColumnsDone \/ Connect \/ Materialize

BuilderStep ==
  \/ StartMigration
  \/ AddBase
  \/ \E ps \in SUBSET UserNodes : AddIngredient(ps)
  \/ \E n \in Nodes : AddColumn(n) \/ \E q \in QueryNames : Maintain(n, q)
  \/ \E n \in Nodes : \E c \in 0..graph[n].cols : DropColumn(n, c)

Next ==
  \/ BuilderStep
  \/ CommitStep
  \/ \E d \in Domains : Handle(d) \/ DomainDies(d)
  \/ Terminating

\* Once committing, the controller thread runs commit to its end, and every
\* domain thread keeps draining its channel.  Building is up to the caller.
Fairness ==
  /\ WF_vars(CommitStep /\ pc # "building")
  /\ \A d \in Domains : WF_vars(Handle(d))

Spec == Init /\ [][Next]_vars /\ Fairness

-----------------------------------------------------------------------------
(* Invariants and properties.                                              *)

\* a commit is in progress: Migration::commit has been called and not returned
Committing == pc \notin {"idle", "building"}

Phases == {"idle", "building", "assign", "route", "address", "boot",
           "columns", "connect", "materialize", "panicked"}

TypeOK ==
  /\ Nodes = 0..(NextId - 1)
  /\ \A n \in Nodes :
       /\ Kind(n) \in Kinds
       /\ Dom(n) \in Domains \cup {None}
       /\ graph[n].addr \in Nat \cup {None}
       /\ graph[n].anc \subseteq Nodes
       /\ graph[n].cols \in Nat /\ graph[n].dropped \subseteq Nat
  /\ edges \subseteq Nodes \X Nodes
  /\ \A d \in Domains : DOMAIN remap[d] \subseteq Nodes /\ Range(remap[d]) \subseteq Nat
  /\ running \subseteq Domains
  /\ pc \in Phases
  /\ new \subseteq Nodes
  /\ toAddress \cup toBoot \cup toInform \subseteq Domains
  /\ waitOn \in Domains \cup {None}
  /\ targets \subseteq Nodes
  /\ \A d \in Domains : DOMAIN dnodes[d] \subseteq Nat /\ Range(dnodes[d]) \subseteq Nodes
  /\ DOMAIN dcopy \subseteq Nodes
  /\ DOMAIN onCommit \subseteq Nodes
  /\ context \in ContextIds
  /\ DOMAIN queryToReaders \subseteq QueryNames
  /\ \A k \in DOMAIN queryToReaders : queryToReaders[k] \subseteq Nodes
  /\ DOMAIN readerToUid \subseteq Nodes /\ Range(readerToUid) \subseteq Nat
  /\ dead \subseteq running

(* Local slots.  Across every migration so far, the slots of each domain's *)
(* remap table are 0 .. k-1 for its k nodes (dense, no collision, starting *)
(* after the slots already in use), and each node's finalized address is   *)
(* the slot its domain's table gives it (lines 461-490).                   *)
AddressesDense ==
  \A d \in Domains :
    /\ Range(remap[d]) = 0..(Cardinality(DOMAIN remap[d]) - 1)
    /\ \A n \in DOMAIN remap[d] : Dom(n) = d /\ graph[n].addr = remap[d][n]

\* the nodes packets still queued in any domain's channel
QueuedNodePackets ==
  {m \in UNION {Range(chan[d]) : d \in Domains} : m.type = "nodes"}

\* d's slot table once it has handled, in FIFO order, every nodes packet
\* queued for it: what the domain is committed to hold
Placed(d) ==
  SeqX!FoldLeft(LAMBDA t, m : IF m.type = "nodes" THEN SlotTable(m) @@ t ELSE t,
                dnodes[d], chan[d])

\* the schema copies, counting those a queued nodes packet carries (each
\* new node is in one packet only)
PlacedCopy ==
  LET queued == UNION {DOMAIN m.schema : m \in QueuedNodePackets}
      carrier(n) == CHOOSE m \in QueuedNodePackets : n \in DOMAIN m.schema
  IN [n \in queued |-> carrier(n).schema[n]] @@ dcopy

(* Between migrations, every domain runs the controller's view of it:     *)
(* each non-source node's domain is running and holds that node at its    *)
(* slot, or has it queued in its channel, and holds nothing else.  Boot   *)
(* (lines 558-579) and augmentation (line 583) together must deliver      *)
(* every new node to the right domain; augmentation does not wait, so    *)
(* its packet may still be queued when commit returns.                    *)
DomainsMatchController ==
  pc = "idle" =>
    /\ \A n \in Nodes \ {Source} : Dom(n) \in running /\ n \in DOMAIN remap[Dom(n)]
    /\ \A d \in running :
         /\ DOMAIN Placed(d) = Range(remap[d])
         /\ \A n \in DOMAIN remap[d] : Placed(d)[remap[d][n]] = n

\* q is the node that now carries p's output into a child: p itself, or an
\* ingress fed by an egress of p
Carries(q, p) ==
  \/ q = p
  \/ /\ Kind(q) = "ingress"
     /\ \E e \in Parents(q) : Kind(e) = "egress" /\ p \in Parents(e)

(* Operator initialisation.  Commit never aborts on the remap (lines       *)
(* 503-511, on_commit), and every operator initialised by on_commit        *)
(* resolves each ancestor it was built from to the local slot of the       *)
(* parent that now carries that ancestor's output in its own domain: the   *)
(* ancestor itself, or the ingress that routing put in its place.          *)
InitResolves ==
  /\ pc # "panicked"
  /\ \A n \in DOMAIN onCommit : \A p \in graph[n].anc :
       \E q \in Parents(n) :
         /\ Dom(q) = Dom(n)
         /\ Carries(q, p)
         /\ onCommit[n][p] = graph[q].addr

(* Column changes reach the base tables before wiring.  When commit moves  *)
(* from column propagation to routing::connect (line 632), every base      *)
(* table's copy in its domain already has every column added and dropped   *)
(* so far: the acknowledgement wait at line 625 is what orders the two.    *)
ColumnsBeforeConnect ==
  [][pc = "connect" /\ pc' = "materialize" =>
       \A n \in DOMAIN dcopy : Kind(n) = "base" => dcopy[n] = Schema(n)]_vars

(* A commit stalls only on a dead domain.  Every commit that starts       *)
(* returns, panics, or waits forever on the acknowledgement of a domain   *)
(* whose thread has died: wait_for_acks (line 625) has no timeout, and no *)
(* packet the commit sends makes a live domain stop acknowledging.        *)
CommitEndsUnlessDomainDies ==
  Committing ~> (~Committing \/ pc = "panicked" \/ waitOn \in dead)

\* the base whose output ingress i carries, if any
FedBase(i) == {b \in Nodes : Kind(b) = "base" /\ Carries(i, b) /\ b # i}

(* Ingress copies of a base.  After a commit, every ingress that carries   *)
(* a base's output holds as many columns as the base: the AddBaseColumn    *)
(* sent to each ingress under an egress of the base (lines 587-600) fills  *)
(* in the column the ingress lacks.  An ingress routed in the same         *)
(* migration is a mirror of the base taken after add_column already grew   *)
(* it, and is still sent the change.                                       *)
IngressColumnsMatch ==
  pc = "idle" =>
    \A i \in DOMAIN dcopy : \A b \in FedBase(i) :
      Kind(i) = "ingress" => dcopy[i].cols = graph[b].cols

(* Readers.  The spec (4.1, 8) says ensureReader reuses an existing reader *)
(* and at most one reader node is ever created per target.  The code keeps *)
(* the reader it made in Migration.readers (line 209), a map that every    *)
(* new Migration starts empty.                                             *)
AtMostOneReaderPerNode ==
  \A n \in Nodes : Cardinality({r \in Children(n) : Kind(r) = "reader"}) <= 1


(* Query groups.  A reader joins the group of the query it is named after *)
(* whenever that group exists, rather than the group of another query     *)
(* whose name happens to be contained in its own.  ensure_reader_for      *)
(* (lines 221-239) keeps whichever contained key HashSet order gives last. *)
MostSpecificGroup ==
  \A k \in DOMAIN queryToReaders : \A r \in queryToReaders[k] :
    graph[r].name # k => graph[r].name \notin DOMAIN queryToReaders


-----------------------------------------------------------------------------
(* Refinement.  The domains' tables and schema copies, counting what is  *)
(* queued in their FIFO channels (a domain applies it in order, so it is  *)
(* committed to it), with "a commit is in progress" read off the          *)
(* controller's phase, behave as the abstract CommitVisibility allows.    *)
(* Handling a queued nodes packet is then a stuttering step.              *)

CV == INSTANCE CommitVisibility
        WITH table <- [d \in Domains |-> Placed(d)], copy <- PlacedCopy,
             committing <- Committing

(* Every behaviour of the migration is one of CommitVisibility: domains   *)
(* are sent new nodes and apply column changes only between Commit and    *)
(* the return of materializations.commit, each new node at a slot its     *)
(* domain never used (lines 461-490, boot at 558-579, augmentation at     *)
(* 583), each copy changes one column at a time (lines 608-626), and every *)
(* commit that starts returns.  The ack wait at line 625 is what keeps    *)
(* the column changes inside the commit.                                  *)
Refinement == CV!Spec

=============================================================================
