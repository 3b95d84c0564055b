# TLA+ models of Noria's migration commit

This directory models `src/noria-server/src/controller/migrate/mod.rs`, the
controller's `Migration` type. A migration is a change set: new operators,
bases, readers and column changes. `commit` applies it to the running dataflow
graph, whose nodes are partitioned into *domains*. Each domain is a thread that
receives control packets and acknowledges them.

## Inventory

| Component (spec §) | Code | State | Operations | Module |
|---|---|---|---|---|
| Change-Set Builder (4.1) | `add_ingredient`, `add_base`, `add_column`, `drop_column`, `ensure_reader_for`, `maintain` (lines 67-330) | `added`, `columns`, `readers`, `context`, graph, `map_meta.query_to_readers`, `map_meta.reader_to_uid` | one action per builder call | `Migration` |
| Swap Resolver (4.2) | lines 376-441 | `swapped0`, `swapped1`, merged `swapped` | shard, assign, route, merge | `SwapMerge`; in `Migration` with sharding off |
| Domain Placement & Addressing (4.3) | lines 443-521 | `domain_nodes`, `remap`, node `addr` | `AddressDomain` | `Migration` |
| Node Initializer (4.4) | lines 499-517 | `on_commit` remaps | part of `AddressDomain` | `Migration` |
| Domain Lifecycle Manager (4.5) | lines 523-583 | `domains` (running set), domain contents | `AddressingDone`, `BootDomain`, `InformDomain` | `Migration` |
| Column Propagator (4.6) | lines 585-627 | `columns`, domain packet queues, per-domain copies of a base's columns | `StartColumns`, `SendColumn`, `Handle` | `Migration` |
| Connection Wirer (4.7) | lines 629-638 | outside src/ | `Connect` marks its place | `Migration` (position only) |
| Materialization Coordinator (4.8) | lines 640-652 | outside src/ | `Materialize` ends the commit | `Migration` (position only) |
| Domain threads (7, 9) | outside src/ | `chan`, `dnodes`, `dcopy`, `dead` | `Handle`, `DomainDies` | `Migration` |

The components interact through three shared things:
- **The graph** (`mainline.ingredients`): the builder adds nodes to it. Sharding, assignment and routing rewrite it during commit, and the commit then reads it back.
- **The per-domain remap**: it persists across migrations, so the slots of one commit depend on every earlier commit.
- **The domains' control channels**: boot, augmentation and column packets all travel through them. Augmentation's packet is not acknowledged (spec §5, §6). Only FIFO order puts it ahead of later packets to the same domain, and it may still be queued when commit returns. The per-packet `wait_for_acks` (line 625) is the only wait: it orders a column packet, and everything queued before it, relative to what follows.

Hard behaviours, and where the model reaches them:
- **Domain concurrency.** Domains are separate processes that drain a FIFO queue (`chan`). An empty queue is an ack. The controller's steps interleave with every domain's handling.
- **Cross-migration state.** The run covers two migrations, so the remap, reader and running-domain state carries from one to the next.
- **HashMap iteration order.** `SwapMerge` explores every order of `swapped1` (`SetToSeqs`).
- **Domain failure.** `DomainDies(d)` stops a running domain's thread: its channel still takes packets, but it never acknowledges again. A column packet to it either queues (and `wait_for_acks`, which has no timeout, waits forever) or, once its worker is seen as unhealthy, `send_to_healthy(..).unwrap()` panics the controller (`SendColumnUnhealthy`, line 624). `MaxDeaths` bounds the deaths; it is 0 except in the `domain_failure` run.
- **Panics mid-commit.** The index at line 509 and the assert at line 510 are modelled as a `panicked` phase, with no rollback of the graph. `InitResolves` states that this phase is never reached.

## Modules

- **`Migration.tla`**: the builder and the whole of `commit`.
  - Variables:
    - `graph`: id ↦ [kind, dom, addr, anc, cols, dropped, name]. `anc` is the parent set the node was built from. `name` is a reader's query name.
    - `edges`.
    - `remap`: domain ↦ global id ↦ local slot. This is the slot map that persists across migrations.
    - `running`: the booted domains.
    - `added`, `columns`, `readers`: the builder's state.
    - `pc`, `new`, `swapped`, `toAddress`, `toBoot`, `toInform`, `colIdx`, `targets`, `waitOn`: commit's locals, as phases.
    - `chan`, `dnodes`, `dcopy`: each domain's packet queue, its slot ↦ node table, and its copy of each base's columns.
    - `onCommit`: each new operator's resolved parents.
    - `context`: the migration context's `id` entry.
    - `queryToReaders`, `readerToUid`: the reader registry in `map_meta`. It persists across migrations.
    - `dead`: domains whose thread has died.
  - Actions:
    - One per builder call: `AddIngredient`, `AddBase`, `AddColumn`, `DropColumn`, `Maintain`.
    - `Maintain(n, name)` covers all of `ensure_reader_for` and `maintain`:
      - Query names are sequences of letters, and `ContainsName` is `str::contains` (a substring test).
      - `GroupCandidates` gives the keys that could come last in HashSet order.
      - `Register` files the reader under a key.
      - `Uid` is the universe id that `maintain` parses.
    - One per commit phase, in code order: `Commit`, `Assign`, `RouteEdge`, `FinishRouting`, `AddressDomain` (one domain at a time, in `changed_domains` order), `AddressingDone`, `BootDomain`, `InformDomain`, `StartColumns`, `SendColumn`, `ColumnsDone`, `Connect`, `Materialize`.
    - `InformDomain(d)` queues `d`'s new nodes on its channel and moves on: nothing waits for them.
    - `SendColumnUnhealthy(t)`: the `unwrap` of a failed send to a dead domain's worker.
    - `Handle(d)`: live domain `d` processes its oldest packet. `DomainDies(d)`: its thread stops.
  - Scope: sharding is off here (its merge is `SwapMerge`'s subject). Routing is modelled by its contract: for every cross-domain edge, reuse or create an egress under the parent and an ingress in the child's domain, then swap the parent for the ingress.
- **`CommitVisibility.tla`**: the abstract specification of what domains observe.
  - Each domain has a slot ↦ node table and a schema copy of each node, and a flag says whether a commit is in progress.
  - `Place(d)`: a domain learns of new nodes, at fresh slots, leaving its old slots alone.
  - `Alter(n)`: one copy gains or drops one column.
  - `Begin` and `End` open and close a commit, and `End` is weakly fair.
  - `Migration` instantiates it as `CV`. The mapping is `table <- Placed(d)` for each domain: the domain's table once it has handled the nodes packets queued in its channel. It also maps `copy <- PlacedCopy`, the copies including those queued, and `committing <- pc \notin {"idle", "building"}`. A domain handling a queued nodes packet is then a stuttering step, and it may come after commit returns. The property `Refinement == CV!Spec` states that `Migration` implements it.
- **`SwapTable.tla`**: the merge loop of lines 398-439, as pure operators. `MergeOne` is one iteration, and `MergeSwaps` is the loop, written as a RECURSIVE operator. Both `SwapMerge` and `Migration` extend it.
  - `SwapMerge` checks the merge with sharding.
  - `Migration`'s `FinishRouting` applies the same merge to routing's swaps, taken in every HashMap order, with sharding's map empty.
- **`SwapMerge.tla`**: sharding, assignment and routing as contracts, then `MergeSwaps` over every order of `swapped1`.
- **`MCMigration.tla`**, **`MCSwapMerge.tla`**: model values for domains, and the initial graph.

## Runs

| Run | Config | Expect | Checks |
|---|---|---|---|
| commit | `MCMigration.cfg` (three domains, symmetry) | pass | `TypeOK`; `AddressesDense`: each domain's slots are exactly 0..n-1 and every node's `addr` agrees with the remap; `DomainsMatchController`: between commits, every domain holds, or has queued in its channel, exactly the nodes the controller assigned to it, at their slots, and every domain with a node is running; `InitResolves`: no panic at 509/510, and every new operator's parents resolve to local slots of same-domain nodes that carry the original parent; `ColumnsBeforeConnect`: when the commit reaches `connect`, every domain's copy of every base has the base's columns |
| domain_failure | `MCMigrationCrash.cfg` (one domain may die) | pass | `CommitEndsUnlessDomainDies`: every commit returns, panics, or waits on a dead domain, so no packet it sends stalls a live one (for example, a column packet whose address the domain cannot resolve). Deadlock is not checked: a commit stalled on a dead domain really stops |
| refinement | `MCMigrationRefines.cfg` | pass | `Refinement`: domains are sent nodes, and apply column changes, only inside a commit; slots are never reused or moved; every commit that starts returns (liveness under the fairness below) |
| ingress_columns | `MCMigrationIngress.cfg` | violation | `IngressColumnsMatch`: an ingress routed in the same migration as an `add_column` ends with one column too many (finding 3) |
| query_groups | `MCMigrationGroups.cfg` | violation | `MostSpecificGroup`: a reader named after a registered query can be filed under another query whose name it contains (finding 4) |
| readers_across_migrations | `MCMigrationReaders.cfg` | violation | `AtMostOneReaderPerNode`: maintain in a second migration creates a second reader (finding 1) |
| swap_merge | `MCSwapMerge.cfg` | pass | `TypeOK`; `MergedIsNearest`: each merged entry is a node directly above its child that stands in for the original parent, under every HashMap order, when each sharder feeds one child |
| swap_merge_shared_sharder | `MCSwapMergeShared.cfg` | violation | `MergedIsNearest` with sharders that feed several children (finding 2) |

Each property of a passing run has a mutant in `PROJECT.json`: a plausible
bug in the mapped definition that TLC then catches. Examples: a first slot of
0 instead of the remap size; readers left out of `new`; no ack wait after a
column packet; no rewrite loop in the merge.

### Findings

1. **Readers across migrations** (line 209). `ensure_reader_for` checks only `self.readers`, which is empty in every new migration. A second migration that maintains the same node creates a second reader. The spec says an existing reader is reused.
2. **Swap merge with a shared sharder** (line 433). The rewrite loop replaces every substitute equal to `src`, whatever the child. If one sharder feeds children in two domains, routing swaps one child to an ingress, and the loop then redirects the other child's entry to that ingress too. That ingress is not a parent of the other child, so line 509 panics or resolves the wrong parent. This is reachable only if `sharding::shard` lets one sharder feed several children, and that code is not in this repository.

3. **Ingress columns in the same migration** (lines 587-600). An `Add` column change goes to every ingress below an egress of the base. That includes an ingress routing created in the same migration, which mirrors the base after `add_column` already grew its fields, so its domain adds the column a second time. The spec's target set (4.6) has the same gap. The domain's handling of `AddBaseColumn` is outside src/ and is modelled from the spec.
4. **Query groups depend on hash order** (line 234). With groups `ab` and `a` registered in that order, a new reader named `ab` joins whichever matching key the HashSet iteration yields last. The spec (§9) flags the matching as best-effort and does not say which group should win.

## Bounds

- `MCMigration.cfg`:
  - Two domains.
  - `MaxMigrations = 2`. Two is the least that shows the cross-migration state: the remap's first slot, running domains that must be informed rather than booted, and reused egresses and ingresses.
  - `MaxOps = 2` builder calls per migration. That is enough for a base and a child operator in another domain, or a column added and then dropped.
  - One query name (`<<"a">>`) for the runs not about groups, and a context that is absent or user 1.
  - The `commit` run has three domains, which are interchangeable, so `MCMigration.cfg` declares the symmetry set `DomainSymmetry3` over them. With three domains an existing egress can gain an ingress in a third domain, which is the branch of routing that reuses an egress and creates an ingress. With two domains it never happens. The run has about 220,000 distinct states after symmetry reduction.
  - The `refinement` run has two domains and no symmetry, because it checks liveness. It has about 167,000 states.
  - The `domain_failure` run has two domains, no symmetry (liveness) and `MaxDeaths = 1`: about 461,000 states. One death is enough: the commit then waits on that domain forever, so a second could not change what happens.
  - Three migrations exceed three million states.
  - `MCMigrationGroups.cfg` uses two query names, `a` and `ab`, and `MaxOps = 3`. Those are the least that let two nested groups exist before a third reader is made.
- `SwapMerge`: three original nodes with edges 0→1, 0→2 and 1→2, at most two sharders, and two domains. Every assignment of nodes to domains is explored.

## Fairness

`Spec` has weak fairness on the commit's steps (not on the builder: a user
may never call anything) and on each domain's `Handle`. The domain threads
always drain their queues, and `commit` runs straight through, with no step
that waits for outside input except the ack waits. The passing runs check
deadlock. A commit that waits for an ack that never comes appears as a
deadlock, because the bounded end of the model is a stuttering `Terminating`
step.

## Not modelled

- **`sharding::validate`, logging and timing**: these are pure checks and I/O.
- **`routing::connect` and `materializations.commit`**: they are outside src/. Only their place in commit's order is modelled. The spec gives their contracts but not the packets they send, so nothing in this code could be checked against them. In particular, the ordering between `connect`'s packets and an augmented domain's still-queued nodes rests on FIFO order, which the model cannot check without inventing those packets (hazard at line 632).
- **The reader's lookup key (`set_key`)**: no step of this code reads it back.
- **`maintain_anonymous`**: it is `#[cfg(test)]`.
- **Textual context ids**: only absent or numeric ids are modelled. A textual id would panic at `parse().unwrap()`.
- **Sharding within `Migration`**: `SwapMerge` checks the sharding pass and its merge, and `Migration` shares the merge operator. Running both in one model multiplies the two state spaces past what TLC finishes. `sharding::shard` is also outside src/, so only its contract could be modelled.
- **The conflict branch of the merge (line 413)**:
  - The branch runs only when sharding and routing both report a swap for the same `<<child, parent>>` key.
  - Under the contract this model gives routing, each swap is keyed by the edge routing splices, and sharding's splice has already changed that edge. So no key clash arises.
  - `routing::add` is not in this repository, and the contract cannot be sharpened without it.
- **Timeouts and retries**: the code has none, and the spec (§7, §9) documents the unbounded wait. The `domain_failure` run checks that the stall stays confined to the dead domain. Restarting a dead domain is not modelled, because nothing in the code restarts one.

## Plan for later sittings

Done so far:
- the reader registry (findings 4 and 1);
- ingress column copies (finding 3);
- the refinement to `CommitVisibility`;
- the shared `SwapTable` merge;
- three domains with symmetry;
- domain failure;
- augmentation without an ack wait, as the code and spec have it. The domains' view counts what is queued in their channels.

Tried and not kept:
- `MaxOps = 3` for the commit run passed 3.7 million states in under seven minutes without finishing.
- A diamond graph for `SwapMerge` (0 feeds 1 and 2, both feed 3) passes, but it takes four and a half minutes. Most of that time goes into enumerating every domain assignment and every merge order.

The bounds above are the largest that finish within the time limit.
