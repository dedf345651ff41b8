# TLA+ models of defradb's transactions, MerkleCRDT sync and test executor

This directory holds TLA+ specifications of parts of this repository, and the
TLC configurations that check them. `PROJECT.json` lists the following, each with the source lines it stands for:

- every component
- every run
- every mutant
- every definition
- every finding
- every hazard

## The system

The parts under `src/` and how they interact:

| Part | Source | State | Operations |
|---|---|---|---|
| Transaction wrapper | `src/datastore/txn.go` | root `ds.Txn`, `successFns`, `errorFns` | `NewTxnFrom`, `Commit`, `Discard`, `OnSuccess`, `OnError`, `ShimTxnStore.Sync/Close` |
| Integration test executor | `src/unnamed/part_000` (package `tests`) | nodes, `txns` cache per TransactionID, subscription channels | `executeTestCase` loop; `createDoc/updateDoc/deleteDoc` via `withRetry`; `executeTransactionRequest`, `commitTransaction`; `executeSubscriptionRequest`; `restartNodes`; `getActionRange` |
| Explain assertions | `src/tests/integration/explain.go` | none (pure) | `findTargetNode`, `trimSubNodes`, `trimExplainAttributes` |
| Schema add/patch | `src/unnamed/part_003` | collections in a txn | `addSchema`, `patchSchema`, `substituteSchemaPatch` |
| DB interface | `src/unnamed/part_002` | none (interface) | `NewTxn`, `MaxTxnRetries` ... |
| P2P wire protocol | `src/net/pb/net.proto` | none (messages) | `PushLog`, `GetLog`, `GetHeadLog`, `GetDocGraph`, `PushDocGraph` |

The MerkleClock, the CRDT registers, the head and block stores, and the
Replicator are described in `spec.md` but are not under `src/`. They are modelled from the
spec and marked `spec_modelled` in the map.

How the parts interact:

1. The executor drives a DB through documents and explicit transactions.
2. Every mutation is a transaction (the `txn` wrapper) that reads the document's heads and writes a new commit block.
3. Nodes exchange blocks with `PushLog`, backfill missing ancestors with `GetLog`, and catch up with `GetHeadLog`.

What makes the system hard:

- Optimistic conflicts between local Saves and P2P merges on the same head entry.
- The retry loop that covers those conflicts (`withRetry`).
- Lost and duplicated pushes.
- Backfill that times out.
- Hooks that must match the commit's outcome.

## Modules

- **`DatastoreTxn`**: the `txn` wrapper over an optimistic root store.
  - The store is abstracted to the one key that transactions read-modify-write: `value`, plus a commit `version`.
  - A root transaction reads it at `NewTxnFrom` (`readTs`, `readVal`). Its commit (`RootCommit`) fails when the version has moved since. This models "may return an error if the transaction has gone stale".
  - `Commit` is the root commit, then the hooks matching its outcome, then its return value (`CommitResult`).
  - `ShimTxnStore`'s `Sync` and `Close` are not modelled. No code under `src/` calls them, and the executor's root stores are iterable, so `NewTxnFrom`'s two paths build the same wrapper here.
  - The history variables are `fired` (the hooks that ran, in order) and `result` (what `Commit` returned).
- **`TxnContract`** is the abstract spec of the `Txn` interface's comments:
  - a transaction's writes reach the store all at once, exactly when `Commit` returns nil;
  - an error from `Commit` means nothing was committed;
  - `Discard` aborts an active transaction.
- **`TxnHarness`** extends `DatastoreTxn` with the executor's `executeTransactionRequest` and `commitTransaction`, and their `txns` cache.
  - The test case's view of each TransactionID is `author`.
  - A request fails whenever its root transaction has finished.
  - `NewTxnFails` is the path where `db.NewTxn` errs for an empty slot. The test case stops there, and `halted` records how:
    - `"nilTxn"`: the error was expected, and `txn.Discard` is called on the nil txn (`part_000:1261`);
    - `"requireFailed"`: the error was not expected, and `require.NoError` ends the test.
  - `halted = "missingTxn"` is a commit of an id with no cached txn, which panics.
  - `Contract == INSTANCE TxnContract WITH ...` maps each root state to an abstract status, staged writes to pending writes, and `result` to what was reported.
- **`MerkleDag`** holds pure operators over commit blocks, from the spec:
  - Blocks are records whose `links` nest the linked blocks, so equal content means equal address.
  - `Ancestors` is a RECURSIVE operator.
  - `ReduceHeads` is MergeHeads' frontier.
  - `MissingBlocks` is the GetLog backfill.
- **`ReplicatedDag`** is the abstract spec of the MerkleCRDT. Each node holds a grow-only, ancestor-closed block set, and it changes in only two ways:
  - a local write adds one block that links exactly the node's frontier;
  - a sync adds another node's block with all of its ancestors.
- **`MerkleSync`** models the nodes (block store, head entry, its version `hver`) and the writers.
  - `SaveStart`, `SaveCommit` and `SaveRetry` are `createDoc`/`updateDoc` under `withRetry`, with `RetriesLeft` as the loop bound.
  - `ReceivePush`, `MergeCommit` and `MergeRetry` are PushLog and MergeHeads.
  - `GetLogTimeout`, `LosePush` and the duplicate inside `ReceivePush` are the faults.
  - GetHeadLog is not modelled. Its request and reply are empty messages in `net.proto`, so nothing in this code repairs a lost push.
  - `Restart` is `restartNodes` on file-backed nodes, between two actions of the test case:
    - blocks, heads and `hver` survive;
    - merges in progress and pushes in flight are lost.
  - `Abstract == INSTANCE ReplicatedDag WITH dag <- blocks` is the refinement.
- **`SubscriptionHarness`** models `executeSubscriptionRequest` and the parts of `executeTestCase` around it.
  - The main routine (`mpc`): `Subscribe`, `SubscribeFails` (the early return on an expected error), `Mutate`, `CloseAllActionsDone`, then one of `ReceiveAssert` or `Timeout` per results channel, then `Return`.
  - One goroutine per subscription: `StreamRecv` and `SeeAllDone` are the two select cases; `Ready` is `expectedDataRecieved && allActionsAreDone`.
  - The unbuffered send is a rendezvous with `ReceiveAssert`.
- **`ActionRange`** is `getActionRange` as a pure operator, checked over every action list of up to 4 actions. Actions are abstracted to SetupComplete, setup mutation and other.
- **`FindTarget`** is `findTargetNode` (with `trimSubNodes` and `isPlanNode`) as RECURSIVE operators.
  - Its uint counters wrap modulo `UintModulus`.
  - It is checked against `Occurrences`, a reference pre-order walk, on every explain graph of nesting depth 2.
  - `TrimExplainAttributes` and `TrimItems` are `trimExplainAttributes`.
  - `PatternOf` is the pattern assertion's trimming of each result.
- **`SchemaPatch`** is `substituteSchemaPatch` with `isField` and `isFieldKind`, as pure operators.
  - A JSON pointer is the sequence of its elements, as `strings.Split` gives them.
  - A value is a kind string, a number, or a field object whose `Kind` is a string, a number or absent.
  - `SubstituteSchemaPatch` folds `SubstituteOp` over the operations and stops at the first error.
  - It is checked against a reference written by pointer pattern (`NamesField`, `NamesFieldKind`, `Intended`, `Refused`).
- **`PureHelpers`** checks `ActionRange`, `FindTarget` and `SchemaPatch` in one run. Each behaviour holds the input of one helper, chosen in `Init`; the other inputs are `NoInput`.
- The **`MC_*`** modules give the constants model values and small sets.

## Runs

| Run | Config | Expect | Shows |
|---|---|---|---|
| `txn_harness` | `TxnHarness.cfg` | pass | See below |
| `txn_cache_cleared` | `TxnHarness_OpenTxnsStayCached.cfg` | violation | A request raising its expected error wipes the `txns` slice while another id is open (`part_000:1287`). A later commit of that id panics (`part_000:1304`). |
| `error_hooks_on_discard` | `TxnHarness_ErrorHooksRunOnDiscard.cfg` | violation | `txn.Discard` never runs the OnError hooks, which spec §4.5 requires (`txn.go:93`). |
| `merkle_sync` | `MerkleSync.cfg` | pass | See below; the behaviours include a restart of both nodes. |
| `with_retry_gives_up` | `MerkleSync_SaveReportsTruthfully.cfg` | violation | A Save that conflicts with merges on all of its MaxTxnRetries calls is reported as saved: `withRetry` returns nil (`part_000:1236`). |
| `subscriptions` | `SubscriptionHarness.cfg` | pass | `executeTestCase` always returns, whatever results arrive and however the goroutines are scheduled (`TestCaseReturns`). |
| `subscription_unasserted_results` | `SubscriptionHarness_AssertionSeesAllResults.cfg` | violation | See below |
| `action_range_empty` | `ActionRange_LoopIndicesValid.cfg` | violation | With no actions, the second process gets startIndex = endIndex = -1 and indexes `Actions[-1]` (`part_000:824`). |
| `subscription_goroutine_leak` | `SubscriptionHarness_GoroutinesTerminate.cfg` | violation | See below |
| `setup_complete_ignored` | `ActionRange_SplitAtSetupComplete.cfg` | violation | For `[Request, SetupComplete]` under the change detector, the setup process runs nothing and the second process runs both actions (`part_000:803`). `getActionRange`'s comment says the actions are split at a provided SetupComplete. |
| `pure_helpers` | `PureHelpers.cfg` | pass | See below |

`txn_harness` checks that, under any interleaving of requests and commits:

- the hooks that ran match each Commit's outcome;
- the wrapper refines `TxnContract`.

`merkle_sync` checks:

- heads always equal the DAG frontier;
- the nodes refine `ReplicatedDag`.

It checks no convergence. The only repair for a lost push in the spec is GetHeadLog, and its messages carry nothing in `net.proto`.

`subscription_goroutine_leak`: a test case subscribes, and a later SubscriptionRequest raises its expected error. `executeTestCase` then returns before `close(allActionsDone)` (`part_000:657`). The earlier goroutine never sees `allActionsDone`, so it never sends its assertion and never returns, although the test case records no failure. `executeSubscriptionRequest`'s comment says the goroutine yields once, once the subscription has terminated. Goroutines the main routine gave up on after `subscriptionTimeout` are exempt (`TimedOut`), because that test case already records a failure.

`pure_helpers` checks four things:

- For every non-empty action list, the change detector's two processes run each action once, in order, except the documented rerun of the last action (`SplitPartitionsActions`).
- `findTargetNode` returns the (toSkip+1)-th target of a sorted pre-order walk. Its unsigned `toSkip` never wraps in a way that changes the answer (`explain.go:282`, `FindsTheOccurrence`).
- `trimExplainAttributes` keeps exactly the plan nodes of that walk, in order, so patterns and targets talk about the same nodes (`PatternKeepsPlanNodes`).
- `substituteSchemaPatch` fails exactly when an operation has no path, sets a field to a non-object, or names an unknown kind. Otherwise every kind name set on one field, or on one field's `Kind`, becomes its enum value (`KindNamesSubstituted`).

`subscription_unasserted_results`: the goroutine hands over its assertion with results still in the stream. For example, a subscription expecting none passes although an event reached it (`part_000:1387`). The function's comment promises "all its expected results and no more".

Every property of a passing run has a mutant in `PROJECT.json`: a plausible bug in a mapped definition that TLC catches. They are:

- hooks run in reverse order;
- Commit swallows the error;
- Discard leaves an unknown state;
- an off-by-one retry bound;
- the stale-heads check is dropped;
- a stream receive without its guard;
- no `time.After` case;
- no `+1` after the SetupComplete;
- `toSkip -= matches` is dropped;
- `trimExplainAttributes` does not recurse;
- `isFieldKind` reads its elements one place off.

## Bounds

**TxnHarness:**

- Bounds: 3 root transactions, 2 TransactionIDs, 2 hooks, at most 2 staged writes.
- Hooks per list are at most 2.
- Two ids let one open transaction overlap a failing or conflicting one.
- Symmetry over handles and ids is sound: no property names one, and the refinement is a safety property.

**MerkleSync:**

- Bounds: 2 nodes, one writer on each, 2 values, 2 Saves per writer, MaxTxnRetries = 2, FaultBudget = 2 (1 in `with_retry_gives_up`).
- The fault budget is shared by lost, duplicated and timed-out pushes and by the restart. A behaviour has up to two of them, for example a restart after a lost push, or two restarts, and a restart can hit a merge in progress or pushes in flight.
- `merkle_sync` reaches 542k distinct states in about 20 seconds.
- Two writes per node give concurrent heads, merges of merges, and conflicts on both sides.
- MaxTxnRetries = 2 is the smallest bound with both a retry and giving up.
- There is no symmetry: the two writers sit on different nodes, and the writes are distinguished by value.

**SubscriptionHarness:**

- Bounds: 2 subscriptions, up to 2 expected results each, 3 mutations.
- These are enough for:
  - a goroutine that is ready before the timeout;
  - one that is ready after it;
  - one that has only part of its results when the timeout fires;
  - an early return.

**ActionRange:** all lists of up to 4 actions over 3 kinds, with both flags (484 inputs).

**FindTarget:**

- Inputs: 25k graphs and skips. Targets nest up to 3 deep, through maps and lists, and `toSkip` goes up to 3.
- The uint width is 8 bits. A wrap of any width would change the answer, since the wrapped `toSkip` skips everything.

**SchemaPatch:**

- Inputs: every patch of up to 2 operations, over 9 pointers (including "no path") and 10 values, with two known kind names and one unknown.
- The pointers cover each shape `isField` and `isFieldKind` tell apart: a single field, the append position `-`, a field's `Kind` and `Name`, the Fields array, the Schema and the collection. They also include a collection named `Fields`.
- Two operations are enough for an error after a substitution.

## Fairness

Weak fairness is assumed only for steps the code always completes once enabled, and only in `SubscriptionHarness`, the one module with liveness properties:

- the test case's action loop advances;
- runnable goroutines run;
- `time.After` fires.

MerkleSync has no liveness property and no fairness. Its convergence would rest on GetHeadLog catch-up, which `net.proto` cannot carry.

`CHECK_DEADLOCK FALSE` is set where the system really stops: a test case ends, and writers stop once their Saves are done.

## Not modelled (plan for later work)

In order of importance:

1. The LWW and composite registers (the resolved value, with its tie-break) as operators checked against a reference definition.
2. The rest of `patchSchema`: the decode, the JSON patch library's `Apply`, and the `updateCollection` loop in one transaction. Whether a failure there leaves earlier updates applied depends on `db.PatchSchema` discarding the transaction, and that caller is not under `src/`. `updateCollection` and the patch library are not under `src/` either.
3. What happens to a kind given by name inside a whole Fields array or Schema. `substituteSchemaPatch` leaves it as a string. Whether the decode accepts it is up to `FieldKind`'s JSON decoding, which is in the client package and not under `src/`.
4. A second `Commit` of the same txn, which reruns the error hooks. The executor never commits an id twice.
5. Convergence of the nodes after lost pushes. It needs GetHeadLog, whose request and reply are empty in `net.proto`; the Replicator itself is not under `src/`.
6. `ShimTxnStore.Sync` and `Close`, which no code under `src/` calls.
7. Node start-up and `ConnectPeers`/`WaitForSync` (the rest of the nodes component).

One behaviour was seen in the models but is not checked by any run: when `db.NewTxn` fails with the expected error, `executeTransactionRequest` calls `txn.Discard` on the nil txn and panics (`part_000:1261`). `NewTxnFails` reaches it in one step from any state, so a property would only restate that step.

The following are out of scope:

- interface declarations (`part_002`);
- the graphql-go type and directive declarations (`types.go`: their validation is the library's);
- the logger (`http.go`);
- test data;
- the Dockerfile and start script.
