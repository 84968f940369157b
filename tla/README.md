# TLA+ models of Selendra

Most of these modules model the scheduler pallet in
`src/indracore/runtime/src/scheduler/mod.rs`. It assigns the relay chain's
availability cores to indracores, which have a dedicated core each, and to
indrabases, which share multiplexer cores through a claim queue. It also cuts
the active validators into groups and rotates the groups over the cores.

Three smaller modules model the other parts of the repository that decide
something:
- the EVM revert-code callback for assets (`src/primitives/src/assets.rs`);
- the XCM barrier (`src/forests/common/src/xcm_config.rs`);
- the block weight limits that every runtime builds
  (`src/runtime/common/src/lib.rs`).

The rest is generated weights, I/O wiring, hashing and test mocks. The last
section explains why each of those is left out.

## Inventory

### Components and their state

All scheduler state is pallet storage, which is read and written whole by each
entry point:

| component | state (storage item) | operations |
|---|---|---|
| ClaimQueue | `IndrabaseQueue`: a `Vec<QueuedIndrabase>` (entry and core offset) plus `next_core_offset` | `enqueue_entry`, `take_next_on_core`, `get_next_on_core` |
| ClaimIndex | `IndrabaseClaimIndex`: a sorted `Vec<IndraId>` | sorted insert and binary-search remove inside the entry points |
| CorePartitioner | `AvailabilityCores` length, `ValidatorGroups` | `initializer_on_new_session` |
| AssignmentScheduler | `AvailabilityCores`, `Scheduled` | `add_indrabase_claim`, `free_cores`, `schedule`, `occupied`, `clear` |
| RotationClock | `SessionStartBlock` | `group_assigned_to_core`, `availability_timeout_predicate`, `group_rotation_info` |
| Lookahead | none (reads queue and cores) | `next_up_on_available`, `next_up_on_time_out` (modelled in `Scheduler`) |
| EVM asset callback | `pallet_evm::AccountCodes` at asset addresses | `EvmRevertCodeHandler::created`, `destroyed` |
| XCM barrier | none (a filter on each inbound message) | `DenyThenTry::should_execute`, `DenyReserveTransferToRelayChain::should_execute` |
| Block weight limits | `frame_system::BlockWeight` per dispatch class | the `impl_runtime_weights` builder, applied by `CheckWeight` |

### How the components interact

All calls are synchronous inside block execution. The inclusion inherent is
not under `src/`. Its call order comes from spec section 5 and from
`run_to_block` in `tests.rs`. In each block it calls:

1. `clear()`, which puts the unbacked scheduled indrabase claims back into the
   queue with one more retry.
2. `schedule(freed, now)`. This first calls `free_cores`. Concluded indrabase
   claims leave the index. Timed-out ones go back into the queue with the same
   retry count. Then every free core gets an indracore or the next queued claim
   for its core offset, and the new assignments are merged into `Scheduled`.
3. `occupied(cores)` for the backed candidates, which moves their assignments
   into `AvailabilityCores`.

The inherent decides which cores are freed as `TimedOut` by calling
`availability_timeout_predicate`. The session change runs at the end of a
block. It resizes and clears the cores, rebuilds the groups, puts the claims
that occupied cores back into the queue, then either wipes the queue and index
(no indrabase cores) or prunes and re-balances them. Finally it sets
`SessionStartBlock` to the next block.

### What is hard

- **Long call sequences across several storage items.** The one-claim-per-indrabase rule
  depends on the index, the queue, `Scheduled` and the cores being updated
  together by five entry points and the session change.
- **State that outlives a session.** `Scheduled` is left as it is while the
  cores, the configuration and the queue change under it.
- **Numeric edges.** Remainders by `indrabase_cores`, by
  `group_rotation_frequency` and by the group count. Window comparisons with
  `>=` at rotation boundaries.
- **Retries and time-outs.** A time-out is not charged to the collator. An
  unbacked scheduled claim is charged one retry.
- **Bounds.** The queue capacity `indrabase_cores * scheduling_lookahead`.

### What makes each component correct

- ClaimQueue and ClaimIndex: at most one claim per indrabase. The index holds
  exactly the claimed ids. Offsets and retries respect the active
  configuration. The queue respects its capacity.
- AssignmentScheduler: `Scheduled` is strictly sorted, names only existing
  cores and never an occupied one. A claim keeps its collator, and its retry
  count grows only when it was scheduled and not backed. No entry point
  panics.
- CorePartitioner: one group per core, sizes differing by at most one, larger
  groups first. The queue is re-balanced onto the new cores.
- RotationClock: the group moves by exactly one at each rotation boundary. A
  pending candidate is timed out within max(availability period, rotation
  period) blocks.
- Lookahead: what it reports is what the next `schedule` does.
- The whole scheduler: a claim enters only through the queue, reaches a core
  only from `Scheduled`, and each entry point moves claims only along its own
  edges (`ClaimLifecycle`). `core_indra` never indexes past the indracores.

## Modules

### `Scheduler.tla` (ClaimQueue, ClaimIndex, CorePartitioner, AssignmentScheduler)

Variables:
- `availabilityCores`: a function from core index to `None`, `IndracoreOcc` or
  `IndrabaseOcc(entry)`.
- `queue` and `nextCoreOffset`.
- `claimIndex`: a set. The sorted `Vec` has no repeats, so binary search on it
  is set membership.
- `scheduled`: a sequence of `[core, kind]`, where `kind` is the value
  `to_core_occupied` would give.
- `validatorGroups`.
- `config`, `nChains` and `liveThreads`: the collaborators' view.
- `phase`: where the inclusion inherent is.
- `panicked`: a runtime panic invalidated the block.

Each entry point is one action that models its whole body. Its early returns
are guards. The helpers it calls are operators: `EnqueueEntry`,
`TakeNextOnCore`, `FreeCore`/`FreeCores`, `SweepCore`, `InsertPos`,
`ApplyUpdates`, `ClearOne`, `NCores`, `Groups` and `Rebalance`. The
read-only Lookahead queries are the operators `GetNextOnCore`,
`NextUpOnAvailable` and `NextUpOnTimeOut`.

The environment chooses:
- which cores are freed and why (`FreedLists`);
- which scheduled cores become occupied (a subset, as `occupied` requires);
- the claims (an indrabase and a collator);
- at a session change, the new configuration, validator count, indracore count
  and live set.

When a remainder by zero would run, the action sets `panicked` and leaves the
rest of the state as it was, because the block is discarded. After that only
`Halted` stutters.

`MultiCall` lets `schedule` and `occupied` be called again within a block. That
is the only way to exercise the merge of new assignments into a non-empty
`Scheduled`, since `clear` empties it first in every block.

Two abstractions:
- The group index of an assignment is left out. It is computed by
  `group_assigned_to_core`, which `RotationClock` models.
- Block numbers are left out, so the scheduler's state space is finite without
  a counter.

`occupied` is translated loop for loop. `OccupyOne` is one call of the
`scheduled.retain` closure: an assignment on the core the input iterator
peeks at is taken, its core gets `to_core_occupied`, and the iterator
advances; any other assignment is kept. `OccupiedRetain` folds it over
`Scheduled`. The caller passes the chosen cores as a sorted sequence.

The getters `core_indra` and `group_validators` are the operators `CoreIndra`
and `GroupValidators`. `core_indra` indexes `indras::indracores()` with the
core index of an Indracore occupant, which panics past its end; `CoreIndra`
returns `"IndexOutOfBounds"` there.

`LifecycleStatus` and `LifecycleAttempts` are the refinement mapping onto
`ClaimLifecycle`. A thread's status is where its claim is held, the core
first, then `Scheduled`, then the queue. Its attempts are the claim's
retries, or 0 when it holds none.

### `ClaimLifecycle.tla` (abstract specification of the claim path)

What the scheduler promises about a claim, without queues, offsets or cores.
Each thread is `idle`, `queued`, `scheduled` or `occupied`, with a retry
count. There is one action per entry point, and each moves all the threads it
concerns at once:
- `Claim(t)` (`add_indrabase_claim`): idle to queued, with no retries.
- `ClearScheduled` (`clear`): each scheduled claim is re-queued charged one
  retry, or dropped.
- `ScheduleFree` (`schedule`): an occupant concludes (dropped) or times out
  (queued or straight back to scheduled, at no charge); queued claims may be
  scheduled.
- `Occupy` (`occupied`): some scheduled claims take their cores.
- `SessionChange`: occupants and queued claims are re-queued or pruned;
  `Scheduled` waits for `clear`.

`Scheduler!ImplementsClaimLifecycle` checks `Lifecycle!Spec`, the
specification instantiated with the mapping, as a PROPERTY.

### `RotationClock.tla`

Variables: `now`, `sessionStart` and `pendingSince` (for each core, the block
its candidate has been pending since). `GroupAssignedToCore`,
`BlocksSinceLastRotation`, `HasTimeoutPredicate` and `TimeoutPredicate`
translate the two functions. `Block` is the inclusion inherent of the next
block:
- it frees exactly the pending cores that the predicate times out;
- some other pending candidates conclude (the environment decides which);
- any core that is now free may be occupied again.

`NewSession` clears the cores and sets `sessionStart` to the next block.
Blocks stop at `MaxBlock`, and `Done` stutters there.

### `SchedulerClock.tla` (Scheduler driven by RotationClock)

This module composes the two modules above. `S == INSTANCE Scheduler` supplies
the storage and the entry points, and `R == INSTANCE RotationClock` supplies
`availability_timeout_predicate`. In every block, the inclusion inherent's
freed list (`FreedByInherent`) frees exactly:
- the occupied cores the predicate times out, as `TimedOut`;
- any other occupied cores, as `Concluded`.

This list replaces the arbitrary `FreedLists` of `Scheduler`. Block numbers
are kept relative, so the state space stays finite:
- `sinceRotation` is `blocks_since_last_rotation`;
- `pendingFor[c]` is how many blocks ago the candidate on core `c` was backed.

`R` is instantiated at a fixed block `Horizon`, with `SessionStartBlock` and
each `pending_since` placed that many blocks earlier. The predicate depends on
nothing else. Ages saturate at `AgeCap`, which is the largest of the two
availability periods and the rotation frequency. This is exact: every
definition compares an age only with those three numbers.

Actions:
- `AddClaim`, `Clear`, `Schedule` and `Occupy` wrap the Scheduler actions.
  `Schedule` and `Occupy` keep each core's age, and a freed core gets age 0.
- `NewBlock` ages every pending candidate by one block and advances the
  rotation counter.
- `NewSession` also resets the clock.

`MultiCall` is FALSE here, and every configuration has indrabase cores, so no
step panics.

### `EvmAssets.tla`

Variables:
- `assets`: the live asset ids;
- `accountCodes`: the code kind at each address (none, the revert code, or a
  contract).

`Created` and `Destroyed` translate the two callbacks of
`EvmRevertCodeHandler`: the collision `ensure!`, the insert, and the
unconditional remove. The actions around them come from `pallet_assets` and
`pallet_evm`, which are outside the repository:
- `CreateAsset` and `DestroyAsset`: creation fails as a whole when the
  callback fails;
- `DeployContract`: only to an address that holds no code;
- `SelfDestruct`.

`asset_id_to_address` is an injective constant function.

### `XcmBarrier.tla`

`IsReserveTransferToRelay`, `AnyReserveTransferToRelay` (`iter().any`) and
`DenyReserveTransferToRelayChain` translate the Deny barrier. `DenyThenTry`
runs it before the Allow barrier. Allow is a type parameter, and here it is an
origin filter.

A message is a sequence of instructions. Each carries its `reserve`/`dest`
location. `SetAppendix` and `SetErrorHandler` carry a nested program, one
level deep.

The state is the last verdict:
- `ShouldExecute` asks the barrier about any message of up to `MaxLen`
  instructions from any location;
- `NextMessage` returns to idle.

The warning logged for `ReserveAssetDeposited` from the relay chain changes no
state and is left out.

### `BlockWeights.tla`

The three constants and the `BlockWeights` builder calls of
`impl_runtime_weights` are translated, in units of 1% of
`MAXIMUM_BLOCK_WEIGHT`, so the `Perbill` products are exact:
- Normal `max_total` is 75;
- Operational `max_total` is 100, and its `reserved` is 25;
- `avg_block_initialization` is 1%.

`frame_system`'s builder (`max_block`, `max_extrinsic`) and `CheckWeight`
(`check_extrinsic_weight`, `calculate_consumed_weight`) are outside the
repository and are modelled from their behaviour. That includes the builder's
`Some(0)` default `reserved` for Normal. A block starts with the base block
weight plus the weight `on_initialize` reports, as Mandatory. Each extrinsic
of any class is then admitted or rejected. At most `MaxExtrinsics`
extrinsics go into a block.

## Runs

| run | cfg | result | what it shows |
|---|---|---|---|
| scheduler_pipeline | MCScheduler.cfg | pass | `schedule`/`occupied` run once or repeatedly per block (`MultiCall`). Claims stay unique and indexed. Queued claims fit the current configuration. `Scheduled` stays sorted and off occupied cores. Retries grow only for unbacked scheduled claims. `next_up_on_available` predicts what `schedule` puts on a core freed by a concluded candidate. The scheduler refines `ClaimLifecycle` (`ImplementsClaimLifecycle`). In every reachable state, for every sorted subset of the scheduled cores, `occupied`'s retain-and-peek loop takes exactly the given assignments and keeps the rest in order (`OccupiedRetainMatchesContract`, checked against `SelectSeq`). |
| scheduler_zero_cores | MCScheduler_zero.cfg | pass | Across a session with no indrabase cores, and with repeated calls, claims stay unique and `Scheduled` stays sorted. The indracore count (0 or 1) and the validator count (2 or 3) change at sessions, and `core_indra` never indexes past the indracores (`CoreIndraInBounds`). The validator groups are one per core, in order and without gaps, with sizes differing by at most one (`ValidatorGroupsPerCore`). This run also reaches the panic and `Halted`. |
| timeout_lookahead | MCScheduler_timeout_lookahead.cfg | violation | `next_up_on_time_out` names the occupant for its own core, but a timed-out claim is re-enqueued at `next_core_offset` and can land on another core. |
| claim_index_leak | MCScheduler_stale.cfg | violation | `clear` drops a claim but keeps its id in the index, so the indrabase cannot be claimed again until a session with no indrabase cores wipes the index. |
| clear_zero_cores_panic | MCScheduler_panic.cfg | violation | `clear` runs `% 0` after a session set `indrabase_cores` to 0. |
| queue_over_capacity | MCScheduler_capacity.cfg | violation | The queue grows past `indrabase_cores * scheduling_lookahead`. |
| rotation_timeouts | MCRotationClock.cfg | pass | Stuck cores are timed out within max(period, rotation) blocks. Groups rotate by one exactly at the boundaries. |
| scheduler_clock_liveness | MCSchedulerClock.cfg | pass | The scheduler is driven by its own timeout predicate. After `schedule`, no core keeps a candidate past its timeout bound (`StuckCoresTimedOut`). Under fair block production, every queued claim eventually leaves the queue (`QueuedClaimLeavesQueue`). |
| evm_asset_codes | MCEvmAssets.cfg | pass | Assets and contracts are created and destroyed in any order. The revert code is at exactly the live assets' addresses. |
| xcm_nested_reserve_transfer | MCXcmBarrier_nested.cfg | violation | A reserve transfer to the relay chain nested in `SetAppendix` passes the barrier. |
| block_weights | MCBlockWeights.cfg | pass | Normal and Operational weight together never exceed `MAXIMUM_BLOCK_WEIGHT`, whatever the initialization weight and the order of the extrinsics. |

Every property of a passing run has a mutant: a plausible bug in the mapped
code that TLC then catches. The mutants are listed in `PROJECT.json`.

### Bounds and why they are enough

**Scheduler** (`MCScheduler`):
- Two indrabases and two collators. That is enough for competing claims,
  first-claimant-wins and two claims sharing one multiplexer core.
- One indracore and three validators.
- Configurations `(cores 2, lookahead 1, retries 1)` and
  `(cores 1, lookahead 1, retries 0, max_validators_per_core 1)`. The second
  sizes the cores by validators (3 cores for 1 + 1), so one multiplexer core
  never gets a claim. Switching between the two shrinks the indrabase cores
  and lowers the retry limit. Retry limits 0 and 1 let a claim run out of
  retries within two blocks.
- The zero run swaps in `indrabase_cores = 0`, and lets a session change the
  indracore count between 0 and 1 and the validator count between 2 and 3.
  That gives 0 to 3 cores, with 3 validators on 2 cores (groups of 2 and 1)
  and 2 validators on 3 cores (an empty group). It has 17,668 states.
- `MultiCall = TRUE` in both passing runs. It allows every single-call
  behaviour and adds the repeated calls.
- Every execution of the state space is explored, since it is finite.

**RotationClock**:
- Three cores and a rotation every 3 blocks.
- An indracore period of 2, shorter than a rotation, and an indrabase period
  of 4, longer than one.
- 10 blocks. That covers three rotations and sessions starting at any block.
- The bound `<` max(...) is tight: the same run with one block less finds a
  counterexample.

**SchedulerClock**:
- The Scheduler bounds, with three cores at most.
- A rotation every 2 blocks.
- An indracore period of 1, shorter than a rotation, and an indrabase period
  of 3, longer than one.
- With these values a pending candidate is timed out both by its own period
  and by the rotation window, and a queued claim must wait behind an occupant
  that has not yet timed out.

**EvmAssets**:
- Four assets with distinct addresses, and one address no asset maps to.
- This gives 162 states, with every mix of revert code, contract code and
  free addresses.

**XcmBarrier**:
- Locations with 0 or 1 parents and an interior of `Here` or a parachain, so
  the relay chain, a sibling and the local chain all occur.
- Messages of up to two instructions, each either flat or nesting one
  instruction. So a matching instruction occurs both first and second, and
  both at the top level and nested.

**BlockWeights**:
- Base block weight 5 and base extrinsic weight 1.
- `on_initialize` weights 0 or 30.
- Extrinsic weights 9, 14 and 40.
- At most 5 extrinsics per block.
- With these values, Normal fills its 75, the block passes 100 through a
  heavy initialization, and an Operational extrinsic lands exactly on the
  reserve of 25.

### Fairness

`SchedulerClock` is the only module with liveness. It assumes weak fairness
of `Clear`, `Schedule`, `Occupy` and `NewBlock`. The code justifies this:
- blocks keep being produced;
- the inclusion inherent is mandatory, so every block calls clear, schedule
  and occupied.

Claims and session changes come from outside and are not assumed to happen.
The fairness of `Schedule` is `WF_vars(Schedule)` written out with its
enabling condition (`ScheduleEnabled`). A freed list that frees exactly the
timed-out cores always exists. TLC's `ENABLED` over the folds of `schedule` is
too slow.

The liveness property is conditioned on `Started`: the genesis session has
been applied, as it is before the first block of a chain.

## Findings

1. **Claim index leak** (`mod.rs:748-758`). `clear` drops a scheduled claim
   whose retries would exceed the limit, or whose indrabase was deregistered,
   without removing its id from `IndrabaseClaimIndex`. From then on,
   `add_indrabase_claim` rejects every claim for that indrabase as competing,
   until a session change to `indrabase_cores = 0` wipes the index.
   The storage comment and spec section 8 say the id is removed.
2. **Division by zero** (`mod.rs:76` via `clear`, line 758). A session
   switching to `indrabase_cores = 0` wipes the queue and index but not
   `Scheduled`. The next `clear` re-enqueues a live scheduled claim with
   `% 0` and panics, so no block can be built.
3. **Queue capacity** (`mod.rs:260, 408, 758`). Only `add_indrabase_claim`
   checks the queue against `indrabase_cores * scheduling_lookahead`. The
   storage comment calls this a bound.

4. **Lookahead after a time-out** (`mod.rs:725`). `next_up_on_time_out`
   falls back to the claim occupying the core, "as it would be put back on
   the queue after timing out". But `free_cores` re-enqueues that claim at
   `next_core_offset` (`mod.rs:408`, `mod.rs:75`). With two or more indrabase
   cores, the next `schedule` puts it on a different core, so the lookahead
   names the wrong claim for this one.

5. **Nested reserve transfers pass the XCM barrier** (`xcm_config.rs:54`).
   `DenyReserveTransferToRelayChain` looks only at the top-level
   instructions. Take a message with
   `SetAppendix(InitiateReserveWithdraw { reserve: (1, Here) })`, or the same
   transfer in `SetErrorHandler`. It passes the barrier, and the executor then
   runs the transfer that the barrier exists to refuse (issue 5233).

Spec section 8 says that a claim timing out twice with
`indrabase_retry_limit = 1` is dropped. That contradicts section 4.3, which
agrees with the code (`mod.rs:404-409`): a time-out is not charged to the
collator. The models follow the code.

## Plan

Done:
- `Scheduler`, including the Lookahead queries.
- `RotationClock`.
- `SchedulerClock`: the composition, with a timing-accurate inherent and
  liveness under fairness of block production.
- `EvmAssets`, `XcmBarrier` and `BlockWeights`.

Done this round:
- `ClaimLifecycle` and the refinement `ImplementsClaimLifecycle`. The mapping
  does not look at the claim index, so the index leak does not break it; that
  leak stays the `claim_index_leak` finding.
- `core_indra` and `group_validators`, with `CoreIndraInBounds` and
  `ValidatorGroupsPerCore` checked across sessions that change the indracore
  and validator counts.

Properties dropped after review, because each restated a single guard or
held by arithmetic on the constants alone:
- `SchedulerClock`'s `TypeOK` (the module's safety property is
  `StuckCoresTimedOut`);
- `EvmAssets`' `ContractCodeKept`, which restated the `ensure!` of `created`;
- `XcmBarrier`'s `BarrierMatchesComments`, which restated the `matches!`
  pattern; the barrier is now checked only by the
  `xcm_nested_reserve_transfer` run;
- `BlockWeights`' `OperationalFitsInReserve`, which follows from the
  constants.

Known limits of the checked properties:
- `NextUpOnAvailableIsScheduled` covers only cores freed by a concluded
  candidate; time-outs are covered by the `timeout_lookahead` finding.
- The pipeline run has no zero-core sessions; those are checked by
  `scheduler_zero_cores` and `clear_zero_cores_panic`.

Done in the last round:
- `occupied`'s retain-and-peek loop, translated step by step and checked
  against its contract for every sorted subset of every reachable `Scheduled`. Inputs
  outside the contract are undefined behaviour by the doc comment, and the
  caller that would produce them is not in the repository.

Tried and not adopted:
- **A larger SchedulerClock instance.** Two indracores on up to four cores
  passes (62,840 states in 2 min 38 s). It adds no behaviour of the claim
  path, since indracore cores only ever hold the indracore. Its liveness
  mutants would also run past the time a run is given, so the run keeps one
  indracore on three cores.

## Not modelled

- **Runtime weights:** generated formulas with no state.
- **The rest of `runtime/common/src/lib.rs`:** the fee-multiplier parameters
  (`TargetedFeeAdjustment` is outside the repository), `BlockLength`,
  `prod_or_fast` (a compile-time switch) and the staking benchmark config.
- **Bridge hashing:** cryptography.
- **`validator_node.rs`:** task wiring and I/O.
- **Finality mocks:** test code.
- **Within the scheduler:** `group_rotation_info` only builds a
  `GroupRotationInfo` value, whose methods live outside the repository.
