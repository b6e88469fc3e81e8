# TLA+ models of the bare-metal-manager core

This directory holds TLA+ models of the state-controller core of
`bare-metal-manager-core` and the TLC configurations that check them. The
models cover several parts: the generic controller with its deferred writes,
the network segment lifecycle together with instance address allocation, VPC
prefix linknet statistics, the switch, power shelf and rack controllers, the
machine-validation sub-state machine, `set_primary_dpu`, and the host firmware
update manager. `PROJECT.json` records several things: which definition
models which source lines (`map`), the runs, the mutants that show each
property can fail, the findings, and the hazards of the code.

## The system and its parts

| Part | Source | State | Operations |
|---|---|---|---|
| State controller framework | `api/src/state_controller/state_handler.rs`, `db_write_batch.rs` (loop and lease store from `spec.md` 4.2) | object rows: state, version, history, outcome; leases; per-worker snapshot, outcome, write batch, transaction | acquire lease, load, `handle_object_state`, `take_transaction`/begin, `apply_all`, commit, record error, release, crash, lease expiry |
| Network segment handler | `api/src/state_controller/network_segment/handler.rs`, `api-model/src/network_segment/mod.rs` | controller state (Provisioning, Ready, DrainAllocatedIps{delete_at}, DBDelete), deleted mark, VNI/VLAN | one handler run per state; the tenant state the API reports |
| Instance address allocation | `api-db/src/instance_address.rs` (IpAllocator from `spec.md` 4.3) | `instance_addresses` rows, the table lock, the SVI address | `allocate` over all interfaces (validate, lock in a savepoint, pick, insert, commit or roll back), `allocate_svi_ip`, `delete`, `count_by_segment_id` |
| VPC prefix store and stats | `api-db/src/vpc_prefix.rs` | a VPC's prefix rows; contained network prefixes per VPC prefix | `persist`, `delete`, `update_stats` on every read (`get_by_id`, `find_by_vpc`) |
| Machine handlers (validation, power), write ops | `api/src/state_controller/machine/...` | machine controller sub-states, power options | per-state handler steps, `MachineWriteOp::apply` |
| Switch, power shelf, rack | `.../switch/handler.rs`, `.../power_shelf/handler.rs`, `api-model/src/rack.rs`, rack tests | controller states | per-state handler steps |
| API handlers, firmware manager | `api/src/handlers/*.rs`, `machine_update_manager/host_firmware.rs` | host flags, firmware update selection | `set_primary_dpu`, `set_maintenance`, UEFI password, `check_for_updates` |
| Not stateful | `db_read.rs`, `run.rs`, `admin-cli/.../cmds.rs`, `tests/expected_machine.rs` | — | type plumbing, startup, CLI formatting, API tests |

The parts interact as follows. Every controller (segment, machine, switch,
power shelf, rack) runs its handler inside the generic framework. A handler
returns a `StateHandlerOutcome` (Wait, Transition, DoNothing or Deleted),
which may carry its own transaction, and it pushes deferred writes onto a
`DbWriteBatch`. The framework persists the outcome and the writes in one
transaction. The segment handler's drain step reads the same
`instance_addresses` table that `allocate` writes under an ACCESS EXCLUSIVE
lock. The allocator reads used addresses through
`UsedOverlayNetworkIpResolver`. VPC prefix reads count the network prefixes
inside each VPC prefix.

These behaviours are hard to test:

- Leases against handlers that overrun them. In `StateController`,
  `LeaseMayLapse` is FALSE in `sc_core`. Set to TRUE, TLC finds
  `HistoryMatchesState` violated: two finalizes from the same snapshot both
  persist version 1, and the history gets two entries for it. This is listed
  as a hazard, because the lease TTL is not in the repository.
- Crashes between finalize and release.
- `apply_all` failing halfway.
- An allocation validated before the lock, racing the drain and delete of its
  segment.
- Two allocations without the lock.
- The SVI busy set.
- The firmware manager's selection loop: its budget, and its `break`; and a
  pass that fails after its snapshot but keeps the directory's mod time.
- Arithmetic edges of the linknet statistics: the u64 cap, and /31 and /32
  prefixes.

## Modules

### `StateController` (framework)

Each worker moves through these steps: `idle → leased → loaded → handled →
applying → committing → release`, with `recordError` on failures.

- `HandleObjectState` may return any result a handler returns
  (`AnyResult`): any outcome, any write batch of up to `MaxBatch` ops,
  with or without a transaction. The trait would admit a bare `deleted()`,
  but every handler in the repository returns `deleted().with_txn(txn)` on
  the `final_delete` transaction, so Deleted always carries it.
- `TakeTransaction` adopts the handler's transaction or begins one. A
  handler error discards both.
- `ApplyWriteOp` applies one op per step and may fail, which rolls the unit
  back. This mirrors `apply_all`'s `?` inside the loop.
- `Commit` may fail:
  - Transition writes the state, `snapshot.version + 1` and a history entry.
  - Wait and DoNothing write only the outcome.
  - Deleted removes the row and persists no outcome, because `from_result`
    is `unreachable!` for Deleted.
- `PersistErrorOutcome` models `from_result(Err)`.
- The lease store, the controller loop, crashes and lease expiry are not
  under `src/`. Their definitions follow `spec.md` and are marked
  `spec_modelled` in the map.
- `LeaseMayLapse` chooses whether a lease may expire under a running holder.
  `sc_core` keeps it FALSE. Mutual exclusion then follows from `Acquire`'s
  guard alone, so no property restates it; what a lapse would break is the
  history (see above).

### `SegmentAddresses` (segment handler composed with allocation)

One controller step sequence runs per segment; the framework's lease
justifies this.

- Controller actions: `Provision`, `StartDrain`, then `DrainCount` and
  `DrainDecide`. These last two are the two halves of the DrainAllocatedIps
  run: the count in a fresh transaction, which waits on the table lock, and
  then the decision. `DBDelete` releases the VNI and VLAN and removes the
  segment in one transaction.
- Allocation actions: `AllocValidate` (find_by and validate, before the
  lock), `AllocAssign` (lock, then `NextAvailableIp` over `used_prefixes`),
  `AllocFinish` (the caller's commit, or a rollback), and `ReleaseAddresses`
  (`delete` under the lock).
- A request allocates for a set of interfaces, each in its own segment
  (`aseg`). `validate` fails when two interfaces name the same segment, so
  the segments are distinct. `ValidSegment` is `validate` for one segment:
  a marked segment is rejected, and one named through a VPC prefix skips
  the Ready check. `SingleVpc` is the check across the segments: every one
  must be attached to a VPC, and all of them to the same VPC. The runs put
  every segment in one VPC (`MCSegVpc`), so that an instance can have
  interfaces on both segments; the check then never rejects a request. `TenantPrefixAccepted` is the creation check of
  `NewNetworkSegment::try_from`: a tenant segment on a /31 or /32 prefix
  (two addresses or fewer) is refused, so `PrefixSize` is assumed to pass it. `AllocAssign` picks an address for every interface under
  the lock (`AssignedRows`). If any window is exhausted (`Exhausted`), the
  savepoint is rolled back, together with the rows and the lock taken in it.
  A request that goes back to idle forgets its interfaces and its age
  (`Forget`), as the call's locals die.
- `TenantState` is the state the rpc conversion reports: Provisioning,
  Ready or Terminating from the controller state, and Terminating as soon as
  the segment is marked.
- `AllocSvi` is `allocate_svi_ip`: under the lock, the segment's SVI takes the
  first address the allocator gives from the used prefixes. Its caller is
  not in the repository, so when it runs is assumed: once per segment, while
  the segment is Provisioning or Ready.
  `NoBusyAddressAssigned` compares instance rows with that address.
- Time is reduced to what the handler compares. `drainLeft` is the number of
  ticks left to `delete_at`. `age` counts the ticks an allocation has been in
  flight, and `MaxAllocTicks` bounds it. `DrainCount` also takes the
  `now >= delete_at` comparison, which follows the count by microseconds
  (`ctl` is `countedDue` when it held). A tick may then pass while the other
  segment is between its count and its decision.

### `VpcPrefixStats` (prefix rows and linknet arithmetic)

Widths are scaled so TLC reaches every edge:

| Quantity | In the code | In the model |
|---|---|---|
| IPv4 address | 32 bits | 6 bits |
| IPv6 address | 128 bits | 8 bits |
| u64 output | 64 bits | 4 bits |
| legacy u32 | 32 bits | 6 bits |

The relations that matter are kept: a long IPv6 shift overflows u64, and a
v4 subnet count fits in u32. `Subnets` is a RECURSIVE model of ipnet's
`subnets()`. `FindByVpc` runs `update_stats` over all of the VPC's rows, and
one failing prefix fails the whole read.

`rows` are the VPC's prefix rows; `Persist` and `Delete` add and remove one.
Both also call `increment_vpc_version`, which is not under `src/`. Nothing in
the repository reads the VPC version, so it is left out.
A shape `[fam, len]` stands for one prefix of that length at its own
addresses, so two rows never overlap. `lastRead` holds the statistics of a read for the step that made it only.
The action properties judge a read in that step, and keeping old statistics
would only multiply the states. `update` and `update_last_used_prefix` are
not modelled: they change only columns that no property reads, and they
bump nothing. `spec.md` says an update bumps the VPC version. The code
changes no prefix in an update, and its comment says a bump is needed once
prefixes can be resized.

### `DeviceController` (switch, power shelf and rack handlers)

The switch and power-shelf handlers are the same code, line for line, so
one module models both. It instantiates `StateController` with the device
states and no deferred ops, and supplies the concrete handler
(`HandlerResults`, which is `SwitchResults` for a switch):

- Initializing, FetchingData and Configuring step forward without looking at
  the deleted mark.
- Ready and Error move to Deleting once the mark is set; otherwise they do
  nothing.
- Deleting begins its own transaction for `final_delete`, which may fail.

The mark is read at load (`seen`), so a mark set during a handler run is
seen on the next iteration. There is at most one worker crash.

Racks run in the same controller with `RackResults`, the
`TestRackStateHandler` of `api/src/tests/rack_state_controller`. Expected,
Discovering, Ready Partial and Ready Full each step forward, the last one into
Maintenance / RackValidation Topology. Every other state does nothing. The
rack controller's candidate listing is not in the repository. Following
`spec.md` 4.2 (the IO lists the non-deleted ids), a rack marked deleted is no
longer a candidate (`Candidate`). The rack tests allow a few more handler runs
after the mark "due to timing"; no property bounds them, because the listing
is taken from the spec, not from code.

`Handle` takes the concrete handler's results as they are, without the
framework's `AnyResult` version guard. The switch path has at most four
transitions, so the type invariant's version bound is reached only by a
handler that loops.

### `MachineValidation` (machine-validation sub-state machine)

The controller's steps are:

- `HandleValidationRequested`: from Ready, or from Failed where it also
  clears the failure. A failing active-run lookup takes the do_nothing
  branch.
- `RebootHost`: restart, then read the run. The read may fail after the
  restart.
- `SkipValidation`: mark the run Skipped and move to HostInit in one
  transaction.
- `ValidationDone`: HostInit on success, Failed otherwise.

The request API, the validation agent, host restarts and host init are not
in this repository. They are environment actions. `AllowOverlap` chooses
whether the API may create a run while another is active. The run uses
FALSE. With TRUE, TLC shows that the second run is orphaned: it stays
active with no request, because `find_active...` returns the oldest
active run and its completion clears the only request flag. This is listed
as a hazard, because whether the API allows overlap is not visible here.

### `PrimaryDpu` (`set_primary_dpu`)

Each request is one process with these steps:

- `ReadInterfaces`: the scan and its error returns, in a transaction that
  is rolled back.
- `SetBootOrder`: the BMC call, which may fail.
- `WriteInterfaces`: swap the primary flags and bump the versions. The
  swap (`SwapPrimary`) clears the old primary, then sets the new one. A
  statement that would leave two primaries fails the transaction.
  With `dbMayFail`, the transaction may also fail for other reasons.

`concurrent` chooses whether requests may overlap. It and `dbMayFail` are
fixed at Init from `ConcurrentModes` and `DbFailModes`, so one run covers
every combination. `SequentialBootMatchesPrimary` states boot/primary
agreement for the combination where it should hold. The optional reboot
after the commit is left out: it is a BMC call with no database state.

### `HostFirmwareUpdate` (`machine_update_manager/host_firmware.rs`)

The module models one pass of the manager for the host firmware module,
with the rest of the system as the environment:

- `StartUpdates`: `get_updates_in_progress` and `start_updates`, a pass
  that succeeds. The
  desired firmware is snapshotted when `SnapshotDue` holds: no auto
  directory and nothing read yet, or a directory mod time newer than the
  last one read. Then `CheckForUpdates` (a RECURSIVE operator) walks the
  machines `find_upgrade_needed` returns. It takes one per available update
  and stops at the first machine with autoupdate disabled (`break`). A
  reprovisioning request is set on each returned machine that is not
  already updating.
- `StartUpdatesFails`: a pass that fails after its snapshot.
  `start_updates` sets `firmware_dir_last_read` in memory (lines 72-73)
  before `check_for_updates` (77) and the requests (95), whose `?` may
  still fail. The manager does not commit the pass, so the snapshot and the
  requests roll back, but the mod time stays read. This needs
  `PassMayFail`. A pass that fails without a snapshot due changes nothing
  and is a stutter. The manager is not in the repository, so the rollback
  of a failed pass is an assumption: the pass runs on the manager's
  transaction, and an error leaves it uncommitted.
- `ClearCompletedUpdates`: `clear_completed_updates`.
- Environment actions:
  - `HostReprovisioned`: the host state machine installs the desired
    firmware.
  - `ConfigChanged`: a new file lands in the auto directory, with a later
    mod time.

The order of `find_upgrade_needed`'s result is not in the repository. The
model picks one ordering of the hosts at Init (`order`) and keeps it:
the same query over the same rows returns them in the same order.

## Runs

| Run | Expect | What it shows |
|---|---|---|
| `sc_core` | pass | One object and two workers. The framework keeps atomic finalize (I4/P3) and history matching state (I2), across crashes, write-batch and commit failures, and expiry of a crashed holder's lease. Every lease is eventually freed. |
| `sa_core` | pass | With allocations shorter than `drain_period`, a removed segment has no addresses and no VNI/VLAN. Addresses are unique under the lock. An instance holds addresses for all of its interfaces or for none (`AllOrNothing`: the savepoint rollback). A segment reported Ready accepts allocations, and one reported Terminating accepts none, even through a VPC prefix (`ReportedStateMatchesValidate`). A marked segment with no instances is eventually removed. |
| `sa_slow_alloc` | violation | An allocation validated before the mark, and slower than the drain period, inserts into a deleted segment. |
| `sa_svi` | violation | `allocate_svi_ip` takes the first free address for the SVI. The next instance allocation is handed the same address, because `used_prefixes` omits `busy_ips`. |
| `dc_core` | pass | A switch row is removed only after it was marked deleted, and a marked switch is eventually removed from any state, across a crash and failing runs and commits. |
| `mv_core` | pass | With validation enabled or disabled (`enabled` is fixed at Init), the request flag is set exactly while a run is active. Every request is served, through the skip path or a passing or failing run. |
| `pd_core` | pass | Three `set_primary_dpu` requests, overlapping or not, with a second transaction that may fail or not. With requests one at a time and a database that does not fail, the BMC boots from the primary interface's DPU. |
| `pd_race` | violation | Two overlapping requests both re-point the BMC. The later transaction fails on the only-one-primary constraint, and the BMC is left booting from a DPU that is not primary. |
| `vps_core` | pass | Linknet totals equal P6 (`min(2^(P-L), u64::MAX)`, available = total − used), including exactly at the cap. Legacy /31 counters agree with them. Both hold across persists and deletes of the VPC's prefixes. |
| `vps_slash31` | violation | A /31 VPC prefix reports 0 linknets where P6 gives 1. |
| `fw_core` | pass | Three hosts, two concurrent updates, a firmware directory that is automatic or not and changes once, and passes that may fail after their snapshot. The manager never reprovisions more hosts at once than allowed, and every host eventually runs the firmware the `desired_firmware` table names (`FirmwareEventuallyDesired`). Whether that is the latest firmware is not claimed: a failed pass leaves the table stale (see below). |
| `fw_disabled` | violation | When a host with autoupdate disabled comes first in `find_upgrade_needed`'s result, `check_for_updates` breaks at it on every pass, and the hosts after it never get the new firmware. Passes do not fail in this run (`PassMayFail` FALSE), so the break alone causes it. |

The same property, `FirmwareEventuallyCurrent`, also fails for a second
reason. With `PassMayFail` TRUE and no disabled host, one failed pass sets
`firmware_dir_last_read` while its snapshot is rolled back. No later pass
snapshots again: without an auto directory, not until the process restarts;
with one, not until a newer file arrives. The hosts converge to the stale
table. This is listed as a hazard (`host_firmware.rs:72`), with the
configuration that shows it.

Each property of a passing run has a mutant in `PROJECT.json`. A mutant is a
plausible bug in the mapped code, and TLC finds the property violated once
the mutant is applied. Examples: a write op applied outside the transaction, an allocation without `LOCK TABLE`,
a DBDelete that keeps the VLAN, a u64 cap that starts one shift late.

### Bounds

- **`sc_core`:** one object, two workers, two states, two ops, batches of up
  to two, version ≤ 2. This is 683k states in about a minute. One object
  is enough for every per-object property, and two workers are enough for
  every pairwise race. Batches of two reach a failure after a successful
  first op.
- **`sa_core`:** two segments, two requests, drain period 2, allocation
  bound 1. The prefix is a /30 with `num_reserved` 2, which leaves one
  usable address per segment. The SVI or one instance can hold it, so two
  requests race for it and a two-interface request can find one segment
  exhausted after the other gave an address. This is 67k states in under a
  minute. Two usable addresses per segment give 407k states, and the
  liveness check then takes minutes, too long to check each mutant. `sa_slow_alloc` and
  `sa_svi` keep one segment with two usable addresses.
- **`dc_core`:** one switch and one rack, one worker, one crash, version
  ≤ 5. This is more than the four transitions of the longest path to
  removal. Two objects make the one worker alternate between them, which is
  what per-device fairness is about. Two workers with per-device strong
  fairness take more than five minutes. Races between workers are checked
  in `sc_core`, on the same framework actions.
- **`mv_core`:** one host, two contexts, three runs. That is
  enough for a failed run followed by a new request, and for a request
  arriving while a run is being completed.
- **`pd_core`/`pd_race`:** three DPUs, a host interface with no DPU,
  and three requests whose targets are chosen at Init. This includes a
  request for the current primary and a request for the DPU another
  request is moving to.
- **`vps_core`:** v4 prefixes holding 4 and 2 linknets plus a /32; v6
  prefixes exactly at and past the cap; up to 3 contained prefixes. The VPC
  starts with any subset of these five prefixes, and persists and deletes
  then change it freely. The run has 25k states.
- **`fw_core`/`fw_disabled`:** three hosts, two concurrent updates, two
  configurations, and every order of the query. Three hosts against two
  slots make the budget bind and leave a host waiting behind the others.
  Hosts start on the factory firmware or on the first configuration.

### Fairness

- Worker steps, the handler and lease expiry are weakly fair. The runtime
  keeps polling its tasks, and a lease's TTL keeps running.
- Crashes, API marks and instance teardown get no fairness.
- In `SegmentAddresses`, the controller steps and the allocation's commit
  are weakly fair. The clock is strongly fair: it is only held back for an
  allocation at its deadline, and real time always advances. Taking the
  table lock (`AllocAssign`) and the drain's count are strongly fair.
  PostgreSQL queues a waiting lock request and grants it before any request
  made after it. Under weak fairness, another request taking the lock again
  and again would starve them.
- In `DeviceController`, the handler's success, a commit's success and the
  lease acquisition are strongly fair for each device. A database that keeps
  being tried on a device does not fail for ever on it. Fairness per worker
  alone is not enough: the rack's commits would satisfy it while every commit
  of the switch fails.
- In `MachineValidation`, the handler is weakly fair, and so is a
  successful lookup. Restarts, host init and agent reports are weakly fair,
  but new requests are not.
- Deadlock checking is off in `StateController` and `DeviceController`,
  because once every object is deleted there is nothing left to reconcile.
  It is also off in `MachineValidation`, where a host with all its runs
  served idles in Ready, and in `HostFirmwareUpdate`, where every host on
  the last configuration leaves the passes nothing to change. The other
  modules check deadlock.
- In `HostFirmwareUpdate`, the manager's passes, the clearing of completed
  updates and each host's reprovisioning are weakly fair. The manager runs
  its passes periodically for ever. New firmware arrives when it arrives.

## Not modelled yet, and the plan

- **Next:**
  - The skip of interfaces that already carry addresses when an
    instance's network config is updated. This needs an instance whose
    update adds interfaces to committed ones, and a larger `sa_core`.
  - Host-inband assignment (`assign_ips_from` a machine snapshot), where
    the instance's address is the host's own.
- **Not modelled, because the code that decides is not in the repository:**
  - The segment SLA (`state_sla`, where a negative duration becomes 24
    hours). `StateSla::with_sla` decides what is over the SLA, and the
    reader that escalates on it is elsewhere. The hazard is listed in
    `PROJECT.json`.
  - The power handler (`machine/handler/power.rs`). Its helpers in
    `model::power_manager` and the machine handler that persists its
    outcome are missing. Two hazards of its own code are listed: the
    discarded back-off on the desired-Off path, and a restart issued before
    the new `wait_until` is persisted.
  - The rack controller's own handler and the removal of rack rows.
  - `set_maintenance`: the health-override handlers it calls and the DPU
    reprovisioning request it checks are missing.
- **Not modelled, with reasons:**
  - `MachineWriteOp` (`machine/write_ops.rs`): no handler under `src/`
    pushes one. `apply` consumes each op in the closing transaction, so
    P7's replay does not arise. The framework's abstract ops stand for them.
  - The UEFI password handlers: their only write after the BMC call is a
    timestamp that nothing in the repository reads.
- **Out of scope:** metrics, logging, formatting, the CLI, startup and
  `db_read` plumbing. None of them hold state that a property tells apart.
