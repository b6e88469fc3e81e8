-------------------------- MODULE HostFirmwareUpdate --------------------------
(***************************************************************************)
(* The host firmware module of the machine update manager                 *)
(* (src/crates/api/src/machine_update_manager/host_firmware.rs).  Each    *)
(* pass of the manager clears the completed updates and starts new ones:   *)
(* start_updates snapshots the desired firmware when the firmware          *)
(* directory changed, asks check_for_updates for up to available_updates  *)
(* machines that need an upgrade, and sets a host reprovisioning request  *)
(* on each one not already updating.  The manager, the queries of         *)
(* host_machine_update and the host's reprovisioning itself are not in    *)
(* the repository; they are the environment of the module.  One manager   *)
(* task runs the module, so try_lock on firmware_dir_last_read succeeds.  *)
(***************************************************************************)
EXTENDS Naturals, FiniteSets, SequencesExt

CONSTANTS
  Hosts,          \* managed hosts
  Disabled,       \* firmware_global.host_disable_autoupdate
  MaxConcurrent,  \* the manager's bound on concurrent machine updates
  MaxConfigs,     \* firmware configurations the directory goes through
  PassMayFail     \* a query of a pass may fail (the database's error)

ASSUME Disabled \subseteq Hosts /\ MaxConcurrent \in Nat \ {0}
ASSUME MaxConfigs \in Nat \ {0} /\ PassMayFail \in BOOLEAN

VARIABLES
  installed,  \* firmware configuration each host runs (0: the factory one)
  config,     \* the configuration in the firmware directory
  autoDir,    \* an auto firmware directory is used (fixed for a run)
  lastRead,   \* firmware_dir_last_read: 0 for None, else the mod time read
  desired,    \* desired_firmware table: the snapshotted configuration, 0 empty
  reprov,     \* hosts with a host reprovisioning request
  done,       \* hosts whose reprovisioning completed, not yet cleared
  order       \* the order find_upgrade_needed returns rows in, fixed for a run

vars == <<installed, config, autoDir, lastRead, desired, reprov, done, order>>

(* firmware_config.config_update_time(): the directory's mod time, which   *)
(* moves forward with every new configuration; 0 for None.                 *)
ConfigUpdateTime == IF autoDir THEN config ELSE 0

(* find_upgrade_needed: the hosts whose firmware differs from the desired *)
(* one.  The query names no order; the same query over the same rows       *)
(* returns them in the same order, any one of them.                        *)
UpgradeNeeded(d) == SelectSeq(order, LAMBDA h : d # 0 /\ installed[h] # d)

(* The manager: updates it may start besides those in progress. *)
AvailableUpdates == MaxConcurrent - Cardinality(reprov)

-----------------------------------------------------------------------------
(* start_updates: snapshot the desired firmware when no auto directory is *)
(* used and nothing was read yet, or when the directory's mod time is      *)
(* newer than the one read last (unwrap_or(UNIX_EPOCH)).                   *)
SnapshotDue ==
  \/ ConfigUpdateTime = 0 /\ lastRead = 0
  \/ ConfigUpdateTime # 0 /\ lastRead < ConfigUpdateTime

(* Mutant: the budget is checked once, before the loop. *)
RECURSIVE CheckForUpdatesUnbounded(_, _)
CheckForUpdatesUnbounded(needed, available) ==
  IF available = 0 \/ needed = <<>> \/ Head(needed) \in Disabled THEN <<>>
  ELSE <<Head(needed)>> \o CheckForUpdatesUnbounded(Tail(needed), available)

(* check_for_updates: walk the machines needing an upgrade, taking one    *)
(* per available update; the walk stops (break) at the first machine with *)
(* autoupdate disabled.                                                    *)
RECURSIVE CheckForUpdates(_, _)
CheckForUpdates(needed, available) ==
  IF available = 0 \/ needed = <<>> \/ Head(needed) \in Disabled THEN <<>>
  ELSE <<Head(needed)>> \o CheckForUpdates(Tail(needed), available - 1)

-----------------------------------------------------------------------------
Init ==
  /\ installed \in [Hosts -> {0, 1}]
  /\ config = 1
  /\ autoDir \in BOOLEAN
  /\ lastRead = 0
  /\ desired = 0
  /\ reprov = {}
  /\ done = {}
  /\ order \in SetToSeqs(Hosts)

(* start_updates, with get_updates_in_progress before it: snapshot the     *)
(* desired firmware if due, then set a reprovisioning request on every    *)
(* machine check_for_updates returns that is not updating already.         *)
(* The time recorded is the mod time, or now without a directory: in     *)
(* both cases a value that is not None.                                    *)
StartUpdates ==
  /\ LET due == SnapshotDue
         d == IF due THEN config ELSE desired
     IN /\ desired' = d
        /\ lastRead' = IF due THEN config ELSE lastRead
        /\ reprov' = reprov \cup
                       (Range(CheckForUpdates(UpgradeNeeded(d), AvailableUpdates)) \ reprov)
  /\ UNCHANGED <<installed, config, autoDir, done, order>>

(* start_updates failing after the snapshot: firmware_dir_last_read is    *)
(* set in memory (72-73) before check_for_updates (77) and the requests   *)
(* (95) run, and one of their ? returns the error.  The manager does not   *)
(* commit the pass, so the desired_firmware snapshot and any request roll  *)
(* back; the mod time stays read.  A pass that fails without a snapshot    *)
(* due changes nothing.                                                    *)
StartUpdatesFails ==
  /\ PassMayFail
  /\ SnapshotDue
  /\ lastRead' = config
  /\ UNCHANGED <<installed, config, autoDir, desired, reprov, done, order>>

(* Mutant: the completed updates are not taken off the list. *)
ClearCompletedUpdatesKeepingDone ==
  /\ done # {}
  /\ reprov' = reprov \ done
  /\ UNCHANGED <<installed, config, autoDir, lastRead, desired, done, order>>

(* Mutant: the completed updates are marked but keep their requests. *)
ClearCompletedUpdatesKeepingRequests ==
  /\ done # {}
  /\ done' = {}
  /\ UNCHANGED <<installed, config, autoDir, lastRead, desired, reprov, order>>

(* clear_completed_updates: drop the health override of each completed    *)
(* update and mark it complete, which ends its reprovisioning request.     *)
ClearCompletedUpdates ==
  /\ done # {}
  /\ reprov' = reprov \ done
  /\ done' = {}
  /\ UNCHANGED <<installed, config, autoDir, lastRead, desired, order>>

(* The host state machine reprovisions a host with the desired firmware. *)
HostReprovisioned(h) ==
  /\ h \in reprov \ done
  /\ installed' = [installed EXCEPT ![h] = desired]
  /\ done' = done \cup {h}
  /\ UNCHANGED <<config, autoDir, lastRead, desired, reprov, order>>

(* A new configuration lands in the auto firmware directory. *)
ConfigChanged ==
  /\ autoDir
  /\ config < MaxConfigs
  /\ config' = config + 1
  /\ UNCHANGED <<installed, autoDir, lastRead, desired, reprov, done, order>>

Next ==
  \/ StartUpdates
  \/ StartUpdatesFails
  \/ ClearCompletedUpdates
  \/ \E h \in Hosts : HostReprovisioned(h)
  \/ ConfigChanged

(* The manager runs its passes for ever and reprovisioning completes;    *)
(* new firmware arrives when it does.                                      *)
Fairness ==
  /\ WF_vars(StartUpdates)
  /\ WF_vars(ClearCompletedUpdates)
  /\ \A h \in Hosts : WF_vars(HostReprovisioned(h))

Spec == Init /\ [][Next]_vars /\ Fairness

-----------------------------------------------------------------------------
TypeOK ==
  /\ installed \in [Hosts -> 0..MaxConfigs]
  /\ config \in 1..MaxConfigs
  /\ autoDir \in BOOLEAN
  /\ lastRead \in 0..MaxConfigs
  /\ desired \in 0..MaxConfigs
  /\ reprov \subseteq Hosts
  /\ done \subseteq reprov
  /\ order \in Seq(Hosts)

(* No more hosts are being reprovisioned for firmware at once than the    *)
(* manager allows: check_for_updates spends one available update per      *)
(* machine it returns, and those already updating are counted in progress. *)
WithinConcurrencyLimit == Cardinality(reprov) <= MaxConcurrent

(* Every host with autoupdate enabled eventually runs the configuration  *)
(* the desired_firmware table names, once it names one: check_for_updates *)
(* takes at most available_updates machines a pass, so the hosts left over *)
(* wait for clear_completed_updates to free their slots, across failed     *)
(* passes and new configurations.                                          *)
FirmwareEventuallyDesired ==
  \A h \in Hosts \ Disabled : <>[](desired = 0 \/ installed[h] = desired)

(* Every host with autoupdate enabled eventually runs the latest firmware *)
(* configuration of the directory and keeps it.                            *)
FirmwareEventuallyCurrent ==
  \A h \in Hosts \ Disabled : <>[](installed[h] = config)
=============================================================================
