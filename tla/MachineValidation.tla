--------------------------- MODULE MachineValidation ---------------------------
(***************************************************************************)
(* The machine-validation part of the host state machine                  *)
(* (src/crates/api/src/state_controller/machine/handler/machine_validation.rs) *)
(* over the machine_validation table (src/crates/api-db/src/               *)
(* machine_validation.rs).  One host is reconciled by one controller at a  *)
(* time (the framework's lease), so each handler run is one atomic step;   *)
(* the request API and the validation agent, which are not in this        *)
(* repository, are environment actions that interleave with it.          *)
(***************************************************************************)
EXTENDS Naturals, Sequences, FiniteSets

CONSTANTS
  Contexts,       \* "Discovery", "Cleanup", "OnDemand"
  MaxRuns,        \* bound on machine_validation rows created
  AllowOverlap    \* may a run be requested while another is still active

VARIABLES
  runs,       \* machine_validation rows of the host, in start_time order
  valId,      \* the host's <context>_machine_validation_id columns (0: unset)
  requested,  \* the host's machine validation request flag
  failure,    \* failure_details.cause: "NoError" or "ValidationFailed"
  hs,         \* ManagedHostState, reduced to [tag, vid, ctx]
  rebooted,   \* the host came back from the last requested reboot
  enabled     \* machine_validation_config.enabled, fixed for a run

vars == <<runs, valId, requested, failure, hs, rebooted, enabled>>

RunIds == 1..Len(runs)
HostTags == {"Ready", "Failed", "RebootHost", "Validating", "HostInit"}
RunStates == {"Started", "Skipped", "Success", "Failed"}
Host(tag, v, c) == [tag |-> tag, vid |-> v, ctx |-> c]

(* The column create_new_run writes: cleanup and on-demand runs have their *)
(* own, every other context is a discovery run.                             *)
Column(c) == IF c \in {"Cleanup", "OnDemand"} THEN c ELSE "Discovery"

-----------------------------------------------------------------------------
(* create_new_run: a new row in state Started with no end_time, its id     *)
(* stored in the context's column of the machine.                          *)
CreateNewRun(c) ==
  /\ runs' = Append(runs, [ctx |-> c, ended |-> FALSE, state |-> "Started"])
  /\ valId' = [valId EXCEPT ![Column(c)] = Len(runs) + 1]

(* find_active_machine_validation_by_machine_id: the first run, by         *)
(* start_time, without an end_time; 0 stands for the InvalidArgument error. *)
FindActive ==
  IF \E i \in RunIds : ~runs[i].ended
    THEN CHOOSE i \in RunIds : ~runs[i].ended /\ \A j \in 1..(i - 1) : runs[j].ended
    ELSE 0

(* update_end_time: set end_time and the state of the run. *)
UpdateEndTime(v, st) == runs' = [runs EXCEPT ![v].ended = TRUE, ![v].state = st]

(* Mutant: the request flag left set. *)
MarkCompleteKeepingRequest(v, st) ==
  /\ UpdateEndTime(v, st)
  /\ UNCHANGED requested

(* mark_machine_validation_complete: clear the request flag, bump the     *)
(* validation time, then update_end_time on the run.                       *)
MarkComplete(v, st) ==
  /\ requested' = FALSE
  /\ UpdateEndTime(v, st)

(* Mutant: only a successful run counts as completed. *)
ValidationCompletedOnSuccess(v) == runs[v].state = "Success"

(* machine_validation_completed(host_snapshot): the host's run finished. *)
ValidationCompleted(v) == runs[v].ended

-----------------------------------------------------------------------------
Init ==
  /\ runs = <<>>
  /\ valId = [c \in {Column(x) : x \in Contexts} |-> 0]
  /\ requested = FALSE
  /\ failure = "NoError"
  /\ hs = Host("Ready", 0, "None")
  /\ rebooted = TRUE
  /\ enabled \in BOOLEAN

(* The API asks for a validation: a new run and the request flag. *)
RequestValidation(c) ==
  /\ Len(runs) < MaxRuns
  /\ AllowOverlap \/ \A i \in RunIds : runs[i].ended
  /\ CreateNewRun(c)
  /\ requested' = TRUE
  /\ UNCHANGED <<failure, hs, rebooted>>

(* handle_machine_validation_requested, called from Ready and, clearing   *)
(* the failure details, from Failed.  Without an active run it sets the    *)
(* flag again and commits that with do_nothing; otherwise it moves to      *)
(* RebootHost for the active run, in the same transaction.  The lookup    *)
(* also takes the first branch when its query fails.                       *)
HandleValidationRequested ==
  /\ hs.tag \in {"Ready", "Failed"}
  /\ requested
  /\ failure' = IF hs.tag = "Failed" THEN "NoError" ELSE failure
  /\ \E v \in {FindActive, 0} :
       IF v = 0 THEN UNCHANGED <<hs, requested>>
       ELSE /\ hs' = Host("RebootHost", v, "None")
            /\ UNCHANGED requested
  /\ UNCHANGED <<runs, valId, rebooted>>

(* Mutant: the context defaulted (unwrap_or_default) instead of read. *)
RebootHostWithDefaultContext ==
  /\ hs.tag = "RebootHost"
  /\ rebooted' = FALSE
  /\ \/ hs' = Host("Validating", hs.vid, "")
     \/ UNCHANGED hs
  /\ UNCHANGED <<runs, valId, requested, failure>>

(* RebootHost: force a restart, read the run, and move to                  *)
(* MachineValidating with its context.  The restart is issued before the   *)
(* read, so a failing read leaves a restarted host in RebootHost.           *)
RebootHost ==
  /\ hs.tag = "RebootHost"
  /\ rebooted' = FALSE
  /\ \/ hs' = Host("Validating", hs.vid, runs[hs.vid].ctx)
     \/ UNCHANGED hs
  /\ UNCHANGED <<runs, valId, requested, failure>>

(* The host comes back from a restart. *)
HostRebooted ==
  /\ ~rebooted
  /\ rebooted' = TRUE
  /\ UNCHANGED <<runs, valId, requested, failure, hs>>

(* MachineValidating with validation disabled: mark the run Skipped and   *)
(* move to HostInit/Discovered in one transaction.                         *)
SkipValidation ==
  /\ hs.tag = "Validating" /\ rebooted /\ ~enabled
  /\ MarkComplete(hs.vid, "Skipped")
  /\ hs' = Host("HostInit", 0, "None")
  /\ UNCHANGED <<valId, failure, rebooted>>

(* MachineValidating once the run completed: restart into HostInit on     *)
(* success, Failed otherwise.                                              *)
ValidationDone ==
  /\ hs.tag = "Validating" /\ rebooted /\ enabled
  /\ ValidationCompleted(hs.vid)
  /\ IF failure = "NoError"
       THEN hs' = Host("HostInit", 0, "None") /\ rebooted' = FALSE
       ELSE hs' = Host("Failed", 0, "None") /\ UNCHANGED rebooted
  /\ UNCHANGED <<runs, valId, requested, failure>>

(* The agent on the host reports the run's results. *)
AgentReports ==
  /\ hs.tag = "Validating" /\ rebooted /\ enabled
  /\ ~runs[hs.vid].ended
  /\ \E ok \in BOOLEAN :
       /\ MarkComplete(hs.vid, IF ok THEN "Success" ELSE "Failed")
       /\ failure' = IF ok THEN failure ELSE "ValidationFailed"
  /\ UNCHANGED <<valId, hs, rebooted>>

(* Discovery and the rest of host init bring the host back to Ready. *)
HostInitDone ==
  /\ hs.tag = "HostInit" /\ rebooted
  /\ hs' = Host("Ready", 0, "None")
  /\ UNCHANGED <<runs, valId, requested, failure, rebooted>>

(* The configuration is read at startup and does not change. *)
Next ==
  /\ \/ \E c \in Contexts : RequestValidation(c)
     \/ HandleValidationRequested \/ RebootHost \/ HostRebooted
     \/ SkipValidation \/ ValidationDone \/ AgentReports \/ HostInitDone
  /\ UNCHANGED enabled

(* The controller keeps reconciling the host and its reads do not fail   *)
(* for ever, hosts come back from a restart and the agent reports;         *)
(* requests come when they come.                                           *)
Fairness ==
  /\ WF_vars(HandleValidationRequested /\ hs'.tag = "RebootHost" /\ UNCHANGED enabled)
  /\ WF_vars(hs.tag = "RebootHost" /\ RebootHost /\ hs'.tag = "Validating"
             /\ UNCHANGED enabled)
  /\ WF_vars(HostRebooted /\ UNCHANGED enabled)
  /\ WF_vars(SkipValidation /\ UNCHANGED enabled)
  /\ WF_vars(ValidationDone /\ UNCHANGED enabled)
  /\ WF_vars(AgentReports /\ UNCHANGED enabled)
  /\ WF_vars(HostInitDone /\ UNCHANGED enabled)

Spec == Init /\ [][Next]_vars /\ Fairness

-----------------------------------------------------------------------------
TypeOK ==
  /\ runs \in Seq([ctx : Contexts, ended : BOOLEAN, state : RunStates])
  /\ Len(runs) <= MaxRuns
  /\ valId \in [{Column(x) : x \in Contexts} -> 0..MaxRuns]
  /\ requested \in BOOLEAN
  /\ failure \in {"NoError", "ValidationFailed"}
  /\ hs \in [tag : HostTags, vid : 0..MaxRuns, ctx : Contexts \cup {"None"}]
  /\ rebooted \in BOOLEAN
  /\ enabled \in BOOLEAN

(* The request flag is set exactly while some run has no end_time: every  *)
(* run the API creates is eventually picked up by the handler, and a set  *)
(* flag always has a run for find_active to return.                        *)
RequestMatchesActiveRun ==
  requested <=> \E i \in RunIds : ~runs[i].ended

(* A requested validation is eventually finished and the flag cleared,    *)
(* with the host out of the validation states.                             *)
RequestServed ==
  requested ~> (~requested /\ hs.tag \in {"HostInit", "Ready", "Failed"})
=============================================================================
