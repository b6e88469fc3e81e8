--------------------------- MODULE DeviceController ---------------------------
(***************************************************************************)
(* The switch and power shelf controllers: SwitchStateHandler             *)
(* (src/crates/api/src/state_controller/switch/handler.rs) and             *)
(* PowerShelfStateHandler (.../power_shelf/handler.rs), which are the same *)
(* handler line for line, run inside the generic framework                *)
(* (StateController).  The framework's actions are reused through          *)
(* INSTANCE; the handler step is the concrete one.  The deleted mark is    *)
(* read with the object when the iteration loads it.                      *)
(*                                                                         *)
(* Racks run under the same framework with the rack handler of the rack   *)
(* controller tests (src/crates/api/src/tests/rack_state_controller), and  *)
(* are not listed as candidates once marked deleted.                       *)
(***************************************************************************)
EXTENDS Naturals, Sequences

CONSTANTS
  Objects, Workers, MaxVersion, MaxCrashes,
  Racks,    \* the objects that are racks; the others are switches
  NoOwner, NoObject, NoTxn, NoResult, Absent

VARIABLES
  rows, dbOps, lease, pc, obj, snap, res, batch, txn,
  marked,   \* deleted timestamp of each device, set by the API
  seen,     \* the mark as loaded by each worker
  crashes   \* worker crashes so far

fwVars == <<rows, dbOps, lease, pc, obj, snap, res, batch, txn>>
vars == <<fwVars, marked, seen, crashes>>

(* SwitchControllerState / PowerShelfControllerState. *)
SwitchStates ==
  {"Initializing", "FetchingData", "Configuring", "Ready", "Deleting", "Error"}

(* RackState as far as the rack handler moves it. *)
RackStates ==
  {"Expected", "Discovering", "ReadyPartial", "ReadyFull", "MaintenanceTopology"}

DevStates == SwitchStates \cup RackStates

FW == INSTANCE StateController
        WITH States <- DevStates, InitState <- "Initializing", Ops <- {},
             MaxBatch <- 0, LeaseMayLapse <- FALSE

Outcome(kind, next) ==
  [kind |-> kind, next |-> next, ops |-> <<>>, txn |-> kind = "Deleted",
   del |-> kind = "Deleted"]

(* Mutant: Ready answers transition(Ready) instead of do_nothing. *)
SwitchResultsReadyRetransition(w) ==
  LET st == snap[w].state IN
  CASE st = "Initializing" -> {Outcome("Transition", "FetchingData")}
    [] st = "FetchingData" -> {Outcome("Transition", "Configuring")}
    [] st = "Configuring"  -> {Outcome("Transition", "Ready")}
    [] st = "Deleting"     -> {Outcome("Deleted", st), Outcome("Error", st)}
    [] st \in {"Ready", "Error"} ->
         IF seen[w] THEN {Outcome("Transition", "Deleting")}
         ELSE {Outcome("Transition", st)}

(* Mutant: the Error branch moves to Deleting without the mark. *)
SwitchResultsErrorDeletes(w) ==
  LET st == snap[w].state IN
  CASE st = "Initializing" -> {Outcome("Transition", "FetchingData")}
    [] st = "FetchingData" -> {Outcome("Transition", "Configuring")}
    [] st = "Configuring"  -> {Outcome("Transition", "Ready")}
    [] st = "Deleting"     -> {Outcome("Deleted", st), Outcome("Error", st)}
    [] st = "Error" -> {Outcome("Transition", "Deleting")}
    [] st = "Ready" ->
         IF seen[w] THEN {Outcome("Transition", "Deleting")}
         ELSE {Outcome("DoNothing", st)}

(* Mutant: Ready never looks at the mark. *)
SwitchResultsReadyIgnoresMark(w) ==
  LET st == snap[w].state IN
  CASE st = "Initializing" -> {Outcome("Transition", "FetchingData")}
    [] st = "FetchingData" -> {Outcome("Transition", "Configuring")}
    [] st = "Configuring"  -> {Outcome("Transition", "Ready")}
    [] st = "Deleting"     -> {Outcome("Deleted", st), Outcome("Error", st)}
    [] st = "Error" ->
         IF seen[w] THEN {Outcome("Transition", "Deleting")}
         ELSE {Outcome("DoNothing", st)}
    [] st = "Ready" -> {Outcome("DoNothing", st)}

(* The handler: Initializing, FetchingData and Configuring step forward   *)
(* without looking at the mark; Ready and Error move to Deleting once the *)
(* device is marked and otherwise do nothing; Deleting runs final_delete   *)
(* in a transaction of its own (begin or delete may fail) and returns      *)
(* Deleted with it.                                                         *)
SwitchResults(w) ==
  LET st == snap[w].state IN
  CASE st = "Initializing" -> {Outcome("Transition", "FetchingData")}
    [] st = "FetchingData" -> {Outcome("Transition", "Configuring")}
    [] st = "Configuring"  -> {Outcome("Transition", "Ready")}
    [] st = "Deleting"     -> {Outcome("Deleted", st), Outcome("Error", st)}
    [] st \in {"Ready", "Error"} ->
         IF seen[w] THEN {Outcome("Transition", "Deleting")}
         ELSE {Outcome("DoNothing", st)}

(* TestRackStateHandler: Expected, Discovering, Ready Partial and Ready   *)
(* Full each step forward, the last into Maintenance/RackValidation        *)
(* Topology; every other state does nothing.  It never fails.              *)
RackResults(w) ==
  LET st == snap[w].state
      step == [s \in {"Expected", "Discovering", "ReadyPartial", "ReadyFull"} |->
                CASE s = "Expected" -> "Discovering"
                  [] s = "Discovering" -> "ReadyPartial"
                  [] s = "ReadyPartial" -> "ReadyFull"
                  [] s = "ReadyFull" -> "MaintenanceTopology"]
  IN IF st \in DOMAIN step THEN {Outcome("Transition", step[st])}
     ELSE {Outcome("DoNothing", st)}

HandlerResults(w) ==
  IF obj[w] \in Racks THEN RackResults(w) ELSE SwitchResults(w)

(* list_candidate_ids: a rack marked deleted is no longer listed. *)
Candidate(o) == o \in Racks => ~marked[o]

(* Device rows are created in Initializing; a row may also be in Error,  *)
(* the state kept for manual intervention.                                  *)
Init ==
  /\ rows \in {r \in [Objects -> {[FW!NewRow EXCEPT !.state = s] :
                                     s \in {"Initializing", "Error", "Expected"}}] :
                \A o \in Objects : (r[o].state = "Expected") <=> o \in Racks}
  /\ dbOps = [o \in Objects |-> {}]
  /\ lease = [o \in Objects |-> NoOwner]
  /\ pc = [w \in Workers |-> "idle"]
  /\ obj = [w \in Workers |-> NoObject]
  /\ snap = [w \in Workers |-> Absent]
  /\ res = [w \in Workers |-> NoResult]
  /\ batch = [w \in Workers |-> <<>>]
  /\ txn = [w \in Workers |-> NoTxn]
  /\ marked = [o \in Objects |-> FALSE]
  /\ seen = [w \in Workers |-> FALSE]
  /\ crashes = 0

-----------------------------------------------------------------------------
Load(w) ==
  /\ FW!LoadSnapshot(w)
  /\ seen' = [seen EXCEPT ![w] = marked[obj[w]]]
  /\ UNCHANGED <<marked, crashes>>

(* The concrete handler's results, without AnyResult's version guard: the *)
(* switch path has at most four transitions and the rack path four, so a  *)
(* version beyond MaxVersion can only come from a handler that loops.       *)
Handle(w) ==
  /\ pc[w] = "loaded"
  /\ \E r \in HandlerResults(w) : FW!HandleObjectState(w, r)
  /\ UNCHANGED <<marked, seen, crashes>>

(* A handler run that does not fail. *)
HandleOk(w) ==
  /\ pc[w] = "loaded"
  /\ \E r \in HandlerResults(w) : r.kind # "Error" /\ FW!HandleObjectState(w, r)
  /\ UNCHANGED <<marked, seen, crashes>>

Finalize(w) ==
  /\ \/ FW!TakeTransaction(w) \/ FW!BatchApplied(w) \/ FW!Commit(w)
     \/ FW!PersistErrorOutcome(w) \/ FW!ReleaseLease(w)
  /\ UNCHANGED <<marked, seen, crashes>>

Crash(w) ==
  /\ crashes < MaxCrashes
  /\ FW!WorkerRestart(w)
  /\ crashes' = crashes + 1
  /\ UNCHANGED <<marked, seen>>

(* The API marks a device as deleted. *)
MarkDeleted(o) ==
  /\ rows[o] # Absent
  /\ ~marked[o]
  /\ marked' = [marked EXCEPT ![o] = TRUE]
  /\ UNCHANGED <<fwVars, seen, crashes>>

Next ==
  \/ \E w \in Workers, o \in Objects :
       Candidate(o) /\ FW!Acquire(w, o) /\ UNCHANGED <<marked, seen, crashes>>
  \/ \E w \in Workers : Load(w) \/ Handle(w) \/ Finalize(w) \/ Crash(w)
  \/ \E o \in Objects : FW!LeaseExpires(o) /\ UNCHANGED <<marked, seen, crashes>>
  \/ \E o \in Objects : MarkDeleted(o)

(* The framework's fairness, and a database that does not fail for ever  *)
(* on one device: a handler run and a commit for a device that keep being  *)
(* possible eventually succeed.  The controller keeps iterating over every  *)
(* device that exists.                                                        *)
Fairness ==
  /\ \A w \in Workers :
       /\ WF_vars(Load(w)) /\ WF_vars(Handle(w)) /\ WF_vars(Finalize(w))
  /\ \A w \in Workers, o \in Objects :
       /\ SF_vars(obj[w] = o /\ HandleOk(w))
       /\ SF_vars(obj[w] = o /\ FW!CommitSucceeds(w)
                  /\ UNCHANGED <<marked, seen, crashes>>)
  /\ \A o \in Objects :
       SF_vars(\E w \in Workers :
                 Candidate(o) /\ FW!Acquire(w, o) /\ UNCHANGED <<marked, seen, crashes>>)
  /\ \A o \in Objects :
       WF_vars(FW!LeaseExpires(o) /\ UNCHANGED <<marked, seen, crashes>>)

Spec == Init /\ [][Next]_vars /\ Fairness

-----------------------------------------------------------------------------
TypeOK ==
  /\ FW!TypeOK
  /\ marked \in [Objects -> BOOLEAN]
  /\ seen \in [Workers -> BOOLEAN]
  /\ crashes \in 0..MaxCrashes

(* A device row is only ever removed after the API marked it deleted:    *)
(* neither the Ready nor the Error branch moves an unmarked device towards *)
(* Deleting, and Deleting is only entered from them.                        *)
RemovedOnlyWhenMarked ==
  [][\A o \in Objects : (rows[o] # Absent /\ rows'[o] = Absent) => marked[o]]_vars

(* A device marked deleted is eventually removed, from whichever state it *)
(* was in when marked: the provisioning states run to Ready first.          *)
MarkedDeviceRemoved ==
  \A o \in Objects \ Racks : marked[o] ~> rows[o] = Absent
=============================================================================
