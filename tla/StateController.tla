--------------------------- MODULE StateController ---------------------------
(***************************************************************************)
(* The generic object state controller (spec.md 4.2) around the handler    *)
(* contract of src/crates/api/src/state_controller/state_handler.rs and    *)
(* the deferred write batch of .../state_controller/db_write_batch.rs.     *)
(*                                                                         *)
(* Worker tasks (of one or several controller processes) lease an object, *)
(* load its row, run the handler, and finalize: adopt the transaction the  *)
(* outcome carries or begin one, write state/outcome, apply the write      *)
(* batch op by op (apply_all short-circuits on the first error), commit.  *)
(* A failed handler or a failed finalize rolls everything back and an     *)
(* Error outcome is recorded.  The lease is released at the end.          *)
(* Workers may crash at any step; a crashed holder's lease expires.       *)
(*                                                                         *)
(* The controller loop and lease store are not under src/: they are       *)
(* modelled from spec.md.  The handler here is any handler the trait      *)
(* admits; NetworkSegmentController composes the concrete one.            *)
(***************************************************************************)
EXTENDS Naturals, Sequences, SequencesExt, FiniteSets

CONSTANTS
  Objects,        \* object ids of one kind
  Workers,        \* handler tasks; a lease owner is a worker
  States,         \* controller states of the kind
  InitState,      \* the state objects are created in
  Ops,            \* deferred write operations (MachineWriteOp variants, ...)
  MaxVersion,     \* bound on controller_state_version
  MaxBatch,       \* bound on the length of one write batch
  LeaseMayLapse,  \* TRUE: a lease may expire while its holder still runs
  NoOwner, NoObject, NoTxn, NoResult, Absent

ASSUME InitState \in States
ASSUME MaxVersion \in Nat /\ MaxBatch \in Nat
ASSUME LeaseMayLapse \in BOOLEAN

VARIABLES
  rows,    \* the object table: a row per object, or Absent once deleted
  dbOps,   \* effects of deferred writes in the database, tagged <<op, version>>
  lease,   \* work-lock table: owner of the lease on each object
  pc,      \* step each worker is at
  obj,     \* object a worker is working on
  snap,    \* row as loaded by the worker
  res,     \* outcome the handler returned
  batch,   \* DbWriteBatch still to apply
  txn      \* open transaction of a worker: buffered writes

fwVars == <<rows, dbOps, lease, pc, obj, snap, res, batch, txn>>

(* Outcome discriminants persisted as controller_state_outcome. *)
OutcomeKinds == {"Wait", "Transition", "DoNothing", "Deleted", "Error"}
Persisted    == {"None", "Wait", "Transition", "DoNothing", "Error"}

Versions == 0..MaxVersion

Row == [state: States, version: Versions, hist: Seq(States),
        outcome: Persisted, verOps: SUBSET Ops]

(* What the handler sees of the row: state and version. *)
Snapshot == [state: States, version: Versions]

(* A handler result: the StateHandlerOutcome variant, its next state, the  *)
(* writes pushed on ctx.pending_db_writes, whether it carries a txn, and   *)
(* whether that txn performed final_delete.                                *)
Result == [kind: OutcomeKinds, next: States, ops: Seq(Ops),
           txn: BOOLEAN, del: BOOLEAN]

Txn == [del: BOOLEAN, ops: SUBSET Ops]

Active == {"leased", "loaded", "handled", "applying", "committing",
           "recordError", "release"}

NewRow == [state |-> InitState, version |-> 0, hist |-> <<>>,
           outcome |-> "None", verOps |-> {}]

Init ==
  /\ rows  = [o \in Objects |-> NewRow]
  /\ dbOps = [o \in Objects |-> {}]
  /\ lease = [o \in Objects |-> NoOwner]
  /\ pc    = [w \in Workers |-> "idle"]
  /\ obj   = [w \in Workers |-> NoObject]
  /\ snap  = [w \in Workers |-> Absent]
  /\ res   = [w \in Workers |-> NoResult]
  /\ batch = [w \in Workers |-> <<>>]
  /\ txn   = [w \in Workers |-> NoTxn]

Goto(w, step) == pc' = [pc EXCEPT ![w] = step]

-----------------------------------------------------------------------------
(* Lease acquisition: try_acquire succeeds on a free lease. *)
Acquire(w, o) ==
  /\ pc[w] = "idle"
  /\ rows[o] # Absent
  /\ lease[o] = NoOwner
  /\ lease' = [lease EXCEPT ![o] = w]
  /\ obj' = [obj EXCEPT ![w] = o]
  /\ Goto(w, "leased")
  /\ UNCHANGED <<rows, dbOps, snap, res, batch, txn>>

(* Load the row through the read-only handle; a vanished row ends the run. *)
LoadSnapshot(w) ==
  /\ pc[w] = "leased"
  /\ snap' = [snap EXCEPT ![w] =
                IF rows[obj[w]] = Absent THEN Absent
                ELSE [state |-> rows[obj[w]].state,
                      version |-> rows[obj[w]].version]]
  /\ Goto(w, IF rows[obj[w]] = Absent THEN "release" ELSE "loaded")
  /\ UNCHANGED <<rows, dbOps, lease, obj, res, batch, txn>>

(* handle_object_state returns r; pushes to the DbWriteBatch are r.ops. *)
HandleObjectState(w, r) ==
  /\ pc[w] = "loaded"
  /\ res' = [res EXCEPT ![w] = r]
  /\ batch' = [batch EXCEPT ![w] = IF r.kind = "Error" THEN <<>> ELSE r.ops]
  /\ Goto(w, "handled")
  /\ UNCHANGED <<rows, dbOps, lease, obj, snap, txn>>

(* The results a handler returns for a loaded row.  The trait would admit *)
(* a bare deleted(), but every handler in the repository (network segment, *)
(* switch, power shelf) returns deleted().with_txn(txn) on the txn that    *)
(* ran final_delete, so Deleted carries its txn.  A Transition needs room  *)
(* below the model's MaxVersion bound.                                      *)
AnyResult(w) ==
  { r \in [kind: OutcomeKinds, next: States, ops: BoundedSeq(Ops, MaxBatch),
           txn: BOOLEAN, del: BOOLEAN] :
      /\ r.del = (r.kind = "Deleted")
      /\ r.kind = "Deleted" => r.txn
      /\ r.kind = "Transition" => snap[w].version < MaxVersion
      /\ r.kind # "Transition" => r.next = snap[w].state }

(* Finalize: take_transaction() or begin one. A failed handler discards   *)
(* its write batch and its attached transaction.                           *)
TakeTransaction(w) ==
  /\ pc[w] = "handled"
  /\ IF res[w].kind = "Error"
       THEN /\ txn' = [txn EXCEPT ![w] = NoTxn]
            /\ Goto(w, "recordError")
       ELSE /\ txn' = [txn EXCEPT ![w] = [del |-> res[w].del, ops |-> {}]]
            /\ Goto(w, "applying")
  /\ UNCHANGED <<rows, dbOps, lease, obj, snap, res, batch>>

(* Mutant: a WriteOp applied on a pool connection instead of the txn. *)
ApplyWriteOpOutsideTxn(w) ==
  /\ pc[w] = "applying"
  /\ batch[w] # <<>>
  /\ \/ /\ txn' = [txn EXCEPT ![w].ops = @ \cup {Head(batch[w])}]
        /\ batch' = [batch EXCEPT ![w] = Tail(@)]
        /\ dbOps' = [dbOps EXCEPT ![obj[w]] =
                       @ \cup {<<Head(batch[w]), rows[obj[w]].version>>}]
        /\ UNCHANGED pc
     \/ /\ txn' = [txn EXCEPT ![w] = NoTxn]
        /\ batch' = [batch EXCEPT ![w] = <<>>]
        /\ Goto(w, "recordError")
        /\ UNCHANGED dbOps
  /\ UNCHANGED <<rows, lease, obj, snap, res>>

(* DbWriteBatch::apply_all: one WriteOp::apply per step, in push order;   *)
(* the first error aborts the whole unit.                                  *)
ApplyWriteOp(w) ==
  /\ pc[w] = "applying"
  /\ batch[w] # <<>>
  /\ \/ /\ txn' = [txn EXCEPT ![w].ops = @ \cup {Head(batch[w])}]
        /\ batch' = [batch EXCEPT ![w] = Tail(@)]
        /\ UNCHANGED pc
     \/ /\ txn' = [txn EXCEPT ![w] = NoTxn]
        /\ batch' = [batch EXCEPT ![w] = <<>>]
        /\ Goto(w, "recordError")
  /\ UNCHANGED <<rows, dbOps, lease, obj, snap, res>>

BatchApplied(w) ==
  /\ pc[w] = "applying"
  /\ batch[w] = <<>>
  /\ Goto(w, "committing")
  /\ UNCHANGED <<rows, dbOps, lease, obj, snap, res, batch, txn>>

(* Mutant: persist_transition without the history insert. *)
FinalizedWithoutHistory(w, row) ==
  LET r == res[w] IN
  IF r.kind = "Transition"
    THEN [row EXCEPT !.state = r.next, !.version = snap[w].version + 1,
                     !.outcome = "Transition", !.verOps = txn[w].ops]
    ELSE [row EXCEPT !.outcome = r.kind, !.verOps = @ \cup txn[w].ops]

(* The row the finalize writes: Transition persists the new state, the    *)
(* version following the loaded one and a history entry; Wait and         *)
(* DoNothing persist the outcome only.                                     *)
Finalized(w, row) ==
  LET r == res[w] IN
  IF r.kind = "Transition"
    THEN [row EXCEPT !.state = r.next, !.version = snap[w].version + 1,
                     !.hist = Append(@, r.next), !.outcome = "Transition",
                     !.verOps = txn[w].ops]
    ELSE [row EXCEPT !.outcome = r.kind, !.verOps = @ \cup txn[w].ops]

(* Mutant: the Deleted outcome written to the row like the others. *)
CommitPersistingDeleted(w) ==
  LET o == obj[w] IN
  /\ pc[w] = "committing"
  /\ rows[o] # Absent
  /\ rows' = [rows EXCEPT ![o].outcome = res[w].kind]
  /\ dbOps' = [dbOps EXCEPT ![o] = @ \cup (txn[w].ops \X {rows[o].version})]
  /\ Goto(w, "release")
  /\ txn' = [txn EXCEPT ![w] = NoTxn]
  /\ UNCHANGED <<lease, obj, snap, res, batch>>

(* Commit of the finalize transaction: the row is removed (Deleted) or   *)
(* written with the finalized state and the batch's writes.                *)
CommitSucceeds(w) ==
  LET o == obj[w] IN
  /\ pc[w] = "committing"
  /\ \/ /\ txn[w].del
        /\ rows' = [rows EXCEPT ![o] = Absent]
        /\ dbOps' = [dbOps EXCEPT ![o] = {}]
     \/ /\ ~txn[w].del
        /\ rows[o] # Absent
        /\ rows' = [rows EXCEPT ![o] = Finalized(w, @)]
        /\ dbOps' = [dbOps EXCEPT ![o] =
                       @ \cup (txn[w].ops \X {rows'[o].version})]
  /\ Goto(w, "release")
  /\ txn' = [txn EXCEPT ![w] = NoTxn]
  /\ UNCHANGED <<lease, obj, snap, res, batch>>

(* The commit fails and everything in the transaction is rolled back. *)
CommitFails(w) ==
  /\ pc[w] = "committing"
  /\ Goto(w, "recordError")
  /\ txn' = [txn EXCEPT ![w] = NoTxn]
  /\ UNCHANGED <<rows, dbOps, lease, obj, snap, res, batch>>

Commit(w) == CommitSucceeds(w) \/ CommitFails(w)

(* PersistentStateHandlerOutcome::from_result(Err): the Error outcome is  *)
(* written in a transaction of its own, which may itself fail.             *)
PersistErrorOutcome(w) ==
  LET o == obj[w] IN
  /\ pc[w] = "recordError"
  /\ \/ /\ rows[o] # Absent
        /\ rows' = [rows EXCEPT ![o].outcome = "Error"]
     \/ UNCHANGED rows
  /\ Goto(w, "release")
  /\ UNCHANGED <<dbOps, lease, obj, snap, res, batch, txn>>

(* release(kind, id, owner) only removes the caller's own lease. *)
ReleaseLease(w) ==
  LET o == obj[w] IN
  /\ pc[w] = "release"
  /\ lease' = IF lease[o] = w THEN [lease EXCEPT ![o] = NoOwner] ELSE lease
  /\ obj' = [obj EXCEPT ![w] = NoObject]
  /\ snap' = [snap EXCEPT ![w] = Absent]
  /\ res' = [res EXCEPT ![w] = NoResult]
  /\ Goto(w, "idle")
  /\ UNCHANGED <<rows, dbOps, batch, txn>>

(* A worker's process dies: its open transaction is rolled back by the    *)
(* database; the lease it holds stays until it expires.                    *)
WorkerRestart(w) ==
  /\ pc[w] # "idle"
  /\ pc' = [pc EXCEPT ![w] = "idle"]
  /\ obj' = [obj EXCEPT ![w] = NoObject]
  /\ snap' = [snap EXCEPT ![w] = Absent]
  /\ res' = [res EXCEPT ![w] = NoResult]
  /\ batch' = [batch EXCEPT ![w] = <<>>]
  /\ txn' = [txn EXCEPT ![w] = NoTxn]
  /\ UNCHANGED <<rows, dbOps, lease>>

(* Mutant: a lease store without expiry. *)
LeaseNeverExpires(o) ==
  /\ lease[o] # NoOwner
  /\ LeaseMayLapse
  /\ lease' = [lease EXCEPT ![o] = NoOwner]
  /\ UNCHANGED <<rows, dbOps, pc, obj, snap, res, batch, txn>>

(* The lease's expiry passes (reclaim_expired). Without LeaseMayLapse     *)
(* this only happens to leases whose holder no longer works on the object. *)
LeaseExpires(o) ==
  /\ lease[o] # NoOwner
  /\ LeaseMayLapse \/ obj[lease[o]] # o
  /\ lease' = [lease EXCEPT ![o] = NoOwner]
  /\ UNCHANGED <<rows, dbOps, pc, obj, snap, res, batch, txn>>

(* The handler runs on a loaded row and returns one of the results above. *)
Handle(w) ==
  /\ pc[w] = "loaded"
  /\ \E r \in AnyResult(w) : HandleObjectState(w, r)

-----------------------------------------------------------------------------
(* Every step of a worker past lease acquisition. *)
WorkerStep(w) ==
  \/ LoadSnapshot(w)
  \/ TakeTransaction(w)
  \/ ApplyWriteOp(w)
  \/ BatchApplied(w)
  \/ Commit(w)
  \/ PersistErrorOutcome(w)
  \/ ReleaseLease(w)

Next ==
  \/ \E w \in Workers, o \in Objects : Acquire(w, o)
  \/ \E w \in Workers : WorkerStep(w)
  \/ \E w \in Workers : Handle(w)
  \/ \E w \in Workers : WorkerRestart(w)
  \/ \E o \in Objects : LeaseExpires(o)

(* Tasks of the cooperative runtime keep being polled, and a lease's TTL  *)
(* keeps running out; crashes need no fairness.                            *)
Fairness ==
  /\ \A w \in Workers : WF_fwVars(WorkerStep(w))
  /\ \A w \in Workers : WF_fwVars(Handle(w))
  /\ \A o \in Objects : WF_fwVars(LeaseExpires(o))

Spec == Init /\ [][Next]_fwVars /\ Fairness

-----------------------------------------------------------------------------
TypeOK ==
  /\ rows \in [Objects -> Row \cup {Absent}]
  /\ dbOps \in [Objects -> SUBSET (Ops \X Versions)]
  /\ lease \in [Objects -> Workers \cup {NoOwner}]
  /\ pc \in [Workers -> Active \cup {"idle"}]
  /\ obj \in [Workers -> Objects \cup {NoObject}]
  /\ snap \in [Workers -> Snapshot \cup {Absent}]
  /\ res \in [Workers -> Result \cup {NoResult}]
  /\ batch \in [Workers -> Seq(Ops)]
  /\ txn \in [Workers -> Txn \cup {NoTxn}]

(* I4/P3: the deferred writes of a finalize land with its state write or  *)
(* not at all: the writes visible at the row's current version are exactly *)
(* those of the finalizes committed at that version.                       *)
AtomicFinalize ==
  \A o \in Objects :
    rows[o] # Absent =>
      {op \in Ops : <<op, rows[o].version>> \in dbOps[o]} = rows[o].verOps

(* I2: the history holds one entry per state version, the newest equal to *)
(* the persisted state: no transition is persisted twice or lost.          *)
HistoryMatchesState ==
  \A o \in Objects :
    rows[o] # Absent =>
      /\ Len(rows[o].hist) = rows[o].version
      /\ rows[o].hist # <<>> => Last(rows[o].hist) = rows[o].state

(* Every lease is eventually released again, whether its holder finishes  *)
(* or crashes: no object is locked out of reconciliation for good.          *)
LeaseEventuallyFree ==
  \A o \in Objects : (lease[o] # NoOwner) ~> (lease[o] = NoOwner)
=============================================================================
