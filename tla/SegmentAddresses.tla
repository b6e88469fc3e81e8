--------------------------- MODULE SegmentAddresses ---------------------------
(***************************************************************************)
(* Network segments and the instance addresses allocated in them.          *)
(*                                                                         *)
(* Controller: NetworkSegmentStateHandler::handle_object_state             *)
(*   (src/crates/api/src/state_controller/network_segment/handler.rs):     *)
(*   Provisioning -> Ready -> (marked deleted) DrainAllocatedIps ->         *)
(*   DBDelete -> row removed; the lease of the framework (StateController) *)
(*   makes the handler of one segment sequential, so one controller step   *)
(*   sequence per segment is modelled.                                     *)
(* Allocation: instance_address::allocate (src/crates/api-db/src/          *)
(*   instance_address.rs): reads and validates the segments of all the     *)
(*   instance's interfaces, takes the ACCESS EXCLUSIVE lock on              *)
(*   instance_addresses inside a savepoint, asks the IpAllocator for the    *)
(*   next free address of each interface's segment and inserts the rows;   *)
(*   the caller's transaction commits them and drops the lock.  Any error  *)
(*   rolls the savepoint back: no row and no lock survive it.              *)
(* API view: the TenantState a segment is reported in (TryFrom for        *)
(*   rpc::NetworkSegment, src/crates/api-model/src/network_segment/mod.rs). *)
(*                                                                         *)
(* Time is abstracted to what the handler compares: the ticks left until  *)
(* delete_at, and how long an allocation has been in flight.              *)
(***************************************************************************)
EXTENDS Naturals, FiniteSets, FiniteSetsExt

CONSTANTS
  Segments,      \* tenant (overlay) network segments, one prefix each
  Requests,      \* instances whose network config is being allocated
  PrefixSize,    \* number of addresses in the segment prefix (offsets)
  NumReserved,   \* network_prefix.num_reserved
  DrainPeriod,   \* drain_period of the handler, in ticks
  MaxAllocTicks, \* ticks an allocation can stay between validate and commit
  SegVpc,        \* vpc_id of each segment, or NoVpc
  NoRequest, NoAddr, NoVpc

(* NewNetworkSegment::try_from refuses a tenant segment whose v4 prefix   *)
(* is /31 or /32, that is one of at most two addresses: every segment the *)
(* model allocates from has more.                                          *)
TenantPrefixAccepted(size) == size > 2

ASSUME PrefixSize \in Nat /\ TenantPrefixAccepted(PrefixSize)
ASSUME NumReserved \in Nat
ASSUME DrainPeriod \in Nat /\ MaxAllocTicks \in Nat

VARIABLES
  segState,   \* controller_state of each segment, or "Gone" after final_delete
  marked,     \* deleted timestamp set by the API
  drainLeft,  \* ticks until delete_at of DrainAllocatedIps
  held,       \* pool resources ("vni", "vlan") the segment holds
  ctl,        \* controller's position in the DrainAllocatedIps handler
  counted,    \* allocated IPs the DrainAllocatedIps handler counted
  addrRows,   \* committed instance_addresses rows [req, seg, addr]
  apc,        \* step each allocation request is at
  aseg,       \* segments of the request's interfaces, one interface each
  pending,    \* rows inserted in the savepoint, not yet committed
  age,        \* ticks the allocation has been in flight
  lockHolder, \* holder of the ACCESS EXCLUSIVE lock on instance_addresses
  svi         \* network_prefix.svi_ip of each segment, NoAddr until allocated

vars == <<segState, marked, drainLeft, held, ctl, counted, addrRows,
          apc, aseg, pending, age, lockHolder, svi>>

CtlStates == {"Provisioning", "Ready", "DrainAllocatedIps", "DBDelete", "Gone"}
Offsets == 0..(PrefixSize - 1)
AddrRow == [req: Requests, seg: Segments, addr: Offsets]

RowsOf(s) == {row \in addrRows : row.seg = s}

Init ==
  /\ segState = [s \in Segments |-> "Provisioning"]
  /\ marked = [s \in Segments |-> FALSE]
  /\ drainLeft = [s \in Segments |-> 0]
  /\ held = [s \in Segments |-> {"vni", "vlan"}]
  /\ ctl = [s \in Segments |-> "idle"]
  /\ counted = [s \in Segments |-> 0]
  /\ addrRows = {}
  /\ apc = [r \in Requests |-> "idle"]
  /\ aseg = [r \in Requests |-> {}]
  /\ pending = [r \in Requests |-> {}]
  /\ age = [r \in Requests |-> 0]
  /\ lockHolder = NoRequest
  /\ svi = [s \in Segments |-> NoAddr]

-----------------------------------------------------------------------------
(* IpAllocator (not under src/, spec.md 4.3): the allocation window skips  *)
(* the first num_reserved addresses, the network and the (v4) broadcast    *)
(* address; NextAvailableIp takes the lowest address not in used.          *)
AllocationWindow ==
  {a \in Offsets : a >= NumReserved /\ a # 0 /\ a # PrefixSize - 1}

NextAvailableIp(used) ==
  IF AllocationWindow \ used = {} THEN NoAddr
  ELSE Min(AllocationWindow \ used)

(* UsedOverlayNetworkIpResolver::used_prefixes: the prefixes of the       *)
(* segment's rows; the busy_ips (SVI) are not part of the answer.           *)
UsedPrefixes(s) == {row.addr : row \in RowsOf(s)}

-----------------------------------------------------------------------------
(* The API marks a segment deleted. *)
MarkDeleted(s) ==
  /\ segState[s] # "Gone"
  /\ ~marked[s]
  /\ marked' = [marked EXCEPT ![s] = TRUE]
  /\ UNCHANGED <<segState, drainLeft, held, ctl, counted, addrRows,
                 apc, aseg, pending, age, lockHolder>>

(* Provisioning: transition to Ready. *)
Provision(s) ==
  /\ segState[s] = "Provisioning"
  /\ segState' = [segState EXCEPT ![s] = "Ready"]
  /\ UNCHANGED <<marked, drainLeft, held, ctl, counted, addrRows,
                 apc, aseg, pending, age, lockHolder>>

(* Mutant: delete_at one tick past the drain period. *)
StartDrainLate(s) ==
  /\ segState[s] = "Ready"
  /\ marked[s]
  /\ segState' = [segState EXCEPT ![s] = "DrainAllocatedIps"]
  /\ drainLeft' = [drainLeft EXCEPT ![s] = DrainPeriod + 1]
  /\ UNCHANGED <<marked, held, ctl, counted, addrRows,
                 apc, aseg, pending, age, lockHolder>>

(* Ready and marked deleted: DrainAllocatedIps with delete_at = now + drain. *)
StartDrain(s) ==
  /\ segState[s] = "Ready"
  /\ marked[s]
  /\ segState' = [segState EXCEPT ![s] = "DrainAllocatedIps"]
  /\ drainLeft' = [drainLeft EXCEPT ![s] = DrainPeriod]
  /\ UNCHANGED <<marked, held, ctl, counted, addrRows,
                 apc, aseg, pending, age, lockHolder>>

(* DrainAllocatedIps, first half: in a fresh transaction count the         *)
(* machine interfaces and instance addresses of the segment. The SELECT    *)
(* waits while an allocation holds the ACCESS EXCLUSIVE lock.  The         *)
(* now >= delete_at comparison follows microseconds later; it is taken     *)
(* here, with the count ("countedDue" when delete_at has passed).          *)
DrainCount(s) ==
  /\ segState[s] = "DrainAllocatedIps"
  /\ ctl[s] = "idle"
  /\ lockHolder = NoRequest
  /\ counted' = [counted EXCEPT ![s] = Cardinality(RowsOf(s))]
  /\ ctl' = [ctl EXCEPT ![s] = IF drainLeft[s] = 0 THEN "countedDue" ELSE "counted"]
  /\ UNCHANGED <<segState, marked, drainLeft, held, addrRows,
                 apc, aseg, pending, age, lockHolder>>

(* Mutant: delete_at recomputed from now on every run, also when waiting. *)
DrainDecideRenewing(s) ==
  /\ ctl[s] # "idle"
  /\ \/ /\ counted[s] = 0
        /\ ctl[s] = "countedDue"
        /\ segState' = [segState EXCEPT ![s] = "DBDelete"]
        /\ UNCHANGED drainLeft
     \/ /\ counted[s] > 0 \/ ctl[s] = "counted"
        /\ drainLeft' = [drainLeft EXCEPT ![s] = DrainPeriod]
        /\ UNCHANGED segState
  /\ ctl' = [ctl EXCEPT ![s] = "idle"]
  /\ counted' = [counted EXCEPT ![s] = 0]
  /\ UNCHANGED <<marked, held, addrRows, apc, aseg, pending, age, lockHolder>>

(* DrainAllocatedIps, second half: addresses left -> stay and push         *)
(* delete_at out; none and delete_at reached -> DBDelete; else wait.       *)
DrainDecide(s) ==
  /\ ctl[s] # "idle"
  /\ \/ /\ counted[s] > 0
        /\ drainLeft' = [drainLeft EXCEPT ![s] = DrainPeriod]
        /\ UNCHANGED segState
     \/ /\ counted[s] = 0
        /\ ctl[s] = "countedDue"
        /\ segState' = [segState EXCEPT ![s] = "DBDelete"]
        /\ UNCHANGED drainLeft
     \/ /\ counted[s] = 0
        /\ ctl[s] = "counted"
        /\ UNCHANGED <<segState, drainLeft>>
  /\ ctl' = [ctl EXCEPT ![s] = "idle"]
  /\ counted' = [counted EXCEPT ![s] = 0]
  /\ UNCHANGED <<marked, held, addrRows, apc, aseg, pending, age, lockHolder>>

(* Mutant: the VLAN id is not released on deletion. *)
DBDeleteKeepingVlan(s) ==
  /\ segState[s] = "DBDelete"
  /\ held' = [held EXCEPT ![s] = @ \ {"vni"}]
  /\ segState' = [segState EXCEPT ![s] = "Gone"]
  /\ UNCHANGED <<marked, drainLeft, ctl, counted, addrRows,
                 apc, aseg, pending, age, lockHolder>>

(* DBDelete: release the VNI and the VLAN id to their pools and            *)
(* final_delete the row, all in one transaction; outcome Deleted.           *)
DBDelete(s) ==
  /\ segState[s] = "DBDelete"
  /\ held' = [held EXCEPT ![s] = {}]
  /\ segState' = [segState EXCEPT ![s] = "Gone"]
  /\ UNCHANGED <<marked, drainLeft, ctl, counted, addrRows,
                 apc, aseg, pending, age, lockHolder>>

-----------------------------------------------------------------------------
(* validate, for one segment of the config: one that is marked deleted   *)
(* is rejected; one of an interface that names a VPC prefix skips the     *)
(* Ready check (it is not Ready yet), any other must be Ready.  find_by   *)
(* returns no row for a removed segment (UnknownSegments).                 *)
ValidSegment(s, viaVpcPrefix) ==
  /\ segState[s] # "Gone"
  /\ ~marked[s]
  /\ viaVpcPrefix \/ segState[s] = "Ready"

(* validate, across the segments: each is attached to a VPC, and all of   *)
(* them to the same one.                                                    *)
SingleVpc(S) ==
  /\ \A s \in S : SegVpc[s] # NoVpc
  /\ Cardinality({SegVpc[s] : s \in S}) = 1

(* allocate, up to the lock: the interfaces' segments S (distinct, or     *)
(* find_by returns fewer rows than interfaces and validate fails), those  *)
(* in V named through a VPC prefix; find_by reads them, validate checks   *)
(* each.                                                                    *)
AllocValidate(r, S, V) ==
  /\ apc[r] = "idle"
  /\ \A s \in S : ValidSegment(s, s \in V)
  /\ SingleVpc(S)
  /\ apc' = [apc EXCEPT ![r] = "validated"]
  /\ aseg' = [aseg EXCEPT ![r] = S]
  /\ age' = [age EXCEPT ![r] = 0]
  /\ UNCHANGED <<segState, marked, drainLeft, held, ctl, counted, addrRows,
                 pending, lockHolder>>

(* assign_ips_from(IpAllocator): the address the allocator hands out for  *)
(* the segment's one prefix; an exhausted window is an error (the ? on    *)
(* allocated_prefix).  Segments are distinct, so one interface's insert   *)
(* does not change the used set of another's.                              *)
AssignedRows(r) ==
  {[seg |-> s, addr |-> NextAvailableIp(UsedPrefixes(s))] : s \in aseg[r]}

Exhausted(r) == \E row \in AssignedRows(r) : row.addr = NoAddr

(* A request that is back to idle keeps nothing of the call: its config's *)
(* segments and its time in flight were locals of allocate.                *)
Forget(r) ==
  /\ aseg' = [aseg EXCEPT ![r] = {}]
  /\ age' = [age EXCEPT ![r] = 0]

(* Mutant: allocation without LOCK TABLE. *)
AllocAssignUnlocked(r) ==
  /\ apc[r] = "validated"
  /\ IF Exhausted(r)
       THEN /\ apc' = [apc EXCEPT ![r] = "idle"]
            /\ Forget(r)
            /\ UNCHANGED pending
       ELSE /\ apc' = [apc EXCEPT ![r] = "assigned"]
            /\ pending' = [pending EXCEPT ![r] = AssignedRows(r)]
            /\ UNCHANGED <<aseg, age>>
  /\ UNCHANGED <<segState, marked, drainLeft, held, ctl, counted, addrRows,
                 lockHolder>>

(* Mutant: an exhausted interface fails the call, but the rows of the     *)
(* interfaces that got an address are kept (no savepoint) and the caller  *)
(* commits them.                                                            *)
AllocAssignNoSavepoint(r) ==
  LET got == {row \in AssignedRows(r) : row.addr # NoAddr} IN
  /\ apc[r] = "validated"
  /\ lockHolder = NoRequest
  /\ IF Exhausted(r)
       THEN /\ apc' = [apc EXCEPT ![r] = IF got = {} THEN "idle" ELSE "assigned"]
            /\ pending' = [pending EXCEPT ![r] = got]
            /\ lockHolder' = IF got = {} THEN NoRequest ELSE r
            /\ UNCHANGED <<aseg, age>>
       ELSE /\ apc' = [apc EXCEPT ![r] = "assigned"]
            /\ pending' = [pending EXCEPT ![r] = AssignedRows(r)]
            /\ lockHolder' = r
            /\ UNCHANGED <<aseg, age>>
  /\ UNCHANGED <<segState, marked, drainLeft, held, ctl, counted, addrRows>>

(* LOCK TABLE instance_addresses, then every interface's address is      *)
(* picked from the resolver's used set and its row inserted; an exhausted *)
(* window returns ResourceExhausted, and dropping the inner transaction   *)
(* rolls the savepoint back with the rows and the lock taken in it.       *)
AllocAssign(r) ==
  /\ apc[r] = "validated"
  /\ lockHolder = NoRequest
  /\ IF Exhausted(r)
       THEN /\ apc' = [apc EXCEPT ![r] = "idle"]
            /\ Forget(r)
            /\ UNCHANGED <<pending, lockHolder>>
       ELSE /\ apc' = [apc EXCEPT ![r] = "assigned"]
            /\ pending' = [pending EXCEPT ![r] = AssignedRows(r)]
            /\ lockHolder' = r
            /\ UNCHANGED <<aseg, age>>
  /\ UNCHANGED <<segState, marked, drainLeft, held, ctl, counted, addrRows>>

(* The caller's transaction commits the rows and drops the lock, or       *)
(* fails and rolls them back.                                               *)
AllocFinish(r) ==
  /\ apc[r] = "assigned"
  /\ \/ /\ addrRows' = addrRows \cup
                         {[req |-> r, seg |-> row.seg, addr |-> row.addr] :
                            row \in pending[r]}
        /\ apc' = [apc EXCEPT ![r] = "allocated"]
        /\ age' = [age EXCEPT ![r] = 0]
        /\ UNCHANGED aseg
     \/ /\ UNCHANGED addrRows
        /\ apc' = [apc EXCEPT ![r] = "idle"]
        /\ Forget(r)
  /\ pending' = [pending EXCEPT ![r] = {}]
  /\ lockHolder' = NoRequest
  /\ UNCHANGED <<segState, marked, drainLeft, held, ctl, counted>>

(* Mutant: the controller state alone decides what is reported. *)
TenantStateIgnoringMark(s) ==
  [Provisioning |-> "Provisioning", Ready |-> "Ready",
   DrainAllocatedIps |-> "Terminating", DBDelete |-> "Terminating",
   Gone |-> "Terminating"][segState[s]]

(* TryFrom<NetworkSegment> for rpc::NetworkSegment: the tenant state is   *)
(* read off the controller state (any Deleting is Terminating), and a      *)
(* segment marked deleted is reported Terminating at once, before the      *)
(* controller has caught up.                                                *)
TenantState(s) ==
  IF marked[s] THEN "Terminating"
  ELSE [Provisioning |-> "Provisioning", Ready |-> "Ready",
        DrainAllocatedIps |-> "Terminating", DBDelete |-> "Terminating",
        Gone |-> "Terminating"][segState[s]]

(* allocate_svi_ip: under the table lock, the first address the          *)
(* IpAllocator gives from the used prefixes, with no busy addresses; an    *)
(* empty window is ResourceExhausted and nothing is recorded.  The caller  *)
(* stores it as the prefix's svi_ip and commits.  That caller is not in    *)
(* the repository: the model lets it run once per segment, at any time the *)
(* segment is in service (Provisioning or Ready).                          *)
AllocSvi(s) ==
  LET a == NextAvailableIp(UsedPrefixes(s)) IN
  /\ segState[s] \in {"Provisioning", "Ready"}
  /\ svi[s] = NoAddr
  /\ lockHolder = NoRequest
  /\ a # NoAddr
  /\ svi' = [svi EXCEPT ![s] = a]
  /\ UNCHANGED <<segState, marked, drainLeft, held, ctl, counted, addrRows,
                 apc, aseg, pending, age, lockHolder>>

(* Instance teardown: instance_address::delete under the table lock. *)
ReleaseAddresses(r) ==
  /\ apc[r] = "allocated"
  /\ lockHolder = NoRequest
  /\ addrRows' = {row \in addrRows : row.req # r}
  /\ apc' = [apc EXCEPT ![r] = "idle"]
  /\ Forget(r)
  /\ UNCHANGED <<segState, marked, drainLeft, held, ctl, counted,
                 pending, lockHolder>>

(* Time passes; an allocation in flight finishes within MaxAllocTicks.   *)
(* The count and the now >= delete_at comparison of one handler run are   *)
(* taken together by DrainCount.                                            *)
InFlight == {r \in Requests : apc[r] \in {"validated", "assigned"}}

Tick ==
  /\ \A r \in InFlight : age[r] < MaxAllocTicks
  /\ drainLeft' = [s \in Segments |-> IF drainLeft[s] > 0
                                        THEN drainLeft[s] - 1 ELSE 0]
  /\ age' = [r \in Requests |-> IF r \in InFlight THEN age[r] + 1 ELSE age[r]]
  /\ UNCHANGED <<segState, marked, held, ctl, counted, addrRows,
                 apc, aseg, pending, lockHolder>>

Controller(s) ==
  \/ Provision(s) \/ StartDrain(s) \/ DrainCount(s) \/ DrainDecide(s)
  \/ DBDelete(s)

Allocation(r) ==
  \/ \E S \in SUBSET Segments \ {{}}, V \in SUBSET Segments :
       V \subseteq S /\ AllocValidate(r, S, V)
  \/ AllocAssign(r) \/ AllocFinish(r) \/ ReleaseAddresses(r)

Next ==
  \/ /\ \/ \E s \in Segments : MarkDeleted(s) \/ Controller(s)
        \/ \E r \in Requests : Allocation(r)
        \/ Tick
     /\ UNCHANGED svi
  \/ \E s \in Segments : AllocSvi(s)

(* The controller keeps iterating over each segment, allocations in       *)
(* flight complete, and the clock advances: Tick is only held back for    *)
(* an allocation at its deadline, so it is strongly fair.  A LOCK TABLE    *)
(* that waits is queued by PostgreSQL and granted before any lock request *)
(* made after it, so AllocAssign, disabled only while another request     *)
(* holds the lock, is strongly fair too; so is the drain's count, whose    *)
(* SELECT queues on the same lock.                                          *)
Fairness ==
  /\ \A s \in Segments : /\ WF_vars(Controller(s) /\ UNCHANGED svi)
                         /\ SF_vars(DrainCount(s) /\ UNCHANGED svi)
  /\ \A r \in Requests : /\ SF_vars(AllocAssign(r) /\ UNCHANGED svi)
                         /\ WF_vars(AllocFinish(r) /\ UNCHANGED svi)
  /\ SF_vars(Tick /\ UNCHANGED svi)

Spec == Init /\ [][Next]_vars /\ Fairness

-----------------------------------------------------------------------------
TypeOK ==
  /\ segState \in [Segments -> CtlStates]
  /\ marked \in [Segments -> BOOLEAN]
  /\ drainLeft \in [Segments -> 0..DrainPeriod]
  /\ held \in [Segments -> SUBSET {"vni", "vlan"}]
  /\ ctl \in [Segments -> {"idle", "counted", "countedDue"}]
  /\ counted \in [Segments -> 0..Cardinality(Requests)]
  /\ addrRows \subseteq AddrRow
  /\ apc \in [Requests -> {"idle", "validated", "assigned", "allocated"}]
  /\ aseg \in [Requests -> SUBSET Segments]
  /\ pending \in [Requests -> SUBSET [seg: Segments, addr: Offsets]]
  /\ age \in [Requests -> 0..MaxAllocTicks]
  /\ lockHolder \in Requests \cup {NoRequest}
  /\ svi \in [Segments -> Offsets \cup {NoAddr}]

(* Segment deletion (DrainAllocatedIps, then DBDelete) never leaves       *)
(* anything behind: a removed segment has no instance_addresses rows, no   *)
(* allocation still writing into it, and its VNI and VLAN are back in      *)
(* their pools.  Breaking it takes an allocation that validated the       *)
(* segment before it was marked and inserts after the drain counted zero. *)
DeletionComplete ==
  \A s \in Segments :
    segState[s] = "Gone" =>
      /\ RowsOf(s) = {}
      /\ \A r \in Requests : apc[r] = "assigned" => s \notin aseg[r]
      /\ held[s] = {}

(* P4: two allocations in the same segment never hold the same address,   *)
(* committed or about to commit: the ACCESS EXCLUSIVE lock serialises the  *)
(* read of the used addresses with the insert.                             *)
Holding(r) ==
  IF apc[r] = "assigned" THEN pending[r]
  ELSE {[seg |-> row.seg, addr |-> row.addr] : row \in {x \in addrRows : x.req = r}}

NoDuplicateAddress ==
  \A r1, r2 \in Requests : r1 # r2 => Holding(r1) \cap Holding(r2) = {}

(* I7 / spec.md 4.3: an assigned address is never the segment's SVI      *)
(* address, carried as busy into the allocation, nor reserved, nor network *)
(* or broadcast.                                                            *)
NoBusyAddressAssigned ==
  \A row \in addrRows : row.addr # svi[row.seg] /\ row.addr \in AllocationWindow

(* A segment marked deleted is eventually removed once no instance holds  *)
(* an address in it: no Wait or drain loop of the handler goes on for ever. *)
Quiet(s) == RowsOf(s) = {} /\ \A r \in Requests : s \in aseg[r] => apc[r] = "idle"

MarkedSegmentRemoved ==
  \A s \in Segments : (marked[s] /\ Quiet(s)) ~> (segState[s] = "Gone")

(* An instance's addresses are all or nothing: every request holding      *)
(* committed rows holds exactly one for each interface of its config, in   *)
(* that interface's segment.  One exhausted interface among several fails *)
(* allocate after the others have inserted their rows; only the savepoint *)
(* rollback keeps those rows from being committed by the caller.          *)
AllOrNothing ==
  \A r \in Requests :
    LET mine == {row \in addrRows : row.req = r} IN
    mine # {} =>
      /\ apc[r] = "allocated"
      /\ {row.seg : row \in mine} = aseg[r]
      /\ Cardinality(mine) = Cardinality(aseg[r])

(* The state the API reports agrees with what allocate accepts: a segment *)
(* reported Ready takes any interface, and one reported Terminating takes *)
(* none, not even through a VPC prefix, which skips the Ready check.  The *)
(* handler leaves Ready only after the segment is marked, and the marked   *)
(* check of validate comes before the VPC-prefix exemption.               *)
ReportedStateMatchesValidate ==
  \A s \in Segments :
    segState[s] # "Gone" =>
      /\ TenantState(s) = "Ready" => ValidSegment(s, FALSE)
      /\ TenantState(s) = "Terminating" => ~ValidSegment(s, TRUE)
=============================================================================
