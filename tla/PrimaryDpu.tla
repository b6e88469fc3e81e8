------------------------------ MODULE PrimaryDpu ------------------------------
(***************************************************************************)
(* set_primary_dpu (src/crates/api/src/handlers/managed_host.rs): move the *)
(* host's primary interface to the interface of another DPU.  The handler  *)
(* reads the interfaces in a first transaction and rolls it back, sets the *)
(* BMC boot order to the new DPU's MAC with no transaction held, and then  *)
(* swaps the primary flags and bumps the network config versions in a     *)
(* second transaction.  The database keeps at most one primary interface  *)
(* per host ("only one primary" constraint).  Several API calls may run   *)
(* at once; each is one request.                                           *)
(***************************************************************************)
EXTENDS Naturals, FiniteSets

CONSTANTS
  Calls,        \* concurrent set_primary_dpu requests
  Dpus,         \* the host's DPUs
  Ifaces,       \* the host's interfaces
  Attached,     \* Attached[i]: the DPU interface i is attached to, or NoDpu
  Primary0,     \* the primary interface at start
  HasInstance,  \* an instance runs on the host
  ConcurrentModes, \* the values concurrent may take
  DbFailModes,     \* the values dbMayFail may take
  MaxVersion,
  NoDpu, NoIface

VARIABLES
  primary,   \* machine_interfaces.primary_interface
  boot,      \* the DPU the BMC boots from first
  netVer,    \* the host's network_config_version
  instVer,   \* the instance's network_config_version
  pc,        \* per call: "idle", "boot", "write", "done", "failed"
  target,    \* per call: the requested DPU
  cur,       \* per call: current_primary_interface_id as read
  new,       \* per call: new_primary_interface as read
  concurrent, \* may two calls overlap (the API's deployment, fixed)
  dbMayFail   \* may the second transaction fail for other reasons (fixed)

vars == <<primary, boot, netVer, instVer, pc, target, cur, new, concurrent, dbMayFail>>

PrimaryOf(p) == {i \in Ifaces : p[i]}

Init ==
  /\ primary = [i \in Ifaces |-> i = Primary0]
  /\ boot = Attached[Primary0]
  /\ netVer = 0 /\ instVer = 0
  /\ pc = [c \in Calls |-> "idle"]
  /\ target \in [Calls -> Dpus]
  /\ cur = [c \in Calls |-> NoIface]
  /\ new = [c \in Calls |-> NoIface]
  /\ concurrent \in ConcurrentModes
  /\ dbMayFail \in DbFailModes

Busy(c) == \E o \in Calls \ {c} : pc[o] \in {"boot", "write"}

-----------------------------------------------------------------------------
(* Mutant: the scan takes any non-primary interface as the new one. *)
ReadInterfacesAnyIface(c) ==
  /\ pc[c] = "idle"
  /\ concurrent \/ ~Busy(c)
  /\ LET d == target[c]
         P == PrimaryOf(primary)
         N == {i \in Ifaces : ~primary[i]}
     IN IF \/ \E i \in P : Attached[i] \in {NoDpu, d}
           \/ P = {} \/ N = {}
          THEN pc' = [pc EXCEPT ![c] = "failed"]
               /\ UNCHANGED <<cur, new>>
          ELSE /\ cur' = [cur EXCEPT ![c] = CHOOSE i \in P : TRUE]
               /\ new' = [new EXCEPT ![c] = CHOOSE i \in N : TRUE]
               /\ pc' = [pc EXCEPT ![c] = "boot"]
  /\ UNCHANGED <<primary, boot, netVer, instVer, target>>

(* The first transaction: scan the interfaces for the current primary and *)
(* the requested DPU's interface, then read the machine and BMC           *)
(* interface, and roll back.  The scan fails when the primary has no DPU   *)
(* or is already the requested one; the call fails when either interface  *)
(* was not found.                                                          *)
ReadInterfaces(c) ==
  /\ pc[c] = "idle"
  /\ concurrent \/ ~Busy(c)
  /\ LET d == target[c]
         P == PrimaryOf(primary)
         N == {i \in Ifaces : ~primary[i] /\ Attached[i] = d}
     IN IF \/ \E i \in P : Attached[i] \in {NoDpu, d}
           \/ P = {} \/ N = {}
          THEN pc' = [pc EXCEPT ![c] = "failed"]
               /\ UNCHANGED <<cur, new>>
          ELSE /\ cur' = [cur EXCEPT ![c] = CHOOSE i \in P : TRUE]
               /\ new' = [new EXCEPT ![c] = CHOOSE i \in N : TRUE]
               /\ pc' = [pc EXCEPT ![c] = "boot"]
  /\ UNCHANGED <<primary, boot, netVer, instVer, target>>

(* set_boot_order_dpu_first with the new interface's MAC; the BMC call   *)
(* may fail, which fails the request before the database is touched.      *)
SetBootOrder(c) ==
  /\ pc[c] = "boot"
  /\ \/ /\ boot' = Attached[new[c]]
        /\ pc' = [pc EXCEPT ![c] = "write"]
     \/ /\ pc' = [pc EXCEPT ![c] = "failed"]
        /\ UNCHANGED boot
  /\ UNCHANGED <<primary, netVer, instVer, target, cur, new>>

(* Mutant: the new interface set primary before the old one is cleared. *)
SwapPrimaryNewFirst(c) ==
  LET p1 == [primary EXCEPT ![new[c]] = TRUE] IN
  IF Cardinality(PrimaryOf(p1)) > 1 THEN primary
  ELSE [p1 EXCEPT ![cur[c]] = FALSE]

(* set_primary_interface(old, false) then (new, true); a statement that   *)
(* would leave two primaries fails, and with it the transaction.          *)
SwapPrimary(c) ==
  LET p1 == [primary EXCEPT ![cur[c]] = FALSE]
      p2 == [p1 EXCEPT ![new[c]] = TRUE]
  IN IF Cardinality(PrimaryOf(p2)) > 1 THEN primary ELSE p2

(* The second transaction: swap the primary flags, bump the host's and   *)
(* the instance's network config versions, commit.  It fails when the     *)
(* swap hits the constraint, or, with dbMayFail, for any other reason;   *)
(* nothing of it is then kept.                                             *)
WriteInterfaces(c) ==
  /\ pc[c] = "write"
  /\ netVer < MaxVersion
  /\ LET p == SwapPrimary(c)
         ok == p # primary \/ primary[new[c]]
     IN \/ /\ ok
           /\ primary' = p
           /\ netVer' = netVer + 1
           /\ instVer' = IF HasInstance THEN instVer + 1 ELSE instVer
           /\ pc' = [pc EXCEPT ![c] = "done"]
        \/ /\ ~ok \/ dbMayFail
           /\ pc' = [pc EXCEPT ![c] = "failed"]
           /\ UNCHANGED <<primary, netVer, instVer>>
  /\ UNCHANGED <<boot, target, cur, new>>

Next ==
  /\ \E c \in Calls : ReadInterfaces(c) \/ SetBootOrder(c) \/ WriteInterfaces(c)
  /\ UNCHANGED <<concurrent, dbMayFail>>

Spec == Init /\ [][Next]_vars

-----------------------------------------------------------------------------
TypeOK ==
  /\ primary \in [Ifaces -> BOOLEAN]
  /\ boot \in Dpus
  /\ netVer \in 0..MaxVersion /\ instVer \in 0..MaxVersion
  /\ pc \in [Calls -> {"idle", "boot", "write", "done", "failed"}]
  /\ target \in [Calls -> Dpus]
  /\ cur \in [Calls -> Ifaces \cup {NoIface}]
  /\ new \in [Calls -> Ifaces \cup {NoIface}]
  /\ concurrent \in BOOLEAN /\ dbMayFail \in BOOLEAN

(* When no request is between its BMC call and its second transaction,  *)
(* the BMC boots first from the DPU of the primary interface: the boot   *)
(* order written by set_boot_order_dpu_first is the one the database      *)
(* records.                                                                *)
BootMatchesPrimary ==
  (\A c \in Calls : pc[c] # "write") =>
    \A i \in PrimaryOf(primary) : Attached[i] = boot

(* Requests one at a time, against a database that does not fail, keep   *)
(* the boot order and the primary interface in agreement: only an overlap *)
(* or a failure after the BMC call can separate them.                      *)
SequentialBootMatchesPrimary ==
  ~concurrent /\ ~dbMayFail => BootMatchesPrimary
=============================================================================
