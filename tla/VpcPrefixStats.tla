---------------------------- MODULE VpcPrefixStats ----------------------------
(***************************************************************************)
(* Linknet statistics of VPC prefixes, computed on every read by           *)
(* update_stats (src/crates/api-db/src/vpc_prefix.rs) from the number of    *)
(* network prefixes contained in each VPC prefix, and the rows of one VPC  *)
(* as persist and delete change them.                                      *)
(*                                                                         *)
(* A shape [fam, len] stands for one VPC prefix of that family and length *)
(* at its own addresses, so two shapes never overlap.                      *)
(*                                                                         *)
(* Widths are scaled down so that TLC reaches every edge: an IPv4 address  *)
(* has V4Bits bits (32 in the code), an IPv6 one V6Bits (128), the linknet *)
(* length is one less (/31, /127), u64 outputs have OutBits bits and the   *)
(* legacy u32 counters LegacyBits bits.  The relations the code relies on  *)
(* are kept: V6Bits - 1 - OutBits > 0 (a /48 overflows u64) and a v4       *)
(* subnet count fits the legacy width (2^31 < 2^32).                      *)
(***************************************************************************)
EXTENDS Naturals, FiniteSets

CONSTANTS
  V4Bits, V6Bits, OutBits, LegacyBits,
  VpcPrefixes,   \* the VPC's prefixes: records [fam, len]
  MaxUsed,       \* bound on contained network prefixes per VPC prefix
  NoRead, ReadErr

ASSUME OutBits < V6Bits - 1 /\ V4Bits <= LegacyBits

Bits(fam) == IF fam = "v4" THEN V4Bits ELSE V6Bits
U64Max == 2^OutBits - 1

(* 31 for IPv4 (RFC 3021), 127 for IPv6 (RFC 6164). *)
LinknetPrefix(p) == Bits(p.fam) - 1

(* Sub-prefixes a prefix can contain without overlap at linknet size or   *)
(* wider: the prefix itself when it is a linknet or longer.                *)
MaxContained(p) ==
  LET n == IF p.len < LinknetPrefix(p) THEN 2^(LinknetPrefix(p) - p.len) ELSE 1
  IN IF n < MaxUsed THEN n ELSE MaxUsed

(* ipnet's subnets(new_len): the /new_len subnets of net/len, low first;   *)
(* an error when new_len is shorter than len.                              *)
RECURSIVE Subnets(_, _, _)
Subnets(net, len, newLen) ==
  IF len = newLen THEN {net}
  ELSE Subnets(2 * net, len + 1, newLen) \cup Subnets(2 * net + 1, len + 1, newLen)

SubnetsOk(p) == p.fam = "v4" /\ LinknetPrefix(p) >= p.len

(* The status fields: u32 legacy counters, u64 linknet counters. *)
Status == [total31: 0..(2^LegacyBits - 1), avail31: 0..(2^LegacyBits - 1),
           totalLn: 0..(2^OutBits - 1), availLn: 0..(2^OutBits - 1)]

(* VpcPrefix.status as loaded from the row, before update_stats. *)
ZeroStatus == [total31 |-> 0, avail31 |-> 0, totalLn |-> 0, availLn |-> 0]

VARIABLES
  used,     \* containing_prefixes: network prefixes inside each VPC prefix
  rows,     \* network_vpc_prefixes rows of the VPC
  lastRead  \* outcome of a find_by_vpc in the last step: statuses, or ReadErr

vars == <<used, rows, lastRead>>

-----------------------------------------------------------------------------
(* Mutant: the /30 subnets enumerated instead of the /31 ones. *)
LegacyStatsOf30(p, st) ==
  LET total == Cardinality(Subnets(0, p.len, LinknetPrefix(p) - 1)) % 2^LegacyBits
  IN [st EXCEPT !.total31 = total,
                !.avail31 = (total - used[p]) % 2^LegacyBits]

(* Mutant: the u64::MAX cap taken only from shift > 64 on. *)
LinknetStatsCapLate(p, st) ==
  LET shift == LinknetPrefix(p) - p.len
      total == IF shift > OutBits THEN U64Max ELSE 2^shift
  IN IF LinknetPrefix(p) > p.len
       THEN [st EXCEPT !.totalLn = total,
                       !.availLn = IF total >= used[p] THEN total - used[p] ELSE 0]
       ELSE st

(* Mutant: available set to the total, used_count left out. *)
LinknetStatsIgnoringUsed(p, st) ==
  LET shift == LinknetPrefix(p) - p.len
      total == IF shift >= OutBits THEN U64Max ELSE 2^shift
  IN IF LinknetPrefix(p) > p.len
       THEN [st EXCEPT !.totalLn = total, !.availLn = total]
       ELSE st

(* Legacy IPv4 stats, for a prefix with an entry in containing_prefixes:  *)
(* enumerate the /31 subnets, store their number as u32 and subtract the  *)
(* number of used prefixes (u32 arithmetic).                               *)
LegacyStats(p, st) ==
  LET total == Cardinality(Subnets(0, p.len, LinknetPrefix(p))) % 2^LegacyBits
  IN [st EXCEPT !.total31 = total,
                !.avail31 = (total - used[p]) % 2^LegacyBits]

(* Family-aware linknet stats: 2^(linknet - L) capped at u64::MAX,        *)
(* available saturating at zero; nothing is set when L >= linknet.         *)
LinknetStats(p, st) ==
  LET shift == LinknetPrefix(p) - p.len
      total == IF shift >= OutBits THEN U64Max ELSE 2^shift
  IN IF LinknetPrefix(p) > p.len
       THEN [st EXCEPT !.totalLn = total,
                       !.availLn = IF total >= used[p] THEN total - used[p] ELSE 0]
       ELSE st

HasEntry(p) == used[p] > 0

UpdateStatsFails ==
  \E p \in rows : p.fam = "v4" /\ HasEntry(p) /\ ~SubnetsOk(p)

UpdateStats(p) ==
  LET st == IF p.fam = "v4" /\ HasEntry(p) THEN LegacyStats(p, ZeroStatus)
            ELSE ZeroStatus
  IN LinknetStats(p, st)

-----------------------------------------------------------------------------
(* A VPC with any of the prefixes. *)
Init ==
  /\ used = [p \in VpcPrefixes |-> 0]
  /\ rows \in SUBSET VpcPrefixes
  /\ lastRead = NoRead

(* A network segment prefix inside the VPC prefix is created or deleted. *)
AddContained(p) ==
  /\ used[p] < MaxContained(p)
  /\ used' = [used EXCEPT ![p] = @ + 1]
  /\ lastRead' = NoRead
  /\ UNCHANGED rows

RemoveContained(p) ==
  /\ used[p] > 0
  /\ used' = [used EXCEPT ![p] = @ - 1]
  /\ lastRead' = NoRead
  /\ UNCHANGED rows

(* find_by_vpc / get_by_id: the rows, then update_stats over all of them; *)
(* one failing prefix fails the whole read.                                *)
FindByVpc ==
  /\ lastRead' = IF UpdateStatsFails THEN ReadErr
                 ELSE [p \in rows |-> UpdateStats(p)]
  /\ UNCHANGED <<used, rows>>

(* persist: INSERT ... RETURNING *, then increment_vpc_version, in the    *)
(* caller's transaction; the VPC's version is read nowhere in the         *)
(* repository and is left out.  An insert that fails changes nothing.      *)
Persist(p) ==
  /\ p \notin rows
  /\ rows' = rows \cup {p}

(* delete: DELETE ... RETURNING * (fetch_one fails when the row is gone), *)
(* then increment_vpc_version of the deleted row's VPC.                    *)
Delete(p) ==
  /\ p \in rows
  /\ rows' = rows \ {p}

Next ==
  \/ \E p \in VpcPrefixes : AddContained(p) \/ RemoveContained(p)
  \/ FindByVpc
  \/ \E p \in VpcPrefixes :
       /\ Persist(p) \/ Delete(p)
       /\ lastRead' = NoRead
       /\ UNCHANGED used

Spec == Init /\ [][Next]_vars

-----------------------------------------------------------------------------
TypeOK ==
  /\ used \in [VpcPrefixes -> 0..MaxUsed]
  /\ rows \subseteq VpcPrefixes
  /\ \/ lastRead \in {NoRead, ReadErr}
     \/ /\ DOMAIN lastRead \subseteq VpcPrefixes
        /\ \A p \in DOMAIN lastRead : lastRead[p] \in Status

(* P6 (reference): a VPC prefix of length L holds 2^(P - L) linknets of   *)
(* length P, reported saturated at u64::MAX, and available = total - used. *)
RefTotal(p) ==
  IF p.len > LinknetPrefix(p) THEN 0
  ELSE IF 2^(LinknetPrefix(p) - p.len) > U64Max THEN U64Max
  ELSE 2^(LinknetPrefix(p) - p.len)

(* After every successful read, the linknet stats of every VPC prefix are *)
(* the P6 values for the contained prefixes counted at that read.          *)
LinknetStatsMatchReference ==
  [][(used' = used /\ lastRead' \notin {NoRead, ReadErr}) =>
       \A p \in DOMAIN lastRead' :
         /\ lastRead'[p].totalLn = RefTotal(p)
         /\ lastRead'[p].availLn = RefTotal(p) - used[p]]_vars

(* The legacy IPv4 counters, computed by enumeration, agree with the     *)
(* arithmetic linknet counters whenever the legacy ones are set.           *)
LegacyAgreesWithLinknet ==
  [][(used' = used /\ lastRead' \notin {NoRead, ReadErr}) =>
       \A p \in DOMAIN lastRead' :
         (p.fam = "v4" /\ used[p] > 0 /\ p.len < LinknetPrefix(p)) =>
           /\ lastRead'[p].total31 = lastRead'[p].totalLn
           /\ lastRead'[p].avail31 = lastRead'[p].availLn]_vars
=============================================================================
