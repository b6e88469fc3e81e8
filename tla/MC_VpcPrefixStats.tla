------------------------- MODULE MC_VpcPrefixStats -------------------------
(* Scaled widths: v4 = 6 bits (linknet /5), v6 = 8 bits (linknet /7),     *)
(* u64 = 4 bits, u32 = 6 bits.                                            *)
EXTENDS VpcPrefixStats

(* A VPC prefix of each interesting shape: v4 holding 4 and 2 linknets,   *)
(* v6 holding exactly 2^OutBits (one past u64::MAX) and more, and a v4    *)
(* host prefix (a /32), which subnets(31) rejects.                         *)
MCVpcPrefixes ==
  {[fam |-> "v4", len |-> 3], [fam |-> "v4", len |-> 4], [fam |-> "v4", len |-> 6],
   [fam |-> "v6", len |-> 2], [fam |-> "v6", len |-> 3]}

(* The same VPC with a prefix of linknet length (a /31). *)
MCVpcPrefixesWithLinknet ==
  MCVpcPrefixes \cup {[fam |-> "v4", len |-> 5]}
=============================================================================
