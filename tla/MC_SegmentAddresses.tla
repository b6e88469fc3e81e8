------------------------ MODULE MC_SegmentAddresses ------------------------
(* Prefixes of four offsets: network 0, hosts 1-2, broadcast 3.  sa_core   *)
(* reserves the first two (num_reserved 2), leaving host 2 as the one      *)
(* usable address; the svi and slow-allocation runs reserve none.          *)
EXTENDS SegmentAddresses

(* Every segment belongs to the same VPC, so an instance may have          *)
(* interfaces on both.                                                      *)
MCSegVpc == [s \in Segments |-> "vpc1"]
=============================================================================
