------------------------------ MODULE MC_PrimaryDpu ------------------------------
EXTENDS PrimaryDpu

(* A host interface with no DPU and one interface per DPU. *)
MCDpus == {"d1", "d2", "d3"}

MCAttached == [i \in {"i0", "i1", "i2", "i3"} |->
                 CASE i = "i1" -> "d1" [] i = "i2" -> "d2" [] i = "i3" -> "d3"
                   [] OTHER -> NoDpu]
=============================================================================
