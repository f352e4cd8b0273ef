------------------------------ MODULE MCDDisk ------------------------------
(* The disk of DDisk on small instances. *)
EXTENDS DDisk

(* Words hold 0 or 1; absent memory reads as all ones. *)
MCVal == {0, 1}

(* One file whose words all differ from their neighbours. *)
MCFiles == {[s \in 0 .. MaxSectors - 1 |-> [w \in 0 .. SectorWords - 1 |-> (s + w) % 2]]}
=============================================================================
