----------------------------- MODULE MCIrqLines -----------------------------
(* Two keyboards and a dorder device on two of three addressable processors:
   on bits of their own, on a bit that the R4000 timer or the software
   interrupts use too, on one RISC-V line, and on a number the R4000 refuses. *)
EXTENDS IrqLines, TLC

CONSTANTS k1, k2, a
Board(kind0, kind1, no1, no2, order) ==
    [kind |-> (0 :> kind0) @@ (1 :> kind1), intno |-> (k1 :> no1) @@ (k2 :> no2),
     order |-> order]
MCBoards == {Board("r4k", "rv", 2, 4, 5), Board("r4k", "r4k", 7, 1, 4),
             Board("r4k", "rv", 2, 8, 3), Board("rv", "r4k", 3, 9, 11),
             Board("rv", "rv", 2, 4, 1)}
=============================================================================
