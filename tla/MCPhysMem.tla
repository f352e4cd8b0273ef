------------------------------ MODULE MCPhysMem ------------------------------
(* Two frames of two words, the second of them possibly ROM; a RISC-V and a
   MIPS processor, of which the first also executes from the memory. *)
EXTENDS PhysMem, TLC

MCVal == {0, 1}
CONSTANTS r1, m1
MCHarts == {r1, m1}
MCArch == (r1 :> "rv32") @@ (m1 :> "r4k")
MCHartsM == {m1}
MCArchM == (m1 :> "r4k")
=============================================================================
