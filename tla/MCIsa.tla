-------------------------------- MODULE MCIsa -------------------------------
(* Model of Isa: every 16-bit word of the SH-2E, every value of each field *)
(* by which the R4000 decoder chooses, every opcode and funct3 of RISC-V   *)
(* with the funct7 and rs2 that tell instructions apart and some that do   *)
(* not, and arithmetic on 4-bit words.                                     *)
EXTENDS Isa

MCWords4 == {0, 1, 7, 8, 15}
\* Every value of the first five bytes, the others fixed.
MCBytes8 == {[a \in 0 .. 7 |-> IF a < 5 THEN m[a] ELSE a % 2] : m \in [0 .. 4 -> 0 .. 1]}

MCShWords == 0 .. 65535
Fields(opc, rs, rt, func) == [opcode : opc, rs : rs, rt : rt, func : func]
MCMipsWords ==
    UNION {Fields(0 .. 63 \ {0, 1, 16, 17, 18}, {0}, {0}, {0}),
           Fields({0}, {0}, {0}, 0 .. 63),
           Fields({1}, {0}, 0 .. 31, {0}),
           Fields({16}, {16}, {0}, 0 .. 255),
           Fields({16, 17, 18}, {8}, 0 .. 31, {0}),
           Fields({16, 17, 18}, 0 .. 31, {0}, {0})}
MCRvWords ==
    [opcode : {4 * o + 3 : o \in 0 .. 31}, funct3 : 0 .. 7,
     funct7 : {0, 1, 2, 9, 33, 70} \union {4 * f : f \in 0 .. 31}, rs2 : 0 .. 5]
=============================================================================
