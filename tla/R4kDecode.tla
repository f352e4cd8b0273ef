------------------------------- MODULE R4kDecode -------------------------------
(***************************************************************************)
(* The MIPS R4000 instruction decoder (mips_r4000/cpu.c): the tables from  *)
(* which decode picks the routine that executes an instruction, the        *)
(* tables from which decode_mnemonics picks the one that prints it, and    *)
(* the two searches.  An instruction word is a record of its fields; a     *)
(* routine is its name (instr_add and mnemonics_add are both "add").       *)
(***************************************************************************)
EXTENDS Naturals, TLC

(* A table of n slots, dflt in every slot the entries leave out. *)
Table(n, dflt, entries) == entries @@ [k \in 0 .. n - 1 |-> dflt]

(* Consecutive entries from slot k on. *)
From(k, names) == [j \in {k + i - 1 : i \in DOMAIN names} |-> names[j - k + 1]]

opcode_map == Table(64, "_reserved",
    From(2, <<"j", "jal", "beq", "bne", "blez", "bgtz", "addi", "addiu", "slti", "sltiu",
              "andi", "ori", "xori", "lui">>) @@
    From(20, <<"beql", "bnel", "blezl", "bgtzl", "daddi", "daddiu", "ldl", "ldr">>) @@
    From(32, <<"lb", "lh", "lwl", "lw", "lbu", "lhu", "lwr", "lwu", "sb", "sh", "swl", "sw",
               "sdl", "sdr", "swr", "cache", "ll", "lwc1", "lwc2">>) @@
    From(52, <<"lld", "ldc1", "ldc2", "ld", "sc", "swc1", "swc2">>) @@
    From(60, <<"scd", "sdc1", "sdc2", "sd">>))

func_map == Table(64, "_reserved",
    0 :> "sll" @@ From(2, <<"srl", "sra", "sllv">>) @@ From(6, <<"srlv", "srav", "jr", "jalr">>) @@
    From(12, <<"syscall", "break", "_xcrd", "sync", "mfhi", "mthi", "mflo", "mtlo", "dsllv">>) @@
    From(22, <<"dsrlv", "dsrav", "mult", "multu", "div", "divu", "dmult", "dmultu", "ddiv", "ddivu",
               "add", "addu", "sub", "subu", "and", "or", "xor", "nor", "_xhlt", "_xint",
               "slt", "sltu", "dadd", "daddu", "dsub", "dsubu", "tge", "tgeu", "tlt", "tltu",
               "teq", "_xval", "tne", "_xrd", "dsll", "_xtrc", "dsrl", "dsra", "dsll32", "_xtr0",
               "dsrl32", "dsra32">>))

rt_map == Table(32, "_reserved",
    From(0, <<"bltz", "bgez", "bltzl", "bgezl">>) @@
    From(8, <<"tgei", "tgeiu", "tlti", "tltiu", "teqi">>) @@ 14 :> "tnei" @@
    From(16, <<"bltzal", "bgezal", "bltzall", "bgezall">>))

cop0_rs_map == Table(32, "_reserved", From(0, <<"mfc0", "dmfc0">>) @@ From(4, <<"mtc0", "dmtc0">>))
cop1_rs_map == Table(32, "_reserved",
    From(0, <<"mfc1", "dmfc1", "cfc1">>) @@ From(4, <<"mtc1", "dmtc1", "ctc1">>))
cop2_rs_map == Table(32, "_reserved", 0 :> "mfc2" @@ 2 :> "cfc2" @@ 6 :> "ctc2")
cop0_rt_map == Table(32, "_reserved", From(0, <<"bc0f", "bc0t", "bc0fl", "bc0tl">>))
cop1_rt_map == Table(32, "_reserved", From(0, <<"bc1f", "bc1t", "bc1fl", "bc1tl">>))
cop2_rt_map == Table(32, "_reserved", From(0, <<"bc2f", "bc2t", "bc2fl", "bc2tl">>))

(* Unused CP0 functions only warn, except the former RFE (16). *)
cop0_func_map == Table(64, "_warning",
    From(1, <<"tlbr", "tlbwi">>) @@ 6 :> "tlbwr" @@ 8 :> "tlbp" @@ 16 :> "_reserved" @@ 24 :> "eret")

-----------------------------------------------------------------------------
(* The tables of the disassembler. *)
mnemonics_opcode_map == Table(64, "_reserved",
    From(2, <<"j", "jal", "beq", "bne", "blez", "bgtz", "addi", "addiu", "slti", "sltiu",
              "andi", "ori", "xori", "lui">>) @@
    From(20, <<"beql", "bnel", "blezl", "bgtzl", "daddi", "daddiu", "ldl", "ldr">>) @@
    From(32, <<"lb", "lh", "lwl", "lw", "lbu", "lhu", "lwr", "lwu", "sb", "sh", "swl", "sw",
               "sdl", "sdr", "swr", "cache", "ll", "lwc1", "lwc2">>) @@
    From(52, <<"lld", "ldc1", "ldc2", "ld", "sc", "swc1", "swc2">>) @@
    From(60, <<"scd", "sdc1", "sdc2", "sd">>))

mnemonics_func_map == Table(64, "_reserved",
    0 :> "sll" @@ From(2, <<"srl", "sra", "sllv">>) @@ From(6, <<"srlv", "srav", "jr", "jalr">>) @@
    From(12, <<"syscall", "break", "_xcrd", "sync", "mfhi", "mthi", "mflo", "mtlo", "dsllv">>) @@
    From(22, <<"dsrlv", "dsrav", "mult", "multu", "div", "divu", "dmult", "dmultu", "ddiv", "ddivu",
               "add", "addu", "sub", "subu", "and", "or", "xor", "nor", "_xhlt", "_xint",
               "slt", "sltu", "dadd", "daddu", "dsub", "dsubu", "tge", "tgeu", "tlt", "tltu",
               "teq", "_xval", "tne", "_xrd", "dsll", "_xtrc", "dsrl", "dsra", "dsll32", "_xtr0",
               "dsrl32", "dsra32">>))

mnemonics_rt_map == Table(32, "_reserved",
    From(0, <<"bltz", "bgez", "bltzl", "bgezl">>) @@
    From(8, <<"tgei", "tgeiu", "tlti", "tltiu", "teqi">>) @@ 14 :> "tnei" @@
    From(16, <<"bltzal", "bgezal", "bltzall", "bgezall">>))

mnemonics_cop0_rs_map == Table(32, "_reserved",
    From(0, <<"mfc0", "dmfc0">>) @@ From(4, <<"mtc0", "dmtc0">>))
mnemonics_cop1_rs_map == Table(32, "_reserved",
    From(0, <<"mfc1", "dmfc1", "cfc1">>) @@ From(4, <<"mtc1", "dmtc1", "ctc1">>))
mnemonics_cop2_rs_map == Table(32, "_reserved", 0 :> "mfc2" @@ 2 :> "cfc2" @@ 6 :> "ctc2")
mnemonics_cop0_rt_map == Table(32, "_reserved", From(0, <<"bc0f", "bc0t", "bc0fl", "bc0tl">>))
mnemonics_cop1_rt_map == Table(32, "_reserved", From(0, <<"bc1f", "bc1t", "bc1fl", "bc1tl">>))
mnemonics_cop2_rt_map == Table(32, "_reserved", From(0, <<"bc2f", "bc2t", "bc2fl", "bc2tl">>))
mnemonics_cop0_func_map == Table(64, "_reserved",
    From(1, <<"tlbr", "tlbwi">>) @@ 6 :> "tlbwr" @@ 8 :> "tlbp" @@ 24 :> "eret")

-----------------------------------------------------------------------------
SPECIAL == 0
REGIMM == 1
COP0 == 16
COP1 == 17
COP2 == 18
BC == 8
CO == 16

(* instr.r.func is 6 bits wide and instr.cop.func 8, over the same bits.   *)
(* Both CP0 function tables have 64 slots: an index past them is undefined *)
(* behaviour, and the result is then whatever lies behind the table.       *)
Undefined == "undefined"
CopFunc(table, instr) == IF instr.func \in DOMAIN table THEN table[instr.func] ELSE Undefined

decode(instr) ==
    CASE instr.opcode = SPECIAL -> func_map[instr.func % 64]
      [] instr.opcode = REGIMM -> rt_map[instr.rt]
      [] instr.opcode = COP0 -> CASE instr.rs = BC -> cop0_rt_map[instr.rt]
                                  [] instr.rs = CO -> CopFunc(cop0_func_map, instr)
                                  [] OTHER -> cop0_rs_map[instr.rs]
      [] instr.opcode = COP1 -> IF instr.rs = BC THEN cop1_rt_map[instr.rt] ELSE cop1_rs_map[instr.rs]
      [] instr.opcode = COP2 -> IF instr.rs = BC THEN cop2_rt_map[instr.rt] ELSE cop2_rs_map[instr.rs]
      [] OTHER -> opcode_map[instr.opcode]

decode_mnemonics(instr) ==
    CASE instr.opcode = SPECIAL -> mnemonics_func_map[instr.func % 64]
      [] instr.opcode = REGIMM -> mnemonics_rt_map[instr.rt]
      [] instr.opcode = COP0 -> CASE instr.rs = BC -> mnemonics_cop0_rt_map[instr.rt]
                                  [] instr.rs = CO -> CopFunc(mnemonics_cop0_func_map, instr)
                                  [] OTHER -> mnemonics_cop0_rs_map[instr.rs]
      [] instr.opcode = COP1 -> IF instr.rs = BC THEN mnemonics_cop1_rt_map[instr.rt]
                                                 ELSE mnemonics_cop1_rs_map[instr.rs]
      [] instr.opcode = COP2 -> IF instr.rs = BC THEN mnemonics_cop2_rt_map[instr.rt]
                                                 ELSE mnemonics_cop2_rs_map[instr.rs]
      [] OTHER -> mnemonics_opcode_map[instr.opcode]

=============================================================================
