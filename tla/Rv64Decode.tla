------------------------------ MODULE Rv64Decode ------------------------------
(***************************************************************************)
(* The RV64IMA instruction decoder (riscv_rv64ima/instr.c) and the choice  *)
(* of the disassembler (riscv_rv64ima/mnemonics.c); see Rv32Decode for the *)
(* representation of words and routines.                                   *)
(***************************************************************************)
EXTENDS Naturals, TLC

illegal == "illegal"
Pick(table, code) == IF code \in DOMAIN table THEN table[code] ELSE illegal
UImm(instr) == instr.funct7 * 32 + instr.rs2
RV_R_FUNCT(instr) == instr.funct7 * 8 + instr.funct3
RV_AMO_FUNCT(instr) == instr.funct7 \div 4

decode_LOAD(instr) ==
    Pick(\b000 :> "lb" @@ \b001 :> "lh" @@ \b010 :> "lw" @@ \b110 :> "lwu" @@ \b011 :> "ld" @@
         \b100 :> "lbu" @@ \b101 :> "lhu", instr.funct3)

decode_PRIV(instr, specific) ==
    LET Own(name) == IF specific THEN name ELSE illegal
    IN  IF instr.funct7 = \b0001001 THEN "sfence"
        ELSE Pick(\b000000000001 :> "break" @@ \b100011000000 :> Own("halt") @@
                  \b100011000001 :> Own("dump") @@ \b100011000010 :> Own("trace_set") @@
                  \b100011000011 :> Own("trace_reset") @@ \b100011000100 :> Own("csr_rd") @@
                  \b000000000000 :> "call" @@ \b000100000010 :> "sret" @@
                  \b001100000010 :> "mret" @@ \b000100000101 :> "wfi",
                  UImm(instr))

decode_SYSTEM(instr, specific) ==
    IF instr.funct3 = \b000 THEN decode_PRIV(instr, specific)
    ELSE Pick(\b001 :> "csrrw" @@ \b010 :> "csrrs" @@ \b011 :> "csrrc" @@ \b101 :> "csrrwi" @@
              \b110 :> "csrrsi" @@ \b111 :> "csrrci", instr.funct3)

decode_JALR(instr) == IF instr.funct3 # 0 THEN illegal ELSE "jalr"

decode_JAL(instr) == "jal"

decode_BRANCH(instr) ==
    Pick(\b000 :> "beq" @@ \b001 :> "bne" @@ \b100 :> "blt" @@ \b110 :> "bltu" @@ \b101 :> "bge" @@
         \b111 :> "bgeu", instr.funct3)

decode_MISC_MEM(instr) == IF instr.funct3 = 0 THEN "fence" ELSE illegal

(* The shift amount has six bits: imm >> 6 is the signed funct7 >> 1.  A   *)
(* right shift with any other upper bits than zero is arithmetic.          *)
decode_OP_IMM(instr) ==
    Pick(\b000 :> "addi" @@ \b010 :> "slti" @@ \b011 :> "sltiu" @@ \b100 :> "xori" @@ \b110 :> "ori" @@
         \b111 :> "andi" @@
         \b001 :> (IF instr.funct7 \div 2 = 0 THEN "slli" ELSE illegal) @@
         \b101 :> (IF instr.funct7 \div 2 = 0 THEN "srli" ELSE "srai"),
         instr.funct3)

decode_OP_IMM_32(instr) ==
    Pick(\b000 :> "addiw" @@
         \b001 :> (IF instr.funct7 = 0 THEN "slliw" ELSE illegal) @@
         \b101 :> Pick(\b0100000 :> "sraiw" @@ \b0000000 :> "srliw", instr.funct7),
         instr.funct3)

decode_AUIPC(instr) == "auipc"

decode_STORE(instr) ==
    Pick(\b000 :> "sb" @@ \b001 :> "sh" @@ \b010 :> "sw" @@ \b011 :> "sd", instr.funct3)

decode_AMO_32(instr) ==
    Pick(\b00010 :> (IF instr.rs2 = 0 THEN "lr_w" ELSE illegal) @@ \b00011 :> "sc_w" @@
         \b00001 :> "amoswap_w" @@ \b00000 :> "amoadd_w" @@ \b00100 :> "amoxor_w" @@
         \b01100 :> "amoand_w" @@ \b01000 :> "amoor_w" @@ \b10000 :> "amomin_w" @@
         \b10100 :> "amomax_w" @@ \b11000 :> "amominu_w" @@ \b11100 :> "amomaxu_w",
         RV_AMO_FUNCT(instr))

decode_AMO_64(instr) ==
    Pick(\b00010 :> (IF instr.rs2 = 0 THEN "lr" ELSE illegal) @@ \b00011 :> "sc" @@
         \b00001 :> "amoswap_d" @@ \b00000 :> "amoadd_d" @@ \b00100 :> "amoxor_d" @@
         \b01100 :> "amoand_d" @@ \b01000 :> "amoor_d" @@ \b10000 :> "amomin_d" @@
         \b10100 :> "amomax_d" @@ \b11000 :> "amominu_d" @@ \b11100 :> "amomaxu_d",
         RV_AMO_FUNCT(instr))

decode_AMO(instr) ==
    CASE instr.funct3 = \b010 -> decode_AMO_32(instr)
      [] instr.funct3 = \b011 -> decode_AMO_64(instr)
      [] OTHER -> illegal

decode_OP(instr) ==
    Pick(\b0000000000 :> "add" @@ \b0100000000 :> "sub" @@ \b0000000001 :> "sll" @@
         \b0000000010 :> "slt" @@ \b0000000011 :> "sltu" @@ \b0000000100 :> "xor" @@
         \b0000000101 :> "srl" @@ \b0100000101 :> "sra" @@ \b0000000110 :> "or" @@
         \b0000000111 :> "and" @@ \b0000001000 :> "mul" @@ \b0000001001 :> "mulh" @@
         \b0000001010 :> "mulhsu" @@ \b0000001011 :> "mulhu" @@ \b0000001100 :> "div" @@
         \b0000001101 :> "divu" @@ \b0000001110 :> "rem" @@ \b0000001111 :> "remu",
         RV_R_FUNCT(instr))

decode_OP_32(instr) ==
    Pick(\b0000000000 :> "addw" @@ \b0100000000 :> "subw" @@ \b0000000001 :> "sllw" @@
         \b0000000101 :> "srlw" @@ \b0100000101 :> "sraw" @@ \b0000001000 :> "mulw" @@
         \b0000001100 :> "divw" @@ \b0000001101 :> "divuw" @@ \b0000001110 :> "remw" @@
         \b0000001111 :> "remuw", RV_R_FUNCT(instr))

decode_LUI(instr) == "lui"

rv64_instr_decode(instr, specific) ==
    CASE instr.opcode = \b0000011 -> decode_LOAD(instr)
      [] instr.opcode = \b0001111 -> decode_MISC_MEM(instr)
      [] instr.opcode = \b0010011 -> decode_OP_IMM(instr)
      [] instr.opcode = \b0011011 -> decode_OP_IMM_32(instr)
      [] instr.opcode = \b0010111 -> decode_AUIPC(instr)
      [] instr.opcode = \b0100011 -> decode_STORE(instr)
      [] instr.opcode = \b0101111 -> decode_AMO(instr)
      [] instr.opcode = \b0110011 -> decode_OP(instr)
      [] instr.opcode = \b0111011 -> decode_OP_32(instr)
      [] instr.opcode = \b0110111 -> decode_LUI(instr)
      [] instr.opcode = \b1100011 -> decode_BRANCH(instr)
      [] instr.opcode = \b1100111 -> decode_JALR(instr)
      [] instr.opcode = \b1101111 -> decode_JAL(instr)
      [] instr.opcode = \b1110011 -> decode_SYSTEM(instr, specific)
      [] OTHER -> illegal

(* The routines the disassembler compares the decoded one with. *)
Named == {"lui", "auipc", "jal", "jalr", "beq", "bne", "blt", "bge", "bltu", "bgeu", "lb", "lh", "lw",
          "lbu", "lhu", "sb", "sh", "sw", "addi", "slti", "sltiu", "xori", "ori", "andi", "slli",
          "srli", "srai", "add", "sub", "sll", "slt", "sltu", "xor", "or", "and", "srl", "sra",
          "fence", "sfence", "break", "halt", "dump", "trace_set", "trace_reset", "csr_rd", "call",
          "sret", "mret", "wfi", "csrrw", "csrrs", "csrrc", "csrrwi", "csrrsi", "csrrci", "mul",
          "mulh", "mulhsu", "mulhu", "div", "divu", "rem", "remu"}
rv64_decode_mnemonics(instr, specific) ==
    LET f == rv64_instr_decode(instr, specific) IN IF f \in Named THEN f ELSE "undefined"

=============================================================================
