------------------------------ MODULE Rv32Decode ------------------------------
(***************************************************************************)
(* The RV32IMA instruction decoder (riscv_rv32ima/instr.c) and the choice  *)
(* of the disassembler (riscv_rv32ima/mnemonics.c).  An instruction word   *)
(* is the record of its R-format fields; instr.i.imm is the signed 12-bit  *)
(* value of funct7 and rs2.  A routine is its name without rv_ and _instr. *)
(* specific is the command-line switch machine_specific_instructions.      *)
(***************************************************************************)
EXTENDS Naturals, TLC

illegal == "illegal"

(* The entry of a switch whose default is rv_illegal_instr. *)
Pick(table, code) == IF code \in DOMAIN table THEN table[code] ELSE illegal

(* instr.i.imm & 0xFFF, RV_R_FUNCT and RV_AMO_FUNCT. *)
UImm(instr) == instr.funct7 * 32 + instr.rs2
RV_R_FUNCT(instr) == instr.funct7 * 8 + instr.funct3
RV_AMO_FUNCT(instr) == instr.funct7 \div 4

decode_LOAD(instr) ==
    Pick(\b000 :> "lb" @@ \b001 :> "lh" @@ \b010 :> "lw" @@ \b100 :> "lbu" @@ \b101 :> "lhu", instr.funct3)

decode_MISC_MEM(instr) == IF instr.funct3 = 0 THEN "fence" ELSE illegal

(* The shift kind is instr.i.imm >> 5, the signed funct7. *)
decode_OP_IMM(instr) ==
    Pick(\b000 :> "addi" @@ \b010 :> "slti" @@ \b011 :> "sltiu" @@ \b100 :> "xori" @@ \b110 :> "ori" @@
         \b111 :> "andi" @@
         \b001 :> (IF instr.funct7 = 0 THEN "slli" ELSE illegal) @@
         \b101 :> Pick(\b0100000 :> "srai" @@ \b0000000 :> "srli", instr.funct7),
         instr.funct3)

decode_AUIPC(instr) == "auipc"

decode_STORE(instr) == Pick(\b000 :> "sb" @@ \b001 :> "sh" @@ \b010 :> "sw", instr.funct3)

decode_AMO(instr) ==
    IF instr.funct3 # \b010 THEN illegal
    ELSE Pick(\b00010 :> (IF instr.rs2 = 0 THEN "lr_w" ELSE illegal) @@ \b00011 :> "sc_w" @@
              \b00001 :> "amoswap_w" @@ \b00000 :> "amoadd_w" @@ \b00100 :> "amoxor_w" @@
              \b01100 :> "amoand_w" @@ \b01000 :> "amoor_w" @@ \b10000 :> "amomin_w" @@
              \b10100 :> "amomax_w" @@ \b11000 :> "amominu_w" @@ \b11100 :> "amomaxu_w",
              RV_AMO_FUNCT(instr))

decode_OP(instr) ==
    Pick(\b0000000000 :> "add" @@ \b0100000000 :> "sub" @@ \b0000000001 :> "sll" @@
         \b0000000010 :> "slt" @@ \b0000000011 :> "sltu" @@ \b0000000100 :> "xor" @@
         \b0000000101 :> "srl" @@ \b0100000101 :> "sra" @@ \b0000000110 :> "or" @@
         \b0000000111 :> "and" @@ \b0000001000 :> "mul" @@ \b0000001001 :> "mulh" @@
         \b0000001010 :> "mulhsu" @@ \b0000001011 :> "mulhu" @@ \b0000001100 :> "div" @@
         \b0000001101 :> "divu" @@ \b0000001110 :> "rem" @@ \b0000001111 :> "remu",
         RV_R_FUNCT(instr))

decode_LUI(instr) == "lui"

decode_BRANCH(instr) ==
    Pick(\b000 :> "beq" @@ \b001 :> "bne" @@ \b100 :> "blt" @@ \b110 :> "bltu" @@ \b101 :> "bge" @@
         \b111 :> "bgeu", instr.funct3)

decode_JALR(instr) == IF instr.funct3 # 0 THEN illegal ELSE "jalr"

decode_JAL(instr) == "jal"

decode_PRIV(instr, specific) ==
    LET Own(name) == IF specific THEN name ELSE illegal
    IN  IF instr.funct7 = \b0001001 THEN "sfence"
        ELSE Pick(\b000000000001 :> "break" @@ \b100011000000 :> Own("halt") @@
                  \b100011000001 :> Own("dump") @@ \b100011000010 :> Own("trace_set") @@
                  \b100011000011 :> Own("trace_reset") @@ \b100011000100 :> Own("csr_rd") @@
                  \b000000000000 :> "call" @@ \b000100000010 :> "sret" @@
                  \b001100000010 :> "mret" @@ \b000100000101 :> "wfi",
                  UImm(instr))

decode_SYSTEM(instr, specific) ==
    IF instr.funct3 = \b000 THEN decode_PRIV(instr, specific)
    ELSE Pick(\b001 :> "csrrw" @@ \b010 :> "csrrs" @@ \b011 :> "csrrc" @@ \b101 :> "csrrwi" @@
              \b110 :> "csrrsi" @@ \b111 :> "csrrci", instr.funct3)

rv32_instr_decode(instr, specific) ==
    CASE instr.opcode = \b0000011 -> decode_LOAD(instr)
      [] instr.opcode = \b0001111 -> decode_MISC_MEM(instr)
      [] instr.opcode = \b0010011 -> decode_OP_IMM(instr)
      [] instr.opcode = \b0010111 -> decode_AUIPC(instr)
      [] instr.opcode = \b0100011 -> decode_STORE(instr)
      [] instr.opcode = \b0101111 -> decode_AMO(instr)
      [] instr.opcode = \b0110011 -> decode_OP(instr)
      [] instr.opcode = \b0110111 -> decode_LUI(instr)
      [] instr.opcode = \b1100011 -> decode_BRANCH(instr)
      [] instr.opcode = \b1100111 -> decode_JALR(instr)
      [] instr.opcode = \b1101111 -> decode_JAL(instr)
      [] instr.opcode = \b1110011 -> decode_SYSTEM(instr, specific)
      [] OTHER -> illegal

(* The routines the disassembler compares the decoded one with, in one set *)
(* as the comparisons exclude each other; lr and sc are the 64-bit forms.  *)
Named == {"lui", "auipc", "jal", "jalr", "beq", "bne", "blt", "bge", "bltu", "bgeu", "lb", "lh", "lw",
          "lbu", "lhu", "sb", "sh", "sw", "addi", "slti", "sltiu", "xori", "ori", "andi", "slli",
          "srli", "srai", "add", "sub", "sll", "slt", "sltu", "xor", "or", "and", "srl", "sra",
          "fence", "sfence", "break", "halt", "dump", "trace_set", "trace_reset", "csr_rd", "call",
          "sret", "mret", "wfi", "csrrw", "csrrs", "csrrc", "csrrwi", "csrrsi", "csrrci", "mul",
          "mulh", "mulhsu", "mulhu", "div", "divu", "rem", "remu", "lr", "sc", "amoswap_w",
          "amoadd_w", "amoxor_w", "amoor_w", "amoand_w", "amomin_w", "amomax_w", "amominu_w",
          "amomaxu_w"}
rv_decode_mnemonics(instr, specific) ==
    LET f == rv32_instr_decode(instr, specific) IN IF f \in Named THEN f ELSE "undefined"

=============================================================================
