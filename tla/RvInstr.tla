------------------------------ MODULE RvInstr -------------------------------
(***************************************************************************)
(* The RISC-V computational, control transfer and memory routines that the *)
(* rv32 and the rv64 processor share (src/device/cpu/riscv_rv_ima/         *)
(* instructions/ and memory.c), one operator per routine, as maps from the *)
(* hart's state c to the state the routine leaves, with the exception it   *)
(* returns in exc.  The system instructions are in module RvCpu.           *)
(*                                                                         *)
(* c is a record: regs (0 is an ordinary cell here: rv_cpu_step clears it), *)
(* pc, pc_next, mem (bytes of physical memory), prot (what address         *)
(* translation allows: "rw", "r" or ""), mmode (machine mode without MPRV, *)
(* which is when the timer registers are mapped), mtime, mtimecmp, mtip,   *)
(* reserved_valid, reserved_addr, tracked (the hart is registered with     *)
(* sc_register), tval_next, undefined and folded (the build), exc.          *)
(* i holds the operand fields rd, rs1, rs2 and the immediate imm.          *)
(*                                                                         *)
(* Registers have N bytes of B bits: N = 4 is rv32, N = 8 is rv64.         *)
(***************************************************************************)
EXTENDS Words

CONSTANTS N, RV_MTIME_ADDRESS, RV_MTIMECMP_ADDRESS

XLEN == N * B
Xlen == 2 ^ XLEN
XLEN_MIN == -(Xlen \div 2)
x(v) == v % Xlen
s(v) == Signed(v, Xlen)
lhs(c, i) == c.regs[i.rs1]
rhs(c, i) == c.regs[i.rs2]
sign_extend_to_xlen(v, m) == x(Signed(v % m, m))
Return(c, e) == [c EXCEPT !.exc = e]
Set(c, i, v) == [c EXCEPT !.regs[i.rd] = x(v), !.exc = "none"]
Set32(c, i, v) == Set(c, i, sign_extend_to_xlen(v, Word))
l32(c, i) == Signed(lhs(c, i) % Word, Word)
r32(c, i) == Signed(rhs(c, i) % Word, Word)
shift_instr_mask(v) == v % XLEN
Sra(v, n) == v \div 2 ^ n

---------------------------------------------------------------------------
\* OP, OP-IMM and their 32-bit forms.
rv_add_instr(c, i) == Set(c, i, lhs(c, i) + rhs(c, i))
rv_sub_instr(c, i) == Set(c, i, lhs(c, i) - rhs(c, i))
rv_sll_instr(c, i) == Set(c, i, lhs(c, i) * 2 ^ shift_instr_mask(rhs(c, i)))
rv_srl_instr(c, i) == Set(c, i, lhs(c, i) \div 2 ^ shift_instr_mask(rhs(c, i)))
rv_sra_instr(c, i) == Set(c, i, Sra(s(lhs(c, i)), shift_instr_mask(rhs(c, i))))
rv_slt_instr(c, i) == Set(c, i, Bool(s(lhs(c, i)) < s(rhs(c, i))))
rv_sltu_instr(c, i) == Set(c, i, Bool(lhs(c, i) < rhs(c, i)))
rv_xor_instr(c, i) == Set(c, i, lhs(c, i) ^^ rhs(c, i))
rv_or_instr(c, i) == Set(c, i, lhs(c, i) | rhs(c, i))
rv_and_instr(c, i) == Set(c, i, lhs(c, i) & rhs(c, i))
rv_addw_instr(c, i) == Set32(c, i, lhs(c, i) + rhs(c, i))
rv_subw_instr(c, i) == Set32(c, i, lhs(c, i) - rhs(c, i))
rv_sllw_instr(c, i) == Set32(c, i, lhs(c, i) * 2 ^ (rhs(c, i) % (4 * B)))
rv_srlw_instr(c, i) == Set32(c, i, (lhs(c, i) % Word) \div 2 ^ (rhs(c, i) % (4 * B)))
rv_sraw_instr(c, i) == Set32(c, i, Sra(l32(c, i), rhs(c, i) % (4 * B)))

rv_addi_instr(c, i) == Set(c, i, lhs(c, i) + i.imm)
rv_slti_instr(c, i) == Set(c, i, Bool(s(lhs(c, i)) < i.imm))
rv_sltiu_instr(c, i) == Set(c, i, Bool(lhs(c, i) < x(i.imm)))
rv_andi_instr(c, i) == Set(c, i, lhs(c, i) & x(i.imm))
rv_ori_instr(c, i) == Set(c, i, lhs(c, i) | x(i.imm))
rv_xori_instr(c, i) == Set(c, i, lhs(c, i) ^^ x(i.imm))
rv_slli_instr(c, i) == Set(c, i, lhs(c, i) * 2 ^ (i.imm % (8 * B)))
rv_srli_instr(c, i) == Set(c, i, lhs(c, i) \div 2 ^ (i.imm % (8 * B)))
rv_srai_instr(c, i) == Set(c, i, Sra(s(lhs(c, i)), shift_instr_mask(i.imm)))
rv_addiw_instr(c, i) == Set32(c, i, l32(c, i) + i.imm)
rv_slliw_instr(c, i) == Set32(c, i, lhs(c, i) * 2 ^ (i.imm % (4 * B)))
rv_srliw_instr(c, i) == Set32(c, i, (lhs(c, i) % Word) \div 2 ^ (i.imm % (4 * B)))
rv_sraiw_instr(c, i) == Set32(c, i, Sra(l32(c, i), i.imm % (4 * B)))
\* i.imm is the immediate in its place (imm << 12), as a signed word.
rv_lui_instr(c, i) == Set32(c, i, i.imm)
rv_auipc_instr(c, i) == Set(c, i, c.pc + i.imm)

---------------------------------------------------------------------------
\* M extension.
rv_mul_instr(c, i) == Set(c, i, lhs(c, i) * rhs(c, i))
rv_mulw_instr(c, i) == Set32(c, i, l32(c, i) * r32(c, i))
rv_mulh_instr(c, i) == Set(c, i, (s(lhs(c, i)) * s(rhs(c, i))) \div Xlen)
rv_mulhsu_instr(c, i) == Set(c, i, (s(lhs(c, i)) * rhs(c, i)) \div Xlen)
rv_mulhu_instr(c, i) == Set(c, i, (lhs(c, i) * rhs(c, i)) \div Xlen)
\* Division by zero and the overflow of the least number by -1 are values.
DivOf(a, b, least) == IF b = 0 THEN -1 ELSE IF a = least /\ b = -1 THEN least ELSE Quot(a, b)
RemOf(a, b, least) == IF b = 0 THEN a ELSE IF a = least /\ b = -1 THEN 0 ELSE Rem(a, b)
rv_div_instr(c, i) == Set(c, i, DivOf(s(lhs(c, i)), s(rhs(c, i)), XLEN_MIN))
rv_divu_instr(c, i) == Set(c, i, DivOf(lhs(c, i), rhs(c, i), XLEN_MIN))
rv_rem_instr(c, i) == Set(c, i, RemOf(s(lhs(c, i)), s(rhs(c, i)), XLEN_MIN))
rv_remu_instr(c, i) == Set(c, i, RemOf(lhs(c, i), rhs(c, i), XLEN_MIN))
rv_divw_instr(c, i) == Set32(c, i, DivOf(l32(c, i), r32(c, i), -(Word \div 2)))
rv_divuw_instr(c, i) == Set32(c, i, DivOf(lhs(c, i) % Word, rhs(c, i) % Word, -Word))
rv_remw_instr(c, i) == Set32(c, i, RemOf(l32(c, i), r32(c, i), -(Word \div 2)))
rv_remuw_instr(c, i) == Set32(c, i, RemOf(lhs(c, i) % Word, rhs(c, i) % Word, -Word))

---------------------------------------------------------------------------
\* Jumps and branches: a target that is not a multiple of 4 traps, and then
\* the link register is not written.
Misaligned(c, target) ==
    [c EXCEPT !.tval_next = target, !.exc = "instruction_address_misaligned"]
Link_First(c, i, target) ==
    LET d == Set(c, i, c.pc + 4)
    IN IF target % 4 # 0 THEN Misaligned(d, target) ELSE [d EXCEPT !.pc_next = target]
Link(c, i, target) ==
    IF target % 4 # 0 THEN Misaligned(c, target)
    ELSE [Set(c, i, c.pc + 4) EXCEPT !.pc_next = target]
BranchIf(c, i, taken) ==
    LET target == x(c.pc + i.imm)
    IN IF ~taken THEN Return(c, "none")
       ELSE IF target % 4 # 0 THEN Misaligned(c, target)
       ELSE [c EXCEPT !.pc_next = target, !.exc = "none"]

rv_jal_instr(c, i) == Link(c, i, x(c.pc + i.imm))
rv_jalr_instr(c, i) == Link(c, i, (x(lhs(c, i) + i.imm) \div 2) * 2)
rv_beq_instr(c, i) == BranchIf(c, i, lhs(c, i) = rhs(c, i))
rv_bne_instr(c, i) == BranchIf(c, i, lhs(c, i) # rhs(c, i))
rv_blt_instr(c, i) == BranchIf(c, i, s(lhs(c, i)) < s(rhs(c, i)))
rv_bge_instr(c, i) == BranchIf(c, i, s(lhs(c, i)) >= s(rhs(c, i)))
rv_bltu_instr(c, i) == BranchIf(c, i, lhs(c, i) < rhs(c, i))
rv_bgeu_instr(c, i) == BranchIf(c, i, lhs(c, i) >= rhs(c, i))

---------------------------------------------------------------------------
\* Memory (memory.c).  Translation of virt is the identity where it succeeds.
rv_convert_addr(c, wr) ==
    IF wr THEN IF c.prot = "rw" THEN "none" ELSE "store_amo_page_fault"
          ELSE IF c.prot # "" THEN "none" ELSE "load_page_fault"
Throw(c, virt, e) == [c EXCEPT !.tval_next = virt, !.exc = e]

Base(virt) == 8 * (virt \div 8)
Mapped(c, virt, n) ==
    virt % n = 0 /\ c.mmode /\ Base(virt) \in {RV_MTIME_ADDRESS, RV_MTIMECMP_ADDRESS}
Timer(c, virt) == IF Base(virt) = RV_MTIME_ADDRESS THEN c.mtime ELSE c.mtimecmp
\* EXTRACT_BITS(reg, offset, offset + width / 8): as many bits as the access
\* has bytes.
try_read_memory_mapped_regs(c, virt, n) == (Timer(c, virt) \div Byte ^ (virt % 8)) % 2 ^ n
handle_mtip(c) == [c EXCEPT !.mtip = c.mtime >= c.mtimecmp]
\* WRITE_BITS shifts 1 by the width of the access, which C does not define
\* for 64: the mask is then empty (the shift the processor does) or full (the
\* shift the compiler folds).  c.folded says which one the build does.
try_write_memory_mapped_regs(c, virt, n, v) ==
    LET old == Timer(c, virt)
        unit == Byte ^ (virt % 8)
        new == IF n = 8 THEN IF c.folded THEN v ELSE old
               ELSE old + ((v % Byte ^ n) - ((old \div unit) % Byte ^ n)) * unit
    IN handle_mtip(IF Base(virt) = RV_MTIME_ADDRESS THEN [c EXCEPT !.mtime = new]
                                                   ELSE [c EXCEPT !.mtimecmp = new])

\* Physical memory: what is not there reads as all ones and ignores writes; a
\* write cancels the reservation it overlaps, the writer's own included.
Present(c, a, n) == a .. a + n - 1 \subseteq DOMAIN c.mem
physmem_read(c, a, n) == IF Present(c, a, n) THEN LoadLE(c.mem, a, n) ELSE Byte ^ n - 1
rv_sc_access_SameAddress(c, a, n) ==
    IF c.tracked /\ c.reserved_addr = a THEN [c EXCEPT !.tracked = FALSE, !.reserved_valid = FALSE] ELSE c
rv_sc_access(c, a, n) ==
    IF c.tracked /\ (c.reserved_addr .. c.reserved_addr + 3) \cap (a .. a + n - 1) # {}
    THEN [c EXCEPT !.tracked = FALSE, !.reserved_valid = FALSE] ELSE c
physmem_write(c, a, n, v) ==
    IF Present(c, a, n) THEN [rv_sc_access(c, a, n) EXCEPT !.mem = StoreLE(@, a, n, v)] ELSE c

ReadFault(c, virt, n) ==
    IF Mapped(c, virt, n) THEN "none"
    ELSE IF rv_convert_addr(c, FALSE) # "none" THEN rv_convert_addr(c, FALSE)
    ELSE IF virt % n # 0 THEN "load_address_misaligned" ELSE "none"
rv_read_mem(c, virt, n) ==
    IF Mapped(c, virt, n) THEN try_read_memory_mapped_regs(c, virt, n)
    ELSE physmem_read(c, virt, n)
rv_write_mem(c, virt, n, v) ==
    IF Mapped(c, virt, n) THEN Return(try_write_memory_mapped_regs(c, virt, n, v), "none")
    ELSE IF rv_convert_addr(c, TRUE) # "none" THEN Throw(c, virt, rv_convert_addr(c, TRUE))
    ELSE IF virt % n # 0 THEN Throw(c, virt, "store_amo_address_misaligned")
    ELSE Return(physmem_write(c, virt, n, v), "none")

---------------------------------------------------------------------------
\* Loads and stores.
Ea(c, i) == x(lhs(c, i) + i.imm)
Zero(v) == v
LoadInto(c, i, n, ext(_)) ==
    LET e == ReadFault(c, Ea(c, i), n)
    IN IF e # "none" THEN Throw(c, Ea(c, i), e) ELSE Set(c, i, ext(rv_read_mem(c, Ea(c, i), n)))
\* These loads test the alignment before the translation.
Aligned(c, i, n, then) ==
    IF Ea(c, i) % n # 0 THEN Throw(c, Ea(c, i), "load_address_misaligned") ELSE then
sign8(v) == sign_extend_to_xlen(v, Byte)
sign16(v) == sign_extend_to_xlen(v, Half)
sign32(v) == sign_extend_to_xlen(v, Word)

rv_illegal_instr(c, i) == Return(c, IF c.undefined THEN "none" ELSE "illegal_instruction")
rv_lb_instr(c, i) == LoadInto(c, i, 1, sign8)
rv_lh_instr(c, i) == LoadInto(c, i, 2, sign16)
rv_lw_instr(c, i) == Aligned(c, i, 4, LoadInto(c, i, 4, sign32))
rv_ld_instr(c, i) == Aligned(c, i, 8, LoadInto(c, i, 8, Zero))
rv_lbu_instr(c, i) == LoadInto(c, i, 1, Zero)
rv_lhu_instr(c, i) == Aligned(c, i, 2, LoadInto(c, i, 2, Zero))
rv_lwu_instr(c, i) == Aligned(c, i, 4, LoadInto(c, i, 4, Zero))
rv_sb_instr(c, i) == rv_write_mem(c, Ea(c, i), 1, rhs(c, i))
rv_sh_instr(c, i) == rv_write_mem(c, Ea(c, i), 2, rhs(c, i))
rv_sw_instr(c, i) == rv_write_mem(c, Ea(c, i), 4, rhs(c, i))
rv_sd_instr(c, i) == rv_write_mem(c, Ea(c, i), 8, rhs(c, i))
rv_fence_instr(c, i) == Return(c, "none")

---------------------------------------------------------------------------
\* A extension.  A load that fails cancels the reservation; so does any
\* store conditional that finds one, whatever comes of it.
LoadReserved(c, i, n) ==
    LET virt == lhs(c, i)
        e == ReadFault(c, virt, n)
    IN IF e # "none"
       THEN [Throw(c, virt, e) EXCEPT !.tracked = FALSE, !.reserved_valid = FALSE]
       ELSE [Set(c, i, rv_read_mem(c, virt, n)) EXCEPT
                !.tracked = TRUE, !.reserved_valid = TRUE, !.reserved_addr = virt]
StoreConditional(c, i, n) ==
    LET virt == lhs(c, i)
        d == Set([c EXCEPT !.reserved_valid = FALSE, !.tracked = FALSE], i, 1)
        e == rv_convert_addr(c, TRUE)
    IN IF ~c.reserved_valid THEN Set(c, i, 1)
       ELSE IF e # "none" THEN Return(d, e)
       ELSE IF virt % n # 0 THEN Return(d, "store_amo_address_misaligned")
       ELSE IF virt # c.reserved_addr THEN d
       ELSE Set(rv_write_mem(Return([d EXCEPT !.regs = c.regs], "none"), virt, n, rhs(c, i)), i, 0)
rv_lr_w_instr(c, i) == LoadReserved(c, i, 4)
rv_lr_instr(c, i) == LoadReserved(c, i, N)
rv_sc_w_instr(c, i) == StoreConditional(c, i, 4)
rv_sc_instr(c, i) == StoreConditional(c, i, 8)

\* The privilege of a write, then the alignment; the read and the write that
\* follow are asserted not to fail.  rd is written before rs2 is read.
AmoFault(c, virt, n) ==
    CASE rv_convert_addr(c, TRUE) # "none" -> rv_convert_addr(c, TRUE)
      [] rv_convert_addr(c, TRUE) = "none" /\ virt % n # 0 -> "store_amo_address_misaligned"
      [] OTHER -> "none"
Amo(c, i, n, ext(_), op(_, _)) ==
    LET virt == lhs(c, i)
        e == AmoFault(c, virt, n)
        val == rv_read_mem(c, virt, n)
        d == Set(c, i, ext(val))
        w == rv_write_mem(d, virt, n, op(val, rhs(d, i) % Byte ^ n))
    IN IF e # "none" THEN Throw(c, virt, e)
       ELSE IF ReadFault(c, virt, n) # "none" \/ w.exc # "none" THEN Return(c, "assert")
       ELSE w
Swap(c, i, n, ext(_)) ==
    LET New(a, b) == rhs(c, i) IN Amo(c, i, n, ext, New)
Plus(a, b) == a + b
BitXor(a, b) == a ^^ b
BitAnd(a, b) == a & b
BitOr(a, b) == a | b
MinU(a, b) == IF b < a THEN b ELSE a
MaxU(a, b) == IF b > a THEN b ELSE a
MinW(a, b) == IF Signed(b, Word) < Signed(a, Word) THEN b ELSE a
MaxW(a, b) == IF Signed(b, Word) > Signed(a, Word) THEN b ELSE a
MinD(a, b) == IF Signed(b, Dword) < Signed(a, Dword) THEN b ELSE a
MaxD(a, b) == IF Signed(b, Dword) > Signed(a, Dword) THEN b ELSE a
rv_amoswap_w_instr(c, i) == Swap(c, i, 4, sign32)
rv_amoswap_d_instr(c, i) == Swap(c, i, 8, Zero)
rv_amoadd_w_instr(c, i) == Amo(c, i, 4, sign32, Plus)
rv_amoadd_d_instr(c, i) == Amo(c, i, 8, Zero, Plus)
rv_amoxor_w_instr(c, i) == Amo(c, i, 4, sign32, BitXor)
rv_amoxor_d_instr(c, i) == Amo(c, i, 8, Zero, BitXor)
rv_amoand_w_instr(c, i) == Amo(c, i, 4, sign32, BitAnd)
rv_amoand_d_instr(c, i) == Amo(c, i, 8, Zero, BitAnd)
rv_amoor_w_instr(c, i) == Amo(c, i, 4, sign32, BitOr)
rv_amoor_d_instr(c, i) == Amo(c, i, 8, Zero, BitOr)
rv_amomin_w_instr(c, i) == Amo(c, i, 4, sign32, MinW)
rv_amomin_d_instr(c, i) == Amo(c, i, 8, Zero, MinD)
rv_amomax_w_instr(c, i) == Amo(c, i, 4, sign32, MaxW)
rv_amomax_d_instr(c, i) == Amo(c, i, 8, Zero, MaxD)
rv_amominu_w_instr(c, i) == Amo(c, i, 4, Zero, MinU)
rv_amominu_d_instr(c, i) == Amo(c, i, 8, Zero, MinU)
rv_amomaxu_w_instr(c, i) == Amo(c, i, 4, Zero, MaxU)
rv_amomaxu_d_instr(c, i) == Amo(c, i, 8, Zero, MaxU)

---------------------------------------------------------------------------
\* The routine the decoder chose.
Routines ==
    {"add", "sub", "sll", "srl", "sra", "slt", "sltu", "xor", "or", "and", "addw",
     "subw", "sllw", "srlw", "sraw", "addi", "slti", "sltiu", "andi", "ori", "xori",
     "slli", "srli", "srai", "addiw", "slliw", "srliw", "sraiw", "lui", "auipc", "mul",
     "mulw", "mulh", "mulhsu", "mulhu", "div", "divu", "rem", "remu", "divw", "divuw",
     "remw", "remuw", "jal", "jalr", "beq", "bne", "blt", "bge", "bltu", "bgeu",
     "illegal", "lb", "lh", "lw", "ld", "lbu", "lhu", "lwu", "sb", "sh", "sw", "sd",
     "fence", "lr_w", "lr", "sc_w", "sc", "amoswap_w", "amoswap_d", "amoadd_w",
     "amoadd_d", "amoxor_w", "amoxor_d", "amoand_w", "amoand_d", "amoor_w", "amoor_d",
     "amomin_w", "amomin_d", "amomax_w", "amomax_d", "amominu_w", "amominu_d",
     "amomaxu_w", "amomaxu_d"}
execute_routine(op, c, i) ==
    CASE op = "add" -> rv_add_instr(c, i) [] op = "sub" -> rv_sub_instr(c, i)
      [] op = "sll" -> rv_sll_instr(c, i) [] op = "srl" -> rv_srl_instr(c, i)
      [] op = "sra" -> rv_sra_instr(c, i) [] op = "slt" -> rv_slt_instr(c, i)
      [] op = "sltu" -> rv_sltu_instr(c, i) [] op = "xor" -> rv_xor_instr(c, i)
      [] op = "or" -> rv_or_instr(c, i) [] op = "and" -> rv_and_instr(c, i)
      [] op = "addw" -> rv_addw_instr(c, i) [] op = "subw" -> rv_subw_instr(c, i)
      [] op = "sllw" -> rv_sllw_instr(c, i) [] op = "srlw" -> rv_srlw_instr(c, i)
      [] op = "sraw" -> rv_sraw_instr(c, i) [] op = "addi" -> rv_addi_instr(c, i)
      [] op = "slti" -> rv_slti_instr(c, i) [] op = "sltiu" -> rv_sltiu_instr(c, i)
      [] op = "andi" -> rv_andi_instr(c, i) [] op = "ori" -> rv_ori_instr(c, i)
      [] op = "xori" -> rv_xori_instr(c, i) [] op = "slli" -> rv_slli_instr(c, i)
      [] op = "srli" -> rv_srli_instr(c, i) [] op = "srai" -> rv_srai_instr(c, i)
      [] op = "addiw" -> rv_addiw_instr(c, i) [] op = "slliw" -> rv_slliw_instr(c, i)
      [] op = "srliw" -> rv_srliw_instr(c, i) [] op = "sraiw" -> rv_sraiw_instr(c, i)
      [] op = "lui" -> rv_lui_instr(c, i) [] op = "auipc" -> rv_auipc_instr(c, i)
      [] op = "mul" -> rv_mul_instr(c, i) [] op = "mulw" -> rv_mulw_instr(c, i)
      [] op = "mulh" -> rv_mulh_instr(c, i) [] op = "mulhsu" -> rv_mulhsu_instr(c, i)
      [] op = "mulhu" -> rv_mulhu_instr(c, i) [] op = "div" -> rv_div_instr(c, i)
      [] op = "divu" -> rv_divu_instr(c, i) [] op = "rem" -> rv_rem_instr(c, i)
      [] op = "remu" -> rv_remu_instr(c, i) [] op = "divw" -> rv_divw_instr(c, i)
      [] op = "divuw" -> rv_divuw_instr(c, i) [] op = "remw" -> rv_remw_instr(c, i)
      [] op = "remuw" -> rv_remuw_instr(c, i) [] op = "jal" -> rv_jal_instr(c, i)
      [] op = "jalr" -> rv_jalr_instr(c, i) [] op = "beq" -> rv_beq_instr(c, i)
      [] op = "bne" -> rv_bne_instr(c, i) [] op = "blt" -> rv_blt_instr(c, i)
      [] op = "bge" -> rv_bge_instr(c, i) [] op = "bltu" -> rv_bltu_instr(c, i)
      [] op = "bgeu" -> rv_bgeu_instr(c, i) [] op = "illegal" -> rv_illegal_instr(c, i)
      [] op = "lb" -> rv_lb_instr(c, i) [] op = "lh" -> rv_lh_instr(c, i)
      [] op = "lw" -> rv_lw_instr(c, i) [] op = "ld" -> rv_ld_instr(c, i)
      [] op = "lbu" -> rv_lbu_instr(c, i) [] op = "lhu" -> rv_lhu_instr(c, i)
      [] op = "lwu" -> rv_lwu_instr(c, i) [] op = "sb" -> rv_sb_instr(c, i)
      [] op = "sh" -> rv_sh_instr(c, i) [] op = "sw" -> rv_sw_instr(c, i)
      [] op = "sd" -> rv_sd_instr(c, i) [] op = "fence" -> rv_fence_instr(c, i)
      [] op = "lr_w" -> rv_lr_w_instr(c, i) [] op = "lr" -> rv_lr_instr(c, i)
      [] op = "sc_w" -> rv_sc_w_instr(c, i) [] op = "sc" -> rv_sc_instr(c, i)
      [] op = "amoswap_w" -> rv_amoswap_w_instr(c, i)
      [] op = "amoswap_d" -> rv_amoswap_d_instr(c, i) [] op = "amoadd_w" -> rv_amoadd_w_instr(c, i)
      [] op = "amoadd_d" -> rv_amoadd_d_instr(c, i) [] op = "amoxor_w" -> rv_amoxor_w_instr(c, i)
      [] op = "amoxor_d" -> rv_amoxor_d_instr(c, i) [] op = "amoand_w" -> rv_amoand_w_instr(c, i)
      [] op = "amoand_d" -> rv_amoand_d_instr(c, i) [] op = "amoor_w" -> rv_amoor_w_instr(c, i)
      [] op = "amoor_d" -> rv_amoor_d_instr(c, i) [] op = "amomin_w" -> rv_amomin_w_instr(c, i)
      [] op = "amomin_d" -> rv_amomin_d_instr(c, i) [] op = "amomax_w" -> rv_amomax_w_instr(c, i)
      [] op = "amomax_d" -> rv_amomax_d_instr(c, i) [] op = "amominu_w" -> rv_amominu_w_instr(c, i)
      [] op = "amominu_d" -> rv_amominu_d_instr(c, i)
      [] op = "amomaxu_w" -> rv_amomaxu_w_instr(c, i)
      [] op = "amomaxu_d" -> rv_amomaxu_d_instr(c, i)
=============================================================================
