------------------------------ MODULE Sh2eInstr -----------------------------
(***************************************************************************)
(* The instruction routines of the SuperH SH-2E (src/device/cpu/           *)
(* superh_sh2e/exec.c), one operator per routine, as maps from the         *)
(* processor state c to the state the routine leaves, with the exception   *)
(* it returns in exc.                                                      *)
(*                                                                         *)
(* c is a record: r (general registers, 15 is the stack pointer), gbr,     *)
(* vbr, mach, macl, pr, pc, pc_target, br (the branch state), t, s, q, m   *)
(* (the bits of SR the routines touch; Sh2eCpu has the interrupt mask),    *)
(* fr, fpul, fpscr (its implemented bits as a record), mem (bytes), ro     *)
(* (addresses physmem refuses to write), sleeping, host and exc.           *)
(* i holds the operand fields rn, rm, imm, disp, csr.                      *)
(*                                                                         *)
(* Words have 4B bits (module Words), and B is 1 where the FPU routines    *)
(* are used, so that floats (module Sh2eFloat) are as long as words.       *)
(***************************************************************************)
EXTENDS Sh2eFloat

w(v) == v % Word
rn(c, i) == c.r[i.rn]
rm(c, i) == c.r[i.rm]

Return(c, e) == [c EXCEPT !.exc = e]
Set(c, r, v) == [c EXCEPT !.r[r] = w(v), !.exc = "None"]
SetT(c, b) == [c EXCEPT !.t = Bool(b), !.exc = "None"]
SetRT(c, r, v, b) == [c EXCEPT !.r[r] = w(v), !.t = Bool(b), !.exc = "None"]
imm_s(i) == Signed(i.imm, Byte)

---------------------------------------------------------------------------
\* Memory: big endian, and no access that is not naturally aligned.
sh2e_cpu_read(c, addr, n) == LoadBE(c.mem, w(addr), n)
ReadFault(addr, n) == IF addr % n # 0 THEN "CPU_ADDRESS_ERROR" ELSE "None"
sh2e_cpu_write(c, addr, n, v) ==
    IF addr % n # 0 \/ w(addr) \in c.ro THEN Return(c, "CPU_ADDRESS_ERROR")
    ELSE [c EXCEPT !.mem = StoreBE(@, w(addr), n, v), !.exc = "None"]
\* Loads sign extend.
ReadSigned(c, addr, n) == Signed(sh2e_cpu_read(c, addr, n), Byte ^ n)
Reading(c, addr, n, then) == IF ReadFault(addr, n) = "None" THEN then ELSE Return(c, ReadFault(addr, n))
Writing(c, addr, n, v, then(_)) ==
    LET d == sh2e_cpu_write(c, addr, n, v) IN IF d.exc = "None" THEN then(d) ELSE d

\* SR and FPSCR as words: the bits the routines read, packed; LDS_FPSCR_MASK has
\* the six of FPSCR.  A narrow word loses the upper ones.
sr_value(c) == c.t + 2 * c.s + 4 * c.q + 8 * c.m
Bit(v, k) == (v \div 2 ^ k) % 2
sh2e_cpu_set_sr(c, v) ==
    [c EXCEPT !.t = Bit(v, 0), !.s = Bit(v, 1), !.q = Bit(v, 2), !.m = Bit(v, 3)]
fpscr_value(c) ==
    w(c.fpscr.cv + 2 * c.fpscr.cz + 4 * c.fpscr.fv + 8 * c.fpscr.fz + 16 * c.fpscr.ev + 32 * c.fpscr.ez)
set_fpscr(c, v) == [c EXCEPT !.fpscr = [cv |-> Bit(v, 0), cz |-> Bit(v, 1), fv |-> Bit(v, 2), fz |-> Bit(v, 3),
                                         ev |-> Bit(v, 4), ez |-> Bit(v, 5)]]
Control(c, k) == CASE k = 0 -> sr_value(c) [] k = 1 -> c.gbr [] k = 2 -> c.vbr
System(c, k) == CASE k = 0 -> c.mach [] k = 1 -> c.macl [] k = 2 -> c.pr
FpuSystem(c, k) == CASE k = 1 -> c.fpul [] k = 2 -> fpscr_value(c)

---------------------------------------------------------------------------
\* The template routines.
sh2e_addr_pc_relative_insn(c, n, disp) == w(c.pc + (n + disp) * 2)
sh2e_addr_pc_relative_data(pc, disp, scale) == w((pc - (pc % scale)) + disp * scale)
sh2e_addr_gbr_relative_data(c, disp, scale) == w(c.gbr + disp * scale)

sh2e_insn_branch_t_eq(c, i, expected, delayed) ==
    IF c.br = "DELAY" THEN Return(c, "ILLEGAL_SLOT")
    ELSE IF c.t = expected
    THEN [c EXCEPT !.pc_target = sh2e_addr_pc_relative_insn(c, 2, i.disp),
                   !.br = IF delayed THEN "DELAY_NEXT" ELSE "EXECUTE", !.exc = "None"]
    ELSE [c EXCEPT !.pc_target = w(c.pc + 4), !.exc = "None"]

\* A delayed branch to a target, refused in a delay slot.
Delayed(c, d, to) ==
    IF c.br = "DELAY" THEN Return(c, "ILLEGAL_SLOT")
    ELSE [d EXCEPT !.pc_target = w(to), !.br = "DELAY_NEXT", !.exc = "None"]
Call(c) == [c EXCEPT !.pr = sh2e_addr_pc_relative_insn(c, 2, 0)]

sh2e_insn_movl(c, i, n) == Reading(c, rm(c, i), n, Set(c, i.rn, ReadSigned(c, rm(c, i), n)))
sh2e_insn_movs(c, i, n) == sh2e_cpu_write(c, rn(c, i), n, rm(c, i))
sh2e_insn_movp(c, i, n) ==
    LET d == sh2e_insn_movl(c, i, n) IN
    IF d.exc = "None" /\ i.rn # i.rm THEN [d EXCEPT !.r[i.rm] = w(rm(c, i) + n)] ELSE d
sh2e_insn_movm(c, i, n) ==
    LET then(d) == Set(d, i.rn, rn(c, i) - n)
    IN Writing(c, w(rn(c, i) - n), n, rm(c, i), then)
sh2e_insn_movl0(c, i, n) ==
    LET a == w(c.r[0] + rm(c, i)) IN Reading(c, a, n, Set(c, i.rn, ReadSigned(c, a, n)))
sh2e_insn_movs0(c, i, n) == sh2e_cpu_write(c, w(c.r[0] + rn(c, i)), n, rm(c, i))
sh2e_insn_movl4(c, i, n) ==
    LET a == w(rm(c, i) + i.disp * n) IN Reading(c, a, n, Set(c, 0, ReadSigned(c, a, n)))
sh2e_insn_movs4(c, i, n) == sh2e_cpu_write(c, w(rn(c, i) + i.disp * n), n, c.r[0])
sh2e_insn_movlg(c, i, n) ==
    LET a == sh2e_addr_gbr_relative_data(c, i.disp, n)
    IN Reading(c, a, n, Set(c, 0, ReadSigned(c, a, n)))
sh2e_insn_movsg(c, i, n) ==
    sh2e_cpu_write(c, sh2e_addr_gbr_relative_data(c, i.disp, n), n, c.r[0])

\* The PC of the pipeline's execute stage, which a delay slot sees moved to
\* the branch target.
PcAddr(c) == IF c.br = "DELAY" THEN w(c.pc_target + 2) ELSE w(c.pc + 4)
sh2e_insn_movi(c, i, n) ==
    LET a == sh2e_addr_pc_relative_data(PcAddr(c), i.disp, n)
    IN Reading(c, a, n, Set(c, i.rn, ReadSigned(c, a, n)))

sh2e_insn_stcsr(c, i, v) == Set(c, i.rn, v)
sh2e_insn_stcsrm(c, i, v) ==
    LET then(d) == Set(d, i.rn, rn(c, i) - 4)
    IN Writing(c, w(rn(c, i) - 4), 4, v, then)
\* Loads of a control or system register from memory step Rm by a long.
Loaded(c, i, set(_, _)) ==
    Reading(c, rm(c, i), 4, set(Set(c, i.rm, rm(c, i) + 4), sh2e_cpu_read(c, rm(c, i), 4)))
sh2e_insn_shlln(c, i, n) == Set(c, i.rn, rn(c, i) * 2 ^ n)
sh2e_insn_shlrn(c, i, n) == Set(c, i.rn, rn(c, i) \div 2 ^ n)
\* The read-modify-write of a byte at GBR + R0.
ByteAt(c) == w(c.gbr + c.r[0])

---------------------------------------------------------------------------
\* Arithmetic.
exec_add(c, i) == Set(c, i.rn, rn(c, i) + rm(c, i))
exec_addi(c, i) == Set(c, i.rn, rn(c, i) + imm_s(i))
exec_addc(c, i) ==
    LET sum == w(rn(c, i) + rm(c, i))
        sum_with_carry == w(sum + c.t)
    IN SetRT(c, i.rn, sum_with_carry, rn(c, i) > sum \/ sum > sum_with_carry)
exec_addv(c, i) ==
    LET result == w(rn(c, i) + rm(c, i))
    IN SetRT(c, i.rn, result, /\ Msb(rn(c, i), Word) = Msb(rm(c, i), Word)
                              /\ Msb(rm(c, i), Word) # Msb(result, Word))
exec_sub(c, i) == Set(c, i.rn, rn(c, i) - rm(c, i))
exec_subc(c, i) ==
    LET result == w(rn(c, i) - rm(c, i))
        result_with_borrow == w(result - c.t)
    IN SetRT(c, i.rn, result_with_borrow, rn(c, i) < result \/ result < result_with_borrow)
exec_subv(c, i) ==
    LET result == w(rn(c, i) - rm(c, i))
    IN SetRT(c, i.rn, result, /\ Msb(rn(c, i), Word) # Msb(rm(c, i), Word)
                              /\ Msb(rn(c, i), Word) # Msb(result, Word))
exec_neg(c, i) == Set(c, i.rn, -rm(c, i))
exec_negc(c, i) ==
    LET neg_rm == w(-rm(c, i))
        neg_rm_with_carry == w(neg_rm - c.t)
    IN SetRT(c, i.rn, neg_rm_with_carry, 0 < neg_rm \/ neg_rm < neg_rm_with_carry)
exec_dt(c, i) == SetRT(c, i.rn, rn(c, i) - 1, w(rn(c, i) - 1) = 0)

SRn(c, i) == Signed(rn(c, i), Word)
SRm(c, i) == Signed(rm(c, i), Word)
exec_cmpeq(c, i) == SetT(c, rn(c, i) = rm(c, i))
exec_cmpge(c, i) == SetT(c, SRn(c, i) >= SRm(c, i))
exec_cmpgt(c, i) == SetT(c, SRn(c, i) > SRm(c, i))
exec_cmphi(c, i) == SetT(c, rn(c, i) > rm(c, i))
exec_cmphs(c, i) == SetT(c, rn(c, i) >= rm(c, i))
exec_cmpim(c, i) == SetT(c, c.r[0] = w(imm_s(i)))
exec_cmppl(c, i) == SetT(c, SRn(c, i) > 0)
exec_cmppz(c, i) == SetT(c, SRn(c, i) >= 0)
\* The words with a one, and with the top bit, in every byte.
Ones == 1 + Byte + Byte ^ 2 + Byte ^ 3
Tops == Ones * (Byte \div 2)
exec_cmpstr(c, i) ==
    LET x == rn(c, i) ^^ rm(c, i)
        andc_val == w(x - Ones) & (Word - 1 - x)
    IN SetT(c, (andc_val & Tops) # 0)

\* One bit division.
exec_div0s(c, i) ==
    LET q == Msb(rn(c, i), Word)
        m == Msb(rm(c, i), Word)
    IN [c EXCEPT !.q = q, !.m = m, !.t = Differ(q, m), !.exc = "None"]
exec_div0u(c, i) == [c EXCEPT !.q = 0, !.m = 0, !.t = 0, !.exc = "None"]
exec_div1_NoM(c, i) ==
    LET shifted_rn == w(rn(c, i) * 2 + c.t)
        next_rn == w(IF c.q = c.m THEN shifted_rn - rm(c, i) ELSE shifted_rn + rm(c, i))
        carry == Bool(IF c.q = c.m THEN next_rn > shifted_rn ELSE next_rn < shifted_rn)
        q == Differ(carry, Msb(rn(c, i), Word))
    IN [c EXCEPT !.r[i.rn] = next_rn, !.q = q, !.t = Bool(q = c.m), !.exc = "None"]
exec_div1(c, i) ==
    LET shifted_rn == w(rn(c, i) * 2 + c.t)
        next_rn == w(IF c.q = c.m THEN shifted_rn - rm(c, i) ELSE shifted_rn + rm(c, i))
        carry == Bool(IF c.q = c.m THEN next_rn > shifted_rn ELSE next_rn < shifted_rn)
        q == Differ(carry, Differ(Msb(rn(c, i), Word), c.m))
    IN [c EXCEPT !.r[i.rn] = next_rn, !.q = q, !.t = Bool(q = c.m), !.exc = "None"]

\* Multiplication.
Mac(c, v) == [c EXCEPT !.mach = (v \div Word) % Word, !.macl = w(v), !.exc = "None"]
mac(c) == c.mach * Word + c.macl
exec_dmulsl(c, i) == Mac(c, SRn(c, i) * SRm(c, i))
exec_dmulul(c, i) == Mac(c, rn(c, i) * rm(c, i))
exec_mull(c, i) == [c EXCEPT !.macl = w(rn(c, i) * rm(c, i)), !.exc = "None"]
exec_mulsw(c, i) ==
    [c EXCEPT !.macl = w(Signed(rn(c, i) % Half, Half) * Signed(rm(c, i) % Half, Half)), !.exc = "None"]
exec_muluw(c, i) == [c EXCEPT !.macl = (rn(c, i) % Half) * (rm(c, i) % Half), !.exc = "None"]
exec_clrmac(c, i) == Mac(c, 0)

\* Both operands are read at the unstepped addresses, then both registers step.
Stepped(c, i, n) == LET d == Set(c, i.rn, rn(c, i) + n) IN Set(d, i.rm, d.r[i.rm] + n)
Mac48 == 2 ^ (6 * B)
exec_macl(c, i) ==
    LET product == ReadSigned(c, rn(c, i), 4) * ReadSigned(c, rm(c, i), 4)
        sum == (mac(c) + product) % Dword
    IN Reading(c, rn(c, i), 4, Reading(c, rm(c, i), 4,
           Mac(Stepped(c, i, 4), IF c.s = 1 THEN Signed(sum % Mac48, Mac48) % Dword ELSE sum)))
\* With S set the sum is compared with the positive number 2^31 as the lower
\* bound: only a sum above the upper bound escapes it.
exec_macw(c, i) ==
    LET product == ReadSigned(c, rn(c, i), 2) * ReadSigned(c, rm(c, i), 2)
        val == Signed(c.macl, Word) + product
        d == Stepped(c, i, 2)
        clamped == IF val > Word \div 2 - 1 THEN Word \div 2 - 1
                   ELSE IF val < Word \div 2 THEN Word \div 2 ELSE val
    IN Reading(c, rn(c, i), 2, Reading(c, rm(c, i), 2,
           IF c.s = 0 THEN Mac(d, (mac(c) + product) % Dword)
           ELSE [d EXCEPT !.mach = IF clamped # val THEN @ | 1 ELSE @, !.macl = w(clamped)]))

---------------------------------------------------------------------------
\* Logic and shifts.
exec_and(c, i) == Set(c, i.rn, rn(c, i) & rm(c, i))
exec_andi(c, i) == Set(c, 0, c.r[0] & i.imm)
exec_andm(c, i) == sh2e_cpu_write(c, ByteAt(c), 1, sh2e_cpu_read(c, ByteAt(c), 1) & i.imm)
exec_or(c, i) == Set(c, i.rn, rn(c, i) | rm(c, i))
exec_ori(c, i) == Set(c, 0, c.r[0] | i.imm)
exec_orm(c, i) == sh2e_cpu_write(c, ByteAt(c), 1, sh2e_cpu_read(c, ByteAt(c), 1) | i.imm)
exec_xor(c, i) == Set(c, i.rn, rn(c, i) ^^ rm(c, i))
exec_xori(c, i) == Set(c, 0, c.r[0] ^^ i.imm)
exec_xorm(c, i) == sh2e_cpu_write(c, ByteAt(c), 1, sh2e_cpu_read(c, ByteAt(c), 1) ^^ i.imm)
exec_not(c, i) == Set(c, i.rn, Word - 1 - rm(c, i))
exec_tst(c, i) == SetT(c, (rn(c, i) & rm(c, i)) = 0)
exec_tsti(c, i) == SetT(c, (c.r[0] & i.imm) = 0)
exec_tstm(c, i) == SetT(c, (sh2e_cpu_read(c, ByteAt(c), 1) & i.imm) = 0)
exec_tas(c, i) ==
    LET value == sh2e_cpu_read(c, rn(c, i), 1)
        then(d) == SetT(d, value = 0)
    IN Writing(c, rn(c, i), 1, value | (Byte \div 2), then)

exec_rotl(c, i) == SetRT(c, i.rn, 2 * rn(c, i) + Msb(rn(c, i), Word), Msb(rn(c, i), Word) = 1)
exec_rotr(c, i) ==
    SetRT(c, i.rn, rn(c, i) \div 2 + (rn(c, i) % 2) * (Word \div 2), rn(c, i) % 2 = 1)
exec_rotcl(c, i) == SetRT(c, i.rn, 2 * rn(c, i) + c.t, Msb(rn(c, i), Word) = 1)
exec_rotcr(c, i) == SetRT(c, i.rn, rn(c, i) \div 2 + c.t * (Word \div 2), rn(c, i) % 2 = 1)
exec_shal(c, i) == SetRT(c, i.rn, 2 * rn(c, i), Msb(rn(c, i), Word) = 1)
exec_shar(c, i) == SetRT(c, i.rn, SRn(c, i) \div 2, rn(c, i) % 2 = 1)
exec_shll(c, i) == SetRT(c, i.rn, 2 * rn(c, i), Msb(rn(c, i), Word) = 1)
exec_shlr(c, i) == SetRT(c, i.rn, rn(c, i) \div 2, rn(c, i) % 2 = 1)
exec_shll2(c, i) == sh2e_insn_shlln(c, i, 2)
exec_shll8(c, i) == sh2e_insn_shlln(c, i, B)
exec_shll16(c, i) == sh2e_insn_shlln(c, i, 2 * B)
exec_shlr2(c, i) == sh2e_insn_shlrn(c, i, 2)
exec_shlr8(c, i) == sh2e_insn_shlrn(c, i, B)
exec_shlr16(c, i) == sh2e_insn_shlrn(c, i, 2 * B)
exec_extsb(c, i) == Set(c, i.rn, Signed(rm(c, i) % Byte, Byte))
exec_extsw(c, i) == Set(c, i.rn, Signed(rm(c, i) % Half, Half))
exec_extub(c, i) == Set(c, i.rn, rm(c, i) % Byte)
exec_extuw(c, i) == Set(c, i.rn, rm(c, i) % Half)
exec_swapb(c, i) ==
    LET low == rm(c, i) % Half
    IN Set(c, i.rn, (rm(c, i) - low) + (low % Byte) * Byte + low \div Byte)
exec_swapw(c, i) == Set(c, i.rn, rm(c, i) * Half + rm(c, i) \div Half)
exec_xtrct(c, i) == Set(c, i.rn, rm(c, i) * Half + rn(c, i) \div Half)

---------------------------------------------------------------------------
\* Data transfer.
exec_mov(c, i) == Set(c, i.rn, rm(c, i))
exec_movbs(c, i) == sh2e_insn_movs(c, i, 1)
exec_movws(c, i) == sh2e_insn_movs(c, i, 2)
exec_movls(c, i) == sh2e_insn_movs(c, i, 4)
exec_movbl(c, i) == sh2e_insn_movl(c, i, 1)
exec_movwl(c, i) == sh2e_insn_movl(c, i, 2)
exec_movll(c, i) == sh2e_insn_movl(c, i, 4)
exec_movbm(c, i) == sh2e_insn_movm(c, i, 1)
exec_movwm(c, i) == sh2e_insn_movm(c, i, 2)
exec_movlm(c, i) == sh2e_insn_movm(c, i, 4)
exec_movbp(c, i) == sh2e_insn_movp(c, i, 1)
exec_movwp(c, i) == sh2e_insn_movp(c, i, 2)
exec_movlp(c, i) == sh2e_insn_movp(c, i, 4)
exec_movbs0(c, i) == sh2e_insn_movs0(c, i, 1)
exec_movws0(c, i) == sh2e_insn_movs0(c, i, 2)
exec_movls0(c, i) == sh2e_insn_movs0(c, i, 4)
exec_movbl0(c, i) == sh2e_insn_movl0(c, i, 1)
exec_movwl0(c, i) == sh2e_insn_movl0(c, i, 2)
exec_movll0(c, i) == sh2e_insn_movl0(c, i, 4)
exec_movi(c, i) == Set(c, i.rn, imm_s(i))
exec_movwi(c, i) == sh2e_insn_movi(c, i, 2)
exec_movli(c, i) == sh2e_insn_movi(c, i, 4)
exec_movblg(c, i) == sh2e_insn_movlg(c, i, 1)
exec_movwlg(c, i) == sh2e_insn_movlg(c, i, 2)
exec_movllg(c, i) == sh2e_insn_movlg(c, i, 4)
exec_movbsg(c, i) == sh2e_insn_movsg(c, i, 1)
exec_movwsg(c, i) == sh2e_insn_movsg(c, i, 2)
exec_movlsg(c, i) == sh2e_insn_movsg(c, i, 4)
exec_movbl4(c, i) == sh2e_insn_movl4(c, i, 1)
exec_movwl4(c, i) == sh2e_insn_movl4(c, i, 2)
exec_movll4(c, i) ==
    LET a == w(rm(c, i) + i.disp * 4) IN Reading(c, a, 4, Set(c, i.rn, sh2e_cpu_read(c, a, 4)))
exec_movbs4(c, i) == sh2e_insn_movs4(c, i, 1)
exec_movws4(c, i) == sh2e_insn_movs4(c, i, 2)
exec_movls4(c, i) == sh2e_cpu_write(c, w(rn(c, i) + i.disp * 4), 4, rm(c, i))
exec_mova(c, i) == Set(c, 0, sh2e_addr_pc_relative_data(PcAddr(c), i.disp, 4))
exec_movt(c, i) == Set(c, i.rn, c.t)
exec_clrt(c, i) == SetT(c, FALSE)
exec_sett(c, i) == SetT(c, TRUE)
exec_nop(c, i) == Return(c, "None")

\* Control and system registers.
set_gbr(c, v) == [c EXCEPT !.gbr = v, !.exc = "None"]
set_vbr(c, v) == [c EXCEPT !.vbr = v, !.exc = "None"]
set_mach(c, v) == [c EXCEPT !.mach = v, !.exc = "None"]
set_macl(c, v) == [c EXCEPT !.macl = v, !.exc = "None"]
set_pr(c, v) == [c EXCEPT !.pr = v, !.exc = "None"]
set_fpul(c, v) == [c EXCEPT !.fpul = v, !.exc = "None"]
exec_ldc_sr(c, i) == sh2e_cpu_set_sr(Return(c, "None"), rm(c, i))
exec_ldc_gbr(c, i) == set_gbr(c, rm(c, i))
exec_ldc_vbr(c, i) == set_vbr(c, rm(c, i))
exec_ldcl_sr(c, i) == Loaded(c, i, sh2e_cpu_set_sr)
exec_ldcl_gbr(c, i) == Loaded(c, i, set_gbr)
exec_ldcl_vbr(c, i) == Loaded(c, i, set_vbr)
exec_lds_mach(c, i) == set_mach(c, rm(c, i))
exec_lds_macl(c, i) == set_macl(c, rm(c, i))
exec_lds_pr(c, i) == set_pr(c, rm(c, i))
exec_lds_fpscr(c, i) == set_fpscr(Return(c, "None"), rm(c, i))
exec_lds_fpul(c, i) == set_fpul(c, rm(c, i))
exec_ldsl_mach(c, i) == Loaded(c, i, set_mach)
exec_ldsl_macl(c, i) == Loaded(c, i, set_macl)
exec_ldsl_pr(c, i) == Loaded(c, i, set_pr)
exec_ldsl_fpscr(c, i) == Loaded(c, i, set_fpscr)
exec_ldsl_fpul(c, i) == Loaded(c, i, set_fpul)
exec_stc_cpu(c, i) == sh2e_insn_stcsr(c, i, Control(c, i.csr))
exec_stcm_cpu(c, i) == sh2e_insn_stcsrm(c, i, Control(c, i.csr))
exec_sts_cpu(c, i) == sh2e_insn_stcsr(c, i, System(c, i.csr))
exec_stsm_cpu(c, i) == sh2e_insn_stcsrm(c, i, System(c, i.csr))
exec_sts_fpu(c, i) == sh2e_insn_stcsr(c, i, FpuSystem(c, i.csr))
exec_stsm_fpu(c, i) == sh2e_insn_stcsrm(c, i, FpuSystem(c, i.csr))

---------------------------------------------------------------------------
\* Branches and system control.
exec_bf(c, i) == sh2e_insn_branch_t_eq(c, i, 0, FALSE)
exec_bfs(c, i) == sh2e_insn_branch_t_eq(c, i, 0, TRUE)
exec_bt(c, i) == sh2e_insn_branch_t_eq(c, i, 1, FALSE)
exec_bts(c, i) == sh2e_insn_branch_t_eq(c, i, 1, TRUE)
exec_bra(c, i) == Delayed(c, c, sh2e_addr_pc_relative_insn(c, 2, i.disp))
exec_braf(c, i) == Delayed(c, c, sh2e_addr_pc_relative_insn(c, 2, 0) + rm(c, i))
exec_bsr(c, i) == Delayed(c, Call(c), sh2e_addr_pc_relative_insn(c, 2, i.disp))
exec_bsrf(c, i) == Delayed(c, Call(c), sh2e_addr_pc_relative_insn(c, 2, 0) + rm(c, i))
exec_jmp(c, i) == Delayed(c, c, rm(c, i))
exec_jsr(c, i) == Delayed(c, Call(c), rm(c, i))
exec_rts(c, i) == Delayed(c, c, c.pr)
exec_rte(c, i) ==
    LET sp == c.r[15]
        d == sh2e_cpu_set_sr(Set(c, 15, sp + 8), sh2e_cpu_read(c, sp + 4, 4))
    IN IF c.br = "DELAY" THEN Return(c, "ILLEGAL_SLOT")
       ELSE Reading(c, sp, 4, Reading(c, w(sp + 4), 4, Delayed(c, d, sh2e_cpu_read(c, sp, 4))))
\* SR is on the stack before the write of PC, or the read of the vector, can fail.
exec_trapa(c, i) ==
    LET sp == c.r[15]
        vector == w(c.vbr + i.imm * 4)
        jump(d) == Reading(d, vector, 4,
                       [d EXCEPT !.r[15] = w(sp - 8), !.pc_target = sh2e_cpu_read(d, vector, 4),
                                 !.br = "EXECUTE", !.exc = "None"])
        push_pc(d) == Writing(d, w(sp - 8), 4, sh2e_addr_pc_relative_insn(c, 1, 0), jump)
    IN Writing(c, w(sp - 4), 4, sr_value(c), push_pc)
exec_sleep(c, i) == [c EXCEPT !.sleeping = TRUE, !.exc = "None"]
exec_illegal(c, i) == Return(c, IF c.br = "DELAY" THEN "ILLEGAL_SLOT" ELSE "ILLEGAL")
exec_not_implemented(c, i) == Return(c, "ILLEGAL")
exec_halt(c, i) == [c EXCEPT !.host = "halt", !.exc = "None"]
exec_cpu_reg_dump(c, i) == [c EXCEPT !.host = "dump_cpu", !.exc = "None"]
exec_fpu_reg_dump(c, i) == [c EXCEPT !.host = "dump_fpu", !.exc = "None"]

---------------------------------------------------------------------------
\* Floating point.
\* The routines clear the cause bits, and an invalid operation sets cause and
\* flag and then either raises the exception or delivers the NaN of __qnan.
sh2e_cpu_clear_cv_cz(c) == [c EXCEPT !.fpscr.cv = 0, !.fpscr.cz = 0, !.exc = "None"]
sh2e_cpu_set_cv_fv(c) == [c EXCEPT !.fpscr.cv = 1, !.fpscr.fv = 1]
sh2e_cpu_set_cz_fz(c) == [c EXCEPT !.fpscr.cz = 1, !.fpscr.fz = 1]
SetF(c, r, f) == [c EXCEPT !.fr[r] = f]
frn(c, i) == c.fr[i.rn]
frm(c, i) == c.fr[i.rm]
Invalid(c, then) ==
    LET d == sh2e_cpu_set_cv_fv(sh2e_cpu_clear_cv_cz(c))
    IN IF c.fpscr.ev = 1 THEN Return(d, "FPU_OPERATION") ELSE then
Arith(c, r, result, invalid) ==
    IF IsNan(result) /\ invalid
    THEN Invalid(c, SetF(sh2e_cpu_set_cv_fv(sh2e_cpu_clear_cv_cz(c)), r, __qnan))
    ELSE SetF(sh2e_cpu_clear_cv_cz(c), r, result)

exec_fabs(c, i) == Arith(c, i.rn, frn(c, i) % 8, __is_snan(frn(c, i)))
exec_fneg(c, i) == Arith(c, i.rn, Neg(frn(c, i)), __is_snan(frn(c, i)))
exec_fadd(c, i) ==
    Arith(c, i.rn, SumOf(frn(c, i), frm(c, i)),
          Snan2(frn(c, i), frm(c, i)) \/ OppositeInf(frn(c, i), frm(c, i)))
exec_fsub(c, i) ==
    Arith(c, i.rn, SumOf(frn(c, i), IF IsNan(frm(c, i)) THEN frm(c, i) ELSE Neg(frm(c, i))),
          \/ Snan2(frn(c, i), frm(c, i))
          \/ IsInf(frn(c, i)) /\ frn(c, i) = frm(c, i))
exec_fmul(c, i) ==
    Arith(c, i.rn, ProductOf(frn(c, i), frm(c, i)),
          Snan2(frn(c, i), frm(c, i)) \/ InfTimesZero(frn(c, i), frm(c, i)))
exec_fdiv(c, i) ==
    LET x == frn(c, i)
        y == frm(c, i)
        z == sh2e_cpu_set_cz_fz(sh2e_cpu_clear_cv_cz(c))
    IN IF Snan2(x, y) \/ (IsInf(x) /\ IsInf(y)) \/ (IsZero(x) /\ IsZero(y))
       THEN Invalid(c, SetF(sh2e_cpu_set_cv_fv(sh2e_cpu_clear_cv_cz(c)), i.rn, __qnan))
       ELSE IF IsZero(y) /\ ~is_qnan(x) /\ ~IsInf(x)
       THEN IF c.fpscr.ez = 1 THEN Return(z, "FPU_OPERATION")
                              ELSE SetF(z, i.rn, Inf(Differ(Sign(x), Sign(y))))
       ELSE SetF(sh2e_cpu_clear_cv_cz(c), i.rn, QuotientOf(x, y))
\* FR0 * FRm, then + FRn; the bits of FPSCR of the two steps are united.
exec_fmac(c, i) ==
    LET mul == Arith(c, i.rn, ProductOf(c.fr[0], frm(c, i)),
                     Snan2(c.fr[0], frm(c, i)) \/ InfTimesZero(c.fr[0], frm(c, i)))
        p == mul.fr[i.rn]
        add == Arith([mul EXCEPT !.fr = c.fr], i.rn, SumOf(p, frn(c, i)),
                     Snan2(frn(c, i), p) \/ OppositeInf(frn(c, i), p))
    IN IF mul.exc # "None" \/ add.exc # "None"
       THEN IF mul.exc # "None" THEN mul ELSE add
       ELSE [add EXCEPT !.fpscr = [b \in DOMAIN @ |-> @[b] | mul.fpscr[b]]]

Compare(c, result, invalid) ==
    LET d == sh2e_cpu_clear_cv_cz(c)
        e == IF ~result /\ invalid THEN sh2e_cpu_set_cv_fv(d) ELSE d
    IN IF ~result /\ invalid THEN Invalid(c, SetT(e, result)) ELSE SetT(e, result)
exec_fcmpeq(c, i) == Compare(c, EqualF(frn(c, i), frm(c, i)), Snan2(frn(c, i), frm(c, i)))
exec_fcmpgt(c, i) ==
    LET unordered == IsNan(frn(c, i)) \/ IsNan(frm(c, i))
    IN Compare(c, ~unordered /\ Order(frn(c, i)) > Order(frm(c, i)), unordered)

exec_fldi0(c, i) == SetF(Return(c, "None"), i.rn, 0)
exec_fldi1(c, i) == SetF(Return(c, "None"), i.rn, 1)
exec_flds(c, i) == set_fpul(c, frm(c, i))
exec_fsts(c, i) == SetF(Return(c, "None"), i.rn, c.fpul)
\* The format has fewer numbers than a word: what does not fit is the largest.
exec_float(c, i) ==
    LET v == Signed(c.fpul, Word)
    IN SetF(sh2e_cpu_clear_cv_cz(c), i.rn, 8 * Bool(v < 0) + (IF Abs(v) > 3 THEN 3 ELSE Abs(v)))
exec_ftrc(c, i) ==
    LET d == sh2e_cpu_clear_cv_cz(c)
        f == frm(c, i)
        limit == IF is_pos_inf(f) THEN Word \div 2 - 1 ELSE Word \div 2
    IN IF Exponent(f) = 1 THEN Invalid(c, set_fpul(sh2e_cpu_set_cv_fv(d), limit))
       ELSE set_fpul(d, w(Order(f)))

exec_fmov(c, i) == SetF(Return(c, "None"), i.rn, frm(c, i))
sh2e_insn_fmovl(c, i, base) ==
    LET a == w(base + rm(c, i))
    IN Reading(c, a, 4, SetF(Return(c, "None"), i.rn, sh2e_cpu_read(c, a, 4)))
sh2e_insn_fmovs(c, i, base) == sh2e_cpu_write(c, w(base + rn(c, i)), 4, frm(c, i))
exec_fmovl(c, i) == sh2e_insn_fmovl(c, i, 0)
exec_fmovli(c, i) == sh2e_insn_fmovl(c, i, c.r[0])
exec_fmovlr(c, i) ==
    LET d == sh2e_insn_fmovl(c, i, 0)
    IN IF d.exc = "None" THEN Set(d, i.rm, rm(c, i) + 4) ELSE d
exec_fmovs(c, i) == sh2e_insn_fmovs(c, i, 0)
exec_fmovsi(c, i) == sh2e_insn_fmovs(c, i, c.r[0])
exec_fmovss(c, i) ==
    LET then(d) == Set(d, i.rn, rn(c, i) - 4)
    IN Writing(c, w(rn(c, i) - 4), 4, frm(c, i), then)

---------------------------------------------------------------------------
\* The routine the decoder chose.
Routines ==
    {"add", "addi", "addc", "addv", "sub", "subc", "subv", "neg", "negc", "dt", "cmpeq",
     "cmpge", "cmpgt", "cmphi", "cmphs", "cmpim", "cmppl", "cmppz", "cmpstr", "div0s",
     "div0u", "div1", "dmulsl", "dmulul", "mull", "mulsw", "muluw", "clrmac", "macl",
     "macw", "and", "andi", "andm", "or", "ori", "orm", "xor", "xori", "xorm", "not",
     "tst", "tsti", "tstm", "tas", "rotl", "rotr", "rotcl", "rotcr", "shal", "shar",
     "shll", "shlr", "shll2", "shll8", "shll16", "shlr2", "shlr8", "shlr16", "extsb",
     "extsw", "extub", "extuw", "swapb", "swapw", "xtrct", "mov", "movbs", "movws",
     "movls", "movbl", "movwl", "movll", "movbm", "movwm", "movlm", "movbp", "movwp",
     "movlp", "movbs0", "movws0", "movls0", "movbl0", "movwl0", "movll0", "movi",
     "movwi", "movli", "movblg", "movwlg", "movllg", "movbsg", "movwsg", "movlsg",
     "movbl4", "movwl4", "movll4", "movbs4", "movws4", "movls4", "mova", "movt", "clrt",
     "sett", "nop", "ldc_sr", "ldc_gbr", "ldc_vbr", "ldcl_sr", "ldcl_gbr", "ldcl_vbr",
     "lds_mach", "lds_macl", "lds_pr", "lds_fpscr", "lds_fpul", "ldsl_mach",
     "ldsl_macl", "ldsl_pr", "ldsl_fpscr", "ldsl_fpul", "stc_cpu", "stcm_cpu",
     "sts_cpu", "stsm_cpu", "sts_fpu", "stsm_fpu", "bf", "bfs", "bt", "bts", "bra",
     "braf", "bsr", "bsrf", "jmp", "jsr", "rts", "rte", "trapa", "sleep", "illegal",
     "not_implemented", "halt", "cpu_reg_dump", "fpu_reg_dump", "fabs", "fneg", "fadd",
     "fsub", "fmul", "fdiv", "fmac", "fcmpeq", "fcmpgt", "fldi0", "fldi1", "flds",
     "fsts", "float", "ftrc", "fmov", "fmovl", "fmovli", "fmovlr", "fmovs", "fmovsi",
     "fmovss"}
execute_routine(op, c, i) ==
    CASE op = "add" -> exec_add(c, i) [] op = "addi" -> exec_addi(c, i)
      [] op = "addc" -> exec_addc(c, i) [] op = "addv" -> exec_addv(c, i)
      [] op = "sub" -> exec_sub(c, i) [] op = "subc" -> exec_subc(c, i)
      [] op = "subv" -> exec_subv(c, i) [] op = "neg" -> exec_neg(c, i)
      [] op = "negc" -> exec_negc(c, i) [] op = "dt" -> exec_dt(c, i)
      [] op = "cmpeq" -> exec_cmpeq(c, i) [] op = "cmpge" -> exec_cmpge(c, i)
      [] op = "cmpgt" -> exec_cmpgt(c, i) [] op = "cmphi" -> exec_cmphi(c, i)
      [] op = "cmphs" -> exec_cmphs(c, i) [] op = "cmpim" -> exec_cmpim(c, i)
      [] op = "cmppl" -> exec_cmppl(c, i) [] op = "cmppz" -> exec_cmppz(c, i)
      [] op = "cmpstr" -> exec_cmpstr(c, i) [] op = "div0s" -> exec_div0s(c, i)
      [] op = "div0u" -> exec_div0u(c, i) [] op = "div1" -> exec_div1(c, i)
      [] op = "dmulsl" -> exec_dmulsl(c, i) [] op = "dmulul" -> exec_dmulul(c, i)
      [] op = "mull" -> exec_mull(c, i) [] op = "mulsw" -> exec_mulsw(c, i)
      [] op = "muluw" -> exec_muluw(c, i) [] op = "clrmac" -> exec_clrmac(c, i)
      [] op = "macl" -> exec_macl(c, i) [] op = "macw" -> exec_macw(c, i)
      [] op = "and" -> exec_and(c, i) [] op = "andi" -> exec_andi(c, i)
      [] op = "andm" -> exec_andm(c, i) [] op = "or" -> exec_or(c, i)
      [] op = "ori" -> exec_ori(c, i) [] op = "orm" -> exec_orm(c, i)
      [] op = "xor" -> exec_xor(c, i) [] op = "xori" -> exec_xori(c, i)
      [] op = "xorm" -> exec_xorm(c, i) [] op = "not" -> exec_not(c, i)
      [] op = "tst" -> exec_tst(c, i) [] op = "tsti" -> exec_tsti(c, i)
      [] op = "tstm" -> exec_tstm(c, i) [] op = "tas" -> exec_tas(c, i)
      [] op = "rotl" -> exec_rotl(c, i) [] op = "rotr" -> exec_rotr(c, i)
      [] op = "rotcl" -> exec_rotcl(c, i) [] op = "rotcr" -> exec_rotcr(c, i)
      [] op = "shal" -> exec_shal(c, i) [] op = "shar" -> exec_shar(c, i)
      [] op = "shll" -> exec_shll(c, i) [] op = "shlr" -> exec_shlr(c, i)
      [] op = "shll2" -> exec_shll2(c, i) [] op = "shll8" -> exec_shll8(c, i)
      [] op = "shll16" -> exec_shll16(c, i) [] op = "shlr2" -> exec_shlr2(c, i)
      [] op = "shlr8" -> exec_shlr8(c, i) [] op = "shlr16" -> exec_shlr16(c, i)
      [] op = "extsb" -> exec_extsb(c, i) [] op = "extsw" -> exec_extsw(c, i)
      [] op = "extub" -> exec_extub(c, i) [] op = "extuw" -> exec_extuw(c, i)
      [] op = "swapb" -> exec_swapb(c, i) [] op = "swapw" -> exec_swapw(c, i)
      [] op = "xtrct" -> exec_xtrct(c, i) [] op = "mov" -> exec_mov(c, i)
      [] op = "movbs" -> exec_movbs(c, i) [] op = "movws" -> exec_movws(c, i)
      [] op = "movls" -> exec_movls(c, i) [] op = "movbl" -> exec_movbl(c, i)
      [] op = "movwl" -> exec_movwl(c, i) [] op = "movll" -> exec_movll(c, i)
      [] op = "movbm" -> exec_movbm(c, i) [] op = "movwm" -> exec_movwm(c, i)
      [] op = "movlm" -> exec_movlm(c, i) [] op = "movbp" -> exec_movbp(c, i)
      [] op = "movwp" -> exec_movwp(c, i) [] op = "movlp" -> exec_movlp(c, i)
      [] op = "movbs0" -> exec_movbs0(c, i) [] op = "movws0" -> exec_movws0(c, i)
      [] op = "movls0" -> exec_movls0(c, i) [] op = "movbl0" -> exec_movbl0(c, i)
      [] op = "movwl0" -> exec_movwl0(c, i) [] op = "movll0" -> exec_movll0(c, i)
      [] op = "movi" -> exec_movi(c, i) [] op = "movwi" -> exec_movwi(c, i)
      [] op = "movli" -> exec_movli(c, i) [] op = "movblg" -> exec_movblg(c, i)
      [] op = "movwlg" -> exec_movwlg(c, i) [] op = "movllg" -> exec_movllg(c, i)
      [] op = "movbsg" -> exec_movbsg(c, i) [] op = "movwsg" -> exec_movwsg(c, i)
      [] op = "movlsg" -> exec_movlsg(c, i) [] op = "movbl4" -> exec_movbl4(c, i)
      [] op = "movwl4" -> exec_movwl4(c, i) [] op = "movll4" -> exec_movll4(c, i)
      [] op = "movbs4" -> exec_movbs4(c, i) [] op = "movws4" -> exec_movws4(c, i)
      [] op = "movls4" -> exec_movls4(c, i) [] op = "mova" -> exec_mova(c, i)
      [] op = "movt" -> exec_movt(c, i) [] op = "clrt" -> exec_clrt(c, i)
      [] op = "sett" -> exec_sett(c, i) [] op = "nop" -> exec_nop(c, i)
      [] op = "ldc_sr" -> exec_ldc_sr(c, i) [] op = "ldc_gbr" -> exec_ldc_gbr(c, i)
      [] op = "ldc_vbr" -> exec_ldc_vbr(c, i) [] op = "ldcl_sr" -> exec_ldcl_sr(c, i)
      [] op = "ldcl_gbr" -> exec_ldcl_gbr(c, i) [] op = "ldcl_vbr" -> exec_ldcl_vbr(c, i)
      [] op = "lds_mach" -> exec_lds_mach(c, i) [] op = "lds_macl" -> exec_lds_macl(c, i)
      [] op = "lds_pr" -> exec_lds_pr(c, i) [] op = "lds_fpscr" -> exec_lds_fpscr(c, i)
      [] op = "lds_fpul" -> exec_lds_fpul(c, i) [] op = "ldsl_mach" -> exec_ldsl_mach(c, i)
      [] op = "ldsl_macl" -> exec_ldsl_macl(c, i) [] op = "ldsl_pr" -> exec_ldsl_pr(c, i)
      [] op = "ldsl_fpscr" -> exec_ldsl_fpscr(c, i) [] op = "ldsl_fpul" -> exec_ldsl_fpul(c, i)
      [] op = "stc_cpu" -> exec_stc_cpu(c, i) [] op = "stcm_cpu" -> exec_stcm_cpu(c, i)
      [] op = "sts_cpu" -> exec_sts_cpu(c, i) [] op = "stsm_cpu" -> exec_stsm_cpu(c, i)
      [] op = "sts_fpu" -> exec_sts_fpu(c, i) [] op = "stsm_fpu" -> exec_stsm_fpu(c, i)
      [] op = "bf" -> exec_bf(c, i) [] op = "bfs" -> exec_bfs(c, i) [] op = "bt" -> exec_bt(c, i)
      [] op = "bts" -> exec_bts(c, i) [] op = "bra" -> exec_bra(c, i)
      [] op = "braf" -> exec_braf(c, i) [] op = "bsr" -> exec_bsr(c, i)
      [] op = "bsrf" -> exec_bsrf(c, i) [] op = "jmp" -> exec_jmp(c, i)
      [] op = "jsr" -> exec_jsr(c, i) [] op = "rts" -> exec_rts(c, i)
      [] op = "rte" -> exec_rte(c, i) [] op = "trapa" -> exec_trapa(c, i)
      [] op = "sleep" -> exec_sleep(c, i) [] op = "illegal" -> exec_illegal(c, i)
      [] op = "not_implemented" -> exec_not_implemented(c, i) [] op = "halt" -> exec_halt(c, i)
      [] op = "cpu_reg_dump" -> exec_cpu_reg_dump(c, i)
      [] op = "fpu_reg_dump" -> exec_fpu_reg_dump(c, i) [] op = "fabs" -> exec_fabs(c, i)
      [] op = "fneg" -> exec_fneg(c, i) [] op = "fadd" -> exec_fadd(c, i)
      [] op = "fsub" -> exec_fsub(c, i) [] op = "fmul" -> exec_fmul(c, i)
      [] op = "fdiv" -> exec_fdiv(c, i) [] op = "fmac" -> exec_fmac(c, i)
      [] op = "fcmpeq" -> exec_fcmpeq(c, i) [] op = "fcmpgt" -> exec_fcmpgt(c, i)
      [] op = "fldi0" -> exec_fldi0(c, i) [] op = "fldi1" -> exec_fldi1(c, i)
      [] op = "flds" -> exec_flds(c, i) [] op = "fsts" -> exec_fsts(c, i)
      [] op = "float" -> exec_float(c, i) [] op = "ftrc" -> exec_ftrc(c, i)
      [] op = "fmov" -> exec_fmov(c, i) [] op = "fmovl" -> exec_fmovl(c, i)
      [] op = "fmovli" -> exec_fmovli(c, i) [] op = "fmovlr" -> exec_fmovlr(c, i)
      [] op = "fmovs" -> exec_fmovs(c, i) [] op = "fmovsi" -> exec_fmovsi(c, i)
      [] op = "fmovss" -> exec_fmovss(c, i)
=============================================================================
