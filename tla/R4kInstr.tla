------------------------------ MODULE R4kInstr ------------------------------
(***************************************************************************)
(* The instruction routines of the MIPS R4000 (src/device/cpu/mips_r4000/  *)
(* instr), one operator per routine.  A routine maps the processor state c *)
(* to the state it leaves behind, with the exception it returns in exc.    *)
(*                                                                         *)
(* c is a record: regs, hi, lo (64 bit registers), pc, pc_next, branch,    *)
(* mem (bytes by physical address), map (what r4k_convert_addr says of an  *)
(* address: "None" or the way it fails), llbit, lladdr, tracked (the       *)
(* sc_register list holds this processor), cu (the usable coprocessors),   *)
(* ce, mode64 (CPU_64BIT_MODE), instr64 (CPU_64BIT_INSTRUCTION), specific  *)
(* (machine_specific_instructions), tty, host (what the simulator was told *)
(* to do) and exc.                                                         *)
(* i holds the operand fields rs, rt, rd, sa, imm, target.                 *)
(***************************************************************************)
EXTENDS Words

sign_extend(v, m) == Signed(v, m) % Dword
lo(v) == v % Word

rs(c, i) == c.regs[i.rs]
rt(c, i) == c.regs[i.rt]
imm64(i) == sign_extend(i.imm, Half)

Return(c, e) == [c EXCEPT !.exc = e]
Write(c, r, v) == [c EXCEPT !.regs[r] = v, !.exc = "None"]
Write32(c, r, v) == Write(c, r, sign_extend(lo(v), Word))

\* ASSERT(false): the simulator ends here.
Abort(c) == Return(c, "abort")

\* The operands as CPU_64BIT_MODE compares them.
Width(c) == IF c.mode64 THEN Dword ELSE Word
Unsigned(c, v) == v % Width(c)
Sgn(c, v) == Signed(v % Width(c), Width(c))

In64(c, then) == IF c.instr64 THEN then ELSE Return(c, "RI")
Usable(c, n, then) == IF n \in c.cu THEN then ELSE [c EXCEPT !.ce = n, !.exc = "CpU"]
Ignored(c, n) == Usable(c, n, Return(c, "None"))

---------------------------------------------------------------------------
\* Memory: the alignment test, the conversion, the transfer.
Align(addr, n) == addr % n # 0
Load(c, addr, n) == LoadLE(c.mem, lo(addr), n)
\* A write tells every tracked processor, this one included (sc_control).
r4k_sc_access(c, addr) ==
    IF c.tracked /\ c.lladdr = 64 * (addr \div 64)
    THEN [c EXCEPT !.tracked = FALSE, !.llbit = FALSE] ELSE c
Store(c, addr, n, v) == [r4k_sc_access(c, lo(addr)) EXCEPT !.mem = StoreLE(@, lo(addr), n, v)]

ReadFault(c, addr, n) ==
    LET m == IF Align(addr, n) THEN "AddrError" ELSE c.map[lo(addr)] IN
    CASE m \in {"None", "Modified"} -> "None"
      [] m = "AddrError" -> "AdEL"
      [] m = "Invalid" -> "TLBL"
      [] m = "Refill" -> "TLBLR"
WriteFault(c, addr, n) ==
    LET m == IF Align(addr, n) THEN "AddrError" ELSE c.map[lo(addr)] IN
    CASE m = "None" -> "None"
      [] m = "AddrError" -> "AdES"
      [] m = "Invalid" -> "TLBS"
      [] m = "Refill" -> "TLBSR"
      [] m = "Modified" -> "Mod"

Ea(c, i) == (rs(c, i) + imm64(i)) % Dword
LoadInto(c, i, n, ext) ==
    LET e == ReadFault(c, Ea(c, i), n) IN
    IF e = "None" THEN Write(c, i.rt, IF ext THEN sign_extend(Load(c, Ea(c, i), n), Byte ^ n)
                                             ELSE Load(c, Ea(c, i), n))
                  ELSE Return(c, e)
StoreFrom(c, addr, n, v) ==
    LET e == WriteFault(c, addr, n) IN
    IF e = "None" THEN Return(Store(c, addr, n, v), "None") ELSE Return(c, e)

instr_lb(c, i) == LoadInto(c, i, 1, TRUE)
instr_lbu(c, i) == LoadInto(c, i, 1, FALSE)
instr_lh(c, i) == LoadInto(c, i, 2, TRUE)
instr_lhu(c, i) == LoadInto(c, i, 2, FALSE)
instr_lw(c, i) == LoadInto(c, i, 4, TRUE)
instr_lwu(c, i) == In64(c, LoadInto(c, i, 4, FALSE))
instr_ld(c, i) == In64(c, LoadInto(c, i, 8, FALSE))
instr_sb(c, i) == StoreFrom(c, Ea(c, i), 1, rt(c, i))
instr_sh(c, i) == StoreFrom(c, Ea(c, i), 2, rt(c, i))
instr_sw(c, i) == StoreFrom(c, Ea(c, i), 4, rt(c, i))
instr_sd(c, i) == In64(c, StoreFrom(c, Ea(c, i), 8, rt(c, i)))

\* The shift tables of the unaligned accesses, by byte index k in the word.
shift_tab_left(k) == [mask |-> Byte ^ (3 - k) - 1, shift |-> Byte ^ (3 - k)]
shift_tab_right(k) == [mask |-> Word - Byte ^ (4 - k), shift |-> Byte ^ k]
shift_tab_left_store(k) == [mask |-> Word - Byte ^ (k + 1), shift |-> Byte ^ (3 - k)]
shift_tab_right_store(k) == [mask |-> Byte ^ k - 1, shift |-> Byte ^ k]

Index(c, i) == Ea(c, i) % 4
WordOf(c, i) == Ea(c, i) - Index(c, i)

instr_lwl(c, i) ==
    LET t == shift_tab_left(Index(c, i))
        e == ReadFault(c, WordOf(c, i), 4) IN
    IF e # "None" THEN Return(c, e)
    ELSE Write32(c, i.rt, (lo(rt(c, i)) & t.mask) | lo(Load(c, WordOf(c, i), 4) * t.shift))

instr_lwr(c, i) ==
    LET t == shift_tab_right(Index(c, i))
        e == ReadFault(c, WordOf(c, i), 4)
        comb == (lo(rt(c, i)) & t.mask)
                    | ((Load(c, WordOf(c, i), 4) \div t.shift) & (Word - 1 - t.mask)) IN
    IF e # "None" THEN Return(c, e)
    ELSE IF Index(c, i) = 0 THEN Write32(c, i.rt, comb) ELSE Write(c, i.rt, comb)

instr_swl(c, i) ==
    LET t == shift_tab_left_store(Index(c, i))
        e == ReadFault(c, WordOf(c, i), 4) IN
    IF e # "None" THEN Return(c, e)
    ELSE StoreFrom(c, WordOf(c, i), 4,
                   (Load(c, WordOf(c, i), 4) & t.mask)
                       | ((lo(rt(c, i)) \div t.shift) & (Word - 1 - t.mask)))

instr_swr(c, i) ==
    LET t == shift_tab_right_store(Index(c, i))
        e == ReadFault(c, WordOf(c, i), 4) IN
    IF e # "None" THEN Return(c, e)
    ELSE StoreFrom(c, WordOf(c, i), 4,
                   (Load(c, WordOf(c, i), 4) & t.mask) | lo(lo(rt(c, i)) * t.shift))

instr_ldl(c, i) == Abort(c)
instr_ldr(c, i) == Abort(c)
instr_sdl(c, i) == Abort(c)
instr_sdr(c, i) == Abort(c)
instr_cache(c, i) == Abort(c)

\* Load linked and store conditional.
Linked(c, i, n) ==
    LET d == LoadInto(c, i, n, n = 4) IN
    IF d.exc = "None" THEN [d EXCEPT !.tracked = TRUE, !.llbit = TRUE, !.lladdr = lo(Ea(c, i))]
                      ELSE [d EXCEPT !.tracked = FALSE, !.llbit = FALSE]
Conditional(c, i, n) ==
    LET d == StoreFrom(c, Ea(c, i), n, rt(c, i)) IN
    IF ~c.llbit THEN Write(c, i.rt, 0)
    ELSE [(IF d.exc = "None" THEN Write(d, i.rt, 1) ELSE d) EXCEPT !.tracked = FALSE, !.llbit = FALSE]

instr_ll(c, i) == Linked(c, i, 4)
instr_lld(c, i) == In64(c, Linked(c, i, 8))
instr_sc(c, i) == Conditional(c, i, 4)
instr_scd(c, i) == In64(c, Conditional(c, i, 8))

---------------------------------------------------------------------------
\* Arithmetic.
SameSign(a, b, m) == (a >= m \div 2) = (b >= m \div 2)

\* The overflow test of the code: the operands agree in sign and the result does not.
Trapping(c, r, a, b, res, m) ==
    IF SameSign(a, b, m) /\ ~SameSign(a, res, m) THEN Return(c, "Ov")
    ELSE Write(c, r, sign_extend(res, m))

instr_add(c, i) ==
    Trapping(c, i.rd, lo(rs(c, i)), lo(rt(c, i)), lo(rs(c, i) + rt(c, i)), Word)
instr_addi(c, i) ==
    Trapping(c, i.rt, lo(rs(c, i)), lo(imm64(i)), lo(rs(c, i) + imm64(i)), Word)
instr_addiu(c, i) == Write32(c, i.rt, rs(c, i) + imm64(i))
instr_addu(c, i) == Write32(c, i.rd, rs(c, i) + rt(c, i))
instr_sub(c, i) ==
    Trapping(c, i.rd, lo(rs(c, i)), lo(rt(c, i)), lo(rs(c, i) - rt(c, i)), Word)
instr_subu(c, i) == Write32(c, i.rd, rs(c, i) - rt(c, i))
instr_dadd(c, i) ==
    In64(c, Trapping(c, i.rd, rs(c, i), rt(c, i), (rs(c, i) + rt(c, i)) % Dword, Dword))
instr_daddi(c, i) ==
    In64(c, Trapping(c, i.rt, rs(c, i), imm64(i), (rs(c, i) + imm64(i)) % Dword, Dword))
instr_daddiu(c, i) == In64(c, Write(c, i.rt, (rs(c, i) + imm64(i)) % Dword))
instr_daddu(c, i) == In64(c, Write(c, i.rd, (rs(c, i) + rt(c, i)) % Dword))
instr_dsub(c, i) ==
    In64(c, Trapping(c, i.rd, rs(c, i), rt(c, i), (rs(c, i) - rt(c, i)) % Dword, Dword))
instr_dsubu(c, i) == In64(c, Write(c, i.rd, (rs(c, i) - rt(c, i)) % Dword))

instr_and(c, i) == Write(c, i.rd, rs(c, i) & rt(c, i))
instr_andi(c, i) == Write(c, i.rt, rs(c, i) & i.imm)
instr_or(c, i) == Write(c, i.rd, rs(c, i) | rt(c, i))
instr_ori(c, i) == Write(c, i.rt, rs(c, i) | i.imm)
instr_xor(c, i) == Write(c, i.rd, rs(c, i) ^^ rt(c, i))
instr_xori(c, i) == Write(c, i.rt, rs(c, i) ^^ i.imm)
instr_nor(c, i) == Write(c, i.rd, Dword - 1 - (rs(c, i) | rt(c, i)))
instr_lui(c, i) == Write32(c, i.rt, i.imm * Half)

\* Shifts: a count is a field sa of a word or the low bits of rs.
Count32(c, i) == rs(c, i) % (4 * B)
Count64(c, i) == rs(c, i) % (8 * B)
Sra(v, m, n) == (Signed(v, m) \div 2 ^ n) % m
instr_sll(c, i) == Write32(c, i.rd, lo(rt(c, i)) * 2 ^ i.sa)
instr_sllv(c, i) == Write32(c, i.rd, lo(rt(c, i)) * 2 ^ Count32(c, i))
instr_srl(c, i) == Write32(c, i.rd, lo(rt(c, i)) \div 2 ^ i.sa)
instr_srlv(c, i) == Write32(c, i.rd, lo(rt(c, i)) \div 2 ^ Count32(c, i))
instr_sra(c, i) == Write32(c, i.rd, Sra(lo(rt(c, i)), Word, i.sa))
instr_srav(c, i) == Write32(c, i.rd, Sra(lo(rt(c, i)), Word, Count32(c, i)))
instr_dsll(c, i) == In64(c, Write(c, i.rd, (rt(c, i) * 2 ^ i.sa) % Dword))
instr_dsll32(c, i) == In64(c, Write(c, i.rd, (rt(c, i) * 2 ^ (i.sa + 4 * B)) % Dword))
instr_dsllv(c, i) == In64(c, Write(c, i.rd, (rt(c, i) * 2 ^ Count64(c, i)) % Dword))
instr_dsrl(c, i) == In64(c, Write(c, i.rd, rt(c, i) \div 2 ^ i.sa))
instr_dsrl32(c, i) == In64(c, Write(c, i.rd, rt(c, i) \div 2 ^ (i.sa + 4 * B)))
instr_dsrlv(c, i) == In64(c, Write(c, i.rd, rt(c, i) \div 2 ^ Count64(c, i)))
instr_dsra(c, i) == In64(c, Write(c, i.rd, Sra(rt(c, i), Dword, i.sa)))
instr_dsra32(c, i) == In64(c, Write(c, i.rd, Sra(rt(c, i), Dword, i.sa + 4 * B)))
instr_dsrav(c, i) == In64(c, Write(c, i.rd, Sra(rt(c, i), Dword, Count64(c, i))))

\* Comparisons into a register.
instr_slt(c, i) == Write(c, i.rd, Bool(Sgn(c, rs(c, i)) < Sgn(c, rt(c, i))))
instr_slti(c, i) == Write(c, i.rt, Bool(Sgn(c, rs(c, i)) < Sgn(c, imm64(i))))
instr_sltu(c, i) == Write(c, i.rd, Bool(Unsigned(c, rs(c, i)) < Unsigned(c, rt(c, i))))
instr_sltiu(c, i) == Write(c, i.rt, Bool(Unsigned(c, rs(c, i)) < Unsigned(c, imm64(i))))

\* Multiplication and division into HI and LO; C division truncates.
HiLo(c, h, l) == [c EXCEPT !.hi = h, !.lo = l, !.exc = "None"]
Product(c, p) == HiLo(c, sign_extend(lo(p \div Word), Word), sign_extend(lo(p), Word))
\* b = 0 is answered with zeros; the least number divided by -1 is undefined
\* in C, and the host's divide instruction stops the simulator.
Divide(c, a, b, m) ==
    IF b = 0 THEN HiLo(c, 0, 0)
    ELSE IF b = -1 /\ a = -(m \div 2) THEN Abort(c)
    ELSE HiLo(c, sign_extend(Rem(a, b) % m, m), sign_extend(Quot(a, b) % m, m))

instr_mult(c, i) == Product(c, Signed(lo(rs(c, i)), Word) * Signed(lo(rt(c, i)), Word))
instr_multu(c, i) == Product(c, lo(rs(c, i)) * lo(rt(c, i)))
instr_div(c, i) == Divide(c, Signed(lo(rs(c, i)), Word), Signed(lo(rt(c, i)), Word), Word)
instr_divu(c, i) == Divide(c, lo(rs(c, i)), lo(rt(c, i)), Word)
instr_ddiv(c, i) == In64(c, Divide(c, Signed(rs(c, i), Dword), Signed(rt(c, i), Dword), Dword))
instr_ddivu(c, i) == In64(c, Divide(c, rs(c, i), rt(c, i), Dword))
instr_dmult(c, i) == In64(c, Abort(c))
instr_dmultu(c, i) == In64(c, Abort(c))
instr_mfhi(c, i) == Write(c, i.rd, c.hi)
instr_mflo(c, i) == Write(c, i.rd, c.lo)
instr_mthi(c, i) == [c EXCEPT !.hi = rs(c, i), !.exc = "None"]
instr_mtlo(c, i) == [c EXCEPT !.lo = rs(c, i), !.exc = "None"]

---------------------------------------------------------------------------
\* Branches.  pc_next is the address after the branch when a routine starts.
Jump(c, to) == [c EXCEPT !.pc_next = to, !.branch = "COND", !.exc = "Jump"]
Taken(c, i) == Jump(c, (c.pc_next + imm64(i) * 4) % Dword)
Skip(c) == [c EXCEPT !.pc_next = (@ + 4) % Dword, !.exc = "None"]
BranchIf(c, i, cond) == IF cond THEN Taken(c, i) ELSE Return(c, "None")
LikelyIf(c, i, cond) == IF cond THEN Taken(c, i) ELSE Skip(c)
Link(c) == [c EXCEPT !.regs[31] = (c.pc + 8) % Dword]

Eq(c, i) == Unsigned(c, rs(c, i)) = Unsigned(c, rt(c, i))
Num(c, i) == Sgn(c, rs(c, i))

instr_beq(c, i) == BranchIf(c, i, Eq(c, i))
instr_bne(c, i) == BranchIf(c, i, ~Eq(c, i))
instr_bgez(c, i) == BranchIf(c, i, Num(c, i) >= 0)
instr_bgtz(c, i) == BranchIf(c, i, Num(c, i) > 0)
instr_blez(c, i) == BranchIf(c, i, Num(c, i) <= 0)
instr_bltz(c, i) == BranchIf(c, i, Num(c, i) < 0)
instr_beql(c, i) == LikelyIf(c, i, Eq(c, i))
instr_bnel(c, i) == LikelyIf(c, i, ~Eq(c, i))
instr_bgezl(c, i) == LikelyIf(c, i, Num(c, i) >= 0)
instr_bgtzl(c, i) == LikelyIf(c, i, Num(c, i) > 0)
instr_blezl(c, i) == LikelyIf(c, i, Num(c, i) <= 0)
instr_bltzl(c, i) == LikelyIf(c, i, Num(c, i) < 0)
\* The condition is read before the link register is written.
instr_bgezal(c, i) == BranchIf(Link(c), i, Num(c, i) >= 0)
instr_bltzal(c, i) == BranchIf(Link(c), i, Num(c, i) < 0)
instr_bgezall(c, i) == LikelyIf(Link(c), i, Num(c, i) >= 0)
instr_bltzall(c, i) == LikelyIf(Link(c), i, Num(c, i) < 0)

\* The 2^28 bytes a jump target addresses are scaled to one word's range.
Target(c, i) == (c.pc_next - (c.pc_next % Word)) + ((i.target * 4) % Word)
instr_j(c, i) == Jump(c, Target(c, i))
instr_jal(c, i) == Jump(Link(c), Target(c, i))
\* r31 is written before rs is read.
instr_jalr(c, i) == Jump(Link(c), rs(Link(c), i))
instr_jr(c, i) == Jump(c, rs(c, i))

---------------------------------------------------------------------------
\* Traps.
TrapIf(c, cond) == Return(c, IF cond THEN "Tr" ELSE "None")
EqImm(c, i) == Unsigned(c, rs(c, i)) = Unsigned(c, imm64(i))
Lt(c, i) == Sgn(c, rs(c, i)) < Sgn(c, rt(c, i))
LtImm(c, i) == Sgn(c, rs(c, i)) < Sgn(c, imm64(i))
LtU(c, i) == Unsigned(c, rs(c, i)) < Unsigned(c, rt(c, i))
LtImmU(c, i) == Unsigned(c, rs(c, i)) < Unsigned(c, imm64(i))

instr_teq(c, i) == TrapIf(c, Eq(c, i))
instr_teqi(c, i) == TrapIf(c, EqImm(c, i))
instr_tne(c, i) == TrapIf(c, ~Eq(c, i))
instr_tnei(c, i) == TrapIf(c, ~EqImm(c, i))
instr_tge(c, i) == TrapIf(c, ~Lt(c, i))
instr_tgei(c, i) == TrapIf(c, ~LtImm(c, i))
instr_tgeu(c, i) == TrapIf(c, ~LtU(c, i))
instr_tgeiu(c, i) == TrapIf(c, ~LtImmU(c, i))
instr_tlt(c, i) == TrapIf(c, Lt(c, i))
instr_tlti(c, i) == TrapIf(c, LtImm(c, i))
instr_tltu(c, i) == TrapIf(c, LtU(c, i))
instr_tltiu(c, i) == TrapIf(c, LtImmU(c, i))
instr_break(c, i) == Return(c, "Bp")
instr_syscall(c, i) == Return(c, "Sys")
instr_sync(c, i) == Return(c, "None")
instr__reserved(c, i) == Return(c, "RI")
instr__warning(c, i) == Return(c, "None")

\* The instructions that talk to the simulator.
Specific(c, then) == IF c.specific THEN then ELSE Return(c, "RI")
Host(c, what) == [c EXCEPT !.host = what, !.exc = "None"]
instr__xcrd(c, i) == Specific(c, Host(c, "dump_cp0"))
instr__xrd(c, i) == Specific(c, Host(c, "dump_regs"))
instr__xval(c, i) == Specific(c, Host(c, "show_a0"))
instr__xhlt(c, i) == Specific(c, Host(c, "halt"))
instr__xtrc(c, i) == Specific(c, Host(c, "trace_on"))
instr__xtr0(c, i) == Specific(c, Host(c, "trace_off"))
instr__xint(c, i) == Host(c, IF c.tty THEN "interactive" ELSE "halt")

---------------------------------------------------------------------------
\* Coprocessors 1 and 2 are absent: usable ones are ignored.
instr_cfc1(c, i) == Ignored(c, 1)
instr_ctc1(c, i) == Ignored(c, 1)
instr_mfc1(c, i) == Ignored(c, 1)
instr_mtc1(c, i) == Ignored(c, 1)
instr_dmfc1(c, i) == In64(c, Ignored(c, 1))
instr_dmtc1(c, i) == Ignored(c, 1)
instr_lwc1(c, i) == Ignored(c, 1)
instr_ldc1(c, i) == Ignored(c, 1)
instr_swc1(c, i) == Ignored(c, 1)
instr_sdc1(c, i) == Ignored(c, 1)
instr_cfc2(c, i) == Ignored(c, 2)
instr_ctc2(c, i) == Ignored(c, 2)
instr_mfc2(c, i) == Ignored(c, 2)
instr_lwc2(c, i) == Ignored(c, 2)
instr_ldc2(c, i) == Ignored(c, 2)
instr_swc2(c, i) == Ignored(c, 2)
instr_sdc2(c, i) == Ignored(c, 2)
\* Their conditions are always true.
instr_bc0f(c, i) == Ignored(c, 0)
instr_bc1f(c, i) == Ignored(c, 1)
instr_bc2f(c, i) == Ignored(c, 2)
instr_bc0fl(c, i) == Usable(c, 0, Skip(c))
instr_bc1fl(c, i) == Usable(c, 1, Skip(c))
instr_bc2fl(c, i) == Usable(c, 2, Skip(c))
instr_bc0t(c, i) == Usable(c, 0, Taken(c, i))
instr_bc1t(c, i) == Usable(c, 1, Taken(c, i))
instr_bc2t(c, i) == Usable(c, 2, Taken(c, i))
instr_bc0tl(c, i) == Usable(c, 0, Taken(c, i))
instr_bc1tl(c, i) == Usable(c, 1, Taken(c, i))
instr_bc2tl(c, i) == Usable(c, 2, Taken(c, i))

---------------------------------------------------------------------------
\* The routine the decoder chose.
Routines ==
    {"lb", "lbu", "lh", "lhu", "lw", "lwu", "ld", "sb", "sh", "sw", "sd", "lwl", "lwr",
     "swl", "swr", "ldl", "ldr", "sdl", "sdr", "cache", "ll", "lld", "sc", "scd", "add",
     "addi", "addiu", "addu", "sub", "subu", "dadd", "daddi", "daddiu", "daddu", "dsub",
     "dsubu", "and", "andi", "or", "ori", "xor", "xori", "nor", "lui", "sll", "sllv",
     "srl", "srlv", "sra", "srav", "dsll", "dsll32", "dsllv", "dsrl", "dsrl32", "dsrlv",
     "dsra", "dsra32", "dsrav", "slt", "slti", "sltu", "sltiu", "mult", "multu", "div",
     "divu", "ddiv", "ddivu", "dmult", "dmultu", "mfhi", "mflo", "mthi", "mtlo", "beq",
     "bne", "bgez", "bgtz", "blez", "bltz", "beql", "bnel", "bgezl", "bgtzl", "blezl",
     "bltzl", "bgezal", "bltzal", "bgezall", "bltzall", "j", "jal", "jalr", "jr", "teq",
     "teqi", "tne", "tnei", "tge", "tgei", "tgeu", "tgeiu", "tlt", "tlti", "tltu",
     "tltiu", "break", "syscall", "sync", "_reserved", "_warning", "_xcrd", "_xrd",
     "_xval", "_xhlt", "_xtrc", "_xtr0", "_xint", "cfc1", "ctc1", "mfc1", "mtc1",
     "dmfc1", "dmtc1", "lwc1", "ldc1", "swc1", "sdc1", "cfc2", "ctc2", "mfc2", "lwc2",
     "ldc2", "swc2", "sdc2", "bc0f", "bc1f", "bc2f", "bc0fl", "bc1fl", "bc2fl", "bc0t",
     "bc1t", "bc2t", "bc0tl", "bc1tl", "bc2tl"}
execute_routine(op, c, i) ==
    CASE op = "lb" -> instr_lb(c, i) [] op = "lbu" -> instr_lbu(c, i) [] op = "lh" -> instr_lh(c, i)
      [] op = "lhu" -> instr_lhu(c, i) [] op = "lw" -> instr_lw(c, i)
      [] op = "lwu" -> instr_lwu(c, i) [] op = "ld" -> instr_ld(c, i) [] op = "sb" -> instr_sb(c, i)
      [] op = "sh" -> instr_sh(c, i) [] op = "sw" -> instr_sw(c, i) [] op = "sd" -> instr_sd(c, i)
      [] op = "lwl" -> instr_lwl(c, i) [] op = "lwr" -> instr_lwr(c, i)
      [] op = "swl" -> instr_swl(c, i) [] op = "swr" -> instr_swr(c, i)
      [] op = "ldl" -> instr_ldl(c, i) [] op = "ldr" -> instr_ldr(c, i)
      [] op = "sdl" -> instr_sdl(c, i) [] op = "sdr" -> instr_sdr(c, i)
      [] op = "cache" -> instr_cache(c, i) [] op = "ll" -> instr_ll(c, i)
      [] op = "lld" -> instr_lld(c, i) [] op = "sc" -> instr_sc(c, i)
      [] op = "scd" -> instr_scd(c, i) [] op = "add" -> instr_add(c, i)
      [] op = "addi" -> instr_addi(c, i) [] op = "addiu" -> instr_addiu(c, i)
      [] op = "addu" -> instr_addu(c, i) [] op = "sub" -> instr_sub(c, i)
      [] op = "subu" -> instr_subu(c, i) [] op = "dadd" -> instr_dadd(c, i)
      [] op = "daddi" -> instr_daddi(c, i) [] op = "daddiu" -> instr_daddiu(c, i)
      [] op = "daddu" -> instr_daddu(c, i) [] op = "dsub" -> instr_dsub(c, i)
      [] op = "dsubu" -> instr_dsubu(c, i) [] op = "and" -> instr_and(c, i)
      [] op = "andi" -> instr_andi(c, i) [] op = "or" -> instr_or(c, i)
      [] op = "ori" -> instr_ori(c, i) [] op = "xor" -> instr_xor(c, i)
      [] op = "xori" -> instr_xori(c, i) [] op = "nor" -> instr_nor(c, i)
      [] op = "lui" -> instr_lui(c, i) [] op = "sll" -> instr_sll(c, i)
      [] op = "sllv" -> instr_sllv(c, i) [] op = "srl" -> instr_srl(c, i)
      [] op = "srlv" -> instr_srlv(c, i) [] op = "sra" -> instr_sra(c, i)
      [] op = "srav" -> instr_srav(c, i) [] op = "dsll" -> instr_dsll(c, i)
      [] op = "dsll32" -> instr_dsll32(c, i) [] op = "dsllv" -> instr_dsllv(c, i)
      [] op = "dsrl" -> instr_dsrl(c, i) [] op = "dsrl32" -> instr_dsrl32(c, i)
      [] op = "dsrlv" -> instr_dsrlv(c, i) [] op = "dsra" -> instr_dsra(c, i)
      [] op = "dsra32" -> instr_dsra32(c, i) [] op = "dsrav" -> instr_dsrav(c, i)
      [] op = "slt" -> instr_slt(c, i) [] op = "slti" -> instr_slti(c, i)
      [] op = "sltu" -> instr_sltu(c, i) [] op = "sltiu" -> instr_sltiu(c, i)
      [] op = "mult" -> instr_mult(c, i) [] op = "multu" -> instr_multu(c, i)
      [] op = "div" -> instr_div(c, i) [] op = "divu" -> instr_divu(c, i)
      [] op = "ddiv" -> instr_ddiv(c, i) [] op = "ddivu" -> instr_ddivu(c, i)
      [] op = "dmult" -> instr_dmult(c, i) [] op = "dmultu" -> instr_dmultu(c, i)
      [] op = "mfhi" -> instr_mfhi(c, i) [] op = "mflo" -> instr_mflo(c, i)
      [] op = "mthi" -> instr_mthi(c, i) [] op = "mtlo" -> instr_mtlo(c, i)
      [] op = "beq" -> instr_beq(c, i) [] op = "bne" -> instr_bne(c, i)
      [] op = "bgez" -> instr_bgez(c, i) [] op = "bgtz" -> instr_bgtz(c, i)
      [] op = "blez" -> instr_blez(c, i) [] op = "bltz" -> instr_bltz(c, i)
      [] op = "beql" -> instr_beql(c, i) [] op = "bnel" -> instr_bnel(c, i)
      [] op = "bgezl" -> instr_bgezl(c, i) [] op = "bgtzl" -> instr_bgtzl(c, i)
      [] op = "blezl" -> instr_blezl(c, i) [] op = "bltzl" -> instr_bltzl(c, i)
      [] op = "bgezal" -> instr_bgezal(c, i) [] op = "bltzal" -> instr_bltzal(c, i)
      [] op = "bgezall" -> instr_bgezall(c, i) [] op = "bltzall" -> instr_bltzall(c, i)
      [] op = "j" -> instr_j(c, i) [] op = "jal" -> instr_jal(c, i)
      [] op = "jalr" -> instr_jalr(c, i) [] op = "jr" -> instr_jr(c, i)
      [] op = "teq" -> instr_teq(c, i) [] op = "teqi" -> instr_teqi(c, i)
      [] op = "tne" -> instr_tne(c, i) [] op = "tnei" -> instr_tnei(c, i)
      [] op = "tge" -> instr_tge(c, i) [] op = "tgei" -> instr_tgei(c, i)
      [] op = "tgeu" -> instr_tgeu(c, i) [] op = "tgeiu" -> instr_tgeiu(c, i)
      [] op = "tlt" -> instr_tlt(c, i) [] op = "tlti" -> instr_tlti(c, i)
      [] op = "tltu" -> instr_tltu(c, i) [] op = "tltiu" -> instr_tltiu(c, i)
      [] op = "break" -> instr_break(c, i) [] op = "syscall" -> instr_syscall(c, i)
      [] op = "sync" -> instr_sync(c, i) [] op = "_reserved" -> instr__reserved(c, i)
      [] op = "_warning" -> instr__warning(c, i) [] op = "_xcrd" -> instr__xcrd(c, i)
      [] op = "_xrd" -> instr__xrd(c, i) [] op = "_xval" -> instr__xval(c, i)
      [] op = "_xhlt" -> instr__xhlt(c, i) [] op = "_xtrc" -> instr__xtrc(c, i)
      [] op = "_xtr0" -> instr__xtr0(c, i) [] op = "_xint" -> instr__xint(c, i)
      [] op = "cfc1" -> instr_cfc1(c, i) [] op = "ctc1" -> instr_ctc1(c, i)
      [] op = "mfc1" -> instr_mfc1(c, i) [] op = "mtc1" -> instr_mtc1(c, i)
      [] op = "dmfc1" -> instr_dmfc1(c, i) [] op = "dmtc1" -> instr_dmtc1(c, i)
      [] op = "lwc1" -> instr_lwc1(c, i) [] op = "ldc1" -> instr_ldc1(c, i)
      [] op = "swc1" -> instr_swc1(c, i) [] op = "sdc1" -> instr_sdc1(c, i)
      [] op = "cfc2" -> instr_cfc2(c, i) [] op = "ctc2" -> instr_ctc2(c, i)
      [] op = "mfc2" -> instr_mfc2(c, i) [] op = "lwc2" -> instr_lwc2(c, i)
      [] op = "ldc2" -> instr_ldc2(c, i) [] op = "swc2" -> instr_swc2(c, i)
      [] op = "sdc2" -> instr_sdc2(c, i) [] op = "bc0f" -> instr_bc0f(c, i)
      [] op = "bc1f" -> instr_bc1f(c, i) [] op = "bc2f" -> instr_bc2f(c, i)
      [] op = "bc0fl" -> instr_bc0fl(c, i) [] op = "bc1fl" -> instr_bc1fl(c, i)
      [] op = "bc2fl" -> instr_bc2fl(c, i) [] op = "bc0t" -> instr_bc0t(c, i)
      [] op = "bc1t" -> instr_bc1t(c, i) [] op = "bc2t" -> instr_bc2t(c, i)
      [] op = "bc0tl" -> instr_bc0tl(c, i) [] op = "bc1tl" -> instr_bc1tl(c, i)
      [] op = "bc2tl" -> instr_bc2tl(c, i)
=============================================================================
