--------------------------------- MODULE Isa --------------------------------
(***************************************************************************)
(* Short programs on the instruction routines of the three processors,     *)
(* and instruction words on their decoders.  An initial state is a job: a  *)
(* straight line of routines with their operands and the processor state   *)
(* they start from, or a word to decode.  A step executes one routine the  *)
(* way the processor's execute function does.                              *)
(***************************************************************************)
EXTENDS Integers, Sequences, FiniteSets, TLC

Sh == INSTANCE Sh2eInstr WITH B <- 1
Mips == INSTANCE R4kInstr WITH B <- 1
Rv32 == INSTANCE RvInstr WITH B <- 1, N <- 4, RV_MTIME_ADDRESS <- 8, RV_MTIMECMP_ADDRESS <- 16
Rv64 == INSTANCE RvInstr WITH B <- 1, N <- 8, RV_MTIME_ADDRESS <- 240, RV_MTIMECMP_ADDRESS <- 248
ShDec == INSTANCE Sh2eDecode
MipsDec == INSTANCE R4kDecode
Rv32Dec == INSTANCE Rv32Decode
Rv64Dec == INSTANCE Rv64Decode

CONSTANTS
    Words4,     \* sample of word values, a subset of 0 .. 15
    Bytes8,     \* sample of memory contents, a subset of [0 .. 7 -> 0 .. 1]
    ShWords,    \* instruction words of the SH-2E
    MipsWords,  \* instruction words of the R4000
    RvWords     \* instruction words of RISC-V

VARIABLES
    job,        \* what the program is for
    prog,       \* the routines to execute, each with its operands
    k,          \* how many have been executed
    c0,         \* the processor state at the start, or the word to decode
    c           \* the processor state, or the decoders' answers

vars == <<job, prog, k, c0, c>>

---------------------------------------------------------------------------
\* Processor states at the start of a job.
ShIdle ==
    [r |-> [n \in 0 .. 15 |-> 0], gbr |-> 0, vbr |-> 0, mach |-> 0, macl |-> 0, pr |-> 0, pc |-> 0,
     pc_target |-> 0, br |-> "NONE", t |-> 0, s |-> 0, q |-> 0, m |-> 0, fr |-> [n \in 0 .. 2 |-> 0],
     fpul |-> 0, fpscr |-> [cv |-> 0, cz |-> 0, fv |-> 0, fz |-> 0, ev |-> 0, ez |-> 0],
     mem |-> [a \in 0 .. 15 |-> a % 2], ro |-> {}, sleeping |-> FALSE, host |-> "", exc |-> "None"]
MipsIdle ==
    [regs |-> [n \in {0, 1, 2, 3, 31} |-> 0], hi |-> 0, lo |-> 0, pc |-> 248, pc_next |-> 252,
     branch |-> "NONE", mem |-> [a \in 0 .. 15 |-> a % 2], map |-> [a \in 0 .. 15 |-> "None"],
     llbit |-> FALSE, lladdr |-> 0, tracked |-> FALSE, cu |-> {}, ce |-> 0, mode64 |-> FALSE,
     instr64 |-> FALSE, specific |-> TRUE, tty |-> FALSE, host |-> "", exc |-> "None"]
RvIdle ==
    [regs |-> [n \in 0 .. 4 |-> 0], pc |-> 8, pc_next |-> 12, mem |-> [a \in 0 .. 7 |-> a % 2],
     prot |-> "rw", mmode |-> FALSE, mtime |-> 0, mtimecmp |-> 0, mtip |-> FALSE,
     reserved_valid |-> FALSE, reserved_addr |-> 0, tracked |-> FALSE, tval_next |-> 0,
     undefined |-> FALSE, folded |-> FALSE, exc |-> "none"]

\* Operands: registers by number, the other fields 0 unless given.
ShOp(op, n, m) == [op |-> op, i |-> [rn |-> n, rm |-> m, imm |-> 0, disp |-> 0, csr |-> 1]]
MipsOp(op, s, t, d) ==
    [op |-> op, i |-> [rs |-> s, rt |-> t, rd |-> d, sa |-> 1, imm |-> 0, target |-> 1]]
RvOp(op, d, s1, s2) == [op |-> op, i |-> [rd |-> d, rs1 |-> s1, rs2 |-> s2, imm |-> 0]]

Start(j, p, s) == job = j /\ prog = p /\ k = 0 /\ c0 = s /\ c = s

---------------------------------------------------------------------------
\* SH-2E programs.
\* The division loops of the processor's manual: R0 divides R1:R2 unsigned,
\* and R2 signed.
Bits(p) == p \o p \o p \o p
DivStep == <<ShOp("rotcl", 2, 0), ShOp("div1", 1, 0)>>
DivU == <<ShOp("div0u", 0, 0)>> \o Bits(DivStep) \o <<ShOp("rotcl", 2, 0)>>
DivS == <<ShOp("mov", 3, 2), ShOp("rotcl", 3, 0), ShOp("subc", 1, 1), ShOp("xor", 3, 3),
          ShOp("subc", 2, 3), ShOp("div0s", 1, 0)>> \o Bits(DivStep)
        \o <<ShOp("rotcl", 2, 0), ShOp("addc", 2, 3)>>
ShJobs ==
    \/ \E d \in 1 .. 15, h \in 0 .. 14, l \in 0 .. 15 :
          h < d /\ Start("divu", DivU, [ShIdle EXCEPT !.r[0] = d, !.r[1] = h, !.r[2] = l])
    \/ \E d \in 1 .. 15, l \in 0 .. 15 :
          Start("divs", DivS, [ShIdle EXCEPT !.r[0] = d, !.r[2] = l])
    \* R1:R0 op R3:R2, the low words first, with the carry in T.
    \/ \E op \in {"addc", "subc", "negc"}, a, b \in 0 .. 15, h, j \in Words4 :
          Start("carry", <<ShOp("clrt", 0, 0), ShOp(op, 0, 2), ShOp(op, 1, 3)>>,
                [ShIdle EXCEPT !.r[0] = a, !.r[1] = h, !.r[2] = b, !.r[3] = j])
    \/ \E op \in {"dmulsl", "dmulul", "mull", "mulsw", "muluw"}, a, b \in 0 .. 15 :
          Start("product", <<ShOp(op, 0, 1)>>, [ShIdle EXCEPT !.r[0] = a, !.r[1] = b])
    \* Two terms of a sum of products at the addresses 0 and 8 on.
    \/ \E op \in {"macl", "macw"}, m \in Bytes8, v \in Words4 :
          Start("sum", <<ShOp(op, 0, 1), ShOp(op, 0, 1)>>,
                [ShIdle EXCEPT !.r[0] = 0, !.r[1] = 8, !.mach = v, !.macl = v,
                               !.mem = [a \in 0 .. 15 |-> m[(3 * a) % 8]]])
    \/ \E op \in {"fadd", "fsub", "fmul", "fdiv", "fcmpeq", "fcmpgt", "fabs", "fneg", "fmac", "ftrc"},
          x, y \in 0 .. 15, z \in {0, 2, 5, 9, 12}, ev, ez \in 0 .. 1 :
          /\ z # 0 => op = "fmac"
          /\ Start("fpu", <<ShOp(op, 1, 2)>>,
                   [ShIdle EXCEPT !.fr = 0 :> z @@ 1 :> x @@ 2 :> y, !.fpscr.ev = ev, !.fpscr.ez = ez,
                                  !.fpscr.fz = ev, !.fpscr.fv = ez])
    \/ \E op \in Sh!Routines, a, b \in {0, 1, 2, 6, 8, 15}, ro \in {{}, {0}, {4}}, br \in {"NONE", "DELAY"} :
          Start("sh", <<ShOp(op, 1, 2)>>,
                [ShIdle EXCEPT !.r[1] = a, !.r[2] = b, !.r[15] = a, !.ro = ro, !.br = br, !.t = 1])

\* R4000 programs.
Sx(v) == Mips!sign_extend(v, 16)
MipsJobs ==
    \* The word at address r1, then its last byte's address in r3.
    \/ \E m \in Bytes8, a \in 0 .. 4, first \in {"lwl", "lwr"}, old \in {0, Sx(15)} :
          LET l == MipsOp("lwl", 3, 2, 0)
              r == MipsOp("lwr", 1, 2, 0)
          IN Start("lw", IF first = "lwl" THEN <<l, r>> ELSE <<r, l>>,
                   [MipsIdle EXCEPT !.regs[1] = a, !.regs[3] = a + 3, !.regs[2] = old,
                                    !.mem = [b \in 0 .. 15 |-> m[b % 8]]])
    \/ \E v \in 0 .. 15, a \in 0 .. 4, first \in {"swl", "swr"}, fill \in 0 .. 1 :
          LET l == MipsOp("swl", 3, 2, 0)
              r == MipsOp("swr", 1, 2, 0)
          IN Start("sw", IF first = "swl" THEN <<l, r>> ELSE <<r, l>>,
                   [MipsIdle EXCEPT !.regs[1] = a, !.regs[3] = a + 3, !.regs[2] = Sx(v),
                                    !.mem = [b \in 0 .. 15 |-> fill]])
    \/ \E op \in {"mult", "multu", "div", "divu"}, a, b \in 0 .. 15 :
          Start("hilo", <<MipsOp(op, 1, 2, 0), MipsOp("mflo", 0, 0, 3), MipsOp("mfhi", 0, 0, 2)>>,
                [MipsIdle EXCEPT !.regs[1] = Sx(a), !.regs[2] = Sx(b)])
    \/ \E op \in Mips!Routines, a, b \in {0, 1, 6, Sx(8), Sx(9), Sx(15)},
          m \in {"None", "Modified", "AddrError", "Invalid", "Refill"}, wide \in BOOLEAN, cu \in {{}, 0 .. 2} :
          Start("r4k", <<MipsOp(op, 1, 2, 3)>>,
                [MipsIdle EXCEPT !.regs[1] = a, !.regs[2] = b, !.map = [p \in 0 .. 15 |-> m],
                                 !.mode64 = wide, !.instr64 = wide, !.cu = cu])
    \* A conditional store after its load linked.
    \/ \E op \in {"sc", "scd"}, a \in {0, 1, 6, 8}, m \in {"None", "Modified", "AddrError", "Invalid", "Refill"} :
          Start("r4k", <<MipsOp(op, 1, 2, 3)>>,
                [MipsIdle EXCEPT !.regs[1] = a, !.regs[2] = 1, !.map = [p \in 0 .. 15 |-> m], !.mode64 = TRUE,
                                 !.instr64 = TRUE, !.llbit = TRUE, !.tracked = TRUE, !.lladdr = 0])

\* RISC-V programs: x1 and x2 are the operands.
WordForms == "add" :> "addw" @@ "sub" :> "subw" @@ "sll" :> "sllw" @@ "srl" :> "srlw" @@ "sra" :> "sraw"
             @@ "mul" :> "mulw" @@ "div" :> "divw" @@ "divu" :> "divuw" @@ "rem" :> "remw"
             @@ "remu" :> "remuw"
RvTwo(a, b) == [RvIdle EXCEPT !.regs[1] = a, !.regs[2] = b]
RvJobs ==
    \/ \E op \in {"mulh", "mulhu", "mulhsu"}, a, b \in 0 .. 15 :
          Start("high", <<RvOp("mul", 3, 1, 2), RvOp(op, 4, 1, 2)>>, RvTwo(a, b))
    \/ \E op \in {<<"div", "rem">>, <<"divu", "remu">>}, a, b \in 0 .. 15 :
          Start("quotient", <<RvOp(op[1], 3, 1, 2), RvOp(op[2], 4, 1, 2)>>, RvTwo(a, b))
    \/ \E op \in DOMAIN WordForms, a, b \in 0 .. 15, h, j \in {0, 5, 15} :
          Start("word", <<RvOp(WordForms[op], 3, 1, 2), RvOp(op, 4, 1, 2)>>, RvTwo(16 * h + a, 16 * j + b))
    \* lr.w x3, (x1); a store of x2 at x2; sc.w x4, x2, (x1)
    \/ \E op \in {"sb", "sh", "sw", "fence"}, a, b \in 0 .. 9 :
          Start("lrsc", <<RvOp("lr_w", 3, 1, 0), RvOp(op, 0, 2, 2), RvOp("sc_w", 4, 1, 2)>>, RvTwo(a, b))
    \/ \E op \in Rv32!Routines, a, b \in {0, 1, 2, 6, 15}, p \in {"rw", "r", ""}, m, lr \in BOOLEAN :
          Start("rv32", <<RvOp(op, 3, 1, 2)>>, [RvTwo(a, b) EXCEPT !.prot = p, !.mmode = m, !.reserved_valid = lr, !.tracked = lr])
    \/ \E op \in Rv64!Routines, a, b \in {0, 1, 4, 251, 252}, p \in {"rw", "r", ""}, m, lr \in BOOLEAN :
          Start("rv64", <<RvOp(op, 3, 1, 2)>>, [RvTwo(a, b) EXCEPT !.prot = p, !.mmode = m, !.reserved_valid = lr, !.tracked = lr])
    \* Jumps and branches to targets that may be misaligned.
    \/ \E op \in {"jal", "jalr", "beq", "bne", "blt", "bge", "bltu", "bgeu"}, a, b \in 0 .. 3, to \in {0, 2, 4, 6},
          w \in {"rv32", "rv64"} :
          Start(w, <<[op |-> op, i |-> [rd |-> 3, rs1 |-> 1, rs2 |-> 2, imm |-> to]]>>, RvTwo(a, b))

DecodeJobs ==
    \/ \E w \in ShWords : Start("sh-word", <<"decode">>, w)
    \/ \E w \in MipsWords : Start("r4k-word", <<"decode">>, w)
    \/ \E w \in RvWords : Start("rv-word", <<"decode">>, w)

Init == ShJobs \/ MipsJobs \/ RvJobs \/ DecodeJobs

---------------------------------------------------------------------------
Executes(kinds) == job \in kinds /\ k < Len(prog) /\ k' = k + 1 /\ UNCHANGED <<job, prog, c0>>
Op == prog[k + 1].op
Operands == prog[k + 1].i

\* sh2e_cpu_execute_insn: the routine, unless an earlier one raised an exception.
ShStep ==
    /\ Executes({"divu", "divs", "carry", "product", "sum", "fpu", "sh"})
    /\ c.exc = "None"
    /\ c' = Sh!execute_routine(Op, c, Operands)

\* execute of the R4000: register 0 is cleared after every routine.
MipsStep ==
    /\ Executes({"lw", "sw", "hilo", "r4k"})
    /\ c.exc = "None"
    /\ c' = [Mips!execute_routine(Op, c, Operands) EXCEPT !.regs[0] = 0]

\* rv_cpu_step: so is x0.  The word jobs run their second routine on rv32.
RvStep ==
    /\ Executes({"high", "quotient", "word", "lrsc", "rv32", "rv64"})
    /\ c.exc = "none"
    /\ LET low == [c EXCEPT !.regs[1] = @ % 16, !.regs[2] = @ % 16]
       IN c' = [(CASE job = "rv64" \/ (job = "word" /\ k = 0) -> Rv64!execute_routine(Op, c, Operands)
                   [] job = "word" /\ k = 1 -> Rv32!execute_routine(Op, low, Operands)
                   [] OTHER -> Rv32!execute_routine(Op, c, Operands)) EXCEPT !.regs[0] = 0]

Decode ==
    /\ Executes({"sh-word", "r4k-word", "rv-word"})
    /\ c' = CASE job = "sh-word" -> ShDec!sh2e_insn_decode(c0, TRUE)
              [] job = "r4k-word" -> <<MipsDec!decode(c0), MipsDec!decode_mnemonics(c0)>>
              [] job = "rv-word" -> <<Rv32Dec!rv32_instr_decode(c0, TRUE), Rv64Dec!rv64_instr_decode(c0, TRUE),
                                     Rv32Dec!rv_decode_mnemonics(c0, TRUE), Rv64Dec!rv64_decode_mnemonics(c0, TRUE)>>

Next == ShStep \/ MipsStep \/ RvStep \/ Decode

Spec == Init /\ [][Next]_vars

---------------------------------------------------------------------------
\* A program that ran to its end.
Done(kinds) == job \in kinds /\ k = Len(prog)
Only == prog[1].op
S4(v) == Sh!Signed(v, 16)
S8(v) == Sh!Signed(v, 256)

\* exec_div0u, exec_div0s, exec_div1, exec_rotcl, exec_subc and exec_addc:
\* the division programs of the manual leave the quotient in R2, for every
\* dividend and divisor whose quotient fits.
ShDivides ==
    /\ Done({"divu"}) => c.r[2] = (16 * c0.r[1] + c0.r[2]) \div c0.r[0]
    /\ Done({"divs"}) => c.r[2] = Sh!Quot(S4(c0.r[2]), S4(c0.r[0])) % 16

\* exec_addc, exec_subc and exec_negc, chained through T: arithmetic on two
\* words, with the carry or borrow of the whole in T at the end.
CarryChains ==
    Done({"carry"}) =>
        LET a == 16 * c0.r[1] + c0.r[0]
            b == 16 * c0.r[3] + c0.r[2]
            res == 16 * c.r[1] + c.r[0]
            op == prog[2].op
        IN CASE op = "addc" -> res + 256 * c.t = a + b
             [] op = "subc" -> res - 256 * c.t = a - b
             [] op = "negc" -> res - 256 * c.t = -b

\* The full products of exec_dmuls and exec_dmulu, of instr_mult and
\* instr_multu, and of rv_mul_instr with rv_mulh_instr, rv_mulhu_instr or
\* rv_mulhsu_instr; and the sums exec_macl and exec_macw accumulate when S is
\* clear.
Products ==
    /\ Done({"product"}) =>
          LET mac == 16 * c.mach + c.macl
              a == c0.r[0]
              b == c0.r[1]
          IN CASE Only = "dmulsl" -> S8(mac) = S4(a) * S4(b)
               [] Only = "dmulul" -> mac = a * b
               [] Only = "mull" -> c.macl = (a * b) % 16
               [] Only = "mulsw" -> S4(c.macl) = Sh!Signed(a % 4, 4) * Sh!Signed(b % 4, 4)
               [] Only = "muluw" -> c.macl = (a % 4) * (b % 4)
    /\ Done({"hilo"}) =>
          /\ Only = "mult" => S8(16 * (c.regs[2] % 16) + (c.regs[3] % 16)) = S8(c0.regs[1]) * S8(c0.regs[2])
          /\ Only = "multu" => 16 * (c.regs[2] % 16) + (c.regs[3] % 16) = (c0.regs[1] % 16) * (c0.regs[2] % 16)
    /\ Done({"high"}) =>
          LET res == 16 * c.regs[4] + c.regs[3]
              a == c0.regs[1]
              b == c0.regs[2]
              op == prog[2].op
          IN CASE op = "mulh" -> S8(res) = S4(a) * S4(b)
               [] op = "mulhu" -> res = a * b
               [] op = "mulhsu" -> S8(res) = S4(a) * b
    /\ Done({"sum"}) =>
          LET n == IF Only = "macl" THEN 4 ELSE 2
              Term(j) == Sh!ReadSigned(c0, n * j, n) * Sh!ReadSigned(c0, 8 + n * j, n)
          IN 16 * c.mach + c.macl = (16 * c0.mach + c0.macl + Term(0) + Term(1)) % 256

\* instr_div and instr_divu, rv_div_instr with rv_rem_instr and their unsigned
\* forms: dividend = quotient * divisor + remainder, the remainder smaller than
\* the divisor and with the sign of the dividend.  Division by zero gives zeros
\* on the R4000, and all ones with the dividend as the remainder on RISC-V.
Quotients ==
    /\ (Done({"hilo"}) /\ Only \in {"div", "divu"}) =>
          LET V(v) == IF Only = "div" THEN S8(v) ELSE v % 16
              a == V(c0.regs[1])
              b == V(c0.regs[2])
              q == V(c.regs[3])
              m == V(c.regs[2])
          IN IF b = 0 THEN q = 0 /\ m = 0
             ELSE a = q * b + m /\ Sh!Abs(m) < Sh!Abs(b) /\ (m = 0 \/ (m < 0) = (a < 0))
    /\ Done({"quotient"}) =>
          LET V(v) == IF Only = "div" THEN S4(v) ELSE v
              a == V(c0.regs[1])
              b == V(c0.regs[2])
              q == V(c.regs[3])
              m == V(c.regs[4])
          IN IF b = 0 THEN c.regs[3] = 15 /\ m = a
             ELSE (a - (q * b + m)) % 16 = 0 /\ Sh!Abs(m) < Sh!Abs(b) /\ (m = 0 \/ (m < 0) = (a < 0))

\* instr_lwl with instr_lwr, and instr_swl with instr_swr, in either order:
\* together they load or store the word at any address, and a store leaves the
\* bytes around it alone.
UnalignedAccess ==
    LET a == c0.regs[1] IN
    /\ Done({"lw"}) => c.regs[2] % 16 = Mips!LoadLE(c0.mem, a, 4)
    /\ Done({"sw"}) => c.mem = Mips!StoreLE(c0.mem, a, 4, c0.regs[2])

\* The word forms of rv64 (rv_addw_instr and its like) give the sign-extended
\* result that the same operation gives on rv32, whatever the upper halves of
\* the operands hold.
WordFormsAgree == Done({"word"}) => c.regs[3] = Rv64!sign_extend_to_xlen(c.regs[4], 16)

\* rv_lr_w_instr, rv_sc_access and rv_sc_w_instr: the conditional store succeeds
\* exactly when the store in between touched no byte of the reserved word, and
\* memory holds exactly the stores that took place.
LrScExact ==
    (Done({"lrsc"}) /\ c.exc = "none") =>
        LET a == c0.regs[1]
            b == c0.regs[2]
            n == [sb |-> 1, sh |-> 2, sw |-> 4, fence |-> 0][prog[2].op]
            stored == Rv32!Present(c0, b, n)
            overlap == stored /\ (a .. a + 3) \cap (b .. b + n - 1) # {}
            between == IF stored THEN Rv32!StoreLE(c0.mem, b, n, b) ELSE c0.mem
        IN /\ c.regs[4] = Rv32!Bool(overlap)
           /\ c.mem = IF overlap \/ ~Rv32!Present(c0, a, 4) THEN between
                      ELSE Rv32!StoreLE(between, a, 4, b)

\* Every routine that returns an exception, of all three processors, leaves
\* registers and memory as they were, so that the instruction can be executed
\* again.  What the code does not leave is exempt by name: the memory of
\* exec_trapa, whose first push stays when the second fails; rd of rv_sc_instr
\* and rv_sc_w_instr; and the link that a failing instr_ll, instr_lld, instr_sc
\* or instr_scd ends.
PreciseFaults ==
    /\ (Done({"sh", "fpu"}) /\ c.exc # "None") =>
          /\ [c EXCEPT !.exc = "None", !.fpscr = c0.fpscr, !.mem = c0.mem] = c0
          /\ Only # "trapa" => c.mem = c0.mem
    /\ (Done({"r4k"}) /\ c.exc \notin {"None", "Jump"}) =>
          /\ [c EXCEPT !.exc = "None", !.ce = c0.ce, !.host = c0.host, !.llbit = c0.llbit, !.tracked = c0.tracked] = c0
          /\ Only \notin {"ll", "lld", "sc", "scd"} => c.llbit = c0.llbit /\ c.tracked = c0.tracked
    /\ (Done({"rv32", "rv64"}) /\ c.exc # "none") =>
          /\ c.mem = c0.mem
          /\ Only \notin {"sc", "sc_w"} => c.regs = c0.regs
          /\ c.pc_next = c0.pc_next

\* The FPU routines and FPSCR: a flag once set stays, a cause is recorded in its
\* flag, and the exception is raised exactly when a cause is enabled, the
\* registers then being untouched.  exec_fmac is exec_fmul then exec_fadd.
FpuFlags ==
    Done({"fpu"}) =>
        LET e == c0.fpscr
            f == c.fpscr
            mul == Sh!exec_fmul([c0 EXCEPT !.fr[1] = c0.fr[0]], [rn |-> 1, rm |-> 2])
            add == Sh!exec_fadd([c0 EXCEPT !.fr[2] = mul.fr[1]], [rn |-> 1, rm |-> 2])
        IN /\ f.fv >= e.fv /\ f.fz >= e.fz /\ f.cv <= f.fv /\ f.cz <= f.fz
           /\ (c.exc = "FPU_OPERATION") = (f.cv * e.ev + f.cz * e.ez > 0)
           /\ c.exc = "FPU_OPERATION" => c.fr = c0.fr
           /\ (Only = "fmac" /\ c.exc = "None") => c.fr[1] = add.fr[1]

\* The R4000 in 32-bit mode: registers that hold sign-extended words still do
\* after every routine but instr_lwr, which only extends an aligned word.
SignExtended ==
    (Done({"r4k"}) /\ ~c0.mode64 /\ Only # "lwr") =>
        \A n \in DOMAIN c.regs : c.regs[n] = Mips!sign_extend(c.regs[n] % 16, 16)

\* sh2e_insn_decode: at most one format knows a word, so the order the formats
\* are tried in does not matter; and the descriptors that hold back interrupts
\* and address errors are exactly those of the routines that open a delay slot.
ShDecoding ==
    Done({"sh-word"}) =>
        LET fs == ShDec!Formats(c0, TRUE)
            Opens(t) == Sh!execute_routine(c.exec, [ShIdle EXCEPT !.t = t],
                                           ShOp("", 1, 2).i).br = "DELAY_NEXT"
        IN /\ Cardinality({n \in DOMAIN fs : ShDec!Hit(fs[n])}) <= 1
           /\ (c.disable_interrupts /\ c.disable_address_errors) = \E t \in 0 .. 1 : Opens(t)
           /\ c.disable_address_errors => c.disable_interrupts

\* decode and decode_mnemonics of the R4000 go through two sets of tables: the
\* disassembler names the instruction the processor executes, the slots that
\* only warn being shown as reserved.  Nothing is claimed of the CP0 words whose
\* 8-bit function lies past both tables of 64, and only they have no entry.
PastTable(w) == w.opcode = MipsDec!COP0 /\ w.rs = MipsDec!CO /\ w.func > 63
R4kDisassembly ==
    Done({"r4k-word"}) =>
        IF PastTable(c0) THEN c[1] = MipsDec!Undefined /\ c[2] = MipsDec!Undefined
        ELSE c[1] # MipsDec!Undefined /\ c[2] = IF c[1] = "_warning" THEN "_reserved" ELSE c[1]

\* rv32_instr_decode and rv64_instr_decode: every instruction of rv32 means the
\* same on rv64.
Rv64ExtendsRv32 == Done({"rv-word"}) => (c[1] = Rv32Dec!illegal \/ c[2] = c[1])

\* rv_decode_mnemonics and rv64_decode_mnemonics: a disassembler names no other
\* instruction than the one executed, and knows every one that is legal on rv32.
\* What the code shows as undefined is exempt by name: lr.w and sc.w on rv32,
\* every atomic on rv64, and there also the instructions rv32 does not have.
Atomics == {"lr_w", "sc_w", "amoswap_w", "amoadd_w", "amoxor_w", "amoand_w", "amoor_w", "amomin_w",
            "amomax_w", "amominu_w", "amomaxu_w"}
RvDisassembly ==
    Done({"rv-word"}) =>
        /\ c[3] = IF c[1] \in {Rv32Dec!illegal, "lr_w", "sc_w"} THEN "undefined" ELSE c[1]
        /\ c[4] \in {"undefined", c[2]}
        /\ (c[1] # Rv32Dec!illegal /\ c[1] \notin Atomics) => c[4] = c[2]

\* The chains of routines that multiply, divide, add and subtract with carry,
\* accumulate or follow FPSCR give what the arithmetic of whole numbers gives,
\* with the flags and the sign extension that the next routine relies on.
\* Outside it are the trapping ADD and SUB, the saturating accumulation (S = 1)
\* and the upper half of a word that LWR loads.
ArithmeticExact ==
    ShDivides /\ CarryChains /\ Products /\ Quotients /\ WordFormsAgree /\ SignExtended /\ FpuFlags

\* The routines that access memory move exactly the bytes they are meant to,
\* also in two halves and under a condition.
AccessesExact == UnalignedAccess /\ LrScExact

\* The decoders do not depend on the order their tables are tried in, and agree
\* with each other, with the routines they name and with the disassemblers.
DecodersAgree == ShDecoding /\ R4kDisassembly /\ Rv64ExtendsRv32 /\ RvDisassembly
=============================================================================
