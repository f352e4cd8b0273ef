------------------------------ MODULE Sh2eDecode ------------------------------
(***************************************************************************)
(* The SH-2E instruction decoder (superh_sh2e/decode.c): one table per     *)
(* instruction format, from the format's instruction code to the           *)
(* descriptor the code returns, and the order in which the formats are     *)
(* tried.  Of a descriptor the model keeps the routine that executes the   *)
(* instruction, its cycles, the extra cycles of a taken branch, the bus    *)
(* lock and the two flags that hold interrupts and address errors off      *)
(* until the following instruction.  A missing key is the NULL result.     *)
(***************************************************************************)
EXTENDS Naturals, Sequences, TLC

Desc(exec, cycles, branch, lock, noInt, noAddr) ==
    [exec |-> exec, cycles |-> cycles, branch_cycles |-> branch, bus_lock |-> lock,
     disable_interrupts |-> noInt, disable_address_errors |-> noAddr]

I(exec, cycles) == Desc(exec, cycles, 0, FALSE, FALSE, FALSE)
N(exec, cycles) == Desc(exec, cycles, 0, FALSE, TRUE, FALSE)
L(exec, cycles) == Desc(exec, cycles, 0, TRUE, FALSE, FALSE)
D(exec, cycles) == Desc(exec, cycles, 0, FALSE, TRUE, TRUE)
B(exec, cycles, taken) == Desc(exec, cycles, taken, FALSE, FALSE, FALSE)
S_NoAddressErrors(exec, cycles, taken) == Desc(exec, cycles, taken, FALSE, TRUE, FALSE)
S(exec, cycles, taken) == Desc(exec, cycles, taken, FALSE, TRUE, TRUE)

illegal == I("illegal", 1)

(* 0-format: the whole word is the instruction code. *)
z_format ==
    \h8 :> I("clrt", 1) @@ \h9 :> I("nop", 1) @@ \hB :> D("rts", 2) @@
    \h18 :> I("sett", 1) @@ \h19 :> I("div0u", 1) @@ \h1B :> I("sleep", 3) @@
    \h28 :> I("clrmac", 1) @@ \h2B :> D("rte", 4)

(* n-format, keyed by ic12: compares, rotates and shifts, *)
n_shift ==
    \h415 :> I("cmppl", 1) @@ \h411 :> I("cmppz", 1) @@ \h410 :> I("dt", 1) @@
    \h29 :> I("movt", 1) @@ \h404 :> I("rotl", 1) @@ \h405 :> I("rotr", 1) @@
    \h424 :> I("rotcl", 1) @@ \h425 :> I("rotcr", 1) @@ \h420 :> I("shal", 1) @@
    \h421 :> I("shar", 1) @@ \h400 :> I("shll", 1) @@ \h401 :> I("shlr", 1)

(* long shifts and stores of control and system registers, *)
n_store ==
    \h408 :> I("shll2", 1) @@ \h418 :> I("shll8", 1) @@ \h428 :> I("shll16", 1) @@
    \h409 :> I("shlr2", 1) @@ \h419 :> I("shlr8", 1) @@ \h429 :> I("shlr16", 1) @@
    \h2 :> N("stc_cpu", 1) @@ \h12 :> N("stc_cpu", 1) @@ \h22 :> N("stc_cpu", 1) @@
    \h5A :> I("sts_fpu", 1) @@ \h6A :> I("sts_fpu", 1) @@ \hA :> N("sts_cpu", 1) @@
    \h1A :> N("sts_cpu", 1) @@ \h2A :> N("sts_cpu", 1)

(* TAS.B and the pre-decrement stores of the same registers. *)
n_memory ==
    \h41B :> L("tas", 1) @@ \h403 :> N("stcm_cpu", 1) @@ \h413 :> N("stcm_cpu", 1) @@
    \h423 :> N("stcm_cpu", 1) @@ \h452 :> I("stsm_fpu", 1) @@ \h462 :> I("stsm_fpu", 1) @@
    \h402 :> N("stsm_cpu", 1) @@ \h412 :> N("stsm_cpu", 1) @@ \h422 :> N("stsm_cpu", 1)

n_format_fpu ==
    \hD :> I("fsts", 1) @@ \h2D :> I("float", 1) @@ \h4D :> I("fneg", 1) @@
    \h5D :> I("fabs", 1) @@ \h8D :> I("fldi0", 1) @@ \h9D :> I("fldi1", 1)

(* m-format: register loads and the indirect jumps, *)
m_load ==
    \h40E :> N("ldc_sr", 1) @@ \h41E :> N("ldc_gbr", 1) @@ \h42E :> N("ldc_vbr", 1) @@
    \h45A :> I("lds_fpul", 1) @@ \h46A :> I("lds_fpscr", 1) @@ \h40A :> N("lds_mach", 1) @@
    \h41A :> N("lds_macl", 1) @@ \h42A :> N("lds_pr", 1) @@ \h42B :> D("jmp", 2) @@
    \h40B :> D("jsr", 2)

(* the post-increment loads and the register-relative branches. *)
m_memory ==
    \h407 :> N("ldcl_sr", 3) @@ \h417 :> N("ldcl_gbr", 3) @@ \h427 :> N("ldcl_vbr", 3) @@
    \h456 :> I("ldsl_fpul", 1) @@ \h466 :> I("ldsl_fpscr", 1) @@ \h406 :> N("ldsl_mach", 1) @@
    \h416 :> N("ldsl_macl", 1) @@ \h426 :> N("ldsl_pr", 1) @@ \h23 :> D("braf", 2) @@
    \h3 :> D("bsrf", 2)

m_format_fpu ==
    \h1D :> I("flds", 1) @@ \h3D :> I("ftrc", 1)

(* nm-format, keyed by ic8, in the order of the switch. *)
nm_compare ==
    \h3C :> I("add", 1) @@ \h3E :> I("addc", 1) @@ \h3F :> I("addv", 1) @@
    \h29 :> I("and", 1) @@ \h30 :> I("cmpeq", 1) @@ \h32 :> I("cmphs", 1) @@
    \h33 :> I("cmpge", 1) @@ \h36 :> I("cmphi", 1) @@ \h37 :> I("cmpgt", 1) @@
    \h2C :> I("cmpstr", 1) @@ \h34 :> I("div1", 1) @@ \h27 :> I("div0s", 1) @@
    \h3D :> I("dmulsl", 2)

nm_multiply ==
    \h35 :> I("dmulul", 2) @@ \h6E :> I("extsb", 1) @@ \h6F :> I("extsw", 1) @@
    \h6C :> I("extub", 1) @@ \h6D :> I("extuw", 1) @@ \h63 :> I("mov", 1) @@
    \h7 :> I("mull", 2) @@ \h2F :> I("mulsw", 1) @@ \h2E :> I("muluw", 1) @@
    \h6B :> I("neg", 1) @@ \h6A :> I("negc", 1) @@ \h67 :> I("not", 1) @@
    \h2B :> I("or", 1)

nm_logic ==
    \h38 :> I("sub", 1) @@ \h3A :> I("subc", 1) @@ \h3B :> I("subv", 1) @@
    \h68 :> I("swapb", 1) @@ \h69 :> I("swapw", 1) @@ \h28 :> I("tst", 1) @@
    \h2A :> I("xor", 1) @@ \h2D :> I("xtrct", 1)

nm_move ==
    \h20 :> I("movbs", 1) @@ \h21 :> I("movws", 1) @@ \h22 :> I("movls", 1) @@
    \h60 :> I("movbl", 1) @@ \h61 :> I("movwl", 1) @@ \h62 :> I("movll", 1) @@
    \hF :> I("macl", 3) @@ \h4F :> I("macw", 3) @@ \h64 :> I("movbp", 1) @@
    \h65 :> I("movwp", 1) @@ \h66 :> I("movlp", 1)

nm_indexed ==
    \h24 :> I("movbm", 1) @@ \h25 :> I("movwm", 1) @@ \h26 :> I("movlm", 1) @@
    \h4 :> I("movbs0", 1) @@ \h5 :> I("movws0", 1) @@ \h6 :> I("movls0", 1) @@
    \hC :> I("movbl0", 1) @@ \hD :> I("movwl0", 1) @@ \hE :> I("movll0", 1)

nm_format_fpu ==
    \h0 :> I("fadd", 1) @@ \h4 :> I("fcmpeq", 1) @@ \h5 :> I("fcmpgt", 1) @@
    \h3 :> I("fdiv", 13) @@ \hE :> I("fmac", 1) @@ \hC :> I("fmov", 1) @@
    \h6 :> I("fmovli", 1) @@ \h9 :> I("fmovlr", 1) @@ \h8 :> I("fmovl", 1) @@
    \h7 :> I("fmovsi", 1) @@ \hB :> I("fmovss", 1) @@ \hA :> I("fmovs", 1) @@
    \h2 :> I("fmul", 1) @@ \h1 :> I("fsub", 1)

md_format ==
    \h84 :> I("movbl4", 1) @@ \h85 :> I("movwl4", 1)

nd4_format ==
    \h80 :> I("movbs4", 1) @@ \h81 :> I("movws4", 1)

nmd_format ==
    \h1 :> I("movls4", 1) @@ \h5 :> I("movll4", 1)

d_format ==
    \hC4 :> I("movblg", 1) @@ \hC5 :> I("movwlg", 1) @@ \hC6 :> I("movllg", 1) @@
    \hC0 :> I("movbsg", 1) @@ \hC1 :> I("movwsg", 1) @@ \hC2 :> I("movlsg", 1) @@
    \hC7 :> I("mova", 1) @@ \h8B :> B("bf", 1, 2) @@ \h8F :> S("bfs", 1, 1) @@
    \h89 :> B("bt", 1, 2) @@ \h8D :> S("bts", 1, 1)

d12_format ==
    \hA :> D("bra", 2) @@ \hB :> D("bsr", 2)

nd8_format ==
    \h9 :> I("movwi", 1) @@ \hD :> I("movli", 1)

i_format ==
    \hCC :> I("tstm", 3) @@ \hCD :> I("andm", 3) @@ \hCE :> I("xorm", 3) @@
    \hCF :> I("orm", 3) @@ \h88 :> I("cmpim", 1) @@ \hC8 :> I("tsti", 1) @@
    \hC9 :> I("andi", 1) @@ \hCA :> I("xori", 1) @@ \hCB :> I("ori", 1) @@
    \hC3 :> I("trapa", 8)

ni_format ==
    \h7 :> I("addi", 1) @@ \hE :> I("movi", 1)

(* MSIM's own instructions, illegal when the command line disables them. *)
msim_format(specific) ==
    \h8200 :> (IF specific THEN I("halt", 1) ELSE illegal) @@
    \h8201 :> (IF specific THEN I("cpu_reg_dump", 1) ELSE illegal) @@
    \h8202 :> (IF specific THEN I("fpu_reg_dump", 1) ELSE illegal)

n_format == n_shift @@ n_store @@ n_memory
m_format == m_load @@ m_memory
nm_format == nm_compare @@ nm_multiply @@ nm_logic @@ nm_move @@ nm_indexed

(* The codes of a word in the formats' bit fields. *)
ic4(w) == w \div 4096
ic8(w) == w \div 256
ic12(w) == (w \div 4096) * 256 + (w % 256)
icnm(w) == (w \div 4096) * 16 + (w % 16)

(* A format tried on a word: its table and the word's code in it. *)
Try(table, code) == [table |-> table, code |-> code]
Hit(t) == t.code \in DOMAIN t.table

(* The formats in the order the switch on the top four bits tries them. *)
Formats(w, specific) ==
    LET z == Try(z_format, w)
        n == Try(n_format, ic12(w))
        m == Try(m_format, ic12(w))
        nm == Try(nm_format, icnm(w))
        d == Try(d_format, ic8(w))
        i == Try(i_format, ic8(w))
    IN  CASE ic4(w) = \b0000 -> <<z, n, m, nm>>
          [] ic4(w) \in {\b0001, \b0101} -> <<Try(nmd_format, ic4(w))>>
          [] ic4(w) \in {\b0010, \b0011, \b0110} -> <<nm>>
          [] ic4(w) = \b0100 -> <<n, m, nm>>
          [] ic4(w) \in {\b0111, \b1110} -> <<Try(ni_format, ic4(w))>>
          [] ic4(w) = \b1000 -> <<Try(md_format, ic8(w)), Try(nd4_format, ic8(w)), d, i,
                                  Try(msim_format(specific), w)>>
          [] ic4(w) \in {\b1001, \b1101} -> <<Try(nd8_format, ic4(w))>>
          [] ic4(w) \in {\b1010, \b1011} -> <<Try(d12_format, ic4(w))>>
          [] ic4(w) = \b1100 -> <<d, i>>
          [] ic4(w) = \b1111 -> <<Try(n_format_fpu, w % 256), Try(m_format_fpu, w % 256),
                                  Try(nm_format_fpu, w % 16)>>

(* The first format with the word's code gives the descriptor. *)
sh2e_insn_decode(w, specific) ==
    LET fs == Formats(w, specific)
        hits == {k \in 1 .. Len(fs) : Hit(fs[k])}
        first == CHOOSE k \in hits : \A j \in hits : k <= j
    IN  IF hits = {} THEN illegal ELSE fs[first].table[fs[first].code]

=============================================================================
