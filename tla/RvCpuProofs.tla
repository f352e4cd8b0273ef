----------------------------- MODULE RvCpuProofs ----------------------------
(***************************************************************************)
(* Proofs about RvCpu for any programs, any devices beside them and, but    *)
(* for the order of interrupts, any width of the registers.  A step of the  *)
(* hart has three phases: the instruction runs, a trap may be taken, and    *)
(* the counters, the timer lines and the program counter close the step.    *)
(* Each phase is described by what it leaves alone and by the little that   *)
(* the properties need of what it changes; the routines of csr.c come       *)
(* first, since every CSR instruction goes through one of them.             *)
(***************************************************************************)
EXTENDS RvCpu, NaturalsInduction, WellFoundedInduction, TLAPS

\* Zenon suffices for most steps; those that need arithmetic cite SMT.
USE Zenon

---------------------------------------------------------------------------
\* The fields of the hart

\* The fields of the record of a hart (rv32_cpu_t and its csr).
Fields ==
    {"mstatus", "mtvec", "medeleg", "mideleg", "mip", "mie", "mscratch", "mepc", "mcause", "mtval",
     "mcounteren", "mcountinhibit", "menvcfg", "misa", "stvec", "scounteren", "sscratch", "sepc", "scause",
     "stval", "senvcfg", "satp", "scontext", "external_SEIP", "external_STIP", "scyclecmp", "mtime",
     "mtimecmp", "cycle", "instret", "hpmcounters", "hpmevents", "tval_next", "asid_len",
     "priv", "pc", "pc_next", "stdby", "rd", "x31", "exc", "target", "host", "taken"}

\* The values that a field of a hart may have between two instructions, and that
\* every routine of csr.c and every trap keeps.
Fit(f, v) ==
    /\ f = "priv" => v \in {rv_umode, rv_smode, rv_mmode}
    /\ f \in {"pc", "pc_next"} => v \in Addresses
    /\ f \in {"stdby", "external_SEIP", "external_STIP"} => v \in BOOLEAN
    /\ f \in {"cycle", "instret", "mtime", "mtimecmp"} => v \in Counters64
    /\ f = "scyclecmp" => v \subseteq UXbits
    /\ f = "host" => v # "assert"
    /\ f \in {"mtvec", "stvec"} => 1 \notin v
    /\ f = "mstatus" => ~ReservedMpp(v)
    /\ f = "medeleg" => 11 \notin v
    /\ f = "mideleg" => v \subseteq si_mask
    /\ f = "mie" => v \subseteq mi_mask

\* A record with the fields of a hart, each of which has one of its values.
IsHart(h) == h = [f \in Fields |-> h[f]] /\ \A f \in Fields : Fit(f, h[f])

\* An assignment of a fitting value to one field of a hart gives a hart, and touches
\* nothing else.
LEMMA PutIs ==
    ASSUME NEW h, IsHart(h), NEW f \in Fields, NEW v, Fit(f, v)
    PROVE  /\ IsHart([h EXCEPT ![f] = v])
           /\ [h EXCEPT ![f] = v][f] = v
           /\ \A x \in Fields \ {f} : [h EXCEPT ![f] = v][x] = h[x]
<1> DEFINE g == [h EXCEPT ![f] = v]
<1>1. h = [x \in Fields |-> h[x]] /\ \A x \in Fields : Fit(x, h[x])
  BY DEF IsHart
<1>2. g = [x \in Fields |-> IF x = f THEN v ELSE h[x]]
  BY <1>1
<1> HIDE DEF g
<1>3. g[f] = v /\ \A x \in Fields \ {f} : g[x] = h[x]
  BY <1>2
<1>4. \A x \in Fields : Fit(x, g[x])
  BY <1>1, <1>3
<1>5. g = [x \in Fields |-> g[x]]
  BY <1>2
<1> QED
  BY <1>3, <1>4, <1>5 DEF IsHart, g

---------------------------------------------------------------------------
\* What a routine of csr.c may do

\* The four things that a CSR routine is asked to do: rv_csr_rw, rv_csr_rs and rv_csr_rc
\* read, and then write, set or clear.
RoutineOps == {"read", "write", "set", "clear"}

\* The registers that only M mode may change.
MachineFields ==
    {"mtvec", "medeleg", "mideleg", "mepc", "mcause", "mtval", "mscratch", "mcounteren", "mcountinhibit",
     "menvcfg", "hpmevents", "mtimecmp"}

\* The value w may take the place of v in field f without M mode noticing: its own
\* registers, its part of mstatus, mie and mip stay, and MPRV is at most cleared.
Kept(f, v, w) ==
    /\ f \in MachineFields => w = v
    /\ f = "mstatus" => /\ w \ (sstatus_mask \cup {MPRV}) = v \ (sstatus_mask \cup {MPRV})
                        /\ MPRV \in w => MPRV \in v
    /\ f = "mie" => w \ si_mask = v \ si_mask
    /\ f = "mip" => w \ {SSI, MTI} = v \ {SSI, MTI}

\* The fields that no CSR routine assigns to a new register value.
Reserved == {"priv", "pc", "pc_next", "stdby", "taken", "exc", "tval_next", "rd", "target", "host"}

\* What a CSR routine may assign: a fitting value, below M mode one that M mode does
\* not notice (a plain write of sstatus excepted, which loses the bits of mstatus outside
\* of its view), and what a trap has saved only through the registers that show it.
Allowed(h, f, v, csr, op) ==
    /\ f \in Fields \ Reserved
    /\ Fit(f, v)
    /\ h.priv # rv_mmode => Kept(f, h[f], v) \/ (csr = csr_num.sstatus /\ op = "write")
    /\ f = "mstatus" => csr \in {csr_num.mstatus, csr_num.sstatus}
    /\ f = "mepc" => csr = csr_num.mepc
    /\ f = "sepc" => csr = csr_num.sepc

\* One such assignment.
Put(h, g, csr, op) == \E f, v : Allowed(h, f, v, csr, op) /\ g = [h EXCEPT ![f] = v]

\* The outcomes of a CSR routine: nothing, an illegal instruction, the end of the
\* simulator (mstatush of the 64-bit build), a value read, or one or two assignments.
Done(h, g, csr, op) ==
    \/ g = h
    \/ g = Illegal(h)
    \/ csr = csr_num.mstatush /\ Xlen # 32 /\ g = [h EXCEPT !.host = "die"]
    \/ op = "read" /\ \E v : g = Target(h, v)
    \/ op # "read" /\ Put(h, g, csr, op)
    \/ op # "read" /\ \E m : Put(h, m, csr, op) /\ Put(m, g, csr, op)

\* A hart runs in one of the three modes that exist.
LEMMA HartPriv == ASSUME NEW h, IsHart(h) PROVE h.priv \in {rv_umode, rv_smode, rv_mmode}
<1>1. "priv" \in Fields
  BY DEF Fields
<1>2. Fit("priv", h["priv"])
  BY <1>1 DEF IsHart
<1> QED
  BY <1>2 DEF Fit

\* The test of the privilege at the head of a routine (minimal_privilege) either lets it
\* go on or makes the instruction illegal.
LEMMA MinimalDone ==
    ASSUME NEW h, IsHart(h), NEW csr, NEW op, NEW priv \in {rv_smode, rv_mmode}, NEW g,
           h.priv >= priv => Done(h, g, csr, op)
    PROVE  Done(h, minimal_privilege(priv, h, g), csr, op)
<1>1. h.priv >= priv \/ h.priv < priv
  BY HartPriv, SMT DEF rv_umode, rv_smode, rv_mmode
<1> QED
  BY <1>1, HartPriv DEF minimal_privilege, Done, rv_umode, rv_smode, rv_mmode

\* A routine that writes, sets or clears a register under a mask has an allowed outcome
\* when what it assigns is allowed.
LEMMA MaskedDone ==
    ASSUME NEW h, IsHart(h), NEW csr, NEW op, NEW value, NEW priv \in {rv_smode, rv_mmode},
           NEW reg, NEW mask,
           op # "read" /\ h.priv >= priv => Allowed(h, reg, Apply(op, h[reg], value \cap mask), csr, op)
    PROVE  Done(h, Masked(h, op, value, priv, reg, mask), csr, op)
<1> DEFINE g == IF op = "read" THEN Target(h, h[reg])
                ELSE [h EXCEPT ![reg] = Apply(op, @, value \cap mask)]
<1>1. h.priv >= priv => Done(h, g, csr, op)
  BY DEF Done, Put
<1> HIDE DEF g
<1>2. Done(h, minimal_privilege(priv, h, g), csr, op)
  BY <1>1, MinimalDone
<1> QED
  BY <1>2 DEF Masked, g

\* What passes the test for M mode runs in M mode.
LEMMA MachineOnly ==
    ASSUME NEW h, IsHart(h), h.priv >= rv_mmode
    PROVE  h.priv = rv_mmode
BY HartPriv, SMT DEF rv_umode, rv_smode, rv_mmode

\* A field of a hart has one of its values.
LEMMA FieldFit == ASSUME NEW h, IsHart(h), NEW f \in Fields PROVE Fit(f, h[f])
BY DEF IsHart

\* The registers in which any value is legal.
Free == {"mip", "mscratch", "mcause", "mtval", "mcounteren", "mcountinhibit", "menvcfg", "scounteren", "sscratch",
         "scause", "stval", "senvcfg", "satp", "scontext", "hpmcounters", "hpmevents", "x31"}

\* Any value may be assigned to a free register.
LEMMA FreeFit == ASSUME NEW f \in Free, NEW v PROVE Fit(f, v) /\ f \in Fields \ Reserved
BY SMT DEF Free, Fit, Fields, Reserved

\* M mode may assign anything to a free register.
LEMMA FreeMachine ==
    ASSUME NEW h, IsHart(h), NEW csr, NEW op, NEW f \in Free, NEW v, h.priv >= rv_mmode
    PROVE  Allowed(h, f, v, csr, op)
BY MachineOnly, FreeFit DEF Allowed, Free

\* So may any mode, where the register is not one of M mode.
LEMMA FreeSupervisor ==
    ASSUME NEW h, NEW csr, NEW op, NEW f \in Free \ (MachineFields \cup {"mip"}), NEW v
    PROVE  Allowed(h, f, v, csr, op)
<1>1. Kept(f, h[f], v)
  BY DEF Kept, Free, MachineFields
<1> QED
  BY <1>1, FreeFit DEF Allowed, Free

---------------------------------------------------------------------------
\* The routines of csr.c

\* Writing, setting and clearing bits brings in only bits of the operand, and setting and
\* clearing leave the others alone.
LEMMA ApplyIs ==
    ASSUME NEW op \in RoutineOps, op # "read", NEW old, NEW value
    PROVE  /\ Apply(op, old, value) \subseteq old \cup value
           /\ op # "write" => Apply(op, old, value) \ value = old \ value
BY DEF Apply, RoutineOps

\* mtvec_write, stvec_write and their set and clear routines never store a reserved
\* vector mode.
LEMMA VectorDone ==
    ASSUME NEW h, IsHart(h), NEW csr, NEW op \in RoutineOps, NEW value
    PROVE  /\ Done(h, mtvec(h, op, value), csr, op)
           /\ Done(h, stvec(h, op, value), csr, op)
<1>1. ASSUME op # "read", NEW f \in {"mtvec", "stvec"}
      PROVE  Fit(f, Apply(op, h[f], value \cap (Bits32 \ {1}))) /\ f \in Fields \ Reserved
  <2>1. f \in Fields \ Reserved
    BY DEF Fields, Reserved
  <2>2. 1 \notin h[f]
    BY <2>1, FieldFit DEF Fit
  <2>3. 1 \notin Apply(op, h[f], value \cap (Bits32 \ {1}))
    BY <1>1, <2>2, ApplyIs, SMT
  <2> QED
    BY <2>1, <2>3 DEF Fit
<1>2. op # "read" /\ h.priv >= rv_mmode
        => Allowed(h, "mtvec", Apply(op, h["mtvec"], value \cap (Bits32 \ {1})), csr, op)
  BY <1>1, MachineOnly DEF Allowed
<1>3. Kept("stvec", h["stvec"], Apply(op, h["stvec"], value \cap (Bits32 \ {1})))
  BY DEF Kept, MachineFields
<1>4. op # "read" => Allowed(h, "stvec", Apply(op, h["stvec"], value \cap (Bits32 \ {1})), csr, op)
  BY <1>1, <1>3 DEF Allowed
<1> QED
  BY <1>2, <1>4, MaskedDone DEF mtvec, stvec

\* The routines of mepc and sepc change only the register they name.
LEMMA EpcDone ==
    ASSUME NEW h, IsHart(h), NEW op, NEW value
    PROVE  /\ Done(h, default_csr_functions(h, op, value, rv_mmode, "mepc"), csr_num.mepc, op)
           /\ Done(h, sepc(h, op, value), csr_num.sepc, op)
<1>1. ASSUME NEW f \in {"mepc", "sepc"}, NEW v PROVE Fit(f, v) /\ f \in Fields \ Reserved
  BY DEF Fit, Fields, Reserved
<1>2. \A v : h.priv >= rv_mmode => Allowed(h, "mepc", v, csr_num.mepc, op)
  BY <1>1, MachineOnly DEF Allowed
<1>3. \A v : Kept("sepc", h["sepc"], v)
  BY DEF Kept, MachineFields
<1>4. \A v : Allowed(h, "sepc", v, csr_num.sepc, op)
  BY <1>1, <1>3 DEF Allowed
<1> QED
  BY <1>2, <1>4, MaskedDone DEF default_csr_functions, sepc

\* medeleg never delegates an ecall of M mode, mideleg only the interrupts of S mode, and
\* mie enables only interrupts that exist.
LEMMA DelegationDone ==
    ASSUME NEW h, IsHart(h), NEW csr, NEW op \in RoutineOps, NEW value
    PROVE  /\ Done(h, medeleg(h, op, value), csr, op)
           /\ Done(h, mideleg(h, op, value), csr, op)
           /\ Done(h, mie(h, op, value), csr, op)
<1>1. {"medeleg", "mideleg", "mie"} \subseteq Fields \ Reserved
  BY SMT DEF Fields, Reserved
<1>2. 11 \notin h["medeleg"] /\ h["mideleg"] \subseteq si_mask /\ h["mie"] \subseteq mi_mask
  BY <1>1, FieldFit DEF Fit
<1>3. ASSUME op # "read"
      PROVE  /\ 11 \notin Apply(op, h["medeleg"], value \cap (Exceptions \ {11}))
             /\ Apply(op, h["mideleg"], value \cap si_mask) \subseteq si_mask
             /\ Apply(op, h["mie"], value \cap mi_mask) \subseteq mi_mask
  BY <1>2, <1>3, ApplyIs, SMT
<1>4. op # "read" /\ h.priv >= rv_mmode =>
        /\ Allowed(h, "medeleg", Apply(op, h["medeleg"], value \cap (Exceptions \ {11})), csr, op)
        /\ Allowed(h, "mideleg", Apply(op, h["mideleg"], value \cap si_mask), csr, op)
        /\ Allowed(h, "mie", Apply(op, h["mie"], value \cap mi_mask), csr, op)
  BY <1>1, <1>3, MachineOnly DEF Allowed, Fit
<1> QED
  BY <1>4, MaskedDone DEF medeleg, mideleg, mie

\* The routines of the registers that hold any value.
LEMMA FreeDone ==
    ASSUME NEW h, IsHart(h), NEW csr, NEW op, NEW value, NEW mask
    PROVE  /\ \A f \in Free : Done(h, Masked(h, op, value, rv_mmode, f, mask), csr, op)
           /\ \A f \in Free \ (MachineFields \cup {"mip"}) :
                Done(h, Masked(h, op, value, rv_smode, f, mask), csr, op)
BY MaskedDone, FreeMachine, FreeSupervisor

\* Registers that read as a constant, or that cannot be written, change nothing.
LEMMA FixedDone ==
    ASSUME NEW h, IsHart(h), NEW csr, NEW op, NEW value
    PROVE  /\ Done(h, Fixed(h, op, value), csr, op)
           /\ Done(h, ReadOnly(h, op, value), csr, op)
<1>1. Done(h, IF op = "read" THEN Target(h, value) ELSE h, csr, op)
  BY DEF Done
<1>2. Done(h, Fixed(h, op, value), csr, op)
  BY <1>1, MinimalDone DEF Fixed
<1> QED
  BY <1>2 DEF ReadOnly, Done

\* mip_write and its set and clear routines assign only mip, and only for M mode.
LEMMA MipDone ==
    ASSUME NEW h, IsHart(h), NEW csr, NEW op, NEW value
    PROVE  Done(h, mip(h, op, value), csr, op)
<1>1. op = "read" => Done(h, Target(h, h.mip \cup External(h)), csr, op)
  BY DEF Done
<1>2. op = "read" => Done(h, minimal_privilege(rv_mmode, h, Target(h, h.mip \cup External(h))), csr, op)
  BY <1>1, MinimalDone
<1>3. Done(h, Masked(h, op, value, rv_mmode, "mip", si_mask), csr, op)
  BY FreeDone DEF Free
<1> QED
  BY <1>2, <1>3 DEF mip

\* sie and sip, the views of S mode on mie and mip, change nothing outside the mask of
\* the interrupts of S mode.
LEMMA WindowDone ==
    ASSUME NEW h, IsHart(h), NEW csr, NEW op \in RoutineOps, NEW value
    PROVE  /\ Done(h, sie(h, op, value), csr, op)
           /\ Done(h, sip(h, op, value), csr, op)
<1>1. {"mie", "mip"} \subseteq Fields \ Reserved /\ Fit("mie", h["mie"])
  BY FieldFit, SMT DEF Fields, Reserved
<1>2. ASSUME NEW reg \in {"mie", "mip"}, NEW shown, NEW mask, 
             op # "read" => Allowed(h, reg, (h[reg] \ mask) \cup Apply(op, h[reg] \cap mask, value \cap mask), csr, op)
      PROVE  Done(h, Window(h, op, value, reg, shown, mask), csr, op)
  <2> DEFINE g == IF op = "read" THEN Target(h, shown)
                  ELSE [h EXCEPT ![reg] = (@ \ mask) \cup Apply(op, @ \cap mask, value \cap mask)]
  <2>1. Done(h, g, csr, op)
    BY <1>2 DEF Done, Put
  <2> HIDE DEF g
  <2> QED
    BY <2>1, MinimalDone DEF Window, g
<1>3. ASSUME op # "read", NEW w, NEW mask PROVE Apply(op, w \cap mask, value \cap mask) \subseteq mask
  BY <1>3, ApplyIs, SMT
<1>4. op # "read" => Allowed(h, "mie", (h["mie"] \ si_mask) \cup Apply(op, h["mie"] \cap si_mask, value \cap si_mask), csr, op)
  <2> DEFINE v == (h["mie"] \ si_mask) \cup Apply(op, h["mie"] \cap si_mask, value \cap si_mask)
  <2> SUFFICES ASSUME op # "read" PROVE Allowed(h, "mie", v, csr, op)
    OBVIOUS
  <2>1. v \subseteq mi_mask
    BY <1>1, <1>3 DEF Fit, mi_mask
  <2>2. v \ si_mask = h["mie"] \ si_mask
    BY <1>3
  <2> HIDE DEF v
  <2>3. Fit("mie", v) /\ Kept("mie", h["mie"], v)
    BY <2>1, <2>2 DEF Fit, Kept, MachineFields
  <2> QED
    BY <1>1, <2>3 DEF Allowed
<1>5. op # "read" => Allowed(h, "mip", (h["mip"] \ {SSI}) \cup Apply(op, h["mip"] \cap {SSI}, value \cap {SSI}), csr, op)
  <2> DEFINE v == (h["mip"] \ {SSI}) \cup Apply(op, h["mip"] \cap {SSI}, value \cap {SSI})
  <2> SUFFICES ASSUME op # "read" PROVE Allowed(h, "mip", v, csr, op)
    OBVIOUS
  <2>1. v \ {SSI, MTI} = h["mip"] \ {SSI, MTI}
    BY <1>3
  <2> HIDE DEF v
  <2>3. Fit("mip", v) /\ Kept("mip", h["mip"], v)
    BY <2>1 DEF Fit, Kept, MachineFields
  <2> QED
    BY <1>1, <2>3 DEF Allowed
<1> QED
  BY <1>2, <1>4, <1>5 DEF sie, sip

---------------------------------------------------------------------------
\* The status register, causes and address translation

\* Where the bits of mstatus lie: MPP, MPRV and the enables of M mode outside the view
\* that sstatus gives, the bits of S mode inside it.
LEMMA StatusBits ==
    /\ sstatus_mask \cap MPP = {} /\ MPRV \notin sstatus_mask
    /\ MPP = {11, 12} /\ High \cap MPP = {} /\ High \cap sstatus_mask = {}
    /\ MPRV \notin MPP /\ {SIE, SPIE, SPP} \subseteq sstatus_mask
    /\ {MIE, MPIE} \cap MPP = {} /\ {MIE, MPIE} \cap sstatus_mask = {} /\ MIE # MPIE
    /\ SIE # SPIE /\ SPP \notin {SIE, SPIE} /\ MPRV \notin {MIE, MPIE} /\ MPRV \notin {SIE, SPIE, SPP}
BY SMT DEF sstatus_mask, MPP, MPRV, MXR, SUM, SPP, SPIE, SIE, High, MIE, MPIE

\* sstatus_set and sstatus_clear leave the bits of M mode alone; only a write, which is
\* allowed to be seen, does not.
LEMMA SstatusDone ==
    ASSUME NEW h, IsHart(h), NEW op \in RoutineOps, NEW value
    PROVE  Done(h, sstatus(h, op, value), csr_num.sstatus, op)
<1> DEFINE Word == IF op = "write" THEN (h.mstatus \cap High) \cup (value \cap sstatus_mask)
                   ELSE Apply(op, h.mstatus, value \cap sstatus_mask)
           g == CASE op = "read" -> Target(h, h.mstatus \cap sstatus_mask)
                  [] op = "write" -> [h EXCEPT !.mstatus = (@ \cap High) \cup (value \cap sstatus_mask)]
                  [] OTHER -> [h EXCEPT !.mstatus = Apply(op, @, value \cap sstatus_mask)]
<1>1. "mstatus" \in Fields \ Reserved /\ ~ReservedMpp(h.mstatus)
  <2>1. "mstatus" \in Fields \ Reserved
    BY DEF Fields, Reserved
  <2> QED
    BY <2>1, FieldFit DEF Fit
<1>2. op # "read" => ~ReservedMpp(Word)
  <2>1. CASE op = "write"
    BY <2>1, StatusBits DEF ReservedMpp
  <2>2. CASE op \notin {"read", "write"}
    <3>1. Word \ sstatus_mask = h.mstatus \ sstatus_mask
      BY <2>2, ApplyIs, SMT
    <3> HIDE DEF Word
    <3> QED
      BY <1>1, <3>1, StatusBits DEF ReservedMpp
  <2> QED
    BY <2>1, <2>2
<1>3. op \notin {"read", "write"} => Kept("mstatus", h["mstatus"], Word)
  <2> SUFFICES ASSUME op \notin {"read", "write"} PROVE Kept("mstatus", h["mstatus"], Word)
    OBVIOUS
  <2>1. Word \ sstatus_mask = h.mstatus \ sstatus_mask
    BY ApplyIs, SMT
  <2> HIDE DEF Word
  <2> QED
    BY <2>1, StatusBits DEF Kept, MachineFields
<1>4. op # "read" => g = [h EXCEPT !["mstatus"] = Word]
  OBVIOUS
<1>5. op = "read" => g = Target(h, h.mstatus \cap sstatus_mask)
  OBVIOUS
<1> HIDE DEF Word, g
<1>6. op # "read" => Allowed(h, "mstatus", Word, csr_num.sstatus, op)
  <2>1. op # "read" => Fit("mstatus", Word)
    BY <1>2 DEF Fit
  <2> QED
    BY <1>1, <1>3, <2>1 DEF Allowed
<1>7. Done(h, g, csr_num.sstatus, op)
  BY <1>4, <1>5, <1>6 DEF Done, Put
<1> QED
  BY <1>7, MinimalDone DEF sstatus, g

\* mstatus_write and its set and clear routines never leave the reserved mode in MPP.
LEMMA MstatusDone ==
    ASSUME NEW h, IsHart(h), NEW op \in RoutineOps, NEW value
    PROVE  Done(h, mstatus(h, op, value), csr_num.mstatus, op)
<1>1. "mstatus" \in Fields \ Reserved /\ ~ReservedMpp(h.mstatus)
  <2>1. "mstatus" \in Fields \ Reserved
    BY DEF Fields, Reserved
  <2> QED
    BY <2>1, FieldFit DEF Fit
<1>2. ASSUME NEW v, ~ReservedMpp(v), h.priv >= rv_mmode, op # "read"
      PROVE  Done(h, [h EXCEPT !.mstatus = v], csr_num.mstatus, op)
  <2>1. Allowed(h, "mstatus", v, csr_num.mstatus, op)
    BY <1>1, <1>2, MachineOnly DEF Allowed, Fit
  <2> QED
    BY <1>2, <2>1 DEF Done, Put
<1>3. ASSUME h.priv >= rv_mmode, op = "write" PROVE Done(h, mstatus_write(h, value), csr_num.mstatus, op)
  <2> DEFINE val == value \cap mstatus_mask
             v == (h.mstatus \cap High) \cup (IF ReservedMpp(val) THEN (val \ MPP) \cup (h.mstatus \cap MPP) ELSE val)
  <2>1. ~ReservedMpp(v)
    <3> HIDE DEF val
    <3> QED
      BY <1>1, StatusBits DEF ReservedMpp
  <2>2. mstatus_write(h, value) = [h EXCEPT !.mstatus = v]
    BY DEF mstatus_write
  <2> HIDE DEF v
  <2> QED
    BY <1>2, <1>3, <2>1, <2>2
<1>4. ASSUME h.priv >= rv_mmode, op = "set" PROVE Done(h, mstatus_set(h, value), csr_num.mstatus, op)
  <2> DEFINE val == value \cap mstatus_mask
             v == h.mstatus \cup (IF ReservedMpp(h.mstatus \cup val) THEN val \ MPP ELSE val)
  <2>1. ~ReservedMpp(v)
    <3> HIDE DEF val
    <3> QED
      BY <1>1, StatusBits DEF ReservedMpp
  <2>2. mstatus_set(h, value) = [h EXCEPT !.mstatus = v]
    BY DEF mstatus_set
  <2> HIDE DEF v
  <2> QED
    BY <1>2, <1>4, <2>1, <2>2
<1>5. ASSUME h.priv >= rv_mmode, op = "clear" PROVE Done(h, mstatus_clear(h, value), csr_num.mstatus, op)
  <2> DEFINE val == value \cap mstatus_mask
             v == h.mstatus \ (IF ReservedMpp(h.mstatus \ val) THEN val \ MPP ELSE val)
  <2>1. ~ReservedMpp(v)
    <3> HIDE DEF val
    <3> QED
      BY <1>1, StatusBits DEF ReservedMpp
  <2>2. mstatus_clear(h, value) = [h EXCEPT !.mstatus = v]
    BY DEF mstatus_clear
  <2> HIDE DEF v
  <2> QED
    BY <1>2, <1>5, <2>1, <2>2
<1>6. ASSUME op = "read" PROVE Done(h, Target(h, h.mstatus \cap Bits), csr_num.mstatus, op)
  BY <1>6 DEF Done
<1> DEFINE g == CASE op = "read" -> Target(h, h.mstatus \cap Bits)
                  [] op = "write" -> mstatus_write(h, value)
                  [] op = "set" -> mstatus_set(h, value)
                  [] op = "clear" -> mstatus_clear(h, value)
<1>7. h.priv >= rv_mmode => Done(h, g, csr_num.mstatus, op)
  BY <1>3, <1>4, <1>5, <1>6 DEF RoutineOps
<1> HIDE DEF g
<1> QED
  BY <1>7, MinimalDone DEF mstatus, g

\* The routines of mcause and scause.
LEMMA CauseDone ==
    ASSUME NEW h, IsHart(h), NEW csr, NEW op, NEW value
    PROVE  /\ Done(h, scause(h, op, value), csr, op)
           /\ Done(h, mcause(h, op, value), csr, op)
<1>1. ASSUME NEW reg, NEW priv \in {rv_smode, rv_mmode}, \A v : h.priv >= priv => Allowed(h, reg, v, csr, op)
      PROVE  Done(h, CauseCsr(h, op, value, priv, reg), csr, op)
  <2> DEFINE val == Apply(op, h[reg], value)
             g == CASE op = "read" -> Target(h, h[reg])
                    [] op # "read" /\ is_exception_code(val) -> [h EXCEPT ![reg] = val]
                    [] OTHER -> Illegal(h)
  <2> HIDE DEF val
  <2>1. h.priv >= priv => Done(h, g, csr, op)
    BY <1>1 DEF Done, Put
  <2> HIDE DEF g
  <2> QED
    BY <2>1, MinimalDone DEF CauseCsr, g, val
<1>2. \A v : Allowed(h, "scause", v, csr, op)
  BY FreeSupervisor DEF Free, MachineFields
<1>3. \A v : h.priv >= rv_mmode => Allowed(h, "mcause", v, csr, op)
  BY FreeMachine DEF Free
<1> QED
  BY <1>1, <1>2, <1>3 DEF scause, mcause

\* The routines of satp: illegal under TVM, and a bare mode is stored as zero.
LEMMA SatpDone ==
    ASSUME NEW h, IsHart(h), NEW csr, NEW op, NEW value
    PROVE  Done(h, satp(h, op, value), csr, op)
<1> DEFINE asid_mask == satp_asid_offset .. satp_asid_offset + h.asid_len - 1
           val == Apply(op, h.satp, value \cap ({satp_mode} \cup asid_mask \cup satp_ppn_mask))
           v == IF satp_is_bare(val) THEN {} ELSE val
           g == CASE TVM \in h.mstatus -> Illegal(h)
                  [] TVM \notin h.mstatus /\ op = "read" -> Target(h, h.satp)
                  [] OTHER -> [h EXCEPT !.satp = v]
<1> HIDE DEF val
<1>1. Allowed(h, "satp", v, csr, op)
  BY FreeSupervisor DEF Free, MachineFields
<1> HIDE DEF v
<1>2. Done(h, g, csr, op)
  BY <1>1 DEF Done, Put
<1> HIDE DEF g
<1> QED
  BY <1>2, MinimalDone DEF satp, g, v, val

---------------------------------------------------------------------------
\* Counters and timers

\* The comparison of two counters is a Boolean.
LEMMA AtLeastIs == \A a, b : AtLeast(a, b) \in BOOLEAN
BY DEF AtLeast

\* The timer line of S mode may change in any mode.
LEMMA LineAllowed ==
    ASSUME NEW h, NEW csr, NEW op, NEW s \in BOOLEAN
    PROVE  Allowed(h, "external_STIP", s, csr, op)
<1>1. Fit("external_STIP", s) /\ "external_STIP" \in Fields \ Reserved
  BY DEF Fit, Fields, Reserved
<1>2. Kept("external_STIP", h["external_STIP"], s)
  BY DEF Kept, MachineFields
<1> QED
  BY <1>1, <1>2 DEF Allowed

\* The routines of scyclecmp assign the register and the timer line of S mode.
LEMMA ScyclecmpDone ==
    ASSUME NEW h, IsHart(h), NEW csr, NEW op \in RoutineOps, NEW value
    PROVE  Done(h, scyclecmp(h, op, value), csr, op)
<1> DEFINE cmp == Apply(op, h.scyclecmp, value \cap UXbits)
           s == AtLeast(h.cycle \cap UXbits, cmp)
           g == IF op = "read" THEN Target(h, h.scyclecmp)
                ELSE [h EXCEPT !.scyclecmp = cmp, !.external_STIP = s]
<1>1. "scyclecmp" \in Fields \ Reserved /\ h.scyclecmp \subseteq UXbits
  <2>1. "scyclecmp" \in Fields \ Reserved
    BY DEF Fields, Reserved
  <2> QED
    BY <2>1, FieldFit DEF Fit
<1>2. op # "read" => cmp \subseteq UXbits
  BY <1>1, ApplyIs, SMT
<1> HIDE DEF cmp
<1>3. s \in BOOLEAN
  BY AtLeastIs
<1> HIDE DEF s
<1>4. op # "read" => Allowed(h, "scyclecmp", cmp, csr, op)
  <2>1. Kept("scyclecmp", h["scyclecmp"], cmp)
    BY DEF Kept, MachineFields
  <2>2. op # "read" => Fit("scyclecmp", cmp)
    BY <1>2 DEF Fit
  <2> QED
    BY <1>1, <2>1, <2>2 DEF Allowed
<1>5. op # "read" => Put(h, [h EXCEPT !["scyclecmp"] = cmp], csr, op)
  BY <1>4 DEF Put
<1> DEFINE m == [h EXCEPT !["scyclecmp"] = cmp]
<1>6. Put(m, [m EXCEPT !["external_STIP"] = s], csr, op)
  BY <1>3, LineAllowed DEF Put
<1>7. op # "read" => g = [m EXCEPT !["external_STIP"] = s]
  OBVIOUS
<1>8. op = "read" => Done(h, g, csr, op)
  BY DEF Done
<1> HIDE DEF m, g
<1>9. Done(h, g, csr, op)
  BY <1>5, <1>6, <1>7, <1>8 DEF Done, m
<1> QED
  BY <1>9, MinimalDone DEF scyclecmp, g, s, cmp

\* A counter stays a number of 64 bits, whichever half of it is written, set or cleared.
LEMMA CounterIs ==
    ASSUME NEW op \in RoutineOps, op # "read", NEW old \in Counters64, NEW value, NEW high \in BOOLEAN
    PROVE  Counter(op, old, value, high) \in Counters64
<1> DEFINE val == IF high THEN ShiftUp(value) ELSE value \cap UXbits
           new == IF op # "write" THEN val
                  ELSE (old \cap (IF high THEN LowHalf ELSE HighHalf)) \cup val
<1>1. ShiftUp(value) \subseteq 0 .. 2 * Half - 1
  BY RvCsrAssumption, SMT DEF ShiftUp, LowHalf
<1>2. UXbits \subseteq 0 .. 2 * Half - 1
  BY RvCsrAssumption, SMT DEF UXbits
<1>3. val \subseteq 0 .. 2 * Half - 1
  BY <1>1, <1>2
<1> HIDE DEF val
<1>4. new \subseteq 0 .. 2 * Half - 1
  BY <1>3 DEF Counters64
<1> HIDE DEF new
<1>5. Apply(op, old, new) \subseteq old \cup new
  BY ApplyIs
<1> QED
  BY <1>4, <1>5 DEF Counter, val, new, Counters64

\* counter_write, counter_set and counter_clear assign one counter and, for cycle, the
\* timer line of S mode.
LEMMA CounterWritten ==
    ASSUME NEW h, IsHart(h), NEW csr, NEW op \in RoutineOps, op # "read", NEW value
    PROVE  Done(h, counter_write(h, csr, op, value), csr, op)
<1> DEFINE c == CounterOf(csr)
           New(old) == Counter(op, old, value, is_high_counter(csr))
           cycle == New(h.cycle)
           seen == IF op = "clear" THEN cycle ELSE cycle \cap UXbits
           s == AtLeast(seen, h.scyclecmp)
           x == IF Xlen = 32 THEN Apply(op, h.x31, value \cap UXbits) ELSE New(h.x31)
           g == CASE min_priv_mode(csr) # rv_mmode \/ c = 1 -> Illegal(h)
                  [] csr = csr_mcycle -> [h EXCEPT !.cycle = cycle, !.external_STIP = s]
                  [] c = 2 -> [h EXCEPT !.instret = New(h.instret)]
                  [] c = 0 -> [h EXCEPT !.x31 = x]
                  [] OTHER -> [h EXCEPT !.hpmcounters[c] = New(h.hpmcounters[c])]
<1> SUFFICES ASSUME h.priv >= rv_mmode PROVE Done(h, g, csr, op)
  <2> HIDE DEF x, s
  <2>1. counter_write(h, csr, op, value) = minimal_privilege(rv_mmode, h, g)
    BY DEF counter_write, x, s
  <2> HIDE DEF g
  <2> QED
    BY <2>1, MinimalDone
<1>1. {"cycle", "instret"} \subseteq Fields \ Reserved /\ h.cycle \in Counters64 /\ h.instret \in Counters64
  <2>1. {"cycle", "instret"} \subseteq Fields \ Reserved
    BY SMT DEF Fields, Reserved
  <2> QED
    BY <2>1, FieldFit DEF Fit
<1>2. cycle \in Counters64 /\ New(h.instret) \in Counters64
  <2>1. is_high_counter(csr) \in BOOLEAN
    BY DEF is_high_counter
  <2> QED
    BY <1>1, <2>1, CounterIs
<1>3. s \in BOOLEAN
  BY AtLeastIs
<1> HIDE DEF cycle, s, x
<1>4. \A f, v : f \in {"cycle", "instret"} /\ v \in Counters64 => Allowed(h, f, v, csr, op)
  BY <1>1, MachineOnly, SMT DEF Allowed, Fit
<1> DEFINE m == [h EXCEPT !["cycle"] = cycle]
<1>5. Put(h, m, csr, op)
  BY <1>2, <1>4 DEF Put
<1>6. Put(m, [m EXCEPT !["external_STIP"] = s], csr, op)
  BY <1>3, LineAllowed DEF Put
<1>7. [h EXCEPT !.cycle = cycle, !.external_STIP = s] = [m EXCEPT !["external_STIP"] = s]
  OBVIOUS
<1>8. Done(h, [h EXCEPT !.cycle = cycle, !.external_STIP = s], csr, op)
  <2> HIDE DEF m
  <2> QED
    BY <1>5, <1>6, <1>7 DEF Done
<1>9. Done(h, [h EXCEPT !.instret = New(h.instret)], csr, op)
  BY <1>2, <1>4 DEF Done, Put
<1>10. Done(h, [h EXCEPT !.x31 = x], csr, op)
  <2>1. Allowed(h, "x31", x, csr, op)
    BY FreeMachine DEF Free
  <2> QED
    BY <2>1 DEF Done, Put
<1>11. Done(h, [h EXCEPT !.hpmcounters[c] = New(h.hpmcounters[c])], csr, op)
  <2> DEFINE v == [h.hpmcounters EXCEPT ![c] = New(h.hpmcounters[c])]
  <2>1. Allowed(h, "hpmcounters", v, csr, op)
    BY FreeMachine DEF Free
  <2>2. [h EXCEPT !.hpmcounters[c] = New(h.hpmcounters[c])] = [h EXCEPT !["hpmcounters"] = v]
    OBVIOUS
  <2> HIDE DEF v
  <2> QED
    BY <2>1, <2>2 DEF Done, Put
<1>12. Done(h, Illegal(h), csr, op)
  BY DEF Done
<1> HIDE DEF c, New
<1> QED
  BY <1>8, <1>9, <1>10, <1>11, <1>12

\* Reading a counter gives a value or makes the instruction illegal.
LEMMA CounterRead ==
    ASSUME NEW h, IsHart(h), NEW csr
    PROVE  Done(h, counter_read(h, csr), csr, "read")
BY DEF counter_read, read_counter_csr_unchecked, Done

\* The routines of the event selectors assign only hpmevents, and only for M mode.
LEMMA EventDone ==
    ASSUME NEW h, IsHart(h), NEW csr, NEW op, NEW value
    PROVE  Done(h, mhpmevent(h, csr, op, value), csr, op)
<1> DEFINE c == CounterOf(csr)
           old == h.hpmevents[c]
           val == Apply(op, old, value)
           int == (val \cap Bits32) \cup (IF 31 \in val THEN Bits \ Bits32 ELSE {})
           g == CASE op = "read" -> Target(h, old)
                  [] op = "write" -> IF IsEvent(value) THEN [h EXCEPT !.hpmevents[c] = value] ELSE h
                  [] OTHER -> IF IsEvent(int) \/ 31 \in int THEN [h EXCEPT !.hpmevents[c] = int] ELSE h
<1> HIDE DEF int, old
<1>1. ASSUME NEW v, h.priv >= rv_mmode, op # "read" PROVE Done(h, [h EXCEPT !.hpmevents[c] = v], csr, op)
  <2> DEFINE w == [h.hpmevents EXCEPT ![c] = v]
  <2>1. Allowed(h, "hpmevents", w, csr, op)
    BY <1>1, FreeMachine DEF Free
  <2>2. [h EXCEPT !.hpmevents[c] = v] = [h EXCEPT !["hpmevents"] = w]
    OBVIOUS
  <2> HIDE DEF w
  <2> QED
    BY <1>1, <2>1, <2>2 DEF Done, Put
<1>2. Done(h, h, csr, op) /\ (op = "read" => Done(h, Target(h, old), csr, op))
  BY DEF Done
<1>3. h.priv >= rv_mmode => Done(h, g, csr, op)
  BY <1>1, <1>2
<1> HIDE DEF g
<1> QED
  BY <1>3, MinimalDone DEF mhpmevent, g, int, val, old

---------------------------------------------------------------------------
\* All routines together, and what they leave alone

\* Every routine that get_csr_ops finds for a register number has one of the allowed
\* outcomes.
LEMMA RoutineDone ==
    ASSUME NEW h, IsHart(h), NEW csr, NEW op \in RoutineOps, NEW value
    PROVE  Done(h, get_csr_ops(h, csr, op, value), csr, op)
<1>1. Done(h, IF op = "read" THEN counter_read(h, csr) ELSE counter_write(h, csr, op, value), csr, op)
  BY CounterRead, CounterWritten
<1>2. /\ Done(h, mhpmevent(h, csr, op, value), csr, op)
      /\ Done(h, stvec(h, op, value), csr, op)
      /\ Done(h, mtvec(h, op, value), csr, op)
      /\ Done(h, scause(h, op, value), csr, op)
      /\ Done(h, mcause(h, op, value), csr, op)
      /\ Done(h, satp(h, op, value), csr, op)
      /\ Done(h, scyclecmp(h, op, value), csr, op)
      /\ Done(h, sie(h, op, value), csr, op)
      /\ Done(h, sip(h, op, value), csr, op)
      /\ Done(h, medeleg(h, op, value), csr, op)
      /\ Done(h, mideleg(h, op, value), csr, op)
      /\ Done(h, mie(h, op, value), csr, op)
      /\ Done(h, mip(h, op, value), csr, op)
  BY EventDone, VectorDone, CauseDone, SatpDone, ScyclecmpDone, WindowDone, DelegationDone, MipDone
<1>3. /\ csr = csr_num.sstatus => Done(h, sstatus(h, op, value), csr, op)
      /\ csr = csr_num.mstatus => Done(h, mstatus(h, op, value), csr, op)
      /\ csr = csr_num.sepc => Done(h, sepc(h, op, value), csr, op)
      /\ csr = csr_num.mepc => Done(h, default_csr_functions(h, op, value, rv_mmode, "mepc"), csr, op)
  BY SstatusDone, MstatusDone, EpcDone
<1>4. /\ Done(h, default_csr_functions(h, op, value, rv_smode, "scounteren"), csr, op)
      /\ Done(h, default_csr_functions(h, op, value, rv_smode, "sscratch"), csr, op)
      /\ Done(h, default_csr_functions(h, op, value, rv_smode, "stval"), csr, op)
      /\ Done(h, default_csr_functions(h, op, value, rv_smode, "scontext"), csr, op)
  BY FreeDone DEF default_csr_functions, Free, MachineFields
<1>5. /\ Done(h, default_csr_functions(h, op, value, rv_mmode, "mcounteren"), csr, op)
      /\ Done(h, default_csr_functions(h, op, value, rv_mmode, "mscratch"), csr, op)
      /\ Done(h, default_csr_functions(h, op, value, rv_mmode, "mtval"), csr, op)
  BY FreeDone DEF default_csr_functions, Free
<1>6. /\ Done(h, senvcfg(h, op, value), csr, op)
      /\ Done(h, menvcfg(h, op, value), csr, op)
      /\ Done(h, mcountinhibit(h, op, value), csr, op)
  BY FreeDone DEF senvcfg, menvcfg, mcountinhibit, Free, MachineFields
<1>7. \A v : Done(h, Fixed(h, op, v), csr, op) /\ Done(h, ReadOnly(h, op, v), csr, op)
  BY FixedDone
<1>8. csr = csr_num.mstatush =>
        Done(h, IF Xlen = 32 THEN mstatush(h, op, value) ELSE [h EXCEPT !.host = "die"], csr, op)
  BY <1>7 DEF mstatush, Done
<1>9. Done(h, Illegal(h), csr, op)
  BY DEF Done
<1>10. Done(h, Fixed(h, op, h.misa), csr, op) /\ Done(h, Fixed(h, op, {}), csr, op) /\ Done(h, ReadOnly(h, op, {}), csr, op)
  BY <1>7
<1> QED
  BY <1>1, <1>2, <1>3, <1>4, <1>5, <1>6, <1>8, <1>9, <1>10, ZenonT(30) DEF get_csr_ops

\* mstatush of a 64-bit build ends the simulator.
LEMMA HostDies ==
    ASSUME NEW h, NEW op, NEW value, Xlen # 32
    PROVE  get_csr_ops(h, csr_num.mstatush, op, value) = [h EXCEPT !.host = "die"]
<1> DEFINE csr == csr_num.mstatush
<1>1. csr = 784
  BY DEF csr_num
<1>2. ~IsCounter(csr)
  BY <1>1, SMT DEF IsCounter
<1>3. csr \notin {800 + c : c \in Hpm}
  BY <1>1, RvCsrAssumption, SMT
<1> QED
  BY <1>1, <1>2, <1>3, SMTT(60) DEF get_csr_ops, csr_num

\* The two harts agree in the fields F.
Same(h, g, F) == \A f \in F : g[f] = h[f]

\* M mode does not notice the step from h to g.
Confined(h, g) == \A f \in Fields : Kept(f, h[f], g[f])

\* The fields that a CSR routine leaves alone even when it makes the instruction illegal.
Guest == {"priv", "pc", "pc_next", "stdby", "taken", "tval_next", "rd"}

\* What the outcomes of a CSR routine have in common.
Effect(h, g, csr, op) ==
    /\ IsHart(g)
    /\ Same(h, g, Guest)
    /\ op # "read" => g.target = h.target
    /\ g = Illegal(h) \/ g.exc = h.exc
    /\ h.priv # rv_mmode => Confined(h, g) \/ (csr = csr_num.sstatus /\ op = "write")
    /\ csr \notin {csr_num.mstatus, csr_num.sstatus} => g.mstatus = h.mstatus
    /\ csr # csr_num.mepc => g.mepc = h.mepc
    /\ csr # csr_num.sepc => g.sepc = h.sepc

\* A value may always take its own place.
LEMMA KeptSame == \A f, v : Kept(f, v, v)
BY DEF Kept

\* Two steps that M mode does not notice are one.
LEMMA ConfinedTwice ==
    ASSUME NEW h, NEW m, NEW g, Confined(h, m), Confined(m, g)
    PROVE  Confined(h, g)
<1> SUFFICES ASSUME NEW f \in Fields PROVE Kept(f, h[f], g[f])
  BY DEF Confined
<1>1. Kept(f, h[f], m[f]) /\ Kept(f, m[f], g[f])
  BY DEF Confined
<1> QED
  BY <1>1 DEF Kept

\* One allowed assignment has the effect of a routine.
LEMMA PutEffect ==
    ASSUME NEW h, IsHart(h), NEW csr, NEW op, NEW g, Put(h, g, csr, op)
    PROVE  Effect(h, g, csr, op) /\ g.exc = h.exc /\ g.target = h.target /\ g.priv = h.priv
<1>1. PICK f, v : Allowed(h, f, v, csr, op) /\ g = [h EXCEPT ![f] = v]
  BY DEF Put
<1>2. f \in Fields \ Reserved /\ Fit(f, v)
  BY <1>1 DEF Allowed
<1>3. IsHart(g) /\ g[f] = v /\ \A x \in Fields \ {f} : g[x] = h[x]
  <2>1. f \in Fields /\ Fit(f, v)
    BY <1>2
  <2> DEFINE e == [h EXCEPT ![f] = v]
  <2>2. IsHart(e) /\ e[f] = v /\ \A x \in Fields \ {f} : e[x] = h[x]
    BY <2>1, PutIs, SMT
  <2>3. g = e
    BY <1>1
  <2> HIDE DEF e
  <2> QED
    BY <2>2, <2>3
<1>4. Same(h, g, Reserved)
  BY <1>2, <1>3, SMT DEF Same, Reserved, Fields
<1>5. h.priv # rv_mmode => Confined(h, g) \/ (csr = csr_num.sstatus /\ op = "write")
  <2> SUFFICES ASSUME h.priv # rv_mmode, ~(csr = csr_num.sstatus /\ op = "write"), NEW x \in Fields
               PROVE  Kept(x, h[x], g[x])
    BY DEF Confined
  <2>1. Kept(f, h[f], v)
    BY <1>1 DEF Allowed
  <2> QED
    BY <1>3, <2>1, KeptSame
<1>6. {"mstatus", "mepc", "sepc"} \subseteq Fields
  BY DEF Fields
<1>7. /\ csr \notin {csr_num.mstatus, csr_num.sstatus} => g.mstatus = h.mstatus
      /\ csr # csr_num.mepc => g.mepc = h.mepc
      /\ csr # csr_num.sepc => g.sepc = h.sepc
  BY <1>1, <1>3, <1>6 DEF Allowed
<1>8. Same(h, g, Guest) /\ g.exc = h.exc /\ g.target = h.target /\ g.priv = h.priv
  BY <1>4 DEF Same, Reserved, Guest
<1> QED
  BY <1>3, <1>5, <1>7, <1>8 DEF Effect

\* So has a routine that only reads, makes the instruction illegal or ends the simulator.
LEMMA OneField ==
    ASSUME NEW h, IsHart(h), NEW csr, NEW op, NEW f \in {"exc", "target", "host"}, NEW v, f = "host" => v # "assert",
           op = "read" \/ f # "target"
    PROVE  /\ [h EXCEPT ![f] = v] = Illegal(h) \/ f # "exc" => Effect(h, [h EXCEPT ![f] = v], csr, op)
<1> DEFINE g == [h EXCEPT ![f] = v]
<1>1. f \in Fields /\ Fit(f, v)
  BY DEF Fields, Fit
<1>2. IsHart(g) /\ \A x \in Fields \ {f} : g[x] = h[x]
  BY <1>1, PutIs, SMT
<1>3. Guest \cup {"mstatus", "mepc", "sepc"} \subseteq Fields \ {f}
  BY SMT DEF Guest, Fields
<1>4. Confined(h, g)
  <2>1. ASSUME NEW x \in Fields PROVE Kept(x, h[x], g[x])
    <3>1. CASE x = f
      BY <3>1 DEF Kept, MachineFields
    <3>2. CASE x # f
      BY <1>2, <3>2, KeptSame
    <3> QED
      BY <3>1, <3>2
  <2> QED
    BY <2>1 DEF Confined
<1>5. (f # "exc" => g.exc = h.exc) /\ (f # "target" => g.target = h.target)
  BY <1>2 DEF Fields
<1> HIDE DEF g
<1>6. g = Illegal(h) \/ f # "exc" => Effect(h, g, csr, op)
  BY <1>2, <1>3, <1>4, <1>5 DEF Effect, Same
<1> QED
  BY <1>6 DEF g

\* Every allowed outcome of a routine of csr.c has the effect of one.
LEMMA DoneEffect ==
    ASSUME NEW h, IsHart(h), NEW csr, NEW op, NEW g, Done(h, g, csr, op)
    PROVE  Effect(h, g, csr, op)
<1>1. CASE g = h
  <2>1. Confined(h, h)
    BY KeptSame DEF Confined
  <2> QED
    BY <1>1, <2>1 DEF Effect, Same
<1>2. CASE g = Illegal(h)
  BY <1>2, OneField DEF Illegal, illegal_instruction
<1>3. CASE g = [h EXCEPT !.host = "die"]
  BY <1>3, OneField
<1>4. CASE op = "read" /\ \E v : g = Target(h, v)
  <2>1. PICK v : g = Target(h, v)
    BY <1>4
  <2> QED
    BY <1>4, <2>1, OneField DEF Target
<1>5. CASE Put(h, g, csr, op)
  BY <1>5, PutEffect
<1>6. CASE \E m : Put(h, m, csr, op) /\ Put(m, g, csr, op)
  <2>1. PICK m : Put(h, m, csr, op) /\ Put(m, g, csr, op)
    BY <1>6
  <2>2. Effect(h, m, csr, op) /\ m.exc = h.exc /\ m.target = h.target /\ m.priv = h.priv
    BY <2>1, PutEffect, SMT
  <2>3. IsHart(m)
    BY <2>2 DEF Effect
  <2>4. Effect(m, g, csr, op) /\ g.exc = m.exc /\ g.target = m.target /\ g.priv = m.priv
    BY <2>1, <2>3, PutEffect, SMT
  <2>5. Same(h, g, Guest)
    BY <2>2, <2>4 DEF Effect, Same
  <2>6. h.priv # rv_mmode => Confined(h, g) \/ (csr = csr_num.sstatus /\ op = "write")
    BY <2>2, <2>4, ConfinedTwice DEF Effect
  <2> QED
    BY <2>2, <2>4, <2>5, <2>6 DEF Effect
<1> QED
  BY <1>1, <1>2, <1>3, <1>4, <1>5, <1>6 DEF Done

---------------------------------------------------------------------------
\* What an instruction may do

\* A hart between two steps: no exception, and the scratch fields of the last instruction
\* are empty.
Ready(h) == IsHart(h) /\ h.exc = none /\ h.target = {} /\ h.tval_next = {}

\* What a trap to M mode has saved is still there: mepc, MPP and MPIE.
MSaved(h, g) == g.mepc = h.mepc /\ g.mstatus \cap (MPP \cup {MPIE}) = h.mstatus \cap (MPP \cup {MPIE})

\* The same for S mode: sepc, SPP and SPIE.
SSaved(h, g) == g.sepc = h.sepc /\ g.mstatus \cap {SPP, SPIE} = h.mstatus \cap {SPP, SPIE}

\* The instruction has done nothing but fail.
Failed(h, g) == [g EXCEPT !.exc = none, !.tval_next = {}] = h

\* The instructions that may take away what a trap to M mode has saved.
MClobbers(i) == i.op = "mret" \/ Writes(i, {csr_num.mstatus, csr_num.sstatus, csr_num.mepc})

\* The same for S mode.
SClobbers(i) == i.op = "sret" \/ Writes(i, {csr_num.mstatus, csr_num.sstatus, csr_num.sepc})

\* The hart g is what an instruction i may make of h: a hart, with nothing done when it
\* failed, with M mode untouched when it ran in another mode, and with what the traps saved
\* still there unless i is one of the instructions that may take it away.
Ran(h, g, i) ==
    /\ IsHart(g) /\ g.target = {} /\ g.taken = h.taken /\ g.pc = h.pc
    /\ g.exc # none => Failed(h, g)
    /\ h.priv # rv_mmode /\ ~SstatusWrite(i) => Confined(h, g)
    /\ ~MClobbers(i) => MSaved(h, g)
    /\ ~SClobbers(i) => SSaved(h, g)

\* A CSR instruction whose write is illegal has changed nothing although its read came
\* first (rv_csr_rw, rv_csr_rs, rv_csr_rc).
LEMMA IllegalAfterRead ==
    ASSUME NEW h, Ready(h), NEW r, r = h \/ \E v : r = Target(h, v), NEW rd, rd = r.rd
    PROVE  [Illegal(r) EXCEPT !.rd = rd, !.target = {}] = Illegal(h)
<1>1. h = [f \in Fields |-> h[f]] /\ h.target = {}
  BY DEF Ready, IsHart
<1>2. {"exc", "target", "rd"} \subseteq Fields
  BY DEF Fields
<1>3. CASE r = h
  BY <1>1, <1>2, <1>3 DEF Illegal
<1>4. CASE \E v : r = Target(h, v)
  <2>1. PICK v : r = Target(h, v)
    BY <1>4
  <2> QED
    BY <1>1, <1>2, <2>1 DEF Illegal, Target
<1> QED
  BY <1>3, <1>4

---------------------------------------------------------------------------
\* The CSR instructions

\* The read half of a CSR instruction changes no register.
LEMMA ReadKeeps ==
    ASSUME NEW h, IsHart(h), NEW csr, NEW r, Done(h, r, csr, "read")
    PROVE  Same(h, r, Fields \ {"exc", "target", "host"}) /\ Confined(h, r)
<1>1. ASSUME NEW f \in {"exc", "target", "host"}, NEW v
      PROVE  Same(h, [h EXCEPT ![f] = v], Fields \ {"exc", "target", "host"})
  BY DEF Same, IsHart
<1>2. Same(h, r, Fields \ {"exc", "target", "host"})
  <2>1. r = h => Same(h, r, Fields \ {"exc", "target", "host"})
    BY DEF Same
  <2>2. r = Illegal(h) => Same(h, r, Fields \ {"exc", "target", "host"})
    BY <1>1 DEF Illegal
  <2>3. r = [h EXCEPT !.host = "die"] => Same(h, r, Fields \ {"exc", "target", "host"})
    BY <1>1
  <2>4. ASSUME NEW v, r = Target(h, v) PROVE Same(h, r, Fields \ {"exc", "target", "host"})
    BY <1>1, <2>4 DEF Target
  <2> QED
    BY <2>1, <2>2, <2>3, <2>4 DEF Done
<1>3. ASSUME NEW f \in Fields PROVE Kept(f, h[f], r[f])
  <2>1. CASE f \in {"exc", "target", "host"}
    BY <2>1 DEF Kept, MachineFields
  <2>2. CASE f \notin {"exc", "target", "host"}
    BY <1>2, <2>2, KeptSame DEF Same
  <2> QED
    BY <2>1, <2>2
<1> QED
  BY <1>2, <1>3 DEF Confined

\* The value that was read goes to rd, and nowhere else.
LEMMA DeliverIs ==
    ASSUME NEW m, IsHart(m), NEW read
    PROVE  /\ IsHart(Deliver(m, read))
           /\ Same(m, Deliver(m, read), Fields \ {"rd", "target"})
           /\ Deliver(m, read).target = {}
           /\ Confined(m, Deliver(m, read))
<1> DEFINE v == IF read /\ m.exc = none THEN m.target ELSE m.rd
           e == [m EXCEPT !["rd"] = v]
           g == [e EXCEPT !["target"] = {}]
<1>1. "rd" \in Fields /\ "target" \in Fields /\ Fit("rd", v) /\ Fit("target", {})
  BY DEF Fields, Fit
<1> HIDE DEF v
<1>2. IsHart(e) /\ \A x \in Fields \ {"rd"} : e[x] = m[x]
  BY <1>1, PutIs, SMT
<1>3. g = Deliver(m, read)
  BY DEF Deliver, v
<1> HIDE DEF e
<1>4. IsHart(g) /\ g["target"] = {} /\ \A x \in Fields \ {"target"} : g[x] = e[x]
  BY <1>1, <1>2, PutIs, SMT
<1> HIDE DEF g
<1>5. Same(m, g, Fields \ {"rd", "target"})
  BY <1>2, <1>4 DEF Same
<1>6. ASSUME NEW f \in Fields PROVE Kept(f, m[f], g[f])
  <2>1. CASE f \in {"rd", "target"}
    BY <2>1 DEF Kept, MachineFields
  <2>2. CASE f \notin {"rd", "target"}
    BY <1>5, <2>2, KeptSame DEF Same
  <2> QED
    BY <2>1, <2>2
<1> QED
  BY <1>3, <1>4, <1>5, <1>6 DEF Confined

\* What a whole CSR instruction may do.
Accessed(h, g, csr, op, write) ==
    /\ IsHart(g) /\ g.target = {}
    /\ Same(h, g, {"priv", "pc", "pc_next", "stdby", "taken", "tval_next"})
    /\ g = Illegal(h) \/ g.exc = none
    /\ h.priv # rv_mmode => Confined(h, g) \/ (csr = csr_num.sstatus /\ op = "write")
    /\ ~write \/ csr \notin {csr_num.mstatus, csr_num.sstatus} => g.mstatus = h.mstatus
    /\ ~write \/ csr # csr_num.mepc => g.mepc = h.mepc
    /\ ~write \/ csr # csr_num.sepc => g.sepc = h.sepc

\* rv_csr_rw, rv_csr_rs and rv_csr_rc, which read first and write after, do only that.
LEMMA AccessIs ==
    ASSUME NEW h, Ready(h), NEW csr, NEW op \in RoutineOps \ {"read"}, NEW value,
           NEW read \in BOOLEAN, NEW write \in BOOLEAN
    PROVE  Accessed(h, Access(h, csr, op, value, read, write), csr, op, write)
<1> DEFINE r == Read(h, csr, read)
           m == Modify(r, csr, op, value, write)
           g == Deliver(m, read)
<1>1. IsHart(h) /\ h.exc = none /\ h.target = {}
  BY DEF Ready
<1>2. Done(h, r, csr, "read")
  <2>1. Done(h, h, csr, "read")
    BY DEF Done
  <2>2. Done(h, get_csr_ops(h, csr, "read", {}), csr, "read")
    BY <1>1, RoutineDone DEF RoutineOps
  <2> QED
    BY <2>1, <2>2 DEF Read
<1>3. /\ Effect(h, r, csr, "read") /\ IsHart(r)
      /\ Same(h, r, Fields \ {"exc", "target", "host"}) /\ Confined(h, r)
  BY <1>1, <1>2, DoneEffect, ReadKeeps, SMT DEF Effect
<1>4. m = r \/ (write /\ r.exc = none /\ m = get_csr_ops(r, csr, op, value))
  BY DEF Modify
<1>5. r.exc # none => m = r
  BY DEF Modify
<1> HIDE DEF r, m
<1>6. m = r \/ Done(r, m, csr, op)
  BY <1>3, <1>4, RoutineDone
<1>7. m = r \/ Effect(r, m, csr, op)
  BY <1>3, <1>6, DoneEffect
<1>8. IsHart(m)
  BY <1>3, <1>7 DEF Effect
<1>9. /\ IsHart(g) /\ Same(m, g, Fields \ {"rd", "target"}) /\ g.target = {} /\ Confined(m, g)
  BY <1>8, DeliverIs
<1> DEFINE F == {"priv", "pc", "pc_next", "stdby", "taken", "tval_next"}
<1>10. Same(h, g, F) /\ g.exc = m.exc
  <2>1. Same(h, r, F)
    BY <1>3 DEF Same, Fields
  <2>2. Same(r, m, F)
    BY <1>7 DEF Same, Effect, Guest
  <2>3. Same(m, g, F \cup {"exc"})
    BY <1>9 DEF Same, Fields
  <2> QED
    BY <2>1, <2>2, <2>3 DEF Same
<1>11. h.priv # rv_mmode => Confined(h, g) \/ (csr = csr_num.sstatus /\ op = "write")
  <2> SUFFICES ASSUME h.priv # rv_mmode, ~(csr = csr_num.sstatus /\ op = "write") PROVE Confined(h, g)
    OBVIOUS
  <2>1. r.priv # rv_mmode
    BY <1>3 DEF Same, Fields
  <2>2. m = r \/ Confined(r, m)
    BY <1>7, <2>1 DEF Effect
  <2>3. Confined(h, m)
    BY <1>3, <2>2, ConfinedTwice
  <2> HIDE DEF g
  <2> QED
    BY <1>9, <2>3, ConfinedTwice
<1>12. /\ ~write \/ csr \notin {csr_num.mstatus, csr_num.sstatus} => g.mstatus = h.mstatus
       /\ ~write \/ csr # csr_num.mepc => g.mepc = h.mepc
       /\ ~write \/ csr # csr_num.sepc => g.sepc = h.sepc
  <2>1. r.mstatus = h.mstatus /\ r.mepc = h.mepc /\ r.sepc = h.sepc
    BY <1>3 DEF Same, Fields
  <2>2. g.mstatus = m.mstatus /\ g.mepc = m.mepc /\ g.sepc = m.sepc
    BY <1>9 DEF Same, Fields
  <2>3. ~write => m = r
    BY <1>4
  <2> HIDE DEF g
  <2> QED
    BY <1>7, <2>1, <2>2, <2>3 DEF Effect
<1>13. g = Illegal(h) \/ g.exc = none
  <2> SUFFICES ASSUME g.exc # none PROVE g = Illegal(h)
    OBVIOUS
  <2>1. m.exc # none
    BY <1>10
  <2>2. m.exc # none => g = [m EXCEPT !.rd = m.rd, !.target = {}]
    BY DEF Deliver
  <2>3. CASE m = r
    <3>1. r = Illegal(h)
      BY <1>1, <1>3, <2>1, <2>3 DEF Effect
    <3>2. r.rd = h.rd
      BY <1>3 DEF Same, Fields
    <3> QED
      BY <2>1, <2>2, <2>3, <3>1, <3>2, IllegalAfterRead
  <2>4. CASE m # r
    <3>1. write /\ r.exc = none /\ m = get_csr_ops(r, csr, op, value)
      BY <1>4, <2>4
    <3>2. m = Illegal(r)
      BY <1>7, <2>1, <2>4, <3>1 DEF Effect
    <3>3. ~(csr = csr_num.mstatush /\ Xlen # 32)
      <4>1. csr = csr_num.mstatush /\ Xlen # 32 => m = [r EXCEPT !.host = "die"]
        BY <3>1, HostDies
      <4>2. m = [r EXCEPT !.host = "die"] => m.exc = r.exc
        BY <1>3 DEF IsHart, Fields
      <4> QED
        BY <2>1, <3>1, <4>1, <4>2
    <3>4. r = h \/ \E v : r = Target(h, v)
      <4>1. r # Illegal(h)
        BY <1>1, <3>1, SMT DEF Illegal, IsHart, Fields, illegal_instruction, none
      <4> QED
        BY <1>2, <3>3, <4>1 DEF Done
    <3>5. m.rd = r.rd
      BY <1>7, <2>4 DEF Effect, Same, Guest
    <3>6. [Illegal(r) EXCEPT !.rd = m.rd, !.target = {}] = Illegal(h)
      BY <3>4, <3>5, IllegalAfterRead
    <3> QED
      BY <2>1, <2>2, <3>2, <3>6
  <2> QED
    BY <2>3, <2>4
<1>14. g = Access(h, csr, op, value, read, write)
  BY DEF Access, r, m
<1> HIDE DEF g
<1> QED
  BY <1>9, <1>10, <1>11, <1>12, <1>13, <1>14 DEF Accessed

---------------------------------------------------------------------------
\* The other instructions

\* The instruction only raised an exception.
FailedAs(h, g) == \E e, t : g = [h EXCEPT !.exc = e, !.tval_next = t]

\* It raised an exception and did nothing else, or it raised none and did what an
\* instruction may do.
WellBehaved(h, g, i) == FailedAs(h, g) \/ (g.exc = none /\ Ran(h, g, i))

\* An instruction of a program: a jump goes to an address, a store writes some of the 64
\* bits of a register.
Instruction(i) ==
    /\ i.op \in Ops
    /\ i.op = "jump" => i.to \in Addresses
    /\ i.op = "store" => i.bits \subseteq 0 .. 2 * Half - 1 /\ i.v \subseteq i.bits

\* A step that changes only fields M mode does not look at is confined.
LEMMA ConfinedTo ==
    ASSUME NEW h, NEW g, NEW F, F \cap (MachineFields \cup {"mstatus", "mie", "mip"}) = {},
           Same(h, g, Fields \ F)
    PROVE  Confined(h, g)
<1> SUFFICES ASSUME NEW f \in Fields PROVE Kept(f, h[f], g[f])
  BY DEF Confined
<1>1. CASE f \in F
  BY <1>1 DEF Kept
<1>2. CASE f \notin F
  BY <1>2, KeptSame DEF Same
<1> QED
  BY <1>1, <1>2

\* An instruction that only raised an exception did what an instruction may do.
LEMMA FailedRan ==
    ASSUME NEW h, Ready(h), NEW g, FailedAs(h, g), NEW i
    PROVE  Ran(h, g, i)
<1>1. PICK e, t : g = [h EXCEPT !.exc = e, !.tval_next = t]
  BY DEF FailedAs
<1> DEFINE k == [h EXCEPT !["exc"] = e]
           l == [k EXCEPT !["tval_next"] = t]
<1>2. "exc" \in Fields /\ "tval_next" \in Fields /\ Fit("exc", e) /\ Fit("tval_next", t)
  BY DEF Fields, Fit
<1>3. IsHart(h) /\ h.exc = none /\ h.target = {} /\ h.tval_next = {}
  BY DEF Ready
<1>4. IsHart(k) /\ \A x \in Fields \ {"exc"} : k[x] = h[x]
  BY <1>2, <1>3, PutIs, SMT
<1>5. g = l
  BY <1>1
<1> HIDE DEF k
<1>6. IsHart(l) /\ \A x \in Fields \ {"tval_next"} : l[x] = k[x]
  BY <1>2, <1>4, PutIs, SMT
<1> HIDE DEF l
<1>7. IsHart(g) /\ Same(h, g, Fields \ {"exc", "tval_next"})
  BY <1>4, <1>5, <1>6 DEF Same
<1>8. Confined(h, g)
  BY <1>7, ConfinedTo DEF MachineFields
<1>9. Failed(h, g)
  <2>1. h = [f \in Fields |-> h[f]]
    BY <1>3 DEF IsHart
  <2> QED
    BY <1>1, <1>2, <1>3, <2>1 DEF Failed
<1>10. Same(h, g, {"target", "taken", "pc", "mepc", "sepc", "mstatus"})
  BY <1>7 DEF Same, Fields
<1> QED
  BY <1>3, <1>7, <1>8, <1>9, <1>10 DEF Ran, MSaved, SSaved, Same

\* Raising an exception, with or without a value for tval, is only that (rv_call_instr, a
\* fault of a fetch or of a load).
LEMMA RaiseFails ==
    ASSUME NEW h, IsHart(h), NEW ex
    PROVE  /\ FailedAs(h, Raise(h, ex)) /\ FailedAs(h, Illegal(h))
           /\ \A v : FailedAs(h, Raise([h EXCEPT !.tval_next = v], ex))
<1>1. h = [f \in Fields |-> h[f]]
  BY DEF IsHart
<1>2. "exc" \in Fields /\ "tval_next" \in Fields
  BY DEF Fields
<1>3. ASSUME NEW x PROVE [h EXCEPT !.exc = x] = [h EXCEPT !.exc = x, !.tval_next = h.tval_next]
  BY <1>1, <1>2
<1>4. ASSUME NEW v PROVE Raise([h EXCEPT !.tval_next = v], ex) = [h EXCEPT !.exc = ex, !.tval_next = v]
  BY <1>1, <1>2 DEF Raise
<1> QED
  BY <1>3, <1>4 DEF FailedAs, Raise, Illegal

\* An instruction that changes only the next address, standby or the state of the
\* simulator (a jump, rv_wfi_instr, rv_halt_instr).
LEMMA OwnRan ==
    ASSUME NEW h, Ready(h), NEW f \in {"pc_next", "stdby", "host"}, NEW v, Fit(f, v), NEW i
    PROVE  WellBehaved(h, [h EXCEPT ![f] = v], i)
<1> DEFINE g == [h EXCEPT ![f] = v]
<1>1. f \in Fields
  BY DEF Fields
<1>2. IsHart(h) /\ h.exc = none /\ h.target = {}
  BY DEF Ready
<1>3. IsHart(g) /\ \A x \in Fields \ {f} : g[x] = h[x]
  BY <1>1, <1>2, PutIs, SMT
<1> HIDE DEF g
<1>4. Same(h, g, Fields \ {f})
  BY <1>3 DEF Same
<1>5. Confined(h, g)
  BY <1>4, ConfinedTo DEF MachineFields
<1>6. Same(h, g, {"exc", "target", "taken", "pc", "mepc", "sepc", "mstatus"})
  BY <1>4, SMT DEF Same, Fields
<1>7. g.exc = none /\ Ran(h, g, i)
  BY <1>2, <1>3, <1>5, <1>6 DEF Ran, MSaved, SSaved, Same
<1> QED
  BY <1>7 DEF WellBehaved, g

\* An instruction that changes nothing.
LEMMA NothingRan ==
    ASSUME NEW h, Ready(h), NEW i
    PROVE  WellBehaved(h, h, i)
<1>1. Confined(h, h)
  BY KeptSame DEF Confined
<1> QED
  BY <1>1 DEF WellBehaved, Ready, Ran, MSaved, SSaved

\* The CSR instructions do what an instruction may do.
LEMMA CsrRan ==
    ASSUME NEW h, Ready(h), NEW i, i.op \in {"csrrw", "csrrs", "csrrc"}
    PROVE  WellBehaved(h, rv_csr_instr(h, i), i)
<1> DEFINE op == CASE i.op = "csrrw" -> "write" [] i.op = "csrrs" -> "set" [] i.op = "csrrc" -> "clear"
           read == i.op = "csrrw" => ~i.x0
           write == i.op = "csrrw" \/ ~i.x0
           g == Access(h, i.csr, op, i.v, read, write)
<1>1. rv_csr_instr(h, i) = g
  BY DEF rv_csr_instr, rv_csr_rw, rv_csr_rs, rv_csr_rc
<1>2. op \in RoutineOps \ {"read"} /\ (op = "write" <=> i.op = "csrrw")
  BY DEF RoutineOps
<1>3. read \in BOOLEAN /\ write \in BOOLEAN
  OBVIOUS
<1>4. \A regs : i.csr \in regs /\ write => Writes(i, regs)
  BY DEF Writes
<1> HIDE DEF op, read, write
<1>5. Accessed(h, g, i.csr, op, write)
  BY <1>2, <1>3, AccessIs
<1> HIDE DEF g
<1>6. CASE g = Illegal(h)
  BY <1>1, <1>6, RaiseFails DEF WellBehaved, Ready
<1>7. CASE g.exc = none
  <2>1. IsHart(g) /\ g.target = {} /\ g.taken = h.taken /\ g.pc = h.pc
    BY <1>5 DEF Accessed, Same
  <2>2. h.priv # rv_mmode /\ ~SstatusWrite(i) => Confined(h, g)
    BY <1>2, <1>5 DEF Accessed, SstatusWrite
  <2>3. ~MClobbers(i) => MSaved(h, g)
    BY <1>4, <1>5 DEF Accessed, MClobbers, MSaved
  <2>4. ~SClobbers(i) => SSaved(h, g)
    BY <1>4, <1>5 DEF Accessed, SClobbers, SSaved
  <2> QED
    BY <1>1, <1>7, <2>1, <2>2, <2>3, <2>4 DEF WellBehaved, Ran
<1> QED
  BY <1>5, <1>6, <1>7 DEF Accessed

\* A record that differs from a hart in fitting values of a few fields is a hart.
LEMMA StillHart ==
    ASSUME NEW h, IsHart(h), NEW g, g = [x \in Fields |-> g[x]], NEW F, Same(h, g, Fields \ F),
           \A f \in F : Fit(f, g[f])
    PROVE  IsHart(g)
BY DEF IsHart, Same

\* Recomputing the timer line of M mode after mtime or mtimecmp has been written leaves
\* everything else alone (handle_mtip).
LEMMA TimerWritten ==
    ASSUME NEW h, Ready(h), NEW i, NEW v \in Counters64, NEW r \in {"mtime", "mtimecmp"}
    PROVE  h.priv = rv_mmode => WellBehaved(h, handle_mtip([h EXCEPT ![r] = v]), i)
<1> DEFINE m == [h EXCEPT ![r] = v]
           g == handle_mtip(m)
<1>1. IsHart(h) /\ h = [f \in Fields |-> h[f]] /\ h.exc = none /\ h.target = {}
  BY DEF Ready, IsHart
<1>2. {r, "mip"} \subseteq Fields
  BY DEF Fields
<1>3. g = [x \in Fields |-> g[x]] /\ Same(h, g, Fields \ {r, "mip"}) /\ g[r] = v
  BY <1>1, <1>2 DEF handle_mtip, Same
<1> HIDE DEF g
<1>4. \A f \in {r, "mip"} : Fit(f, g[f])
  BY <1>3 DEF Fit
<1>5. IsHart(g)
  BY <1>1, <1>3, <1>4, StillHart
<1>6. Same(h, g, {"exc", "target", "taken", "pc", "mepc", "sepc", "mstatus"})
  BY <1>3, ZenonT(30) DEF Same, Fields
<1> QED
  BY <1>1, <1>5, <1>6 DEF WellBehaved, Ran, MSaved, SSaved, Same, g

\* A store of mtime or mtimecmp (try_write_memory_mapped_regs) is ignored below M mode,
\* and keeps the timer line of M mode true.
LEMMA StoreRan ==
    ASSUME NEW h, Ready(h), NEW i, i.bits \subseteq 0 .. 2 * Half - 1, i.v \subseteq i.bits
    PROVE  WellBehaved(h, try_write_memory_mapped_regs(h, i), i)
<1> DEFINE new(r) == (h[r] \ i.bits) \cup i.v
<1>1. new("mtime") \in Counters64 /\ new("mtimecmp") \in Counters64
  <2>1. IsHart(h) /\ {"mtime", "mtimecmp"} \subseteq Fields
    BY DEF Ready, Fields
  <2>2. Fit("mtime", h.mtime) /\ Fit("mtimecmp", h.mtimecmp)
    BY <2>1 DEF IsHart
  <2> QED
    BY <2>2 DEF Fit, Counters64
<1>2. h.priv = rv_mmode => /\ WellBehaved(h, handle_mtip([h EXCEPT !["mtime"] = new("mtime")]), i)
                           /\ WellBehaved(h, handle_mtip([h EXCEPT !["mtimecmp"] = new("mtimecmp")]), i)
  BY <1>1, TimerWritten
<1>3. WellBehaved(h, h, i)
  BY NothingRan
<1>4. ~(h.priv < rv_mmode) => h.priv = rv_mmode
  BY HartPriv, SMT DEF Ready, rv_umode, rv_smode, rv_mmode
<1> QED
  BY <1>2, <1>3, <1>4 DEF try_write_memory_mapped_regs

\* Copying one status bit to another changes only that one.
LEMMA CopyIs ==
    ASSUME NEW word, NEW to, NEW from
    PROVE  /\ \A b : b # to => (b \in Copy(word, to, from) <=> b \in word)
           /\ to \in Copy(word, to, from) <=> from \in word
BY DEF Copy

\* What an sret does when it is legal: the mode, the address and the interrupt enable
\* come from what the trap saved.
Sret(h, g) ==
    /\ Same(h, g, Fields \ {"priv", "mstatus", "pc_next"})
    /\ g.priv = spp(h) /\ g.pc_next = ToAddress(h.sepc)
    /\ SIE \in g.mstatus <=> SPIE \in h.mstatus

\* The same for an mret.
Mret(h, g) ==
    /\ Same(h, g, Fields \ {"priv", "mstatus", "pc_next"})
    /\ g.priv = mpp(h) /\ g.pc_next = ToAddress(h.mepc)
    /\ MIE \in g.mstatus <=> MPIE \in h.mstatus

\* rv_sret_instr does what an instruction may do, and returns by what the trap to S mode
\* saved.
LEMMA SretRan ==
    ASSUME NEW h, Ready(h), NEW i, i.op = "sret"
    PROVE  /\ WellBehaved(h, rv_sret_instr(h), i)
           /\ TSR \notin h.mstatus /\ h.priv >= rv_smode => Sret(h, rv_sret_instr(h))
<1> DEFINE word == (Copy(h.mstatus, SIE, SPIE) \cup {SPIE}) \ {SPP, MPRV}
           p == spp(h)
           to == ToAddress(h.sepc)
           g == [h EXCEPT !.priv = p, !.mstatus = word, !.pc_next = to]
<1>1. IsHart(h) /\ h = [f \in Fields |-> h[f]] /\ h.exc = none /\ h.target = {}
  BY DEF Ready, IsHart
<1>2. {"priv", "mstatus", "pc_next"} \subseteq Fields
  BY DEF Fields
<1>3. p \in {rv_umode, rv_smode} /\ to \in Addresses
  BY DEF spp, ToAddress, Addresses
<1>4. /\ word \ (sstatus_mask \cup {MPRV}) = h.mstatus \ (sstatus_mask \cup {MPRV}) /\ MPRV \notin word
      /\ SIE \in word <=> SPIE \in h.mstatus
  BY CopyIs, StatusBits, SMT
<1> HIDE DEF word, p, to
<1>5. /\ g = [x \in Fields |-> g[x]] /\ Same(h, g, Fields \ {"priv", "mstatus", "pc_next"})
      /\ g.priv = p /\ g.mstatus = word /\ g.pc_next = to
  BY <1>1, <1>2 DEF Same
<1> HIDE DEF g
<1>6. ~ReservedMpp(h.mstatus)
  BY <1>1, <1>2, FieldFit DEF Fit
<1>7. ~ReservedMpp(word)
  BY <1>4, <1>6, StatusBits DEF ReservedMpp
<1>8. \A f \in {"priv", "mstatus", "pc_next"} : Fit(f, g[f])
  BY <1>3, <1>5, <1>7 DEF Fit
<1>9. IsHart(g)
  BY <1>1, <1>5, <1>8, StillHart
<1>10. Confined(h, g)
  <2> SUFFICES ASSUME NEW f \in Fields PROVE Kept(f, h[f], g[f])
    BY DEF Confined
  <2>1. CASE f = "mstatus"
    BY <1>4, <1>5, <2>1 DEF Kept, MachineFields
  <2>2. CASE f \in {"priv", "pc_next"}
    BY <2>2 DEF Kept, MachineFields
  <2>3. CASE f \notin {"priv", "mstatus", "pc_next"}
    BY <1>5, <2>3, KeptSame DEF Same
  <2> QED
    BY <2>1, <2>2, <2>3
<1>11. Same(h, g, {"exc", "target", "taken", "pc", "mepc", "sepc"})
  BY <1>5 DEF Same, Fields
<1>12. MSaved(h, g)
  BY <1>4, <1>5, <1>11, StatusBits DEF MSaved, Same
<1>13. WellBehaved(h, g, i)
  BY <1>1, <1>9, <1>10, <1>11, <1>12 DEF WellBehaved, Ran, SClobbers, Same
<1>14. WellBehaved(h, Illegal(h), i)
  BY <1>1, RaiseFails DEF WellBehaved
<1>15. Sret(h, g)
  BY <1>4, <1>5 DEF Sret, p, to
<1>16. h.priv >= rv_smode => ~(h.priv < rv_smode)
  BY <1>1, HartPriv, SMT DEF rv_umode, rv_smode, rv_mmode
<1>17. rv_sret_instr(h) = IF TSR \in h.mstatus \/ h.priv < rv_smode THEN Illegal(h) ELSE g
  BY DEF rv_sret_instr, g, word, p, to
<1> QED
  BY <1>13, <1>14, <1>15, <1>16, <1>17

\* rv_mret_instr does what an instruction may do, finds an existing mode in MPP, and
\* returns by what the trap to M mode saved.
LEMMA MretRan ==
    ASSUME NEW h, Ready(h), NEW i, i.op = "mret"
    PROVE  /\ WellBehaved(h, rv_mret_instr(h), i)
           /\ h.priv = rv_mmode => Mret(h, rv_mret_instr(h))
<1> DEFINE word == ((Copy(h.mstatus, MIE, MPIE) \cup {MPIE}) \ MPP) \ (IF mpp(h) # rv_mmode THEN {MPRV} ELSE {})
           p == mpp(h)
           to == ToAddress(h.mepc)
           g == [h EXCEPT !.priv = p, !.mstatus = word, !.pc_next = to]
<1>1. IsHart(h) /\ h = [f \in Fields |-> h[f]] /\ h.exc = none /\ h.target = {}
  BY DEF Ready, IsHart
<1>2. {"priv", "mstatus", "pc_next"} \subseteq Fields
  BY DEF Fields
<1>3. ~ReservedMpp(h.mstatus)
  BY <1>1, <1>2, FieldFit DEF Fit
<1>4. p \in {rv_umode, rv_smode, rv_mmode} /\ to \in Addresses
  BY <1>3, SMT DEF mpp, ToAddress, Addresses, ReservedMpp, MPP, rv_umode, rv_smode, rv_mmode
<1>5. /\ word \cap MPP = {} /\ (MIE \in word <=> MPIE \in h.mstatus)
      /\ word \cap {SPP, SPIE} = h.mstatus \cap {SPP, SPIE}
  <2>1. /\ {MIE, MPIE, MPRV, SPP, SPIE} \cap MPP = {} /\ MIE # MPIE
        /\ {MIE, MPIE, MPRV} \cap {SPP, SPIE} = {} /\ MPRV \notin {MIE, MPIE}
    BY SMT DEF MPP, SPP, SPIE, MPRV, MIE, MPIE
  <2>2. /\ MIE \in Copy(h.mstatus, MIE, MPIE) <=> MPIE \in h.mstatus
        /\ \A b \in {SPP, SPIE} : b \in Copy(h.mstatus, MIE, MPIE) <=> b \in h.mstatus
    BY <2>1, CopyIs
  <2> QED
    BY <2>1, <2>2
<1> HIDE DEF word, p, to
<1>6. /\ g = [x \in Fields |-> g[x]] /\ Same(h, g, Fields \ {"priv", "mstatus", "pc_next"})
      /\ g.priv = p /\ g.mstatus = word /\ g.pc_next = to
  BY <1>1, <1>2 DEF Same
<1> HIDE DEF g
<1>7. \A f \in {"priv", "mstatus", "pc_next"} : Fit(f, g[f])
  BY <1>4, <1>5, <1>6 DEF Fit, ReservedMpp
<1>8. IsHart(g)
  BY <1>1, <1>6, <1>7, StillHart
<1>9. Same(h, g, {"exc", "target", "taken", "pc", "mepc", "sepc"})
  BY <1>6 DEF Same, Fields
<1>10. SSaved(h, g)
  BY <1>5, <1>6, <1>9 DEF SSaved, Same
<1>11. h.priv = rv_mmode => WellBehaved(h, g, i)
  BY <1>1, <1>8, <1>9, <1>10 DEF WellBehaved, Ran, MClobbers, Same
<1>12. WellBehaved(h, Illegal(h), i)
  BY <1>1, RaiseFails DEF WellBehaved
<1>13. Mret(h, g)
  BY <1>5, <1>6 DEF Mret, p, to
<1>14. h.priv = rv_mmode <=> ~(h.priv < rv_mmode)
  BY <1>1, HartPriv, SMT DEF rv_umode, rv_smode, rv_mmode
<1>15. rv_mret_instr(h) = IF h.priv < rv_mmode THEN Illegal(h) ELSE g
  BY DEF rv_mret_instr, g, word, p, to
<1> QED
  BY <1>11, <1>12, <1>13, <1>14, <1>15

---------------------------------------------------------------------------
\* Every instruction

\* Every instruction of the guest does what an instruction may do.
LEMMA InstructionRan ==
    ASSUME NEW h, Ready(h), NEW i, Instruction(i)
    PROVE  WellBehaved(h, instr_func(h, i), i)
<1>1. IsHart(h) /\ h.priv \in {rv_umode, rv_smode, rv_mmode}
  BY HartPriv DEF Ready
<1>2. WellBehaved(h, h, i)
  BY NothingRan
<1>3. \A ex, v : WellBehaved(h, Raise(h, ex), i) /\ WellBehaved(h, Raise([h EXCEPT !.tval_next = v], ex), i)
  BY <1>1, RaiseFails DEF WellBehaved
<1>4. WellBehaved(h, Illegal(h), i)
  BY <1>1, RaiseFails DEF WellBehaved
<1>5. i.op = "jump" => WellBehaved(h, [h EXCEPT !.pc_next = i.to], i)
  <2> SUFFICES ASSUME i.op = "jump" PROVE WellBehaved(h, [h EXCEPT !["pc_next"] = i.to], i)
    OBVIOUS
  <2>1. Fit("pc_next", i.to)
    BY DEF Instruction, Fit
  <2> QED
    BY <2>1, OwnRan
<1>6. i.op = "store" => WellBehaved(h, try_write_memory_mapped_regs(h, i), i)
  BY StoreRan DEF Instruction
<1>7. WellBehaved(h, rv_wfi_instr(h), i)
  <2>1. Fit("stdby", TRUE)
    BY DEF Fit
  <2>2. WellBehaved(h, [h EXCEPT !["stdby"] = TRUE], i)
    BY <2>1, OwnRan
  <2> QED
    BY <1>4, <2>2 DEF rv_wfi_instr
<1>8. WellBehaved(h, rv_halt_instr(h), i)
  <2>1. Fit("host", "halt")
    BY DEF Fit
  <2>2. WellBehaved(h, [h EXCEPT !["host"] = "halt"], i)
    BY <2>1, OwnRan
  <2> QED
    BY <2>2 DEF rv_halt_instr
<1>9. /\ i.op = "sret" => WellBehaved(h, rv_sret_instr(h), i)
      /\ i.op = "mret" => WellBehaved(h, rv_mret_instr(h), i)
      /\ i.op \in {"csrrw", "csrrs", "csrrc"} => WellBehaved(h, rv_csr_instr(h, i), i)
  BY SretRan, MretRan, CsrRan, SMT
<1>10. WellBehaved(h, rv_call_instr(h), i)
  BY <1>3 DEF rv_call_instr
<1>11. i.op \in Ops
  BY DEF Instruction
<1> QED
  BY <1>2, <1>3, <1>5, <1>6, <1>7, <1>8, <1>9, <1>10, <1>11 DEF instr_func, Ops

\* So does the first phase of rv32_cpu_step, which runs no instruction in standby and
\* puts the opcode of an illegal one into tval.
LEMMA ExecutedRan ==
    ASSUME NEW h, Ready(h), NEW i, ~h.stdby => Instruction(i)
    PROVE  Ran(h, executed(h, i), i)
<1>1. CASE h.stdby
  <2>1. WellBehaved(h, h, i)
    BY NothingRan
  <2>2. Ran(h, h, i)
    BY <2>1, FailedRan DEF WellBehaved
  <2> QED
    BY <1>1, <2>2 DEF executed
<1>2. CASE ~h.stdby
  <2> DEFINE g == instr_func(h, i)
  <2>1. WellBehaved(h, g, i)
    BY <1>2, InstructionRan
  <2> HIDE DEF g
  <2>2. CASE FailedAs(h, g)
    <3>1. FailedAs(h, ReportOpcode(g))
      <4>1. PICK e, t : g = [h EXCEPT !.exc = e, !.tval_next = t]
        BY <2>2 DEF FailedAs
      <4>2. h = [f \in Fields |-> h[f]]
        BY DEF Ready, IsHart
      <4>3. [g EXCEPT !.tval_next = Opcode] = [h EXCEPT !.exc = e, !.tval_next = Opcode]
        BY <4>1, <4>2 DEF Fields
      <4> QED
        BY <2>2, <4>3 DEF ReportOpcode, FailedAs
    <3> QED
      BY <1>2, <3>1, FailedRan DEF executed, execute, g
  <2>3. CASE g.exc = none /\ Ran(h, g, i)
    BY <1>2, <2>3, SMT DEF executed, execute, ReportOpcode, none, illegal_instruction, g
  <2> QED
    BY <2>1, <2>2, <2>3 DEF WellBehaved
<1> QED
  BY <1>1, <1>2

---------------------------------------------------------------------------
\* Traps

\* A legal vector takes the hart to an address and never reaches the assertion in m_trap
\* and s_trap.
LEMMA VectoredIs ==
    ASSUME NEW k, NEW vec, 1 \notin vec, NEW ex, NEW interrupt
    PROVE  \E a \in Addresses : Vectored(k, vec, ex, interrupt) = [k EXCEPT !.pc_next = a]
<1> DEFINE base == ToAddress(vec \ {0, 1})
           off == Plus(base, {b + 2 : b \in Code(ex)})
           a == IF vec \cap {0, 1} = {0} /\ interrupt THEN off ELSE base
<1>1. base \in Addresses /\ off \in Addresses
  BY DEF ToAddress, Addresses, Plus
<1>2. vec \cap {0, 1} = {} \/ vec \cap {0, 1} = {0}
  OBVIOUS
<1> HIDE DEF base, off
<1>3. a \in Addresses /\ Vectored(k, vec, ex, interrupt) = [k EXCEPT !.pc_next = a]
  BY <1>1, <1>2 DEF Vectored, base, off
<1> HIDE DEF a
<1> QED
  BY <1>3

\* The fields that m_trap assigns.
MTrapFields == {"stdby", "mepc", "mcause", "mtval", "mstatus", "priv", "taken", "pc_next"}

\* What m_trap does: the mode, the address and the interrupt enable that it interrupts are
\* saved in MPP, mepc and MPIE, and what S mode has saved stays.
MTrap(h, t, ex, interrupt) ==
    /\ IsHart(t)
    /\ Same(h, t, Fields \ MTrapFields)
    /\ t.stdby = FALSE /\ t.priv = rv_mmode
    /\ t.mepc = IF interrupt THEN h.pc_next ELSE h.pc
    /\ t.taken = [to |-> "m", n |-> ex, interrupt |-> interrupt]
    /\ mpp(t) = h.priv
    /\ MPIE \in t.mstatus <=> MIE \in h.mstatus
    /\ t.mstatus \cap {SPP, SPIE, SIE} = h.mstatus \cap {SPP, SPIE, SIE}

\* The fields that s_trap assigns.
STrapFields == {"stdby", "sepc", "scause", "stval", "mstatus", "priv", "taken", "pc_next"}

\* What s_trap does, with SPP, sepc and SPIE.
STrap(h, t, ex, interrupt) ==
    /\ IsHart(t)
    /\ Same(h, t, Fields \ STrapFields)
    /\ t.stdby = FALSE /\ t.priv = rv_smode
    /\ t.sepc = IF interrupt THEN h.pc_next ELSE h.pc
    /\ t.taken = [to |-> "s", n |-> ex, interrupt |-> interrupt]
    /\ spp(t) = h.priv
    /\ SPIE \in t.mstatus <=> SIE \in h.mstatus
    /\ t.mstatus \ {SPP, SPIE, SIE} = h.mstatus \ {SPP, SPIE, SIE}

\* The two bits of MPP for each of the three modes.
LEMMA FieldIs ==
    /\ {b + 11 : b \in Field(rv_umode)} = {}
    /\ {b + 11 : b \in Field(rv_smode)} = {11}
    /\ {b + 11 : b \in Field(rv_mmode)} = {11, 12}
<1>1. Field(rv_umode) = {} /\ Field(rv_smode) = {0} /\ Field(rv_mmode) = {0, 1}
  BY SMT DEF Field, rv_umode, rv_smode, rv_mmode
<1> QED
  BY <1>1, SMT

\* m_trap saves what it interrupts and leaves a hart.
LEMMA MTrapIs ==
    ASSUME NEW h, IsHart(h), NEW ex, NEW interrupt
    PROVE  MTrap(h, m_trap(h, ex, interrupt), ex, interrupt)
<1> DEFINE word == ((Copy(h.mstatus, MPIE, MIE) \ {MIE}) \ MPP) \cup {b + 11 : b \in Field(h.priv)}
           epc == IF interrupt THEN h.pc_next ELSE h.pc
           cause == Cause(ex, interrupt)
           took == [to |-> "m", n |-> ex, interrupt |-> interrupt]
           k == [h EXCEPT !.stdby = FALSE, !.mepc = epc, !.mcause = cause, !.mtval = h.tval_next,
                          !.mstatus = word, !.priv = rv_mmode, !.taken = took]
<1>1. m_trap(h, ex, interrupt) = Vectored(k, h.mtvec, ex, interrupt)
  BY DEF m_trap
<1> HIDE DEF k
<1>2. 1 \notin h.mtvec /\ h.priv \in {rv_umode, rv_smode, rv_mmode} /\ h = [f \in Fields |-> h[f]]
  <2>1. "mtvec" \in Fields
    BY DEF Fields
  <2>2. Fit("mtvec", h["mtvec"])
    BY <2>1, FieldFit
  <2> QED
    BY <2>2, HartPriv DEF Fit, IsHart
<1>3. PICK a \in Addresses : m_trap(h, ex, interrupt) = [k EXCEPT !.pc_next = a]
  BY <1>1, <1>2, VectoredIs, SMT
<1>4. /\ (11 \in word <=> h.priv # rv_umode) /\ (12 \in word <=> h.priv = rv_mmode)
      /\ \A b : b \notin MPP => (b \in word <=> b \in Copy(h.mstatus, MPIE, MIE) /\ b # MIE)
  BY <1>2, FieldIs, SMT DEF MPP, rv_umode, rv_smode, rv_mmode
<1> HIDE DEF word, epc, cause, took
<1> DEFINE t == [k EXCEPT !.pc_next = a]
<1>5. MTrapFields \subseteq Fields
  BY DEF MTrapFields, Fields
<1>6. /\ t = [x \in Fields |-> t[x]] /\ Same(h, t, Fields \ MTrapFields)
      /\ t.stdby = FALSE /\ t.priv = rv_mmode /\ t.mepc = epc /\ t.taken = took
      /\ t.mstatus = word /\ t.pc_next = a
  BY <1>2, <1>5 DEF MTrapFields, Same, k
<1> HIDE DEF t
<1>7. ~ReservedMpp(word)
  BY <1>4, SMT DEF ReservedMpp, MPP, rv_umode, rv_smode, rv_mmode
<1>8. \A f \in MTrapFields : Fit(f, t[f])
  BY <1>6, <1>7 DEF MTrapFields, Fit
<1>9. IsHart(t)
  BY <1>6, <1>8, StillHart
<1>10. mpp(t) = h.priv
  BY <1>2, <1>4, <1>6, SMT DEF mpp, rv_umode, rv_smode, rv_mmode
<1>11. /\ MPIE \in word <=> MIE \in h.mstatus
       /\ word \cap {SPP, SPIE, SIE} = h.mstatus \cap {SPP, SPIE, SIE}
  <2>1. {MPIE, SPP, SPIE, SIE} \cap MPP = {} /\ MPIE # MIE /\ {MPIE, MIE} \cap {SPP, SPIE, SIE} = {}
    BY SMT DEF MPP, MPIE, MIE, SPP, SPIE, SIE
  <2>2. /\ MPIE \in Copy(h.mstatus, MPIE, MIE) <=> MIE \in h.mstatus
        /\ \A b \in {SPP, SPIE, SIE} : b \in Copy(h.mstatus, MPIE, MIE) <=> b \in h.mstatus
    BY <2>1, CopyIs
  <2> QED
    BY <1>4, <2>1, <2>2
<1> QED
  BY <1>3, <1>6, <1>9, <1>10, <1>11 DEF MTrap, t, epc, took

\* s_trap does the same; it is never taken from M mode, which SPP could not hold.
LEMMA STrapIs ==
    ASSUME NEW h, IsHart(h), h.priv # rv_mmode, NEW ex, NEW interrupt
    PROVE  STrap(h, s_trap(h, ex, interrupt), ex, interrupt)
<1> DEFINE word == (Copy(h.mstatus, SPIE, SIE) \ {SIE, SPP}) \cup (IF h.priv % 2 = 1 THEN {SPP} ELSE {})
           epc == IF interrupt THEN h.pc_next ELSE h.pc
           cause == Cause(ex, interrupt)
           took == [to |-> "s", n |-> ex, interrupt |-> interrupt]
           k == [h EXCEPT !.stdby = FALSE, !.sepc = epc, !.scause = cause, !.stval = h.tval_next,
                          !.mstatus = word, !.priv = rv_smode, !.taken = took]
<1>1. s_trap(h, ex, interrupt) = Vectored(k, h.stvec, ex, interrupt)
  BY DEF s_trap
<1> HIDE DEF k
<1>2. /\ 1 \notin h.stvec /\ h.priv \in {rv_umode, rv_smode} /\ h = [f \in Fields |-> h[f]]
      /\ ~ReservedMpp(h.mstatus)
  <2>1. "stvec" \in Fields /\ "mstatus" \in Fields
    BY DEF Fields
  <2>2. Fit("stvec", h["stvec"]) /\ Fit("mstatus", h["mstatus"])
    BY <2>1, FieldFit
  <2> QED
    BY <2>2, HartPriv DEF Fit, IsHart
<1>3. PICK a \in Addresses : s_trap(h, ex, interrupt) = [k EXCEPT !.pc_next = a]
  BY <1>1, <1>2, VectoredIs, SMTT(30)
<1>4. /\ SPP \in word <=> h.priv = rv_smode
      /\ \A b : b # SPP => (b \in word <=> b \in Copy(h.mstatus, SPIE, SIE) /\ b # SIE)
  BY <1>2, SMT DEF rv_umode, rv_smode
<1> HIDE DEF word, epc, cause, took
<1> DEFINE t == [k EXCEPT !.pc_next = a]
<1>5. STrapFields \subseteq Fields
  BY DEF STrapFields, Fields
<1>6. /\ t = [x \in Fields |-> t[x]] /\ Same(h, t, Fields \ STrapFields)
      /\ t.stdby = FALSE /\ t.priv = rv_smode /\ t.sepc = epc /\ t.taken = took
      /\ t.mstatus = word /\ t.pc_next = a
  BY <1>2, <1>5 DEF STrapFields, Same, k
<1> HIDE DEF t
<1>7. /\ SPIE \in word <=> SIE \in h.mstatus
      /\ word \ {SPP, SPIE, SIE} = h.mstatus \ {SPP, SPIE, SIE}
  <2>1. SPIE # SIE /\ SPIE # SPP
    BY SMT DEF SPP, SPIE, SIE
  <2>2. /\ SPIE \in Copy(h.mstatus, SPIE, SIE) <=> SIE \in h.mstatus
        /\ \A b : b # SPIE => (b \in Copy(h.mstatus, SPIE, SIE) <=> b \in h.mstatus)
    BY <2>1, CopyIs
  <2> QED
    BY <1>4, <2>1, <2>2
<1>8. ~ReservedMpp(word)
  <2>1. {SPP, SPIE, SIE} \cap MPP = {}
    BY SMT DEF SPP, SPIE, SIE, MPP
  <2> QED
    BY <1>2, <1>7, <2>1 DEF ReservedMpp
<1>9. \A f \in STrapFields : Fit(f, t[f])
  BY <1>6, <1>8 DEF STrapFields, Fit
<1>10. IsHart(t)
  BY <1>6, <1>9, StillHart
<1>11. spp(t) = h.priv
  BY <1>2, <1>4, <1>6 DEF spp
<1> QED
  BY <1>3, <1>6, <1>7, <1>10, <1>11 DEF STrap, t, epc, took

---------------------------------------------------------------------------
\* Which interrupt is taken

\* A set of numbers that is not empty has a least one.
LEMMA LeastOf ==
    ASSUME NEW set \in SUBSET Nat, set # {}
    PROVE  \E i \in set : \A j \in set : i <= j
<1> DEFINE R == OpToRel(<, Nat)
<1>1. IsWellFoundedOn(R, Nat)
  BY NatLessThanWellFounded
<1>2. \A y, x \in Nat : y < x => <<y, x>> \in R
  BY SMT DEF OpToRel
<1> HIDE DEF R
<1>3. \A T : T \subseteq Nat /\ T # {} => \E x \in T : \A y \in T : ~(<<y, x>> \in R)
  BY <1>1, WFMin, Zenon
<1>4. PICK x \in set : \A y \in set : ~(<<y, x>> \in R)
  BY <1>3
<1>5. \A y \in set : ~(y < x)
  BY <1>2, <1>4, Zenon
<1> QED
  BY <1>5, SMT

\* Min finds it.
LEMMA MinIs ==
    ASSUME NEW K \in SUBSET Nat, K # {}
    PROVE  Min(K) \in K /\ \A k \in K : Min(K) <= k
BY LeastOf DEF Min

\* The place of an interrupt in the order of M mode is the one it was put at.
LEMMA RankIs == \A r \in 1 .. 6 : Rank(MOrder[r]) = r
<1>1. \A q, r \in 1 .. 6 : MOrder[q] = MOrder[r] => q = r
  BY SMT DEF MOrder, MEI, MSI, MTI, SEI, SSI, STI
<1> QED
  BY <1>1 DEF Rank

\* The order of try_handle_interrupt names every interrupt once, and in the 32-bit build
\* the order of S mode is the tail of that of M mode.
LEMMA OrderIs ==
    /\ DOMAIN MOrder = 1 .. 6 /\ mi_mask = {MOrder[r] : r \in 1 .. 6}
    /\ Xlen = 32 => /\ DOMAIN SOrder = 1 .. 3 /\ si_mask = {SOrder[r] : r \in 1 .. 3}
                    /\ \A r \in 1 .. 3 : SOrder[r] = MOrder[r + 3]
<1>1. DOMAIN MOrder = 1 .. 6
  BY SMT DEF MOrder
<1>2. mi_mask = {MOrder[r] : r \in 1 .. 6}
  BY SMT DEF MOrder, mi_mask, si_mask, MEI, MSI, MTI, SEI, SSI, STI
<1>3. Xlen = 32 => SOrder = <<SEI, SSI, STI>>
  BY DEF SOrder
<1>4. Xlen = 32 => DOMAIN SOrder = 1 .. 3
  BY <1>3, SMT
<1>5. Xlen = 32 => si_mask = {SOrder[r] : r \in 1 .. 3}
  BY <1>3, SMT DEF si_mask, SEI, SSI, STI
<1>6. Xlen = 32 => \A r \in 1 .. 3 : SOrder[r] = MOrder[r + 3]
  BY <1>3, SMT DEF MOrder
<1> QED
  BY <1>1, <1>2, <1>4, <1>5, <1>6

\* An interrupt of the set that no other one of it precedes.
Foremost(i, active) == i \in active /\ \A j \in active : Rank(i) <= Rank(j)

\* The chain of tests in try_handle_interrupt finds the foremost of the interrupts that
\* go to M mode.
LEMMA FirstToM ==
    ASSUME NEW active \in SUBSET mi_mask, active # {}
    PROVE  Foremost(First(MOrder, active), active)
<1> DEFINE K == {k \in DOMAIN MOrder : MOrder[k] \in active}
<1>1. K \in SUBSET (1 .. 6) /\ K \in SUBSET Nat /\ K # {}
  BY OrderIs, SMT
<1>2. Min(K) \in K /\ \A k \in K : Min(K) <= k
  BY <1>1, MinIs
<1>3. First(MOrder, active) = MOrder[Min(K)]
  BY DEF First
<1>4. ASSUME NEW j \in active PROVE \E k \in K : j = MOrder[k] /\ Rank(j) = k
  <2>1. PICK k \in 1 .. 6 : j = MOrder[k]
    BY OrderIs
  <2> QED
    BY <2>1, OrderIs, RankIs
<1>5. Rank(MOrder[Min(K)]) = Min(K)
  BY <1>1, <1>2, RankIs
<1> HIDE DEF K
<1>6. \A j \in active : Min(K) <= Rank(j)
  BY <1>2, <1>4
<1>7. MOrder[Min(K)] \in active
  BY <1>2 DEF K
<1> QED
  BY <1>3, <1>5, <1>6, <1>7 DEF Foremost

\* It does so for S mode in the 32-bit build.
LEMMA FirstToS ==
    ASSUME Xlen = 32, NEW active \in SUBSET si_mask, active # {}
    PROVE  Foremost(First(SOrder, active), active)
<1> DEFINE K == {k \in DOMAIN SOrder : SOrder[k] \in active}
<1>1. K \in SUBSET (1 .. 3) /\ K \in SUBSET (1 .. 6) /\ K \in SUBSET Nat /\ K # {}
  BY OrderIs, SMT
<1>2. Min(K) \in K /\ \A k \in K : Min(K) <= k
  BY <1>1, MinIs
<1>3. First(SOrder, active) = SOrder[Min(K)]
  BY DEF First
<1>4. ASSUME NEW k \in 1 .. 3 PROVE Rank(SOrder[k]) = k + 3
  BY OrderIs, RankIs, SMT
<1>5. ASSUME NEW j \in active PROVE \E k \in K : j = SOrder[k]
  <2>1. PICK k \in 1 .. 3 : j = SOrder[k]
    BY OrderIs
  <2> QED
    BY <2>1, OrderIs
<1>6. Min(K) \in 1 .. 3 /\ SOrder[Min(K)] \in active
  BY <1>1, <1>2
<1> HIDE DEF K
<1>7. \A j \in active : Rank(SOrder[Min(K)]) <= Rank(j)
  <2> TAKE j \in active
  <2>1. PICK k \in K : j = SOrder[k]
    BY <1>5
  <2> QED
    BY <1>1, <1>2, <1>4, <1>6, <2>1, SMT
<1> QED
  BY <1>3, <1>6, <1>7 DEF Foremost

\* What try_handle_interrupt does: nothing when no interrupt may be taken, else the trap
\* for one of those that may, to M mode if there is one for it.
Interrupted(h, t) ==
    LET m == Takeable(h, "m")
        s == Takeable(h, "s")
        may == IF m # {} THEN m ELSE s
    IN IF may = {} THEN t = h
       ELSE \E i \in may :
              /\ IF m # {} THEN MTrap(h, t, i, TRUE) ELSE h.priv # rv_mmode /\ STrap(h, t, i, TRUE)
              /\ Xlen = 32 => Foremost(i, may)

\* Whatever the order, the interrupt that is found is one of the active ones.
LEMMA FirstIn ==
    /\ \A active \in SUBSET mi_mask : active # {} => First(MOrder, active) \in active
    /\ \A active \in SUBSET si_mask : active # {} => First(SOrder, active) \in active
<1>1. ASSUME NEW active \in SUBSET mi_mask, active # {} PROVE First(MOrder, active) \in active
  BY <1>1, FirstToM DEF Foremost
<1>2. ASSUME NEW active \in SUBSET si_mask, active # {} PROVE First(SOrder, active) \in active
  <2> DEFINE K == {k \in DOMAIN SOrder : SOrder[k] \in active}
  <2>1. SOrder = <<SEI, SSI, STI>> \/ SOrder = <<STI, SEI, SSI>>
    BY DEF SOrder
  <2>2. DOMAIN SOrder = 1 .. 3 /\ \A i \in si_mask : \E k \in 1 .. 3 : SOrder[k] = i
    BY <2>1, SMT DEF si_mask
  <2>3. K \in SUBSET (1 .. 6) /\ K \in SUBSET Nat /\ K # {}
    BY <1>2, <2>2, SMT
  <2>4. Min(K) \in K
    BY <2>3, MinIs
  <2> QED
    BY <2>4 DEF First
<1> QED
  BY <1>1, <1>2

\* try_handle_interrupt takes an interrupt exactly when one may be taken.  Its test of the
\* mask of S mode where the rule speaks of delegation makes no difference, because an
\* interrupt that is not delegated has been found for M mode before.
LEMMA InterruptTaken ==
    ASSUME NEW h, IsHart(h)
    PROVE  Interrupted(h, try_handle_interrupt(h))
<1> DEFINE pending == h.mip \cup External(h)
           to_M == (h.priv = rv_mmode /\ MIE \in h.mstatus) \/ h.priv < rv_mmode
           to_S == (h.priv = rv_smode /\ SIE \in h.mstatus) \/ h.priv < rv_smode
           m_active == IF to_M THEN (pending \cap h.mie) \ h.mideleg ELSE {}
           s_active == IF to_S THEN pending \cap h.mie \cap si_mask ELSE {}
           m == Takeable(h, "m")
           s == Takeable(h, "s")
<1>1. h.priv \in {rv_umode, rv_smode, rv_mmode} /\ h.mie \subseteq mi_mask /\ h.mideleg \subseteq si_mask
  <2>1. "mie" \in Fields /\ "mideleg" \in Fields
    BY DEF Fields
  <2>2. Fit("mie", h["mie"]) /\ Fit("mideleg", h["mideleg"])
    BY <2>1, FieldFit
  <2> QED
    BY <2>2, HartPriv DEF Fit
<1>2. (to_M <=> h.priv # rv_mmode \/ MIE \in h.mstatus)
  BY <1>1, SMT DEF rv_umode, rv_smode, rv_mmode
<1>3. (to_S <=> h.priv = rv_umode \/ (h.priv = rv_smode /\ SIE \in h.mstatus)) /\ (to_S => h.priv # rv_mmode /\ to_M)
  BY <1>1, SMT DEF rv_umode, rv_smode, rv_mmode
<1>4. m = {i \in pending \cap h.mie : i \notin h.mideleg /\ (h.priv # rv_mmode \/ MIE \in h.mstatus)}
  BY DEF Takeable
<1>5. s = {i \in pending \cap h.mie : i \in h.mideleg /\ (h.priv = rv_umode \/ (h.priv = rv_smode /\ SIE \in h.mstatus))}
  BY DEF Takeable
<1>6. try_handle_interrupt(h) =
        CASE m_active # {} -> m_trap(h, First(MOrder, m_active), TRUE)
          [] m_active = {} /\ s_active # {} -> s_trap(h, First(SOrder, s_active), TRUE)
          [] OTHER -> h
  BY DEF try_handle_interrupt
<1> HIDE DEF pending, to_M, to_S, m, s
<1>7. m_active = m
  BY <1>2, <1>4
<1>8. m = {} => s_active = s
  BY <1>1, <1>2, <1>3, <1>4, <1>5
<1>9. m \in SUBSET mi_mask
  BY <1>1, <1>4
<1>10. s \in SUBSET si_mask
  BY <1>1, <1>5
<1>11. s # {} => h.priv # rv_mmode
  BY <1>5, SMT DEF rv_umode, rv_smode, rv_mmode
<1> HIDE DEF m_active, s_active
<1>12. CASE m # {}
  <2> DEFINE i == First(MOrder, m)
  <2>1. i \in m /\ Foremost(i, m)
    BY <1>9, <1>12, FirstToM DEF Foremost
  <2> HIDE DEF i
  <2>2. MTrap(h, m_trap(h, i, TRUE), i, TRUE)
    BY MTrapIs
  <2>3. try_handle_interrupt(h) = m_trap(h, i, TRUE)
    BY <1>6, <1>7, <1>12 DEF i
  <2> QED
    BY <1>12, <2>1, <2>2, <2>3 DEF Interrupted, m, s
<1>13. CASE m = {} /\ s # {}
  <2> DEFINE i == First(SOrder, s)
  <2>1. i \in s /\ (Xlen = 32 => Foremost(i, s))
    BY <1>10, <1>13, FirstToS, FirstIn
  <2> HIDE DEF i
  <2>2. STrap(h, s_trap(h, i, TRUE), i, TRUE)
    BY <1>11, <1>13, STrapIs
  <2>3. try_handle_interrupt(h) = s_trap(h, i, TRUE)
    BY <1>6, <1>7, <1>8, <1>13 DEF i
  <2> QED
    BY <1>11, <1>13, <2>1, <2>2, <2>3 DEF Interrupted, m, s
<1>14. CASE m = {} /\ s = {}
  <2>1. try_handle_interrupt(h) = h
    BY <1>6, <1>7, <1>8, <1>14
  <2> QED
    BY <1>14, <2>1 DEF Interrupted, m, s
<1> QED
  BY <1>12, <1>13, <1>14

---------------------------------------------------------------------------
\* The end of a step

\* A counter that is incremented stays a number of 64 bits.
LEMMA IncIs ==
    ASSUME NEW word \in Counters64
    PROVE  Inc(word, 2 * Half) \in Counters64
<1> DEFINE zeros == (0 .. 2 * Half - 1) \ word
<1>1. Half \in Nat
  BY RvCsrAssumption
<1>2. zeros \in SUBSET Nat
  BY <1>1, SMT
<1>3. zeros # {} => Min(zeros) \in zeros
  BY <1>2, MinIs
<1>4. Inc(word, 2 * Half) = IF zeros = {} THEN {} ELSE (word \ (0 .. Min(zeros))) \cup {Min(zeros)}
  BY DEF Inc
<1> DEFINE z == Min(zeros)
<1>5. zeros # {} => z \in 0 .. 2 * Half - 1
  BY <1>3
<1> HIDE DEF z
<1>6. zeros # {} => (word \ (0 .. z)) \cup {z} \subseteq 0 .. 2 * Half - 1
  BY <1>5 DEF Counters64
<1> HIDE DEF zeros
<1> QED
  BY <1>4, <1>6 DEF Counters64, z

\* The two timer lines say what the timers say.
TimersTrue(f) ==
    /\ f.external_STIP = AtLeast(f.cycle \cap UXbits, f.scyclecmp)
    /\ (MTI \in f.mip) = AtLeast(f.mtime, f.mtimecmp)

\* The fields that the end of a step assigns.
ClosingFields ==
    {"exc", "cycle", "mtime", "instret", "hpmcounters", "external_STIP", "mip", "pc", "pc_next", "tval_next"}

\* What the end of a step does: it retires at most one instruction, sets the timer lines
\* and moves on, unless the hart waits.
Closing(t, f, retired) ==
    /\ IsHart(f)
    /\ Same(t, f, Fields \ ClosingFields)
    /\ f.exc = none /\ f.tval_next = {}
    /\ f.mip \ {MTI} = t.mip \ {MTI}
    /\ ~retired => f.instret = t.instret
    /\ TimersTrue(f)
    /\ f.pc = IF t.stdby THEN t.pc ELSE t.pc_next

\* account and the end of rv32_cpu_step do that: the timer lines are set after the
\* counters have moved.
LEMMA AccountedIs ==
    ASSUME NEW t, IsHart(t), NEW waited, NEW tick
    PROVE  Closing(t, Advanced(Accounted(t, waited, tick)), ~waited /\ t.exc = none)
<1> DEFINE retired == ~waited /\ t.exc = none
           a == [t EXCEPT !.exc = none]
           cycle == IF 0 \in a.mcountinhibit THEN a.cycle ELSE Inc(a.cycle, 2 * Half)
           mtime == IF tick THEN Inc(a.mtime, 2 * Half) ELSE a.mtime
           instret == IF retired /\ 2 \notin a.mcountinhibit THEN Inc(a.instret, 2 * Half) ELSE a.instret
           hpm == [c \in Hpm |-> account_hmp(a, c)]
           b == [a EXCEPT !.cycle = cycle, !.mtime = mtime, !.instret = instret, !.hpmcounters = hpm]
           stip == AtLeast(b.cycle \cap UXbits, b.scyclecmp)
           d == [b EXCEPT !.external_STIP = stip]
           word == IF AtLeast(d.mtime, d.mtimecmp) THEN d.mip \cup {MTI} ELSE d.mip \ {MTI}
           e == [d EXCEPT !.mip = word]
           f == Advanced(e)
<1>1. Accounted(t, waited, tick) = e
  BY DEF Accounted, account, manage_timer_interrupts, handle_mtip
<1>2. t = [x \in Fields |-> t[x]] /\ ClosingFields \subseteq Fields
  BY DEF IsHart, ClosingFields, Fields
<1>3. "exc" \in Fields /\ Fit("exc", none)
  BY DEF Fields, Fit
<1>4. IsHart(a) /\ a.exc = none /\ \A x \in Fields \ {"exc"} : a[x] = t[x]
  <2>1. IsHart([t EXCEPT !["exc"] = none]) /\ [t EXCEPT !["exc"] = none]["exc"] = none /\ 
        \A x \in Fields \ {"exc"} : [t EXCEPT !["exc"] = none][x] = t[x]
    BY <1>3, PutIs, SMT
  <2> QED
    BY <2>1
<1> HIDE DEF a
<1>5. {a.cycle, a.mtime, a.instret} \subseteq Counters64
  <2>1. {"cycle", "mtime", "instret"} \subseteq Fields
    BY DEF Fields
  <2> QED
    BY <1>4, <2>1, FieldFit, SMT DEF Fit
<1>6. cycle \in Counters64 /\ mtime \in Counters64 /\ instret \in Counters64
  BY <1>5, IncIs
<1>7. ~retired => instret = t.instret
  BY <1>4 DEF Fields
<1> HIDE DEF cycle, mtime, instret, hpm
<1>8. /\ b = [x \in Fields |-> b[x]] /\ Same(a, b, Fields \ {"cycle", "mtime", "instret", "hpmcounters"})
      /\ b.cycle = cycle /\ b.mtime = mtime /\ b.instret = instret
  <2>1. a = [x \in Fields |-> a[x]]
    BY <1>4 DEF IsHart
  <2> QED
    BY <1>2, <2>1 DEF Same, ClosingFields
<1> HIDE DEF b
<1>9. stip \in BOOLEAN
  BY AtLeastIs
<1> HIDE DEF stip
<1>10. d = [x \in Fields |-> d[x]] /\ Same(b, d, Fields \ {"external_STIP"}) /\ d.external_STIP = stip
  BY <1>2, <1>8 DEF Same, ClosingFields
<1> HIDE DEF d
<1>11. (MTI \in word <=> AtLeast(d.mtime, d.mtimecmp)) /\ word \ {MTI} = d.mip \ {MTI}
  OBVIOUS
<1> HIDE DEF word
<1>12. e = [x \in Fields |-> e[x]] /\ Same(d, e, Fields \ {"mip"}) /\ e.mip = word
  BY <1>2, <1>10 DEF Same, ClosingFields
<1> HIDE DEF e
<1>13. /\ f = [x \in Fields |-> f[x]] /\ Same(e, f, Fields \ {"pc", "pc_next", "tval_next"})
       /\ f.pc = (IF e.stdby THEN e.pc ELSE e.pc_next) /\ f.tval_next = {}
       /\ f.pc_next = IF e.stdby THEN e.pc_next ELSE Plus(e.pc_next, {2})
  BY <1>2, <1>12 DEF Advanced, Same, ClosingFields
<1> HIDE DEF f
<1>14. Same(t, f, Fields \ ClosingFields)
  BY <1>4, <1>8, <1>10, <1>12, <1>13, SMTT(30) DEF Same, ClosingFields
<1>15. Same(t, e, {"stdby", "pc", "pc_next"}) /\ e.mip = word /\ d.mip = t.mip
  BY <1>4, <1>8, <1>10, <1>12, SMTT(30) DEF Same, Fields
<1>16. Same(e, f, {"cycle", "mtime", "mtimecmp", "instret", "scyclecmp", "external_STIP", "mip", "exc"})
  BY <1>13, SMT DEF Same, Fields
<1>17. Same(b, e, {"cycle", "mtime", "mtimecmp", "instret", "scyclecmp", "exc"}) /\ e.external_STIP = stip
  BY <1>10, <1>12, SMT DEF Same, Fields
<1>18. f.exc = none /\ f.cycle = cycle /\ f.mtime = mtime /\ f.instret = instret /\ f.external_STIP = stip /\ f.mip = word
  BY <1>4, <1>8, <1>15, <1>16, <1>17 DEF Same, Fields
<1>19. TimersTrue(f)
  <2>1. stip = AtLeast(f.cycle \cap UXbits, f.scyclecmp)
    BY <1>16, <1>17 DEF stip, Same
  <2>2. d.mtime = f.mtime /\ d.mtimecmp = f.mtimecmp
    BY <1>12, <1>16 DEF Same, Fields
  <2>3. (MTI \in f.mip) = AtLeast(f.mtime, f.mtimecmp)
    <3>1. (MTI \in f.mip) \in BOOLEAN /\ AtLeast(f.mtime, f.mtimecmp) \in BOOLEAN
      BY AtLeastIs, SMT
    <3>2. (MTI \in f.mip) <=> AtLeast(f.mtime, f.mtimecmp)
      BY <1>11, <1>18, <2>2
    <3> QED
      BY <3>2, SMT DEF AtLeast
  <2> QED
    BY <1>18, <2>1, <2>3 DEF TimersTrue
<1>20. f.pc = IF t.stdby THEN t.pc ELSE t.pc_next
  BY <1>13, <1>15 DEF Same
<1>21. f.pc \in Addresses /\ f.pc_next \in Addresses
  <2>1. {"pc", "pc_next"} \subseteq Fields
    BY DEF Fields
  <2>2. t.pc \in Addresses /\ t.pc_next \in Addresses
    BY <2>1, FieldFit DEF Fit
  <2>3. Plus(e.pc_next, {2}) \in Addresses
    BY DEF Plus, Addresses
  <2> QED
    BY <1>13, <1>15, <2>2, <2>3 DEF Same
<1>22. \A x \in ClosingFields : Fit(x, f[x])
  BY <1>6, <1>9, <1>18, <1>21 DEF ClosingFields, Fit
<1>23. IsHart(f)
  BY <1>13, <1>14, <1>22, StillHart
<1>24. f.mip \ {MTI} = t.mip \ {MTI} /\ (~retired => f.instret = t.instret)
  BY <1>7, <1>11, <1>15, <1>18
<1> QED
  BY <1>1, <1>13, <1>14, <1>18, <1>19, <1>20, <1>23, <1>24 DEF Closing, f

---------------------------------------------------------------------------
\* A whole step

\* The hart t is what the second phase may make of e: the same, or the outcome of a trap.
Handled(e, t) ==
    \/ t = e
    \/ \E ex, interrupt : MTrap(e, t, ex, interrupt)
    \/ e.priv # rv_mmode /\ \E ex, interrupt : STrap(e, t, ex, interrupt)

\* The second phase takes the trap of the exception, or, without one, that of an
\* interrupt.
LEMMA TrappedIs ==
    ASSUME NEW e, IsHart(e)
    PROVE  /\ Handled(e, Trapped(e))
           /\ e.exc = none => Interrupted(e, Trapped(e))
<1>1. CASE e.exc = none
  <2>1. Trapped(e) = try_handle_interrupt(e)
    BY <1>1 DEF Trapped
  <2>2. Interrupted(e, Trapped(e))
    BY <2>1, InterruptTaken
  <2>3. Handled(e, Trapped(e))
    BY <2>2 DEF Interrupted, Handled
  <2> QED
    BY <2>2, <2>3
<1>2. CASE e.exc # none
  <2>1. (Trapped(e) = s_trap(e, e.exc, FALSE) /\ e.priv # rv_mmode) \/ Trapped(e) = m_trap(e, e.exc, FALSE)
    BY <1>2 DEF Trapped, handle_exception
  <2>2. MTrap(e, m_trap(e, e.exc, FALSE), e.exc, FALSE)
    BY MTrapIs
  <2>3. e.priv # rv_mmode => STrap(e, s_trap(e, e.exc, FALSE), e.exc, FALSE)
    BY STrapIs
  <2> QED
    BY <1>2, <2>1, <2>2, <2>3 DEF Handled
<1> QED
  BY <1>1, <1>2

\* A trap leaves a hart, and the fields that the end of the step still needs.
LEMMA HandledIs ==
    ASSUME NEW e, IsHart(e), NEW t, Handled(e, t)
    PROVE  IsHart(t) /\ Same(e, t, {"exc", "target", "instret", "tval_next", "pc"})
<1>1. \A ex, interrupt : MTrap(e, t, ex, interrupt) =>
        IsHart(t) /\ Same(e, t, {"exc", "target", "instret", "tval_next", "pc"})
  BY SMT DEF MTrap, Same, Fields, MTrapFields
<1>2. \A ex, interrupt : STrap(e, t, ex, interrupt) =>
        IsHart(t) /\ Same(e, t, {"exc", "target", "instret", "tval_next", "pc"})
  BY SMT DEF STrap, Same, Fields, STrapFields
<1>3. t = e => IsHart(t) /\ Same(e, t, {"exc", "target", "instret", "tval_next", "pc"})
  BY DEF Same
<1> QED
  BY <1>1, <1>2, <1>3 DEF Handled

\* M mode does not notice a trap to S mode, nor does it lose what its own trap has saved.
LEMMA STrapConfined ==
    ASSUME NEW e, NEW t, NEW ex, NEW interrupt, STrap(e, t, ex, interrupt)
    PROVE  Confined(e, t) /\ MSaved(e, t)
<1>1. Same(e, t, Fields \ STrapFields) /\ t.mstatus \ {SPP, SPIE, SIE} = e.mstatus \ {SPP, SPIE, SIE}
  BY DEF STrap
<1>2. /\ {SPP, SPIE, SIE} \subseteq sstatus_mask /\ MPRV \notin {SPP, SPIE, SIE}
      /\ {SPP, SPIE, SIE} \cap (MPP \cup {MPIE}) = {}
  BY SMT DEF sstatus_mask, SPP, SPIE, SIE, MPRV, MXR, SUM, MPP, MPIE
<1>3. ASSUME NEW f \in Fields PROVE Kept(f, e[f], t[f])
  <2>1. CASE f = "mstatus"
    BY <1>1, <1>2, <2>1 DEF Kept, MachineFields
  <2>2. CASE f \in STrapFields \ {"mstatus"}
    BY <2>2 DEF Kept, MachineFields, STrapFields
  <2>3. CASE f \notin STrapFields
    BY <1>1, <2>3, KeptSame DEF Same
  <2> QED
    BY <2>1, <2>2, <2>3
<1>4. t.mepc = e.mepc
  BY <1>1 DEF Same, Fields, STrapFields
<1> QED
  BY <1>1, <1>2, <1>3, <1>4 DEF Confined, MSaved

\* A trap to M mode keeps what a trap to S mode has saved.
LEMMA MTrapSaves ==
    ASSUME NEW e, NEW t, NEW ex, NEW interrupt, MTrap(e, t, ex, interrupt)
    PROVE  SSaved(e, t)
<1>1. t.sepc = e.sepc
  BY DEF MTrap, Same, Fields, MTrapFields
<1>2. t.mstatus \cap {SPP, SPIE, SIE} = e.mstatus \cap {SPP, SPIE, SIE}
  BY DEF MTrap
<1> QED
  BY <1>1, <1>2 DEF SSaved

\* M mode does not notice the end of a step but for the counters and the timer lines.
LEMMA ClosingConfined ==
    ASSUME NEW t, NEW f, NEW retired, Closing(t, f, retired)
    PROVE  /\ Confined(t, f)
           /\ Same(t, f, {"mstatus", "mepc", "sepc", "priv", "taken", "target", "stdby"})
<1>1. Same(t, f, Fields \ ClosingFields) /\ f.mip \ {MTI} = t.mip \ {MTI}
  BY DEF Closing
<1>2. ASSUME NEW x \in Fields PROVE Kept(x, t[x], f[x])
  <2>1. CASE x = "mip"
    BY <1>1, <2>1 DEF Kept, MachineFields
  <2>2. CASE x \in ClosingFields \ {"mip"}
    BY <2>2 DEF Kept, MachineFields, ClosingFields
  <2>3. CASE x \notin ClosingFields
    BY <1>1, <2>3, KeptSame DEF Same
  <2> QED
    BY <2>1, <2>2, <2>3
<1>3. Same(t, f, {"mstatus", "mepc", "sepc", "priv", "taken", "target", "stdby"})
  BY <1>1, SMT DEF Same, Fields, ClosingFields
<1> QED
  BY <1>2, <1>3 DEF Confined

\* One step of the hart from h to f, in its three phases.
Phases(h, i, e, t, f) ==
    LET fresh == [h EXCEPT !.taken = NoTrap]
    IN /\ Ready(fresh) /\ Same(h, fresh, Fields \ {"taken"}) /\ fresh.taken = NoTrap
       /\ Ran(fresh, e, i) /\ (h.stdby => e = fresh)
       /\ Handled(e, t) /\ (e.exc = none => Interrupted(e, t))
       /\ Closing(t, f, ~h.stdby /\ t.exc = none)

\* rv32_cpu_step and rv64_cpu_step are these three phases.
LEMMA StepPhases ==
    ASSUME NEW h, Ready(h), NEW i, ~h.stdby => Instruction(i), NEW tick
    PROVE  LET e == executed([h EXCEPT !.taken = NoTrap], i)
           IN Phases(h, i, e, Trapped(e), cpu_step(h, i, tick))
<1> DEFINE fresh == [h EXCEPT !.taken = NoTrap]
           e == executed(fresh, i)
           t == Trapped(e)
           f == cpu_step(h, i, tick)
<1>1. "taken" \in Fields /\ Fit("taken", NoTrap) /\ IsHart(h)
  BY DEF Fields, Fit, Ready
<1>2. IsHart(fresh) /\ fresh.taken = NoTrap /\ Same(h, fresh, Fields \ {"taken"})
  <2> DEFINE p == [h EXCEPT !["taken"] = NoTrap]
  <2>1. IsHart(p) /\ p["taken"] = NoTrap /\ \A x \in Fields \ {"taken"} : p[x] = h[x]
    BY <1>1, PutIs, SMT
  <2> QED
    BY <2>1 DEF Same
<1>3. f = Advanced(Accounted(t, h.stdby, tick))
  BY DEF cpu_step
<1> HIDE DEF fresh
<1>4. Ready(fresh) /\ (fresh.stdby <=> h.stdby)
  BY <1>2 DEF Ready, Same, Fields
<1>5. Ran(fresh, e, i)
  BY <1>4, ExecutedRan
<1>6. h.stdby => e = fresh
  BY <1>4 DEF executed
<1> HIDE DEF e
<1>7. IsHart(e)
  BY <1>5 DEF Ran
<1>8. Handled(e, t) /\ (e.exc = none => Interrupted(e, t))
  BY <1>7, TrappedIs
<1> HIDE DEF t
<1>9. IsHart(t)
  BY <1>7, <1>8, HandledIs
<1>10. Closing(t, f, ~h.stdby /\ t.exc = none)
  BY <1>3, <1>9, AccountedIs, SMT
<1> HIDE DEF f
<1> QED
  BY <1>2, <1>4, <1>5, <1>6, <1>8, <1>10 DEF Phases, f, e, t, fresh

---------------------------------------------------------------------------
\* The inductive invariant

\* While the frame of the last trap to M mode is on, what the trap interrupted is what
\* mepc, MPP and MPIE hold.
MKept(h, frame) == frame.on =>
    frame.priv = mpp(h) /\ frame.pc = h.mepc /\ frame.pc \in Addresses /\ frame.ie = (MPIE \in h.mstatus)

\* The same for S mode.
SKept(h, frame) == frame.on =>
    frame.priv = spp(h) /\ frame.pc = h.sepc /\ frame.pc \in Addresses /\ frame.ie = (SPIE \in h.mstatus)

\* The inductive invariant: the hart is ready with legal values in every field, the guest is
\* somewhere in its program, and the saved registers hold what the traps interrupted.
RvInv ==
    /\ Ready(hart)
    /\ prog \in DOMAIN Programs /\ n \in 1 .. Len(Text)
    /\ MKept(hart, mframe) /\ SKept(hart, sframe)

\* A step that keeps the saved registers keeps the frames.
LEMMA SavedKept ==
    ASSUME NEW h, NEW g, NEW frame
    PROVE  /\ MSaved(h, g) /\ MKept(h, frame) => MKept(g, frame)
           /\ SSaved(h, g) /\ SKept(h, frame) => SKept(g, frame)
<1>1. MSaved(h, g) => mpp(g) = mpp(h) /\ g.mepc = h.mepc /\ (MPIE \in g.mstatus) = (MPIE \in h.mstatus)
  BY SMT DEF MSaved, mpp, MPP
<1>2. SSaved(h, g) => spp(g) = spp(h) /\ g.sepc = h.sepc /\ (SPIE \in g.mstatus) = (SPIE \in h.mstatus)
  BY SMT DEF SSaved, spp
<1> QED
  BY <1>1, <1>2 DEF MKept, SKept

\* The program counters of a hart are addresses.
LEMMA HartAddresses ==
    ASSUME NEW h, IsHart(h)
    PROVE  h.pc \in Addresses /\ h.pc_next \in Addresses
<1>1. {"pc", "pc_next"} \subseteq Fields
  BY DEF Fields
<1> QED
  BY <1>1, FieldFit DEF Fit

\* A trap puts into the saved registers what it interrupts.
LEMMA FrameKept ==
    ASSUME NEW e, IsHart(e), NEW t, NEW ex, NEW interrupt
    PROVE  /\ MTrap(e, t, ex, interrupt) => MKept(t, Frame(e, interrupt, MIE))
           /\ STrap(e, t, ex, interrupt) => SKept(t, Frame(e, interrupt, SIE))
<1> DEFINE pc == IF interrupt THEN e.pc_next ELSE e.pc
<1>1. pc \in Addresses
  BY HartAddresses
<1>2. \A ie : /\ Frame(e, interrupt, ie).priv = e.priv /\ Frame(e, interrupt, ie).pc = pc
              /\ Frame(e, interrupt, ie).ie = (ie \in e.mstatus)
  BY DEF Frame
<1>3. MTrap(e, t, ex, interrupt) => t.mepc = pc /\ mpp(t) = e.priv /\ (MPIE \in t.mstatus) = (MIE \in e.mstatus)
  BY SMT DEF MTrap
<1>4. STrap(e, t, ex, interrupt) => t.sepc = pc /\ spp(t) = e.priv /\ (SPIE \in t.mstatus) = (SIE \in e.mstatus)
  BY SMT DEF STrap
<1> HIDE DEF pc
<1> QED
  BY <1>1, <1>2, <1>3, <1>4 DEF MKept, SKept

\* The hart that rv32_cpu_init and rv_init_csr make satisfies the invariant.
LEMMA InitRv == Init => RvInv
<1> SUFFICES ASSUME Init PROVE RvInv
  OBVIOUS
<1> DEFINE own == [priv |-> rv_mmode, pc |-> {}, pc_next |-> {2}, stdby |-> FALSE, rd |-> {}, x31 |-> {},
                   exc |-> none, target |-> {}, host |-> "", taken |-> NoTrap]
           csrs == rv_init_csr
<1>1. hart = [x \in DOMAIN own \cup DOMAIN csrs |-> IF x \in DOMAIN own THEN own[x] ELSE csrs[x]]
  BY DEF Init, cpu_init
<1>2. DOMAIN own = {"priv", "pc", "pc_next", "stdby", "rd", "x31", "exc", "target", "host", "taken"}
  OBVIOUS
<1> DEFINE CsrFields ==
             {"mstatus", "mtvec", "medeleg", "mideleg", "mip", "mie", "mscratch",
              "mepc", "mcause", "mtval", "mcounteren", "mcountinhibit", "menvcfg", "misa",
              "stvec", "scounteren", "sscratch", "sepc", "scause", "stval", "senvcfg",
              "satp", "scontext", "external_SEIP", "external_STIP", "scyclecmp", "mtime", "mtimecmp",
              "cycle", "instret", "hpmcounters", "hpmevents", "tval_next", "asid_len"}
<1>3. DOMAIN csrs = CsrFields /\ CsrFields \cap DOMAIN own = {}
  <2>1. DOMAIN csrs = CsrFields
    BY DEF rv_init_csr
  <2>2. CsrFields \cap DOMAIN own = {}
    BY <1>2, SMT
  <2> QED
    BY <2>1, <2>2
<1>4. Fields = CsrFields \cup DOMAIN own
  BY <1>2, SMT DEF Fields
<1>5. hart = [x \in Fields |-> hart[x]] /\ \A x \in Fields : hart[x] = IF x \in DOMAIN own THEN own[x] ELSE csrs[x]
  <2> HIDE DEF own, csrs, CsrFields
  <2> QED
    BY <1>1, <1>3, <1>4
<1>6. \A x \in DOMAIN own : Fit(x, own[x])
  <2>1. {2} \in Addresses /\ {} \in Addresses
    BY RvCpuAssumption, RvCsrAssumption, SMT DEF Addresses
  <2>2. Fit("priv", own.priv) /\ Fit("stdby", own.stdby) /\ Fit("host", own.host)
    BY DEF Fit
  <2>3. Fit("pc", own.pc) /\ Fit("pc_next", own.pc_next)
    BY <2>1 DEF Fit
  <2>4. \A x \in {"rd", "x31", "exc", "target", "taken"} : \A v : Fit(x, v)
    BY SMT DEF Fit
  <2> HIDE DEF own
  <2> QED
    BY <1>2, <2>2, <2>3, <2>4
<1>7. \A x \in CsrFields : Fit(x, csrs[x])
  <2> DEFINE booleans == {"external_SEIP", "external_STIP"}
             others == {"misa", "hpmcounters", "hpmevents", "asid_len"}
  <2>1. \A x \in CsrFields \ (booleans \cup others) : csrs[x] = {}
    BY SMT DEF rv_init_csr
  <2>2. csrs.external_SEIP = FALSE /\ csrs.external_STIP = FALSE
    BY DEF rv_init_csr
  <2>3. \A x \in CsrFields \ (booleans \cup others) : Fit(x, {})
    BY SMT DEF Fit, Counters64, ReservedMpp, MPP
  <2>4. \A x \in others : Fit(x, csrs[x])
    BY DEF Fit
  <2>5. \A x \in booleans : Fit(x, csrs[x])
    BY <2>2 DEF Fit
  <2> HIDE DEF csrs, CsrFields, booleans, others
  <2> QED
    BY <2>1, <2>3, <2>4, <2>5, ZenonT(30)
<1>8. IsHart(hart)
  <2> HIDE DEF own, csrs, CsrFields
  <2> QED
    BY <1>3, <1>4, <1>5, <1>6, <1>7 DEF IsHart
<1>9. hart.exc = none /\ hart.target = {} /\ hart.tval_next = {}
  <2>1. own.exc = none /\ own.target = {} /\ csrs.tval_next = {} /\ "tval_next" \in CsrFields
    BY DEF rv_init_csr
  <2> HIDE DEF own, csrs, CsrFields
  <2>2. "exc" \in DOMAIN own /\ "target" \in DOMAIN own
    BY <1>2
  <2> QED
    BY <1>3, <1>4, <1>5, <2>1, <2>2
<1>10. prog \in DOMAIN Programs /\ n \in 1 .. Len(Text)
  BY RvCpuAssumption, SMT DEF Init, Text
<1>11. MKept(hart, mframe) /\ SKept(hart, sframe)
  BY DEF Init, MKept, SKept, NoFrame
<1> QED
  BY <1>8, <1>9, <1>10, <1>11 DEF RvInv, Ready

\* No trap goes nowhere.
LEMMA NoTrapIs == NoTrap.to = ""
BY DEF NoTrap

\* The instruction that the guest runs next is one of its program.
LEMMA TextTyped ==
    ASSUME RvInv, NEW i \in Text[n]
    PROVE  Instruction(i) /\ Len(Text) \in Nat
<1>1. Len(Programs[prog].text) \in Nat \ {0} /\ n \in 1 .. Len(Programs[prog].text)
  BY RvCpuAssumption DEF RvInv, Text
<1> QED
  BY <1>1, RvCpuAssumption DEF RvInv, Text, Instruction

\* A step of instruction i with e between the instruction and the trap, t between the
\* trap and the end of the step, and what becomes of the frames.
StepIn(i, e, t) ==
    /\ Phases(hart, i, e, t, hart')
    /\ Instruction(i)
    /\ e = executed([hart EXCEPT !.taken = NoTrap], i)
    /\ did' = IF hart.stdby THEN [op |-> "wait"] ELSE i
    /\ mframe' = IF hart'.taken.to = "m" THEN Frame(e, hart'.taken.interrupt, MIE)
                 ELSE IF ~hart.stdby /\ MClobbers(i) THEN NoFrame ELSE mframe
    /\ sframe' = IF hart'.taken.to = "s" THEN Frame(e, hart'.taken.interrupt, SIE)
                 ELSE IF ~hart.stdby /\ SClobbers(i) THEN NoFrame ELSE sframe

\* The action Step is such a step.
LEMMA StepIs ==
    ASSUME RvInv, NEW tick, NEW i \in Text[n], Step(i, tick)
    PROVE  /\ \E e, t : StepIn(i, e, t)
           /\ prog' \in DOMAIN Programs /\ n' \in 1 .. Len(Text')
<1> DEFINE e == executed([hart EXCEPT !.taken = NoTrap], i)
           t == Trapped(e)
<1>1. Instruction(i) /\ Len(Text) \in Nat
  BY TextTyped
<1>2. Ready(hart)
  BY DEF RvInv
<1>3. hart' = cpu_step(hart, i, tick)
  BY DEF Step
<1>4. Phases(hart, i, e, t, hart')
  <2>1. Phases(hart, i, e, t, cpu_step(hart, i, tick))
    BY <1>1, <1>2, StepPhases
  <2> HIDE DEF e, t
  <2> QED
    BY <1>3, <2>1
<1>5. StepIn(i, e, t)
  BY <1>1, <1>4 DEF Step, StepIn, MClobbers, SClobbers
<1>6. prog' \in DOMAIN Programs /\ n' \in 1 .. Len(Text')
  <2>1. prog' = prog /\ n' = IF hart.stdby \/ n = Len(Text) THEN n ELSE n + 1
    BY DEF Step
  <2>2. Text' = Text
    BY <2>1 DEF Text
  <2>3. prog \in DOMAIN Programs /\ n \in 1 .. Len(Text)
    BY DEF RvInv
  <2>4. n' \in 1 .. Len(Text)
    BY <1>1, <2>1, <2>3, SMT
  <2> QED
    BY <2>1, <2>2, <2>3, <2>4
<1> HIDE DEF e, t
<1> QED
  BY <1>5, <1>6

\* A step that leaves mstatus, mepc and sepc alone keeps the saved registers.
LEMMA SameSaved ==
    ASSUME NEW h, NEW g, Same(h, g, {"mstatus", "mepc", "sepc"})
    PROVE  MSaved(h, g) /\ SSaved(h, g)
BY DEF Same, MSaved, SSaved

\* A step of the hart keeps the invariant.
LEMMA StepKeeps ==
    ASSUME RvInv, NEW i, NEW e, NEW t, StepIn(i, e, t)
    PROVE  Ready(hart') /\ MKept(hart', mframe') /\ SKept(hart', sframe')
<1> DEFINE fresh == [hart EXCEPT !.taken = NoTrap]
<1>1. /\ Ready(fresh) /\ Same(hart, fresh, Fields \ {"taken"}) /\ fresh.taken = NoTrap
      /\ Ran(fresh, e, i) /\ (hart.stdby => e = fresh)
      /\ Handled(e, t) /\ Closing(t, hart', ~hart.stdby /\ t.exc = none)
  BY DEF StepIn, Phases
<1> HIDE DEF fresh
<1>2. IsHart(e) /\ e.target = {} /\ e.taken = NoTrap
  BY <1>1 DEF Ran
<1>3. IsHart(t) /\ t.target = {}
  BY <1>1, <1>2, HandledIs DEF Same
<1>4. Same(t, hart', {"mstatus", "mepc", "sepc", "priv", "taken", "target", "stdby"})
  BY <1>1, ClosingConfined
<1>5. Ready(hart')
  BY <1>1, <1>3, <1>4 DEF Ready, Closing, Same
<1>6. MSaved(t, hart') /\ SSaved(t, hart')
  BY <1>4, SameSaved DEF Same
<1>7. MSaved(hart, fresh) /\ SSaved(hart, fresh)
  BY <1>1, SameSaved DEF Same, Fields
<1>8. /\ hart.stdby \/ ~MClobbers(i) => MSaved(fresh, e)
      /\ hart.stdby \/ ~SClobbers(i) => SSaved(fresh, e)
  BY <1>1 DEF Ran, MSaved, SSaved
<1>9. MKept(hart, mframe) /\ SKept(hart, sframe)
  BY DEF RvInv
<1>10. /\ hart.stdby \/ ~MClobbers(i) => MKept(e, mframe)
       /\ hart.stdby \/ ~SClobbers(i) => SKept(e, sframe)
  BY <1>7, <1>8, <1>9, SavedKept
<1>11. \A frame : ~frame.on => MKept(t, frame) /\ SKept(t, frame)
  BY DEF MKept, SKept
<1>12. ~NoFrame.on
  BY DEF NoFrame
<1>13. hart'.taken = t.taken
  BY <1>4 DEF Same
<1>14. MKept(t, mframe') /\ SKept(t, sframe')
  <2>1. CASE t = e
    <3>1. hart'.taken.to = ""
      <4>1. hart'.taken = NoTrap
        BY <1>2, <1>13, <2>1
      <4> QED
        BY <4>1, NoTrapIs
    <3>2. /\ mframe' = IF ~hart.stdby /\ MClobbers(i) THEN NoFrame ELSE mframe
          /\ sframe' = IF ~hart.stdby /\ SClobbers(i) THEN NoFrame ELSE sframe
      BY <3>1 DEF StepIn
    <3> QED
      BY <1>10, <1>11, <1>12, <2>1, <3>2
  <2>2. CASE \E ex, interrupt : MTrap(e, t, ex, interrupt)
    <3>1. PICK ex, interrupt : MTrap(e, t, ex, interrupt)
      BY <2>2
    <3>2. hart'.taken.to = "m" /\ hart'.taken.interrupt = interrupt
      BY <1>13, <3>1, SMT DEF MTrap
    <3>3. MKept(t, Frame(e, interrupt, MIE)) /\ SSaved(e, t)
      BY <1>2, <3>1, FrameKept, MTrapSaves
    <3>4. mframe' = Frame(e, interrupt, MIE)
      BY <3>2 DEF StepIn
    <3>5. sframe' = IF ~hart.stdby /\ SClobbers(i) THEN NoFrame ELSE sframe
      BY <3>2 DEF StepIn
    <3> QED
      BY <1>10, <1>11, <1>12, <3>3, <3>4, <3>5, SavedKept
  <2>3. CASE \E ex, interrupt : STrap(e, t, ex, interrupt)
    <3>1. PICK ex, interrupt : STrap(e, t, ex, interrupt)
      BY <2>3
    <3>2. hart'.taken.to = "s" /\ hart'.taken.interrupt = interrupt
      BY <1>13, <3>1, SMT DEF STrap
    <3>3. SKept(t, Frame(e, interrupt, SIE)) /\ MSaved(e, t)
      BY <1>2, <3>1, FrameKept, STrapConfined
    <3>4. sframe' = Frame(e, interrupt, SIE)
      BY <3>2 DEF StepIn
    <3>5. mframe' = IF ~hart.stdby /\ MClobbers(i) THEN NoFrame ELSE mframe
      BY <3>2 DEF StepIn
    <3> QED
      BY <1>10, <1>11, <1>12, <3>3, <3>4, <3>5, SavedKept
  <2> QED
    BY <1>1, <2>1, <2>2, <2>3 DEF Handled
<1>15. MKept(hart', mframe') /\ SKept(hart', sframe')
  BY <1>6, <1>14, SavedKept
<1> QED
  BY <1>5, <1>15

\* A device that raises or lowers a line (rv32_interrupt_up, rv32_interrupt_down) keeps
\* it.
LEMMA LinesKeep ==
    ASSUME RvInv, NEW no, interrupt_up(no) \/ interrupt_down(no)
    PROVE  RvInv'
<1>1. PICK f \in {"external_SEIP", "mip"} : \E v : Fit(f, v) /\ hart' = [hart EXCEPT ![f] = v]
  <2>1. Fit("external_SEIP", TRUE) /\ Fit("external_SEIP", FALSE) /\ \A v : Fit("mip", v)
    BY DEF Fit
  <2>2. CASE interrupt_up(no)
    BY <2>1, <2>2 DEF interrupt_up
  <2>3. CASE interrupt_down(no)
    BY <2>1, <2>3 DEF interrupt_down
  <2> QED
    BY <2>2, <2>3
<1>2. PICK v : Fit(f, v) /\ hart' = [hart EXCEPT ![f] = v]
  BY <1>1
<1>3. IsHart(hart) /\ f \in Fields
  BY DEF RvInv, Ready, Fields
<1>4. IsHart(hart') /\ Same(hart, hart', Fields \ {f})
  <2> DEFINE g == [hart EXCEPT ![f] = v]
  <2>1. f \in Fields /\ Fit(f, v)
    BY <1>2, <1>3
  <2>2. IsHart(g) /\ \A x \in Fields \ {f} : g[x] = hart[x]
    BY <1>3, <2>1, PutIs, SMT
  <2>3. hart' = g
    BY <1>2
  <2> HIDE DEF g
  <2> QED
    BY <2>2, <2>3 DEF Same
<1>5. Same(hart, hart', {"exc", "target", "tval_next", "mstatus", "mepc", "sepc"})
  BY <1>4 DEF Same, Fields
<1>6. Ready(hart')
  BY <1>4, <1>5 DEF RvInv, Ready, Same
<1>7. MSaved(hart, hart') /\ SSaved(hart, hart')
  BY <1>5, SameSaved DEF Same
<1>8. UNCHANGED <<prog, n, mframe, sframe>>
  BY DEF interrupt_up, interrupt_down
<1> QED
  BY <1>6, <1>7, <1>8, SavedKept DEF RvInv, Text

\* The debugger that moves the program counter (rv32_cpu_set_pc) keeps it.
LEMMA GotoKeeps ==
    ASSUME RvInv, NEW value \in Programs[prog].goto, cpu_set_pc(value)
    PROVE  RvInv'
<1>1. value \in Addresses
  BY RvCpuAssumption DEF RvInv
<1>2. hart' = [hart EXCEPT !.pc = value, !.pc_next = Plus(value, {2})] /\ UNCHANGED <<prog, n, mframe, sframe>>
  BY DEF cpu_set_pc
<1>3. Plus(value, {2}) \in Addresses
  BY DEF Plus, Addresses
<1>4. IsHart(hart) /\ hart = [x \in Fields |-> hart[x]]
  BY DEF RvInv, Ready, IsHart
<1>5. {"pc", "pc_next"} \subseteq Fields
  BY DEF Fields
<1> DEFINE next == Plus(value, {2})
<1> HIDE DEF next
<1>6. /\ hart' = [x \in Fields |-> hart'[x]] /\ Same(hart, hart', Fields \ {"pc", "pc_next"})
      /\ hart'.pc = value /\ hart'.pc_next = next
  BY <1>2, <1>4, <1>5 DEF Same, next
<1>7. \A f \in {"pc", "pc_next"} : Fit(f, hart'[f])
  BY <1>1, <1>3, <1>6 DEF Fit, next
<1>8. IsHart(hart')
  BY <1>4, <1>6, <1>7, StillHart
<1>9. Same(hart, hart', {"exc", "target", "tval_next", "mstatus", "mepc", "sepc"})
  BY <1>6 DEF Same, Fields
<1>10. Ready(hart')
  BY <1>8, <1>9 DEF RvInv, Ready, Same
<1>11. MSaved(hart, hart') /\ SSaved(hart, hart')
  BY <1>9, SameSaved DEF Same
<1> QED
  BY <1>2, <1>10, <1>11, SavedKept DEF RvInv, Text

\* Every action keeps the invariant.
LEMMA RvStep == RvInv /\ [Next]_vars => RvInv'
<1> SUFFICES ASSUME RvInv, [Next]_vars PROVE RvInv'
  OBVIOUS
<1>1. CASE Run
  <2>1. PICK tick \in Programs[prog].clock, i \in Text[n] : Step(i, tick)
    BY <1>1 DEF Run
  <2>2. PICK e, t : StepIn(i, e, t)
    BY <2>1, StepIs
  <2> QED
    BY <2>1, <2>2, StepIs, StepKeeps DEF RvInv
<1>2. CASE \E no \in Programs[prog].lines : interrupt_up(no) \/ interrupt_down(no)
  BY <1>2, LinesKeep
<1>3. CASE \E value \in Programs[prog].goto : cpu_set_pc(value)
  BY <1>3, GotoKeeps
<1>4. CASE UNCHANGED vars
  BY <1>4 DEF vars, RvInv, Text
<1> QED
  BY <1>1, <1>2, <1>3, <1>4 DEF Next

---------------------------------------------------------------------------
\* The theorems

\* The invariant implies that the control registers are legal.
LEMMA RvLegal == RvInv => LegalControl
<1> SUFFICES ASSUME RvInv PROVE LegalControl
  OBVIOUS
<1>1. IsHart(hart) /\ hart.exc = none /\ hart.target = {} /\ hart.tval_next = {} /\ n \in 1 .. Len(Text)
  BY DEF RvInv, Ready
<1>2. \A f \in {"priv", "pc", "pc_next", "stdby", "external_SEIP", "external_STIP", "cycle", "instret", "mtime",
                "mtimecmp", "scyclecmp", "host", "mtvec", "stvec", "mstatus", "medeleg", "mideleg", "mie"} : Fit(f, hart[f])
  BY <1>1, FieldFit, SMT DEF Fields
<1>3. TypeOK
  BY <1>1, <1>2 DEF TypeOK, Fit
<1>4. /\ hart.host # "assert" /\ 1 \notin hart.mtvec /\ 1 \notin hart.stvec /\ ~ReservedMpp(hart.mstatus)
      /\ 11 \notin hart.medeleg /\ hart.mideleg \subseteq si_mask /\ hart.mie \subseteq mi_mask
  BY <1>2 DEF Fit
<1> QED
  BY <1>3, <1>4 DEF LegalControl

\* An action is one of the devices or of the debugger, or a step of the hart.
LEMMA SteppedIs ==
    ASSUME RvInv, Next
    PROVE  \/ ~Stepped
           \/ \E i, e, t : StepIn(i, e, t) /\ Mid = e
<1>1. CASE Run
  <2>1. PICK tick \in Programs[prog].clock, i \in Text[n] : Step(i, tick)
    BY <1>1 DEF Run
  <2>2. PICK e, t : StepIn(i, e, t)
    BY <2>1, StepIs
  <2> DEFINE fresh == [hart EXCEPT !.taken = NoTrap]
  <2>3. e = executed(fresh, i) /\ did' = IF hart.stdby THEN [op |-> "wait"] ELSE i
    BY <2>2 DEF StepIn
  <2>4. fresh.stdby = hart.stdby
    BY <2>2 DEF StepIn, Phases, Same, Fields
  <2>5. Mid = executed(fresh, did')
    BY DEF Mid
  <2> HIDE DEF fresh
  <2>6. Mid = e
    BY <2>3, <2>4, <2>5 DEF executed
  <2> QED
    BY <2>2, <2>6
<1>2. CASE ~Run
  <2>1. \/ \E no : interrupt_up(no) \/ interrupt_down(no)
        \/ \E value : cpu_set_pc(value)
    BY <1>2 DEF Next
  <2>2. did' \in {[op |-> "up"], [op |-> "down"], [op |-> "goto"]}
    BY <2>1 DEF interrupt_up, interrupt_down, cpu_set_pc
  <2> QED
    BY <2>2, SMT DEF Stepped
<1> QED
  BY <1>1, <1>2

\* A step that M mode does not notice leaves the state of M mode as it is, but for MPRV.
LEMMA MachineKept ==
    ASSUME NEW h, IsHart(h), NEW g, IsHart(g), Confined(h, g)
    PROVE  LET before == [h EXCEPT !.mstatus = @ \ {MPRV}]
               after == [g EXCEPT !.mstatus = @ \ {MPRV}]
           IN Machine(after) = Machine(before) /\ (MPRV \in g.mstatus => MPRV \in h.mstatus)
<1> DEFINE M == MachineFields \cup {"mie", "mip"}
           before == [h EXCEPT !.mstatus = @ \ {MPRV}]
           after == [g EXCEPT !.mstatus = @ \ {MPRV}]
<1>1. M \cup {"mstatus"} \subseteq Fields /\ "mstatus" \notin M
  BY DEF MachineFields, Fields
<1>2. h = [f \in Fields |-> h[f]] /\ g = [f \in Fields |-> g[f]]
  BY DEF IsHart
<1>3. /\ before.mstatus = h.mstatus \ {MPRV} /\ \A f \in M : before[f] = h[f]
      /\ after.mstatus = g.mstatus \ {MPRV} /\ \A f \in M : after[f] = g[f]
  BY <1>1, <1>2
<1> HIDE DEF before, after
<1>4. \A f \in M \cup {"mstatus"} : Kept(f, h[f], g[f])
  BY <1>1 DEF Confined
<1>5. /\ Kept("mstatus", h.mstatus, g.mstatus) /\ Kept("mie", h.mie, g.mie) /\ Kept("mip", h.mip, g.mip)
      /\ \A f \in MachineFields : g[f] = h[f]
  BY <1>4 DEF Kept
<1>6. after.mstatus \ sstatus_mask = before.mstatus \ sstatus_mask /\ (MPRV \in g.mstatus => MPRV \in h.mstatus)
  BY <1>3, <1>5 DEF Kept
<1>7. after.mie \ si_mask = before.mie \ si_mask /\ after.mip \ {SSI, MTI} = before.mip \ {SSI, MTI}
  BY <1>3, <1>5 DEF Kept
<1>8. \A f \in MachineFields : after[f] = before[f]
  BY <1>3, <1>5
<1>9. Machine(after) = Machine(before)
  BY <1>6, <1>7, <1>8 DEF Machine, MachineFields
<1> QED
  BY <1>6, <1>9 DEF before, after

\* A step of S or U mode that does not trap to M mode, and is no csrrw of sstatus, is not
\* noticed by M mode.
LEMMA StepConfined ==
    ASSUME RvInv, NEW i, NEW e, NEW t, StepIn(i, e, t),
           hart.priv # rv_mmode, hart'.taken.to # "m", ~SstatusWrite(did')
    PROVE  Confined(hart, hart')
<1> DEFINE fresh == [hart EXCEPT !.taken = NoTrap]
<1>1. /\ Ready(fresh) /\ Same(hart, fresh, Fields \ {"taken"})
      /\ Ran(fresh, e, i) /\ (hart.stdby => e = fresh)
      /\ Handled(e, t) /\ Closing(t, hart', ~hart.stdby /\ t.exc = none)
      /\ did' = IF hart.stdby THEN [op |-> "wait"] ELSE i
  BY DEF StepIn, Phases
<1> HIDE DEF fresh
<1>2. Confined(hart, fresh)
  BY <1>1, ConfinedTo DEF MachineFields
<1>3. fresh.priv = hart.priv
  BY <1>1 DEF Same, Fields
<1>4. Confined(fresh, e)
  <2>1. CASE hart.stdby
    BY <1>1, <2>1, KeptSame DEF Confined
  <2>2. CASE ~hart.stdby
    BY <1>1, <1>3, <2>2 DEF Ran
  <2> QED
    BY <2>1, <2>2
<1>5. Confined(t, hart') /\ hart'.taken = t.taken
  BY <1>1, ClosingConfined DEF Same
<1>6. Confined(e, t)
  <2>1. CASE t = e
    BY <2>1, KeptSame DEF Confined
  <2>2. CASE \E ex, interrupt : MTrap(e, t, ex, interrupt)
    <3>1. PICK ex, interrupt : MTrap(e, t, ex, interrupt)
      BY <2>2
    <3>2. t.taken.to = "m"
      BY <3>1, SMT DEF MTrap
    <3> QED
      BY <1>5, <3>2
  <2>3. CASE \E ex, interrupt : STrap(e, t, ex, interrupt)
    BY <2>3, STrapConfined
  <2> QED
    BY <1>1, <2>1, <2>2, <2>3 DEF Handled
<1>7. Confined(hart, e)
  BY <1>2, <1>4, ConfinedTwice
<1>8. Confined(hart, t)
  BY <1>6, <1>7, ConfinedTwice
<1> QED
  BY <1>5, <1>8, ConfinedTwice

\* Whatever the guest writes into the control registers, they stay legal: m_trap and s_trap
\* never meet a vector they assert away, and an mret finds a mode that exists.  And a step
\* of S or U mode that does not trap to M mode leaves the state of M mode alone (the
\* minimal_privilege checks and the masks of csr.c).
THEOREM RvControlConfined == Spec => ControlConfined
<1> DEFINE A ==
       /\ LegalControl'
       /\ Stepped /\ hart.priv # rv_mmode /\ hart'.taken.to # "m" /\ ~SstatusWrite(did') =>
         LET before == [hart EXCEPT !.mstatus = @ \ {MPRV}]
             after == [hart' EXCEPT !.mstatus = @ \ {MPRV}]
         IN Machine(after) = Machine(before) /\ (MPRV \in hart'.mstatus => MPRV \in hart.mstatus)
<1>1. RvInv' => LegalControl'
  BY RvLegal, PTL
<1>2. RvInv /\ [Next]_vars => [A]_vars
  <2> SUFFICES ASSUME RvInv, Next PROVE A
    OBVIOUS
  <2>1. RvInv'
    BY RvStep
  <2>2. LegalControl'
    BY <1>1, <2>1
  <2>3. IsHart(hart) /\ IsHart(hart')
    BY <2>1 DEF RvInv, Ready
  <2>4. ASSUME Stepped, hart.priv # rv_mmode, hart'.taken.to # "m", ~SstatusWrite(did')
        PROVE  Confined(hart, hart')
    BY <2>4, SteppedIs, StepConfined
  <2> QED
    BY <2>2, <2>3, <2>4, MachineKept
<1> QED
  BY <1>2, InitRv, RvStep, PTL DEF Spec, ControlConfined

\* An address that went through a register of the hart is the same address.
LEMMA AddressIs ==
    ASSUME NEW a \in Addresses
    PROVE  ToAddress(a) = a
BY DEF ToAddress, Addresses

\* When a return is interrupted in its own step, the trap saves what the return was about
\* to resume.
LEMMA ResumedIs ==
    ASSUME NEW e, IsHart(e), ~e.stdby, e.taken = NoTrap, NEW t, Interrupted(e, t),
           NEW f, NEW retired, Closing(t, f, retired)
    PROVE  /\ Resumed(f, MIE, MPIE) = <<e.priv, e.pc_next, MIE \in e.mstatus>>
           /\ Resumed(f, SIE, SPIE) = <<e.priv, e.pc_next, SIE \in e.mstatus>>
<1>1. Same(t, f, {"mstatus", "mepc", "sepc", "priv", "taken", "target", "stdby"})
  BY ClosingConfined
<1>2. f.mstatus = t.mstatus /\ f.mepc = t.mepc /\ f.sepc = t.sepc /\ f.priv = t.priv /\ f.taken = t.taken
  BY <1>1 DEF Same
<1>3. mpp(f) = mpp(t) /\ spp(f) = spp(t)
  BY <1>2 DEF mpp, spp
<1>4. ToAddress(e.pc_next) = e.pc_next
  BY HartAddresses, AddressIs
<1>5. MIE # SIE /\ MIE \notin {SPP, SPIE, SIE}
  BY SMT DEF MIE, SIE, SPP, SPIE
<1>6. CASE t = e
  <2>1. f.taken.to = ""
    BY <1>2, <1>6, NoTrapIs
  <2>2. f.pc = e.pc_next
    BY <1>6 DEF Closing
  <2>3. \A ie, pie : Resumed(f, ie, pie) = <<f.priv, f.pc, ie \in f.mstatus>>
    BY <2>1 DEF Resumed
  <2> QED
    BY <1>2, <1>6, <2>2, <2>3
<1>7. CASE \E ex : MTrap(e, t, ex, TRUE)
  <2>1. PICK ex : MTrap(e, t, ex, TRUE)
    BY <1>7
  <2>2. /\ t.mepc = e.pc_next /\ mpp(t) = e.priv /\ (MPIE \in t.mstatus <=> MIE \in e.mstatus)
        /\ t.mstatus \cap {SPP, SPIE, SIE} = e.mstatus \cap {SPP, SPIE, SIE}
        /\ t.taken = [to |-> "m", n |-> ex, interrupt |-> TRUE]
    BY <2>1 DEF MTrap
  <2>3. f.taken.to = "m"
    BY <1>2, <2>2, SMT
  <2>4. \A ie, pie : Resumed(f, ie, pie) = <<mpp(f), ToAddress(f.mepc), (IF ie = MIE THEN pie ELSE ie) \in f.mstatus>>
    BY <2>3 DEF Resumed
  <2>5. /\ Resumed(f, MIE, MPIE) = <<e.priv, e.pc_next, MPIE \in t.mstatus>>
        /\ Resumed(f, SIE, SPIE) = <<e.priv, e.pc_next, SIE \in t.mstatus>>
    BY <1>2, <1>3, <1>4, <1>5, <2>2, <2>4
  <2>6. (MPIE \in t.mstatus) = (MIE \in e.mstatus) /\ (SIE \in t.mstatus) = (SIE \in e.mstatus)
    BY <2>2, SMT
  <2> QED
    BY <2>5, <2>6
<1>8. CASE \E ex : STrap(e, t, ex, TRUE)
  <2>1. PICK ex : STrap(e, t, ex, TRUE)
    BY <1>8
  <2>2. /\ t.sepc = e.pc_next /\ spp(t) = e.priv /\ (SPIE \in t.mstatus <=> SIE \in e.mstatus)
        /\ t.mstatus \ {SPP, SPIE, SIE} = e.mstatus \ {SPP, SPIE, SIE}
        /\ t.taken = [to |-> "s", n |-> ex, interrupt |-> TRUE]
    BY <2>1 DEF STrap
  <2>3. f.taken.to = "s"
    BY <1>2, <2>2, SMT
  <2>4. \A ie, pie : Resumed(f, ie, pie) = <<spp(f), ToAddress(f.sepc), (IF ie = SIE THEN pie ELSE ie) \in f.mstatus>>
    BY <2>3 DEF Resumed
  <2>5. /\ Resumed(f, MIE, MPIE) = <<e.priv, e.pc_next, MIE \in t.mstatus>>
        /\ Resumed(f, SIE, SPIE) = <<e.priv, e.pc_next, SPIE \in t.mstatus>>
    BY <1>2, <1>3, <1>4, <1>5, <2>2, <2>4
  <2>6. (SPIE \in t.mstatus) = (SIE \in e.mstatus) /\ (MIE \in t.mstatus) = (MIE \in e.mstatus)
    BY <1>5, <2>2, SMT
  <2> QED
    BY <2>5, <2>6
<1> QED
  BY <1>6, <1>7, <1>8 DEF Interrupted

\* An instruction that fails has done nothing but fail, and is not counted as retired.
LEMMA FailedUndone ==
    ASSUME RvInv, NEW i, NEW e, NEW t, StepIn(i, e, t), e.exc # none
    PROVE  /\ [e EXCEPT !.exc = none, !.tval_next = {}] = [hart EXCEPT !.taken = NoTrap]
           /\ hart'.instret = hart.instret
<1> DEFINE fresh == [hart EXCEPT !.taken = NoTrap]
<1>1. /\ Ready(fresh) /\ Same(hart, fresh, Fields \ {"taken"})
      /\ Ran(fresh, e, i) /\ Handled(e, t) /\ Closing(t, hart', ~hart.stdby /\ t.exc = none)
  BY DEF StepIn, Phases
<1> HIDE DEF fresh
<1>2. IsHart(e) /\ Failed(fresh, e)
  BY <1>1 DEF Ran
<1>3. fresh.instret = hart.instret
  BY <1>1 DEF Same, Fields
<1>4. e.instret = fresh.instret
  <2>1. e = [f \in Fields |-> e[f]] /\ "instret" \in Fields
    BY <1>2 DEF IsHart, Fields
  <2>2. [e EXCEPT !.exc = none, !.tval_next = {}].instret = e.instret
    BY <2>1
  <2> QED
    BY <1>2, <2>2 DEF Failed
<1>5. t.instret = e.instret /\ t.exc = e.exc
  BY <1>1, <1>2, HandledIs DEF Same
<1>6. hart'.instret = t.instret
  BY <1>1, <1>5 DEF Closing
<1> QED
  BY <1>2, <1>3, <1>4, <1>5, <1>6 DEF Failed, fresh

\* An mret or sret goes back to what the trap interrupted.
LEMMA Returned ==
    ASSUME RvInv, NEW i, NEW e, NEW t, StepIn(i, e, t)
    PROVE  /\ did'.op = "mret" /\ hart.priv = rv_mmode /\ mframe.on => Resumed(hart', MIE, MPIE) = FrameOf(mframe)
           /\ did'.op = "sret" /\ hart.priv >= rv_smode /\ TSR \notin hart.mstatus /\ sframe.on
                => Resumed(hart', SIE, SPIE) = FrameOf(sframe)
<1> DEFINE fresh == [hart EXCEPT !.taken = NoTrap]
<1>1. /\ Ready(fresh) /\ Same(hart, fresh, Fields \ {"taken"}) /\ fresh.taken = NoTrap
      /\ Ran(fresh, e, i) /\ e = executed(fresh, i)
      /\ e.exc = none => Interrupted(e, t)
      /\ Closing(t, hart', ~hart.stdby /\ t.exc = none)
      /\ did' = IF hart.stdby THEN [op |-> "wait"] ELSE i
  BY DEF StepIn, Phases
<1> HIDE DEF fresh
<1>2. /\ fresh.stdby = hart.stdby /\ fresh.priv = hart.priv /\ fresh.mstatus = hart.mstatus
      /\ fresh.mepc = hart.mepc /\ fresh.sepc = hart.sepc
  BY <1>1 DEF Same, Fields
<1>3. IsHart(e) /\ e.taken = NoTrap /\ fresh.exc = none
  BY <1>1 DEF Ran, Ready
<1>4. ASSUME did'.op \in {"mret", "sret"}
      PROVE  ~fresh.stdby /\ i.op = did'.op /\ e = ReportOpcode(instr_func(fresh, i))
  <2>1. ~hart.stdby
    BY <1>1, <1>4
  <2> QED
    BY <1>1, <1>2, <2>1 DEF executed, execute
<1>5. \A g : g.exc = none => ReportOpcode(g) = g
  BY SMT DEF ReportOpcode, none, illegal_instruction
<1>6. ASSUME did'.op = "mret", hart.priv = rv_mmode, mframe.on
      PROVE  Resumed(hart', MIE, MPIE) = FrameOf(mframe)
  <2> DEFINE g == rv_mret_instr(fresh)
  <2>1. i.op = "mret" /\ e = ReportOpcode(g)
    BY <1>4, <1>6 DEF instr_func
  <2>2. Mret(fresh, g)
    BY <1>1, <1>2, <1>6, <2>1, MretRan
  <2> HIDE DEF g
  <2>3. g.exc = none /\ ~g.stdby
    BY <1>3, <1>4, <1>6, <2>2 DEF Mret, Same, Fields
  <2>4. e = g
    BY <1>5, <2>1, <2>3
  <2>5. e.priv = mpp(hart) /\ e.pc_next = ToAddress(hart.mepc) /\ (MIE \in e.mstatus) = (MPIE \in hart.mstatus)
    BY <1>2, <2>2, <2>4, SMT DEF Mret, mpp
  <2>6. Resumed(hart', MIE, MPIE) = <<e.priv, e.pc_next, MIE \in e.mstatus>>
    BY <1>1, <1>3, <2>3, <2>4, ResumedIs
  <2>7. /\ mframe.priv = mpp(hart) /\ mframe.pc = hart.mepc /\ ToAddress(hart.mepc) = hart.mepc
        /\ mframe.ie = (MPIE \in hart.mstatus)
    BY <1>6, AddressIs DEF RvInv, MKept
  <2> QED
    BY <2>5, <2>6, <2>7 DEF FrameOf
<1>7. ASSUME did'.op = "sret", hart.priv >= rv_smode, TSR \notin hart.mstatus, sframe.on
      PROVE  Resumed(hart', SIE, SPIE) = FrameOf(sframe)
  <2> DEFINE g == rv_sret_instr(fresh)
  <2>1. i.op = "sret" /\ e = ReportOpcode(g)
    BY <1>4, <1>7 DEF instr_func
  <2>2. Sret(fresh, g)
    BY <1>1, <1>2, <1>7, <2>1, SretRan
  <2> HIDE DEF g
  <2>3. g.exc = none /\ ~g.stdby
    BY <1>3, <1>4, <1>7, <2>2 DEF Sret, Same, Fields
  <2>4. e = g
    BY <1>5, <2>1, <2>3
  <2>5. e.priv = spp(hart) /\ e.pc_next = ToAddress(hart.sepc) /\ (SIE \in e.mstatus) = (SPIE \in hart.mstatus)
    BY <1>2, <2>2, <2>4, SMT DEF Sret, spp
  <2>6. Resumed(hart', SIE, SPIE) = <<e.priv, e.pc_next, SIE \in e.mstatus>>
    BY <1>1, <1>3, <2>3, <2>4, ResumedIs
  <2>7. /\ sframe.priv = spp(hart) /\ sframe.pc = hart.sepc /\ ToAddress(hart.sepc) = hart.sepc
        /\ sframe.ie = (SPIE \in hart.mstatus)
    BY <1>7, AddressIs DEF RvInv, SKept
  <2> QED
    BY <2>5, <2>6, <2>7 DEF FrameOf
<1> QED
  BY <1>6, <1>7

\* Traps are exact: an instruction that fails has done nothing, and a return goes back to the
\* mode, the address and the interrupt enable that the trap interrupted (m_trap, s_trap,
\* rv_mret_instr, rv_sret_instr, rv32_cpu_step).
THEOREM RvTrapsExact == Spec => TrapsExact
<1> DEFINE A ==
       /\ Stepped /\ Mid.exc # none =>
            /\ [Mid EXCEPT !.exc = none, !.tval_next = {}] = [hart EXCEPT !.taken = NoTrap]
            /\ hart'.instret = hart.instret
       /\ did'.op = "mret" /\ hart.priv = rv_mmode /\ mframe.on
            => Resumed(hart', MIE, MPIE) = FrameOf(mframe)
       /\ did'.op = "sret" /\ hart.priv >= rv_smode /\ TSR \notin hart.mstatus /\ sframe.on
            => Resumed(hart', SIE, SPIE) = FrameOf(sframe)
<1>1. RvInv /\ [Next]_vars => [A]_vars
  <2> SUFFICES ASSUME RvInv, Next PROVE A
    OBVIOUS
  <2>1. CASE ~Stepped
    BY <2>1 DEF Stepped
  <2>2. CASE \E i, e, t : StepIn(i, e, t) /\ Mid = e
    <3>1. PICK i, e, t : StepIn(i, e, t) /\ Mid = e
      BY <2>2
    <3>2. e.exc # none => /\ [e EXCEPT !.exc = none, !.tval_next = {}] = [hart EXCEPT !.taken = NoTrap]
                          /\ hart'.instret = hart.instret
      BY <3>1, FailedUndone
    <3> QED
      BY <3>1, <3>2, Returned
  <2> QED
    BY <2>1, <2>2, SteppedIs
<1> QED
  BY <1>1, InitRv, RvStep, PTL DEF Spec, TrapsExact

\* In the 32-bit build a step takes an interrupt exactly when one may be taken, to the right
\* mode and the foremost one (try_handle_interrupt), and the timer lines say what the timers
\* say after every step (manage_timer_interrupts).  The 64-bit build has an order of its own
\* for S mode.
THEOREM RvInterruptsByTheRule ==
    ASSUME Xlen = 32
    PROVE  Spec => InterruptsByTheRule
<1> DEFINE A ==
       /\ Stepped => TimerLinesTrue'
       /\ Stepped /\ Mid.exc = none =>
         LET m == Takeable(Mid, "m")
             s == Takeable(Mid, "s")
             may == IF m # {} THEN m ELSE s
             taken == hart'.taken
         IN IF may = {} THEN taken = NoTrap
            ELSE /\ taken.interrupt
                 /\ taken.to = IF m # {} THEN "m" ELSE "s"
                 /\ taken.n \in may /\ \A i \in may : Rank(taken.n) <= Rank(i)
<1>1. RvInv /\ [Next]_vars => [A]_vars
  <2> SUFFICES ASSUME RvInv, Next, Stepped PROVE A
    OBVIOUS
  <2>1. PICK i, e, t : StepIn(i, e, t) /\ Mid = e
    BY SteppedIs
  <2>2. /\ Closing(t, hart', ~hart.stdby /\ t.exc = none)
        /\ e.exc = none => Interrupted(e, t)
        /\ Ran([hart EXCEPT !.taken = NoTrap], e, i) /\ [hart EXCEPT !.taken = NoTrap].taken = NoTrap
    BY <2>1 DEF StepIn, Phases
  <2>3. TimerLinesTrue'
    BY <2>2 DEF Closing, TimersTrue, TimerLinesTrue
  <2>4. hart'.taken = t.taken /\ e.taken = NoTrap
    BY <2>2, ClosingConfined DEF Same, Ran
  <2>5. ASSUME Mid.exc = none
        PROVE  LET m == Takeable(Mid, "m")
                   s == Takeable(Mid, "s")
                   may == IF m # {} THEN m ELSE s
                   taken == hart'.taken
               IN IF may = {} THEN taken = NoTrap
                  ELSE /\ taken.interrupt
                       /\ taken.to = IF m # {} THEN "m" ELSE "s"
                       /\ taken.n \in may /\ \A j \in may : Rank(taken.n) <= Rank(j)
    <3> DEFINE m == Takeable(e, "m")
               s == Takeable(e, "s")
               may == IF m # {} THEN m ELSE s
    <3>1. IF may = {} THEN t = e
          ELSE \E j \in may :
                 /\ IF m # {} THEN MTrap(e, t, j, TRUE) ELSE STrap(e, t, j, TRUE)
                 /\ Foremost(j, may)
      BY <2>1, <2>2, <2>5 DEF Interrupted
    <3> HIDE DEF m, s
    <3>2. CASE may = {}
      BY <2>1, <2>4, <3>1, <3>2 DEF m, s
    <3>3. CASE may # {}
      <4>1. PICK j \in may : /\ IF m # {} THEN MTrap(e, t, j, TRUE) ELSE STrap(e, t, j, TRUE)
                             /\ Foremost(j, may)
        BY <3>1, <3>3
      <4>2. t.taken = [to |-> IF m # {} THEN "m" ELSE "s", n |-> j, interrupt |-> TRUE]
        BY <4>1 DEF MTrap, STrap
      <4>3. t.taken.interrupt /\ t.taken.n = j /\ t.taken.to = IF m # {} THEN "m" ELSE "s"
        BY <4>2, SMT
      <4>4. j \in may /\ \A k \in may : Rank(j) <= Rank(k)
        BY <4>1 DEF Foremost
      <4> QED
        BY <2>1, <2>4, <3>3, <4>3, <4>4 DEF m, s
    <3> QED
      BY <3>2, <3>3
  <2> QED
    BY <2>3, <2>5
<1> QED
  BY <1>1, InitRv, RvStep, PTL DEF Spec, InterruptsByTheRule
==============================================================================
