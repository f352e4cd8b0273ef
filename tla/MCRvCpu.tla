------------------------------- MODULE MCRvCpu ------------------------------
(***************************************************************************)
(* Guests for the RISC-V hart.  One takes interrupts of two lines through  *)
(* traps to both modes, with every mix of delegations; one programs the    *)
(* timers and waits; one runs each CSR instruction in each mode; one waits *)
(* while the debugger moves it.                                            *)
(***************************************************************************)
EXTENDS RvCpu

Op(op) == [op |-> op]
Write(reg, v) == [op |-> "csrrw", csr |-> csr_num[reg], v |-> v, x0 |-> TRUE]

Store(reg, bits, v) == [op |-> "store", reg |-> reg, bits |-> bits, v |-> v]

Still == Write("mcountinhibit", {0, 2})

MCTraps ==
    [text |-> <<{Still},
                {Write("mie", {MEI, SEI})},
                {Write("mideleg", {}), Write("mideleg", Bits)},
                {Write("medeleg", {}), Write("medeleg", {2, 8, 9})},
                {Write("mstatus", {MPIE}), Write("mstatus", {SPIE, 11})},
                {Op("ecall"), Op("mret"), Op("sret"), Op("wfi")}>>,
     clock |-> {FALSE}, lines |-> {MEI, SEI}, goto |-> {}]

MCTimers ==
    [text |-> <<{Write("mcountinhibit", {2})},
                {Write("mie", {MTI, STI})},
                {Write("mideleg", {}), Write("mideleg", {STI})},
                {Write("mstatus", {11, SPIE}), Write("mstatus", {MIE})},
                {Op("wfi"), Op("mret"), Write("scyclecmp", {0}), 
                 Store("mtimecmp", {1}, {1}), Store("mtime", {0}, {}),
                 [op |-> "csrrc", csr |-> csr_mcycle, v |-> {0}, x0 |-> FALSE]}>>,
     clock |-> BOOLEAN, lines |-> {}, goto |-> {}]

MCRegisters ==
    {csr_num[reg] : reg \in DOMAIN csr_num} \cup
    {csr_mcycle, csr_minstret, \hB80, \hB82, \hB03, \hB83, \hC00, \hC01, \hC02, \hC03, \hC80, \h323, \h3A0, \h7B0}
MCValues == {{}, Bits, {12}, {0, 2, 3, 11}, {1, 5, 9}}
MCAnyCsr ==
    {[op |-> op, csr |-> csr, v |-> v, x0 |-> FALSE] :
        op \in {"csrrw", "csrrs", "csrrc"}, csr \in MCRegisters, v \in MCValues}
    \cup {[op |-> "csrrs", csr |-> csr, v |-> {}, x0 |-> TRUE] : csr \in MCRegisters}
MCCsrs ==
    [text |-> <<{Write("mcounteren", {0, 31}), Write("medeleg", Bits)},
                {Write("mstatus", {}), Write("mstatus", {11, TVM, MPRV}), Write("mstatus", {11, 12, MIE}),
                 Write("mstatus", {11, SPP, SIE})},
                {Op("nop"), Op("mret")},
                MCAnyCsr,
                {Op("mret"), Op("ecall"), Op("sret"), [op |-> "load", v |-> {2}],
                 [op |-> "csrrc", csr |-> csr_num.mstatus, v |-> {11}, x0 |-> FALSE]},
                {Op("halt")}>>,
     clock |-> {FALSE}, lines |-> {}, goto |-> {}]

MCGoto ==
    [text |-> <<{Still}, {Write("mie", {MSI, MEI})}, {Write("mtvec", {0}), Write("mtvec", {0, 2})},
                {Write("mstatus", {MIE})},
                {Op("wfi"), Op("mret"), Op("fetch"), [op |-> "jump", to |-> {2}], Write("mip", {SSI})}>>,
     clock |-> {FALSE}, lines |-> {MSI, 2}, goto |-> {{}, {1}}]

MCPrograms == <<MCTraps, MCTimers, MCCsrs, MCGoto>>
==============================================================================
