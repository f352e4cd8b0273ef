------------------------------ MODULE MCR4kCpu ------------------------------
(***************************************************************************)
(* Guests for the R4000.  One takes interrupts and exceptions around       *)
(* branches, with nested exceptions and LL and SC; one pages: it misses,   *)
(* refills with both page sizes, probes and rewrites entries and moves     *)
(* Wired; one tries every mode and the corners of the conversion.          *)
(***************************************************************************)
EXTENDS R4kCpu, Sequences, TLC

Op(op) == [op |-> op]
Mem(op, a) == [op |-> op, a |-> a, aligned |-> TRUE]
Branch(to) == [op |-> "branch", to |-> to]
Raise(e) == [op |-> "raise", exc |-> e]
Set(reg, n) == [op |-> "mtc0", reg |-> reg, n |-> n]
SetLo(reg, pfn, d, v) == [op |-> "mtc0", reg |-> reg, lo |-> [pfn |-> pfn, d |-> d, v |-> v, g |-> FALSE]]
SetGlobal(reg, pfn) == [op |-> "mtc0", reg |-> reg, lo |-> [pfn |-> pfn, d |-> TRUE, v |-> TRUE, g |-> TRUE]]
SetHi(vpn2) == [op |-> "mtc0", reg |-> "EntryHi", hi |-> [vpn2 |-> vpn2, asid |-> 1]]
SetCause(ip) == [op |-> "mtc0", reg |-> "Cause", ip |-> ip]
User == [ie |-> TRUE, exl |-> TRUE, erl |-> FALSE, ksu |-> 2, im |-> {0, 2, 7}, bev |-> FALSE, cu0 |-> FALSE, ts |-> FALSE]
SetStatus(s) == [op |-> "mtc0", reg |-> "Status", status |-> s]

\* The boot code starts at physical word 24, user code at 64, in frame 16.
Place(at, seq) == [p \in at .. at + Len(seq) - 1 |-> seq[p - at + 1]]
Boot(compare, status) ==
    <<{SetHi(0)}, {SetLo("EntryLo0", 16, TRUE, TRUE)}, {SetLo("EntryLo1", 17, TRUE, TRUE)}, {Op("tlbwi")},
      {Set("Index", 1)}, {SetHi(56)}, {Op("tlbwi")}, {Set("Index", 2)}, {SetHi(57)}, {Op("tlbwi")},
      {SetHi(0)}, {Set("Wired", 1)}, compare, {Set("EPC", 0)}, {SetStatus(s) : s \in status}, {Op("eret")}>>

MCInterrupts ==
    [text |-> Place(0, <<{Op("eret")}>>)
       @@ Place(8, <<{Op("other"), Op("eret"), Set("Compare", 1), Branch(256 + 11), [Mem("load", 1) EXCEPT !.aligned = FALSE]},
                     {Op("other"), SetCause({0}), SetCause({})},
                     {Op("eret"), SetStatus([User EXCEPT !.exl = FALSE, !.ksu = 0])},
                     {Op("eret")}, {Op("eret")}>>)
       @@ Place(24, Boot({Set("Compare", 0)}, {User}))
       @@ Place(64, <<{Op("other"), Branch(2), Raise("Sys"), Mem("ll", 0)},
                      {Branch(3), Mem("sc", 0), Mem("load", 300)},
                      {Op("skip"), Branch(0), Op("mfc0")},
                      {Branch(0), Mem("store", 1)},
                      {Op("other"), Raise("Bp"), Mem("sc", 0)},
                      {Branch(0)}, {Op("other")}>>),
     lines |-> {2}, snoop |-> {64}]

MCPaging ==
    [text |-> Place(0, <<{SetLo("EntryLo0", 20, TRUE, TRUE), SetGlobal("EntryLo0", 20)},
                         {SetLo("EntryLo1", 21, TRUE, FALSE), SetGlobal("EntryLo1", 21)},
                         {Set("PageMask", 1), Set("PageMask", 4), Set("PageMask", 2)},
                         {Op("tlbwr")}, {Op("eret")}>>)
       @@ Place(8, <<{Op("tlbp")}, {Op("tlbr")}, {SetLo("EntryLo1", 22, TRUE, TRUE)}, {Op("tlbwi")},
                     {Op("eret")}>>)
       @@ Place(24, Boot({Set("Compare", 0)}, {[User EXCEPT !.ie = FALSE]}))
       @@ Place(64, <<{Mem("load", 32)}, {Mem("store", 48)}, {Branch(0)}, {Mem("load", 36)}>>),
     lines |-> {}, snoop |-> {}]

MCEntries ==
    [text |-> Place(0, <<{Op("tlbwr")}, {Op("eret")}>>)
       @@ Place(8, <<{Op("tlbp"), Op("tlbwr")}, {Op("tlbr"), Set("Index", 7)}, {Op("tlbr"), Op("tlbwi")},
                     {Set("Wired", 0), Set("Wired", 2), Set("Wired", 5)}, {SetHi(4)}, {Op("tlbp")}, {Op("eret")}>>)
       @@ Place(24, Boot({Set("Compare", 0)}, {[User EXCEPT !.ie = FALSE]}))
       @@ Place(64, <<{Mem("load", 32), Raise("Sys")}, {Branch(0)}, {Op("other")}>>),
     lines |-> {}, snoop |-> {}]

\* At the error level after reset, and in every mode.
MCReset ==
    [text |-> Place(0, <<{Op("other")}>>)
       @@ Place(24, <<{Mem("load", 0), Mem("store", 400), Mem("load", 256), Mem("ll", 3), Branch(0), Raise("Ov"),
                       [op |-> "mtc0", reg |-> "WatchLo", rw |-> {"read"}, paddr |-> 0], Set("XContext", 0), Set("Random", 0)},
                      {Mem("load", 320), Mem("load", 0)}, {Set("ErrorEPC", 0)}, {Op("eret")}>>)
       @@ Place(48, <<{Op("eret"), Set("EPC", 320 + 26)}, {Op("eret")}>>)
       @@ Place(56, <<{Set("EPC", 320 + 26)}, {Op("eret")}>>),
     lines |-> {}, snoop |-> {}]

Modes == {[User EXCEPT !.ie = FALSE, !.ksu = ksu, !.cu0 = ksu = 3, !.exl = exl] : ksu \in 0 .. 3, exl \in BOOLEAN}
         \cup {[User EXCEPT !.cu0 = TRUE], [User EXCEPT !.ts = TRUE]}
MCModes ==
    [text |-> Place(0, <<{SetLo("EntryLo0", 16, TRUE, TRUE)}, {SetLo("EntryLo1", 16, TRUE, TRUE)}, {Op("tlbwr")}, {Op("eret")}>>)
       @@ Place(8, <<{Op("eret"), Set("EPC", 0)}, {Op("eret")}>>)
       @@ Place(24, Boot({Set("Compare", 0)}, Modes))
       @@ Place(64, <<{Op("tlbwr"), Op("tlbr"), Op("tlbp"), Op("eret"), Set("Count", 3), Mem("load", 400), Mem("store", 470), Mem("load", 256)},
                      {Branch(0)}, {Op("other")}>>),
     lines |-> {}, snoop |-> {}]

\* A kernel that answers every miss with TLBWR and mends an invalid page
\* with TLBP, TLBR and TLBWI lets the access through in the end: what the
\* refill and the general vector find in EntryHi, Index and EntryLo is
\* enough to map the page, and Random does not chase the wired code page.
MissServed == (prog = 2 /\ did.exc \in Refills) ~> (did.op \in {"load", "store"} /\ did.exc = "None")

MCPrograms == <<MCInterrupts, MCPaging, MCEntries, MCReset, MCModes>>
=============================================================================
