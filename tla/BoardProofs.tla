----------------------------- MODULE BoardProofs -----------------------------
(***************************************************************************)
(* The machine around its processors: the interrupt lines (IrqLines),      *)
(* physical memory (PhysMem), the main loop with its debuggers (Machine)   *)
(* and the DMA controller (Sh2eDmac).  The four share no state; each part  *)
(* below is about one.                                                     *)
(***************************************************************************)
EXTENDS IrqLines, PhysMem, Machine, Sh2eDmac, TLAPS

\* Zenon suffices for most steps; those that need arithmetic cite SMT.
USE Zenon

(***************************************************************************)
(* IrqLines: the keyboard invariants, for any number of processors and     *)
(* keyboards and any assignment of interrupt numbers.                      *)
(***************************************************************************)
LEMMA LineTyped ==
  ASSUME NEW c, NEW n \in 0 .. MAX_INTRS
  PROVE  Line(c, n) \in 0 .. MAX_INTRS
  BY SMT DEF Line, MAX_INTRS, MEI

(* A processor's bits stay in range, whichever device drives them. *)
LEMMA DriveTyped ==
  ASSUME LinesTypeOK, NEW cs \in SUBSET Cpus, NEW n \in 0 .. MAX_INTRS, NEW up \in BOOLEAN,
         Drive(cs, n, up)
  PROVE  /\ host' \in {"up", "assert"}
         /\ lines' \in [Cpus -> SUBSET (0 .. MAX_INTRS)]
         /\ driven' \in [Cpus -> SUBSET (0 .. MAX_INTRS)]
  <1>1. CASE Refused(cs, n)
    BY <1>1 DEF LinesTypeOK, Drive
  <1>2. CASE ~Refused(cs, n)
    <2> DEFINE L(c) == Line(c, n)
    <2>1. \A c : L(c) \in 0 .. MAX_INTRS
      BY LineTyped
    <2>2. /\ host' = host
          /\ lines' = [c \in Cpus |-> IF c \notin cs THEN lines[c]
                                     ELSE IF up THEN lines[c] \cup {L(c)} ELSE lines[c] \ {L(c)}]
          /\ driven' = [c \in Cpus |-> IF c \in cs THEN driven[c] \cup {L(c)} ELSE driven[c]]
      BY <1>2 DEF Drive
    <2> HIDE DEF L
    <2> QED BY <2>1, <2>2, SMT DEF LinesTypeOK
  <1> QED BY <1>1, <1>2

LEMMA BoardTyped ==
  ASSUME LinesTypeOK
  PROVE  /\ FallbackCpu \in Cpus
         /\ \A k \in Keyboards : board.intno[k] \in 0 .. MAX_INTRS
         /\ board.order \in 0 .. MAX_INTRS
         /\ \A mask \in SUBSET MaskBits : Targets(mask) \in SUBSET Cpus
  BY LineConstants, SMT DEF LinesTypeOK, FallbackCpu, Cpus, Targets, Target

(* Every field keeps its type, whichever device, guest or command acts. *)
LEMMA TypePreserved == LinesTypeOK /\ [LinesNext]_linesVars => LinesTypeOK'
  <1> SUFFICES ASSUME LinesTypeOK, [LinesNext]_linesVars PROVE LinesTypeOK'
    OBVIOUS
  <1> USE LineConstants
  <1>1. ASSUME NEW k \in Keyboards, NEW c \in Keys, GenKey(k, c), UNCHANGED board
        PROVE  LinesTypeOK'
    <2>1. /\ host' \in {"up", "assert"}
          /\ lines' \in [Cpus -> SUBSET (0 .. MAX_INTRS)]
          /\ driven' \in [Cpus -> SUBSET (0 .. MAX_INTRS)]
      BY <1>1, DriveTyped, BoardTyped DEF GenKey, InterruptUp, LinesTypeOK, lineVars
    <2> QED BY <1>1, <2>1, SMTT(20) DEF LinesTypeOK, GenKey
  <1>2. ASSUME NEW k \in Keyboards, ReadChar(k), UNCHANGED board PROVE LinesTypeOK'
    <2>1. /\ host' \in {"up", "assert"}
          /\ lines' \in [Cpus -> SUBSET (0 .. MAX_INTRS)]
          /\ driven' \in [Cpus -> SUBSET (0 .. MAX_INTRS)]
      BY <1>2, DriveTyped, BoardTyped DEF ReadChar, InterruptDown, LinesTypeOK, lineVars
    <2> QED BY <1>2, <2>1, SMT DEF LinesTypeOK, ReadChar
  <1>3. ASSUME NEW mask \in SUBSET MaskBits, SyncUp(mask) \/ SyncDown(mask), UNCHANGED board
        PROVE  LinesTypeOK'
    BY <1>3, DriveTyped, BoardTyped
       DEF LinesTypeOK, SyncUp, SyncDown, InterruptUp, InterruptDown, kbVars
  <1>4. ASSUME NEW c \in Cpus, OwnWrite(c), UNCHANGED board PROVE LinesTypeOK'
    <2>1. PICK bits \in SUBSET (0 .. MAX_INTRS), value \in SUBSET (0 .. MAX_INTRS) :
              Overwrite(c, bits, value)
      BY <1>4, SMT DEF OwnWrite, WriteMip, WriteSip, WriteCause, WriteCompare, CountHits,
                       MAX_INTRS, INTR_COUNT, SSI, MSI, MEI
    <2>2. \A s \in SUBSET (0 .. MAX_INTRS) :
              /\ (s \ bits) \cup value \in SUBSET (0 .. MAX_INTRS)
              /\ s \ bits \in SUBSET (0 .. MAX_INTRS)
      BY <2>1
    <2>3. /\ lines' \in [Cpus -> SUBSET (0 .. MAX_INTRS)]
          /\ driven' \in [Cpus -> SUBSET (0 .. MAX_INTRS)]
      <3>1. /\ lines' = [lines EXCEPT ![c] = (lines[c] \ bits) \cup value]
            /\ driven' = [driven EXCEPT ![c] = driven[c] \ bits]
        BY <2>1 DEF Overwrite
      <3>2. /\ (lines[c] \ bits) \cup value \in SUBSET (0 .. MAX_INTRS)
            /\ driven[c] \ bits \in SUBSET (0 .. MAX_INTRS)
        BY <2>2 DEF LinesTypeOK
      <3> QED BY <3>1, <3>2 DEF LinesTypeOK
    <2> QED BY <1>4, <2>1, <2>3 DEF Overwrite, LinesTypeOK, kbVars
  <1>5. CASE UNCHANGED linesVars
    BY <1>5 DEF LinesTypeOK, linesVars, lineVars, kbVars
  <1> QED BY <1>1, <1>2, <1>3, <1>4, <1>5 DEF LinesNext

(* A processor that writes its own interrupt register touches no keyboard. *)
LEMMA OwnWriteKeepsKeyboards ==
  ASSUME NEW c \in Cpus, OwnWrite(c)
  PROVE  UNCHANGED kbVars
  BY DEF OwnWrite, WriteMip, WriteSip, WriteCause, WriteCompare, CountHits, Overwrite, kbVars

(* KeysAccounted: for every number of keyboards, the counters of dkeyboard.c
   account for every key pressed and every interrupt raised. *)
LEMMA KeysStayAccounted == LinesSpec => []KeysAccounted
  <1>1. LinesInit => LinesTypeOK /\ KeysAccounted
    BY LineConstants, SMT DEF LinesInit, LinesTypeOK, KeysAccounted
  <1>2. LinesTypeOK /\ KeysAccounted /\ [LinesNext]_linesVars => LinesTypeOK' /\ KeysAccounted'
    <2> SUFFICES ASSUME LinesTypeOK, KeysAccounted, [LinesNext]_linesVars PROVE KeysAccounted'
      BY TypePreserved
    <2>1. ASSUME NEW k \in Keyboards, NEW c \in Keys, GenKey(k, c) PROVE KeysAccounted'
      BY <2>1, SMT DEF LinesTypeOK, KeysAccounted, GenKey
    <2>2. ASSUME NEW k \in Keyboards, ReadChar(k) PROVE KeysAccounted'
      BY <2>2, SMT DEF LinesTypeOK, KeysAccounted, ReadChar
    <2>3. CASE UNCHANGED kbVars
      BY <2>3 DEF KeysAccounted, kbVars
    <2> QED BY <2>1, <2>2, <2>3, OwnWriteKeepsKeyboards DEF LinesNext, SyncUp, SyncDown, linesVars
  <1> QED BY <1>1, <1>2, PTL DEF LinesSpec

(* KeyboardWired: what KeyLine and Sharing say is fixed with the board, so each
   step moves ig, lines and driven only; on a bit the step does not write,
   nothing changes, and on the one it writes the new value settles the matter. *)
LEMMA KeyboardStaysWired == LinesSpec => []KeyboardWired
  <1>1. LinesInit => LinesTypeOK /\ KeyboardWired
    <2> SUFFICES ASSUME LinesInit PROVE LinesTypeOK /\ KeyboardWired
      OBVIOUS
    <2>1. LinesTypeOK
      BY LineConstants, SMT DEF LinesInit, LinesTypeOK
    <2> QED BY <2>1, BoardTyped DEF LinesInit, KeyboardWired
  <1>2. LinesTypeOK /\ KeyboardWired /\ [LinesNext]_linesVars => LinesTypeOK' /\ KeyboardWired'
    <2> SUFFICES ASSUME LinesTypeOK, KeyboardWired, [LinesNext]_linesVars PROVE KeyboardWired'
      BY TypePreserved
    <2>0. UNCHANGED board
      BY DEF LinesNext, linesVars
    <2>a. \A k \in Keyboards : KeyLine(k)' = KeyLine(k) /\ Sharing(k)' = Sharing(k)
      BY <2>0 DEF KeyLine, Sharing, Line
    <2>b. Line(FallbackCpu, board.order)' = Line(FallbackCpu, board.order)
      BY <2>0 DEF Line
    <2>c. FallbackCpu \in Cpus
      BY BoardTyped
    <2> SUFFICES ASSUME NEW k \in Keyboards, host' = "up", KeyLine(k) \in driven'[FallbackCpu],
                        KeyLine(k) # Line(FallbackCpu, board.order)
                 PROVE  /\ KeyLine(k) \in lines'[FallbackCpu] => \E j \in Sharing(k) : ig'[j]
                        /\ ig'[k] /\ Sharing(k) = {k} => KeyLine(k) \in lines'[FallbackCpu]
      BY <2>a, <2>b, Zenon DEF KeyboardWired
    <2>d. k \in Sharing(k) /\ Sharing(k) \in SUBSET Keyboards
      BY DEF Sharing
    <2>e. ig \in [Keyboards -> BOOLEAN]
      BY DEF LinesTypeOK
    <2>1. ASSUME host = "up", NEW n \in Keyboards, NEW c \in Keys, GenKey(n, c)
          PROVE  /\ KeyLine(k) \in lines'[FallbackCpu] => \E j \in Sharing(k) : ig'[j]
                 /\ ig'[k] /\ Sharing(k) = {k} => KeyLine(k) \in lines'[FallbackCpu]
      <3>0. ig' = [ig EXCEPT ![n] = TRUE]
        BY <2>1 DEF GenKey
      <3>1. CASE ig[n]
        BY <3>0, <3>1, <2>1, <2>d, <2>e DEF GenKey, lineVars, KeyboardWired
      <3>2. CASE ~ig[n]
        <4>1. /\ lines'[FallbackCpu] = lines[FallbackCpu] \cup {KeyLine(n)}
              /\ driven'[FallbackCpu] = driven[FallbackCpu] \cup {KeyLine(n)}
          BY <3>2, <2>1, <2>c DEF GenKey, InterruptUp, Drive, KeyLine
        <4>2. CASE KeyLine(n) = KeyLine(k)
          BY <4>1, <4>2, <3>0, <2>e DEF Sharing
        <4>3. CASE KeyLine(n) # KeyLine(k)
          <5>1. n \notin Sharing(k)
            BY <4>3 DEF Sharing
          <5>2. \A j \in Sharing(k) : ig'[j] = ig[j]
            BY <5>1, <3>0, <2>d, <2>e
          <5> QED BY <4>1, <4>3, <5>2, <2>1, <2>d DEF KeyboardWired
        <4> QED BY <4>2, <4>3
      <3> QED BY <3>1, <3>2
    <2>2. ASSUME host = "up", NEW n \in Keyboards, ReadChar(n)
          PROVE  /\ KeyLine(k) \in lines'[FallbackCpu] => \E j \in Sharing(k) : ig'[j]
                 /\ ig'[k] /\ Sharing(k) = {k} => KeyLine(k) \in lines'[FallbackCpu]
      <3>0. ig' = [ig EXCEPT ![n] = FALSE]
        BY <2>2 DEF ReadChar
      <3>1. CASE ~ig[n]
        <4>1. \A j \in Keyboards : ig'[j] = ig[j]
          BY <3>0, <3>1, <2>e
        <4> QED BY <4>1, <3>1, <2>2, <2>d DEF ReadChar, lineVars, KeyboardWired
      <3>2. CASE ig[n]
        <4>1. /\ lines'[FallbackCpu] = lines[FallbackCpu] \ {KeyLine(n)}
              /\ driven'[FallbackCpu] = driven[FallbackCpu] \cup {KeyLine(n)}
          BY <3>2, <2>2, <2>c DEF ReadChar, InterruptDown, Drive, KeyLine
        <4>2. CASE KeyLine(n) = KeyLine(k)
          <5>1. n \in Sharing(k)
            BY <4>2 DEF Sharing
          <5>2. ~ig'[n]
            BY <3>0, <2>e
          <5>3. KeyLine(k) \notin lines'[FallbackCpu]
            BY <4>1, <4>2
          <5>4. Sharing(k) = {k} => n = k
            BY <5>1
          <5> QED BY <5>2, <5>3, <5>4
        <4>3. CASE KeyLine(n) # KeyLine(k)
          <5>1. n \notin Sharing(k)
            BY <4>3 DEF Sharing
          <5>2. \A j \in Sharing(k) : ig'[j] = ig[j]
            BY <5>1, <3>0, <2>d, <2>e
          <5> QED BY <4>1, <4>3, <5>2, <2>2, <2>d DEF KeyboardWired
        <4> QED BY <4>2, <4>3
      <3> QED BY <3>1, <3>2
    <2>3. ASSUME host = "up", NEW mask \in SUBSET MaskBits, SyncUp(mask) \/ SyncDown(mask)
          PROVE  /\ KeyLine(k) \in lines'[FallbackCpu] => \E j \in Sharing(k) : ig'[j]
                 /\ ig'[k] /\ Sharing(k) = {k} => KeyLine(k) \in lines'[FallbackCpu]
      <3>1. /\ KeyLine(k) \in lines'[FallbackCpu] <=> KeyLine(k) \in lines[FallbackCpu]
            /\ KeyLine(k) \in driven[FallbackCpu]
        BY <2>3, <2>c, ZenonT(30) DEF SyncUp, SyncDown, InterruptUp, InterruptDown, Drive
      <3> QED BY <3>1, <2>3 DEF SyncUp, SyncDown, kbVars, KeyboardWired
    <2>4. ASSUME host = "up", NEW c \in Cpus, OwnWrite(c)
          PROVE  /\ KeyLine(k) \in lines'[FallbackCpu] => \E j \in Sharing(k) : ig'[j]
                 /\ ig'[k] /\ Sharing(k) = {k} => KeyLine(k) \in lines'[FallbackCpu]
      <3>1. PICK bits, value : value \subseteq bits /\ Overwrite(c, bits, value)
        BY <2>4, Zenon DEF OwnWrite, WriteMip, WriteSip, WriteCause, WriteCompare, CountHits
      <3>2. /\ KeyLine(k) \in lines'[FallbackCpu] <=> KeyLine(k) \in lines[FallbackCpu]
            /\ KeyLine(k) \in driven[FallbackCpu]
        BY <3>1, <2>c DEF Overwrite, LinesTypeOK
      <3> QED BY <3>1, <3>2, <2>4 DEF Overwrite, kbVars, KeyboardWired
    <2>5. CASE UNCHANGED linesVars
      BY <2>5 DEF KeyboardWired, linesVars, lineVars, kbVars
    <2> QED BY <2>1, <2>2, <2>3, <2>4, <2>5 DEF LinesNext
  <1> QED BY <1>1, <1>2, PTL DEF LinesSpec

(* KeysKept: for any number of keyboards and processors of either kind and any
   interrupt numbers dkeyboard_init and dorder_init accept, no key press is
   forgotten by the counters of dkeyboard.c or by the processor's line. *)
THEOREM KeysStayKept == LinesSpec => []KeysKept
  BY KeysStayAccounted, KeyboardStaysWired, PTL DEF KeysKept

(***************************************************************************)
(* PhysMem: reservations and decoded-instruction caches, for any number of *)
(* processors of any mixture of architectures and any memory.              *)
(***************************************************************************)
(* The reservation part of the type invariant, which is all the proofs about
   reservations need. *)
ResType ==
    /\ scList \subseteq Harts
    /\ resValid \in [Harts -> BOOLEAN] /\ resAddr \in [Harts -> Addr]
    /\ resWidth \in [Harts -> 1 .. 2] /\ broken \in [Harts -> BOOLEAN]

(* What one reservation of an RV32 hart has to satisfy: it covers one word,
   and no store has hit it. *)
Rv32Intact == \A h \in Harts : Arch[h] = "rv32" /\ resValid[h] => resWidth[h] = 1 /\ ~broken[h]

ResInv == ResType /\ ScListExact /\ Rv32Intact

(* A store, plain or conditional, preserves the reservation invariant.  The
   list and the flags it starts from may already lack the storing hart. *)
LEMMA StorePreserves ==
    ASSUME ResInv, NEW list, NEW flags \in [Harts -> BOOLEAN],
           list = {h \in Harts : flags[h]},
           \A h \in Harts : flags[h] => resValid[h],
           NEW a \in Addr, NEW w \in 1 .. 2, NEW v,
           StoreTo(list, flags, a, w, v), UNCHANGED <<resAddr, resWidth>>
    PROVE  ResInv'
<1> DEFINE hits == Hits(list, a, w)
<1>1. /\ scList' = list \ hits
      /\ resValid' = [h \in Harts |-> flags[h] /\ h \notin hits]
      /\ broken' = [h \in Harts |-> broken[h] \/ Overlap(resAddr[h], resWidth[h], a, w)]
    BY DEF StoreTo
<1>2. hits = {h \in list : ScAccess(h, a, w)}
    BY DEF Hits
<1> HIDE DEF hits
<1>3. \A x, y, z, u : Overlap(x, y, z, u) \in BOOLEAN
    BY DEF Overlap
<1>4. ResType'
    BY <1>1, <1>3, Zenon DEF ResInv, ResType
<1>5. ScListExact'
    BY <1>1 DEF ResInv, ScListExact
<1>6. Rv32Intact'
  <2> SUFFICES ASSUME NEW h \in Harts, Arch[h] = "rv32", resValid'[h]
               PROVE  resWidth'[h] = 1 /\ ~broken'[h]
      BY DEF Rv32Intact
  <2>1. flags[h] /\ h \notin hits
      BY <1>1
  <2>2. resValid[h] /\ resWidth[h] = 1 /\ ~broken[h] /\ ~ScAccess(h, a, w)
      BY <1>2, <2>1 DEF ResInv, Rv32Intact
  <2>3. ~Overlap(resAddr[h], 1, a, w)
      BY <2>2 DEF ScAccess
  <2> QED
      BY <1>1, <2>2, <2>3
<1> QED
    BY <1>4, <1>5, <1>6 DEF ResInv

(* A load-reserved preserves it. *)
LEMMA ReservePreserves ==
    ASSUME ResInv, NEW h \in Harts, NEW a \in Addr, NEW w \in 1 .. 2, LoadReserved(h, a, w)
    PROVE  ResInv'
<1>1. Arch[h] = "rv32" => w = 1
    BY DEF LoadReserved, Widths
<1>2. /\ scList' = scList \cup {h} /\ resValid' = [resValid EXCEPT ![h] = TRUE]
      /\ resAddr' = [resAddr EXCEPT ![h] = a] /\ resWidth' = [resWidth EXCEPT ![h] = w]
      /\ broken' = [broken EXCEPT ![h] = FALSE]
    BY DEF LoadReserved, Reserve
<1>3. ResType'
    BY <1>2 DEF ResInv, ResType
<1>4. ScListExact'
    BY <1>2 DEF ResInv, ResType, ScListExact
<1>5. Rv32Intact'
    BY <1>1, <1>2 DEF ResInv, ResType, Rv32Intact
<1> QED
    BY <1>3, <1>4, <1>5 DEF ResInv

(* Dropping a reservation preserves it. *)
LEMMA UnreservePreserves ==
    ASSUME ResInv, NEW h \in Harts, Unreserve(h)
    PROVE  ResInv'
<1>1. /\ scList' = scList \ {h} /\ resValid' = [resValid EXCEPT ![h] = FALSE]
      /\ UNCHANGED <<resAddr, resWidth, broken>>
    BY DEF Unreserve
<1>2. ResType'
    BY <1>1 DEF ResInv, ResType
<1>3. ScListExact'
    BY <1>1 DEF ResInv, ResType, ScListExact
<1>4. Rv32Intact'
    BY <1>1 DEF ResInv, ResType, Rv32Intact
<1> QED
    BY <1>2, <1>3, <1>4 DEF ResInv

(* A conditional store preserves it: the storing hart's own entry goes first. *)
LEMMA ConditionalPreserves ==
    ASSUME ResInv, NEW h \in Harts, NEW a \in Addr, NEW w \in 1 .. 2, NEW v,
           StoreTo(scList \ {h}, [resValid EXCEPT ![h] = FALSE], a, w, v),
           UNCHANGED <<resAddr, resWidth>>
    PROVE  ResInv'
<1> DEFINE flags == [resValid EXCEPT ![h] = FALSE]
<1>1. flags \in [Harts -> BOOLEAN] /\ \A g \in Harts : flags[g] => resValid[g]
    BY DEF ResInv, ResType
<1>2. scList \ {h} = {g \in Harts : flags[g]}
    BY DEF ResInv, ResType, ScListExact
<1> HIDE DEF flags
<1> QED
  <2>1. StoreTo(scList \ {h}, flags, a, w, v)
      BY DEF flags
  <2> QED
      BY <1>1, <1>2, <2>1, StorePreserves

(* Every step of the machine, console included, preserves it. *)
LEMMA ResInvStep == ResInv /\ [MemNext]_memVars => ResInv'
<1> SUFFICES ASSUME ResInv, [MemNext]_memVars PROVE ResInv'
    OBVIOUS
<1>1. CASE UNCHANGED resVars
    BY <1>1 DEF ResInv, ResType, ScListExact, Rv32Intact, resVars
<1>2. ASSUME NEW a \in Addr, NEW w \in 1 .. 2, NEW v \in Val, Store(a, w, v) PROVE ResInv'
  <2>1. resValid \in [Harts -> BOOLEAN] /\ scList = {h \in Harts : resValid[h]}
      BY DEF ResInv, ResType, ScListExact
  <2>2. StoreTo(scList, resValid, a, w, v) /\ UNCHANGED <<resAddr, resWidth>>
      BY <1>2 DEF Store
  <2> QED
      BY <2>1, <2>2, StorePreserves
<1>3. ASSUME NEW h \in Harts, HartStep(h) PROVE ResInv'
  <2>1. ASSUME NEW a \in Addr, NEW w \in 1 .. 2, LoadReserved(h, a, w) PROVE ResInv'
      BY <2>1, ReservePreserves
  <2>2. ASSUME Unreserve(h) PROVE ResInv'
      BY <2>2, UnreservePreserves
  <2>3. ASSUME NEW a \in Addr, NEW w \in 1 .. 2, NEW v \in Val,
               RvScStore(h, a, w, v) \/ R4kScStore(h, a, w, v)
        PROVE  ResInv'
      BY <2>3, ConditionalPreserves DEF RvScStore, R4kScStore
  <2> QED
      BY <1>3, <2>1, <2>2, <2>3 DEF HartStep, LoadReservedFault, RvScFail, R4kScFail, Eret
<1>4. ASSUME NEW x, NEW f, Fetch(x, f) PROVE UNCHANGED resVars
    BY <1>4 DEF Fetch
<1>5. ASSUME NEW f, Wire(f) PROVE UNCHANGED resVars
    BY <1>5 DEF Wire
<1>6. ASSUME NEW f, NEW v, Fill(f, v) PROVE UNCHANGED resVars
    BY <1>6 DEF Fill
<1>7. CASE UNCHANGED memVars
    BY <1>1, <1>7 DEF memVars, resVars
<1> QED
    BY <1>1, <1>2, <1>3, <1>4, <1>5, <1>6, <1>7 DEF MemNext, Run

(* The machine starts without reservations. *)
LEMMA ResInvInit == MemInit => ResInv
<1> SUFFICES ASSUME MemInit PROVE ResInv
    OBVIOUS
<1>1. Harts # {} => 0 \in Addr
  <2>1. Frames * FrameWords \in Nat \ {0}
      BY MemConstants, Z3
  <2> QED
      BY <2>1, SMT DEF Addr
<1>2. ResType
    BY <1>1, SMT DEF MemInit, ResType
<1>3. ScListExact
    BY DEF MemInit, ScListExact
<1>4. Rv32Intact
    BY DEF MemInit, Rv32Intact
<1> QED
    BY <1>2, <1>3, <1>4 DEF ResInv

(* For any number of processors of any mixture of architectures, sc_list is
   exactly the set of processors with a live reservation. *)
THEOREM ScListStaysExact == MemSpec => []ScListExact
<1>1. MemSpec => []ResInv
    BY ResInvInit, ResInvStep, PTL DEF MemSpec
<1>2. ResInv => ScListExact
    BY DEF ResInv
<1> QED
    BY <1>1, <1>2, PTL

(* An RV32 SC.W that succeeds is atomic, whoever else stores: 64-bit stores of
   RV64 and MIPS processors and DMA included. *)
THEOREM Rv32StaysAtomic == MemSpec => []Rv32Atomic
<1>1. MemSpec => []ResInv
    BY ResInvInit, ResInvStep, PTL DEF MemSpec
<1>2. ResInv => Rv32Atomic
    BY DEF ResInv, Rv32Intact, Rv32Atomic
<1> QED
    BY <1>1, <1>2, PTL

(***************************************************************************)
(* The decoded-instruction cache                                           *)
(***************************************************************************)
(* Word i of frame f belongs to frame f. *)
LEMMA WordOfFrame ==
    ASSUME NEW f \in Nat, NEW i \in 0 .. FrameWords - 1
    PROVE  FrameOf((f * FrameWords) + i) = f
<1>1. FrameWords \in Nat \ {0}
    BY MemConstants
<1>2. f * FrameWords \in Nat
    BY <1>1, Z3
<1> QED
    BY <1>1, <1>2, Z3 DEF FrameOf

(* An aligned store stays inside one frame. *)
LEMMA StoreInFrame ==
    ASSUME NEW a \in Nat, NEW w \in 1 .. 2, a % w = 0, NEW x \in a .. a + w - 1
    PROVE  FrameOf(x) = FrameOf(a)
<1>1. FrameWords \in Nat \ {0} /\ FrameWords % 2 = 0
    BY MemConstants
<1>2. CASE x = a
    BY <1>2
<1>3. CASE w = 2 /\ x = a + 1
  <2> DEFINE q == a \div FrameWords
             r == a % FrameWords
             k == FrameWords \div 2
  <2>1. q \in Nat /\ r \in 0 .. FrameWords - 1 /\ a = q * FrameWords + r
      BY <1>1, Z3
  <2>2. k \in Nat /\ FrameWords = 2 * k
      BY <1>1, Z3
  <2> HIDE DEF q, r, k
  <2>3. q * FrameWords = 2 * (q * k) /\ q * k \in Nat
      BY <2>1, <2>2, Z3
  <2>4. a % 2 = 0
      BY <1>3
  <2>5. r + 1 \in 0 .. FrameWords - 1
      BY <2>1, <2>2, <2>3, <2>4, Z3
  <2>6. x = q * FrameWords + (r + 1)
      BY <1>3, <2>1, <2>3, Z3
  <2>7. FrameOf(x) = q
      BY <2>1, <2>5, <2>6, WordOfFrame
  <2> QED
      BY <2>7 DEF FrameOf, q
<1> QED
    BY <1>2, <1>3, SMT

(* Word i of a frame is a word of memory. *)
LEMMA WordInMemory ==
    ASSUME NEW f \in AllFrames, NEW i \in 0 .. FrameWords - 1
    PROVE  (f * FrameWords) + i \in Addr
<1>1. FrameWords \in Nat \ {0} /\ Frames \in Nat /\ f \in Nat /\ f <= Frames - 1
    BY MemConstants, SMT DEF AllFrames
<1>2. PICK d \in Nat : Frames = f + 1 + d
  <2> Frames - f - 1 \in Nat
      BY <1>1, SMT
  <2> QED
      BY <1>1, SMT
<1>3. Frames * FrameWords = f * FrameWords + FrameWords + d * FrameWords
    BY <1>1, <1>2, Z3
<1>4. f * FrameWords \in Nat /\ d * FrameWords \in Nat
    BY <1>1, <1>2, Z3
<1>5. ASSUME NEW p \in Nat, NEW q \in Nat, NEW n, n = p + FrameWords + q
      PROVE  p + i \in 0 .. n - 1
    BY <1>1, <1>5, SMT
<1> QED
    BY <1>3, <1>4, <1>5 DEF Addr

(* If memory changes in one frame only, the contents of the others stay. *)
LEMMA OtherFrames ==
    ASSUME NEW m, NEW n, NEW g, NEW f \in AllFrames, f # g,
           m = [x \in Addr |-> IF FrameOf(x) = g THEN m[x] ELSE n[x]]
    PROVE  Content(m, f) = Content(n, f)
<1> SUFFICES ASSUME NEW i \in 0 .. FrameWords - 1
             PROVE  m[(f * FrameWords) + i] = n[(f * FrameWords) + i]
    BY Zenon DEF Content
<1> DEFINE x == (f * FrameWords) + i
<1>1. FrameOf(x) = f
    BY WordOfFrame, MemConstants, SMT DEF AllFrames
<1>2. x \in Addr
    BY WordInMemory
<1> HIDE DEF x
<1>3. m[x] = n[x]
    BY <1>1, <1>2
<1> QED
    BY <1>3 DEF x

(* The fields the cache invariant reads. *)
CacheType == cache \in [Fetchers -> [AllFrames -> {NotCached} \cup [0 .. FrameWords - 1 -> Val]]]

(* A step that changes memory only inside frames it invalidates, and leaves
   the caches alone, keeps them fresh. *)
LEMMA InvalidatingPreserves ==
    ASSUME FetchFresh, NEW g, valid' = valid \ {g}, cache' = cache,
           mem' = [x \in Addr |-> IF FrameOf(x) = g THEN mem'[x] ELSE mem[x]]
    PROVE  FetchFresh'
<1> SUFFICES ASSUME NEW x \in Fetchers, NEW f \in AllFrames, f \in valid', cache'[x][f] # NotCached
             PROVE  cache'[x][f] = Content(mem', f)
    BY DEF FetchFresh
<1>1. f # g /\ cache[x][f] = Content(mem, f)
    BY DEF FetchFresh
<1>2. Content(mem', f) = Content(mem, f)
    BY <1>1, OtherFrames, SMT
<1> QED
    BY <1>1, <1>2

(* With one architecture of processors, and memory written only through
   physmem_write, an instruction is always decoded from what memory holds. *)
THEOREM FetchStaysFresh ==
    ASSUME \A x, y \in Fetchers : x = y
    PROVE  RunSpec => []FetchFresh
<1> DEFINE Inv == FetchFresh /\ CacheType /\ mem \in [Addr -> Val]
<1>1. MemInit => Inv
    BY MemConstants, SMT DEF MemInit, FetchFresh, CacheType
<1>2. ASSUME Inv, [Run]_memVars PROVE Inv'
  <2>1. CASE UNCHANGED <<mem, valid, cache>>
      BY <1>2, <2>1 DEF FetchFresh, CacheType
  <2>2. ASSUME NEW list, NEW flags, NEW a \in Addr, NEW w \in 1 .. 2, NEW v \in Val,
               a % w = 0, StoreTo(list, flags, a, w, v), cache' = cache
        PROVE  Inv'
    <3>1. /\ valid' = valid \ {FrameOf(a)}
          /\ mem' = [x \in Addr |-> IF x \in a .. a + w - 1 THEN v ELSE mem[x]]
        BY <2>2 DEF StoreTo
    <3>2. \A x \in Addr : x \in a .. a + w - 1 => FrameOf(x) = FrameOf(a)
        BY <2>2, StoreInFrame, SMT DEF Addr
    <3>3. mem' = [x \in Addr |-> IF FrameOf(x) = FrameOf(a) THEN mem'[x] ELSE mem[x]]
        BY <1>2, <3>1, <3>2
    <3>4. FetchFresh'
        BY <1>2, <2>2, <3>1, <3>3, InvalidatingPreserves
    <3> QED
        BY <1>2, <2>2, <3>1, <3>4 DEF CacheType
  <2>3. ASSUME NEW a \in Addr, NEW w \in 1 .. 2, NEW v \in Val, Store(a, w, v) PROVE Inv'
      BY <2>2, <2>3 DEF Store, Aligned
  <2>4. ASSUME NEW h \in Harts, HartStep(h) PROVE Inv'
    <3>1. ASSUME NEW a \in Addr, NEW w \in 1 .. 2, NEW v \in Val,
                 RvScStore(h, a, w, v) \/ R4kScStore(h, a, w, v)
          PROVE  Inv'
        BY <2>2, <3>1 DEF RvScStore, R4kScStore, Aligned
    <3>2. ASSUME NEW a, NEW w, LoadReserved(h, a, w) \/ Unreserve(h)
          PROVE  UNCHANGED <<mem, valid, cache>>
        BY <3>2 DEF LoadReserved, Reserve, Unreserve
    <3> QED
        BY <2>1, <2>4, <3>1, <3>2 DEF HartStep, LoadReservedFault, RvScFail, R4kScFail, Eret
  <2>5. ASSUME NEW x \in Fetchers, NEW f \in AllFrames, Fetch(x, f) PROVE Inv'
    <3>1. mem' = mem
        BY <2>5 DEF Fetch
    <3>2. CASE UNCHANGED <<cache, valid>>
        BY <2>1, <3>1, <3>2
    <3>3. CASE cache' = [cache EXCEPT ![x][f] = Content(mem, f)] /\ valid' = valid \cup {f}
      <4>1. Content(mem, f) \in [0 .. FrameWords - 1 -> Val]
        <5> SUFFICES ASSUME NEW i \in 0 .. FrameWords - 1
                     PROVE  (f * FrameWords) + i \in Addr
            BY <1>2, Zenon DEF Content
        <5> QED
            BY WordInMemory
      <4>2. CacheType'
          BY <1>2, <3>3, <4>1 DEF CacheType
      <4>3. FetchFresh'
        <5> SUFFICES ASSUME NEW y \in Fetchers, NEW g \in AllFrames, g \in valid',
                            cache'[y][g] # NotCached
                     PROVE  cache'[y][g] = Content(mem', g)
            BY DEF FetchFresh
        <5>1. y = x
            OBVIOUS
        <5>2. CASE g = f
            BY <1>2, <3>1, <3>3, <5>1, <5>2 DEF CacheType
        <5>3. CASE g # f
          <6>1. cache'[y][g] = cache[y][g] /\ g \in valid
              BY <1>2, <3>3, <5>1, <5>3 DEF CacheType
          <6> QED
              BY <1>2, <3>1, <6>1 DEF FetchFresh
        <5> QED
            BY <5>2, <5>3
      <4> QED
          BY <1>2, <3>1, <4>2, <4>3
    <3> QED
        BY <2>5, <3>2, <3>3 DEF Fetch
  <2>6. ASSUME NEW f \in AllFrames, Wire(f) PROVE Inv'
    <3>1. /\ valid' = valid \ {f} /\ cache' = cache
          /\ mem' = [a \in Addr |-> IF FrameOf(a) = f THEN Zero ELSE mem[a]]
        BY <2>6 DEF Wire
    <3>2. mem' = [a \in Addr |-> IF FrameOf(a) = f THEN mem'[a] ELSE mem[a]]
        BY <3>1
    <3>3. FetchFresh'
        BY <1>2, <3>1, <3>2, InvalidatingPreserves
    <3> QED
        BY <1>2, <3>1, <3>3, MemConstants DEF CacheType
  <2>7. CASE UNCHANGED memVars
      BY <2>1, <2>7 DEF memVars
  <2> QED
      BY <1>2, <2>3, <2>4, <2>5, <2>6, <2>7 DEF Run
<1> QED
    BY <1>1, <1>2, PTL DEF RunSpec

(***************************************************************************)
(* Machine: the main loop, for any number of instruction addresses,        *)
(* breakpoints and steps.                                                  *)
(***************************************************************************)
\* A connection exists only while remote debugging is on, a session only while connected.
ConnIsGdb ==
  /\ remote_gdb_conn => remote_gdb
  /\ at = "session" => remote_gdb_conn

\* GDB is told of a stop only inside its session or on the way to it.
HeldWaits ==
  held => \/ at = "exited"
          \/ remote_gdb_conn /\ at = "session"
          \/ remote_gdb_conn /\ remote_gdb_listen /\ at \in {"loop", "startup", "listen"}

\* A stop that is due is on its way to the prompt or to the session.
DueWaits ==
  due => \/ at = "exited"
         \/ machine_interactive /\ at \notin {"step", "prompt", "session"}
         \/ remote_gdb_conn /\ remote_gdb_listen /\ at \in {"loop", "startup", "listen"}

\* The step counter is what is left of the steps asked for, one more between a
\* machine step and the stepping check.
StepsCounted ==
  asked > 0 =>
    /\ ran <= asked
    /\ \/ at = "loop" /\ ~machine_halt
       \/ at \in {"startup", "listen", "session", "dap", "dapread", "stepping"}
       => stepping = asked - ran + 1
    /\ at \in {"interact", "prompt", "step"} => stepping = asked - ran
    /\ at \in {"prompt", "step"} => ran < asked
    /\ at = "interact" /\ ran = asked => machine_interactive

\* An unanswered Ctrl-C keeps the machine interactive.
BreakWaits ==
  /\ pressed # "late"
  /\ pressed # "no" => machine_interactive
  /\ pressed = "ran" => at # "step"

IInv ==
  /\ TypeOK
  /\ DebuggerPointsNeedSession
  /\ ConnIsGdb
  /\ HeldWaits
  /\ DueWaits
  /\ StepsCounted
  /\ BreakWaits

USE MachineConstants
USE DEF control, gdb, dap, points, history, vars, Kinds, NoBps, Places, DapStates

-----------------------------------------------------------------------------
\* The stepping check takes the one step off that the counter is ahead.
LEMMA SteppingKeeps == ASSUME IInv, Stepping PROVE IInv'
<1>. USE DEF IInv, TypeOK, FlagsOK, CountersOK, PointsOK
<1>1. TypeOK'
  BY SMT DEF Stepping
<1>2. DebuggerPointsNeedSession' /\ ConnIsGdb' /\ HeldWaits' /\ DueWaits' /\ BreakWaits'
  BY DEF Stepping, DebuggerPointsNeedSession, ConnIsGdb, HeldWaits, DueWaits, BreakWaits
<1>3. StepsCounted'
  <2>1. at = "stepping" /\ at' = "interact" /\ asked' = asked /\ ran' = ran
    BY DEF Stepping
  <2>2. ASSUME asked > 0
        PROVE  /\ ran <= asked
               /\ stepping' = asked - ran
               /\ ran = asked => machine_interactive'
    <3>1. ran <= asked /\ stepping = asked - ran + 1
      BY <2>1, <2>2 DEF StepsCounted
    <3>2. stepping' = asked - ran
      BY <3>1, <2>2, SMT DEF Stepping
    <3>3. ran = asked => stepping = 1
      BY <3>1, SMT
    <3>. QED  BY <3>1, <3>2, <3>3 DEF Stepping
  <2>. QED  BY <2>1, <2>2 DEF StepsCounted
<1>. QED  BY <1>1, <1>2, <1>3

\* Entering the prompt ends the command that was obeyed.
LEMMA InteractKeeps == ASSUME IInv, Interact PROVE IInv'
<1>. USE DEF IInv, TypeOK, FlagsOK, CountersOK, PointsOK, Interact
<1>0. PointsOK'
  OBVIOUS
<1>1. FlagsOK'
  OBVIOUS
<1>2. CountersOK'
  BY SMT
<1>3. DebuggerPointsNeedSession' /\ ConnIsGdb' /\ HeldWaits' /\ DueWaits' /\ BreakWaits'
  BY DEF DebuggerPointsNeedSession, ConnIsGdb, HeldWaits, DueWaits, BreakWaits
<1>4. StepsCounted'
  BY SMT DEF StepsCounted
<1>. QED  BY <1>0, <1>1, <1>2, <1>3, <1>4

\* A continue at the prompt runs what an interrupted step command left.
LEMMA CmdContinueKeeps == ASSUME IInv, CmdContinue PROVE IInv'
<1>. USE DEF IInv, TypeOK, FlagsOK, CountersOK, PointsOK, CmdContinue, AtPrompt
<1>0. PointsOK'
  OBVIOUS
<1>1. FlagsOK'
  OBVIOUS
<1>2. CountersOK'
  OBVIOUS
<1>3. DebuggerPointsNeedSession' /\ ConnIsGdb' /\ HeldWaits' /\ DueWaits' /\ BreakWaits'
  BY DEF DebuggerPointsNeedSession, ConnIsGdb, HeldWaits, DueWaits, BreakWaits
<1>4. StepsCounted'
  BY DEF StepsCounted
<1>. QED  BY <1>0, <1>1, <1>2, <1>3, <1>4

\* quit leaves the prompt for the end of the loop.
LEMMA CmdQuitKeeps == ASSUME IInv, CmdQuit PROVE IInv'
<1>. USE DEF IInv, TypeOK, FlagsOK, CountersOK, PointsOK, CmdQuit, AtPrompt
<1>0. PointsOK'
  OBVIOUS
<1>1. FlagsOK'
  OBVIOUS
<1>2. CountersOK'
  OBVIOUS
<1>3. DebuggerPointsNeedSession' /\ ConnIsGdb' /\ HeldWaits' /\ DueWaits' /\ BreakWaits'
  BY DEF DebuggerPointsNeedSession, ConnIsGdb, HeldWaits, DueWaits, BreakWaits
<1>4. StepsCounted'
  BY DEF StepsCounted
<1>. QED  BY <1>0, <1>1, <1>2, <1>3, <1>4

\* step n sets the counter to the number of steps asked for.
LEMMA CmdStepKeeps == ASSUME IInv, NEW n \in 0 .. MaxStep, CmdStep(n) PROVE IInv'
<1>. USE DEF IInv, TypeOK, FlagsOK, CountersOK, PointsOK, CmdStep, AtPrompt
<1>0. PointsOK'
  OBVIOUS
<1>1. FlagsOK'
  OBVIOUS
<1>2. CountersOK'
  OBVIOUS
<1>3. DebuggerPointsNeedSession' /\ ConnIsGdb' /\ HeldWaits' /\ DueWaits' /\ BreakWaits'
  BY DEF DebuggerPointsNeedSession, ConnIsGdb, HeldWaits, DueWaits, BreakWaits
<1>4. StepsCounted'
  BY SMT DEF StepsCounted
<1>. QED  BY <1>0, <1>1, <1>2, <1>3, <1>4

\* Ctrl-C makes the machine interactive wherever it comes, or ends the simulator.
LEMMA UserBreakKeeps == ASSUME IInv, UserBreak PROVE IInv'
<1>. USE DEF IInv, TypeOK, FlagsOK, CountersOK, PointsOK, UserBreak
<1>1. FlagsOK'
  <2>1. machine_break' \in BOOLEAN /\ machine_interactive' \in BOOLEAN
    OBVIOUS
  <2>. QED  BY <2>1
<1>2. CountersOK'
  OBVIOUS
<1>3. PointsOK'
  OBVIOUS
<1>4. DebuggerPointsNeedSession' /\ ConnIsGdb' /\ HeldWaits' /\ DueWaits' /\ BreakWaits'
  BY DEF DebuggerPointsNeedSession, ConnIsGdb, HeldWaits, DueWaits, BreakWaits
<1>5. StepsCounted'
  BY DEF StepsCounted
<1>. QED  BY <1>1, <1>2, <1>3, <1>4, <1>5

\* A session serves the stop that is due.
LEMMA OpenSessionKeeps == ASSUME IInv, OpenSession PROVE IInv'
<1>. USE DEF IInv, TypeOK, FlagsOK, CountersOK, PointsOK, OpenSession, Listening
<1>0. PointsOK'
  OBVIOUS
<1>1. FlagsOK'
  OBVIOUS
<1>2. CountersOK'
  OBVIOUS
<1>3. DebuggerPointsNeedSession' /\ ConnIsGdb' /\ HeldWaits' /\ DueWaits' /\ BreakWaits'
  BY DEF DebuggerPointsNeedSession, ConnIsGdb, HeldWaits, DueWaits, BreakWaits
<1>4. StepsCounted'
  BY DEF StepsCounted
<1>. QED  BY <1>0, <1>1, <1>2, <1>3, <1>4

\* A debugger that resumes holds the machine no longer.
LEMMA GdbResumeKeeps == ASSUME IInv, NEW a \in Addrs, NEW step \in BOOLEAN, GdbResume(a, step) PROVE IInv'
<1>. USE DEF IInv, TypeOK, FlagsOK, CountersOK, PointsOK, GdbResume
<1>0. PointsOK'
  OBVIOUS
<1>1. FlagsOK'
  OBVIOUS
<1>2. CountersOK'
  OBVIOUS
<1>3. DebuggerPointsNeedSession' /\ ConnIsGdb' /\ HeldWaits' /\ DueWaits' /\ BreakWaits'
  BY DEF DebuggerPointsNeedSession, ConnIsGdb, HeldWaits, DueWaits, BreakWaits
<1>4. StepsCounted'
  BY DEF StepsCounted
<1>. QED  BY <1>0, <1>1, <1>2, <1>3, <1>4

\* The end of a session leaves no breakpoint of the debugger behind.
LEMMA GdbDoneKeeps == ASSUME IInv, GdbDone PROVE IInv'
<1>. USE DEF IInv, TypeOK, FlagsOK, CountersOK, PointsOK, GdbDone
<1>1. FlagsOK'
  OBVIOUS
<1>2. CountersOK'
  OBVIOUS
<1>3. PointsOK'
  BY SMT
<1>4. DebuggerPointsNeedSession' /\ ConnIsGdb' /\ HeldWaits' /\ DueWaits' /\ BreakWaits'
  BY SMT DEF DebuggerPointsNeedSession, ConnIsGdb, HeldWaits, DueWaits, BreakWaits
<1>5. StepsCounted'
  BY DEF StepsCounted
<1>. QED  BY <1>1, <1>2, <1>3, <1>4, <1>5

\* What becomes of the code breakpoints when the count of one kind is set.
LEMMA SetBpsIs ==
  ASSUME PointsOK, NEW a \in Addrs, NEW k \in Kinds, NEW n \in 0 .. MaxBps, SetBps(a, k, n)
  PROVE  /\ bps' \in [Addrs -> [Kinds -> 0 .. MaxBps]]
         /\ \A b \in Addrs, j \in Kinds :
              bps'[b][j] = IF b = a /\ j = k THEN n ELSE bps[b][j]
<1>. DEFINE row == [bps[a] EXCEPT ![k] = n]
<1>1. bps \in [Addrs -> [Kinds -> 0 .. MaxBps]] /\ bps' = [bps EXCEPT ![a] = row]
  BY DEF PointsOK, SetBps
<1>2. row \in [Kinds -> 0 .. MaxBps]
  BY <1>1
<1>3. \A j \in Kinds : row[j] = IF j = k THEN n ELSE bps[a][j]
  BY <1>1
<1>. HIDE DEF row
<1>. QED  BY <1>1, <1>2, <1>3

\* The user's commands on code breakpoints add none of the debugger's.
LEMMA CmdCodeKeeps == ASSUME IInv, NEW a \in Addrs, CmdCode(a) PROVE IInv'
<1>. USE DEF IInv, TypeOK, FlagsOK, CountersOK, PointsOK
<1>1. PICK k \in Kinds, n \in 0 .. MaxBps :
         SetBps(a, k, n) /\ (k = "debugger" => bps[a][k] > 0)
  BY SMT DEF CmdCode, PresentKinds
<1>2. FlagsOK' /\ CountersOK'
  BY SMT DEF CmdCode
<1>3. PointsOK'
  BY <1>1, SetBpsIs DEF CmdCode
<1>4. DebuggerPointsNeedSession'
  BY <1>1, SetBpsIs, SMT DEF CmdCode, DebuggerPointsNeedSession
<1>5. ConnIsGdb' /\ HeldWaits' /\ DueWaits' /\ BreakWaits' /\ StepsCounted'
  BY DEF CmdCode, AtPrompt, ConnIsGdb, HeldWaits, DueWaits, BreakWaits, StepsCounted
<1>. QED  BY <1>2, <1>3, <1>4, <1>5

-----------------------------------------------------------------------------
\* The loop's own steps keep the invariant.
LEMMA LoopKeeps == ASSUME IInv, Loop PROVE IInv'
<1>. USE DEF IInv, TypeOK, FlagsOK, CountersOK, PointsOK, DebuggerPointsNeedSession,
             ConnIsGdb, HeldWaits, DueWaits, StepsCounted, BreakWaits
<1>1. CASE Exit
  BY <1>1, ZenonT(60) DEF Exit
<1>2. CASE Check
  BY <1>2, SMT DEF Check, Hit, PresentKinds
<1>3. CASE SkipStartup
  BY <1>3, SMT DEF SkipStartup
<1>4. CASE OpenSession
  BY <1>4, OpenSessionKeeps
<1>5. CASE SkipSession
  BY <1>5, SMT DEF SkipSession, Listening
<1>6. CASE SkipDapStartup
  BY <1>6, SMT DEF SkipDapStartup, DapOnward
<1>7. CASE SkipInteract
  BY <1>7, SMT DEF SkipInteract
<1>8. CASE LeavePrompt
  BY <1>8, SMT DEF LeavePrompt
<1>9. CASE SkipMachineStep
  BY <1>9, SMT DEF SkipMachineStep
<1>10. ASSUME NEW a \in Addrs, NEW kinds \in SUBSET PresentKinds(physmem_breakpoints),
              NEW wish \in Wishes, MachineStep(a, kinds, wish)
       PROVE  IInv'
  BY <1>10, SMT DEF MachineStep, Hit, PresentKinds, Wishes
<1>. HIDE DEF IInv
<1>. QED
  BY <1>1, <1>2, <1>3, <1>4, <1>5, <1>6, <1>7, <1>8, <1>9, <1>10,
     SteppingKeeps, InteractKeeps DEF Loop

\* So do the steps of GDB and DAP.
LEMMA DebuggerKeeps == ASSUME IInv, Debugger PROVE IInv'
<1>. USE DEF IInv, TypeOK, FlagsOK, CountersOK, PointsOK, DebuggerPointsNeedSession,
             ConnIsGdb, HeldWaits, DueWaits, StepsCounted, BreakWaits
<1>1. ASSUME NEW opened \in BOOLEAN, GdbStartup(opened) PROVE IInv'
  BY <1>1, SMT DEF GdbStartup
<1>2. ASSUME NEW a \in Addrs, NEW step \in BOOLEAN, GdbResume(a, step) PROVE IInv'
  BY <1>2, GdbResumeKeeps
<1>3. ASSUME NEW a \in Addrs, NEW count \in 0 .. 1, GdbCode(a, count) PROVE IInv'
  BY <1>3, SMT DEF GdbCode, SetBps
<1>4. ASSUME NEW a \in Addrs, GdbWriteRegisters(a) PROVE IInv'
  BY <1>4, SMT DEF GdbWriteRegisters
<1>5. ASSUME NEW a \in Addrs, DapBreakpoint(a) PROVE IInv'
  BY <1>5, SMT DEF DapBreakpoint, SetBps
<1>6. CASE GdbMemory
  BY <1>6, SMT DEF GdbMemory, AddPhysmem, RemovePhysmem, PresentKinds
<1>7. CASE DapStartup
  BY <1>7, SMT DEF DapStartup, DapOnward
<1>8. CASE DapContinue
  BY <1>8, SMT DEF DapContinue
<1>9. CASE DapClose
  BY <1>9, SMT DEF DapClose
<1>10. CASE DapDone
  BY <1>10, SMT DEF DapDone
<1>. HIDE DEF IInv
<1>. QED
  BY <1>1, <1>2, <1>3, <1>4, <1>5, <1>6, <1>7, <1>8, <1>9, <1>10, GdbDoneKeeps
     DEF Debugger

\* And the user's.
LEMMA UserKeeps == ASSUME IInv, User PROVE IInv'
<1>. USE DEF IInv, TypeOK, FlagsOK, CountersOK, PointsOK, DebuggerPointsNeedSession,
             ConnIsGdb, HeldWaits, DueWaits, StepsCounted, BreakWaits
<1>1. CASE CmdQuit
  BY <1>1, CmdQuitKeeps
<1>2. CASE CmdMemory
  BY <1>2, SMT DEF CmdMemory, AtPrompt, AddPhysmem, RemovePhysmem, PresentKinds
<1>3. CASE CmdAddCpu
  BY <1>3, ZenonT(30) DEF CmdAddCpu, AtPrompt
<1>4. CASE EndOfInput
  BY <1>4, SMT DEF EndOfInput, AtPrompt
<1>5. ASSUME NEW a \in Addrs, CmdGoto(a) PROVE IInv'
  BY <1>5, ZenonT(60) DEF CmdGoto, AtPrompt
<1>. HIDE DEF IInv
<1>. QED
  BY <1>1, <1>2, <1>3, <1>4, <1>5, CmdStepKeeps, CmdCodeKeeps, CmdContinueKeeps,
     UserBreakKeeps DEF User

\* The inductive invariant holds in every reachable state.
LEMMA IInvHolds == Spec => []IInv
<1>1. Init => IInv
  <2>. SUFFICES ASSUME Init PROVE IInv
    OBVIOUS
  <2>1. FlagsOK
    BY DEF Init, FlagsOK
  <2>2. CountersOK
    BY SMT DEF Init, CountersOK
  <2>3. NoBps \in [Kinds -> 0 .. MaxBps] /\ [NoBps EXCEPT !["simulator"] = 1] \in [Kinds -> 0 .. MaxBps]
    BY SMT
  <2>4. PointsOK
    BY <2>3, SMT DEF Init, PointsOK
  <2>5. DebuggerPointsNeedSession
    BY SMT DEF Init, DebuggerPointsNeedSession
  <2>6. ConnIsGdb /\ HeldWaits /\ DueWaits /\ StepsCounted /\ BreakWaits
    BY SMT DEF Init, ConnIsGdb, HeldWaits, DueWaits, StepsCounted, BreakWaits
  <2>. QED  BY <2>1, <2>2, <2>4, <2>5, <2>6 DEF IInv, TypeOK
<1>2. IInv /\ [Next]_vars => IInv'
  <2>1. ASSUME IInv, UNCHANGED vars PROVE IInv'
    BY <2>1, SMT DEF IInv, TypeOK, FlagsOK, CountersOK, PointsOK, DebuggerPointsNeedSession,
                ConnIsGdb, HeldWaits, DueWaits, StepsCounted, BreakWaits
  <2>. QED  BY <2>1, LoopKeeps, DebuggerKeeps, UserKeeps DEF Next
<1>. QED  BY <1>1, <1>2, PTL DEF Spec

-----------------------------------------------------------------------------
\* However a session ends, no breakpoint of the debugger outlives it.
THEOREM SessionOwnsPoints == Spec => []DebuggerPointsNeedSession
<1>1. IInv => DebuggerPointsNeedSession
  BY DEF IInv
<1>. QED  BY <1>1, IInvHolds, PTL

\* Every breakpoint reached stops the machine before its next step, and no machine
\* step runs between a stop GDB is told of and its next command.
THEOREM EveryStopHolds == Spec => []StopsHold
<1>1. IInv => StopsHold
  BY DEF IInv, DueWaits, HeldWaits, StopsHold
<1>. QED  BY <1>1, IInvHolds, PTL

\* step n runs n machine steps, for every n.
THEOREM StepsAreExact == Spec => []StepExact
<1>1. IInv => StepExact
  BY SMT DEF IInv, TypeOK, CountersOK, StepsCounted, StepExact
<1>. QED  BY <1>1, IInvHolds, PTL

\* At most one machine step runs between a Ctrl-C and its answer.
THEOREM CtrlCIsAnswered == Spec => []BreakAnswered
<1>1. IInv => BreakAnswered
  BY DEF IInv, BreakWaits, BreakAnswered
<1>. QED  BY <1>1, IInvHolds, PTL

(***************************************************************************)
(* Sh2eDmac, for any set of channels, request sources, programs and        *)
(* counter width.  The functions of dsh2edmac.c are taken in the order in  *)
(* which they call each other; each lemma says what one of them leaves of  *)
(* the record it is given.                                                 *)
(***************************************************************************)
Channel == [tcr : 0 .. CountMod - 1, rs : Resources, size : Sizes, tm : BOOLEAN,
            de : BOOLEAN, te : BOOLEAN]
Dmac == [ch : [Channels -> Channel], dme : BOOLEAN, nmif : BOOLEAN, ae : BOOLEAN,
         state : {"INITIAL", "WAITING", "TRANSFERRING", "DIED"},
         picked : Channels \cup {NoChannel}, pending : SUBSET Requests]

(* NoChannel is not the number of a channel. *)
LEMMA NoChannelIsNone == NoChannel \notin Channels
BY DmacConstants, SMT DEF NoChannel

(* The count before the present one, and the one before that: both differ from it. *)
LEMMA CountDown ==
    ASSUME NEW n \in 0 .. CountMod - 1
    PROVE  /\ (n + CountMod - 1) % CountMod = IF n = 0 THEN CountMod - 1 ELSE n - 1
<1> USE DmacConstants
<1>1. CASE n = 0
    BY <1>1, SMT
<1>2. CASE n # 0
  <2>1. n + CountMod - 1 = (n - 1) + CountMod
      BY <1>2, SMT
  <2>2. n - 1 \in 0 .. CountMod - 1
      BY <1>2, SMT
  <2> QED
    BY <1>2, <2>1, <2>2, SMT
<1> QED
    BY <1>1, <1>2

Less(n) == IF n = 0 THEN CountMod - 1 ELSE n - 1

(* What a transfer of the picked channel c leaves as it was. *)
Kept(d, e, c) ==
    /\ e \in Dmac /\ e.picked = d.picked /\ e.pending = d.pending
    /\ \A q \in Channels \ {c} : e.ch[q] = d.ch[q]
    /\ e.ch[c].rs = d.ch[c].rs /\ e.ch[c].tm = d.ch[c].tm /\ e.ch[c].de = d.ch[c].de
    /\ e.ch[c].size = d.ch[c].size

(* perform_transfer counts down and leaves TE and the state alone, if the size
   of the transfer is one. *)
LEMMA PerformKeeps ==
    ASSUME NEW d \in Dmac, d.picked \in Channels, d.ch[d.picked].size # "invalid", NEW m \in BOOLEAN
    PROVE  LET p == Perform(d, m)
           IN  /\ Kept(d, p, d.picked) /\ p.state = d.state
               /\ p.ch[d.picked].tcr = Less(d.ch[d.picked].tcr)
               /\ p.ch[d.picked].te = d.ch[d.picked].te
<1> DEFINE c == d.picked
           n == (d.ch[c].tcr + CountMod - 1) % CountMod
           a == d.ae \/ (m /\ d.ch[c].size = "wide")
<1>1. n = Less(d.ch[c].tcr) /\ n \in 0 .. CountMod - 1
  <2>1. d.ch[c] \in Channel
      BY DEF Dmac
  <2>2. d.ch[c].tcr \in 0 .. CountMod - 1
      BY <2>1 DEF Channel
  <2>3. n = Less(d.ch[c].tcr)
      BY <2>2, CountDown DEF Less
  <2> HIDE DEF n
  <2> QED
    BY <2>2, <2>3, DmacConstants, SMT DEF Less
<1>2. a \in BOOLEAN
    BY DEF Dmac, Channel
<1>3. Perform(d, m) = [d EXCEPT !.ae = a, !.ch[c].tcr = n]
    BY DEF Perform, Picked
<1> HIDE DEF n, a
<1> DEFINE x == [d.ch[c] EXCEPT !.tcr = n]
           h == [d.ch EXCEPT ![c] = x]
<1>4. d.ch \in [Channels -> Channel] /\ d.ch[c] \in Channel
    BY DEF Dmac
<1>5. /\ x \in Channel /\ x.tcr = n /\ x.te = d.ch[c].te
      /\ x.rs = d.ch[c].rs /\ x.tm = d.ch[c].tm /\ x.de = d.ch[c].de
      /\ x.size = d.ch[c].size
    BY <1>1, <1>4 DEF Channel
<1> HIDE DEF x
<1>6. /\ h \in [Channels -> Channel] /\ h[c] = x
      /\ \A q \in Channels \ {c} : h[q] = d.ch[q]
    BY <1>4, <1>5
<1>7. Perform(d, m) = [d EXCEPT !.ae = a, !.ch = h]
    BY <1>3, <1>4 DEF x, Dmac
<1> HIDE DEF h
<1>8. /\ Perform(d, m) \in Dmac /\ Perform(d, m).ch = h
      /\ Perform(d, m).picked = d.picked /\ Perform(d, m).state = d.state
      /\ Perform(d, m).pending = d.pending
    BY <1>2, <1>6, <1>7 DEF Dmac
<1> QED
    BY <1>1, <1>5, <1>6, <1>8 DEF Kept

(* transfer_and_update_regs: TE changes only together with the move to the
   initial state, and only a burst stays in TRANSFERRING. *)
LEMMA TransferKeeps ==
    ASSUME NEW d \in Dmac, d.picked \in Channels, d.state # "DIED",
           d.ch[d.picked].size # "invalid", NEW m \in BOOLEAN
    PROVE  LET t == Transfer(d, m)
               c == d.picked
           IN  /\ Kept(d, t, c)
               /\ t.ch[c].tcr = Less(d.ch[c].tcr)
               /\ t.state \in {"INITIAL", "WAITING", "TRANSFERRING"}
               /\ t.state # "INITIAL" => t.ch[c].te = d.ch[c].te
               /\ t.state = "TRANSFERRING" => d.ch[c].tm
<1> DEFINE c == d.picked
           p == Perform(d, m)
<1>1. /\ Kept(d, p, c) /\ p.state = d.state
      /\ p.ch[c].tcr = Less(d.ch[c].tcr) /\ p.ch[c].te = d.ch[c].te
      /\ p.state # "DIED"
    BY PerformKeeps
<1> HIDE DEF p
<1>2. p \in Dmac /\ p.picked = c /\ p.ch[c] \in Channel
    BY <1>1 DEF Kept, Dmac
<1>3. CASE CheckAbort(p)
  <2>1. Transfer(d, m) = [p EXCEPT !.state = "INITIAL"]
      BY <1>1, <1>3 DEF Transfer, Abort, p
  <2>2. /\ Transfer(d, m) \in Dmac /\ Transfer(d, m).ch = p.ch
        /\ Transfer(d, m).picked = p.picked /\ Transfer(d, m).pending = p.pending
        /\ Transfer(d, m).state = "INITIAL"
      BY <1>2, <2>1 DEF Dmac
  <2> QED
    BY <1>1, <1>2, <2>2 DEF Kept
<1>4. CASE ~CheckAbort(p) /\ Picked(p).tcr = 0
  <2> DEFINE x == [p.ch[c] EXCEPT !.te = TRUE]
             h == [p.ch EXCEPT ![c] = x]
  <2>1. Transfer(d, m) = [p EXCEPT !.ch = h, !.state = "INITIAL"]
    <3>1. Transfer(d, m) = End(p)
        BY <1>1, <1>4 DEF Transfer, p
    <3> QED
      BY <1>2, <3>1 DEF End, Dmac
  <2>2. /\ x \in Channel /\ x.tcr = p.ch[c].tcr
        /\ x.rs = p.ch[c].rs /\ x.tm = p.ch[c].tm /\ x.de = p.ch[c].de
        /\ x.size = p.ch[c].size
      BY <1>2 DEF Channel
  <2> HIDE DEF x
  <2>3. /\ h \in [Channels -> Channel] /\ h[c] = x
        /\ \A q \in Channels \ {c} : h[q] = p.ch[q]
      BY <1>2, <2>2 DEF Dmac
  <2> HIDE DEF h
  <2>4. /\ Transfer(d, m) \in Dmac /\ Transfer(d, m).ch = h
        /\ Transfer(d, m).picked = p.picked /\ Transfer(d, m).state = "INITIAL"
        /\ Transfer(d, m).pending = p.pending
      BY <1>2, <2>1, <2>3 DEF Dmac
  <2> QED
    BY <1>1, <1>2, <2>2, <2>3, <2>4 DEF Kept
<1>5. CASE ~CheckAbort(p) /\ Picked(p).tcr # 0
  <2> DEFINE s == IF Picked(p).tm THEN "TRANSFERRING" ELSE "WAITING"
  <2>1. Transfer(d, m) = [p EXCEPT !.state = s]
      BY <1>1, <1>5 DEF Transfer, p
  <2>2. s \in {"WAITING", "TRANSFERRING"} /\ (s = "TRANSFERRING" => d.ch[c].tm)
      BY <1>1, <1>2 DEF Picked, Kept
  <2> HIDE DEF s
  <2>3. /\ Transfer(d, m) \in Dmac /\ Transfer(d, m).ch = p.ch
        /\ Transfer(d, m).picked = p.picked /\ Transfer(d, m).pending = p.pending
        /\ Transfer(d, m).state = s
      BY <1>2, <2>1, <2>2 DEF Dmac
  <2> QED
    BY <1>1, <1>2, <2>2, <2>3 DEF Kept
<1> QED
    BY <1>3, <1>4, <1>5

(* What step_transferring makes of d: nothing moves for a stopped channel; one
   that goes on waiting keeps its TE bit, unless it has made a burst. *)
TransferringKept(d, t) ==
    LET c == d.picked
    IN  /\ Kept(d, t, c)
        /\ t.state \in {"INITIAL", "WAITING", "DIED"}
        /\ t.ch # d.ch => ~CheckAbort(d)
        /\ \/ t.state # "WAITING"
           \/ t.ch[c].te = d.ch[c].te
           \/ d.ch[c].tm /\ t.ch[c].tcr # d.ch[c].tcr

(* step_transferring moves a channel once, or twice in a burst. *)
LEMMA TransferringKeeps ==
    ASSUME NEW d \in Dmac, d.picked \in Channels, d.state # "DIED", NEW m1 \in BOOLEAN, NEW m2 \in BOOLEAN
    PROVE  TransferringKept(d, Transferring(d, m1, m2))
<1> DEFINE c == d.picked
           t == Transferring(d, m1, m2)
           f == Transfer(d, m1)
           g == Transfer(f, m2)
<1>1. CASE CheckAbort(d)
  <2>1. t = [d EXCEPT !.state = "INITIAL"]
      BY <1>1 DEF Transferring, Abort
  <2> HIDE DEF t
  <2>2. /\ t \in Dmac /\ t.ch = d.ch /\ t.picked = d.picked /\ t.pending = d.pending
        /\ t.state = "INITIAL"
      BY <2>1 DEF Dmac
  <2> QED
    BY <2>2 DEF TransferringKept, Kept, t
<1>3. CASE ~CheckAbort(d) /\ d.ch[c].size = "invalid"
  <2>1. f = [d EXCEPT !.state = "DIED"]
    <3>1. Perform(d, m1) = [d EXCEPT !.state = "DIED"]
        BY <1>3 DEF Perform, Picked
    <3>2. [d EXCEPT !.state = "DIED"].state = "DIED"
        BY DEF Dmac
    <3> QED
      BY <3>1, <3>2 DEF Transfer
  <2> HIDE DEF f
  <2>2. /\ f \in Dmac /\ f.ch = d.ch /\ f.picked = d.picked /\ f.pending = d.pending
        /\ f.state = "DIED"
      BY <2>1 DEF Dmac
  <2>3. t = f
      BY <1>3, <2>2 DEF Transferring, f
  <2> HIDE DEF t
  <2> QED
    BY <2>2, <2>3 DEF TransferringKept, Kept, t
<1>2. CASE ~CheckAbort(d) /\ d.ch[c].size # "invalid"
  <2>1. /\ Kept(d, f, c) /\ f.ch[c].tcr = Less(d.ch[c].tcr)
        /\ f.state \in {"INITIAL", "WAITING", "TRANSFERRING"}
        /\ f.state # "INITIAL" => f.ch[c].te = d.ch[c].te
        /\ f.state = "TRANSFERRING" => d.ch[c].tm
      BY <1>2, TransferKeeps
  <2>2. f \in Dmac /\ f.picked = c /\ f.ch[c].size # "invalid"
      BY <1>2, <2>1 DEF Kept
  <2>3. CASE f.state # "TRANSFERRING"
    <3>1. t = f
        BY <1>2, <2>3 DEF Transferring
    <3> HIDE DEF f, t
    <3> QED
      BY <1>2, <2>1, <2>3, <3>1 DEF TransferringKept, t
  <2>4. CASE f.state = "TRANSFERRING"
    <3>1. t = [g EXCEPT !.state = "WAITING"]
        BY <1>2, <2>4 DEF Transferring
    <3> HIDE DEF f
    <3>2. Kept(f, g, c) /\ g.ch[c].tcr = Less(f.ch[c].tcr)
        BY <2>2, <2>4, TransferKeeps, ZenonT(30)
    <3> HIDE DEF g, t
    <3>3. /\ t \in Dmac /\ t.ch = g.ch /\ t.picked = g.picked /\ t.pending = g.pending
          /\ t.state = "WAITING"
        BY <3>1, <3>2 DEF Kept, Dmac
    <3>4. d.ch[c].tcr \in 0 .. CountMod - 1
        BY DEF Dmac, Channel
    <3>5. g.ch[c].tcr # d.ch[c].tcr
        BY <2>1, <3>2, <3>4, DmacConstants, SMT DEF Less
    <3>6. Kept(d, t, c)
        BY <2>1, <3>2, <3>3 DEF Kept
    <3> QED
      BY <1>2, <2>1, <2>4, <3>3, <3>5, <3>6 DEF TransferringKept, t
  <2> QED
    BY <2>3, <2>4
<1> QED
    BY <1>1, <1>2, <1>3

(* What step_waiting makes of d: only the picked channel moves, unless it is
   stopped, and uses its request up; it ends its block only as it leaves the
   waiting state or in a burst. *)
WaitingKept(d, w) ==
    LET c == d.picked
    IN  /\ w \in Dmac /\ w.picked = c
        /\ \A q \in Channels \ {c} : w.ch[q] = d.ch[q]
        /\ w.state \in {"INITIAL", "WAITING", "DIED"}
        /\ w.ch # d.ch => ~CheckAbort(d)
        /\ w.ch # d.ch /\ d.ch[c].rs \in Requests =>
              d.ch[c].rs \in d.pending \ w.pending
        /\ \/ w.state # "WAITING"
           \/ w.ch[c].te = d.ch[c].te
           \/ d.ch[c].tm /\ w.ch[c].tcr # d.ch[c].tcr

(* step_waiting, called with the state it is named for: a peripheral's
   request is used up by the transfers it allows. *)
LEMMA WaitingKeeps ==
    ASSUME NEW d \in Dmac, d.picked \in Channels, d.state = "WAITING",
           NEW m1 \in BOOLEAN, NEW m2 \in BOOLEAN, NEW match \in BOOLEAN
    PROVE  WaitingKept(d, Waiting(d, m1, m2, match))
<1> DEFINE c == d.picked
           w == Waiting(d, m1, m2, match)
           rs == d.ch[c].rs
           taken == [d EXCEPT !.pending = @ \ {rs}]
<1>1. /\ taken \in Dmac /\ taken.ch = d.ch /\ taken.picked = c /\ taken.state # "DIED"
      /\ taken.pending = d.pending \ {rs}
      /\ CheckAbort(taken) = CheckAbort(d)
    BY DEF Dmac, CheckAbort, Picked
<1>2. rs \in {"auto", "none", "unregistered"} \cup Requests
    BY DEF Dmac, Channel, Resources
<1>a. "auto" \notin d.pending /\ "none" \notin d.pending /\ "unregistered" \notin d.pending
    BY DmacConstants DEF Dmac
<1>3. CASE rs = "auto"
  <2>1. w = Transferring(d, m1, m2)
      BY <1>3, <1>a DEF Waiting, Picked
  <2>2. "auto" \notin Requests
      BY DmacConstants
  <2> HIDE DEF w
  <2>3. TransferringKept(d, w)
      BY <2>1, TransferringKeeps
  <2> QED
    BY <1>3, <2>2, <2>3 DEF TransferringKept, Kept, WaitingKept, w
<1>4. CASE rs \in {"none", "unregistered"}
  <2>1. w \in {[d EXCEPT !.state = "DIED"], [d EXCEPT !.state = "INITIAL"]}
      BY <1>4, <1>a DEF Waiting, Picked
  <2> HIDE DEF w
  <2>2. w \in Dmac /\ w.ch = d.ch /\ w.picked = c /\ w.state \in {"DIED", "INITIAL"}
      BY <2>1 DEF Dmac
  <2> QED
    BY <2>2 DEF WaitingKept, w
<1>5. CASE rs \in Requests /\ rs \in d.pending /\ match
  <2>1. w = Transferring(taken, m1, m2)
      BY <1>5, DmacConstants DEF Waiting, Picked
  <2> HIDE DEF w, taken
  <2>a. TransferringKept(taken, Transferring(taken, m1, m2))
      BY <1>1, TransferringKeeps
  <2>b. TransferringKept(taken, w)
      BY <2>1, <2>a
  <2>2. /\ Kept(taken, w, c) /\ w.state \in {"INITIAL", "WAITING", "DIED"}
        /\ w.ch # d.ch => ~CheckAbort(d)
        /\ \/ w.state # "WAITING"
           \/ w.ch[c].te = d.ch[c].te
           \/ d.ch[c].tm /\ w.ch[c].tcr # d.ch[c].tcr
      BY <1>1, <2>b DEF TransferringKept
  <2> QED
    BY <1>1, <1>5, <2>2, ZenonT(40) DEF Kept, WaitingKept, w
<1>6. CASE rs \in Requests /\ rs \in d.pending /\ ~match
  <2>1. w = [taken EXCEPT !.state = "INITIAL"]
      BY <1>6, DmacConstants DEF Waiting, Picked
  <2> HIDE DEF w, taken
  <2>2. w \in Dmac /\ w.ch = d.ch /\ w.picked = c /\ w.state = "INITIAL"
      BY <1>1, <2>1 DEF Dmac
  <2> QED
    BY <2>2 DEF WaitingKept, w
<1>7. CASE rs \in Requests /\ rs \notin d.pending
  <2>1. w = d
      BY <1>7, DmacConstants DEF Waiting, Picked
  <2> HIDE DEF w
  <2> QED
    BY <2>1 DEF WaitingKept, w
<1> QED
    BY <1>2, <1>3, <1>4, <1>5, <1>6, <1>7

(* step_initial picks a channel that is enabled and has not reached its end. *)
LEMMA FirstReadyIsReady ==
    ASSUME NEW d, Ready(d) # {}
    PROVE  FirstReady(d) \in Ready(d)
<1> DEFINE R == Ready(d)
<1>1. R \subseteq 0 .. 3
    BY DmacConstants DEF Ready
<1> HIDE DEF R
<1>2. R # {}
    BY DEF R
<1>3. \E c \in R : \A q \in R : c <= q
  <2>1. CASE 0 \in R
      BY <1>1, <2>1, SMT
  <2>2. CASE 0 \notin R /\ 1 \in R
      BY <1>1, <2>2, SMT
  <2>3. CASE 0 \notin R /\ 1 \notin R /\ 2 \in R
      BY <1>1, <2>3, SMT
  <2>4. CASE 0 \notin R /\ 1 \notin R /\ 2 \notin R
    <3>1. \A q \in R : q = 3
        BY <1>1, <2>4, SMT
    <3> QED
      BY <1>2, <3>1, SMT
  <2> QED
    BY <2>1, <2>2, <2>3, <2>4
<1> QED
    BY <1>3 DEF FirstReady, R

(* While a channel that has made no burst waits, its block has not ended. *)
EndNotPassed == dmac.state = "WAITING" /\ ~bursted => ~dmac.ch[dmac.picked].te

DmacInv == DmacTypeOK /\ ActiveHasChannel /\ EndNotPassed

(* DmacTypeOK in terms of the record type. *)
LEMMA TypeIsDmac == DmacTypeOK <=> dmac \in Dmac /\ bursted \in BOOLEAN
BY DEF DmacTypeOK, Dmac, Channel

(* What one cycle of the controller may do: only the picked channel moves,
   it is not stopped, its request is used up, and it had not reached its end
   unless it has made a burst. *)
CycleKeeps(e) ==
    /\ e \in Dmac
    /\ e.state \in {"INITIAL", "WAITING", "DIED"}
    /\ e.state # "INITIAL" => e.picked \in Channels
    /\ \A c \in Channels : e.ch[c] # dmac.ch[c] =>
          /\ dmac.dme /\ ~dmac.nmif /\ ~dmac.ae /\ dmac.ch[c].de
          /\ dmac.ch[c].rs \in Requests => dmac.ch[c].rs \in dmac.pending \ e.pending
          /\ dmac.ch[c].te => bursted /\ dmac.state # "INITIAL"
    /\ e.state = "WAITING" =>
          \/ ~e.ch[e.picked].te
          \/ bursted /\ dmac.state # "INITIAL"
          \/ dmac.ch[e.picked].tm /\ e.ch[e.picked].tcr # dmac.ch[e.picked].tcr

(* One iteration of the loop of dsh2edmac_step. *)
LEMMA CycleFacts ==
    ASSUME DmacInv, dmac.state # "DIED",
           NEW m1 \in BOOLEAN, NEW m2 \in BOOLEAN, NEW match \in BOOLEAN
    PROVE  CycleKeeps(Cycle(dmac, m1, m2, match))
<1> DEFINE e == Cycle(dmac, m1, m2, match)
<1>1. dmac \in Dmac /\ bursted \in BOOLEAN
    BY TypeIsDmac DEF DmacInv
<1>2. dmac.state \in {"INITIAL", "WAITING"}
    BY <1>1 DEF DmacInv, ActiveHasChannel, Dmac
<1>3. CASE dmac.state = "WAITING"
  <2>1. e = Waiting(dmac, m1, m2, match)
      BY <1>3 DEF Cycle
  <2>2. dmac.picked \in Channels
      BY <1>1, <1>3 DEF DmacInv, ActiveHasChannel, Dmac
  <2>3. bursted \/ ~dmac.ch[dmac.picked].te
      BY <1>3 DEF DmacInv, EndNotPassed
  <2>4. ~CheckAbort(dmac) => dmac.dme /\ ~dmac.nmif /\ ~dmac.ae /\ dmac.ch[dmac.picked].de
      BY DEF CheckAbort, Picked
  <2> HIDE DEF e
  <2>5. WaitingKept(dmac, Waiting(dmac, m1, m2, match))
      BY <1>1, <1>3, <2>2, WaitingKeeps
  <2>6. WaitingKept(dmac, e)
      BY <2>1, <2>5
  <2> QED
    BY <1>3, <2>2, <2>3, <2>4, <2>6 DEF CycleKeeps, WaitingKept, e
<1>4. CASE dmac.state = "INITIAL"
  <2> DEFINE idle == ~dmac.dme \/ dmac.nmif \/ dmac.ae \/ Ready(dmac) = {}
  <2>1. CASE idle
    <3>1. e = [dmac EXCEPT !.picked = NoChannel]
        BY <1>4, <2>1 DEF Cycle, Pick
    <3> HIDE DEF e
    <3>2. e \in Dmac /\ e.ch = dmac.ch /\ e.state = "INITIAL"
        BY <1>1, <1>4, <3>1 DEF Dmac
    <3> QED
      BY <3>2 DEF CycleKeeps, e
  <2>2. CASE ~idle
    <3> DEFINE c == FirstReady(dmac)
               d == [dmac EXCEPT !.picked = c, !.state = "WAITING"]
    <3>1. e = Waiting(d, m1, m2, match)
        BY <1>4, <2>2 DEF Cycle, Pick
    <3>2. c \in Channels /\ dmac.ch[c].de /\ ~dmac.ch[c].te
        BY <2>2, FirstReadyIsReady DEF Ready
    <3> HIDE DEF c
    <3>3. /\ d \in Dmac /\ d.picked = c /\ d.state = "WAITING"
          /\ d.ch = dmac.ch /\ d.pending = dmac.pending
        BY <1>1, <3>2 DEF Dmac
    <3> HIDE DEF d, e
    <3>4. /\ e \in Dmac /\ e.picked = c
          /\ \A q \in Channels \ {c} : e.ch[q] = dmac.ch[q]
          /\ e.state \in {"INITIAL", "WAITING", "DIED"}
          /\ e.ch # dmac.ch /\ dmac.ch[c].rs \in Requests =>
                dmac.ch[c].rs \in dmac.pending \ e.pending
          /\ \/ e.state # "WAITING"
             \/ e.ch[c].te = dmac.ch[c].te
             \/ dmac.ch[c].tm /\ e.ch[c].tcr # dmac.ch[c].tcr
      <4>0. d \in Dmac /\ d.picked \in Channels /\ d.state = "WAITING"
          BY <3>2, <3>3
      <4>1. WaitingKept(d, Waiting(d, m1, m2, match))
          BY <4>0, WaitingKeeps
      <4>2. WaitingKept(d, e)
          BY <3>1, <4>1
      <4> QED
        BY <3>3, <4>2 DEF WaitingKept
    <3> QED
      BY <2>2, <3>2, <3>4 DEF CycleKeeps, e
  <2> QED
    BY <2>1, <2>2
<1> QED
    BY <1>2, <1>3, <1>4

(* A step of the controller is such a cycle. *)
LEMMA StepIsCycle == DmacInv /\ Step => CycleKeeps(dmac')
<1> SUFFICES ASSUME DmacInv, Step PROVE CycleKeeps(dmac')
    OBVIOUS
<1>1. PICK m1 \in BOOLEAN, m2 \in BOOLEAN, match \in BOOLEAN :
          dmac' = Cycle(dmac, m1, m2, match)
    BY DEF Step, Alignments, Matches
<1> QED
    BY <1>1, CycleFacts DEF Step

(* The cycles keep the invariant. *)
LEMMA StepIInv == DmacInv /\ Step => DmacInv'
<1> SUFFICES ASSUME DmacInv, Step PROVE DmacInv'
    OBVIOUS
<1>2. CycleKeeps(dmac')
    BY StepIsCycle
<1>3. bursted' \in BOOLEAN
    BY DEF Step
<1>4. DmacTypeOK'
    BY <1>2, <1>3 DEF CycleKeeps, DmacTypeOK, Dmac, Channel
<1>5. ActiveHasChannel'
    BY <1>2, NoChannelIsNone DEF CycleKeeps, ActiveHasChannel
<1>6. EndNotPassed'
    BY <1>2 DEF CycleKeeps, EndNotPassed, Step, Moved
<1> QED
    BY <1>4, <1>5, <1>6 DEF DmacInv

(* The guest's register writes keep it: TE can only be cleared. *)
LEMMA GuestIInv == DmacInv /\ Guest => DmacInv'
<1> SUFFICES ASSUME DmacInv, Guest PROVE DmacInv'
    OBVIOUS
<1>0. dmac \in Dmac /\ bursted \in BOOLEAN
    BY TypeIsDmac DEF DmacInv
<1>1. ASSUME NEW dme \in BOOLEAN, NEW nmif \in BOOLEAN, NEW ae \in BOOLEAN,
             WriteDmaor(dme, nmif, ae)
      PROVE  DmacInv'
  <2>1. /\ dmac' \in Dmac /\ dmac'.ch = dmac.ch /\ dmac'.state = dmac.state
        /\ dmac'.picked = dmac.picked /\ bursted' = bursted
      BY <1>0, <1>1 DEF WriteDmaor, Dmac
  <2> QED
    BY <1>0, <2>1 DEF DmacInv, DmacTypeOK, ActiveHasChannel, EndNotPassed, Dmac, Channel
<1>2. ASSUME NEW c \in Channels, NEW x \in Channel, dmac.ch[c].te \/ ~x.te,
             dmac' = [dmac EXCEPT !.ch[c] = x], bursted' = bursted
      PROVE  DmacInv'
  <2>1. /\ dmac' \in Dmac /\ dmac'.ch = [dmac.ch EXCEPT ![c] = x]
        /\ dmac'.state = dmac.state /\ dmac'.picked = dmac.picked
      BY <1>0, <1>2 DEF Dmac
  <2>2. DmacTypeOK'
      BY <1>0, <1>2, <2>1 DEF DmacTypeOK, Dmac, Channel
  <2>3. ActiveHasChannel'
      BY <2>1 DEF DmacInv, ActiveHasChannel
  <2>4. EndNotPassed'
    <3>1. CASE dmac.state # "WAITING"
        BY <2>1, <3>1 DEF EndNotPassed
    <3>2. CASE dmac.state = "WAITING"
      <4>1. dmac.picked \in Channels
          BY <1>0, <3>2 DEF DmacInv, ActiveHasChannel, Dmac
      <4>2. dmac'.ch[dmac.picked].te => dmac.ch[dmac.picked].te
          BY <1>0, <1>2, <2>1, <4>1 DEF Dmac
      <4> QED
        BY <1>2, <2>1, <4>2 DEF DmacInv, EndNotPassed
    <3> QED
      BY <3>1, <3>2
  <2> QED
    BY <2>2, <2>3, <2>4 DEF DmacInv
<1>3. ASSUME NEW c \in Channels, NEW n \in 0 .. MaxCount, WriteTcr(c, n)
      PROVE  DmacInv'
  <2> DEFINE x == [dmac.ch[c] EXCEPT !.tcr = n]
  <2>1. x \in Channel /\ x.te = dmac.ch[c].te /\ x.te \in BOOLEAN
      BY <1>0, DmacConstants, SMT DEF Dmac, Channel
  <2>2. dmac' = [dmac EXCEPT !.ch[c] = x] /\ bursted' = bursted
      BY <1>0, <1>3 DEF WriteTcr, Dmac
  <2> HIDE DEF x
  <2> QED
    BY <1>2, <2>1, <2>2
<1>4. ASSUME NEW c \in Channels, NEW v \in Programs, NEW te \in BOOLEAN, WriteChcr(c, v, te)
      PROVE  DmacInv'
  <2> DEFINE o == dmac.ch[c]
             x == [tcr |-> o.tcr, rs |-> v.rs, size |-> v.size, tm |-> v.tm,
                   te |-> o.te /\ te,
                   de |-> IF v.de /\ v.rs = "none" THEN o.de ELSE v.de]
  <2>1. o \in Channel /\ v \in Control
      BY <1>0, DmacConstants DEF Dmac
  <2>2. x \in Channel /\ (o.te \/ ~x.te)
      BY <2>1 DEF Channel, Control
  <2>3. dmac' = [dmac EXCEPT !.ch[c] = x] /\ bursted' = bursted
      BY <1>0, <1>4 DEF WriteChcr, Dmac
  <2> HIDE DEF x
  <2> QED
    BY <1>2, <2>2, <2>3
<1> QED
    BY <1>1, <1>3, <1>4 DEF Guest

(* Requests, NMIs and resets keep it: a reset leaves no channel picked and
   the state initial. *)
LEMMA EnvironmentIInv == DmacInv /\ Environment => DmacInv'
<1> SUFFICES ASSUME DmacInv, Environment PROVE DmacInv'
    OBVIOUS
<1>0. dmac \in Dmac /\ bursted \in BOOLEAN
    BY TypeIsDmac DEF DmacInv
<1>1. CASE Nmi \/ \E r \in Requests : PeripheralRequest(r)
  <2>1. /\ dmac' \in Dmac /\ dmac'.ch = dmac.ch /\ dmac'.state = dmac.state
        /\ dmac'.picked = dmac.picked /\ bursted' = bursted
    <3>1. CASE Nmi
        BY <1>0, <3>1 DEF Nmi, Dmac
    <3>2. ASSUME NEW r \in Requests, PeripheralRequest(r)
          PROVE  /\ dmac' \in Dmac /\ dmac'.ch = dmac.ch /\ dmac'.state = dmac.state
                 /\ dmac'.picked = dmac.picked /\ bursted' = bursted
        BY <1>0, <3>2 DEF PeripheralRequest, Dmac
    <3> QED
      BY <1>1, <3>1, <3>2
  <2> QED
    BY <1>0, <2>1 DEF DmacInv, DmacTypeOK, ActiveHasChannel, EndNotPassed, Dmac, Channel
<1>2. CASE Reset
  <2>1. ResetChannel \in Channel
      BY DmacConstants, SMT DEF ResetChannel, Channel, Resources, Sizes
  <2> DEFINE h == [c \in Channels |-> ResetChannel]
  <2>2. h \in [Channels -> Channel]
      BY <2>1
  <2> HIDE DEF h
  <2>3. dmac' = [dmac EXCEPT !.ch = h, !.dme = FALSE, !.nmif = FALSE, !.ae = FALSE,
                             !.state = "INITIAL", !.picked = NoChannel]
      BY <1>2 DEF Reset, h
  <2>4. dmac' \in Dmac /\ dmac'.state = "INITIAL" /\ bursted' = FALSE
      BY <1>0, <1>2, <2>2, <2>3 DEF Dmac, Reset
  <2> QED
    BY <2>4 DEF DmacInv, DmacTypeOK, ActiveHasChannel, EndNotPassed, Dmac, Channel
<1> QED
    BY <1>1, <1>2 DEF Environment

(* DmacInv is an invariant of the controller. *)
LEMMA DmacInvHolds == DmacSpec => []DmacInv
<1>1. DmacInit => DmacInv
  <2> SUFFICES ASSUME DmacInit PROVE DmacInv
      OBVIOUS
  <2>1. ResetChannel \in Channel
      BY DmacConstants, SMT DEF ResetChannel, Channel, Resources, Sizes
  <2>2. dmac \in Dmac /\ dmac.state = "INITIAL" /\ bursted = FALSE
      BY <2>1 DEF DmacInit, Dmac
  <2> QED
    BY <2>2 DEF DmacInv, DmacTypeOK, ActiveHasChannel, EndNotPassed, Dmac, Channel
<1>2. DmacInv /\ [DmacNext]_dmacVars => DmacInv'
  <2>1. DmacInv /\ UNCHANGED dmacVars => DmacInv'
      BY SMT DEF DmacInv, DmacTypeOK, ActiveHasChannel, EndNotPassed, dmacVars
  <2> QED
    BY <2>1, StepIInv, GuestIInv, EnvironmentIInv DEF DmacNext
<1> QED
    BY <1>1, <1>2, PTL DEF DmacSpec

(* The fields of sh2e_dmac_t keep their types, and the assertions on
   picked_channel in step_waiting, step_transferring and
   transfer_and_update_regs hold, in every order of cycles, register writes,
   requests, NMIs and resets. *)
THEOREM ChannelAlwaysPicked == DmacSpec => [](DmacTypeOK /\ ActiveHasChannel)
BY DmacInvHolds, PTL DEF DmacInv

(* step_waiting and step_transferring move nothing for a channel that is
   disabled, or while DME is clear or NMIF or AE set. *)
THEOREM StoppedStaysStopped == DmacSpec => NoTransferWhenStopped
<1>1. DmacInv => [\A c \in Channels : Transfers(c) =>
                  dmac.dme /\ ~dmac.nmif /\ ~dmac.ae /\ dmac.ch[c].de]_dmacVars
    BY StepIsCycle DEF Transfers, Moved, CycleKeeps
<1> QED
    BY <1>1, DmacInvHolds, PTL DEF NoTransferWhenStopped

(* step_waiting uses up the request that lets a peripheral's channel move. *)
THEOREM RequestsAreUsedUp == DmacSpec => RequestPerTransfer
<1>1. DmacInv => [\A c \in Channels : Transfers(c) /\ dmac.ch[c].rs \in Requests =>
                  dmac.ch[c].rs \in dmac.pending \ dmac'.pending]_dmacVars
    BY StepIsCycle DEF Transfers, Moved, CycleKeeps
<1> QED
    BY <1>1, DmacInvHolds, PTL DEF RequestPerTransfer

(* Without a burst, a channel whose TE bit is set moves nothing. *)
THEOREM CycleStealEnds == DmacSpec => CycleStealEndIsFinal
<1>1. DmacInv => [\A c \in Channels : Transfers(c) /\ ~bursted => ~dmac.ch[c].te]_dmacVars
    BY StepIsCycle DEF Transfers, Moved, CycleKeeps
<1> QED
    BY <1>1, DmacInvHolds, PTL DEF CycleStealEndIsFinal
==============================================================================
