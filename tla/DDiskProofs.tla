---------------------------- MODULE DDiskProofs ----------------------------
(***************************************************************************)
(* Proofs about the disk of DDisk, for every sector size, image size,      *)
(* memory and command sequence.                                            *)
(***************************************************************************)
EXTENDS DDisk, TLAPS

(* The three facts about the constants every proof needs: the width of the
   address space, and that a sector fits into it. *)
LEMMA SpanFacts ==
    Span \in Nat \ {0} /\ SectorWords \in Nat \ {0} /\ SectorWords <= Span
    /\ LoSpan \in Nat \ {0} /\ HiSpan \in Nat \ {0} /\ Span = LoSpan * HiSpan
BY DiskConstants, SMT DEF Span

(* The increment of the DMA pointer stays inside the address space. *)
LEMMA WrapInside ==
    ASSUME NEW a \in Nat, a < 2 * Span
    PROVE  Wrap(a) \in Addr
BY SpanFacts DEF Wrap, Addr

(* A pointer p put together from a low part v and the high part of another
   pointer is a pointer: what the REGISTER_ADDR_LO write stores. *)
LEMMA LowPart ==
    ASSUME NEW p \in Addr, NEW v \in 0 .. LoSpan - 1
    PROVE  (p - (p % LoSpan)) + v \in Addr
<1> DEFINE q == p \div LoSpan
<1>1. p \in Nat /\ p < LoSpan * HiSpan /\ v \in Nat /\ v < LoSpan
    BY SpanFacts DEF Addr
<1>2. q \in Nat /\ p = LoSpan * q + (p % LoSpan) /\ p % LoSpan \in 0 .. LoSpan - 1
    BY <1>1, SpanFacts, Z3
<1>3. q < HiSpan
    BY <1>1, <1>2, SpanFacts, Z3
<1>4. LoSpan * q + LoSpan <= LoSpan * HiSpan
  <2>1. PICK k \in Nat : HiSpan = q + 1 + k
      <3> HiSpan - q - 1 \in Nat
          BY <1>2, <1>3, SpanFacts
      <3> QED
          BY <1>2, SpanFacts
  <2>2. LoSpan * HiSpan = LoSpan * q + LoSpan + LoSpan * k
      BY <2>1, <1>2, SpanFacts, Z3
  <2>3. LoSpan * k \in Nat
      BY <2>1, SpanFacts, Z3
  <2> QED
      BY <2>2, <2>3, <1>2, SpanFacts, Z3
<1> HIDE DEF q
<1>5. (p - (p % LoSpan)) + v = LoSpan * q + v
    BY <1>1, <1>2, SpanFacts, Z3
<1>6. LoSpan * q \in Nat
    BY <1>2, SpanFacts, Z3
<1> QED
    BY <1>1, <1>4, <1>5, <1>6, SpanFacts, Z3 DEF Addr

(* What the REGISTER_ADDR_HI write stores. *)
LEMMA HighPart ==
    ASSUME NEW p \in Addr, NEW v \in 0 .. HiSpan - 1
    PROVE  (p % LoSpan) + (v * LoSpan) \in Addr
<1>1. p % LoSpan \in 0 .. LoSpan - 1
    BY SpanFacts, Z3 DEF Addr
<1>2. PICK k \in Nat : HiSpan = v + 1 + k
  <2> HiSpan - v - 1 \in Nat
      BY SpanFacts
  <2> QED
      BY SpanFacts
<1>3. LoSpan * HiSpan = v * LoSpan + LoSpan + LoSpan * k /\ v * LoSpan \in Nat /\ LoSpan * k \in Nat
    BY <1>2, SpanFacts, Z3
<1> QED
    BY <1>1, <1>3, SpanFacts, Z3 DEF Addr

(***************************************************************************)
(* Types and bounds.  TypeOK alone is not inductive: that ddisk_step keeps *)
(* the image well-formed rests on its word being inside the image.         *)
(***************************************************************************)
IInv == TypeOK /\ InFlightInBounds

(* ddisk_init establishes the invariant. *)
LEMMA InitIInv == Init => IInv
<1> SUFFICES ASSUME Init PROVE IInv
    OBVIOUS
<1>1. 0 \in Addr
    BY SpanFacts DEF Addr
<1>2. img \in Image(size)
    BY DEF Init, Image
<1>3. status \in SUBSET {"INT", "ERROR", "BUSY"} /\ ig \in BOOLEAN /\ line \in BOOLEAN /\ quiet \in BOOLEAN
    BY Zenon DEF Init
<1>4. cnt \in 0 .. SectorWords
    BY SpanFacts, DiskConstants DEF Init
<1> QED
    BY <1>1, <1>2, <1>3, <1>4 DEF Init, IInv, TypeOK, InFlightInBounds

(* Register writes of the guest preserve it. *)
LEMMA RegistersIInv == IInv /\ Registers => IInv'
<1> SUFFICES ASSUME IInv, Registers PROVE IInv'
    OBVIOUS
<1> USE DEF IInv, TypeOK, InFlightInBounds, diskVars, actVars, irqVars, auxVars
<1>1. ASSUME NEW v \in 0 .. LoSpan - 1, WriteAddrLo(v) PROVE IInv'
    BY <1>1, LowPart DEF WriteAddrLo
<1>2. ASSUME NEW v \in 0 .. HiSpan - 1, WriteAddrHi(v) PROVE IInv'
    BY <1>2, HighPart DEF WriteAddrHi
<1>3. ASSUME NEW n \in 0 .. MaxSecno, WriteSecno(n) PROVE IInv'
    BY <1>3, DiskConstants DEF WriteSecno
<1>4. ASSUME NEW c \in Commands, WriteCommand(c) PROVE IInv'
  <2>1. status' \in SUBSET {"INT", "ERROR", "BUSY"}
      BY <1>4, Zenon DEF WriteCommand, CommandStatus, Acked
  <2>2. ig' \in BOOLEAN /\ line' \in BOOLEAN
      BY <1>4, Zenon DEF WriteCommand, CommandIrq
  <2>4. UNCHANGED <<diskType, size, img, diskPtr, diskSecno, mem>>
      BY <1>4 DEF WriteCommand
  <2>5. CASE UNCHANGED <<action, secno, cnt, start, quiet>>
      BY <2>1, <2>2, <2>4, <2>5
  <2>6. CASE /\ ~Rejects(c) /\ cnt' = 0 /\ secno' = diskSecno /\ start' = diskPtr
             /\ quiet' = TRUE /\ action' \in {"READ", "WRITE"}
    <3>1. diskSecno < size
        BY <2>6 DEF Rejects
    <3>2. diskType # "NONE"
        BY <1>4 DEF WriteCommand
    <3> QED
        BY <2>1, <2>2, <2>4, <2>6, <3>1, <3>2, SpanFacts
  <2> QED
      BY <1>4, <2>5, <2>6 DEF WriteCommand
<1> QED
    BY <1>1, <1>2, <1>3, <1>4 DEF Registers

(* A step of the DMA engine preserves it. *)
LEMMA StepIInv == IInv /\ Step => IInv'
<1> SUFFICES ASSUME IInv, Step PROVE IInv'
    OBVIOUS
<1> USE DEF IInv, TypeOK, InFlightInBounds, irqVars, auxVars
<1>1. /\ Transfer /\ diskPtr' = Wrap(diskPtr + 1) /\ cnt' = cnt + 1
      /\ IF cnt' = SectorWords THEN Finish ELSE UNCHANGED <<action, status, irqVars, auxVars>>
      /\ UNCHANGED <<diskType, size, diskSecno, secno>>
    BY DEF Step, StepTo
<1>2. /\ action # "NONE" /\ diskType # "NONE" /\ secno \in 0 .. size - 1 /\ cnt \in Words
      /\ cnt + 1 \in 0 .. SectorWords
    BY <1>1, SpanFacts DEF Transfer, Words
<1>3. mem' \in [Ram -> Val] /\ img' \in Image(size)
  <2>1. img[secno][cnt] \in Val
      BY <1>2 DEF Image, Sector
  <2>2. MemRead(diskPtr) \in Val
      BY DiskConstants DEF MemRead
  <2>3. CASE action = "READ"
      BY <1>1, <2>1, <2>3 DEF Transfer, MemWrite
  <2>4. CASE action = "WRITE"
    <3>1. img' = [img EXCEPT ![secno][cnt] = MemRead(diskPtr)] /\ mem' = mem
        BY <1>1, <2>4 DEF Transfer
    <3>2. [img[secno] EXCEPT ![cnt] = MemRead(diskPtr)] \in Sector
        BY <1>2, <2>2 DEF Image, Sector
    <3> QED
        BY <1>2, <3>1, <3>2 DEF Image
  <2> QED
      BY <1>2, <2>3, <2>4
<1>4. diskPtr' \in Addr
    BY <1>1, WrapInside, SpanFacts DEF Addr
<1>5. CASE cnt' = SectorWords
  <2>1. action' = "NONE" /\ start' = 0 /\ quiet' = TRUE
      BY <1>1, <1>5 DEF Finish
  <2>2. status' \in SUBSET {"INT", "ERROR", "BUSY"} /\ ig' \in BOOLEAN /\ line' \in BOOLEAN
      BY <1>1, <1>5, DiskConstants, Zenon DEF Finish
  <2>3. 0 \in Addr
      BY SpanFacts DEF Addr
  <2> QED
      BY <1>1, <1>2, <1>3, <1>4, <2>1, <2>2, <2>3
<1>6. CASE cnt' # SectorWords
  <2>1. UNCHANGED <<action, status, ig, line, start, quiet>>
      BY <1>1, <1>6
  <2>2. cnt' < SectorWords
      BY <1>1, <1>2, <1>6, SpanFacts DEF Words
  <2> QED
      BY <1>1, <1>2, <1>3, <1>4, <2>1, <2>2
<1> QED
    BY <1>5, <1>6

(* Console commands and stores of a processor preserve it. *)
LEMMA OthersIInv ==
    IInv /\ (Console \/ \E a \in Ram, v \in Val : CpuStore(a, v)) => IInv'
<1> SUFFICES ASSUME IInv, Console \/ \E a \in Ram, v \in Val : CpuStore(a, v) PROVE IInv'
    OBVIOUS
<1> USE DEF IInv, TypeOK, InFlightInBounds, diskVars, regVars, actVars, irqVars
<1>1. 0 \in Addr
    BY SpanFacts DEF Addr
<1>2. ASSUME NEW n \in 1 .. MaxSectors, Generic(n) PROVE IInv'
  <2>1. img' \in Image(n)
      BY <1>2, DiskConstants DEF Generic, Image, Sector
  <2> QED
      BY <1>1, <1>2, <2>1, SpanFacts DEF Generic, CleanUp
<1>3. ASSUME NEW n \in 1 .. MaxSectors, NEW file \in Files, Fmap(n, file) PROVE IInv'
  <2>1. img' \in Image(n)
      BY <1>3, DiskConstants DEF Fmap, Image, Sector, Words
  <2> QED
      BY <1>1, <1>3, <2>1, SpanFacts DEF Fmap, CleanUp
<1>4. ASSUME NEW n \in 1 .. MaxSectors, NEW file \in Files, Load(n, file) PROVE IInv'
  <2>1. img' \in Image(size)
      BY <1>4, DiskConstants DEF Load, Image, Sector, Words
  <2> QED
      BY <1>4, <2>1 DEF Load
<1>5. ASSUME NEW v \in Val, Fill(v) PROVE IInv'
  <2>1. img' \in Image(size)
      BY <1>5 DEF Fill, Image, Sector
  <2> QED
      BY <1>5, <2>1 DEF Fill
<1>6. ASSUME NEW a \in Ram, NEW v \in Val, CpuStore(a, v) PROVE IInv'
  <2>1. mem' \in [Ram -> Val]
      BY <1>6 DEF CpuStore, MemWrite
  <2> QED
      BY <1>6, <2>1 DEF CpuStore
<1> QED
    BY <1>2, <1>3, <1>4, <1>5, <1>6 DEF Console

(* The disk's fields keep their types and the word ddisk_step touches always
   lies inside the image, for every image and memory size and in every
   interleaving of guest, console and device. *)
THEOREM BoundsHold == Spec => [](TypeOK /\ InFlightInBounds)
<1>1. IInv /\ [Next]_vars => IInv'
  <2>1. IInv /\ UNCHANGED vars => IInv'
      BY DEF IInv, TypeOK, InFlightInBounds, vars
  <2> QED
      BY <2>1, RegistersIInv, StepIInv, OthersIInv DEF Next
<1> QED
    BY <1>1, InitIInv, PTL DEF Spec, IInv

(***************************************************************************)
(* The interrupt.  InterruptWired is inductive given the types.            *)
(***************************************************************************)
(* In interrupt mode the status flag, ig and the processor's line agree after
   every command, acknowledgement, rejection, completion and image change; in
   busy-bit mode none of them is ever raised. *)
THEOREM InterruptStaysWired == Spec => []InterruptWired
<1>1. Init => InterruptWired
    BY DEF Init, InterruptWired
<1>2. ASSUME IInv, InterruptWired, [Next]_vars PROVE InterruptWired'
  <2> USE DEF InterruptWired
  <2>1. CASE UNCHANGED <<status, ig, line>>
      BY <1>2, <2>1
  <2>2. ASSUME NEW c \in Commands, WriteCommand(c) PROVE InterruptWired'
    <3> USE <1>2, <2>2 DEF WriteCommand, CommandIrq, CommandStatus, Acked
    <3>1. CASE Rejects(c) /\ UsesBusyBit
        BY <3>1
    <3>2. CASE Rejects(c) /\ ~UsesBusyBit
        BY <3>2
    <3>3. CASE ~Rejects(c) /\ UsesBusyBit
        BY <3>3
    <3>4. CASE ~Rejects(c) /\ ~UsesBusyBit
        BY <3>4
    <3> QED
        BY <3>1, <3>2, <3>3, <3>4
  <2>3. CASE Step
    <3>1. CASE UNCHANGED <<status, ig, line>>
        BY <3>1, <2>1
    <3>2. CASE Finish
      <4> USE <1>2, <3>2 DEF Finish
      <4>1. CASE UsesBusyBit
          BY <4>1
      <4>2. CASE ~UsesBusyBit
          BY <4>2
      <4> QED
          BY <4>1, <4>2
    <3> QED
        BY <2>3, <3>1, <3>2 DEF Step, StepTo, irqVars
  <2>4. CASE Registers
    <3>1. ASSUME NEW v, WriteAddrLo(v) \/ WriteAddrHi(v) \/ WriteSecno(v) PROVE UNCHANGED <<status, ig, line>>
        BY <3>1 DEF WriteAddrLo, WriteAddrHi, WriteSecno, irqVars
    <3> QED
        BY <2>1, <2>2, <2>4, <3>1 DEF Registers
  <2>5. CASE Console
    <3>1. ASSUME NEW n, Generic(n) \/ Fill(n) PROVE UNCHANGED <<status, ig, line>>
        BY <3>1 DEF Generic, Fill, CleanUp, irqVars, regVars
    <3>2. ASSUME NEW n, NEW file, Fmap(n, file) \/ Load(n, file) PROVE UNCHANGED <<status, ig, line>>
        BY <3>2 DEF Fmap, Load, CleanUp, irqVars, regVars
    <3> QED
        BY <2>1, <2>5, <3>1, <3>2 DEF Console
  <2>6. ASSUME NEW a, NEW v, CpuStore(a, v) PROVE UNCHANGED <<status, ig, line>>
      BY <2>6 DEF CpuStore, irqVars, regVars
  <2>7. UNCHANGED vars => UNCHANGED <<status, ig, line>>
      BY DEF vars
  <2> QED
      BY <1>2, <2>1, <2>3, <2>4, <2>5, <2>6, <2>7 DEF Next
<1> QED
  <2>1. Spec => []IInv
      BY BoundsHold, PTL DEF IInv
  <2> QED
      BY <1>1, <1>2, <2>1, PTL DEF Spec

(***************************************************************************)
(* The transferred data                                                    *)
(***************************************************************************)
(* Words of one buffer have different addresses: a sector fits into the
   address space, so the pointer does not run into its own start. *)
LEMMA WrapDistinct ==
    ASSUME NEW b \in Addr, NEW i \in Nat, NEW j \in Nat, i < j, j < SectorWords
    PROVE  Wrap(b + i) # Wrap(b + j)
BY SpanFacts DEF Wrap, Addr

(* Incrementing the pointer commutes with wrapping it. *)
LEMMA WrapNext ==
    ASSUME NEW b \in Addr, NEW i \in Nat, i < SectorWords
    PROVE  Wrap(Wrap(b + i) + 1) = Wrap(b + (i + 1))
BY SpanFacts DEF Wrap, Addr

(* Word i of sector and buffer agree after a step that was started from a
   state where memory and image are mem and img. *)
MovedBy(i) ==
    IF action = "READ"
    THEN Wrap(start + i) \in Ram => mem'[Wrap(start + i)] = img'[secno][i]
    ELSE img'[secno][i] = MemRead(Wrap(start + i))

(* A step of ddisk_step adds one word and disturbs none of the others. *)
LEMMA StepMoves ==
    ASSUME IInv, TransferExact, Step, quiet
    PROVE  \A i \in 0 .. cnt : MovedBy(i)
<1> SUFFICES ASSUME NEW i \in 0 .. cnt PROVE MovedBy(i)
    OBVIOUS
<1>1. Transfer /\ action # "NONE"
    BY DEF Step, StepTo, Transfer
<1>2. /\ start \in Addr /\ cnt \in Nat /\ cnt < SectorWords /\ i \in Nat
      /\ secno \in 0 .. size - 1 /\ cnt \in Words /\ i \in Words
      /\ img \in [0 .. size - 1 -> [Words -> Val]] /\ mem \in [Ram -> Val]
    BY <1>1, SpanFacts DEF IInv, TypeOK, InFlightInBounds, Words, Image, Sector
<1>3. diskPtr = Wrap(start + cnt) /\ (i < cnt => Moved(i))
    BY <1>1, <1>2 DEF TransferExact
<1>4. i < cnt => Wrap(start + i) # diskPtr
    BY <1>2, <1>3, WrapDistinct
<1>5. CASE action = "READ"
  <2>1. mem' = [x \in Ram |-> IF x = diskPtr THEN img[secno][cnt] ELSE mem[x]] /\ img' = img
      BY <1>1, <1>5 DEF Transfer, MemWrite
  <2>2. CASE i = cnt
      BY <1>3, <1>5, <2>1, <2>2 DEF MovedBy
  <2>3. CASE i < cnt
      BY <1>3, <1>4, <1>5, <2>1, <2>3 DEF MovedBy, Moved
  <2> QED
      BY <1>2, <2>2, <2>3
<1>6. CASE action = "WRITE"
  <2>1. img' = [img EXCEPT ![secno][cnt] = MemRead(diskPtr)]
      BY <1>1, <1>6 DEF Transfer
  <2>2. CASE i = cnt
      BY <1>2, <1>3, <1>6, <2>1, <2>2 DEF MovedBy
  <2>3. CASE i < cnt
    <3>1. img[secno][i] = MemRead(Wrap(start + i))
        BY <1>3, <1>6, <2>3 DEF Moved
    <3>2. img'[secno][i] = img[secno][i]
        BY <1>2, <2>1, <2>3
    <3> QED
        BY <1>6, <3>1, <3>2 DEF MovedBy
  <2> QED
      BY <1>2, <2>2, <2>3
<1> QED
    BY <1>1, <1>5, <1>6 DEF IInv, TypeOK

(* Every action preserves that what was moved so far is exact. *)
LEMMA TransferExactStep ==
    ASSUME IInv, TransferExact, [Next]_vars
    PROVE  TransferExact'
<1>1. ASSUME action' # "NONE", quiet'
      PROVE  /\ diskPtr' = Wrap(start' + cnt')
             /\ \A i \in 0 .. cnt' - 1 : Moved(i)'
  <2> USE <1>1 DEF IInv, TypeOK
  <2>1. CASE UNCHANGED <<img, mem, diskPtr, action, secno, cnt, start, quiet>>
      BY <2>1 DEF TransferExact, Moved, MemRead
  <2>2. CASE Step
    <3>1. /\ diskPtr' = Wrap(diskPtr + 1) /\ cnt' = cnt + 1 /\ action # "NONE"
          /\ UNCHANGED <<action, secno, start, quiet>>
        BY <2>2 DEF Step, StepTo, Transfer, Finish, auxVars
    <3>2. diskPtr = Wrap(start + cnt) /\ cnt < SectorWords /\ start \in Addr /\ cnt \in Nat
        BY <3>1 DEF TransferExact, InFlightInBounds
    <3>3. diskPtr' = Wrap(start' + cnt')
      <4>1. Wrap(Wrap(start + cnt) + 1) = Wrap(start + (cnt + 1))
          BY <3>2, WrapNext
      <4> QED
          BY <3>1, <3>2, <4>1
    <3>4. \A i \in 0 .. cnt : MovedBy(i)
        BY <2>2, <3>1, StepMoves
    <3>5. ASSUME NEW i \in 0 .. cnt' - 1 PROVE Moved(i)'
      <4>1. MovedBy(i) /\ (action = "WRITE" => mem' = mem)
          BY <2>2, <3>1, <3>2, <3>4 DEF Step, StepTo, Transfer
      <4> QED
          BY <3>1, <4>1 DEF MovedBy, Moved, MemRead
    <3> QED
        BY <3>3, <3>5
  <2>3. CASE cnt' = 0 /\ start' = diskPtr /\ diskPtr' = diskPtr
    <3>1. Wrap(diskPtr) = diskPtr /\ diskPtr + 0 = diskPtr
        BY SpanFacts DEF Wrap, Addr
    <3> QED
        BY <2>3, <3>1
  <2>4. ASSUME NEW a \in Ram, NEW v \in Val, CpuStore(a, v), action # "NONE"
        PROVE  /\ diskPtr' = Wrap(start' + cnt')
               /\ \A i \in 0 .. cnt' - 1 : Moved(i)'
    <3>1. /\ UNCHANGED <<img, diskPtr, action, secno, cnt, start>> /\ quiet /\ a \notin Buffer
          /\ mem' = [x \in Ram |-> IF x = a THEN v ELSE mem[x]]
        BY <2>4 DEF CpuStore, diskVars, regVars, actVars, MemWrite
    <3>2. ASSUME NEW i \in 0 .. cnt - 1 PROVE Moved(i)'
      <4>1. Moved(i) /\ i \in Words
          BY <2>4, <3>1, <3>2, SpanFacts DEF TransferExact, InFlightInBounds, Words
      <4>2. Wrap(start + i) # a
          BY <3>1, <4>1 DEF Buffer
      <4> QED
          BY <3>1, <4>1, <4>2 DEF Moved, MemRead
    <3> QED
        BY <2>4, <3>1, <3>2 DEF TransferExact
  <2>5. CASE Registers
    <3>1. ASSUME NEW c \in Commands, WriteCommand(c)
          PROVE  \/ UNCHANGED <<img, mem, diskPtr, action, secno, cnt, start, quiet>>
                 \/ cnt' = 0 /\ start' = diskPtr /\ diskPtr' = diskPtr
        BY <3>1 DEF WriteCommand, diskVars, actVars, auxVars
    <3>2. ASSUME NEW v, WriteAddrLo(v) \/ WriteAddrHi(v) PROVE FALSE
        BY <3>2 DEF WriteAddrLo, WriteAddrHi, actVars
    <3>3. ASSUME NEW n, WriteSecno(n)
          PROVE  UNCHANGED <<img, mem, diskPtr, action, secno, cnt, start, quiet>>
        BY <3>3 DEF WriteSecno, diskVars, actVars, auxVars
    <3> QED
        BY <2>1, <2>3, <2>5, <3>1, <3>2, <3>3 DEF Registers
  <2>6. CASE Console
    <3>1. ASSUME NEW n, Generic(n) PROVE FALSE
        BY <3>1 DEF Generic, CleanUp
    <3>2. ASSUME NEW n, NEW file, Fmap(n, file) PROVE FALSE
        BY <3>2 DEF Fmap, CleanUp
    <3>3. ASSUME NEW n, NEW file, Load(n, file) PROVE FALSE
        BY <3>3 DEF Load, actVars
    <3>4. ASSUME NEW v, Fill(v) PROVE FALSE
        BY <3>4 DEF Fill, actVars
    <3> QED
        BY <2>6, <3>1, <3>2, <3>3, <3>4 DEF Console
  <2>7. ASSUME NEW a \in Ram, NEW v \in Val, CpuStore(a, v) PROVE action # "NONE"
      BY <2>7 DEF CpuStore, actVars
  <2>8. CASE UNCHANGED vars
      BY <2>1, <2>8 DEF vars
  <2> QED
      BY <2>2, <2>4, <2>5, <2>6, <2>7, <2>8 DEF Next
<1> QED
    BY <1>1 DEF TransferExact

(* Everything ddisk_step has moved of an undisturbed transfer is exact, for
   every sector size and wherever the DMA pointer starts, its wrap-around
   included. *)
THEOREM TransferStaysExact == Spec => []TransferExact
<1>1. Init => TransferExact
    BY DEF Init, TransferExact
<1>2. Spec => []IInv
    BY BoundsHold, PTL DEF IInv
<1> QED
    BY <1>1, <1>2, TransferExactStep, PTL DEF Spec

(* When an undisturbed transfer ends, the whole sector has been delivered. *)
THEOREM WholeSectorDelivered == Spec => SectorDelivered
<1> DEFINE Delivered ==
        Step /\ action' = "NONE" /\ quiet => \A i \in Words : MovedBy(i)
<1>1. ASSUME IInv, TransferExact, Step, action' = "NONE", quiet
      PROVE  \A i \in Words : MovedBy(i)
  <2>1. \A i \in 0 .. cnt : MovedBy(i)
      BY <1>1, StepMoves
  <2>2. cnt + 1 = SectorWords /\ cnt \in Nat
      BY <1>1 DEF Step, StepTo, Transfer, IInv, TypeOK
  <2> QED
      BY <2>1, <2>2 DEF Words
<1>2. IInv /\ TransferExact => [Delivered]_vars
    BY <1>1
<1>3. Spec => []IInv /\ []TransferExact
    BY BoundsHold, TransferStaysExact, PTL DEF IInv
<1>4. Spec => [][Delivered]_vars
    BY <1>2, <1>3, PTL
<1> QED
    BY <1>4 DEF SectorDelivered, MovedBy
=============================================================================
