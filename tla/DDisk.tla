------------------------------- MODULE DDisk -------------------------------
(***************************************************************************)
(* The block device of device/ddisk.c: a register block written by a CPU, *)
(* a DMA engine that moves one word per machine step between the disk     *)
(* image and physical memory, and the console commands that replace the   *)
(* image.  Addresses are counted in 32-bit words, sizes in sectors.       *)
(*                                                                         *)
(* A guest write of a register, a CPU store into RAM, a console command    *)
(* and ddisk_step interleave at machine-step granularity, as they do in    *)
(* machine_run().                                                          *)
(***************************************************************************)
EXTENDS Integers, FiniteSets

CONSTANTS
    SectorWords,   \* 32-bit words of a sector (128 in ddisk.c)
    MaxSectors,    \* bound: sectors of the largest image the console sets up
    MaxSecno,      \* bound: largest sector number a guest writes
    RamWords,      \* words 0 .. RamWords - 1 of the address space are RAM
    LoSpan,        \* words addressed by REGISTER_ADDR_LO alone
    HiSpan,        \* values REGISTER_ADDR_HI tells apart
    Val,           \* contents of a word
    Files,         \* host files: each the contents of MaxSectors sectors
    ZeroWord,      \* memset(img, 0, ..)
    NoMem,         \* what physmem_read32 returns where there is no memory
    UsesBusyBit    \* uses_busy_bit: initialised without interrupt and CPU

ASSUME DiskConstants ==
    /\ SectorWords \in Nat \ {0} /\ MaxSectors \in Nat \ {0}
    /\ MaxSecno \in Nat /\ RamWords \in Nat
    /\ LoSpan \in Nat \ {0} /\ HiSpan \in Nat \ {0} /\ SectorWords <= LoSpan * HiSpan
    /\ ZeroWord \in Val /\ NoMem \in Val
    /\ Files \subseteq [0 .. MaxSectors - 1 -> [0 .. SectorWords - 1 -> Val]]
    /\ UsesBusyBit \in BOOLEAN

VARIABLES
    diskType,     \* disk_type
    size,         \* size / 512
    img,          \* the image: sector -> word -> contents
    diskPtr,      \* disk_ptr
    diskSecno,    \* disk_secno, the register
    status,       \* disk_status, as the set of its flags
    action,       \* action
    secno,        \* secno, the sector of the current action
    cnt,          \* cnt, words moved so far
    ig,           \* ig
    line,         \* the interrupt input of the CPU this disk is wired to
    mem,          \* physical memory
    \* Auxiliary: where the current action started, and
    \* whether nothing but ddisk_step touched what it transfers since then.
    start, quiet   \* (start = 0 and quiet while no action runs)

diskVars == <<diskType, size, img>>
regVars  == <<diskPtr, diskSecno, status>>
actVars  == <<action, secno, cnt>>
irqVars  == <<ig, line>>
auxVars  == <<start, quiet>>
vars == <<diskType, size, img, diskPtr, diskSecno, status, action, secno, cnt,
          ig, line, mem, start, quiet>>

Ram      == 0 .. RamWords - 1
Span     == LoSpan * HiSpan
Addr     == 0 .. Span - 1
Words    == 0 .. SectorWords - 1
Sector   == [Words -> Val]
Image(n) == [0 .. n - 1 -> Sector]
Commands == SUBSET {"READ", "WRITE", "INT_ACK"}

(***************************************************************************)
(* ddisk_init                                                              *)
(***************************************************************************)
Init ==
    /\ diskType = "NONE" /\ size = 0 /\ img = [s \in {} |-> ZeroWord]
    /\ diskPtr = 0 /\ diskSecno = 0 /\ status = {}
    /\ action = "NONE" /\ secno = 0 /\ cnt = 0
    /\ ig = FALSE /\ line = FALSE
    /\ mem \in [Ram -> Val]
    /\ start = 0 /\ quiet = TRUE

(***************************************************************************)
(* Physical memory, as the device uses it                                  *)
(***************************************************************************)
MemRead(a)     == IF a \in Ram THEN mem[a] ELSE NoMem
MemWrite(a, v) == mem' = [x \in Ram |-> IF x = a THEN v ELSE mem[x]]

(* The DMA pointer is as wide as the address space and wraps at its end. *)
Wrap(a) == IF a >= Span THEN a - Span ELSE a

(* The words the current action transfers. *)
Buffer == {Wrap(start + i) : i \in Words}

(***************************************************************************)
(* Register writes                                                         *)
(***************************************************************************)
WriteAddrLo(v) ==
    /\ diskType # "NONE"
    /\ diskPtr' = (diskPtr - (diskPtr % LoSpan)) + v
    /\ quiet' = (quiet /\ action = "NONE")
    /\ UNCHANGED <<diskVars, diskSecno, status, actVars, irqVars, mem, start>>

WriteAddrHi(v) ==
    /\ diskType # "NONE"
    /\ diskPtr' = (diskPtr % LoSpan) + (v * LoSpan)
    /\ quiet' = (quiet /\ action = "NONE")
    /\ UNCHANGED <<diskVars, diskSecno, status, actVars, irqVars, mem, start>>

WriteSecno(s) ==
    /\ diskType # "NONE"
    /\ diskSecno' = s
    /\ UNCHANGED <<diskVars, diskPtr, status, actVars, irqVars, mem, auxVars>>

(* The three rejections of ddisk_write32: both directions at once, a
   transfer in progress, and a sector outside the image (tested for every
   command, an acknowledgement included). *)
Rejects(c) ==
    \/ {"READ", "WRITE"} \subseteq c
    \/ c \cap {"READ", "WRITE"} # {} /\ action # "NONE"
    \/ diskSecno + 1 > size

Starts(c) == c \cap {"READ", "WRITE"} # {}

(* What the COMMAND register does to disk_status, ig and the CPU's line:
   the acknowledgement first, then the outcome of the command. *)
Acked(c) == IF "INT_ACK" \in c THEN status \ {"INT"} ELSE status

CommandStatus(c) ==
    IF Rejects(c) THEN {"ERROR"} \cup (IF UsesBusyBit THEN {} ELSE {"INT"})
    ELSE Acked(c) \cup (IF Starts(c) THEN {"BUSY"} ELSE {})

CommandIrq_SilentReject(c, b) == b /\ "INT_ACK" \notin c

CommandIrq(c, b) ==
    IF Rejects(c) /\ ~UsesBusyBit THEN TRUE ELSE b /\ "INT_ACK" \notin c

WriteCommand(c) ==
    /\ diskType # "NONE"
    /\ status' = CommandStatus(c)
    /\ ig' = CommandIrq(c, ig)
    /\ line' = IF UsesBusyBit THEN line ELSE CommandIrq(c, line)
    /\ IF ~Rejects(c) /\ Starts(c)
       THEN /\ action' = IF "WRITE" \in c THEN "WRITE" ELSE "READ"
            /\ cnt' = 0 /\ secno' = diskSecno
            /\ start' = diskPtr /\ quiet' = TRUE
       ELSE UNCHANGED <<actVars, auxVars>>
    /\ UNCHANGED <<diskVars, diskPtr, diskSecno, mem>>

(***************************************************************************)
(* ddisk_step: one word per machine step                                   *)
(***************************************************************************)
Transfer_PointerFirst ==
    \/ /\ action = "READ"
       /\ MemWrite(Wrap(diskPtr + 1), img[secno][cnt])
       /\ UNCHANGED img
    \/ /\ action = "WRITE"
       /\ img' = [img EXCEPT ![secno][cnt] = MemRead(Wrap(diskPtr + 1))]
       /\ UNCHANGED mem

Transfer ==
    \/ /\ action = "READ"
       /\ MemWrite(diskPtr, img[secno][cnt])
       /\ UNCHANGED img
    \/ /\ action = "WRITE"
       /\ img' = [img EXCEPT ![secno][cnt] = MemRead(diskPtr)]
       /\ UNCHANGED mem

Finish ==
    /\ action' = "NONE"
    /\ status' = (status \ {"BUSY"}) \cup (IF UsesBusyBit THEN {} ELSE {"INT"})
    /\ ig' = (ig \/ ~UsesBusyBit)
    /\ line' = (line \/ ~UsesBusyBit)
    /\ start' = 0 /\ quiet' = TRUE

StepTo(last) ==
    /\ Transfer
    /\ diskPtr' = Wrap(diskPtr + 1)
    /\ cnt' = cnt + 1
    /\ IF cnt' = last THEN Finish ELSE UNCHANGED <<action, status, irqVars, auxVars>>
    /\ UNCHANGED <<diskType, size, diskSecno, secno>>

Step_StallsOffRam == diskPtr \in Ram /\ StepTo(SectorWords)

Step == StepTo(SectorWords)

(***************************************************************************)
(* Console commands.  ddisk_clean_up cancels the current action, and       *)
(* leaves disk_status, ig and the interrupt line as they are.              *)
(***************************************************************************)
CleanUp_KeepsAction ==
    /\ diskPtr' = 0 /\ cnt' = 0 /\ quiet' = FALSE
    /\ UNCHANGED <<action, secno, diskSecno, status, irqVars, mem, start>>

CleanUp ==
    /\ action' = "NONE" /\ diskPtr' = 0 /\ cnt' = 0
    /\ start' = 0 /\ quiet' = TRUE
    /\ UNCHANGED <<secno, diskSecno, status, irqVars, mem>>

Generic(n) ==
    /\ n > 0
    /\ CleanUp
    /\ diskType' = "MEM" /\ size' = n
    /\ img' = [s \in 0 .. n - 1 |-> [w \in Words |-> ZeroWord]]

Fmap(n, file) ==
    /\ n > 0
    /\ CleanUp
    /\ diskType' = "FMAP" /\ size' = n
    /\ img' = [s \in 0 .. n - 1 |-> file[s]]

(* ddisk_fill and ddisk_load overwrite the image under a transfer. *)
Fill(v) ==
    /\ img' = [s \in DOMAIN img |-> [w \in Words |-> v]]
    /\ quiet' = (quiet /\ action = "NONE")
    /\ UNCHANGED <<diskType, size, regVars, actVars, irqVars, mem, start>>

Load(n, file) ==
    /\ diskType # "NONE" /\ n > 0
    /\ n <= size
    /\ img' = [s \in DOMAIN img |-> IF s < n THEN file[s] ELSE img[s]]
    /\ quiet' = (quiet /\ action = "NONE")
    /\ UNCHANGED <<diskType, size, regVars, actVars, irqVars, mem, start>>

(* A CPU stores into RAM (physmem_write32 from a processor). *)
CpuStore(a, v) ==
    /\ MemWrite(a, v)
    /\ quiet' = (quiet /\ (action = "NONE" \/ a \notin Buffer))
    /\ UNCHANGED <<diskVars, regVars, actVars, irqVars, start>>

Registers ==
    \/ \E v \in 0 .. LoSpan - 1 : WriteAddrLo(v)
    \/ \E v \in 0 .. HiSpan - 1 : WriteAddrHi(v)
    \/ \E s \in 0 .. MaxSecno : WriteSecno(s)
    \/ \E c \in Commands : WriteCommand(c)

Console ==
    \/ \E n \in 1 .. MaxSectors : Generic(n)
    \/ \E n \in 1 .. MaxSectors, file \in Files : Fmap(n, file) \/ Load(n, file)
    \/ \E v \in Val : Fill(v)

Next ==
    \/ Registers
    \/ Console
    \/ \E a \in Ram, v \in Val : CpuStore(a, v)
    \/ Step

(* machine_step() calls the step function of every device in every cycle. *)
Fairness == WF_vars(Step)
Spec == Init /\ [][Next]_vars /\ Fairness

(***************************************************************************)
(* Properties                                                              *)
(***************************************************************************)
(* Every field of disk_data_s holds a value of its type. *)
TypeOK ==
    /\ diskType \in {"NONE", "MEM", "FMAP"}
    /\ size \in Nat /\ img \in Image(size)
    /\ diskPtr \in Addr /\ diskSecno \in Nat
    /\ status \in SUBSET {"INT", "ERROR", "BUSY"}
    /\ action \in {"NONE", "READ", "WRITE"} /\ secno \in Nat /\ cnt \in 0 .. SectorWords
    /\ ig \in BOOLEAN /\ line \in BOOLEAN
    /\ mem \in [Ram -> Val]
    /\ start \in Addr /\ quiet \in BOOLEAN

(* The word img[secno * 128 + cnt] that ddisk_step touches lies inside the
   image, whatever console commands replaced the image since the command was
   accepted and whatever the guest wrote into the registers meanwhile. *)
InFlightInBounds ==
    action # "NONE" => diskType # "NONE" /\ secno < size /\ cnt < SectorWords

(* In interrupt mode the INT flag a driver reads, the pending flag ig and the
   CPU's interrupt line always agree; a disk without an interrupt never
   raises any of them.  The line is moved at five places of ddisk_write32 and
   ddisk_step. *)
InterruptWired ==
    IF UsesBusyBit THEN "INT" \notin status /\ ~ig /\ ~line
    ELSE ("INT" \in status <=> ig) /\ (ig <=> line)

(* Word i of the sector and word i of the DMA buffer agree for every word
   moved so far, as long as nobody else writes either of them. *)
Moved(i) ==
    IF action = "READ"
    THEN Wrap(start + i) \in Ram => mem[Wrap(start + i)] = img[secno][i]
    ELSE img[secno][i] = MemRead(Wrap(start + i))

TransferExact ==
    action # "NONE" /\ quiet =>
        /\ diskPtr = Wrap(start + cnt)
        /\ \A i \in 0 .. cnt - 1 : Moved(i)

(* When ddisk_step ends a READ that nobody disturbed, the whole sector is in
   the buffer; when it ends a WRITE, the whole buffer is in the sector. *)
SectorDelivered ==
    [][Step /\ action' = "NONE" /\ quiet =>
          \A i \in Words :
             IF action = "READ"
             THEN Wrap(start + i) \in Ram => mem'[Wrap(start + i)] = img'[secno][i]
             ELSE img'[secno][i] = MemRead(Wrap(start + i))]_vars

(* Every transfer ends: ddisk_step is called in every machine step and no
   register write can restart or extend the transfer. *)
TransferTerminates == (action # "NONE") ~> (action = "NONE")
=============================================================================
