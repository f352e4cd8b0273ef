------------------------------ MODULE MCSh2eCpu ------------------------------
(* One processor with a reset line, an external interrupt input and two on-chip
   sources; two or three priority levels. *)
EXTENDS Sh2eCpu, TLC

MCSources == {0, 65, 190, 192}
MCPool == [s \in Sources |-> CASE s = 65 -> 1 [] s = 192 -> 36 [] OTHER -> 37]
MCBootPri == [p \in MyPools |-> MaxPri]

Straight == {"plain", "storeIpr", "ldc", "sleep", "jmp", "illegal"}
Branches == {"trapa", "bt", "bfsNotTaken", "rte"}

Calm  == [kinds |-> Straight \cup Branches, env |-> {},
          lines |-> {190, 192}, levels |-> 0 .. 2]
Reset == [kinds |-> Straight, env |-> {"reset"}, lines |-> {65, 190}, levels |-> {0, 2}]
Storm == [kinds |-> AllKinds, env |-> {"reset", "dmac", "goto"},
          lines |-> {190}, levels |-> {0, 2}]
MCGuests == {Calm, Reset, Storm}
=============================================================================
