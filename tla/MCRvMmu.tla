------------------------------- MODULE MCRvMmu ------------------------------
(***************************************************************************)
(* Sv32 with two entries in a table, a root and a second table.            *)
(***************************************************************************)
EXTENDS RvMmu

Root == <<0, 0>>
Leaf == <<0, 1>>
MCTables == {Root, Leaf}
Pte(bits, ppn) ==
    [v |-> "v" \in bits, r |-> "r" \in bits, w |-> "w" \in bits, x |-> "x" \in bits,
     u |-> "u" \in bits, g |-> "g" \in bits, ppn |-> ppn]
None == Pte({}, Root)
Pointer == Pte({"v"}, Leaf)
GlobalPointer == Pte({"v", "g"}, Leaf)
Data == Pte({"v", "r", "w", "u"}, <<1, 0>>)
Code == Pte({"v", "x", "g"}, <<1, 1>>)
MCPtes == {None, Pointer, GlobalPointer, Data, Code}

Image(a, b, c, d) ==
    [addr \in MCTables \X {0, 1} |->
        IF addr[1] = Root THEN IF addr[2] = 0 THEN a ELSE b ELSE IF addr[2] = 0 THEN c ELSE d]
MCImages ==
    {[table |-> Image(Pointer, Data, Data, Code), satp |-> [on |-> TRUE, asid |-> 0, root |-> Root]]}

MCStores ==
    {[addr |-> <<Root, 0>>, pte |-> GlobalPointer, ad |-> {}],
     [addr |-> <<Leaf, 0>>, pte |-> Data, ad |-> {}],
     [addr |-> <<Leaf, 1>>, pte |-> Data, ad |-> {"a", "d"}]}
MCFenced == {<<0, 0>>}

Access(kind, virt, priv, sum, mxr, noisy) ==
    [kind |-> kind, virt |-> virt, priv |-> priv, mprv |-> FALSE, mpp |-> 0, sum |-> sum, mxr |-> mxr,
     noisy |-> noisy]
MCAccesses ==
    {Access("read", <<0, 0>>, 0, FALSE, FALSE, TRUE),
     Access("write", <<0, 0>>, 0, FALSE, FALSE, TRUE),
     Access("write", <<0, 0>>, 1, TRUE, FALSE, FALSE),
     Access("fetch", <<0, 1>>, 1, FALSE, FALSE, TRUE),
     [Access("read", <<1, 1>>, 3, TRUE, FALSE, TRUE) EXCEPT !.mprv = TRUE, !.mpp = 1],
     Access("fetch", <<1, 1>>, 3, FALSE, FALSE, TRUE)}
=============================================================================
