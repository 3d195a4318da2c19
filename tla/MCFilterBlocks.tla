--------------------------- MODULE MCFilterBlocks ---------------------------
(***************************************************************************)
(* Instances of FilterBlocks for TLC.  Nodes 1 and 2 are blocks, 3, 4 and 5 *)
(* are filters; there is a resource for every combination of the filters   *)
(* that match it, and an access key for every combination.  The resource   *)
(* that every filter would match is not in the credential report.          *)
(***************************************************************************)
EXTENDS FilterBlocks

Bit(n, f) == (n \div 2^(f - 3)) % 2 = 1

MCNodes == 1..5
MCResources == 0..7
MCHits == [f \in MCNodes |-> {r \in MCResources : f > 2 /\ Bit(r, f)}]
MCReported == MCResources \ {7}
MCItemsOf == [r \in MCResources |-> {r, (r + 3) % 8}]

\* The filters of Root, of 1 and of 2.
Shapes == {
    <<<<3, 4>>, << >>, << >>>>,         \* two filters
    <<<<1>>, <<3, 4>>, << >>>>,         \* a block
    <<<<3, 1>>, <<4, 5>>, << >>>>,      \* a filter and a block
    <<<<1, 3>>, <<4, 5>>, << >>>>,
    <<<<1>>, <<2, 3>>, <<4, 5>>>>,      \* a block in a block, and a filter
    <<<<1>>, <<3, 2>>, <<4, 5>>>>,
    <<<<1>>, <<2>>, <<3>>>>}            \* a block of a block

Tree(shape, types) ==
    [type |-> types,
     filters |-> [n \in MCNodes \cup {0} |-> IF n <= 2 THEN shape[n + 1] ELSE << >>]]

\* Blocks that a shape does not use are "and", filters "value".
Types(shape) ==
    {t \in [MCNodes -> BlockTypes \cup LeafTypes] :
        /\ \A n \in {1, 2} : t[n] \in (IF shape[n + 1] = << >> THEN {"and"} ELSE BlockTypes)
        /\ \A n \in {3, 4, 5} : t[n] \in
               (IF \E i \in 1..3 : n \in ToSet(shape[i]) THEN LeafTypes ELSE {"value"})}

MCTrees == UNION {{Tree(s, t) : t \in Types(s)} : s \in Shapes}

\* The second policy: a value filter in a not block and an event filter beside
\* it; a credential filter in an or block.
T5(a, b, c, d, e) == <<a, b, c, d, e>>
Seconds == {Tree(<<<<1>>, <<3, 2>>, <<4, 5>>>>, T5("or", "not", "value", "value", "event")),
            Tree(<<<<3, 1>>, <<4, 5>>, << >>>>, T5("or", "and", "value", "credential", "value"))}

MCPolicies == MCTrees \X Seconds

\* A credential filter, and a block of two others.
Nested == Tree(<<<<3, 1>>, <<4, 5>>, << >>>>,
               T5("or", "and", "credential", "credential", "credential"))
NestedTrees == {Nested}
NestedPolicies == {<<Nested, Nested>>}
=============================================================================
