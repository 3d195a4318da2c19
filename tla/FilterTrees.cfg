\* All trees of two blocks and three filters, then another policy.
SPECIFICATION Spec
CONSTANTS
    Nodes <- MCNodes
    Root = 0
    None = None
    Trees <- MCTrees
    Policies <- MCPolicies
    Resources <- MCResources
    Hits <- MCHits
    Reported <- MCReported
    Items <- MCResources
    ItemsOf <- MCItemsOf
    ItemHits <- MCHits
INVARIANTS
    MatchIsBoolean
    NotesAreEarned
    TreeIsKept
    FlatKeysRespectBlock
