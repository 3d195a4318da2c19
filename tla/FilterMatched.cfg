\* A credential filter beside an or block of two others.
SPECIFICATION Spec
CONSTANTS
    Nodes <- MCNodes
    Root = 0
    None = None
    Trees <- NestedTrees
    Policies <- NestedPolicies
    Resources <- MCResources
    Hits <- MCHits
    Reported <- MCReported
    Items <- MCResources
    ItemsOf <- MCItemsOf
    ItemHits <- MCHits
INVARIANTS
    MatchedKeysSatisfyFilters
