---------------------------- MODULE FilterBlocks ----------------------------
(***************************************************************************)
(* The filters of a policy (c7n/filters/core.py) and what their evaluation *)
(* leaves on the resources.  Filters nest in or, and and not blocks; each  *)
(* takes a list of resources and returns the ones that match, and notes on *)
(* the resource dictionaries, in place, what matched: value filters their  *)
(* key, credential filters (c7n/resources/iam.py) the access keys, which   *)
(* remove-keys then deletes.  Two policies run one after the other; with   *)
(* the in-memory cache the second gets the dictionaries of the first.      *)
(* Resources have distinct ids, so that a list is a set here.              *)
(***************************************************************************)
EXTENDS Integers, Sequences, FiniteSets, SequencesExt

CONSTANTS
    Nodes,     \* filters and blocks
    Root,      \* the resource manager, the parent of the top level filters
    None,      \* the mark of a block's end; no note
    Trees,     \* the policies considered: the type and the filters of each node
    Policies,  \* pairs of them
    Resources,
    Hits,      \* the resources each value filter matches
    Reported,  \* the ones with an entry in the credential report
    Items,     \* access keys
    ItemsOf,   \* the ones of each resource
    ItemHits   \* the ones each credential filter matches

BlockTypes == {"or", "and", "not"}

\* credential and report are credential filters, whose key names a property of
\* the access keys ("access_keys.active") or one of the report's entry.
LeafTypes == {"value", "credential", "report", "event"}

ASSUME FilterAssumption ==
    /\ Root \notin Nodes /\ None \notin Nodes
    /\ Trees \subseteq [type : [Nodes -> BlockTypes \cup LeafTypes],
                        filters : [Nodes \cup {Root} -> Seq(Nodes)]]
    /\ Policies \subseteq Trees \X Trees
    /\ Hits \in [Nodes -> SUBSET Resources] /\ Reported \subseteq Resources
    /\ ItemsOf \in [Resources -> SUBSET Items]
    /\ ItemHits \in [Nodes -> SUBSET Items]

VARIABLES
    policies,  \* the two policies
    run,       \* which of them runs: 1, 2, or 3
    tree,      \* its filters
    trimmed,   \* its runtime filters have been removed
    event,     \* the event it runs for: none, or whether event filters match it
    next,      \* the top level filter that is applied next, 0 before the query
    resources, \* the resources left
    notes,     \* the annotations of the resource dictionaries
    base       \* history: the annotations when the policy's filters started

vars == <<policies, run, tree, trimmed, event, next, resources, notes, base>>

IsBlock(t, f) == f \in Nodes /\ t.type[f] \in BlockTypes

NoNotes == [r \in Resources |-> [filters |-> << >>, keys |-> None]]

-----------------------------------------------------------------------------
(***************************************************************************)
(* Where a filter is.                                                      *)
(***************************************************************************)
\* iter_filters with block_end: the queue once f was taken from its front.
Unfold(t, f, queue) ==
    IF IsBlock(t, f) THEN Reverse(t.filters[f]) \o <<None>> \o queue ELSE queue

RECURSIVE Search(_, _, _, _)
Search(t, f, queue, stack) ==
    LET g == Head(queue)
    IN  CASE g = None -> Search(t, f, Tail(queue), Front(stack))
          [] g = f    -> Last(stack)
          [] OTHER    -> Search(t, f, Unfold(t, g, Tail(queue)),
                                IF IsBlock(t, g) THEN Append(stack, g) ELSE stack)

get_block_parent(t, f) == Search(t, f, t.filters[Root], <<Root>>)

get_block_operator(t, f) ==
    LET p == get_block_parent(t, f) IN IF IsBlock(t, p) THEN t.type[p] ELSE "and"

\* Mutant: a block that lost its last filter stays.
RemoveFilterOnly(t, f) ==
    [t EXCEPT !.filters[get_block_parent(t, f)] = SelectSeq(@, LAMBDA g : g # f)]

RECURSIVE RemoveFilter(_, _)
RemoveFilter(t, f) ==
    LET p == get_block_parent(t, f)
        u == [t EXCEPT !.filters[p] = SelectSeq(@, LAMBDA g : g # f)]
    IN  IF IsBlock(t, p) /\ u.filters[p] = << >> THEN RemoveFilter(u, p) ELSE u

\* trim_runtime: the tree changes while the queue goes on.
RECURSIVE TrimFrom(_, _)
TrimFrom(t, queue) ==
    IF queue = << >> THEN t
    ELSE LET f == Head(queue)
             rest == IF IsBlock(t, f) THEN Reverse(t.filters[f]) \o Tail(queue)
                     ELSE Tail(queue)
         IN  TrimFrom(IF t.type[f] = "event" THEN RemoveFilter(t, f) ELSE t, rest)

trim_runtime(t) == TrimFrom(t, t.filters[Root])

-----------------------------------------------------------------------------
(***************************************************************************)
(* What a filter does to the resources left and to the notes:              *)
(* s is [kept, notes].                                                     *)
(***************************************************************************)
\* ValueFilter.__call__ adds its key to c7n:MatchedFilters.
ProcessValue(f, s) ==
    LET kept == s.kept \cap Hits[f]
    IN  [kept |-> kept,
         notes |-> [r \in Resources |->
             IF r \in kept THEN [s.notes[r] EXCEPT !.filters = Append(@, f)]
             ELSE s.notes[r]]]

\* Mutant: an or block keeps only what its filters have in common.
MergeSwapped(op, found, had) ==
    IF had = None THEN found ELSE IF op = "or" THEN found \cap had ELSE found \cup had

\* merge_annotation with intersect_list and union_list.
Merge(op, found, had) ==
    IF had = None THEN found ELSE IF op = "or" THEN found \cup had ELSE found \cap had

\* CredentialReport.match: every resource of the report is noted, the ones with
\* a matching access key are kept.
ProcessCredential(t, f, s) ==
    [kept |-> {r \in s.kept \cap Reported : ItemsOf[r] \cap ItemHits[f] # {}},
     notes |-> [r \in Resources |->
         IF r \in s.kept \cap Reported
           THEN [s.notes[r] EXCEPT !.keys =
                    Merge(get_block_operator(t, f), ItemsOf[r] \cap ItemHits[f], @)]
           ELSE s.notes[r]]]

\* With a key of the report's entry, nothing is noted.
ProcessReport(f, s) == [s EXCEPT !.kept = @ \cap Reported \cap Hits[f]]

\* EventFilter.process: everything or nothing.
ProcessEvent(s, ev) == [s EXCEPT !.kept = IF ev = "miss" THEN {} ELSE @]

\* Mutant: what a failed block noted stays.
SweepNothing(s, u, matched) == u.notes

\* AnnotationSweeper: the resources of s that are not among the matched get the
\* notes back that they had before the block.
Sweep(s, u, matched) ==
    [r \in Resources |-> IF r \in s.kept \ matched THEN s.notes[r] ELSE u.notes[r]]

\* Mutant: the filters of an or block are applied one after the other.
OrResultChained(s, x, y) == [kept |-> y.kept, notes |-> y.notes]

\* The union of what the filters of an or block return.
OrResult(s, x, y) == [kept |-> x.kept \cup y.kept, notes |-> y.notes]

RECURSIVE Process(_, _, _, _)

\* The filters one after the other, until no resource is left.
InTurn(t, fs, s, ev) ==
    FoldLeft(LAMBDA x, f : IF x.kept = {} THEN x ELSE Process(t, f, x, ev), s, fs)

ProcessOr(t, f, s, ev) ==
    FoldLeft(LAMBDA x, g : OrResult(s, x, Process(t, g, [s EXCEPT !.notes = x.notes], ev)),
             [s EXCEPT !.kept = {}], t.filters[f])

ProcessAnd(t, f, s, ev) ==
    LET u == InTurn(t, t.filters[f], s, ev)
    IN  [kept |-> u.kept, notes |-> Sweep(s, u, u.kept)]

ProcessNot(t, f, s, ev) ==
    LET u == InTurn(t, t.filters[f], s, ev)
    IN  [kept |-> s.kept \ u.kept, notes |-> Sweep(s, u, {})]

Process(t, f, s, ev) ==
    CASE t.type[f] = "value"      -> ProcessValue(f, s)
      [] t.type[f] = "credential" -> ProcessCredential(t, f, s)
      [] t.type[f] = "report"     -> ProcessReport(f, s)
      [] t.type[f] = "event"      -> ProcessEvent(s, ev)
      [] t.type[f] = "or"         -> ProcessOr(t, f, s, ev)
      [] t.type[f] = "and"        -> ProcessAnd(t, f, s, ev)
      [] t.type[f] = "not"        -> ProcessNot(t, f, s, ev)

-----------------------------------------------------------------------------
(***************************************************************************)
(* The two policies.                                                       *)
(***************************************************************************)
Init ==
    /\ policies \in Policies /\ run = 1 /\ tree = policies[1] /\ trimmed = FALSE
    /\ event = "none" /\ next = 0 /\ resources = {} /\ notes = NoNotes /\ base = NoNotes

\* Policy.__call__ of a dry run, or before provisioning.
TrimRuntimeFilters ==
    /\ run < 3 /\ next = 0 /\ ~trimmed
    /\ tree' = trim_runtime(tree) /\ trimmed' = TRUE
    /\ UNCHANGED <<policies, run, event, next, resources, notes, base>>

\* The resources come from the provider, or, from the in-memory cache, with the
\* notes that they have.
Start(ev, had) ==
    /\ run < 3 /\ next = 0 /\ (trimmed => ev = "none")
    /\ event' = ev /\ next' = 1 /\ resources' = Resources
    /\ notes' = had /\ base' = had
    /\ UNCHANGED <<policies, run, tree, trimmed>>

Top == tree.filters[Root]

\* filter_resources.
Filter ==
    /\ next \in 1..Len(Top)
    /\ LET u == InTurn(tree, <<Top[next]>>, [kept |-> resources, notes |-> notes], event)
       IN  resources' = u.kept /\ notes' = u.notes
    /\ next' = next + 1
    /\ UNCHANGED <<policies, run, tree, trimmed, event, base>>

NextPolicy ==
    /\ next > Len(Top) /\ run < 3
    /\ run' = run + 1 /\ next' = 0 /\ resources' = {} /\ trimmed' = FALSE
    /\ tree' = IF run = 1 THEN policies[2] ELSE tree
    /\ UNCHANGED <<policies, event, notes, base>>

Over ==
    /\ run = 3
    /\ UNCHANGED vars

Next ==
    \/ TrimRuntimeFilters \/ Filter \/ NextPolicy \/ Over
    \/ \E ev \in {"none", "match", "miss"}, had \in {NoNotes, notes} : Start(ev, had)

Spec == Init /\ [][Next]_vars

-----------------------------------------------------------------------------
\* The policy, the resources and their notes are well typed.
TypeOK ==
    /\ policies \in Policies /\ run \in 1..3 /\ trimmed \in BOOLEAN
    /\ event \in {"none", "match", "miss"}
    /\ DOMAIN tree.filters = Nodes \cup {Root} /\ next \in 0..(Len(Top) + 1)
    /\ resources \subseteq Resources
    /\ \A r \in Resources : notes[r].filters \in Seq(Nodes)
                            /\ (notes[r].keys = None \/ notes[r].keys \subseteq Items)

\* The reference: a filter as a condition on one resource.
RECURSIVE Holds(_, _, _)
Holds(t, f, r) ==
    LET fs == t.filters[f]
        all == \A i \in 1..Len(fs) : Holds(t, fs[i], r)
    IN  CASE t.type[f] = "value"      -> r \in Hits[f]
          [] t.type[f] = "credential" -> r \in Reported /\ ItemsOf[r] \cap ItemHits[f] # {}
          [] t.type[f] = "report"     -> r \in Reported \cap Hits[f]
          [] t.type[f] = "event"      -> event # "miss"
          [] t.type[f] = "or"         -> \E i \in 1..Len(fs) : Holds(t, fs[i], r)
          [] t.type[f] = "and"        -> all
          [] t.type[f] = "not"        -> ~all

Passed(r, n) == \A i \in 1..(n - 1) : Holds(tree, Top[i], r)

\* The evaluation of whole lists, with its early ends, its identities and the
\* notes it reads and restores, keeps exactly the resources for which the
\* filters hold as Boolean conditions, also on the cached dictionaries that
\* another policy has annotated.
MatchIsBoolean == next > 0 => resources = {r \in Resources : Passed(r, next)}

\* The reference: the value filters that count for a resource; the ones of a
\* block count only if the block holds, the ones of a not block never.
RECURSIVE Earned(_, _, _)
Earned(t, f, r) ==
    IF t.type[f] \in {"credential", "report", "event", "not"} \/ ~Holds(t, f, r) THEN << >>
    ELSE IF t.type[f] = "value" THEN <<f>>
    ELSE FoldLeft(LAMBDA x, g : x \o Earned(t, g, r), << >>, t.filters[f])

RECURSIVE EarnedUpTo(_, _)
EarnedUpTo(r, n) ==
    IF n = 0 THEN << >>
    ELSE EarnedUpTo(r, n - 1)
         \o (IF Passed(r, n) THEN Earned(tree, Top[n], r) ELSE << >>)

\* Whatever the nesting, c7n:MatchedFilters has what it had before the policy
\* and then the filters that count for the resource, in order: a block that did
\* not match leaves nothing behind and takes nothing away.
NotesAreEarned ==
    next > 0 => \A r \in Resources :
        notes[r].filters = base[r].filters \o EarnedUpTo(r, next - 1)

\* The traversal with its stack of open blocks finds the block a filter is in,
\* for every filter of every policy, trimmed or not.
ParentsAreParents ==
    \A p \in Nodes \cup {Root} : \A i \in 1..Len(tree.filters[p]) :
        get_block_parent(tree, tree.filters[p][i]) = p

\* The reference: the runtime filters below f, and the blocks that have nothing
\* else in them.
RECURSIVE Runtime(_, _)
Runtime(t, f) ==
    \/ t.type[f] = "event"
    \/ IsBlock(t, f) /\ \A i \in 1..Len(t.filters[f]) : Runtime(t, t.filters[f][i])

\* Removing filters from the tree that is being traversed removes the runtime
\* filters, and the blocks they leave empty, and nothing else.
TrimIsExact ==
    run < 3 /\ trimmed =>
        \A p \in {Root} \cup {f \in Nodes : ~Runtime(policies[run], f)} :
            tree.filters[p] = SelectSeq(policies[run].filters[p],
                                        LAMBDA f : ~Runtime(policies[run], f))

\* The state is well typed, and the tree of filters stays what the policy says
\* while it is traversed and trimmed: filters are found in their blocks, and only
\* runtime filters go.
TreeIsKept == TypeOK /\ ParentsAreParents /\ TrimIsExact

Credentials(fs) == \A i \in 1..Len(fs) : tree.type[fs[i]] = "credential"
KeysOf(fs, r) == {k \in ItemsOf[r] : \A i \in 1..Len(fs) : k \in ItemHits[fs[i]]}
AnyKeysOf(fs, r) == {k \in ItemsOf[r] : \E i \in 1..Len(fs) : k \in ItemHits[fs[i]]}

\* On resources without notes, credential filters side by side note the access
\* keys that match all of them, and in an or block the ones that match any.
FlatKeysRespectBlock ==
    next = Len(Top) + 1 /\ base = NoNotes =>
        \A r \in resources :
            /\ Top # << >> /\ Credentials(Top) => notes[r].keys = KeysOf(Top, r)
            /\ Len(Top) = 1 /\ tree.type[Top[1]] = "or" /\ Credentials(tree.filters[Top[1]])
                   => notes[r].keys = AnyKeysOf(tree.filters[Top[1]], r)

\* The reference: credential filters in and and or blocks, as a condition on one
\* access key.
RECURSIVE KeyHolds(_, _, _)
KeyHolds(t, f, k) ==
    LET fs == t.filters[f]
    IN  CASE t.type[f] = "credential" -> k \in ItemHits[f]
          [] t.type[f] = "or"  -> \E i \in 1..Len(fs) : KeyHolds(t, fs[i], k)
          [] t.type[f] = "and" -> \A i \in 1..Len(fs) : KeyHolds(t, fs[i], k)
          [] OTHER -> TRUE

\* "annotation merging with previous respecting block operators": the access
\* keys noted, which remove-keys deletes, satisfy the policy's filters.
MatchedKeysSatisfyFilters ==
    next = Len(Top) + 1 /\ base = NoNotes =>
        \A r \in resources :
            notes[r].keys = None
            \/ \A k \in notes[r].keys : \A i \in 1..Len(Top) : KeyHolds(tree, Top[i], k)
=============================================================================
