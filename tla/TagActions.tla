----------------------------- MODULE TagActions -----------------------------
(***************************************************************************)
(* The tag actions of c7n/tags.py, from the moment a policy has enumerated *)
(* its resources: tag, remove-tag and the conditional default over the ec2 *)
(* api, which takes or rejects a batch as a whole; the universal tag and   *)
(* remove-tag over the tagging api, which answers for each resource;       *)
(* and rename-tag.  Batches run on a thread pool.  Meanwhile the resources *)
(* live on: others delete them and change their tags.                      *)
(***************************************************************************)
EXTENDS Integers, Sequences, FiniteSets

CONSTANTS
    Found,        \* the resources the policy matched, in order
    Values,       \* values of the key that is written, removed or renamed
    value,        \* the value that is written
    Others,       \* the other keys of the resources
    Enumerated,   \* the tags the resources may have when they are enumerated
    Edits,        \* the tags somebody else may leave a resource with
    NoTag,        \* no tag
    Kinds,        \* the actions considered
    batch_size,
    tag_count_max,\* tags a resource can have
    max_attempts, \* of universal_retry
    Budgets       \* how many faults of each kind there may be

AllKinds == {"tag", "remove-tag", "default", "universal-tag", "universal-untag",
             "rename-tag"}

\* call: an api call fails; delete: a resource is deleted; edit: somebody
\* changes its tags.
FaultKinds == {"call", "delete", "edit"}

Matched == {Found[i] : i \in 1..Len(Found)}

\* A resource's tags: the old key of a rename, the key that is written, and the
\* others that take up its room.
Tags == [old : Values \cup {NoTag}, new : Values \cup {NoTag}, rest : SUBSET Others]

ASSUME TagAssumption ==
    /\ Found \in Seq(Matched)
    /\ \A i, j \in 1..Len(Found) : Found[i] = Found[j] => i = j
    /\ value \in Values /\ NoTag \notin Values /\ IsFiniteSet(Others)
    /\ Kinds \subseteq AllKinds
    /\ Enumerated \subseteq [Matched -> Tags] /\ Edits \subseteq Tags
    /\ batch_size \in Nat \ {0} /\ tag_count_max \in Nat \ {0}
    /\ max_attempts \in Nat \ {0}
    /\ Budgets \subseteq [FaultKinds -> Nat] /\ Budgets # {}

VARIABLES
    kind,     \* the action that runs
    seen,     \* the tags of each resource as they were enumerated
    tags,     \* as they are
    alive,    \* resources that still exist
    work,     \* for each batch: where its thread is, and the ids it goes on with
    outcome,  \* "running", "ok", or "raised"
    touched,  \* history: resources others changed
    written,  \* history: resources whose key a call has written or removed
    faults    \* what is left of the budget

vars == <<kind, seen, tags, alive, work, outcome, touched, written, faults>>

Spend(k) == faults[k] > 0 /\ faults' = [faults EXCEPT ![k] = @ - 1]

Count(t) ==
    Cardinality(t.rest) + (IF t.old = NoTag THEN 0 ELSE 1) + (IF t.new = NoTag THEN 0 ELSE 1)

-----------------------------------------------------------------------------
(***************************************************************************)
(* What the action divides its resources into.                             *)
(***************************************************************************)
\* utils.chunks, of the resources in rs in the order in which they were found.
Before(i, rs) == {j \in 1..(i - 1) : Found[j] \in rs}
InChunk(i, rs, c) == Found[i] \in rs /\ Cardinality(Before(i, rs)) \div batch_size = c
Chunk(rs, c) == {Found[i] : i \in {n \in 1..Len(Found) : InChunk(n, rs, c)}}
Chunks(rs) == {Chunk(rs, c) : c \in 0..Len(Found)} \ {{}}

\* A conditional default is left out for the resources that have the tag
\* (resolve_and_group, on what was enumerated).
Lacks(r) == seen[r].new = NoTag

\* rename-tag takes the resources with the old key, by its value.
Group(v) == {r \in Matched : seen[r].old = v}
Groups == {Group(v) : v \in Values} \ {{}}

Batches ==
    CASE kind = "default"    -> Chunks({r \in Matched : Lacks(r)})
      [] kind = "rename-tag" -> Groups
      [] OTHER               -> Chunks(Matched)

\* The pool's size.
concurrency ==
    CASE kind \in {"universal-tag", "universal-untag"} -> 1
      [] kind = "rename-tag" -> 3
      [] OTHER -> 2

Init ==
    /\ kind \in Kinds
    /\ seen \in Enumerated /\ tags = seen
    /\ alive = Matched
    /\ work = [b \in Batches |-> [pc |-> "waiting", ids |-> b, calls |-> 0]]
    /\ outcome = "running" /\ touched = {} /\ written = {} /\ faults \in Budgets

-----------------------------------------------------------------------------
(***************************************************************************)
(* Others.                                                                 *)
(***************************************************************************)
Terminate(r) ==
    /\ outcome = "running" /\ r \in alive /\ Spend("delete")
    /\ alive' = alive \ {r}
    /\ UNCHANGED <<kind, seen, tags, work, outcome, touched, written>>

Edit(r, t) ==
    /\ outcome = "running" /\ r \in alive /\ Spend("edit")
    /\ tags' = [tags EXCEPT ![r] = t]
    /\ touched' = touched \cup {r}
    /\ UNCHANGED <<kind, seen, alive, work, outcome, written>>

-----------------------------------------------------------------------------
(***************************************************************************)
(* The threads.                                                            *)
(***************************************************************************)
Running == {b \in DOMAIN work : work[b].pc \notin {"waiting", "done", "raised"}}

At(b, pc) == work[b].pc = pc
To(b, pc) == work' = [work EXCEPT ![b].pc = pc]

Start(b) ==
    /\ At(b, "waiting") /\ Cardinality(Running) < concurrency
    /\ To(b, CASE kind = "rename-tag" -> "create"
               [] kind \in {"universal-tag", "universal-untag"} -> "universal"
               [] OTHER -> "call")
    /\ UNCHANGED <<kind, seen, tags, alive, outcome, touched, written, faults>>

\* The tags of a resource with the new key set to v.
With(t, v) == [t EXCEPT !.new = v]

Wanted == IF kind \in {"remove-tag", "universal-untag"} THEN NoTag ELSE value

\* ec2: create_tags and delete_tags change all of the resources or none.
Fits(ids, v) == \A r \in ids : Count(With(tags[r], v)) <= tag_count_max
Accepted(ids, v) == ids \subseteq alive /\ Fits(ids, v)
Write(ids, v) ==
    /\ tags' = [r \in Matched |-> IF r \in ids THEN With(tags[r], v) ELSE tags[r]]
    /\ written' = written \cup ids

Call(b) ==
    /\ At(b, "call") /\ Accepted(work[b].ids, Wanted)
    /\ Write(work[b].ids, Wanted)
    /\ To(b, "done")
    /\ UNCHANGED <<kind, seen, alive, outcome, touched, faults>>

\* Mutant: the rest of the batch goes with the ids ec2 rejected.
SkipBadIdsAll(b, bad) ==
    /\ At(b, "call") /\ bad # {} /\ bad \subseteq work[b].ids \ alive
    /\ work' = [work EXCEPT ![b].ids = {}, ![b].pc = "done"]
    /\ UNCHANGED <<kind, seen, tags, alive, outcome, touched, written, faults>>

\* Mutant: the call is repeated as it was.
SkipBadIdsKept(b, bad) ==
    /\ At(b, "call") /\ bad # {} /\ bad \subseteq work[b].ids \ alive
    /\ UNCHANGED vars

\* retry_skip_bad_ids: ec2 names resources that are gone, the call is repeated
\* without them.
SkipBadIds(b, bad) ==
    /\ At(b, "call") /\ bad # {} /\ bad \subseteq work[b].ids \ alive
    /\ work' = [work EXCEPT ![b].ids = @ \ bad,
                            ![b].pc = IF bad = work[b].ids THEN "done" ELSE "call"]
    /\ UNCHANGED <<kind, seen, tags, alive, outcome, touched, written, faults>>

\* Any other error, the limit of tags included, ends the batch.
CallRaises(b) ==
    /\ At(b, "call")
    /\ \/ work[b].ids \subseteq alive /\ ~Fits(work[b].ids, Wanted) /\ UNCHANGED faults
       \/ Spend("call")
    /\ To(b, "raised")
    /\ UNCHANGED <<kind, seen, tags, alive, outcome, touched, written>>

-----------------------------------------------------------------------------
\* The resources the tagging api cannot tag for lack of room.
Overfull(ids) == {r \in ids \cap alive : ~Fits({r}, Wanted)}

\* universal_retry, after a call: what is gone is passed over, other errors
\* raise, what was throttled is tried again, up to max_attempts calls.
Decide(b, throttles, errors) ==
    IF errors # {} THEN "raised"
    ELSE IF throttles = {} THEN "done"
    ELSE IF work[b].calls = max_attempts - 1 THEN "raised" ELSE "universal"

\* Mutant: a throttled call is repeated for all of its resources.
UniversalCallWhole(b, throttles) ==
    /\ At(b, "universal")
    /\ LET ids == work[b].ids
           errors == Overfull(ids)
       IN  /\ throttles \subseteq (ids \cap alive) \ errors
           /\ Write((ids \cap alive) \ (throttles \cup errors), Wanted)
           /\ work' = [work EXCEPT ![b] = [pc |-> Decide(b, throttles, errors),
                                           ids |-> IF throttles = {} THEN {} ELSE ids,
                                           calls |-> @.calls + 1]]
    /\ UNCHANGED <<kind, seen, alive, outcome, touched, faults>>

UniversalCall(b, throttles) ==
    /\ At(b, "universal")
    /\ LET ids == work[b].ids
           errors == Overfull(ids)
       IN  /\ throttles \subseteq (ids \cap alive) \ errors
           /\ Write((ids \cap alive) \ (throttles \cup errors), Wanted)
           /\ work' = [work EXCEPT ![b] = [pc |-> Decide(b, throttles, errors),
                                           ids |-> throttles, calls |-> @.calls + 1]]
    /\ UNCHANGED <<kind, seen, alive, outcome, touched, faults>>

UniversalRaises(b) ==
    /\ At(b, "universal") /\ Spend("call")
    /\ To(b, "raised")
    /\ UNCHANGED <<kind, seen, tags, alive, outcome, touched, written>>

-----------------------------------------------------------------------------
(***************************************************************************)
(* process_rename of one value: create where there is room, delete, create *)
(* where there was none.  Any call may fail, and names no resource to skip.*)
(***************************************************************************)
ValueOf(b) == seen[CHOOSE r \in b : TRUE].old
Room(b) == {r \in b : Count(seen[r]) < tag_count_max}

\* Mutant: the old tag is deleted first, whether or not there is room.
CreateLater(b) ==
    /\ At(b, "create")
    /\ To(b, "delete")
    /\ UNCHANGED <<kind, seen, tags, alive, outcome, touched, written, faults>>

Create(b) ==
    /\ At(b, "create") /\ Accepted(Room(b), ValueOf(b))
    /\ Write(Room(b), ValueOf(b))
    /\ To(b, "delete")
    /\ UNCHANGED <<kind, seen, alive, outcome, touched, faults>>

\* delete_tags with a value leaves a tag that has another one.
Delete(b) ==
    /\ At(b, "delete") /\ b \subseteq alive
    /\ tags' = [r \in Matched |-> IF r \in b /\ tags[r].old = ValueOf(b)
                                      THEN [tags[r] EXCEPT !.old = NoTag] ELSE tags[r]]
    /\ To(b, IF Room(b) = b THEN "done" ELSE "recreate")
    /\ UNCHANGED <<kind, seen, alive, outcome, touched, written, faults>>

Recreate(b) ==
    /\ At(b, "recreate") /\ Accepted(b \ Room(b), ValueOf(b))
    /\ Write(b \ Room(b), ValueOf(b))
    /\ To(b, "done")
    /\ UNCHANGED <<kind, seen, alive, outcome, touched, faults>>

RenameRaises(b) ==
    /\ \/ At(b, "create") /\ Room(b) # {} /\ ~Accepted(Room(b), ValueOf(b)) /\ UNCHANGED faults
       \/ At(b, "delete") /\ ~(b \subseteq alive) /\ UNCHANGED faults
       \/ At(b, "recreate") /\ ~Accepted(b \ Room(b), ValueOf(b)) /\ UNCHANGED faults
       \/ At(b, "create") /\ Room(b) # {} /\ Spend("call")
       \/ (At(b, "delete") \/ At(b, "recreate")) /\ Spend("call")
    /\ To(b, "raised")
    /\ UNCHANGED <<kind, seen, tags, alive, outcome, touched, written>>

-----------------------------------------------------------------------------
Ended == \A b \in DOMAIN work : work[b].pc \in {"done", "raised"}

\* _common_tag_processer raises an error of its batches once all have ended;
\* rename-tag logs it.
Finish ==
    /\ outcome = "running" /\ Ended
    /\ outcome' = IF kind # "rename-tag" /\ \E b \in DOMAIN work : work[b].pc = "raised"
                    THEN "raised" ELSE "ok"
    /\ UNCHANGED <<kind, seen, tags, alive, work, touched, written, faults>>

Done ==
    /\ outcome # "running"
    /\ UNCHANGED vars

Thread(b) ==
    \/ Start(b)
    \/ Call(b) \/ CallRaises(b) \/ \E bad \in SUBSET b : SkipBadIds(b, bad)
    \/ UniversalRaises(b) \/ \E throttles \in SUBSET b : UniversalCall(b, throttles)
    \/ Create(b) \/ Delete(b) \/ Recreate(b) \/ RenameRaises(b)

Next ==
    \/ \E r \in Matched : Terminate(r) \/ \E t \in Edits : Edit(r, t)
    \/ \E b \in DOMAIN work : Thread(b)
    \/ Finish \/ Done

Spec == Init /\ [][Next]_vars

\* The threads of a pool run, and api calls return.
FairSpec ==
    Spec /\ WF_vars(Finish) /\ \A b \in SUBSET Matched : WF_vars(b \in DOMAIN work /\ Thread(b))

-----------------------------------------------------------------------------
\* The resources that the action is about.
Considered ==
    {r \in Matched : /\ kind = "default" => Lacks(r)
                     /\ kind = "rename-tag" => seen[r].old # NoTag}

\* Tags, batches and the outcome are well typed; every resource that the action
\* is about is in exactly one batch.
TypeOK ==
    /\ kind \in Kinds /\ seen \in [Matched -> Tags] /\ tags \in [Matched -> Tags]
    /\ alive \subseteq Matched /\ touched \subseteq Matched /\ written \subseteq Matched
    /\ work \in [Batches -> [pc : {"waiting", "call", "universal", "create", "delete",
                                   "recreate", "done", "raised"},
                             ids : SUBSET Matched, calls : Nat]]
    /\ outcome \in {"running", "ok", "raised"} /\ faults \in [FaultKinds -> Nat]
    /\ \A b, c \in DOMAIN work : b = c \/ b \cap c = {}
    /\ UNION DOMAIN work = Considered

\* What nobody else changed, and still exists.
Ours(b) == (b \cap alive) \ touched

\* A batch that has ended without an exception has been applied to every one of
\* its resources that still exists, whatever was deleted, throttled or rejected
\* on the way, and whatever the other batches met.
DoneIsApplied ==
    \A b \in DOMAIN work : work[b].pc = "done" =>
        \A r \in Ours(b) :
            IF kind = "rename-tag"
              THEN tags[r].old = NoTag /\ tags[r].new = seen[r].old
              ELSE tags[r].new = Wanted

\* A tag action that returns has no batch that failed: the policy fails if
\* resources were left out for another reason than that they are gone.
FailuresAreRaised ==
    outcome = "ok" /\ kind # "rename-tag" => \A b \in DOMAIN work : work[b].pc = "done"

\* The tagging api is called at most max_attempts times for a batch.
AttemptsBounded == \A b \in DOMAIN work : work[b].calls <= max_attempts

\* The state is well typed, and the outcome of a tag action can be relied on: a
\* batch that ended well is applied, within its attempts, and one that did not
\* makes the action fail (Tag.process, universal_retry).
OutcomeIsTrue == TypeOK /\ DoneIsApplied /\ FailuresAreRaised /\ AttemptsBounded

\* rename-tag never takes away the value of a resource that nobody else changed,
\* at any moment and whatever call fails, but for the resources that have no room
\* for both keys: those are without it between the last two calls, and stay so if
\* the last one fails (RenameTag.process_rename).
RenameKeepsValue ==
    kind = "rename-tag" =>
        \A b \in DOMAIN work : \A r \in Ours(b) :
            \/ seen[r].old \in {tags[r].old, tags[r].new}
            \/ r \notin Room(b) /\ work[b].pc \in {"recreate", "raised"}

\* What others do to the key of a resource after an action has written it stands:
\* no repeated call, of a batch whose other resources were throttled or are gone,
\* and no later call of a rename writes the key of that resource again
\* (universal_retry, retry_skip_bad_ids, RenameTag.process_rename).
EditsStand ==
    [][\A b \in DOMAIN work : Thread(b) =>
           \A r \in written : tags'[r].new = tags[r].new]_vars

\* The action ends, however many resources disappear under it and however often
\* its calls are throttled.
ActionEnds == <>(outcome # "running")
=============================================================================
