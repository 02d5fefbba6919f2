------------------------------ MODULE FolderTree ------------------------------
(***************************************************************************)
(* The folder hierarchy of an organisation.  The parent link carries no    *)
(* foreign key, so the tree is kept a tree by checks in the code: by       *)
(* FolderService for requests of the API, by FolderRepository for them and *)
(* for the agent's folder_create tool, which calls it directly.  Checks    *)
(* and writes are separate statements, so on Postgres two requests may     *)
(* interleave between them.  One check is one step here.                   *)
(***************************************************************************)
EXTENDS Naturals, FiniteSets, FiniteSetsExt

CONSTANTS
    Folders,     \* folder uids
    MaxDepth,    \* FOLDER_MAX_DEPTH
    Requests     \* requests made, numbered as they arrive

Top == "top"
Absent == "absent"

\* An organisation has finitely many folders; no uid is one of the two marks.
ASSUME FolderAssumption ==
    /\ MaxDepth \in Nat \ {0}
    /\ IsFiniteSet(Folders)
    /\ Folders \cap {Top, Absent} = {}

VARIABLES
    parent,      \* folder -> its parent, Top, or Absent when there is no row
    ruleIn,      \* folder uids that alert rules are filed under
    request,     \* request -> what it does and how far it is
    toolUsed,    \* the agent's tool has created a folder
    met,         \* the kinds of requests that were under way together, in pairs
    ruleLost     \* an alert rule was deleted by a request that was not to

folderVars == <<parent, ruleIn, request, toolUsed, met, ruleLost>>

NoAct == [kind |-> "none", folder |-> Top, to |-> Top, force |-> FALSE]
Idle == [pc |-> "idle", act |-> NoAct, uids |-> {}, gone |-> FALSE]
Done == [pc |-> "done", act |-> NoAct, uids |-> {}, gone |-> FALSE]

Trees == [Folders -> Folders \cup {Top, Absent}]

Present(p) == {f \in Folders : p[f] # Absent}

\* The folders met on the way up from f (a missing parent ends the way).
Above(p, f) ==
    LET up[n \in 0..Cardinality(Folders)] ==
            IF n = 0 THEN {}
            ELSE {p[g] : g \in up[n - 1] \cup {f}} \cap Present(p)
    IN  up[Cardinality(Folders)]

\* listDescendantUids.
Below(p, f) == {g \in Present(p) : f \in Above(p, g)}

\* The length of listAncestors' answer.  Its guard ends the walk on a cycle
\* after MaxDepth + 1 links.
Ancestors(p, f) ==
    IF \E g \in Above(p, f) : g \in Above(p, g) THEN MaxDepth + 1
    ELSE Cardinality(Above(p, f))

\* Levels from the root down to f, and of the subtree under f
\* (measureSubtreeDepth, 1 for a leaf).
Level(p, f) == Ancestors(p, f) + 1
SubtreeDepth(p, f) ==
    1 + Max({0} \cup {Cardinality(Above(p, g)) - Cardinality(Above(p, f)) : g \in Below(p, f)})

\* The levels a tree may have: one more once the agent's tool, which only the
\* repository limits, has built part of it.
Limit(byTool) == IF byTool THEN MaxDepth + 1 ELSE MaxDepth

\* Links lead to folders that exist, never back, and within the limit.
WellFormed(p, byTool) ==
    \A f \in Present(p) :
        /\ p[f] \in {Top} \cup Present(p)
        /\ f \notin Above(p, f)
        /\ Level(p, f) <= Limit(byTool)

Attaching == {"create", "tool", "move"}

\* What a request asks for: to attach a folder somewhere, or to delete one,
\* with its rules if `force`.
Acts ==
    [kind : Attaching, folder : Folders, to : Folders \cup {Top}, force : {FALSE}]
        \cup [kind : {"delete"}, folder : Folders, to : {Top}, force : BOOLEAN]

Kinds == {"create", "tool", "move", "delete", "rule"}

\* A request under way has passed checks and is to write (until its folder's row
\* is gone), or has collected what it is to delete.
AttachRequests ==
    [pc : {"checked", "asserted"}, act : {a \in Acts : a.kind \in Attaching},
     uids : {{}}, gone : BOOLEAN]
DeleteRequests ==
    [pc : {"doomed"}, act : {a \in Acts : a.kind = "delete"},
     uids : SUBSET Folders, gone : {FALSE}]
RequestSet == {Idle, Done} \cup AttachRequests \cup DeleteRequests

\* Every variable has its type.
FolderTypeOK ==
    /\ parent \in Trees
    /\ ruleIn \subseteq Folders
    /\ request \in [Requests -> RequestSet]
    /\ toolUsed \in BOOLEAN /\ ruleLost \in BOOLEAN
    /\ met \subseteq SUBSET Kinds

\* Any tree that requests made one at a time can have built.
FolderInit ==
    /\ toolUsed \in BOOLEAN
    /\ parent \in {p \in Trees : WellFormed(p, toolUsed)}
    /\ ruleIn \in SUBSET Folders
    /\ request = [r \in Requests |-> Idle]
    /\ met = {}
    /\ ruleLost = FALSE

UnderWay == {r \in Requests : request[r].pc \in {"checked", "asserted", "doomed"}}

\* The pairs that arise when a request of this kind starts.
Meets(kind) == {{kind, request[r].act.kind} : r \in UnderWay}

\* FolderService.create's checks: the uid is free, the parent exists, the new
\* folder stays within the limit.
CreateAllowed(p, act) ==
    /\ p[act.folder] = Absent
    /\ act.to # Top =>
          /\ act.to \in Present(p)
          /\ Ancestors(p, act.to) + 2 <= MaxDepth

\* FolderService.update with a limit for the folder and not for its subtree.
MoveAllowedAlone(p, act) ==
    /\ act.folder \in Present(p)
    /\ (act.to # Top /\ act.to # p[act.folder]) =>
          /\ act.to # act.folder
          /\ act.to \notin Below(p, act.folder)
          /\ Ancestors(p, act.to) + 2 <= MaxDepth

\* FolderService.update's checks: not under itself or a descendant, and the
\* whole subtree stays within the limit (on a cycle its measuring never ends).
MoveAllowed(p, act) ==
    /\ act.folder \in Present(p)
    /\ (act.to # Top /\ act.to # p[act.folder]) =>
          /\ act.to # act.folder
          /\ act.to \notin Below(p, act.folder)
          /\ act.folder \notin Below(p, act.folder)
          /\ Ancestors(p, act.to) + 2 + SubtreeDepth(p, act.folder) - 1
                <= MaxDepth

\* FolderRepository.assertParentAndDepth: the parent exists, is not the moved
\* folder nor under it, and has at most MaxDepth levels (so that a folder
\* created past the service may sit one level deeper).
ParentAsserted(p, act) ==
    act.to # Top =>
        /\ act.to \in Present(p)
        /\ act.kind = "move" => act.to # act.folder /\ act.folder \notin Above(p, act.to)
        /\ Level(p, act.to) <= MaxDepth

\* What delete will remove: the folder and all it finds under it.
Doomed(p, act) == {act.folder} \cup Below(p, act.folder)

\* Requests arrive in the order of their numbers.
IsNext(r) == request[r] = Idle /\ \A q \in Requests : q < r => request[q] # Idle

\* Request r, to do act, has passed the checks that come first.
Begins(r, act, pc, uids) ==
    /\ request' = [request EXCEPT ![r] = [pc |-> pc, act |-> act, uids |-> uids, gone |-> FALSE]]
    /\ met' = met \cup Meets(act.kind)
    /\ UNCHANGED <<parent, ruleIn, toolUsed, ruleLost>>

\* A request arrives and passes the service's checks; one that fails them
\* changes nothing.
Arrive(r) ==
    /\ IsNext(r)
    /\ \E act \in Acts :
          \/ act.kind = "create" /\ CreateAllowed(parent, act) /\ Begins(r, act, "checked", {})
          \/ act.kind = "move" /\ MoveAllowed(parent, act) /\ Begins(r, act, "checked", {})
          \/ /\ act.kind = "delete" /\ act.folder \in Present(parent)
             /\ (Doomed(parent, act) \cap ruleIn # {}) => act.force
             /\ Begins(r, act, "doomed", Doomed(parent, act))

\* The agent's folder_create goes to the repository without the service's
\* checks; it picks a uid that is free when it looks.
ToolCreates(r) ==
    /\ IsNext(r)
    /\ \E act \in Acts :
          act.kind = "tool" /\ parent[act.folder] = Absent /\ Begins(r, act, "checked", {})

\* The repository's checks; a request that fails them changes nothing.
AssertParent(r) ==
    /\ request[r].pc = "checked"
    /\ LET act == request[r].act
           moves == act.kind = "move" => act.to # parent[act.folder]
       IN  request' = [request EXCEPT ![r] =
               IF ~request[r].gone /\ (moves => ParentAsserted(parent, act))
               THEN [@ EXCEPT !.pc = "asserted"] ELSE Done]
    /\ UNCHANGED <<parent, ruleIn, toolUsed, met, ruleLost>>

\* The INSERT (which the unique index on the uid may refuse) or the UPDATE
\* (which finds no row once the folder is gone).
Write(r) ==
    /\ request[r].pc = "asserted"
    /\ LET act == request[r].act
           hit == IF act.kind = "move" THEN ~request[r].gone ELSE parent[act.folder] = Absent
       IN  /\ parent' = IF hit THEN [parent EXCEPT ![act.folder] = act.to] ELSE parent
           /\ toolUsed' = (toolUsed \/ (hit /\ act.kind = "tool"))
    /\ request' = [request EXCEPT ![r] = Done]
    /\ UNCHANGED <<ruleIn, met, ruleLost>>

\* delete's transaction: the collected folders, their dashboards and rules.  A
\* move under way has read the id of its folder's row, and a folder made later
\* under the same uid is another row.
Cascade(r) ==
    /\ request[r].pc = "doomed"
    /\ parent' = [f \in Folders |-> IF f \in request[r].uids THEN Absent ELSE parent[f]]
    /\ ruleIn' = ruleIn \ request[r].uids
    /\ ruleLost' = (ruleLost \/ (~request[r].act.force /\ ruleIn \cap request[r].uids # {}))
    /\ request' = [q \in Requests |->
           IF q = r THEN Done
           ELSE IF request[q].act.kind = "move" /\ request[q].act.folder \in request[r].uids
           THEN [request[q] EXCEPT !.gone = TRUE]
           ELSE request[q]]
    /\ UNCHANGED <<toolUsed, met>>

\* Someone files an alert rule under a folder's uid, which nothing checks: a
\* request of its own.
FileRule ==
    /\ \E f \in Folders \ ruleIn : ruleIn' = ruleIn \cup {f}
    /\ met' = met \cup Meets("rule")
    /\ UNCHANGED <<parent, request, toolUsed, ruleLost>>

FolderNext ==
    \/ \E r \in Requests : Arrive(r) \/ ToolCreates(r) \/ AssertParent(r) \/ Write(r) \/ Cascade(r)
    \/ FileRule

FolderSpec == FolderInit /\ [][FolderNext]_folderVars

-----------------------------------------------------------------------------

\* A delete was under way together with a request that attaches a folder.
DeleteMet == \E k \in Attaching : {k, "delete"} \in met

\* Every way the tree can break takes two requests at once, and these: a link to
\* nothing, a delete next to a request that attaches a folder; a cycle, that or
\* two moves; a level past the limit, that or two requests that attach; a rule
\* deleted by a request that was not told to, a rule filed during the delete.
\* Requests made one at a time keep the tree a tree.
OverlapsToBlame ==
    /\ (\E f \in Present(parent) : parent[f] \notin {Top} \cup Present(parent)) => DeleteMet
    /\ (\E f \in Present(parent) : f \in Above(parent, f)) => DeleteMet \/ {"move"} \in met
    /\ (\E f \in Present(parent) : Level(parent, f) > Limit(toolUsed))
          => DeleteMet \/ \E k, l \in Attaching : {k, l} \in met
    /\ ruleLost => {"rule", "delete"} \in met
=============================================================================
