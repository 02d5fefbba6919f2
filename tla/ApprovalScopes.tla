---------------------------- MODULE ApprovalScopes ----------------------------
(***************************************************************************)
(* Who may see and decide an approval request.  Three pieces of code read  *)
(* the same grants: the list's filter (typed scopes turned into SQL), the  *)
(* detail and decide routes (candidate scopes under the evaluator) and the *)
(* router that notifies approvers.                                         *)
(*                                                                         *)
(* A scope is its segments: "approvals:uid:a" is <<"approvals", "uid",     *)
(* "a">> and the empty scope is <<"">>.  A row has an id, and a connector, *)
(* namespace and team that may be missing ("").                            *)
(***************************************************************************)
EXTENDS Naturals, Sequences

CONSTANTS
    ApprovalRows,   \* approval requests
    GrantSets       \* sets of approvals grants a user may hold

\* A scope has at least one segment; a row may lack all but its id.
Scopes == Seq(STRING) \ {<<>>}
ApprovalRow == [id : STRING, connector : STRING, namespace : STRING, team : STRING]

VARIABLES
    approval,       \* the row a request is about
    held            \* the grants of the user who sends it

scopesVars == <<approval, held>>

ASSUME ScopeAssumption ==
    /\ \A row \in ApprovalRows : row \in ApprovalRow
    /\ \A grants \in GrantSets : \A g \in grants : g \in Scopes

Wildcards == {<<"approvals", "*">>, <<"approvals", "*", "*">>}
AnyScope == {<<"">>, <<"*">>}

\* parseScope: missing segments are wildcards, the identifier is the tail.
ParseScope(s) ==
    IF s = <<"">> THEN [kind |-> "*", attribute |-> "*", identifier |-> <<"*">>]
    ELSE [kind       |-> s[1],
          attribute  |-> IF Len(s) >= 2 THEN s[2] ELSE "*",
          identifier |-> IF Len(s) >= 3 THEN SubSeq(s, 3, Len(s)) ELSE <<"*">>]

\* scopeCovers: a permission for parent suffices for child.
ScopeCovers(parent, child) ==
    LET p == ParseScope(parent)
        c == ParseScope(child)
        matches(a, b, star) == a = star \/ a = b
    IN  \/ parent \in AnyScope
        \/ parent = child
        \/ /\ matches(p.kind, c.kind, "*")
           /\ matches(p.attribute, c.attribute, "*")
           /\ matches(p.identifier, c.identifier, <<"*">>)

\* parseApprovalScope: the kind of a well-formed approvals scope; "malformed"
\* where the code returns null.
ParseApprovalScope(s) ==
    IF s \in Wildcards THEN "wildcard"
    ELSE IF /\ s[1] = "approvals" /\ Len(s) >= 3
            /\ \/ s[2] \in {"uid", "connector", "team"} /\ Len(s) = 3
               \/ s[2] = "namespace" /\ Len(s) = 4
            /\ \A i \in 3..Len(s) : s[i] # ""
    THEN s[2] ELSE "malformed"

\* approvalRowScopes / buildCandidateScopes, forgetting the connector of a namespace.
RowScopesUnpinned(row) ==
    {<<"approvals", "uid", row.id>>}
    \cup {<<"approvals", "connector", c>> : c \in {row.connector} \ {""}}
    \cup {<<"approvals", "namespace", "*", n>> : n \in {row.namespace} \ {""}}
    \cup {<<"approvals", "team", t>> : t \in {row.team} \ {""}}

\* approvalRowScopes / buildCandidateScopes.
RowScopes(row) ==
    {<<"approvals", "uid", row.id>>}
    \cup {<<"approvals", "connector", c>> : c \in {row.connector} \ {""}}
    \cup {<<"approvals", "namespace", row.connector, n>> :
              n \in IF row.connector = "" THEN {} ELSE {row.namespace} \ {""}}
    \cup {<<"approvals", "team", t>> : t \in {row.team} \ {""}}

\* approvalsReadScopeFilter.
ReadFilter(grants) ==
    LET of(kind) == {g \in grants : ParseApprovalScope(g) = kind}
    IN  [wildcard   |-> of("wildcard") # {},
         uids       |-> {g[3] : g \in of("uid")},
         connectors |-> {g[3] : g \in of("connector")},
         nsPairs    |-> {<<g[3], g[4]>> : g \in of("namespace")},
         teams      |-> {g[3] : g \in of("team")}]

\* buildListWhere: a missing column is NULL, which is in no list.
Listed(row, grants) ==
    LET f == ReadFilter(grants)
    IN  \/ f.wildcard
        \/ row.id \in f.uids
        \/ row.connector \in f.connectors
        \/ <<row.connector, row.namespace>> \in f.nsPairs
        \/ row.team \in f.teams

\* evalRowAccess: the row's scopes, and the wildcard only for its holder; any
\* candidate any grant covers.
EvalRowAccess(row, grants) ==
    LET wild == IF grants \cap (Wildcards \cup AnyScope) # {}
                THEN {<<"approvals", "*">>} ELSE {}
    IN  \E want \in RowScopes(row) \cup wild : \E g \in grants : ScopeCovers(g, want)

\* The filter with permission and row in each other's place.
MatchingReversed(row, grants) ==
    {g \in grants : \E candidate \in RowScopes(row) : ScopeCovers(candidate, g)}

\* findApprovers' filter: the permissions whose holders are told of the row.
Matching(row, grants) ==
    {g \in grants : \E candidate \in RowScopes(row) : ScopeCovers(g, candidate)}

\* A grant as an administrator binds it: well formed and naming one thing.
Bound(g) ==
    /\ ParseApprovalScope(g) # "malformed"
    /\ g \notin Wildcards => \A i \in DOMAIN g : g[i] # "*"

-----------------------------------------------------------------------------

\* A decision reads the row and the grants once; nothing in it changes them.
ScopesInit == approval \in ApprovalRows /\ held \in GrantSets

ScopesSpec == ScopesInit /\ [][FALSE]_scopesVars

-----------------------------------------------------------------------------

\* What the list shows, the detail route opens; and for grants as they are
\* bound, the list shows everything the detail route opens.  The list decides
\* by typed scopes and SQL, the detail by scope coverage.
ListAgreesWithDetail(row, grants) ==
    /\ Listed(row, grants) => EvalRowAccess(row, grants)
    /\ (\A g \in grants : Bound(g)) => (EvalRowAccess(row, grants) => Listed(row, grants))

\* The approvers who are told of a row are exactly those who may decide it:
\* the wildcard candidate the decide routes add for its holder changes nothing.
ToldMayDecide(row, grants) == Matching(row, grants) # {} <=> EvalRowAccess(row, grants)

\* The list of approvals and the detail route agree (ListAgreesWithDetail).
VisibilityAgrees == ListAgreesWithDetail(approval, held)

\* The users told of an approval are those who may decide it (ToldMayDecide).
ApproversAgree == ToldMayDecide(approval, held)
=============================================================================
