--------------------------- MODULE ResourceProofs ---------------------------
(***************************************************************************)
(* Proofs about FolderTree, for every finite set of folders, every limit   *)
(* on their depth and any number of requests that overlap, and about       *)
(* ApprovalScopes, for every approval and every set of grants.             *)
(***************************************************************************)
EXTENDS FolderTree, ApprovalScopes, LoopLemmas, FiniteSetTheorems, TLAPS

-----------------------------------------------------------------------------
(* FolderTree: what a tree is, and what the checks of a request still say. *)

Linked(p) == \A f \in Present(p) : p[f] \in {Top} \cup Present(p)
Acyclic(p) == \A f \in Present(p) : f \notin Above(p, f)

\* Requests that are under way together have met.
PairsMet ==
    \A q, r \in UnderWay : q # r => {request[q].act.kind, request[r].act.kind} \in met

\* A delete that was to spare the rules finds one only if it met a rule.
RulesSpared ==
    /\ ruleLost => {"rule", "delete"} \in met
    /\ \A r \in Requests :
          (request[r].pc = "doomed" /\ ~request[r].act.force /\ ruleIn \cap request[r].uids # {})
             => {"rule", "delete"} \in met

\* A move whose row is there finds its folder, and a delete took the row.
RowsKnown ==
    \A r \in Requests :
        request[r].pc \in {"checked", "asserted"} /\ request[r].act.kind = "move" =>
            IF request[r].gone THEN DeleteMet ELSE request[r].act.folder \in Present(parent)

TwoMoves == {"move"} \in met
TwoAttached == \E k, l \in Attaching : {k, l} \in met

LinksHold ==
    /\ Linked(parent)
    /\ \A r \in Requests :
          /\ request[r].pc = "asserted" => request[r].act.to \in {Top} \cup Present(parent)
          /\ request[r].pc = "doomed" =>
                \A f \in Present(parent) : parent[f] \in request[r].uids => f \in request[r].uids

NoCycles ==
    /\ Acyclic(parent)
    /\ \A r \in Requests :
          LET act == request[r].act
          IN  request[r].pc = "asserted" /\ act.kind = "move" /\ act.to # Top =>
                  act.to # act.folder /\ act.folder \notin Above(parent, act.to)

Shallow ==
    /\ \A f \in Present(parent) : Level(parent, f) <= Limit(toolUsed)
    /\ \A r \in Requests :
          LET act == request[r].act
          IN  request[r].pc \in {"checked", "asserted"} =>
                /\ act.kind = "create" => CreateAllowed(parent, act)
                /\ act.kind = "move" => MoveAllowed(parent, act)
                /\ act.kind = "tool" /\ act.to # Top /\ request[r].pc = "asserted" =>
                      Level(parent, act.to) <= MaxDepth

FolderInv ==
    /\ FolderTypeOK /\ PairsMet /\ RulesSpared /\ RowsKnown
    /\ ~DeleteMet => LinksHold
    /\ ~DeleteMet /\ ~TwoMoves => NoCycles
    /\ ~DeleteMet /\ ~TwoAttached => Shallow


\* One more link up from f and from the folders in S.
Up(p, f, S) == {p[g] : g \in S \cup {f}} \cap Present(p)

\* The walk by which Above is computed, link by link.
LEMMA AboveWalk ==
    ASSUME NEW p \in Trees, NEW f \in Folders
    PROVE  LET N == Cardinality(Folders) IN
           /\ N \in Nat
           /\ \E w \in [0..N -> SUBSET Folders] :
                 /\ w[0] = {} /\ w[N] = Above(p, f)
                 /\ \A i \in 1..N : w[i] = Up(p, f, w[i - 1])
<1> DEFINE n == Cardinality(Folders)
           S == SUBSET Folders
           next == [x \in (1..n) \X S |-> Up(p, f, x[2])]
           F(g) == [i \in 0..n |-> IF i = 0 THEN {} ELSE Up(p, f, g[i - 1])]
           up == CHOOSE g : g = F(g)
<1>1. Above(p, f) = up[n]
    BY Zenon DEF Above, Up
<1>2. n \in Nat
    BY Zenon, FolderAssumption, FS_CardinalityType
<1>3. ASSUME NEW v \in S PROVE Up(p, f, v) \in S
    BY Zenon DEF Up, Present
<1> HIDE DEF n, S
<1>4. {} \in S
    BY Zenon DEF S
<1>5. /\ next \in [(1..n) \X S -> S]
      /\ \A i \in 1..n, v \in S : next[<<i, v>>] = Up(p, f, v)
    BY Zenon, <1>3
<1> HIDE DEF next
<1>6. PICK g \in [0..n -> S] : Unrolls(g, n, {}, next)
    BY Zenon, <1>2, <1>4, <1>5, Unroll
<1>7. g = F(g)
  <2>1. ASSUME NEW i \in 0..n, i # 0 PROVE g[i] = Up(p, f, g[i - 1])
    <3>1. i \in 1..n /\ i - 1 \in 0..n
        BY <1>2, <2>1
    <3> QED
        BY Zenon, <1>5, <1>6, <3>1 DEF Unrolls
  <2> QED
    BY Zenon, <1>2, <1>6, <2>1 DEF Unrolls
<1>8. up = F(up)
  <2> HIDE DEF F
  <2> QED
    BY Zenon, <1>7
<1> HIDE DEF up
<1>9. /\ 0 \in 0..n /\ n \in 0..n
      /\ \A i \in 1..n : i \in 0..n /\ i # 0 /\ i - 1 \in 0..n
    BY <1>2
<1>10. up[0] = {} /\ \A i \in 1..n : up[i] = Up(p, f, up[i - 1])
    BY Zenon, <1>8, <1>9
<1>11. up = [i \in 0..n |-> up[i]]
    BY Zenon, <1>8
<1> DEFINE T == {i \in Nat : i <= n => up[i] \in S}
<1>12. 0 \in T
    BY Zenon, <1>4, <1>10
<1>13. ASSUME NEW i \in Nat, i \in T PROVE i + 1 \in T
  <2> SUFFICES ASSUME i + 1 <= n PROVE up[i + 1] \in S
    OBVIOUS
  <2>1. i + 1 \in 1..n /\ (i + 1) - 1 = i /\ up[i] \in S
    BY <1>2, <1>13
  <2> QED
    BY Zenon, <1>3, <1>10, <2>1
<1>14. \A i \in 0..n : up[i] \in S
  <2>1. Nat \subseteq T
    <3> HIDE DEF T
    <3> QED
        BY Zenon, <1>12, <1>13, NatSetInduction
  <2> QED
    BY <1>2, <2>1
<1>15. up \in [0..n -> S]
    BY Zenon, <1>11, <1>14
<1> QED
    BY Zenon, <1>1, <1>2, <1>10, <1>15 DEF n, S

\* A folder chain leaves C only through a folder that does not exist.
ClosedFrom(p, f, C) == \A g \in C \cup {f} : p[g] \in Present(p) => p[g] \in C

\* What Above computes: the least set that holds the parent of f and, with every
\* folder, its parent.  As many links as there are folders are enough, because
\* every link that brings a new set brings a new folder.
LEMMA AboveIsLeast ==
    ASSUME NEW p \in Trees, NEW f \in Folders
    PROVE  /\ Above(p, f) \subseteq Present(p)
           /\ ClosedFrom(p, f, Above(p, f))
           /\ \A C \in SUBSET Folders : ClosedFrom(p, f, C) => Above(p, f) \subseteq C
<1> DEFINE n == Cardinality(Folders)
<1>1. n \in Nat /\ IsFiniteSet(Folders)
    BY Zenon, FolderAssumption, FS_CardinalityType
<1>2. PICK w \in [0..n -> SUBSET Folders] :
        /\ w[0] = {} /\ w[n] = Above(p, f)
        /\ \A i \in 1..n : w[i] = Up(p, f, w[i - 1])
    BY Zenon, AboveWalk
<1>3. \A A, B \in SUBSET Folders : A \subseteq B => Up(p, f, A) \subseteq Up(p, f, B)
    BY Zenon DEF Up
<1> DEFINE U(S) == Up(p, f, S)
           Grown(i) == /\ w[i] \subseteq U(w[i])
                       /\ U(w[i]) \subseteq w[i] \/ Cardinality(w[i]) >= i
           T == {i \in Nat : i <= n => Grown(i)}
<1> HIDE DEF n
<1>4. 0 \in T
  <2>1. IsFiniteSet({}) /\ Cardinality({}) = 0
    BY FS_EmptySet
  <2>2. Cardinality(w[0]) >= 0 /\ w[0] \subseteq U(w[0])
    BY <1>2, <2>1
  <2> QED
    BY Zenon, <2>2
<1>5. ASSUME NEW i \in Nat, i \in T PROVE i + 1 \in T
  <2> SUFFICES ASSUME i + 1 <= n PROVE Grown(i + 1)
    OBVIOUS
  <2>1. i + 1 \in 1..n /\ i + 1 \in 0..n /\ i \in 0..n /\ (i + 1) - 1 = i /\ i <= n
    BY <1>1
  <2>2. w[i] \in SUBSET Folders /\ w[i + 1] \in SUBSET Folders /\ w[i + 1] = U(w[i])
    BY Zenon, <1>2, <2>1
  <2>3. w[i] \subseteq w[i + 1] /\ (w[i + 1] \subseteq w[i] \/ Cardinality(w[i]) >= i)
    BY Zenon, <1>5, <2>1, <2>2
  <2>4. w[i + 1] \subseteq U(w[i + 1])
    BY Zenon, <1>3, <2>2, <2>3
  <2>5. CASE w[i + 1] = w[i]
    BY Zenon, <2>2, <2>4, <2>5
  <2>6. CASE w[i + 1] # w[i]
    <3>1. IsFiniteSet(w[i]) /\ IsFiniteSet(w[i + 1])
        BY Zenon, <1>1, <2>2, FS_Subset
    <3>2. /\ Cardinality(w[i]) \in Nat /\ Cardinality(w[i + 1]) \in Nat
          /\ Cardinality(w[i]) <= Cardinality(w[i + 1])
          /\ Cardinality(w[i + 1]) # Cardinality(w[i])
      <4>1. w[i] \in SUBSET w[i + 1]
        BY Zenon, <2>3
      <4> QED
        BY Zenon, <2>6, <3>1, <4>1, FS_Subset, FS_CardinalityType
    <3>3. Cardinality(w[i]) >= i
        BY Zenon, <2>3, <2>6
    <3>4. Cardinality(w[i + 1]) >= i + 1
        BY <3>2, <3>3
    <3> QED
        BY Zenon, <2>4, <3>4
  <2> QED
    BY Zenon, <2>5, <2>6
<1>6. Grown(n)
  <2>1. Nat \subseteq T
    <3> HIDE DEF T
    <3> QED
        BY Zenon, <1>4, <1>5, NatSetInduction
  <2> QED
    BY <1>1, <2>1
<1>7. n \in 0..n /\ 0 \in 0..n
    BY <1>1
<1>8. U(w[n]) \subseteq w[n]
  <2> SUFFICES ASSUME Cardinality(w[n]) >= n PROVE U(w[n]) \subseteq w[n]
    BY Zenon, <1>6
  <2>1. w[n] \in SUBSET Folders
    BY Zenon, <1>2, <1>7
  <2>2. Cardinality(w[n]) <= n /\ Cardinality(w[n]) \in Nat /\ (n = Cardinality(w[n]) => Folders = w[n])
    BY Zenon, <1>1, <2>1, FS_Subset, FS_CardinalityType DEF n
  <2>3. w[n] = Folders
    BY <1>1, <2>2
  <2> QED
    BY Zenon, <2>3 DEF Up, Present
<1>9. w[n] = U(w[n])
    BY Zenon, <1>6, <1>8
<1>10. ClosedFrom(p, f, w[n])
    BY Zenon, <1>8 DEF ClosedFrom, Up
<1>11. w[n] \subseteq Present(p)
    BY Zenon, <1>9 DEF Up
<1>12. ASSUME NEW C \in SUBSET Folders, ClosedFrom(p, f, C) PROVE w[n] \subseteq C
  <2>1. U(C) \subseteq C
    BY Zenon, <1>12 DEF ClosedFrom, Up
  <2> DEFINE V == {i \in Nat : i <= n => w[i] \subseteq C}
  <2>2. 0 \in V
    BY Zenon, <1>2
  <2>3. ASSUME NEW i \in Nat, i \in V PROVE i + 1 \in V
    <3> SUFFICES ASSUME i + 1 <= n PROVE w[i + 1] \subseteq C
        OBVIOUS
    <3>1. i + 1 \in 1..n /\ i \in 0..n /\ (i + 1) - 1 = i /\ w[i] \subseteq C
        BY <1>1, <2>3
    <3>2. w[i] \in SUBSET Folders /\ w[i + 1] = U(w[i])
        BY Zenon, <1>2, <3>1
    <3>3. U(w[i]) \subseteq U(C)
        BY Zenon, <1>3, <3>1, <3>2
    <3> QED
        BY Zenon, <2>1, <3>2, <3>3
  <2>4. Nat \subseteq V
    <3> HIDE DEF V
    <3> QED
        BY Zenon, <2>2, <2>3, NatSetInduction
  <2> QED
    BY <1>1, <2>4
<1> HIDE DEF Grown, U
<1> QED
    BY Zenon, <1>2, <1>10, <1>11, <1>12

\* Everything above a folder above f is above f.
LEMMA AboveTrans ==
    ASSUME NEW p \in Trees, NEW f \in Folders, NEW g \in Above(p, f)
    PROVE  g \in Folders /\ Above(p, g) \subseteq Above(p, f)
<1>1. Above(p, f) \subseteq Present(p) /\ ClosedFrom(p, f, Above(p, f))
    BY Zenon, AboveIsLeast
<1>2. Above(p, f) \in SUBSET Folders /\ g \in Folders
    BY Zenon, <1>1 DEF Present
<1>3. ClosedFrom(p, g, Above(p, f))
    BY Zenon, <1>1 DEF ClosedFrom
<1> QED
    BY Zenon, <1>2, <1>3, AboveIsLeast

\* Above f are its parent, if that exists, and what is above the parent.
LEMMA AboveParent ==
    ASSUME NEW p \in Trees, NEW f \in Folders, p[f] \in Present(p)
    PROVE  p[f] \in Above(p, f) /\ Above(p, f) = {p[f]} \cup Above(p, p[f])
<1> DEFINE C == {p[f]} \cup Above(p, p[f])
<1>1. p[f] \in Folders
    BY Zenon DEF Present
<1>2. /\ ClosedFrom(p, f, Above(p, f)) /\ ClosedFrom(p, p[f], Above(p, p[f]))
      /\ Above(p, p[f]) \subseteq Present(p)
    BY Zenon, <1>1, AboveIsLeast
<1>3. p[f] \in Above(p, f)
    BY Zenon, <1>2 DEF ClosedFrom
<1>4. C \in SUBSET Folders
    BY Zenon, <1>1, <1>2 DEF Present
<1>5. ClosedFrom(p, f, C)
    BY Zenon, <1>2 DEF ClosedFrom
<1> HIDE DEF C
<1>6. Above(p, f) \subseteq C
    BY Zenon, <1>4, <1>5, AboveIsLeast
<1>7. C \subseteq Above(p, f)
    BY Zenon, <1>3, AboveTrans DEF C
<1>8. Above(p, f) = C
    BY Zenon, <1>6, <1>7
<1> QED
    BY Zenon, <1>3, <1>8 DEF C

\* Nothing is above a folder whose parent does not exist.
LEMMA AboveNothing ==
    ASSUME NEW p \in Trees, NEW f \in Folders, p[f] \notin Present(p)
    PROVE  Above(p, f) = {}
<1>1. ClosedFrom(p, f, {}) /\ {} \in SUBSET Folders
    BY Zenon DEF ClosedFrom
<1> QED
    BY Zenon, <1>1, AboveIsLeast

\* The way up is a line: of two folders above f, one is above the other.
LEMMA AboveLine ==
    ASSUME NEW p \in Trees, NEW f \in Folders, NEW x \in Above(p, f), NEW h \in Above(p, f)
    PROVE  h = x \/ h \in Above(p, x) \/ x \in Above(p, h)
<1> DEFINE C == {y \in Above(p, f) : y = x \/ y \in Above(p, x) \/ x \in Above(p, y)}
<1>1. Above(p, f) \subseteq Folders /\ ClosedFrom(p, f, Above(p, f)) /\ x \in Folders
    BY Zenon, AboveIsLeast, AboveTrans
<1>2. ClosedFrom(p, x, Above(p, x))
    BY Zenon, <1>1, AboveIsLeast
<1>3. ASSUME NEW g \in C \cup {f}, p[g] \in Present(p) PROVE p[g] \in C
  <2>1. g \in Above(p, f) \cup {f} /\ g \in Folders
    BY Zenon, <1>1
  <2>2. p[g] \in Above(p, f)
    BY Zenon, <1>1, <1>3, <2>1 DEF ClosedFrom
  <2>3. CASE g = x \/ g \in Above(p, x)
    BY Zenon, <1>2, <1>3, <2>2, <2>3 DEF ClosedFrom
  <2>4. CASE x \in Above(p, g)
    <3>1. Above(p, g) = {p[g]} \cup Above(p, p[g])
        BY Zenon, <1>3, <2>1, AboveParent
    <3> QED
        BY Zenon, <2>2, <2>4, <3>1
  <2> QED
    BY Zenon, <2>3, <2>4
<1>4. ClosedFrom(p, f, C) /\ C \in SUBSET Folders
    BY Zenon, <1>1, <1>3 DEF ClosedFrom
<1>5. Above(p, f) \subseteq C
  <2> HIDE DEF C
  <2> QED
    BY Zenon, <1>4, AboveIsLeast
<1> QED
    BY Zenon, <1>5

\* Top and Absent are not folders.
LEMMA Marks ==
    Top \notin Folders /\ Absent \notin Folders /\ Top # Absent
  BY FolderAssumption DEF Top, Absent

\* Deleting folders puts nothing new above one.
LEMMA CutAbove ==
    ASSUME NEW p \in Trees, NEW q \in Trees, NEW f \in Folders,
           \A g \in Folders : q[g] \in {p[g], Absent}
    PROVE  Above(q, f) \subseteq Above(p, f)
<1>1. /\ Above(p, f) \subseteq Present(p) /\ ClosedFrom(p, f, Above(p, f))
    BY Zenon, AboveIsLeast
<1>2. Above(p, f) \in SUBSET Folders
    BY Zenon, <1>1 DEF Present
<1>3. ASSUME NEW g \in Above(p, f) \cup {f}, q[g] \in Present(q) PROVE q[g] \in Above(p, f)
  <2>1. g \in Folders /\ q[g] \in Folders
    BY Zenon, <1>2, <1>3 DEF Present
  <2>2. q[g] = p[g] /\ q[g] \in Present(p)
    BY Zenon, <1>3, <2>1, Marks DEF Present
  <2> QED
    BY Zenon, <1>1, <1>3, <2>2 DEF ClosedFrom
<1> QED
    BY Zenon, <1>2, <1>3, AboveIsLeast DEF ClosedFrom

\* The folder a new parent t brings above the moved or created one.
Over(p, t) == IF t = Top THEN {} ELSE {t} \cup Above(p, t)

\* They are folders, and the way up does not leave them.
LEMMA OverIsClosed ==
    ASSUME NEW p \in Trees, NEW t \in {Top} \cup Present(p)
    PROVE  /\ Over(p, t) \subseteq Present(p)
           /\ t # Top => t \in Over(p, t)
           /\ \A g \in Over(p, t) : p[g] \in Present(p) => p[g] \in Over(p, t)
<1>1. CASE t = Top
    BY Zenon, <1>1 DEF Over
<1>2. CASE t # Top
  <2>1. t \in Folders /\ t \in Present(p)
    BY Zenon, <1>2 DEF Present
  <2>2. Above(p, t) \subseteq Present(p) /\ ClosedFrom(p, t, Above(p, t))
    BY Zenon, <2>1, AboveIsLeast
  <2> QED
    BY Zenon, <1>2, <2>1, <2>2 DEF Over, ClosedFrom
<1> QED
    BY Zenon, <1>1, <1>2

\* Creating a folder where all links lead to folders: it is a leaf, so what is
\* above the others does not change.
LEMMA LeafAbove ==
    ASSUME NEW p \in Trees, Linked(p), NEW x \in Folders, p[x] = Absent,
           NEW t \in {Top} \cup Present(p), NEW q, q = [p EXCEPT ![x] = t]
    PROVE  /\ q \in Trees /\ Present(q) = Present(p) \cup {x}
           /\ \A f \in Present(p) : Above(q, f) \subseteq Above(p, f)
           /\ Above(q, x) \subseteq Over(p, t)
<1>1. /\ q \in Trees /\ q[x] = t /\ \A g \in Folders : g # x => q[g] = p[g]
    BY Zenon DEF Trees, Present
<1>2. t # Absent /\ x \notin Present(p)
    BY Zenon, Marks DEF Present
<1>3. Present(q) = Present(p) \cup {x}
    BY Zenon, <1>1, <1>2 DEF Present
<1>4. ASSUME NEW g \in Present(p), q[g] \in Present(q) PROVE q[g] = p[g] /\ q[g] \in Present(p)
  <2>1. g \in Folders /\ g # x
    BY Zenon, <1>2 DEF Present
  <2>2. q[g] = p[g] /\ p[g] \in {Top} \cup Present(p)
    BY Zenon, <1>1, <2>1 DEF Linked
  <2>3. q[g] # Top
    BY Zenon, <1>4, Marks DEF Present
  <2> QED
    BY Zenon, <2>2, <2>3
<1>5. ASSUME NEW f \in Present(p) PROVE Above(q, f) \subseteq Above(p, f)
  <2>1. f \in Folders
    BY Zenon DEF Present
  <2>2. Above(p, f) \subseteq Present(p) /\ ClosedFrom(p, f, Above(p, f))
    BY Zenon, <2>1, AboveIsLeast
  <2>3. Above(p, f) \in SUBSET Folders
    BY Zenon, <2>2 DEF Present
  <2>4. ClosedFrom(q, f, Above(p, f))
    BY Zenon, <1>4, <2>2 DEF ClosedFrom
  <2> QED
    BY Zenon, <1>1, <2>1, <2>3, <2>4, AboveIsLeast
<1>6. Above(q, x) \subseteq Over(p, t)
  <2>1. /\ Over(p, t) \subseteq Present(p) /\ (t # Top => t \in Over(p, t))
        /\ \A g \in Over(p, t) : p[g] \in Present(p) => p[g] \in Over(p, t)
    BY Zenon, OverIsClosed
  <2>2. Over(p, t) \in SUBSET Folders /\ Top \notin Present(q)
    BY Zenon, <2>1, Marks DEF Present
  <2>3. ClosedFrom(q, x, Over(p, t))
    BY Zenon, <1>1, <1>4, <2>1, <2>2 DEF ClosedFrom
  <2> QED
    BY Zenon, <1>1, <2>2, <2>3, AboveIsLeast
<1> QED
    BY Zenon, <1>1, <1>3, <1>5, <1>6

\* Moving x under t, not itself under x, in a tree without cycles: below x, what
\* was above x is replaced by t and what is above t; elsewhere nothing is new.
LEMMA MoveAbove ==
    ASSUME NEW p \in Trees, Acyclic(p), NEW x \in Present(p),
           NEW t \in {Top} \cup Present(p), x \notin Over(p, t),
           NEW q, q = [p EXCEPT ![x] = t]
    PROVE  /\ q \in Trees /\ Present(q) = Present(p)
           /\ \A f \in Present(p) :
                 IF f = x \/ x \in Above(p, f)
                 THEN Above(q, f) \subseteq (Above(p, f) \ Above(p, x)) \cup Over(p, t)
                 ELSE Above(q, f) \subseteq Above(p, f)
<1>1. /\ q \in Trees /\ q[x] = t /\ x \in Folders /\ \A g \in Folders : g # x => q[g] = p[g]
    BY Zenon DEF Trees, Present
<1>2. Present(q) = Present(p)
    BY Zenon, <1>1, Marks DEF Present
<1>3. /\ Over(p, t) \subseteq Present(p) /\ (t # Top => t \in Over(p, t))
      /\ \A g \in Over(p, t) : p[g] \in Present(p) => p[g] \in Over(p, t)
    BY Zenon, OverIsClosed
<1>4. Over(p, t) \in SUBSET Folders /\ Top \notin Present(p)
    BY Zenon, <1>3, Marks DEF Present
<1>5. ASSUME NEW g \in Over(p, t) \cup {x}, q[g] \in Present(q) PROVE q[g] \in Over(p, t)
    BY Zenon, <1>1, <1>2, <1>3, <1>4, <1>5
<1>6. ASSUME NEW f \in Present(p) PROVE
        IF f = x \/ x \in Above(p, f)
        THEN Above(q, f) \subseteq (Above(p, f) \ Above(p, x)) \cup Over(p, t)
        ELSE Above(q, f) \subseteq Above(p, f)
  <2>1. f \in Folders
    BY Zenon DEF Present
  <2>2. Above(p, f) \subseteq Present(p) /\ ClosedFrom(p, f, Above(p, f))
    BY Zenon, <2>1, AboveIsLeast
  <2>3. Above(p, f) \in SUBSET Folders
    BY Zenon, <2>2 DEF Present
  <2>4. CASE f = x
    <3>1. ClosedFrom(q, f, Over(p, t))
        BY Zenon, <1>5, <2>4 DEF ClosedFrom
    <3>2. Above(q, f) \subseteq Over(p, t)
        BY Zenon, <1>1, <1>4, <2>1, <3>1, AboveIsLeast
    <3> QED
        BY Zenon, <2>4, <3>2
  <2>5. CASE f # x /\ x \in Above(p, f)
    <3> DEFINE C == (Above(p, f) \ Above(p, x)) \cup Over(p, t)
    <3>1. C \in SUBSET Folders
        BY Zenon, <1>4, <2>3
    <3>2. ASSUME NEW g \in C \cup {f}, q[g] \in Present(q) PROVE q[g] \in C
      <4>1. CASE g = x \/ g \in Over(p, t)
        BY Zenon, <1>5, <3>2, <4>1
      <4>2. CASE g # x /\ g \in Above(p, f) \cup {f} /\ g \notin Above(p, x)
        <5>1. g \in Folders
            BY Zenon, <2>1, <2>3, <4>2
        <5>2. q[g] = p[g] /\ p[g] \in Present(p) /\ p[g] \in Above(p, f)
            BY Zenon, <1>1, <1>2, <2>2, <3>2, <4>2, <5>1 DEF ClosedFrom
        <5>3. x \in Above(p, g)
            BY Zenon, <2>1, <2>5, <4>2, AboveLine
        <5>4. x = p[g] \/ x \in Above(p, p[g])
          <6>1. Above(p, g) = {p[g]} \cup Above(p, p[g])
            BY Zenon, <5>1, <5>2, AboveParent
          <6> QED
            BY Zenon, <5>3, <6>1
        <5>5. x \notin Above(p, x)
            BY Zenon DEF Acyclic
        <5>6. p[g] \notin Above(p, x)
            BY Zenon, <1>1, <5>4, <5>5, AboveTrans
        <5> QED
            BY Zenon, <5>2, <5>6
      <4>3. f \notin Above(p, x)
        <5>1. f \in Above(p, x) => Above(p, f) \subseteq Above(p, x)
            BY Zenon, <1>1, AboveTrans
        <5> QED
            BY Zenon, <2>5, <5>1 DEF Acyclic
      <4> QED
        BY Zenon, <4>1, <4>2, <4>3
    <3>3. ClosedFrom(q, f, C)
        BY Zenon, <3>2 DEF ClosedFrom
    <3> HIDE DEF C
    <3>4. Above(q, f) \subseteq C
        BY Zenon, <1>1, <2>1, <3>1, <3>3, AboveIsLeast
    <3> QED
        BY Zenon, <2>5, <3>4 DEF C
  <2>6. CASE f # x /\ x \notin Above(p, f)
    <3>1. ASSUME NEW g \in Above(p, f) \cup {f}, q[g] \in Present(q) PROVE q[g] \in Above(p, f)
        BY Zenon, <1>1, <1>2, <2>1, <2>2, <2>3, <2>6, <3>1 DEF ClosedFrom
    <3>2. Above(q, f) \subseteq Above(p, f)
        BY Zenon, <1>1, <2>1, <2>3, <3>1, AboveIsLeast DEF ClosedFrom
    <3> QED
        BY Zenon, <2>6, <3>2
  <2> QED
    BY Zenon, <2>4, <2>5, <2>6
<1> QED
    BY Zenon, <1>1, <1>2, <1>6

\* Such a move makes no cycle.
LEMMA MoveAcyclic ==
    ASSUME NEW p \in Trees, Acyclic(p), NEW x \in Present(p),
           NEW t \in {Top} \cup Present(p), x \notin Over(p, t),
           NEW q, q = [p EXCEPT ![x] = t]
    PROVE  Acyclic(q)
<1>1. /\ q \in Trees /\ Present(q) = Present(p)
      /\ \A f \in Present(p) :
            IF f = x \/ x \in Above(p, f)
            THEN Above(q, f) \subseteq (Above(p, f) \ Above(p, x)) \cup Over(p, t)
            ELSE Above(q, f) \subseteq Above(p, f)
    BY Zenon, MoveAbove
<1> SUFFICES ASSUME NEW f \in Present(p), f \in Above(q, f) PROVE FALSE
    BY Zenon, <1>1 DEF Acyclic
<1>2. f \notin Above(p, f) /\ f \in Folders /\ x \in Folders
    BY Zenon DEF Acyclic, Present
<1>3. (f = x \/ x \in Above(p, f)) /\ f \in Over(p, t)
    BY Zenon, <1>1, <1>2
<1>4. t # Top /\ t \in Folders /\ (f = t \/ f \in Above(p, t))
    BY Zenon, <1>3 DEF Over, Present
<1>5. Above(p, f) \subseteq Above(p, t)
    BY Zenon, <1>4, AboveTrans
<1> QED
    BY Zenon, <1>3, <1>4, <1>5 DEF Over

\* The folders above one are finitely many.
LEMMA AboveFinite ==
    ASSUME NEW p \in Trees, NEW f \in Folders
    PROVE  IsFiniteSet(Above(p, f)) /\ Cardinality(Above(p, f)) \in Nat
<1>1. Above(p, f) \in SUBSET Folders
    BY Zenon, AboveIsLeast DEF Present
<1>2. IsFiniteSet(Above(p, f))
    BY Zenon, <1>1, FolderAssumption, FS_Subset
<1> QED
    BY Zenon, <1>2, FS_CardinalityType

\* Without cycles the levels down to a folder are those above it and its own.
LEMMA AcyclicLevel ==
    ASSUME NEW p \in Trees, Acyclic(p), NEW f \in Folders
    PROVE  /\ Ancestors(p, f) = Cardinality(Above(p, f))
           /\ Level(p, f) = Cardinality(Above(p, f)) + 1
<1>1. Above(p, f) \subseteq Present(p)
    BY Zenon, AboveIsLeast
<1>2. ~\E g \in Above(p, f) : g \in Above(p, g)
    BY Zenon, <1>1 DEF Acyclic
<1>3. Ancestors(p, f) = Cardinality(Above(p, f))
    BY Zenon, <1>2 DEF Ancestors
<1> QED
    BY Zenon, <1>3 DEF Level

\* Fewer folders above, fewer levels.
LEMMA LevelShrinks ==
    ASSUME NEW p \in Trees, Acyclic(p), NEW q \in Trees, Acyclic(q), NEW f \in Folders,
           Above(q, f) \subseteq Above(p, f), NEW d \in Nat, Level(p, f) <= d
    PROVE  Level(q, f) <= d
<1>1. IsFiniteSet(Above(p, f)) /\ Cardinality(Above(p, f)) \in Nat /\ Cardinality(Above(q, f)) \in Nat
    BY Zenon, AboveFinite
<1>2. Above(q, f) \in SUBSET Above(p, f)
    BY Zenon
<1>3. Cardinality(Above(q, f)) <= Cardinality(Above(p, f))
    BY Zenon, <1>1, <1>2, FS_Subset
<1>4. Level(p, f) = Cardinality(Above(p, f)) + 1 /\ Level(q, f) = Cardinality(Above(q, f)) + 1
    BY Zenon, AcyclicLevel
<1> QED
    BY <1>1, <1>3, <1>4

\* How many folders a new parent brings.
LEMMA OverSize ==
    ASSUME NEW p \in Trees, NEW t \in {Top} \cup Present(p)
    PROVE  /\ IsFiniteSet(Over(p, t)) /\ Cardinality(Over(p, t)) \in Nat
           /\ t = Top => Cardinality(Over(p, t)) = 0
           /\ t # Top => Cardinality(Over(p, t)) <= Cardinality(Above(p, t)) + 1
<1>1. CASE t = Top
  <2>1. Over(p, t) = {}
    BY Zenon, <1>1 DEF Over
  <2>2. IsFiniteSet({}) /\ Cardinality({}) = 0
    BY Zenon, FS_EmptySet
  <2>3. IsFiniteSet(Over(p, t)) /\ Cardinality(Over(p, t)) = 0
    BY Zenon, <2>1, <2>2
  <2> QED
    BY <1>1, <2>3
<1>2. CASE t # Top
  <2>1. Over(p, t) = Above(p, t) \cup {t} /\ t \in Folders
    BY Zenon, <1>2 DEF Over, Present
  <2>2. IsFiniteSet(Above(p, t)) /\ Cardinality(Above(p, t)) \in Nat
    BY Zenon, <2>1, AboveFinite
  <2>3. /\ IsFiniteSet(Above(p, t) \cup {t})
        /\ Cardinality(Above(p, t) \cup {t}) =
              IF t \in Above(p, t) THEN Cardinality(Above(p, t)) ELSE Cardinality(Above(p, t)) + 1
    BY Zenon, <2>2, FS_AddElement
  <2>4. /\ IsFiniteSet(Over(p, t))
        /\ Cardinality(Over(p, t)) = Cardinality(Above(p, t))
              \/ Cardinality(Over(p, t)) = Cardinality(Above(p, t)) + 1
    BY Zenon, <2>1, <2>3
  <2> HIDE DEF Over
  <2> QED
    BY <1>2, <2>2, <2>4
<1> QED
    BY Zenon, <1>1, <1>2

\* Deleting folders keeps a tree without cycles and within its limit.
LEMMA CutKeeps ==
    ASSUME NEW p \in Trees, Acyclic(p), NEW q \in Trees,
           \A g \in Folders : q[g] \in {p[g], Absent}
    PROVE  /\ Acyclic(q) /\ Present(q) \subseteq Present(p)
           /\ \A d \in Nat, f \in Present(q) : Level(p, f) <= d => Level(q, f) <= d
<1>1. Present(q) \subseteq Present(p)
    BY Zenon DEF Present
<1>2. \A f \in Folders : Above(q, f) \subseteq Above(p, f)
    BY Zenon, CutAbove
<1>3. Acyclic(q)
    BY Zenon, <1>1, <1>2 DEF Acyclic, Present
<1>4. ASSUME NEW d \in Nat, NEW f \in Present(q), Level(p, f) <= d PROVE Level(q, f) <= d
    BY Zenon, <1>2, <1>3, <1>4, LevelShrinks DEF Present
<1> QED
    BY Zenon, <1>1, <1>3, <1>4

\* So does a new folder under a parent that leaves room for it.
LEMMA LeafKeeps ==
    ASSUME NEW p \in Trees, Linked(p), Acyclic(p), NEW x \in Folders, p[x] = Absent,
           NEW t \in {Top} \cup Present(p), NEW q, q = [p EXCEPT ![x] = t]
    PROVE  /\ Acyclic(q)
           /\ \A d \in Nat : (/\ d >= 1 /\ (t # Top => Level(p, t) + 1 <= d)
                              /\ \A f \in Present(p) : Level(p, f) <= d)
                             => \A f \in Present(q) : Level(q, f) <= d
<1>1. /\ q \in Trees /\ Present(q) = Present(p) \cup {x}
      /\ \A f \in Present(p) : Above(q, f) \subseteq Above(p, f)
      /\ Above(q, x) \subseteq Over(p, t)
    BY Zenon, LeafAbove
<1>2. Over(p, t) \subseteq Present(p) /\ x \notin Present(p)
    BY Zenon, OverIsClosed DEF Present
<1>3. Acyclic(q)
    BY Zenon, <1>1, <1>2 DEF Acyclic
<1>4. ASSUME NEW d \in Nat, d >= 1, t # Top => Level(p, t) + 1 <= d,
             \A f \in Present(p) : Level(p, f) <= d, NEW f \in Present(q)
      PROVE  Level(q, f) <= d
  <2>1. CASE f \in Present(p)
    BY Zenon, <1>1, <1>3, <1>4, <2>1, LevelShrinks DEF Present
  <2>2. CASE f = x
    <3>1. /\ IsFiniteSet(Over(p, t)) /\ Cardinality(Over(p, t)) \in Nat
          /\ t = Top => Cardinality(Over(p, t)) = 0
          /\ t # Top => Cardinality(Over(p, t)) <= Cardinality(Above(p, t)) + 1
        BY Zenon, OverSize
    <3>2. Above(q, x) \in SUBSET Over(p, t)
        BY Zenon, <1>1
    <3>3. Cardinality(Above(q, x)) <= Cardinality(Over(p, t)) /\ Cardinality(Above(q, x)) \in Nat
        BY Zenon, <1>1, <3>1, <3>2, FS_Subset, AboveFinite
    <3>4. Level(q, x) = Cardinality(Above(q, x)) + 1
        BY Zenon, <1>1, <1>3, AcyclicLevel
    <3>5. t # Top => t \in Folders
        BY Zenon DEF Present
    <3>6. t # Top => /\ Level(p, t) = Cardinality(Above(p, t)) + 1
                     /\ Cardinality(Above(p, t)) \in Nat
        BY Zenon, <3>5, AcyclicLevel, AboveFinite
    <3>7. CASE t = Top
        BY <1>4, <2>2, <3>1, <3>3, <3>4, <3>7
    <3>8. CASE t # Top
        BY <1>4, <2>2, <3>1, <3>3, <3>4, <3>6, <3>8
    <3> QED
        BY Zenon, <3>7, <3>8
  <2> QED
    BY Zenon, <1>1, <2>1, <2>2
<1> QED
    BY Zenon, <1>3, <1>4

\* measureSubtreeDepth is at least the levels from x down to any folder under it.
LEMMA SubtreeBound ==
    ASSUME NEW p \in Trees, NEW x \in Folders
    PROVE  /\ SubtreeDepth(p, x) \in Nat /\ SubtreeDepth(p, x) >= 1
           /\ \A f \in Present(p) : x \in Above(p, f) =>
                 Cardinality(Above(p, f)) - Cardinality(Above(p, x)) + 1 <= SubtreeDepth(p, x)
<1> DEFINE gap(g) == Cardinality(Above(p, g)) - Cardinality(Above(p, x))
           S == {0} \cup {gap(g) : g \in Below(p, x)}
           N == Cardinality(Folders)
<1>1. N \in Nat /\ IsFiniteSet(Folders)
    BY Zenon, FolderAssumption, FS_CardinalityType
<1>2. ASSUME NEW g \in Below(p, x) PROVE gap(g) \in Nat /\ gap(g) <= N
  <2>1. g \in Folders /\ x \in Above(p, g)
    BY Zenon DEF Below, Present
  <2>2. Above(p, x) \in SUBSET Above(p, g) /\ Above(p, g) \in SUBSET Folders
    BY Zenon, <2>1, AboveTrans, AboveIsLeast DEF Present
  <2>3. IsFiniteSet(Above(p, g)) /\ Cardinality(Above(p, g)) \in Nat /\ Cardinality(Above(p, x)) \in Nat
    BY Zenon, <2>1, AboveFinite
  <2>4. Cardinality(Above(p, x)) <= Cardinality(Above(p, g)) /\ Cardinality(Above(p, g)) <= N
    BY Zenon, <1>1, <2>2, <2>3, FS_Subset
  <2> HIDE DEF N
  <2> QED
    BY <1>1, <2>3, <2>4
<1> HIDE DEF gap, N
<1>3. S \subseteq Nat /\ S # {} /\ \A y \in S : y <= N
    BY <1>1, <1>2
<1>4. Max(S) \in S /\ \A y \in S : y <= Max(S)
  <2> HIDE DEF S
  <2> QED
    BY Zenon, <1>1, <1>3, MaxOfBounded
<1>5. SubtreeDepth(p, x) = 1 + Max(S)
    BY Zenon DEF SubtreeDepth, gap
<1>6. Max(S) \in Nat
    BY Zenon, <1>3, <1>4
<1>7. ASSUME NEW f \in Present(p), x \in Above(p, f) PROVE gap(f) \in Nat /\ gap(f) <= Max(S)
  <2>1. f \in Below(p, x)
    BY Zenon, <1>7 DEF Below
  <2> QED
    BY Zenon, <1>2, <1>4, <2>1
<1> DEFINE m == Max(S)
<1> HIDE DEF S, m
<1>8. m \in Nat /\ SubtreeDepth(p, x) = 1 + m
    BY Zenon, <1>5, <1>6 DEF m
<1>9. ASSUME NEW f \in Present(p), x \in Above(p, f) PROVE gap(f) + 1 <= SubtreeDepth(p, x)
  <2>1. gap(f) \in Nat /\ gap(f) <= m
    BY Zenon, <1>7, <1>9 DEF m
  <2> QED
    BY <1>8, <2>1
<1>10. SubtreeDepth(p, x) \in Nat /\ SubtreeDepth(p, x) >= 1
    BY <1>8
<1> QED
    BY Zenon, <1>9, <1>10 DEF gap

\* And so does a move whose whole subtree has room under the new parent.
LEMMA MoveKeeps ==
    ASSUME NEW p \in Trees, Acyclic(p), NEW x \in Present(p),
           NEW t \in {Top} \cup Present(p), x \notin Over(p, t),
           NEW q, q = [p EXCEPT ![x] = t],
           NEW d \in Nat, \A f \in Present(p) : Level(p, f) <= d,
           t # Top => Ancestors(p, t) + 2 + SubtreeDepth(p, x) - 1 <= d
    PROVE  \A f \in Present(q) : Level(q, f) <= d
<1>1. /\ q \in Trees /\ Present(q) = Present(p) /\ Acyclic(q)
      /\ \A f \in Present(p) :
            IF f = x \/ x \in Above(p, f)
            THEN Above(q, f) \subseteq (Above(p, f) \ Above(p, x)) \cup Over(p, t)
            ELSE Above(q, f) \subseteq Above(p, f)
    BY Zenon, MoveAbove, MoveAcyclic
<1>2. ASSUME NEW f \in Present(p) PROVE Level(q, f) <= d
  <2>1. f \in Folders /\ x \in Folders
    BY Zenon DEF Present
  <2>2. CASE t = Top \/ ~(f = x \/ x \in Above(p, f))
    <3>1. Above(q, f) \subseteq Above(p, f)
        BY Zenon, <1>1, <2>2 DEF Over
    <3> QED
        BY Zenon, <1>1, <1>2, <2>1, <3>1, LevelShrinks
  <2>3. CASE t # Top /\ (f = x \/ x \in Above(p, f))
    <3> DEFINE A == Above(p, f)  X == Above(p, x)  O == Over(p, t)
    <3>1. /\ IsFiniteSet(A) /\ Cardinality(A) \in Nat /\ IsFiniteSet(X) /\ Cardinality(X) \in Nat
          /\ Cardinality(Above(q, f)) \in Nat
        BY Zenon, <1>1, <2>1, AboveFinite
    <3>2. t \in Folders
        BY Zenon, <2>3 DEF Present
    <3>3. /\ IsFiniteSet(O) /\ Cardinality(O) \in Nat
          /\ Cardinality(O) <= Cardinality(Above(p, t)) + 1
          /\ Cardinality(Above(p, t)) \in Nat
        BY Zenon, <2>3, <3>2, OverSize, AboveFinite
    <3>4. X \subseteq A
        BY Zenon, <2>1, <2>3, AboveTrans
    <3>5. A \cap X = X
        BY Zenon, <3>4
    <3>6. IsFiniteSet(A \ X) /\ Cardinality(A \ X) = Cardinality(A) - Cardinality(X)
        BY Zenon, <3>1, <3>5, FS_Difference
    <3>7. Above(q, f) \in SUBSET ((A \ X) \cup O)
        BY Zenon, <1>1, <2>3
    <3> HIDE DEF A, X, O
    <3>8. /\ IsFiniteSet((A \ X) \cup O)
          /\ Cardinality((A \ X) \cup O) =
                Cardinality(A \ X) + Cardinality(O) - Cardinality((A \ X) \cap O)
          /\ IsFiniteSet((A \ X) \cap O)
        BY Zenon, <3>3, <3>6, FS_Union, FS_Intersection
    <3>9. Cardinality((A \ X) \cap O) \in Nat
        BY Zenon, <3>8, FS_CardinalityType
    <3>10. Cardinality(Above(q, f)) <= Cardinality((A \ X) \cup O)
        BY Zenon, <3>7, <3>8, FS_Subset
    <3>11. Level(q, f) = Cardinality(Above(q, f)) + 1 /\ Ancestors(p, t) = Cardinality(Above(p, t))
        BY Zenon, <1>1, <2>1, <3>2, AcyclicLevel
    <3>12. Cardinality(A) - Cardinality(X) + 1 <= SubtreeDepth(p, x) /\ SubtreeDepth(p, x) \in Nat
      <4>1. /\ SubtreeDepth(p, x) \in Nat /\ SubtreeDepth(p, x) >= 1
            /\ x \in Above(p, f) => Cardinality(A) - Cardinality(X) + 1 <= SubtreeDepth(p, x)
        BY Zenon, <2>1, SubtreeBound DEF A, X
      <4>2. f = x => Cardinality(A) = Cardinality(X)
        BY Zenon DEF A, X
      <4>3. CASE f = x
        BY <3>1, <4>1, <4>2, <4>3
      <4> QED
        BY Zenon, <2>3, <4>1, <4>3
    <3>13. Ancestors(p, t) + 2 + SubtreeDepth(p, x) - 1 <= d
        BY Zenon, <2>3
    <3> QED
        BY <3>1, <3>3, <3>6, <3>8, <3>9, <3>10, <3>11, <3>12, <3>13
  <2> QED
    BY Zenon, <2>2, <2>3
<1> QED
    BY Zenon, <1>1, <1>2

-----------------------------------------------------------------------------
(* The requests and what they have met.                                    *)

\* What the type of a request says at each point.
LEMMA RequestFacts ==
    ASSUME NEW x \in RequestSet
    PROVE  /\ x.pc \in {"checked", "asserted"} =>
                 /\ x \in AttachRequests /\ x.act.kind \in Attaching
                 /\ x.act.folder \in Folders /\ x.act.to \in Folders \cup {Top}
           /\ x.pc = "doomed" =>
                 /\ x \in DeleteRequests /\ x.act.kind = "delete" /\ x.uids \in SUBSET Folders
           /\ x.act.kind = "move" => x.pc \in {"checked", "asserted"}
           /\ x.pc \in {"checked", "asserted", "doomed"} => x.act.kind \in Kinds
<1>1. CASE x \in {Idle, Done}
    BY <1>1 DEF Idle, Done, NoAct
<1>2. CASE x \in AttachRequests
  <2>1. x.pc \in {"checked", "asserted"} /\ x.act \in Acts /\ x.act.kind \in Attaching
    BY <1>2 DEF AttachRequests
  <2>2. x.act.folder \in Folders /\ x.act.to \in Folders \cup {Top}
    BY <2>1 DEF Acts
  <2> QED
    BY <1>2, <2>1, <2>2 DEF Attaching, Kinds
<1>3. CASE x \in DeleteRequests
  <2>1. x.pc = "doomed" /\ x.act.kind = "delete" /\ x.uids \in SUBSET Folders
    BY <1>3 DEF DeleteRequests
  <2> QED
    BY <1>3, <2>1 DEF Kinds
<1> QED
    BY Zenon, <1>1, <1>2, <1>3 DEF RequestSet

\* Two requests under way together, by what they do.
LEMMA Meetings ==
    ASSUME PairsMet, NEW q \in UnderWay, NEW r \in UnderWay, q # r
    PROVE  /\ request[q].act.kind \in Attaching /\ request[r].act.kind = "delete" => DeleteMet
           /\ request[q].act.kind = "move" /\ request[r].act.kind = "move" => TwoMoves
           /\ request[q].act.kind \in Attaching /\ request[r].act.kind \in Attaching => TwoAttached
<1>1. {request[q].act.kind, request[r].act.kind} \in met
    BY Zenon DEF PairsMet
<1>2. {"move", "move"} = {"move"}
    BY Zenon
<1> QED
    BY Zenon, <1>1, <1>2 DEF DeleteMet, TwoMoves, TwoAttached

\* Two moves are two requests that attach.
LEMMA MovesAttach == TwoMoves => TwoAttached
<1>1. {"move", "move"} = {"move"} /\ "move" \in Attaching
    BY Zenon DEF Attaching
<1> QED
    BY Zenon, <1>1 DEF TwoMoves, TwoAttached

\* What has met has met for good.
LEMMA MetGrows ==
    ASSUME met \subseteq met'
    PROVE  (DeleteMet => DeleteMet') /\ (TwoMoves => TwoMoves') /\ (TwoAttached => TwoAttached')
    BY Zenon DEF DeleteMet, TwoMoves, TwoAttached

\* A delete collects with every folder its children.
LEMMA DoomedClosed ==
    ASSUME NEW p \in Trees, NEW x \in Present(p), NEW f \in Present(p),
           p[f] \in {x} \cup Below(p, x)
    PROVE  f \in Below(p, x)
<1>1. f \in Folders /\ p[f] \in Present(p)
    BY Zenon DEF Below, Present
<1>2. Above(p, f) = {p[f]} \cup Above(p, p[f])
    BY Zenon, <1>1, AboveParent
<1>3. x \in Above(p, f)
    BY Zenon, <1>2 DEF Below
<1> QED
    BY Zenon, <1>3 DEF Below

-----------------------------------------------------------------------------
(* The invariant holds at first.                                           *)

\* A well-formed tree and no request.
LEMMA FolderInvInit == FolderInit => FolderInv
<1> SUFFICES ASSUME FolderInit PROVE FolderInv
    OBVIOUS
<1>1. /\ parent \in Trees /\ WellFormed(parent, toolUsed) /\ ruleIn \in SUBSET Folders
      /\ request = [r \in Requests |-> Idle] /\ met = {} /\ ruleLost = FALSE
      /\ toolUsed \in BOOLEAN
    BY Zenon DEF FolderInit
<1>2. \A r \in Requests : request[r] = Idle /\ request[r].pc = "idle"
    BY <1>1 DEF Idle
<1>3. UnderWay = {}
    BY <1>2 DEF UnderWay
<1>4. FolderTypeOK
  <2>1. request \in [Requests -> RequestSet]
    BY Zenon, <1>1 DEF RequestSet
  <2> QED
    BY Zenon, <1>1, <2>1 DEF FolderTypeOK
<1>5. PairsMet /\ RulesSpared /\ RowsKnown
    BY <1>1, <1>2, <1>3 DEF PairsMet, RulesSpared, RowsKnown
<1>6. LinksHold
    BY <1>1, <1>2 DEF LinksHold, Linked, WellFormed
<1>7. NoCycles
    BY <1>1, <1>2 DEF NoCycles, Acyclic, WellFormed
<1>8. Shallow
    BY <1>1, <1>2 DEF Shallow, WellFormed
<1> QED
    BY Zenon, <1>4, <1>5, <1>6, <1>7, <1>8 DEF FolderInv

-----------------------------------------------------------------------------
(* And is kept by every step.                                              *)

\* By the start of a request that passed the checks made first.
LEMMA BeginsKeeps ==
    ASSUME FolderInv, NEW r \in Requests, request[r] = Idle,
           NEW act \in Acts, NEW pc, NEW uids, Begins(r, act, pc, uids),
           \/ /\ pc = "checked" /\ uids = {} /\ act.kind \in Attaching
              /\ act.kind = "create" => CreateAllowed(parent, act)
              /\ act.kind = "move" => MoveAllowed(parent, act)
           \/ /\ pc = "doomed" /\ uids = Doomed(parent, act) /\ act.kind = "delete"
              /\ act.folder \in Present(parent)
              /\ (Doomed(parent, act) \cap ruleIn # {}) => act.force
    PROVE  FolderInv'
<1> DEFINE new == [pc |-> pc, act |-> act, uids |-> uids, gone |-> FALSE]
<1>0. request' = [request EXCEPT ![r] = new] /\ met' = met \cup Meets(act.kind)
    BY Zenon DEF Begins
<1>1. parent' = parent /\ ruleIn' = ruleIn /\ toolUsed' = toolUsed /\ ruleLost' = ruleLost
    BY Zenon DEF Begins
<1>2. /\ FolderTypeOK /\ request \in [Requests -> RequestSet] /\ parent \in Trees
      /\ PairsMet /\ RulesSpared /\ RowsKnown
    BY Zenon DEF FolderInv, FolderTypeOK
<1>3. uids \in SUBSET Folders /\ act.kind \in Kinds /\ act.folder \in Folders
  <2>1. act.folder \in Folders /\ act.kind \in Kinds
    BY DEF Acts, Attaching, Kinds
  <2> QED
    BY Zenon, <2>1 DEF Doomed, Below, Present
<1>4. new \in AttachRequests \cup DeleteRequests
    BY <1>3 DEF AttachRequests, DeleteRequests
<1>5. new.pc = pc /\ new.act = act /\ new.uids = uids /\ new.gone = FALSE
    OBVIOUS
<1> HIDE DEF new
<1>6. /\ request' \in [Requests -> RequestSet] /\ request'[r] = new
      /\ \A q \in Requests : q # r => request'[q] = request[q]
    BY Zenon, <1>0, <1>2, <1>4 DEF RequestSet
<1>7. Meets(act.kind) \subseteq SUBSET Kinds
  <2>1. ASSUME NEW q \in UnderWay PROVE request[q].act.kind \in Kinds
    BY Zenon, <1>2, RequestFacts DEF UnderWay
  <2> QED
    BY Zenon, <1>3, <2>1 DEF Meets
<1>7a. met \subseteq met' /\ met' = met \cup Meets(act.kind)
    BY Zenon, <1>0
<1>8. FolderTypeOK'
    BY Zenon, <1>1, <1>2, <1>6, <1>7, <1>7a DEF FolderTypeOK
<1>10. r \notin UnderWay /\ UnderWay' \subseteq UnderWay \cup {r}
  <2>1. request[r].pc = "idle"
    BY DEF Idle
  <2>2. r \notin UnderWay
    BY <2>1 DEF UnderWay
  <2> QED
    BY Zenon, <1>6, <2>2 DEF UnderWay
<1>11. PairsMet'
  <2> SUFFICES ASSUME NEW p \in UnderWay', NEW q \in UnderWay', p # q
               PROVE  {request'[p].act.kind, request'[q].act.kind} \in met'
    BY Zenon DEF PairsMet
  <2>1. p \in Requests /\ q \in Requests
    BY Zenon DEF UnderWay
  <2>2. CASE p # r /\ q # r
    BY Zenon, <1>2, <1>6, <1>7a, <1>10, <2>1, <2>2 DEF PairsMet
  <2>3. CASE p = r
    <3>1. q \in UnderWay /\ request'[q] = request[q] /\ request'[p].act = act
        BY Zenon, <1>5, <1>6, <1>10, <2>1, <2>3
    <3>2. {act.kind, request[q].act.kind} \in Meets(act.kind)
        BY Zenon, <3>1 DEF Meets
    <3> QED
        BY Zenon, <1>7a, <3>1, <3>2
  <2>4. CASE q = r
    <3>1. p \in UnderWay /\ request'[p] = request[p] /\ request'[q].act = act
        BY Zenon, <1>5, <1>6, <1>10, <2>1, <2>4
    <3>2. {act.kind, request[p].act.kind} \in Meets(act.kind)
        BY Zenon, <3>1 DEF Meets
    <3>3. {request'[p].act.kind, request'[q].act.kind} = {act.kind, request[p].act.kind}
        BY Zenon, <3>1
    <3> QED
        BY Zenon, <1>7a, <3>2, <3>3
  <2> QED
    BY Zenon, <2>2, <2>3, <2>4
<1>12. RulesSpared'
  <2>1. ASSUME NEW q \in Requests, request'[q].pc = "doomed", ~request'[q].act.force,
               ruleIn' \cap request'[q].uids # {}
        PROVE  {"rule", "delete"} \in met'
    <3>1. CASE q # r
        BY Zenon, <1>1, <1>2, <1>6, <1>7a, <2>1, <3>1 DEF RulesSpared
    <3>2. CASE q = r
      <4>1. pc = "doomed" /\ ~act.force /\ ruleIn \cap uids # {}
        BY Zenon, <1>1, <1>5, <1>6, <2>1, <3>2
      <4>2. Doomed(parent, act) \cap ruleIn # {} /\ uids = Doomed(parent, act)
        BY <4>1
      <4> QED
        BY <4>1, <4>2
    <3> QED
        BY Zenon, <3>1, <3>2
  <2> QED
    BY Zenon, <1>1, <1>2, <1>7a, <2>1 DEF RulesSpared
<1>13. (DeleteMet => DeleteMet') /\ (TwoMoves => TwoMoves') /\ (TwoAttached => TwoAttached')
    BY Zenon, <1>7a, MetGrows
<1>14. RowsKnown'
  <2> SUFFICES ASSUME NEW q \in Requests, request'[q].pc \in {"checked", "asserted"},
                      request'[q].act.kind = "move"
               PROVE  IF request'[q].gone THEN DeleteMet'
                      ELSE request'[q].act.folder \in Present(parent')
    BY Zenon DEF RowsKnown
  <2>1. CASE q # r
    BY Zenon, <1>1, <1>2, <1>6, <1>13, <2>1 DEF RowsKnown
  <2>2. CASE q = r
    <3>1. pc # "doomed" /\ act.kind = "move" /\ ~request'[q].gone /\ request'[q].act = act
        BY <1>5, <1>6, <2>2
    <3> QED
        BY Zenon, <1>1, <3>1 DEF MoveAllowed
  <2> QED
    BY Zenon, <2>1, <2>2
<1>15. ASSUME ~DeleteMet' PROVE LinksHold'
  <2>1. LinksHold
    BY Zenon, <1>13, <1>15 DEF FolderInv
  <2>2. ASSUME NEW q \in Requests, request'[q].pc = "asserted"
        PROVE  request'[q].act.to \in {Top} \cup Present(parent')
    <3>1. q # r
        BY <1>5, <1>6, <2>2
    <3> QED
        BY Zenon, <1>1, <1>6, <2>1, <2>2, <3>1 DEF LinksHold
  <2>3. ASSUME NEW q \in Requests, request'[q].pc = "doomed",
               NEW f \in Present(parent'), parent'[f] \in request'[q].uids
        PROVE  f \in request'[q].uids
    <3>1. CASE q # r
        BY Zenon, <1>1, <1>6, <2>1, <2>3, <3>1 DEF LinksHold
    <3>2. CASE q = r
      <4>1. pc = "doomed" /\ request'[q].uids = uids
        BY Zenon, <1>5, <1>6, <2>3, <3>2
      <4>2. uids = Doomed(parent, act) /\ act.folder \in Present(parent)
        BY <4>1
      <4>3. f \in Present(parent) /\ parent[f] \in {act.folder} \cup Below(parent, act.folder)
        BY Zenon, <1>1, <2>3, <4>1, <4>2 DEF Doomed
      <4>4. f \in Below(parent, act.folder)
        BY Zenon, <1>2, <4>2, <4>3, DoomedClosed
      <4> QED
        BY Zenon, <4>1, <4>2, <4>4 DEF Doomed
    <3> QED
        BY Zenon, <3>1, <3>2
  <2> QED
    BY Zenon, <1>1, <2>1, <2>2, <2>3 DEF LinksHold
<1>16. ASSUME ~DeleteMet', ~TwoMoves' PROVE NoCycles'
  <2>1. NoCycles
    BY Zenon, <1>13, <1>16 DEF FolderInv
  <2>2. ASSUME NEW q \in Requests, request'[q].pc = "asserted" PROVE request'[q] = request[q]
    <3>1. q # r
        BY <1>5, <1>6, <2>2
    <3> QED
        BY Zenon, <1>6, <3>1
  <2> QED
    BY Zenon, <1>1, <2>1, <2>2 DEF NoCycles
<1>17. ASSUME ~DeleteMet', ~TwoAttached' PROVE Shallow'
  <2>1. Shallow
    BY Zenon, <1>13, <1>17 DEF FolderInv
  <2>3. ASSUME NEW q \in Requests, request'[q].pc \in {"checked", "asserted"}
        PROVE  /\ request'[q].act.kind = "create" => CreateAllowed(parent', request'[q].act)
               /\ request'[q].act.kind = "move" => MoveAllowed(parent', request'[q].act)
               /\ (/\ request'[q].act.kind = "tool" /\ request'[q].act.to # Top
                   /\ request'[q].pc = "asserted") =>
                     Level(parent', request'[q].act.to) <= MaxDepth
    <3>1. CASE q # r
        BY Zenon, <1>1, <1>6, <2>1, <2>3, <3>1 DEF Shallow
    <3>2. CASE q = r
      <4>1. request'[q].pc = pc /\ request'[q].act = act
        BY Zenon, <1>5, <1>6, <3>2
      <4>2. pc = "checked"
        BY <2>3, <4>1
      <4> QED
        BY <1>1, <4>1, <4>2
    <3> QED
        BY Zenon, <3>1, <3>2
  <2> QED
    BY Zenon, <1>1, <2>1, <2>3 DEF Shallow
<1> QED
    BY Zenon, <1>8, <1>11, <1>12, <1>14, <1>15, <1>16, <1>17 DEF FolderInv

\* By the repository's checks.
LEMMA AssertKeeps ==
    ASSUME FolderInv, NEW r \in Requests, AssertParent(r)
    PROVE  FolderInv'
<1> DEFINE act == request[r].act
<1>1. /\ parent' = parent /\ ruleIn' = ruleIn /\ toolUsed' = toolUsed /\ met' = met
      /\ ruleLost' = ruleLost
    BY Zenon DEF AssertParent
<1>2. /\ FolderTypeOK /\ request \in [Requests -> RequestSet] /\ parent \in Trees
      /\ PairsMet /\ RulesSpared /\ RowsKnown
    BY Zenon DEF FolderInv, FolderTypeOK
<1>3. /\ request[r].pc = "checked" /\ request[r] \in AttachRequests /\ act.kind \in Attaching
      /\ act.folder \in Folders /\ act.to \in Folders \cup {Top}
    BY Zenon, <1>2, RequestFacts DEF AssertParent
<1> DEFINE up == [request[r] EXCEPT !.pc = "asserted"]
<1>4. /\ up \in AttachRequests /\ up.pc = "asserted" /\ up.act = act /\ up.gone = request[r].gone
      /\ up.uids = request[r].uids
    BY <1>3 DEF AttachRequests
<1>5. /\ \A q \in Requests : q # r => request'[q] = request[q]
      /\ request' \in [Requests -> RequestSet]
      /\ \/ request'[r] = Done
         \/ /\ request'[r] = up /\ ~request[r].gone
            /\ (act.kind = "move" => act.to # parent[act.folder]) => ParentAsserted(parent, act)
  <2>1. \E new \in {up, Done} :
           /\ request' = [request EXCEPT ![r] = new]
           /\ new = Done
              \/ /\ new = up /\ ~request[r].gone
                 /\ (act.kind = "move" => act.to # parent[act.folder]) => ParentAsserted(parent, act)
    <3>1. CASE /\ ~request[r].gone
               /\ (act.kind = "move" => act.to # parent[act.folder]) => ParentAsserted(parent, act)
      <4>1. request' = [request EXCEPT ![r] = up]
        BY Zenon, <3>1 DEF AssertParent
      <4> QED
        BY Zenon, <3>1, <4>1
    <3>2. CASE ~(/\ ~request[r].gone
                 /\ (act.kind = "move" => act.to # parent[act.folder]) => ParentAsserted(parent, act))
      <4>1. request' = [request EXCEPT ![r] = Done]
        BY Zenon, <3>2 DEF AssertParent
      <4> QED
        BY Zenon, <4>1
    <3> QED
        BY Zenon, <3>1, <3>2
  <2> HIDE DEF up, act
  <2> QED
    BY Zenon, <1>2, <1>4, <2>1 DEF RequestSet
<1> HIDE DEF up
<1>6. Done.pc = "done" /\ Done.act.kind = "none"
    BY DEF Done, NoAct
<1>7. FolderTypeOK'
    BY Zenon, <1>1, <1>2, <1>5 DEF FolderTypeOK
<1>8. /\ UnderWay' \subseteq UnderWay
      /\ \A q \in UnderWay' : request'[q].act = request[q].act
  <2>1. r \in UnderWay
    BY Zenon, <1>3 DEF UnderWay
  <2>2. ASSUME NEW q \in UnderWay' PROVE q \in UnderWay /\ request'[q].act = request[q].act
    <3>1. q \in Requests /\ request'[q].pc \in {"checked", "asserted", "doomed"}
        BY Zenon DEF UnderWay
    <3>2. CASE q # r
        BY Zenon, <1>5, <3>1, <3>2 DEF UnderWay
    <3>3. CASE q = r
      <4>1. request'[r] # Done
        BY <1>6, <3>1, <3>3
      <4> QED
        BY Zenon, <1>4, <1>5, <2>1, <3>3, <4>1
    <3> QED
        BY Zenon, <3>2, <3>3
  <2> QED
    BY Zenon, <2>2
<1>9. PairsMet'
  <2>1. ASSUME NEW p \in UnderWay', NEW q \in UnderWay', p # q
        PROVE  {request'[p].act.kind, request'[q].act.kind} \in met'
    <3>1. {request[p].act.kind, request[q].act.kind} \in met
        BY Zenon, <1>2, <1>8, <2>1 DEF PairsMet
    <3> QED
        BY Zenon, <1>1, <1>8, <3>1
  <2> QED
    BY Zenon, <2>1 DEF PairsMet
<1>10. /\ DeleteMet' = DeleteMet /\ TwoMoves' = TwoMoves /\ TwoAttached' = TwoAttached
    BY Zenon, <1>1 DEF DeleteMet, TwoMoves, TwoAttached
<1>11. \A q \in Requests : request'[q].pc = "doomed" => q # r
    BY <1>4, <1>5, <1>6
<1>12. RulesSpared'
    BY Zenon, <1>1, <1>2, <1>5, <1>11 DEF RulesSpared
<1>13. request'[r].pc \in {"checked", "asserted"} => request'[r] = up
    BY <1>5, <1>6
<1>14. act.kind = "move" /\ ~request[r].gone => act.folder \in Present(parent)
    BY Zenon, <1>2, <1>3 DEF RowsKnown
<1>15. RowsKnown'
  <2> SUFFICES ASSUME NEW q \in Requests, request'[q].pc \in {"checked", "asserted"},
                      request'[q].act.kind = "move"
               PROVE  IF request'[q].gone THEN DeleteMet'
                      ELSE request'[q].act.folder \in Present(parent')
    BY Zenon DEF RowsKnown
  <2>1. CASE q # r
    BY Zenon, <1>1, <1>2, <1>5, <1>10, <2>1 DEF RowsKnown
  <2>2. CASE q = r
    <3>1. request'[q].act = act /\ request'[q].gone = request[r].gone /\ ~request[r].gone
        BY Zenon, <1>4, <1>5, <1>6, <1>13, <2>2
    <3> QED
        BY Zenon, <1>1, <1>14, <3>1
  <2> QED
    BY Zenon, <2>1, <2>2
<1>16. ASSUME ~DeleteMet, request'[r].pc = "asserted" PROVE act.to \in {Top} \cup Present(parent)
  <2>1. LinksHold
    BY Zenon, <1>16 DEF FolderInv
  <2>2. ~request[r].gone /\ ((act.kind = "move" => act.to # parent[act.folder]) => ParentAsserted(parent, act))
    BY <1>5, <1>6, <1>16
  <2>3. CASE act.kind = "move" /\ act.to = parent[act.folder]
    BY Zenon, <1>14, <2>1, <2>2, <2>3 DEF LinksHold, Linked
  <2>4. CASE ParentAsserted(parent, act)
    BY Zenon, <2>4 DEF ParentAsserted
  <2> QED
    BY Zenon, <2>2, <2>3, <2>4
<1>17. ASSUME ~DeleteMet' PROVE LinksHold'
  <2>1. LinksHold
    BY Zenon, <1>10, <1>17 DEF FolderInv
  <2>2. ASSUME NEW q \in Requests, request'[q].pc = "asserted"
        PROVE  request'[q].act.to \in {Top} \cup Present(parent')
    <3>1. CASE q # r
        BY Zenon, <1>1, <1>5, <2>1, <2>2, <3>1 DEF LinksHold
    <3>2. CASE q = r
        BY Zenon, <1>1, <1>4, <1>10, <1>13, <1>16, <1>17, <2>2, <3>2
    <3> QED
        BY Zenon, <3>1, <3>2
  <2>3. \A q \in Requests : request'[q].pc = "doomed" =>
           \A f \in Present(parent') : parent'[f] \in request'[q].uids => f \in request'[q].uids
    BY Zenon, <1>1, <1>5, <1>11, <2>1 DEF LinksHold
  <2> QED
    BY Zenon, <1>1, <2>1, <2>2, <2>3 DEF LinksHold
<1>18. ASSUME ~DeleteMet', ~TwoMoves' PROVE NoCycles'
  <2>1. NoCycles /\ LinksHold
    BY Zenon, <1>10, <1>18 DEF FolderInv
  <2>2. ASSUME NEW q \in Requests, request'[q].pc = "asserted", request'[q].act.kind = "move",
               request'[q].act.to # Top
        PROVE  /\ request'[q].act.to # request'[q].act.folder
               /\ request'[q].act.folder \notin Above(parent', request'[q].act.to)
    <3>1. CASE q # r
        BY Zenon, <1>1, <1>5, <2>1, <2>2, <3>1 DEF NoCycles
    <3>2. CASE q = r
      <4>1. request'[q].act = act /\ act.kind = "move" /\ act.to # Top
        BY Zenon, <1>4, <1>13, <2>2, <3>2
      <4>2. /\ ~request[r].gone
            /\ act.to # parent[act.folder] => ParentAsserted(parent, act)
        BY <1>5, <1>6, <2>2, <3>2
      <4>3. CASE act.to # parent[act.folder]
        BY Zenon, <1>1, <4>1, <4>2, <4>3 DEF ParentAsserted
      <4>4. CASE act.to = parent[act.folder]
        <5>1. act.folder \in Present(parent) /\ act.to \in Present(parent)
            BY Zenon, <1>14, <2>1, <4>1, <4>2, <4>4 DEF LinksHold, Linked
        <5>2. Above(parent, act.folder) = {act.to} \cup Above(parent, act.to)
          <6>1. parent[act.folder] \in Present(parent)
            BY Zenon, <4>4, <5>1
          <6>2. Above(parent, act.folder)
                   = {parent[act.folder]} \cup Above(parent, parent[act.folder])
            BY Zenon, <1>2, <1>3, <6>1, AboveParent
          <6> QED
            BY Zenon, <4>4, <6>2
        <5>3. act.folder \notin Above(parent, act.folder)
            BY Zenon, <2>1, <5>1 DEF NoCycles, Acyclic
        <5> QED
            BY Zenon, <1>1, <4>1, <5>2, <5>3
      <4> QED
        BY Zenon, <4>3, <4>4
    <3> QED
        BY Zenon, <3>1, <3>2
  <2> QED
    BY Zenon, <1>1, <2>1, <2>2 DEF NoCycles
<1>19. ASSUME ~DeleteMet', ~TwoAttached' PROVE Shallow'
  <2>1. Shallow
    BY Zenon, <1>10, <1>19 DEF FolderInv
  <2>2. ASSUME NEW q \in Requests, request'[q].pc \in {"checked", "asserted"}
        PROVE  /\ request'[q].act.kind = "create" => CreateAllowed(parent', request'[q].act)
               /\ request'[q].act.kind = "move" => MoveAllowed(parent', request'[q].act)
               /\ (/\ request'[q].act.kind = "tool" /\ request'[q].act.to # Top
                   /\ request'[q].pc = "asserted") =>
                     Level(parent', request'[q].act.to) <= MaxDepth
    <3>1. CASE q # r
        BY Zenon, <1>1, <1>5, <2>1, <2>2, <3>1 DEF Shallow
    <3>2. CASE q = r
      <4>1. request'[q].act = act
        BY Zenon, <1>4, <1>13, <2>2, <3>2
      <4>2. /\ act.kind = "create" => CreateAllowed(parent, act)
            /\ act.kind = "move" => MoveAllowed(parent, act)
        BY Zenon, <1>3, <2>1 DEF Shallow
      <4>3. (act.kind = "tool" /\ act.to # Top) => Level(parent, act.to) <= MaxDepth
        <5>1. (act.kind = "move" => act.to # parent[act.folder]) => ParentAsserted(parent, act)
            BY <1>5, <1>6, <2>2, <3>2
        <5>2. act.kind = "tool" => act.kind # "move"
            OBVIOUS
        <5> QED
            BY Zenon, <5>1, <5>2 DEF ParentAsserted
      <4> QED
        BY Zenon, <1>1, <4>1, <4>2, <4>3
    <3> QED
        BY Zenon, <3>1, <3>2
  <2> QED
    BY Zenon, <1>1, <2>1, <2>2 DEF Shallow
<1> QED
    BY Zenon, <1>7, <1>9, <1>12, <1>15, <1>17, <1>18, <1>19, <1>10 DEF FolderInv

\* By the filing of a rule: a delete under way has then met it.
LEMMA FileRuleKeeps ==
    ASSUME FolderInv, FileRule
    PROVE  FolderInv'
<1>1. /\ parent' = parent /\ request' = request /\ toolUsed' = toolUsed /\ ruleLost' = ruleLost
      /\ met' = met \cup Meets("rule")
      /\ \E f \in Folders \ ruleIn : ruleIn' = ruleIn \cup {f}
    BY Zenon DEF FileRule
<1>2. /\ FolderTypeOK /\ request \in [Requests -> RequestSet]
      /\ PairsMet /\ RulesSpared /\ RowsKnown
    BY Zenon DEF FolderInv, FolderTypeOK
<1>3. Meets("rule") \subseteq SUBSET Kinds
  <2>1. ASSUME NEW q \in UnderWay PROVE request[q].act.kind \in Kinds
    BY Zenon, <1>2, RequestFacts DEF UnderWay
  <2>2. "rule" \in Kinds
    BY Zenon DEF Kinds
  <2> QED
    BY Zenon, <2>1, <2>2 DEF Meets
<1>4. ruleIn' \subseteq Folders
    BY Zenon, <1>1, <1>2 DEF FolderTypeOK
<1>5. FolderTypeOK'
    BY Zenon, <1>1, <1>2, <1>3, <1>4 DEF FolderTypeOK
<1>6. met \subseteq met'
    BY Zenon, <1>1
<1>7. PairsMet'
    BY Zenon, <1>1, <1>2, <1>6 DEF PairsMet, UnderWay
<1>8. RulesSpared'
  <2>1. ASSUME NEW q \in Requests, request[q].pc = "doomed" PROVE {"rule", "delete"} \in met'
    <3>1. q \in UnderWay /\ request[q].act.kind = "delete"
        BY Zenon, <1>2, <2>1, RequestFacts DEF UnderWay
    <3>2. {"rule", "delete"} \in Meets("rule")
        BY Zenon, <3>1 DEF Meets
    <3> QED
        BY Zenon, <1>1, <3>2
  <2> QED
    BY Zenon, <1>1, <1>2, <1>6, <2>1 DEF RulesSpared
<1>9. (DeleteMet => DeleteMet') /\ (TwoMoves => TwoMoves') /\ (TwoAttached => TwoAttached')
    BY Zenon, <1>6, MetGrows
<1>10. RowsKnown'
    BY Zenon, <1>1, <1>2, <1>9 DEF RowsKnown
<1>11. LinksHold' = LinksHold
    BY Zenon, <1>1 DEF LinksHold
<1>12. NoCycles' = NoCycles
    BY Zenon, <1>1 DEF NoCycles
<1>13. Shallow' = Shallow
    BY Zenon, <1>1 DEF Shallow
<1> QED
    BY Zenon, <1>5, <1>7, <1>8, <1>9, <1>10, <1>11, <1>12, <1>13 DEF FolderInv

\* By the statement that writes the link, or finds no row or a taken uid.
LEMMA WriteKeeps ==
    ASSUME FolderInv, NEW r \in Requests, Write(r)
    PROVE  FolderInv'
<1> DEFINE act == request[r].act
           hit == IF act.kind = "move" THEN ~request[r].gone ELSE parent[act.folder] = Absent
<1>1. ruleIn' = ruleIn /\ met' = met /\ ruleLost' = ruleLost
    BY Zenon DEF Write
<1>2. /\ FolderTypeOK /\ request \in [Requests -> RequestSet] /\ parent \in Trees
      /\ toolUsed \in BOOLEAN /\ PairsMet /\ RulesSpared /\ RowsKnown
    BY Zenon DEF FolderInv, FolderTypeOK
<1>3. /\ request[r].pc = "asserted" /\ act.kind \in Attaching
      /\ act.folder \in Folders /\ act.to \in Folders \cup {Top}
    BY Zenon, <1>2, RequestFacts DEF Write
<1>4. /\ parent' = IF hit THEN [parent EXCEPT ![act.folder] = act.to] ELSE parent
      /\ toolUsed' = (toolUsed \/ (hit /\ act.kind = "tool"))
    BY Zenon DEF Write
<1>5. /\ \A q \in Requests : q # r => request'[q] = request[q]
      /\ request' \in [Requests -> RequestSet] /\ request'[r] = Done
  <2>1. request' = [request EXCEPT ![r] = Done]
    BY Zenon DEF Write
  <2> QED
    BY Zenon, <1>2, <2>1 DEF RequestSet
<1>6. Done.pc = "done" /\ Done.act.kind = "none"
    BY DEF Done, NoAct
<1>7. ASSUME NEW q \in Requests, request'[q].pc \in {"checked", "asserted", "doomed"}
      PROVE  q # r /\ request'[q] = request[q] /\ q \in UnderWay
  <2>1. q # r
    BY <1>5, <1>6, <1>7
  <2> QED
    BY Zenon, <1>5, <1>7, <2>1 DEF UnderWay
<1>8. r \in UnderWay
    BY Zenon, <1>3 DEF UnderWay
<1>9. /\ parent' \in Trees /\ \A f \in Folders : f # act.folder => parent'[f] = parent[f]
      /\ Present(parent) \subseteq Present(parent')
  <2>1. CASE hit
    <3>1. /\ parent' = [parent EXCEPT ![act.folder] = act.to]
        BY Zenon, <1>4, <2>1
    <3>2. /\ parent' \in Trees /\ parent'[act.folder] = act.to
          /\ \A f \in Folders : f # act.folder => parent'[f] = parent[f]
        BY Zenon, <1>2, <1>3, <3>1 DEF Trees
    <3> QED
        BY Zenon, <1>3, <3>2, Marks DEF Present
  <2>2. CASE ~hit
    BY Zenon, <1>2, <1>4, <2>2
  <2> QED
    BY Zenon, <2>1, <2>2
<1>10. FolderTypeOK'
  <2>1. toolUsed' \in BOOLEAN
    BY Zenon, <1>2, <1>4
  <2> QED
    BY Zenon, <1>1, <1>2, <1>5, <1>9, <2>1 DEF FolderTypeOK
<1>11. PairsMet'
  <2>1. \A q \in UnderWay' : q \in UnderWay /\ request'[q] = request[q]
    BY Zenon, <1>7 DEF UnderWay
  <2> QED
    BY Zenon, <1>1, <1>2, <2>1 DEF PairsMet
<1>12. /\ DeleteMet' = DeleteMet /\ TwoMoves' = TwoMoves /\ TwoAttached' = TwoAttached
    BY Zenon, <1>1 DEF DeleteMet, TwoMoves, TwoAttached
<1>13. RulesSpared'
    BY Zenon, <1>1, <1>2, <1>7 DEF RulesSpared
<1>14. RowsKnown'
    BY Zenon, <1>2, <1>7, <1>9, <1>12 DEF RowsKnown
<1>15. act.kind = "move" /\ hit => act.folder \in Present(parent)
    BY Zenon, <1>2, <1>3 DEF RowsKnown
<1>16. ASSUME ~DeleteMet PROVE LinksHold /\ act.to \in {Top} \cup Present(parent)
    BY Zenon, <1>3, <1>16 DEF FolderInv, LinksHold
<1>17. ASSUME ~DeleteMet' PROVE LinksHold'
  <2>1. LinksHold /\ act.to \in {Top} \cup Present(parent)
    BY Zenon, <1>12, <1>16, <1>17
  <2>2. ASSUME NEW f \in Present(parent') PROVE parent'[f] \in {Top} \cup Present(parent')
    <3>1. f \in Folders /\ parent'[f] # Absent
        BY Zenon DEF Present
    <3>2. CASE parent'[f] = parent[f]
        BY Zenon, <1>9, <2>1, <3>1, <3>2 DEF LinksHold, Linked, Present
    <3>3. CASE parent'[f] # parent[f]
      <4>1. f = act.folder /\ hit
        BY Zenon, <1>4, <1>9, <3>1, <3>3
      <4>2. parent'[f] = act.to
        BY Zenon, <1>2, <1>4, <3>1, <4>1 DEF Trees
      <4> QED
        BY Zenon, <1>9, <2>1, <4>2
    <3> QED
        BY Zenon, <3>2, <3>3
  <2>3. ASSUME NEW q \in Requests, request'[q].pc = "asserted"
        PROVE  request'[q].act.to \in {Top} \cup Present(parent')
    BY Zenon, <1>7, <1>9, <2>1, <2>3 DEF LinksHold
  <2>4. ASSUME NEW q \in Requests, request'[q].pc = "doomed" PROVE FALSE
    <3>1. q # r /\ q \in UnderWay /\ request[q].pc = "doomed"
        BY Zenon, <1>7, <2>4
    <3>2. request[q].act.kind = "delete"
        BY Zenon, <1>2, <3>1, RequestFacts
    <3> QED
        BY Zenon, <1>2, <1>3, <1>8, <1>12, <1>17, <3>1, <3>2, Meetings
  <2> QED
    BY Zenon, <2>2, <2>3, <2>4 DEF LinksHold, Linked
<1>18. ASSUME ~DeleteMet, ~TwoMoves, act.kind = "move", hit
       PROVE  /\ Acyclic(parent) /\ act.folder \in Present(parent)
              /\ act.to \in {Top} \cup Present(parent)
              /\ act.folder \notin Over(parent, act.to)
              /\ parent' = [parent EXCEPT ![act.folder] = act.to]
  <2>1. NoCycles
    BY Zenon, <1>18 DEF FolderInv
  <2>2. act.to # Top => act.to # act.folder /\ act.folder \notin Above(parent, act.to)
    BY Zenon, <1>3, <1>18, <2>1 DEF NoCycles
  <2>3. act.folder \notin Over(parent, act.to)
    BY Zenon, <2>2 DEF Over
  <2>4. parent' = [parent EXCEPT ![act.folder] = act.to]
    BY Zenon, <1>4, <1>18
  <2> QED
    BY Zenon, <1>15, <1>16, <1>18, <2>1, <2>3, <2>4 DEF NoCycles
<1>19. ASSUME ~DeleteMet, ~TwoMoves, act.kind # "move", hit
       PROVE  /\ Linked(parent) /\ Acyclic(parent) /\ parent[act.folder] = Absent
              /\ act.to \in {Top} \cup Present(parent)
              /\ parent' = [parent EXCEPT ![act.folder] = act.to]
  <2>1. NoCycles /\ parent[act.folder] = Absent
    BY Zenon, <1>19 DEF FolderInv
  <2>2. parent' = [parent EXCEPT ![act.folder] = act.to]
    BY Zenon, <1>4, <1>19
  <2> QED
    BY Zenon, <1>16, <1>19, <2>1, <2>2 DEF NoCycles, LinksHold
<1>20. ASSUME ~DeleteMet', ~TwoMoves' PROVE NoCycles'
  <2>1. NoCycles /\ LinksHold /\ ~DeleteMet /\ ~TwoMoves
    BY Zenon, <1>12, <1>20 DEF FolderInv
  <2>2. Acyclic(parent')
    <3>1. CASE ~hit
        BY Zenon, <1>4, <2>1, <3>1 DEF NoCycles
    <3>2. CASE hit /\ act.kind = "move"
      <4> HIDE DEF hit, act
      <4> QED
        BY Zenon, <1>2, <1>18, <2>1, <3>2, MoveAcyclic
    <3>3. CASE hit /\ act.kind # "move"
      <4> HIDE DEF hit, act
      <4> QED
        BY Zenon, <1>2, <1>3, <1>19, <2>1, <3>3, LeafKeeps
    <3> QED
        BY Zenon, <3>1, <3>2, <3>3
  <2>3. ASSUME NEW q \in Requests, request'[q].pc = "asserted", request'[q].act.kind = "move",
               request'[q].act.to # Top
        PROVE  /\ request'[q].act.to # request'[q].act.folder
               /\ request'[q].act.folder \notin Above(parent', request'[q].act.to)
    <3>1. q # r /\ q \in UnderWay /\ request'[q] = request[q]
        BY Zenon, <1>7, <2>3
    <3>2. act.kind # "move"
        BY Zenon, <1>2, <1>8, <2>1, <2>3, <3>1, Meetings
    <3>3. request[q].act.to \in Present(parent)
        BY Zenon, <2>1, <2>3, <3>1 DEF LinksHold
    <3>4. Above(parent', request[q].act.to) \subseteq Above(parent, request[q].act.to)
      <4>1. CASE ~hit
        BY Zenon, <1>4, <4>1
      <4>2. CASE hit
        <5> HIDE DEF hit, act
        <5> QED
            BY Zenon, <1>2, <1>3, <1>19, <2>1, <3>2, <3>3, <4>2, LeafAbove
      <4> QED
        BY Zenon, <4>1, <4>2
    <3>5. /\ request[q].act.to # request[q].act.folder
          /\ request[q].act.folder \notin Above(parent, request[q].act.to)
        BY Zenon, <2>1, <2>3, <3>1 DEF NoCycles
    <3> QED
        BY Zenon, <3>1, <3>4, <3>5
  <2> QED
    BY Zenon, <2>2, <2>3 DEF NoCycles
<1>21. ASSUME ~DeleteMet', ~TwoAttached' PROVE Shallow'
  <2>1. Shallow /\ ~DeleteMet /\ ~TwoMoves /\ ~TwoAttached
    BY Zenon, <1>12, <1>21, MovesAttach DEF FolderInv
  <2>2. ASSUME NEW q \in Requests, request'[q].pc \in {"checked", "asserted"} PROVE FALSE
    <3>1. q # r /\ q \in UnderWay /\ request'[q] = request[q]
        BY Zenon, <1>7, <2>2
    <3>2. request[q].act.kind \in Attaching
        BY Zenon, <1>2, <2>2, <3>1, RequestFacts
    <3> QED
        BY Zenon, <1>2, <1>3, <1>8, <2>1, <3>1, <3>2, Meetings
  <2>3. /\ Limit(toolUsed) \in Nat /\ Limit(toolUsed') \in Nat /\ MaxDepth \in Nat
        /\ Limit(toolUsed) >= MaxDepth /\ Limit(toolUsed') >= Limit(toolUsed)
        /\ MaxDepth >= 1 /\ (toolUsed' => Limit(toolUsed') = MaxDepth + 1)
    <3>1. MaxDepth \in Nat /\ MaxDepth >= 1
        BY FolderAssumption
    <3>2. toolUsed => toolUsed'
        BY Zenon, <1>4
    <3> QED
        BY <3>1, <3>2 DEF Limit
  <2>4. \A f \in Present(parent) : Level(parent, f) <= Limit(toolUsed)
    BY Zenon, <2>1 DEF Shallow
  <2>5. /\ act.kind = "create" => CreateAllowed(parent, act)
        /\ act.kind = "move" => MoveAllowed(parent, act)
        /\ act.kind = "tool" /\ act.to # Top => Level(parent, act.to) <= MaxDepth
    BY Zenon, <1>3, <2>1 DEF Shallow
  <2> HIDE DEF hit
  <2>6. Acyclic(parent)
    BY Zenon, <2>1 DEF FolderInv, NoCycles
  <2>7. \A f \in Present(parent) : Level(parent, f) <= Limit(toolUsed')
    <3>1. ASSUME NEW f \in Present(parent) PROVE Level(parent, f) \in Nat
      <4>1. f \in Folders
        BY Zenon DEF Present
      <4>2. Level(parent, f) = Cardinality(Above(parent, f)) + 1 /\ Cardinality(Above(parent, f)) \in Nat
        BY Zenon, <1>2, <2>6, <4>1, AcyclicLevel, AboveFinite
      <4> QED
        BY <4>2
    <3> QED
        BY <2>3, <2>4, <3>1
  <2>8. ASSUME NEW f \in Present(parent') PROVE Level(parent', f) <= Limit(toolUsed')
    <3>1. CASE ~hit
        BY Zenon, <1>4, <2>7, <3>1 DEF hit
    <3>2. CASE hit /\ act.kind = "move"
      <4>1. /\ Acyclic(parent) /\ act.folder \in Present(parent)
            /\ act.to \in {Top} \cup Present(parent)
            /\ act.folder \notin Over(parent, act.to)
            /\ parent' = [parent EXCEPT ![act.folder] = act.to]
        BY Zenon, <1>18, <2>1, <3>2
      <4>2. CASE act.to = parent[act.folder]
        <5>1. parent' = parent
            BY Zenon, <1>2, <4>1, <4>2 DEF Trees
        <5> QED
            BY Zenon, <2>7, <5>1
      <4>3. CASE act.to # parent[act.folder]
        <5>1. act.to # Top => Ancestors(parent, act.to) + 2 + SubtreeDepth(parent, act.folder) - 1
                                 <= MaxDepth
            BY Zenon, <2>5, <3>2, <4>3 DEF MoveAllowed
        <5>2. ASSUME act.to # Top
              PROVE  Ancestors(parent, act.to) + 2 + SubtreeDepth(parent, act.folder) - 1
                        <= Limit(toolUsed')
          <6>1. act.to \in Folders
            BY Zenon, <1>3, <5>2
          <6>2. /\ Ancestors(parent, act.to) = Cardinality(Above(parent, act.to))
                /\ Cardinality(Above(parent, act.to)) \in Nat
                /\ SubtreeDepth(parent, act.folder) \in Nat
            BY Zenon, <1>2, <1>3, <2>6, <6>1, AcyclicLevel, AboveFinite, SubtreeBound
          <6> QED
            BY <2>3, <5>1, <5>2, <6>2
        <5> DEFINE x == act.folder  to == act.to  d == Limit(toolUsed')  q == parent'
        <5>3. /\ x \in Present(parent) /\ to \in {Top} \cup Present(parent)
              /\ x \notin Over(parent, to) /\ q = [parent EXCEPT ![x] = to] /\ d \in Nat
              /\ \A g \in Present(parent) : Level(parent, g) <= d
              /\ to # Top => Ancestors(parent, to) + 2 + SubtreeDepth(parent, x) - 1 <= d
            BY Zenon, <2>3, <2>7, <4>1, <5>2
        <5> HIDE DEF x, to, d, q
        <5>4. \A g \in Present(q) : Level(q, g) <= d
            BY Zenon, <1>2, <2>6, <5>3, MoveKeeps
        <5> QED
            BY Zenon, <5>4 DEF d, q
      <4> QED
        BY Zenon, <4>2, <4>3
    <3>3. CASE hit /\ act.kind # "move"
      <4>1. /\ Linked(parent) /\ Acyclic(parent) /\ parent[act.folder] = Absent
            /\ act.to \in {Top} \cup Present(parent)
            /\ parent' = [parent EXCEPT ![act.folder] = act.to]
        BY Zenon, <1>19, <2>1, <3>3
      <4>2. ASSUME act.to # Top PROVE Level(parent, act.to) + 1 <= Limit(toolUsed')
        <5>1. act.to \in Folders
            BY Zenon, <1>3, <4>2
        <5>2. /\ Level(parent, act.to) = Cardinality(Above(parent, act.to)) + 1
              /\ Ancestors(parent, act.to) = Cardinality(Above(parent, act.to))
              /\ Cardinality(Above(parent, act.to)) \in Nat
            BY Zenon, <1>2, <2>6, <5>1, AcyclicLevel, AboveFinite
        <5>3. CASE act.kind = "create"
          <6>1. Ancestors(parent, act.to) + 2 <= MaxDepth
            BY Zenon, <2>5, <4>2, <5>3 DEF CreateAllowed
          <6> QED
            BY <2>3, <5>2, <6>1
        <5>4. CASE act.kind = "tool"
          <6>1. Level(parent, act.to) <= MaxDepth /\ Limit(toolUsed') = MaxDepth + 1
            BY Zenon, <1>4, <2>3, <2>5, <3>3, <4>2, <5>4 DEF hit
          <6> QED
            BY <2>3, <5>2, <6>1
        <5> QED
            BY Zenon, <1>3, <3>3, <5>3, <5>4 DEF Attaching
      <4>3. Limit(toolUsed') >= 1
        BY <2>3
      <4> DEFINE x == act.folder  to == act.to  d == Limit(toolUsed')  q == parent'
      <4>4. /\ x \in Folders /\ parent[x] = Absent /\ to \in {Top} \cup Present(parent)
            /\ q = [parent EXCEPT ![x] = to] /\ d \in Nat /\ d >= 1
            /\ \A g \in Present(parent) : Level(parent, g) <= d
            /\ to # Top => Level(parent, to) + 1 <= d
        BY Zenon, <1>3, <2>3, <2>7, <4>1, <4>2, <4>3
      <4> HIDE DEF x, to, d, q
      <4>5. \A g \in Present(q) : Level(q, g) <= d
        BY Zenon, <1>2, <4>1, <4>4, LeafKeeps
      <4> QED
        BY Zenon, <4>5 DEF d, q
    <3> QED
        BY Zenon, <3>1, <3>2, <3>3
  <2> QED
    BY Zenon, <2>2, <2>8 DEF Shallow
<1> QED
    BY Zenon, <1>10, <1>11, <1>13, <1>14, <1>17, <1>20, <1>21 DEF FolderInv

\* By delete's transaction.
LEMMA CascadeKeeps ==
    ASSUME FolderInv, NEW r \in Requests, Cascade(r)
    PROVE  FolderInv'
<1> DEFINE gone == request[r].uids
<1>1. /\ parent' = [f \in Folders |-> IF f \in gone THEN Absent ELSE parent[f]]
      /\ ruleIn' = ruleIn \ gone /\ toolUsed' = toolUsed /\ met' = met
    BY Zenon DEF Cascade
<1>2. /\ FolderTypeOK /\ request \in [Requests -> RequestSet] /\ parent \in Trees
      /\ toolUsed \in BOOLEAN /\ PairsMet /\ RulesSpared /\ RowsKnown
    BY Zenon DEF FolderInv, FolderTypeOK
<1>3. /\ request[r].pc = "doomed" /\ request[r].act.kind = "delete" /\ gone \in SUBSET Folders
    BY Zenon, <1>2, RequestFacts DEF Cascade
<1>4. r \in UnderWay
    BY Zenon, <1>3 DEF UnderWay
<1>5. Done.pc = "done" /\ Done.act.kind = "none" /\ Done \in RequestSet
    BY DEF Done, NoAct, RequestSet
<1> DEFINE Took(q) == request[q].act.kind = "move" /\ request[q].act.folder \in gone
<1>6. ASSUME NEW q \in Requests, q # r
      PROVE  /\ request'[q].pc = request[q].pc /\ request'[q].act = request[q].act
             /\ request'[q].uids = request[q].uids
             /\ request'[q] \in RequestSet
             /\ request'[q].gone => request[q].gone \/ Took(q)
             /\ Took(q) => request'[q].gone
  <2>1. request'[q] = IF Took(q) THEN [request[q] EXCEPT !.gone = TRUE] ELSE request[q]
    BY Zenon, <1>6 DEF Cascade
  <2>2. CASE Took(q)
    <3>1. request[q].pc \in {"checked", "asserted"} /\ request[q] \in RequestSet
        BY Zenon, <1>2, <2>2, RequestFacts
    <3>2. request[q] \in AttachRequests
        BY Zenon, <3>1, RequestFacts
    <3>3. request'[q] = [request[q] EXCEPT !.gone = TRUE]
        BY Zenon, <2>1, <2>2
    <3>4. /\ request'[q] \in AttachRequests /\ request'[q].gone = TRUE
          /\ request'[q].pc = request[q].pc /\ request'[q].act = request[q].act
          /\ request'[q].uids = request[q].uids
        BY <3>2, <3>3 DEF AttachRequests
    <3> QED
        BY Zenon, <2>2, <3>4 DEF RequestSet
  <2>3. CASE ~Took(q)
    <3>1. request'[q] = request[q] /\ request[q] \in RequestSet
        BY Zenon, <1>2, <2>1, <2>3
    <3> QED
        BY Zenon, <2>3, <3>1
  <2> QED
    BY Zenon, <2>2, <2>3
<1>7. request'[r] = Done
    BY Zenon DEF Cascade
<1>8. request' \in [Requests -> RequestSet]
  <2>1. request' = [q \in Requests |-> request'[q]]
    BY Zenon DEF Cascade
  <2>2. \A q \in Requests : request'[q] \in RequestSet
    BY Zenon, <1>5, <1>6, <1>7
  <2> QED
    BY Zenon, <2>1, <2>2
<1>9. ASSUME NEW q \in Requests, request'[q].pc \in {"checked", "asserted", "doomed"}
      PROVE  /\ q # r /\ q \in UnderWay
             /\ request'[q].pc = request[q].pc /\ request'[q].act = request[q].act
             /\ request'[q].uids = request[q].uids
  <2>1. q # r
    BY <1>5, <1>7, <1>9
  <2> QED
    BY Zenon, <1>6, <1>9, <2>1 DEF UnderWay
<1>10. /\ parent' \in Trees /\ \A f \in Folders : parent'[f] \in {parent[f], Absent}
       /\ \A f \in Folders : f \notin gone => parent'[f] = parent[f]
       /\ \A f \in gone : parent'[f] = Absent
    BY Zenon, <1>1, <1>2, <1>3 DEF Trees
<1>11. Present(parent') = Present(parent) \ gone
    BY Zenon, <1>10 DEF Present
<1>12. FolderTypeOK'
  <2>1. ruleLost' \in BOOLEAN /\ ruleIn' \subseteq Folders
    BY Zenon, <1>1, <1>2 DEF Cascade, FolderTypeOK
  <2> QED
    BY Zenon, <1>1, <1>2, <1>8, <1>10, <2>1 DEF FolderTypeOK
<1>13. PairsMet'
  <2>1. \A q \in UnderWay' : q \in UnderWay /\ request'[q].act = request[q].act
    BY Zenon, <1>9 DEF UnderWay
  <2>2. ASSUME NEW p \in UnderWay', NEW q \in UnderWay', p # q
        PROVE  {request'[p].act.kind, request'[q].act.kind} \in met'
    <3>1. {request[p].act.kind, request[q].act.kind} \in met
        BY Zenon, <1>2, <2>1, <2>2 DEF PairsMet
    <3>2. met' = met
        BY Zenon, <1>1
    <3> QED
        BY Zenon, <2>1, <3>1, <3>2
  <2> QED
    BY Zenon, <2>2 DEF PairsMet
<1>14. met' = met /\ toolUsed' = toolUsed /\ ruleIn' = ruleIn \ gone
    BY Zenon, <1>1
<1>15. DeleteMet' = DeleteMet /\ TwoMoves' = TwoMoves /\ TwoAttached' = TwoAttached
    BY Zenon, <1>14 DEF DeleteMet, TwoMoves, TwoAttached
<1>16. RulesSpared'
  <2>1. ruleLost' => {"rule", "delete"} \in met'
    <3>1. ruleLost' = (ruleLost \/ (~request[r].act.force /\ ruleIn \cap gone # {}))
        BY Zenon DEF Cascade
    <3> QED
        BY Zenon, <1>2, <1>3, <1>14, <3>1 DEF RulesSpared
  <2>2. ASSUME NEW q \in Requests, request'[q].pc = "doomed", ~request'[q].act.force,
               ruleIn' \cap request'[q].uids # {}
        PROVE  {"rule", "delete"} \in met'
    <3>1. /\ request[q].pc = "doomed" /\ ~request[q].act.force
          /\ ruleIn' \cap request[q].uids # {}
        BY Zenon, <1>9, <2>2
    <3>2. ruleIn \cap request[q].uids # {}
        BY Zenon, <1>14, <3>1
    <3> QED
        BY Zenon, <1>2, <1>14, <3>1, <3>2 DEF RulesSpared
  <2> QED
    BY Zenon, <2>1, <2>2 DEF RulesSpared
<1>17. ASSUME NEW q \in Requests, request'[q].pc \in {"checked", "asserted"} PROVE DeleteMet
  <2>1. q # r /\ q \in UnderWay /\ request[q].pc \in {"checked", "asserted"}
    BY Zenon, <1>9, <1>17
  <2>2. request[q].act.kind \in Attaching
    BY Zenon, <1>2, <2>1, RequestFacts
  <2> QED
    BY Zenon, <1>2, <1>3, <1>4, <2>1, <2>2, Meetings
<1>18. RowsKnown'
  <2> SUFFICES ASSUME NEW q \in Requests, request'[q].pc \in {"checked", "asserted"},
                      request'[q].act.kind = "move", ~request'[q].gone
               PROVE  request'[q].act.folder \in Present(parent')
    BY Zenon, <1>15, <1>17 DEF RowsKnown
  <2>1. q # r /\ request'[q].pc = request[q].pc /\ request'[q].act = request[q].act
    BY Zenon, <1>9
  <2>2. ~Took(q)
    BY Zenon, <1>6, <2>1
  <2>3. ~request[q].gone
    <3>1. CASE request'[q] = request[q]
        BY Zenon, <3>1
    <3> QED
        BY Zenon, <2>1, <2>2, <3>1 DEF Cascade
  <2>4. request[q].act.folder \in Present(parent) /\ request[q].act.folder \notin gone
    BY Zenon, <1>2, <2>1, <2>2, <2>3 DEF RowsKnown
  <2> QED
    BY Zenon, <1>11, <2>1, <2>4
<1>19. ASSUME ~DeleteMet' PROVE LinksHold'
  <2>1. LinksHold
    BY Zenon, <1>15, <1>19 DEF FolderInv
  <2>2. ASSUME NEW f \in Present(parent') PROVE parent'[f] \in {Top} \cup Present(parent')
    <3>1. f \in Present(parent) /\ f \notin gone /\ f \in Folders /\ parent'[f] = parent[f]
        BY Zenon, <1>10, <1>11 DEF Present
    <3>2. parent[f] \in {Top} \cup Present(parent) /\ parent[f] \notin gone
        BY Zenon, <1>3, <2>1, <3>1 DEF LinksHold, Linked
    <3> QED
        BY Zenon, <1>11, <3>1, <3>2
  <2>3. ASSUME NEW q \in Requests, request'[q].pc = "doomed",
               NEW f \in Present(parent'), parent'[f] \in request'[q].uids
        PROVE  f \in request'[q].uids
    <3>1. f \in Present(parent) /\ parent'[f] = parent[f]
        BY Zenon, <1>10, <1>11 DEF Present
    <3> QED
        BY Zenon, <1>9, <2>1, <2>3, <3>1 DEF LinksHold
  <2> QED
    BY Zenon, <1>15, <1>17, <1>19, <2>2, <2>3 DEF LinksHold, Linked
<1>20. ASSUME ~DeleteMet', ~TwoMoves' PROVE NoCycles'
  <2>1. Acyclic(parent)
    BY Zenon, <1>15, <1>20 DEF FolderInv, NoCycles
  <2>2. Acyclic(parent')
    BY Zenon, <1>2, <1>10, <2>1, CutKeeps
  <2> QED
    BY Zenon, <1>15, <1>17, <1>20, <2>2 DEF NoCycles
<1>21. ASSUME ~DeleteMet', ~TwoAttached' PROVE Shallow'
  <2>1. Acyclic(parent) /\ \A f \in Present(parent) : Level(parent, f) <= Limit(toolUsed)
    BY Zenon, <1>15, <1>21, MovesAttach DEF FolderInv, NoCycles, Shallow
  <2>2. Limit(toolUsed) \in Nat
    BY FolderAssumption DEF Limit
  <2>3. \A f \in Present(parent') : Level(parent', f) <= Limit(toolUsed')
    BY Zenon, <1>2, <1>10, <1>11, <1>14, <2>1, <2>2, CutKeeps
  <2> QED
    BY Zenon, <1>15, <1>17, <1>21, <2>3 DEF Shallow
<1> QED
    BY Zenon, <1>12, <1>13, <1>16, <1>18, <1>19, <1>20, <1>21 DEF FolderInv

\* By every step.
LEMMA FolderInvNext ==
    ASSUME FolderInv, [FolderNext]_folderVars
    PROVE  FolderInv'
<1>1. ASSUME NEW r \in Requests, Arrive(r) PROVE FolderInv'
  <2>1. request[r] = Idle
    BY Zenon, <1>1 DEF Arrive, IsNext
  <2>2. PICK act \in Acts :
          \/ act.kind = "create" /\ CreateAllowed(parent, act) /\ Begins(r, act, "checked", {})
          \/ act.kind = "move" /\ MoveAllowed(parent, act) /\ Begins(r, act, "checked", {})
          \/ /\ act.kind = "delete" /\ act.folder \in Present(parent)
             /\ (Doomed(parent, act) \cap ruleIn # {}) => act.force
             /\ Begins(r, act, "doomed", Doomed(parent, act))
    BY Zenon, <1>1 DEF Arrive
  <2>3. CASE act.kind = "create" /\ CreateAllowed(parent, act) /\ Begins(r, act, "checked", {})
    <3>1. act.kind \in Attaching /\ act.kind # "move"
        BY <2>3 DEF Attaching
    <3> QED
        BY Zenon, <1>1, <2>1, <2>3, <3>1, BeginsKeeps
  <2>4. CASE act.kind = "move" /\ MoveAllowed(parent, act) /\ Begins(r, act, "checked", {})
    <3>1. act.kind \in Attaching /\ act.kind # "create"
        BY <2>4 DEF Attaching
    <3> QED
        BY Zenon, <1>1, <2>1, <2>4, <3>1, BeginsKeeps
  <2>5. CASE /\ act.kind = "delete" /\ act.folder \in Present(parent)
             /\ (Doomed(parent, act) \cap ruleIn # {}) => act.force
             /\ Begins(r, act, "doomed", Doomed(parent, act))
    BY Zenon, <1>1, <2>1, <2>5, BeginsKeeps
  <2> QED
    BY Zenon, <2>2, <2>3, <2>4, <2>5
<1>2. ASSUME NEW r \in Requests, ToolCreates(r) PROVE FolderInv'
  <2>1. request[r] = Idle
    BY Zenon, <1>2 DEF ToolCreates, IsNext
  <2>2. PICK act \in Acts : act.kind = "tool" /\ Begins(r, act, "checked", {})
    BY Zenon, <1>2 DEF ToolCreates
  <2>3. act.kind \in Attaching /\ act.kind # "create" /\ act.kind # "move"
    BY <2>2 DEF Attaching
  <2> QED
    BY Zenon, <1>2, <2>1, <2>2, <2>3, BeginsKeeps
<1>3. CASE UNCHANGED folderVars
  <2>1. /\ parent' = parent /\ ruleIn' = ruleIn /\ request' = request /\ toolUsed' = toolUsed
        /\ met' = met /\ ruleLost' = ruleLost
    BY Zenon, <1>3 DEF folderVars
  <2>2. /\ FolderTypeOK' = FolderTypeOK /\ PairsMet' = PairsMet /\ RulesSpared' = RulesSpared
        /\ RowsKnown' = RowsKnown /\ LinksHold' = LinksHold /\ NoCycles' = NoCycles
        /\ Shallow' = Shallow /\ DeleteMet' = DeleteMet /\ TwoMoves' = TwoMoves
        /\ TwoAttached' = TwoAttached
    BY Zenon, <2>1 DEF FolderTypeOK, PairsMet, UnderWay, RulesSpared, RowsKnown, LinksHold,
                       NoCycles, Shallow, DeleteMet, TwoMoves, TwoAttached
  <2> QED
    BY Zenon, <2>2 DEF FolderInv
<1> QED
    BY Zenon, <1>1, <1>2, <1>3, AssertKeeps, WriteKeeps, CascadeKeeps, FileRuleKeeps DEF FolderNext

\* The invariant implies the property.
LEMMA FolderInvImplies == FolderInv => OverlapsToBlame
<1> SUFFICES ASSUME FolderInv PROVE OverlapsToBlame
    OBVIOUS
<1>1. ~DeleteMet => \A f \in Present(parent) : parent[f] \in {Top} \cup Present(parent)
    BY Zenon DEF FolderInv, LinksHold, Linked
<1>2. ~DeleteMet /\ ~({"move"} \in met) => \A f \in Present(parent) : f \notin Above(parent, f)
    BY Zenon DEF FolderInv, NoCycles, Acyclic, TwoMoves
<1>3. ~DeleteMet /\ ~TwoAttached => \A f \in Present(parent) : ~(Level(parent, f) > Limit(toolUsed))
  <2>1. ASSUME ~DeleteMet, ~TwoAttached, NEW f \in Present(parent)
        PROVE  ~(Level(parent, f) > Limit(toolUsed))
    <3>1. Level(parent, f) <= Limit(toolUsed) /\ Acyclic(parent) /\ parent \in Trees /\ f \in Folders
        BY Zenon, <2>1, MovesAttach DEF FolderInv, Shallow, NoCycles, FolderTypeOK, Present
    <3>2. Level(parent, f) = Cardinality(Above(parent, f)) + 1 /\ Cardinality(Above(parent, f)) \in Nat
        BY Zenon, <3>1, AcyclicLevel, AboveFinite
    <3>3. Limit(toolUsed) \in Nat
        BY FolderAssumption DEF Limit
    <3> QED
        BY <3>1, <3>2, <3>3
  <2> QED
    BY Zenon, <2>1
<1>4. ruleLost => {"rule", "delete"} \in met
    BY Zenon DEF FolderInv, RulesSpared
<1> QED
    BY Zenon, <1>1, <1>2, <1>3, <1>4 DEF OverlapsToBlame, TwoAttached

\* However many folders there are and requests overlap, every way the tree or a
\* rule can come to harm has the overlap to blame that OverlapsToBlame names.
THEOREM OnlyOverlapsBreakTrees == FolderSpec => []OverlapsToBlame
<1>1. FolderSpec => []FolderInv
    BY FolderInvInit, FolderInvNext, PTL DEF FolderSpec
<1> QED
    BY <1>1, FolderInvImplies, PTL

-----------------------------------------------------------------------------
(* ApprovalScopes: three readings of the same grants.                      *)

\* Two sequences of the same segments are the same sequence.
LEMMA SameSegments ==
    ASSUME NEW S, NEW s \in Seq(S), NEW t \in Seq(S), Len(s) = Len(t),
           \A i \in 1..Len(s) : s[i] = t[i]
    PROVE  s = t
OBVIOUS

\* What a part of a sequence holds.
LEMMA PartOfSeq ==
    ASSUME NEW S, NEW s \in Seq(S), NEW m \in 1..Len(s)
    PROVE  /\ SubSeq(s, m, Len(s)) \in Seq(S)
           /\ Len(SubSeq(s, m, Len(s))) = Len(s) - m + 1
           /\ \A i \in 1..(Len(s) - m + 1) : SubSeq(s, m, Len(s))[i] = s[m + i - 1]
OBVIOUS

\* A sequence of three or of four segments is the tuple of its segments.
LEMMA Segments ==
    ASSUME NEW g \in Seq(STRING)
    PROVE  /\ Len(g) = 3 => g = <<g[1], g[2], g[3]>> /\ g[3] \in STRING
           /\ Len(g) = 4 => g = <<g[1], g[2], g[3], g[4]>> /\ g[3] \in STRING /\ g[4] \in STRING
<1>0. \A i \in 1..Len(g) : g[i] \in STRING
    OBVIOUS
<1>1. ASSUME Len(g) = 3 PROVE g = <<g[1], g[2], g[3]>> /\ g[3] \in STRING
  <2> DEFINE t == <<g[1], g[2], g[3]>>
  <2>1. g[1] \in STRING /\ g[2] \in STRING /\ g[3] \in STRING
    BY <1>0, <1>1
  <2>2. t \in Seq(STRING) /\ Len(t) = 3 /\ t[1] = g[1] /\ t[2] = g[2] /\ t[3] = g[3]
    BY <2>1
  <2> HIDE DEF t
  <2>3. \A i \in 1..Len(g) : g[i] = t[i]
    BY <1>1, <2>2
  <2>4. g = t
    BY Zenon, <1>1, <2>2, <2>3, SameSegments
  <2> QED
    BY Zenon, <2>1, <2>4 DEF t
<1>2. ASSUME Len(g) = 4
      PROVE  g = <<g[1], g[2], g[3], g[4]>> /\ g[3] \in STRING /\ g[4] \in STRING
  <2> DEFINE t == <<g[1], g[2], g[3], g[4]>>
  <2>1. g[1] \in STRING /\ g[2] \in STRING /\ g[3] \in STRING /\ g[4] \in STRING
    BY <1>0, <1>2
  <2>2. /\ t \in Seq(STRING) /\ Len(t) = 4
        /\ t[1] = g[1] /\ t[2] = g[2] /\ t[3] = g[3] /\ t[4] = g[4]
    BY <2>1
  <2> HIDE DEF t
  <2>3. \A i \in 1..Len(g) : g[i] = t[i]
    BY <1>2, <2>2
  <2>4. g = t
    BY Zenon, <1>2, <2>2, <2>3, SameSegments
  <2> QED
    BY Zenon, <2>1, <2>4 DEF t
<1> QED
    BY Zenon, <1>1, <1>2

\* A well-formed scope is a wildcard, or it names one thing by its segments.
LEMMA ScopeShapes ==
    ASSUME NEW g \in Scopes
    PROVE  /\ ParseApprovalScope(g) \in {"uid", "connector", "team"} =>
                 /\ g = <<"approvals", ParseApprovalScope(g), g[3]>>
                 /\ g[3] # "" /\ g[3] \in STRING
           /\ ParseApprovalScope(g) = "namespace" =>
                 /\ g = <<"approvals", "namespace", g[3], g[4]>>
                 /\ g[3] # "" /\ g[4] # "" /\ g[3] \in STRING /\ g[4] \in STRING
           /\ ParseApprovalScope(g) = "wildcard" => g \in Wildcards
           /\ ParseApprovalScope(g) \in {"uid", "connector", "team", "namespace", "wildcard",
                                         "malformed"}
<1>0. g \in Seq(STRING) /\ Len(g) \in Nat
    BY DEF Scopes
<1>1. ASSUME ParseApprovalScope(g) \in {"uid", "connector", "team"}
      PROVE  /\ g = <<"approvals", ParseApprovalScope(g), g[3]>>
             /\ g[3] # "" /\ g[3] \in STRING
  <2>1. /\ g[1] = "approvals" /\ g[2] = ParseApprovalScope(g) /\ Len(g) = 3
        /\ \A i \in 3..Len(g) : g[i] # ""
    BY Zenon, <1>1 DEF ParseApprovalScope
  <2>2. g = <<g[1], g[2], g[3]>> /\ g[3] \in STRING
    BY Zenon, <1>0, <2>1, Segments
  <2>3. 3 \in 3..Len(g)
    <3>1. Len(g) = 3
        BY Zenon, <2>1
    <3> QED
        BY <3>1
  <2> QED
    BY Zenon, <2>1, <2>2, <2>3
<1>2. ASSUME ParseApprovalScope(g) = "namespace"
      PROVE  /\ g = <<"approvals", "namespace", g[3], g[4]>>
             /\ g[3] # "" /\ g[4] # "" /\ g[3] \in STRING /\ g[4] \in STRING
  <2>1. /\ g[1] = "approvals" /\ g[2] = "namespace" /\ Len(g) = 4
        /\ \A i \in 3..Len(g) : g[i] # ""
    BY Zenon, <1>2 DEF ParseApprovalScope
  <2>2. g = <<g[1], g[2], g[3], g[4]>> /\ g[3] \in STRING /\ g[4] \in STRING
    BY Zenon, <1>0, <2>1, Segments
  <2>3. 3 \in 3..Len(g) /\ 4 \in 3..Len(g)
    <3>1. Len(g) = 4
        BY Zenon, <2>1
    <3> QED
        BY <3>1
  <2> QED
    BY Zenon, <2>1, <2>2, <2>3
<1>3. /\ ParseApprovalScope(g) = "wildcard" => g \in Wildcards
      /\ ParseApprovalScope(g) \in {"uid", "connector", "team", "namespace", "wildcard",
                                    "malformed"}
    BY Zenon DEF ParseApprovalScope
<1> QED
    BY Zenon, <1>1, <1>2, <1>3

\* The segments of a scope from the third one on.
LEMMA TailSegments ==
    /\ \A a, b, c : SubSeq(<<a, b, c>>, 3, 3) = <<c>>
    /\ \A a, b, c, d : SubSeq(<<a, b, c, d>>, 3, 4) = <<c, d>>
<1>1. ASSUME NEW a, NEW b, NEW c PROVE SubSeq(<<a, b, c>>, 3, 3) = <<c>>
  <2> DEFINE S == {a, b, c}
  <2>0. a \in S /\ b \in S /\ c \in S
    BY Zenon
  <2> HIDE DEF S
  <2> DEFINE s == <<a, b, c>>
             t == SubSeq(s, 3, 3)
             u == <<c>>
  <2>1. s[3] = c /\ u \in Seq(S) /\ Len(u) = 1 /\ u[1] = c
    BY <2>0
  <2>2. s \in Seq(S) /\ Len(s) = 3
    BY <2>0
  <2> HIDE DEF s, u
  <2>3. t \in Seq(S) /\ Len(t) = 1 /\ \A i \in 1..1 : t[i] = s[3 + i - 1]
    <3>1. 3 \in 1..Len(s) /\ t = SubSeq(s, 3, Len(s)) /\ Len(s) - 3 + 1 = 1
        BY <2>2
    <3> HIDE DEF t
    <3>2. /\ SubSeq(s, 3, Len(s)) \in Seq(S)
          /\ Len(SubSeq(s, 3, Len(s))) = Len(s) - 3 + 1
          /\ \A i \in 1..(Len(s) - 3 + 1) : SubSeq(s, 3, Len(s))[i] = s[3 + i - 1]
        BY Zenon, <2>2, <3>1, PartOfSeq
    <3> QED
        BY Zenon, <3>1, <3>2
  <2> HIDE DEF t
  <2>4. \A i \in 1..1 : t[i] = u[i]
    BY <2>1, <2>3
  <2>5. t = u
    BY Zenon, <2>1, <2>3, <2>4, SameSegments
  <2> QED
    BY Zenon, <2>5 DEF s, t, u
<1>2. ASSUME NEW a, NEW b, NEW c, NEW d PROVE SubSeq(<<a, b, c, d>>, 3, 4) = <<c, d>>
  <2> DEFINE S == {a, b, c, d}
  <2>0. a \in S /\ b \in S /\ c \in S /\ d \in S
    BY Zenon
  <2> HIDE DEF S
  <2> DEFINE s == <<a, b, c, d>>
             t == SubSeq(s, 3, 4)
             u == <<c, d>>
  <2>1. s[3] = c /\ s[4] = d /\ u \in Seq(S) /\ Len(u) = 2 /\ u[1] = c /\ u[2] = d
    BY <2>0
  <2>2. s \in Seq(S) /\ Len(s) = 4
    BY <2>0
  <2> HIDE DEF s, u
  <2>3. t \in Seq(S) /\ Len(t) = 2 /\ \A i \in 1..2 : t[i] = s[3 + i - 1]
    <3>1. 3 \in 1..Len(s) /\ t = SubSeq(s, 3, Len(s)) /\ Len(s) - 3 + 1 = 2
        BY <2>2
    <3> HIDE DEF t
    <3>2. /\ SubSeq(s, 3, Len(s)) \in Seq(S)
          /\ Len(SubSeq(s, 3, Len(s))) = Len(s) - 3 + 1
          /\ \A i \in 1..(Len(s) - 3 + 1) : SubSeq(s, 3, Len(s))[i] = s[3 + i - 1]
        BY Zenon, <2>2, <3>1, PartOfSeq
    <3> QED
        BY Zenon, <3>1, <3>2
  <2> HIDE DEF t
  <2>4. \A i \in 1..2 : t[i] = u[i]
    BY <2>1, <2>3
  <2>5. t = u
    BY Zenon, <2>1, <2>3, <2>4, SameSegments
  <2> QED
    BY Zenon, <2>5 DEF s, t, u
<1> QED
    BY Zenon, <1>1, <1>2

\* How a scope of four segments is parsed.
LEMMA ParsedFour ==
    \A a, b, c, d :
        ParseScope(<<a, b, c, d>>) = [kind |-> a, attribute |-> b, identifier |-> <<c, d>>]
<1> SUFFICES ASSUME NEW a, NEW b, NEW c, NEW d
             PROVE  ParseScope(<<a, b, c, d>>) =
                      [kind |-> a, attribute |-> b, identifier |-> <<c, d>>]
    BY Zenon
<1> DEFINE s == <<a, b, c, d>>
<1>0. SubSeq(<<a, b, c, d>>, 3, 4) = <<c, d>>
    BY TailSegments
<1>1. /\ SubSeq(s, 3, Len(s)) = <<c, d>> /\ Len(s) >= 2 /\ Len(s) >= 3
      /\ s[1] = a /\ s[2] = b /\ \A x : s # <<x>>
    BY <1>0
<1> HIDE DEF s
<1>2. ParseScope(s) = [kind |-> a, attribute |-> b, identifier |-> <<c, d>>]
    BY Zenon, <1>1 DEF ParseScope
<1> QED
    BY Zenon, <1>2 DEF s

\* What parseScope makes of scopes of two, three and four segments.
LEMMA ParsedScope ==
    /\ \A a, b :
         ParseScope(<<a, b>>) = [kind |-> a, attribute |-> b, identifier |-> <<"*">>]
    /\ \A a, b, c :
         ParseScope(<<a, b, c>>) = [kind |-> a, attribute |-> b, identifier |-> <<c>>]
    /\ \A a, b, c, d :
         ParseScope(<<a, b, c, d>>) = [kind |-> a, attribute |-> b, identifier |-> <<c, d>>]
<1>1. ASSUME NEW a, NEW b
      PROVE  ParseScope(<<a, b>>) = [kind |-> a, attribute |-> b, identifier |-> <<"*">>]
    BY DEF ParseScope
<1>2. ASSUME NEW a, NEW b, NEW c
      PROVE  ParseScope(<<a, b, c>>) = [kind |-> a, attribute |-> b, identifier |-> <<c>>]
  <2>1. SubSeq(<<a, b, c>>, 3, 3) = <<c>>
    BY Zenon, TailSegments
  <2> QED
    BY <2>1 DEF ParseScope
<1> QED
    BY Zenon, <1>1, <1>2, ParsedFour

\* The scopes of a row, by what they name.
LEMMA RowScopeShapes ==
    ASSUME NEW row, NEW want \in RowScopes(row)
    PROVE  \/ want = <<"approvals", "uid", row.id>>
           \/ want = <<"approvals", "connector", row.connector>>
           \/ want = <<"approvals", "namespace", row.connector, row.namespace>>
           \/ want = <<"approvals", "team", row.team>>
BY Zenon DEF RowScopes

\* The same, part by part.
LEMMA ParsedParts ==
    /\ \A a, b : ParseScope(<<a, b>>).attribute = b
    /\ \A a, b, c : /\ ParseScope(<<a, b, c>>).attribute = b
                    /\ ParseScope(<<a, b, c>>).identifier = <<c>>
    /\ \A a, b, c, d : /\ ParseScope(<<a, b, c, d>>).attribute = b
                       /\ ParseScope(<<a, b, c, d>>).identifier = <<c, d>>
<1>1. ASSUME NEW a, NEW b PROVE ParseScope(<<a, b>>).attribute = b
  <2>1. ParseScope(<<a, b>>) = [kind |-> a, attribute |-> b, identifier |-> <<"*">>]
    BY Zenon, ParsedScope
  <2> QED
    BY <2>1
<1>2. ASSUME NEW a, NEW b, NEW c PROVE /\ ParseScope(<<a, b, c>>).attribute = b
                                       /\ ParseScope(<<a, b, c>>).identifier = <<c>>
  <2>1. ParseScope(<<a, b, c>>) = [kind |-> a, attribute |-> b, identifier |-> <<c>>]
    BY Zenon, ParsedScope
  <2> QED
    BY <2>1
<1>3. ASSUME NEW a, NEW b, NEW c, NEW d PROVE /\ ParseScope(<<a, b, c, d>>).attribute = b
                                              /\ ParseScope(<<a, b, c, d>>).identifier = <<c, d>>
  <2>1. ParseScope(<<a, b, c, d>>) = [kind |-> a, attribute |-> b, identifier |-> <<c, d>>]
    BY Zenon, ParsedFour
  <2> QED
    BY <2>1
<1> QED
    BY Zenon, <1>1, <1>2, <1>3

\* A scope as an administrator binds it covers nothing but itself, unless it is
\* a wildcard.
LEMMA BoundCoversItself ==
    ASSUME NEW g \in Scopes, Bound(g), g \notin Wildcards,
           NEW row \in ApprovalRow, NEW want \in RowScopes(row) \cup {<<"approvals", "*">>},
           ScopeCovers(g, want)
    PROVE  want = g
<1>0. g \in Seq(STRING) /\ ParseApprovalScope(g) \in {"uid", "connector", "team", "namespace"}
    BY Zenon, ScopeShapes DEF Bound, Scopes, ParseApprovalScope
<1>1. \/ want = <<"approvals", "*">>
      \/ \E k \in {"uid", "connector", "team"} : \E x : want = <<"approvals", k, x>>
      \/ \E x, y : want = <<"approvals", "namespace", x, y>>
    BY Zenon, RowScopeShapes
<1>2. CASE ParseApprovalScope(g) \in {"uid", "connector", "team"}
  <2>1. PICK k, x : /\ k = ParseApprovalScope(g) /\ x = g[3]
                    /\ g = <<"approvals", k, x>>
    BY Zenon, <1>2, ScopeShapes
  <2>2. DOMAIN g = 1..3
    BY <2>1
  <2>3. x # "*"
    BY <2>1, <2>2 DEF Bound
  <2>4. ParseScope(g) = [kind |-> "approvals", attribute |-> k, identifier |-> <<x>>]
    BY <1>2, <2>1, ParsedScope
  <2>5. g \notin AnyScope
    BY <2>1 DEF AnyScope
  <2>6. ASSUME want # g
        PROVE  ParseScope(want).attribute = k /\ ParseScope(want).identifier = <<x>>
    BY <2>1, <1>2, <2>3, <2>4, <2>5, <2>6 DEF ScopeCovers
  <2>7. ASSUME want = <<"approvals", "*">> PROVE ParseScope(want).attribute = "*"
    BY Zenon, <2>7, ParsedParts
  <2>8. ASSUME NEW y, NEW z, want = <<"approvals", "namespace", y, z>>
        PROVE ParseScope(want).attribute = "namespace"
    BY <2>8, ParsedParts
  <2>9. ASSUME NEW l \in {"uid", "connector", "team"}, NEW y,
               want = <<"approvals", l, y>>
        PROVE ParseScope(want).attribute = l /\ ParseScope(want).identifier = <<y>>
    BY <2>9, ParsedParts
  <2> QED
    BY <1>1, <1>2, <2>1, <2>6, <2>7, <2>8, <2>9
<1>3. CASE ParseApprovalScope(g) = "namespace"
  <2>1. PICK x, y : g = <<"approvals", "namespace", x, y>>
    BY Zenon, <1>3, ScopeShapes
  <2>2. ParseScope(g) = [kind |-> "approvals", attribute |-> "namespace", identifier |-> <<x, y>>]
    BY <2>1, ParsedScope
  <2>3. g \notin AnyScope
    BY Zenon, <2>1 DEF AnyScope
  <2>4. ASSUME want # g
        PROVE  ParseScope(want).attribute = "namespace" /\ ParseScope(want).identifier = <<x, y>>
    BY <2>2, <2>3, <2>1, <2>4 DEF ScopeCovers
  <2>5. ASSUME want = <<"approvals", "*">> PROVE ParseScope(want).attribute = "*"
    BY <2>5, ParsedParts
  <2>6. ASSUME NEW l \in {"uid", "connector", "team"}, NEW z,
               want = <<"approvals", l, z>>
        PROVE ParseScope(want).attribute = l
    BY <2>6, ParsedParts
  <2>7. ASSUME NEW v, NEW w, want = <<"approvals", "namespace", v, w>>
        PROVE ParseScope(want).identifier = <<v, w>>
    BY <2>7, ParsedParts
  <2> QED
    BY <1>1, <2>1, <2>4, <2>5, <2>6, <2>7
<1> QED
    BY Zenon, <1>0, <1>2, <1>3

\* What the list of approvals shows, the detail route opens, and for grants as
\* administrators bind them the list shows all the detail route opens, whatever
\* the row and however many the grants.
LEMMA ListAndDetailAgree ==
    ASSUME NEW row \in ApprovalRow, NEW grants \in SUBSET Scopes
    PROVE  ListAgreesWithDetail(row, grants)
<1>1. ASSUME Listed(row, grants) PROVE EvalRowAccess(row, grants)
  <2>1. \A s : ScopeCovers(s, s)
    BY Zenon DEF ScopeCovers
  <2>2. ASSUME NEW g \in grants, ParseApprovalScope(g) = "wildcard"
        PROVE EvalRowAccess(row, grants)
    <3>1. g \in Wildcards
        BY Zenon, <2>2, ScopeShapes
    <3>2. ScopeCovers(g, <<"approvals", "*">>)
      <4>1. /\ ParseScope(<<"approvals", "*", "*">>)
                 = [kind |-> "approvals", attribute |-> "*", identifier |-> <<"*">>]
            /\ ParseScope(<<"approvals", "*">>)
                 = [kind |-> "approvals", attribute |-> "*", identifier |-> <<"*">>]
        BY Zenon, ParsedScope
      <4> QED
        BY Zenon, <3>1, <4>1 DEF Wildcards, ScopeCovers
    <3> QED
        BY Zenon, <3>1, <3>2 DEF EvalRowAccess
  <2>3. ASSUME NEW g \in grants, g \in RowScopes(row) PROVE EvalRowAccess(row, grants)
    BY Zenon, <2>1, <2>3 DEF EvalRowAccess
  <2>4. ASSUME NEW g \in grants, ParseApprovalScope(g) = "uid", g[3] = row.id
        PROVE g \in RowScopes(row)
    BY Zenon, <2>4, ScopeShapes DEF RowScopes
  <2>5. ASSUME NEW g \in grants, ParseApprovalScope(g) = "connector", g[3] = row.connector
        PROVE g \in RowScopes(row)
    BY Zenon, <2>5, ScopeShapes DEF RowScopes
  <2>6. ASSUME NEW g \in grants, ParseApprovalScope(g) = "team", g[3] = row.team
        PROVE g \in RowScopes(row)
    BY Zenon, <2>6, ScopeShapes DEF RowScopes
  <2>7. ASSUME NEW g \in grants, ParseApprovalScope(g) = "namespace",
               <<g[3], g[4]>> = <<row.connector, row.namespace>>
        PROVE g \in RowScopes(row)
    BY Zenon, <2>7, ScopeShapes DEF RowScopes
  <2> QED
    BY Zenon, <1>1, <2>2, <2>3, <2>4, <2>5, <2>6, <2>7 DEF Listed, ReadFilter
<1>2. ASSUME \A g \in grants : Bound(g), EvalRowAccess(row, grants) PROVE Listed(row, grants)
  <2>1. PICK want \in RowScopes(row) \cup {<<"approvals", "*">>}, g \in grants : ScopeCovers(g, want)
    BY Zenon, <1>2 DEF EvalRowAccess
  <2>2. CASE g \in Wildcards
    BY Zenon, <2>2 DEF Listed, ReadFilter, ParseApprovalScope
  <2>3. CASE g \notin Wildcards
    <3>1. want = g
        BY Zenon, <1>2, <2>1, <2>3, BoundCoversItself
    <3>2. g \in RowScopes(row)
        BY Zenon, <2>1, <2>3, <3>1 DEF Wildcards
    <3>3. ParseApprovalScope(g) \in {"uid", "connector", "team", "namespace"}
        BY Zenon, <1>2, <2>3, ScopeShapes DEF Bound
    <3>4. CASE ParseApprovalScope(g) = "uid"
      <4>1. g = <<"approvals", "uid", g[3]>>
        BY Zenon, <3>4, ScopeShapes
      <4>2. g[3] = row.id
        BY Zenon, <3>2, <4>1, RowScopeShapes
      <4> QED
        BY Zenon, <3>4, <4>2 DEF Listed, ReadFilter
    <3>5. CASE ParseApprovalScope(g) = "connector"
      <4>1. g = <<"approvals", "connector", g[3]>>
        BY Zenon, <3>5, ScopeShapes
      <4>2. g[3] = row.connector
        BY Zenon, <3>2, <4>1, RowScopeShapes
      <4> QED
        BY Zenon, <3>5, <4>2 DEF Listed, ReadFilter
    <3>6. CASE ParseApprovalScope(g) = "team"
      <4>1. g = <<"approvals", "team", g[3]>>
        BY Zenon, <3>6, ScopeShapes
      <4>2. g[3] = row.team
        BY Zenon, <3>2, <4>1, RowScopeShapes
      <4> QED
        BY Zenon, <3>6, <4>2 DEF Listed, ReadFilter
    <3>7. CASE ParseApprovalScope(g) = "namespace"
      <4>1. g = <<"approvals", "namespace", g[3], g[4]>>
        BY Zenon, <3>7, ScopeShapes
      <4>2. <<g[3], g[4]>> = <<row.connector, row.namespace>>
        BY Zenon, <3>2, <4>1, RowScopeShapes
      <4> QED
        BY Zenon, <3>7, <4>2 DEF Listed, ReadFilter
    <3> QED
        BY Zenon, <3>3, <3>4, <3>5, <3>6, <3>7
  <2> QED
    BY Zenon, <2>2, <2>3
<1> QED
    BY Zenon, <1>1, <1>2 DEF ListAgreesWithDetail

\* The users who are told of an approval are those who may decide it, whatever
\* the row and the grants: whoever covers the wildcard candidate of the decide
\* routes covers the row's own uid scope, by which the router finds them.
LEMMA ToldAreDeciders ==
    ASSUME NEW row, NEW grants
    PROVE  ToldMayDecide(row, grants)
<1>1. ASSUME Matching(row, grants) # {} PROVE EvalRowAccess(row, grants)
    BY Zenon, <1>1 DEF Matching, EvalRowAccess
<1>2. ASSUME EvalRowAccess(row, grants) PROVE Matching(row, grants) # {}
  <2> DEFINE uid == <<"approvals", "uid", row.id>>
             all == <<"approvals", "*">>
  <2>0. uid \in RowScopes(row)
    BY Zenon DEF RowScopes
  <2>1. PICK want \in RowScopes(row) \cup {all}, g \in grants : ScopeCovers(g, want)
    BY Zenon, <1>2 DEF EvalRowAccess
  <2>2. CASE want \in RowScopes(row)
    BY Zenon, <2>1, <2>2 DEF Matching
  <2>3. CASE want = all
    <3>1. ParseScope(all) = [kind |-> "approvals", attribute |-> "*", identifier |-> <<"*">>]
        BY Zenon, ParsedScope
    <3>2. ParseScope(uid) = [kind |-> "approvals", attribute |-> "uid", identifier |-> <<row.id>>]
        BY Zenon, ParsedScope
    <3> HIDE DEF uid, all
    <3>3. ScopeCovers(g, uid)
        BY <2>1, <2>3, <3>1, <3>2 DEF ScopeCovers
    <3> QED
        BY Zenon, <2>0, <3>3 DEF Matching
  <2> QED
    BY Zenon, <2>1, <2>2, <2>3
<1> QED
    BY Zenon, <1>1, <1>2 DEF ToldMayDecide

\* So the list of approvals and the detail route agree on every approval that
\* there is, for every set of grants that a user holds.
THEOREM VisibilityAlwaysAgrees == ScopesSpec => []VisibilityAgrees
<1>1. ScopesInit => VisibilityAgrees
  <2> SUFFICES ASSUME ScopesInit PROVE VisibilityAgrees
    BY Zenon
  <2>1. approval \in ApprovalRow /\ held \in SUBSET Scopes
    BY Zenon, ScopeAssumption DEF ScopesInit
  <2> QED
    BY Zenon, <2>1, ListAndDetailAgree DEF VisibilityAgrees
<1>2. VisibilityAgrees /\ [FALSE]_scopesVars => VisibilityAgrees'
    BY Zenon DEF VisibilityAgrees, scopesVars
<1> QED
    BY <1>1, <1>2, PTL DEF ScopesSpec

\* And those who are told of an approval are those who may decide it.
THEOREM ApproversAlwaysAgree == ScopesSpec => []ApproversAgree
<1>1. ApproversAgree
    BY Zenon, ToldAreDeciders DEF ApproversAgree
<1> QED
    BY <1>1, PTL
=============================================================================
