------------------------- MODULE NotificationProofs -------------------------
(***************************************************************************)
(* Proofs about NotificationRouting and NotificationDispatch: every policy *)
(* tree, every set of events handled side by side, any number of           *)
(* integrations, any intervals and any number of failing store calls.      *)
(***************************************************************************)
EXTENDS NotificationDispatch, LoopLemmas, FiniteSetTheorems, TLAPS

-----------------------------------------------------------------------------
(* NotificationRouting: the walk of the policy tree.                       *)

\* Lists of elements of S, one after the other, are such a list, and no shorter
\* than any of them.
LEMMA Concatenated ==
    ASSUME NEW S, NEW lists \in Seq(Seq(S))
    PROVE  /\ Concat(lists) \in Seq(S)
           /\ \A j \in 1..Len(lists) : Len(lists[j]) <= Len(Concat(lists))
<1> DEFINE n == Len(lists)
           Add(i, v) == v \o lists[i]
           next == [p \in (1..n) \X Seq(S) |-> Add(p[1], p[2])]
           F(g) == [i \in 0..n |-> IF i = 0 THEN <<>> ELSE Add(i, g[i - 1])]
           upTo == CHOOSE g : g = F(g)
<1>1. Concat(lists) = upTo[n]
    BY Zenon DEF Concat
<1>2. n \in Nat /\ \A i \in 1..n : lists[i] \in Seq(S)
    OBVIOUS
<1>3. ASSUME NEW i \in 1..n, NEW v \in Seq(S)
      PROVE  Add(i, v) \in Seq(S) /\ Len(Add(i, v)) = Len(v) + Len(lists[i])
    BY <1>2
<1> HIDE DEF n, Add
<1>4. /\ next \in [(1..n) \X Seq(S) -> Seq(S)]
      /\ \A i \in 1..n, v \in Seq(S) : next[<<i, v>>] = Add(i, v)
    BY Zenon, <1>3
<1> HIDE DEF next
<1>5. <<>> \in Seq(S)
    OBVIOUS
<1>6. PICK g \in [0..n -> Seq(S)] : Unrolls(g, n, <<>>, next)
    BY Zenon, <1>2, <1>4, <1>5, Unroll
<1>7. g = F(g)
  <2>1. ASSUME NEW i \in 0..n, i # 0 PROVE g[i] = Add(i, g[i - 1])
    <3>1. i \in 1..n /\ i - 1 \in 0..n
        BY <1>2, <2>1
    <3> QED
        BY Zenon, <1>4, <1>6, <3>1 DEF Unrolls
  <2> QED
    BY Zenon, <1>2, <1>6, <2>1 DEF Unrolls
<1>8. upTo = F(upTo)
  <2> HIDE DEF F
  <2> QED
    BY Zenon, <1>7
<1> HIDE DEF upTo
<1> DEFINE T == {i \in Nat : i <= n => /\ upTo[i] \in Seq(S)
                                       /\ \A j \in 1..i : Len(lists[j]) <= Len(upTo[i])}
<1>9. 0 \in T
    BY <1>2, <1>8
<1>10. ASSUME NEW i \in Nat, i \in T PROVE i + 1 \in T
  <2> SUFFICES ASSUME i + 1 <= n
               PROVE  /\ upTo[i + 1] \in Seq(S)
                      /\ \A j \in 1..(i + 1) : Len(lists[j]) <= Len(upTo[i + 1])
    OBVIOUS
  <2>1. /\ i + 1 \in 0..n /\ i + 1 \in 1..n /\ i + 1 # 0 /\ (i + 1) - 1 = i
        /\ upTo[i] \in Seq(S) /\ \A j \in 1..i : Len(lists[j]) <= Len(upTo[i])
    BY <1>2, <1>10
  <2>2. upTo[i + 1] = Add(i + 1, upTo[i])
    BY Zenon, <1>8, <2>1
  <2>3. upTo[i + 1] \in Seq(S) /\ Len(upTo[i + 1]) = Len(upTo[i]) + Len(lists[i + 1])
    BY Zenon, <1>3, <2>1, <2>2
  <2>4. ASSUME NEW j \in 1..(i + 1) PROVE Len(lists[j]) <= Len(upTo[i + 1])
    <3> DEFINE before == Len(upTo[i])
               after == Len(upTo[i + 1])
               new == Len(lists[i + 1])
               old == Len(lists[j])
    <3>1. before \in Nat /\ new \in Nat
        BY <1>2, <2>1
    <3>2. after = before + new
        BY Zenon, <2>3
    <3>3. j = i + 1 \/ (j \in 1..i /\ j \in 1..n)
        BY <1>2
    <3>4. j = i + 1 => old = new
        BY Zenon
    <3>5. j \in 1..i /\ j \in 1..n => old \in Nat /\ old <= before
        BY <1>2, <2>1
    <3> HIDE DEF before, after, new, old
    <3>6. old <= after
        BY <3>1, <3>2, <3>3, <3>4, <3>5
    <3> QED
        BY Zenon, <3>6 DEF old, after
  <2> QED
    BY Zenon, <2>3, <2>4
<1>11. n \in T
  <2> HIDE DEF T
  <2> QED
    BY Zenon, <1>2, <1>9, <1>10, NatSetInduction
<1>12. upTo[n] \in Seq(S) /\ \A j \in 1..n : Len(lists[j]) <= Len(upTo[n])
    BY <1>2, <1>11
<1> QED
    BY Zenon, <1>1, <1>12 DEF n

\* The nodes that may be sent to for these labels.
Eligible(tree, labels) ==
    {n \in DOMAIN tree : NodeMatches(tree[n], labels) \/ Fallback(tree[n])}

\* What a visit adds are eligible nodes, if those are what its children add; and
\* a node that falls back adds something.
LEMMA VisitAdds ==
    ASSUME NEW tree, PolicyTree(tree), NEW labels, NEW n \in DOMAIN tree, NEW walk,
           \A i \in DOMAIN tree[n].kids : walk[tree[n].kids[i]] \in Seq(Eligible(tree, labels))
    PROVE  /\ Visit(tree, labels, n, walk) \in Seq(Eligible(tree, labels))
           /\ Fallback(tree[n]) => Len(Visit(tree, labels, n, walk)) >= 1
<1> DEFINE kids == tree[n].kids
           taken == Taken(tree, n, labels)
           G == Eligible(tree, labels)
           lists == [i \in DOMAIN kids |->
                        IF i \in taken THEN <<kids[i]>> \o walk[kids[i]] ELSE <<>>]
<1>1. kids \in Seq(DOMAIN tree)
    BY Zenon DEF PolicyTree
<1>2. DOMAIN kids = 1..Len(kids) /\ Len(kids) \in Nat /\ \A i \in DOMAIN kids : kids[i] \in DOMAIN tree
    BY <1>1
<1>3. ASSUME NEW i \in taken PROVE i \in DOMAIN kids /\ kids[i] \in G
  <2>1. i \in DOMAIN kids /\ NodeMatches(tree[kids[i]], labels)
    BY Zenon DEF Taken
  <2> QED
    BY Zenon, <1>2, <2>1 DEF Eligible
<1>4. CASE taken # {}
  <2>1. Visit(tree, labels, n, walk) = Concat(lists)
    BY Zenon, <1>4 DEF Visit
  <2> HIDE DEF G, taken, kids
  <2>2. ASSUME NEW i \in DOMAIN kids
        PROVE  lists[i] \in Seq(G) /\ (i \in taken => Len(lists[i]) >= 1)
    <3>1. walk[kids[i]] \in Seq(G)
        BY Zenon DEF kids, G
    <3>2. ASSUME i \in taken
          PROVE  /\ lists[i] = <<kids[i]>> \o walk[kids[i]]
                 /\ kids[i] \in G
        BY Zenon, <1>3, <3>2
    <3>3. i \in taken => lists[i] \in Seq(G) /\ Len(lists[i]) >= 1
      <4> SUFFICES ASSUME i \in taken PROVE lists[i] \in Seq(G) /\ Len(lists[i]) >= 1
        OBVIOUS
      <4> DEFINE k == kids[i]
                 below == walk[k]
      <4>1. lists[i] = <<k>> \o below /\ k \in G /\ below \in Seq(G)
        BY Zenon, <3>1, <3>2
      <4> HIDE DEF lists, k, below
      <4> QED
        BY <4>1
    <3>4. i \notin taken => lists[i] = <<>>
        BY Zenon
    <3>5. <<>> \in Seq(G)
        OBVIOUS
    <3> QED
        BY Zenon, <3>3, <3>4, <3>5
  <2>3. DOMAIN lists = 1..Len(kids)
    BY Zenon, <1>2
  <2>4. PICK at \in DOMAIN kids : at \in taken
    BY Zenon, <1>3, <1>4
  <2>9. lists = [i \in 1..Len(kids) |-> lists[i]]
    BY Zenon, <1>2
  <2> HIDE DEF lists
  <2>5. lists \in Seq(Seq(G)) /\ Len(lists) = Len(kids)
    BY <1>2, <2>2, <2>3, <2>9
  <2>6. /\ Concat(lists) \in Seq(G)
        /\ \A j \in 1..Len(kids) : Len(lists[j]) <= Len(Concat(lists))
    BY Zenon, <2>5, Concatenated
  <2>7. Len(lists[at]) >= 1 /\ Len(lists[at]) <= Len(Concat(lists)) /\ lists[at] \in Seq(G)
    BY Zenon, <1>2, <2>2, <2>4, <2>6
  <2>8. Len(Concat(lists)) >= 1
    BY <2>6, <2>7
  <2> QED
    BY Zenon, <2>1, <2>6, <2>8 DEF G
<1>5. CASE taken = {} /\ Fallback(tree[n])
  <2>1. Visit(tree, labels, n, walk) = <<n>>
    BY Zenon, <1>5 DEF Visit
  <2>2. n \in Eligible(tree, labels)
    BY Zenon, <1>5 DEF Eligible
  <2> QED
    BY <2>1, <2>2
<1>6. CASE taken = {} /\ ~Fallback(tree[n])
  <2>1. Visit(tree, labels, n, walk) = <<>>
    BY Zenon, <1>6 DEF Visit
  <2> QED
    BY <1>6, <2>1
<1> QED
    BY Zenon, <1>4, <1>5, <1>6

\* A visit looks at the walks of the node's children only.
LEMMA VisitLooksDown ==
    ASSUME NEW tree, NEW labels, NEW n, NEW v, NEW w,
           \A i \in DOMAIN tree[n].kids : v[tree[n].kids[i]] = w[tree[n].kids[i]]
    PROVE  Visit(tree, labels, n, v) = Visit(tree, labels, n, w)
<1> DEFINE kids == tree[n].kids
           taken == Taken(tree, n, labels)
           lists(u) == [i \in DOMAIN kids |->
                           IF i \in taken THEN <<kids[i]>> \o u[kids[i]] ELSE <<>>]
<1>1. lists(v) = lists(w)
  <2> HIDE DEF taken
  <2>1. \A i \in DOMAIN kids : v[kids[i]] = w[kids[i]]
    BY Zenon
  <2> HIDE DEF kids
  <2> QED
    BY Zenon, <2>1
<1>2. \A u : Visit(tree, labels, n, u)
               = IF taken # {} THEN Concat(lists(u))
                 ELSE IF Fallback(tree[n]) THEN <<n>> ELSE <<>>
    BY Zenon DEF Visit
<1> HIDE DEF lists
<1> QED
    BY Zenon, <1>1, <1>2

\* So there is a walk: a visit of every node, each after its children.
LEMMA WalkExists ==
    ASSUME NEW tree, PolicyTree(tree), NEW labels
    PROVE  \E w : w = [n \in DOMAIN tree |-> Visit(tree, labels, n, w)]
<1> DEFINE D == DOMAIN tree
           N == Cardinality(D)
           W == Seq(Eligible(tree, labels))
           V(n, w) == Visit(tree, labels, n, w)
<1>1. N \in Nat
    BY Zenon, FS_CardinalityType DEF PolicyTree
<1>2. PICK height \in [D -> 0..N] :
          \A n \in D : \A i \in DOMAIN tree[n].kids : height[tree[n].kids[i]] < height[n]
    BY Zenon DEF PolicyTree
<1>3. ASSUME NEW n \in D, NEW i \in DOMAIN tree[n].kids PROVE tree[n].kids[i] \in D
  <2>1. tree[n].kids \in Seq(D)
    BY Zenon DEF PolicyTree
  <2> QED
    BY <2>1
<1> DEFINE T == {m \in Nat : \E w \in [D -> W] : \A n \in D : height[n] < m => w[n] = V(n, w)}
<1>4. 0 \in T
  <2> DEFINE w == [n \in D |-> <<>>]
  <2>1. w \in [D -> W]
    OBVIOUS
  <2>2. \A n \in D : ~(height[n] < 0)
    BY <1>1, <1>2
  <2> HIDE DEF w
  <2> QED
    BY <2>1, <2>2
<1>5. ASSUME NEW m \in Nat, m \in T PROVE m + 1 \in T
  <2>1. PICK w \in [D -> W] : \A n \in D : height[n] < m => w[n] = V(n, w)
    BY Zenon, <1>5
  <2> DEFINE u == [n \in D |-> IF height[n] = m THEN V(n, w) ELSE w[n]]
  <2>2. ASSUME NEW n \in D PROVE V(n, w) \in W
    BY Zenon, <1>3, <2>1, VisitAdds
  <2>3. u \in [D -> W]
    BY Zenon, <2>1, <2>2
  <2>4. ASSUME NEW n \in D, height[n] < m + 1 PROVE u[n] = V(n, u)
    <3>1. ASSUME NEW i \in DOMAIN tree[n].kids PROVE u[tree[n].kids[i]] = w[tree[n].kids[i]]
      <4> DEFINE k == tree[n].kids[i]
      <4>1. k \in D /\ height[k] < height[n]
        BY Zenon, <1>2, <1>3
      <4> HIDE DEF k
      <4>2. height[k] \in 0..N /\ height[n] \in 0..N
        BY Zenon, <1>2, <4>1
      <4>3. height[k] # m
        BY <1>1, <2>4, <4>1, <4>2
      <4>4. u[k] = w[k]
        BY Zenon, <4>1, <4>3
      <4> QED
        BY Zenon, <4>4 DEF k
    <3> HIDE DEF u
    <3>2. V(n, u) = V(n, w)
        BY Zenon, <3>1, VisitLooksDown
    <3>3. u[n] = V(n, w)
      <4>1. CASE height[n] = m
        BY Zenon, <4>1 DEF u
      <4>2. CASE height[n] # m
        <5>1. height[n] < m
            BY <1>1, <1>2, <2>4, <4>2
        <5> QED
            BY Zenon, <2>1, <4>2, <5>1 DEF u
      <4> QED
        BY Zenon, <4>1, <4>2
    <3> QED
        BY Zenon, <3>2, <3>3
  <2> HIDE DEF u, V, W
  <2>5. m + 1 \in Nat
    OBVIOUS
  <2> QED
    BY Zenon, <2>3, <2>4, <2>5
<1>6. N + 1 \in T
  <2> HIDE DEF T
  <2>1. N + 1 \in Nat
    BY <1>1
  <2> QED
    BY Zenon, <1>4, <1>5, <2>1, NatSetInduction
<1> HIDE DEF W, V
<1>7. PICK w \in [D -> W] : \A n \in D : height[n] < N + 1 => w[n] = V(n, w)
    BY Zenon, <1>6
<1>8. \A n \in D : w[n] = V(n, w)
    BY <1>1, <1>2, <1>7
<1>9. w = [n \in D |-> V(n, w)]
    BY Zenon, <1>7, <1>8
<1> QED
    BY Zenon, <1>9 DEF V

\* collectMatchingRoutes returns eligible nodes of the tree; and where the root
\* is the default policy with a contact point, it returns at least one.
LEMMA RoutesAreEligible ==
    ASSUME NEW tree, PolicyTree(tree), NEW labels, NEW root \in DOMAIN tree
    PROVE  /\ CollectMatchingRoutes(tree, root, labels) \in Seq(Eligible(tree, labels))
           /\ Fallback(tree[root]) => Len(CollectMatchingRoutes(tree, root, labels)) >= 1
<1> DEFINE D == DOMAIN tree
           N == Cardinality(D)
           W == Seq(Eligible(tree, labels))
           F(w) == [n \in D |-> Visit(tree, labels, n, w)]
           walk == CHOOSE w : w = F(w)
<1>1. CollectMatchingRoutes(tree, root, labels) = walk[root]
    BY Zenon DEF CollectMatchingRoutes
<1>2. walk = F(walk)
  <2>1. PICK w : w = [n \in DOMAIN tree |-> Visit(tree, labels, n, w)]
    BY WalkExists
  <2>2. w = F(w)
    BY <2>1
  <2> HIDE DEF F
  <2> QED
    BY Zenon, <2>2
<1>3. \A n \in D : walk[n] = Visit(tree, labels, n, walk)
  <2> HIDE DEF walk
  <2> QED
    BY Zenon, <1>2
<1> HIDE DEF walk
<1>4. N \in Nat
    BY Zenon, FS_CardinalityType DEF PolicyTree
<1>5. PICK height \in [D -> 0..N] :
          \A n \in D : \A i \in DOMAIN tree[n].kids : height[tree[n].kids[i]] < height[n]
    BY Zenon DEF PolicyTree
<1>6. ASSUME NEW n \in D, NEW i \in DOMAIN tree[n].kids PROVE tree[n].kids[i] \in D
  <2>1. tree[n].kids \in Seq(D)
    BY Zenon DEF PolicyTree
  <2> QED
    BY <2>1
<1> DEFINE T == {m \in Nat : \A n \in D : height[n] < m => walk[n] \in W}
<1>7. 0 \in T
    BY <1>4, <1>5
<1>8. ASSUME NEW m \in Nat, m \in T PROVE m + 1 \in T
  <2>1. ASSUME NEW n \in D, height[n] < m + 1 PROVE walk[n] \in W
    <3>1. ASSUME NEW i \in DOMAIN tree[n].kids PROVE walk[tree[n].kids[i]] \in W
      <4> DEFINE k == tree[n].kids[i]
      <4>1. k \in D /\ height[k] < height[n]
        BY Zenon, <1>5, <1>6
      <4> HIDE DEF k
      <4>2. height[k] \in 0..N /\ height[n] \in 0..N
        BY Zenon, <1>5, <4>1
      <4>3. height[k] < m
        BY <1>4, <2>1, <4>1, <4>2
      <4>4. walk[k] \in W
        BY Zenon, <1>8, <4>1, <4>3
      <4> QED
        BY Zenon, <4>4 DEF k
    <3>2. Visit(tree, labels, n, walk) \in W
        BY Zenon, <3>1, VisitAdds
    <3> QED
        BY Zenon, <1>3, <3>2
  <2> HIDE DEF W
  <2>2. m + 1 \in Nat
    OBVIOUS
  <2> QED
    BY Zenon, <2>1, <2>2
<1>9. N + 1 \in T
  <2> HIDE DEF T
  <2>1. N + 1 \in Nat
    BY <1>4
  <2> QED
    BY Zenon, <1>7, <1>8, <2>1, NatSetInduction
<1>10. \A n \in D : walk[n] \in W
  <2> HIDE DEF W
  <2>1. \A n \in D : height[n] < N + 1
    BY <1>4, <1>5
  <2> QED
    BY Zenon, <1>9, <2>1
<1>11. Fallback(tree[root]) => Len(Visit(tree, labels, root, walk)) >= 1
    BY Zenon, <1>6, <1>10, VisitAdds
<1> QED
    BY Zenon, <1>1, <1>3, <1>10, <1>11

\* Every route of an event's labels is a node of the tree that matches them or
\* the default policy; with a default policy at the root that has a contact
\* point, no labels are left without a route.
THEOREM RoutesFollowThePolicy ==
    \A labels \in LabelSets :
        /\ RoutesFor[labels] \in Seq(Eligible(Tree, labels))
        /\ Fallback(Tree[Root]) => Len(RoutesFor[labels]) >= 1
<1> SUFFICES ASSUME NEW labels \in LabelSets
             PROVE  /\ RoutesFor[labels] \in Seq(Eligible(Tree, labels))
                    /\ Fallback(Tree[Root]) => Len(RoutesFor[labels]) >= 1
    BY Zenon
<1>1. RoutesFor[labels] = CollectMatchingRoutes(Tree, Root, labels)
    BY Zenon DEF RoutesFor
<1> QED
    BY Zenon, <1>1, DispatchAssumption, RoutesAreEligible

-----------------------------------------------------------------------------
(* NotificationDispatch: the contact points of a handler, each one once.   *)

Distinct(q) == \A i, j \in DOMAIN q : q[i] = q[j] => i = j

\* Lists of contact points without repetitions.
Lists == {q \in Seq(ContactPoints) : Distinct(q)}

\* Appending a new contact point keeps such a list one.
LEMMA AppendDistinct ==
    ASSUME NEW q \in Lists, NEW c \in ContactPoints, c \notin Range(q)
    PROVE  Append(q, c) \in Lists
<1>1. /\ Append(q, c) \in Seq(ContactPoints) /\ Len(q) \in Nat
      /\ DOMAIN Append(q, c) = 1..(Len(q) + 1) /\ DOMAIN q = 1..Len(q)
      /\ Append(q, c)[Len(q) + 1] = c /\ \A i \in 1..Len(q) : Append(q, c)[i] = q[i]
    BY DEF Lists
<1>2. \A i \in 1..Len(q) : q[i] # c
    BY Zenon, <1>1 DEF Range
<1>3. ASSUME NEW i \in 1..(Len(q) + 1), NEW j \in 1..(Len(q) + 1),
             Append(q, c)[i] = Append(q, c)[j]
      PROVE  i = j
  <2>1. i \in 1..Len(q) /\ j \in 1..Len(q) => i = j
    BY Zenon, <1>1, <1>3 DEF Lists, Distinct
  <2>2. i \in 1..Len(q) \/ i = Len(q) + 1
    BY <1>1
  <2>3. j \in 1..Len(q) \/ j = Len(q) + 1
    BY <1>1
  <2> QED
    BY Zenon, <1>1, <1>2, <1>3, <2>1, <2>2, <2>3
<1> QED
    BY Zenon, <1>1, <1>3 DEF Lists, Distinct

\* One pass of the loop over the routes keeps the list free of repetitions.
LEMMA JoinList ==
    ASSUME NEW q \in Lists, NEW n \in DOMAIN Tree
    PROVE  Join(q, n) \in Lists
<1>1. Tree[n].cp \notin {NoContactPoint} => Tree[n].cp \in ContactPoints
    BY Zenon DEF ContactPoints
<1>2. CASE Tree[n].cp \in Range(q) \cup {NoContactPoint}
    BY Zenon, <1>2 DEF Join
<1>3. CASE Tree[n].cp \notin Range(q) \cup {NoContactPoint}
    BY Zenon, <1>1, <1>3, AppendDistinct DEF Join
<1> QED
    BY Zenon, <1>2, <1>3

\* The loop over the routes of one set of labels, in handle and in
\* handleApprovalCreated, yields no contact point twice.
LEMMA ReachList ==
    ASSUME NEW q \in Lists, NEW labels \in LabelSets
    PROVE  Reach(q, labels) \in Lists
<1> DEFINE nodes == RoutesFor[labels]
           n == Len(nodes)
           Add(i, v) == Join(v, nodes[i])
           next == [p \in (1..n) \X Lists |-> Add(p[1], p[2])]
           F(g) == [i \in 0..n |-> IF i = 0 THEN q ELSE Add(i, g[i - 1])]
           upTo == CHOOSE g : g = F(g)
<1>1. nodes \in Seq(DOMAIN Tree)
  <2>1. nodes \in Seq(Eligible(Tree, labels))
    BY Zenon, RoutesFollowThePolicy
  <2>2. Eligible(Tree, labels) \subseteq DOMAIN Tree
    BY Zenon DEF Eligible
  <2> HIDE DEF nodes
  <2> QED
    BY <2>1, <2>2
<1>2. Reach(q, labels) = upTo[n]
    BY Zenon DEF Reach
<1> HIDE DEF nodes
<1>3. n \in Nat /\ \A i \in 1..n : nodes[i] \in DOMAIN Tree
    BY <1>1
<1>4. ASSUME NEW i \in 1..n, NEW v \in Lists PROVE Add(i, v) \in Lists
    BY Zenon, <1>3, JoinList
<1> HIDE DEF n, Add
<1>5. /\ next \in [(1..n) \X Lists -> Lists]
      /\ \A i \in 1..n, v \in Lists : next[<<i, v>>] = Add(i, v)
    BY Zenon, <1>4
<1> HIDE DEF next
<1>6. PICK g \in [0..n -> Lists] : Unrolls(g, n, q, next)
    BY Zenon, <1>3, <1>5, Unroll
<1>7. g = F(g)
  <2>1. ASSUME NEW i \in 0..n, i # 0 PROVE g[i] = Add(i, g[i - 1])
    <3>1. i \in 1..n /\ i - 1 \in 0..n
        BY <1>3, <2>1
    <3> QED
        BY Zenon, <1>5, <1>6, <3>1 DEF Unrolls
  <2> QED
    BY Zenon, <1>3, <1>6, <2>1 DEF Unrolls
<1>8. upTo = F(upTo)
  <2> HIDE DEF F
  <2> QED
    BY Zenon, <1>7
<1> HIDE DEF upTo
<1> DEFINE T == {i \in Nat : i <= n => upTo[i] \in Lists}
<1>9. 0 \in T
    BY <1>3, <1>8
<1>10. ASSUME NEW i \in Nat, i \in T PROVE i + 1 \in T
  <2> SUFFICES ASSUME i + 1 <= n PROVE upTo[i + 1] \in Lists
    OBVIOUS
  <2>1. /\ i + 1 \in 0..n /\ i + 1 \in 1..n /\ i + 1 # 0 /\ (i + 1) - 1 = i
        /\ upTo[i] \in Lists
    BY <1>3, <1>10
  <2>2. upTo[i + 1] = Add(i + 1, upTo[i])
    BY Zenon, <1>8, <2>1
  <2> QED
    BY Zenon, <1>4, <2>1, <2>2
<1>11. n \in T
  <2> HIDE DEF T
  <2> QED
    BY Zenon, <1>3, <1>9, <1>10, NatSetInduction
<1> QED
    BY <1>2, <1>3, <1>11

\* Nor does the loop over the teams of a user.
LEMMA ReachAllList ==
    ASSUME NEW q \in Lists, NEW teams \in Seq(LabelSets)
    PROVE  ReachAll(q, teams) \in Lists
<1> DEFINE n == Len(teams)
           Add(i, v) == Reach(v, teams[i])
           next == [p \in (1..n) \X Lists |-> Add(p[1], p[2])]
           F(g) == [i \in 0..n |-> IF i = 0 THEN q ELSE Add(i, g[i - 1])]
           upTo == CHOOSE g : g = F(g)
<1>2. ReachAll(q, teams) = upTo[n]
    BY Zenon DEF ReachAll
<1>3. n \in Nat /\ \A i \in 1..n : teams[i] \in LabelSets
    OBVIOUS
<1>4. ASSUME NEW i \in 1..n, NEW v \in Lists PROVE Add(i, v) \in Lists
    BY Zenon, <1>3, ReachList
<1> HIDE DEF n, Add
<1>5. /\ next \in [(1..n) \X Lists -> Lists]
      /\ \A i \in 1..n, v \in Lists : next[<<i, v>>] = Add(i, v)
    BY Zenon, <1>4
<1> HIDE DEF next
<1>6. PICK g \in [0..n -> Lists] : Unrolls(g, n, q, next)
    BY Zenon, <1>3, <1>5, Unroll
<1>7. g = F(g)
  <2>1. ASSUME NEW i \in 0..n, i # 0 PROVE g[i] = Add(i, g[i - 1])
    <3>1. i \in 1..n /\ i - 1 \in 0..n
        BY <1>3, <2>1
    <3> QED
        BY Zenon, <1>5, <1>6, <3>1 DEF Unrolls
  <2> QED
    BY Zenon, <1>3, <1>6, <2>1 DEF Unrolls
<1>8. upTo = F(upTo)
  <2> HIDE DEF F
  <2> QED
    BY Zenon, <1>7
<1> HIDE DEF upTo
<1> DEFINE T == {i \in Nat : i <= n => upTo[i] \in Lists}
<1>9. 0 \in T
    BY <1>3, <1>8
<1>10. ASSUME NEW i \in Nat, i \in T PROVE i + 1 \in T
  <2> SUFFICES ASSUME i + 1 <= n PROVE upTo[i + 1] \in Lists
    OBVIOUS
  <2>1. /\ i + 1 \in 0..n /\ i + 1 \in 1..n /\ i + 1 # 0 /\ (i + 1) - 1 = i
        /\ upTo[i] \in Lists
    BY <1>3, <1>10
  <2>2. upTo[i + 1] = Add(i + 1, upTo[i])
    BY Zenon, <1>8, <2>1
  <2> QED
    BY Zenon, <1>4, <2>1, <2>2
<1>11. n \in T
  <2> HIDE DEF T
  <2> QED
    BY Zenon, <1>3, <1>9, <1>10, NatSetInduction
<1> QED
    BY <1>2, <1>3, <1>11

-----------------------------------------------------------------------------
(* Types, and what a handler has at hand at each await.                    *)

\* The awaits at which a handler is about the first contact point of its list.
Sending == {"lookup", "contact", "send", "find", "write"}

\* A handler of msg: its list has no repetitions and is not empty while it is
\* being sent to; while approvers' teams are read there is an approver to read.
Good(w, msg) ==
    /\ w \in Work
    /\ w.routes \in Lists
    /\ w.pc \in Sending => w.routes # <<>>
    /\ w.pc = "tree" => msg.kind = "alert" \/ msg.audience # <<>>
    /\ w.pc = "teams" => msg.kind # "alert" /\ w.user \in 1..Len(msg.audience)

DispatchInv ==
    /\ DispatchTypeOK
    /\ \A m \in Msgs : Good(work[m], inbox[m])

\* The numbers a handler starts with.
LEMMA Zeros ==
    /\ 0 \in 0..MaxTime /\ 1 \in 1..Integrations + 1 /\ 1 \in Nat /\ 0 \in Nat
    /\ MaxTime \in Nat /\ Integrations \in Nat /\ MaxStoreFaults \in Nat
    /\ <<>> \in Lists
<1>1. <<>> \in Lists
    BY DEF Lists, Distinct
<1> QED
    BY <1>1, DispatchAssumption

\* A list without its head.
LEMMA TailList ==
    ASSUME NEW q \in Lists, q # <<>>
    PROVE  /\ Tail(q) \in Lists
           /\ Head(q) \in ContactPoints /\ Head(q) \in Range(q)
           /\ Head(q) \notin Range(Tail(q))
           /\ Range(Tail(q)) \subseteq Range(q)
           /\ \A c \in Range(q) : c = Head(q) \/ c \in Range(Tail(q))
<1>1. /\ q \in Seq(ContactPoints) /\ Len(q) \in Nat /\ Len(q) >= 1
      /\ DOMAIN q = 1..Len(q) /\ Head(q) = q[1]
      /\ Tail(q) \in Seq(ContactPoints) /\ DOMAIN Tail(q) = 1..(Len(q) - 1)
      /\ \A i \in 1..(Len(q) - 1) : Tail(q)[i] = q[i + 1]
    BY DEF Lists
<1>2. \A i, j \in 1..Len(q) : q[i] = q[j] => i = j
    BY Zenon, <1>1 DEF Lists, Distinct
<1>3. Tail(q) \in Lists
  <2>1. ASSUME NEW i \in 1..(Len(q) - 1), NEW j \in 1..(Len(q) - 1), Tail(q)[i] = Tail(q)[j]
        PROVE  i = j
    <3>1. i + 1 \in 1..Len(q) /\ j + 1 \in 1..Len(q) /\ q[i + 1] = q[j + 1]
        BY <1>1, <2>1
    <3>2. i + 1 = j + 1
        BY Zenon, <1>2, <3>1
    <3> QED
        BY <3>2
  <2> QED
    BY Zenon, <1>1, <2>1 DEF Lists, Distinct
<1>4. Head(q) \in ContactPoints /\ Head(q) \in Range(q)
    BY <1>1 DEF Range
<1>5. ASSUME NEW i \in 1..(Len(q) - 1) PROVE Tail(q)[i] # Head(q) /\ Tail(q)[i] \in Range(q)
  <2>1. 1 \in 1..Len(q) /\ i + 1 \in 1..Len(q) /\ i + 1 # 1
    BY <1>1
  <2> QED
    BY Zenon, <1>1, <1>2, <2>1 DEF Range
<1>6. ASSUME NEW i \in 1..Len(q) PROVE q[i] = Head(q) \/ q[i] \in Range(Tail(q))
  <2>1. i = 1 \/ (i - 1 \in 1..(Len(q) - 1) /\ (i - 1) + 1 = i)
    BY <1>1
  <2> QED
    BY Zenon, <1>1, <2>1 DEF Range
<1> QED
    BY <1>1, <1>3, <1>4, <1>5, <1>6 DEF Range

\* The handlers that an await leaves behind.
LEMMA GoodNew ==
    ASSUME NEW msg, NEW pc \in {"none", "approvers", "tree", "teams", "done"},
           pc = "tree" => msg.kind = "alert" \/ msg.audience # <<>>,
           pc = "teams" => msg.kind # "alert" /\ 1 \in 1..Len(msg.audience)
    PROVE  Good([NoWork EXCEPT !.pc = pc], msg)
<1>1. /\ [NoWork EXCEPT !.pc = pc].pc = pc /\ [NoWork EXCEPT !.pc = pc].routes = <<>>
      /\ [NoWork EXCEPT !.pc = pc].user = 1
    BY Zenon DEF NoWork
<1>2. [NoWork EXCEPT !.pc = pc] \in Work
    BY Zenon, Zeros DEF NoWork, Work, NoRow, Lists
<1> QED
    BY Zenon, <1>1, <1>2, Zeros DEF Good, Sending

\* A handler about to send.
LEMMA GoodStart ==
    ASSUME NEW msg, NEW w, NEW cps \in Lists, now \in 0..MaxTime
    PROVE  Good(WorkOn(w, cps), msg)
<1>1. CASE cps = <<>>
    BY Zenon, <1>1, GoodNew DEF WorkOn
<1>2. CASE cps # <<>>
  <2> DEFINE v == [NoWork EXCEPT !.pc = "lookup", !.routes = cps, !.at = now]
  <2>1. v.pc = "lookup" /\ v.routes = cps
    BY Zenon DEF NoWork
  <2>2. v \in Work
    BY Zenon, Zeros DEF NoWork, Work, NoRow, Lists
  <2>3. Good(v, msg)
    BY Zenon, <1>2, <2>1, <2>2 DEF Good, Sending
  <2> QED
    BY Zenon, <1>2, <2>3 DEF WorkOn
<1> QED
    BY Zenon, <1>1, <1>2

\* A handler done with the first contact point of its list.
LEMMA GoodProceed ==
    ASSUME NEW msg, NEW w, Good(w, msg), w.pc \in Sending, now \in 0..MaxTime
    PROVE  Good(Proceed(w), msg)
<1>1. Tail(w.routes) \in Lists
    BY Zenon, TailList DEF Good
<1> QED
    BY Zenon, <1>1, GoodStart DEF Proceed

\* A handler that stays with the first contact point of its list.
LEMMA GoodAt ==
    ASSUME NEW msg, NEW w, Good(w, msg), w.pc \in Sending
    PROVE  /\ \A pc \in Sending : Good([w EXCEPT !.pc = pc], msg)
           /\ \A row \in [last : 0..MaxTime, count : Nat] :
                Good([w EXCEPT !.pc = "write", !.found = row], msg)
           /\ \A any \in BOOLEAN, at \in 0..MaxTime :
                Good([w EXCEPT !.pc = "find", !.any = any, !.at = at], msg)
           /\ \A any \in BOOLEAN : w.next < Integrations /\ w.pc = "send" =>
                Good([w EXCEPT !.next = @ + 1, !.any = any], msg)
<1>0. w \in Work /\ w.routes \in Lists /\ w.routes # <<>>
    BY Zenon DEF Good
<1>1. ASSUME NEW v, v \in Work, v.routes = w.routes, v.pc \in Sending PROVE Good(v, msg)
    BY Zenon, <1>0, <1>1 DEF Good, Sending
<1>2. ASSUME NEW pc \in Sending PROVE Good([w EXCEPT !.pc = pc], msg)
    BY Zenon, <1>0, <1>1 DEF Work, Sending
<1>3. ASSUME NEW row \in [last : 0..MaxTime, count : Nat]
      PROVE  Good([w EXCEPT !.pc = "write", !.found = row], msg)
    BY Zenon, <1>0, <1>1 DEF Work, Sending
<1>4. ASSUME NEW any \in BOOLEAN, NEW at \in 0..MaxTime
      PROVE  Good([w EXCEPT !.pc = "find", !.any = any, !.at = at], msg)
    BY Zenon, <1>0, <1>1 DEF Work, Sending
<1>5. ASSUME NEW any \in BOOLEAN, w.next < Integrations, w.pc = "send"
      PROVE  Good([w EXCEPT !.next = @ + 1, !.any = any], msg)
  <2> DEFINE v == [w EXCEPT !.next = @ + 1, !.any = any]
  <2>1. w.next \in 1..Integrations + 1
    BY Zenon, <1>0 DEF Work
  <2>2. w.next + 1 \in 1..Integrations + 1
    BY <1>5, <2>1, Zeros
  <2>3. v \in Work /\ v.routes = w.routes /\ v.pc = w.pc
    BY Zenon, <1>0, <2>2 DEF Work
  <2> HIDE DEF v
  <2>4. Good(v, msg)
    BY Zenon, <1>1, <2>3
  <2> QED
    BY Zenon, <2>4 DEF v
<1> QED
    BY Zenon, <1>2, <1>3, <1>4, <1>5

\* One handler moves on; nothing was published meanwhile.
LEMMA MoveGood ==
    ASSUME DispatchInv, NEW m \in Msgs, NEW w, Set(m, w), Good(w, inbox[m]), UNCHANGED inbox
    PROVE  /\ work' \in [Msgs' -> Work] /\ \A k \in Msgs' : Good(work[k], inbox[k])'
           /\ Msgs' = Msgs /\ Keys' = Keys /\ work'[m] = w
           /\ \A k \in Msgs : k # m => work'[k] = work[k]
<1>1. Msgs' = Msgs /\ Keys' = Keys
    BY Zenon DEF Msgs, Keys
<1>2. work \in [Msgs -> Work] /\ \A k \in Msgs : Good(work[k], inbox[k])
    BY Zenon DEF DispatchInv, DispatchTypeOK
<1>3. work'[m] = w /\ \A k \in Msgs : k # m => work'[k] = work[k]
    BY Zenon, <1>2 DEF Set
<1>4. work' \in [Msgs -> Work]
    BY Zenon, <1>2 DEF Set, Good
<1>5. ASSUME NEW k \in Msgs PROVE Good(work'[k], inbox'[k])
    BY Zenon, <1>2, <1>3
<1>6. \A k \in Msgs : Good(work[k], inbox[k])'
    BY Zenon, <1>5 DEF Good, Work, ContactPoints, Lists, Sending
<1> QED
    BY Zenon, <1>1, <1>3, <1>4, <1>6

\* What the events of a behaviour look like.
LEMMA Message ==
    ASSUME DispatchInv, NEW m \in Msgs
    PROVE  /\ inbox[m].kind \in {"alert", "approval"}
           /\ inbox[m].audience \in Seq(Seq(LabelSets))
           /\ inbox[m].kind = "alert" => inbox[m].audience[1][1] \in LabelSets
<1>1. inbox \in Inboxes /\ m \in DOMAIN inbox
    BY Zenon DEF DispatchInv, DispatchTypeOK, Msgs
<1>2. /\ inbox[m].kind \in {"alert", "approval"}
      /\ inbox[m].audience \in Seq(Seq(LabelSets))
      /\ inbox[m].kind = "alert" => Len(inbox[m].audience) = 1 /\ Len(inbox[m].audience[1]) = 1
    BY Zenon, <1>1, DispatchAssumption
<1>3. ASSUME inbox[m].kind = "alert" PROVE inbox[m].audience[1][1] \in LabelSets
  <2>1. inbox[m].audience[1] \in Seq(LabelSets)
    BY <1>2, <1>3
  <2> QED
    BY <1>2, <1>3, <2>1
<1> QED
    BY Zenon, <1>2, <1>3

\* The key of the row a handler is about.
LEMMA KeyType ==
    ASSUME DispatchInv, NEW m \in Msgs, work[m].pc \in Sending
    PROVE  Key(m) \in Keys /\ Key(m) = <<inbox[m].fp, Head(work[m].routes)>>
           /\ Head(work[m].routes) \in ContactPoints
<1>1. Head(work[m].routes) \in ContactPoints
    BY Zenon, TailList DEF DispatchInv, Good
<1> QED
    BY Zenon, <1>1 DEF Key, Keys

\* What NextUser makes of a handler.
LEMMA NextUserGood ==
    ASSUME DispatchInv, NEW m \in Msgs, NEW teams \in Seq(LabelSets), work[m].pc = "teams",
           NextUser(m, teams)
    PROVE  \E w : /\ Set(m, w) /\ Good(w, inbox[m]) /\ w.pc \notin {"find", "write"}
                  /\ UNCHANGED outcome
                     \/ \E cps \in Lists : w = WorkOn(work[m], cps) /\ Route(m, cps)
<1> DEFINE cps == ReachAll(work[m].routes, teams)
<1>1. /\ Good(work[m], inbox[m]) /\ work[m] \in Work /\ now \in 0..MaxTime
      /\ cps \in Lists /\ inbox[m].kind # "alert" /\ work[m].user \in 1..Len(inbox[m].audience)
    BY Zenon, ReachAllList DEF DispatchInv, DispatchTypeOK, Good
<1>2. Len(inbox[m].audience) \in Nat
    BY Message
<1> HIDE DEF cps
<1>3. CASE work[m].user < Len(inbox[m].audience)
  <2> DEFINE w == [work[m] EXCEPT !.user = @ + 1, !.routes = cps]
  <2>1. work[m].user + 1 \in Nat /\ work[m].user + 1 \in 1..Len(inbox[m].audience)
    BY <1>1, <1>2, <1>3
  <2>2. w \in Work /\ w.routes = cps /\ w.pc = "teams" /\ w.user = work[m].user + 1
    BY Zenon, <1>1, <2>1 DEF Work, Lists
  <2>3. Set(m, w) /\ UNCHANGED outcome
    BY Zenon, <1>3 DEF NextUser, cps
  <2> HIDE DEF w
  <2>4. Good(w, inbox[m])
    BY Zenon, <1>1, <2>1, <2>2 DEF Good, Sending
  <2> QED
    BY Zenon, <2>2, <2>3, <2>4
<1>4. CASE ~(work[m].user < Len(inbox[m].audience))
  <2>1. Set(m, WorkOn(work[m], cps)) /\ Route(m, cps)
    BY Zenon, <1>4 DEF NextUser, cps
  <2>2. Good(WorkOn(work[m], cps), inbox[m])
    BY Zenon, <1>1, GoodStart
  <2>3. WorkOn(work[m], cps).pc \in {"done", "lookup"}
    BY Zenon DEF WorkOn, NoWork
  <2> QED
    BY Zenon, <1>1, <2>1, <2>2, <2>3
<1> QED
    BY Zenon, <1>3, <1>4

-----------------------------------------------------------------------------
(* What a step does to a handler, to the rows and to the deliveries.       *)

Kept == UNCHANGED <<sent, rounds>>

\* It is not routed yet.
Before(m) ==
    /\ work[m].pc \in {"none", "approvers", "tree", "teams"}
    /\ work'[m].pc \notin {"find", "write"}
    /\ Kept

\* It goes on with the contact point it is about.
Stays(m) ==
    /\ work[m].pc \in {"lookup", "contact", "send"} /\ work'[m].pc \in {"contact", "send"}
    /\ work'[m].routes = work[m].routes
    /\ Kept

\* An integration accepted.
Delivers(m) ==
    /\ work[m].pc = "send" /\ work'[m].pc = "find"
    /\ work'[m].routes = work[m].routes
    /\ sent' = sent
    /\ rounds' = rounds \cup {[key |-> Key(m), msg |-> m, end |-> work'[m].at]}

\* It reads the row.
Reads(m) ==
    /\ work[m].pc = "find" /\ work'[m].pc = "write"
    /\ work'[m].routes = work[m].routes /\ work'[m].at = work[m].at
    /\ work'[m].found = sent[Key(m)]
    /\ Kept

\* It is done with the contact point.
Leaves(m) ==
    /\ work[m].pc \in Sending /\ work'[m].pc \in {"lookup", "done"}
    /\ Range(work'[m].routes) \subseteq Range(Tail(work[m].routes))

\* ... and wrote nothing.
Drops(m) ==
    /\ Leaves(m) /\ Kept
    /\ work[m].pc \in {"find", "write"} => storeFaults' > 0 \/ sent[Key(m)] # NoRow

\* ... and wrote the row.
Records(m) ==
    /\ Leaves(m) /\ work[m].pc = "write"
    /\ sent' = [sent EXCEPT ![Key(m)] = [last |-> work[m].at, count |-> work[m].found.count + 1]]
    /\ rounds' = rounds

Moves(m) ==
    /\ Before(m) \/ Stays(m) \/ Delivers(m) \/ Reads(m) \/ Drops(m) \/ Records(m)
    /\ \A k \in Msgs : k # m => work'[k] = work[k]

\* A handler's outcome for a contact point has a known name.
LEMMA BecameType ==
    ASSUME DispatchInv, NEW m \in Msgs, work[m].pc \in Sending,
           NEW what \in {"skipped", "missing", "refused", "delivered"}, Became(m, what)
    PROVE  outcome' \in [Msgs -> [ContactPoints ->
                     {"none", "routed", "skipped", "missing", "refused", "delivered"}]]
<1>1. Head(work[m].routes) \in ContactPoints
    BY Zenon, KeyType
<1> QED
    BY Zenon, <1>1 DEF Became, DispatchInv, DispatchTypeOK

\* ... and so has being routed or not.
LEMMA RouteType ==
    ASSUME DispatchInv, NEW m \in Msgs, NEW cps, Route(m, cps)
    PROVE  outcome' \in [Msgs -> [ContactPoints ->
                     {"none", "routed", "skipped", "missing", "refused", "delivered"}]]
  BY Zenon DEF Route, DispatchInv, DispatchTypeOK

\* Moving on to the next contact point.
LEMMA ProceedLeaves ==
    ASSUME DispatchInv, NEW m \in Msgs, work[m].pc \in Sending, Set(m, Proceed(work[m])),
           UNCHANGED inbox
    PROVE  Leaves(m) /\ Good(Proceed(work[m]), inbox[m])
<1>1. work'[m] = Proceed(work[m])
    BY Zenon DEF Set, DispatchInv, DispatchTypeOK
<1>2. Good(Proceed(work[m]), inbox[m])
    BY Zenon, GoodProceed DEF DispatchInv, DispatchTypeOK
<1>3. Proceed(work[m]).pc \in {"lookup", "done"} /\ Proceed(work[m]).routes = Tail(work[m].routes)
    BY Zenon DEF Proceed, WorkOn, NoWork
<1> QED
    BY Zenon, <1>1, <1>2, <1>3 DEF Leaves

\* The sets of the types.
Rows == [last : 0..MaxTime, count : Nat]
Outcomes == {"none", "routed", "skipped", "missing", "refused", "delivered"}

\* A handler's step preserves the types if what it assigns has them.
LEMMA StepOK ==
    ASSUME DispatchInv, NEW m \in Msgs, NEW w, Set(m, w), Good(w, inbox[m]),
           UNCHANGED <<inbox, now>>,
           sent' \in [Keys -> Rows],
           outcome' \in [Msgs -> [ContactPoints -> Outcomes]],
           rounds' \subseteq [key : Keys, msg : Msgs, end : 0..MaxTime],
           storeFaults' \in 0..MaxStoreFaults
    PROVE  /\ DispatchInv' /\ work'[m] = w
           /\ \A k \in Msgs : k # m => work'[k] = work[k]
<1>1. /\ work' \in [Msgs' -> Work] /\ \A k \in Msgs' : Good(work[k], inbox[k])'
      /\ Msgs' = Msgs /\ Keys' = Keys /\ work'[m] = w
      /\ \A k \in Msgs : k # m => work'[k] = work[k]
    BY Zenon, MoveGood
<1>2. inbox \in Inboxes /\ now \in 0..MaxTime
    BY Zenon DEF DispatchInv, DispatchTypeOK
<1>3. ContactPoints' = ContactPoints
    BY Zenon DEF ContactPoints
<1>4. DispatchTypeOK'
    BY Zenon, <1>1, <1>2, <1>3 DEF DispatchTypeOK, Rows, Outcomes, Work, ContactPoints
<1> QED
    BY Zenon, <1>1, <1>4 DEF DispatchInv

\* The types of what most steps leave alone.
LEMMA Rest ==
    ASSUME DispatchInv
    PROVE  /\ sent \in [Keys -> Rows] /\ now \in 0..MaxTime
           /\ outcome \in [Msgs -> [ContactPoints -> Outcomes]]
           /\ rounds \subseteq [key : Keys, msg : Msgs, end : 0..MaxTime]
           /\ storeFaults \in 0..MaxStoreFaults
           /\ storeFaults \in Nat /\ storeFaults >= storeFaults
<1>1. storeFaults \in 0..MaxStoreFaults
    BY Zenon DEF DispatchInv, DispatchTypeOK
<1>2. storeFaults \in Nat /\ storeFaults >= storeFaults
    BY <1>1
<1> QED
    BY Zenon, <1>1, <1>2 DEF DispatchInv, DispatchTypeOK, Rows, Outcomes

\* The steps of a handler before it has contact points to send to.
LEMMA BeforeStep ==
    ASSUME DispatchInv, NEW m \in Msgs,
           Receive(m) \/ FindApprovers(m) \/ LoadTree(m) \/ ListTeams(m)
    PROVE  DispatchInv' /\ Moves(m) /\ UNCHANGED inbox /\ storeFaults' >= storeFaults
<1>0. UNCHANGED <<inbox, now, sent, rounds, storeFaults>>
    BY Zenon DEF Receive, FindApprovers, LoadTree, ListTeams, Keep
<1>1. ASSUME NEW w, Set(m, w), Good(w, inbox[m]), w.pc \notin {"find", "write"},
             work[m].pc \in {"none", "approvers", "tree", "teams"},
             outcome' \in [Msgs -> [ContactPoints -> Outcomes]]
      PROVE  DispatchInv' /\ Moves(m) /\ UNCHANGED inbox /\ storeFaults' >= storeFaults
  <2>1. /\ DispatchInv' /\ work'[m] = w
        /\ \A k \in Msgs : k # m => work'[k] = work[k]
    BY Zenon, <1>0, <1>1, Rest, StepOK
  <2> QED
    BY Zenon, <1>0, <1>1, <2>1, Rest DEF Moves, Before, Kept
<1>2. CASE Receive(m)
  <2> DEFINE pc == IF inbox[m].kind = "alert" THEN "tree" ELSE "approvers"
  <2>1. pc \in {"tree", "approvers"} /\ (pc = "tree" => inbox[m].kind = "alert")
    BY Zenon
  <2>2. Set(m, [NoWork EXCEPT !.pc = pc]) /\ outcome' = outcome /\ work[m].pc = "none"
    BY Zenon, <1>2 DEF Receive
  <2> HIDE DEF pc
  <2>3. Good([NoWork EXCEPT !.pc = pc], inbox[m]) /\ [NoWork EXCEPT !.pc = pc].pc = pc
    BY Zenon, <2>1, GoodNew DEF NoWork
  <2> QED
    BY Zenon, <1>1, <2>1, <2>2, <2>3, Rest
<1>3. CASE FindApprovers(m)
  <2> DEFINE pc == IF inbox[m].audience = <<>> THEN "done" ELSE "tree"
  <2>1. pc \in {"tree", "done"} /\ (pc = "tree" => inbox[m].audience # <<>>)
    BY Zenon
  <2>2. Set(m, [NoWork EXCEPT !.pc = pc]) /\ outcome' = outcome /\ work[m].pc = "approvers"
    BY Zenon, <1>3 DEF FindApprovers
  <2> HIDE DEF pc
  <2>3. Good([NoWork EXCEPT !.pc = pc], inbox[m]) /\ [NoWork EXCEPT !.pc = pc].pc = pc
    BY Zenon, <2>1, GoodNew DEF NoWork
  <2> QED
    BY Zenon, <1>1, <2>1, <2>2, <2>3, Rest
<1>4. CASE LoadTree(m)
  <2>0. work[m].pc = "tree" /\ Good(work[m], inbox[m])
    BY Zenon, <1>4 DEF LoadTree, DispatchInv
  <2>1. CASE inbox[m].kind = "alert"
    <3> DEFINE cps == Reach(<<>>, inbox[m].audience[1][1])
    <3>1. cps \in Lists
        BY Zenon, <2>1, Message, Zeros, ReachList
    <3>2. Set(m, WorkOn(work[m], cps)) /\ Route(m, cps)
        BY Zenon, <1>4, <2>1 DEF LoadTree
    <3> HIDE DEF cps
    <3>3. Good(WorkOn(work[m], cps), inbox[m]) /\ WorkOn(work[m], cps).pc \in {"done", "lookup"}
        BY Zenon, <3>1, Rest, GoodStart DEF WorkOn, NoWork
    <3>4. outcome' \in [Msgs -> [ContactPoints -> Outcomes]]
        BY Zenon, <3>2, RouteType DEF Outcomes
    <3> QED
        BY Zenon, <1>1, <2>0, <3>2, <3>3, <3>4
  <2>2. CASE inbox[m].kind # "alert"
    <3>1. Set(m, [NoWork EXCEPT !.pc = "teams"]) /\ outcome' = outcome
        BY Zenon, <1>4, <2>2 DEF LoadTree
    <3>2. inbox[m].audience # <<>> /\ inbox[m].audience \in Seq(Seq(LabelSets))
        BY Zenon, <2>0, <2>2, Message DEF Good
    <3>3. 1 \in 1..Len(inbox[m].audience)
        BY <3>2
    <3>4. Good([NoWork EXCEPT !.pc = "teams"], inbox[m]) /\ [NoWork EXCEPT !.pc = "teams"].pc = "teams"
        BY Zenon, <2>2, <3>3, GoodNew DEF NoWork
    <3> QED
        BY Zenon, <1>1, <2>0, <3>1, <3>4, Rest
  <2> QED
    BY Zenon, <2>1, <2>2
<1>5. CASE ListTeams(m)
  <2>1. work[m].pc = "teams" /\ NextUser(m, inbox[m].audience[work[m].user])
    BY Zenon, <1>5 DEF ListTeams
  <2>2. inbox[m].audience[work[m].user] \in Seq(LabelSets)
    BY <2>1, Message DEF DispatchInv, Good
  <2>3. PICK w : /\ Set(m, w) /\ Good(w, inbox[m]) /\ w.pc \notin {"find", "write"}
                 /\ UNCHANGED outcome
                    \/ \E cps \in Lists : w = WorkOn(work[m], cps) /\ Route(m, cps)
    BY Zenon, <2>1, <2>2, NextUserGood
  <2>4. outcome' \in [Msgs -> [ContactPoints -> Outcomes]]
    BY Zenon, <2>3, Rest, RouteType DEF Outcomes
  <2> QED
    BY Zenon, <1>1, <2>1, <2>3, <2>4
<1> QED
    BY Zenon, <1>2, <1>3, <1>4, <1>5

\* The steps of a handler that sends.
LEMMA SendingStep ==
    ASSUME DispatchInv, NEW m \in Msgs,
           LookUp(m) \/ LoadContactPoint(m) \/ Send(m) \/ UpsertFind(m) \/ UpsertWrite(m)
    PROVE  DispatchInv' /\ Moves(m) /\ UNCHANGED inbox /\ storeFaults' >= storeFaults
<1>0. /\ UNCHANGED <<inbox, now, storeFaults>>
      /\ work[m].pc \in {"lookup", "contact", "send", "find", "write"}
    BY Zenon DEF LookUp, LoadContactPoint, Send, UpsertFind, UpsertWrite, Keep
<1>1. work[m].pc \in Sending /\ Good(work[m], inbox[m]) /\ work[m] \in Work
    BY Zenon, <1>0 DEF Sending, DispatchInv, Good
<1>2. Key(m) \in Keys /\ sent[Key(m)] \in Rows
    BY Zenon, <1>1, KeyType, Rest
<1>3. ASSUME NEW w, Set(m, w), Good(w, inbox[m]), work'[m] = w =>
                Stays(m) \/ Delivers(m) \/ Reads(m) \/ Drops(m) \/ Records(m),
             sent' \in [Keys -> Rows],
             outcome' \in [Msgs -> [ContactPoints -> Outcomes]],
             rounds' \subseteq [key : Keys, msg : Msgs, end : 0..MaxTime]
      PROVE  DispatchInv' /\ Moves(m) /\ UNCHANGED inbox /\ storeFaults' >= storeFaults
  <2>1. /\ DispatchInv' /\ work'[m] = w
        /\ \A k \in Msgs : k # m => work'[k] = work[k]
    BY Zenon, <1>0, <1>3, Rest, StepOK
  <2> QED
    BY Zenon, <1>0, <1>3, <2>1, Rest DEF Moves
<1>4. ASSUME NEW w, Set(m, w), w.pc \in {"contact", "send"}, w.routes = work[m].routes,
             Good(w, inbox[m]), work[m].pc \in {"lookup", "contact", "send"},
             UNCHANGED <<sent, rounds, outcome>>
      PROVE  DispatchInv' /\ Moves(m) /\ UNCHANGED inbox /\ storeFaults' >= storeFaults
    BY Zenon, <1>3, <1>4, Rest DEF Stays, Kept
<1>5. ASSUME Set(m, Proceed(work[m])), UNCHANGED <<sent, rounds>>,
             work[m].pc \in {"find", "write"} => sent[Key(m)] # NoRow,
             outcome' \in [Msgs -> [ContactPoints -> Outcomes]]
      PROVE  DispatchInv' /\ Moves(m) /\ UNCHANGED inbox /\ storeFaults' >= storeFaults
    BY Zenon, <1>0, <1>1, <1>3, <1>5, Rest, ProceedLeaves DEF Drops, Kept
<1>6. CASE LookUp(m)
  <2>1. work[m].pc = "lookup" /\ UNCHANGED <<sent, rounds>>
    BY Zenon, <1>6 DEF LookUp, Keep
  <2>2. CASE Set(m, [work[m] EXCEPT !.pc = "contact"]) /\ UNCHANGED outcome
    <3> DEFINE w == [work[m] EXCEPT !.pc = "contact"]
    <3>1. w.pc = "contact" /\ w.routes = work[m].routes
        BY Zenon, <1>1 DEF Work
    <3>2. Good(w, inbox[m])
        BY Zenon, <1>1, GoodAt DEF Sending
    <3> QED
        BY Zenon, <1>4, <2>1, <2>2, <3>1, <3>2
  <2>3. CASE Set(m, Proceed(work[m])) /\ Became(m, "skipped")
    BY Zenon, <1>1, <1>5, <2>1, <2>3, BecameType DEF Outcomes
  <2> QED
    BY Zenon, <1>6, <2>2, <2>3 DEF LookUp
<1>7. CASE LoadContactPoint(m)
  <2>1. work[m].pc = "contact" /\ UNCHANGED <<sent, rounds>>
    BY Zenon, <1>7 DEF LoadContactPoint, Keep
  <2>2. CASE Set(m, [work[m] EXCEPT !.pc = "send"]) /\ UNCHANGED outcome
    <3> DEFINE w == [work[m] EXCEPT !.pc = "send"]
    <3>1. w.pc = "send" /\ w.routes = work[m].routes
        BY Zenon, <1>1 DEF Work
    <3>2. Good(w, inbox[m])
        BY Zenon, <1>1, GoodAt DEF Sending
    <3> QED
        BY Zenon, <1>4, <2>1, <2>2, <3>1, <3>2
  <2>3. CASE Set(m, Proceed(work[m])) /\ Became(m, "missing")
    BY Zenon, <1>1, <1>5, <2>1, <2>3, BecameType DEF Outcomes
  <2> QED
    BY Zenon, <1>7, <2>2, <2>3 DEF LoadContactPoint
<1>8. CASE Send(m)
  <2>1. work[m].pc = "send" /\ UNCHANGED sent
    BY Zenon, <1>8 DEF Send
  <2>2. ASSUME NEW any \in BOOLEAN, work[m].next < Integrations,
               Set(m, [work[m] EXCEPT !.next = @ + 1, !.any = any]), UNCHANGED <<outcome, rounds>>
        PROVE  DispatchInv' /\ Moves(m) /\ UNCHANGED inbox /\ storeFaults' >= storeFaults
    <3> DEFINE w == [work[m] EXCEPT !.next = @ + 1, !.any = any]
    <3>1. w.pc = "send" /\ w.routes = work[m].routes
        BY Zenon, <1>1, <2>1 DEF Work
    <3>2. Good(w, inbox[m])
        BY Zenon, <1>1, <2>1, <2>2, GoodAt
    <3> HIDE DEF w
    <3>3. Set(m, w)
        BY Zenon, <2>2 DEF w
    <3> QED
        BY Zenon, <1>4, <2>1, <2>2, <3>1, <3>2, <3>3
  <2>3. ASSUME NEW any \in BOOLEAN,
               Set(m, [work[m] EXCEPT !.pc = "find", !.any = any, !.at = now]),
               Became(m, "delivered"),
               rounds' = rounds \cup {[key |-> Key(m), msg |-> m, end |-> now]}
        PROVE  DispatchInv' /\ Moves(m) /\ UNCHANGED inbox /\ storeFaults' >= storeFaults
    <3> DEFINE w == [work[m] EXCEPT !.pc = "find", !.any = any, !.at = now]
    <3>1. w.pc = "find" /\ w.routes = work[m].routes /\ w.at = now
        BY Zenon, <1>1, <2>1 DEF Work
    <3>2. Good(w, inbox[m])
        BY Zenon, <1>1, GoodAt, Rest
    <3> HIDE DEF w
    <3>3. Set(m, w)
        BY Zenon, <2>3 DEF w
    <3>4. rounds' \subseteq [key : Keys, msg : Msgs, end : 0..MaxTime]
        BY <1>2, <2>3, Rest
    <3>5. outcome' \in [Msgs -> [ContactPoints -> Outcomes]]
        BY Zenon, <1>1, <2>3, BecameType DEF Outcomes
    <3>6. work'[m] = w => Delivers(m)
        BY Zenon, <2>1, <2>3, <3>1 DEF Delivers
    <3> QED
        BY Zenon, <1>3, <2>1, <3>2, <3>3, <3>4, <3>5, <3>6, Rest
  <2>4. ASSUME Set(m, Proceed(work[m])), Became(m, "refused"), UNCHANGED rounds
        PROVE  DispatchInv' /\ Moves(m) /\ UNCHANGED inbox /\ storeFaults' >= storeFaults
    BY Zenon, <1>1, <1>5, <2>1, <2>4, BecameType DEF Outcomes
  <2>5. PICK ok \in BOOLEAN :
          LET any == work[m].any \/ ok
          IN  IF work[m].next < Integrations
              THEN /\ Set(m, [work[m] EXCEPT !.next = @ + 1, !.any = any])
                   /\ UNCHANGED <<outcome, rounds>>
              ELSE IF any
              THEN /\ Set(m, [work[m] EXCEPT !.pc = "find", !.any = any, !.at = now])
                   /\ Became(m, "delivered")
                   /\ rounds' = rounds \cup {[key |-> Key(m), msg |-> m, end |-> now]}
              ELSE /\ Set(m, Proceed(work[m]))
                   /\ Became(m, "refused")
                   /\ UNCHANGED rounds
    BY Zenon, <1>8 DEF Send
  <2> DEFINE any == work[m].any \/ ok
  <2>6. any \in BOOLEAN
    BY Zenon
  <2>7. CASE work[m].next < Integrations
    BY Zenon, <2>2, <2>5, <2>6, <2>7
  <2>8. CASE ~(work[m].next < Integrations) /\ any
    BY Zenon, <2>3, <2>5, <2>6, <2>8
  <2>9. CASE ~(work[m].next < Integrations) /\ ~any
    BY Zenon, <2>4, <2>5, <2>6, <2>9
  <2> QED
    BY Zenon, <2>7, <2>8, <2>9
<1>9. CASE UpsertFind(m)
  <2>1. work[m].pc = "find" /\ UNCHANGED <<sent, rounds, outcome>>
    BY Zenon, <1>9 DEF UpsertFind, Keep
  <2> DEFINE w == [work[m] EXCEPT !.pc = "write", !.found = sent[Key(m)]]
  <2>2. w.pc = "write" /\ w.routes = work[m].routes /\ w.at = work[m].at /\ w.found = sent[Key(m)]
    BY Zenon, <1>1 DEF Work
  <2>3. Good(w, inbox[m])
    BY Zenon, <1>1, <1>2, GoodAt DEF Rows
  <2>4. Set(m, w)
    BY Zenon, <1>9 DEF UpsertFind
  <2> HIDE DEF w
  <2>5. work'[m] = w => Reads(m)
    BY Zenon, <2>1, <2>2 DEF Reads, Kept
  <2> QED
    BY Zenon, <1>3, <2>1, <2>3, <2>4, <2>5, Rest
<1>10. CASE UpsertWrite(m)
  <2>1. work[m].pc = "write" /\ UNCHANGED <<rounds, outcome>> /\ Set(m, Proceed(work[m]))
    BY Zenon, <1>10 DEF UpsertWrite
  <2>2. CASE work[m].found = NoRow /\ sent[Key(m)] # NoRow
    <3>1. sent' = sent
        BY Zenon, <1>10, <2>2 DEF UpsertWrite
    <3> QED
        BY Zenon, <1>5, <2>1, <2>2, <3>1, Rest
  <2>3. CASE ~(work[m].found = NoRow /\ sent[Key(m)] # NoRow)
    <3> DEFINE row == [last |-> work[m].at, count |-> work[m].found.count + 1]
    <3>1. sent' = [sent EXCEPT ![Key(m)] = row]
        BY Zenon, <1>10, <2>3 DEF UpsertWrite
    <3>2. work[m].at \in 0..MaxTime /\ work[m].found.count \in Nat
        BY Zenon, <1>1 DEF Work
    <3>3. work[m].found.count + 1 \in Nat
        BY <3>2
    <3>4. row \in Rows
        BY Zenon, <3>2, <3>3 DEF Rows
    <3>5. sent' \in [Keys -> Rows]
        BY Zenon, <3>1, <3>4, Rest
    <3>6. Leaves(m) /\ Good(Proceed(work[m]), inbox[m])
        BY Zenon, <1>0, <1>1, <2>1, ProceedLeaves
    <3>7. Records(m)
        BY Zenon, <2>1, <3>1, <3>6 DEF Records
    <3> QED
        BY Zenon, <1>3, <2>1, <3>5, <3>6, <3>7, Rest
  <2> QED
    BY Zenon, <2>2, <2>3
<1> QED
    BY Zenon, <1>6, <1>7, <1>8, <1>9, <1>10

\* A store call that fails.
LEMMA ThrowStep ==
    ASSUME DispatchInv, NEW m \in Msgs, StoreThrows(m)
    PROVE  DispatchInv' /\ Moves(m) /\ UNCHANGED inbox /\ storeFaults' >= storeFaults
<1>0. /\ UNCHANGED <<inbox, now, sent, rounds>> /\ storeFaults' = storeFaults + 1
      /\ storeFaults < MaxStoreFaults
    BY Zenon DEF StoreThrows
<1>1. storeFaults' \in 0..MaxStoreFaults /\ storeFaults' >= storeFaults /\ storeFaults' > 0
    BY <1>0, Rest, Zeros
<1>2. ASSUME NEW w, Set(m, w), Good(w, inbox[m]), work'[m] = w => Before(m) \/ Drops(m),
             outcome' \in [Msgs -> [ContactPoints -> Outcomes]]
      PROVE  DispatchInv' /\ Moves(m) /\ UNCHANGED inbox /\ storeFaults' >= storeFaults
  <2>1. /\ DispatchInv' /\ work'[m] = w
        /\ \A k \in Msgs : k # m => work'[k] = work[k]
    BY Zenon, <1>0, <1>1, <1>2, Rest, StepOK
  <2> QED
    BY Zenon, <1>0, <1>1, <1>2, <2>1 DEF Moves
<1>3. CASE /\ work[m].pc \in {"approvers", "tree", "contact"}
           /\ Set(m, [NoWork EXCEPT !.pc = "done"])
           /\ UNCHANGED outcome
  <2> DEFINE w == [NoWork EXCEPT !.pc = "done"]
  <2>1. w.pc = "done" /\ w.routes = <<>> /\ Range(<<>>) = {}
    BY DEF NoWork, Range
  <2>2. Good(w, inbox[m])
    BY Zenon, GoodNew
  <2> HIDE DEF w
  <2>3. Set(m, w)
    BY Zenon, <1>3 DEF w
  <2>4. work'[m] = w => Before(m) \/ Drops(m)
    BY Zenon, <1>0, <1>1, <1>3, <2>1 DEF Before, Drops, Leaves, Kept, Sending
  <2> QED
    BY Zenon, <1>2, <1>3, <2>2, <2>3, <2>4, Rest
<1>4. CASE work[m].pc = "teams" /\ NextUser(m, <<>>)
  <2>0. <<>> \in Seq(LabelSets)
    OBVIOUS
  <2>1. PICK w : /\ Set(m, w) /\ Good(w, inbox[m]) /\ w.pc \notin {"find", "write"}
                 /\ UNCHANGED outcome
                    \/ \E cps \in Lists : w = WorkOn(work[m], cps) /\ Route(m, cps)
    BY Zenon, <1>4, <2>0, NextUserGood
  <2>2. outcome' \in [Msgs -> [ContactPoints -> Outcomes]]
    BY Zenon, <2>1, Rest, RouteType DEF Outcomes
  <2>3. work'[m] = w => Before(m)
    BY Zenon, <1>0, <1>4, <2>1 DEF Before, Kept
  <2> QED
    BY Zenon, <1>2, <2>1, <2>2, <2>3
<1>5. CASE /\ work[m].pc \in {"lookup", "find", "write"}
           /\ Set(m, Proceed(work[m]))
           /\ UNCHANGED outcome
  <2>1. Leaves(m) /\ Good(Proceed(work[m]), inbox[m])
    BY Zenon, <1>0, <1>5, ProceedLeaves DEF Sending
  <2> QED
    BY Zenon, <1>0, <1>1, <1>2, <1>5, <2>1, Rest DEF Drops, Kept
<1> QED
    BY Zenon, <1>3, <1>4, <1>5 DEF StoreThrows

\* Nothing has happened yet.
LEMMA DispatchStart ==
    ASSUME DispatchInit
    PROVE  DispatchInv
<1>1. NoWork \in Work
    BY Zenon, Zeros DEF NoWork, Work, NoRow, Lists
<1>2. NoWork.pc = "none" /\ NoWork.routes = <<>>
    BY Zenon DEF NoWork
<1>3. \A m \in Msgs : Good(NoWork, inbox[m])
    BY Zenon, <1>1, <1>2, Zeros DEF Good, Sending
<1>4. \A m \in Msgs : work[m] = NoWork
    BY Zenon DEF DispatchInit
<1>5. work \in [Msgs -> Work]
    BY Zenon, <1>3 DEF DispatchInit, Good
<1>6. NoRow \in Rows
    BY Zenon, Zeros DEF NoRow, Rows
<1>7. now \in 0..MaxTime /\ storeFaults \in 0..MaxStoreFaults
    BY Zeros DEF DispatchInit
<1> QED
    BY Zenon, <1>3, <1>4, <1>5, <1>6, <1>7 DEF DispatchInit, DispatchInv, DispatchTypeOK, Rows

\* Every step is one of the moves of a handler, or leaves all of them alone.
LEMMA DispatchStep ==
    ASSUME DispatchInv, [DispatchNext]_dispatchVars
    PROVE  /\ DispatchInv' /\ UNCHANGED inbox
           /\ storeFaults' >= storeFaults /\ storeFaults' \in Nat /\ storeFaults \in Nat
           /\ (\E m \in Msgs : Moves(m)) \/ UNCHANGED <<work, sent, rounds>>
<1>1. CASE UNCHANGED dispatchVars
  <2>0. Msgs' = Msgs /\ Keys' = Keys /\ \A m \in Msgs : Good(work[m], inbox[m])'
    BY Zenon, <1>1 DEF dispatchVars, DispatchInv, Good, Msgs, Keys
  <2>1. DispatchInv'
    BY Zenon, <1>1, <2>0 DEF dispatchVars, DispatchInv, DispatchTypeOK
  <2> QED
    BY Zenon, <1>1, <2>1, Rest DEF dispatchVars
<1>2. CASE Clock
  <2>1. now' \in 0..MaxTime
    BY <1>2, Rest, Zeros DEF Clock
  <2>2. /\ UNCHANGED <<inbox, sent, work, outcome, rounds, storeFaults>>
    BY Zenon, <1>2 DEF Clock
  <2>3. Msgs' = Msgs /\ Keys' = Keys /\ \A m \in Msgs : Good(work[m], inbox[m])'
    BY Zenon, <2>2 DEF DispatchInv, Good, Msgs, Keys
  <2>4. DispatchInv'
    BY Zenon, <2>1, <2>2, <2>3 DEF DispatchInv, DispatchTypeOK
  <2> QED
    BY Zenon, <2>2, <2>4, Rest
<1>3. ASSUME NEW m \in Msgs, Receive(m) \/ Handler(m) \/ StoreThrows(m)
      PROVE  DispatchInv' /\ Moves(m) /\ UNCHANGED inbox /\ storeFaults' >= storeFaults
    BY Zenon, <1>3, BeforeStep, SendingStep, ThrowStep DEF Handler
<1>4. CASE \E m \in Msgs : Receive(m) \/ Handler(m) \/ StoreThrows(m)
  <2>1. DispatchInv' => storeFaults' \in Nat
    BY DEF DispatchInv, DispatchTypeOK
  <2> QED
    BY Zenon, <1>3, <1>4, <2>1, Rest
<1> QED
    BY Zenon, <1>1, <1>2, <1>4 DEF DispatchNext

\* Every handler has what it needs at each await, whatever the policy tree, the
\* events, the store failures and the other handlers.
THEOREM DispatchTyped ==
    DispatchSpec => []DispatchInv
<1>1. DispatchInit => DispatchInv
    BY Zenon, DispatchStart
<1>2. DispatchInv /\ [DispatchNext]_dispatchVars => DispatchInv'
    BY Zenon, DispatchStep
<1> QED
    BY <1>1, <1>2, PTL DEF DispatchSpec

-----------------------------------------------------------------------------
(* A delivery leaves its mark.                                             *)

\* Which row a handler is about depends only on its list.
LEMMA SameKey ==
    ASSUME NEW m, UNCHANGED inbox, work'[m].routes = work[m].routes
    PROVE  Key(m)' = Key(m)
  BY Zenon DEF Key

\* A row that was written is not the missing row.
LEMMA WrittenRow ==
    ASSUME DispatchInv, NEW m \in Msgs, Records(m)
    PROVE  /\ Key(m) \in Keys /\ sent'[Key(m)].last = work[m].at
           /\ sent'[Key(m)].count = work[m].found.count + 1
           /\ sent'[Key(m)] # NoRow
           /\ work[m].found.count \in Nat
           /\ \A k \in Keys : k # Key(m) => sent'[k] = sent[k]
<1>1. Key(m) \in Keys /\ work[m] \in Work
    BY Zenon, KeyType DEF Records, Sending, DispatchInv, Good
<1>2. /\ sent'[Key(m)] = [last |-> work[m].at, count |-> work[m].found.count + 1]
      /\ \A k \in Keys : k # Key(m) => sent'[k] = sent[k]
    BY Zenon, <1>1, Rest DEF Records
<1>3. work[m].found.count \in Nat
    BY Zenon, <1>1 DEF Work
<1>4. work[m].found.count + 1 # 0
    BY <1>3
<1>5. NoRow.count = 0
    BY Zenon DEF NoRow
<1> QED
    BY <1>1, <1>2, <1>3, <1>4, <1>5

\* A delivery for which no row has been written is still being recorded.
LEMMA RecordStep ==
    ASSUME DispatchInv, DeliveryIsRecorded, [DispatchNext]_dispatchVars
    PROVE  DeliveryIsRecorded'
<1>1. /\ UNCHANGED inbox /\ storeFaults' >= storeFaults /\ storeFaults' \in Nat /\ storeFaults \in Nat
      /\ (\E m \in Msgs : Moves(m)) \/ UNCHANGED <<work, sent, rounds>>
      /\ rounds \subseteq [key : Keys, msg : Msgs, end : 0..MaxTime]
    BY Zenon, DispatchStep, Rest
<1>2. Keys' = Keys
    BY Zenon, <1>1 DEF Keys, Msgs
<1> SUFFICES ASSUME NEW k \in Keys, ~(storeFaults' > 0), sent'[k] = NoRow,
                    NEW r \in rounds', r.key = k
             PROVE  work'[r.msg].pc \in {"find", "write"} /\ Key(r.msg)' = k
    BY Zenon, <1>2 DEF DeliveryIsRecorded
<1>3. ~(storeFaults > 0)
    BY <1>1
<1>4. CASE UNCHANGED <<work, sent, rounds>>
  <2>1. Key(r.msg)' = Key(r.msg)
    BY Zenon, <1>1, <1>4 DEF Key
  <2> QED
    BY Zenon, <1>3, <1>4, <2>1 DEF DeliveryIsRecorded
<1>5. ASSUME NEW m \in Msgs, Moves(m)
      PROVE  work'[r.msg].pc \in {"find", "write"} /\ Key(r.msg)' = k
  <2>1. sent[k] = NoRow
    <3>1. CASE sent' = sent
        BY Zenon, <3>1
    <3>2. CASE Records(m)
        BY Zenon, <3>2, WrittenRow
    <3> QED
        BY Zenon, <1>5, <3>1, <3>2 DEF Moves, Before, Stays, Delivers, Reads, Drops, Kept
  <2>2. ASSUME r \in rounds PROVE work[r.msg].pc \in {"find", "write"} /\ Key(r.msg) = k
    BY Zenon, <1>3, <2>1, <2>2 DEF DeliveryIsRecorded
  <2>3. CASE r \in rounds /\ r.msg # m
    <3>1. work'[r.msg] = work[r.msg]
        BY Zenon, <1>1, <1>5, <2>3 DEF Moves
    <3>2. Key(r.msg)' = Key(r.msg)
        BY Zenon, <1>1, <3>1, SameKey
    <3> QED
        BY Zenon, <2>2, <2>3, <3>1, <3>2
  <2>4. CASE r \in rounds /\ r.msg = m
    <3>1. work[m].pc \in {"find", "write"} /\ Key(m) = k
        BY Zenon, <2>2, <2>4
    <3>2. ~Before(m) /\ ~Stays(m) /\ ~Delivers(m)
        BY Zenon, <3>1 DEF Before, Stays, Delivers
    <3>3. ~Drops(m)
        BY Zenon, <2>1, <3>1 DEF Drops
    <3>4. ~Records(m)
        BY Zenon, <3>1, WrittenRow
    <3>5. Reads(m)
        BY Zenon, <1>5, <3>2, <3>3, <3>4 DEF Moves
    <3> QED
        BY Zenon, <1>1, <2>4, <3>1, <3>5, SameKey DEF Reads
  <2>5. CASE r \notin rounds
    <3>1. Delivers(m)
        BY Zenon, <1>5, <2>5 DEF Moves, Before, Stays, Reads, Drops, Records, Kept
    <3>2. r = [key |-> Key(m), msg |-> m, end |-> work'[m].at]
        BY Zenon, <2>5, <3>1 DEF Delivers
    <3>3. r.msg = m /\ Key(m) = k
        BY Zenon, <3>2
    <3> QED
        BY Zenon, <1>1, <3>1, <3>3, SameKey DEF Delivers
  <2> QED
    BY Zenon, <2>3, <2>4, <2>5
<1> QED
    BY Zenon, <1>1, <1>4, <1>5

\* A delivery leaves its mark, however many handlers run side by side: once none
\* of them is about to write the row of a contact point that accepted a
\* notification, the row is there (upsertSent), unless a store call failed.
THEOREM DeliveriesAreRecorded ==
    DispatchSpec => []DeliveryIsRecorded
<1>1. DispatchInit => DispatchInv /\ DeliveryIsRecorded
    BY Zenon, DispatchStart DEF DispatchInit, DeliveryIsRecorded
<1>2. DispatchInv /\ DeliveryIsRecorded /\ [DispatchNext]_dispatchVars
        => DispatchInv' /\ DeliveryIsRecorded'
    BY Zenon, DispatchStep, RecordStep
<1> QED
    BY <1>1, <1>2, PTL DEF DispatchSpec

-----------------------------------------------------------------------------
(* Silence is earned.                                                      *)

\* The deliveries to k whose handler is done with that contact point: the ones
\* that a row may have counted.
Closed(k) == {r \in rounds : r.key = k /\ k[2] \notin Range(work[r.msg].routes)}

\* The handler of a delivery has the contact point behind it, or is recording it.
AboutRound(r) ==
    /\ work[r.msg].pc \in Sending \cup {"done"}
    /\ r.key[2] \in Range(work[r.msg].routes) =>
          work[r.msg].pc \in {"find", "write"} /\ r.key = Key(r.msg)

\* Only a handler that delivered writes a row, with the end of its delivery.
AboutWriter(m) ==
    work[m].pc \in {"find", "write"} => [key |-> Key(m), msg |-> m, end |-> work[m].at] \in rounds

AboutRow(k) ==
    /\ sent[k].count <= Cardinality(Closed(k))
    /\ sent[k] # NoRow => \E r \in rounds : r.key = k /\ r.end = sent[k].last

\* The count a handler has read is one that the row may have had.
AboutFound(m) ==
    work[m].pc = "write" => work[m].found.count <= Cardinality(Closed(Key(m)))

Ledger ==
    /\ IsFiniteSet(rounds)
    /\ \A r \in rounds : AboutRound(r)
    /\ \A m \in Msgs : AboutWriter(m)
    /\ \A k \in Keys : AboutRow(k)
    /\ \A m \in Msgs : AboutFound(m)

\* The list of a handler that may have delivered gets no new contact points.
LEMMA ListShrinks ==
    ASSUME DispatchInv, NEW m \in Msgs, Moves(m), work[m].pc \in Sending \cup {"done"}
    PROVE  /\ work[m].pc \in Sending /\ work'[m].pc \in Sending \cup {"done"} /\ ~Before(m)
           /\ Range(work'[m].routes) \subseteq Range(work[m].routes)
           /\ Leaves(m) => Head(work[m].routes) \notin Range(work'[m].routes)
<1>1. ~Before(m)
    BY Zenon DEF Before, Sending
<1>2. work[m].pc \in Sending
    BY Zenon, <1>1 DEF Moves, Stays, Delivers, Reads, Drops, Records, Leaves, Sending
<1>3. /\ Range(Tail(work[m].routes)) \subseteq Range(work[m].routes)
      /\ Head(work[m].routes) \notin Range(Tail(work[m].routes))
    BY Zenon, <1>2, TailList DEF DispatchInv, Good
<1>4. work'[m].pc \in Sending \cup {"done"}
    BY Zenon, <1>1 DEF Moves, Stays, Delivers, Reads, Drops, Records, Leaves, Sending
<1>5. CASE work'[m].routes = work[m].routes
    BY Zenon, <1>1, <1>2, <1>3, <1>4, <1>5 DEF Leaves
<1>6. CASE Leaves(m)
    BY Zenon, <1>1, <1>2, <1>3, <1>4, <1>6 DEF Leaves
<1> QED
    BY Zenon, <1>1, <1>5, <1>6 DEF Moves, Stays, Delivers, Reads, Drops, Records

\* Deliveries are never forgotten, and there are finitely many.
LEMMA RoundsGrow ==
    ASSUME IsFiniteSet(rounds), NEW m, Moves(m)
    PROVE  rounds \subseteq rounds' /\ IsFiniteSet(rounds')
<1>1. CASE rounds' = rounds
    BY Zenon, <1>1
<1>2. CASE Delivers(m)
    BY Zenon, <1>2, FS_AddElement DEF Delivers
<1> QED
    BY Zenon, <1>1, <1>2 DEF Moves, Before, Stays, Reads, Drops, Records, Kept

\* A delivery that is behind its handler stays so, and the deliveries behind
\* their handlers become no fewer.
LEMMA ClosedGrows ==
    ASSUME DispatchInv, Ledger, NEW m \in Msgs, Moves(m), NEW k \in Keys
    PROVE  /\ Closed(k) \subseteq Closed(k)'
           /\ IsFiniteSet(Closed(k)) /\ IsFiniteSet(Closed(k)')
           /\ Cardinality(Closed(k)) \in Nat /\ Cardinality(Closed(k)') \in Nat
           /\ Cardinality(Closed(k)) <= Cardinality(Closed(k)')
<1>1. rounds \subseteq rounds' /\ IsFiniteSet(rounds') /\ IsFiniteSet(rounds)
    BY Zenon, RoundsGrow DEF Ledger
<1>2. ASSUME NEW r \in Closed(k) PROVE r \in Closed(k)'
  <2>1. r \in rounds /\ r.key = k /\ k[2] \notin Range(work[r.msg].routes) /\ r \in rounds' /\ r.msg \in Msgs
    BY Zenon, <1>1, Rest DEF Closed
  <2>2. CASE r.msg # m
    <3>1. work'[r.msg] = work[r.msg]
        BY Zenon, <2>1, <2>2 DEF Moves
    <3> QED
        BY Zenon, <2>1, <3>1 DEF Closed
  <2>3. CASE r.msg = m
    <3>1. work[m].pc \in Sending \cup {"done"}
        BY Zenon, <2>1, <2>3 DEF Ledger, AboutRound
    <3>2. Range(work'[m].routes) \subseteq Range(work[m].routes)
        BY Zenon, <3>1, ListShrinks
    <3> QED
        BY Zenon, <2>1, <2>3, <3>2 DEF Closed
  <2> QED
    BY Zenon, <2>2, <2>3
<1>3. Closed(k) \subseteq rounds /\ Closed(k)' \subseteq rounds'
    BY Zenon DEF Closed
<1>4. IsFiniteSet(Closed(k)) /\ IsFiniteSet(Closed(k)')
    BY Zenon, <1>1, <1>3, FS_Subset
<1> QED
    BY Zenon, <1>2, <1>4, FS_Subset, FS_CardinalityType

\* A delivery's handler has it behind, or is recording it.
LEMMA RoundStep ==
    ASSUME DispatchInv, Ledger, NEW m \in Msgs, Moves(m), UNCHANGED inbox, NEW r \in rounds'
    PROVE  AboutRound(r)'
<1>1. CASE r \in rounds /\ r.msg # m
  <2>1. r.msg \in Msgs
    BY Zenon, <1>1, Rest
  <2>2. work'[r.msg] = work[r.msg]
    BY Zenon, <1>1, <2>1 DEF Moves
  <2>3. Key(r.msg)' = Key(r.msg) /\ AboutRound(r)
    BY Zenon, <1>1, <2>2, SameKey DEF Ledger
  <2> QED
    BY Zenon, <2>2, <2>3 DEF AboutRound
<1>2. CASE r \in rounds /\ r.msg = m
  <2>1. AboutRound(r) /\ work[m].pc \in Sending \cup {"done"}
    BY Zenon, <1>2 DEF Ledger, AboutRound
  <2>2. /\ work[m].pc \in Sending /\ work'[m].pc \in Sending \cup {"done"} /\ ~Before(m)
        /\ Range(work'[m].routes) \subseteq Range(work[m].routes)
        /\ Leaves(m) => Head(work[m].routes) \notin Range(work'[m].routes)
    BY Zenon, <2>1, ListShrinks
  <2>3. ASSUME r.key[2] \in Range(work'[m].routes)
        PROVE  work'[m].pc \in {"find", "write"} /\ r.key = Key(m)'
    <3>1. work[m].pc \in {"find", "write"} /\ r.key = Key(m)
        BY Zenon, <1>2, <2>1, <2>2, <2>3 DEF AboutRound
    <3>2. r.key[2] = Head(work[m].routes)
        BY <3>1 DEF Key
    <3>3. ~Leaves(m)
        BY Zenon, <2>2, <2>3, <3>2
    <3>4. Reads(m)
        BY Zenon, <2>2, <3>1, <3>3 DEF Moves, Stays, Delivers, Drops, Records
    <3> QED
        BY Zenon, <3>1, <3>4, SameKey DEF Reads
  <2> QED
    BY Zenon, <1>2, <2>2, <2>3 DEF AboutRound
<1>3. CASE r \notin rounds
  <2>1. Delivers(m)
    BY Zenon, <1>3 DEF Moves, Before, Stays, Reads, Drops, Records, Kept
  <2>2. r = [key |-> Key(m), msg |-> m, end |-> work'[m].at]
    BY Zenon, <1>3, <2>1 DEF Delivers
  <2>3. r.msg = m /\ r.key = Key(m) /\ Key(m)' = Key(m) /\ work'[m].pc = "find"
    BY Zenon, <2>1, <2>2, SameKey DEF Delivers
  <2> QED
    BY Zenon, <2>3 DEF AboutRound, Sending
<1> QED
    BY Zenon, <1>1, <1>2, <1>3

\* A handler that is to write a row has delivered.
LEMMA WriterStep ==
    ASSUME DispatchInv, Ledger, NEW m \in Msgs, Moves(m), UNCHANGED inbox, NEW j \in Msgs
    PROVE  AboutWriter(j)'
<1>1. rounds \subseteq rounds'
    BY Zenon, RoundsGrow DEF Ledger
<1>2. CASE j # m
  <2>1. work'[j] = work[j]
    BY Zenon, <1>2 DEF Moves
  <2>2. Key(j)' = Key(j)
    BY Zenon, <2>1, SameKey
  <2> QED
    BY Zenon, <1>1, <2>1, <2>2 DEF Ledger, AboutWriter
<1>3. CASE j = m
  <2>1. CASE Delivers(m)
    BY Zenon, <1>3, <2>1, SameKey DEF AboutWriter, Delivers
  <2>2. CASE Reads(m)
    <3>1. Key(m)' = Key(m) /\ work'[m].at = work[m].at /\ work[m].pc = "find"
        BY Zenon, <2>2, SameKey DEF Reads
    <3>2. [key |-> Key(m), msg |-> m, end |-> work[m].at] \in rounds
        BY Zenon, <3>1 DEF Ledger, AboutWriter
    <3> QED
        BY Zenon, <1>1, <1>3, <3>1, <3>2 DEF AboutWriter
  <2>3. CASE work'[m].pc \notin {"find", "write"}
    BY Zenon, <1>3, <2>3 DEF AboutWriter
  <2> QED
    BY Zenon, <2>1, <2>2, <2>3 DEF Moves, Before, Stays, Drops, Records, Leaves
<1> QED
    BY Zenon, <1>2, <1>3

\* A row that is written counts one delivery more than what was read, and that
\* delivery is now behind its handler.
LEMMA RowStep ==
    ASSUME DispatchInv, Ledger, NEW m \in Msgs, Moves(m), UNCHANGED inbox, NEW k \in Keys
    PROVE  AboutRow(k)'
<1>0. sent[k].count \in Nat /\ AboutRow(k)
    BY Zenon, Rest DEF Rows, Ledger
<1>1. /\ Closed(k) \subseteq Closed(k)'
      /\ IsFiniteSet(Closed(k)) /\ IsFiniteSet(Closed(k)')
      /\ Cardinality(Closed(k)) \in Nat /\ Cardinality(Closed(k)') \in Nat
      /\ Cardinality(Closed(k)) <= Cardinality(Closed(k)')
    BY Zenon, ClosedGrows
<1>2. rounds \subseteq rounds'
    BY Zenon, RoundsGrow DEF Ledger
<1>3. CASE sent'[k] = sent[k]
  <2>1. sent[k].count <= Cardinality(Closed(k)')
    BY <1>0, <1>1 DEF AboutRow
  <2> QED
    BY Zenon, <1>0, <1>2, <1>3, <2>1 DEF AboutRow
<1>4. CASE Records(m) /\ k = Key(m)
  <2> DEFINE d == [key |-> k, msg |-> m, end |-> work[m].at]
  <2>1. d \in rounds /\ work[m].found.count <= Cardinality(Closed(k))
    BY Zenon, <1>4 DEF Ledger, AboutWriter, AboutFound, Records
  <2>2. /\ work[m].pc \in Sending /\ Leaves(m) /\ k[2] = Head(work[m].routes)
    BY Zenon, <1>4 DEF Records, Leaves, Key
  <2>3. k[2] \in Range(work[m].routes) /\ k[2] \notin Range(work'[m].routes)
    BY <2>2, TailList, ListShrinks DEF DispatchInv, Good
  <2>4. d \notin Closed(k) /\ d \in Closed(k)'
    BY Zenon, <1>2, <2>1, <2>3 DEF Closed
  <2>5. Closed(k) \cup {d} \subseteq Closed(k)'
    BY Zenon, <1>1, <2>4
  <2>6. IsFiniteSet(Closed(k) \cup {d}) /\ Cardinality(Closed(k) \cup {d}) = Cardinality(Closed(k)) + 1
    BY Zenon, <1>1, <2>4, FS_AddElement
  <2>7. Cardinality(Closed(k) \cup {d}) <= Cardinality(Closed(k)')
    BY Zenon, <1>1, <2>5, FS_Subset
  <2>8. /\ sent'[k].last = work[m].at /\ sent'[k].count = work[m].found.count + 1
        /\ work[m].found.count \in Nat
    BY Zenon, <1>4, WrittenRow
  <2>9. work[m].found.count + 1 <= Cardinality(Closed(k)')
    <3> DEFINE count == work[m].found.count
               closed == Cardinality(Closed(k))
               then == Cardinality(Closed(k)')
    <3>1. count \in Nat /\ closed \in Nat /\ then \in Nat /\ count <= closed /\ closed + 1 <= then
        BY Zenon, <1>1, <2>1, <2>6, <2>7, <2>8, FS_CardinalityType
    <3> HIDE DEF count, closed, then
    <3>2. count + 1 <= then
        BY <3>1
    <3> QED
        BY Zenon, <3>2 DEF count, then
  <2>10. d \in rounds' /\ d.key = k /\ d.end = sent'[k].last
    BY Zenon, <1>2, <2>1, <2>8
  <2> QED
    BY Zenon, <2>8, <2>9, <2>10 DEF AboutRow
<1>5. CASE Records(m) /\ k # Key(m)
    BY Zenon, <1>3, <1>5, WrittenRow
<1> QED
    BY Zenon, <1>3, <1>4, <1>5 DEF Moves, Before, Stays, Delivers, Reads, Drops, Kept

\* A count that was read stays one that the row may have.
LEMMA FoundStep ==
    ASSUME DispatchInv, Ledger, NEW m \in Msgs, Moves(m), UNCHANGED inbox, NEW j \in Msgs,
           work'[j].pc = "write"
    PROVE  AboutFound(j)'
<1>1. CASE j # m
  <2>1. work'[j] = work[j] /\ work[j].pc \in Sending /\ work[j] \in Work
    BY Zenon, <1>1 DEF Moves, Sending, DispatchInv, Good
  <2>2. Key(j)' = Key(j) /\ Key(j) \in Keys /\ work[j].found.count \in Nat
    BY Zenon, <2>1, SameKey, KeyType DEF Work
  <2>3. PICK k \in Keys : k = Key(j)
    BY Zenon, <2>2
  <2>4. k = Key(j)' /\ work[j].found.count <= Cardinality(Closed(k))
    BY Zenon, <2>1, <2>2, <2>3 DEF Ledger, AboutFound
  <2>5. /\ Cardinality(Closed(k)) \in Nat /\ Cardinality(Closed(k)') \in Nat
        /\ Cardinality(Closed(k)) <= Cardinality(Closed(k)')
    BY Zenon, ClosedGrows
  <2>6. work[j].found.count <= Cardinality(Closed(k)')
    BY <2>2, <2>4, <2>5
  <2> QED
    BY Zenon, <2>1, <2>4, <2>6 DEF AboutFound, Closed
<1>2. CASE j = m
  <2>1. Reads(m)
    BY Zenon, <1>2 DEF Moves, Before, Stays, Delivers, Drops, Records, Leaves
  <2>2. Key(m)' = Key(m) /\ Key(m) \in Keys /\ work'[m].found = sent[Key(m)]
    BY Zenon, <2>1, SameKey, KeyType DEF Reads, Sending
  <2>3. PICK k \in Keys : k = Key(m)
    BY Zenon, <2>2
  <2>4. sent[k].count \in Nat /\ sent[k].count <= Cardinality(Closed(k))
    BY Zenon, Rest DEF Rows, Ledger, AboutRow
  <2>5. /\ Cardinality(Closed(k)) \in Nat /\ Cardinality(Closed(k)') \in Nat
        /\ Cardinality(Closed(k)) <= Cardinality(Closed(k)')
    BY ClosedGrows
  <2>6. sent[k].count <= Cardinality(Closed(k)')
    BY <2>4, <2>5
  <2>7. work'[m].found.count = sent[k].count /\ Key(m)' = k
    BY Zenon, <2>2, <2>3
  <2> QED
    BY Zenon, <1>2, <2>6, <2>7 DEF AboutFound, Closed
<1> QED
    BY Zenon, <1>1, <1>2

\* The ledger is kept.
LEMMA LedgerStep ==
    ASSUME DispatchInv, Ledger, [DispatchNext]_dispatchVars
    PROVE  Ledger'
<1>1. UNCHANGED inbox /\ ((\E m \in Msgs : Moves(m)) \/ UNCHANGED <<work, sent, rounds>>)
    BY Zenon, DispatchStep
<1>2. Keys' = Keys /\ Msgs' = Msgs
    BY Zenon, <1>1 DEF Keys, Msgs
<1>3. CASE UNCHANGED <<work, sent, rounds>>
  <2>1. \A m : Key(m)' = Key(m)
    BY Zenon, <1>1, <1>3 DEF Key
  <2>2. \A k : Closed(k)' = Closed(k)
    BY Zenon, <1>3 DEF Closed
  <2>3. \A r \in rounds : AboutRound(r)'
    BY Zenon, <1>3, <2>1 DEF Ledger, AboutRound
  <2>4. \A m \in Msgs : AboutWriter(m)'
    BY Zenon, <1>3, <2>1 DEF Ledger, AboutWriter
  <2>5. \A k \in Keys : AboutRow(k)'
    BY Zenon, <1>3, <2>2 DEF Ledger, AboutRow
  <2>6. \A m \in Msgs : AboutFound(m)'
    BY Zenon, <1>1, <1>3 DEF Ledger, AboutFound, Closed, Key
  <2> QED
    BY Zenon, <1>2, <1>3, <2>3, <2>4, <2>5, <2>6 DEF Ledger
<1>4. ASSUME NEW m \in Msgs, Moves(m) PROVE Ledger'
  <2>1. IsFiniteSet(rounds')
    BY Zenon, <1>4, RoundsGrow DEF Ledger
  <2>2. \A r \in rounds' : AboutRound(r)'
    BY Zenon, <1>1, <1>4, RoundStep
  <2>3. \A j \in Msgs : AboutWriter(j)'
    BY Zenon, <1>1, <1>4, WriterStep
  <2>4. \A k \in Keys : AboutRow(k)'
    BY Zenon, <1>1, <1>4, RowStep
  <2>5. \A j \in Msgs : work'[j].pc = "write" => AboutFound(j)'
    BY Zenon, <1>1, <1>4, FoundStep
  <2>6. \A j \in Msgs : AboutFound(j)'
    BY Zenon, <2>5 DEF AboutFound
  <2> QED
    BY Zenon, <1>2, <2>1, <2>2, <2>3, <2>4, <2>6 DEF Ledger
<1> QED
    BY Zenon, <1>1, <1>3, <1>4

\* The ledger is enough.
LEMMA LedgerIsEnough ==
    ASSUME DispatchInv, Ledger
    PROVE  SilenceIsEarned
<1> SUFFICES ASSUME NEW k \in Keys
             PROVE  sent[k].count <= Cardinality({r \in rounds : r.key = k})
    BY Zenon DEF SilenceIsEarned, Ledger, AboutRow
<1>1. sent[k].count \in Nat /\ sent[k].count <= Cardinality(Closed(k))
    BY Zenon, Rest DEF Rows, Ledger, AboutRow
<1>2. IsFiniteSet(rounds)
    BY Zenon DEF Ledger
<1>3. {r \in rounds : r.key = k} \subseteq rounds /\ Closed(k) \subseteq {r \in rounds : r.key = k}
    BY Zenon DEF Closed
<1>4. IsFiniteSet({r \in rounds : r.key = k})
    BY Zenon, <1>2, <1>3, FS_Subset
<1>5. /\ Cardinality(Closed(k)) \in Nat /\ Cardinality({r \in rounds : r.key = k}) \in Nat
      /\ Cardinality(Closed(k)) <= Cardinality({r \in rounds : r.key = k})
    BY Zenon, <1>3, <1>4, FS_Subset, FS_CardinalityType
<1> QED
    BY <1>1, <1>5

\* A contact point is passed over only because of a delivery: every row that
\* makes decideDispatch skip one carries the end of a delivery of that
\* fingerprint to it, and counts no more deliveries than there were, whichever
\* handlers raced for the row (upsertSent's SELECT and UPDATE or INSERT).
THEOREM SilencesAreEarned ==
    DispatchSpec => []SilenceIsEarned
<1>1. DispatchInit => DispatchInv /\ Ledger
  <2> SUFFICES ASSUME DispatchInit PROVE Ledger
    BY Zenon, DispatchStart
  <2>1. rounds = {} /\ IsFiniteSet(rounds)
    BY Zenon, FS_EmptySet DEF DispatchInit
  <2>2. \A m \in Msgs : work[m].pc = "none"
    BY Zenon DEF DispatchInit, NoWork
  <2>3. ASSUME NEW k \in Keys PROVE AboutRow(k)
    <3>1. sent[k] = NoRow /\ NoRow.count = 0
        BY Zenon DEF DispatchInit, NoRow
    <3>2. Closed(k) = {} /\ Cardinality({}) = 0
        BY Zenon, <2>1, FS_EmptySet DEF Closed
    <3> QED
        BY <3>1, <3>2 DEF AboutRow
  <2> QED
    BY Zenon, <2>1, <2>2, <2>3 DEF Ledger, AboutWriter, AboutFound
<1>2. DispatchInv /\ Ledger /\ [DispatchNext]_dispatchVars => DispatchInv' /\ Ledger'
    BY Zenon, DispatchStep, LedgerStep
<1>3. DispatchInv /\ Ledger => SilenceIsEarned
    BY Zenon, LedgerIsEnough
<1> QED
    BY <1>1, <1>2, <1>3, PTL DEF DispatchSpec
=============================================================================
