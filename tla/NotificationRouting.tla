------------------------- MODULE NotificationRouting -------------------------
(***************************************************************************)
(* How an alert's labels pick contact points from the notification policy  *)
(* tree: collectMatchingRoutes, which NotificationConsumer sends by.       *)
(*                                                                         *)
(* A tree maps a node to                                                   *)
(*   [cp, kids, matchers, cont, default]                                   *)
(* and a matcher is [label, op, value]; a regular expression stands for    *)
(* the set of values it accepts.                                           *)
(***************************************************************************)
EXTENDS Integers, Sequences, FiniteSets, Functions

\* An empty contactPointId: the node has no contact point.
NoContactPoint == ""

\* labels[m.label] ?? ''
Label(labels, l) == IF l \in DOMAIN labels THEN labels[l] ELSE ""

\* One matcher of matchersMatch.
MatchesLabel(m, labels) ==
    CASE m.op = "="  -> {Label(labels, m.label)} = m.value
      [] m.op = "!=" -> {Label(labels, m.label)} # m.value
      [] m.op = "=~" -> Label(labels, m.label) \in m.value
      [] m.op = "!~" -> Label(labels, m.label) \notin m.value

NodeMatches(node, labels) == \A m \in node.matchers : MatchesLabel(m, labels)

\* The children that the loop over them visits, by position: those that match,
\* up to and including the first one that does not continue.
Taken(tree, n, labels) ==
    LET kid(i) == tree[tree[n].kids[i]]
    IN  {i \in DOMAIN tree[n].kids :
           /\ NodeMatches(kid(i), labels)
           /\ \A j \in 1..(i - 1) : NodeMatches(kid(j), labels) => kid(j).cont}

\* One list after the other.
Concat(lists) ==
    LET upTo[i \in 0..Len(lists)] == IF i = 0 THEN <<>> ELSE upTo[i - 1] \o lists[i]
    IN  upTo[Len(lists)]

\* The default policy, sent to when it has no matching child.
Fallback(node) == node.default /\ node.cp # NoContactPoint

\* What the visit of node n adds to the routes, given what its children add.
Visit(tree, labels, n, walk) ==
    LET kids == tree[n].kids
        taken == Taken(tree, n, labels)
    IN  IF taken # {}
        THEN Concat([i \in DOMAIN kids |->
                        IF i \in taken THEN <<kids[i]>> \o walk[kids[i]] ELSE <<>>])
        ELSE IF Fallback(tree[n]) THEN <<n>> ELSE <<>>

\* collectMatchingRoutes: every matching child and then its own children.
CollectMatchingRoutes(tree, root, labels) ==
    LET walk[n \in DOMAIN tree] == Visit(tree, labels, n, walk)
    IN  walk[root]

\* A tree as it is stored: finite, its children nodes that lie below.
PolicyTree(tree) ==
    /\ IsFiniteSet(DOMAIN tree)
    /\ \A n \in DOMAIN tree : tree[n].kids \in Seq(DOMAIN tree)
    /\ \E height \in [DOMAIN tree -> 0..Cardinality(DOMAIN tree)] :
          \A n \in DOMAIN tree : \A i \in DOMAIN tree[n].kids :
              height[tree[n].kids[i]] < height[n]
=============================================================================
