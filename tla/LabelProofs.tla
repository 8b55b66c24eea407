----------------------------- MODULE LabelProofs -----------------------------
(***************************************************************************)
(* The label graph for any sets of labels and posts.  A cycle is a         *)
(* non-empty set of labels each of which has a parent in the set.  New     *)
(* parents of l close none unless l is above one of them: the part of such *)
(* a set above that parent would be a cycle already.                       *)
(* The search of break_cycles: an invariant of its turns, and a measure    *)
(* that each turn lowers and that is used up after MaxTurns.               *)
(***************************************************************************)
EXTENDS LabelGraph, FiniteSetTheorems, SequenceTheorems, WellFoundedInduction, TLAPS

LEMMA FewerEdges == ASSUME NEW E, NEW F, F \subseteq E, Acyclic(E) PROVE Acyclic(F)
BY DEF Acyclic

LEMMA AncestorsHold ==
  ASSUME NEW E \in SUBSET Edges, NEW l \in Labels
  PROVE  /\ l \in Ancestors(E, l)
         /\ \A n, m \in Labels : n \in Ancestors(E, l) /\ <<n, m>> \in E => m \in Ancestors(E, l)
BY DEF Ancestors, Edges

LEMMA ParentsCloseNoCycle ==
  ASSUME NEW E \in SUBSET Edges, Acyclic(E), NEW l \in Labels, NEW P \in SUBSET Labels,
         \A p \in P : ~ Closes(E, l, p)
  PROVE  Acyclic(E \cup ParentEdges(l, P))
<1>. DEFINE F == E \cup ParentEdges(l, P)
<1>. SUFFICES ASSUME NEW S \in (SUBSET Labels) \ {{}}, \A n \in S : \E m \in S : <<n, m>> \in F
              PROVE  FALSE
  BY DEF Acyclic
<1>1. \A n, m \in Labels : <<n, m>> \in F <=> <<n, m>> \in E \/ (n = l /\ m \in P)
  BY DEF ParentEdges
<1>2. CASE \A p \in P : p \notin S
  <2>1. \A n \in S : \E m \in S : <<n, m>> \in E
    BY <1>1, <1>2
  <2>. QED BY <2>1 DEF Acyclic
<1>3. ASSUME NEW p \in P, p \in S PROVE FALSE
  <2>. DEFINE A == Ancestors(E, p) \cap S
  <2>1. l \notin A /\ p \in A
    BY <1>3, AncestorsHold DEF Closes
  <2>2. ASSUME NEW n \in A PROVE \E m \in A : <<n, m>> \in E
    <3>1. PICK m \in S : <<n, m>> \in F
      OBVIOUS
    <3>2. <<n, m>> \in E
      BY <1>1, <2>1, <3>1
    <3>. QED BY <3>1, <3>2, AncestorsHold
  <2>. QED BY <2>1, <2>2 DEF Acyclic
<1>. QED BY <1>2, <1>3
-----------------------------------------------------------------------------
(* The cache in step with a file and the posts *)

Caches == [rows : SUBSET Labels, implicit : SUBSET Labels,
           edges : SUBSET Edges, tagged : SUBSET Tags]

\* A cache that may be stored: acyclic, with a row at each end of an edge
Sound(c) ==
  /\ c \in Caches
  /\ \A l, m \in Labels : <<l, m>> \in c.edges => l \in c.rows /\ m \in c.rows
  /\ Acyclic(c.edges)

Follows(c, f, front, broken, lost) ==
  /\ c.rows \ c.implicit \subseteq f.ids
  /\ f.ids \subseteq c.rows
  /\ c.edges \subseteq f.edges
  /\ ~ broken => c.edges = f.edges
  /\ c.tagged = FrontTags(front) \ lost

IInv ==
  /\ toml \in Files /\ labels \in Files
  /\ posts \in [Posts -> SUBSET Labels]
  /\ Sound(cache)
  /\ behind \in Nat
  /\ behind = 0 => labels = toml /\ Follows(cache, toml, posts, cyclic, untagged)

LEMMA RebuildSound ==
  ASSUME NEW f \in Files, NEW front \in [Posts -> SUBSET Labels], Rebuild(f, front)
  PROVE  /\ Sound(cache') /\ labels' = f /\ behind' = 0
         /\ Follows(cache', f, front, cyclic', untagged')
<1>. DEFINE rows == f.ids \cup ParentsIn(f.edges) \cup {t[2] : t \in FrontTags(front)}
<1>1. PICK K \in Kept(f.edges) :
        cache' = [rows |-> rows, implicit |-> rows \ f.ids, edges |-> K, tagged |-> FrontTags(front)]
  BY DEF Rebuild, Rebuilt
<1>2. /\ f.ids \subseteq Labels /\ f.edges \subseteq Edges
      /\ \A l, m \in Labels : <<l, m>> \in f.edges => l \in f.ids
  BY DEF Files
<1>3. K \subseteq f.edges /\ Acyclic(K)
  BY DEF Kept
<1>4. FrontTags(front) \subseteq Tags /\ {t[2] : t \in FrontTags(front)} \subseteq Labels
  BY DEF FrontTags, Tags
<1>5. rows \subseteq Labels
  BY <1>2, <1>4 DEF ParentsIn
<1>6. \A l, m \in Labels : <<l, m>> \in f.edges => l \in rows /\ m \in rows
  BY <1>2 DEF ParentsIn
<1>7. Acyclic(f.edges) => K = f.edges
  <2>. SUFFICES ASSUME Acyclic(f.edges), NEW e \in f.edges \ K PROVE FALSE
    BY <1>3
  <2>1. Acyclic(K \cup {e})
    BY <1>3, FewerEdges
  <2>. QED BY <2>1 DEF Kept
<1>. HIDE DEF rows
<1>8. Sound(cache')
  BY <1>1, <1>2, <1>3, <1>4, <1>5, <1>6 DEF Sound, Caches
<1>9. labels' = f /\ behind' = 0 /\ cyclic' = ~ Acyclic(f.edges) /\ untagged' = {}
  BY DEF Rebuild
<1>10. Follows(cache', f, front, cyclic', untagged')
  <2>1. f.ids \subseteq rows
    BY DEF rows
  <2>. QED BY <1>1, <1>3, <1>7, <1>9, <2>1 DEF Follows
<1>. QED BY <1>8, <1>9, <1>10

LEMMA PersistKeeps ==
  ASSUME IInv, NEW f \in Files, NEW c, NEW lost, Sound(c),
         behind = 0 => Follows(c, f, posts, cyclic, untagged \cup lost),
         Persist(f, c, lost)
  PROVE  IInv'
<1>. USE DEF IInv
<1>1. CASE Committed(f, c, lost)
  BY <1>1 DEF Committed, Persist
<1>2. CASE LeftBehind(f)
  BY <1>2 DEF LeftBehind, Persist
<1>3. CASE Dies(f)
  <2>1. Rebuild(f, posts) /\ toml' = f /\ posts' = posts
    BY <1>3 DEF Dies, Persist
  <2>. QED BY <2>1, RebuildSound
<1>. QED BY <1>1, <1>2, <1>3 DEF Persist
-----------------------------------------------------------------------------
(* The requests *)

LEMMA FilesClosed ==
  ASSUME NEW f \in Files, NEW l \in Labels, NEW P \in SUBSET Labels
  PROVE  WithParents(f, l, P) \in Files /\ WithoutEntry(f, l) \in Files /\ Without(f, l) \in Files
<1>. USE DEF Files
<1>1. /\ WithParents(f, l, P).ids \subseteq Labels /\ WithParents(f, l, P).edges \subseteq Edges
      /\ \A e \in WithParents(f, l, P).edges : e[1] \in WithParents(f, l, P).ids
  BY DEF WithParents, ParentEdges, Above, Edges
<1>2. \A e \in WithoutEntry(f, l).edges : e[1] \in WithoutEntry(f, l).ids
  BY DEF WithoutEntry, Above, Edges
<1>3. \A e \in Without(f, l).edges : e[1] \in Without(f, l).ids
  BY DEF Without, Touching, Edges
<1>4. WithParents(f, l, P) \in Files
  BY <1>1 DEF WithParents
<1>5. WithoutEntry(f, l) \in Files
  BY <1>2 DEF WithoutEntry
<1>6. Without(f, l) \in Files
  BY <1>3 DEF Without
<1>. QED BY <1>4, <1>5, <1>6

LEMMA CreateLabelKeeps ==
  ASSUME IInv, NEW l \in Labels, NEW P \in SUBSET Labels, CreateLabel(l, P) PROVE IInv'
<1>. DEFINE c == [cache EXCEPT !.rows = @ \cup {l}, !.edges = @ \cup ParentEdges(l, P)]
            f == WithParents(labels, l, P)
<1>1. /\ P \subseteq cache.rows /\ l \notin cache.rows /\ Persist(f, c, {})
      /\ \A p \in P : ~ Closes(cache.edges, l, p)
  BY DEF CreateLabel
<1>2. cache \in Caches /\ cache.edges \in SUBSET Edges /\ Acyclic(cache.edges)
  BY DEF IInv, Sound, Caches
<1>3. /\ c \in Caches /\ c.rows = cache.rows \cup {l} /\ c.implicit = cache.implicit
      /\ c.edges = cache.edges \cup ParentEdges(l, P) /\ c.tagged = cache.tagged
  BY <1>2 DEF Caches, ParentEdges, Edges
<1>4. Sound(c)
  <2>1. Acyclic(c.edges)
    BY <1>1, <1>2, <1>3, ParentsCloseNoCycle
  <2>2. \A k, m \in Labels : <<k, m>> \in c.edges => k \in c.rows /\ m \in c.rows
    BY <1>1, <1>3 DEF IInv, Sound, ParentEdges
  <2>. QED BY <1>3, <2>1, <2>2 DEF Sound
<1>5. f \in Files
  BY FilesClosed DEF IInv
<1>6. ASSUME behind = 0 PROVE Follows(c, f, posts, cyclic, untagged)
  <2>1. Follows(cache, labels, posts, cyclic, untagged)
    BY <1>6 DEF IInv
  <2>2. f.ids = labels.ids \cup {l} /\ f.edges = (labels.edges \ Above(labels.edges, l)) \cup ParentEdges(l, P)
    BY DEF WithParents
  <2>3. Above(cache.edges, l) = {}
    BY <1>1, <1>2 DEF IInv, Sound, Above, Edges
  <2>4. cache.edges \subseteq labels.edges \ Above(labels.edges, l)
    BY <2>1, <2>3 DEF Follows, Above
  <2>5. ~ cyclic => cache.edges = labels.edges \ Above(labels.edges, l)
    BY <2>1, <2>3 DEF Follows, Above
  <2>. HIDE DEF c, f
  <2>. QED BY <1>3, <2>1, <2>2, <2>4, <2>5 DEF Follows
<1>. HIDE DEF c, f
<1>7. untagged \cup {} = untagged
  OBVIOUS
<1>. QED BY <1>1, <1>4, <1>5, <1>6, <1>7, PersistKeeps

LEMMA UpdateLabelKeeps ==
  ASSUME IInv, NEW l \in Labels, NEW P \in SUBSET Labels, UpdateLabel(l, P) PROVE IInv'
<1>. DEFINE others == cache.edges \ Above(cache.edges, l)
            c == [cache EXCEPT !.edges = others \cup ParentEdges(l, P)]
            f == WithParents(labels, l, P)
<1>1. /\ P \subseteq cache.rows /\ l \in cache.rows /\ Persist(f, c, {})
      /\ \A p \in P : ~ Closes(others, l, p)
  BY DEF UpdateLabel
<1>2. cache \in Caches /\ others \in SUBSET Edges /\ Acyclic(others)
  BY FewerEdges DEF IInv, Sound, Caches
<1>3. /\ c \in Caches /\ c.rows = cache.rows /\ c.implicit = cache.implicit
      /\ c.edges = others \cup ParentEdges(l, P) /\ c.tagged = cache.tagged
  BY <1>2 DEF Caches, ParentEdges, Edges
<1>4. Sound(c)
  <2>1. Acyclic(c.edges)
    BY <1>1, <1>2, <1>3, ParentsCloseNoCycle
  <2>2. \A k, m \in Labels : <<k, m>> \in c.edges => k \in c.rows /\ m \in c.rows
    BY <1>1, <1>3 DEF IInv, Sound, ParentEdges
  <2>. QED BY <1>3, <2>1, <2>2 DEF Sound
<1>5. f \in Files
  BY FilesClosed DEF IInv
<1>6. ASSUME behind = 0 PROVE Follows(c, f, posts, cyclic, untagged)
  <2>1. Follows(cache, labels, posts, cyclic, untagged)
    BY <1>6 DEF IInv
  <2>2. f.ids = labels.ids \cup {l} /\ f.edges = (labels.edges \ Above(labels.edges, l)) \cup ParentEdges(l, P)
    BY DEF WithParents
  <2>3. others \subseteq labels.edges \ Above(labels.edges, l)
    BY <2>1 DEF Follows, Above
  <2>4. ~ cyclic => others = labels.edges \ Above(labels.edges, l)
    BY <2>1 DEF Follows, Above
  <2>5. l \in cache.rows
    BY <1>1
  <2>. HIDE DEF c, f, others
  <2>. QED BY <1>3, <2>1, <2>2, <2>3, <2>4, <2>5 DEF Follows
<1>. HIDE DEF c, f
<1>7. untagged \cup {} = untagged
  OBVIOUS
<1>. QED BY <1>1, <1>4, <1>5, <1>6, <1>7, PersistKeeps

LEMMA DeleteLabelKeeps == ASSUME IInv, NEW l \in Labels, DeleteLabel(l) PROVE IInv'
<1>. DEFINE c == Removed(cache, l)
            f == Without(labels, l)
            lost == {t \in cache.tagged : t[2] = l}
<1>1. Persist(f, c, lost)
  BY DEF DeleteLabel
<1>2. /\ c \in Caches /\ c.rows = cache.rows \ {l} /\ c.implicit = cache.implicit \ {l}
      /\ c.edges = cache.edges \ Touching(cache.edges, l) /\ c.tagged = cache.tagged \ lost
  BY DEF IInv, Sound, Caches, Removed
<1>3. Sound(c)
  <2>1. Acyclic(c.edges)
    BY <1>2, FewerEdges DEF IInv, Sound
  <2>2. \A k, m \in Labels : <<k, m>> \in c.edges => k \in c.rows /\ m \in c.rows
    BY <1>2 DEF IInv, Sound, Touching
  <2>. QED BY <1>2, <2>1, <2>2 DEF Sound
<1>4. f \in Files
  BY FilesClosed DEF IInv
<1>5. ASSUME behind = 0 PROVE Follows(c, f, posts, cyclic, untagged \cup lost)
  <2>1. Follows(cache, labels, posts, cyclic, untagged)
    BY <1>5 DEF IInv
  <2>2. f.ids = labels.ids \ {l} /\ f.edges = labels.edges \ Touching(labels.edges, l)
    BY DEF Without
  <2>3. cache.edges \ Touching(cache.edges, l) \subseteq labels.edges \ Touching(labels.edges, l)
    BY <2>1 DEF Follows, Touching
  <2>4. ~ cyclic => cache.edges \ Touching(cache.edges, l) = labels.edges \ Touching(labels.edges, l)
    BY <2>1 DEF Follows, Touching
  <2>. HIDE DEF c, f, lost
  <2>. QED BY <1>2, <2>1, <2>2, <2>3, <2>4 DEF Follows
<1>. HIDE DEF c, f, lost
<1>. QED BY <1>1, <1>3, <1>4, <1>5, PersistKeeps
LEMMA SavePostKeeps ==
  ASSUME IInv, NEW p \in Posts, NEW S \in SUBSET Labels, SavePost(p, S) PROVE IInv'
<1>. DEFINE kept == {t \in cache.tagged : t[1] # p}
<1>. USE DEF IInv
<1>1. /\ posts' = [posts EXCEPT ![p] = S] /\ untagged' = {t \in untagged : t[1] # p}
      /\ UNCHANGED <<toml, labels, cyclic, behind>>
  BY DEF SavePost
<1>2. /\ cache' \in Caches
      /\ cache'.rows = cache.rows \cup S /\ cache'.implicit = cache.implicit \cup (S \ cache.rows)
      /\ cache'.edges = cache.edges /\ cache'.tagged = kept \cup ({p} \X S)
  BY DEF SavePost, Retagged, Sound, Caches, Tags
<1>3. Sound(cache)'
  BY <1>2 DEF Sound
<1>4. ASSUME behind = 0 PROVE Follows(cache, toml, posts, cyclic, untagged)'
  <2>1. Follows(cache, toml, posts, cyclic, untagged)
    BY <1>4
  <2>2. ASSUME NEW t \in Tags PROVE t \in cache'.tagged <=> t \in FrontTags(posts') \ untagged'
    <3>1. t = <<t[1], t[2]>> /\ t[1] \in Posts /\ t[2] \in Labels
      BY DEF Tags
    <3>2. t \in {p} \X S <=> t[1] = p /\ t[2] \in S
      BY <3>1
    <3>3. t \in FrontTags(posts') <=> t[2] \in (IF t[1] = p THEN S ELSE posts[t[1]])
      BY <1>1, <3>1 DEF FrontTags
    <3>4. t \in FrontTags(posts) <=> t[2] \in posts[t[1]]
      BY DEF FrontTags
    <3>5. t \in cache.tagged <=> t \in FrontTags(posts) \ untagged
      BY <2>1 DEF Follows
    <3>. QED BY <1>1, <1>2, <3>2, <3>3, <3>4, <3>5
  <2>3. cache'.tagged \subseteq Tags /\ FrontTags(posts') \subseteq Tags
    BY <1>2 DEF Caches, FrontTags
  <2>4. cache'.tagged = FrontTags(posts') \ untagged'
    BY <2>2, <2>3
  <2>. QED BY <1>1, <1>2, <2>1, <2>4 DEF Follows
<1>. QED BY <1>1, <1>3, <1>4

LEMMA SyncLabelsKeeps == ASSUME IInv, NEW f \in HandEdits(toml), SyncLabels(f) PROVE IInv'
<1>1. f \in Files
  BY FilesClosed DEF HandEdits, IInv
<1>2. Rebuild(f, posts) /\ toml' = f /\ posts' = posts
  BY DEF SyncLabels
<1>. QED BY <1>1, <1>2, RebuildSound DEF IInv

LEMMA RestartKeeps == ASSUME IInv, Restart PROVE IInv'
BY RebuildSound DEF IInv, Restart

LEMMA InitInv == Init => IInv
<1>. SUFFICES ASSUME Init PROVE IInv
  OBVIOUS
<1>1. toml \in Files /\ labels \in Files /\ posts \in [Posts -> SUBSET Labels] /\ cache \in Caches
  BY DEF Init, Files, Caches
<1>2. FrontTags(posts) = {}
  BY DEF Init, FrontTags, Tags
<1>3. Sound(cache)
  BY <1>1 DEF Init, Sound, Acyclic
<1>. QED BY <1>1, <1>2, <1>3 DEF Init, IInv, Follows

LEMMA InvKept == IInv /\ [Next]_vars => IInv'
<1>. SUFFICES ASSUME IInv, [Next]_vars PROVE IInv'
  OBVIOUS
<1>1. CASE UNCHANGED vars
  BY <1>1 DEF vars, IInv
<1>2. CASE Next
  BY <1>2, CreateLabelKeeps, UpdateLabelKeeps, DeleteLabelKeeps, SavePostKeeps, SyncLabelsKeeps,
    RestartKeeps DEF Next
<1>. QED BY <1>1, <1>2

LEMMA Always == Spec => []IInv
BY InitInv, InvKept, PTL DEF Spec

-----------------------------------------------------------------------------
\* The cached label graph never has a cycle, for any labels and any
\* labels.toml, whatever requests fail or die (would_create_cycle, break_cycles).
THEOREM LabelGraphIsAcyclic == Spec => []GraphAcyclic
<1>1. IInv => GraphAcyclic
  BY DEF IInv, Sound, GraphAcyclic
<1>. QED BY <1>1, Always, PTL

\* The cached labels, parents and tags are those of labels.toml and the
\* posts until a request fails half-way (_persist_labels_and_commit).
THEOREM LabelCacheFollowsFiles == Spec => []CacheFollowsFiles
<1>1. IInv => CacheFollowsFiles
  BY DEF IInv, Follows, CacheFollowsFiles
<1>. QED BY <1>1, Always, PTL

\* A post is listed under its labels and all labels above them, and the graph
\* readers see is the file's (get_posts_by_label, get_label_graph).
THEOREM PostsAreListedUnderAncestors == Spec => []PostsListedUnderAncestors
<1>1. IInv => PostsListedUnderAncestors
  <2>. SUFFICES ASSUME IInv, behind = 0, ~ cyclic
                PROVE  /\ toml.edges = Graph.edges
                       /\ \A t \in FrontTags(posts) \ untagged :
                            /\ t[1] \in Response(t[2]).posts
                            /\ \A m \in Ancestors(toml.edges, t[2]) : t[1] \in PostsUnder(m)
    BY DEF PostsListedUnderAncestors
  <2>1. toml.edges = cache.edges /\ cache.tagged = FrontTags(posts) \ untagged
    BY DEF IInv, Follows
  <2>2. /\ cache.edges \subseteq Edges /\ cache.tagged \subseteq Tags
        /\ \A l, m \in Labels : <<l, m>> \in cache.edges => l \in cache.rows
    BY DEF IInv, Sound, Caches
  <2>3. toml.edges = Graph.edges
    <3>1. Graph.edges = UNION {{l} \X {m \in Labels : <<l, m>> \in cache.edges} : l \in cache.rows}
      BY DEF Graph, Response
    <3>2. ASSUME NEW e \in cache.edges PROVE e \in Graph.edges
      <4>1. e = <<e[1], e[2]>> /\ e[1] \in cache.rows /\ e[2] \in Labels
        BY <2>2 DEF Edges
      <4>. QED BY <3>1, <4>1
    <3>3. ASSUME NEW e \in Graph.edges PROVE e \in cache.edges
      <4>1. PICK l \in cache.rows : e \in {l} \X {m \in Labels : <<l, m>> \in cache.edges}
        BY <3>1
      <4>2. PICK m \in Labels : e = <<l, m>> /\ <<l, m>> \in cache.edges
        BY <4>1
      <4>. QED BY <4>2
    <3>. QED BY <2>1, <3>2, <3>3
  <2>4. ASSUME NEW t \in FrontTags(posts) \ untagged
        PROVE  /\ t[1] \in Response(t[2]).posts
               /\ \A m \in Ancestors(toml.edges, t[2]) : t[1] \in PostsUnder(m)
    <3>1. t = <<t[1], t[2]>> /\ t \in cache.tagged /\ t[1] \in Posts /\ t[2] \in Labels
      BY <2>1, <2>2 DEF Tags
    <3>2. t[1] \in Response(t[2]).posts
      BY <3>1 DEF Response
    <3>3. \A m \in Ancestors(cache.edges, t[2]) : t[2] \in Descendants(cache.edges, m)
      BY <3>1 DEF Descendants
    <3>. QED BY <2>1, <3>1, <3>2, <3>3 DEF PostsUnder
  <2>. QED BY <2>3, <2>4
<1>. QED BY <1>1, Always, PTL
-----------------------------------------------------------------------------
(* Induction over the turns.  A set of numbers that is not empty has a      *)
(* least element: the numbers are well-founded under <.                     *)

Below == {s \in Nat \X Nat : s[1] < s[2]}

LEMMA BelowWellFounded == IsWellFoundedOn(Below, Nat)
<1>1. OpToRel(<, Nat) = Below
  BY Zenon DEF OpToRel, Below
<1> QED
  BY <1>1, NatLessThanWellFounded

LEMMA LeastNumber ==
  ASSUME NEW T \in SUBSET Nat, T # {}
  PROVE  \E n \in T : \A m \in T : n <= m
<1>1. PICK n \in T : \A m \in T : ~ (<<m, n>> \in Below)
  BY BelowWellFounded, WFMin
<1>2. ASSUME NEW m \in T PROVE n <= m
  <2>1. m \in Nat /\ n \in Nat /\ <<m, n>> \in Nat \X Nat /\ ~ (<<m, n>> \in Below)
    BY <1>1
  <2>2. ~ (m < n)
    BY <2>1 DEF Below
  <2> QED
    BY <2>1, <2>2
<1> QED
  BY <1>2

\* What holds at 0 and goes from each number to the next holds up to n
LEMMA UpTo ==
  ASSUME NEW n \in Nat, NEW G \in SUBSET (0 .. n), 0 \in G,
         \A i \in G : i < n => i + 1 \in G
  PROVE  G = 0 .. n
<1> SUFFICES ASSUME (0 .. n) \ G # {} PROVE FALSE
  OBVIOUS
<1> DEFINE T == (0 .. n) \ G
<1>1. T \in SUBSET Nat /\ T # {}
  OBVIOUS
<1>2. PICK k \in T : \A m \in T : k <= m
  <2> HIDE DEF T
  <2> QED
    BY <1>1, LeastNumber
<1>3. k \in 1 .. n
  BY DEF T
<1>4. k - 1 \in 0 .. n /\ k - 1 < n /\ k - 1 \notin T
  BY <1>2, <1>3
<1>5. (k - 1) + 1 \in G
  BY <1>4
<1> QED
  BY <1>3, <1>5

\* The search is defined: each turn from the one before
Step(S) == UNION {Turns(w) : w \in S}

IsWalk(f, E, n) == f = [i \in 0 .. n |-> IF i = 0 THEN {Start(E)} ELSE Step(f[i - 1])]

LEMMA TurnsBound == MaxTurns \in Nat
<1>1. IsFiniteSet(Labels)
  BY LabelAssumption
<1>2. IsFiniteSet(Edges)
  BY <1>1, FS_Product DEF Edges
<1> QED
  BY <1>1, <1>2, FS_CardinalityType DEF MaxTurns

LEMMA WalkExists ==
  ASSUME NEW E
  PROVE  \E f : IsWalk(f, E, MaxTurns)
<1> DEFINE G == {n \in 0 .. MaxTurns : \E f : IsWalk(f, E, n)}
<1>1. 0 \in G
  <2> DEFINE f == [i \in 0 .. 0 |-> {Start(E)}]
  <2>1. f = [i \in 0 .. 0 |-> IF i = 0 THEN {Start(E)} ELSE Step(f[i - 1])]
    OBVIOUS
  <2>2. IsWalk(f, E, 0)
    BY <2>1 DEF IsWalk
  <2> QED
    BY <2>2, TurnsBound
<1>2. ASSUME NEW n \in G, n < MaxTurns PROVE n + 1 \in G
  <2>1. PICK f : IsWalk(f, E, n)
    OBVIOUS
  <2> DEFINE g == [i \in 0 .. n + 1 |-> IF i <= n THEN f[i] ELSE Step(f[n])]
  <2>2. n \in Nat
    BY TurnsBound
  <2>3. ASSUME NEW i \in 0 .. n + 1
        PROVE  g[i] = IF i = 0 THEN {Start(E)} ELSE Step(g[i - 1])
    <3>1. f = [k \in 0 .. n |-> IF k = 0 THEN {Start(E)} ELSE Step(f[k - 1])]
      BY <2>1 DEF IsWalk
    <3>2. CASE i = 0
      <4>1. 0 \in 0 .. n /\ 0 \in 0 .. n + 1 /\ 0 <= n
        BY <2>2
      <4>2. f[0] = {Start(E)}
        BY <3>1, <4>1
      <4> QED
        BY <3>2, <4>1, <4>2
    <3>3. CASE i # 0 /\ i <= n
      <4>1. i \in 0 .. n /\ i - 1 \in 0 .. n + 1 /\ i - 1 <= n
        BY <2>2, <3>3
      <4>2. f[i] = Step(f[i - 1])
        BY <3>1, <3>3, <4>1
      <4>3. g[i] = f[i] /\ g[i - 1] = f[i - 1]
        BY <3>3, <4>1
      <4> QED
        BY <3>3, <4>2, <4>3
    <3>4. CASE i = n + 1
      <4>1. i # 0 /\ i - 1 = n /\ ~ (i <= n) /\ n \in 0 .. n + 1 /\ n <= n
        BY <2>2, <3>4
      <4>2. g[i] = Step(f[n]) /\ g[n] = f[n]
        BY <4>1
      <4> QED
        BY <4>1, <4>2
    <3> QED
      BY <2>2, <3>2, <3>3, <3>4
  <2>4. g = [i \in 0 .. n + 1 |-> IF i = 0 THEN {Start(E)} ELSE Step(g[i - 1])]
    <3>1. g = [i \in 0 .. n + 1 |-> g[i]]
      OBVIOUS
    <3> HIDE DEF g
    <3> QED
      BY <2>3, <3>1
  <2> HIDE DEF g
  <2>5. IsWalk(g, E, n + 1)
    BY <2>4 DEF IsWalk
  <2>6. n + 1 \in 0 .. MaxTurns
    BY <1>2, <2>2, TurnsBound
  <2> QED
    BY <2>5, <2>6
<1>3. G = 0 .. MaxTurns
  <2>1. G \in SUBSET (0 .. MaxTurns)
    OBVIOUS
  <2> HIDE DEF G
  <2> QED
    BY <1>1, <1>2, <2>1, TurnsBound, UpTo
<1>4. MaxTurns \in G
  BY <1>3, TurnsBound
<1> QED
  BY <1>4

LEMMA WalksDefined ==
  ASSUME NEW E
  PROVE  IsWalk(Walks(E), E, MaxTurns)
<1>1. Walks(E) = CHOOSE f : IsWalk(f, E, MaxTurns)
  BY DEF Walks, IsWalk, Step
<1> QED
  BY <1>1, WalkExists
-----------------------------------------------------------------------------
(* The search keeps to this.  The open nodes are the path; an edge kept     *)
(* leads from a closed node to a closed node, and from an open one to a     *)
(* closed one or further along the path, so that no set of closed nodes is  *)
(* a cycle.  An edge dropped closes a cycle with those kept.                *)

WalkTypes(E) == [path : Seq(Labels), done : SUBSET Labels, left : SUBSET E, kept : SUBSET E]

PathSound(w) ==
  /\ \A i \in 1 .. Len(w.path) : w.path[i] \notin w.done
  /\ \A i, j \in 1 .. Len(w.path) : w.path[i] = w.path[j] => i = j
  /\ \A i \in 1 .. Len(w.path) - 1 : <<w.path[i], w.path[i + 1]>> \in w.kept

EdgesSound(w) ==
  /\ \A e \in w.kept : e[1] \in w.done \cup OnPath(w)
  /\ \A e \in w.kept : e[1] \in w.done => e[2] \in w.done
  /\ \A e \in w.kept : \A i \in 1 .. Len(w.path) :
       e[1] = w.path[i] => e[2] \in w.done \/ \E j \in i + 1 .. Len(w.path) : e[2] = w.path[j]
  /\ \A e \in w.left : e[1] \notin w.done

ClosedAcyclic(w) ==
  \A S \in (SUBSET w.done) \ {{}} : \E n \in S : \A m \in S : <<n, m>> \notin w.kept

DroppedClose(E, w) == \A e \in E \ (w.left \cup w.kept) : ~ Acyclic(w.kept \cup {e})

WalkInv(E, w) ==
  w \in WalkTypes(E) /\ PathSound(w) /\ EdgesSound(w) /\ ClosedAcyclic(w) /\ DroppedClose(E, w)

\* What is left to do, in turns
Work(w) ==
  2 * Cardinality(Labels \ w.done) + Cardinality(w.left) - (IF w.path = <<>> THEN 0 ELSE 1)

Final(w) == w.path = <<>> /\ w.done = Labels

LEMMA StartInv ==
  ASSUME NEW E \in SUBSET Edges
  PROVE  WalkInv(E, Start(E)) /\ Work(Start(E)) <= MaxTurns
<1> DEFINE w == Start(E)
<1>1. /\ w.path = <<>> /\ w.done = {} /\ w.left = E /\ w.kept = {}
      /\ Len(w.path) = 0 /\ w \in WalkTypes(E)
  BY DEF Start, WalkTypes
<1> HIDE DEF w
<1>2. PathSound(w) /\ EdgesSound(w) /\ ClosedAcyclic(w) /\ DroppedClose(E, w)
  BY <1>1 DEF PathSound, EdgesSound, ClosedAcyclic, DroppedClose
<1>3. IsFiniteSet(Labels) /\ IsFiniteSet(Edges)
  BY LabelAssumption, FS_Product DEF Edges
<1>4. Cardinality(E) <= Cardinality(Edges) /\ Cardinality(E) \in Nat
  BY <1>3, FS_Subset, FS_CardinalityType
<1>5. Cardinality(Edges) \in Nat /\ Cardinality(Labels) \in Nat
  BY <1>3, FS_CardinalityType
<1>6. Labels \ w.done = Labels
  BY <1>1
<1>7. Work(w) = 2 * Cardinality(Labels) + Cardinality(E) - 0
  BY <1>1, <1>6 DEF Work
<1>8. MaxTurns = 2 * Cardinality(Labels) + Cardinality(Edges)
  BY DEF MaxTurns
<1>9. Work(w) <= MaxTurns
  BY <1>4, <1>5, <1>7, <1>8
<1> QED
  BY <1>1, <1>2, <1>9 DEF WalkInv, w

LEMMA WorkType ==
  ASSUME NEW E \in SUBSET Edges, NEW w \in WalkTypes(E)
  PROVE  /\ Cardinality(Labels \ w.done) \in Nat /\ Cardinality(w.left) \in Nat
         /\ IsFiniteSet(Labels \ w.done) /\ IsFiniteSet(w.left)
         /\ Work(w) \in Int
<1>1. IsFiniteSet(Labels) /\ IsFiniteSet(Edges)
  BY LabelAssumption, FS_Product DEF Edges
<1>2. w.left \in SUBSET Edges /\ Labels \ w.done \in SUBSET Labels
  BY DEF WalkTypes
<1>3. IsFiniteSet(w.left) /\ IsFiniteSet(Labels \ w.done)
  BY <1>1, <1>2, FS_Subset
<1>4. Cardinality(Labels \ w.done) \in Nat /\ Cardinality(w.left) \in Nat
  BY <1>3, FS_CardinalityType
<1> QED
  BY <1>3, <1>4 DEF Work

\* A new root
LEMMA RootTurn ==
  ASSUME NEW E \in SUBSET Edges, NEW w, WalkInv(E, w), w.path = <<>>,
         NEW n \in Labels \ w.done
  PROVE  LET z == [w EXCEPT !.path = <<n>>]
         IN  WalkInv(E, z) /\ Work(z) = Work(w) - 1
<1> DEFINE z == [w EXCEPT !.path = <<n>>]
<1>1. w \in WalkTypes(E) /\ Len(w.path) = 0
  BY DEF WalkInv
<1>2. /\ z.path = <<n>> /\ z.done = w.done /\ z.left = w.left /\ z.kept = w.kept
      /\ z \in WalkTypes(E)
  <2>1. <<n>> \in Seq(Labels)
    BY SMT
  <2> QED
    BY <1>1, <2>1 DEF WalkTypes
<1> HIDE DEF z
<1>3. Len(z.path) = 1 /\ z.path[1] = n /\ z.path # <<>>
  BY <1>2
<1>4. OnPath(w) = {} /\ OnPath(z) = {n}
  BY <1>1, <1>3 DEF OnPath
<1>5. PathSound(z)
  BY <1>2, <1>3 DEF PathSound
<1>6. EdgesSound(z)
  <2>1. \A e \in w.kept : e[1] \in w.done /\ e[2] \in w.done
    BY <1>4 DEF WalkInv, EdgesSound
  <2>2. \A e \in w.left : e[1] \notin w.done
    BY DEF WalkInv, EdgesSound
  <2> QED
    BY <1>2, <1>3, <2>1, <2>2 DEF EdgesSound
<1>7. ClosedAcyclic(z) /\ DroppedClose(E, z)
  BY <1>2 DEF WalkInv, ClosedAcyclic, DroppedClose
<1>8. Work(z) = Work(w) - 1
  <2>1. Cardinality(Labels \ w.done) \in Nat /\ Cardinality(w.left) \in Nat
    BY <1>1, WorkType
  <2>2. /\ Work(w) = 2 * Cardinality(Labels \ w.done) + Cardinality(w.left) - 0
        /\ Work(z) = 2 * Cardinality(Labels \ w.done) + Cardinality(w.left) - 1
    BY <1>2, <1>3 DEF Work
  <2> QED
    BY <2>1, <2>2
<1> QED
  BY <1>2, <1>5, <1>6, <1>7, <1>8 DEF WalkInv, z

\* The node on top has no edge left: it is closed
LEMMA PopTurn ==
  ASSUME NEW E \in SUBSET Edges, NEW w, WalkInv(E, w), w.path # <<>>,
         Above(w.left, w.path[Len(w.path)]) = {}
  PROVE  LET top == w.path[Len(w.path)]
             z == [w EXCEPT !.path = SubSeq(w.path, 1, Len(w.path) - 1),
                            !.done = w.done \cup {top}]
         IN  WalkInv(E, z) /\ Work(z) <= Work(w) - 1
<1> DEFINE top == w.path[Len(w.path)]
           n == Len(w.path)
           rest == SubSeq(w.path, 1, n - 1)
           z == [w EXCEPT !.path = rest, !.done = w.done \cup {top}]
<1>1. w \in WalkTypes(E) /\ w.path \in Seq(Labels) /\ w.path # <<>>
  BY DEF WalkInv, WalkTypes
<1>2. n \in Nat \ {0} /\ n \in 1 .. n /\ top \in Labels /\ n - 1 \in Nat
  <2>1. n \in Nat /\ n # 0
    BY <1>1, EmptySeq
  <2> QED
    BY <1>1, <2>1
<1>3. /\ rest \in Seq(Labels) /\ Len(rest) = n - 1
      /\ \A i \in 1 .. n - 1 : rest[i] = w.path[i]
  <2>1. \A i \in 1 .. n - 1 : w.path[i] \in Labels
    BY <1>1, <1>2
  <2>2. SubSeq(w.path, 1, n - 1) = [i \in 1 .. n - 1 |-> w.path[i]]
    BY <1>1, <1>2, <2>1
  <2> QED
    BY <1>1, <1>2
<1>4. /\ z.path = rest /\ z.done = w.done \cup {top} /\ z.left = w.left
      /\ z.kept = w.kept /\ z \in WalkTypes(E)
  BY <1>1, <1>2, <1>3 DEF WalkTypes
<1>5. PathSound(w) /\ EdgesSound(w) /\ ClosedAcyclic(w) /\ DroppedClose(E, w)
  BY DEF WalkInv
<1> HIDE DEF z, rest
<1>6. \A i \in 1 .. n - 1 : i \in 1 .. n /\ rest[i] # top /\ rest[i] \notin w.done
  BY <1>2, <1>3, <1>5 DEF PathSound
<1>7. PathSound(z)
  <2> HIDE DEF n, top
  <2>1. \A i \in 1 .. n - 1 : rest[i] \notin z.done
    BY <1>4, <1>6
  <2>2. \A i, j \in 1 .. n - 1 : rest[i] = rest[j] => i = j
    BY <1>3, <1>5, <1>6 DEF PathSound, n
  <2>3. ASSUME NEW i \in 1 .. (n - 1) - 1 PROVE <<rest[i], rest[i + 1]>> \in w.kept
    <3>1. i \in 1 .. n - 1 /\ i + 1 \in 1 .. n - 1
      BY <1>2
    <3>2. <<w.path[i], w.path[i + 1]>> \in w.kept
      BY <1>5, <3>1 DEF PathSound, n
    <3> QED
      BY <1>3, <3>1, <3>2
  <2>4. Len(z.path) = n - 1 /\ z.path = rest /\ z.kept = w.kept
    BY <1>3, <1>4
  <2> QED
    BY <2>1, <2>2, <2>3, <2>4 DEF PathSound
<1>8. \A e \in w.kept : e[1] = top => e[2] \in w.done
  <2> SUFFICES ASSUME NEW e \in w.kept, e[1] = w.path[n] PROVE e[2] \in w.done
    OBVIOUS
  <2>1. e[2] \in w.done \/ \E j \in n + 1 .. n : e[2] = w.path[j]
    BY <1>2, <1>5 DEF EdgesSound
  <2> QED
    BY <1>2, <2>1
<1>9. OnPath(w) \subseteq OnPath(z) \cup {top}
  BY <1>2, <1>3, <1>4 DEF OnPath
<1>10. EdgesSound(z)
  <2>1. \A e \in z.kept : e[1] \in z.done \cup OnPath(z)
    BY <1>4, <1>5, <1>9 DEF EdgesSound
  <2>2. \A e \in z.kept : e[1] \in z.done => e[2] \in z.done
    BY <1>4, <1>5, <1>8 DEF EdgesSound
  <2>3. ASSUME NEW e \in z.kept, NEW i \in 1 .. Len(z.path), e[1] = z.path[i]
        PROVE  e[2] \in z.done \/ \E j \in i + 1 .. Len(z.path) : e[2] = z.path[j]
    <3>1. i \in 1 .. n - 1 /\ i \in 1 .. n /\ e[1] = w.path[i]
      BY <1>2, <1>3, <1>4, <2>3
    <3>2. e[2] \in w.done \/ \E j \in i + 1 .. n : e[2] = w.path[j]
      BY <1>4, <1>5, <3>1 DEF EdgesSound
    <3>3. ASSUME NEW j \in i + 1 .. n, e[2] = w.path[j], j # n
          PROVE  j \in i + 1 .. n - 1 /\ e[2] = rest[j]
      BY <1>2, <1>3, <3>1, <3>3
    <3> QED
      BY <1>3, <1>4, <3>2, <3>3
  <2>4. \A e \in z.left : e[1] \notin z.done
    BY <1>4, <1>5 DEF EdgesSound, Above
  <2> QED
    BY <2>1, <2>2, <2>3, <2>4 DEF EdgesSound
<1>11. ClosedAcyclic(z)
  <2> SUFFICES ASSUME NEW S \in (SUBSET (w.done \cup {top})) \ {{}}
               PROVE  \E k \in S : \A m \in S : <<k, m>> \notin w.kept
    BY <1>4 DEF ClosedAcyclic
  <2>1. top \notin w.done
    BY <1>2, <1>5 DEF PathSound
  <2>2. CASE S \cap w.done # {}
    <3>1. PICK k \in S \cap w.done : \A m \in S \cap w.done : <<k, m>> \notin w.kept
      BY <1>5, <2>2 DEF ClosedAcyclic
    <3>2. \A m \in S : <<k, m>> \in w.kept => m \in w.done
      BY <1>5 DEF EdgesSound
    <3> QED
      BY <3>1, <3>2
  <2>3. CASE S \cap w.done = {}
    <3>1. S = {top}
      BY <2>3
    <3>2. <<top, top>> \notin w.kept
      BY <1>8, <2>1
    <3> QED
      BY <3>1, <3>2
  <2> QED
    BY <2>2, <2>3
<1>12. DroppedClose(E, z)
  BY <1>4, <1>5 DEF DroppedClose
<1>13. Work(z) <= Work(w) - 1
  <2>1. Cardinality(Labels \ w.done) \in Nat /\ Cardinality(w.left) \in Nat
        /\ IsFiniteSet(Labels \ w.done)
    BY <1>1, WorkType
  <2>2. top \in Labels \ w.done
    BY <1>2, <1>5 DEF PathSound
  <2>3. Labels \ z.done = (Labels \ w.done) \ {top}
    BY <1>4
  <2>4. Cardinality(Labels \ z.done) = Cardinality(Labels \ w.done) - 1
    <3> DEFINE D == Labels \ w.done
    <3>1. IsFiniteSet(D) /\ top \in D
      BY <2>1, <2>2
    <3> HIDE DEF D, top
    <3>2. Cardinality(D \ {top}) = Cardinality(D) - 1
      BY <3>1, FS_RemoveElement
    <3> QED
      BY <2>3, <3>2 DEF D
  <2> DEFINE x == IF z.path = <<>> THEN 0 ELSE 1
  <2>5. x \in {0, 1}
    OBVIOUS
  <2>6. Work(z) = 2 * Cardinality(Labels \ z.done) + Cardinality(w.left) - x
    BY <1>4 DEF Work
  <2>7. Work(w) = 2 * Cardinality(Labels \ w.done) + Cardinality(w.left) - 1
    BY <1>1 DEF Work
  <2> HIDE DEF x
  <2> QED
    BY <2>1, <2>4, <2>5, <2>6, <2>7
<1> QED
  BY <1>4, <1>7, <1>10, <1>11, <1>12, <1>13 DEF WalkInv, z, rest

\* A node and the edges of E that leave it
LEMMA EdgeShape ==
  ASSUME NEW E \in SUBSET Edges, NEW e \in E
  PROVE  e[1] \in Labels /\ e[2] \in Labels /\ e = <<e[1], e[2]>>
BY DEF Edges

\* The nodes of the path from the i-th on and an edge back to it are a cycle
LEMMA BackEdgeCloses ==
  ASSUME NEW E \in SUBSET Edges, NEW w, WalkInv(E, w),
         NEW i \in 1 .. Len(w.path)
  PROVE  ~ Acyclic(w.kept \cup {<<w.path[Len(w.path)], w.path[i]>>})
<1> DEFINE n == Len(w.path)
           K == w.kept \cup {<<w.path[n], w.path[i]>>}
           S == {w.path[j] : j \in i .. n}
<1>1. w.path \in Seq(Labels) /\ n \in Nat
  BY DEF WalkInv, WalkTypes
<1>2. \A j \in i .. n : j \in 1 .. n /\ w.path[j] \in Labels
  BY <1>1
<1>3. S \in (SUBSET Labels) \ {{}}
  <2>1. i \in i .. n
    BY <1>1
  <2> QED
    BY <1>2, <2>1
<1>4. ASSUME NEW j \in i .. n PROVE \E m \in S : <<w.path[j], m>> \in K
  <2>1. CASE j = n
    <3>1. w.path[i] \in S
      BY <1>1
    <3> QED
      BY <2>1, <3>1
  <2>2. CASE j # n
    <3>1. j \in 1 .. n - 1 /\ j + 1 \in i .. n
      BY <1>1, <2>2
    <3>2. <<w.path[j], w.path[j + 1]>> \in w.kept
      BY <3>1 DEF WalkInv, PathSound
    <3> QED
      BY <3>1, <3>2
  <2> QED
    BY <2>1, <2>2
<1> QED
  BY <1>3, <1>4 DEF Acyclic

\* More edges do not make a cycle go away
LEMMA CycleStays == ASSUME NEW K, NEW L, K \subseteq L, ~ Acyclic(K) PROVE ~ Acyclic(L)
BY DEF Acyclic

\* One edge of the node on top
LEMMA LookTurn ==
  ASSUME NEW E \in SUBSET Edges, NEW w, WalkInv(E, w), w.path # <<>>,
         NEW e \in Above(w.left, w.path[Len(w.path)])
  PROVE  WalkInv(E, LookAt(w, e)) /\ Work(LookAt(w, e)) = Work(w) - 1
<1> DEFINE n == Len(w.path)
           top == w.path[n]
           z == LookAt(w, e)
<1>1. w \in WalkTypes(E) /\ w.path \in Seq(Labels) /\ w.kept \subseteq E /\ w.done \subseteq Labels
  BY DEF WalkInv, WalkTypes
<1>2. n \in Nat \ {0} /\ n \in 1 .. n /\ top \in Labels
  <2>1. n \in Nat /\ n # 0
    BY <1>1, EmptySeq
  <2> QED
    BY <1>1, <2>1
<1>3. e \in w.left /\ e[1] = top /\ e \in E /\ e[2] \in Labels /\ e = <<top, e[2]>>
  BY <1>1, EdgeShape DEF Above, WalkTypes
<1>4. PathSound(w) /\ EdgesSound(w) /\ ClosedAcyclic(w) /\ DroppedClose(E, w)
  BY DEF WalkInv
<1>5. /\ z.left = w.left \ {e} /\ z.done = w.done
      /\ \/ e[2] \in OnPath(w) /\ z.kept = w.kept /\ z.path = w.path
         \/ /\ e[2] \notin OnPath(w) /\ z.kept = w.kept \cup {e}
            /\ z.path = IF e[2] \in w.done THEN w.path ELSE Append(w.path, e[2])
      /\ z \in WalkTypes(E)
  <2>1. Append(w.path, e[2]) \in Seq(Labels)
    BY <1>1, <1>3
  <2>2. CASE e[2] \in OnPath(w)
    <3>1. z = [w EXCEPT !.left = w.left \ {e}]
      BY <2>2 DEF LookAt
    <3> HIDE DEF z
    <3> QED
      BY <1>1, <2>2, <3>1 DEF WalkTypes
  <2>3. CASE e[2] \notin OnPath(w)
    <3> DEFINE p == IF e[2] \in w.done THEN w.path ELSE Append(w.path, e[2])
    <3>1. z = [w EXCEPT !.left = w.left \ {e}, !.kept = w.kept \cup {e}, !.path = p]
      BY <2>3 DEF LookAt
    <3>2. p \in Seq(Labels)
      BY <1>1, <2>1
    <3> HIDE DEF z, p
    <3>3. z.left = w.left \ {e} /\ z.done = w.done /\ z.kept = w.kept \cup {e} /\ z.path = p
          /\ z \in WalkTypes(E)
      BY <1>1, <1>3, <3>1, <3>2 DEF WalkTypes
    <3> QED
      BY <2>3, <3>3 DEF p
  <2> QED
    BY <2>2, <2>3
<1> HIDE DEF z
<1>6. z.path # <<>>
  <2>1. Append(w.path, e[2]) # <<>>
    BY <1>1, <1>3
  <2> QED
    BY <1>5, <2>1
<1>7. Work(z) = Work(w) - 1
  <2>1. Cardinality(Labels \ w.done) \in Nat /\ Cardinality(w.left) \in Nat
        /\ IsFiniteSet(w.left)
    BY <1>1, WorkType
  <2>2. Cardinality(w.left \ {e}) = Cardinality(w.left) - 1
    BY <1>3, <2>1, FS_RemoveElement
  <2>3. /\ Work(z) = 2 * Cardinality(Labels \ w.done) + Cardinality(w.left \ {e}) - 1
        /\ Work(w) = 2 * Cardinality(Labels \ w.done) + Cardinality(w.left) - 1
    BY <1>5, <1>6 DEF Work
  <2> QED
    BY <2>1, <2>2, <2>3
<1>8. top \notin w.done /\ \A i \in 1 .. n : w.path[i] = top => i = n
  BY <1>2, <1>4 DEF PathSound
<1>9. ClosedAcyclic(z)
  <2> SUFFICES ASSUME NEW S \in (SUBSET w.done) \ {{}}
               PROVE  \E k \in S : \A m \in S : <<k, m>> \notin z.kept
    BY <1>5 DEF ClosedAcyclic
  <2>1. PICK k \in S : \A m \in S : <<k, m>> \notin w.kept
    BY <1>4 DEF ClosedAcyclic
  <2>2. k # top
    BY <1>8
  <2>3. \A m \in S : <<k, m>> # e
    BY <1>3, <2>2
  <2> QED
    BY <1>5, <2>1, <2>3
<1>10. DroppedClose(E, z)
  <2> SUFFICES ASSUME NEW d \in E \ (z.left \cup z.kept) PROVE ~ Acyclic(z.kept \cup {d})
    BY DEF DroppedClose
  <2>1. CASE d \notin w.left \cup w.kept
    <3>1. ~ Acyclic(w.kept \cup {d})
      BY <1>4, <2>1 DEF DroppedClose
    <3>2. w.kept \cup {d} \subseteq z.kept \cup {d}
      BY <1>5
    <3> QED
      BY <3>1, <3>2, CycleStays
  <2>2. CASE d \in w.left \cup w.kept
    <3>1. d = e /\ e[2] \in OnPath(w) /\ z.kept = w.kept
      BY <1>5, <2>2
    <3>2. PICK i \in 1 .. n : e[2] = w.path[i]
      BY <3>1 DEF OnPath
    <3>3. ~ Acyclic(w.kept \cup {<<top, w.path[i]>>})
      BY BackEdgeCloses
    <3>4. d = <<top, w.path[i]>>
      BY <1>3, <3>1, <3>2
    <3> QED
      BY <3>1, <3>3, <3>4
  <2> QED
    BY <2>1, <2>2
<1>11. CASE z.path = w.path
  <2>1. /\ z.kept = w.kept \/ (z.kept = w.kept \cup {e} /\ e[2] \in w.done)
        /\ OnPath(z) = OnPath(w)
    <3>1. Append(w.path, e[2]) # w.path
      <4>1. Len(Append(w.path, e[2])) = n + 1
        BY <1>1, <1>3
      <4> QED
        BY <1>2, <4>1
    <3> QED
      BY <1>5, <1>11, <3>1 DEF OnPath
  <2>2. PathSound(z)
    BY <1>4, <1>5, <1>11, <2>1 DEF PathSound
  <2>3. EdgesSound(z)
    <3>1. \A d \in z.kept : d[1] \in z.done \cup OnPath(z)
      <4>1. top \in OnPath(w)
        BY <1>2 DEF OnPath
      <4> QED
        BY <1>3, <1>4, <1>5, <2>1, <4>1 DEF EdgesSound
    <3>2. \A d \in z.kept : d[1] \in z.done => d[2] \in z.done
      BY <1>3, <1>4, <1>5, <1>8, <2>1 DEF EdgesSound
    <3>3. ASSUME NEW d \in z.kept, NEW i \in 1 .. n, d[1] = w.path[i]
          PROVE  d[2] \in w.done \/ \E j \in i + 1 .. n : d[2] = w.path[j]
      <4>1. CASE d \in w.kept
        BY <1>4, <3>3, <4>1 DEF EdgesSound
      <4>2. CASE d \notin w.kept
        BY <2>1, <4>2
      <4> QED
        BY <4>1, <4>2
    <3>4. \A d \in z.left : d[1] \notin z.done
      BY <1>4, <1>5 DEF EdgesSound
    <3> QED
      BY <1>5, <1>11, <3>1, <3>2, <3>3, <3>4 DEF EdgesSound
  <2> QED
    BY <1>5, <1>7, <1>9, <1>10, <2>2, <2>3 DEF WalkInv, z
<1>12. CASE z.path # w.path
  <2>1. /\ e[2] \notin OnPath(w) /\ e[2] \notin w.done /\ z.kept = w.kept \cup {e}
        /\ z.path = Append(w.path, e[2])
    BY <1>5, <1>12
  <2>2. /\ Len(z.path) = n + 1 /\ z.path[n + 1] = e[2]
        /\ \A i \in 1 .. n : z.path[i] = w.path[i]
    BY <1>1, <1>3, <2>1
  <2>3. \A i \in 1 .. n + 1 : i \in 1 .. n \/ i = n + 1
    BY <1>2
  <2>4. \A i \in 1 .. n : w.path[i] # e[2] /\ i # n + 1
    BY <1>2, <2>1 DEF OnPath
  <2>5. PathSound(z)
    <3>1. \A i \in 1 .. n + 1 : z.path[i] \notin w.done
      BY <1>4, <2>1, <2>2, <2>3 DEF PathSound
    <3>2. \A i, j \in 1 .. n + 1 : z.path[i] = z.path[j] => i = j
      BY <1>4, <2>2, <2>3, <2>4 DEF PathSound
    <3>3. ASSUME NEW i \in 1 .. (n + 1) - 1 PROVE <<z.path[i], z.path[i + 1]>> \in z.kept
      <4>1. CASE i = n
        <5>1. z.path[i] = top /\ z.path[i + 1] = e[2]
          BY <1>2, <2>2, <4>1
        <5> QED
          BY <1>3, <2>1, <5>1
      <4>2. CASE i # n
        <5>1. i \in 1 .. n - 1 /\ i \in 1 .. n /\ i + 1 \in 1 .. n
          BY <1>2, <4>2
        <5>2. <<w.path[i], w.path[i + 1]>> \in w.kept
          BY <1>4, <5>1 DEF PathSound
        <5> QED
          BY <2>1, <2>2, <5>1, <5>2
      <4> QED
        BY <4>1, <4>2
    <3> QED
      BY <1>5, <2>2, <3>1, <3>2, <3>3 DEF PathSound
  <2>6. EdgesSound(z)
    <3>1. OnPath(w) \subseteq OnPath(z) /\ top \in OnPath(z)
      <4>1. \A i \in 1 .. n : i \in 1 .. n + 1
        BY <1>2
      <4> QED
        BY <1>2, <2>2, <4>1 DEF OnPath
    <3>2. \A d \in z.kept : d[1] \in z.done \cup OnPath(z)
      BY <1>3, <1>4, <1>5, <2>1, <3>1 DEF EdgesSound
    <3>3. \A d \in z.kept : d[1] \in z.done => d[2] \in z.done
      BY <1>3, <1>4, <1>5, <1>8, <2>1 DEF EdgesSound
    <3>4. ASSUME NEW d \in z.kept, NEW i \in 1 .. n + 1, d[1] = z.path[i]
          PROVE  d[2] \in w.done \/ \E j \in i + 1 .. n + 1 : d[2] = z.path[j]
      <4>1. CASE d = e
        <5>1. e[1] = top /\ top # e[2]
          BY <1>2, <1>3, <2>4
        <5>2. i = n
          BY <1>8, <2>2, <2>3, <3>4, <4>1, <5>1
        <5>3. n + 1 \in i + 1 .. n + 1
          BY <1>2, <5>2
        <5> QED
          BY <2>2, <4>1, <5>3
      <4>2. CASE d \in w.kept
        <5>1. CASE i \in 1 .. n
          <6>1. d[1] = w.path[i]
            BY <2>2, <3>4, <5>1
          <6>2. d[2] \in w.done \/ \E j \in i + 1 .. n : d[2] = w.path[j]
            BY <1>4, <4>2, <5>1, <6>1 DEF EdgesSound
          <6>3. ASSUME NEW j \in i + 1 .. n PROVE j \in i + 1 .. n + 1 /\ z.path[j] = w.path[j]
            BY <1>2, <2>2, <5>1
          <6> QED
            BY <6>2, <6>3
        <5>2. CASE i = n + 1
          <6>1. d[1] = e[2]
            BY <2>2, <3>4, <5>2
          <6>2. d[1] \in w.done \cup OnPath(w)
            BY <1>4, <4>2 DEF EdgesSound
          <6> QED
            BY <2>1, <6>1, <6>2
        <5> QED
          BY <2>3, <5>1, <5>2
      <4> QED
        BY <2>1, <4>1, <4>2
    <3>5. \A d \in z.left : d[1] \notin z.done
      BY <1>4, <1>5 DEF EdgesSound
    <3> QED
      BY <1>5, <2>2, <3>2, <3>3, <3>4, <3>5 DEF EdgesSound
  <2> QED
    BY <1>5, <1>7, <1>9, <1>10, <2>5, <2>6 DEF WalkInv, z
<1> QED
  BY <1>11, <1>12

LEMMA NotDone ==
  ASSUME NEW E \in SUBSET Edges, NEW w \in WalkTypes(E), w.done # Labels
  PROVE  Labels \ w.done # {} /\ Cardinality(Labels \ w.done) >= 1
<1>1. Labels \ w.done # {}
  BY DEF WalkTypes
<1>2. IsFiniteSet(Labels \ w.done) /\ Cardinality(Labels \ w.done) \in Nat
  BY WorkType
<1> DEFINE D == Labels \ w.done
<1>3. D # {} /\ IsFiniteSet(D) /\ Cardinality(D) \in Nat
  BY <1>1, <1>2
<1> HIDE DEF D
<1>4. Cardinality(D) # 0
  BY <1>3, FS_EmptySet
<1>5. Cardinality(D) >= 1
  BY <1>3, <1>4
<1> QED
  BY <1>1, <1>5 DEF D

\* There is a turn to take; each one keeps the invariant and leaves less to do
LEMMA TurnKeeps ==
  ASSUME NEW E \in SUBSET Edges, NEW w, WalkInv(E, w)
  PROVE  /\ Turns(w) # {}
         /\ \A z \in Turns(w) :
              WalkInv(E, z) /\ ((Final(w) /\ z = w) \/ Work(z) <= Work(w) - 1)
<1>1. w \in WalkTypes(E)
  BY DEF WalkInv
<1>2. CASE w.path = <<>> /\ w.done = Labels
  <2>1. Turns(w) = {w}
    BY <1>2 DEF Turns
  <2> QED
    BY <1>2, <2>1 DEF Final
<1>3. CASE w.path = <<>> /\ w.done # Labels
  <2>1. Turns(w) = {[w EXCEPT !.path = <<n>>] : n \in Labels \ w.done}
    BY <1>3 DEF Turns
  <2>2. Labels \ w.done # {}
    BY <1>1, <1>3, NotDone
  <2>3. ASSUME NEW n \in Labels \ w.done, NEW z, z = [w EXCEPT !.path = <<n>>]
        PROVE  WalkInv(E, z) /\ Work(z) <= Work(w) - 1
    <3>1. WalkInv(E, z) /\ Work(z) = Work(w) - 1
      BY <1>3, <2>3, RootTurn
    <3>2. Work(z) \in Int
      BY <3>1, WorkType DEF WalkInv
    <3> QED
      BY <3>1, <3>2
  <2> QED
    BY <2>1, <2>2, <2>3
<1>4. CASE w.path # <<>>
  <2> DEFINE top == w.path[Len(w.path)]
             out == Above(w.left, top)
             pop == [w EXCEPT !.path = SubSeq(w.path, 1, Len(w.path) - 1),
                              !.done = w.done \cup {top}]
  <2>1. CASE out = {}
    <3>1. Turns(w) = {pop}
      BY <1>4, <2>1 DEF Turns
    <3>2. WalkInv(E, pop) /\ Work(pop) <= Work(w) - 1
      BY <1>4, <2>1, PopTurn
    <3> HIDE DEF pop
    <3> QED
      BY <3>1, <3>2
  <2>2. CASE out # {}
    <3>1. Turns(w) = {LookAt(w, e) : e \in out}
      BY <1>4, <2>2 DEF Turns
    <3>2. ASSUME NEW e \in out PROVE WalkInv(E, LookAt(w, e)) /\ Work(LookAt(w, e)) <= Work(w) - 1
      <4>1. WalkInv(E, LookAt(w, e)) /\ Work(LookAt(w, e)) = Work(w) - 1
        BY <1>4, LookTurn
      <4>2. Work(LookAt(w, e)) \in Int
        BY <4>1, WorkType DEF WalkInv
      <4> QED
        BY <4>1, <4>2
    <3> HIDE DEF out
    <3> QED
      BY <2>2, <3>1, <3>2
  <2> QED
    BY <2>1, <2>2
<1> QED
  BY <1>2, <1>3, <1>4

LEMMA WalksKeep ==
  ASSUME NEW E \in SUBSET Edges
  PROVE  /\ Walks(E)[MaxTurns] # {}
         /\ \A w \in Walks(E)[MaxTurns] : WalkInv(E, w) /\ (Final(w) \/ Work(w) <= 0)
<1> DEFINE f == Walks(E)
           Good(i) == f[i] # {} /\ \A w \in f[i] :
                        WalkInv(E, w) /\ (Final(w) \/ Work(w) + i <= MaxTurns)
           G == {i \in 0 .. MaxTurns : Good(i)}
<1>1. f = [i \in 0 .. MaxTurns |-> IF i = 0 THEN {Start(E)} ELSE Step(f[i - 1])]
  BY WalksDefined DEF IsWalk
<1>2. MaxTurns \in Nat
  BY TurnsBound
<1>3. f[0] = {Start(E)}
  BY <1>1, <1>2
<1>4. ASSUME NEW i \in 0 .. MaxTurns, i < MaxTurns PROVE f[i + 1] = UNION {Turns(w) : w \in f[i]}
  <2>1. i + 1 \in 0 .. MaxTurns /\ i + 1 # 0 /\ (i + 1) - 1 = i
    BY <1>2, <1>4
  <2>2. f[i + 1] = Step(f[(i + 1) - 1])
    BY <1>1, <2>1
  <2> QED
    BY <2>1, <2>2 DEF Step
<1> HIDE DEF f
<1>5. 0 \in G
  <2>1. WalkInv(E, Start(E)) /\ Work(Start(E)) <= MaxTurns
    BY StartInv
  <2>2. Work(Start(E)) \in Int
    BY <2>1, WorkType DEF WalkInv
  <2>3. Work(Start(E)) + 0 <= MaxTurns
    BY <1>2, <2>1, <2>2
  <2> QED
    BY <1>2, <1>3, <2>1, <2>3
<1>6. ASSUME NEW i \in G, i < MaxTurns PROVE i + 1 \in G
  <2>1. Good(i) /\ i \in 0 .. MaxTurns /\ i + 1 \in 0 .. MaxTurns
    BY <1>2, <1>6
  <2>2. f[i + 1] = UNION {Turns(w) : w \in f[i]}
    BY <1>4, <1>6, <2>1
  <2>3. PICK w0 \in f[i] : WalkInv(E, w0)
    BY <2>1
  <2>4. PICK z0 : z0 \in Turns(w0)
    BY <2>3, TurnKeeps
  <2>5. f[i + 1] # {}
    BY <2>2, <2>3, <2>4
  <2>6. ASSUME NEW z \in f[i + 1]
        PROVE  WalkInv(E, z) /\ (Final(z) \/ Work(z) + (i + 1) <= MaxTurns)
    <3>1. PICK w \in f[i] : z \in Turns(w)
      BY <2>2
    <3>2. WalkInv(E, w) /\ (Final(w) \/ Work(w) + i <= MaxTurns)
      BY <2>1
    <3>3. WalkInv(E, z) /\ ((Final(w) /\ z = w) \/ Work(z) <= Work(w) - 1)
      BY <3>1, <3>2, TurnKeeps
    <3>4. Work(z) \in Int /\ Work(w) \in Int
      BY <3>2, <3>3, WorkType DEF WalkInv
    <3>5. CASE Final(w) /\ z = w
      BY <3>3, <3>5
    <3>6. CASE Work(z) <= Work(w) - 1 /\ Work(w) + i <= MaxTurns
      BY <1>2, <2>1, <3>3, <3>4, <3>6
    <3>7. CASE Work(z) <= Work(w) - 1 /\ Final(w)
      <4>1. Turns(w) = {w}
        BY <3>7 DEF Turns, Final
      <4> QED
        BY <3>1, <3>3, <3>7, <4>1
    <3> QED
      BY <3>2, <3>3, <3>5, <3>6, <3>7
  <2> QED
    BY <2>1, <2>5, <2>6
<1>7. G = 0 .. MaxTurns
  <2>1. G \in SUBSET (0 .. MaxTurns)
    OBVIOUS
  <2> HIDE DEF G
  <2> QED
    BY <1>2, <1>5, <1>6, <2>1, UpTo
<1>8. Good(MaxTurns)
  BY <1>2, <1>7
<1>9. ASSUME NEW w \in f[MaxTurns] PROVE WalkInv(E, w) /\ (Final(w) \/ Work(w) <= 0)
  <2>1. WalkInv(E, w) /\ (Final(w) \/ Work(w) + MaxTurns <= MaxTurns)
    BY <1>8
  <2>2. Work(w) \in Int
    BY <2>1, WorkType DEF WalkInv
  <2> QED
    BY <1>2, <2>1, <2>2
<1> QED
  BY <1>8, <1>9 DEF f

\* With no work left the walk is over, every edge looked at
LEMMA WalkEnds ==
  ASSUME NEW E \in SUBSET Edges, NEW w, WalkInv(E, w), Final(w) \/ Work(w) <= 0
  PROVE  Final(w) /\ w.left = {}
<1>1. /\ w \in WalkTypes(E) /\ w.path \in Seq(Labels)
      /\ w.done \subseteq Labels /\ w.left \subseteq E
  BY DEF WalkInv, WalkTypes
<1>2. Cardinality(Labels \ w.done) \in Nat /\ Cardinality(w.left) \in Nat
  BY <1>1, WorkType
<1>3. w.path # <<>> => w.done # Labels
  <2> SUFFICES ASSUME w.path # <<>> PROVE w.done # Labels
    OBVIOUS
  <2>1. Len(w.path) \in Nat /\ Len(w.path) # 0
    BY <1>1, EmptySeq
  <2>2. Len(w.path) \in 1 .. Len(w.path)
    BY <2>1
  <2>3. w.path[Len(w.path)] \in Labels /\ w.path[Len(w.path)] \notin w.done
    BY <1>1, <2>2 DEF WalkInv, PathSound
  <2> QED
    BY <2>3
<1>4. w.done # Labels => Work(w) >= 1
  <2> SUFFICES ASSUME w.done # Labels PROVE Work(w) >= 1
    OBVIOUS
  <2>1. Cardinality(Labels \ w.done) >= 1
    BY <1>1, NotDone
  <2> DEFINE x == IF w.path = <<>> THEN 0 ELSE 1
  <2>2. x \in {0, 1}
    OBVIOUS
  <2>3. Work(w) = 2 * Cardinality(Labels \ w.done) + Cardinality(w.left) - x
    BY DEF Work
  <2> HIDE DEF x
  <2> QED
    BY <1>2, <2>1, <2>2, <2>3
<1>5. Work(w) \in Int
  BY <1>1, WorkType
<1>6. Final(w)
  <2>1. CASE w.done # Labels
    <3>1. ~ (Work(w) <= 0)
      BY <1>4, <1>5, <2>1
    <3> QED
      BY <3>1
  <2> QED
    BY <1>3, <2>1 DEF Final
<1>7. ASSUME NEW e \in w.left PROVE FALSE
  <2>1. e[1] \in Labels
    BY <1>1, EdgeShape
  <2>2. e[1] \notin w.done
    BY DEF WalkInv, EdgesSound
  <2> QED
    BY <1>6, <2>1, <2>2 DEF Final
<1> QED
  BY <1>6, <1>7

LEMMA SearchBreaksCycles ==
  ASSUME NEW E \in SUBSET Edges
  PROVE  Broken[E] # {} /\ Broken[E] \subseteq Kept(E)
<1>1. Broken[E] = {w.kept : w \in Walks(E)[MaxTurns]}
  BY DEF Broken
<1>2. ASSUME NEW w \in Walks(E)[MaxTurns] PROVE w.kept \in Kept(E)
  <2>1. WalkInv(E, w) /\ Final(w) /\ w.left = {}
    BY WalksKeep, WalkEnds
  <2>2. w.kept \in SUBSET E
    BY <2>1 DEF WalkInv, WalkTypes
  <2>3. Acyclic(w.kept)
    BY <2>1 DEF WalkInv, Final, ClosedAcyclic, Acyclic
  <2>4. \A e \in E \ w.kept : ~ Acyclic(w.kept \cup {e})
    BY <2>1 DEF WalkInv, DroppedClose
  <2> QED
    BY <2>2, <2>3, <2>4 DEF Kept
<1> QED
  BY <1>1, <1>2, WalksKeep

\* Whatever order the search of break_cycles takes over whatever labels.toml,
\* it ends, leaves an acyclic graph and drops no edge that could have stayed.
THEOREM SearchKeepsToKept == Spec => []SearchKeepsWhatItCan
<1>1. IInv => SearchKeepsWhatItCan
  <2>. SUFFICES ASSUME IInv PROVE SearchKeepsWhatItCan
    OBVIOUS
  <2>1. toml.edges \in SUBSET Edges
    BY DEF IInv, Files
  <2>. QED BY <2>1, SearchBreaksCycles DEF SearchKeepsWhatItCan
<1>. QED BY <1>1, Always, PTL
=============================================================================
