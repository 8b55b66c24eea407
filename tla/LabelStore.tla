----------------------------- MODULE LabelStore -----------------------------
(***************************************************************************)
(* The label graph: labels.toml names the labels and their parents, posts   *)
(* name labels in their front matter, and the cache holds both as rows.     *)
(* The graph in the cache must be acyclic: every walk over it is a          *)
(* recursive query without a visited set.  Handlers hold the content lock,  *)
(* so each is one action; inside one, the file is written before the        *)
(* database commits, and either may fail.                                   *)
(***************************************************************************)
EXTENDS Naturals, FiniteSets

CONSTANTS
  Labels,   \* label ids
  Posts,    \* posts; one without labels stands for one that does not exist
  MaxBehind \* a bound: label requests from a failed one to the next rebuild

ASSUME LabelAssumption ==
  IsFiniteSet(Labels) /\ IsFiniteSet(Posts) /\ MaxBehind \in Nat

VARIABLES
  toml,      \* labels.toml: [ids, edges], an edge is <<child, parent>>
  labels,    \* the content manager's copy of it
  posts,     \* the labels each post's front matter names
  cache,     \* [rows, implicit, edges, tagged]
  cyclic,    \* the last rebuild met a cycle
  untagged,  \* tags the front matter names whose label was deleted since
  behind     \* label requests since one left the cache or the copy behind
             \* the file (0: none did)

vars == <<toml, labels, posts, cache, cyclic, untagged, behind>>

Edges == Labels \X Labels
Files == {f \in [ids : SUBSET Labels, edges : SUBSET Edges] :
            \A e \in f.edges : e[1] \in f.ids}
Tags == Posts \X Labels

\* Every set of labels has one without a parent in the set
Acyclic(E) ==
  \A S \in (SUBSET Labels) \ {{}} : \E n \in S : \A m \in S : <<n, m>> \notin E

\* Mutant: only the parents of l are looked at
ParentsOnly(E, l) == {l} \cup {m \in Labels : <<l, m>> \in E}

\* l and every label above it: the smallest set that holds l and its parents
Ancestors(E, l) ==
  {m \in Labels :
     \A S \in SUBSET Labels :
       (l \in S /\ \A e \in E : e[1] \in S => e[2] \in S) => m \in S}
Descendants(E, m) == {l \in Labels : m \in Ancestors(E, l)}

\* would_create_cycle
Closes(E, l, p) == l = p \/ l \in Ancestors(E, p)

\* What break_cycles may keep of E: nothing it drops could be put back
Kept(E) ==
  {K \in SUBSET E :
     Acyclic(K) /\ \A e \in E \ K : ~ Acyclic(K \cup {e})}

FrontTags(front) == {t \in Tags : t[2] \in front[t[1]]}
ParentsIn(E) == {m \in Labels : \E l \in Labels : <<l, m>> \in E}

\* Mutant: an edge to an undefined parent is dropped
RebuiltDefined(f, front) ==
  LET rows == f.ids \cup ParentsIn(f.edges) \cup {t[2] : t \in FrontTags(front)}
  IN  {[rows |-> rows, implicit |-> rows \ f.ids,
        edges |-> {e \in K : e[2] \in f.ids},
        tagged |-> FrontTags(front)] : K \in Kept(f.edges)}

\* rebuild_cache: parents and tags nobody defined become implicit labels
Rebuilt(f, front) ==
  LET rows == f.ids \cup ParentsIn(f.edges) \cup {t[2] : t \in FrontTags(front)}
  IN  {[rows |-> rows, implicit |-> rows \ f.ids,
        edges |-> K, tagged |-> FrontTags(front)] : K \in Kept(f.edges)}

Rebuild(f, front) ==
  /\ cache' \in Rebuilt(f, front)
  /\ labels' = f
  /\ cyclic' = ~ Acyclic(f.edges)
  /\ untagged' = {} /\ behind' = 0

Init ==
  /\ toml = [ids |-> {}, edges |-> {}] /\ labels = toml
  /\ posts = [p \in Posts |-> {}]
  /\ cache = [rows |-> {}, implicit |-> {}, edges |-> {}, tagged |-> {}]
  /\ cyclic = FALSE /\ untagged = {} /\ behind = 0

-----------------------------------------------------------------------------
(* Label requests                                                           *)

\* An error that is undone (an unwritten file, a failed commit with the old
\* file restored) changes nothing and needs no action
Committed(f, c, lost) ==
  /\ toml' = f /\ labels' = f /\ cache' = c
  /\ untagged' = untagged \cup lost
  /\ behind' = IF behind = 0 THEN 0 ELSE behind + 1
  /\ UNCHANGED cyclic

\* The commit fails and the old file cannot be restored, or the new one is
\* written and cannot be read back
LeftBehind(f) ==
  /\ toml' = f /\ labels' \in {f, labels}
  /\ behind' = behind + 1
  /\ UNCHANGED <<cache, cyclic, untagged>>

\* The server dies between the two, and starts again
Dies(f) == toml' = f /\ Rebuild(f, posts)

\* _persist_labels_and_commit
Persist(f, c, lost) ==
  /\ behind < MaxBehind
  /\ Committed(f, c, lost) \/ LeftBehind(f) \/ Dies(f)
  /\ UNCHANGED posts

ParentEdges(l, P) == {l} \X P
Above(E, l) == {e \in E : e[1] = l}
Touching(E, l) == {e \in E : l \in {e[1], e[2]}}

WithParents(f, l, P) ==
  [ids |-> f.ids \cup {l},
   edges |-> (f.edges \ Above(f.edges, l)) \cup ParentEdges(l, P)]
\* The entry of l is gone, and others may still name l as a parent
WithoutEntry(f, l) ==
  [ids |-> f.ids \ {l}, edges |-> f.edges \ Above(f.edges, l)]
Without(f, l) ==
  [ids |-> f.ids \ {l}, edges |-> f.edges \ Touching(f.edges, l)]

CreateLabel(l, P) ==
  /\ P \subseteq cache.rows /\ l \notin cache.rows
  /\ \A p \in P : ~ Closes(cache.edges, l, p)
  /\ Persist(WithParents(labels, l, P),
             [cache EXCEPT !.rows = @ \cup {l},
                           !.edges = @ \cup ParentEdges(l, P)], {})

\* An implicit label that is given parents stays implicit until a rebuild
UpdateLabel(l, P) ==
  LET others == cache.edges \ Above(cache.edges, l)
  IN  /\ l \in cache.rows /\ P \subseteq cache.rows
      /\ \A p \in P : ~ Closes(others, l, p)
      /\ Persist(WithParents(labels, l, P),
                 [cache EXCEPT !.edges = others \cup ParentEdges(l, P)], {})

\* delete_label: the row takes its edges and tags with it; the posts keep
\* the label in their front matter
Removed(c, l) ==
  [rows |-> c.rows \ {l}, implicit |-> c.implicit \ {l},
   edges |-> c.edges \ Touching(c.edges, l),
   tagged |-> {t \in c.tagged : t[2] # l}]

DeleteLabel(l) ==
  /\ l \in cache.rows
  /\ Persist(Without(labels, l), Removed(cache, l),
             {t \in cache.tagged : t[2] = l})

-----------------------------------------------------------------------------
(* The other writers                                                        *)

Retagged(c, p, S) ==
  [c EXCEPT !.rows = @ \cup S,
            !.implicit = @ \cup (S \ c.rows),
            !.tagged = {t \in @ : t[1] # p} \cup ({p} \X S)]

\* A post is created, edited or (with no labels) deleted
SavePost(p, S) ==
  /\ posts' = [posts EXCEPT ![p] = S]
  /\ cache' = Retagged(cache, p, S)
  /\ untagged' = {t \in untagged : t[1] # p}
  /\ UNCHANGED <<toml, labels, cyclic, behind>>

\* A sync brings a labels.toml edited by hand: one entry is written or
\* removed, the others are left as they are
HandEdits(f) ==
  UNION {{WithParents(f, l, P) : P \in SUBSET Labels}
           \cup {WithoutEntry(f, l)} : l \in Labels}

SyncLabels(f) ==
  /\ toml' = f
  /\ Rebuild(f, posts)
  /\ UNCHANGED posts

Restart == Rebuild(toml, posts) /\ UNCHANGED <<toml, posts>>

Next ==
  \/ \E l \in Labels, P \in SUBSET Labels : CreateLabel(l, P)
  \/ \E l \in Labels, P \in SUBSET Labels : UpdateLabel(l, P)
  \/ \E l \in Labels : DeleteLabel(l)
  \/ \E p \in Posts, S \in SUBSET Labels : SavePost(p, S)
  \/ \E f \in HandEdits(toml) : SyncLabels(f)
  \/ Restart

Spec == Init /\ [][Next]_vars

-----------------------------------------------------------------------------
\* Types, and the references between rows: an edge and a tag have a row at
\* each end, which is what the foreign keys of the cache ask of every request
TypeOK ==
  /\ toml \in Files /\ labels \in Files
  /\ posts \in [Posts -> SUBSET Labels]
  /\ cache.rows \subseteq Labels /\ cache.implicit \subseteq cache.rows
  /\ cache.edges \subseteq cache.rows \X cache.rows
  /\ cache.tagged \subseteq Posts \X cache.rows
  /\ cache = [rows |-> cache.rows, implicit |-> cache.implicit,
              edges |-> cache.edges, tagged |-> cache.tagged]
  /\ untagged \subseteq Tags
  /\ cyclic \in BOOLEAN /\ behind \in 0 .. MaxBehind

\* The cached graph is acyclic, whatever labels.toml holds and whatever the
\* requests before did: a cycle would make the ancestor and descendant
\* queries run for ever
GraphAcyclic == Acyclic(cache.edges)

\* The cache never shows what the files do not say, and shows all of it when
\* labels.toml had no cycle; only a deleted label's tags wait for a rebuild
CacheFollowsFiles ==
  behind = 0 =>
    /\ labels = toml
    /\ cache.rows \ cache.implicit \subseteq toml.ids
    /\ toml.ids \subseteq cache.rows
    /\ cache.edges \subseteq toml.edges
    /\ ~ cyclic => cache.edges = toml.edges
    /\ cache.tagged = FrontTags(posts) \ untagged
=============================================================================
