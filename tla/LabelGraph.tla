----------------------------- MODULE LabelGraph -----------------------------
(***************************************************************************)
(* What readers see of the labels, and the search break_cycles runs: a      *)
(* depth-first walk that meets nodes in the order of a set and parents in   *)
(* the order of a list, so any order is possible.  LabelStore says only     *)
(* which edges may remain; the search is shown to keep to that.             *)
(***************************************************************************)
EXTENDS LabelStore, Sequences, TLC

LabelSymmetry == Permutations(Labels)

\* get_posts_by_label, list_posts: the posts of a label and of those below it
PostsUnder(m) ==
  {p \in Posts : \E l \in Descendants(cache.edges, m) : <<p, l>> \in cache.tagged}

\* get_label, get_all_labels
Response(l) ==
  [parents |-> {m \in Labels : <<l, m>> \in cache.edges},
   children |-> {m \in Labels : <<m, l>> \in cache.edges},
   posts |-> {p \in Posts : <<p, l>> \in cache.tagged}]

\* get_label_graph
Graph == [nodes |-> cache.rows,
          edges |-> UNION {{l} \X Response(l).parents : l \in cache.rows}]

\* The walk: path is the stack (gray), done the black nodes, left the edges
\* not looked at yet, kept the accepted ones
Start(E) == [path |-> <<>>, done |-> {}, left |-> E, kept |-> {}]
OnPath(w) == {w.path[i] : i \in 1 .. Len(w.path)}

\* Mutant: only the node itself counts as an open one
LookAtSelf(w, e) ==
  IF e[2] = e[1] THEN [w EXCEPT !.left = @ \ {e}]
  ELSE [w EXCEPT !.left = @ \ {e}, !.kept = @ \cup {e},
                 !.path = IF e[2] \in w.done \cup OnPath(w) THEN @ ELSE Append(@, e[2])]

\* One edge of the node on top: dropped when it leads back to the path,
\* followed when it leads to a new node
LookAt(w, e) ==
  IF e[2] \in OnPath(w) THEN [w EXCEPT !.left = @ \ {e}]
  ELSE [w EXCEPT !.left = @ \ {e}, !.kept = @ \cup {e},
                 !.path = IF e[2] \in w.done THEN @ ELSE Append(@, e[2])]

\* One turn of the loops
Turns(w) ==
  IF w.path = <<>>
    THEN IF w.done = Labels THEN {w}
         ELSE {[w EXCEPT !.path = <<n>>] : n \in Labels \ w.done}
  ELSE LET top == w.path[Len(w.path)]
           out == Above(w.left, top)
       IN  IF out = {} THEN {[w EXCEPT !.path = SubSeq(@, 1, Len(@) - 1),
                                       !.done = @ \cup {top}]}
           ELSE {LookAt(w, e) : e \in out}

\* A start and an end for each node, and each edge once
MaxTurns == 2 * Cardinality(Labels) + Cardinality(Edges)

\* The states the search of E may be in after each turn
Walks(E) ==
  LET after[i \in 0 .. MaxTurns] ==
        IF i = 0 THEN {Start(E)} ELSE UNION {Turns(w) : w \in after[i - 1]}
  IN  after

\* break_cycles: the sets of edges a walk over E may keep
Broken == [E \in SUBSET Edges |-> {w.kept : w \in Walks(E)[MaxTurns]}]

-----------------------------------------------------------------------------
\* Whatever the order, break_cycles leaves an acyclic graph and drops no edge
\* that could have stayed (dag.py: "Remove back-edges to make an edge list
\* acyclic"); on an acyclic labels.toml it drops nothing
SearchKeepsWhatItCan ==
  /\ Broken[toml.edges] # {}
  /\ Broken[toml.edges] \subseteq Kept(toml.edges)

\* A post is listed under every label its front matter names and under all
\* labels above those, and the graph shows labels.toml, unless the label was
\* deleted or the file has a cycle
PostsListedUnderAncestors ==
  behind = 0 /\ ~ cyclic =>
    /\ toml.edges = Graph.edges
    /\ \A t \in FrontTags(posts) \ untagged :
         /\ t[1] \in Response(t[2]).posts
         /\ \A m \in Ancestors(toml.edges, t[2]) : t[1] \in PostsUnder(m)
=============================================================================
