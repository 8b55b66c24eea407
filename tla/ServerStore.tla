----------------------------- MODULE ServerStore -----------------------------
(***************************************************************************)
(* What sync promises about the server's content, told without its steps:  *)
(* a commit request is one atomic change.  It takes effect as a whole or   *)
(* not at all, on the files it names only, and no edit of the web editor   *)
(* falls in between.  The manifest is either left as it was or describes   *)
(* all files at that moment.                                               *)
(***************************************************************************)
CONSTANTS
  StorePaths,   \* the managed paths
  StoreStates,  \* what a path may hold
  NoRequest     \* no commit request is being handled

VARIABLES
  tree,         \* the content readers and editors are entitled to
  agreed,       \* the manifest
  request       \* the paths the running commit request names, or NoRequest

storeVars == <<tree, agreed, request>>

StoreTrees == [StorePaths -> StoreStates]

Init ==
  /\ tree \in StoreTrees
  /\ agreed \in StoreTrees
  /\ request = NoRequest

\* An edit changes one file, never during a commit
Edit(p) ==
  /\ request = NoRequest
  /\ \E x \in StoreStates : tree' = [tree EXCEPT ![p] = x]
  /\ UNCHANGED <<agreed, request>>

Begin ==
  /\ request = NoRequest
  /\ request' \in SUBSET StorePaths
  /\ UNCHANGED <<tree, agreed>>

Accept ==
  /\ request # NoRequest
  /\ tree' \in StoreTrees
  /\ \A p \in StorePaths \ request : tree'[p] = tree[p]
  /\ agreed' \in {agreed, tree'}
  /\ request' = NoRequest

Refuse ==
  /\ request # NoRequest
  /\ request' = NoRequest
  /\ UNCHANGED <<tree, agreed>>

Next == (\E p \in StorePaths : Edit(p)) \/ Begin \/ Accept \/ Refuse

Spec == Init /\ [][Next]_storeVars
=============================================================================
