------------------------------ MODULE SyncMerge ------------------------------
(***************************************************************************)
(* The content-aware merges of backend/services/sync_service.py.           *)
(*                                                                         *)
(* A content is a record.  Its "fields" map every region of the file to a  *)
(* set of tokens, a token standing for one piece of text an author wrote;  *)
(* {} is an absent field.  "modified" is the modified_at stamp, 0 when the *)
(* front matter has none.  In a post, a region is a hunk of the body or a  *)
(* field of the front matter; in labels.toml it is one label, its tokens   *)
(* the label's names and parents; in any other file it is a part of it.    *)
(***************************************************************************)
EXTENDS Naturals, SyncPlan   \* NoFile also stands for a missing merge base

CONSTANTS
  BodyHunks,       \* the hunks of a post's body
  ReportedFields,  \* title, author, created_at, draft
  OtherFields,     \* subtitle, and fields the backend does not recognise
  SetFields        \* the labels field, merged as a set

Regions == BodyHunks \cup ReportedFields \cup OtherFields \cup SetFields

ASSUME RegionsAssumption ==
  /\ BodyHunks \cap ReportedFields = {} /\ BodyHunks \cap OtherFields = {}
  /\ BodyHunks \cap SetFields = {}      /\ ReportedFields \cap OtherFields = {}
  /\ ReportedFields \cap SetFields = {} /\ OtherFields \cap SetFields = {}

\* The texts a content holds: its tokens, each in its region
TextsOf(content) ==
  IF content = NoFile THEN {} ELSE UNION {{r} \X content.fields[r] : r \in Regions}

-----------------------------------------------------------------------------
(* Merging one region; b, s and c are its base, server and client values.   *)

\* Both sides changed the region, and not to the same value
Diverged(b, s, c) == s # b /\ c # b /\ s # c

\* Mutants: the client's change is ignored; a conflict falls back to the base
ScalarServerAlways(b, s, c) == s
ScalarBaseOnTie(b, s, c) ==
  IF Diverged(b, s, c) THEN b ELSE IF c # b /\ s = b THEN c ELSE s

\* A scalar front matter field: the side that changed wins, the server on a tie
ScalarMerge(b, s, c) == IF c # b /\ s = b THEN c ELSE s

\* Mutant: what the client removed comes back
SetMergeKeepsRemoved(b, s, c) == (b \cup (s \ b) \cup (c \ b)) \ (b \ s)

\* _set_merge, and the labels branch of merge_frontmatter
SetMerge(b, s, c) ==
  LET serverAdded   == s \ b
      serverRemoved == b \ s
      clientAdded   == c \ b
      clientRemoved == b \ c
  IN  ((b \cup serverAdded \cup clientAdded) \ serverRemoved) \ clientRemoved

\* One label of labels.toml: a side that removes the label removes it from the
\* merge, whatever the other side did to its names and parents
LabelMerge(b, s, c) ==
  IF b # {} /\ (s = {} \/ c = {}) THEN {} ELSE SetMerge(b, s, c)

RemovedLabels(b, s, c) ==
  {l \in Regions : b.fields[l] # {} /\ (s.fields[l] = {} \/ c.fields[l] = {})}

\* One hunk of a body, as "git merge-file -p" prints it: a hunk both sides
\* changed holds both texts, between conflict markers
HunkMerge(b, s, c) == IF Diverged(b, s, c) THEN s \cup c ELSE ScalarMerge(b, s, c)

-----------------------------------------------------------------------------
(* Merging one file.                                                        *)

SameBody(x, y) == \A h \in BodyHunks : x.fields[h] = y.fields[h]

\* git merge-file is called only when both sides changed the body differently
NeedsGitMerge(b, s, c) == ~SameBody(s, c) /\ ~SameBody(s, b) /\ ~SameBody(c, b)

MergedRegion(b, s, c, gitOk, r) ==
  LET br == b.fields[r]  sr == s.fields[r]  cr == c.fields[r]
  IN  IF r \in BodyHunks
        THEN IF NeedsGitMerge(b, s, c) /\ ~gitOk THEN sr ELSE HunkMerge(br, sr, cr)
        ELSE IF r \in SetFields THEN SetMerge(br, sr, cr) ELSE ScalarMerge(br, sr, cr)

\* Mutant: a failure of git merge-file is not reported
BodyConflictMarkersOnly(b, s, c, gitOk) ==
  /\ NeedsGitMerge(b, s, c)
  /\ \E h \in BodyHunks : Diverged(b.fields[h], s.fields[h], c.fields[h])

BodyConflict(b, s, c, gitOk) ==
  /\ NeedsGitMerge(b, s, c)
  /\ gitOk => \E h \in BodyHunks : Diverged(b.fields[h], s.fields[h], c.fields[h])

\* merge_post_file: without a base the server's text is kept and the body is
\* always reported; gitOk is FALSE when git merge-file fails or times out.
\* modified_at is left out of a three-way merge.
MergePost(b, s, c, gitOk) ==
  IF b = NoFile
    THEN [merged         |-> s,
          bodyConflict   |-> TRUE,
          fieldConflicts |-> {f \in ReportedFields : /\ s.fields[f] # {} /\ c.fields[f] # {}
                                                     /\ s.fields[f] # c.fields[f]}]
    ELSE [merged         |-> [fields   |-> [r \in Regions |-> MergedRegion(b, s, c, gitOk, r)],
                              modified |-> 0],
          bodyConflict   |-> BodyConflict(b, s, c, gitOk),
          fieldConflicts |-> {f \in ReportedFields :
                                Diverged(b.fields[f], s.fields[f], c.fields[f])}]

Conflicted(result) == result.bodyConflict \/ result.fieldConflicts # {}

\* merge_labels_toml: without a base the client's file is taken as it is
MergeLabels(b, s, c) ==
  IF b = NoFile
    THEN c
    ELSE [c EXCEPT !.fields =
            [r \in Regions |-> LabelMerge(b.fields[r], s.fields[r], c.fields[r])]]

\* The stamp normalize_post_frontmatter leaves in an uploaded post: an edit is
\* stamped with the current time, a new post only when it has no modified_at
NormalizePost(content, isEdit, time) ==
  IF isEdit \/ content.modified = 0 THEN [content EXCEPT !.modified = time] ELSE content
=============================================================================
