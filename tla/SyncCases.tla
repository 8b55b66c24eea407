------------------------------ MODULE SyncCases ------------------------------
(***************************************************************************)
(* The planning and merging algorithms of sync, checked on every small     *)
(* input.  A behaviour picks one input: the three states of a path, or the *)
(* three versions of one post or of labels.toml.  A merge is then computed *)
(* and, as when the answer was lost and the client sends the same upload   *)
(* again, computed a second time against its own result.                   *)
(***************************************************************************)
EXTENDS SyncMerge

CONSTANTS
  Digests,   \* contents, as the planner sees them
  Displayed, \* the OtherFields a post displays: subtitle
  NotYet     \* the merge has not been computed

ASSUME DisplayedAssumption == Displayed \subseteq OtherFields

VARIABLES
  kind,      \* "plan", "post" or "labels"
  given,     \* the states compared, or the versions merged
  gitOk,     \* git merge-file works
  result     \* of the merge

caseVars == <<kind, given, gitOk, result>>

\* The texts a version may hold in one region: 0 is the old text, 1 is written on
\* the server or on both sides, 2 by the client only
SideTexts(side, r) ==
  IF r \in SetFields THEN SUBSET {0, 1}
  ELSE CASE side = "server" -> {{0}, {1}} \cup (IF r \in BodyHunks THEN {} ELSE {{}})
         [] side = "client" -> {{0}, {1}, {2}} \cup (IF r \in BodyHunks THEN {} ELSE {{}})

Version(fields) == [fields |-> fields, modified |-> 0]

Versions(side) ==
  {Version(f) : f \in {g \in [Regions -> SUBSET (0 .. 2)] :
                         \A r \in Regions : g[r] \in SideTexts(side, r)}}

OldVersion == Version([r \in Regions |-> {0}])

PlanStates == [{"path"} -> Digests \cup {NoFile}]

CaseInit ==
  /\ \/ /\ kind = "plan"
        /\ \E c, m, s \in PlanStates : given = [client |-> c, base |-> m, server |-> s]
     \/ /\ kind \in {"post", "labels"}
        /\ \E b \in {OldVersion, NoFile}, s \in Versions("server"), c \in Versions("client") :
             given = [client |-> c, base |-> b, server |-> s]
  /\ gitOk \in (IF kind = "post" THEN BOOLEAN ELSE {TRUE})
  /\ result = NotYet

Merge ==
  /\ result = NotYet
  /\ \/ /\ kind = "post"
        /\ result' = MergePost(given.base, given.server, given.client, gitOk)
     \/ /\ kind = "labels"
        /\ result' = [merged         |-> MergeLabels(given.base, given.server, given.client),
                      bodyConflict   |-> FALSE,
                      fieldConflicts |-> {}]
  /\ UNCHANGED <<kind, given, gitOk>>

\* The same upload again: the server now holds the merge
Retry ==
  /\ result # NotYet
  /\ given' = [given EXCEPT !.server = result.merged]
  /\ result' =
       IF kind = "post"
         THEN MergePost(given.base, result.merged, given.client, gitOk)
         ELSE [result EXCEPT !.merged = MergeLabels(given.base, @, given.client)]
  /\ UNCHANGED <<kind, gitOk>>

CaseNext == Merge \/ Retry

CaseSpec == CaseInit /\ [][CaseNext]_caseVars

-----------------------------------------------------------------------------
(* Properties.                                                              *)

\* The plan is the three-way rule, a missing file being one more value: a side that
\* differs from the manifest has changed, the side that changed wins, and two
\* different changes are a conflict.  Every path known to anybody is in one list.
PlanIsThreeWay ==
  kind = "plan" =>
    LET c == given.client["path"]  m == given.base["path"]  s == given.server["path"]
        plan == ComputeSyncPlan(given.client, given.base, given.server)
        lists == {l \in PlanLists : "path" \in plan[l]}
    IN  lists = IF c = NoFile /\ m = NoFile /\ s = NoFile THEN {}
                ELSE IF c = s THEN {"noChange"}
                ELSE IF s = m THEN {IF c = NoFile THEN "toDeleteRemote" ELSE "toUpload"}
                ELSE IF c = m THEN {IF s = NoFile THEN "toDeleteLocal" ELSE "toDownload"}
                ELSE IF c = NoFile \/ s = NoFile THEN {"deleteModify"}
                ELSE {"conflicts"}

Merged3 == result # NotYet /\ given.base # NoFile

\* With a merge base, a region only one side changed ends up as that side left it,
\* whatever happened in the other regions; unless git merge-file failed, which keeps
\* the server's body and is reported.
OneSidedChangesSurvive ==
  Merged3 => \A r \in Regions :
    LET b == given.base.fields[r]  s == given.server.fields[r]  c == given.client.fields[r]
        reported == r \in BodyHunks /\ ~gitOk /\ result.bodyConflict
    IN  /\ s = b => result.merged.fields[r] = c \/ reported
        /\ c = b => result.merged.fields[r] = s

\* Whatever the client wrote is in the merged file, or the file is reported as a
\* conflict and the client keeps a backup.  Two exceptions: the fields merge_frontmatter
\* resolves without a report, and a label the server removed.
ClientTextKeptOrReported ==
  result # NotYet =>
    \/ Conflicted(result)
    \/ \A r \in Regions :
         \/ given.client.fields[r] \subseteq
              result.merged.fields[r] \cup (IF given.base = NoFile THEN {}
                                            ELSE given.base.fields[r])
         \/ kind = "post" /\ r \in OtherFields
         \/ kind = "labels" /\ given.base # NoFile /\ given.server.fields[r] = {}

\* A tag is in the merge if both sides kept it, or one of them added it.
TagsMergeByMembership ==
  Merged3 /\ kind = "post" => \A r \in SetFields : \A t \in 0 .. 2 :
    LET s == t \in given.server.fields[r]  c == t \in given.client.fields[r]
    IN  t \in result.merged.fields[r] <=> IF t \in given.base.fields[r] THEN s /\ c ELSE s \/ c

\* Sending the same upload again, the base being the old one, changes nothing: a
\* client whose answer was lost may simply run again.
RetryChangesNothing == [][Retry => result'.merged.fields = result.merged.fields]_caseVars

\* merge_frontmatter resolves only conflicts of unrecognised fields without a report,
\* says its comment: what the client wrote in a field posts display is in the merge,
\* or the file is reported.  The code does not report subtitle.
DisplayedFieldsKeptOrReported ==
  Merged3 /\ kind = "post" =>
    \/ Conflicted(result)
    \/ \A f \in ReportedFields \cup Displayed :
         given.client.fields[f] \subseteq result.merged.fields[f] \cup given.base.fields[f]

\* docs/arch/sync.md: when a clean merge is not possible, the server keeps the
\* server-side result.  The code writes both texts, between conflict markers.
ServerSideResultKept ==
  Merged3 /\ kind = "post" /\ result.bodyConflict =>
    \A h \in BodyHunks : given.server.fields[h] = given.base.fields[h] \/
                         result.merged.fields[h] = given.server.fields[h]
=============================================================================
