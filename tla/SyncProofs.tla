------------------------------ MODULE SyncProofs ------------------------------
(***************************************************************************)
(* Theorems about sync.  The plan and the merges, for every input: any set *)
(* of paths, any contents, any texts (part 1).  The protocol, for any      *)
(* number of clients and paths, any edits and any failures, but those a    *)
(* theorem names: type correctness (part 2); commits are atomic, the       *)
(* refinement of ServerStore (part 3); a run nobody disturbed leaves both  *)
(* sides equal (part 4); deletions spare the server's edits, a directory   *)
(* is blamed for its own changes only, and no edit is lost (part 5).       *)
(***************************************************************************)
EXTENDS SyncProtocol, SyncCases, TLAPS

(***************************************************************************)
(* Part 1.  compute_sync_plan and the merges.                              *)
(***************************************************************************)

\* The plan follows the three-way rule on every path: the side that differs from the
\* manifest has changed and wins, and two different changes are a conflict.
THEOREM PlanFollowsThreeWayRule ==
  ASSUME NEW c, NEW m, NEW s, NEW p \in DOMAIN c
  PROVE  LET plan == ComputeSyncPlan(c, m, s)
         IN  /\ p \in plan.toUpload <=> c[p] # NoFile /\ s[p] = m[p] /\ c[p] # m[p]
             /\ p \in plan.toDeleteRemote <=> c[p] = NoFile /\ s[p] = m[p] /\ c[p] # m[p]
             /\ p \in plan.toDownload <=> s[p] # NoFile /\ c[p] = m[p] /\ s[p] # m[p]
             /\ p \in plan.toDeleteLocal <=> s[p] = NoFile /\ c[p] = m[p] /\ s[p] # m[p]
             /\ p \in plan.conflicts \cup plan.deleteModify <=>
                  c[p] # m[p] /\ s[p] # m[p] /\ c[p] # s[p]
             /\ p \in plan.noChange <=> c[p] = s[p] /\ (c[p] # NoFile \/ m[p] # NoFile)
<1> DEFINE plan == ComputeSyncPlan(c, m, s)
<1>1. /\ plan.toUpload = ToUpload(c, m, s)
      /\ plan.toDownload = ToDownload(c, m, s)
      /\ plan.toDeleteLocal = ToDeleteLocal(c, m, s)
      /\ plan.toDeleteRemote = ToDeleteRemote(c, m, s)
      /\ plan.conflicts = MergeConflicts(c, m, s)
      /\ plan.deleteModify = DeleteModifyConflicts(c, m, s)
      /\ plan.noChange = NoChange(c, m, s)
  BY DEF ComputeSyncPlan
<1>2. p \in plan.toUpload <=> c[p] # NoFile /\ s[p] = m[p] /\ c[p] # m[p]
  BY <1>1 DEF ToUpload, InAll
<1>3. p \in plan.toDeleteRemote <=> c[p] = NoFile /\ s[p] = m[p] /\ c[p] # m[p]
  BY <1>1 DEF ToDeleteRemote
<1>4. p \in plan.toDownload <=> s[p] # NoFile /\ c[p] = m[p] /\ s[p] # m[p]
  BY <1>1 DEF ToDownload, InAll
<1>5. p \in plan.toDeleteLocal <=> s[p] = NoFile /\ c[p] = m[p] /\ s[p] # m[p]
  BY <1>1 DEF ToDeleteLocal
<1>6. p \in plan.conflicts \cup plan.deleteModify <=>
        c[p] # m[p] /\ s[p] # m[p] /\ c[p] # s[p]
  BY <1>1 DEF MergeConflicts, DeleteModifyConflicts, InAll
<1>7. p \in plan.noChange <=> c[p] = s[p] /\ (c[p] # NoFile \/ m[p] # NoFile)
  BY <1>1 DEF NoChange, InAll
<1> QED BY <1>2, <1>3, <1>4, <1>5, <1>6, <1>7

\* No path is in two lists of a plan: nothing is both uploaded and deleted, or
\* downloaded over a conflict.
THEOREM PlanListsAreDisjoint ==
  ASSUME NEW c, NEW m, NEW s
  PROVE  LET plan == ComputeSyncPlan(c, m, s)
         IN  \A k, l \in PlanLists : k # l => plan[k] \cap plan[l] = {}
<1> DEFINE plan == ComputeSyncPlan(c, m, s)
           Rule(p) == IF c[p] = s[p] THEN "noChange"
                      ELSE IF s[p] = m[p]
                        THEN IF c[p] = NoFile THEN "toDeleteRemote" ELSE "toUpload"
                      ELSE IF c[p] = m[p]
                        THEN IF s[p] = NoFile THEN "toDeleteLocal" ELSE "toDownload"
                      ELSE IF c[p] = NoFile \/ s[p] = NoFile THEN "deleteModify"
                      ELSE "conflicts"
<1>1. \A l \in PlanLists : \A p \in plan[l] : l = Rule(p)
  <2> SUFFICES ASSUME NEW l \in PlanLists, NEW p \in plan[l]
               PROVE  l = Rule(p)
    OBVIOUS
  <2>1. CASE l = "toUpload"
    BY <2>1 DEF ComputeSyncPlan, ToUpload, InAll
  <2>2. CASE l = "toDownload"
    BY <2>2 DEF ComputeSyncPlan, ToDownload, InAll
  <2>3. CASE l = "toDeleteLocal"
    BY <2>3 DEF ComputeSyncPlan, ToDeleteLocal
  <2>4. CASE l = "toDeleteRemote"
    BY <2>4 DEF ComputeSyncPlan, ToDeleteRemote
  <2>5. CASE l = "conflicts"
    BY <2>5 DEF ComputeSyncPlan, MergeConflicts, InAll
  <2>6. CASE l = "deleteModify"
    BY <2>6 DEF ComputeSyncPlan, DeleteModifyConflicts
  <2>7. CASE l = "noChange"
    BY <2>7 DEF ComputeSyncPlan, NoChange, InAll
  <2> QED BY <2>1, <2>2, <2>3, <2>4, <2>5, <2>6, <2>7 DEF PlanLists
<1> HIDE DEF plan, Rule
<1>2. \A k, l \in PlanLists : k # l => plan[k] \cap plan[l] = {}
  BY <1>1
<1> QED BY <1>2 DEF plan

-----------------------------------------------------------------------------
(* Regions.                                                                 *)

\* A member of a merged set was kept by both sides, or added by one of them.
THEOREM SetMergeByMembership ==
  ASSUME NEW b, NEW s, NEW c, NEW t
  PROVE  t \in SetMerge(b, s, c) <=> IF t \in b THEN t \in s /\ t \in c ELSE t \in s \/ t \in c
BY DEF SetMerge

\* A set only one side changed is merged to that side's.
LEMMA SetMergeOneSided ==
  ASSUME NEW b, NEW x
  PROVE  SetMerge(b, b, x) = x /\ SetMerge(b, x, b) = x
BY DEF SetMerge

\* Merging the same client set again, into the merge, changes nothing.
LEMMA SetMergeTwice ==
  ASSUME NEW b, NEW s, NEW c
  PROVE  SetMerge(b, SetMerge(b, s, c), c) = SetMerge(b, s, c)
BY DEF SetMerge

\* The same two facts for the other kinds of regions.
LEMMA RegionOneSided ==
  ASSUME NEW b, NEW x
  PROVE  /\ ScalarMerge(b, b, x) = x /\ ScalarMerge(b, x, b) = x
         /\ LabelMerge(b, b, x) = x /\ LabelMerge(b, x, b) = x
         /\ HunkMerge(b, b, x) = x /\ HunkMerge(b, x, b) = x
BY SetMergeOneSided DEF ScalarMerge, LabelMerge, HunkMerge, Diverged

LEMMA LabelTwice ==
  ASSUME NEW b, NEW s, NEW c
  PROVE  LabelMerge(b, LabelMerge(b, s, c), c) = LabelMerge(b, s, c)
<1>1. CASE b # {} /\ (s = {} \/ c = {})
  BY <1>1 DEF LabelMerge
<1>2. CASE ~(b # {} /\ (s = {} \/ c = {}))
  <2>1. LabelMerge(b, s, c) = SetMerge(b, s, c)
    BY <1>2 DEF LabelMerge
  <2>2. CASE b # {} /\ SetMerge(b, s, c) = {}
    <3>1. LabelMerge(b, {}, c) = {}
      BY <2>2 DEF LabelMerge
    <3> QED BY <2>1, <2>2, <3>1
  <2>3. CASE ~(b # {} /\ SetMerge(b, s, c) = {})
    <3>1. LabelMerge(b, SetMerge(b, s, c), c) = SetMerge(b, SetMerge(b, s, c), c)
      BY <1>2, <2>3 DEF LabelMerge
    <3> QED BY <2>1, <3>1, SetMergeTwice
  <2> QED BY <2>2, <2>3
<1> QED BY <1>1, <1>2

LEMMA RegionTwice ==
  ASSUME NEW b, NEW s, NEW c, s \cup c # b   \* what both wrote is not the old text
  PROVE  /\ ScalarMerge(b, ScalarMerge(b, s, c), c) = ScalarMerge(b, s, c)
         /\ LabelMerge(b, LabelMerge(b, s, c), c) = LabelMerge(b, s, c)
         /\ HunkMerge(b, HunkMerge(b, s, c), c) = HunkMerge(b, s, c)
<1>1. ScalarMerge(b, ScalarMerge(b, s, c), c) = ScalarMerge(b, s, c)
  BY DEF ScalarMerge
<1>2. LabelMerge(b, LabelMerge(b, s, c), c) = LabelMerge(b, s, c)
  BY LabelTwice
<1>3. HunkMerge(b, HunkMerge(b, s, c), c) = HunkMerge(b, s, c)
  <2>1. CASE Diverged(b, s, c)
    <3>1. HunkMerge(b, s, c) = s \cup c
      BY <2>1 DEF HunkMerge
    <3>2. (s \cup c) \cup c = s \cup c
      OBVIOUS
    <3>3. HunkMerge(b, s \cup c, c) = s \cup c
      BY <3>2 DEF HunkMerge, ScalarMerge, Diverged
    <3> QED BY <3>1, <3>3
  <2>2. CASE ~Diverged(b, s, c)
    BY <2>2, <1>1 DEF HunkMerge, Diverged, ScalarMerge
  <2> QED BY <2>1, <2>2
<1> QED BY <1>1, <1>2, <1>3

-----------------------------------------------------------------------------
(* The cases of SyncCases: an input, its merge and the merge repeated.      *)

Computed(b, s, c, ok) ==
  IF kind = "post" THEN MergePost(b, s, c, ok)
  ELSE [merged |-> MergeLabels(b, s, c), bodyConflict |-> FALSE, fieldConflicts |-> {}]

\* A hunk is never empty on either side, so that two texts side by side are
\* not the old one; a result is the merge of what is given.
CaseInv ==
  /\ kind \in {"plan", "post", "labels"} /\ gitOk \in BOOLEAN
  /\ given = [client |-> given.client, base |-> given.base, server |-> given.server]
  /\ kind = "plan" => /\ result = NotYet
                      /\ given.client \in PlanStates /\ given.base \in PlanStates
                      /\ given.server \in PlanStates
  /\ kind # "plan" =>
       /\ given.base \in {OldVersion, NoFile}
       /\ given.client \in Versions("client")
       /\ kind = "post" => \A h \in BodyHunks : given.server.fields[h] # {}
       /\ result # NotYet => result = Computed(given.base, given.server, given.client, gitOk)

LEMMA HunksAreSmall ==
  ASSUME NEW side \in {"server", "client"}, NEW v \in Versions(side), NEW h \in BodyHunks
  PROVE  v.fields[h] # {}
<1>1. v.fields[h] \in SideTexts(side, h)
  BY DEF Versions, Version, Regions
<1>2. h \notin SetFields
  BY RegionsAssumption
<1>. QED BY <1>1, <1>2 DEF SideTexts

LEMMA InitCases == CaseInit => CaseInv
<1>. SUFFICES ASSUME CaseInit PROVE CaseInv
  OBVIOUS
<1>1. CASE kind = "plan"
  BY <1>1 DEF CaseInit, CaseInv
<1>2. CASE kind \in {"post", "labels"}
  <2>1. PICK b \in {OldVersion, NoFile}, s \in Versions("server"), c \in Versions("client") :
          given = [client |-> c, base |-> b, server |-> s]
    BY <1>2 DEF CaseInit
  <2>2. \A h \in BodyHunks : s.fields[h] # {}
    BY HunksAreSmall
  <2>3. result = NotYet /\ gitOk \in BOOLEAN
    BY DEF CaseInit
  <2>. QED BY <1>2, <2>1, <2>2, <2>3 DEF CaseInv
<1>. QED BY <1>1, <1>2 DEF CaseInit

\* The merge of a post, region by region
LEMMA PostMerged ==
  ASSUME NEW b, NEW s, NEW c, NEW ok, b # NoFile
  PROVE  /\ MergePost(b, s, c, ok).merged.fields = [r \in Regions |-> MergedRegion(b, s, c, ok, r)]
         /\ MergePost(b, s, c, ok).bodyConflict = BodyConflict(b, s, c, ok)
         /\ MergePost(b, s, c, ok).fieldConflicts =
              {f \in ReportedFields : Diverged(b.fields[f], s.fields[f], c.fields[f])}
BY DEF MergePost

LEMMA LabelsMerged ==
  ASSUME NEW b, NEW s, NEW c \in Versions("client"), b # NoFile
  PROVE  MergeLabels(b, s, c).fields =
           [r \in Regions |-> LabelMerge(b.fields[r], s.fields[r], c.fields[r])]
<1>1. "fields" \in DOMAIN c
  BY DEF Versions, Version
<1>. QED BY <1>1 DEF MergeLabels

\* A hunk keeps some text
LEMMA HunkKeepsText ==
  ASSUME NEW b, NEW s, NEW c, s # {}, c # {}
  PROVE  HunkMerge(b, s, c) # {}
BY DEF HunkMerge, ScalarMerge

\* One region of a post merged twice
FullHunks(b, s, c) ==
  \A h \in BodyHunks : b.fields[h] = {0} /\ s.fields[h] # {} /\ c.fields[h] # {}
IsMerged(m, b, s, c, ok) ==
  \A r \in Regions : m.fields[r] = MergedRegion(b, s, c, ok, r)

LEMMA MergedRegionTwice ==
  ASSUME NEW b, NEW s, NEW c, NEW ok \in BOOLEAN, NEW r \in Regions, NEW m,
         FullHunks(b, s, c), IsMerged(m, b, s, c, ok)
  PROVE  MergedRegion(b, m, c, ok, r) = m.fields[r]
<1>. USE DEF FullHunks, IsMerged
<1>. DEFINE br == b.fields[r]  sr == s.fields[r]  cr == c.fields[r]
<1>1. CASE r \in BodyHunks
  <2>1. CASE NeedsGitMerge(b, s, c) /\ ~ok
    <3>1. \A h \in BodyHunks : m.fields[h] = s.fields[h]
      BY <2>1 DEF MergedRegion, Regions
    <3>2. NeedsGitMerge(b, m, c)
      BY <2>1, <3>1 DEF NeedsGitMerge, SameBody
    <3>. QED BY <1>1, <2>1, <3>1, <3>2 DEF MergedRegion
  <2>2. CASE ~(NeedsGitMerge(b, s, c) /\ ~ok)
    <3>1. \A h \in BodyHunks : m.fields[h] = HunkMerge(b.fields[h], s.fields[h], c.fields[h])
      BY <2>2 DEF MergedRegion, Regions
    <3>2. HunkMerge(br, m.fields[r], cr) = m.fields[r]
      <4>1. CASE sr \cup cr = br
        BY <1>1, <3>1, <4>1 DEF HunkMerge, ScalarMerge, Diverged
      <4>2. CASE sr \cup cr # br
        BY <1>1, <3>1, <4>2, RegionTwice
      <4>. QED BY <4>1, <4>2
    <3>3. ok \/ ~NeedsGitMerge(b, m, c)
      <4>. SUFFICES ASSUME ~ok PROVE ~NeedsGitMerge(b, m, c)
        OBVIOUS
      <4>1. CASE SameBody(s, c)
        BY <3>1, <4>1 DEF NeedsGitMerge, SameBody, HunkMerge, ScalarMerge, Diverged
      <4>2. CASE SameBody(s, b)
        BY <3>1, <4>2 DEF NeedsGitMerge, SameBody, HunkMerge, ScalarMerge, Diverged
      <4>3. CASE SameBody(c, b)
        BY <4>3 DEF NeedsGitMerge
      <4>. QED BY <2>2, <4>1, <4>2, <4>3 DEF NeedsGitMerge
    <3>. QED BY <1>1, <3>2, <3>3 DEF MergedRegion
  <2>. QED BY <2>1, <2>2
<1>2. CASE r \notin BodyHunks /\ r \in SetFields
  BY <1>2, SetMergeTwice DEF MergedRegion
<1>3. CASE r \notin BodyHunks /\ r \notin SetFields
  BY <1>3 DEF MergedRegion, ScalarMerge
<1>. QED BY <1>1, <1>2, <1>3

LEMMA MergeTwice ==
  ASSUME NEW b \in {OldVersion, NoFile}, NEW s, NEW c \in Versions("client"),
         NEW ok \in BOOLEAN, kind = "post" => \A h \in BodyHunks : s.fields[h] # {}
  PROVE  LET m == Computed(b, s, c, ok).merged
         IN  /\ Computed(b, m, c, ok).merged.fields = m.fields
             /\ kind = "post" => \A h \in BodyHunks : m.fields[h] # {}
<1>. DEFINE m == Computed(b, s, c, ok).merged
<1>1. \A h \in BodyHunks : c.fields[h] # {}
  BY HunksAreSmall
<1>2. CASE b = NoFile
  BY <1>1, <1>2 DEF Computed, MergePost, MergeLabels
<1>3. CASE b # NoFile
  <2>1. \A h \in BodyHunks : b.fields[h] = {0}
    BY <1>3 DEF OldVersion, Version, Regions
  <2>2. CASE kind = "post"
    <3>1. m.fields = [r \in Regions |-> MergedRegion(b, s, c, ok, r)]
      BY <1>3, <2>2, PostMerged DEF Computed
    <3>2. Computed(b, m, c, ok).merged.fields = [r \in Regions |-> MergedRegion(b, m, c, ok, r)]
      BY <1>3, <2>2, PostMerged DEF Computed
    <3>. HIDE DEF m
    <3>3. \A r \in Regions : MergedRegion(b, m, c, ok, r) = m.fields[r]
      <4>1. FullHunks(b, s, c)
        BY <1>1, <2>1, <2>2 DEF FullHunks
      <4>2. IsMerged(m, b, s, c, ok)
        BY <3>1 DEF IsMerged
      <4>3. ASSUME NEW r \in Regions PROVE MergedRegion(b, m, c, ok, r) = m.fields[r]
        BY <4>1, <4>2, MergedRegionTwice
      <4>. QED BY <4>3
    <3>4. Computed(b, m, c, ok).merged.fields = m.fields
      BY <3>1, <3>2, <3>3
    <3>5. \A h \in BodyHunks : m.fields[h] # {}
      BY <1>1, <2>2, <3>1, HunkKeepsText DEF MergedRegion, Regions
    <3>. QED BY <3>4, <3>5 DEF m
  <2>3. CASE kind # "post"
    <3>1. m.fields = [r \in Regions |-> LabelMerge(b.fields[r], s.fields[r], c.fields[r])]
      BY <1>3, <2>3, LabelsMerged DEF Computed
    <3>2. Computed(b, m, c, ok).merged.fields =
            [r \in Regions |-> LabelMerge(b.fields[r], m.fields[r], c.fields[r])]
      BY <1>3, <2>3, LabelsMerged DEF Computed
    <3>. HIDE DEF m
    <3>3. Computed(b, m, c, ok).merged.fields = m.fields
      BY <3>1, <3>2, LabelTwice
    <3>. QED BY <2>3, <3>3 DEF m
  <2>. QED BY <2>2, <2>3
<1>. QED BY <1>2, <1>3

LEMMA MergeKeeps == CaseInv /\ Merge => CaseInv'
<1>. SUFFICES ASSUME CaseInv, Merge PROVE CaseInv'
  OBVIOUS
<1>1. kind' = kind /\ given' = given /\ gitOk' = gitOk /\ kind \in {"post", "labels"}
  BY DEF Merge
<1>2. result' = Computed(given.base, given.server, given.client, gitOk)
  BY DEF Merge, Computed
<1>3. Computed(given.base, given.server, given.client, gitOk)'
        = Computed(given.base, given.server, given.client, gitOk)
  BY <1>1 DEF Computed
<1>. QED BY <1>1, <1>2, <1>3 DEF CaseInv

LEMMA RetryKeeps ==
  ASSUME CaseInv, Retry
  PROVE  CaseInv' /\ result'.merged.fields = result.merged.fields
<1>. DEFINE m == Computed(given.base, given.server, given.client, gitOk).merged
<1>1. /\ kind' = kind /\ gitOk' = gitOk /\ result # NotYet /\ kind \in {"post", "labels"}
      /\ given' = [given EXCEPT !.server = result.merged]
  BY DEF Retry, CaseInv
<1>2. result = Computed(given.base, given.server, given.client, gitOk)
  BY <1>1 DEF CaseInv
<1>3. /\ given'.base = given.base /\ given'.client = given.client /\ given'.server = m
      /\ given' = [client |-> given'.client, base |-> given'.base, server |-> given'.server]
  BY <1>1, <1>2 DEF CaseInv
<1>4. result' = Computed(given.base, m, given.client, gitOk)
  <2>1. CASE kind = "post"
    BY <1>2, <2>1 DEF Retry, Computed
  <2>2. CASE kind = "labels"
    <3>1. result = [merged |-> m, bodyConflict |-> FALSE, fieldConflicts |-> {}]
      BY <1>2, <2>2 DEF Computed
    <3>2. result' = [result EXCEPT !.merged = MergeLabels(given.base, result.merged, given.client)]
      BY <2>2 DEF Retry
    <3>3. result.merged = m
      BY <3>1
    <3>. HIDE DEF m
    <3>4. result' = [merged |-> MergeLabels(given.base, m, given.client),
                     bodyConflict |-> FALSE, fieldConflicts |-> {}]
      BY <3>1, <3>2, <3>3
    <3>. QED BY <2>2, <3>4 DEF Computed
  <2>. QED BY <1>1, <2>1, <2>2
<1>5. /\ Computed(given.base, m, given.client, gitOk).merged.fields = m.fields
      /\ kind = "post" => \A h \in BodyHunks : m.fields[h] # {}
  BY <1>1, MergeTwice DEF CaseInv
<1>. HIDE DEF m
<1>6. Computed(given.base, given.server, given.client, gitOk)'
        = Computed(given.base, m, given.client, gitOk)
  BY <1>1, <1>3 DEF Computed
<1>7. CaseInv'
  BY <1>1, <1>3, <1>4, <1>5, <1>6 DEF CaseInv
<1>8. result'.merged.fields = result.merged.fields
  BY <1>2, <1>4, <1>5 DEF m
<1>. QED BY <1>7, <1>8

LEMMA CaseStep == CaseInv /\ [CaseNext]_caseVars => CaseInv'
<1>1. CaseInv /\ UNCHANGED caseVars => CaseInv'
  BY DEF CaseInv, caseVars, Computed
<1>. QED BY <1>1, MergeKeeps, RetryKeeps DEF CaseNext

-----------------------------------------------------------------------------
(* The properties of the cases.                                             *)

LEMMA CasesInvariant == CaseSpec => []CaseInv
BY InitCases, CaseStep, PTL DEF CaseSpec

\* Every input is planned by the three-way rule, a missing file being one more
\* value, and lands in exactly one list (compute_sync_plan).
THEOREM EveryPathIsPlannedThreeWay == CaseSpec => []PlanIsThreeWay
<1>1. CaseInv => PlanIsThreeWay
  <2>. SUFFICES ASSUME CaseInv, kind = "plan" PROVE PlanIsThreeWay
    BY DEF PlanIsThreeWay
  <2>. DEFINE C == given.client  M == given.base  S == given.server
              c == C["path"]  m == M["path"]  s == S["path"]
              plan == ComputeSyncPlan(C, M, S)
              lists == {l \in PlanLists : "path" \in plan[l]}
              rule == IF c = NoFile /\ m = NoFile /\ s = NoFile THEN {}
                      ELSE IF c = s THEN {"noChange"}
                      ELSE IF s = m THEN {IF c = NoFile THEN "toDeleteRemote" ELSE "toUpload"}
                      ELSE IF c = m THEN {IF s = NoFile THEN "toDeleteLocal" ELSE "toDownload"}
                      ELSE IF c = NoFile \/ s = NoFile THEN {"deleteModify"}
                      ELSE {"conflicts"}
  <2>1. "path" \in DOMAIN C
    BY DEF CaseInv, PlanStates
  <2>2. "path" \in plan["toUpload"] <=> "toUpload" \in rule
    BY <2>1 DEF ComputeSyncPlan, ToUpload, InAll
  <2>3. "path" \in plan["toDownload"] <=> "toDownload" \in rule
    BY <2>1 DEF ComputeSyncPlan, ToDownload, InAll
  <2>4. "path" \in plan["toDeleteLocal"] <=> "toDeleteLocal" \in rule
    BY <2>1 DEF ComputeSyncPlan, ToDeleteLocal
  <2>5. "path" \in plan["toDeleteRemote"] <=> "toDeleteRemote" \in rule
    BY <2>1 DEF ComputeSyncPlan, ToDeleteRemote
  <2>6. "path" \in plan["conflicts"] <=> "conflicts" \in rule
    BY <2>1 DEF ComputeSyncPlan, MergeConflicts, InAll
  <2>7. "path" \in plan["deleteModify"] <=> "deleteModify" \in rule
    BY <2>1 DEF ComputeSyncPlan, DeleteModifyConflicts
  <2>8. "path" \in plan["noChange"] <=> "noChange" \in rule
    BY <2>1 DEF ComputeSyncPlan, NoChange, InAll
  <2>9. rule \subseteq PlanLists
    BY DEF PlanLists
  <2>. HIDE DEF plan, rule
  <2>10. \A l \in PlanLists : "path" \in plan[l] <=> l \in rule
    BY <2>2, <2>3, <2>4, <2>5, <2>6, <2>7, <2>8 DEF PlanLists
  <2>11. lists = rule
    BY <2>9, <2>10
  <2>. QED BY <2>11 DEF PlanIsThreeWay, plan, rule
<1>. QED BY <1>1, CasesInvariant, PTL

\* What a merge with a base is made of
LEMMA ResultOfPost ==
  ASSUME CaseInv, Merged3, kind = "post"
  PROVE  /\ \A r \in Regions : result.merged.fields[r] =
              MergedRegion(given.base, given.server, given.client, gitOk, r)
         /\ result.bodyConflict = BodyConflict(given.base, given.server, given.client, gitOk)
         /\ result.fieldConflicts = {f \in ReportedFields :
              Diverged(given.base.fields[f], given.server.fields[f], given.client.fields[f])}
<1>. DEFINE b == given.base  s == given.server  c == given.client
<1>1. result = MergePost(b, s, c, gitOk) /\ b # NoFile
  BY DEF CaseInv, Merged3, Computed
<1>. HIDE DEF b, s, c
<1>2. result = [merged         |-> [fields   |-> [r \in Regions |-> MergedRegion(b, s, c, gitOk, r)],
                                   modified |-> 0],
                bodyConflict   |-> BodyConflict(b, s, c, gitOk),
                fieldConflicts |-> {f \in ReportedFields :
                                      Diverged(b.fields[f], s.fields[f], c.fields[f])}]
  BY <1>1 DEF MergePost
<1>3. /\ \A r \in Regions : result.merged.fields[r] = MergedRegion(b, s, c, gitOk, r)
      /\ result.bodyConflict = BodyConflict(b, s, c, gitOk)
      /\ result.fieldConflicts = {f \in ReportedFields :
            Diverged(b.fields[f], s.fields[f], c.fields[f])}
  BY <1>2
<1>. QED BY <1>3 DEF b, s, c

LEMMA ResultOfLabels ==
  ASSUME CaseInv, Merged3, kind # "post"
  PROVE  /\ kind = "labels"
         /\ \A r \in Regions : result.merged.fields[r] =
              LabelMerge(given.base.fields[r], given.server.fields[r], given.client.fields[r])
<1>1. /\ kind = "labels" /\ given.base # NoFile /\ given.client \in Versions("client")
      /\ result = Computed(given.base, given.server, given.client, gitOk)
  BY DEF CaseInv, Merged3
<1>2. result.merged = MergeLabels(given.base, given.server, given.client)
  BY <1>1 DEF Computed
<1>. DEFINE b == given.base  s == given.server  c == given.client
<1>3. MergeLabels(b, s, c).fields =
        [r \in Regions |-> LabelMerge(b.fields[r], s.fields[r], c.fields[r])]
  BY <1>1, LabelsMerged
<1>4. result.merged = MergeLabels(b, s, c)
  BY <1>2
<1>. HIDE DEF b, s, c
<1>5. \A r \in Regions : result.merged.fields[r] = LabelMerge(b.fields[r], s.fields[r], c.fields[r])
  BY <1>3, <1>4
<1>. QED BY <1>1, <1>5 DEF b, s, c

\* In every merge with a base, a region only one side changed is as that side
\* left it, whatever happens in the others (merge_post_file, merge_labels_toml).
THEOREM MergesKeepOneSidedChanges == CaseSpec => []OneSidedChangesSurvive
<1>1. CaseInv => OneSidedChangesSurvive
  <2>. SUFFICES ASSUME CaseInv, Merged3, NEW r \in Regions
                PROVE  LET b == given.base.fields[r]
                           s == given.server.fields[r]
                           c == given.client.fields[r]
                           reported == r \in BodyHunks /\ ~gitOk /\ result.bodyConflict
                       IN  /\ s = b => result.merged.fields[r] = c \/ reported
                           /\ c = b => result.merged.fields[r] = s
    BY DEF OneSidedChangesSurvive
  <2>. DEFINE b == given.base.fields[r]
              s == given.server.fields[r]
              c == given.client.fields[r]
  <2>1. CASE kind = "post"
    <3>1. result.merged.fields[r] =
            MergedRegion(given.base, given.server, given.client, gitOk, r)
      BY <2>1, ResultOfPost
    <3>2. CASE r \in BodyHunks /\ NeedsGitMerge(given.base, given.server, given.client) /\ ~gitOk
      <4>1. result.bodyConflict
        BY <2>1, <3>2, ResultOfPost DEF BodyConflict
      <4>2. result.merged.fields[r] = s
        BY <3>1, <3>2 DEF MergedRegion
      <4>. QED BY <3>2, <4>1, <4>2
    <3>3. CASE ~(r \in BodyHunks /\ NeedsGitMerge(given.base, given.server, given.client) /\ ~gitOk)
      <4>1. result.merged.fields[r] \in
              {HunkMerge(b, s, c), SetMerge(b, s, c), ScalarMerge(b, s, c)}
        BY <3>1, <3>3 DEF MergedRegion
      <4>. QED BY <4>1, RegionOneSided, SetMergeOneSided
    <3>. QED BY <3>2, <3>3
  <2>2. CASE kind # "post"
    BY <2>2, ResultOfLabels, RegionOneSided
  <2>. QED BY <2>1, <2>2
<1>. QED BY <1>1, CasesInvariant, PTL

\* In every merge of a post with a base, a tag both sides kept or one of them
\* added is there, and no other (the labels branch of merge_frontmatter).
THEOREM TagsAreMergedByMembership == CaseSpec => []TagsMergeByMembership
<1>1. CaseInv => TagsMergeByMembership
  <2>. SUFFICES ASSUME CaseInv, Merged3, kind = "post", NEW r \in SetFields, NEW t \in 0 .. 2
                PROVE  LET s == t \in given.server.fields[r]
                           c == t \in given.client.fields[r]
                       IN  t \in result.merged.fields[r] <=>
                             IF t \in given.base.fields[r] THEN s /\ c ELSE s \/ c
    BY DEF TagsMergeByMembership
  <2>1. r \in Regions /\ r \notin BodyHunks
    BY RegionsAssumption DEF Regions
  <2>2. result.merged.fields[r] =
          SetMerge(given.base.fields[r], given.server.fields[r], given.client.fields[r])
    BY <2>1, ResultOfPost DEF MergedRegion
  <2>. QED BY <2>2 DEF SetMerge
<1>. QED BY <1>1, CasesInvariant, PTL

\* In every merge, what the client wrote is kept or the file is reported, but
\* for the fields resolved without a report and labels the server removed.
THEOREM ClientTextIsKeptOrReported == CaseSpec => []ClientTextKeptOrReported
<1>1. CaseInv => ClientTextKeptOrReported
  <2>. SUFFICES ASSUME CaseInv, result # NotYet, ~Conflicted(result), NEW r \in Regions
                PROVE  \/ given.client.fields[r] \subseteq result.merged.fields[r] \cup
                            (IF given.base = NoFile THEN {} ELSE given.base.fields[r])
                       \/ kind = "post" /\ r \in OtherFields
                       \/ kind = "labels" /\ given.base # NoFile /\ given.server.fields[r] = {}
    BY DEF ClientTextKeptOrReported
  <2>1. result = Computed(given.base, given.server, given.client, gitOk)
    BY DEF CaseInv
  <2>2. CASE given.base = NoFile
    <3>1. kind # "post"
      BY <2>1, <2>2 DEF Computed, MergePost, Conflicted
    <3>2. result.merged = given.client
      BY <2>1, <2>2, <3>1 DEF Computed, MergeLabels
    <3>. QED BY <3>2
  <2>3. CASE given.base # NoFile
    <3>. DEFINE b == given.base.fields[r]
                s == given.server.fields[r]
                c == given.client.fields[r]
    <3>1. Merged3
      BY <2>3 DEF Merged3
    <3>2. CASE kind = "post"
      <4>1. result.merged.fields[r] =
              MergedRegion(given.base, given.server, given.client, gitOk, r)
        BY <3>1, <3>2, ResultOfPost
      <4>2. /\ ~BodyConflict(given.base, given.server, given.client, gitOk)
            /\ \A f \in ReportedFields :
                 ~Diverged(given.base.fields[f], given.server.fields[f], given.client.fields[f])
        BY <3>1, <3>2, ResultOfPost DEF Conflicted
      <4>3. ~Diverged(b, s, c) => c \subseteq ScalarMerge(b, s, c) \cup b
        BY DEF Diverged, ScalarMerge
      <4>4. CASE r \in BodyHunks
        <5>1. ~(NeedsGitMerge(given.base, given.server, given.client) /\ ~gitOk)
          BY <4>2 DEF BodyConflict
        <5>2. ~Diverged(b, s, c)
          BY <4>2, <4>4, <5>1 DEF BodyConflict, NeedsGitMerge, SameBody, Diverged
        <5>3. result.merged.fields[r] = ScalarMerge(b, s, c)
          BY <4>1, <4>4, <5>1, <5>2 DEF MergedRegion, HunkMerge
        <5>. QED BY <2>3, <4>3, <5>2, <5>3
      <4>5. CASE r \in SetFields
        <5>1. result.merged.fields[r] = SetMerge(b, s, c)
          BY <4>1, <4>5, RegionsAssumption DEF MergedRegion
        <5>2. c \subseteq SetMerge(b, s, c) \cup b
          BY DEF SetMerge
        <5>. QED BY <2>3, <5>1, <5>2
      <4>6. CASE r \in ReportedFields
        <5>1. result.merged.fields[r] = ScalarMerge(b, s, c)
          BY <4>1, <4>6, RegionsAssumption DEF MergedRegion
        <5>. QED BY <2>3, <4>2, <4>3, <4>6, <5>1
      <4>. QED BY <3>2, <4>4, <4>5, <4>6 DEF Regions
    <3>3. CASE kind # "post"
      <4>1. kind = "labels" /\ result.merged.fields[r] = LabelMerge(b, s, c)
        BY <3>1, <3>3, ResultOfLabels
      <4>2. c \subseteq LabelMerge(b, s, c) \cup b \/ s = {}
        BY DEF LabelMerge, SetMerge
      <4>. QED BY <2>3, <4>1, <4>2
    <3>. QED BY <3>2, <3>3
  <2>. QED BY <2>2, <2>3
<1>. QED BY <1>1, CasesInvariant, PTL

\* Repeating an upload whose answer was lost leaves the fields of the merge as
\* they are, for any texts (merge_post_file, merge_labels_toml).
THEOREM RepeatedUploadsChangeNothing == CaseSpec => RetryChangesNothing
<1>1. CaseInv /\ [CaseNext]_caseVars => [Retry => result'.merged.fields = result.merged.fields]_caseVars
  BY RetryKeeps
<1>. QED BY <1>1, CasesInvariant, PTL DEF CaseSpec, RetryChangesNothing

-----------------------------------------------------------------------------
(***************************************************************************)
(* Part 2.  Type correctness.  TypeOK alone is not inductive: the merges   *)
(* and the normalization read files that must be there, and the time stamp *)
(* they write must be in range; both depend on what earlier steps of the   *)
(* same commit request did.                                                *)
(***************************************************************************)

\* Every upload has a content, and a file that was uploaded is there: deletions come
\* first, and nobody else writes while the commit holds the lock
UploadsPresent ==
  commit # NoCommit =>
    /\ \A p \in commit.toUpload : commit.uploads[p] # NoFile
    /\ \A p \in commit.uploaded : files[p] # NoFile
    /\ commit.uploaded # {} => commit.toDelete = {}

\* The bound on the clock leaves room for the stamp of a request with uploads
ClockRoom ==
  commit # NoCommit /\ (commit.toUpload # {} \/ commit.uploaded # {}) /\ ~commit.normalized
    => now < MaxNow

TypeInv == TypeOK /\ UploadsPresent /\ ClockRoom

-----------------------------------------------------------------------------
(* What the operators of SyncMerge return.                                  *)

LEMMA RegionTypes ==
  ASSUME NEW b \in SUBSET Tokens, NEW s \in SUBSET Tokens, NEW c \in SUBSET Tokens
  PROVE  /\ ScalarMerge(b, s, c) \in SUBSET Tokens
         /\ SetMerge(b, s, c) \in SUBSET Tokens
         /\ LabelMerge(b, s, c) \in SUBSET Tokens
         /\ HunkMerge(b, s, c) \in SUBSET Tokens
<1>1. ScalarMerge(b, s, c) \in SUBSET Tokens
  BY DEF ScalarMerge
<1>2. SetMerge(b, s, c) \in SUBSET Tokens
  BY DEF SetMerge
<1>3. LabelMerge(b, s, c) \in SUBSET Tokens
  BY <1>2 DEF LabelMerge
<1>4. HunkMerge(b, s, c) \in SUBSET Tokens
  BY <1>1 DEF HunkMerge
<1> QED BY <1>1, <1>2, <1>3, <1>4

LEMMA MergedRegionType ==
  ASSUME NEW b \in Content, NEW s \in Content, NEW c \in Content,
         NEW gitWorks \in BOOLEAN, NEW r \in Regions
  PROVE  MergedRegion(b, s, c, gitWorks, r) \in SUBSET Tokens
<1>1. /\ b.fields[r] \in SUBSET Tokens
      /\ s.fields[r] \in SUBSET Tokens
      /\ c.fields[r] \in SUBSET Tokens
  BY DEF Content
<1>2. /\ HunkMerge(b.fields[r], s.fields[r], c.fields[r]) \in SUBSET Tokens
      /\ SetMerge(b.fields[r], s.fields[r], c.fields[r]) \in SUBSET Tokens
      /\ ScalarMerge(b.fields[r], s.fields[r], c.fields[r]) \in SUBSET Tokens
  BY <1>1, RegionTypes
<1> QED BY <1>1, <1>2 DEF MergedRegion

LEMMA MergePostType ==
  ASSUME NEW b \in State, NEW s \in Content, NEW c \in Content, NEW gitWorks \in BOOLEAN
  PROVE  MergePost(b, s, c, gitWorks).merged \in Content
<1>1. CASE b = NoFile
  BY <1>1 DEF MergePost
<1>2. CASE b # NoFile
  <2>1. b \in Content
    BY <1>2 DEF State
  <2>2. [r \in Regions |-> MergedRegion(b, s, c, gitWorks, r)] \in [Regions -> SUBSET Tokens]
    BY <2>1, MergedRegionType
  <2>3. 0 \in 0 .. MaxNow
    BY ProtocolAssumption
  <2>4. [fields |-> [r \in Regions |-> MergedRegion(b, s, c, gitWorks, r)], modified |-> 0]
          \in Content
    BY <2>2, <2>3 DEF Content
  <2> QED BY <1>2, <2>4 DEF MergePost
<1> QED BY <1>1, <1>2

LEMMA MergeLabelsType ==
  ASSUME NEW b \in State, NEW s \in Content, NEW c \in Content
  PROVE  MergeLabels(b, s, c) \in Content
<1>1. CASE b = NoFile
  BY <1>1 DEF MergeLabels
<1>2. CASE b # NoFile
  <2>1. b \in Content
    BY <1>2 DEF State
  <2>2. ASSUME NEW r \in Regions
        PROVE  LabelMerge(b.fields[r], s.fields[r], c.fields[r]) \in SUBSET Tokens
    <3>1. /\ b.fields[r] \in SUBSET Tokens
          /\ s.fields[r] \in SUBSET Tokens
          /\ c.fields[r] \in SUBSET Tokens
      BY <2>1 DEF Content
    <3> QED BY <3>1, RegionTypes
  <2>3. [r \in Regions |-> LabelMerge(b.fields[r], s.fields[r], c.fields[r])]
          \in [Regions -> SUBSET Tokens]
    BY <2>2
  <2> QED BY <1>2, <2>3 DEF MergeLabels, Content
<1> QED BY <1>1, <1>2

LEMMA PlanType ==
  ASSUME NEW c \in Trees, NEW m, NEW s
  PROVE  ComputeSyncPlan(c, m, s) \in Plans(Paths)
<1>1. /\ ToUpload(c, m, s) \subseteq Paths
      /\ ToDownload(c, m, s) \subseteq Paths
      /\ ToDeleteLocal(c, m, s) \subseteq Paths
      /\ ToDeleteRemote(c, m, s) \subseteq Paths
      /\ MergeConflicts(c, m, s) \subseteq Paths
      /\ DeleteModifyConflicts(c, m, s) \subseteq Paths
      /\ NoChange(c, m, s) \subseteq Paths
  BY DEF Trees, ToUpload, ToDownload, ToDeleteLocal, ToDeleteRemote, MergeConflicts,
         DeleteModifyConflicts, NoChange
<1> QED BY <1>1 DEF ComputeSyncPlan, Plans, PlanLists

-----------------------------------------------------------------------------
(* Contents, sessions and the commit request.                               *)

LEMMA EditsType ==
  ASSUME TypeOK, used < MaxToken, NEW x \in State, NEW after \in Edits(x)
  PROVE  after \in State
<1>1. Fresh \in Tokens
  BY ProtocolAssumption DEF Fresh, Tokens, TypeOK
<1>2. CASE after = NoFile
  BY <1>2 DEF State
<1>3. CASE after = NewContent
  <2>1. 0 \in 0 .. MaxNow
    BY ProtocolAssumption
  <2>2. NewContent \in Content
    BY <1>1, <2>1 DEF NewContent, Content
  <2> QED BY <1>3, <2>2 DEF State
<1>4. ASSUME x # NoFile, NEW r \in Regions, after = Rewrite(x, r)
      PROVE  after \in State
  <2>1. x \in Content
    BY <1>4 DEF State
  <2>2. x.fields[r] \cup {Fresh} \in SUBSET Tokens /\ {Fresh} \in SUBSET Tokens
    BY <1>1, <2>1 DEF Content
  <2>3. Rewrite(x, r) \in Content
    BY <2>1, <2>2 DEF Rewrite, Content
  <2> QED BY <1>4, <2>3 DEF State
<1>5. ASSUME x # NoFile, NEW r \in Regions, after = Erase(x, r)
      PROVE  after \in State
  <2>1. x \in Content
    BY <1>5 DEF State
  <2>2. Erase(x, r) \in Content
    BY <2>1 DEF Erase, Content
  <2> QED BY <1>5, <2>2 DEF State
<1> QED BY <1>2, <1>3, <1>4, <1>5 DEF Edits

LEMMA TextsType ==
  ASSUME NEW x \in State
  PROVE  TextsOf(x) \subseteq Texts
<1>1. CASE x = NoFile
  BY <1>1 DEF TextsOf
<1>2. CASE x # NoFile
  <2>1. \A r \in Regions : x.fields[r] \subseteq Tokens
    BY <1>2 DEF State, Content
  <2> QED BY <1>2, <2>1 DEF TextsOf, Texts
<1> QED BY <1>1, <1>2

LEMMA AuthorType ==
  ASSUME TypeOK, Fresh \in Tokens, NEW before \in State, NEW after, Author(before, after)
  PROVE  used' \in Tokens /\ superseded' \subseteq Texts
<1>1. TextsOf(before) \subseteq Texts /\ Regions \X {Fresh} \subseteq Texts
  BY TextsType DEF Texts
<1> QED BY <1>1 DEF Author, TypeOK

LEMMA IdleSessionType == IdleSession \in Sessions
BY DEF IdleSession, Sessions, Phases, Plans

LEMMA DisturbType ==
  ASSUME TypeOK
  PROVE  Disturb \in [Clients -> Sessions]
<1>1. ASSUME NEW c \in Clients
      PROVE  [session[c] EXCEPT !.undisturbed = FALSE] \in Sessions
  BY DEF TypeOK, Sessions
<1> QED BY <1>1 DEF Disturb, TypeOK

LEMMA RememberType ==
  ASSUME TypeOK, commit # NoCommit, NEW p \in Paths
  PROVE  /\ Remember(p) \in CommitRequest
         /\ \A f \in {"client", "base", "uploads", "named", "toDelete", "toUpload", "uploaded",
                      "toDownload", "conflicts", "normalized"} : Remember(p)[f] = commit[f]
<1>1. commit \in CommitRequest /\ files[p] \in State
  BY DEF TypeOK, Trees
<1> QED BY <1>1 DEF Remember, CommitRequest

LEMMA UploadedType ==
  ASSUME TypeOK, commit # NoCommit, NEW p \in Paths, NEW conflict \in BOOLEAN
  PROVE  /\ Uploaded(p) \in CommitRequest
         /\ Merged(p, conflict) \in CommitRequest
         /\ Uploaded(p).normalized = commit.normalized
         /\ Merged(p, conflict).normalized = commit.normalized
<1>1. Uploaded(p) \in CommitRequest /\ Uploaded(p).normalized = commit.normalized
  BY RememberType DEF Uploaded, CommitRequest
<1> QED BY <1>1 DEF Merged, CommitRequest

LEMMA BasesType ==
  ASSUME TypeOK, commit # NoCommit, NEW p \in Paths, NEW b \in Bases(p)
  PROVE  b \in State
<1>1. commit.base \in Trees \cup {NoTree}
  BY DEF TypeOK, CommitRequest
<1> QED BY <1>1 DEF Bases, State, Trees

LEMMA UploadType ==
  ASSUME TypeOK, NEW p \in Paths, UploadReady(p)
  PROVE  commit # NoCommit /\ commit \in CommitRequest /\ commit.uploads[p] \in State
BY DEF TypeOK, UploadReady, CommitRequest, Trees

-----------------------------------------------------------------------------
(* TypeInv is inductive.                                                    *)

LEMMA TypeInvInit == Init => TypeInv
<1> SUFFICES ASSUME Init PROVE TypeInv
  OBVIOUS
<1>1. 0 \in Tokens /\ 0 \in 0 .. MaxNow
  BY ProtocolAssumption DEF Tokens
<1>2. InitialContent \in State /\ NoFile \in State
  BY <1>1 DEF InitialContent, Content, State
<1>3. files \in Trees /\ NoTreeFiles \in Trees
  BY <1>2 DEF Init, Trees, NoTreeFiles
<1>4. manifest \in Trees /\ local \in [Clients -> Trees]
  BY <1>3 DEF Init
<1>5. base \in [Clients -> Trees \cup {NoTree}] /\ edited \in [Clients -> SUBSET Paths]
  BY <1>3 DEF Init
<1>6. session \in [Clients -> Sessions] /\ backups \in [Clients -> SUBSET Content]
  BY IdleSessionType DEF Init
<1>7. TypeOK
  BY <1>1, <1>3, <1>4, <1>5, <1>6 DEF Init, TypeOK
<1> QED BY <1>7 DEF Init, TypeInv, UploadsPresent, ClockRoom

LEMMA LocalEditType ==
  ASSUME TypeInv, NEW c \in Clients, NEW p \in Paths, LocalEdit(c, p)
  PROVE  TypeInv'
<1> USE DEF TypeInv
<1>1. PICK after \in Edits(local[c][p]) :
        Author(local[c][p], after) /\ local' = [local EXCEPT ![c][p] = after]
  BY DEF LocalEdit
<1>2. after \in State
  <2>1. local[c][p] \in State
    BY DEF TypeOK, Trees
  <2> QED BY <1>1, <2>1, EditsType DEF Author
<1>3. used' \in Tokens /\ superseded' \subseteq Texts
  <2>1. Fresh \in Tokens
    BY <1>1, ProtocolAssumption DEF Author, Fresh, Tokens, TypeOK
  <2>2. local[c][p] \in State
    BY DEF TypeOK, Trees
  <2> QED BY <1>1, <2>1, <2>2, AuthorType
<1>4. local' \in [Clients -> Trees]
  BY <1>1, <1>2 DEF TypeOK, Trees
<1>5. session' \in [Clients -> Sessions]
  <2>1. [session[c] EXCEPT !.undisturbed = FALSE] \in Sessions
    BY DEF TypeOK, Sessions
  <2> QED BY <2>1 DEF LocalEdit, TypeOK
<1>6. edited' \in [Clients -> SUBSET Paths]
  BY DEF LocalEdit, TypeOK
<1>7. TypeOK'
  BY <1>3, <1>4, <1>5, <1>6 DEF TypeOK, LocalEdit, serverVars
<1>8. UploadsPresent' /\ ClockRoom'
  BY DEF LocalEdit, serverVars, UploadsPresent, ClockRoom
<1> QED BY <1>7, <1>8

LEMMA WebEditType ==
  ASSUME TypeInv, NEW p \in Paths, WebEdit(p)
  PROVE  TypeInv'
<1> USE DEF TypeInv
<1>1. PICK after \in Edits(files[p]) :
        /\ Author(files[p], after)
        /\ files' = [files EXCEPT ![p] =
             IF after # NoFile /\ p \in PostPaths THEN [after EXCEPT !.modified = now + 1]
             ELSE after]
        /\ now' = IF after # NoFile /\ p \in PostPaths THEN now + 1 ELSE now
  BY DEF WebEdit
<1>2. after \in State /\ files[p] \in State
  <2>1. files[p] \in State
    BY DEF TypeOK, Trees
  <2> QED BY <1>1, <2>1, EditsType DEF Author
<1>3. used' \in Tokens /\ superseded' \subseteq Texts
  <2>1. Fresh \in Tokens
    BY <1>1, ProtocolAssumption DEF Author, Fresh, Tokens, TypeOK
  <2> QED BY <1>1, <1>2, <2>1, AuthorType
<1>4. now + 1 \in 0 .. MaxNow
  BY ProtocolAssumption DEF WebEdit, TypeOK
<1>5. files' \in Trees
  <2>1. after # NoFile => [after EXCEPT !.modified = now + 1] \in State
    BY <1>2, <1>4 DEF State, Content
  <2> QED BY <1>1, <1>2, <2>1 DEF TypeOK, Trees
<1>6. now' \in 0 .. MaxNow
  BY <1>1, <1>4 DEF TypeOK
<1>7. session' \in [Clients -> Sessions]
  BY DisturbType DEF WebEdit
<1>8. TypeOK'
  BY <1>3, <1>5, <1>6, <1>7 DEF TypeOK, WebEdit
<1>9. UploadsPresent' /\ ClockRoom'
  BY DEF WebEdit, UploadsPresent, ClockRoom
<1> QED BY <1>8, <1>9

LEMMA StatusType ==
  ASSUME TypeInv, NEW c \in Clients, Status(c) \/ Cancel(c)
  PROVE  TypeInv'
<1> USE DEF TypeInv
<1>1. ComputeSyncPlan(local[c], manifest, files) \in Plans(Paths)
  BY PlanType DEF TypeOK
<1>2. [IdleSession EXCEPT !.phase = "planned",
         !.plan = ComputeSyncPlan(local[c], manifest, files)] \in Sessions
  BY <1>1, IdleSessionType DEF Sessions, Phases
<1>3. session' \in [Clients -> Sessions]
  BY <1>2, IdleSessionType DEF Status, Cancel, TypeOK
<1>4. TypeOK'
  BY <1>3 DEF TypeOK, Status, Cancel, serverVars, ghostVars
<1>5. UploadsPresent' /\ ClockRoom'
  BY DEF Status, Cancel, serverVars, UploadsPresent, ClockRoom
<1> QED BY <1>4, <1>5

LEMMA StartCommitRequest ==
  ASSUME TypeInv, NEW c \in Clients, StartCommit(c)
  PROVE  commit' \in CommitRequest /\ UploadPaths(c) \subseteq Paths
<1> USE DEF TypeInv
<1>1. /\ session[c] \in Sessions
      /\ local[c] \in Trees
      /\ session[c].plan \in Plans(Paths)
  BY DEF TypeOK, Sessions
<1>2. /\ session[c].plan.toUpload \subseteq Paths
      /\ session[c].plan.conflicts \subseteq Paths
      /\ session[c].plan.deleteModify \subseteq Paths
      /\ session[c].plan.toDeleteRemote \subseteq Paths
      /\ session[c].plan.toDeleteLocal \subseteq Paths
      /\ session[c].plan.toDownload \subseteq Paths
  BY <1>1 DEF Plans, PlanLists
<1>3. UploadPaths(c) \subseteq Paths
  BY <1>2 DEF UploadPaths
<1>4. NoFile \in State
  BY DEF State
<1>5. [p \in Paths |-> IF p \in UploadPaths(c) THEN local[c][p] ELSE NoFile] \in Trees
  BY <1>1, <1>4 DEF Trees
<1>6. commit' \in CommitRequest
  <2>1. base[c] \in Trees \cup {NoTree}
    BY DEF TypeOK
  <2> QED BY <1>2, <1>3, <1>5, <2>1 DEF StartCommit, CommitRequest
<1> QED BY <1>3, <1>6

LEMMA StartCommitType ==
  ASSUME TypeInv, NEW c \in Clients, StartCommit(c)
  PROVE  TypeInv'
<1> USE DEF TypeInv
<1>1. session[c] \in Sessions /\ session[c].plan \in Plans(Paths)
  BY DEF TypeOK, Sessions
<1>2. /\ session[c].plan.toDeleteLocal \subseteq Paths
      /\ session[c].plan.toDownload \subseteq Paths
      /\ session[c].plan.deleteModify \subseteq Paths
  BY <1>1 DEF Plans, PlanLists
<1>3. UploadPaths(c) \subseteq Paths /\ KeepServer(c) \subseteq Paths
  BY <1>2, StartCommitRequest DEF KeepServer
<1>4. commit' \in CommitRequest
  BY StartCommitRequest
<1>5. session' \in [Clients -> Sessions]
  <2>1. IdleSession.plan \in Plans(Paths)
    BY IdleSessionType DEF Sessions
  <2>2. [session[c] EXCEPT !.phase = "committing",
           !.downloads = @ \cup session[c].plan.toDownload \cup KeepServer(c),
           !.deletes = session[c].plan.toDeleteLocal,
           !.plan = IdleSession.plan] \in Sessions
    BY <1>1, <1>2, <1>3, <2>1 DEF Sessions, Phases
  <2> QED BY <2>2, DisturbType DEF StartCommit
<1>6. TypeOK'
  BY <1>4, <1>5 DEF TypeOK, StartCommit, ghostVars
<1>7. UploadsPresent' /\ ClockRoom'
  <2>1. \A p \in UploadPaths(c) : local[c][p] # NoFile /\ p \in Paths
    BY <1>3 DEF UploadPaths
  <2> QED BY <2>1 DEF StartCommit, UploadsPresent, ClockRoom
<1> QED BY <1>6, <1>7

LEMMA ApplyDeleteType ==
  ASSUME TypeInv, NEW p \in Paths, ApplyDelete(p)
  PROVE  TypeInv'
<1> USE DEF TypeInv
<1>1. commit \in CommitRequest /\ commit # NoCommit /\ NoFile \in State
  BY DEF TypeOK, ApplyDelete, State
<1>2. PICK deleted \in {commit, Remember(p)} :
        commit' = [deleted EXCEPT !.toDelete = @ \ {p}]
  BY DEF ApplyDelete
<1>3. /\ deleted \in CommitRequest
      /\ \A f \in {"uploads", "toDelete", "toUpload", "uploaded", "normalized"} :
           deleted[f] = commit[f]
  BY <1>1, RememberType
<1>4. commit' \in CommitRequest
  BY <1>2, <1>3 DEF CommitRequest
<1>5. files' \in Trees
  BY <1>1 DEF ApplyDelete, TypeOK, Trees
<1>6. session' \in [Clients -> Sessions]
  BY DisturbType DEF ApplyDelete, TypeOK
<1>7. TypeOK'
  BY <1>4, <1>5, <1>6 DEF TypeOK, ApplyDelete, ghostVars
<1>8. /\ commit'.uploads = commit.uploads /\ commit'.toUpload = commit.toUpload
      /\ commit'.uploaded = commit.uploaded /\ commit'.normalized = commit.normalized
  BY <1>2, <1>3 DEF CommitRequest
<1>9. commit.uploaded = {}
  BY DEF ApplyDelete, UploadsPresent
<1>10. UploadsPresent' /\ ClockRoom'
  BY <1>1, <1>8, <1>9 DEF ApplyDelete, UploadsPresent, ClockRoom
<1> QED BY <1>7, <1>10

\* The three kinds of uploads change the request in the same way
LEMMA UploadStep ==
  ASSUME TypeInv, NEW p \in Paths, UploadReady(p), NEW x \in Content, NEW conflict \in BOOLEAN,
         files' = [files EXCEPT ![p] = x], now' = now,
         commit' \in {Uploaded(p), Merged(p, conflict)}
  PROVE  files' \in Trees /\ commit' \in CommitRequest /\ UploadsPresent' /\ ClockRoom'
<1> USE DEF TypeInv
<1>1. commit \in CommitRequest /\ commit # NoCommit
  BY UploadType
<1>2. files' \in Trees
  BY DEF TypeOK, Trees, State
<1>3. Remember(p) \in CommitRequest
  BY <1>1, RememberType
<1>4. /\ Remember(p).uploads = commit.uploads /\ Remember(p).toDelete = commit.toDelete
      /\ Remember(p).toUpload = commit.toUpload /\ Remember(p).uploaded = commit.uploaded
      /\ Remember(p).normalized = commit.normalized
  BY <1>1, RememberType
<1>5. /\ commit' \in CommitRequest
      /\ commit'.uploads = commit.uploads /\ commit'.toDelete = commit.toDelete
      /\ commit'.toUpload = commit.toUpload \ {p}
      /\ commit'.uploaded = commit.uploaded \cup {p}
      /\ commit'.normalized = commit.normalized
  <2>1. Uploaded(p) \in CommitRequest /\ Merged(p, conflict) \in CommitRequest
    BY <1>1, UploadedType
  <2>2. /\ Uploaded(p).uploads = commit.uploads /\ Uploaded(p).toDelete = commit.toDelete
        /\ Uploaded(p).toUpload = commit.toUpload \ {p}
        /\ Uploaded(p).uploaded = commit.uploaded \cup {p}
        /\ Uploaded(p).normalized = commit.normalized
    BY <1>3, <1>4 DEF Uploaded, CommitRequest
  <2>3. /\ Merged(p, conflict).uploads = Uploaded(p).uploads
        /\ Merged(p, conflict).toDelete = Uploaded(p).toDelete
        /\ Merged(p, conflict).toUpload = Uploaded(p).toUpload
        /\ Merged(p, conflict).uploaded = Uploaded(p).uploaded
        /\ Merged(p, conflict).normalized = Uploaded(p).normalized
    BY <2>1 DEF Merged, CommitRequest
  <2> QED BY <2>1, <2>2, <2>3
<1>6. x # NoFile /\ files \in Trees
  BY SentinelAssumption DEF TypeOK
<1>7. commit.toDelete = {}
  BY DEF UploadReady
<1>8. UploadsPresent'
  BY <1>1, <1>5, <1>6, <1>7 DEF UploadsPresent, Trees
<1>9. ClockRoom'
  BY <1>1, <1>5 DEF ClockRoom, UploadReady
<1> QED BY <1>2, <1>5, <1>8, <1>9

LEMMA UploadPostType ==
  ASSUME TypeInv, NEW p \in Paths, UploadPost(p)
  PROVE  TypeInv'
<1> USE DEF TypeInv
<1>1. PICK b \in Bases(p), gitWorks \in {TRUE} \cup {"merge" \notin Faults} :
        LET client == commit.uploads[p]
            mergeResult == MergePost(b, files[p], client, gitWorks)
        IN  /\ files' = [files EXCEPT ![p] = mergeResult.merged]
            /\ commit' = Merged(p, Conflicted(mergeResult))
            /\ superseded' = superseded \cup
                 IF Conflicted(mergeResult) THEN {}
                 ELSE UNION {{f} \X (client.fields[f] \ mergeResult.merged.fields[f]) :
                               f \in OtherFields}
  BY DEF UploadPost
<1> DEFINE client == commit.uploads[p]
           mergeResult == MergePost(b, files[p], client, gitWorks)
<1>2. UploadReady(p)
  BY DEF UploadPost
<1>3. client \in Content /\ files[p] \in Content
  <2>1. client \in State /\ client # NoFile
    BY <1>2, UploadType DEF UploadReady, UploadsPresent
  <2> QED BY <2>1 DEF UploadPost, Differs, State, TypeOK, Trees
<1>4. mergeResult.merged \in Content
  <2>1. b \in State
    BY <1>2, BasesType DEF UploadReady
  <2>2. gitWorks \in BOOLEAN
    OBVIOUS
  <2> QED BY <1>3, <2>1, <2>2, MergePostType
<1>5. Conflicted(mergeResult) \in BOOLEAN
  BY DEF Conflicted, MergePost, BodyConflict
<1>6. superseded' \subseteq Texts
  <2>1. \A f \in OtherFields : {f} \X (client.fields[f] \ mergeResult.merged.fields[f]) \subseteq Texts
    BY <1>3 DEF Content, Regions, Texts
  <2> HIDE DEF client, mergeResult
  <2>2. UNION {{f} \X (client.fields[f] \ mergeResult.merged.fields[f]) : f \in OtherFields}
          \subseteq Texts
    BY <2>1
  <2> QED BY <1>1, <2>2 DEF TypeOK, client, mergeResult
<1>7. files' \in Trees /\ commit' \in CommitRequest /\ UploadsPresent' /\ ClockRoom'
  BY <1>1, <1>2, <1>4, <1>5, UploadStep DEF UploadPost
<1>8. TypeOK'
  BY <1>6, <1>7 DEF TypeOK, UploadPost, clientVars
<1> QED BY <1>7, <1>8

LEMMA UploadLabelsType ==
  ASSUME TypeInv, NEW p \in Paths, UploadLabels(p)
  PROVE  TypeInv'
<1> USE DEF TypeInv
<1>1. PICK b \in Bases(p) :
        /\ files' = [files EXCEPT ![p] = MergeLabels(b, files[p], commit.uploads[p])]
        /\ superseded' = superseded \cup
             IF b = NoFile THEN GivenUp(files[p], MergeLabels(b, files[p], commit.uploads[p]))
             ELSE UNION {{l} \X (files[p].fields[l] \cup commit.uploads[p].fields[l]) :
                           l \in RemovedLabels(b, files[p], commit.uploads[p])}
  BY DEF UploadLabels
<1> DEFINE client == commit.uploads[p]
           merged == MergeLabels(b, files[p], client)
<1>2. UploadReady(p)
  BY DEF UploadLabels
<1>3. client \in Content /\ files[p] \in Content
  <2>1. client \in State /\ client # NoFile
    BY <1>2, UploadType DEF UploadReady, UploadsPresent
  <2> QED BY <2>1 DEF UploadLabels, Differs, State, TypeOK, Trees
<1>4. merged \in Content
  <2>1. b \in State
    BY <1>2, BasesType DEF UploadReady
  <2> QED BY <1>3, <2>1, MergeLabelsType
<1>5. superseded' \subseteq Texts
  <2>1. \A l \in Regions : {l} \X (files[p].fields[l] \cup client.fields[l]) \subseteq Texts
    BY <1>3 DEF Content, Texts
  <2>2. UNION {{l} \X (files[p].fields[l] \cup client.fields[l]) :
                 l \in RemovedLabels(b, files[p], client)} \subseteq Texts
    BY <2>1 DEF RemovedLabels
  <2>3. GivenUp(files[p], merged) \subseteq Texts
    BY <1>3, TextsType DEF State, GivenUp
  <2> QED BY <1>1, <2>2, <2>3 DEF TypeOK
<1>6. files' \in Trees /\ commit' \in CommitRequest /\ UploadsPresent' /\ ClockRoom'
  BY <1>1, <1>2, <1>4, UploadStep DEF UploadLabels
<1>7. TypeOK'
  BY <1>5, <1>6 DEF TypeOK, UploadLabels, clientVars
<1> QED BY <1>6, <1>7

LEMMA UploadPlainType ==
  ASSUME TypeInv, NEW p \in Paths, UploadPlain(p)
  PROVE  TypeInv'
<1> USE DEF TypeInv
<1>1. UploadReady(p)
  BY DEF UploadPlain
<1>2. commit.uploads[p] \in Content
  BY <1>1, UploadType DEF UploadReady, UploadsPresent, State
<1>3. superseded' \subseteq Texts
  <2>1. TextsOf(files[p]) \subseteq Texts
    BY TextsType DEF TypeOK, Trees
  <2> QED BY <2>1 DEF UploadPlain, TypeOK, GivenUp
<1>4. files' \in Trees /\ commit' \in CommitRequest /\ UploadsPresent' /\ ClockRoom'
  BY <1>1, <1>2, UploadStep DEF UploadPlain
<1>5. TypeOK'
  BY <1>3, <1>4 DEF TypeOK, UploadPlain, clientVars
<1> QED BY <1>4, <1>5

LEMMA NormalizeType ==
  ASSUME TypeInv, Normalize
  PROVE  TypeInv'
<1> USE DEF TypeInv
<1> DEFINE posts == commit.uploaded \cap PostPaths
           isEdit(p) == manifest[p] # NoFile \/ p \in commit.toDownload
           after == [p \in Paths |-> IF p \in posts THEN NormalizePost(files[p], isEdit(p), now + 1)
                                     ELSE files[p]]
<1>1. /\ files' = after
      /\ now' = IF posts = {} THEN now ELSE now + 1
      /\ commit' = [commit EXCEPT
           !.normalized = TRUE,
           !.toDownload = @ \cup {p \in posts : after[p] # files[p]}]
  BY DEF Normalize
<1>2. commit \in CommitRequest /\ commit # NoCommit
  BY DEF Normalize, TypeOK
<1>3. posts # {} => now + 1 \in 0 .. MaxNow
  BY ProtocolAssumption DEF ClockRoom, Normalize, TypeOK
<1>4. ASSUME NEW p \in posts
      PROVE  NormalizePost(files[p], isEdit(p), now + 1) \in Content
  <2>1. p \in Paths
    BY <1>2 DEF CommitRequest
  <2>2. files[p] \in Content
    BY <1>2, <2>1 DEF UploadsPresent, TypeOK, Trees, State
  <2> QED BY <1>3, <2>2 DEF NormalizePost, Content
<1>5. files' \in Trees
  BY <1>1, <1>4 DEF TypeOK, Trees, State
<1>6. commit' \in CommitRequest
  <2>1. {p \in posts : after[p] # files[p]} \subseteq Paths
    BY <1>2 DEF CommitRequest
  <2> HIDE DEF posts, after
  <2> QED BY <1>1, <1>2, <2>1 DEF CommitRequest
<1>7. now' \in 0 .. MaxNow
  BY <1>1, <1>3 DEF TypeOK
<1>8. TypeOK'
  BY <1>5, <1>6, <1>7 DEF TypeOK, Normalize, clientVars, ghostVars
<1>9. commit'.toUpload = commit.toUpload /\ commit'.uploaded = commit.uploaded
      /\ commit'.toDelete = commit.toDelete /\ commit'.normalized
  BY <1>1, <1>2 DEF CommitRequest
<1>10. \A p \in commit.uploaded : files'[p] # NoFile
  <2>1. commit.uploaded \subseteq Paths
    BY <1>2 DEF CommitRequest
  <2> QED BY <1>1, <1>2, <1>4, <2>1, SentinelAssumption DEF UploadsPresent
<1>11. UploadsPresent' /\ ClockRoom'
  BY <1>9, <1>10 DEF Normalize, UploadsPresent, ClockRoom
<1> QED BY <1>8, <1>11

LEMMA RejectType ==
  ASSUME TypeInv, Reject \/ Crash
  PROVE  TypeInv'
<1> USE DEF TypeInv
<1>1. commit # NoCommit /\ commit \in CommitRequest /\ commit' = NoCommit
  BY DEF Reject, Crash, TypeOK
<1>2. files' \in Trees
  <2>1. commit.orig \in [Paths -> State \cup {Untouched}]
    BY <1>1 DEF CommitRequest
  <2>2. CASE Crash
    BY <2>2 DEF Crash, TypeOK
  <2>3. CASE Reject
    <3>1. PICK stuck \in IF "restore" \in Faults THEN SUBSET Paths ELSE {{}} :
            files' = Restored(stuck)
      BY <2>3 DEF Reject
    <3> QED BY <2>1, <3>1 DEF TypeOK, Trees, Restored
  <2> QED BY <2>2, <2>3
<1>3. session' \in [Clients -> Sessions]
  BY DisturbType, IdleSessionType DEF Reject, Crash
<1>4. TypeOK'
  BY <1>1, <1>2, <1>3 DEF TypeOK, Reject, Crash, ghostVars
<1>5. UploadsPresent' /\ ClockRoom'
  BY <1>1 DEF UploadsPresent, ClockRoom
<1> QED BY <1>4, <1>5

LEMMA FinishCommitType ==
  ASSUME TypeInv, FinishCommit
  PROVE  TypeInv'
<1> USE DEF TypeInv
<1> DEFINE c == commit.client
<1>1. PICK gitWorks \in {TRUE} \cup {"git" \notin Faults},
           stored \in {TRUE} \cup {"manifest" \notin Faults} :
        /\ manifest' = IF stored THEN files ELSE manifest
        /\ session' \in {[session EXCEPT ![c] = Answered(gitWorks, stored)],
                         [session EXCEPT ![c] = IdleSession]}
        /\ \/ \E saved \in BackedUp : backups' = [backups EXCEPT ![c] = @ \cup saved]
           \/ backups' = backups
  BY DEF FinishCommit
<1>2. commit # NoCommit /\ commit \in CommitRequest /\ commit' = NoCommit
  BY DEF FinishCommit, TypeOK
<1>3. c \in Clients
  BY <1>2 DEF CommitRequest
<1>4. session' \in [Clients -> Sessions]
  <2>1. session[c] \in Sessions
    BY <1>3 DEF TypeOK
  <2>2. commit.toDownload \subseteq Paths
    BY <1>2 DEF CommitRequest
  <2>3. Answered(gitWorks, stored) \in Sessions
    BY <2>1, <2>2 DEF TypeOK, Sessions, Phases, Answered
  <2> QED BY <1>1, <2>3, IdleSessionType DEF TypeOK
<1>5. backups' \in [Clients -> SUBSET Content]
  <2>1. Conflicting \subseteq Content
    BY <1>2, <1>3 DEF CommitRequest, TypeOK, Trees, State, Conflicting
  <2>2. \A saved \in BackedUp : saved \subseteq Content
    BY <2>1 DEF BackedUp
  <2> QED BY <1>1, <2>2 DEF TypeOK
<1>6. TypeOK'
  BY <1>1, <1>2, <1>4, <1>5 DEF TypeOK, FinishCommit, ghostVars
<1>7. UploadsPresent' /\ ClockRoom'
  BY <1>2 DEF UploadsPresent, ClockRoom
<1> QED BY <1>6, <1>7

LEMMA ApplyType ==
  ASSUME TypeInv, NEW c \in Clients, ApplyStep(c) \/ Abandon(c)
  PROVE  TypeInv'
<1> USE DEF TypeInv
<1>1. session[c] \in Sessions /\ NoFile \in State
  BY DEF TypeOK, State
<1>2. UNCHANGED <<serverVars, used, superseded>>
  BY DEF ApplyStep, Download, DeleteLocal, FinishSync, Abandon, ghostVars
<1>3. UploadsPresent' /\ ClockRoom'
  BY <1>2 DEF UploadsPresent, ClockRoom, serverVars
<1>4. ASSUME NEW p \in Paths, Download(c, p)
      PROVE  TypeOK'
  <2>1. session' \in [Clients -> Sessions]
    <3>1. /\ [session[c] EXCEPT !.downloads = @ \ {p}] \in Sessions
          /\ [session[c] EXCEPT !.downloads = @ \ {p}, !.undisturbed = FALSE] \in Sessions
      BY <1>1 DEF Sessions
    <3> QED BY <1>4, <3>1 DEF Download, TypeOK
  <2>2. local' \in [Clients -> Trees]
    <3>1. \A x \in State : [local[c] EXCEPT ![p] = x] \in Trees
      BY DEF TypeOK, Trees
    <3>2. files[p] \in State
      BY DEF TypeOK, Trees
    <3>3. local' \in {local, [local EXCEPT ![c] = [local[c] EXCEPT ![p] = files[p]]]}
      BY <1>4 DEF Download, TypeOK
    <3> QED BY <3>1, <3>2, <3>3 DEF TypeOK
  <2> QED BY <1>2, <1>4, <2>1, <2>2 DEF Download, TypeOK, serverVars, ghostVars
<1>5. ASSUME NEW p \in Paths, DeleteLocal(c, p)
      PROVE  TypeOK'
  <2>1. session' \in [Clients -> Sessions]
    <3>1. /\ [session[c] EXCEPT !.deletes = @ \ {p}] \in Sessions
          /\ [session[c] EXCEPT !.deletes = @ \ {p}, !.undisturbed = FALSE] \in Sessions
      BY <1>1 DEF Sessions
    <3> QED BY <1>5, <3>1 DEF DeleteLocal, TypeOK
  <2>2. local' \in [Clients -> Trees]
    <3>1. [local[c] EXCEPT ![p] = NoFile] \in Trees
      BY <1>1 DEF TypeOK, Trees
    <3>2. local' \in {local, [local EXCEPT ![c] = [local[c] EXCEPT ![p] = NoFile]]}
      BY <1>5 DEF DeleteLocal, TypeOK
    <3> QED BY <3>1, <3>2 DEF TypeOK
  <2> QED BY <1>2, <1>5, <2>1, <2>2 DEF DeleteLocal, TypeOK, serverVars, ghostVars
<1>6. ASSUME FinishSync(c)
      PROVE  TypeOK'
  <2>1. base' \in [Clients -> Trees \cup {NoTree}]
    BY <1>1, <1>6 DEF FinishSync, TypeOK, Sessions
  <2> QED BY <1>2, <1>6, <2>1, IdleSessionType DEF FinishSync, TypeOK, serverVars
<1>7. ASSUME Abandon(c)
      PROVE  TypeOK'
  BY <1>7, IdleSessionType DEF Abandon, TypeOK, serverVars, ghostVars
<1>8. TypeOK'
  BY <1>4, <1>5, <1>6, <1>7 DEF ApplyStep
<1> QED BY <1>3, <1>8

LEMMA TypeInvStep == TypeInv /\ [Next]_vars => TypeInv'
<1> SUFFICES ASSUME TypeInv, [Next]_vars
             PROVE  TypeInv'
  OBVIOUS
<1>1. ASSUME NEW c \in Clients, Status(c) \/ Cancel(c) PROVE TypeInv'
  BY <1>1, StatusType
<1>2. ASSUME NEW c \in Clients, StartCommit(c) PROVE TypeInv'
  BY <1>2, StartCommitType
<1>3. ASSUME NEW c \in Clients, ApplyStep(c) \/ Abandon(c) PROVE TypeInv'
  BY <1>3, ApplyType
<1>4. ASSUME NEW c \in Clients, NEW p \in Paths, LocalEdit(c, p) PROVE TypeInv'
  BY <1>4, LocalEditType
<1>5. ASSUME CommitStep PROVE TypeInv'
  BY <1>5, ApplyDeleteType, UploadPostType, UploadLabelsType, UploadPlainType, NormalizeType,
     FinishCommitType DEF CommitStep
<1>6. ASSUME Reject \/ Crash PROVE TypeInv'
  BY <1>6, RejectType
<1>7. ASSUME NEW p \in Paths, WebEdit(p) PROVE TypeInv'
  BY <1>7, WebEditType
<1>8. CASE UNCHANGED vars
  BY <1>8 DEF vars, serverVars, clientVars, ghostVars, TypeInv, TypeOK, UploadsPresent, ClockRoom
<1> QED BY <1>1, <1>2, <1>3, <1>4, <1>5, <1>6, <1>7, <1>8 DEF Next

-----------------------------------------------------------------------------
(* Results.                                                                 *)

THEOREM TypeInvariant == Spec => []TypeInv
BY TypeInvInit, TypeInvStep, PTL DEF Spec

\* Every reachable state of a sync, whatever fails, is well typed: no merge and no
\* normalization is handed a missing file.
THEOREM TypeCorrect == Spec => []TypeOK
<1>1. TypeInv => TypeOK
  BY DEF TypeInv
<1> QED BY <1>1, TypeInvariant, PTL

-----------------------------------------------------------------------------
(***************************************************************************)
(* Part 3.  A commit request is atomic: SyncProtocol implements            *)
(* ServerStore, under the refinement mapping StoreTree, which puts back    *)
(* the saved original of every file the running request has touched.  The  *)
(* proof needs to know that a request touches only the files it names, and *)
(* saves each file before it writes it.                                    *)
(***************************************************************************)
Named ==
  commit # NoCommit =>
    /\ commit.toDelete \cup commit.toUpload \subseteq commit.named
    /\ \A p \in commit.uploaded : Touched(p)
    /\ \A p \in Paths : Touched(p) => p \in commit.named

AtomicInv == TypeInv /\ Named

\* Saving a file before it is written hides the write from StoreTree
LEMMA TouchStep ==
  ASSUME AtomicInv, commit # NoCommit, NEW p \in Paths, NEW x \in State,
         p \in commit.named,
         commit' \in CommitRequest, commit'.orig = Remember(p).orig, commit'.named = commit.named,
         commit'.toDelete \subseteq commit.toDelete, commit'.toUpload \subseteq commit.toUpload,
         commit'.uploaded \subseteq commit.uploaded \cup {p},
         files' = [files EXCEPT ![p] = x], manifest' = manifest
  PROVE  Named' /\ UNCHANGED Store!storeVars
<1> USE DEF AtomicInv, TypeInv
<1>1. /\ commit \in CommitRequest /\ commit' # NoCommit
      /\ files \in [Paths -> State]
      /\ commit.orig \in [Paths -> State \cup {Untouched}]
  BY SentinelAssumption DEF TypeOK, Trees, CommitRequest
<1>2. commit'.orig = [commit.orig EXCEPT ![p] = IF @ = Untouched THEN files[p] ELSE @]
  BY <1>1 DEF Remember, CommitRequest
<1>3. Touched(p)' /\ \A q \in Paths \ {p} : Touched(q)' <=> Touched(q)
  BY <1>1, <1>2, SentinelAssumption DEF Touched
<1>4. commit.uploaded \subseteq Paths
  BY <1>1 DEF CommitRequest
<1>5. Named'
  BY <1>1, <1>3, <1>4 DEF Named
<1>6. ASSUME NEW q \in Paths
      PROVE  (IF commit' # NoCommit /\ Touched(q)' THEN commit'.orig[q] ELSE files'[q])
               = IF commit # NoCommit /\ Touched(q) THEN commit.orig[q] ELSE files[q]
  <2>1. CASE q = p
    BY <1>1, <1>2, <1>3, <2>1 DEF Touched
  <2>2. CASE q # p
    BY <1>1, <1>2, <1>3, <2>2 DEF Touched
  <2> QED BY <2>1, <2>2
<1>7. StoreTree' = StoreTree
  BY <1>6, Zenon DEF StoreTree
<1> QED BY <1>1, <1>5, <1>7 DEF Store!storeVars

LEMMA TouchedBy ==
  ASSUME AtomicInv, commit # NoCommit, NEW p \in Paths, NEW conflict \in BOOLEAN
  PROVE  /\ Remember(p) \in CommitRequest
         /\ \A r \in {Remember(p), Uploaded(p), Merged(p, conflict)} :
              /\ r \in CommitRequest
              /\ r.orig = Remember(p).orig /\ r.named = commit.named
              /\ r.toDelete = commit.toDelete
              /\ r.toUpload \subseteq commit.toUpload
              /\ r.uploaded \subseteq commit.uploaded \cup {p}
<1> USE DEF AtomicInv, TypeInv
<1>1. Remember(p) \in CommitRequest
  BY RememberType
<1>2. /\ Remember(p).named = commit.named /\ Remember(p).toDelete = commit.toDelete
      /\ Remember(p).toUpload = commit.toUpload /\ Remember(p).uploaded = commit.uploaded
  BY RememberType
<1>3. Uploaded(p) \in CommitRequest /\ Merged(p, conflict) \in CommitRequest
  BY UploadedType
<1>4. /\ Uploaded(p).orig = Remember(p).orig /\ Uploaded(p).named = commit.named
      /\ Uploaded(p).toDelete = commit.toDelete
      /\ Uploaded(p).toUpload = commit.toUpload \ {p}
      /\ Uploaded(p).uploaded = commit.uploaded \cup {p}
  BY <1>1, <1>2 DEF Uploaded, CommitRequest
<1>5. /\ Merged(p, conflict).orig = Uploaded(p).orig
      /\ Merged(p, conflict).named = Uploaded(p).named
      /\ Merged(p, conflict).toDelete = Uploaded(p).toDelete
      /\ Merged(p, conflict).toUpload = Uploaded(p).toUpload
      /\ Merged(p, conflict).uploaded = Uploaded(p).uploaded
  BY <1>3 DEF Merged, CommitRequest
<1> QED BY <1>1, <1>2, <1>3, <1>4, <1>5

-----------------------------------------------------------------------------
(* The steps of a commit.                                                   *)

LEMMA ApplyDeleteAtomic ==
  ASSUME AtomicInv, NEW p \in Paths, ApplyDelete(p)
  PROVE  Named' /\ UNCHANGED Store!storeVars
<1> USE DEF AtomicInv, TypeInv
<1>1. /\ commit \in CommitRequest /\ commit # NoCommit
      /\ p \in commit.named /\ manifest' = manifest
  BY DEF ApplyDelete, TypeOK, Named
<1>2. CASE files[p] = NoFile
  <2>1. commit' = [commit EXCEPT !.toDelete = @ \ {p}] /\ files' = files
    BY <1>2 DEF ApplyDelete
  <2>2. /\ commit' # NoCommit /\ commit'.orig = commit.orig /\ commit'.named = commit.named
        /\ commit'.toDelete \subseteq commit.toDelete /\ commit'.toUpload = commit.toUpload
        /\ commit'.uploaded = commit.uploaded
    <3>1. commit' \in CommitRequest
      BY <1>1, <2>1 DEF CommitRequest
    <3> QED BY <1>1, <2>1, <3>1, SentinelAssumption DEF CommitRequest
  <2>3. \A q : Touched(q)' <=> Touched(q)
    BY <2>2 DEF Touched
  <2>4. Named'
    BY <1>1, <2>2, <2>3 DEF Named
  <2>5. StoreTree' = StoreTree
    BY <1>1, <2>1, <2>2, <2>3 DEF StoreTree
  <2> QED BY <1>1, <2>2, <2>4, <2>5 DEF Store!storeVars
<1>3. CASE files[p] # NoFile
  <2>1. commit' = [Remember(p) EXCEPT !.toDelete = @ \ {p}]
    BY <1>3 DEF ApplyDelete
  <2>2. /\ commit' \in CommitRequest
        /\ commit'.orig = Remember(p).orig /\ commit'.named = commit.named
        /\ commit'.toDelete \subseteq commit.toDelete
        /\ commit'.toUpload \subseteq commit.toUpload
        /\ commit'.uploaded \subseteq commit.uploaded \cup {p}
    BY <1>1, <2>1, TouchedBy DEF CommitRequest
  <2>3. PICK x \in State : files' = [files EXCEPT ![p] = x]
    <3>1. files \in [Paths -> State] /\ NoFile \in State
      BY DEF TypeOK, Trees, State
    <3>2. CASE files' = [files EXCEPT ![p] = NoFile]
      BY <3>1, <3>2
    <3>3. CASE files' = files
      <4>1. files' = [files EXCEPT ![p] = files[p]]
        BY <3>1, <3>3
      <4> QED BY <3>1, <4>1
    <3> QED BY <1>3, <3>2, <3>3 DEF ApplyDelete
  <2> QED BY <1>1, <2>2, <2>3, TouchStep
<1> QED BY <1>2, <1>3

LEMMA UploadAtomic ==
  ASSUME AtomicInv, TypeInv', NEW p \in Paths,
         UploadPost(p) \/ UploadLabels(p) \/ UploadPlain(p)
  PROVE  Named' /\ UNCHANGED Store!storeVars
<1> USE DEF AtomicInv, TypeInv
<1>1. /\ commit \in CommitRequest /\ commit # NoCommit
      /\ p \in commit.named /\ manifest' = manifest
  BY DEF UploadPost, UploadLabels, UploadPlain, UploadReady, TypeOK, Named
<1>2. PICK conflict \in BOOLEAN : commit' \in {Uploaded(p), Merged(p, conflict)}
  <2>1. CASE UploadPost(p)
    <3>1. PICK b \in Bases(p), gitWorks \in {TRUE} \cup {"merge" \notin Faults} :
            commit' = Merged(p, Conflicted(MergePost(b, files[p], commit.uploads[p], gitWorks)))
      BY <2>1 DEF UploadPost
    <3>2. Conflicted(MergePost(b, files[p], commit.uploads[p], gitWorks)) \in BOOLEAN
      BY DEF Conflicted, MergePost, BodyConflict
    <3> QED BY <3>1, <3>2
  <2>2. CASE UploadLabels(p)
    BY <2>2 DEF UploadLabels
  <2>3. CASE UploadPlain(p)
    BY <2>3 DEF UploadPlain
  <2> QED BY <2>1, <2>2, <2>3
<1>3. /\ commit' \in CommitRequest
      /\ commit'.orig = Remember(p).orig /\ commit'.named = commit.named
      /\ commit'.toDelete \subseteq commit.toDelete
      /\ commit'.toUpload \subseteq commit.toUpload
      /\ commit'.uploaded \subseteq commit.uploaded \cup {p}
  BY <1>1, <1>2, TouchedBy
<1>4. PICK x : files' = [files EXCEPT ![p] = x]
  BY DEF UploadPost, UploadLabels, UploadPlain
<1>5. x \in State
  BY <1>4 DEF TypeOK, Trees
<1> QED BY <1>1, <1>3, <1>4, <1>5, TouchStep

LEMMA NormalizeAtomic ==
  ASSUME AtomicInv, TypeInv', Normalize
  PROVE  Named' /\ UNCHANGED Store!storeVars
<1> USE DEF AtomicInv, TypeInv
<1>1. /\ commit \in CommitRequest /\ commit # NoCommit
      /\ manifest' = manifest
  BY DEF Normalize, TypeOK
<1>2. /\ commit'.orig = commit.orig /\ commit'.named = commit.named
      /\ commit'.toDelete = commit.toDelete /\ commit'.toUpload = commit.toUpload
      /\ commit'.uploaded = commit.uploaded /\ commit' # NoCommit
  <2>1. PICK d \in SUBSET Paths : commit' = [commit EXCEPT !.normalized = TRUE, !.toDownload = d]
    BY <1>1 DEF Normalize, CommitRequest
  <2>2. commit' \in CommitRequest
    BY <1>1, <2>1 DEF CommitRequest
  <2> QED BY <1>1, <2>1, <2>2, SentinelAssumption DEF CommitRequest
<1>3. \A q : Touched(q)' <=> Touched(q)
  BY <1>2 DEF Touched
<1>4. Named'
  BY <1>1, <1>2, <1>3 DEF Named
<1>5. \A q \in Paths : ~Touched(q) => files'[q] = files[q]
  BY <1>1 DEF Normalize, Named
<1>6. StoreTree' = StoreTree
  BY <1>1, <1>2, <1>3, <1>5 DEF StoreTree
<1> QED BY <1>1, <1>2, <1>4, <1>6 DEF Store!storeVars

LEMMA StartCommitAtomic ==
  ASSUME AtomicInv, TypeInv', NEW c \in Clients, StartCommit(c)
  PROVE  Named' /\ Store!Begin
<1> USE DEF AtomicInv, TypeInv
<1>1. /\ commit = NoCommit /\ files' = files /\ manifest' = manifest
      /\ commit'.named = UploadPaths(c) \cup session[c].plan.toDeleteRemote
      /\ commit'.toDelete = session[c].plan.toDeleteRemote
      /\ commit'.toUpload = UploadPaths(c)
      /\ commit'.uploaded = {}
      /\ commit'.orig = [p \in Paths |-> Untouched]
  BY DEF StartCommit
<1>2. commit' # NoCommit
  <2>1. commit' \in CommitRequest
    BY StartCommitRequest
  <2> QED BY <2>1, SentinelAssumption
<1>3. \A p \in Paths : ~Touched(p)'
  BY <1>1 DEF Touched
<1>4. Named'
  BY <1>1, <1>3 DEF Named
<1>5. commit'.named \in SUBSET Paths
  BY <1>2 DEF TypeOK, CommitRequest
<1>6. StoreTree' = StoreTree
  <2>1. StoreTree = [p \in Paths |-> files[p]]
    BY <1>1 DEF StoreTree
  <2>2. StoreTree' = [p \in Paths |-> files'[p]]
    BY <1>3 DEF StoreTree
  <2> QED BY <1>1, <2>1, <2>2
<1> QED BY <1>1, <1>2, <1>4, <1>5, <1>6 DEF Store!Begin

\* The files of a finished request are what readers are entitled to from now on
LEMMA FinishCommitAtomic ==
  ASSUME AtomicInv, FinishCommit
  PROVE  Named' /\ Store!Accept
<1> USE DEF AtomicInv, TypeInv
<1>1. /\ commit # NoCommit /\ commit \in CommitRequest /\ commit' = NoCommit
      /\ files' = files /\ files \in Trees /\ manifest' \in {manifest, files}
  BY DEF FinishCommit, TypeOK
<1>2. StoreTree' = files
  BY <1>1 DEF StoreTree, Trees
<1>3. commit.named # NoCommit
  BY <1>1, SentinelAssumption DEF CommitRequest
<1>4. \A p \in Paths \ commit.named : StoreTree[p] = files[p]
  BY <1>1 DEF StoreTree, Named
<1>5. Named'
  BY <1>1 DEF Named
<1> QED BY <1>1, <1>2, <1>3, <1>4, <1>5 DEF Store!Accept, Store!StoreTrees, Trees

\* A rollback that succeeds brings back exactly what readers were entitled to
LEMMA RejectAtomic ==
  ASSUME AtomicInv, Reject, "restore" \notin Faults
  PROVE  Named' /\ Store!Refuse
<1> USE DEF AtomicInv, TypeInv
<1>1. /\ commit # NoCommit /\ commit \in CommitRequest /\ commit' = NoCommit
      /\ manifest' = manifest
  BY DEF Reject, TypeOK
<1>2. files' = StoreTree
  BY <1>1 DEF Reject, Restored, StoreTree, Touched
<1>3. StoreTree' = StoreTree
  BY <1>1, <1>2 DEF StoreTree
<1>4. commit.named # NoCommit
  BY <1>1, SentinelAssumption DEF CommitRequest
<1>5. Named'
  BY <1>1 DEF Named
<1> QED BY <1>1, <1>3, <1>4, <1>5 DEF Store!Refuse

LEMMA WebEditAtomic ==
  ASSUME AtomicInv, TypeInv', NEW p \in Paths, WebEdit(p)
  PROVE  Named' /\ Store!Edit(p)
<1> USE DEF AtomicInv, TypeInv
<1>1. commit = NoCommit /\ commit' = NoCommit /\ manifest' = manifest
  BY DEF WebEdit
<1>2. files \in Trees /\ files' \in Trees
  BY DEF TypeOK
<1>3. PICK x : files' = [files EXCEPT ![p] = x]
  BY DEF WebEdit
<1>4. x \in State
  BY <1>2, <1>3 DEF Trees
<1>5. StoreTree = files /\ StoreTree' = files'
  BY <1>1, <1>2 DEF StoreTree, Trees
<1>6. Named'
  BY <1>1 DEF Named
<1> QED BY <1>1, <1>3, <1>4, <1>5, <1>6 DEF Store!Edit

\* Everything else happens on the clients' side
LEMMA ClientAtomic ==
  ASSUME AtomicInv, UNCHANGED <<files, manifest, commit>>
  PROVE  Named' /\ UNCHANGED Store!storeVars
<1>1. \A q : Touched(q)' <=> Touched(q)
  BY DEF Touched
<1>2. StoreTree' = StoreTree
  BY <1>1 DEF StoreTree
<1> QED BY <1>1, <1>2 DEF Named, AtomicInv, Store!storeVars

-----------------------------------------------------------------------------
LEMMA AtomicInit == Init => AtomicInv /\ Store!Init
<1> SUFFICES ASSUME Init PROVE AtomicInv /\ Store!Init
  OBVIOUS
<1>1. TypeInv /\ commit = NoCommit
  BY TypeInvInit DEF Init
<1>2. files \in Trees /\ manifest \in Trees
  BY <1>1 DEF TypeInv, TypeOK
<1>3. StoreTree = files
  BY <1>1, <1>2 DEF StoreTree, Trees
<1> QED BY <1>1, <1>2, <1>3 DEF AtomicInv, Named, Store!Init, Store!StoreTrees, Trees

LEMMA AtomicStep ==
  ASSUME "restore" \notin Faults, "crash" \notin Faults
  PROVE  AtomicInv /\ [Next]_vars => AtomicInv' /\ [Store!Next]_Store!storeVars
<1> SUFFICES ASSUME AtomicInv, [Next]_vars
             PROVE  AtomicInv' /\ [Store!Next]_Store!storeVars
  OBVIOUS
<1>1. TypeInv'
  BY TypeInvStep DEF AtomicInv
<1> DEFINE Goal == Named' /\ [Store!Next]_Store!storeVars
<1>2. ASSUME UNCHANGED <<files, manifest, commit>> PROVE Goal
  BY <1>2, ClientAtomic
<1>3. ASSUME NEW c \in Clients, NEW p \in Paths,
             Status(c) \/ Cancel(c) \/ ApplyStep(c) \/ Abandon(c) \/ LocalEdit(c, p)
      PROVE  Goal
  BY <1>2, <1>3 DEF Status, Cancel, ApplyStep, Download, DeleteLocal, FinishSync, Abandon,
                    LocalEdit, serverVars
<1>4. ASSUME NEW c \in Clients,
             Status(c) \/ Cancel(c) \/ ApplyStep(c) \/ Abandon(c)
      PROVE  Goal
  BY <1>2, <1>4 DEF Status, Cancel, ApplyStep, Download, DeleteLocal, FinishSync, Abandon,
                    serverVars
<1>5. ASSUME NEW c \in Clients, StartCommit(c) PROVE Goal
  BY <1>1, <1>5, StartCommitAtomic DEF Store!Next
<1>6. ASSUME CommitStep PROVE Goal
  <2>1. ASSUME NEW p \in Paths, ApplyDelete(p) PROVE Goal
    BY <2>1, ApplyDeleteAtomic
  <2>2. ASSUME NEW p \in Paths, UploadPost(p) \/ UploadLabels(p) \/ UploadPlain(p) PROVE Goal
    BY <1>1, <2>2, UploadAtomic
  <2>3. ASSUME Normalize PROVE Goal
    BY <1>1, <2>3, NormalizeAtomic
  <2>4. ASSUME FinishCommit PROVE Goal
    BY <2>4, FinishCommitAtomic DEF Store!Next
  <2> QED BY <1>6, <2>1, <2>2, <2>3, <2>4 DEF CommitStep
<1>7. ASSUME Reject PROVE Goal
  BY <1>7, RejectAtomic DEF Store!Next
<1>8. ASSUME NEW p \in Paths, WebEdit(p) PROVE Goal
  BY <1>1, <1>8, WebEditAtomic DEF Store!Next
<1>9. ASSUME UNCHANGED vars PROVE Goal
  BY <1>2, <1>9 DEF vars, serverVars
<1>10. ~Crash
  BY DEF Crash
<1>11. Goal
  BY <1>3, <1>4, <1>5, <1>6, <1>7, <1>8, <1>9, <1>10 DEF Next
<1> QED BY <1>1, <1>11 DEF AtomicInv

\* A commit takes effect as a whole or not at all, on the files it names only, and no
\* web edit falls in between: for any number of files and clients and every failure
\* but a server that dies and a rollback that cannot write.
THEOREM CommitsTakeEffectAtomically ==
  ASSUME "restore" \notin Faults, "crash" \notin Faults
  PROVE  Spec => CommitsAreAtomic
<1>1. AtomicInv /\ [Next]_vars => AtomicInv' /\ [Store!Next]_Store!storeVars
  BY AtomicStep
<1> QED BY <1>1, AtomicInit, PTL DEF Spec, CommitsAreAtomic, Store!Spec

-----------------------------------------------------------------------------
(***************************************************************************)
(* Part 4.  A run nobody disturbed converges.  While a run is undisturbed, *)
(* only its own steps touch the files and the manifest, so that a path     *)
(* where both sides differ is always one it has still to do something      *)
(* about.                                                                  *)
(***************************************************************************)

\* The session of the commit's client is the one that waits for it, and the deletions
\* and uploads are behind it when the posts are normalized
CommitterInv ==
  /\ \A c \in Clients : session[c].phase = "committing" =>
       commit # NoCommit /\ commit.client = c
  /\ commit # NoCommit =>
       /\ session[commit.client].phase = "committing"
       /\ commit.normalized => commit.toDelete = {} /\ commit.toUpload = {}

Calm(c) == ~Idle(c) /\ session[c].undisturbed

\* While a commit runs every other run has been disturbed
AloneInv ==
  commit # NoCommit => \A c \in Clients : Calm(c) => c = commit.client

RunInv == AtomicInv /\ CommitterInv /\ AloneInv

\* Both sides have the same p, but for what the run has still to do in its directory
Agrees(c, p) ==
  \/ p \in session[c].downloads \cup session[c].deletes
  \/ local[c][p] = files[p]

CommitAgrees(c) ==
  \A p \in Paths :
    /\ p \in session[c].deletes => files[p] = NoFile /\ p \notin commit.toUpload
    /\ p \in commit.toDelete => local[c][p] = NoFile
    /\ p \in commit.toUpload => commit.uploads[p] = local[c][p]
    /\ p \in commit.toUpload \cup commit.toDelete \cup commit.toDownload \/ Agrees(c, p)

ApplyAgrees(c) ==
  /\ manifest = files
  /\ \A p \in Paths : /\ p \in session[c].deletes => files[p] = NoFile
                      /\ Agrees(c, p)

\* An undisturbed plan is the plan of what is there, and so on
CalmAt(c) ==
  Calm(c) =>
    /\ session[c].phase = "planned" =>
         session[c].plan = ComputeSyncPlan(local[c], manifest, files)
    /\ session[c].phase = "committing" => CommitAgrees(c)
    /\ Applying(c) => ApplyAgrees(c)

QuietInv == RunInv /\ \A c \in Clients : CalmAt(c)

-----------------------------------------------------------------------------
(* What the steps do to sessions and to the request.                        *)

LEMMA DisturbFields ==
  ASSUME TypeOK, NEW c \in Clients
  PROVE  /\ Disturb[c] \in Sessions
         /\ Disturb[c].phase = session[c].phase /\ Disturb[c].plan = session[c].plan
         /\ Disturb[c].downloads = session[c].downloads
         /\ Disturb[c].deletes = session[c].deletes
         /\ Disturb[c].newBase = session[c].newBase
         /\ Disturb[c].phase # "idle" => ~Disturb[c].undisturbed
<1>1. session[c] \in Sessions
  BY DEF TypeOK
<1> QED BY <1>1 DEF Disturb, Sessions, Idle

LEMMA IdleFields ==
  IdleSession.phase = "idle" /\ IdleSession.downloads = {} /\ IdleSession.deletes = {}
BY DEF IdleSession

LEMMA DeleteFields ==
  ASSUME TypeInv, NEW p \in Paths, ApplyDelete(p)
  PROVE  /\ commit # NoCommit /\ commit' # NoCommit
         /\ commit \in CommitRequest /\ commit' \in CommitRequest
         /\ commit'.client = commit.client /\ commit'.base = commit.base
         /\ commit'.uploads = commit.uploads /\ commit'.named = commit.named
         /\ commit'.toDelete = commit.toDelete \ {p}
         /\ commit'.toUpload = commit.toUpload /\ commit'.uploaded = commit.uploaded
         /\ commit'.toDownload = commit.toDownload /\ commit'.conflicts = commit.conflicts
         /\ commit'.normalized = commit.normalized
<1> USE DEF TypeInv
<1>1. commit # NoCommit /\ commit \in CommitRequest
  BY DEF ApplyDelete, TypeOK
<1>2. PICK deleted \in {commit, Remember(p)} :
        commit' = [deleted EXCEPT !.toDelete = @ \ {p}]
  BY DEF ApplyDelete
<1>3. /\ deleted \in CommitRequest
      /\ deleted.client = commit.client /\ deleted.base = commit.base
      /\ deleted.uploads = commit.uploads /\ deleted.named = commit.named
      /\ deleted.toDelete = commit.toDelete
      /\ deleted.toUpload = commit.toUpload /\ deleted.uploaded = commit.uploaded
      /\ deleted.toDownload = commit.toDownload /\ deleted.conflicts = commit.conflicts
      /\ deleted.normalized = commit.normalized
  BY <1>1, RememberType
<1>4. commit' \in CommitRequest
  BY <1>2, <1>3 DEF CommitRequest
<1>5. commit' # NoCommit
  BY <1>4, SentinelAssumption
<1> QED BY <1>1, <1>2, <1>3, <1>4, <1>5 DEF CommitRequest

LEMMA UploadedFields ==
  ASSUME TypeInv, commit # NoCommit, NEW p \in Paths, NEW conflict \in BOOLEAN
  PROVE  /\ commit \in CommitRequest
         /\ \A r \in {Uploaded(p), Merged(p, conflict)} :
              /\ r \in CommitRequest /\ r # NoCommit
              /\ r.client = commit.client /\ r.base = commit.base
              /\ r.uploads = commit.uploads /\ r.named = commit.named
              /\ r.toDelete = commit.toDelete /\ r.toUpload = commit.toUpload \ {p}
              /\ r.uploaded = commit.uploaded \cup {p} /\ r.normalized = commit.normalized
         /\ Uploaded(p).toDownload = commit.toDownload
         /\ Uploaded(p).conflicts = commit.conflicts
         /\ Merged(p, conflict).toDownload = commit.toDownload \cup {p}
         /\ Merged(p, conflict).conflicts =
              IF conflict THEN commit.conflicts \cup {p} ELSE commit.conflicts
<1> USE DEF TypeInv
<1>1. commit \in CommitRequest
  BY DEF TypeOK
<1>2. /\ Remember(p) \in CommitRequest
      /\ Remember(p).client = commit.client /\ Remember(p).base = commit.base
      /\ Remember(p).uploads = commit.uploads /\ Remember(p).named = commit.named
      /\ Remember(p).toDelete = commit.toDelete /\ Remember(p).toUpload = commit.toUpload
      /\ Remember(p).uploaded = commit.uploaded /\ Remember(p).normalized = commit.normalized
      /\ Remember(p).toDownload = commit.toDownload /\ Remember(p).conflicts = commit.conflicts
  BY RememberType
<1>3. Uploaded(p) \in CommitRequest /\ Merged(p, conflict) \in CommitRequest
  BY UploadedType
<1>4. /\ Uploaded(p).client = commit.client /\ Uploaded(p).base = commit.base
      /\ Uploaded(p).uploads = commit.uploads /\ Uploaded(p).named = commit.named
      /\ Uploaded(p).toDelete = commit.toDelete
      /\ Uploaded(p).toUpload = commit.toUpload \ {p}
      /\ Uploaded(p).uploaded = commit.uploaded \cup {p}
      /\ Uploaded(p).normalized = commit.normalized
      /\ Uploaded(p).toDownload = commit.toDownload
      /\ Uploaded(p).conflicts = commit.conflicts
  BY <1>2 DEF Uploaded, CommitRequest
<1>5. /\ Merged(p, conflict).client = Uploaded(p).client
      /\ Merged(p, conflict).base = Uploaded(p).base
      /\ Merged(p, conflict).uploads = Uploaded(p).uploads
      /\ Merged(p, conflict).named = Uploaded(p).named
      /\ Merged(p, conflict).toDelete = Uploaded(p).toDelete
      /\ Merged(p, conflict).toUpload = Uploaded(p).toUpload
      /\ Merged(p, conflict).uploaded = Uploaded(p).uploaded
      /\ Merged(p, conflict).normalized = Uploaded(p).normalized
      /\ Merged(p, conflict).toDownload = Uploaded(p).toDownload \cup {p}
      /\ Merged(p, conflict).conflicts =
           IF conflict THEN Uploaded(p).conflicts \cup {p} ELSE Uploaded(p).conflicts
  BY <1>3 DEF Merged, CommitRequest
<1>6. NoCommit \notin CommitRequest
  BY SentinelAssumption
<1> QED BY <1>1, <1>3, <1>4, <1>5, <1>6

Upload(p) == UploadPost(p) \/ UploadLabels(p) \/ UploadPlain(p)

LEMMA UploadFields ==
  ASSUME TypeInv, NEW p \in Paths, Upload(p)
  PROVE  /\ commit # NoCommit /\ commit' # NoCommit
         /\ commit \in CommitRequest /\ commit' \in CommitRequest
         /\ p \in commit.toUpload /\ commit.toDelete = {}
         /\ commit'.client = commit.client /\ commit'.base = commit.base
         /\ commit'.uploads = commit.uploads /\ commit'.named = commit.named
         /\ commit'.toDelete = {} /\ commit'.toUpload = commit.toUpload \ {p}
         /\ commit'.uploaded = commit.uploaded \cup {p}
         /\ commit'.normalized = commit.normalized
         /\ commit'.toDownload \in {commit.toDownload, commit.toDownload \cup {p}}
         /\ commit'.conflicts \in {commit.conflicts, commit.conflicts \cup {p}}
         /\ p \in commit'.toDownload \/ files' = [files EXCEPT ![p] = commit.uploads[p]]
         /\ \E x : files' = [files EXCEPT ![p] = x]
         /\ UNCHANGED <<manifest, now, clientVars, used, edited>>
<1>1. UploadReady(p)
  BY DEF Upload, UploadPost, UploadLabels, UploadPlain
<1>2. PICK conflict \in BOOLEAN :
        \/ commit' = Uploaded(p) /\ files' = [files EXCEPT ![p] = commit.uploads[p]]
        \/ commit' = Merged(p, conflict)
  <2>1. CASE UploadPost(p)
    <3>1. PICK b \in Bases(p), gitWorks \in {TRUE} \cup {"merge" \notin Faults} :
            commit' = Merged(p, Conflicted(MergePost(b, files[p], commit.uploads[p], gitWorks)))
      BY <2>1 DEF UploadPost
    <3>2. Conflicted(MergePost(b, files[p], commit.uploads[p], gitWorks)) \in BOOLEAN
      BY DEF Conflicted, MergePost, BodyConflict
    <3> QED BY <3>1, <3>2
  <2>2. CASE UploadLabels(p)
    BY <2>2 DEF UploadLabels
  <2>3. CASE UploadPlain(p)
    BY <2>3 DEF UploadPlain
  <2> QED BY <2>1, <2>2, <2>3 DEF Upload
<1>3. /\ commit # NoCommit /\ p \in commit.toUpload /\ commit.toDelete = {}
      /\ commit \in CommitRequest
  BY <1>1 DEF UploadReady, TypeInv, TypeOK
<1>4. /\ UNCHANGED <<manifest, now, clientVars, used, edited>>
      /\ \E x : files' = [files EXCEPT ![p] = x]
  BY DEF Upload, UploadPost, UploadLabels, UploadPlain
<1>5. /\ commit' # NoCommit /\ commit' \in CommitRequest
      /\ commit'.client = commit.client /\ commit'.base = commit.base
      /\ commit'.uploads = commit.uploads /\ commit'.named = commit.named
      /\ commit'.toDelete = commit.toDelete /\ commit'.toUpload = commit.toUpload \ {p}
      /\ commit'.uploaded = commit.uploaded \cup {p}
      /\ commit'.normalized = commit.normalized
  <2>1. commit' \in {Uploaded(p), Merged(p, conflict)}
    BY <1>2
  <2>2. \A r \in {Uploaded(p), Merged(p, conflict)} :
          /\ r \in CommitRequest /\ r # NoCommit
          /\ r.client = commit.client /\ r.base = commit.base
          /\ r.uploads = commit.uploads /\ r.named = commit.named
          /\ r.toDelete = commit.toDelete /\ r.toUpload = commit.toUpload \ {p}
          /\ r.uploaded = commit.uploaded \cup {p} /\ r.normalized = commit.normalized
    BY <1>3, UploadedFields
  <2> QED BY <2>1, <2>2
<1>6. /\ commit'.toDownload \in {commit.toDownload, commit.toDownload \cup {p}}
      /\ commit'.conflicts \in {commit.conflicts, commit.conflicts \cup {p}}
      /\ p \in commit'.toDownload \/ files' = [files EXCEPT ![p] = commit.uploads[p]]
  <2>1. CASE commit' = Uploaded(p) /\ files' = [files EXCEPT ![p] = commit.uploads[p]]
    <3>1. commit'.toDownload = commit.toDownload /\ commit'.conflicts = commit.conflicts
      BY <1>3, <2>1, UploadedFields
    <3> QED BY <2>1, <3>1
  <2>2. CASE commit' = Merged(p, conflict)
    <3>1. /\ commit'.toDownload = commit.toDownload \cup {p}
          /\ commit'.conflicts \in {commit.conflicts, commit.conflicts \cup {p}}
      BY <1>3, <2>2, UploadedFields
    <3> QED BY <3>1
  <2> QED BY <1>2, <2>1, <2>2
<1> QED BY <1>3, <1>4, <1>5, <1>6

LEMMA NormalizeFields ==
  ASSUME TypeInv, Normalize
  PROVE  /\ commit # NoCommit /\ commit' # NoCommit
         /\ commit \in CommitRequest /\ commit' \in CommitRequest
         /\ commit.toDelete = {} /\ commit.toUpload = {} /\ commit'.normalized
         /\ commit'.client = commit.client /\ commit'.base = commit.base
         /\ commit'.uploads = commit.uploads /\ commit'.named = commit.named
         /\ commit'.toDelete = {} /\ commit'.toUpload = {}
         /\ commit'.uploaded = commit.uploaded /\ commit'.conflicts = commit.conflicts
         /\ commit.toDownload \subseteq commit'.toDownload
         /\ commit'.toDownload \subseteq commit.toDownload \cup commit.uploaded
         /\ \A p \in Paths : /\ files'[p] # files[p] =>
                                  p \in commit'.toDownload /\ p \in commit.uploaded
                             /\ files'[p] # files[p] => files[p] # NoFile
                             /\ p \in commit.uploaded => files[p] # NoFile
                             /\ files'[p] = files[p] \/
                                  files'[p] = [files[p] EXCEPT !.modified = now + 1]
<1> USE DEF TypeInv
<1> DEFINE posts == commit.uploaded \cap PostPaths
           isEdit(p) == manifest[p] # NoFile \/ p \in commit.toDownload
           after == [p \in Paths |-> IF p \in posts THEN NormalizePost(files[p], isEdit(p), now + 1)
                                     ELSE files[p]]
           changed == {p \in posts : after[p] # files[p]}
<1>1. /\ files' = after
      /\ commit' = [commit EXCEPT !.normalized = TRUE, !.toDownload = @ \cup changed]
      /\ commit # NoCommit /\ commit.toDelete = {} /\ commit.toUpload = {}
  BY DEF Normalize
<1>2. commit \in CommitRequest
  BY <1>1 DEF TypeOK
<1>3. changed \subseteq Paths /\ changed \subseteq commit.uploaded
  BY <1>2 DEF CommitRequest
<1>4. \A p \in Paths : /\ files'[p] # files[p] => p \in changed
                       /\ files'[p] = files[p] \/
                            files'[p] = [files[p] EXCEPT !.modified = now + 1]
  BY <1>1 DEF NormalizePost
<1>5. \A p \in commit.uploaded : files[p] # NoFile
  BY <1>1 DEF UploadsPresent
<1> HIDE DEF changed, after
<1>6. commit' \in CommitRequest /\ commit' # NoCommit
  <2>1. commit' \in CommitRequest
    BY <1>1, <1>2, <1>3 DEF CommitRequest
  <2> QED BY <2>1, SentinelAssumption
<1>7. /\ commit'.normalized /\ commit'.toDownload = commit.toDownload \cup changed
      /\ commit'.client = commit.client /\ commit'.base = commit.base
      /\ commit'.uploads = commit.uploads /\ commit'.named = commit.named
      /\ commit'.toDelete = commit.toDelete /\ commit'.toUpload = commit.toUpload
      /\ commit'.uploaded = commit.uploaded /\ commit'.conflicts = commit.conflicts
  BY <1>1, <1>2 DEF CommitRequest
<1> QED BY <1>1, <1>2, <1>3, <1>4, <1>5, <1>6, <1>7
-----------------------------------------------------------------------------
(* RunInv is inductive.                                                     *)

LEMMA NamedStep ==
  ASSUME AtomicInv, [Next]_vars
  PROVE  AtomicInv'
<1>1. TypeInv'
  BY TypeInvStep DEF AtomicInv
<1>2. ASSUME UNCHANGED <<files, manifest, commit>> PROVE Named'
  BY <1>2, ClientAtomic
<1>3. ASSUME NEW c \in Clients,
             Status(c) \/ Cancel(c) \/ ApplyStep(c) \/ Abandon(c) \/
             \E p \in Paths : LocalEdit(c, p)
      PROVE  Named'
  BY <1>2, <1>3 DEF Status, Cancel, ApplyStep, Download, DeleteLocal, FinishSync, Abandon,
                    LocalEdit, serverVars
<1>4. ASSUME NEW c \in Clients, StartCommit(c) PROVE Named'
  BY <1>1, <1>4, StartCommitAtomic
<1>5. ASSUME CommitStep PROVE Named'
  BY <1>1, <1>5, ApplyDeleteAtomic, UploadAtomic, NormalizeAtomic, FinishCommitAtomic
     DEF CommitStep
<1>6. ASSUME Reject \/ Crash PROVE Named'
  BY <1>6 DEF Reject, Crash, Named
<1>7. ASSUME NEW p \in Paths, WebEdit(p) PROVE Named'
  BY <1>1, <1>7, WebEditAtomic
<1>8. ASSUME UNCHANGED vars PROVE Named'
  BY <1>2, <1>8 DEF vars, serverVars
<1> QED BY <1>1, <1>3, <1>4, <1>5, <1>6, <1>7, <1>8 DEF Next, AtomicInv

\* A step that starts and ends nothing
LEMMA RunGoesOn ==
  ASSUME RunInv,
         \A c \in Clients : /\ session'[c].phase = session[c].phase
                            /\ session'[c].undisturbed => session[c].undisturbed,
         commit' = NoCommit <=> commit = NoCommit,
         commit # NoCommit =>
           /\ commit'.client = commit.client
           /\ commit'.normalized => commit'.toDelete = {} /\ commit'.toUpload = {}
  PROVE  CommitterInv' /\ AloneInv'
<1>1. commit # NoCommit => commit.client \in Clients
  BY DEF RunInv, AtomicInv, TypeInv, TypeOK, CommitRequest
<1>2. CommitterInv'
  BY <1>1 DEF RunInv, CommitterInv
<1>3. AloneInv'
  BY DEF RunInv, AloneInv, Calm, Idle
<1> QED BY <1>2, <1>3

\* A client starts with a plan, or goes back to the start
LEMMA RunTurns ==
  ASSUME RunInv, NEW c \in Clients, NEW x,
         session' = [session EXCEPT ![c] = x], commit' = commit,
         session[c].phase # "committing", x.phase # "committing",
         x.phase = "idle" \/ commit = NoCommit
  PROVE  CommitterInv' /\ AloneInv'
<1>1. session'[c] = x /\ \A d \in Clients \ {c} : session'[d] = session[d]
  BY DEF RunInv, AtomicInv, TypeInv, TypeOK
<1>2. commit # NoCommit => commit.client \in Clients \ {c}
  BY DEF RunInv, AtomicInv, TypeInv, TypeOK, CommitRequest, CommitterInv
<1>3. CommitterInv'
  BY <1>1, <1>2 DEF RunInv, CommitterInv
<1>4. AloneInv'
  BY <1>1 DEF RunInv, AloneInv, Calm, Idle
<1> QED BY <1>3, <1>4

\* The commit is over for its client
LEMMA RunEnds ==
  ASSUME RunInv, commit # NoCommit, commit' = NoCommit, NEW x, x.phase # "committing",
         session' \in {[session EXCEPT ![commit.client] = x], [Disturb EXCEPT ![commit.client] = x]}
  PROVE  CommitterInv' /\ AloneInv'
<1>1. \A d \in Clients \ {commit.client} : session'[d].phase = session[d].phase
  BY DisturbFields DEF RunInv, AtomicInv, TypeInv, TypeOK, Disturb
<1>2. commit.client \in Clients => session'[commit.client] = x
  BY DEF RunInv, AtomicInv, TypeInv, TypeOK, Disturb
<1> QED BY <1>1, <1>2 DEF RunInv, CommitterInv, AloneInv

LEMMA StartCommitFields ==
  ASSUME TypeInv, NEW c \in Clients, StartCommit(c)
  PROVE  /\ commit = NoCommit /\ commit' # NoCommit /\ commit' \in CommitRequest
         /\ session[c].phase = "planned" /\ session'[c].phase = "committing"
         /\ session'[c].undisturbed = session[c].undisturbed
         /\ session'[c].downloads =
              session[c].downloads \cup session[c].plan.toDownload \cup KeepServer(c)
         /\ session'[c].deletes = session[c].plan.toDeleteLocal
         /\ \A d \in Clients \ {c} : session'[d] = Disturb[d]
         /\ commit'.client = c /\ commit'.base = base[c]
         /\ commit'.named = UploadPaths(c) \cup session[c].plan.toDeleteRemote
         /\ commit'.toUpload = UploadPaths(c)
         /\ commit'.toDelete = session[c].plan.toDeleteRemote
         /\ \A p \in UploadPaths(c) : commit'.uploads[p] = local[c][p]
         /\ commit'.uploaded = {} /\ commit'.toDownload = {} /\ commit'.conflicts = {}
         /\ ~commit'.normalized
         /\ UNCHANGED <<files, manifest, now, local, base, backups, ghostVars>>
<1>1. commit' \in CommitRequest /\ commit' # NoCommit /\ UploadPaths(c) \subseteq Paths
  <2>1. commit' \in CommitRequest /\ UploadPaths(c) \subseteq Paths
    BY StartCommitRequest
  <2> QED BY <2>1, SentinelAssumption
<1>2. /\ commit'.client = c /\ commit'.base = base[c]
      /\ commit'.named = UploadPaths(c) \cup session[c].plan.toDeleteRemote
      /\ commit'.toUpload = UploadPaths(c)
      /\ commit'.toDelete = session[c].plan.toDeleteRemote
      /\ commit'.uploads = [p \in Paths |-> IF p \in UploadPaths(c) THEN local[c][p] ELSE NoFile]
      /\ commit'.uploaded = {} /\ commit'.toDownload = {} /\ commit'.conflicts = {}
      /\ ~commit'.normalized
  BY DEF StartCommit
<1>3. \A p \in UploadPaths(c) : commit'.uploads[p] = local[c][p]
  BY <1>1, <1>2
<1> DEFINE mine == [session[c] EXCEPT !.phase = "committing",
                      !.downloads = @ \cup session[c].plan.toDownload \cup KeepServer(c),
                      !.deletes = session[c].plan.toDeleteLocal,
                      !.plan = IdleSession.plan]
<1>4. session' = [Disturb EXCEPT ![c] = mine]
  BY DEF StartCommit
<1>5. /\ mine.phase = "committing" /\ mine.undisturbed = session[c].undisturbed
      /\ mine.downloads = session[c].downloads \cup session[c].plan.toDownload \cup KeepServer(c)
      /\ mine.deletes = session[c].plan.toDeleteLocal
  BY DEF TypeInv, TypeOK, Sessions
<1> HIDE DEF mine
<1>6. session'[c] = mine /\ \A d \in Clients \ {c} : session'[d] = Disturb[d]
  BY <1>4 DEF Disturb
<1>7. /\ commit = NoCommit /\ session[c].phase = "planned"
      /\ UNCHANGED <<files, manifest, now, local, base, backups, ghostVars>>
  BY DEF StartCommit
<1> QED BY <1>1, <1>2, <1>3, <1>5, <1>6, <1>7

LEMMA FinishCommitFields ==
  ASSUME TypeInv, FinishCommit
  PROVE  /\ commit # NoCommit /\ commit \in CommitRequest /\ commit' = NoCommit
         /\ commit.normalized /\ commit.client \in Clients
         /\ UNCHANGED <<files, now, local, base, ghostVars>>
         /\ \A d \in Clients \ {commit.client} : session'[d] = session[d] /\ backups'[d] = backups[d]
         /\ manifest' = files \/ (manifest' = manifest /\ "manifest" \in Faults)
         /\ \/ /\ session'[commit.client] = IdleSession
               /\ "lost" \in Faults /\ backups' = backups
            \/ /\ session'[commit.client].phase = "applying"
               /\ session'[commit.client].downloads =
                    session[commit.client].downloads \cup commit.toDownload
               /\ session'[commit.client].deletes = session[commit.client].deletes
               /\ session'[commit.client].newBase \in {files, NoTree}
               /\ session'[commit.client].undisturbed =>
                    session[commit.client].undisturbed /\ manifest' = files
               /\ \E saved \in BackedUp :
                    backups'[commit.client] = backups[commit.client] \cup saved
<1> USE DEF TypeInv
<1> DEFINE c == commit.client
<1>1. commit # NoCommit /\ commit \in CommitRequest /\ commit' = NoCommit /\ commit.normalized
  BY DEF FinishCommit, TypeOK
<1>2. c \in Clients
  BY <1>1 DEF CommitRequest
<1>3. PICK gitWorks \in {TRUE} \cup {"git" \notin Faults},
           stored \in {TRUE} \cup {"manifest" \notin Faults} :
        /\ manifest' = IF stored THEN files ELSE manifest
        /\ \/ /\ session' = [session EXCEPT ![c] = Answered(gitWorks, stored)]
              /\ \E saved \in BackedUp : backups' = [backups EXCEPT ![c] = @ \cup saved]
           \/ /\ "lost" \in Faults
              /\ session' = [session EXCEPT ![c] = IdleSession]
              /\ UNCHANGED backups
  BY DEF FinishCommit
<1>4. \A d \in Clients \ {c} : session'[d] = session[d] /\ backups'[d] = backups[d]
  BY <1>2, <1>3 DEF TypeOK
<1>5. manifest' = files \/ (manifest' = manifest /\ "manifest" \in Faults)
  <2>1. CASE stored = TRUE
    BY <1>3, <2>1
  <2>2. CASE stored = ("manifest" \notin Faults)
    <3>1. CASE "manifest" \in Faults
      <4>1. manifest' \in {files, manifest}
        BY <1>3
      <4> QED BY <3>1, <4>1
    <3>2. CASE "manifest" \notin Faults
      <4>1. stored
        BY <2>2, <3>2
      <4> QED BY <1>3, <4>1
    <3> QED BY <3>1, <3>2
  <2> QED BY <2>1, <2>2
<1>6. CASE session' = [session EXCEPT ![c] = IdleSession] /\ "lost" \in Faults /\ backups' = backups
  <2>1. session'[c] = IdleSession
    BY <1>2, <1>6 DEF TypeOK
  <2> QED BY <1>1, <1>2, <1>4, <1>5, <1>6, <2>1 DEF FinishCommit
<1>7. CASE /\ session' = [session EXCEPT ![c] = Answered(gitWorks, stored)]
           /\ \E saved \in BackedUp : backups' = [backups EXCEPT ![c] = @ \cup saved]
  <2>1. session[c] \in Sessions
    BY <1>2 DEF TypeOK
  <2>2. session'[c] = Answered(gitWorks, stored)
    BY <1>2, <1>7 DEF TypeOK
  <2>3. /\ Answered(gitWorks, stored).phase = "applying"
        /\ Answered(gitWorks, stored).downloads = session[c].downloads \cup commit.toDownload
        /\ Answered(gitWorks, stored).deletes = session[c].deletes
        /\ Answered(gitWorks, stored).newBase = (IF gitWorks THEN files ELSE NoTree)
        /\ Answered(gitWorks, stored).undisturbed = (session[c].undisturbed /\ stored)
    BY <2>1 DEF Answered, Sessions
  <2>4. \E saved \in BackedUp : backups'[c] = backups[c] \cup saved
    BY <1>2, <1>7 DEF TypeOK
  <2>5. stored => manifest' = files
    BY <1>3
  <2> HIDE DEF c
  <2>6. /\ session'[c].phase = "applying"
        /\ session'[c].downloads = session[c].downloads \cup commit.toDownload
        /\ session'[c].deletes = session[c].deletes
        /\ session'[c].newBase \in {files, NoTree}
        /\ session'[c].undisturbed => session[c].undisturbed /\ manifest' = files
    BY <2>2, <2>3, <2>5
  <2> QED BY <1>1, <1>2, <1>4, <1>5, <2>4, <2>6 DEF FinishCommit, c
<1> QED BY <1>3, <1>6, <1>7


LEMMA ApplyFields ==
  ASSUME TypeInv, NEW c \in Clients, NEW p \in Paths, Download(c, p) \/ DeleteLocal(c, p)
  PROVE  /\ Applying(c) /\ UNCHANGED <<serverVars, base, backups, ghostVars>>
         /\ \A d \in Clients \ {c} : session'[d] = session[d] /\ local'[d] = local[d]
         /\ session'[c].phase = "applying"
         /\ session'[c].newBase = session[c].newBase
         /\ session'[c].undisturbed => session[c].undisturbed
         /\ \A q \in Paths \ {p} : local'[c][q] = local[c][q]
<1>1. session[c] \in Sessions /\ local \in [Clients -> Trees]
  BY DEF TypeInv, TypeOK
<1>2. /\ Applying(c) /\ UNCHANGED <<serverVars, base, backups, ghostVars>>
      /\ \E x : session' = [session EXCEPT ![c].downloads = x]
           \/ session' = [session EXCEPT ![c].downloads = x, ![c].undisturbed = FALSE]
           \/ session' = [session EXCEPT ![c].deletes = x]
           \/ session' = [session EXCEPT ![c].deletes = x, ![c].undisturbed = FALSE]
      /\ local' = local \/ \E x : local' = [local EXCEPT ![c][p] = x]
  BY DEF Download, DeleteLocal
<1>3. /\ session'[c].phase = "applying" /\ session'[c].newBase = session[c].newBase
      /\ session'[c].undisturbed => session[c].undisturbed
      /\ \A d \in Clients \ {c} : session'[d] = session[d]
  BY <1>1, <1>2 DEF TypeInv, TypeOK, Sessions, Applying
<1>4. /\ \A d \in Clients \ {c} : local'[d] = local[d]
      /\ \A q \in Paths \ {p} : local'[c][q] = local[c][q]
  BY <1>1, <1>2 DEF Trees
<1> QED BY <1>2, <1>3, <1>4

LEMMA RunInvStep ==
  ASSUME RunInv, [Next]_vars
  PROVE  RunInv'
<1>1. AtomicInv'
  BY NamedStep DEF RunInv
<1>2. TypeInv /\ TypeOK
  BY DEF RunInv, AtomicInv, TypeInv
<1> DEFINE Goal == CommitterInv' /\ AloneInv'
<1>3. ASSUME NEW c \in Clients, Status(c) PROVE Goal
  <2>1. /\ commit = NoCommit /\ commit' = commit
        /\ session[c].phase # "committing"
        /\ session' = [session EXCEPT ![c] = [IdleSession EXCEPT
             !.phase = "planned",
             !.plan = ComputeSyncPlan(local[c], manifest, files)]]
    BY <1>3 DEF Status, Idle, serverVars
  <2>2. [IdleSession EXCEPT !.phase = "planned",
           !.plan = ComputeSyncPlan(local[c], manifest, files)].phase = "planned"
    BY DEF IdleSession
  <2> QED BY <2>1, <2>2, RunTurns
<1>4. ASSUME NEW c \in Clients, Cancel(c) \/ Abandon(c) \/ FinishSync(c) PROVE Goal
  BY <1>4, RunTurns, IdleFields DEF Cancel, Abandon, FinishSync, Applied, Applying, serverVars
<1>5. ASSUME NEW c \in Clients, StartCommit(c) PROVE Goal
  BY <1>2, <1>5, StartCommitFields, DisturbFields
     DEF RunInv, CommitterInv, AloneInv, Calm, Idle
<1>6. ASSUME NEW c \in Clients, NEW p \in Paths, Download(c, p) \/ DeleteLocal(c, p) PROVE Goal
  <2>1. commit' = commit
    BY <1>2, <1>6, ApplyFields DEF serverVars
  <2>2. \A d \in Clients : /\ session'[d].phase = session[d].phase
                           /\ session'[d].undisturbed => session[d].undisturbed
    BY <1>2, <1>6, ApplyFields DEF Applying
  <2> QED BY <2>1, <2>2, RunGoesOn DEF RunInv, CommitterInv
<1>7. ASSUME NEW c \in Clients, NEW p \in Paths, LocalEdit(c, p) PROVE Goal
  <2>1. commit' = commit
    BY <1>7 DEF LocalEdit, serverVars
  <2>2. \A d \in Clients : /\ session'[d].phase = session[d].phase
                           /\ session'[d].undisturbed => session[d].undisturbed
    BY <1>2, <1>7 DEF LocalEdit, TypeOK, Sessions
  <2> QED BY <2>1, <2>2, RunGoesOn DEF RunInv, CommitterInv
<1>8. ASSUME NEW p \in Paths, WebEdit(p) PROVE Goal
  <2>1. commit' = commit /\ session' = Disturb
    BY <1>8 DEF WebEdit
  <2>2. \A d \in Clients : /\ session'[d].phase = session[d].phase
                           /\ session'[d].undisturbed => session[d].undisturbed
    BY <1>2, <2>1 DEF Disturb, TypeOK, Sessions
  <2> QED BY <2>1, <2>2, RunGoesOn DEF RunInv, CommitterInv
<1>9. ASSUME NEW p \in Paths, ApplyDelete(p) PROVE Goal
  <2>1. \A d \in Clients : /\ session'[d].phase = session[d].phase
                           /\ session'[d].undisturbed => session[d].undisturbed
    BY <1>2, <1>9 DEF ApplyDelete, Disturb, TypeOK, Sessions
  <2>2. commit.normalized => commit.toDelete = {} /\ commit.toUpload = {}
    BY <1>9 DEF RunInv, CommitterInv, ApplyDelete
  <2> QED BY <1>2, <1>9, <2>1, <2>2, DeleteFields, RunGoesOn
<1>10. ASSUME NEW p \in Paths, Upload(p) PROVE Goal
  <2>1. session' = session
    BY <1>2, <1>10, UploadFields DEF clientVars
  <2>2. commit.normalized => commit.toDelete = {} /\ commit.toUpload = {}
    BY <1>2, <1>10, UploadFields DEF RunInv, CommitterInv
  <2> QED BY <1>2, <1>10, <2>1, <2>2, UploadFields, RunGoesOn
<1>11. ASSUME Normalize PROVE Goal
  BY <1>2, <1>11, NormalizeFields, RunGoesOn DEF Normalize, clientVars
<1>12. ASSUME Reject \/ Crash PROVE Goal
  BY <1>12, RunEnds, IdleFields DEF Reject, Crash
<1>13. ASSUME FinishCommit PROVE Goal
  <2>1. PICK x : session' = [session EXCEPT ![commit.client] = x]
    BY <1>13 DEF FinishCommit
  <2>2. x.phase # "committing"
    <3>1. session'[commit.client].phase # "committing"
      BY <1>2, <1>13, FinishCommitFields, IdleFields
    <3> QED BY <1>2, <1>13, <2>1, <3>1, FinishCommitFields DEF TypeOK
  <2> QED BY <1>2, <1>13, <2>1, <2>2, FinishCommitFields, RunEnds
<1>14. ASSUME UNCHANGED vars PROVE Goal
  BY <1>14, RunGoesOn DEF vars, serverVars, clientVars, RunInv, CommitterInv
<1>15. Goal
  BY <1>3, <1>4, <1>5, <1>6, <1>7, <1>8, <1>9, <1>10, <1>11, <1>12, <1>13, <1>14
     DEF Next, ApplyStep, CommitStep, Upload
<1> QED BY <1>1, <1>15 DEF RunInv

LEMMA RunInvInit == Init => RunInv
<1> SUFFICES ASSUME Init PROVE RunInv
  OBVIOUS
<1>1. AtomicInv
  BY AtomicInit
<1> QED BY <1>1, IdleFields DEF Init, RunInv, CommitterInv, AloneInv

-----------------------------------------------------------------------------
(* QuietInv is inductive.                                                   *)

\* What the lists of a plan say about a path
LEMMA PlanFacts ==
  ASSUME NEW c \in Trees, NEW m, NEW s, NEW p \in Paths, NEW plan, plan = ComputeSyncPlan(c, m, s)
  PROVE  /\ p \in plan.toUpload \cup plan.conflicts => c[p] # NoFile /\ c[p] # m[p]
         /\ p \in plan.deleteModify => c[p] # m[p]
         /\ p \in plan.toDownload => c[p] = m[p] /\ s[p] # NoFile
         /\ p \in plan.toDeleteLocal => c[p] = m[p] /\ s[p] = NoFile
         /\ p \in plan.toDeleteRemote => c[p] = NoFile /\ s[p] = m[p] /\ m[p] # NoFile
         /\ \/ p \in plan.toUpload \cup plan.conflicts \cup plan.deleteModify
                       \cup plan.toDownload \cup plan.toDeleteLocal \cup plan.toDeleteRemote
            \/ c[p] = s[p]
<1>1. /\ plan.toUpload = ToUpload(c, m, s) /\ plan.conflicts = MergeConflicts(c, m, s)
      /\ plan.deleteModify = DeleteModifyConflicts(c, m, s)
      /\ plan.toDownload = ToDownload(c, m, s) /\ plan.toDeleteLocal = ToDeleteLocal(c, m, s)
      /\ plan.toDeleteRemote = ToDeleteRemote(c, m, s)
  BY DEF ComputeSyncPlan
<1>2. DOMAIN c = Paths
  BY DEF Trees
<1> QED BY <1>1, <1>2 DEF ToUpload, MergeConflicts, DeleteModifyConflicts, ToDownload,
                         ToDeleteLocal, ToDeleteRemote, InAll

LEMMA CalmAlone ==
  ASSUME RunInv, NEW c \in Clients, Calm(c), commit # NoCommit
  PROVE  c = commit.client /\ session[c].phase = "committing"
BY DEF RunInv, AloneInv, CommitterInv

\* The run of c goes on as it was
LEMMA CalmFrame ==
  ASSUME NEW c \in Clients, CalmAt(c), session'[c] = session[c], local'[c] = local[c],
         UNCHANGED <<files, manifest, commit>>
  PROVE  CalmAt(c)'
BY DEF CalmAt, Calm, Idle, CommitAgrees, Applying, ApplyAgrees, Agrees

LEMMA StatusCalm ==
  ASSUME QuietInv, NEW d \in Clients, Status(d), NEW c \in Clients
  PROVE  CalmAt(c)'
<1>1. UNCHANGED <<files, manifest, commit, local>>
  BY DEF Status, serverVars
<1>2. CASE c # d
  <2>1. session'[c] = session[c]
    BY <1>2 DEF Status
  <2> QED BY <1>1, <2>1, CalmFrame DEF QuietInv
<1>3. CASE c = d
  <2>1. /\ session'[c].phase = "planned"
        /\ session'[c].plan = ComputeSyncPlan(local[c], manifest, files)
    BY <1>3 DEF Status, IdleSession, QuietInv, RunInv, AtomicInv, TypeInv, TypeOK
  <2> QED BY <1>1, <2>1 DEF CalmAt, Applying
<1> QED BY <1>2, <1>3

\* A run that ends, is declined or given up
LEMMA EndCalm ==
  ASSUME QuietInv, NEW d \in Clients, Cancel(d) \/ Abandon(d) \/ FinishSync(d), NEW c \in Clients
  PROVE  CalmAt(c)'
<1>1. /\ UNCHANGED <<files, manifest, commit, local>>
      /\ session' = [session EXCEPT ![d] = IdleSession]
  BY DEF Cancel, Abandon, FinishSync, serverVars
<1>2. CASE c # d
  BY <1>1, <1>2, CalmFrame DEF QuietInv
<1>3. CASE c = d
  <2>1. session'[c] = IdleSession
    BY <1>1, <1>3 DEF QuietInv, RunInv, AtomicInv, TypeInv, TypeOK
  <2> QED BY <2>1, IdleFields DEF CalmAt, Calm, Idle
<1> QED BY <1>2, <1>3

\* The request of an undisturbed plan deals with every path where the sides differ
LEMMA StartCommitCalm ==
  ASSUME QuietInv, NEW d \in Clients, StartCommit(d), NEW c \in Clients
  PROVE  CalmAt(c)'
<1>1. TypeInv /\ TypeOK
  BY DEF QuietInv, RunInv, AtomicInv, TypeInv
<1>2. CASE c # d
  <2>1. session'[c].phase # "idle" => ~session'[c].undisturbed
    BY <1>1, <1>2, StartCommitFields, DisturbFields
  <2> QED BY <2>1 DEF CalmAt, Calm, Idle
<1>3. CASE c = d
  <2> SUFFICES ASSUME Calm(c)'
               PROVE  CommitAgrees(c)'
    BY <1>1, <1>3, StartCommitFields DEF CalmAt, Applying
  <2> DEFINE plan == session[c].plan
  <2>1. plan = ComputeSyncPlan(local[c], manifest, files) /\ local[c] \in Trees
    <3>1. Calm(c) /\ session[c].phase = "planned"
      BY <1>1, <1>3, StartCommitFields DEF Calm, Idle
    <3> QED BY <1>1, <3>1 DEF QuietInv, CalmAt, TypeOK
  <2>2. /\ session'[c].deletes = plan.toDeleteLocal
        /\ session'[c].downloads = session[c].downloads \cup plan.toDownload \cup KeepServer(c)
        /\ commit'.toUpload = UploadPaths(c) /\ commit'.toDelete = plan.toDeleteRemote
        /\ \A p \in UploadPaths(c) : commit'.uploads[p] = local[c][p]
        /\ files' = files /\ local' = local
    BY <1>1, <1>3, StartCommitFields
  <2> SUFFICES ASSUME NEW p \in Paths
               PROVE  /\ p \in session'[c].deletes => files'[p] = NoFile /\ p \notin commit'.toUpload
                      /\ p \in commit'.toDelete => local'[c][p] = NoFile
                      /\ p \in commit'.toUpload => commit'.uploads[p] = local'[c][p]
                      /\ \/ p \in commit'.toUpload \cup commit'.toDelete \cup commit'.toDownload
                         \/ p \in session'[c].downloads \cup session'[c].deletes
                         \/ local'[c][p] = files'[p]
    BY DEF CommitAgrees, Agrees
  <2> HIDE DEF plan
  <2>3. /\ p \in plan.toUpload \cup plan.conflicts => local[c][p] # NoFile /\ local[c][p] # manifest[p]
        /\ p \in plan.deleteModify => local[c][p] # manifest[p]
        /\ p \in plan.toDeleteLocal => local[c][p] = manifest[p] /\ files[p] = NoFile
        /\ p \in plan.toDeleteRemote => local[c][p] = NoFile
        /\ \/ p \in plan.toUpload \cup plan.conflicts \cup plan.deleteModify
                      \cup plan.toDownload \cup plan.toDeleteLocal \cup plan.toDeleteRemote
           \/ local[c][p] = files[p]
    BY <2>1, PlanFacts
  <2>4. /\ p \in UploadPaths(c) <=>
             p \in plan.toUpload \cup plan.conflicts \cup plan.deleteModify /\ local[c][p] # NoFile
        /\ p \in KeepServer(c) <=> p \in plan.deleteModify /\ local[c][p] = NoFile
    BY DEF UploadPaths, KeepServer, plan
  <2> QED BY <2>2, <2>3, <2>4
<1> QED BY <1>2, <1>3

\* Whoever edits disturbs the runs that could notice
LEMMA EditCalm ==
  ASSUME QuietInv, NEW d \in Clients, NEW p \in Paths, LocalEdit(d, p) \/ WebEdit(p),
         NEW c \in Clients
  PROVE  CalmAt(c)'
<1>1. TypeOK
  BY DEF QuietInv, RunInv, AtomicInv, TypeInv
<1>2. CASE WebEdit(p)
  <2>1. session'[c].phase # "idle" => ~session'[c].undisturbed
    BY <1>1, <1>2, DisturbFields DEF WebEdit
  <2> QED BY <2>1 DEF CalmAt, Calm, Idle
<1>3. CASE LocalEdit(d, p) /\ c # d
  <2>1. /\ UNCHANGED <<files, manifest, commit>>
        /\ session'[c] = session[c] /\ local'[c] = local[c]
    BY <1>1, <1>3 DEF LocalEdit, serverVars, TypeOK
  <2> QED BY <2>1, CalmFrame DEF QuietInv
<1>4. CASE LocalEdit(d, p) /\ c = d
  <2>1. session'[c].phase # "idle" => ~session'[c].undisturbed
    BY <1>1, <1>4 DEF LocalEdit, TypeOK, Sessions, Idle
  <2> QED BY <2>1 DEF CalmAt, Calm, Idle
<1> QED BY <1>2, <1>3, <1>4

-----------------------------------------------------------------------------
(* The steps of a commit matter to its client only.                         *)

LEMMA CommitCalm ==
  ASSUME QuietInv, commit # NoCommit, NEW c \in Clients, Calm(c)',
         session'[c].phase = session[c].phase, session'[c].undisturbed => session[c].undisturbed,
         CommitAgrees(c) /\ c = commit.client => CommitAgrees(c)'
  PROVE  CalmAt(c)'
<1>1. Calm(c)
  BY DEF Calm, Idle
<1>2. c = commit.client /\ session[c].phase = "committing"
  BY <1>1, CalmAlone DEF QuietInv
<1>3. CommitAgrees(c)
  BY <1>1, <1>2 DEF QuietInv, CalmAt
<1> QED BY <1>2, <1>3 DEF CalmAt, Applying

LEMMA ApplyDeleteCalm ==
  ASSUME QuietInv, NEW p \in Paths, ApplyDelete(p), NEW c \in Clients
  PROVE  CalmAt(c)'
<1>1. TypeInv /\ TypeOK
  BY DEF QuietInv, RunInv, AtomicInv, TypeInv
<1> SUFFICES ASSUME Calm(c)' PROVE CalmAt(c)'
  BY DEF CalmAt
<1>2. session'[c] = session[c] /\ local' = local
  <2>1. session'[c] \in {session[c], Disturb[c]}
    BY DEF ApplyDelete
  <2>2. session'[c] # Disturb[c] \/ Disturb[c] = session[c]
    <3>1. CASE Disturb[c].phase = "idle"
      BY <3>1 DEF Disturb, Idle
    <3>2. CASE Disturb[c].phase # "idle"
      BY <1>1, <3>2, DisturbFields DEF Calm, Idle
    <3> QED BY <3>1, <3>2
  <2> QED BY <2>1, <2>2 DEF ApplyDelete
<1>3. ASSUME CommitAgrees(c), c = commit.client
      PROVE  CommitAgrees(c)'
  <2>1. (files' = files /\ files[p] = NoFile) \/ files' = [files EXCEPT ![p] = NoFile]
    <3>1. session' = Disturb => Disturb[c].phase = "idle"
      BY <1>1, DisturbFields DEF Calm, Idle
    <3>2. session[c].phase = "committing"
      BY <1>3 DEF QuietInv, RunInv, CommitterInv, ApplyDelete
    <3>3. session' # Disturb
      BY <1>1, <3>1, <3>2, DisturbFields
    <3> QED BY <3>3 DEF ApplyDelete
  <2>2. \A q \in Paths : /\ q # p => files'[q] = files[q]
                         /\ files'[p] = NoFile
    BY <1>1, <2>1 DEF TypeOK, Trees
  <2>3. local[c][p] = NoFile
    BY <1>3 DEF CommitAgrees, ApplyDelete
  <2>4. /\ commit'.toDelete = commit.toDelete \ {p} /\ commit'.toUpload = commit.toUpload
        /\ commit'.toDownload = commit.toDownload /\ commit'.uploads = commit.uploads
    BY <1>1, DeleteFields
  <2> QED BY <1>2, <1>3, <2>2, <2>3, <2>4 DEF CommitAgrees, Agrees
<1> QED BY <1>2, <1>3, CommitCalm DEF ApplyDelete

LEMMA UploadCalm ==
  ASSUME QuietInv, NEW p \in Paths, Upload(p), NEW c \in Clients
  PROVE  CalmAt(c)'
<1>1. TypeInv /\ TypeOK
  BY DEF QuietInv, RunInv, AtomicInv, TypeInv
<1> SUFFICES ASSUME Calm(c)' PROVE CalmAt(c)'
  BY DEF CalmAt
<1>2. session' = session /\ local' = local
  BY <1>1, UploadFields DEF clientVars
<1>3. ASSUME CommitAgrees(c), c = commit.client
      PROVE  CommitAgrees(c)'
  <2>1. /\ p \in commit.toUpload
        /\ commit'.toDelete = {} /\ commit.toDelete = {}
        /\ commit'.toUpload = commit.toUpload \ {p} /\ commit'.uploads = commit.uploads
        /\ commit'.toDownload \in {commit.toDownload, commit.toDownload \cup {p}}
        /\ p \in commit'.toDownload \/ files' = [files EXCEPT ![p] = commit.uploads[p]]
        /\ \E x : files' = [files EXCEPT ![p] = x]
    BY <1>1, UploadFields
  <2>2. \A q \in Paths : q # p => files'[q] = files[q]
    BY <2>1
  <2>3. p \in commit'.toDownload \/ files'[p] = local[c][p]
    BY <1>1, <1>3, <2>1 DEF CommitAgrees, TypeOK, Trees
  <2>4. commit.toDownload \subseteq commit'.toDownload
    BY <2>1
  <2>5. p \notin session[c].deletes
    BY <1>3, <2>1 DEF CommitAgrees
  <2> QED BY <1>2, <1>3, <2>1, <2>2, <2>3, <2>4, <2>5 DEF CommitAgrees, Agrees
<1>4. commit # NoCommit
  BY <1>1, UploadFields
<1> QED BY <1>2, <1>3, <1>4, CommitCalm

LEMMA NormalizeCalm ==
  ASSUME QuietInv, Normalize, NEW c \in Clients
  PROVE  CalmAt(c)'
<1>1. TypeInv /\ TypeOK
  BY DEF QuietInv, RunInv, AtomicInv, TypeInv
<1> SUFFICES ASSUME Calm(c)' PROVE CalmAt(c)'
  BY DEF CalmAt
<1>2. session' = session /\ local' = local
  BY DEF Normalize, clientVars
<1>3. ASSUME CommitAgrees(c), c = commit.client
      PROVE  CommitAgrees(c)'
  <2>1. /\ commit.toDelete = {} /\ commit'.toDelete = {} /\ commit'.toUpload = {}
        /\ commit.toUpload = {} /\ commit.toDownload \subseteq commit'.toDownload
        /\ \A q \in Paths : files'[q] # files[q] => q \in commit'.toDownload /\ files[q] # NoFile
    BY <1>1, NormalizeFields
  <2> QED BY <1>2, <1>3, <2>1 DEF CommitAgrees, Agrees
<1>4. commit # NoCommit
  BY DEF Normalize
<1> QED BY <1>2, <1>3, <1>4, CommitCalm

LEMMA RejectCalm ==
  ASSUME QuietInv, Reject \/ Crash, NEW c \in Clients
  PROVE  CalmAt(c)'
<1>1. TypeInv /\ TypeOK
  BY DEF QuietInv, RunInv, AtomicInv, TypeInv
<1>2. session' = [Disturb EXCEPT ![commit.client] = IdleSession]
  BY DEF Reject, Crash
<1>3. session'[c].phase # "idle" => ~session'[c].undisturbed
  <2>1. session'[c] \in {Disturb[c], IdleSession}
    BY <1>2 DEF Disturb
  <2> QED BY <1>1, <2>1, DisturbFields, IdleFields
<1> QED BY <1>3 DEF CalmAt, Calm, Idle

LEMMA FinishCommitCalm ==
  ASSUME QuietInv, FinishCommit, NEW c \in Clients
  PROVE  CalmAt(c)'
<1>1. TypeInv /\ TypeOK
  BY DEF QuietInv, RunInv, AtomicInv, TypeInv
<1> SUFFICES ASSUME Calm(c)' PROVE CalmAt(c)'
  BY DEF CalmAt
<1>2. c = commit.client
  <2>1. c # commit.client => session'[c] = session[c]
    BY <1>1, FinishCommitFields
  <2>2. commit # NoCommit
    BY <1>1, FinishCommitFields
  <2> QED BY <2>1, <2>2, CalmAlone DEF QuietInv, Calm, Idle
<1>3. /\ session'[c].phase = "applying"
      /\ session'[c].downloads = session[c].downloads \cup commit.toDownload
      /\ session'[c].deletes = session[c].deletes
      /\ session[c].undisturbed /\ manifest' = files /\ files' = files /\ local' = local
  BY <1>1, <1>2, FinishCommitFields, IdleFields DEF Calm, Idle
<1>4. commit.toDelete = {} /\ commit.toUpload = {} /\ CommitAgrees(c)
  BY <1>1, <1>2, <1>3, FinishCommitFields
     DEF QuietInv, RunInv, CommitterInv, CalmAt, Calm, Idle
<1>5. ApplyAgrees(c)'
  BY <1>3, <1>4 DEF CommitAgrees, ApplyAgrees, Agrees
<1> QED BY <1>3, <1>5 DEF CalmAt

LEMMA ApplyCalm ==
  ASSUME QuietInv, NEW d \in Clients, NEW p \in Paths, Download(d, p) \/ DeleteLocal(d, p),
         NEW c \in Clients
  PROVE  CalmAt(c)'
<1>1. TypeInv /\ TypeOK
  BY DEF QuietInv, RunInv, AtomicInv, TypeInv
<1>2. CASE c # d
  BY <1>1, <1>2, ApplyFields, CalmFrame DEF QuietInv, serverVars
<1>3. CASE c = d
  <2> SUFFICES ASSUME Calm(c)' PROVE ApplyAgrees(c)'
    BY <1>1, <1>3, ApplyFields DEF CalmAt
  <2>1. /\ manifest' = manifest /\ files' = files /\ ApplyAgrees(c)
        /\ session[c] \in Sessions /\ local[c] \in Trees
    BY <1>1, <1>3, ApplyFields DEF serverVars, QuietInv, CalmAt, Calm, Idle, Applying, TypeOK
  <2>2. /\ \A q \in Paths \ {p} : local'[c][q] = local[c][q]
        /\ session'[c].undisturbed
    BY <1>1, <1>3, ApplyFields DEF Calm
  <2>3. CASE Download(c, p)
    <3>1. /\ local' = [local EXCEPT ![c][p] = files[p]]
          /\ session' = [session EXCEPT ![c].downloads = @ \ {p}]
      BY <1>1, <2>1, <2>2, <2>3 DEF Download, TypeOK, Sessions
    <3>2. /\ session'[c].downloads = session[c].downloads \ {p}
          /\ session'[c].deletes = session[c].deletes /\ local'[c][p] = files[p]
      BY <1>1, <2>1, <3>1 DEF TypeOK, Sessions, Trees
    <3> QED BY <2>1, <2>2, <3>2 DEF ApplyAgrees, Agrees
  <2>4. CASE DeleteLocal(c, p)
    <3>1. /\ local' = [local EXCEPT ![c][p] = NoFile]
          /\ session' = [session EXCEPT ![c].deletes = @ \ {p}]
          /\ p \in session[c].deletes
      BY <1>1, <2>1, <2>2, <2>4 DEF DeleteLocal, TypeOK, Sessions
    <3>2. /\ session'[c].deletes = session[c].deletes \ {p}
          /\ session'[c].downloads = session[c].downloads /\ local'[c][p] = NoFile
      BY <1>1, <2>1, <3>1 DEF TypeOK, Sessions, Trees
    <3> QED BY <2>1, <2>2, <3>1, <3>2 DEF ApplyAgrees, Agrees
  <2> QED BY <1>3, <2>3, <2>4
<1> QED BY <1>2, <1>3

LEMMA QuietStep == QuietInv /\ [Next]_vars => QuietInv'
<1> SUFFICES ASSUME QuietInv, [Next]_vars PROVE QuietInv'
  OBVIOUS
<1>1. RunInv'
  BY RunInvStep DEF QuietInv
<1> SUFFICES ASSUME NEW c \in Clients PROVE CalmAt(c)'
  BY <1>1 DEF QuietInv
<1>2. ASSUME UNCHANGED vars PROVE CalmAt(c)'
  BY <1>2, CalmFrame DEF vars, serverVars, clientVars, QuietInv
<1> QED BY <1>2, StatusCalm, EndCalm, StartCommitCalm, EditCalm, ApplyDeleteCalm, UploadCalm,
           NormalizeCalm, RejectCalm, FinishCommitCalm, ApplyCalm
        DEF Next, ApplyStep, CommitStep, Upload

LEMMA QuietInit == Init => QuietInv
BY RunInvInit, IdleFields DEF Init, QuietInv, CalmAt, Calm, Idle

\* However clients, authors and failures interleave: when a run was neither disturbed
\* nor hit by a failure, its directory, the server and the manifest are equal once it
\* has applied the answer.
THEOREM UndisturbedRunsConverge == Spec => []QuietRunConverges
<1>1. QuietInv => QuietRunConverges
  <2> SUFFICES ASSUME QuietInv, NEW c \in Clients, Applied(c), session[c].undisturbed
               PROVE  local[c] = files /\ manifest = files
    BY DEF QuietRunConverges
  <2>1. manifest = files /\ \A p \in Paths : local[c][p] = files[p]
    BY DEF QuietInv, CalmAt, Calm, Idle, Applied, Applying, ApplyAgrees, Agrees
  <2>2. local[c] \in Trees /\ files \in Trees
    BY DEF QuietInv, RunInv, AtomicInv, TypeInv, TypeOK
  <2> QED BY <2>1, <2>2 DEF Trees
<1> QED BY <1>1, QuietInit, QuietStep, PTL DEF Spec

-----------------------------------------------------------------------------
(***************************************************************************)
(* Part 5.  What holds while nobody edits the server's files during a run: *)
(* deletions spare the server's edits, a directory is blamed for its own   *)
(* changes only, and no edit is lost.                                      *)
(***************************************************************************)
OneClient == \E c : Clients = {c}

\* A planned deletion is one of a file the server has not changed, and so is a deletion
\* of the running commit
SpareInv ==
  /\ \A c \in Clients : session[c].phase = "planned" =>
       \A p \in session[c].plan.toDeleteRemote : StoreTree[p] \in {manifest[p], NoFile}
  /\ commit # NoCommit => \A p \in commit.toDelete : files[p] \in {manifest[p], NoFile}

SpareHolds == RunInv /\ SpareInv

\* With one client, nothing else runs while its plan waits for the user
LEMMA PlanAlone ==
  ASSUME RunInv, OneClient, NEW c \in Clients, commit # NoCommit
  PROVE  c = commit.client /\ session[c].phase = "committing"
<1>1. commit.client \in Clients
  BY DEF RunInv, AtomicInv, TypeInv, TypeOK, CommitRequest
<1> QED BY <1>1 DEF OneClient, RunInv, CommitterInv

\* While a plan waits, the store and the manifest stay as they are, or another client's
\* commit makes them equal
LEMMA PlannedStore ==
  ASSUME RunInv, RunInv', [Next]_vars, QuietServer,
         OneClient \/ Faults \cap {"manifest", "restore", "crash"} = {},
         NEW c \in Clients, session[c].phase = "planned", session'[c].phase = "planned"
  PROVE  UNCHANGED <<StoreTree, manifest>> \/ manifest' = StoreTree'
<1> USE DEF RunInv
<1> DEFINE Goal == UNCHANGED <<StoreTree, manifest>> \/ manifest' = StoreTree'
<1>1. TypeInv /\ TypeInv' /\ TypeOK
  BY DEF AtomicInv, TypeInv
<1>2. ASSUME UNCHANGED <<files, manifest, commit>> PROVE Goal
  BY <1>2, ClientAtomic DEF Store!storeVars
<1>3. ASSUME NEW d \in Clients,
             Status(d) \/ Cancel(d) \/ ApplyStep(d) \/ Abandon(d) \/
             \E p \in Paths : LocalEdit(d, p)
      PROVE  Goal
  BY <1>2, <1>3 DEF Status, Cancel, ApplyStep, Download, DeleteLocal, FinishSync, Abandon,
                    LocalEdit, serverVars
<1>4. ASSUME NEW d \in Clients, StartCommit(d) PROVE Goal
  BY <1>1, <1>4, StartCommitAtomic DEF Store!Begin
<1>5. ASSUME NEW p \in Paths, ApplyDelete(p) \/ Upload(p) PROVE Goal
  BY <1>1, <1>5, ApplyDeleteAtomic, UploadAtomic DEF Upload, Store!storeVars
<1>6. ASSUME Normalize PROVE Goal
  BY <1>1, <1>6, NormalizeAtomic DEF Store!storeVars
<1>7. ASSUME FinishCommit \/ Reject \/ Crash PROVE Goal
  <2>1. commit # NoCommit
    BY <1>7 DEF FinishCommit, Reject, Crash
  <2>2. ~OneClient
    BY <2>1, PlanAlone
  <2>3. "manifest" \notin Faults /\ "restore" \notin Faults /\ "crash" \notin Faults
    BY <2>2
  <2>4. CASE FinishCommit
    <3>1. manifest' = files /\ files' = files /\ commit' = NoCommit /\ files \in Trees
      BY <1>1, <2>3, <2>4, FinishCommitFields DEF TypeOK
    <3>2. StoreTree' = files'
      BY <3>1 DEF StoreTree, Trees
    <3> QED BY <3>1, <3>2
  <2>5. CASE Reject
    BY <2>3, <2>5, RejectAtomic DEF Store!Refuse
  <2> QED BY <1>7, <2>3, <2>4, <2>5 DEF Crash
<1>8. ASSUME NEW p \in Paths, WebEdit(p) PROVE Goal
  BY <1>8 DEF WebEdit, Idle
<1>9. ASSUME UNCHANGED vars PROVE Goal
  BY <1>2, <1>9 DEF vars, serverVars
<1> QED BY <1>3, <1>4, <1>5, <1>6, <1>7, <1>8, <1>9 DEF Next, CommitStep, Upload

\* A step that leaves a plan waiting leaves the plan as it is
LEMMA PlanStays ==
  ASSUME RunInv, [Next]_vars, NEW c \in Clients, session'[c].phase = "planned"
  PROVE  \/ Status(c) /\ session'[c].plan = ComputeSyncPlan(local[c], manifest, files)
         \/ session[c].phase = "planned" /\ session'[c].plan = session[c].plan
<1> USE DEF RunInv
<1> DEFINE Same == session'[c].phase = session[c].phase /\ session'[c].plan = session[c].plan
           Goal == Same \/ session'[c].phase # "planned"
<1>1. TypeInv /\ TypeOK
  BY DEF AtomicInv, TypeInv
<1>2. ASSUME session'[c] = session[c] \/ session'[c] = Disturb[c] \/ session'[c] = IdleSession
      PROVE  Goal
  BY <1>1, <1>2, DisturbFields, IdleFields
<1>3. ASSUME NEW d \in Clients, Status(d), d # c PROVE Goal
  BY <1>2, <1>3 DEF Status
<1>4. ASSUME Status(c)
      PROVE  session'[c].plan = ComputeSyncPlan(local[c], manifest, files)
  BY <1>1, <1>4 DEF Status, IdleSession, TypeOK
<1>5. ASSUME NEW d \in Clients, Cancel(d) \/ Abandon(d) \/ FinishSync(d) PROVE Goal
  <2>1. session'[c] \in {session[c], IdleSession}
    BY <1>1, <1>5 DEF Cancel, Abandon, FinishSync, TypeOK
  <2> QED BY <1>2, <2>1
<1>6. ASSUME NEW d \in Clients, StartCommit(d) PROVE Goal
  BY <1>1, <1>2, <1>6, StartCommitFields
<1>7. ASSUME NEW d \in Clients, NEW p \in Paths, Download(d, p) \/ DeleteLocal(d, p) PROVE Goal
  BY <1>1, <1>2, <1>7, ApplyFields
<1>8. ASSUME NEW d \in Clients, NEW p \in Paths, LocalEdit(d, p) PROVE Goal
  BY <1>1, <1>8 DEF LocalEdit, TypeOK, Sessions
<1>9. ASSUME NEW p \in Paths, ApplyDelete(p) \/ Upload(p) PROVE Goal
  BY <1>1, <1>2, <1>9, UploadFields DEF ApplyDelete, clientVars
<1>10. ASSUME Normalize \/ (\E p \in Paths : WebEdit(p)) PROVE Goal
  BY <1>2, <1>10 DEF Normalize, WebEdit, clientVars
<1>11. ASSUME Reject \/ Crash PROVE Goal
  <2>1. session'[c] \in {Disturb[c], IdleSession}
    BY <1>11 DEF Reject, Crash, Disturb
  <2> QED BY <1>2, <2>1
<1>12. ASSUME FinishCommit PROVE Goal
  BY <1>1, <1>2, <1>12, FinishCommitFields
<1>13. ASSUME UNCHANGED vars PROVE Goal
  BY <1>13 DEF vars, clientVars
<1> QED BY <1>3, <1>4, <1>5, <1>6, <1>7, <1>8, <1>9, <1>10, <1>11, <1>12, <1>13
        DEF Next, ApplyStep, CommitStep, Upload

LEMMA SpareStep ==
  ASSUME QuietServer, OneClient \/ Faults \cap {"manifest", "restore", "crash"} = {}
  PROVE  SpareHolds /\ [Next]_vars => SpareHolds'
<1> SUFFICES ASSUME SpareHolds, [Next]_vars PROVE SpareHolds'
  OBVIOUS
<1> USE DEF SpareHolds
<1>1. RunInv' /\ TypeInv /\ TypeOK
  BY RunInvStep DEF RunInv, AtomicInv, TypeInv
<1>2. ASSUME NEW c \in Clients, session'[c].phase = "planned", NEW p \in session'[c].plan.toDeleteRemote
      PROVE  StoreTree'[p] \in {manifest'[p], NoFile}
  <2>1. CASE Status(c) /\ session'[c].plan = ComputeSyncPlan(local[c], manifest, files)
    <3>1. local[c] \in Trees /\ files' = files /\ manifest' = manifest /\ commit' = NoCommit
      BY <1>1, <2>1 DEF Status, TypeOK, serverVars
    <3>2. p \in Paths
      BY <1>2, <2>1, <3>1 DEF ComputeSyncPlan, ToDeleteRemote, Trees
    <3>3. files[p] = manifest[p]
      BY <1>2, <2>1, <3>1, <3>2, PlanFacts
    <3> QED BY <3>1, <3>2, <3>3 DEF StoreTree
  <2>2. CASE session[c].phase = "planned" /\ session'[c].plan = session[c].plan
    <3>1. StoreTree[p] \in {manifest[p], NoFile}
      BY <1>2, <2>2 DEF SpareInv
    <3>2. UNCHANGED <<StoreTree, manifest>> \/ manifest' = StoreTree'
      BY <1>1, <1>2, <2>2, PlannedStore
    <3> QED BY <3>1, <3>2
  <2> QED BY <1>2, <2>1, <2>2, PlanStays
<1> DEFINE Goal == commit' # NoCommit =>
                     \A p \in commit'.toDelete : files'[p] \in {manifest'[p], NoFile}
<1>3. ASSUME UNCHANGED <<files, manifest, commit>> PROVE Goal
  BY <1>3 DEF SpareInv
<1>4. ASSUME NEW c \in Clients,
             Status(c) \/ Cancel(c) \/ ApplyStep(c) \/ Abandon(c) \/
             \E p \in Paths : LocalEdit(c, p)
      PROVE  Goal
  BY <1>3, <1>4 DEF Status, Cancel, ApplyStep, Download, DeleteLocal, FinishSync, Abandon,
                    LocalEdit, serverVars
<1>5. ASSUME NEW c \in Clients, StartCommit(c) PROVE Goal
  <2>1. /\ commit = NoCommit /\ session[c].phase = "planned"
        /\ commit'.toDelete = session[c].plan.toDeleteRemote
        /\ files' = files /\ manifest' = manifest
        /\ session[c].plan.toDeleteRemote \subseteq Paths
    BY <1>1, <1>5, StartCommitFields DEF TypeOK, Sessions, Plans, PlanLists
  <2>2. \A p \in Paths : StoreTree[p] = files[p]
    BY <2>1 DEF StoreTree
  <2> QED BY <2>1, <2>2 DEF SpareInv
<1>6. ASSUME NEW p \in Paths, ApplyDelete(p) PROVE Goal
  <2>1. /\ commit # NoCommit /\ commit'.toDelete = commit.toDelete \ {p}
        /\ manifest' = manifest
    BY <1>1, <1>6, DeleteFields DEF ApplyDelete
  <2>2. \A q \in Paths \ {p} : files'[q] = files[q]
    BY <1>1, <1>6 DEF ApplyDelete, TypeOK, Trees
  <2>3. commit.toDelete \subseteq Paths
    BY <1>1, <2>1 DEF TypeOK, CommitRequest
  <2> QED BY <2>1, <2>2, <2>3 DEF SpareInv
<1>7. ASSUME NEW p \in Paths, Upload(p) PROVE Goal
  BY <1>1, <1>7, UploadFields
<1>8. ASSUME Normalize PROVE Goal
  BY <1>1, <1>8, NormalizeFields
<1>9. ASSUME FinishCommit \/ Reject \/ Crash \/ \E p \in Paths : WebEdit(p) PROVE Goal
  BY <1>9 DEF FinishCommit, Reject, Crash, WebEdit
<1>10. ASSUME UNCHANGED vars PROVE Goal
  BY <1>3, <1>10 DEF vars, serverVars
<1>11. Goal
  BY <1>4, <1>5, <1>6, <1>7, <1>8, <1>9, <1>10 DEF Next, CommitStep, Upload
<1> QED BY <1>1, <1>2, <1>11 DEF SpareInv

\* A file that changed on the server since the last sync is not deleted there because a
\* client deleted its copy: with no web edit during a run, for one client whatever
\* fails, and for any number of them as long as the manifest describes the files after
\* a commit and rollbacks succeed.
THEOREM DeletionsSpareServerEdits ==
  ASSUME QuietServer, OneClient \/ Faults \cap {"manifest", "restore", "crash"} = {}
  PROVE  Spec => DeletesSpareServerEdits
<1>1. Init => SpareHolds
  BY RunInvInit, IdleFields DEF Init, SpareHolds, SpareInv
<1>2. SpareHolds /\ [Next]_vars => SpareHolds'
  BY SpareStep
<1>3. SpareHolds => \A p \in Paths : ApplyDelete(p) => files[p] \in {manifest[p], NoFile}
  BY DEF SpareHolds, SpareInv, ApplyDelete
<1>4. SpareHolds => [\A p \in Paths : ApplyDelete(p) /\ files'[p] = NoFile =>
                       files[p] \in {manifest[p], NoFile}]_vars
  BY <1>3
<1> QED BY <1>1, <1>2, <1>4, PTL DEF Spec, DeletesSpareServerEdits

-----------------------------------------------------------------------------
(* A path nobody edited in the directory holds what the manifest says, from *)
(* one run of the only client to the next, and in a run the paths the       *)
(* request does not name are only brought up to date.                       *)

OwnPlan(c, p) ==
  LET plan == session[c].plan
  IN  /\ p \notin plan.toUpload \cup plan.toDeleteRemote \cup plan.conflicts \cup plan.deleteModify
      /\ p \in plan.toDownload => files[p] # NoFile
      /\ p \in plan.toDeleteLocal => files[p] = NoFile
      /\ p \in plan.toDownload \cup plan.toDeleteLocal \/ local[c][p] = files[p]
      /\ p \notin session[c].downloads

OwnRun(c, p) ==
  /\ p \in session[c].downloads => files[p] # NoFile
  /\ p \in session[c].deletes => files[p] = NoFile
  /\ Agrees(c, p)

OwnAt(c, p) ==
  /\ ~Applying(c) => local[c][p] = manifest[p]
  /\ session[c].phase = "planned" => OwnPlan(c, p)
  /\ session[c].phase = "committing" =>
       p \notin commit.named \cup commit.toDownload /\ OwnRun(c, p)
  /\ Applying(c) => manifest[p] = files[p] /\ OwnRun(c, p)

OwnInv == QuietInv /\ \A c \in Clients : \A p \in Paths \ edited[c] : OwnAt(c, p)

\* p stays out of what a step does
LEMMA OwnFrame ==
  ASSUME NEW c \in Clients, NEW p \in Paths, OwnAt(c, p), session'[c] = session[c],
         local'[c][p] = local[c][p], files'[p] = files[p], manifest'[p] = manifest[p],
         session[c].phase = "committing" =>
           commit'.named = commit.named /\ (p \in commit'.toDownload => p \in commit.toDownload)
  PROVE  OwnAt(c, p)'
BY DEF OwnAt, OwnPlan, OwnRun, Agrees, Applying

LEMMA OwnStatus ==
  ASSUME OwnInv, NEW c \in Clients, Status(c), NEW p \in Paths \ edited[c]
  PROVE  OwnAt(c, p)'
<1>1. TypeOK
  BY DEF OwnInv, QuietInv, RunInv, AtomicInv, TypeInv
<1> DEFINE plan == ComputeSyncPlan(local[c], manifest, files)
<1>2. /\ session'[c].phase = "planned" /\ session'[c].plan = plan /\ session'[c].downloads = {}
      /\ UNCHANGED <<files, manifest, local>>
  BY <1>1 DEF Status, IdleSession, TypeOK, serverVars
<1>3. local[c][p] = manifest[p]
  BY DEF OwnInv, OwnAt, Status, Idle, Applying
<1>4. local[c] \in Trees
  BY <1>1 DEF TypeOK
<1> HIDE DEF plan
<1>5. /\ p \in plan.toUpload \cup plan.conflicts => local[c][p] # manifest[p]
      /\ p \in plan.deleteModify => local[c][p] # manifest[p]
      /\ p \in plan.toDownload => files[p] # NoFile
      /\ p \in plan.toDeleteLocal => files[p] = NoFile
      /\ p \in plan.toDeleteRemote => local[c][p] = NoFile /\ manifest[p] # NoFile
      /\ \/ p \in plan.toUpload \cup plan.conflicts \cup plan.deleteModify
                    \cup plan.toDownload \cup plan.toDeleteLocal \cup plan.toDeleteRemote
         \/ local[c][p] = files[p]
  BY <1>4, PlanFacts DEF plan
<1> QED BY <1>2, <1>3, <1>5 DEF OwnAt, OwnPlan, Applying

LEMMA OwnStart ==
  ASSUME OwnInv, NEW c \in Clients, StartCommit(c), NEW p \in Paths \ edited[c]
  PROVE  OwnAt(c, p)'
<1>1. TypeInv
  BY DEF OwnInv, QuietInv, RunInv, AtomicInv
<1>2. OwnPlan(c, p) /\ local[c][p] = manifest[p]
  BY <1>1, StartCommitFields DEF OwnInv, OwnAt, Applying
<1>3. p \notin UploadPaths(c) /\ p \notin KeepServer(c)
  BY <1>2 DEF OwnPlan, UploadPaths, KeepServer
<1>4. /\ session'[c].phase = "committing" /\ UNCHANGED <<files, manifest, local>>
      /\ session'[c].downloads =
           session[c].downloads \cup session[c].plan.toDownload \cup KeepServer(c)
      /\ session'[c].deletes = session[c].plan.toDeleteLocal
      /\ commit'.named = UploadPaths(c) \cup session[c].plan.toDeleteRemote
      /\ commit'.toDownload = {}
  BY <1>1, StartCommitFields
<1> QED BY <1>2, <1>3, <1>4 DEF OwnAt, OwnPlan, OwnRun, Agrees, Applying

\* The steps of the commit leave the paths alone that the request does not name
LEMMA OwnCommit ==
  ASSUME OwnInv, OneClient, NEW q \in Paths, ApplyDelete(q) \/ Upload(q) \/ Normalize,
         NEW c \in Clients, NEW p \in Paths \ edited[c]
  PROVE  OwnAt(c, p)'
<1> USE DEF OwnInv, QuietInv, RunInv, AtomicInv, TypeInv
<1>1. /\ commit # NoCommit /\ manifest' = manifest /\ local' = local
      /\ commit'.named = commit.named
  BY DeleteFields, UploadFields, NormalizeFields DEF ApplyDelete, Normalize, clientVars
<1>2. session[c].phase = "committing" /\ p \notin commit.named \cup commit.toDownload
  BY <1>1, PlanAlone DEF OwnAt
<1>3. files'[p] = files[p] /\ (p \in commit'.toDownload => p \in commit.toDownload)
  <2>1. CASE ApplyDelete(q)
    <3>1. q \in commit.named /\ commit'.toDownload = commit.toDownload
      BY <2>1, DeleteFields DEF ApplyDelete, Named
    <3>2. files' = files \/ files' = [files EXCEPT ![q] = NoFile]
      BY <2>1 DEF ApplyDelete
    <3>3. q # p
      BY <1>2, <3>1
    <3> QED BY <3>1, <3>2, <3>3 DEF TypeOK, Trees
  <2>2. CASE Upload(q)
    <3>1. /\ q \in commit.named /\ \E x : files' = [files EXCEPT ![q] = x]
          /\ commit'.toDownload \in {commit.toDownload, commit.toDownload \cup {q}}
      BY <2>2, UploadFields DEF Named
    <3> QED BY <1>2, <3>1
  <2>3. CASE Normalize
    <3>1. p \notin commit.uploaded
      BY <1>1, <1>2 DEF Named
    <3> QED BY <2>3, <3>1, NormalizeFields
  <2> QED BY <2>1, <2>2, <2>3
<1>4. CASE session'[c] = session[c]
  BY <1>1, <1>3, <1>4, OwnFrame
<1>5. CASE session'[c] = Disturb[c]
  <2>1. /\ session'[c].phase = session[c].phase /\ session'[c].downloads = session[c].downloads
        /\ session'[c].deletes = session[c].deletes
    BY <1>5, DisturbFields
  <2> QED BY <1>1, <1>2, <1>3, <2>1 DEF OwnAt, OwnRun, Agrees, Applying
<1>6. session'[c] \in {session[c], Disturb[c]}
  <2>1. CASE ApplyDelete(q)
    BY <2>1 DEF ApplyDelete
  <2>2. CASE Upload(q)
    BY <2>2, UploadFields DEF clientVars
  <2>3. CASE Normalize
    BY <2>3 DEF Normalize, clientVars
  <2> QED BY <2>1, <2>2, <2>3
<1> QED BY <1>4, <1>5, <1>6

\* A rollback, whether or not it succeeds, touches the files of the request only
LEMMA OwnReject ==
  ASSUME OwnInv, OneClient, Reject \/ Crash, NEW c \in Clients, NEW p \in Paths \ edited[c]
  PROVE  OwnAt(c, p)'
<1> USE DEF OwnInv, QuietInv, RunInv, AtomicInv, TypeInv
<1>1. c = commit.client /\ session[c].phase = "committing"
  BY PlanAlone DEF Reject, Crash
<1>2. session'[c] = IdleSession /\ UNCHANGED <<manifest, local>>
  BY <1>1 DEF Reject, Crash, Disturb
<1> QED BY <1>1, <1>2, IdleFields DEF OwnAt, Applying

LEMMA OwnFinishCommit ==
  ASSUME OwnInv, OneClient, FinishCommit, Faults \cap {"lost", "manifest"} = {},
         NEW c \in Clients, NEW p \in Paths \ edited[c]
  PROVE  OwnAt(c, p)'
<1> USE DEF OwnInv, QuietInv, RunInv, AtomicInv, TypeInv
<1>1. c = commit.client /\ session[c].phase = "committing"
  BY PlanAlone DEF FinishCommit
<1>2. p \notin commit.toDownload /\ OwnRun(c, p)
  BY <1>1 DEF OwnAt
<1>3. "lost" \notin Faults /\ "manifest" \notin Faults
  OBVIOUS
<1>4. /\ session'[c].phase = "applying"
      /\ session'[c].downloads = session[c].downloads \cup commit.toDownload
      /\ session'[c].deletes = session[c].deletes
      /\ manifest' = files /\ files' = files /\ local' = local
  BY <1>1, <1>3, FinishCommitFields
<1> QED BY <1>2, <1>4 DEF OwnAt, OwnRun, Agrees, Applying

LEMMA OwnApply ==
  ASSUME OwnInv, Faults \cap {"download", "remove"} = {}, NEW c \in Clients, NEW q \in Paths,
         Download(c, q) \/ DeleteLocal(c, q), NEW p \in Paths \ edited[c]
  PROVE  OwnAt(c, p)'
<1> USE DEF OwnInv, QuietInv, RunInv, AtomicInv, TypeInv
<1>1. /\ Applying(c) /\ manifest' = manifest /\ files' = files
      /\ session'[c].phase = "applying" /\ \A r \in Paths \ {q} : local'[c][r] = local[c][r]
  BY ApplyFields DEF serverVars
<1>2. manifest[p] = files[p] /\ OwnRun(c, p) /\ session[c] \in Sessions /\ local[c] \in Trees
  BY <1>1 DEF OwnAt, TypeOK
<1>3. "download" \notin Faults /\ "remove" \notin Faults
  OBVIOUS
<1>4. CASE Download(c, q)
  <2>1. session'[c].downloads = session[c].downloads \ {q} /\ session'[c].deletes = session[c].deletes
    BY <1>2, <1>4 DEF Download, TypeOK, Sessions
  <2>2. p = q => local'[c][p] = files[p]
    BY <1>2, <1>3, <1>4 DEF Download, OwnRun, TypeOK, Trees
  <2> QED BY <1>1, <1>2, <2>1, <2>2 DEF OwnAt, OwnRun, Agrees, Applying
<1>5. CASE DeleteLocal(c, q)
  <2>1. session'[c].downloads = session[c].downloads /\ session'[c].deletes = session[c].deletes \ {q}
    BY <1>2, <1>5 DEF DeleteLocal, TypeOK, Sessions
  <2>2. p = q => local'[c][p] = files[p]
    BY <1>2, <1>3, <1>5 DEF DeleteLocal, OwnRun, TypeOK, Trees
  <2> QED BY <1>1, <1>2, <2>1, <2>2 DEF OwnAt, OwnRun, Agrees, Applying
<1> QED BY <1>4, <1>5

\* What the run was to bring up to date is, and an undisturbed run leaves no difference
LEMMA OwnFinish ==
  ASSUME OwnInv, NEW c \in Clients, FinishSync(c), NEW p \in Paths \ edited'[c]
  PROVE  OwnAt(c, p)'
<1> USE DEF OwnInv, QuietInv, RunInv, AtomicInv, TypeInv
<1>1. /\ Applied(c) /\ UNCHANGED <<files, manifest, local>> /\ session'[c] = IdleSession
      /\ edited'[c] = IF session[c].undisturbed THEN {} ELSE edited[c]
  BY DEF FinishSync, serverVars, TypeOK
<1>2. local[c][p] = manifest[p]
  <2>1. CASE session[c].undisturbed
    BY <1>1, <2>1 DEF CalmAt, Calm, Idle, Applied, Applying, ApplyAgrees, Agrees
  <2>2. CASE ~session[c].undisturbed
    BY <1>1, <2>2 DEF Applied, OwnAt, OwnRun, Agrees
  <2> QED BY <2>1, <2>2
<1> QED BY <1>1, <1>2, IdleFields DEF OwnAt, Applying

LEMMA OwnEdit ==
  ASSUME OwnInv, OneClient, QuietServer, NEW d \in Clients, NEW q \in Paths,
         LocalEdit(d, q) \/ WebEdit(q), NEW c \in Clients, NEW p \in Paths \ edited'[c]
  PROVE  p \in Paths \ edited[c] /\ OwnAt(c, p)'
<1> USE DEF OwnInv, QuietInv, RunInv, AtomicInv, TypeInv
<1>1. CASE LocalEdit(d, q)
  <2>1. c = d /\ edited'[c] = edited[c] \cup {q} /\ UNCHANGED <<files, manifest, commit>>
    BY <1>1 DEF OneClient, LocalEdit, TypeOK, serverVars
  <2>2. local'[c][p] = local[c][p] /\ p \in Paths \ edited[c]
    BY <1>1, <2>1 DEF LocalEdit, TypeOK, Trees
  <2>3. CASE session'[c] = session[c]
    BY <2>1, <2>2, <2>3, OwnFrame
  <2>4. CASE session'[c] = [session[c] EXCEPT !.undisturbed = FALSE]
    <3>1. /\ session'[c].phase = session[c].phase /\ session'[c].downloads = session[c].downloads
          /\ session'[c].deletes = session[c].deletes /\ session'[c].plan = session[c].plan
      BY <2>4 DEF TypeOK, Sessions
    <3> QED BY <2>1, <2>2, <3>1 DEF OwnAt, OwnPlan, OwnRun, Agrees, Applying
  <2> QED BY <1>1, <2>1, <2>3, <2>4, <2>2 DEF LocalEdit, TypeOK
<1>2. CASE WebEdit(q)
  <2>1. Idle(c) /\ session'[c] = session[c] /\ UNCHANGED <<manifest, local, edited>>
    BY <1>2 DEF WebEdit, Disturb
  <2> QED BY <2>1 DEF OwnAt, Idle, Applying
<1> QED BY <1>1, <1>2

LEMMA OwnStep ==
  ASSUME OneClient, QuietServer, Faults \cap {"lost", "manifest", "download", "remove"} = {}
  PROVE  OwnInv /\ [Next]_vars => OwnInv'
<1> SUFFICES ASSUME OwnInv, [Next]_vars PROVE OwnInv'
  OBVIOUS
<1>1. QuietInv'
  BY QuietStep DEF OwnInv
<1> SUFFICES ASSUME NEW c \in Clients, NEW p \in Paths \ edited'[c] PROVE OwnAt(c, p)'
  BY <1>1 DEF OwnInv
<1>2. "lost" \notin Faults
  OBVIOUS
<1>3. \A d \in Clients : d = c
  BY DEF OneClient
<1>4. ASSUME NEW q \in Paths, LocalEdit(c, q) \/ WebEdit(q) PROVE OwnAt(c, p)'
  BY <1>4, OwnEdit
<1>5. ASSUME FinishSync(c) PROVE OwnAt(c, p)'
  BY <1>5, OwnFinish
<1>6. ASSUME edited' = edited PROVE p \in Paths \ edited[c] /\ OwnAt(c, p)
  BY <1>6 DEF OwnInv
<1>7. ASSUME Cancel(c) PROVE OwnAt(c, p)'
  <2>1. /\ session'[c] = IdleSession /\ UNCHANGED <<files, manifest, local, edited>>
        /\ session[c].phase = "planned"
    BY <1>7 DEF Cancel, serverVars, ghostVars, OwnInv, QuietInv, RunInv, AtomicInv, TypeInv, TypeOK
  <2> QED BY <1>6, <2>1, IdleFields DEF OwnAt, Applying
<1>8. ASSUME Status(c) \/ StartCommit(c) PROVE OwnAt(c, p)'
  <2>1. edited' = edited
    BY <1>8 DEF Status, StartCommit, ghostVars
  <2> QED BY <1>6, <1>8, <2>1, OwnStatus, OwnStart
<1>9. ASSUME NEW q \in Paths, ApplyDelete(q) \/ Upload(q) \/ Normalize PROVE OwnAt(c, p)'
  <2>1. edited' = edited
    BY <1>9 DEF ApplyDelete, Upload, UploadPost, UploadLabels, UploadPlain, Normalize, ghostVars
  <2> QED BY <1>6, <1>9, <2>1, OwnCommit
<1>10. ASSUME FinishCommit \/ Reject \/ Crash PROVE OwnAt(c, p)'
  <2>1. edited' = edited /\ Faults \cap {"lost", "manifest"} = {}
    BY <1>10 DEF FinishCommit, Reject, Crash, ghostVars
  <2> QED BY <1>6, <1>10, <2>1, OwnFinishCommit, OwnReject
<1>11. ASSUME NEW q \in Paths, Download(c, q) \/ DeleteLocal(c, q) PROVE OwnAt(c, p)'
  <2>1. edited' = edited /\ Faults \cap {"download", "remove"} = {}
    BY <1>11 DEF Download, DeleteLocal, ghostVars
  <2> QED BY <1>6, <1>11, <2>1, OwnApply
<1>12. ASSUME UNCHANGED vars PROVE OwnAt(c, p)'
  BY <1>6, <1>12, OwnFrame DEF vars, serverVars, clientVars, ghostVars
<1>13. ~Abandon(c)
  BY <1>2 DEF Abandon
<1>14. p \in Paths
  OBVIOUS
<1> QED BY <1>3, <1>4, <1>5, <1>7, <1>8, <1>9, <1>10, <1>11, <1>12, <1>13, <1>14
        DEF Next, ApplyStep, CommitStep, Upload

\* The plan of the only client of a server never blames its directory for a change
\* nobody made there, with no web edit during a run, as long as answers arrive, the
\* manifest is stored, and downloads and local deletions succeed.
THEOREM PlansBlameOwnChanges ==
  ASSUME OneClient, QuietServer, Faults \cap {"lost", "manifest", "download", "remove"} = {}
  PROVE  Spec => []OnlyOwnChanges
<1>1. Init => OwnInv
  <2> SUFFICES ASSUME Init, NEW c \in Clients, NEW p \in Paths \ edited[c] PROVE OwnAt(c, p)
    BY QuietInit DEF OwnInv
  <2>1. session[c] = IdleSession
    BY DEF Init
  <2>2. local[c][p] = manifest[p]
    BY DEF Init, NoTreeFiles
  <2> QED BY <2>1, <2>2, IdleFields DEF OwnAt, Applying
<1>2. OwnInv /\ [Next]_vars => OwnInv'
  BY OwnStep
<1>3. OwnInv => OnlyOwnChanges
  <2> SUFFICES ASSUME OwnInv, NEW c \in Clients, session[c].phase = "planned",
                      NEW p \in session[c].plan.toUpload \cup session[c].plan.toDeleteRemote
               PROVE  p \in edited[c]
    BY DEF OnlyOwnChanges
  <2>1. p \in Paths
    BY DEF OwnInv, QuietInv, RunInv, AtomicInv, TypeInv, TypeOK, Sessions, Plans, PlanLists
  <2> QED BY <2>1 DEF OwnInv, OwnAt, OwnPlan
<1> QED BY <1>1, <1>2, <1>3, PTL DEF Spec

-----------------------------------------------------------------------------
(* What a merge keeps of the texts of both sides, when all texts of the     *)
(* base are on both sides but for those given up, gone.                     *)

LEMMA TextsByRegion ==
  ASSUME NEW x \in Content
  PROVE  /\ TextsOf(x) \subseteq Regions \X Tokens
         /\ \A r \in Regions, k \in Tokens : <<r, k>> \in TextsOf(x) <=> k \in x.fields[r]
<1>1. x # NoFile /\ \A r \in Regions : x.fields[r] \subseteq Tokens
  BY SentinelAssumption DEF Content
<1>2. TextsOf(x) = UNION {{r} \X x.fields[r] : r \in Regions}
  BY <1>1 DEF TextsOf
<1> QED BY <1>1, <1>2

LEMMA TextsLost ==
  ASSUME NEW x \in Content, NEW y \in Content, NEW gone, TextsOf(x) \subseteq TextsOf(y) \cup gone,
         NEW r \in Regions
  PROVE  \A k \in x.fields[r] \ y.fields[r] : <<r, k>> \in gone
<1> SUFFICES ASSUME NEW k \in x.fields[r] \ y.fields[r] PROVE <<r, k>> \in gone
  OBVIOUS
<1>1. k \in Tokens
  BY DEF Content
<1> QED BY <1>1, TextsByRegion

LEMMA TextsKept ==
  ASSUME NEW x \in Content, NEW y \in Content, NEW gone,
         \A r \in Regions : \A k \in x.fields[r] \ y.fields[r] : <<r, k>> \in gone
  PROVE  TextsOf(x) \subseteq TextsOf(y) \cup gone
<1> SUFFICES ASSUME NEW t \in TextsOf(x) PROVE t \in TextsOf(y) \cup gone
  OBVIOUS
<1>1. PICK r \in Regions, k \in Tokens : t = <<r, k>>
  BY TextsByRegion
<1>2. k \in x.fields[r]
  BY <1>1, TextsByRegion
<1> QED BY <1>1, <1>2, TextsByRegion

\* One region: gone holds the tokens of the base that a side no longer has
LEMMA RegionMergesKeep ==
  ASSUME NEW b, NEW s, NEW c, NEW gone, b \subseteq s \cup gone, b \subseteq c \cup gone
  PROVE  /\ ScalarMerge(b, s, c) \subseteq s \cup c
         /\ s \subseteq ScalarMerge(b, s, c) \cup gone
         /\ Diverged(b, s, c) \/ c \subseteq ScalarMerge(b, s, c) \cup gone
         /\ SetMerge(b, s, c) \subseteq s \cup c
         /\ s \subseteq SetMerge(b, s, c) \cup gone
         /\ c \subseteq SetMerge(b, s, c) \cup gone
         /\ HunkMerge(b, s, c) \subseteq s \cup c
         /\ s \subseteq HunkMerge(b, s, c) \cup gone
         /\ c \subseteq HunkMerge(b, s, c) \cup gone
<1>1. /\ ScalarMerge(b, s, c) \subseteq s \cup c
      /\ s \subseteq ScalarMerge(b, s, c) \cup gone
      /\ Diverged(b, s, c) \/ c \subseteq ScalarMerge(b, s, c) \cup gone
  BY DEF ScalarMerge, Diverged
<1>2. /\ SetMerge(b, s, c) \subseteq s \cup c
      /\ s \subseteq SetMerge(b, s, c) \cup gone
      /\ c \subseteq SetMerge(b, s, c) \cup gone
  BY DEF SetMerge
<1>3. /\ HunkMerge(b, s, c) \subseteq s \cup c
      /\ s \subseteq HunkMerge(b, s, c) \cup gone
      /\ c \subseteq HunkMerge(b, s, c) \cup gone
  BY <1>1 DEF HunkMerge
<1> QED BY <1>1, <1>2, <1>3

\* What the merge of a post leaves out of the client's version without a report
TieTexts(m, c) == UNION {{f} \X (c.fields[f] \ m.fields[f]) : f \in OtherFields}

\* What the merge of labels.toml leaves out: what either side wrote in a removed label
RemovedTexts(b, s, c) == UNION {{l} \X (s.fields[l] \cup c.fields[l]) : l \in RemovedLabels(b, s, c)}

\* A post: the server's text stays, and the client's text stays or a conflict is reported
LEMMA MergePostKeeps ==
  ASSUME NEW b \in Content, NEW s \in Content, NEW c \in Content, NEW gitWorks \in BOOLEAN, NEW gone,
         TextsOf(b) \subseteq TextsOf(s) \cup gone, TextsOf(b) \subseteq TextsOf(c) \cup gone,
         NEW mergeResult, mergeResult = MergePost(b, s, c, gitWorks), NEW x, x = mergeResult.merged
  PROVE  /\ TextsOf(x) \subseteq TextsOf(s) \cup TextsOf(c)
         /\ TextsOf(s) \subseteq TextsOf(x) \cup gone
         /\ Conflicted(mergeResult) \/ TextsOf(c) \subseteq TextsOf(x) \cup (gone \cup TieTexts(x, c))
<1> DEFINE lost(r) == {k \in Tokens : <<r, k>> \in gone}
<1>1. x \in Content /\ \A r \in Regions : x.fields[r] = MergedRegion(b, s, c, gitWorks, r)
  <2>1. x \in Content
    BY MergePostType DEF State
  <2>2. b # NoFile
    BY SentinelAssumption
  <2> QED BY <2>1, <2>2 DEF MergePost
<1>2. \A r \in Regions : /\ b.fields[r] \subseteq Tokens /\ s.fields[r] \subseteq Tokens
                         /\ c.fields[r] \subseteq Tokens
  BY DEF Content
<1>3. ASSUME NEW r \in Regions
      PROVE  b.fields[r] \subseteq s.fields[r] \cup lost(r) /\ b.fields[r] \subseteq c.fields[r] \cup lost(r)
  <2>1. /\ \A k \in b.fields[r] \ s.fields[r] : <<r, k>> \in gone
        /\ \A k \in b.fields[r] \ c.fields[r] : <<r, k>> \in gone
    BY TextsLost
  <2> QED BY <1>2, <2>1
<1> HIDE DEF lost
<1>4. ASSUME NEW r \in Regions
      PROVE  x.fields[r] \subseteq s.fields[r] \cup c.fields[r] /\ s.fields[r] \subseteq x.fields[r] \cup lost(r)
  <2> DEFINE br == b.fields[r]  sr == s.fields[r]  cr == c.fields[r]
  <2>1. /\ ScalarMerge(br, sr, cr) \subseteq sr \cup cr
        /\ sr \subseteq ScalarMerge(br, sr, cr) \cup lost(r)
        /\ SetMerge(br, sr, cr) \subseteq sr \cup cr
        /\ sr \subseteq SetMerge(br, sr, cr) \cup lost(r)
        /\ HunkMerge(br, sr, cr) \subseteq sr \cup cr
        /\ sr \subseteq HunkMerge(br, sr, cr) \cup lost(r)
    BY <1>3, RegionMergesKeep
  <2>2. x.fields[r] \in {ScalarMerge(br, sr, cr), SetMerge(br, sr, cr), HunkMerge(br, sr, cr), sr}
    BY <1>1 DEF MergedRegion
  <2> HIDE DEF br, sr, cr
  <2>3. x.fields[r] \subseteq sr \cup cr /\ sr \subseteq x.fields[r] \cup lost(r)
    BY <2>1, <2>2
  <2> QED BY <2>3 DEF sr, cr
<1>5. ASSUME ~Conflicted(mergeResult), NEW r \in Regions, r \notin OtherFields
      PROVE  c.fields[r] \subseteq x.fields[r] \cup lost(r)
  <2>1. /\ c.fields[r] \subseteq SetMerge(b.fields[r], s.fields[r], c.fields[r]) \cup lost(r)
        /\ c.fields[r] \subseteq HunkMerge(b.fields[r], s.fields[r], c.fields[r]) \cup lost(r)
        /\ \/ Diverged(b.fields[r], s.fields[r], c.fields[r])
           \/ c.fields[r] \subseteq ScalarMerge(b.fields[r], s.fields[r], c.fields[r]) \cup lost(r)
    BY <1>3, RegionMergesKeep
  <2>2. /\ ~BodyConflict(b, s, c, gitWorks)
        /\ r \in ReportedFields => ~Diverged(b.fields[r], s.fields[r], c.fields[r])
    <3>1. b # NoFile
      BY SentinelAssumption
    <3>2. /\ mergeResult.bodyConflict = BodyConflict(b, s, c, gitWorks)
          /\ mergeResult.fieldConflicts = {f \in ReportedFields :
                                        Diverged(b.fields[f], s.fields[f], c.fields[f])}
      BY <3>1 DEF MergePost
    <3> QED BY <1>5, <3>2 DEF Conflicted
  <2>3. r \in BodyHunks => x.fields[r] = HunkMerge(b.fields[r], s.fields[r], c.fields[r])
    BY <1>1, <2>2 DEF MergedRegion, BodyConflict
  <2>4. r \in SetFields => x.fields[r] = SetMerge(b.fields[r], s.fields[r], c.fields[r])
    BY <1>1, RegionsAssumption DEF MergedRegion
  <2>5. r \in ReportedFields => x.fields[r] = ScalarMerge(b.fields[r], s.fields[r], c.fields[r])
    BY <1>1, RegionsAssumption DEF MergedRegion
  <2> QED BY <1>5, <2>1, <2>2, <2>3, <2>4, <2>5 DEF Regions
<1>6. TextsOf(x) \subseteq TextsOf(s) \cup TextsOf(c)
  <2>1. ASSUME NEW r \in Regions, NEW k \in x.fields[r] \ s.fields[r] PROVE <<r, k>> \in TextsOf(c)
    <3>1. k \in c.fields[r] /\ k \in Tokens
      BY <1>1, <1>2, <1>4, <2>1
    <3> QED BY <3>1, TextsByRegion
  <2> QED BY <1>1, <2>1, TextsKept
<1>7. TextsOf(s) \subseteq TextsOf(x) \cup gone
  <2>1. \A r \in Regions : \A k \in s.fields[r] \ x.fields[r] : <<r, k>> \in gone
    BY <1>4 DEF lost
  <2> QED BY <1>1, <2>1, TextsKept
<1>8. ASSUME ~Conflicted(mergeResult)
      PROVE  TextsOf(c) \subseteq TextsOf(x) \cup (gone \cup TieTexts(x, c))
  <2>1. ASSUME NEW r \in Regions, NEW k \in c.fields[r] \ x.fields[r]
        PROVE  <<r, k>> \in gone \cup TieTexts(x, c)
    <3>1. CASE r \in OtherFields
      <4>1. <<r, k>> \in {r} \X (c.fields[r] \ x.fields[r])
        BY <2>1
      <4> QED BY <3>1, <4>1 DEF TieTexts
    <3>2. CASE r \notin OtherFields
      BY <1>5, <1>8, <2>1, <3>2 DEF lost
    <3> QED BY <3>1, <3>2
  <2>2. PICK left : left = gone \cup TieTexts(x, c)
    OBVIOUS
  <2>3. TextsOf(c) \subseteq TextsOf(x) \cup left
    BY <1>1, <2>1, <2>2, TextsKept
  <2> QED BY <2>2, <2>3
<1> QED BY <1>6, <1>7, <1>8

\* labels.toml: both sides' text stays, but in the labels one of them removed
LEMMA MergeLabelsKeeps ==
  ASSUME NEW b \in Content, NEW s \in Content, NEW c \in Content, NEW gone,
         TextsOf(b) \subseteq TextsOf(s) \cup gone, TextsOf(b) \subseteq TextsOf(c) \cup gone,
         NEW x, x = MergeLabels(b, s, c)
  PROVE  /\ TextsOf(x) \subseteq TextsOf(s) \cup TextsOf(c)
         /\ TextsOf(s) \subseteq TextsOf(x) \cup (gone \cup RemovedTexts(b, s, c))
         /\ TextsOf(c) \subseteq TextsOf(x) \cup (gone \cup RemovedTexts(b, s, c))
<1> DEFINE lost(r) == {k \in Tokens : <<r, k>> \in gone}
<1>1. /\ x \in Content
      /\ \A r \in Regions : x.fields[r] = LabelMerge(b.fields[r], s.fields[r], c.fields[r])
  <2>1. b # NoFile
    BY SentinelAssumption
  <2> QED BY <2>1, MergeLabelsType DEF State, MergeLabels, Content
<1>2. \A r \in Regions : /\ b.fields[r] \subseteq Tokens /\ s.fields[r] \subseteq Tokens
                         /\ c.fields[r] \subseteq Tokens
  BY DEF Content
<1>3. ASSUME NEW r \in Regions
      PROVE  b.fields[r] \subseteq s.fields[r] \cup lost(r) /\ b.fields[r] \subseteq c.fields[r] \cup lost(r)
  <2>1. /\ \A k \in b.fields[r] \ s.fields[r] : <<r, k>> \in gone
        /\ \A k \in b.fields[r] \ c.fields[r] : <<r, k>> \in gone
    BY TextsLost
  <2> QED BY <1>2, <2>1
<1> HIDE DEF lost
<1>4. ASSUME NEW r \in Regions
      PROVE  /\ x.fields[r] \subseteq s.fields[r] \cup c.fields[r]
             /\ r \in RemovedLabels(b, s, c) \/
                  (/\ s.fields[r] \subseteq x.fields[r] \cup lost(r)
                   /\ c.fields[r] \subseteq x.fields[r] \cup lost(r))
  <2>1. /\ SetMerge(b.fields[r], s.fields[r], c.fields[r]) \subseteq s.fields[r] \cup c.fields[r]
        /\ s.fields[r] \subseteq SetMerge(b.fields[r], s.fields[r], c.fields[r]) \cup lost(r)
        /\ c.fields[r] \subseteq SetMerge(b.fields[r], s.fields[r], c.fields[r]) \cup lost(r)
    BY <1>3, RegionMergesKeep
  <2> QED BY <1>1, <2>1 DEF LabelMerge, RemovedLabels
<1>5. ASSUME NEW r \in Regions, NEW k \in (s.fields[r] \cup c.fields[r]) \ x.fields[r]
      PROVE  <<r, k>> \in gone \cup RemovedTexts(b, s, c)
  <2>1. CASE r \in RemovedLabels(b, s, c)
    <3>1. <<r, k>> \in {r} \X (s.fields[r] \cup c.fields[r])
      BY <1>5
    <3>2. {r} \X (s.fields[r] \cup c.fields[r]) \subseteq RemovedTexts(b, s, c)
      BY <2>1 DEF RemovedTexts
    <3> QED BY <3>1, <3>2
  <2>2. CASE r \notin RemovedLabels(b, s, c)
    BY <1>4, <1>5, <2>2 DEF lost
  <2> QED BY <2>1, <2>2
<1>6. TextsOf(x) \subseteq TextsOf(s) \cup TextsOf(c)
  <2>1. ASSUME NEW r \in Regions, NEW k \in x.fields[r] \ s.fields[r] PROVE <<r, k>> \in TextsOf(c)
    <3>1. k \in c.fields[r] /\ k \in Tokens
      BY <1>1, <1>2, <1>4, <2>1
    <3> QED BY <3>1, TextsByRegion
  <2> QED BY <1>1, <2>1, TextsKept
<1>7. TextsOf(s) \subseteq TextsOf(x) \cup (gone \cup RemovedTexts(b, s, c))
  BY <1>1, <1>5, TextsKept
<1>8. TextsOf(c) \subseteq TextsOf(x) \cup (gone \cup RemovedTexts(b, s, c))
  BY <1>1, <1>5, TextsKept
<1> QED BY <1>6, <1>7, <1>8

-----------------------------------------------------------------------------
(* No edit is lost.  What both sides once shared, the manifest and the base *)
(* of the merges, is never the only place of a text; and in a run every     *)
(* text of one side is on the other one or is still to be brought there.    *)

Kept(x, y) == TextsOf(x) \subseteq TextsOf(y) \cup superseded

Saved(c) == UNION {TextsOf(x) : x \in backups[c]}

SharedKept(c, p) ==
  /\ Applying(c) \/ Kept(manifest[p], local[c][p])
  /\ Kept(manifest[p], StoreTree[p]) /\ Kept(manifest[p], files[p])
  /\ base[c] # NoTree =>
       /\ Applying(c) \/ Kept(base[c][p], local[c][p])
       /\ Kept(base[c][p], StoreTree[p]) /\ Kept(base[c][p], files[p])

CommitKept(c, p) ==
  /\ p \in commit.toUpload => commit.uploads[p] = local[c][p]
  /\ p \in commit.toDelete => TextsOf(files[p]) \subseteq superseded
  /\ p \in session[c].deletes => p \notin commit.toUpload /\ TextsOf(files[p]) \subseteq superseded
  /\ p \in commit.toUpload \cup commit.conflicts \/ Kept(local[c][p], files[p])
  /\ \/ p \in commit.toUpload \cup session[c].downloads \cup commit.toDownload
     \/ Kept(files[p], local[c][p])
  /\ TextsOf(files[p]) \subseteq TextsOf(StoreTree[p]) \cup TextsOf(local[c][p])

ApplyKept(c, p) ==
  /\ p \in session[c].downloads \/ Kept(files[p], local[c][p])
  /\ p \in session[c].deletes => TextsOf(files[p]) \subseteq superseded
  /\ TextsOf(local[c][p]) \subseteq TextsOf(files[p]) \cup superseded \cup Saved(c)

SafeAt(c) ==
  /\ \A p \in Paths : SharedKept(c, p)
  /\ session[c].phase = "planned" => session[c].plan = ComputeSyncPlan(local[c], manifest, files)
  /\ commit # NoCommit => commit.base = base[c] /\ \A p \in Paths : CommitKept(c, p)
  /\ Applying(c) => session[c].newBase \in {NoTree, files} /\ \A p \in Paths : ApplyKept(c, p)

SafeInv == RunInv /\ NoLostEdit /\ \A c \in Clients : SafeAt(c)

LEMMA NoTexts == TextsOf(NoFile) = {}
BY DEF TextsOf

\* No author writes, and every text of a file is somewhere afterwards
LEMMA NothingLost ==
  ASSUME NoLostEdit, used' = used, superseded \subseteq superseded',
         \A c \in Clients : backups[c] \subseteq backups'[c],
         \A p \in Paths : \A t \in TextsOf(files[p]) : Somewhere(t)' \/ t \in superseded',
         \A c \in Clients, p \in Paths :
           \A t \in TextsOf(local[c][p]) : Somewhere(t)' \/ t \in superseded'
  PROVE  NoLostEdit'
<1> SUFFICES ASSUME NEW t \in (Regions \X (1 .. used)) \ superseded'
             PROVE  Somewhere(t)'
  BY DEF NoLostEdit
<1>1. Somewhere(t)
  BY DEF NoLostEdit
<1>2. (\E c \in Clients : \E saved \in backups[c] : t \in TextsOf(saved)) => Somewhere(t)'
  BY DEF Somewhere
<1> QED BY <1>1, <1>2 DEF Somewhere

LEMMA SameTexts ==
  ASSUME NoLostEdit, UNCHANGED <<files, local, used, superseded>>,
         \A c \in Clients : backups[c] \subseteq backups'[c]
  PROVE  NoLostEdit'
<1>1. \A p \in Paths : \A t \in TextsOf(files[p]) : Somewhere(t)'
  BY DEF Somewhere
<1>2. \A c \in Clients, p \in Paths : \A t \in TextsOf(local[c][p]) : Somewhere(t)'
  BY DEF Somewhere
<1> QED BY <1>1, <1>2, NothingLost

LEMMA SharedSame ==
  ASSUME NEW c, NEW p, SharedKept(c, p), UNCHANGED <<files, manifest, local, base, superseded>>,
         StoreTree' = StoreTree, Applying(c) => Applying(c)'
  PROVE  SharedKept(c, p)'
BY DEF SharedKept, Kept

\* With one client, a commit is a commit of its run
LEMMA NotCommitting ==
  ASSUME SafeInv, OneClient, NEW c \in Clients, session[c].phase # "committing"
  PROVE  commit = NoCommit /\ StoreTree = files
<1>1. commit = NoCommit
  BY PlanAlone DEF SafeInv
<1> QED BY <1>1 DEF StoreTree, SafeInv, RunInv, AtomicInv, TypeInv, TypeOK, Trees

\* Status, and a plan that is declined
LEMMA PlanSafe ==
  ASSUME SafeInv, OneClient, NEW c \in Clients, Status(c) \/ Cancel(c)
  PROVE  NoLostEdit' /\ SafeAt(c)'
<1> USE DEF SafeInv, RunInv, AtomicInv, TypeInv
<1>1. /\ UNCHANGED <<files, manifest, commit, local, base, backups, used, superseded>>
      /\ session[c].phase # "applying" /\ session[c].phase # "committing"
  BY DEF Status, Cancel, serverVars, ghostVars, Idle
<1>2. NoLostEdit'
  BY <1>1, SameTexts
<1>3. StoreTree' = StoreTree
  BY <1>1, ClientAtomic DEF Store!storeVars
<1>4. \/ session'[c].phase = "idle"
      \/ /\ session'[c].phase = "planned"
         /\ session'[c].plan = ComputeSyncPlan(local[c], manifest, files)
  BY IdleFields DEF Status, Cancel, IdleSession, TypeOK
<1>5. \A p \in Paths : SharedKept(c, p)'
  BY <1>1, <1>3, SharedSame DEF SafeAt, Applying
<1>6. commit = NoCommit
  BY <1>1, NotCommitting
<1> QED BY <1>1, <1>2, <1>4, <1>5, <1>6 DEF SafeAt, Applying

\* The request deals with every path whose texts are on one side only
LEMMA StartCommitSafe ==
  ASSUME SafeInv, OneClient, NEW c \in Clients, StartCommit(c)
  PROVE  NoLostEdit' /\ SafeAt(c)'
<1> USE DEF SafeInv, RunInv, AtomicInv, TypeInv
<1> DEFINE plan == session[c].plan
<1>1. /\ commit = NoCommit /\ commit' # NoCommit /\ session[c].phase = "planned"
      /\ session'[c].phase = "committing"
      /\ session'[c].downloads = session[c].downloads \cup plan.toDownload \cup KeepServer(c)
      /\ session'[c].deletes = plan.toDeleteLocal
      /\ commit'.base = base[c]
      /\ commit'.toUpload = UploadPaths(c) /\ commit'.toDelete = plan.toDeleteRemote
      /\ \A p \in UploadPaths(c) : commit'.uploads[p] = local[c][p]
      /\ commit'.toDownload = {} /\ commit'.conflicts = {}
  BY StartCommitFields
<1>2. UNCHANGED <<files, manifest, local, base, backups, used, superseded>>
  BY DEF StartCommit, ghostVars
<1>3. StoreTree' = StoreTree /\ StoreTree = files
  <2>1. TypeInv'
    BY TypeInvStep DEF Next
  <2> QED BY <1>1, <2>1, NotCommitting, StartCommitAtomic DEF Store!Begin
<1>4. NoLostEdit'
  BY <1>2, SameTexts
<1>5. \A p \in Paths : SharedKept(c, p)'
  BY <1>1, <1>2, <1>3, SharedSame DEF SafeAt, Applying
<1>6. ASSUME NEW p \in Paths PROVE CommitKept(c, p)'
  <2>1. plan = ComputeSyncPlan(local[c], manifest, files) /\ local[c] \in Trees
    BY <1>1 DEF SafeAt, TypeOK
  <2>2. /\ p \in UploadPaths(c) <=>
             p \in plan.toUpload \cup plan.conflicts \cup plan.deleteModify /\ local[c][p] # NoFile
        /\ p \in KeepServer(c) <=> p \in plan.deleteModify /\ local[c][p] = NoFile
    BY DEF UploadPaths, KeepServer
  <2>3. Kept(manifest[p], local[c][p]) /\ Kept(manifest[p], files[p])
    BY <1>1 DEF SafeAt, SharedKept, Applying
  <2> HIDE DEF plan
  <2>4. /\ p \in plan.toUpload \cup plan.conflicts => local[c][p] # NoFile /\ local[c][p] # manifest[p]
        /\ p \in plan.deleteModify => local[c][p] # manifest[p]
        /\ p \in plan.toDownload => local[c][p] = manifest[p]
        /\ p \in plan.toDeleteLocal => local[c][p] = manifest[p] /\ files[p] = NoFile
        /\ p \in plan.toDeleteRemote => local[c][p] = NoFile /\ files[p] = manifest[p]
        /\ \/ p \in plan.toUpload \cup plan.conflicts \cup plan.deleteModify
                      \cup plan.toDownload \cup plan.toDeleteLocal \cup plan.toDeleteRemote
           \/ local[c][p] = files[p]
    BY <2>1, PlanFacts
  <2>5. /\ p \in plan.toDeleteRemote => TextsOf(files[p]) \subseteq superseded
        /\ p \in plan.toDeleteLocal => p \notin UploadPaths(c) /\ TextsOf(files[p]) \subseteq superseded
    BY <2>2, <2>3, <2>4, NoTexts DEF Kept
  <2>6. p \in UploadPaths(c) \/ Kept(local[c][p], files[p])
    <3>1. local[c][p] = NoFile => Kept(local[c][p], files[p])
      BY NoTexts DEF Kept
    <3>2. local[c][p] = files[p] => Kept(local[c][p], files[p])
      BY DEF Kept
    <3> QED BY <2>2, <2>3, <2>4, <3>1, <3>2
  <2>7. p \in UploadPaths(c) \cup plan.toDownload \cup KeepServer(c) \/ Kept(files[p], local[c][p])
    <3>1. local[c][p] = files[p] => Kept(files[p], local[c][p])
      BY DEF Kept
    <3>2. TextsOf(files[p]) \subseteq superseded => Kept(files[p], local[c][p])
      BY DEF Kept
    <3> QED BY <2>2, <2>4, <2>5, <3>1, <3>2
  <2>8. TextsOf(files'[p]) \subseteq TextsOf(StoreTree'[p]) \cup TextsOf(local'[c][p])
    BY <1>2, <1>3
  <2> HIDE DEF Kept
  <2>9. Kept(local[c][p], files[p])' = Kept(local[c][p], files[p])
    BY <1>2 DEF Kept
  <2>10. Kept(files[p], local[c][p])' = Kept(files[p], local[c][p])
    BY <1>2 DEF Kept
  <2> QED BY <1>1, <1>2, <2>5, <2>6, <2>7, <2>8, <2>9, <2>10 DEF CommitKept, plan
<1> QED BY <1>1, <1>2, <1>4, <1>5, <1>6 DEF SafeAt, Applying

-----------------------------------------------------------------------------
(* The steps of the commit.                                                 *)

LEMMA CommitAt ==
  ASSUME SafeInv, OneClient, NEW c \in Clients, commit # NoCommit
  PROVE  /\ c = commit.client /\ session[c].phase = "committing" /\ ~Applying(c)
         /\ commit.base = base[c] /\ \A p \in Paths : CommitKept(c, p) /\ SharedKept(c, p)
BY PlanAlone DEF SafeInv, SafeAt, Applying

\* A step of the commit that may change one file, p
LEMMA CommitStepSafe ==
  ASSUME SafeInv, OneClient, NEW c \in Clients, NEW p \in Paths, commit # NoCommit, commit' # NoCommit,
         UNCHANGED <<manifest, local, base, backups, used>>, superseded \subseteq superseded',
         StoreTree' = StoreTree, commit'.base = commit.base, commit'.uploads = commit.uploads,
         /\ session'[c].phase = "committing" /\ session'[c].deletes = session[c].deletes
         /\ session'[c].downloads = session[c].downloads,
         commit'.toDelete \subseteq commit.toDelete, commit'.toUpload \subseteq commit.toUpload,
         commit.toUpload \subseteq commit'.toUpload \cup {p},
         commit.conflicts \subseteq commit'.conflicts, commit.toDownload \subseteq commit'.toDownload,
         \A q \in Paths \ {p} : files'[q] = files[q],
         TextsOf(files[p]) \subseteq TextsOf(files'[p]) \cup superseded',
         CommitKept(c, p)'
  PROVE  NoLostEdit' /\ SafeAt(c)'
<1>1. /\ \A q \in Paths : CommitKept(c, q) /\ SharedKept(c, q)
      /\ commit.base = base[c] /\ ~Applying(c)
  BY CommitAt
<1>2. NoLostEdit'
  <2>1. ASSUME NEW q \in Paths, NEW t \in TextsOf(files[q]) PROVE Somewhere(t)' \/ t \in superseded'
    <3>1. t \in TextsOf(files'[q]) \/ t \in superseded'
      BY <2>1
    <3> QED BY <3>1 DEF Somewhere
  <2>2. \A d \in Clients, q \in Paths : \A t \in TextsOf(local[d][q]) : Somewhere(t)'
    BY DEF Somewhere
  <2> QED BY <2>1, <2>2, NothingLost DEF SafeInv
<1>3. ASSUME NEW q \in Paths \ {p} PROVE CommitKept(c, q)' /\ SharedKept(c, q)'
  <2>1. CommitKept(c, q) /\ SharedKept(c, q) /\ files'[q] = files[q]
    BY <1>1
  <2>2. CommitKept(c, q)'
    BY <2>1 DEF CommitKept, Kept
  <2>3. SharedKept(c, q)'
    BY <1>1, <2>1 DEF SharedKept, Kept, Applying
  <2> QED BY <2>2, <2>3
<1>4. SharedKept(c, p)'
  BY <1>1 DEF SharedKept, Kept, Applying
<1> QED BY <1>1, <1>2, <1>3, <1>4 DEF SafeAt, Applying

LEMMA ApplyDeleteSafe ==
  ASSUME SafeInv, OneClient, NEW c \in Clients, NEW p \in Paths, ApplyDelete(p)
  PROVE  NoLostEdit' /\ SafeAt(c)'
<1> USE DEF SafeInv, RunInv, AtomicInv, TypeInv
<1>1. /\ commit # NoCommit /\ commit' # NoCommit /\ p \in commit.toDelete
      /\ UNCHANGED <<manifest, local, base, backups, used, superseded>>
      /\ commit'.base = commit.base /\ commit'.uploads = commit.uploads
      /\ commit'.toDelete \subseteq commit.toDelete /\ commit'.toUpload = commit.toUpload
      /\ commit'.conflicts = commit.conflicts /\ commit'.toDownload = commit.toDownload
  BY DeleteFields DEF ApplyDelete, ghostVars
<1>2. /\ CommitKept(c, p) /\ session[c].phase = "committing"
      /\ TextsOf(files[p]) \subseteq superseded
  BY <1>1, CommitAt DEF CommitKept
<1>3. StoreTree' = StoreTree
  BY ApplyDeleteAtomic DEF Store!storeVars
<1>4. /\ session'[c].phase = "committing" /\ session'[c].deletes = session[c].deletes
      /\ session'[c].downloads = session[c].downloads
  <2>1. session'[c] \in {session[c], Disturb[c]}
    BY DEF ApplyDelete
  <2> QED BY <1>2, <2>1, DisturbFields
<1>5. files'[p] \in {files[p], NoFile} /\ \A q \in Paths \ {p} : files'[q] = files[q]
  BY DEF ApplyDelete, TypeOK, Trees
<1>6. TextsOf(files'[p]) \subseteq TextsOf(files[p])
  BY <1>5, NoTexts
<1>7. CommitKept(c, p)'
  <2>1. /\ p \in commit'.toUpload => commit'.uploads[p] = local'[c][p]
        /\ TextsOf(files'[p]) \subseteq superseded'
        /\ p \in session'[c].deletes => p \notin commit'.toUpload
        /\ p \in commit'.toUpload \cup commit'.conflicts \/ Kept(local[c][p], files[p])
    BY <1>1, <1>2, <1>4, <1>6 DEF CommitKept
  <2>2. Kept(local[c][p], files[p]) => Kept(local[c][p], files[p])'
    BY <1>1, <1>2 DEF Kept
  <2>3. Kept(files[p], local[c][p])'
    BY <2>1 DEF Kept
  <2>4. TextsOf(files'[p]) \subseteq TextsOf(StoreTree'[p]) \cup TextsOf(local'[c][p])
    BY <1>1, <1>2, <1>3, <1>6 DEF CommitKept
  <2> QED BY <2>1, <2>2, <2>3, <2>4 DEF CommitKept
<1> QED BY <1>1, <1>2, <1>3, <1>4, <1>5, <1>7, CommitStepSafe

\* What an upload does to the texts of its file: the server's stay or are given up, and
\* the client's stay, are given up or are in a conflict
LEMMA UploadTexts ==
  ASSUME SafeInv, OneClient, NEW c \in Clients, NEW p \in Paths, Upload(p)
  PROVE  /\ superseded \subseteq superseded'
         /\ TextsOf(files'[p]) \subseteq TextsOf(files[p]) \cup TextsOf(local[c][p])
         /\ TextsOf(files[p]) \subseteq TextsOf(files'[p]) \cup superseded'
         /\ \/ p \in commit'.conflicts
            \/ TextsOf(local[c][p]) \subseteq TextsOf(files'[p]) \cup superseded'
<1> USE DEF SafeInv, RunInv, AtomicInv, TypeInv
<1>1. UploadReady(p) /\ commit \in CommitRequest /\ commit # NoCommit /\ p \in commit.toUpload
  BY DEF Upload, UploadPost, UploadLabels, UploadPlain, UploadReady, TypeOK
<1>2. /\ commit.uploads[p] = local[c][p] /\ commit.uploads[p] # NoFile
      /\ commit.base = base[c] /\ SharedKept(c, p) /\ ~Applying(c)
      /\ commit.conflicts \subseteq Paths
  BY <1>1, CommitAt DEF CommitKept, UploadsPresent, CommitRequest
<1> DEFINE s == files[p]
           u == commit.uploads[p]
<1>3. files \in [Paths -> State] /\ s \in State /\ u \in Content
  BY <1>1, <1>2 DEF TypeOK, Trees, CommitRequest, State
<1>4. ASSUME NEW b \in Bases(p), b # NoFile
      PROVE  /\ b \in Content /\ TextsOf(b) \subseteq TextsOf(s) \cup superseded
             /\ TextsOf(b) \subseteq TextsOf(u) \cup superseded
  <2>1. b \in State
    BY <1>1, BasesType
  <2>2. base[c] # NoTree /\ b = base[c][p]
    BY <1>2, <1>4 DEF Bases
  <2>3. Kept(base[c][p], local[c][p]) /\ Kept(base[c][p], files[p])
    BY <1>2, <2>2 DEF SharedKept
  <2>4. b \in Content
    BY <1>4, <2>1 DEF State
  <2> QED BY <1>2, <2>2, <2>3, <2>4 DEF Kept
<1>5. CASE UploadPost(p)
  <2>1. PICK b \in Bases(p), gitWorks \in {TRUE} \cup {"merge" \notin Faults} :
          LET mergeResult == MergePost(b, s, u, gitWorks)
          IN  /\ files' = [files EXCEPT ![p] = mergeResult.merged]
              /\ commit' = Merged(p, Conflicted(mergeResult))
              /\ superseded' = superseded \cup
                   IF Conflicted(mergeResult) THEN {} ELSE TieTexts(mergeResult.merged, u)
    BY <1>5 DEF UploadPost, TieTexts
  <2>2. s \in Content /\ gitWorks \in BOOLEAN
    BY <1>3, <1>5 DEF UploadPost, Differs, State
  <2>3. PICK mergeResult : mergeResult = MergePost(b, s, u, gitWorks)
    OBVIOUS
  <2>4. PICK x : x = mergeResult.merged
    OBVIOUS
  <2>5. /\ files'[p] = x
        /\ superseded' = superseded \cup (IF Conflicted(mergeResult) THEN {} ELSE TieTexts(x, u))
        /\ Conflicted(mergeResult) => p \in commit'.conflicts
    <3>1. Conflicted(mergeResult) \in BOOLEAN
      BY <2>3 DEF Conflicted, MergePost, BodyConflict
    <3>2. commit' = Merged(p, Conflicted(mergeResult))
      BY <2>1, <2>3
    <3>3. Conflicted(mergeResult) => commit'.conflicts = commit.conflicts \cup {p}
      BY <1>1, <3>1, <3>2, UploadedFields
    <3>4. files' = [files EXCEPT ![p] = x]
      BY <2>1, <2>3, <2>4
    <3>5. superseded' = superseded \cup (IF Conflicted(mergeResult) THEN {} ELSE TieTexts(x, u))
      BY <2>1, <2>3, <2>4
    <3> QED BY <1>3, <3>3, <3>4, <3>5
  <2>6. CASE b = NoFile
    <3>1. x = s /\ Conflicted(mergeResult)
      BY <2>3, <2>4, <2>6 DEF MergePost, Conflicted
    <3> QED BY <2>5, <3>1
  <2>7. CASE b # NoFile
    <3>1. /\ b \in Content /\ TextsOf(b) \subseteq TextsOf(s) \cup superseded
          /\ TextsOf(b) \subseteq TextsOf(u) \cup superseded
      BY <1>4, <2>7
    <3>2. /\ TextsOf(x) \subseteq TextsOf(s) \cup TextsOf(u)
          /\ TextsOf(s) \subseteq TextsOf(x) \cup superseded
          /\ Conflicted(mergeResult) \/ TextsOf(u) \subseteq TextsOf(x) \cup (superseded \cup TieTexts(x, u))
      BY <1>3, <2>2, <2>3, <2>4, <3>1, MergePostKeeps, SMTT(30)
    <3> QED BY <1>2, <2>5, <3>2
  <2> QED BY <2>6, <2>7
<1>6. CASE UploadLabels(p)
  <2>1. PICK b \in Bases(p) :
          LET merged == MergeLabels(b, s, u)
          IN  /\ files' = [files EXCEPT ![p] = merged]
              /\ superseded' = superseded \cup
                   IF b = NoFile THEN GivenUp(s, merged) ELSE RemovedTexts(b, s, u)
    BY <1>6 DEF UploadLabels, RemovedTexts
  <2>2. s \in Content
    BY <1>3, <1>6 DEF UploadLabels, Differs, State
  <2>3. PICK x : x = MergeLabels(b, s, u)
    OBVIOUS
  <2>4. files'[p] = x
    <3>1. files' = [files EXCEPT ![p] = x]
      BY <2>1, <2>3
    <3> QED BY <1>3, <3>1
  <2>5. CASE b = NoFile
    <3>1. x = u /\ superseded' = superseded \cup (TextsOf(s) \ TextsOf(u))
      BY <2>1, <2>3, <2>5 DEF MergeLabels, GivenUp
    <3> QED BY <1>2, <2>4, <3>1
  <2>6. CASE b # NoFile
    <3>1. superseded' = superseded \cup RemovedTexts(b, s, u)
      BY <2>1, <2>6
    <3>2. /\ TextsOf(x) \subseteq TextsOf(s) \cup TextsOf(u)
          /\ TextsOf(s) \subseteq TextsOf(x) \cup (superseded \cup RemovedTexts(b, s, u))
          /\ TextsOf(u) \subseteq TextsOf(x) \cup (superseded \cup RemovedTexts(b, s, u))
      BY <1>3, <1>4, <2>2, <2>3, <2>6, MergeLabelsKeeps
    <3> QED BY <1>2, <2>4, <3>1, <3>2
  <2> QED BY <2>5, <2>6
<1>7. CASE UploadPlain(p)
  <2>1. files'[p] = u /\ superseded' = superseded \cup (TextsOf(s) \ TextsOf(u))
    BY <1>3, <1>7 DEF UploadPlain, GivenUp
  <2> HIDE DEF u, s
  <2> QED BY <1>2, <2>1 DEF u, s
<1> QED BY <1>5, <1>6, <1>7 DEF Upload

LEMMA UploadSafe ==
  ASSUME SafeInv, OneClient, NEW c \in Clients, NEW p \in Paths, Upload(p)
  PROVE  NoLostEdit' /\ SafeAt(c)'
<1> USE DEF SafeInv, RunInv, AtomicInv, TypeInv
<1>1. /\ commit # NoCommit /\ commit' # NoCommit
      /\ p \in commit.toUpload /\ commit.toDelete = {} /\ commit'.toDelete = {}
      /\ commit'.base = commit.base /\ commit'.uploads = commit.uploads
      /\ commit'.toUpload = commit.toUpload \ {p}
      /\ commit'.toDownload \in {commit.toDownload, commit.toDownload \cup {p}}
      /\ commit'.conflicts \in {commit.conflicts, commit.conflicts \cup {p}}
      /\ p \in commit'.toDownload \/ files' = [files EXCEPT ![p] = commit.uploads[p]]
      /\ \E x : files' = [files EXCEPT ![p] = x]
      /\ UNCHANGED <<manifest, now, clientVars, used, edited>>
  BY UploadFields
<1>2. UNCHANGED <<manifest, local, base, session, backups, used>>
  BY <1>1 DEF clientVars
<1>3. CommitKept(c, p) /\ session[c].phase = "committing" /\ commit.uploads[p] = local[c][p]
  BY <1>1, CommitAt DEF CommitKept
<1>4. StoreTree' = StoreTree
  <2>1. TypeInv'
    BY UploadType, TypeInvStep DEF Next, CommitStep, Upload
  <2> QED BY <2>1, UploadAtomic DEF Upload, Store!storeVars
<1>5. /\ superseded \subseteq superseded'
      /\ TextsOf(files'[p]) \subseteq TextsOf(files[p]) \cup TextsOf(local[c][p])
      /\ TextsOf(files[p]) \subseteq TextsOf(files'[p]) \cup superseded'
      /\ p \in commit'.conflicts \/ TextsOf(local[c][p]) \subseteq TextsOf(files'[p]) \cup superseded'
  BY UploadTexts
<1>6. \A q \in Paths \ {p} : files'[q] = files[q]
  BY <1>1
<1>7. CommitKept(c, p)'
  <2>1. p \notin commit'.toUpload /\ p \notin commit'.toDelete /\ p \notin session'[c].deletes
    BY <1>1, <1>2, <1>3 DEF CommitKept
  <2>2. p \in commit'.conflicts \/ Kept(local[c][p], files[p])'
    BY <1>2, <1>5 DEF Kept
  <2>3. p \in commit'.toDownload \/ Kept(files[p], local[c][p])'
    <3>1. CASE files' = [files EXCEPT ![p] = commit.uploads[p]]
      <4>1. files'[p] = local'[c][p]
        BY <1>2, <1>3, <3>1 DEF TypeOK, Trees
      <4> QED BY <4>1 DEF Kept
    <3> QED BY <1>1, <3>1
  <2>4. TextsOf(files'[p]) \subseteq TextsOf(StoreTree'[p]) \cup TextsOf(local'[c][p])
    BY <1>2, <1>3, <1>4, <1>5 DEF CommitKept
  <2> QED BY <2>1, <2>2, <2>3, <2>4 DEF CommitKept
<1> QED BY <1>1, <1>2, <1>3, <1>4, <1>5, <1>6, <1>7, CommitStepSafe

\* A new stamp leaves the texts as they are
LEMMA NormalizeSafe ==
  ASSUME SafeInv, OneClient, NEW c \in Clients, Normalize
  PROVE  NoLostEdit' /\ SafeAt(c)'
<1> USE DEF SafeInv, RunInv, AtomicInv, TypeInv
<1>1. /\ commit # NoCommit /\ commit' # NoCommit
      /\ commit.toDelete = {} /\ commit.toUpload = {}
      /\ commit'.toDelete = {} /\ commit'.toUpload = {} /\ commit'.base = commit.base
      /\ commit'.conflicts = commit.conflicts /\ commit'.uploaded = commit.uploaded
      /\ commit.toDownload \subseteq commit'.toDownload
      /\ \A p \in Paths :
           \/ files'[p] = files[p]
           \/ /\ files[p] # NoFile /\ p \in commit.uploaded
              /\ files'[p] = [files[p] EXCEPT !.modified = now + 1]
  BY NormalizeFields
<1>2. UNCHANGED <<manifest, local, base, session, backups, used, superseded>>
  BY DEF Normalize, clientVars, ghostVars
<1>3. TypeInv'
  BY TypeInvStep DEF Next, CommitStep
<1>4. \A p \in Paths : TextsOf(files'[p]) = TextsOf(files[p])
  <2> SUFFICES ASSUME NEW p \in Paths, files[p] # NoFile, p \in commit.uploaded,
                      files'[p] = [files[p] EXCEPT !.modified = now + 1]
               PROVE  TextsOf(files'[p]) = TextsOf(files[p])
    BY <1>1
  <2>1. files[p] \in Content
    BY DEF TypeOK, Trees, State
  <2>2. files'[p].fields = files[p].fields
    BY <2>1 DEF Content
  <2>3. files'[p] # NoFile
    BY <1>1, <1>3 DEF UploadsPresent
  <2> QED BY <2>2, <2>3 DEF TextsOf
<1>5. StoreTree' = StoreTree
  BY <1>3, NormalizeAtomic DEF Store!storeVars
<1>6. /\ \A p \in Paths : CommitKept(c, p) /\ SharedKept(c, p)
      /\ session[c].phase = "committing" /\ commit.base = base[c] /\ ~Applying(c)
  BY <1>1, CommitAt
<1>7. NoLostEdit'
  <2>1. \A p \in Paths : \A t \in TextsOf(files[p]) : Somewhere(t)'
    BY <1>4 DEF Somewhere
  <2>2. \A d \in Clients, p \in Paths : \A t \in TextsOf(local[d][p]) : Somewhere(t)'
    BY <1>2 DEF Somewhere
  <2> QED BY <1>2, <2>1, <2>2, NothingLost
<1>8. ASSUME NEW p \in Paths PROVE CommitKept(c, p)' /\ SharedKept(c, p)'
  <2>1. CommitKept(c, p) /\ SharedKept(c, p) /\ TextsOf(files'[p]) = TextsOf(files[p])
    BY <1>4, <1>6
  <2>2. CommitKept(c, p)'
    BY <1>1, <1>2, <1>5, <2>1 DEF CommitKept, Kept
  <2>3. SharedKept(c, p)'
    BY <1>2, <1>5, <1>6, <2>1 DEF SharedKept, Kept, Applying
  <2> QED BY <2>2, <2>3
<1> QED BY <1>1, <1>2, <1>6, <1>7, <1>8 DEF SafeAt, Applying

\* Whatever the rollback brings back, the texts of the files it replaces are the
\* client's or were there before
LEMMA RejectSafe ==
  ASSUME SafeInv, OneClient, NEW c \in Clients, Reject \/ Crash
  PROVE  NoLostEdit' /\ SafeAt(c)'
<1> USE DEF SafeInv, RunInv, AtomicInv, TypeInv
<1>1. commit # NoCommit /\ commit' = NoCommit
  BY DEF Reject, Crash
<1>2. /\ \A p \in Paths : CommitKept(c, p) /\ SharedKept(c, p)
      /\ c = commit.client /\ ~Applying(c)
  BY <1>1, CommitAt
<1>3. UNCHANGED <<manifest, local, base, backups, used, superseded>>
  BY DEF Reject, Crash, ghostVars
<1>4. session'[c].phase = "idle"
  BY <1>2, IdleFields DEF Reject, Crash, Disturb
<1>5. \A p \in Paths : files'[p] \in {files[p], StoreTree[p]}
  BY <1>1 DEF Reject, Crash, Restored, StoreTree, Touched
<1>6. \A p \in Paths : StoreTree'[p] = files'[p]
  BY <1>1 DEF StoreTree
<1>7. NoLostEdit'
  <2>1. ASSUME NEW p \in Paths, NEW t \in TextsOf(files[p]) PROVE Somewhere(t)'
    <3>1. t \in TextsOf(files'[p]) \/ t \in TextsOf(local'[c][p])
      <4>1. TextsOf(files[p]) \subseteq TextsOf(StoreTree[p]) \cup TextsOf(local[c][p])
        BY <1>2 DEF CommitKept
      <4> QED BY <1>3, <1>5, <2>1, <4>1
    <3> QED BY <3>1 DEF Somewhere
  <2>2. \A d \in Clients, p \in Paths : \A t \in TextsOf(local[d][p]) : Somewhere(t)'
    BY <1>3 DEF Somewhere
  <2> QED BY <1>3, <2>1, <2>2, NothingLost
<1>8. ASSUME NEW p \in Paths PROVE SharedKept(c, p)'
  <2>1. SharedKept(c, p) /\ files'[p] \in {files[p], StoreTree[p]} /\ StoreTree'[p] = files'[p]
    BY <1>2, <1>5, <1>6
  <2> QED BY <1>2, <1>3, <2>1 DEF SharedKept, Kept
<1> QED BY <1>1, <1>4, <1>7, <1>8 DEF SafeAt, Applying

\* What the client held of a conflict is in its backups
LEMMA FinishCommitSafe ==
  ASSUME SafeInv, OneClient, NEW c \in Clients, FinishCommit, Faults \cap {"lost", "backup"} = {}
  PROVE  NoLostEdit' /\ SafeAt(c)'
<1> USE DEF SafeInv, RunInv, AtomicInv, TypeInv
<1>1. commit # NoCommit /\ commit' = NoCommit /\ commit.normalized
  BY DEF FinishCommit
<1>2. /\ \A p \in Paths : CommitKept(c, p) /\ SharedKept(c, p)
      /\ c = commit.client /\ ~Applying(c) /\ commit.base = base[c]
      /\ commit.toUpload = {}
  BY <1>1, CommitAt DEF CommitterInv
<1>3. "lost" \notin Faults /\ BackedUp = {Conflicting}
  BY DEF BackedUp
<1>4. /\ UNCHANGED <<files, local, base, used, superseded>>
      /\ manifest' \in {files, manifest}
      /\ session'[c].phase = "applying"
      /\ session'[c].downloads = session[c].downloads \cup commit.toDownload
      /\ session'[c].deletes = session[c].deletes /\ session'[c].newBase \in {files, NoTree}
      /\ backups'[c] = backups[c] \cup Conflicting
  BY <1>2, <1>3, FinishCommitFields DEF ghostVars
<1>5. \A p \in Paths : StoreTree'[p] = files'[p]
  BY <1>1 DEF StoreTree
<1>6. NoLostEdit'
  <2>1. \A d \in Clients : backups[d] \subseteq backups'[d]
    BY <1>2, FinishCommitFields, <1>4
  <2> QED BY <1>4, <2>1, SameTexts
<1>7. ASSUME NEW p \in Paths PROVE SharedKept(c, p)' /\ ApplyKept(c, p)'
  <2>1. CommitKept(c, p) /\ SharedKept(c, p) /\ StoreTree'[p] = files'[p]
    BY <1>2, <1>5
  <2>2. manifest'[p] \in {files[p], manifest[p]}
    BY <1>4
  <2>3. SharedKept(c, p)'
    BY <1>2, <1>4, <2>1, <2>2 DEF SharedKept, Kept, Applying
  <2>4. p \in commit.conflicts => TextsOf(local[c][p]) \subseteq Saved(c)'
    <3>1. local[c][p] = NoFile \/ p \notin commit.conflicts \/ local[c][p] \in backups'[c]
      BY <1>2, <1>4 DEF Conflicting
    <3> QED BY <3>1, NoTexts DEF Saved
  <2>5. TextsOf(local'[c][p]) \subseteq TextsOf(files'[p]) \cup superseded' \cup Saved(c)'
    BY <1>2, <1>4, <2>1, <2>4 DEF CommitKept, Kept
  <2>6. ApplyKept(c, p)'
    BY <1>2, <1>4, <2>1, <2>5 DEF ApplyKept, CommitKept, Kept
  <2> QED BY <2>3, <2>6
<1> QED BY <1>1, <1>4, <1>6, <1>7 DEF SafeAt, Applying

-----------------------------------------------------------------------------
(* The client's directory.                                                  *)

\* A download, or a local deletion, overwrites what is on the server, given up or saved
LEMMA ApplySafe ==
  ASSUME SafeInv, OneClient, NEW c \in Clients, NEW p \in Paths, Download(c, p) \/ DeleteLocal(c, p),
         Faults \cap {"download", "remove"} = {}
  PROVE  NoLostEdit' /\ SafeAt(c)'
<1> USE DEF SafeInv, RunInv, AtomicInv, TypeInv
<1>1. /\ Applying(c) /\ session'[c].phase = "applying"
      /\ session'[c].newBase = session[c].newBase
      /\ UNCHANGED <<files, manifest, commit, base, backups, used, superseded>>
      /\ \A d \in Clients \ {c} : local'[d] = local[d]
      /\ \A q \in Paths \ {p} : local'[c][q] = local[c][q]
  BY ApplyFields DEF serverVars, ghostVars
<1>2. commit = NoCommit /\ StoreTree = files
  BY <1>1, NotCommitting DEF Applying
<1>3. /\ \A q \in Paths : SharedKept(c, q) /\ ApplyKept(c, q)
      /\ session[c].newBase \in {NoTree, files}
  BY <1>1 DEF SafeAt
<1>4. /\ session'[c].downloads \subseteq session[c].downloads
      /\ session'[c].deletes \subseteq session[c].deletes
      /\ session[c].downloads \subseteq session'[c].downloads \cup {p}
      /\ p \notin session'[c].downloads \cup session'[c].deletes \/ p \in session[c].deletes
      /\ Kept(files[p], local[c][p])'
      /\ TextsOf(local'[c][p]) \subseteq TextsOf(files[p]) \/ local'[c][p] = local[c][p]
  <2>1. session[c] \in Sessions /\ local[c] \in Trees
    BY DEF TypeOK
  <2>2. "download" \notin Faults /\ "remove" \notin Faults
    OBVIOUS
  <2>3. CASE Download(c, p)
    <3>1. session'[c].downloads = session[c].downloads \ {p} /\ session'[c].deletes = session[c].deletes
      BY <2>1, <2>3 DEF Download, TypeOK, Sessions
    <3>2. local'[c][p] = files[p] \/ (files[p] = NoFile /\ local'[c][p] = local[c][p])
      BY <2>1, <2>2, <2>3 DEF Download, TypeOK, Trees
    <3> QED BY <1>1, <3>1, <3>2, NoTexts DEF Kept
  <2>4. CASE DeleteLocal(c, p)
    <3>1. /\ session'[c].downloads = session[c].downloads /\ session'[c].deletes = session[c].deletes \ {p}
          /\ p \in session[c].deletes
      BY <2>1, <2>4 DEF DeleteLocal, TypeOK, Sessions
    <3>2. local'[c][p] = NoFile
      BY <2>1, <2>2, <2>4 DEF DeleteLocal, TypeOK, Trees
    <3>3. TextsOf(files[p]) \subseteq superseded
      BY <1>3, <3>1 DEF ApplyKept
    <3> QED BY <1>1, <3>1, <3>2, <3>3, NoTexts DEF Kept
  <2> QED BY <2>3, <2>4
<1>5. NoLostEdit'
  <2>1. \A q \in Paths : \A t \in TextsOf(files[q]) : Somewhere(t)'
    BY <1>1 DEF Somewhere
  <2>2. ASSUME NEW d \in Clients, NEW q \in Paths, NEW t \in TextsOf(local[d][q])
        PROVE  Somewhere(t)' \/ t \in superseded'
    <3>1. CASE d = c /\ q = p
      <4>1. t \in TextsOf(files[p]) \cup superseded \cup Saved(c)
        BY <1>3, <2>2, <3>1 DEF ApplyKept
      <4>2. t \in Saved(c) => Somewhere(t)'
        BY <1>1 DEF Saved, Somewhere
      <4> QED BY <1>1, <2>1, <4>1, <4>2
    <3>2. CASE ~(d = c /\ q = p)
      <4>1. local'[d][q] = local[d][q]
        BY <1>1, <3>2
      <4> QED BY <2>2, <4>1 DEF Somewhere
    <3> QED BY <3>1, <3>2
  <2> QED BY <1>1, <2>1, <2>2, NothingLost
<1>6. ASSUME NEW q \in Paths PROVE SharedKept(c, q)' /\ ApplyKept(c, q)'
  <2>1. SharedKept(c, q) /\ ApplyKept(c, q) /\ StoreTree'[q] = StoreTree[q]
    BY <1>1, <1>2, <1>3 DEF StoreTree
  <2>2. SharedKept(c, q)'
    BY <1>1, <2>1 DEF SharedKept, Kept, Applying
  <2>3. CASE q = p
    <3>1. Saved(c)' = Saved(c)
      BY <1>1 DEF Saved
    <3>2. /\ p \in session'[c].deletes => TextsOf(files'[p]) \subseteq superseded'
          /\ TextsOf(local'[c][p]) \subseteq TextsOf(files'[p]) \cup superseded' \cup Saved(c)'
      BY <1>1, <1>4, <2>1, <2>3, <3>1 DEF ApplyKept
    <3> QED BY <1>4, <2>2, <2>3, <3>2 DEF ApplyKept
  <2>4. CASE q # p
    <3>1. local'[c][q] = local[c][q] /\ Saved(c)' = Saved(c)
      BY <1>1, <2>4 DEF Saved
    <3> QED BY <1>1, <1>4, <2>1, <2>2, <2>4, <3>1 DEF ApplyKept, Kept
  <2> QED BY <2>2, <2>3, <2>4
<1> QED BY <1>1, <1>2, <1>3, <1>5, <1>6 DEF SafeAt, Applying

\* The new base is what both sides have now
LEMMA FinishSyncSafe ==
  ASSUME SafeInv, OneClient, NEW c \in Clients, FinishSync(c)
  PROVE  NoLostEdit' /\ SafeAt(c)'
<1> USE DEF SafeInv, RunInv, AtomicInv, TypeInv
<1>1. /\ Applying(c) /\ session[c].downloads = {}
      /\ UNCHANGED <<files, manifest, commit, local, backups, used, superseded>>
      /\ base'[c] = (IF session[c].newBase = NoTree THEN base[c] ELSE session[c].newBase)
      /\ session'[c] = IdleSession
  BY DEF FinishSync, Applied, serverVars, TypeOK
<1>2. commit = NoCommit /\ StoreTree = files
  BY <1>1, NotCommitting DEF Applying
<1>3. NoLostEdit'
  BY <1>1, SameTexts
<1>4. ASSUME NEW p \in Paths PROVE SharedKept(c, p)'
  <2>1. /\ SharedKept(c, p) /\ Kept(files[p], local[c][p])
        /\ session[c].newBase \in {NoTree, files}
    BY <1>1 DEF SafeAt, ApplyKept
  <2>2. StoreTree'[p] = files[p] /\ StoreTree[p] = files[p]
    BY <1>1, <1>2 DEF StoreTree
  <2>3. Kept(manifest[p], local[c][p]) /\ Kept(manifest[p], files[p])
    BY <2>1 DEF SharedKept, Kept
  <2>4. base'[c] # NoTree => Kept(base'[c][p], local[c][p]) /\ Kept(base'[c][p], files[p])
    <3>1. CASE base'[c] = files
      BY <2>1, <3>1 DEF Kept
    <3>2. CASE base'[c] = base[c]
      BY <2>1, <3>2 DEF SharedKept, Kept
    <3> QED BY <1>1, <2>1, <3>1, <3>2
  <2> QED BY <1>1, <2>2, <2>3, <2>4 DEF SharedKept, Kept
<1> QED BY <1>1, <1>2, <1>3, <1>4, IdleFields DEF SafeAt, Applying

-----------------------------------------------------------------------------
(* Edits.                                                                   *)

LEMMA AuthorLosesNothing ==
  ASSUME TypeOK, NoLostEdit, NEW before, NEW after, Author(before, after),
         \A t \in TextsOf(after) : Somewhere(t)',
         \A t : Somewhere(t) => Somewhere(t)' \/ t \in TextsOf(before)
  PROVE  NoLostEdit'
<1> SUFFICES ASSUME NEW t \in (Regions \X (1 .. used')) \ superseded'
             PROVE  Somewhere(t)'
  BY DEF NoLostEdit
<1>1. PICK r \in Regions, k \in 1 .. used' : t = <<r, k>>
  OBVIOUS
<1>2. used \in Nat /\ used' = used + 1
  BY ProtocolAssumption DEF TypeOK, Tokens, Author, Fresh
<1>3. CASE k = Fresh
  <2>1. t \in Regions \X {Fresh}
    BY <1>1, <1>3
  <2> QED BY <2>1 DEF Author
<1>4. CASE k # Fresh
  <2>1. t \in Regions \X (1 .. used)
    BY <1>1, <1>2, <1>4 DEF Fresh
  <2>2. Somewhere(t)
    BY <2>1 DEF NoLostEdit, Author
  <2> QED BY <2>2 DEF Author
<1> QED BY <1>3, <1>4

LEMMA LocalEditSafe ==
  ASSUME SafeInv, OneClient, QuietClients, NEW c \in Clients, NEW p \in Paths, LocalEdit(c, p)
  PROVE  NoLostEdit' /\ SafeAt(c)'
<1> USE DEF SafeInv, RunInv, AtomicInv, TypeInv
<1>1. PICK after : Author(local[c][p], after) /\ local' = [local EXCEPT ![c][p] = after]
  BY DEF LocalEdit
<1>2. /\ UNCHANGED <<files, manifest, commit, base, backups>>
      /\ session[c].phase = "idle" /\ session'[c].phase = "idle"
  BY DEF LocalEdit, serverVars, Idle
<1>3. /\ local'[c][p] = after
      /\ \A d \in Clients, q \in Paths : d # c \/ q # p => local'[d][q] = local[d][q]
  BY <1>1 DEF TypeOK, Trees
<1>4. NoLostEdit'
  <2>1. \A t \in TextsOf(after) : Somewhere(t)'
    BY <1>3 DEF Somewhere
  <2>2. ASSUME NEW t, Somewhere(t) PROVE Somewhere(t)' \/ t \in TextsOf(local[c][p])
    <3>1. CASE \E q \in Paths : t \in TextsOf(files[q])
      BY <1>2, <3>1 DEF Somewhere
    <3>2. CASE \E d \in Clients : \E q \in Paths : t \in TextsOf(local[d][q])
      BY <1>3, <3>2 DEF Somewhere
    <3>3. CASE \E d \in Clients : \E saved \in backups[d] : t \in TextsOf(saved)
      BY <1>2, <3>3 DEF Somewhere
    <3> QED BY <2>2, <3>1, <3>2, <3>3 DEF Somewhere
  <2> QED BY <1>1, <2>1, <2>2, AuthorLosesNothing
<1>5. commit = NoCommit
  BY <1>2, NotCommitting
<1>6. /\ superseded \subseteq superseded'
      /\ \A q \in Paths : TextsOf(local[c][q]) \subseteq TextsOf(local'[c][q]) \cup superseded'
  BY <1>1, <1>3 DEF Author
<1>7. ASSUME NEW q \in Paths PROVE SharedKept(c, q)'
  <2>1. SharedKept(c, q) /\ StoreTree'[q] = files[q] /\ StoreTree[q] = files[q]
    BY <1>2, <1>5 DEF SafeAt, StoreTree
  <2> QED BY <1>2, <1>6, <2>1 DEF SharedKept, Kept, Applying
<1> QED BY <1>2, <1>4, <1>5, <1>7 DEF SafeAt, Applying

LEMMA WebEditSafe ==
  ASSUME SafeInv, QuietServer, NEW c \in Clients, NEW p \in Paths, WebEdit(p)
  PROVE  NoLostEdit' /\ SafeAt(c)'
<1> USE DEF SafeInv, RunInv, AtomicInv, TypeInv
<1>1. PICK after \in Edits(files[p]) :
        /\ Author(files[p], after)
        /\ files' = [files EXCEPT ![p] =
             IF after # NoFile /\ p \in PostPaths THEN [after EXCEPT !.modified = now + 1] ELSE after]
  BY DEF WebEdit
<1>2. /\ commit = NoCommit /\ commit' = NoCommit /\ now < MaxNow
      /\ UNCHANGED <<manifest, local, base, backups>>
      /\ session[c].phase = "idle" /\ session'[c].phase = "idle"
  BY DEF WebEdit, Idle, Disturb
<1>3. TextsOf(files'[p]) = TextsOf(after) /\ \A q \in Paths \ {p} : files'[q] = files[q]
  <2>1. files[p] \in State /\ after \in State
    <3>1. files[p] \in State
      BY DEF TypeOK, Trees
    <3> QED BY <1>1, <3>1, EditsType DEF Author
  <2>2. ASSUME after # NoFile
        PROVE  TextsOf([after EXCEPT !.modified = now + 1]) = TextsOf(after)
    <3>1. after \in Content
      BY <2>1, <2>2 DEF State
    <3>2. now + 1 \in 0 .. MaxNow
      BY <1>2, ProtocolAssumption DEF TypeOK
    <3>3. /\ [after EXCEPT !.modified = now + 1] \in Content
          /\ [after EXCEPT !.modified = now + 1].fields = after.fields
      BY <3>1, <3>2 DEF Content
    <3>4. [after EXCEPT !.modified = now + 1] # NoFile
      BY <3>3, SentinelAssumption
    <3> QED BY <2>2, <3>3, <3>4 DEF TextsOf
  <2> QED BY <1>1, <2>2 DEF TypeOK, Trees
<1>4. NoLostEdit'
  <2>1. \A t \in TextsOf(after) : Somewhere(t)'
    BY <1>3 DEF Somewhere
  <2>2. ASSUME NEW t, Somewhere(t) PROVE Somewhere(t)' \/ t \in TextsOf(files[p])
    <3>1. CASE \E q \in Paths : t \in TextsOf(files[q])
      BY <1>3, <3>1 DEF Somewhere
    <3>2. CASE \E d \in Clients : \/ \E q \in Paths : t \in TextsOf(local[d][q])
                                  \/ \E saved \in backups[d] : t \in TextsOf(saved)
      BY <1>2, <3>2 DEF Somewhere
    <3> QED BY <2>2, <3>1, <3>2 DEF Somewhere
  <2> QED BY <1>1, <2>1, <2>2, AuthorLosesNothing
<1>5. /\ superseded \subseteq superseded'
      /\ \A q \in Paths : TextsOf(files[q]) \subseteq TextsOf(files'[q]) \cup superseded'
  BY <1>1, <1>3 DEF Author
<1>6. ASSUME NEW q \in Paths PROVE SharedKept(c, q)'
  <2>1. SharedKept(c, q) /\ StoreTree'[q] = files'[q] /\ StoreTree[q] = files[q]
    BY <1>2 DEF SafeAt, StoreTree
  <2> QED BY <1>2, <1>5, <2>1 DEF SharedKept, Kept, Applying
<1> QED BY <1>2, <1>4, <1>6 DEF SafeAt, Applying

-----------------------------------------------------------------------------
LEMMA SafeInit == Init => SafeInv
<1> SUFFICES ASSUME Init PROVE SafeInv
  OBVIOUS
<1>1. RunInv /\ commit = NoCommit
  BY RunInvInit DEF Init
<1>2. NoLostEdit
  BY DEF Init, NoLostEdit
<1> SUFFICES ASSUME NEW c \in Clients PROVE SafeAt(c)
  BY <1>1, <1>2 DEF SafeInv
<1>3. session[c].phase = "idle"
  BY IdleFields DEF Init
<1>4. ASSUME NEW p \in Paths PROVE SharedKept(c, p)
  <2>1. StoreTree[p] = files[p]
    BY <1>1 DEF StoreTree
  <2>2. CASE manifest = files /\ local = [d \in Clients |-> files] /\ base = [d \in Clients |-> files]
    BY <2>1, <2>2 DEF SharedKept, Kept
  <2>3. CASE manifest = NoTreeFiles /\ base = [d \in Clients |-> NoTree]
    <3>1. manifest[p] = NoFile /\ base[c] = NoTree
      BY <2>3 DEF NoTreeFiles
    <3> QED BY <3>1, NoTexts DEF SharedKept, Kept
  <2> QED BY <2>2, <2>3 DEF Init
<1> QED BY <1>1, <1>3, <1>4 DEF SafeAt, Applying

LEMMA SafeStep ==
  ASSUME OneClient, QuietServer, QuietClients,
         Faults \cap {"lost", "download", "remove", "backup"} = {}
  PROVE  SafeInv /\ [Next]_vars => SafeInv'
<1> SUFFICES ASSUME SafeInv, [Next]_vars PROVE SafeInv'
  OBVIOUS
<1>1. RunInv'
  BY RunInvStep DEF SafeInv
<1> DEFINE Goal(c) == NoLostEdit' /\ SafeAt(c)'
<1>2. ASSUME NEW c \in Clients PROVE Goal(c)
  <2>1. \A d \in Clients : d = c
    BY DEF OneClient
  <2>2. ~Abandon(c)
    BY DEF Abandon
  <2>3. ASSUME UNCHANGED vars PROVE Goal(c)
    <3>1. UNCHANGED <<files, manifest, commit, local, base, session, backups, used, superseded>>
      BY <2>3 DEF vars, serverVars, clientVars, ghostVars
    <3>2. StoreTree' = StoreTree
      BY <3>1, ClientAtomic DEF SafeInv, RunInv, Store!storeVars
    <3>3. NoLostEdit'
      BY <3>1, SameTexts DEF SafeInv
    <3> QED BY <3>1, <3>2, <3>3 DEF SafeInv, SafeAt, SharedKept, CommitKept, ApplyKept, Kept,
                                   Saved, Applying
  <2>4. ASSUME Status(c) \/ Cancel(c) \/ StartCommit(c) PROVE Goal(c)
    BY <2>4, PlanSafe, StartCommitSafe
  <2>5. ASSUME NEW p \in Paths, ApplyDelete(p) \/ Upload(p) \/ Normalize PROVE Goal(c)
    BY <2>5, ApplyDeleteSafe, UploadSafe, NormalizeSafe
  <2>6. ASSUME Normalize \/ Reject \/ Crash PROVE Goal(c)
    BY <2>6, NormalizeSafe, RejectSafe
  <2>7. ASSUME FinishCommit PROVE Goal(c)
    <3>1. Faults \cap {"lost", "backup"} = {}
      OBVIOUS
    <3> QED BY <2>7, <3>1, FinishCommitSafe
  <2>8. ASSUME NEW p \in Paths, Download(c, p) \/ DeleteLocal(c, p) PROVE Goal(c)
    <3>1. Faults \cap {"download", "remove"} = {}
      OBVIOUS
    <3> QED BY <2>8, <3>1, ApplySafe
  <2>9. ASSUME FinishSync(c) PROVE Goal(c)
    BY <2>9, FinishSyncSafe
  <2>10. ASSUME NEW p \in Paths, LocalEdit(c, p) \/ WebEdit(p) PROVE Goal(c)
    BY <2>10, LocalEditSafe, WebEditSafe
  <2> QED BY <2>1, <2>2, <2>3, <2>4, <2>5, <2>6, <2>7, <2>8, <2>9, <2>10
          DEF Next, ApplyStep, CommitStep, Upload
<1> QED BY <1>1, <1>2 DEF OneClient, SafeInv

\* What an author wrote on either side stays on the server, in the directory or in a
\* backup until an author, or a documented rule of the merge, gives it up: for the only
\* client of a server, any files and edits, with nobody editing during a run, as long as
\* answers arrive and the client can write its own files.
THEOREM NoEditIsLost ==
  ASSUME OneClient, QuietServer, QuietClients,
         Faults \cap {"lost", "download", "remove", "backup"} = {}
  PROVE  Spec => []NoLostEdit
<1>1. SafeInv /\ [Next]_vars => SafeInv'
  BY SafeStep
<1>2. SafeInv => NoLostEdit
  BY DEF SafeInv
<1> QED BY <1>1, <1>2, SafeInit, PTL DEF Spec
=============================================================================
