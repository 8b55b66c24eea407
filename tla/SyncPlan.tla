------------------------------ MODULE SyncPlan ------------------------------
(***************************************************************************)
(* compute_sync_plan of backend/services/sync_service.py: what one run of  *)
(* the sync client should do with each managed path, decided from three    *)
(* file states: the client's scan, the server's stored manifest and the    *)
(* server's own scan.                                                      *)
(*                                                                         *)
(* A file state is a function from paths to contents; a path that is not   *)
(* in the manifest dictionary of the code is mapped to NoFile.  The code   *)
(* compares SHA-256 digests; a content stands for its digest, so equality  *)
(* of contents is equality of digests.                                     *)
(***************************************************************************)

CONSTANT NoFile   \* the state of a path that holds no file

(***************************************************************************)
(* The branches of the planning loop, one operator per list of SyncPlan.   *)
(* c, m and s are the client, manifest and server states over one set of   *)
(* paths.                                                                  *)
(***************************************************************************)
InAll(c, m, s, p) == c[p] # NoFile /\ m[p] # NoFile /\ s[p] # NoFile

\* Mutant: a file created by the client is forgotten
ToUploadKnownOnly(c, m, s) == {p \in DOMAIN c : InAll(c, m, s, p) /\ c[p] # m[p] /\ s[p] = m[p]}

ToUpload(c, m, s) == {p \in DOMAIN c :
  \/ InAll(c, m, s, p) /\ c[p] # m[p] /\ s[p] = m[p]
  \/ c[p] # NoFile /\ m[p] = NoFile /\ s[p] = NoFile}

ToDownload(c, m, s) == {p \in DOMAIN c :
  \/ InAll(c, m, s, p) /\ c[p] = m[p] /\ s[p] # m[p]
  \/ c[p] = NoFile /\ m[p] = NoFile /\ s[p] # NoFile}

\* Mutant: the client's file is deleted although the client changed it
ToDeleteLocalAlways(c, m, s) == {p \in DOMAIN c :
  c[p] # NoFile /\ m[p] # NoFile /\ s[p] = NoFile}

ToDeleteLocal(c, m, s) == {p \in DOMAIN c :
  c[p] # NoFile /\ m[p] # NoFile /\ s[p] = NoFile /\ c[p] = m[p]}

\* Mutant: the server's file is deleted although the server changed it
ToDeleteRemoteAlways(c, m, s) == {p \in DOMAIN c :
  c[p] = NoFile /\ m[p] # NoFile /\ s[p] # NoFile}

ToDeleteRemote(c, m, s) == {p \in DOMAIN c :
  c[p] = NoFile /\ m[p] # NoFile /\ s[p] # NoFile /\ s[p] = m[p]}

\* ChangeType.CONFLICT: both sides hold the file, with different contents
MergeConflicts(c, m, s) == {p \in DOMAIN c :
  \/ InAll(c, m, s, p) /\ c[p] # m[p] /\ s[p] # m[p] /\ c[p] # s[p]
  \/ c[p] # NoFile /\ m[p] = NoFile /\ s[p] # NoFile /\ c[p] # s[p]}

\* ChangeType.DELETE_MODIFY_CONFLICT: one side deleted, the other one changed
DeleteModifyConflicts(c, m, s) == {p \in DOMAIN c :
  \/ c[p] # NoFile /\ m[p] # NoFile /\ s[p] = NoFile /\ c[p] # m[p]
  \/ c[p] = NoFile /\ m[p] # NoFile /\ s[p] # NoFile /\ s[p] # m[p]}

NoChange(c, m, s) == {p \in DOMAIN c :
  \/ InAll(c, m, s, p) /\ c[p] = m[p] /\ s[p] = m[p]
  \/ InAll(c, m, s, p) /\ c[p] # m[p] /\ s[p] # m[p] /\ c[p] = s[p]
  \/ c[p] # NoFile /\ m[p] = NoFile /\ s[p] # NoFile /\ c[p] = s[p]
  \/ c[p] = NoFile /\ m[p] # NoFile /\ s[p] = NoFile}

ComputeSyncPlan(c, m, s) ==
  [toUpload       |-> ToUpload(c, m, s),
   toDownload     |-> ToDownload(c, m, s),
   toDeleteLocal  |-> ToDeleteLocal(c, m, s),
   toDeleteRemote |-> ToDeleteRemote(c, m, s),
   conflicts      |-> MergeConflicts(c, m, s),
   deleteModify   |-> DeleteModifyConflicts(c, m, s),
   noChange       |-> NoChange(c, m, s)]

PlanLists == {"toUpload", "toDownload", "toDeleteLocal", "toDeleteRemote",
              "conflicts", "deleteModify", "noChange"}

Plans(paths) == [PlanLists -> SUBSET paths]
=============================================================================
