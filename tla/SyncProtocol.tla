----------------------------- MODULE SyncProtocol -----------------------------
(***************************************************************************)
(* The bidirectional sync between the AgBlogger server and its CLI         *)
(* clients: backend/api/sync.py, backend/services/sync_service.py and      *)
(* cli/agblogger_cli/sync_client.py.                                       *)
(*                                                                         *)
(* One run of a client is: status (scan and plan), the user's confirmation *)
(* of the plan, commit (uploads and deletions, one request), and then      *)
(* downloads and local deletions, one file at a time.  The server handles  *)
(* status and commit under the content write lock; a commit touches one    *)
(* file after another and undoes what it did when it fails.  Downloads     *)
(* take no lock.  In between, authors edit files on either side.           *)
(***************************************************************************)
EXTENDS SyncMerge

CONSTANTS
  Clients,       \* the directories synced with this server
  PostPaths,     \* posts/<name>/index.md, merged field by field
  LabelPaths,    \* labels.toml, merged label by label
  PlainPaths,    \* pages, index.toml and assets: no merge, the upload wins
  NoTree,        \* no last_sync_commit
  Untouched,     \* a path the running commit has not touched
  NoCommit,      \* the content write lock is not held by a commit
  MaxToken,      \* bound: how many edits authors make
  MaxNow,        \* bound: how many times the server stamps a post
  Faults,        \* the failures that may happen
  QuietServer,   \* TRUE: no edit on the server while a client runs
  QuietClients   \* TRUE: no edit in a directory while its client runs

Paths  == PostPaths \cup LabelPaths \cup PlainPaths
Tokens == 0 .. MaxToken
Texts  == Regions \X Tokens

Fault == {"io",        \* a file cannot be written while a commit is applied
          "unlink",    \* the server cannot delete a file
          "quota",     \* the result is larger than the storage limit
          "git",       \* git commit fails or times out
          "merge",     \* git merge-file fails or times out
          "base",      \* git cannot show the merge base
          "manifest",  \* the manifest cannot be stored
          "restore",   \* a file cannot be restored in a rollback
          "crash",     \* the server dies while it applies a commit
          "lost",      \* the answer to a commit does not reach the client
          "backup",    \* the client cannot write its backups, and goes on
          "download",  \* a file cannot be downloaded, or written locally
          "remove"}    \* a local file cannot be deleted

ASSUME ProtocolAssumption ==
  /\ PostPaths \cap LabelPaths = {} /\ PostPaths \cap PlainPaths = {}
  /\ LabelPaths \cap PlainPaths = {}
  /\ MaxToken \in Nat /\ MaxNow \in Nat
  /\ Faults \subseteq Fault
  /\ QuietServer \in BOOLEAN /\ QuietClients \in BOOLEAN

VARIABLES
  files,       \* the server's content directory
  manifest,    \* the SyncManifest table
  now,         \* the server's clock
  commit,      \* the commit request that holds the content write lock
  local,       \* the content directory of each client
  base,        \* the tree of each client's last_sync_commit, or NoTree
  session,     \* the sync run of each client
  backups,     \* what each client saved under .backups
  used,        \* tokens used so far: the last edit made anywhere
  superseded,  \* texts an author, or a documented rule, gave up
  edited       \* paths edited in a directory since its last undisturbed run

serverVars == <<files, manifest, now, commit>>
clientVars == <<local, base, session, backups>>
ghostVars  == <<used, superseded, edited>>
vars       == <<serverVars, clientVars, ghostVars>>

-----------------------------------------------------------------------------
Content == [fields : [Regions -> SUBSET Tokens], modified : 0 .. MaxNow]
State   == Content \cup {NoFile}
Trees   == [Paths -> State]

NoTreeFiles == [p \in Paths |-> NoFile]

\* A request body and what the commit handler has done with it so far
CommitRequest ==
  [client     : Clients,
   base       : Trees \cup {NoTree},
   uploads    : Trees,
   named      : SUBSET Paths,          \* the paths of the request
   toDelete   : SUBSET Paths,          \* deleted_files still to apply
   toUpload   : SUBSET Paths,          \* files still to process
   orig       : [Paths -> State \cup {Untouched}],  \* original_files
   uploaded   : SUBSET Paths,          \* uploaded_paths
   toDownload : SUBSET Paths,
   conflicts  : SUBSET Paths,
   normalized : BOOLEAN]

ASSUME SentinelAssumption ==
  /\ NoFile \notin Content /\ Untouched \notin State
  /\ NoTree \notin Trees /\ NoCommit \notin CommitRequest
  /\ \A paths \in SUBSET Paths : NoCommit # paths

Phases == {"idle", "planned", "committing", "applying"}

IdleSession ==
  [phase |-> "idle", plan |-> [l \in PlanLists |-> {}], downloads |-> {},
   deletes |-> {}, newBase |-> NoTree, undisturbed |-> TRUE]

Sessions ==
  [phase       : Phases,
   plan        : Plans(Paths),
   downloads   : SUBSET Paths,        \* files still to download
   deletes     : SUBSET Paths,        \* files still to delete locally
   newBase     : Trees \cup {NoTree}, \* commit_hash of the answer
   undisturbed : BOOLEAN]   \* nobody else wrote and nothing failed since status

TypeOK ==
  /\ files \in Trees
  /\ manifest \in Trees
  /\ now \in 0 .. MaxNow
  /\ commit \in CommitRequest \cup {NoCommit}
  /\ local \in [Clients -> Trees]
  /\ base \in [Clients -> Trees \cup {NoTree}]
  /\ session \in [Clients -> Sessions]
  /\ backups \in [Clients -> SUBSET Content]
  /\ used \in Tokens
  /\ superseded \subseteq Texts
  /\ edited \in [Clients -> SUBSET Paths]

-----------------------------------------------------------------------------
(* Initial states: a server with some files, and clients that either hold   *)
(* what the last sync left, or have never synced and hold a copy or nothing.*)

InitialContent == [fields |-> [r \in Regions |-> {0}], modified |-> 0]

Init ==
  /\ \E some \in SUBSET Paths :
       files = [p \in Paths |-> IF p \in some THEN InitialContent ELSE NoFile]
  /\ \/ /\ manifest = files
        /\ local = [c \in Clients |-> files]
        /\ base = [c \in Clients |-> files]
        /\ edited = [c \in Clients |-> {}]
     \/ /\ manifest = NoTreeFiles
        /\ local \in [Clients -> {files, NoTreeFiles}]
        /\ base = [c \in Clients |-> NoTree]
        /\ edited = [c \in Clients |-> {p \in Paths : local[c][p] # NoFile}]
  /\ now = 0
  /\ commit = NoCommit
  /\ session = [c \in Clients |-> IdleSession]
  /\ backups = [c \in Clients |-> {}]
  /\ used = 0
  /\ superseded = {}

-----------------------------------------------------------------------------
(* Edits.                                                                   *)

Idle(c) == session[c].phase = "idle"

\* Every run in progress has been disturbed
Disturb ==
  [c \in Clients |-> IF Idle(c) THEN session[c]
                     ELSE [session[c] EXCEPT !.undisturbed = FALSE]]

Fresh == used + 1

\* A region an author rewrites holds the new token; a set gains it
Rewrite(content, r) ==
  [content EXCEPT !.fields[r] = IF r \in SetFields THEN @ \cup {Fresh} ELSE {Fresh}]

\* An author empties a region: removes the field, the hunk, or the label
Erase(content, r) == [content EXCEPT !.fields[r] = {}]

GivenUp(before, after) == TextsOf(before) \ TextsOf(after)

NewContent == [fields |-> [r \in Regions |-> {Fresh}], modified |-> 0]

\* What the author of an edit may turn the state x of a path into
Edits(x) ==
  IF x = NoFile THEN {NewContent}
  ELSE {NoFile} \cup {Rewrite(x, r) : r \in Regions}
                \cup {Erase(x, r) : r \in {q \in Regions : x.fields[q] # {}}}

\* The author gives up what the edit removes, and writes the fresh token only where
\* the edit puts it
Author(before, after) ==
  /\ used < MaxToken
  /\ used' = Fresh
  /\ superseded' =
       superseded \cup ((TextsOf(before) \cup Regions \X {Fresh}) \ TextsOf(after))

\* Someone edits, creates or deletes a file in a client's directory
LocalEdit(c, p) ==
  /\ QuietClients => Idle(c)
  /\ \E after \in Edits(local[c][p]) :
       /\ Author(local[c][p], after)
       /\ local' = [local EXCEPT ![c][p] = after]
  /\ edited' = [edited EXCEPT ![c] = @ \cup {p}]
  /\ session' = IF Idle(c) THEN session
                ELSE [session EXCEPT ![c].undisturbed = FALSE]
  /\ UNCHANGED <<serverVars, base, backups>>

\* The author edits, creates or deletes a file in the web editor: the handlers
\* of posts, labels and pages, which take the content write lock.  labels.toml is
\* rewritten, never deleted.
WebEdit(p) ==
  /\ commit = NoCommit
  /\ QuietServer => \A c \in Clients : Idle(c)
  /\ now < MaxNow
  /\ \E after \in Edits(files[p]) :
       /\ p \in LabelPaths => after # NoFile
       /\ Author(files[p], after)
       /\ files' = [files EXCEPT ![p] =
            IF after # NoFile /\ p \in PostPaths THEN [after EXCEPT !.modified = now + 1]
            ELSE after]
       /\ now' = IF after # NoFile /\ p \in PostPaths THEN now + 1 ELSE now
  /\ session' = Disturb
  /\ UNCHANGED <<manifest, commit, local, base, backups, edited>>

-----------------------------------------------------------------------------
(* Planning.                                                                *)

\* SyncClient.status and sync_status: both sides are scanned, the server's
\* under the lock, and the plan comes back
Status(c) ==
  /\ Idle(c)
  /\ commit = NoCommit
  /\ session' = [session EXCEPT ![c] = [IdleSession EXCEPT
       !.phase = "planned",
       !.plan = ComputeSyncPlan(local[c], manifest, files)]]
  /\ UNCHANGED <<serverVars, local, base, backups, ghostVars>>

\* The user declines the plan
Cancel(c) ==
  /\ session[c].phase = "planned"
  /\ session' = [session EXCEPT ![c] = IdleSession]
  /\ UNCHANGED <<serverVars, local, base, backups, ghostVars>>

-----------------------------------------------------------------------------
(* The commit request.                                                      *)

\* Mutant: nothing is kept
KeepNothing(c) == {}

\* delete_modify_conflict items of the plan whose local file is gone
KeepServer(c) == {p \in session[c].plan.deleteModify : local[c][p] = NoFile}

\* Uploaded: planned uploads and conflicts, unless the file is missing by now
UploadPaths(c) ==
  LET plan == session[c].plan
  IN  {p \in plan.toUpload \cup plan.conflicts \cup plan.deleteModify : local[c][p] # NoFile}

\* SyncClient.sync reads the files and sends the request; sync_commit takes the
\* lock and starts on it.  last_sync_commit names a tree git still has.
StartCommit(c) ==
  /\ session[c].phase = "planned"
  /\ commit = NoCommit
  /\ now < MaxNow \/ UploadPaths(c) = {}
  /\ commit' = [client     |-> c,
                base       |-> base[c],
                uploads    |-> [p \in Paths |-> IF p \in UploadPaths(c) THEN local[c][p]
                                                ELSE NoFile],
                named      |-> UploadPaths(c) \cup session[c].plan.toDeleteRemote,
                toDelete   |-> session[c].plan.toDeleteRemote,
                toUpload   |-> UploadPaths(c),
                orig       |-> [p \in Paths |-> Untouched],
                uploaded   |-> {},
                toDownload |-> {},
                conflicts  |-> {},
                normalized |-> FALSE]
  /\ session' = [Disturb EXCEPT ![c] =
       [session[c] EXCEPT !.phase = "committing",
                 !.downloads = @ \cup session[c].plan.toDownload \cup KeepServer(c),
                 !.deletes = session[c].plan.toDeleteLocal,
                 !.plan = IdleSession.plan]]
  /\ UNCHANGED <<files, manifest, now, local, base, backups, ghostVars>>

\* Mutant: no bytes are saved
RememberNothing(p) == commit

\* _remember_original_file: the first touch of a path saves its bytes
Remember(p) ==
  [commit EXCEPT !.orig[p] = IF @ = Untouched THEN files[p] ELSE @]

\* One deleted_files entry.  The handler deletes whatever the path holds now; a
\* file it cannot unlink stays, and the answer carries a warning.
ApplyDelete(p) ==
  /\ commit # NoCommit
  /\ p \in commit.toDelete
  /\ \/ /\ files[p] = NoFile
        /\ commit' = [commit EXCEPT !.toDelete = @ \ {p}]
        /\ UNCHANGED <<files, session>>
     \/ /\ files[p] # NoFile
        /\ commit' = [Remember(p) EXCEPT !.toDelete = @ \ {p}]
        /\ \/ files' = [files EXCEPT ![p] = NoFile] /\ UNCHANGED session
           \/ "unlink" \in Faults /\ session' = Disturb /\ UNCHANGED files
  /\ UNCHANGED <<manifest, now, local, base, backups, ghostVars>>

\* _get_base_content: nothing without a last_sync_commit, or when git fails
Bases(p) ==
  {IF commit.base = NoTree THEN NoFile ELSE commit.base[p]}
    \cup (IF "base" \in Faults THEN {NoFile} ELSE {})

Uploaded(p) == [Remember(p) EXCEPT !.toUpload = @ \ {p}, !.uploaded = @ \cup {p}]

\* Mutant: the client is not told to download the merged file
MergedKeptBack(p, conflict) ==
  [Uploaded(p) EXCEPT !.conflicts = IF conflict THEN @ \cup {p} ELSE @]

Merged(p, conflict) ==
  [Uploaded(p) EXCEPT !.toDownload = @ \cup {p},
                      !.conflicts = IF conflict THEN @ \cup {p} ELSE @]

\* One uploaded file, once the deletions are done
UploadReady(p) == commit # NoCommit /\ commit.toDelete = {} /\ p \in commit.toUpload

\* The server holds another version of the file
Differs(p) == files[p] # NoFile /\ files[p] # commit.uploads[p]

\* Three-way merge of a post.  When nothing is reported, a value the client gave
\* an unrecognised field, or the subtitle, may give way to the server's.
UploadPost(p) ==
  /\ UploadReady(p) /\ p \in PostPaths /\ Differs(p)
  /\ \E b \in Bases(p), gitOk \in {TRUE} \cup {"merge" \notin Faults} :
       LET client == commit.uploads[p]
           result == MergePost(b, files[p], client, gitOk)
       IN  /\ files' = [files EXCEPT ![p] = result.merged]
           /\ commit' = Merged(p, Conflicted(result))
           /\ superseded' = superseded \cup
                IF Conflicted(result) THEN {}
                ELSE UNION {{f} \X (client.fields[f] \ result.merged.fields[f]) :
                              f \in OtherFields}
  /\ UNCHANGED <<manifest, now, clientVars, used, edited>>

\* Semantic merge of labels.toml.  Without a base the client's file is kept, and
\* what only the server's file held is given up; with one, so is what a side wrote in
\* a label the other side removed.
UploadLabels(p) ==
  /\ UploadReady(p) /\ p \in LabelPaths /\ Differs(p)
  /\ \E b \in Bases(p) :
       LET merged == MergeLabels(b, files[p], commit.uploads[p])
       IN  /\ files' = [files EXCEPT ![p] = merged]
           /\ superseded' = superseded \cup
                IF b = NoFile THEN GivenUp(files[p], merged)
                ELSE UNION {{l} \X (files[p].fields[l] \cup commit.uploads[p].fields[l]) :
                              l \in RemovedLabels(b, files[p], commit.uploads[p])}
  /\ commit' = Merged(p, FALSE)
  /\ UNCHANGED <<manifest, now, clientVars, used, edited>>

\* No other version on the server, or a file without a merge: the upload is
\* written as it is, and what only the server's page or asset held is given up
UploadPlain(p) ==
  /\ UploadReady(p)
  /\ p \in PlainPaths \/ ~Differs(p)
  /\ files' = [files EXCEPT ![p] = commit.uploads[p]]
  /\ commit' = Uploaded(p)
  /\ superseded' = superseded \cup GivenUp(files[p], commit.uploads[p])
  /\ UNCHANGED <<manifest, now, clientVars, used, edited>>

\* normalize_post_frontmatter stamps the uploaded posts; the client must download
\* every file whose text this changed
Normalize ==
  /\ commit # NoCommit /\ commit.toDelete = {} /\ commit.toUpload = {}
  /\ ~commit.normalized
  /\ LET posts == commit.uploaded \cap PostPaths
         isEdit(p) == manifest[p] # NoFile \/ p \in commit.toDownload
         after == [p \in Paths |-> IF p \in posts THEN NormalizePost(files[p], isEdit(p), now + 1)
                                   ELSE files[p]]
     IN  /\ files' = after
         /\ now' = IF posts = {} THEN now ELSE now + 1
         /\ commit' = [commit EXCEPT
              !.normalized = TRUE,
              !.toDownload = @ \cup {p \in posts : after[p] # files[p]}]
  /\ UNCHANGED <<manifest, clientVars, ghostVars>>

\* Mutant: files the commit never saved are restored too
RestoredAll(stuck) == [p \in Paths |-> IF p \in stuck THEN files[p] ELSE commit.orig[p]]

\* _restore_original_files puts back every file the commit touched, but those it
\* fails to restore
Restored(stuck) ==
  [p \in Paths |-> IF commit.orig[p] = Untouched \/ p \in stuck THEN files[p]
                   ELSE commit.orig[p]]

\* An I/O error while the files are changed, or the storage limit afterwards: the
\* files are restored, and the client's run ends with an error
Reject ==
  /\ commit # NoCommit
  /\ IF commit.normalized THEN "quota" \in Faults ELSE "io" \in Faults
  /\ \E stuck \in IF "restore" \in Faults THEN SUBSET Paths ELSE {{}} :
       files' = Restored(stuck)
  /\ session' = [Disturb EXCEPT ![commit.client] = IdleSession]
  /\ commit' = NoCommit
  /\ UNCHANGED <<manifest, now, local, base, backups, ghostVars>>

\* The server dies and restarts: the manifest is a durable table
Crash ==
  /\ commit # NoCommit
  /\ "crash" \in Faults
  /\ session' = [Disturb EXCEPT ![commit.client] = IdleSession]
  /\ commit' = NoCommit
  /\ UNCHANGED <<files, manifest, now, local, base, backups, ghostVars>>

\* Mutant: only the downloads of the plan are done
AnsweredPlanOnly(gitOk, stored) ==
  [session[commit.client] EXCEPT !.phase = "applying",
                                 !.newBase = IF gitOk THEN files ELSE NoTree,
                                 !.undisturbed = @ /\ stored]

\* The client's run once it has the answer; an empty commit_hash when git failed
Answered(gitOk, stored) ==
  [session[commit.client] EXCEPT !.phase = "applying",
                                 !.downloads = @ \cup commit.toDownload,
                                 !.newBase = IF gitOk THEN files ELSE NoTree,
                                 !.undisturbed = @ /\ stored]

\* Mutant: no backups
ConflictingNone == {}

\* _backup_conflicted_files, the client's next step
Conflicting ==
  LET mine == local[commit.client]
  IN  {mine[p] : p \in {q \in commit.conflicts : mine[q] # NoFile}}

BackedUp == {Conflicting} \cup (IF "backup" \in Faults THEN {{}} ELSE {})

\* git commit, update_server_manifest from a scan of every file, and the answer,
\* which may not reach the client
FinishCommit ==
  /\ commit # NoCommit /\ commit.normalized
  /\ \E gitOk \in {TRUE} \cup {"git" \notin Faults},
        stored \in {TRUE} \cup {"manifest" \notin Faults} :
       /\ manifest' = IF stored THEN files ELSE manifest
       /\ \/ /\ session' = [session EXCEPT ![commit.client] = Answered(gitOk, stored)]
             /\ \E saved \in BackedUp :
                  backups' = [backups EXCEPT ![commit.client] = @ \cup saved]
          \/ /\ "lost" \in Faults
             /\ session' = [session EXCEPT ![commit.client] = IdleSession]
             /\ UNCHANGED backups
  /\ commit' = NoCommit
  /\ UNCHANGED <<files, now, local, base, ghostVars>>

-----------------------------------------------------------------------------
(* Applying the answer in the client's directory.                           *)

Applying(c) == session[c].phase = "applying"

\* _download_file: the server sends what it holds, without the lock; a download
\* that fails is reported and skipped
Download(c, p) ==
  /\ Applying(c) /\ p \in session[c].downloads
  /\ \/ /\ files[p] # NoFile
        /\ local' = [local EXCEPT ![c][p] = files[p]]
        /\ session' = [session EXCEPT ![c].downloads = @ \ {p}]
     \/ /\ files[p] = NoFile \/ "download" \in Faults
        /\ session' = [session EXCEPT ![c].downloads = @ \ {p}, ![c].undisturbed = FALSE]
        /\ UNCHANGED local
  /\ UNCHANGED <<serverVars, base, backups, ghostVars>>

\* to_delete_local, after the downloads
DeleteLocal(c, p) ==
  /\ Applying(c) /\ session[c].downloads = {} /\ p \in session[c].deletes
  /\ \/ /\ local' = [local EXCEPT ![c][p] = NoFile]
        /\ session' = [session EXCEPT ![c].deletes = @ \ {p}]
     \/ /\ "remove" \in Faults
        /\ session' = [session EXCEPT ![c].deletes = @ \ {p}, ![c].undisturbed = FALSE]
        /\ UNCHANGED local
  /\ UNCHANGED <<serverVars, base, backups, ghostVars>>

Applied(c) == Applying(c) /\ session[c].downloads = {} /\ session[c].deletes = {}

\* _save_commit_hash keeps the old hash when the answer has none
FinishSync(c) ==
  /\ Applied(c)
  /\ base' = [base EXCEPT ![c] = IF session[c].newBase = NoTree THEN @ ELSE session[c].newBase]
  /\ edited' = [edited EXCEPT ![c] = IF session[c].undisturbed THEN {} ELSE @]
  /\ session' = [session EXCEPT ![c] = IdleSession]
  /\ UNCHANGED <<serverVars, local, backups, used, superseded>>

\* The client is killed, or loses the server, before it is done
Abandon(c) ==
  /\ Applying(c) /\ "lost" \in Faults
  /\ session' = [session EXCEPT ![c] = IdleSession]
  /\ UNCHANGED <<serverVars, local, base, backups, ghostVars>>

-----------------------------------------------------------------------------
CommitStep ==
  \/ \E p \in Paths : ApplyDelete(p) \/ UploadPost(p) \/ UploadLabels(p) \/ UploadPlain(p)
  \/ Normalize
  \/ FinishCommit

ApplyStep(c) == (\E p \in Paths : Download(c, p) \/ DeleteLocal(c, p)) \/ FinishSync(c)

Next ==
  \/ \E c \in Clients :
       \/ Status(c) \/ Cancel(c) \/ StartCommit(c) \/ ApplyStep(c) \/ Abandon(c)
       \/ \E p \in Paths : LocalEdit(c, p)
  \/ CommitStep \/ Reject \/ Crash
  \/ \E p \in Paths : WebEdit(p)

Spec == Init /\ [][Next]_vars

\* The server works on what it has accepted, a running client goes on, and users
\* keep running the client and do not always decline its plan.  Status and commit
\* wait for the content write lock, an asyncio.Lock, which serves its waiters in the
\* order they came: a request is served if the lock is free again and again.
Fairness ==
  /\ WF_vars(CommitStep)
  /\ \A c \in Clients : WF_vars(ApplyStep(c)) /\ SF_vars(Status(c)) /\ SF_vars(StartCommit(c))

FairSpec == Spec /\ Fairness

-----------------------------------------------------------------------------
(* The abstract store this server implements.                               *)

Touched(p) == commit.orig[p] # Untouched

\* While a commit is applied, readers are still entitled to the files it found
StoreTree ==
  [p \in Paths |-> IF commit # NoCommit /\ Touched(p) THEN commit.orig[p] ELSE files[p]]

Store == INSTANCE ServerStore WITH
  StorePaths  <- Paths,
  StoreStates <- State,
  NoRequest   <- NoCommit,
  tree        <- StoreTree,
  agreed      <- manifest,
  request     <- IF commit = NoCommit THEN NoCommit ELSE commit.named

-----------------------------------------------------------------------------
(* Properties.                                                              *)

Somewhere(t) ==
  \/ \E p \in Paths : t \in TextsOf(files[p])
  \/ \E c \in Clients :
       \/ \E p \in Paths : t \in TextsOf(local[c][p])
       \/ \E saved \in backups[c] : t \in TextsOf(saved)

\* No edit is lost: what an author wrote, on either side, stays on the server, in a
\* directory or in a backup until an author rewrites or deletes it, or one of the
\* documented rules of the merge gives it up.  A sync that overwrites, deletes or
\* merges the wrong side's version breaks it.
NoLostEdit == \A t \in (Regions \X (1 .. used)) \ superseded : Somewhere(t)

\* A run nobody disturbed, in which nothing failed, leaves the directory, the server
\* and the manifest with the same files: nothing is left over for the next run.
QuietRunConverges ==
  \A c \in Clients : Applied(c) /\ session[c].undisturbed =>
    local[c] = files /\ manifest = files

\* The plan never blames a directory for a change nobody made there: the files it
\* uploads or deletes on the server are files edited or deleted in that directory
\* since it was last synced, because the manifest is the state both sides shared.
OnlyOwnChanges ==
  \A c \in Clients : session[c].phase = "planned" =>
    session[c].plan.toUpload \cup session[c].plan.toDeleteRemote \subseteq edited[c]

\* A file that changed on the server since the last sync is never deleted there
\* because a client deleted its copy: the server copy is preserved.
DeletesSpareServerEdits ==
  [][\A p \in Paths : ApplyDelete(p) /\ files'[p] = NoFile =>
       files[p] \in {manifest[p], NoFile}]_vars

\* A commit changes the files it names all together or, when it is rejected, none of
\* them, with no web edit in between; the manifest is only ever replaced by a scan of
\* every file.  Holds when rollbacks succeed and the server does not die.
CommitsAreAtomic == Store!Spec

\* Once authors stop editing, running the client again and again makes every
\* directory equal to the server's.
Converges == <>[](\A c \in Clients : local[c] = files)
=============================================================================
