# AgBlogger in TLA+

Models, model-checking runs and proofs for AgBlogger, a self-hosted blog whose
content is a directory of markdown and TOML files, edited in a web editor and
synced in both directions with directories on authors' machines.

Paths below are relative to the repository (`src/`). `PROJECT.json` holds the
machine-readable part: runs, mutants, the map from definitions to source lines,
findings, hazards and theorems.

## 1. Inventory

| Component | Code | State | Operations | Hard behaviour |
|---|---|---|---|---|
| Sync planning | `backend/services/sync_service.py` | none; reads client scan, manifest, server scan | `compute_sync_plan` | fifteen combinations of presence and equality |
| Sync merging | `sync_service.py`, `git_service.py` | none | `merge_frontmatter`, `merge_post_file`, `merge_labels_toml`, `normalize_post_frontmatter` | conflicts, missing base, failing git |
| Sync server | `backend/api/sync.py`, `models/sync.py` | content directory, `sync_manifest` table, git history | status, download, commit | rollback, crash, partial failures, edits in between |
| Sync client | `cli/agblogger_cli/sync_client.py` | local directory, `last_sync_commit`, `.backups` | status, confirm, sync | stale plan, lost answer, failed downloads |
| Posts API | `backend/api/posts.py`, `post_service.py` | files, cache rows, FTS rows, quota counter | create, update (with rename), delete, upload, assets | files, database, git and quota change one after another |
| Cache | `cache_service.py`, cache tables | SQLite rows derived from files | rebuild, upserts | stale after a failure; rebuilt at startup |
| Labels | `api/labels.py`, `label_service.py`, `dag.py` | `labels.toml`, label cache | create, update, delete, `break_cycles` | file and database in two steps; cycles |
| Git | `git_service.py` | repository in the content directory | commit, show, merge-file | commits that fail or time out |
| Storage quota | `storage_quota.py` | usage counter | check, adjust, recompute | drift |
| Authentication | `auth_service.py`, `api/auth.py` | refresh tokens, users | login, refresh (rotation), revoke | concurrent refresh, lost answer |
| CLI credentials | `cli/agblogger_cli/` | stored refresh token | load, save, delete | processes that share the file |
| Rate limiter | `rate_limit_service.py` | attempts per key | add, check, prune | checked and recorded at different moments |
| Subscriptions | `subscription_service.py` | broadcast ledger, task set | broadcast, once guard, rename | check-then-act, crash after send |
| Cross-posting | `crosspost_service.py`, `crosspost/*` | accounts, history, pending OAuth flows | crosspost, OAuth flows | limits, external services |
| Pandoc | `pandoc/server.py`, `renderer.py` | child process | start, stop, restart on demand | start and stop race |
| Site administration | `api/admin.py`, `admin_service.py` | `index.toml`, page files, images, page rows | settings, order, pages, images | several files per request, outdated tabs |
| Public views | `main.py`, `api/posts.py`, `api/content.py` | none; they read cache and symlinks | post pages, permalinks, feed, sitemap, assets | two routes to one post |
| Deployment | `tools/deploy_production.py` | files, environment and containers of the server | generated `setup.sh` | killed or repeated at any command |
| Analytics, frontend | see `PROJECT.json` | - | - | I/O; clients of the API |

How they interact: every handler that changes content takes one
`asyncio.Lock`, the content write lock (`backend/main.py:498`), changes files,
then cache rows, then commits to git. Sync takes the same lock for its status
scan and for the whole commit, but not between the two and not for downloads.
The manifest is one table for the whole server, replaced by every commit.
Subscriptions and cross-posting are fired by the post handlers after the fact.

What makes each component correct:

- planning and merging: the three-way rule; a change made on one side only
  survives; what is dropped is reported;
- sync: no edit is lost; a commit is atomic; a client is not blamed for changes
  it did not make; clients converge;
- content store (posts, cache, quota, labels): after a failure or a restart the
  cache agrees with the files and the counter with the disk;
- labels: the accepted edges are a DAG and only edges of cycles are dropped;
- public views: a listed post opens, and an address leads to its post for good;
- site administration: what is served is what the files hold;
- sessions: a refresh token is used at most once and revocation reaches its heirs;
- broadcasts: at most one automatic broadcast per post, renamed or not; the
  ledger is true;
- cross-posting: a code is redeemed once, the history is true, a renewed token
  is not lost;
- deployment: a setup that succeeds is complete, and none destroys what only the
  operator has.

The hazards behind these, each at its line, are in `PROJECT.json`.

## 2. Modules

| Module | What it is |
|---|---|
| `SyncPlan` | `compute_sync_plan`, one operator per list of the plan |
| `SyncMerge` | the merges and the normalisation of one file; extends `SyncPlan` for `NoFile` |
| `SyncCases` | the algorithms of both on every small input, and the retried merge |
| `SyncProtocol` | server, clients and authors; extends `SyncMerge` |
| `ServerStore` | abstract: what a commit promises about the server's content |
| `MCSyncProtocol` | `SyncProtocol` for TLC |
| `ContentStore` | posts, their assets, symlinks, cache rows and the size tracker |
| `PublicViews` | what readers see of it; extends `ContentStore` |
| `SiteAdmin` | `index.toml`, pages and images, with rows and tracker |
| `LabelStore` | `labels.toml`, the labels of posts and their rows |
| `LabelGraph` | the search of `break_cycles`, and the queries over the graph; extends `LabelStore` |
| `RateLimiter` | the failure limiter's operators |
| `AuthSessions` | refresh tokens and the CLI's credentials; extends `RateLimiter` |
| `Broadcasts` | subscription settings, broadcast tasks and their ledger |
| `Crosspost` | OAuth flows, accounts, cross-posting requests and platforms |
| `RemoteSetup` | `setup.sh` of a remote deployment bundle |
| `SyncProofs`, `ContentProofs`, `SiteProofs`, `LabelProofs`, `AuthSessionsProofs`, `BroadcastsProofs`, `CrosspostProofs`, `RemoteSetupProofs` | theorems (section 4) |

Two conventions hold throughout. An operator introduced by a comment *Mutant:*
is what the one after it would be with a plausible bug; no specification uses
it, and `PROJECT.json` names the property that notices it. And handlers under
the content write lock are single actions, since no other handler runs between
their steps: what can happen inside one is an error or the death of the server
between two writes, and the action offers the state that each of these leaves.
Where no lock is held, every `await` of something outside ends an action.

### Sync (`SyncProtocol`)

| Variable | Code |
|---|---|
| `files` | the managed files of the content directory (`scan_content_files`) |
| `manifest` | the `sync_manifest` table, a durable one: it survives a restart |
| `now` | the clock that stamps `modified_at` |
| `commit` | the locals of `_sync_commit_inner` while it holds the lock: `original_files`, `uploaded_paths`, `to_download`, `conflicts` and what is left to do; `NoCommit` when no commit holds it |
| `local[c]` | a client's directory |
| `base[c]` | the tree of `last_sync_commit`, or `NoTree` |
| `session[c]` | where one run of the client is, with its plan and what is left to download and delete |
| `backups[c]` | the files under `.backups` |
| `used`, `superseded`, `edited` | history only: the edits made, the texts given up by an author or a rule, and the paths edited in a directory since it was last synced |

A *content* is a record: each region of a file (a hunk of the body, a front
matter field, one label of `labels.toml`) holds a set of *tokens*, and a token
stands for one edit somebody made. A new file holds its edit's token in every
region, so a *text* is a token in a region: the title and the body of a new post
can be given up separately. Equality of contents stands for equality of SHA-256
digests. Two texts between conflict markers are the union of their tokens. This
is all the data the properties need.

One run of the client is `Status`, then `StartCommit` (or `Cancel`), the
server's `ApplyDelete`, `UploadPost`, `UploadLabels`, `UploadPlain` (one file
each; deletions first, as in the handler), `Normalize`, `FinishCommit` (git,
manifest, answer and the client's backups), then `Download`, `DeleteLocal` and
`FinishSync`. `Reject` is every path through `_restore_original_files`, `Crash`
the death of the server during a commit, `Abandon` that of the client.
`WebEdit` and `LocalEdit` are authors at work: an edit rewrites or empties one
region, creates a file or deletes it. The lock shows in the guard
`commit = NoCommit` of `Status`, `StartCommit` and `WebEdit`. Files are uploaded
in any order, a superset of the client's order.

`Faults` names the failures a run allows: `io`, `unlink`, `quota`, `git`,
`merge`, `base`, `manifest`, `restore`, `crash` on the server, `lost` between
the two, `backup`, `download` and `remove` on the client. `QuietServer` and
`QuietClients` forbid edits on a side while a client is between its status and
its last step.

### Posts (`ContentStore`, `PublicViews`)

`disk` is the posts directory: `dirs` the real directories, `link` the symlinks
a rename leaves, `post` each `index.md`, `assets` the files beside it. `cache`
are the rows of `posts_cache` (with their full-text rows), `used` the
`ContentSizeTracker`. `adrift` and `loose` remember that a request failed or
died halfway, until the next rebuild or recount; `addresses` is history: the
names a post was public under. A name is a slug with its collision suffix.
`Target` follows symlinks to their end (`EndsAt`); sizes are counted in units.

Each handler of `api/posts.py` is one action: `CreatePost`, `UploadPost`,
`UpdatePost` (with or without a rename: directory, symlink, older symlinks,
rows), `DeletePost` (with and without `delete_assets`), and the three asset
handlers. `Outcomes` collects what each leaves behind: done, failed with an
accurate tracker, failed otherwise, died. `Restart` rebuilds the cache and
recounts. `PublicViews` adds no steps: it defines what the lists name and where
a name leads in the page route, which tries the symlink first, and in the API,
which tries the row first.

### Site (`SiteAdmin`), labels (`LabelStore`, `LabelGraph`)

`SiteAdmin` has the same form: `config` is `index.toml`, `files` and `images`
the files, `cache` the page rows; `listed` is what an admin's tab last saw, so
`UpdateOrder` may send an outdated list. Sizes are counted in units (`Total`), as
in `ContentStore`.

In `LabelStore` `toml` is the file, `labels` the content manager's copy,
`cache` the rows (labels, the implicit ones among them, edges, tags). `Persist`
is `_persist_labels_and_commit`: the file, then the commit, with the file put back
when the commit fails; `behind` counts requests since one left file and cache
apart. `SyncLabels` brings a `labels.toml` with an entry written or removed by
hand, with any parents.
`LabelGraph` runs the depth-first search of `break_cycles` in every order its
dictionaries may have, and `Kept` is the reference: the maximal acyclic subsets.

### Sessions (`AuthSessions`, `RateLimiter`)

`rows` is the `refresh_tokens` table, `chain` names the login a token descends
from. `req[c]` is the request a process has under way: sent, admitted by the
limiter, its row selected, answered. Between these a request waits for the
database and others run; `Lose` loses a request or an answer. `jar` is the
cookie of a process, `stored` the credentials file that the processes share, and
`excused` are the tokens ended by the user, by a password change or by a loss
nobody could see. `attempts` is the limiter's list of failures. `Restart` is a
server restart with or without another bootstrap password.

### Broadcasts (`Broadcasts`)

`settings` is the committed row, `update` the settings request under way with
its uncommitted row (`UpdateSettings`, `CheckSegment`, `CreateSegment`,
`CommitSettings`, `UpdateFails`); `owner` says at which account of the mail
service a segment lives, and `LoseSegment` that someone deleted it there. `task`
are the background tasks: `Start` (the once guard and the settings),
`CreateBroadcast`, `Send`, `Record`. Posts are created, edited with a rename,
hidden and deleted between any two of these, and `Restart` kills the tasks.
`mailed` is history: what the mail service really delivered.

Assumed: one admin settings request at a time, as the browser sends them.
Exempted in `MailedOnce`, because the code allows it: two tasks in flight
together, a rename or deletion during a task, and a first mailing without a
"sent" row. A post created at the path of a deleted, mailed one is never
announced: the ledger goes by path. Subscribing, confirming and the webhook keep
no state in this program: the mail service holds the contacts.

### Cross-posting (`Crosspost`)

`flow` are OAuth flows with their entry in the store of pending states (`age`,
`Never` when not in it); `Callback` pops the state, `Redeem` exchanges the code,
Facebook's list of pages waits under a second state for `SelectPage`, and
`Upsert`, `Replace`, `Recreate` are the three parts of
`_upsert_social_account`, whose `delete_social_account` commits in the middle.
`req` are cross-posting requests, which read all accounts at the start, try the
platforms one by one (`Authenticate`, `Post`, `Refresh`) and write history and
renewed tokens in one `Commit`. `provider` (external) holds the tokens a platform
accepts; a refresh token is used once. `faulty` are requests that lost an
answer or their commit, `astray` platforms whose newest token was never stored.

Whether a session can go on after a commit inside a savepoint is a property of
the database library: `Recreate` may succeed or fail.

### Remote setup (`RemoteSetup`)

Each action of `Script` is a command of the generated `setup.sh`, in its order:
`Start`, `Place`, `PlaceMissing`, `SeedOrStrip`, `AppendKeys`, `Teardown`,
`LoadImage`, the shared Caddy's `WriteShared`, `DetectSubnet`, `WriteSnippet`,
`Reload`, then `UpWithOrphans` or `Up`, and `Healthy`; `Fails` stops it at any of them,
as `set -e` does, and so does a kill. The operator uploads bundles of any mode,
edits `.env.production` and the shared Caddyfile, and moves its markers. Files
are told apart by the version of the bundle they came with. The three keys
merged into the environment file are one. The warning of the teardown branch is
not reachable under `set -e`; the `.bak` of the old mode's compose file is
usually missing at the first change of mode, and `up --remove-orphans` removes
what the teardown missed.

## 3. Runs

| Run | Instance | Shows |
|---|---|---|
| `sync_cases` | three contents per path; two hunks, three fields; with and without a base; git working or not; 1.0 million states | `PlanIsThreeWay`, `OneSidedChangesSurvive`, `ClientTextKeptOrReported`, `TagsMergeByMembership`, `RetryChangesNothing` |
| `sync_safety` | one directory; a post, `labels.toml`, a page; two edits; three clock ticks; every server-side failure but a lost manifest; both sides quiet; 2.1 million states | `TypeOK`, `NoLostEdit`, `QuietRunConverges`, `OnlyOwnChanges`, `DeletesSpareServerEdits` |
| `sync_two_clients` | two directories, one post, one edit, two ticks, nobody quiet, failures on every side; symmetric in the clients; 0.8 million states | `QuietRunConverges`, `CommitsAreAtomic` |
| `sync_liveness` | one directory, one post, two edits at any time, six ticks, git and manifest failing; 50 thousand states | `Converges` |
| `content_store` | two posts, two titles with two names each, two assets, room for three units, one failed request or crash; symmetric in titles and assets; 0.3 million states | `CacheMatchesDisk`, `UsageIsExact`, `ListedPostsOpen`, `PermalinksWork`, `AssetsFollowPost` |
| `site_admin` | one page with a file, one without, two titles, two sizes, two image types; errors and crashes anywhere | `PagesServedFromFiles`, `UsageIsExact` |
| `label_graph` | three labels, one post, one failed request between rebuilds; symmetric in the labels | `GraphAcyclic`, `CacheFollowsFiles`, `SearchKeepsWhatItCan`, `PostsListedUnderAncestors` |
| `auth_sessions` | two processes that share the credentials file, three refresh tokens, a limit of one failure | `OneLivePerLogin`, `StoredTokenIsLive`, `OverrunIsBounded`, `NoHeirOfRevoked` |
| `broadcasts` | one post, two names, two API keys, two tasks, two segments, one settings request, one fault; 0.9 million states | `SettingsUsable`, `MailedOnce`, `LedgerIsTrue`, `QueuedIsAnswered` |
| `crosspost` | Bluesky and Facebook, two flows, two requests, one pending flow per platform, one fault | `CodeRedeemedOnce`, `HistoryIsTrue`, `StoredTokenIsLive`, `BlueskyIsRenewed` |
| `remote_setup` | three modes, three bundles, two lines of the operator, two faults | `SuccessIsComplete`, `OperatorKeysKept`, `SharedLinesKept`, `StackWaitsForFiles` |
| `sync_lost_answer` | both sides quiet, answers may be lost | `NoLostEdit` is violated |

Each property of a passing run has a mutant of the code's definitions that
breaks it.

**Bounds of the sync runs.** `MaxToken` is the number of edits in a behaviour:
with two, a file can be changed on both sides, deleted on one and changed on the
other, or changed once more after a merge. `MaxNow` bounds the stamps and so the
number of commits with uploads plus web edits; `StartCommit` and `WebEdit` wait
for room. Three ticks let both edits be synced and a failed or rejected run be
repeated. Three kinds of path are enough because each path is planned, merged
and restored on its own, and what couples paths (one answer, one rollback, one
manifest) shows with two. In `sync_liveness` the clock bound cannot hide a
divergence: a client that still had something to upload when the clock stops
would violate `Converges`.

**Bounds of the others.** Two posts with two titles of two names each let a
post be renamed away and back, renamed onto an old address of its own or of the
other post, and given a suffix; a second fault in the same behaviour adds
nothing that the marks `adrift` and `loose` would not already excuse. Three
labels make every shape of cycle: a loop, a pair, a triangle, and one hanging
off another. Three refresh tokens are two logins with a rotation, or one with
two. Two processes suffice for `OneLivePerLogin`, which is about pairs. Two
broadcasts are what "once" is about; `BroadcastsTwoPosts.cfg` repeats the safety
properties with a second post that may take the first one's name (10 million
states, four minutes). Two requests and two flows are each a pair that can race;
the clock bound `TTL = 1` lets a pending flow be fresh, aged and expired. Three
bundles allow a change of mode and a change back, each with files of the run
before.

**Deadlock** is checked except where the program may stop or a bound stops it:
`SyncCases` ends with its last case, tasks, requests and bundles are used up.

**Fairness.** `FairSpec` of the sync assumes that the server goes on with a
commit it has started, that a running client goes on, and that users keep
running the client and confirm its plan again and again. Status and commit are
strongly fair: they wait for an `asyncio.Lock`, which serves waiters in order.
Failures are never fair and may happen at every attempt. In `Broadcasts` every
task is weakly fair: it waits for the database and for HTTP calls that time out
after 15 seconds. Nothing else is assumed; in particular edits may stop at any
time, and no request is ever obliged to be sent.

### Finding

*Lost answer* (`cli/agblogger_cli/sync_client.py:654`). Re-running after an
error, as the message says, deletes a new server file which the first run never
downloaded. `sync_lost_answer` shows the trace.

### Other disagreements between the code and its documents

Each has a configuration beside the modules, to be run by hand as
`tlc -config <cfg> <module>`; TLC prints the trace.

| Configuration (module) | What the trace shows |
|---|---|
| `SyncWebEditRace.cfg` (`MCSyncProtocol`) | The commit replaces the manifest by a scan of everything, also of files edited since the client's status (`api/sync.py:564`); the directory's stale copy then looks like a change and is uploaded over the edit. |
| `SyncDeleteRace.cfg` (`MCSyncProtocol`) | The commit deletes a file that was edited after the plan was made (`api/sync.py:356`). |
| `SyncSubtitle.cfg` (`SyncCases`) | Conflicting subtitles are resolved like unrecognised fields: no report, no backup (`sync_service.py:341`). |
| `SyncBodyConflict.cfg` (`SyncCases`) | `docs/arch/sync.md` says the server-side result of a body conflict is kept; both texts are stored with markers (`sync_service.py:556`). |
| `SiteImage.cfg` (`SiteAdmin`) | Replacing the image by another type deletes the old file before the new name is saved: when saving fails, `index.toml` names an image that is gone (`admin_service.py:416`, `449`). |
| `ContentLinks.cfg` (`ContentStore`) | Deleting a post removes the symlinks that point to its directory, but not those that reach it over another symlink (`content_manager.py:233`). |
| `XRenewal.cfg` (`Crosspost`) | X is probed with `authenticate` before posting, so an expired token fails there and is never renewed, which `docs/plans/2026-02-21-x-facebook-crosspost-design.md:27` promises. |
| `Reconnect.cfg` (`Crosspost`) | Reconnecting deletes the account with a commit before it creates the new row; when that fails, the account is gone, where `tests/test_api/test_crosspost_helpers.py:103` speaks of a savepoint around both. It rests on the database library's rule for commits inside savepoints, taken from its documentation. |
| `SetupRerun.cfg` (`RemoteSetup`) | A run that fails after the generated files were moved into place refuses to run again with the same bundle (`deploy_production.py:569`), though `docs/arch/deployment.md:38` calls the script idempotent. |

Seen while modelling and without a configuration: `docs/arch/backend.md:59` calls
the manifest a cache table dropped at startup, but it is a durable table;
conflicting pages and assets are overwritten by the client without a report (a
test, `tests/test_services/test_sync_merge_integration.py:335`, asks for that);
`labels.toml` without a merge base is taken from the client without a report;
a fresh directory that joins a server with a full manifest plans to delete
everything, because the manifest is not kept per client.

What the quiet sync runs rest on: with `lost` or `download` among the faults
`NoLostEdit` and `OnlyOwnChanges` fail, with `manifest` or `remove`
`OnlyOwnChanges` fails, with `backup` `NoLostEdit` fails, and a file edited in a
directory during its own run is overwritten by the download.

## 4. Proofs

TLAPS checks these for every value of the constants that satisfies the named
assumptions of the modules.

- `SyncProofs`, in five parts.
  1. `PlanFollowsThreeWayRule` and `PlanListsAreDisjoint` are the planner's contract
     for any states; `SetMergeByMembership` the labels merge's. The lemmas
     `SetMergeTwice`, `RegionTwice` and `RegionOneSided` are about retries.
     `RegionTwice` needs that the two sides' texts together are not just the
     base's: otherwise the first result would read as an unchanged region and the
     retry would take the client's text alone. The properties of `SyncCases` are
     theorems too: `EveryPathIsPlannedThreeWay`, `MergesKeepOneSidedChanges`,
     `ClientTextIsKeptOrReported`, `TagsAreMergedByMembership`,
     `RepeatedUploadsChangeNothing`. `CaseInv` says that a result is the merge of
     what is given, also after a retry, and that no hunk of the server's post is
     empty, which gives `RegionTwice` what it needs.
  2. `TypeCorrect == Spec => []TypeOK`. `TypeOK` alone is not inductive. Two facts
     about a running commit are missing: a path still to be uploaded has an upload
     (`UploadsPresent`), or a merge would be of `NoFile`; and if there are uploads
     left to stamp, the clock has room (`ClockRoom`), or `Normalize` would leave
     `0 .. MaxNow`.
  3. `CommitsTakeEffectAtomically`: if neither `restore` nor `crash` is among the
     faults, `Spec => CommitsAreAtomic`, that is, the protocol implements
     `ServerStore`. Under the refinement mapping readers are still entitled to the
     saved bytes of each file a commit touched (`StoreTree`), so the steps of a
     commit are stutters, `FinishCommit` is `Accept` and `Reject` is `Refuse`. The
     invariant adds to `TypeInv` that every path the commit touched or has still to
     touch is one its request names (`Named`).
  4. `UndisturbedRunsConverge`, without hypotheses: `QuietInv` follows one run, path
     by path, from the plan (which names every path where the directory and the
     server differ) over what the commit has still to do for the path to what the
     directory has still to download or delete.
  5. What needs quiet sides. `DeletionsSpareServerEdits` from `SpareInv`: a path a
     plan deletes on the server is, until the commit does so, as the manifest has
     it. `PlansBlameOwnChanges` from `OwnInv`, on top of `QuietInv`: an unedited path
     of the directory is as the manifest has it, or the running client will make it
     so. `NoEditIsLost` from `SafeInv`: what both sides once shared, the
     manifest and the base of the merges, is never the only place of a text
     (`SharedKept`); and during a run every text of one side is on the other, or is
     still to be brought there, or will be backed up, or was given up (`CommitKept`,
     `ApplyKept`). `MergePostKeeps` and `MergeLabelsKeeps` say which
     texts of either side a merge gives up.

  Their hypotheses are the sync runs': one client, quiet sides, and a set of faults
  without those that TLC shows to break the property (section 3, *What the quiet
  sync runs rest on*). Everything else is arbitrary: paths, regions, the number of
  edits, and in `NoEditIsLost` also failed rollbacks and crashes. While it was
  proved, a third edit falsified an earlier `NoLostEdit` that spoke of edits
  instead of texts: the client emptied the title of a new post, a web author its
  body, and the merge rightly kept neither, so that the edit was gone although
  nothing was lost.
- `LabelProofs`. `LabelGraphIsAcyclic`, `LabelCacheFollowsFiles`,
  `PostsAreListedUnderAncestors` and `SearchKeepsToKept`. A cyclic graph is one with a nonempty set of
  labels each of which has a parent in the set. New parents of `l` make such a
  set only if it contains `l`, and then it leads from one of the parents up to
  `l`, which `Closes` excluded; this is where `Ancestors` must be all ancestors.
  The invariant adds that edges run between rows and, while no request failed,
  what the cache was derived from.
  `SearchKeepsToKept` is about the algorithm, for any graph and any order of the
  walk (`SearchBreaksCycles`). `WalkInv` is what each turn keeps: a kept edge of a
  closed node leads to a closed node, and one of an open node to a closed node or
  further along the path (`EdgesSound`), so that a node closes onto no cycle
  (`ClosedAcyclic`); a dropped edge led back to the path and so closes a cycle with
  kept edges, which later ones do not undo (`DroppedClose`). That the walk is over
  after `MaxTurns` turns is a measure, `Work`: two per node not closed and one per
  edge not looked at, lowered by each turn (`TurnKeeps`) and zero only at the end
  (`WalkEnds`). The turns are counted by an induction that the provers can do: a set
  of numbers that is not empty has a least element (`LeastNumber`, from the
  library's well-foundedness of `<`), so one that holds 0 and the successors of its
  members is all of `0 .. n` (`UpTo`). It also shows that the recursive function in
  `Walks` is defined (`WalksDefined`).
- `AuthSessionsProofs`. `RefreshTokensAreSingleUse`, `RevocationReachesHeirs`,
  `StoredTokenStaysLive`. The rows say that tokens are numbered as issued and
  that a row's chain is one of a login (`RowInv`); processes hold issued tokens
  (`Held`); a token in a granted answer is known to nobody else (`GrantInv`); and
  when the stored token is not live, a granted answer of the same login is on
  its way to replace it (`Kept`). `LimitOverrunIsBounded`: the sum it bounds, of
  failures and requests under way, only grows when a request is let in, and
  that is below the limit; a failure moves one from the second to the first.
- `BroadcastsProofs`. `EnabledSettingsCanMail`, `PostsAreMailedOnce`,
  `TheLedgerIsTrue`. `IInv` joins seven parts: settings and the uncommitted row
  agree with their accounts; tasks in flight too; the queue's bookkeeping of who
  ran beside whom; a name belongs to one post; a task's path is its post's name
  unless it was marked as moved; a row that says "sent" is of what was mailed; and behind
  such a row no later automatic task of the same post gets past the guard.
- `CrosspostProofs`. `CodesAreRedeemedOnce`: the state leaves the store with the
  callback, so a flow that redeemed once is not fresh again except as a choice of
  pages. `TheHistoryIsTrue`: nothing is published on a platform the request has
  still to try (`Untried`), and what was published is among its results, or the
  request is faulty (`True`); each request only moves its own part (`Moves`).
  `AccountTokensStayLive`: `Consistent` says of each platform that a token a flow
  or a request has still to store is live and known to nobody else
  (`WaitersApart`, `HoldersApart`), that a request that holds the stored token
  read it from the row that is there (`ReadersKnow`), and that the stored token is
  live or a request will replace it (`StoredKept`). `BlueskyRenewsFirst` needs only
  that a request asks first on platforms that can be asked (`AtInv`).
- `ContentProofs`, about `ContentStore` and `PublicViews`. `StoreIsInOrder` is the
  inductive invariant, from which `TypeCorrect`, `CacheFollowsDisk`,
  `TrackerIsExact`, `ListsOpen`, `AddressesKeepWorking` and `AssetsComeAlong`
  follow. `CacheMatchesDisk` alone is not inductive: a request writes where a row
  leads, so rows must lead to directories of their own also for posts whose last
  request failed, or the next request would write into another post
  (`RowsApart`); symlinks must end (`Acyclic`: every nonempty set of names has one
  that leads out of it), or `Target` has no value; nothing is found in a directory
  that is gone (`Plain`), or a new post would inherit it; no two directories hold one
  post (`Distinct`), or the rebuild would make it two rows; and no file is of a post
  yet to be created (`Known`). All requests share one argument: every state one
  may leave differs from the one before in the directory and rows of its
  own post only (`Spares`, `Spared`), so `RequestHolds` asks of each handler
  only where its post is afterwards (`Settled`) and what it counted (`Exact`). The
  lemmas `LinkAdded`, `LinkMoved` and `LinksRemoved` say where names lead when a
  rename adds a symlink, a rename over a symlink moves it, and a deletion
  sweeps several.
- `SiteProofs`. `TypesHold`, `ReadersSeeFiles`, `TrackerFollowsDisk`.
  `PagesServedFromFiles` alone is not inductive: a restart makes the rows from the
  files, so a listed page must have its file also while the server is down, unless
  an outdated order put the page back (`FilesThere`); the order in which handlers
  write, file before list on creation and list before file on deletion, keeps
  that. Each page request is shown to leave only states that differ in the page it
  is about and show it rightly (`Sound`), whichever write was the last; one lemma
  then serves all of them (`PageRequestKeeps`). For the tracker, `TotalChange` says
  how a sum of sizes changes with one file, and `IndexStepKeeps`, `PageStepUsage`
  and `ImageUsage` that the handlers' differences are these. A replaced image is
  why the tracker has bounds and not a value: the file of the old type may be left
  behind, counted or not.
- `RemoteSetupProofs`. `SuccessfulSetupIsComplete`, `SetupKeepsOperatorKeys`,
  `ContainersWaitForFiles`, `OperatorLinesKept`. At each command, what the commands before it placed,
  merged, loaded and started is of the bundle's version (`Placed`, `Merged`,
  `Loaded`, `Running`), and a `.generated` file still waiting is the newest
  (`Waiting`), whatever the earlier runs left. For the shared Caddyfile,
  `SharedInv` says that each marker is there at most once and that only the block
  is between them; `Pieces` says what a splice keeps.

Only model-checked: `Converges` and `QueuedIsAnswered`, liveness properties under
fairness and out of the proof system's reach. Every other property of a passing
run is a theorem, some under hypotheses named above; the runs show besides that
the hypotheses are met, and fire every action. `DeletedDirTakesLinks` (`ContentLinks.cfg`) is false.

## 5. Not modelled

- *Sync*: inputs that do not parse, files the client cannot read (skipped with a
  warning), a normalised file that cannot be written (a warning), config reload
  and cache rebuild at the end of a commit (a warning).
- *Posts*: authors, rendering, git commits (they only warn), the date in a slug,
  the feed's limit of items, two failures in one request, full-text rows apart
  from the post's row, edits based on an outdated text (the last writer wins).
- *Labels*: display names. An implicit label keeps its mark until a rebuild.
- *Sessions*: access tokens, CSRF, cryptography, file permissions. Expiry is a
  chance at the moment the row is read.
- *Cross-posting*: texts, PKCE, DPoP nonces.
- *Deployment*: the local deploy, its prompts and the image scan; a `down` that
  stops in the middle.
- *Pandoc*: rendering is text to text. The child process is started and
  restarted under a lock; a request that meets it too early fails and stores
  nothing.
- *Analytics*: hits sent and queries forwarded, without state but a settings row.
- *Frontend*: a client of the API; its requests are the inputs of the actions.

## 6. Plan

What would add most next:

1. `ContentStore` composed with `SyncProtocol`, whose `WebEdit` stands for it.
2. The Pandoc child process and the request quotas of the other endpoints.
