----------------------------- MODULE Broadcasts -----------------------------
(***************************************************************************)
(* Subscriptions: the admin's settings with the audience segment and the    *)
(* webhook they own at the mail service, and broadcasts: background tasks   *)
(* that mail a published post and enter it in a ledger afterwards. Every    *)
(* call to the mail service is a point where requests and tasks may run.    *)
(* The browser of the one admin sends a settings request at a time.         *)
(***************************************************************************)
EXTENDS Integers, FiniteSets

CONSTANTS
  Posts,       \* posts ever created
  Names,       \* directories a post can live in
  Keys,        \* API keys, each of an account of the mail service
  Limit,       \* _MAX_BROADCAST_TASKS
  MaxTasks,    \* a bound: broadcasts queued
  MaxSegments, \* a bound: segments created
  MaxUpdates,  \* a bound: settings requests
  MaxFaults    \* a bound: answers lost, commits failed, servers killed

ASSUME BroadcastsAssumption ==
  /\ IsFiniteSet(Posts) /\ IsFiniteSet(Names) /\ IsFiniteSet(Keys)
  /\ "none" \notin Keys
  /\ Limit \in Nat \ {0}
  /\ {MaxTasks, MaxUpdates, MaxFaults} \subseteq Nat /\ MaxSegments \in Nat \ {0}

VARIABLES
  settings,  \* the committed row: [enabled, from, key, segment, secret]
  update,    \* the settings request under way: [pc, row]
  owner,     \* segments created, by the account they belong to
  post,      \* posts: [state, name, held], held: the names that lead to it
  task,      \* broadcast tasks: [pc, post, path, auto, key, segment, beside, moved]
  ledger,    \* subscription_broadcasts: [id, path, status, known]
  mailed,    \* tasks whose broadcast the mail service delivered
  updates, faults

vars == <<settings, update, owner, post, task, ledger, mailed, updates, faults>>

None == "none"
Ids == 1..MaxTasks
Segments == 1..MaxSegments
NoSegment == 0

Row == [enabled: BOOLEAN, from: BOOLEAN, key: Keys \cup {None},
        segment: Segments \cup {NoSegment}, secret: Keys \cup {None}]
Initial == [enabled |-> FALSE, from |-> FALSE, key |-> None,
            segment |-> NoSegment, secret |-> None]
Idle == [pc |-> "idle", row |-> Initial]
NoTask == [pc |-> "new", post |-> None, path |-> None, auto |-> FALSE,
           key |-> None, segment |-> NoSegment, beside |-> {}, moved |-> FALSE]

\* a new blog, or one that mails its readers already
Enabled(k) == [enabled |-> TRUE, from |-> TRUE, key |-> k, segment |-> 1, secret |-> k]

Init ==
  /\ \/ settings = Initial /\ owner = [s \in Segments |-> None]
     \/ \E k \in Keys :
          /\ settings = Enabled(k)
          /\ owner = [s \in Segments |-> IF s = 1 THEN k ELSE None]
  /\ update = Idle
  /\ post = [p \in Posts |-> [state |-> "new", name |-> None, held |-> {}]]
  /\ task = [t \in Ids |-> NoTask]
  /\ ledger = {} /\ mailed = {} /\ updates = 0 /\ faults = 0

Fault == faults < MaxFaults /\ faults' = faults + 1

----------------------------------------------------------------------------
(* Settings. A new key leaves the segment and the webhook of the old        *)
(* account behind; an enabled row gets what it misses before the commit.    *)

\* Mutant: the segment survives a new key.
RekeyedInPlace(row, k) == [row EXCEPT !.key = k, !.secret = None]
Rekeyed(row, k) ==
  IF k = row.key THEN row
  ELSE [row EXCEPT !.key = k, !.segment = NoSegment, !.secret = None]

\* _prepare_enable: where the request goes on with a row to be enabled
Prepared(row) ==
  [pc |-> IF row.segment # NoSegment THEN "check" ELSE "create", row |-> row]

UpdateSettings(k, from, enabled) ==
  LET row == [Rekeyed(settings, k) EXCEPT !.from = from, !.enabled = enabled] IN
  /\ update.pc = "idle" /\ updates < MaxUpdates
  /\ updates' = updates + 1
  /\ \/ enabled /\ row.key # None /\ from    \* EnablePreconditionError otherwise
        /\ update' = Prepared(row) /\ UNCHANGED settings
     \/ ~enabled /\ settings' = row /\ UNCHANGED update
  /\ UNCHANGED <<owner, post, task, ledger, mailed, faults>>

CheckSegment ==
  /\ update.pc = "check"
  /\ update' = IF owner[update.row.segment] = update.row.key
               THEN [update EXCEPT !.pc = "hook"]
               ELSE [update EXCEPT !.pc = "create", !.row.segment = NoSegment]
  /\ UNCHANGED <<settings, owner, post, task, ledger, mailed, updates, faults>>

CreateSegment(s) ==
  /\ update.pc = "create" /\ owner[s] = None
  /\ \A r \in 1..s - 1 : owner[r] # None
  /\ owner' = [owner EXCEPT ![s] = update.row.key]
  /\ update' = [pc |-> "hook", row |-> [update.row EXCEPT !.segment = s]]
  /\ UNCHANGED <<settings, post, task, ledger, mailed, updates, faults>>

\* the webhook is set up at best effort, and only for a public https site;
\* then the row is committed
CommitSettings ==
  /\ update.pc = "hook"
  /\ \E secret \in {update.row.secret, update.row.key} :
       /\ update.row.secret # None => secret = update.row.secret
       /\ settings' = [update.row EXCEPT !.secret = secret]
  /\ update' = Idle
  /\ UNCHANGED <<owner, post, task, ledger, mailed, updates, faults>>

\* the mail service or the commit fails: everything is rolled back
UpdateFails ==
  /\ update.pc # "idle" /\ Fault
  /\ update' = Idle
  /\ UNCHANGED <<settings, owner, post, task, ledger, mailed, updates>>

\* somebody deletes a segment at the mail service
LoseSegment(s) ==
  /\ owner[s] \in Keys /\ Fault
  /\ owner' = [owner EXCEPT ![s] = "gone"]
  /\ UNCHANGED <<settings, update, post, task, ledger, mailed, updates>>

----------------------------------------------------------------------------
(* Queueing: posts that become public, and the admin's manual trigger.      *)

Running == {"queued", "ready", "created", "sent", "unsure", "failed"}
InFlight == {t \in Ids : task[t].pc \in Running}

\* fire_post_broadcast: above the limit nothing is scheduled
Fired(tasks, p, path, auto) ==
  LET live == {t \in Ids : tasks[t].pc \in Running}
      new == {t \in Ids : tasks[t].pc = "new"} IN
  IF Cardinality(live) >= Limit THEN {tasks}
  ELSE {[t \in Ids |->
           IF t = n THEN [NoTask EXCEPT !.pc = "queued", !.post = p, !.path = path,
                                        !.auto = auto, !.beside = live]
           ELSE IF t \in live THEN [tasks[t] EXCEPT !.beside = @ \cup {n}]
           ELSE tasks[t]] :
        n \in {t \in new : \A u \in new : t <= u}}

\* the hook of the post handlers, after their commit
Announced(tasks, p, path) ==
  IF settings.enabled THEN Fired(tasks, p, path, TRUE) ELSE {tasks}

FreeFor(p) == Names \ (UNION {post[q].held : q \in Posts \ {p}})

CreatePost(p, name, draft) ==
  /\ post[p].state = "new" /\ name \in FreeFor(p)
  /\ post' = [post EXCEPT ![p] = [state |-> IF draft THEN "draft" ELSE "public",
                                  name |-> name, held |-> {name}]]
  /\ task' \in IF draft THEN {task} ELSE Announced(task, p, name)
  /\ UNCHANGED <<settings, update, owner, ledger, mailed, updates, faults>>

\* update_broadcast_post_path, in the transaction of the rename
\* Mutant: the ledger keeps the old path.
RepathedNot(old, new) == ledger
Repathed(old, new) ==
  {IF r.path = old THEN [r EXCEPT !.path = new] ELSE r : r \in ledger}

UpdatePost(p, name, draft) ==
  LET old == post[p].name
      tasks == [t \in Ids |->
                  IF task[t].pc \in Running /\ task[t].post = p /\ name # old
                  THEN [task[t] EXCEPT !.moved = TRUE] ELSE task[t]] IN
  /\ post[p].state \in {"draft", "public"} /\ name \in FreeFor(p)
  /\ post' = [post EXCEPT ![p] = [state |-> IF draft THEN "draft" ELSE "public",
                                  name |-> name, held |-> @.held \cup {name}]]
  /\ ledger' = IF name = old THEN ledger ELSE Repathed(old, name)
  /\ task' \in IF post[p].state = "draft" /\ ~draft
               THEN Announced(tasks, p, name) ELSE {tasks}
  /\ UNCHANGED <<settings, update, owner, mailed, updates, faults>>

\* with its directory and the symlinks to it; the ledger keeps its rows
DeletePost(p) ==
  /\ post[p].state \in {"draft", "public"}
  /\ post' = [post EXCEPT ![p] = [state |-> "deleted", name |-> None, held |-> {}]]
  /\ UNCHANGED <<settings, update, owner, task, ledger, mailed, updates, faults>>

\* manual: of any public post, whether or not it was mailed before
Trigger(p) ==
  /\ post[p].state = "public"
  /\ task' \in Fired(task, p, post[p].name, FALSE)
  /\ UNCHANGED <<settings, update, owner, post, ledger, mailed, updates, faults>>

----------------------------------------------------------------------------
(* A task: the once-guard, the settings, two calls, the ledger row.         *)

Becomes(t, pc) == task' = [task EXCEPT ![t].pc = pc]

Ended(t, pc) == [NoTask EXCEPT !.pc = pc, !.post = task[t].post, !.auto = task[t].auto,
                               !.beside = task[t].beside, !.moved = task[t].moved]

AlreadyBroadcast(path) == \E r \in ledger : r.path = path /\ r.status = "sent"

\* Mutant: manual broadcasts are held back, too.
GuardedAlways(t) == TRUE
Guarded(t) == task[t].auto

Usable == settings.enabled /\ settings.from /\ settings.key # None
          /\ settings.segment # NoSegment

\* two reads with nothing written in between
Start(t) ==
  /\ task[t].pc = "queued"
  /\ task' = [task EXCEPT ![t] =
       IF Guarded(t) /\ AlreadyBroadcast(@.path) THEN Ended(t, "skipped")
       ELSE IF Usable THEN [@ EXCEPT !.pc = "ready", !.key = settings.key,
                                     !.segment = settings.segment]
       ELSE [@ EXCEPT !.pc = "failed"]]
  /\ UNCHANGED <<settings, update, owner, post, ledger, mailed, updates, faults>>

\* the first POST; a broadcast that was only created mails nobody
CreateBroadcast(t) ==
  /\ task[t].pc = "ready"
  /\ \/ owner[task[t].segment] = task[t].key /\ Becomes(t, "created")
        /\ UNCHANGED faults
     \/ owner[task[t].segment] # task[t].key /\ Becomes(t, "failed")
        /\ UNCHANGED faults
     \/ Fault /\ Becomes(t, "failed")
  /\ UNCHANGED <<settings, update, owner, post, ledger, mailed, updates>>

\* the second POST, whose answer may be lost after the mail went out
\* Mutant: a lost answer is recorded like a refused creation.
SendForgetful(t) ==
  /\ task[t].pc = "created"
  /\ \/ mailed' = mailed \cup {t} /\ Becomes(t, "sent") /\ UNCHANGED faults
     \/ mailed' \in {mailed, mailed \cup {t}} /\ Fault /\ Becomes(t, "failed")
  /\ UNCHANGED <<settings, update, owner, post, ledger, updates>>
Send(t) ==
  /\ task[t].pc = "created"
  /\ \/ mailed' = mailed \cup {t} /\ Becomes(t, "sent") /\ UNCHANGED faults
     \/ mailed' \in {mailed, mailed \cup {t}} /\ Fault /\ Becomes(t, "unsure")
  /\ UNCHANGED <<settings, update, owner, post, ledger, updates>>

\* the row names the broadcast whenever the creation was answered
RowOf(t) ==
  [id |-> t, path |-> task[t].path,
   status |-> IF task[t].pc = "sent" THEN "sent" ELSE "failed",
   known |-> task[t].pc \in {"sent", "unsure"}]

Record(t) ==
  /\ task[t].pc \in {"sent", "unsure", "failed"}
  /\ \/ /\ ledger' = ledger \cup {RowOf(t)}
        /\ task' = [task EXCEPT ![t] = Ended(t, "ended")] /\ UNCHANGED faults
     \/ /\ Fault
        /\ task' = [task EXCEPT ![t] = Ended(t, "lost")] /\ UNCHANGED ledger
  /\ UNCHANGED <<settings, update, owner, post, mailed, updates>>

\* the server stops: tasks get three seconds, or none; nothing resumes them
Restart ==
  /\ Fault
  /\ task' = [t \in Ids |-> IF t \in InFlight THEN Ended(t, "lost") ELSE task[t]]
  /\ update' = Idle
  /\ UNCHANGED <<settings, owner, post, ledger, mailed, updates>>

Step(t) == Start(t) \/ CreateBroadcast(t) \/ Send(t) \/ Record(t)

Next ==
  \/ \E k \in Keys \cup {settings.key}, from, enabled \in BOOLEAN : UpdateSettings(k, from, enabled)
  \/ CheckSegment \/ CommitSettings \/ UpdateFails
  \/ \E s \in Segments : CreateSegment(s) \/ LoseSegment(s)
  \/ \E p \in Posts, name \in Names, draft \in BOOLEAN :
       CreatePost(p, name, draft) \/ UpdatePost(p, name, draft)
  \/ \E p \in Posts : DeletePost(p) \/ Trigger(p)
  \/ \E t \in Ids : Step(t)
  \/ Restart

\* calls to the mail service time out after 15 s, so every task goes on
Fairness == \A t \in Ids : WF_vars(Step(t))
Spec == Init /\ [][Next]_vars /\ Fairness

----------------------------------------------------------------------------
TypeOK ==
  /\ settings \in Row
  /\ update.pc \in {"idle", "check", "create", "hook"}
  /\ update.row \in Row
  /\ owner \in [Segments -> Keys \cup {None, "gone"}]
  /\ post \in [Posts -> [state: {"new", "draft", "public", "deleted"},
                         name: Names \cup {None}, held: SUBSET Names]]
  /\ task \in [Ids -> [pc: Running \cup {"new", "skipped", "ended", "lost"},
                       post: Posts \cup {None}, path: Names \cup {None},
                       auto: BOOLEAN, key: Keys \cup {None},
                       segment: Segments \cup {NoSegment},
                       beside: SUBSET Ids, moved: BOOLEAN]]
  /\ ledger \subseteq [id: Ids, path: Names, status: {"sent", "failed"}, known: BOOLEAN]
  /\ mailed \subseteq Ids /\ updates \in 0..MaxUpdates /\ faults \in 0..MaxFaults

\* A committed row that is enabled can mail, and the segment and the webhook
\* secret are always of the account whose key is stored with them; a task sends
\* only to a segment of the account it sends from (update_settings,
\* _prepare_enable).
OwnAccount(key, segment) == segment # NoSegment => owner[segment] \in {key, "gone"}
SettingsUsable ==
  /\ settings.enabled => Usable
  /\ OwnAccount(settings.key, settings.segment)
  /\ settings.secret \in {None, settings.key}
  /\ \A t \in InFlight : OwnAccount(task[t].key, task[t].segment)

\* A post that was mailed is not mailed again by becoming public once more,
\* under whatever name: only if both tasks were in flight together, the post
\* was renamed or deleted while one was, or the first left no row that says
\* "sent" (already_broadcast and update_broadcast_post_path).
MailedOnce ==
  \A t, u \in mailed :
    t < u /\ task[t].post = task[u].post /\ task[u].auto
      => \/ t \in task[u].beside \/ task[t].moved \/ task[u].moved
         \/ post[task[u].post].state = "deleted"
         \/ ~ \E r \in ledger : r.id = t /\ r.status = "sent"

\* The ledger is true: "sent" was delivered, a failure that may have been
\* delivered names its broadcast, and the rows of a post are found under the
\* name it has now (send_broadcast, BroadcastSendError).
LedgerIsTrue ==
  \A r \in ledger :
    LET p == task[r.id].post IN
    /\ r.status = "sent" => r.id \in mailed
    /\ r.id \in mailed => r.known
    /\ post[p].name # None /\ ~task[r.id].moved => r.path = post[p].name

\* Every broadcast the admin queued ends up in the ledger, which is what the
\* page polls for, unless the server stopped or the row could not be stored.
QueuedIsAnswered ==
  \A t \in Ids :
    task[t].pc \in Running /\ ~task[t].auto
      ~> task[t].pc = "lost" \/ \E r \in ledger : r.id = t
=============================================================================
