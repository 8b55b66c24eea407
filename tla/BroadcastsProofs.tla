-------------------------- MODULE BroadcastsProofs --------------------------
(***************************************************************************)
(* The settings, the once-guard and the ledger for any number of posts,     *)
(* names, accounts, tasks, settings requests and faults. The argument of    *)
(* MailedOnce: tasks are numbered in the order they are queued, two tasks   *)
(* that are in flight together know each other, a task that is not renamed  *)
(* away has the name of its post, and so has the ledger row of such a task. *)
(***************************************************************************)
EXTENDS Broadcasts, TLAPS

\* A row of settings keeps what belongs to one account together.
RowOK(row) ==
  /\ row \in Row
  /\ row.segment # NoSegment => row.key # None
  /\ OwnAccount(row.key, row.segment)
  /\ row.secret \in {None, row.key}

SettingsInv ==
  /\ owner \in [Segments -> Keys \cup {None, "gone"}]
  /\ RowOK(settings)
  /\ settings.enabled => Usable
  /\ update.pc \in {"idle", "check", "create", "hook"}
  /\ RowOK(update.row)
  /\ update.pc # "idle" => update.row.enabled /\ update.row.from /\ update.row.key # None
  /\ update.pc = "check" => update.row.segment # NoSegment
  /\ update.pc = "hook" => update.row.segment # NoSegment

Task == [pc: Running \cup {"new", "skipped", "ended", "lost"},
         post: Posts \cup {None}, path: Names \cup {None},
         auto: BOOLEAN, key: Keys \cup {None},
         segment: Segments \cup {NoSegment},
         beside: SUBSET Ids, moved: BOOLEAN]

AccountInv ==
  /\ task \in [Ids -> Task]
  /\ \A t \in Ids : /\ task[t].segment # NoSegment => task[t].key # None
                    /\ OwnAccount(task[t].key, task[t].segment)

\* Tasks are queued in the order of their numbers, and one that was queued
\* while another was in flight knows it.
QueueInv ==
  /\ \A t, u \in Ids : t < u /\ task[u].pc # "new" => task[t].pc # "new"
  /\ \A t, u \in Ids :
       t < u /\ task[u].pc # "new" /\ task[t].pc \in Running => t \in task[u].beside
  /\ \A t \in Ids : task[t].pc # "new" => task[t].post \in Posts

Live(p) == post[p].state \in {"draft", "public"}

\* A directory name leads to one post.
NamesInv ==
  /\ post \in [Posts -> [state: {"new", "draft", "public", "deleted"},
                         name: Names \cup {None}, held: SUBSET Names]]
  /\ \A p \in Posts : IF Live(p) THEN post[p].name \in post[p].held
                      ELSE post[p].name = None /\ post[p].held = {}
  /\ \A p, q \in Posts : p # q => post[p].held \cap post[q].held = {}
  /\ \A t \in Ids : task[t].pc # "new" => post[task[t].post].state # "new"

\* Where a task and its row stand.
PathInv ==
  /\ \A t \in Ids :
       task[t].pc \in Running =>
         /\ task[t].path \in Names
         /\ Live(task[t].post) /\ ~task[t].moved => task[t].path = post[task[t].post].name
  /\ ledger \subseteq [id: Ids, path: Names, status: {"sent", "failed"}, known: BOOLEAN]
  /\ \A r \in ledger :
       /\ task[r.id].pc = "ended"
       /\ Live(task[r.id].post) /\ ~task[r.id].moved => r.path = post[task[r.id].post].name
       /\ r.status = "sent" => r.id \in mailed
       /\ r.id \in mailed => r.known

MailInv ==
  /\ mailed \subseteq {t \in Ids : task[t].pc \in {"sent", "unsure", "ended", "lost"}}
  /\ \A t \in Ids : task[t].pc = "sent" => t \in mailed

\* Behind a row that says "sent", no later task of the same post goes on.
Behind(t, u) ==
  /\ t < u /\ task[t].post = task[u].post /\ task[u].auto /\ task[u].pc # "new"
  /\ t \notin task[u].beside /\ ~task[t].moved /\ ~task[u].moved
  /\ Live(task[u].post)
  /\ \E r \in ledger : r.id = t /\ r.status = "sent"
OnceInv ==
  \A t, u \in Ids :
    Behind(t, u) => task[u].pc \in {"queued", "skipped", "lost"} /\ u \notin mailed

IInv ==
  /\ SettingsInv /\ AccountInv /\ QueueInv /\ NamesInv /\ PathInv /\ MailInv /\ OnceInv

----------------------------------------------------------------------------
(* Settings.                                                                *)

LEMMA ParameterTypes ==
  /\ 1 \in Segments /\ NoSegment \notin Segments
  /\ Ids \subseteq Nat \ {0} /\ Segments \subseteq Nat \ {0}
<1>1. MaxTasks \in Nat /\ MaxSegments \in Nat \ {0}
  BY BroadcastsAssumption
<1> QED
  BY <1>1 DEF Ids, Segments, NoSegment

LEMMA SettingsStep ==
  ASSUME SettingsInv,
         \/ \E k \in Keys \cup {settings.key}, from, enabled \in BOOLEAN :
              UpdateSettings(k, from, enabled)
         \/ CheckSegment \/ CommitSettings \/ UpdateFails \/ Restart
         \/ \E s \in Segments : CreateSegment(s) \/ LoseSegment(s)
  PROVE  SettingsInv'
<1> USE DEF SettingsInv, RowOK, OwnAccount, Row
<1>1. ASSUME NEW k \in Keys \cup {settings.key}, NEW from \in BOOLEAN, NEW enabled \in BOOLEAN,
             UpdateSettings(k, from, enabled)
      PROVE  SettingsInv'
  <2> DEFINE row == [Rekeyed(settings, k) EXCEPT !.from = from, !.enabled = enabled]
  <2>1. RowOK(row) /\ row.enabled = enabled /\ row.from = from
    BY ParameterTypes DEF Rekeyed
  <2>2. owner' = owner /\ updates' = updates + 1
    BY <1>1 DEF UpdateSettings
  <2>3. CASE enabled /\ row.key # None /\ from /\ update' = Prepared(row) /\ UNCHANGED settings
    <3> HIDE DEF row
    <3> QED
      BY <2>1, <2>2, <2>3 DEF Prepared, Usable
  <2>4. CASE ~enabled /\ settings' = row /\ UNCHANGED update
    <3> HIDE DEF row
    <3> QED
      BY <2>1, <2>2, <2>4
  <2> QED
    BY <1>1, <2>3, <2>4 DEF UpdateSettings
<1>2. CASE CheckSegment
  BY <1>2, ParameterTypes DEF CheckSegment, Usable
<1>3. RowOK(Initial) /\ ~Initial.enabled
  BY DEF Initial, NoSegment
<1>4. CASE CommitSettings
  <2>1. PICK secret \in {update.row.secret, update.row.key} :
          settings' = [update.row EXCEPT !.secret = secret]
    BY <1>4 DEF CommitSettings
  <2>2. update.pc = "hook" /\ secret \in {None, update.row.key} /\ owner' = owner
    BY <1>4, <2>1 DEF CommitSettings
  <2>3. RowOK(settings') /\ settings'.enabled /\ Usable'
    BY <2>1, <2>2 DEF Usable
  <2>4. update' = Idle
    BY <1>4 DEF CommitSettings
  <2> QED
    BY <1>3, <2>2, <2>3, <2>4 DEF Idle
<1>7. CASE UpdateFails \/ Restart
  <2>1. update' = Idle /\ UNCHANGED <<settings, owner>>
    BY <1>7 DEF UpdateFails, Restart
  <2> QED
    BY <1>3, <2>1 DEF Idle, Usable
<1>5. ASSUME NEW s \in Segments, CreateSegment(s)
      PROVE  SettingsInv'
  <2>1. /\ owner[s] = None /\ owner' = [owner EXCEPT ![s] = update.row.key]
        /\ update' = [pc |-> "hook", row |-> [update.row EXCEPT !.segment = s]]
        /\ update.pc = "create" /\ settings' = settings
    BY <1>5 DEF CreateSegment
  <2>2. settings.segment # s
    BY <2>1, ParameterTypes DEF None
  <2>3. (RowOK(settings))' /\ (settings.enabled => Usable)'
    BY <2>1, <2>2 DEF Usable
  <2>4. (RowOK(update.row))' /\ update'.row.enabled /\ update'.row.from
    BY <2>1, ParameterTypes
  <2> QED
    BY <2>1, <2>3, <2>4, ParameterTypes
<1>6. ASSUME NEW s \in Segments, LoseSegment(s)
      PROVE  SettingsInv'
  BY <1>6 DEF LoseSegment, Usable
<1> QED
  BY <1>1, <1>2, <1>4, <1>5, <1>6, <1>7

\* What posts and tasks do leaves the settings alone.
LEMMA SettingsUntouched ==
  ASSUME SettingsInv, UNCHANGED <<settings, update, owner>>
  PROVE  SettingsInv'
BY DEF SettingsInv, RowOK, OwnAccount, Usable

----------------------------------------------------------------------------
(* Queueing a task, alone or with the post it announces.                    *)

\* Task n, if any, joins those in flight; the tasks of a renamed post know it.
Joined(n, p, path, auto, renamed) ==
  /\ n \in Ids =>
       /\ task[n].pc = "new" /\ \A u \in Ids : task[u].pc = "new" => n <= u
       /\ task'[n] = [NoTask EXCEPT !.pc = "queued", !.post = p, !.path = path, !.auto = auto,
                                    !.beside = InFlight]
  /\ \A t \in Ids \ {n} :
       /\ task'[t].pc = task[t].pc /\ task'[t].post = task[t].post
       /\ task'[t].path = task[t].path /\ task'[t].auto = task[t].auto
       /\ task'[t].key = task[t].key /\ task'[t].segment = task[t].segment
       /\ task'[t].beside = IF n \in Ids /\ t \in InFlight THEN task[t].beside \cup {n}
                            ELSE task[t].beside
       /\ task'[t].moved = IF renamed /\ t \in InFlight /\ task[t].post = p THEN TRUE
                           ELSE task[t].moved
  /\ task' \in [Ids -> Task]

LEMMA FiredJoins ==
  ASSUME task \in [Ids -> Task], NEW p \in Posts, NEW path \in Names, NEW auto \in BOOLEAN,
         NEW renamed \in BOOLEAN, NEW tasks,
         tasks = [t \in Ids |-> IF renamed /\ t \in InFlight /\ task[t].post = p
                               THEN [task[t] EXCEPT !.moved = TRUE] ELSE task[t]],
         task' \in Fired(tasks, p, path, auto) \cup {tasks}
  PROVE  \E n \in Ids \cup {0} : Joined(n, p, path, auto, renamed)
<1>1. \A t \in Ids :
        /\ tasks[t] \in Task
        /\ tasks[t].pc = task[t].pc /\ tasks[t].post = task[t].post
        /\ tasks[t].path = task[t].path /\ tasks[t].auto = task[t].auto
        /\ tasks[t].key = task[t].key /\ tasks[t].segment = task[t].segment
        /\ tasks[t].beside = task[t].beside
        /\ tasks[t].moved = IF renamed /\ t \in InFlight /\ task[t].post = p THEN TRUE
                            ELSE task[t].moved
  <2> TAKE t \in Ids
  <2>1. task[t] \in Task
    OBVIOUS
  <2>2. CASE renamed /\ t \in InFlight /\ task[t].post = p
    <3>1. tasks[t] = [task[t] EXCEPT !.moved = TRUE]
      BY <2>2
    <3> QED
      BY <2>1, <2>2, <3>1 DEF Task
  <2>3. CASE ~(renamed /\ t \in InFlight /\ task[t].post = p)
    <3>1. tasks[t] = task[t]
      BY <2>3
    <3> QED
      BY <2>1, <2>3, <3>1 DEF Task
  <2> QED
    BY <2>2, <2>3
<1>2. tasks \in [Ids -> Task]
  BY <1>1
<1>3. {t \in Ids : tasks[t].pc \in Running} = InFlight
  BY <1>1 DEF InFlight
<1>4. CASE task' = tasks
  <2>1. Joined(0, p, path, auto, renamed)
    <3>1. 0 \notin Ids
      BY ParameterTypes
    <3> QED
      BY <1>1, <1>2, <1>4, <3>1 DEF Joined
  <2> QED
    BY <2>1
<1>5. CASE task' # tasks
  <2>1. PICK n \in Ids :
          /\ tasks[n].pc = "new" /\ \A u \in Ids : tasks[u].pc = "new" => n <= u
          /\ task' = [t \in Ids |->
                 IF t = n THEN [NoTask EXCEPT !.pc = "queued", !.post = p, !.path = path,
                                              !.auto = auto, !.beside = InFlight]
                 ELSE IF t \in InFlight THEN [tasks[t] EXCEPT !.beside = @ \cup {n}]
                 ELSE tasks[t]]
    <3>1. task' \in Fired(tasks, p, path, auto) /\ task' # tasks
      BY <1>5
    <3> DEFINE live == {t \in Ids : tasks[t].pc \in Running}
               new == {t \in Ids : tasks[t].pc = "new"}
               With(n) == [t \in Ids |->
                 IF t = n THEN [NoTask EXCEPT !.pc = "queued", !.post = p, !.path = path,
                                              !.auto = auto, !.beside = live]
                 ELSE IF t \in live THEN [tasks[t] EXCEPT !.beside = @ \cup {n}]
                 ELSE tasks[t]]
    <3>2. task' \in {With(n) : n \in {t \in new : \A u \in new : t <= u}}
      BY <3>1 DEF Fired
    <3>3. PICK n \in {t \in new : \A u \in new : t <= u} : task' = With(n)
      BY <3>2
    <3>4. n \in Ids /\ tasks[n].pc = "new" /\ \A u \in Ids : tasks[u].pc = "new" => n <= u
      BY <3>3
    <3>5. live = InFlight
      BY <1>3
    <3> HIDE DEF live
    <3>6. task' = [t \in Ids |->
                 IF t = n THEN [NoTask EXCEPT !.pc = "queued", !.post = p, !.path = path,
                                              !.auto = auto, !.beside = InFlight]
                 ELSE IF t \in InFlight THEN [tasks[t] EXCEPT !.beside = @ \cup {n}]
                 ELSE tasks[t]]
      BY <3>3, <3>5
    <3> HIDE DEF new, With
    <3> QED
      BY <3>4, <3>6
  <2>2. [NoTask EXCEPT !.pc = "queued", !.post = p, !.path = path, !.auto = auto,
                       !.beside = InFlight] \in Task
    BY DEF NoTask, Task, InFlight, Running, NoSegment
  <2>3. ASSUME NEW t \in Ids PROVE [tasks[t] EXCEPT !.beside = @ \cup {n}] \in Task
    <3>1. tasks[t] \in Task /\ tasks[t].beside \cup {n} \in SUBSET Ids
      BY <1>1 DEF Task
    <3> QED
      BY <3>1, ZenonT(30) DEF Task
  <2>4. task' \in [Ids -> Task]
    BY <1>1, <2>1, <2>2, <2>3
  <2>5. ASSUME NEW t \in Ids \ {n}
        PROVE  /\ task'[t].pc = tasks[t].pc /\ task'[t].post = tasks[t].post
               /\ task'[t].path = tasks[t].path /\ task'[t].auto = tasks[t].auto
               /\ task'[t].key = tasks[t].key /\ task'[t].segment = tasks[t].segment
               /\ task'[t].beside = IF t \in InFlight THEN tasks[t].beside \cup {n}
                                    ELSE tasks[t].beside
               /\ task'[t].moved = tasks[t].moved
    <3>1. tasks[t] \in Task
      BY <1>1
    <3>2. task'[t] = IF t \in InFlight THEN [tasks[t] EXCEPT !.beside = @ \cup {n}]
                     ELSE tasks[t]
      BY <2>1
    <3> QED
      BY <3>1, <3>2 DEF Task
  <2>6. task[n].pc = "new" /\ \A u \in Ids : task[u].pc = "new" => n <= u
    BY <1>1, <2>1
  <2>7. task'[n] = [NoTask EXCEPT !.pc = "queued", !.post = p, !.path = path, !.auto = auto,
                                  !.beside = InFlight]
    BY <2>1
  <2>8. ASSUME NEW t \in Ids \ {n}
        PROVE  /\ task'[t].pc = task[t].pc /\ task'[t].post = task[t].post
               /\ task'[t].path = task[t].path /\ task'[t].auto = task[t].auto
               /\ task'[t].key = task[t].key /\ task'[t].segment = task[t].segment
               /\ task'[t].beside = IF n \in Ids /\ t \in InFlight THEN task[t].beside \cup {n}
                                    ELSE task[t].beside
               /\ task'[t].moved = IF renamed /\ t \in InFlight /\ task[t].post = p THEN TRUE
                                   ELSE task[t].moved
    <3>0. t \in Ids
      OBVIOUS
    <3>1. task'[t].moved = IF renamed /\ t \in InFlight /\ task[t].post = p THEN TRUE
                           ELSE task[t].moved
      <4>1. task'[t].moved = tasks[t].moved
        BY <2>5
      <4>2. tasks[t].moved = IF renamed /\ t \in InFlight /\ task[t].post = p THEN TRUE
                             ELSE task[t].moved
        BY <1>1, <3>0
      <4> QED
        BY <4>1, <4>2, Zenon
    <3>2. task'[t].beside = IF t \in InFlight THEN task[t].beside \cup {n} ELSE task[t].beside
      BY <1>1, <2>5
    <3>3. /\ task'[t].pc = task[t].pc /\ task'[t].post = task[t].post
          /\ task'[t].path = task[t].path /\ task'[t].auto = task[t].auto
          /\ task'[t].key = task[t].key /\ task'[t].segment = task[t].segment
      <4>1. /\ task'[t].pc = tasks[t].pc /\ task'[t].post = tasks[t].post
            /\ task'[t].path = tasks[t].path /\ task'[t].auto = tasks[t].auto
            /\ task'[t].key = tasks[t].key /\ task'[t].segment = tasks[t].segment
        BY <2>5
      <4>2. /\ tasks[t].pc = task[t].pc /\ tasks[t].post = task[t].post
            /\ tasks[t].path = task[t].path /\ tasks[t].auto = task[t].auto
            /\ tasks[t].key = task[t].key /\ tasks[t].segment = task[t].segment
        BY <1>1, <3>0
      <4> QED
        BY <4>1, <4>2, Zenon
    <3> QED
      BY <3>1, <3>2, <3>3
  <2>9. Joined(n, p, path, auto, renamed)
    BY <2>4, <2>6, <2>7, <2>8 DEF Joined
  <2> QED
    BY <2>9
<1> QED
  BY <1>4, <1>5

\* A post is created, saved or triggered: it is live, has the name, and nothing
\* else has changed but the task that joined and the ledger of a rename.
Advanced(n, p, name, auto, renamed) ==
  /\ Joined(n, p, name, auto, renamed)
  /\ \A q \in Posts \ {p} : post'[q] = post[q] /\ post'[p].held \cap post[q].held = {}
  /\ Live(p)' /\ post'[p].name = name /\ name \in post'[p].held
  /\ post' \in [Posts -> [state: {"new", "draft", "public", "deleted"},
                          name: Names \cup {None}, held: SUBSET Names]]
  /\ post[p].state = "new" \/ Live(p)
  /\ renamed <=> (Live(p) /\ name # post[p].name)
  /\ ledger' = IF renamed THEN Repathed(post[p].name, name) ELSE ledger
  /\ UNCHANGED <<mailed, settings, update, owner>>

LEMMA PostsAdvance ==
  ASSUME IInv, NEW p \in Posts,
         \/ \E name \in Names, draft \in BOOLEAN :
              CreatePost(p, name, draft) \/ UpdatePost(p, name, draft)
         \/ Trigger(p)
  PROVE  \E n \in Ids \cup {0}, name \in Names, auto \in BOOLEAN, renamed \in BOOLEAN :
           Advanced(n, p, name, auto, renamed)
<1> DEFINE PostType == [state: {"new", "draft", "public", "deleted"},
                        name: Names \cup {None}, held: SUBSET Names]
<1>1. task \in [Ids -> Task] /\ post \in [Posts -> PostType] /\ p \in Posts
  BY DEF IInv, AccountInv, NamesInv
<1>2. \A q \in Posts \ {p} : post[p].held \cap post[q].held = {}
  BY DEF IInv, NamesInv
<1>3. ASSUME NEW name \in Names, NEW draft \in BOOLEAN, CreatePost(p, name, draft)
      PROVE  \E n \in Ids \cup {0} : Advanced(n, p, name, TRUE, FALSE)
  <2>1. /\ post[p].state = "new" /\ name \in FreeFor(p)
        /\ post' = [post EXCEPT ![p] = [state |-> IF draft THEN "draft" ELSE "public",
                                        name |-> name, held |-> {name}]]
        /\ UNCHANGED <<mailed, settings, update, owner, ledger>>
    BY <1>3 DEF CreatePost
  <2>2. task' \in Fired(task, p, name, TRUE) \cup {task}
    BY <1>3 DEF CreatePost, Announced
  <2>3. task = [t \in Ids |-> IF FALSE /\ t \in InFlight /\ task[t].post = p
                             THEN [task[t] EXCEPT !.moved = TRUE] ELSE task[t]]
    BY <1>1
  <2>4. PICK n \in Ids \cup {0} : Joined(n, p, name, TRUE, FALSE)
    BY <1>1, <2>2, <2>3, FiredJoins
  <2>5. \A q \in Posts \ {p} : name \notin post[q].held
    BY <2>1 DEF FreeFor
  <2>6. post'[p] = [state |-> IF draft THEN "draft" ELSE "public", name |-> name,
                    held |-> {name}]
        /\ \A q \in Posts \ {p} : post'[q] = post[q]
    BY <1>1, <2>1
  <2>7. post'[p] \in PostType
    BY <2>6
  <2>8. post' \in [Posts -> PostType]
    BY <1>1, <2>1, <2>6, <2>7
  <2>9. Advanced(n, p, name, TRUE, FALSE)
    BY <2>1, <2>4, <2>5, <2>6, <2>8, ZenonT(30) DEF Advanced, Live
  <2> QED
    BY <2>9
<1>4. ASSUME NEW name \in Names, NEW draft \in BOOLEAN, UpdatePost(p, name, draft)
      PROVE  \E n \in Ids \cup {0}, renamed \in BOOLEAN : Advanced(n, p, name, TRUE, renamed)
  <2> DEFINE renamed == name # post[p].name
             tasks == [t \in Ids |-> IF renamed /\ t \in InFlight /\ task[t].post = p
                                    THEN [task[t] EXCEPT !.moved = TRUE] ELSE task[t]]
  <2>1. /\ Live(p) /\ name \in FreeFor(p)
        /\ post' = [post EXCEPT ![p] = [state |-> IF draft THEN "draft" ELSE "public",
                                        name |-> name, held |-> post[p].held \cup {name}]]
        /\ ledger' = IF renamed THEN Repathed(post[p].name, name) ELSE ledger
        /\ UNCHANGED <<mailed, settings, update, owner>>
    BY <1>1, <1>4 DEF UpdatePost, Live
  <2>2. tasks = [t \in Ids |->
                  IF task[t].pc \in Running /\ task[t].post = p /\ name # post[p].name
                  THEN [task[t] EXCEPT !.moved = TRUE] ELSE task[t]]
    BY DEF InFlight
  <2>3. task' \in Fired(tasks, p, name, TRUE) \cup {tasks}
    <3> HIDE DEF tasks
    <3> QED
      BY <1>4, <2>2 DEF UpdatePost, Announced
  <2>4. PICK n \in Ids \cup {0} : Joined(n, p, name, TRUE, renamed)
    <3>1. renamed \in BOOLEAN
      OBVIOUS
    <3>2. tasks = [t \in Ids |-> IF renamed /\ t \in InFlight /\ task[t].post = p
                                THEN [task[t] EXCEPT !.moved = TRUE] ELSE task[t]]
      OBVIOUS
    <3> HIDE DEF tasks, renamed
    <3> QED
      BY <1>1, <2>3, <3>1, <3>2, FiredJoins
  <2>5. \A q \in Posts \ {p} : name \notin post[q].held
    BY <2>1 DEF FreeFor
  <2>6. post'[p] = [state |-> IF draft THEN "draft" ELSE "public", name |-> name,
                    held |-> post[p].held \cup {name}]
        /\ \A q \in Posts \ {p} : post'[q] = post[q]
    BY <1>1, <2>1
  <2>7. post'[p] \in PostType
    BY <1>1, <2>6
  <2>8. post' \in [Posts -> PostType]
    BY <1>1, <2>1, <2>6, <2>7
  <2>9. \A q \in Posts \ {p} : post'[q] = post[q] /\ post'[p].held \cap post[q].held = {}
    <3>1. \A q \in Posts \ {p} : post[p].held \cap post[q].held = {}
      BY <1>2
    <3> QED
      BY <2>5, <2>6, <3>1
  <2>10. Live(p)' /\ post'[p].name = name /\ name \in post'[p].held
    BY <2>6 DEF Live
  <2>11. ledger' = IF renamed THEN Repathed(post[p].name, name) ELSE ledger
    BY <2>1
  <2>12. renamed <=> (Live(p) /\ name # post[p].name)
    BY <2>1
  <2>13. UNCHANGED <<mailed, settings, update, owner>>
    BY <2>1
  <2> HIDE DEF renamed
  <2>14. Advanced(n, p, name, TRUE, renamed)
    BY <2>1, <2>4, <2>8, <2>9, <2>10, <2>11, <2>12, <2>13 DEF Advanced
  <2>15. renamed \in BOOLEAN
    BY DEF renamed
  <2> QED
    BY <2>14, <2>15
<1>5. ASSUME Trigger(p)
      PROVE  \E n \in Ids \cup {0} : Advanced(n, p, post[p].name, FALSE, FALSE)
  <2>1. Live(p) /\ UNCHANGED <<post, ledger, mailed, settings, update, owner>>
        /\ task' \in Fired(task, p, post[p].name, FALSE)
    BY <1>5 DEF Trigger, Live
  <2>2. post[p].name \in post[p].held /\ post[p].name \in Names
    BY <1>1, <2>1 DEF IInv, NamesInv
  <2>3. task = [t \in Ids |-> IF FALSE /\ t \in InFlight /\ task[t].post = p
                             THEN [task[t] EXCEPT !.moved = TRUE] ELSE task[t]]
    BY <1>1
  <2>4. PICK n \in Ids \cup {0} : Joined(n, p, post[p].name, FALSE, FALSE)
    BY <1>1, <2>1, <2>2, <2>3, FiredJoins
  <2>5. Advanced(n, p, post[p].name, FALSE, FALSE)
    BY <1>1, <1>2, <2>1, <2>2, <2>4 DEF Advanced, Live
  <2> QED
    BY <2>5
<1>6. Trigger(p) => post[p].name \in Names
  BY <1>1 DEF Trigger, IInv, NamesInv, Live
<1> QED
  BY <1>3, <1>4, <1>5, <1>6

LEMMA AdvanceKeeps ==
  ASSUME IInv, NEW p \in Posts, NEW n \in Ids \cup {0}, NEW name \in Names,
         NEW auto \in BOOLEAN, NEW renamed \in BOOLEAN,
         Advanced(n, p, name, auto, renamed)
  PROVE  IInv'
<1>1. /\ \A t, u \in Ids : t < u /\ task[u].pc # "new" => task[t].pc # "new"
      /\ \A t \in Ids : task[t].pc # "new" =>
           /\ task[t].post \in Posts /\ post[task[t].post].state # "new"
  BY DEF IInv, QueueInv, NamesInv
<1>2. n \in Ids =>
        /\ task[n].pc = "new" /\ task'[n].pc = "queued" /\ task'[n].post = p
        /\ task'[n].path = name /\ task'[n].key = None /\ task'[n].segment = NoSegment
        /\ task'[n].beside = InFlight /\ ~task'[n].moved
  BY ZenonT(30) DEF Advanced, Joined, NoTask
<1>3. \A t \in Ids \ {n} :
        /\ task'[t].pc = task[t].pc /\ task'[t].post = task[t].post
        /\ task'[t].path = task[t].path /\ task'[t].auto = task[t].auto
        /\ task'[t].key = task[t].key /\ task'[t].segment = task[t].segment
        /\ task[t].beside \subseteq task'[t].beside
        /\ task[t].moved => task'[t].moved
        /\ renamed /\ t \in InFlight /\ task[t].post = p => task'[t].moved
        /\ t \notin InFlight => task'[t].moved = task[t].moved
  BY ZenonT(30) DEF Advanced, Joined
<1>4. \A t \in Ids : n \in Ids /\ n < t => task[t].pc = "new"
  BY <1>1, <1>2
<1>5. \A t \in Ids : n \in Ids /\ t < n => task[t].pc # "new"
  <2> SUFFICES ASSUME NEW t \in Ids, n \in Ids, t < n, task[t].pc = "new" PROVE FALSE
    OBVIOUS
  <2>1. n <= t
    BY DEF Advanced, Joined
  <2> QED
    BY <2>1, ParameterTypes
<1>6. SettingsInv'
  BY SettingsUntouched DEF IInv, Advanced
<1>7. AccountInv'
  <2>1. task' \in [Ids -> Task] /\ owner' = owner
    BY DEF Advanced, Joined
  <2>2. ASSUME NEW t \in Ids
        PROVE  /\ task'[t].segment # NoSegment => task'[t].key # None
               /\ task'[t].segment # NoSegment => owner[task'[t].segment] \in {task'[t].key, "gone"}
    BY <1>2, <1>3 DEF IInv, AccountInv, OwnAccount
  <2> QED
    BY <2>1, <2>2 DEF AccountInv, OwnAccount
<1>8. QueueInv'
  <2>1. ASSUME NEW t \in Ids, NEW u \in Ids, t < u, task'[u].pc # "new"
        PROVE  task'[t].pc # "new"
    <3>1. CASE u = n
      BY <1>2, <1>3, <1>5, <2>1, <3>1
    <3>2. CASE u # n
      BY <1>1, <1>2, <1>3, <2>1, <3>2
    <3> QED
      BY <3>1, <3>2
  <2>2. ASSUME NEW t \in Ids, NEW u \in Ids, t < u, task'[u].pc # "new", task'[t].pc \in Running
        PROVE  t \in task'[u].beside
    <3>1. CASE u = n
      <4>1. t # n
        BY <2>2, <3>1, ParameterTypes
      <4> QED
        BY <1>2, <1>3, <2>2, <3>1, <4>1 DEF InFlight
    <3>2. CASE u # n
      <4>1. task[u].pc # "new" /\ t # n
        BY <1>3, <1>4, <2>2, <3>2
      <4>2. t \in task[u].beside
        BY <1>3, <2>2, <4>1 DEF IInv, QueueInv
      <4> QED
        BY <1>3, <3>2, <4>2
    <3> QED
      BY <3>1, <3>2
  <2>3. ASSUME NEW t \in Ids, task'[t].pc # "new" PROVE task'[t].post \in Posts
    BY <1>1, <1>2, <1>3, <2>3
  <2> QED
    BY <2>1, <2>2, <2>3 DEF QueueInv
<1>9. NamesInv'
  <2>1. /\ \A q \in Posts \ {p} : post'[q] = post[q] /\ post'[p].held \cap post[q].held = {}
        /\ Live(p)' /\ post'[p].name = name /\ name \in post'[p].held
    BY DEF Advanced
  <2>2. \A q \in Posts : IF Live(q)' THEN post'[q].name \in post'[q].held
                         ELSE post'[q].name = None /\ post'[q].held = {}
    BY <2>1 DEF IInv, NamesInv, Live
  <2>3. \A q, r \in Posts : q # r => post'[q].held \cap post'[r].held = {}
    BY <2>1 DEF IInv, NamesInv
  <2>4. \A t \in Ids : task'[t].pc # "new" => post'[task'[t].post].state # "new"
    BY <1>1, <1>2, <1>3, <2>1 DEF Live
  <2> QED
    BY <2>2, <2>3, <2>4 DEF Advanced, NamesInv
<1>10. \A t \in Ids : task[t].pc # "new" /\ task[t].post = p => Live(p)
  BY <1>1 DEF Advanced
<1>11. \A t \in Ids : task[t].pc # "new" /\ Live(task[t].post)' => Live(task[t].post)
  <2> SUFFICES ASSUME NEW t \in Ids, task[t].pc # "new", Live(task[t].post)'
               PROVE  Live(task[t].post)
    OBVIOUS
  <2>1. t # n /\ task'[t].post = task[t].post
    BY <1>2, <1>3
  <2> QED
    BY <1>1, <1>10, <2>1 DEF Advanced, Live
<1>12. PathInv'
  <2>1. ASSUME NEW t \in Ids, task'[t].pc \in Running
        PROVE  /\ task'[t].path \in Names
               /\ Live(task[t].post)' /\ ~task'[t].moved =>
                    task'[t].path = post'[task'[t].post].name
    <3>1. CASE t = n
      BY <1>2, <3>1 DEF Advanced
    <3>2. CASE t # n
      <4>1. t \in InFlight /\ task[t].pc # "new" /\ task[t].path \in Names
        BY <1>3, <2>1, <3>2 DEF InFlight, Running, IInv, PathInv
      <4>2. ASSUME Live(task[t].post)', ~task'[t].moved
            PROVE  task'[t].path = post'[task'[t].post].name
        <5>1. task[t].path = post[task[t].post].name
          BY <1>3, <1>11, <3>2, <4>1, <4>2 DEF IInv, PathInv, InFlight
        <5>2. CASE task[t].post = p
          <6>1. name = post[p].name
            BY <1>3, <1>10, <3>2, <4>1, <4>2, <5>2 DEF Advanced
          <6> QED
            BY <1>3, <3>2, <5>1, <5>2, <6>1 DEF Advanced
        <5>3. CASE task[t].post # p
          BY <1>1, <1>3, <3>2, <4>1, <5>1, <5>3 DEF Advanced
        <5> QED
          BY <5>2, <5>3
      <4> QED
        BY <1>3, <3>2, <4>1, <4>2
    <3> QED
      BY <3>1, <3>2
  <2>2. ASSUME NEW r \in ledger'
        PROVE  /\ r \in [id: Ids, path: Names, status: {"sent", "failed"}, known: BOOLEAN]
               /\ task'[r.id].pc = "ended"
               /\ Live(task[r.id].post)' /\ ~task'[r.id].moved =>
                    r.path = post'[task'[r.id].post].name
               /\ r.status = "sent" => r.id \in mailed'
               /\ r.id \in mailed' => r.known
    <3>1. PICK s \in ledger :
            r = IF renamed /\ s.path = post[p].name THEN [s EXCEPT !.path = name] ELSE s
      BY <2>2 DEF Advanced, Repathed
    <3>2. s \in [id: Ids, path: Names, status: {"sent", "failed"}, known: BOOLEAN]
      BY DEF IInv, PathInv
    <3>3. /\ r \in [id: Ids, path: Names, status: {"sent", "failed"}, known: BOOLEAN]
          /\ r.id = s.id /\ r.status = s.status /\ r.known = s.known
          /\ r.path = IF renamed /\ s.path = post[p].name THEN name ELSE s.path
      BY <3>1, <3>2
    <3>4. /\ task[s.id].pc = "ended" /\ s.id \in Ids \ {n} /\ s.id \notin InFlight
          /\ s.status = "sent" => s.id \in mailed
          /\ s.id \in mailed => s.known
          /\ Live(task[s.id].post) /\ ~task[s.id].moved =>
               s.path = post[task[s.id].post].name
      BY <1>2, <3>2 DEF IInv, PathInv, InFlight, Running
    <3>5. mailed' = mailed
      BY DEF Advanced
    <3>6. ASSUME Live(task[s.id].post)', ~task'[s.id].moved
          PROVE  r.path = post'[task'[s.id].post].name
      <4>1. s.path = post[task[s.id].post].name /\ Live(task[s.id].post)
        BY <1>3, <1>11, <3>4, <3>6
      <4>2. task'[s.id].post = task[s.id].post /\ task[s.id].post \in Posts
        BY <1>1, <1>3, <3>4
      <4>3. CASE task[s.id].post = p
        BY <3>3, <4>1, <4>2, <4>3 DEF Advanced
      <4>4. CASE task[s.id].post # p
        <5>1. post'[task[s.id].post] = post[task[s.id].post]
          BY <4>2, <4>4 DEF Advanced
        <5>2. ~(renamed /\ s.path = post[p].name)
          <6>1. post[task[s.id].post].held \cap post[p].held = {}
            BY <4>2, <4>4 DEF IInv, NamesInv
          <6>2. s.path \in post[task[s.id].post].held
            BY <4>1, <4>2 DEF IInv, NamesInv
          <6>3. renamed => post[p].name \in post[p].held
            BY DEF IInv, NamesInv, Advanced
          <6> QED
            BY <6>1, <6>2, <6>3
        <5> QED
          BY <3>3, <4>1, <4>2, <5>1, <5>2
      <4> QED
        BY <4>3, <4>4
    <3> QED
      BY <1>3, <3>3, <3>4, <3>5, <3>6
  <2>3. ledger' \subseteq [id: Ids, path: Names, status: {"sent", "failed"}, known: BOOLEAN]
    BY <2>2
  <2> QED
    BY <2>1, <2>2, <2>3 DEF PathInv
<1>13. MailInv'
  BY <1>2, <1>3 DEF IInv, MailInv, Advanced
<1>14. OnceInv'
  <2> SUFFICES ASSUME NEW t \in Ids, NEW u \in Ids, Behind(t, u)'
               PROVE  task'[u].pc \in {"queued", "skipped", "lost"} /\ u \notin mailed'
    BY DEF OnceInv
  <2>1. CASE u = n
    BY <1>2, <2>1 DEF IInv, MailInv, Advanced
  <2>2. CASE u # n
    <3>1. task[u].pc # "new" /\ t < u
      BY <1>3, <2>2 DEF Behind
    <3>2. t # n
      BY <1>4, <3>1
    <3>3. Live(task[u].post)
      BY <1>11, <3>1 DEF Behind
    <3>4. \E s \in ledger : s.id = t /\ s.status = "sent"
      <4>1. PICK r \in ledger' : r.id = t /\ r.status = "sent"
        BY DEF Behind
      <4>2. PICK s \in ledger :
              r = IF renamed /\ s.path = post[p].name THEN [s EXCEPT !.path = name] ELSE s
        BY <4>1 DEF Advanced, Repathed
      <4>3. s \in [id: Ids, path: Names, status: {"sent", "failed"}, known: BOOLEAN]
        BY DEF IInv, PathInv
      <4> QED
        BY <4>1, <4>2, <4>3
    <3>5. Behind(t, u)
      BY <1>3, <2>2, <3>1, <3>2, <3>3, <3>4 DEF Behind
    <3> QED
      BY <1>3, <2>2, <3>5 DEF IInv, OnceInv, Advanced
  <2> QED
    BY <2>1, <2>2
<1> QED
  BY <1>6, <1>7, <1>8, <1>9, <1>12, <1>13, <1>14 DEF IInv

----------------------------------------------------------------------------
(* The steps of a task.                                                     *)

\* Whatever a task does, it keeps who it is.
Steady(t) ==
  /\ task' \in [Ids -> Task] /\ \A u \in Ids \ {t} : task'[u] = task[u]
  /\ task'[t].post = task[t].post /\ task'[t].auto = task[t].auto
  /\ task'[t].beside = task[t].beside /\ task'[t].moved = task[t].moved
  /\ task[t].pc \in Running /\ task'[t].pc # "new"
  /\ task'[t].pc \in Running => task'[t].path = task[t].path
  /\ \/ task'[t].key = task[t].key /\ task'[t].segment = task[t].segment
     \/ task'[t].segment = NoSegment
     \/ Usable /\ task'[t].key = settings.key /\ task'[t].segment = settings.segment
  /\ UNCHANGED <<settings, update, owner, post>>

\* What it does to the ledger and the readers.
Proceeds(t) ==
  \/ /\ task[t].pc = "queued" /\ UNCHANGED <<ledger, mailed>>
     /\ \/ task'[t].pc = "skipped"
        \/ task'[t].pc \in {"ready", "failed"}
           /\ ~(task[t].auto /\ AlreadyBroadcast(task[t].path))
  \/ /\ task[t].pc = "ready" /\ UNCHANGED <<ledger, mailed>>
     /\ task'[t].pc \in {"created", "failed"}
  \/ /\ task[t].pc = "created" /\ UNCHANGED ledger
     /\ \/ task'[t].pc = "sent" /\ mailed' = mailed \cup {t}
        \/ task'[t].pc = "unsure" /\ mailed' \in {mailed, mailed \cup {t}}
  \/ /\ task[t].pc \in {"sent", "unsure", "failed"} /\ UNCHANGED mailed
     /\ \/ task'[t].pc = "ended" /\ ledger' = ledger \cup {RowOf(t)}
        \/ task'[t].pc = "lost" /\ UNCHANGED ledger

LEMMA EndedType ==
  ASSUME task \in [Ids -> Task], NEW t \in Ids, NEW pc \in {"skipped", "ended", "lost"}
  PROVE  /\ Ended(t, pc) \in Task
         /\ Ended(t, pc).pc = pc /\ Ended(t, pc).post = task[t].post
         /\ Ended(t, pc).auto = task[t].auto /\ Ended(t, pc).beside = task[t].beside
         /\ Ended(t, pc).moved = task[t].moved
         /\ Ended(t, pc).key = None /\ Ended(t, pc).segment = NoSegment
<1>1. task[t] \in Task
  OBVIOUS
<1> QED
  BY <1>1 DEF Ended, NoTask, Task, NoSegment

LEMMA StepEffect ==
  ASSUME IInv, NEW t \in Ids, Step(t)
  PROVE  Steady(t) /\ Proceeds(t)
<1>1. task \in [Ids -> Task] /\ task[t] \in Task
  BY DEF IInv, AccountInv
<1>2. ASSUME NEW pc \in Running, Becomes(t, pc)
      PROVE  /\ task' \in [Ids -> Task] /\ task'[t] = [task[t] EXCEPT !.pc = pc]
             /\ \A u \in Ids \ {t} : task'[u] = task[u]
  <2>1. task' = [task EXCEPT ![t] = [task[t] EXCEPT !.pc = pc]]
    BY <1>1, <1>2 DEF Becomes
  <2>2. [task[t] EXCEPT !.pc = pc] \in Task
    BY <1>1 DEF Task
  <2> QED
    BY <1>1, <2>1, <2>2
<1>3. ASSUME NEW pc \in Running, Becomes(t, pc), task[t].pc \in Running,
             UNCHANGED <<settings, update, owner, post>>
      PROVE  Steady(t) /\ task'[t].pc = pc
  BY <1>1, <1>2, <1>3 DEF Steady, Task, Running
<1>4. ASSUME NEW pc \in {"skipped", "ended", "lost"}, task' = [task EXCEPT ![t] = Ended(t, pc)],
             task[t].pc \in Running, UNCHANGED <<settings, update, owner, post>>
      PROVE  Steady(t) /\ task'[t].pc = pc
  <2>1. task' \in [Ids -> Task] /\ task'[t] = Ended(t, pc)
        /\ \A u \in Ids \ {t} : task'[u] = task[u]
    BY <1>1, <1>4, EndedType
  <2> QED
    BY <1>1, <1>4, <2>1, EndedType DEF Steady, Running
<1>5. CASE Start(t)
  <2>1. task[t].pc = "queued" /\ UNCHANGED <<settings, update, owner, post, ledger, mailed>>
    BY <1>5 DEF Start
  <2>2. CASE Guarded(t) /\ AlreadyBroadcast(task[t].path)
    <3>1. task' = [task EXCEPT ![t] = Ended(t, "skipped")]
      BY <1>1, <1>5, <2>2 DEF Start
    <3> QED
      BY <1>4, <2>1, <3>1 DEF Proceeds, Running
  <2>3. CASE ~(Guarded(t) /\ AlreadyBroadcast(task[t].path)) /\ Usable
    <3>1. task' = [task EXCEPT ![t] = [task[t] EXCEPT !.pc = "ready", !.key = settings.key,
                                                      !.segment = settings.segment]]
      BY <1>1, <1>5, <2>3 DEF Start
    <3>2. [task[t] EXCEPT !.pc = "ready", !.key = settings.key, !.segment = settings.segment]
            \in Task
      BY <1>1 DEF Task, IInv, SettingsInv, RowOK, Row, Running
    <3>3. /\ task' \in [Ids -> Task] /\ \A u \in Ids \ {t} : task'[u] = task[u]
          /\ task'[t].pc = "ready" /\ task'[t].key = settings.key
          /\ task'[t].segment = settings.segment /\ task'[t].post = task[t].post
          /\ task'[t].auto = task[t].auto /\ task'[t].beside = task[t].beside
          /\ task'[t].moved = task[t].moved /\ task'[t].path = task[t].path
      BY <1>1, <3>1, <3>2 DEF Task
    <3> QED
      BY <2>1, <2>3, <3>3 DEF Steady, Proceeds, Running, Guarded
  <2>4. CASE ~(Guarded(t) /\ AlreadyBroadcast(task[t].path)) /\ ~Usable
    <3>1. Becomes(t, "failed")
      BY <1>1, <1>5, <2>4 DEF Start, Becomes
    <3> QED
      BY <1>3, <2>1, <2>4, <3>1 DEF Proceeds, Running, Guarded
  <2> QED
    BY <2>2, <2>3, <2>4
<1>6. CASE CreateBroadcast(t)
  BY <1>3, <1>6 DEF CreateBroadcast, Proceeds, Running
<1>7. CASE Send(t)
  BY <1>3, <1>7 DEF Send, Proceeds, Running
<1>8. CASE Record(t)
  BY <1>4, <1>8 DEF Record, Proceeds, Running
<1> QED
  BY <1>5, <1>6, <1>7, <1>8 DEF Step

LEMMA StepKeeps ==
  ASSUME IInv, NEW t \in Ids, Step(t)
  PROVE  IInv'
<1>1. Steady(t) /\ Proceeds(t)
  BY StepEffect
<1>2. task \in [Ids -> Task] /\ task[t].pc \in Running /\ task[t].pc # "new"
  BY <1>1 DEF IInv, AccountInv, Steady, Running
<1>3. SettingsInv'
  BY <1>1, SettingsUntouched DEF IInv, Steady
<1>4. AccountInv'
  BY <1>1, ParameterTypes DEF IInv, AccountInv, SettingsInv, RowOK, OwnAccount, Steady
<1>5. QueueInv'
  BY <1>1, <1>2 DEF IInv, QueueInv, Steady
<1>6. NamesInv'
  BY <1>1, <1>2 DEF IInv, NamesInv, Steady, Live
<1>7. MailInv'
  BY <1>1 DEF IInv, MailInv, Steady, Proceeds
<1>8. /\ task[t].path \in Names
      /\ Live(task[t].post) /\ ~task[t].moved => task[t].path = post[task[t].post].name
  BY <1>2 DEF IInv, PathInv
<1>9. PathInv'
  <2>1. \A u \in Ids :
          task'[u].pc \in Running =>
            /\ task'[u].path \in Names
            /\ Live(task[u].post)' /\ ~task'[u].moved =>
                 task'[u].path = post'[task'[u].post].name
    BY <1>1, <1>8 DEF IInv, PathInv, Steady, Live
  <2>2. ASSUME NEW r \in ledger
        PROVE  /\ r \in [id: Ids, path: Names, status: {"sent", "failed"}, known: BOOLEAN]
               /\ task'[r.id].pc = "ended"
               /\ Live(task[r.id].post)' /\ ~task'[r.id].moved =>
                    r.path = post'[task'[r.id].post].name
               /\ r.status = "sent" => r.id \in mailed'
               /\ r.id \in mailed' => r.known
    <3>1. r.id \in Ids \ {t}
      BY <1>2 DEF IInv, PathInv, Running
    <3> QED
      BY <1>1, <3>1 DEF IInv, PathInv, Steady, Proceeds, Live
  <2>3. ASSUME NEW r \in ledger', r \notin ledger
        PROVE  /\ r \in [id: Ids, path: Names, status: {"sent", "failed"}, known: BOOLEAN]
               /\ task'[r.id].pc = "ended"
               /\ Live(task[r.id].post)' /\ ~task'[r.id].moved =>
                    r.path = post'[task'[r.id].post].name
               /\ r.status = "sent" => r.id \in mailed'
               /\ r.id \in mailed' => r.known
    <3>1. r = RowOf(t) /\ task'[t].pc = "ended" /\ mailed' = mailed
          /\ task[t].pc \in {"sent", "unsure", "failed"}
      BY <1>1, <2>3 DEF Proceeds
    <3>2. /\ r.id = t /\ r.path = task[t].path /\ r.known = (task[t].pc \in {"sent", "unsure"})
          /\ r.status = IF task[t].pc = "sent" THEN "sent" ELSE "failed"
          /\ r \in [id: Ids, path: Names, status: {"sent", "failed"}, known: BOOLEAN]
      BY <1>8, <3>1 DEF RowOf
    <3>3. task[t].pc = "sent" => t \in mailed
      BY DEF IInv, MailInv
    <3>4. t \in mailed => task[t].pc \in {"sent", "unsure"}
      BY <1>2 DEF IInv, MailInv, Running
    <3> QED
      BY <1>1, <1>8, <3>1, <3>2, <3>3, <3>4 DEF Steady, Live
  <2>4. ledger' \subseteq [id: Ids, path: Names, status: {"sent", "failed"}, known: BOOLEAN]
    BY <2>2, <2>3
  <2> QED
    BY <2>1, <2>2, <2>3, <2>4 DEF PathInv
<1>10. OnceInv'
  <2> SUFFICES ASSUME NEW a \in Ids, NEW b \in Ids, Behind(a, b)'
               PROVE  task'[b].pc \in {"queued", "skipped", "lost"} /\ b \notin mailed'
    BY DEF OnceInv
  <2>1. PICK r \in ledger' : r.id = a /\ r.status = "sent"
    BY DEF Behind
  <2>2. /\ a < b /\ task[a].post = task[b].post /\ task[b].auto /\ task[b].pc # "new"
        /\ a \notin task[b].beside /\ ~task[a].moved /\ ~task[b].moved /\ Live(task[b].post)
    BY <1>1, <1>2 DEF Behind, Steady, Live
  <2>3. r \in ledger
    <3> SUFFICES ASSUME r \notin ledger PROVE FALSE
      OBVIOUS
    <3>1. a = t
      BY <1>1, <2>1 DEF Proceeds, RowOf
    <3> QED
      BY <1>2, <2>2, <3>1 DEF IInv, QueueInv
  <2>4. task[b].pc \in {"queued", "skipped", "lost"} /\ b \notin mailed
    BY <2>1, <2>2, <2>3 DEF IInv, OnceInv, Behind
  <2>5. CASE b # t
    BY <1>1, <2>4, <2>5 DEF Steady, Proceeds
  <2>6. CASE b = t
    <3>1. task[t].pc = "queued"
      BY <1>2, <2>4, <2>6 DEF Running
    <3>2. r.path = post[task[a].post].name
      BY <2>1, <2>2, <2>3 DEF IInv, PathInv
    <3>3. AlreadyBroadcast(task[t].path)
      BY <1>8, <2>1, <2>2, <2>3, <2>6, <3>2 DEF AlreadyBroadcast
    <3> QED
      BY <1>1, <2>2, <2>4, <2>6, <3>1, <3>3 DEF Proceeds
  <2> QED
    BY <2>5, <2>6
<1> QED
  BY <1>3, <1>4, <1>5, <1>6, <1>7, <1>9, <1>10 DEF IInv

----------------------------------------------------------------------------
(* The other steps.                                                         *)

\* A task of an account stays with it whatever the admin does.
LEMMA SettingsKeep ==
  ASSUME IInv,
         \/ \E k \in Keys \cup {settings.key}, from, enabled \in BOOLEAN :
              UpdateSettings(k, from, enabled)
         \/ CheckSegment \/ CommitSettings \/ UpdateFails
         \/ \E s \in Segments : CreateSegment(s) \/ LoseSegment(s)
  PROVE  IInv'
<1>1. SettingsInv'
  BY SettingsStep DEF IInv
<1>2. UNCHANGED <<post, task, ledger, mailed>>
  BY DEF UpdateSettings, CheckSegment, CommitSettings, UpdateFails, CreateSegment, LoseSegment
<1>3. AccountInv'
  <2>1. ASSUME NEW t \in Ids, task[t].segment # NoSegment
        PROVE  owner'[task[t].segment] \in {task[t].key, "gone"}
    <3>1. task[t].segment \in Segments /\ owner[task[t].segment] \in {task[t].key, "gone"}
          /\ task[t].key # None
      BY <2>1 DEF IInv, AccountInv, OwnAccount, Task
    <3>2. CASE UNCHANGED owner
      BY <3>1, <3>2
    <3>3. ASSUME NEW s \in Segments, CreateSegment(s)
          PROVE  owner'[task[t].segment] \in {task[t].key, "gone"}
      <4>1. owner[s] = None /\ owner' = [owner EXCEPT ![s] = update.row.key]
        BY <3>3 DEF CreateSegment
      <4>2. task[t].segment # s
        BY <3>1, <4>1 DEF None
      <4> QED
        BY <3>1, <4>1, <4>2 DEF IInv, SettingsInv
    <3>4. ASSUME NEW s \in Segments, LoseSegment(s)
          PROVE  owner'[task[t].segment] \in {task[t].key, "gone"}
      BY <3>1, <3>4 DEF LoseSegment, IInv, SettingsInv
    <3> QED
      BY <3>2, <3>3, <3>4 DEF UpdateSettings, CheckSegment, CommitSettings, UpdateFails
  <2> QED
    BY <1>2, <2>1 DEF IInv, AccountInv, OwnAccount
<1>4. QueueInv' /\ NamesInv' /\ PathInv' /\ MailInv' /\ OnceInv'
  BY <1>2 DEF IInv, QueueInv, NamesInv, PathInv, MailInv, OnceInv, Live, Behind
<1> QED
  BY <1>1, <1>3, <1>4 DEF IInv

\* A deleted post is out of everything that is said about live ones.
LEMMA DeleteKeeps ==
  ASSUME IInv, NEW p \in Posts, DeletePost(p)
  PROVE  IInv'
<1>1. /\ post' = [post EXCEPT ![p] = [state |-> "deleted", name |-> None, held |-> {}]]
      /\ UNCHANGED <<settings, update, owner, task, ledger, mailed>>
  BY DEF DeletePost
<1>2. /\ post'[p] = [state |-> "deleted", name |-> None, held |-> {}]
      /\ \A q \in Posts \ {p} : post'[q] = post[q]
  BY <1>1 DEF IInv, NamesInv
<1>3. SettingsInv' /\ AccountInv' /\ QueueInv' /\ MailInv'
  BY <1>1, SettingsUntouched DEF IInv, AccountInv, QueueInv, MailInv, OwnAccount
<1>4. ~Live(p)' /\ \A q \in Posts \ {p} : Live(q)' <=> Live(q)
  BY <1>2 DEF Live
<1>5. NamesInv'
  <2>1. post' \in [Posts -> [state: {"new", "draft", "public", "deleted"},
                            name: Names \cup {None}, held: SUBSET Names]]
    BY <1>1 DEF IInv, NamesInv
  <2>2. /\ \A q \in Posts : IF Live(q)' THEN post'[q].name \in post'[q].held
                            ELSE post'[q].name = None /\ post'[q].held = {}
        /\ \A q, r \in Posts : q # r => post'[q].held \cap post'[r].held = {}
    BY <1>2, <1>4 DEF IInv, NamesInv
  <2>3. \A t \in Ids : task'[t].pc # "new" => post'[task'[t].post].state # "new"
    BY <1>1, <1>2 DEF IInv, NamesInv, QueueInv
  <2> QED
    BY <2>1, <2>2, <2>3 DEF NamesInv
<1>6. \A t \in Ids : task[t].pc # "new" /\ Live(task[t].post)' =>
        /\ Live(task[t].post) /\ post'[task[t].post].name = post[task[t].post].name
  <2> SUFFICES ASSUME NEW t \in Ids, task[t].pc # "new", Live(task[t].post)'
               PROVE  /\ Live(task[t].post)
                      /\ post'[task[t].post].name = post[task[t].post].name
    OBVIOUS
  <2>1. task[t].post \in Posts
    BY DEF IInv, QueueInv
  <2>2. task'[t].post = task[t].post
    BY <1>1
  <2>3. task[t].post # p
    BY <1>2, <2>1, <2>2 DEF Live
  <2> QED
    BY <1>2, <2>1, <2>2, <2>3 DEF Live
<1>7. PathInv'
  <2>1. \A t \in Ids : task[t].pc \in Running => task[t].pc # "new"
    BY DEF Running
  <2> QED
    BY <1>1, <1>6, <2>1 DEF IInv, PathInv
<1>8. OnceInv'
  BY <1>1, <1>6 DEF IInv, OnceInv, Behind
<1> QED
  BY <1>3, <1>5, <1>7, <1>8 DEF IInv

\* A restart loses the tasks in flight, and no other.
LEMMA RestartKeeps ==
  ASSUME IInv, Restart
  PROVE  IInv'
<1>1. /\ task' = [t \in Ids |-> IF t \in InFlight THEN Ended(t, "lost") ELSE task[t]]
      /\ UNCHANGED <<settings, owner, post, ledger, mailed>>
  BY DEF Restart
<1>2. task \in [Ids -> Task]
  BY DEF IInv, AccountInv
<1>3. ASSUME NEW t \in Ids
      PROVE  /\ task'[t] \in Task
             /\ task'[t].post = task[t].post /\ task'[t].auto = task[t].auto
             /\ task'[t].beside = task[t].beside /\ task'[t].moved = task[t].moved
             /\ task'[t].pc = IF t \in InFlight THEN "lost" ELSE task[t].pc
             /\ task'[t].segment = IF t \in InFlight THEN NoSegment ELSE task[t].segment
             /\ task'[t].key = IF t \in InFlight THEN None ELSE task[t].key
  BY <1>1, <1>2, EndedType
<1>4. \A t \in Ids : task'[t].pc \notin Running
  BY <1>3 DEF InFlight, Running
<1>5. \A t \in Ids : task'[t].pc = "new" <=> task[t].pc = "new"
  BY <1>3 DEF InFlight, Running
<1>6. SettingsInv'
  BY SettingsStep DEF IInv
<1>7. AccountInv'
  <2>1. task' \in [Ids -> Task]
    BY <1>1, <1>3
  <2> QED
    BY <1>1, <1>3, <2>1 DEF IInv, AccountInv, OwnAccount
<1>8. QueueInv'
  BY <1>3, <1>4, <1>5 DEF IInv, QueueInv
<1>9. NamesInv'
  BY <1>1, <1>3, <1>5 DEF IInv, NamesInv, Live
<1>10. PathInv'
  <2>1. \A r \in ledger : r.id \in Ids /\ r.id \notin InFlight
    BY DEF IInv, PathInv, InFlight, Running
  <2> QED
    BY <1>1, <1>3, <1>4, <2>1 DEF IInv, PathInv, Live
<1>11. MailInv'
  BY <1>1, <1>3 DEF IInv, MailInv
<1>12. OnceInv'
  <2> SUFFICES ASSUME NEW t \in Ids, NEW u \in Ids, Behind(t, u)'
               PROVE  task'[u].pc \in {"queued", "skipped", "lost"} /\ u \notin mailed'
    BY DEF OnceInv
  <2>1. Behind(t, u)
    BY <1>1, <1>3, <1>5 DEF Behind, Live
  <2> QED
    BY <1>1, <1>3, <2>1 DEF IInv, OnceInv
<1> QED
  BY <1>6, <1>7, <1>8, <1>9, <1>10, <1>11, <1>12 DEF IInv

LEMMA InitIInv == Init => IInv
<1> SUFFICES ASSUME Init PROVE IInv
  OBVIOUS
<1>1. /\ update = Idle /\ ledger = {} /\ mailed = {}
      /\ post = [p \in Posts |-> [state |-> "new", name |-> None, held |-> {}]]
      /\ task = [t \in Ids |-> NoTask]
  BY DEF Init
<1>2. RowOK(Initial) /\ ~Initial.enabled
  BY DEF Initial, RowOK, Row, OwnAccount, NoSegment
<1>3. SettingsInv
  <2>1. CASE settings = Initial /\ owner = [s \in Segments |-> None]
    BY <1>1, <1>2, <2>1 DEF SettingsInv, Idle
  <2>2. ASSUME NEW k \in Keys, settings = Enabled(k),
               owner = [s \in Segments |-> IF s = 1 THEN k ELSE None]
        PROVE  SettingsInv
    <3>1. owner[1] = k /\ owner \in [Segments -> Keys \cup {None, "gone"}]
      BY <2>2, ParameterTypes
    <3>2. CASE k # None
      <4>1. RowOK(settings) /\ Usable
        BY <2>2, <3>1, <3>2, ParameterTypes
           DEF RowOK, Row, Enabled, OwnAccount, Usable, NoSegment
      <4> QED
        BY <1>1, <1>2, <3>1, <4>1 DEF SettingsInv, Idle
    <3>3. k # None
      BY BroadcastsAssumption DEF None
    <3> QED
      BY <3>2, <3>3
  <2> QED
    BY <2>1, <2>2 DEF Init
<1>4. NoTask \in Task /\ NoTask.pc = "new" /\ NoTask.segment = NoSegment
  BY DEF NoTask, Task, NoSegment
<1>5. AccountInv /\ QueueInv /\ MailInv /\ OnceInv
  BY <1>1, <1>4 DEF AccountInv, QueueInv, MailInv, OnceInv, Behind, OwnAccount, Running
<1>6. NamesInv
  BY <1>1, <1>4 DEF NamesInv, Live
<1>7. PathInv
  BY <1>1, <1>4 DEF PathInv, Running
<1> QED
  BY <1>3, <1>5, <1>6, <1>7 DEF IInv

LEMMA NextKeepsIInv == IInv /\ [Next]_vars => IInv'
<1> SUFFICES ASSUME IInv, [Next]_vars PROVE IInv'
  OBVIOUS
<1>1. CASE UNCHANGED vars
  BY <1>1 DEF vars, IInv, SettingsInv, RowOK, OwnAccount, Usable, AccountInv, QueueInv, NamesInv,
     PathInv, MailInv, OnceInv, Live, Behind
<1>2. ASSUME NEW p \in Posts,
             \/ \E name \in Names, draft \in BOOLEAN :
                  CreatePost(p, name, draft) \/ UpdatePost(p, name, draft)
             \/ Trigger(p)
      PROVE  IInv'
  BY <1>2, PostsAdvance, AdvanceKeeps
<1> QED
  BY <1>1, <1>2, SettingsKeep, DeleteKeeps, RestartKeeps, StepKeeps DEF Next

\* An enabled row can mail, from the account of its own key, whatever the admin
\* changes and whichever calls fail.
THEOREM EnabledSettingsCanMail == Spec => []SettingsUsable
<1>1. IInv => SettingsUsable
  BY DEF IInv, SettingsInv, AccountInv, RowOK, SettingsUsable, InFlight
<1> QED
  BY <1>1, InitIInv, NextKeepsIInv, PTL DEF Spec

\* No post is mailed a second time by becoming public again.
THEOREM PostsAreMailedOnce == Spec => []MailedOnce
<1>1. IInv => MailedOnce
  <2> SUFFICES ASSUME IInv, NEW t \in mailed, NEW u \in mailed, t < u,
                      task[t].post = task[u].post, task[u].auto,
                      t \notin task[u].beside, ~task[t].moved, ~task[u].moved,
                      post[task[u].post].state # "deleted",
                      \E r \in ledger : r.id = t /\ r.status = "sent"
               PROVE  FALSE
    BY DEF MailedOnce
  <2>1. t \in Ids /\ u \in Ids /\ task[u].pc # "new"
    BY DEF IInv, MailInv
  <2>2. Live(task[u].post)
    BY <2>1 DEF IInv, NamesInv, QueueInv, Live
  <2> QED
    BY <2>1, <2>2 DEF IInv, OnceInv, Behind
<1> QED
  BY <1>1, InitIInv, NextKeepsIInv, PTL DEF Spec

\* The ledger says what happened, under the name the post has now.
THEOREM TheLedgerIsTrue == Spec => []LedgerIsTrue
<1>1. IInv => LedgerIsTrue
  <2> SUFFICES ASSUME IInv, NEW r \in ledger, post[task[r.id].post].name # None,
                      ~task[r.id].moved
               PROVE  r.path = post[task[r.id].post].name
    BY DEF LedgerIsTrue, IInv, PathInv
  <2>1. r.id \in Ids /\ task[r.id].pc # "new"
    BY DEF IInv, PathInv
  <2>2. Live(task[r.id].post)
    BY <2>1 DEF IInv, NamesInv, QueueInv
  <2> QED
    BY <2>2 DEF IInv, PathInv
<1> QED
  BY <1>1, InitIInv, NextKeepsIInv, PTL DEF Spec
=============================================================================
