------------------------------ MODULE Crosspost ------------------------------
(***************************************************************************)
(* Cross-posting: the admin connects social accounts by OAuth, and requests *)
(* publish a post on several platforms, refreshing expired tokens on the    *)
(* way and writing history and tokens back in one commit at the end.        *)
(* Nothing here takes the content lock: every call to a platform is a point *)
(* where another request may run.                                           *)
(***************************************************************************)
EXTENDS Integers, FiniteSets

CONSTANTS
  Platforms,   \* of "bluesky", "x", "mastodon", "facebook"
  Flows,       \* OAuth flows started
  Requests,    \* cross-posting requests
  MaxPending,  \* pending flows a user may have on a platform
  TTL,         \* clock ticks a pending flow lives
  MaxFaults    \* a bound: answers lost and commits failed

ASSUME CrosspostAssumption ==
  /\ Platforms \subseteq {"bluesky", "x", "mastodon", "facebook"}
  /\ IsFiniteSet(Flows) /\ IsFiniteSet(Requests)
  /\ MaxPending \in Nat \ {0} /\ TTL \in Nat /\ MaxFaults \in Nat

VARIABLES
  flow,       \* OAuth flows: [platform, pc, age, grant, redeemed]
  accounts,   \* social_accounts: [grant, token], a row of each platform
  provider,   \* what the platform accepts: [access, refresh], sets of tokens
  issued,     \* tokens issued so far, by platform
  req,        \* requests: [pc, todo, at, cred, row, fresh, results]
  published,  \* what the platforms hold: posts by request and platform
  recorded,   \* cross_posts rows: <<request, platform>> with status POSTED
  faulty,     \* requests that lost an answer or their commit
  astray,     \* platforms with a token rotated but never stored
  faults

vars == <<flow, accounts, provider, issued, req, published, recorded,
          faulty, astray, faults>>

\* authenticate asks the platform; an access token can be renewed
Probing == Platforms \ {"bluesky"}
Refreshing == Platforms \cap {"bluesky", "x"}
Paged == Platforms \cap {"facebook"}

None == 0            \* no token, no account
NoAccount == [grant |-> None, token |-> None]
Never == -1          \* not in the store of pending flows

NewFlow == [platform |-> "", pc |-> "new", age |-> Never, grant |-> None,
            redeemed |-> 0]
NewReq == [pc |-> "new", todo |-> {}, at |-> "",
           cred |-> [p \in Platforms |-> None],
           row |-> [p \in Platforms |-> None],
           fresh |-> [p \in Platforms |-> None],
           results |-> {}]

Init ==
  /\ flow = [f \in Flows |-> NewFlow]
  /\ accounts = [p \in Platforms |-> NoAccount]
  /\ provider = [p \in Platforms |-> [access |-> {}, refresh |-> {}]]
  /\ issued = [p \in Platforms |-> 0]
  /\ req = [r \in Requests |-> NewReq]
  /\ published = [r \in Requests |-> [p \in Platforms |-> 0]]
  /\ recorded = {} /\ faulty = {} /\ astray = {} /\ faults = 0

-----------------------------------------------------------------------------
(* The platforms (external)                                                 *)

NextToken(p) == issued[p] + 1

\* A code is redeemed: a new pair of tokens
Granted(p) ==
  /\ issued' = [issued EXCEPT ![p] = NextToken(p)]
  /\ provider' = [provider EXCEPT ![p].access = @ \cup {NextToken(p)},
                                  ![p].refresh = @ \cup {NextToken(p)}]

\* A refresh token is used once and replaced
Rotated(p, t) ==
  /\ issued' = [issued EXCEPT ![p] = NextToken(p)]
  /\ provider' = [provider EXCEPT
       ![p].access = (@ \ {t}) \cup {NextToken(p)},
       ![p].refresh = (@ \ {t}) \cup {NextToken(p)}]

Expire(p) ==
  /\ p \in Refreshing
  /\ \E t \in provider[p].access :
       provider' = [provider EXCEPT ![p].access = @ \ {t}]
  /\ UNCHANGED <<flow, accounts, issued, req, published, recorded, faulty,
                 astray, faults>>

-----------------------------------------------------------------------------
(* Connecting an account                                                    *)

Fresh(f) == flow[f].age \in 0 .. TTL
PendingOn(p) == {f \in Flows : flow[f].platform = p /\ Fresh(f)}
HasRoom(p) == Cardinality(PendingOn(p)) < MaxPending

FlowTo(f, pc) == flow' = [flow EXCEPT ![f].pc = pc]

\* Mutant: the state is looked up and stays
Peeked(f, pc) == [flow[f] EXCEPT !.pc = pc]

\* OAuthStateStore.pop
Popped(f, pc) == [flow[f] EXCEPT !.pc = pc, !.age = Never]

OnlyFlows ==
  UNCHANGED <<accounts, provider, issued, req, published, recorded, faulty,
              astray, faults>>

\* authorize: 429 when the user has too many flows pending
Authorize(f, p) ==
  /\ flow[f].pc = "new" /\ HasRoom(p)
  /\ flow' = [flow EXCEPT ![f].platform = p, ![f].pc = "pending", ![f].age = 0]
  /\ OnlyFlows

\* callback: the browser may come more than once, or too late
Callback(f) ==
  /\ flow[f].pc \in {"pending", "redeem"} /\ Fresh(f)
  /\ flow' = [flow EXCEPT ![f] = [Popped(f, "redeem") EXCEPT !.redeemed = @ + 1]]
  /\ OnlyFlows

RedeemFails(f) ==
  /\ flow[f].pc = "redeem" /\ FlowTo(f, "done") /\ OnlyFlows

\* One page (or a platform without pages) is connected at once; several wait
\* for a choice under a new state, which needs room
Redeem(f) ==
  LET p == flow[f].platform
      known == [flow[f] EXCEPT !.grant = NextToken(p)]
  IN  /\ flow[f].pc = "redeem"
      /\ Granted(p)
      /\ \/ flow' = [flow EXCEPT ![f] = [known EXCEPT !.pc = "upsert"]]
         \/ p \in Paged /\ HasRoom(p)
            /\ flow' = [flow EXCEPT ![f] = [known EXCEPT !.pc = "pages", !.age = 0]]
         \/ p \in Paged /\ ~ HasRoom(p)
            /\ flow' = [flow EXCEPT ![f] = [known EXCEPT !.pc = "done"]]
      /\ UNCHANGED <<accounts, req, published, recorded, faulty, astray, faults>>

\* select-page: a page that is not in the list uses the state up, too
SelectPage(f) ==
  /\ flow[f].pc = "pages" /\ Fresh(f)
  /\ \E pc \in {"upsert", "done"} : flow' = [flow EXCEPT ![f] = Popped(f, pc)]
  /\ OnlyFlows

SetAccount(p, a) == accounts' = [accounts EXCEPT ![p] = a]
OnlyAccounts ==
  UNCHANGED <<provider, issued, req, published, recorded, faulty, astray>>

\* _upsert_social_account: create, or else replace the row that is there
Upsert(f) ==
  LET p == flow[f].platform
  IN  /\ flow[f].pc = "upsert"
      /\ IF accounts[p] = NoAccount
           THEN /\ SetAccount(p, [grant |-> flow[f].grant, token |-> flow[f].grant])
                /\ FlowTo(f, "done")
           ELSE FlowTo(f, "replace") /\ UNCHANGED accounts
      /\ OnlyAccounts /\ UNCHANGED faults

\* delete_social_account commits; a row gone in the meantime is a conflict
Replace(f) ==
  LET p == flow[f].platform
  IN  /\ flow[f].pc = "replace"
      /\ SetAccount(p, NoAccount)
      /\ FlowTo(f, IF accounts[p] = NoAccount THEN "done" ELSE "recreate")
      /\ OnlyAccounts /\ UNCHANGED faults

\* The savepoint around both ended with the first commit: whether the session
\* goes on is the library's affair, and the database may refuse
Recreate(f) ==
  LET p == flow[f].platform
  IN  /\ flow[f].pc = "recreate" /\ FlowTo(f, "done")
      /\ \/ /\ accounts[p] = NoAccount
            /\ SetAccount(p, [grant |-> flow[f].grant, token |-> flow[f].grant])
         \/ UNCHANGED accounts
      /\ OnlyAccounts /\ UNCHANGED faults

Disconnect(p) ==
  /\ accounts[p] # NoAccount
  /\ SetAccount(p, NoAccount)
  /\ UNCHANGED flow /\ OnlyAccounts /\ UNCHANGED faults

Tick ==
  /\ \E f \in Flows : Fresh(f)
  /\ flow' = [f \in Flows |-> [flow[f] EXCEPT !.age = IF Fresh(f) THEN @ + 1 ELSE @]]
  /\ OnlyFlows

-----------------------------------------------------------------------------
(* Publishing                                                               *)

Connecting == UNCHANGED <<flow, accounts>>

\* The accounts are read once; a platform without one fails
StartPost(r, S) ==
  LET missing == {p \in S : accounts[p] = NoAccount}
  IN  /\ req[r].pc = "new"
      /\ req' = [req EXCEPT ![r] =
           [@ EXCEPT !.pc = "next", !.todo = S \ missing,
                     !.cred = [p \in Platforms |-> accounts[p].token],
                     !.row = [p \in Platforms |-> accounts[p].grant],
                     !.results = {<<p, "failed">> : p \in missing}]]
      /\ UNCHANGED <<provider, issued, published, recorded, faulty, astray, faults>>
      /\ Connecting

NextPlatform(r) ==
  /\ req[r].pc = "next"
  /\ IF req[r].todo = {}
       THEN req' = [req EXCEPT ![r].pc = "commit"]
       ELSE \E p \in req[r].todo :
              req' = [req EXCEPT ![r].at = p, ![r].todo = @ \ {p},
                                 ![r].pc = IF p \in Probing THEN "auth" ELSE "post"]
  /\ UNCHANGED <<provider, issued, published, recorded, faulty, astray, faults>>
  /\ Connecting

Token(r) == LET p == req[r].at
            IN  IF req[r].fresh[p] # None THEN req[r].fresh[p] ELSE req[r].cred[p]
Accepted(r) == Token(r) \in provider[req[r].at].access

ReqTo(r, pc) == req' = [req EXCEPT ![r].pc = pc]
Result(r, outcome) ==
  req' = [req EXCEPT ![r].pc = "next",
                     ![r].results = @ \cup {<<req[r].at, outcome>>}]

Answered == UNCHANGED <<faulty, faults>>
Lost(r) == /\ faults < MaxFaults /\ faults' = faults + 1
           /\ faulty' = faulty \cup {r}

\* authenticate: anything but a success fails the platform
Authenticate(r) ==
  /\ req[r].pc = "auth"
  /\ \/ Accepted(r) /\ ReqTo(r, "post") /\ Answered
     \/ ~ Accepted(r) /\ Result(r, "failed") /\ Answered
     \/ Result(r, "failed") /\ Lost(r)
  /\ UNCHANGED <<provider, issued, published, recorded, astray>> /\ Connecting

Publish(r) == published' = [published EXCEPT ![r][req[r].at] = @ + 1]

\* Mutant: an unanswered post is sent again
UnansweredRetried(r) ==
  \/ ReqTo(r, "repost") /\ Publish(r) /\ Lost(r)
  \/ Result(r, "failed") /\ UNCHANGED published /\ Lost(r)

\* No answer: published or not, the result is a failure
Unanswered(r) ==
  \/ Result(r, "failed") /\ Publish(r) /\ Lost(r)
  \/ Result(r, "failed") /\ UNCHANGED published /\ Lost(r)

\* Mutant: a post that is refused fails at once
RefusedForGood(r) == Result(r, "failed")

\* 401: the token is renewed, once
Refused(r) ==
  IF req[r].pc = "post" /\ req[r].at \in Refreshing
    THEN ReqTo(r, "refresh")
    ELSE Result(r, "failed")

Post(r) ==
  /\ req[r].pc \in {"post", "repost"}
  /\ \/ Accepted(r) /\ Result(r, "posted") /\ Publish(r) /\ Answered
     \/ ~ Accepted(r) /\ Refused(r) /\ UNCHANGED published /\ Answered
     \/ Accepted(r) /\ Unanswered(r)
  /\ UNCHANGED <<provider, issued, recorded, astray>> /\ Connecting

\* Mutant: the new token is used and forgotten
RenewedUnsaved(r, t) == ReqTo(r, "repost")

Renewed(r, t) ==
  req' = [req EXCEPT ![r].pc = "repost", ![r].fresh[req[r].at] = t]

\* The platform may rotate the token and its answer be lost
Refresh(r) ==
  LET p == req[r].at
      live == Token(r) \in provider[p].refresh
  IN  /\ req[r].pc = "refresh"
      /\ \/ /\ live /\ Rotated(p, Token(r))
            /\ Renewed(r, NextToken(p)) /\ Answered /\ UNCHANGED astray
         \/ /\ live /\ Rotated(p, Token(r))
            /\ Result(r, "failed") /\ Lost(r) /\ astray' = astray \cup {p}
         \/ /\ ~ live /\ Result(r, "failed") /\ Answered
            /\ UNCHANGED <<provider, issued, astray>>
      /\ UNCHANGED <<published, recorded>> /\ Connecting

Renewals(r) == {p \in Platforms : req[r].fresh[p] # None}
\* A row deleted since it was read cannot be updated: the commit fails
Stale(r) == \E p \in Renewals(r) : accounts[p].grant # req[r].row[p]
Kept(r) == {p \in Renewals(r) : accounts[p].grant = req[r].row[p]}

RowsOf(r) == recorded \cup {<<r, x[1]>> : x \in {y \in req[r].results : y[2] = "posted"}}

\* One commit for every row of history and every new token
Commit(r) ==
  /\ req[r].pc = "commit" /\ ~ Stale(r)
  /\ ReqTo(r, "done")
  /\ recorded' = RowsOf(r)
  /\ accounts' = [p \in Platforms |->
       IF p \in Renewals(r) THEN [accounts[p] EXCEPT !.token = req[r].fresh[p]]
                            ELSE accounts[p]]
  /\ Answered /\ UNCHANGED <<flow, provider, issued, published, astray>>

CommitFails(r) ==
  /\ req[r].pc = "commit"
  /\ \/ Stale(r) /\ faulty' = faulty \cup {r} /\ UNCHANGED faults
     \/ Lost(r)
  /\ ReqTo(r, "done")
  /\ astray' = astray \cup Kept(r)
  /\ UNCHANGED <<provider, issued, published, recorded>> /\ Connecting

Next ==
  \/ \E p \in Platforms : Expire(p)
  \/ \E f \in Flows, p \in Platforms : Authorize(f, p)
  \/ \E f \in Flows : Callback(f)
  \/ \E f \in Flows : RedeemFails(f)
  \/ \E f \in Flows : Redeem(f)
  \/ \E f \in Flows : SelectPage(f)
  \/ \E f \in Flows : Upsert(f)
  \/ \E f \in Flows : Replace(f)
  \/ \E f \in Flows : Recreate(f)
  \/ \E p \in Platforms : Disconnect(p)
  \/ Tick
  \/ \E r \in Requests, S \in (SUBSET Platforms) \ {{}} : StartPost(r, S)
  \/ \E r \in Requests : NextPlatform(r)
  \/ \E r \in Requests : Authenticate(r)
  \/ \E r \in Requests : Post(r)
  \/ \E r \in Requests : Refresh(r)
  \/ \E r \in Requests : Commit(r)
  \/ \E r \in Requests : CommitFails(r)

Spec == Init /\ [][Next]_vars

-----------------------------------------------------------------------------
Tokens == 0 .. Cardinality(Flows) + Cardinality(Requests)

\* Types; only tokens the platform issued are held anywhere
TypeOK ==
  /\ flow \in [Flows -> [platform : Platforms \cup {""},
                         pc : {"new", "pending", "redeem", "pages", "upsert",
                               "replace", "recreate", "done"},
                         age : {Never} \cup 0 .. TTL + 1,
                         grant : Tokens, redeemed : Nat]]
  /\ accounts \in [Platforms -> [grant : Tokens, token : Tokens]]
  /\ \A p \in Platforms :
       /\ issued[p] \in Tokens
       /\ provider[p].access \cup provider[p].refresh \subseteq 1 .. issued[p]
       /\ accounts[p].grant <= accounts[p].token /\ accounts[p].token <= issued[p]
       /\ \A r \in Requests : req[r].fresh[p] <= issued[p]
  /\ \A r \in Requests :
       /\ req[r].pc \in {"new", "next", "auth", "post", "refresh", "repost",
                         "commit", "done"}
       /\ req[r].todo \subseteq Platforms
       /\ req[r].results \subseteq Platforms \X {"posted", "failed"}
  /\ recorded \subseteq Requests \X Platforms
  /\ faulty \subseteq Requests /\ astray \subseteq Platforms
  /\ faults \in 0 .. MaxFaults

\* An authorization code is redeemed once, however often the browser calls
\* back, and the store of pending flows stays within its limit
CodeRedeemedOnce ==
  /\ \A f \in Flows : flow[f].redeemed <= 1
  /\ \A p \in Platforms : Cardinality(PendingOn(p)) <= MaxPending

\* A request publishes at most once on a platform; what the history calls
\* posted is published, and what was published is in the history unless an
\* answer or the commit was lost
HistoryIsTrue ==
  \A r \in Requests, p \in Platforms :
    /\ published[r][p] <= 1
    /\ <<r, p>> \in recorded => published[r][p] = 1
    /\ req[r].pc = "done" /\ r \notin faulty /\ published[r][p] = 1
         => <<r, p>> \in recorded

\* The refresh token of an account is the one the platform will accept next,
\* unless a request is on its way to store a newer one or lost it
StoredTokenIsLive ==
  \A p \in Refreshing :
    accounts[p] # NoAccount /\ p \notin astray
      /\ ~ (\E r \in Requests : req[r].pc # "done" /\ req[r].fresh[p] # None)
      => accounts[p].token \in provider[p].refresh

\* A platform is given up, with every answer received, only when its token
\* can no longer be renewed, or expired again within the request
RenewsBeforeFailing(P) ==
  \A r \in Requests :
    LET p == req[r].at
    IN  /\ p \in P
        /\ <<p, "failed">> \in req'[r].results \ req[r].results
        /\ faults' = faults
        /\ req[r].pc # "repost"
        => Token(r) \notin provider[p].refresh
BlueskyIsRenewed == [][RenewsBeforeFailing({"bluesky"})]_vars

\* docs/plans/2026-02-21-x-facebook-crosspost-design.md:27: "Auto-refresh on
\* 401 during posting (same pattern as Bluesky)"
XIsRenewed == [][RenewsBeforeFailing({"x"})]_vars

\* tests/test_api/test_crosspost_helpers.py:103: "a failure in re-create causes
\* the entire savepoint (including the delete) to be rolled back"
ReconnectKeepsAccount ==
  [][\A f \in Flows :
       flow[f].pc = "recreate" /\ flow'[f].pc = "done"
         => accounts'[flow[f].platform] # NoAccount]_vars
=============================================================================
