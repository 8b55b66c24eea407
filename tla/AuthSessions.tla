----------------------------- MODULE AuthSessions -----------------------------
(***************************************************************************)
(* Login, refresh-token rotation, logout and password change, as the       *)
(* server handles them for several clients at once, with the CLI's stored  *)
(* credentials and the limiter in front.  A request is handled in the      *)
(* steps between which the server awaits its database; requests and        *)
(* answers may be lost, and the server may restart.  Refresh tokens are    *)
(* numbered in the order they are issued.  Expiry, which the model leaves  *)
(* to chance, shows when the row is selected.                              *)
(***************************************************************************)
EXTENDS RateLimiter

CONSTANTS
  Clients,    \* CLI processes of one user: they share the credentials file,
              \* as browser tabs share the browser's cookies
  MaxTokens   \* bound: refresh tokens issued in a behaviour

ASSUME SessionAssumption ==
  /\ Keys = {"login", "refresh"}
  /\ IsFiniteSet(Clients) /\ MaxTokens \in Nat

NoToken == 0
Tokens == 1 .. MaxTokens

VARIABLES
  rows,      \* the refresh tokens stored by the server
  issued,    \* how many refresh tokens were issued
  chain,     \* the login each token descends from, named by its first token
  attempts,  \* the limiter's failures
  req,       \* the request each client has under way
  state,     \* where each client is: "off", "start", "prompt", "on"
  jar,       \* the refresh cookie each process holds
  stored,    \* the refresh token in the CLI's credentials file
  excused    \* tokens ended by the user or by a loss the client cannot see

serverVars == <<rows, issued, chain, attempts>>
clientVars == <<req, state, jar, stored, excused>>
vars == <<serverVars, clientVars>>

Idle == [op |-> "none", at |-> "idle", token |-> NoToken]
Ops == {"login", "refresh", "logout"}
Results == {"granted", "refused", "limited", "lost"}
Requests == [op : Ops, at : {"sent", "admitted", "selected"} \cup Results,
             token : Tokens \cup {NoToken}] \cup {Idle}

Init ==
  /\ rows = {} /\ issued = 0
  /\ chain = [t \in Tokens |-> NoToken]
  /\ attempts = [k \in Keys |-> <<>>]
  /\ req = [c \in Clients |-> Idle]
  /\ state = [c \in Clients |-> "off"]
  /\ jar = [c \in Clients |-> NoToken]
  /\ stored = NoToken
  /\ excused = {}

-----------------------------------------------------------------------------
(* Clients send requests *)

Send(c, op, t) == req' = [req EXCEPT ![c] = [op |-> op, at |-> "sent", token |-> t]]

\* A CLI command reads the credentials: it restores the session or asks
CliStart(c) ==
  /\ state[c] = "off"
  /\ IF stored = NoToken
       THEN /\ state' = [state EXCEPT ![c] = "prompt"]
            /\ UNCHANGED req
       ELSE /\ state' = [state EXCEPT ![c] = "start"]
            /\ Send(c, "refresh", stored)
  /\ UNCHANGED <<serverVars, jar, stored, excused>>

LoginSend(c) ==
  /\ state[c] = "prompt" /\ req[c] = Idle
  /\ Send(c, "login", NoToken)
  /\ UNCHANGED <<serverVars, state, jar, stored, excused>>

\* A request was answered 401: the access token ran out, the cookie is used
Reauthenticate(c) ==
  /\ state[c] = "on" /\ req[c] = Idle /\ jar[c] # NoToken
  /\ Send(c, "refresh", jar[c])
  /\ UNCHANGED <<serverVars, state, jar, stored, excused>>

\* The logout command revokes the stored token, then forgets it
LogoutSend(c) ==
  /\ req[c] = Idle
  /\ state[c] = "off" /\ stored # NoToken
  /\ Send(c, "logout", stored)
  /\ excused' = excused \cup {stored}
  /\ state' = [state EXCEPT ![c] = "start"]
  /\ UNCHANGED <<serverVars, jar, stored>>

\* A CLI process ends, and its cookie jar with it
CliExit(c) ==
  /\ state[c] \in {"on", "prompt"} /\ req[c] = Idle
  /\ state' = [state EXCEPT ![c] = "off"]
  /\ jar' = [jar EXCEPT ![c] = NoToken]
  /\ UNCHANGED <<serverVars, req, stored, excused>>

-----------------------------------------------------------------------------
(* The server handles them *)

Answer(c, result, t) == req' = [req EXCEPT ![c].at = result, ![c].token = t]

Key(op) == IF op = "login" THEN "login" ELSE "refresh"

\* A new refresh token of the login l (NoToken: a login of its own)
Issue(t, l) ==
  /\ issued < MaxTokens
  /\ issued' = issued + 1
  /\ t = issued + 1
  /\ chain' = [chain EXCEPT ![t] = IF l = NoToken THEN t ELSE l]

\* record_failure_and_enforce
Fail(c) ==
  LET after == AddFailure(attempts, Key(req[c].op))
  IN  /\ attempts' = after
      /\ Answer(c, IF IsLimited(after, Key(req[c].op)) THEN "limited" ELSE "refused", NoToken)

\* Mutant: the limit is only looked at after a failure
AdmitAll(c) ==
  /\ req[c].at = "sent" /\ req[c].op \in {"login", "refresh"}
  /\ req' = [req EXCEPT ![c].at = "admitted"]
  /\ UNCHANGED <<serverVars, state, jar, stored, excused>>

\* enforce_rate_limit at the start of the handler
Admit(c) ==
  /\ req[c].at = "sent" /\ req[c].op \in {"login", "refresh"}
  /\ IF IsLimited(attempts, Key(req[c].op))
       THEN Answer(c, "limited", NoToken)
       ELSE req' = [req EXCEPT ![c].at = "admitted"]
  /\ UNCHANGED <<serverVars, state, jar, stored, excused>>

\* After the await: the password was right, and create_tokens stores a row
LoginGrant(c) ==
  /\ req[c].op = "login" /\ req[c].at = "admitted"
  /\ attempts' = Clear(attempts, "login")
  /\ \E t \in Tokens :
       /\ Issue(t, NoToken)
       /\ rows' = rows \cup {t}
       /\ Answer(c, "granted", t)
  /\ UNCHANGED <<state, jar, stored, excused>>

LoginDeny(c) ==
  /\ req[c].op = "login" /\ req[c].at = "admitted"
  /\ Fail(c)
  /\ UNCHANGED <<rows, issued, chain, state, jar, stored, excused>>

\* refresh_tokens selects the row and finds none
RefreshReject(c) ==
  /\ req[c].op = "refresh" /\ req[c].at = "admitted"
  /\ req[c].token \notin rows
  /\ Fail(c)
  /\ UNCHANGED <<rows, issued, chain, state, jar, stored, excused>>

\* The row is past its lifetime (or its date unreadable): it is deleted
RefreshExpired(c) ==
  /\ req[c].op = "refresh" /\ req[c].at = "admitted"
  /\ req[c].token \in rows
  /\ rows' = rows \ {req[c].token}
  /\ excused' = excused \cup {req[c].token}
  /\ Fail(c)
  /\ UNCHANGED <<issued, chain, state, jar, stored>>

\* The row is there and still good; the delete follows after another await
RefreshSelect(c) ==
  /\ req[c].op = "refresh" /\ req[c].at = "admitted"
  /\ req[c].token \in rows
  /\ req' = [req EXCEPT ![c].at = "selected"]
  /\ UNCHANGED <<serverVars, state, jar, stored, excused>>

\* Mutant: the deleted rows are not counted
RefreshRotateUncounted(c) ==
  LET old == req[c].token
  IN  /\ req[c].op = "refresh" /\ req[c].at = "selected"
      /\ attempts' = Clear(attempts, "refresh")
      /\ \E t \in Tokens :
           /\ Issue(t, chain[old])
           /\ rows' = (rows \ {old}) \cup {t}
           /\ Answer(c, "granted", t)
      /\ UNCHANGED <<state, jar, stored, excused>>

\* The delete counts its rows: only the caller that removed the token goes on,
\* and the new row is stored by the same commit
RefreshRotate(c) ==
  LET old == req[c].token
  IN  /\ req[c].op = "refresh" /\ req[c].at = "selected"
      /\ old \in rows
      /\ attempts' = Clear(attempts, "refresh")
      /\ \E t \in Tokens :
           /\ Issue(t, chain[old])
           /\ rows' = (rows \ {old}) \cup {t}
           /\ Answer(c, "granted", t)
      /\ UNCHANGED <<state, jar, stored, excused>>

RefreshOvertaken(c) ==
  /\ req[c].op = "refresh" /\ req[c].at = "selected"
  /\ req[c].token \notin rows
  /\ Fail(c)
  /\ UNCHANGED <<rows, issued, chain, state, jar, stored, excused>>

LogoutSelect(c) ==
  /\ req[c].op = "logout" /\ req[c].at = "sent"
  /\ req' = [req EXCEPT ![c].at = IF req[c].token \in rows THEN "selected" ELSE "granted"]
  /\ UNCHANGED <<serverVars, state, jar, stored, excused>>

LogoutDelete(c) ==
  /\ req[c].op = "logout" /\ req[c].at = "selected"
  /\ rows' = rows \ {req[c].token}
  /\ req' = [req EXCEPT ![c].at = "granted"]
  /\ UNCHANGED <<issued, chain, attempts, state, jar, stored, excused>>

\* change_password, by a client whose access token holds on its own (a wrong
\* current password, counted under a key of its own, changes nothing here)
ChangePassword ==
  /\ rows # {}
  /\ rows' = {}
  /\ excused' = excused \cup rows
  /\ UNCHANGED <<issued, chain, attempts, req, state, jar, stored>>

-----------------------------------------------------------------------------
(* Answers reach the clients, or not *)

\* save_credentials: an I/O error is only a warning and leaves the file
Saved(t) == \/ stored' = t /\ UNCHANGED excused
            \/ stored' = stored /\ excused' = excused \cup {stored}

\* Mutant: a token rotated in a running session is not saved
CliGrantedUnsaved(c) ==
  /\ req[c].op # "logout" /\ req[c].at = "granted"
  /\ IF state[c] = "on" THEN UNCHANGED <<stored, excused>> ELSE Saved(req[c].token)
  /\ jar' = [jar EXCEPT ![c] = req[c].token]
  /\ state' = [state EXCEPT ![c] = "on"]
  /\ req' = [req EXCEPT ![c] = Idle]
  /\ UNCHANGED serverVars

\* The CLI has its token, from a restored session, a login or a rotation
CliGranted(c) ==
  /\ req[c].op # "logout" /\ req[c].at = "granted"
  /\ Saved(req[c].token)
  /\ jar' = [jar EXCEPT ![c] = req[c].token]
  /\ state' = [state EXCEPT ![c] = "on"]
  /\ req' = [req EXCEPT ![c] = Idle]
  /\ UNCHANGED serverVars

\* 401: a stored token leads to the login prompt, anything else ends the
\* process; 429 always ends it
CliRefused(c) ==
  /\ req[c].at \in {"refused", "limited"}
  /\ IF state[c] = "start" /\ req[c].at = "refused"
       THEN state' = [state EXCEPT ![c] = "prompt"] /\ UNCHANGED jar
       ELSE /\ state' = [state EXCEPT ![c] = "off"]
            /\ jar' = [jar EXCEPT ![c] = NoToken]
  /\ req' = [req EXCEPT ![c] = Idle]
  /\ UNCHANGED <<serverVars, stored, excused>>

\* The stored credentials go even when the server could not be told
LogoutDone(c) ==
  /\ req[c].op = "logout" /\ req[c].at \in {"granted", "lost"}
  /\ stored' = NoToken
  /\ state' = [state EXCEPT ![c] = "off"]
  /\ req' = [req EXCEPT ![c] = Idle]
  /\ UNCHANGED <<serverVars, jar, excused>>

\* The connection breaks while a request or its answer is on its way: a
\* token the server had rotated is gone for this client
Lose(c) ==
  /\ req[c].at \in {"sent", "granted"}
  /\ excused' = excused \cup IF req[c].op # "logout" /\ req[c].at = "granted"
                               THEN {t \in 1 .. issued : chain[t] = chain[req[c].token]}
                               ELSE {}
  /\ req' = [req EXCEPT ![c].at = "lost"]
  /\ UNCHANGED <<serverVars, state, jar, stored>>

\* A transport error ends the process
Broken(c) ==
  /\ req[c].at = "lost" /\ req[c].op # "logout"
  /\ state' = [state EXCEPT ![c] = "off"]
  /\ jar' = [jar EXCEPT ![c] = NoToken]
  /\ req' = [req EXCEPT ![c] = Idle]
  /\ UNCHANGED <<serverVars, stored, excused>>

-----------------------------------------------------------------------------
(* Time and restarts *)

Tick ==
  /\ attempts' = Older(attempts)
  /\ UNCHANGED <<rows, issued, chain, clientVars>>

\* Requests under way break off; the limiter forgets; when the configured
\* password changed, ensure_admin_user deletes every stored token
Restart ==
  /\ attempts' = [k \in Keys |-> <<>>]
  /\ \E changed \in BOOLEAN :
       /\ rows' = IF changed THEN {} ELSE rows
       /\ excused' = excused \cup
            (IF changed THEN rows ELSE {}) \cup
            {t \in 1 .. issued : \E c \in Clients :
               /\ req[c].op # "logout" /\ req[c].at = "granted"
               /\ chain[t] = chain[req[c].token]}
  /\ req' = [c \in Clients |-> IF req[c] = Idle THEN Idle ELSE [req[c] EXCEPT !.at = "lost"]]
  /\ UNCHANGED <<issued, chain, state, jar, stored>>

Client(c) ==
  \/ CliStart(c) \/ LoginSend(c) \/ Reauthenticate(c) \/ LogoutSend(c) \/ CliExit(c)
  \/ CliGranted(c) \/ CliRefused(c) \/ LogoutDone(c) \/ Broken(c)

Server(c) ==
  \/ Admit(c) \/ LoginGrant(c) \/ LoginDeny(c)
  \/ RefreshReject(c) \/ RefreshExpired(c) \/ RefreshSelect(c) \/ RefreshRotate(c) \/ RefreshOvertaken(c)
  \/ LogoutSelect(c) \/ LogoutDelete(c)

Next ==
  \/ \E c \in Clients : Client(c) \/ Server(c) \/ Lose(c)
  \/ ChangePassword \/ Tick \/ Restart

Spec == Init /\ [][Next]_vars
-----------------------------------------------------------------------------
\* The types of the variables
TypeOK ==
  /\ rows \subseteq 1 .. issued /\ issued \in 0 .. MaxTokens
  /\ chain \in [Tokens -> Tokens \cup {NoToken}]
  /\ attempts \in [Keys -> Seq(Ages)]
  /\ req \in [Clients -> Requests]
  /\ state \in [Clients -> {"off", "start", "prompt", "on"}]
  /\ jar \in [Clients -> Tokens \cup {NoToken}]
  /\ stored \in Tokens \cup {NoToken}
  /\ excused \subseteq Tokens \cup {NoToken}

\* "Single-use guarantee under concurrency": however the refreshes of several
\* clients interleave, a login has at most one stored token (refresh_tokens)
OneLivePerLogin == \A s, t \in rows : chain[s] = chain[t] => s = t

\* Between CLI commands the credentials file holds a token the server still
\* accepts, unless the user or a failure nobody could see ended it: no order
\* of two processes that share the file leaves a consumed token there
StoredTokenIsLive ==
  (\A c \in Clients : req[c] = Idle) => stored \in rows \cup excused \cup {NoToken}

\* Requests already past enforce_rate_limit are all that can exceed the limit
UnderWay(k) == {c \in Clients : Key(req[c].op) = k /\ req[c].at \in {"admitted", "selected"}
                                /\ req[c].op \in {"login", "refresh"}}
OverrunIsBounded ==
  \A k \in Keys :
    Len(attempts[k]) + Cardinality(UnderWay(k)) <= MaxFailures - 1 + Cardinality(Clients)

\* After a password change no token issued before it is exchanged for a new
\* one: what is stored later descends from a later login
NoHeirOfRevoked ==
  [][ \A t \in rows' \ rows : chain'[t] = t \/ \E s \in rows : chain[s] = chain'[t] ]_vars

=============================================================================
