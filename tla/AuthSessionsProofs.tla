------------------------- MODULE AuthSessionsProofs -------------------------
(***************************************************************************)
(* Refresh tokens for any number of clients, tokens and failures.  That a  *)
(* login has one live token, and that revocation leaves no heir, needs     *)
(* only the rows and the chains.  That the credentials file holds a live   *)
(* token needs the grants on their way: such a token is still unknown to   *)
(* every other request and process, and it makes up for a stored token     *)
(* that its rotation consumed.  The limit counts the requests that already *)
(* passed it.                                                              *)
(***************************************************************************)
EXTENDS AuthSessions, FiniteSetTheorems, TLAPS

Rows ==
  /\ issued \in 0 .. MaxTokens
  /\ rows \subseteq 1 .. issued
  /\ chain \in [Tokens -> Nat]
  /\ \A t \in 1 .. issued : chain[t] \in 1 .. issued

RowInv == Rows /\ OneLivePerLogin

Record == [op : {"none", "login", "refresh", "logout"},
           at : {"idle", "sent", "admitted", "selected",
                 "granted", "refused", "limited", "lost"},
           token : Nat]

\* What the processes hold was issued, and an idle process sends nothing.
Held ==
  /\ req \in [Clients -> Record]
  /\ jar \in [Clients -> Nat]
  /\ state \in [Clients -> {"off", "start", "prompt", "on"}]
  /\ stored \in 0 .. issued
  /\ \A c \in Clients : /\ jar[c] <= issued
                        /\ req[c].token <= issued
                        /\ state[c] = "off" => req[c] = Idle
                        /\ req[c].op = "logout" => req[c].token \in excused

\* A new token is on its way to the client c
Granted(c) == req[c].at = "granted" /\ req[c].op # "logout"

\* and nobody else can use it yet.
Unknown(c) ==
  /\ req[c].token \in rows \cup excused
  /\ req[c].token \in 1 .. issued
  /\ req[c].token # stored
  /\ \A d \in Clients : /\ jar[d] # req[c].token
                        /\ d # c => req[d].token # req[c].token

Kept == \/ stored \in rows \cup excused \cup {NoToken}
        \/ \E c \in Clients : Granted(c) /\ chain[req[c].token] = chain[stored]

GrantInv == \A c \in Clients : Granted(c) => Unknown(c)

IInv == RowInv /\ Held /\ GrantInv /\ Kept
-----------------------------------------------------------------------------
LEMMA InitInv == Init => IInv
BY SessionAssumption DEF Init, IInv, RowInv, Rows, OneLivePerLogin, Held, Record, GrantInv,
  Granted, Kept, Idle, NoToken, Tokens

LEMMA KeptStored == IInv => StoredTokenIsLive
BY DEF IInv, Kept, StoredTokenIsLive, Granted, Idle
-----------------------------------------------------------------------------
(* The rows: a step removes some, adds a login's first or replaces one *)

Removes == rows' \subseteq rows /\ UNCHANGED <<issued, chain>>
LogsIn == \E t \in Tokens : Issue(t, NoToken) /\ rows' = rows \cup {t}
Rotates == \E old \in rows, t \in Tokens :
             Issue(t, chain[old]) /\ rows' = (rows \ {old}) \cup {t}

LEMMA RowStep == ASSUME [Next]_vars PROVE Removes \/ LogsIn \/ Rotates
<1>1. ASSUME NEW c \in Clients, Client(c) PROVE Removes
  BY <1>1 DEF Client, CliStart, LoginSend, Reauthenticate, LogoutSend, CliExit, CliGranted,
    CliRefused, LogoutDone, Broken, serverVars, Removes
<1>2. ASSUME NEW c \in Clients, LoginGrant(c) PROVE LogsIn
  BY <1>2 DEF LoginGrant, LogsIn
<1>3. ASSUME NEW c \in Clients, RefreshRotate(c) PROVE Rotates
  BY <1>3 DEF RefreshRotate, Rotates
<1>4. ASSUME NEW c \in Clients, Server(c), ~ LoginGrant(c), ~ RefreshRotate(c) PROVE Removes
  BY <1>4 DEF Server, Admit, LoginDeny, RefreshReject, RefreshExpired, RefreshSelect,
    RefreshOvertaken, LogoutSelect, LogoutDelete, serverVars, Removes
<1>5. ASSUME NEW c \in Clients, Lose(c) PROVE Removes
  BY <1>5 DEF Lose, serverVars, Removes
<1>6. CASE ChangePassword \/ Tick \/ Restart \/ UNCHANGED vars
  BY <1>6 DEF ChangePassword, Tick, Restart, vars, serverVars, Removes
<1>. QED BY <1>1, <1>2, <1>3, <1>4, <1>5, <1>6 DEF Next

LEMMA RowFacts ==
  RowInv => \A t \in rows : chain[t] \in Nat /\ chain[t] \in 0 .. issued
BY DEF RowInv, Rows

LEMMA RowsKept == ASSUME RowInv, [Next]_vars PROVE RowInv'
<1>. USE SessionAssumption DEF RowInv, Rows, OneLivePerLogin, NoToken, Tokens
<1>1. CASE Removes
  BY <1>1 DEF Removes
<1>2. CASE LogsIn
  BY <1>2 DEF LogsIn, Issue
<1>3. CASE Rotates
  <2>1. PICK old \in rows, t \in Tokens :
          Issue(t, chain[old]) /\ rows' = (rows \ {old}) \cup {t}
    BY <1>3 DEF Rotates
  <2>2. chain[old] \in 1 .. issued
    OBVIOUS
  <2>3. chain[old] # NoToken
    BY <2>2
  <2>4. /\ issued' = issued + 1 /\ t = issued + 1 /\ issued < MaxTokens
        /\ chain' = [chain EXCEPT ![t] = chain[old]]
    BY <2>1, <2>3, Zenon DEF Issue
  <2>. QED BY <2>1, <2>2, <2>4, SMTT(30)
<1>. QED BY <1>1, <1>2, <1>3, RowStep

\* A login has at most one stored refresh token, for any number of clients
\* and tokens: rotation removes the row it replaces (refresh_tokens).
THEOREM RefreshTokensAreSingleUse == Spec => []OneLivePerLogin
<1>1. Init => RowInv
  BY InitInv DEF IInv
<1>2. RowInv /\ [Next]_vars => RowInv'
  BY RowsKept
<1>3. RowInv => OneLivePerLogin
  BY DEF RowInv
<1>. QED BY <1>1, <1>2, <1>3, PTL DEF Spec

\* A new row is a login's first or descends from one stored before: nothing
\* descends from a token that a password change or a logout has removed.
THEOREM RevocationReachesHeirs == Spec => NoHeirOfRevoked
<1>. DEFINE Heir == \A t \in rows' \ rows :
                      chain'[t] = t \/ \E s \in rows : chain[s] = chain'[t]
<1>1. Init => RowInv
  BY InitInv DEF IInv
<1>2. RowInv /\ [Next]_vars => RowInv'
  BY RowsKept
<1>3. RowInv /\ [Next]_vars => [Heir]_vars
  <2>. SUFFICES ASSUME RowInv, [Next]_vars PROVE Heir
    OBVIOUS
  <2>. USE DEF RowInv, Rows, NoToken
  <2>1. CASE Removes
    BY <2>1 DEF Removes
  <2>2. CASE LogsIn
    BY <2>2 DEF LogsIn, Issue
  <2>3. CASE Rotates
    BY <2>3 DEF Rotates, Issue
  <2>. QED BY <2>1, <2>2, <2>3, RowStep
<1>. QED BY <1>1, <1>2, <1>3, PTL DEF Spec, NoHeirOfRevoked
-----------------------------------------------------------------------------
(* The requests: most steps bring no new token on its way *)

LEMMA NoNewGrant ==
  ASSUME IInv, RowInv', NEW c \in Clients, NEW r \in Record,
         req' = [req EXCEPT ![c] = r],
         ~ Granted(c),
         r.at # "granted" \/ r.op = "logout",
         r.token \in {NoToken, stored, jar[c], req[c].token},
         r.op = "logout" => r.token \in excused',
         UNCHANGED <<issued, chain, stored>>,
         excused \subseteq excused', rows \subseteq rows' \cup excused',
         jar' \in {jar, [jar EXCEPT ![c] = NoToken]},
         state' \in [Clients -> {"off", "start", "prompt", "on"}],
         \A d \in Clients : state'[d] = "off" => req'[d] = Idle
  PROVE  IInv'
<1>. USE DEF IInv, Held, NoToken
<1>1. /\ r.token \in Nat /\ r.token <= issued
      /\ \A d \in Clients : /\ req'[d] = IF d = c THEN r ELSE req[d]
                            /\ jar'[d] \in {jar[d], NoToken}
  BY DEF Record, RowInv, Rows
<1>2. Held'
  <2>1. req' \in [Clients -> Record] /\ jar' \in [Clients -> Nat]
    OBVIOUS
  <2>2. stored' \in 0 .. issued'
    OBVIOUS
  <2>3. ASSUME NEW d \in Clients
        PROVE  /\ jar'[d] <= issued' /\ req'[d].token <= issued'
               /\ state'[d] = "off" => req'[d] = Idle
               /\ req'[d].op = "logout" => req'[d].token \in excused'
    BY <1>1 DEF RowInv, Rows
  <2>. QED BY <2>1, <2>2, <2>3
<1>3. ASSUME NEW d \in Clients, Granted(d)' PROVE d # c /\ Granted(d) /\ req'[d] = req[d]
  BY <1>1, <1>3 DEF Granted
<1>4. GrantInv'
  <2>. SUFFICES ASSUME NEW d \in Clients, Granted(d)' PROVE Unknown(d)'
    BY DEF GrantInv
  <2>1. d # c /\ Unknown(d) /\ req'[d] = req[d]
    BY <1>3 DEF GrantInv
  <2>2. r.token # req[d].token
    BY <2>1 DEF Unknown
  <2>. QED BY <1>1, <2>1, <2>2 DEF Unknown
<1>5. Kept'
  <2>1. CASE stored \in rows \cup excused \cup {NoToken}
    BY <2>1 DEF Kept
  <2>2. ASSUME NEW d \in Clients, Granted(d), chain[req[d].token] = chain[stored] PROVE Kept'
    BY <2>2, <1>1 DEF Kept, Granted
  <2>. QED BY <2>1, <2>2 DEF Kept
<1>. QED BY <1>2, <1>4, <1>5
LEMMA CliStartKeeps == ASSUME IInv, RowInv', NEW c \in Clients, CliStart(c) PROVE IInv'
<1>. DEFINE r == IF stored = NoToken THEN req[c] ELSE [op |-> "refresh", at |-> "sent", token |-> stored]
<1>. USE DEF CliStart, serverVars, clientVars
<1>1. r \in Record
  BY DEF Send, IInv, Held, Record, Idle, NoToken, RowInv, Rows
<1>2. req' = [req EXCEPT ![c] = r]
  BY DEF Send, IInv, Held
<1>3. /\ ~ Granted(c) /\ (r.at # "granted" \/ r.op = "logout")
      /\ r.token \in {NoToken, stored, jar[c], req[c].token}
      /\ (r.op = "logout" => r.token \in excused')
  BY DEF Send, Granted, Idle, IInv, Held, NoToken
<1>4. UNCHANGED <<issued, chain, stored>> /\ excused \subseteq excused' /\ rows \subseteq rows' \cup excused'
  BY DEF Send, IInv, Held
<1>5. /\ jar' \in {jar, [jar EXCEPT ![c] = NoToken]}
      /\ state' \in [Clients -> {"off", "start", "prompt", "on"}]
      /\ \A d \in Clients : state'[d] = "off" => req'[d] = Idle
  BY <1>2 DEF Send, IInv, Held, Idle
<1>. HIDE DEF r, CliStart
<1>. QED BY <1>1, <1>2, <1>3, <1>4, <1>5, NoNewGrant

LEMMA LoginSendKeeps == ASSUME IInv, RowInv', NEW c \in Clients, LoginSend(c) PROVE IInv'
<1>. DEFINE r == [op |-> "login", at |-> "sent", token |-> NoToken]
<1>. USE DEF LoginSend, serverVars, clientVars
<1>1. r \in Record
  BY DEF Send, IInv, Held, Record, Idle, NoToken, RowInv, Rows
<1>2. req' = [req EXCEPT ![c] = r]
  BY DEF Send, IInv, Held
<1>3. /\ ~ Granted(c) /\ (r.at # "granted" \/ r.op = "logout")
      /\ r.token \in {NoToken, stored, jar[c], req[c].token}
      /\ (r.op = "logout" => r.token \in excused')
  BY DEF Send, Granted, Idle, IInv, Held, NoToken
<1>4. UNCHANGED <<issued, chain, stored>> /\ excused \subseteq excused' /\ rows \subseteq rows' \cup excused'
  BY DEF Send, IInv, Held
<1>5. /\ jar' \in {jar, [jar EXCEPT ![c] = NoToken]}
      /\ state' \in [Clients -> {"off", "start", "prompt", "on"}]
      /\ \A d \in Clients : state'[d] = "off" => req'[d] = Idle
  BY <1>2 DEF Send, IInv, Held, Idle
<1>. HIDE DEF r, LoginSend
<1>. QED BY <1>1, <1>2, <1>3, <1>4, <1>5, NoNewGrant

LEMMA ReauthenticateKeeps == ASSUME IInv, RowInv', NEW c \in Clients, Reauthenticate(c) PROVE IInv'
<1>. DEFINE r == [op |-> "refresh", at |-> "sent", token |-> jar[c]]
<1>. USE DEF Reauthenticate, serverVars, clientVars
<1>1. r \in Record
  BY DEF Send, IInv, Held, Record, Idle, NoToken, RowInv, Rows
<1>2. req' = [req EXCEPT ![c] = r]
  BY DEF Send, IInv, Held
<1>3. /\ ~ Granted(c) /\ (r.at # "granted" \/ r.op = "logout")
      /\ r.token \in {NoToken, stored, jar[c], req[c].token}
      /\ (r.op = "logout" => r.token \in excused')
  BY DEF Send, Granted, Idle, IInv, Held, NoToken
<1>4. UNCHANGED <<issued, chain, stored>> /\ excused \subseteq excused' /\ rows \subseteq rows' \cup excused'
  BY DEF Send, IInv, Held
<1>5. /\ jar' \in {jar, [jar EXCEPT ![c] = NoToken]}
      /\ state' \in [Clients -> {"off", "start", "prompt", "on"}]
      /\ \A d \in Clients : state'[d] = "off" => req'[d] = Idle
  BY <1>2 DEF Send, IInv, Held, Idle
<1>. HIDE DEF r, Reauthenticate
<1>. QED BY <1>1, <1>2, <1>3, <1>4, <1>5, NoNewGrant

LEMMA LogoutSendKeeps == ASSUME IInv, RowInv', NEW c \in Clients, LogoutSend(c) PROVE IInv'
<1>. DEFINE r == [op |-> "logout", at |-> "sent", token |-> stored]
<1>. USE DEF LogoutSend, serverVars, clientVars
<1>1. r \in Record
  BY DEF Send, IInv, Held, Record, Idle, NoToken, RowInv, Rows
<1>2. req' = [req EXCEPT ![c] = r]
  BY DEF Send, IInv, Held
<1>3. /\ ~ Granted(c) /\ (r.at # "granted" \/ r.op = "logout")
      /\ r.token \in {NoToken, stored, jar[c], req[c].token}
      /\ (r.op = "logout" => r.token \in excused')
  BY DEF Send, Granted, Idle, IInv, Held, NoToken
<1>4. UNCHANGED <<issued, chain, stored>> /\ excused \subseteq excused' /\ rows \subseteq rows' \cup excused'
  BY DEF Send, IInv, Held
<1>5. /\ jar' \in {jar, [jar EXCEPT ![c] = NoToken]}
      /\ state' \in [Clients -> {"off", "start", "prompt", "on"}]
      /\ \A d \in Clients : state'[d] = "off" => req'[d] = Idle
  BY <1>2 DEF Send, IInv, Held, Idle
<1>. HIDE DEF r, LogoutSend
<1>. QED BY <1>1, <1>2, <1>3, <1>4, <1>5, NoNewGrant

LEMMA CliExitKeeps == ASSUME IInv, RowInv', NEW c \in Clients, CliExit(c) PROVE IInv'
<1>. DEFINE r == req[c]
<1>. USE DEF CliExit, serverVars, clientVars
<1>1. r \in Record
  BY DEF IInv, Held, Record, Idle, NoToken, RowInv, Rows
<1>2. req' = [req EXCEPT ![c] = r]
  BY DEF IInv, Held
<1>3. /\ ~ Granted(c) /\ (r.at # "granted" \/ r.op = "logout")
      /\ r.token \in {NoToken, stored, jar[c], req[c].token}
      /\ (r.op = "logout" => r.token \in excused')
  BY DEF Granted, Idle, IInv, Held, NoToken
<1>4. UNCHANGED <<issued, chain, stored>> /\ excused \subseteq excused' /\ rows \subseteq rows' \cup excused'
  BY DEF IInv, Held
<1>5. /\ jar' \in {jar, [jar EXCEPT ![c] = NoToken]}
      /\ state' \in [Clients -> {"off", "start", "prompt", "on"}]
      /\ \A d \in Clients : state'[d] = "off" => req'[d] = Idle
  BY <1>2 DEF IInv, Held, Idle
<1>. HIDE DEF r, CliExit
<1>. QED BY <1>1, <1>2, <1>3, <1>4, <1>5, NoNewGrant

LEMMA CliRefusedKeeps == ASSUME IInv, RowInv', NEW c \in Clients, CliRefused(c) PROVE IInv'
<1>. DEFINE r == Idle
<1>. USE DEF CliRefused, serverVars, clientVars
<1>1. r \in Record
  BY DEF IInv, Held, Record, Idle, NoToken, RowInv, Rows
<1>2. req' = [req EXCEPT ![c] = r]
  BY DEF IInv, Held
<1>3. /\ ~ Granted(c) /\ (r.at # "granted" \/ r.op = "logout")
      /\ r.token \in {NoToken, stored, jar[c], req[c].token}
      /\ (r.op = "logout" => r.token \in excused')
  BY DEF Granted, Idle, IInv, Held, NoToken
<1>4. UNCHANGED <<issued, chain, stored>> /\ excused \subseteq excused' /\ rows \subseteq rows' \cup excused'
  BY DEF IInv, Held
<1>5. /\ jar' \in {jar, [jar EXCEPT ![c] = NoToken]}
      /\ state' \in [Clients -> {"off", "start", "prompt", "on"}]
      /\ \A d \in Clients : state'[d] = "off" => req'[d] = Idle
  BY <1>2 DEF IInv, Held, Idle
<1>. HIDE DEF r, CliRefused
<1>. QED BY <1>1, <1>2, <1>3, <1>4, <1>5, NoNewGrant

LEMMA BrokenKeeps == ASSUME IInv, RowInv', NEW c \in Clients, Broken(c) PROVE IInv'
<1>. DEFINE r == Idle
<1>. USE DEF Broken, serverVars, clientVars
<1>1. r \in Record
  BY DEF IInv, Held, Record, Idle, NoToken, RowInv, Rows
<1>2. req' = [req EXCEPT ![c] = r]
  BY DEF IInv, Held
<1>3. /\ ~ Granted(c) /\ (r.at # "granted" \/ r.op = "logout")
      /\ r.token \in {NoToken, stored, jar[c], req[c].token}
      /\ (r.op = "logout" => r.token \in excused')
  BY DEF Granted, Idle, IInv, Held, NoToken
<1>4. UNCHANGED <<issued, chain, stored>> /\ excused \subseteq excused' /\ rows \subseteq rows' \cup excused'
  BY DEF IInv, Held
<1>5. /\ jar' \in {jar, [jar EXCEPT ![c] = NoToken]}
      /\ state' \in [Clients -> {"off", "start", "prompt", "on"}]
      /\ \A d \in Clients : state'[d] = "off" => req'[d] = Idle
  BY <1>2 DEF IInv, Held, Idle
<1>. HIDE DEF r, Broken
<1>. QED BY <1>1, <1>2, <1>3, <1>4, <1>5, NoNewGrant

LEMMA AdmitKeeps == ASSUME IInv, RowInv', NEW c \in Clients, Admit(c) PROVE IInv'
<1>. DEFINE r == [req[c] EXCEPT !.at = IF IsLimited(attempts, Key(req[c].op)) THEN "limited" ELSE "admitted",
                            !.token = IF IsLimited(attempts, Key(req[c].op)) THEN NoToken ELSE @]
<1>. USE DEF Admit, serverVars, clientVars
<1>1. r \in Record
  BY ZenonT(30) DEF Answer, IInv, Held, Record, Idle, NoToken, RowInv, Rows
<1>2. req' = [req EXCEPT ![c] = r]
  BY DEF Answer, IInv, Held
<1>3. /\ ~ Granted(c) /\ (r.at # "granted" \/ r.op = "logout")
      /\ r.token \in {NoToken, stored, jar[c], req[c].token}
      /\ (r.op = "logout" => r.token \in excused')
  BY DEF Answer, Granted, Idle, IInv, Held, NoToken
<1>4. UNCHANGED <<issued, chain, stored>> /\ excused \subseteq excused' /\ rows \subseteq rows' \cup excused'
  BY DEF Answer, IInv, Held
<1>5. /\ jar' \in {jar, [jar EXCEPT ![c] = NoToken]}
      /\ state' \in [Clients -> {"off", "start", "prompt", "on"}]
      /\ \A d \in Clients : state'[d] = "off" => req'[d] = Idle
  BY <1>2 DEF Answer, IInv, Held, Idle
<1>. HIDE DEF r, Admit
<1>. QED BY <1>1, <1>2, <1>3, <1>4, <1>5, NoNewGrant

LEMMA LoginDenyKeeps == ASSUME IInv, RowInv', NEW c \in Clients, LoginDeny(c) PROVE IInv'
<1>. DEFINE r == [req[c] EXCEPT !.at = IF IsLimited(AddFailure(attempts, Key(req[c].op)), Key(req[c].op))
                                   THEN "limited" ELSE "refused",
                            !.token = NoToken]
<1>. USE DEF LoginDeny, serverVars, clientVars
<1>1. r \in Record
  BY DEF Fail, Answer, IInv, Held, Record, Idle, NoToken, RowInv, Rows
<1>2. req' = [req EXCEPT ![c] = r]
  BY DEF Fail, Answer, IInv, Held
<1>3. /\ ~ Granted(c) /\ (r.at # "granted" \/ r.op = "logout")
      /\ r.token \in {NoToken, stored, jar[c], req[c].token}
      /\ (r.op = "logout" => r.token \in excused')
  BY DEF Fail, Answer, Granted, Idle, IInv, Held, NoToken
<1>4. UNCHANGED <<issued, chain, stored>> /\ excused \subseteq excused' /\ rows \subseteq rows' \cup excused'
  BY DEF Fail, Answer, IInv, Held
<1>5. /\ jar' \in {jar, [jar EXCEPT ![c] = NoToken]}
      /\ state' \in [Clients -> {"off", "start", "prompt", "on"}]
      /\ \A d \in Clients : state'[d] = "off" => req'[d] = Idle
  BY <1>2 DEF Fail, Answer, IInv, Held, Idle
<1>. HIDE DEF r, LoginDeny
<1>. QED BY <1>1, <1>2, <1>3, <1>4, <1>5, NoNewGrant

LEMMA RefreshRejectKeeps == ASSUME IInv, RowInv', NEW c \in Clients, RefreshReject(c) PROVE IInv'
<1>. DEFINE r == [req[c] EXCEPT !.at = IF IsLimited(AddFailure(attempts, Key(req[c].op)), Key(req[c].op))
                                   THEN "limited" ELSE "refused",
                            !.token = NoToken]
<1>. USE DEF RefreshReject, serverVars, clientVars
<1>1. r \in Record
  BY DEF Fail, Answer, IInv, Held, Record, Idle, NoToken, RowInv, Rows
<1>2. req' = [req EXCEPT ![c] = r]
  BY DEF Fail, Answer, IInv, Held
<1>3. /\ ~ Granted(c) /\ (r.at # "granted" \/ r.op = "logout")
      /\ r.token \in {NoToken, stored, jar[c], req[c].token}
      /\ (r.op = "logout" => r.token \in excused')
  BY DEF Fail, Answer, Granted, Idle, IInv, Held, NoToken
<1>4. UNCHANGED <<issued, chain, stored>> /\ excused \subseteq excused' /\ rows \subseteq rows' \cup excused'
  BY DEF Fail, Answer, IInv, Held
<1>5. /\ jar' \in {jar, [jar EXCEPT ![c] = NoToken]}
      /\ state' \in [Clients -> {"off", "start", "prompt", "on"}]
      /\ \A d \in Clients : state'[d] = "off" => req'[d] = Idle
  BY <1>2 DEF Fail, Answer, IInv, Held, Idle
<1>. HIDE DEF r, RefreshReject
<1>. QED BY <1>1, <1>2, <1>3, <1>4, <1>5, NoNewGrant

LEMMA RefreshExpiredKeeps == ASSUME IInv, RowInv', NEW c \in Clients, RefreshExpired(c) PROVE IInv'
<1>. DEFINE r == [req[c] EXCEPT !.at = IF IsLimited(AddFailure(attempts, Key(req[c].op)), Key(req[c].op))
                                   THEN "limited" ELSE "refused",
                            !.token = NoToken]
<1>. USE DEF RefreshExpired, serverVars, clientVars
<1>1. r \in Record
  BY DEF Fail, Answer, IInv, Held, Record, Idle, NoToken, RowInv, Rows
<1>2. req' = [req EXCEPT ![c] = r]
  BY DEF Fail, Answer, IInv, Held
<1>3. /\ ~ Granted(c) /\ (r.at # "granted" \/ r.op = "logout")
      /\ r.token \in {NoToken, stored, jar[c], req[c].token}
      /\ (r.op = "logout" => r.token \in excused')
  BY DEF Fail, Answer, Granted, Idle, IInv, Held, NoToken
<1>4. UNCHANGED <<issued, chain, stored>> /\ excused \subseteq excused' /\ rows \subseteq rows' \cup excused'
  BY DEF Fail, Answer, IInv, Held
<1>5. /\ jar' \in {jar, [jar EXCEPT ![c] = NoToken]}
      /\ state' \in [Clients -> {"off", "start", "prompt", "on"}]
      /\ \A d \in Clients : state'[d] = "off" => req'[d] = Idle
  BY <1>2 DEF Fail, Answer, IInv, Held, Idle
<1>. HIDE DEF r, RefreshExpired
<1>. QED BY <1>1, <1>2, <1>3, <1>4, <1>5, NoNewGrant

LEMMA RefreshOvertakenKeeps == ASSUME IInv, RowInv', NEW c \in Clients, RefreshOvertaken(c) PROVE IInv'
<1>. DEFINE r == [req[c] EXCEPT !.at = IF IsLimited(AddFailure(attempts, Key(req[c].op)), Key(req[c].op))
                                   THEN "limited" ELSE "refused",
                            !.token = NoToken]
<1>. USE DEF RefreshOvertaken, serverVars, clientVars
<1>1. r \in Record
  BY DEF Fail, Answer, IInv, Held, Record, Idle, NoToken, RowInv, Rows
<1>2. req' = [req EXCEPT ![c] = r]
  BY DEF Fail, Answer, IInv, Held
<1>3. /\ ~ Granted(c) /\ (r.at # "granted" \/ r.op = "logout")
      /\ r.token \in {NoToken, stored, jar[c], req[c].token}
      /\ (r.op = "logout" => r.token \in excused')
  BY DEF Fail, Answer, Granted, Idle, IInv, Held, NoToken
<1>4. UNCHANGED <<issued, chain, stored>> /\ excused \subseteq excused' /\ rows \subseteq rows' \cup excused'
  BY DEF Fail, Answer, IInv, Held
<1>5. /\ jar' \in {jar, [jar EXCEPT ![c] = NoToken]}
      /\ state' \in [Clients -> {"off", "start", "prompt", "on"}]
      /\ \A d \in Clients : state'[d] = "off" => req'[d] = Idle
  BY <1>2 DEF Fail, Answer, IInv, Held, Idle
<1>. HIDE DEF r, RefreshOvertaken
<1>. QED BY <1>1, <1>2, <1>3, <1>4, <1>5, NoNewGrant

LEMMA RefreshSelectKeeps == ASSUME IInv, RowInv', NEW c \in Clients, RefreshSelect(c) PROVE IInv'
<1>. DEFINE r == [req[c] EXCEPT !.at = "selected"]
<1>. USE DEF RefreshSelect, serverVars, clientVars
<1>1. r \in Record
  BY DEF IInv, Held, Record, Idle, NoToken, RowInv, Rows
<1>2. req' = [req EXCEPT ![c] = r]
  BY DEF IInv, Held
<1>3. /\ ~ Granted(c) /\ (r.at # "granted" \/ r.op = "logout")
      /\ r.token \in {NoToken, stored, jar[c], req[c].token}
      /\ (r.op = "logout" => r.token \in excused')
  BY DEF Granted, Idle, IInv, Held, NoToken
<1>4. UNCHANGED <<issued, chain, stored>> /\ excused \subseteq excused' /\ rows \subseteq rows' \cup excused'
  BY DEF IInv, Held
<1>5. /\ jar' \in {jar, [jar EXCEPT ![c] = NoToken]}
      /\ state' \in [Clients -> {"off", "start", "prompt", "on"}]
      /\ \A d \in Clients : state'[d] = "off" => req'[d] = Idle
  BY <1>2 DEF IInv, Held, Idle
<1>. HIDE DEF r, RefreshSelect
<1>. QED BY <1>1, <1>2, <1>3, <1>4, <1>5, NoNewGrant

LEMMA LogoutSelectKeeps == ASSUME IInv, RowInv', NEW c \in Clients, LogoutSelect(c) PROVE IInv'
<1>. DEFINE r == [req[c] EXCEPT !.at = IF req[c].token \in rows THEN "selected" ELSE "granted"]
<1>. USE DEF LogoutSelect, serverVars, clientVars
<1>1. r \in Record
  BY DEF IInv, Held, Record, Idle, NoToken, RowInv, Rows
<1>2. req' = [req EXCEPT ![c] = r]
  BY DEF IInv, Held
<1>3. /\ ~ Granted(c) /\ (r.at # "granted" \/ r.op = "logout")
      /\ r.token \in {NoToken, stored, jar[c], req[c].token}
      /\ (r.op = "logout" => r.token \in excused')
  BY DEF Granted, Idle, IInv, Held, NoToken
<1>4. UNCHANGED <<issued, chain, stored>> /\ excused \subseteq excused' /\ rows \subseteq rows' \cup excused'
  BY DEF IInv, Held
<1>5. /\ jar' \in {jar, [jar EXCEPT ![c] = NoToken]}
      /\ state' \in [Clients -> {"off", "start", "prompt", "on"}]
      /\ \A d \in Clients : state'[d] = "off" => req'[d] = Idle
  BY <1>2 DEF IInv, Held, Idle
<1>. HIDE DEF r, LogoutSelect
<1>. QED BY <1>1, <1>2, <1>3, <1>4, <1>5, NoNewGrant

LEMMA LogoutDeleteKeeps == ASSUME IInv, RowInv', NEW c \in Clients, LogoutDelete(c) PROVE IInv'
<1>. DEFINE r == [req[c] EXCEPT !.at = "granted"]
<1>. USE DEF LogoutDelete, serverVars, clientVars
<1>1. r \in Record
  BY DEF IInv, Held, Record, Idle, NoToken, RowInv, Rows
<1>2. req' = [req EXCEPT ![c] = r]
  BY DEF IInv, Held
<1>3. /\ ~ Granted(c) /\ (r.at # "granted" \/ r.op = "logout")
      /\ r.token \in {NoToken, stored, jar[c], req[c].token}
      /\ (r.op = "logout" => r.token \in excused')
  BY DEF Granted, Idle, IInv, Held, NoToken
<1>4. UNCHANGED <<issued, chain, stored>> /\ excused \subseteq excused' /\ rows \subseteq rows' \cup excused'
  BY DEF IInv, Held
<1>5. /\ jar' \in {jar, [jar EXCEPT ![c] = NoToken]}
      /\ state' \in [Clients -> {"off", "start", "prompt", "on"}]
      /\ \A d \in Clients : state'[d] = "off" => req'[d] = Idle
  BY <1>2 DEF IInv, Held, Idle
<1>. HIDE DEF r, LogoutDelete
<1>. QED BY <1>1, <1>2, <1>3, <1>4, <1>5, NoNewGrant

-----------------------------------------------------------------------------
(* The steps that begin, end or lose a grant, or drop the stored token *)

LEMMA LogoutDoneKeeps == ASSUME IInv, RowInv', NEW c \in Clients, LogoutDone(c) PROVE IInv'
<1>. USE DEF LogoutDone, serverVars, IInv, Held, NoToken
<1>1. Idle \in Record /\ Idle.token = 0 /\ Idle.at = "idle" /\ Idle.op = "none"
  BY DEF Idle, Record
<1>2. Held'
  BY <1>1 DEF RowInv, Rows
<1>3. GrantInv'
  <2>. SUFFICES ASSUME NEW d \in Clients, Granted(d)' PROVE Unknown(d)'
    BY DEF GrantInv
  <2>1. d # c /\ req'[d] = req[d] /\ Unknown(d)
    BY <1>1 DEF Granted, GrantInv
  <2>. QED BY <1>1, <2>1 DEF Unknown
<1>4. Kept'
  BY DEF Kept
<1>. QED BY <1>2, <1>3, <1>4

LEMMA CliGrantedKeeps == ASSUME IInv, RowInv', NEW c \in Clients, CliGranted(c) PROVE IInv'
<1>. USE DEF CliGranted, serverVars, IInv, Held, NoToken
<1>1. Idle \in Record /\ Idle.token = 0 /\ Idle.at = "idle" /\ Idle.op = "none"
  BY DEF Idle, Record
<1>2. Unknown(c)
  BY DEF GrantInv, Granted
<1>3. /\ stored' \in {req[c].token, stored} /\ excused \subseteq excused'
      /\ stored' = stored => stored \in excused'
  BY <1>2 DEF Saved, Unknown
<1>4. Held'
  BY <1>1, <1>2, <1>3 DEF RowInv, Rows, Unknown
<1>5. GrantInv'
  <2>. SUFFICES ASSUME NEW d \in Clients, Granted(d)' PROVE Unknown(d)'
    BY DEF GrantInv
  <2>1. d # c /\ req'[d] = req[d] /\ Unknown(d)
    BY <1>1 DEF Granted, GrantInv
  <2>2. req[d].token # req[c].token
    BY <2>1 DEF Unknown
  <2>. QED BY <1>1, <1>3, <2>1, <2>2 DEF Unknown
<1>6. Kept'
  BY <1>2, <1>3 DEF Kept, Unknown
<1>. QED BY <1>4, <1>5, <1>6

LEMMA LoseKeeps == ASSUME IInv, RowInv', NEW c \in Clients, Lose(c) PROVE IInv'
<1>. USE DEF Lose, serverVars, IInv, Held, NoToken
<1>1. /\ [req[c] EXCEPT !.at = "lost"] \in Record
      /\ \A d \in Clients : req'[d] = IF d = c THEN [req[c] EXCEPT !.at = "lost"] ELSE req[d]
  BY DEF Record
<1>2. excused \subseteq excused'
  OBVIOUS
<1>3. Held'
  BY <1>1, <1>2 DEF RowInv, Rows, Idle, Record
<1>4. GrantInv'
  <2>. SUFFICES ASSUME NEW d \in Clients, Granted(d)' PROVE Unknown(d)'
    BY DEF GrantInv
  <2>1. d # c /\ req'[d] = req[d] /\ Unknown(d)
    BY <1>1 DEF Granted, GrantInv, Record
  <2>2. \A e \in Clients : req'[e].token = req[e].token
    BY <1>1 DEF Record
  <2>. QED BY <1>2, <2>1, <2>2 DEF Unknown
<1>5. Kept'
  <2>1. CASE stored \in rows \cup excused \cup {NoToken}
    BY <1>2, <2>1 DEF Kept
  <2>2. ASSUME NEW d \in Clients, Granted(d), chain[req[d].token] = chain[stored],
               stored \notin rows \cup excused \cup {NoToken}
        PROVE  Kept'
    <3>1. CASE d = c
      <4>1. stored \in excused'
        BY <2>2, <3>1 DEF Granted
      <4>. QED BY <4>1 DEF Kept
    <3>2. CASE d # c
      <4>1. Granted(d)' /\ req'[d] = req[d]
        BY <1>1, <2>2, <3>2 DEF Granted
      <4>. QED BY <2>2, <4>1 DEF Kept
    <3>. QED BY <3>1, <3>2
  <2>. QED BY <2>1, <2>2 DEF Kept
<1>. QED BY <1>3, <1>4, <1>5

\* A login or a rotation: a fresh token t is on its way to c
LEMMA NewGrant ==
  ASSUME IInv, RowInv', NEW c \in Clients, NEW t \in Tokens, NEW l \in Nat,
         Issue(t, l),
         req' = [req EXCEPT ![c].at = "granted", ![c].token = t],
         req[c].op # "logout", req[c] # Idle, ~ Granted(c),
         rows \ {req[c].token} \subseteq rows', t \in rows',
         UNCHANGED <<state, jar, stored, excused>>,
         stored \in rows => stored \in rows' \/ l = chain[stored],
         l \in 0 .. issued
  PROVE  IInv'
<1>. USE DEF IInv, Held, NoToken
<1>1. issued \in Nat /\ issued' = issued + 1 /\ t = issued + 1 /\ t \in Nat
  BY DEF Issue, RowInv, Rows
<1>2. chain'[t] = (IF l = NoToken THEN t ELSE l) /\ \A s \in 1 .. issued : chain'[s] = chain[s]
  BY <1>1, SessionAssumption DEF Issue, RowInv, Rows, Tokens
<1>3. /\ \A d \in Clients : d # c => req'[d] = req[d]
      /\ req'[c] \in Record /\ req'[c].op = req[c].op /\ req'[c].token = t /\ req'[c].at = "granted"
  BY <1>1 DEF Record
<1>4. Held'
  <2>1. req' \in [Clients -> Record]
    BY <1>3
  <2>2. state[c] # "off"
    OBVIOUS
  <2>3. stored' \in 0 .. issued'
    BY <1>1
  <2>4. ASSUME NEW d \in Clients
        PROVE  /\ jar'[d] <= issued' /\ req'[d].token <= issued'
               /\ state'[d] = "off" => req'[d] = Idle
               /\ req'[d].op = "logout" => req'[d].token \in excused'
    <3>1. jar[d] \in Nat /\ req[d].token \in Nat
      BY DEF Record
    <3>2. jar'[d] <= issued' /\ req'[d].token <= issued'
      BY <1>1, <1>3, <3>1
    <3>. QED BY <1>3, <2>2, <3>2
  <2>. QED BY <2>1, <2>3, <2>4
<1>5. GrantInv'
  <2>1. Unknown(c)'
    BY <1>1, <1>3 DEF Unknown
  <2>2. ASSUME NEW d \in Clients, d # c, Granted(d)' PROVE Unknown(d)'
    <3>1. req'[d] = req[d] /\ Unknown(d)
      BY <1>3, <2>2 DEF Granted, GrantInv
    <3>2. req[c].token # req[d].token /\ t # req[d].token
      BY <1>1, <2>2, <3>1 DEF Unknown
    <3>. QED BY <1>1, <1>3, <3>1, <3>2 DEF Unknown
  <2>. QED BY <2>1, <2>2 DEF GrantInv
<1>6. Kept'
  <2>1. CASE stored \in rows' \cup excused \cup {NoToken}
    BY <2>1 DEF Kept
  <2>2. CASE stored \in rows /\ stored \notin rows'
    <3>1. stored \in 1 .. issued /\ chain[stored] \in 1 .. issued /\ l = chain[stored]
      BY <2>2 DEF RowInv, Rows
    <3>2. chain'[req'[c].token] = chain'[stored']
      BY <1>1, <1>2, <1>3, <3>1
    <3>3. Granted(c)'
      BY <1>3 DEF Granted
    <3>. QED BY <3>2, <3>3 DEF Kept
  <2>3. ASSUME NEW d \in Clients, Granted(d), chain[req[d].token] = chain[stored],
               stored # NoToken
        PROVE  Kept'
    <3>1. d # c /\ req'[d] = req[d] /\ Granted(d)' /\ Unknown(d)
      BY <1>3, <2>3 DEF Granted, GrantInv
    <3>2. chain'[req[d].token] = chain[req[d].token] /\ chain'[stored] = chain[stored]
      BY <1>1, <1>2, <2>3, <3>1 DEF Unknown
    <3>. QED BY <2>3, <3>1, <3>2 DEF Kept
  <2>. QED BY <2>1, <2>2, <2>3 DEF Kept
<1>. QED BY <1>4, <1>5, <1>6

LEMMA LoginGrantKeeps == ASSUME IInv, RowInv', NEW c \in Clients, LoginGrant(c) PROVE IInv'
<1>. PICK t \in Tokens : Issue(t, NoToken) /\ rows' = rows \cup {t} /\ Answer(c, "granted", t)
  BY DEF LoginGrant
<1>1. /\ req[c].op # "logout" /\ req[c] # Idle /\ ~ Granted(c)
      /\ UNCHANGED <<state, jar, stored, excused>>
  BY DEF LoginGrant, Granted, Idle
<1>2. req' = [req EXCEPT ![c].at = "granted", ![c].token = t]
  BY DEF Answer
<1>3. NoToken \in Nat /\ NoToken \in 0 .. issued
  BY DEF NoToken, IInv, RowInv, Rows
<1>4. t \in rows' /\ rows \subseteq rows'
  OBVIOUS
<1>. QED BY <1>1, <1>2, <1>3, <1>4, NewGrant

LEMMA RefreshRotateKeeps == ASSUME IInv, RowInv', NEW c \in Clients, RefreshRotate(c) PROVE IInv'
<1>. PICK t \in Tokens : /\ Issue(t, chain[req[c].token])
                         /\ rows' = (rows \ {req[c].token}) \cup {t}
                         /\ Answer(c, "granted", t)
  BY DEF RefreshRotate
<1>1. /\ req[c].op # "logout" /\ req[c] # Idle /\ ~ Granted(c) /\ req[c].token \in rows
      /\ UNCHANGED <<state, jar, stored, excused>>
  BY DEF RefreshRotate, Granted, Idle
<1>2. req' = [req EXCEPT ![c].at = "granted", ![c].token = t]
  BY DEF Answer
<1>3. chain[req[c].token] \in Nat /\ chain[req[c].token] \in 0 .. issued
  BY <1>1, RowFacts DEF IInv
<1>4. /\ t \in rows' /\ rows \ {req[c].token} \subseteq rows'
      /\ stored \in rows => stored \in rows' \/ chain[req[c].token] = chain[stored]
  OBVIOUS
<1>. QED BY <1>1, <1>2, <1>3, <1>4, NewGrant

LEMMA ChangePasswordKeeps == ASSUME IInv, RowInv', ChangePassword PROVE IInv'
<1>. USE DEF IInv, ChangePassword
<1>1. Held'
  BY DEF Held
<1>2. GrantInv'
  BY DEF GrantInv, Granted, Unknown
<1>3. Kept'
  BY DEF Kept, Granted
<1>. QED BY <1>1, <1>2, <1>3

LEMMA StutterKeeps == ASSUME IInv, RowInv', Tick \/ UNCHANGED vars PROVE IInv'
BY DEF IInv, Tick, vars, serverVars, clientVars, Held, GrantInv, Granted, Unknown, Kept

LEMMA RestartKeeps == ASSUME IInv, RowInv', Restart PROVE IInv'
<1>. USE DEF Restart, IInv, Held, NoToken
<1>1. \A d \in Clients : /\ req'[d] \in Record /\ req'[d].at # "granted"
                         /\ req'[d].token = req[d].token /\ req'[d].op = req[d].op
                         /\ req[d] = Idle => req'[d] = Idle
  BY ZenonT(30) DEF Record, Idle
<1>2. excused \subseteq excused' /\ rows \subseteq rows' \cup excused'
  OBVIOUS
<1>3. Held'
  <2>1. req' \in [Clients -> Record]
    BY <1>1
  <2>. QED BY <1>1, <1>2, <2>1
<1>4. GrantInv'
  BY <1>1 DEF GrantInv, Granted
<1>5. Kept'
  <2>1. CASE stored \in rows \cup excused \cup {NoToken}
    BY <1>2, <2>1 DEF Kept
  <2>2. ASSUME NEW d \in Clients, Granted(d), chain[req[d].token] = chain[stored],
               stored # NoToken
        PROVE  Kept'
    <3>1. stored \in 1 .. issued
      BY <2>2 DEF RowInv, Rows
    <3>2. stored \in excused'
      BY <2>2, <3>1 DEF Granted
    <3>. QED BY <3>2 DEF Kept
  <2>. QED BY <2>1, <2>2 DEF Kept
<1>. QED BY <1>3, <1>4, <1>5

LEMMA InvKept == ASSUME IInv, [Next]_vars PROVE IInv'
<1>. RowInv'
  BY RowsKept DEF IInv
<1>1. ASSUME NEW c \in Clients, Client(c) PROVE IInv'
  BY <1>1, CliStartKeeps, LoginSendKeeps, ReauthenticateKeeps, LogoutSendKeeps, CliExitKeeps,
    CliGrantedKeeps, CliRefusedKeeps, LogoutDoneKeeps, BrokenKeeps DEF Client
<1>2. ASSUME NEW c \in Clients, Server(c) PROVE IInv'
  BY <1>2, AdmitKeeps, LoginGrantKeeps, LoginDenyKeeps, RefreshRejectKeeps, RefreshExpiredKeeps,
    RefreshSelectKeeps, RefreshRotateKeeps, RefreshOvertakenKeeps, LogoutSelectKeeps,
    LogoutDeleteKeeps DEF Server
<1>3. ASSUME NEW c \in Clients, Lose(c) PROVE IInv'
  BY <1>3, LoseKeeps
<1>. QED BY <1>1, <1>2, <1>3, ChangePasswordKeeps, StutterKeeps, RestartKeeps DEF Next

\* Between commands the credentials file holds a token the server accepts,
\* unless it was ended, for any number of processes that share the file, in
\* every order of their steps and losses (save_credentials, refresh_tokens).
THEOREM StoredTokenStaysLive == Spec => []StoredTokenIsLive
BY InitInv, InvKept, KeptStored, PTL DEF Spec
-----------------------------------------------------------------------------
(* The limiter.  A failure is counted for a request that leaves the ones    *)
(* under way, and a request joins them only below the limit.                *)

Counts == attempts \in [Keys -> Seq(Nat)]
LimitInv == Counts /\ OverrunIsBounded

\* No key counts more, and no request joins those under way
Eases ==
  /\ attempts' \in [Keys -> Seq(Nat)]
  /\ \A k \in Keys : Len(attempts'[k]) <= Len(attempts[k]) /\ UnderWay(k)' \subseteq UnderWay(k)

LEMMA UnderWayFinite ==
  /\ \A k \in Keys : /\ IsFiniteSet(UnderWay(k)) /\ Cardinality(UnderWay(k)) \in Nat
                     /\ Cardinality(UnderWay(k)) <= Cardinality(Clients)
  /\ \A k \in Keys : /\ IsFiniteSet(UnderWay(k)') /\ Cardinality(UnderWay(k)') \in Nat
                     /\ Cardinality(UnderWay(k)') <= Cardinality(Clients)
  /\ Cardinality(Clients) \in Nat
<1>1. \A k \in Keys : UnderWay(k) \subseteq Clients /\ UnderWay(k)' \subseteq Clients
  BY DEF UnderWay
<1> QED BY <1>1, SessionAssumption, FS_Subset, FS_CardinalityType

LEMMA EasesKeeps == ASSUME LimitInv, Eases PROVE LimitInv'
<1>1. ASSUME NEW k \in Keys
      PROVE  Len(attempts'[k]) + Cardinality(UnderWay(k)') <= MaxFailures - 1 + Cardinality(Clients)
  <2>1. Cardinality(UnderWay(k)') <= Cardinality(UnderWay(k))
    BY UnderWayFinite, FS_Subset DEF Eases
  <2>2. Len(attempts'[k]) <= Len(attempts[k]) /\ Len(attempts'[k]) \in Nat /\ Len(attempts[k]) \in Nat
    BY DEF Eases, LimitInv, Counts
  <2>3. Len(attempts[k]) + Cardinality(UnderWay(k)) <= MaxFailures - 1 + Cardinality(Clients)
    BY DEF LimitInv, OverrunIsBounded
  <2> QED BY <2>1, <2>2, <2>3, UnderWayFinite, LimiterAssumption
<1> QED BY <1>1 DEF Eases, LimitInv, Counts, OverrunIsBounded

\* A request that was let in or refused, or failed, leaves the ones under way;
\* one that is answered or sent was not among them
LEMMA RequestEases ==
  ASSUME IInv, NEW c \in Clients, NEW r, req' = [req EXCEPT ![c] = r],
         \/ r.at \notin {"admitted", "selected"} \/ r.op \notin {"login", "refresh"}
         \/ r.op = req[c].op /\ req[c].at \in {"admitted", "selected"},
         NEW k \in Keys
  PROVE  UnderWay(k)' \subseteq UnderWay(k)
BY DEF UnderWay, IInv, Held

LEMMA OlderEases ==
  ASSUME Counts
  PROVE  /\ Older(attempts) \in [Keys -> Seq(Nat)]
         /\ \A k \in Keys : Len(Older(attempts)[k]) <= Len(attempts[k])
<1> SUFFICES ASSUME NEW k \in Keys
             PROVE  Older(attempts)[k] \in Seq(Nat) /\ Len(Older(attempts)[k]) <= Len(attempts[k])
  BY DEF Older
<1> DEFINE s == attempts[k]
           I == {i \in DOMAIN s : s[i] < Window}
           n == Cardinality(I)
<1>1. s \in Seq(Nat) /\ Len(s) \in Nat /\ DOMAIN s = 1 .. Len(s)
  BY DEF Counts
<1>2. n \in Nat /\ n <= Len(s)
  <2>1. IsFiniteSet(1 .. Len(s)) /\ Cardinality(1 .. Len(s)) = Len(s)
    BY <1>1, FS_Interval
  <2>2. I \subseteq 1 .. Len(s)
    BY <1>1
  <2> HIDE DEF I
  <2> QED BY <2>1, <2>2, FS_Subset, FS_CardinalityType
<1>3. Older(attempts)[k] = [i \in 1 .. n |-> s[Len(s) - n + i] + 1]
  BY DEF Older
<1> HIDE DEF n
<1>4. \A i \in 1 .. n : s[Len(s) - n + i] + 1 \in Nat
  <2> SUFFICES ASSUME NEW i \in 1 .. n PROVE s[Len(s) - n + i] \in Nat
    OBVIOUS
  <2>1. Len(s) - n + i \in 1 .. Len(s)
    BY <1>1, <1>2
  <2> QED BY <1>1, <2>1
<1> HIDE DEF s
<1> DEFINE t == [i \in 1 .. n |-> s[Len(s) - n + i] + 1]
<1>5. t \in [1 .. n -> Nat]
  BY <1>4
<1> HIDE DEF t
<1>6. t \in Seq(Nat) /\ Len(t) = n
  BY <1>2, <1>5
<1> QED BY <1>2, <1>3, <1>6 DEF t, s

LEMMA ClientEases ==
  ASSUME IInv, Counts, NEW c \in Clients, Client(c) \/ Lose(c) \/ LogoutSelect(c) \/ LogoutDelete(c)
  PROVE  Eases
<1>1. UNCHANGED attempts
  BY DEF Client, Lose, LogoutSelect, LogoutDelete, CliStart, LoginSend, Reauthenticate, LogoutSend,
         CliExit, CliGranted, CliRefused, LogoutDone, Broken, serverVars
<1>2. req' = req \/ \E r : req' = [req EXCEPT ![c] = r]
        /\ (r.at \notin {"admitted", "selected"} \/ r.op \notin {"login", "refresh"})
  <2>1. req \in [Clients -> Record]
    BY DEF IInv, Held
  <2>2. CASE CliStart(c) \/ LoginSend(c) \/ Reauthenticate(c) \/ LogoutSend(c) \/ CliExit(c)
    <3>1. \A op, t : Send(c, op, t) => \E r : req' = [req EXCEPT ![c] = r] /\ r.at = "sent"
      <4> SUFFICES ASSUME NEW op, NEW t, Send(c, op, t)
                   PROVE  \E r : req' = [req EXCEPT ![c] = r] /\ r.at = "sent"
        OBVIOUS
      <4> DEFINE r == [op |-> op, at |-> "sent", token |-> t]
      <4>1. req' = [req EXCEPT ![c] = r] /\ r.at = "sent"
        BY DEF Send
      <4> HIDE DEF r
      <4> QED BY <4>1
    <3>2. req' = req \/ \E op, t : Send(c, op, t)
      BY <2>2 DEF CliStart, LoginSend, Reauthenticate, LogoutSend, CliExit
    <3> QED BY <3>1, <3>2
  <2>3. CASE CliGranted(c) \/ CliRefused(c) \/ LogoutDone(c) \/ Broken(c)
    <3>1. req' = [req EXCEPT ![c] = Idle] /\ Idle.at = "idle"
      BY <2>3 DEF CliGranted, CliRefused, LogoutDone, Broken, Idle
    <3> QED BY <3>1
  <2>4. CASE Lose(c)
    <3>1. req' = [req EXCEPT ![c] = [req[c] EXCEPT !.at = "lost"]]
      BY <2>4 DEF Lose
    <3>2. [req[c] EXCEPT !.at = "lost"].at = "lost"
      BY <2>1 DEF Record
    <3> QED BY <3>1, <3>2
  <2>5. CASE LogoutSelect(c) \/ LogoutDelete(c)
    <3>1. PICK x : req' = [req EXCEPT ![c] = [req[c] EXCEPT !.at = x]]
      BY <2>5 DEF LogoutSelect, LogoutDelete
    <3>2. [req[c] EXCEPT !.at = x].op = "logout"
      BY <2>1, <2>5 DEF Record, LogoutSelect, LogoutDelete
    <3> QED BY <3>1, <3>2
  <2> QED BY <2>2, <2>3, <2>4, <2>5 DEF Client
<1>3. \A k \in Keys : UnderWay(k)' \subseteq UnderWay(k)
  BY <1>2, RequestEases DEF UnderWay
<1> QED BY <1>1, <1>3 DEF Eases, Counts

\* Clear starts a key's count anew; a selected request stays under way
LEMMA GrantEases ==
  ASSUME IInv, Counts, NEW c \in Clients, LoginGrant(c) \/ RefreshRotate(c) \/ RefreshSelect(c)
  PROVE  Eases
<1>1. \E r : req' = [req EXCEPT ![c] = r]
        /\ \/ r.at = "granted"
           \/ r.op = req[c].op /\ req[c].at \in {"admitted", "selected"}
  <2>1. req \in [Clients -> Record]
    BY DEF IInv, Held
  <2>2. CASE RefreshSelect(c)
    <3> DEFINE r == [req[c] EXCEPT !.at = "selected"]
    <3>1. req' = [req EXCEPT ![c] = r] /\ req[c].at = "admitted"
      BY <2>2 DEF RefreshSelect
    <3>2. r.op = req[c].op
      BY <2>1 DEF Record
    <3> HIDE DEF r
    <3> QED BY <3>1, <3>2
  <2>3. CASE LoginGrant(c) \/ RefreshRotate(c)
    <3>1. PICK t : Answer(c, "granted", t)
      BY <2>3 DEF LoginGrant, RefreshRotate
    <3> DEFINE r == [req[c] EXCEPT !.at = "granted", !.token = t]
    <3>2. req' = [req EXCEPT ![c] = r] /\ r.at = "granted"
      BY <2>1, <3>1 DEF Answer, Record
    <3> HIDE DEF r
    <3> QED BY <3>2
  <2> QED BY <2>2, <2>3
<1>2. \A k \in Keys : UnderWay(k)' \subseteq UnderWay(k)
  BY <1>1, RequestEases
<1>3. attempts' = attempts \/ \E k : attempts' = [attempts EXCEPT ![k] = <<>>]
  BY DEF LoginGrant, RefreshRotate, RefreshSelect, Clear, serverVars
<1>4. /\ attempts' \in [Keys -> Seq(Nat)]
      /\ \A k \in Keys : Len(attempts'[k]) <= Len(attempts[k])
  <2>1. <<>> \in Seq(Nat) /\ Len(<<>>) = 0 /\ \A k \in Keys : Len(attempts[k]) \in Nat
    BY DEF Counts
  <2>2. CASE attempts' = attempts
    BY <2>1, <2>2 DEF Counts
  <2>3. ASSUME NEW k, attempts' = [attempts EXCEPT ![k] = <<>>]
        PROVE  /\ attempts' \in [Keys -> Seq(Nat)]
               /\ \A j \in Keys : Len(attempts'[j]) <= Len(attempts[j])
    <3>1. \A j \in Keys : attempts'[j] = attempts[j] \/ attempts'[j] = <<>>
      BY <2>3 DEF Counts
    <3>2. \A j \in Keys : attempts[j] \in Seq(Nat) /\ Len(attempts[j]) \in Nat
      BY DEF Counts
    <3>3. attempts' \in [Keys -> Seq(Nat)]
      BY <2>1, <2>3, <3>1, <3>2 DEF Counts
    <3>4. ASSUME NEW j \in Keys PROVE Len(attempts'[j]) <= Len(attempts[j])
      BY <2>1, <3>1, <3>2
    <3> QED BY <3>3, <3>4
  <2> QED BY <1>3, <2>2, <2>3
<1> QED BY <1>2, <1>4 DEF Eases

LEMMA TimeEases ==
  ASSUME IInv, Counts, ChangePassword \/ Tick \/ Restart \/ UNCHANGED vars
  PROVE  Eases
<1>1. CASE ChangePassword \/ UNCHANGED vars
  BY <1>1 DEF ChangePassword, vars, serverVars, clientVars, Eases, Counts, UnderWay
<1>2. CASE Tick
  BY <1>2, OlderEases DEF Tick, clientVars, Eases, UnderWay
<1>3. CASE Restart
  <2>1. req' = [c \in Clients |-> IF req[c] = Idle THEN Idle ELSE [req[c] EXCEPT !.at = "lost"]]
        /\ attempts' = [k \in Keys |-> <<>>]
    BY <1>3 DEF Restart
  <2>2. \A c \in Clients : req'[c].at \in {"idle", "lost"}
    BY <2>1 DEF Idle, IInv, Held, Record
  <2>3. \A k \in Keys : UnderWay(k)' = {}
    BY <2>2 DEF UnderWay
  <2>4. <<>> \in Seq(Nat) /\ Len(<<>>) = 0 /\ \A k \in Keys : Len(attempts[k]) \in Nat
    BY DEF Counts
  <2> QED BY <2>1, <2>3, <2>4 DEF Eases
<1> QED BY <1>1, <1>2, <1>3

\* A request is let in below the limit
LEMMA AdmitBounded == ASSUME IInv, LimitInv, NEW c \in Clients, Admit(c) PROVE LimitInv'
<1>1. UNCHANGED attempts /\ req \in [Clients -> Record]
  BY DEF Admit, serverVars, IInv, Held
<1>2. CASE IsLimited(attempts, Key(req[c].op))
  <2> DEFINE r == [req[c] EXCEPT !.at = "limited", !.token = NoToken]
  <2>1. req' = [req EXCEPT ![c] = r] /\ r.at = "limited"
    BY <1>1, <1>2 DEF Admit, Answer, Record
  <2> HIDE DEF r
  <2>2. \A k \in Keys : UnderWay(k)' \subseteq UnderWay(k)
    BY <2>1, RequestEases
  <2> QED BY <1>1, <2>2, EasesKeeps DEF Eases, LimitInv, Counts
<1>3. CASE ~ IsLimited(attempts, Key(req[c].op))
  <2>1. req' = [req EXCEPT ![c].at = "admitted"]
    BY <1>3 DEF Admit
  <2>2. ASSUME NEW k \in Keys
        PROVE  Len(attempts'[k]) + Cardinality(UnderWay(k)') <= MaxFailures - 1 + Cardinality(Clients)
    <3>0. Len(attempts[k]) \in Nat
      BY DEF LimitInv, Counts
    <3>1. CASE k = Key(req[c].op)
      <4>1. Len(attempts[k]) <= MaxFailures - 1
        BY <1>3, <3>0, <3>1, LimiterAssumption DEF IsLimited
      <4> QED BY <1>1, <3>0, <4>1, UnderWayFinite, LimiterAssumption
    <3>2. CASE k # Key(req[c].op)
      <4>1. UnderWay(k)' \subseteq UnderWay(k)
        BY <1>1, <2>1, <3>2 DEF UnderWay, Record
      <4>2. Cardinality(UnderWay(k)') <= Cardinality(UnderWay(k))
        BY <4>1, UnderWayFinite, FS_Subset
      <4> QED BY <1>1, <3>0, <4>2, UnderWayFinite, LimiterAssumption DEF LimitInv, OverrunIsBounded
    <3> QED BY <3>1, <3>2
  <2> QED BY <1>1, <2>2 DEF LimitInv, Counts, OverrunIsBounded
<1> QED BY <1>2, <1>3

\* A failure is counted for a request that was under way, and is no more
LEMMA FailBounded ==
  ASSUME IInv, LimitInv, NEW c \in Clients, Fail(c), req[c].op \in {"login", "refresh"},
         req[c].at \in {"admitted", "selected"}
  PROVE  LimitInv'
<1> DEFINE key == Key(req[c].op)
<1>1. /\ req \in [Clients -> Record] /\ attempts \in [Keys -> Seq(Nat)] /\ key \in Keys
      /\ attempts' = [attempts EXCEPT ![key] = Append(@, 0)]
  BY SessionAssumption DEF Fail, AddFailure, IInv, Held, LimitInv, Counts, Key
<1>2. \E x \in {"limited", "refused"} : req' = [req EXCEPT ![c].at = x, ![c].token = NoToken]
  BY DEF Fail, Answer
<1>3. /\ \A d \in Clients : (req'[d] = req[d] \/ d = c)
      /\ req'[c].at \in {"limited", "refused"}
  BY <1>1, <1>2 DEF Record
<1>4. ASSUME NEW k \in Keys
      PROVE  Len(attempts'[k]) + Cardinality(UnderWay(k)') <= MaxFailures - 1 + Cardinality(Clients)
  <2>0. Len(attempts[k]) + Cardinality(UnderWay(k)) <= MaxFailures - 1 + Cardinality(Clients)
        /\ Len(attempts[k]) \in Nat
    BY <1>1 DEF LimitInv, OverrunIsBounded
  <2>1. CASE k = key
    <3>1. UnderWay(k)' \subseteq UnderWay(k) \ {c} /\ c \in UnderWay(k)
      BY <1>1, <1>3, <2>1 DEF UnderWay
    <3>2. Cardinality(UnderWay(k) \ {c}) = Cardinality(UnderWay(k)) - 1
          /\ IsFiniteSet(UnderWay(k) \ {c})
      BY <3>1, UnderWayFinite, FS_RemoveElement
    <3>3. Cardinality(UnderWay(k)') <= Cardinality(UnderWay(k)) - 1
      BY <3>1, <3>2, FS_Subset
    <3>4. attempts'[k] = Append(attempts[k], 0) /\ Len(attempts'[k]) = Len(attempts[k]) + 1
      BY <1>1, <2>1
    <3> QED BY <2>0, <3>3, <3>4, UnderWayFinite, LimiterAssumption
  <2>2. CASE k # key
    <3>1. UnderWay(k)' \subseteq UnderWay(k) /\ attempts'[k] = attempts[k]
      BY <1>1, <1>3, <2>2 DEF UnderWay
    <3>2. Cardinality(UnderWay(k)') <= Cardinality(UnderWay(k))
      BY <3>1, UnderWayFinite, FS_Subset
    <3> QED BY <2>0, <3>1, <3>2, UnderWayFinite, LimiterAssumption
  <2> QED BY <2>1, <2>2
<1>5. attempts' \in [Keys -> Seq(Nat)]
  <2>1. Append(attempts[key], 0) \in Seq(Nat)
    BY <1>1
  <2> HIDE DEF key
  <2> QED BY <1>1, <2>1
<1> QED BY <1>4, <1>5 DEF LimitInv, Counts, OverrunIsBounded

\* However many requests pass the check before the first failure is recorded,
\* the limit is overrun by no more than the clients that share the key
THEOREM LimitOverrunIsBounded == Spec => []OverrunIsBounded
<1>1. Init => LimitInv
  <2> SUFFICES ASSUME Init PROVE LimitInv
    OBVIOUS
  <2>1. attempts = [k \in Keys |-> <<>>] /\ <<>> \in Seq(Nat) /\ Len(<<>>) = 0
    BY DEF Init
  <2> QED BY <2>1, UnderWayFinite, LimiterAssumption DEF LimitInv, Counts, OverrunIsBounded
<1>2. IInv /\ LimitInv /\ [Next]_vars => LimitInv'
  <2> SUFFICES ASSUME IInv, LimitInv, [Next]_vars PROVE LimitInv'
    OBVIOUS
  <2>1. ASSUME NEW c \in Clients, Client(c) \/ Lose(c) \/ LogoutSelect(c) \/ LogoutDelete(c)
        PROVE  LimitInv'
    BY <2>1, ClientEases, EasesKeeps DEF LimitInv
  <2>2. ASSUME NEW c \in Clients, LoginGrant(c) \/ RefreshRotate(c) \/ RefreshSelect(c)
        PROVE  LimitInv'
    BY <2>2, GrantEases, EasesKeeps DEF LimitInv
  <2>3. CASE ChangePassword \/ Tick \/ Restart \/ UNCHANGED vars
    BY <2>3, TimeEases, EasesKeeps DEF LimitInv
  <2>4. ASSUME NEW c \in Clients,
               LoginDeny(c) \/ RefreshReject(c) \/ RefreshExpired(c) \/ RefreshOvertaken(c)
        PROVE  LimitInv'
    <3>1. /\ Fail(c) /\ req[c].op \in {"login", "refresh"}
          /\ req[c].at \in {"admitted", "selected"}
      BY <2>4 DEF LoginDeny, RefreshReject, RefreshExpired, RefreshOvertaken
    <3> QED BY <3>1, FailBounded
  <2> QED BY <2>1, <2>2, <2>3, <2>4, AdmitBounded DEF Next, Server
<1>3. LimitInv => OverrunIsBounded
  BY DEF LimitInv
<1> QED BY <1>1, <1>2, <1>3, InitInv, InvKept, PTL DEF Spec
=============================================================================
