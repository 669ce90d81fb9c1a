--------------------------------- MODULE Auth ---------------------------------
(***************************************************************************)
(* Accounts, sessions, invitations, cross-domain tokens and the login      *)
(* limiter.  A request first passes the limiter or the session middleware, *)
(* in a step of its own, and acts later in a write transaction on what it  *)
(* learned there; rwDB has one connection, which postLogin keeps across the *)
(* password comparison, so each write transaction is one step.  Limiter    *)
(* and cross-domain tokens are in memory and a restart clears them.        *)
(*                                                                         *)
(* Abstractions of data, none of control:                                  *)
(*  - An account is a number given when it is made, its id the rowid that  *)
(*    SQLite gives it and gives again after a deletion; names are left out,*)
(*    and with them an edit that keeps the password.                       *)
(*  - A password is how often it was changed; a wrong one is any other.    *)
(*  - Session, invitation and cross-domain tokens are random and never     *)
(*    come twice.  A session or invitation past its lifetime is gone at    *)
(*    once: retention deletes the row later and nothing tells the two apart.*)
(*  - csrfMiddleware compares within the request; a wrong token ends it.   *)
(*  - acct, pw and proof in a session, a request or a token are history,   *)
(*    as are made, minted, withdrawn and crossed: no guard reads them.     *)
(***************************************************************************)
EXTENDS Naturals, FiniteSets

CONSTANTS
  Requests,     \* requests being handled at once
  Clients,      \* addresses the limiter counts by
  Sessions,     \* bound: session rows at once
  CrossTokens,  \* bound: cross-domain tokens ever issued
  Limit,        \* loginMaxFailures
  MaxId,        \* bound: largest rowid of user and user_invitation
  MaxAcct,      \* bound: accounts ever made
  MaxPw,        \* bound: changes of one password
  MaxInv        \* bound: invitations ever made

ASSUME RequestsAssumption == IsFiniteSet(Requests)
ASSUME BoundsAssumption ==
  /\ Limit \in Nat \ {0}
  /\ MaxId \in Nat \ {0}
  /\ MaxAcct \in Nat \ {0}
  /\ MaxPw \in Nat
  /\ MaxInv \in Nat

VARIABLES
  user,       \* user: rowid -> account, 0 for no row
  pw,         \* account -> its password
  session,    \* session: token -> whom it lets in
  invite,     \* user_invitation: rowid -> invitation, 0 for no row
  bucket,     \* loginLimiter: client -> count, 0 for no bucket
  elapsed,    \* clients whose bucket is older than loginWindow
  cross,      \* crossAuthTokens
  pc,         \* where a request is
  carries,    \* what it learned and will act on
  accounts,   \* history: accounts made
  invited,    \* history: invitations made
  made,       \* history: invitation -> accounts made with it
  withdrawn,  \* history: invitations an administrator deleted
  minted,     \* history: cross-domain token -> sessions made with it
  crossed     \* history: an account deleted another after it was deleted itself

tables  == <<user, pw, session, invite>>
limiter == <<bucket, elapsed>>
reqs    == <<pc, carries>>
history == <<accounts, invited, made, withdrawn, minted, crossed>>
vars    == <<tables, limiter, cross, reqs, history>>

-----------------------------------------------------------------------------
(* Data *)

Ids         == 1..MaxId
Accounts    == 1..MaxAcct
Invitations == 1..MaxInv
Living      == {user[i] : i \in Ids} \ {0}

\* pw is the account's password when the session was made.  proof is the one
\* somebody entered: a session made from a cross-domain token has it from the
\* session the token was asked for with.
NoSession == [via |-> "none"]
Row       == [uid : Ids, acct : Accounts, pw : 0..MaxPw, proof : 0..MaxPw,
              via : {"login", "invitation", "token"}]

Unissued == [state |-> "unissued"]
Spent    == [state |-> "spent"]
Issued   == [state : {"issued"}, uid : Ids, acct : Accounts, proof : 0..MaxPw]

Nothing == [what |-> "nothing"]
Client  == [what : {"client"}, key : Clients]
Actor   == [what : {"actor"}, uid : Ids, acct : Accounts, proof : 0..MaxPw]
Mint    == [what : {"mint"}, uid : Ids, acct : Accounts, proof : 0..MaxPw,
            token : CrossTokens]

\* "integer primary key" without autoincrement: one more than the largest.
NextRowid(table, i) ==
  /\ \A j \in Ids : j >= i => table[j] = 0
  /\ \A j \in Ids : j = i - 1 => table[j] # 0

End(r) ==
  /\ pc' = [pc EXCEPT ![r] = "idle"]
  /\ carries' = [carries EXCEPT ![r] = Nothing]

Begin(r, where, what) ==
  /\ pc' = [pc EXCEPT ![r] = where]
  /\ carries' = [carries EXCEPT ![r] = what]

\* createSession for user i in a free slot; the foreign key wants the user.
CreateSession(i, acct, proof, via) ==
  /\ user[i] # 0
  /\ \E s \in Sessions :
       /\ session[s] = NoSession
       /\ session' = [session EXCEPT ![s] =
            [uid |-> i, acct |-> acct, pw |-> pw[acct], proof |-> proof, via |-> via]]

-----------------------------------------------------------------------------
(* Logging in *)

\* Fault: one failure more than the limit is let through.
LookAtLimitOneMore(r, k) ==
  LET swept == [c \in Clients |-> IF c \in elapsed THEN 0 ELSE bucket[c]]
  IN  /\ pc[r] = "idle"
      /\ bucket' = swept
      /\ elapsed' = {}
      /\ IF swept[k] <= Limit
         THEN Begin(r, "login", [what |-> "client", key |-> k])
         ELSE UNCHANGED reqs
      /\ UNCHANGED <<tables, cross, history>>

\* loginRateLimited: expired buckets go, then the client's own is looked at.
LookAtLimit(r, k) ==
  LET swept == [c \in Clients |-> IF c \in elapsed THEN 0 ELSE bucket[c]]
  IN  /\ pc[r] = "idle"
      /\ bucket' = swept
      /\ elapsed' = {}
      /\ IF swept[k] < Limit
         THEN Begin(r, "login", [what |-> "client", key |-> k])
         ELSE UNCHANGED reqs
      /\ UNCHANGED <<tables, cross, history>>

\* recordLoginFailure: a new bucket when there is none or its window is over.
RecordLoginFailure(k) ==
  IF bucket[k] = 0 \/ k \in elapsed
  THEN /\ bucket' = [bucket EXCEPT ![k] = 1]
       /\ elapsed' = elapsed \ {k}
  ELSE /\ bucket' = [bucket EXCEPT ![k] = @ + 1]
       /\ UNCHANGED elapsed

\* Unknown name or wrong password: counted before the transaction ends.
LoginWrong(r) ==
  /\ pc[r] = "login"
  /\ RecordLoginFailure(carries[r].key)
  /\ End(r)
  /\ UNCHANGED <<tables, cross, history>>

\* The password of user i: the bucket goes, whether or not the session that
\* follows is committed.
LoginRight(r, i) ==
  /\ pc[r] = "login"
  /\ user[i] # 0
  /\ bucket' = [bucket EXCEPT ![carries[r].key] = 0]
  /\ elapsed' = elapsed \ {carries[r].key}
  /\ CreateSession(i, user[i], pw[user[i]], "login") \/ UNCHANGED session
  /\ End(r)
  /\ UNCHANGED <<user, pw, invite, cross, history>>

\* A blank form, or an error before the password is compared.
LoginGivesUp(r) ==
  /\ pc[r] = "login"
  /\ End(r)
  /\ UNCHANGED <<tables, limiter, cross, history>>

\* loginWindow has passed since the first failure of the bucket.
WindowElapses(k) ==
  /\ bucket[k] # 0
  /\ k \notin elapsed
  /\ elapsed' = elapsed \cup {k}
  /\ UNCHANGED <<tables, bucket, cross, reqs, history>>

-----------------------------------------------------------------------------
(* Invitations *)

\* Fault: the invitation is not deleted.
AcceptInvitationKept(n) ==
  \E j \in Ids, i \in Ids :
    /\ invite[j] = n
    /\ NextRowid(user, i)
    /\ accounts < MaxAcct
    /\ accounts' = accounts + 1
    /\ user' = [user EXCEPT ![i] = accounts + 1]
    /\ \E s \in Sessions :
         /\ session[s] = NoSession
         /\ session' = [session EXCEPT ![s] =
              [uid |-> i, acct |-> accounts + 1, pw |-> 0, proof |-> 0,
               via |-> "invitation"]]
    /\ made' = [made EXCEPT ![n] = @ + 1]
    /\ UNCHANGED <<pw, invite, limiter, cross, reqs, invited, withdrawn, minted, crossed>>

\* postInvitation with the token of invitation n: validated, deleted, account
\* and session made in one transaction; a taken name or an error undoes it all.
AcceptInvitation(n) ==
  \E j \in Ids, i \in Ids :
    /\ invite[j] = n
    /\ NextRowid(user, i)
    /\ accounts < MaxAcct
    /\ accounts' = accounts + 1
    /\ invite' = [invite EXCEPT ![j] = 0]
    /\ user' = [user EXCEPT ![i] = accounts + 1]
    /\ \E s \in Sessions :
         /\ session[s] = NoSession
         /\ session' = [session EXCEPT ![s] =
              [uid |-> i, acct |-> accounts + 1, pw |-> 0, proof |-> 0,
               via |-> "invitation"]]
    /\ made' = [made EXCEPT ![n] = @ + 1]
    /\ UNCHANGED <<pw, limiter, cross, reqs, invited, withdrawn, minted, crossed>>

\* postInviteUser.
InviteUser(r) ==
  /\ pc[r] = "authed"
  /\ invited < MaxInv
  /\ invited' = invited + 1
  /\ \E j \in Ids : /\ NextRowid(invite, j)
                    /\ invite' = [invite EXCEPT ![j] = invited + 1]
  /\ End(r)
  /\ UNCHANGED <<user, pw, session, limiter, cross,
                 accounts, made, withdrawn, minted, crossed>>

\* postDeleteInvite, by a rowid from a page that may be old.
DeleteInvite(r, j) ==
  /\ pc[r] = "authed"
  /\ invite' = [invite EXCEPT ![j] = 0]
  /\ withdrawn' = withdrawn \cup ({invite[j]} \ {0})
  /\ End(r)
  /\ UNCHANGED <<user, pw, session, limiter, cross,
                 accounts, invited, made, minted, crossed>>

\* userInvitationLifetime is over; prune("user_invitation").
InvitationExpires(j) ==
  /\ invite[j] # 0
  /\ invite' = [invite EXCEPT ![j] = 0]
  /\ UNCHANGED <<user, pw, session, limiter, cross, reqs, history>>

-----------------------------------------------------------------------------
(* Sessions and accounts *)

\* Fault: a request without a session is let through.
AuthenticateAnyway(r, s) ==
  /\ pc[r] = "idle"
  /\ Begin(r, "authed",
           IF session[s] = NoSession
           THEN [what |-> "actor", uid |-> 0, acct |-> 0, proof |-> 0]
           ELSE [what |-> "actor", uid |-> session[s].uid,
                 acct |-> session[s].acct, proof |-> session[s].proof])
  /\ UNCHANGED <<tables, limiter, cross, history>>

\* The session middleware and the gate of /admin: a valid session's user goes into
\* the context, and without one the handler is not reached.
Authenticate(r, s) ==
  /\ pc[r] = "idle"
  /\ session[s] # NoSession
  /\ Begin(r, "authed",
           [what |-> "actor", uid |-> session[s].uid,
            acct |-> session[s].acct, proof |-> session[s].proof])
  /\ UNCHANGED <<tables, limiter, cross, history>>

\* The handler changes nothing of this module, or returns early.
ReturnEarly(r) ==
  /\ pc[r] = "authed"
  /\ End(r)
  /\ UNCHANGED <<tables, limiter, cross, history>>

\* logout: deleteSession by the cookie.
Logout(s) ==
  /\ session[s] # NoSession
  /\ session' = [session EXCEPT ![s] = NoSession]
  /\ UNCHANGED <<user, pw, invite, limiter, cross, reqs, history>>

\* sessionLifetime is over; prune("session").
SessionExpires(s) ==
  /\ session[s] # NoSession
  /\ session' = [session EXCEPT ![s] = NoSession]
  /\ UNCHANGED <<user, pw, invite, limiter, cross, reqs, history>>

SessionsOf(i) == {s \in Sessions : session[s] # NoSession /\ session[s].uid = i}

\* Fault: a new password leaves the sessions.
EditUserOnly(r, i) ==
  /\ pc[r] = "authed"
  /\ user[i] # 0
  /\ pw[user[i]] < MaxPw
  /\ pw' = [pw EXCEPT ![user[i]] = @ + 1]
  /\ End(r)
  /\ UNCHANGED <<user, session, invite, limiter, cross, history>>

\* postEditUser with a new password: deleteAllSessionsByUserID with it.
EditUser(r, i) ==
  /\ pc[r] = "authed"
  /\ user[i] # 0
  /\ pw[user[i]] < MaxPw
  /\ pw' = [pw EXCEPT ![user[i]] = @ + 1]
  /\ session' = [s \in Sessions |-> IF s \in SessionsOf(i) THEN NoSession ELSE session[s]]
  /\ End(r)
  /\ UNCHANGED <<user, invite, limiter, cross, history>>

\* Fault: an account may delete itself.
DeleteUserOrSelf(r, i) ==
  /\ pc[r] = "authed"
  /\ user[i] # 0
  /\ user' = [user EXCEPT ![i] = 0]
  /\ session' = [s \in Sessions |-> IF s \in SessionsOf(i) THEN NoSession ELSE session[s]]
  /\ crossed' = (crossed \/ user[carries[r].uid] # carries[r].acct)
  /\ End(r)
  /\ UNCHANGED <<pw, invite, limiter, cross,
                 accounts, invited, made, withdrawn, minted>>

\* Fault: the sessions of the deleted user stay.
DeleteUserNoCascade(r, i) ==
  /\ pc[r] = "authed"
  /\ user[i] # 0
  /\ i # carries[r].uid
  /\ user' = [user EXCEPT ![i] = 0]
  /\ crossed' = (crossed \/ user[carries[r].uid] # carries[r].acct)
  /\ End(r)
  /\ UNCHANGED <<pw, session, invite, limiter, cross,
                 accounts, invited, made, withdrawn, minted>>

\* deleteUser: not oneself, by the id the middleware saw; sessions cascade.
DeleteUser(r, i) ==
  /\ pc[r] = "authed"
  /\ user[i] # 0
  /\ i # carries[r].uid
  /\ user' = [user EXCEPT ![i] = 0]
  /\ session' = [s \in Sessions |-> IF s \in SessionsOf(i) THEN NoSession ELSE session[s]]
  /\ crossed' = (crossed \/ user[carries[r].uid] # carries[r].acct)
  /\ End(r)
  /\ UNCHANGED <<pw, invite, limiter, cross,
                 accounts, invited, made, withdrawn, minted>>

-----------------------------------------------------------------------------
(* From one domain to the other *)

\* postResolve: a token for the id the middleware saw.
Resolve(r) ==
  /\ pc[r] = "authed"
  /\ \E t \in CrossTokens :
       /\ cross[t] = Unissued
       /\ cross' = [cross EXCEPT ![t] =
            [state |-> "issued", uid |-> carries[r].uid,
             acct |-> carries[r].acct, proof |-> carries[r].proof]]
  /\ End(r)
  /\ UNCHANGED <<tables, limiter, history>>

\* crossAuthTokenTTL is over: the next redemption sweeps it, or refuses it.
CrossTokenExpires(t) ==
  /\ cross[t] \in Issued
  /\ cross' = [cross EXCEPT ![t] = Spent]
  /\ UNCHANGED <<tables, limiter, reqs, history>>

\* redeemCrossAuthToken: spent whatever comes of it.
RedeemCrossAuthToken(r, t) ==
  /\ pc[r] = "idle"
  /\ cross[t] \in Issued
  /\ cross' = [cross EXCEPT ![t] = Spent]
  /\ Begin(r, "redeemed", [what |-> "mint", uid |-> cross[t].uid,
                           acct |-> cross[t].acct, proof |-> cross[t].proof,
                           token |-> t])
  /\ UNCHANGED <<tables, limiter, history>>

\* getCrossAuth's transaction: a session for the id in the token.  Nothing
\* looks at the password the token goes back to.
CrossAuth(r) ==
  /\ pc[r] = "redeemed"
  /\ CreateSession(carries[r].uid, carries[r].acct, carries[r].proof, "token")
  /\ minted' = [minted EXCEPT ![carries[r].token] = @ + 1]
  /\ End(r)
  /\ UNCHANGED <<user, pw, invite, limiter, cross,
                 accounts, invited, made, withdrawn, crossed>>

\* The user is gone, or the transaction fails: the token is spent for nothing.
CrossAuthFails(r) ==
  /\ pc[r] = "redeemed"
  /\ End(r)
  /\ UNCHANGED <<tables, limiter, cross, history>>

\* A new process: requests, limiter and cross-domain tokens are gone.
Restart ==
  /\ bucket' = [k \in Clients |-> 0]
  /\ elapsed' = {}
  /\ cross' = [t \in CrossTokens |-> IF cross[t] \in Issued THEN Spent ELSE cross[t]]
  /\ pc' = [r \in Requests |-> "idle"]
  /\ carries' = [r \in Requests |-> Nothing]
  /\ UNCHANGED <<tables, history>>

-----------------------------------------------------------------------------
(* Specification *)

\* The wizard has made the first account; nobody is logged in.
Init ==
  /\ user = [i \in Ids |-> IF i = 1 THEN 1 ELSE 0]
  /\ pw = [a \in Accounts |-> 0]
  /\ session = [s \in Sessions |-> NoSession]
  /\ invite = [j \in Ids |-> 0]
  /\ bucket = [k \in Clients |-> 0]
  /\ elapsed = {}
  /\ cross = [t \in CrossTokens |-> Unissued]
  /\ pc = [r \in Requests |-> "idle"]
  /\ carries = [r \in Requests |-> Nothing]
  /\ accounts = 1
  /\ invited = 0
  /\ made = [n \in Invitations |-> 0]
  /\ withdrawn = {}
  /\ minted = [t \in CrossTokens |-> 0]
  /\ crossed = FALSE

Request(r) ==
  \/ \E k \in Clients : LookAtLimit(r, k)
  \/ LoginWrong(r) \/ LoginGivesUp(r)
  \/ \E s \in Sessions : Authenticate(r, s)
  \/ ReturnEarly(r) \/ InviteUser(r) \/ Resolve(r)
  \/ \E i \in Ids :
       LoginRight(r, i) \/ DeleteInvite(r, i) \/ EditUser(r, i) \/ DeleteUser(r, i)
  \/ \E t \in CrossTokens : RedeemCrossAuthToken(r, t)
  \/ CrossAuth(r) \/ CrossAuthFails(r)

Next ==
  \/ \E r \in Requests : Request(r)
  \/ \E n \in Invitations : AcceptInvitation(n)
  \/ \E s \in Sessions : Logout(s) \/ SessionExpires(s)
  \/ \E j \in Ids : InvitationExpires(j)
  \/ \E k \in Clients : WindowElapses(k)
  \/ \E t \in CrossTokens : CrossTokenExpires(t)
  \/ Restart

Spec == Init /\ [][Next]_vars

-----------------------------------------------------------------------------
(* Properties *)

TablesOK ==
  /\ user \in [Ids -> 0..MaxAcct]
  /\ pw \in [Accounts -> 0..MaxPw]
  /\ session \in [Sessions -> Row \cup {NoSession}]
  /\ invite \in [Ids -> 0..MaxInv]

LimiterOK ==
  /\ bucket \in [Clients -> Nat]
  /\ elapsed \subseteq {k \in Clients : bucket[k] # 0}

RequestsOK ==
  /\ cross \in [CrossTokens -> Issued \cup {Unissued, Spent}]
  /\ pc \in [Requests -> {"idle", "login", "authed", "redeemed"}]
  /\ carries \in [Requests -> {Nothing} \cup Client \cup Actor \cup Mint]
  /\ \A r \in Requests :
       /\ pc[r] = "login" => carries[r] \in Client
       /\ pc[r] = "authed" => carries[r] \in Actor
       /\ pc[r] = "redeemed" => carries[r] \in Mint

HistoryOK ==
  /\ accounts \in Accounts
  /\ invited \in 0..MaxInv
  /\ made \in [Invitations -> Nat]
  /\ withdrawn \subseteq Invitations
  /\ minted \in [CrossTokens -> Nat]

\* Type correctness; what a request carries is what its place wants.
TypeOK == TablesOK /\ LimiterOK /\ RequestsOK /\ HistoryOK /\ crossed \in BOOLEAN

\* The limit is looked at before the password is compared and counted after,
\* so requests at work together may exceed it, but by no more than they are.
FailuresBounded ==
  \A k \in Clients : bucket[k] <= Limit - 1 + Cardinality(Requests)

\* A session opens the account of whoever was let in, whatever rowids are
\* used again; except one made from a cross-domain token whose account was
\* deleted meanwhile.
SessionOpensOwnAccount ==
  \A s \in Sessions : session[s] # NoSession =>
    /\ user[session[s].uid] # 0
    /\ \/ user[session[s].uid] = session[s].acct
       \/ session[s].via = "token" /\ session[s].acct \notin Living

\* A new password ends every session of its account, the ones a login or a
\* token is making at that moment included: none of those left was made under
\* an older password.  And whoever is let in has entered the present password,
\* but for a session that was made after the change from a cross-domain token
\* which goes back to a session from before it.
PasswordChangeEndsSessions ==
  \A s \in Sessions : session[s] # NoSession =>
    /\ session[s].pw = pw[session[s].acct]
    /\ session[s].proof = pw[session[s].acct] \/ session[s].via = "token"

\* However often an invitation is sent in, it makes one account, and none
\* once an administrator has withdrawn it.
InvitationUsedOnce ==
  \A n \in Invitations : made[n] <= 1 /\ (n \in withdrawn => made[n] = 0)

\* A cross-domain token makes one session at most.
TokenUsedOnce == \A t \in CrossTokens : minted[t] <= 1

\* What is meant to be used once is, whoever sends it in at the same time.
UsedOnce == InvitationUsedOnce /\ TokenUsedOnce

\* An account is left, unless one deleted another after being deleted itself.
SomebodyRemains == crossed \/ Living # {}

-----------------------------------------------------------------------------
(* A property one would expect and the code does not have *)

\* Whoever is let in has entered the present password.
OldPasswordLetsNobodyIn ==
  \A s \in Sessions :
    session[s] # NoSession => session[s].proof = pw[session[s].acct]

===============================================================================
