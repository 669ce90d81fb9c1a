------------------------------ MODULE AuthProofs ------------------------------
(***************************************************************************)
(* Proofs about module Auth, for any number of requests, clients, sessions *)
(* and tokens and any of the bounds.                                       *)
(*                                                                         *)
(* Rowids are used again, so what a session, a request or a cross-domain   *)
(* token remembers is an id that may have passed to another account.  The  *)
(* invariant says how far an id can still be trusted: the account it was   *)
(* remembered for is under no other id.  With every account under one id   *)
(* only, that carries the sessions through new passwords and deletions.    *)
(* The limiter is bounded because a request that passed it is counted      *)
(* until its failure is.                                                   *)
(***************************************************************************)
EXTENDS Auth, FiniteSetTheorems, TLAPS

-----------------------------------------------------------------------------
(* The inductive invariant *)

\* An account is under one id, and one that was not made yet under none.
OneIdEach ==
  /\ \A i, j \in Ids : user[i] # 0 /\ user[i] = user[j] => i = j
  /\ \A i \in Ids : user[i] <= accounts
  /\ \A a \in Accounts : a > accounts => pw[a] = 0

\* Nobody but id uid has the account.
Own(uid, acct) ==
  /\ acct <= accounts
  /\ \A i \in Ids : user[i] = acct => i = uid

OwnSessions ==
  \A s \in Sessions : session[s] # NoSession =>
    /\ Own(session[s].uid, session[s].acct)
    /\ user[session[s].uid] # 0
    /\ session[s].via # "token" => user[session[s].uid] = session[s].acct

OwnRequests ==
  \A r \in Requests :
    pc[r] \in {"authed", "redeemed"} => Own(carries[r].uid, carries[r].acct)

OwnTokens ==
  \A t \in CrossTokens : cross[t] \in Issued => Own(cross[t].uid, cross[t].acct)

Identities == OneIdEach /\ OwnSessions /\ OwnRequests /\ OwnTokens

\* Each failure that is still to come is from a request past the limiter.
InLogin(k) == {r \in Requests : pc[r] = "login" /\ carries[r].key = k}

Counted ==
  \A k \in Clients : bucket[k] + Cardinality(InLogin(k)) <= Limit - 1 + Cardinality(Requests)

\* An invitation that can be accepted has made nothing and is not withdrawn.
InvitationInv ==
  /\ \A i, j \in Ids : invite[i] # 0 /\ invite[i] = invite[j] => i = j
  /\ \A j \in Ids : invite[j] # 0 =>
       invite[j] <= invited /\ made[invite[j]] = 0 /\ invite[j] \notin withdrawn
  /\ \A n \in Invitations : n > invited => made[n] = 0 /\ n \notin withdrawn
  /\ InvitationUsedOnce

\* A token is with one request at most, and has made nothing until then.
TokenInv ==
  /\ \A t \in CrossTokens : cross[t] # Spent => minted[t] = 0
  /\ \A r \in Requests : pc[r] = "redeemed" =>
       cross[carries[r].token] = Spent /\ minted[carries[r].token] = 0
  /\ \A q, r \in Requests :
       pc[q] = "redeemed" /\ pc[r] = "redeemed" /\ carries[q].token = carries[r].token => q = r
  /\ TokenUsedOnce

IInv ==
  /\ TypeOK /\ Identities /\ PasswordChangeEndsSessions
  /\ Counted /\ InvitationInv /\ TokenInv /\ SomebodyRemains

-----------------------------------------------------------------------------
(* Types *)

LEMMA AccountOf ==
  ASSUME TablesOK, NEW i \in Ids, user[i] # 0
  PROVE  user[i] \in Accounts
BY BoundsAssumption DEF TablesOK, Accounts

LEMMA InvitationOf ==
  ASSUME TablesOK, NEW j \in Ids, invite[j] # 0
  PROVE  invite[j] \in Invitations
BY BoundsAssumption DEF TablesOK, Invitations

LEMMA SessionTypes ==
  ASSUME TablesOK, NEW s \in Sessions, session[s] # NoSession
  PROVE  /\ session[s] \in Row
         /\ session[s].uid \in Ids
         /\ session[s].acct \in Accounts
<1>1. session[s] \in Row
  BY DEF TablesOK
<1>2. QED
  BY <1>1 DEF Row

LEMMA CreateSessionTypes ==
  ASSUME TablesOK, NEW i \in Ids, NEW acct \in Accounts,
         NEW proof \in 0..MaxPw, NEW via \in {"login", "invitation", "token"},
         CreateSession(i, acct, proof, via)
  PROVE  session' \in [Sessions -> Row \cup {NoSession}]
<1>1. pw[acct] \in 0..MaxPw
  BY DEF TablesOK
<1>2. [uid |-> i, acct |-> acct, pw |-> pw[acct], proof |-> proof, via |-> via] \in Row
  BY <1>1 DEF Row
<1> HIDE DEF Row, NoSession
<1>3. QED
  BY <1>2 DEF CreateSession, TablesOK

LEMMA TablesStep ==
  ASSUME TypeOK, [Next]_vars
  PROVE  TablesOK'
<1> USE DEF TypeOK
<1>1. CASE UNCHANGED tables
  BY <1>1 DEF tables, TablesOK
<1>2. ASSUME NEW r \in Requests, Request(r)
      PROVE  TablesOK'
  <2>1. ASSUME NEW i \in Ids, LoginRight(r, i)
        PROVE  TablesOK'
    <3>1. CreateSession(i, user[i], pw[user[i]], "login") \/ UNCHANGED session
      BY <2>1 DEF LoginRight
    <3>2. user[i] \in Accounts
      BY <2>1, AccountOf DEF LoginRight
    <3>3. session' \in [Sessions -> Row \cup {NoSession}]
      <4>1. pw[user[i]] \in 0..MaxPw
        BY <3>2 DEF TablesOK
      <4>2. CASE CreateSession(i, user[i], pw[user[i]], "login")
        BY <3>2, <4>1, <4>2, CreateSessionTypes
      <4>3. QED
        BY <3>1, <4>2 DEF TablesOK
    <3>4. QED
      BY <2>1, <3>3 DEF LoginRight, TablesOK
  <2>2. ASSUME NEW i \in Ids, DeleteInvite(r, i)
        PROVE  TablesOK'
    BY <2>2, BoundsAssumption DEF DeleteInvite, TablesOK
  <2>3. ASSUME NEW i \in Ids, EditUser(r, i)
        PROVE  TablesOK'
    <3>1. user[i] \in Accounts
      BY <2>3, AccountOf DEF EditUser
    <3>2. pw' \in [Accounts -> 0..MaxPw]
      BY <2>3, <3>1, BoundsAssumption DEF EditUser, TablesOK
    <3>3. session' \in [Sessions -> Row \cup {NoSession}]
      BY <2>3 DEF EditUser, TablesOK
    <3>4. QED
      BY <2>3, <3>2, <3>3 DEF EditUser, TablesOK
  <2>4. ASSUME NEW i \in Ids, DeleteUser(r, i)
        PROVE  TablesOK'
    <3>1. user' \in [Ids -> 0..MaxAcct]
      BY <2>4, BoundsAssumption DEF DeleteUser, TablesOK
    <3>2. session' \in [Sessions -> Row \cup {NoSession}]
      BY <2>4 DEF DeleteUser, TablesOK
    <3>3. QED
      BY <2>4, <3>1, <3>2 DEF DeleteUser, TablesOK
  <2>5. CASE InviteUser(r)
    <3>1. invite' \in [Ids -> 0..MaxInv]
      BY <2>5, BoundsAssumption DEF InviteUser, TablesOK, HistoryOK
    <3>2. QED
      BY <2>5, <3>1 DEF InviteUser, TablesOK
  <2>6. CASE CrossAuth(r)
    <3>1. /\ carries[r].uid \in Ids /\ carries[r].acct \in Accounts
          /\ carries[r].proof \in 0..MaxPw
      BY <2>6 DEF CrossAuth, RequestsOK, Mint
    <3>2. session' \in [Sessions -> Row \cup {NoSession}]
      BY <2>6, <3>1, CreateSessionTypes DEF CrossAuth
    <3>3. QED
      BY <2>6, <3>2 DEF CrossAuth, TablesOK
  <2>7. QED
    BY <1>1, <1>2, <2>1, <2>2, <2>3, <2>4, <2>5, <2>6
       DEF Request, LookAtLimit, LoginWrong, LoginGivesUp, Authenticate, ReturnEarly, Resolve,
           RedeemCrossAuthToken, CrossAuthFails
<1>3. ASSUME NEW n \in Invitations, AcceptInvitation(n)
      PROVE  TablesOK'
  <2>1. PICK j \in Ids, i \in Ids :
          /\ accounts < MaxAcct
          /\ invite' = [invite EXCEPT ![j] = 0]
          /\ user' = [user EXCEPT ![i] = accounts + 1]
          /\ \E s \in Sessions : session' = [session EXCEPT ![s] =
               [uid |-> i, acct |-> accounts + 1, pw |-> 0, proof |-> 0, via |-> "invitation"]]
          /\ UNCHANGED pw
    BY <1>3 DEF AcceptInvitation
  <2>2. accounts + 1 \in Accounts /\ accounts + 1 \in 0..MaxAcct
    BY <2>1, BoundsAssumption DEF HistoryOK, Accounts
  <2>3. user' \in [Ids -> 0..MaxAcct]
    BY <2>1, <2>2 DEF TablesOK
  <2>4. invite' \in [Ids -> 0..MaxInv]
    BY <2>1, BoundsAssumption DEF TablesOK
  <2>5. [uid |-> i, acct |-> accounts + 1, pw |-> 0, proof |-> 0, via |-> "invitation"] \in Row
    BY <2>2, BoundsAssumption DEF Row
  <2>6. session' \in [Sessions -> Row \cup {NoSession}]
    BY <2>1, <2>5 DEF TablesOK
  <2>7. QED
    BY <2>1, <2>3, <2>4, <2>6 DEF TablesOK
<1>4. ASSUME NEW s \in Sessions, Logout(s) \/ SessionExpires(s)
      PROVE  TablesOK'
  BY <1>4 DEF Logout, SessionExpires, TablesOK
<1>5. ASSUME NEW j \in Ids, InvitationExpires(j)
      PROVE  TablesOK'
  BY <1>5, BoundsAssumption DEF InvitationExpires, TablesOK
<1>6. QED
  BY <1>1, <1>2, <1>3, <1>4, <1>5 DEF Next, WindowElapses, CrossTokenExpires, Restart, vars

LEMMA LimiterStep ==
  ASSUME LimiterOK, RequestsOK, [Next]_vars
  PROVE  LimiterOK'
<1> USE DEF LimiterOK
<1>1. CASE UNCHANGED limiter
  BY <1>1 DEF limiter
<1>2. ASSUME NEW r \in Requests, NEW k \in Clients, LookAtLimit(r, k)
      PROVE  LimiterOK'
  BY <1>2 DEF LookAtLimit
<1>3. ASSUME NEW r \in Requests, LoginWrong(r)
      PROVE  LimiterOK'
  BY <1>3 DEF LoginWrong, RecordLoginFailure, RequestsOK, Client
<1>4. ASSUME NEW r \in Requests, NEW i \in Ids, LoginRight(r, i)
      PROVE  LimiterOK'
  BY <1>4 DEF LoginRight, RequestsOK, Client
<1>5. ASSUME NEW k \in Clients, WindowElapses(k)
      PROVE  LimiterOK'
  BY <1>5 DEF WindowElapses
<1>6. CASE Restart
  BY <1>6 DEF Restart
<1>7. QED
  BY <1>1, <1>2, <1>3, <1>4, <1>5, <1>6
     DEF Next, Request, LoginGivesUp, Authenticate, ReturnEarly, InviteUser, Resolve,
         DeleteInvite, EditUser, DeleteUser, RedeemCrossAuthToken, CrossAuth, CrossAuthFails,
         AcceptInvitation, Logout, SessionExpires, InvitationExpires, CrossTokenExpires, vars

LEMMA RequestsStep ==
  ASSUME TypeOK, [Next]_vars
  PROVE  RequestsOK'
<1> USE DEF RequestsOK, Begin, End, Nothing, Client, Actor, Mint, Issued, Unissued, Spent
<1>1. CASE UNCHANGED <<cross, reqs>>
  BY <1>1 DEF TypeOK, reqs
<1>2. ASSUME NEW r \in Requests, Request(r)
      PROVE  RequestsOK'
  <2>1. ASSUME NEW k \in Clients, LookAtLimit(r, k)
        PROVE  RequestsOK'
    BY <2>1 DEF TypeOK, LookAtLimit, reqs
  <2>2. ASSUME NEW s \in Sessions, Authenticate(r, s)
        PROVE  RequestsOK'
    BY <2>2 DEF TypeOK, Authenticate, TablesOK, Row, NoSession
  <2>3. ASSUME NEW t \in CrossTokens, RedeemCrossAuthToken(r, t)
        PROVE  RequestsOK'
    BY <2>3 DEF TypeOK, RedeemCrossAuthToken
  <2>4. CASE Resolve(r)
    BY <2>4 DEF TypeOK, Resolve
  <2>5. CASE End(r) /\ UNCHANGED cross
    BY <2>5 DEF TypeOK
  <2>6. QED
    BY <1>2, <2>1, <2>2, <2>3, <2>4, <2>5
       DEF Request, LoginWrong, LoginGivesUp, ReturnEarly, InviteUser, LoginRight, DeleteInvite,
           EditUser, DeleteUser, CrossAuth, CrossAuthFails
<1>3. ASSUME NEW t \in CrossTokens, CrossTokenExpires(t)
      PROVE  RequestsOK'
  BY <1>3 DEF TypeOK, CrossTokenExpires, reqs
<1>4. CASE Restart
  BY <1>4 DEF TypeOK, Restart
<1>5. QED
  BY <1>1, <1>2, <1>3, <1>4
     DEF Next, AcceptInvitation, Logout, SessionExpires, InvitationExpires, WindowElapses, vars

LEMMA HistoryStep ==
  ASSUME TypeOK, [Next]_vars
  PROVE  HistoryOK'
<1> USE BoundsAssumption
    DEF TypeOK, HistoryOK, TablesOK, RequestsOK, Ids, Accounts, Invitations, Mint
<1>1. CASE UNCHANGED <<accounts, invited, made, withdrawn, minted>>
  BY <1>1
<1>2. ASSUME NEW n \in Invitations, AcceptInvitation(n)
      PROVE  HistoryOK'
  <2>1. /\ accounts < MaxAcct /\ accounts' = accounts + 1
        /\ made' = [made EXCEPT ![n] = @ + 1]
        /\ UNCHANGED <<invited, withdrawn, minted>>
    BY <1>2 DEF AcceptInvitation
  <2>2. accounts' \in Accounts
    BY <2>1
  <2>3. made' \in [Invitations -> Nat]
    <3>1. made \in [Invitations -> Nat]
      OBVIOUS
    <3> HIDE DEF TypeOK
    <3>2. QED
      BY <2>1, <3>1
  <2>4. QED
    BY <2>1, <2>2, <2>3
<1>3. ASSUME NEW r \in Requests, InviteUser(r)
      PROVE  HistoryOK'
  <2>1. /\ invited < MaxInv /\ invited' = invited + 1
        /\ UNCHANGED <<accounts, made, withdrawn, minted>>
    BY <1>3 DEF InviteUser
  <2>2. invited' \in 0..MaxInv
    BY <2>1
  <2>3. QED
    BY <2>1, <2>2
<1>4. ASSUME NEW r \in Requests, NEW j \in Ids, DeleteInvite(r, j)
      PROVE  HistoryOK'
  <2>1. withdrawn' = withdrawn \cup ({invite[j]} \ {0})
    BY <1>4 DEF DeleteInvite
  <2>2. withdrawn' \subseteq Invitations
    BY <2>1, InvitationOf
  <2>3. QED
    BY <1>4, <2>2 DEF DeleteInvite
<1>5. ASSUME NEW r \in Requests, CrossAuth(r)
      PROVE  HistoryOK'
  <2>1. /\ minted' = [minted EXCEPT ![carries[r].token] = @ + 1]
        /\ UNCHANGED <<accounts, invited, made, withdrawn>>
    BY <1>5 DEF CrossAuth
  <2>2. minted' \in [CrossTokens -> Nat]
    <3>1. \A t \in CrossTokens : minted[t] + 1 \in Nat
      OBVIOUS
    <3>2. minted \in [CrossTokens -> Nat]
      OBVIOUS
    <3> HIDE DEF TypeOK
    <3>3. QED
      BY <2>1, <3>1, <3>2
  <2>3. QED
    BY <2>1, <2>2
<1>6. QED
  BY <1>1, <1>2, <1>3, <1>4, <1>5
     DEF Next, Request, LookAtLimit, LoginWrong, LoginRight, LoginGivesUp, Authenticate,
         ReturnEarly, Resolve, EditUser, DeleteUser, RedeemCrossAuthToken, CrossAuthFails,
         Logout, SessionExpires, InvitationExpires, WindowElapses, CrossTokenExpires, Restart,
         history, vars

LEMMA TypeStep ==
  ASSUME TypeOK, [Next]_vars
  PROVE  TypeOK'
<1>1. crossed' \in BOOLEAN
  <2>1. CASE crossed' = crossed
    BY <2>1 DEF TypeOK
  <2>2. ASSUME NEW r \in Requests, NEW i \in Ids, DeleteUser(r, i)
        PROVE  crossed' \in BOOLEAN
    BY <2>2, Zenon DEF DeleteUser
  <2>3. QED
    BY <2>1, <2>2
       DEF Next, Request, LookAtLimit, LoginWrong, LoginRight, LoginGivesUp, Authenticate,
           ReturnEarly, InviteUser, DeleteInvite, Resolve, EditUser, RedeemCrossAuthToken,
           CrossAuth, CrossAuthFails, AcceptInvitation, Logout, SessionExpires,
           InvitationExpires, WindowElapses, CrossTokenExpires, Restart, history, vars
<1>2. QED
  BY <1>1, TablesStep, LimiterStep, RequestsStep, HistoryStep DEF TypeOK

-----------------------------------------------------------------------------
(* Who changes accounts and sessions *)

\* What accepting an invitation does to accounts: a rowid without a row.
LEMMA AcceptFacts ==
  ASSUME TypeOK, NEW n \in Invitations, AcceptInvitation(n)
  PROVE  \E i \in Ids :
           /\ user[i] = 0
           /\ accounts' = accounts + 1 /\ accounts' \in Accounts
           /\ user' = [user EXCEPT ![i] = accounts + 1]
           /\ \E s \in Sessions : session' = [session EXCEPT ![s] =
                [uid |-> i, acct |-> accounts + 1, pw |-> 0, proof |-> 0, via |-> "invitation"]]
           /\ UNCHANGED <<pw, cross, reqs>>
<1>1. PICK i \in Ids :
        /\ NextRowid(user, i)
        /\ accounts < MaxAcct
        /\ accounts' = accounts + 1
        /\ user' = [user EXCEPT ![i] = accounts + 1]
        /\ \E s \in Sessions : session' = [session EXCEPT ![s] =
             [uid |-> i, acct |-> accounts + 1, pw |-> 0, proof |-> 0, via |-> "invitation"]]
        /\ UNCHANGED <<pw, cross, reqs>>
  BY DEF AcceptInvitation
<1>2. user[i] = 0
  BY <1>1 DEF NextRowid, Ids
<1>3. accounts' \in Accounts
  BY <1>1, BoundsAssumption DEF TypeOK, HistoryOK, Accounts
<1>4. QED
  BY <1>1, <1>2, <1>3

\* Only two steps change accounts.
LEMMA WhoChangesUsers ==
  ASSUME [Next]_vars
  PROVE  \/ UNCHANGED <<user, accounts>>
         \/ \E n \in Invitations : AcceptInvitation(n)
         \/ \E r \in Requests, i \in Ids : DeleteUser(r, i)
BY DEF Next, Request, LookAtLimit, LoginWrong, LoginRight, LoginGivesUp, Authenticate,
       ReturnEarly, InviteUser, DeleteInvite, Resolve, EditUser, RedeemCrossAuthToken,
       CrossAuth, CrossAuthFails, Logout, SessionExpires, InvitationExpires, WindowElapses,
       CrossTokenExpires, Restart, tables, history, vars

\* Three steps make sessions.
LEMMA WhoMakesSessions ==
  ASSUME TypeOK, [Next]_vars, NEW s \in Sessions, session'[s] # NoSession
  PROVE  \/ session'[s] = session[s]
         \/ \E i \in Ids :
              /\ user[i] # 0 /\ UNCHANGED <<user, pw, accounts>>
              /\ session'[s] = [uid |-> i, acct |-> user[i], pw |-> pw[user[i]],
                               proof |-> pw[user[i]],
                                via |-> "login"]
         \/ \E n \in Invitations, i \in Ids :
              /\ AcceptInvitation(n)
              /\ user' = [user EXCEPT ![i] = accounts + 1]
              /\ session'[s] = [uid |-> i, acct |-> accounts + 1, pw |-> 0, proof |-> 0,
                                via |-> "invitation"]
         \/ \E r \in Requests :
              /\ CrossAuth(r) /\ user[carries[r].uid] # 0
              /\ session'[s] = [uid |-> carries[r].uid, acct |-> carries[r].acct,
                                pw |-> pw[carries[r].acct], proof |-> carries[r].proof,
                            via |-> "token"]
<1> DEFINE Goal ==
      \/ session'[s] = session[s]
      \/ \E i \in Ids :
           /\ user[i] # 0 /\ UNCHANGED <<user, pw, accounts>>
           /\ session'[s] = [uid |-> i, acct |-> user[i], pw |-> pw[user[i]],
                               proof |-> pw[user[i]], via |-> "login"]
      \/ \E n \in Invitations, i \in Ids :
           /\ AcceptInvitation(n)
           /\ user' = [user EXCEPT ![i] = accounts + 1]
           /\ session'[s] = [uid |-> i, acct |-> accounts + 1, pw |-> 0, proof |-> 0, via |-> "invitation"]
      \/ \E r \in Requests :
           /\ CrossAuth(r) /\ user[carries[r].uid] # 0
           /\ session'[s] = [uid |-> carries[r].uid, acct |-> carries[r].acct,
                             pw |-> pw[carries[r].acct], proof |-> carries[r].proof,
                            via |-> "token"]
<1> session \in [Sessions -> Row \cup {NoSession}]
  BY DEF TypeOK, TablesOK
<1> HIDE DEF NoSession, Row
<1>1. CASE UNCHANGED session
  BY <1>1
<1>2. ASSUME NEW r \in Requests, NEW i \in Ids, LoginRight(r, i)
      PROVE  Goal
  <2>1. CASE UNCHANGED session
    BY <2>1
  <2>2. CASE CreateSession(i, user[i], pw[user[i]], "login")
    BY <1>2, <2>2 DEF LoginRight, CreateSession, history
  <2>3. QED
    BY <1>2, <2>1, <2>2 DEF LoginRight
<1>3. ASSUME NEW r \in Requests, CrossAuth(r)
      PROVE  Goal
  BY <1>3 DEF CrossAuth, CreateSession
<1>4. ASSUME NEW r \in Requests, NEW i \in Ids, EditUser(r, i) \/ DeleteUser(r, i)
      PROVE  Goal
  BY <1>4 DEF EditUser, DeleteUser
<1>5. ASSUME NEW n \in Invitations, AcceptInvitation(n)
      PROVE  Goal
  <2>1. PICK i \in Ids :
          /\ user' = [user EXCEPT ![i] = accounts + 1]
          /\ \E q \in Sessions : session' = [session EXCEPT ![q] =
               [uid |-> i, acct |-> accounts + 1, pw |-> 0, proof |-> 0, via |-> "invitation"]]
    BY <1>5, AcceptFacts
  <2>2. QED
    BY <1>5, <2>1
<1>6. ASSUME NEW q \in Sessions, Logout(q) \/ SessionExpires(q)
      PROVE  Goal
  BY <1>6 DEF Logout, SessionExpires
<1>7. Goal
  BY <1>1, <1>2, <1>3, <1>4, <1>5, <1>6
     DEF Next, Request, LookAtLimit, LoginWrong, LoginGivesUp, Authenticate, ReturnEarly,
         InviteUser, DeleteInvite, Resolve, RedeemCrossAuthToken, CrossAuthFails,
         InvitationExpires, WindowElapses, CrossTokenExpires, Restart, tables, vars
<1>8. QED
  BY <1>7

-----------------------------------------------------------------------------
(* An account is under one id *)

LEMMA OneIdStep ==
  ASSUME TypeOK, OneIdEach, [Next]_vars
  PROVE  OneIdEach'
<1> USE DEF OneIdEach
<1> accounts \in Nat /\ user \in [Ids -> Nat]
  BY BoundsAssumption DEF TypeOK, HistoryOK, TablesOK, Accounts
<1>1. (\A i, j \in Ids : user[i] # 0 /\ user[i] = user[j] => i = j)'
      /\ (\A i \in Ids : user[i] <= accounts)'
  <2>1. CASE UNCHANGED <<user, accounts>>
    BY <2>1
  <2>2. ASSUME NEW n \in Invitations, AcceptInvitation(n)
        PROVE  (\A i, j \in Ids : user[i] # 0 /\ user[i] = user[j] => i = j)'
               /\ (\A i \in Ids : user[i] <= accounts)'
    BY <2>2, AcceptFacts
  <2>3. ASSUME NEW r \in Requests, NEW i \in Ids, DeleteUser(r, i)
        PROVE  (\A k, j \in Ids : user[k] # 0 /\ user[k] = user[j] => k = j)'
               /\ (\A k \in Ids : user[k] <= accounts)'
    BY <2>3 DEF DeleteUser
  <2>4. QED
    BY <2>1, <2>2, <2>3, WhoChangesUsers
<1>2. (\A a \in Accounts : a > accounts => pw[a] = 0)'
  <2>1. CASE UNCHANGED <<pw, accounts>>
    BY <2>1
  <2>2. ASSUME NEW r \in Requests, NEW i \in Ids, EditUser(r, i)
        PROVE  (\A a \in Accounts : a > accounts => pw[a] = 0)'
    <3>1. UNCHANGED accounts /\ pw' = [pw EXCEPT ![user[i]] = @ + 1]
      BY <2>2 DEF EditUser, history
    <3>2. pw \in [Accounts -> 0..MaxPw]
      BY DEF TypeOK, TablesOK
    <3>3. QED
      BY <3>1, <3>2 DEF Accounts
  <2>3. ASSUME NEW n \in Invitations, AcceptInvitation(n)
        PROVE  (\A a \in Accounts : a > accounts => pw[a] = 0)'
    BY <2>3, AcceptFacts DEF Accounts
  <2>4. QED
    BY <2>1, <2>2, <2>3
       DEF Next, Request, LookAtLimit, LoginWrong, LoginRight, LoginGivesUp, Authenticate,
           ReturnEarly, InviteUser, DeleteInvite, Resolve, DeleteUser, RedeemCrossAuthToken,
           CrossAuth, CrossAuthFails, Logout, SessionExpires, InvitationExpires,
           WindowElapses, CrossTokenExpires, Restart, tables, history, vars
<1>3. QED
  BY <1>1, <1>2

\* Own after the step.
OwnLater(uid, acct) ==
  /\ acct <= accounts'
  /\ \A i \in Ids : user'[i] = acct => i = uid

\* What was remembered of an id stays true of it as far as Own goes.
LEMMA OwnKept ==
  ASSUME TypeOK, [Next]_vars, NEW uid, NEW acct \in Accounts, Own(uid, acct)
  PROVE  OwnLater(uid, acct)
<1> USE DEF Own, OwnLater
<1> accounts \in Nat /\ user \in [Ids -> Nat] /\ acct \in Nat \ {0}
  BY BoundsAssumption DEF TypeOK, HistoryOK, TablesOK, Accounts
<1>1. CASE UNCHANGED <<user, accounts>>
  BY <1>1
<1>2. ASSUME NEW n \in Invitations, AcceptInvitation(n)
      PROVE  OwnLater(uid, acct)
  BY <1>2, AcceptFacts
<1>3. ASSUME NEW r \in Requests, NEW i \in Ids, DeleteUser(r, i)
      PROVE  OwnLater(uid, acct)
  BY <1>3 DEF DeleteUser
<1>4. QED
  BY <1>1, <1>2, <1>3, WhoChangesUsers

-----------------------------------------------------------------------------
(* Sessions, requests and tokens remember whose they are *)

OwnSessionLater(row) ==
  /\ OwnLater(row.uid, row.acct)
  /\ user'[row.uid] # 0
  /\ row.via # "token" => user'[row.uid] = row.acct

LEMMA OwnSessionsStep ==
  ASSUME TypeOK, Identities, [Next]_vars
  PROVE  OwnSessions'
<1> SUFFICES ASSUME NEW s \in Sessions, session'[s] # NoSession
             PROVE  OwnSessionLater(session'[s])
  BY DEF OwnSessions, OwnSessionLater, OwnLater, Own, NoSession
<1> USE DEF Identities
<1> accounts \in Nat /\ user \in [Ids -> Nat]
  BY BoundsAssumption DEF TypeOK, HistoryOK, TablesOK, Accounts
<1>1. CASE session'[s] = session[s]
  <2> DEFINE row == session[s]
  <2>1. /\ row.uid \in Ids /\ row.acct \in Accounts
        /\ Own(row.uid, row.acct) /\ user[row.uid] # 0
        /\ row.via # "token" => user[row.uid] = row.acct
    BY <1>1, SessionTypes DEF OwnSessions, TypeOK
  <2>2. OwnLater(row.uid, row.acct)
    BY <1>1, <2>1, OwnKept
  <2>3. user'[row.uid] = user[row.uid]
    <3>1. ASSUME NEW n \in Invitations, AcceptInvitation(n)
          PROVE  user'[row.uid] = user[row.uid]
      BY <2>1, <3>1, AcceptFacts
    <3>2. ASSUME NEW r \in Requests, NEW i \in Ids, DeleteUser(r, i)
          PROVE  user'[row.uid] = user[row.uid]
      BY <1>1, <2>1, <3>2 DEF DeleteUser, SessionsOf
    <3>3. QED
      BY <3>1, <3>2, WhoChangesUsers
  <2>4. QED
    BY <1>1, <2>1, <2>2, <2>3 DEF OwnSessionLater, OwnLater, Own
<1>2. ASSUME NEW i \in Ids, user[i] # 0, UNCHANGED <<user, pw, accounts>>,
             session'[s] = [uid |-> i, acct |-> user[i], pw |-> pw[user[i]],
                               proof |-> pw[user[i]], via |-> "login"]
      PROVE  OwnSessionLater(session'[s])
  BY <1>2 DEF OwnSessionLater, OwnLater, Own, OneIdEach
<1>3. ASSUME NEW n \in Invitations, NEW i \in Ids, AcceptInvitation(n),
             user' = [user EXCEPT ![i] = accounts + 1],
             session'[s] = [uid |-> i, acct |-> accounts + 1, pw |-> 0, proof |-> 0, via |-> "invitation"]
      PROVE  OwnSessionLater(session'[s])
  <2>1. accounts' = accounts + 1
    BY <1>3, AcceptFacts
  <2>2. user'[i] = accounts + 1 /\ \A j \in Ids \ {i} : user'[j] <= accounts
    BY <1>3 DEF OneIdEach
  <2>3. OwnLater(i, accounts + 1)
    BY <2>1, <2>2 DEF OwnLater
  <2>4. QED
    BY <1>3, <2>2, <2>3 DEF OwnSessionLater
<1>4. ASSUME NEW r \in Requests, CrossAuth(r), user[carries[r].uid] # 0,
             session'[s] = [uid |-> carries[r].uid, acct |-> carries[r].acct,
                            pw |-> pw[carries[r].acct], proof |-> carries[r].proof,
                            via |-> "token"]
      PROVE  OwnSessionLater(session'[s])
  <2>1. Own(carries[r].uid, carries[r].acct)
    BY <1>4 DEF CrossAuth, OwnRequests
  <2>2. UNCHANGED <<user, accounts>>
    BY <1>4 DEF CrossAuth
  <2>3. QED
    BY <1>4, <2>1, <2>2 DEF OwnSessionLater, OwnLater, Own
<1>5. QED
  BY <1>1, <1>2, <1>3, <1>4, WhoMakesSessions

LEMMA OwnRequestsStep ==
  ASSUME TypeOK, Identities, [Next]_vars
  PROVE  OwnRequests'
<1> SUFFICES ASSUME NEW r \in Requests, pc'[r] \in {"authed", "redeemed"}
             PROVE  OwnLater(carries'[r].uid, carries'[r].acct)
  BY DEF OwnRequests, OwnLater, Own
<1> USE DEF Identities
<1> pc \in [Requests -> {"idle", "login", "authed", "redeemed"}] /\ DOMAIN carries = Requests
  BY DEF TypeOK, RequestsOK
\* It carries what it carried, or begins with what a session or a token held.
<1>1. CASE pc'[r] = pc[r] /\ carries'[r] = carries[r]
  <2>1. Own(carries[r].uid, carries[r].acct)
    BY <1>1 DEF OwnRequests
  <2>2. carries[r].acct \in Accounts
    BY <1>1 DEF TypeOK, RequestsOK, Actor, Mint
  <2>3. QED
    BY <1>1, <2>1, <2>2, OwnKept
<1>2. ASSUME NEW s \in Sessions, Authenticate(r, s)
      PROVE  OwnLater(carries'[r].uid, carries'[r].acct)
  <2>1. Own(session[s].uid, session[s].acct) /\ UNCHANGED <<user, accounts>>
    BY <1>2 DEF Authenticate, OwnSessions, tables, history
  <2>2. carries'[r].uid = session[s].uid /\ carries'[r].acct = session[s].acct
    BY <1>2 DEF Authenticate, Begin
  <2>3. QED
    BY <2>1, <2>2 DEF Own, OwnLater
<1>3. ASSUME NEW t \in CrossTokens, RedeemCrossAuthToken(r, t)
      PROVE  OwnLater(carries'[r].uid, carries'[r].acct)
  <2>1. Own(cross[t].uid, cross[t].acct) /\ UNCHANGED <<user, accounts>>
    BY <1>3 DEF RedeemCrossAuthToken, OwnTokens, tables, history
  <2>2. carries'[r].uid = cross[t].uid /\ carries'[r].acct = cross[t].acct
    BY <1>3 DEF RedeemCrossAuthToken, Begin
  <2>3. QED
    BY <2>1, <2>2 DEF Own, OwnLater
<1>4. ASSUME NEW q \in Requests, q # r, Request(q)
      PROVE  pc'[r] = pc[r] /\ carries'[r] = carries[r]
  BY <1>4
     DEF Request, LookAtLimit, LoginWrong, LoginRight, LoginGivesUp, Authenticate, ReturnEarly,
         InviteUser, DeleteInvite, Resolve, EditUser, DeleteUser, RedeemCrossAuthToken,
         CrossAuth, CrossAuthFails, Begin, End, reqs
<1>5. CASE Request(r)
  BY <1>1, <1>2, <1>3, <1>5
     DEF Request, LookAtLimit, LoginWrong, LoginRight, LoginGivesUp, ReturnEarly, InviteUser,
         DeleteInvite, Resolve, EditUser, DeleteUser, CrossAuth, CrossAuthFails, Begin, End,
         reqs
<1>6. CASE UNCHANGED reqs
  BY <1>1, <1>6 DEF reqs
<1>7. CASE Restart
  BY <1>7 DEF Restart
<1>8. QED
  BY <1>1, <1>4, <1>5, <1>6, <1>7, AcceptFacts
     DEF Next, Logout, SessionExpires, InvitationExpires, WindowElapses, CrossTokenExpires, vars

LEMMA OwnTokensStep ==
  ASSUME TypeOK, Identities, [Next]_vars
  PROVE  OwnTokens'
<1> SUFFICES ASSUME NEW t \in CrossTokens, cross'[t] \in Issued
             PROVE  OwnLater(cross'[t].uid, cross'[t].acct)
  BY DEF OwnTokens, OwnLater, Own, Issued
<1> USE DEF Identities
<1> cross \in [CrossTokens -> Issued \cup {Unissued, Spent}] /\ Spent \notin Issued
  BY DEF TypeOK, RequestsOK, Issued, Spent
<1>1. CASE cross'[t] = cross[t]
  <2>1. Own(cross[t].uid, cross[t].acct) /\ cross[t].acct \in Accounts
    BY <1>1 DEF OwnTokens, Issued
  <2>2. QED
    BY <1>1, <2>1, OwnKept
<1>2. ASSUME NEW r \in Requests, Resolve(r), cross'[t] # cross[t]
      PROVE  OwnLater(cross'[t].uid, cross'[t].acct)
  <2>1. Own(carries[r].uid, carries[r].acct) /\ UNCHANGED <<user, accounts>>
    BY <1>2 DEF Resolve, OwnRequests, tables, history
  <2>2. cross'[t].uid = carries[r].uid /\ cross'[t].acct = carries[r].acct
    BY <1>2 DEF Resolve
  <2>3. QED
    BY <2>1, <2>2 DEF Own, OwnLater
\* The other steps spend tokens or leave them.
<1>3. ASSUME NEW q \in CrossTokens, cross' = [cross EXCEPT ![q] = Spent]
      PROVE  cross'[t] = cross[t]
  BY <1>3
<1>4. ASSUME Restart
      PROVE  cross'[t] = cross[t]
  BY <1>4 DEF Restart
<1>5. CASE UNCHANGED cross
  BY <1>1, <1>5
<1>6. QED
  BY <1>1, <1>2, <1>3, <1>4, <1>5, AcceptFacts
     DEF Next, Request, LookAtLimit, LoginWrong, LoginRight, LoginGivesUp, Authenticate,
         ReturnEarly, InviteUser, DeleteInvite, EditUser, DeleteUser, RedeemCrossAuthToken,
         CrossAuth, CrossAuthFails, Logout, SessionExpires, InvitationExpires, WindowElapses,
         CrossTokenExpires, vars

\* A session was made under the present password, and rests on it but for the
\* one exception.
MadeUnder(row, passwords) ==
  /\ row.pw = passwords[row.acct]
  /\ row.proof = passwords[row.acct] \/ row.via = "token"

LEMMA PasswordStep ==
  ASSUME TypeOK, Identities, PasswordChangeEndsSessions, [Next]_vars
  PROVE  PasswordChangeEndsSessions'
<1> SUFFICES ASSUME NEW s \in Sessions, session'[s] # NoSession
             PROVE  MadeUnder(session'[s], pw')
  BY DEF PasswordChangeEndsSessions, MadeUnder, NoSession
<1> USE DEF Identities
<1>1. CASE session'[s] = session[s]
  <2>1. MadeUnder(session[s], pw) /\ session[s].acct \in Accounts
    BY <1>1, SessionTypes DEF PasswordChangeEndsSessions, MadeUnder, TypeOK
  <2>2. CASE UNCHANGED pw
    BY <1>1, <2>1, <2>2
  \* Who has the account of a new password has the id whose sessions go.
  <2>3. ASSUME NEW r \in Requests, NEW i \in Ids, EditUser(r, i)
        PROVE  MadeUnder(session'[s], pw')
    <3>1. session'[s] # NoSession => session[s].uid # i
      BY <1>1, <2>3 DEF EditUser, SessionsOf
    <3>2. user[i] # session[s].acct
      BY <1>1, <2>3, <3>1 DEF OwnSessions, Own
    <3>3. pw'[session[s].acct] = pw[session[s].acct]
      BY <2>1, <2>3, <3>2 DEF EditUser, TypeOK, TablesOK
    <3>4. QED
      BY <1>1, <2>1, <3>3 DEF MadeUnder
  <2>4. QED
    BY <2>2, <2>3, AcceptFacts
       DEF Next, Request, LookAtLimit, LoginWrong, LoginRight, LoginGivesUp, Authenticate,
           ReturnEarly, InviteUser, DeleteInvite, Resolve, DeleteUser, RedeemCrossAuthToken,
           CrossAuth, CrossAuthFails, Logout, SessionExpires, InvitationExpires,
           WindowElapses, CrossTokenExpires, Restart, tables, vars
<1>2. ASSUME NEW i \in Ids, UNCHANGED pw,
             session'[s] = [uid |-> i, acct |-> user[i], pw |-> pw[user[i]],
                            proof |-> pw[user[i]], via |-> "login"]
      PROVE  MadeUnder(session'[s], pw')
  BY <1>2 DEF MadeUnder
<1>3. ASSUME NEW n \in Invitations, NEW i \in Ids, AcceptInvitation(n),
             session'[s] = [uid |-> i, acct |-> accounts + 1, pw |-> 0, proof |-> 0,
                            via |-> "invitation"]
      PROVE  MadeUnder(session'[s], pw')
  <2>1. accounts + 1 \in Accounts /\ accounts + 1 > accounts /\ UNCHANGED pw
    BY <1>3, AcceptFacts, BoundsAssumption DEF TypeOK, HistoryOK, Accounts
  <2>2. QED
    BY <1>3, <2>1 DEF OneIdEach, MadeUnder
\* A token's session is made under the present password, whatever it rests on.
<1>4. ASSUME NEW r \in Requests, CrossAuth(r),
             session'[s] = [uid |-> carries[r].uid, acct |-> carries[r].acct,
                            pw |-> pw[carries[r].acct], proof |-> carries[r].proof,
                            via |-> "token"]
      PROVE  MadeUnder(session'[s], pw')
  BY <1>4 DEF CrossAuth, MadeUnder
<1>5. QED
  BY <1>1, <1>2, <1>3, <1>4, WhoMakesSessions

-----------------------------------------------------------------------------
(* Failures *)

LEMMA InLoginTypes ==
  ASSUME NEW k
  PROVE  /\ IsFiniteSet(InLogin(k)) /\ Cardinality(InLogin(k)) \in Nat
         /\ Cardinality(Requests) \in Nat /\ Cardinality(InLogin(k)) <= Cardinality(Requests)
<1>1. InLogin(k) \subseteq Requests
  BY DEF InLogin
<1>2. QED
  BY <1>1, RequestsAssumption, FS_Subset, FS_CardinalityType

LEMMA InLoginTypesLater ==
  ASSUME NEW k
  PROVE  /\ Cardinality(InLogin(k)') \in Nat
         /\ Cardinality(InLogin(k)') <= Cardinality(Requests)
<1>1. InLogin(k)' \subseteq Requests
  BY DEF InLogin
<1>2. QED
  BY <1>1, RequestsAssumption, FS_Subset, FS_CardinalityType

\* Of one client: as many failures, or fewer, and nobody new at work.
LEMMA CountedFewer ==
  ASSUME TypeOK, TypeOK', Counted, NEW k \in Clients,
         bucket'[k] <= bucket[k], InLogin(k)' \subseteq InLogin(k)
  PROVE  bucket'[k] + Cardinality(InLogin(k)') <= Limit - 1 + Cardinality(Requests)
<1>1. Cardinality(InLogin(k)') <= Cardinality(InLogin(k))
  BY InLoginTypes, FS_Subset
<1>2. bucket[k] \in Nat /\ bucket'[k] \in Nat /\ Limit \in Nat
  BY BoundsAssumption DEF TypeOK, LimiterOK
<1>3. bucket[k] + Cardinality(InLogin(k)) <= Limit - 1 + Cardinality(Requests)
  BY DEF Counted
<1>4. QED
  BY <1>1, <1>2, <1>3, InLoginTypes, InLoginTypesLater

LEMMA CountedStep ==
  ASSUME TypeOK, TypeOK', Counted, [Next]_vars
  PROVE  Counted'
<1> SUFFICES ASSUME NEW k \in Clients
             PROVE  bucket'[k] + Cardinality(InLogin(k)') <= Limit - 1 + Cardinality(Requests)
  BY DEF Counted
<1> bucket \in [Clients -> Nat] /\ bucket'[k] \in Nat /\ Limit \in Nat \ {0}
  BY BoundsAssumption DEF TypeOK, LimiterOK
<1> pc \in [Requests -> {"idle", "login", "authed", "redeemed"}] /\ DOMAIN carries = Requests
  BY DEF TypeOK, RequestsOK
\* The limiter lets a request in while there are fewer failures than the limit.
<1>1. ASSUME NEW r \in Requests, NEW c \in Clients, LookAtLimit(r, c)
      PROVE  bucket'[k] + Cardinality(InLogin(k)') <= Limit - 1 + Cardinality(Requests)
  <2> DEFINE swept == [d \in Clients |-> IF d \in elapsed THEN 0 ELSE bucket[d]]
  <2>1. bucket' = swept /\ pc[r] = "idle"
    BY <1>1 DEF LookAtLimit
  <2>2. bucket'[k] <= bucket[k]
    BY <2>1
  <2>3. CASE UNCHANGED reqs
    BY <2>2, <2>3, CountedFewer DEF InLogin, reqs
  <2>4. CASE swept[c] < Limit /\ Begin(r, "login", [what |-> "client", key |-> c])
    <3>1. CASE k = c
      <4>1. bucket'[k] <= Limit - 1
        BY <2>1, <2>4, <3>1
      <4>2. /\ Cardinality(InLogin(k)') \in Nat /\ Cardinality(Requests) \in Nat
            /\ Cardinality(InLogin(k)') <= Cardinality(Requests)
        BY InLoginTypes, InLoginTypesLater
      <4>3. QED
        BY <4>1, <4>2
    <3>2. CASE k # c
      <4>1. InLogin(k)' \subseteq InLogin(k)
        BY <2>4, <3>2 DEF Begin, InLogin
      <4>2. QED
        BY <2>2, <4>1, CountedFewer
    <3>3. QED
      BY <3>1, <3>2
  <2>5. QED
    BY <1>1, <2>3, <2>4 DEF LookAtLimit
\* A failure is counted when the request that makes it is not any more.
<1>2. ASSUME NEW r \in Requests, LoginWrong(r)
      PROVE  bucket'[k] + Cardinality(InLogin(k)') <= Limit - 1 + Cardinality(Requests)
  <2>1. pc[r] = "login" /\ InLogin(k)' = InLogin(k) \ {r}
    BY <1>2 DEF LoginWrong, End, Nothing, InLogin
  <2>2. CASE k = carries[r].key
    <3>1. bucket'[k] <= bucket[k] + 1
      BY <1>2, <2>2 DEF LoginWrong, RecordLoginFailure
    <3>2. Cardinality(InLogin(k)') = Cardinality(InLogin(k)) - 1
      <4>1. r \in InLogin(k)
        BY <2>1, <2>2 DEF InLogin
      <4>2. Cardinality(InLogin(k) \ {r}) = Cardinality(InLogin(k)) - 1
        BY <4>1, InLoginTypes, FS_RemoveElement
      <4>3. QED
        BY <2>1, <4>2
    <3>3. bucket[k] + Cardinality(InLogin(k)) <= Limit - 1 + Cardinality(Requests)
      BY DEF Counted
    <3>4. QED
      BY <3>1, <3>2, <3>3, InLoginTypes
  <2>3. CASE k # carries[r].key
    <3>1. bucket'[k] = bucket[k]
      BY <1>2, <2>3 DEF LoginWrong, RecordLoginFailure
    <3>2. QED
      BY <2>1, <3>1, CountedFewer
  <2>4. QED
    BY <2>2, <2>3
<1>3. ASSUME NEW r \in Requests, NEW i \in Ids, LoginRight(r, i)
      PROVE  bucket'[k] + Cardinality(InLogin(k)') <= Limit - 1 + Cardinality(Requests)
  <2>1. bucket'[k] <= bucket[k] /\ InLogin(k)' \subseteq InLogin(k)
    BY <1>3 DEF LoginRight, End, InLogin
  <2>2. QED
    BY <2>1, CountedFewer
<1>4. CASE Restart
  <2>1. bucket'[k] <= bucket[k] /\ InLogin(k)' \subseteq InLogin(k)
    BY <1>4 DEF Restart, InLogin
  <2>2. QED
    BY <2>1, CountedFewer
<1>5. ASSUME NEW r \in Requests, UNCHANGED bucket,
             \/ End(r)
             \/ \E where \in {"authed", "redeemed"} : \E what : Begin(r, where, what)
      PROVE  bucket'[k] + Cardinality(InLogin(k)') <= Limit - 1 + Cardinality(Requests)
  <2>1. InLogin(k)' \subseteq InLogin(k)
    BY <1>5 DEF End, Begin, InLogin
  <2>2. QED
    BY <1>5, <2>1, CountedFewer
<1>6. CASE UNCHANGED <<bucket, reqs>>
  BY <1>6, CountedFewer DEF InLogin, reqs
<1>7. ASSUME NEW r \in Requests, Request(r)
      PROVE  bucket'[k] + Cardinality(InLogin(k)') <= Limit - 1 + Cardinality(Requests)
  BY <1>1, <1>2, <1>3, <1>5, <1>7
     DEF Request, LoginGivesUp, Authenticate, ReturnEarly, InviteUser, Resolve, DeleteInvite,
         EditUser, DeleteUser, RedeemCrossAuthToken, CrossAuth, CrossAuthFails, limiter
<1>8. QED
  BY <1>4, <1>6, <1>7
     DEF Next, AcceptInvitation, Logout, SessionExpires, InvitationExpires, WindowElapses,
         CrossTokenExpires, limiter, vars

-----------------------------------------------------------------------------
(* What is used once *)

LEMMA InvitationStep ==
  ASSUME TypeOK, InvitationInv, [Next]_vars
  PROVE  InvitationInv'
<1> USE DEF InvitationInv, InvitationUsedOnce
<1> /\ invite \in [Ids -> Nat] /\ made \in [Invitations -> Nat] /\ invited \in Nat
  BY BoundsAssumption DEF TypeOK, TablesOK, HistoryOK
<1> \A n \in Invitations : n \in Nat \ {0}
  BY DEF Invitations
<1>1. CASE UNCHANGED <<invite, invited, made, withdrawn>>
  BY <1>1
<1>2. ASSUME NEW n \in Invitations, AcceptInvitation(n)
      PROVE  InvitationInv'
  <2>1. PICK j \in Ids : /\ invite[j] = n
                        /\ invite' = [invite EXCEPT ![j] = 0]
                        /\ made' = [made EXCEPT ![n] = @ + 1]
                        /\ UNCHANGED <<invited, withdrawn>>
    BY <1>2 DEF AcceptInvitation
  <2>2. QED
    BY <2>1
<1>3. ASSUME NEW r \in Requests, InviteUser(r)
      PROVE  InvitationInv'
  <2>1. PICK j \in Ids : invite' = [invite EXCEPT ![j] = invited + 1]
    BY <1>3 DEF InviteUser
  <2>2. /\ invited + 1 \in Invitations /\ invited' = invited + 1
        /\ UNCHANGED <<made, withdrawn>>
    BY <1>3, BoundsAssumption DEF InviteUser, Invitations
  <2>3. QED
    BY <2>1, <2>2
<1>4. ASSUME NEW r \in Requests, NEW j \in Ids, DeleteInvite(r, j)
      PROVE  InvitationInv'
  BY <1>4 DEF DeleteInvite
<1>5. ASSUME NEW j \in Ids, InvitationExpires(j)
      PROVE  InvitationInv'
  BY <1>5 DEF InvitationExpires, history
<1>6. QED
  BY <1>1, <1>2, <1>3, <1>4, <1>5
     DEF Next, Request, LookAtLimit, LoginWrong, LoginRight, LoginGivesUp, Authenticate,
         ReturnEarly, Resolve, EditUser, DeleteUser, RedeemCrossAuthToken, CrossAuth,
         CrossAuthFails, Logout, SessionExpires, WindowElapses, CrossTokenExpires, Restart,
         tables, history, vars

LEMMA TokenStep ==
  ASSUME TypeOK, TokenInv, [Next]_vars
  PROVE  TokenInv'
<1> USE DEF TokenInv, TokenUsedOnce
<1> /\ cross \in [CrossTokens -> Issued \cup {Unissued, Spent}]
    /\ pc \in [Requests -> {"idle", "login", "authed", "redeemed"}]
    /\ DOMAIN carries = Requests /\ minted \in [CrossTokens -> Nat]
    /\ \A r \in Requests : pc[r] = "redeemed" => carries[r].token \in CrossTokens
  BY DEF TypeOK, RequestsOK, HistoryOK, Mint
<1> Spent \notin Issued /\ Spent # Unissued
  BY DEF Spent, Issued, Unissued
<1>1. CASE UNCHANGED <<cross, pc, carries, minted>>
  BY <1>1
<1>2. ASSUME NEW r \in Requests, Request(r)
      PROVE  TokenInv'
  <2>1. ASSUME NEW t \in CrossTokens, RedeemCrossAuthToken(r, t)
        PROVE  TokenInv'
    <3>1. cross[t] # Spent /\ minted[t] = 0 /\ pc[r] = "idle" /\ UNCHANGED minted
      BY <2>1 DEF RedeemCrossAuthToken, history
    <3>2. /\ cross' = [cross EXCEPT ![t] = Spent]
          /\ pc' = [pc EXCEPT ![r] = "redeemed"]
          /\ carries'[r].token = t
          /\ \A q \in Requests \ {r} : carries'[q] = carries[q]
      BY <2>1 DEF RedeemCrossAuthToken, Begin
    <3>3. QED
      BY <3>1, <3>2
  <2>2. CASE Resolve(r)
    <3>1. PICK t \in CrossTokens :
            /\ cross[t] = Unissued
            /\ cross' = [cross EXCEPT ![t] =
                 [state |-> "issued", uid |-> carries[r].uid,
                  acct |-> carries[r].acct, proof |-> carries[r].proof]]
      BY <2>2 DEF Resolve
    <3>2. UNCHANGED minted /\ pc[r] = "authed" /\ End(r)
      BY <2>2 DEF Resolve, history
    <3>3. QED
      BY <3>1, <3>2 DEF End
  <2>3. CASE CrossAuth(r)
    <3>1. /\ pc[r] = "redeemed" /\ minted' = [minted EXCEPT ![carries[r].token] = @ + 1]
          /\ End(r) /\ UNCHANGED cross
      BY <2>3 DEF CrossAuth
    <3>2. QED
      BY <3>1 DEF End
  \* The other steps of a request end it, or begin one that carries no token.
  <2>4. ASSUME UNCHANGED <<cross, minted>>,
               \/ End(r)
               \/ \E where \in {"login", "authed"} : \E what : Begin(r, where, what)
        PROVE  TokenInv'
    BY <2>4 DEF End, Begin
  <2>5. QED
    BY <1>1, <1>2, <2>1, <2>2, <2>3, <2>4
       DEF Request, LookAtLimit, LoginWrong, LoginRight, LoginGivesUp, Authenticate,
           ReturnEarly, InviteUser, DeleteInvite, EditUser, DeleteUser, CrossAuthFails, reqs,
           history
<1>3. ASSUME NEW t \in CrossTokens, CrossTokenExpires(t)
      PROVE  TokenInv'
  BY <1>3 DEF CrossTokenExpires, reqs, history
<1>4. CASE Restart
  BY <1>4 DEF Restart, history
<1>5. QED
  BY <1>1, <1>2, <1>3, <1>4
     DEF Next, AcceptInvitation, Logout, SessionExpires, InvitationExpires, WindowElapses, reqs,
         history, vars

-----------------------------------------------------------------------------
(* Somebody remains *)

LEMMA SomebodyStep ==
  ASSUME TypeOK, SomebodyRemains, [Next]_vars
  PROVE  SomebodyRemains'
<1>1. CASE UNCHANGED <<user, crossed>>
  BY <1>1 DEF SomebodyRemains, Living
<1>2. ASSUME NEW n \in Invitations, AcceptInvitation(n)
      PROVE  SomebodyRemains'
  <2>1. PICK i \in Ids : user' = [user EXCEPT ![i] = accounts + 1] /\ accounts + 1 # 0
    BY <1>2, AcceptFacts DEF Accounts
  <2>2. user'[i] # 0
    BY <2>1 DEF TypeOK, TablesOK
  <2>3. QED
    BY <2>2 DEF SomebodyRemains, Living
\* An account deletes another while it is under the id it came with itself.
<1>3. ASSUME NEW r \in Requests, NEW i \in Ids, DeleteUser(r, i)
      PROVE  SomebodyRemains'
  <2>1. carries[r].uid \in Ids /\ carries[r].acct \in Accounts
    BY <1>3 DEF DeleteUser, TypeOK, RequestsOK, Actor
  <2>2. CASE crossed'
    BY <2>2 DEF SomebodyRemains
  <2>3. CASE ~crossed'
    <3>1. user[carries[r].uid] = carries[r].acct
      BY <1>3, <2>3 DEF DeleteUser
    <3>2. user'[carries[r].uid] # 0
      BY <1>3, <2>1, <3>1 DEF DeleteUser, TypeOK, TablesOK, Accounts
    <3>3. QED
      BY <2>1, <3>2 DEF SomebodyRemains, Living
  <2>4. QED
    BY <2>2, <2>3
<1>4. QED
  BY <1>1, <1>2, <1>3
     DEF Next, Request, LookAtLimit, LoginWrong, LoginRight, LoginGivesUp, Authenticate,
         ReturnEarly, InviteUser, DeleteInvite, Resolve, EditUser, RedeemCrossAuthToken,
         CrossAuth, CrossAuthFails, Logout, SessionExpires, InvitationExpires, WindowElapses,
         CrossTokenExpires, Restart, tables, history, vars

-----------------------------------------------------------------------------
(* Theorems *)

LEMMA InitIInv == Init => IInv
<1> SUFFICES ASSUME Init PROVE IInv
  OBVIOUS
<1>1. TypeOK
  <2>1. TablesOK
    BY BoundsAssumption DEF Init, TablesOK, Ids, Accounts
  <2>2. LimiterOK /\ RequestsOK
    BY DEF Init, LimiterOK, RequestsOK
  <2>3. HistoryOK
    BY BoundsAssumption DEF Init, HistoryOK, Accounts
  <2>4. crossed \in BOOLEAN
    BY Zenon DEF Init
  <2>5. QED
    BY <2>1, <2>2, <2>3, <2>4 DEF TypeOK
<1>2. Identities
  <2>1. OneIdEach
    BY DEF Init, OneIdEach
  <2>2. OwnSessions /\ OwnRequests
    BY DEF Init, OwnSessions, OwnRequests
  <2>3. OwnTokens
    BY DEF Init, OwnTokens, Issued, Unissued
  <2>4. QED
    BY <2>1, <2>2, <2>3 DEF Identities
<1>3. PasswordChangeEndsSessions
  BY DEF Init, PasswordChangeEndsSessions
<1>4. Counted
  <2> SUFFICES ASSUME NEW k \in Clients
               PROVE  bucket[k] + Cardinality(InLogin(k)) <= Limit - 1 + Cardinality(Requests)
    BY DEF Counted
  <2>1. bucket[k] = 0
    BY DEF Init
  <2>2. QED
    BY <2>1, InLoginTypes, BoundsAssumption
<1>5. InvitationInv
  BY DEF Init, InvitationInv, InvitationUsedOnce
<1>6. TokenInv
  BY DEF Init, TokenInv, TokenUsedOnce
<1>7. SomebodyRemains
  <2>1. 1 \in Ids /\ user[1] = 1
    BY BoundsAssumption DEF Init, Ids
  <2>2. QED
    BY <2>1 DEF SomebodyRemains, Living
<1>8. QED
  BY <1>1, <1>2, <1>3, <1>4, <1>5, <1>6, <1>7 DEF IInv

\* The strengthening behind the theorems below: types, whose id it is that a
\* session, a request or a token remembers, which requests may still fail to
\* log in, and what an invitation or a token was used for.
THEOREM Inductive == Spec => []IInv
<1>1. ASSUME IInv, [Next]_vars
      PROVE  IInv'
  <2> USE DEF IInv
  <2>1. TypeOK'
    BY <1>1, TypeStep
  <2>2. Identities'
    BY <1>1, OneIdStep, OwnSessionsStep, OwnRequestsStep, OwnTokensStep DEF Identities
  <2>3. Counted'
    BY <1>1, <2>1, CountedStep
  <2>4. QED
    BY <1>1, <2>1, <2>2, <2>3, PasswordStep, InvitationStep, TokenStep, SomebodyStep
<1>2. QED
  BY InitIInv, <1>1, PTL DEF Spec

\* Every variable keeps its type, and a request carries what its place wants:
\* a client at the password comparison, the account of a session behind the
\* middleware, a redeemed token in getCrossAuth.
THEOREM TypeCorrect == Spec => []TypeOK
<1>1. IInv => TypeOK
  BY DEF IInv
<1>2. QED
  BY <1>1, Inductive, PTL

\* loginRateLimited looks before the comparison and recordLoginFailure counts
\* after it: the failures of a client within the window exceed the limit by
\* fewer than there are requests at work.
THEOREM FailuresStayBounded == Spec => []FailuresBounded
<1>1. IInv => FailuresBounded
  <2> SUFFICES ASSUME IInv, NEW k \in Clients
               PROVE  bucket[k] <= Limit - 1 + Cardinality(Requests)
    BY DEF FailuresBounded
  <2>1. bucket[k] + Cardinality(InLogin(k)) <= Limit - 1 + Cardinality(Requests)
    BY DEF IInv, Counted
  <2>2. bucket[k] \in Nat /\ Limit \in Nat
    BY BoundsAssumption DEF IInv, TypeOK, LimiterOK
  <2>3. QED
    BY <2>1, <2>2, InLoginTypes
<1>2. QED
  BY <1>1, Inductive, PTL

\* Although SQLite gives rowids again, a session opens the account it was made
\* for: deleteUser and the foreign key take the sessions along, and what the
\* middleware handed on before is refused or is of an id nobody else has.  The
\* exception is a cross-domain token that outlived its account.
THEOREM SessionsStayOwn == Spec => []SessionOpensOwnAccount
<1>1. IInv => SessionOpensOwnAccount
  <2> SUFFICES ASSUME IInv, NEW s \in Sessions, session[s] # NoSession
               PROVE  /\ user[session[s].uid] # 0
                      /\ \/ user[session[s].uid] = session[s].acct
                         \/ session[s].via = "token" /\ session[s].acct \notin Living
    BY DEF SessionOpensOwnAccount
  <2>1. /\ Own(session[s].uid, session[s].acct)
        /\ user[session[s].uid] # 0
        /\ session[s].via # "token" => user[session[s].uid] = session[s].acct
    BY DEF IInv, Identities, OwnSessions
  <2>2. session[s].acct \in Living => user[session[s].uid] = session[s].acct
    BY <2>1 DEF Own, Living
  <2>3. QED
    BY <2>1, <2>2
<1>2. QED
  BY <1>1, Inductive, PTL

\* When postEditUser has changed a password no session is left that was made
\* before, from a cross-domain token or not, although a login compares passwords
\* before it writes and the sessions are deleted by an id that may have had
\* another account.  Only a token can carry the old password past the change.
THEOREM OldSessionsEnd == Spec => []PasswordChangeEndsSessions
<1>1. IInv => PasswordChangeEndsSessions
  BY DEF IInv
<1>2. QED
  BY <1>1, Inductive, PTL

\* An invitation makes one account at most and none once it is withdrawn, and
\* a cross-domain token makes one session at most, however often and whenever
\* they are sent in: postInvitation validates and deletes in one transaction,
\* and redeemCrossAuthToken spends the token before it is used.
THEOREM OnceOnly == Spec => []UsedOnce
<1>1. IInv => UsedOnce
  BY DEF IInv, UsedOnce, InvitationInv, TokenInv
<1>2. QED
  BY <1>1, Inductive, PTL

\* deleteUser leaves an account, although it compares ids and not accounts,
\* unless one deleted another after it was deleted itself.
THEOREM SomebodyStays == Spec => []SomebodyRemains
<1>1. IInv => SomebodyRemains
  BY DEF IInv
<1>2. QED
  BY <1>1, Inductive, PTL

===============================================================================
