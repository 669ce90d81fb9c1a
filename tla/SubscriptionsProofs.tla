-------------------------- MODULE SubscriptionsProofs --------------------------
(***************************************************************************)
(* Proofs about Subscriptions, for any sets of addresses, links, requests  *)
(* and settings.                                                           *)
(*                                                                         *)
(* RequestsBound ties a request in flight to what its earlier steps found: *)
(* an address, a link, and the consent that the read transaction of a      *)
(* confirmation saw; that is what the write transaction, which looks at    *)
(* nothing again, relies on.                                               *)
(***************************************************************************)
EXTENDS Subscriptions, TLAPS

\* A request under way has the address and the link its next step uses; one
\* about to activate a subscription has the owner's consent.
RequestsBound ==
  \A r \in Requests :
    /\ pc[r] \in SyncSteps \cup {"lock", "insert", "mail", "unsuppress", "activate"}
         => email[r] \in Emails
    /\ pc[r] \in {"mail", "confirm", "unsuppress", "activate"} => link[r] \in Links
    /\ pc[r] \in {"unsuppress", "activate"} => email[r] \in consented

\* What counts as confirmed is not suppressed.
ConfirmedNotSuppressed == confirmed \cap suppressed = {}

IInv ==
  /\ TypeOK
  /\ LockHeldInSync
  /\ RequestsBound
  /\ OneRecentLink
  /\ SubscribedConsented
  /\ ConfirmedStaysActive
  /\ ConfirmedNotSuppressed

-----------------------------------------------------------------------------
(* Rows, and what a step leaves alone *)

\* A row is not the missing row, and stays a row when it ages or is confirmed.
LEMMA RowUpdate ==
  /\ NoRow \notin Rows
  /\ \A p \in Rows : [p EXCEPT !.confirmed = TRUE] \in Rows
  /\ \A p \in Rows, a \in {"recent", "valid", "expired"} : [p EXCEPT !.age = a] \in Rows
  /\ \A p \in Rows : p.email \in Emails
BY DEF Rows, NoRow

\* A step that leaves the subscriptions and the links alone.
LEMMA TablesKept ==
  ASSUME IInv, UNCHANGED <<sub, pending, suppressed, consented, confirmed, struck>>
  PROVE  /\ OneRecentLink' /\ SubscribedConsented'
         /\ ConfirmedStaysActive' /\ ConfirmedNotSuppressed'
BY
   DEF IInv, OneRecentLink, Made, SubscribedConsented, ConfirmedStaysActive,
       ConfirmedNotSuppressed

\* A step of no request.
LEMMA RequestsKept ==
  ASSUME IInv, UNCHANGED <<request, syncMu, consented>>
  PROVE  LockHeldInSync' /\ RequestsBound'
BY DEF IInv, LockHeldInSync, RequestsBound, request

LEMMA InitIInv == Init => IInv
<1> SUFFICES ASSUME Init PROVE IInv
  OBVIOUS
<1>1. TypeOK
  <2>1. pending \in [Links -> Rows \cup {NoRow}]
    BY DEF Init
  <2>2. pc \in [Requests -> Steps]
    BY DEF Init, Steps
  <2>3. /\ sub \in [Emails -> {"none", "active", "inactive"}]
        /\ email \in [Requests -> Emails \cup {"none"}]
        /\ link \in [Requests -> Links \cup {"none"}]
        /\ dump \in [Requests -> SUBSET Emails]
    BY DEF Init
  <2>4. QED
    BY <2>1, <2>2, <2>3, Zenon DEF Init, TypeOK
<1>2. LockHeldInSync /\ RequestsBound
  BY RequestsAssumption DEF Init, LockHeldInSync, RequestsBound, SyncSteps
<1>3. OneRecentLink
  BY DEF Init, OneRecentLink, Made
<1>4. QED
  BY <1>1, <1>2, <1>3
  DEF IInv, Init, SubscribedConsented, ConfirmedStaysActive, ConfirmedNotSuppressed

-----------------------------------------------------------------------------
(* The steps *)

\* Every step keeps the invariant.
LEMMA InvStep == IInv /\ [Next]_vars => IInv'
<1> SUFFICES ASSUME IInv, [Next]_vars PROVE IInv'
  OBVIOUS
<1>1. ASSUME NEW r \in Requests, NEW e \in Emails, Subscribe(r, e)
      PROVE  IInv'
  <2>1. TypeOK'
    BY <1>1 DEF IInv, TypeOK, Subscribe, tables, history, Steps, SyncSteps
  <2>2. LockHeldInSync' /\ RequestsBound'
    BY <1>1, RequestsAssumption
       DEF IInv, TypeOK, LockHeldInSync, RequestsBound, SyncSteps, Subscribe, history
  <2>3. OneRecentLink' /\ SubscribedConsented' /\ ConfirmedStaysActive' /\ ConfirmedNotSuppressed'
    BY <1>1, TablesKept DEF Subscribe, tables, history
  <2>4. QED
    BY <2>1, <2>2, <2>3 DEF IInv
<1>2. ASSUME NEW r \in Requests, LockSync(r)
      PROVE  IInv'
  <2>1. TypeOK'
    BY <1>2 DEF IInv, TypeOK, LockSync, Goto, tables, history, Steps, SyncSteps
  <2>2. LockHeldInSync' /\ RequestsBound'
    BY <1>2, RequestsAssumption
       DEF IInv, TypeOK, LockHeldInSync, RequestsBound, SyncSteps, LockSync, Goto, history
  <2>3. OneRecentLink' /\ SubscribedConsented' /\ ConfirmedStaysActive' /\ ConfirmedNotSuppressed'
    BY <1>2, TablesKept DEF LockSync, tables, history
  <2>4. QED
    BY <2>1, <2>2, <2>3 DEF IInv
<1>3. ASSUME NEW r \in Requests, SkipSync(r)
      PROVE  IInv'
  <2>1. TypeOK'
    BY <1>3 DEF IInv, TypeOK, SkipSync, Goto, tables, history, Steps, SyncSteps
  <2>2. LockHeldInSync' /\ RequestsBound'
    BY <1>3, RequestsAssumption
       DEF IInv, TypeOK, LockHeldInSync, RequestsBound, SyncSteps, SkipSync, Goto, history
  <2>3. OneRecentLink' /\ SubscribedConsented' /\ ConfirmedStaysActive' /\ ConfirmedNotSuppressed'
    BY <1>3, TablesKept DEF SkipSync, tables, history
  <2>4. QED
    BY <2>1, <2>2, <2>3 DEF IInv
<1>4. ASSUME NEW r \in Requests, StartSync(r)
      PROVE  IInv'
  <2>1. TypeOK'
    BY <1>4 DEF IInv, TypeOK, StartSync, Goto, tables, history, Steps, SyncSteps
  <2>2. LockHeldInSync' /\ RequestsBound'
    BY <1>4, RequestsAssumption
       DEF IInv, TypeOK, LockHeldInSync, RequestsBound, SyncSteps, StartSync, Goto, history
  <2>3. OneRecentLink' /\ SubscribedConsented' /\ ConfirmedStaysActive' /\ ConfirmedNotSuppressed'
    BY <1>4, TablesKept DEF StartSync, tables, history
  <2>4. QED
    BY <2>1, <2>2, <2>3 DEF IInv
<1>5. ASSUME NEW r \in Requests, SyncFails(r)
      PROVE  IInv'
  <2>1. TypeOK'
    BY <1>5 DEF IInv, TypeOK, SyncFails, Answer, tables, history, Steps, SyncSteps
  <2>2. LockHeldInSync' /\ RequestsBound'
    BY <1>5, RequestsAssumption
       DEF IInv, TypeOK, LockHeldInSync, RequestsBound, SyncSteps, SyncFails, Answer,
           history
  <2>3. OneRecentLink' /\ SubscribedConsented' /\ ConfirmedStaysActive' /\ ConfirmedNotSuppressed'
    BY <1>5, TablesKept DEF SyncFails, tables, history
  <2>4. QED
    BY <2>1, <2>2, <2>3 DEF IInv
<1>6. ASSUME NEW r \in Requests, DumpSuppressions(r)
      PROVE  IInv'
  <2>1. TypeOK'
    BY <1>6 DEF IInv, TypeOK, DumpSuppressions, tables, history, Steps, SyncSteps
  <2>2. LockHeldInSync' /\ RequestsBound'
    BY <1>6, RequestsAssumption
       DEF IInv, TypeOK, LockHeldInSync, RequestsBound, SyncSteps, DumpSuppressions, history
  <2>3. OneRecentLink' /\ SubscribedConsented' /\ ConfirmedStaysActive' /\ ConfirmedNotSuppressed'
    BY <1>6, TablesKept DEF DumpSuppressions, tables, history
  <2>4. QED
    BY <2>1, <2>2, <2>3 DEF IInv
<1>7. ASSUME NEW r \in Requests, Deactivate(r)
      PROVE  IInv'
  <2>1. TypeOK'
    BY <1>7 DEF IInv, TypeOK, Deactivate
  <2>2. LockHeldInSync' /\ RequestsBound'
    BY <1>7 DEF IInv, TypeOK, LockHeldInSync, RequestsBound, SyncSteps, Deactivate
  <2>3. OneRecentLink'
    BY <1>7 DEF IInv, OneRecentLink, Made, Deactivate
  <2>4. SubscribedConsented'
    BY <1>7 DEF IInv, TypeOK, Deactivate, SubscribedConsented, RequestsBound
  <2>5. ConfirmedStaysActive' /\ ConfirmedNotSuppressed'
    BY <1>7
       DEF IInv, TypeOK, Deactivate, ConfirmedStaysActive, ConfirmedNotSuppressed,
           RequestsBound
  <2>6. QED
    BY <2>1, <2>2, <2>3, <2>4, <2>5 DEF IInv
<1>8. ASSUME NEW r \in Requests, EndSync(r)
      PROVE  IInv'
  <2>1. TypeOK'
    BY <1>8 DEF IInv, TypeOK, EndSync, Goto, tables, history, Steps, SyncSteps
  <2>2. LockHeldInSync' /\ RequestsBound'
    BY <1>8, RequestsAssumption
       DEF IInv, TypeOK, LockHeldInSync, RequestsBound, SyncSteps, EndSync, Goto, history
  <2>3. OneRecentLink' /\ SubscribedConsented' /\ ConfirmedStaysActive' /\ ConfirmedNotSuppressed'
    BY <1>8, TablesKept DEF EndSync, tables, history
  <2>4. QED
    BY <2>1, <2>2, <2>3 DEF IInv
<1>9. ASSUME NEW r \in Requests, NEW t \in Links, InsertLink(r, t)
      PROVE  IInv'
  <2>1. [email |-> email[r], confirmed |-> FALSE, age |-> "recent"] \in Rows
    BY <1>9 DEF IInv, RequestsBound, InsertLink, Rows
  <2>2. TypeOK'
    BY <1>9, <2>1 DEF IInv, TypeOK, InsertLink, history, Steps
  <2>3. LockHeldInSync' /\ RequestsBound'
    BY <1>9, RequestsAssumption
       DEF IInv, TypeOK, LockHeldInSync, RequestsBound, SyncSteps, InsertLink, history
  <2>4. OneRecentLink'
    BY <1>9, <2>1, RowUpdate DEF IInv, TypeOK, OneRecentLink, Made, Recent, InsertLink
  <2>5. SubscribedConsented' /\ ConfirmedStaysActive' /\ ConfirmedNotSuppressed'
    BY <1>9
       DEF IInv, SubscribedConsented, ConfirmedStaysActive, ConfirmedNotSuppressed,
           InsertLink, history
  <2>6. QED
    BY <2>1, <2>2, <2>3, <2>4, <2>5 DEF IInv
<1>10. ASSUME NEW r \in Requests, InsertNothing(r)
      PROVE  IInv'
  <2>1. TypeOK'
    BY <1>10 DEF IInv, TypeOK, InsertNothing, Answer, tables, history, Steps, SyncSteps
  <2>2. LockHeldInSync' /\ RequestsBound'
    BY <1>10, RequestsAssumption
       DEF IInv, TypeOK, LockHeldInSync, RequestsBound, SyncSteps, InsertNothing, Answer,
           history
  <2>3. OneRecentLink' /\ SubscribedConsented' /\ ConfirmedStaysActive' /\ ConfirmedNotSuppressed'
    BY <1>10, TablesKept DEF InsertNothing, tables, history
  <2>4. QED
    BY <2>1, <2>2, <2>3 DEF IInv
<1>11. ASSUME NEW r \in Requests, MailLink(r)
      PROVE  IInv'
  <2>1. TypeOK'
    BY <1>11
       DEF IInv, TypeOK, RequestsBound, MailLink, Answer, tables, history, Steps, SyncSteps
  <2>2. LockHeldInSync' /\ RequestsBound'
    BY <1>11, RequestsAssumption
       DEF IInv, TypeOK, LockHeldInSync, RequestsBound, SyncSteps, MailLink, Answer, history
  <2>3. OneRecentLink' /\ SubscribedConsented' /\ ConfirmedStaysActive' /\ ConfirmedNotSuppressed'
    BY <1>11, TablesKept DEF MailLink, tables, history
  <2>4. QED
    BY <2>1, <2>2, <2>3 DEF IInv
<1>12. ASSUME NEW r \in Requests, NEW t \in Links, Confirm(r, t)
      PROVE  IInv'
  <2>1. TypeOK'
    BY <1>12 DEF IInv, TypeOK, Confirm, tables, history, Steps, SyncSteps
  <2>2. LockHeldInSync' /\ RequestsBound'
    BY <1>12, RequestsAssumption
       DEF IInv, TypeOK, LockHeldInSync, RequestsBound, SyncSteps, Confirm, history
  <2>3. OneRecentLink' /\ SubscribedConsented' /\ ConfirmedStaysActive' /\ ConfirmedNotSuppressed'
    BY <1>12, TablesKept DEF Confirm, tables, history
  <2>4. QED
    BY <2>1, <2>2, <2>3 DEF IInv
<1>13. ASSUME NEW r \in Requests, ReadLink(r)
      PROVE  IInv'
  <2>1. link[r] \in Links /\ pending[link[r]].email \in Emails
    BY <1>13, RowUpdate DEF IInv, TypeOK, RequestsBound, ReadLink, Made
  <2>2. TypeOK'
    BY <1>13, <2>1 DEF IInv, TypeOK, ReadLink, tables, Steps
  <2>3. LockHeldInSync' /\ RequestsBound'
    BY <1>13, <2>1, RequestsAssumption
       DEF IInv, TypeOK, LockHeldInSync, RequestsBound, SyncSteps, ReadLink
  <2>4. OneRecentLink'
    BY <1>13 DEF IInv, OneRecentLink, Made, ReadLink, tables
  <2>5. SubscribedConsented'
    BY <1>13 DEF IInv, TypeOK, ReadLink, tables, SubscribedConsented, RequestsBound
  <2>6. ConfirmedStaysActive' /\ ConfirmedNotSuppressed'
    BY <1>13
       DEF IInv, TypeOK, ReadLink, tables, ConfirmedStaysActive, ConfirmedNotSuppressed,
           RequestsBound
  <2>7. QED
    BY <2>1, <2>2, <2>3, <2>4, <2>5, <2>6 DEF IInv
<1>14. ASSUME NEW r \in Requests, Unsuppress(r)
      PROVE  IInv'
  <2>1. TypeOK'
    BY <1>14 DEF IInv, TypeOK, Unsuppress, Goto, tables, history, Steps
  <2>2. LockHeldInSync' /\ RequestsBound'
    BY <1>14, RequestsAssumption
       DEF IInv, TypeOK, LockHeldInSync, RequestsBound, SyncSteps, Unsuppress, Goto, history
  <2>3. OneRecentLink'
    BY <1>14 DEF IInv, OneRecentLink, Made, Unsuppress, tables
  <2>4. SubscribedConsented'
    BY <1>14 DEF IInv, TypeOK, Unsuppress, tables, history, SubscribedConsented, RequestsBound
  <2>5. ConfirmedStaysActive' /\ ConfirmedNotSuppressed'
    BY <1>14
       DEF IInv, TypeOK, Unsuppress, tables, history, ConfirmedStaysActive,
           ConfirmedNotSuppressed, RequestsBound
  <2>6. QED
    BY <2>1, <2>2, <2>3, <2>4, <2>5 DEF IInv
<1>15. ASSUME NEW r \in Requests, UnsuppressFails(r)
      PROVE  IInv'
  <2>1. TypeOK'
    BY <1>15 DEF IInv, TypeOK, UnsuppressFails, Answer, tables, history, Steps
  <2>2. LockHeldInSync' /\ RequestsBound'
    BY <1>15, RequestsAssumption
       DEF IInv, TypeOK, LockHeldInSync, RequestsBound, SyncSteps, UnsuppressFails, Answer,
           history
  <2>3. OneRecentLink'
    BY <1>15 DEF IInv, OneRecentLink, Made, UnsuppressFails, tables
  <2>4. SubscribedConsented'
    BY <1>15
       DEF IInv, TypeOK, UnsuppressFails, tables, history, SubscribedConsented,
           RequestsBound
  <2>5. ConfirmedStaysActive' /\ ConfirmedNotSuppressed'
    BY <1>15
       DEF IInv, TypeOK, UnsuppressFails, tables, history, ConfirmedStaysActive,
           ConfirmedNotSuppressed, RequestsBound
  <2>6. QED
    BY <2>1, <2>2, <2>3, <2>4, <2>5 DEF IInv
<1>16. ASSUME NEW r \in Requests, Activate(r)
      PROVE  IInv'
  <2>1. email[r] \in Emails /\ email[r] \in consented /\ link[r] \in Links
    BY <1>16 DEF IInv, RequestsBound, Activate
  <2>2. pending[link[r]] # NoRow => [pending[link[r]] EXCEPT !.confirmed = TRUE] \in Rows
    BY <2>1, RowUpdate DEF IInv, TypeOK
  <2>3. TypeOK'
    BY <1>16, <2>1, <2>2 DEF IInv, TypeOK, Activate, Answer, Steps
  <2>4. LockHeldInSync' /\ RequestsBound'
    BY <1>16, RequestsAssumption
       DEF IInv, TypeOK, LockHeldInSync, RequestsBound, SyncSteps, Activate, Answer
  <2>5. OneRecentLink'
    BY <1>16, <2>1, RowUpdate DEF IInv, TypeOK, OneRecentLink, Made, Activate
  <2>6. SubscribedConsented'
    BY <1>16, <2>1 DEF IInv, TypeOK, SubscribedConsented, Activate
  <2>7. ConfirmedStaysActive' /\ ConfirmedNotSuppressed'
    BY <1>16, <2>1 DEF IInv, TypeOK, ConfirmedStaysActive, ConfirmedNotSuppressed, Activate
  <2>8. QED
    BY <2>1, <2>2, <2>3, <2>4, <2>5, <2>6, <2>7 DEF IInv
<1>17. ASSUME NEW r \in Requests, ConfirmEnds(r)
      PROVE  IInv'
  <2>1. TypeOK'
    BY <1>17 DEF IInv, TypeOK, ConfirmEnds, Answer, tables, history, Steps, SyncSteps
  <2>2. LockHeldInSync' /\ RequestsBound'
    BY <1>17, RequestsAssumption
       DEF IInv, TypeOK, LockHeldInSync, RequestsBound, SyncSteps, ConfirmEnds, Answer,
           history
  <2>3. OneRecentLink' /\ SubscribedConsented' /\ ConfirmedStaysActive' /\ ConfirmedNotSuppressed'
    BY <1>17, TablesKept DEF ConfirmEnds, tables, history
  <2>4. QED
    BY <2>1, <2>2, <2>3 DEF IInv
<1>18. ASSUME NEW r \in Requests, SlackCallback(r)
      PROVE  IInv'
  <2>1. TypeOK'
    BY <1>18 DEF IInv, TypeOK, SlackCallback, Goto, tables, history, Steps, SyncSteps
  <2>2. LockHeldInSync' /\ RequestsBound'
    BY <1>18, RequestsAssumption
       DEF IInv, TypeOK, LockHeldInSync, RequestsBound, SyncSteps, SlackCallback, Goto,
           history
  <2>3. OneRecentLink' /\ SubscribedConsented' /\ ConfirmedStaysActive' /\ ConfirmedNotSuppressed'
    BY <1>18, TablesKept DEF SlackCallback, tables, history
  <2>4. QED
    BY <2>1, <2>2, <2>3 DEF IInv
<1>19. ASSUME NEW r \in Requests, SlackAnswers(r)
      PROVE  IInv'
  <2>1. TypeOK'
    BY <1>19 DEF IInv, TypeOK, SlackAnswers, Answer, tables, history, Steps, SyncSteps
  <2>2. LockHeldInSync' /\ RequestsBound'
    BY <1>19, RequestsAssumption
       DEF IInv, TypeOK, LockHeldInSync, RequestsBound, SyncSteps, SlackAnswers, Answer,
           history
  <2>3. OneRecentLink' /\ SubscribedConsented' /\ ConfirmedStaysActive' /\ ConfirmedNotSuppressed'
    BY <1>19, TablesKept DEF SlackAnswers, tables, history
  <2>4. QED
    BY <2>1, <2>2, <2>3 DEF IInv
<1>20. ASSUME NEW e \in Emails, Unsubscribe(e)
      PROVE  IInv'
  <2>1. TypeOK'
    BY <1>20 DEF IInv, TypeOK, Unsubscribe, request
  <2>2. LockHeldInSync' /\ RequestsBound'
    BY <1>20, RequestsKept DEF Unsubscribe
  <2>3. OneRecentLink'
    BY <1>20 DEF IInv, OneRecentLink, Made, Unsubscribe
  <2>4. SubscribedConsented'
    BY <1>20 DEF IInv, TypeOK, Unsubscribe, SubscribedConsented, RequestsBound
  <2>5. ConfirmedStaysActive' /\ ConfirmedNotSuppressed'
    BY <1>20
       DEF IInv, TypeOK, Unsubscribe, ConfirmedStaysActive, ConfirmedNotSuppressed,
           RequestsBound
  <2>6. QED
    BY <2>1, <2>2, <2>3, <2>4, <2>5 DEF IInv
<1>21. ASSUME NEW e \in Emails, Resubscribe(e)
      PROVE  IInv'
  <2>1. TypeOK'
    BY <1>21 DEF IInv, TypeOK, Resubscribe, history, request
  <2>2. LockHeldInSync' /\ RequestsBound'
    BY <1>21, RequestsKept DEF Resubscribe, history
  <2>3. OneRecentLink'
    BY <1>21 DEF IInv, OneRecentLink, Made, Resubscribe
  <2>4. SubscribedConsented'
    BY <1>21 DEF IInv, TypeOK, Resubscribe, history, SubscribedConsented, RequestsBound
  <2>5. ConfirmedStaysActive' /\ ConfirmedNotSuppressed'
    BY <1>21
       DEF IInv, TypeOK, Resubscribe, history, ConfirmedStaysActive, ConfirmedNotSuppressed,
           RequestsBound
  <2>6. QED
    BY <2>1, <2>2, <2>3, <2>4, <2>5 DEF IInv
<1>22. ASSUME NEW e \in Emails, Suppress(e)
      PROVE  IInv'
  <2>1. TypeOK'
    BY <1>22 DEF IInv, TypeOK, Suppress, tables, request
  <2>2. LockHeldInSync' /\ RequestsBound'
    BY <1>22, RequestsKept DEF Suppress
  <2>3. OneRecentLink'
    BY <1>22 DEF IInv, OneRecentLink, Made, Suppress, tables
  <2>4. SubscribedConsented'
    BY <1>22 DEF IInv, TypeOK, Suppress, tables, SubscribedConsented, RequestsBound
  <2>5. ConfirmedStaysActive' /\ ConfirmedNotSuppressed'
    BY <1>22
       DEF IInv, TypeOK, Suppress, tables, ConfirmedStaysActive, ConfirmedNotSuppressed,
           RequestsBound
  <2>6. QED
    BY <2>1, <2>2, <2>3, <2>4, <2>5 DEF IInv
<1>23. ASSUME NEW t \in Links, AgeLink(t)
      PROVE  IInv'
  <2>1. \A a \in {"recent", "valid", "expired"} : [pending[t] EXCEPT !.age = a] \in Rows
    BY <1>23, RowUpdate DEF IInv, TypeOK, AgeLink, Made
  <2>2. TypeOK'
    BY <1>23, <2>1 DEF IInv, TypeOK, AgeLink, request, history
  <2>3. LockHeldInSync' /\ RequestsBound'
    BY <1>23, RequestsKept DEF AgeLink, history
  <2>4. \A s \in Links : pending'[s] # NoRow /\ pending'[s].age = "recent"
             => pending'[s] = pending[s]
    BY <1>23, <2>1 DEF IInv, TypeOK, Rows, AgeLink
  <2>5. OneRecentLink'
    BY <2>4 DEF IInv, OneRecentLink, Made
  <2>6. SubscribedConsented' /\ ConfirmedStaysActive' /\ ConfirmedNotSuppressed'
    BY <1>23
       DEF IInv, SubscribedConsented, ConfirmedStaysActive, ConfirmedNotSuppressed, AgeLink,
           history
  <2>7. QED
    BY <2>1, <2>2, <2>3, <2>4, <2>5, <2>6 DEF IInv
<1>24. ASSUME NEW t \in Links, PruneLink(t)
      PROVE  IInv'
  <2>1. TypeOK'
    BY <1>24 DEF IInv, TypeOK, PruneLink, request, history
  <2>2. LockHeldInSync' /\ RequestsBound'
    BY <1>24, RequestsKept DEF PruneLink, history
  <2>3. OneRecentLink'
    BY <1>24 DEF IInv, TypeOK, OneRecentLink, Made, PruneLink
  <2>4. SubscribedConsented' /\ ConfirmedStaysActive' /\ ConfirmedNotSuppressed'
    BY <1>24
       DEF IInv, SubscribedConsented, ConfirmedStaysActive, ConfirmedNotSuppressed,
           PruneLink, history
  <2>5. QED
    BY <2>1, <2>2, <2>3, <2>4 DEF IInv
<1>25. ASSUME NEW c \in Settings, SetAlertChannel(c)
      PROVE  IInv'
  <2>1. TypeOK'
    BY <1>25 DEF IInv, TypeOK, SetAlertChannel, request, history
  <2>2. LockHeldInSync' /\ RequestsBound'
    BY <1>25, RequestsKept DEF SetAlertChannel, history
  <2>3. OneRecentLink' /\ SubscribedConsented' /\ ConfirmedStaysActive' /\ ConfirmedNotSuppressed'
    BY <1>25, TablesKept DEF SetAlertChannel, history
  <2>4. QED
    BY <2>1, <2>2, <2>3 DEF IInv
<1>26. ASSUME TenSecondsPass
      PROVE  IInv'
  <2>1. TypeOK'
    BY <1>26 DEF IInv, TypeOK, TenSecondsPass, tables, request, history
  <2>2. LockHeldInSync' /\ RequestsBound'
    BY <1>26, RequestsKept DEF TenSecondsPass, history
  <2>3. OneRecentLink' /\ SubscribedConsented' /\ ConfirmedStaysActive' /\ ConfirmedNotSuppressed'
    BY <1>26, TablesKept DEF TenSecondsPass, tables, history
  <2>4. QED
    BY <2>1, <2>2, <2>3 DEF IInv
<1>27. ASSUME UNCHANGED vars
      PROVE  IInv'
  <2>1. TypeOK'
    BY <1>27 DEF IInv, TypeOK, vars, tables, request, history
  <2>2. LockHeldInSync' /\ RequestsBound'
    BY <1>27, RequestsKept DEF vars, history
  <2>3. OneRecentLink' /\ SubscribedConsented' /\ ConfirmedStaysActive' /\ ConfirmedNotSuppressed'
    BY <1>27, TablesKept DEF vars, tables, history
  <2>4. QED
    BY <2>1, <2>2, <2>3 DEF IInv
<1>28. QED
  BY <1>1, <1>2, <1>3, <1>4, <1>5, <1>6, <1>7, <1>8, <1>9, <1>10, <1>11, <1>12, <1>13,
     <1>14, <1>15, <1>16, <1>17, <1>18, <1>19, <1>20, <1>21, <1>22, <1>23, <1>24, <1>25,
     <1>26, <1>27
  DEF Next, Arrive, SubscribeStep, ConfirmStep, Environment

-----------------------------------------------------------------------------
(* The theorems *)

\* IInv is inductive.
THEOREM Inductive == Spec => []IInv
BY InitIInv, InvStep, PTL DEF Spec

\* Every reachable state has the declared types.
THEOREM TypeCorrect == Spec => []TypeOK
<1>1. IInv => TypeOK
  BY DEF IInv
<1>2. QED
  BY Inductive, <1>1, PTL

\* supressionSyncMu is held exactly inside its section: every error return of
\* postSubscribeEmail lets it go.
THEOREM LockIsReleased == Spec => []LockHeldInSync
<1>1. IInv => LockHeldInSync
  BY DEF IInv
<1>2. QED
  BY Inductive, <1>1, PTL

\* However many requests race, an address has one recent link at most.
THEOREM OneLinkPerTenMinutes == Spec => []OneRecentLink
<1>1. IInv => OneRecentLink
  BY DEF IInv
<1>2. QED
  BY Inductive, <1>1, PTL

\* Nobody is subscribed without having confirmed.
THEOREM OnlyTheOwnerSubscribes == Spec => []SubscribedConsented
<1>1. IInv => SubscribedConsented
  BY DEF IInv
<1>2. QED
  BY Inductive, <1>1, PTL

\* A confirmed subscription is only lost to its owner, to Postmark, or to a
\* dump taken before the confirmation.
THEOREM ConfirmedSubscriptionsStay == Spec => []ConfirmedStaysActive
<1>1. IInv => ConfirmedStaysActive
  BY DEF IInv
<1>2. QED
  BY Inductive, <1>1, PTL

=============================================================================
