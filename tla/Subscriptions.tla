---------------------------- MODULE Subscriptions ----------------------------
(***************************************************************************)
(* Email subscriptions to alerts: the public handlers that ask for a       *)
(* confirmation link, redeem one, unsubscribe and resubscribe, and the     *)
(* synchronisation with Postmark's suppression list that a subscribe       *)
(* request runs first, under supressionSyncMu.  The Slack install callback *)
(* is here because it keeps the one write connection while it waits.       *)
(*                                                                         *)
(* Each request runs in a goroutine of its own.  A write transaction is    *)
(* one step, enabled while rwDB's connection is free, except the           *)
(* callback's, which spans an HTTP request.                                *)
(*                                                                         *)
(* Abstractions of data, none of control:                                  *)
(*  - A subscription is known by its address and keeps its unsubscribe     *)
(*    token for good; a confirmation link is a member of Links.            *)
(*  - A pending row is recent (10 minutes), valid (24 hours) or expired.   *)
(*  - Any database error may end a request; it is merged with the other    *)
(*    error returns of the same step.                                      *)
(*  - consented, confirmed and struck are history: no guard reads them.    *)
(***************************************************************************)
EXTENDS Naturals

CONSTANTS
  Emails,     \* addresses
  Links,      \* bound: confirmation links ever made
  Requests,   \* bound: handler goroutines alive at once
  Settings    \* the alert channels and modes a run considers

ASSUME SettingsAssumption ==
  /\ Settings # {}
  /\ Settings \subseteq {"none", "slack", "smtp", "postmark", "postmark managed"}

ASSUME RequestsAssumption == "free" \notin Requests

VARIABLES
  sub,         \* alert_subscription of type email: none, active, inactive
  pending,     \* pending_email_alert_subscription: link -> row
  setting,     \* the alert smtp channel: its type and subscription management
  suppressed,  \* external: Postmark's suppression list
  synced,      \* lastSuppressionSync is less than 10 s ago
  syncMu,      \* holder of supressionSyncMu
  rw,          \* holder of rwDB's connection across steps
  pc,          \* request: next step
  email,       \* request: the address it is about
  link,        \* request: the link it makes or redeems
  dump,        \* request: suppressed addresses left to deactivate
  mailed,      \* links that have reached the address's owner
  consented,   \* history: addresses whose owner posted a confirmation
  confirmed,   \* history: addresses confirmed, not unsubscribed nor suppressed since
  struck       \* history: addresses deactivated while not suppressed any more

tables   == <<sub, pending, setting>>
request  == <<pc, email, link, dump>>
history  == <<consented, confirmed, struck>>
vars     == <<tables, suppressed, synced, syncMu, rw, request, mailed, history>>

Rows    == [email : Emails, confirmed : BOOLEAN, age : {"recent", "valid", "expired"}]
NoRow   == [age |-> "no row"]
Made(t) == pending[t] # NoRow

Smtp      == {"smtp", "postmark", "postmark managed"}
Unmanaged == setting = "postmark"

\* A request ends: its variables are gone.
Answer(r) ==
  /\ pc' = [pc EXCEPT ![r] = "free"]
  /\ email' = [email EXCEPT ![r] = "none"]
  /\ link' = [link EXCEPT ![r] = "none"]
  /\ dump' = [dump EXCEPT ![r] = {}]

Goto(r, step) ==
  /\ pc' = [pc EXCEPT ![r] = step]
  /\ UNCHANGED <<email, link, dump>>

-----------------------------------------------------------------------------
(* postSubscribeEmail *)

Subscribe(r, e) ==
  /\ pc[r] = "free"
  /\ pc' = [pc EXCEPT ![r] = "lock"]
  /\ email' = [email EXCEPT ![r] = e]
  /\ UNCHANGED <<tables, suppressed, synced, syncMu, rw, link, dump, mailed, history>>

LockSync(r) ==
  /\ pc[r] = "lock"
  /\ syncMu = "free"
  /\ syncMu' = r
  /\ Goto(r, "sync")
  /\ UNCHANGED <<tables, suppressed, synced, rw, mailed, history>>

\* Under the lock: nothing to do within 10 s of the last synchronisation, or
\* for a channel that is no unmanaged Postmark (which counts as one).
SkipSync(r) ==
  /\ pc[r] = "sync"
  /\ synced \/ (setting \in Smtp /\ ~Unmanaged)
  /\ synced' = TRUE
  /\ syncMu' = "free"
  /\ Goto(r, "insert")
  /\ UNCHANGED <<tables, suppressed, rw, mailed, history>>

StartSync(r) ==
  /\ pc[r] = "sync"
  /\ ~synced
  /\ Unmanaged
  /\ Goto(r, "dump")
  /\ UNCHANGED <<tables, suppressed, synced, syncMu, rw, mailed, history>>

\* Fault: an error return that keeps the lock.
SyncFailsLocked(r) ==
  /\ pc[r] \in {"sync", "dump", "deactivate"}
  /\ Answer(r)
  /\ UNCHANGED <<tables, suppressed, synced, syncMu, rw, mailed, history>>

\* No smtp channel, Postmark refuses, or any query fails: 500.
SyncFails(r) ==
  /\ pc[r] \in {"sync", "dump", "deactivate"}
  /\ syncMu' = "free"
  /\ Answer(r)
  /\ UNCHANGED <<tables, suppressed, synced, rw, mailed, history>>

\* postmarkDumpSupressions.
DumpSuppressions(r) ==
  /\ pc[r] = "dump"
  /\ dump' = [dump EXCEPT ![r] = suppressed]
  /\ pc' = [pc EXCEPT ![r] = "deactivate"]
  /\ UNCHANGED <<tables, suppressed, synced, syncMu, rw, email, link, mailed, history>>

\* Fault: the loop deactivates whoever asks to subscribe.
DeactivateRequester(r) ==
  /\ pc[r] = "deactivate"
  /\ rw = "free"
  /\ \E v \in dump[r] :
       /\ dump' = [dump EXCEPT ![r] = @ \ {v}]
       /\ sub' = [sub EXCEPT ![email[r]] = IF @ = "none" THEN @ ELSE "inactive"]
       /\ struck' = IF v \in suppressed THEN struck ELSE struck \cup {v}
  /\ UNCHANGED <<pending, setting, suppressed, synced, syncMu, rw, pc, email,
                 link, mailed, consented, confirmed>>

\* One transaction for each address of the dump.
Deactivate(r) ==
  /\ pc[r] = "deactivate"
  /\ rw = "free"
  /\ \E v \in dump[r] :
       /\ dump' = [dump EXCEPT ![r] = @ \ {v}]
       /\ sub' = [sub EXCEPT ![v] = IF @ = "none" THEN @ ELSE "inactive"]
       /\ struck' = IF v \in suppressed THEN struck ELSE struck \cup {v}
  /\ UNCHANGED <<pending, setting, suppressed, synced, syncMu, rw, pc, email,
                 link, mailed, consented, confirmed>>

EndSync(r) ==
  /\ pc[r] = "deactivate"
  /\ dump[r] = {}
  /\ synced' = TRUE
  /\ syncMu' = "free"
  /\ Goto(r, "insert")
  /\ UNCHANGED <<tables, suppressed, rw, mailed, history>>

Recent(e) == \E t \in Links : Made(t) /\ pending[t].email = e /\ pending[t].age = "recent"

\* Fault: a recent link does not keep another one from being made.
InsertLinkAlways(r, t) ==
  /\ pc[r] = "insert"
  /\ rw = "free"
  /\ sub[email[r]] # "active"
  /\ setting \in Smtp
  /\ pending[t] = NoRow /\ t \notin mailed /\ \A q \in Requests : link[q] # t
  /\ pending' = [pending EXCEPT ![t] =
                   [email |-> email[r], confirmed |-> FALSE, age |-> "recent"]]
  /\ link' = [link EXCEPT ![r] = t]
  /\ pc' = [pc EXCEPT ![r] = "mail"]
  /\ UNCHANGED <<sub, setting, suppressed, synced, syncMu, rw, email, dump,
                 mailed, history>>

\* The write transaction: a new link, unless the address is subscribed or got
\* one in the last 10 minutes.
InsertLink(r, t) ==
  /\ pc[r] = "insert"
  /\ rw = "free"
  /\ sub[email[r]] # "active"
  /\ ~Recent(email[r])
  /\ setting \in Smtp
  /\ pending[t] = NoRow /\ t \notin mailed /\ \A q \in Requests : link[q] # t
  /\ pending' = [pending EXCEPT ![t] =
                   [email |-> email[r], confirmed |-> FALSE, age |-> "recent"]]
  /\ link' = [link EXCEPT ![r] = t]
  /\ pc' = [pc EXCEPT ![r] = "mail"]
  /\ UNCHANGED <<sub, setting, suppressed, synced, syncMu, rw, email, dump,
                 mailed, history>>

\* The same transaction rolled back: subscribed already, a recent link, no
\* smtp channel, or an error.
InsertNothing(r) ==
  /\ pc[r] = "insert"
  /\ rw = "free"
  /\ Answer(r)
  /\ UNCHANGED <<tables, suppressed, synced, syncMu, rw, mailed, history>>

\* After the commit: smtp.SendMail, delivered or not.
MailLink(r) ==
  /\ pc[r] = "mail"
  /\ \/ mailed' = mailed \cup {link[r]}
     \/ mailed' = mailed
  /\ Answer(r)
  /\ UNCHANGED <<tables, suppressed, synced, syncMu, rw, history>>

-----------------------------------------------------------------------------
(* postSubscribeEmailConfirm *)

\* The owner of the address opens the mailed link and confirms.
Confirm(r, t) ==
  /\ pc[r] = "free"
  /\ t \in mailed
  /\ pc' = [pc EXCEPT ![r] = "confirm"]
  /\ link' = [link EXCEPT ![r] = t]
  /\ UNCHANGED <<tables, suppressed, synced, syncMu, rw, email, dump, mailed, history>>

\* Fault: sql.ErrNoRows is ignored for the link too, and the address is empty.
ReadLinkOrNone(r) ==
  LET t == link[r]
      e == IF Made(t) THEN pending[t].email ELSE "none"
  IN
  /\ pc[r] = "confirm"
  /\ setting \in Smtp
  /\ email' = [email EXCEPT ![r] = e]
  /\ pc' = [pc EXCEPT ![r] = IF Unmanaged THEN "unsuppress" ELSE "activate"]
  /\ consented' = consented \cup {e}
  /\ UNCHANGED <<tables, suppressed, synced, syncMu, rw, link, dump, mailed,
                 confirmed, struck>>

\* The read transaction finds the address of a link not confirmed and not
\* expired, and no active subscription.
ReadLink(r) ==
  LET t == link[r] IN
  /\ pc[r] = "confirm"
  /\ Made(t)
  /\ ~pending[t].confirmed /\ pending[t].age # "expired"
  /\ sub[pending[t].email] # "active"
  /\ setting \in Smtp
  /\ email' = [email EXCEPT ![r] = pending[t].email]
  /\ pc' = [pc EXCEPT ![r] = IF Unmanaged THEN "unsuppress" ELSE "activate"]
  /\ consented' = consented \cup {pending[t].email}
  /\ UNCHANGED <<tables, suppressed, synced, syncMu, rw, link, dump, mailed,
                 confirmed, struck>>

\* postmarkDeleteSuppression takes status 200 for success and does not read what
\* the answer says of the address, which may stay suppressed.
Unsuppress(r) ==
  /\ pc[r] = "unsuppress"
  /\ suppressed' \in {suppressed, suppressed \ {email[r]}}
  /\ Goto(r, "activate")
  /\ UNCHANGED <<tables, synced, syncMu, rw, mailed, history>>

\* It fails, or its answer is lost: 500.
UnsuppressFails(r) ==
  /\ pc[r] = "unsuppress"
  /\ suppressed' \in {suppressed, suppressed \ {email[r]}}
  /\ Answer(r)
  /\ UNCHANGED <<tables, synced, syncMu, rw, mailed, history>>

\* Fault: "on conflict do nothing": an inactive subscription stays inactive.
ActivateNewOnly(r) ==
  LET t == link[r] IN
  /\ pc[r] = "activate"
  /\ rw = "free"
  /\ pending' = [pending EXCEPT ![t] = IF @ = NoRow THEN @ ELSE [@ EXCEPT !.confirmed = TRUE]]
  /\ sub' = [sub EXCEPT ![email[r]] = IF @ = "none" THEN "active" ELSE @]
  /\ confirmed' = (confirmed \cup {email[r]}) \ suppressed
  /\ struck' = struck \ {email[r]}
  /\ Answer(r)
  /\ UNCHANGED <<setting, suppressed, synced, syncMu, rw, mailed, consented>>

\* The write transaction: the link is marked, the subscription inserted or
\* set active; neither looks again at what the read transaction saw.
Activate(r) ==
  LET t == link[r] IN
  /\ pc[r] = "activate"
  /\ rw = "free"
  /\ pending' = [pending EXCEPT ![t] = IF @ = NoRow THEN @ ELSE [@ EXCEPT !.confirmed = TRUE]]
  /\ sub' = [sub EXCEPT ![email[r]] = "active"]
  /\ confirmed' = (confirmed \cup {email[r]}) \ suppressed
  /\ struck' = struck \ {email[r]}
  /\ Answer(r)
  /\ UNCHANGED <<setting, suppressed, synced, syncMu, rw, mailed, consented>>

\* Every other return: an unknown, confirmed or expired link, a subscription
\* that is active already, no smtp channel, an error.
ConfirmEnds(r) ==
  /\ pc[r] \in {"confirm", "activate"}
  /\ Answer(r)
  /\ UNCHANGED <<tables, suppressed, synced, syncMu, rw, mailed, history>>

-----------------------------------------------------------------------------
(* Other requests *)

\* postUnsubscribe with the token an alert email carried.
Unsubscribe(e) ==
  /\ sub[e] # "none"
  /\ rw = "free"
  /\ sub' = [sub EXCEPT ![e] = "inactive"]
  /\ confirmed' = confirmed \ {e}
  /\ UNCHANGED <<pending, setting, suppressed, synced, syncMu, rw, request,
                 mailed, consented, struck>>

\* Fault: the subscription is created where there is none.
ResubscribeAnyone(e) ==
  /\ rw = "free"
  /\ sub' = [sub EXCEPT ![e] = "active"]
  /\ UNCHANGED <<pending, setting, suppressed, synced, syncMu, rw, request,
                 mailed, history>>

\* postResubscribe with the same token.
Resubscribe(e) ==
  /\ sub[e] # "none"
  /\ rw = "free"
  /\ sub' = [sub EXCEPT ![e] = "active"]
  /\ UNCHANGED <<pending, setting, suppressed, synced, syncMu, rw, request,
                 mailed, history>>

\* slackOAuth2Callback begins its transaction, then asks Slack.
SlackCallback(r) ==
  /\ pc[r] = "free"
  /\ rw = "free"
  /\ rw' = r
  /\ Goto(r, "slack")
  /\ UNCHANGED <<tables, suppressed, synced, syncMu, mailed, history>>

\* Slack answers (http.PostForm has no timeout): commit or roll back.  What it
\* stores is in NotificationQueue.
SlackAnswers(r) ==
  /\ pc[r] = "slack"
  /\ rw' = "free"
  /\ Answer(r)
  /\ UNCHANGED <<tables, suppressed, synced, syncMu, mailed, history>>

\* postAlertNotifications, or a change of the channel itself.
SetAlertChannel(c) ==
  /\ rw = "free"
  /\ setting' = c
  /\ UNCHANGED <<sub, pending, suppressed, synced, syncMu, rw, request, mailed, history>>

-----------------------------------------------------------------------------
(* Time, retention, Postmark *)

AgeLink(t) ==
  /\ Made(t)
  /\ pending[t].age # "expired"
  /\ pending' = [pending EXCEPT ![t].age = IF @ = "recent" THEN "valid" ELSE "expired"]
  /\ UNCHANGED <<sub, setting, suppressed, synced, syncMu, rw, request, mailed, history>>

\* prune("pending_email_alert_subscription").
PruneLink(t) ==
  /\ rw = "free"
  /\ pending[t].age = "expired"
  /\ pending' = [pending EXCEPT ![t] = NoRow]
  /\ UNCHANGED <<sub, setting, suppressed, synced, syncMu, rw, request, mailed, history>>

TenSecondsPass ==
  /\ synced
  /\ synced' = FALSE
  /\ UNCHANGED <<tables, suppressed, syncMu, rw, request, mailed, history>>

\* The address bounces, complains or unsubscribes at Postmark.
Suppress(e) ==
  /\ e \notin suppressed
  /\ suppressed' = suppressed \cup {e}
  /\ confirmed' = confirmed \ {e}
  /\ UNCHANGED <<tables, synced, syncMu, rw, request, mailed, consented,
                 struck>>

-----------------------------------------------------------------------------
(* Specification *)

Init ==
  /\ sub = [e \in Emails |-> "none"]
  /\ pending = [t \in Links |-> NoRow]
  /\ setting \in Settings
  /\ suppressed = {}
  /\ synced = FALSE
  /\ syncMu = "free"
  /\ rw = "free"
  /\ pc = [r \in Requests |-> "free"]
  /\ email = [r \in Requests |-> "none"]
  /\ link = [r \in Requests |-> "none"]
  /\ dump = [r \in Requests |-> {}]
  /\ mailed = {}
  /\ consented = {}
  /\ confirmed = {}
  /\ struck = {}

SubscribeStep(r) ==
  \/ LockSync(r)
  \/ SkipSync(r)
  \/ StartSync(r)
  \/ SyncFails(r)
  \/ DumpSuppressions(r)
  \/ Deactivate(r)
  \/ EndSync(r)
  \/ \E t \in Links : InsertLink(r, t)
  \/ InsertNothing(r)
  \/ MailLink(r)

ConfirmStep(r) ==
  \/ ReadLink(r)
  \/ Unsuppress(r)
  \/ UnsuppressFails(r)
  \/ Activate(r)
  \/ ConfirmEnds(r)

Arrive(r) ==
  \/ \E e \in Emails : Subscribe(r, e)
  \/ \E t \in Links : Confirm(r, t)
  \/ SlackCallback(r)

Environment ==
  \/ \E e \in Emails : Unsubscribe(e) \/ Resubscribe(e) \/ Suppress(e)
  \/ \E t \in Links : AgeLink(t) \/ PruneLink(t)
  \/ \E c \in Settings : SetAlertChannel(c)
  \/ TenSecondsPass

Next ==
  \/ \E r \in Requests : Arrive(r) \/ SubscribeStep(r) \/ ConfirmStep(r) \/ SlackAnswers(r)
  \/ Environment

Spec == Init /\ [][Next]_vars

(***************************************************************************)
(* Fairness.  Goroutines run on; Go's mutex and database/sql's queue for   *)
(* the connection starve nobody (SF).  Requests to Postmark have a client  *)
(* timeout.  That mail servers and Slack answer is assumed of them: the    *)
(* code sets no deadline on either.                                        *)
(***************************************************************************)
HandlerFairness ==
  \A r \in Requests :
    /\ SF_vars(SubscribeStep(r) /\ pc[r] # "mail")
    /\ SF_vars(ConfirmStep(r))

MailServersAnswer == \A r \in Requests : WF_vars(MailLink(r))
SlackAlwaysAnswers == \A r \in Requests : WF_vars(SlackAnswers(r))

FairSpec     == Spec /\ HandlerFairness /\ MailServersAnswer /\ SlackAlwaysAnswers
TimeoutsSpec == Spec /\ HandlerFairness /\ MailServersAnswer

-----------------------------------------------------------------------------
(* Properties *)

SyncSteps    == {"sync", "dump", "deactivate"}
Steps        == SyncSteps \cup {"free", "lock", "insert", "mail", "confirm",
                                "unsuppress", "activate", "slack"}

\* Type correctness.
TypeOK ==
  /\ sub \in [Emails -> {"none", "active", "inactive"}]
  /\ pending \in [Links -> Rows \cup {NoRow}]
  /\ setting \in Settings
  /\ suppressed \subseteq Emails
  /\ synced \in BOOLEAN
  /\ syncMu \in Requests \cup {"free"}
  /\ rw \in Requests \cup {"free"}
  /\ pc \in [Requests -> Steps]
  /\ email \in [Requests -> Emails \cup {"none"}]
  /\ link \in [Requests -> Links \cup {"none"}]
  /\ dump \in [Requests -> SUBSET Emails]
  /\ mailed \subseteq Links
  /\ consented \subseteq Emails
  /\ confirmed \subseteq Emails
  /\ struck \subseteq Emails

\* supressionSyncMu is held exactly by the request that is in the guarded
\* section: none of its eleven error returns keeps it, none gives it up early.
LockHeldInSync ==
  \A r \in Requests : syncMu = r <=> pc[r] \in SyncSteps

\* However many requests ask for it at once, an address is sent at most one
\* link in 10 minutes.
OneRecentLink ==
  \A s, t \in Links :
    /\ Made(s) /\ Made(t)
    /\ pending[s].age = "recent" /\ pending[t].age = "recent"
    /\ pending[s].email = pending[t].email
    => s = t

\* Nobody is subscribed who has not confirmed a link sent to the address,
\* whoever asked for it.
SubscribedConsented ==
  \A e \in Emails : sub[e] # "none" => e \in consented

\* A confirmed subscription stays active until its owner unsubscribes or
\* Postmark suppresses the address, except when a dump that was taken before
\* the confirmation is still being worked off.
ConfirmedStaysActive ==
  \A e \in confirmed \ struck : sub[e] = "active"

\* Every request is answered in the end.
RequestsAnswered ==
  \A r \in Requests : pc[r] # "free" ~> pc[r] = "free"

-----------------------------------------------------------------------------
(* Properties the comments and tests state and the code does not have *)

\* The synchronisation touches only what is actually suppressed.
SyncTouchesOnlySuppressed ==
  [][\A e \in Emails, r \in Requests :
       e \in dump[r] /\ e \notin dump'[r] /\ sub[e] = "active" /\ sub'[e] = "inactive"
       => e \in suppressed]_vars

=============================================================================
