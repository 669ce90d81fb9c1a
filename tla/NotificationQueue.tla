-------------------------- MODULE NotificationQueue --------------------------
(***************************************************************************)
(* The alert notification queue: posting an alert message inserts one      *)
(* alert_notification row for each active subscription, and notificationLoop*)
(* drains the unsent rows every 10 s, delivering each and stamping sent_at. *)
(* Beside it operators delete messages, alerts and subscriptions (which     *)
(* cascades to the rows), change the alert channel, retention prunes, and   *)
(* the process may be killed and started again.                            *)
(*                                                                         *)
(* Abstractions of data, none of control:                                  *)
(*  - Write transactions are atomic (rwDB has one connection, BEGIN        *)
(*    IMMEDIATE); so is each of the two read transactions of a pass.       *)
(*  - Messages are numbered in the order of their created_at, and an alert *)
(*    is known by the number of its first message; texts are left out.     *)
(*  - sent_at is sent or not.  Any sent row may be past its retention: no  *)
(*    other step depends on how old a row is.                              *)
(*  - A subscription is known by what identifies its receiver (the email   *)
(*    address, or the Slack team and channel).                             *)
(*  - delivered, lost, owed, clash and tried are history: no guard reads   *)
(*    them.                                                                *)
(***************************************************************************)
EXTENDS Integers

CONSTANTS
  EmailSubs,   \* subscriptions of type email
  SlackSubs,   \* subscriptions of type slack
  Channels,    \* types the alert email channel may be given
  Healthy,     \* subscriptions whose receiver accepts when retried for ever
  MaxMsg,      \* bound: alert messages ever posted
  MaxId,       \* bound: largest alert_notification rowid
  MaxRestarts  \* bound: times the process is started again

ASSUME BoundsAssumption ==
  /\ MaxMsg \in Nat \ {0}
  /\ MaxId \in Nat \ {0}
  /\ MaxRestarts \in Nat

ASSUME ChannelsAssumption ==
  /\ "none" \in Channels
  /\ Channels \subseteq {"none", "smtp", "slack"}

ASSUME SubsAssumption ==
  /\ EmailSubs \cap SlackSubs = {}
  /\ Healthy \subseteq EmailSubs \cup SlackSubs

VARIABLES
  sub,        \* alert_subscription: "none", "active" or "inactive"
  alerts,     \* alert table
  alertOf,    \* alert_message: message -> its alert, 0 for no row
  posted,     \* history: messages posted so far
  row,        \* alert_notification: id -> row
  setting,    \* type of the alert email channel, or "none"
  restarts,   \* history: processes started after the first
  drain,      \* where notificationLoop is
  batch,      \* notifications of this pass not tried yet
  inflight,   \* the notification delivered and not stamped yet, if any
  channel,    \* type of the channel this pass loaded
  tokens,     \* subTokensEmailMap of this pass: subs with a token
  delivered,  \* history: how often a pair reached its receiver (saturates)
  lost,       \* history: pairs delivered without the delivery being recorded
  owed,       \* history: pairs queued whose message and sub were not deleted
  clash,      \* history: those of them queued under an id the running pass holds
  tried       \* history: pairs tried in this pass

tables  == <<sub, alerts, alertOf, posted, row, setting>>
pass    == <<drain, batch, inflight, channel, tokens>>
history == <<delivered, lost, owed, clash, tried>>
vars    == <<tables, restarts, pass, history>>

-----------------------------------------------------------------------------
(* Data *)

Subs == EmailSubs \cup SlackSubs
Msgs == 1..MaxMsg
Ids  == 1..MaxId

Pairs == Subs \X Msgs
Rows  == [sub : Subs, msg : Msgs, sent : BOOLEAN]
NoRow == [sent |-> TRUE]
Items == [id : Ids, sub : Subs, msg : Msgs]

Used    == {i \in Ids : row[i] # NoRow}
Unsent  == {i \in Ids : row[i] # NoRow /\ ~row[i].sent}
Pair(n) == <<n.sub, n.msg>>

\* Ids the running pass still holds.
Held == {n.id : n \in batch \cup inflight}

\* The rowids of one insert: distinct, and each the next after the largest.
NextRowids(ids) ==
  /\ \A i \in ids, j \in Used : j < i
  /\ \A i \in ids : i = 1 \/ i - 1 \in ids \cup Used

Bump(k) == IF k = 0 THEN 1 ELSE 2

-----------------------------------------------------------------------------
(* Posting *)

\* createAlertMessageNotifications for message m: one row per active
\* subscription, in the transaction that inserts the message.
Enqueue(m) ==
  LET active == {s \in Subs : sub[s] = "active"}
  IN  \E idOf \in [active -> Ids] :
        LET ids == {idOf[s] : s \in active}
            who(i) == CHOOSE s \in active : idOf[s] = i
        IN  /\ \A s, t \in active : idOf[s] = idOf[t] => s = t
            /\ NextRowids(ids)
            /\ row' = [i \in Ids |->
                         IF i \in ids THEN [sub |-> who(i), msg |-> m, sent |-> FALSE]
                         ELSE row[i]]
            /\ owed' = owed \cup {<<s, m>> : s \in active}
            /\ clash' = clash \cup {<<s, m>> : s \in {t \in active : idOf[t] \in Held}}

\* postCreateAlert: alert, first message and notifications.
CreateAlert ==
  /\ posted < MaxMsg
  /\ posted' = posted + 1
  /\ alerts' = alerts \cup {posted + 1}
  /\ alertOf' = [alertOf EXCEPT ![posted + 1] = posted + 1]
  /\ Enqueue(posted + 1)
  /\ UNCHANGED <<sub, setting, restarts, pass, delivered, lost, tried>>

\* postAddAlertMessage: the foreign key refuses a missing alert.
AddAlertMessage(a) ==
  /\ a \in alerts
  /\ posted < MaxMsg
  /\ posted' = posted + 1
  /\ alertOf' = [alertOf EXCEPT ![posted + 1] = a]
  /\ Enqueue(posted + 1)
  /\ UNCHANGED <<sub, alerts, setting, restarts, pass, delivered, lost, tried>>

\* What deleting messages ms and subscriptions ss cascades to.
Cascade(ss, ms) ==
  /\ row' = [i \in Ids |-> IF row[i] # NoRow /\ (row[i].sub \in ss \/ row[i].msg \in ms)
                           THEN NoRow ELSE row[i]]
  /\ owed' = {p \in owed : p[1] \notin ss /\ p[2] \notin ms}
  /\ clash' = clash \cap owed'

\* deleteAlertMessage.
DeleteAlertMessage(m) ==
  /\ alertOf[m] # 0
  /\ alertOf' = [alertOf EXCEPT ![m] = 0]
  /\ Cascade({}, {m})
  /\ UNCHANGED <<sub, alerts, posted, setting, restarts, pass,
                 delivered, lost, tried>>

\* deleteAlert: its messages go, and their notifications with them.
DeleteAlert(a) ==
  /\ a \in alerts
  /\ alerts' = alerts \ {a}
  /\ alertOf' = [m \in Msgs |-> IF alertOf[m] = a THEN 0 ELSE alertOf[m]]
  /\ Cascade({}, {m \in Msgs : alertOf[m] = a})
  /\ UNCHANGED <<sub, posted, setting, restarts, pass, delivered, lost, tried>>

-----------------------------------------------------------------------------
(* Subscriptions and settings *)

\* createAlertSubscription for an email address: insert, or activate.
SubscribeEmail(s) ==
  /\ s \in EmailSubs
  /\ sub' = [sub EXCEPT ![s] = "active"]
  /\ UNCHANGED <<alerts, alertOf, posted, row, setting, restarts, pass, history>>

\* postUnsubscribe, or a suppression found by postSubscribeEmail.
UnsubscribeEmail(s) ==
  /\ s \in EmailSubs
  /\ sub[s] = "active"
  /\ sub' = [sub EXCEPT ![s] = "inactive"]
  /\ UNCHANGED <<alerts, alertOf, posted, row, setting, restarts, pass, history>>

\* slackOAuth2Callback: the old subscription of the channel is deleted, with
\* its notifications, and a new one is inserted.
InstallSlack(s) ==
  /\ s \in SlackSubs
  /\ sub' = [sub EXCEPT ![s] = "active"]
  /\ Cascade({s}, {})
  /\ UNCHANGED <<alerts, alertOf, posted, setting, restarts, pass,
                 delivered, lost, tried>>

\* postAlertNotifications, applyConfig (which does not look at the type), or
\* the deletion of the channel.
SetAlertChannel(c) ==
  /\ setting' = c
  /\ UNCHANGED <<sub, alerts, alertOf, posted, row, restarts, pass, history>>

\* Fault: prune does not ask for sent_at.
PruneUnsentToo(ids) ==
  /\ ids # {}
  /\ ids \subseteq Used
  /\ row' = [i \in Ids |-> IF i \in ids THEN NoRow ELSE row[i]]
  /\ UNCHANGED <<sub, alerts, alertOf, posted, setting, restarts, pass, history>>

\* prune("alert_notification"): one batch of sent rows.
PruneAlertNotifications(ids) ==
  /\ ids # {}
  /\ ids \subseteq Used \ Unsent
  /\ row' = [i \in Ids |-> IF i \in ids THEN NoRow ELSE row[i]]
  /\ UNCHANGED <<sub, alerts, alertOf, posted, setting, restarts, pass, history>>

-----------------------------------------------------------------------------
(* One pass: drainNotificationQueue *)

\* Fault: the query forgets "sent_at is null".
ListEverything ==
  /\ drain = "idle"
  /\ Used # {}
  /\ batch' = {[id |-> i, sub |-> row[i].sub, msg |-> row[i].msg] : i \in Used}
  /\ drain' = "listed"
  /\ UNCHANGED <<tables, restarts, inflight, channel, tokens, history>>

\* listUnsentAlertNotifications; an empty queue ends the pass at once.
ListUnsentAlertNotifications ==
  /\ drain = "idle"
  /\ Unsent # {}
  /\ batch' = {[id |-> i, sub |-> row[i].sub, msg |-> row[i].msg] : i \in Unsent}
  /\ drain' = "listed"
  /\ UNCHANGED <<tables, restarts, inflight, channel, tokens, history>>

\* Fault: tokens of active subscriptions of every type are read.
ReadSettingsAllTypes ==
  /\ drain = "listed"
  /\ setting # "none"
  /\ channel' = setting
  /\ tokens' = {s \in Subs : sub[s] = "active"}
  /\ drain' = "sending"
  /\ UNCHANGED <<tables, restarts, batch, inflight, history>>

\* The second read transaction: alert channel and unsubscribe tokens.
ReadSettings ==
  /\ drain = "listed"
  /\ setting # "none"
  /\ channel' = setting
  /\ tokens' = {s \in EmailSubs : sub[s] = "active"}
  /\ drain' = "sending"
  /\ UNCHANGED <<tables, restarts, batch, inflight, history>>

\* No alert channel (or a read error): the pass is abandoned.
Abandon ==
  /\ drain = "listed"
  /\ drain' = "idle"
  /\ batch' = {}
  /\ UNCHANGED <<tables, restarts, inflight, channel, tokens, history>>

\* Fault: the query has no order by.
FirstUnordered(n) == n \in batch

\* "order by alert_message.created_at asc", rows of one message in any order.
First(n) == n \in batch /\ \A o \in batch : n.msg <= o.msg

Deliverable(n) == n.sub \in SlackSubs \/ channel = "smtp"

\* The receiver takes it and says so; next the row is stamped.
Accept(n) ==
  /\ drain = "sending"
  /\ First(n)
  /\ Deliverable(n)
  /\ delivered' = [delivered EXCEPT ![Pair(n)] = Bump(@)]
  /\ tried' = tried \cup {Pair(n)}
  /\ batch' = batch \ {n}
  /\ inflight' = {n}
  /\ drain' = "stamping"
  /\ UNCHANGED <<tables, restarts, channel, tokens, lost, owed, clash>>

\* The receiver takes it but the answer is lost: it stays unsent.
AcceptUnheard(n) ==
  /\ drain = "sending"
  /\ First(n)
  /\ Deliverable(n)
  /\ delivered' = [delivered EXCEPT ![Pair(n)] = Bump(@)]
  /\ lost' = lost \cup {Pair(n)}
  /\ tried' = tried \cup {Pair(n)}
  /\ batch' = batch \ {n}
  /\ UNCHANGED <<tables, restarts, drain, inflight, channel, tokens, owed, clash>>

\* Fault: a refused delivery is stamped all the same.
RejectStamped(n) ==
  /\ drain = "sending"
  /\ First(n)
  /\ tried' = tried \cup {Pair(n)}
  /\ batch' = batch \ {n}
  /\ inflight' = {n}
  /\ drain' = "stamping"
  /\ UNCHANGED <<tables, restarts, channel, tokens, delivered, lost, owed, clash>>

\* Fault: the first failure ends the pass.
RejectEndsPass(n) ==
  /\ drain = "sending"
  /\ First(n)
  /\ tried' = tried \cup {Pair(n)}
  /\ batch' = {}
  /\ UNCHANGED <<tables, restarts, drain, inflight, channel, tokens,
                 delivered, lost, owed, clash>>

\* Refused (an error, a status other than 200), or an email while the alert
\* channel is not smtp: it stays unsent and the pass goes on.
Reject(n) ==
  /\ drain = "sending"
  /\ First(n)
  /\ tried' = tried \cup {Pair(n)}
  /\ batch' = batch \ {n}
  /\ UNCHANGED <<tables, restarts, drain, inflight, channel, tokens,
                 delivered, lost, owed, clash>>

\* updateAlertSentAtByID: whatever row has the id now, if any.
Stamp ==
  /\ drain = "stamping"
  /\ row' = [i \in Ids |-> IF row[i] # NoRow /\ i \in {n.id : n \in inflight}
                           THEN [row[i] EXCEPT !.sent = TRUE] ELSE row[i]]
  /\ inflight' = {}
  /\ drain' = "sending"
  /\ UNCHANGED <<sub, alerts, alertOf, posted, setting, restarts,
                 batch, channel, tokens, history>>

\* Begin, update or commit fails: the row stays unsent.
StampFails ==
  /\ drain = "stamping"
  /\ lost' = lost \cup {Pair(n) : n \in inflight}
  /\ inflight' = {}
  /\ drain' = "sending"
  /\ UNCHANGED <<tables, restarts, batch, channel, tokens,
                 delivered, owed, clash, tried>>

\* The pass returns; its variables are gone.
EndPass ==
  /\ drain = "sending"
  /\ batch = {}
  /\ drain' = "idle"
  /\ channel' = "none"
  /\ tokens' = {}
  /\ tried' = {}
  /\ UNCHANGED <<tables, restarts, batch, inflight, delivered, lost, owed, clash>>

\* ctx.Done: only seen between passes.
ExitLoop ==
  /\ drain = "idle"
  /\ drain' = "exited"
  /\ UNCHANGED <<tables, restarts, batch, inflight, channel, tokens, history>>

\* A new process, after a clean stop or a kill at any point of a pass.
Restart ==
  /\ restarts < MaxRestarts
  /\ restarts' = restarts + 1
  /\ drain' = "idle"
  /\ batch' = {}
  /\ inflight' = {}
  /\ channel' = "none"
  /\ tokens' = {}
  /\ tried' = {}
  /\ lost' = lost \cup {Pair(n) : n \in inflight}
  /\ UNCHANGED <<tables, delivered, owed, clash>>

-----------------------------------------------------------------------------
(* Specification *)

\* An empty installation, its loop just started.
Init ==
  /\ sub = [s \in Subs |-> "none"]
  /\ alerts = {}
  /\ alertOf = [m \in Msgs |-> 0]
  /\ posted = 0
  /\ row = [i \in Ids |-> NoRow]
  /\ setting = "none"
  /\ restarts = 0
  /\ drain = "idle"
  /\ batch = {}
  /\ inflight = {}
  /\ channel = "none"
  /\ tokens = {}
  /\ delivered = [p \in Pairs |-> 0]
  /\ lost = {}
  /\ owed = {}
  /\ clash = {}
  /\ tried = {}

Send(n) == Accept(n) \/ AcceptUnheard(n) \/ Reject(n)

Drain ==
  \/ ListUnsentAlertNotifications
  \/ ReadSettings
  \/ Abandon
  \/ \E n \in batch : Send(n)
  \/ Stamp
  \/ StampFails
  \/ EndPass

Operator ==
  \/ CreateAlert
  \/ \E a \in Msgs : AddAlertMessage(a) \/ DeleteAlert(a)
  \/ \E m \in Msgs : DeleteAlertMessage(m)
  \/ \E s \in Subs : SubscribeEmail(s) \/ UnsubscribeEmail(s) \/ InstallSlack(s)
  \/ \E c \in Channels : SetAlertChannel(c)

Process ==
  \/ \E ids \in SUBSET Ids : PruneAlertNotifications(ids)
  \/ ExitLoop
  \/ Restart

Next == Drain \/ Operator \/ Process

Spec == Init /\ [][Next]_vars

(***************************************************************************)
(* Fairness.  The ticker fires, reads and stamps return, a Slack request   *)
(* has a client timeout; that mail servers answer at all is assumed (the   *)
(* code sets no deadline).  A read error or a failed stamp may happen any  *)
(* number of times but not every time (SF), and a healthy receiver that is *)
(* tried for ever accepts some day.  Nothing is assumed of the order in    *)
(* which the rows of one message are tried.                                *)
(***************************************************************************)
AcceptsWhenTried(p) ==
  \/ <>[][~ \E n \in batch : Pair(n) = p /\ Reject(n)]_vars
  \/ []<><<\E n \in batch : Pair(n) = p /\ Accept(n)>>_vars

Fairness ==
  /\ WF_vars(ListUnsentAlertNotifications)
  /\ SF_vars(ReadSettings)
  /\ WF_vars(Abandon)
  /\ WF_vars(\E n \in batch : Send(n))
  /\ \A p \in Healthy \X Msgs : AcceptsWhenTried(p)
  /\ WF_vars(Stamp \/ StampFails)
  /\ WF_vars(EndPass)

FairSpec == Spec /\ Fairness

-----------------------------------------------------------------------------
(* Properties *)

\* Exactly one delivery is in flight while a pass stamps, and none otherwise.
OneInFlight ==
  IF drain = "stamping" THEN \E n \in Items : inflight = {n} ELSE inflight = {}

\* Type correctness; the goroutine stamps one delivery at a time, so no delivery
\* is left in flight when it goes on to the next one or ends its pass.
TypeOK ==
  /\ sub \in [Subs -> {"none", "active", "inactive"}]
  /\ alerts \subseteq Msgs
  /\ alertOf \in [Msgs -> 0..MaxMsg]
  /\ posted \in 0..MaxMsg
  /\ row \in [Ids -> Rows \cup {NoRow}]
  /\ setting \in Channels
  /\ restarts \in 0..MaxRestarts
  /\ drain \in {"idle", "listed", "sending", "stamping", "exited"}
  /\ batch \subseteq Items
  /\ OneInFlight
  /\ channel \in Channels
  /\ tokens \subseteq EmailSubs
  /\ delivered \in [Pairs -> 0..2]
  /\ lost \subseteq Pairs
  /\ owed \subseteq Pairs
  /\ clash \subseteq Pairs
  /\ tried \subseteq Pairs

\* No failure, crash, prune or race loses an alert: what was queued and not
\* deleted with its message or subscription has reached its receiver or is
\* still queued.  The one exception is a notification that was given the
\* rowid of a deleted one which the running pass still holds.
NothingLost ==
  \A p \in owed \ clash :
    \/ delivered[p] > 0
    \/ \E i \in Unsent : Pair(row[i]) = p

\* A receiver gets a message twice only when the record of its delivery was
\* lost: an answer not heard, a failed stamp, or a kill in between.
DuplicateOnlyIfRecordLost ==
  \A p \in Pairs : delivered[p] > 1 => p \in lost

\* A step that delivers overtakes no older queued message to the receiver,
\* except one that this pass has already tried and left queued.
OvertakesNothing ==
  \A s \in Subs, m, k \in Msgs :
    /\ delivered'[<<s, m>>] # delivered[<<s, m>>]
    /\ k < m
    /\ \E i \in Unsent : Pair(row[i]) = <<s, k>>
    => <<s, k>> \in tried

\* A receiver gets messages in the order they were posted.
DeliveredInOrder == [][OvertakesNothing]_vars

\* A queued notification to a healthy receiver is delivered in the end, and
\* receivers that never accept do not stand in its way; provided the alert
\* channel stays an smtp channel and the loop runs.
DeliveredEventually ==
  \A p \in Healthy \X Msgs :
    p \in owed ~> \/ delivered[p] > 0
                  \/ p \notin owed
                  \/ p \in clash
                  \/ setting # "smtp"
                  \/ drain = "exited"

-----------------------------------------------------------------------------
(* Refinement *)

\* The queue as an outbox: what is unsent is pending, what the pass has not
\* tried is carried, and in doubt is what shares a rowid with what it holds.
O == INSTANCE Outbox WITH
  Receivers <- Subs,
  Last <- MaxMsg,
  pending <- {Pair(row[i]) : i \in Unsent},
  carried <- {Pair(n) : n \in batch},
  received <- delivered,
  doubtful <- clash

\* The passes, rowids, cascades, stamps and restarts of the queue implement the
\* outbox: a notification leaves it only delivered or withdrawn, and each pass
\* delivers in order.
ImplementsOutbox == O!Spec

-----------------------------------------------------------------------------
(* Properties the comments and tests state and the code does not have *)

\* A stamped notification was delivered.
StampedWasDelivered ==
  \A i \in Used : row[i].sent => delivered[Pair(row[i])] > 0

\* Everything unsent is delivered, whatever the alert email channel is.
SlackDeliveredEventually ==
  \A p \in (Healthy \cap SlackSubs) \X Msgs :
    p \in owed ~> \/ delivered[p] > 0
                  \/ p \notin owed
                  \/ p \in clash
                  \/ drain = "exited"

\* Every alert email carries its receiver's unsubscribe token.
EmailCarriesToken ==
  [][\A s \in EmailSubs, m \in Msgs :
       delivered'[<<s, m>>] # delivered[<<s, m>>] => s \in tokens]_vars

=============================================================================
