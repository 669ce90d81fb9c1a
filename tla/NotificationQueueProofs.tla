----------------------- MODULE NotificationQueueProofs -----------------------
(***************************************************************************)
(* Proofs that the notification queue loses nothing, repeats a delivery    *)
(* only when the record of the first was lost, and delivers in order, for  *)
(* every set of subscriptions and every number of messages, rows and       *)
(* restarts.                                                               *)
(*                                                                         *)
(* The argument follows the ids a pass holds.  A held id either still      *)
(* names the row it was read from, names no row, or was reused, and then   *)
(* the new row's pair is in clash (HeldIds).  So a stamp only ever hides a *)
(* delivered pair or a clash: NothingLost.  Pairs have one row and one     *)
(* item each (the Unique parts), and a pair that was delivered and         *)
(* recorded is neither unsent nor waiting in the batch (Recorded).         *)
(* The same invariant carries the refinement of Outbox: the pairs of unsent*)
(* rows are what is pending, and a stamp hides at most one of them, which  *)
(* HeldIds says the outbox may let go.                                     *)
(***************************************************************************)
EXTENDS NotificationQueue, TLAPS

HeldItems == batch \cup inflight

\* A notification in flight has been delivered, and only a stamping pass has
\* one.
InflightInv ==
  /\ inflight # {} => drain = "stamping"
  /\ \A n \in inflight : delivered[Pair(n)] > 0

\* Rows are only of pairs that are still owed.
RowsOwed == \A i \in Used : Pair(row[i]) \in owed

\* An id the pass holds names its own notification, or a clash.
HeldIds ==
  \A n \in HeldItems :
    n.id \in Used => Pair(row[n.id]) = Pair(n) \/ Pair(row[n.id]) \in clash

\* Nothing refers to a message that was not posted yet.
PostedInv ==
  /\ \A i \in Used : row[i].msg <= posted
  /\ \A n \in HeldItems : n.msg <= posted
  /\ \A p \in Pairs : delivered[p] > 0 => p[2] <= posted

\* A pair has one row, and an item of the pass has that row's id.
UniqueRows ==
  /\ \A i, j \in Used : Pair(row[i]) = Pair(row[j]) => i = j
  /\ \A n \in HeldItems, i \in Used : Pair(row[i]) = Pair(n) => i = n.id
  /\ \A n, o \in HeldItems : Pair(n) = Pair(o) => n = o
  /\ batch \cap inflight = {}

\* A pair whose delivery is on record is not waiting to be delivered again.
Recorded ==
  \A p \in Pairs :
    delivered[p] > 0 /\ p \notin lost =>
      /\ \A n \in batch : Pair(n) # p
      /\ \A i \in Unsent : Pair(row[i]) = p => \E n \in inflight : Pair(n) = p

\* What is queued before an item of the batch is in the batch or was tried.
InOrder ==
  \A n \in batch, i \in Unsent :
    row[i].msg < n.msg =>
      Pair(row[i]) \in tried \/ \E o \in batch : Pair(o) = Pair(row[i])

\* All of it but the types.
QueueInv ==
  /\ InflightInv
  /\ RowsOwed
  /\ HeldIds
  /\ PostedInv
  /\ UniqueRows
  /\ Recorded
  /\ InOrder
  /\ NothingLost
  /\ DuplicateOnlyIfRecordLost

IInv == TypeOK /\ QueueInv

-----------------------------------------------------------------------------
(* Types *)

\* Inserting the rows of one message keeps the tables well formed.
LEMMA EnqueueTypes ==
  ASSUME TypeOK, NEW m \in Msgs, Enqueue(m)
  PROVE  /\ row' \in [Ids -> Rows \cup {NoRow}]
         /\ owed' \subseteq Pairs
         /\ clash' \subseteq Pairs
<1> DEFINE active == {s \in Subs : sub[s] = "active"}
<1>1. PICK idOf \in [active -> Ids] :
        LET ids == {idOf[s] : s \in active}
            who(i) == CHOOSE s \in active : idOf[s] = i
        IN  /\ row' = [i \in Ids |->
                         IF i \in ids THEN [sub |-> who(i), msg |-> m, sent |-> FALSE]
                         ELSE row[i]]
            /\ owed' = owed \cup {<<s, m>> : s \in active}
            /\ clash' = clash \cup {<<s, m>> : s \in {t \in active : idOf[t] \in Held}}
  BY DEF Enqueue
<1> DEFINE ids == {idOf[s] : s \in active}
           who(i) == CHOOSE s \in active : idOf[s] = i
<1>2. \A i \in ids : who(i) \in Subs
  OBVIOUS
<1>3. \A i \in ids : [sub |-> who(i), msg |-> m, sent |-> FALSE] \in Rows
  BY <1>2 DEF Rows
<1>4. row' = [i \in Ids |->
                 IF i \in ids THEN [sub |-> who(i), msg |-> m, sent |-> FALSE]
                 ELSE row[i]]
  BY <1>1
<1>5. owed' = owed \cup {<<s, m>> : s \in active}
  BY <1>1
<1>6. clash' = clash \cup {<<s, m>> : s \in {t \in active : idOf[t] \in Held}}
  BY <1>1
<1>7. row \in [Ids -> Rows \cup {NoRow}] /\ owed \subseteq Pairs /\ clash \subseteq Pairs
  BY DEF TypeOK
<1>8. \A s \in active : <<s, m>> \in Pairs
  BY DEF Pairs
<1> HIDE DEF ids, who
<1>9. row' \in [Ids -> Rows \cup {NoRow}]
  BY ONLY <1>3, <1>4, <1>7
<1> HIDE DEF active
<1>10. owed' \subseteq Pairs /\ clash' \subseteq Pairs
  BY ONLY <1>5, <1>6, <1>7, <1>8
<1>11. QED
  BY <1>9, <1>10

\* Type correctness is preserved by every step.
LEMMA TypeStep == TypeOK /\ [Next]_vars => TypeOK'
<1> SUFFICES ASSUME TypeOK, [Next]_vars PROVE TypeOK'
  OBVIOUS
<1> USE BoundsAssumption, ChannelsAssumption DEF TypeOK, OneInFlight, tables, pass, history
<1>1. ASSUME posted < MaxMsg, posted' = posted + 1, Enqueue(posted + 1),
             alerts' \subseteq Msgs, alertOf' \in [Msgs -> 0..MaxMsg],
             UNCHANGED <<sub, setting, restarts, pass, delivered, lost, tried>>
      PROVE  TypeOK'
  <2>1. posted + 1 \in Msgs
    BY <1>1 DEF Msgs
  <2>2. /\ row' \in [Ids -> Rows \cup {NoRow}]
        /\ owed' \subseteq Pairs
        /\ clash' \subseteq Pairs
    BY <1>1, <2>1, EnqueueTypes
  <2>3. QED
    BY <1>1, <2>1, <2>2 DEF Msgs
<1>2. CASE CreateAlert
  <2>1. posted < MaxMsg /\ posted + 1 \in Msgs
    BY <1>2 DEF CreateAlert, Msgs
  <2>2. alerts' \subseteq Msgs
    BY <1>2, <2>1 DEF CreateAlert
  <2>3. alertOf' \in [Msgs -> 0..MaxMsg]
    BY <1>2, <2>1 DEF CreateAlert, Msgs
  <2>4. QED
    BY <1>1, <1>2, <2>1, <2>2, <2>3 DEF CreateAlert
<1>3. ASSUME NEW a \in Msgs, AddAlertMessage(a) PROVE TypeOK'
  <2>1. posted < MaxMsg /\ alerts' \subseteq Msgs
    BY <1>3 DEF AddAlertMessage
  <2>2. alertOf' \in [Msgs -> 0..MaxMsg]
    BY <1>3 DEF AddAlertMessage, Msgs
  <2>3. QED
    BY <1>1, <1>3, <2>1, <2>2 DEF AddAlertMessage
<1>4. ASSUME NEW ss, NEW ms, Cascade(ss, ms)
       PROVE  /\ row' \in [Ids -> Rows \cup {NoRow}]
              /\ owed' \subseteq Pairs
              /\ clash' \subseteq Pairs
  BY <1>4 DEF Cascade
<1>5. ASSUME NEW a \in Msgs, DeleteAlert(a) PROVE TypeOK'
  <2>1. alertOf' \in [Msgs -> 0..MaxMsg] /\ alerts' \subseteq Msgs
    BY <1>5 DEF DeleteAlert, Msgs
  <2>2. QED
    BY <1>4, <1>5, <2>1 DEF DeleteAlert
<1>6. ASSUME NEW m \in Msgs, DeleteAlertMessage(m) PROVE TypeOK'
  <2>1. alertOf' \in [Msgs -> 0..MaxMsg]
    BY <1>6 DEF DeleteAlertMessage
  <2>2. QED
    BY <1>4, <1>6, <2>1 DEF DeleteAlertMessage
<1>7. ASSUME NEW s \in Subs, InstallSlack(s) PROVE TypeOK'
  BY <1>4, <1>7 DEF InstallSlack
<1>8. CASE \E s \in Subs : SubscribeEmail(s) \/ UnsubscribeEmail(s)
  BY <1>8 DEF SubscribeEmail, UnsubscribeEmail
<1>9. CASE \E c \in Channels : SetAlertChannel(c)
  BY <1>9 DEF SetAlertChannel
<1>10. CASE \E ids \in SUBSET Ids : PruneAlertNotifications(ids)
  BY <1>10 DEF PruneAlertNotifications
<1>11. CASE ListUnsentAlertNotifications
  <2>1. \A i \in Unsent : [id |-> i, sub |-> row[i].sub, msg |-> row[i].msg] \in Items
    BY DEF Unsent, Items, Rows
  <2>2. QED
    BY <1>11, <2>1 DEF ListUnsentAlertNotifications
<1>12. CASE ReadSettings \/ Abandon
  BY <1>12 DEF ReadSettings, Abandon
<1>13. ASSUME NEW n \in batch, Send(n) PROVE TypeOK'
  <2>1. Pair(n) \in Pairs
    BY DEF Pair, Pairs, Items
  <2>2. [delivered EXCEPT ![Pair(n)] = Bump(@)] \in [Pairs -> 0..2]
    BY <2>1 DEF Bump
  <2>3. QED
    BY <1>13, <2>1, <2>2 DEF Send, Accept, AcceptUnheard, Reject
<1>14. CASE Stamp
  <2>1. \A i \in Ids : row[i] # NoRow => [row[i] EXCEPT !.sent = TRUE] \in Rows
    BY DEF Rows
  <2>2. QED
    BY <1>14, <2>1 DEF Stamp
<1>15. CASE StampFails \/ Restart
  <2>1. \A n \in inflight : Pair(n) \in Pairs
    BY DEF Pair, Pairs, Items
  <2>2. QED
    BY <1>15, <2>1 DEF StampFails, Restart
<1>16. CASE EndPass \/ ExitLoop \/ UNCHANGED vars
  BY <1>16 DEF EndPass, ExitLoop, vars
<1>17. QED
  BY <1>2, <1>3, <1>5, <1>6, <1>7, <1>8, <1>9, <1>10, <1>11, <1>12, <1>13, <1>14,
     <1>15, <1>16
  DEF Next, Drain, Operator, Process

-----------------------------------------------------------------------------
(* Posting *)

\* What inserting the notifications of message m does to the table: the new
\* ids were free, one for each new pair, and those the pass holds clash.
LEMMA EnqueueFacts ==
  ASSUME TypeOK, NEW m \in Msgs, Enqueue(m)
  PROVE  \E new \in SUBSET (Ids \ Used) :
           /\ \A i \in Ids \ new : row'[i] = row[i]
           /\ \A i \in new : /\ row'[i] \in Rows
                             /\ ~row'[i].sent
                             /\ row'[i].msg = m
                             /\ Pair(row'[i]) \in owed'
                             /\ i \in Held => Pair(row'[i]) \in clash'
           /\ \A i, j \in new : Pair(row'[i]) = Pair(row'[j]) => i = j
           /\ owed \subseteq owed'
           /\ clash \subseteq clash'
           /\ \A p \in owed' \ owed : \E i \in new : Pair(row'[i]) = p
<1> DEFINE active == {s \in Subs : sub[s] = "active"}
<1>1. PICK idOf \in [active -> Ids] :
        LET ids == {idOf[s] : s \in active}
            who(i) == CHOOSE s \in active : idOf[s] = i
        IN  /\ \A s, t \in active : idOf[s] = idOf[t] => s = t
            /\ NextRowids(ids)
            /\ row' = [i \in Ids |->
                         IF i \in ids THEN [sub |-> who(i), msg |-> m, sent |-> FALSE]
                         ELSE row[i]]
            /\ owed' = owed \cup {<<s, m>> : s \in active}
            /\ clash' = clash \cup {<<s, m>> : s \in {t \in active : idOf[t] \in Held}}
  BY DEF Enqueue
<1> DEFINE ids == {idOf[s] : s \in active}
           who(i) == CHOOSE s \in active : idOf[s] = i
<1>2. \A i \in ids : who(i) \in active /\ idOf[who(i)] = i
  OBVIOUS
<1>3. ids \subseteq Ids
  OBVIOUS
<1>4. \A i \in ids : i \notin Used
  <2>1. \A i \in ids, j \in Used : j < i
    BY <1>1 DEF NextRowids
  <2>2. QED
    BY <1>3, <2>1 DEF Used, Ids
<1>5. \A i \in Ids : row'[i] = IF i \in ids
                               THEN [sub |-> who(i), msg |-> m, sent |-> FALSE]
                               ELSE row[i]
  BY <1>1
<1>6. \A s \in active : s \in Subs /\ who(idOf[s]) = s /\ idOf[s] \in ids
  BY <1>1, <1>2
<1>7. owed' = owed \cup {<<s, m>> : s \in active}
  BY <1>1
<1>8. clash' = clash \cup {<<s, m>> : s \in {t \in active : idOf[t] \in Held}}
  BY <1>1
<1> HIDE DEF ids, who
<1>9. \A i \in ids : /\ row'[i] = [sub |-> who(i), msg |-> m, sent |-> FALSE]
                     /\ Pair(row'[i]) = <<who(i), m>>
  BY <1>3, <1>5 DEF Pair
<1>10. \A i \in ids : row'[i] \in Rows /\ ~row'[i].sent /\ row'[i].msg = m
  <2>1. \A u \in Subs : LET new == [sub |-> u, msg |-> m, sent |-> FALSE]
                        IN  new \in Rows /\ ~new.sent /\ new.msg = m
    BY DEF Rows
  <2>2. \A i \in ids : who(i) \in Subs
    BY <1>2
  <2>3. QED
    BY <1>9, <2>1, <2>2
<1> HIDE DEF active
<1>11. \A i \in ids : Pair(row'[i]) \in owed' /\ (i \in Held => Pair(row'[i]) \in clash')
  BY <1>2, <1>7, <1>8, <1>9
<1>12. \A i, j \in ids : Pair(row'[i]) = Pair(row'[j]) => i = j
  <2> SUFFICES ASSUME NEW i \in ids, NEW j \in ids, Pair(row'[i]) = Pair(row'[j])
               PROVE  i = j
    OBVIOUS
  <2>1. who(i) = who(j)
    BY <1>9 DEF Pair
  <2>2. QED
    BY <1>2, <2>1
<1>13. \A p \in owed' \ owed : \E i \in ids : Pair(row'[i]) = p
  BY <1>6, <1>7, <1>9
<1>14. ids \in SUBSET (Ids \ Used)
  BY <1>3, <1>4
<1>15. \A i \in Ids \ ids : row'[i] = row[i]
  BY <1>5
<1>16. owed \subseteq owed' /\ clash \subseteq clash'
  BY <1>7, <1>8
<1>17. QED
  BY <1>10, <1>11, <1>12, <1>13, <1>14, <1>15, <1>16

\* Posting a message keeps the invariant.
LEMMA EnqueueStep ==
  ASSUME TypeOK, QueueInv, posted < MaxMsg, posted' = posted + 1,
         Enqueue(posted + 1), UNCHANGED <<pass, delivered, lost, tried>>
  PROVE  QueueInv'
<1>1. posted + 1 \in Msgs /\ posted \in Nat
  BY BoundsAssumption DEF TypeOK, Msgs
<1>2. PICK new \in SUBSET (Ids \ Used) :
        /\ \A i \in Ids \ new : row'[i] = row[i]
        /\ \A i \in new : /\ row'[i] \in Rows
                          /\ ~row'[i].sent
                          /\ row'[i].msg = posted + 1
                          /\ Pair(row'[i]) \in owed'
                          /\ i \in Held => Pair(row'[i]) \in clash'
        /\ \A i, j \in new : Pair(row'[i]) = Pair(row'[j]) => i = j
        /\ owed \subseteq owed'
        /\ clash \subseteq clash'
        /\ \A p \in owed' \ owed : \E i \in new : Pair(row'[i]) = p
  BY <1>1, EnqueueFacts
<1>3. UNCHANGED <<drain, batch, inflight, delivered, lost, tried>>
  BY DEF pass
<1>4. Used' = Used \cup new
  BY <1>2 DEF Used, NoRow
<1>5. Unsent' = Unsent \cup new
  BY <1>2 DEF Used, Unsent, NoRow
<1>6. \A i \in Used : i \in Ids /\ i \notin new /\ row'[i] = row[i]
  BY <1>2 DEF Used
<1>7. HeldItems' = HeldItems /\ HeldItems \subseteq Items
  BY <1>3 DEF HeldItems, TypeOK, OneInFlight
<1>8. \A i \in Used : row[i] \in Rows /\ row[i].msg <= posted
  BY DEF QueueInv, PostedInv, Used, TypeOK
<1>9. \A i \in Used : row[i].msg \in Nat /\ row[i].msg # posted + 1
  BY <1>1, <1>8 DEF Rows, Msgs
<1>10. \A n \in HeldItems : n.msg \in Nat /\ n.msg <= posted /\ n.id \in Ids
  BY <1>7 DEF Items, Msgs, QueueInv, PostedInv
<1>11. InflightInv'
  BY <1>3 DEF QueueInv, InflightInv
<1>12. RowsOwed'
  BY <1>2, <1>4, <1>6 DEF QueueInv, RowsOwed
<1>13. HeldIds'
  <2>1. \A n \in HeldItems : n.id \in Held
    BY DEF HeldItems, Held
  <2>2. QED
    BY <1>2, <1>4, <1>6, <1>7, <2>1 DEF QueueInv, HeldIds
<1>14. PostedInv'
  <2>1. \A i \in Used' : row'[i].msg <= posted'
    BY <1>1, <1>2, <1>4, <1>6, <1>8, <1>9
  <2>2. \A n \in HeldItems' : n.msg <= posted'
    BY <1>1, <1>7, <1>10
  <2>3. \A p \in Pairs : delivered'[p] > 0 => p[2] <= posted'
    BY <1>1, <1>3 DEF QueueInv, PostedInv, Pairs, Msgs
  <2>4. QED
    BY <2>1, <2>2, <2>3 DEF PostedInv
<1>15. UniqueRows'
  <2>1. \A i \in new, j \in Used : Pair(row'[i]) # Pair(row'[j])
    BY <1>2, <1>6, <1>9 DEF Pair
  <2>2. \A n \in HeldItems, i \in new : Pair(row'[i]) # Pair(n)
    <3>1. \A n \in HeldItems, i \in new : row'[i].msg # n.msg
      BY <1>1, <1>2, <1>10
    <3>2. QED
      BY <3>1 DEF Pair
  <2>3. QED
    BY <1>2, <1>3, <1>4, <1>6, <1>7, <2>1, <2>2 DEF QueueInv, UniqueRows
<1>16. Recorded'
  <2>1. \A i \in new, p \in Pairs : Pair(row'[i]) = p => p[2] = posted + 1
    BY <1>2 DEF Pair
  <2>2. \A i \in new, p \in Pairs : Pair(row'[i]) = p => ~(delivered[p] > 0)
    BY <1>1, <2>1 DEF QueueInv, PostedInv, Pairs
  <2>3. Unsent \subseteq Used
    BY DEF Used, Unsent
  <2>4. QED
    BY <1>3, <1>5, <1>6, <2>2, <2>3 DEF QueueInv, Recorded
<1>17. InOrder'
  <2>1. \A n \in batch, i \in new : ~(row'[i].msg < n.msg)
    BY <1>1, <1>2, <1>10 DEF HeldItems
  <2>2. Unsent \subseteq Used
    BY DEF Used, Unsent
  <2>3. QED
    BY <1>3, <1>5, <1>6, <2>1, <2>2 DEF QueueInv, InOrder
<1>18. NothingLost'
  <2>1. Unsent \subseteq Used
    BY DEF Used, Unsent
  <2>2. QED
    BY <1>2, <1>3, <1>5, <1>6, <2>1 DEF QueueInv, NothingLost
<1>19. DuplicateOnlyIfRecordLost'
  BY <1>3 DEF QueueInv, DuplicateOnlyIfRecordLost
<1>20. QED
  BY <1>11, <1>12, <1>13, <1>14, <1>15, <1>16, <1>17, <1>18, <1>19 DEF QueueInv

-----------------------------------------------------------------------------
(* Deleting and pruning *)

\* Removing rows keeps the invariant when every unsent one that goes is no
\* longer owed.
LEMMA ShrinkStep ==
  ASSUME TypeOK, QueueInv, NEW gone \in SUBSET Ids,
         \A i \in Ids : row'[i] = IF i \in gone THEN NoRow ELSE row[i],
         \A i \in Used \ gone : Pair(row[i]) \in owed',
         \A i \in Unsent \cap gone : Pair(row[i]) \notin owed',
         owed' \subseteq owed, clash' \subseteq clash, clash \cap owed' \subseteq clash',
         UNCHANGED <<posted, pass, delivered, lost, tried>>
  PROVE  QueueInv'
<1>1. UNCHANGED <<drain, batch, inflight, delivered, lost, tried, posted>>
  BY DEF pass
<1>2. Used' = Used \ gone /\ Unsent' = Unsent \ gone /\ Unsent \subseteq Used
  BY DEF Used, Unsent
<1>3. \A i \in Used' : i \in Used /\ row'[i] = row[i]
  BY <1>2 DEF Used
<1>4. HeldItems' = HeldItems
  BY <1>1 DEF HeldItems
<1>5. InflightInv' /\ DuplicateOnlyIfRecordLost'
  BY <1>1 DEF QueueInv, InflightInv, DuplicateOnlyIfRecordLost
<1>6. RowsOwed'
  BY <1>2, <1>3 DEF RowsOwed
<1>7. HeldIds'
  BY <1>3, <1>4, <1>6 DEF QueueInv, HeldIds, RowsOwed
<1>8. PostedInv'
  BY <1>1, <1>3, <1>4 DEF QueueInv, PostedInv
<1>9. UniqueRows'
  BY <1>1, <1>3, <1>4 DEF QueueInv, UniqueRows
<1>10. Recorded'
  BY <1>1, <1>2, <1>3 DEF QueueInv, Recorded
<1>11. InOrder'
  BY <1>1, <1>2, <1>3 DEF QueueInv, InOrder
<1>12. NothingLost'
  <2> SUFFICES ASSUME NEW q \in owed', q \notin clash', ~(delivered'[q] > 0)
               PROVE  \E i \in Unsent' : Pair(row'[i]) = q
    BY DEF NothingLost
  <2>1. q \in owed \ clash /\ ~(delivered[q] > 0)
    BY <1>1
  <2>2. PICK i \in Unsent : Pair(row[i]) = q
    BY <2>1 DEF QueueInv, NothingLost
  <2>3. i \in Unsent'
    BY <1>2, <2>2
  <2>4. row'[i] = row[i]
    BY <1>2, <1>3, <2>3
  <2>5. Pair(row'[i]) = q
    BY <2>2, <2>4
  <2>6. QED
    BY <2>3, <2>5
<1>13. QED
  BY <1>5, <1>6, <1>7, <1>8, <1>9, <1>10, <1>11, <1>12 DEF QueueInv

\* A foreign key cascade takes the rows and the claims on them together.
LEMMA CascadeStep ==
  ASSUME TypeOK, QueueInv, NEW ss, NEW ms, Cascade(ss, ms),
         UNCHANGED <<posted, pass, delivered, lost, tried>>
  PROVE  QueueInv'
<1> DEFINE gone == {i \in Used : row[i].sub \in ss \/ row[i].msg \in ms}
<1>1. \A i \in Ids : row'[i] = IF i \in gone THEN NoRow ELSE row[i]
  BY DEF Cascade, Used
<1>2. \A i \in Used : Pair(row[i])[1] = row[i].sub /\ Pair(row[i])[2] = row[i].msg
  BY DEF Pair
<1>3. \A i \in Used \ gone : Pair(row[i]) \in owed'
  BY <1>2 DEF Cascade, QueueInv, RowsOwed
<1>4. \A i \in gone : Pair(row[i]) \notin owed'
  BY <1>2 DEF Cascade
<1>5. owed' \subseteq owed /\ clash' = clash \cap owed'
  BY DEF Cascade
<1>6. gone \in SUBSET Ids
  BY DEF Used
<1> HIDE DEF gone
<1>7. QED
  BY <1>1, <1>3, <1>4, <1>5, <1>6, ShrinkStep

\* Retention only removes sent rows.
LEMMA PruneStep ==
  ASSUME TypeOK, QueueInv, NEW ids \in SUBSET Ids, PruneAlertNotifications(ids)
  PROVE  QueueInv'
<1>1. /\ \A i \in Ids : row'[i] = IF i \in ids THEN NoRow ELSE row[i]
      /\ Unsent \cap ids = {}
      /\ UNCHANGED <<posted, pass, delivered, lost, tried, owed, clash>>
  BY DEF PruneAlertNotifications, history
<1>2. \A i \in Used \ ids : Pair(row[i]) \in owed'
  BY <1>1 DEF QueueInv, RowsOwed
<1>3. QED
  BY <1>1, <1>2, ShrinkStep

-----------------------------------------------------------------------------
(* The steps of a pass *)

\* Steps that touch neither rows nor items.
LEMMA KeepStep ==
  ASSUME QueueInv, UNCHANGED <<posted, row, batch, inflight, history>>,
         inflight = {} \/ drain' = drain
  PROVE  QueueInv'
<1>1. UNCHANGED <<delivered, lost, owed, clash, tried>>
  BY DEF history
<1>2. Used' = Used /\ Unsent' = Unsent /\ HeldItems' = HeldItems
  BY DEF Used, Unsent, HeldItems
<1>3. QED
  BY <1>1, <1>2 DEF QueueInv, InflightInv, RowsOwed, HeldIds, PostedInv,
     UniqueRows, Recorded, InOrder, NothingLost, DuplicateOnlyIfRecordLost

\* Giving up what is left of a pass.
LEMMA DropBatchStep ==
  ASSUME QueueInv, UNCHANGED <<posted, row, delivered, owed, clash>>,
         batch' = {}, inflight' = {}, lost' = lost \cup {Pair(n) : n \in inflight}
  PROVE  QueueInv'
<1>1. Used' = Used /\ Unsent' = Unsent /\ HeldItems' = {}
  BY DEF Used, Unsent, HeldItems
<1>2. RowsOwed' /\ NothingLost' /\ DuplicateOnlyIfRecordLost'
  BY <1>1 DEF QueueInv, RowsOwed, NothingLost, DuplicateOnlyIfRecordLost
<1>3. InflightInv' /\ HeldIds' /\ InOrder'
  BY <1>1 DEF InflightInv, HeldIds, InOrder
<1>4. PostedInv' /\ UniqueRows'
  BY <1>1 DEF QueueInv, PostedInv, UniqueRows
<1>5. Recorded'
  BY <1>1 DEF QueueInv, Recorded
<1>6. QED
  BY <1>2, <1>3, <1>4, <1>5 DEF QueueInv

\* The snapshot holds every unsent row under its own id.
LEMMA ListStep ==
  ASSUME TypeOK, QueueInv, ListUnsentAlertNotifications
  PROVE  QueueInv'
<1> DEFINE item(i) == [id |-> i, sub |-> row[i].sub, msg |-> row[i].msg]
<1>1. /\ batch' = {item(i) : i \in Unsent}
      /\ UNCHANGED <<row, posted, inflight, delivered, lost, owed, clash, tried>>
      /\ inflight = {}
  BY DEF ListUnsentAlertNotifications, tables, history, QueueInv, InflightInv
<1>2. Used' = Used /\ Unsent' = Unsent /\ HeldItems' = batch' /\ Unsent \subseteq Used
  BY <1>1 DEF Used, Unsent, HeldItems
<1>3. \A i \in Unsent : /\ item(i).id = i
                        /\ item(i).msg = row[i].msg
                        /\ Pair(item(i)) = Pair(row[i])
  BY DEF Pair
<1> HIDE DEF item
<1>4. InflightInv' /\ RowsOwed' /\ NothingLost' /\ DuplicateOnlyIfRecordLost'
  BY <1>1, <1>2 DEF QueueInv, InflightInv, RowsOwed, NothingLost,
                    DuplicateOnlyIfRecordLost
<1>5. HeldIds'
  BY <1>1, <1>2, <1>3 DEF HeldIds
<1>6. PostedInv'
  BY <1>1, <1>2, <1>3 DEF QueueInv, PostedInv
<1>7. UniqueRows'
  BY <1>1, <1>2, <1>3 DEF QueueInv, UniqueRows
<1>8. Recorded'
  BY <1>1, <1>2, <1>3 DEF QueueInv, Recorded
<1>9. InOrder'
  BY <1>1, <1>2, <1>3 DEF InOrder
<1>10. QED
  BY <1>4, <1>5, <1>6, <1>7, <1>8, <1>9 DEF QueueInv

\* A notification leaves the batch: with a delivery on its way to be stamped,
\* with one that is not recorded, or with none.
LEMMA SendStep ==
  ASSUME TypeOK, QueueInv, NEW n \in batch, Send(n)
  PROVE  QueueInv'
<1>1. /\ drain = "sending" /\ inflight = {}
      /\ First(n)
      /\ batch' = batch \ {n}
      /\ tried' = tried \cup {Pair(n)}
      /\ UNCHANGED <<row, posted, owed, clash>>
  BY DEF Send, Accept, AcceptUnheard, Reject, tables, QueueInv, InflightInv
<1>2. Used' = Used /\ Unsent' = Unsent /\ Unsent \subseteq Used
  BY <1>1 DEF Used, Unsent
<1>3. n \in Items /\ n \in HeldItems /\ Pair(n) \in Pairs
  BY DEF TypeOK, HeldItems, Items, Pair, Pairs
<1>4. \/ /\ Accept(n)
         /\ inflight' = {n} /\ drain' = "stamping" /\ UNCHANGED lost
         /\ delivered' = [delivered EXCEPT ![Pair(n)] = Bump(@)]
      \/ /\ AcceptUnheard(n)
         /\ UNCHANGED <<inflight, drain>> /\ lost' = lost \cup {Pair(n)}
         /\ delivered' = [delivered EXCEPT ![Pair(n)] = Bump(@)]
      \/ UNCHANGED <<inflight, drain, delivered, lost>>
  BY DEF Send, Accept, AcceptUnheard, Reject
<1>5. HeldItems' \subseteq HeldItems
  BY <1>1, <1>4 DEF HeldItems
<1>6. delivered \in [Pairs -> 0..2] /\ delivered[Pair(n)] \in 0..2
  BY <1>3 DEF TypeOK
<1>7. \A p \in Pairs : /\ p # Pair(n) => delivered'[p] = delivered[p]
                       /\ delivered[p] > 0 => delivered'[p] > 0
  BY <1>4, <1>6 DEF Bump
<1>8. InflightInv'
  <2>1. CASE Accept(n)
    <3>1. inflight' = {n} /\ drain' = "stamping" /\ delivered'[Pair(n)] = Bump(delivered[Pair(n)])
      BY <1>3, <1>6, <2>1 DEF Accept
    <3>2. delivered'[Pair(n)] > 0
      BY <3>1 DEF Bump
    <3>3. QED
      BY <3>1, <3>2 DEF InflightInv
  <2>2. CASE inflight' = {}
    BY <2>2 DEF InflightInv
  <2>3. QED
    BY <1>1, <1>4, <2>1, <2>2
<1>9. RowsOwed'
  BY <1>1, <1>2 DEF QueueInv, RowsOwed
<1>10. HeldIds'
  BY <1>1, <1>2, <1>5 DEF QueueInv, HeldIds
<1>11. PostedInv'
  <2>1. \A i \in Used' : row'[i].msg <= posted'
    BY <1>1, <1>2 DEF QueueInv, PostedInv
  <2>2. \A o \in HeldItems' : o.msg <= posted'
    BY <1>1, <1>5 DEF QueueInv, PostedInv
  <2>3. Pair(n)[2] <= posted
    BY <1>3 DEF QueueInv, PostedInv, Pair
  <2>4. \A p \in Pairs : delivered'[p] > 0 => p[2] <= posted'
    BY <1>1, <1>7, <2>3 DEF QueueInv, PostedInv
  <2>5. QED
    BY <2>1, <2>2, <2>4 DEF PostedInv
<1>12. UniqueRows'
  BY <1>1, <1>2, <1>4, <1>5 DEF QueueInv, UniqueRows
<1>13. \A o \in batch' : Pair(o) # Pair(n)
  BY <1>1, <1>3 DEF QueueInv, UniqueRows, HeldItems
<1>14. Recorded'
  <2> SUFFICES ASSUME NEW p \in Pairs, delivered'[p] > 0, p \notin lost'
               PROVE  /\ \A o \in batch' : Pair(o) # p
                      /\ \A i \in Unsent : Pair(row[i]) = p =>
                                             \E o \in inflight' : Pair(o) = p
    BY <1>1, <1>2 DEF Recorded
  <2>1. CASE p # Pair(n)
    <3>1. delivered[p] > 0 /\ p \notin lost
      BY <1>4, <1>7, <2>1
    <3>2. QED
      BY <1>1, <3>1 DEF QueueInv, Recorded
  <2>2. CASE p = Pair(n) /\ inflight' = {n}
    BY <1>13, <2>2
  <2>3. CASE p = Pair(n) /\ inflight' # {n}
    <3>1. UNCHANGED <<inflight, drain, delivered, lost>>
      BY <1>4, <2>3
    <3>2. delivered[p] > 0 /\ p \notin lost
      BY <3>1
    <3>3. QED
      BY <2>3, <3>2 DEF QueueInv, Recorded
  <2>4. QED
    BY <2>1, <2>2, <2>3
<1>15. InOrder'
  <2> SUFFICES ASSUME NEW o \in batch', NEW i \in Unsent, row[i].msg < o.msg
               PROVE  Pair(row[i]) \in tried' \/ \E q \in batch' : Pair(q) = Pair(row[i])
    BY <1>1, <1>2 DEF InOrder
  <2>1. CASE Pair(row[i]) \in tried
    BY <1>1, <2>1
  <2>2. ASSUME NEW q \in batch, Pair(q) = Pair(row[i])
        PROVE  Pair(row[i]) \in tried' \/ \E r \in batch' : Pair(r) = Pair(row[i])
    BY <1>1, <2>2
  <2>3. QED
    BY <1>1, <2>1, <2>2 DEF QueueInv, InOrder
<1>16. NothingLost'
  <2> SUFFICES ASSUME NEW p \in owed \ clash, ~(delivered'[p] > 0)
               PROVE  \E i \in Unsent : Pair(row[i]) = p
    BY <1>1, <1>2 DEF NothingLost
  <2>1. p \in Pairs
    BY DEF TypeOK
  <2>2. QED
    BY <1>7, <2>1 DEF QueueInv, NothingLost
<1>17. DuplicateOnlyIfRecordLost'
  <2> SUFFICES ASSUME NEW p \in Pairs, delivered'[p] > 1
               PROVE  p \in lost'
    BY DEF DuplicateOnlyIfRecordLost
  <2>1. CASE delivered'[p] = delivered[p]
    BY <1>4, <2>1 DEF QueueInv, DuplicateOnlyIfRecordLost
  <2>2. CASE delivered'[p] # delivered[p]
    <3>1. p = Pair(n) /\ delivered'[p] = Bump(delivered[p])
      BY <1>3, <1>4, <1>6, <1>7, <2>2
    <3>2. delivered[p] > 0
      BY <1>6, <3>1 DEF Bump
    <3>3. p \in lost
      BY <3>1, <3>2 DEF QueueInv, Recorded
    <3>4. QED
      BY <1>4, <3>3
  <2>3. QED
    BY <2>1, <2>2
<1>18. QED
  BY <1>8, <1>9, <1>10, <1>11, <1>12, <1>14, <1>15, <1>16, <1>17 DEF QueueInv

\* Stamping hides a delivered pair or a clash, and nothing else.
LEMMA StampStep ==
  ASSUME TypeOK, QueueInv, Stamp
  PROVE  QueueInv'
<1> DEFINE done == {n.id : n \in inflight}
<1>1. /\ \A i \in Ids : row'[i] = IF row[i] # NoRow /\ i \in done
                                  THEN [row[i] EXCEPT !.sent = TRUE] ELSE row[i]
      /\ inflight' = {}
      /\ UNCHANGED <<posted, batch, delivered, lost, owed, clash, tried>>
  BY DEF Stamp, history
<1>2. \A i \in Used : i \in Ids /\ row[i] \in Rows /\ row[i] # NoRow
  BY DEF Used, TypeOK
<1>3. \A i \in Used : row'[i].sub = row[i].sub /\ row'[i].msg = row[i].msg
  BY <1>1, <1>2 DEF Rows
<1>4. \A i \in Used : Pair(row'[i]) = Pair(row[i])
  BY <1>3 DEF Pair
<1>5. Used' \subseteq Used
  BY <1>1 DEF Used
<1>6. \A i \in Used : row'[i].sent = (row[i].sent \/ i \in done)
  BY <1>1, <1>2 DEF Rows
<1>7. Unsent' = Unsent \ done
  <2>1. \A i \in Unsent \ done : i \in Unsent'
    BY <1>1 DEF Unsent
  <2>2. \A i \in Unsent' : i \in Unsent /\ i \notin done
    BY <1>5, <1>6 DEF Unsent, Used
  <2>3. QED
    BY <2>1, <2>2
<1>8. HeldItems' = batch /\ Unsent \subseteq Used
  BY <1>1 DEF HeldItems, Unsent, Used
<1> HIDE DEF done
<1>9. InflightInv' /\ DuplicateOnlyIfRecordLost'
  BY <1>1 DEF QueueInv, InflightInv, DuplicateOnlyIfRecordLost
<1>10. RowsOwed'
  BY <1>1, <1>4, <1>5 DEF QueueInv, RowsOwed
<1>11. HeldIds'
  BY <1>1, <1>4, <1>5, <1>8 DEF QueueInv, HeldIds, HeldItems
<1>12. PostedInv'
  BY <1>1, <1>3, <1>5, <1>8 DEF QueueInv, PostedInv, HeldItems
<1>13. UniqueRows'
  BY <1>1, <1>4, <1>5, <1>8 DEF QueueInv, UniqueRows, HeldItems
<1>14. \A n \in inflight, i \in Unsent : Pair(row[i]) = Pair(n) => i \in done
  BY <1>8 DEF done, QueueInv, UniqueRows, HeldItems
<1>15. Recorded'
  BY <1>1, <1>4, <1>7, <1>8, <1>14 DEF QueueInv, Recorded
<1>16. InOrder'
  <2>1. \A i \in Unsent' : i \in Unsent /\ i \in Used
    BY <1>7, <1>8
  <2>2. QED
    BY <1>1, <1>3, <1>4, <2>1 DEF QueueInv, InOrder
<1>17. NothingLost'
  <2> SUFFICES ASSUME NEW p \in owed \ clash, ~(delivered[p] > 0)
               PROVE  \E i \in Unsent' : Pair(row'[i]) = p
    BY <1>1 DEF NothingLost
  <2>1. PICK i \in Unsent : Pair(row[i]) = p
    BY DEF QueueInv, NothingLost
  <2>2. i \notin done
    <3> SUFFICES ASSUME NEW n \in inflight, n.id = i PROVE FALSE
      BY DEF done
    <3>1. Pair(row[i]) = Pair(n) \/ Pair(row[i]) \in clash
      BY <1>8 DEF QueueInv, HeldIds, HeldItems
    <3>2. delivered[Pair(n)] > 0
      BY DEF QueueInv, InflightInv
    <3>3. QED
      BY <2>1, <3>1, <3>2
  <2>3. QED
    BY <1>4, <1>7, <1>8, <2>1, <2>2
<1>18. QED
  BY <1>9, <1>10, <1>11, <1>12, <1>13, <1>15, <1>16, <1>17 DEF QueueInv

\* A failed stamp leaves the row unsent and the delivery unrecorded.
LEMMA StampFailsStep ==
  ASSUME TypeOK, QueueInv, StampFails
  PROVE  QueueInv'
<1>1. /\ inflight' = {}
      /\ lost' = lost \cup {Pair(n) : n \in inflight}
      /\ UNCHANGED <<row, posted, batch, delivered, owed, clash, tried>>
  BY DEF StampFails, tables
<1>2. Used' = Used /\ Unsent' = Unsent /\ HeldItems' = batch /\ batch \subseteq HeldItems
  BY <1>1 DEF Used, Unsent, HeldItems
<1>3. InflightInv' /\ RowsOwed' /\ NothingLost' /\ DuplicateOnlyIfRecordLost' /\ InOrder'
  BY <1>1, <1>2 DEF QueueInv, InflightInv, RowsOwed, NothingLost, InOrder,
                    DuplicateOnlyIfRecordLost
<1>4. HeldIds' /\ PostedInv' /\ UniqueRows'
  BY <1>1, <1>2 DEF QueueInv, HeldIds, PostedInv, UniqueRows
<1>5. Recorded'
  BY <1>1, <1>2 DEF QueueInv, Recorded
<1>6. QED
  BY <1>3, <1>4, <1>5 DEF QueueInv

-----------------------------------------------------------------------------
(* The invariant and what it implies *)

\* An empty installation satisfies the invariant.
LEMMA InitIInv == Init => IInv
<1> SUFFICES ASSUME Init PROVE IInv
  OBVIOUS
<1>1. Used = {} /\ Unsent = {} /\ HeldItems = {}
  BY DEF Init, Used, Unsent, HeldItems
<1>2. TypeOK
  BY BoundsAssumption, ChannelsAssumption DEF Init, TypeOK, OneInFlight
<1>3. QueueInv
  BY <1>1 DEF Init, QueueInv, InflightInv, RowsOwed, HeldIds, PostedInv, UniqueRows,
              Recorded, InOrder, NothingLost, DuplicateOnlyIfRecordLost
<1>4. QED
  BY <1>2, <1>3 DEF IInv

\* Every step keeps the invariant.
LEMMA InvStep == IInv /\ [Next]_vars => IInv'
<1> SUFFICES ASSUME IInv, [Next]_vars PROVE IInv'
  OBVIOUS
<1> USE DEF IInv
<1>1. TypeOK'
  BY TypeStep
<1>2. CASE CreateAlert \/ \E a \in Msgs : AddAlertMessage(a)
  BY <1>2, EnqueueStep, <1>1 DEF CreateAlert, AddAlertMessage
<1>3. CASE \E a \in Msgs : DeleteAlert(a)
  <2>1. PICK a \in Msgs : DeleteAlert(a)
    BY <1>3
  <2>2. Cascade({}, {m \in Msgs : alertOf[m] = a})
        /\ UNCHANGED <<posted, pass, delivered, lost, tried>>
    BY <2>1 DEF DeleteAlert
  <2>3. QED
    BY <1>1, <2>2, CascadeStep
<1>4. CASE \E m \in Msgs : DeleteAlertMessage(m)
  BY <1>1, <1>4, CascadeStep DEF DeleteAlertMessage
<1>5. CASE \E s \in Subs : InstallSlack(s)
  BY <1>1, <1>5, CascadeStep DEF InstallSlack
<1>6. CASE \E s \in Subs : SubscribeEmail(s) \/ UnsubscribeEmail(s)
  BY <1>1, <1>6, KeepStep DEF SubscribeEmail, UnsubscribeEmail, pass
<1>7. CASE \E c \in Channels : SetAlertChannel(c)
  BY <1>1, <1>7, KeepStep DEF SetAlertChannel, pass
<1>8. CASE \E ids \in SUBSET Ids : PruneAlertNotifications(ids)
  BY <1>1, <1>8, PruneStep
<1>9. CASE ListUnsentAlertNotifications
  BY <1>1, <1>9, ListStep
<1>10. CASE ReadSettings
  <2>1. inflight = {}
    BY <1>10 DEF ReadSettings, QueueInv, InflightInv
  <2>2. QED
    BY <1>1, <1>10, <2>1, KeepStep DEF ReadSettings, tables
<1>11. CASE Abandon \/ EndPass
  <2>1. inflight = {} /\ {Pair(n) : n \in inflight} = {}
    BY <1>11 DEF Abandon, EndPass, QueueInv, InflightInv
  <2>2. batch' = {} /\ inflight' = {} /\ UNCHANGED <<posted, row, delivered, lost, owed, clash>>
    BY <1>11, <2>1 DEF Abandon, EndPass, tables, history
  <2>3. QED
    BY <1>1, <2>1, <2>2, DropBatchStep
<1>12. CASE \E n \in batch : Send(n)
  BY <1>1, <1>12, SendStep
<1>13. CASE Stamp
  BY <1>1, <1>13, StampStep
<1>14. CASE StampFails
  BY <1>1, <1>14, StampFailsStep
<1>15. CASE ExitLoop
  <2>1. inflight = {}
    BY <1>15 DEF ExitLoop, QueueInv, InflightInv
  <2>2. QED
    BY <1>1, <1>15, <2>1, KeepStep DEF ExitLoop, tables
<1>16. CASE Restart
  BY <1>1, <1>16, DropBatchStep DEF Restart, tables
<1>17. CASE UNCHANGED vars
  BY <1>1, <1>17, KeepStep DEF vars, tables, pass
<1>18. QED
  BY <1>2, <1>3, <1>4, <1>5, <1>6, <1>7, <1>8, <1>9, <1>10, <1>11, <1>12, <1>13,
     <1>14, <1>15, <1>16, <1>17
  DEF Next, Drain, Operator, Process

\* IInv is an inductive invariant of the queue.
THEOREM Inductive == Spec => []IInv
  BY InitIInv, InvStep, PTL DEF Spec

\* The tables, the pass's variables and the histories keep their types.
THEOREM TypeCorrect == Spec => []TypeOK
<1>1. IInv => TypeOK
  BY DEF IInv
<1>2. QED
  BY <1>1, Inductive, PTL

\* No crash, failure, prune or race loses a queued notification, except by
\* giving its row an id that the running pass still holds.
THEOREM QueueLosesNothing == Spec => []NothingLost
<1>1. IInv => NothingLost
  BY DEF IInv, QueueInv
<1>2. QED
  BY <1>1, Inductive, PTL

\* A second delivery of a notification implies that the record of the first
\* was lost.
THEOREM DuplicatesExplained == Spec => []DuplicateOnlyIfRecordLost
<1>1. IInv => DuplicateOnlyIfRecordLost
  BY DEF IInv, QueueInv
<1>2. QED
  BY <1>1, Inductive, PTL

\* drainNotificationQueue delivers to each receiver in the order of posting,
\* except past a notification it has tried in this pass.
THEOREM DeliveryOrder == Spec => DeliveredInOrder
<1>1. ASSUME IInv, [Next]_vars
      PROVE  [OvertakesNothing]_vars
  <2> SUFFICES ASSUME IInv, Next, NEW s \in Subs, NEW m \in Msgs, NEW k \in Msgs,
                      delivered'[<<s, m>>] # delivered[<<s, m>>], k < m,
                      NEW i \in Unsent, Pair(row[i]) = <<s, k>>
               PROVE  <<s, k>> \in tried
    BY <1>1 DEF OvertakesNothing
  <2>1. PICK n \in batch : Accept(n) \/ AcceptUnheard(n)
    <3>1. UNCHANGED delivered \/ \E n \in batch : Accept(n) \/ AcceptUnheard(n)
      BY DEF Next, Drain, Operator, Process, Send, Reject, CreateAlert,
             AddAlertMessage, DeleteAlert, DeleteAlertMessage, SubscribeEmail,
             UnsubscribeEmail, InstallSlack, SetAlertChannel,
             PruneAlertNotifications, ListUnsentAlertNotifications, ReadSettings,
             Abandon, Stamp, StampFails, EndPass, ExitLoop, Restart, history
    <3>2. QED
      BY <3>1
  <2>2. First(n) /\ delivered' = [delivered EXCEPT ![Pair(n)] = Bump(@)]
    BY <2>1 DEF Accept, AcceptUnheard
  <2>3. Pair(n) = <<s, m>>
    BY <2>2 DEF IInv, TypeOK, Pairs
  <2>4. row[i].msg = k /\ n.msg = m
    BY <2>3 DEF Pair
  <2>5. Pair(row[i]) \in tried \/ \E o \in batch : Pair(o) = Pair(row[i])
    BY <2>4 DEF IInv, QueueInv, InOrder
  <2>6. ASSUME NEW o \in batch, Pair(o) = Pair(row[i]) PROVE FALSE
    <3>1. o.msg = k
      BY <2>6 DEF Pair
    <3>2. n.msg <= o.msg
      BY <2>2 DEF First
    <3>3. QED
      BY <2>4, <3>1, <3>2 DEF Msgs
  <2>7. QED
    BY <2>5, <2>6
<1>2. QED
  BY <1>1, Inductive, PTL DEF Spec, DeliveredInOrder

-----------------------------------------------------------------------------
(* The queue implements the outbox *)

\* The outbox as the refinement mapping sees it.
Pending == {Pair(row[i]) : i \in Unsent}
Carried == {Pair(n) : n \in batch}

\* One delivery at most is in flight, and between passes nothing is carried.
PassInv ==
  /\ \A n, o \in inflight : n = o
  /\ drain \in {"idle", "exited"} => batch = {}

LEMMA PassStep ==
  ASSUME TypeOK, QueueInv, PassInv, [Next]_vars
  PROVE  PassInv'
<1> USE DEF PassInv
<1>1. CASE Drain
  <2>1. CASE Stamp \/ StampFails \/ EndPass \/ Abandon \/ ReadSettings
    BY <2>1 DEF Stamp, StampFails, EndPass, Abandon, ReadSettings
  <2>2. CASE ListUnsentAlertNotifications
    BY <2>2 DEF ListUnsentAlertNotifications
  <2>3. ASSUME NEW n \in batch, Send(n)
        PROVE  PassInv'
    BY <2>3 DEF Send, Accept, AcceptUnheard, Reject
  <2>4. QED
    BY <1>1, <2>1, <2>2, <2>3 DEF Drain
<1>2. CASE ExitLoop \/ Restart
  BY <1>2 DEF ExitLoop, Restart
<1>3. CASE UNCHANGED pass
  BY <1>3 DEF pass
<1>4. QED
  BY <1>1, <1>2, <1>3
     DEF Next, Operator, Process, CreateAlert, AddAlertMessage, DeleteAlert,
         DeleteAlertMessage, SubscribeEmail, UnsubscribeEmail, InstallSlack, SetAlertChannel,
         PruneAlertNotifications, vars

\* What a step does to the outbox, in its own words.
OutboxUnchanged ==
  UNCHANGED <<posted, owed, Pending, Carried, delivered, clash>>

LEMMA OutboxStutters ==
  ASSUME OutboxUnchanged
  PROVE  [O!Next]_O!vars
BY DEF OutboxUnchanged, Pending, Carried, O!vars

\* Inserting the rows of a message posts it to those who are active.
LEMMA EnqueuePosts ==
  ASSUME TypeOK, NEW m \in Msgs, Enqueue(m)
  PROVE  \E rs \in SUBSET Subs : \E ds \in SUBSET rs :
           /\ owed' = owed \cup {<<r, m>> : r \in rs}
           /\ Pending' = Pending \cup {<<r, m>> : r \in rs}
           /\ clash' = clash \cup {<<r, m>> : r \in ds}
<1> DEFINE active == {s \in Subs : sub[s] = "active"}
<1>1. PICK idOf \in [active -> Ids] :
        LET ids == {idOf[s] : s \in active}
            who(i) == CHOOSE s \in active : idOf[s] = i
        IN  /\ \A s, t \in active : idOf[s] = idOf[t] => s = t
            /\ NextRowids(ids)
            /\ row' = [i \in Ids |->
                         IF i \in ids THEN [sub |-> who(i), msg |-> m, sent |-> FALSE]
                         ELSE row[i]]
            /\ owed' = owed \cup {<<s, m>> : s \in active}
            /\ clash' = clash \cup {<<s, m>> : s \in {t \in active : idOf[t] \in Held}}
  BY DEF Enqueue
<1> DEFINE ids == {idOf[s] : s \in active}
           who(i) == CHOOSE s \in active : idOf[s] = i
           held == {t \in active : idOf[t] \in Held}
<1>2. \A i \in ids : who(i) \in active /\ idOf[who(i)] = i
  OBVIOUS
<1>3. ids \subseteq Ids
  OBVIOUS
<1>4. ids \cap Used = {}
  <2>1. \A i \in ids, j \in Used : j < i
    BY <1>1 DEF NextRowids
  <2>2. QED
    BY <1>3, <2>1 DEF Used, Ids
<1>5. \A i \in Ids : row'[i] = IF i \in ids
                               THEN [sub |-> who(i), msg |-> m, sent |-> FALSE]
                               ELSE row[i]
  BY <1>1
<1>6. \A s \in active : who(idOf[s]) = s /\ idOf[s] \in ids
  BY <1>1, <1>2
<1>7. owed' = owed \cup {<<s, m>> : s \in active}
  BY <1>1
<1>8. clash' = clash \cup {<<s, m>> : s \in held}
  BY <1>1
<1>9. active \in SUBSET Subs /\ held \in SUBSET active
  OBVIOUS
<1> HIDE DEF ids, who, held
<1>10. \A i \in ids : /\ row'[i] = [sub |-> who(i), msg |-> m, sent |-> FALSE]
                      /\ Pair(row'[i]) = <<who(i), m>>
  BY <1>3, <1>5 DEF Pair
<1> HIDE DEF active
<1>11. Unsent' = Unsent \cup ids
  <2>1. \A i \in ids : row'[i] # NoRow /\ ~row'[i].sent
    <3>1. \A u : LET new == [sub |-> u, msg |-> m, sent |-> FALSE]
                 IN  new # NoRow /\ ~new.sent
      BY DEF NoRow
    <3>2. QED
      BY <1>10, <3>1
  <2>2. \A i \in Ids \ ids : row'[i] = row[i]
    BY <1>5
  <2>3. Unsent \cap ids = {}
    BY <1>4 DEF Unsent, Used
  <2>4. QED
    BY <1>3, <2>1, <2>2, <2>3 DEF Unsent
<1>12. \A i \in Unsent : row'[i] = row[i]
  BY <1>4, <1>5 DEF Unsent, Used
<1>13. Pending' = Pending \cup {<<s, m>> : s \in active}
  <2>1. Pending' = {Pair(row'[i]) : i \in Unsent \cup ids}
    BY <1>11 DEF Pending, Pair
  <2>2. {Pair(row'[i]) : i \in ids} = {<<s, m>> : s \in active}
    <3>1. \A i \in ids : Pair(row'[i]) = <<who(i), m>>
      BY <1>10
    <3>2. QED
      BY <1>2, <1>6, <3>1
  <2>3. {Pair(row'[i]) : i \in Unsent} = Pending
    BY <1>12 DEF Pending
  <2>4. QED
    BY <2>1, <2>2, <2>3
<1>14. QED
  BY <1>7, <1>8, <1>9, <1>13

LEMMA PostsStep ==
  ASSUME TypeOK, posted < MaxMsg, posted' = posted + 1, Enqueue(posted + 1),
         UNCHANGED <<pass, delivered>>
  PROVE  O!Next
<1>1. posted + 1 \in Msgs
  BY BoundsAssumption DEF TypeOK, Msgs
<1>2. PICK rs \in SUBSET Subs :
        \E ds \in SUBSET rs :
          /\ owed' = owed \cup {<<r, posted + 1>> : r \in rs}
          /\ Pending' = Pending \cup {<<r, posted + 1>> : r \in rs}
          /\ clash' = clash \cup {<<r, posted + 1>> : r \in ds}
  BY <1>1, EnqueuePosts
<1>3. PICK ds \in SUBSET rs :
        /\ owed' = owed \cup {<<r, posted + 1>> : r \in rs}
        /\ Pending' = Pending \cup {<<r, posted + 1>> : r \in rs}
        /\ clash' = clash \cup {<<r, posted + 1>> : r \in ds}
  BY <1>2
<1>4. UNCHANGED Carried
  BY DEF Carried, pass
<1>5. O!Post(rs, ds)
  BY <1>3, <1>4 DEF O!Post, Pending, Carried
<1>6. QED
  BY <1>5 DEF O!Next

\* A deletion withdraws what it cascades to.
LEMMA WithdrawsStep ==
  ASSUME TypeOK, QueueInv, NEW ss, NEW ms, Cascade(ss, ms), UNCHANGED <<posted, pass, delivered>>
  PROVE  O!Next
<1>1. owed' = {p \in owed : p[1] \notin ss /\ p[2] \notin ms} /\ clash' = clash \cap owed'
  BY DEF Cascade
<1>2. \A i \in Unsent : Pair(row[i]) \in owed
  BY DEF QueueInv, RowsOwed, Used, Unsent
<1>3. Unsent' = {i \in Unsent : row[i].sub \notin ss /\ row[i].msg \notin ms}
  BY DEF Cascade, Unsent, NoRow, TypeOK
<1>4. \A i \in Unsent' : row'[i] = row[i]
  BY <1>3 DEF Cascade, Unsent, TypeOK
<1>5. Pending' = Pending \cap owed'
  <2>1. \A i \in Unsent : i \in Unsent' <=> Pair(row[i]) \in owed'
    BY <1>1, <1>2, <1>3 DEF Pair
  <2>2. Pending' = {Pair(row[i]) : i \in Unsent'}
    BY <1>4 DEF Pending
  <2>3. Unsent' \subseteq Unsent
    BY <1>3
  <2>4. QED
    BY <2>1, <2>2, <2>3 DEF Pending
<1>6. UNCHANGED Carried
  BY DEF Carried, pass
<1>7. O!Withdraw
  BY <1>1, <1>5, <1>6 DEF O!Withdraw, Pending, Carried
<1>8. QED
  BY <1>7 DEF O!Next

\* A pass sets out with everything unsent.
LEMMA SetsOutStep ==
  ASSUME PassInv, ListUnsentAlertNotifications
  PROVE  O!Next
<1> DEFINE item(i) == [id |-> i, sub |-> row[i].sub, msg |-> row[i].msg]
<1>1. /\ batch = {}
      /\ batch' = {item(i) : i \in Unsent}
      /\ UNCHANGED <<row, posted, delivered, owed, clash>>
  BY DEF PassInv, ListUnsentAlertNotifications, tables, history
<1>2. \A i \in Unsent : Pair(item(i)) = Pair(row[i])
  BY DEF Pair
<1> HIDE DEF item
<1>3. Carried = {}
  BY <1>1 DEF Carried
<1>4. Carried' = Pending
  BY <1>1, <1>2 DEF Carried, Pending
<1>5. Pending' = Pending
  BY <1>1 DEF Pending, Unsent
<1>6. O!SetOut
  BY <1>1, <1>3, <1>4, <1>5 DEF O!SetOut, Carried, Pending
<1>7. QED
  BY <1>6 DEF O!Next

\* Trying a notification delivers it or fails to.
LEMMA SendsStep ==
  ASSUME TypeOK, QueueInv, NEW n \in batch, Send(n)
  PROVE  O!Next
<1>1. /\ First(n)
      /\ batch' = batch \ {n}
      /\ UNCHANGED <<row, posted, owed, clash>>
  BY DEF Send, Accept, AcceptUnheard, Reject, tables
<1>2. Pair(n) \in Carried
  BY DEF Carried
<1>3. Carried' = Carried \ {Pair(n)}
  <2>1. \A o \in batch : Pair(o) = Pair(n) => o = n
    BY DEF QueueInv, UniqueRows, HeldItems
  <2>2. Carried' = {Pair(o) : o \in batch \ {n}}
    BY <1>1 DEF Carried
  <2>3. QED
    BY <2>1, <2>2 DEF Carried
<1>4. Pending' = Pending
  BY <1>1 DEF Pending, Unsent
<1>5. \A o \in Carried : Pair(n)[2] <= o[2]
  BY <1>1 DEF First, Carried, Pair
<1>6. CASE UNCHANGED delivered
  <2>1. O!Fail(Pair(n))
    BY <1>1, <1>3, <1>4, <1>6 DEF O!Fail, Carried, Pending
  <2>2. QED
    BY <1>2, <2>1 DEF O!Next, Carried
<1>7. CASE delivered' = [delivered EXCEPT ![Pair(n)] = Bump(@)]
  <2>1. delivered' = [delivered EXCEPT ![Pair(n)] = IF @ = 0 THEN 1 ELSE 2]
    BY <1>7 DEF Bump
  <2>2. O!Deliver(Pair(n))
    BY <1>1, <1>2, <1>3, <1>4, <1>5, <2>1 DEF O!Deliver, Carried, Pending
  <2>3. QED
    BY <1>2, <2>2 DEF O!Next, Carried
<1>8. QED
  BY <1>6, <1>7 DEF Send, Accept, AcceptUnheard, Reject

\* A stamp confirms what it hides: it was delivered, or its row took the id.
LEMMA ConfirmsStep ==
  ASSUME TypeOK, QueueInv, PassInv, Stamp
  PROVE  [O!Next]_O!vars
<1> DEFINE done == {n.id : n \in inflight}
<1>1. /\ \A i \in Ids : row'[i] = IF row[i] # NoRow /\ i \in done
                                  THEN [row[i] EXCEPT !.sent = TRUE] ELSE row[i]
      /\ UNCHANGED <<posted, batch, delivered, owed, clash>>
  BY DEF Stamp, history
<1>2. \A i \in Ids : row[i] # NoRow => row[i] \in Rows
  BY DEF TypeOK
<1>3. Unsent' = Unsent \ done
  <2>1. \A i \in Unsent \ done : i \in Unsent'
    BY <1>1 DEF Unsent
  <2>2. \A i \in Unsent' : i \in Unsent /\ i \notin done
    BY <1>1, <1>2 DEF Unsent, Rows
  <2>3. QED
    BY <2>1, <2>2
<1>4. \A i \in Unsent' : row'[i] = row[i]
  BY <1>1, <1>3 DEF Unsent
<1>5. Pending' = {Pair(row[i]) : i \in Unsent'}
  BY <1>4 DEF Pending
<1>6. UNCHANGED Carried
  BY <1>1 DEF Carried
<1> HIDE DEF done
<1>7. CASE Unsent \cap done = {}
  <2>1. Pending' = Pending
    BY <1>3, <1>5, <1>7 DEF Pending
  <2>2. QED
    BY <1>1, <1>6, <2>1, OutboxStutters DEF OutboxUnchanged
<1>8. ASSUME NEW i \in Unsent, i \in done
      PROVE  [O!Next]_O!vars
  <2>1. PICK n \in inflight : n.id = i
    BY <1>8 DEF done
  <2>2. done = {i}
    BY <2>1 DEF done, PassInv
  <2>3. Pair(row[i]) \in Pending
    BY DEF Pending
  <2>4. delivered[Pair(row[i])] > 0 \/ Pair(row[i]) \in clash
    BY <2>1 DEF QueueInv, InflightInv, HeldIds, HeldItems, Unsent, Used
  <2>5. \A j \in Unsent : Pair(row[j]) = Pair(row[i]) => j = i
    BY DEF QueueInv, UniqueRows, Unsent, Used
  <2>6. Pending' = Pending \ {Pair(row[i])}
    BY <1>3, <1>5, <2>2, <2>5 DEF Pending
  <2>7. O!Confirm(Pair(row[i]))
    BY <1>1, <1>6, <2>4, <2>6 DEF O!Confirm, Carried, Pending
  <2>8. QED
    BY <2>3, <2>7 DEF O!Next, Pending
<1>9. QED
  BY <1>7, <1>8

\* A step that leaves unsent rows, the batch and the histories alone.
LEMMA KeepsOutbox ==
  ASSUME Unsent' = Unsent, \A i \in Unsent : row'[i] = row[i],
         UNCHANGED <<posted, batch, owed, delivered, clash>>
  PROVE  [O!Next]_O!vars
<1>1. Pending' = Pending
  BY DEF Pending
<1>2. Carried' = Carried
  BY DEF Carried
<1>3. QED
  BY <1>1, <1>2, OutboxStutters DEF OutboxUnchanged

\* A pass that is abandoned, ended or killed drops what it carried.
LEMMA TurnsBackStep ==
  ASSUME batch' = {}, UNCHANGED <<row, posted, owed, delivered, clash>>
  PROVE  O!Next
<1>1. Pending' = Pending
  BY DEF Pending, Unsent
<1>2. Carried' = {}
  BY DEF Carried
<1>3. O!TurnBack
  BY <1>1, <1>2 DEF O!TurnBack, Pending, Carried
<1>4. QED
  BY <1>3 DEF O!Next

\* Every step of the queue is a step of the outbox, or none.
LEMMA OutboxStep ==
  ASSUME TypeOK, QueueInv, PassInv, [Next]_vars
  PROVE  [O!Next]_O!vars
<1>1. CASE CreateAlert \/ \E a \in Msgs : AddAlertMessage(a)
  BY <1>1, PostsStep DEF CreateAlert, AddAlertMessage
<1>2. CASE \E a \in Msgs : DeleteAlert(a)
  <2>1. PICK a \in Msgs : DeleteAlert(a)
    BY <1>2
  <2>2. Cascade({}, {m \in Msgs : alertOf[m] = a}) /\ UNCHANGED <<posted, pass, delivered>>
    BY <2>1 DEF DeleteAlert
  <2>3. QED
    BY <2>2, WithdrawsStep
<1>3. CASE \E m \in Msgs : DeleteAlertMessage(m)
  BY <1>3, WithdrawsStep DEF DeleteAlertMessage
<1>4. CASE \E s \in Subs : InstallSlack(s)
  BY <1>4, WithdrawsStep DEF InstallSlack
<1>5. CASE \E ids \in SUBSET Ids : PruneAlertNotifications(ids)
  <2>1. PICK ids \in SUBSET Ids : PruneAlertNotifications(ids)
    BY <1>5
  <2>2. /\ ids \subseteq Used \ Unsent
        /\ \A i \in Ids : row'[i] = IF i \in ids THEN NoRow ELSE row[i]
        /\ UNCHANGED <<posted, batch, owed, delivered, clash>>
    BY <2>1 DEF PruneAlertNotifications, pass, history
  <2>3. \A i \in Unsent : row'[i] = row[i]
    BY <2>2 DEF Unsent
  <2>4. Unsent' = Unsent
    BY <2>2 DEF Unsent
  <2>5. QED
    BY <2>2, <2>3, <2>4, KeepsOutbox
<1>6. CASE ListUnsentAlertNotifications
  BY <1>6, SetsOutStep
<1>7. CASE \E n \in batch : Send(n)
  BY <1>7, SendsStep
<1>8. CASE Stamp
  BY <1>8, ConfirmsStep
<1>9. CASE Abandon \/ EndPass \/ Restart
  BY <1>9, TurnsBackStep DEF Abandon, EndPass, Restart, tables, history
<1>10. CASE \/ \E s \in Subs : SubscribeEmail(s) \/ UnsubscribeEmail(s)
            \/ \E c \in Channels : SetAlertChannel(c)
            \/ ReadSettings \/ StampFails \/ ExitLoop \/ UNCHANGED vars
  <2>1. UNCHANGED <<row, posted, batch, owed, delivered, clash>>
    BY <1>10 DEF SubscribeEmail, UnsubscribeEmail, SetAlertChannel, ReadSettings,
                 StampFails, ExitLoop, vars, tables, pass, history
  <2>2. Unsent' = Unsent /\ \A i \in Unsent : row'[i] = row[i]
    BY <2>1 DEF Unsent
  <2>3. QED
    BY <2>1, <2>2, KeepsOutbox
<1>11. QED
  BY <1>1, <1>2, <1>3, <1>4, <1>5, <1>6, <1>7, <1>8, <1>9, <1>10
  DEF Next, Drain, Operator, Process

\* An empty queue is an empty outbox.
LEMMA InitOutbox == Init => O!Init /\ PassInv
<1> SUFFICES ASSUME Init PROVE O!Init /\ PassInv
  OBVIOUS
<1>1. Unsent = {} /\ batch = {}
  BY DEF Init, Unsent
<1>2. O!Init
  BY <1>1 DEF Init, O!Init, O!Notifications, Pairs, Msgs
<1>3. PassInv
  BY DEF Init, PassInv
<1>4. QED
  BY <1>2, <1>3

\* notificationLoop, the handlers that post and delete, prune and a restart
\* implement the outbox: nothing leaves the queue but what was delivered,
\* withdrawn or in doubt, and each pass delivers oldest first.
THEOREM QueueIsOutbox == Spec => ImplementsOutbox
<1>1. IInv /\ PassInv /\ [Next]_vars => PassInv'
  BY PassStep DEF IInv
<1>2. IInv /\ PassInv /\ [Next]_vars => [O!Next]_O!vars
  BY OutboxStep DEF IInv
<1>3. QED
  BY <1>1, <1>2, InitOutbox, InitIInv, InvStep, PTL DEF Spec, ImplementsOutbox, O!Spec

=============================================================================
