-------------------------------- MODULE Outbox --------------------------------
(***************************************************************************)
(* What the alert notification queue promises, without rowids, tables,     *)
(* channels, stamps or passes: every posted notification stays in the      *)
(* outbox until its receiver has it or an operator withdraws it, and a     *)
(* courier hands each receiver what it carries in the order of posting.    *)
(* NotificationQueue implements it (ImplementsOutbox there).               *)
(***************************************************************************)
EXTENDS Naturals

CONSTANTS
  Receivers,
  Last        \* bound: messages ever posted

VARIABLES
  posted,     \* messages posted so far
  owed,       \* notifications that were posted and not withdrawn
  pending,    \* notifications in the outbox
  carried,    \* those the courier has taken along and not tried yet
  received,   \* how often a receiver got a message: 0, once, or more
  doubtful    \* those the outbox may lose: it cannot tell them from another

vars == <<posted, owed, pending, carried, received, doubtful>>

Notifications == Receivers \X (1..Last)

Init ==
  /\ posted = 0
  /\ owed = {}
  /\ pending = {}
  /\ carried = {}
  /\ received = [p \in Notifications |-> 0]
  /\ doubtful = {}

\* A new message for receivers rs, some of them, ds, in doubt from the start.
Post(rs, ds) ==
  /\ posted < Last
  /\ posted' = posted + 1
  /\ owed' = owed \cup {<<r, posted + 1>> : r \in rs}
  /\ pending' = pending \cup {<<r, posted + 1>> : r \in rs}
  /\ doubtful' = doubtful \cup {<<r, posted + 1>> : r \in ds}
  /\ UNCHANGED <<carried, received>>

\* An operator withdraws some of them; the courier may be on the way.
Withdraw ==
  /\ owed' \in SUBSET owed
  /\ pending' = pending \cap owed'
  /\ doubtful' = doubtful \cap owed'
  /\ UNCHANGED <<posted, carried, received>>

\* The courier sets out with everything pending.
SetOut ==
  /\ carried = {}
  /\ carried' = pending
  /\ UNCHANGED <<posted, owed, pending, received, doubtful>>

\* The receiver gets p, and nothing older for it is carried.
Deliver(p) ==
  /\ p \in carried
  /\ \A o \in carried : o[1] = p[1] => p[2] <= o[2]
  /\ carried' = carried \ {p}
  /\ received' = [received EXCEPT ![p] = IF @ = 0 THEN 1 ELSE 2]
  /\ UNCHANGED <<posted, owed, pending, doubtful>>

\* The receiver does not get p this time.
Fail(p) ==
  /\ carried' = carried \ {p}
  /\ UNCHANGED <<posted, owed, pending, received, doubtful>>

\* p leaves the outbox, because its receiver has it.
Confirm(p) ==
  /\ received[p] > 0 \/ p \in doubtful
  /\ pending' = pending \ {p}
  /\ UNCHANGED <<posted, owed, carried, received, doubtful>>

\* The courier turns back.
TurnBack ==
  /\ carried' = {}
  /\ UNCHANGED <<posted, owed, pending, received, doubtful>>

Next ==
  \/ \E rs \in SUBSET Receivers : \E ds \in SUBSET rs : Post(rs, ds)
  \/ Withdraw
  \/ SetOut
  \/ \E p \in carried : Deliver(p) \/ Fail(p)
  \/ \E p \in pending : Confirm(p)
  \/ TurnBack

Spec == Init /\ [][Next]_vars

===============================================================================
