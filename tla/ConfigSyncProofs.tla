--------------------------- MODULE ConfigSyncProofs ---------------------------
(***************************************************************************)
(* Proofs about module ConfigSync, for any number of requests, webhooks    *)
(* and deliveries.                                                         *)
(*                                                                         *)
(* The first two properties ask little beyond the types: a webhook that    *)
(* may write holds a file, and a commit is recorded as applied only under  *)
(* GitHub, or by a webhook that was late.  The last one follows a lone     *)
(* delivery: as long as nothing disturbed it, it is the only one, the SHA  *)
(* it read is the one recorded, and unless another delivery is on its way  *)
(* what it fetched is the last file pushed.                                *)
(***************************************************************************)
EXTENDS ConfigSync, TLAPS

-----------------------------------------------------------------------------
(* The inductive invariant *)

Idle(h) == hook[h] = "idle"

\* A webhook that has the answer of GitHub holds a file.
Fetched == \A h \in Webhooks : hook[h] \in {"fetched", "rejecting"} => content[h] \in Files

\* Only a webhook that was late records a commit GitHub does not manage.
Recorded == ~managed /\ ~late => sha = "none"

\* An undisturbed delivery is alone, under GitHub.
Alone ==
  ~disturbed =>
    /\ managed
    /\ \A h, k \in Webhooks : ~Idle(h) /\ ~Idle(k) => h = k

\* The SHA it read is the one recorded.
SeenIsRecorded ==
  ~disturbed => \A h \in Webhooks : hook[h] \in {"read", "fetched"} => seen[h] = sha

\* Unless another delivery is on its way it holds the last file pushed.
HoldsLast ==
  ~disturbed /\ deliveries = 0 =>
    \A h \in Webhooks : hook[h] \in {"fetched", "rejecting"} => content[h] = repo

\* Between deliveries the last file pushed was dealt with.
Settled ==
  ~disturbed /\ deliveries = 0 /\ (\A h \in Webhooks : Idle(h))
    => sha = repo \/ (rejected /\ configFile = repo)

Mirror == TablesMatchFile /\ TablesMatchSHA
Lone   == Alone /\ SeenIsRecorded /\ HoldsLast /\ Settled
IInv   == TypeOK /\ Fetched /\ Recorded /\ Mirror /\ Lone

-----------------------------------------------------------------------------
(* The initial state *)

LEMMA InitIInv == Init => IInv
<1> USE FilesAssumption, DeliveriesAssumption
<1> SUFFICES ASSUME Init PROVE IInv
  OBVIOUS
<1>1. TypeOK
  <2>1. FlagsOK
    BY Zenon DEF Init, FlagsOK
  <2>2. DataOK
    BY DEF Init, DataOK
  <2>3. QED
    BY <2>1, <2>2 DEF Init, TypeOK
<1>2. Fetched /\ Recorded /\ Mirror
  BY DEF Init, Fetched, Recorded, Mirror, TablesMatchFile, TablesMatchSHA
<1>3. Lone
  BY DEF Init, Lone, Alone, SeenIsRecorded, HoldsLast, Settled
<1>4. QED
  BY <1>1, <1>2, <1>3 DEF IInv

-----------------------------------------------------------------------------
(* Types, and what a webhook that may write holds *)

LEMMA FlagsStep ==
  ASSUME FlagsOK, [Next]_vars
  PROVE  FlagsOK'
<1> USE DEF FlagsOK, meta, admin, webhooks, github, history
<1>1. ASSUME NEW r \in Requests, Form(r) \/ StoreSwitch(r)
      PROVE  FlagsOK'
  BY <1>1, Zenon DEF Form, Gate, Commit, GiveUp, StoreSwitch
<1>2. ASSUME NEW r \in Requests, NEW on \in BOOLEAN, NEW byGitHub \in BOOLEAN,
             Settings(r, on, byGitHub)
      PROVE  FlagsOK'
  BY <1>2, Zenon DEF Settings
<1>3. ASSUME NEW f \in Files, PostConfig(f) \/ Push(f)
      PROVE  FlagsOK'
  BY <1>3, Zenon DEF PostConfig, Push
<1>4. ASSUME NEW h \in Webhooks, Webhook(h)
      PROVE  FlagsOK'
  BY <1>4, Zenon
     DEF Webhook, Deliver, Others, Fetch, WebhookFails, Skip, Apply, Reject, RecordRejection
<1>5. CASE Lose
  BY <1>5, Zenon DEF Lose
<1>6. CASE Restart
  BY <1>6, Zenon DEF Restart
<1>7. CASE UNCHANGED vars
  BY <1>7, Zenon DEF vars
<1>8. QED
  BY <1>1, <1>2, <1>3, <1>4, <1>5, <1>6, <1>7 DEF Next

LEMMA DataStep ==
  ASSUME DataOK, Fetched, [Next]_vars
  PROVE  DataOK'
<1> USE FilesAssumption, DeliveriesAssumption DEF DataOK, meta, admin, webhooks, github, history
<1>1. ASSUME NEW r \in Requests, Form(r) \/ StoreSwitch(r)
      PROVE  DataOK'
  BY <1>1 DEF Form, Gate, Commit, GiveUp, Finish, StoreSwitch
<1>2. ASSUME NEW r \in Requests, NEW on \in BOOLEAN, NEW byGitHub \in BOOLEAN,
             Settings(r, on, byGitHub)
      PROVE  DataOK'
  BY <1>2 DEF Settings, Generate
<1>3. ASSUME NEW f \in Files, PostConfig(f) \/ Push(f)
      PROVE  DataOK'
  <2>1. CASE PostConfig(f)
    BY <2>1 DEF PostConfig
  <2>2. CASE Push(f)
    BY <2>2 DEF Push
  <2>3. QED
    BY <1>3, <2>1, <2>2
<1>4. ASSUME NEW h \in Webhooks, Webhook(h)
      PROVE  DataOK'
  <2>1. CASE Deliver(h)
    BY <2>1 DEF Deliver
  <2>2. CASE Fetch(h)
    BY <2>2 DEF Fetch
  <2>3. CASE WebhookFails(h) \/ Skip(h)
    BY <2>3 DEF WebhookFails, Skip, Forget
  <2>4. CASE Apply(h)
    BY <2>4 DEF Apply, Forget, Fetched
  <2>5. CASE Reject(h)
    BY <2>5 DEF Reject, Forget
  <2>6. CASE RecordRejection(h)
    <3>1. configFile' \in Files
      BY <2>6 DEF RecordRejection, Fetched
    <3>2. QED
      BY <2>6, <3>1 DEF RecordRejection, Forget
  <2>7. QED
    BY <1>4, <2>1, <2>2, <2>3, <2>4, <2>5, <2>6 DEF Webhook
<1>5. CASE Lose
  BY <1>5 DEF Lose
<1>6. CASE Restart
  BY <1>6 DEF Restart
<1>7. CASE UNCHANGED vars
  BY <1>7 DEF vars
<1>8. QED
  BY <1>1, <1>2, <1>3, <1>4, <1>5, <1>6, <1>7 DEF Next

LEMMA FetchedStep ==
  ASSUME DataOK, Fetched, [Next]_vars
  PROVE  Fetched'
<1> USE DEF DataOK, Fetched, webhooks
<1>1. CASE UNCHANGED <<hook, content>>
  BY <1>1
<1>2. ASSUME NEW h \in Webhooks, Webhook(h)
      PROVE  Fetched'
  <2>1. CASE Deliver(h) \/ Fetch(h)
    BY <2>1 DEF Deliver, Fetch
  <2>2. CASE WebhookFails(h) \/ Skip(h) \/ Apply(h)
    BY <2>2 DEF WebhookFails, Skip, Apply, Forget
  <2>3. CASE Reject(h) \/ RecordRejection(h)
    BY <2>3 DEF Reject, RecordRejection, Forget
  <2>4. QED
    BY <1>2, <2>1, <2>2, <2>3 DEF Webhook
<1>3. CASE Restart
  BY <1>3 DEF Restart
<1>4. QED
  BY <1>1, <1>2, <1>3
     DEF Next, Form, Gate, Commit, GiveUp, StoreSwitch, Settings, PostConfig, Push, Lose, vars

LEMMA SwitchesStep ==
  ASSUME managed => enabled, [Next]_vars
  PROVE  managed' => enabled'
<1>1. ASSUME NEW r \in Requests, NEW on \in BOOLEAN, NEW byGitHub \in BOOLEAN,
             Settings(r, on, byGitHub)
      PROVE  managed' => enabled'
  BY <1>1 DEF Settings
<1>2. CASE UNCHANGED <<enabled, managed>>
  BY <1>2
<1>3. QED
  BY <1>1, <1>2
     DEF Next, Form, Gate, Commit, GiveUp, StoreSwitch, PostConfig, Push, Webhook, Deliver,
         Fetch, WebhookFails, Skip, Apply, Reject, RecordRejection, Lose, Restart, meta, vars

-----------------------------------------------------------------------------
(* What the tables hold *)

LEMMA MirrorStep ==
  ASSUME TypeOK, Fetched, Recorded, Mirror, [Next]_vars
  PROVE  Recorded' /\ Mirror'
<1> USE FilesAssumption
    DEF TypeOK, DataOK, Recorded, Mirror, TablesMatchFile, TablesMatchSHA,
        meta, admin, webhooks, github, history
<1>1. ASSUME NEW r \in Requests, Form(r) \/ StoreSwitch(r)
      PROVE  Recorded' /\ Mirror'
  BY <1>1 DEF Form, Gate, Commit, GiveUp, Finish, StoreSwitch
\* Where the file is generated although GitHub managed it, the tables held
\* the file of a commit, and keep it.
<1>2. ASSUME NEW r \in Requests, NEW on \in BOOLEAN, NEW byGitHub \in BOOLEAN,
             Settings(r, on, byGitHub)
      PROVE  Recorded' /\ Mirror'
  BY <1>2 DEF Settings, Generate
<1>3. ASSUME NEW f \in Files, PostConfig(f) \/ Push(f)
      PROVE  Recorded' /\ Mirror'
  BY <1>3 DEF PostConfig, Push
<1>4. ASSUME NEW h \in Webhooks, Webhook(h)
      PROVE  Recorded' /\ Mirror'
  <2>1. CASE Apply(h)
    BY <2>1 DEF Apply
  <2>2. CASE RecordRejection(h)
    BY <2>2 DEF RecordRejection
  <2>3. CASE UNCHANGED <<tables, meta, drifted, late>>
    BY <2>3
  <2>4. QED
    BY <1>4, <2>1, <2>2, <2>3
       DEF Webhook, Deliver, Fetch, WebhookFails, Skip, Reject
<1>5. CASE Lose \/ Restart
  BY <1>5 DEF Lose, Restart
<1>6. CASE UNCHANGED vars
  BY <1>6 DEF vars
<1>7. QED
  BY <1>1, <1>2, <1>3, <1>4, <1>5, <1>6 DEF Next

-----------------------------------------------------------------------------
(* A lone delivery *)

LEMMA LoneStep ==
  ASSUME TypeOK, Lone, [Next]_vars
  PROVE  Lone'
<1> USE DeliveriesAssumption
    DEF TypeOK, DataOK, Lone, Alone, SeenIsRecorded, HoldsLast, Settled, Idle,
        meta, admin, webhooks, github, history
<1>1. ASSUME NEW r \in Requests, Form(r) \/ StoreSwitch(r)
      PROVE  Lone'
  BY <1>1 DEF Form, Gate, Commit, GiveUp, Finish, StoreSwitch
<1>2. ASSUME NEW r \in Requests, NEW on \in BOOLEAN, NEW byGitHub \in BOOLEAN,
             Settings(r, on, byGitHub)
      PROVE  Lone'
  BY <1>2 DEF Settings
<1>3. ASSUME NEW f \in Files, PostConfig(f) \/ Push(f)
      PROVE  Lone'
  BY <1>3 DEF PostConfig, Push
<1>4. ASSUME NEW h \in Webhooks, Webhook(h)
      PROVE  Lone'
  <2>1. CASE Deliver(h)
    BY <2>1 DEF Deliver, Others
  <2>2. CASE Fetch(h)
    BY <2>2 DEF Fetch
  <2>3. CASE WebhookFails(h)
    BY <2>3 DEF WebhookFails
  <2>4. CASE Skip(h)
    BY <2>4 DEF Skip, Forget
  <2>5. CASE Apply(h)
    BY <2>5 DEF Apply, Forget
  <2>6. CASE Reject(h)
    BY <2>6 DEF Reject, Forget
  <2>7. CASE RecordRejection(h)
    BY <2>7 DEF RecordRejection, Forget
  <2>8. QED
    BY <1>4, <2>1, <2>2, <2>3, <2>4, <2>5, <2>6, <2>7 DEF Webhook
<1>5. CASE Lose \/ Restart
  BY <1>5 DEF Lose, Restart
<1>6. CASE UNCHANGED vars
  BY <1>6 DEF vars
<1>7. QED
  BY <1>1, <1>2, <1>3, <1>4, <1>5, <1>6 DEF Next

-----------------------------------------------------------------------------
(* Theorems *)

\* The strengthening behind the theorems below: types, what a webhook holds,
\* what the tables mirror, and how far a lone delivery has come.
THEOREM Inductive == Spec => []IInv
<1>1. IInv /\ [Next]_vars => IInv'
  BY FlagsStep, DataStep, FetchedStep, SwitchesStep, MirrorStep, LoneStep DEF IInv, TypeOK
<1>2. QED
  BY InitIInv, <1>1, PTL DEF Spec

\* Every variable keeps its type, and GitHub manages a file only while
\* configuration as code is on: postConfigSettings sets both in one
\* transaction and nothing else touches them.
THEOREM TypeCorrect == Spec => []TypeOK
<1>1. IInv => TypeOK
  BY DEF IInv
<1>2. QED
  BY <1>1, Inductive, PTL

\* While the file is on and shows no errors, the tables hold what it
\* declares, whether the editor, the webhook or the settings page wrote it
\* last, unless a form passed its gate before the switch was turned.
THEOREM MatchFile == Spec => []TablesMatchFile
<1>1. IInv => TablesMatchFile
  BY DEF IInv, Mirror
<1>2. QED
  BY <1>1, Inductive, PTL

\* While GitHub manages the file, the tables hold the commit that githubWebhook
\* recorded as applied, also after later pushes were rejected.
THEOREM MatchSHA == Spec => []TablesMatchSHA
<1>1. IInv => TablesMatchSHA
  BY DEF IInv, Mirror
<1>2. QED
  BY <1>1, Inductive, PTL

\* Deliveries that came one at a time, none of which failed, leave the last
\* file pushed applied, or its rejection on record: the comparison of SHAs
\* with which githubWebhook skips a delivery skips none that matters.
THEOREM Converge == Spec => []DeliveriesConverge
<1>1. IInv => DeliveriesConverge
  BY DEF IInv, Lone, Settled, Idle, DeliveriesConverge
<1>2. QED
  BY <1>1, Inductive, PTL

===============================================================================
