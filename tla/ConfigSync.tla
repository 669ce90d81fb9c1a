------------------------------ MODULE ConfigSync ------------------------------
(***************************************************************************)
(* Configuration as code: the settings page that switches the file on and  *)
(* off and hands it to GitHub, the editor, the webhook GitHub calls on a   *)
(* push, and the admin forms that are closed while the file is on.         *)
(*                                                                         *)
(* A handler of a form is two steps, for its gate reads the switch from    *)
(* memory before its transaction begins.  The webhook is four: what it     *)
(* reads, the answer of GitHub, the write transaction, and the transaction *)
(* that records a rejection.  The settings page waits for GitHub inside    *)
(* its write transaction, which nobody can tell from one step.             *)
(*                                                                         *)
(* What the tables hold is the name of a file: the one applied last, or    *)
(* the one generated from them, or "edited" once a form has changed them.  *)
(* That an accepted file is in force, and that whether it is accepted      *)
(* depends on more than the file, is what module ConfigApply shows.        *)
(*                                                                         *)
(* GitHub is external: a push changes the file on the branch and causes    *)
(* one delivery, which may get lost, be late or overtake another.          *)
(***************************************************************************)
EXTENDS Naturals, FiniteSets

CONSTANTS
  Files,          \* files that are pushed or typed into the editor
  Webhooks,       \* webhooks being handled at once
  Requests,       \* admin requests being handled at once
  MaxDeliveries   \* bound: deliveries on their way

ASSUME FilesAssumption == Files \cap {"none", "edited", "generated"} = {}
ASSUME DeliveriesAssumption == MaxDeliveries \in Nat

VARIABLES
  tables,      \* the file whose entities the tables hold
  enabled,     \* meta configFileEnabled
  managed,     \* meta githubManagedConfig
  configFile,  \* meta configFile
  rejected,    \* meta githubConfigErrors is not empty
  sha,         \* meta githubConfigSHA, as the file it is of
  mem,         \* metaConfigFileEnabled
  pc,          \* where an admin request is
  want,        \* the switch it stores in memory
  hook,        \* where a webhook is
  seen,        \* the SHA it read
  content,     \* the file GitHub gave it
  repo,        \* external: the file on the branch
  deliveries,  \* external: webhooks on their way
  drifted,     \* history: what a slipped change left behind: the file, the commit
  late,        \* history: a webhook wrote after GitHub was switched off
  disturbed    \* history: a delivery failed, or met another or the settings

meta     == <<enabled, managed, configFile, rejected, sha>>
admin    == <<pc, want>>
webhooks == <<hook, seen, content>>
github   == <<repo, deliveries>>
history  == <<drifted, late, disturbed>>
vars     == <<tables, meta, mem, admin, webhooks, github, history>>

-----------------------------------------------------------------------------
(* Admin forms *)

Finish(r) == pc[r] = "gated" /\ pc' = [pc EXCEPT ![r] = "idle"]

\* The gate every form that changes entities starts with.
Gate(r) ==
  /\ pc[r] = "idle"
  /\ ~mem
  /\ pc' = [pc EXCEPT ![r] = "gated"]
  /\ UNCHANGED <<tables, meta, mem, want, webhooks, github, history>>

\* A form commits; the switch may have been turned since the gate.
Commit(r) ==
  /\ Finish(r)
  /\ tables' = "edited"
  /\ drifted' = IF enabled THEN {"file", "commit"} ELSE drifted
  /\ UNCHANGED <<meta, mem, want, webhooks, github, late, disturbed>>

\* A form that is refused, or fails.
GiveUp(r) ==
  /\ Finish(r)
  /\ UNCHANGED <<tables, meta, mem, want, webhooks, github, history>>

-----------------------------------------------------------------------------
(* Settings and editor *)

\* Fault: a file that is there already is kept.
GenerateOnce(on) ==
  /\ tables' = IF on /\ configFile = "none" THEN "generated" ELSE tables
  /\ configFile' = IF on /\ configFile = "none" THEN tables' ELSE configFile
  /\ UNCHANGED drifted

\* Whether the file has to be generated from the tables is asked of the copy
\* in memory.  What the tables hold is then what the new file declares.
Generate(on) ==
  IF on /\ ~mem
  THEN /\ tables' = IF tables = "edited" THEN "generated" ELSE tables
       /\ configFile' = tables'
       /\ drifted' = drifted \ {"file"}
  ELSE /\ drifted' = IF on /\ ~enabled THEN drifted \cup {"file"} ELSE drifted
       /\ UNCHANGED <<tables, configFile>>

\* postConfigSettings up to its commit.
Settings(r, on, byGitHub) ==
  /\ pc[r] = "idle"
  /\ byGitHub => on
  /\ enabled' = on
  /\ managed' = byGitHub
  /\ sha' = IF byGitHub THEN sha ELSE "none"
  /\ Generate(on)
  /\ late' = (late /\ byGitHub)
  /\ disturbed' = TRUE
  /\ pc' = [pc EXCEPT ![r] = "storing"]
  /\ want' = [want EXCEPT ![r] = on]
  /\ UNCHANGED <<rejected, mem, webhooks, github>>

\* The Store after it.
StoreSwitch(r) ==
  /\ pc[r] = "storing"
  /\ mem' = want[r]
  /\ pc' = [pc EXCEPT ![r] = "idle"]
  /\ want' = [want EXCEPT ![r] = FALSE]
  /\ UNCHANGED <<tables, meta, webhooks, github, history>>

\* postConfig, unless GitHub manages the file; a file with messages leaves
\* nothing behind.
PostConfig(f) ==
  /\ ~managed
  /\ tables' = f
  /\ configFile' = f
  /\ rejected' = FALSE
  /\ drifted' = {}
  /\ UNCHANGED <<enabled, managed, sha, mem, admin, webhooks, github, late, disturbed>>

-----------------------------------------------------------------------------
(* Webhook *)

Others(h) == \E k \in Webhooks \ {h} : hook[k] # "idle"

\* A delivery arrives; the read transaction.
Deliver(h) ==
  /\ deliveries > 0
  /\ hook[h] = "idle"
  /\ managed
  /\ hook' = [hook EXCEPT ![h] = "read"]
  /\ seen' = [seen EXCEPT ![h] = sha]
  /\ deliveries' = deliveries - 1
  /\ disturbed' = Others(h)
  /\ UNCHANGED <<tables, meta, mem, admin, content, repo, drifted, late>>

\* Lost, or refused because GitHub does not manage the file.
Lose ==
  /\ deliveries > 0
  /\ deliveries' = deliveries - 1
  /\ disturbed' = TRUE
  /\ UNCHANGED <<tables, meta, mem, admin, webhooks, repo, drifted, late>>

Fetch(h) ==
  /\ hook[h] = "read"
  /\ hook' = [hook EXCEPT ![h] = "fetched"]
  /\ content' = [content EXCEPT ![h] = repo]
  /\ UNCHANGED <<tables, meta, mem, admin, seen, github, history>>

Forget(h, place) ==
  /\ hook' = [hook EXCEPT ![h] = place]
  /\ seen' = [seen EXCEPT ![h] = "none"]
  /\ content' = IF place = "idle" THEN [content EXCEPT ![h] = "none"] ELSE content

\* GitHub or the database fails, at any of the steps.
WebhookFails(h) ==
  /\ hook[h] # "idle"
  /\ Forget(h, "idle")
  /\ disturbed' = TRUE
  /\ UNCHANGED <<tables, meta, mem, admin, github, drifted, late>>

\* The file was applied before.
Skip(h) ==
  /\ hook[h] = "fetched"
  /\ content[h] = seen[h]
  /\ Forget(h, "idle")
  /\ UNCHANGED <<tables, meta, mem, admin, github, history>>

\* Fault: the SHA is not recorded.
ApplyUnrecorded(h) ==
  /\ hook[h] = "fetched"
  /\ content[h] # seen[h]
  /\ tables' = content[h]
  /\ configFile' = content[h]
  /\ rejected' = FALSE
  /\ drifted' = {}
  /\ Forget(h, "idle")
  /\ UNCHANGED <<enabled, managed, sha, mem, admin, github, late, disturbed>>

Apply(h) ==
  /\ hook[h] = "fetched"
  /\ content[h] # seen[h]
  /\ tables' = content[h]
  /\ configFile' = content[h]
  /\ rejected' = FALSE
  /\ sha' = content[h]
  /\ drifted' = {}
  /\ late' = ~managed
  /\ Forget(h, "idle")
  /\ UNCHANGED <<enabled, managed, mem, admin, github, disturbed>>

\* Fault: a rejected file is committed as far as it got, SHA included.
RejectCommitted(h) ==
  /\ hook[h] = "fetched"
  /\ content[h] # seen[h]
  /\ tables' = "edited"
  /\ Forget(h, "rejecting")
  /\ UNCHANGED <<meta, mem, admin, github, history>>

\* A message: what was written is rolled back, SHA included.
Reject(h) ==
  /\ hook[h] = "fetched"
  /\ content[h] # seen[h]
  /\ Forget(h, "rejecting")
  /\ UNCHANGED <<tables, meta, mem, admin, github, history>>

\* The transaction of its own that records the messages and the file.
RecordRejection(h) ==
  /\ hook[h] = "rejecting"
  /\ rejected' = TRUE
  /\ configFile' = content[h]
  /\ Forget(h, "idle")
  /\ UNCHANGED <<tables, enabled, managed, sha, mem, admin, github, history>>

Push(f) ==
  /\ deliveries < MaxDeliveries
  /\ f # repo
  /\ repo' = f
  /\ deliveries' = deliveries + 1
  /\ UNCHANGED <<tables, meta, mem, admin, webhooks, history>>

-----------------------------------------------------------------------------
(* Specification *)

\* loadMetaState of a new process.
Restart ==
  /\ mem' = enabled
  /\ pc' = [r \in Requests |-> "idle"]
  /\ want' = [r \in Requests |-> FALSE]
  /\ hook' = [h \in Webhooks |-> "idle"]
  /\ seen' = [h \in Webhooks |-> "none"]
  /\ content' = [h \in Webhooks |-> "none"]
  /\ disturbed' = TRUE
  /\ UNCHANGED <<tables, meta, github, drifted, late>>

Init ==
  /\ tables = "edited"
  /\ enabled = FALSE
  /\ managed = FALSE
  /\ configFile = "none"
  /\ rejected = FALSE
  /\ sha = "none"
  /\ mem = FALSE
  /\ pc = [r \in Requests |-> "idle"]
  /\ want = [r \in Requests |-> FALSE]
  /\ hook = [h \in Webhooks |-> "idle"]
  /\ seen = [h \in Webhooks |-> "none"]
  /\ content = [h \in Webhooks |-> "none"]
  /\ repo \in Files
  /\ deliveries = 0
  /\ drifted = {}
  /\ late = FALSE
  /\ disturbed = TRUE

Form(r) ==
  \/ Gate(r) \/ Commit(r) \/ GiveUp(r)

Webhook(h) ==
  \/ Deliver(h) \/ Fetch(h) \/ WebhookFails(h) \/ Skip(h)
  \/ Apply(h) \/ Reject(h) \/ RecordRejection(h)

Next ==
  \/ \E r \in Requests : Form(r) \/ StoreSwitch(r)
  \/ \E r \in Requests, on, byGitHub \in BOOLEAN : Settings(r, on, byGitHub)
  \/ \E f \in Files : PostConfig(f) \/ Push(f)
  \/ \E h \in Webhooks : Webhook(h)
  \/ Lose
  \/ Restart

Spec == Init /\ [][Next]_vars

-----------------------------------------------------------------------------
(* Properties *)

FlagsOK ==
  /\ enabled \in BOOLEAN /\ managed \in BOOLEAN /\ rejected \in BOOLEAN
  /\ mem \in BOOLEAN /\ want \in [Requests -> BOOLEAN]
  /\ late \in BOOLEAN /\ disturbed \in BOOLEAN

DataOK ==
  /\ tables \in Files \cup {"edited", "generated"}
  /\ configFile \in Files \cup {"none", "generated"}
  /\ drifted \subseteq {"file", "commit"}
  /\ sha \in Files \cup {"none"}
  /\ pc \in [Requests -> {"idle", "gated", "storing"}]
  /\ hook \in [Webhooks -> {"idle", "read", "fetched", "rejecting"}]
  /\ seen \in [Webhooks -> Files \cup {"none"}]
  /\ content \in [Webhooks -> Files \cup {"none"}]
  /\ repo \in Files
  /\ deliveries \in 0..MaxDeliveries

\* Type correctness; GitHub manages a file only while the file is on.
TypeOK == FlagsOK /\ DataOK /\ (managed => enabled)

\* While the file is on and shows no errors, the tables hold what it declares,
\* unless a form slipped through its gate or the switch was read stale.
TablesMatchFile == enabled /\ ~rejected /\ "file" \notin drifted => tables = configFile

\* While GitHub manages the file, the tables hold what the commit that is
\* recorded as applied declares, also after later pushes were rejected.
TablesMatchSHA ==
  managed /\ sha # "none" /\ "commit" \notin drifted /\ ~late => tables = sha

\* Once deliveries came one at a time and none failed, the last file pushed is
\* the one applied, or its rejection is on record.
DeliveriesConverge ==
  managed /\ deliveries = 0 /\ (\A h \in Webhooks : hook[h] = "idle") /\ ~disturbed
    => sha = repo \/ (rejected /\ configFile = repo)

-----------------------------------------------------------------------------
(* Properties that comments and messages suggest and the code does not have *)

\* A corrected push takes the errors of the one before away.
CorrectionClearsErrors ==
  managed /\ deliveries = 0 /\ (\A h \in Webhooks : hook[h] = "idle") /\ ~disturbed
    => (sha = repo => ~rejected)

\* No form changes anything while the file is on.
GateHolds == [][\A r \in Requests : enabled /\ Finish(r) => tables' = tables]_vars

===============================================================================
