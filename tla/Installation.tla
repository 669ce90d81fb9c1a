----------------------------- MODULE Installation -----------------------------
(***************************************************************************)
(* The setup wizard, the domain settings and the loop that waits for a     *)
(* pending domain.  All of them work on rows of the meta table and on the  *)
(* copies of these rows in memory (metaSetup, metaDomain,                  *)
(* metaUnconfirmedDomain, metaUnconfirmedDomainProblem), which a handler   *)
(* stores after it has committed and the loop before it commits.           *)
(*                                                                         *)
(* Abstractions of data, none of control:                                  *)
(*  - A domain is a name that passed the pattern; a problem is recorded or *)
(*    not, whatever its text.  The page's name is left out.                *)
(*  - Looking a domain up and obtaining its certificate is one step of a   *)
(*    handler, which reads nothing in between; the loop's are two.         *)
(*  - The Stores of one handler follow each other without anything in      *)
(*    between and are one step.                                            *)
(*  - rw is the loop that keeps the write transaction open across its      *)
(*    Stores; a handler's transaction is one step.                         *)
(*  - admins, proved, changed, slipped and crossed are history.           *)
(***************************************************************************)
EXTENDS Naturals, FiniteSets

CONSTANTS
  Domains,      \* domains that users enter
  Requests,     \* requests being handled at once
  Loops,        \* bound: loops running at once
  MaxAdmins     \* bound: accounts the wizard makes

ASSUME BoundsAssumption == MaxAdmins \in Nat \ {0}
ASSUME NamesAssumption == "none" \notin Domains

VARIABLES
  ssl,       \* metaSSL = "true", fixed when the process is installed
  db,        \* the rows of meta
  mem,       \* their copies in memory
  rw,        \* the loop that holds the write connection, {} if none does
  pc,        \* where a request is
  want,      \* the domain it was sent with
  loop,      \* where a loop is
  looked,    \* domain it looked up in this tick
  admins,    \* history: accounts made
  proved,    \* history: domains looked up and certified
  changed,   \* history: loops whose pending domain was replaced in this tick
  slipped,   \* history: such a loop made the domain in db live
  crossed    \* history: writers overtook each other between commit and Store

requests == <<pc, want>>
loops    == <<rw, loop, looked>>
history  == <<admins, proved, changed, slipped, crossed>>
vars     == <<ssl, db, mem, requests, loops, history>>

-----------------------------------------------------------------------------
(* Data *)

Stages   == {"domain", "account", "name", "done"}
Names    == Domains \cup {"none"}
Meta     == [setup : Stages, domain : Names, pending : Names, problem : BOOLEAN]

\* Wizard forms, the stage whose gate lets them in, and settings forms.
Forms == {"setDomain", "skip", "account", "name"}
StageOf(f) == IF f \in {"setDomain", "skip"} THEN "domain" ELSE f

Storing == {"storeSetDomain", "storeSkip", "storeAccount", "storeName",
            "storePlain", "storePending", "storeLive", "storeProblem", "storeCancel"}

Places == {"idle", "setDomain", "setDomainProved", "skip", "account", "name",
           "settings", "settingsPending", "settingsProve", "settingsProved", "settingsFailed"}
          \cup Storing

Ticking == {"ticked", "found", "certified", "refused", "confirming", "recording"}

\* A write transaction, with the rows it leaves; then the Stores.
Commit(r, rows, next) ==
  /\ rw = {}
  /\ db' = rows
  /\ pc' = [pc EXCEPT ![r] = next]
  /\ crossed' = (crossed \/ \E q \in Requests \ {r} : pc[q] \in Storing)
  /\ slipped' = (slipped /\ rows.domain = db.domain)
  /\ UNCHANGED <<ssl, mem, want, rw, loop, looked, proved, changed>>

\* Storing a pending domain changes what ticks in progress go on with.
StoreCopies(r, copies, next) ==
  /\ mem' = copies
  /\ changed' = IF copies.pending # mem.pending
                THEN {l \in Loops : loop[l] \in Ticking}
                ELSE changed
  /\ pc' = [pc EXCEPT ![r] = next]
  /\ want' = IF next = "idle" THEN [want EXCEPT ![r] = "none"] ELSE want
  /\ UNCHANGED <<ssl, db, rw, looked, admins, proved, slipped, crossed>>

Step(r, from, to) ==
  /\ pc[r] = from
  /\ pc' = [pc EXCEPT ![r] = to]
  /\ want' = IF to = "idle" THEN [want EXCEPT ![r] = "none"] ELSE want
  /\ UNCHANGED <<ssl, db, mem, loops, admins, changed, slipped, crossed>>

\* A handler that returns before it changes anything, or fails.
ReturnEarly(r) ==
  /\ pc[r] \notin Storing \cup {"idle"}
  /\ pc' = [pc EXCEPT ![r] = "idle"]
  /\ want' = [want EXCEPT ![r] = "none"]
  /\ UNCHANGED <<ssl, db, mem, loops, history>>

-----------------------------------------------------------------------------
(* The wizard *)

\* Fault: the gate lets any form in until the wizard is done.
GateNotDone(r, f, d) ==
  /\ pc[r] = "idle"
  /\ db.setup # "done"
  /\ pc' = [pc EXCEPT ![r] = f]
  /\ want' = [want EXCEPT ![r] = IF f \in {"account", "name"} THEN "none" ELSE d]
  /\ UNCHANGED <<ssl, db, mem, loops, history>>

\* The gate of /setup reads the stage in a transaction of its own.
Gate(r, f, d) ==
  /\ pc[r] = "idle"
  /\ db.setup = StageOf(f)
  /\ pc' = [pc EXCEPT ![r] = f]
  /\ want' = [want EXCEPT ![r] = IF f \in {"account", "name"} THEN "none" ELSE d]
  /\ UNCHANGED <<ssl, db, mem, loops, history>>

\* postSetupDomain looks the domain up and gets a certificate, with TLS only.
ProveSetupDomain(r) ==
  /\ Step(r, "setDomain", "setDomainProved")
  /\ proved' = IF ssl THEN proved \cup {want[r]} ELSE proved

PostSetupDomain(r) ==
  /\ pc[r] = "setDomainProved"
  /\ Commit(r, [db EXCEPT !.domain = want[r], !.setup = "account"], "storeSetDomain")
  /\ UNCHANGED admins

StoreSetupDomain(r) ==
  /\ pc[r] = "storeSetDomain"
  /\ StoreCopies(r, [mem EXCEPT !.domain = want[r], !.setup = "account"], "idle")
  /\ UNCHANGED loop

PostSetupDomainSkip(r) ==
  /\ pc[r] = "skip"
  /\ Commit(r, [db EXCEPT !.pending = want[r], !.setup = "account"], "storeSkip")
  /\ UNCHANGED admins

\* Its Stores, and the loop it starts.
StoreSetupDomainSkip(r) ==
  /\ pc[r] = "storeSkip"
  /\ StoreCopies(r, [mem EXCEPT !.pending = want[r], !.setup = "account"], "idle")
  /\ \E l \in Loops : /\ loop[l] = "none"
                      /\ loop' = [loop EXCEPT ![l] = "top"]

\* postSetupAccount: account, session and stage in one transaction.
PostSetupAccount(r) ==
  /\ pc[r] = "account"
  /\ admins < MaxAdmins
  /\ admins' = admins + 1
  /\ Commit(r, [db EXCEPT !.setup = "name"], "storeAccount")

StoreSetupAccount(r) ==
  /\ pc[r] = "storeAccount"
  /\ StoreCopies(r, [mem EXCEPT !.setup = "name"], "idle")
  /\ UNCHANGED loop

PostSetupName(r) ==
  /\ pc[r] = "name"
  /\ Commit(r, [db EXCEPT !.setup = "done"], "storeName")
  /\ UNCHANGED admins

StoreSetupName(r) ==
  /\ pc[r] = "storeName"
  /\ StoreCopies(r, [mem EXCEPT !.setup = "done"], "idle")
  /\ UNCHANGED loop

-----------------------------------------------------------------------------
(* Settings *)

\* postSettings with a domain, once the wizard's gate (metaSetup) is open.
Settings(r, d) ==
  /\ pc[r] = "idle"
  /\ mem.setup = "done"
  /\ pc' = [pc EXCEPT ![r] = "settings"]
  /\ want' = [want EXCEPT ![r] = d]
  /\ UNCHANGED <<ssl, db, mem, loops, history>>

\* Without TLS the domain is stored as given.
SetPlainDomain(r) ==
  /\ pc[r] = "settings"
  /\ ~ssl
  /\ Commit(r, [db EXCEPT !.domain = want[r]], "storePlain")
  /\ UNCHANGED admins

StorePlainDomain(r) ==
  /\ pc[r] = "storePlain"
  /\ StoreCopies(r, [mem EXCEPT !.domain = want[r]], "idle")
  /\ UNCHANGED loop

\* With TLS and no domain yet, it is recorded as pending first; the transaction
\* does not look again.
NoDomainYet(r) ==
  /\ ssl
  /\ mem.domain = "none"
  /\ Step(r, "settings", "settingsPending")
  /\ UNCHANGED proved

RecordPending(r) ==
  /\ pc[r] = "settingsPending"
  /\ Commit(r, [db EXCEPT !.pending = want[r]], "storePending")
  /\ UNCHANGED admins

StorePending(r) ==
  /\ pc[r] = "storePending"
  /\ StoreCopies(r, [mem EXCEPT !.pending = want[r]], "settingsProve")
  /\ UNCHANGED loop

KeepPending(r) ==
  /\ ssl
  /\ mem.domain # "none"
  /\ Step(r, "settings", "settingsProve")
  /\ UNCHANGED proved

\* Fault: a certificate is not asked for.
ProveDomainByLookup(r) ==
  /\ Step(r, "settingsProve", "settingsProved")
  /\ UNCHANGED proved

\* lookupDomain finds it and attemptCertificateAcquisition succeeds.
ProveDomain(r) ==
  /\ Step(r, "settingsProve", "settingsProved")
  /\ proved' = proved \cup {want[r]}

\* Not found, or no certificate: a problem while no domain is live.
ProveDomainFails(r) ==
  /\ Step(r, "settingsProve", IF mem.domain = "none" THEN "settingsFailed" ELSE "idle")
  /\ UNCHANGED proved

RecordProblem(r) ==
  /\ pc[r] = "settingsFailed"
  /\ Commit(r, [db EXCEPT !.problem = TRUE], "storeProblem")
  /\ UNCHANGED admins

StoreProblem(r) ==
  /\ pc[r] = "storeProblem"
  /\ StoreCopies(r, [mem EXCEPT !.problem = TRUE], "idle")
  /\ UNCHANGED loop

GoLive(r) ==
  /\ pc[r] = "settingsProved"
  /\ Commit(r, [db EXCEPT !.domain = want[r], !.pending = "none", !.problem = FALSE],
            "storeLive")
  /\ UNCHANGED admins

\* Fault: the problem is cleared in the database only.
StoreLiveNotProblem(r) ==
  /\ pc[r] = "storeLive"
  /\ StoreCopies(r, [mem EXCEPT !.domain = want[r], !.pending = "none"], "idle")
  /\ UNCHANGED loop

StoreLive(r) ==
  /\ pc[r] = "storeLive"
  /\ StoreCopies(r, [mem EXCEPT !.domain = want[r], !.pending = "none",
                                !.problem = FALSE], "idle")
  /\ UNCHANGED loop

\* postSettingsCancelDomain.
CancelDomain(r) ==
  /\ pc[r] = "idle"
  /\ mem.setup = "done"
  /\ Commit(r, [db EXCEPT !.problem = TRUE], "storeCancel")
  /\ UNCHANGED admins

StoreCancel(r) ==
  /\ pc[r] = "storeCancel"
  /\ StoreCopies(r, [mem EXCEPT !.problem = TRUE], "idle")
  /\ UNCHANGED loop

-----------------------------------------------------------------------------
(* monitorUnconfirmedDomainLoop *)

Go(l, from, to) ==
  /\ loop[l] = from
  /\ loop' = [loop EXCEPT ![l] = to]

\* The top of the loop: nothing pending, or a problem, ends it.
LoopTop(l) ==
  /\ Go(l, "top", IF mem.pending = "none" \/ mem.problem THEN "none" ELSE "waiting")
  /\ UNCHANGED <<ssl, db, mem, requests, rw, looked, history>>

\* The tick: the pending domain is read for the lookup.
Tick(l) ==
  /\ Go(l, "waiting", "ticked")
  /\ looked' = [looked EXCEPT ![l] = mem.pending]
  /\ changed' = changed \ {l}
  /\ UNCHANGED <<ssl, db, mem, requests, rw, admins, proved, slipped, crossed>>

LookupFinds(l) ==
  /\ looked[l] # "none"
  /\ Go(l, "ticked", "found")
  /\ UNCHANGED <<ssl, db, mem, requests, rw, looked, history>>

\* Not found, or an error, or the write transaction cannot begin.
TickEnds(l) ==
  /\ loop[l] \in {"ticked", "certified", "refused"}
  /\ loop' = [loop EXCEPT ![l] = "top"]
  /\ looked' = [looked EXCEPT ![l] = "none"]
  /\ changed' = changed \ {l}
  /\ UNCHANGED <<ssl, db, mem, requests, rw, admins, proved, slipped, crossed>>

\* The pending domain is read again for the certificate.
CertificateObtained(l) ==
  /\ mem.pending # "none"
  /\ Go(l, "found", "certified")
  /\ proved' = IF mem.pending = looked[l] THEN proved \cup {looked[l]} ELSE proved
  /\ looked' = [looked EXCEPT ![l] = "none"]
  /\ UNCHANGED <<ssl, db, mem, requests, rw, admins, changed, slipped, crossed>>

CertificateRefused(l) ==
  /\ Go(l, "found", "refused")
  /\ looked' = [looked EXCEPT ![l] = "none"]
  /\ UNCHANGED <<ssl, db, mem, requests, rw, history>>

Open(l) ==
  /\ rw = {}
  /\ rw' = {l}
  /\ crossed' = (crossed \/ \E q \in Requests : pc[q] \in Storing)

\* The write transaction begins, and metaDomain is stored under it.
BeginConfirm(l) ==
  /\ Go(l, "certified", "confirming")
  /\ Open(l)
  /\ mem' = [mem EXCEPT !.domain = mem.pending]
  /\ UNCHANGED <<ssl, db, requests, looked, admins, proved, changed, slipped>>

\* The pending domain is read once more for the row; the copies are cleared.
\* The commit may fail after all of it.
Confirm(l, committed) ==
  /\ Go(l, "confirming", "top")
  /\ rw' = {}
  /\ mem' = [mem EXCEPT !.pending = "none", !.problem = FALSE]
  /\ db' = IF committed
           THEN [db EXCEPT !.domain = mem.pending, !.pending = "none", !.problem = FALSE]
           ELSE db
  /\ slipped' = IF committed THEN l \in changed ELSE slipped
  /\ changed' = {k \in Loops : loop[k] \in Ticking} \ {l}
  /\ crossed' = (crossed \/ ~committed)
  /\ UNCHANGED <<ssl, requests, looked, admins, proved>>

\* A row that cannot be written ends the tick between the Stores.
ConfirmFails(l) ==
  /\ Go(l, "confirming", "top")
  /\ rw' = {}
  /\ \/ mem' = mem /\ changed' = changed \ {l}
     \/ /\ mem' = [mem EXCEPT !.pending = "none"]
        /\ changed' = {k \in Loops : loop[k] \in Ticking} \ {l}
  /\ crossed' = TRUE
  /\ UNCHANGED <<ssl, db, requests, looked, admins, proved, slipped>>

\* No certificate: the problem is stored, then written.
BeginRecord(l) ==
  /\ Go(l, "refused", "recording")
  /\ Open(l)
  /\ mem' = [mem EXCEPT !.problem = TRUE]
  /\ UNCHANGED <<ssl, db, requests, looked, admins, proved, changed, slipped>>

Record(l, committed) ==
  /\ Go(l, "recording", "top")
  /\ rw' = {}
  /\ db' = IF committed THEN [db EXCEPT !.problem = mem.problem] ELSE db
  /\ changed' = changed \ {l}
  /\ crossed' = (crossed \/ ~committed)
  /\ UNCHANGED <<ssl, mem, requests, looked, admins, proved, slipped>>

\* A new process: loadMetaState; with TLS a loop for an unproblematic pending
\* domain.
Restart ==
  /\ mem' = db
  /\ rw' = {}
  /\ pc' = [r \in Requests |-> "idle"]
  /\ want' = [r \in Requests |-> "none"]
  /\ \E l \in Loops :
       loop' = [k \in Loops |->
                 IF k = l /\ ssl /\ db.pending # "none" /\ ~db.problem
                 THEN "top" ELSE "none"]
  /\ looked' = [l \in Loops |-> "none"]
  /\ changed' = {}
  /\ crossed' = FALSE
  /\ UNCHANGED <<ssl, db, admins, proved, slipped>>

-----------------------------------------------------------------------------
(* Specification *)

\* schema.sql seeds the stage; nothing else is set.
Fresh == [setup |-> "domain", domain |-> "none", pending |-> "none", problem |-> FALSE]

Init ==
  /\ ssl \in BOOLEAN
  /\ db = Fresh
  /\ mem = Fresh
  /\ rw = {}
  /\ pc = [r \in Requests |-> "idle"]
  /\ want = [r \in Requests |-> "none"]
  /\ loop = [l \in Loops |-> "none"]
  /\ looked = [l \in Loops |-> "none"]
  /\ admins = 0
  /\ proved = {}
  /\ changed = {}
  /\ slipped = FALSE
  /\ crossed = FALSE

Wizard(r) ==
  \/ \E f \in Forms, d \in Domains : Gate(r, f, d)
  \/ ProveSetupDomain(r) \/ PostSetupDomain(r) \/ StoreSetupDomain(r)
  \/ PostSetupDomainSkip(r) \/ StoreSetupDomainSkip(r)
  \/ PostSetupAccount(r) \/ StoreSetupAccount(r)
  \/ PostSetupName(r) \/ StoreSetupName(r)

SettingsStep(r) ==
  \/ \E d \in Domains : Settings(r, d)
  \/ SetPlainDomain(r) \/ StorePlainDomain(r)
  \/ NoDomainYet(r) \/ RecordPending(r) \/ StorePending(r) \/ KeepPending(r)
  \/ ProveDomain(r) \/ ProveDomainFails(r)
  \/ RecordProblem(r) \/ StoreProblem(r)
  \/ GoLive(r) \/ StoreLive(r)
  \/ CancelDomain(r) \/ StoreCancel(r)

LoopStep(l) ==
  \/ LoopTop(l) \/ Tick(l) \/ LookupFinds(l) \/ TickEnds(l)
  \/ CertificateObtained(l) \/ CertificateRefused(l)
  \/ BeginConfirm(l) \/ ConfirmFails(l) \/ BeginRecord(l)
  \/ \E committed \in BOOLEAN : Confirm(l, committed) \/ Record(l, committed)

Next ==
  \/ \E r \in Requests : Wizard(r) \/ SettingsStep(r) \/ ReturnEarly(r)
  \/ \E l \in Loops : LoopStep(l)
  \/ Restart

Spec == Init /\ [][Next]_vars

-----------------------------------------------------------------------------
(* Properties *)

FlagsOK == ssl \in BOOLEAN /\ slipped \in BOOLEAN /\ crossed \in BOOLEAN

RowsOK == db \in Meta /\ mem \in Meta

DataOK ==
  /\ pc \in [Requests -> Places]
  /\ want \in [Requests -> Names]
  /\ loop \in [Loops -> {"none", "top", "waiting"} \cup Ticking]
  /\ looked \in [Loops -> Names]
  /\ admins \in 0..MaxAdmins
  /\ proved \subseteq Domains
  /\ changed \subseteq Loops

\* One loop at most holds the write connection, exactly inside its transactions.
ConnectionOK ==
  /\ rw = {l \in Loops : loop[l] \in {"confirming", "recording"}}
  /\ Cardinality(rw) <= 1

\* Type correctness; the write connection is kept exactly inside the loop's
\* transactions.
TypeOK == FlagsOK /\ RowsOK /\ DataOK /\ ConnectionOK

\* However many browsers run the wizard at once, it does not reach its last
\* step, or open the site, before there is an account to log in with.
NobodyLockedOut ==
  db.setup \in {"name", "done"} \/ mem.setup \in {"name", "done"} => admins > 0

Quiet == rw = {} /\ \A r \in Requests : pc[r] \notin Storing

\* Memory and database agree when no writer is between the two, unless writers
\* overtook each other there or a commit failed after the copies were stored;
\* a restart mends that.
MemoryFollowsDatabase == Quiet /\ ~crossed => mem = db

\* With TLS the live domain has been looked up and certified, unless the
\* pending domain was replaced during the tick that made it live.
LiveDomainWasProved ==
  ssl /\ ~slipped => db.domain \in proved \cup {"none"}

-----------------------------------------------------------------------------
(* Properties the comments and tests state and the code does not have *)

\* With TLS a domain is live only once it is proved.
UnprovedNeverLive == ssl => db.domain \in proved \cup {"none"}

\* A live domain is replaced, never erased.
LiveDomainNotErased == [][db.domain # "none" => db'.domain # "none"]_vars

\* The wizard is at one step at a time and goes forward only.
StageForward ==
  [][db.setup = "done" => db'.setup = "done"]_vars

\* While a cancellation, or another problem, is recorded the loop makes no
\* domain live.
ProblemStops ==
  [][\A l \in Loops : db.problem /\ mem.problem => ~Confirm(l, TRUE)]_vars

===============================================================================
