-------------------------- MODULE InstallationProofs --------------------------
(***************************************************************************)
(* Proofs about module Installation, for any number of domains, requests   *)
(* and loops.                                                              *)
(*                                                                         *)
(* That nobody is locked out needs to know which requests come after an    *)
(* account.  That memory follows the database needs, while no writers      *)
(* overtook each other, that there is one writer at most and what its      *)
(* Stores are about to make of the copies.  That a live domain was proved  *)
(* needs to know which requests and ticks hold a proved one; a tick whose  *)
(* pending domain was replaced is the exception the property names.        *)
(***************************************************************************)
EXTENDS Installation, FiniteSetTheorems, TLAPS

-----------------------------------------------------------------------------
(* The inductive invariant *)

\* One loop at most holds the write connection.
Connection ==
  /\ rw = {l \in Loops : loop[l] \in {"confirming", "recording"}}
  /\ \A k, l \in rw : k = l

\* A request that looks a domain up was sent with one.
Wanted ==
  \A r \in Requests :
    pc[r] \in {"setDomain", "settings", "settingsPending", "storePending", "settingsProve"}
      => want[r] \in Domains

\* What comes after the account: the last two stages and the requests there.
AccountFirst ==
  /\ NobodyLockedOut
  /\ \A r \in Requests : pc[r] \in {"storeAccount", "name", "storeName"} => admins > 0

IsStoring(r) == pc[r] \in Storing

\* Unless writers overtook each other, there is one at most.
OneWriter ==
  ~crossed =>
    /\ \A r \in Requests : IsStoring(r) => rw = {}
    /\ \A q, r \in Requests : IsStoring(q) /\ IsStoring(r) => q = r

\* What the Stores at a place make of the copies m, with the domain d.
Stores(place, d, m) ==
  IF place = "storeSetDomain" THEN [m EXCEPT !.domain = d, !.setup = "account"]
  ELSE IF place = "storeSkip" THEN [m EXCEPT !.pending = d, !.setup = "account"]
  ELSE IF place = "storeAccount" THEN [m EXCEPT !.setup = "name"]
  ELSE IF place = "storeName" THEN [m EXCEPT !.setup = "done"]
  ELSE IF place = "storePlain" THEN [m EXCEPT !.domain = d]
  ELSE IF place = "storePending" THEN [m EXCEPT !.pending = d]
  ELSE IF place = "storeLive"
       THEN [m EXCEPT !.domain = d, !.pending = "none", !.problem = FALSE]
  ELSE [m EXCEPT !.problem = TRUE]

\* Then its Stores are about to make the copies those of the database; a loop
\* has stored a part of what it commits.
StoresAgree ==
  ~crossed => \A r \in Requests : IsStoring(r) => db = Stores(pc[r], want[r], mem)

LoopsAgree ==
  ~crossed => \A l \in Loops :
    /\ loop[l] = "confirming" => mem = [db EXCEPT !.domain = db.pending]
    /\ loop[l] = "recording" => mem = [db EXCEPT !.problem = TRUE]

Agreement == OneWriter /\ StoresAgree /\ LoopsAgree /\ MemoryFollowsDatabase

\* Who holds a proved domain.
ProvedRequests ==
  \A r \in Requests :
    \/ pc[r] = "setDomainProved" /\ ssl
    \/ pc[r] = "settingsProved"
    => want[r] \in proved

ProvedLoops ==
  \A l \in Loops \ changed :
    /\ loop[l] \in {"ticked", "found"} => looked[l] = mem.pending
    /\ loop[l] \in {"certified", "confirming"} => mem.pending \in proved \cup {"none"}

Proving == ProvedRequests /\ ProvedLoops /\ LiveDomainWasProved

IInv ==
  /\ FlagsOK /\ RowsOK /\ DataOK /\ Connection /\ Wanted
  /\ AccountFirst /\ Agreement /\ Proving

-----------------------------------------------------------------------------
(* Types *)

LEMMA FlagsStep ==
  ASSUME FlagsOK, [Next]_vars
  PROVE  FlagsOK'
<1> USE DEF FlagsOK, requests, loops, history, Step, Commit, StoreCopies, Go, Open
<1>1. ASSUME NEW r \in Requests, Wizard(r)
      PROVE  FlagsOK'
  BY <1>1, Zenon
     DEF Wizard, Gate, ProveSetupDomain, PostSetupDomain, StoreSetupDomain,
         PostSetupDomainSkip, StoreSetupDomainSkip, PostSetupAccount, StoreSetupAccount,
         PostSetupName, StoreSetupName
<1>2. ASSUME NEW r \in Requests, SettingsStep(r) \/ ReturnEarly(r)
      PROVE  FlagsOK'
  BY <1>2, Zenon
     DEF SettingsStep, ReturnEarly, Settings, SetPlainDomain, StorePlainDomain,
         NoDomainYet, RecordPending, StorePending, KeepPending,
         ProveDomain, ProveDomainFails,
         RecordProblem, StoreProblem, GoLive, StoreLive, CancelDomain, StoreCancel
<1>3. ASSUME NEW l \in Loops, LoopStep(l)
      PROVE  FlagsOK'
  <2>1. ASSUME NEW committed \in BOOLEAN, Confirm(l, committed)
        PROVE  FlagsOK'
    <3>1. slipped' \in BOOLEAN
      <4>1. (l \in changed) \in BOOLEAN
        OBVIOUS
      <4>2. slipped' = (l \in changed) \/ slipped' = slipped
        BY <2>1, Zenon DEF Confirm
      <4>3. QED
        BY <4>1, <4>2, Zenon
    <3>2. QED
      BY <2>1, <3>1, Zenon DEF Confirm
  <2>2. ASSUME NEW committed \in BOOLEAN, Record(l, committed)
        PROVE  FlagsOK'
    BY <2>2, Zenon DEF Record
  <2>3. QED
    BY <1>3, <2>1, <2>2, Zenon
       DEF LoopStep, LoopTop, Tick, LookupFinds, TickEnds, CertificateObtained,
           CertificateRefused, BeginConfirm, ConfirmFails, BeginRecord
<1>4. CASE Restart
  BY <1>4, Zenon DEF Restart
<1>5. CASE UNCHANGED vars
  BY <1>5, Zenon DEF vars
<1>6. QED
  BY <1>1, <1>2, <1>3, <1>4, <1>5 DEF Next

LEMMA RowsStep ==
  ASSUME RowsOK, DataOK, [Next]_vars
  PROVE  RowsOK'
<1> USE DEF RowsOK, DataOK, Meta, Stages, Names, requests, loops, history,
            Step, Commit, StoreCopies, Go, Open
<1>1. ASSUME NEW r \in Requests, Wizard(r)
      PROVE  RowsOK'
  <2>1. CASE PostSetupDomain(r)
    BY <2>1 DEF PostSetupDomain
  <2>2. CASE StoreSetupDomain(r)
    BY <2>2 DEF StoreSetupDomain
  <2>3. CASE PostSetupDomainSkip(r)
    BY <2>3 DEF PostSetupDomainSkip
  <2>4. CASE StoreSetupDomainSkip(r)
    BY <2>4 DEF StoreSetupDomainSkip
  <2>5. CASE PostSetupAccount(r)
    BY <2>5 DEF PostSetupAccount
  <2>6. CASE StoreSetupAccount(r)
    BY <2>6 DEF StoreSetupAccount
  <2>7. CASE PostSetupName(r)
    BY <2>7 DEF PostSetupName
  <2>8. CASE StoreSetupName(r)
    BY <2>8 DEF StoreSetupName
  <2>9. CASE UNCHANGED <<db, mem>>
    BY <2>9
  <2>10. QED
    BY <1>1, <2>1, <2>2, <2>3, <2>4, <2>5, <2>6, <2>7, <2>8, <2>9
       DEF Wizard, Gate, ProveSetupDomain
<1>2. ASSUME NEW r \in Requests, SettingsStep(r) \/ ReturnEarly(r)
      PROVE  RowsOK'
  <2>1. CASE SetPlainDomain(r)
    BY <2>1 DEF SetPlainDomain
  <2>2. CASE StorePlainDomain(r)
    BY <2>2 DEF StorePlainDomain
  <2>3. CASE RecordPending(r)
    BY <2>3 DEF RecordPending
  <2>4. CASE StorePending(r)
    BY <2>4 DEF StorePending
  <2>5. CASE RecordProblem(r)
    BY <2>5 DEF RecordProblem
  <2>6. CASE StoreProblem(r)
    BY <2>6 DEF StoreProblem
  <2>7. CASE GoLive(r)
    BY <2>7 DEF GoLive
  <2>8. CASE StoreLive(r)
    BY <2>8 DEF StoreLive
  <2>9. CASE CancelDomain(r)
    BY <2>9 DEF CancelDomain
  <2>10. CASE StoreCancel(r)
    BY <2>10 DEF StoreCancel
  <2>11. CASE UNCHANGED <<db, mem>>
    BY <2>11
  <2>12. QED
    BY <1>2, <2>1, <2>2, <2>3, <2>4, <2>5, <2>6, <2>7, <2>8, <2>9, <2>10, <2>11
       DEF SettingsStep, ReturnEarly, Settings, NoDomainYet, KeepPending, ProveDomain,
           ProveDomainFails
<1>3. ASSUME NEW l \in Loops, LoopStep(l)
      PROVE  RowsOK'
  <2>1. CASE BeginConfirm(l)
    BY <2>1 DEF BeginConfirm
  <2>2. CASE BeginRecord(l)
    BY <2>2 DEF BeginRecord
  <2>3. ASSUME NEW committed \in BOOLEAN, Confirm(l, committed)
        PROVE  RowsOK'
    BY <2>3 DEF Confirm
  <2>4. ASSUME NEW committed \in BOOLEAN, Record(l, committed)
        PROVE  RowsOK'
    BY <2>4 DEF Record
  <2>5. CASE UNCHANGED <<db, mem>>
    BY <2>5
  <2>6. CASE ConfirmFails(l)
    BY <2>6 DEF ConfirmFails
  <2>7. QED
    BY <1>3, <2>1, <2>2, <2>3, <2>4, <2>5, <2>6
       DEF LoopStep, LoopTop, Tick, LookupFinds, TickEnds, CertificateObtained,
           CertificateRefused
<1>4. CASE Restart
  BY <1>4 DEF Restart
<1>5. CASE UNCHANGED vars
  BY <1>5 DEF vars
<1>6. QED
  BY <1>1, <1>2, <1>3, <1>4, <1>5 DEF Next

LEMMA DataStep ==
  ASSUME RowsOK, DataOK, Wanted, [Next]_vars
  PROVE  DataOK' /\ Wanted'
<1> USE BoundsAssumption, NamesAssumption
    DEF RowsOK, DataOK, Meta, Names, Wanted, Places, Storing, Ticking,
        requests, loops, history, Step, Commit, StoreCopies, Go, Open
<1>1. ASSUME NEW r \in Requests, Wizard(r)
      PROVE  DataOK' /\ Wanted'
  BY <1>1
     DEF Wizard, Gate, Forms, ProveSetupDomain, PostSetupDomain, StoreSetupDomain,
         PostSetupDomainSkip, StoreSetupDomainSkip, PostSetupAccount, StoreSetupAccount,
         PostSetupName, StoreSetupName
<1>2. ASSUME NEW r \in Requests, SettingsStep(r) \/ ReturnEarly(r)
      PROVE  DataOK' /\ Wanted'
  BY <1>2
     DEF SettingsStep, ReturnEarly, Settings, SetPlainDomain, StorePlainDomain,
         NoDomainYet, RecordPending, StorePending, KeepPending,
         ProveDomain, ProveDomainFails,
         RecordProblem, StoreProblem, GoLive, StoreLive, CancelDomain, StoreCancel
<1>3. ASSUME NEW l \in Loops, LoopStep(l)
      PROVE  DataOK' /\ Wanted'
  BY <1>3
     DEF LoopStep, LoopTop, Tick, LookupFinds, TickEnds, CertificateObtained,
         CertificateRefused, BeginConfirm, ConfirmFails, BeginRecord, Confirm, Record
<1>4. CASE Restart
  BY <1>4 DEF Restart
<1>5. CASE UNCHANGED vars
  BY <1>5 DEF vars
<1>6. QED
  BY <1>1, <1>2, <1>3, <1>4, <1>5 DEF Next

-----------------------------------------------------------------------------
(* The write connection *)

LEMMA ConnectionStep ==
  ASSUME DataOK, Connection, [Next]_vars
  PROVE  Connection'
<1> USE DEF Connection, DataOK, Ticking, requests, loops, history, Step, Commit, StoreCopies,
            Go, Open
<1>1. ASSUME NEW r \in Requests, Wizard(r)
      PROVE  Connection'
  BY <1>1
     DEF Wizard, Gate, Forms, ProveSetupDomain, PostSetupDomain, StoreSetupDomain,
         PostSetupDomainSkip, StoreSetupDomainSkip, PostSetupAccount, StoreSetupAccount,
         PostSetupName, StoreSetupName
<1>2. ASSUME NEW r \in Requests, SettingsStep(r) \/ ReturnEarly(r)
      PROVE  Connection'
  BY <1>2
     DEF SettingsStep, ReturnEarly, Settings, SetPlainDomain, StorePlainDomain,
         NoDomainYet, RecordPending, StorePending, KeepPending,
         ProveDomain, ProveDomainFails,
         RecordProblem, StoreProblem, GoLive, StoreLive, CancelDomain, StoreCancel
<1>3. ASSUME NEW l \in Loops, LoopStep(l)
      PROVE  Connection'
  BY <1>3
     DEF LoopStep, LoopTop, Tick, LookupFinds, TickEnds, CertificateObtained,
         CertificateRefused, BeginConfirm, ConfirmFails, BeginRecord, Confirm, Record
<1>4. CASE Restart
  BY <1>4 DEF Restart
<1>5. CASE UNCHANGED vars
  BY <1>5 DEF vars
<1>6. QED
  BY <1>1, <1>2, <1>3, <1>4, <1>5 DEF Next

-----------------------------------------------------------------------------
(* The account comes first *)

LEMMA AccountStep ==
  ASSUME RowsOK, DataOK, AccountFirst, [Next]_vars
  PROVE  AccountFirst'
<1> USE BoundsAssumption
    DEF AccountFirst, NobodyLockedOut, RowsOK, DataOK, Meta, Names, Places, Storing, StageOf,
        requests, loops, history, Step, Commit, StoreCopies, Go, Open
<1>1. ASSUME NEW r \in Requests, Wizard(r)
      PROVE  AccountFirst'
  <2>1. ASSUME NEW f \in Forms, NEW d \in Domains, Gate(r, f, d)
        PROVE  AccountFirst'
    BY <2>1 DEF Gate, Forms
  <2>2. CASE ProveSetupDomain(r)
    BY <2>2 DEF ProveSetupDomain
  <2>3. CASE PostSetupDomain(r)
    BY <2>3 DEF PostSetupDomain
  <2>4. CASE StoreSetupDomain(r)
    BY <2>4 DEF StoreSetupDomain
  <2>5. CASE PostSetupDomainSkip(r)
    BY <2>5 DEF PostSetupDomainSkip
  <2>6. CASE StoreSetupDomainSkip(r)
    BY <2>6 DEF StoreSetupDomainSkip
  <2>7. CASE PostSetupAccount(r)
    BY <2>7 DEF PostSetupAccount
  <2>8. CASE StoreSetupAccount(r)
    BY <2>8 DEF StoreSetupAccount
  <2>9. CASE PostSetupName(r)
    BY <2>9 DEF PostSetupName
  <2>10. CASE StoreSetupName(r)
    BY <2>10 DEF StoreSetupName
  <2>11. QED
    BY <1>1, <2>1, <2>2, <2>3, <2>4, <2>5, <2>6, <2>7, <2>8, <2>9, <2>10
       DEF Wizard
<1>2. ASSUME NEW r \in Requests, SettingsStep(r) \/ ReturnEarly(r)
      PROVE  AccountFirst'
  <2>1. ASSUME NEW d \in Domains, Settings(r, d)
        PROVE  AccountFirst'
    BY <2>1 DEF Settings
  <2>2. CASE SetPlainDomain(r)
    BY <2>2 DEF SetPlainDomain
  <2>3. CASE StorePlainDomain(r)
    BY <2>3 DEF StorePlainDomain
  <2>4. CASE RecordPending(r)
    BY <2>4 DEF RecordPending
  <2>5. CASE StorePending(r)
    BY <2>5 DEF StorePending
  <2>6. CASE KeepPending(r)
    BY <2>6 DEF KeepPending
  <2>7. CASE ProveDomain(r)
    BY <2>7 DEF ProveDomain
  <2>8. CASE ProveDomainFails(r)
    BY <2>8 DEF ProveDomainFails
  <2>9. CASE RecordProblem(r)
    BY <2>9 DEF RecordProblem
  <2>10. CASE StoreProblem(r)
    BY <2>10 DEF StoreProblem
  <2>11. CASE GoLive(r)
    BY <2>11 DEF GoLive
  <2>12. CASE StoreLive(r)
    BY <2>12 DEF StoreLive
  <2>13. CASE CancelDomain(r)
    BY <2>13 DEF CancelDomain
  <2>14. CASE StoreCancel(r)
    BY <2>14 DEF StoreCancel
  <2>15. CASE ReturnEarly(r)
    BY <2>15 DEF ReturnEarly
  <2>16. CASE NoDomainYet(r)
    BY <2>16 DEF NoDomainYet
  <2>17. QED
    BY <1>2, <2>1, <2>2, <2>3, <2>4, <2>5, <2>6, <2>7, <2>8, <2>9, <2>10, <2>11, <2>12,
       <2>13, <2>14, <2>15, <2>16
       DEF SettingsStep
<1>3. ASSUME NEW l \in Loops, LoopStep(l)
      PROVE  AccountFirst'
  <2>1. CASE UNCHANGED <<db, mem, pc, admins>>
    BY <2>1
  <2>2. CASE BeginConfirm(l)
    BY <2>2 DEF BeginConfirm
  <2>3. CASE BeginRecord(l)
    BY <2>3 DEF BeginRecord
  <2>4. ASSUME NEW committed \in BOOLEAN, Confirm(l, committed)
        PROVE  AccountFirst'
    BY <2>4 DEF Confirm
  <2>5. ASSUME NEW committed \in BOOLEAN, Record(l, committed)
        PROVE  AccountFirst'
    BY <2>5 DEF Record
  <2>6. CASE ConfirmFails(l)
    BY <2>6 DEF ConfirmFails
  <2>7. QED
    BY <1>3, <2>1, <2>2, <2>3, <2>4, <2>5, <2>6
       DEF LoopStep, LoopTop, Tick, LookupFinds, TickEnds, CertificateObtained,
           CertificateRefused
<1>4. CASE Restart
  BY <1>4 DEF Restart
<1>5. CASE UNCHANGED vars
  BY <1>5 DEF vars
<1>6. QED
  BY <1>1, <1>2, <1>3, <1>4, <1>5 DEF Next

-----------------------------------------------------------------------------
(* Memory and database *)

LEMMA OneWriterStep ==
  ASSUME DataOK, Connection, OneWriter, [Next]_vars
  PROVE  OneWriter'
<1> USE DEF DataOK, Connection, OneWriter, IsStoring, Storing, Places,
        requests, loops, history, Step, Commit, StoreCopies, Go, Open
<1>1. ASSUME NEW r \in Requests, Wizard(r)
      PROVE  OneWriter'
  <2>1. ASSUME NEW f \in Forms, NEW d \in Domains, Gate(r, f, d)
        PROVE  OneWriter'
    BY <2>1 DEF Gate, Forms
  <2>2. CASE ProveSetupDomain(r)
    BY <2>2 DEF ProveSetupDomain
  <2>3. CASE PostSetupDomain(r)
    BY <2>3 DEF PostSetupDomain
  <2>4. CASE StoreSetupDomain(r)
    BY <2>4 DEF StoreSetupDomain
  <2>5. CASE PostSetupDomainSkip(r)
    BY <2>5 DEF PostSetupDomainSkip
  <2>6. CASE StoreSetupDomainSkip(r)
    BY <2>6 DEF StoreSetupDomainSkip
  <2>7. CASE PostSetupAccount(r)
    BY <2>7 DEF PostSetupAccount
  <2>8. CASE StoreSetupAccount(r)
    BY <2>8 DEF StoreSetupAccount
  <2>9. CASE PostSetupName(r)
    BY <2>9 DEF PostSetupName
  <2>10. CASE StoreSetupName(r)
    BY <2>10 DEF StoreSetupName
  <2>11. QED
    BY <1>1, <2>1, <2>2, <2>3, <2>4, <2>5, <2>6, <2>7, <2>8, <2>9, <2>10
       DEF Wizard
<1>2. ASSUME NEW r \in Requests, SettingsStep(r) \/ ReturnEarly(r)
      PROVE  OneWriter'
  <2>1. ASSUME NEW d \in Domains, Settings(r, d)
        PROVE  OneWriter'
    BY <2>1 DEF Settings
  <2>2. CASE SetPlainDomain(r)
    BY <2>2 DEF SetPlainDomain
  <2>3. CASE StorePlainDomain(r)
    BY <2>3 DEF StorePlainDomain
  <2>4. CASE RecordPending(r)
    BY <2>4 DEF RecordPending
  <2>5. CASE StorePending(r)
    BY <2>5 DEF StorePending
  <2>6. CASE KeepPending(r)
    BY <2>6 DEF KeepPending
  <2>7. CASE ProveDomain(r)
    BY <2>7 DEF ProveDomain
  <2>8. CASE ProveDomainFails(r)
    BY <2>8 DEF ProveDomainFails
  <2>9. CASE RecordProblem(r)
    BY <2>9 DEF RecordProblem
  <2>10. CASE StoreProblem(r)
    BY <2>10 DEF StoreProblem
  <2>11. CASE GoLive(r)
    BY <2>11 DEF GoLive
  <2>12. CASE StoreLive(r)
    BY <2>12 DEF StoreLive
  <2>13. CASE CancelDomain(r)
    BY <2>13 DEF CancelDomain
  <2>14. CASE StoreCancel(r)
    BY <2>14 DEF StoreCancel
  <2>15. CASE ReturnEarly(r)
    BY <2>15 DEF ReturnEarly
  <2>16. CASE NoDomainYet(r)
    BY <2>16 DEF NoDomainYet
  <2>17. QED
    BY <1>2, <2>1, <2>2, <2>3, <2>4, <2>5, <2>6, <2>7, <2>8, <2>9, <2>10, <2>11, <2>12,
       <2>13, <2>14, <2>15, <2>16
       DEF SettingsStep
<1>3. ASSUME NEW l \in Loops, LoopStep(l)
      PROVE  OneWriter'
  BY <1>3
     DEF LoopStep, LoopTop, Tick, LookupFinds, TickEnds, CertificateObtained,
         CertificateRefused, BeginConfirm, ConfirmFails, BeginRecord, Confirm, Record
<1>4. CASE Restart
  BY <1>4 DEF Restart
<1>5. CASE UNCHANGED vars
  BY <1>5 DEF vars
<1>6. QED
  BY <1>1, <1>2, <1>3, <1>4, <1>5 DEF Next

LEMMA CommitAgrees ==
  ASSUME RowsOK, DataOK, Connection, Agreement, OneWriter',
         NEW r \in Requests, NEW rows, NEW next \in Storing,
         ~IsStoring(r), Commit(r, rows, next), rows = Stores(next, want[r], db)
  PROVE  Agreement'
<1> USE DEF Commit
<1>1. SUFFICES ASSUME ~crossed'
               PROVE  StoresAgree' /\ LoopsAgree' /\ MemoryFollowsDatabase'
  BY DEF Agreement, StoresAgree, LoopsAgree, MemoryFollowsDatabase
<1>2. ~crossed /\ rw = {} /\ \A q \in Requests : ~IsStoring(q)
  BY <1>1 DEF IsStoring
<1>3. mem = db
  BY <1>2 DEF Agreement, MemoryFollowsDatabase, Quiet, IsStoring
<1>4. \A q \in Requests : IsStoring(q)' => q = r
  BY <1>2 DEF IsStoring, DataOK
<1>5. pc'[r] = next /\ IsStoring(r)'
  BY DEF DataOK, IsStoring
<1>6. db' = Stores(next, want[r], mem)
  BY <1>3
<1>7. StoresAgree'
  BY <1>4, <1>5, <1>6 DEF StoresAgree
<1>8. LoopsAgree'
  BY <1>2 DEF LoopsAgree, Connection
<1>9. MemoryFollowsDatabase'
  BY <1>5 DEF MemoryFollowsDatabase, Quiet, IsStoring
<1>10. QED
  BY <1>7, <1>8, <1>9

LEMMA StoreAgrees ==
  ASSUME DataOK, Agreement, OneWriter', Connection',
         NEW r \in Requests, NEW copies, NEW next \in Places \ Storing,
         IsStoring(r), StoreCopies(r, copies, next), copies = Stores(pc[r], want[r], mem)
  PROVE  Agreement'
<1> USE DEF StoreCopies
<1>1. SUFFICES ASSUME ~crossed
               PROVE  StoresAgree' /\ LoopsAgree' /\ MemoryFollowsDatabase'
  BY DEF Agreement, StoresAgree, LoopsAgree, MemoryFollowsDatabase
<1>2. rw = {} /\ \A q \in Requests : IsStoring(q) => q = r
  BY <1>1 DEF Agreement, OneWriter
<1>3. mem' = db'
  BY <1>1 DEF Agreement, StoresAgree
<1>4. \A q \in Requests : ~IsStoring(q)'
  BY <1>2 DEF IsStoring, DataOK
<1>5. LoopsAgree'
  BY <1>2 DEF LoopsAgree, Connection
<1>6. QED
  BY <1>3, <1>4, <1>5 DEF StoresAgree, MemoryFollowsDatabase

\* Steps between the writes.
LEMMA PauseAgrees ==
  ASSUME Agreement, OneWriter', UNCHANGED <<db, mem, rw, crossed>>,
         \A q \in Requests : IsStoring(q)' <=> IsStoring(q),
         \A q \in Requests : IsStoring(q) => pc'[q] = pc[q] /\ want'[q] = want[q],
         \A l \in Loops : loop'[l] \in {"confirming", "recording"} => loop'[l] = loop[l]
  PROVE  Agreement'
<1>1. StoresAgree'
  BY DEF Agreement, StoresAgree
<1>2. LoopsAgree'
  BY DEF Agreement, LoopsAgree
<1>3. Quiet' <=> Quiet
  BY DEF Quiet, IsStoring
<1>4. MemoryFollowsDatabase'
  BY <1>3 DEF Agreement, MemoryFollowsDatabase
<1>5. QED
  BY <1>1, <1>2, <1>4 DEF Agreement

LEMMA WizardAgrees ==
  ASSUME RowsOK, DataOK, Connection, Agreement, OneWriter', Connection',
         NEW r \in Requests, Wizard(r)
  PROVE  Agreement'
<1>1. ASSUME NEW f \in Forms, NEW d \in Domains, Gate(r, f, d)
      PROVE  Agreement'
  <2>1. /\ UNCHANGED <<db, mem, rw, crossed, loop>>
        /\ \A q \in Requests : IsStoring(q)' <=> IsStoring(q)
        /\ \A q \in Requests : IsStoring(q) => pc'[q] = pc[q] /\ want'[q] = want[q]
    BY <1>1 DEF Gate, Forms, Step, DataOK, IsStoring, Storing, loops, history
  <2>2. QED
    BY <2>1, PauseAgrees
<1>2. CASE ProveSetupDomain(r)
  <2>1. /\ UNCHANGED <<db, mem, rw, crossed, loop>>
        /\ \A q \in Requests : IsStoring(q)' <=> IsStoring(q)
        /\ \A q \in Requests : IsStoring(q) => pc'[q] = pc[q] /\ want'[q] = want[q]
    BY <1>2 DEF ProveSetupDomain, Step, DataOK, IsStoring, Storing, loops, history
  <2>2. QED
    BY <2>1, PauseAgrees
<1>3. CASE PostSetupDomain(r)
  <2>1. "storeSetDomain" \in Storing /\ ~IsStoring(r)
    BY <1>3 DEF PostSetupDomain, IsStoring, Storing
  <2>2. PICK rows :
           /\ rows = Stores("storeSetDomain", want[r], db)
           /\ Commit(r, rows, "storeSetDomain")
    BY <1>3 DEF PostSetupDomain, Stores
  <2>3. QED
    BY <2>1, <2>2, CommitAgrees
<1>4. CASE PostSetupDomainSkip(r)
  <2>1. "storeSkip" \in Storing /\ ~IsStoring(r)
    BY <1>4 DEF PostSetupDomainSkip, IsStoring, Storing
  <2>2. PICK rows : rows = Stores("storeSkip", want[r], db) /\ Commit(r, rows, "storeSkip")
    BY <1>4 DEF PostSetupDomainSkip, Stores
  <2>3. QED
    BY <2>1, <2>2, CommitAgrees
<1>5. CASE PostSetupAccount(r)
  <2>1. "storeAccount" \in Storing /\ ~IsStoring(r)
    BY <1>5 DEF PostSetupAccount, IsStoring, Storing
  <2>2. PICK rows :
           /\ rows = Stores("storeAccount", want[r], db)
           /\ Commit(r, rows, "storeAccount")
    BY <1>5 DEF PostSetupAccount, Stores
  <2>3. QED
    BY <2>1, <2>2, CommitAgrees
<1>6. CASE PostSetupName(r)
  <2>1. "storeName" \in Storing /\ ~IsStoring(r)
    BY <1>6 DEF PostSetupName, IsStoring, Storing
  <2>2. PICK rows : rows = Stores("storeName", want[r], db) /\ Commit(r, rows, "storeName")
    BY <1>6 DEF PostSetupName, Stores
  <2>3. QED
    BY <2>1, <2>2, CommitAgrees
<1>7. CASE StoreSetupDomain(r)
  <2>1. "idle" \in Places \ Storing /\ IsStoring(r) /\ pc[r] = "storeSetDomain"
    BY <1>7 DEF StoreSetupDomain, IsStoring, Storing, Places
  <2>2. PICK copies :
           /\ copies = Stores("storeSetDomain", want[r], mem)
           /\ StoreCopies(r, copies, "idle")
    BY <1>7 DEF StoreSetupDomain, Stores
  <2>3. QED
    BY <2>1, <2>2, StoreAgrees
<1>8. CASE StoreSetupDomainSkip(r)
  <2>1. "idle" \in Places \ Storing /\ IsStoring(r) /\ pc[r] = "storeSkip"
    BY <1>8 DEF StoreSetupDomainSkip, IsStoring, Storing, Places
  <2>2. PICK copies :
           /\ copies = Stores("storeSkip", want[r], mem)
           /\ StoreCopies(r, copies, "idle")
    BY <1>8 DEF StoreSetupDomainSkip, Stores
  <2>3. QED
    BY <2>1, <2>2, StoreAgrees
<1>9. CASE StoreSetupAccount(r)
  <2>1. "idle" \in Places \ Storing /\ IsStoring(r) /\ pc[r] = "storeAccount"
    BY <1>9 DEF StoreSetupAccount, IsStoring, Storing, Places
  <2>2. PICK copies :
           /\ copies = Stores("storeAccount", want[r], mem)
           /\ StoreCopies(r, copies, "idle")
    BY <1>9 DEF StoreSetupAccount, Stores
  <2>3. QED
    BY <2>1, <2>2, StoreAgrees
<1>10. CASE StoreSetupName(r)
  <2>1. "idle" \in Places \ Storing /\ IsStoring(r) /\ pc[r] = "storeName"
    BY <1>10 DEF StoreSetupName, IsStoring, Storing, Places
  <2>2. PICK copies :
           /\ copies = Stores("storeName", want[r], mem)
           /\ StoreCopies(r, copies, "idle")
    BY <1>10 DEF StoreSetupName, Stores
  <2>3. QED
    BY <2>1, <2>2, StoreAgrees
<1>11. QED
  BY <1>1, <1>2, <1>3, <1>4, <1>5, <1>6, <1>7, <1>8, <1>9, <1>10 DEF Wizard

LEMMA SettingsAgrees ==
  ASSUME RowsOK, DataOK, Connection, Agreement, OneWriter', Connection',
         NEW r \in Requests, SettingsStep(r) \/ ReturnEarly(r)
  PROVE  Agreement'
<1>1. ASSUME NEW d \in Domains, Settings(r, d)
      PROVE  Agreement'
  <2>1. /\ UNCHANGED <<db, mem, rw, crossed, loop>>
        /\ \A q \in Requests : IsStoring(q)' <=> IsStoring(q)
        /\ \A q \in Requests : IsStoring(q) => pc'[q] = pc[q] /\ want'[q] = want[q]
    BY <1>1 DEF Settings, Step, DataOK, IsStoring, Storing, loops, history
  <2>2. QED
    BY <2>1, PauseAgrees
<1>2. CASE NoDomainYet(r) \/ KeepPending(r) \/ ProveDomain(r) \/ ProveDomainFails(r)
  <2>1. /\ UNCHANGED <<db, mem, rw, crossed, loop>>
        /\ \A q \in Requests : IsStoring(q)' <=> IsStoring(q)
        /\ \A q \in Requests : IsStoring(q) => pc'[q] = pc[q] /\ want'[q] = want[q]
    BY <1>2
       DEF NoDomainYet, KeepPending, ProveDomain, ProveDomainFails, Step, DataOK, IsStoring,
           Storing, loops, history
  <2>2. QED
    BY <2>1, PauseAgrees
<1>3. CASE ReturnEarly(r)
  <2>1. /\ UNCHANGED <<db, mem, rw, crossed, loop>>
        /\ \A q \in Requests : IsStoring(q)' <=> IsStoring(q)
        /\ \A q \in Requests : IsStoring(q) => pc'[q] = pc[q] /\ want'[q] = want[q]
    BY <1>3 DEF ReturnEarly, Step, DataOK, IsStoring, Storing, loops, history
  <2>2. QED
    BY <2>1, PauseAgrees
<1>4. CASE SetPlainDomain(r)
  <2>1. "storePlain" \in Storing /\ ~IsStoring(r)
    BY <1>4 DEF SetPlainDomain, IsStoring, Storing
  <2>2. PICK rows : rows = Stores("storePlain", want[r], db) /\ Commit(r, rows, "storePlain")
    BY <1>4 DEF SetPlainDomain, Stores
  <2>3. QED
    BY <2>1, <2>2, CommitAgrees
<1>5. CASE RecordPending(r)
  <2>1. "storePending" \in Storing /\ ~IsStoring(r)
    BY <1>5 DEF RecordPending, IsStoring, Storing
  <2>2. PICK rows :
           /\ rows = Stores("storePending", want[r], db)
           /\ Commit(r, rows, "storePending")
    BY <1>5 DEF RecordPending, Stores
  <2>3. QED
    BY <2>1, <2>2, CommitAgrees
<1>6. CASE RecordProblem(r)
  <2>1. "storeProblem" \in Storing /\ ~IsStoring(r)
    BY <1>6 DEF RecordProblem, IsStoring, Storing
  <2>2. PICK rows :
           /\ rows = Stores("storeProblem", want[r], db)
           /\ Commit(r, rows, "storeProblem")
    BY <1>6 DEF RecordProblem, Stores
  <2>3. QED
    BY <2>1, <2>2, CommitAgrees
<1>7. CASE GoLive(r)
  <2>1. "storeLive" \in Storing /\ ~IsStoring(r)
    BY <1>7 DEF GoLive, IsStoring, Storing
  <2>2. PICK rows : rows = Stores("storeLive", want[r], db) /\ Commit(r, rows, "storeLive")
    BY <1>7 DEF GoLive, Stores
  <2>3. QED
    BY <2>1, <2>2, CommitAgrees
<1>8. CASE CancelDomain(r)
  <2>1. "storeCancel" \in Storing /\ ~IsStoring(r)
    BY <1>8 DEF CancelDomain, IsStoring, Storing
  <2>2. PICK rows : rows = Stores("storeCancel", want[r], db) /\ Commit(r, rows, "storeCancel")
    BY <1>8 DEF CancelDomain, Stores
  <2>3. QED
    BY <2>1, <2>2, CommitAgrees
<1>9. CASE StorePlainDomain(r)
  <2>1. "idle" \in Places \ Storing /\ IsStoring(r) /\ pc[r] = "storePlain"
    BY <1>9 DEF StorePlainDomain, IsStoring, Storing, Places
  <2>2. PICK copies :
           /\ copies = Stores("storePlain", want[r], mem)
           /\ StoreCopies(r, copies, "idle")
    BY <1>9 DEF StorePlainDomain, Stores
  <2>3. QED
    BY <2>1, <2>2, StoreAgrees
<1>10. CASE StorePending(r)
  <2>1. "settingsProve" \in Places \ Storing /\ IsStoring(r) /\ pc[r] = "storePending"
    BY <1>10 DEF StorePending, IsStoring, Storing, Places
  <2>2. PICK copies :
           /\ copies = Stores("storePending", want[r], mem)
           /\ StoreCopies(r, copies, "settingsProve")
    BY <1>10 DEF StorePending, Stores
  <2>3. QED
    BY <2>1, <2>2, StoreAgrees
<1>11. CASE StoreProblem(r)
  <2>1. "idle" \in Places \ Storing /\ IsStoring(r) /\ pc[r] = "storeProblem"
    BY <1>11 DEF StoreProblem, IsStoring, Storing, Places
  <2>2. PICK copies :
           /\ copies = Stores("storeProblem", want[r], mem)
           /\ StoreCopies(r, copies, "idle")
    BY <1>11 DEF StoreProblem, Stores
  <2>3. QED
    BY <2>1, <2>2, StoreAgrees
<1>12. CASE StoreLive(r)
  <2>1. "idle" \in Places \ Storing /\ IsStoring(r) /\ pc[r] = "storeLive"
    BY <1>12 DEF StoreLive, IsStoring, Storing, Places
  <2>2. PICK copies :
           /\ copies = Stores("storeLive", want[r], mem)
           /\ StoreCopies(r, copies, "idle")
    BY <1>12 DEF StoreLive, Stores
  <2>3. QED
    BY <2>1, <2>2, StoreAgrees
<1>13. CASE StoreCancel(r)
  <2>1. "idle" \in Places \ Storing /\ IsStoring(r) /\ pc[r] = "storeCancel"
    BY <1>13 DEF StoreCancel, IsStoring, Storing, Places
  <2>2. PICK copies :
           /\ copies = Stores("storeCancel", want[r], mem)
           /\ StoreCopies(r, copies, "idle")
    BY <1>13 DEF StoreCancel, Stores
  <2>3. QED
    BY <2>1, <2>2, StoreAgrees
<1>14. QED
  BY <1>1, <1>2, <1>3, <1>4, <1>5, <1>6, <1>7, <1>8, <1>9, <1>10, <1>11, <1>12, <1>13
     DEF SettingsStep

LEMMA LoopAgrees ==
  ASSUME RowsOK, DataOK, Connection, Agreement, OneWriter', Connection',
         NEW l \in Loops, LoopStep(l)
  PROVE  Agreement'
<1>1. CASE LoopTop(l) \/ Tick(l) \/ LookupFinds(l) \/ TickEnds(l)
           \/ CertificateObtained(l) \/ CertificateRefused(l)
  <2>1. /\ UNCHANGED <<db, mem, rw, crossed, pc, want>>
        /\ \A k \in Loops : loop'[k] \in {"confirming", "recording"} => loop'[k] = loop[k]
    BY <1>1
       DEF LoopTop, Tick, LookupFinds, TickEnds, CertificateObtained, CertificateRefused, Go,
           DataOK, requests, history
  <2>2. QED
    BY <2>1, PauseAgrees DEF IsStoring
\* A transaction begins where nobody is between commit and Store.
<1>2. ASSUME Open(l), ~crossed'
      PROVE  /\ mem = db /\ ~crossed
             /\ \A k \in Loops : loop[k] \notin {"confirming", "recording"}
             /\ \A q \in Requests : ~IsStoring(q)
  BY <1>2 DEF Open, Agreement, MemoryFollowsDatabase, Quiet, IsStoring, Connection
<1>3. CASE BeginConfirm(l)
  <2> SUFFICES ASSUME ~crossed'
               PROVE  StoresAgree' /\ LoopsAgree' /\ MemoryFollowsDatabase'
    BY DEF Agreement, StoresAgree, LoopsAgree, MemoryFollowsDatabase
  <2>1. mem' = [db EXCEPT !.domain = db.pending] /\ db' = db
    BY <1>2, <1>3 DEF BeginConfirm
  <2>2. \A k \in Loops : loop'[k] # "recording"
    BY <1>2, <1>3 DEF BeginConfirm, Go, DataOK
  <2>3. rw' # {} /\ UNCHANGED pc
    BY <1>3 DEF BeginConfirm, Open, requests
  <2>4. QED
    BY <1>2, <1>3, <2>1, <2>2, <2>3
       DEF BeginConfirm, StoresAgree, LoopsAgree, MemoryFollowsDatabase, Quiet, IsStoring
<1>4. CASE BeginRecord(l)
  <2> SUFFICES ASSUME ~crossed'
               PROVE  StoresAgree' /\ LoopsAgree' /\ MemoryFollowsDatabase'
    BY DEF Agreement, StoresAgree, LoopsAgree, MemoryFollowsDatabase
  <2>1. mem' = [db EXCEPT !.problem = TRUE] /\ db' = db
    BY <1>2, <1>4 DEF BeginRecord
  <2>2. \A k \in Loops : loop'[k] # "confirming"
    BY <1>2, <1>4 DEF BeginRecord, Go, DataOK
  <2>3. rw' # {} /\ UNCHANGED pc
    BY <1>4 DEF BeginRecord, Open, requests
  <2>4. QED
    BY <1>2, <1>4, <2>1, <2>2, <2>3
       DEF BeginRecord, StoresAgree, LoopsAgree, MemoryFollowsDatabase, Quiet, IsStoring
\* It ends with memory and database equal, if the commit does not fail.
<1>5. ASSUME UNCHANGED pc, rw' = {}, l \in rw,
             \A k \in Loops : loop'[k] \in {"confirming", "recording"}
                               => loop'[k] = loop[k] /\ k # l,
             ~crossed' => mem' = db' /\ ~crossed
      PROVE  Agreement'
  <2> SUFFICES ASSUME ~crossed'
               PROVE  StoresAgree' /\ LoopsAgree' /\ MemoryFollowsDatabase'
    BY DEF Agreement, StoresAgree, LoopsAgree, MemoryFollowsDatabase
  <2>1. \A q \in Requests : ~IsStoring(q)'
    BY <1>5 DEF Agreement, OneWriter, IsStoring
  <2>2. \A k \in Loops : loop'[k] \notin {"confirming", "recording"}
    BY <1>5 DEF Connection
  <2>3. QED
    BY <1>5, <2>1, <2>2 DEF StoresAgree, LoopsAgree, MemoryFollowsDatabase
<1>6. ASSUME NEW committed \in BOOLEAN, Confirm(l, committed)
      PROVE  Agreement'
  <2>1. /\ UNCHANGED pc /\ rw' = {} /\ l \in rw
        /\ \A k \in Loops : loop'[k] \in {"confirming", "recording"}
                             => loop'[k] = loop[k] /\ k # l
    BY <1>6 DEF Confirm, Go, DataOK, Connection, requests
  <2>2. ASSUME ~crossed'
        PROVE  mem' = db' /\ ~crossed
    <3>1. ~crossed /\ committed
      BY <1>6, <2>2 DEF Confirm
    <3>2. mem = [db EXCEPT !.domain = db.pending]
      BY <1>6, <3>1 DEF Confirm, Go, Agreement, LoopsAgree
    <3>3. /\ mem' = [mem EXCEPT !.pending = "none", !.problem = FALSE]
          /\ db' = [db EXCEPT !.domain = mem.pending, !.pending = "none", !.problem = FALSE]
      BY <1>6, <3>1 DEF Confirm
    <3>4. QED
      BY <3>1, <3>2, <3>3 DEF RowsOK, Meta
  <2>3. QED
    BY <1>5, <2>1, <2>2
<1>7. ASSUME NEW committed \in BOOLEAN, Record(l, committed)
      PROVE  Agreement'
  <2>1. /\ UNCHANGED pc /\ rw' = {} /\ l \in rw
        /\ \A k \in Loops : loop'[k] \in {"confirming", "recording"}
                             => loop'[k] = loop[k] /\ k # l
    BY <1>7 DEF Record, Go, DataOK, Connection, requests
  <2>2. ASSUME ~crossed'
        PROVE  mem' = db' /\ ~crossed
    <3>1. ~crossed /\ committed
      BY <1>7, <2>2 DEF Record
    <3>2. mem = [db EXCEPT !.problem = TRUE]
      BY <1>7, <3>1 DEF Record, Go, Agreement, LoopsAgree
    <3>3. mem' = mem /\ db' = [db EXCEPT !.problem = mem.problem]
      BY <1>7, <3>1 DEF Record
    <3>4. QED
      BY <3>1, <3>2, <3>3 DEF RowsOK, Meta
  <2>3. QED
    BY <1>5, <2>1, <2>2
<1>8. CASE ConfirmFails(l)
  <2>1. /\ UNCHANGED pc /\ rw' = {} /\ l \in rw
        /\ \A k \in Loops : loop'[k] \in {"confirming", "recording"}
                             => loop'[k] = loop[k] /\ k # l
    BY <1>8 DEF ConfirmFails, Go, DataOK, Connection, requests
  <2>2. crossed'
    BY <1>8 DEF ConfirmFails
  <2>3. QED
    BY <1>5, <2>1, <2>2
<1>9. QED
  BY <1>1, <1>3, <1>4, <1>6, <1>7, <1>8 DEF LoopStep

LEMMA AgreementStep ==
  ASSUME RowsOK, DataOK, Connection, Agreement, OneWriter', Connection', [Next]_vars
  PROVE  Agreement'
<1>1. CASE Restart
  BY <1>1
     DEF Restart, Agreement, StoresAgree, LoopsAgree, MemoryFollowsDatabase, IsStoring, Storing
<1>2. CASE UNCHANGED vars
  BY <1>2, PauseAgrees DEF vars, loops, requests, history, IsStoring
<1>3. QED
  BY <1>1, <1>2, WizardAgrees, SettingsAgrees, LoopAgrees DEF Next

-----------------------------------------------------------------------------
(* A live domain was proved *)

LEMMA ProvedRequestsStep ==
  ASSUME DataOK, ProvedRequests, [Next]_vars
  PROVE  ProvedRequests'
<1> USE DEF DataOK, ProvedRequests, Storing, Places,
        requests, loops, history, Step, Commit, StoreCopies, Go, Open
<1>1. ASSUME NEW r \in Requests, Wizard(r)
      PROVE  ProvedRequests'
  BY <1>1
     DEF Wizard, Gate, Forms, ProveSetupDomain, PostSetupDomain, StoreSetupDomain,
         PostSetupDomainSkip, StoreSetupDomainSkip, PostSetupAccount, StoreSetupAccount,
         PostSetupName, StoreSetupName
<1>2. ASSUME NEW r \in Requests, SettingsStep(r) \/ ReturnEarly(r)
      PROVE  ProvedRequests'
  BY <1>2
     DEF SettingsStep, ReturnEarly, Settings, SetPlainDomain, StorePlainDomain,
         NoDomainYet, RecordPending, StorePending, KeepPending,
         ProveDomain, ProveDomainFails,
         RecordProblem, StoreProblem, GoLive, StoreLive, CancelDomain, StoreCancel
<1>3. ASSUME NEW l \in Loops, LoopStep(l)
      PROVE  ProvedRequests'
  BY <1>3
     DEF LoopStep, LoopTop, Tick, LookupFinds, TickEnds, CertificateObtained,
         CertificateRefused, BeginConfirm, ConfirmFails, BeginRecord, Confirm, Record
<1>4. CASE Restart
  BY <1>4 DEF Restart
<1>5. CASE UNCHANGED vars
  BY <1>5 DEF vars
<1>6. QED
  BY <1>1, <1>2, <1>3, <1>4, <1>5 DEF Next

LEMMA ProvedLoopsStep ==
  ASSUME RowsOK, DataOK, ProvedLoops, [Next]_vars
  PROVE  ProvedLoops'
<1> USE DEF RowsOK, DataOK, Meta, Names, ProvedLoops, Ticking,
        requests, loops, history, Step, Commit, StoreCopies, Go, Open
<1>1. ASSUME NEW r \in Requests, Wizard(r)
      PROVE  ProvedLoops'
  <2>1. ASSUME NEW f \in Forms, NEW d \in Domains, Gate(r, f, d)
        PROVE  ProvedLoops'
    BY <2>1 DEF Gate, Forms
  <2>2. CASE ProveSetupDomain(r)
    BY <2>2 DEF ProveSetupDomain
  <2>3. CASE PostSetupDomain(r)
    BY <2>3 DEF PostSetupDomain
  <2>4. CASE StoreSetupDomain(r)
    BY <2>4 DEF StoreSetupDomain
  <2>5. CASE PostSetupDomainSkip(r)
    BY <2>5 DEF PostSetupDomainSkip
  <2>6. CASE StoreSetupDomainSkip(r)
    BY <2>6 DEF StoreSetupDomainSkip
  <2>7. CASE PostSetupAccount(r)
    BY <2>7 DEF PostSetupAccount
  <2>8. CASE StoreSetupAccount(r)
    BY <2>8 DEF StoreSetupAccount
  <2>9. CASE PostSetupName(r)
    BY <2>9 DEF PostSetupName
  <2>10. CASE StoreSetupName(r)
    BY <2>10 DEF StoreSetupName
  <2>11. QED
    BY <1>1, <2>1, <2>2, <2>3, <2>4, <2>5, <2>6, <2>7, <2>8, <2>9, <2>10
       DEF Wizard
<1>2. ASSUME NEW r \in Requests, SettingsStep(r) \/ ReturnEarly(r)
      PROVE  ProvedLoops'
  BY <1>2
     DEF SettingsStep, ReturnEarly, Settings, SetPlainDomain, StorePlainDomain,
         NoDomainYet, RecordPending, StorePending, KeepPending,
         ProveDomain, ProveDomainFails,
         RecordProblem, StoreProblem, GoLive, StoreLive, CancelDomain, StoreCancel
<1>3. ASSUME NEW l \in Loops, LoopStep(l)
      PROVE  ProvedLoops'
  BY <1>3
     DEF LoopStep, LoopTop, Tick, LookupFinds, TickEnds, CertificateObtained,
         CertificateRefused, BeginConfirm, ConfirmFails, BeginRecord, Confirm, Record
<1>4. CASE Restart
  BY <1>4 DEF Restart
<1>5. CASE UNCHANGED vars
  BY <1>5 DEF vars
<1>6. QED
  BY <1>1, <1>2, <1>3, <1>4, <1>5 DEF Next

\* A handler's commit: the domain stays, or becomes a proved one, or there is
\* no TLS.
LEMMA LiveCommit ==
  ASSUME LiveDomainWasProved, proved \subseteq proved',
         NEW r \in Requests, NEW rows, NEW next, Commit(r, rows, next),
         rows.domain = db.domain \/ rows.domain \in proved \/ ~ssl
  PROVE  LiveDomainWasProved'
BY DEF LiveDomainWasProved, Commit

LEMMA LiveStep ==
  ASSUME RowsOK, DataOK, Proving, [Next]_vars
  PROVE  LiveDomainWasProved'
<1> USE DEF Proving
<1>1. CASE UNCHANGED <<ssl, db, slipped>> /\ proved \subseteq proved'
  BY <1>1 DEF LiveDomainWasProved
<1>2. ASSUME NEW r \in Requests, Wizard(r)
      PROVE  LiveDomainWasProved'
  <2>1. CASE PostSetupDomain(r)
    <3>1. PICK rows : rows.domain = want[r] /\ Commit(r, rows, "storeSetDomain")
      BY <2>1 DEF PostSetupDomain, RowsOK, Meta
    <3>2. want[r] \in proved \/ ~ssl
      BY <2>1 DEF PostSetupDomain, ProvedRequests
    <3>3. QED
      BY <3>1, <3>2, LiveCommit DEF Commit
  <2>2. CASE PostSetupDomainSkip(r) \/ PostSetupAccount(r) \/ PostSetupName(r)
    <3>1. PICK rows, next : rows.domain = db.domain /\ Commit(r, rows, next)
      BY <2>2 DEF PostSetupDomainSkip, PostSetupAccount, PostSetupName, RowsOK, Meta
    <3>2. QED
      BY <3>1, LiveCommit DEF Commit
  <2>3. QED
    BY <1>1, <1>2, <2>1, <2>2
       DEF Wizard, Gate, ProveSetupDomain, Step, StoreSetupDomain, StoreSetupDomainSkip,
           StoreSetupAccount, StoreSetupName, StoreCopies, history
<1>3. ASSUME NEW r \in Requests, SettingsStep(r) \/ ReturnEarly(r)
      PROVE  LiveDomainWasProved'
  <2>1. CASE SetPlainDomain(r)
    <3>1. PICK rows : ~ssl /\ Commit(r, rows, "storePlain")
      BY <2>1 DEF SetPlainDomain
    <3>2. QED
      BY <3>1, LiveCommit DEF Commit
  <2>2. CASE RecordPending(r) \/ RecordProblem(r) \/ CancelDomain(r)
    <3>1. PICK rows, next : rows.domain = db.domain /\ Commit(r, rows, next)
      BY <2>2 DEF RecordPending, RecordProblem, CancelDomain, RowsOK, Meta
    <3>2. QED
      BY <3>1, LiveCommit DEF Commit
  <2>3. CASE GoLive(r)
    <3>1. PICK rows : rows.domain = want[r] /\ Commit(r, rows, "storeLive")
      BY <2>3 DEF GoLive, RowsOK, Meta
    <3>2. want[r] \in proved
      BY <2>3 DEF GoLive, ProvedRequests
    <3>3. QED
      BY <3>1, <3>2, LiveCommit DEF Commit
  <2>4. QED
    BY <1>1, <1>3, <2>1, <2>2, <2>3
       DEF SettingsStep, ReturnEarly, Settings, StorePlainDomain, StorePending, NoDomainYet,
           KeepPending, ProveDomain, ProveDomainFails, Step, StoreProblem, StoreLive, StoreCancel,
           StoreCopies, history
<1>4. ASSUME NEW l \in Loops, LoopStep(l)
      PROVE  LiveDomainWasProved'
  <2>1. ASSUME NEW committed \in BOOLEAN, Confirm(l, committed)
        PROVE  LiveDomainWasProved'
    <3>1. CASE ~committed
      BY <2>1, <3>1, <1>1 DEF Confirm
    <3>2. CASE committed
      <4>1. db'.domain = mem.pending /\ slipped' = (l \in changed) /\ proved' = proved
        BY <2>1, <3>2 DEF Confirm, RowsOK, Meta
      <4>2. l \notin changed => mem.pending \in proved \cup {"none"}
        BY <2>1 DEF Confirm, Go, ProvedLoops
      <4>3. QED
        BY <4>1, <4>2 DEF LiveDomainWasProved
    <3>3. QED
      BY <3>1, <3>2
  <2>2. ASSUME NEW committed \in BOOLEAN, Record(l, committed)
        PROVE  LiveDomainWasProved'
    <3>1. db'.domain = db.domain /\ UNCHANGED <<ssl, slipped, proved>>
      BY <2>2 DEF Record, RowsOK, Meta
    <3>2. QED
      BY <3>1 DEF LiveDomainWasProved
  <2>3. QED
    BY <1>1, <1>4, <2>1, <2>2
       DEF LoopStep, LoopTop, Tick, LookupFinds, TickEnds, CertificateObtained,
           CertificateRefused, BeginConfirm, ConfirmFails, BeginRecord, history
<1>5. CASE Restart \/ UNCHANGED vars
  BY <1>1, <1>5 DEF Restart, vars, history
<1>6. QED
  BY <1>2, <1>3, <1>4, <1>5 DEF Next

-----------------------------------------------------------------------------
(* Theorems *)

LEMMA InitIInv == Init => IInv
<1> SUFFICES ASSUME Init PROVE IInv
  OBVIOUS
<1>1. FlagsOK
  BY Zenon DEF Init, FlagsOK
<1>2. RowsOK /\ DataOK
  BY BoundsAssumption DEF Init, Fresh, RowsOK, DataOK, Meta, Stages, Names, Places
<1>3. Connection /\ Wanted /\ AccountFirst
  BY DEF Init, Fresh, Connection, Wanted, AccountFirst, NobodyLockedOut
<1>4. Agreement
  BY DEF Init, Agreement, OneWriter, StoresAgree, LoopsAgree, MemoryFollowsDatabase,
         IsStoring, Storing
<1>5. Proving
  BY DEF Init, Fresh, Proving, ProvedRequests, ProvedLoops, LiveDomainWasProved
<1>6. QED
  BY <1>1, <1>2, <1>3, <1>4, <1>5 DEF IInv

\* The strengthening behind the theorems below: types, the one holder of the
\* write connection, which requests come after an account, what the Stores
\* under way make of the copies, and who holds a proved domain.
THEOREM Inductive == Spec => []IInv
<1>1. ASSUME IInv, [Next]_vars
      PROVE  IInv'
  <2> USE DEF IInv
  <2>1. FlagsOK' /\ RowsOK' /\ DataOK' /\ Wanted' /\ Connection' /\ AccountFirst'
    BY <1>1, FlagsStep, RowsStep, DataStep, ConnectionStep, AccountStep
  <2>2. OneWriter'
    BY <1>1, OneWriterStep DEF Agreement
  <2>3. Agreement'
    BY <1>1, <2>1, <2>2, AgreementStep
  <2>4. Proving'
    BY <1>1, ProvedRequestsStep, ProvedLoopsStep, LiveStep DEF Proving
  <2>5. QED
    BY <2>1, <2>3, <2>4
<1>2. QED
  BY InitIInv, <1>1, PTL DEF Spec

\* Every variable keeps its type, and one loop at most holds the write
\* connection across its Stores, exactly inside its transactions.
THEOREM TypeCorrect == Spec => []TypeOK
<1>1. IInv => TypeOK
  <2> SUFFICES ASSUME IInv PROVE Cardinality(rw) <= 1
    BY DEF IInv, TypeOK, ConnectionOK, Connection
  <2>1. CASE rw = {}
    BY <2>1, FS_EmptySet
  <2>2. ASSUME NEW l \in rw
        PROVE  Cardinality(rw) <= 1
    <3>1. rw = {l}
      BY DEF IInv, Connection
    <3>2. QED
      BY <3>1, FS_Singleton
  <2>3. QED
    BY <2>1, <2>2
<1>2. QED
  BY <1>1, Inductive, PTL

\* However many browsers run the wizard at once, neither the database nor
\* memory reaches its last step, or opens the site, before postSetupAccount
\* has committed an account.
THEOREM AccountBeforeSite == Spec => []NobodyLockedOut
<1>1. IInv => NobodyLockedOut
  BY DEF IInv, AccountFirst
<1>2. QED
  BY <1>1, Inductive, PTL

\* The copies of the meta rows in memory agree with the database whenever no
\* writer is between its commit and its Stores, unless two writers overtook
\* each other there or the loop's commit failed after it had stored.
THEOREM MemoryAgrees == Spec => []MemoryFollowsDatabase
<1>1. IInv => MemoryFollowsDatabase
  BY DEF IInv, Agreement
<1>2. QED
  BY <1>1, Inductive, PTL

\* With TLS the live domain was looked up and certified, whichever of the
\* wizard, the settings and the loop made it live, unless the pending domain
\* was replaced during the tick of the loop that did.
THEOREM LiveWasProved == Spec => []LiveDomainWasProved
<1>1. IInv => LiveDomainWasProved
  BY DEF IInv, Proving
<1>2. QED
  BY <1>1, Inductive, PTL

===============================================================================
