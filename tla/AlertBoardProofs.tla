--------------------------- MODULE AlertBoardProofs ---------------------------
(***************************************************************************)
(* Proofs about AlertBoard, for any sets of alerts and services.           *)
(*                                                                         *)
(* The severity is recomputed from the whole table, so a step that         *)
(* recomputes it establishes NeverUnderstated and StaleOnlyAfterDelete by  *)
(* itself; a step that does not leaves the ongoing alerts as they were, or *)
(* removes one.  The type invariant is needed to know that the row of an   *)
(* existing alert has a severity.                                          *)
(*                                                                         *)
(* The loops over the ongoing alerts are recursive functions.  What each   *)
(* has computed after some rows is also said without recursion (Found,     *)
(* Worst); that satisfies the equation of the function, so such a function *)
(* exists, and by induction on the rows any function that satisfies it is  *)
(* the same.                                                               *)
(***************************************************************************)
EXTENDS AlertBoard, FiniteSetTheorems, WellFoundedInduction, TLAPS

IInv == TypeOK /\ NeverUnderstated /\ StaleOnlyAfterDelete /\ NoDanglingService

-----------------------------------------------------------------------------
(* Rows and the recomputed severity *)

\* A row of an alert is not the missing row.
LEMMA RowExists == \A r \in Rows : r # NoAlert
BY DEF Rows, NoAlert

\* Updating a field of a row gives a row.
LEMMA RowUpdate ==
  /\ \A r \in Rows, sev \in Severities : [r EXCEPT !.severity = sev] \in Rows
  /\ \A r \in Rows, b \in BOOLEAN : [r EXCEPT !.ongoing = b] \in Rows
BY DEF Rows

\* The recomputed severity is a severity of the banner.
LEMMA RecomputedTypes == \A t : Recomputed(t) \in {"red", "amber", "blue"}
BY DEF Recomputed

\* A recomputed severity understates no ongoing alert.
LEMMA RecomputedIsWorst ==
  ASSUME severity = Recomputed(alert)
  PROVE  NeverUnderstated
<1>1. SUFFICES ASSUME NEW a \in Ongoing
               PROVE  /\ alert[a].severity = "red" => severity = "red"
                      /\ alert[a].severity = "amber" => severity \in {"amber", "red"}
  BY DEF NeverUnderstated
<1>2. alert[a].severity \in
        {alert[b].severity : b \in {c \in Alerts : alert[c] # NoAlert /\ alert[c].ongoing}}
  BY DEF Ongoing, Exists
<1>3. QED
  BY <1>2 DEF Recomputed

\* The same of the next state.
LEMMA RecomputedIsWorstNext ==
  ASSUME UpdateSeverity
  PROVE  NeverUnderstated' /\ StaleOnlyAfterDelete' /\ severity' \in {"red", "amber", "blue"} /\ deleted' \in BOOLEAN
<1>1. severity' = Recomputed(alert')
  BY DEF UpdateSeverity
<1>2. SUFFICES ASSUME NEW a \in Ongoing'
               PROVE  /\ alert'[a].severity = "red" => severity' = "red"
                      /\ alert'[a].severity = "amber" => severity' \in {"amber", "red"}
  BY <1>1, RecomputedTypes
     DEF NeverUnderstated, StaleOnlyAfterDelete, UpdateSeverity, Recomputed
<1>3. alert'[a].severity \in
        {alert'[b].severity : b \in {c \in Alerts : alert'[c] # NoAlert /\ alert'[c].ongoing}}
  BY DEF Ongoing, Exists
<1>4. QED
  BY <1>1, <1>3 DEF Recomputed

-----------------------------------------------------------------------------
(* The steps *)

LEMMA InitIInv == Init => IInv
<1> SUFFICES ASSUME Init PROVE IInv
  OBVIOUS
<1>1. PICK seed \in Alerts, s \in Services :
        /\ alert = [b \in Alerts |-> IF b = seed THEN [severity |-> "", ongoing |-> TRUE]
                                     ELSE NoAlert]
        /\ affects = {<<seed, s>>} /\ services = {s}
  BY DEF Init
<1>2. severity = "blue" /\ deleted = FALSE
  BY DEF Init
<1>3. TypeOK
  <2>1. affects \subseteq Alerts \X Services
    <3>1. <<seed, s>> \in Alerts \X Services
      OBVIOUS
    <3>2. QED
      BY <1>1, <3>1, Zenon
  <2>2. [severity |-> "", ongoing |-> TRUE] \in Rows
    BY DEF Rows, Severities
  <2>3. alert \in [Alerts -> Rows \cup {NoAlert}]
    BY <1>1, <2>2, Zenon
  <2>4. QED
    BY <1>1, <1>2, <2>1, <2>3 DEF TypeOK
<1>4. /\ alert[seed] = [severity |-> "", ongoing |-> TRUE]
      /\ Exists(seed)
  BY <1>1 DEF Exists, NoAlert
<1>5. NoDanglingService
  <2>1. affects = {<<seed, s>>} /\ services = {s}
    BY <1>1
  <2>2. \A p \in affects : p[1] = seed /\ p[2] = s
    BY <2>1
  <2>3. QED
    BY <1>4, <2>1, <2>2 DEF NoDanglingService
<1>6. \A a \in Alerts : alert[a] # NoAlert => alert[a].severity = ""
  BY <1>1
<1>7. Recomputed(alert) = "blue"
  BY <1>6 DEF Recomputed
<1>8. NeverUnderstated
  BY <1>6 DEF NeverUnderstated, Ongoing, Exists
<1>9. QED
  BY <1>2, <1>3, <1>5, <1>7, <1>8 DEF IInv, StaleOnlyAfterDelete

\* A step that leaves the alerts alone, and the severity.
LEMMA SameAlerts ==
  ASSUME IInv, UNCHANGED <<alert, severity, deleted>>
  PROVE  NeverUnderstated' /\ StaleOnlyAfterDelete'
BY DEF IInv, NeverUnderstated, StaleOnlyAfterDelete, Ongoing, Exists, Recomputed

LEMMA InvStep == IInv /\ [Next]_vars => IInv'
<1> SUFFICES ASSUME IInv, [Next]_vars PROVE IInv'
  OBVIOUS
<1>1. ASSUME NEW a \in Alerts, NEW form \in Submitted, NEW ss \in SUBSET Services,
             CreateAlert(a, form, ss)
      PROVE  IInv'
  <2>1. form.severity \in Severities
    BY DEF Submitted, Severities
  <2>2. [severity |-> form.severity, ongoing |-> TRUE] \in Rows
    BY <2>1 DEF Rows
  <2>3. TypeOK'
    BY <1>1, <2>2, RecomputedIsWorstNext DEF IInv, TypeOK, CreateAlert
  <2>4. NoDanglingService'
    <3>1. alert' = [alert EXCEPT ![a] = [severity |-> form.severity, ongoing |-> TRUE]]
      BY <1>1 DEF CreateAlert
    <3>2. \A b \in Alerts : b = a \/ Exists(b) => alert'[b] # NoAlert
      BY <2>2, <3>1, RowExists DEF IInv, TypeOK, Exists
    <3>3. \A p \in affects' : p[2] \in services' /\ p[1] \in Alerts /\ (p[1] = a \/ Exists(p[1]))
      BY <1>1 DEF CreateAlert, IInv, TypeOK, NoDanglingService
    <3>4. QED
      BY <3>2, <3>3 DEF NoDanglingService, Exists
  <2>5. QED
    BY <1>1, <2>3, <2>4, RecomputedIsWorstNext DEF IInv, CreateAlert
<1>2. ASSUME NEW a \in Alerts, NEW form \in Submitted, NEW ss \in SUBSET Services,
             EditAlert(a, form, ss)
      PROVE  IInv'
  <2>1. form.severity \in Severities
    BY DEF Submitted, Severities
  <2>2. alert[a] \in Rows
    BY <1>2 DEF EditAlert, IInv, TypeOK, Exists
  <2>3. alert'[a] \in Rows /\ alert' = [alert EXCEPT ![a] = alert'[a]]
    <3>1. alert' = [alert EXCEPT ![a] = [alert[a] EXCEPT !.severity = form.severity]]
      BY <1>2, Zenon DEF EditAlert
    <3>2. [alert[a] EXCEPT !.severity = form.severity] \in Rows
      BY <2>1, <2>2, RowUpdate
    <3>3. QED
      BY <3>1, <3>2 DEF IInv, TypeOK
  <2>4. TypeOK'
    BY <1>2, <2>3, RecomputedIsWorstNext DEF IInv, TypeOK, EditAlert
  <2>5. NoDanglingService'
    BY <1>2, <2>3, RowExists DEF IInv, TypeOK, NoDanglingService, Exists, EditAlert
  <2>6. QED
    BY <1>2, <2>4, <2>5, RecomputedIsWorstNext DEF IInv, EditAlert
<1>3. ASSUME NEW a \in Alerts, ResolveAlert(a) \/ UnresolveAlert(a)
      PROVE  IInv'
  <2>1. UpdateSeverity /\ UNCHANGED <<affects, services>>
    BY <1>3 DEF ResolveAlert, UnresolveAlert
  <2>2. CASE Exists(a)
    <3>1. alert[a] \in Rows
      BY <2>2 DEF IInv, TypeOK, Exists
    <3>2. alert'[a] \in Rows /\ alert' = [alert EXCEPT ![a] = alert'[a]]
      <4>1. PICK b \in BOOLEAN : alert' = [alert EXCEPT ![a] = [alert[a] EXCEPT !.ongoing = b]]
        <5>1. CASE ResolveAlert(a)
          BY <2>2, <5>1, Zenon DEF ResolveAlert
        <5>2. CASE UnresolveAlert(a)
          BY <2>2, <5>2, Zenon DEF UnresolveAlert
        <5>3. QED
          BY <1>3, <5>1, <5>2
      <4>2. [alert[a] EXCEPT !.ongoing = b] \in Rows
        BY <3>1, RowUpdate
      <4>3. QED
        BY <4>1, <4>2 DEF IInv, TypeOK
    <3>3. TypeOK'
      BY <2>1, <3>2, RecomputedIsWorstNext DEF IInv, TypeOK
    <3>4. NoDanglingService'
      BY <2>1, <3>2, RowExists DEF IInv, TypeOK, NoDanglingService, Exists
    <3>5. QED
      BY <2>1, <3>3, <3>4, RecomputedIsWorstNext DEF IInv
  <2>3. CASE ~Exists(a)
    <3>1. alert' = alert
      BY <1>3, <2>3 DEF ResolveAlert, UnresolveAlert
    <3>2. TypeOK'
      BY <2>1, <3>1, RecomputedIsWorstNext DEF IInv, TypeOK
    <3>3. NoDanglingService'
      BY <2>1, <3>1 DEF IInv, NoDanglingService, Exists
    <3>4. QED
      BY <2>1, <3>2, <3>3, RecomputedIsWorstNext DEF IInv
  <2>4. QED
    BY <2>2, <2>3
<1>4. ASSUME NEW a \in Alerts, DeleteAlert(a)
      PROVE  IInv'
  <2>1. TypeOK'
    BY <1>4 DEF IInv, TypeOK, DeleteAlert
  <2>2. NoDanglingService'
    BY <1>4 DEF IInv, TypeOK, NoDanglingService, Exists, DeleteAlert
  <2>3. \A b \in Ongoing' : b \in Ongoing /\ alert'[b] = alert[b]
    BY <1>4 DEF IInv, TypeOK, Ongoing, Exists, DeleteAlert
  <2>4. NeverUnderstated'
    BY <1>4, <2>3 DEF IInv, NeverUnderstated, DeleteAlert
  <2>5. StaleOnlyAfterDelete'
    <3>1. CASE Exists(a)
      BY <1>4, <3>1 DEF StaleOnlyAfterDelete, DeleteAlert
    <3>2. CASE ~Exists(a)
      <4>1. UNCHANGED <<alert, severity>> /\ deleted' = deleted
        BY <1>4, <3>2 DEF DeleteAlert, Exists, IInv, TypeOK
      <4>2. QED
        BY <4>1, SameAlerts
    <3>3. QED
      BY <3>1, <3>2
  <2>6. QED
    BY <2>1, <2>2, <2>4, <2>5 DEF IInv
<1>5. ASSUME NEW s \in Services, CreateService(s) \/ DeleteService(s)
      PROVE  IInv'
  <2>1. TypeOK' /\ NoDanglingService'
    BY <1>5 DEF IInv, TypeOK, NoDanglingService, Exists, CreateService, DeleteService
  <2>2. QED
    BY <1>5, <2>1, SameAlerts DEF IInv, CreateService, DeleteService
<1>6. CASE UNCHANGED vars
  <2>1. TypeOK' /\ NoDanglingService'
    BY <1>6 DEF vars, IInv, TypeOK, NoDanglingService, Exists
  <2>2. QED
    BY <1>6, <2>1, SameAlerts DEF IInv, vars
<1>7. QED
  BY <1>1, <1>2, <1>3, <1>4, <1>5, <1>6 DEF Next

-----------------------------------------------------------------------------
(* The theorems *)

\* IInv is an inductive invariant of the alert handlers.
THEOREM Inductive == Spec => []IInv
  BY InitIInv, InvStep, PTL DEF Spec

\* The tables keep their types.
THEOREM TypeCorrect == Spec => []TypeOK
<1>1. IInv => TypeOK
  BY DEF IInv
<1>2. QED
  BY <1>1, Inductive, PTL

\* The stored severity never understates an ongoing alert.
THEOREM BannerNeverUnderstates == Spec => []NeverUnderstated
<1>1. IInv => NeverUnderstated
  BY DEF IInv
<1>2. QED
  BY <1>1, Inductive, PTL

\* It is that of the worst ongoing alert, until an alert is deleted.
THEOREM BannerIsExactUntilDelete == Spec => []StaleOnlyAfterDelete
<1>1. IInv => StaleOnlyAfterDelete
  BY DEF IInv
<1>2. QED
  BY <1>1, Inductive, PTL

\* alert_service names existing alerts and services only.
THEOREM ReferencesExist == Spec => []NoDanglingService
<1>1. IInv => NoDanglingService
  BY DEF IInv
<1>2. QED
  BY <1>1, Inductive, PTL

-----------------------------------------------------------------------------
(* Induction, for sets of numbers *)

\* A set of numbers that holds 0, and n + 1 with every n, holds them all: the
\* least number it does not hold would be neither.
LEMMA SetInduction ==
  ASSUME NEW T, 0 \in T, \A n \in Nat : n \in T => n + 1 \in T
  PROVE  Nat \subseteq T
<1> DEFINE others == Nat \ T
<1>1. SUFFICES ASSUME others # {} PROVE FALSE
  OBVIOUS
<1>2. PICK n \in others : \A m \in others : ~ (<<m, n>> \in OpToRel(<, Nat))
  BY <1>1, NatLessThanWellFounded, WFMin
<1>3. \A m \in others : ~(m < n)
  BY <1>2 DEF OpToRel
<1>4. n # 0 /\ n - 1 \in Nat /\ n - 1 \notin others
  BY <1>3
<1>5. QED
  BY <1>4

-----------------------------------------------------------------------------
(* The loop of the index page *)

Count == Cardinality(Ongoing)

\* As many different alerts as there are ongoing ones are all of them.
LEMMA EveryAlertListed ==
  ASSUME IsFiniteSet(Ongoing), NEW q \in [1..Count -> Ongoing],
         \A i, j \in 1..Count : i < j => q[i] # q[j]
  PROVE  \A a \in Ongoing : \E i \in 1..Count : q[i] = a
<1>1. Count \in Nat
  BY FS_CardinalityType DEF Count
<1>2. IsFiniteSet(1..Count) /\ Cardinality(1..Count) = Count
  <2>1. ~(1 > Count) => Count - 1 + 1 = Count
    BY <1>1
  <2>2. 1 > Count => Count = 0
    BY <1>1
  <2>3. QED
    BY <1>1, <2>1, <2>2, FS_Interval
<1>3. q \in Injection(1..Count, Ongoing)
  <2>1. \A i, j \in 1..Count : q[i] = q[j] => i = j
    BY <1>1
  <2>2. QED
    BY <2>1 DEF Injection, IsInjective
<1>4. q \in Surjection(1..Count, Ongoing)
  BY <1>2, <1>3, FS_Injection DEF Count
<1>5. QED
  BY <1>4 DEF Surjection

\* Whether the k-th alert of q affects service s.
Hits(q, s, k) == <<q[k], s>> \in affects

\* A row of the loop for service s, after the alerts before it left status.
PageRow(q, s, k, status) ==
  IF Hits(q, s, k) /\ status # "red" THEN alert[q[k]].severity ELSE status

\* What the loop finds in the first k alerts, when no red one comes after
\* another, and no amber one after one without severity.
Found(q, s, k) ==
  LET hit == {i \in 1..k : Hits(q, s, i)}
  IN  IF \E i \in hit : alert[q[i]].severity = "red" THEN "red"
      ELSE IF hit # {} /\ \A i \in hit : alert[q[i]].severity = "amber" THEN "amber"
      ELSE ""

\* What the rank says of two severities.
LEMMA RankOrder ==
  \A x, y \in {"red", "amber", ""} :
    Rank(x) <= Rank(y) => (y = "red" => x = "red") /\ (y = "amber" => x # "")
<1>1. ~(2 <= 1) /\ ~(3 <= 1) /\ ~(3 <= 2)
  OBVIOUS
<1>2. Rank("red") = 1 /\ Rank("amber") = 2 /\ Rank("") = 3
  BY DEF Rank
<1>3. /\ ~(Rank("amber") <= Rank("red"))
      /\ ~(Rank("") <= Rank("red"))
      /\ ~(Rank("") <= Rank("amber"))
  BY <1>1, <1>2, Zenon
<1>4. QED
  BY <1>3, Zenon

\* One more row.
LEMMA FoundNext ==
  ASSUME NEW q \in ListOngoingAlerts, NEW s, NEW k \in 1..Count, Count \in Nat,
         \A a \in Ongoing : alert[a].severity \in Severities
  PROVE  Found(q, s, k) = PageRow(q, s, k, Found(q, s, k - 1))
<1> DEFINE sev(i) == alert[q[i]].severity
           hit(j) == {i \in 1..j : Hits(q, s, i)}
<1>1. \A i \in 1..Count : sev(i) \in Severities
  BY DEF ListOngoingAlerts, Count
<1>2. \A i \in 1..Count : i < k => Rank(sev(i)) <= Rank(sev(k))
  BY DEF ListOngoingAlerts, Count
<1>3. hit(k) = IF Hits(q, s, k) THEN hit(k - 1) \cup {k} ELSE hit(k - 1)
  OBVIOUS
<1>4. \A i \in hit(k - 1) : i \in 1..Count /\ i < k
  OBVIOUS
<1>5. CASE ~Hits(q, s, k)
  BY <1>3, <1>5 DEF Found, PageRow
<1>6. CASE Hits(q, s, k) /\ \E i \in hit(k - 1) : sev(i) = "red"
  BY <1>3, <1>6 DEF Found, PageRow
<1>7. CASE Hits(q, s, k) /\ \A i \in hit(k - 1) : sev(i) # "red"
  <2>1. Found(q, s, k - 1) # "red"
    BY <1>7 DEF Found
  <2>2. \A i \in hit(k - 1) : /\ sev(k) = "red" => FALSE
                              /\ sev(k) = "amber" => sev(i) = "amber"
    <3> HIDE DEF sev, hit
    <3>1. \A i \in hit(k - 1) : /\ sev(i) \in {"amber", ""}
                                /\ sev(k) \in {"red", "amber", ""}
                                /\ Rank(sev(i)) <= Rank(sev(k))
      BY <1>1, <1>2, <1>4, <1>7 DEF Severities
    <3>2. QED
      BY <3>1, RankOrder
  <2>3. hit(k) = hit(k - 1) \cup {k}
    BY <1>3, <1>7
  <2> HIDE DEF hit
  <2>4. Found(q, s, k) = sev(k)
    BY <1>1, <1>7, <2>2, <2>3 DEF Found, Severities, hit
  <2>5. QED
    BY <1>7, <2>1, <2>4 DEF PageRow
<1>8. QED
  BY <1>5, <1>6, <1>7

\* The recursive function of ServiceStatus exists, and computes Found.
LEMMA StatusIsFound ==
  ASSUME NEW q \in ListOngoingAlerts, NEW s, Count \in Nat,
         \A a \in Ongoing : alert[a].severity \in Severities
  PROVE  ServiceStatus(q, s) = Found(q, s, Count)
<1> DEFINE Loop(f) == f = [k \in 0..Count |-> IF k = 0 THEN ""
                           ELSE IF <<q[k], s>> \in affects /\ f[k - 1] # "red"
                                THEN alert[q[k]].severity
                                ELSE f[k - 1]]
           after == CHOOSE f : Loop(f)
           found == [k \in 0..Count |-> Found(q, s, k)]
<1>1. Found(q, s, 0) = ""
  BY DEF Found
<1>2. Loop(found)
  <2>1. \A k \in 0..Count : k # 0 => k - 1 \in 0..Count /\ k \in 1..Count
    OBVIOUS
  <2>2. \A k \in 1..Count : Found(q, s, k) = PageRow(q, s, k, Found(q, s, k - 1))
    BY FoundNext
  <2>3. QED
    BY <1>1, <2>1, <2>2 DEF PageRow, Hits
<1>3. Loop(after)
  BY <1>2
<1>4. ServiceStatus(q, s) = after[Count]
  BY DEF ServiceStatus, Count
<1> HIDE DEF after
<1>5. \A k \in 0..Count : after[k] = Found(q, s, k)
  <2> DEFINE T == {k \in Nat : k \in 0..Count => after[k] = Found(q, s, k)}
  <2>1. 0 \in T
    BY <1>1, <1>3
  <2>2. ASSUME NEW k \in Nat, k \in T PROVE k + 1 \in T
    <3> SUFFICES ASSUME k + 1 \in 0..Count PROVE after[k + 1] = Found(q, s, k + 1)
      OBVIOUS
    <3>1. k \in 0..Count /\ k + 1 \in 1..Count /\ (k + 1) - 1 = k /\ k + 1 # 0
      BY <2>2
    <3>2. after[k] = Found(q, s, k)
      BY <2>2, <3>1
    <3>3. after[k + 1] = PageRow(q, s, k + 1, after[k])
      BY <1>3, <3>1 DEF PageRow, Hits
    <3>4. QED
      BY <3>1, <3>2, <3>3, FoundNext
  <2> HIDE DEF T
  <2>3. Nat \subseteq T
    BY <2>1, <2>2, SetInduction
  <2>4. QED
    BY <2>3 DEF T
<1>6. QED
  BY <1>4, <1>5

\* The page shows what the alerts say.
LEMMA PageExact ==
  ASSUME TypeOK, IsFiniteSet(Ongoing)
  PROVE  StatusPageIsExact
<1>1. Count \in Nat
  BY FS_CardinalityType DEF Count
<1>2. \A a \in Ongoing : alert[a].severity \in Severities
  BY DEF TypeOK, Ongoing, Exists, Rows
<1> SUFFICES ASSUME NEW q \in ListOngoingAlerts, NEW s \in services
             PROVE  LET sevs == {alert[a].severity : a \in {b \in Ongoing : <<b, s>> \in affects}}
                    IN  /\ ServiceStatus(q, s) = "red"   <=> "red" \in sevs
                        /\ ServiceStatus(q, s) = "amber" <=> sevs = {"amber"}
  BY DEF StatusPageIsExact
<1> DEFINE hit  == {i \in 1..Count : Hits(q, s, i)}
           sevs == {alert[a].severity : a \in {b \in Ongoing : <<b, s>> \in affects}}
<1>3. \A a \in Ongoing : \E i \in 1..Count : q[i] = a
  BY EveryAlertListed DEF ListOngoingAlerts, Count
<1>4. \A i \in 1..Count : q[i] \in Ongoing
  BY DEF ListOngoingAlerts, Count
<1>5. sevs = {alert[q[i]].severity : i \in hit}
  BY <1>3, <1>4 DEF Hits
<1>6. ServiceStatus(q, s) = Found(q, s, Count)
  BY <1>1, <1>2, StatusIsFound
<1> HIDE DEF sevs
<1>7. Found(q, s, Count) = "red" <=> "red" \in sevs
  BY <1>5 DEF Found
<1>8. Found(q, s, Count) = "amber" <=> sevs = {"amber"}
  BY <1>5 DEF Found
<1>9. QED
  BY <1>6, <1>7, <1>8 DEF sevs

-----------------------------------------------------------------------------
(* The loop of the handlers *)

\* What the loop makes of the severity it has before the k-th alert.
Worst(q, k, sev) ==
  IF \E i \in k..Count : alert[q[i]].severity = "red" THEN "red"
  ELSE IF \E i \in k..Count : alert[q[i]].severity = "amber" THEN "amber"
  ELSE sev

\* One row less.
LEMMA WorstNext ==
  ASSUME NEW q, NEW k \in 1..Count, Count \in Nat, NEW sev
  PROVE  Worst(q, k, sev) = IF alert[q[k]].severity = "amber" THEN Worst(q, k + 1, "amber")
                            ELSE IF alert[q[k]].severity = "red" THEN "red"
                            ELSE Worst(q, k + 1, sev)
<1> DEFINE s(i) == alert[q[i]].severity
<1>1. \A i : i \in k..Count <=> i = k \/ i \in (k + 1)..Count
  OBVIOUS
<1>2. "red" # "amber"
  OBVIOUS
<1>3. CASE s(k) = "red"
  BY <1>1, <1>3 DEF Worst
<1>4. CASE s(k) = "amber"
  BY <1>1, <1>4 DEF Worst
<1>5. CASE s(k) # "red" /\ s(k) # "amber"
  BY <1>1, <1>5 DEF Worst
<1>6. QED
  BY <1>3, <1>4, <1>5

\* The recursive function of NewSeverity exists, and computes Worst.
LEMMA SeverityIsWorst ==
  ASSUME NEW q \in OngoingInAnyOrder, Count \in Nat
  PROVE  NewSeverity(q) = Worst(q, 1, "blue")
<1> DEFINE Loop(f) == f = [k \in 1..Count + 1 |->
                            [sev \in {"blue", "amber"} |->
                               IF k = Count + 1 THEN sev
                               ELSE IF alert[q[k]].severity = "amber" THEN f[k + 1]["amber"]
                               ELSE IF alert[q[k]].severity = "red" THEN "red"
                               ELSE f[k + 1][sev]]]
           from  == CHOOSE f : Loop(f)
           worst == [k \in 1..Count + 1 |-> [sev \in {"blue", "amber"} |-> Worst(q, k, sev)]]
<1>1. \A sev : Worst(q, Count + 1, sev) = sev
  BY DEF Worst
<1>2. \A k \in 1..Count + 1 : k # Count + 1 => k \in 1..Count /\ k + 1 \in 1..Count + 1
  OBVIOUS
<1>3. Loop(worst)
  BY <1>1, <1>2, WorstNext
<1>4. Loop(from)
  BY <1>3
<1>5. NewSeverity(q) = from[1]["blue"]
  BY DEF NewSeverity, Count
<1> HIDE DEF from
<1>6. \A n \in 0..Count : \A sev \in {"blue", "amber"} :
        from[Count + 1 - n][sev] = Worst(q, Count + 1 - n, sev)
  <2> DEFINE T == {n \in Nat : n \in 0..Count => \A sev \in {"blue", "amber"} :
                     from[Count + 1 - n][sev] = Worst(q, Count + 1 - n, sev)}
  <2>1. 0 \in T
    BY <1>1, <1>4
  <2>2. ASSUME NEW n \in Nat, n \in T PROVE n + 1 \in T
    <3> DEFINE k == Count + 1 - (n + 1)
    <3> SUFFICES ASSUME n + 1 \in 0..Count, NEW sev \in {"blue", "amber"}
                 PROVE  from[k][sev] = Worst(q, k, sev)
      OBVIOUS
    <3>1. k \in 1..Count /\ k \in 1..Count + 1 /\ k # Count + 1 /\ k + 1 = Count + 1 - n
      OBVIOUS
    <3>2. \A t \in {"blue", "amber"} : from[k + 1][t] = Worst(q, k + 1, t)
      BY <2>2, <3>1
    <3> HIDE DEF k
    <3>3. from[k][sev] = IF alert[q[k]].severity = "amber" THEN from[k + 1]["amber"]
                         ELSE IF alert[q[k]].severity = "red" THEN "red"
                         ELSE from[k + 1][sev]
      BY <1>4, <3>1
    <3>4. QED
      BY <3>1, <3>2, <3>3, WorstNext
  <2> HIDE DEF T
  <2>3. Nat \subseteq T
    BY <2>1, <2>2, SetInduction
  <2>4. QED
    BY <2>3 DEF T
<1>7. QED
  BY <1>5, <1>6

\* The handlers store the severity of the worst ongoing alert.
LEMMA LoopWorst ==
  ASSUME IsFiniteSet(Ongoing)
  PROVE  LoopFindsWorst
<1>1. Count \in Nat
  BY FS_CardinalityType DEF Count
<1> SUFFICES ASSUME NEW q \in OngoingInAnyOrder
             PROVE  NewSeverity(q) = Recomputed(alert)
  BY DEF LoopFindsWorst
<1> DEFINE sevs == {alert[a].severity : a \in {b \in Alerts : alert[b] # NoAlert /\ alert[b].ongoing}}
<1>2. sevs = {alert[q[i]].severity : i \in 1..Count}
  <2>1. \A a \in Ongoing : \E i \in 1..Count : q[i] = a
    BY EveryAlertListed DEF OngoingInAnyOrder, Count
  <2>2. \A i \in 1..Count : q[i] \in Ongoing
    BY DEF OngoingInAnyOrder, Count
  <2>3. QED
    BY <2>1, <2>2 DEF Ongoing, Exists
<1>3. NewSeverity(q) = Worst(q, 1, "blue")
  BY <1>1, SeverityIsWorst
<1>4. Recomputed(alert) = IF "red" \in sevs THEN "red"
                          ELSE IF "amber" \in sevs THEN "amber" ELSE "blue"
  BY DEF Recomputed
<1> HIDE DEF sevs
<1>5. QED
  BY <1>2, <1>3, <1>4 DEF Worst

-----------------------------------------------------------------------------
(* There are finitely many alerts, for each step makes one at most *)

LEMMA FiniteStep ==
  ASSUME IsFiniteSet(Ongoing), [Next]_vars
  PROVE  IsFiniteSet(Ongoing')
<1>1. \A a : IsFiniteSet(Ongoing \cup {a})
  BY FS_AddElement
<1>2. ASSUME NEW a, Ongoing' \subseteq Ongoing \cup {a}
      PROVE  IsFiniteSet(Ongoing')
  BY <1>1, <1>2, FS_Subset
<1>3. ASSUME NEW a \in Alerts, \A b \in Alerts \ {a} : alert'[b] = alert[b]
      PROVE  IsFiniteSet(Ongoing')
  BY <1>2, <1>3 DEF Ongoing, Exists
<1>4. ASSUME NEW a \in Alerts, NEW row, alert' = [alert EXCEPT ![a] = row]
      PROVE  IsFiniteSet(Ongoing')
  BY <1>3, <1>4
<1>5. CASE UNCHANGED alert
  BY <1>5 DEF Ongoing, Exists
<1>6. QED
  BY <1>4, <1>5 DEF Next, CreateAlert, EditAlert, ResolveAlert, UnresolveAlert, DeleteAlert,
                    CreateService, DeleteService, vars

\* In whatever order the query returns the ongoing alerts, the loop of the
\* index page shows each service as they say, and the loop of the handlers
\* stores the worst.
THEOREM LoopsStayRight == Spec => []LoopsAreRight
<1>1. Init => IsFiniteSet(Ongoing)
  <2> SUFFICES ASSUME Init PROVE IsFiniteSet(Ongoing)
    OBVIOUS
  <2>1. PICK seed \in Alerts : Ongoing \subseteq {seed}
    BY DEF Init, Ongoing, Exists
  <2>2. QED
    BY <2>1, FS_Singleton, FS_Subset
<1>2. IsFiniteSet(Ongoing) /\ [Next]_vars => IsFiniteSet(Ongoing)'
  BY FiniteStep
<1>3. IInv /\ IsFiniteSet(Ongoing) => LoopsAreRight
  BY PageExact, LoopWorst DEF IInv, LoopsAreRight
<1>4. QED
  BY <1>1, <1>2, <1>3, Inductive, PTL DEF Spec

=============================================================================
