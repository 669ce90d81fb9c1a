------------------------------ MODULE AlertBoard ------------------------------
(***************************************************************************)
(* Alerts, the services they affect, and the stored severity of the whole  *)
(* installation.  Every handler is one write transaction.  Those that      *)
(* change an alert recompute the severity from the ongoing alerts before   *)
(* they commit, except deleteAlert.  The index page derives each service's *)
(* status from the ongoing alerts by itself.                               *)
(*                                                                         *)
(* A request that fails (a foreign key, a missing field) is rolled back    *)
(* and is no step.  Titles, messages and dates are left out; messages and  *)
(* their notifications are in NotificationQueue.                           *)
(***************************************************************************)
EXTENDS Naturals, FiniteSets

CONSTANTS
  Alerts,     \* rowids an alert may get; one is used again after a deletion
  Services    \* rowids a service may get

VARIABLES
  alert,      \* alert table: id -> row
  affects,    \* alert_service table: pairs <<alert, service>>
  services,   \* service table
  severity,   \* the one row of the severity table
  deleted     \* history: an alert was deleted since the last recomputation

vars == <<alert, affects, services, severity, deleted>>

\* A maintenance alert is stored with the severity the form sent: the page's
\* form sends none, and the handler looks at it for an incident only.
Severities == {"red", "amber", ""}
Rows       == [severity : Severities, ongoing : BOOLEAN]
NoAlert    == [ongoing |-> FALSE]

Submitted ==
  [type : {"incident"}, severity : {"red", "amber"}] \cup
  [type : {"maintenance"}, severity : Severities]

-----------------------------------------------------------------------------
(* The severity *)

Exists(a) == alert[a] # NoAlert
Ongoing   == {a \in Alerts : Exists(a) /\ alert[a].ongoing}

\* Fault: the loop stops at the first alert that has a severity, in any order.
RecomputedFirst(t) ==
  LET sevs == {t[a].severity : a \in {b \in Alerts : t[b] # NoAlert /\ t[b].ongoing}}
  IN  IF "amber" \in sevs THEN "amber" ELSE IF "red" \in sevs THEN "red" ELSE "blue"

\* Fault: newSeverity starts out empty.
RecomputedEmpty(t) ==
  LET sevs == {t[a].severity : a \in {b \in Alerts : t[b] # NoAlert /\ t[b].ongoing}}
  IN  IF "red" \in sevs THEN "red" ELSE IF "amber" \in sevs THEN "amber" ELSE ""

\* getOngoingAlerts and the loop over its rows, in a table of alerts t.
Recomputed(t) ==
  LET sevs == {t[a].severity : a \in {b \in Alerts : t[b] # NoAlert /\ t[b].ongoing}}
  IN  IF "red" \in sevs THEN "red" ELSE IF "amber" \in sevs THEN "amber" ELSE "blue"

UpdateSeverity ==
  /\ severity' = Recomputed(alert')
  /\ deleted' = FALSE

-----------------------------------------------------------------------------
(* Handlers *)

\* postCreateAlert: at least one service, all of them existing.
CreateAlert(a, form, ss) ==
  /\ ~Exists(a)
  /\ ss # {} /\ ss \subseteq services
  /\ alert' = [alert EXCEPT ![a] = [severity |-> form.severity, ongoing |-> TRUE]]
  /\ affects' = affects \cup {<<a, s>> : s \in ss}
  /\ UpdateSeverity
  /\ UNCHANGED services

\* Fault: the severity is not recomputed.
EditAlertOnly(a, form, ss) ==
  /\ Exists(a)
  /\ ss # {} /\ ss \subseteq services
  /\ alert' = [alert EXCEPT ![a].severity = form.severity]
  /\ affects' = {p \in affects : p[1] # a} \cup {<<a, s>> : s \in ss}
  /\ UNCHANGED <<services, severity, deleted>>

\* postEditAlert: a missing alert is refused by the foreign key of its first
\* service.
EditAlert(a, form, ss) ==
  /\ Exists(a)
  /\ ss # {} /\ ss \subseteq services
  /\ alert' = [alert EXCEPT ![a].severity = form.severity]
  /\ affects' = {p \in affects : p[1] # a} \cup {<<a, s>> : s \in ss}
  /\ UpdateSeverity
  /\ UNCHANGED services

\* postResolveAlert; nothing asks whether the alert still exists.
ResolveAlert(a) ==
  /\ alert' = IF Exists(a) THEN [alert EXCEPT ![a].ongoing = FALSE] ELSE alert
  /\ UpdateSeverity
  /\ UNCHANGED <<affects, services>>

\* postUnresolveAlert.
UnresolveAlert(a) ==
  /\ alert' = IF Exists(a) THEN [alert EXCEPT ![a].ongoing = TRUE] ELSE alert
  /\ UpdateSeverity
  /\ UNCHANGED <<affects, services>>

\* deleteAlert: its rows in alert_service go with it; the severity stays.
DeleteAlert(a) ==
  /\ alert' = [alert EXCEPT ![a] = NoAlert]
  /\ affects' = {p \in affects : p[1] # a}
  /\ deleted' = (deleted \/ Exists(a))
  /\ UNCHANGED <<services, severity>>

\* createService, from postCreateService or applyConfig.
CreateService(s) ==
  /\ s \notin services
  /\ services' = services \cup {s}
  /\ UNCHANGED <<alert, affects, severity, deleted>>

\* deleteServiceByID, from deleteService or applyConfig: the alerts that
\* affected it stay, some without any service.
DeleteService(s) ==
  /\ s \in services
  /\ services' = services \ {s}
  /\ affects' = {p \in affects : p[2] # s}
  /\ UNCHANGED <<alert, severity, deleted>>

-----------------------------------------------------------------------------
(* The index page *)

Rank(sev) == IF sev = "red" THEN 1 ELSE IF sev = "amber" THEN 2 ELSE 3

\* Every order of the ongoing alerts; as a fault, the query has no order by.
OngoingInAnyOrder ==
  {q \in [1..Cardinality(Ongoing) -> Ongoing] :
     \A i, j \in DOMAIN q : i < j => q[i] # q[j]}

\* The orders in which ListOngoingAlerts may return its rows.
ListOngoingAlerts ==
  {q \in [1..Cardinality(Ongoing) -> Ongoing] :
     \A i, j \in DOMAIN q :
       i < j => /\ q[i] # q[j]
                /\ Rank(alert[q[i]].severity) <= Rank(alert[q[j]].severity)}

\* serviceStatuses[s] of index after its loop over the alerts q.
ServiceStatus(q, s) ==
  LET after[k \in 0..Cardinality(Ongoing)] ==
        IF k = 0 THEN ""
        ELSE IF <<q[k], s>> \in affects /\ after[k - 1] # "red"
             THEN alert[q[k]].severity
             ELSE after[k - 1]
  IN  after[Cardinality(Ongoing)]

\* Fault: the loop does not stop at red.
NewSeverityNoBreak(q) ==
  LET from[k \in 1..Cardinality(Ongoing) + 1] ==
        [sev \in {"blue", "amber", "red"} |->
           IF k = Cardinality(Ongoing) + 1 THEN sev
           ELSE IF alert[q[k]].severity = "" THEN from[k + 1][sev]
           ELSE from[k + 1][alert[q[k]].severity]]
  IN  from[1]["blue"]

\* newSeverity of postCreateAlert after its loop over the alerts q: amber is
\* overwritten, red ends the loop.
NewSeverity(q) ==
  LET from[k \in 1..Cardinality(Ongoing) + 1] ==
        [sev \in {"blue", "amber"} |->
           IF k = Cardinality(Ongoing) + 1 THEN sev
           ELSE IF alert[q[k]].severity = "amber" THEN from[k + 1]["amber"]
           ELSE IF alert[q[k]].severity = "red" THEN "red"
           ELSE from[k + 1][sev]]
  IN  from[1]["blue"]

-----------------------------------------------------------------------------
(* Specification *)

\* schema.sql: one service, an ongoing maintenance alert for it without severity,
\* and severity blue.
Init ==
  /\ \E a \in Alerts, s \in Services :
       /\ alert = [b \in Alerts |-> IF b = a THEN [severity |-> "", ongoing |-> TRUE]
                                    ELSE NoAlert]
       /\ affects = {<<a, s>>}
       /\ services = {s}
  /\ severity = "blue"
  /\ deleted = FALSE

Next ==
  \/ \E a \in Alerts, form \in Submitted, ss \in SUBSET Services :
       CreateAlert(a, form, ss) \/ EditAlert(a, form, ss)
  \/ \E a \in Alerts : ResolveAlert(a) \/ UnresolveAlert(a) \/ DeleteAlert(a)
  \/ \E s \in Services : CreateService(s) \/ DeleteService(s)

Spec == Init /\ [][Next]_vars

-----------------------------------------------------------------------------
(* Properties *)

\* Type correctness.
TypeOK ==
  /\ alert \in [Alerts -> Rows \cup {NoAlert}]
  /\ affects \subseteq Alerts \X Services
  /\ services \subseteq Services
  /\ severity \in {"red", "amber", "blue"}
  /\ deleted \in BOOLEAN

\* Whatever is created, edited, resolved, reopened or deleted in whatever
\* order, the stored severity never understates an ongoing alert.
NeverUnderstated ==
  \A a \in Ongoing :
    /\ alert[a].severity = "red" => severity = "red"
    /\ alert[a].severity = "amber" => severity \in {"amber", "red"}

\* It is exactly that of the worst ongoing alert, except between a deletion
\* and the next change of an alert.
StaleOnlyAfterDelete == deleted \/ severity = Recomputed(alert)

\* A new alert, or a new service, on the rowid of a deleted one inherits
\* nothing: alert_service names existing alerts and services only.
NoDanglingService ==
  \A p \in affects : Exists(p[1]) /\ p[2] \in services

\* The index page, for each order the query may return: red for a service
\* exactly if an ongoing red alert affects it, amber exactly if an amber one
\* does and neither a red one nor one without severity.
StatusPageIsExact ==
  \A q \in ListOngoingAlerts, s \in services :
    LET sevs == {alert[a].severity : a \in {b \in Ongoing : <<b, s>> \in affects}}
    IN  /\ ServiceStatus(q, s) = "red"   <=> "red" \in sevs
        /\ ServiceStatus(q, s) = "amber" <=> sevs = {"amber"}

\* The loops of the four handlers, which rely on no order of the rows,
\* compute the severity of the worst ongoing alert.
LoopFindsWorst ==
  \A q \in OngoingInAnyOrder : NewSeverity(q) = Recomputed(alert)

\* Neither loop over the ongoing alerts, the page's and the handlers', depends
\* on how the rows happen to be ordered.
LoopsAreRight == StatusPageIsExact /\ LoopFindsWorst

-----------------------------------------------------------------------------
(* A property a test's comment states and the code does not have *)

\* The severity banner follows the worst ongoing alert and drops back.
BannerFollowsWorst == severity = Recomputed(alert)

=============================================================================
