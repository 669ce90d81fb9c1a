-------------------------- MODULE MonitorScheduler --------------------------
(***************************************************************************)
(* The monitor loop of Statusnook: the scheduler pass that runs every      *)
(* 500 ms (checkDueMonitors), the goroutine it spawns for each due monitor *)
(* (requests, log row, alert), the operator's handlers that add, edit and  *)
(* delete monitors beside it, retention, and the shutdown sequence.        *)
(*                                                                         *)
(* Abstractions of data, none of control:                                  *)
(*  - rwDB has one connection and begins IMMEDIATE, so a write transaction *)
(*    is one atomic step; a read transaction on db is one step too.        *)
(*  - Time is only asked "did Frequency elapse since lastChecked": fresh   *)
(*    holds the ids for which it did not.  A newly started process has an  *)
(*    empty lastChecked map, so nothing is fresh.                          *)
(*  - Of monitor_log only the row monitor_log_last_checked points at is    *)
(*    kept: it is the only row the program acts on.                        *)
(*  - A status code is "ok" (< 400), "bad" (>= 400) or "none" (NULL).      *)
(*  - gen, requests and emails are history: which monitor a check was      *)
(*    started for (ids are rowids and SQLite reuses them), how many        *)
(*    requests it really made and which alert emails mail servers took     *)
(*    from it.  No guard reads them.                                       *)
(***************************************************************************)
EXTENDS Integers, Sequences

CONSTANTS
  MaxId,          \* bound: largest monitor rowid
  MaxGen,         \* bound: monitors ever created
  Workers,        \* bound: check goroutines alive at once
  Attempts,       \* monitor.attempts
  SmtpChannels,   \* notification channels of type smtp
  SlackChannels,  \* notification channels of type slack
  Outcomes,       \* bound: the ways a request can end that a run considers
  MaxRestarts     \* bound: times the process is started again

ASSUME BoundsAssumption ==
  /\ MaxId \in Nat \ {0}
  /\ MaxGen \in Nat \ {0}
  /\ Attempts \in Nat \ {0}
  /\ MaxRestarts \in Nat

ASSUME NamesAssumption ==
  /\ Workers # {}
  /\ "loop" \notin Workers
  /\ SmtpChannels \cap SlackChannels = {}
  /\ Outcomes \subseteq {"badRequest", "refused", "timeout", "canceled",
                         "bodyCut", "bad", "ok"}
  /\ {"canceled", "ok"} \subseteq Outcomes

VARIABLES
  monitor,    \* monitor table: id -> generation of its row, 0 for no row
  linked,     \* monitor_notification_channel: id -> channels
  mailed,     \* ids that a mail group with members is attached to
  last,       \* the log row monitor_log_last_checked points at, or NoRow
  aged,       \* ids whose last row is older than monitorLogRetention
  created,    \* history: monitors created so far
  phase,      \* the process: running, stopping (context cancelled), closed
  restarts,   \* history: processes started after the first
  loop,       \* where monitorLoop is
  todo,       \* monitors of the current pass not looked at yet
  due,        \* the monitor found due and not yet looked up in checkout
  checkout,   \* monitorScheduler.checkout
  fresh,      \* ids whose lastChecked is less than Frequency ago
  wg,         \* goroutines registered with appWg
  pc,         \* check goroutine: next step
  check,      \* check goroutine: the monitor it was started for
  obs,        \* check goroutine: what its requests observed
  prev,       \* check goroutine: lastChecked as read in its transaction
  sends,      \* check goroutine: channels still to notify
  skipEmail,  \* check goroutine: skipEmail
  emails      \* history: the alert emails of this check, oldest first

dbVars    == <<monitor, linked, mailed, last, aged, created>>
loopVars  == <<loop, todo, due>>
checkVars == <<pc, check, obs, prev, sends, skipEmail, emails>>
vars == <<dbVars, phase, restarts, loopVars, checkout, fresh, wg, checkVars>>

-----------------------------------------------------------------------------
(* Data *)

Ids      == 1..MaxId
Gens     == 1..MaxGen
Channels == SmtpChannels \cup SlackChannels
Codes    == {"none", "ok", "bad"}
Results  == {"", "success", "error", "timeout"}
ReqErrs  == {"refused", "timeout", "canceled"}

\* A row of the monitor table as a pass or a check remembers it.
Targets  == [id : Ids, gen : Gens]
NoTarget == [id |-> 0, gen |-> 0]

LogRows  == [gen : Gens, code : Codes, result : Results,
             attempts : 0..Attempts, requests : 0..Attempts]
NoRow    == [code |-> "no row"]

\* What one check has seen so far: the loop counter, the requests really
\* made, statusCode, result and reqErr.
Observations == [attempt : 0..Attempts, requests : 0..Attempts, code : Codes,
                 result : Results, reqErr : ReqErrs \cup {"none"}]
NothingSeen  == [attempt |-> 0, requests |-> 0, code |-> "none",
                 result |-> "", reqErr |-> "none"]

\* A mail server took the email, and smtp.SendMail returned nil or an error.
Deliveries == {"heard", "unheard"}

\* getMonitorLogLastChecked: no row is the zero struct ("first check ever").
PrevStates == [state : {"first", "happy", "unhappy"}, gen : 0..MaxGen]
NoPrev     == [state |-> "first", gen |-> 0]

\* lastHappy: response_code # 0 and < 400.
getMonitorLogLastChecked(id) ==
  IF last[id] = NoRow THEN NoPrev
  ELSE [state |-> IF last[id].code = "ok" THEN "happy" ELSE "unhappy",
        gen   |-> last[id].gen]

\* SQLite gives "integer primary key" one more than the largest rowid in the
\* table, so deleting the newest row frees its id.
IsNextRowid(id) ==
  /\ \A i \in Ids : monitor[i] # 0 => i < id
  /\ id > 1 => monitor[id - 1] # 0

-----------------------------------------------------------------------------
(* The request loop of one check *)

\* A cancelled context aborts the request in flight, or the reading of its
\* body, and every later attempt.
PossibleOutcomes ==
  IF phase = "running" THEN Outcomes \ {"canceled"}
  ELSE Outcomes \cap {"badRequest", "canceled", "bodyCut"}

\* Fault: statusCode is assigned before the body has been read.
AttemptSeenCodeBeforeBody(o, out) ==
  CASE out = "badRequest" -> o
    [] out \in ReqErrs    -> [o EXCEPT !.attempt = @ + 1, !.requests = @ + 1,
                                       !.code = "none", !.reqErr = out]
    [] out = "bodyCut"    -> [o EXCEPT !.requests = @ + 1,
                                       !.code = "ok", !.reqErr = "none"]
    [] out = "bad"        -> [o EXCEPT !.attempt = @ + 1, !.requests = @ + 1,
                                       !.code = "bad", !.result = "error",
                                       !.reqErr = "none"]
    [] out = "ok"         -> [o EXCEPT !.requests = @ + 1, !.code = "ok",
                                       !.result = "success", !.reqErr = "none"]

\* One iteration: NewRequest failing and a body that cannot be read break out
\* of the loop, a failed Do and a status >= 400 continue it.
AttemptSeen(o, out) ==
  CASE out = "badRequest" -> o
    [] out \in ReqErrs    -> [o EXCEPT !.attempt = @ + 1, !.requests = @ + 1,
                                       !.code = "none", !.reqErr = out]
    [] out = "bodyCut"    -> [o EXCEPT !.requests = @ + 1,
                                       !.code = "none", !.reqErr = "none"]
    [] out = "bad"        -> [o EXCEPT !.attempt = @ + 1, !.requests = @ + 1,
                                       !.code = "bad", !.result = "error",
                                       !.reqErr = "none"]
    [] out = "ok"         -> [o EXCEPT !.requests = @ + 1, !.code = "ok",
                                       !.result = "success", !.reqErr = "none"]

LoopBreaks(out) == out \in {"badRequest", "bodyCut", "ok"}

\* After the loop: a url.Error left by the last request names the result.
Classified(o) ==
  IF o.result # "success" /\ o.reqErr # "none"
  THEN [o EXCEPT !.result = IF o.reqErr = "timeout" THEN "timeout" ELSE "error"]
  ELSE o

attemptsMade(o) == IF o.result = "success" THEN o.attempt + 1 ELSE o.attempt

\* The row createMonitorLog inserts for the check of goroutine w.
LogRow(w) == [gen      |-> check[w].gen,
              code     |-> obs[w].code,
              result   |-> obs[w].result,
              attempts |-> attemptsMade(obs[w]),
              requests |-> obs[w].requests]

\* The condition under which channels are told, and what they are told.
Transition(w) ==
  \/ prev[w].state = "first"   /\ obs[w].result # "success"
  \/ prev[w].state = "happy"   /\ obs[w].result # "success"
  \/ prev[w].state = "unhappy" /\ obs[w].result = "success"

status(w) == IF obs[w].result = "success" THEN "up" ELSE "down"

-----------------------------------------------------------------------------
(* The scheduler pass *)

\* monitorLoop on a tick: listMonitors.  Go's select may still pick a pending
\* tick after the context is cancelled.
ListMonitors ==
  /\ loop = "idle"
  /\ phase # "closed"
  /\ todo' = {[id |-> i, gen |-> monitor[i]] : i \in {j \in Ids : monitor[j] # 0}}
  /\ loop' = "sweep"
  /\ UNCHANGED <<dbVars, phase, restarts, due, checkout, fresh, wg, checkVars>>

\* The first critical section: skip the monitor while Frequency has not
\* elapsed since lastChecked.
ReadLastChecked(t) ==
  /\ loop = "sweep"
  /\ t \in todo
  /\ todo' = todo \ {t}
  /\ \/ /\ t.id \in fresh
        /\ UNCHANGED <<loop, due>>
     \/ /\ t.id \notin fresh
        /\ loop' = "due"
        /\ due' = {t}
  /\ UNCHANGED <<dbVars, phase, restarts, checkout, fresh, wg, checkVars>>

\* The checkout lookup finds a check still running: skip the monitor.
SkipCheckedOut ==
  /\ loop = "due"
  /\ \E t \in due : t.id \in checkout
  /\ loop' = "sweep"
  /\ due' = {}
  /\ UNCHANGED <<dbVars, phase, restarts, todo, checkout, fresh, wg, checkVars>>

\* Fault: the checkout map is not consulted.
StartCheckUnguarded(w) ==
  /\ loop = "due"
  /\ pc[w] = "free"
  /\ \E t \in due : /\ checkout' = checkout \cup {t.id}
                   /\ check' = [check EXCEPT ![w] = t]
  /\ wg' = wg \cup {w}
  /\ pc' = [pc EXCEPT ![w] = "request"]
  /\ loop' = "sweep"
  /\ due' = {}
  /\ UNCHANGED <<dbVars, phase, restarts, todo, fresh,
                 obs, prev, sends, skipEmail, emails>>

\* Fault: the goroutine is not registered with the WaitGroup.
StartCheckUnregistered(w) ==
  /\ loop = "due"
  /\ pc[w] = "free"
  /\ \E t \in due : /\ t.id \notin checkout
                   /\ checkout' = checkout \cup {t.id}
                   /\ check' = [check EXCEPT ![w] = t]
  /\ pc' = [pc EXCEPT ![w] = "request"]
  /\ loop' = "sweep"
  /\ due' = {}
  /\ UNCHANGED <<dbVars, phase, restarts, todo, fresh, wg,
                 obs, prev, sends, skipEmail, emails>>

\* The lookup finds none: mark it, wg.Add(1), go.  Lookup and mark are two
\* critical sections, but only this loop ever adds to checkout, so what
\* happens between them cannot matter.
StartCheck(w) ==
  /\ loop = "due"
  /\ pc[w] = "free"
  /\ \E t \in due :
       /\ t.id \notin checkout
       /\ checkout' = checkout \cup {t.id}
       /\ check' = [check EXCEPT ![w] = t]
  /\ wg' = wg \cup {w}
  /\ pc' = [pc EXCEPT ![w] = "request"]
  /\ loop' = "sweep"
  /\ due' = {}
  /\ UNCHANGED <<dbVars, phase, restarts, todo, fresh,
                 obs, prev, sends, skipEmail, emails>>

EndSweep ==
  /\ loop = "sweep"
  /\ todo = {}
  /\ loop' = "idle"
  /\ UNCHANGED <<dbVars, phase, restarts, todo, due, checkout, fresh, wg, checkVars>>

\* ctx.Done: the loop leaves the WaitGroup.
ExitLoop ==
  /\ loop = "idle"
  /\ phase = "stopping"
  /\ loop' = "exited"
  /\ wg' = wg \ {"loop"}
  /\ UNCHANGED <<dbVars, phase, restarts, todo, due, checkout, fresh, checkVars>>

-----------------------------------------------------------------------------
(* One check goroutine *)

\* Fault: attempt <= monitor.Attempts in the loop head.
AttemptOneTooMany(w) ==
  /\ pc[w] = "request"
  /\ \E out \in PossibleOutcomes :
       LET o    == AttemptSeen(obs[w], out)
           done == LoopBreaks(out) \/ o.attempt > Attempts
       IN  /\ obs' = [obs EXCEPT ![w] = IF done THEN Classified(o) ELSE o]
           /\ pc' = [pc EXCEPT ![w] = IF done THEN "write" ELSE "request"]
  /\ UNCHANGED <<dbVars, phase, restarts, loopVars, checkout, fresh, wg,
                 check, prev, sends, skipEmail, emails>>

\* One attempt; the loop ends on a break or after the last attempt.
Attempt(w) ==
  /\ pc[w] = "request"
  /\ \E out \in PossibleOutcomes :
       LET o    == AttemptSeen(obs[w], out)
           done == LoopBreaks(out) \/ o.attempt = Attempts
       IN  /\ obs' = [obs EXCEPT ![w] = IF done THEN Classified(o) ELSE o]
           /\ pc' = [pc EXCEPT ![w] = IF done THEN "write" ELSE "request"]
  /\ UNCHANGED <<dbVars, phase, restarts, loopVars, checkout, fresh, wg,
                 check, prev, sends, skipEmail, emails>>

\* Fault: "on conflict do nothing" on monitor_log_last_checked.
WriteLogKeepsOldPointer(w) ==
  LET id == check[w].id
  IN  /\ pc[w] = "write"
      /\ monitor[id] # 0
      /\ prev' = [prev EXCEPT ![w] = getMonitorLogLastChecked(id)]
      /\ last' = [last EXCEPT ![id] = IF @ = NoRow THEN LogRow(w) ELSE @]
      /\ aged' = aged \ {id}
      /\ pc' = [pc EXCEPT ![w] = "channels"]
      /\ UNCHANGED <<monitor, linked, mailed, created, phase, restarts, loopVars,
                     checkout, fresh, wg, check, obs, sends, skipEmail, emails>>

\* The write transaction: insert the log row, read the previous one, point
\* monitor_log_last_checked at the new one.  The foreign key refuses a row
\* for a monitor that is gone.
WriteLog(w) ==
  LET id == check[w].id
  IN  /\ pc[w] = "write"
      /\ monitor[id] # 0
      /\ prev' = [prev EXCEPT ![w] = getMonitorLogLastChecked(id)]
      /\ last' = [last EXCEPT ![id] = LogRow(w)]
      /\ aged' = aged \ {id}
      /\ pc' = [pc EXCEPT ![w] = "channels"]
      /\ UNCHANGED <<monitor, linked, mailed, created, phase, restarts, loopVars,
                     checkout, fresh, wg, check, obs, sends, skipEmail, emails>>

\* Fault: an error return leaves the monitor checked out.
GiveUpCheckedOut(w) ==
  /\ pc[w] \in {"write", "channels", "emails"}
  /\ pc' = [pc EXCEPT ![w] = "stamp"]
  /\ UNCHANGED <<dbVars, phase, restarts, loopVars, checkout, fresh, wg,
                 check, obs, prev, sends, skipEmail, emails>>

\* Every error return of the goroutine: the failed foreign key, a failed
\* begin, statement or commit.  The deferred function still runs.
GiveUp(w) ==
  /\ pc[w] \in {"write", "channels", "emails"}
  /\ pc' = [pc EXCEPT ![w] = "release"]
  /\ UNCHANGED <<dbVars, phase, restarts, loopVars, checkout, fresh, wg,
                 check, obs, prev, sends, skipEmail, emails>>

\* listNotificationChannelsByMonitorID, and the decision whether to alert.
ReadChannels(w) ==
  /\ pc[w] = "channels"
  /\ sends' = [sends EXCEPT ![w] = linked[check[w].id]]
  /\ pc' = [pc EXCEPT ![w] =
              IF linked[check[w].id] # {} /\ Transition(w) THEN "emails"
              ELSE "release"]
  /\ UNCHANGED <<dbVars, phase, restarts, loopVars, checkout, fresh, wg,
                 check, obs, prev, skipEmail, emails>>

\* listMailGroupMembersEmailsByMonitorID.
ReadEmails(w) ==
  /\ pc[w] = "emails"
  /\ skipEmail' = [skipEmail EXCEPT ![w] = check[w].id \notin mailed]
  /\ pc' = [pc EXCEPT ![w] = "alert"]
  /\ UNCHANGED <<dbVars, phase, restarts, loopVars, checkout, fresh, wg,
                 check, obs, prev, sends, emails>>

\* Fault: skipEmail is not set after a delivery.
SendEmailEveryChannel(w) ==
  /\ pc[w] = "alert"
  /\ ~skipEmail[w]
  /\ \E ch \in sends[w] \cap SmtpChannels :
       sends' = [sends EXCEPT ![w] = @ \ {ch}]
  /\ emails' = [emails EXCEPT ![w] = Append(@, "heard")]
  /\ UNCHANGED <<dbVars, phase, restarts, loopVars, checkout, fresh, wg,
                 pc, check, obs, prev, skipEmail>>

\* sendMonitorAlertEmail: an email reported as delivered suppresses the later
\* channels; on an error, which is logged, the next channel is tried.  The
\* error may come after the server took the mail: the answer to DATA is lost,
\* or QUIT fails.
SendEmail(w) ==
  /\ pc[w] = "alert"
  /\ ~skipEmail[w]
  /\ \E ch \in sends[w] \cap SmtpChannels :
       sends' = [sends EXCEPT ![w] = @ \ {ch}]
  /\ \/ /\ skipEmail' = [skipEmail EXCEPT ![w] = TRUE]
        /\ emails' = [emails EXCEPT ![w] = Append(@, "heard")]
     \/ /\ emails' = [emails EXCEPT ![w] = Append(@, "unheard")]
        /\ UNCHANGED skipEmail
     \/ UNCHANGED <<skipEmail, emails>>
  /\ UNCHANGED <<dbVars, phase, restarts, loopVars, checkout, fresh, wg,
                 pc, check, obs, prev>>

\* sendMonitorAlertSlack (delivered or not, nothing is recorded), or an smtp
\* channel passed over because skipEmail is set.
SendSlackOrSkip(w) ==
  /\ pc[w] = "alert"
  /\ \E ch \in sends[w] :
       /\ ch \in SlackChannels \/ skipEmail[w]
       /\ sends' = [sends EXCEPT ![w] = @ \ {ch}]
  /\ UNCHANGED <<dbVars, phase, restarts, loopVars, checkout, fresh, wg,
                 pc, check, obs, prev, skipEmail, emails>>

AlertsDone(w) ==
  /\ pc[w] = "alert"
  /\ sends[w] = {}
  /\ pc' = [pc EXCEPT ![w] = "release"]
  /\ UNCHANGED <<dbVars, phase, restarts, loopVars, checkout, fresh, wg,
                 check, obs, prev, sends, skipEmail, emails>>

\* The deferred function, first critical section.
Release(w) ==
  /\ pc[w] = "release"
  /\ checkout' = checkout \ {check[w].id}
  /\ pc' = [pc EXCEPT ![w] = "stamp"]
  /\ UNCHANGED <<dbVars, phase, restarts, loopVars, fresh, wg,
                 check, obs, prev, sends, skipEmail, emails>>

\* Fault: the goroutine never leaves the WaitGroup.
StampWithoutDone(w) ==
  /\ pc[w] = "stamp"
  /\ fresh' = fresh \cup {check[w].id}
  /\ pc' = [pc EXCEPT ![w] = "free"]
  /\ check' = [check EXCEPT ![w] = NoTarget]
  /\ obs' = [obs EXCEPT ![w] = NothingSeen]
  /\ prev' = [prev EXCEPT ![w] = NoPrev]
  /\ sends' = [sends EXCEPT ![w] = {}]
  /\ skipEmail' = [skipEmail EXCEPT ![w] = FALSE]
  /\ emails' = [emails EXCEPT ![w] = <<>>]
  /\ UNCHANGED <<dbVars, phase, restarts, loopVars, checkout, wg>>

\* The deferred function, second critical section, then wg.Done; the
\* goroutine's variables are gone.
StampLastChecked(w) ==
  /\ pc[w] = "stamp"
  /\ fresh' = fresh \cup {check[w].id}
  /\ wg' = wg \ {w}
  /\ pc' = [pc EXCEPT ![w] = "free"]
  /\ check' = [check EXCEPT ![w] = NoTarget]
  /\ obs' = [obs EXCEPT ![w] = NothingSeen]
  /\ prev' = [prev EXCEPT ![w] = NoPrev]
  /\ sends' = [sends EXCEPT ![w] = {}]
  /\ skipEmail' = [skipEmail EXCEPT ![w] = FALSE]
  /\ emails' = [emails EXCEPT ![w] = <<>>]
  /\ UNCHANGED <<dbVars, phase, restarts, loopVars, checkout>>

-----------------------------------------------------------------------------
(* Beside the loop: operators, retention, time, the process.  A handler that *)
(* outlasts the 15 s of http.Server.Shutdown is still at work after the      *)
(* context is cancelled, until the databases are closed.                     *)

\* postCreateMonitor.
CreateMonitor(id, chans, mail) ==
  /\ phase # "closed"
  /\ IsNextRowid(id)
  /\ created < MaxGen
  /\ created' = created + 1
  /\ monitor' = [monitor EXCEPT ![id] = created + 1]
  /\ linked' = [linked EXCEPT ![id] = chans]
  /\ mailed' = IF mail THEN mailed \cup {id} ELSE mailed \ {id}
  /\ UNCHANGED <<last, aged, phase, restarts, loopVars, checkout, fresh, wg, checkVars>>

\* postEditMonitor: the links are replaced; a monitor that is gone is a 404.
EditMonitor(id, chans, mail) ==
  /\ phase # "closed"
  /\ monitor[id] # 0
  /\ linked' = [linked EXCEPT ![id] = chans]
  /\ mailed' = IF mail THEN mailed \cup {id} ELSE mailed \ {id}
  /\ UNCHANGED <<monitor, last, aged, created, phase, restarts, loopVars,
                 checkout, fresh, wg, checkVars>>

\* deleteMonitor, with what the foreign keys cascade to.
DeleteMonitor(id) ==
  /\ phase # "closed"
  /\ monitor[id] # 0
  /\ monitor' = [monitor EXCEPT ![id] = 0]
  /\ linked' = [linked EXCEPT ![id] = {}]
  /\ mailed' = mailed \ {id}
  /\ last' = [last EXCEPT ![id] = NoRow]
  /\ aged' = aged \ {id}
  /\ UNCHANGED <<created, phase, restarts, loopVars, checkout, fresh, wg, checkVars>>

\* prune("monitor_log"): one batch; the last-checked rows go with their logs.
PruneMonitorLogs(batch) ==
  /\ phase # "closed"
  /\ batch # {}
  /\ batch \subseteq aged
  /\ last' = [i \in Ids |-> IF i \in batch THEN NoRow ELSE last[i]]
  /\ aged' = aged \ batch
  /\ UNCHANGED <<monitor, linked, mailed, created, phase, restarts, loopVars,
                 checkout, fresh, wg, checkVars>>

FrequencyElapses(id) ==
  /\ id \in fresh
  /\ fresh' = fresh \ {id}
  /\ UNCHANGED <<dbVars, phase, restarts, loopVars, checkout, wg, checkVars>>

\* main after the HTTP servers are down: cancelAppCtx.
CancelAppCtx ==
  /\ phase = "running"
  /\ phase' = "stopping"
  /\ UNCHANGED <<dbVars, restarts, loopVars, checkout, fresh, wg, checkVars>>

\* appWg.Wait returns, the databases are closed.
CloseDB ==
  /\ phase = "stopping"
  /\ wg = {}
  /\ phase' = "closed"
  /\ UNCHANGED <<dbVars, restarts, loopVars, checkout, fresh, wg, checkVars>>

\* A new process, after a clean stop or a kill: memory is gone, the database
\* is not, and while it was down rows may have passed the retention age.
Restart ==
  /\ restarts < MaxRestarts
  /\ restarts' = restarts + 1
  /\ phase' = "running"
  /\ loop' = "idle"
  /\ todo' = {}
  /\ due' = {}
  /\ checkout' = {}
  /\ fresh' = {}
  /\ wg' = {"loop"}
  /\ pc' = [w \in Workers |-> "free"]
  /\ check' = [w \in Workers |-> NoTarget]
  /\ obs' = [w \in Workers |-> NothingSeen]
  /\ prev' = [w \in Workers |-> NoPrev]
  /\ sends' = [w \in Workers |-> {}]
  /\ skipEmail' = [w \in Workers |-> FALSE]
  /\ emails' = [w \in Workers |-> <<>>]
  /\ \E old \in SUBSET {i \in Ids : last[i] # NoRow} : aged' = aged \cup old
  /\ UNCHANGED <<monitor, linked, mailed, last, created>>

-----------------------------------------------------------------------------
(* Specification *)

\* A database without monitors and a process that has just started its loop.
Init ==
  /\ monitor = [i \in Ids |-> 0]
  /\ linked = [i \in Ids |-> {}]
  /\ mailed = {}
  /\ last = [i \in Ids |-> NoRow]
  /\ aged = {}
  /\ created = 0
  /\ phase = "running"
  /\ restarts = 0
  /\ loop = "idle"
  /\ todo = {}
  /\ due = {}
  /\ checkout = {}
  /\ fresh = {}
  /\ wg = {"loop"}
  /\ pc = [w \in Workers |-> "free"]
  /\ check = [w \in Workers |-> NoTarget]
  /\ obs = [w \in Workers |-> NothingSeen]
  /\ prev = [w \in Workers |-> NoPrev]
  /\ sends = [w \in Workers |-> {}]
  /\ skipEmail = [w \in Workers |-> FALSE]
  /\ emails = [w \in Workers |-> <<>>]

CheckStep(w) ==
  \/ Attempt(w)
  \/ WriteLog(w)
  \/ GiveUp(w)
  \/ ReadChannels(w)
  \/ ReadEmails(w)
  \/ SendEmail(w)
  \/ SendSlackOrSkip(w)
  \/ AlertsDone(w)
  \/ Release(w)
  \/ StampLastChecked(w)

Pass ==
  \/ ListMonitors
  \/ \E t \in todo : ReadLastChecked(t)
  \/ SkipCheckedOut
  \/ \E w \in Workers : StartCheck(w)
  \/ EndSweep

Operator ==
  \/ \E id \in Ids, chans \in SUBSET Channels, mail \in BOOLEAN :
       \/ CreateMonitor(id, chans, mail)
       \/ EditMonitor(id, chans, mail)
  \/ \E id \in Ids : DeleteMonitor(id)

Process ==
  \/ ExitLoop
  \/ \E batch \in SUBSET Ids : PruneMonitorLogs(batch)
  \/ \E id \in Ids : FrequencyElapses(id)
  \/ CancelAppCtx
  \/ CloseDB
  \/ Restart

Next ==
  \/ Pass
  \/ \E w \in Workers : CheckStep(w)
  \/ Operator
  \/ Process

Spec == Init /\ [][Next]_vars

(***************************************************************************)
(* Fairness.  The ticker and the goroutines keep running, HTTP requests    *)
(* carry a client timeout, and time passes.  Only one tick can be buffered *)
(* when the context is cancelled, so the loop's select cannot prefer the   *)
(* ticker for ever: SF for ExitLoop.  Nothing in the code bounds           *)
(* smtp.SendMail, so that mail servers answer is an assumption of its own. *)
(* Operators, signals, kills and retention are never obliged to happen.    *)
(***************************************************************************)
LoopFairness ==
  /\ WF_vars(Pass)
  /\ SF_vars(ExitLoop)
  /\ WF_vars(CloseDB)
  /\ \A id \in Ids : WF_vars(FrequencyElapses(id))

CheckFairness ==
  \A w \in Workers :
    /\ WF_vars(Attempt(w))
    /\ WF_vars(WriteLog(w) \/ GiveUp(w))
    /\ WF_vars(ReadChannels(w))
    /\ WF_vars(ReadEmails(w))
    /\ WF_vars(SendSlackOrSkip(w))
    /\ WF_vars(AlertsDone(w))
    /\ WF_vars(Release(w))
    /\ WF_vars(StampLastChecked(w))

MailServersAnswer == \A w \in Workers : WF_vars(SendEmail(w))

FairSpec     == Spec /\ LoopFairness /\ CheckFairness /\ MailServersAnswer
TimeoutsSpec == Spec /\ LoopFairness /\ CheckFairness

-----------------------------------------------------------------------------
(* Properties *)

Steps == {"free", "request", "write", "channels", "emails", "alert",
          "release", "stamp"}

\* Goroutine w is between the mark in the checkout map and its removal.
Active(w) == pc[w] \notin {"free", "stamp"}

\* Goroutine w has committed its row and is still deciding or alerting.
Alerting(w) == pc[w] \in {"channels", "emails", "alert"}

\* Type correctness of the tables, the scheduler's maps and the goroutines'
\* variables; a check makes at most Attempts requests.
TypeOK ==
  /\ monitor \in [Ids -> 0..MaxGen]
  /\ linked \in [Ids -> SUBSET Channels]
  /\ mailed \subseteq Ids
  /\ last \in [Ids -> LogRows \cup {NoRow}]
  /\ aged \subseteq Ids
  /\ created \in 0..MaxGen
  /\ phase \in {"running", "stopping", "closed"}
  /\ restarts \in 0..MaxRestarts
  /\ loop \in {"idle", "sweep", "due", "exited"}
  /\ todo \subseteq Targets
  /\ due \subseteq Targets
  /\ checkout \subseteq Ids
  /\ fresh \subseteq Ids
  /\ wg \subseteq Workers \cup {"loop"}
  /\ pc \in [Workers -> Steps]
  /\ check \in [Workers -> Targets \cup {NoTarget}]
  /\ obs \in [Workers -> Observations]
  /\ prev \in [Workers -> PrevStates]
  /\ sends \in [Workers -> SUBSET Channels]
  /\ skipEmail \in [Workers -> BOOLEAN]
  /\ emails \in [Workers -> Seq(Deliveries)]

\* checkDueMonitors never runs two checks of one monitor id at once, whatever
\* the deferred release, deletions and id reuse interleave to.
NoOverlap ==
  \A v, w \in Workers :
    v # w /\ Active(v) /\ Active(w) => check[v].id # check[w].id

\* No entry of the checkout map outlives its goroutine, on any error return: a
\* leaked one would stop the monitor from ever being checked again.
NoLeakedCheckout ==
  \A id \in checkout : \E w \in Workers : Active(w) /\ check[w].id = id

\* While a check decides and sends its alert, the newest stored row of that
\* monitor is its own: nobody is told a state that a later check has already
\* replaced.  (The row may have been pruned or deleted with its monitor.)
AlertsReflectLatestLog ==
  \A w \in Workers :
    Alerting(w) => last[check[w].id] \in {NoRow, LogRow(w)}

\* The transition logic reads happiness from response_code and the dashboard
\* from result: the two columns of a stored row always agree.
HappyIffSuccess ==
  \A id \in Ids :
    last[id] # NoRow => (last[id].code = "ok" <=> last[id].result = "success")

\* The attempts column never shows more requests than were made, and is exact
\* when the check succeeded or its last request failed to connect in time.
AttemptsNeverOvercount ==
  \A id \in Ids :
    last[id] # NoRow =>
      /\ last[id].attempts <= last[id].requests
      /\ last[id].result \in {"success", "timeout"} =>
           last[id].attempts = last[id].requests

\* The columns of a stored row tell one story, however the loop was left.
RowsConsistent == HappyIffSuccess /\ AttemptsNeverOvercount

\* However many smtp channels a monitor has, one check mails its groups again
\* only while no server's answer has reached it: every email but the last one
\* was reported as failed although the server had taken it.
MailedAgainOnlyUnheard ==
  \A w \in Workers :
    \A i, j \in 1..Len(emails[w]) : i < j => emails[w][i] = "unheard"

\* main closes the databases only when the loop and every check are finished:
\* a check never races db.Close() to write its log.
DrainedBeforeClose ==
  phase = "closed" => loop = "exited" /\ \A w \in Workers : pc[w] = "free"

\* A monitor that exists keeps being checked while the process runs, whatever
\* earlier checks of it failed at.
CheckedAgain ==
  \A id \in Ids, g \in Gens :
    (phase = "running" /\ monitor[id] = g) ~>
      \/ phase # "running"
      \/ monitor[id] # g
      \/ \E w \in Workers : pc[w] = "request" /\ check[w] = [id |-> id, gen |-> g]

\* After the context is cancelled the process gets to close its databases.
ShutdownCompletes == phase = "stopping" ~> phase = "closed"

-----------------------------------------------------------------------------
(* Properties the comments and tests state and the code does not have *)

\* However many smtp channels a monitor has, one check mails its groups once.
OneEmailPerCheck == \A w \in Workers : Len(emails[w]) <= 1

\* The attempts column is the number of attempts made.
AttemptsAreRequests ==
  \A id \in Ids : last[id] # NoRow => last[id].attempts = last[id].requests

\* A pass starts checks only of monitors whose Frequency has elapsed.
ChecksOnlyDue ==
  [][\A w \in Workers :
       pc[w] = "free" /\ pc'[w] = "request" => check'[w].id \notin fresh]_vars

\* A recovery is announced only after a failed check of the same monitor.
RecoveryAfterOwnFailure ==
  \A w \in Workers :
    pc[w] \in {"emails", "alert"} /\ status(w) = "up" =>
      prev[w].gen = check[w].gen

\* "down" is announced only when the target failed, not because the check was
\* aborted by the process's own shutdown.
DownMeansTargetFailed ==
  \A w \in Workers :
    pc[w] \in {"emails", "alert"} /\ status(w) = "down" =>
      obs[w].reqErr # "canceled"

=============================================================================
