----------------------- MODULE MonitorSchedulerProofs -----------------------
(***************************************************************************)
(* Proofs that MonitorScheduler has its safety invariants for every number *)
(* of monitors, check goroutines, attempts and channels.                   *)
(*                                                                         *)
(* The invariants are not inductive one by one.  NoOverlap needs to know   *)
(* that an active goroutine's id is in the checkout map, so that the guard *)
(* of StartCheck excludes it; AlertsReflectLatestLog needs NoOverlap, so   *)
(* that no other goroutine can replace the row; the columns of a row agree *)
(* because the goroutine's variables already did when it left the request  *)
(* loop; and the databases close late because membership in the WaitGroup  *)
(* follows the life of each goroutine.  IInv is their conjunction.         *)
(***************************************************************************)
EXTENDS MonitorScheduler, TLAPS

\* A goroutine that runs knows its monitor.
HasTarget ==
  \A w \in Workers : pc[w] # "free" => check[w] \in Targets

\* An active goroutine's monitor is in the checkout map.
ActiveCheckedOut ==
  \A w \in Workers : Active(w) => check[w].id \in checkout

\* In the request loop: every request so far failed, and was counted.
StillTrying(o) ==
  /\ o.code # "ok"
  /\ o.result \notin {"success", "timeout"}
  /\ o.attempt = o.requests
  /\ o.attempt < Attempts

\* The code agrees with the result, and the attempts that would be recorded
\* do not exceed the requests made.
Consistent(o) ==
  /\ o.code = "ok" <=> o.result = "success"
  /\ attemptsMade(o) <= o.requests
  /\ o.result \in {"success", "timeout"} => attemptsMade(o) = o.requests

ObservedInv ==
  \A w \in Workers :
    /\ pc[w] \in {"free", "request"} => StillTrying(obs[w])
    /\ Consistent(obs[w])

\* Before the alert loop nothing was mailed; an email whose answer was heard is
\* the last one, and has set skipEmail.
OnlyLastHeard(mails, skip) ==
  \A i \in 1..Len(mails) : mails[i] = "heard" => i = Len(mails) /\ skip

EmailInv ==
  \A w \in Workers :
    /\ OnlyLastHeard(emails[w], skipEmail[w])
    /\ emails[w] # <<>> => pc[w] \in {"alert", "release", "stamp"}

\* The WaitGroup holds the loop until it exits and every live goroutine, and
\* is empty once the databases are closed.
WaitGroupInv ==
  /\ loop # "exited" => "loop" \in wg
  /\ \A w \in Workers : pc[w] # "free" => w \in wg
  /\ phase = "closed" => wg = {}

IInv ==
  /\ TypeOK
  /\ HasTarget
  /\ ActiveCheckedOut
  /\ NoOverlap
  /\ NoLeakedCheckout
  /\ ObservedInv
  /\ HappyIffSuccess
  /\ AttemptsNeverOvercount
  /\ AlertsReflectLatestLog
  /\ EmailInv
  /\ WaitGroupInv

-----------------------------------------------------------------------------
(* The request loop *)

\* Classified only rewrites the result, and never to or from "success".
LEMMA ClassifiedFields ==
  ASSUME NEW n \in Observations
  PROVE  LET r == Classified(n)
         IN  /\ r \in Observations
             /\ r.attempt = n.attempt
             /\ r.requests = n.requests
             /\ r.code = n.code
             /\ r.result = "success" <=> n.result = "success"
             /\ r.result = "timeout" => n.reqErr = "timeout" \/ n.result = "timeout"
  BY DEF Observations, Classified, ReqErrs, Results, Codes

\* One attempt of a request loop that has only failed so far keeps the
\* observation well formed, whether the loop goes on or ends.
LEMMA AttemptStep ==
  ASSUME NEW o \in Observations, NEW out \in Outcomes, StillTrying(o)
  PROVE  LET n    == AttemptSeen(o, out)
             done == LoopBreaks(out) \/ n.attempt = Attempts
             r    == IF done THEN Classified(n) ELSE n
         IN  /\ r \in Observations
             /\ ~done => StillTrying(r)
             /\ Consistent(r)
<1> USE DEF StillTrying, Consistent
<1> DEFINE n    == AttemptSeen(o, out)
           done == LoopBreaks(out) \/ n.attempt = Attempts
           r    == IF done THEN Classified(n) ELSE n
<1> HIDE DEF n, done, r
<1> SUFFICES /\ r \in Observations
             /\ ~done => StillTrying(r)
             /\ Consistent(r)
  BY DEF n, done, r
<1>1. /\ o.attempt \in 0..Attempts
      /\ o.attempt + 1 \in 0..Attempts
      /\ o.requests + 1 \in 0..Attempts
  BY BoundsAssumption DEF Observations
<1>2. /\ n \in Observations
      /\ out = "ok" <=> n.result = "success"
      /\ out = "ok" <=> n.code = "ok"
      /\ n.result # "timeout"
      /\ out = "ok" => n.requests = n.attempt + 1
      /\ out = "bodyCut" => n.requests = n.attempt + 1 /\ n.reqErr = "none"
      /\ out \notin {"ok", "bodyCut"} => n.requests = n.attempt
  <2>1. CASE out = "badRequest"
    <3>1. n = o
      BY <2>1 DEF n, AttemptSeen, ReqErrs
    <3>2. QED
      BY <2>1, <3>1
  <2>2. CASE out \in ReqErrs
    <3>1. n = [o EXCEPT !.attempt = @ + 1, !.requests = @ + 1,
                        !.code = "none", !.reqErr = out]
      BY <2>2 DEF n, AttemptSeen, ReqErrs
    <3>2. /\ n \in Observations
          /\ n.attempt = o.attempt + 1
          /\ n.requests = o.requests + 1
          /\ n.code = "none"
          /\ n.result = o.result
      BY <2>2, <3>1, <1>1 DEF Observations, ReqErrs, Codes
    <3>3. QED
      BY <2>2, <3>2 DEF ReqErrs
  <2>3. CASE out = "bodyCut"
    <3>1. n = [o EXCEPT !.requests = @ + 1, !.code = "none", !.reqErr = "none"]
      BY <2>3 DEF n, AttemptSeen, ReqErrs
    <3>2. /\ n \in Observations
          /\ n.attempt = o.attempt
          /\ n.requests = o.requests + 1
          /\ n.code = "none" /\ n.reqErr = "none"
          /\ n.result = o.result
      BY <3>1, <1>1 DEF Observations, ReqErrs, Codes
    <3>3. QED
      BY <2>3, <3>2
  <2>4. CASE out = "bad"
    <3>1. n = [o EXCEPT !.attempt = @ + 1, !.requests = @ + 1, !.code = "bad",
                        !.result = "error", !.reqErr = "none"]
      BY <2>4 DEF n, AttemptSeen, ReqErrs
    <3>2. /\ n \in Observations
          /\ n.attempt = o.attempt + 1
          /\ n.requests = o.requests + 1
          /\ n.code = "bad"
          /\ n.result = "error"
      BY <3>1, <1>1 DEF Observations, ReqErrs, Codes, Results
    <3>3. QED
      BY <2>4, <3>2
  <2>5. CASE out = "ok"
    <3>1. n = [o EXCEPT !.requests = @ + 1, !.code = "ok",
                        !.result = "success", !.reqErr = "none"]
      BY <2>5 DEF n, AttemptSeen, ReqErrs
    <3>2. /\ n \in Observations
          /\ n.attempt = o.attempt
          /\ n.requests = o.requests + 1
          /\ n.code = "ok"
          /\ n.result = "success"
      BY <3>1, <1>1 DEF Observations, ReqErrs, Codes, Results
    <3>3. QED
      BY <2>5, <3>2
  <2>6. QED
    BY <2>1, <2>2, <2>3, <2>4, <2>5, NamesAssumption DEF ReqErrs
<1>3. n.attempt \in 0..Attempts /\ n.requests \in 0..Attempts
  BY <1>2 DEF Observations
<1>4. CASE done
  <2>1. r = Classified(n)
    BY <1>4 DEF r
  <2>2. /\ r \in Observations
        /\ r.attempt = n.attempt
        /\ r.requests = n.requests
        /\ r.code = n.code
        /\ r.result = "success" <=> n.result = "success"
        /\ r.result = "timeout" => n.reqErr = "timeout"
    BY <2>1, <1>2, ClassifiedFields
  <2>3. QED
    BY <2>2, <1>2, <1>3, <1>4 DEF attemptsMade
<1>5. CASE ~done
  <2>1. r = n /\ ~LoopBreaks(out) /\ n.attempt # Attempts
    BY <1>5 DEF r, done
  <2>2. QED
    BY <1>2, <1>3, <1>5, <2>1, BoundsAssumption DEF LoopBreaks, attemptsMade
<1>6. QED
  BY <1>4, <1>5

\* What Attempt does to the variables of goroutine w.
LEMMA AttemptObserved ==
  ASSUME TypeOK, ObservedInv, NEW w \in Workers, Attempt(w)
  PROVE  \E o \in Observations, step \in {"request", "write"} :
           /\ obs' = [obs EXCEPT ![w] = o]
           /\ pc' = [pc EXCEPT ![w] = step]
           /\ step = "request" => StillTrying(o)
           /\ Consistent(o)
<1>1. PICK out \in PossibleOutcomes :
        LET o    == AttemptSeen(obs[w], out)
            done == LoopBreaks(out) \/ o.attempt = Attempts
        IN  /\ obs' = [obs EXCEPT ![w] = IF done THEN Classified(o) ELSE o]
            /\ pc' = [pc EXCEPT ![w] = IF done THEN "write" ELSE "request"]
  BY DEF Attempt
<1> DEFINE n    == AttemptSeen(obs[w], out)
           done == LoopBreaks(out) \/ n.attempt = Attempts
           r    == IF done THEN Classified(n) ELSE n
           step == IF done THEN "write" ELSE "request"
<1>2. out \in Outcomes /\ obs[w] \in Observations /\ StillTrying(obs[w])
  BY DEF TypeOK, ObservedInv, PossibleOutcomes, Attempt
<1>3. r \in Observations /\ (~done => StillTrying(r)) /\ Consistent(r)
  BY <1>2, AttemptStep
<1>4. obs' = [obs EXCEPT ![w] = r] /\ pc' = [pc EXCEPT ![w] = step]
  BY <1>1
<1>5. step \in {"request", "write"} /\ (step = "request" => ~done)
  OBVIOUS
<1> HIDE DEF r, step
<1>6. QED
  BY <1>3, <1>4, <1>5

-----------------------------------------------------------------------------
(* Each part of IInv is preserved *)

\* The values a goroutine's variables start with.
LEMMA InitialValues ==
  /\ NothingSeen \in Observations
  /\ StillTrying(NothingSeen)
  /\ Consistent(NothingSeen)
  /\ NoPrev \in PrevStates
  /\ "free" \in Steps
<1>1. NothingSeen \in Observations
  BY BoundsAssumption DEF NothingSeen, Observations, Codes, Results, ReqErrs
<1>2. StillTrying(NothingSeen) /\ Consistent(NothingSeen)
  BY BoundsAssumption DEF NothingSeen, StillTrying, Consistent, attemptsMade
<1>3. NoPrev \in PrevStates
  BY BoundsAssumption DEF NoPrev, PrevStates
<1>4. QED
  BY <1>1, <1>2, <1>3 DEF Steps

\* Type correctness is preserved by every step.
LEMMA TypeStep == IInv /\ [Next]_vars => TypeOK'
<1> SUFFICES ASSUME IInv, [Next]_vars PROVE TypeOK'
  OBVIOUS
<1>0. TypeOK
  BY DEF IInv
<1> USE <1>0 DEF TypeOK, dbVars, loopVars, checkVars
<1>1. CASE ListMonitors
  <2>1. todo' \subseteq Targets
    BY <1>1, BoundsAssumption DEF ListMonitors, Targets, Gens
  <2>2. QED
    BY <1>1, <2>1 DEF ListMonitors
<1>2. ASSUME NEW t \in todo, ReadLastChecked(t) PROVE TypeOK'
  BY <1>2 DEF ReadLastChecked
<1>3. CASE SkipCheckedOut
  BY <1>3 DEF SkipCheckedOut
<1>4. ASSUME NEW w \in Workers, StartCheck(w) PROVE TypeOK'
  <2>1. PICK t \in due : /\ checkout' = checkout \cup {t.id}
                         /\ check' = [check EXCEPT ![w] = t]
    BY <1>4 DEF StartCheck
  <2>2. t \in Targets /\ t.id \in Ids
    BY DEF Targets
  <2>3. pc' = [pc EXCEPT ![w] = "request"] /\ "request" \in Steps
    BY <1>4 DEF StartCheck, Steps
  <2>4. QED
    BY <1>4, <2>1, <2>2, <2>3 DEF StartCheck
<1>5. CASE EndSweep
  BY <1>5 DEF EndSweep
<1>6. ASSUME NEW w \in Workers, Attempt(w) PROVE TypeOK'
  <2>1. PICK o \in Observations, step \in {"request", "write"} :
           obs' = [obs EXCEPT ![w] = o] /\ pc' = [pc EXCEPT ![w] = step]
    BY <1>6, AttemptObserved DEF IInv
  <2>2. QED
    BY <1>6, <2>1 DEF Attempt, Steps
<1>7. ASSUME NEW w \in Workers, WriteLog(w) PROVE TypeOK'
  <2>1. check[w].id \in Ids /\ check[w].gen \in Gens
    BY <1>7 DEF IInv, HasTarget, WriteLog, Targets
  <2>2. LogRow(w) \in LogRows
    <3>1. obs[w] \in Observations /\ Consistent(obs[w])
      BY DEF IInv, ObservedInv
    <3>2. attemptsMade(obs[w]) \in 0..Attempts
      BY <3>1 DEF Consistent, Observations, attemptsMade
    <3>3. QED
      BY <2>1, <3>1, <3>2 DEF LogRow, LogRows, Observations
  <2>3. getMonitorLogLastChecked(check[w].id) \in PrevStates
    <3>1. CASE last[check[w].id] = NoRow
      BY <3>1, InitialValues DEF getMonitorLogLastChecked
    <3>2. CASE last[check[w].id] # NoRow
      <4>1. last[check[w].id] \in LogRows
        BY <2>1, <3>2
      <4>2. last[check[w].id].gen \in 0..MaxGen
        BY <4>1, BoundsAssumption DEF LogRows, Gens
      <4>3. QED
        BY <3>2, <4>2 DEF getMonitorLogLastChecked, PrevStates
    <3>3. QED
      BY <3>1, <3>2
  <2>4. QED
    BY <1>7, <2>1, <2>2, <2>3 DEF WriteLog, Steps
<1>8. ASSUME NEW w \in Workers, GiveUp(w) PROVE TypeOK'
  BY <1>8 DEF GiveUp, Steps
<1>9. ASSUME NEW w \in Workers, ReadChannels(w) PROVE TypeOK'
  <2>1. check[w].id \in Ids
    BY <1>9 DEF IInv, HasTarget, ReadChannels, Targets
  <2>2. QED
    BY <1>9, <2>1 DEF ReadChannels, Steps
<1>10. ASSUME NEW w \in Workers, ReadEmails(w) PROVE TypeOK'
  BY <1>10 DEF ReadEmails, Steps
<1>11. ASSUME NEW w \in Workers, SendEmail(w) PROVE TypeOK'
  <2>1. emails' = emails
        \/ \E d \in Deliveries : emails' = [emails EXCEPT ![w] = Append(@, d)]
    BY <1>11 DEF SendEmail, Deliveries
  <2>2. emails' \in [Workers -> Seq(Deliveries)]
    <3>1. emails \in [Workers -> Seq(Deliveries)]
      OBVIOUS
    <3>2. ASSUME NEW d \in Deliveries
          PROVE  [emails EXCEPT ![w] = Append(@, d)] \in [Workers -> Seq(Deliveries)]
      <4>1. Append(emails[w], d) \in Seq(Deliveries)
        BY ONLY <3>1
      <4>2. QED
        BY ONLY <3>1, <4>1
    <3>3. QED
      BY ONLY <2>1, <3>1, <3>2
  <2>3. sends' \in [Workers -> SUBSET Channels]
    BY <1>11 DEF SendEmail
  <2>4. skipEmail' \in [Workers -> BOOLEAN]
    <3>1. \/ skipEmail' = skipEmail
          \/ skipEmail' = [skipEmail EXCEPT ![w] = TRUE]
      BY <1>11 DEF SendEmail
    <3>2. skipEmail \in [Workers -> BOOLEAN]
      OBVIOUS
    <3>3. QED
      BY ONLY <3>1, <3>2, Zenon
  <2>5. QED
    BY <1>11, <2>2, <2>3, <2>4 DEF SendEmail
<1>12. ASSUME NEW w \in Workers, SendSlackOrSkip(w) PROVE TypeOK'
  BY <1>12 DEF SendSlackOrSkip
<1>13. ASSUME NEW w \in Workers, AlertsDone(w) PROVE TypeOK'
  BY <1>13 DEF AlertsDone, Steps
<1>14. ASSUME NEW w \in Workers, Release(w) PROVE TypeOK'
  BY <1>14 DEF Release, Steps
<1>15. ASSUME NEW w \in Workers, StampLastChecked(w) PROVE TypeOK'
  <2>1. check[w].id \in Ids
    BY <1>15 DEF IInv, HasTarget, StampLastChecked, Targets
  <2>2. QED
    BY <1>15, <2>1, InitialValues DEF StampLastChecked
<1>16. ASSUME NEW id \in Ids, NEW chans \in SUBSET Channels, NEW mail \in BOOLEAN,
              CreateMonitor(id, chans, mail)
       PROVE  TypeOK'
  BY <1>16, BoundsAssumption DEF CreateMonitor
<1>17. ASSUME NEW id \in Ids, NEW chans \in SUBSET Channels, NEW mail \in BOOLEAN,
              EditMonitor(id, chans, mail)
       PROVE  TypeOK'
  BY <1>17 DEF EditMonitor
<1>18. ASSUME NEW id \in Ids, DeleteMonitor(id) PROVE TypeOK'
  BY <1>18, BoundsAssumption DEF DeleteMonitor
<1>19. ASSUME NEW batch \in SUBSET Ids, PruneMonitorLogs(batch) PROVE TypeOK'
  BY <1>19 DEF PruneMonitorLogs
<1>20. ASSUME NEW id \in Ids, FrequencyElapses(id) PROVE TypeOK'
  BY <1>20 DEF FrequencyElapses
<1>21. CASE ExitLoop
  BY <1>21 DEF ExitLoop
<1>22. CASE CancelAppCtx
  BY <1>22 DEF CancelAppCtx
<1>23. CASE CloseDB
  BY <1>23 DEF CloseDB
<1>24. CASE Restart
  BY <1>24, InitialValues, BoundsAssumption DEF Restart
<1>25. CASE UNCHANGED vars
  BY <1>25 DEF vars
<1>26. QED
  BY <1>1, <1>2, <1>3, <1>4, <1>5, <1>6, <1>7, <1>8, <1>9, <1>10, <1>11, <1>12,
     <1>13, <1>14, <1>15, <1>16, <1>17, <1>18, <1>19, <1>20, <1>21, <1>22, <1>23,
     <1>24, <1>25
  DEF Next, Pass, CheckStep, Operator, Process

\* A goroutine that moves from one active step to the next.
StaysActive(w) ==
  /\ pc[w] \in Steps \ {"free", "stamp"}
  /\ \E step \in Steps \ {"free", "stamp"} : pc' = [pc EXCEPT ![w] = step]
  /\ UNCHANGED <<check, checkout>>

\* Every step of a check but the last two keeps the goroutine active.
LEMMA CheckStepCases ==
  ASSUME TypeOK, ObservedInv, NEW w \in Workers, CheckStep(w)
  PROVE  StaysActive(w) \/ Release(w) \/ StampLastChecked(w)
<1>1. CASE Attempt(w)
  <2>1. \E step \in {"request", "write"} : pc' = [pc EXCEPT ![w] = step]
    BY <1>1, AttemptObserved
  <2>2. QED
    BY <1>1, <2>1 DEF Attempt, StaysActive, Steps
<1>2. CASE WriteLog(w)
  BY <1>2 DEF WriteLog, StaysActive, Steps
<1>3. CASE GiveUp(w)
  BY <1>3 DEF GiveUp, StaysActive, Steps
<1>4. CASE ReadChannels(w)
  BY <1>4 DEF ReadChannels, StaysActive, Steps
<1>5. CASE ReadEmails(w)
  BY <1>5 DEF ReadEmails, StaysActive, Steps
<1>6. CASE SendEmail(w) \/ SendSlackOrSkip(w)
  <2>1. pc[w] = "alert" /\ UNCHANGED <<pc, check, checkout>>
    BY <1>6 DEF SendEmail, SendSlackOrSkip
  <2>2. pc' = [pc EXCEPT ![w] = "alert"]
    BY <2>1 DEF TypeOK
  <2>3. QED
    BY <2>1, <2>2 DEF StaysActive, Steps
<1>7. CASE AlertsDone(w)
  BY <1>7 DEF AlertsDone, StaysActive, Steps
<1>8. QED
  BY <1>1, <1>2, <1>3, <1>4, <1>5, <1>6, <1>7 DEF CheckStep

\* The steps of the loop, the operators and the process that no check takes.
LEMMA OtherStepCases ==
  ASSUME [Next]_vars, \A w \in Workers : ~CheckStep(w)
  PROVE  \/ \E w \in Workers : StartCheck(w)
         \/ Restart
         \/ UNCHANGED <<checkout, checkVars>>
  BY DEF Next, Pass, Operator, Process, vars, checkVars, ListMonitors,
         ReadLastChecked, SkipCheckedOut, EndSweep, CreateMonitor, EditMonitor,
         DeleteMonitor, PruneMonitorLogs, FrequencyElapses, ExitLoop,
         CancelAppCtx, CloseDB

\* The part of IInv about the checkout map.
CheckoutInv ==
  /\ HasTarget
  /\ ActiveCheckedOut
  /\ NoOverlap
  /\ NoLeakedCheckout

\* The checkout map holds exactly the ids of the active goroutines, each once.
LEMMA CheckoutStep == IInv /\ [Next]_vars => CheckoutInv'
<1> SUFFICES ASSUME IInv, [Next]_vars PROVE CheckoutInv'
  OBVIOUS
<1>0. TypeOK /\ ObservedInv /\ CheckoutInv
  BY DEF IInv, CheckoutInv
<1> USE <1>0 DEF CheckoutInv, HasTarget, ActiveCheckedOut, NoOverlap,
                 NoLeakedCheckout, Active
<1>1. ASSUME NEW w \in Workers, StartCheck(w) PROVE CheckoutInv'
  <2>1. PICK t \in due : /\ t.id \notin checkout
                         /\ checkout' = checkout \cup {t.id}
                         /\ check' = [check EXCEPT ![w] = t]
    BY <1>1 DEF StartCheck
  <2>2. /\ pc[w] = "free"
        /\ pc' = [pc EXCEPT ![w] = "request"]
        /\ t \in Targets
    BY <1>1 DEF StartCheck, TypeOK
  <2>3. QED
    BY <2>1, <2>2 DEF TypeOK
<1>2. ASSUME NEW w \in Workers, StaysActive(w) PROVE CheckoutInv'
  BY <1>2 DEF StaysActive, TypeOK, Steps
<1>3. ASSUME NEW w \in Workers, Release(w) PROVE CheckoutInv'
  BY <1>3 DEF Release, TypeOK
<1>4. ASSUME NEW w \in Workers, StampLastChecked(w) PROVE CheckoutInv'
  BY <1>4 DEF StampLastChecked, TypeOK
<1>5. CASE Restart
  BY <1>5 DEF Restart
<1>6. CASE UNCHANGED <<checkout, checkVars>>
  BY <1>6 DEF checkVars
<1>7. QED
  BY <1>1, <1>2, <1>3, <1>4, <1>5, <1>6, CheckStepCases, OtherStepCases

\* A goroutine leaves its request loop with an observation whose code and
\* result agree, and nothing changes it afterwards.
LEMMA ObservedStep == IInv /\ [Next]_vars => ObservedInv'
<1> SUFFICES ASSUME IInv, [Next]_vars PROVE ObservedInv'
  OBVIOUS
<1>0. TypeOK /\ ObservedInv
  BY DEF IInv
<1>1. ASSUME NEW w \in Workers, CheckStep(w) PROVE ObservedInv'
  <2>1. CASE Attempt(w)
    <3>1. PICK o \in Observations, step \in {"request", "write"} :
            /\ obs' = [obs EXCEPT ![w] = o]
            /\ pc' = [pc EXCEPT ![w] = step]
            /\ step = "request" => StillTrying(o)
            /\ Consistent(o)
      BY <1>0, <2>1, AttemptObserved
    <3>2. QED
      BY <1>0, <3>1 DEF ObservedInv, TypeOK
  <2>2. CASE StampLastChecked(w)
    BY <1>0, <2>2, InitialValues DEF StampLastChecked, ObservedInv, TypeOK
  <2>3. CASE ~Attempt(w) /\ ~StampLastChecked(w)
    <3>1. /\ UNCHANGED obs
          /\ \/ UNCHANGED pc
             \/ \E step \in Steps \ {"free", "request"} : pc' = [pc EXCEPT ![w] = step]
      BY <1>1, <2>3
      DEF CheckStep, WriteLog, GiveUp, ReadChannels, ReadEmails, SendEmail,
          SendSlackOrSkip, AlertsDone, Release, Steps
    <3>2. QED
      BY <1>0, <3>1 DEF ObservedInv, TypeOK
  <2>4. QED
    BY <2>1, <2>2, <2>3
<1>2. ASSUME NEW w \in Workers, StartCheck(w) PROVE ObservedInv'
  BY <1>0, <1>2 DEF StartCheck, ObservedInv, TypeOK
<1>3. CASE Restart
  BY <1>3, InitialValues DEF Restart, ObservedInv
<1>4. CASE UNCHANGED <<checkout, checkVars>>
  BY <1>0, <1>4 DEF checkVars, ObservedInv
<1>5. QED
  BY <1>1, <1>2, <1>3, <1>4, OtherStepCases

\* What a step can do to the stored rows: nothing, remove some, or replace one
\* by the row of the goroutine that writes.
LEMMA RowCases ==
  ASSUME TypeOK, [Next]_vars, NEW id \in Ids
  PROVE  \/ last'[id] = last[id]
         \/ last'[id] = NoRow
         \/ \E w \in Workers : /\ WriteLog(w)
                               /\ check[w].id = id
                               /\ last'[id] = LogRow(w)
<1>1. ASSUME NEW w \in Workers, WriteLog(w)
      PROVE  \/ last'[id] = last[id]
             \/ check[w].id = id /\ last'[id] = LogRow(w)
  BY <1>1 DEF WriteLog, TypeOK
<1>2. ASSUME NEW w \in Workers, CheckStep(w), ~WriteLog(w)
      PROVE  UNCHANGED last
  BY <1>2 DEF CheckStep, Attempt, GiveUp, ReadChannels, ReadEmails, SendEmail,
              SendSlackOrSkip, AlertsDone, Release, StampLastChecked, dbVars
<1>3. CASE Pass \/ UNCHANGED vars
  BY <1>3 DEF Pass, vars, ListMonitors, ReadLastChecked, SkipCheckedOut,
              StartCheck, EndSweep, dbVars
<1>4. CASE Operator
  BY <1>4 DEF Operator, CreateMonitor, EditMonitor, DeleteMonitor, TypeOK
<1>5. CASE Process
  BY <1>5 DEF Process, ExitLoop, PruneMonitorLogs, FrequencyElapses,
              CancelAppCtx, CloseDB, Restart, dbVars
<1>6. QED
  BY <1>1, <1>2, <1>3, <1>4, <1>5 DEF Next

\* A stored row has the agreement its goroutine's observation had.
LEMMA RowsStep ==
  IInv /\ [Next]_vars => HappyIffSuccess' /\ AttemptsNeverOvercount'
<1> SUFFICES ASSUME IInv, [Next]_vars, NEW id \in Ids, last'[id] # NoRow
             PROVE  /\ last'[id].code = "ok" <=> last'[id].result = "success"
                    /\ last'[id].attempts <= last'[id].requests
                    /\ last'[id].result \in {"success", "timeout"} =>
                         last'[id].attempts = last'[id].requests
  BY DEF HappyIffSuccess, AttemptsNeverOvercount
<1>1. CASE last'[id] = last[id]
  BY <1>1 DEF IInv, HappyIffSuccess, AttemptsNeverOvercount
<1>2. ASSUME NEW w \in Workers, last'[id] = LogRow(w)
      PROVE  /\ last'[id].code = "ok" <=> last'[id].result = "success"
             /\ last'[id].attempts <= last'[id].requests
             /\ last'[id].result \in {"success", "timeout"} =>
                  last'[id].attempts = last'[id].requests
  BY <1>2 DEF IInv, ObservedInv, Consistent, LogRow
<1>3. QED
  BY <1>1, <1>2, RowCases DEF IInv

\* While w decides and alerts, only w could have written the row of its
\* monitor: any other writer would be active on the same id.
LEMMA AlertsStep == IInv /\ [Next]_vars => AlertsReflectLatestLog'
<1> SUFFICES ASSUME IInv, [Next]_vars, NEW w \in Workers, Alerting(w)'
             PROVE  (last[check[w].id] \in {NoRow, LogRow(w)})'
  BY DEF AlertsReflectLatestLog
<1>0. TypeOK /\ ObservedInv
  BY DEF IInv
<1>1. CASE Alerting(w) /\ UNCHANGED <<check[w], obs[w]>>
  <2>1. Active(w) /\ check[w].id \in Ids
    BY <1>1 DEF IInv, HasTarget, Alerting, Active, Targets
  <2>2. LogRow(w)' = LogRow(w)
    BY <1>1 DEF LogRow
  <2>3. last[check[w].id] \in {NoRow, LogRow(w)}
    BY <1>1 DEF IInv, AlertsReflectLatestLog
  <2>4. ASSUME NEW v \in Workers, WriteLog(v), check[v].id = check[w].id
        PROVE  v = w /\ pc[v] = "write"
    BY <2>1, <2>4 DEF IInv, NoOverlap, WriteLog, Active
  <2>5. QED
    BY <1>0, <1>1, <2>1, <2>2, <2>3, <2>4, RowCases DEF Alerting
<1>2. CASE WriteLog(w)
  BY <1>0, <1>2 DEF WriteLog, LogRow, TypeOK, IInv, HasTarget, Targets
<1>3. ASSUME ~WriteLog(w) PROVE Alerting(w) /\ UNCHANGED <<check[w], obs[w]>>
  <2>1. CASE CheckStep(w)
    BY <1>0, <1>3, <2>1, AttemptObserved
    DEF CheckStep, GiveUp, ReadChannels, ReadEmails, SendEmail, SendSlackOrSkip,
        AlertsDone, Release, StampLastChecked, Alerting, TypeOK
  <2>2. ASSUME NEW v \in Workers, v # w, CheckStep(v)
        PROVE  Alerting(w) /\ UNCHANGED <<check[w], obs[w]>>
    BY <1>0, <2>2
    DEF CheckStep, Attempt, WriteLog, GiveUp, ReadChannels, ReadEmails, SendEmail,
        SendSlackOrSkip, AlertsDone, Release, StampLastChecked, Alerting, TypeOK
  <2>3. ASSUME NEW v \in Workers, StartCheck(v)
        PROVE  Alerting(w) /\ UNCHANGED <<check[w], obs[w]>>
    BY <1>0, <2>3 DEF StartCheck, Alerting, TypeOK
  <2>4. CASE Restart
    BY <2>4 DEF Restart, Alerting
  <2>5. CASE UNCHANGED <<checkout, checkVars>>
    BY <2>5 DEF checkVars, Alerting
  <2>6. QED
    BY <2>1, <2>2, <2>3, <2>4, <2>5, OtherStepCases
<1>4. QED
  BY <1>1, <1>2, <1>3

\* An email is appended only while skipEmail is not set, so all before it were
\* unheard.
LEMMA MailAppended ==
  ASSUME NEW mails \in Seq(Deliveries), NEW d \in Deliveries,
         NEW skip \in BOOLEAN, OnlyLastHeard(mails, FALSE), d = "heard" => skip
  PROVE  OnlyLastHeard(Append(mails, d), skip)
<1>1. Len(Append(mails, d)) = Len(mails) + 1 /\ Len(mails) \in Nat
  OBVIOUS
<1>2. ASSUME NEW i \in 1..(Len(mails) + 1), Append(mails, d)[i] = "heard"
      PROVE  i = Len(mails) + 1 /\ skip
  <2>1. CASE i \in 1..Len(mails)
    BY <1>2, <2>1 DEF OnlyLastHeard
  <2>2. CASE i = Len(mails) + 1
    BY <1>2, <2>2
  <2>3. QED
    BY <1>1, <2>1, <2>2
<1>3. QED
  BY <1>1, <1>2 DEF OnlyLastHeard

\* Only SendEmail delivers, and an answer it hears sets skipEmail.
LEMMA EmailStep == IInv /\ [Next]_vars => EmailInv'
<1> SUFFICES ASSUME IInv, [Next]_vars PROVE EmailInv'
  OBVIOUS
<1>0. TypeOK /\ EmailInv
  BY DEF IInv
<1>z. \A skip : OnlyLastHeard(<<>>, skip)
  BY DEF OnlyLastHeard
<1>1. ASSUME NEW w \in Workers, CheckStep(w) PROVE EmailInv'
  <2>0. \A v \in Workers \ {w} :
          skipEmail'[v] = skipEmail[v] /\ emails'[v] = emails[v] /\ pc'[v] = pc[v]
    <3>1. /\ UNCHANGED pc \/ \E step : pc' = [pc EXCEPT ![w] = step]
          /\ UNCHANGED emails \/ \E m : emails' = [emails EXCEPT ![w] = m]
          /\ UNCHANGED skipEmail \/ \E b : skipEmail' = [skipEmail EXCEPT ![w] = b]
      BY <1>1
      DEF CheckStep, Attempt, WriteLog, GiveUp, ReadChannels, ReadEmails, SendEmail,
          SendSlackOrSkip, AlertsDone, Release, StampLastChecked
    <3>2. QED
      BY <1>0, <3>1, Zenon DEF TypeOK
  <2> SUFFICES /\ OnlyLastHeard(emails'[w], skipEmail'[w])
               /\ emails'[w] # <<>> => pc'[w] \in {"alert", "release", "stamp"}
    <3>1. ASSUME NEW v \in Workers \ {w}
          PROVE  /\ OnlyLastHeard(emails'[v], skipEmail'[v])
                 /\ emails'[v] # <<>> => pc'[v] \in {"alert", "release", "stamp"}
      <4>1. /\ OnlyLastHeard(emails[v], skipEmail[v])
            /\ emails[v] # <<>> => pc[v] \in {"alert", "release", "stamp"}
        BY <1>0 DEF EmailInv
      <4>2. skipEmail'[v] = skipEmail[v] /\ emails'[v] = emails[v] /\ pc'[v] = pc[v]
        BY <2>0
      <4>3. OnlyLastHeard(emails'[v], skipEmail'[v])
        BY <4>1, <4>2, Zenon
      <4>4. QED
        BY <4>1, <4>2, <4>3
    <3>2. QED
      BY <3>1 DEF EmailInv, OnlyLastHeard
  <2>p. OnlyLastHeard(emails[w], skipEmail[w])
    BY <1>0 DEF EmailInv
  <2>q. emails[w] # <<>> => pc[w] \in {"alert", "release", "stamp"}
    BY <1>0 DEF EmailInv
  <2>1. CASE SendEmail(w)
    <3>1. pc'[w] = "alert" /\ ~skipEmail[w]
      BY <2>1 DEF SendEmail
    <3>2. OnlyLastHeard(emails[w], FALSE)
      BY <2>p, <3>1 DEF OnlyLastHeard
    <3>3. emails[w] \in Seq(Deliveries) /\ skipEmail'[w] \in BOOLEAN
      <4>1. \/ skipEmail' = skipEmail
            \/ skipEmail' = [skipEmail EXCEPT ![w] = TRUE]
        BY <2>1 DEF SendEmail
      <4>2. skipEmail \in [Workers -> BOOLEAN]
        BY <1>0 DEF TypeOK
      <4>3. skipEmail'[w] \in BOOLEAN
        BY ONLY <4>1, <4>2, Zenon
      <4>4. emails[w] \in Seq(Deliveries)
        BY <1>0 DEF TypeOK
      <4>5. QED
        BY <4>3, <4>4
    <3>4. CASE UNCHANGED <<skipEmail, emails>>
      BY <2>p, <3>1, <3>4
    <3>5. CASE /\ skipEmail' = [skipEmail EXCEPT ![w] = TRUE]
               /\ emails' = [emails EXCEPT ![w] = Append(@, "heard")]
      <4>1. skipEmail'[w] = TRUE
        BY <1>0, <3>5, Zenon DEF TypeOK
      <4>2. emails'[w] = Append(emails[w], "heard")
        BY <1>0, <3>5 DEF TypeOK
      <4>3. OnlyLastHeard(Append(emails[w], "heard"), TRUE)
        BY <3>2, <3>3, MailAppended DEF Deliveries
      <4>4. QED
        BY <3>1, <4>1, <4>2, <4>3
    <3>6. CASE /\ emails' = [emails EXCEPT ![w] = Append(@, "unheard")]
               /\ UNCHANGED skipEmail
      <4>1. skipEmail'[w] = skipEmail[w]
        BY <3>6, Zenon
      <4>2. emails'[w] = Append(emails[w], "unheard")
        BY <1>0, <3>6 DEF TypeOK
      <4>3. skipEmail[w] \in BOOLEAN
        BY <3>3, <4>1, Zenon
      <4>4. OnlyLastHeard(Append(emails[w], "unheard"), skipEmail[w])
        BY <3>2, <3>3, <4>3, MailAppended DEF Deliveries
      <4>5. OnlyLastHeard(emails'[w], skipEmail'[w])
        BY <4>1, <4>2, <4>4, Zenon
      <4>6. QED
        BY <3>1, <4>5, Zenon
    <3>7. QED
      BY <2>1, <3>4, <3>5, <3>6 DEF SendEmail
  <2>2. CASE StampLastChecked(w)
    <3>1. emails'[w] = <<>>
      BY <1>0, <2>2 DEF StampLastChecked, TypeOK
    <3>2. QED
      BY <1>z, <3>1
  <2>3. CASE Attempt(w) \/ WriteLog(w) \/ ReadChannels(w) \/ GiveUp(w) \/ ReadEmails(w)
    <3>1. pc[w] \notin {"alert", "release", "stamp"} /\ UNCHANGED emails
      BY <2>3 DEF Attempt, WriteLog, ReadChannels, GiveUp, ReadEmails
    <3>2. emails'[w] = <<>>
      BY <2>q, <3>1
    <3>3. QED
      BY <1>z, <3>2
  <2>4. CASE SendSlackOrSkip(w) \/ AlertsDone(w) \/ Release(w)
    <3>1. /\ UNCHANGED <<emails, skipEmail>>
          /\ pc'[w] \in {"alert", "release", "stamp"}
      BY <1>0, <2>4 DEF SendSlackOrSkip, AlertsDone, Release, TypeOK
    <3>2. OnlyLastHeard(emails'[w], skipEmail'[w])
      BY <2>p, <3>1, Zenon
    <3>3. QED
      BY <3>1, <3>2
  <2>5. QED
    BY <1>1, <2>1, <2>2, <2>3, <2>4 DEF CheckStep
<1>2. ASSUME NEW w \in Workers, StartCheck(w) PROVE EmailInv'
  BY <1>0, <1>2 DEF StartCheck, EmailInv, TypeOK
<1>3. CASE Restart
  <2>1. \A w \in Workers : emails'[w] = <<>>
    BY <1>3 DEF Restart
  <2>2. \A w \in Workers : OnlyLastHeard(emails'[w], skipEmail'[w])
    BY <1>z, <2>1, Zenon
  <2>3. QED
    BY <2>1, <2>2 DEF EmailInv
<1>4. CASE UNCHANGED <<checkout, checkVars>>
  BY <1>0, <1>4 DEF checkVars, EmailInv
<1>5. QED
  BY <1>1, <1>2, <1>3, <1>4, OtherStepCases

\* Goroutines enter the WaitGroup before they run and leave it as their last
\* step, and an empty WaitGroup stays empty: nobody is left to start a check.
LEMMA WaitGroupStep == IInv /\ [Next]_vars => WaitGroupInv'
<1> SUFFICES ASSUME IInv, [Next]_vars PROVE WaitGroupInv'
  OBVIOUS
<1>0. TypeOK /\ ObservedInv /\ WaitGroupInv
  BY DEF IInv
<1> USE <1>0, NamesAssumption DEF WaitGroupInv
<1>1. ASSUME NEW w \in Workers, CheckStep(w) PROVE WaitGroupInv'
  <2>1. pc[w] # "free" /\ phase # "closed" /\ w # "loop"
    BY <1>1 DEF CheckStep, Attempt, WriteLog, GiveUp, ReadChannels, ReadEmails,
                SendEmail, SendSlackOrSkip, AlertsDone, Release, StampLastChecked
  <2>2. UNCHANGED <<phase, loop>>
    BY <1>1 DEF CheckStep, Attempt, WriteLog, GiveUp, ReadChannels, ReadEmails,
                SendEmail, SendSlackOrSkip, AlertsDone, Release, StampLastChecked,
                loopVars
  <2>3. CASE StampLastChecked(w)
    BY <2>1, <2>2, <2>3 DEF StampLastChecked, TypeOK
  <2>4. CASE ~StampLastChecked(w)
    <3>1. UNCHANGED wg
      BY <1>1, <2>4 DEF CheckStep, Attempt, WriteLog, GiveUp, ReadChannels,
                ReadEmails, SendEmail, SendSlackOrSkip, AlertsDone, Release
    <3>2. \A v \in Workers \ {w} : pc'[v] = pc[v]
      BY <1>1, <2>4 DEF CheckStep, Attempt, WriteLog, GiveUp, ReadChannels,
                ReadEmails, SendEmail, SendSlackOrSkip, AlertsDone, Release, TypeOK
    <3>3. QED
      BY <2>1, <2>2, <3>1, <3>2
  <2>5. QED
    BY <2>3, <2>4
<1>2. ASSUME NEW w \in Workers, StartCheck(w) PROVE WaitGroupInv'
  BY <1>2 DEF StartCheck, TypeOK
<1>3. CASE Restart
  BY <1>3 DEF Restart
<1>4. CASE UNCHANGED <<checkout, checkVars>>
  <2>1. CASE ExitLoop
    BY <1>4, <2>1 DEF ExitLoop, checkVars
  <2>2. CASE ListMonitors
    BY <1>4, <2>2 DEF ListMonitors, checkVars
  <2>3. CASE CloseDB \/ CancelAppCtx
    BY <1>4, <2>3 DEF CloseDB, CancelAppCtx, checkVars, loopVars
  <2>4. CASE \E id \in Ids, chans \in SUBSET Channels, mail \in BOOLEAN :
               CreateMonitor(id, chans, mail) \/ EditMonitor(id, chans, mail)
    BY <1>4, <2>4 DEF CreateMonitor, EditMonitor, checkVars, loopVars
  <2>5. CASE \/ \E id \in Ids : DeleteMonitor(id) \/ FrequencyElapses(id)
             \/ \E batch \in SUBSET Ids : PruneMonitorLogs(batch)
    BY <1>4, <2>5 DEF DeleteMonitor, FrequencyElapses, PruneMonitorLogs,
                      checkVars, loopVars
  <2>6. CASE \/ \E t \in todo : ReadLastChecked(t)
             \/ SkipCheckedOut
             \/ EndSweep
    BY <1>4, <2>6 DEF ReadLastChecked, SkipCheckedOut, EndSweep, checkVars
  <2>7. CASE UNCHANGED vars
    BY <2>7 DEF vars, checkVars, loopVars
  <2>8. QED
    BY <1>1, <1>2, <1>3, <2>1, <2>2, <2>3, <2>4, <2>5, <2>6, <2>7
    DEF Next, Pass, Operator, Process
<1>5. QED
  BY <1>1, <1>2, <1>3, <1>4, OtherStepCases

-----------------------------------------------------------------------------
(* The invariant and what it implies *)

\* A process that has just started on an empty database satisfies IInv.
LEMMA InitIInv == Init => IInv
<1> SUFFICES ASSUME Init PROVE IInv
  OBVIOUS
<1> USE DEF Init
<1>1. TypeOK
  BY InitialValues, BoundsAssumption DEF TypeOK
<1>2. HasTarget /\ ActiveCheckedOut /\ NoOverlap /\ NoLeakedCheckout
  BY DEF HasTarget, ActiveCheckedOut, NoOverlap, NoLeakedCheckout, Active
<1>3. ObservedInv
  BY InitialValues DEF ObservedInv
<1>4. HappyIffSuccess /\ AttemptsNeverOvercount /\ AlertsReflectLatestLog
  BY DEF HappyIffSuccess, AttemptsNeverOvercount, AlertsReflectLatestLog, Alerting
<1>5. EmailInv /\ WaitGroupInv
  <2>1. \A w \in Workers : emails[w] = <<>>
    OBVIOUS
  <2>2. EmailInv
    BY <2>1 DEF EmailInv, OnlyLastHeard
  <2>3. QED
    BY <2>2 DEF WaitGroupInv
<1>6. QED
  BY <1>1, <1>2, <1>3, <1>4, <1>5 DEF IInv

\* IInv is an inductive invariant of the scheduler.
THEOREM Inductive == Spec => []IInv
<1>1. IInv /\ [Next]_vars => IInv'
  BY TypeStep, CheckoutStep, ObservedStep, RowsStep, AlertsStep, EmailStep,
     WaitGroupStep
  DEF IInv, CheckoutInv
<1>2. QED
  BY <1>1, InitIInv, PTL DEF Spec

\* Every variable keeps its type: in particular a check makes at most
\* monitor.Attempts requests and stores a well-formed row.
THEOREM TypeCorrect == Spec => []TypeOK
<1>1. IInv => TypeOK
  BY DEF IInv
<1>2. QED
  BY <1>1, Inductive, PTL

\* checkDueMonitors never has two checks of one monitor id in flight.
THEOREM ChecksNeverOverlap == Spec => []NoOverlap
<1>1. IInv => NoOverlap
  BY DEF IInv
<1>2. QED
  BY <1>1, Inductive, PTL

\* No error return of a check leaves its monitor in the checkout map.
THEOREM CheckoutNeverLeaks == Spec => []NoLeakedCheckout
<1>1. IInv => NoLeakedCheckout
  BY DEF IInv
<1>2. QED
  BY <1>1, Inductive, PTL

\* An alert is only decided and sent while the row it is about is the newest.
THEOREM AlertsAreCurrent == Spec => []AlertsReflectLatestLog
<1>1. IInv => AlertsReflectLatestLog
  BY DEF IInv
<1>2. QED
  BY <1>1, Inductive, PTL

\* response_code and result of a stored row agree on success, and the attempts
\* column never exceeds the requests made.
THEOREM RowsAreConsistent == Spec => []RowsConsistent
<1>1. IInv => RowsConsistent
  BY DEF IInv, RowsConsistent
<1>2. QED
  BY <1>1, Inductive, PTL

\* However many smtp channels, one check emails again only after a delivery
\* whose answer it did not hear.
THEOREM EmailsRepeatOnlyUnheard == Spec => []MailedAgainOnlyUnheard
<1>1. ASSUME IInv PROVE MailedAgainOnlyUnheard
  <2> SUFFICES ASSUME NEW w \in Workers, NEW i \in 1..Len(emails[w]),
                      NEW j \in 1..Len(emails[w]), i < j
               PROVE  emails[w][i] = "unheard"
    BY DEF MailedAgainOnlyUnheard
  <2>1. emails[w] \in Seq(Deliveries) /\ OnlyLastHeard(emails[w], skipEmail[w])
    BY <1>1 DEF IInv, TypeOK, EmailInv
  <2>2. emails[w][i] \in Deliveries
    BY <2>1
  <2>3. emails[w][i] # "heard"
    BY <2>1 DEF OnlyLastHeard
  <2>4. QED
    BY <2>2, <2>3 DEF Deliveries
<1>2. QED
  BY <1>1, Inductive, PTL

\* The databases are closed only after the loop and every check have ended.
THEOREM ClosesDrained == Spec => []DrainedBeforeClose
<1>1. IInv => DrainedBeforeClose
  BY DEF IInv, WaitGroupInv, DrainedBeforeClose
<1>2. QED
  BY <1>1, Inductive, PTL

=============================================================================
