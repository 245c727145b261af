--------------------------- MODULE DeviceLoginProofs ---------------------------
(***************************************************************************)
(* The Twitch login: every step of it is a step of the command queue, and  *)
(* with the queue's invariant, that it never loops device codes and that a *)
(* reconnection that succeeds was made with a new session - for any number *)
(* of requests, codes and mishaps.                                         *)
(*                                                                         *)
(* NeverLoops and ReconnectReplacesSession hold because of what the worker *)
(* has not heard yet.  The inductive invariant LInv says it: what a child  *)
(* may have said by how far it has come (Speaks), that nobody is linked    *)
(* without a session (Linked), which job carries out which command         *)
(* (JobFits), that the session of a reconnection in progress is either     *)
(* gone or newer than its beginning (Renewed), and that a refusal that has *)
(* not stopped the account yet is still to be heard (Refusal).             *)
(***************************************************************************)
EXTENDS DeviceLogin, CommandQueueProofs

Says(event) == \E k \in 1..Len(told) : told[k] = event

\* What each step of the worker's job is for, and that a command in hand is being
\* carried out, or failed with its child.
JobFits ==
    /\ job.step = "idle" => job = NoJob
    /\ job.step = "visit" => job.op = "visit"
    /\ job.step = "settle" => job.op = "start"
    /\ job.step \in {"stop", "kill"} =>
          job.op \in {"stop", "restart", "authenticate", "halt", "fail", "renew"}
    /\ job.step = "remove" => job.op = "authenticate"
    /\ job.step = "spawn" => job.op \in {"start", "restart", "authenticate", "renew"}
    /\ job.step = "done" => job.op \in {"stop", "halt", "fail"}
    /\ job.step \in {"remove", "spawn", "done"} => ~handle.on
    /\ job.step # "idle" /\ hand # 0 => checked /\ job.op \in {"fail", cmds[hand].action}

\* How much a child has said, by how far it has come.
Speaks ==
    /\ child.at \in {"none", "new"} => told = <<>>
    /\ child.at \in {"polling", "granted"} => Len(told) <= 1
    /\ child.at = "mining" => Len(told) <= 2
    /\ child.at \in {"new", "polling", "granted"} => ~handle.authed /\ ~Says("authenticated")
    /\ Says("device_code") => child.code # 0
    /\ (handle.confirmed => handle.authed) /\ (handle.authed => handle.on)
    /\ (job.was.is = "pending") <=> (job.was.code # 0)

\* Every session but an imported one was granted for a code, and each code at most once.
Granted == sessions <= codes + 1 /\ (child.at = "polling" => sessions <= codes)

\* Nobody is linked, or says so, without a session.
Linked ==
    child.at \in {"granted", "mining"} \/ handle.authed \/ Says("authenticated") => cookie # 0

\* The session of a reconnection in progress is gone, or was granted since it began.
Renewed ==
    /\ \A i \in attached :
          cmds[i].action = "authenticate" /\ IsActive(i) => cookie = 0 \/ cookie > since
    /\ job.op = "authenticate" /\ job.step = "spawn" => cookie = 0

\* The child was refused, and the worker has still to hear of it.
Unheard ==
    /\ handle.on /\ ~handle.authed
    /\ child.at \in {"ending", "dead"}
    /\ Says("authentication_failed") /\ ~Says("authenticated")

\* While nobody asks, the worker does not replace a child it may yet hear from.
Refusal ==
    /\ desired[A] = "running" /\ wish = "refused" => Unheard
    /\ desired[A] = "running" /\ wish # "asked" /\ handle.on =>
          \/ job.step = "idle"
          \/ job.step = "visit" /\ job.view = "running"
          \/ job.op = "renew" /\ handle.confirmed

\* What the worker holds was taken from the queue, and what it has not checked yet is
\* its alone.
Claims ==
    /\ \A i \in attached : cmds[i].status # "queued"
    /\ hand # 0 => cmds[hand].status # "queued"
    /\ hand # 0 /\ ~checked => cmds[hand].status = "leased" /\ hand \notin attached

LInv ==
    /\ IInv /\ Claims
    /\ LoginTypeOK /\ JobFits /\ Speaks /\ Granted /\ Linked
    /\ Renewed /\ Refusal

-----------------------------------------------------------------------------
(* The farm of this module is one account. *)
LEMMA OneAccount == A \in Accounts /\ Accounts = {A}
  BY LoginAssumption DEF A

(* What the worker may do with the command that waits for the child. *)
LEMMA SettledIsStep ==
    ASSUME IInv, NEW status_ \in Terminal, Settled(status_)
    PROVE  [Next]_vars
  <1>1. attached \subseteq Ids
    BY DEF IInv, HeldAreRows
  <1> QED  BY <1>1 DEF Settled, Next, Work

(* And with the command it has in hand. *)
LEMMA ReturnsIsStep ==
    ASSUME NEW result \in {"succeeded", "failed"}, Returns(result)
    PROVE  [Next]_vars
  BY DEF Returns, Next, Work

(* And with an account whose login has failed. *)
LEMMA GiveUpIsStep ==
    ASSUME GiveUp
    PROVE  [Next]_vars
  BY OneAccount DEF GiveUp, Next

(* Every step of the login is one of the queue's, or leaves the commands alone. *)
LEMMA QueueStep ==
    ASSUME IInv, [LoginNext]_allVars
    PROVE  [Next]_vars
  <1>1. attached \subseteq Ids
    BY DEF IInv, HeldAreRows
  <1>2. ASSUME NEW action \in {"start", "stop", "restart"}, Request(action)
        PROVE  Next
    <2>1. Enqueue(A, action) /\ action \in Actions
      BY <1>2 DEF Request, Actions
    <2> QED  BY <2>1, OneAccount DEF Next
  <1>3. CASE RequestTvAuthentication
    <2>1. Enqueue(A, "authenticate") /\ "authenticate" \in Actions
      BY <1>3 DEF RequestTvAuthentication, Actions
    <2> QED  BY <2>1, OneAccount DEF Next
  <1>4. CASE Activated \/ Rejected \/ LosesSession \/ Child \/ ChildCrashes \/ Elapses \/ ConfigRestart
    BY <1>4 DEF Activated, Rejected, LosesSession, Child, ChildCrashes, Elapses, ConfigRestart,
                Reports, ShowCode, LoginFails, ChildEnds, ChildDies, Acts, Own
  <1>5. CASE LeaseNext
    BY <1>5 DEF LeaseNext, Next, Work, Queued
  <1>6. CASE Drop \/ Accept
    BY <1>6 DEF Drop, Accept, Next, Work
  <1>7. CASE Adopt
    BY <1>7, ReturnsIsStep DEF Adopt, Next, Work
  <1>8. CASE SettleDead \/ StopEnds \/ Confirm \/ HealthExit
    BY <1>8, SettledIsStep DEF SettleDead, StopEnds, Confirm, HealthExit, Terminal
  <1>9. CASE Prepare \/ RemoveSession \/ Visit \/ HealthHalts \/ HealthQuiet \/ ReconcileStops \/ OwnLaunch
    BY <1>9 DEF Prepare, RemoveSession, Visit, HealthHalts, HealthQuiet, ReconcileStops,
                OwnLaunch, Own
  <1>10. CASE SnapshotFails \/ LaunchFails \/ StopReturns
    BY <1>10, ReturnsIsStep DEF SnapshotFails, LaunchFails, StopReturns
  <1>11. CASE StopBegins
    BY <1>1, <1>11, SettledIsStep DEF StopBegins, Terminal, Next, Work
  <1>12. CASE Launch
    BY <1>12 DEF Launch, Next, Work
  <1>13. CASE Hear \/ HealthGivesUp
    BY <1>13, GiveUpIsStep DEF Hear, HealthGivesUp
  <1>14. CASE WorkerDies \/ WorkerStarts
    BY <1>14 DEF WorkerDies, WorkerStarts, Next
  <1>15. CASE UNCHANGED allVars
    BY <1>15 DEF allVars
  <1> QED  BY <1>2, <1>3, <1>4, <1>5, <1>6, <1>7, <1>8, <1>9, <1>10, <1>11, <1>12, <1>13,
              <1>14, <1>15 DEF LoginNext, Worker

-----------------------------------------------------------------------------
(* What a step of the queue does to the rows it finds: it never makes another command
   of one, and never revives a finished one. *)
LEMMA RowsStep ==
    ASSUME IInv, [Next]_vars
    PROVE  \A i \in Ids :
              /\ i \in Ids'
              /\ cmds'[i].action = cmds[i].action
              /\ IsActive(i)' => IsActive(i)
              /\ cmds[i].status # "queued" /\ cmds'[i].status = "queued" => ~up
  <1> DEFINE Keeps(i) ==
               /\ i \in Ids'
               /\ cmds'[i].action = cmds[i].action
               /\ IsActive(i)' => IsActive(i)
               /\ cmds[i].status # "queued" /\ cmds'[i].status = "queued" => ~up
  <1> SUFFICES \A i \in Ids : Keeps(i)
    BY Zenon
  <1>0. TypeOK /\ cmds \in Seq(Command) /\ Len(cmds) \in Nat
    BY DEF IInv, TypeOK
  <1>1. ASSUME NEW a \in Accounts, NEW action \in Actions, Enqueue(a, action)
        PROVE  \A i \in Ids : Keeps(i)
    <2> DEFINE kept == Mark(cmds, Obsolete(a, action), "cancelled")
               row == [acct |-> a, action |-> action, status |-> "queued"]
    <2>1. row \in Command /\ "cancelled" \in Statuses
      BY DEF Command, Statuses, Terminal
    <2>2. /\ kept \in Seq(Command) /\ Len(kept) = Len(cmds)
          /\ \A i \in Ids : /\ kept[i].action = cmds[i].action
                            /\ kept[i].status \in {cmds[i].status, "cancelled"}
      BY <1>0, <2>1, MarkFacts DEF Ids
    <2>3. /\ Len(Append(kept, row)) = Len(cmds) + 1
          /\ \A i \in Ids : Append(kept, row)[i] = kept[i]
      BY <2>1, <2>2, AppendFacts DEF Ids
    <2>4. cmds' \in {cmds, kept, Append(kept, row)}
      BY <1>1 DEF Enqueue, NewTable
    <2> HIDE DEF kept, row
    <2> QED  BY <1>0, <2>2, <2>3, <2>4 DEF Ids, IsActive
  <1>2. ASSUME NEW i \in Ids, Lease(i)
        PROVE  \A j \in Ids : Keeps(j)
    BY <1>0, <1>2, MarkFacts DEF Lease, Queued, Statuses, Ids, IsActive
  <1>3. ASSUME NEW S, NEW status_ \in Terminal, Finish(S, status_)
        PROVE  \A i \in Ids : Keeps(i)
    BY <1>0, <1>3, FinishFacts DEF Terminal, Ids, IsActive
  <1>4. CASE Startup
    BY <1>0, <1>4, MarkFacts DEF Startup, Leased, Statuses, Ids, IsActive
  <1>5. CASE cmds' = cmds
    BY <1>5 DEF Ids, IsActive
  <1> QED  BY <1>1, <1>2, <1>3, <1>4, <1>5
           DEF Next, vars, Work, Refuse, Begin, Complete, Attach, Resolve, FinishEarly,
               FailAuthentication, Crash, Terminal

(* What the worker holds stays taken. *)
LEMMA ClaimsStep ==
    ASSUME IInv, Claims, [Next]_vars
    PROVE  Claims'
  <1>0. /\ TypeOK /\ HeldAreRows /\ attached \subseteq Ids
        /\ ~up => hand = 0 /\ attached = {}
        /\ cmds \in Seq(Command) /\ Len(cmds) \in Nat
        /\ hand # 0 => hand \in Ids
    BY DEF IInv, TypeOK, HeldAreRows, DownHoldsNothing, Ids
  <1>1. \A i \in Ids : cmds[i].status # "queued" /\ cmds'[i].status = "queued" => ~up
    BY RowsStep
  <1>2. ASSUME UNCHANGED <<up, hand, checked, attached>>,
               \A i \in Ids : cmds[i].status = "leased" => cmds'[i] = cmds[i]
        PROVE  Claims'
    BY <1>0, <1>1, <1>2 DEF Claims
  <1>3. ASSUME NEW a \in Accounts, NEW action \in Actions, Enqueue(a, action)
        PROVE  Claims'
    <2> DEFINE kept == Mark(cmds, Obsolete(a, action), "cancelled")
               row == [acct |-> a, action |-> action, status |-> "queued"]
    <2>1. row \in Command /\ "cancelled" \in Statuses
      BY DEF Command, Statuses, Terminal
    <2>2. /\ kept \in Seq(Command) /\ Len(kept) = Len(cmds)
          /\ \A i \in Ids : cmds[i].status # "queued" => kept[i] = cmds[i]
      BY <1>0, <2>1, MarkFacts DEF Ids, Obsolete, Queued
    <2>3. \A i \in Ids : Append(kept, row)[i] = kept[i]
      BY <2>1, <2>2, AppendFacts DEF Ids
    <2>4. /\ cmds' \in {cmds, kept, Append(kept, row)}
          /\ UNCHANGED <<up, hand, checked, attached>>
      BY <1>3 DEF Enqueue, NewTable
    <2> HIDE DEF kept, row
    <2> QED  BY <1>2, <2>2, <2>3, <2>4
  <1>4. ASSUME NEW i \in Ids, Lease(i)
        PROVE  Claims'
    <2>1. \A j \in Ids : cmds'[j].status = IF j = i THEN "leased" ELSE cmds[j].status
      BY <1>0, <1>4, MarkFacts DEF Lease, Statuses, Ids
    <2>2. i \in Queued /\ hand' = i /\ attached' = attached
      BY <1>4 DEF Lease
    <2> QED  BY <1>0, <2>1, <2>2 DEF Claims, Queued
  <1>5. ASSUME up, checked, attached' \subseteq attached \cup ({hand} \ {0}), hand' = 0
        PROVE  Claims'
    BY <1>0, <1>1, <1>5 DEF Claims
  <1>6. CASE Refuse
    <2>1. up /\ hand' = 0 /\ attached' = attached
      BY <1>6 DEF Refuse
    <2> QED  BY <1>0, <1>1, <2>1 DEF Claims
  <1>7. CASE Begin
    BY <1>7 DEF Begin, Claims
  <1>8. ASSUME NEW status_ \in {"succeeded", "failed"}, Complete(status_)
        PROVE  Claims'
    BY <1>5, <1>8 DEF Complete
  <1>9. CASE Attach
    <2>1. /\ up /\ checked /\ hand # 0 /\ hand' = 0
          /\ attached' \subseteq attached \cup {hand}
      BY <1>9 DEF Attach
    <2> QED  BY <1>5, <2>1
  <1>10. ASSUME NEW i \in attached \cup {hand}, NEW status_ \in Terminal, Finish({i}, status_),
                i = hand => checked, up, UNCHANGED <<up, hand, checked>>,
                attached' \subseteq attached
         PROVE  Claims'
    <2>1. \A j \in Ids : j # i => cmds'[j] = cmds[j]
      BY <1>0, <1>10, FinishFacts
    <2>2. hand # 0 /\ ~checked => i # hand
      BY <1>10 DEF Claims
    <2> QED  BY <1>0, <1>1, <1>10, <2>1, <2>2 DEF Claims
  <1>11. ASSUME NEW i \in Ids, NEW status_ \in Terminal, Resolve(i, status_)
         PROVE  Claims'
    <2>1. \A j \in Ids : j # i => cmds'[j] = cmds[j]
      BY <1>0, <1>11, FinishFacts DEF Resolve
    <2>2. /\ up /\ i \in attached /\ attached' = attached \ {i}
          /\ UNCHANGED <<up, hand, checked>>
      BY <1>11 DEF Resolve
    <2>3. hand # 0 /\ ~checked => i # hand
      BY <2>2 DEF Claims
    <2> QED  BY <1>0, <1>1, <2>1, <2>2, <2>3 DEF Claims
  <1>12. ASSUME NEW i \in Ids, NEW status_ \in {"cancelled", "failed"}, FinishEarly(i, status_)
         PROVE  Claims'
    <2>1. /\ i \in attached \cup {hand} /\ Finish({i}, status_) /\ up /\ (i = hand => checked)
          /\ UNCHANGED <<up, hand, checked, attached>> /\ status_ \in Terminal
      BY <1>12 DEF FinishEarly, Terminal
    <2> QED  BY <1>10, <2>1
  <1>13. ASSUME NEW a \in Accounts, FailAuthentication(a)
         PROVE  Claims'
    <2>1. /\ cmds' = cmds /\ hand = 0
          /\ \/ hand' = hand /\ attached' = attached
             \/ \E i \in attached : hand' = i /\ checked' = TRUE /\ attached' = attached \ {i}
      BY <1>13 DEF FailAuthentication
    <2> QED  BY <2>1 DEF Claims
  <1>14. CASE Crash
    BY <1>14 DEF Crash, Claims
  <1>15. CASE Startup
    <2>1. hand' = 0 /\ attached' = {}
      BY <1>0, <1>15 DEF Startup
    <2> QED  BY <2>1 DEF Claims
  <1>16. CASE UNCHANGED vars
    BY <1>16 DEF vars, Claims
  <1> QED  BY <1>3, <1>4, <1>6, <1>7, <1>8, <1>9, <1>11, <1>12, <1>13, <1>14, <1>15, <1>16
           DEF Next, Work

-----------------------------------------------------------------------------
Events == {"device_code", "authenticated", "authentication_failed"}

(* What a child has said is kept in its order. *)
LEMMA AppendSays ==
    ASSUME told \in Seq(Events), NEW event \in Events, told' = Append(told, event)
    PROVE  /\ told' \in Seq(Events) /\ Len(told') = Len(told) + 1
           /\ \A e \in Events : Says(e)' <=> (Says(e) \/ e = event)
  <1>1. Len(told) \in Nat
    OBVIOUS
  <1>2. /\ told' \in Seq(Events) /\ Len(told') = Len(told) + 1
        /\ told'[Len(told) + 1] = event
        /\ \A k \in 1..Len(told) : told'[k] = told[k]
    OBVIOUS
  <1> QED  BY <1>1, <1>2 DEF Says

(* What the worker takes from it. *)
LEMMA TailSays ==
    ASSUME told \in Seq(Events), told # <<>>, told' = Tail(told)
    PROVE  /\ told' \in Seq(Events) /\ Len(told') = Len(told) - 1
           /\ Head(told) \in Events /\ Says(Head(told))
           /\ \A e \in Events : /\ Says(e)' => Says(e)
                                /\ Says(e) => Says(e)' \/ e = Head(told)
  <1>1. Len(told) \in Nat /\ Len(told) # 0 /\ Head(told) = told[1]
    OBVIOUS
  <1>2. /\ told' \in Seq(Events) /\ Len(told') = Len(told) - 1
        /\ \A k \in 1..(Len(told) - 1) : told'[k] = told[k + 1]
    OBVIOUS
  <1>3. \A e \in Events : Says(e)' => Says(e)
    BY <1>1, <1>2 DEF Says
  <1>4. \A e \in Events : Says(e) => Says(e)' \/ e = Head(told)
    <2> SUFFICES ASSUME NEW e \in Events, NEW k \in 1..Len(told), told[k] = e, e # told[1]
                 PROVE  Says(e)'
      BY <1>1 DEF Says
    <2>1. k - 1 \in 1..(Len(told) - 1) /\ told'[k - 1] = told[k]
      BY <1>1, <1>2
    <2> QED  BY <2>1, <1>2 DEF Says
  <1>5. told[1] \in Events /\ Says(told[1])
    BY <1>1 DEF Says
  <1> QED  BY <1>1, <1>2, <1>3, <1>4, <1>5

(* Nothing said, and nothing new said. *)
LEMMA SilentSays ==
    /\ told' = <<>> => told' \in Seq(Events) /\ Len(told') = 0 /\ \A e : ~Says(e)'
    /\ told' = told => \A e : Says(e)' <=> Says(e)
    /\ told = <<>> => Len(told) = 0 /\ \A e : ~Says(e)
  <1>1. told' = <<>> => told' \in Seq(Events) /\ Len(told') = 0 /\ \A e : ~Says(e)'
    BY DEF Says
  <1>2. told' = told => \A e : Says(e)' <=> Says(e)
    BY DEF Says
  <1>3. told = <<>> => Len(told) = 0 /\ \A e : ~Says(e)
    BY DEF Says
  <1> QED  BY <1>1, <1>2, <1>3

ChildType == [at : {"none", "new", "polling", "granted", "mining", "ending", "dead"},
              method : Methods, code : Codes]

Honest == LoginTypeOK /\ Speaks /\ Granted /\ Linked

(* A step of the child, which says one thing at most. *)
LEMMA ChildHonest ==
    ASSUME Honest, TypeOK',
           \/ Activated \/ Rejected \/ LosesSession \/ Child \/ ChildCrashes \/ Elapses
    PROVE  Honest'
  <1> USE LoginAssumption
  <1>0. told \in Seq(Events) /\ MaxCodes \in Nat /\ MaxMishaps \in Nat
    BY DEF Honest, LoginTypeOK, Events
  <1>1. ASSUME NEW event \in Events, told' = Append(told, event)
        PROVE  /\ told' \in Seq(Events) /\ Len(told') = Len(told) + 1
               /\ \A e \in Events : Says(e)' <=> (Says(e) \/ e = event)
    BY <1>0, <1>1, AppendSays
  <1>2. CASE Reports
    <2>1. /\ told' \in Seq(Events) /\ Len(told') = Len(told) + 1
          /\ \A e \in Events : Says(e)' <=> (Says(e) \/ e = "authenticated")
      BY <1>1, <1>2 DEF Reports, Becomes, Events
    <2>2. child' \in ChildType /\ child'.at = "mining" /\ child'.code = child.code
      BY <1>2 DEF Reports, Becomes, Honest, LoginTypeOK, ChildType
    <2>3. LoginTypeOK'
      BY <1>0, <1>2, <2>1, <2>2, SilentSays
         DEF Reports, Becomes, Acts, Honest, LoginTypeOK, Speaks, ChildType, twitch, history,
             budget, Events
    <2>4. Speaks' /\ Linked'
      BY <1>0, <1>2, <2>1, <2>2, SilentSays
         DEF Reports, Becomes, Acts, Honest, Speaks, Linked, Events
    <2> QED  BY <1>2, <2>2, <2>3, <2>4 DEF Reports, Honest, Granted, twitch
  <1>3. CASE ShowCode
    <2>1. /\ told' \in Seq(Events) /\ Len(told') = Len(told) + 1
          /\ \A e \in Events : Says(e)' <=> (Says(e) \/ e = "device_code")
      BY <1>1, <1>3 DEF ShowCode, Events
    <2>5. /\ codes' = codes + 1 /\ codes' \in Codes /\ codes' # 0
          /\ sessions' = sessions /\ sessions \in Nat /\ codes \in Nat
      BY <1>0, <1>3 DEF ShowCode, Honest, LoginTypeOK, Codes
    <2>2. child' \in ChildType /\ child'.at = "polling" /\ child'.code = codes'
      BY <1>3, <2>5 DEF ShowCode, Honest, LoginTypeOK, ChildType
    <2>3. LoginTypeOK'
      BY <1>0, <1>3, <2>1, <2>2, <2>5, SilentSays
         DEF ShowCode, Acts, Honest, LoginTypeOK, Speaks, ChildType, history, budget, Events
    <2>4. Speaks' /\ Linked'
      BY <1>0, <1>3, <2>1, <2>2, <2>5, SilentSays
         DEF ShowCode, Acts, Honest, Speaks, Linked, Events
    <2> QED  BY <2>2, <2>3, <2>4, <2>5 DEF Honest, Granted
  <1>4. CASE LoginFails \/ Rejected \/ LosesSession
    <2>1. /\ told' \in Seq(Events) /\ Len(told') = Len(told) + 1
          /\ \A e \in Events : Says(e)' <=> (Says(e) \/ e = "authentication_failed")
      BY <1>1, <1>4 DEF LoginFails, Rejected, LosesSession, Becomes, Events
    <2>2. child' \in ChildType /\ child'.at = "ending" /\ child'.code = child.code
      BY <1>4 DEF LoginFails, Rejected, LosesSession, Becomes, Honest, LoginTypeOK, ChildType
    <2>3. child.at \in {"new", "polling", "mining"} /\ Len(told) <= 2
      BY <1>4, SilentSays DEF LoginFails, Rejected, LosesSession, Honest, Speaks
    <2>4. /\ UNCHANGED <<method, status, cookie, sessions, codes, handle, job, since>>
          /\ wish' \in {wish, "refused"} /\ requests' = requests
          /\ mishaps' = mishaps \/ (mishaps < MaxMishaps /\ mishaps' = mishaps + 1)
      BY <1>4 DEF LoginFails, Rejected, LosesSession, Acts, Mishap, twitch, budget
    <2>5. LoginTypeOK'
      BY <1>0, <2>1, <2>2, <2>3, <2>4 DEF Honest, LoginTypeOK, ChildType, Events
    <2>6. Speaks' /\ Granted' /\ Linked'
      BY <1>0, <2>1, <2>2, <2>3, <2>4 DEF Honest, Speaks, Granted, Linked, Events
    <2> QED  BY <2>5, <2>6 DEF Honest
  <1>5. CASE Activated
    <2>1. /\ child' \in ChildType /\ child'.at = "granted" /\ child'.code = child.code
          /\ child.at = "polling"
      BY <1>5 DEF Activated, Honest, LoginTypeOK, ChildType
    <2>2. /\ told' = told /\ codes' = codes /\ sessions' = sessions + 1 /\ cookie' = sessions'
          /\ UNCHANGED <<method, status, handle, job, since, wish, requests, mishaps>>
      BY <1>5 DEF Activated, Acts, budget
    <2>3. sessions \in Nat /\ sessions <= codes /\ codes \in 0..MaxCodes
      BY <1>0, <2>1 DEF Honest, LoginTypeOK, Granted, Codes
    <2>4. LoginTypeOK'
      BY <1>0, <2>1, <2>2, <2>3 DEF Honest, LoginTypeOK, ChildType, Codes
    <2>5. Speaks' /\ Granted' /\ Linked'
      BY <1>0, <2>1, <2>2, <2>3, SilentSays DEF Honest, Speaks, Granted, Linked, Events
    <2> QED  BY <2>4, <2>5 DEF Honest
  <1>6. CASE ChildEnds \/ ChildCrashes
    <2>1. /\ child' \in ChildType /\ child'.at = "dead" /\ child'.code = child.code
          /\ child.at \notin {"none", "dead"} /\ Len(told) <= 3
      BY <1>6 DEF ChildEnds, ChildCrashes, ChildDies, Honest, LoginTypeOK, ChildType
    <2>2. /\ UNCHANGED <<method, status, cookie, sessions, codes, told, handle, job, since,
                         wish, requests>>
          /\ mishaps' = mishaps \/ (mishaps < MaxMishaps /\ mishaps' = mishaps + 1)
      BY <1>6 DEF ChildEnds, ChildCrashes, ChildDies, Acts, Mishap, twitch, budget
    <2>3. LoginTypeOK'
      BY <1>0, <2>1, <2>2 DEF Honest, LoginTypeOK, ChildType
    <2>4. Speaks' /\ Granted' /\ Linked'
      BY <1>0, <2>1, <2>2, SilentSays DEF Honest, Speaks, Granted, Linked, Events
    <2> QED  BY <2>3, <2>4 DEF Honest
  <1>7. CASE Elapses
    <2>1. /\ handle' \in [on : BOOLEAN, authed : BOOLEAN, confirmed : BOOLEAN, late : BOOLEAN]
          /\ handle'.on = handle.on /\ handle'.authed = handle.authed
          /\ handle'.confirmed = handle.confirmed
      BY <1>7 DEF Elapses, Honest, LoginTypeOK
    <2>2. UNCHANGED <<method, status, cookie, sessions, codes, child, told, job, since, wish,
                      requests, mishaps>>
      BY <1>7 DEF Elapses, twitch, history, budget
    <2>3. LoginTypeOK'
      BY <2>1, <2>2 DEF Honest, LoginTypeOK
    <2>4. Speaks' /\ Granted' /\ Linked'
      BY <2>1, <2>2, SilentSays DEF Honest, Speaks, Granted, Linked, Events
    <2> QED  BY <2>3, <2>4 DEF Honest
  <1> QED  BY <1>2, <1>3, <1>4, <1>5, <1>6, <1>7 DEF Child

JobType == [op : Actions \cup {"idle", "visit", "halt", "fail", "renew"}, step : Steps,
            was : LoginStatus, view : Desires, method : Methods]

GoodJob(j) == j \in JobType /\ ((j.was.is = "pending") <=> (j.was.code # 0))

GoodStatus(s) == s \in LoginStatus /\ ((s.is = "pending") <=> (s.code # 0))

(* The jobs that the worker gives itself. *)
LEMMA GoodJobs ==
    /\ GoodJob(NoJob)
    /\ \A op \in Actions \cup {"visit", "halt", "fail", "renew"}, step \in Steps : GoodJob(NewJob(op, step))
    /\ Honest => GoodJob(job) /\ GoodStatus(status)
  <1>1. Shown("unlinked") \in LoginStatus /\ Shown("unlinked").is = "unlinked" /\ Shown("unlinked").code = 0
    BY LoginAssumption DEF Shown, LoginStatus, LoginStatuses, Codes
  <1>2. GoodJob(NoJob)
    BY <1>1 DEF GoodJob, NoJob, JobType, Steps, Desires, Methods
  <1>3. \A op \in Actions \cup {"visit", "halt", "fail", "renew"}, step \in Steps : GoodJob(NewJob(op, step))
    BY <1>2 DEF GoodJob, NewJob, JobType
  <1>4. Honest => GoodJob(job) /\ GoodStatus(status)
    BY DEF Honest, LoginTypeOK, Speaks, GoodJob, GoodStatus, JobType
  <1> QED  BY <1>2, <1>3, <1>4

(* A step that leaves the child alone, or is done with it. *)
LEMMA KeepsHonest ==
    ASSUME Honest, TypeOK',
           \/ UNCHANGED <<child, told, handle, cookie>>
           \/ Gone /\ cookie' = cookie
           \/ child.at = "none" /\ UNCHANGED <<child, told, handle>> /\ cookie' = 0,
           UNCHANGED <<sessions, codes>>,
           method' \in Methods, GoodStatus(status'), GoodJob(job'),
           since' \in {since, 0, sessions}, wish' \in {wish, "asked", "none"},
           requests' \in 0..MaxRequests, mishaps' \in 0..MaxMishaps
    PROVE  Honest'
  <1>0. sessions \in Nat /\ 0 \in 0..sessions /\ sessions \in 0..sessions /\ 0 \in Codes
    BY LoginAssumption DEF Honest, LoginTypeOK, Codes
  <1>1. CASE UNCHANGED <<child, told, handle, cookie>>
    <2>1. LoginTypeOK'
      BY <1>0, <1>1 DEF Honest, LoginTypeOK, GoodStatus, GoodJob, JobType
    <2>2. Speaks' /\ Granted' /\ Linked'
      BY <1>1, SilentSays DEF Honest, Speaks, Granted, Linked, GoodJob, Events
    <2> QED  BY <2>1, <2>2 DEF Honest
  <1>2. CASE Gone /\ cookie' = cookie
    <2>1. /\ child' = NoChild /\ handle' = NoHandle /\ told' = <<>>
          /\ NoChild \in ChildType /\ NoChild.at = "none" /\ NoChild.code = 0
          /\ NoHandle \in [on : BOOLEAN, authed : BOOLEAN, confirmed : BOOLEAN, late : BOOLEAN]
          /\ ~NoHandle.on /\ ~NoHandle.authed /\ ~NoHandle.confirmed
      BY <1>0, <1>2 DEF Gone, NoChild, NoHandle, ChildType, Methods
    <2>2. told' \in Seq(Events) /\ Len(told') = 0 /\ \A e : ~Says(e)'
      BY <2>1, SilentSays
    <2>3. cookie' \in 0..sessions
      BY <1>2 DEF Honest, LoginTypeOK
    <2>4. LoginTypeOK'
      BY <1>0, <2>1, <2>2, <2>3
         DEF Honest, LoginTypeOK, ChildType, GoodStatus, GoodJob, JobType, Events
    <2>5. Speaks' /\ Granted' /\ Linked'
      BY <2>1, <2>2 DEF Honest, Speaks, Granted, Linked, GoodJob
    <2> QED  BY <2>4, <2>5 DEF Honest
  <1>3. CASE child.at = "none" /\ UNCHANGED <<child, told, handle>> /\ cookie' = 0
    <2>1. told = <<>> /\ ~handle.authed /\ (\A e : ~Says(e)')
      BY <1>3, SilentSays DEF Honest, LoginTypeOK, Speaks
    <2>2. LoginTypeOK'
      BY <1>0, <1>3 DEF Honest, LoginTypeOK, GoodStatus, GoodJob, JobType
    <2>3. Speaks' /\ Granted' /\ Linked'
      BY <1>3, <2>1 DEF Honest, Speaks, Granted, Linked, GoodJob
    <2> QED  BY <2>2, <2>3 DEF Honest
  <1> QED  BY <1>1, <1>2, <1>3

(* A request of the control room, and the end of a worker. *)
LEMMA AroundHonest ==
    ASSUME Honest, TypeOK',
           \/ \E action \in {"start", "stop", "restart"} : Request(action)
           \/ RequestTvAuthentication \/ WorkerDies \/ WorkerStarts
    PROVE  Honest'
  <1>0. /\ GoodJob(job) /\ GoodJob(NoJob) /\ GoodStatus(status) /\ GoodStatus(Shown("unlinked"))
        /\ method \in Methods /\ "twitch_tv" \in Methods
        /\ requests \in 0..MaxRequests /\ mishaps \in 0..MaxMishaps
    <2>1. GoodStatus(Shown("unlinked"))
      BY LoginAssumption DEF GoodStatus, Shown, LoginStatus, LoginStatuses, Codes
    <2> QED  BY <2>1, GoodJobs DEF Honest, LoginTypeOK, Methods
  <1>1. Mishap => mishaps' \in 0..MaxMishaps /\ requests' = requests
    BY <1>0, LoginAssumption DEF Mishap
  <1>2. Asks => requests' \in 0..MaxRequests /\ mishaps' = mishaps
    BY <1>0, LoginAssumption DEF Asks
  <1>3. CASE \E action \in {"start", "stop", "restart"} : Request(action)
    <2>1. /\ Asks /\ UNCHANGED <<method, status, cookie, sessions, codes, child, told, handle, job, since>>
          /\ wish' \in {wish, "asked"}
      BY <1>3 DEF Request, twitch
    <2> QED  BY <1>0, <1>2, <2>1, KeepsHonest
  <1>4. CASE RequestTvAuthentication
    <2>1. /\ Asks /\ UNCHANGED <<cookie, sessions, codes, child, told, handle, job, since>>
          /\ wish' = "asked" /\ method' = "twitch_tv" /\ status' = Shown("unlinked")
      BY <1>4 DEF RequestTvAuthentication, twitch
    <2> QED  BY <1>0, <1>2, <2>1, KeepsHonest
  <1>5. CASE WorkerDies
    <2>1. /\ Mishap /\ Gone /\ job' = NoJob /\ wish' = "none"
          /\ UNCHANGED <<method, status, cookie, sessions, codes, since>>
      BY <1>5 DEF WorkerDies, Forgets, twitch
    <2> QED  BY <1>0, <1>1, <2>1, KeepsHonest
  <1>6. CASE WorkerStarts
    <2>1. /\ Gone /\ job' = NoJob /\ wish' = "none" /\ status' \in {Shown("unlinked"), status}
          /\ UNCHANGED <<method, cookie, sessions, codes, since, requests, mishaps>>
      BY <1>6 DEF WorkerStarts, Forgets, twitch, budget
    <2> QED  BY <1>0, <2>1, KeepsHonest
  <1> QED  BY <1>3, <1>4, <1>5, <1>6

(* The worker's steps that change neither the child nor what is known of it. *)
LEMMA QuietHonest ==
    ASSUME IInv, JobFits, Honest, TypeOK',
           \/ LeaseNext \/ Drop \/ Accept \/ Adopt \/ Prepare \/ SnapshotFails \/ StopReturns
           \/ LaunchFails \/ Visit \/ HealthHalts \/ HealthQuiet
           \/ ReconcileStops \/ OwnLaunch \/ ConfigRestart
    PROVE  Honest'
  <1>0. /\ GoodJob(job) /\ GoodJob(NoJob) /\ GoodStatus(status)
        /\ method \in Methods /\ requests \in 0..MaxRequests /\ mishaps \in 0..MaxMishaps
        /\ hand # 0 => cmds[hand].action \in Actions
        /\ desired[A] \in Desires
    <2>1. hand # 0 => cmds[hand] \in Command
      BY DEF IInv, TypeOK, HeldAreRows
    <2>2. desired[A] \in Desires
      BY OneAccount DEF IInv, TypeOK
    <2> QED  BY <2>1, <2>2, GoodJobs DEF Honest, LoginTypeOK, Command
  <1>1. Mishap => mishaps' \in 0..MaxMishaps /\ requests' = requests
    BY <1>0, LoginAssumption DEF Mishap
  <1>2. GoodJob(Snapshot("spawn"))
    BY <1>0 DEF GoodJob, JobType, Snapshot, Steps
  <1>3. \A op \in {"halt", "start", "renew"}, step \in {"stop", "settle"} : GoodJob(NewJob(op, step))
    BY GoodJobs DEF Actions, Steps
  <1>4. GoodJob([NewJob("visit", "visit") EXCEPT !.view = desired[A]])
    <2>1. GoodJob(NewJob("visit", "visit"))
      BY GoodJobs DEF Steps
    <2> QED  BY <1>0, <2>1 DEF GoodJob, JobType
  <1>5. CASE LeaseNext \/ Drop
    <2>1. UNCHANGED <<method, status, cookie, sessions, codes, child, told, handle, job, since, wish,
                      requests, mishaps>>
      BY <1>5 DEF LeaseNext, Drop, loginVars, twitch, history, budget
    <2> QED  BY <1>0, <2>1, KeepsHonest
  <1>6. CASE Accept
    <2>1. hand # 0 /\ cmds[hand].action \in Actions
      BY <1>0, <1>6 DEF Accept, Begin
    <2>2. GoodJob(job')
      BY <2>1, <1>6, GoodJobs DEF Accept, Steps
    <2>3. /\ UNCHANGED <<method, status, cookie, sessions, codes, child, told, handle, requests, mishaps>>
          /\ since' \in {since, sessions} /\ wish' \in {wish, "asked"}
      BY <1>6 DEF Accept, twitch, budget
    <2> QED  BY <1>0, <2>2, <2>3, KeepsHonest
  <1>7. CASE Adopt \/ StopReturns \/ SnapshotFails \/ LaunchFails \/ HealthQuiet
    <2>1. /\ UNCHANGED <<method, status, cookie, sessions, codes, child, told, handle, since, wish>>
          /\ job' = NoJob /\ (Mishap \/ UNCHANGED <<requests, mishaps>>)
      BY <1>7 DEF Adopt, StopReturns, SnapshotFails, LaunchFails, HealthQuiet, Returns, twitch,
                  history, budget
    <2> QED  BY <1>0, <1>1, <2>1, KeepsHonest
  <1>8. CASE Prepare \/ Visit \/ HealthHalts \/ ReconcileStops \/ OwnLaunch \/ ConfigRestart
    <2>1. /\ UNCHANGED <<method, status, cookie, sessions, codes, child, told, handle, since, wish,
                         requests, mishaps>>
          /\ GoodJob(job')
      BY <1>2, <1>3, <1>4, <1>8
         DEF Prepare, Visit, HealthHalts, ReconcileStops, OwnLaunch, ConfigRestart, Own, twitch,
             history, budget
    <2> QED  BY <1>0, <2>1, KeepsHonest
  <1> QED  BY <1>5, <1>6, <1>7, <1>8

(* The steps by which the worker ends a child, or hears of its end. *)
LEMMA EndHonest ==
    ASSUME IInv, JobFits, Honest, TypeOK',
           SettleDead \/ StopBegins \/ StopEnds \/ RemoveSession \/ HealthExit \/ HealthGivesUp
    PROVE  Honest'
  <1>0. /\ GoodJob(job) /\ GoodJob(NoJob) /\ GoodStatus(status)
        /\ GoodStatus(Shown("unlinked")) /\ GoodStatus(Shown("reauth_required"))
        /\ method \in Methods /\ requests \in 0..MaxRequests /\ mishaps \in 0..MaxMishaps
    <2>1. GoodStatus(Shown("unlinked")) /\ GoodStatus(Shown("reauth_required"))
      BY LoginAssumption DEF GoodStatus, Shown, LoginStatus, LoginStatuses, Codes
    <2> QED  BY <2>1, GoodJobs DEF Honest, LoginTypeOK
  <1>1. CASE SettleDead \/ HealthExit
    <2>1. /\ Gone /\ job' \in {job, NoJob}
          /\ UNCHANGED <<method, status, cookie, sessions, codes, since, wish, requests, mishaps>>
      BY <1>1 DEF SettleDead, HealthExit, twitch, history, budget
    <2> QED  BY <1>0, <2>1, KeepsHonest
  <1>2. CASE StopBegins
    <2>1. GoodJob(job')
      BY <1>0, <1>2 DEF StopBegins, Snapshot, GoodJob, GoodStatus, JobType, Steps
    <2>2. /\ Gone \/ UNCHANGED <<child, told, handle>>
          /\ UNCHANGED <<method, status, cookie, sessions, codes, since, wish, requests, mishaps>>
      BY <1>2 DEF StopBegins, twitch, history, budget
    <2> QED  BY <1>0, <2>1, <2>2, KeepsHonest
  <1>3. CASE StopEnds
    <2>1. /\ Gone
          /\ UNCHANGED <<method, cookie, sessions, codes, since, wish, requests, mishaps>>
          /\ status' = IF job.was.is = "pending" THEN Shown("unlinked") ELSE job.was
      BY <1>3 DEF StopEnds, twitch, history, budget
    <2>2. GoodStatus(status')
      BY <1>0, <2>1 DEF GoodStatus, GoodJob, JobType
    <2>3. GoodJob(job')
      <3>1. PICK step \in {"spawn", "remove", "done"} :
              job' = [job EXCEPT !.was = Shown("unlinked"), !.step = step]
        BY <1>3 DEF StopEnds
      <3> QED  BY <1>0, <3>1 DEF GoodStatus, GoodJob, JobType, Steps
    <2> QED  BY <1>0, <2>1, <2>2, <2>3, KeepsHonest
  <1>4. CASE RemoveSession
    <2>1. GoodJob(job')
      BY <1>0, <1>4 DEF RemoveSession, GoodJob, JobType, Steps
    <2>2. child.at = "none"
      BY <1>4 DEF RemoveSession, JobFits, Honest, LoginTypeOK
    <2>3. /\ cookie' = 0 /\ status' = Shown("unlinked")
          /\ UNCHANGED <<method, sessions, codes, child, told, handle, since, wish, requests, mishaps>>
      BY <1>4 DEF RemoveSession, twitch, history, budget
    <2> QED  BY <1>0, <2>1, <2>2, <2>3, KeepsHonest
  <1>5. CASE HealthGivesUp
    <2>1. GoodJob(job')
      BY <1>5, GoodJobs DEF HealthGivesUp, GiveUp, Steps
    <2>2. /\ status' = Shown("reauth_required")
          /\ UNCHANGED <<method, cookie, sessions, codes, child, told, handle, since, wish, requests,
                         mishaps>>
      BY <1>5 DEF HealthGivesUp, GiveUp, twitch, history, budget
    <2> QED  BY <1>0, <2>1, <2>2, KeepsHonest
  <1> QED  BY <1>1, <1>2, <1>3, <1>4, <1>5

(* The worker launches a child, hears one, and confirms one. *)
LEMMA MeetsHonest ==
    ASSUME IInv, JobFits, Honest, TypeOK', Launch \/ Hear \/ Confirm
    PROVE  Honest'
  <1> DEFINE HandleType == [on : BOOLEAN, authed : BOOLEAN, confirmed : BOOLEAN, late : BOOLEAN]
  <1>0. /\ GoodJob(job) /\ GoodJob(NoJob) /\ job.method \in Methods /\ handle \in HandleType
        /\ told \in Seq(Events) /\ Len(told) <= 3 /\ 0 \in Codes
    BY GoodJobs, LoginAssumption DEF Honest, LoginTypeOK, Events, Codes
  <1>1. CASE Launch
    <2>1. /\ child' \in ChildType /\ child'.at = "new" /\ child'.code = 0
      BY <1>0, <1>1 DEF Launch, NoChild, ChildType, Methods
    <2>2. /\ handle' \in HandleType /\ handle'.on /\ ~handle'.authed /\ ~handle'.confirmed
      BY <1>1 DEF Launch, NoHandle
    <2>3. told' \in Seq(Events) /\ Len(told') = 0 /\ (\A e : ~Says(e)') /\ told' = <<>>
      BY <1>1, SilentSays DEF Launch
    <2>4. /\ UNCHANGED <<method, status, cookie, sessions, codes, since, requests, mishaps>>
          /\ job' = NoJob /\ wish' = "none"
      BY <1>1 DEF Launch, twitch, budget
    <2>5. LoginTypeOK'
      BY <1>0, <2>1, <2>2, <2>3, <2>4
         DEF Honest, LoginTypeOK, ChildType, Events, GoodJob, JobType
    <2>6. Speaks' /\ Granted' /\ Linked'
      BY <1>0, <2>1, <2>2, <2>3, <2>4 DEF Honest, Speaks, Granted, Linked, GoodJob
    <2> QED  BY <2>5, <2>6 DEF Honest
  <1>2. CASE Hear
    <2>1. /\ told' = Tail(told) /\ told # <<>>
          /\ UNCHANGED <<method, cookie, sessions, codes, child, since, wish, requests, mishaps>>
      BY <1>2 DEF Hear, Consume, twitch, history, budget
    <2>2. /\ told' \in Seq(Events) /\ Len(told') = Len(told) - 1
          /\ Head(told) \in Events /\ Says(Head(told))
          /\ \A e \in Events : /\ Says(e)' => Says(e)
                               /\ Says(e) => Says(e)' \/ e = Head(told)
      BY <1>0, <2>1, TailSays, Zenon
    <2>11. Len(told) \in Nat /\ Len(told) # 0
      BY <1>0, <2>1
    <2>12. /\ Says("authenticated")' => Says("authenticated")
           /\ Says("device_code")' => Says("device_code")
      BY <2>2, Zenon DEF Events
    <2>3. /\ handle' \in HandleType /\ handle'.on = handle.on /\ handle'.confirmed = handle.confirmed
          /\ handle'.authed => handle.authed \/ Head(told) = "authenticated"
          /\ handle.authed => handle'.authed
      BY <1>0, <1>2 DEF Hear, GiveUp
    <2>4. child.at \notin {"none", "new"}
      BY <2>1 DEF Honest, Speaks
    <2>5. child.code \in Codes /\ (Head(told) = "device_code" => child.code # 0)
      BY <2>2 DEF Honest, LoginTypeOK, Speaks
    <2>6. GoodStatus(status')
      BY <1>2, <2>5, LoginAssumption
         DEF Hear, GiveUp, GoodStatus, Pending, Shown, LoginStatus, LoginStatuses, Codes
    <2>7. GoodJob(job')
      BY <1>0, <1>2, GoodJobs DEF Hear, GiveUp, Steps
    <2>8. LoginTypeOK'
      BY <1>0, <2>1, <2>2, <2>3, <2>6, <2>7, <2>11
         DEF Honest, LoginTypeOK, Events, GoodJob, GoodStatus, JobType
    <2>9. Speaks'
      <3>1. handle.authed \/ Head(told) = "authenticated" => child.at \notin {"new", "polling", "granted"}
        BY <2>2 DEF Honest, Speaks
      <3>2. handle'.authed => handle'.on
        BY <2>3, <2>4 DEF Honest, LoginTypeOK
      <3> QED  BY <2>1, <2>2, <2>3, <2>4, <2>7, <2>11, <2>12, <3>1, <3>2 DEF Honest, Speaks, GoodJob
    <2>10. Granted' /\ Linked'
      BY <2>1, <2>2, <2>3, <2>12 DEF Honest, Granted, Linked
    <2> QED  BY <2>8, <2>9, <2>10 DEF Honest
  <1>3. CASE Confirm
    <2>1. /\ handle' \in HandleType /\ handle'.on = handle.on /\ handle'.authed /\ handle.authed
          /\ handle'.confirmed
      BY <1>0, <1>3 DEF Confirm
    <2>2. UNCHANGED <<method, cookie, sessions, codes, child, told, since, wish, requests, mishaps>>
      BY <1>3 DEF Confirm, twitch, history, budget
    <2>3. job' = NoJob
      BY <1>3 DEF Confirm
    <2>4. GoodStatus(status')
      BY <1>3, GoodJobs, LoginAssumption
         DEF Confirm, StatusConfirmed, GoodStatus, Shown, LoginStatus, LoginStatuses, Codes
    <2>5. LoginTypeOK'
      BY <1>0, <2>1, <2>2, <2>3, <2>4 DEF Honest, LoginTypeOK, GoodJob, GoodStatus, JobType
    <2>6. Speaks' /\ Granted' /\ Linked'
      BY <1>0, <2>1, <2>2, <2>3, SilentSays DEF Honest, Speaks, Granted, Linked, GoodJob, Events
    <2> QED  BY <2>5, <2>6 DEF Honest
  <1> QED  BY <1>1, <1>2, <1>3

(* Every step leaves the child's story true. *)
LEMMA HonestStep ==
    ASSUME IInv, JobFits, Honest, TypeOK', [LoginNext]_allVars
    PROVE  Honest'
  <1>1. CASE UNCHANGED allVars
    <2>1. UNCHANGED <<method, status, cookie, sessions, codes, child, told, handle, job, since, wish,
                      requests, mishaps>>
      BY <1>1 DEF allVars, loginVars, twitch, history, budget
    <2>2. /\ method \in Methods /\ requests \in 0..MaxRequests /\ mishaps \in 0..MaxMishaps
          /\ GoodJob(job) /\ GoodStatus(status)
      BY GoodJobs DEF Honest, LoginTypeOK
    <2> QED  BY <2>1, <2>2, KeepsHonest
  <1> QED  BY <1>1, ChildHonest, AroundHonest, QuietHonest, EndHonest, MeetsHonest
           DEF LoginNext, Worker

-----------------------------------------------------------------------------
(* A job is carried on as it was given. *)
LEMMA JobFitsStep ==
    ASSUME IInv, JobFits, Honest, [LoginNext]_allVars
    PROVE  JobFits'
  <1>0. /\ hand # 0 => cmds'[hand].action = cmds[hand].action
        /\ hand # 0 => cmds[hand].action \in Actions
        /\ NoJob.step = "idle" /\ NoJob.op = "idle" /\ job \in JobType
    <2>1. hand # 0 => hand \in Ids /\ cmds[hand] \in Command
      BY DEF IInv, TypeOK, HeldAreRows, Ids
    <2>2. job \in JobType
      BY DEF Honest, LoginTypeOK, JobType
    <2> QED  BY <2>1, <2>2, RowsStep, QueueStep DEF NoJob, Command
  <1>1. ASSUME UNCHANGED <<job, hand, checked>>, handle'.on => handle.on
        PROVE  JobFits'
    BY <1>0, <1>1 DEF JobFits
  <1>2. ASSUME job' = NoJob
        PROVE  JobFits'
    BY <1>0, <1>2 DEF JobFits
  <1>3. CASE \E action \in {"start", "stop", "restart"} : Request(action)
    BY <1>1, <1>3 DEF Request, Enqueue
  <1>4. CASE RequestTvAuthentication
    BY <1>1, <1>4 DEF RequestTvAuthentication, Enqueue
  <1>5. CASE Activated \/ Rejected \/ LosesSession \/ Child \/ ChildCrashes
    BY <1>1, <1>5 DEF Activated, Rejected, LosesSession, Child, ChildCrashes, Reports, ShowCode,
                      LoginFails, ChildEnds, ChildDies, Acts, vars
  <1>6. CASE Elapses
    <2>1. handle'.on = handle.on
      BY <1>6 DEF Elapses, Honest, LoginTypeOK
    <2> QED  BY <1>1, <1>6, <2>1 DEF Elapses, vars
  <1>7. CASE LeaseNext \/ Drop \/ WorkerDies \/ WorkerStarts \/ HealthExit \/ Confirm \/ HealthQuiet
    BY <1>2, <1>7 DEF LeaseNext, Drop, Idle, loginVars, WorkerDies, WorkerStarts, Forgets,
                      HealthExit, Confirm, HealthQuiet
  <1>8. CASE SnapshotFails \/ StopReturns \/ LaunchFails \/ Adopt \/ Launch
    BY <1>2, <1>8 DEF SnapshotFails, StopReturns, LaunchFails, Adopt, Launch, Returns
  <1>9. ASSUME NEW op \in {"halt", "start", "renew"}, NEW step, job' = NewJob(op, step), hand' = 0,
               step = IF op = "start" THEN "settle" ELSE "stop"
        PROVE  JobFits'
    <2>1. job'.op = op /\ job'.step = step
      BY <1>9 DEF NewJob, NoJob
    <2> QED  BY <1>9, <2>1 DEF JobFits
  <1>10. CASE ReconcileStops \/ OwnLaunch \/ ConfigRestart
    BY <1>9, <1>10 DEF ReconcileStops, OwnLaunch, ConfigRestart, Own, Idle, vars
  <1>11. CASE Visit
    <2>1. job'.op = "visit" /\ job'.step = "visit" /\ hand' = 0
      BY <1>11 DEF Visit, NewJob, NoJob, Idle, vars
    <2> QED  BY <2>1 DEF JobFits
  <1>12. CASE Accept
    <2>1. /\ hand # 0 /\ hand' = hand /\ checked' /\ cmds' = cmds
      BY <1>12 DEF Accept, Begin
    <2>2. /\ job'.op = cmds[hand].action
          /\ job'.step = IF cmds[hand].action = "start" THEN "settle" ELSE "stop"
      BY <1>12 DEF Accept, NewJob, NoJob
    <2> QED  BY <1>0, <2>1, <2>2 DEF JobFits, Actions
  <1>13. CASE SettleDead
    <2>1. UNCHANGED <<job, hand, checked>> /\ ~handle'.on
      BY <1>13 DEF SettleDead, Settled, Resolve, Gone, NoHandle, vars
    <2> QED  BY <1>1, <2>1
  <1>14. CASE Prepare
    <2>1. job'.op = job.op /\ job'.step = "spawn" /\ job.step = "settle"
      BY <1>0, <1>14 DEF Prepare, Snapshot, JobType
    <2> QED  BY <1>0, <1>14, <2>1 DEF Prepare, JobFits, vars
  <1>15. CASE StopBegins
    <2>1. job'.op = job.op /\ job'.step = "kill" /\ job.step = "stop"
      BY <1>0, <1>15 DEF StopBegins, Snapshot, JobType
    <2>2. UNCHANGED <<hand, checked>>
      BY <1>15 DEF StopBegins, Settled, Resolve, FinishEarly, vars
    <2> QED  BY <1>0, <2>1, <2>2 DEF JobFits
  <1>16. CASE StopEnds
    <2>1. /\ job'.op = job.op /\ job.step = "kill"
          /\ job'.step = CASE job.op \in {"restart", "renew"} -> "spawn"
                           [] job.op = "authenticate" -> "remove"
                           [] OTHER -> "done"
      BY <1>0, <1>16 DEF StopEnds, JobType
    <2>2. UNCHANGED <<hand, checked>> /\ ~handle'.on
      BY <1>16 DEF StopEnds, Settled, Resolve, Gone, NoHandle, vars
    <2> QED  BY <1>0, <2>1, <2>2 DEF JobFits
  <1>17. CASE RemoveSession
    <2>1. job'.op = job.op /\ job'.step = "spawn" /\ job.step = "remove"
      BY <1>0, <1>17 DEF RemoveSession, JobType
    <2> QED  BY <1>0, <1>17, <2>1 DEF RemoveSession, JobFits, vars
  <1>18. ASSUME GiveUp
         PROVE  JobFits'
    <2>1. job'.op = "fail" /\ job'.step = "stop"
      BY <1>18 DEF GiveUp, NewJob, NoJob
    <2>2. hand' # 0 => checked'
      BY <1>18 DEF GiveUp, FailAuthentication
    <2> QED  BY <2>1, <2>2 DEF JobFits
  <1>19. CASE Hear \/ HealthGivesUp
    <2>1. \/ GiveUp
          \/ UNCHANGED <<job, hand, checked>> /\ handle'.on = handle.on
      BY <1>19 DEF Hear, HealthGivesUp, vars, Honest, LoginTypeOK
    <2> QED  BY <1>1, <1>18, <2>1
  <1>20. CASE HealthHalts
    <2>1. job'.op = "halt" /\ job'.step = "stop" /\ hand' = hand /\ job.step = "visit"
      BY <1>20 DEF HealthHalts, Consumed, NewJob, NoJob, vars
    <2>2. hand = 0
      BY <1>0, <2>1 DEF JobFits, Actions
    <2> QED  BY <2>1, <2>2 DEF JobFits
  <1>21. CASE UNCHANGED allVars
    BY <1>1, <1>21 DEF allVars, loginVars, vars
  <1> QED  BY <1>3, <1>4, <1>5, <1>6, <1>7, <1>8, <1>10, <1>11, <1>12, <1>13, <1>14, <1>15,
              <1>16, <1>17, <1>19, <1>20, <1>21 DEF LoginNext, Worker

(* A refusal is heard before anything replaces the child, unless somebody asks. *)
LEMMA RefusalStep ==
    ASSUME IInv, JobFits, Honest, Refusal, [LoginNext]_allVars
    PROVE  Refusal'
  <1>0. /\ desired \in [Accounts -> Desires] /\ A \in Accounts
        /\ told \in Seq(Events) /\ NoJob.step = "idle"
        /\ hand # 0 => cmds[hand].acct = A
        /\ handle.on <=> child.at # "none"
    <2>1. hand # 0 => hand \in Ids /\ cmds[hand] \in Command
      BY DEF IInv, TypeOK, HeldAreRows, Ids
    <2> QED  BY <2>1, OneAccount DEF IInv, TypeOK, Honest, LoginTypeOK, Events, NoJob, Command
  <1>1. ASSUME desired'[A] = "stopped" \/ wish' = "asked"
        PROVE  Refusal'
    BY <1>1 DEF Refusal
  <1>2. ASSUME UNCHANGED <<desired, wish, child, told, handle>>, job' \in {job, NoJob}
        PROVE  Refusal'
    BY <1>0, <1>2, SilentSays DEF Refusal, Unheard, Events
  <1>3. ASSUME UNCHANGED <<desired, wish, child, told, handle>>, ~handle.on
        PROVE  Refusal'
    BY <1>3 DEF Refusal, Unheard
  <1>4. ASSUME UNCHANGED <<desired, wish>>, Gone,
               \/ job.step \in {"settle", "stop", "kill"}
               \/ handle.authed
        PROVE  Refusal'
    <2>1. ~handle'.on
      BY <1>4 DEF Gone, NoHandle
    <2>2. desired[A] = "running" => wish # "refused"
      BY <1>4 DEF Refusal, Unheard, Honest, Speaks
    <2> QED  BY <1>4, <2>1, <2>2 DEF Refusal
  <1>5. CASE \E action \in {"start", "stop", "restart"} : Request(action)
    <2>1. PICK action \in {"start", "stop", "restart"} : Request(action)
      BY <1>5
    <2>2. /\ desired'[A] = IF action = "stop" THEN "stopped" ELSE "running"
          /\ action # "stop" => wish' = "asked"
      BY <1>0, <2>1 DEF Request, Enqueue, Wanted
    <2> QED  BY <1>1, <2>2
  <1>6. CASE RequestTvAuthentication
    BY <1>1, <1>6 DEF RequestTvAuthentication
  <1>7. CASE Activated \/ Reports \/ ShowCode \/ LoginFails \/ LosesSession
    <2>1. /\ UNCHANGED <<desired, wish, handle, job>>
          /\ child.at \in {"polling", "granted", "new", "mining"}
      BY <1>7 DEF Activated, Reports, ShowCode, LoginFails, LosesSession, Acts, vars
    <2> QED  BY <2>1 DEF Refusal, Unheard
  <1>8. CASE Rejected
    <2>1. /\ UNCHANGED <<desired, handle, job>> /\ child.at = "polling"
          /\ told' = Append(told, "authentication_failed")
          /\ wish' = IF wish = "none" THEN "refused" ELSE wish
      BY <1>8 DEF Rejected, Acts, Becomes, vars
    <2>2. child'.at = "ending"
      BY <1>8 DEF Rejected, Becomes, Honest, LoginTypeOK
    <2>3. /\ Says("authentication_failed")'
          /\ Says("authenticated")' => Says("authenticated")
      BY <1>0, <2>1, AppendSays DEF Events
    <2>4. Unheard'
      BY <1>0, <2>1, <2>2, <2>3 DEF Unheard, Honest, Speaks
    <2> QED  BY <2>1, <2>4 DEF Refusal
  <1>9. CASE ChildEnds \/ ChildCrashes
    <2>1. UNCHANGED <<desired, wish, handle, job, told>>
      BY <1>9 DEF ChildEnds, ChildCrashes, ChildDies, Acts, vars
    <2>2. child'.at = "dead"
      BY <1>9 DEF ChildEnds, ChildCrashes, ChildDies, Honest, LoginTypeOK
    <2> QED  BY <2>1, <2>2, SilentSays DEF Refusal, Unheard, Events
  <1>10. CASE Elapses
    <2>1. /\ handle'.on = handle.on /\ handle'.authed = handle.authed
          /\ handle'.confirmed = handle.confirmed
      BY <1>10 DEF Elapses, Honest, LoginTypeOK
    <2>2. UNCHANGED <<desired, wish, child, told, job>>
      BY <1>10 DEF Elapses, vars, history
    <2> QED  BY <2>1, <2>2, SilentSays DEF Refusal, Unheard, Events
  <1>11. CASE LeaseNext \/ Drop
    BY <1>2, <1>11 DEF LeaseNext, Drop, Lease, Refuse, loginVars, history
  <1>12. CASE Accept
    <2>1. /\ desired' = desired /\ hand # 0 /\ desired[cmds[hand].acct] = Wanted(cmds[hand].action)
          /\ cmds[hand].action # "stop" => wish' = "asked"
      BY <1>12 DEF Accept, Begin
    <2> QED  BY <1>0, <1>1, <2>1 DEF Wanted
  <1>13. CASE Adopt \/ SnapshotFails \/ StopReturns \/ HealthQuiet \/ LaunchFails
    BY <1>2, <1>13 DEF Adopt, SnapshotFails, StopReturns, HealthQuiet, LaunchFails, Returns,
                       Complete, Attach, vars, history
  <1>14. CASE SettleDead \/ StopEnds
    BY <1>4, <1>14 DEF SettleDead, StopEnds, Settled, Resolve, vars, history
  <1>15. CASE Prepare \/ RemoveSession \/ OwnLaunch
    BY <1>3, <1>15 DEF Prepare, RemoveSession, OwnLaunch, Own, JobFits, vars, history
  <1>16. CASE StopBegins
    <2>1. UNCHANGED <<desired, wish>> /\ job.step = "stop"
      BY <1>16 DEF StopBegins, Settled, Resolve, FinishEarly, vars, history
    <2>2. CASE Gone
      BY <1>4, <2>1, <2>2
    <2>3. CASE UNCHANGED <<child, told, handle>>
      <3>1. job'.op = job.op
        BY <1>16 DEF StopBegins, Snapshot, Honest, LoginTypeOK
      <3>2. Unheard' <=> Unheard
        BY <2>3, SilentSays DEF Unheard, Events
      <3> QED  BY <2>1, <2>3, <3>1, <3>2 DEF Refusal
    <2> QED  BY <1>16, <2>2, <2>3 DEF StopBegins
  <1>17. CASE Launch
    <2>1. job'.step = "idle" /\ wish' = "none"
      BY <1>0, <1>17 DEF Launch
    <2> QED  BY <2>1 DEF Refusal
  <1>18. CASE Visit
    <2>1. UNCHANGED <<desired, wish, child, told, handle>>
      BY <1>18 DEF Visit, vars, history
    <2>2. job'.step = "visit" /\ job'.view = desired[A]
      BY <1>18 DEF Visit, NewJob, NoJob
    <2>3. Unheard' <=> Unheard
      BY <2>1, SilentSays DEF Unheard, Events
    <2> QED  BY <2>1, <2>2, <2>3 DEF Refusal
  <1>19. ASSUME GiveUp
         PROVE  Refusal'
    BY <1>0, <1>1, <1>19 DEF GiveUp, FailAuthentication
  <1>20. CASE Hear
    <2>1. told # <<>> /\ told' = Tail(told) /\ UNCHANGED <<wish, child>>
      BY <1>20 DEF Hear, Consume, history
    <2>2. /\ Head(told) \in Events /\ Says(Head(told))
          /\ \A e \in Events : /\ Says(e)' => Says(e)
                               /\ Says(e) => Says(e)' \/ e = Head(told)
      BY <1>0, <2>1, TailSays, Zenon
    <2>3. /\ Says("authenticated")' => Says("authenticated")
          /\ Says("authentication_failed") =>
                Says("authentication_failed")' \/ Head(told) = "authentication_failed"
      BY <2>2, Zenon DEF Events
    <2>4. CASE Head(told) = "device_code"
      <3>1. UNCHANGED <<desired, handle, job>>
        BY <1>20, <2>4 DEF Hear, vars
      <3>2. Unheard => Unheard'
        BY <2>1, <2>3, <2>4, <3>1 DEF Unheard
      <3> QED  BY <2>1, <3>1, <3>2 DEF Refusal
    <2>5. CASE Head(told) = "authenticated"
      <3>1. ~Unheard
        BY <2>2, <2>5 DEF Unheard
      <3>2. UNCHANGED <<desired, job>>
        BY <1>20, <2>5 DEF Hear, vars
      <3>3. handle'.on = handle.on /\ handle'.confirmed = handle.confirmed
        BY <1>20, <2>5 DEF Hear, Honest, LoginTypeOK
      <3> QED  BY <2>1, <3>1, <3>2, <3>3 DEF Refusal
    <2>6. CASE Head(told) = "authentication_failed"
      BY <1>19, <1>20, <2>6 DEF Hear
    <2> QED  BY <2>2, <2>4, <2>5, <2>6 DEF Events
  <1>21. CASE HealthHalts
    <2>1. UNCHANGED <<desired, wish, child, told, handle>> /\ job.step = "visit" /\ job.view = "stopped"
      BY <1>21 DEF HealthHalts, Consumed, vars, history
    <2>2. desired[A] = "running" /\ wish # "asked" => ~handle.on
      BY <1>0, <2>1 DEF Refusal, JobFits
    <2>3. Unheard' <=> Unheard
      BY <2>1, SilentSays DEF Unheard, Events
    <2> QED  BY <2>1, <2>2, <2>3 DEF Refusal
  <1>22. CASE HealthGivesUp
    BY <1>19, <1>22 DEF HealthGivesUp
  <1>23. CASE HealthExit
    BY <1>4, <1>23 DEF HealthExit, NotAuthenticated, Settled, Resolve, vars, history
  <1>24. CASE Confirm
    <2>1. UNCHANGED <<desired, wish>> /\ handle.authed /\ job'.step = "idle"
      BY <1>0, <1>24 DEF Confirm, Settled, Resolve, vars, history
    <2> QED  BY <2>1 DEF Refusal, Unheard
  <1>25. CASE ReconcileStops
    BY <1>1, <1>25 DEF ReconcileStops, Own, vars
  <1>26. CASE ConfigRestart
    <2>1. UNCHANGED <<desired, wish, child, told, handle>> /\ handle.confirmed /\ job'.op = "renew"
      BY <1>26 DEF ConfigRestart, Own, NewJob, NoJob, vars, history
    <2>2. Unheard' <=> Unheard
      BY <2>1, SilentSays DEF Unheard, Events
    <2> QED  BY <2>1, <2>2 DEF Refusal
  <1>27. CASE WorkerDies \/ WorkerStarts
    <2>1. wish' = "none" /\ ~handle'.on
      BY <1>27 DEF WorkerDies, WorkerStarts, Forgets, Gone, NoHandle
    <2> QED  BY <2>1 DEF Refusal
  <1>28. CASE UNCHANGED allVars
    BY <1>2, <1>28 DEF allVars, loginVars, vars, history
  <1> QED  BY <1>5, <1>6, <1>7, <1>8, <1>9, <1>10, <1>11, <1>12, <1>13, <1>14, <1>15, <1>16,
              <1>17, <1>18, <1>20, <1>21, <1>22, <1>23, <1>24, <1>25, <1>26, <1>27, <1>28
           DEF LoginNext, Worker, Child

(* What the worker does with a command that waits, or that it holds, leaves the rest of
   the queue's state alone. *)
LEMMA SettledKeeps ==
    ASSUME NEW result, Settled(result)
    PROVE  attached' \subseteq attached /\ UNCHANGED <<desired, up, hand, checked>>
  BY DEF Settled, Resolve, vars

(* The command in hand is given back, the others stay. *)
LEMMA ReturnsKeeps ==
    ASSUME NEW result, Returns(result)
    PROVE  attached' = attached /\ UNCHANGED <<desired, up>>
  BY DEF Returns, Complete, vars

(* The session of a reconnection in progress is gone, or newer. *)
LEMMA RenewedStep ==
    ASSUME IInv, Claims, JobFits, Honest, Renewed, [LoginNext]_allVars
    PROVE  Renewed'
  <1>0. /\ attached \subseteq Ids
        /\ \A i \in Ids : cmds'[i].action = cmds[i].action /\ (IsActive(i)' => IsActive(i))
        /\ NoJob.step = "idle" /\ cookie \in Nat /\ since \in 0..sessions /\ sessions \in Nat
        /\ job \in JobType
    <2>1. \A i \in Ids : cmds'[i].action = cmds[i].action /\ (IsActive(i)' => IsActive(i))
      BY RowsStep, QueueStep
    <2> QED  BY <2>1 DEF IInv, HeldAreRows, Honest, LoginTypeOK, NoJob, JobType
  <1>1. ASSUME attached' \subseteq attached, UNCHANGED <<cookie, since>>,
               job' = job \/ job'.step # "spawn"
        PROVE  Renewed'
    BY <1>0, <1>1 DEF Renewed
  <1>2. CASE \E action \in {"start", "stop", "restart"} : Request(action)
    BY <1>1, <1>2 DEF Request, Enqueue
  <1>3. CASE RequestTvAuthentication
    BY <1>1, <1>3 DEF RequestTvAuthentication, Enqueue
  <1>4. CASE Activated
    <2>1. /\ cookie' = sessions + 1 /\ UNCHANGED <<since, job, attached>>
          /\ child.at = "polling"
      BY <1>4 DEF Activated, Acts, vars
    <2>2. job.step # "spawn"
      BY <2>1 DEF JobFits, Honest, LoginTypeOK
    <2>3. cookie' > since'
      BY <1>0, <2>1
    <2> QED  BY <2>1, <2>2, <2>3 DEF Renewed
  <1>5. CASE Rejected \/ LosesSession \/ Child \/ ChildCrashes \/ Elapses
    BY <1>1, <1>5 DEF Rejected, LosesSession, Child, Reports, ShowCode, LoginFails, ChildEnds,
                      ChildCrashes, ChildDies, Elapses, Acts, vars, history
  <1>6. CASE LeaseNext \/ Drop
    BY <1>1, <1>6 DEF LeaseNext, Drop, Lease, Refuse, loginVars, history
  <1>7. CASE Accept
    <2>1. /\ hand # 0 /\ ~checked /\ UNCHANGED <<cmds, attached, cookie>>
          /\ job' = NewJob(cmds[hand].action, IF cmds[hand].action = "start" THEN "settle" ELSE "stop")
          /\ since' = IF cmds[hand].action = "authenticate" THEN sessions ELSE since
      BY <1>7 DEF Accept, Begin
    <2>2. job'.step # "spawn"
      BY <2>1 DEF NewJob, NoJob
    <2>3. CASE cmds[hand].action # "authenticate"
      BY <1>1, <2>1, <2>2, <2>3
    <2>4. CASE cmds[hand].action = "authenticate"
      <3>1. hand \in Ids /\ IsActive(hand) /\ hand \notin attached
        BY <2>1 DEF Claims, IInv, TypeOK, HeldAreRows, Ids, IsActive
      <3>2. \A i \in Ids : cmds[i].acct = cmds[hand].acct
        <4>1. \A i \in Ids : cmds[i] \in Command
          BY DEF IInv, TypeOK, Ids
        <4> QED  BY <3>1, <4>1, OneAccount DEF Command
      <3>3. \A i \in attached : cmds[i].action = "authenticate" => ~IsActive(i)
        BY <1>0, <2>4, <3>1, <3>2 DEF IInv, OneActivePerAction
      <3> QED  BY <1>0, <2>1, <2>2, <3>3 DEF Renewed
    <2> QED  BY <2>3, <2>4
  <1>8. CASE Adopt
    <2>1. /\ job.step = "settle" /\ job' = NoJob /\ UNCHANGED <<cookie, since>>
          /\ \/ attached' = attached
             \/ hand # 0 /\ attached' \subseteq attached \cup {hand}
      BY <1>8, ReturnsKeeps DEF Adopt, Attach, Returns, history
    <2>2. hand # 0 => cmds[hand].action = "start" /\ hand \in Ids
      BY <2>1 DEF JobFits, IInv, TypeOK, HeldAreRows, Ids
    <2> QED  BY <1>0, <2>1, <2>2 DEF Renewed
  <1>9. CASE SettleDead \/ StopEnds \/ HealthExit \/ Confirm
    <2>1. attached' \subseteq attached /\ UNCHANGED <<cookie, since>>
      BY <1>9, SettledKeeps DEF SettleDead, StopEnds, HealthExit, Confirm, history
    <2>2. \/ job' \in {job, NoJob}
          \/ job'.op = job.op /\ (job.op = "authenticate" => job'.step = "remove")
      BY <1>0, <1>9 DEF SettleDead, StopEnds, HealthExit, Confirm, history, JobType
    <2> QED  BY <1>0, <2>1, <2>2 DEF Renewed
  <1>10. CASE Prepare
    <2>1. /\ UNCHANGED <<attached, cookie, since>> /\ job'.op = job.op /\ job.step = "settle"
      BY <1>0, <1>10 DEF Prepare, Snapshot, vars, history, JobType
    <2> QED  BY <1>0, <2>1 DEF Renewed, JobFits
  <1>11. CASE SnapshotFails \/ StopReturns \/ LaunchFails \/ HealthQuiet
    <2>1. /\ job' = NoJob /\ attached' = attached /\ UNCHANGED <<cookie, since>>
      BY <1>11, ReturnsKeeps
         DEF SnapshotFails, StopReturns, LaunchFails, HealthQuiet, Returns, vars, history
    <2> QED  BY <1>0, <1>1, <2>1
  <1>12. CASE StopBegins
    <2>1. attached' \subseteq attached
      BY <1>12, SettledKeeps DEF StopBegins, FinishEarly, vars
    <2>2. UNCHANGED <<cookie, since>> /\ job'.step = "kill"
      BY <1>0, <1>12 DEF StopBegins, Snapshot, history, JobType
    <2> QED  BY <1>1, <2>1, <2>2
  <1>13. CASE RemoveSession
    BY <1>13 DEF RemoveSession, Renewed
  <1>14. CASE Launch
    <2>1. /\ job.step = "spawn" /\ job' = NoJob /\ UNCHANGED <<cookie, since>>
          /\ \/ attached' = attached
             \/ hand # 0 /\ attached' \subseteq attached \cup {hand}
      BY <1>14 DEF Launch, Attach, vars
    <2>2. hand # 0 /\ cmds[hand].action = "authenticate" => cookie = 0
      BY <2>1 DEF JobFits, Renewed
    <2>3. hand # 0 => hand \in Ids
      BY DEF IInv, TypeOK, HeldAreRows, Ids
    <2> QED  BY <1>0, <2>1, <2>2, <2>3 DEF Renewed
  <1>15. CASE Visit \/ HealthHalts \/ ReconcileStops \/ OwnLaunch \/ ConfigRestart
    <2>1. /\ UNCHANGED <<attached, cookie, since>> /\ job'.step # "spawn"
      BY <1>15 DEF Visit, HealthHalts, ReconcileStops, OwnLaunch, ConfigRestart, Own, NewJob, NoJob,
                   vars, history
    <2> QED  BY <1>1, <2>1
  <1>16. CASE Hear \/ HealthGivesUp
    <2>1. GiveUp => attached' \subseteq attached /\ job'.step = "stop"
      BY DEF GiveUp, FailAuthentication, NewJob, NoJob
    <2>2. attached' \subseteq attached /\ (job' = job \/ job'.step # "spawn")
      BY <1>16, <2>1 DEF Hear, HealthGivesUp, vars
    <2>3. UNCHANGED <<cookie, since>>
      BY <1>16 DEF Hear, HealthGivesUp, history
    <2> QED  BY <1>1, <2>2, <2>3
  <1>17. CASE WorkerDies \/ WorkerStarts
    <2>1. attached' \subseteq attached /\ UNCHANGED <<cookie, since>> /\ job' = NoJob
      BY <1>17 DEF WorkerDies, WorkerStarts, Crash, Startup, Forgets
    <2> QED  BY <1>0, <1>1, <2>1
  <1>18. CASE UNCHANGED allVars
    BY <1>1, <1>18 DEF allVars, loginVars, vars, history
  <1> QED  BY <1>2, <1>3, <1>4, <1>5, <1>6, <1>7, <1>8, <1>9, <1>10, <1>11, <1>12, <1>13, <1>14,
              <1>15, <1>16, <1>17, <1>18 DEF LoginNext, Worker

-----------------------------------------------------------------------------
LEMMA LoginInitially == LoginInit => LInv
  <1> SUFFICES ASSUME LoginInit
               PROVE  LInv
    OBVIOUS
  <1>1. IInv /\ hand = 0 /\ attached = {}
    BY Initially DEF LoginInit, Init
  <1>2. /\ told = <<>> /\ Len(told) = 0 /\ told \in Seq(Events) /\ \A e : ~Says(e)
    BY SilentSays DEF LoginInit
  <1>3. child \in ChildType /\ child.at = "none"
    BY LoginAssumption DEF LoginInit, NoChild, ChildType, Methods, Codes
  <1>4. GoodJob(job) /\ GoodStatus(status) /\ job.step = "idle" /\ job.op = "idle"
    <2>1. GoodStatus(status)
      BY LoginAssumption DEF LoginInit, GoodStatus, Shown, LoginStatus, LoginStatuses, Codes
    <2> QED  BY <2>1, GoodJobs DEF LoginInit, NoJob
  <1>5. handle = NoHandle /\ ~handle.on /\ ~handle.authed /\ ~handle.confirmed
    BY DEF LoginInit, NoHandle
  <1>6. LoginTypeOK
    BY <1>1, <1>2, <1>3, <1>4, <1>5, LoginAssumption
       DEF IInv, LoginInit, LoginTypeOK, GoodJob, GoodStatus, JobType, ChildType, Events, Codes,
           NoHandle, Methods
  <1>7. Speaks /\ Granted /\ Linked
    BY <1>2, <1>3, <1>4, <1>5 DEF LoginInit, Speaks, Granted, Linked, GoodJob
  <1>8. Claims /\ JobFits /\ Renewed /\ Refusal
    BY <1>1, <1>4, <1>5 DEF LoginInit, Claims, JobFits, Renewed, Refusal
  <1> QED  BY <1>1, <1>6, <1>7, <1>8 DEF LInv

LEMMA LoginInductive == LInv /\ [LoginNext]_allVars => LInv'
  <1> SUFFICES ASSUME LInv, [LoginNext]_allVars
               PROVE  LInv'
    OBVIOUS
  <1>1. IInv' /\ TypeOK' /\ Claims'
    BY QueueStep, Inductive, ClaimsStep DEF LInv, IInv
  <1>2. Honest
    BY DEF LInv, Honest
  <1>3. Honest' /\ JobFits' /\ Refusal' /\ Renewed'
    BY <1>1, <1>2, HonestStep, JobFitsStep, RefusalStep, RenewedStep DEF LInv
  <1> QED  BY <1>1, <1>3 DEF LInv, Honest

(* Every reachable state of the login satisfies the inductive invariant. *)
THEOREM LoginInvariance == LoginSpec => []LInv
  BY LoginInitially, LoginInductive, PTL DEF LoginSpec

(* The variables of the login keep their types: a code is shown exactly while the
   login is pending, what the child has reported stays within its three messages,
   and the worker holds a child exactly while there is one. *)
THEOREM LoginTypeCorrect == LoginSpec => []LoginTypeOK
  <1>1. LInv => LoginTypeOK
    BY DEF LInv
  <1> QED  BY <1>1, LoginInvariance, PTL

(* The login keeps to the command queue: what it does to commands, and to the desired
   state, is what CommandQueue allows. *)
THEOREM LoginFollowsQueue == LoginSpec => Spec
  <1>1. LoginInit => Init
    BY DEF LoginInit
  <1>2. LInv /\ [LoginNext]_allVars => [Next]_vars
    BY QueueStep DEF LInv
  <1> QED  BY <1>1, <1>2, LoginInvariance, PTL DEF LoginSpec, Spec

(* No two active commands of one action, whatever the login does. *)
THEOREM LoginOneActive == LoginSpec => []OneActivePerAction
  BY LoginFollowsQueue, OneActive, PTL

(* No claim of the login's commands is lost with the worker or a child. *)
THEOREM LoginNoLostClaim == LoginSpec => []LeasedIsHeld
  BY LoginFollowsQueue, NoLostClaim, PTL

(* The outcome of a login's command is final. *)
THEOREM LoginResultsAreFinal == LoginSpec => TerminalIsFinal
  BY LoginFollowsQueue, ResultsAreFinal, PTL

-----------------------------------------------------------------------------
(* The worker never loops device codes: a child whose code Twitch has refused is not
   followed by another before somebody asks for it.  The refusal is either still to be
   heard, and then the child is there, or it has stopped the account (check_health,
   _fail_authentication). *)
THEOREM NeverLoopsCodes == LoginSpec => NeverLoops
  <1> DEFINE Quiet == child.at = "none" /\ child'.at = "new" /\ hand = 0 => wish # "refused"
  <1>1. LInv /\ [LoginNext]_allVars => [Quiet]_allVars
    <2> SUFFICES ASSUME LInv, LoginNext, child.at = "none", child'.at = "new"
                 PROVE  wish # "refused"
      OBVIOUS
    <2>0. ~handle.on /\ child.at # "new"
      BY DEF LInv, LoginTypeOK
    <2>1. CASE Launch
      BY <2>0, <2>1 DEF Launch, LInv, Refusal, Unheard
    <2>2. CASE child' = child \/ Gone
      BY <2>0, <2>2 DEF Gone, NoChild
    <2>3. ~(Activated \/ Rejected \/ LosesSession \/ Child \/ ChildCrashes)
      BY DEF Activated, Rejected, LosesSession, Child, ChildCrashes, Reports, ShowCode, LoginFails,
             ChildEnds
    <2> QED  BY <2>1, <2>2, <2>3
             DEF LoginNext, Worker, Request, RequestTvAuthentication, Elapses, ConfigRestart, Own,
                 WorkerDies, WorkerStarts, Forgets, LeaseNext, Drop, loginVars, Accept, Adopt,
                 SettleDead, Prepare, SnapshotFails, StopBegins, StopEnds, StopReturns,
                 RemoveSession, LaunchFails, Visit, Hear, HealthHalts, HealthGivesUp, HealthExit,
                 Confirm, HealthQuiet, ReconcileStops, OwnLaunch
  <1> QED  BY <1>1, LoginInvariance, PTL DEF LoginSpec, NeverLoops

(* Which rows a step reports as a success. *)
LEMMA FinishSucceeds ==
    ASSUME TypeOK, NEW S, NEW status_ \in Terminal, Finish(S, status_), NEW i \in Ids,
           cmds[i].status # "succeeded", cmds'[i].status = "succeeded"
    PROVE  i \in S /\ status_ = "succeeded" /\ cmds[i].status = "leased"
  <1>1. cmds \in Seq(Command) /\ status_ \in Statuses
    BY DEF TypeOK, Statuses
  <1> QED  BY <1>1, MarkFacts DEF Finish, Ids, Leased

(* A request reports no success. *)
LEMMA EnqueueSucceeds ==
    ASSUME TypeOK, NEW a \in Accounts, NEW action \in Actions, Enqueue(a, action), NEW i \in Ids,
           cmds[i].status # "succeeded"
    PROVE  cmds'[i].status # "succeeded"
  <1> DEFINE kept == Mark(cmds, Obsolete(a, action), "cancelled")
             row == [acct |-> a, action |-> action, status |-> "queued"]
  <1>1. row \in Command /\ "cancelled" \in Statuses /\ cmds \in Seq(Command)
    BY DEF Command, Statuses, Terminal, TypeOK
  <1>2. /\ kept \in Seq(Command) /\ Len(kept) = Len(cmds)
        /\ kept[i].status \in {cmds[i].status, "cancelled"}
    BY <1>1, MarkFacts DEF Ids
  <1>3. Append(kept, row)[i] = kept[i]
    BY <1>1, <1>2, AppendFacts DEF Ids
  <1>4. cmds' \in {cmds, kept, Append(kept, row)}
    BY DEF Enqueue, NewTable
  <1> HIDE DEF kept, row
  <1> QED  BY <1>2, <1>3, <1>4

(* A reconnection that is reported as a success was made with a session that Twitch
   granted after it began (authenticate_account, _confirm_startup). *)
THEOREM ReconnectIsNew == LoginSpec => ReconnectReplacesSession
  <1> DEFINE Newer == \A i \in Ids :
                        /\ cmds[i].action = "authenticate"
                        /\ cmds[i].status # "succeeded" /\ cmds'[i].status = "succeeded"
                        => cookie' > since'
  <1>1. LInv /\ [LoginNext]_allVars => [Newer]_allVars
    <2> SUFFICES ASSUME LInv, LoginNext, NEW i \in Ids, cmds[i].action = "authenticate",
                        cmds[i].status # "succeeded", cmds'[i].status = "succeeded"
                 PROVE  cookie' > since'
      BY DEF allVars
    <2>0. /\ TypeOK /\ cmds \in Seq(Command) /\ attached \subseteq Ids
          /\ sessions \in Nat /\ cookie \in Nat /\ since \in Nat
      BY DEF LInv, IInv, TypeOK, HeldAreRows, LoginTypeOK
    <2>1. ASSUME cmds' = cmds
          PROVE  FALSE
      BY <2>1
    <2>2. ASSUME NEW S, NEW status_ \in {"failed", "cancelled"}, Finish(S, status_)
          PROVE  FALSE
      BY <2>0, <2>2, FinishSucceeds DEF Terminal
    <2>3. ASSUME NEW action \in Actions, Enqueue(A, action)
          PROVE  FALSE
      BY <2>0, <2>3, OneAccount, EnqueueSucceeds
    <2>4. ASSUME NEW S, NEW status_ \in {"leased", "queued"}, cmds' = Mark(cmds, S, status_)
          PROVE  FALSE
      BY <2>0, <2>4, MarkFacts DEF Statuses, Ids
    <2>5. ASSUME NEW result \in {"failed", "cancelled"}, Settled(result)
          PROVE  FALSE
      BY <2>1, <2>2, <2>5 DEF Settled, Resolve, vars
    <2>6. ~Returns("failed")
      BY <2>1, <2>2 DEF Returns, Complete, vars
    <2>7. ASSUME Returns("succeeded"), job.step \in {"settle", "done"}, job.op # "fail"
          PROVE  FALSE
      <3>1. hand # 0 /\ Finish({hand}, "succeeded")
        BY <2>1, <2>7 DEF Returns, Complete, vars
      <3>2. i = hand
        BY <2>0, <3>1, FinishSucceeds DEF Terminal
      <3>3. cmds[hand].action = job.op /\ job.op # "authenticate"
        BY <2>7, <3>1 DEF LInv, JobFits
      <3> QED  BY <3>2, <3>3
    <2>8. CASE Confirm
      <3>1. /\ handle.authed /\ Settled("succeeded") /\ UNCHANGED <<cookie, since>>
        BY <2>8 DEF Confirm, history
      <3>2. PICK j \in attached : Resolve(j, "succeeded")
        BY <2>1, <3>1 DEF Settled, vars
      <3>3. i = j /\ cmds[i].status = "leased"
        BY <2>0, <3>2, FinishSucceeds DEF Resolve, Terminal
      <3>4. cookie = 0 \/ cookie > since
        BY <3>2, <3>3 DEF LInv, Renewed, IsActive
      <3>5. cookie # 0
        BY <3>1 DEF LInv, Linked
      <3> QED  BY <3>1, <3>4, <3>5
    <2>9. ~\E action \in {"start", "stop", "restart"} : Request(action)
      BY <2>3 DEF Request, Actions
    <2>10. ~RequestTvAuthentication
      BY <2>3 DEF RequestTvAuthentication, Actions
    <2>11. ~(Activated \/ Rejected \/ LosesSession \/ Child \/ ChildCrashes \/ Elapses)
      BY <2>1 DEF Activated, Rejected, LosesSession, Child, ChildCrashes, Elapses, Reports, ShowCode,
                  LoginFails, ChildEnds, ChildDies, Acts, vars
    <2>12. ~(LeaseNext \/ WorkerStarts)
      BY <2>4 DEF LeaseNext, Lease, WorkerStarts, Startup
    <2>13. ~(Drop \/ Launch)
      BY <2>1, <2>2 DEF Drop, Refuse, Launch, Attach, vars
    <2>14. ~(Accept \/ WorkerDies \/ Prepare \/ RemoveSession \/ Visit \/ HealthHalts \/ HealthQuiet
             \/ ReconcileStops \/ OwnLaunch \/ ConfigRestart)
      BY <2>1 DEF Accept, Begin, WorkerDies, Crash, Prepare, RemoveSession, Visit, HealthHalts,
                  HealthQuiet, ReconcileStops, OwnLaunch, ConfigRestart, Own, vars
    <2>15. ~(Hear \/ HealthGivesUp)
      BY <2>1 DEF Hear, HealthGivesUp, GiveUp, FailAuthentication, vars
    <2>16. ~Adopt
      <3>1. Adopt => job.step = "settle" /\ (Returns("succeeded") \/ Attach)
        BY DEF Adopt
      <3>2. job.step = "settle" => job.op # "fail"
        BY DEF LInv, JobFits
      <3> QED  BY <2>2, <2>7, <3>1, <3>2 DEF Attach
    <2>17. ~(SettleDead \/ StopEnds \/ HealthExit)
      BY <2>5 DEF SettleDead, StopEnds, HealthExit
    <2>18. ~(SnapshotFails \/ LaunchFails)
      BY <2>6 DEF SnapshotFails, LaunchFails
    <2>19. ~StopReturns
      BY <2>6, <2>7 DEF StopReturns
    <2>20. ~StopBegins
      BY <2>1, <2>2, <2>5 DEF StopBegins, FinishEarly, vars
    <2> QED  BY <2>8, <2>9, <2>10, <2>11, <2>12, <2>13, <2>14, <2>15, <2>16, <2>17, <2>18, <2>19,
                <2>20 DEF LoginNext, Worker
  <1> QED  BY <1>1, LoginInvariance, PTL DEF LoginSpec, ReconnectReplacesSession

=============================================================================
