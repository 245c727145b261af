---------------------------- MODULE DeviceLogin ----------------------------
(***************************************************************************)
(* The Twitch TV login of one account: the control room asks for it        *)
(* (request_tv_authentication), the worker carries the command out and     *)
(* reads what the child reports (controller/miner_supervisor.py), the      *)
(* child reuses a session or shows an activation code and polls Twitch     *)
(* (controller/twitch_miner/auth.py), and the user activates the code.     *)
(*                                                                         *)
(* Every step is one of CommandQueue, or leaves the commands alone.  What  *)
(* else the worker does for a child - runs, incidents, attempts - is the   *)
(* matter of MinerSupervisor; here it launches, stops and visits one.      *)
(***************************************************************************)
EXTENDS CommandQueue

CONSTANTS
    MaxRequests,    \* bound: requests of the control room
    MaxCodes,       \* bound: activation codes that Twitch gives out
    MaxMishaps      \* bound: failed snapshots, removals, launches and validations, children
                    \* that die before they have said why, and deaths of the worker

ASSUME LoginAssumption ==
    /\ \E a \in Accounts : Accounts = {a}
    /\ {MaxRequests, MaxCodes, MaxMishaps} \subseteq Nat

VARIABLES
    method,     \* AccountCredential.auth_method
    status,     \* authentication_status and authentication_code of the account
    cookie,     \* the session in the runtime cookie file
    sessions,   \* how many sessions Twitch has granted, in their order
    codes,      \* how many activation codes it has given out
    child,      \* the child of the account
    told,       \* what it has reported and the worker has not consumed
    handle,     \* the worker's ManagedProcess of that child
    job,        \* what the worker is at
    since,      \* history: sessions granted before the last authentication began
    wish,       \* history: since the child was launched, somebody has asked the account to
                \* run, or else Twitch has refused the code of that child
    requests, mishaps

twitch    == <<sessions, codes>>
history   == <<since, wish>>
budget    == <<requests, mishaps>>
loginVars == <<method, status, cookie, twitch, child, told, handle, job, history, budget>>
allVars   == <<vars, loginVars>>

Codes    == 0..MaxCodes
LoginStatuses == {"unlinked", "pending", "authenticated", "reauth_required"}
Methods   == {"legacy_password", "twitch_tv"}
Steps     == {"idle", "settle", "stop", "kill", "remove", "spawn", "done", "visit"}

A == CHOOSE a \in Accounts : TRUE

NoChild    == [at |-> "none", method |-> "twitch_tv", code |-> 0]
NoHandle   == [on |-> FALSE, authed |-> FALSE, confirmed |-> FALSE, late |-> FALSE]
Shown(s)   == [is |-> s, code |-> 0]
Pending(c) == [is |-> "pending", code |-> c]

\* was: the login fields as stop_account read them; view: the desired state that the
\* visit has read; method: that of the launch snapshot.
NoJob == [op |-> "idle", step |-> "idle", was |-> Shown("unlinked"), view |-> "running",
          method |-> "twitch_tv"]

NewJob(op, step) == [NoJob EXCEPT !.op = op, !.step = step]

\* The launch snapshot holds the way to log in that the account had when it was taken.
Snapshot(step) == [job EXCEPT !.step = step, !.method = method]

LoginStatus == [is : LoginStatuses, code : Codes]

LoginTypeOK ==
    /\ TypeOK
    /\ method \in Methods /\ status \in LoginStatus
    /\ (status.is = "pending") <=> (status.code # 0)
    /\ sessions \in 0..(MaxCodes + 1) /\ cookie \in 0..sessions
    /\ codes \in Codes
    /\ child \in [at : {"none", "new", "polling", "granted", "mining", "ending", "dead"},
                  method : Methods, code : Codes]
    /\ told \in Seq({"device_code", "authenticated", "authentication_failed"}) /\ Len(told) <= 3
    /\ handle \in [on : BOOLEAN, authed : BOOLEAN, confirmed : BOOLEAN, late : BOOLEAN]
    /\ handle.on <=> child.at # "none"
    /\ job \in [op : Actions \cup {"idle", "visit", "halt", "fail", "renew"}, step : Steps,
                was : LoginStatus, view : Desires, method : Methods]
    /\ since \in 0..sessions /\ wish \in {"asked", "none", "refused"}
    /\ requests \in 0..MaxRequests /\ mishaps \in 0..MaxMishaps

\* A session may have been imported.
LoginInit ==
    /\ Init
    /\ method \in Methods /\ sessions \in {0, 1} /\ cookie = sessions
    /\ status = Shown(IF method = "twitch_tv" THEN "unlinked" ELSE "authenticated")
    /\ codes = 0 /\ child = NoChild /\ told = <<>> /\ handle = NoHandle /\ job = NoJob
    /\ since = 0 /\ wish = "none"
    /\ requests = 0 /\ mishaps = 0

Mishap == mishaps < MaxMishaps /\ mishaps' = mishaps + 1 /\ UNCHANGED requests

-----------------------------------------------------------------------------
(* The control room *)

Asks == requests < MaxRequests /\ requests' = requests + 1 /\ UNCHANGED mishaps

Request(action) ==
    /\ Asks /\ Enqueue(A, action)
    /\ wish' = IF action = "stop" THEN wish ELSE "asked"
    /\ UNCHANGED <<method, status, cookie, twitch, child, told, handle, job, since>>

\* The code that is shown is cleared, also when the request joins the command that
\* showed it.
RequestTvAuthentication ==
    /\ Asks /\ Enqueue(A, "authenticate")
    /\ method' = "twitch_tv" /\ status' = Shown("unlinked")
    /\ wish' = "asked"
    /\ UNCHANGED <<cookie, twitch, child, told, handle, job, since>>

-----------------------------------------------------------------------------
(* Twitch and the child (authenticate, run_miner) *)

\* What the child does reaches the worker only through what it reports.
Acts == UNCHANGED <<vars, method, status, handle, job, since>>

Becomes(at, event) == child' = [child EXCEPT !.at = at] /\ told' = Append(told, event)

\* The child has a session that Twitch accepts.  Whether it accepts a saved one is open,
\* each time that it is asked.
Reports ==
    /\ child.at = "granted" \/ (child.at = "new" /\ cookie # 0)
    /\ Becomes("mining", "authenticated")
    /\ Acts /\ UNCHANGED <<cookie, twitch, wish, budget>>

ShowCode ==
    /\ child.at = "new" /\ child.method = "twitch_tv"
    /\ codes < MaxCodes /\ codes' = codes + 1
    /\ child' = [child EXCEPT !.at = "polling", !.code = codes'] /\ told' = Append(told, "device_code")
    /\ Acts /\ UNCHANGED <<cookie, sessions, wish, budget>>

\* A password account has no other way in; any trouble with Twitch counts as failure.
LoginFails ==
    /\ child.at = "new"
    /\ \/ child.method = "legacy_password" /\ UNCHANGED budget
       \/ Mishap
    /\ Becomes("ending", "authentication_failed")
    /\ Acts /\ UNCHANGED <<cookie, twitch, wish>>

\* The poll finds that the user has activated the code; the session is saved before
\* anything is reported.
Activated ==
    /\ child.at = "polling"
    /\ sessions' = sessions + 1 /\ cookie' = sessions'
    /\ child' = [child EXCEPT !.at = "granted"]
    /\ Acts /\ UNCHANGED <<codes, told, wish, budget>>

\* It was denied, activated by another user, or it has expired.
Rejected ==
    /\ child.at = "polling"
    /\ Becomes("ending", "authentication_failed")
    /\ wish' = IF wish = "none" THEN "refused" ELSE wish
    /\ Acts /\ UNCHANGED <<cookie, twitch, budget>>

\* The engine's requests are refused.
LosesSession ==
    /\ child.at = "mining"
    /\ Becomes("ending", "authentication_failed")
    /\ Acts /\ UNCHANGED <<cookie, twitch, wish, budget>>

ChildDies == child' = [child EXCEPT !.at = "dead"] /\ Acts /\ UNCHANGED <<cookie, twitch, told, wish>>

ChildEnds == child.at = "ending" /\ ChildDies /\ UNCHANGED budget
ChildCrashes == child.at \in {"new", "polling", "granted", "mining"} /\ ChildDies /\ Mishap

Child == Reports \/ ShowCode \/ LoginFails \/ ChildEnds

\* authentication_deadline, of the handshake or of the code; without effect once the
\* child is authenticated.
Elapses ==
    /\ handle.on /\ ~handle.authed /\ ~handle.late
    /\ handle' = [handle EXCEPT !.late = TRUE]
    /\ UNCHANGED <<vars, method, status, cookie, twitch, child, told, job, history, budget>>

-----------------------------------------------------------------------------
(* The worker: commands *)

Idle == up /\ hand = 0 /\ job = NoJob

\* What becomes of the command that waits for the child.
Settled(result) ==
    IF attached = {} THEN UNCHANGED vars ELSE \E i \in attached : Resolve(i, result)

Returns(result) ==
    /\ job' = NoJob
    /\ IF hand = 0 THEN UNCHANGED vars ELSE Complete(result) /\ attached' = attached

LeaseNext == Idle /\ (\E i \in Queued : Lease(i)) /\ UNCHANGED loginVars

Drop == job = NoJob /\ Refuse /\ UNCHANGED loginVars

\* History: somebody has asked for what now begins.
Accept ==
    /\ Begin
    /\ LET action == cmds[hand].action
       IN  /\ job' = NewJob(action, IF action = "start" THEN "settle" ELSE "stop")
           /\ since' = IF action = "authenticate" THEN sessions ELSE since
           /\ wish' = IF action = "stop" THEN wish ELSE "asked"
    /\ UNCHANGED <<method, status, cookie, twitch, child, told, handle, budget>>

Gone == child' = NoChild /\ handle' = NoHandle /\ told' = <<>>

\* start_account: a living child takes the command over, a dead one is recorded.
Adopt ==
    /\ job.step = "settle" /\ handle.on /\ child.at # "dead"
    /\ IF handle.confirmed THEN Returns("succeeded")
       ELSE job' = NoJob /\ Attach
    /\ UNCHANGED <<method, status, cookie, twitch, child, told, handle, history, budget>>

SettleDead ==
    /\ job.step = "settle" /\ handle.on /\ child.at = "dead"
    /\ Settled("failed") /\ Gone
    /\ UNCHANGED <<method, status, cookie, twitch, job, history, budget>>

Prepare ==
    /\ job.step = "settle" /\ ~handle.on
    /\ job' = Snapshot("spawn")
    /\ UNCHANGED <<vars, method, status, cookie, twitch, child, told, handle, history, budget>>

\* The snapshot cannot be taken: nothing is touched.
SnapshotFails ==
    /\ \/ job.step = "settle" /\ ~handle.on
       \/ job.step = "stop" /\ job.op \in {"restart", "authenticate", "renew"}
    /\ Mishap /\ Returns("failed")
    /\ UNCHANGED <<method, status, cookie, twitch, child, told, handle, history>>

-----------------------------------------------------------------------------
(* stop_account *)

\* A dead child that nobody meant to stop is recorded first; the command of a living
\* one is cancelled.  The login fields are read here and written when it is dead.
StopBegins ==
    /\ job.step = "stop"
    /\ job' = [Snapshot("kill") EXCEPT !.was = status]
    /\ IF child.at = "dead" /\ job.op # "fail" THEN Settled("failed") /\ Gone
       ELSE /\ IF attached = {} THEN UNCHANGED vars
               ELSE \E i \in attached : FinishEarly(i, "cancelled")
            /\ UNCHANGED <<child, told, handle>>
    /\ UNCHANGED <<method, status, cookie, twitch, history, budget>>

\* A code that was shown when the stop began is withdrawn; anything else is written
\* back as it was.
StopEnds ==
    /\ job.step = "kill"
    /\ Settled("cancelled") /\ Gone
    /\ status' = IF job.was.is = "pending" THEN Shown("unlinked") ELSE job.was
    /\ job' = [job EXCEPT !.was = Shown("unlinked"),
                          !.step = CASE job.op \in {"restart", "renew"} -> "spawn"
                                     [] job.op = "authenticate" -> "remove"
                                     [] OTHER -> "done"]
    /\ UNCHANGED <<method, cookie, twitch, history, budget>>

StopReturns ==
    /\ job.step = "done"
    /\ Returns(IF job.op = "fail" THEN "failed" ELSE "succeeded")
    /\ UNCHANGED <<method, status, cookie, twitch, child, told, handle, history, budget>>

-----------------------------------------------------------------------------
(* authenticate_account, and the launch *)

\* Mutant: the runtime session is left where it is.
SessionKept ==
    /\ job.step = "remove"
    /\ status' = Shown("unlinked")
    /\ job' = [job EXCEPT !.step = "spawn"]
    /\ UNCHANGED <<vars, method, cookie, twitch, child, told, handle, history, budget>>

\* _remove_runtime_session
RemoveSession ==
    /\ job.step = "remove"
    /\ cookie' = 0 /\ status' = Shown("unlinked")
    /\ job' = [job EXCEPT !.step = "spawn"]
    /\ UNCHANGED <<vars, method, twitch, child, told, handle, history, budget>>

\* The removal or the launch fails, or the launch was cancelled by a stop.
LaunchFails ==
    /\ \/ job.step \in {"remove", "spawn"} /\ Mishap
       \/ job.step = "spawn" /\ desired[A] = "stopped" /\ UNCHANGED budget
    /\ Returns("failed")
    /\ UNCHANGED <<method, status, cookie, twitch, child, told, handle, history>>

Launch ==
    /\ job.step = "spawn" /\ desired[A] = "running"
    /\ child' = [NoChild EXCEPT !.at = "new", !.method = job.method]
    /\ handle' = [NoHandle EXCEPT !.on = TRUE] /\ told' = <<>>
    /\ job' = NoJob
    /\ IF hand = 0 THEN UNCHANGED vars ELSE Attach
    /\ wish' = "none"
    /\ UNCHANGED <<method, status, cookie, twitch, since, budget>>

-----------------------------------------------------------------------------
(* check_health *)

\* The desired state is read before the events are.
Visit ==
    /\ Idle /\ handle.on
    /\ job' = [NewJob("visit", "visit") EXCEPT !.view = desired[A]]
    /\ UNCHANGED <<vars, method, status, cookie, twitch, child, told, handle, history, budget>>

\* _fail_authentication: the account is stopped, then its child.
GiveUp ==
    /\ FailAuthentication(A)
    /\ status' = Shown("reauth_required")
    /\ job' = NewJob("fail", "stop")
    /\ UNCHANGED handle

Consume == told' = Tail(told)

\* _consume_control_events
Hear ==
    /\ job.step = "visit" /\ told # <<>>
    /\ CASE Head(told) = "device_code" ->
              status' = Pending(child.code) /\ Consume /\ UNCHANGED <<vars, handle, job>>
         [] Head(told) = "authenticated" ->
              /\ status' = Shown("authenticated") /\ handle' = [handle EXCEPT !.authed = TRUE, !.late = FALSE]
              /\ Consume /\ UNCHANGED <<vars, job>>
         [] OTHER -> Consume /\ GiveUp
    /\ UNCHANGED <<method, cookie, twitch, child, history, budget>>

\* Nothing is left, or the thread that drains the output has not queued it yet.
Consumed == job.step = "visit"

Dead == child.at = "dead"

\* Mutant: a child that died before it was authenticated has crashed.
NotAuthenticatedLate == ~Dead /\ ~handle.authed /\ handle.late

\* The child exited before the login was complete, or took too long over it.
NotAuthenticated == ~handle.authed /\ (Dead \/ handle.late)

HealthHalts ==
    /\ Consumed /\ job.view = "stopped"
    /\ job' = NewJob("halt", "stop")
    /\ UNCHANGED <<vars, method, status, cookie, twitch, child, told, handle, history, budget>>

HealthGivesUp ==
    /\ Consumed /\ job.view = "running" /\ NotAuthenticated
    /\ GiveUp
    /\ UNCHANGED <<method, cookie, twitch, child, told, history, budget>>

\* An accident; the recovery comes as a launch of the worker's own.
HealthExit ==
    /\ Consumed /\ job.view = "running" /\ Dead /\ ~NotAuthenticated
    /\ Settled("failed") /\ Gone /\ job' = NoJob
    /\ UNCHANGED <<method, status, cookie, twitch, history, budget>>

\* Mutant: the login fields are left alone.
StatusKept == UNCHANGED status

StatusConfirmed == status' = Shown("authenticated")

\* _confirm_startup, once the startup grace is over.
Confirm ==
    /\ Consumed /\ job.view = "running" /\ ~Dead
    /\ handle.authed /\ ~handle.confirmed
    /\ handle' = [handle EXCEPT !.confirmed = TRUE]
    /\ StatusConfirmed
    /\ Settled("succeeded") /\ job' = NoJob
    /\ UNCHANGED <<method, cookie, twitch, child, told, history, budget>>

HealthQuiet ==
    /\ Consumed /\ job.view = "running" /\ ~Dead /\ ~NotAuthenticated
    /\ job' = NoJob
    /\ UNCHANGED <<vars, method, status, cookie, twitch, child, told, handle, history, budget>>

-----------------------------------------------------------------------------
(* What the worker does of its own accord: it stops and starts what the desired state
   asks for, recovers, and restarts a child that has another configuration *)

Own(op, step) ==
    /\ Idle /\ job' = NewJob(op, step)
    /\ UNCHANGED <<vars, method, status, cookie, twitch, child, told, handle, history, budget>>

ReconcileStops == desired[A] = "stopped" /\ handle.on /\ Own("halt", "stop")
OwnLaunch      == desired[A] = "running" /\ ~handle.on /\ Own("start", "settle")
ConfigRestart  == handle.confirmed /\ ~Dead /\ Own("renew", "stop")

Forgets == Gone /\ job' = NoJob /\ wish' = "none" /\ UNCHANGED <<method, cookie, twitch, since>>

\* The child dies with the worker.
WorkerDies == Mishap /\ Crash /\ Forgets /\ UNCHANGED status

\* reconcile_startup withdraws a code that nobody polls for any more.
WorkerStarts ==
    /\ Startup
    /\ status' = IF status.is = "pending" THEN Shown("unlinked") ELSE status
    /\ Forgets /\ UNCHANGED budget

-----------------------------------------------------------------------------
Worker ==
    \/ LeaseNext \/ Drop \/ Accept
    \/ Adopt \/ SettleDead \/ Prepare \/ SnapshotFails
    \/ StopBegins \/ StopEnds \/ StopReturns
    \/ RemoveSession \/ LaunchFails \/ Launch
    \/ Visit \/ Hear \/ HealthHalts \/ HealthGivesUp \/ HealthExit \/ Confirm \/ HealthQuiet
    \/ ReconcileStops \/ OwnLaunch
    \/ WorkerStarts

LoginNext ==
    \/ \E action \in {"start", "stop", "restart"} : Request(action)
    \/ RequestTvAuthentication
    \/ Activated \/ Rejected \/ LosesSession \/ Child \/ ChildCrashes \/ Elapses
    \/ Worker \/ ConfigRestart \/ WorkerDies

\* The worker never blocks for ever, and comes back to the queue and to a child whose
\* startup grace is over.  A child goes on, and time does; whether the user activates
\* the code, and whether Twitch goes on accepting the session, is open.
LoginFairness ==
    /\ WF_allVars(Worker) /\ WF_allVars(Child \/ Elapses)
    /\ SF_allVars(LeaseNext) /\ SF_allVars(Confirm)

LoginSpec == LoginInit /\ [][LoginNext]_allVars /\ LoginFairness

-----------------------------------------------------------------------------
(* Properties *)

\* "Expired or rejected codes stop the account and require an explicit reconnect; the
\* worker never loops device codes" (README): when Twitch has refused the code of a
\* child, and nobody has asked for anything since that child was launched, the worker
\* launches no other of its own accord, in whatever order the refusal, the death of the
\* child and the commands reach it.
NeverLoops == [][child.at = "none" /\ child'.at = "new" /\ hand = 0 => wish # "refused"]_allVars

\* A reconnection that is reported as a success was made with a session that Twitch
\* granted after it began: neither a session that was saved before nor a word of the
\* child it replaced passes for it (authenticate_account).
ReconnectReplacesSession ==
    [][\A i \in Ids :
        /\ cmds[i].action = "authenticate"
        /\ cmds[i].status # "succeeded" /\ cmds'[i].status = "succeeded"
        => cookie' > since']_allVars

AuthenticationFailed == \E i \in Ids : cmds[i].action = "authenticate" /\ cmds[i].status = "failed"

\* A login that is shown as open comes to an end, also if a request clears the code
\* that the user was shown: the account is linked, must be linked again, is stopped,
\* or the request is reported to have failed (check_health, authentication_deadline).
LoginSettles ==
    desired[A] = "running" /\ status.is \in {"unlinked", "pending"}
        ~> \/ desired[A] = "stopped" \/ status.is \in {"authenticated", "reauth_required"}
           \/ AuthenticationFailed

=============================================================================
