--------------------------- MODULE MinerSupervisor ---------------------------
(***************************************************************************)
(* The single miner worker (controller/miner_supervisor.py): it carries    *)
(* out queued commands, owns one child process per running account,        *)
(* records every launch as a run, turns accidental exits into incidents    *)
(* and retries, and reconciles what it owns with the desired state.        *)
(*                                                                         *)
(* The worker is one thread.  A pass of its loop is a sequence of phases;  *)
(* a phase visits accounts one by one; a visit may start a job, which has  *)
(* several steps.  A step ends where the code commits a transaction, reads *)
(* or signals a child, so the web process, the children and the death of   *)
(* the worker interleave between steps.  SQLite runs in IMMEDIATE mode: a  *)
(* block under transaction.atomic is one step.                             *)
(*                                                                         *)
(* Not here: the wording of errors, the log archive, the contents of the   *)
(* Twitch session, archived accounts, and the lease of the worker itself.  *)
(***************************************************************************)
EXTENDS Naturals, Sequences, FiniteSets

CONSTANTS
    Accounts,       \* active accounts with credentials and channels
    NoAccount,      \* no account: the worker has no job
    Configs,        \* channel configurations, compared by fingerprint
    RapidAttempts,  \* len(options.rapid_restart_backoff)
    MaxCommands,    \* bound: command rows
    MaxRuns,        \* bound: run rows of an account in use at one time
    MaxAttempts,    \* bound: restart attempts of an account in use at one time
    MaxExits,       \* bound: children that exit on their own
    MaxFaults,      \* bound: failed signals, spawns, validations and writes
    MaxCrashes      \* bound: deaths of the worker

ASSUME SupervisorAssumption ==
    /\ NoAccount \notin Accounts
    /\ Configs # {}
    /\ {RapidAttempts, MaxCommands, MaxExits, MaxFaults, MaxCrashes} \subseteq Nat
    /\ {MaxRuns, MaxAttempts} \subseteq Nat \ {0}

VARIABLES
    \* the database
    desired,    \* MinerInstanceState.desired_state
    cmds,       \* MinerCommand rows, in creation order
    st,         \* the worker-owned fields of MinerInstanceState
    runs,       \* MinerRun rows: open until ended_at is set
    incident,   \* the account has an open MinerIncident
    attempts,   \* RestartAttempt rows
    config,     \* the effective channel configuration
    \* the operating system
    proc,       \* the child of each run, and what it said about Twitch
    \* the memory of the worker
    handle,     \* self.processes
    unfinished, \* self.pending_run_finalizations
    phase,      \* where in the loop
    todo,       \* accounts this phase still has to visit
    view,       \* desired states as read by reconciliation or a health visit
    job,        \* the operation under way
    \* history and bounds
    lastEnd,    \* how the last ended run of the account ended
    exits, faults, crashes

db  == <<desired, cmds, st, runs, incident, attempts, config, lastEnd>>
mem == <<handle, unfinished, phase, todo, view, job>>
budget == <<exits, faults, crashes>>
vars == <<db, proc, mem, budget>>

RunIds     == 1..MaxRuns
AttemptIds == 1..MaxAttempts

Observed == {"unknown", "starting", "running", "stopping", "stopped",
             "restarting", "degraded"}
Reasons  == {"planned", "authentication_failed", "unexpected_exit", "start_failed"}
Phases   == {"down", "boot", "flush", "commands", "health", "reconcile", "recover",
             "reconcileFp", "fingerprint", "quit"}
Ops      == {"start", "stop", "restart", "authenticate",         \* commands
             "halt", "retry", "authfail", "recover", "quit"}     \* the worker's own
Steps    == {"check", "settle", "launch", "stop1", "stop2", "stop3", "spawn",
             "tidy", "failed", "fallback"}

HandleOf(r, cmd, attempt) ==
    [run |-> r, confirmed |-> FALSE, cmd |-> cmd, attempt |-> attempt,
     cleanup |-> FALSE, planned |-> "none", authed |-> FALSE]
NoHandle == HandleOf(0, 0, 0)
NoRun    == [open |-> FALSE, confirmed |-> FALSE, config |-> CHOOSE c \in Configs : TRUE]
NoProc   == [os |-> "none", said |-> "none", heard |-> "none"]
NoTry    == [outcome |-> "none", when |-> "none", open |-> FALSE]
NoView   == [a \in Accounts |-> "none"]
NewJob(op, step, a) ==
    [op |-> op, step |-> step, a |-> a, cmd |-> 0, run |-> 0, attempt |-> 0, keep |-> FALSE]
NoJob    == NewJob("idle", "idle", NoAccount)

-----------------------------------------------------------------------------
(* Commands: the rows and rules of CommandQueue.  The command in hand is the *)
(* job's; attached are those that a child waits for.                        *)

Hand     == job.cmd
Checked  == job.cmd # 0 /\ job.step # "check"
Attached == {handle[a].cmd : a \in Accounts} \ {0, job.cmd}

Queue == INSTANCE CommandQueue
            WITH up <- phase # "down", hand <- Hand, checked <- Checked,
                 attached <- Attached

StateRow   == [observed: Observed, run: 0..MaxRuns, retry: {"none", "later", "due"},
               count: 0..RapidAttempts]
RunRow     == [open: BOOLEAN, confirmed: BOOLEAN, config: Configs]
AttemptRow == [outcome: {"none", "scheduled", "started", "succeeded", "failed"},
               when: {"none", "later", "due"}, open: BOOLEAN]
Process    == [os: {"none", "alive", "exited", "killed"},
               said: {"none", "ok", "failed"}, heard: {"none", "ok", "failed"}]
HandleRow  == [run: 0..MaxRuns, confirmed: BOOLEAN, cmd: 0..MaxCommands,
               attempt: 0..MaxAttempts, cleanup: BOOLEAN,
               planned: Reasons \cup {"none"}, authed: BOOLEAN]
JobRow     == [op: Ops, step: Steps, a: Accounts, cmd: 0..MaxCommands,
               run: 0..MaxRuns, attempt: 0..MaxAttempts, keep: BOOLEAN]

TypeOK ==
    /\ desired \in [Accounts -> {"running", "stopped"}]
    /\ cmds \in Seq(Queue!Command) /\ Len(cmds) <= MaxCommands
    /\ st \in [Accounts -> StateRow]
    /\ runs \in [Accounts -> [RunIds -> RunRow]]
    /\ incident \in [Accounts -> BOOLEAN]
    /\ attempts \in [Accounts -> [AttemptIds -> AttemptRow]]
    /\ config \in [Accounts -> Configs]
    /\ proc \in [Accounts -> [RunIds -> Process]]
    /\ handle \in [Accounts -> HandleRow]
    /\ unfinished \in [Accounts -> [RunIds -> Reasons \cup {"none"}]]
    /\ phase \in Phases
    /\ todo \subseteq Accounts
    /\ view \in [Accounts -> {"running", "stopped", "none"}]
    /\ job \in JobRow \cup {NoJob}
    /\ lastEnd \in [Accounts -> Reasons \cup {"none"}]
    /\ exits \in 0..MaxExits /\ faults \in 0..MaxFaults /\ crashes \in 0..MaxCrashes

\* The command table after finishing command i, if it is still leased.
Finished(table, i, status) ==
    [j \in 1..Len(table) |->
        IF j = i /\ table[j].status = "leased"
        THEN [table[j] EXCEPT !.status = status] ELSE table[j]]

NoActiveRestart(a) == \A i \in Queue!Active(a) : cmds[i].action # "restart"

-----------------------------------------------------------------------------
(* Rows and handles *)

Owned(a) == handle[a].run # 0
Child(a) == proc[a][handle[a].run].os
Alive(a) == Owned(a) /\ Child(a) = "alive"
Dead(a)  == Owned(a) /\ Child(a) # "alive"

Idle == job = NoJob

Fault   == faults < MaxFaults /\ faults' = faults + 1 /\ UNCHANGED <<exits, crashes>>
NoFault == UNCHANGED budget

\* A row that nothing refers to any more stands for a new one.
FreeRuns(a) ==
    {r \in RunIds : /\ ~runs[a][r].open /\ unfinished[a][r] = "none"
                    /\ r \notin {handle[a].run, st[a].run}
                    /\ job.a = a => r # job.run}

Pending(tries) == {k \in AttemptIds : tries[k].open /\ tries[k].outcome \in {"scheduled", "started"}}

FreeAttempt(a, tries) ==
    CHOOSE k \in AttemptIds : /\ k \notin Pending(tries) \cup {handle[a].attempt}
                              /\ job.a = a => k # job.attempt

\* _close_run: only a run that has not ended gets an end.  An ended row needs no
\* more detail than how it ended.
CloseRun(a, r, reason) ==
    /\ runs' = [runs EXCEPT ![a][r] = NoRun]
    /\ lastEnd' = IF runs[a][r].open THEN [lastEnd EXCEPT ![a] = reason] ELSE lastEnd

\* The worker drops the handle of a child that is dead and accounted for.
Forget(a) ==
    /\ handle' = [handle EXCEPT ![a] = NoHandle]
    /\ proc' = [proc EXCEPT ![a][handle[a].run] = NoProc]

\* _fail_restart_attempt: a success is never rewritten.
Failed(tries, k) ==
    [j \in AttemptIds |-> IF j = k /\ tries[j].outcome # "succeeded"
                          THEN [tries[j] EXCEPT !.outcome = "failed"] ELSE tries[j]]

\* Every pending attempt of the open incident fails.
Abandoned(tries, but) ==
    [j \in AttemptIds |-> IF j \in Pending(tries) \ {but}
                          THEN [tries[j] EXCEPT !.outcome = "failed"] ELSE tries[j]]

\* The attempts of an incident that is no longer open.
Detached(tries) == [j \in AttemptIds |-> [tries[j] EXCEPT !.open = FALSE]]

\* Mutant: a new attempt is scheduled beside the one that waits.
ScheduledAnew(a, state, tries, delay) ==
    [state |-> [state EXCEPT !.retry = delay, !.observed = "restarting"],
     tries |-> [tries EXCEPT ![FreeAttempt(a, tries)] =
                    [outcome |-> "scheduled", when |-> delay, open |-> TRUE]]]

\* _schedule_recovery: the scheduled attempt of the incident is used again.
Scheduled(a, state, tries, delay) ==
    LET waiting == {k \in Pending(tries) : tries[k].outcome = "scheduled"}
        k    == IF waiting # {} THEN CHOOSE j \in waiting : TRUE ELSE FreeAttempt(a, tries)
        when == IF waiting # {} THEN tries[k].when ELSE delay
    IN  [state |-> [state EXCEPT !.retry = when,
                                 !.observed = IF state.count < RapidAttempts
                                              THEN "restarting" ELSE "degraded"],
         tries |-> [tries EXCEPT ![k] = [outcome |-> "scheduled", when |-> when, open |-> TRUE]]]

\* _handle_unexpected_exit, one transaction.
RecordExit(a, schedule, evenIfStopped) ==
    LET h      == handle[a]
        halted == desired[a] = "stopped"
        state  == [st[a] EXCEPT !.run = 0]
        tries  == Failed(attempts[a], h.attempt)
        plan   == Scheduled(a, state, tries, "later")
    IN  /\ CloseRun(a, h.run, "unexpected_exit")
        /\ cmds' = Finished(cmds, h.cmd, "failed")
        /\ Forget(a)
        /\ IF halted /\ ~evenIfStopped THEN
              /\ st' = [st EXCEPT ![a] = [state EXCEPT !.observed = "stopped", !.retry = "none"]]
              /\ attempts' = [attempts EXCEPT ![a] = tries]
              /\ UNCHANGED incident
           ELSE IF schedule THEN
              /\ st' = [st EXCEPT ![a] = plan.state]
              /\ attempts' = [attempts EXCEPT ![a] = plan.tries]
              /\ incident' = [incident EXCEPT ![a] = TRUE]
           ELSE
              /\ st' = [st EXCEPT ![a] = [state EXCEPT !.observed = IF halted THEN "stopped" ELSE "unknown",
                                                       !.retry = "none"]]
              /\ attempts' = [attempts EXCEPT ![a] = IF halted THEN Detached(tries) ELSE tries]
              /\ incident' = [incident EXCEPT ![a] = ~halted]

-----------------------------------------------------------------------------
(* The web process *)

\* enqueue_command, on its own or from the account and login forms.
Request(a, action) ==
    /\ \/ Len(cmds) < MaxCommands
       \/ Queue!Stronger(a, action)
       \/ Queue!Repeated(a, action)
    /\ desired' = [desired EXCEPT ![a] = Queue!Wanted(action)]
    /\ cmds' = Queue!NewTable(a, action)
    /\ UNCHANGED <<st, runs, incident, attempts, config, lastEnd, proc, mem, budget>>

\* A new channel selection restarts an account that should be running.
ChangeConfig(a, c) ==
    /\ c # config[a]
    /\ config' = [config EXCEPT ![a] = c]
    /\ IF desired[a] = "running"
       THEN /\ \/ Len(cmds) < MaxCommands
               \/ Queue!Stronger(a, "restart")
               \/ Queue!Repeated(a, "restart")
            /\ cmds' = Queue!NewTable(a, "restart")
       ELSE UNCHANGED cmds
    /\ UNCHANGED <<desired, st, runs, incident, attempts, lastEnd, proc, mem, budget>>

-----------------------------------------------------------------------------
(* The children *)

\* A child reports that Twitch accepted its session, or that Twitch refused it,
\* at the login or at any later request.
ChildSpeaks(a, r, word) ==
    /\ proc[a][r].os = "alive"
    /\ <<proc[a][r].said, word>> \in {<<"none", "ok">>, <<"none", "failed">>, <<"ok", "failed">>}
    /\ proc' = [proc EXCEPT ![a][r].said = word]
    /\ UNCHANGED <<db, mem, budget>>

\* The thread that drains the output of a child queues what it reads.
Drain(a, r) ==
    /\ handle[a].run = r
    /\ proc[a][r].heard # proc[a][r].said
    /\ proc' = [proc EXCEPT ![a][r].heard = proc[a][r].said]
    /\ UNCHANGED <<db, mem, budget>>

\* A child exits on its own: a crash, or the end of an engine that gave up.
ChildExits(a, r) ==
    /\ proc[a][r].os = "alive"
    /\ exits < MaxExits /\ exits' = exits + 1
    /\ proc' = [proc EXCEPT ![a][r].os = "exited"]
    /\ UNCHANGED <<db, mem, faults, crashes>>

-----------------------------------------------------------------------------
(* Jobs: how they end *)

Step(name) == job' = [job EXCEPT !.step = name]

\* execute_command, or the caller of an operation without a command, sees the
\* operation return or raise.  A restart command that failed looks at the child
\* that is left.
Return(status) ==
    /\ cmds' = Finished(cmds, job.cmd, status)
    /\ job' = IF job.op = "restart" /\ job.cmd # 0 /\ status # "succeeded"
              THEN NewJob("restart", "fallback", job.a)
              ELSE NoJob

\* Entering a phase fixes the accounts it will visit and what it has read.
Enter(p) ==
    /\ phase' = p
    /\ todo' = CASE p \in {"health", "fingerprint", "quit"} -> {a \in Accounts : Owned(a)}
                 [] p \in {"reconcile", "reconcileFp"} -> Accounts
                 [] p = "recover" -> {a \in Accounts : desired[a] = "running" /\ st[a].retry = "due"}
                 [] OTHER -> {}
    /\ view' = IF p \in {"reconcile", "reconcileFp"} THEN desired ELSE NoView

SamePhase == UNCHANGED <<phase, todo, view>>

\* stop_account raises.  A command fails, a launch goes to its handler, and a
\* shutdown goes on with the next account; anywhere else the error ends the loop.
StopRaises ==
    CASE job.op \in {"stop", "start"} -> Return("failed") /\ SamePhase
      [] job.op \in {"restart", "authenticate"} -> Step("failed") /\ SamePhase /\ UNCHANGED cmds
      [] job.op = "quit" -> job' = NoJob /\ SamePhase /\ UNCHANGED cmds
      [] OTHER -> job' = NoJob /\ Enter("quit") /\ UNCHANGED cmds

-----------------------------------------------------------------------------
(* The command loop *)

LeaseNext ==
    /\ phase \in {"boot", "commands"} /\ Idle
    /\ \E i \in Queue!Queued :
         /\ \A j \in Queue!Queued : i <= j
         /\ cmds' = Queue!Mark(cmds, {i}, "leased")
         /\ job' = [NewJob(cmds[i].action, "check", cmds[i].acct) EXCEPT !.cmd = i]
    /\ SamePhase /\ NoFault
    /\ UNCHANGED <<desired, st, runs, incident, attempts, config, lastEnd, proc, handle, unfinished>>

\* Mutant: a command is carried out whatever happened since it was queued.
AlwaysWanted == TRUE

StillWanted ==
    /\ ~Queue!Superseded(job.cmd)
    /\ desired[job.a] = Queue!Wanted(cmds[job.cmd].action)

Refuse ==
    /\ job.step = "check" /\ ~StillWanted
    /\ Return("cancelled")
    /\ SamePhase /\ NoFault
    /\ UNCHANGED <<desired, st, runs, incident, attempts, config, lastEnd, proc, handle, unfinished>>

Accept ==
    /\ job.step = "check" /\ StillWanted
    /\ Step(CASE job.op = "start" -> "settle"
               [] job.op = "stop" -> "stop1"
               [] OTHER -> "launch")
    /\ SamePhase /\ NoFault
    /\ UNCHANGED <<db, proc, handle, unfinished>>

\* Mutant: any child alive counts as healthy.
HealthyIfAlive(a) == Alive(a) /\ desired[a] = "running" /\ NoActiveRestart(a)

\* _recover_incident_for_healthy_fallback: every restart is over and the old
\* child is healthy after all.
Healthy(a) ==
    /\ Alive(a) /\ handle[a].confirmed /\ ~handle[a].cleanup
    /\ handle[a].planned = "none"
    /\ desired[a] = "running" /\ st[a].run = handle[a].run
    /\ NoActiveRestart(a)

Fallback ==
    /\ job.step = "fallback"
    /\ LET a == job.a
       IN  /\ incident' = [incident EXCEPT ![a] = @ /\ ~Healthy(a)]
           /\ attempts' = IF Healthy(a) THEN [attempts EXCEPT ![a] = Detached(@)] ELSE attempts
    /\ job' = NoJob
    /\ SamePhase /\ NoFault
    /\ UNCHANGED <<desired, cmds, st, runs, config, lastEnd, proc, handle, unfinished>>

-----------------------------------------------------------------------------
(* Launching a child: start_account, restart_account, authenticate_account   *)
(* and the second half of _perform_due_recoveries.  A is the account of the  *)
(* job.                                                                      *)

A == job.a

Unclosed(a) == {r \in RunIds : unfinished[a][r] # "none"}

\* _flush_pending_run_finalizations closes what it can.
CloseUnfinished(a, S) ==
    /\ runs' = [runs EXCEPT ![a] = [r \in RunIds |-> IF r \in S THEN NoRun ELSE @[r]]]
    /\ LET ended == {r \in S : runs[a][r].open}
       IN  lastEnd' = IF ended = {} THEN lastEnd
                      ELSE [lastEnd EXCEPT ![a] = unfinished[a][CHOOSE r \in ended : TRUE]]
    /\ unfinished' = [unfinished EXCEPT ![a] = [r \in RunIds |-> IF r \in S THEN "none" ELSE @[r]]]

\* Nothing is launched while an earlier run lacks its end.  An authentication
\* does not look.
LaunchFlush ==
    /\ \/ job.step = "settle"
       \/ job.step = "launch" /\ job.op = "restart"
    /\ Unclosed(A) # {}
    /\ \E S \in SUBSET Unclosed(A) :
         /\ CloseUnfinished(A, S)
         /\ IF S = Unclosed(A) THEN NoFault /\ UNCHANGED <<job, cmds>>
                              ELSE Fault /\ Return("failed")
    /\ SamePhase
    /\ UNCHANGED <<desired, st, incident, attempts, config, proc, handle>>

\* _reconcile_required_cleanup: the child of a launch that was rolled back is
\* killed, its run closed, and only then the handle dropped.
TidyDone(a) ==
    LET h     == handle[a]
        gone  == [st[a] EXCEPT !.run = 0]
        tries == Failed(attempts[a], h.attempt)
        plan  == Scheduled(a, gone, tries, "later")
    IN  /\ CloseRun(a, h.run, "start_failed")
        /\ Forget(a)
        /\ IF incident[a] /\ desired[a] = "running"
           THEN /\ st' = [st EXCEPT ![a] = plan.state]
                /\ attempts' = [attempts EXCEPT ![a] = plan.tries]
           ELSE /\ st' = [st EXCEPT ![a] =
                            IF desired[a] = "running"
                            THEN [gone EXCEPT !.observed = "degraded", !.retry = "later"]
                            ELSE [gone EXCEPT !.observed = "stopped", !.retry = "none"]]
                /\ attempts' = [attempts EXCEPT ![a] = tries]

\* The signal fails and the child lives on, or the child is dead and its run
\* cannot be closed.
TidyFails(a) ==
    /\ Fault
    /\ \/ UNCHANGED proc
       \/ Alive(a) /\ proc' = [proc EXCEPT ![a][handle[a].run].os = "killed"]
    /\ st' = [st EXCEPT ![a].observed = "degraded"]
    /\ UNCHANGED <<runs, lastEnd, handle, attempts>>

\* start_account first settles whatever is left of the child before.
SettleTidy ==
    /\ job.step = "settle" /\ Unclosed(A) = {} /\ handle[A].cleanup
    /\ \/ /\ TidyDone(A) /\ NoFault
          /\ cmds' = Finished(cmds, handle[A].cmd, "failed")
          /\ UNCHANGED job
       \/ /\ TidyFails(A)
          /\ IF handle[A].planned = "none" THEN Return("failed")
             ELSE UNCHANGED cmds /\ job' = [job EXCEPT !.step = "stop1", !.keep = TRUE]
    /\ SamePhase
    /\ UNCHANGED <<desired, incident, config, unfinished>>

Settled == /\ job.step = "settle" /\ Unclosed(A) = {} /\ ~handle[A].cleanup
           /\ SamePhase
           /\ UNCHANGED <<desired, config, unfinished>>

\* A stop whose run could not be closed is carried through first.
SettleStop ==
    /\ Settled /\ handle[A].planned # "none"
    /\ job' = [job EXCEPT !.step = "stop1", !.keep = TRUE]
    /\ NoFault
    /\ UNCHANGED <<cmds, st, runs, incident, attempts, lastEnd, proc, handle>>

\* Mutant: the launch does not look for a child that is already there.
SettleBlind ==
    /\ Settled
    /\ Step("launch")
    /\ NoFault
    /\ UNCHANGED <<cmds, st, runs, incident, attempts, lastEnd, proc, handle>>

SettleFree ==
    /\ Settled /\ ~Owned(A)
    /\ Step("launch")
    /\ NoFault
    /\ UNCHANGED <<cmds, st, runs, incident, attempts, lastEnd, proc, handle>>

\* Mutant: a child that a start takes over counts as confirmed.
AdoptConfirms ==
    /\ Settled /\ handle[A].planned = "none" /\ Alive(A)
    /\ Return("succeeded")
    /\ handle' = [handle EXCEPT ![A].confirmed = TRUE]
    /\ NoFault
    /\ UNCHANGED <<st, runs, incident, attempts, lastEnd, proc>>

\* A start is satisfied by a child that is already there; if that child is not
\* confirmed yet, the command waits for it in the place of an earlier one.
Adopt ==
    /\ Settled /\ handle[A].planned = "none" /\ Alive(A)
    /\ IF handle[A].confirmed
       THEN Return("succeeded") /\ UNCHANGED handle
       ELSE /\ cmds' = Finished(cmds, handle[A].cmd, "cancelled")
            /\ handle' = [handle EXCEPT ![A].cmd = job.cmd]
            /\ job' = NoJob
    /\ NoFault
    /\ UNCHANGED <<st, runs, incident, attempts, lastEnd, proc>>

\* A start command that finds a dead child records the accident and launches.
SettleDead ==
    /\ Settled /\ handle[A].planned = "none" /\ Dead(A)
    /\ \/ /\ RecordExit(A, FALSE, FALSE) /\ NoFault
          /\ Step("launch")
       \/ /\ Fault
          /\ Return("failed")
          /\ UNCHANGED <<st, runs, incident, attempts, lastEnd, proc, handle>>

\* create_launch_snapshot and, for a start or a restart, _take_over_recovery:
\* the run row is written before any healthy child is touched, and the attempts
\* of the open incident fail, except that of a child still alive.
Launch ==
    /\ job.step = "launch"
    /\ job.op = "restart" => Unclosed(A) = {}
    /\ FreeRuns(A) # {}
    /\ LET r == CHOOSE r \in FreeRuns(A) : TRUE
           spared == IF job.op = "restart" /\ Alive(A) THEN handle[A].attempt ELSE 0
       IN  /\ runs' = [runs EXCEPT ![A][r] = [open |-> TRUE, confirmed |-> FALSE,
                                              config |-> config[A]]]
           /\ job' = [job EXCEPT !.run = r,
                                 !.step = IF job.op \in {"start", "recover"} THEN "spawn" ELSE "stop1",
                                 !.keep = TRUE]
           /\ IF job.op \in {"start", "restart"}
              THEN /\ attempts' = [attempts EXCEPT ![A] = Abandoned(@, spared)]
                   /\ st' = [st EXCEPT ![A] =
                               [st[A] EXCEPT !.retry = "none",
                                             !.count = IF job.cmd # 0 THEN 0 ELSE st[A].count,
                                             !.observed = IF job.op = "restart" THEN "restarting"
                                                          ELSE st[A].observed]]
              ELSE UNCHANGED <<attempts, st>>
    /\ SamePhase /\ NoFault
    /\ UNCHANGED <<desired, cmds, incident, config, lastEnd, proc, handle, unfinished>>

\* The channels do not resolve, or the snapshot cannot be written.
LaunchRefused ==
    /\ job.step = "launch" /\ Fault
    /\ job.op = "restart" => Unclosed(A) = {}
    /\ IF job.op = "authenticate" THEN Return("failed")
                                  ELSE Step("failed") /\ UNCHANGED cmds
    /\ SamePhase
    /\ UNCHANGED <<desired, st, runs, incident, attempts, config, lastEnd, proc, handle, unfinished>>

-----------------------------------------------------------------------------
(* stop_account, on its own or inside another operation *)

\* Mutant: a stop that is carried on takes the reason of the operation at hand.
FreshReason == IF job.op = "authfail" THEN "authentication_failed" ELSE "planned"

StopReason == IF handle[A].planned # "none" THEN handle[A].planned
              ELSE IF job.op = "authfail" THEN "authentication_failed" ELSE "planned"

\* Mutant: the reason is written where the observed state belongs.
ReasonShown == StopReason

\* What the account shows when the stop is done.
FinalObserved ==
    CASE job.op \in {"stop", "halt", "authfail"} -> "stopped"
      [] job.op = "retry"        -> IF job.keep THEN "restarting" ELSE "stopped"
      [] job.op = "restart"      -> "restarting"
      [] job.op = "authenticate" -> "starting"
      [] job.op \in {"start", "quit"} -> "unknown"

\* A child that died before the stop reached it is an accident, even when the
\* account is wanted stopped by now.
StopFindsDead ==
    /\ job.step = "stop1" /\ Dead(A) /\ handle[A].planned = "none"
    /\ \/ /\ RecordExit(A, FALSE, TRUE) /\ NoFault
          /\ SamePhase /\ UNCHANGED job
       \/ /\ Fault /\ StopRaises
          /\ UNCHANGED <<st, runs, incident, attempts, lastEnd, proc, handle>>
    /\ UNCHANGED <<desired, config, unfinished>>

\* The command that waits for the child is cancelled, unless it is the one being
\* executed.
StopBegins ==
    /\ job.step = "stop1" /\ ~(Dead(A) /\ handle[A].planned = "none")
    /\ st' = [st EXCEPT ![A].observed = "stopping", ![A].retry = "none"]
    /\ cmds' = IF handle[A].cmd = job.cmd THEN cmds ELSE Finished(cmds, handle[A].cmd, "cancelled")
    /\ Step("stop2")
    /\ SamePhase /\ NoFault
    /\ UNCHANGED <<desired, runs, incident, attempts, config, lastEnd, proc, handle, unfinished>>

\* _terminate_owned_process returns once the child is dead, whether it was
\* signalled or had died meanwhile; its run is closed and the handle dropped.
Terminate ==
    /\ job.step = "stop2"
    /\ IF Owned(A)
       THEN /\ CloseRun(A, handle[A].run, StopReason)
            /\ attempts' = [attempts EXCEPT ![A] = Failed(@, handle[A].attempt)]
            /\ Forget(A)
       ELSE /\ IF st[A].run # 0 THEN CloseRun(A, st[A].run, StopReason) ELSE UNCHANGED <<runs, lastEnd>>
            /\ UNCHANGED <<attempts, handle, proc>>
    /\ Step("stop3")
    /\ SamePhase /\ NoFault
    /\ UNCHANGED <<desired, cmds, st, incident, config, unfinished>>

\* Mutant: the run is closed before the signals are sent.
TerminateClosesFirst ==
    /\ job.step = "stop2" /\ Alive(A) /\ Fault
    /\ StopRaises
    /\ CloseRun(A, handle[A].run, StopReason)
    /\ st' = [st EXCEPT ![A].observed = "degraded"]
    /\ UNCHANGED <<desired, incident, attempts, config, proc, handle, unfinished>>

\* The child survives the signals: the handle stays and the stop raises.
TerminateFails ==
    /\ job.step = "stop2" /\ Alive(A) /\ Fault
    /\ StopRaises
    /\ st' = [st EXCEPT ![A].observed = "degraded"]
    /\ UNCHANGED <<desired, runs, incident, attempts, config, lastEnd, proc, handle, unfinished>>

\* The child is dead but its run cannot be closed: the handle stays and remembers
\* why, so that no later pass takes the exit for a crash.
CloseFails ==
    /\ job.step = "stop2" /\ Owned(A) /\ Fault
    /\ StopRaises
    /\ st' = [st EXCEPT ![A].observed = "degraded"]
    /\ attempts' = [attempts EXCEPT ![A] = Failed(@, handle[A].attempt)]
    /\ handle' = [handle EXCEPT ![A].planned = StopReason]
    /\ proc' = [proc EXCEPT ![A][handle[A].run].os = IF @ = "alive" THEN "killed" ELSE @]
    /\ UNCHANGED <<desired, runs, incident, config, lastEnd, unfinished>>

\* An intentional stop also ends the open incident.
StopDone ==
    /\ job.step = "stop3"
    /\ st' = [st EXCEPT ![A].run = 0, ![A].observed = FinalObserved]
    /\ incident' = [incident EXCEPT ![A] = @ /\ job.keep]
    /\ attempts' = IF job.keep THEN attempts
                   ELSE [attempts EXCEPT ![A] = Detached(Abandoned(@, 0))]
    /\ CASE job.op = "stop" -> Return("succeeded")
         [] job.op = "authfail" -> Return("failed")
         [] job.op \in {"halt", "retry", "quit"} -> job' = NoJob /\ UNCHANGED cmds
         [] job.op \in {"restart", "authenticate"} -> Step("spawn") /\ UNCHANGED cmds
         [] job.op = "start" -> Step("settle") /\ UNCHANGED cmds
    /\ SamePhase /\ NoFault
    /\ UNCHANGED <<desired, runs, config, lastEnd, proc, handle, unfinished>>

-----------------------------------------------------------------------------
(* _spawn_snapshot inside the transaction that locks the desired state *)

\* A stop committed first: the launch is cancelled.  A recovery keeps the
\* cancellation; elsewhere the error rolls it back and the handler repeats it.
SpawnCancelled ==
    /\ job.step = "spawn" /\ desired[A] = "stopped"
    /\ IF job.op = "recover"
       THEN /\ CloseRun(A, job.run, "start_failed")
            /\ attempts' = [attempts EXCEPT ![A] = Failed(@, job.attempt)]
            /\ st' = [st EXCEPT ![A] = [@ EXCEPT !.run = 0, !.retry = "none", !.observed = "stopped"]]
            /\ job' = NoJob
       ELSE /\ Step("failed")
            /\ UNCHANGED <<runs, lastEnd, attempts, st>>
    /\ SamePhase /\ NoFault
    /\ UNCHANGED <<desired, cmds, incident, config, proc, handle, unfinished>>

\* Mutant: the child is not told which command waits for it.
HandleWithoutCommand == HandleOf(job.run, 0, job.attempt)

NewHandle == HandleOf(job.run, job.cmd, job.attempt)

\* The command stays leased; the health pass confirms the child later.
Spawn ==
    /\ job.step = "spawn" /\ desired[A] = "running"
    /\ proc' = [proc EXCEPT ![A][job.run] = [NoProc EXCEPT !.os = "alive"]]
    /\ handle' = [handle EXCEPT ![A] = NewHandle]
    /\ st' = [st EXCEPT ![A] = [@ EXCEPT !.run = job.run, !.observed = "starting", !.retry = "none"]]
    /\ job' = NoJob
    /\ SamePhase /\ NoFault
    /\ UNCHANGED <<desired, cmds, runs, incident, attempts, config, lastEnd, unfinished>>

\* No child comes of it: Popen fails, the session of an authentication cannot be
\* removed, or the child is killed again because its rows cannot be written.
SpawnFails ==
    /\ job.step = "spawn" /\ desired[A] = "running" /\ Fault
    /\ Step("failed")
    /\ SamePhase
    /\ UNCHANGED <<db, proc, handle, unfinished>>

\* There is a child, but the transaction that says so is rolled back.
SpawnUnrecorded ==
    /\ job.step = "spawn" /\ desired[A] = "running" /\ Fault
    /\ \E os \in {"alive", "killed"} :
         proc' = [proc EXCEPT ![A][job.run] = [NoProc EXCEPT !.os = os]]
    /\ handle' = [handle EXCEPT ![A] = [NewHandle EXCEPT !.cleanup = TRUE]]
    /\ Step(IF job.op = "recover" THEN "failed" ELSE "tidy")
    /\ SamePhase
    /\ UNCHANGED <<db, unfinished>>

SpawnTidy ==
    /\ job.step = "tidy"
    /\ \/ TidyDone(A) /\ NoFault /\ cmds' = Finished(cmds, handle[A].cmd, "failed")
       \/ TidyFails(A) /\ UNCHANGED cmds
    /\ IF job.op = "recover" THEN job' = NoJob ELSE Step("failed")
    /\ SamePhase
    /\ UNCHANGED <<desired, incident, config, unfinished>>

-----------------------------------------------------------------------------
(* The handlers of a launch that failed *)

\* The new child exists, but no committed row says so.
Provisional == job.run # 0 /\ handle[A].run = job.run

\* _finalize_or_remember
Finalize(reason) ==
    IF job.run = 0 \/ Provisional
    THEN NoFault /\ UNCHANGED <<runs, lastEnd, unfinished>>
    ELSE \/ CloseRun(A, job.run, reason) /\ NoFault /\ UNCHANGED unfinished
         \/ /\ Fault
            /\ unfinished' = [unfinished EXCEPT ![A][job.run] = reason]
            /\ UNCHANGED <<runs, lastEnd>>

\* The old child lived through a restart that failed.
Survivor == Alive(A) /\ ~Provisional

\* Mutant: every surviving child shows as running.
SurvivorShown == IF Survivor THEN "running" ELSE "degraded"

ShownAfterFailure == IF Survivor /\ handle[A].confirmed THEN "running" ELSE "degraded"

\* start_account and restart_account.  A launch that never took over the open
\* incident leaves its scheduled attempt alone.
LaunchFailed ==
    /\ job.step = "failed" /\ job.op \in {"start", "restart"}
    /\ Finalize("start_failed")
    /\ LET untouched == /\ job.run = 0
                        /\ \E k \in Pending(attempts[A]) : attempts[A][k].outcome = "scheduled"
           state == [st[A] EXCEPT !.observed = ShownAfterFailure,
                                  !.retry = IF Survivor THEN "none" ELSE "later"]
           plan == Scheduled(A, state, attempts[A], "later")
       IN  IF desired[A] = "stopped" THEN
              /\ st' = [st EXCEPT ![A].observed = "stopped", ![A].retry = "none"]
              /\ UNCHANGED attempts
           ELSE IF untouched THEN UNCHANGED <<st, attempts>>
           ELSE IF ~Owned(A) /\ incident[A] THEN
              /\ st' = [st EXCEPT ![A] = plan.state]
              /\ attempts' = [attempts EXCEPT ![A] = plan.tries]
           ELSE st' = [st EXCEPT ![A] = state] /\ UNCHANGED attempts
    /\ Return("failed")
    /\ SamePhase
    /\ UNCHANGED <<desired, incident, config, proc, handle>>

\* authenticate_account
ResetFailed ==
    /\ job.step = "failed" /\ job.op = "authenticate"
    /\ Finalize("authentication_failed")
    /\ Return("failed")
    /\ SamePhase
    /\ UNCHANGED <<desired, st, incident, attempts, config, proc, handle>>

\* _perform_due_recoveries
RecoveryFailed ==
    /\ job.step = "failed" /\ job.op = "recover"
    /\ Finalize("start_failed")
    /\ LET gone  == [st[A] EXCEPT !.run = 0]
           tries == Failed(attempts[A], job.attempt)
           plan  == Scheduled(A, gone, tries, "later")
       IN  IF desired[A] = "stopped"
           THEN /\ st' = [st EXCEPT ![A] = [gone EXCEPT !.observed = "stopped", !.retry = "none"]]
                /\ attempts' = [attempts EXCEPT ![A] = tries]
           ELSE /\ st' = [st EXCEPT ![A] = plan.state]
                /\ attempts' = [attempts EXCEPT ![A] = plan.tries]
    /\ IF Provisional THEN Step("tidy") ELSE job' = NoJob
    /\ SamePhase
    /\ UNCHANGED <<desired, cmds, incident, config, proc, handle>>

-----------------------------------------------------------------------------
(* The health pass *)

Visit(a) ==
    /\ Idle /\ a \in todo
    /\ todo' = todo \ {a}
    /\ view' = IF phase = "health" THEN NoView ELSE view
    /\ UNCHANGED phase

\* The visit begins an operation without a command.
Begin(op, step, a) == job' = NewJob(op, step, a)

Heard(a) == proc[a][handle[a].run].heard
Authed(a) == handle[a].authed \/ Heard(a) = "ok"

\* The visit first reads the desired state, and decides on what it read.
HealthLook(a) ==
    /\ phase = "health" /\ Idle /\ a \in todo /\ view = NoView
    /\ ~handle[a].cleanup
    /\ view' = [view EXCEPT ![a] = desired[a]]
    /\ NoFault
    /\ UNCHANGED <<db, proc, handle, unfinished, phase, todo, job>>

\* The order of the tests in check_health: each of these is reached only when none
\* of those before it applies.
Sound(a)  == phase = "health" /\ view[a] # "none" /\ Heard(a) # "failed"
Needed(a) == Sound(a) /\ handle[a].planned = "none" /\ view[a] = "running"
Living(a) == Needed(a) /\ Alive(a)

Examined(a) == phase = "health" /\ Visit(a) /\ UNCHANGED <<config, unfinished>>

HealthTidy(a) ==
    /\ Examined(a) /\ view = NoView /\ handle[a].cleanup
    /\ \/ TidyDone(a) /\ NoFault /\ cmds' = Finished(cmds, handle[a].cmd, "failed")
       \/ TidyFails(a) /\ UNCHANGED cmds
    /\ UNCHANGED <<desired, incident, job>>

\* _fail_authentication writes the desired state, then stops the account.
GiveUpLogin(a) ==
    /\ desired' = [desired EXCEPT ![a] = "stopped"]
    /\ handle' = [handle EXCEPT ![a].planned = "authentication_failed", ![a].authed = Authed(a)]
    /\ job' = [NewJob("authfail", "stop1", a) EXCEPT !.cmd = handle[a].cmd]
    /\ NoFault
    /\ UNCHANGED <<cmds, st, runs, incident, attempts, lastEnd, proc>>

\* The child said that Twitch refuses it; it exited before Twitch accepted it;
\* or the handshake took too long.
LoginRefused(a) ==
    /\ Examined(a) /\ view[a] # "none" /\ Heard(a) = "failed"
    /\ GiveUpLogin(a)
LoginCutShort(a) == Examined(a) /\ Needed(a) /\ Dead(a) /\ ~Authed(a) /\ GiveUpLogin(a)
LoginTimesOut(a) == Examined(a) /\ Living(a) /\ ~Authed(a) /\ GiveUpLogin(a)

HealthRetry(a) ==
    /\ Examined(a) /\ Sound(a) /\ handle[a].planned # "none"
    /\ job' = [NewJob("retry", "stop1", a) EXCEPT !.keep = view[a] = "running"]
    /\ handle' = [handle EXCEPT ![a].authed = Authed(a)]
    /\ NoFault
    /\ UNCHANGED <<desired, cmds, st, runs, incident, attempts, lastEnd, proc>>

HealthHalt(a) ==
    /\ Examined(a) /\ Sound(a) /\ handle[a].planned = "none" /\ view[a] = "stopped"
    /\ Begin("halt", "stop1", a)
    /\ handle' = [handle EXCEPT ![a].authed = Authed(a)]
    /\ NoFault
    /\ UNCHANGED <<desired, cmds, st, runs, incident, attempts, lastEnd, proc>>

\* An accident: all of its bookkeeping commits, or the handle stays for the next
\* pass.
HealthExit(a) ==
    /\ Examined(a) /\ Needed(a) /\ Dead(a) /\ Authed(a)
    /\ \/ RecordExit(a, TRUE, FALSE) /\ NoFault
       \/ /\ Fault
          /\ handle' = [handle EXCEPT ![a].authed = TRUE]
          /\ UNCHANGED <<cmds, st, runs, incident, attempts, lastEnd, proc>>
    /\ UNCHANGED <<desired, job>>

\* _confirm_startup, one transaction.  The attempt of a recovery succeeds only if
\* nobody took the incident over.
Confirm(a) ==
    /\ Examined(a) /\ Living(a) /\ Authed(a) /\ ~handle[a].confirmed
    /\ LET h == handle[a]
           mine == h.attempt # 0 /\ attempts[a][h.attempt].outcome = "started"
           closes == h.attempt = 0 \/ mine \/ (desired[a] = "running" /\ NoActiveRestart(a))
           tries == IF mine THEN [attempts[a] EXCEPT ![h.attempt].outcome = "succeeded"]
                            ELSE attempts[a]
       IN  /\ runs[a][h.run].open
           /\ runs' = [runs EXCEPT ![a][h.run].confirmed = TRUE]
           /\ st' = [st EXCEPT ![a].observed = "running", ![a].retry = "none"]
           /\ cmds' = Finished(cmds, h.cmd, "succeeded")
           /\ attempts' = [attempts EXCEPT ![a] = IF closes THEN Detached(tries) ELSE tries]
           /\ incident' = [incident EXCEPT ![a] = @ /\ ~closes]
           /\ handle' = [handle EXCEPT ![a] = [@ EXCEPT !.confirmed = TRUE, !.authed = TRUE,
                                                        !.cmd = 0, !.attempt = 0]]
    /\ NoFault
    /\ UNCHANGED <<desired, job, proc, lastEnd>>

\* The transaction fails: the error ends the loop.
ConfirmFails(a) ==
    /\ Idle /\ Living(a) /\ Authed(a) /\ ~handle[a].confirmed
    /\ Fault /\ Enter("quit")
    /\ handle' = [handle EXCEPT ![a].authed = TRUE]
    /\ UNCHANGED <<db, proc, unfinished, job>>

\* Nothing to do yet; a child that stayed up long enough clears the count.
HealthQuiet(a) ==
    /\ Examined(a) /\ Living(a)
    /\ handle' = [handle EXCEPT ![a].authed = Authed(a)]
    /\ \/ UNCHANGED st
       \/ handle[a].confirmed /\ st[a].count # 0 /\ st' = [st EXCEPT ![a].count = 0]
    /\ NoFault
    /\ UNCHANGED <<desired, cmds, runs, incident, attempts, lastEnd, proc, job>>

-----------------------------------------------------------------------------
(* reconcile_desired_state decides on the desired states it read at its start *)

ReconcileStopped(a) ==
    /\ phase \in {"reconcile", "reconcileFp"} /\ view[a] = "stopped"
    /\ Visit(a)
    /\ IF Owned(a)
       THEN Begin("halt", "stop1", a) /\ UNCHANGED <<st, incident, attempts>>
       ELSE /\ IF desired[a] = "stopped"
               THEN /\ st' = [st EXCEPT ![a] = [@ EXCEPT !.run = 0, !.retry = "none", !.observed = "stopped"]]
                    /\ incident' = [incident EXCEPT ![a] = FALSE]
                    /\ attempts' = [attempts EXCEPT ![a] = Detached(Abandoned(@, 0))]
               ELSE UNCHANGED <<st, incident, attempts>>
            /\ UNCHANGED job
    /\ NoFault
    /\ UNCHANGED <<desired, cmds, runs, config, lastEnd, proc, handle, unfinished>>

\* An account that should run and has neither a child nor a retry to wait for.
ReconcileRunning(a) ==
    /\ phase \in {"reconcile", "reconcileFp"} /\ view[a] = "running"
    /\ Visit(a)
    /\ IF ~Owned(a) /\ st[a].retry = "none" THEN Begin("start", "settle", a) ELSE UNCHANGED job
    /\ NoFault
    /\ UNCHANGED <<db, proc, handle, unfinished>>

-----------------------------------------------------------------------------
(* _perform_due_recoveries *)

\* Mutant: after the rapid attempts no other comes due.
DueRapidly(a) ==
    IF st[a].count < RapidAttempts
    THEN {k \in Pending(attempts[a]) : attempts[a][k].outcome = "scheduled" /\ attempts[a][k].when = "due"}
    ELSE {}

Due(a) == {k \in Pending(attempts[a]) : attempts[a][k].outcome = "scheduled" /\ attempts[a][k].when = "due"}

RecoverPass(a) ==
    /\ phase = "recover" /\ Visit(a)
    /\ UNCHANGED <<desired, cmds, runs, incident, config, lastEnd, proc, handle, unfinished>>

RecoverSkip(a) ==
    /\ RecoverPass(a) /\ Owned(a)
    /\ NoFault /\ UNCHANGED <<st, attempts, job>>

\* A run without its end is closed first; if that fails the account waits.
RecoverFlush(a) ==
    /\ phase = "recover" /\ Idle /\ a \in todo /\ ~Owned(a) /\ Unclosed(a) # {}
    /\ \E S \in SUBSET Unclosed(a) :
         /\ CloseUnfinished(a, S)
         /\ IF S = Unclosed(a) THEN NoFault /\ UNCHANGED todo ELSE Fault /\ todo' = todo \ {a}
    /\ UNCHANGED <<desired, cmds, st, incident, attempts, config, proc, handle, phase, view, job>>

RecoverPlain(a) ==
    /\ RecoverPass(a) /\ ~Owned(a) /\ Unclosed(a) = {} /\ ~incident[a]
    /\ Begin("start", "settle", a)
    /\ NoFault /\ UNCHANGED <<st, attempts>>

\* The incident is open but no attempt is due: one is scheduled.
RecoverSchedule(a) ==
    /\ RecoverPass(a) /\ ~Owned(a) /\ Unclosed(a) = {} /\ incident[a] /\ Due(a) = {}
    /\ LET plan == Scheduled(a, st[a], attempts[a], "later")
       IN  /\ st' = [st EXCEPT ![a] = plan.state]
           /\ attempts' = [attempts EXCEPT ![a] = plan.tries]
    /\ NoFault /\ UNCHANGED job

\* The attempt and the state of its account are claimed together, unless a stop
\* has arrived since the pass began.
RecoverClaim(a) ==
    /\ RecoverPass(a) /\ ~Owned(a) /\ Unclosed(a) = {} /\ incident[a]
    /\ \E k \in Due(a) :
         IF desired[a] = "running"
         THEN /\ st' = [st EXCEPT ![a] = [st[a] EXCEPT !.retry = "none", !.observed = "restarting",
                                !.count = IF st[a].count < RapidAttempts
                                          THEN st[a].count + 1 ELSE st[a].count]]
              /\ attempts' = [attempts EXCEPT ![a][k].outcome = "started"]
              /\ job' = [NewJob("recover", "launch", a) EXCEPT !.attempt = k]
         ELSE UNCHANGED <<st, attempts, job>>
    /\ NoFault

-----------------------------------------------------------------------------
(* reconcile_fingerprints, and the end of a worker *)

Outdated(a) == runs[a][handle[a].run].config # config[a]

\* Mutant: children are compared before they are confirmed, not after.
StaleInStartup(a) == ~handle[a].confirmed /\ Alive(a) /\ Outdated(a)

Stale(a) == handle[a].confirmed /\ Alive(a) /\ Outdated(a)

\* A confirmed child that runs another configuration is restarted.
FingerprintVisit(a) ==
    /\ phase = "fingerprint" /\ Visit(a)
    /\ IF Stale(a)
       THEN Begin("restart", "launch", a) ELSE UNCHANGED job
    /\ NoFault
    /\ UNCHANGED <<db, proc, handle, unfinished>>

\* shutdown stops every child it owns, whatever fails on the way.
QuitVisit(a) ==
    /\ phase = "quit" /\ Visit(a)
    /\ job' = [NewJob("quit", "stop1", a) EXCEPT !.keep = TRUE]
    /\ NoFault
    /\ UNCHANGED <<db, proc, handle, unfinished>>

\* SIGTERM between two passes, or a heartbeat that finds the lease gone: at the
\* head of a pass and after every command.
Quit ==
    /\ phase \in {"boot", "flush", "commands"} /\ Idle
    /\ crashes < MaxCrashes /\ crashes' = crashes + 1
    /\ Enter("quit")
    /\ UNCHANGED <<db, proc, handle, unfinished, job, exits, faults>>

\* The process ends: every child dies with it (PR_SET_PDEATHSIG) and all that was
\* only in memory is lost.
Die ==
    /\ handle' = [a \in Accounts |-> NoHandle]
    /\ unfinished' = [a \in Accounts |-> [r \in RunIds |-> "none"]]
    /\ proc' = [a \in Accounts |-> [r \in RunIds |-> NoProc]]
    /\ job' = NoJob
    /\ Enter("down")
    /\ UNCHANGED <<db, exits, faults>>

ShutdownEnds == phase = "quit" /\ Idle /\ todo = {} /\ Die /\ UNCHANGED crashes

Crash == phase # "down" /\ crashes < MaxCrashes /\ crashes' = crashes + 1 /\ Die

\* Mutant: only the run that an account names as current is closed.
CurrentRun(a) == {r \in RunIds : r = st[a].run}

\* Every run without an end, named or not.
OpenRuns(a) == {r \in RunIds : runs[a][r].open}

\* Mutant: only attempts that were not started yet.
WaitingAttempts(a) == {k \in AttemptIds : attempts[a][k].outcome = "scheduled"}

InterruptedAttempts(a) ==
    {k \in AttemptIds : attempts[a][k].outcome \in {"scheduled", "started"}}

\* reconcile_startup: claims go back to the queue, runs without an end get one,
\* pending attempts fail, and open incidents of wanted accounts are due at once.
Boot ==
    /\ phase = "down"
    /\ cmds' = Queue!Mark(cmds, Queue!Leased, "queued")
    /\ LET lost(a) == {r \in OpenRuns(a) : r = st[a].run \/ runs[a][r].confirmed}
           tries(a) == [k \in AttemptIds |->
                          IF k \in InterruptedAttempts(a)
                          THEN [attempts[a][k] EXCEPT !.outcome = "failed"] ELSE attempts[a][k]]
           blank(a) == [st[a] EXCEPT !.run = 0, !.retry = "none",
                          !.observed = IF desired[a] = "running" THEN "unknown" ELSE "stopped"]
           resumes(a) == desired[a] = "running" /\ incident[a]
           plan(a) == Scheduled(a, blank(a), tries(a), "due")
       IN  /\ runs' = [a \in Accounts |-> [r \in RunIds |->
                           IF r \in OpenRuns(a) THEN NoRun ELSE runs[a][r]]]
           /\ lastEnd' = [a \in Accounts |-> IF lost(a) # {} THEN "unexpected_exit"
                                             ELSE IF OpenRuns(a) # {} THEN "start_failed" ELSE lastEnd[a]]
           /\ attempts' = [a \in Accounts |-> IF resumes(a) THEN plan(a).tries ELSE tries(a)]
           /\ st' = [a \in Accounts |-> IF resumes(a) THEN plan(a).state ELSE blank(a)]
    /\ Enter("boot")
    /\ NoFault
    /\ UNCHANGED <<desired, incident, config, proc, handle, unfinished, job>>

-----------------------------------------------------------------------------
(* The loop: startup, then run_once for ever *)

Turn(from, to) ==
    /\ phase = from /\ Idle /\ todo = {}
    /\ Enter(to)
    /\ NoFault
    /\ UNCHANGED <<db, proc, handle, unfinished, job>>

\* At the head of a pass every account's unfinished runs are closed if they can be.
Flush ==
    /\ phase = "flush" /\ Idle
    /\ \E S \in [Accounts -> SUBSET RunIds] :
         /\ \A a \in Accounts : S[a] \subseteq Unclosed(a)
         /\ IF \A a \in Accounts : S[a] = Unclosed(a) THEN NoFault ELSE Fault
         /\ runs' = [a \in Accounts |-> [r \in RunIds |-> IF r \in S[a] THEN NoRun ELSE runs[a][r]]]
         /\ unfinished' = [a \in Accounts |->
                             [r \in RunIds |-> IF r \in S[a] THEN "none" ELSE unfinished[a][r]]]
         /\ lastEnd' = [a \in Accounts |->
                 LET ended == {r \in S[a] : runs[a][r].open}
                 IN  IF ended = {} THEN lastEnd[a] ELSE unfinished[a][CHOOSE r \in ended : TRUE]]
    /\ Enter("commands")
    /\ UNCHANGED <<desired, cmds, st, incident, attempts, config, proc, handle, job>>

NoneQueued == Queue!Queued = {}

HealthDue   == NoneQueued /\ Turn("commands", "health")
HealthLater == NoneQueued /\ Turn("commands", "recover")
FingerprintDue == Turn("recover", "reconcileFp")

Advance ==
    \/ NoneQueued /\ Turn("boot", "reconcile")
    \/ HealthLater
    \/ Turn("health", "reconcile")
    \/ Turn("reconcile", "recover")
    \/ Turn("recover", "flush")
    \/ Turn("reconcileFp", "fingerprint")
    \/ Turn("fingerprint", "flush")

\* The times a retry or an attempt was put off to are reached.
Elapse(a) ==
    /\ st[a].retry = "later"
    /\ st' = [st EXCEPT ![a].retry = "due"]
    /\ UNCHANGED <<desired, cmds, runs, incident, attempts, config, lastEnd, proc, mem, budget>>

ElapseAttempt(a, k) ==
    /\ attempts[a][k].outcome = "scheduled" /\ attempts[a][k].when = "later"
    /\ attempts' = [attempts EXCEPT ![a][k].when = "due"]
    /\ UNCHANGED <<desired, cmds, st, runs, incident, config, lastEnd, proc, mem, budget>>

-----------------------------------------------------------------------------
Init ==
    /\ desired = [a \in Accounts |-> "stopped"]
    /\ cmds = <<>>
    /\ st = [a \in Accounts |-> [observed |-> "unknown", run |-> 0, retry |-> "none", count |-> 0]]
    /\ runs = [a \in Accounts |-> [r \in RunIds |-> NoRun]]
    /\ incident = [a \in Accounts |-> FALSE]
    /\ attempts = [a \in Accounts |-> [k \in AttemptIds |-> NoTry]]
    /\ config \in [Accounts -> Configs]
    /\ proc = [a \in Accounts |-> [r \in RunIds |-> NoProc]]
    /\ handle = [a \in Accounts |-> NoHandle]
    /\ unfinished = [a \in Accounts |-> [r \in RunIds |-> "none"]]
    /\ phase = "down" /\ todo = {} /\ view = NoView /\ job = NoJob
    /\ lastEnd = [a \in Accounts |-> "none"]
    /\ exits = 0 /\ faults = 0 /\ crashes = 0

Website ==
    \/ \E a \in Accounts, action \in Queue!Actions : Request(a, action)
    \/ \E a \in Accounts, c \in Configs : ChangeConfig(a, c)

Children ==
    \/ \E a \in Accounts, r \in RunIds, word \in {"ok", "failed"} : ChildSpeaks(a, r, word)
    \/ \E a \in Accounts, r \in RunIds : ChildExits(a, r)

Reading == \E a \in Accounts, r \in RunIds : Drain(a, r)

Commands == LeaseNext \/ Refuse \/ Accept \/ Fallback

Launching ==
    \/ LaunchFlush \/ SettleTidy \/ SettleStop \/ SettleFree \/ Adopt \/ SettleDead
    \/ Launch \/ LaunchRefused
    \/ SpawnCancelled \/ Spawn \/ SpawnFails \/ SpawnUnrecorded \/ SpawnTidy
    \/ LaunchFailed \/ ResetFailed \/ RecoveryFailed

Stopping ==
    \/ StopFindsDead \/ StopBegins \/ Terminate \/ TerminateFails \/ CloseFails \/ StopDone

Visiting ==
    \E a \in Accounts :
        \/ HealthLook(a) \/ HealthTidy(a) \/ LoginRefused(a) \/ LoginCutShort(a) \/ LoginTimesOut(a)
        \/ HealthRetry(a) \/ HealthHalt(a) \/ HealthExit(a)
        \/ Confirm(a) \/ ConfirmFails(a) \/ HealthQuiet(a)
        \/ ReconcileStopped(a) \/ ReconcileRunning(a)
        \/ RecoverSkip(a) \/ RecoverFlush(a) \/ RecoverPlain(a) \/ RecoverSchedule(a)
        \/ RecoverClaim(a)
        \/ FingerprintVisit(a)
        \/ QuitVisit(a)

Looping == Boot \/ Flush \/ Advance \/ HealthDue \/ FingerprintDue \/ ShutdownEnds

Worker == Commands \/ Launching \/ Stopping \/ Visiting \/ Looping

Elapsing ==
    \E a \in Accounts : Elapse(a) \/ \E k \in AttemptIds : ElapseAttempt(a, k)

Next == Website \/ Children \/ Reading \/ Worker \/ Elapsing \/ Quit \/ Crash

Spec == Init /\ [][Next]_vars

\* The worker is restarted when it dies (docker-compose.yml, restart) and never
\* blocks for ever; time passes, so that retries come due, the timers of the loop
\* expire again and again, and a child in its startup is confirmed or times out.
Fairness ==
    /\ WF_vars(Worker) /\ WF_vars(Reading)
    /\ SF_vars(HealthDue) /\ SF_vars(FingerprintDue)
    /\ \A a \in Accounts : SF_vars(Confirm(a)) /\ SF_vars(LoginTimesOut(a))
    /\ \A a \in Accounts : WF_vars(Elapse(a))
    /\ \A a \in Accounts, k \in AttemptIds : WF_vars(ElapseAttempt(a, k))

FairSpec == Spec /\ Fairness

-----------------------------------------------------------------------------
(* Safety *)

\* A miner process is alive only under the handle of its account, so no account
\* ever has two and none outlives its worker, whichever signal, write or launch
\* fails (miner_supervisor.py, "Register ownership immediately after Popen").
ChildIsOwned ==
    \A a \in Accounts, r \in RunIds : proc[a][r].os = "alive" => handle[a].run = r

\* The run of an owned child has not ended in the database while the child lives.
LiveRunIsOpen ==
    \A a \in Accounts, r \in RunIds : proc[a][r].os = "alive" => runs[a][r].open

\* While a worker is up, every run without an end is held by somebody who will
\* write one: the launch under way, a handle, or the list of unfinished runs.
OpenRunIsHeld ==
    phase # "down" =>
        \A a \in Accounts, r \in RunIds :
            runs[a][r].open =>
                \/ handle[a].run = r
                \/ job.a = a /\ job.run = r
                \/ unfinished[a][r] # "none"

\* A started attempt is the one of the recovery under way or of a child that is
\* not confirmed yet: no other is left to look as if it were running.
StartedAttemptIsHeld ==
    phase # "down" =>
        \A a \in Accounts, k \in AttemptIds :
            attempts[a][k].outcome = "started" =>
                \/ handle[a].attempt = k
                \/ job.a = a /\ job.attempt = k

\* An open incident has at most one attempt that is scheduled or started.
OnePendingAttempt ==
    \A a \in Accounts : \A j, k \in Pending(attempts[a]) : j = k

\* What the control room shows as running was confirmed, is the run it names, and
\* the worker still owns it.
RunningIsTruthful ==
    phase # "down" =>
        \A a \in Accounts : st[a].observed = "running" =>
            handle[a].confirmed /\ st[a].run = handle[a].run

\* The run of a child that was stopped on purpose ends with that reason, however
\* often its end has to be written again: except that of a launch that was rolled
\* back, where check_health looks for the cleanup before it looks for the reason.
PlannedEndStands ==
    [][\A a \in Accounts :
        /\ Owned(a) /\ handle[a].planned # "none" /\ ~handle[a].cleanup
        /\ runs[a][handle[a].run].open /\ ~runs'[a][handle[a].run].open
        => lastEnd'[a] = handle[a].planned]_vars

\* An incident closes with a healthy child, or with no child at all.
IncidentClosesSettled ==
    [][\A a \in Accounts :
        incident[a] /\ ~incident'[a] => ~Owned(a)' \/ (Alive(a)' /\ handle'[a].confirmed)]_vars

\* Commands follow the rules of CommandQueue: what the supervisor does to the
\* command table is a behaviour of the queue, whichever operation fails.
FollowsQueue == Queue!Spec

\* The record of a run as RunLedger sees it: a run is prepared while a launch has
\* it and no handle does.
Prepared(a, r) == job.a = a /\ job.run = r /\ handle[a].run # r

RunRecord(a, r) ==
    IF ~runs[a][r].open THEN "closed" ELSE IF Prepared(a, r) THEN "prepared" ELSE "out"

LiveRun(a) ==
    IF \E r \in RunIds : proc[a][r].os = "alive"
    THEN CHOOSE r \in RunIds : proc[a][r].os = "alive" ELSE 0

Ledger == INSTANCE RunLedger
            WITH record <- [a \in Accounts |-> [r \in RunIds |-> RunRecord(a, r)]],
                 child <- [a \in Accounts |-> LiveRun(a)]

\* Runs and processes follow the rules of RunLedger: every process is started for
\* a recorded run, once, and its run is closed only after the process is gone.
FollowsLedger == Ledger!Spec

-----------------------------------------------------------------------------
(* Liveness *)

Served(a) ==
    Alive(a) /\ handle[a].confirmed /\ ~incident[a]

Quiet(a) == ~Owned(a) /\ ~incident[a]

\* Once the desired state of an account stays as it is, the worker gets there and
\* stays: one confirmed child, or none, and in both cases no open incident
\* (check_health, reconcile_desired_state).
Converges ==
    \A a \in Accounts :
        /\ <>[](desired[a] = "running") => <>[]Served(a)
        /\ <>[](desired[a] = "stopped") => <>[]Quiet(a)

\* A miner that keeps running comes to mine the current channels, also when the
\* request to restart it was coalesced with another (docs/bot-feature-map.md, "so a
\* missed or coalesced web command cannot leave an account watching stale channels").
ChannelsConverge ==
    \A a \in Accounts : <>[](desired[a] = "running") => <>[](Alive(a) /\ ~Outdated(a))

\* A healthy child that is shown as something else: it has survived a stop or an
\* authentication that failed, or a restart that failed while a stop was requested,
\* and the handlers of these leave the observed state as it is
\* (stop_account, authenticate_account, restart_account).
Underrated(a) ==
    /\ Served(a)
    /\ \E i \in Queue!Ids :
         /\ cmds[i].acct = a
         /\ \/ /\ st[a].observed = "degraded" /\ cmds[i].status = "failed"
               /\ cmds[i].action \in {"stop", "authenticate"}
            \/ st[a].observed = "stopped" /\ cmds[i].action = "stop"

\* What is shown comes to agree with the desired state as well, but for an
\* underrated child: nothing is shown for ever as starting, stopping, restarting
\* or unknown, and no account that does not run or should not run as anything but
\* what it is (check_health, reconcile_desired_state).
ShownSettles ==
    \A a \in Accounts :
        /\ <>[](desired[a] = "running") => <>[](st[a].observed = "running" \/ Underrated(a))
        /\ <>[](desired[a] = "stopped") => <>[](st[a].observed = "stopped")

\* Every command gets a result, through retries, crashes and failed launches.
CommandsEnd ==
    \A i \in 1..MaxCommands :
        i \in Queue!Ids ~> /\ i \in Queue!Ids
                          /\ cmds[i].status \in Queue!Terminal

-----------------------------------------------------------------------------
(* What the documents say and the code does not do *)

OwnStep == mem' # mem

Closes(a) == Owned(a) /\ runs[a][handle[a].run].open /\ ~runs'[a][handle[a].run].open

\* The shown state comes to agree with the desired state: the worker reconciles
\* "desired state, observed state, configuration fingerprints, and unexpected
\* exits until they converge" (docs/bot-feature-map.md).
ObservedConverges ==
    \A a \in Accounts, d \in {"running", "stopped"} :
        <>[](desired[a] = d) => <>[](st[a].observed = d)

\* "The process owner must never rewrite" the desired state, so that no newer
\* request is lost (comment in execute_command).
NewerRequestSurvives ==
    [][\A a \in Accounts :
        OwnStep /\ desired[a] = "running" /\ desired'[a] = "stopped" =>
            \A i \in Queue!Queued : cmds[i].acct # a]_vars

\* "An unexpected process exit while desired state is running opens an incident
\* and triggers supervised recovery" (README): a child that Twitch accepted and
\* that then crashes does not turn its account off.
CrashIsRecovered ==
    [][\A a \in Accounts :
        /\ OwnStep /\ desired[a] = "running" /\ desired'[a] = "stopped"
        /\ Owned(a) /\ proc[a][handle[a].run].os = "exited"
        => proc[a][handle[a].run].said # "ok"]_vars

\* "Re-saving an account password ... restarts the miner when its desired state is
\* running" (README): while a confirmed child runs on, a restart that was never
\* carried out is only dropped for a stop or for an authentication, which restarts
\* the miner too.
RestartIsNotDropped ==
    [][\A i \in Queue!Ids :
        LET a == cmds[i].acct
        IN  /\ cmds[i].action = "restart"
            /\ i \in Queue!Queued \/ (i = Hand /\ ~Checked)
            /\ cmds'[i].status = "cancelled"
            /\ desired[a] = "running" /\ desired'[a] = "running"
            /\ Alive(a) /\ handle[a].confirmed
            => \E j \in 1..Len(cmds') : /\ cmds'[j].acct = a /\ j > i
                                        /\ cmds'[j].action = "authenticate"
                                        /\ cmds'[j].status \in {"queued", "leased"}]_vars

=============================================================================
