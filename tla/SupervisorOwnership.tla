------------------------ MODULE SupervisorOwnership ------------------------
(***************************************************************************)
(* The types of MinerSupervisor and its ownership: which handle holds      *)
(* which child and which open run, for any accounts, bounds, failures and  *)
(* crashes.                                                                *)
(*                                                                         *)
(* TypeOK is not inductive alone.  A job carries its operation, step, row  *)
(* numbers and event from one step to a later one, and a step may only be  *)
(* followed if what it reads there fits the step: JobFits says so.  Each   *)
(* action has a lemma for TypeOK', and one of its family for JobFits'.     *)
(*                                                                         *)
(* The three invariants of ownership lean on what the job under way        *)
(* promises: nobody else's child is in the handle when a launch fills it   *)
(* (EmptyHanded), the run of a launch is new (LaunchIsFresh), a cleanup    *)
(* has its own child in the handle (TidiesItsOwn).  Most steps leave one   *)
(* of two footprints: every handle is Kept, or one child is Accounted for. *)
(***************************************************************************)
EXTENDS MinerSupervisor, TLAPS

USE SupervisorAssumption

States   == [Accounts -> StateRow]
RunTable == [Accounts -> [RunIds -> RunRow]]
Tries    == [AttemptIds -> AttemptRow]
Ends     == [Accounts -> Reasons \cup {"none"}]
Views    == [Accounts -> {"running", "stopped", "none"}]

LEMMA BlankRows ==
    /\ NoHandle \in HandleRow
    /\ NoRun \in RunRow
    /\ NoProc \in Process
    /\ NoTry \in AttemptRow
    /\ NoView \in Views
    /\ NoJob \notin JobRow
    /\ NoJob.step = "idle" /\ NoJob.cmd = 0 /\ NoJob.run = 0 /\ NoJob.attempt = 0
  <1>1. (CHOOSE c \in Configs : TRUE) \in Configs
    BY DEF SupervisorAssumption
  <1> QED
    BY <1>1 DEF SupervisorAssumption, NoHandle, HandleOf, HandleRow, NoRun, RunRow, NoProc, Process,
             NoTry, AttemptRow, NoJob, NewJob, JobRow, NoView, Views, Ops, Steps, Reasons

LEMMA Put ==
    ASSUME NEW S, NEW T, NEW f \in [S -> T], NEW x, NEW v \in T
    PROVE  [f EXCEPT ![x] = v] \in [S -> T]
  OBVIOUS

(* A job that is at a step has an account. *)
LEMMA AtStep ==
    ASSUME TypeOK, job.step # "idle"
    PROVE  /\ job \in JobRow
           /\ job.a \in Accounts /\ A = job.a
           /\ job.cmd \in 0..MaxCommands
           /\ job.run \in 0..MaxRuns
           /\ job.attempt \in 0..MaxAttempts
  <1>1. job \in JobRow \cup {NoJob}
    BY DEF TypeOK
  <1>2. job \in JobRow
    BY <1>1, BlankRows
  <1> QED  BY <1>2 DEF JobRow, A

(* Tables keep their type. *)
LEMMA FinishedType ==
    ASSUME NEW table \in Seq(Queue!Command), NEW i, NEW status \in Queue!Statuses
    PROVE  /\ Finished(table, i, status) \in Seq(Queue!Command)
           /\ Len(Finished(table, i, status)) = Len(table)
  <1>1. \A j \in 1..Len(table) : table[j] \in Queue!Command
    OBVIOUS
  <1> QED  BY <1>1 DEF Finished, Queue!Command

LEMMA MarkType ==
    ASSUME NEW table \in Seq(Queue!Command), NEW S, NEW status \in Queue!Statuses
    PROVE  /\ Queue!Mark(table, S, status) \in Seq(Queue!Command)
           /\ Len(Queue!Mark(table, S, status)) = Len(table)
  <1>1. \A j \in 1..Len(table) : table[j] \in Queue!Command
    OBVIOUS
  <1> QED  BY <1>1 DEF Queue!Mark, Queue!Command

LEMMA TriesType ==
    ASSUME NEW tries \in Tries
    PROVE  /\ \A k : Failed(tries, k) \in Tries
           /\ \A but : Abandoned(tries, but) \in Tries
           /\ Detached(tries) \in Tries
  <1>1. \A k \in AttemptIds : /\ tries[k] \in AttemptRow
                              /\ [tries[k] EXCEPT !.outcome = "failed"] \in AttemptRow
                              /\ [tries[k] EXCEPT !.open = FALSE] \in AttemptRow
    BY DEF Tries, AttemptRow
  <1>2. \A k : Failed(tries, k) \in Tries
    BY <1>1 DEF Failed, Tries
  <1>3. \A but : Abandoned(tries, but) \in Tries
    BY <1>1 DEF Abandoned, Tries
  <1>4. Detached(tries) \in Tries
    BY <1>1 DEF Detached, Tries
  <1> QED  BY <1>2, <1>3, <1>4

LEMMA ScheduledType ==
    ASSUME NEW a, NEW state \in StateRow, NEW tries \in Tries, NEW delay \in {"later", "due"}
    PROVE  /\ Scheduled(a, state, tries, delay).state \in StateRow
           /\ Scheduled(a, state, tries, delay).tries \in Tries
  <1> DEFINE waiting == {k \in Pending(tries) : tries[k].outcome = "scheduled"}
             k    == IF waiting # {} THEN CHOOSE j \in waiting : TRUE ELSE FreeAttempt(a, tries)
             when == IF waiting # {} THEN tries[k].when ELSE delay
             row  == [outcome |-> "scheduled", when |-> when, open |-> TRUE]
  <1>1. waiting \subseteq AttemptIds
    BY DEF Pending
  <1>2. when \in {"none", "later", "due"}
    <2>1. CASE waiting # {}
      <3>1. k \in AttemptIds
        BY <1>1, <2>1
      <3>2. tries[k].when \in {"none", "later", "due"}
        BY <3>1 DEF Tries, AttemptRow
      <3> QED  BY <2>1, <3>2
    <2>2. CASE waiting = {}
      BY <2>2
    <2> QED  BY <2>1, <2>2
  <1> HIDE DEF waiting, k, when
  <1>3. row \in AttemptRow
    BY <1>2 DEF AttemptRow
  <1>4. [tries EXCEPT ![k] = row] \in Tries
    BY <1>3, Put DEF Tries
  <1>5. [state EXCEPT !.retry = when,
                      !.observed = IF state.count < RapidAttempts THEN "restarting" ELSE "degraded"]
          \in StateRow
    BY <1>2 DEF StateRow, Observed
  <1>6. Scheduled(a, state, tries, delay) =
          [state |-> [state EXCEPT !.retry = when,
                        !.observed = IF state.count < RapidAttempts THEN "restarting" ELSE "degraded"],
           tries |-> [tries EXCEPT ![k] = row]]
    BY DEF Scheduled, waiting, k, when
  <1> QED  BY <1>4, <1>5, <1>6

-----------------------------------------------------------------------------
(* What the building blocks of actions write. *)

LEMMA PutState ==
    ASSUME TypeOK, NEW a, NEW s \in StateRow, st' = [st EXCEPT ![a] = s]
    PROVE  st' \in States
  <1>1. st \in States
    BY DEF TypeOK, States
  <1> QED  BY <1>1, Put DEF States

LEMMA StateFields ==
    ASSUME NEW s \in StateRow
    PROVE  /\ s.observed \in Observed /\ s.run \in 0..MaxRuns
           /\ s.retry \in {"none", "later", "due"} /\ s.count \in 0..RapidAttempts
           /\ \A o \in Observed : [s EXCEPT !.observed = o] \in StateRow
           /\ \A r \in 0..MaxRuns : [s EXCEPT !.run = r] \in StateRow
           /\ \A w \in {"none", "later", "due"} : [s EXCEPT !.retry = w] \in StateRow
           /\ \A n \in 0..RapidAttempts : [s EXCEPT !.count = n] \in StateRow
  BY DEF StateRow

LEMMA CloseRunType ==
    ASSUME TypeOK, NEW a, NEW r, NEW reason \in Reasons, CloseRun(a, r, reason)
    PROVE  runs' \in RunTable /\ lastEnd' \in Ends
  <1>1. runs \in RunTable /\ lastEnd \in Ends /\ NoRun \in RunRow
    BY BlankRows DEF TypeOK, RunTable, Ends
  <1>2. runs' = [runs EXCEPT ![a][r] = NoRun]
    BY DEF CloseRun
  <1>3. runs' \in RunTable
    <2>1. CASE a \in Accounts
      BY <1>1, <1>2, <2>1 DEF RunTable
    <2>2. CASE a \notin Accounts
      BY <1>1, <1>2, <2>2 DEF RunTable
    <2> QED  BY <2>1, <2>2
  <1>4. lastEnd' \in Ends
    BY <1>1 DEF CloseRun, Ends
  <1> QED  BY <1>3, <1>4

LEMMA CloseUnfinishedType ==
    ASSUME TypeOK, NEW a \in Accounts, NEW S \in SUBSET Unclosed(a), CloseUnfinished(a, S)
    PROVE  /\ runs' \in RunTable /\ lastEnd' \in Ends
           /\ unfinished' \in [Accounts -> [RunIds -> Reasons \cup {"none"}]]
  <1>1. /\ runs \in RunTable /\ lastEnd \in Ends /\ NoRun \in RunRow
        /\ unfinished \in [Accounts -> [RunIds -> Reasons \cup {"none"}]]
    BY BlankRows DEF TypeOK, RunTable, Ends
  <1>2. runs' \in RunTable
    <2>1. runs' = [runs EXCEPT ![a] = [r \in RunIds |-> IF r \in S THEN NoRun ELSE runs[a][r]]]
      BY DEF CloseUnfinished
    <2>2. [r \in RunIds |-> IF r \in S THEN NoRun ELSE runs[a][r]] \in [RunIds -> RunRow]
      BY <1>1 DEF RunTable
    <2> QED  BY <1>1, <2>1, <2>2, Put DEF RunTable
  <1>3. unfinished' \in [Accounts -> [RunIds -> Reasons \cup {"none"}]]
    <2>1. unfinished' = [unfinished EXCEPT ![a] =
                            [r \in RunIds |-> IF r \in S THEN "none" ELSE unfinished[a][r]]]
      BY DEF CloseUnfinished
    <2>2. [r \in RunIds |-> IF r \in S THEN "none" ELSE unfinished[a][r]]
            \in [RunIds -> Reasons \cup {"none"}]
      BY <1>1
    <2> QED  BY <1>1, <2>1, <2>2, Put
  <1>4. lastEnd' \in Ends
    <2> DEFINE ended == {r \in S : runs[a][r].open}
    <2>1. CASE ended = {}
      BY <1>1, <2>1 DEF CloseUnfinished
    <2>2. CASE ended # {}
      <3> DEFINE e == CHOOSE r \in ended : TRUE
      <3>1. e \in RunIds
        BY <2>2 DEF Unclosed
      <3>2. unfinished[a][e] \in Reasons \cup {"none"}
        BY <1>1, <3>1
      <3>3. lastEnd' = [lastEnd EXCEPT ![a] = unfinished[a][e]]
        BY <2>2 DEF CloseUnfinished
      <3> HIDE DEF e
      <3> QED  BY <1>1, <3>2, <3>3, Put DEF Ends
    <2> QED  BY <2>1, <2>2
  <1> QED  BY <1>2, <1>3, <1>4

LEMMA PutHandle ==
    ASSUME TypeOK, NEW a, NEW h \in HandleRow, handle' = [handle EXCEPT ![a] = h]
    PROVE  handle' \in [Accounts -> HandleRow]
  BY Put DEF TypeOK

LEMMA PutProc ==
    ASSUME TypeOK, NEW a, NEW r, NEW p \in Process, proc' = [proc EXCEPT ![a][r] = p]
    PROVE  proc' \in [Accounts -> [RunIds -> Process]]
  <1>1. proc \in [Accounts -> [RunIds -> Process]]
    BY DEF TypeOK
  <1>2. CASE a \in Accounts
    <2>1. [proc[a] EXCEPT ![r] = p] \in [RunIds -> Process]
      BY <1>1, <1>2, Put
    <2>2. proc' = [proc EXCEPT ![a] = [proc[a] EXCEPT ![r] = p]]
      OBVIOUS
    <2> QED  BY <1>1, <2>1, <2>2, Put
  <1>3. CASE a \notin Accounts
    BY <1>1, <1>3
  <1> QED  BY <1>2, <1>3

LEMMA ForgetType ==
    ASSUME TypeOK, NEW a, Forget(a)
    PROVE  handle' \in [Accounts -> HandleRow] /\ proc' \in [Accounts -> [RunIds -> Process]]
  BY BlankRows, PutHandle, PutProc DEF Forget

LEMMA StepType ==
    ASSUME TypeOK, NEW name \in Steps, job.step # "idle", Step(name)
    PROVE  job' \in JobRow \cup {NoJob}
  <1>1. job \in JobRow
    BY AtStep
  <1> QED  BY <1>1 DEF Step, JobRow

(* A job built from scratch is a job, whichever of its fields is then set. *)
LEMMA NewJobType ==
    ASSUME NEW op \in Ops, NEW step \in Steps, NEW a \in Accounts
    PROVE  LET j == NewJob(op, step, a)
           IN  /\ j \in JobRow
               /\ \A i \in 0..MaxCommands : [j EXCEPT !.cmd = i] \in JobRow
               /\ \A k \in 0..MaxAttempts : [j EXCEPT !.attempt = k] \in JobRow
               /\ \A b \in BOOLEAN : [j EXCEPT !.keep = b] \in JobRow
  <1>1. 0 \in 0..MaxCommands /\ 0 \in 0..MaxRuns /\ 0 \in 0..MaxAttempts
    BY DEF SupervisorAssumption
  <1>2. NewJob(op, step, a) \in JobRow
    BY <1>1 DEF JobRow, NewJob
  <1>3. ASSUME NEW j \in JobRow
        PROVE  /\ \A i \in 0..MaxCommands : [j EXCEPT !.cmd = i] \in JobRow
               /\ \A k \in 0..MaxAttempts : [j EXCEPT !.attempt = k] \in JobRow
               /\ \A b \in BOOLEAN : [j EXCEPT !.keep = b] \in JobRow
    BY DEF JobRow
  <1> QED  BY <1>2, <1>3

LEMMA ReturnType ==
    ASSUME TypeOK, NEW status \in Queue!Terminal, job.step # "idle", Return(status)
    PROVE  /\ cmds' \in Seq(Queue!Command) /\ Len(cmds') <= MaxCommands
           /\ job' \in JobRow \cup {NoJob}
  <1>1. cmds \in Seq(Queue!Command) /\ Len(cmds) <= MaxCommands /\ status \in Queue!Statuses
    BY DEF TypeOK, Queue!Statuses
  <1>2. cmds' = Finished(cmds, job.cmd, status)
    BY DEF Return
  <1>3. job.a \in Accounts
    BY AtStep
  <1>4. NewJob("restart", "fallback", job.a) \in JobRow
    BY <1>3, NewJobType DEF Ops, Steps
  <1>5. job' \in JobRow \cup {NoJob}
    BY <1>4 DEF Return
  <1> QED  BY <1>1, <1>2, <1>5, FinishedType

LEMMA EnterType ==
    ASSUME TypeOK, NEW p \in Phases, Enter(p)
    PROVE  phase' \in Phases /\ todo' \subseteq Accounts /\ view' \in Views
  <1>1. desired \in [Accounts -> {"running", "stopped"}]
    BY DEF TypeOK
  <1> QED  BY <1>1, BlankRows DEF Enter, Views

LEMMA FaultType ==
    ASSUME TypeOK, Fault \/ NoFault
    PROVE  exits' \in 0..MaxExits /\ faults' \in 0..MaxFaults /\ crashes' \in 0..MaxCrashes
  <1>1. /\ exits \in 0..MaxExits /\ faults \in 0..MaxFaults /\ crashes \in 0..MaxCrashes
        /\ MaxFaults \in Nat
    BY DEF TypeOK, SupervisorAssumption
  <1> QED  BY <1>1 DEF Fault, NoFault, budget

LEMMA StopRaisesType ==
    ASSUME TypeOK, job.step # "idle", StopRaises
    PROVE  /\ cmds' \in Seq(Queue!Command) /\ Len(cmds') <= MaxCommands
           /\ job' \in JobRow \cup {NoJob}
           /\ phase' \in Phases /\ todo' \subseteq Accounts /\ view' \in Views
  <1>0. /\ cmds \in Seq(Queue!Command) /\ Len(cmds) <= MaxCommands
        /\ phase \in Phases /\ todo \subseteq Accounts /\ view \in Views
    BY DEF TypeOK, Views
  <1>1. CASE job.op \in {"stop", "start"}
    BY <1>0, <1>1, ReturnType DEF StopRaises, SamePhase, Queue!Terminal
  <1>2. CASE job.op \in {"restart", "authenticate"}
    BY <1>0, <1>2, StepType DEF StopRaises, SamePhase, Steps
  <1>3. CASE job.op = "quit"
    BY <1>0, <1>3 DEF StopRaises, SamePhase
  <1>4. CASE job.op \notin {"stop", "start", "restart", "authenticate", "quit"}
    BY <1>0, <1>4, EnterType DEF StopRaises, Phases
  <1> QED  BY <1>1, <1>2, <1>3, <1>4

LEMMA FinalizeType ==
    ASSUME TypeOK, NEW reason \in Reasons, Finalize(reason)
    PROVE  /\ runs' \in RunTable /\ lastEnd' \in Ends
           /\ unfinished' \in [Accounts -> [RunIds -> Reasons \cup {"none"}]]
           /\ exits' \in 0..MaxExits /\ faults' \in 0..MaxFaults /\ crashes' \in 0..MaxCrashes
  <1>1. /\ runs \in RunTable /\ lastEnd \in Ends
        /\ unfinished \in [Accounts -> [RunIds -> Reasons \cup {"none"}]]
    BY DEF TypeOK, RunTable, Ends
  <1>2. Fault \/ NoFault
    BY DEF Finalize
  <1>3. runs' \in RunTable /\ lastEnd' \in Ends
    BY <1>1, CloseRunType DEF Finalize
  <1>4. unfinished' \in [Accounts -> [RunIds -> Reasons \cup {"none"}]]
    <2>1. CASE unfinished' = [unfinished EXCEPT ![A][job.run] = reason]
      <3>1. CASE A \in Accounts
        BY <1>1, <2>1, <3>1
      <3>2. CASE A \notin Accounts
        BY <1>1, <2>1, <3>2
      <3> QED  BY <3>1, <3>2
    <2>2. CASE UNCHANGED unfinished
      BY <1>1, <2>2
    <2> QED  BY <2>1, <2>2 DEF Finalize
  <1> QED  BY <1>2, <1>3, <1>4, FaultType
LEMMA FinishType ==
    ASSUME TypeOK, NEW i, NEW status \in Queue!Terminal, cmds' = Finished(cmds, i, status)
    PROVE  cmds' \in Seq(Queue!Command) /\ Len(cmds') <= MaxCommands
  BY FinishedType DEF TypeOK, Queue!Statuses

LEMMA PutTries ==
    ASSUME TypeOK, NEW a, NEW tries \in Tries, attempts' = [attempts EXCEPT ![a] = tries]
    PROVE  attempts' \in [Accounts -> Tries]
  BY Put DEF TypeOK, Tries

LEMMA PutIncident ==
    ASSUME TypeOK, NEW a, NEW b \in BOOLEAN, incident' = [incident EXCEPT ![a] = b]
    PROVE  incident' \in [Accounts -> BOOLEAN]
  BY Put DEF TypeOK

(* The rows of an account and their fields. *)
LEMMA RowsOf ==
    ASSUME TypeOK, NEW a \in Accounts
    PROVE  /\ st[a] \in StateRow /\ attempts[a] \in Tries /\ handle[a] \in HandleRow
           /\ incident[a] \in BOOLEAN /\ desired[a] \in {"running", "stopped"}
           /\ view[a] \in {"running", "stopped", "none"}
           /\ runs[a] \in [RunIds -> RunRow] /\ proc[a] \in [RunIds -> Process]
           /\ handle[a].run \in 0..MaxRuns /\ handle[a].cmd \in 0..MaxCommands
           /\ handle[a].planned \in Reasons \cup {"none"}
           /\ handle[a].confirmed \in BOOLEAN
  <1>1. /\ st[a] \in StateRow /\ attempts[a] \in Tries /\ handle[a] \in HandleRow
        /\ incident[a] \in BOOLEAN /\ desired[a] \in {"running", "stopped"}
        /\ view[a] \in {"running", "stopped", "none"}
        /\ runs[a] \in [RunIds -> RunRow] /\ proc[a] \in [RunIds -> Process]
    BY DEF TypeOK, Tries
  <1> QED  BY <1>1 DEF HandleRow

LEMMA Settable ==
    /\ 0 \in 0..MaxRuns /\ 0 \in 0..RapidAttempts
    /\ Observed = {"unknown", "starting", "running", "stopping", "stopped", "restarting", "degraded"}
  BY DEF SupervisorAssumption, Observed

LEMMA RecordExitType ==
    ASSUME TypeOK, NEW a \in Accounts, NEW schedule \in BOOLEAN, NEW even \in BOOLEAN,
           RecordExit(a, schedule, even)
    PROVE  /\ runs' \in RunTable /\ lastEnd' \in Ends
           /\ cmds' \in Seq(Queue!Command) /\ Len(cmds') <= MaxCommands
           /\ handle' \in [Accounts -> HandleRow] /\ proc' \in [Accounts -> [RunIds -> Process]]
           /\ st' \in States /\ attempts' \in [Accounts -> Tries]
           /\ incident' \in [Accounts -> BOOLEAN]
  <1> DEFINE halted == desired[a] = "stopped"
             state  == [st[a] EXCEPT !.run = 0]
             tries  == Failed(attempts[a], handle[a].attempt)
             plan   == Scheduled(a, state, tries, "later")
  <1>1. runs' \in RunTable /\ lastEnd' \in Ends
    BY CloseRunType DEF RecordExit, Reasons
  <1>2. cmds' \in Seq(Queue!Command) /\ Len(cmds') <= MaxCommands
    BY FinishType DEF RecordExit, Queue!Terminal
  <1>3. handle' \in [Accounts -> HandleRow] /\ proc' \in [Accounts -> [RunIds -> Process]]
    BY ForgetType DEF RecordExit
  <1>4. state \in StateRow /\ tries \in Tries /\ Detached(tries) \in Tries
    BY RowsOf, StateFields, Settable, TriesType
  <1>5. plan.state \in StateRow /\ plan.tries \in Tries
    BY <1>4, ScheduledType
  <1>6. /\ [state EXCEPT !.observed = "stopped", !.retry = "none"] \in StateRow
        /\ [state EXCEPT !.observed = IF halted THEN "stopped" ELSE "unknown", !.retry = "none"]
             \in StateRow
    BY <1>4 DEF StateRow, Observed
  <1>7. incident \in [Accounts -> BOOLEAN]
    BY DEF TypeOK
  <1>8. \/ /\ st' = [st EXCEPT ![a] = [state EXCEPT !.observed = "stopped", !.retry = "none"]]
           /\ attempts' = [attempts EXCEPT ![a] = tries]
           /\ UNCHANGED incident
        \/ /\ st' = [st EXCEPT ![a] = plan.state]
           /\ attempts' = [attempts EXCEPT ![a] = plan.tries]
           /\ incident' = [incident EXCEPT ![a] = TRUE]
        \/ /\ st' = [st EXCEPT ![a] = [state EXCEPT
                        !.observed = IF halted THEN "stopped" ELSE "unknown", !.retry = "none"]]
           /\ attempts' = [attempts EXCEPT ![a] = IF halted THEN Detached(tries) ELSE tries]
           /\ incident' = [incident EXCEPT ![a] = ~halted]
    BY DEF RecordExit
  <1> HIDE DEF halted, state, tries, plan
  <1>10. st' \in States
    BY <1>5, <1>6, <1>8, PutState
  <1>11. attempts' \in [Accounts -> Tries]
    BY <1>4, <1>5, <1>8, PutTries
  <1>12. incident' \in [Accounts -> BOOLEAN]
    BY <1>7, <1>8, PutIncident
  <1> QED  BY <1>1, <1>2, <1>3, <1>10, <1>11, <1>12

LEMMA TidyDoneType ==
    ASSUME TypeOK, NEW a \in Accounts, TidyDone(a)
    PROVE  /\ runs' \in RunTable /\ lastEnd' \in Ends
           /\ handle' \in [Accounts -> HandleRow] /\ proc' \in [Accounts -> [RunIds -> Process]]
           /\ st' \in States /\ attempts' \in [Accounts -> Tries]
  <1> DEFINE gone  == [st[a] EXCEPT !.run = 0]
             tries == Failed(attempts[a], handle[a].attempt)
             plan  == Scheduled(a, gone, tries, "later")
             wanted == [gone EXCEPT !.observed = "degraded", !.retry = "later"]
             halted == [gone EXCEPT !.observed = "stopped", !.retry = "none"]
  <1>1. runs' \in RunTable /\ lastEnd' \in Ends
    BY CloseRunType DEF TidyDone, Reasons
  <1>2. handle' \in [Accounts -> HandleRow] /\ proc' \in [Accounts -> [RunIds -> Process]]
    BY ForgetType DEF TidyDone
  <1>3. gone \in StateRow /\ tries \in Tries
    BY RowsOf, StateFields, Settable, TriesType
  <1>4. plan.state \in StateRow /\ plan.tries \in Tries
    BY <1>3, ScheduledType
  <1>5. wanted \in StateRow /\ halted \in StateRow
    BY <1>3 DEF StateRow, Observed
  <1>6. \/ /\ st' = [st EXCEPT ![a] = plan.state]
           /\ attempts' = [attempts EXCEPT ![a] = plan.tries]
        \/ /\ st' = [st EXCEPT ![a] = wanted]
           /\ attempts' = [attempts EXCEPT ![a] = tries]
        \/ /\ st' = [st EXCEPT ![a] = halted]
           /\ attempts' = [attempts EXCEPT ![a] = tries]
    BY DEF TidyDone
  <1> HIDE DEF gone, tries, plan, wanted, halted
  <1>7. st' \in States
    BY <1>4, <1>5, <1>6, PutState
  <1>8. attempts' \in [Accounts -> Tries]
    BY <1>3, <1>4, <1>6, PutTries
  <1> QED  BY <1>1, <1>2, <1>7, <1>8

LEMMA ShowType ==
    ASSUME TypeOK, NEW a, NEW o \in Observed, st' = [st EXCEPT ![a].observed = o]
    PROVE  st' \in States
  <1>1. st \in States
    BY DEF TypeOK, States
  <1>2. CASE a \in Accounts
    BY <1>1, <1>2 DEF States, StateRow
  <1>3. CASE a \notin Accounts
    BY <1>1, <1>3 DEF States
  <1> QED  BY <1>2, <1>3

(* An owned child has a run of its own. *)
LEMMA OwnedRun ==
    ASSUME TypeOK, NEW a \in Accounts, Owned(a)
    PROVE  handle[a].run \in RunIds
  BY RowsOf DEF Owned, RunIds, SupervisorAssumption

LEMMA ChildFieldsType ==
    ASSUME TypeOK, NEW a \in Accounts, NEW r \in RunIds
    PROVE  /\ \A os \in {"none", "alive", "exited", "killed"} :
                [proc EXCEPT ![a][r].os = os] \in [Accounts -> [RunIds -> Process]]
           /\ \A w \in {"none", "ok", "failed"} :
                /\ [proc EXCEPT ![a][r].said = w] \in [Accounts -> [RunIds -> Process]]
                /\ [proc EXCEPT ![a][r].heard = w] \in [Accounts -> [RunIds -> Process]]
  <1>1. proc \in [Accounts -> [RunIds -> Process]]
    BY DEF TypeOK
  <1> QED  BY <1>1 DEF Process

LEMMA TidyFailsType ==
    ASSUME TypeOK, NEW a \in Accounts, TidyFails(a)
    PROVE  /\ exits' \in 0..MaxExits /\ faults' \in 0..MaxFaults /\ crashes' \in 0..MaxCrashes
           /\ proc' \in [Accounts -> [RunIds -> Process]]
           /\ st' \in States
  <1>1. proc \in [Accounts -> [RunIds -> Process]]
    BY DEF TypeOK
  <1>2. proc' \in [Accounts -> [RunIds -> Process]]
    <2>1. CASE UNCHANGED proc
      BY <1>1, <2>1
    <2>2. CASE proc' = [proc EXCEPT ![a][handle[a].run].os = "killed"] /\ Alive(a)
      BY <2>2, OwnedRun, ChildFieldsType DEF Alive
    <2> QED  BY <2>1, <2>2 DEF TidyFails
  <1>3. st' \in States
    BY ShowType, Settable DEF TidyFails
  <1> QED  BY <1>2, <1>3, FaultType DEF TidyFails

-----------------------------------------------------------------------------
(* Every action keeps the types: the web process and the children. *)

LEMMA NewTableType ==
    ASSUME TypeOK, NEW a \in Accounts, NEW action \in Queue!Actions,
           \/ Len(cmds) < MaxCommands
           \/ Queue!Stronger(a, action)
           \/ Queue!Repeated(a, action)
    PROVE  /\ Queue!NewTable(a, action) \in Seq(Queue!Command)
           /\ Len(Queue!NewTable(a, action)) <= MaxCommands
  <1> DEFINE kept == Queue!Mark(cmds, Queue!Obsolete(a, action), "cancelled")
             row == [acct |-> a, action |-> action, status |-> "queued"]
  <1>1. cmds \in Seq(Queue!Command) /\ Len(cmds) <= MaxCommands /\ MaxCommands \in Nat
    BY DEF TypeOK, SupervisorAssumption
  <1>2. kept \in Seq(Queue!Command) /\ Len(kept) = Len(cmds)
    BY <1>1, MarkType DEF Queue!Statuses, Queue!Terminal
  <1>3. row \in Queue!Command
    BY DEF Queue!Command, Queue!Statuses
  <1>4. Queue!NewTable(a, action) = IF Queue!Stronger(a, action) THEN cmds
                                    ELSE IF Queue!Repeated(a, action) THEN kept
                                    ELSE Append(kept, row)
    BY DEF Queue!NewTable
  <1> HIDE DEF kept, row
  <1>5. CASE Queue!Stronger(a, action) \/ Queue!Repeated(a, action)
    BY <1>1, <1>2, <1>4, <1>5
  <1>6. CASE ~(Queue!Stronger(a, action) \/ Queue!Repeated(a, action))
    <2>1. Append(kept, row) \in Seq(Queue!Command) /\ Len(Append(kept, row)) = Len(kept) + 1
      BY <1>2, <1>3
    <2>2. Len(cmds) < MaxCommands /\ Len(cmds) \in Nat
      BY <1>1, <1>6
    <2>3. Queue!NewTable(a, action) = Append(kept, row)
      BY <1>4, <1>6
    <2> QED  BY <1>1, <1>2, <2>1, <2>2, <2>3
  <1> QED  BY <1>5, <1>6

LEMMA RequestType ==
    ASSUME TypeOK, NEW a \in Accounts, NEW action \in Queue!Actions, Request(a, action)
    PROVE  TypeOK'
  <1>1. desired' \in [Accounts -> {"running", "stopped"}]
    <2>1. Queue!Wanted(action) \in {"running", "stopped"}
      BY DEF Queue!Wanted
    <2> QED  BY <2>1, Put DEF Request, TypeOK
  <1>2. cmds' \in Seq(Queue!Command) /\ Len(cmds') <= MaxCommands
    BY NewTableType DEF Request
  <1> QED  BY <1>1, <1>2 DEF TypeOK, Request, mem, budget

LEMMA ChangeConfigType ==
    ASSUME TypeOK, NEW a \in Accounts, NEW c \in Configs, ChangeConfig(a, c)
    PROVE  TypeOK'
  <1>1. config' \in [Accounts -> Configs]
    BY Put DEF ChangeConfig, TypeOK
  <1>2. cmds' \in Seq(Queue!Command) /\ Len(cmds') <= MaxCommands
    BY NewTableType DEF ChangeConfig, TypeOK, Queue!Actions
  <1> QED  BY <1>1, <1>2 DEF TypeOK, ChangeConfig, mem, budget

LEMMA ChildrenType ==
    ASSUME TypeOK, Children \/ Reading
    PROVE  TypeOK'
  <1>1. ASSUME NEW a \in Accounts, NEW r \in RunIds, NEW word \in {"ok", "failed"},
               ChildSpeaks(a, r, word)
        PROVE  TypeOK'
    <2>1. proc' \in [Accounts -> [RunIds -> Process]]
      BY <1>1, ChildFieldsType DEF ChildSpeaks
    <2> QED  BY <1>1, <2>1 DEF TypeOK, ChildSpeaks, db, mem, budget
  <1>2. ASSUME NEW a \in Accounts, NEW r \in RunIds, ChildExits(a, r)
        PROVE  TypeOK'
    <2>1. proc' \in [Accounts -> [RunIds -> Process]]
      BY <1>2, ChildFieldsType DEF ChildExits
    <2>2. exits' \in 0..MaxExits
      BY <1>2 DEF TypeOK, ChildExits, SupervisorAssumption
    <2> QED  BY <1>2, <2>1, <2>2 DEF TypeOK, ChildExits, db, mem
  <1>3. ASSUME NEW a \in Accounts, NEW r \in RunIds, Drain(a, r)
        PROVE  TypeOK'
    <2>1. proc[a][r].said \in {"none", "ok", "failed"}
      BY DEF TypeOK, Process
    <2>2. proc' \in [Accounts -> [RunIds -> Process]]
      BY <1>3, <2>1, ChildFieldsType DEF Drain
    <2> QED  BY <1>3, <2>2 DEF TypeOK, Drain, db, mem, budget
  <1> QED  BY <1>1, <1>2, <1>3 DEF Children, Reading

(* The command loop. *)
LEMMA CommandsType ==
    ASSUME TypeOK, Commands
    PROVE  TypeOK'
  <1>1. CASE LeaseNext
    <2>1. PICK i \in Queue!Queued :
             /\ cmds' = Queue!Mark(cmds, {i}, "leased")
             /\ job' = [NewJob(cmds[i].action, "check", cmds[i].acct) EXCEPT !.cmd = i]
      BY <1>1 DEF LeaseNext
    <2>2. cmds \in Seq(Queue!Command) /\ Len(cmds) <= MaxCommands /\ MaxCommands \in Nat
      BY DEF TypeOK, SupervisorAssumption
    <2>3. i \in 1..Len(cmds) /\ i \in 0..MaxCommands
      BY <2>2 DEF Queue!Queued, Queue!Ids
    <2>4. cmds' \in Seq(Queue!Command) /\ Len(cmds') <= MaxCommands
      BY <2>1, <2>2, MarkType DEF Queue!Statuses
    <2>5. cmds[i] \in Queue!Command
      BY <2>2, <2>3
    <2>6. cmds[i].acct \in Accounts /\ cmds[i].action \in Ops
      BY <2>5 DEF Queue!Command, Queue!Actions, Ops
    <2>7. job' \in JobRow
      BY <2>1, <2>3, <2>6, NewJobType DEF Steps
    <2> QED  BY <1>1, <2>4, <2>7 DEF TypeOK, LeaseNext, SamePhase, NoFault, budget
  <1>2. CASE Refuse
    <2>1. /\ cmds' \in Seq(Queue!Command) /\ Len(cmds') <= MaxCommands
          /\ job' \in JobRow \cup {NoJob}
      BY <1>2, ReturnType DEF Refuse, Queue!Terminal
    <2> QED  BY <1>2, <2>1 DEF TypeOK, Refuse, SamePhase, NoFault, budget
  <1>3. CASE Accept
    <2>1. job' \in JobRow \cup {NoJob}
      BY <1>3, StepType DEF Accept, Steps
    <2> QED  BY <1>3, <2>1 DEF TypeOK, Accept, SamePhase, NoFault, budget, db
  <1>4. CASE Fallback
    <2>2. incident' \in [Accounts -> BOOLEAN]
      <3>1. incident' = [incident EXCEPT ![A] = incident[A] /\ ~Healthy(A)]
        BY <1>4, AtStep DEF Fallback
      <3>2. (incident[A] /\ ~Healthy(A)) \in BOOLEAN
        OBVIOUS
      <3> QED  BY <3>1, <3>2, PutIncident
    <2>3. attempts' \in [Accounts -> Tries]
      BY <1>4, AtStep, RowsOf, TriesType, PutTries DEF Fallback, TypeOK, Tries
    <2> QED  BY <1>4, <2>2, <2>3 DEF TypeOK, Tries, Fallback, SamePhase, NoFault, budget
  <1> QED  BY <1>1, <1>2, <1>3, <1>4 DEF Commands

(* Launching: up to the row of the new run. *)
LEMMA LaunchFlushType ==
    ASSUME TypeOK, LaunchFlush
    PROVE  TypeOK'
  <1>1. job.step # "idle" /\ A \in Accounts
    BY AtStep DEF LaunchFlush
  <1>2. PICK S \in SUBSET Unclosed(A) :
          /\ CloseUnfinished(A, S)
          /\ IF S = Unclosed(A) THEN NoFault /\ UNCHANGED <<job, cmds>>
                               ELSE Fault /\ Return("failed")
    BY DEF LaunchFlush
  <1>3. /\ runs' \in RunTable /\ lastEnd' \in Ends
        /\ unfinished' \in [Accounts -> [RunIds -> Reasons \cup {"none"}]]
    BY <1>1, <1>2, CloseUnfinishedType
  <1>4. exits' \in 0..MaxExits /\ faults' \in 0..MaxFaults /\ crashes' \in 0..MaxCrashes
    BY <1>2, FaultType
  <1>5. /\ cmds' \in Seq(Queue!Command) /\ Len(cmds') <= MaxCommands
        /\ job' \in JobRow \cup {NoJob}
    BY <1>1, <1>2, ReturnType DEF TypeOK, Queue!Terminal
  <1> QED  BY <1>3, <1>4, <1>5 DEF TypeOK, RunTable, Ends, LaunchFlush, SamePhase

LEMMA SettleTidyType ==
    ASSUME TypeOK, SettleTidy
    PROVE  TypeOK'
  <1>1. job.step # "idle" /\ A \in Accounts /\ job \in JobRow
    BY AtStep DEF SettleTidy
  <1>2. CASE /\ TidyDone(A) /\ NoFault
             /\ cmds' = Finished(cmds, handle[A].cmd, "failed")
             /\ UNCHANGED job
    <2>1. cmds' \in Seq(Queue!Command) /\ Len(cmds') <= MaxCommands
      BY <1>2, FinishType DEF Queue!Terminal
    <2> QED  BY <1>1, <1>2, <2>1, TidyDoneType, FaultType
             DEF TypeOK, RunTable, Ends, States, Tries, SettleTidy, SamePhase
  <1>3. CASE /\ TidyFails(A)
             /\ IF handle[A].planned = "none" THEN Return("failed")
                ELSE UNCHANGED cmds /\ job' = [job EXCEPT !.step = "stop1", !.keep = TRUE]
    <2>1. /\ cmds' \in Seq(Queue!Command) /\ Len(cmds') <= MaxCommands
          /\ job' \in JobRow \cup {NoJob}
      <3>1. [job EXCEPT !.step = "stop1", !.keep = TRUE] \in JobRow
        BY <1>1 DEF JobRow, Steps
      <3> QED  BY <1>1, <1>3, <3>1, ReturnType DEF TypeOK, Queue!Terminal
    <2>2. runs' = runs /\ lastEnd' = lastEnd /\ handle' = handle /\ attempts' = attempts
      BY <1>3 DEF TidyFails
    <2> QED  BY <1>1, <1>3, <2>1, <2>2, TidyFailsType
             DEF TypeOK, States, SettleTidy, SamePhase
  <1> QED  BY <1>2, <1>3 DEF SettleTidy

LEMMA SettleType ==
    ASSUME TypeOK, SettleStop \/ SettleFree \/ Adopt \/ SettleDead
    PROVE  TypeOK'
  <1>1. Settled /\ job.step # "idle" /\ A \in Accounts /\ job \in JobRow
    BY AtStep DEF SettleStop, SettleFree, Adopt, SettleDead, Settled
  <1>2. CASE SettleStop
    <2>1. [job EXCEPT !.step = "stop1", !.keep = TRUE] \in JobRow
      BY <1>1 DEF JobRow, Steps
    <2> QED  BY <1>1, <1>2, <2>1
             DEF TypeOK, SettleStop, Settled, SamePhase, NoFault, budget
  <1>3. CASE SettleFree
    <2>1. job' \in JobRow \cup {NoJob}
      BY <1>1, <1>3, StepType DEF SettleFree, Steps
    <2> QED  BY <1>1, <1>3, <2>1
             DEF TypeOK, SettleFree, Settled, SamePhase, NoFault, budget
  <1>4. CASE Adopt
    <2>1. CASE Return("succeeded") /\ UNCHANGED handle
      <3>1. /\ cmds' \in Seq(Queue!Command) /\ Len(cmds') <= MaxCommands
            /\ job' \in JobRow \cup {NoJob}
        BY <1>1, <2>1, ReturnType DEF Queue!Terminal
      <3> QED  BY <1>1, <1>4, <2>1, <3>1
               DEF TypeOK, Adopt, Settled, SamePhase, NoFault, budget
    <2>2. CASE /\ cmds' = Finished(cmds, handle[A].cmd, "cancelled")
               /\ handle' = [handle EXCEPT ![A].cmd = job.cmd]
               /\ job' = NoJob
      <3>1. cmds' \in Seq(Queue!Command) /\ Len(cmds') <= MaxCommands
        BY <2>2, FinishType DEF Queue!Terminal
      <3>2. handle' \in [Accounts -> HandleRow]
        <4>1. [handle[A] EXCEPT !.cmd = job.cmd] \in HandleRow
          BY <1>1, RowsOf, AtStep DEF HandleRow
        <4> QED  BY <2>2, <4>1, PutHandle
      <3> QED  BY <1>1, <1>4, <2>2, <3>1, <3>2
               DEF TypeOK, Adopt, Settled, SamePhase, NoFault, budget
    <2> QED  BY <1>4, <2>1, <2>2 DEF Adopt
  <1>5. CASE SettleDead
    <2>1. CASE RecordExit(A, FALSE, FALSE) /\ NoFault /\ Step("launch")
      <3>1. job' \in JobRow \cup {NoJob}
        BY <1>1, <2>1, StepType DEF Steps
      <3> QED  BY <1>1, <2>1, <3>1, RecordExitType, FaultType
               DEF TypeOK, RunTable, Ends, States, Tries, Settled, SamePhase
    <2>2. CASE Fault /\ Return("failed")
                /\ UNCHANGED <<st, runs, incident, attempts, lastEnd, proc, handle>>
      <3>1. /\ cmds' \in Seq(Queue!Command) /\ Len(cmds') <= MaxCommands
            /\ job' \in JobRow \cup {NoJob}
        BY <1>1, <2>2, ReturnType DEF Queue!Terminal
      <3> QED  BY <1>1, <2>2, <3>1, FaultType DEF TypeOK, Settled, SamePhase
    <2> QED  BY <1>5, <2>1, <2>2 DEF SettleDead
  <1> QED  BY <1>2, <1>3, <1>4, <1>5

LEMMA LaunchType ==
    ASSUME TypeOK, Launch \/ LaunchRefused
    PROVE  TypeOK'
  <1>1. job.step # "idle" /\ A \in Accounts /\ job \in JobRow
    BY AtStep DEF Launch, LaunchRefused
  <1>2. CASE Launch
    <2> DEFINE r == CHOOSE x \in FreeRuns(A) : TRUE
    <2>1. r \in RunIds /\ r \in 0..MaxRuns
      BY <1>2 DEF Launch, FreeRuns, RunIds
    <2> DEFINE row == [open |-> TRUE, confirmed |-> FALSE, config |-> config[A]]
               spared == IF job.op = "restart" /\ Alive(A) THEN handle[A].attempt ELSE 0
               step == IF job.op \in {"start", "recover"} THEN "spawn" ELSE "stop1"
               state == [st[A] EXCEPT !.retry = "none",
                            !.count = IF job.cmd # 0 THEN 0 ELSE st[A].count,
                            !.observed = IF job.op = "restart" THEN "restarting" ELSE st[A].observed]
    <2>2. runs' \in RunTable
      <3>1. runs \in RunTable /\ row \in RunRow
        BY <1>1 DEF TypeOK, RunTable, RunRow
      <3>2. runs' = [runs EXCEPT ![A][r] = row]
        BY <1>2 DEF Launch
      <3> HIDE DEF r, row
      <3> QED  BY <1>1, <2>1, <3>1, <3>2 DEF RunTable
    <2>3. job' \in JobRow
      <3>1. job' = [job EXCEPT !.run = r, !.step = step, !.keep = TRUE]
        BY <1>2 DEF Launch
      <3>2. step \in Steps
        BY DEF Steps
      <3> HIDE DEF r, step
      <3> QED  BY <1>1, <2>1, <3>1, <3>2 DEF JobRow
    <2>4. state \in StateRow
      <3>1. st[A] \in StateRow /\ 0 \in 0..RapidAttempts
        BY <1>1, RowsOf, Settable
      <3> QED  BY <3>1 DEF StateRow, Observed
    <2>5. Abandoned(attempts[A], spared) \in Tries
      BY <1>1, RowsOf, TriesType
    <2>6. \/ /\ attempts' = [attempts EXCEPT ![A] = Abandoned(attempts[A], spared)]
             /\ st' = [st EXCEPT ![A] = state]
          \/ UNCHANGED <<attempts, st>>
      <3>1. CASE job.op \in {"start", "restart"}
        BY <1>2, <3>1 DEF Launch
      <3>2. CASE job.op \notin {"start", "restart"}
        BY <1>2, <3>2 DEF Launch
      <3> QED  BY <3>1, <3>2
    <2> HIDE DEF r, row, spared, step, state
    <2>7. attempts' \in [Accounts -> Tries]
      BY <2>5, <2>6, PutTries DEF TypeOK, Tries
    <2>8. st' \in States
      BY <2>4, <2>6, PutState DEF TypeOK, States
    <2> QED  BY <1>2, <2>2, <2>3, <2>7, <2>8
             DEF TypeOK, RunTable, Tries, States, Launch, SamePhase, NoFault, budget
  <1>3. CASE LaunchRefused
    <2>1. /\ cmds' \in Seq(Queue!Command) /\ Len(cmds') <= MaxCommands
          /\ job' \in JobRow \cup {NoJob}
      BY <1>1, <1>3, ReturnType, StepType DEF LaunchRefused, Steps, Queue!Terminal, TypeOK
    <2> QED  BY <1>3, <2>1, FaultType DEF TypeOK, LaunchRefused, SamePhase
  <1> QED  BY <1>2, <1>3

(* Stopping. *)
LEMMA StopReasonType ==
    ASSUME TypeOK, A \in Accounts
    PROVE  StopReason \in Reasons
  BY RowsOf DEF StopReason, Reasons

LEMMA FinalObservedType ==
    ASSUME job.op \in {"stop", "halt", "authfail", "retry", "restart", "authenticate", "start", "quit"}
    PROVE  FinalObserved \in Observed
  BY DEF FinalObserved, Observed

LEMMA StopFindsDeadType ==
    ASSUME TypeOK, StopFindsDead
    PROVE  TypeOK'
  <1>1. job.step # "idle" /\ A \in Accounts
    BY AtStep DEF StopFindsDead
  <1>2. CASE RecordExit(A, FALSE, TRUE) /\ NoFault /\ SamePhase /\ UNCHANGED job
    BY <1>1, <1>2, RecordExitType, FaultType
       DEF TypeOK, RunTable, Ends, States, Tries, StopFindsDead, SamePhase
  <1>3. CASE Fault /\ StopRaises
              /\ UNCHANGED <<st, runs, incident, attempts, lastEnd, proc, handle>>
    BY <1>1, <1>3, StopRaisesType, FaultType DEF TypeOK, Views, StopFindsDead
  <1> QED  BY <1>2, <1>3 DEF StopFindsDead

LEMMA StopBeginsType ==
    ASSUME TypeOK, StopBegins
    PROVE  TypeOK'
  <1>1. job.step # "idle" /\ A \in Accounts
    BY AtStep DEF StopBegins
  <1>2. st' \in States
    <2>1. [st[A] EXCEPT !.observed = "stopping", !.retry = "none"] \in StateRow
      <3>1. st[A] \in StateRow /\ "stopping" \in Observed
        BY <1>1, RowsOf, Settable
      <3> QED  BY <3>1 DEF StateRow
    <2>2. st' = [st EXCEPT ![A] = [st[A] EXCEPT !.observed = "stopping", !.retry = "none"]]
      <3>1. st' = [st EXCEPT ![A].observed = "stopping", ![A].retry = "none"]
        BY DEF StopBegins
      <3>2. st \in States
        BY DEF TypeOK, States
      <3> QED  BY <1>1, <3>1, <3>2 DEF States, StateRow
    <2> QED  BY <2>1, <2>2, PutState
  <1>3. cmds' \in Seq(Queue!Command) /\ Len(cmds') <= MaxCommands
    BY FinishType DEF StopBegins, TypeOK, Queue!Terminal
  <1>4. job' \in JobRow \cup {NoJob}
    BY <1>1, StepType DEF StopBegins, Steps
  <1> QED  BY <1>2, <1>3, <1>4 DEF TypeOK, States, StopBegins, SamePhase, NoFault, budget

LEMMA TerminateType ==
    ASSUME TypeOK, Terminate
    PROVE  TypeOK'
  <1>1. job.step # "idle" /\ A \in Accounts
    BY AtStep DEF Terminate
  <1>2. job' \in JobRow \cup {NoJob}
    BY <1>1, StepType DEF Terminate, Steps
  <1>3. runs' \in RunTable /\ lastEnd' \in Ends
    <2>1. \/ CloseRun(A, handle[A].run, StopReason)
          \/ CloseRun(A, st[A].run, StopReason)
          \/ UNCHANGED <<runs, lastEnd>>
      BY DEF Terminate
    <2>2. runs \in RunTable /\ lastEnd \in Ends
      BY DEF TypeOK, RunTable, Ends
    <2> QED  BY <1>1, <2>1, <2>2, CloseRunType, StopReasonType
  <1>4. attempts' \in [Accounts -> Tries]
    <2>1. Failed(attempts[A], handle[A].attempt) \in Tries
      BY <1>1, RowsOf, TriesType
    <2>2. \/ attempts' = [attempts EXCEPT ![A] = Failed(attempts[A], handle[A].attempt)]
          \/ UNCHANGED attempts
      BY DEF Terminate
    <2>3. attempts \in [Accounts -> Tries]
      BY DEF TypeOK, Tries
    <2> QED  BY <2>1, <2>2, <2>3, PutTries
  <1>5. handle' \in [Accounts -> HandleRow] /\ proc' \in [Accounts -> [RunIds -> Process]]
    BY ForgetType DEF Terminate, TypeOK
  <1> QED  BY <1>2, <1>3, <1>4, <1>5
           DEF TypeOK, RunTable, Ends, Tries, Terminate, SamePhase, NoFault, budget

LEMMA TerminateFailsType ==
    ASSUME TypeOK, TerminateFails
    PROVE  TypeOK'
  <1>1. job.step # "idle" /\ A \in Accounts
    BY AtStep DEF TerminateFails
  <1>2. st' \in States
    BY ShowType, Settable DEF TerminateFails
  <1> QED  BY <1>1, <1>2, StopRaisesType, FaultType DEF TypeOK, Views, States, TerminateFails

LEMMA CloseFailsType ==
    ASSUME TypeOK, CloseFails
    PROVE  TypeOK'
  <1>1. job.step # "idle" /\ A \in Accounts
    BY AtStep DEF CloseFails
  <1>2. st' \in States
    BY ShowType, Settable DEF CloseFails
  <1>3. attempts' \in [Accounts -> Tries]
    BY <1>1, RowsOf, TriesType, PutTries DEF CloseFails
  <1>4. handle' \in [Accounts -> HandleRow]
    <2>1. [handle[A] EXCEPT !.planned = StopReason] \in HandleRow
      BY <1>1, RowsOf, StopReasonType DEF HandleRow
    <2>2. handle' = [handle EXCEPT ![A] = [handle[A] EXCEPT !.planned = StopReason]]
      BY DEF CloseFails
    <2> QED  BY <2>1, <2>2, PutHandle
  <1>5. proc' \in [Accounts -> [RunIds -> Process]]
    <2> DEFINE r == handle[A].run
               os == IF proc[A][r].os = "alive" THEN "killed" ELSE proc[A][r].os
    <2>1. r \in RunIds
      BY <1>1, OwnedRun DEF CloseFails
    <2>2. proc[A][r] \in Process
      BY <1>1, <2>1, RowsOf
    <2>3. os \in {"none", "alive", "exited", "killed"}
      BY <2>2 DEF Process
    <2>4. proc' = [proc EXCEPT ![A][r].os = os]
      BY DEF CloseFails
    <2> HIDE DEF r, os
    <2> QED  BY <1>1, <2>1, <2>3, <2>4, ChildFieldsType
  <1> QED  BY <1>1, <1>2, <1>3, <1>4, <1>5, StopRaisesType, FaultType
           DEF TypeOK, Views, States, Tries, CloseFails

LEMMA StopDoneType ==
    ASSUME TypeOK, StopDone,
           job.op \in {"stop", "halt", "authfail", "retry", "restart", "authenticate", "start", "quit"}
    PROVE  TypeOK'
  <1>1. job.step # "idle" /\ A \in Accounts
    BY AtStep DEF StopDone
  <1>2. st' \in States
    <2>1. [st[A] EXCEPT !.run = 0, !.observed = FinalObserved] \in StateRow
      <3>1. st[A] \in StateRow /\ 0 \in 0..MaxRuns
        BY <1>1, RowsOf, Settable
      <3>2. FinalObserved \in Observed
        BY FinalObservedType
      <3> QED  BY <3>1, <3>2 DEF StateRow
    <2>2. st' = [st EXCEPT ![A] = [st[A] EXCEPT !.run = 0, !.observed = FinalObserved]]
      <3>1. st' = [st EXCEPT ![A].run = 0, ![A].observed = FinalObserved]
        BY DEF StopDone
      <3>2. st \in States
        BY DEF TypeOK, States
      <3> QED  BY <1>1, <3>1, <3>2 DEF States, StateRow
    <2> QED  BY <2>1, <2>2, PutState
  <1>3. incident' \in [Accounts -> BOOLEAN]
    <2>1. (incident[A] /\ job.keep) \in BOOLEAN
      OBVIOUS
    <2>2. incident' = [incident EXCEPT ![A] = incident[A] /\ job.keep]
      BY DEF StopDone
    <2> QED  BY <2>1, <2>2, PutIncident
  <1>4. attempts' \in [Accounts -> Tries]
    <2>1. Detached(Abandoned(attempts[A], 0)) \in Tries
      BY <1>1, RowsOf, TriesType
    <2>2. \/ attempts' = [attempts EXCEPT ![A] = Detached(Abandoned(attempts[A], 0))]
          \/ UNCHANGED attempts
      BY DEF StopDone
    <2>3. attempts \in [Accounts -> Tries]
      BY DEF TypeOK, Tries
    <2> QED  BY <2>1, <2>2, <2>3, PutTries
  <1>5. /\ cmds' \in Seq(Queue!Command) /\ Len(cmds') <= MaxCommands
        /\ job' \in JobRow \cup {NoJob}
    <2>1. cmds \in Seq(Queue!Command) /\ Len(cmds) <= MaxCommands
      BY DEF TypeOK
    <2>2. \/ Return("succeeded") \/ Return("failed")
          \/ job' = NoJob /\ UNCHANGED cmds
          \/ Step("spawn") /\ UNCHANGED cmds
          \/ Step("settle") /\ UNCHANGED cmds
      BY DEF StopDone
    <2> QED  BY <1>1, <2>1, <2>2, ReturnType, StepType DEF Queue!Terminal, Steps
  <1> QED  BY <1>2, <1>3, <1>4, <1>5
           DEF TypeOK, States, Tries, StopDone, SamePhase, NoFault, budget

(* Spawning. *)
LEMMA SpawnType ==
    ASSUME TypeOK, SpawnCancelled \/ Spawn \/ SpawnFails \/ SpawnUnrecorded
    PROVE  TypeOK'
  <1>1. job.step # "idle" /\ A \in Accounts /\ job \in JobRow
        /\ job.cmd \in 0..MaxCommands /\ job.run \in 0..MaxRuns /\ job.attempt \in 0..MaxAttempts
    BY AtStep DEF SpawnCancelled, Spawn, SpawnFails, SpawnUnrecorded
  <1>2. NewHandle \in HandleRow /\ [NewHandle EXCEPT !.cleanup = TRUE] \in HandleRow
    BY <1>1 DEF NewHandle, HandleOf, HandleRow
  <1>3. \A os \in {"alive", "killed"} : [NoProc EXCEPT !.os = os] \in Process
    BY DEF NoProc, Process
  <1>4. CASE SpawnCancelled
    <2>1. CASE job.op = "recover"
      <3>1. runs' \in RunTable /\ lastEnd' \in Ends
        BY <1>4, <2>1, CloseRunType DEF SpawnCancelled, Reasons
      <3>2. attempts' \in [Accounts -> Tries]
        <4>1. Failed(attempts[A], job.attempt) \in Tries
          BY <1>1, RowsOf, TriesType
        <4> QED  BY <1>4, <2>1, <4>1, PutTries DEF SpawnCancelled
      <3>3. st' \in States
        <4>1. [st[A] EXCEPT !.run = 0, !.retry = "none", !.observed = "stopped"] \in StateRow
          <5>1. st[A] \in StateRow /\ 0 \in 0..MaxRuns /\ "stopped" \in Observed
            BY <1>1, RowsOf, Settable
          <5> QED  BY <5>1 DEF StateRow
        <4> QED  BY <1>4, <2>1, <4>1, PutState DEF SpawnCancelled
      <3>4. job' = NoJob
        BY <1>4, <2>1 DEF SpawnCancelled
      <3> QED  BY <1>4, <3>1, <3>2, <3>3, <3>4
               DEF TypeOK, RunTable, Ends, Tries, States, SpawnCancelled, SamePhase, NoFault, budget
    <2>2. CASE job.op # "recover"
      <3>1. job' \in JobRow \cup {NoJob}
        BY <1>1, <1>4, <2>2, StepType DEF SpawnCancelled, Steps
      <3> QED  BY <1>4, <2>2, <3>1 DEF TypeOK, SpawnCancelled, SamePhase, NoFault, budget
    <2> QED  BY <2>1, <2>2
  <1>5. CASE Spawn
    <2>1. proc' \in [Accounts -> [RunIds -> Process]]
      BY <1>3, <1>5, PutProc DEF Spawn
    <2>2. handle' \in [Accounts -> HandleRow]
      BY <1>2, <1>5, PutHandle DEF Spawn
    <2>3. st' \in States
      <3>1. [st[A] EXCEPT !.run = job.run, !.observed = "starting", !.retry = "none"] \in StateRow
        <4>1. st[A] \in StateRow
          BY <1>1, RowsOf
        <4>2. job.run \in 0..MaxRuns
          BY <1>1 DEF RunIds, SupervisorAssumption
        <4>3. "starting" \in Observed
          BY Settable
        <4> QED  BY <4>1, <4>2, <4>3 DEF StateRow
      <3> QED  BY <1>5, <3>1, PutState DEF Spawn
    <2> QED  BY <1>5, <2>1, <2>2, <2>3
             DEF TypeOK, States, Spawn, SamePhase, NoFault, budget
  <1>6. CASE SpawnFails
    <2>1. job' \in JobRow \cup {NoJob}
      BY <1>1, <1>6, StepType DEF SpawnFails, Steps
    <2> QED  BY <1>6, <2>1, FaultType DEF TypeOK, SpawnFails, SamePhase, db
  <1>7. CASE SpawnUnrecorded
    <2>1. proc' \in [Accounts -> [RunIds -> Process]]
      <3>1. PICK os \in {"alive", "killed"} :
               proc' = [proc EXCEPT ![A][job.run] = [NoProc EXCEPT !.os = os]]
        BY <1>7 DEF SpawnUnrecorded
      <3>2. [NoProc EXCEPT !.os = os] \in Process
        BY <1>3
      <3> QED  BY <3>1, <3>2, PutProc
    <2>2. handle' \in [Accounts -> HandleRow]
      BY <1>2, <1>7, PutHandle DEF SpawnUnrecorded
    <2>3. job' \in JobRow \cup {NoJob}
      BY <1>1, <1>7, StepType DEF SpawnUnrecorded, Steps
    <2> QED  BY <1>7, <2>1, <2>2, <2>3, FaultType DEF TypeOK, SpawnUnrecorded, SamePhase, db
  <1> QED  BY <1>4, <1>5, <1>6, <1>7

LEMMA SpawnTidyType ==
    ASSUME TypeOK, SpawnTidy
    PROVE  TypeOK'
  <1>1. job.step # "idle" /\ A \in Accounts
    BY AtStep DEF SpawnTidy
  <1>2. job' \in JobRow \cup {NoJob}
    BY <1>1, StepType DEF SpawnTidy, Steps
  <1>3. CASE TidyDone(A) /\ NoFault /\ cmds' = Finished(cmds, handle[A].cmd, "failed")
    <2>1. cmds' \in Seq(Queue!Command) /\ Len(cmds') <= MaxCommands
      BY <1>3, FinishType DEF Queue!Terminal
    <2> QED  BY <1>1, <1>2, <1>3, <2>1, TidyDoneType, FaultType
             DEF TypeOK, RunTable, Ends, States, Tries, SpawnTidy, SamePhase
  <1>4. CASE TidyFails(A) /\ UNCHANGED cmds
    <2>1. runs' = runs /\ lastEnd' = lastEnd /\ handle' = handle /\ attempts' = attempts
      BY <1>4 DEF TidyFails
    <2> QED  BY <1>1, <1>2, <1>4, <2>1, TidyFailsType
             DEF TypeOK, States, SpawnTidy, SamePhase
  <1> QED  BY <1>3, <1>4 DEF SpawnTidy

(* The handlers of a failed launch. *)
LEMMA LaunchFailedType ==
    ASSUME TypeOK, LaunchFailed
    PROVE  TypeOK'
  <1>1. job.step # "idle" /\ A \in Accounts /\ st[A] \in StateRow
    BY AtStep, RowsOf DEF LaunchFailed
  <1> DEFINE state == [st[A] EXCEPT !.observed = ShownAfterFailure,
                                    !.retry = IF Survivor THEN "none" ELSE "later"]
             plan == Scheduled(A, state, attempts[A], "later")
             halted == [st[A] EXCEPT !.observed = "stopped", !.retry = "none"]
  <1>2. state \in StateRow /\ halted \in StateRow
    <2>1. /\ ShownAfterFailure \in Observed /\ "stopped" \in Observed
          /\ (IF Survivor THEN "none" ELSE "later") \in {"none", "later", "due"}
      BY DEF ShownAfterFailure, Observed
    <2> QED  BY <1>1, <2>1 DEF StateRow
  <1>3. plan.state \in StateRow /\ plan.tries \in Tries
    BY <1>1, <1>2, RowsOf, ScheduledType
  <1>4. \/ st' = [st EXCEPT ![A] = halted] /\ UNCHANGED attempts
        \/ UNCHANGED <<st, attempts>>
        \/ st' = [st EXCEPT ![A] = plan.state] /\ attempts' = [attempts EXCEPT ![A] = plan.tries]
        \/ st' = [st EXCEPT ![A] = state] /\ UNCHANGED attempts
    BY <1>1 DEF LaunchFailed, TypeOK
  <1> HIDE DEF state, plan, halted
  <1>5. st \in States /\ attempts \in [Accounts -> Tries]
    BY DEF TypeOK, States, Tries
  <1>6. st' \in States
    BY <1>2, <1>3, <1>4, <1>5, PutState
  <1>7. attempts' \in [Accounts -> Tries]
    BY <1>3, <1>4, <1>5, PutTries
  <1>8. /\ cmds' \in Seq(Queue!Command) /\ Len(cmds') <= MaxCommands
        /\ job' \in JobRow \cup {NoJob}
    BY <1>1, ReturnType DEF LaunchFailed, Queue!Terminal
  <1>9. /\ runs' \in RunTable /\ lastEnd' \in Ends
        /\ unfinished' \in [Accounts -> [RunIds -> Reasons \cup {"none"}]]
        /\ exits' \in 0..MaxExits /\ faults' \in 0..MaxFaults /\ crashes' \in 0..MaxCrashes
    BY FinalizeType DEF LaunchFailed, Reasons
  <1> QED  BY <1>6, <1>7, <1>8, <1>9
           DEF TypeOK, RunTable, Ends, States, Tries, LaunchFailed, SamePhase

LEMMA ResetFailedType ==
    ASSUME TypeOK, ResetFailed
    PROVE  TypeOK'
  <1>1. job.step # "idle"
    BY DEF ResetFailed
  <1>2. /\ cmds' \in Seq(Queue!Command) /\ Len(cmds') <= MaxCommands
        /\ job' \in JobRow \cup {NoJob}
    BY <1>1, ReturnType DEF ResetFailed, Queue!Terminal
  <1>3. /\ runs' \in RunTable /\ lastEnd' \in Ends
        /\ unfinished' \in [Accounts -> [RunIds -> Reasons \cup {"none"}]]
        /\ exits' \in 0..MaxExits /\ faults' \in 0..MaxFaults /\ crashes' \in 0..MaxCrashes
    BY FinalizeType DEF ResetFailed, Reasons
  <1> QED  BY <1>2, <1>3 DEF TypeOK, RunTable, Ends, ResetFailed, SamePhase

LEMMA RecoveryFailedType ==
    ASSUME TypeOK, RecoveryFailed
    PROVE  TypeOK'
  <1>1. job.step # "idle" /\ A \in Accounts /\ st[A] \in StateRow
    BY AtStep, RowsOf DEF RecoveryFailed
  <1> DEFINE gone  == [st[A] EXCEPT !.run = 0]
             tries == Failed(attempts[A], job.attempt)
             plan  == Scheduled(A, gone, tries, "later")
             halted == [gone EXCEPT !.observed = "stopped", !.retry = "none"]
  <1>2. gone \in StateRow /\ tries \in Tries
    BY <1>1, RowsOf, StateFields, Settable, TriesType
  <1>3. plan.state \in StateRow /\ plan.tries \in Tries
    BY <1>2, ScheduledType
  <1>4. halted \in StateRow
    BY <1>2 DEF StateRow, Observed
  <1>5. \/ st' = [st EXCEPT ![A] = halted] /\ attempts' = [attempts EXCEPT ![A] = tries]
        \/ st' = [st EXCEPT ![A] = plan.state] /\ attempts' = [attempts EXCEPT ![A] = plan.tries]
    BY DEF RecoveryFailed
  <1> HIDE DEF gone, tries, plan, halted
  <1>6. st' \in States
    BY <1>3, <1>4, <1>5, PutState
  <1>7. attempts' \in [Accounts -> Tries]
    BY <1>2, <1>3, <1>5, PutTries
  <1>8. job' \in JobRow \cup {NoJob}
    BY <1>1, StepType DEF RecoveryFailed, Steps
  <1>9. /\ runs' \in RunTable /\ lastEnd' \in Ends
        /\ unfinished' \in [Accounts -> [RunIds -> Reasons \cup {"none"}]]
        /\ exits' \in 0..MaxExits /\ faults' \in 0..MaxFaults /\ crashes' \in 0..MaxCrashes
    BY FinalizeType DEF RecoveryFailed, Reasons
  <1> QED  BY <1>6, <1>7, <1>8, <1>9
           DEF TypeOK, RunTable, Ends, States, Tries, RecoveryFailed, SamePhase

-----------------------------------------------------------------------------
(* The visits of a phase. *)

LEMMA VisitType ==
    ASSUME TypeOK, NEW a, Visit(a)
    PROVE  /\ a \in Accounts /\ phase' \in Phases /\ todo' \subseteq Accounts /\ view' \in Views
           /\ job = NoJob
  <1>1. phase \in Phases /\ todo \subseteq Accounts /\ view \in Views
    BY DEF TypeOK, Views
  <1> QED  BY <1>1, BlankRows DEF Visit, Idle

LEMMA HandleFields ==
    ASSUME TypeOK, NEW a \in Accounts
    PROVE  /\ \A b \in BOOLEAN : /\ [handle[a] EXCEPT !.authed = b] \in HandleRow
                                 /\ [handle[a] EXCEPT !.cleanup = b] \in HandleRow
           /\ \A p \in Reasons, b \in BOOLEAN :
                [handle[a] EXCEPT !.planned = p, !.authed = b] \in HandleRow
           /\ [handle[a] EXCEPT !.confirmed = TRUE, !.authed = TRUE, !.cmd = 0, !.attempt = 0]
                \in HandleRow
           /\ Authed(a) \in BOOLEAN
  <1>1. handle[a] \in HandleRow /\ 0 \in 0..MaxCommands /\ 0 \in 0..MaxAttempts
    BY RowsOf DEF SupervisorAssumption
  <1>2. Authed(a) \in BOOLEAN
    BY <1>1 DEF Authed, HandleRow
  <1> QED  BY <1>1, <1>2 DEF HandleRow

LEMMA AuthedType ==
    ASSUME TypeOK, NEW a \in Accounts, NEW b \in BOOLEAN,
           handle' = [handle EXCEPT ![a].authed = b]
    PROVE  handle' \in [Accounts -> HandleRow]
  BY HandleFields, PutHandle

LEMMA HealthLookType ==
    ASSUME TypeOK, NEW a \in Accounts, HealthLook(a)
    PROVE  TypeOK'
  <1>1. view' \in Views
    BY RowsOf, Put DEF HealthLook, Views, TypeOK
  <1> QED  BY <1>1 DEF TypeOK, Views, HealthLook, NoFault, budget, db

LEMMA HealthTidyType ==
    ASSUME TypeOK, NEW a \in Accounts, HealthTidy(a)
    PROVE  TypeOK'
  <1>1. Visit(a) /\ UNCHANGED <<config, unfinished>>
    BY DEF HealthTidy, Examined
  <1>2. CASE TidyDone(a) /\ NoFault /\ cmds' = Finished(cmds, handle[a].cmd, "failed")
    <2>1. cmds' \in Seq(Queue!Command) /\ Len(cmds') <= MaxCommands
      BY <1>2, FinishType DEF Queue!Terminal
    <2> QED  BY <1>1, <1>2, <2>1, VisitType, TidyDoneType, FaultType
             DEF TypeOK, RunTable, Ends, States, Tries, Views, HealthTidy
  <1>3. CASE TidyFails(a) /\ UNCHANGED cmds
    <2>1. runs' = runs /\ lastEnd' = lastEnd /\ handle' = handle /\ attempts' = attempts
      BY <1>3 DEF TidyFails
    <2> QED  BY <1>1, <1>3, <2>1, VisitType, TidyFailsType
             DEF TypeOK, States, Views, HealthTidy
  <1> QED  BY <1>2, <1>3 DEF HealthTidy

LEMMA GiveUpLoginType ==
    ASSUME TypeOK, NEW a \in Accounts, Examined(a), GiveUpLogin(a)
    PROVE  TypeOK'
  <1>1. Visit(a) /\ UNCHANGED <<config, unfinished>>
    BY DEF Examined
  <1>2. desired' \in [Accounts -> {"running", "stopped"}]
    BY Put DEF GiveUpLogin, TypeOK
  <1>3. handle' \in [Accounts -> HandleRow]
    <2> DEFINE h == [handle[a] EXCEPT !.planned = "authentication_failed", !.authed = Authed(a)]
    <2>1. h \in HandleRow
      BY HandleFields DEF Reasons
    <2>2. handle' = [handle EXCEPT ![a] = h]
      BY DEF GiveUpLogin, TypeOK
    <2> QED  BY <2>1, <2>2, PutHandle
  <1>4. job' \in JobRow
    BY RowsOf, NewJobType DEF GiveUpLogin, Ops, Steps
  <1> QED  BY <1>1, <1>2, <1>3, <1>4, VisitType DEF TypeOK, Views, GiveUpLogin, NoFault, budget

LEMMA HealthStopType ==
    ASSUME TypeOK, NEW a \in Accounts, HealthRetry(a) \/ HealthHalt(a)
    PROVE  TypeOK'
  <1>1. Visit(a) /\ UNCHANGED <<config, unfinished>>
    BY DEF Examined, HealthRetry, HealthHalt
  <1>2. handle' \in [Accounts -> HandleRow]
    BY HandleFields, AuthedType DEF HealthRetry, HealthHalt
  <1>3. job' \in JobRow
    <2> DEFINE b == view[a] = "running"
    <2>1. CASE HealthRetry(a)
      <3>1. job' = [NewJob("retry", "stop1", a) EXCEPT !.keep = b] /\ b \in BOOLEAN
        BY <2>1 DEF HealthRetry
      <3> HIDE DEF b
      <3> QED  BY <3>1, NewJobType DEF Ops, Steps
    <2>2. CASE HealthHalt(a)
      BY <2>2, NewJobType DEF HealthHalt, Begin, Ops, Steps
    <2> QED  BY <2>1, <2>2
  <1> QED  BY <1>1, <1>2, <1>3, VisitType
           DEF TypeOK, Views, HealthRetry, HealthHalt, NoFault, budget

LEMMA HealthExitType ==
    ASSUME TypeOK, NEW a \in Accounts, HealthExit(a)
    PROVE  TypeOK'
  <1>1. Visit(a) /\ UNCHANGED <<config, unfinished>> /\ UNCHANGED <<desired, job>>
    BY DEF Examined, HealthExit
  <1>2. CASE RecordExit(a, TRUE, FALSE) /\ NoFault
    BY <1>1, <1>2, VisitType, RecordExitType, FaultType
       DEF TypeOK, RunTable, Ends, States, Tries, Views
  <1>3. CASE /\ Fault
             /\ handle' = [handle EXCEPT ![a].authed = TRUE]
             /\ UNCHANGED <<cmds, st, runs, incident, attempts, lastEnd, proc>>
    BY <1>1, <1>3, VisitType, AuthedType, FaultType DEF TypeOK, Views
  <1> QED  BY <1>2, <1>3 DEF HealthExit

LEMMA ConfirmType ==
    ASSUME TypeOK, NEW a \in Accounts, Confirm(a)
    PROVE  TypeOK'
  <1>1. Visit(a) /\ UNCHANGED <<config, unfinished>> /\ UNCHANGED <<desired, job, proc, lastEnd>>
    BY DEF Examined, Confirm
  <1> DEFINE h == handle[a]
             mine == h.attempt # 0 /\ attempts[a][h.attempt].outcome = "started"
             closes == h.attempt = 0 \/ mine \/ (desired[a] = "running" /\ NoActiveRestart(a))
             tries == IF mine THEN [attempts[a] EXCEPT ![h.attempt].outcome = "succeeded"]
                              ELSE attempts[a]
  <1>2. Owned(a)
    BY DEF Confirm, Living, Alive
  <1>3. runs' \in RunTable
    <2>1. h.run \in RunIds /\ runs \in RunTable
      BY <1>2, OwnedRun DEF TypeOK, RunTable
    <2>2. runs' = [runs EXCEPT ![a][h.run].confirmed = TRUE]
      BY DEF Confirm
    <2>3. [runs[a][h.run] EXCEPT !.confirmed = TRUE] \in RunRow /\ runs[a] \in [RunIds -> RunRow]
      <3>1. runs[a] \in [RunIds -> RunRow] /\ runs[a][h.run] \in RunRow
        BY <2>1 DEF RunTable
      <3> QED  BY <3>1 DEF RunRow
    <2>4. [runs[a] EXCEPT ![h.run] = [runs[a][h.run] EXCEPT !.confirmed = TRUE]] \in [RunIds -> RunRow]
      BY <2>1, <2>3, Put
    <2>5. runs' = [runs EXCEPT ![a] = [runs[a] EXCEPT ![h.run] = [runs[a][h.run] EXCEPT !.confirmed = TRUE]]]
      BY <2>1, <2>2 DEF RunTable
    <2> QED  BY <2>1, <2>4, <2>5 DEF RunTable
  <1>4. st' \in States
    <2>1. [st[a] EXCEPT !.observed = "running", !.retry = "none"] \in StateRow
      <3>1. st[a] \in StateRow /\ "running" \in Observed
        BY RowsOf, Settable
      <3> QED  BY <3>1 DEF StateRow
    <2>2. st' = [st EXCEPT ![a] = [st[a] EXCEPT !.observed = "running", !.retry = "none"]]
      BY DEF Confirm, TypeOK
    <2> QED  BY <2>1, <2>2, PutState
  <1>5. cmds' \in Seq(Queue!Command) /\ Len(cmds') <= MaxCommands
    BY FinishType DEF Confirm, Queue!Terminal
  <1>6. tries \in Tries
    <2>1. attempts[a] \in Tries /\ handle[a] \in HandleRow
      BY RowsOf
    <2>2. CASE mine
      <3>1. h.attempt \in AttemptIds
        BY <2>1, <2>2 DEF HandleRow, AttemptIds, SupervisorAssumption
      <3> QED  BY <2>1, <2>2, <3>1 DEF Tries, AttemptRow
    <2>3. CASE ~mine
      BY <2>1, <2>3
    <2> QED  BY <2>2, <2>3
  <1>7. attempts' \in [Accounts -> Tries]
    <2>1. attempts' = [attempts EXCEPT ![a] = IF closes THEN Detached(tries) ELSE tries]
      BY DEF Confirm
    <2>2. (IF closes THEN Detached(tries) ELSE tries) \in Tries
      BY <1>6, TriesType
    <2> QED  BY <2>1, <2>2, PutTries
  <1>8. incident' \in [Accounts -> BOOLEAN]
    <2>1. incident' = [incident EXCEPT ![a] = incident[a] /\ ~closes]
      BY DEF Confirm
    <2>2. (incident[a] /\ ~closes) \in BOOLEAN
      OBVIOUS
    <2> QED  BY <2>1, <2>2, PutIncident
  <1>9. handle' \in [Accounts -> HandleRow]
    <2>1. handle' = [handle EXCEPT ![a] = [handle[a] EXCEPT !.confirmed = TRUE, !.authed = TRUE,
                                                            !.cmd = 0, !.attempt = 0]]
      BY DEF Confirm, TypeOK
    <2> QED  BY <2>1, HandleFields, PutHandle
  <1> QED  BY <1>1, <1>3, <1>4, <1>5, <1>7, <1>8, <1>9, VisitType
           DEF TypeOK, RunTable, States, Tries, Views, Confirm, NoFault, budget

LEMMA HealthEndsType ==
    ASSUME TypeOK, NEW a \in Accounts, ConfirmFails(a) \/ HealthQuiet(a)
    PROVE  TypeOK'
  <1>1. CASE ConfirmFails(a)
    <2>1. handle' \in [Accounts -> HandleRow]
      BY <1>1, AuthedType DEF ConfirmFails
    <2>2. phase' \in Phases /\ todo' \subseteq Accounts /\ view' \in Views
      BY <1>1, EnterType DEF ConfirmFails, Phases
    <2> QED  BY <1>1, <2>1, <2>2, FaultType DEF TypeOK, Views, ConfirmFails, db
  <1>2. CASE HealthQuiet(a)
    <2>1. Visit(a) /\ UNCHANGED <<config, unfinished>>
      BY <1>2 DEF Examined, HealthQuiet
    <2>2. handle' \in [Accounts -> HandleRow]
      BY <1>2, HandleFields, AuthedType DEF HealthQuiet
    <2>3. st' \in States
      <3>1. [st[a] EXCEPT !.count = 0] \in StateRow
        BY RowsOf, StateFields, Settable
      <3>2. st' = st \/ st' = [st EXCEPT ![a] = [st[a] EXCEPT !.count = 0]]
        BY <1>2 DEF HealthQuiet
      <3> QED  BY <3>1, <3>2, PutState DEF TypeOK, States
    <2> QED  BY <1>2, <2>1, <2>2, <2>3, VisitType
             DEF TypeOK, States, Views, HealthQuiet, NoFault, budget
  <1> QED  BY <1>1, <1>2

LEMMA ReconcileType ==
    ASSUME TypeOK, NEW a \in Accounts, ReconcileStopped(a) \/ ReconcileRunning(a)
    PROVE  TypeOK'
  <1>1. CASE ReconcileStopped(a)
    <2>1. job' \in JobRow \cup {NoJob}
      BY <1>1, NewJobType DEF ReconcileStopped, Begin, Ops, Steps, TypeOK
    <2>2. st' \in States
      <3>1. [st[a] EXCEPT !.run = 0, !.retry = "none", !.observed = "stopped"] \in StateRow
        BY RowsOf, StateFields, Settable
      <3>2. st' = st \/ st' = [st EXCEPT ![a] = [st[a] EXCEPT !.run = 0, !.retry = "none",
                                                            !.observed = "stopped"]]
        BY <1>1 DEF ReconcileStopped
      <3> QED  BY <3>1, <3>2, PutState DEF TypeOK, States
    <2>3. incident' \in [Accounts -> BOOLEAN]
      BY <1>1, PutIncident DEF ReconcileStopped, TypeOK
    <2>4. attempts' \in [Accounts -> Tries]
      <3>1. Detached(Abandoned(attempts[a], 0)) \in Tries
        BY RowsOf, TriesType
      <3>2. \/ attempts' = attempts
            \/ attempts' = [attempts EXCEPT ![a] = Detached(Abandoned(attempts[a], 0))]
        BY <1>1 DEF ReconcileStopped
      <3> QED  BY <3>1, <3>2, PutTries DEF TypeOK, Tries
    <2>5. Visit(a) /\ UNCHANGED <<desired, cmds, runs, config, lastEnd, proc, handle, unfinished, budget>>
      BY <1>1 DEF ReconcileStopped, NoFault
    <2> QED  BY <2>1, <2>2, <2>3, <2>4, <2>5, VisitType DEF TypeOK, States, Tries, Views, budget
  <1>2. CASE ReconcileRunning(a)
    <2>1. job' \in JobRow \cup {NoJob}
      BY <1>2, NewJobType DEF ReconcileRunning, Begin, Ops, Steps, TypeOK
    <2>2. Visit(a) /\ UNCHANGED <<db, proc, handle, unfinished, budget>>
      BY <1>2 DEF ReconcileRunning, NoFault
    <2> QED  BY <2>1, <2>2, VisitType DEF TypeOK, Views, budget, db
  <1> QED  BY <1>1, <1>2

LEMMA RecoverFlushType ==
    ASSUME TypeOK, NEW a \in Accounts, RecoverFlush(a)
    PROVE  TypeOK'
  <1>1. PICK S \in SUBSET Unclosed(a) :
            CloseUnfinished(a, S) /\ (NoFault \/ Fault) /\ (todo' = todo \/ todo' = todo \ {a})
    BY DEF RecoverFlush
  <1> QED  BY <1>1, CloseUnfinishedType, FaultType
           DEF TypeOK, RunTable, Ends, RecoverFlush

LEMMA RecoverVisitType ==
    ASSUME TypeOK, NEW a \in Accounts,
           \/ RecoverSkip(a) \/ RecoverPlain(a) \/ RecoverSchedule(a) \/ RecoverClaim(a)
    PROVE  TypeOK'
  <1>1. /\ Visit(a)
        /\ UNCHANGED <<desired, cmds, runs, incident, config, lastEnd, proc, handle, unfinished, budget>>
    BY DEF RecoverSkip, RecoverPlain, RecoverSchedule, RecoverClaim, RecoverPass, NoFault
  <1>2. /\ st' \in States /\ attempts' \in [Accounts -> Tries] /\ job' \in JobRow \cup {NoJob}
    <2>1. CASE RecoverSkip(a)
      BY <2>1 DEF RecoverSkip, TypeOK, States, Tries
    <2>2. CASE RecoverPlain(a)
      BY <2>2, NewJobType DEF RecoverPlain, Begin, Ops, Steps, TypeOK, States, Tries
    <2>3. CASE RecoverSchedule(a)
      <3> DEFINE plan == Scheduled(a, st[a], attempts[a], "later")
      <3>1. plan.state \in StateRow /\ plan.tries \in Tries
        BY RowsOf, ScheduledType
      <3>2. st' = [st EXCEPT ![a] = plan.state] /\ attempts' = [attempts EXCEPT ![a] = plan.tries]
            /\ job' = job
        BY <2>3 DEF RecoverSchedule
      <3> HIDE DEF plan
      <3> QED  BY <3>1, <3>2, PutState, PutTries DEF TypeOK
    <2>4. CASE RecoverClaim(a)
      <3> DEFINE n == IF st[a].count < RapidAttempts THEN st[a].count + 1 ELSE st[a].count
                 row == [st[a] EXCEPT !.retry = "none", !.observed = "restarting", !.count = n]
      <3>1. PICK k \in Due(a) :
              \/ /\ st' = [st EXCEPT ![a] = row]
                 /\ attempts' = [attempts EXCEPT ![a][k].outcome = "started"]
                 /\ job' = [NewJob("recover", "launch", a) EXCEPT !.attempt = k]
              \/ UNCHANGED <<st, attempts, job>>
        BY <2>4 DEF RecoverClaim
      <3>2. row \in StateRow
        <4>1. n \in 0..RapidAttempts
          <5>1. st[a].count \in 0..RapidAttempts /\ RapidAttempts \in Nat
            BY RowsOf, StateFields DEF SupervisorAssumption
          <5> QED  BY <5>1
        <4> HIDE DEF n
        <4>2. st[a] \in StateRow /\ "none" \in {"none", "later", "due"} /\ "restarting" \in Observed
          BY RowsOf, Settable
        <4> QED  BY <4>1, <4>2 DEF StateRow
      <3>3. k \in AttemptIds /\ k \in 0..MaxAttempts
        BY DEF Due, Pending, AttemptIds, SupervisorAssumption
      <3>4. [attempts EXCEPT ![a][k].outcome = "started"] \in [Accounts -> Tries]
        <4>1. attempts[a] \in Tries /\ attempts[a][k] \in AttemptRow
          BY <3>3, RowsOf DEF Tries
        <4>2. [attempts[a][k] EXCEPT !.outcome = "started"] \in AttemptRow
          BY <4>1 DEF AttemptRow
        <4>3. [attempts[a] EXCEPT ![k].outcome = "started"] \in Tries
          BY <3>3, <4>1, <4>2 DEF Tries
        <4>4. [attempts EXCEPT ![a][k].outcome = "started"]
                = [attempts EXCEPT ![a] = [attempts[a] EXCEPT ![k].outcome = "started"]]
          BY DEF TypeOK
        <4> QED  BY <4>3, <4>4, Put DEF TypeOK, Tries
      <3>5. [NewJob("recover", "launch", a) EXCEPT !.attempt = k] \in JobRow
        BY <3>3, NewJobType DEF Ops, Steps
      <3> HIDE DEF row
      <3> QED  BY <3>1, <3>2, <3>4, <3>5, PutState DEF TypeOK, States, Tries
    <2> QED  BY <2>1, <2>2, <2>3, <2>4
  <1> QED  BY <1>1, <1>2, VisitType DEF TypeOK, States, Tries, Views, budget

LEMMA LastVisitsType ==
    ASSUME TypeOK, NEW a \in Accounts, FingerprintVisit(a) \/ QuitVisit(a)
    PROVE  TypeOK'
  <1>1. job' \in JobRow \cup {NoJob}
    <2>1. CASE FingerprintVisit(a)
      BY <2>1, NewJobType DEF FingerprintVisit, Begin, Ops, Steps, TypeOK
    <2>2. CASE QuitVisit(a)
      <3>1. job' = [NewJob("quit", "stop1", a) EXCEPT !.keep = TRUE]
        BY <2>2 DEF QuitVisit
      <3> QED  BY <3>1, NewJobType DEF Ops, Steps
    <2> QED  BY <2>1, <2>2
  <1>2. Visit(a) /\ UNCHANGED <<db, proc, handle, unfinished, budget>>
    BY DEF FingerprintVisit, QuitVisit, NoFault
  <1> QED  BY <1>1, <1>2, VisitType DEF TypeOK, Views, budget, db

LEMMA QuitType ==
    ASSUME TypeOK, Quit
    PROVE  TypeOK'
  <1>1. phase' \in Phases /\ todo' \subseteq Accounts /\ view' \in Views
    BY EnterType DEF Quit, Phases
  <1>2. crashes' \in 0..MaxCrashes
    BY DEF Quit, TypeOK, SupervisorAssumption
  <1> QED  BY <1>1, <1>2 DEF TypeOK, Views, Quit, db

LEMMA DieType ==
    ASSUME TypeOK, Die, crashes' \in 0..MaxCrashes
    PROVE  TypeOK'
  <1>1. phase' \in Phases /\ todo' \subseteq Accounts /\ view' \in Views
    BY EnterType DEF Die, Phases
  <1>2. /\ handle' \in [Accounts -> HandleRow]
        /\ unfinished' \in [Accounts -> [RunIds -> Reasons \cup {"none"}]]
        /\ proc' \in [Accounts -> [RunIds -> Process]]
        /\ job' \in JobRow \cup {NoJob}
    BY BlankRows DEF Die
  <1> QED  BY <1>1, <1>2 DEF TypeOK, Views, Die, db

LEMMA EndsType ==
    ASSUME TypeOK, ShutdownEnds \/ Crash
    PROVE  TypeOK'
  <1>1. Die /\ crashes' \in 0..MaxCrashes
    BY DEF ShutdownEnds, Crash, TypeOK, SupervisorAssumption
  <1> QED  BY <1>1, DieType

LEMMA BootType ==
    ASSUME TypeOK, Boot
    PROVE  TypeOK'
  <1> DEFINE tries(a) == [k \in AttemptIds |->
                           IF k \in InterruptedAttempts(a)
                           THEN [attempts[a][k] EXCEPT !.outcome = "failed"] ELSE attempts[a][k]]
             blank(a) == [st[a] EXCEPT !.run = 0, !.retry = "none",
                           !.observed = IF desired[a] = "running" THEN "unknown" ELSE "stopped"]
             plan(a) == Scheduled(a, blank(a), tries(a), "due")
  <1>1. cmds' \in Seq(Queue!Command) /\ Len(cmds') <= MaxCommands
    <2>1. cmds' = Queue!Mark(cmds, Queue!Leased, "queued")
      BY DEF Boot
    <2> QED  BY <2>1, MarkType DEF TypeOK, Queue!Statuses
  <1>2. ASSUME NEW a \in Accounts
        PROVE  /\ tries(a) \in Tries /\ blank(a) \in StateRow
               /\ plan(a).tries \in Tries /\ plan(a).state \in StateRow
    <2>1. tries(a) \in Tries
      <3>1. attempts[a] \in Tries
        BY RowsOf
      <3>2. \A k \in AttemptIds : /\ attempts[a][k] \in AttemptRow
                                  /\ [attempts[a][k] EXCEPT !.outcome = "failed"] \in AttemptRow
        BY <3>1 DEF Tries, AttemptRow
      <3> QED  BY <3>2 DEF Tries
    <2>2. blank(a) \in StateRow
      BY RowsOf, StateFields, Settable
    <2> HIDE DEF tries, blank
    <2> QED  BY <2>1, <2>2, ScheduledType
  <1>3. runs' \in RunTable
    <2>1. runs' = [a \in Accounts |-> [r \in RunIds |->
                     IF r \in OpenRuns(a) THEN NoRun ELSE runs[a][r]]]
      BY DEF Boot
    <2>2. runs \in RunTable
      BY DEF TypeOK, RunTable
    <2> QED  BY <2>1, <2>2, BlankRows DEF RunTable
  <1>4. lastEnd' \in Ends
    BY DEF Boot, TypeOK, Ends, Reasons
  <1>5. attempts' \in [Accounts -> Tries]
    <2>1. attempts' = [a \in Accounts |-> IF desired[a] = "running" /\ incident[a]
                                         THEN plan(a).tries ELSE tries(a)]
      BY DEF Boot
    <2> HIDE DEF plan, tries
    <2> QED  BY <1>2, <2>1
  <1>6. st' \in States
    <2>1. st' = [a \in Accounts |-> IF desired[a] = "running" /\ incident[a]
                                   THEN plan(a).state ELSE blank(a)]
      BY DEF Boot
    <2> HIDE DEF plan, blank
    <2> QED  BY <1>2, <2>1 DEF States
  <1>7. phase' \in Phases /\ todo' \subseteq Accounts /\ view' \in Views
    BY EnterType DEF Boot, Phases
  <1>8. UNCHANGED <<desired, incident, config, proc, handle, unfinished, job, budget>>
    BY DEF Boot, NoFault
  <1> HIDE DEF plan, blank, tries
  <1> QED  BY <1>1, <1>3, <1>4, <1>5, <1>6, <1>7, <1>8
           DEF TypeOK, RunTable, Ends, Tries, States, Views, budget

LEMMA FlushType ==
    ASSUME TypeOK, Flush
    PROVE  TypeOK'
  <1>1. PICK S \in [Accounts -> SUBSET RunIds] :
          /\ \A a \in Accounts : S[a] \subseteq Unclosed(a)
          /\ NoFault \/ Fault
          /\ runs' = [a \in Accounts |-> [r \in RunIds |-> IF r \in S[a] THEN NoRun ELSE runs[a][r]]]
          /\ unfinished' = [a \in Accounts |->
                              [r \in RunIds |-> IF r \in S[a] THEN "none" ELSE unfinished[a][r]]]
          /\ lastEnd' = [a \in Accounts |->
                 LET ended == {r \in S[a] : runs[a][r].open}
                 IN  IF ended = {} THEN lastEnd[a] ELSE unfinished[a][CHOOSE r \in ended : TRUE]]
    BY DEF Flush
  <1>2. runs' \in RunTable
    BY <1>1, BlankRows DEF TypeOK, RunTable
  <1>3. unfinished' \in [Accounts -> [RunIds -> Reasons \cup {"none"}]]
    BY <1>1 DEF TypeOK
  <1>4. lastEnd' \in Ends
    <2>1. ASSUME NEW a \in Accounts
          PROVE  LET ended == {r \in S[a] : runs[a][r].open}
                 IN  (IF ended = {} THEN lastEnd[a] ELSE unfinished[a][CHOOSE r \in ended : TRUE])
                       \in Reasons \cup {"none"}
      <3> DEFINE ended == {r \in S[a] : runs[a][r].open}
                 r == CHOOSE x \in ended : TRUE
      <3>1. CASE ended = {}
        BY <3>1 DEF TypeOK
      <3>2. CASE ended # {}
        <4>1. r \in ended
          BY <3>2
        <4>2. r \in RunIds
          BY <4>1
        <4> QED  BY <3>2, <4>2 DEF TypeOK
      <3> QED  BY <3>1, <3>2
    <2> QED  BY <1>1, <2>1 DEF Ends
  <1>5. phase' \in Phases /\ todo' \subseteq Accounts /\ view' \in Views
    BY EnterType DEF Flush, Phases
  <1>6. UNCHANGED <<desired, cmds, st, incident, attempts, config, proc, handle, job>>
    BY DEF Flush
  <1> QED  BY <1>1, <1>2, <1>3, <1>4, <1>5, <1>6, FaultType DEF TypeOK, RunTable, Ends, Views

LEMMA TurnType ==
    ASSUME TypeOK, NEW from, NEW to \in Phases, Turn(from, to)
    PROVE  TypeOK'
  <1>1. phase' \in Phases /\ todo' \subseteq Accounts /\ view' \in Views
    BY EnterType DEF Turn
  <1> QED  BY <1>1 DEF TypeOK, Views, Turn, NoFault, budget, db

LEMMA LoopingType ==
    ASSUME TypeOK, Looping
    PROVE  TypeOK'
  <1>1. CASE Boot
    BY <1>1, BootType
  <1>2. CASE Flush
    BY <1>2, FlushType
  <1>3. CASE ShutdownEnds
    BY <1>3, EndsType
  <1>4. CASE Advance \/ HealthDue \/ FingerprintDue
    <2>1. PICK from, to \in Phases : Turn(from, to)
      BY <1>4 DEF Advance, HealthDue, HealthLater, FingerprintDue, Phases
    <2> QED  BY <2>1, TurnType
  <1> QED  BY <1>1, <1>2, <1>3, <1>4 DEF Looping

LEMMA ElapsingType ==
    ASSUME TypeOK, Elapsing
    PROVE  TypeOK'
  <1>1. ASSUME NEW a \in Accounts, Elapse(a)
        PROVE  TypeOK'
    <2>1. [st[a] EXCEPT !.retry = "due"] \in StateRow
      BY RowsOf, StateFields
    <2>2. st' = [st EXCEPT ![a] = [st[a] EXCEPT !.retry = "due"]]
      BY <1>1 DEF Elapse
    <2>3. st' \in States
      BY <2>1, <2>2, PutState
    <2> QED  BY <1>1, <2>3 DEF TypeOK, States, Elapse, mem, budget
  <1>2. ASSUME NEW a \in Accounts, NEW k \in AttemptIds, ElapseAttempt(a, k)
        PROVE  TypeOK'
    <2>1. attempts[a] \in Tries /\ attempts[a][k] \in AttemptRow
      BY RowsOf DEF Tries
    <2>2. [attempts[a][k] EXCEPT !.when = "due"] \in AttemptRow
      BY <2>1 DEF AttemptRow
    <2>3. [attempts[a] EXCEPT ![k].when = "due"] \in Tries
      BY <2>1, <2>2 DEF Tries
    <2>4. attempts' = [attempts EXCEPT ![a] = [attempts[a] EXCEPT ![k].when = "due"]]
      BY <1>2 DEF ElapseAttempt, TypeOK
    <2>5. attempts' \in [Accounts -> Tries]
      BY <2>3, <2>4, PutTries
    <2> QED  BY <1>2, <2>5 DEF TypeOK, Tries, ElapseAttempt, mem, budget
  <1> QED  BY <1>1, <1>2 DEF Elapsing

(* What a job may be doing.  A recovery finds no child, so it never stops one; *)
(* only a launch carries a run, from the moment its row is written.           *)
OpsAt(step) ==
    CASE step = "check"    -> {"start", "stop", "restart", "authenticate"}
      [] step = "settle"   -> {"start"}
      [] step = "launch"   -> {"start", "restart", "authenticate", "recover"}
      [] step = "fallback" -> {"restart"}
      [] step \in {"stop1", "stop2", "stop3"} -> Ops \ {"recover"}
      [] step \in {"spawn", "tidy", "failed"} -> Ops

Carries(op, step) ==
    \/ op \in {"restart", "authenticate"}
       /\ step \in {"stop1", "stop2", "stop3", "spawn", "tidy", "failed"}
    \/ op \in {"start", "recover"} /\ step \in {"spawn", "tidy", "failed"}

JobFits ==
    /\ job # NoJob => phase # "down" /\ job.op \in OpsAt(job.step)
    /\ job.run # 0 => Carries(job.op, job.step)

LEMMA StoppingType ==
    ASSUME TypeOK, JobFits, Stopping
    PROVE  TypeOK'
  <1>1. CASE StopDone
    <2>1. job.step = "stop3"
      BY <1>1 DEF StopDone
    <2>2. job # NoJob
      BY <2>1, BlankRows
    <2>3. job.op \in Ops \ {"recover"}
      BY <2>1, <2>2 DEF JobFits, OpsAt
    <2> QED  BY <1>1, <2>3, StopDoneType DEF Ops
  <1> QED  BY <1>1, StopFindsDeadType, StopBeginsType, TerminateType, TerminateFailsType,
              CloseFailsType DEF Stopping

LEMMA LaunchingType ==
    ASSUME TypeOK, Launching
    PROVE  TypeOK'
  BY LaunchFlushType, SettleTidyType, SettleType, LaunchType, SpawnType, SpawnTidyType,
     LaunchFailedType, ResetFailedType, RecoveryFailedType DEF Launching

LEMMA VisitingType ==
    ASSUME TypeOK, Visiting
    PROVE  TypeOK'
  <1>1. ASSUME NEW a \in Accounts, LoginRefused(a) \/ LoginCutShort(a) \/ LoginTimesOut(a)
        PROVE  TypeOK'
    BY <1>1, GiveUpLoginType DEF LoginRefused, LoginCutShort, LoginTimesOut
  <1> QED  BY <1>1, HealthLookType, HealthTidyType, HealthStopType, HealthExitType, ConfirmType,
              HealthEndsType, ReconcileType, RecoverFlushType, RecoverVisitType, LastVisitsType
           DEF Visiting

LEMMA NextType ==
    ASSUME TypeOK, JobFits, Next
    PROVE  TypeOK'
  <1>1. CASE Website
    BY <1>1, RequestType, ChangeConfigType DEF Website
  <1>2. CASE Worker
    BY <1>2, CommandsType, LaunchingType, StoppingType, VisitingType, LoopingType DEF Worker
  <1> QED  BY <1>1, <1>2, ChildrenType, ElapsingType, QuitType, EndsType DEF Next

(* The job after a step of its own, and the job that a visit begins. *)
LEMMA StepFits ==
    ASSUME TypeOK, JobFits, job.step # "idle", NEW name, job'.step = name,
           job'.op = job.op, job'.run = job.run, phase' # "down",
           job.op \in OpsAt(name),
           job.run # 0 => Carries(job.op, name)
    PROVE  JobFits'
  BY DEF JobFits, Carries, OpsAt, Ops

LEMMA BeginFits ==
    ASSUME job'.run = 0, phase' # "down", job'.op \in OpsAt(job'.step)
    PROVE  JobFits'
  BY DEF JobFits, Carries, OpsAt, Ops

LEMMA NoneFits ==
    ASSUME job' = NoJob
    PROVE  JobFits'
  BY DEF JobFits, NoJob, NewJob

LEMMA SameFits ==
    ASSUME JobFits, job' = job, phase' = phase
    PROVE  JobFits'
  BY DEF JobFits, Carries, OpsAt, Ops

LEMMA ReturnFits ==
    ASSUME TypeOK, NEW status, Return(status), phase' # "down"
    PROVE  JobFits'
  <1>1. CASE job' = NoJob
    BY <1>1, NoneFits
  <1>2. CASE job' = NewJob("restart", "fallback", job.a)
    <2>1. job'.run = 0 /\ job'.op = "restart" /\ job'.step = "fallback"
      BY <1>2 DEF NewJob
    <2> QED  BY <2>1, BeginFits DEF OpsAt
  <1> QED  BY <1>1, <1>2 DEF Return

LEMMA NewJobFields ==
    ASSUME NEW op, NEW step, NEW a, NEW v,
           \/ job' = NewJob(op, step, a)
           \/ job' = [NewJob(op, step, a) EXCEPT !.attempt = v]
           \/ job' = [NewJob(op, step, a) EXCEPT !.keep = v]
           \/ job' = [NewJob(op, step, a) EXCEPT !.cmd = v]
    PROVE  job'.op = op /\ job'.step = step /\ job'.a = a /\ job'.run = 0
  BY DEF NewJob

(* A job at a step: what Step leaves as it was. *)
LEMMA StepFields ==
    ASSUME TypeOK, job.step # "idle", NEW name, Step(name)
    PROVE  job'.step = name /\ job'.op = job.op /\ job'.run = job.run /\ job'.a = job.a
  <1>1. job \in JobRow
    BY AtStep
  <1> QED  BY <1>1 DEF Step, JobRow

LEMMA Working ==
    ASSUME TypeOK, JobFits, job.step # "idle"
    PROVE  /\ job # NoJob /\ phase # "down" /\ job.op \in Ops /\ job.op \in OpsAt(job.step)
           /\ job.run # 0 => Carries(job.op, job.step)
  BY AtStep, BlankRows DEF JobFits, JobRow

LEMMA CommandsFit ==
    ASSUME TypeOK, JobFits, Commands
    PROVE  JobFits'
  <1>1. CASE LeaseNext
    <2>1. PICK i \in Queue!Queued :
            job' = [NewJob(cmds[i].action, "check", cmds[i].acct) EXCEPT !.cmd = i]
      BY <1>1 DEF LeaseNext
    <2>2. cmds[i].action \in {"start", "stop", "restart", "authenticate"}
      <3>1. cmds \in Seq(Queue!Command) /\ i \in 1..Len(cmds)
        BY DEF TypeOK, Queue!Queued, Queue!Ids
      <3>2. cmds[i] \in Queue!Command
        BY <3>1
      <3> QED  BY <3>2 DEF Queue!Command, Queue!Actions
    <2>3. phase' # "down"
      BY <1>1 DEF LeaseNext, SamePhase
    <2>4. job'.op = cmds[i].action /\ job'.step = "check" /\ job'.run = 0
      BY <2>1, NewJobFields
    <2> QED  BY <2>2, <2>3, <2>4, BeginFits DEF OpsAt
  <1>2. CASE Refuse
    BY <1>2, Working, ReturnFits DEF Refuse, SamePhase
  <1>3. CASE Accept
    <2>1. job.run = 0 /\ job.op \in {"start", "stop", "restart", "authenticate"} /\ job.step # "idle"
      BY <1>3, Working DEF Accept, Carries, OpsAt
    <2> DEFINE name == CASE job.op = "start" -> "settle" [] job.op = "stop" -> "stop1" [] OTHER -> "launch"
    <2>2. Step(name) /\ job.op \in OpsAt(name)
      BY <1>3, <2>1 DEF Accept, OpsAt, Ops
    <2> HIDE DEF name
    <2> QED  BY <1>3, <2>1, <2>2, StepFields, StepFits, Working DEF Accept, SamePhase
  <1>4. CASE Fallback
    BY <1>4, NoneFits DEF Fallback
  <1> QED  BY <1>1, <1>2, <1>3, <1>4 DEF Commands

LEMMA StopRaisesFits ==
    ASSUME TypeOK, JobFits, job.step \in {"stop1", "stop2"}, StopRaises
    PROVE  JobFits'
  <1>1. job.op # "recover" /\ job.step # "idle" /\ phase # "down"
    BY Working DEF OpsAt
  <1>2. CASE job.op \in {"stop", "start"}
    BY <1>1, <1>2, ReturnFits DEF StopRaises, SamePhase
  <1>3. CASE job.op \in {"restart", "authenticate"}
    <2>1. Step("failed") /\ SamePhase
      BY <1>3 DEF StopRaises
    <2> QED  BY <1>1, <1>3, <2>1, StepFields, StepFits DEF SamePhase, Carries, OpsAt, Ops
  <1>4. CASE job.op \notin {"stop", "start", "restart", "authenticate"}
    BY <1>4, NoneFits DEF StopRaises
  <1> QED  BY <1>2, <1>3, <1>4

LEMMA StoppingFits ==
    ASSUME TypeOK, JobFits, Stopping
    PROVE  JobFits'
  <1>1. CASE StopFindsDead
    <2>1. CASE UNCHANGED <<job, phase>>
      BY <2>1, SameFits
    <2>2. CASE StopRaises
      BY <1>1, <2>2, StopRaisesFits DEF StopFindsDead
    <2> QED  BY <1>1, <2>1, <2>2 DEF StopFindsDead, SamePhase
  <1>2. CASE StopBegins \/ Terminate
    <2>1. /\ job.step \in {"stop1", "stop2"} /\ job.step # "idle" /\ SamePhase
          /\ Step("stop2") \/ Step("stop3")
      BY <1>2 DEF StopBegins, Terminate
    <2>2. \A name \in {"stop2", "stop3"} :
            /\ job.run # 0 => Carries(job.op, name)
            /\ job.op \in OpsAt(name)
      BY <2>1, Working DEF Carries, OpsAt
    <2>3. phase' # "down"
      BY <2>1, Working DEF SamePhase
    <2> QED  BY <2>1, <2>2, <2>3, StepFields, StepFits
  <1>3. CASE TerminateFails \/ CloseFails
    BY <1>3, StopRaisesFits DEF TerminateFails, CloseFails
  <1>4. CASE StopDone
    <2>1. job.step = "stop3" /\ job.step # "idle" /\ SamePhase
      BY <1>4 DEF StopDone
    <2>2. phase' # "down" /\ job.op # "recover" /\ job.op \in Ops
          /\ (job.run # 0 => job.op \in {"restart", "authenticate"})
      BY <2>1, Working DEF SamePhase, OpsAt, Carries
    <2>3. CASE job.op \in {"stop", "authfail"}
      BY <1>4, <2>2, <2>3, ReturnFits DEF StopDone
    <2>4. CASE job.op \in {"halt", "retry", "quit"}
      BY <1>4, <2>4, NoneFits DEF StopDone
    <2>5. CASE job.op \in {"restart", "authenticate"}
      BY <1>4, <2>1, <2>2, <2>5, StepFields, StepFits DEF StopDone, Carries, OpsAt, Ops
    <2>6. CASE job.op = "start"
      BY <1>4, <2>1, <2>2, <2>6, StepFields, StepFits DEF StopDone, OpsAt
    <2> QED  BY <2>2, <2>3, <2>4, <2>5, <2>6 DEF Ops
  <1> QED  BY <1>1, <1>2, <1>3, <1>4 DEF Stopping

LEMMA LaunchingFits ==
    ASSUME TypeOK, JobFits, Launching
    PROVE  JobFits'
  <1>1. /\ job.step # "idle" /\ SamePhase
        /\ job.step \in {"settle", "launch", "spawn", "tidy", "failed"}
    BY DEF Launching, LaunchFlush, SettleTidy, SettleStop, SettleFree, Adopt, SettleDead, Settled,
           Launch, LaunchRefused, SpawnCancelled, Spawn, SpawnFails, SpawnUnrecorded, SpawnTidy,
           LaunchFailed, ResetFailed, RecoveryFailed
  <1>2. phase' # "down" /\ phase' = phase
    BY <1>1, Working DEF SamePhase
  <1>3. CASE job' = NoJob
    BY <1>3, NoneFits
  <1>4. CASE \E status : Return(status)
    BY <1>2, <1>4, ReturnFits
  <1>5. CASE job' = job
    BY <1>2, <1>5, SameFits
  <1>6. CASE job.step = "settle" /\ (\/ Step("launch")
                                    \/ job' = [job EXCEPT !.step = "stop1", !.keep = TRUE])
    <2>1. job.run = 0 /\ job.op = "start"
      BY <1>6, Working DEF Carries, OpsAt
    <2>2. job'.run = job.run /\ job'.op = job.op /\ job'.step \in {"launch", "stop1"}
      BY <1>1, <1>6, AtStep DEF Step, JobRow
    <2> QED  BY <1>2, <2>1, <2>2, BeginFits DEF OpsAt, Ops
  <1>7. CASE Launch
    <2>1. /\ job'.op = job.op
          /\ job'.step = IF job.op \in {"start", "recover"} THEN "spawn" ELSE "stop1"
      BY <1>1, <1>7, AtStep DEF Launch, JobRow
    <2>2. job.op \in {"start", "restart", "authenticate", "recover"}
      BY <1>1, <1>7, Working DEF Launch, OpsAt
    <2>3. job'.op \in OpsAt(job'.step) /\ Carries(job'.op, job'.step)
      BY <2>1, <2>2 DEF Carries, OpsAt, Ops
    <2> QED  BY <1>2, <2>3 DEF JobFits
  <1>8. CASE LaunchRefused
    <2>1. job.run = 0 /\ job.op \in OpsAt("failed")
      BY <1>8, <1>1, Working DEF LaunchRefused, Carries, OpsAt
    <2>2. CASE Step("failed")
      BY <1>1, <1>2, <2>1, <2>2, StepFields, StepFits DEF OpsAt
    <2> QED  BY <1>8, <1>4, <2>2 DEF LaunchRefused
  <1>9. CASE job.step \in {"spawn", "tidy"} /\ (Step("failed") \/ Step("tidy"))
    <2>1. \A name \in {"failed", "tidy"} :
            (job.run # 0 => Carries(job.op, name)) /\ job.op \in OpsAt(name)
      BY <1>1, <1>9, Working DEF Carries, OpsAt
    <2> QED  BY <1>1, <1>2, <1>9, <2>1, StepFields, StepFits DEF OpsAt
  <1>10. CASE RecoveryFailed
    <2>1. job.op = "recover" /\ job.step = "failed" /\ (Step("tidy") \/ job' = NoJob)
      BY <1>10 DEF RecoveryFailed
    <2>2. (job.run # 0 => Carries(job.op, "tidy")) /\ job.op \in OpsAt("tidy")
      BY <1>1, <2>1, Working DEF Carries, OpsAt, Ops
    <2> QED  BY <1>1, <1>2, <1>3, <2>1, <2>2, StepFields, StepFits DEF OpsAt
  <1> QED
    BY <1>3, <1>4, <1>5, <1>6, <1>7, <1>8, <1>9, <1>10
    DEF Launching, LaunchFlush, SettleTidy, SettleStop, SettleFree, Adopt, SettleDead, Settled,
        SpawnCancelled, Spawn, SpawnFails, SpawnUnrecorded, SpawnTidy, LaunchFailed, ResetFailed

LEMMA VisitingFits ==
    ASSUME TypeOK, JobFits, Visiting
    PROVE  JobFits'
  <1>1. PICK a \in Accounts :
        \/ HealthLook(a) \/ HealthTidy(a) \/ LoginRefused(a) \/ LoginCutShort(a) \/ LoginTimesOut(a)
        \/ HealthRetry(a) \/ HealthHalt(a) \/ HealthExit(a)
        \/ Confirm(a) \/ ConfirmFails(a) \/ HealthQuiet(a)
        \/ ReconcileStopped(a) \/ ReconcileRunning(a)
        \/ RecoverSkip(a) \/ RecoverFlush(a) \/ RecoverPlain(a) \/ RecoverSchedule(a)
        \/ RecoverClaim(a)
        \/ FingerprintVisit(a)
        \/ QuitVisit(a)
    BY DEF Visiting
  <1>2. CASE HealthLook(a) \/ HealthTidy(a) \/ HealthExit(a) \/ Confirm(a) \/ HealthQuiet(a)
             \/ RecoverSkip(a) \/ RecoverFlush(a) \/ RecoverSchedule(a)
    <2>1. UNCHANGED <<job, phase>>
      BY <1>2 DEF HealthLook, HealthTidy, HealthExit, Confirm, HealthQuiet, RecoverSkip,
                  RecoverFlush, RecoverSchedule, RecoverPass, Examined, Visit
    <2> QED  BY <2>1, SameFits
  <1>3. CASE ConfirmFails(a)
    BY <1>3, NoneFits DEF ConfirmFails, Idle
  <1>4. CASE \/ LoginRefused(a) \/ LoginCutShort(a) \/ LoginTimesOut(a)
             \/ HealthRetry(a) \/ HealthHalt(a)
    <2>1. phase' # "down"
      BY <1>4 DEF LoginRefused, LoginCutShort, LoginTimesOut, HealthRetry, HealthHalt, Examined, Visit
    <2>2. CASE LoginRefused(a) \/ LoginCutShort(a) \/ LoginTimesOut(a)
      <3>1. job' = [NewJob("authfail", "stop1", a) EXCEPT !.cmd = handle[a].cmd]
        BY <2>2 DEF LoginRefused, LoginCutShort, LoginTimesOut, GiveUpLogin
      <3>2. job'.run = 0 /\ job'.op = "authfail" /\ job'.step = "stop1"
        BY <3>1, NewJobFields
      <3> QED  BY <2>1, <3>2, BeginFits DEF OpsAt, Ops
    <2>3. CASE HealthRetry(a)
      <3> DEFINE b == view[a] = "running"
      <3>1. job' = [NewJob("retry", "stop1", a) EXCEPT !.keep = b]
        BY <2>3 DEF HealthRetry
      <3> HIDE DEF b
      <3>2. job'.run = 0 /\ job'.op = "retry" /\ job'.step = "stop1"
        BY <3>1, NewJobFields
      <3> QED  BY <2>1, <3>2, BeginFits DEF OpsAt, Ops
    <2>4. CASE HealthHalt(a)
      <3>1. job' = NewJob("halt", "stop1", a)
        BY <2>4 DEF HealthHalt, Begin
      <3>2. job'.run = 0 /\ job'.op = "halt" /\ job'.step = "stop1"
        BY <3>1, NewJobFields
      <3> QED  BY <2>1, <3>2, BeginFits DEF OpsAt, Ops
    <2> QED  BY <1>4, <2>2, <2>3, <2>4
  <1>5. CASE \/ ReconcileStopped(a) \/ ReconcileRunning(a) \/ RecoverPlain(a) \/ RecoverClaim(a)
             \/ FingerprintVisit(a) \/ QuitVisit(a)
    <2>1. phase' = phase /\ phase # "down"
      BY <1>5 DEF ReconcileStopped, ReconcileRunning, RecoverPlain, RecoverClaim, RecoverPass,
                  FingerprintVisit, QuitVisit, Visit
    <2>2. CASE job' = job
      BY <2>1, <2>2, SameFits
    <2>3. CASE job' # job
      <3>1. \/ job' = NewJob("halt", "stop1", a) \/ job' = NewJob("start", "settle", a)
            \/ job' = NewJob("restart", "launch", a)
            \/ job' = [NewJob("quit", "stop1", a) EXCEPT !.keep = TRUE]
            \/ \E k : job' = [NewJob("recover", "launch", a) EXCEPT !.attempt = k]
        BY <1>5, <2>3 DEF ReconcileStopped, ReconcileRunning, RecoverPlain, RecoverClaim,
                          FingerprintVisit, QuitVisit, Begin
      <3>2. job'.run = 0 /\ job'.op \in OpsAt(job'.step)
        <4>1. CASE job' = NewJob("halt", "stop1", a)
          BY <4>1 DEF NewJob, OpsAt, Ops
        <4>2. CASE job' = NewJob("start", "settle", a)
          BY <4>2 DEF NewJob, OpsAt
        <4>3. CASE job' = NewJob("restart", "launch", a)
          BY <4>3 DEF NewJob, OpsAt
        <4>4. CASE job' = [NewJob("quit", "stop1", a) EXCEPT !.keep = TRUE]
          BY <4>4 DEF NewJob, OpsAt, Ops
        <4>5. ASSUME NEW k, job' = [NewJob("recover", "launch", a) EXCEPT !.attempt = k]
              PROVE  job'.run = 0 /\ job'.op \in OpsAt(job'.step)
          BY <4>5 DEF NewJob, OpsAt
        <4> QED  BY <3>1, <4>1, <4>2, <4>3, <4>4, <4>5
      <3> QED  BY <2>1, <3>2, BeginFits
    <2> QED  BY <2>2, <2>3
  <1> QED  BY <1>1, <1>2, <1>3, <1>4, <1>5

LEMMA LoopingFits ==
    ASSUME TypeOK, JobFits, Looping
    PROVE  JobFits'
  <1>1. CASE ShutdownEnds
    BY <1>1, NoneFits DEF ShutdownEnds, Die
  <1>2. CASE Boot
    <2>1. job' = job /\ phase' # "down" /\ phase = "down"
      BY <1>2 DEF Boot, Enter
    <2> QED  BY <2>1, NoneFits DEF JobFits
  <1>3. CASE Flush
    BY <1>3, NoneFits DEF Flush, Idle
  <1>4. CASE Advance \/ HealthDue \/ FingerprintDue
    BY <1>4, NoneFits DEF Advance, HealthDue, HealthLater, FingerprintDue, Turn, Idle
  <1> QED  BY <1>1, <1>2, <1>3, <1>4 DEF Looping

LEMMA NextFits ==
    ASSUME TypeOK, JobFits, [Next]_vars
    PROVE  JobFits'
  <1>1. CASE Website \/ Children \/ Reading \/ Elapsing \/ UNCHANGED vars
    <2>1. UNCHANGED <<job, phase>>
      BY <1>1 DEF Website, Request, ChangeConfig, Children, ChildSpeaks, ChildExits, Reading, Drain,
                  Elapsing, Elapse, ElapseAttempt, mem, vars
    <2> QED  BY <2>1, SameFits
  <1>2. CASE Quit \/ Crash
    BY <1>2, NoneFits DEF Quit, Crash, Die, Idle
  <1>3. CASE Worker
    BY <1>3, CommandsFit, LaunchingFits, StoppingFits, VisitingFits, LoopingFits DEF Worker
  <1> QED  BY <1>1, <1>2, <1>3 DEF Next

-----------------------------------------------------------------------------
LEMMA InitType == Init => TypeOK /\ JobFits
  <1> SUFFICES ASSUME Init PROVE TypeOK /\ JobFits
    OBVIOUS
  <1>1. JobFits
    BY DEF Init, JobFits, NoJob, NewJob
  <1>2. st \in States /\ runs \in RunTable /\ attempts \in [Accounts -> Tries] /\ lastEnd \in Ends
    BY BlankRows DEF Init, States, StateRow, Observed, RunTable, Tries, Ends, SupervisorAssumption
  <1>3. proc \in [Accounts -> [RunIds -> Process]] /\ handle \in [Accounts -> HandleRow]
    BY BlankRows DEF Init
  <1>4. cmds \in Seq(Queue!Command) /\ Len(cmds) <= MaxCommands
    BY DEF Init, SupervisorAssumption
  <1>5. exits \in 0..MaxExits /\ faults \in 0..MaxFaults /\ crashes \in 0..MaxCrashes
    BY DEF Init, SupervisorAssumption
  <1> QED  BY <1>1, <1>2, <1>3, <1>4, <1>5, BlankRows
           DEF Init, TypeOK, States, RunTable, Tries, Ends, Views, Phases

LEMMA StepTypes ==
    ASSUME TypeOK, JobFits, [Next]_vars
    PROVE  TypeOK' /\ JobFits'
  <1>1. CASE Next
    BY <1>1, NextType, NextFits
  <1>2. CASE UNCHANGED vars
    BY <1>2, NextFits DEF TypeOK, vars, db, mem, budget
  <1> QED  BY <1>1, <1>2

(* Every variable keeps its type, whatever the web process, the children, the   *)
(* worker and its failures do, in every order.                                  *)
THEOREM TypeCorrect == Spec => []TypeOK
  <1>1. Spec => [](TypeOK /\ JobFits)
    BY InitType, StepTypes, PTL DEF Spec
  <1> QED  BY <1>1, PTL

-----------------------------------------------------------------------------
(* Ownership *)
HIDE SupervisorAssumption

(* Steps at which a launch has nobody else's child to put up with. *)
EmptyHanded ==
    (\/ job.step \in {"stop3", "spawn"}
     \/ job.step = "launch" /\ job.op \in {"start", "recover"})
        => handle[job.a].run = 0

BeforeSpawn == {"stop1", "stop2", "stop3", "spawn"}

(* The run of a launch is open, and nobody else's, until its child is there. *)
LaunchIsFresh ==
    job.run # 0 =>
        /\ unfinished[job.a][job.run] = "none"
        /\ job.step \in BeforeSpawn =>
             /\ runs[job.a][job.run].open
             /\ job.run \notin {handle[job.a].run, st[job.a].run}

TidiesItsOwn == job.step = "tidy" => handle[job.a].run = job.run

HeldIsNotUnfinished ==
    \A a \in Accounts : handle[a].run # 0 => unfinished[a][handle[a].run] = "none"

DownOwnsNothing == phase = "down" => \A a \in Accounts : handle[a].run = 0

Held  == ChildIsOwned /\ LiveRunIsOpen /\ OpenRunIsHeld /\ HeldIsNotUnfinished /\ DownOwnsNothing
Hands == EmptyHanded /\ TidiesItsOwn
Typed == TypeOK /\ JobFits
Ownership == Held /\ Hands /\ LaunchIsFresh
Owning == Typed /\ Ownership

-----------------------------------------------------------------------------
(* What a step may do to handles, runs and children. *)
SameHands == \A a \in Accounts : handle'[a].run = handle[a].run
SameOpen  == \A a \in Accounts, r \in RunIds : runs'[a][r].open <=> runs[a][r].open
SameLives == \A a \in Accounts, r \in RunIds : proc'[a][r].os = "alive" <=> proc[a][r].os = "alive"
Unnamed   == \A a \in Accounts : st'[a].run \in {0, st[a].run}
SameLife  == phase' = "down" <=> phase = "down"

(* No child is born, and at most one dies. *)
Dies(a, q) ==
    \A b \in Accounts, r \in RunIds :
        proc'[b][r].os = "alive" <=> proc[b][r].os = "alive" /\ ~(b = a /\ r = q)

NoneBorn == SameLives \/ \E a \in Accounts, q \in RunIds : Dies(a, q)

(* Every handle stays.  Only a run that no handle holds is closed or put on the *)
(* list of unfinished runs, and that of the launch only when the launch is over; *)
(* no run is closed in the step in which a child dies.                           *)
Kept ==
    /\ SameHands /\ NoneBorn /\ Unnamed /\ SameLife
    /\ SameLives \/ SameOpen
    /\ \A a \in Accounts, r \in RunIds :
         \/ runs'[a][r].open = runs[a][r].open /\ unfinished'[a][r] = unfinished[a][r]
         \/ /\ ~runs'[a][r].open \/ unfinished'[a][r] # "none"
            /\ runs'[a][r].open => runs[a][r].open
            /\ handle[a].run # r
            /\ job'.run = 0 \/ ~(job.a = a /\ job.run = r)

(* The child of account a is gone, its run closed and its handle dropped. *)
Accounted(a) ==
    /\ \A b \in Accounts : handle'[b].run = IF b = a THEN 0 ELSE handle[b].run
    /\ \A b \in Accounts, r \in RunIds :
         runs'[b][r].open <=> runs[b][r].open /\ ~(b = a /\ r = handle[a].run)
    /\ Dies(a, handle[a].run)
    /\ Unnamed /\ SameLife /\ unfinished' = unfinished

Footprint == Kept \/ \E a \in Accounts : Accounted(a)

(* The launch goes on, or it is over and its run is somebody else's or closed. *)
SameLaunch == job'.run = job.run /\ job'.a = job.a

GoesOn == SameLaunch /\ (job'.step \in BeforeSpawn => job.step \in BeforeSpawn)

IsOver ==
    /\ job'.run = 0
    /\ job.run # 0 => \/ ~runs'[job.a][job.run].open
                      \/ /\ unfinished'[job.a][job.run] # "none"
                         /\ SameLives /\ SameOpen
                      \/ handle'[job.a].run = job.run

(* What all steps do but those that write a run, start a child, or end or begin *)
(* a worker.                                                                    *)
Orderly == Footprint /\ (GoesOn \/ IsOver)

LEMMA LaunchRow ==
    ASSUME Typed, job.run # 0
    PROVE  job.a \in Accounts /\ job.run \in RunIds /\ phase # "down"
  <1>1. job \in JobRow
    BY BlankRows DEF Typed, TypeOK
  <1> QED  BY <1>1, BlankRows DEF JobRow, RunIds, SupervisorAssumption, Typed, JobFits

LEMMA HandleRuns ==
    ASSUME Typed
    PROVE  \A a \in Accounts : handle[a].run # 0 => handle[a].run \in RunIds
  <1> TAKE a \in Accounts
  <1>1. handle[a].run \in 0..MaxRuns
    BY RowsOf DEF Typed
  <1> QED  BY <1>1 DEF RunIds, SupervisorAssumption

LEMMA StillAlive ==
    ASSUME NoneBorn
    PROVE  \A a \in Accounts, r \in RunIds : proc'[a][r].os = "alive" => proc[a][r].os = "alive"
  BY DEF NoneBorn, SameLives, Dies

LEMMA SameProc ==
    ASSUME UNCHANGED proc
    PROVE  NoneBorn /\ SameLives
  BY DEF NoneBorn, SameLives

LEMMA KeptHeld ==
    ASSUME Owning, Kept, GoesOn \/ IsOver
    PROVE  Held'
  <1> USE StillAlive DEF Kept, SameHands, SameLife, Owning, Ownership, Held
  <1>1. ChildIsOwned'
    BY DEF ChildIsOwned
  <1>2. LiveRunIsOpen'
    BY DEF LiveRunIsOpen, ChildIsOwned
  <1>3. OpenRunIsHeld'
    <2> SUFFICES ASSUME phase' # "down", NEW a \in Accounts, NEW r \in RunIds, runs'[a][r].open
                 PROVE  \/ handle'[a].run = r
                        \/ job'.a = a /\ job'.run = r
                        \/ unfinished'[a][r] # "none"
      BY DEF OpenRunIsHeld
    <2>1. CASE unfinished'[a][r] = unfinished[a][r] /\ runs[a][r].open
      <3>1. handle[a].run = r \/ (job.a = a /\ job.run = r) \/ unfinished[a][r] # "none"
        BY <2>1 DEF OpenRunIsHeld
      <3> QED  BY <2>1, <3>1 DEF GoesOn, IsOver, SameLaunch, RunIds
    <2> QED  BY <2>1
  <1>4. HeldIsNotUnfinished'
    BY HandleRuns DEF HeldIsNotUnfinished
  <1>5. DownOwnsNothing'
    BY DEF DownOwnsNothing
  <1> QED  BY <1>1, <1>2, <1>3, <1>4, <1>5

LEMMA AccountedHeld ==
    ASSUME Owning, NEW a \in Accounts, Accounted(a), GoesOn \/ IsOver
    PROVE  Held'
  <1> USE DEF Accounted, Dies, SameLife, Owning, Ownership, Held
  <1>1. ChildIsOwned'
    BY DEF ChildIsOwned
  <1>2. LiveRunIsOpen'
    BY DEF LiveRunIsOpen
  <1>3. OpenRunIsHeld'
    BY DEF OpenRunIsHeld, GoesOn, IsOver, SameLaunch, RunIds
  <1>4. HeldIsNotUnfinished'
    BY DEF HeldIsNotUnfinished
  <1>5. DownOwnsNothing'
    BY DEF DownOwnsNothing
  <1> QED  BY <1>1, <1>2, <1>3, <1>4, <1>5

LEMMA FootprintFresh ==
    ASSUME Owning, Footprint, GoesOn \/ IsOver
    PROVE  LaunchIsFresh'
  <1>1. CASE Kept
    BY <1>1, LaunchRow DEF Kept, SameHands, Unnamed, GoesOn, IsOver, SameLaunch, LaunchIsFresh,
                           Owning, Ownership
  <1>2. ASSUME NEW a \in Accounts, Accounted(a)
        PROVE  LaunchIsFresh'
    BY <1>2, LaunchRow DEF Accounted, Unnamed, GoesOn, IsOver, SameLaunch, LaunchIsFresh,
                           Owning, Ownership
  <1> QED  BY <1>1, <1>2 DEF Footprint

LEMMA Goes ==
    ASSUME Owning, Footprint, GoesOn \/ IsOver, Hands'
    PROVE  Ownership' /\ Orderly
  BY KeptHeld, AccountedHeld, FootprintFresh DEF Footprint, Orderly, Ownership

-----------------------------------------------------------------------------
(* Steps that need nothing to be in hand. *)
LEMMA FreeHands ==
    ASSUME job'.step \notin {"stop3", "spawn", "tidy"},
           job'.step = "launch" => job'.op \notin {"start", "recover"}
    PROVE  Hands'
  BY DEF Hands, EmptyHanded, TidiesItsOwn

LEMMA SameJob ==
    ASSUME Owning, Kept, job' = job
    PROVE  Ownership' /\ Orderly
  <1>1. Hands'
    BY AtStep DEF Kept, SameHands, Hands, EmptyHanded, TidiesItsOwn, Owning, Ownership, Typed
  <1> QED  BY <1>1, Goes DEF Footprint, GoesOn, SameLaunch

(* Nothing of all this changes. *)
LEMMA Untouched ==
    ASSUME Typed, NoneBorn, Unnamed, SameLife, SameHands, UNCHANGED <<runs, unfinished>>
    PROVE  Kept
  BY DEF Kept, SameOpen

(* How tables show their footprint. *)
LEMMA NameKept ==
    ASSUME Typed, NEW a \in Accounts, NEW s, s.run \in {0, st[a].run},
           st' = [st EXCEPT ![a] = s]
    PROVE  Unnamed
  BY DEF Unnamed, Typed, TypeOK

LEMMA HandleKept ==
    ASSUME Typed, NEW a \in Accounts, NEW h, h.run = handle[a].run,
           handle' = [handle EXCEPT ![a] = h]
    PROVE  SameHands
  BY DEF SameHands, Typed, TypeOK

LEMMA StateRuns ==
    ASSUME NEW s \in StateRow
    PROVE  /\ \A o : [s EXCEPT !.observed = o].run = s.run
           /\ \A w : [s EXCEPT !.retry = w].run = s.run
           /\ \A o, w : [s EXCEPT !.observed = o, !.retry = w].run = s.run
           /\ \A o, w : [s EXCEPT !.retry = w, !.observed = o].run = s.run
           /\ \A r : [s EXCEPT !.run = r].run = r
  <1>1. \A o : [s EXCEPT !.observed = o].run = s.run
    BY DEF StateRow
  <1>2. \A w : [s EXCEPT !.retry = w].run = s.run
    BY DEF StateRow
  <1>3. \A o, w : [s EXCEPT !.observed = o, !.retry = w].run = s.run
    BY DEF StateRow
  <1>4. \A o, w : [s EXCEPT !.retry = w, !.observed = o].run = s.run
    BY DEF StateRow
  <1>5. \A r : [s EXCEPT !.run = r].run = r
    BY DEF StateRow
  <1> QED  BY <1>1, <1>2, <1>3, <1>4, <1>5

LEMMA ScheduledRun ==
    ASSUME NEW a, NEW s \in StateRow, NEW tries, NEW delay
    PROVE  Scheduled(a, s, tries, delay).state.run = s.run
  <1> DEFINE waiting == {k \in Pending(tries) : tries[k].outcome = "scheduled"}
             k     == IF waiting # {} THEN CHOOSE j \in waiting : TRUE ELSE FreeAttempt(a, tries)
             when  == IF waiting # {} THEN tries[k].when ELSE delay
             shown == IF s.count < RapidAttempts THEN "restarting" ELSE "degraded"
  <1>1. Scheduled(a, s, tries, delay).state = [s EXCEPT !.retry = when, !.observed = shown]
    BY DEF Scheduled
  <1> HIDE DEF when, shown
  <1> QED  BY <1>1 DEF StateRow

LEMMA ChildEnds ==
    ASSUME Typed, NEW a \in Accounts, NEW r, NEW os, os # "alive",
           proc' = [proc EXCEPT ![a][r].os = os]
    PROVE  NoneBorn
  <1>1. ASSUME NEW b \in Accounts, NEW q \in RunIds
        PROVE  proc'[b][q].os = "alive" <=> proc[b][q].os = "alive" /\ ~(b = a /\ q = r)
    <2>1. proc[b] \in [RunIds -> Process] /\ proc[b][q] \in Process /\ proc[a] \in [RunIds -> Process]
      BY RowsOf DEF Typed
    <2>2. proc'[b] = IF b = a THEN [proc[a] EXCEPT ![r].os = os] ELSE proc[b]
      BY DEF Typed, TypeOK
    <2> QED  BY <2>1, <2>2 DEF Process
  <1>2. CASE r \in RunIds
    BY <1>1, <1>2 DEF NoneBorn, Dies
  <1>3. CASE r \notin RunIds
    BY <1>1, <1>3 DEF NoneBorn, SameLives
  <1> QED  BY <1>2, <1>3

LEMMA AccountedBy ==
    ASSUME Typed, NEW a \in Accounts, NEW reason, CloseRun(a, handle[a].run, reason), Forget(a),
           Unnamed, SameLife, unfinished' = unfinished
    PROVE  Accounted(a)
  <1>1. \A b \in Accounts : handle'[b].run = IF b = a THEN 0 ELSE handle[b].run
    BY DEF Forget, Typed, TypeOK, NoHandle, HandleOf
  <1>2. ASSUME NEW b \in Accounts, NEW r \in RunIds
        PROVE  runs'[b][r].open <=> runs[b][r].open /\ ~(b = a /\ r = handle[a].run)
    <2>1. runs[b] \in [RunIds -> RunRow] /\ runs[b][r] \in RunRow
      BY RowsOf DEF Typed
    <2>2. runs'[b] = IF b = a THEN [runs[a] EXCEPT ![handle[a].run] = NoRun] ELSE runs[b]
      BY DEF CloseRun, Typed, TypeOK
    <2>3. NoRun.open = FALSE
      BY DEF NoRun
    <2> QED  BY <2>1, <2>2, <2>3
  <1>3. ASSUME NEW b \in Accounts, NEW r \in RunIds
        PROVE  proc'[b][r].os = "alive" <=> proc[b][r].os = "alive" /\ ~(b = a /\ r = handle[a].run)
    <2>1. proc[b] \in [RunIds -> Process]
      BY RowsOf DEF Typed
    <2>2. proc'[b] = IF b = a THEN [proc[a] EXCEPT ![handle[a].run] = NoProc] ELSE proc[b]
      BY DEF Forget, Typed, TypeOK
    <2>3. NoProc.os # "alive"
      BY DEF NoProc
    <2> QED  BY <2>1, <2>2, <2>3
  <1> QED  BY <1>1, <1>2, <1>3 DEF Accounted, Dies

LEMMA ExitAccounted ==
    ASSUME Typed, NEW a \in Accounts, NEW schedule \in BOOLEAN, NEW even \in BOOLEAN,
           RecordExit(a, schedule, even), SameLife, unfinished' = unfinished
    PROVE  Accounted(a)
  <1> DEFINE state == [st[a] EXCEPT !.run = 0]
             tries == Failed(attempts[a], handle[a].attempt)
             plan  == Scheduled(a, state, tries, "later")
  <1>1. state \in StateRow /\ state.run = 0
    <2>1. st[a] \in StateRow
      BY RowsOf DEF Typed
    <2> QED  BY <2>1, StateFields, StateRuns, Settable
  <1> DEFINE stopped == [state EXCEPT !.observed = "stopped", !.retry = "none"]
             over    == [state EXCEPT !.observed = IF desired[a] = "stopped" THEN "stopped" ELSE "unknown",
                                      !.retry = "none"]
  <1>2. \/ st' = [st EXCEPT ![a] = stopped]
        \/ st' = [st EXCEPT ![a] = over]
        \/ st' = [st EXCEPT ![a] = plan.state]
    BY DEF RecordExit
  <1>3. plan.state.run = 0
    <2> HIDE DEF state, tries
    <2> QED  BY <1>1, ScheduledRun
  <1>4. stopped.run = 0 /\ over.run = 0
    BY <1>1 DEF StateRow
  <1> HIDE DEF state, plan, stopped, over
  <1>6. Unnamed
    BY <1>2, <1>3, <1>4, NameKept
  <1>5. CloseRun(a, handle[a].run, "unexpected_exit") /\ Forget(a)
    BY DEF RecordExit
  <1> QED  BY <1>5, <1>6, AccountedBy

LEMMA TidyAccounted ==
    ASSUME Typed, NEW a \in Accounts, TidyDone(a), SameLife, unfinished' = unfinished
    PROVE  Accounted(a)
  <1> DEFINE gone  == [st[a] EXCEPT !.run = 0]
             tries == Failed(attempts[a], handle[a].attempt)
             plan  == Scheduled(a, gone, tries, "later")
  <1>1. gone \in StateRow /\ gone.run = 0
    <2>1. st[a] \in StateRow
      BY RowsOf DEF Typed
    <2> QED  BY <2>1, StateFields, StateRuns, Settable
  <1> DEFINE worn    == [gone EXCEPT !.observed = "degraded", !.retry = "later"]
             stopped == [gone EXCEPT !.observed = "stopped", !.retry = "none"]
  <1>2. \/ st' = [st EXCEPT ![a] = worn]
        \/ st' = [st EXCEPT ![a] = stopped]
        \/ st' = [st EXCEPT ![a] = plan.state]
    BY DEF TidyDone
  <1>3. plan.state.run = 0
    <2> HIDE DEF gone, tries
    <2> QED  BY <1>1, ScheduledRun
  <1>4. stopped.run = 0 /\ worn.run = 0
    BY <1>1 DEF StateRow
  <1> HIDE DEF gone, plan, stopped, worn
  <1>6. Unnamed
    BY <1>2, <1>3, <1>4, NameKept
  <1>5. CloseRun(a, handle[a].run, "start_failed") /\ Forget(a)
    BY DEF TidyDone
  <1> QED  BY <1>5, <1>6, AccountedBy

LEMMA TidyKept ==
    ASSUME Typed, NEW a \in Accounts, TidyFails(a), SameLife, unfinished' = unfinished
    PROVE  Kept
  <1>1. NoneBorn
    <2>1. CASE UNCHANGED proc
      BY <2>1, SameProc
    <2>2. CASE proc' = [proc EXCEPT ![a][handle[a].run].os = "killed"]
      BY <2>2, ChildEnds
    <2> QED  BY <2>1, <2>2 DEF TidyFails
  <1>2. Unnamed
    <2> DEFINE s == [st[a] EXCEPT !.observed = "degraded"]
    <2>1. st' = [st EXCEPT ![a] = s]
      BY DEF TidyFails, Typed, TypeOK
    <2>2. s.run = st[a].run
      BY RowsOf, StateRuns DEF Typed
    <2>3. st \in [Accounts -> StateRow]
      BY DEF Typed, TypeOK
    <2> HIDE DEF s
    <2> QED  BY <2>1, <2>2, <2>3 DEF Unnamed
  <1> QED  BY <1>1, <1>2, Untouched DEF TidyFails, SameHands

LEMMA ShowKept ==
    ASSUME Typed, NEW a \in Accounts, NEW o, st' = [st EXCEPT ![a].observed = o]
    PROVE  Unnamed
  <1> DEFINE s == [st[a] EXCEPT !.observed = o]
  <1>1. st' = [st EXCEPT ![a] = s]
    BY DEF Typed, TypeOK
  <1>2. s.run = st[a].run
    BY RowsOf, StateRuns DEF Typed
  <1>3. st \in [Accounts -> StateRow]
    BY DEF Typed, TypeOK
  <1> HIDE DEF s
  <1> QED  BY <1>1, <1>2, <1>3 DEF Unnamed

-----------------------------------------------------------------------------
(* The web process, the children and time *)

LEMMA OutsideOwns ==
    ASSUME Owning, Website \/ Children \/ Reading \/ Elapsing \/ UNCHANGED vars
    PROVE  Ownership' /\ Orderly
  <1>1. job' = job /\ SameLife /\ SameHands /\ UNCHANGED <<runs, unfinished>>
    BY DEF Website, Request, ChangeConfig, Children, ChildSpeaks, ChildExits, Reading, Drain,
           Elapsing, Elapse, ElapseAttempt, mem, vars, SameLife, SameHands, db
  <1>2. Unnamed
    <2>1. CASE UNCHANGED st
      BY <2>1 DEF Unnamed
    <2>2. ASSUME NEW a \in Accounts, Elapse(a)
          PROVE  Unnamed
      <3> DEFINE s == [st[a] EXCEPT !.retry = "due"]
      <3>1. st' = [st EXCEPT ![a] = s]
        BY <2>2 DEF Elapse
      <3>2. s.run = st[a].run
        BY RowsOf, StateRuns DEF Owning, Typed
      <3>3. st \in [Accounts -> StateRow]
        BY DEF Owning, Typed, TypeOK
      <3> HIDE DEF s
      <3> QED  BY <3>1, <3>2, <3>3 DEF Unnamed
    <2> QED  BY <2>1, <2>2 DEF Website, Request, ChangeConfig, Children, ChildSpeaks, ChildExits,
                               Reading, Drain, Elapsing, ElapseAttempt, vars, db
  <1>3. NoneBorn
    <2>1. CASE UNCHANGED proc
      BY <2>1, SameProc
    <2>2. ASSUME NEW a \in Accounts, NEW r \in RunIds, ChildExits(a, r)
          PROVE  NoneBorn
      BY <2>2, ChildEnds DEF ChildExits, Owning
    <2>3. ASSUME NEW a \in Accounts, NEW r \in RunIds, NEW word,
                 \/ proc' = [proc EXCEPT ![a][r].said = word]
                 \/ proc' = [proc EXCEPT ![a][r].heard = word]
          PROVE  NoneBorn
      <3> SUFFICES ASSUME NEW b \in Accounts, NEW q \in RunIds
                   PROVE  proc'[b][q].os = proc[b][q].os
        BY DEF NoneBorn, SameLives
      <3>1. proc[b] \in [RunIds -> Process] /\ proc[b][q] \in Process
        BY RowsOf DEF Owning, Typed
      <3>2. proc \in [Accounts -> [RunIds -> Process]]
        BY DEF Owning, Typed, TypeOK
      <3>3. \/ proc'[b][q] = proc[b][q]
            \/ proc'[b][q] = [proc[b][q] EXCEPT !.said = word]
            \/ proc'[b][q] = [proc[b][q] EXCEPT !.heard = word]
        BY <2>3, <3>1, <3>2
      <3> QED  BY <3>1, <3>3 DEF Process
    <2> QED  BY <2>1, <2>2, <2>3 DEF Website, Request, ChangeConfig, Children, ChildSpeaks,
                                     Reading, Drain, Elapsing, Elapse, ElapseAttempt, vars
  <1> QED  BY <1>1, <1>2, <1>3, Untouched, SameJob DEF Owning

-----------------------------------------------------------------------------
(* Steps that leave handles, runs, children and names alone *)

LEMMA Still ==
    ASSUME Typed, UNCHANGED <<st, runs, proc, handle, unfinished>>, SameLife
    PROVE  Kept
  BY Untouched, SameProc DEF SameHands, Unnamed

LEMMA ReturnRun ==
    ASSUME NEW status, Return(status)
    PROVE  job'.run = 0 /\ job'.step \in {"idle", "fallback"}
  BY DEF Return, NoJob, NewJob

LEMMA IdleJob ==
    NoJob.run = 0 /\ NoJob.step = "idle"
  BY DEF NoJob, NewJob

LEMMA CommandsOwn ==
    ASSUME Owning, Commands
    PROVE  Ownership' /\ Orderly
  <1>1. Kept
    BY Still DEF Commands, LeaseNext, Refuse, Accept, Fallback, SamePhase, SameLife, Owning, db
  <1>2. job.run = 0
    BY Working, IdleJob DEF Owning, Typed, Commands, LeaseNext, Refuse, Accept, Fallback, Idle,
                            Carries
  <1>3. job'.run = 0 /\ job'.step \in {"idle", "check", "settle", "stop1", "launch", "fallback"}
        /\ (job'.step = "launch" => job'.op \notin {"start", "recover"})
    <2>1. CASE LeaseNext
      <3>1. PICK i \in Queue!Queued :
              job' = [NewJob(cmds[i].action, "check", cmds[i].acct) EXCEPT !.cmd = i]
        BY <2>1 DEF LeaseNext
      <3> QED  BY <3>1 DEF NewJob
    <2>2. CASE Refuse \/ Fallback
      BY <2>2, ReturnRun, IdleJob DEF Refuse, Fallback
    <2>3. CASE Accept
      <3> DEFINE name == CASE job.op = "start" -> "settle" [] job.op = "stop" -> "stop1" [] OTHER -> "launch"
      <3>1. job.step = "check" /\ job.op \in {"start", "stop", "restart", "authenticate"} /\ Step(name)
        BY <2>3, Working DEF Accept, OpsAt, Owning, Typed
      <3>2. name \in {"settle", "stop1", "launch"} /\ (name = "launch" => job.op \notin {"start", "recover"})
        BY <3>1
      <3> HIDE DEF name
      <3> QED  BY <1>2, <3>1, <3>2, StepFields DEF Owning, Typed
    <2> QED  BY <2>1, <2>2, <2>3 DEF Commands
  <1> QED  BY <1>1, <1>2, <1>3, FreeHands, Goes DEF Footprint, IsOver

-----------------------------------------------------------------------------
(* Launching *)

LEMMA UnfinishedIsFree ==
    ASSUME Owning, NEW a \in Accounts, NEW r \in RunIds, unfinished[a][r] # "none"
    PROVE  handle[a].run # r /\ ~(job.a = a /\ job.run = r)
  BY DEF Owning, Ownership, Held, HeldIsNotUnfinished, LaunchIsFresh, RunIds

LEMMA UnfinishedKept ==
    ASSUME Owning, NEW a \in Accounts, NEW S \in SUBSET Unclosed(a), CloseUnfinished(a, S),
           UNCHANGED <<st, proc, handle>>, SameLife
    PROVE  Kept
  <1>1. ASSUME NEW b \in Accounts, NEW r \in RunIds
        PROVE  \/ runs'[b][r].open = runs[b][r].open /\ unfinished'[b][r] = unfinished[b][r]
               \/ /\ ~runs'[b][r].open /\ handle[b].run # r /\ ~(job.a = b /\ job.run = r)
    <2>1. CASE b = a /\ r \in S
      <3>1. ~runs'[b][r].open
        BY <2>1 DEF CloseUnfinished, Owning, Typed, TypeOK, NoRun
      <3>2. unfinished[b][r] # "none"
        BY <2>1 DEF Unclosed
      <3> QED  BY <3>1, <3>2, UnfinishedIsFree
    <2>2. CASE ~(b = a /\ r \in S)
      BY <2>2 DEF CloseUnfinished, Owning, Typed, TypeOK
    <2> QED  BY <2>1, <2>2
  <1> QED  BY <1>1, SameProc DEF Kept, SameHands, Unnamed

(* Steps of a job without a run that come to no spawning. *)
LEMMA EmptyGoes ==
    ASSUME Owning, Footprint, job.run = 0, job'.run = 0,
           job'.step \notin {"stop3", "spawn", "tidy"},
           job'.step = "launch" => job'.op \notin {"start", "recover"}
    PROVE  Ownership' /\ Orderly
  BY FreeHands, Goes DEF IsOver

LEMMA LaunchFlushOwns ==
    ASSUME Owning, LaunchFlush
    PROVE  Ownership' /\ Orderly
  <1>1. /\ job.step = "settle" \/ (job.step = "launch" /\ job.op = "restart")
        /\ job.step # "idle" /\ A \in Accounts /\ A = job.a
    BY AtStep DEF LaunchFlush, Owning, Typed
  <1>2. job.run = 0
    BY <1>1, Working DEF Owning, Typed, Carries
  <1>3. Kept
    BY <1>1, UnfinishedKept DEF LaunchFlush, SamePhase, SameLife
  <1>4. CASE job' = job
    BY <1>3, <1>4, SameJob
  <1>5. CASE Return("failed")
    BY <1>2, <1>3, <1>5, ReturnRun, EmptyGoes DEF Footprint
  <1> QED  BY <1>4, <1>5 DEF LaunchFlush

LEMMA StopFields ==
    ASSUME Typed, job.step # "idle", job' = [job EXCEPT !.step = "stop1", !.keep = TRUE]
    PROVE  job'.step = "stop1" /\ job'.op = job.op /\ job'.run = job.run /\ job'.a = job.a
  <1>1. job \in JobRow
    BY AtStep DEF Typed
  <1> QED  BY <1>1 DEF JobRow

LEMMA AtSettle ==
    ASSUME Owning, job.step = "settle"
    PROVE  job.run = 0 /\ A \in Accounts /\ A = job.a /\ job.step # "idle" /\ Typed
  BY AtStep, Working DEF Owning, Typed, Carries

LEMMA SettleTidyOwns ==
    ASSUME Owning, SettleTidy
    PROVE  Ownership' /\ Orderly
  <1>1. /\ job.run = 0 /\ A \in Accounts /\ job.step # "idle" /\ Typed /\ job.step = "settle"
        /\ SameLife /\ unfinished' = unfinished
    BY AtSettle DEF SettleTidy, SamePhase, SameLife
  <1>2. CASE TidyDone(A) /\ UNCHANGED job
    <2>1. Footprint
      BY <1>1, <1>2, TidyAccounted DEF Footprint
    <2> QED  BY <1>1, <1>2, <2>1, EmptyGoes
  <1>3. CASE TidyFails(A)
    <2>1. Footprint
      BY <1>1, <1>3, TidyKept DEF Footprint
    <2>2. CASE Return("failed")
      BY <1>1, <2>1, <2>2, ReturnRun, EmptyGoes
    <2>3. CASE job' = [job EXCEPT !.step = "stop1", !.keep = TRUE]
      BY <1>1, <2>1, <2>3, StopFields, EmptyGoes
    <2> QED  BY <1>2, <1>3, <2>2, <2>3 DEF SettleTidy
  <1> QED  BY <1>2, <1>3 DEF SettleTidy

(* A start that has settled what was there may launch once the account is free. *)
LEMMA SettleLaunches ==
    ASSUME Owning, job.step = "settle", Step("launch"), Footprint, handle'[A].run = 0
    PROVE  Ownership' /\ Orderly
  <1>1. /\ job'.step = "launch" /\ job'.run = 0 /\ job.run = 0 /\ job'.a = A
    BY AtSettle, StepFields DEF Typed
  <1>2. Hands'
    BY <1>1 DEF Hands, EmptyHanded, TidiesItsOwn
  <1> QED  BY <1>1, <1>2, Goes DEF IsOver

LEMMA SettleOwns ==
    ASSUME Owning, SettleStop \/ SettleFree \/ Adopt \/ SettleDead
    PROVE  Ownership' /\ Orderly
  <1>1. /\ job.run = 0 /\ A \in Accounts /\ job.step # "idle" /\ Typed /\ job.step = "settle"
        /\ SameLife /\ unfinished' = unfinished
    BY AtSettle DEF SettleStop, SettleFree, Adopt, SettleDead, Settled, SamePhase, SameLife
  <1>2. CASE SettleStop
    <2>1. Footprint
      BY <1>1, <1>2, Still DEF SettleStop, Footprint
    <2>2. job' = [job EXCEPT !.step = "stop1", !.keep = TRUE]
      BY <1>2 DEF SettleStop
    <2> QED  BY <1>1, <2>1, <2>2, StopFields, EmptyGoes
  <1>3. CASE SettleFree
    <2>1. Footprint /\ handle'[A].run = 0 /\ Step("launch")
      BY <1>1, <1>3, Still DEF SettleFree, Footprint, Owned
    <2> QED  BY <1>1, <2>1, SettleLaunches
  <1>4. CASE Adopt
    <2>1. SameHands
      <3>1. CASE handle' = handle
        BY <3>1 DEF SameHands
      <3>2. CASE handle' = [handle EXCEPT ![A].cmd = job.cmd]
        <4> DEFINE h == [handle[A] EXCEPT !.cmd = job.cmd]
        <4>1. handle' = [handle EXCEPT ![A] = h]
          BY <3>2 DEF Typed, TypeOK
        <4>2. h.run = handle[A].run
          BY <1>1, RowsOf DEF Typed, HandleRow
        <4> HIDE DEF h
        <4> QED  BY <1>1, <4>1, <4>2, HandleKept
      <3> QED  BY <1>4, <3>1, <3>2 DEF Adopt
    <2>2. Kept
      BY <1>1, <1>4, <2>1, Untouched, SameProc DEF Adopt, Unnamed
    <2>3. job'.run = 0 /\ job'.step \in {"idle", "fallback"}
      BY <1>4, ReturnRun, IdleJob DEF Adopt
    <2> QED  BY <1>1, <2>2, <2>3, EmptyGoes DEF Footprint
  <1>5. CASE SettleDead
    <2>1. CASE RecordExit(A, FALSE, FALSE) /\ Step("launch")
      <3>1. Accounted(A)
        BY <1>1, <2>1, ExitAccounted
      <3>2. Footprint /\ handle'[A].run = 0
        BY <1>1, <3>1 DEF Footprint, Accounted
      <3> QED  BY <1>1, <2>1, <3>2, SettleLaunches
    <2>2. CASE Return("failed") /\ UNCHANGED <<st, runs, proc, handle>>
      BY <1>1, <2>2, ReturnRun, Still, EmptyGoes DEF Footprint
    <2> QED  BY <1>5, <2>1, <2>2 DEF SettleDead
  <1> QED  BY <1>2, <1>3, <1>4, <1>5

LEMMA LaunchOwns ==
    ASSUME Owning, Launch
    PROVE  Ownership'
  <1> DEFINE r == CHOOSE x \in FreeRuns(A) : TRUE
             named == [open |-> TRUE, confirmed |-> FALSE, config |-> config[A]]
  <1>1. /\ job.step = "launch" /\ job.step # "idle" /\ job \in JobRow /\ A \in Accounts /\ A = job.a
        /\ SamePhase /\ phase # "down" /\ Typed
    BY AtStep, Working DEF Launch, Owning, Typed
  <1>2. job.run = 0 /\ job.op \in {"start", "restart", "authenticate", "recover"}
    BY <1>1, Working DEF Typed, Carries, OpsAt
  <1>3. r \in FreeRuns(A)
    BY DEF Launch
  <1> HIDE DEF r
  <1>4. /\ r \in RunIds /\ r # 0 /\ ~runs[A][r].open /\ unfinished[A][r] = "none"
        /\ r \notin {handle[A].run, st[A].run}
    BY <1>3 DEF FreeRuns, RunIds
  <1>5. /\ runs' = [runs EXCEPT ![A][r] = named]
        /\ job' = [job EXCEPT !.run = r,
                              !.step = IF job.op \in {"start", "recover"} THEN "spawn" ELSE "stop1",
                              !.keep = TRUE]
        /\ UNCHANGED <<proc, handle, unfinished>>
    BY DEF Launch, r
  <1>6. job'.run = r /\ job'.a = A /\ job'.step = IF job.op \in {"start", "recover"} THEN "spawn" ELSE "stop1"
    BY <1>1, <1>5 DEF JobRow
  <1>7. \A b \in Accounts, q \in RunIds :
          runs'[b][q].open <=> (runs[b][q].open \/ (b = A /\ q = r))
    <2> SUFFICES ASSUME NEW b \in Accounts, NEW q \in RunIds
                 PROVE  runs'[b][q].open <=> (runs[b][q].open \/ (b = A /\ q = r))
      OBVIOUS
    <2>1. runs[b] \in [RunIds -> RunRow] /\ runs[b][q] \in RunRow
      BY <1>1, RowsOf DEF Typed
    <2>2. runs'[b] = IF b = A THEN [runs[A] EXCEPT ![r] = named] ELSE runs[b]
      BY <1>1, <1>5 DEF Typed, TypeOK
    <2> QED  BY <2>1, <2>2
  <1>8. Unnamed
    <2>1. CASE UNCHANGED st
      BY <2>1 DEF Unnamed
    <2>2. CASE st' # st
      <3> DEFINE n == IF job.cmd # 0 THEN 0 ELSE st[A].count
                 o == IF job.op = "restart" THEN "restarting" ELSE st[A].observed
                 s == [st[A] EXCEPT !.retry = "none", !.count = n, !.observed = o]
      <3>1. st' = [st EXCEPT ![A] = s]
        BY <2>2 DEF Launch
      <3>2. s.run = st[A].run
        <4>1. st[A] \in StateRow
          BY <1>1, RowsOf DEF Typed
        <4> HIDE DEF n, o
        <4> QED  BY <4>1 DEF StateRow
      <3>3. st \in [Accounts -> StateRow]
        BY <1>1 DEF Typed, TypeOK
      <3> HIDE DEF s
      <3> QED  BY <3>1, <3>2, <3>3 DEF Unnamed
    <2> QED  BY <2>1, <2>2
  <1>9. ChildIsOwned' /\ HeldIsNotUnfinished' /\ DownOwnsNothing'
    BY <1>1, <1>5 DEF ChildIsOwned, HeldIsNotUnfinished, DownOwnsNothing, SamePhase, Owning, Ownership, Held
  <1>10. LiveRunIsOpen'
    BY <1>5, <1>7 DEF LiveRunIsOpen, Owning, Ownership, Held
  <1>11. OpenRunIsHeld'
    BY <1>1, <1>2, <1>5, <1>6, <1>7 DEF OpenRunIsHeld, SamePhase, Owning, Ownership, Held, RunIds
  <1>12. LaunchIsFresh'
    BY <1>1, <1>4, <1>5, <1>6, <1>7, <1>8 DEF LaunchIsFresh, Unnamed
  <1>13. Hands'
    BY <1>1, <1>5, <1>6 DEF Hands, EmptyHanded, TidiesItsOwn, Owning, Ownership
  <1> QED  BY <1>9, <1>10, <1>11, <1>12, <1>13 DEF Ownership, Held

LEMMA LaunchRefusedOwns ==
    ASSUME Owning, LaunchRefused
    PROVE  Ownership' /\ Orderly
  <1>1. job.step = "launch" /\ job.step # "idle" /\ job.run = 0 /\ Typed
    BY Working DEF LaunchRefused, Owning, Typed, Carries
  <1>2. Footprint
    BY <1>1, Still DEF LaunchRefused, SamePhase, SameLife, Footprint
  <1>3. CASE Return("failed")
    BY <1>1, <1>2, <1>3, ReturnRun, EmptyGoes
  <1>4. CASE Step("failed")
    BY <1>1, <1>2, <1>4, StepFields, EmptyGoes DEF Typed
  <1> QED  BY <1>3, <1>4 DEF LaunchRefused

-----------------------------------------------------------------------------
(* Stopping *)

LEMMA AtStop ==
    ASSUME Owning, job.step \in {"stop1", "stop2", "stop3", "spawn", "tidy", "failed"}
    PROVE  /\ A \in Accounts /\ A = job.a /\ job.step # "idle" /\ Typed /\ phase # "down"
           /\ job.step \in {"stop1", "stop2", "stop3"} /\ job.run # 0 =>
                 job.op \in {"restart", "authenticate"}
  BY AtStep, Working DEF Owning, Typed, Carries

(* An operation that raises at one of the steps before the spawn keeps its run. *)
LEMMA RaiseGoes ==
    ASSUME Owning, job.step \in {"stop1", "stop2"}, StopRaises, Footprint
    PROVE  Ownership' /\ Orderly
  <1>1. /\ job.step # "idle" /\ Typed
        /\ job.run # 0 => job.op \in {"restart", "authenticate"}
    BY AtStop
  <1>2. CASE Step("failed")
    <2>1. job'.step = "failed" /\ GoesOn
      BY <1>1, <1>2, StepFields DEF Typed, GoesOn, SameLaunch, BeforeSpawn
    <2> QED  BY <2>1, FreeHands, Goes
  <1>3. CASE Return("failed") /\ job.op \in {"stop", "start"}
    BY <1>1, <1>3, ReturnRun, EmptyGoes
  <1>4. CASE job' = NoJob /\ job.op \notin {"restart", "authenticate"}
    BY <1>1, <1>4, IdleJob, EmptyGoes
  <1> QED  BY <1>2, <1>3, <1>4 DEF StopRaises

LEMMA RaiseLives ==
    ASSUME Owning, job.step \in {"stop1", "stop2"}, StopRaises
    PROVE  SameLife
  BY AtStop DEF StopRaises, SamePhase, Enter, SameLife

LEMMA StopFindsDeadOwns ==
    ASSUME Owning, StopFindsDead
    PROVE  Ownership' /\ Orderly
  <1>1. job.step = "stop1" /\ A \in Accounts /\ A = job.a /\ Typed /\ unfinished' = unfinished
    BY AtStop DEF StopFindsDead
  <1>2. CASE RecordExit(A, FALSE, TRUE) /\ SamePhase /\ UNCHANGED job
    <2>1. Footprint
      BY <1>1, <1>2, ExitAccounted DEF SamePhase, SameLife, Footprint
    <2>2. GoesOn /\ job'.step = "stop1"
      BY <1>1, <1>2 DEF GoesOn, SameLaunch
    <2> QED  BY <2>1, <2>2, FreeHands, Goes
  <1>3. CASE StopRaises /\ UNCHANGED <<st, runs, proc, handle>>
    <2>1. Footprint
      BY <1>1, <1>3, RaiseLives, Still DEF Footprint
    <2> QED  BY <1>1, <1>3, <2>1, RaiseGoes
  <1> QED  BY <1>2, <1>3 DEF StopFindsDead

LEMMA StopBeginsOwns ==
    ASSUME Owning, StopBegins
    PROVE  Ownership' /\ Orderly
  <1>1. job.step = "stop1" /\ A \in Accounts /\ job.step # "idle" /\ Typed
    BY AtStop DEF StopBegins
  <1>2. Unnamed
    <2> DEFINE s == [st[A] EXCEPT !.observed = "stopping", !.retry = "none"]
    <2>1. st' = [st EXCEPT ![A] = s] /\ st \in [Accounts -> StateRow]
      BY <1>1 DEF StopBegins, Typed, TypeOK
    <2>2. s.run = st[A].run
      BY <1>1, RowsOf, StateRuns DEF Typed
    <2> HIDE DEF s
    <2> QED  BY <2>1, <2>2 DEF Unnamed
  <1>3. Kept
    BY <1>1, <1>2, Untouched, SameProc DEF StopBegins, SamePhase, SameLife, SameHands
  <1>4. GoesOn /\ job'.step = "stop2"
    BY <1>1, StepFields DEF StopBegins, Typed, GoesOn, SameLaunch, BeforeSpawn
  <1> QED  BY <1>3, <1>4, FreeHands, Goes DEF Footprint

LEMMA TerminateOwns ==
    ASSUME Owning, Terminate
    PROVE  Ownership' /\ Orderly
  <1>1. /\ job.step = "stop2" /\ A \in Accounts /\ A = job.a /\ job.step # "idle" /\ Typed /\ SameLife
        /\ UNCHANGED <<st, unfinished>> /\ Unnamed
    BY AtStop DEF Terminate, SamePhase, SameLife, Unnamed
  <1>2. GoesOn /\ job'.step = "stop3" /\ job'.a = A
    BY <1>1, StepFields DEF Terminate, Typed, GoesOn, SameLaunch, BeforeSpawn
  <1>3. CASE Owned(A)
    <2>1. Accounted(A)
      BY <1>1, <1>3, AccountedBy DEF Terminate
    <2>2. Hands'
      BY <1>1, <1>2, <2>1 DEF Hands, EmptyHanded, TidiesItsOwn, Accounted
    <2> QED  BY <1>1, <1>2, <2>1, <2>2, Goes DEF Footprint
  <1>4. CASE ~Owned(A)
    <2>1. handle' = handle /\ proc' = proc /\ handle[A].run = 0
      BY <1>4 DEF Terminate, Owned
    <2>2. Hands'
      BY <1>1, <1>2, <2>1 DEF Hands, EmptyHanded, TidiesItsOwn
    <2>3. ASSUME NEW b \in Accounts, NEW r \in RunIds
          PROVE  \/ runs'[b][r].open = runs[b][r].open
                 \/ ~runs'[b][r].open /\ b = A /\ r = st[A].run
      <3>1. CASE UNCHANGED runs
        BY <3>1
      <3>2. CASE runs' = [runs EXCEPT ![A][st[A].run] = NoRun]
        BY <3>2 DEF Typed, TypeOK, NoRun, Owning
      <3> QED  BY <1>4, <3>1, <3>2 DEF Terminate, CloseRun
    <2>4. job.run # 0 => job.run # st[A].run
      BY <1>1 DEF Owning, Ownership, LaunchIsFresh, BeforeSpawn
    <2>5. Kept
      BY <1>1, <2>1, <2>3, <2>4, SameProc DEF Kept, SameHands, RunIds
    <2> QED  BY <1>2, <2>2, <2>5, Goes DEF Footprint
  <1> QED  BY <1>3, <1>4

LEMMA StopFailsOwns ==
    ASSUME Owning, TerminateFails \/ CloseFails
    PROVE  Ownership' /\ Orderly
  <1>1. /\ job.step = "stop2" /\ A \in Accounts /\ Typed /\ StopRaises /\ SameLife
        /\ UNCHANGED <<runs, unfinished>>
    BY AtStop, RaiseLives DEF TerminateFails, CloseFails
  <1>2. Unnamed
    BY <1>1, ShowKept DEF TerminateFails, CloseFails
  <1>3. CASE TerminateFails
    <2>1. Footprint
      BY <1>1, <1>2, <1>3, Untouched, SameProc DEF TerminateFails, SameHands, Footprint
    <2> QED  BY <1>1, <2>1, RaiseGoes
  <1>4. CASE CloseFails
    <2>1. SameHands
      <3> DEFINE h == [handle[A] EXCEPT !.planned = StopReason]
      <3>1. handle' = [handle EXCEPT ![A] = h]
        BY <1>4 DEF CloseFails, Typed, TypeOK
      <3>2. h.run = handle[A].run
        BY <1>1, RowsOf DEF Typed, HandleRow
      <3> HIDE DEF h
      <3> QED  BY <1>1, <3>1, <3>2, HandleKept
    <2>2. NoneBorn
      <3> DEFINE os == IF proc[A][handle[A].run].os = "alive" THEN "killed" ELSE proc[A][handle[A].run].os
      <3>1. proc' = [proc EXCEPT ![A][handle[A].run].os = os] /\ os # "alive"
        BY <1>1, <1>4, OwnedRun DEF CloseFails, Typed, TypeOK
      <3> HIDE DEF os
      <3> QED  BY <1>1, <3>1, ChildEnds
    <2>3. Footprint
      BY <1>1, <1>2, <2>1, <2>2, Untouched DEF Footprint
    <2> QED  BY <1>1, <2>3, RaiseGoes
  <1> QED  BY <1>3, <1>4

LEMMA StopDoneOwns ==
    ASSUME Owning, StopDone
    PROVE  Ownership' /\ Orderly
  <1>1. /\ job.step = "stop3" /\ A \in Accounts /\ A = job.a /\ job.step # "idle" /\ Typed /\ SameLife
        /\ UNCHANGED <<runs, proc, handle, unfinished>>
        /\ job.run # 0 => job.op \in {"restart", "authenticate"}
        /\ handle[A].run = 0
    BY AtStop DEF StopDone, SamePhase, SameLife, Owning, Ownership, Hands, EmptyHanded
  <1>2. Unnamed
    <2> DEFINE s == [st[A] EXCEPT !.run = 0, !.observed = FinalObserved]
    <2>1. st' = [st EXCEPT ![A] = s] /\ st \in [Accounts -> StateRow] /\ st[A] \in StateRow
      BY <1>1 DEF StopDone, Typed, TypeOK
    <2>2. s.run = 0
      BY <2>1 DEF StateRow
    <2> HIDE DEF s
    <2> QED  BY <2>1, <2>2 DEF Unnamed
  <1>3. Footprint
    BY <1>1, <1>2, Untouched, SameProc DEF SameHands, Footprint
  <1>4. job.op \in Ops \ {"recover"}
    BY <1>1, Working DEF Typed, OpsAt
  <1>5. CASE job.op \in {"stop", "authfail"}
    BY <1>1, <1>3, <1>5, ReturnRun, EmptyGoes DEF StopDone
  <1>6. CASE job.op \in {"halt", "retry", "quit"}
    BY <1>1, <1>3, <1>6, IdleJob, EmptyGoes DEF StopDone
  <1>7. CASE job.op = "start"
    <2>1. Step("settle")
      BY <1>7 DEF StopDone
    <2> QED  BY <1>1, <1>3, <1>7, <2>1, StepFields, EmptyGoes DEF Typed
  <1>8. CASE job.op \in {"restart", "authenticate"}
    <2>1. GoesOn /\ job'.step = "spawn" /\ job'.a = A
      BY <1>1, <1>8, StepFields DEF StopDone, Typed, GoesOn, SameLaunch, BeforeSpawn
    <2>2. Hands'
      BY <1>1, <2>1 DEF Hands, EmptyHanded, TidiesItsOwn
    <2> QED  BY <1>3, <2>1, <2>2, Goes
  <1> QED  BY <1>4, <1>5, <1>6, <1>7, <1>8 DEF Ops

-----------------------------------------------------------------------------
(* Spawning *)

LEMMA AtSpawn ==
    ASSUME Owning, job.step = "spawn"
    PROVE  /\ A \in Accounts /\ A = job.a /\ job.step # "idle" /\ Typed /\ phase # "down"
           /\ job \in JobRow /\ handle[A].run = 0
           /\ job.run # 0 => /\ runs[A][job.run].open /\ unfinished[A][job.run] = "none"
                             /\ job.run \in RunIds
  BY AtStep, Working, LaunchRow DEF Owning, Typed, Ownership, Hands, EmptyHanded, LaunchIsFresh,
                                    BeforeSpawn

(* A launch that is cancelled or comes to nothing. *)
LEMMA NoSpawnOwns ==
    ASSUME Owning, SpawnCancelled \/ SpawnFails
    PROVE  Ownership' /\ Orderly
  <1>1. /\ job.step = "spawn" /\ A \in Accounts /\ A = job.a /\ job.step # "idle" /\ Typed
        /\ handle[A].run = 0 /\ SameLife /\ UNCHANGED <<proc, handle, unfinished>>
    BY AtSpawn DEF SpawnCancelled, SpawnFails, SamePhase, SameLife, db
  <1>2. CASE Step("failed") /\ UNCHANGED <<st, runs>>
    <2>1. GoesOn /\ job'.step = "failed"
      BY <1>1, <1>2, StepFields DEF Typed, GoesOn, SameLaunch, BeforeSpawn
    <2>2. Footprint
      BY <1>1, <1>2, Still DEF Footprint
    <2> QED  BY <2>1, <2>2, FreeHands, Goes
  <1>3. CASE SpawnCancelled /\ job.op = "recover"
    <2>1. runs' = [runs EXCEPT ![A][job.run] = NoRun] /\ job' = NoJob
      BY <1>3 DEF SpawnCancelled, CloseRun
    <2>2. Unnamed
      <3> DEFINE s == [st[A] EXCEPT !.run = 0, !.retry = "none", !.observed = "stopped"]
      <3>1. st' = [st EXCEPT ![A] = s] /\ st \in [Accounts -> StateRow] /\ st[A] \in StateRow
        BY <1>1, <1>3 DEF SpawnCancelled, Typed, TypeOK
      <3>2. s.run = 0
        BY <3>1 DEF StateRow
      <3> HIDE DEF s
      <3> QED  BY <3>1, <3>2 DEF Unnamed
    <2>3. ASSUME NEW b \in Accounts, NEW r \in RunIds
          PROVE  \/ runs'[b][r].open = runs[b][r].open
                 \/ ~runs'[b][r].open /\ b = A /\ r = job.run
      BY <2>1 DEF Typed, TypeOK, NoRun, Owning
    <2>4. job.run # 0 => ~runs'[A][job.run].open
      <3>1. job.run # 0 => job.run \in RunIds
        BY LaunchRow DEF Owning
      <3> QED  BY <1>1, <2>1, <3>1 DEF Typed, TypeOK, NoRun
    <2>5. IsOver /\ job'.step = "idle"
      BY <1>1, <2>1, <2>4, IdleJob DEF IsOver
    <2>6. Kept
      BY <1>1, <2>2, <2>3, <2>5, SameProc DEF Kept, SameHands, RunIds, IsOver
    <2> QED  BY <2>5, <2>6, FreeHands, Goes DEF Footprint
  <1> QED  BY <1>2, <1>3 DEF SpawnCancelled, SpawnFails, db

(* A new child: only the run of the launch gets one, and its handle. *)
LEMMA BornHeld ==
    ASSUME Owning, job.step = "spawn", job.run # 0, NEW p, NEW h, h.run = job.run,
           proc' = [proc EXCEPT ![A][job.run] = p],
           handle' = [handle EXCEPT ![A] = h],
           UNCHANGED <<runs, unfinished, phase>>,
           SameLaunch \/ job'.run = 0
    PROVE  Held'
  <1>1. /\ A \in Accounts /\ A = job.a /\ Typed /\ phase # "down" /\ handle[A].run = 0
        /\ runs[A][job.run].open /\ unfinished[A][job.run] = "none" /\ job.run \in RunIds
    BY AtSpawn
  <1>2. \A b \in Accounts : handle'[b].run = IF b = A THEN job.run ELSE handle[b].run
    BY <1>1 DEF Typed, TypeOK
  <1>3. \A b \in Accounts, r \in RunIds : proc'[b][r] = IF b = A /\ r = job.run THEN p ELSE proc[b][r]
    BY <1>1 DEF Typed, TypeOK
  <1>4. ChildIsOwned'
    BY <1>1, <1>2, <1>3 DEF ChildIsOwned, Owning, Ownership, Held, RunIds
  <1>5. LiveRunIsOpen'
    BY <1>1, <1>3 DEF LiveRunIsOpen, Owning, Ownership, Held
  <1>6. OpenRunIsHeld'
    BY <1>1, <1>2 DEF OpenRunIsHeld, Owning, Ownership, Held, SameLaunch, RunIds
  <1>7. HeldIsNotUnfinished'
    BY <1>1, <1>2 DEF HeldIsNotUnfinished, Owning, Ownership, Held
  <1>8. DownOwnsNothing'
    BY <1>1 DEF DownOwnsNothing
  <1> QED  BY <1>4, <1>5, <1>6, <1>7, <1>8 DEF Held

LEMMA NewHandleRun ==
    NewHandle.run = job.run /\ [NewHandle EXCEPT !.cleanup = TRUE].run = job.run
  BY DEF NewHandle, HandleOf

LEMMA SpawnOwns ==
    ASSUME Owning, Spawn \/ SpawnUnrecorded
    PROVE  /\ Ownership'
           /\ job.run = 0 => Orderly
  <1>1. /\ job.step = "spawn" /\ A \in Accounts /\ A = job.a /\ job.step # "idle" /\ Typed
        /\ phase # "down" /\ handle[A].run = 0 /\ SameLife
        /\ UNCHANGED <<runs, unfinished, phase>>
    BY AtSpawn DEF Spawn, SpawnUnrecorded, SamePhase, SameLife, db
  <1>2. Unnamed \/ st' = [st EXCEPT ![A] = [st[A] EXCEPT !.run = job.run, !.observed = "starting", !.retry = "none"]]
    BY DEF Spawn, SpawnUnrecorded, db, Unnamed
  <1>3. PICK p, h : /\ proc' = [proc EXCEPT ![A][job.run] = p]
                    /\ handle' = [handle EXCEPT ![A] = h] /\ h.run = job.run
    <2>1. CASE Spawn
      BY <2>1, NewHandleRun DEF Spawn
    <2>2. CASE SpawnUnrecorded
      BY <2>2, NewHandleRun DEF SpawnUnrecorded
    <2> QED  BY <2>1, <2>2
  <1>4. handle'[A].run = job.run
    BY <1>1, <1>3 DEF Typed, TypeOK
  <1>5. \/ job' = NoJob
        \/ SameLaunch /\ job'.step \in {"failed", "tidy"}
    <2>1. CASE Spawn
      BY <2>1 DEF Spawn
    <2>2. CASE SpawnUnrecorded
      <3> DEFINE name == IF job.op = "recover" THEN "failed" ELSE "tidy"
      <3>1. Step(name) /\ name \in {"failed", "tidy"}
        BY <2>2 DEF SpawnUnrecorded
      <3> HIDE DEF name
      <3> QED  BY <1>1, <3>1, StepFields DEF Typed, SameLaunch
    <2> QED  BY <2>1, <2>2
  <1>6. Hands'
    BY <1>1, <1>4, <1>5, IdleJob DEF Hands, EmptyHanded, TidiesItsOwn, SameLaunch
  <1>7. CASE job.run # 0
    <2>1. Held'
      BY <1>1, <1>3, <1>5, <1>7, IdleJob, BornHeld
    <2>2. LaunchIsFresh'
      BY <1>1, <1>5, <1>7, IdleJob, AtSpawn DEF LaunchIsFresh, SameLaunch, BeforeSpawn
    <2> QED  BY <1>6, <1>7, <2>1, <2>2 DEF Ownership
  <1>8. CASE job.run = 0
    <2>1. NoneBorn
      <3>1. \A b \in Accounts, r \in RunIds : proc'[b][r] = proc[b][r]
        BY <1>1, <1>3, <1>8 DEF Typed, TypeOK, RunIds
      <3> QED  BY <3>1 DEF NoneBorn, SameLives
    <2>2. SameHands
      BY <1>1, <1>3, <1>8 DEF Typed, TypeOK, SameHands
    <2>3. Unnamed
      <3> DEFINE s == [st[A] EXCEPT !.run = job.run, !.observed = "starting", !.retry = "none"]
      <3>1. st \in [Accounts -> StateRow] /\ st[A] \in StateRow
        BY <1>1 DEF Typed, TypeOK
      <3>2. s.run = 0
        BY <1>8, <3>1 DEF StateRow
      <3> HIDE DEF s
      <3>3. Unnamed \/ st' = [st EXCEPT ![A] = s]
        BY <1>2 DEF s
      <3> QED  BY <3>1, <3>2, <3>3 DEF Unnamed
    <2>4. Kept
      BY <1>1, <2>1, <2>2, <2>3, Untouched
    <2>5. IsOver
      BY <1>5, <1>8, IdleJob DEF IsOver, SameLaunch
    <2> QED  BY <1>6, <2>4, <2>5, Goes DEF Footprint
  <1> QED  BY <1>7, <1>8

LEMMA SpawnTidyOwns ==
    ASSUME Owning, SpawnTidy
    PROVE  Ownership' /\ Orderly
  <1>1. /\ job.step = "tidy" /\ A \in Accounts /\ A = job.a /\ job.step # "idle" /\ Typed
        /\ handle[A].run = job.run /\ SameLife /\ unfinished' = unfinished
    BY AtStop DEF SpawnTidy, SamePhase, SameLife, Owning, Ownership, Hands, TidiesItsOwn
  <1>2. /\ Footprint
        /\ job.run # 0 => ~runs'[A][job.run].open \/ handle'[A].run = job.run
    <2>1. CASE TidyDone(A)
      <3>1. Accounted(A)
        BY <1>1, <2>1, TidyAccounted
      <3>2. job.run # 0 => job.run \in RunIds
        BY <1>1, LaunchRow
      <3> QED  BY <1>1, <3>1, <3>2 DEF Accounted, Footprint
    <2>2. CASE TidyFails(A)
      <3>1. Kept
        BY <1>1, <2>2, TidyKept
      <3> QED  BY <1>1, <3>1 DEF Kept, SameHands, Footprint
    <2> QED  BY <2>1, <2>2 DEF SpawnTidy
  <1>3. CASE job' = NoJob
    <2>1. IsOver /\ job'.step = "idle"
      BY <1>1, <1>2, <1>3, IdleJob DEF IsOver
    <2> QED  BY <1>2, <2>1, FreeHands, Goes
  <1>4. CASE Step("failed")
    <2>1. GoesOn /\ job'.step = "failed"
      BY <1>1, <1>4, StepFields DEF Typed, GoesOn, SameLaunch, BeforeSpawn
    <2> QED  BY <1>2, <2>1, FreeHands, Goes
  <1> QED  BY <1>3, <1>4 DEF SpawnTidy

-----------------------------------------------------------------------------
(* The handlers of a launch that failed *)

LEMMA FinalizeKept ==
    ASSUME Owning, job.step = "failed", NEW reason, reason # "none", Finalize(reason),
           UNCHANGED <<proc, handle>>, Unnamed, SameLife,
           job'.run = 0 \/ Provisional
    PROVE  /\ Kept
           /\ job'.run = 0 => IsOver
  <1>1. A \in Accounts /\ A = job.a /\ Typed /\ (job.run # 0 => job.run \in RunIds)
    BY AtStop, LaunchRow
  <1>2. CASE UNCHANGED <<runs, unfinished>> /\ (job.run = 0 \/ Provisional)
    <2>1. Kept
      BY <1>1, <1>2, Untouched, SameProc DEF SameHands
    <2> QED  BY <1>1, <1>2, <2>1 DEF IsOver, Provisional
  <1>3. CASE /\ job.run # 0 /\ ~Provisional
             /\ runs' = [runs EXCEPT ![A][job.run] = NoRun] /\ unfinished' = unfinished
    <2>1. ASSUME NEW b \in Accounts, NEW r \in RunIds
          PROVE  \/ runs'[b][r].open = runs[b][r].open
                 \/ ~runs'[b][r].open /\ b = A /\ r = job.run
      BY <1>3 DEF Typed, TypeOK, NoRun, Owning
    <2>2. ~runs'[A][job.run].open
      BY <1>1, <1>3 DEF Typed, TypeOK, NoRun
    <2>3. handle[A].run # job.run
      BY <1>3 DEF Provisional
    <2>4. Kept
      BY <1>1, <1>3, <2>1, <2>3, SameProc DEF Kept, SameHands, Provisional
    <2> QED  BY <1>1, <1>3, <2>2, <2>4 DEF IsOver
  <1>4. CASE /\ job.run # 0 /\ ~Provisional /\ runs' = runs
             /\ unfinished' = [unfinished EXCEPT ![A][job.run] = reason]
    <2>1. ASSUME NEW b \in Accounts, NEW r \in RunIds
          PROVE  \/ unfinished'[b][r] = unfinished[b][r]
                 \/ unfinished'[b][r] # "none" /\ b = A /\ r = job.run
      BY <1>4 DEF Typed, TypeOK, Owning
    <2>2. unfinished'[A][job.run] # "none"
      BY <1>1, <1>4 DEF Typed, TypeOK
    <2>3. handle[A].run # job.run
      BY <1>4 DEF Provisional
    <2>4. Kept
      BY <1>1, <1>4, <2>1, <2>3, SameProc DEF Kept, SameHands, Provisional
    <2> QED  BY <1>1, <1>4, <2>2, <2>4, SameProc DEF IsOver, SameOpen
  <1> QED  BY <1>2, <1>3, <1>4 DEF Finalize, CloseRun

LEMMA LaunchFailedOwns ==
    ASSUME Owning, LaunchFailed \/ ResetFailed
    PROVE  Ownership' /\ Orderly
  <1>1. /\ job.step = "failed" /\ A \in Accounts /\ Typed /\ SameLife /\ Return("failed")
        /\ UNCHANGED <<proc, handle>>
    BY AtStop DEF LaunchFailed, ResetFailed, SamePhase, SameLife
  <1>2. Unnamed
    <2>1. CASE UNCHANGED st
      BY <2>1 DEF Unnamed
    <2>2. CASE LaunchFailed /\ st' # st
      <3> DEFINE shown == ShownAfterFailure
                 retry == IF Survivor THEN "none" ELSE "later"
                 state == [st[A] EXCEPT !.observed = shown, !.retry = retry]
                 halted == [st[A] EXCEPT !.observed = "stopped", !.retry = "none"]
                 plan == Scheduled(A, state, attempts[A], "later").state
      <3>1. \/ st' = [st EXCEPT ![A] = halted]
            \/ st' = [st EXCEPT ![A] = plan]
            \/ st' = [st EXCEPT ![A] = state]
        BY <1>1, <2>2 DEF LaunchFailed, Typed, TypeOK
      <3>2. st \in [Accounts -> StateRow] /\ st[A] \in StateRow
        BY <1>1 DEF Typed, TypeOK
      <3>3. state \in StateRow
        <4>1. shown \in Observed /\ retry \in {"none", "later", "due"}
          BY Settable DEF ShownAfterFailure
        <4> HIDE DEF shown, retry
        <4> QED  BY <3>2, <4>1 DEF StateRow
      <3>4. state.run = st[A].run
        <4> HIDE DEF shown, retry
        <4> QED  BY <3>2 DEF StateRow
      <3>5. halted.run = st[A].run
        BY <3>2 DEF StateRow
      <3>6. plan.run = st[A].run
        <4> HIDE DEF state
        <4> QED  BY <3>3, <3>4, ScheduledRun
      <3> HIDE DEF state, halted, plan
      <3> QED  BY <3>1, <3>2, <3>4, <3>5, <3>6 DEF Unnamed
    <2> QED  BY <2>1, <2>2 DEF ResetFailed
  <1>3. job'.run = 0 /\ job'.step \in {"idle", "fallback"}
    BY <1>1, ReturnRun
  <1>4. Kept /\ IsOver
    BY <1>1, <1>2, <1>3, FinalizeKept DEF LaunchFailed, ResetFailed
  <1> QED  BY <1>3, <1>4, FreeHands, Goes DEF Footprint

LEMMA RecoveryFailedOwns ==
    ASSUME Owning, RecoveryFailed
    PROVE  Ownership' /\ Orderly
  <1>1. /\ job.step = "failed" /\ job.step # "idle" /\ A \in Accounts /\ A = job.a /\ Typed /\ SameLife
        /\ Finalize("start_failed") /\ UNCHANGED <<proc, handle>>
        /\ IF Provisional THEN Step("tidy") ELSE job' = NoJob
    BY AtStop DEF RecoveryFailed, SamePhase, SameLife
  <1>2. Unnamed
    <2> DEFINE gone  == [st[A] EXCEPT !.run = 0]
               tries == Failed(attempts[A], job.attempt)
               plan  == Scheduled(A, gone, tries, "later").state
               over  == [gone EXCEPT !.observed = "stopped", !.retry = "none"]
    <2>1. st' = [st EXCEPT ![A] = over] \/ st' = [st EXCEPT ![A] = plan]
      BY DEF RecoveryFailed
    <2>2. st \in [Accounts -> StateRow] /\ st[A] \in StateRow
      BY <1>1 DEF Typed, TypeOK
    <2>3. gone \in StateRow /\ gone.run = 0
      BY <2>2, StateFields, StateRuns, Settable
    <2>4. over.run = 0
      BY <2>3 DEF StateRow
    <2>5. plan.run = 0
      <3> HIDE DEF gone, tries
      <3> QED  BY <2>3, ScheduledRun
    <2> HIDE DEF over, plan
    <2> QED  BY <2>1, <2>2, <2>4, <2>5 DEF Unnamed
  <1>3. CASE Provisional
    <2>1. Kept
      BY <1>1, <1>2, <1>3, FinalizeKept
    <2>2. job'.step = "tidy" /\ GoesOn
      BY <1>1, <1>3, StepFields DEF Typed, GoesOn, SameLaunch, BeforeSpawn
    <2>3. Hands'
      BY <1>1, <1>3, <2>2 DEF Hands, EmptyHanded, TidiesItsOwn, Provisional, GoesOn, SameLaunch
    <2> QED  BY <2>1, <2>2, <2>3, Goes DEF Footprint
  <1>4. CASE ~Provisional
    <2>1. job'.run = 0 /\ job'.step = "idle"
      BY <1>1, <1>4, IdleJob
    <2>2. Kept /\ IsOver
      BY <1>1, <1>2, <2>1, FinalizeKept
    <2> QED  BY <2>1, <2>2, FreeHands, Goes DEF Footprint
  <1> QED  BY <1>3, <1>4

-----------------------------------------------------------------------------
(* Visits: the worker has no job before, so there is no launch. *)

LEMMA HandleFieldKept ==
    ASSUME Typed, NEW a \in Accounts, NEW planned, NEW authed,
           \/ handle' = [handle EXCEPT ![a].authed = authed]
           \/ handle' = [handle EXCEPT ![a].planned = planned, ![a].authed = authed]
    PROVE  SameHands
  <1>1. handle \in [Accounts -> HandleRow] /\ handle[a] \in HandleRow
    BY DEF Typed, TypeOK
  <1>2. CASE handle' = [handle EXCEPT ![a].authed = authed]
    <2> DEFINE h == [handle[a] EXCEPT !.authed = authed]
    <2>1. h.run = handle[a].run /\ handle' = [handle EXCEPT ![a] = h]
      BY <1>1, <1>2 DEF HandleRow
    <2> HIDE DEF h
    <2> QED  BY <1>1, <2>1 DEF SameHands
  <1>3. CASE handle' = [handle EXCEPT ![a].planned = planned, ![a].authed = authed]
    <2> DEFINE h == [handle[a] EXCEPT !.planned = planned, !.authed = authed]
    <2>1. h.run = handle[a].run /\ handle' = [handle EXCEPT ![a] = h]
      BY <1>1, <1>3 DEF HandleRow
    <2> HIDE DEF h
    <2> QED  BY <1>1, <2>1 DEF SameHands
  <1> QED  BY <1>2, <1>3

LEMMA Visited ==
    ASSUME Owning, NEW a, Visit(a)
    PROVE  a \in Accounts /\ job = NoJob /\ job.run = 0 /\ SameLife /\ Typed
  BY VisitType, IdleJob DEF Owning, Typed, Visit, SameLife

LEMMA LookOwns ==
    ASSUME Owning, NEW a \in Accounts, HealthLook(a) \/ HealthTidy(a) \/ HealthExit(a)
    PROVE  Ownership' /\ Orderly
  <1>1. Typed /\ job = NoJob /\ job' = job /\ SameLife /\ unfinished' = unfinished
    BY Visited DEF HealthLook, HealthTidy, HealthExit, Examined, Idle, Owning, SameLife
  <1>2. Footprint
    <2>1. CASE HealthLook(a)
      BY <1>1, <2>1, Still DEF HealthLook, db, Footprint
    <2>2. CASE HealthTidy(a)
      BY <1>1, <2>2, TidyAccounted, TidyKept DEF HealthTidy, Footprint
    <2>3. CASE HealthExit(a) /\ RecordExit(a, TRUE, FALSE)
      BY <1>1, <2>3, ExitAccounted DEF Footprint
    <2>4. CASE UNCHANGED <<st, runs, proc>> /\ handle' = [handle EXCEPT ![a].authed = TRUE]
      <3>1. SameHands
        BY <1>1, <2>4, HandleFieldKept
      <3> QED  BY <1>1, <2>4, <3>1, Untouched, SameProc DEF Unnamed, Footprint
    <2> QED  BY <2>1, <2>2, <2>3, <2>4 DEF HealthExit
  <1> QED  BY <1>1, <1>2, IdleJob, EmptyGoes

LEMMA ConfirmOwns ==
    ASSUME Owning, NEW a \in Accounts, Confirm(a)
    PROVE  Ownership' /\ Orderly
  <1>1. /\ Typed /\ job = NoJob /\ job' = job /\ SameLife /\ UNCHANGED <<unfinished, proc>>
    BY Visited DEF Confirm, Examined
  <1>2. handle[a].run \in RunIds
    BY <1>1, OwnedRun DEF Confirm, Living, Alive, Typed
  <1>3. \A b \in Accounts, r \in RunIds : runs'[b][r].open = runs[b][r].open
    <2> SUFFICES ASSUME NEW b \in Accounts, NEW r \in RunIds
                 PROVE  runs'[b][r].open = runs[b][r].open
      OBVIOUS
    <2>1. runs[b] \in [RunIds -> RunRow] /\ runs[b][r] \in RunRow
      BY <1>1, RowsOf DEF Typed
    <2>2. runs' = [runs EXCEPT ![a][handle[a].run].confirmed = TRUE] /\ runs \in [Accounts -> [RunIds -> RunRow]]
      BY <1>1 DEF Confirm, Typed, TypeOK
    <2>3. runs'[b][r] = runs[b][r] \/ runs'[b][r] = [runs[b][r] EXCEPT !.confirmed = TRUE]
      BY <2>1, <2>2
    <2> QED  BY <2>1, <2>3 DEF RunRow
  <1>4. Unnamed
    <2> DEFINE s == [st[a] EXCEPT !.observed = "running", !.retry = "none"]
    <2>1. st' = [st EXCEPT ![a] = s] /\ st \in [Accounts -> StateRow] /\ st[a] \in StateRow
      BY <1>1 DEF Confirm, Typed, TypeOK
    <2>2. s.run = st[a].run
      BY <2>1 DEF StateRow
    <2> HIDE DEF s
    <2> QED  BY <2>1, <2>2 DEF Unnamed
  <1>5. SameHands
    <2> DEFINE h == [handle[a] EXCEPT !.confirmed = TRUE, !.authed = TRUE, !.cmd = 0, !.attempt = 0]
    <2>1. /\ handle' = [handle EXCEPT ![a] = h] /\ handle \in [Accounts -> HandleRow]
          /\ handle[a] \in HandleRow
      BY <1>1 DEF Confirm, Typed, TypeOK
    <2>2. h.run = handle[a].run
      BY <2>1 DEF HandleRow
    <2> HIDE DEF h
    <2> QED  BY <2>1, <2>2 DEF SameHands
  <1>6. Kept
    BY <1>1, <1>3, <1>4, <1>5, SameProc DEF Kept
  <1> QED  BY <1>1, <1>6, SameJob

LEMMA QuietOwns ==
    ASSUME Owning, NEW a \in Accounts, HealthQuiet(a) \/ ConfirmFails(a)
    PROVE  Ownership' /\ Orderly
  <1>1. Typed /\ job = NoJob /\ job' = job /\ UNCHANGED <<runs, unfinished, proc>>
    BY Visited DEF HealthQuiet, ConfirmFails, Examined, Idle, Owning, db
  <1>2. SameLife
    BY Visited DEF HealthQuiet, ConfirmFails, Examined, Living, Needed, Sound, Enter, SameLife
  <1>3. SameHands
    BY <1>1, HandleFieldKept DEF HealthQuiet, ConfirmFails
  <1>4. Unnamed
    <2> DEFINE s == [st[a] EXCEPT !.count = 0]
    <2>1. /\ st' = st \/ st' = [st EXCEPT ![a] = s]
          /\ st \in [Accounts -> StateRow] /\ st[a] \in StateRow
      BY <1>1 DEF HealthQuiet, ConfirmFails, db, Typed, TypeOK
    <2>2. s.run = st[a].run
      BY <2>1 DEF StateRow
    <2> HIDE DEF s
    <2> QED  BY <2>1, <2>2 DEF Unnamed
  <1> QED  BY <1>1, <1>2, <1>3, <1>4, Untouched, SameProc, SameJob

LEMMA HealthStopOwns ==
    ASSUME Owning, NEW a \in Accounts,
           \/ LoginRefused(a) \/ LoginCutShort(a) \/ LoginTimesOut(a)
           \/ HealthRetry(a) \/ HealthHalt(a)
    PROVE  Ownership' /\ Orderly
  <1>1. Visit(a) /\ UNCHANGED <<st, runs, unfinished, proc>>
    BY DEF LoginRefused, LoginCutShort, LoginTimesOut, GiveUpLogin, HealthRetry, HealthHalt, Examined
  <1>2. Typed /\ job.run = 0 /\ SameLife
    BY <1>1, Visited
  <1>3. SameHands
    BY <1>2, HandleFieldKept DEF LoginRefused, LoginCutShort, LoginTimesOut, GiveUpLogin,
                                 HealthRetry, HealthHalt
  <1>4. Footprint
    BY <1>1, <1>2, <1>3, Untouched, SameProc DEF Unnamed, Footprint
  <1>5. job'.run = 0 /\ job'.step = "stop1"
    BY DEF LoginRefused, LoginCutShort, LoginTimesOut, GiveUpLogin, HealthRetry, HealthHalt, Begin,
           NewJob
  <1> QED  BY <1>2, <1>4, <1>5, EmptyGoes

LEMMA ReconcileOwns ==
    ASSUME Owning, NEW a \in Accounts,
           \/ ReconcileStopped(a) \/ ReconcileRunning(a) \/ FingerprintVisit(a) \/ QuitVisit(a)
    PROVE  Ownership' /\ Orderly
  <1>1. Visit(a) /\ UNCHANGED <<runs, unfinished, proc, handle>>
    BY DEF ReconcileStopped, ReconcileRunning, FingerprintVisit, QuitVisit, db
  <1>2. Typed /\ job = NoJob /\ job.run = 0 /\ SameLife
    BY <1>1, Visited
  <1>3. Unnamed
    <2> DEFINE s == [st[a] EXCEPT !.run = 0, !.retry = "none", !.observed = "stopped"]
    <2>1. /\ st' = st \/ st' = [st EXCEPT ![a] = s]
          /\ st \in [Accounts -> StateRow] /\ st[a] \in StateRow
      BY <1>2 DEF ReconcileStopped, ReconcileRunning, FingerprintVisit, QuitVisit, db, Typed, TypeOK
    <2>2. s.run = 0
      BY <2>1 DEF StateRow
    <2> HIDE DEF s
    <2> QED  BY <2>1, <2>2 DEF Unnamed
  <1>4. Footprint
    BY <1>1, <1>2, <1>3, Untouched, SameProc DEF SameHands, Footprint
  <1>5. /\ job'.run = 0 /\ job'.step \in {"idle", "stop1", "settle", "launch"}
        /\ job'.step = "launch" => job'.op = "restart"
    BY <1>2, IdleJob DEF ReconcileStopped, ReconcileRunning, FingerprintVisit, QuitVisit, Begin, NewJob
  <1> QED  BY <1>2, <1>4, <1>5, EmptyGoes

LEMMA RecoverFlushOwns ==
    ASSUME Owning, NEW a \in Accounts, RecoverFlush(a)
    PROVE  Ownership' /\ Orderly
  <1>1. /\ job' = job /\ SameLife /\ UNCHANGED <<st, proc, handle>>
        /\ \E S \in SUBSET Unclosed(a) : CloseUnfinished(a, S)
    BY DEF RecoverFlush, SameLife
  <1> QED  BY <1>1, UnfinishedKept, SameJob

LEMMA RecoverOwns ==
    ASSUME Owning, NEW a \in Accounts,
           \/ RecoverSkip(a) \/ RecoverPlain(a) \/ RecoverSchedule(a) \/ RecoverClaim(a)
    PROVE  Ownership' /\ Orderly
  <1>1. Visit(a) /\ UNCHANGED <<runs, unfinished, proc, handle>>
    BY DEF RecoverSkip, RecoverPlain, RecoverSchedule, RecoverClaim, RecoverPass
  <1>2. Typed /\ job = NoJob /\ job.run = 0 /\ SameLife
    BY <1>1, Visited
  <1>3. Unnamed
    <2>1. st \in [Accounts -> StateRow] /\ st[a] \in StateRow
      BY <1>2 DEF Typed, TypeOK
    <2>2. CASE UNCHANGED st
      BY <2>2 DEF Unnamed
    <2>3. CASE RecoverSchedule(a)
      <3> DEFINE plan == Scheduled(a, st[a], attempts[a], "later").state
      <3>1. st' = [st EXCEPT ![a] = plan]
        BY <2>3 DEF RecoverSchedule
      <3>2. plan.run = st[a].run
        BY <2>1, ScheduledRun
      <3> HIDE DEF plan
      <3> QED  BY <2>1, <3>1, <3>2 DEF Unnamed
    <2>4. CASE RecoverClaim(a) /\ st' # st
      <3> DEFINE n == IF st[a].count < RapidAttempts THEN st[a].count + 1 ELSE st[a].count
                 s == [st[a] EXCEPT !.retry = "none", !.observed = "restarting", !.count = n]
      <3>1. st' = [st EXCEPT ![a] = s]
        BY <2>4 DEF RecoverClaim
      <3>2. s.run = st[a].run
        <4> HIDE DEF n
        <4> QED  BY <2>1 DEF StateRow
      <3> HIDE DEF s
      <3> QED  BY <2>1, <3>1, <3>2 DEF Unnamed
    <2> QED  BY <2>2, <2>3, <2>4 DEF RecoverSkip, RecoverPlain
  <1>4. Footprint
    BY <1>1, <1>2, <1>3, Untouched, SameProc DEF SameHands, Footprint
  <1>5. CASE job' = job \/ job' = NewJob("start", "settle", a)
    BY <1>2, <1>4, <1>5, IdleJob, EmptyGoes DEF NewJob
  <1>6. ASSUME NEW k, job' = [NewJob("recover", "launch", a) EXCEPT !.attempt = k], RecoverClaim(a)
        PROVE  Ownership' /\ Orderly
    <2>1. job'.run = 0 /\ job'.step = "launch" /\ job'.a = a
      BY <1>6 DEF NewJob
    <2>2. handle'[a].run = 0
      BY <1>1, <1>6 DEF RecoverClaim, Owned
    <2>3. Hands'
      BY <2>1, <2>2 DEF Hands, EmptyHanded, TidiesItsOwn
    <2> QED  BY <1>2, <1>4, <2>1, <2>3, Goes DEF IsOver
  <1> QED  BY <1>5, <1>6 DEF RecoverSkip, RecoverPlain, RecoverSchedule, RecoverClaim, Begin

LEMMA VisitingOwns ==
    ASSUME Owning, Visiting
    PROVE  Ownership' /\ Orderly
  BY LookOwns, ConfirmOwns, QuietOwns, HealthStopOwns, ReconcileOwns, RecoverFlushOwns, RecoverOwns
  DEF Visiting

-----------------------------------------------------------------------------
(* The loop, the end of a worker and the start of the next *)

LEMMA DieOwns ==
    ASSUME Die
    PROVE  Ownership'
  <1>1. /\ phase' = "down" /\ job' = NoJob
        /\ \A a \in Accounts : handle'[a].run = 0
        /\ \A a \in Accounts, r \in RunIds : proc'[a][r].os # "alive"
    BY DEF Die, Enter, NoHandle, HandleOf, NoProc
  <1>2. Held'
    BY <1>1 DEF Held, ChildIsOwned, LiveRunIsOpen, OpenRunIsHeld, HeldIsNotUnfinished, DownOwnsNothing
  <1>3. Hands' /\ LaunchIsFresh'
    BY <1>1, IdleJob, FreeHands DEF LaunchIsFresh
  <1> QED  BY <1>2, <1>3 DEF Ownership

LEMMA BootOwns ==
    ASSUME Owning, Boot
    PROVE  Ownership'
  <1>1. /\ phase = "down" /\ phase' # "down" /\ job = NoJob /\ job' = job
        /\ UNCHANGED <<handle, proc, unfinished>>
    BY DEF Boot, Enter, Owning, Typed, JobFits
  <1>2. \A a \in Accounts : handle[a].run = 0
    BY <1>1 DEF Owning, Ownership, Held, DownOwnsNothing
  <1>3. \A a \in Accounts, r \in RunIds : proc[a][r].os # "alive"
    BY <1>2 DEF Owning, Ownership, Held, ChildIsOwned, RunIds
  <1>4. \A a \in Accounts, r \in RunIds : ~runs'[a][r].open
    <2>1. runs' = [a \in Accounts |-> [r \in RunIds |-> IF r \in OpenRuns(a) THEN NoRun ELSE runs[a][r]]]
      BY DEF Boot
    <2>2. \A a \in Accounts, r \in RunIds : runs[a][r].open \in BOOLEAN
      BY DEF Owning, Typed, TypeOK, RunRow
    <2> QED  BY <2>1, <2>2 DEF OpenRuns, NoRun
  <1>5. Held'
    BY <1>1, <1>2, <1>3, <1>4
    DEF Held, ChildIsOwned, LiveRunIsOpen, OpenRunIsHeld, HeldIsNotUnfinished, DownOwnsNothing
  <1>6. Hands' /\ LaunchIsFresh'
    BY <1>1, IdleJob, FreeHands DEF LaunchIsFresh
  <1> QED  BY <1>5, <1>6 DEF Ownership

LEMMA FlushOwns ==
    ASSUME Owning, Flush
    PROVE  Ownership' /\ Orderly
  <1>1. /\ job' = job /\ SameLife /\ UNCHANGED <<st, proc, handle>>
    BY DEF Flush, Enter, SameLife
  <1>2. PICK S \in [Accounts -> SUBSET RunIds] :
          /\ \A a \in Accounts : S[a] \subseteq Unclosed(a)
          /\ runs' = [a \in Accounts |-> [r \in RunIds |-> IF r \in S[a] THEN NoRun ELSE runs[a][r]]]
          /\ unfinished' = [a \in Accounts |->
                              [r \in RunIds |-> IF r \in S[a] THEN "none" ELSE unfinished[a][r]]]
    BY DEF Flush
  <1>3. ASSUME NEW b \in Accounts, NEW r \in RunIds
        PROVE  \/ runs'[b][r].open = runs[b][r].open /\ unfinished'[b][r] = unfinished[b][r]
               \/ /\ ~runs'[b][r].open /\ handle[b].run # r /\ ~(job.a = b /\ job.run = r)
    <2>1. CASE r \in S[b]
      <3>1. ~runs'[b][r].open
        BY <1>2, <2>1 DEF NoRun
      <3>2. unfinished[b][r] # "none"
        BY <1>2, <2>1 DEF Unclosed
      <3> QED  BY <3>1, <3>2, UnfinishedIsFree
    <2>2. CASE r \notin S[b]
      BY <1>2, <2>2
    <2> QED  BY <2>1, <2>2
  <1>4. Kept
    BY <1>1, <1>3, SameProc DEF Kept, SameHands, Unnamed
  <1> QED  BY <1>1, <1>4, SameJob

LEMMA TurnOwns ==
    ASSUME Owning, Advance \/ HealthDue \/ FingerprintDue \/ Quit
    PROVE  Ownership' /\ Orderly
  <1>1. job' = job /\ UNCHANGED <<st, runs, proc, handle, unfinished>>
    BY DEF Advance, HealthDue, HealthLater, FingerprintDue, Quit, Turn, db
  <1>2. SameLife
    BY DEF Advance, HealthDue, HealthLater, FingerprintDue, Quit, Turn, Enter, SameLife
  <1> QED  BY <1>1, <1>2, Still, SameJob DEF Owning

LEMMA NextOwns ==
    ASSUME Owning, [Next]_vars
    PROVE  Ownership'
  <1>1. CASE Launching
    BY <1>1, LaunchFlushOwns, SettleTidyOwns, SettleOwns, LaunchOwns, LaunchRefusedOwns, NoSpawnOwns,
       SpawnOwns, SpawnTidyOwns, LaunchFailedOwns, RecoveryFailedOwns DEF Launching
  <1>2. CASE Stopping
    BY <1>2, StopFindsDeadOwns, StopBeginsOwns, TerminateOwns, StopFailsOwns, StopDoneOwns DEF Stopping
  <1>3. CASE Looping
    BY <1>3, BootOwns, FlushOwns, TurnOwns, DieOwns DEF Looping, ShutdownEnds
  <1> QED  BY <1>1, <1>2, <1>3, CommandsOwn, VisitingOwns, OutsideOwns, TurnOwns, DieOwns
           DEF Next, Worker, Crash

-----------------------------------------------------------------------------
LEMMA InitOwns == Init => Owning
  <1> SUFFICES ASSUME Init PROVE Ownership
    BY InitType DEF Owning, Typed
  <1>1. /\ phase = "down" /\ job = NoJob
        /\ \A a \in Accounts : handle[a].run = 0
        /\ \A a \in Accounts, r \in RunIds : proc[a][r].os # "alive"
    BY DEF Init, NoHandle, HandleOf, NoProc
  <1>2. Held
    BY <1>1 DEF Held, ChildIsOwned, LiveRunIsOpen, OpenRunIsHeld, HeldIsNotUnfinished, DownOwnsNothing
  <1>3. Hands /\ LaunchIsFresh
    BY <1>1, IdleJob DEF LaunchIsFresh, Hands, EmptyHanded, TidiesItsOwn
  <1> QED  BY <1>2, <1>3 DEF Ownership

LEMMA AlwaysOwning == Spec => []Owning
  <1>1. ASSUME Owning, [Next]_vars
        PROVE  Owning'
    BY <1>1, StepTypes, NextOwns DEF Owning, Typed
  <1> QED  BY <1>1, InitOwns, PTL DEF Spec

(* A child that is alive is held by a handle of the worker that is up, through *)
(* every failed spawn, stop, write and crash: start_account stores the handle   *)
(* before anything can fail, and stop_account keeps it until the child is gone. *)
THEOREM EveryChildIsOwned == Spec => []ChildIsOwned
  <1>1. Owning => ChildIsOwned
    BY DEF Owning, Ownership, Held
  <1> QED  BY <1>1, AlwaysOwning, PTL

(* The run row of a live child is open, or its end is remembered to be written: *)
(* _close_run runs only once stop_account or check_health has seen the child    *)
(* gone.                                                                        *)
THEOREM EveryLiveRunIsOpen == Spec => []LiveRunIsOpen
  <1>1. Owning => LiveRunIsOpen
    BY DEF Owning, Ownership, Held
  <1> QED  BY <1>1, AlwaysOwning, PTL

(* Somebody will write the end of every open run: the handle of its child, the  *)
(* launch that made it, the list of unfinished runs or, when the worker is      *)
(* down, the startup of the next one.                                           *)
THEOREM EveryOpenRunIsHeld == Spec => []OpenRunIsHeld
  <1>1. Owning => OpenRunIsHeld
    BY DEF Owning, Ownership, Held
  <1> QED  BY <1>1, AlwaysOwning, PTL
=============================================================================
