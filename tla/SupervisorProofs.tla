---------------------------- MODULE SupervisorProofs ----------------------------
(***************************************************************************)
(* MinerSupervisor implements RunLedger and CommandQueue, and what it      *)
(* shows and remembers is true.                                            *)
(*                                                                         *)
(* Seen through run records and live processes alone, every step is a step *)
(* of the ledger or changes nothing there.  Owning says what a record and  *)
(* a process look like from outside: the process of an account is the one  *)
(* its handle holds.  Most steps are Orderly, and an orderly step closes   *)
(* runs without a process, abandons one launch, or loses or stops one      *)
(* child; the others are treated one by one.                               *)
(*                                                                         *)
(* Seen through commands and desired states, every step is one of the      *)
(* queue.  Filed says which command a handle may wait for, what the job    *)
(* does to its command at each step, and where the two may share one.      *)
(*                                                                         *)
(* RunningIsTruthful is inductive only with what ties a row of the state   *)
(* to a handle: the row names the child unless no committed row knows of   *)
(* that child, a stop has changed what is shown before the handle goes,    *)
(* and a health visit that goes on to confirm a child did not find a       *)
(* cleanup.  An attempt is started only by a recovery, and until its child *)
(* is confirmed the recovery or the handle has it; so whoever schedules    *)
(* anew finds no attempt started.                                          *)
(***************************************************************************)
EXTENDS SupervisorOwnership

(* The process of an account is that of the run its handle holds. *)
LiveIsHeld ==
    \A a \in Accounts :
        /\ LiveRun(a) \in RunIds \cup {0}
        /\ \A r \in RunIds : proc[a][r].os = "alive" <=> LiveRun(a) = r
        /\ LiveRun(a) # 0 => LiveRun(a) = handle[a].run /\ runs[a][LiveRun(a)].open

LEMMA OwningLive == Owning => LiveIsHeld
  <1> SUFFICES ASSUME Owning, NEW a \in Accounts
               PROVE  /\ LiveRun(a) \in RunIds \cup {0}
                      /\ \A r \in RunIds : proc[a][r].os = "alive" <=> LiveRun(a) = r
                      /\ LiveRun(a) # 0 => LiveRun(a) = handle[a].run /\ runs[a][LiveRun(a)].open
    BY DEF LiveIsHeld
  <1>1. CASE \E r \in RunIds : proc[a][r].os = "alive"
    <2> DEFINE q == CHOOSE r \in RunIds : proc[a][r].os = "alive"
    <2>1. q \in RunIds /\ proc[a][q].os = "alive" /\ LiveRun(a) = q
      BY <1>1 DEF LiveRun
    <2> HIDE DEF q
    <2> QED  BY <2>1 DEF ChildIsOwned, LiveRunIsOpen, Owning, Ownership, Held
  <1>2. CASE ~\E r \in RunIds : proc[a][r].os = "alive"
    BY <1>2 DEF LiveRun, RunIds
  <1> QED  BY <1>1, <1>2

-----------------------------------------------------------------------------
(* Steps of the ledger, told run by run. *)
SameChildren == \A a \in Accounts : LiveRun(a)' = LiveRun(a)

LEMMA Closing ==
    ASSUME SameChildren,
           \A a \in Accounts, r \in RunIds :
              RunRecord(a, r)' = RunRecord(a, r) \/ (RunRecord(a, r)' = "closed" /\ LiveRun(a) # r)
    PROVE  Ledger!Next
  <1> DEFINE S == [a \in Accounts |-> {r \in RunIds : RunRecord(a, r)' = "closed" /\ LiveRun(a) # r}]
  <1>1. S \in [Accounts -> SUBSET Ledger!Runs]
    BY DEF Ledger!Runs, RunIds
  <1>2. \A a \in Accounts : LiveRun(a) \notin S[a]
    OBVIOUS
  <1>3. \A a \in Accounts, r \in RunIds :
          RunRecord(a, r)' = IF r \in S[a] THEN "closed" ELSE RunRecord(a, r)
    OBVIOUS
  <1> HIDE DEF S
  <1>4. Ledger!Close
    BY <1>1, <1>2, <1>3 DEF Ledger!Close, Ledger!Runs, RunIds, SameChildren
  <1> QED  BY <1>4 DEF Ledger!Next

LEMMA Preparing ==
    ASSUME NEW a \in Accounts, NEW r \in RunIds, SameChildren,
           RunRecord(a, r) = "closed",
           \A b \in Accounts, q \in RunIds :
              RunRecord(b, q)' = IF b = a /\ q = r THEN "prepared" ELSE RunRecord(b, q)
    PROVE  Ledger!Next
  <1>1. Ledger!Prepare(a, r)
    BY DEF Ledger!Prepare, SameChildren
  <1> QED  BY <1>1 DEF Ledger!Next, Ledger!Runs, RunIds

LEMMA Abandoning ==
    ASSUME NEW a \in Accounts, NEW r \in RunIds, SameChildren,
           RunRecord(a, r) = "prepared",
           \A b \in Accounts, q \in RunIds :
              RunRecord(b, q)' = IF b = a /\ q = r THEN "out" ELSE RunRecord(b, q)
    PROVE  Ledger!Next
  <1>1. Ledger!Abandon(a, r)
    BY DEF Ledger!Abandon, SameChildren
  <1> QED  BY <1>1 DEF Ledger!Next, Ledger!Runs, RunIds

LEMMA Starting ==
    ASSUME NEW a \in Accounts, NEW r \in RunIds,
           RunRecord(a, r) = "prepared", LiveRun(a) = 0,
           \A b \in Accounts : LiveRun(b)' = IF b = a THEN r ELSE LiveRun(b),
           \A b \in Accounts, q \in RunIds :
              RunRecord(b, q)' = IF b = a /\ q = r THEN "out" ELSE RunRecord(b, q)
    PROVE  Ledger!Next
  <1>1. Ledger!Launch(a, r)
    BY DEF Ledger!Launch
  <1> QED  BY <1>1 DEF Ledger!Next, Ledger!Runs, RunIds

LEMMA Going ==
    ASSUME NEW a \in Accounts, LiveRun(a) # 0,
           \A b \in Accounts : LiveRun(b)' = IF b = a THEN 0 ELSE LiveRun(b),
           \A b \in Accounts, q \in RunIds : RunRecord(b, q)' = RunRecord(b, q)
    PROVE  Ledger!Next
  <1>1. Ledger!Gone(a)
    BY DEF Ledger!Gone
  <1> QED  BY <1>1 DEF Ledger!Next

LEMMA Ending ==
    ASSUME NEW a \in Accounts, LiveRun(a) # 0,
           \A b \in Accounts : LiveRun(b)' = IF b = a THEN 0 ELSE LiveRun(b),
           \A b \in Accounts, q \in RunIds :
              RunRecord(b, q)' = IF b = a /\ q = LiveRun(a) THEN "closed" ELSE RunRecord(b, q)
    PROVE  Ledger!Next
  <1>1. Ledger!Stop(a)
    BY DEF Ledger!Stop
  <1> QED  BY <1>1 DEF Ledger!Next

LEMMA Losing ==
    ASSUME \A b \in Accounts : LiveRun(b)' = 0,
           \A b \in Accounts, q \in RunIds :
              RunRecord(b, q)' = IF RunRecord(b, q) = "prepared" THEN "out" ELSE RunRecord(b, q)
    PROVE  Ledger!Next
  <1>1. Ledger!Loss
    BY DEF Ledger!Loss, Ledger!Runs, RunIds
  <1> QED  BY <1>1 DEF Ledger!Next

-----------------------------------------------------------------------------
(* Orderly steps *)

LEMMA LivesSame ==
    ASSUME LiveIsHeld, LiveIsHeld', SameLives
    PROVE  SameChildren
  <1> SUFFICES ASSUME NEW a \in Accounts PROVE LiveRun(a)' = LiveRun(a)
    BY DEF SameChildren
  <1>1. \A r \in RunIds : LiveRun(a)' = r <=> LiveRun(a) = r
    BY DEF LiveIsHeld, SameLives
  <1> QED  BY <1>1 DEF LiveIsHeld

LEMMA LivesLost ==
    ASSUME LiveIsHeld, LiveIsHeld', NEW a \in Accounts, Dies(a, LiveRun(a))
    PROVE  \A b \in Accounts : LiveRun(b)' = IF b = a THEN 0 ELSE LiveRun(b)
  <1> SUFFICES ASSUME NEW b \in Accounts
               PROVE  LiveRun(b)' = IF b = a THEN 0 ELSE LiveRun(b)
    OBVIOUS
  <1>1. \A r \in RunIds : LiveRun(b)' = r <=> LiveRun(b) = r /\ ~(b = a /\ r = LiveRun(a))
    BY DEF LiveIsHeld, Dies
  <1> QED  BY <1>1 DEF LiveIsHeld

(* Either the launch goes on as it was, or its run is nobody's to launch. *)
LEMMA LaunchGoes ==
    ASSUME Owning, GoesOn \/ IsOver, Kept \/ \E a \in Accounts : Accounted(a),
           NEW a \in Accounts, NEW r \in RunIds, runs'[a][r].open
    PROVE  \/ RunRecord(a, r)' = RunRecord(a, r)
           \/ /\ RunRecord(a, r)' = "out" /\ RunRecord(a, r) = "prepared"
              /\ job.a = a /\ job.run = r /\ IsOver
              /\ unfinished'[a][r] # "none" /\ SameLives /\ SameOpen
  <1>1. runs[a][r].open /\ r # 0
    BY DEF Kept, Accounted, RunIds
  <1>2. \/ handle'[a].run = handle[a].run
        \/ handle'[a].run = 0 /\ handle[a].run # r
    BY DEF Kept, SameHands, Accounted
  <1>3. CASE GoesOn
    BY <1>1, <1>2, <1>3 DEF RunRecord, Prepared, GoesOn, SameLaunch
  <1>4. CASE IsOver
    BY <1>1, <1>2, <1>4 DEF RunRecord, Prepared, IsOver
  <1> QED  BY <1>3, <1>4

LEMMA OrderlyFollows ==
    ASSUME Owning, LiveIsHeld, LiveIsHeld', Orderly
    PROVE  Ledger!Next
  <1>1. GoesOn \/ IsOver
    BY DEF Orderly
  <1>2. \A a \in Accounts, r \in RunIds : ~runs'[a][r].open => RunRecord(a, r)' = "closed"
    BY DEF RunRecord
  <1>3. CASE Kept /\ SameLives
    <2>1. SameChildren
      BY <1>3, LivesSame
    <2>2. ASSUME NEW a \in Accounts, NEW r \in RunIds,
                 runs'[a][r].open, RunRecord(a, r)' # RunRecord(a, r)
          PROVE  Ledger!Next
      <3>1. /\ RunRecord(a, r)' = "out" /\ RunRecord(a, r) = "prepared"
            /\ job.a = a /\ job.run = r /\ SameOpen
        BY <1>1, <1>3, <2>2, LaunchGoes
      <3>2. ASSUME NEW b \in Accounts, NEW q \in RunIds, ~(b = a /\ q = r)
            PROVE  RunRecord(b, q)' = RunRecord(b, q)
        <4>1. CASE runs'[b][q].open
          BY <1>1, <1>3, <3>1, <3>2, <4>1, LaunchGoes
        <4>2. CASE ~runs'[b][q].open
          BY <3>1, <4>2 DEF SameOpen, RunRecord
        <4> QED  BY <4>1, <4>2
      <3> QED  BY <2>1, <3>1, <3>2, Abandoning
    <2>3. CASE \A a \in Accounts, r \in RunIds :
                 runs'[a][r].open => RunRecord(a, r)' = RunRecord(a, r)
      <3>1. \A a \in Accounts, r \in RunIds : ~runs'[a][r].open => LiveRun(a) # r
        BY <2>1 DEF LiveIsHeld, SameChildren, RunIds
      <3> QED  BY <1>2, <2>1, <2>3, <3>1, Closing
    <2> QED  BY <2>2, <2>3
  <1>4. ASSUME Kept, SameOpen, NEW a \in Accounts, NEW q \in RunIds, Dies(a, q), ~SameLives
        PROVE  Ledger!Next
    <2>1. LiveRun(a) = q /\ q # 0
      BY <1>4 DEF LiveIsHeld, SameLives, Dies, RunIds
    <2>2. ASSUME NEW b \in Accounts, NEW r \in RunIds
          PROVE  RunRecord(b, r)' = RunRecord(b, r)
      <3>1. CASE runs'[b][r].open
        BY <1>1, <1>4, <3>1, LaunchGoes
      <3>2. CASE ~runs'[b][r].open
        BY <1>4, <3>2 DEF SameOpen, RunRecord
      <3> QED  BY <3>1, <3>2
    <2> QED  BY <1>4, <2>1, <2>2, LivesLost, Going
  <1>5. ASSUME NEW a \in Accounts, Accounted(a)
        PROVE  Ledger!Next
    <2>1. ASSUME NEW b \in Accounts, NEW r \in RunIds
          PROVE  RunRecord(b, r)' = IF b = a /\ r = handle[a].run THEN "closed" ELSE RunRecord(b, r)
      <3>1. CASE runs'[b][r].open
        <4>1. ~(b = a /\ r = handle[a].run)
          BY <1>5, <3>1 DEF Accounted
        <4>2. job.a = b /\ job.run = r => unfinished'[b][r] = "none"
          BY <1>5 DEF Accounted, Owning, Ownership, LaunchIsFresh, RunIds
        <4> QED  BY <1>1, <1>5, <3>1, <4>1, <4>2, LaunchGoes
      <3>2. CASE ~runs'[b][r].open
        BY <1>5, <3>2 DEF Accounted, RunRecord
      <3> QED  BY <3>1, <3>2
    <2>2. CASE LiveRun(a) # 0
      <3>1. LiveRun(a) = handle[a].run
        BY <2>2 DEF LiveIsHeld
      <3> QED  BY <1>5, <2>1, <2>2, <3>1, LivesLost, Ending DEF Accounted
    <2>3. CASE LiveRun(a) = 0
      <3>1. SameLives
        BY <1>5, <2>3 DEF Accounted, Dies, LiveIsHeld, SameLives, RunIds
      <3>2. SameChildren
        BY <3>1, LivesSame
      <3> QED  BY <2>1, <2>3, <3>2, Closing DEF RunIds
    <2> QED  BY <2>2, <2>3
  <1> QED  BY <1>3, <1>4, <1>5 DEF Orderly, Footprint, Kept, NoneBorn

-----------------------------------------------------------------------------
(* The other steps *)

LEMMA LaunchFollows ==
    ASSUME Owning, LiveIsHeld, LiveIsHeld', Launch
    PROVE  Ledger!Next
  <1> DEFINE r == CHOOSE x \in FreeRuns(A) : TRUE
             named == [open |-> TRUE, confirmed |-> FALSE, config |-> config[A]]
  <1>1. /\ job.step = "launch" /\ job.step # "idle" /\ job \in JobRow /\ A \in Accounts /\ A = job.a
        /\ Typed
    BY AtStep DEF Launch, Owning, Typed
  <1>2. job.run = 0
    BY <1>1, Working DEF Typed, Carries
  <1>3. r \in FreeRuns(A)
    BY DEF Launch
  <1> HIDE DEF r
  <1>4. r \in RunIds /\ r # 0 /\ ~runs[A][r].open /\ r # handle[A].run
    BY <1>3 DEF FreeRuns, RunIds
  <1>5. /\ runs' = [runs EXCEPT ![A][r] = named]
        /\ job' = [job EXCEPT !.run = r,
                              !.step = IF job.op \in {"start", "recover"} THEN "spawn" ELSE "stop1",
                              !.keep = TRUE]
        /\ UNCHANGED <<proc, handle>>
    BY DEF Launch, r
  <1>6. job'.run = r /\ job'.a = A
    BY <1>1, <1>5 DEF JobRow
  <1>7. ASSUME NEW b \in Accounts, NEW q \in RunIds
        PROVE  RunRecord(b, q)' = IF b = A /\ q = r THEN "prepared" ELSE RunRecord(b, q)
    <2>1. runs'[b][q].open <=> (runs[b][q].open \/ (b = A /\ q = r))
      <3>1. runs[b] \in [RunIds -> RunRow] /\ runs[b][q] \in RunRow
        BY <1>1, RowsOf DEF Typed
      <3>2. runs'[b] = IF b = A THEN [runs[A] EXCEPT ![r] = named] ELSE runs[b]
        BY <1>1, <1>5 DEF Typed, TypeOK
      <3> QED  BY <3>1, <3>2
    <2>2. q # 0
      BY DEF RunIds
    <2> QED  BY <1>2, <1>4, <1>5, <1>6, <2>1, <2>2 DEF RunRecord, Prepared
  <1>8. SameChildren
    BY <1>5, SameProc, LivesSame
  <1>9. RunRecord(A, r) = "closed"
    BY <1>4 DEF RunRecord
  <1> QED  BY <1>1, <1>4, <1>7, <1>8, <1>9, Preparing

LEMMA SpawnFollows ==
    ASSUME Owning, LiveIsHeld, LiveIsHeld', Spawn \/ SpawnUnrecorded, job.run # 0
    PROVE  Ledger!Next
  <1>1. /\ job.step = "spawn" /\ A \in Accounts /\ A = job.a /\ job.step # "idle" /\ Typed
        /\ handle[A].run = 0 /\ runs[A][job.run].open /\ job.run \in RunIds /\ runs' = runs
    BY AtSpawn DEF Spawn, SpawnUnrecorded, db
  <1>a. PICK os \in {"alive", "killed"} :
            /\ proc' = [proc EXCEPT ![A][job.run] = [NoProc EXCEPT !.os = os]]
            /\ \E h : handle' = [handle EXCEPT ![A] = h] /\ h.run = job.run
    <2>1. CASE Spawn
      BY <2>1, NewHandleRun DEF Spawn
    <2>2. CASE SpawnUnrecorded
      BY <2>2, NewHandleRun DEF SpawnUnrecorded
    <2> QED  BY <2>1, <2>2
  <1>b. PICK h : handle' = [handle EXCEPT ![A] = h] /\ h.run = job.run
    BY <1>a
  <1>2. proc' = [proc EXCEPT ![A][job.run] = [NoProc EXCEPT !.os = os]]
    BY <1>a
  <1>3. \A b \in Accounts : handle'[b].run = IF b = A THEN job.run ELSE handle[b].run
    BY <1>1, <1>b DEF Typed, TypeOK
  <1>4. ASSUME NEW b \in Accounts, NEW q \in RunIds
        PROVE  proc'[b][q].os = IF b = A /\ q = job.run THEN os ELSE proc[b][q].os
    <2>1. [NoProc EXCEPT !.os = os].os = os
      BY DEF NoProc
    <2> QED  BY <1>1, <1>2, <2>1 DEF Typed, TypeOK
  <1>5. job' = NoJob \/ SameLaunch
    <2>1. CASE SpawnUnrecorded
      <3> DEFINE name == IF job.op = "recover" THEN "failed" ELSE "tidy"
      <3>1. Step(name)
        BY <2>1 DEF SpawnUnrecorded
      <3> HIDE DEF name
      <3> QED  BY <1>1, <3>1, StepFields DEF Typed, SameLaunch
    <2> QED  BY <2>1 DEF Spawn
  <1>6. RunRecord(A, job.run) = "prepared"
    BY <1>1 DEF RunRecord, Prepared, RunIds
  <1>7. ASSUME NEW b \in Accounts, NEW q \in RunIds
        PROVE  RunRecord(b, q)' = IF b = A /\ q = job.run THEN "out" ELSE RunRecord(b, q)
    BY <1>1, <1>3, <1>5, IdleJob DEF RunRecord, Prepared, SameLaunch, RunIds
  <1>8. LiveRun(A) = 0
    BY <1>1 DEF LiveIsHeld, RunIds
  <1>9. CASE os = "alive"
    <2>1. ASSUME NEW b \in Accounts
          PROVE  LiveRun(b)' = IF b = A THEN job.run ELSE LiveRun(b)
      <3>1. \A q \in RunIds : LiveRun(b)' = q <=> (b = A /\ q = job.run) \/ LiveRun(b) = q
        BY <1>4, <1>9 DEF LiveIsHeld
      <3> QED  BY <1>1, <1>8, <3>1 DEF LiveIsHeld, RunIds
    <2> QED  BY <1>1, <1>6, <1>7, <1>8, <2>1, Starting
  <1>10. CASE os = "killed"
    <2>1. SameLives
      BY <1>1, <1>4, <1>8, <1>10 DEF SameLives, LiveIsHeld, RunIds
    <2>2. SameChildren
      BY <2>1, LivesSame
    <2> QED  BY <1>1, <1>6, <1>7, <2>2, Abandoning
  <1> QED  BY <1>9, <1>10

LEMMA DieFollows ==
    ASSUME Die, LiveIsHeld'
    PROVE  Ledger!Next
  <1>1. /\ job' = NoJob /\ runs' = runs
        /\ \A a \in Accounts, r \in RunIds : proc'[a][r].os # "alive"
    BY DEF Die, NoProc, db
  <1>2. \A a \in Accounts : LiveRun(a)' = 0
    BY <1>1 DEF LiveIsHeld
  <1>3. ASSUME NEW b \in Accounts, NEW q \in RunIds
        PROVE  RunRecord(b, q)' = IF RunRecord(b, q) = "prepared" THEN "out" ELSE RunRecord(b, q)
    BY <1>1, IdleJob DEF RunRecord, Prepared, RunIds
  <1> QED  BY <1>2, <1>3, Losing

LEMMA BootFollows ==
    ASSUME Owning, LiveIsHeld, LiveIsHeld', Boot
    PROVE  Ledger!Next
  <1>1. phase = "down" /\ UNCHANGED proc
    BY DEF Boot
  <1>2. \A a \in Accounts : LiveRun(a) = 0
    BY <1>1 DEF LiveIsHeld, Owning, Ownership, Held, DownOwnsNothing, RunIds
  <1>3. \A a \in Accounts, r \in RunIds : ~runs'[a][r].open
    <2>1. runs' = [a \in Accounts |-> [r \in RunIds |-> IF r \in OpenRuns(a) THEN NoRun ELSE runs[a][r]]]
      BY DEF Boot
    <2>2. \A a \in Accounts, r \in RunIds : runs[a][r].open \in BOOLEAN
      BY DEF Owning, Typed, TypeOK, RunRow
    <2> QED  BY <2>1, <2>2 DEF OpenRuns, NoRun
  <1>4. \A a \in Accounts, r \in RunIds : RunRecord(a, r)' = "closed" /\ LiveRun(a) # r
    BY <1>2, <1>3 DEF RunRecord, RunIds
  <1> QED  BY <1>1, <1>4, SameProc, LivesSame, Closing

-----------------------------------------------------------------------------
LEMMA NextFollows ==
    ASSUME Owning, LiveIsHeld, LiveIsHeld', [Next]_vars
    PROVE  Ledger!Next
  <1> USE OrderlyFollows
  <1>1. CASE Launching
    BY <1>1, LaunchFlushOwns, SettleTidyOwns, SettleOwns, LaunchFollows, LaunchRefusedOwns, NoSpawnOwns,
       SpawnOwns, SpawnFollows, SpawnTidyOwns, LaunchFailedOwns, RecoveryFailedOwns DEF Launching
  <1>2. CASE Stopping
    BY <1>2, StopFindsDeadOwns, StopBeginsOwns, TerminateOwns, StopFailsOwns, StopDoneOwns DEF Stopping
  <1>3. CASE Looping
    BY <1>3, BootFollows, FlushOwns, TurnOwns, DieFollows DEF Looping, ShutdownEnds
  <1> QED  BY <1>1, <1>2, <1>3, CommandsOwn, VisitingOwns, OutsideOwns, TurnOwns, DieFollows
           DEF Next, Worker, Crash

LEMMA InitFollows == Init => Ledger!Init
  <1> SUFFICES ASSUME Init PROVE Ledger!Init
    OBVIOUS
  <1>1. \A a \in Accounts, r \in RunIds : RunRecord(a, r) = "closed"
    BY DEF Init, NoRun, RunRecord
  <1>2. \A a \in Accounts : LiveRun(a) = 0
    BY DEF Init, NoProc, LiveRun
  <1> QED  BY <1>1, <1>2 DEF Ledger!Init, Ledger!Runs, RunIds

(* The supervisor keeps what RunLedger promises, whichever spawn, signal, write *)
(* or worker fails: a run is recorded before its process exists, is launched at *)
(* most once and is closed only when its process is gone, no account ever has   *)
(* two processes, and none outlives the worker (start_account, stop_account,    *)
(* check_health and _finalize_or_remember together).                            *)
THEOREM SupervisorFollowsLedger == Spec => FollowsLedger
  <1>1. Init => Ledger!Init
    BY InitFollows
  <1>2. Owning /\ LiveIsHeld /\ LiveIsHeld' /\ [Next]_vars => [Ledger!Next]_Ledger!vars
    BY NextFollows
  <1>3. Owning => LiveIsHeld
    BY OwningLive
  <1> QED  BY <1>1, <1>2, <1>3, AlwaysOwning, PTL DEF Spec, FollowsLedger, Ledger!Spec

-----------------------------------------------------------------------------
(* MinerSupervisor implements CommandQueue                                   *)
(*                                                                           *)
(* Filed says how handles, the job and the table of commands fit together.   *)
(* A step of the table (Advances) makes no row queued or leased that was not *)
(* so; most steps finish at most one row, that of the job or of a handle.    *)

(* A handle waits for a command of its own account that has been leased. *)
HandlesWait ==
    \A a \in Accounts :
        /\ handle[a].run = 0 => handle[a].cmd = 0
        /\ handle[a].cmd # 0 =>
             /\ handle[a].cmd \in Queue!Ids
             /\ cmds[handle[a].cmd].acct = a
             /\ cmds[handle[a].cmd].action # "stop"
             /\ cmds[handle[a].cmd].status # "queued"

(* The job carries out its command, or fails the command of the child that gave *)
(* up its login.                                                                *)
JobWorks ==
    job.cmd # 0 =>
        /\ job.cmd \in Queue!Ids
        /\ cmds[job.cmd].acct = job.a
        /\ cmds[job.cmd].status # "queued"
        /\ job.op # "authfail" => cmds[job.cmd].action = job.op
        /\ job.op = "authfail" => cmds[job.cmd].action # "stop"

Stops == {"stop1", "stop2", "stop3"}

(* What the step of the job tells of its command, its run and the handle. *)
StepFiled ==
    /\ job.step = "check" => job.cmd # 0
    /\ job.step = "fallback" => job.cmd = 0
    /\ \/ job.step \in {"spawn", "tidy"}
       \/ job.op \in {"restart", "authenticate"} /\ job.step \in Stops
       => job.run # 0
    /\ job.op = "authfail" /\ job.step \in {"stop1", "stop2"} =>
          handle[job.a].cmd = job.cmd /\ handle[job.a].planned # "none"
    /\ job.cmd # 0 /\ handle[job.a].cmd = job.cmd =>
          job.op = "authfail" \/ job.step \in {"tidy", "failed"}
    /\ job.run # 0 /\ handle[job.a].run = job.run => handle[job.a].cmd = job.cmd
    /\ job.step = "stop2" =>
          \/ handle[job.a].cmd \in {0, job.cmd}
          \/ cmds[handle[job.a].cmd].status # "leased"

Filed == HandlesWait /\ JobWorks /\ StepFiled
Filing == Owning /\ Filed

(* No row becomes queued or leased, and none is forgotten. *)
Advances ==
    /\ Len(cmds) <= Len(cmds')
    /\ \A i \in Queue!Ids :
         /\ cmds'[i].acct = cmds[i].acct /\ cmds'[i].action = cmds[i].action
         /\ cmds'[i].status = "queued" => cmds[i].status = "queued"
         /\ cmds'[i].status = "leased" => cmds[i].status = "leased"

Follows == [Queue!Next]_Queue!vars

LEMMA Table ==
    ASSUME Typed
    PROVE  /\ cmds \in Seq(Queue!Command) /\ Len(cmds) \in Nat
           /\ \A i \in Queue!Ids : cmds[i] \in Queue!Command /\ i # 0
           /\ cmds = [i \in 1..Len(cmds) |-> cmds[i]]
  BY DEF Typed, TypeOK, Queue!Ids

LEMMA FinishedRow ==
    ASSUME Typed, NEW i, NEW status \in Queue!Terminal
    PROVE  /\ Finished(cmds, i, status) = Queue!Mark(cmds, {i} \cap Queue!Leased, status)
           /\ Finished(cmds, i, status) \in Seq(Queue!Command)
           /\ Len(Finished(cmds, i, status)) = Len(cmds)
           /\ i \notin Queue!Leased => Finished(cmds, i, status) = cmds
           /\ \A j \in Queue!Ids :
                /\ j # i => Finished(cmds, i, status)[j] = cmds[j]
                /\ Finished(cmds, i, status)[j].acct = cmds[j].acct
                /\ Finished(cmds, i, status)[j].action = cmds[j].action
                /\ Finished(cmds, i, status)[j].status \in {cmds[j].status, status}
                /\ j = i => Finished(cmds, i, status)[j].status # "leased"
  <1>1. status \in Queue!Statuses /\ status \notin {"queued", "leased"}
    BY DEF Queue!Statuses, Queue!Terminal
  <1>2. /\ Finished(cmds, i, status) \in Seq(Queue!Command)
        /\ Len(Finished(cmds, i, status)) = Len(cmds)
    BY <1>1, Table, FinishedType
  <1>3. Finished(cmds, i, status) = Queue!Mark(cmds, {i} \cap Queue!Leased, status)
    BY DEF Finished, Queue!Mark, Queue!Leased, Queue!Ids
  <1>4. i \notin Queue!Leased => Finished(cmds, i, status) = cmds
    BY Table DEF Finished, Queue!Leased, Queue!Ids
  <1>5. ASSUME NEW j \in Queue!Ids
        PROVE  /\ j # i => Finished(cmds, i, status)[j] = cmds[j]
               /\ Finished(cmds, i, status)[j].acct = cmds[j].acct
               /\ Finished(cmds, i, status)[j].action = cmds[j].action
               /\ Finished(cmds, i, status)[j].status \in {cmds[j].status, status}
               /\ j = i => Finished(cmds, i, status)[j].status # "leased"
    <2>1. cmds[j] \in Queue!Command
      BY Table
    <2> QED  BY <1>1, <2>1 DEF Finished, Queue!Ids, Queue!Command
  <1> QED  BY <1>2, <1>3, <1>4, <1>5

LEMMA FinishAdvances ==
    ASSUME Typed, NEW i, NEW status \in Queue!Terminal, cmds' = Finished(cmds, i, status)
    PROVE  Advances
  <1>1. Len(cmds') = Len(cmds) /\ Len(cmds) \in Nat
    BY FinishedRow, Table
  <1>2. \A j \in Queue!Ids : /\ cmds'[j].acct = cmds[j].acct
                              /\ cmds'[j].action = cmds[j].action
                              /\ cmds'[j].status \in {cmds[j].status, status}
    BY FinishedRow
  <1> QED  BY <1>1, <1>2 DEF Advances, Queue!Terminal

LEMMA FinishNone ==
    ASSUME Typed, NEW status \in Queue!Terminal
    PROVE  Finished(cmds, 0, status) = cmds /\ 0 \notin Queue!Leased
  <1>1. 0 \notin Queue!Leased
    BY Table DEF Queue!Leased
  <1> QED  BY <1>1, FinishedRow

LEMMA SameAdvances ==
    ASSUME Typed, cmds' = cmds
    PROVE  Advances
  BY Table DEF Advances

-----------------------------------------------------------------------------
(* The queue sees handles and the job only through Hand, Checked, Attached. *)

SameCommand(a) ==
    /\ handle'[a].cmd = handle[a].cmd /\ handle'[a].run = handle[a].run
    /\ handle[a].planned # "none" => handle'[a].planned # "none"

SameCommands == \A a \in Accounts : SameCommand(a)

(* The handle of a is dropped, or its command is. *)
Releases(a) ==
    /\ \A b \in Accounts \ {a} : SameCommand(b)
    /\ handle'[a].cmd = 0

(* The handle of a takes the command of the job. *)
Takes(a) ==
    /\ \A b \in Accounts \ {a} : SameCommand(b)
    /\ handle'[a].cmd = job.cmd

(* Nothing happens to commands. *)
LEMMA Unseen ==
    ASSUME cmds' = cmds, desired' = desired, SameLife, job'.cmd = job.cmd,
           job.cmd # 0 => (job'.step = "check" <=> job.step = "check"),
           \A a \in Accounts : \/ handle'[a].cmd = handle[a].cmd
                               \/ {handle'[a].cmd, handle[a].cmd} \subseteq {0, job.cmd}
    PROVE  Follows
  <1>1. Attached' = Attached
    BY DEF Attached
  <1>2. Checked' = Checked /\ Hand' = Hand
    BY DEF Checked, Hand
  <1>3. UNCHANGED Queue!vars
    BY <1>1, <1>2 DEF Queue!vars, SameLife
  <1> QED  BY <1>3 DEF Follows

(* The job is done with its command. *)
LEMMA Returned ==
    ASSUME Typed, Filed, NEW status \in {"succeeded", "failed"},
           job.step \notin {"idle", "check"},
           cmds' = Finished(cmds, job.cmd, status),
           desired' = desired, SameLife, SameCommands, job'.cmd = 0
    PROVE  Follows
  <1>0. status \in Queue!Terminal
    BY DEF Queue!Terminal
  <1>1. CASE job.cmd = 0
    <2>1. cmds' = cmds
      BY <1>0, <1>1, FinishNone
    <2> QED  BY <1>1, <2>1, Unseen DEF SameCommands, SameCommand
  <1>2. CASE job.cmd # 0
    <2>1. Hand # 0 /\ Checked /\ Hand' = 0 /\ Checked' = FALSE
      BY <1>2 DEF Hand, Checked
    <2>2. Queue!Finish({Hand}, status)
      BY <1>0, FinishedRow DEF Queue!Finish, Hand
    <2>3. Attached' \in {Attached, Attached \cup {Hand}}
      <3>1. CASE \E a \in Accounts : handle[a].cmd = job.cmd
        <4>1. Attached' = Attached \cup {Hand}
          BY <1>2, <3>1 DEF Attached, Hand, SameCommands, SameCommand
        <4> QED  BY <4>1
      <3>2. CASE ~\E a \in Accounts : handle[a].cmd = job.cmd
        <4>1. Attached' = Attached
          BY <1>2, <3>2 DEF Attached, SameCommands, SameCommand
        <4> QED  BY <4>1
      <3> QED  BY <3>1, <3>2
    <2>4. phase # "down" /\ (phase' # "down") = (phase # "down")
      BY Working DEF SameLife, Typed
    <2>5. Queue!Complete(status)
      BY <2>1, <2>2, <2>3, <2>4 DEF Queue!Complete
    <2> QED  BY <2>5 DEF Follows, Queue!Next, Queue!Work
  <1> QED  BY <1>1, <1>2

(* The handle of a lets go of its command, which is finished. *)
LEMMA Released ==
    ASSUME Typed, Filed, NEW a \in Accounts, NEW status \in {"cancelled", "failed", "succeeded"},
           cmds' = Finished(cmds, handle[a].cmd, status),
           job.cmd # 0 /\ handle[a].cmd = job.cmd => status = "failed" /\ job.step # "check",
           desired' = desired, SameLife, phase # "down", Releases(a), job'.cmd = job.cmd,
           job.cmd # 0 => (job'.step = "check" <=> job.step = "check")
    PROVE  Follows
  <1> DEFINE i == handle[a].cmd
  <1>0. status \in Queue!Terminal
    BY DEF Queue!Terminal
  <1>1. CASE i = 0
    <2>1. cmds' = cmds
      BY <1>0, <1>1, FinishNone
    <2> QED  BY <1>1, <2>1, Unseen DEF Releases, SameCommand
  <1>2. i # 0 => i \in Queue!Ids /\ (\A b \in Accounts \ {a} : handle[b].cmd # i)
    BY DEF Filed, HandlesWait
  <1>3. Queue!Finish({i}, status)
    BY <1>0, FinishedRow DEF Queue!Finish
  <1>4. Hand' = Hand /\ Checked' = Checked /\ (phase' # "down") = (phase # "down")
    BY DEF Hand, Checked, SameLife
  <1>5. CASE i # 0 /\ i = job.cmd
    <2>1. Attached' = Attached
      BY <1>5 DEF Attached, Releases, SameCommand
    <2>2. Queue!FinishEarly(i, status)
      BY <1>3, <1>4, <1>5, <2>1 DEF Queue!FinishEarly, Hand, Checked
    <2> QED  BY <1>2, <1>5, <2>2 DEF Follows, Queue!Next, Queue!Work
  <1>6. CASE i # 0 /\ i # job.cmd
    <2>1. i \in Attached /\ Attached' = Attached \ {i}
      BY <1>2, <1>6 DEF Attached, Releases, SameCommand
    <2>2. Queue!Resolve(i, status)
      BY <1>0, <1>3, <1>4, <2>1 DEF Queue!Resolve
    <2> QED  BY <1>0, <1>2, <1>6, <2>2 DEF Follows, Queue!Next, Queue!Work
  <1> QED  BY <1>1, <1>5, <1>6

(* The command of a handle is finished while the handle still has it. *)
LEMMA EndedEarly ==
    ASSUME Typed, Filed, NEW a \in Accounts, handle[a].cmd # job.cmd,
           cmds' = Finished(cmds, handle[a].cmd, "cancelled"),
           desired' = desired, SameLife, phase # "down", SameCommands, job'.cmd = job.cmd,
           job.cmd # 0 => (job'.step = "check" <=> job.step = "check")
    PROVE  Follows
  <1> DEFINE i == handle[a].cmd
  <1>0. "cancelled" \in Queue!Terminal
    BY DEF Queue!Terminal
  <1>1. CASE i = 0
    <2>1. cmds' = cmds
      BY <1>0, <1>1, FinishNone
    <2> QED  BY <2>1, Unseen DEF SameCommands, SameCommand
  <1>2. CASE i # 0
    <2>1. i \in Queue!Ids /\ Queue!Finish({i}, "cancelled")
      BY <1>2, FinishedRow DEF Queue!Finish, Queue!Terminal, Filed, HandlesWait
    <2>2. Hand' = Hand /\ Checked' = Checked /\ (phase' # "down") = (phase # "down")
      BY DEF Hand, Checked, SameLife
    <2>3. Attached' = Attached /\ i \in Attached
      BY <1>2 DEF Attached, SameCommands, SameCommand
    <2>4. Queue!FinishEarly(i, "cancelled")
      BY <1>2, <2>1, <2>2, <2>3 DEF Queue!FinishEarly, Hand
    <2> QED  BY <2>1, <2>4 DEF Follows, Queue!Next, Queue!Work
  <1> QED  BY <1>1, <1>2

(* The job leaves its command to the child of its account, which takes the place *)
(* of an earlier command.                                                        *)
LEMMA LeftToChild ==
    ASSUME Typed, Filed, job.step \notin {"idle", "check"}, job.op # "stop", A \in Accounts, A = job.a,
           desired' = desired, SameLife, Takes(A), job'.cmd = 0,
           \/ cmds' = Finished(cmds, handle[A].cmd, "cancelled") /\ handle[A].cmd # job.cmd
           \/ cmds' = cmds /\ handle[A].cmd \in {0, job.cmd}
    PROVE  Follows
  <1>0. phase # "down" /\ (phase' # "down") = (phase # "down")
    BY Working DEF SameLife, Typed
  <1>1. CASE job.cmd = 0
    <2>1. CASE cmds' = cmds /\ handle[A].cmd = 0
      BY <1>1, <2>1, Unseen DEF Takes, SameCommand
    <2>2. CASE cmds' = Finished(cmds, handle[A].cmd, "cancelled")
      BY <1>0, <1>1, <2>2, Released DEF Takes, SameCommand, Releases
    <2> QED  BY <1>1, <2>1, <2>2
  <1>2. CASE job.cmd # 0
    <2> DEFINE old == {i \in Attached : cmds[i].acct = cmds[Hand].acct}
    <2>1. Hand # 0 /\ Checked /\ Hand' = 0 /\ Checked' = FALSE
      BY <1>2 DEF Hand, Checked
    <2>2. cmds[Hand].acct = A /\ cmds[Hand].action # "stop"
      BY <1>2 DEF Filed, JobWorks, Hand
    <2>3. old = {handle[A].cmd} \ {0, job.cmd}
      BY <2>2 DEF Attached, Filed, HandlesWait
    <2>4. Queue!Finish(old, "cancelled")
      <3>1. CASE handle[A].cmd \in {0, job.cmd} /\ cmds' = cmds
        <4>1. Finished(cmds, 0, "cancelled") = cmds /\ 0 \notin Queue!Leased
          BY FinishNone DEF Queue!Terminal
        <4>2. cmds = Queue!Mark(cmds, {0} \cap Queue!Leased, "cancelled")
          BY <4>1, FinishedRow DEF Queue!Terminal
        <4>3. {0} \cap Queue!Leased = {} /\ old \cap Queue!Leased = {}
          BY <2>3, <3>1, <4>1
        <4> QED  BY <3>1, <4>2, <4>3 DEF Queue!Finish
      <3>2. CASE cmds' = Finished(cmds, handle[A].cmd, "cancelled") /\ handle[A].cmd # job.cmd
        <4>1. cmds' = Queue!Mark(cmds, {handle[A].cmd} \cap Queue!Leased, "cancelled")
          BY <3>2, FinishedRow DEF Queue!Terminal
        <4>2. {handle[A].cmd} \cap Queue!Leased = old \cap Queue!Leased
          BY <2>3, <3>2 DEF Queue!Leased, Queue!Ids
        <4> QED  BY <4>1, <4>2 DEF Queue!Finish
      <3> QED  BY <3>1, <3>2
    <2>5. Attached' = (Attached \ old) \cup {Hand}
      <3>1. \A b \in Accounts \ {A} : handle[b].cmd # job.cmd /\ (handle[b].cmd # 0 => handle[b].cmd # handle[A].cmd)
        BY <1>2, <2>2 DEF Filed, HandlesWait, Hand
      <3> QED  BY <1>2, <2>3, <3>1 DEF Attached, Takes, SameCommand, Hand
    <2>6. Queue!Attach
      BY <1>0, <2>1, <2>2, <2>4, <2>5 DEF Queue!Attach
    <2> QED  BY <2>6 DEF Follows, Queue!Next, Queue!Work
  <1> QED  BY <1>1, <1>2

-----------------------------------------------------------------------------
(* How Filed is kept. *)

(* A handle keeps its command, drops it, or takes that of the job. *)
HandsOn ==
    \A a \in Accounts :
        \/ handle'[a].cmd = 0
        \/ handle'[a].run # 0 /\ handle'[a].cmd = handle[a].cmd
        \/ handle'[a].run # 0 /\ handle'[a].cmd = job.cmd /\ job.a = a /\ cmds[job.cmd].action # "stop"

SameWork == job'.cmd = job.cmd /\ job'.a = job.a /\ job'.op = job.op

(* No job, or one that has neither command nor run. *)
Fresh ==
    /\ job'.cmd = 0 /\ job'.run = 0 /\ job'.op # "authfail"
    /\ job'.step \notin {"check", "stop2", "spawn", "tidy"}
    /\ job'.op \in {"restart", "authenticate"} => job'.step \notin Stops

LEMMA SameHandsOn ==
    ASSUME Filed, SameCommands
    PROVE  HandsOn
  BY DEF Filed, HandlesWait, SameCommands, SameCommand, HandsOn

LEMMA ReleasedHandsOn ==
    ASSUME Filed, NEW a \in Accounts, Releases(a)
    PROVE  HandsOn
  BY DEF Filed, HandlesWait, Releases, SameCommand, HandsOn

LEMMA RowsStay ==
    ASSUME Typed, Advances, NEW i \in Queue!Ids
    PROVE  i \in Queue!Ids'
  BY Table DEF Advances, Queue!Ids

LEMMA HandlesFiled ==
    ASSUME Typed, Filed, Advances, HandsOn
    PROVE  HandlesWait'
  <1> SUFFICES ASSUME NEW a \in Accounts
               PROVE  /\ handle'[a].run = 0 => handle'[a].cmd = 0
                      /\ handle'[a].cmd # 0 =>
                           /\ handle'[a].cmd \in Queue!Ids'
                           /\ cmds'[handle'[a].cmd].acct = a
                           /\ cmds'[handle'[a].cmd].action # "stop"
                           /\ cmds'[handle'[a].cmd].status # "queued"
    BY DEF HandlesWait
  <1>1. CASE handle'[a].cmd = 0
    BY <1>1
  <1>2. CASE handle'[a].run # 0 /\ handle'[a].cmd = handle[a].cmd
    BY <1>2, RowsStay DEF Filed, HandlesWait, Advances
  <1>3. CASE /\ handle'[a].run # 0 /\ handle'[a].cmd = job.cmd /\ job.a = a
             /\ cmds[job.cmd].action # "stop"
    BY <1>3, RowsStay DEF Filed, JobWorks, Advances
  <1> QED  BY <1>1, <1>2, <1>3 DEF HandsOn

LEMMA WorkFiled ==
    ASSUME Typed, Filed, Advances, SameWork \/ job'.cmd = 0
    PROVE  JobWorks'
  BY RowsStay DEF Filed, JobWorks, Advances, SameWork

LEMMA FreshFiled ==
    ASSUME Typed, Filed, Advances, HandsOn, Fresh
    PROVE  Filed'
  <1>1. HandlesWait' /\ JobWorks'
    BY HandlesFiled, WorkFiled DEF Fresh
  <1>2. StepFiled'
    BY DEF StepFiled, Fresh
  <1> QED  BY <1>1, <1>2 DEF Filed

LEMMA StepsFiled ==
    ASSUME Typed, Filed, Advances, HandsOn, SameWork, StepFiled'
    PROVE  Filed'
  BY HandlesFiled, WorkFiled DEF Filed

LEMMA SameJobFiled ==
    ASSUME Typed, Filed, Advances, SameCommands, job' = job
    PROVE  Filed'
  <1>1. HandsOn /\ SameWork
    BY SameHandsOn DEF SameWork
  <1>2. StepFiled'
    <2>1. CASE job = NoJob
      BY <2>1 DEF StepFiled, NoJob, NewJob
    <2>2. CASE job # NoJob
      <3>1. job.a \in Accounts
        BY <2>2 DEF Typed, TypeOK, JobRow
      <3>2. handle'[job.a].cmd # 0 /\ cmds'[handle'[job.a].cmd].status = "leased" =>
              cmds[handle'[job.a].cmd].status = "leased"
        BY <3>1 DEF SameCommands, SameCommand, Advances, Filed, HandlesWait
      <3> QED  BY <3>1, <3>2 DEF Filed, StepFiled, SameCommands, SameCommand
    <2> QED  BY <2>1, <2>2
  <1> QED  BY <1>1, <1>2, StepsFiled

LEMMA NoJobFresh ==
    ASSUME job' = NoJob
    PROVE  Fresh
  BY DEF Fresh, NoJob, NewJob

LEMMA ReturnFresh ==
    ASSUME NEW status, Return(status)
    PROVE  Fresh
  BY NoJobFresh DEF Return, Fresh, NewJob, Stops

(* Steps that leave commands, handles and the job alone. *)
LEMMA Unmoved ==
    ASSUME Filing, cmds' = cmds, desired' = desired, SameLife, SameCommands, job' = job
    PROVE  Filed' /\ Follows
  BY SameAdvances, SameJobFiled, Unseen DEF Filing, Owning, SameCommands, SameCommand

(* A field of a handle changes that is none of these. *)
LEMMA HandleSet ==
    ASSUME Typed, NEW a \in Accounts, NEW h, handle' = [handle EXCEPT ![a] = h],
           h.cmd = handle[a].cmd, h.run = handle[a].run,
           handle[a].planned # "none" => h.planned # "none"
    PROVE  SameCommands
  BY DEF SameCommands, SameCommand, Typed, TypeOK

LEMMA HandleSame ==
    ASSUME handle' = handle
    PROVE  SameCommands
  BY DEF SameCommands, SameCommand

LEMMA ForgetReleases ==
    ASSUME Typed, NEW a \in Accounts, Forget(a)
    PROVE  Releases(a) /\ handle'[a].run = 0
  BY DEF Forget, Releases, SameCommand, NoHandle, HandleOf, Typed, TypeOK

LEMMA StepKeeps ==
    ASSUME Typed, job.step # "idle", NEW name, Step(name)
    PROVE  SameWork /\ job'.step = name /\ job'.run = job.run /\ job'.cmd = job.cmd
  <1>1. job \in JobRow
    BY AtStep DEF Typed
  <1> QED  BY <1>1 DEF Step, JobRow, SameWork

(* The command of the job is not that of the child of another account. *)
LEMMA OthersWait ==
    ASSUME Filed, job.cmd # 0, NEW a \in Accounts, a # job.a
    PROVE  handle[a].cmd # job.cmd
  BY DEF Filed, HandlesWait, JobWorks

-----------------------------------------------------------------------------
(* The web process and the command loop *)

LEMMA TableAdvances ==
    ASSUME Typed, NEW a \in Accounts, NEW action \in Queue!Actions, cmds' = Queue!NewTable(a, action)
    PROVE  Advances
  <1> DEFINE kept == Queue!Mark(cmds, Queue!Obsolete(a, action), "cancelled")
             row  == [acct |-> a, action |-> action, status |-> "queued"]
  <1>1. kept \in Seq(Queue!Command) /\ Len(kept) = Len(cmds) /\ row \in Queue!Command
    BY Table, MarkType DEF Queue!Statuses, Queue!Terminal, Queue!Command
  <1>2. \A i \in Queue!Ids : /\ kept[i].acct = cmds[i].acct /\ kept[i].action = cmds[i].action
                              /\ kept[i].status \in {cmds[i].status, "cancelled"}
    BY Table DEF Queue!Mark, Queue!Ids, Queue!Command
  <1>3. \/ cmds' = cmds
        \/ cmds' = kept
        \/ cmds' = Append(kept, row)
    BY DEF Queue!NewTable
  <1> HIDE DEF kept, row
  <1>4. CASE cmds' = cmds
    BY <1>4, SameAdvances
  <1>5. CASE cmds' = kept
    BY <1>1, <1>2, <1>5, Table DEF Advances
  <1>6. CASE cmds' = Append(kept, row)
    <2>1. Len(cmds') = Len(cmds) + 1 /\ \A i \in Queue!Ids : cmds'[i] = kept[i]
      BY <1>1, <1>6, Table DEF Queue!Ids
    <2> QED  BY <1>2, <2>1, Table DEF Advances
  <1> QED  BY <1>3, <1>4, <1>5, <1>6

LEMMA WebsiteFiles ==
    ASSUME Filing, Website
    PROVE  Filed' /\ Follows
  <1>1. Typed /\ Filed /\ job' = job /\ handle' = handle /\ phase' = phase
    BY DEF Filing, Owning, Website, Request, ChangeConfig, mem
  <1>2. Hand' = Hand /\ Checked' = Checked /\ Attached' = Attached
    BY <1>1 DEF Hand, Checked, Attached
  <1>3. ASSUME NEW a \in Accounts, NEW action \in Queue!Actions,
               cmds' = Queue!NewTable(a, action),
               desired' = [desired EXCEPT ![a] = Queue!Wanted(action)],
               \/ Len(cmds) < MaxCommands
               \/ Queue!Stronger(a, action)
               \/ Queue!Repeated(a, action)
        PROVE  Filed' /\ Follows
    <2>1. Filed'
      BY <1>1, <1>3, TableAdvances, SameJobFiled, HandleSame
    <2>2. Queue!Enqueue(a, action)
      BY <1>1, <1>2, <1>3 DEF Queue!Enqueue
    <2> QED  BY <2>1, <2>2 DEF Follows, Queue!Next
  <1>4. ASSUME NEW a \in Accounts, NEW action \in Queue!Actions, Request(a, action)
        PROVE  Filed' /\ Follows
    BY <1>3, <1>4 DEF Request
  <1>5. ASSUME NEW a \in Accounts, NEW c \in Configs, ChangeConfig(a, c)
        PROVE  Filed' /\ Follows
    <2>1. CASE desired[a] = "running"
      <3>1. desired' = [desired EXCEPT ![a] = Queue!Wanted("restart")]
        BY <1>1, <1>5, <2>1 DEF ChangeConfig, Queue!Wanted, Typed, TypeOK
      <3>2. "restart" \in Queue!Actions
        BY DEF Queue!Actions
      <3> QED  BY <1>3, <1>5, <2>1, <3>1, <3>2 DEF ChangeConfig
    <2>2. CASE desired[a] # "running"
      BY <1>1, <1>5, <2>2, Unmoved, HandleSame DEF ChangeConfig, SameLife
    <2> QED  BY <2>1, <2>2
  <1> QED  BY <1>4, <1>5 DEF Website

LEMMA LeaseFiles ==
    ASSUME Filing, LeaseNext
    PROVE  Filed' /\ Follows
  <1>1. /\ Typed /\ Filed /\ job = NoJob /\ phase # "down" /\ SameLife
        /\ handle' = handle /\ desired' = desired
    BY DEF Filing, Owning, LeaseNext, Idle, SamePhase, SameLife
  <1>2. PICK i \in Queue!Queued :
             /\ \A j \in Queue!Queued : i <= j
             /\ cmds' = Queue!Mark(cmds, {i}, "leased")
             /\ job' = [NewJob(cmds[i].action, "check", cmds[i].acct) EXCEPT !.cmd = i]
    BY DEF LeaseNext
  <1>3. /\ job'.cmd = i /\ job'.step = "check" /\ job'.op = cmds[i].action
        /\ job'.a = cmds[i].acct /\ job'.run = 0
    BY <1>2 DEF NewJob
  <1>4. i \in Queue!Ids /\ cmds[i].status = "queued" /\ i # 0 /\ cmds[i] \in Queue!Command
    BY Table, <1>1 DEF Queue!Queued
  <1>5. \A a \in Accounts : handle[a].cmd # i
    BY <1>1, <1>4 DEF Filed, HandlesWait
  <1>6. /\ Len(cmds') = Len(cmds) /\ cmds'[i] = [cmds[i] EXCEPT !.status = "leased"]
        /\ \A j \in Queue!Ids \ {i} : cmds'[j] = cmds[j]
    BY <1>1, <1>2, <1>4, Table, MarkType DEF Queue!Mark, Queue!Ids, Queue!Statuses
  <1>7. HandlesWait'
    BY <1>1, <1>5, <1>6 DEF HandlesWait, Filed, Queue!Ids
  <1>8. JobWorks'
    <2>0. i \in Queue!Ids'
      BY <1>4, <1>6 DEF Queue!Ids
    <2>1. cmds'[i] = [cmds[i] EXCEPT !.status = "leased"]
      BY <1>6
    <2>2. /\ cmds'[i].acct = cmds[i].acct /\ cmds'[i].action = cmds[i].action
          /\ cmds'[i].status = "leased" /\ cmds[i].action # "authfail"
      BY <1>4, <2>1 DEF Queue!Command, Queue!Actions
    <2> QED  BY <1>3, <2>0, <2>2 DEF JobWorks
  <1>9. StepFiled'
    <2>1. cmds[i].acct \in Accounts
      BY <1>4 DEF Queue!Command
    <2> QED  BY <1>1, <1>3, <1>4, <1>5, <2>1 DEF StepFiled, Stops, Queue!Command, Queue!Actions
  <1>10. Queue!Lease(i)
    <2>1. Hand = 0 /\ Hand' = i /\ Checked' = FALSE
      BY <1>1, <1>3, BlankRows DEF Hand, Checked
    <2>2. Attached' = Attached
      BY <1>1, <1>3, <1>5, <2>1 DEF Attached, Hand
    <2> QED  BY <1>1, <1>2, <2>1, <2>2 DEF Queue!Lease, SameLife
  <1> QED  BY <1>4, <1>7, <1>8, <1>9, <1>10 DEF Filed, Follows, Queue!Next, Queue!Work

LEMMA AtCheck ==
    ASSUME Filing, job.step = "check"
    PROVE  /\ Typed /\ Filed /\ job.step # "idle" /\ job.cmd # 0 /\ phase # "down"
           /\ Hand = job.cmd /\ ~Checked
           /\ job.op \in {"start", "stop", "restart", "authenticate"}
           /\ \A a \in Accounts : handle[a].cmd # job.cmd
           /\ job.a \in Accounts /\ cmds[job.cmd].acct = job.a /\ job.run = 0
  <1>1. /\ Typed /\ Filed /\ job.run = 0 /\ job.cmd # 0 /\ phase # "down" /\ job.a \in Accounts
        /\ job.op \in {"start", "stop", "restart", "authenticate"}
    BY Working, AtStep DEF Filing, Owning, Typed, Filed, StepFiled, OpsAt, Carries
  <1>2. handle[job.a].cmd # job.cmd
    BY <1>1 DEF Filed, StepFiled
  <1> QED  BY <1>1, <1>2, OthersWait DEF Hand, Checked, Filed, JobWorks

LEMMA RefuseFiles ==
    ASSUME Filing, Refuse
    PROVE  Filed' /\ Follows
  <1>1. /\ Typed /\ Filed /\ job.cmd # 0 /\ phase # "down" /\ Hand = job.cmd /\ ~Checked
        /\ \A a \in Accounts : handle[a].cmd # job.cmd
        /\ cmds[job.cmd].acct = job.a
        /\ Return("cancelled") /\ SameLife /\ handle' = handle /\ desired' = desired
    BY AtCheck DEF Refuse, SamePhase, SameLife
  <1>2. cmds' = Finished(cmds, job.cmd, "cancelled") /\ "cancelled" \in Queue!Terminal
    BY <1>1 DEF Return, Queue!Terminal
  <1>3. Fresh
    BY <1>1, ReturnFresh
  <1>4. Filed'
    BY <1>1, <1>2, <1>3, FinishAdvances, HandleSame, SameHandsOn, FreshFiled
  <1>5. Queue!Refuse
    <2>1. Queue!Finish({Hand}, "cancelled")
      BY <1>1, <1>2, FinishedRow DEF Queue!Finish
    <2>2. Hand' = 0 /\ Checked' = Checked /\ Attached' = Attached
      BY <1>1, <1>3 DEF Fresh, Hand, Checked, Attached
    <2> QED  BY <1>1, <2>1, <2>2 DEF Queue!Refuse, Refuse, StillWanted, SameLife
  <1> QED  BY <1>4, <1>5 DEF Follows, Queue!Next, Queue!Work

LEMMA AcceptFiles ==
    ASSUME Filing, Accept
    PROVE  Filed' /\ Follows
  <1> DEFINE name == CASE job.op = "start" -> "settle"
                       [] job.op = "stop" -> "stop1"
                       [] OTHER -> "launch"
  <1>1. /\ Typed /\ Filed /\ job.step # "idle" /\ job.cmd # 0 /\ phase # "down"
        /\ Hand = job.cmd /\ ~Checked
        /\ \A a \in Accounts : handle[a].cmd # job.cmd
        /\ cmds[job.cmd].acct = job.a /\ job.run = 0 /\ job.a \in Accounts
        /\ job.op \in {"start", "stop", "restart", "authenticate"}
        /\ SameLife /\ handle' = handle /\ cmds' = cmds /\ desired' = desired /\ Step(name)
    BY AtCheck DEF Accept, SamePhase, SameLife, db
  <1>2. name \in {"settle", "stop1", "launch"} /\ (name = "stop1" => job.op = "stop")
    BY <1>1
  <1> HIDE DEF name
  <1>3. SameWork /\ job'.step = name /\ job'.run = job.run /\ job'.cmd = job.cmd
    BY <1>1, StepKeeps
  <1>4. StepFiled'
    BY <1>1, <1>2, <1>3 DEF StepFiled, Filed, Stops, SameWork
  <1>5. Filed'
    BY <1>1, <1>3, <1>4, SameAdvances, HandleSame, SameHandsOn, StepsFiled
  <1>6. Queue!Begin
    <2>1. Hand' = Hand /\ Checked' = TRUE /\ Attached' = Attached
      BY <1>1, <1>2, <1>3 DEF Hand, Checked, Attached
    <2> QED  BY <1>1, <2>1 DEF Queue!Begin, Accept, StillWanted, SameLife
  <1> QED  BY <1>5, <1>6 DEF Follows, Queue!Next, Queue!Work

LEMMA FallbackFiles ==
    ASSUME Filing, Fallback
    PROVE  Filed' /\ Follows
  <1>1. /\ Typed /\ Filed /\ job.cmd = 0 /\ job' = NoJob /\ job'.cmd = 0
        /\ SameLife /\ handle' = handle /\ cmds' = cmds /\ desired' = desired
    BY BlankRows DEF Fallback, SamePhase, SameLife, Filing, Owning, Filed, StepFiled
  <1>2. Filed'
    BY <1>1, SameAdvances, HandleSame, SameHandsOn, NoJobFresh, FreshFiled
  <1> QED  BY <1>1, <1>2, Unseen

-----------------------------------------------------------------------------
(* How jobs go on and end *)

LEMMA NoCommand ==
    ASSUME Filing, job.op \notin {"start", "stop", "restart", "authenticate", "authfail"}
    PROVE  job.cmd = 0
  <1>1. job.cmd # 0 => cmds[job.cmd].action \in Queue!Actions
    BY Table DEF Filing, Owning, Filed, JobWorks, Queue!Command
  <1> QED  BY <1>1 DEF Filing, Filed, JobWorks, Queue!Actions

LEMMA ReturnFiles ==
    ASSUME Filing, NEW status \in {"succeeded", "failed"}, Return(status),
           job.step \notin {"idle", "check"}, desired' = desired, SameLife, SameCommands
    PROVE  Filed' /\ Follows
  <1>1. Typed /\ Filed /\ status \in Queue!Terminal
    BY DEF Filing, Owning, Queue!Terminal
  <1>2. cmds' = Finished(cmds, job.cmd, status) /\ Fresh
    BY ReturnFresh DEF Return
  <1>3. Filed'
    BY <1>1, <1>2, FinishAdvances, SameHandsOn, FreshFiled
  <1> QED  BY <1>1, <1>2, <1>3, Returned DEF Fresh

(* A job without a command ends or begins. *)
LEMMA FreshFiles ==
    ASSUME Filing, job.cmd = 0, cmds' = cmds, desired' = desired, SameLife, SameCommands, Fresh
    PROVE  Filed' /\ Follows
  <1>1. Typed /\ Filed /\ job'.cmd = 0
    BY DEF Filing, Owning, Fresh
  <1> QED  BY <1>1, SameAdvances, SameHandsOn, FreshFiled, Unseen DEF SameCommands, SameCommand

LEMMA StepFiles ==
    ASSUME Filing, job.step \notin {"idle", "check"}, SameWork, job'.run = job.run,
           cmds' = cmds, desired' = desired, SameLife, SameCommands,
           job'.step \in {"settle", "launch", "stop1", "stop3", "spawn", "failed"},
           job.step \in {"tidy", "failed"} => job'.step = "failed",
           job'.step = "stop1" => job.op = "start",
           \/ job'.step = "spawn"
           \/ job.op \in {"restart", "authenticate"} /\ job'.step \in Stops
           => job.run # 0
    PROVE  Filed' /\ Follows
  <1>1. Typed /\ Filed /\ job.a \in Accounts
    BY AtStep DEF Filing, Owning, Typed
  <1>2. StepFiled'
    BY <1>1 DEF Filed, StepFiled, SameWork, SameCommands, SameCommand, Stops
  <1>3. Filed'
    BY <1>1, <1>2, SameAdvances, SameHandsOn, StepsFiled
  <1> QED  BY <1>1, <1>3, Unseen DEF SameWork, SameCommands, SameCommand

LEMMA ReleaseFiles ==
    ASSUME Filing, NEW a \in Accounts, NEW status \in {"cancelled", "failed", "succeeded"},
           cmds' = Finished(cmds, handle[a].cmd, status),
           job.cmd # 0 /\ handle[a].cmd = job.cmd => status = "failed" /\ job.step # "check",
           desired' = desired, SameLife, phase # "down",
           Releases(a), handle'[a].run = 0 \/ job = NoJob,
           SameWork, job'.run = job.run,
           \/ job' = job
           \/ job.step = "settle" /\ job'.step = "launch"
           \/ job.step # "check" /\ job'.step = "failed",
           job.a = a => job.op # "authfail"
    PROVE  Filed' /\ Follows
  <1>1. Typed /\ Filed /\ status \in Queue!Terminal
    BY DEF Filing, Owning, Queue!Terminal
  <1>2. Advances
    BY <1>1, FinishAdvances
  <1>3. StepFiled'
    <2>1. CASE job = NoJob
      <3>1. job'.cmd = 0 /\ job'.run = 0 /\ job'.step # "check" /\ job'.op = "idle"
            /\ job'.step \notin {"spawn", "tidy", "fallback", "stop2"}
        BY <2>1 DEF NoJob, NewJob, SameWork
      <3> QED  BY <3>1 DEF StepFiled
    <2>2. CASE job # NoJob
      <3>1. job.a \in Accounts
        BY <1>1, <2>2 DEF Typed, TypeOK, JobRow
      <3>2. CASE job.a = a
        BY <1>1, <2>2, <3>1, <3>2 DEF Filed, StepFiled, Releases, SameCommand, SameWork, Stops
      <3>3. CASE job.a # a
        <4>1. SameCommand(job.a)
          BY <3>1, <3>3 DEF Releases
        <4>2. handle[job.a].cmd # 0 /\ cmds'[handle[job.a].cmd].status = "leased" =>
                cmds[handle[job.a].cmd].status = "leased"
          BY <1>1, <1>2, <3>1 DEF Filed, HandlesWait, Advances
        <4>3. CASE job' = job
          BY <1>1, <4>1, <4>2, <4>3 DEF Filed, StepFiled, SameCommand
        <4>4. CASE job'.step = "failed" \/ (job.step = "settle" /\ job'.step = "launch")
          BY <1>1, <4>1, <4>4 DEF Filed, StepFiled, SameCommand, SameWork, Stops
        <4> QED  BY <4>3, <4>4
      <3> QED  BY <3>2, <3>3
    <2> QED  BY <2>1, <2>2
  <1>4. Filed'
    BY <1>1, <1>2, <1>3, ReleasedHandsOn, StepsFiled
  <1> QED  BY <1>1, <1>4, Released DEF SameWork

-----------------------------------------------------------------------------
(* Launching *)

LEMMA FlushingFiles ==
    ASSUME Filing, LaunchFlush
    PROVE  Filed' /\ Follows
  <1>1. job.step \notin {"idle", "check"} /\ desired' = desired /\ SameLife /\ SameCommands
    BY HandleSame DEF LaunchFlush, SamePhase, SameLife
  <1>2. CASE UNCHANGED <<job, cmds>>
    BY <1>1, <1>2, Unmoved
  <1>3. CASE Return("failed")
    BY <1>1, <1>3, ReturnFiles
  <1> QED  BY <1>2, <1>3 DEF LaunchFlush

LEMMA StopKeeps ==
    ASSUME Typed, job.step # "idle", job' = [job EXCEPT !.step = "stop1", !.keep = TRUE]
    PROVE  SameWork /\ job'.step = "stop1" /\ job'.run = job.run
  <1>1. job \in JobRow
    BY AtStep DEF Typed
  <1> QED  BY <1>1 DEF JobRow, SameWork

LEMMA Settling ==
    ASSUME Filing, job.step = "settle"
    PROVE  /\ A \in Accounts /\ A = job.a /\ Typed /\ Filed /\ job.op = "start" /\ job.run = 0
           /\ job.step \notin {"idle", "check"} /\ phase # "down"
           /\ job.cmd # 0 => handle[A].cmd # job.cmd /\ cmds[job.cmd].action # "stop"
  <1>1. A \in Accounts /\ A = job.a /\ Typed /\ Filed /\ job.op = "start" /\ job.run = 0 /\ phase # "down"
    BY AtSettle, Working DEF Filing, OpsAt, Typed
  <1> QED  BY <1>1 DEF Filed, StepFiled, JobWorks

LEMMA SettleTidyFiles ==
    ASSUME Filing, SettleTidy
    PROVE  Filed' /\ Follows
  <1>1. /\ A \in Accounts /\ Typed /\ Filed /\ job.op = "start" /\ job.run = 0
        /\ job.step = "settle" /\ phase # "down" /\ desired' = desired /\ SameLife
    BY Settling DEF SettleTidy, SamePhase, SameLife
  <1>2. CASE TidyDone(A) /\ cmds' = Finished(cmds, handle[A].cmd, "failed") /\ job' = job
    BY <1>1, <1>2, ForgetReleases, ReleaseFiles DEF TidyDone, SameWork
  <1>3. CASE TidyFails(A) /\ Return("failed")
    BY <1>1, <1>3, ReturnFiles, HandleSame DEF TidyFails
  <1>4. CASE TidyFails(A) /\ cmds' = cmds /\ job' = [job EXCEPT !.step = "stop1", !.keep = TRUE]
    BY <1>1, <1>4, StopKeeps, StepFiles, HandleSame DEF TidyFails
  <1> QED  BY <1>2, <1>3, <1>4 DEF SettleTidy

LEMMA SettleFiles ==
    ASSUME Filing, SettleStop \/ SettleFree \/ Adopt \/ SettleDead
    PROVE  Filed' /\ Follows
  <1>1. /\ A \in Accounts /\ A = job.a /\ Typed /\ Filed /\ job.op = "start" /\ job.run = 0
        /\ job.step = "settle" /\ phase # "down" /\ desired' = desired /\ SameLife
        /\ job.cmd # 0 => handle[A].cmd # job.cmd /\ cmds[job.cmd].action # "stop"
    BY Settling DEF SettleStop, SettleFree, Adopt, SettleDead, Settled, SamePhase, SameLife
  <1>2. CASE SettleStop
    BY <1>1, <1>2, StopKeeps, StepFiles, HandleSame DEF SettleStop
  <1>3. CASE SettleFree
    BY <1>1, <1>3, StepKeeps, StepFiles, HandleSame DEF SettleFree
  <1>4. CASE Adopt /\ Return("succeeded") /\ UNCHANGED handle
    BY <1>1, <1>4, ReturnFiles, HandleSame
  <1>5. CASE Adopt /\ ~handle[A].confirmed
    <2>1. /\ cmds' = Finished(cmds, handle[A].cmd, "cancelled")
          /\ handle' = [handle EXCEPT ![A].cmd = job.cmd] /\ job' = NoJob /\ handle[A].run # 0
      BY <1>5 DEF Adopt, Alive, Owned
    <2>2. "cancelled" \in Queue!Terminal /\ Fresh
      BY <2>1, NoJobFresh DEF Queue!Terminal
    <2>3. /\ Takes(A) /\ handle'[A].run = handle[A].run
      <3>1. handle \in [Accounts -> HandleRow] /\ handle[A] \in HandleRow
        BY <1>1 DEF Typed, TypeOK
      <3> QED  BY <1>1, <2>1, <3>1 DEF Takes, SameCommand, HandleRow
    <2>4. HandsOn
      BY <1>1, <2>1, <2>3 DEF HandsOn, Takes, SameCommand, Filed, HandlesWait
    <2>5. Filed'
      BY <1>1, <2>1, <2>2, <2>4, FinishAdvances, FreshFiled
    <2>6. CASE handle[A].cmd = 0
      <3>1. cmds' = cmds
        BY <1>1, <2>1, <2>2, <2>6, FinishNone
      <3> QED  BY <1>1, <2>2, <2>3, <2>5, <2>6, <3>1, LeftToChild DEF Fresh
    <2>7. CASE handle[A].cmd # 0
      BY <1>1, <2>1, <2>2, <2>3, <2>5, <2>7, LeftToChild DEF Fresh
    <2> QED  BY <2>6, <2>7
  <1>6. CASE SettleDead /\ RecordExit(A, FALSE, FALSE) /\ Step("launch")
    <2>1. Forget(A) /\ cmds' = Finished(cmds, handle[A].cmd, "failed")
      BY <1>6 DEF RecordExit
    <2> QED  BY <1>1, <1>6, <2>1, ForgetReleases, StepKeeps, ReleaseFiles
  <1>7. CASE SettleDead /\ Return("failed") /\ UNCHANGED handle
    BY <1>1, <1>7, ReturnFiles, HandleSame
  <1> QED  BY <1>2, <1>3, <1>4, <1>5, <1>6, <1>7 DEF Adopt, SettleDead

LEMMA LaunchFiles ==
    ASSUME Filing, Launch \/ LaunchRefused
    PROVE  Filed' /\ Follows
  <1>1. /\ job.step = "launch" /\ job \in JobRow /\ A \in Accounts /\ A = job.a /\ Typed /\ Filed
        /\ job.op \in {"start", "restart", "authenticate", "recover"}
        /\ job.run = 0 /\ desired' = desired /\ handle' = handle /\ SameLife /\ SameCommands
    BY AtStep, Working, HandleSame DEF Launch, LaunchRefused, SamePhase, SameLife, Filing, Owning, Typed,
                                       OpsAt, Carries
  <1>2. CASE Launch
    <2> DEFINE r == CHOOSE x \in FreeRuns(A) : TRUE
               name == IF job.op \in {"start", "recover"} THEN "spawn" ELSE "stop1"
    <2>1. r \in FreeRuns(A)
      BY <1>2 DEF Launch
    <2>2. /\ job' = [job EXCEPT !.run = r, !.step = name, !.keep = TRUE]
          /\ cmds' = cmds
      BY <1>2 DEF Launch
    <2> HIDE DEF r
    <2>3. r # 0 /\ r # handle[A].run
      BY <2>1 DEF FreeRuns, RunIds
    <2>4. name \in {"spawn", "stop1"}
      OBVIOUS
    <2> HIDE DEF name
    <2>5. job'.run = r /\ SameWork /\ job'.step = name
      BY <1>1, <2>2 DEF JobRow, SameWork
    <2>6. StepFiled'
      BY <1>1, <2>2, <2>3, <2>4, <2>5 DEF StepFiled, Filed, SameWork
    <2>7. Filed'
      BY <1>1, <2>2, <2>5, <2>6, SameAdvances, SameHandsOn, StepsFiled
    <2> QED  BY <1>1, <2>2, <2>4, <2>5, <2>7, Unseen DEF SameWork
  <1>3. CASE LaunchRefused /\ Return("failed")
    BY <1>1, <1>3, ReturnFiles
  <1>4. CASE LaunchRefused /\ Step("failed") /\ cmds' = cmds
    BY <1>1, <1>4, StepKeeps, StepFiles DEF Stops
  <1> QED  BY <1>2, <1>3, <1>4 DEF LaunchRefused

-----------------------------------------------------------------------------
(* Spawning *)

LEMMA Spawning ==
    ASSUME Filing, job.step = "spawn"
    PROVE  /\ A \in Accounts /\ A = job.a /\ Typed /\ Filed /\ job.step \notin {"idle", "check"}
           /\ phase # "down" /\ job.run # 0 /\ handle[A].run = 0 /\ handle[A].cmd = 0
           /\ job.op \in {"start", "restart", "authenticate", "recover"}
           /\ job.cmd # 0 => cmds[job.cmd].action # "stop"
  <1>1. /\ A \in Accounts /\ A = job.a /\ Typed /\ Filed /\ phase # "down" /\ handle[A].run = 0
        /\ job.run # 0
    BY AtSpawn DEF Filing, Filed, StepFiled, Owning, Ownership, Hands, EmptyHanded
  <1>2. job.op \in {"start", "restart", "authenticate", "recover"}
    BY <1>1, Working DEF Typed, Carries
  <1> QED  BY <1>1, <1>2 DEF Filed, HandlesWait, JobWorks

LEMMA NoSpawnFiles ==
    ASSUME Filing, SpawnCancelled \/ SpawnFails
    PROVE  Filed' /\ Follows
  <1>1. /\ Typed /\ job.step = "spawn" /\ desired' = desired /\ cmds' = cmds /\ SameLife /\ SameCommands
    BY Spawning, HandleSame DEF SpawnCancelled, SpawnFails, SamePhase, SameLife, db
  <1>2. CASE job' = NoJob /\ job.op = "recover"
    BY <1>1, <1>2, NoCommand, NoJobFresh, FreshFiles
  <1>3. CASE Step("failed")
    BY <1>1, <1>3, StepKeeps, StepFiles DEF Stops
  <1> QED  BY <1>2, <1>3 DEF SpawnCancelled, SpawnFails

LEMMA SpawnFiles ==
    ASSUME Filing, Spawn \/ SpawnUnrecorded
    PROVE  Filed' /\ Follows
  <1>1. /\ A \in Accounts /\ A = job.a /\ Typed /\ Filed /\ job.step \notin {"idle", "check"}
        /\ phase # "down" /\ job.run # 0 /\ handle[A].run = 0 /\ handle[A].cmd = 0
        /\ job.op \in {"start", "restart", "authenticate", "recover"}
        /\ job.cmd # 0 => cmds[job.cmd].action # "stop"
        /\ desired' = desired /\ cmds' = cmds /\ SameLife
    BY Spawning DEF Spawn, SpawnUnrecorded, SamePhase, SameLife, db
  <1>2. Takes(A) /\ handle'[A].run = job.run
    <2>1. NewHandle.cmd = job.cmd /\ [NewHandle EXCEPT !.cleanup = TRUE].cmd = job.cmd
      BY DEF NewHandle, HandleOf
    <2>2. \/ handle' = [handle EXCEPT ![A] = NewHandle]
          \/ handle' = [handle EXCEPT ![A] = [NewHandle EXCEPT !.cleanup = TRUE]]
      BY DEF Spawn, SpawnUnrecorded
    <2> QED  BY <1>1, <2>1, <2>2, NewHandleRun DEF Takes, SameCommand, Typed, TypeOK
  <1>3. HandsOn
    BY <1>1, <1>2 DEF HandsOn, Takes, SameCommand, Filed, HandlesWait
  <1>4. Advances
    BY <1>1, SameAdvances
  <1>5. CASE Spawn
    <2>1. Fresh
      BY <1>5, NoJobFresh DEF Spawn
    <2> QED  BY <1>1, <1>2, <1>3, <1>4, <2>1, FreshFiled, LeftToChild DEF Fresh
  <1>6. CASE SpawnUnrecorded
    <2> DEFINE name == IF job.op = "recover" THEN "failed" ELSE "tidy"
    <2>1. Step(name) /\ name \in {"failed", "tidy"}
      BY <1>6 DEF SpawnUnrecorded
    <2> HIDE DEF name
    <2>2. SameWork /\ job'.step = name /\ job'.run = job.run
      BY <1>1, <2>1, StepKeeps
    <2>3. StepFiled'
      BY <1>1, <1>2, <2>1, <2>2 DEF StepFiled, SameWork, Takes, SameCommand, Stops
    <2>4. Filed'
      BY <1>1, <1>3, <1>4, <2>2, <2>3, StepsFiled
    <2>5. \A a \in Accounts : \/ handle'[a].cmd = handle[a].cmd
                              \/ {handle'[a].cmd, handle[a].cmd} \subseteq {0, job.cmd}
      BY <1>1, <1>2 DEF Takes, SameCommand
    <2> QED  BY <1>1, <2>1, <2>2, <2>4, <2>5, Unseen DEF SameWork
  <1> QED  BY <1>5, <1>6

LEMMA SpawnTidyFiles ==
    ASSUME Filing, SpawnTidy
    PROVE  Filed' /\ Follows
  <1>1. /\ job.step = "tidy" /\ A \in Accounts /\ A = job.a /\ Typed /\ Filed /\ phase # "down"
        /\ job.run # 0 /\ handle[A].run = job.run /\ handle[A].cmd = job.cmd
        /\ desired' = desired /\ SameLife
    BY AtStop DEF SpawnTidy, SamePhase, SameLife, Filing, Owning, Ownership, Hands, TidiesItsOwn,
                  Filed, StepFiled
  <1>2. job.op # "authfail"
    BY <1>1, Working DEF Typed, Carries
  <1>3. CASE TidyDone(A) /\ cmds' = Finished(cmds, handle[A].cmd, "failed")
    <2>1. Releases(A) /\ handle'[A].run = 0
      BY <1>1, <1>3, ForgetReleases DEF TidyDone
    <2>2. CASE job' = NoJob /\ job.op = "recover"
      <3>1. job.cmd = 0 /\ Fresh /\ "failed" \in Queue!Terminal
        BY <2>2, NoCommand, NoJobFresh DEF Queue!Terminal
      <3>2. Filed'
        BY <1>1, <1>3, <2>1, <3>1, FinishAdvances, ReleasedHandsOn, FreshFiled
      <3> QED  BY <1>1, <1>3, <2>1, <3>1, <3>2, Released DEF Fresh
    <2>3. CASE Step("failed")
      BY <1>1, <1>2, <1>3, <2>1, <2>3, StepKeeps, ReleaseFiles
    <2> QED  BY <2>2, <2>3 DEF SpawnTidy
  <1>4. CASE TidyFails(A) /\ cmds' = cmds
    <2>1. SameCommands
      BY <1>4, HandleSame DEF TidyFails
    <2>2. CASE job' = NoJob /\ job.op = "recover"
      BY <1>1, <1>4, <2>1, <2>2, NoCommand, NoJobFresh, FreshFiles
    <2>3. CASE Step("failed")
      BY <1>1, <1>4, <2>1, <2>3, StepKeeps, StepFiles DEF Stops
    <2> QED  BY <2>2, <2>3 DEF SpawnTidy
  <1> QED  BY <1>3, <1>4 DEF SpawnTidy

LEMMA LaunchFailedFiles ==
    ASSUME Filing, LaunchFailed \/ ResetFailed
    PROVE  Filed' /\ Follows
  <1>1. job.step = "failed" /\ Return("failed") /\ desired' = desired /\ SameLife /\ SameCommands
    BY HandleSame DEF LaunchFailed, ResetFailed, SamePhase, SameLife
  <1> QED  BY <1>1, ReturnFiles

LEMMA RecoveryFailedFiles ==
    ASSUME Filing, RecoveryFailed
    PROVE  Filed' /\ Follows
  <1>1. /\ job.step = "failed" /\ job.step # "idle" /\ job.op = "recover" /\ job.cmd = 0
        /\ A = job.a /\ Typed /\ Filed
        /\ desired' = desired /\ cmds' = cmds /\ SameLife /\ SameCommands
    BY AtStop, NoCommand, HandleSame DEF RecoveryFailed, SamePhase, SameLife, Filing
  <1>2. CASE Provisional /\ Step("tidy")
    <2>1. SameWork /\ job'.step = "tidy" /\ job'.run = job.run /\ job'.cmd = 0 /\ job'.op = "recover"
          /\ job'.a = job.a
      BY <1>1, <1>2, StepKeeps DEF SameWork
    <2>2. job.run # 0 /\ handle[job.a].cmd = 0 /\ handle'[job.a].cmd = 0
      BY <1>1, <1>2, AtStop DEF Provisional, Filed, StepFiled, SameCommands, SameCommand, Filing
    <2>3. StepFiled'
      BY <2>1, <2>2 DEF StepFiled
    <2> QED  BY <1>1, <2>1, <2>3, SameAdvances, SameHandsOn, StepsFiled, Unseen DEF SameCommands, SameCommand
  <1>3. CASE job' = NoJob
    BY <1>1, <1>3, NoJobFresh, FreshFiles
  <1> QED  BY <1>2, <1>3 DEF RecoveryFailed

LEMMA LaunchingFiles ==
    ASSUME Filing, Launching
    PROVE  Filed' /\ Follows
  BY FlushingFiles, SettleTidyFiles, SettleFiles, LaunchFiles, NoSpawnFiles, SpawnFiles,
     SpawnTidyFiles, LaunchFailedFiles, RecoveryFailedFiles DEF Launching

-----------------------------------------------------------------------------
(* Stopping *)

LEMMA RaiseFiles ==
    ASSUME Filing, job.step \in {"stop1", "stop2"}, StopRaises, desired' = desired, SameCommands
    PROVE  Filed' /\ Follows
  <1>1. /\ A \in Accounts /\ A = job.a /\ Typed /\ Filed /\ SameLife
        /\ job.step \notin {"idle", "check"}
    BY AtStop, RaiseLives DEF Filing
  <1>2. CASE Return("failed")
    BY <1>1, <1>2, ReturnFiles
  <1>3. CASE Step("failed") /\ cmds' = cmds
    BY <1>1, <1>3, StepKeeps, StepFiles DEF Stops
  <1>4. CASE /\ job' = NoJob /\ cmds' = cmds
             /\ job.op \notin {"stop", "start", "restart", "authenticate"}
    <2>1. CASE job.op = "authfail"
      <3>1. handle[A].cmd = job.cmd
        BY <1>1, <2>1 DEF Filed, StepFiled
      <3>2. Takes(A)
        BY <1>1, <3>1 DEF Takes, SameCommands, SameCommand
      <3>3. Fresh /\ Filed'
        BY <1>1, <1>4, NoJobFresh, SameAdvances, SameHandsOn, FreshFiled
      <3> QED  BY <1>1, <1>4, <2>1, <3>1, <3>2, <3>3, LeftToChild DEF Fresh
    <2>2. CASE job.op # "authfail"
      BY <1>1, <1>4, <2>2, NoCommand, NoJobFresh, FreshFiles
    <2> QED  BY <2>1, <2>2
  <1> QED  BY <1>2, <1>3, <1>4 DEF StopRaises

LEMMA StopFindsDeadFiles ==
    ASSUME Filing, StopFindsDead
    PROVE  Filed' /\ Follows
  <1>1. /\ job.step = "stop1" /\ A \in Accounts /\ A = job.a /\ Typed /\ Filed /\ phase # "down"
        /\ desired' = desired /\ handle[A].planned = "none"
    BY AtStop DEF StopFindsDead, Filing
  <1>2. CASE RecordExit(A, FALSE, TRUE) /\ SamePhase /\ UNCHANGED job
    <2>1. /\ cmds' = Finished(cmds, handle[A].cmd, "failed") /\ Releases(A) /\ handle'[A].run = 0
      BY <1>1, <1>2, ForgetReleases DEF RecordExit
    <2>2. SameLife /\ SameWork /\ job'.run = job.run
      BY <1>2 DEF SamePhase, SameLife, SameWork
    <2>3. job.op # "authfail"
      BY <1>1 DEF Filed, StepFiled
    <2> QED  BY <1>1, <1>2, <2>1, <2>2, <2>3, ReleaseFiles
  <1>3. CASE StopRaises /\ UNCHANGED handle
    BY <1>1, <1>3, HandleSame, RaiseFiles
  <1> QED  BY <1>2, <1>3 DEF StopFindsDead

LEMMA StopBeginsFiles ==
    ASSUME Filing, StopBegins
    PROVE  Filed' /\ Follows
  <1>1. /\ job.step = "stop1" /\ job.step # "idle" /\ A \in Accounts /\ A = job.a /\ Typed /\ Filed
        /\ phase # "down" /\ desired' = desired /\ handle' = handle /\ SameLife /\ SameCommands
        /\ Step("stop2") /\ "cancelled" \in Queue!Terminal
        /\ cmds' = IF handle[A].cmd = job.cmd THEN cmds ELSE Finished(cmds, handle[A].cmd, "cancelled")
    BY AtStop, HandleSame DEF StopBegins, Filing, SamePhase, SameLife, Queue!Terminal
  <1>2. SameWork /\ job'.step = "stop2" /\ job'.run = job.run /\ job'.cmd = job.cmd
    BY <1>1, StepKeeps
  <1>3. Advances
    BY <1>1, FinishAdvances, SameAdvances
  <1>4. \/ handle[A].cmd \in {0, job.cmd}
        \/ cmds'[handle[A].cmd].status # "leased"
    <2>1. ASSUME handle[A].cmd # 0, handle[A].cmd # job.cmd
          PROVE  cmds'[handle[A].cmd].status # "leased"
      <3>1. cmds' = Finished(cmds, handle[A].cmd, "cancelled") /\ handle[A].cmd \in Queue!Ids
        BY <1>1, <2>1 DEF Filed, HandlesWait
      <3>2. Finished(cmds, handle[A].cmd, "cancelled")[handle[A].cmd].status # "leased"
        BY <1>1, <3>1, FinishedRow
      <3> QED  BY <3>1, <3>2
    <2> QED  BY <2>1
  <1>5. StepFiled'
    BY <1>1, <1>2, <1>4 DEF Filed, StepFiled, SameWork, Stops
  <1>6. Filed'
    BY <1>1, <1>2, <1>3, <1>5, SameHandsOn, StepsFiled
  <1>7. CASE handle[A].cmd = job.cmd
    BY <1>1, <1>2, <1>6, <1>7, Unseen DEF SameCommands, SameCommand
  <1>8. CASE handle[A].cmd # job.cmd
    BY <1>1, <1>2, <1>6, <1>8, EndedEarly
  <1> QED  BY <1>7, <1>8

LEMMA TerminateFiles ==
    ASSUME Filing, Terminate
    PROVE  Filed' /\ Follows
  <1>1. /\ job.step = "stop2" /\ job.step # "idle" /\ A \in Accounts /\ A = job.a /\ Typed /\ Filed
        /\ phase # "down" /\ desired' = desired /\ cmds' = cmds /\ SameLife /\ Step("stop3")
        /\ "cancelled" \in Queue!Terminal
    BY AtStop DEF Terminate, Filing, SamePhase, SameLife, Queue!Terminal
  <1>2. SameWork /\ job'.step = "stop3" /\ job'.run = job.run /\ job'.cmd = job.cmd
    BY <1>1, StepKeeps
  <1>3. job.op \in {"restart", "authenticate"} => job.run # 0
    BY <1>1 DEF Filed, StepFiled, Stops
  <1>4. CASE Forget(A)
    <2>1. Releases(A) /\ handle'[A].run = 0
      BY <1>1, <1>4, ForgetReleases
    <2>2. StepFiled'
      BY <1>1, <1>2, <1>3, <2>1 DEF StepFiled, SameWork, Releases, SameCommand
    <2>3. Filed'
      BY <1>1, <1>2, <2>1, <2>2, SameAdvances, ReleasedHandsOn, StepsFiled
    <2>4. CASE handle[A].cmd \in {0, job.cmd}
      BY <1>1, <1>2, <2>1, <2>3, <2>4, Unseen DEF Releases, SameCommand
    <2>5. CASE handle[A].cmd \notin {0, job.cmd}
      <3>1. cmds[handle[A].cmd].status # "leased"
        BY <1>1, <2>5 DEF Filed, StepFiled
      <3>2. cmds' = Finished(cmds, handle[A].cmd, "cancelled")
        BY <1>1, <3>1, FinishedRow DEF Queue!Leased
      <3> QED  BY <1>1, <1>2, <2>1, <2>3, <2>5, <3>2, Released
    <2> QED  BY <2>4, <2>5
  <1>5. CASE handle' = handle
    BY <1>1, <1>2, <1>3, <1>5, HandleSame, StepFiles
  <1> QED  BY <1>4, <1>5 DEF Terminate

LEMMA StopFailsFiles ==
    ASSUME Filing, TerminateFails \/ CloseFails
    PROVE  Filed' /\ Follows
  <1>1. /\ job.step = "stop2" /\ A \in Accounts /\ Typed /\ StopRaises /\ desired' = desired
    BY AtStop DEF TerminateFails, CloseFails, Filing
  <1>2. SameCommands
    <2>1. CASE handle' = handle
      BY <2>1, HandleSame
    <2>2. CASE handle' = [handle EXCEPT ![A].planned = StopReason]
      <3> DEFINE h == [handle[A] EXCEPT !.planned = StopReason]
      <3>1. handle' = [handle EXCEPT ![A] = h] /\ handle[A] \in HandleRow
        BY <1>1, <2>2 DEF Typed, TypeOK
      <3>2. StopReason # "none"
        BY DEF StopReason
      <3>3. h.cmd = handle[A].cmd /\ h.run = handle[A].run /\ h.planned # "none"
        BY <3>1, <3>2 DEF HandleRow
      <3> HIDE DEF h
      <3> QED  BY <1>1, <3>1, <3>3, HandleSet
    <2> QED  BY <2>1, <2>2 DEF TerminateFails, CloseFails
  <1> QED  BY <1>1, <1>2, RaiseFiles

LEMMA StopDoneFiles ==
    ASSUME Filing, StopDone
    PROVE  Filed' /\ Follows
  <1>1. /\ job.step = "stop3" /\ job.step \notin {"idle", "check"} /\ Typed /\ Filed
        /\ job.op \in Ops \ {"recover"}
        /\ desired' = desired /\ SameLife /\ SameCommands
    BY AtStop, Working, HandleSame DEF StopDone, Filing, SamePhase, SameLife, OpsAt, Typed
  <1>2. CASE job.op = "stop"
    BY <1>1, <1>2, ReturnFiles DEF StopDone
  <1>3. CASE job.op = "authfail"
    BY <1>1, <1>3, ReturnFiles DEF StopDone
  <1>4. CASE job.op \in {"halt", "retry", "quit"}
    <2>1. job' = NoJob /\ cmds' = cmds
      BY <1>4 DEF StopDone
    <2> QED  BY <1>1, <1>4, <2>1, NoCommand, NoJobFresh, FreshFiles
  <1>5. CASE job.op \in {"restart", "authenticate"}
    <2>1. Step("spawn") /\ cmds' = cmds
      BY <1>5 DEF StopDone
    <2>2. job.run # 0
      BY <1>1, <1>5 DEF Filed, StepFiled, Stops
    <2> QED  BY <1>1, <1>5, <2>1, <2>2, StepKeeps, StepFiles
  <1>6. CASE job.op = "start"
    <2>1. Step("settle") /\ cmds' = cmds
      BY <1>6 DEF StopDone
    <2> QED  BY <1>1, <1>6, <2>1, StepKeeps, StepFiles DEF Stops
  <1> QED  BY <1>1, <1>2, <1>3, <1>4, <1>5, <1>6 DEF Ops

LEMMA StoppingFiles ==
    ASSUME Filing, Stopping
    PROVE  Filed' /\ Follows
  BY StopFindsDeadFiles, StopBeginsFiles, TerminateFiles, StopFailsFiles, StopDoneFiles DEF Stopping

-----------------------------------------------------------------------------
(* Visits: the worker has no job before. *)

LEMMA VisitStarts ==
    ASSUME Filing, NEW a, Idle, a \in todo
    PROVE  a \in Accounts /\ job = NoJob /\ job.cmd = 0 /\ job.run = 0 /\ Typed /\ Filed
           /\ Hand = 0 /\ ~Checked
  BY BlankRows DEF Filing, Owning, Typed, TypeOK, Idle, Hand, Checked

LEMMA AuthedSame ==
    ASSUME Typed, NEW a \in Accounts, NEW authed, handle' = [handle EXCEPT ![a].authed = authed]
    PROVE  SameCommands
  <1> DEFINE h == [handle[a] EXCEPT !.authed = authed]
  <1>1. handle' = [handle EXCEPT ![a] = h] /\ handle[a] \in HandleRow
    BY DEF Typed, TypeOK
  <1>2. h.cmd = handle[a].cmd /\ h.run = handle[a].run /\ h.planned = handle[a].planned
    BY <1>1 DEF HandleRow
  <1> HIDE DEF h
  <1> QED  BY <1>1, <1>2, HandleSet

(* A visit that leaves commands alone, and begins at most an operation without *)
(* a command.                                                                  *)
LEMMA QuietVisitFiles ==
    ASSUME Filing, NEW a, Idle, a \in todo, cmds' = cmds, desired' = desired, SameLife, SameCommands,
           job' = job \/ Fresh
    PROVE  Filed' /\ Follows
  BY VisitStarts, Unmoved, FreshFiles

LEMMA LookFiles ==
    ASSUME Filing, NEW a \in Accounts, HealthLook(a) \/ HealthTidy(a) \/ HealthExit(a)
    PROVE  Filed' /\ Follows
  <1>1. /\ Idle /\ a \in todo /\ job' = job /\ desired' = desired /\ SameLife /\ phase = "health"
        /\ Typed /\ job = NoJob /\ job.cmd = 0 /\ SameWork
    BY VisitStarts DEF HealthLook, HealthTidy, HealthExit, Examined, Visit, SameLife, db, SameWork
  <1>2. CASE cmds' = cmds /\ handle' = handle
    BY <1>1, <1>2, HandleSame, QuietVisitFiles
  <1>3. CASE cmds' = cmds /\ handle' = [handle EXCEPT ![a].authed = TRUE]
    BY <1>1, <1>3, AuthedSame, QuietVisitFiles
  <1>4. CASE cmds' = Finished(cmds, handle[a].cmd, "failed") /\ Forget(a)
    <2>1. Releases(a) /\ handle'[a].run = 0 /\ job.op # "authfail"
      BY <1>1, <1>4, ForgetReleases DEF NoJob, NewJob
    <2> QED  BY <1>1, <1>4, <2>1, ReleaseFiles
  <1> QED  BY <1>2, <1>3, <1>4 DEF HealthLook, HealthTidy, HealthExit, TidyDone, TidyFails, RecordExit, db

LEMMA ConfirmFiles ==
    ASSUME Filing, NEW a \in Accounts, Confirm(a)
    PROVE  Filed' /\ Follows
  <1>1. /\ job' = job /\ desired' = desired /\ SameLife /\ phase = "health"
        /\ Typed /\ job = NoJob /\ job.cmd = 0 /\ SameWork /\ job.op # "authfail"
        /\ cmds' = Finished(cmds, handle[a].cmd, "succeeded")
    BY VisitStarts DEF Confirm, Examined, Visit, SameLife, SameWork, NoJob, NewJob
  <1>2. Releases(a)
    <2> DEFINE h == [handle[a] EXCEPT !.confirmed = TRUE, !.authed = TRUE, !.cmd = 0, !.attempt = 0]
    <2>1. /\ handle' = [handle EXCEPT ![a] = h] /\ handle \in [Accounts -> HandleRow]
          /\ handle[a] \in HandleRow
      BY <1>1 DEF Confirm, Typed, TypeOK
    <2>2. h.cmd = 0
      BY <2>1 DEF HandleRow
    <2> HIDE DEF h
    <2> QED  BY <2>1, <2>2 DEF Releases, SameCommand
  <1> QED  BY <1>1, <1>2, ReleaseFiles

LEMMA QuietFiles ==
    ASSUME Filing, NEW a \in Accounts, HealthQuiet(a) \/ ConfirmFails(a)
    PROVE  Filed' /\ Follows
  <1>1. /\ job' = job /\ cmds' = cmds /\ desired' = desired /\ Typed /\ phase = "health"
    BY DEF HealthQuiet, ConfirmFails, Examined, db, Filing, Owning, Living, Needed, Sound
  <1>2. SameLife
    BY <1>1 DEF HealthQuiet, ConfirmFails, Examined, Visit, Enter, SameLife
  <1>3. SameCommands
    BY <1>1, AuthedSame DEF HealthQuiet, ConfirmFails
  <1> QED  BY <1>1, <1>2, <1>3, Unmoved

(* A login that is given up: the job takes the command of the child. *)
LEMMA GiveUpFiles ==
    ASSUME Filing, NEW a \in Accounts, LoginRefused(a) \/ LoginCutShort(a) \/ LoginTimesOut(a)
    PROVE  Filed' /\ Follows
  <1> DEFINE i == handle[a].cmd
  <1>1. /\ GiveUpLogin(a) /\ Typed /\ Filed /\ job = NoJob /\ Hand = 0 /\ ~Checked /\ SameLife
        /\ phase # "down" /\ cmds' = cmds /\ desired' = [desired EXCEPT ![a] = "stopped"]
    BY VisitStarts DEF LoginRefused, LoginCutShort, LoginTimesOut, GiveUpLogin, Examined, Visit, SameLife
  <1>2. /\ job'.cmd = i /\ job'.step = "stop1" /\ job'.op = "authfail" /\ job'.a = a /\ job'.run = 0
    BY <1>1 DEF GiveUpLogin, NewJob
  <1>3. SameCommands /\ handle'[a].planned # "none"
    <2> DEFINE h == [handle[a] EXCEPT !.planned = "authentication_failed", !.authed = Authed(a)]
    <2>1. handle' = [handle EXCEPT ![a] = h] /\ handle[a] \in HandleRow
      BY <1>1 DEF GiveUpLogin, Typed, TypeOK
    <2>2. h.cmd = handle[a].cmd /\ h.run = handle[a].run /\ h.planned # "none"
      BY <2>1 DEF HandleRow
    <2> HIDE DEF h
    <2> QED  BY <1>1, <2>1, <2>2, HandleSet DEF Typed, TypeOK
  <1>4. HandlesWait'
    BY <1>1, <1>3, SameAdvances, SameHandsOn, HandlesFiled
  <1>5. JobWorks'
    BY <1>1, <1>2 DEF JobWorks, Filed, HandlesWait, Queue!Ids
  <1>6. StepFiled'
    BY <1>1, <1>2, <1>3 DEF StepFiled, SameCommands, SameCommand
  <1>7. Queue!FailAuthentication(a)
    <2> DEFINE own == {j \in Attached : cmds[j].acct = a}
    <2>1. own = {i} \ {0}
      BY <1>1, BlankRows DEF Attached, Filed, HandlesWait
    <2>2. Attached' = Attached \ {i}
      <3>1. \A b \in Accounts \ {a} : handle[b].cmd # 0 => handle[b].cmd # i
        BY <1>1 DEF Filed, HandlesWait
      <3> QED  BY <1>1, <1>2, <1>3, <3>1, BlankRows DEF Attached, SameCommands, SameCommand
    <2>3. Hand' = i /\ (Checked' <=> i # 0)
      BY <1>2 DEF Hand, Checked
    <2>4. CASE i = 0
      <3>1. Attached' = Attached /\ Checked' = Checked
        BY <1>1, <2>2, <2>3, <2>4 DEF Attached, Checked
      <3> QED  BY <1>1, <2>1, <2>3, <2>4, <3>1 DEF Queue!FailAuthentication, SameLife
    <2>5. CASE i # 0
      <3>1. i \in own /\ Checked' = TRUE
        BY <2>1, <2>3, <2>5 DEF Checked
      <3> QED  BY <1>1, <2>2, <2>3, <3>1 DEF Queue!FailAuthentication, SameLife
    <2> QED  BY <2>4, <2>5
  <1> QED  BY <1>4, <1>5, <1>6, <1>7 DEF Filed, Follows, Queue!Next

(* A visit that begins an operation of the worker's own. *)
LEMMA BeginFresh ==
    ASSUME NEW op \in {"halt", "retry", "start", "restart", "recover", "quit"},
           NEW step \in {"stop1", "settle", "launch"}, NEW a, NEW v,
           \/ job' = NewJob(op, step, a)
           \/ job' = [NewJob(op, step, a) EXCEPT !.attempt = v]
           \/ job' = [NewJob(op, step, a) EXCEPT !.keep = v],
           op = "restart" => step = "launch"
    PROVE  Fresh
  BY DEF Fresh, NewJob, Stops

LEMMA HealthStopFiles ==
    ASSUME Filing, NEW a \in Accounts, HealthRetry(a) \/ HealthHalt(a)
    PROVE  Filed' /\ Follows
  <1>1. /\ Idle /\ a \in todo /\ cmds' = cmds /\ desired' = desired /\ SameLife /\ Typed
    BY DEF HealthRetry, HealthHalt, Examined, Visit, SameLife, Filing, Owning
  <1>2. SameCommands
    BY <1>1, AuthedSame DEF HealthRetry, HealthHalt
  <1>3. Fresh
    BY BeginFresh DEF HealthRetry, HealthHalt, Begin
  <1> QED  BY <1>1, <1>2, <1>3, QuietVisitFiles

LEMMA OtherVisitFiles ==
    ASSUME Filing, NEW a \in Accounts,
           \/ ReconcileStopped(a) \/ ReconcileRunning(a) \/ FingerprintVisit(a) \/ QuitVisit(a)
           \/ RecoverSkip(a) \/ RecoverFlush(a) \/ RecoverPlain(a) \/ RecoverSchedule(a) \/ RecoverClaim(a)
    PROVE  Filed' /\ Follows
  <1>1. /\ Idle /\ a \in todo /\ cmds' = cmds /\ desired' = desired /\ handle' = handle /\ SameLife
    BY DEF ReconcileStopped, ReconcileRunning, FingerprintVisit, QuitVisit, RecoverSkip, RecoverFlush,
           RecoverPlain, RecoverSchedule, RecoverClaim, RecoverPass, Visit, SameLife, db
  <1>2. job' = job \/ Fresh
    BY BeginFresh
    DEF ReconcileStopped, ReconcileRunning, FingerprintVisit, QuitVisit, RecoverSkip, RecoverFlush,
        RecoverPlain, RecoverSchedule, RecoverClaim, Begin
  <1> QED  BY <1>1, <1>2, HandleSame, QuietVisitFiles

LEMMA VisitingFiles ==
    ASSUME Filing, Visiting
    PROVE  Filed' /\ Follows
  BY LookFiles, ConfirmFiles, QuietFiles, GiveUpFiles, HealthStopFiles, OtherVisitFiles DEF Visiting

-----------------------------------------------------------------------------
(* The loop, and the end and the start of a worker *)

LEMMA DieFiles ==
    ASSUME Die
    PROVE  Filed' /\ (phase # "down" => Follows)
  <1>1. /\ phase' = "down" /\ job' = NoJob /\ cmds' = cmds /\ desired' = desired
        /\ \A a \in Accounts : handle'[a].run = 0 /\ handle'[a].cmd = 0
    BY DEF Die, Enter, db, NoHandle, HandleOf
  <1>2. Hand' = 0 /\ Checked' = FALSE /\ Attached' = {}
    BY <1>1, BlankRows DEF Hand, Checked, Attached
  <1>3. Fresh
    BY <1>1, NoJobFresh
  <1>4. HandlesWait' /\ JobWorks' /\ StepFiled'
    BY <1>1, <1>3 DEF HandlesWait, JobWorks, StepFiled, Fresh
  <1>5. phase # "down" => Queue!Crash
    BY <1>1, <1>2 DEF Queue!Crash
  <1> QED  BY <1>4, <1>5 DEF Filed, Follows, Queue!Next

LEMMA BootFiles ==
    ASSUME Filing, Boot
    PROVE  Filed' /\ Follows
  <1>1. /\ phase = "down" /\ phase' # "down" /\ job = NoJob /\ job' = job /\ handle' = handle
        /\ desired' = desired /\ cmds' = Queue!Mark(cmds, Queue!Leased, "queued")
    BY DEF Boot, Enter, Filing, Owning, Typed, JobFits
  <1>2. \A a \in Accounts : handle[a].run = 0 /\ handle[a].cmd = 0
    BY <1>1 DEF Filing, Owning, Ownership, Held, DownOwnsNothing, Filed, HandlesWait
  <1>3. Fresh
    BY <1>1, NoJobFresh
  <1>4. HandlesWait' /\ JobWorks' /\ StepFiled'
    BY <1>1, <1>2, <1>3 DEF HandlesWait, JobWorks, StepFiled, Fresh
  <1>5. Queue!Startup
    <2>1. Hand' = Hand /\ Checked' = Checked /\ Attached' = Attached
      BY <1>1 DEF Hand, Checked, Attached
    <2> QED  BY <1>1, <2>1 DEF Queue!Startup
  <1> QED  BY <1>4, <1>5 DEF Filed, Follows, Queue!Next

LEMMA StillFiles ==
    ASSUME Filing,
           \/ Flush \/ Advance \/ HealthDue \/ FingerprintDue \/ Quit
           \/ Children \/ Reading \/ Elapsing \/ UNCHANGED vars
    PROVE  Filed' /\ Follows
  <1>1. cmds' = cmds /\ desired' = desired /\ handle' = handle /\ job' = job
    BY DEF Flush, Advance, HealthDue, HealthLater, FingerprintDue, Quit, Turn, Children, ChildSpeaks,
           ChildExits, Reading, Drain, Elapsing, Elapse, ElapseAttempt, vars, db, mem
  <1>2. SameLife
    BY DEF Flush, Advance, HealthDue, HealthLater, FingerprintDue, Quit, Turn, Enter, Children,
           ChildSpeaks, ChildExits, Reading, Drain, Elapsing, Elapse, ElapseAttempt, vars, mem, SameLife
  <1> QED  BY <1>1, <1>2, HandleSame, Unmoved

LEMMA NextFiles ==
    ASSUME Filing, [Next]_vars
    PROVE  Filed' /\ Follows
  <1>1. CASE Commands
    BY <1>1, LeaseFiles, RefuseFiles, AcceptFiles, FallbackFiles DEF Commands
  <1>2. CASE Looping
    BY <1>2, BootFiles, StillFiles, DieFiles DEF Looping, ShutdownEnds
  <1>3. CASE Crash
    BY <1>3, DieFiles DEF Crash
  <1> QED  BY <1>1, <1>2, <1>3, WebsiteFiles, LaunchingFiles, StoppingFiles, VisitingFiles, StillFiles
           DEF Next, Worker

LEMMA InitFiled == Init => Filed /\ Queue!Init
  <1> SUFFICES ASSUME Init PROVE Filed /\ Queue!Init
    OBVIOUS
  <1>1. /\ phase = "down" /\ job = NoJob /\ cmds = <<>>
        /\ desired = [a \in Accounts |-> "stopped"]
        /\ \A a \in Accounts : handle[a].run = 0 /\ handle[a].cmd = 0
    BY DEF Init, NoHandle, HandleOf
  <1>2. Filed
    BY <1>1, BlankRows DEF Filed, HandlesWait, JobWorks, StepFiled, NoJob, NewJob, Stops
  <1>3. Hand = 0 /\ Checked = FALSE /\ Attached = {}
    BY <1>1, BlankRows DEF Hand, Checked, Attached
  <1> QED  BY <1>1, <1>2, <1>3 DEF Queue!Init

LEMMA AlwaysFiled == Spec => []Filed
  <1>1. Owning /\ Filed /\ [Next]_vars => Filed'
    BY NextFiles DEF Filing
  <1> QED  BY <1>1, InitFiled, AlwaysOwning, PTL DEF Spec

(* What the supervisor does to commands and desired states is a behaviour of the *)
(* queue, whichever spawn, signal, write or worker fails: a command is leased    *)
(* oldest first, carried out only while it is wanted, finished once, and held by *)
(* the worker or by the child that waits for it until then (execute_command,     *)
(* _finish_command and what start_account, stop_account, check_health and        *)
(* _fail_authentication do to the command of a child).                           *)
THEOREM SupervisorFollowsQueue == Spec => FollowsQueue
  <1>1. Init => Queue!Init
    BY InitFiled
  <1>2. Owning /\ Filed /\ [Next]_vars => [Queue!Next]_Queue!vars
    BY NextFiles DEF Filing, Follows
  <1> QED  BY <1>1, <1>2, AlwaysOwning, AlwaysFiled, PTL DEF Spec, FollowsQueue, Queue!Spec


-----------------------------------------------------------------------------
(* What is shown: the account that is shown as running is running the run it names, a *)
(* started attempt is the one of somebody, an incident has one pending attempt, a     *)
(* planned end is recorded as planned and an incident closes with its cause.          *)


(* An account without a child has an empty handle. *)
Bare(a) == handle[a].run = 0 => ~handle[a].confirmed /\ ~handle[a].cleanup /\ handle[a].attempt = 0

(* A confirmed child is not one to be cleaned up. *)
Plain(a) == handle[a].confirmed => ~handle[a].cleanup

(* The state row names the child, unless the launch of the child was rolled back. *)
Named(a) == handle[a].run # 0 /\ ~handle[a].cleanup => st[a].run = handle[a].run

(* RunningIsTruthful, of one account. *)
Truthful(a) ==
    phase # "down" /\ st[a].observed = "running" =>
        handle[a].confirmed /\ st[a].run = handle[a].run

Told == \A a \in Accounts : Bare(a) /\ Plain(a) /\ Named(a) /\ Truthful(a)

(* A stop that has begun does not show the account as running any more. *)
StopShows == job.step \in {"stop2", "stop3"} => st[job.a].observed # "running"

TidiesCleanup == job.step = "tidy" => handle[job.a].cleanup

(* A recovery that failed has no child, or one of its own that is to be cleaned up. *)
RecoversAlone ==
    job.op = "recover" =>
        /\ job.step = "failed" =>
             handle[job.a].run = 0 \/ (handle[job.a].cleanup /\ handle[job.a].attempt = job.attempt)
        /\ job.step = "tidy" => handle[job.a].attempt = job.attempt

(* Only a recovery carries an attempt. *)
CarriesAttempt == job.attempt # 0 => job.op = "recover"

JobTells == StopShows /\ TidiesCleanup /\ RecoversAlone /\ CarriesAttempt

(* A health visit that has read the desired state did not find a cleanup. *)
LooksAtPlain ==
    phase = "health" =>
        \A a \in Accounts : view[a] # "none" => job = NoJob /\ ~handle[a].cleanup

AttemptHeld(a, k) == handle[a].attempt = k \/ (job.a = a /\ job.attempt = k)
AtMostOne(tries)  == \A j, k \in Pending(tries) : j = k

(* StartedAttemptIsHeld and OnePendingAttempt, of one account. *)
Tried(a) ==
    /\ phase # "down" =>
         \A k \in AttemptIds : attempts[a][k].outcome = "started" => AttemptHeld(a, k)
    /\ AtMostOne(attempts[a])

Truth == Told /\ JobTells /\ LooksAtPlain /\ \A a \in Accounts : Tried(a)
Telling == Filing /\ Truth

-----------------------------------------------------------------------------
(* What a step may do to the handle and the row of an account. *)
SameRow(a) ==
    /\ handle'[a].run = handle[a].run /\ handle'[a].confirmed = handle[a].confirmed
    /\ handle'[a].cleanup = handle[a].cleanup /\ handle'[a].attempt = handle[a].attempt

EmptyRow(a) ==
    handle'[a].run = 0 /\ ~handle'[a].confirmed /\ ~handle'[a].cleanup /\ handle'[a].attempt = 0

SameShown(a) == st'[a].run = st[a].run /\ st'[a].observed = st[a].observed

(* Something else is shown, and a child that the row names stays named. *)
Hides(a) ==
    /\ SameRow(a) /\ st'[a].observed # "running"
    /\ handle[a].run = 0 \/ handle[a].cleanup \/ st'[a].run = st[a].run

(* The child is gone. *)
Loses(a) == EmptyRow(a) /\ st'[a].observed # "running"

(* There is a child that is not confirmed. *)
Starts(a) ==
    /\ handle'[a].run # 0 /\ ~handle'[a].confirmed /\ st'[a].observed # "running"
    /\ handle'[a].cleanup \/ st'[a].run = handle'[a].run

(* There is one that is, and the row says so. *)
Runs(a) ==
    /\ handle'[a].run # 0 /\ handle'[a].confirmed /\ ~handle'[a].cleanup
    /\ st'[a].run = handle'[a].run

Tells(a) == (SameRow(a) /\ SameShown(a)) \/ Hides(a) \/ Loses(a) \/ Starts(a) \/ Runs(a)

NoneStarted(tries) == \A k \in AttemptIds : tries[k].outcome # "started"

(* No attempt of the account becomes pending, and no started one is let go. *)
Trims(a) ==
    \A k \in AttemptIds :
        /\ attempts'[a][k].outcome = "started" =>
             /\ attempts[a][k].outcome = "started"
             /\ AttemptHeld(a, k) => AttemptHeld(a, k)'
        /\ k \in Pending(attempts'[a]) => k \in Pending(attempts[a])

(* The others are left alone. *)
Elsewhere(a) ==
    \A b \in Accounts \ {a} :
        handle'[b] = handle[b] /\ st'[b] = st[b] /\ attempts'[b] = attempts[b]

GoesUp == phase' # "down" => phase # "down"

LEMMA TellingTypes ==
    ASSUME Telling
    PROVE  Typed /\ Owning /\ Filed /\ Told /\ JobTells /\ LooksAtPlain
  BY DEF Telling, Filing, Owning, Truth

LEMMA TellsTold ==
    ASSUME Told, NEW a \in Accounts, Tells(a), GoesUp
    PROVE  Bare(a)' /\ Plain(a)' /\ Named(a)' /\ Truthful(a)'
  <1>1. Bare(a) /\ Plain(a) /\ Named(a) /\ Truthful(a)
    BY DEF Told
  <1>2. CASE SameRow(a) /\ SameShown(a)
    BY <1>1, <1>2 DEF SameRow, SameShown, GoesUp, Bare, Plain, Named, Truthful
  <1>3. CASE Hides(a)
    BY <1>1, <1>3 DEF Hides, SameRow, Bare, Plain, Named, Truthful
  <1>4. CASE Loses(a)
    BY <1>4 DEF Loses, EmptyRow, Bare, Plain, Named, Truthful
  <1>5. CASE Starts(a)
    BY <1>5 DEF Starts, Bare, Plain, Named, Truthful
  <1>6. CASE Runs(a)
    BY <1>6 DEF Runs, Bare, Plain, Named, Truthful
  <1> QED  BY <1>2, <1>3, <1>4, <1>5, <1>6 DEF Tells

LEMMA TrimsTried ==
    ASSUME NEW a \in Accounts, Tried(a), Trims(a), GoesUp
    PROVE  Tried(a)'
  <1>1. AtMostOne(attempts'[a])
    BY DEF Tried, AtMostOne, Trims, Pending
  <1> QED  BY <1>1 DEF Tried, Trims, GoesUp

LEMMA NoneTried ==
    ASSUME NEW a \in Accounts, NoneStarted(attempts'[a]), AtMostOne(attempts'[a])
    PROVE  Tried(a)'
  BY DEF NoneStarted, Tried

(* A step of one account. *)
LEMMA Here ==
    ASSUME Telling, NEW a \in Accounts, Elsewhere(a), Tells(a), Tried(a)', GoesUp,
           job.attempt = 0 \/ job.a = a
    PROVE  Told' /\ \A b \in Accounts : Tried(b)'
  <1>1. ASSUME NEW b \in Accounts \ {a}
        PROVE  Tells(b) /\ Tried(b)'
    <2>1. handle'[b] = handle[b] /\ st'[b] = st[b] /\ attempts'[b] = attempts[b]
      BY DEF Elsewhere
    <2>2. Trims(b)
      BY <2>1 DEF Trims, AttemptHeld, AttemptIds
    <2>3. Tried(b)
      BY DEF Telling, Truth
    <2> QED  BY <2>1, <2>2, <2>3, TrimsTried DEF Tells, SameRow, SameShown
  <1> QED  BY <1>1, TellsTold DEF Told, Telling, Truth

(* A step that leaves handles, rows and attempts as they are. *)
LEMMA Nowhere ==
    ASSUME Telling, UNCHANGED <<handle, st, attempts>>, GoesUp,
           job.attempt = 0 \/ (job'.a = job.a /\ job'.attempt = job.attempt)
    PROVE  Told' /\ (\A b \in Accounts : Tried(b)')
  <1>1. ASSUME NEW b \in Accounts
        PROVE  Tells(b) /\ Tried(b)'
    <2>1. Trims(b)
      BY DEF Trims, AttemptHeld, AttemptIds
    <2>2. Tried(b)
      BY DEF Telling, Truth
    <2> QED  BY <2>1, <2>2, TrimsTried DEF Tells, SameRow, SameShown
  <1> QED  BY <1>1, TellsTold DEF Told, Telling, Truth

-----------------------------------------------------------------------------
(* The job after a step. *)
LEMMA FreshTells ==
    ASSUME job'.step \notin {"stop2", "stop3", "tidy"},
           job'.op = "recover" => job'.step # "failed",
           job'.attempt # 0 => job'.op = "recover"
    PROVE  JobTells'
  BY DEF JobTells, StopShows, TidiesCleanup, RecoversAlone, CarriesAttempt

LEMMA NoJobTells ==
    ASSUME job' = NoJob
    PROVE  JobTells' /\ job'.attempt = 0
  BY FreshTells DEF NoJob, NewJob

LEMMA ReturnTells ==
    ASSUME NEW status, Return(status)
    PROVE  JobTells' /\ job'.attempt = 0
  BY FreshTells, NoJobTells DEF Return, NewJob

LEMMA BeginTells ==
    ASSUME NEW op, op # "recover", NEW step, step \notin {"stop2", "stop3", "tidy"}, NEW a, NEW v,
           \/ job' = NewJob(op, step, a)
           \/ job' = [NewJob(op, step, a) EXCEPT !.keep = v]
           \/ job' = [NewJob(op, step, a) EXCEPT !.cmd = v]
    PROVE  JobTells'
  <1>1. job'.op = op /\ job'.step = step /\ job'.attempt = 0
    BY DEF NewJob
  <1> QED  BY <1>1, FreshTells

(* Where a job is at a step, a recovery apart. *)
LEMMA AtWork ==
    ASSUME Telling, job.step # "idle"
    PROVE  /\ A \in Accounts /\ A = job.a /\ Typed /\ phase # "down" /\ job # NoJob
           /\ job \in JobRow /\ job.op \in OpsAt(job.step)
           /\ job.op # "recover" => job.attempt = 0
  BY AtStep, Working DEF Telling, Filing, Owning, Typed, Truth, JobTells, CarriesAttempt

LEMMA IdleAttempt ==
    ASSUME Telling, Idle
    PROVE  job.attempt = 0 /\ job.step = "idle" /\ job = NoJob
  BY BlankRows DEF Idle

LEMMA StepTells ==
    ASSUME Telling, job.step # "idle", NEW name, Step(name)
    PROVE  /\ job'.step = name /\ job'.op = job.op /\ job'.a = job.a
           /\ job'.attempt = job.attempt /\ job'.run = job.run
  <1>1. job \in JobRow
    BY AtWork
  <1> QED  BY <1>1 DEF Step, JobRow

LEMMA SteppedTells ==
    ASSUME Telling, job.step # "idle", NEW name, Step(name), name \notin {"stop2", "stop3", "tidy"},
           job.op = "recover" => name # "failed"
    PROVE  JobTells'
  BY StepTells, AtWork, FreshTells

(* In a health pass nothing is read while a job is under way. *)
LEMMA WorkLooks ==
    ASSUME Telling, job.step # "idle", SamePhase \/ phase' # "health"
    PROVE  LooksAtPlain'
  <1>1. job # NoJob
    BY AtWork
  <1> QED  BY <1>1 DEF SamePhase, LooksAtPlain, Telling, Truth

LEMMA EnterLooks ==
    ASSUME NEW p, Enter(p)
    PROVE  LooksAtPlain'
  BY DEF Enter, LooksAtPlain, NoView

LEMMA VisitLooks ==
    ASSUME NEW a, Visit(a)
    PROVE  LooksAtPlain'
  BY DEF Visit, LooksAtPlain, NoView

-----------------------------------------------------------------------------
(* The tables of attempts that steps write. *)

Trimmed(old, new) ==
    \A k \in AttemptIds :
        /\ new[k].outcome = "started" => old[k].outcome = "started"
        /\ k \in Pending(new) => k \in Pending(old)

(* Who has an attempt still has it. *)
KeepsAttempt(a) ==
    /\ handle'[a].attempt = handle[a].attempt
    /\ \/ job.attempt \in {0, handle[a].attempt}
       \/ job'.a = job.a /\ job'.attempt = job.attempt

LEMMA TrimmedBy ==
    ASSUME NEW tries \in Tries
    PROVE  /\ Trimmed(tries, tries)
           /\ \A k : Trimmed(tries, Failed(tries, k))
           /\ \A but : Trimmed(tries, Abandoned(tries, but))
           /\ Trimmed(tries, Detached(tries))
  <1>1. \A k \in AttemptIds : tries[k] \in AttemptRow
    BY DEF Tries
  <1>2. ASSUME NEW k
        PROVE  Trimmed(tries, Failed(tries, k))
    BY <1>1 DEF Trimmed, Failed, Pending, AttemptRow
  <1>3. ASSUME NEW but
        PROVE  Trimmed(tries, Abandoned(tries, but))
    BY <1>1 DEF Trimmed, Abandoned, Pending, AttemptRow
  <1>4. Trimmed(tries, Detached(tries))
    BY <1>1 DEF Trimmed, Detached, Pending, AttemptRow
  <1> QED  BY <1>2, <1>3, <1>4 DEF Trimmed

LEMMA TrimmedTwice ==
    ASSUME NEW tries \in Tries
    PROVE  \A k : /\ Trimmed(tries, Detached(Failed(tries, k)))
                  /\ Trimmed(tries, Detached(Abandoned(tries, k)))
  BY TrimmedBy, TriesType DEF Trimmed

LEMMA KeepsTried ==
    ASSUME Telling, NEW a \in Accounts, NEW tries, attempts'[a] = tries, Trimmed(attempts[a], tries),
           KeepsAttempt(a), GoesUp
    PROVE  Tried(a)'
  <1>1. 0 \notin AttemptIds
    BY DEF AttemptIds
  <1>2. Trims(a)
    BY <1>1 DEF Trims, Trimmed, KeepsAttempt, AttemptHeld
  <1> QED  BY <1>2, TrimsTried DEF Telling, Truth

(* Only the attempt that the handle has, or the recovery under way, is started. *)
LEMMA LetGo ==
    ASSUME Telling, NEW a \in Accounts, phase # "down", NEW k,
           \A j \in AttemptIds : AttemptHeld(a, j) => j = k
    PROVE  NoneStarted(Failed(attempts[a], k)) /\ AtMostOne(Failed(attempts[a], k))
  <1>1. Typed /\ Tried(a)
    BY TellingTypes DEF Telling, Truth
  <1>2. attempts[a] \in Tries /\ \A j \in AttemptIds : attempts[a][j] \in AttemptRow
    BY <1>1, RowsOf DEF Typed, Tries
  <1>3. NoneStarted(Failed(attempts[a], k))
    BY <1>1, <1>2 DEF NoneStarted, Failed, Tried, AttemptRow
  <1>4. Trimmed(attempts[a], Failed(attempts[a], k))
    BY <1>2, TrimmedBy
  <1>5. AtMostOne(Failed(attempts[a], k))
    BY <1>1, <1>4 DEF AtMostOne, Tried, Trimmed, Pending
  <1> QED  BY <1>3, <1>5

(* Scheduling a recovery when no attempt is started. *)
LEMMA ScheduledTried ==
    ASSUME NEW a, NEW s, NEW delay, NEW tries \in Tries, NoneStarted(tries), AtMostOne(tries)
    PROVE  LET plan == Scheduled(a, s, tries, delay)
           IN  NoneStarted(plan.tries) /\ AtMostOne(plan.tries)
  <1> DEFINE waiting == {k \in Pending(tries) : tries[k].outcome = "scheduled"}
             k    == IF waiting # {} THEN CHOOSE j \in waiting : TRUE ELSE FreeAttempt(a, tries)
             when == IF waiting # {} THEN tries[k].when ELSE delay
             row  == [outcome |-> "scheduled", when |-> when, open |-> TRUE]
             new  == [tries EXCEPT ![k] = row]
  <1>1. waiting = Pending(tries) /\ Pending(tries) \subseteq AttemptIds
    BY DEF NoneStarted, Pending
  <1>2. Pending(tries) \subseteq {k}
    <2>1. CASE waiting # {}
      BY <1>1, <2>1 DEF AtMostOne
    <2>2. CASE waiting = {}
      BY <1>1, <2>2
    <2> QED  BY <2>1, <2>2
  <1>3. Scheduled(a, s, tries, delay).tries = new
    BY DEF Scheduled
  <1> HIDE DEF waiting, k, when
  <1>4. \A j \in AttemptIds : new[j] = IF j = k THEN row ELSE tries[j]
    BY DEF Tries
  <1>5. NoneStarted(new)
    BY <1>4 DEF NoneStarted
  <1>6. Pending(new) \subseteq {k}
    BY <1>2, <1>4 DEF Pending
  <1>7. AtMostOne(new)
    BY <1>6 DEF AtMostOne
  <1> HIDE DEF new
  <1> QED  BY <1>3, <1>5, <1>7

LEMMA ScheduledShown ==
    ASSUME NEW a, NEW s \in StateRow, NEW tries, NEW delay
    PROVE  Scheduled(a, s, tries, delay).state.observed # "running"
  <1> DEFINE waiting == {k \in Pending(tries) : tries[k].outcome = "scheduled"}
             k     == IF waiting # {} THEN CHOOSE j \in waiting : TRUE ELSE FreeAttempt(a, tries)
             when  == IF waiting # {} THEN tries[k].when ELSE delay
             shown == IF s.count < RapidAttempts THEN "restarting" ELSE "degraded"
  <1>1. Scheduled(a, s, tries, delay).state = [s EXCEPT !.retry = when, !.observed = shown]
    BY DEF Scheduled
  <1>2. shown # "running"
    OBVIOUS
  <1> HIDE DEF when, shown
  <1> QED  BY <1>1, <1>2 DEF StateRow

(* How tables show what they write. *)
LEMMA Rows ==
    ASSUME Typed, NEW a \in Accounts, NEW v
    PROVE  /\ st' = [st EXCEPT ![a] = v] =>
                 st'[a] = v /\ \A b \in Accounts \ {a} : st'[b] = st[b]
           /\ handle' = [handle EXCEPT ![a] = v] =>
                 handle'[a] = v /\ \A b \in Accounts \ {a} : handle'[b] = handle[b]
           /\ attempts' = [attempts EXCEPT ![a] = v] =>
                 attempts'[a] = v /\ \A b \in Accounts \ {a} : attempts'[b] = attempts[b]
           /\ st' = [st EXCEPT ![a].observed = v] =>
                 /\ st'[a].observed = v /\ st'[a].run = st[a].run
                 /\ \A b \in Accounts \ {a} : st'[b] = st[b]
  <1>1. st \in [Accounts -> StateRow] /\ st[a] \in StateRow
    BY RowsOf DEF Typed, TypeOK
  <1>2. DOMAIN handle = Accounts /\ DOMAIN attempts = Accounts
    BY DEF Typed, TypeOK
  <1> QED  BY <1>1, <1>2 DEF StateRow

LEMMA ElsewhereBy ==
    ASSUME Typed, NEW a \in Accounts, NEW v, st' = [st EXCEPT ![a] = v],
           \A b \in Accounts \ {a} : handle'[b] = handle[b] /\ attempts'[b] = attempts[b]
    PROVE  st'[a] = v /\ Elsewhere(a)
  <1>1. st'[a] = v /\ \A b \in Accounts \ {a} : st'[b] = st[b]
    BY Rows
  <1> QED  BY <1>1 DEF Elsewhere

LEMMA AttemptsRow ==
    ASSUME Typed, NEW a \in Accounts, NEW v, attempts' = [attempts EXCEPT ![a] = v]
    PROVE  attempts'[a] = v /\ \A b \in Accounts \ {a} : attempts'[b] = attempts[b]
  BY Rows

LEMMA ForgetLoses ==
    ASSUME Typed, NEW a \in Accounts, Forget(a)
    PROVE  EmptyRow(a) /\ \A b \in Accounts \ {a} : handle'[b] = handle[b]
  <1>1. handle'[a] = NoHandle /\ \A b \in Accounts \ {a} : handle'[b] = handle[b]
    BY Rows DEF Forget
  <1> QED  BY <1>1 DEF EmptyRow, NoHandle, HandleOf

-----------------------------------------------------------------------------
(* What several actions share *)

LEMMA Tell ==
    ASSUME Telling, NEW a \in Accounts, Elsewhere(a), Tells(a), Tried(a)', GoesUp,
           job.attempt = 0 \/ job.a = a, JobTells', LooksAtPlain'
    PROVE  Truth'
  BY Here DEF Truth

LEMMA TellNowhere ==
    ASSUME Telling, UNCHANGED <<handle, st, attempts>>, GoesUp,
           job.attempt = 0 \/ (job'.a = job.a /\ job'.attempt = job.attempt),
           JobTells', LooksAtPlain'
    PROVE  Truth'
  BY Nowhere DEF Truth

(* A handle goes with its attempt, and another attempt may be scheduled. *)
LEMMA LosesTried ==
    ASSUME Telling, NEW a \in Accounts, phase # "down",
           job.attempt = 0 \/ (job.a = a /\ job.attempt = handle[a].attempt)
    PROVE  LET tries == Failed(attempts[a], handle[a].attempt)
           IN  tries \in Tries /\ NoneStarted(tries) /\ AtMostOne(tries)
  <1>1. attempts[a] \in Tries /\ 0 \notin AttemptIds
    BY TellingTypes, RowsOf DEF Typed, AttemptIds
  <1>2. \A j \in AttemptIds : AttemptHeld(a, j) => j = handle[a].attempt
    BY <1>1 DEF AttemptHeld
  <1> QED  BY <1>1, <1>2, LetGo, TriesType

LEMMA ExitTells ==
    ASSUME Telling, NEW a \in Accounts, NEW schedule \in BOOLEAN, NEW even \in BOOLEAN,
           RecordExit(a, schedule, even), phase # "down", job.attempt = 0
    PROVE  Loses(a) /\ Elsewhere(a) /\ Tried(a)'
  <1> DEFINE state == [st[a] EXCEPT !.run = 0]
             tries == Failed(attempts[a], handle[a].attempt)
             plan  == Scheduled(a, state, tries, "later")
  <1>1. Typed /\ st[a] \in StateRow
    BY TellingTypes, RowsOf DEF Typed
  <1>2. state \in StateRow
    BY <1>1, StateFields, Settable
  <1>3. tries \in Tries /\ NoneStarted(tries) /\ AtMostOne(tries)
    BY LosesTried
  <1> DEFINE stopped == [state EXCEPT !.observed = "stopped", !.retry = "none"]
             over    == [state EXCEPT !.observed = IF desired[a] = "stopped" THEN "stopped" ELSE "unknown",
                                      !.retry = "none"]
  <1>4. /\ \/ st' = [st EXCEPT ![a] = stopped]
           \/ st' = [st EXCEPT ![a] = over]
           \/ st' = [st EXCEPT ![a] = plan.state]
        /\ \/ attempts' = [attempts EXCEPT ![a] = tries]
           \/ attempts' = [attempts EXCEPT ![a] = Detached(tries)]
           \/ attempts' = [attempts EXCEPT ![a] = plan.tries]
        /\ Forget(a)
    BY DEF RecordExit
  <1>5. stopped.observed # "running" /\ over.observed # "running"
    BY <1>2 DEF StateRow
  <1> HIDE DEF state, tries, stopped, over
  <1>6. plan.state.observed # "running" /\ NoneStarted(plan.tries) /\ AtMostOne(plan.tries)
    BY <1>2, <1>3, ScheduledShown, ScheduledTried
  <1>7. NoneStarted(Detached(tries)) /\ AtMostOne(Detached(tries))
    <2>1. Trimmed(tries, Detached(tries))
      BY <1>3, TrimmedBy
    <2> QED  BY <1>3, <2>1 DEF Trimmed, NoneStarted, AtMostOne, Pending
  <1> HIDE DEF plan
  <1>8. st'[a].observed # "running" /\ NoneStarted(attempts'[a]) /\ AtMostOne(attempts'[a])
    <2>1. st'[a].observed # "running"
      BY <1>1, <1>4, <1>5, <1>6, Rows
    <2>2. attempts'[a] \in {tries, Detached(tries), plan.tries}
      BY <1>1, <1>4, Rows
    <2> QED  BY <1>3, <1>6, <1>7, <2>1, <2>2
  <1>9. Elsewhere(a)
    BY <1>1, <1>4, Rows, ForgetLoses DEF Elsewhere
  <1> QED  BY <1>1, <1>4, <1>8, <1>9, NoneTried, ForgetLoses DEF Loses

LEMMA TidyTells ==
    ASSUME Telling, NEW a \in Accounts, TidyDone(a), phase # "down",
           job.attempt = 0 \/ (job.a = a /\ job.attempt = handle[a].attempt)
    PROVE  Loses(a) /\ Elsewhere(a) /\ Tried(a)'
  <1> DEFINE gone  == [st[a] EXCEPT !.run = 0]
             tries == Failed(attempts[a], handle[a].attempt)
             plan  == Scheduled(a, gone, tries, "later")
  <1>1. Typed /\ st[a] \in StateRow
    BY TellingTypes, RowsOf DEF Typed
  <1>2. gone \in StateRow
    BY <1>1, StateFields, Settable
  <1>3. tries \in Tries /\ NoneStarted(tries) /\ AtMostOne(tries)
    BY LosesTried
  <1> DEFINE worn    == [gone EXCEPT !.observed = "degraded", !.retry = "later"]
             stopped == [gone EXCEPT !.observed = "stopped", !.retry = "none"]
  <1>4. /\ \/ st' = [st EXCEPT ![a] = worn]
           \/ st' = [st EXCEPT ![a] = stopped]
           \/ st' = [st EXCEPT ![a] = plan.state]
        /\ \/ attempts' = [attempts EXCEPT ![a] = tries]
           \/ attempts' = [attempts EXCEPT ![a] = plan.tries]
        /\ Forget(a)
    BY DEF TidyDone
  <1>5. worn.observed # "running" /\ stopped.observed # "running"
    BY <1>2 DEF StateRow
  <1> HIDE DEF gone, tries, worn, stopped
  <1>6. plan.state.observed # "running" /\ NoneStarted(plan.tries) /\ AtMostOne(plan.tries)
    BY <1>2, <1>3, ScheduledShown, ScheduledTried
  <1> HIDE DEF plan
  <1>7. /\ attempts'[a] \in {tries, plan.tries} /\ \A b \in Accounts \ {a} : attempts'[b] = attempts[b]
        /\ EmptyRow(a) /\ \A b \in Accounts \ {a} : handle'[b] = handle[b]
    BY <1>1, <1>4, AttemptsRow, ForgetLoses
  <1>8. st'[a] \in {worn, stopped, plan.state} /\ Elsewhere(a)
    BY <1>1, <1>4, <1>7, ElsewhereBy
  <1>9. st'[a].observed # "running" /\ NoneStarted(attempts'[a]) /\ AtMostOne(attempts'[a])
    BY <1>3, <1>5, <1>6, <1>7, <1>8
  <1> QED  BY <1>1, <1>4, <1>8, <1>9, NoneTried, ForgetLoses DEF Loses

(* Whatever else becomes of a failed tidying, the handle and the attempts stay. *)
LEMMA WornTells ==
    ASSUME Telling, NEW a \in Accounts, st' = [st EXCEPT ![a].observed = "degraded"],
           UNCHANGED <<handle, attempts>>
    PROVE  Hides(a) /\ Elsewhere(a)
  <1>1. /\ st'[a].observed = "degraded" /\ st'[a].run = st[a].run
        /\ \A b \in Accounts \ {a} : st'[b] = st[b]
    BY TellingTypes, Rows
  <1> QED  BY <1>1 DEF Hides, SameRow, Elsewhere

LEMMA StopRaisesTells ==
    ASSUME Telling, job.step \in {"stop1", "stop2"}, StopRaises
    PROVE  JobTells' /\ LooksAtPlain' /\ GoesUp /\ job.attempt = 0
  <1>1. job.step # "idle" /\ job.op # "recover" /\ job.attempt = 0
    BY AtWork DEF OpsAt
  <1>2. CASE Return("failed") /\ SamePhase
    BY <1>1, <1>2, ReturnTells, WorkLooks DEF GoesUp, SamePhase
  <1>3. CASE Step("failed") /\ SamePhase
    BY <1>1, <1>3, SteppedTells, WorkLooks DEF GoesUp, SamePhase
  <1>4. CASE job' = NoJob /\ SamePhase
    BY <1>1, <1>4, NoJobTells, WorkLooks DEF GoesUp, SamePhase
  <1>5. CASE job' = NoJob /\ Enter("quit")
    BY <1>1, <1>5, NoJobTells, EnterLooks, AtWork DEF GoesUp
  <1> QED  BY <1>1, <1>2, <1>3, <1>4, <1>5 DEF StopRaises

-----------------------------------------------------------------------------
(* The web process, the children and time *)

LEMMA StillTells ==
    ASSUME Telling, UNCHANGED <<job, phase, view, handle>>,
           \A a \in Accounts : st'[a].observed = st[a].observed
    PROVE  JobTells' /\ LooksAtPlain' /\ GoesUp
  <1>1. job.step # "idle" => job.a \in Accounts
    BY AtWork
  <1>2. JobTells'
    BY <1>1, TellingTypes DEF JobTells, StopShows, TidiesCleanup, RecoversAlone, CarriesAttempt
  <1> QED  BY <1>2, TellingTypes DEF LooksAtPlain, GoesUp

LEMMA OutsideTells ==
    ASSUME Telling, Website \/ Children \/ Reading \/ Elapsing \/ UNCHANGED vars
    PROVE  Truth'
  <1>1. CASE UNCHANGED <<job, phase, view, handle, st, attempts>>
    BY <1>1, StillTells, TellNowhere
  <1>2. ASSUME NEW a \in Accounts, Elapse(a)
        PROVE  Truth'
    <2>1. Typed /\ st \in [Accounts -> StateRow] /\ st[a] \in StateRow
      BY TellingTypes, RowsOf DEF Typed, TypeOK
    <2>2. /\ st' = [st EXCEPT ![a].retry = "due"]
          /\ UNCHANGED <<job, phase, view, handle, attempts>>
      BY <1>2 DEF Elapse, mem
    <2>3. SameShown(a) /\ \A b \in Accounts \ {a} : st'[b] = st[b]
      BY <2>1, <2>2 DEF SameShown, StateRow
    <2>4. ASSUME NEW b \in Accounts
          PROVE  Tells(b) /\ Tried(b)'
      <3>1. attempts[b] \in Tries
        BY <2>1, RowsOf DEF Typed
      <3> QED  BY <2>2, <2>3, <3>1, TrimmedBy, KeepsTried
               DEF Tells, SameRow, SameShown, KeepsAttempt, GoesUp
    <2>5. Told'
      BY <2>2, <2>4, TellsTold DEF Told, Telling, Truth, GoesUp
    <2> QED  BY <2>2, <2>3, <2>4, <2>5, StillTells DEF Truth, SameShown
  <1>3. ASSUME NEW a \in Accounts, NEW k \in AttemptIds, ElapseAttempt(a, k)
        PROVE  Truth'
    <2>1. Typed /\ attempts[a] \in Tries /\ attempts[a][k] \in AttemptRow
      BY TellingTypes, RowsOf DEF Typed, Tries
    <2> DEFINE tries == [attempts[a] EXCEPT ![k] = [@ EXCEPT !.when = "due"]]
    <2>2. /\ attempts' = [attempts EXCEPT ![a] = tries]
          /\ UNCHANGED <<job, phase, view, handle, st>>
      BY <1>3 DEF ElapseAttempt, mem
    <2>3. Trimmed(attempts[a], tries)
      BY <2>1 DEF Trimmed, Tries, AttemptRow, Pending
    <2> HIDE DEF tries
    <2>4. attempts'[a] = tries /\ Elsewhere(a)
      BY <2>1, <2>2, Rows DEF Elsewhere
    <2>5. Tried(a)'
      BY <2>2, <2>3, <2>4, KeepsTried DEF KeepsAttempt, GoesUp
    <2>6. \A b \in Accounts : Tells(b)
      BY <2>2 DEF Tells, SameRow, SameShown
    <2>7. ASSUME NEW b \in Accounts
          PROVE  Tried(b)'
      <3>1. attempts[b] \in Tries
        BY <2>1, RowsOf DEF Typed
      <3>2. CASE b # a
        BY <2>2, <2>4, <3>1, <3>2, TrimmedBy, KeepsTried DEF Elsewhere, KeepsAttempt, GoesUp
      <3> QED  BY <2>5, <3>2
    <2>8. Told'
      BY <2>2, <2>6, TellsTold DEF Told, Telling, Truth, GoesUp
    <2> QED  BY <2>2, <2>7, <2>8, StillTells DEF Truth
  <1>4. Website \/ Children \/ Reading \/ UNCHANGED vars =>
           UNCHANGED <<job, phase, view, handle, st, attempts>>
    BY DEF Website, Request, ChangeConfig, Children, ChildSpeaks, ChildExits, Reading, Drain, vars,
           mem, db
  <1> QED  BY <1>1, <1>2, <1>3, <1>4 DEF Elapsing

-----------------------------------------------------------------------------
(* The command loop *)

LEMMA CommandsTell ==
    ASSUME Telling, Commands
    PROVE  Truth'
  <1>1. CASE LeaseNext
    <2>1. PICK i \in Queue!Queued :
            job' = [NewJob(cmds[i].action, "check", cmds[i].acct) EXCEPT !.cmd = i]
      BY <1>1 DEF LeaseNext
    <2>2. cmds[i].action # "recover"
      BY TellingTypes, Table DEF Queue!Queued, Queue!Command, Queue!Actions
    <2>3. JobTells'
      BY <2>1, <2>2, BeginTells
    <2>4. LooksAtPlain' /\ GoesUp
      BY <1>1 DEF LeaseNext, SamePhase, LooksAtPlain, GoesUp
    <2>5. job.attempt = 0
      BY <1>1, IdleAttempt DEF LeaseNext
    <2> QED  BY <1>1, <2>3, <2>4, <2>5, TellNowhere DEF LeaseNext
  <1>2. CASE Refuse
    <2>1. job.step # "idle" /\ job.attempt = 0
      BY <1>2, AtWork DEF Refuse, OpsAt
    <2> QED  BY <1>2, <2>1, ReturnTells, WorkLooks, TellNowhere DEF Refuse, SamePhase, GoesUp
  <1>3. CASE Accept
    <2>1. job.step # "idle" /\ job.op # "recover"
      BY <1>3, AtWork DEF Accept, OpsAt
    <2> DEFINE name == CASE job.op = "start" -> "settle" [] job.op = "stop" -> "stop1" [] OTHER -> "launch"
    <2>2. Step(name) /\ name \in {"settle", "stop1", "launch"}
      BY <1>3 DEF Accept
    <2> HIDE DEF name
    <2>3. JobTells' /\ job'.a = job.a /\ job'.attempt = job.attempt
      BY <2>1, <2>2, SteppedTells, StepTells
    <2> QED  BY <1>3, <2>1, <2>3, WorkLooks, TellNowhere DEF Accept, SamePhase, GoesUp, db
  <1>4. CASE Fallback
    <2>1. PICK a \in Accounts : a = job.a /\ a = A /\ Typed /\ job.step # "idle" /\ job.attempt = 0
      BY <1>4, AtWork DEF Fallback, OpsAt
    <2>2. attempts[a] \in Tries
      BY <2>1, RowsOf DEF Typed
    <2>3. /\ attempts' = attempts \/ attempts' = [attempts EXCEPT ![a] = Detached(attempts[a])]
          /\ UNCHANGED <<handle, st, phase, view>> /\ job' = NoJob
      BY <1>4, <2>1 DEF Fallback, SamePhase
    <2>4. Elsewhere(a) /\ Trimmed(attempts[a], attempts'[a])
      BY <2>1, <2>2, <2>3, Rows, TrimmedBy DEF Elsewhere
    <2>5. Tried(a)'
      BY <2>1, <2>3, <2>4, KeepsTried DEF KeepsAttempt, GoesUp
    <2>6. Tells(a) /\ GoesUp
      BY <2>3 DEF Tells, SameRow, SameShown, GoesUp
    <2>7. LooksAtPlain'
      BY <1>4, <2>1, WorkLooks DEF Fallback
    <2> QED  BY <2>1, <2>3, <2>4, <2>5, <2>6, <2>7, NoJobTells, Tell
  <1> QED  BY <1>1, <1>2, <1>3, <1>4 DEF Commands

-----------------------------------------------------------------------------
(* Launching a child *)

LEMMA StopFirstTells ==
    ASSUME Telling, job.step # "idle", job.op # "recover",
           job' = [job EXCEPT !.step = "stop1", !.keep = TRUE]
    PROVE  JobTells' /\ job'.a = job.a /\ job'.attempt = job.attempt
  <1>1. job \in JobRow /\ job.attempt = 0
    BY AtWork
  <1>2. job'.step = "stop1" /\ job'.op = job.op /\ job'.a = job.a /\ job'.attempt = job.attempt
    BY <1>1 DEF JobRow
  <1> QED  BY <1>1, <1>2, FreshTells

LEMMA LaunchFlushTells ==
    ASSUME Telling, LaunchFlush
    PROVE  Truth'
  <1>1. job.step # "idle" /\ job.attempt = 0
    BY AtWork DEF LaunchFlush, OpsAt
  <1>2. UNCHANGED <<st, handle, attempts, phase, view>>
    BY DEF LaunchFlush, SamePhase
  <1>3. JobTells' /\ LooksAtPlain' /\ GoesUp
    BY <1>1, <1>2, StillTells, ReturnTells, WorkLooks DEF LaunchFlush, GoesUp, SamePhase
  <1> QED  BY <1>1, <1>2, <1>3, TellNowhere

LEMMA SettleTidyTells ==
    ASSUME Telling, SettleTidy
    PROVE  Truth'
  <1>1. PICK a \in Accounts : /\ a = job.a /\ a = A /\ Typed /\ job.step # "idle" /\ phase # "down"
                              /\ job.step = "settle" /\ job.attempt = 0 /\ job.op = "start"
    BY AtWork DEF SettleTidy, OpsAt
  <1>2. LooksAtPlain' /\ GoesUp
    BY <1>1, WorkLooks DEF SettleTidy, SamePhase, GoesUp
  <1>3. CASE TidyDone(a) /\ UNCHANGED job
    <2>1. JobTells'
      BY <1>1, <1>3, FreshTells
    <2> QED  BY <1>1, <1>2, <1>3, <2>1, TidyTells, Tell DEF Tells
  <1>4. CASE TidyFails(a)
    <2>1. Hides(a) /\ Elsewhere(a) /\ UNCHANGED <<handle, attempts>>
      BY <1>4, WornTells DEF TidyFails
    <2>2. attempts[a] \in Tries
      BY <1>1, RowsOf DEF Typed
    <2>3. Tried(a)'
      BY <1>1, <1>2, <2>1, <2>2, TrimmedBy, KeepsTried DEF KeepsAttempt
    <2>4. JobTells'
      BY <1>1, <1>3, <1>4, ReturnTells, StopFirstTells, FreshTells DEF SettleTidy
    <2> QED  BY <1>1, <1>2, <2>1, <2>3, <2>4, Tell DEF Tells
  <1> QED  BY <1>1, <1>3, <1>4 DEF SettleTidy

LEMMA SettleTells ==
    ASSUME Telling, SettleStop \/ SettleFree \/ Adopt \/ SettleDead
    PROVE  Truth'
  <1>1. PICK a \in Accounts : /\ a = job.a /\ a = A /\ Typed /\ job.step # "idle" /\ phase # "down"
                              /\ job.attempt = 0 /\ job.op = "start"
    BY AtWork DEF SettleStop, SettleFree, Adopt, SettleDead, Settled, OpsAt
  <1>2. LooksAtPlain' /\ GoesUp
    BY <1>1, WorkLooks DEF SettleStop, SettleFree, Adopt, SettleDead, Settled, SamePhase, GoesUp
  <1>3. CASE SettleStop
    BY <1>1, <1>2, <1>3, StopFirstTells, TellNowhere DEF SettleStop
  <1>4. CASE SettleFree
    BY <1>1, <1>2, <1>4, SteppedTells, TellNowhere DEF SettleFree
  <1>5. CASE Adopt
    <2>1. JobTells'
      BY <1>5, ReturnTells, NoJobTells DEF Adopt
    <2>2. CASE UNCHANGED handle
      BY <1>1, <1>2, <1>5, <2>1, <2>2, TellNowhere DEF Adopt
    <2>3. CASE handle' = [handle EXCEPT ![A].cmd = job.cmd]
      <3> DEFINE h == [handle[a] EXCEPT !.cmd = job.cmd]
      <3>1. handle[a] \in HandleRow /\ attempts[a] \in Tries
        BY <1>1, RowsOf DEF Typed
      <3>2. /\ h.run = handle[a].run /\ h.confirmed = handle[a].confirmed
            /\ h.cleanup = handle[a].cleanup /\ h.attempt = handle[a].attempt
        BY <3>1 DEF HandleRow
      <3>3. handle' = [handle EXCEPT ![a] = h] /\ UNCHANGED <<st, attempts>>
        BY <1>1, <1>5, <2>3 DEF Adopt
      <3> HIDE DEF h
      <3>4. SameRow(a) /\ SameShown(a) /\ Elsewhere(a)
        BY <1>1, <3>2, <3>3, Rows DEF SameRow, SameShown, Elsewhere
      <3>5. Tried(a)'
        BY <1>1, <1>2, <3>1, <3>3, <3>4, TrimmedBy, KeepsTried DEF KeepsAttempt, SameRow
      <3> QED  BY <1>1, <1>2, <2>1, <3>4, <3>5, Tell DEF Tells
    <2> QED  BY <1>5, <2>2, <2>3 DEF Adopt
  <1>6. CASE SettleDead
    <2>1. CASE RecordExit(A, FALSE, FALSE) /\ Step("launch")
      <3>1. Loses(a) /\ Elsewhere(a) /\ Tried(a)'
        BY <1>1, <2>1, ExitTells
      <3> QED  BY <1>1, <1>2, <2>1, <3>1, SteppedTells, Tell DEF Tells
    <2>2. CASE Return("failed") /\ UNCHANGED <<st, attempts, handle>>
      BY <1>1, <1>2, <2>2, ReturnTells, TellNowhere
    <2> QED  BY <1>6, <2>1, <2>2 DEF SettleDead
  <1> QED  BY <1>3, <1>4, <1>5, <1>6

LEMMA LaunchTells ==
    ASSUME Telling, Launch
    PROVE  Truth'
  <1>1. PICK a \in Accounts : /\ a = job.a /\ a = A /\ Typed /\ job.step # "idle"
                              /\ job \in JobRow /\ (job.op # "recover" => job.attempt = 0)
    BY AtWork DEF Launch
  <1>2. LooksAtPlain' /\ GoesUp
    BY <1>1, WorkLooks DEF Launch, SamePhase, GoesUp
  <1>3. /\ job'.a = job.a /\ job'.attempt = job.attempt /\ job'.op = job.op
        /\ job'.step \in {"spawn", "stop1"}
    <2> DEFINE name == IF job.op \in {"start", "recover"} THEN "spawn" ELSE "stop1"
    <2>1. PICK r : job' = [job EXCEPT !.run = r, !.step = name, !.keep = TRUE]
      BY DEF Launch
    <2>2. name \in {"spawn", "stop1"}
      OBVIOUS
    <2> HIDE DEF name
    <2> QED  BY <1>1, <2>1, <2>2 DEF JobRow
  <1>4. JobTells'
    BY <1>1, <1>3, FreshTells
  <1>5. CASE job.op \in {"start", "restart"}
    <2> DEFINE spared == IF job.op = "restart" /\ Alive(A) THEN handle[A].attempt ELSE 0
               count  == IF job.cmd # 0 THEN 0 ELSE st[a].count
               shown  == IF job.op = "restart" THEN "restarting" ELSE st[a].observed
               state  == [st[a] EXCEPT !.retry = "none", !.count = count, !.observed = shown]
               tries  == Abandoned(attempts[a], spared)
    <2>1. /\ attempts' = [attempts EXCEPT ![a] = tries] /\ handle' = handle
          /\ st' = [st EXCEPT ![a] = state]
      BY <1>1, <1>5 DEF Launch
    <2>2. st[a] \in StateRow /\ attempts[a] \in Tries
      BY <1>1, RowsOf DEF Typed
    <2> HIDE DEF count, spared
    <2>3. state.run = st[a].run /\ (state.observed = st[a].observed \/ state.observed # "running")
      BY <2>2 DEF StateRow
    <2>4. Trimmed(attempts[a], tries)
      BY <2>2, TrimmedBy
    <2> HIDE DEF state, tries
    <2>5. Elsewhere(a) /\ st'[a] = state /\ attempts'[a] = tries
      BY <1>1, <2>1, Rows DEF Elsewhere
    <2>6. Tells(a)
      BY <2>1, <2>3, <2>5 DEF Tells, SameRow, SameShown, Hides
    <2>7. Tried(a)'
      BY <1>2, <1>3, <2>1, <2>4, <2>5, KeepsTried DEF KeepsAttempt
    <2> QED  BY <1>1, <1>2, <1>4, <2>5, <2>6, <2>7, Tell
  <1>6. CASE job.op \notin {"start", "restart"}
    BY <1>2, <1>3, <1>4, <1>6, TellNowhere DEF Launch
  <1> QED  BY <1>5, <1>6

(* An operation that fails without a child goes to its handler. *)
LEMMA FailsEmpty ==
    ASSUME Telling, job.step # "idle", Step("failed"), handle' = handle, handle[A].run = 0
    PROVE  JobTells' /\ job'.a = job.a /\ job'.attempt = job.attempt
  <1>1. /\ job'.step = "failed" /\ job'.op = job.op /\ job'.a = job.a /\ job'.attempt = job.attempt
        /\ A = job.a /\ (job.op # "recover" => job.attempt = 0)
    BY AtWork, StepTells
  <1> QED  BY <1>1 DEF JobTells, StopShows, TidiesCleanup, RecoversAlone, CarriesAttempt

LEMMA LaunchRefusedTells ==
    ASSUME Telling, LaunchRefused
    PROVE  Truth'
  <1>1. job.step # "idle" /\ (job.op # "recover" => job.attempt = 0)
    BY AtWork DEF LaunchRefused
  <1>2. LooksAtPlain' /\ GoesUp /\ UNCHANGED <<st, handle, attempts>>
    BY <1>1, WorkLooks DEF LaunchRefused, SamePhase, GoesUp
  <1>3. CASE Return("failed") /\ job.op = "authenticate"
    BY <1>1, <1>2, <1>3, ReturnTells, TellNowhere
  <1>4. CASE Step("failed") /\ job.op = "recover"
    <2>1. handle[A].run = 0
      BY <1>4, AtWork DEF LaunchRefused, Telling, Filing, Owning, Ownership, Hands, EmptyHanded
    <2> QED  BY <1>1, <1>2, <1>4, <2>1, FailsEmpty, TellNowhere
  <1>5. CASE Step("failed") /\ job.op # "recover"
    BY <1>1, <1>2, <1>5, SteppedTells, StepTells, TellNowhere
  <1> QED  BY <1>3, <1>4, <1>5 DEF LaunchRefused

-----------------------------------------------------------------------------
(* Spawning a child *)

LEMMA AtEmpty ==
    ASSUME Telling, job.step = "spawn"
    PROVE  \E a \in Accounts :
              /\ a = job.a /\ a = A /\ Typed /\ job.step # "idle" /\ phase # "down" /\ job.run # 0
              /\ handle[a].run = 0 /\ handle[a].attempt = 0 /\ ~handle[a].confirmed
              /\ ~handle[a].cleanup /\ st[a].observed # "running"
              /\ (job.op # "recover" => job.attempt = 0)
  <1>1. /\ A \in Accounts /\ A = job.a /\ Typed /\ job.step # "idle" /\ phase # "down"
        /\ job.run # 0 /\ handle[A].run = 0 /\ (job.op # "recover" => job.attempt = 0)
    BY Spawning, AtWork DEF Telling
  <1>2. Bare(A) /\ Truthful(A)
    BY <1>1, TellingTypes DEF Told
  <1> QED  BY <1>1, <1>2 DEF Bare, Truthful

(* The attempt of a recovery that ends without a child fails. *)
LEMMA RecoveryEnds ==
    ASSUME Telling, NEW a \in Accounts, phase # "down",
           handle[a].attempt = job.attempt \/ handle[a].attempt = 0
    PROVE  LET tries == Failed(attempts[a], job.attempt)
           IN  tries \in Tries /\ NoneStarted(tries) /\ AtMostOne(tries)
  <1>1. attempts[a] \in Tries /\ 0 \notin AttemptIds
    BY TellingTypes, RowsOf DEF Typed, AttemptIds
  <1>2. \A j \in AttemptIds : AttemptHeld(a, j) => j = job.attempt
    BY <1>1 DEF AttemptHeld
  <1> QED  BY <1>1, <1>2, LetGo, TriesType

LEMMA SpawnCancelledTells ==
    ASSUME Telling, SpawnCancelled
    PROVE  Truth'
  <1>1. PICK a \in Accounts :
              /\ a = job.a /\ a = A /\ Typed /\ job.step # "idle" /\ phase # "down"
              /\ handle[a].run = 0 /\ handle[a].attempt = 0 /\ (job.op # "recover" => job.attempt = 0)
    BY AtEmpty DEF SpawnCancelled
  <1>2. LooksAtPlain' /\ GoesUp /\ handle' = handle
    BY <1>1, WorkLooks DEF SpawnCancelled, SamePhase, GoesUp
  <1>3. CASE job.op = "recover"
    <2> DEFINE tries == Failed(attempts[a], job.attempt)
               state == [st[a] EXCEPT !.run = 0, !.retry = "none", !.observed = "stopped"]
    <2>1. NoneStarted(tries) /\ AtMostOne(tries)
      BY <1>1, RecoveryEnds
    <2>2. /\ attempts' = [attempts EXCEPT ![a] = tries] /\ st' = [st EXCEPT ![a] = state]
          /\ job' = NoJob
      BY <1>1, <1>3 DEF SpawnCancelled
    <2>3. state.observed = "stopped"
      BY <1>1, RowsOf DEF Typed, StateRow
    <2> HIDE DEF tries, state
    <2>4. Elsewhere(a) /\ st'[a] = state /\ attempts'[a] = tries
      BY <1>1, <1>2, <2>2, Rows DEF Elsewhere
    <2>5. Hides(a)
      BY <1>1, <1>2, <2>3, <2>4 DEF Hides, SameRow
    <2>6. Tried(a)'
      BY <2>1, <2>4, NoneTried
    <2> QED  BY <1>1, <1>2, <2>2, <2>4, <2>5, <2>6, NoJobTells, Tell DEF Tells
  <1>4. CASE job.op # "recover"
    BY <1>1, <1>2, <1>4, SteppedTells, TellNowhere DEF SpawnCancelled
  <1> QED  BY <1>3, <1>4

LEMMA SpawnFailsTells ==
    ASSUME Telling, SpawnFails
    PROVE  Truth'
  <1>1. /\ job.step # "idle" /\ handle[A].run = 0
    BY AtEmpty DEF SpawnFails
  <1>2. LooksAtPlain' /\ GoesUp /\ UNCHANGED <<handle, st, attempts>>
    BY <1>1, WorkLooks DEF SpawnFails, SamePhase, GoesUp, db
  <1>3. JobTells' /\ job'.a = job.a /\ job'.attempt = job.attempt
    BY <1>1, <1>2, FailsEmpty DEF SpawnFails
  <1> QED  BY <1>2, <1>3, TellNowhere

LEMMA SpawnTells ==
    ASSUME Telling, Spawn \/ SpawnUnrecorded
    PROVE  Truth'
  <1>1. PICK a \in Accounts :
              /\ a = job.a /\ a = A /\ Typed /\ job.step # "idle" /\ phase # "down" /\ job.run # 0
              /\ handle[a].run = 0 /\ handle[a].attempt = 0
              /\ st[a].observed # "running" /\ (job.op # "recover" => job.attempt = 0)
    BY AtEmpty DEF Spawn, SpawnUnrecorded
  <1>2. LooksAtPlain' /\ GoesUp /\ attempts' = attempts
    BY <1>1, WorkLooks DEF Spawn, SpawnUnrecorded, SamePhase, GoesUp, db
  <1>3. ASSUME handle'[a].attempt = job.attempt
        PROVE  Tried(a)'
    <2>1. Tried(a) /\ 0 \notin AttemptIds
      BY DEF Telling, Truth, AttemptIds
    <2> QED  BY <1>1, <1>2, <1>3, <2>1 DEF Tried, AttemptHeld
  <1>4. CASE Spawn
    <2> DEFINE state == [st[a] EXCEPT !.run = job.run, !.observed = "starting", !.retry = "none"]
    <2>1. /\ handle' = [handle EXCEPT ![a] = NewHandle] /\ st' = [st EXCEPT ![a] = state]
          /\ job' = NoJob
      BY <1>1, <1>4 DEF Spawn
    <2>2. state.observed = "starting" /\ state.run = job.run
      BY <1>1, RowsOf DEF Typed, StateRow
    <2>3. /\ NewHandle.run = job.run /\ ~NewHandle.confirmed /\ ~NewHandle.cleanup
          /\ NewHandle.attempt = job.attempt
      BY DEF NewHandle, HandleOf
    <2> HIDE DEF state
    <2>4. Elsewhere(a) /\ st'[a] = state /\ handle'[a] = NewHandle
      BY <1>1, <1>2, <2>1, Rows DEF Elsewhere
    <2>5. Starts(a)
      BY <1>1, <2>2, <2>3, <2>4 DEF Starts
    <2> QED  BY <1>1, <1>2, <1>3, <2>1, <2>3, <2>4, <2>5, NoJobTells, Tell DEF Tells
  <1>5. CASE SpawnUnrecorded
    <2> DEFINE h == [NewHandle EXCEPT !.cleanup = TRUE]
               name == IF job.op = "recover" THEN "failed" ELSE "tidy"
    <2>1. /\ handle' = [handle EXCEPT ![a] = h] /\ st' = st /\ Step(name)
      BY <1>1, <1>5 DEF SpawnUnrecorded, db
    <2>2. h.run = job.run /\ ~h.confirmed /\ h.cleanup /\ h.attempt = job.attempt
      BY DEF NewHandle, HandleOf
    <2> HIDE DEF h, name
    <2>3. Elsewhere(a) /\ handle'[a] = h
      BY <1>1, <1>2, <2>1, Rows DEF Elsewhere
    <2>4. Starts(a)
      BY <1>1, <2>1, <2>2, <2>3 DEF Starts
    <2>5. job'.step = name /\ job'.op = job.op /\ job'.a = a /\ job'.attempt = job.attempt
      BY <1>1, <2>1, StepTells
    <2>6. JobTells'
      BY <1>1, <2>2, <2>3, <2>5 DEF name, JobTells, StopShows, TidiesCleanup, RecoversAlone,
                                    CarriesAttempt
    <2> QED  BY <1>1, <1>2, <1>3, <2>2, <2>3, <2>4, <2>6, Tell DEF Tells
  <1> QED  BY <1>4, <1>5

LEMMA SpawnTidyTells ==
    ASSUME Telling, SpawnTidy
    PROVE  Truth'
  <1>1. PICK a \in Accounts :
              /\ a = job.a /\ a = A /\ Typed /\ job.step = "tidy" /\ job.step # "idle"
              /\ phase # "down" /\ (job.op # "recover" => job.attempt = 0)
    BY AtWork DEF SpawnTidy
  <1>2. LooksAtPlain' /\ GoesUp
    BY <1>1, WorkLooks DEF SpawnTidy, SamePhase, GoesUp
  <1>3. job.attempt = 0 \/ job.attempt = handle[a].attempt
    BY <1>1, TellingTypes DEF JobTells, RecoversAlone
  <1>4. JobTells'
    BY <1>1, NoJobTells, SteppedTells DEF SpawnTidy
  <1>5. CASE TidyDone(a)
    BY <1>1, <1>2, <1>3, <1>4, <1>5, TidyTells, Tell DEF Tells
  <1>6. CASE TidyFails(a)
    <2>1. Hides(a) /\ Elsewhere(a) /\ UNCHANGED <<handle, attempts>>
      BY <1>6, WornTells DEF TidyFails
    <2>2. attempts[a] \in Tries
      BY <1>1, RowsOf DEF Typed
    <2>3. Tried(a)'
      BY <1>1, <1>2, <1>3, <2>1, <2>2, TrimmedBy, KeepsTried DEF KeepsAttempt
    <2> QED  BY <1>1, <1>2, <1>4, <2>1, <2>3, Tell DEF Tells
  <1> QED  BY <1>1, <1>5, <1>6 DEF SpawnTidy

-----------------------------------------------------------------------------
(* The handlers of a launch that failed *)

LEMMA LaunchFailedTells ==
    ASSUME Telling, LaunchFailed
    PROVE  Truth'
  <1>1. PICK a \in Accounts :
              /\ a = job.a /\ a = A /\ Typed /\ job.step # "idle" /\ phase # "down"
              /\ job.attempt = 0
    BY AtWork DEF LaunchFailed
  <1>2. LooksAtPlain' /\ GoesUp /\ handle' = handle /\ JobTells'
    BY <1>1, WorkLooks, ReturnTells DEF LaunchFailed, SamePhase, GoesUp
  <1>3. st[a] \in StateRow /\ attempts[a] \in Tries /\ handle[a] \in HandleRow
    BY <1>1, RowsOf DEF Typed
  <1>4. Bare(a) /\ Plain(a) /\ Named(a) /\ Tried(a)
    BY TellingTypes DEF Told, Telling, Truth
  <1> DEFINE retry == IF Survivor THEN "none" ELSE "later"
             state == [st[a] EXCEPT !.observed = ShownAfterFailure, !.retry = retry]
             plan  == Scheduled(a, state, attempts[a], "later")
             halted == [st[a] EXCEPT !.observed = "stopped", !.retry = "none"]
  <1>5. \/ st' = [st EXCEPT ![a] = halted] /\ attempts' = attempts
        \/ UNCHANGED <<st, attempts>>
        \/ /\ ~Owned(a)
           /\ st' = [st EXCEPT ![a] = plan.state] /\ attempts' = [attempts EXCEPT ![a] = plan.tries]
        \/ st' = [st EXCEPT ![a] = state] /\ attempts' = attempts
    BY <1>1 DEF LaunchFailed
  <1>6. ShownAfterFailure \in {"running", "degraded"} /\ retry \in {"none", "later"}
    BY DEF ShownAfterFailure
  <1>7. state \in StateRow /\ state.run = st[a].run /\ state.observed = ShownAfterFailure
    <2> HIDE DEF retry
    <2> QED  BY <1>3, <1>6 DEF StateRow, Observed
  <1>8. halted.run = st[a].run /\ halted.observed = "stopped"
    BY <1>3 DEF StateRow
  <1> HIDE DEF state, halted, retry
  <1>9. ASSUME attempts' = attempts
        PROVE  Tried(a)'
    BY <1>1, <1>2, <1>3, <1>9, TrimmedBy, KeepsTried DEF KeepsAttempt
  <1>10. CASE st' = [st EXCEPT ![a] = halted] /\ attempts' = attempts
    <2>1. Elsewhere(a) /\ st'[a] = halted
      BY <1>1, <1>2, <1>10, ElsewhereBy
    <2>2. Hides(a)
      BY <1>2, <1>8, <2>1 DEF Hides, SameRow
    <2> QED  BY <1>1, <1>2, <1>9, <1>10, <2>1, <2>2, Tell DEF Tells
  <1>11. CASE UNCHANGED <<st, attempts>>
    BY <1>1, <1>2, <1>11, TellNowhere
  <1>12. CASE /\ ~Owned(a) /\ st' = [st EXCEPT ![a] = plan.state]
              /\ attempts' = [attempts EXCEPT ![a] = plan.tries]
    <2>1. handle[a].run = 0 /\ handle[a].attempt = 0 /\ 0 \notin AttemptIds
      BY <1>4, <1>12 DEF Owned, Bare, AttemptIds
    <2>2. NoneStarted(attempts[a]) /\ AtMostOne(attempts[a])
      BY <1>1, <1>4, <2>1 DEF Tried, NoneStarted, AttemptHeld
    <2>3. /\ plan.state.observed # "running" /\ NoneStarted(plan.tries) /\ AtMostOne(plan.tries)
      BY <1>3, <1>7, <2>2, ScheduledShown, ScheduledTried
    <2> HIDE DEF plan
    <2>4. Elsewhere(a) /\ st'[a] = plan.state /\ attempts'[a] = plan.tries
      <3>1. st'[a] = plan.state /\ \A b \in Accounts \ {a} : st'[b] = st[b]
        BY <1>1, <1>12, Rows
      <3>2. attempts'[a] = plan.tries /\ \A b \in Accounts \ {a} : attempts'[b] = attempts[b]
        BY <1>1, <1>12, Rows
      <3> QED  BY <1>2, <3>1, <3>2 DEF Elsewhere
    <2>5. Hides(a)
      BY <1>2, <2>1, <2>3, <2>4 DEF Hides, SameRow
    <2>6. Tried(a)'
      BY <2>3, <2>4, NoneTried
    <2> QED  BY <1>1, <1>2, <2>4, <2>5, <2>6, Tell DEF Tells
  <1>13. CASE st' = [st EXCEPT ![a] = state] /\ attempts' = attempts
    <2>1. Elsewhere(a) /\ st'[a] = state
      BY <1>1, <1>2, <1>13, ElsewhereBy
    <2>2. CASE Survivor /\ handle[A].confirmed
      <3>1. handle[a].run # 0 /\ handle[a].confirmed
        BY <1>1, <2>2 DEF Survivor, Alive, Owned
      <3>2. Runs(a)
        BY <1>2, <1>4, <1>7, <2>1, <3>1 DEF Runs, Plain, Named
      <3> QED  BY <1>1, <1>2, <1>9, <1>13, <2>1, <3>2, Tell DEF Tells
    <2>3. CASE ~(Survivor /\ handle[A].confirmed)
      <3>1. Hides(a)
        BY <1>2, <1>7, <2>1, <2>3 DEF Hides, SameRow, ShownAfterFailure
      <3> QED  BY <1>1, <1>2, <1>9, <1>13, <2>1, <3>1, Tell DEF Tells
    <2> QED  BY <2>2, <2>3
  <1> QED  BY <1>5, <1>10, <1>11, <1>12, <1>13

LEMMA ResetFailedTells ==
    ASSUME Telling, ResetFailed
    PROVE  Truth'
  <1>1. job.step # "idle" /\ job.attempt = 0
    BY AtWork DEF ResetFailed
  <1> QED  BY <1>1, WorkLooks, ReturnTells, TellNowhere DEF ResetFailed, SamePhase, GoesUp

LEMMA RecoveryFailedTells ==
    ASSUME Telling, RecoveryFailed
    PROVE  Truth'
  <1>1. PICK a \in Accounts :
              /\ a = job.a /\ a = A /\ Typed /\ job.step # "idle" /\ phase # "down"
              /\ job.op = "recover" /\ job.step = "failed"
    BY AtWork DEF RecoveryFailed
  <1>2. LooksAtPlain' /\ GoesUp /\ handle' = handle
    BY <1>1, WorkLooks DEF RecoveryFailed, SamePhase, GoesUp
  <1>3. handle[a].run = 0 \/ (handle[a].cleanup /\ handle[a].attempt = job.attempt)
    BY <1>1, TellingTypes DEF JobTells, RecoversAlone
  <1>4. handle[a].run = 0 => handle[a].attempt = 0
    BY TellingTypes DEF Told, Bare
  <1> DEFINE gone   == [st[a] EXCEPT !.run = 0]
             tries  == Failed(attempts[a], job.attempt)
             plan   == Scheduled(a, gone, tries, "later")
             halted == [gone EXCEPT !.observed = "stopped", !.retry = "none"]
  <1>5. \/ st' = [st EXCEPT ![a] = halted] /\ attempts' = [attempts EXCEPT ![a] = tries]
        \/ /\ st' = [st EXCEPT ![a] = plan.state]
           /\ attempts' = [attempts EXCEPT ![a] = plan.tries]
    BY <1>1 DEF RecoveryFailed
  <1>6. tries \in Tries /\ NoneStarted(tries) /\ AtMostOne(tries)
    BY <1>1, <1>3, <1>4, RecoveryEnds
  <1>7. gone \in StateRow /\ halted.observed # "running"
    <2>1. st[a] \in StateRow
      BY <1>1, RowsOf DEF Typed
    <2>2. gone \in StateRow
      BY <2>1, StateFields, Settable
    <2> HIDE DEF gone
    <2> QED  BY <2>2 DEF StateRow
  <1> HIDE DEF gone, tries, halted
  <1>8. /\ plan.state.observed # "running" /\ NoneStarted(plan.tries) /\ AtMostOne(plan.tries)
    BY <1>6, <1>7, ScheduledShown, ScheduledTried
  <1> HIDE DEF plan
  <1>9. Elsewhere(a) /\ st'[a] \in {halted, plan.state} /\ attempts'[a] \in {tries, plan.tries}
    <2>1. CASE st' = [st EXCEPT ![a] = halted] /\ attempts' = [attempts EXCEPT ![a] = tries]
      <3>1. attempts'[a] = tries /\ \A b \in Accounts \ {a} : attempts'[b] = attempts[b]
        BY <1>1, <2>1, AttemptsRow
      <3> QED  BY <1>1, <1>2, <2>1, <3>1, ElsewhereBy
    <2>2. CASE st' = [st EXCEPT ![a] = plan.state] /\ attempts' = [attempts EXCEPT ![a] = plan.tries]
      <3>1. attempts'[a] = plan.tries /\ \A b \in Accounts \ {a} : attempts'[b] = attempts[b]
        BY <1>1, <2>2, AttemptsRow
      <3> QED  BY <1>1, <1>2, <2>2, <3>1, ElsewhereBy
    <2> QED  BY <1>5, <2>1, <2>2
  <1>10. Hides(a)
    BY <1>2, <1>3, <1>7, <1>8, <1>9 DEF Hides, SameRow
  <1>11. Tried(a)'
    BY <1>6, <1>8, <1>9, NoneTried
  <1>12. JobTells'
    <2>1. CASE Provisional
      <3>1. /\ job'.step = "tidy" /\ job'.op = job.op /\ job'.a = job.a
            /\ job'.attempt = job.attempt
        BY <1>1, <2>1, StepTells DEF RecoveryFailed
      <3>2. handle[a].cleanup /\ handle[a].attempt = job.attempt
        BY <1>1, <1>3, <2>1 DEF Provisional
      <3> QED  BY <1>1, <1>2, <3>1, <3>2 DEF JobTells, StopShows, TidiesCleanup, RecoversAlone,
                                             CarriesAttempt
    <2>2. CASE ~Provisional
      BY <2>2, NoJobTells DEF RecoveryFailed
    <2> QED  BY <2>1, <2>2
  <1> QED  BY <1>1, <1>2, <1>9, <1>10, <1>11, <1>12, Tell DEF Tells

LEMMA LaunchingTells ==
    ASSUME Telling, Launching
    PROVE  Truth'
  BY LaunchFlushTells, SettleTidyTells, SettleTells, LaunchTells, LaunchRefusedTells,
     SpawnCancelledTells, SpawnFailsTells, SpawnTells, SpawnTidyTells, LaunchFailedTells,
     ResetFailedTells, RecoveryFailedTells DEF Launching

-----------------------------------------------------------------------------
(* Stopping a child *)

LEMMA AtStopping ==
    ASSUME Telling, job.step \in {"stop1", "stop2", "stop3"}
    PROVE  \E a \in Accounts :
              /\ a = job.a /\ a = A /\ Typed /\ job.step # "idle" /\ phase # "down"
              /\ job.op \in Ops \ {"recover"} /\ job.attempt = 0
  BY AtWork DEF OpsAt

LEMMA StopFindsDeadTells ==
    ASSUME Telling, StopFindsDead
    PROVE  Truth'
  <1>1. PICK a \in Accounts :
              /\ a = job.a /\ a = A /\ Typed /\ job.step # "idle" /\ phase # "down"
              /\ job.op # "recover" /\ job.attempt = 0 /\ job.step = "stop1"
    BY AtStopping DEF StopFindsDead
  <1>2. CASE RecordExit(a, FALSE, TRUE) /\ SamePhase /\ UNCHANGED job
    <2>1. JobTells'
      BY <1>1, <1>2, FreshTells
    <2>2. LooksAtPlain' /\ GoesUp
      BY <1>1, <1>2, WorkLooks DEF SamePhase, GoesUp
    <2> QED  BY <1>1, <1>2, <2>1, <2>2, ExitTells, Tell DEF Tells
  <1>3. CASE StopRaises /\ UNCHANGED <<st, attempts, handle>>
    BY <1>1, <1>3, StopRaisesTells, TellNowhere
  <1> QED  BY <1>1, <1>2, <1>3 DEF StopFindsDead

LEMMA StopBeginsTells ==
    ASSUME Telling, StopBegins
    PROVE  Truth'
  <1>1. PICK a \in Accounts :
              /\ a = job.a /\ a = A /\ Typed /\ job.step # "idle" /\ phase # "down"
              /\ job.op # "recover" /\ job.attempt = 0
    BY AtStopping DEF StopBegins
  <1> DEFINE state == [st[a] EXCEPT !.observed = "stopping", !.retry = "none"]
  <1>2. /\ st' = [st EXCEPT ![a] = state] /\ UNCHANGED <<handle, attempts>> /\ Step("stop2")
    BY <1>1 DEF StopBegins
  <1>3. attempts[a] \in Tries /\ state.observed = "stopping" /\ state.run = st[a].run
    BY <1>1, RowsOf DEF Typed, StateRow
  <1> HIDE DEF state
  <1>4. st'[a] = state /\ Elsewhere(a)
    BY <1>1, <1>2, ElsewhereBy
  <1>5. Hides(a)
    BY <1>2, <1>3, <1>4 DEF Hides, SameRow
  <1>6. LooksAtPlain' /\ GoesUp
    BY <1>1, WorkLooks DEF StopBegins, SamePhase, GoesUp
  <1>7. Tried(a)'
    BY <1>1, <1>2, <1>3, <1>6, TrimmedBy, KeepsTried DEF KeepsAttempt
  <1>8. JobTells'
    <2>1. job'.step = "stop2" /\ job'.op = job.op /\ job'.a = a /\ job'.attempt = 0
      BY <1>1, <1>2, StepTells
    <2> QED  BY <1>1, <1>3, <1>4, <2>1 DEF JobTells, StopShows, TidiesCleanup, RecoversAlone,
                                          CarriesAttempt
  <1> QED  BY <1>1, <1>4, <1>5, <1>6, <1>7, <1>8, Tell DEF Tells

LEMMA TerminateTells ==
    ASSUME Telling, Terminate
    PROVE  Truth'
  <1>1. PICK a \in Accounts :
              /\ a = job.a /\ a = A /\ Typed /\ job.step # "idle" /\ phase # "down"
              /\ job.op # "recover" /\ job.attempt = 0 /\ job.step = "stop2"
    BY AtStopping DEF Terminate
  <1>2. st' = st /\ Step("stop3") /\ st[a].observed # "running"
    BY <1>1, TellingTypes DEF Terminate, JobTells, StopShows
  <1>3. LooksAtPlain' /\ GoesUp
    BY <1>1, WorkLooks DEF Terminate, SamePhase, GoesUp
  <1>4. job'.step = "stop3" /\ job'.op = job.op /\ job'.a = a /\ job'.attempt = 0
    BY <1>1, <1>2, StepTells
  <1>5. JobTells'
    BY <1>1, <1>2, <1>4 DEF JobTells, StopShows, TidiesCleanup, RecoversAlone, CarriesAttempt
  <1>6. CASE Owned(a)
    <2> DEFINE tries == Failed(attempts[a], handle[a].attempt)
    <2>1. Forget(a) /\ attempts' = [attempts EXCEPT ![a] = tries]
      BY <1>1, <1>6 DEF Terminate
    <2>2. NoneStarted(tries) /\ AtMostOne(tries)
      BY <1>1, LosesTried
    <2> HIDE DEF tries
    <2>3. attempts'[a] = tries /\ Elsewhere(a)
      BY <1>1, <1>2, <2>1, Rows, ForgetLoses DEF Elsewhere
    <2>4. Loses(a)
      BY <1>1, <1>2, <2>1, ForgetLoses DEF Loses
    <2> QED  BY <1>1, <1>3, <1>5, <2>2, <2>3, <2>4, NoneTried, Tell DEF Tells
  <1>7. CASE ~Owned(a)
    BY <1>1, <1>2, <1>3, <1>5, <1>7, TellNowhere DEF Terminate
  <1> QED  BY <1>6, <1>7

LEMMA StopFailsTells ==
    ASSUME Telling, TerminateFails \/ CloseFails
    PROVE  Truth'
  <1>1. PICK a \in Accounts :
              /\ a = job.a /\ a = A /\ Typed /\ job.step # "idle" /\ phase # "down"
              /\ job.attempt = 0 /\ job.step = "stop2"
    BY AtStopping DEF TerminateFails, CloseFails
  <1>2. JobTells' /\ LooksAtPlain' /\ GoesUp
    BY <1>1, StopRaisesTells DEF TerminateFails, CloseFails
  <1>3. handle[a] \in HandleRow /\ attempts[a] \in Tries
    BY <1>1, RowsOf DEF Typed
  <1>4. st' = [st EXCEPT ![a].observed = "degraded"]
    BY <1>1 DEF TerminateFails, CloseFails
  <1>5. CASE TerminateFails
    <2>1. Hides(a) /\ Elsewhere(a) /\ UNCHANGED <<handle, attempts>>
      BY <1>4, <1>5, WornTells DEF TerminateFails
    <2>2. Tried(a)'
      BY <1>1, <1>2, <1>3, <2>1, TrimmedBy, KeepsTried DEF KeepsAttempt
    <2> QED  BY <1>1, <1>2, <2>1, <2>2, Tell DEF Tells
  <1>6. CASE CloseFails
    <2> DEFINE tries == Failed(attempts[a], handle[a].attempt)
               h     == [handle[a] EXCEPT !.planned = StopReason]
    <2>1. attempts' = [attempts EXCEPT ![a] = tries] /\ handle' = [handle EXCEPT ![a] = h]
      BY <1>1, <1>6 DEF CloseFails
    <2>2. NoneStarted(tries) /\ AtMostOne(tries)
      BY <1>1, LosesTried
    <2>3. /\ h.run = handle[a].run /\ h.confirmed = handle[a].confirmed
          /\ h.cleanup = handle[a].cleanup /\ h.attempt = handle[a].attempt
      BY <1>3 DEF HandleRow
    <2> HIDE DEF tries, h
    <2>4. attempts'[a] = tries /\ \A b \in Accounts \ {a} : attempts'[b] = attempts[b]
      BY <1>1, <2>1, Rows
    <2>5. handle'[a] = h /\ \A b \in Accounts \ {a} : handle'[b] = handle[b]
      BY <1>1, <2>1, Rows
    <2>6. /\ st'[a].observed = "degraded" /\ st'[a].run = st[a].run
          /\ \A b \in Accounts \ {a} : st'[b] = st[b]
      BY <1>1, <1>4, Rows
    <2>7. Hides(a) /\ Elsewhere(a)
      BY <2>3, <2>4, <2>5, <2>6 DEF Hides, SameRow, Elsewhere
    <2>8. Tried(a)'
      BY <2>2, <2>4, NoneTried
    <2> QED  BY <1>1, <1>2, <2>7, <2>8, Tell DEF Tells
  <1> QED  BY <1>5, <1>6

LEMMA StopDoneTells ==
    ASSUME Telling, StopDone
    PROVE  Truth'
  <1>1. PICK a \in Accounts :
              /\ a = job.a /\ a = A /\ Typed /\ job.step # "idle" /\ phase # "down"
              /\ job.op \in Ops \ {"recover"} /\ job.attempt = 0 /\ job.step = "stop3"
    BY AtStopping DEF StopDone
  <1>2. handle[a].run = 0
    BY <1>1 DEF Telling, Filing, Owning, Ownership, Hands, EmptyHanded
  <1>3. LooksAtPlain' /\ GoesUp /\ handle' = handle
    BY <1>1, WorkLooks DEF StopDone, SamePhase, GoesUp
  <1>4. FinalObserved # "running"
    BY <1>1 DEF FinalObserved, Ops
  <1> DEFINE state == [st[a] EXCEPT !.run = 0, !.observed = FinalObserved]
             tries == Detached(Abandoned(attempts[a], 0))
  <1>5. /\ st' = [st EXCEPT ![a] = state]
        /\ attempts' = attempts \/ attempts' = [attempts EXCEPT ![a] = tries]
    BY <1>1 DEF StopDone
  <1>6. attempts[a] \in Tries /\ state.observed = FinalObserved
    BY <1>1, RowsOf DEF Typed, StateRow
  <1>7. Trimmed(attempts[a], attempts[a]) /\ Trimmed(attempts[a], tries)
    BY <1>6, TrimmedBy, TrimmedTwice
  <1> HIDE DEF state, tries
  <1>8. st'[a] = state /\ Elsewhere(a) /\ attempts'[a] \in {attempts[a], tries}
    <2>1. st'[a] = state /\ \A b \in Accounts \ {a} : st'[b] = st[b]
      BY <1>1, <1>5, Rows
    <2>2. /\ attempts'[a] \in {attempts[a], tries}
          /\ \A b \in Accounts \ {a} : attempts'[b] = attempts[b]
      <3>1. CASE attempts' = attempts
        BY <3>1
      <3>2. CASE attempts' = [attempts EXCEPT ![a] = tries]
        BY <1>1, <3>2, Rows
      <3> QED  BY <1>5, <3>1, <3>2
    <2> QED  BY <1>3, <2>1, <2>2 DEF Elsewhere
  <1>9. Hides(a)
    BY <1>2, <1>3, <1>4, <1>6, <1>8 DEF Hides, SameRow
  <1>10. Tried(a)'
    BY <1>1, <1>3, <1>7, <1>8, KeepsTried DEF KeepsAttempt
  <1>11. JobTells'
    BY <1>1, ReturnTells, NoJobTells, SteppedTells DEF StopDone, Ops
  <1> QED  BY <1>1, <1>3, <1>8, <1>9, <1>10, <1>11, Tell DEF Tells

LEMMA StoppingTells ==
    ASSUME Telling, Stopping
    PROVE  Truth'
  BY StopFindsDeadTells, StopBeginsTells, TerminateTells, StopFailsTells, StopDoneTells DEF Stopping

-----------------------------------------------------------------------------
(* The passes over the accounts *)

LEMMA VisitTells ==
    ASSUME Telling, NEW a, Visit(a)
    PROVE  /\ a \in Accounts /\ Typed /\ job = NoJob /\ job.attempt = 0
           /\ LooksAtPlain' /\ GoesUp
           /\ (job' = job => JobTells')
  <1>1. a \in Accounts /\ Typed /\ job = NoJob /\ job.attempt = 0
    BY VisitStarts, IdleAttempt DEF Visit, Telling
  <1> QED  BY <1>1, VisitLooks, NoJobTells DEF Visit, GoesUp

LEMMA AuthedRow ==
    ASSUME Typed, NEW a \in Accounts, NEW planned, NEW authed,
           \/ handle' = [handle EXCEPT ![a].authed = authed]
           \/ handle' = [handle EXCEPT ![a].planned = planned, ![a].authed = authed]
    PROVE  SameRow(a) /\ \A b \in Accounts \ {a} : handle'[b] = handle[b]
  <1>1. handle \in [Accounts -> HandleRow] /\ handle[a] \in HandleRow
    BY DEF Typed, TypeOK
  <1> DEFINE h == [handle[a] EXCEPT !.authed = authed]
             i == [handle[a] EXCEPT !.planned = planned, !.authed = authed]
  <1>2. /\ h.run = handle[a].run /\ h.confirmed = handle[a].confirmed
        /\ h.cleanup = handle[a].cleanup /\ h.attempt = handle[a].attempt
    BY <1>1 DEF HandleRow
  <1>3. /\ i.run = handle[a].run /\ i.confirmed = handle[a].confirmed
        /\ i.cleanup = handle[a].cleanup /\ i.attempt = handle[a].attempt
    BY <1>1 DEF HandleRow
  <1>4. handle' = [handle EXCEPT ![a] = h] \/ handle' = [handle EXCEPT ![a] = i]
    BY <1>1
  <1> HIDE DEF h, i
  <1>5. CASE handle' = [handle EXCEPT ![a] = h]
    BY <1>1, <1>2, <1>5 DEF SameRow
  <1>6. CASE handle' = [handle EXCEPT ![a] = i]
    BY <1>1, <1>3, <1>6 DEF SameRow
  <1> QED  BY <1>4, <1>5, <1>6

(* A visit that only notes something in the handle. *)
LEMMA NotedTells ==
    ASSUME Telling, NEW a \in Accounts, SameRow(a), SameShown(a), attempts' = attempts,
           \A b \in Accounts \ {a} : handle'[b] = handle[b] /\ st'[b] = st[b],
           job.attempt = 0, GoesUp, JobTells', LooksAtPlain'
    PROVE  Truth'
  <1>1. attempts[a] \in Tries
    BY TellingTypes, RowsOf DEF Typed
  <1>2. Tried(a)'
    BY <1>1, TrimmedBy, KeepsTried DEF KeepsAttempt, SameRow
  <1> QED  BY <1>2, Tell DEF Tells, Elsewhere

LEMMA HealthLookTells ==
    ASSUME Telling, NEW a \in Accounts, HealthLook(a)
    PROVE  Truth'
  <1>1. job = NoJob /\ job.attempt = 0 /\ view \in Views
    BY IdleAttempt, TellingTypes DEF HealthLook, Typed, TypeOK, Views
  <1>2. /\ job' = job /\ phase' = phase /\ UNCHANGED <<handle, st, attempts>>
        /\ view = NoView /\ ~handle[a].cleanup /\ view' = [view EXCEPT ![a] = desired[a]]
    BY DEF HealthLook, db
  <1>3. LooksAtPlain'
    <2>1. \A b \in Accounts \ {a} : view'[b] = "none"
      BY <1>1, <1>2 DEF NoView
    <2> QED  BY <1>1, <1>2, <2>1 DEF LooksAtPlain, NoJob, NewJob
  <1> QED  BY <1>1, <1>2, <1>3, NoJobTells, TellNowhere DEF GoesUp

LEMMA HealthTidyTells ==
    ASSUME Telling, NEW a \in Accounts, HealthTidy(a)
    PROVE  Truth'
  <1>1. /\ Typed /\ job.attempt = 0 /\ phase # "down" /\ LooksAtPlain' /\ GoesUp /\ JobTells'
    BY VisitTells DEF HealthTidy, Examined
  <1>2. CASE TidyDone(a)
    BY <1>1, <1>2, TidyTells, Tell DEF Tells
  <1>3. CASE TidyFails(a)
    <2>1. Hides(a) /\ Elsewhere(a) /\ UNCHANGED <<handle, attempts>>
      BY <1>3, WornTells DEF TidyFails
    <2>2. attempts[a] \in Tries
      BY <1>1, RowsOf DEF Typed
    <2>3. Tried(a)'
      BY <1>1, <2>1, <2>2, TrimmedBy, KeepsTried DEF KeepsAttempt
    <2> QED  BY <1>1, <2>1, <2>3, Tell DEF Tells
  <1> QED  BY <1>2, <1>3 DEF HealthTidy

LEMMA HealthStopTells ==
    ASSUME Telling, NEW a \in Accounts,
           \/ LoginRefused(a) \/ LoginCutShort(a) \/ LoginTimesOut(a)
           \/ HealthRetry(a) \/ HealthHalt(a)
    PROVE  Truth'
  <1>1. /\ Typed /\ job.attempt = 0 /\ LooksAtPlain' /\ GoesUp
    BY VisitTells DEF LoginRefused, LoginCutShort, LoginTimesOut, HealthRetry, HealthHalt, Examined
  <1>2. UNCHANGED <<st, attempts>>
    BY DEF LoginRefused, LoginCutShort, LoginTimesOut, HealthRetry, HealthHalt, GiveUpLogin
  <1>3. \/ handle' = [handle EXCEPT ![a].authed = Authed(a)]
        \/ handle' = [handle EXCEPT ![a].planned = "authentication_failed", ![a].authed = Authed(a)]
    BY DEF LoginRefused, LoginCutShort, LoginTimesOut, HealthRetry, HealthHalt, GiveUpLogin
  <1>4. \/ job' = [NewJob("authfail", "stop1", a) EXCEPT !.cmd = handle[a].cmd]
        \/ job' = [NewJob("retry", "stop1", a) EXCEPT !.keep = view[a] = "running"]
        \/ job' = NewJob("halt", "stop1", a)
    BY DEF LoginRefused, LoginCutShort, LoginTimesOut, HealthRetry, HealthHalt, GiveUpLogin, Begin
  <1>5. JobTells'
    <2>1. /\ job'.op \in {"authfail", "retry", "halt"} /\ job'.step = "stop1" /\ job'.attempt = 0
      BY <1>4 DEF NewJob
    <2> QED  BY <2>1, FreshTells
  <1>6. SameRow(a) /\ \A b \in Accounts \ {a} : handle'[b] = handle[b]
    BY <1>1, <1>3, AuthedRow
  <1> QED  BY <1>1, <1>2, <1>5, <1>6, NotedTells DEF SameShown

LEMMA HealthExitTells ==
    ASSUME Telling, NEW a \in Accounts, HealthExit(a)
    PROVE  Truth'
  <1>1. /\ Typed /\ job.attempt = 0 /\ phase # "down" /\ LooksAtPlain' /\ GoesUp /\ JobTells'
    BY VisitTells DEF HealthExit, Examined
  <1>2. CASE RecordExit(a, TRUE, FALSE)
    BY <1>1, <1>2, ExitTells, Tell DEF Tells
  <1>3. CASE handle' = [handle EXCEPT ![a].authed = TRUE] /\ UNCHANGED <<st, attempts>>
    BY <1>1, <1>3, AuthedRow, NotedTells DEF SameShown
  <1> QED  BY <1>2, <1>3 DEF HealthExit

LEMMA ConfirmTells ==
    ASSUME Telling, NEW a \in Accounts, Confirm(a)
    PROVE  Truth'
  <1>1. /\ Typed /\ job.attempt = 0 /\ job = NoJob /\ LooksAtPlain' /\ GoesUp /\ JobTells'
        /\ phase = "health" /\ view[a] # "none" /\ handle[a].run # 0
    BY VisitTells DEF Confirm, Examined, Living, Needed, Sound, Alive, Owned
  <1>2. ~handle[a].cleanup /\ st[a].run = handle[a].run /\ Tried(a)
    BY <1>1, TellingTypes DEF LooksAtPlain, Told, Named, Telling, Truth
  <1> DEFINE mine   == handle[a].attempt # 0 /\ attempts[a][handle[a].attempt].outcome = "started"
             closes == handle[a].attempt = 0 \/ mine \/ (desired[a] = "running" /\ NoActiveRestart(a))
             spent  == [attempts[a] EXCEPT ![handle[a].attempt] = [@ EXCEPT !.outcome = "succeeded"]]
             tries  == IF mine THEN spent ELSE attempts[a]
             state  == [st[a] EXCEPT !.observed = "running", !.retry = "none"]
             h      == [handle[a] EXCEPT !.confirmed = TRUE, !.authed = TRUE, !.cmd = 0, !.attempt = 0]
  <1>3. /\ handle' = [handle EXCEPT ![a] = h]
        /\ attempts' = [attempts EXCEPT ![a] = IF closes THEN Detached(tries) ELSE tries]
    BY DEF Confirm
  <1>4. st' = [st EXCEPT ![a] = state]
    BY <1>1 DEF Confirm, Typed, TypeOK
  <1>5. /\ st[a] \in StateRow /\ handle[a] \in HandleRow /\ attempts[a] \in Tries
        /\ \A k \in AttemptIds : attempts[a][k] \in AttemptRow
    BY <1>1, RowsOf DEF Typed, Tries
  <1>6. /\ h.run = handle[a].run /\ h.confirmed /\ h.cleanup = handle[a].cleanup
        /\ state.run = st[a].run
    BY <1>5 DEF HandleRow, StateRow
  <1>7. NoneStarted(tries) /\ Trimmed(attempts[a], tries) /\ tries \in Tries
    <2>1. ASSUME NEW k \in AttemptIds, attempts[a][k].outcome = "started"
          PROVE  k = handle[a].attempt /\ mine
      BY <1>1, <1>2, <2>1 DEF Tried, AttemptHeld, AttemptIds
    <2>2. CASE mine
      <3>1. \A k \in AttemptIds : spent[k] = IF k = handle[a].attempt
                                             THEN [attempts[a][k] EXCEPT !.outcome = "succeeded"]
                                             ELSE attempts[a][k]
        BY <1>5 DEF Tries
      <3>2. spent \in Tries
        <4>1. ASSUME handle[a].attempt \in AttemptIds
              PROVE  [attempts[a][handle[a].attempt] EXCEPT !.outcome = "succeeded"] \in AttemptRow
          BY <1>5, <4>1 DEF AttemptRow
        <4> QED  BY <1>5, <4>1 DEF Tries
      <3>3. tries = spent
        BY <2>2
      <3> HIDE DEF spent, tries, mine
      <3>4. \A k \in AttemptIds : spent[k].outcome # "started"
        BY <1>5, <2>1, <3>1 DEF AttemptRow
      <3>5. \A k \in AttemptIds : k \in Pending(spent) => k \in Pending(attempts[a])
        <4>1. ASSUME NEW k \in AttemptIds, k = handle[a].attempt PROVE k \notin Pending(spent)
          <5>1. spent[k].outcome = "succeeded"
            BY <1>5, <3>1, <4>1 DEF AttemptRow
          <5> QED  BY <5>1 DEF Pending
        <4>2. ASSUME NEW k \in AttemptIds, k # handle[a].attempt PROVE spent[k] = attempts[a][k]
          BY <3>1, <4>2
        <4> QED  BY <4>1, <4>2 DEF Pending
      <3> QED  BY <3>2, <3>3, <3>4, <3>5 DEF NoneStarted, Trimmed
    <2>3. CASE ~mine
      <3>1. tries = attempts[a]
        BY <2>3
      <3> QED  BY <1>5, <2>1, <2>3, <3>1, TrimmedBy DEF NoneStarted
    <2> QED  BY <2>2, <2>3
  <1> HIDE DEF tries, closes, h, state
  <1>8. attempts'[a] \in {tries, Detached(tries)} /\ \A b \in Accounts \ {a} : attempts'[b] = attempts[b]
    <2> DEFINE new == IF closes THEN Detached(tries) ELSE tries
    <2>1. new \in {tries, Detached(tries)} /\ attempts' = [attempts EXCEPT ![a] = new]
      BY <1>3
    <2> HIDE DEF new
    <2> QED  BY <1>1, <2>1, Rows
  <1>9. Tried(a)'
    <2>1. Trimmed(tries, Detached(tries))
      BY <1>7, TrimmedBy
    <2>2. NoneStarted(attempts'[a])
      BY <1>7, <1>8, <2>1 DEF Trimmed, NoneStarted
    <2>3. AtMostOne(attempts'[a])
      BY <1>2, <1>7, <1>8, <2>1 DEF Trimmed, Tried, AtMostOne, Pending
    <2> QED  BY <2>2, <2>3, NoneTried
  <1>10. handle'[a] = h /\ \A b \in Accounts \ {a} : handle'[b] = handle[b]
    BY <1>1, <1>3, Rows
  <1>11. st'[a] = state /\ \A b \in Accounts \ {a} : st'[b] = st[b]
    BY <1>1, <1>4, Rows
  <1>12. Runs(a) /\ Elsewhere(a)
    BY <1>1, <1>2, <1>6, <1>8, <1>10, <1>11 DEF Runs, Elsewhere
  <1> QED  BY <1>1, <1>9, <1>12, Tell DEF Tells

LEMMA HealthEndsTells ==
    ASSUME Telling, NEW a \in Accounts, ConfirmFails(a) \/ HealthQuiet(a)
    PROVE  Truth'
  <1>1. CASE ConfirmFails(a)
    <2>1. Typed /\ job = NoJob /\ job.attempt = 0 /\ job' = job /\ UNCHANGED <<st, attempts>>
      BY <1>1, IdleAttempt, TellingTypes DEF ConfirmFails, db
    <2>2. LooksAtPlain' /\ GoesUp
      BY <1>1, EnterLooks DEF ConfirmFails, Living, Needed, Sound, GoesUp
    <2>3. SameRow(a) /\ \A b \in Accounts \ {a} : handle'[b] = handle[b]
      BY <1>1, <2>1, AuthedRow DEF ConfirmFails
    <2> QED  BY <2>1, <2>2, <2>3, NoJobTells, NotedTells DEF SameShown
  <1>2. CASE HealthQuiet(a)
    <2>1. /\ Typed /\ job.attempt = 0 /\ LooksAtPlain' /\ GoesUp /\ JobTells' /\ attempts' = attempts
      BY <1>2, VisitTells DEF HealthQuiet, Examined
    <2>2. SameRow(a) /\ \A b \in Accounts \ {a} : handle'[b] = handle[b]
      BY <1>2, <2>1, AuthedRow DEF HealthQuiet
    <2>3. SameShown(a) /\ \A b \in Accounts \ {a} : st'[b] = st[b]
      <3>1. st \in [Accounts -> StateRow] /\ st[a] \in StateRow
        BY <2>1 DEF Typed, TypeOK
      <3>2. CASE st' = st
        BY <3>2 DEF SameShown
      <3>3. CASE st' = [st EXCEPT ![a].count = 0]
        BY <3>1, <3>3 DEF SameShown, StateRow
      <3> QED  BY <1>2, <3>2, <3>3 DEF HealthQuiet
    <2> QED  BY <2>1, <2>2, <2>3, NotedTells
  <1> QED  BY <1>1, <1>2

LEMMA QuietVisitTells ==
    ASSUME Telling, NEW a, Visit(a), UNCHANGED <<handle, st, attempts>>,
           job' = job \/ job'.step \in {"settle", "launch", "stop1"},
           job' = job \/ (job'.op # "recover" /\ job'.attempt = 0)
    PROVE  Truth'
  <1>1. JobTells' /\ job.attempt = 0 /\ LooksAtPlain' /\ GoesUp
    BY VisitTells, FreshTells
  <1> QED  BY <1>1, TellNowhere

LEMMA EmptyVisit ==
    ASSUME Telling, NEW a, Visit(a), ~Owned(a), phase # "down"
    PROVE  /\ handle[a].run = 0 /\ handle[a].attempt = 0
           /\ NoneStarted(attempts[a]) /\ AtMostOne(attempts[a])
  <1>1. a \in Accounts /\ job.attempt = 0 /\ 0 \notin AttemptIds
    BY VisitTells DEF AttemptIds
  <1>2. Bare(a) /\ Tried(a)
    BY <1>1, TellingTypes DEF Told, Telling, Truth
  <1> QED  BY <1>1, <1>2 DEF Bare, Tried, Owned, NoneStarted, AttemptHeld

LEMMA ReconcileTells ==
    ASSUME Telling, NEW a \in Accounts, ReconcileStopped(a) \/ ReconcileRunning(a)
    PROVE  Truth'
  <1>1. CASE UNCHANGED <<handle, st, attempts>>
    <2>1. \/ job' = job
          \/ job' = NewJob("halt", "stop1", a)
          \/ job' = NewJob("start", "settle", a)
      BY DEF ReconcileStopped, ReconcileRunning, Begin
    <2>2. job' = job \/ (/\ job'.step \in {"settle", "launch", "stop1"} /\ job'.op # "recover"
                         /\ job'.attempt = 0)
      BY <2>1 DEF NewJob
    <2> QED  BY <1>1, <2>2, QuietVisitTells DEF ReconcileStopped, ReconcileRunning
  <1>2. CASE /\ ReconcileStopped(a) /\ ~Owned(a) /\ desired[a] = "stopped"
    <2> DEFINE state == [st[a] EXCEPT !.run = 0, !.retry = "none", !.observed = "stopped"]
               tries == Detached(Abandoned(attempts[a], 0))
    <2>1. /\ st' = [st EXCEPT ![a] = state] /\ attempts' = [attempts EXCEPT ![a] = tries]
          /\ handle' = handle /\ job' = job
      BY <1>2 DEF ReconcileStopped
    <2>2. /\ Typed /\ job.attempt = 0 /\ LooksAtPlain' /\ GoesUp /\ JobTells'
      BY <1>2, <2>1, VisitTells DEF ReconcileStopped
    <2>3. attempts[a] \in Tries /\ state.observed = "stopped"
      BY <2>2, RowsOf DEF Typed, StateRow
    <2>4. Trimmed(attempts[a], tries)
      BY <2>3, TrimmedTwice
    <2> HIDE DEF state, tries
    <2>5. st'[a] = state /\ \A b \in Accounts \ {a} : st'[b] = st[b]
      BY <2>1, <2>2, Rows
    <2>6. attempts'[a] = tries /\ \A b \in Accounts \ {a} : attempts'[b] = attempts[b]
      BY <2>1, <2>2, Rows
    <2>7. Hides(a) /\ Elsewhere(a)
      BY <1>2, <2>1, <2>3, <2>5, <2>6 DEF Hides, SameRow, Elsewhere, Owned
    <2>8. Tried(a)'
      BY <2>1, <2>2, <2>4, <2>6, KeepsTried DEF KeepsAttempt
    <2> QED  BY <2>2, <2>7, <2>8, Tell DEF Tells
  <1> QED  BY <1>1, <1>2 DEF ReconcileStopped, ReconcileRunning, db

LEMMA RecoverTells ==
    ASSUME Telling, NEW a \in Accounts,
           RecoverSkip(a) \/ RecoverFlush(a) \/ RecoverPlain(a) \/ RecoverSchedule(a)
    PROVE  Truth'
  <1>1. CASE RecoverSkip(a)
    BY <1>1, QuietVisitTells DEF RecoverSkip, RecoverPass
  <1>2. CASE RecoverFlush(a)
    <2>1. UNCHANGED <<job, phase, view, handle, st, attempts>> /\ job.attempt = 0
      BY <1>2, IdleAttempt DEF RecoverFlush
    <2> QED  BY <2>1, StillTells, TellNowhere
  <1>3. CASE RecoverPlain(a)
    <2>1. job' = NewJob("start", "settle", a)
      BY <1>3 DEF RecoverPlain, Begin
    <2>2. job'.step = "settle" /\ job'.op = "start" /\ job'.attempt = 0
      BY <2>1 DEF NewJob
    <2> QED  BY <1>3, <2>2, QuietVisitTells DEF RecoverPlain, RecoverPass
  <1>4. CASE RecoverSchedule(a)
    <2> DEFINE plan == Scheduled(a, st[a], attempts[a], "later")
    <2>1. /\ st' = [st EXCEPT ![a] = plan.state] /\ attempts' = [attempts EXCEPT ![a] = plan.tries]
          /\ handle' = handle /\ job' = job /\ Visit(a) /\ ~Owned(a) /\ phase # "down"
      BY <1>4 DEF RecoverSchedule, RecoverPass
    <2>2. /\ Typed /\ job.attempt = 0 /\ LooksAtPlain' /\ GoesUp /\ JobTells'
      BY <2>1, VisitTells
    <2>3. handle[a].run = 0 /\ NoneStarted(attempts[a]) /\ AtMostOne(attempts[a])
      BY <2>1, EmptyVisit
    <2>4. st[a] \in StateRow /\ attempts[a] \in Tries
      BY <2>2, RowsOf DEF Typed
    <2>5. plan.state.observed # "running" /\ NoneStarted(plan.tries) /\ AtMostOne(plan.tries)
      BY <2>3, <2>4, ScheduledShown, ScheduledTried
    <2> HIDE DEF plan
    <2>6. st'[a] = plan.state /\ \A b \in Accounts \ {a} : st'[b] = st[b]
      BY <2>1, <2>2, Rows
    <2>7. attempts'[a] = plan.tries /\ \A b \in Accounts \ {a} : attempts'[b] = attempts[b]
      BY <2>1, <2>2, Rows
    <2>8. Hides(a) /\ Elsewhere(a)
      BY <2>1, <2>3, <2>5, <2>6, <2>7 DEF Hides, SameRow, Elsewhere
    <2>9. Tried(a)'
      BY <2>5, <2>7, NoneTried
    <2> QED  BY <2>2, <2>8, <2>9, Tell DEF Tells
  <1> QED  BY <1>1, <1>2, <1>3, <1>4

LEMMA RecoverClaimTells ==
    ASSUME Telling, NEW a \in Accounts, RecoverClaim(a)
    PROVE  Truth'
  <1>1. Visit(a) /\ ~Owned(a) /\ phase # "down" /\ handle' = handle
    BY DEF RecoverClaim, RecoverPass
  <1>2. Typed /\ job.attempt = 0 /\ LooksAtPlain' /\ GoesUp
    BY <1>1, VisitTells
  <1>3. handle[a].run = 0 /\ NoneStarted(attempts[a]) /\ AtMostOne(attempts[a])
    BY <1>1, EmptyVisit
  <1> DEFINE count    == IF st[a].count < RapidAttempts THEN st[a].count + 1 ELSE st[a].count
             state    == [st[a] EXCEPT !.retry = "none", !.observed = "restarting", !.count = count]
             tries(k) == [attempts[a] EXCEPT ![k] = [@ EXCEPT !.outcome = "started"]]
  <1>4. PICK k \in Due(a) :
          \/ UNCHANGED <<st, attempts, job>>
          \/ /\ st' = [st EXCEPT ![a] = state] /\ attempts' = [attempts EXCEPT ![a][k].outcome = "started"]
             /\ job' = [NewJob("recover", "launch", a) EXCEPT !.attempt = k]
    BY DEF RecoverClaim
  <1>5. CASE UNCHANGED <<st, attempts, job>>
    BY <1>1, <1>5, QuietVisitTells
  <1>6. CASE /\ st' = [st EXCEPT ![a] = state] /\ attempts' = [attempts EXCEPT ![a][k].outcome = "started"]
             /\ job' = [NewJob("recover", "launch", a) EXCEPT !.attempt = k]
    <2>1. /\ st[a] \in StateRow /\ attempts[a] \in Tries
          /\ \A j \in AttemptIds : attempts[a][j] \in AttemptRow
      BY <1>2, RowsOf DEF Typed, Tries
    <2>2. k \in AttemptIds /\ k \in Pending(attempts[a])
      BY <1>4 DEF Due, Pending
    <2>3. attempts' = [attempts EXCEPT ![a] = tries(k)]
      BY <1>6, <2>1
    <2>4. state.observed = "restarting" /\ state.run = st[a].run
      <3> HIDE DEF count
      <3> QED  BY <2>1 DEF StateRow
    <2>5. \A j \in AttemptIds : tries(k)[j] = IF j = k THEN [attempts[a][k] EXCEPT !.outcome = "started"]
                                              ELSE attempts[a][j]
      BY <2>1 DEF Tries
    <2> HIDE DEF state, tries
    <2>6. st'[a] = state /\ \A b \in Accounts \ {a} : st'[b] = st[b]
      BY <1>2, <1>6, Rows
    <2>7. attempts'[a] = tries(k) /\ \A b \in Accounts \ {a} : attempts'[b] = attempts[b]
      BY <1>2, <2>3, Rows
    <2>8. job'.a = a /\ job'.attempt = k /\ job'.op = "recover" /\ job'.step = "launch"
      BY <1>6 DEF NewJob
    <2>9. \A j \in AttemptIds : tries(k)[j].outcome = "started" => j = k
      BY <1>3, <2>5 DEF NoneStarted
    <2>10. Pending(tries(k)) \subseteq Pending(attempts[a])
      BY <2>1, <2>2, <2>5 DEF Pending, AttemptRow
    <2>11. AtMostOne(tries(k))
      BY <1>3, <2>10 DEF AtMostOne
    <2>12. Tried(a)'
      BY <2>7, <2>8, <2>9, <2>11 DEF Tried, AttemptHeld
    <2>13. Hides(a) /\ Elsewhere(a)
      BY <1>1, <2>4, <2>6, <2>7 DEF Hides, SameRow, Elsewhere
    <2> QED  BY <1>2, <2>8, <2>12, <2>13, FreshTells, Tell DEF Tells
  <1> QED  BY <1>4, <1>5, <1>6

LEMMA LastVisitsTell ==
    ASSUME Telling, NEW a \in Accounts, FingerprintVisit(a) \/ QuitVisit(a)
    PROVE  Truth'
  <1>1. \/ job' = job
        \/ job' = NewJob("restart", "launch", a)
        \/ job' = [NewJob("quit", "stop1", a) EXCEPT !.keep = TRUE]
    BY DEF FingerprintVisit, QuitVisit, Begin
  <1>2. job' = job \/ (/\ job'.step \in {"settle", "launch", "stop1"} /\ job'.op # "recover"
                       /\ job'.attempt = 0)
    BY <1>1 DEF NewJob
  <1>3. Visit(a) /\ UNCHANGED <<handle, st, attempts>>
    BY DEF FingerprintVisit, QuitVisit, db
  <1> QED  BY <1>2, <1>3, QuietVisitTells

LEMMA VisitingTells ==
    ASSUME Telling, Visiting
    PROVE  Truth'
  BY HealthLookTells, HealthTidyTells, HealthStopTells, HealthExitTells, ConfirmTells, HealthEndsTells,
     ReconcileTells, RecoverTells, RecoverClaimTells, LastVisitsTell DEF Visiting

-----------------------------------------------------------------------------
(* The loop, and the beginning and end of a worker *)

LEMMA TurnTells ==
    ASSUME Telling, Flush \/ Advance \/ HealthDue \/ FingerprintDue \/ Quit
    PROVE  Truth'
  <1>1. /\ Idle /\ phase # "down" /\ job' = job /\ UNCHANGED <<handle, st, attempts>>
    BY DEF Flush, Advance, HealthDue, HealthLater, FingerprintDue, Turn, Quit, db
  <1>2. LooksAtPlain'
    BY EnterLooks DEF Flush, Advance, HealthDue, HealthLater, FingerprintDue, Turn, Quit
  <1> QED  BY <1>1, <1>2, IdleAttempt, NoJobTells, TellNowhere DEF GoesUp, Idle

LEMMA DieTells ==
    ASSUME Telling, Die
    PROVE  Truth'
  <1>1. /\ phase' = "down" /\ job' = NoJob /\ attempts' = attempts
        /\ \A a \in Accounts : handle'[a] = NoHandle
    BY DEF Die, Enter, db
  <1>2. Told'
    BY <1>1 DEF Told, Bare, Plain, Named, Truthful, NoHandle, HandleOf
  <1>3. \A a \in Accounts : Tried(a)'
    BY <1>1 DEF Tried, Telling, Truth
  <1> QED  BY <1>1, <1>2, <1>3, NoJobTells, EnterLooks DEF Truth, Die

LEMMA BootTells ==
    ASSUME Telling, Boot
    PROVE  Truth'
  <1>1. /\ phase = "down" /\ job = NoJob /\ job' = job /\ handle' = handle /\ Typed /\ Enter("boot")
    BY TellingTypes DEF Boot, Typed, JobFits
  <1>2. \A a \in Accounts : /\ handle[a].run = 0 /\ ~handle[a].confirmed /\ ~handle[a].cleanup
                            /\ handle[a].attempt = 0
    BY <1>1, TellingTypes DEF Owning, Ownership, Held, DownOwnsNothing, Told, Bare
  <1> DEFINE tries(a) == [k \in AttemptIds |->
                            IF k \in InterruptedAttempts(a)
                            THEN [attempts[a][k] EXCEPT !.outcome = "failed"] ELSE attempts[a][k]]
             shown(a) == IF desired[a] = "running" THEN "unknown" ELSE "stopped"
             blank(a) == [st[a] EXCEPT !.run = 0, !.retry = "none", !.observed = shown(a)]
             resumes(a) == desired[a] = "running" /\ incident[a]
             plan(a)  == Scheduled(a, blank(a), tries(a), "due")
  <1>3. /\ attempts' = [a \in Accounts |-> IF resumes(a) THEN plan(a).tries ELSE tries(a)]
        /\ st' = [a \in Accounts |-> IF resumes(a) THEN plan(a).state ELSE blank(a)]
    BY DEF Boot
  <1>4. ASSUME NEW a \in Accounts
        PROVE  st'[a].observed # "running" /\ Tried(a)'
    <2>1. st[a] \in StateRow /\ \A k \in AttemptIds : attempts[a][k] \in AttemptRow
      BY <1>1, RowsOf DEF Typed, Tries
    <2>2. shown(a) \in {"unknown", "stopped"}
      OBVIOUS
    <2>3. blank(a) \in StateRow /\ blank(a).observed # "running"
      <3> HIDE DEF shown
      <3> QED  BY <2>1, <2>2, Settable DEF StateRow
    <2>4. /\ tries(a) \in Tries
          /\ \A k \in AttemptIds : tries(a)[k].outcome \notin {"scheduled", "started"}
      BY <2>1 DEF InterruptedAttempts, Tries, AttemptRow
    <2>5. attempts'[a] \in {plan(a).tries, tries(a)} /\ st'[a] \in {plan(a).state, blank(a)}
      BY <1>3
    <2> HIDE DEF tries, blank, shown
    <2>6. NoneStarted(tries(a)) /\ AtMostOne(tries(a))
      BY <2>4 DEF NoneStarted, AtMostOne, Pending
    <2>7. /\ plan(a).state.observed # "running"
          /\ NoneStarted(plan(a).tries) /\ AtMostOne(plan(a).tries)
      BY <2>3, <2>4, <2>6, ScheduledShown, ScheduledTried
    <2> HIDE DEF plan
    <2> QED  BY <2>3, <2>5, <2>6, <2>7, NoneTried
  <1>5. Told'
    BY <1>1, <1>2, <1>4 DEF Told, Bare, Plain, Named, Truthful
  <1> QED  BY <1>1, <1>4, <1>5, NoJobTells, EnterLooks DEF Truth

LEMMA NextTells ==
    ASSUME Telling, [Next]_vars
    PROVE  Truth'
  <1>1. CASE Looping
    BY <1>1, BootTells, TurnTells, DieTells DEF Looping, ShutdownEnds
  <1> QED  BY <1>1, OutsideTells, CommandsTell, LaunchingTells, StoppingTells, VisitingTells, TurnTells,
              DieTells DEF Next, Worker, Crash

LEMMA InitTells == Init => Truth
  <1> SUFFICES ASSUME Init PROVE Truth
    OBVIOUS
  <1>1. /\ phase = "down" /\ job = NoJob
        /\ \A a \in Accounts : handle[a] = NoHandle
        /\ \A a \in Accounts : attempts[a] = [k \in AttemptIds |-> NoTry]
    BY DEF Init
  <1>2. Told
    BY <1>1 DEF Told, Bare, Plain, Named, Truthful, NoHandle, HandleOf
  <1>3. ASSUME NEW a \in Accounts
        PROVE  Tried(a)
    BY <1>1 DEF Tried, AtMostOne, Pending, NoTry
  <1>4. JobTells /\ LooksAtPlain
    BY <1>1 DEF JobTells, StopShows, TidiesCleanup, RecoversAlone, CarriesAttempt, LooksAtPlain,
                NoJob, NewJob
  <1> QED  BY <1>2, <1>3, <1>4 DEF Truth

LEMMA AlwaysTrue == Spec => []Truth
  <1>1. Owning /\ Filed /\ Truth /\ [Next]_vars => Truth'
    BY NextTells DEF Telling, Filing
  <1> QED  BY <1>1, InitTells, AlwaysOwning, AlwaysFiled, PTL DEF Spec

-----------------------------------------------------------------------------
(* What the control room shows as running was confirmed, is the run it names, and *)
(* the worker still owns it: a stop, a lost child, a launch that was rolled back  *)
(* and the next worker each change what is shown in the transaction that makes it *)
(* untrue, and a restart that failed shows an old child as running only when that *)
(* child was confirmed.                                                           *)
THEOREM ShownIsTrue == Spec => []RunningIsTruthful
  <1>1. Truth => RunningIsTruthful
    BY DEF Truth, Told, Truthful, RunningIsTruthful
  <1> QED  BY <1>1, AlwaysTrue, PTL

(* While a worker is up, a started attempt is the one of the recovery under way *)
(* or of a child that is not confirmed yet: whatever else happens to the child, *)
(* its attempt is failed with it, and a startup fails what a crash left.        *)
THEOREM EveryStartedAttemptIsHeld == Spec => []StartedAttemptIsHeld
  <1>1. Truth => StartedAttemptIsHeld
    BY DEF Truth, Tried, AttemptHeld, StartedAttemptIsHeld
  <1> QED  BY <1>1, AlwaysTrue, PTL

(* An incident has at most one attempt that is scheduled or started, so it is not *)
(* recovered twice: _schedule_recovery uses the scheduled one again, and is only  *)
(* called where none is started.                                                  *)
THEOREM OneAttemptPends == Spec => []OnePendingAttempt
  <1>1. Truth => OnePendingAttempt
    BY DEF Truth, Tried, AtMostOne, OnePendingAttempt
  <1> QED  BY <1>1, AlwaysTrue, PTL

-----------------------------------------------------------------------------
(* How runs and incidents end *)

(* The run of a child is closed only when its handle goes. *)
LEMMA HeldStays ==
    ASSUME Owning, Orderly, NEW a \in Accounts, Owned(a), handle'[a].run = handle[a].run
    PROVE  runs'[a][handle[a].run].open <=> runs[a][handle[a].run].open
  <1>1. handle[a].run # 0 /\ handle[a].run \in RunIds
    BY HandleRuns DEF Owned, Owning
  <1>2. CASE Kept
    BY <1>1, <1>2 DEF Kept
  <1>3. ASSUME NEW b \in Accounts, Accounted(b)
        PROVE  runs'[a][handle[a].run].open <=> runs[a][handle[a].run].open
    <2>1. b # a
      BY <1>1, <1>3 DEF Accounted
    <2> QED  BY <1>1, <1>3, <2>1 DEF Accounted
  <1> QED  BY <1>2, <1>3 DEF Orderly, Footprint

(* PlannedEndStands and IncidentClosesSettled, of one account. *)
EndStands(a) ==
    /\ Owned(a) /\ handle[a].planned # "none" /\ ~handle[a].cleanup
    /\ runs[a][handle[a].run].open /\ ~runs'[a][handle[a].run].open
    => lastEnd'[a] = handle[a].planned

Settles(a) ==
    incident[a] /\ ~incident'[a] => ~Owned(a)' \/ (Alive(a)' /\ handle'[a].confirmed)

WellEnded == \A a \in Accounts : EndStands(a) /\ Settles(a)

LEMMA KeptEnds ==
    ASSUME Owning, Orderly, incident' = incident, \A a \in Accounts : handle'[a].run = handle[a].run
    PROVE  WellEnded
  BY HeldStays DEF WellEnded, EndStands, Settles

(* The handle of b goes, and with it at most an incident of b. *)
LEMMA GoneEnds ==
    ASSUME Owning, Orderly, NEW b \in Accounts, Forget(b), EndStands(b),
           \A a \in Accounts \ {b} : incident'[a] = incident[a]
    PROVE  WellEnded
  <1>1. handle'[b].run = 0 /\ \A a \in Accounts \ {b} : handle'[a] = handle[a]
    BY ForgetLoses DEF Owning, EmptyRow
  <1>2. Settles(b)
    BY <1>1 DEF Settles, Owned
  <1>3. ASSUME NEW a \in Accounts \ {b}
        PROVE  EndStands(a) /\ Settles(a)
    BY <1>1, <1>3, HeldStays DEF EndStands, Settles
  <1> QED  BY <1>2, <1>3 DEF WellEnded

LEMMA TidyEnds ==
    ASSUME Owning, Orderly, NEW b \in Accounts, TidyDone(b) \/ TidyFails(b), handle[b].cleanup,
           incident' = incident
    PROVE  WellEnded
  <1>1. CASE TidyDone(b)
    BY <1>1, GoneEnds DEF TidyDone, EndStands
  <1>2. CASE TidyFails(b)
    BY <1>2, KeptEnds DEF TidyFails
  <1> QED  BY <1>1, <1>2

LEMMA ExitEnds ==
    ASSUME Owning, Orderly, NEW b \in Accounts, handle[b].planned = "none",
           NEW schedule \in BOOLEAN, NEW even \in BOOLEAN, RecordExit(b, schedule, even)
    PROVE  WellEnded
  <1>1. DOMAIN incident = Accounts
    BY DEF Owning, Typed, TypeOK
  <1>2. \A a \in Accounts \ {b} : incident'[a] = incident[a]
    BY <1>1 DEF RecordExit
  <1>3. Forget(b)
    BY DEF RecordExit
  <1> QED  BY <1>2, <1>3, GoneEnds DEF EndStands

LEMMA SameHandles ==
    ASSUME Owning, Orderly, incident' = incident, handle' = handle
    PROVE  WellEnded
  BY KeptEnds

LEMMA LaunchingEnds ==
    ASSUME Telling, Launching
    PROVE  WellEnded
  <1>1. Owning /\ Typed
    BY TellingTypes
  <1>2. CASE \/ LaunchFlush \/ SettleStop \/ SettleFree \/ LaunchRefused \/ SpawnCancelled
             \/ SpawnFails \/ LaunchFailed \/ ResetFailed \/ RecoveryFailed
    <2>1. Orderly
      BY <1>1, <1>2, LaunchFlushOwns, SettleOwns, LaunchRefusedOwns, NoSpawnOwns, LaunchFailedOwns,
         RecoveryFailedOwns
    <2>2. incident' = incident /\ handle' = handle
      BY <1>2 DEF LaunchFlush, SettleStop, SettleFree, LaunchRefused, SpawnCancelled, SpawnFails,
                  LaunchFailed, ResetFailed, RecoveryFailed, db
    <2> QED  BY <1>1, <2>1, <2>2, SameHandles
  <1>3. CASE SettleTidy
    BY <1>1, <1>3, SettleTidyOwns, AtSettle, TidyEnds DEF SettleTidy
  <1>4. CASE Adopt
    <2>1. Orderly /\ A \in Accounts /\ incident' = incident
      BY <1>1, <1>4, SettleOwns, AtSettle DEF Adopt, Settled
    <2>2. SameHands
      <3>1. CASE handle' = handle
        BY <3>1 DEF SameHands
      <3>2. CASE handle' = [handle EXCEPT ![A].cmd = job.cmd]
        <4> DEFINE h == [handle[A] EXCEPT !.cmd = job.cmd]
        <4>1. h.run = handle[A].run
          BY <1>1, <2>1, RowsOf DEF Typed, HandleRow
        <4>2. handle' = [handle EXCEPT ![A] = h]
          BY <3>2
        <4> HIDE DEF h
        <4> QED  BY <1>1, <2>1, <4>1, <4>2, HandleKept
      <3> QED  BY <1>4, <3>1, <3>2 DEF Adopt
    <2> QED  BY <1>1, <2>1, <2>2, KeptEnds DEF SameHands
  <1>5. CASE SettleDead
    <2>1. Orderly /\ A \in Accounts /\ handle[A].planned = "none"
      BY <1>1, <1>5, SettleOwns, AtSettle DEF SettleDead, Settled
    <2>2. CASE RecordExit(A, FALSE, FALSE)
      BY <1>1, <2>1, <2>2, ExitEnds
    <2>3. CASE UNCHANGED <<incident, handle>>
      BY <1>1, <2>1, <2>3, SameHandles
    <2> QED  BY <1>5, <2>2, <2>3 DEF SettleDead
  <1>6. CASE Launch
    <2>1. PICK r : runs' = [runs EXCEPT ![A][r] = [open |-> TRUE, confirmed |-> FALSE,
                                                   config |-> config[A]]]
      BY <1>6 DEF Launch
    <2>2. ASSUME NEW a \in Accounts, NEW q, runs[a][q].open
          PROVE  runs'[a][q].open
      <3>1. runs \in [Accounts -> [RunIds -> RunRow]] /\ runs[a] \in [RunIds -> RunRow]
        BY <1>1 DEF Typed, TypeOK
      <3> QED  BY <2>1, <2>2, <3>1
    <2> QED  BY <1>6, <2>2 DEF Launch, WellEnded, EndStands, Settles
  <1>7. CASE Spawn \/ SpawnUnrecorded
    BY <1>7 DEF Spawn, SpawnUnrecorded, db, WellEnded, EndStands, Settles
  <1>8. CASE SpawnTidy
    <2>1. job.step = "tidy" /\ A \in Accounts /\ A = job.a /\ Orderly /\ incident' = incident
      BY <1>1, <1>8, AtWork, SpawnTidyOwns DEF SpawnTidy
    <2>2. handle[A].cleanup
      BY <2>1, TellingTypes DEF JobTells, TidiesCleanup
    <2> QED  BY <1>1, <1>8, <2>1, <2>2, TidyEnds DEF SpawnTidy
  <1> QED  BY <1>2, <1>3, <1>4, <1>5, <1>6, <1>7, <1>8 DEF Launching

LEMMA StoppingEnds ==
    ASSUME Telling, Stopping
    PROVE  WellEnded
  <1>1. Owning /\ Typed
    BY TellingTypes
  <1>2. Orderly
    BY <1>1, StopFindsDeadOwns, StopBeginsOwns, TerminateOwns, StopFailsOwns, StopDoneOwns DEF Stopping
  <1>3. CASE StopFindsDead
    <2>1. A \in Accounts /\ handle[A].planned = "none"
      BY <1>3, AtStopping DEF StopFindsDead
    <2>2. CASE RecordExit(A, FALSE, TRUE)
      BY <1>1, <1>2, <2>1, <2>2, ExitEnds
    <2>3. CASE UNCHANGED <<incident, handle>>
      BY <1>1, <1>2, <2>3, SameHandles
    <2> QED  BY <1>3, <2>2, <2>3 DEF StopFindsDead
  <1>4. CASE StopBegins \/ TerminateFails
    BY <1>1, <1>2, <1>4, SameHandles DEF StopBegins, TerminateFails
  <1>5. CASE Terminate
    <2>1. A \in Accounts /\ incident' = incident
      BY <1>5, AtStopping DEF Terminate
    <2>2. CASE Owned(A)
      <3>1. CloseRun(A, handle[A].run, StopReason) /\ Forget(A)
        BY <1>5, <2>2 DEF Terminate
      <3>2. DOMAIN lastEnd = Accounts
        BY <1>1 DEF Typed, TypeOK
      <3>3. EndStands(A)
        BY <2>1, <3>1, <3>2 DEF EndStands, CloseRun, StopReason
      <3> QED  BY <1>1, <1>2, <2>1, <3>1, <3>3, GoneEnds
    <2>3. CASE ~Owned(A)
      BY <1>1, <1>2, <1>5, <2>1, <2>3, SameHandles DEF Terminate
    <2> QED  BY <2>2, <2>3
  <1>6. CASE CloseFails
    <2>1. A \in Accounts /\ incident' = incident
      BY <1>6, AtStopping DEF CloseFails
    <2> DEFINE h == [handle[A] EXCEPT !.planned = StopReason]
    <2>2. h.run = handle[A].run /\ handle' = [handle EXCEPT ![A] = h]
      BY <1>1, <1>6, <2>1, RowsOf DEF CloseFails, Typed, HandleRow
    <2> HIDE DEF h
    <2>3. SameHands
      BY <1>1, <2>1, <2>2, HandleKept
    <2> QED  BY <1>1, <1>2, <2>1, <2>3, KeptEnds DEF SameHands
  <1>7. CASE StopDone
    <2>1. A \in Accounts /\ A = job.a /\ handle' = handle /\ handle[A].run = 0
      BY <1>7, AtStopping, TellingTypes DEF StopDone, Owning, Ownership, Hands, EmptyHanded
    <2>2. \A a \in Accounts \ {A} : incident'[a] = incident[a]
      BY <1>1, <1>7 DEF StopDone, Typed, TypeOK
    <2>3. \A a \in Accounts : EndStands(a)
      BY <1>1, <1>2, <2>1, HeldStays DEF EndStands
    <2>4. \A a \in Accounts : Settles(a)
      BY <2>1, <2>2 DEF Settles, Owned
    <2> QED  BY <2>3, <2>4 DEF WellEnded
  <1> QED  BY <1>3, <1>4, <1>5, <1>6, <1>7 DEF Stopping

LEMMA VisitingEnds ==
    ASSUME Telling, NEW b \in Accounts, Visiting,
           \/ HealthLook(b) \/ HealthTidy(b) \/ LoginRefused(b) \/ LoginCutShort(b) \/ LoginTimesOut(b)
           \/ HealthRetry(b) \/ HealthHalt(b) \/ HealthExit(b)
           \/ Confirm(b) \/ ConfirmFails(b) \/ HealthQuiet(b)
           \/ ReconcileStopped(b) \/ ReconcileRunning(b)
           \/ RecoverSkip(b) \/ RecoverFlush(b) \/ RecoverPlain(b) \/ RecoverSchedule(b)
           \/ RecoverClaim(b) \/ FingerprintVisit(b) \/ QuitVisit(b)
    PROVE  WellEnded
  <1>1. Owning /\ Typed /\ Orderly
    BY TellingTypes, VisitingOwns
  <1>2. CASE \/ HealthLook(b) \/ ReconcileRunning(b) \/ RecoverSkip(b) \/ RecoverFlush(b)
             \/ RecoverPlain(b) \/ RecoverSchedule(b) \/ RecoverClaim(b) \/ FingerprintVisit(b)
             \/ QuitVisit(b)
    <2>1. incident' = incident /\ handle' = handle
      BY <1>2 DEF HealthLook, ReconcileRunning, RecoverSkip, RecoverFlush, RecoverPlain,
                  RecoverSchedule, RecoverClaim, RecoverPass, FingerprintVisit, QuitVisit, db
    <2> QED  BY <1>1, <2>1, SameHandles
  <1>3. CASE HealthTidy(b)
    BY <1>1, <1>3, TidyEnds DEF HealthTidy
  <1>4. CASE \/ LoginRefused(b) \/ LoginCutShort(b) \/ LoginTimesOut(b) \/ HealthRetry(b)
             \/ HealthHalt(b) \/ ConfirmFails(b) \/ HealthQuiet(b)
    <2>1. /\ incident' = incident
          /\ \/ \E authed : handle' = [handle EXCEPT ![b].authed = authed]
             \/ \E planned, authed : handle' = [handle EXCEPT ![b].planned = planned, ![b].authed = authed]
      BY <1>4 DEF LoginRefused, LoginCutShort, LoginTimesOut, HealthRetry, HealthHalt, GiveUpLogin,
                  ConfirmFails, HealthQuiet, db
    <2>2. SameHands
      BY <1>1, <2>1, HandleFieldKept
    <2> QED  BY <1>1, <2>1, <2>2, KeptEnds DEF SameHands
  <1>5. CASE HealthExit(b)
    <2>1. CASE RecordExit(b, TRUE, FALSE)
      BY <1>1, <1>5, <2>1, ExitEnds DEF HealthExit, Needed
    <2>2. CASE handle' = [handle EXCEPT ![b].authed = TRUE] /\ incident' = incident
      <3>1. SameHands
        BY <1>1, <2>2, HandleFieldKept
      <3> QED  BY <1>1, <2>2, <3>1, KeptEnds DEF SameHands
    <2> QED  BY <1>5, <2>1, <2>2 DEF HealthExit
  <1>6. CASE Confirm(b)
    <2> DEFINE h == [handle[b] EXCEPT !.confirmed = TRUE, !.authed = TRUE, !.cmd = 0, !.attempt = 0]
    <2>1. h.run = handle[b].run /\ h.confirmed
      BY <1>1, RowsOf DEF Typed, HandleRow
    <2>2. handle' = [handle EXCEPT ![b] = h] /\ proc' = proc /\ Alive(b)
      BY <1>6 DEF Confirm, Living
    <2> HIDE DEF h
    <2>3. handle'[b] = h /\ \A a \in Accounts \ {b} : handle'[a] = handle[a]
      BY <1>1, <2>2, Rows
    <2>4. \A a \in Accounts \ {b} : incident'[a] = incident[a]
      BY <1>1, <1>6 DEF Confirm, Typed, TypeOK
    <2>5. \A a \in Accounts : EndStands(a)
      BY <1>1, <2>1, <2>3, HeldStays DEF EndStands
    <2>6. Settles(b)
      BY <2>1, <2>2, <2>3 DEF Settles, Alive, Owned, Child
    <2> QED  BY <2>4, <2>5, <2>6 DEF WellEnded, Settles
  <1>7. CASE ReconcileStopped(b)
    <2>1. handle' = handle /\ \A a \in Accounts \ {b} : incident'[a] = incident[a]
      BY <1>1, <1>7 DEF ReconcileStopped, Typed, TypeOK
    <2>2. incident'[b] = incident[b] \/ ~Owned(b)
      BY <1>7 DEF ReconcileStopped
    <2>3. \A a \in Accounts : EndStands(a)
      BY <1>1, <2>1, HeldStays DEF EndStands
    <2> QED  BY <2>1, <2>2, <2>3 DEF WellEnded, Settles, Owned
  <1> QED  BY <1>2, <1>3, <1>4, <1>5, <1>6, <1>7

LEMMA LoopEnds ==
    ASSUME Telling, Looping \/ Quit \/ Crash
    PROVE  WellEnded
  <1>1. Owning /\ Typed
    BY TellingTypes
  <1>2. CASE Boot
    <2>1. incident' = incident /\ \A a \in Accounts : ~Owned(a)
      BY <1>1, <1>2 DEF Boot, Owning, Ownership, Held, DownOwnsNothing, Owned
    <2> QED  BY <2>1 DEF WellEnded, EndStands, Settles
  <1>3. CASE Flush \/ Advance \/ HealthDue \/ FingerprintDue \/ Quit
    <2>1. incident' = incident /\ handle' = handle
      BY <1>3 DEF Flush, Advance, HealthDue, HealthLater, FingerprintDue, Turn, Quit, db
    <2>2. Orderly
      BY <1>1, <1>3, FlushOwns, TurnOwns
    <2> QED  BY <1>1, <2>1, <2>2, SameHandles
  <1>4. CASE Die
    BY <1>4 DEF Die, db, WellEnded, EndStands, Settles
  <1> QED  BY <1>2, <1>3, <1>4 DEF Looping, ShutdownEnds, Crash

LEMMA NextEnds ==
    ASSUME Telling, [Next]_vars
    PROVE  WellEnded
  <1>1. Owning /\ Typed
    BY TellingTypes
  <1>2. CASE Website \/ Children \/ Reading \/ Elapsing \/ UNCHANGED vars
    <2>1. incident' = incident /\ handle' = handle
      BY <1>2 DEF Website, Request, ChangeConfig, Children, ChildSpeaks, ChildExits, Reading, Drain,
                  Elapsing, Elapse, ElapseAttempt, vars, mem, db
    <2> QED  BY <1>1, <1>2, <2>1, OutsideOwns, SameHandles
  <1>3. CASE Commands
    <2>1. Orderly
      BY <1>1, <1>3, CommandsOwn
    <2>2. CASE LeaseNext \/ Refuse \/ Accept
      BY <1>1, <2>1, <2>2, SameHandles DEF LeaseNext, Refuse, Accept, db
    <2>3. CASE Fallback
      <3>1. handle' = handle /\ proc' = proc /\ \A a \in Accounts \ {A} : incident'[a] = incident[a]
        BY <1>1, <2>3 DEF Fallback, Typed, TypeOK, A
      <3>2. ASSUME NEW a \in Accounts, a = job.a, incident[a], ~incident'[a]
            PROVE  Alive(a) /\ handle[a].confirmed
        BY <1>1, <2>3, <3>2 DEF Fallback, Typed, TypeOK, Healthy
      <3>3. \A a \in Accounts : EndStands(a)
        BY <1>1, <2>1, <3>1, HeldStays DEF EndStands
      <3>4. \A a \in Accounts : Settles(a)
        BY <3>1, <3>2 DEF Settles, Alive, Owned, Child, A
      <3> QED  BY <3>3, <3>4 DEF WellEnded
    <2> QED  BY <1>3, <2>2, <2>3 DEF Commands
  <1>4. CASE Visiting
    BY <1>4, VisitingEnds DEF Visiting
  <1> QED  BY <1>2, <1>3, <1>4, LaunchingEnds, StoppingEnds, LoopEnds DEF Next, Worker

(* The run of a child that was stopped on purpose ends with that reason, through *)
(* failed writes, later passes and a stop of another operation: stop_account     *)
(* retries with pending_stop_reason, and nothing else closes the run of a child  *)
(* that has one, the cleanup of a launch that was rolled back apart.             *)
THEOREM PlannedEndsStand == Spec => PlannedEndStands
  <1>1. Owning /\ Filed /\ Truth /\ [Next]_vars =>
          [\A a \in Accounts :
             /\ Owned(a) /\ handle[a].planned # "none" /\ ~handle[a].cleanup
             /\ runs[a][handle[a].run].open /\ ~runs'[a][handle[a].run].open
             => lastEnd'[a] = handle[a].planned]_vars
    BY NextEnds DEF Telling, Filing, WellEnded, EndStands
  <1> QED  BY <1>1, AlwaysOwning, AlwaysFiled, AlwaysTrue, PTL DEF Spec, PlannedEndStands

(* An incident closes in the transaction that confirms a child, or that finds the *)
(* child of before alive and confirmed, or once there is none: never over a child *)
(* that may still fail (_confirm_startup, _recover_incident_for_healthy_fallback, *)
(* stop_account, _handle_unexpected_exit, reconcile_desired_state).               *)
THEOREM IncidentsCloseSettled == Spec => IncidentClosesSettled
  <1>1. Owning /\ Filed /\ Truth /\ [Next]_vars =>
          [\A a \in Accounts :
             incident[a] /\ ~incident'[a] =>
                ~Owned(a)' \/ (Alive(a)' /\ handle'[a].confirmed)]_vars
    BY NextEnds DEF Telling, Filing, WellEnded, Settles
  <1> QED  BY <1>1, AlwaysOwning, AlwaysFiled, AlwaysTrue, PTL DEF Spec, IncidentClosesSettled

=============================================================================
