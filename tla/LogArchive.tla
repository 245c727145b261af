----------------------------- MODULE LogArchive -----------------------------
(***************************************************************************)
(* The log files of one account (controller/runtime_logs.py).  A run of    *)
(* the account writes numbered parts; a full part is sealed, compressed,   *)
(* published beside its source, and the source is removed; the account     *)
(* keeps so many compressed parts and the oldest go first.  The worker's   *)
(* main thread sweeps up what is left of runs that are not active.  The    *)
(* web process follows a run with a cursor, one request after another.     *)
(*                                                                         *)
(* Every run has a thread of its own that writes: the one that drains the  *)
(* child's output, then whoever finalizes the log under the same lock.     *)
(* All threads work on the same directory without a lock between them.     *)
(***************************************************************************)
EXTENDS Naturals, FiniteSets

CONSTANTS
    Runs,           \* the runs of the account, in any order
    Followed,       \* those of them that a reader may follow
    Main,           \* the main thread of the worker
    MaxParts,       \* parts a run may write
    PartLines,      \* lines in a full part; every line takes the same room
    Limit,          \* compressed parts the account may keep, all of one size
    MaxFaults,      \* failures of the file system
    MaxCrashes      \* deaths of the worker

ASSUME ArchiveAssumption ==
    /\ Runs # {} /\ Main \notin Runs /\ Followed \subseteq Runs
    /\ MaxParts \in Nat \ {0} /\ PartLines \in Nat \ {0, 1} /\ Limit \in Nat \ {0}
    /\ MaxParts = 1 => PartLines # 2    \* the only part has room for the last lines
    /\ MaxFaults \in Nat /\ MaxCrashes \in Nat

Seqs    == 0..(MaxParts - 1)
Parts   == Runs \X Seqs
Threads == Runs \cup {Main}

VARIABLES
    plain, gz,      \* the parts that exist as text, and compressed
    dirs, litter,   \* runs with a directory; with a temporary file nobody owns
    said, kept,     \* lines the writer wrote to a part; lines in its archive
    order,          \* <<p, q>>: the last write to part p was before that to q
    writer,         \* AccountRunLogWriter of each run
    drain,          \* the thread that reads the child's output
    role,           \* where the worker has the run
    job,            \* what each thread is compressing or pruning
    sweep,          \* recover_account_log_archives: runs and parts to visit
    tail,           \* a reader of the live tail, and its cursor
    faults, crashes

disk   == <<plain, gz, dirs, litter, said, kept, order>>
budget == <<faults, crashes>>
vars   == <<disk, writer, drain, role, job, sweep, tail, budget>>

-----------------------------------------------------------------------------
Steps == {"idle", "copy", "measure", "prune", "publish", "unlink", "open"}
Aims  == {"rotate", "final", "sweep", "trim"}

Job    == [step : Steps, part : Parts, lines : 0..PartLines, seen : SUBSET Parts,
           reserve : 0..1, aim : Aims]
Writer == [state : {"none", "open", "closing", "closed"}, seq : Seqs, stream : BOOLEAN]
Reader == [step : {"off", "first", "idle", "read"}, run : Runs, seq : Seqs, line : 0..PartLines,
           at : Seqs, pos : 0..PartLines, view : SUBSET (Seqs \X BOOLEAN)]

SomeRun == CHOOSE r \in Runs : TRUE

Compressing(p, aim) ==
    [step |-> "copy", part |-> p, lines |-> 0, seen |-> {}, reserve |-> 1, aim |-> aim]
NoJob    == [Compressing(<<SomeRun, 0>>, "sweep") EXCEPT !.step = "idle"]
NoSweep  == [on |-> FALSE, todo |-> {}, parts |-> {}]
NoWriter == [state |-> "none", seq |-> 0, stream |-> FALSE]
NoTail   == [step |-> "off", run |-> SomeRun, seq |-> 0, line |-> 0,
             at |-> 0, pos |-> 0, view |-> {}]

Older(p, q) == <<p, q>> \in order

TypeOK ==
    /\ plain \subseteq Parts /\ gz \subseteq Parts
    /\ dirs \subseteq Runs /\ litter \subseteq Runs
    /\ said \in [Parts -> 0..PartLines] /\ kept \in [Parts -> 0..PartLines]
    /\ order \subseteq Parts \X Parts
    /\ \A p, q \in plain \cup gz : p = q \/ Older(p, q) \/ Older(q, p)
    /\ writer \in [Runs -> Writer]
    /\ drain \in [Runs -> {"none", "alive", "done"}]
    /\ role \in [Runs -> {"new", "held", "deferred", "gone", "abandoned"}]
    /\ job \in [Threads -> Job]
    /\ sweep \in [on : BOOLEAN, todo : SUBSET Runs, parts : SUBSET Parts]
    /\ tail \in Reader
    /\ faults \in 0..MaxFaults /\ crashes \in 0..MaxCrashes

Init ==
    /\ plain = {} /\ gz = {} /\ dirs = {} /\ litter = {}
    /\ said = [p \in Parts |-> 0] /\ kept = [p \in Parts |-> 0] /\ order = {}
    /\ writer = [r \in Runs |-> NoWriter]
    /\ drain = [r \in Runs |-> "none"] /\ role = [r \in Runs |-> "new"]
    /\ job = [t \in Threads |-> NoJob]
    /\ sweep = NoSweep
    /\ tail = NoTail
    /\ faults = 0 /\ crashes = 0

-----------------------------------------------------------------------------
Idle(t) == job[t].step = "idle"

\* Mutant: a run that the supervisor has let go of does not count as active.
ActiveHeld == {r \in Runs : role[r] = "held"}

\* The runs in processes or waiting in _pending_log_finalizations.
Active == {r \in Runs : role[r] \in {"held", "deferred"}}

\* The main thread is not inside a sweep or the finalization of a log.
MainFree ==
    /\ ~sweep.on
    /\ \A r \in Runs : ~(role[r] = "held" /\ writer[r].state = "closing")

\* A temporary file lies beside its source from the copy to the publication.
Temps(r) ==
    {t \in Threads : /\ job[t].step \in {"measure", "prune", "publish"}
                     /\ job[t].aim # "trim" /\ job[t].part[1] = r}

\* The parts that a thread is at work with: those it has listed and its own.
InHand(t) ==
    job[t].seen \cup
    {p \in {job[t].part} : job[t].step \in {"measure", "prune", "publish", "unlink"} /\ job[t].aim # "trim"}

Known(parts) == parts \cup UNION {InHand(t) : t \in Threads}

\* The last write makes a part the newest; parts that are gone leave the order when
\* no thread is at work with them.
Touched(p) ==
    LET others == Known(plain \cup gz) \ {p}
    IN (order \cap (others \X others)) \cup (others \X {p})

Left(parts) == order \cap (Known(parts) \X Known(parts))

\* rmdir after a removal: it succeeds on an empty directory and is quiet otherwise.
Swept(r, texts, archives, temps) ==
    IF temps = {} /\ r \notin litter /\ \A p \in texts \cup archives : p[1] # r
    THEN dirs \ {r} ELSE dirs

NoFault == UNCHANGED budget
Fault   == faults < MaxFaults /\ faults' = faults + 1 /\ UNCHANGED crashes

-----------------------------------------------------------------------------
(* _compress_plain_part and _prune_for_archive, by any thread *)

\* A writer goes on with its next part, or is closed; the sweep goes on.
GoesOn(t) ==
    CASE job[t].aim = "rotate" ->
            job' = [job EXCEPT ![t] = [NoJob EXCEPT !.step = "open"]] /\ UNCHANGED <<writer, role, sweep>>
      [] job[t].aim = "final" ->
            /\ job' = [job EXCEPT ![t] = NoJob]
            /\ writer' = [writer EXCEPT ![t].state = "closed"]
            /\ role' = [role EXCEPT ![t] = "gone"]
            /\ UNCHANGED sweep
      [] job[t].aim = "sweep" ->
            job' = [job EXCEPT ![t] = NoJob] /\ UNCHANGED <<writer, role, sweep>>
      [] job[t].aim = "trim" ->
            /\ job' = [job EXCEPT ![t] = NoJob] /\ sweep' = NoSweep
            /\ UNCHANGED <<writer, role>>

To(t, step) == job' = [job EXCEPT ![t].step = step] /\ UNCHANGED <<writer, role, sweep>>

Aside == UNCHANGED <<drain, tail>>

\* The source is copied to a temporary file and the archives are listed.  A part
\* that is no longer there is no valid source.
Copy(t) ==
    /\ job[t].step = "copy"
    /\ IF job[t].part \in plain
       THEN job' = [job EXCEPT ![t].step = "measure", ![t].lines = said[job[t].part], ![t].seen = gz]
            /\ UNCHANGED <<writer, role, sweep>>
       ELSE GoesOn(t)
    /\ NoFault /\ Aside /\ UNCHANGED disk

\* An archive that went after it was listed has no size: the attempt fails.
Measure(t) ==
    /\ job[t].step = "measure"
    /\ IF job[t].seen \subseteq gz THEN To(t, "prune") ELSE GoesOn(t)
    /\ NoFault /\ Aside /\ UNCHANGED disk

OverLimit(j) == Cardinality(j.seen) + j.reserve > Limit

\* Mutant: the part to be published is the first to be given up.
OldestIsAlwaysCandidate(j) == j.aim # "trim" /\ j.reserve = 1

\* The part to be published is itself the oldest.
OldestIsCandidate(j) == j.aim # "trim" /\ j.reserve = 1 /\ \A q \in j.seen : Older(j.part, q)

PruneCandidate(t) ==
    /\ job[t].step = "prune" /\ OverLimit(job[t]) /\ OldestIsCandidate(job[t])
    /\ job' = [job EXCEPT ![t].reserve = 0]
    /\ NoFault /\ Aside /\ UNCHANGED <<disk, writer, role, sweep>>

PruneOldest(t) ==
    /\ job[t].step = "prune" /\ OverLimit(job[t]) /\ ~OldestIsCandidate(job[t])
    /\ \E q \in job[t].seen :
         /\ \A other \in job[t].seen \ {q} : Older(q, other)
         /\ IF q \in gz
            THEN /\ gz' = gz \ {q} /\ order' = Left(plain \cup gz')
                 /\ dirs' = Swept(q[1], plain, gz', Temps(q[1]))
                 /\ job' = [job EXCEPT ![t].seen = @ \ {q}]
                 /\ UNCHANGED <<writer, role, sweep>>
            ELSE GoesOn(t) /\ UNCHANGED <<gz, dirs, order>>
    /\ NoFault /\ Aside /\ UNCHANGED <<plain, litter, said, kept>>

PruneEnds(t) ==
    /\ job[t].step = "prune" /\ ~OverLimit(job[t])
    /\ IF job[t].aim = "trim" THEN GoesOn(t)
       ELSE /\ job' = [job EXCEPT ![t].step = "publish", ![t].seen = {}]
            /\ UNCHANGED <<writer, role, sweep>>
    /\ NoFault /\ Aside /\ UNCHANGED disk

\* os.replace, or the temporary file of a part too old to be kept is removed.
Publish(t) ==
    LET p == job[t].part
    IN /\ job[t].step = "publish"
       /\ IF job[t].reserve = 1
          THEN gz' = gz \cup {p} /\ kept' = [kept EXCEPT ![p] = job[t].lines]
          ELSE UNCHANGED <<gz, kept>>
       /\ job' = [job EXCEPT ![t].step = "unlink", ![t].lines = 0]
       /\ UNCHANGED <<writer, role, sweep>>
       /\ NoFault /\ Aside /\ UNCHANGED <<plain, dirs, litter, said, order>>

RemoveSource(t) ==
    LET p == job[t].part
    IN /\ job[t].step = "unlink"
       /\ plain' = plain \ {p} /\ order' = Left(plain' \cup gz)
       /\ dirs' = IF job[t].reserve = 0 /\ p \in plain
                  THEN Swept(p[1], plain', gz, Temps(p[1])) ELSE dirs
       /\ GoesOn(t)
       /\ NoFault /\ Aside /\ UNCHANGED <<gz, litter, said, kept>>

\* An error before the source is removed leaves it; the temporary file goes.
CompressionFails(t) ==
    /\ job[t].step \in {"copy", "measure", "prune", "publish", "unlink"}
    /\ GoesOn(t)
    /\ Fault /\ Aside /\ UNCHANGED disk

Compression(t) ==
    \/ Copy(t) \/ Measure(t)
    \/ PruneCandidate(t) \/ PruneOldest(t) \/ PruneEnds(t)
    \/ Publish(t) \/ RemoveSource(t)
    \/ CompressionFails(t)

-----------------------------------------------------------------------------
(* AccountRunLogWriter *)

Files == <<gz, dirs, litter, kept>>

\* The next part cannot be opened in a directory that is gone; the writer is then
\* without a stream, and silent for the rest of the run.
OpenPart(r) ==
    LET p == <<r, writer[r].seq + 1>>
    IN /\ job[r].step = "open"
       /\ job' = [job EXCEPT ![r] = NoJob]
       /\ \/ /\ r \in dirs /\ NoFault
             /\ plain' = plain \cup {p} /\ order' = Touched(p)
             /\ writer' = [writer EXCEPT ![r].seq = @ + 1, ![r].stream = TRUE]
          \/ /\ r \in dirs => Fault
             /\ r \notin dirs => NoFault
             /\ writer' = [writer EXCEPT ![r].seq = @ + 1]
             /\ UNCHANGED <<plain, order>>
       /\ UNCHANGED <<Files, said, drain, role, sweep, tail>>

\* A seal that cannot flush neither compresses the part nor opens the next.
Seal(r, state) ==
    /\ writer' = [writer EXCEPT ![r].state = state, ![r].stream = FALSE]
    /\ \/ job' = [job EXCEPT ![r] = Compressing(<<r, writer[r].seq>>, "rotate")] /\ NoFault
       \/ UNCHANGED job /\ Fault

\* write: a line goes to the stream, and a part that is full is sealed.
Write(r, state) ==
    LET p     == <<r, writer[r].seq>>
        lines == said[p] + 1
    IN /\ said' = [said EXCEPT ![p] = lines]
       /\ order' = IF p \in plain THEN Touched(p) ELSE order
       /\ IF lines = PartLines THEN Seal(r, state)
          ELSE writer' = [writer EXCEPT ![r].state = state] /\ UNCHANGED job /\ NoFault

\* Lines of the child and of the worker about it, while the part is not the last
\* that the model has room for.  A line too long for the rest of the part seals it
\* first and goes to the next.
Say(r) ==
    /\ writer[r].state = "open" /\ writer[r].stream /\ Idle(r)
    /\ drain[r] = "alive" /\ writer[r].seq < MaxParts - 1
    /\ \/ Write(r, "open")
       \/ /\ said[<<r, writer[r].seq>>] > 0 /\ Seal(r, "open")
          /\ UNCHANGED <<said, order>>
    /\ UNCHANGED <<plain, Files, drain, role, sweep, tail>>

\* _spawn_snapshot: the log begins with the request to launch.  The child may fail
\* to start, and nothing is then left to drain.
BeginRun(r) ==
    LET p == <<r, 0>>
    IN /\ MainFree /\ role[r] = "new" /\ \A q \in Runs : role[q] # "held"
       /\ dirs' = dirs \cup {r}
       /\ \/ /\ plain' = plain \cup {p} /\ order' = Touched(p)
             /\ said' = [said EXCEPT ![p] = 1]
             /\ writer' = [writer EXCEPT ![r] = [state |-> "open", seq |-> 0, stream |-> TRUE]]
             /\ role' = [role EXCEPT ![r] = "held"]
             /\ \E d \in {"alive", "done"} : drain' = [drain EXCEPT ![r] = d]
             /\ NoFault
          \/ /\ role' = [role EXCEPT ![r] = "gone"]
             /\ Fault /\ UNCHANGED <<plain, order, said, writer, drain>>
       /\ UNCHANGED <<gz, litter, kept, job, sweep, tail>>

DrainEnds(r) ==
    /\ drain[r] = "alive" /\ Idle(r)
    /\ drain' = [drain EXCEPT ![r] = "done"]
    /\ NoFault /\ UNCHANGED <<disk, writer, role, job, sweep, tail>>

\* _complete_managed_log_finalization: the last lines, then the last seal.
Finalize(r) ==
    /\ writer[r].state = "open" /\ Idle(r) /\ drain[r] = "done"
    /\ \/ role[r] = "held" /\ MainFree
       \/ role[r] = "deferred"
    /\ IF writer[r].stream THEN Write(r, "closing")
       ELSE /\ writer' = [writer EXCEPT ![r].state = "closing"]
            /\ NoFault /\ UNCHANGED <<said, order, job>>
    /\ UNCHANGED <<plain, Files, drain, role, sweep, tail>>

Closed(r) ==
    /\ writer' = [writer EXCEPT ![r].state = "closed", ![r].stream = FALSE]
    /\ role' = [role EXCEPT ![r] = "gone"]
    /\ UNCHANGED job

LastSeal(r) ==
    /\ writer[r].state = "closing" /\ Idle(r)
    /\ IF writer[r].stream
       THEN \/ /\ writer' = [writer EXCEPT ![r].stream = FALSE]
               /\ job' = [job EXCEPT ![r] = Compressing(<<r, writer[r].seq>>, "final")]
               /\ NoFault /\ UNCHANGED role
            \/ Closed(r) /\ Fault
       ELSE Closed(r) /\ NoFault
    /\ UNCHANGED <<disk, drain, sweep, tail>>

\* _defer_managed_log_finalization: the worker lets go of a run whose output is
\* still being read, and a thread waits for it, but not for ever.
Defer(r) ==
    /\ role[r] = "held" /\ MainFree /\ writer[r].state = "open" /\ drain[r] = "alive"
    /\ role' = [role EXCEPT ![r] = "deferred"]
    /\ NoFault /\ UNCHANGED <<disk, writer, drain, job, sweep, tail>>

GiveUp(r) ==
    /\ role[r] = "deferred" /\ drain[r] = "alive"
    /\ role' = [role EXCEPT ![r] = "abandoned"]
    /\ NoFault /\ UNCHANGED <<disk, writer, drain, job, sweep, tail>>

Writing(r) ==
    \/ OpenPart(r) \/ Say(r) \/ BeginRun(r) \/ DrainEnds(r)
    \/ Finalize(r) \/ LastSeal(r) \/ Defer(r) \/ GiveUp(r)

-----------------------------------------------------------------------------
(* recover_account_log_archives *)

\* Mutant: text of earlier runs is only looked for when a worker starts.
SweepBeginsTrimming ==
    /\ MainFree
    /\ sweep' = [NoSweep EXCEPT !.on = TRUE]
    /\ NoFault /\ UNCHANGED <<disk, writer, drain, role, job, tail>>

SweepBegins ==
    /\ MainFree
    /\ sweep' = [NoSweep EXCEPT !.on = TRUE, !.todo = dirs \ Active]
    /\ NoFault /\ UNCHANGED <<disk, writer, drain, role, job, tail>>

SweepVisits(r) ==
    /\ sweep.on /\ Idle(Main) /\ sweep.parts = {} /\ r \in sweep.todo
    /\ sweep' = [sweep EXCEPT !.todo = @ \ {r}, !.parts = {p \in plain : p[1] = r}]
    /\ NoFault /\ UNCHANGED <<disk, writer, drain, role, job, tail>>

\* The parts of a run in their order; one that is gone by now is passed over.
SweepTakes(p) ==
    /\ sweep.on /\ Idle(Main) /\ p \in sweep.parts
    /\ \A q \in sweep.parts : p[2] <= q[2]
    /\ sweep' = [sweep EXCEPT !.parts = @ \ {p}]
    /\ job' = IF p \in plain THEN [job EXCEPT ![Main] = Compressing(p, "sweep")] ELSE job
    /\ NoFault /\ UNCHANGED <<disk, writer, drain, role, tail>>

\* Mutant: only the publication of a part prunes.
SweepEnds ==
    /\ sweep.on /\ Idle(Main) /\ sweep.todo = {} /\ sweep.parts = {}
    /\ sweep' = NoSweep
    /\ NoFault /\ UNCHANGED <<disk, writer, drain, role, job, tail>>

\* In the end the account is brought within its limit, with nothing to publish.
SweepTrims ==
    /\ sweep.on /\ Idle(Main) /\ sweep.todo = {} /\ sweep.parts = {}
    /\ job' = [job EXCEPT ![Main] = [NoJob EXCEPT !.step = "measure", !.seen = gz, !.reserve = 0, !.aim = "trim"]]
    /\ NoFault /\ UNCHANGED <<disk, writer, drain, role, sweep, tail>>

Sweeping ==
    \/ SweepBegins \/ SweepTrims
    \/ \E r \in Runs : SweepVisits(r)
    \/ \E p \in Parts : SweepTakes(p)

\* The worker dies, with its threads; the next one sweeps before it does anything.
Crash ==
    /\ crashes < MaxCrashes /\ crashes' = crashes + 1
    /\ litter' = litter \cup {r \in Runs : Temps(r) # {}}
    /\ writer' = [r \in Runs |-> IF writer[r].state = "none" THEN NoWriter
                                 ELSE [writer[r] EXCEPT !.state = "closed", !.stream = FALSE]]
    /\ drain' = [r \in Runs |-> "none"]
    /\ role' = [r \in Runs |-> IF role[r] \in {"new", "abandoned"} THEN role[r] ELSE "gone"]
    /\ job' = [t \in Threads |-> NoJob]
    /\ sweep' = [NoSweep EXCEPT !.on = TRUE, !.todo = dirs]
    /\ UNCHANGED <<plain, gz, dirs, said, kept, order, tail, faults>>

-----------------------------------------------------------------------------
(* read_account_live, one request after another with the cursor of the last *)

\* _run_parts: of a part that is there twice the archive is taken.
Listing(r) ==
    {<<s, <<r, s>> \in gz>> : s \in {s \in Seqs : <<r, s>> \in plain \cup gz}}

There(part) ==
    IF part[2] THEN <<tail.run, part[1]>> \in gz ELSE <<tail.run, part[1]>> \in plain

Lines(part) ==
    IF part[2] THEN kept[<<tail.run, part[1]>>] ELSE said[<<tail.run, part[1]>>]

Reads(reader) == tail' = reader /\ NoFault /\ UNCHANGED <<disk, writer, drain, role, job, sweep>>

\* Mutant: the cursor names the line after the next one.
CursorBeyond(s, n) ==
    [tail EXCEPT !.step = "idle", !.seq = s, !.line = n + 1, !.at = s, !.pos = n, !.view = {}]

Cursor(s, n) == [tail EXCEPT !.step = "idle", !.seq = s, !.line = n, !.at = s, !.pos = n, !.view = {}]

\* The first request, and every one whose cursor has expired, shows the newest
\* part.  Which older lines fill the page does not matter to the cursor.
TailOpens(r) ==
    /\ tail.step = "off" /\ role[r] # "new"
    /\ Reads(IF Listing(r) = {} THEN [Cursor(0, 0) EXCEPT !.run = r]
             ELSE [tail EXCEPT !.step = "first", !.run = r,
                               !.view = {part \in Listing(r) :
                                            \A other \in Listing(r) : other[1] <= part[1]}])

TailFirst ==
    /\ tail.step = "first"
    /\ \E part \in tail.view :
         Reads(IF There(part) THEN Cursor(part[1], Lines(part)) ELSE NoTail)

\* Mutant: a cursor that has expired goes on with the oldest part that is left.
TailPollsOn ==
    /\ tail.step = "idle"
    /\ LET parts == {part \in Listing(tail.run) : part[1] >= tail.seq}
       IN Reads(IF parts = {} THEN Cursor(0, 0) ELSE [tail EXCEPT !.step = "read", !.view = parts])

TailPolls ==
    /\ tail.step = "idle"
    /\ LET parts == Listing(tail.run)
       IN Reads(IF parts = {} THEN Cursor(0, 0)
                ELSE IF \A part \in parts : part[1] # tail.seq THEN NoTail
                ELSE [tail EXCEPT !.step = "read", !.view = {part \in parts : part[1] >= tail.seq}])

\* A part is read from the cursor, or from its first line, to its end or until the
\* response is full.  One that is gone fails the request, and the cursor stays.
TailReads ==
    /\ tail.step = "read"
    /\ \E part \in tail.view :
         LET n     == Lines(part)
             start == IF part[1] # tail.seq THEN 0 ELSE IF tail.line < n THEN tail.line ELSE n
             rest  == tail.view \ {part}
         IN /\ \A other \in rest : part[1] < other[1]
            /\ \/ /\ ~There(part)
                  /\ Reads(Cursor(tail.seq, tail.line))
               \/ /\ There(part)
                  /\ \E end \in start..(n - 1) : Reads(Cursor(part[1], end))
               \/ /\ There(part)
                  /\ LET last == IF n > start THEN <<part[1], n>> ELSE <<tail.at, tail.pos>>
                     IN Reads(IF rest = {} THEN Cursor(last[1], last[2])
                              ELSE [tail EXCEPT !.at = last[1], !.pos = last[2], !.view = rest])

Reading == TailFirst \/ TailPolls \/ TailReads \/ \E r \in Followed : TailOpens(r)

-----------------------------------------------------------------------------
Next ==
    \/ \E t \in Threads : Compression(t)
    \/ \E r \in Runs : Writing(r)
    \/ Sweeping
    \/ Crash
    \/ Reading

\* The threads run, and the main thread sweeps again and again.
Fairness ==
    /\ \A t \in Threads : WF_vars(Compression(t))
    /\ \A r \in Runs : WF_vars(OpenPart(r)) /\ WF_vars(LastSeal(r)) /\ WF_vars(Finalize(r))
    /\ WF_vars(Sweeping)

Spec == Init /\ [][Next]_vars /\ Fairness

-----------------------------------------------------------------------------
(* Properties *)

\* The worker gave up waiting for the end of the output, and the thread that reads
\* it may still write.  Such a run counts as over, although it is not.
Abandoned(r) == role[r] = "abandoned"

\* While a run is active its writer writes to a file that is there: no sweep takes
\* the part a writer has open (active_run_ids), so no line goes to a removed file.
ActivePartIsLeftAlone ==
    \A r \in Runs : role[r] \in {"held", "deferred"} /\ writer[r].stream =>
        <<r, writer[r].seq>> \in plain

\* A part disappears only while a newer part of the account is kept: sealing,
\* compressing, publishing and removing lose nothing, wherever they fail, and
\* retention takes the oldest first.
OnlyOlderPartsGo ==
    [][(\A r \in Runs : ~Abandoned(r)) =>
          \A p \in (plain \cup gz) \ (plain' \cup gz') :
             \E q \in plain' \cup gz' : Older(p, q)]_vars

\* A reader leaves a part of a run only after the last line of it, and passes over
\* none that is there, across rotation, compression and failed requests.
TailMissesNothing ==
    [][tail.step = "read" /\ tail'.at > tail.at /\ ~Abandoned(tail.run) =>
       /\ tail.pos = said[<<tail.run, tail.at>>]
       /\ \A s \in Seqs : tail.at < s /\ s < tail'.at =>
            <<tail.run, s>> \notin plain \cup gz \/ said[<<tail.run, s>>] = 0]_vars

\* "If compression is interrupted, the plaintext source ... is retried during worker
\* reconciliation" (README.md): text of a run that is over does not stay text.
PendingIsRetried ==
    \A r \in Runs : [](role[r] \in {"gone", "abandoned"} => <>(\A p \in plain : p[1] # r))

\* Several threads that publish at a time may exceed the limit of the account, but
\* a later sweep brings it back.
LimitIsRestored == []<>(Cardinality(gz) <= Limit)
=============================================================================
