-------------------------- MODULE LogArchiveProofs --------------------------
(***************************************************************************)
(* What LogArchive promises, for every number of runs, parts, lines and    *)
(* failures: the types, that no sweep takes the part a writer has open,    *)
(* that only parts go of which a newer one stays, and that a reader passes *)
(* over no line.                                                           *)
(*                                                                         *)
(* A run is either active, and then only its own thread compresses its     *)
(* parts, or over, and then only the sweep does; an abandoned run is both. *)
(* Nothing but the source of a part and its archive may hold its lines, so *)
(* what a thread has copied stays true until it removes the source.        *)
(***************************************************************************)
EXTENDS LogArchive, FiniteSetTheorems, TLAPS

Over == {"gone", "abandoned"}

\* The thread has made a copy of its part, and will publish it.
Copied(t) == job[t].step \in {"measure", "prune", "publish", "unlink"} /\ job[t].aim # "trim"

\* What the thread of a run may be at.
JobOf(r) ==
    ~Idle(r) =>
        /\ ~writer[r].stream /\ writer[r].state \in {"open", "closing"}
        /\ job[r].step # "open" => job[r].part = <<r, writer[r].seq>> /\ job[r].aim \in {"rotate", "final"}
        /\ job[r].step = "open" \/ job[r].aim = "rotate" => writer[r].seq < MaxParts - 1
        /\ job[r].step # "open" /\ job[r].aim = "final" => writer[r].state = "closing"

JobFits ==
    /\ job[Main].step # "open" /\ job[Main].aim \in {"sweep", "trim"}
    /\ job[Main].aim = "trim" => job[Main].step \in {"measure", "prune"}
    /\ \A r \in Runs : JobOf(r)

\* How far a writer is, by where the worker has its run.
WriterOf(r) ==
    /\ role[r] = "new" => writer[r].state = "none"
    /\ role[r] = "gone" => writer[r].state \in {"none", "closed"}
    /\ writer[r].state \in {"none", "closed"} => ~writer[r].stream
    /\ writer[r].state = "closing" => role[r] \in {"held", "deferred"} /\ drain[r] # "alive"

WriterFits == \A r \in Runs : WriterOf(r)

\* A part that is open has room, for the last lines too; later ones are empty.
SaidOf(r) ==
    /\ \A s \in Seqs : writer[r].state = "none" \/ s > writer[r].seq => said[<<r, s>>] = 0
    /\ writer[r].stream =>
         /\ said[<<r, writer[r].seq>>] < PartLines
         /\ writer[r].state = "open" /\ writer[r].seq = MaxParts - 1 =>
              said[<<r, writer[r].seq>>] = IF writer[r].seq = 0 THEN 1 ELSE 0

SaidFits == \A r \in Runs : SaidOf(r)

\* A part was opened by the writer of its run.
Opened(p) == writer[p[1]].state # "none" /\ p[2] <= writer[p[1]].seq

\* The sweep looks only at runs that are over.
SweepFits ==
    /\ \A r \in dirs : role[r] # "new"
    /\ \A r \in sweep.todo : role[r] \in Over
    /\ \A p \in sweep.parts : role[p[1]] \in Over /\ Opened(p)
    /\ ~Idle(Main) /\ job[Main].aim = "sweep" => role[job[Main].part[1]] \in Over /\ Opened(job[Main].part)

PartsFit == \A p \in plain \cup gz : Opened(p)

\* TypeOK without what it says of the order, which is in Ordered.
Typed ==
    /\ plain \subseteq Parts /\ gz \subseteq Parts
    /\ dirs \subseteq Runs /\ litter \subseteq Runs
    /\ said \in [Parts -> 0..PartLines] /\ kept \in [Parts -> 0..PartLines]
    /\ order \subseteq Parts \X Parts
    /\ writer \in [Runs -> Writer]
    /\ drain \in [Runs -> {"none", "alive", "done"}]
    /\ role \in [Runs -> {"new", "held", "deferred", "gone", "abandoned"}]
    /\ job \in [Threads -> Job]
    /\ sweep \in [on : BOOLEAN, todo : SUBSET Runs, parts : SUBSET Parts]
    /\ tail \in Reader
    /\ faults \in 0..MaxFaults /\ crashes \in 0..MaxCrashes

Shape == Typed /\ JobFits /\ WriterFits /\ SaidFits /\ SweepFits /\ PartsFit /\ ActivePartIsLeftAlone

\* The order is strict and total on what it is known of.
All == Known(plain \cup gz)

StrictOn(o, K) ==
    /\ \A p \in K : <<p, p>> \notin o
    /\ \A p, q \in K : p = q \/ <<p, q>> \in o \/ <<q, p>> \in o
    /\ \A p, q, x \in K : <<p, q>> \in o /\ <<q, x>> \in o => <<p, x>> \in o

Ordered == StrictOn(order, All)

Counted == IsFiniteSet(gz) /\ \A t \in Threads : IsFiniteSet(job[t].seen)

\* The source of a copy stays, with what was copied.
SourceStays ==
    \A t \in Threads :
        Copied(t) /\ ~Abandoned(job[t].part[1]) =>
            /\ job[t].part \in plain
            /\ job[t].step # "unlink" => job[t].lines = said[job[t].part]

\* An archive has all the lines of its part.
ArchivesFit ==
    \A p \in gz : ~Abandoned(p[1]) =>
        kept[p] = said[p] /\ (p[2] < writer[p[1]].seq \/ ~writer[p[1]].stream)

Superseded(p) == \E q \in plain \cup gz : Older(p, q)

\* The newest part stays, and one that is given up was not the newest.
NewestStays ==
    (\A r \in Runs : ~Abandoned(r)) =>
        /\ \A p \in All : p \in plain \cup gz \/ Superseded(p)
        /\ \A t \in Threads : Copied(t) =>
             /\ job[t].reserve = 0 => Superseded(job[t].part)
             /\ job[t].step = "unlink" => job[t].part \in gz \/ Superseded(job[t].part)

\* A part that is passed over is gone, or has no line.
Nothing(r, s) == <<r, s>> \notin plain \cup gz \/ said[<<r, s>>] = 0

\* Where a reader is between the parts it has listed.
ReaderFits ==
    /\ tail.step = "off" => tail.line = 0
    /\ tail.step = "idle" => tail.at = tail.seq /\ tail.pos = tail.line
    /\ ~Abandoned(tail.run) =>
         /\ tail.line <= said[<<tail.run, tail.seq>>]
         /\ tail.step = "read" =>
              /\ tail.seq <= tail.at
              /\ \A part \in tail.view : tail.at <= part[1] /\ Opened(<<tail.run, part[1]>>)
              /\ \A s \in Seqs, part \in tail.view :
                   tail.at < s /\ s < part[1] /\ (\A other \in tail.view : other[1] # s) => Nothing(tail.run, s)
              /\ \/ tail.at = tail.seq /\ tail.pos = tail.line /\ \E part \in tail.view : part[1] = tail.seq
                 \/ \A part \in tail.view : tail.at < part[1] /\ tail.pos = said[<<tail.run, tail.at>>]

-----------------------------------------------------------------------------
LEMMA Blank ==
    /\ SomeRun \in Runs /\ 0 \in Seqs /\ <<SomeRun, 0>> \in Parts
    /\ PartLines \in Nat /\ PartLines > 1 /\ MaxParts \in Nat /\ MaxParts > 0
    /\ Seqs = 0..(MaxParts - 1) /\ Seqs \subseteq Nat /\ Main \in Threads /\ Main \notin Runs
    /\ NoJob \in Job /\ NoJob.step = "idle" /\ NoJob.aim = "sweep" /\ NoJob.seen = {}
    /\ NoWriter \in Writer /\ NoWriter.state = "none" /\ ~NoWriter.stream /\ NoWriter.seq = 0
    /\ NoTail \in Reader /\ NoTail.step = "off" /\ NoTail.line = 0 /\ NoTail.seq = 0
    /\ NoSweep \in [on : BOOLEAN, todo : SUBSET Runs, parts : SUBSET Parts]
    /\ NoSweep.todo = {} /\ NoSweep.parts = {}
  <1>1. SomeRun \in Runs
    BY ArchiveAssumption DEF SomeRun
  <1>2. 0 \in Seqs /\ <<SomeRun, 0>> \in Parts
    BY <1>1, ArchiveAssumption DEF Seqs, Parts
  <1>3. NoJob \in Job /\ NoJob.step = "idle" /\ NoJob.aim = "sweep" /\ NoJob.seen = {}
    BY <1>2, ArchiveAssumption DEF NoJob, Compressing, Job, Steps, Aims
  <1> QED  BY <1>1, <1>2, <1>3, ArchiveAssumption
           DEF Seqs, Parts, Threads, NoWriter, Writer, NoTail, Reader, NoSweep

LEMMA NewJob ==
    ASSUME NEW p \in Parts, NEW aim \in Aims
    PROVE  /\ Compressing(p, aim) \in Job /\ Compressing(p, aim).step = "copy"
           /\ Compressing(p, aim).aim = aim /\ Compressing(p, aim).part = p
           /\ Compressing(p, aim).seen = {}
  BY ArchiveAssumption DEF Compressing, Job, Steps

LEMMA OpenJob ==
    /\ [NoJob EXCEPT !.step = "open"] \in Job /\ [NoJob EXCEPT !.step = "open"].step = "open"
    /\ [NoJob EXCEPT !.step = "open"].seen = {} /\ [NoJob EXCEPT !.step = "open"].aim = "sweep"
  BY Blank DEF Job, Steps

\* What a thread goes on to when it is done with a part.
LEMMA GoesOnTo ==
    ASSUME Shape, NEW t \in Threads, ~Idle(t), job[t].step # "open", GoesOn(t)
    PROVE  /\ \E j \in Job :
                /\ job' = [job EXCEPT ![t] = j] /\ j.seen = {} /\ j.aim = "sweep"
                /\ j.step = IF job[t].aim = "rotate" THEN "open" ELSE "idle"
           /\ IF job[t].aim = "final"
              THEN /\ t \in Runs
                   /\ writer' = [writer EXCEPT ![t].state = "closed"]
                   /\ role' = [role EXCEPT ![t] = "gone"]
              ELSE UNCHANGED <<writer, role>>
           /\ sweep' = IF job[t].aim = "trim" THEN NoSweep ELSE sweep
  <1>1. job[t].aim \in Aims
    BY DEF Shape, Typed, Job
  <1>2. job[t].aim = "final" => t \in Runs
    BY DEF Shape, JobFits, JobOf, Threads
  <1>3. CASE job[t].aim = "rotate"
    BY <1>3, OpenJob DEF GoesOn
  <1>4. CASE job[t].aim = "final"
    BY <1>2, <1>4, Blank DEF GoesOn
  <1>5. CASE job[t].aim = "sweep"
    BY <1>5, Blank DEF GoesOn
  <1>6. CASE job[t].aim = "trim"
    BY <1>6, Blank DEF GoesOn
  <1> QED  BY <1>1, <1>3, <1>4, <1>5, <1>6 DEF Aims

Busy == {"measure", "prune", "publish", "unlink"}

\* The thread stays with its part.
StaysWith(t) ==
    /\ UNCHANGED <<writer, role, sweep>>
    /\ \E j \in Job :
         /\ job' = [job EXCEPT ![t] = j]
         /\ j.part = job[t].part /\ j.aim = job[t].aim /\ j.step \in Busy
         /\ j.aim = "trim" => j.step = "prune"

LEMMA ToStays ==
    ASSUME Shape, NEW t \in Threads, NEW step \in Busy, To(t, step), job[t].aim = "trim" => step = "prune"
    PROVE  StaysWith(t)
  <1> DEFINE j == [job[t] EXCEPT !.step = step]
  <1>1. job[t] \in Job
    BY DEF Shape, Typed
  <1>2. j \in Job /\ j.part = job[t].part /\ j.aim = job[t].aim /\ j.step = step
    BY <1>1 DEF Job, Steps, Busy
  <1>3. job' = [job EXCEPT ![t] = j]
    BY DEF To
  <1> QED  BY <1>2, <1>3 DEF To, StaysWith

\* A thread at compression stays with its part or goes on, and of the files it changes no
\* others than its part and the archives.
LEMMA CompressionStep ==
    ASSUME Shape, NEW t \in Threads, Compression(t)
    PROVE  /\ ~Idle(t) /\ job[t].step # "open"
           /\ GoesOn(t) \/ StaysWith(t)
           /\ UNCHANGED <<drain, tail, said, litter, crashes>>
           /\ plain' \subseteq plain /\ dirs' \subseteq dirs /\ order' \subseteq order
           /\ gz' \subseteq gz \cup {job[t].part}
           /\ job[t].step # "publish" => gz' \subseteq gz
           /\ kept' \in [Parts -> 0..PartLines] /\ faults' \in 0..MaxFaults
  <1>1. /\ job[t] \in Job /\ job \in [Threads -> Job] /\ gz \subseteq Parts
        /\ said \in [Parts -> 0..PartLines] /\ kept \in [Parts -> 0..PartLines]
        /\ faults \in 0..MaxFaults /\ MaxFaults \in Nat
    BY ArchiveAssumption DEF Shape, Typed
  <1>2. job[t].aim = "trim" => job[t].step \in {"idle", "open", "measure", "prune"}
    <2>1. CASE t = Main
      BY <2>1 DEF Shape, JobFits, JobOf
    <2>2. CASE t # Main
      BY <2>2, Blank DEF Shape, JobFits, JobOf, Threads, Idle
    <2> QED  BY <2>1, <2>2
  <1>3. CASE Copy(t)
    <2>1. job[t].step = "copy"
      BY <1>3 DEF Copy
    <2>2. CASE job[t].part \in plain
      <3> DEFINE j == [job[t] EXCEPT !.step = "measure", !.lines = said[job[t].part], !.seen = gz]
      <3>1. job' = [job EXCEPT ![t] = j]
        BY <1>3, <2>2, <1>1 DEF Copy
      <3>2. /\ j \in Job /\ j.part = job[t].part /\ j.aim = job[t].aim /\ j.step = "measure"
        BY <1>1 DEF Job, Steps
      <3>3. StaysWith(t)
        BY <1>2, <1>3, <2>1, <2>2, <3>1, <3>2 DEF Copy, StaysWith, Busy
      <3> QED  BY <1>1, <1>3, <2>1, <3>3 DEF Copy, Idle, NoFault, Aside, disk, budget
    <2>3. CASE job[t].part \notin plain
      BY <1>1, <1>3, <2>1, <2>3 DEF Copy, Idle, NoFault, Aside, disk, budget
    <2> QED  BY <2>2, <2>3
  <1>4. CASE Measure(t)
    <2>1. GoesOn(t) \/ StaysWith(t)
      BY <1>4, ToStays DEF Measure, Busy
    <2> QED  BY <1>1, <1>4, <2>1 DEF Measure, Idle, NoFault, Aside, disk, budget
  <1>5. CASE PruneCandidate(t)
    <2> DEFINE j == [job[t] EXCEPT !.reserve = 0]
    <2>1. job' = [job EXCEPT ![t] = j]
      BY <1>5, <1>1 DEF PruneCandidate
    <2>2. j \in Job /\ j.part = job[t].part /\ j.aim = job[t].aim /\ j.step = "prune"
      BY <1>1, <1>5 DEF Job, PruneCandidate
    <2>3. StaysWith(t)
      BY <1>5, <2>1, <2>2 DEF PruneCandidate, StaysWith, Busy
    <2> QED  BY <1>1, <1>5, <2>3 DEF PruneCandidate, Idle, NoFault, Aside, disk, budget
  <1>6. CASE PruneOldest(t)
    <2>1. job[t].step = "prune"
      BY <1>6 DEF PruneOldest
    <2>2. PICK q \in job[t].seen :
             IF q \in gz
             THEN /\ gz' = gz \ {q} /\ order' = Left(plain \cup gz')
                  /\ dirs' = Swept(q[1], plain, gz', Temps(q[1]))
                  /\ job' = [job EXCEPT ![t].seen = @ \ {q}]
                  /\ UNCHANGED <<writer, role, sweep>>
             ELSE GoesOn(t) /\ UNCHANGED <<gz, dirs, order>>
      BY <1>6 DEF PruneOldest
    <2>3. CASE q \in gz
      <3> DEFINE j == [job[t] EXCEPT !.seen = @ \ {q}]
      <3>1. job' = [job EXCEPT ![t] = j]
        BY <2>2, <2>3, <1>1
      <3>2. j \in Job /\ j.part = job[t].part /\ j.aim = job[t].aim /\ j.step = "prune"
        BY <1>1, <2>1 DEF Job
      <3>3. StaysWith(t)
        BY <2>2, <2>3, <3>1, <3>2 DEF StaysWith, Busy
      <3> QED  BY <1>1, <1>6, <2>1, <2>2, <2>3, <3>3
               DEF PruneOldest, Idle, NoFault, Aside, budget, Left, Swept
    <2>4. CASE q \notin gz
      BY <1>1, <1>6, <2>1, <2>2, <2>4 DEF PruneOldest, Idle, NoFault, Aside, budget
    <2> QED  BY <2>3, <2>4
  <1>7. CASE PruneEnds(t)
    <2>1. CASE job[t].aim = "trim"
      BY <1>1, <1>7, <2>1 DEF PruneEnds, Idle, NoFault, Aside, disk, budget
    <2>2. CASE job[t].aim # "trim"
      <3> DEFINE j == [job[t] EXCEPT !.step = "publish", !.seen = {}]
      <3>1. job' = [job EXCEPT ![t] = j]
        BY <1>7, <2>2, <1>1 DEF PruneEnds
      <3>2. j \in Job /\ j.part = job[t].part /\ j.aim = job[t].aim /\ j.step = "publish"
        BY <1>1 DEF Job, Steps
      <3>3. StaysWith(t)
        BY <1>7, <2>2, <3>1, <3>2 DEF PruneEnds, StaysWith, Busy
      <3> QED  BY <1>1, <1>7, <3>3 DEF PruneEnds, Idle, NoFault, Aside, disk, budget
    <2> QED  BY <2>1, <2>2
  <1>8. CASE Publish(t)
    <2> DEFINE j == [job[t] EXCEPT !.step = "unlink", !.lines = 0]
    <2>1. job' = [job EXCEPT ![t] = j]
      BY <1>8, <1>1 DEF Publish
    <2>2. j \in Job /\ j.part = job[t].part /\ j.aim = job[t].aim /\ j.step = "unlink"
      <3>1. 0 \in 0..PartLines
        BY ArchiveAssumption
      <3> QED  BY <1>1, <3>1 DEF Job, Steps
    <2>3. job[t].aim # "trim"
      BY <1>2, <1>8 DEF Publish
    <2>4. StaysWith(t)
      BY <1>8, <2>1, <2>2, <2>3 DEF Publish, StaysWith, Busy
    <2>5. kept' \in [Parts -> 0..PartLines]
      BY <1>1, <1>8 DEF Publish, Job
    <2> QED  BY <1>1, <1>8, <2>4, <2>5 DEF Publish, Idle, NoFault, Aside, budget
  <1>9. CASE RemoveSource(t)
    BY <1>1, <1>9 DEF RemoveSource, Idle, NoFault, Aside, budget, Left, Swept
  <1>10. CASE CompressionFails(t)
    BY <1>1, <1>10 DEF CompressionFails, Idle, Fault, Aside, disk
  <1> QED  BY <1>3, <1>4, <1>5, <1>6, <1>7, <1>8, <1>9, <1>10 DEF Compression

LEMMA CompressionTyped ==
    ASSUME Shape, NEW t \in Threads, Compression(t)
    PROVE  Typed'
  <1>1. job' \in [Threads -> Job]
    <2>1. CASE GoesOn(t)
      BY <2>1, CompressionStep, GoesOnTo DEF Shape, Typed
    <2>2. CASE StaysWith(t)
      BY <2>2 DEF StaysWith, Shape, Typed
    <2> QED  BY <2>1, <2>2, CompressionStep
  <1>2. /\ writer' \in [Runs -> Writer]
        /\ role' \in [Runs -> {"new", "held", "deferred", "gone", "abandoned"}]
        /\ sweep' \in [on : BOOLEAN, todo : SUBSET Runs, parts : SUBSET Parts]
    <2>1. CASE GoesOn(t)
      <3>1. /\ writer \in [Runs -> Writer] /\ sweep \in [on : BOOLEAN, todo : SUBSET Runs, parts : SUBSET Parts]
            /\ role \in [Runs -> {"new", "held", "deferred", "gone", "abandoned"}]
        BY DEF Shape, Typed
      <3>2. /\ IF job[t].aim = "final"
               THEN /\ t \in Runs
                    /\ writer' = [writer EXCEPT ![t].state = "closed"]
                    /\ role' = [role EXCEPT ![t] = "gone"]
               ELSE UNCHANGED <<writer, role>>
            /\ sweep' = IF job[t].aim = "trim" THEN NoSweep ELSE sweep
        BY <2>1, CompressionStep, GoesOnTo
      <3>3. sweep' \in [on : BOOLEAN, todo : SUBSET Runs, parts : SUBSET Parts]
        BY <3>1, <3>2, Blank
      <3>4. t \in Runs => [writer[t] EXCEPT !.state = "closed"] \in Writer
        BY <3>1 DEF Writer
      <3> QED  BY <3>1, <3>2, <3>3, <3>4
    <2>2. CASE StaysWith(t)
      BY <2>2 DEF StaysWith, Shape, Typed
    <2> QED  BY <2>1, <2>2, CompressionStep
  <1>3. job[t].part \in Parts
    BY DEF Shape, Typed, Job
  <1> QED  BY <1>1, <1>2, <1>3, CompressionStep DEF Shape, Typed

LEMMA CompressionRoles ==
    ASSUME Shape, NEW t \in Threads, Compression(t)
    PROVE  JobFits' /\ WriterFits'
  <1>1. /\ ~Idle(t) /\ job[t].step # "open" /\ job \in [Threads -> Job] /\ writer \in [Runs -> Writer]
        /\ role \in [Runs -> {"new", "held", "deferred", "gone", "abandoned"}] /\ drain' = drain
    BY CompressionStep DEF Shape, Typed
  <1>2. CASE StaysWith(t)
    <2>1. UNCHANGED <<writer, role>>
      BY <1>2 DEF StaysWith
    <2>2. PICK j \in Job :
             /\ job' = [job EXCEPT ![t] = j]
             /\ j.part = job[t].part /\ j.aim = job[t].aim /\ j.step \in Busy
             /\ j.aim = "trim" => j.step = "prune"
      BY <1>2 DEF StaysWith
    <2>3. job'[t] = j /\ \A u \in Threads \ {t} : job'[u] = job[u]
      BY <1>1, <2>2
    <2>4. \A u \in Threads : u # t \/ (~Idle(u) /\ job[u].step # "open")
      BY <1>1
    <2>5. JobFits'
      <3>1. job'[Main].step # "open" /\ job'[Main].aim \in {"sweep", "trim"}
        BY <2>2, <2>3, Blank DEF Shape, JobFits, JobOf, Busy
      <3>2. job'[Main].aim = "trim" => job'[Main].step \in {"measure", "prune"}
        BY <2>2, <2>3, Blank DEF Shape, JobFits, JobOf
      <3>3. ASSUME NEW r \in Runs
            PROVE  /\ job'[r].part = job[r].part /\ job'[r].aim = job[r].aim
                   /\ (job'[r].step = "idle" <=> job[r].step = "idle")
                   /\ (job'[r].step = "open" <=> job[r].step = "open")
        BY <1>1, <2>2, <2>3 DEF Threads, Busy, Idle
      <3> QED  BY <2>1, <3>1, <3>2, <3>3 DEF Shape, JobFits, JobOf, Idle
    <2> QED  BY <1>1, <2>1, <2>5 DEF Shape, WriterFits, WriterOf
  <1>3. CASE GoesOn(t)
    <2>1. PICK j \in Job :
             /\ job' = [job EXCEPT ![t] = j] /\ j.seen = {} /\ j.aim = "sweep"
             /\ j.step = IF job[t].aim = "rotate" THEN "open" ELSE "idle"
      BY <1>1, <1>3, GoesOnTo
    <2>2. job'[t] = j /\ \A u \in Threads \ {t} : job'[u] = job[u]
      BY <1>1, <2>1
    <2>3. IF job[t].aim = "final"
          THEN /\ t \in Runs /\ writer' = [writer EXCEPT ![t].state = "closed"]
               /\ role' = [role EXCEPT ![t] = "gone"]
          ELSE UNCHANGED <<writer, role>>
      BY <1>1, <1>3, GoesOnTo
    <2>4. ASSUME NEW r \in Runs
          PROVE  /\ writer'[r].stream = writer[r].stream /\ writer'[r].seq = writer[r].seq
                 /\ writer'[r].state = IF r = t /\ job[t].aim = "final" THEN "closed" ELSE writer[r].state
                 /\ role'[r] = IF r = t /\ job[t].aim = "final" THEN "gone" ELSE role[r]
      BY <1>1, <2>3 DEF Writer
    <2>5. t \in Runs => job[t].aim \in {"rotate", "final"} /\ ~writer[t].stream
      BY <1>1 DEF Shape, JobFits, JobOf
    <2>6. job[Main].aim # "rotate"
      BY DEF Shape, JobFits, JobOf
    <2>7. JobFits'
      <3>1. /\ job'[Main].step # "open" /\ job'[Main].aim \in {"sweep", "trim"}
            /\ job'[Main].aim = "trim" => job'[Main].step \in {"measure", "prune"}
        BY <2>1, <2>2, <2>6, Blank DEF Shape, JobFits, JobOf
      <3>2. ASSUME NEW r \in Runs, ~Idle(r)'
            PROVE  /\ ~writer'[r].stream /\ writer'[r].state \in {"open", "closing"}
                   /\ job'[r].step # "open" => job'[r].part = <<r, writer'[r].seq>> /\ job'[r].aim \in {"rotate", "final"}
                   /\ job'[r].step = "open" \/ job'[r].aim = "rotate" => writer'[r].seq < MaxParts - 1
                   /\ job'[r].step # "open" /\ job'[r].aim = "final" => writer'[r].state = "closing"
        <4>1. CASE r = t
          <5>1. job[t].aim = "rotate" /\ job'[t].step = "open" /\ job'[t].aim = "sweep"
            BY <2>1, <2>2, <3>2, <4>1 DEF Idle
          <5> QED  BY <1>1, <2>4, <4>1, <5>1 DEF Shape, JobFits, JobOf
        <4>2. CASE r # t
          <5>1. job'[r] = job[r] /\ ~Idle(r)
            BY <2>2, <3>2, <4>2 DEF Threads, Idle
          <5> QED  BY <2>4, <4>2, <5>1 DEF Shape, JobFits, JobOf
        <4> QED  BY <4>1, <4>2
      <3> QED  BY <3>1, <3>2 DEF JobFits, JobOf
    <2> QED  BY <1>1, <2>4, <2>5, <2>7 DEF Shape, WriterFits, WriterOf
  <1> QED  BY <1>2, <1>3, CompressionStep

\* What a compression leaves of a writer and of the sweep.
LEMMA CompressionKeeps ==
    ASSUME Shape, NEW t \in Threads, Compression(t)
    PROVE  /\ \A r \in Runs :
                /\ writer'[r].stream = writer[r].stream /\ writer'[r].seq = writer[r].seq
                /\ (writer'[r].state = "none" <=> writer[r].state = "none")
                /\ writer'[r].state \in {writer[r].state, "closed"}
                /\ role'[r] \in {role[r], "gone"} /\ (Abandoned(r) => Abandoned(r)')
                /\ (role[r] = "new" <=> role'[r] = "new")
                /\ (Abandoned(r)' => Abandoned(r)) /\ (role[r] \in Over => role'[r] = role[r])
           /\ sweep' \in {sweep, NoSweep}
           /\ \A u \in Threads \ {t} : job'[u] = job[u]
  <1>1. /\ ~Idle(t) /\ job[t].step # "open" /\ job \in [Threads -> Job] /\ writer \in [Runs -> Writer]
        /\ role \in [Runs -> {"new", "held", "deferred", "gone", "abandoned"}]
    BY CompressionStep DEF Shape, Typed
  <1>2. CASE StaysWith(t)
    BY <1>1, <1>2 DEF StaysWith, Abandoned
  <1>3. CASE GoesOn(t)
    <2>1. IF job[t].aim = "final"
          THEN /\ t \in Runs /\ writer' = [writer EXCEPT ![t].state = "closed"]
               /\ role' = [role EXCEPT ![t] = "gone"]
          ELSE UNCHANGED <<writer, role>>
      BY <1>1, <1>3, GoesOnTo
    <2>2. job[t].aim = "final" => writer[t].state = "closing" /\ role[t] \in {"held", "deferred"}
      BY <1>1, <2>1 DEF Shape, JobFits, JobOf, WriterFits, WriterOf
    <2>3. sweep' \in {sweep, NoSweep}
      BY <1>1, <1>3, GoesOnTo
    <2>4. \A u \in Threads \ {t} : job'[u] = job[u]
      BY <1>1, <1>3, GoesOnTo
    <2>5. ASSUME NEW r \in Runs
          PROVE  /\ writer'[r].stream = writer[r].stream /\ writer'[r].seq = writer[r].seq
                 /\ writer'[r].state = IF r = t /\ job[t].aim = "final" THEN "closed" ELSE writer[r].state
                 /\ role'[r] = IF r = t /\ job[t].aim = "final" THEN "gone" ELSE role[r]
      BY <1>1, <2>1 DEF Writer
    <2> QED  BY <2>2, <2>3, <2>4, <2>5 DEF Abandoned, Over
  <1> QED  BY <1>2, <1>3, CompressionStep

LEMMA CompressionShape ==
    ASSUME Shape, NEW t \in Threads, Compression(t)
    PROVE  Shape'
  <1>1. /\ job[t] \in Job /\ job[t].part \in Parts /\ plain \subseteq Parts /\ gz \subseteq Parts
        /\ job \in [Threads -> Job]
        /\ ~Idle(t) /\ job[t].step # "open"
        /\ plain' \subseteq plain /\ dirs' \subseteq dirs /\ said' = said
        /\ gz' \subseteq gz \cup {job[t].part} /\ (job[t].step # "publish" => gz' \subseteq gz)
    BY CompressionStep DEF Shape, Typed, Job
  <1>2. t \in Runs => job[t].part = <<t, writer[t].seq>> /\ writer[t].state \in {"open", "closing"}
    BY <1>1 DEF Shape, JobFits, JobOf
  <1>3. t = Main \/ t \in Runs
    BY DEF Threads
  <1>4. \A p \in Parts : p[1] \in Runs
    BY DEF Parts
  <1>5. SaidFits'
    BY <1>1, CompressionKeeps, CompressionRoles DEF Shape, SaidFits, SaidOf, WriterFits, WriterOf
  <1>6. job[t].step = "publish" => Opened(job[t].part)
    <2>1. CASE t = Main
      BY <1>1, <2>1 DEF Shape, SweepFits, JobFits, JobOf
    <2>2. CASE t \in Runs
      <3>1. writer[t].seq \in Nat
        BY <2>2, Blank DEF Shape, Typed, Writer
      <3> QED  BY <1>2, <2>2, <3>1 DEF Opened
    <2> QED  BY <1>3, <2>1, <2>2
  <1>7. \A p \in plain' \cup gz' : Opened(p) /\ p \in Parts
    BY <1>1, <1>6 DEF Shape, PartsFit
  <1>8. \A p \in Parts : Opened(p) => Opened(p)'
    BY <1>4, CompressionKeeps DEF Opened
  <1>9. PartsFit'
    BY <1>7, <1>8 DEF PartsFit
  <1>10. SweepFits'
    <2>1. /\ \A r \in dirs' : role'[r] # "new"
      BY <1>1, CompressionKeeps DEF Shape, Typed, SweepFits
    <2>2. sweep'.todo \subseteq sweep.todo /\ sweep'.parts \subseteq sweep.parts
      BY CompressionKeeps, Blank
    <2>3. /\ \A r \in sweep'.todo : role'[r] \in Over
          /\ \A p \in sweep'.parts : role'[p[1]] \in Over /\ Opened(p)'
      BY <1>4, <1>8, <2>2, CompressionKeeps DEF Shape, Typed, SweepFits
    <2>4. ~Idle(Main)' /\ job'[Main].aim = "sweep" =>
             ~Idle(Main) /\ job[Main].aim = "sweep" /\ job'[Main].part = job[Main].part
      <3>1. CASE t = Main
        <4>1. CASE StaysWith(t)
          BY <1>1, <3>1, <4>1 DEF StaysWith
        <4>2. CASE GoesOn(t)
          <5>1. job[Main].aim # "rotate"
            BY DEF Shape, JobFits, JobOf
          <5>2. job'[Main].step = "idle"
            BY <1>1, <3>1, <4>2, <5>1, GoesOnTo
          <5> QED  BY <5>2 DEF Idle
        <4> QED  BY <4>1, <4>2, CompressionStep
      <3>2. CASE t # Main
        <4>1. job'[Main] = job[Main]
          BY <3>2, CompressionKeeps, Blank
        <4> QED  BY <4>1 DEF Idle
      <3> QED  BY <3>1, <3>2
    <2>5. job[Main].part \in Parts
      BY Blank DEF Shape, Typed, Job
    <2>6. ~Idle(Main)' /\ job'[Main].aim = "sweep" =>
             role'[job'[Main].part[1]] \in Over /\ Opened(job[Main].part)'
      <3> DEFINE p == job[Main].part
      <3>1. ~Idle(Main)' /\ job'[Main].aim = "sweep" =>
               job'[Main].part = p /\ role[p[1]] \in Over /\ writer[p[1]].state # "none" /\ p[2] <= writer[p[1]].seq
        BY <2>4 DEF Shape, SweepFits, Opened
      <3>2. p[1] \in Runs
        BY <1>4, <2>5
      <3> HIDE DEF p
      <3> QED  BY <3>1, <3>2, CompressionKeeps DEF Opened
    <2> QED  BY <2>1, <2>3, <2>6 DEF SweepFits
  <1>11. ActivePartIsLeftAlone'
    <2> SUFFICES ASSUME NEW r \in Runs, role'[r] \in {"held", "deferred"}, writer'[r].stream
                 PROVE  <<r, writer'[r].seq>> \in plain'
      BY DEF ActivePartIsLeftAlone
    <2>1. role[r] \in {"held", "deferred"} /\ writer[r].stream /\ writer'[r].seq = writer[r].seq
      BY CompressionKeeps DEF Over
    <2>2. <<r, writer[r].seq>> \in plain
      BY <2>1 DEF Shape, ActivePartIsLeftAlone
    <2>3. CASE RemoveSource(t)
      <3>1. job[t].part # <<r, writer[r].seq>>
        <4>1. CASE t = Main
          BY <1>1, <2>1, <2>3, <4>1 DEF Shape, SweepFits, JobFits, JobOf, Over, RemoveSource
        <4>2. CASE t \in Runs
          BY <1>1, <1>2, <2>1, <4>2 DEF Shape, JobFits, JobOf
        <4> QED  BY <1>3, <4>1, <4>2
      <3> QED  BY <2>1, <2>2, <2>3, <3>1 DEF RemoveSource
    <2>4. CASE ~RemoveSource(t)
      <3>1. plain' = plain
        BY <2>4 DEF Compression, Copy, Measure, PruneCandidate, PruneOldest, PruneEnds, Publish, CompressionFails, disk
      <3> QED  BY <2>1, <2>2, <3>1
    <2> QED  BY <2>3, <2>4
  <1> QED  BY <1>5, <1>9, <1>10, <1>11, CompressionTyped, CompressionRoles DEF Shape

-----------------------------------------------------------------------------
\* A step of one run leaves the others, and the sweep, alone.
Beside(r) ==
    /\ \A q \in Runs \ {r} :
         /\ writer'[q] = writer[q] /\ role'[q] = role[q] /\ drain'[q] = drain[q] /\ job'[q] = job[q]
         /\ \A s \in Seqs : said'[<<q, s>>] = said[<<q, s>>]
    /\ job'[Main] = job[Main] /\ sweep' = sweep /\ gz' = gz
    /\ plain \subseteq plain' /\ plain' \subseteq plain \cup {<<r, writer'[r].seq>>}
    /\ plain' # plain => writer'[r].state # "none"
    /\ dirs' \subseteq dirs \cup {r} /\ (role[r] # "new" \/ r \in dirs' => role'[r] # "new")
    /\ role[r] \in Over => role'[r] \in Over
    /\ writer[r].state # "none" => writer'[r].state # "none" /\ writer[r].seq <= writer'[r].seq

LEMMA RunShape ==
    ASSUME Shape, Typed', NEW r \in Runs, Beside(r), JobOf(r)', WriterOf(r)', SaidOf(r)',
           role'[r] \in {"held", "deferred"} /\ writer'[r].stream => <<r, writer'[r].seq>> \in plain'
    PROVE  Shape'
  <1>1. \A q \in Runs \ {r} : (Idle(q)' <=> Idle(q))
    BY DEF Beside, Idle
  <1>2. JobFits'
    <2>1. \A q \in Runs \ {r} : JobOf(q)'
      BY <1>1 DEF Shape, JobFits, JobOf, Beside
    <2>2. \A q \in Runs : JobOf(q)'
      BY <2>1
    <2> QED  BY <2>2 DEF Shape, JobFits, Beside
  <1>3. WriterFits'
    BY DEF Shape, WriterFits, WriterOf, Beside
  <1>4. SaidFits'
    <2>1. \A q \in Runs \ {r} : SaidOf(q)'
      <3> SUFFICES ASSUME NEW q \in Runs \ {r}
                   PROVE  SaidOf(q)'
        OBVIOUS
      <3>1. SaidOf(q) /\ writer'[q] = writer[q] /\ writer[q].seq \in Seqs /\ \A s \in Seqs : said'[<<q, s>>] = said[<<q, s>>]
        BY DEF Shape, SaidFits, Typed, Writer, Beside
      <3> QED  BY <3>1 DEF SaidOf
    <2> QED  BY <2>1 DEF SaidFits
  <1>5. \A p \in Parts : Opened(p) => Opened(p)'
    <2> SUFFICES ASSUME NEW p \in Parts, Opened(p)
                 PROVE  Opened(p)'
      OBVIOUS
    <2>1. p[1] \in Runs /\ p[2] \in Nat /\ writer[p[1]].seq \in Nat /\ writer'[p[1]].seq \in Nat
      BY Blank DEF Parts, Shape, Typed, Writer
    <2> QED  BY <2>1 DEF Opened, Beside
  <1>6. PartsFit'
    <2>1. \A p \in plain \cup gz : p \in Parts /\ Opened(p)
      BY DEF Shape, Typed, PartsFit
    <2>2. writer'[r].seq \in Nat
      BY Blank DEF Typed, Writer
    <2>3. ASSUME NEW p \in plain' \cup gz', p \notin plain \cup gz
          PROVE  Opened(p)'
      <3>1. p = <<r, writer'[r].seq>> /\ writer'[r].state # "none"
        BY <2>3 DEF Beside
      <3> QED  BY <2>2, <3>1 DEF Opened
    <2> QED  BY <1>5, <2>1, <2>3 DEF PartsFit
  <1>7. SweepFits'
    <2>1. \A q \in Runs : role[q] \in Over => role'[q] \in Over
      BY DEF Beside
    <2>2. \A q \in dirs' : role'[q] # "new"
      BY DEF Beside, Shape, Typed, SweepFits
    <2>3. \A q \in sweep'.todo : role'[q] \in Over
      BY <2>1 DEF Beside, Shape, Typed, SweepFits
    <2>4. \A p \in sweep'.parts : role'[p[1]] \in Over /\ Opened(p)'
      <3>1. \A p \in sweep.parts : p \in Parts /\ p[1] \in Runs
        BY DEF Shape, Typed, Parts
      <3> QED  BY <1>5, <2>1, <3>1 DEF Beside, Shape, SweepFits
    <2>5. ~Idle(Main)' /\ job'[Main].aim = "sweep" => role'[job'[Main].part[1]] \in Over /\ Opened(job[Main].part)'
      <3> DEFINE p == job[Main].part
      <3>1. p \in Parts /\ p[1] \in Runs
        BY Blank DEF Shape, Typed, Job, Parts
      <3>2. ~Idle(Main) /\ job[Main].aim = "sweep" => role[p[1]] \in Over /\ Opened(p)
        BY DEF Shape, SweepFits
      <3>3. job'[Main] = job[Main]
        BY DEF Beside
      <3>4. ~Idle(Main)' /\ job'[Main].aim = "sweep" =>
               job'[Main].part = p /\ role[p[1]] \in Over /\ writer[p[1]].state # "none" /\ p[2] <= writer[p[1]].seq
        BY <3>2, <3>3 DEF Idle, Opened
      <3>5. writer[p[1]].state # "none" /\ p[2] <= writer[p[1]].seq => writer'[p[1]].state # "none" /\ p[2] <= writer'[p[1]].seq
        <4>1. \A x \in Parts : Opened(x) => writer'[x[1]].state # "none" /\ x[2] <= writer'[x[1]].seq
          BY <1>5 DEF Opened
        <4> QED  BY <3>1, <4>1 DEF Opened
      <3> HIDE DEF p
      <3>6. ~Idle(Main)' /\ job'[Main].aim = "sweep" =>
               role'[p[1]] \in Over /\ writer'[p[1]].state # "none" /\ p[2] <= writer'[p[1]].seq /\ job'[Main].part = p
        BY <2>1, <3>1, <3>4, <3>5
      <3> QED  BY <3>6 DEF p, Opened
    <2> QED  BY <2>2, <2>3, <2>4, <2>5 DEF SweepFits
  <1>8. ActivePartIsLeftAlone'
    <2> SUFFICES ASSUME NEW q \in Runs, role'[q] \in {"held", "deferred"}, writer'[q].stream
                 PROVE  <<q, writer'[q].seq>> \in plain'
      BY DEF ActivePartIsLeftAlone
    <2>1. CASE q = r
      BY <2>1
    <2>2. CASE q # r
      BY <2>2 DEF Beside, Shape, ActivePartIsLeftAlone
    <2> QED  BY <2>1, <2>2
  <1> QED  BY <1>2, <1>3, <1>4, <1>6, <1>7, <1>8 DEF Shape

LEMMA KnownParts ==
    ASSUME Shape
    PROVE  /\ All \subseteq Parts
           /\ \A p \in Parts : Touched(p) \subseteq Parts \X Parts
  <1>1. \A t \in Threads : job[t].seen \subseteq Parts /\ job[t].part \in Parts
    BY DEF Shape, Typed, Job
  <1>2. Known(plain \cup gz) \subseteq Parts
    BY <1>1 DEF Known, InHand, Shape, Typed
  <1> QED  BY <1>2 DEF All, Touched, Shape, Typed

LEMMA RunsTyped ==
    ASSUME Shape, NEW r \in Runs
    PROVE  /\ writer[r] \in Writer /\ job[r] \in Job /\ r \in Threads /\ r # Main
           /\ writer[r].seq \in Seqs /\ writer[r].seq \in Nat /\ <<r, writer[r].seq>> \in Parts
           /\ said[<<r, writer[r].seq>>] \in Nat
           /\ JobOf(r) /\ WriterOf(r) /\ SaidOf(r)
  BY Blank DEF Shape, Typed, Writer, Threads, Parts, JobFits, WriterFits, SaidFits

LEMMA OpenPartShape ==
    ASSUME Shape, NEW r \in Runs, OpenPart(r)
    PROVE  Shape'
  <1> DEFINE n == writer[r].seq + 1
  <1>1. /\ job[r].step = "open" /\ job' = [job EXCEPT ![r] = NoJob]
        /\ gz' = gz /\ dirs' = dirs /\ litter' = litter /\ kept' = kept /\ said' = said /\ drain' = drain
        /\ role' = role /\ sweep' = sweep /\ tail' = tail
    BY DEF OpenPart, Files
  <1>2. /\ writer[r].state \in {"open", "closing"} /\ ~writer[r].stream /\ n \in Seqs /\ <<r, n>> \in Parts
        /\ writer[r].seq \in Nat /\ n \in Nat /\ n > writer[r].seq
    <2>1. ~Idle(r)
      BY <1>1 DEF Idle
    <2>2. writer[r].state \in {"open", "closing"} /\ ~writer[r].stream /\ writer[r].seq < MaxParts - 1
      BY <1>1, <2>1, RunsTyped DEF JobOf
    <2>3. n \in Seqs
      <3>1. writer[r].seq \in Nat
        BY RunsTyped
      <3>2. MaxParts \in Nat /\ Seqs = 0..(MaxParts - 1)
        BY Blank
      <3> QED  BY <2>2, <3>1, <3>2
    <2>4. writer[r].seq \in Nat /\ <<r, n>> \in Parts
      BY <2>3, RunsTyped DEF Parts
    <2> QED  BY <2>2, <2>3, <2>4
  <1>3. \/ /\ plain' = plain \cup {<<r, n>>} /\ order' = Touched(<<r, n>>)
           /\ writer' = [writer EXCEPT ![r].seq = @ + 1, ![r].stream = TRUE]
           /\ budget' = budget
        \/ /\ writer' = [writer EXCEPT ![r].seq = @ + 1]
           /\ plain' = plain /\ order' = order /\ (Fault \/ NoFault)
    BY DEF OpenPart, NoFault
  <1>4. /\ writer \in [Runs -> Writer] /\ writer[r] \in Writer
    BY RunsTyped DEF Shape, Typed
  <1>5. /\ writer'[r].state = writer[r].state /\ writer'[r].seq = n /\ writer'[r] \in Writer
        /\ writer' \in [Runs -> Writer] /\ \A q \in Runs \ {r} : writer'[q] = writer[q]
        /\ writer'[r].stream => plain' = plain \cup {<<r, n>>}
        /\ plain' \subseteq plain \cup {<<r, n>>} /\ plain \subseteq plain'
    <2>1. CASE writer' = [writer EXCEPT ![r].seq = @ + 1, ![r].stream = TRUE] /\ plain' = plain \cup {<<r, n>>}
      BY <1>2, <1>4, <2>1 DEF Writer
    <2>2. CASE writer' = [writer EXCEPT ![r].seq = @ + 1] /\ plain' = plain
      BY <1>2, <1>4, <2>2 DEF Writer
    <2> QED  BY <1>3, <2>1, <2>2
  <1>6. faults' \in 0..MaxFaults /\ crashes' \in 0..MaxCrashes
    BY <1>3, ArchiveAssumption DEF Shape, Typed, Fault, NoFault, budget
  <1>7. order' \subseteq Parts \X Parts
    BY <1>2, <1>3, KnownParts DEF Shape, Typed
  <1>8. Typed'
    BY <1>1, <1>2, <1>5, <1>6, <1>7, Blank DEF Shape, Typed
  <1>9. job \in [Threads -> Job] /\ r \in Threads
    BY RunsTyped DEF Shape, Typed
  <1>10. Beside(r)
    BY <1>1, <1>2, <1>5, <1>9, Blank DEF Beside, Threads, Shape, SweepFits
  <1>11. JobOf(r)'
    BY <1>1, <1>9, Blank DEF JobOf, Idle
  <1>12. WriterOf(r)'
    BY <1>1, <1>2, <1>5, RunsTyped DEF WriterOf
  <1>13. SaidOf(r)'
    <2>1. \A s \in Seqs : s > n => s > writer[r].seq
      BY <1>2, Blank
    <2>2. said[<<r, n>>] = 0 /\ n # 0
      <3>1. \A s \in Seqs : s > writer[r].seq => said[<<r, s>>] = 0
        BY RunsTyped DEF SaidOf
      <3> QED  BY <1>2, <3>1
    <2>3. \A s \in Seqs : writer'[r].state = "none" \/ s > writer'[r].seq => said'[<<r, s>>] = 0
      BY <1>1, <1>2, <1>5, <2>1, RunsTyped DEF SaidOf
    <2> QED  BY <1>1, <1>2, <1>5, <2>2, <2>3, Blank DEF SaidOf
  <1> QED  BY <1>5, <1>8, <1>10, <1>11, <1>12, <1>13, RunShape

\* What a step of one run leaves of the files that are not its own.
Elsewhere == UNCHANGED <<gz, litter, kept, sweep, tail>>

LEMMA FaultsTyped ==
    ASSUME Shape, Fault \/ NoFault
    PROVE  faults' \in 0..MaxFaults /\ crashes' \in 0..MaxCrashes
  BY ArchiveAssumption DEF Shape, Typed, Fault, NoFault, budget

\* A seal leaves the writer without a stream, and its thread at the part or at rest.
LEMMA SealStep ==
    ASSUME Shape, NEW r \in Runs, NEW state \in {"open", "closing"}, Seal(r, state),
           Idle(r), writer[r].state = "open"
    PROVE  /\ writer' \in [Runs -> Writer] /\ job' \in [Threads -> Job]
           /\ writer'[r].state = state /\ writer'[r].seq = writer[r].seq /\ ~writer'[r].stream
           /\ \A q \in Runs \ {r} : writer'[q] = writer[q]
           /\ \A t \in Threads \ {r} : job'[t] = job[t]
           /\ job'[r] = job[r] \/ job'[r] = Compressing(<<r, writer[r].seq>>, "rotate")
           /\ Fault \/ NoFault
  <1>1. /\ writer \in [Runs -> Writer] /\ job \in [Threads -> Job] /\ r \in Threads /\ writer[r] \in Writer
        /\ <<r, writer[r].seq>> \in Parts
    BY RunsTyped DEF Shape, Typed
  <1>2. writer' = [writer EXCEPT ![r].state = state, ![r].stream = FALSE]
    BY DEF Seal
  <1>3. \/ job' = [job EXCEPT ![r] = Compressing(<<r, writer[r].seq>>, "rotate")] /\ NoFault
        \/ job' = job /\ Fault
    BY DEF Seal
  <1>4. Compressing(<<r, writer[r].seq>>, "rotate") \in Job
    BY <1>1, NewJob DEF Aims
  <1>5. job' \in [Threads -> Job]
    BY <1>1, <1>3, <1>4
  <1>6. writer' \in [Runs -> Writer] /\ writer'[r].state = state /\ writer'[r].seq = writer[r].seq /\ ~writer'[r].stream
    BY <1>1, <1>2 DEF Writer
  <1> QED  BY <1>1, <1>2, <1>3, <1>5, <1>6

\* A thread that compresses the part that has been sealed has room for the next.
LEMMA SealedJob ==
    ASSUME Shape, NEW r \in Runs, Idle(r), writer[r].seq < MaxParts - 1 \/ job'[r] = job[r],
           ~writer'[r].stream \/ job'[r] = job[r], writer'[r].state \in {"open", "closing"},
           writer'[r].seq = writer[r].seq,
           job'[r] = job[r] \/ job'[r] = Compressing(<<r, writer[r].seq>>, "rotate")
    PROVE  JobOf(r)'
  <1>1. CASE job'[r] = job[r]
    BY <1>1 DEF JobOf, Idle
  <1>2. CASE job'[r] = Compressing(<<r, writer[r].seq>>, "rotate") /\ job'[r] # job[r]
    <2>1. job'[r].step = "copy" /\ job'[r].part = <<r, writer[r].seq>> /\ job'[r].aim = "rotate"
      BY <1>2, NewJob, RunsTyped DEF Aims
    <2> QED  BY <1>2, <2>1 DEF JobOf
  <1> QED  BY <1>1, <1>2

LEMMA WriteStep ==
    ASSUME Shape, NEW r \in Runs, NEW state \in {"open", "closing"}, Write(r, state),
           Idle(r), writer[r].state = "open", writer[r].stream,
           state = "open" => writer[r].seq < MaxParts - 1
    PROVE  /\ writer' \in [Runs -> Writer] /\ job' \in [Threads -> Job]
           /\ said' \in [Parts -> 0..PartLines] /\ order' \subseteq Parts \X Parts
           /\ writer'[r].state = state /\ writer'[r].seq = writer[r].seq
           /\ \A q \in Runs \ {r} : writer'[q] = writer[q]
           /\ \A t \in Threads \ {r} : job'[t] = job[t]
           /\ said'[<<r, writer[r].seq>>] = said[<<r, writer[r].seq>>] + 1
           /\ \A p \in Parts : p # <<r, writer[r].seq>> => said'[p] = said[p]
           /\ order' = IF <<r, writer[r].seq>> \in plain THEN Touched(<<r, writer[r].seq>>) ELSE order
           /\ (Fault \/ NoFault) /\ JobOf(r)' /\ SaidOf(r)'
  <1> DEFINE p == <<r, writer[r].seq>>
  <1>1. /\ writer \in [Runs -> Writer] /\ job \in [Threads -> Job] /\ r \in Threads /\ writer[r] \in Writer
        /\ p \in Parts /\ said \in [Parts -> 0..PartLines] /\ said[p] \in Nat /\ PartLines \in Nat
        /\ writer[r].seq \in Seqs
    BY RunsTyped, Blank DEF Shape, Typed
  <1>2. /\ said' = [said EXCEPT ![p] = said[p] + 1]
        /\ order' = IF p \in plain THEN Touched(p) ELSE order
        /\ IF said[p] + 1 = PartLines THEN Seal(r, state)
           ELSE writer' = [writer EXCEPT ![r].state = state] /\ UNCHANGED job /\ NoFault
    BY DEF Write
  <1>3. said[p] < PartLines
    BY RunsTyped DEF SaidOf
  <1>4. /\ said' \in [Parts -> 0..PartLines] /\ said'[p] = said[p] + 1
        /\ \A q \in Parts : q # p => said'[q] = said[q]
    BY <1>1, <1>2, <1>3
  <1>5. order' \subseteq Parts \X Parts
    BY <1>1, <1>2, KnownParts DEF Shape, Typed
  <1>6. /\ writer' \in [Runs -> Writer] /\ job' \in [Threads -> Job]
        /\ writer'[r].state = state /\ writer'[r].seq = writer[r].seq
        /\ \A q \in Runs \ {r} : writer'[q] = writer[q]
        /\ \A t \in Threads \ {r} : job'[t] = job[t]
        /\ Fault \/ NoFault
        /\ job'[r] = job[r] \/ job'[r] = Compressing(p, "rotate")
        /\ writer'[r].stream => said[p] + 1 # PartLines
        /\ said[p] + 1 = PartLines \/ job'[r] = job[r]
        /\ ~writer'[r].stream \/ job'[r] = job[r]
    <2>1. CASE said[p] + 1 = PartLines
      BY <1>2, <2>1, SealStep
    <2>2. CASE said[p] + 1 # PartLines
      <3>1. writer' = [writer EXCEPT ![r].state = state] /\ job' = job /\ NoFault
        BY <1>2, <2>2
      <3>2. writer' \in [Runs -> Writer] /\ writer'[r].state = state /\ writer'[r].seq = writer[r].seq
        BY <1>1, <3>1 DEF Writer
      <3> QED  BY <1>1, <2>2, <3>1, <3>2
    <2> QED  BY <2>1, <2>2
  <1>7. said[p] + 1 = PartLines => writer[r].seq < MaxParts - 1
    <2> SUFFICES ASSUME said[p] + 1 = PartLines, ~(writer[r].seq < MaxParts - 1)
                 PROVE  FALSE
      OBVIOUS
    <2>1. /\ MaxParts \in Nat /\ MaxParts > 0 /\ Seqs = 0..(MaxParts - 1) /\ PartLines > 1
          /\ (MaxParts = 1 => PartLines # 2)
      BY Blank, ArchiveAssumption
    <2>2. writer[r].seq = MaxParts - 1
      BY <1>1, <2>1
    <2>3. said[p] = IF writer[r].seq = 0 THEN 1 ELSE 0
      BY <2>2, RunsTyped DEF SaidOf
    <2> QED  BY <1>1, <2>1, <2>2, <2>3
  <1>8. JobOf(r)'
    BY <1>6, <1>7, SealedJob
  <1>9. SaidOf(r)'
    <2>1. \A s \in Seqs : s > writer[r].seq => said'[<<r, s>>] = 0
      <3> SUFFICES ASSUME NEW s \in Seqs, s > writer[r].seq
                   PROVE  said'[<<r, s>>] = 0
        OBVIOUS
      <3>1. <<r, s>> # p /\ <<r, s>> \in Parts
        BY RunsTyped, Blank DEF Parts
      <3>2. said[<<r, s>>] = 0
        BY RunsTyped DEF SaidOf
      <3> QED  BY <1>4, <3>1, <3>2
    <2>2. writer'[r].state = "open" => ~(writer'[r].seq = MaxParts - 1)
      <3>1. writer[r].seq \in Nat /\ MaxParts \in Nat
        BY RunsTyped, Blank
      <3> QED  BY <1>6, <3>1
    <2>3. writer'[r].stream => said'[<<r, writer'[r].seq>>] < PartLines
      BY <1>1, <1>3, <1>4, <1>6
    <2> QED  BY <1>6, <2>1, <2>2, <2>3 DEF SaidOf
  <1> QED  BY <1>2, <1>4, <1>5, <1>6, <1>8, <1>9

\* A step of the run that leaves the directories, and no new text, is beside the others.
LEMMA BesideWrite ==
    ASSUME Shape, NEW r \in Runs, Elsewhere, plain' = plain, dirs' = dirs,
           writer[r].state # "none", writer'[r].state # "none", writer'[r].seq = writer[r].seq,
           role[r] # "new", role'[r] # "new", role[r] \in Over => role'[r] \in Over,
           \A q \in Runs \ {r} : writer'[q] = writer[q] /\ role'[q] = role[q] /\ drain'[q] = drain[q],
           \A t \in Threads \ {r} : job'[t] = job[t],
           \A p \in Parts : p # <<r, writer[r].seq>> => said'[p] = said[p]
    PROVE  Beside(r)
  <1>1. \A q \in Runs \ {r} : q \in Threads /\ \A s \in Seqs : <<q, s>> \in Parts /\ <<q, s>> # <<r, writer[r].seq>>
    BY DEF Threads, Parts
  <1>2. Main \in Threads \ {r} /\ writer[r].seq \in Nat
    BY Blank, RunsTyped
  <1> QED  BY <1>1, <1>2 DEF Beside, Elsewhere

LEMMA SayShape ==
    ASSUME Shape, NEW r \in Runs, Say(r)
    PROVE  Shape'
  <1>1. /\ writer[r].state = "open" /\ writer[r].stream /\ Idle(r) /\ writer[r].seq < MaxParts - 1
        /\ plain' = plain /\ dirs' = dirs /\ Elsewhere /\ drain' = drain /\ role' = role
    BY DEF Say, Files, Elsewhere
  <1>2. /\ writer' \in [Runs -> Writer] /\ job' \in [Threads -> Job]
        /\ said' \in [Parts -> 0..PartLines] /\ order' \subseteq Parts \X Parts
        /\ writer'[r].state = "open" /\ writer'[r].seq = writer[r].seq
        /\ \A q \in Runs \ {r} : writer'[q] = writer[q]
        /\ \A t \in Threads \ {r} : job'[t] = job[t]
        /\ \A p \in Parts : p # <<r, writer[r].seq>> => said'[p] = said[p]
        /\ (Fault \/ NoFault) /\ JobOf(r)' /\ SaidOf(r)'
    <2>1. CASE Write(r, "open")
      BY <1>1, <2>1, WriteStep
    <2>2. CASE Seal(r, "open") /\ UNCHANGED <<said, order>>
      <3>1. /\ writer' \in [Runs -> Writer] /\ job' \in [Threads -> Job]
            /\ writer'[r].state = "open" /\ writer'[r].seq = writer[r].seq /\ ~writer'[r].stream
            /\ \A q \in Runs \ {r} : writer'[q] = writer[q]
            /\ \A t \in Threads \ {r} : job'[t] = job[t]
            /\ job'[r] = job[r] \/ job'[r] = Compressing(<<r, writer[r].seq>>, "rotate")
            /\ Fault \/ NoFault
        BY <1>1, <2>2, SealStep
      <3>2. JobOf(r)'
        BY <1>1, <3>1, SealedJob
      <3>3. SaidOf(r)'
        BY <1>1, <2>2, <3>1, RunsTyped DEF SaidOf
      <3> QED  BY <2>2, <3>1, <3>2, <3>3 DEF Shape, Typed
    <2> QED  BY <2>1, <2>2 DEF Say
  <1>3. Typed'
    BY <1>1, <1>2, FaultsTyped DEF Shape, Typed, Elsewhere
  <1>4. role[r] \notin {"new", "gone"}
    BY <1>1, RunsTyped DEF WriterOf
  <1>5. Beside(r)
    BY <1>1, <1>2, <1>4, BesideWrite
  <1>6. WriterOf(r)'
    BY <1>1, <1>2, <1>4, RunsTyped DEF WriterOf
  <1>7. role'[r] \in {"held", "deferred"} => <<r, writer'[r].seq>> \in plain'
    BY <1>1, <1>2 DEF Shape, ActivePartIsLeftAlone
  <1> QED  BY <1>2, <1>3, <1>5, <1>6, <1>7, RunShape

LEMMA FinalizeShape ==
    ASSUME Shape, NEW r \in Runs, Finalize(r)
    PROVE  Shape'
  <1>1. /\ writer[r].state = "open" /\ Idle(r) /\ drain[r] = "done" /\ role[r] \in {"held", "deferred"}
        /\ plain' = plain /\ dirs' = dirs /\ Elsewhere /\ drain' = drain /\ role' = role
    BY DEF Finalize, Files, Elsewhere
  <1>2. /\ writer' \in [Runs -> Writer] /\ job' \in [Threads -> Job]
        /\ said' \in [Parts -> 0..PartLines] /\ order' \subseteq Parts \X Parts
        /\ writer'[r].state = "closing" /\ writer'[r].seq = writer[r].seq
        /\ writer'[r].stream => writer[r].stream
        /\ \A q \in Runs \ {r} : writer'[q] = writer[q]
        /\ \A t \in Threads \ {r} : job'[t] = job[t]
        /\ \A p \in Parts : p # <<r, writer[r].seq>> => said'[p] = said[p]
        /\ (Fault \/ NoFault) /\ JobOf(r)' /\ SaidOf(r)'
    <2>1. CASE writer[r].stream
      <3>1. Write(r, "closing")
        BY <2>1 DEF Finalize
      <3> QED  BY <1>1, <2>1, <3>1, WriteStep
    <2>2. CASE ~writer[r].stream
      <3>1. /\ writer' = [writer EXCEPT ![r].state = "closing"]
            /\ NoFault /\ said' = said /\ order' = order /\ job' = job
        BY <2>2 DEF Finalize
      <3>2. /\ writer \in [Runs -> Writer] /\ writer[r] \in Writer
        BY RunsTyped DEF Shape, Typed
      <3>3. /\ writer' \in [Runs -> Writer] /\ writer'[r].state = "closing" /\ writer'[r].seq = writer[r].seq
            /\ ~writer'[r].stream /\ \A q \in Runs \ {r} : writer'[q] = writer[q]
        BY <2>2, <3>1, <3>2 DEF Writer
      <3>4. JobOf(r)'
        BY <1>1, <3>1 DEF JobOf, Idle
      <3>5. SaidOf(r)'
        BY <1>1, <3>1, <3>3, RunsTyped DEF SaidOf
      <3> QED  BY <3>1, <3>3, <3>4, <3>5 DEF Shape, Typed
    <2> QED  BY <2>1, <2>2
  <1>3. Typed'
    BY <1>1, <1>2, FaultsTyped DEF Shape, Typed, Elsewhere
  <1>4. Beside(r)
    BY <1>1, <1>2, BesideWrite
  <1>5. WriterOf(r)'
    BY <1>1, <1>2 DEF WriterOf
  <1>6. writer'[r].stream => <<r, writer'[r].seq>> \in plain'
    BY <1>1, <1>2 DEF Shape, ActivePartIsLeftAlone
  <1> QED  BY <1>2, <1>3, <1>4, <1>5, <1>6, RunShape

LEMMA LastSealShape ==
    ASSUME Shape, NEW r \in Runs, LastSeal(r)
    PROVE  Shape'
  <1>1. /\ writer[r].state = "closing" /\ Idle(r) /\ role[r] \in {"held", "deferred"} /\ drain[r] # "alive"
        /\ UNCHANGED <<disk, drain, sweep, tail>>
    BY RunsTyped DEF LastSeal, WriterOf
  <1>2. plain' = plain /\ dirs' = dirs /\ Elsewhere /\ drain' = drain /\ said' = said /\ order' = order
    BY <1>1 DEF disk, Elsewhere
  <1>3. /\ writer \in [Runs -> Writer] /\ writer[r] \in Writer /\ job \in [Threads -> Job] /\ r \in Threads
        /\ role \in [Runs -> {"new", "held", "deferred", "gone", "abandoned"}]
        /\ <<r, writer[r].seq>> \in Parts
    BY RunsTyped DEF Shape, Typed
  <1>4. \/ /\ writer' = [writer EXCEPT ![r].stream = FALSE]
           /\ job' = [job EXCEPT ![r] = Compressing(<<r, writer[r].seq>>, "final")]
           /\ NoFault /\ role' = role
        \/ /\ writer' = [writer EXCEPT ![r].state = "closed", ![r].stream = FALSE]
           /\ role' = [role EXCEPT ![r] = "gone"] /\ job' = job /\ (Fault \/ NoFault)
    BY DEF LastSeal, Closed
  <1>5. /\ writer' \in [Runs -> Writer] /\ ~writer'[r].stream /\ writer'[r].seq = writer[r].seq
        /\ writer'[r].state \in {"closing", "closed"}
        /\ \A q \in Runs \ {r} : writer'[q] = writer[q]
    <2>1. CASE writer' = [writer EXCEPT ![r].stream = FALSE]
      BY <1>1, <1>3, <2>1 DEF Writer
    <2>2. CASE writer' = [writer EXCEPT ![r].state = "closed", ![r].stream = FALSE]
      BY <1>3, <2>2 DEF Writer
    <2> QED  BY <1>4, <2>1, <2>2
  <1>6. /\ job' \in [Threads -> Job] /\ \A t \in Threads \ {r} : job'[t] = job[t]
    BY <1>3, <1>4, NewJob DEF Aims
  <1>7. /\ role' \in [Runs -> {"new", "held", "deferred", "gone", "abandoned"}]
        /\ \A q \in Runs \ {r} : role'[q] = role[q]
        /\ role'[r] \in {"held", "deferred", "gone"}
    BY <1>1, <1>3, <1>4
  <1>8. Fault \/ NoFault
    BY <1>4
  <1>9. Typed'
    BY <1>2, <1>5, <1>6, <1>7, <1>8, FaultsTyped DEF Shape, Typed, Elsewhere
  <1>10. Beside(r)
    BY <1>1, <1>2, <1>5, <1>6, <1>7, BesideWrite DEF Over
  <1>11. JobOf(r)'
    <2>1. CASE job' = job
      BY <1>1, <2>1 DEF JobOf, Idle
    <2>2. CASE job' = [job EXCEPT ![r] = Compressing(<<r, writer[r].seq>>, "final")] /\ writer' = [writer EXCEPT ![r].stream = FALSE]
      <3>1. /\ job'[r].step = "copy" /\ job'[r].aim = "final" /\ job'[r].part = <<r, writer[r].seq>>
        BY <1>3, <2>2, NewJob DEF Aims
      <3>2. writer'[r].state = "closing"
        BY <1>1, <1>3, <2>2 DEF Writer
      <3> QED  BY <1>5, <3>1, <3>2 DEF JobOf
    <2> QED  BY <1>4, <2>1, <2>2
  <1>12. WriterOf(r)'
    <2>1. CASE role' = role /\ writer' = [writer EXCEPT ![r].stream = FALSE]
      BY <1>1, <1>2, <1>5, <2>1 DEF WriterOf
    <2>2. CASE role' = [role EXCEPT ![r] = "gone"] /\ writer' = [writer EXCEPT ![r].state = "closed", ![r].stream = FALSE]
      <3>1. writer'[r].state = "closed" /\ role'[r] = "gone"
        BY <1>3, <2>2 DEF Writer
      <3> QED  BY <1>5, <3>1 DEF WriterOf
    <2> QED  BY <1>4, <2>1, <2>2
  <1>13. SaidOf(r)'
    BY <1>1, <1>2, <1>5, RunsTyped DEF SaidOf
  <1> QED  BY <1>5, <1>9, <1>10, <1>11, <1>12, <1>13, RunShape

LEMMA BeginRunShape ==
    ASSUME Shape, NEW r \in Runs, BeginRun(r)
    PROVE  Shape'
  <1> DEFINE p == <<r, 0>>
             w == [state |-> "open", seq |-> 0, stream |-> TRUE]
  <1>1. /\ role[r] = "new" /\ dirs' = dirs \cup {r} /\ Elsewhere /\ job' = job
        /\ \/ /\ plain' = plain \cup {p} /\ order' = Touched(p)
              /\ said' = [said EXCEPT ![p] = 1]
              /\ writer' = [writer EXCEPT ![r] = w]
              /\ role' = [role EXCEPT ![r] = "held"]
              /\ \E d \in {"alive", "done"} : drain' = [drain EXCEPT ![r] = d]
              /\ NoFault
           \/ /\ role' = [role EXCEPT ![r] = "gone"]
              /\ Fault /\ UNCHANGED <<plain, order, said, writer, drain>>
    BY DEF BeginRun, Elsewhere
  <1>2. /\ writer \in [Runs -> Writer] /\ said \in [Parts -> 0..PartLines]
        /\ drain \in [Runs -> {"none", "alive", "done"}] /\ job \in [Threads -> Job]
        /\ role \in [Runs -> {"new", "held", "deferred", "gone", "abandoned"}]
        /\ order \subseteq Parts \X Parts /\ p \in Parts /\ 0 \in Seqs /\ Seqs \subseteq Nat
        /\ plain \subseteq Parts /\ dirs \subseteq Runs
    BY Blank DEF Shape, Typed, Parts
  <1>3. /\ writer[r].state = "none" /\ ~writer[r].stream /\ Idle(r) /\ JobOf(r)
        /\ \A s \in Seqs : said[<<r, s>>] = 0
    BY <1>1, RunsTyped DEF WriterOf, SaidOf, JobOf
  <1>4. JobOf(r)'
    BY <1>1, <1>3 DEF JobOf, Idle
  <1>5. CASE role' = [role EXCEPT ![r] = "gone"] /\ UNCHANGED <<plain, order, said, writer, drain>>
    <2>1. Typed'
      BY <1>1, <1>2, <1>5, FaultsTyped DEF Shape, Typed, Elsewhere
    <2>2. role'[r] = "gone" /\ \A q \in Runs \ {r} : role'[q] = role[q]
      BY <1>2, <1>5
    <2>3. Beside(r)
      BY <1>1, <1>2, <1>3, <1>5, <2>2, RunsTyped DEF Beside, Elsewhere, Over
    <2>4. WriterOf(r)'
      BY <1>3, <1>5, <2>2 DEF WriterOf
    <2>5. SaidOf(r)'
      BY <1>3, <1>5, RunsTyped DEF SaidOf
    <2> QED  BY <1>3, <1>4, <1>5, <2>1, <2>3, <2>4, <2>5, RunShape
  <1>6. CASE /\ plain' = plain \cup {p} /\ order' = Touched(p)
             /\ said' = [said EXCEPT ![p] = 1]
             /\ writer' = [writer EXCEPT ![r] = w]
             /\ role' = [role EXCEPT ![r] = "held"]
             /\ \E d \in {"alive", "done"} : drain' = [drain EXCEPT ![r] = d]
             /\ NoFault
    <2>1. w \in Writer
      BY <1>2 DEF Writer
    <2>2. /\ writer' \in [Runs -> Writer] /\ writer'[r].state = "open" /\ writer'[r].seq = 0 /\ writer'[r].stream
          /\ \A q \in Runs \ {r} : writer'[q] = writer[q]
      BY <1>2, <1>6, <2>1
    <2>3. PartLines \in Nat /\ PartLines > 1
      BY Blank
    <2>4. /\ said' \in [Parts -> 0..PartLines] /\ said'[p] = 1
          /\ \A q \in Parts : q # p => said'[q] = said[q]
      BY <1>2, <1>6, <2>3
    <2>5. drain' \in [Runs -> {"none", "alive", "done"}] /\ \A q \in Runs \ {r} : drain'[q] = drain[q]
      BY <1>2, <1>6
    <2>6. /\ role' \in [Runs -> {"new", "held", "deferred", "gone", "abandoned"}] /\ role'[r] = "held"
          /\ \A q \in Runs \ {r} : role'[q] = role[q]
      BY <1>2, <1>6
    <2>7. order' \subseteq Parts \X Parts
      BY <1>2, <1>6, KnownParts
    <2>8. Typed'
      BY <1>1, <1>2, <1>6, <2>2, <2>4, <2>5, <2>6, <2>7, FaultsTyped DEF Shape, Typed, Elsewhere
    <2>9. Beside(r)
      <3>1. \A q \in Runs \ {r} : \A s \in Seqs : <<q, s>> # p /\ <<q, s>> \in Parts
        BY DEF Parts
      <3> QED  BY <1>1, <1>2, <1>3, <1>6, <2>2, <2>4, <2>5, <2>6, <3>1, RunsTyped DEF Beside, Elsewhere, Over
    <2>10. WriterOf(r)'
      BY <2>2, <2>6 DEF WriterOf
    <2>11. SaidOf(r)'
      <3>1. \A s \in Seqs : s > 0 => <<r, s>> # p /\ <<r, s>> \in Parts
        BY <1>2 DEF Parts
      <3>2. \A s \in Seqs : s > 0 => said'[<<r, s>>] = 0
        BY <1>3, <2>4, <3>1
      <3> QED  BY <2>2, <2>3, <2>4, <3>2 DEF SaidOf
    <2> QED  BY <1>4, <1>6, <2>2, <2>8, <2>9, <2>10, <2>11, RunShape
  <1> QED  BY <1>1, <1>5, <1>6

\* The end of the output, and the ways the worker lets go of a run.
LEMMA LetGoShape ==
    ASSUME Shape, NEW r \in Runs, DrainEnds(r) \/ Defer(r) \/ GiveUp(r)
    PROVE  Shape'
  <1>1. /\ Elsewhere /\ job' = job /\ plain' = plain /\ dirs' = dirs /\ said' = said /\ order' = order
        /\ writer' = writer /\ (Fault \/ NoFault)
    BY DEF DrainEnds, Defer, GiveUp, disk, Elsewhere
  <1>2. /\ drain \in [Runs -> {"none", "alive", "done"}]
        /\ role \in [Runs -> {"new", "held", "deferred", "gone", "abandoned"}]
    BY DEF Shape, Typed
  <1>3. \/ drain[r] = "alive" /\ drain' = [drain EXCEPT ![r] = "done"] /\ role' = role
        \/ role[r] = "held" /\ writer[r].state = "open" /\ role' = [role EXCEPT ![r] = "deferred"] /\ drain' = drain
        \/ role[r] = "deferred" /\ drain[r] = "alive" /\ role' = [role EXCEPT ![r] = "abandoned"] /\ drain' = drain
    BY DEF DrainEnds, Defer, GiveUp
  <1>4. /\ drain' \in [Runs -> {"none", "alive", "done"}]
        /\ role' \in [Runs -> {"new", "held", "deferred", "gone", "abandoned"}]
        /\ \A q \in Runs \ {r} : drain'[q] = drain[q] /\ role'[q] = role[q]
    BY <1>2, <1>3
  <1>5. Typed'
    BY <1>1, <1>4, FaultsTyped DEF Shape, Typed, Elsewhere
  <1>6. /\ role[r] # "new" \/ role'[r] = role[r]
        /\ role'[r] = "new" => role[r] = "new"
        /\ role[r] \in Over => role'[r] \in Over
        /\ role'[r] \in {"held", "deferred"} => role[r] \in {"held", "deferred"}
    BY <1>2, <1>3 DEF Over
  <1>7. Beside(r)
    <2>1. r \in dirs => role[r] # "new"
      BY DEF Shape, SweepFits
    <2>2. writer[r].seq \in Nat
      BY RunsTyped
    <2> QED  BY <1>1, <1>4, <1>6, <2>1, <2>2 DEF Beside, Elsewhere
  <1>8. JobOf(r)' /\ SaidOf(r)'
    BY <1>1, RunsTyped DEF JobOf, SaidOf, Idle
  <1>9. WriterOf(r)'
    BY <1>1, <1>2, <1>3, RunsTyped DEF WriterOf
  <1> QED  BY <1>1, <1>5, <1>6, <1>7, <1>8, <1>9, RunShape DEF Shape, ActivePartIsLeftAlone

-----------------------------------------------------------------------------
LEMMA SweepingShape ==
    ASSUME Shape, Sweeping
    PROVE  Shape'
  <1>1. /\ UNCHANGED <<disk, writer, drain, role, tail>> /\ NoFault
        /\ plain' = plain /\ gz' = gz /\ dirs' = dirs /\ litter' = litter /\ said' = said /\ kept' = kept
        /\ order' = order /\ writer' = writer /\ drain' = drain /\ role' = role /\ tail' = tail
    BY DEF Sweeping, SweepBegins, SweepTrims, SweepVisits, SweepTakes, disk
  <1>2. /\ job \in [Threads -> Job] /\ Main \in Threads /\ Main \notin Runs
        /\ sweep \in [on : BOOLEAN, todo : SUBSET Runs, parts : SUBSET Parts]
        /\ dirs \subseteq Runs /\ plain \subseteq Parts /\ gz \subseteq Parts
        /\ NoSweep \in [on : BOOLEAN, todo : SUBSET Runs, parts : SUBSET Parts]
        /\ NoSweep.parts = {} /\ NoJob \in Job
        /\ role \in [Runs -> {"new", "held", "deferred", "gone", "abandoned"}]
    BY Blank DEF Shape, Typed
  <1>3. /\ \A r \in Runs : job'[r] = job[r] /\ r \in Threads
        /\ job' \in [Threads -> Job]
        /\ \/ job'[Main] = job[Main]
           \/ job'[Main].step = "measure" /\ job'[Main].aim = "trim"
           \/ \E p \in sweep.parts : job'[Main] = Compressing(p, "sweep") /\ p \in Parts
    <2>1. CASE SweepBegins \/ (\E r \in Runs : SweepVisits(r))
      BY <1>2, <2>1 DEF SweepBegins, SweepVisits, Threads
    <2>2. CASE SweepTrims
      <3> DEFINE j == [NoJob EXCEPT !.step = "measure", !.seen = gz, !.reserve = 0, !.aim = "trim"]
      <3>1. j \in Job /\ j.step = "measure" /\ j.aim = "trim"
        <4>1. NoJob \in Job /\ gz \in SUBSET Parts /\ 0 \in 0..1
          BY <1>2
        <4> QED  BY <4>1 DEF Job, Steps, Aims
      <3>2. job' = [job EXCEPT ![Main] = j]
        BY <2>2 DEF SweepTrims
      <3> QED  BY <1>2, <3>1, <3>2 DEF Threads
    <2>3. CASE \E p \in Parts : SweepTakes(p)
      <3>1. PICK p \in Parts : SweepTakes(p)
        BY <2>3
      <3>2. Compressing(p, "sweep") \in Job
        BY NewJob DEF Aims
      <3> QED  BY <1>2, <3>1, <3>2 DEF SweepTakes, Threads
    <2> QED  BY <2>1, <2>2, <2>3 DEF Sweeping
  <1>4. /\ sweep' \in [on : BOOLEAN, todo : SUBSET Runs, parts : SUBSET Parts]
        /\ \A r \in sweep'.todo : r \in sweep.todo \/ r \in dirs \ Active
        /\ \A p \in sweep'.parts : p \in sweep.parts \/ (p \in plain /\ p[1] \in sweep.todo)
    <2>1. CASE SweepBegins
      <3>1. sweep' = [NoSweep EXCEPT !.on = TRUE, !.todo = dirs \ Active]
        BY <2>1 DEF SweepBegins
      <3> QED  BY <1>2, <3>1
    <2>2. CASE SweepTrims
      BY <1>2, <2>2 DEF SweepTrims
    <2>3. CASE \E r \in Runs : SweepVisits(r)
      <3>1. PICK r \in Runs : SweepVisits(r)
        BY <2>3
      <3>2. /\ sweep' = [sweep EXCEPT !.todo = @ \ {r}, !.parts = {p \in plain : p[1] = r}]
            /\ r \in sweep.todo
        BY <3>1 DEF SweepVisits
      <3> QED  BY <1>2, <3>2
    <2>4. CASE \E p \in Parts : SweepTakes(p)
      <3>1. PICK p \in Parts : SweepTakes(p)
        BY <2>4
      <3>2. sweep' = [sweep EXCEPT !.parts = @ \ {p}]
        BY <3>1 DEF SweepTakes
      <3> QED  BY <1>2, <3>2
    <2> QED  BY <2>1, <2>2, <2>3, <2>4 DEF Sweeping
  <1>5. Typed'
    BY <1>1, <1>3, <1>4, FaultsTyped DEF Shape, Typed
  <1>6. \A p \in Parts : Compressing(p, "sweep").step = "copy" /\ Compressing(p, "sweep").aim = "sweep"
    BY NewJob DEF Aims
  <1>7. JobFits'
    BY <1>1, <1>3, <1>6 DEF Shape, JobFits, JobOf, Idle
  <1>8. WriterFits' /\ SaidFits' /\ PartsFit' /\ ActivePartIsLeftAlone'
    BY <1>1 DEF Shape, WriterFits, WriterOf, SaidFits, SaidOf, PartsFit, Opened, ActivePartIsLeftAlone
  <1>9. \A r \in dirs \ Active : role[r] \in Over
    <2>1. \A r \in dirs : role[r] # "new" /\ r \in Runs
      BY <1>2 DEF Shape, SweepFits
    <2> QED  BY <1>2, <2>1 DEF Active, Over
  <1>10. \A p \in Parts : Opened(p)' <=> Opened(p)
    BY <1>1 DEF Opened
  <1>11. SweepFits'
    <2>1. \A r \in sweep'.todo : role'[r] \in Over
      BY <1>1, <1>4, <1>9 DEF Shape, SweepFits
    <2>2. \A p \in sweep'.parts : role'[p[1]] \in Over /\ Opened(p)'
      <3>1. \A p \in sweep'.parts : role[p[1]] \in Over /\ Opened(p) /\ p \in Parts
        BY <1>2, <1>4 DEF Shape, SweepFits, PartsFit
      <3> QED  BY <1>1, <1>10, <3>1
    <2>3. ~Idle(Main)' /\ job'[Main].aim = "sweep" => job'[Main] # job[Main] \/ (role'[job'[Main].part[1]] \in Over /\ Opened(job[Main].part)')
      BY <1>1 DEF Shape, SweepFits, Opened, Idle
    <2>4. ASSUME NEW p \in sweep.parts, job'[Main] = Compressing(p, "sweep"), p \in Parts
          PROVE  job'[Main].part = p /\ role'[p[1]] \in Over /\ writer'[p[1]].state # "none" /\ p[2] <= writer'[p[1]].seq
      BY <1>1, <2>4, NewJob DEF Aims, Shape, SweepFits, Opened
    <2>5. ~Idle(Main)' /\ job'[Main].aim = "sweep" =>
             /\ role'[job'[Main].part[1]] \in Over
             /\ writer'[job'[Main].part[1]].state # "none" /\ job'[Main].part[2] <= writer'[job'[Main].part[1]].seq
      <3>1. CASE job'[Main] = job[Main]
        BY <1>1, <3>1 DEF Shape, SweepFits, Opened, Idle
      <3>2. CASE \E p \in sweep.parts : job'[Main] = Compressing(p, "sweep") /\ p \in Parts
        BY <2>4, <3>2
      <3> QED  BY <1>3, <3>1, <3>2
    <2> QED  BY <1>1, <2>1, <2>2, <2>5 DEF Shape, SweepFits, Opened
  <1> QED  BY <1>5, <1>7, <1>8, <1>11 DEF Shape

LEMMA CrashShape ==
    ASSUME Shape, Crash
    PROVE  Shape'
  <1>1. /\ writer' = [r \in Runs |-> IF writer[r].state = "none" THEN NoWriter
                                     ELSE [writer[r] EXCEPT !.state = "closed", !.stream = FALSE]]
        /\ drain' = [r \in Runs |-> "none"]
        /\ role' = [r \in Runs |-> IF role[r] \in {"new", "abandoned"} THEN role[r] ELSE "gone"]
        /\ job' = [t \in Threads |-> NoJob]
        /\ sweep' = [NoSweep EXCEPT !.on = TRUE, !.todo = dirs]
        /\ plain' = plain /\ gz' = gz /\ dirs' = dirs /\ said' = said /\ kept' = kept /\ order' = order
        /\ tail' = tail /\ faults' = faults /\ crashes < MaxCrashes /\ crashes' = crashes + 1
        /\ litter' = litter \cup {r \in Runs : Temps(r) # {}}
    BY DEF Crash
  <1>2. /\ writer \in [Runs -> Writer] /\ dirs \subseteq Runs /\ litter \subseteq Runs
        /\ NoJob \in Job /\ NoJob.step = "idle" /\ NoJob.aim = "sweep" /\ Main \in Threads
        /\ NoWriter \in Writer /\ NoWriter.state = "none" /\ ~NoWriter.stream /\ NoWriter.seq = 0
        /\ NoSweep \in [on : BOOLEAN, todo : SUBSET Runs, parts : SUBSET Parts] /\ NoSweep.parts = {}
        /\ role \in [Runs -> {"new", "held", "deferred", "gone", "abandoned"}]
        /\ crashes \in 0..MaxCrashes /\ MaxCrashes \in Nat /\ Seqs \subseteq Nat /\ 0 \in Seqs
    BY Blank, ArchiveAssumption DEF Shape, Typed
  <1>3. ASSUME NEW r \in Runs
        PROVE  /\ writer'[r] \in Writer /\ ~writer'[r].stream
               /\ writer'[r].state = IF writer[r].state = "none" THEN "none" ELSE "closed"
               /\ writer'[r].seq = IF writer[r].state = "none" THEN 0 ELSE writer[r].seq
               /\ r \in Threads
    <2>1. writer[r] \in Writer
      BY <1>2
    <2> DEFINE w == [writer[r] EXCEPT !.state = "closed", !.stream = FALSE]
    <2>2. w \in Writer /\ w.state = "closed" /\ ~w.stream /\ w.seq = writer[r].seq
      BY <2>1 DEF Writer
    <2>3. writer'[r] = IF writer[r].state = "none" THEN NoWriter ELSE w
      BY <1>1
    <2> HIDE DEF w
    <2> QED  BY <1>2, <2>2, <2>3 DEF Threads
  <1>4. writer' \in [Runs -> Writer]
    BY <1>1, <1>3
  <1>5. /\ sweep' \in [on : BOOLEAN, todo : SUBSET Runs, parts : SUBSET Parts]
        /\ sweep'.todo = dirs /\ sweep'.parts = {}
    BY <1>1, <1>2
  <1>6. /\ job' \in [Threads -> Job] /\ \A t \in Threads : Idle(t)'
        /\ job'[Main].step = "idle" /\ job'[Main].aim = "sweep"
    BY <1>1, <1>2 DEF Idle
  <1>7. /\ role' \in [Runs -> {"new", "held", "deferred", "gone", "abandoned"}]
        /\ \A r \in Runs : role'[r] \in {"new", "abandoned", "gone"} /\ (role'[r] = "new" <=> role[r] = "new")
    BY <1>1, <1>2
  <1>8. Typed'
    <2>1. litter' \subseteq Runs
      BY <1>1, <1>2
    <2>2. crashes' \in 0..MaxCrashes
      <3>1. crashes \in 0..MaxCrashes /\ MaxCrashes \in Nat /\ crashes < MaxCrashes /\ crashes' = crashes + 1
        BY <1>1, <1>2
      <3> QED  BY <3>1
    <2>3. drain' \in [Runs -> {"none", "alive", "done"}]
      BY <1>1
    <2> QED  BY <1>1, <1>4, <1>5, <1>6, <1>7, <2>1, <2>2, <2>3 DEF Shape, Typed
  <1>9. JobFits'
    BY <1>3, <1>6 DEF JobFits, JobOf
  <1>10. WriterFits'
    BY <1>3, <1>7 DEF Shape, WriterFits, WriterOf
  <1>11. SaidFits'
    <2> SUFFICES ASSUME NEW r \in Runs
                 PROVE  SaidOf(r)'
      BY DEF SaidFits
    <2>1. said' = said /\ \A s \in Seqs : writer[r].state = "none" \/ s > writer[r].seq => said[<<r, s>>] = 0
      BY <1>1, RunsTyped DEF SaidOf
    <2> QED  BY <1>3, <2>1 DEF SaidOf
  <1>12. \A p \in Parts : Opened(p) => Opened(p)'
    BY <1>3 DEF Opened, Parts
  <1>13. PartsFit'
    BY <1>1, <1>12 DEF Shape, Typed, PartsFit
  <1>14. SweepFits'
    <2>1. \A r \in dirs : role'[r] \in Over
      BY <1>2, <1>7 DEF Shape, SweepFits, Over
    <2>2. \A r \in dirs : role'[r] # "new"
      BY <2>1 DEF Over
    <2> QED  BY <1>1, <1>5, <1>6, <2>1, <2>2, Blank DEF SweepFits
  <1>15. ActivePartIsLeftAlone'
    BY <1>3 DEF ActivePartIsLeftAlone
  <1> QED  BY <1>8, <1>9, <1>10, <1>11, <1>13, <1>14, <1>15 DEF Shape

-----------------------------------------------------------------------------
(* The reader *)

LEMMA CursorTyped ==
    ASSUME Shape, NEW s \in Seqs, NEW n \in 0..PartLines
    PROVE  /\ Cursor(s, n) \in Reader /\ Cursor(s, n).step = "idle" /\ Cursor(s, n).run = tail.run
           /\ Cursor(s, n).seq = s /\ Cursor(s, n).line = n
           /\ Cursor(s, n).at = s /\ Cursor(s, n).pos = n
  <1>1. tail \in Reader
    BY DEF Shape, Typed
  <1> QED  BY <1>1 DEF Cursor, Reader

LEMMA PartsRead ==
    ASSUME Shape, NEW part \in Seqs \X BOOLEAN
    PROVE  Lines(part) \in 0..PartLines /\ part[1] \in Seqs /\ <<tail.run, part[1]>> \in Parts
  <1>1. tail.run \in Runs
    BY DEF Shape, Typed, Reader
  <1> QED  BY <1>1 DEF Shape, Typed, Lines, Parts

LEMMA Listed ==
    ASSUME NEW r
    PROVE  Listing(r) \subseteq Seqs \X BOOLEAN
  <1>1. SUFFICES ASSUME NEW part \in Listing(r) PROVE part \in Seqs \X BOOLEAN
    OBVIOUS
  <1>2. PICK s \in Seqs : part = <<s, <<r, s>> \in gz>>
    BY <1>1 DEF Listing
  <1> DEFINE b == <<r, s>> \in gz
  <1>3. b \in BOOLEAN
    OBVIOUS
  <1>4. part = <<s, b>>
    BY <1>2
  <1> HIDE DEF b
  <1> QED  BY <1>3, <1>4

LEMMA ReadingStep ==
    ASSUME Shape, Reading
    PROVE  /\ UNCHANGED <<disk, writer, drain, role, job, sweep>> /\ NoFault /\ tail' \in Reader
  <1>1. tail \in Reader /\ 0 \in Seqs /\ NoTail \in Reader /\ PartLines \in Nat /\ 0 \in 0..PartLines /\ Seqs \subseteq Nat
    <2>1. PartLines \in Nat
      BY Blank
    <2> QED  BY <2>1, Blank DEF Shape, Typed
  <1>2. tail.run \in Runs /\ tail.view \subseteq Seqs \X BOOLEAN /\ tail.seq \in Seqs /\ tail.line \in 0..PartLines
        /\ tail.at \in Seqs /\ tail.pos \in 0..PartLines
    BY <1>1 DEF Reader
  <1>3. CASE \E r \in Followed : TailOpens(r)
    <2>1. PICK r \in Followed : TailOpens(r)
      BY <1>3
    <2>2. r \in Runs
      BY ArchiveAssumption
    <2> DEFINE newest == {part \in Listing(r) : \A other \in Listing(r) : other[1] <= part[1]}
    <2>3. newest \subseteq Seqs \X BOOLEAN
      BY Listed
    <2> HIDE DEF newest
    <2>4. [tail EXCEPT !.step = "first", !.run = r, !.view = newest] \in Reader
      BY <1>1, <2>2, <2>3 DEF Reader
    <2>5. [Cursor(0, 0) EXCEPT !.run = r] \in Reader
      <3>1. Cursor(0, 0) \in Reader
        BY <1>1, CursorTyped
      <3> QED  BY <2>2, <3>1 DEF Reader
    <2>6. Reads(IF Listing(r) = {} THEN [Cursor(0, 0) EXCEPT !.run = r]
                ELSE [tail EXCEPT !.step = "first", !.run = r, !.view = newest])
      BY <2>1 DEF TailOpens, newest
    <2> QED  BY <2>4, <2>5, <2>6 DEF Reads
  <1>4. CASE TailFirst
    <2>1. PICK part \in tail.view : Reads(IF There(part) THEN Cursor(part[1], Lines(part)) ELSE NoTail)
      BY <1>4 DEF TailFirst
    <2>2. Cursor(part[1], Lines(part)) \in Reader
      BY <1>2, PartsRead, CursorTyped
    <2> QED  BY <1>1, <2>1, <2>2 DEF Reads
  <1>5. CASE TailPolls
    <2> DEFINE listed == Listing(tail.run)
               ahead == {part \in listed : part[1] >= tail.seq}
    <2>1. Reads(IF listed = {} THEN Cursor(0, 0)
                ELSE IF \A part \in listed : part[1] # tail.seq THEN NoTail
                ELSE [tail EXCEPT !.step = "read", !.view = ahead])
      BY <1>5 DEF TailPolls
    <2>2. ahead \subseteq Seqs \X BOOLEAN
      BY Listed
    <2> HIDE DEF ahead, listed
    <2>3. [tail EXCEPT !.step = "read", !.view = ahead] \in Reader
      BY <1>1, <2>2 DEF Reader
    <2>4. Cursor(0, 0) \in Reader
      BY <1>1, CursorTyped
    <2> QED  BY <1>1, <2>1, <2>3, <2>4 DEF Reads
  <1>6. CASE TailReads
    <2> DEFINE start(part) == IF part[1] # tail.seq THEN 0 ELSE IF tail.line < Lines(part) THEN tail.line ELSE Lines(part)
               last(part) == IF Lines(part) > start(part) THEN <<part[1], Lines(part)>> ELSE <<tail.at, tail.pos>>
               rest(part) == tail.view \ {part}
    <2>1. PICK part \in tail.view :
             \/ Reads(Cursor(tail.seq, tail.line))
             \/ \E end \in start(part)..(Lines(part) - 1) : Reads(Cursor(part[1], end))
             \/ Reads(IF rest(part) = {} THEN Cursor(last(part)[1], last(part)[2])
                      ELSE [tail EXCEPT !.at = last(part)[1], !.pos = last(part)[2], !.view = rest(part)])
      BY <1>6 DEF TailReads
    <2>2. Lines(part) \in 0..PartLines /\ part[1] \in Seqs /\ start(part) \in Nat
      <3>1. part \in Seqs \X BOOLEAN
        BY <1>2
      <3>2. Lines(part) \in 0..PartLines /\ part[1] \in Seqs
        BY <3>1, PartsRead
      <3> QED  BY <1>1, <1>2, <3>2
    <2>3. last(part)[1] \in Seqs /\ last(part)[2] \in 0..PartLines /\ rest(part) \subseteq Seqs \X BOOLEAN
      BY <1>2, <2>2
    <2> HIDE DEF last, rest, start
    <2>4. Cursor(tail.seq, tail.line) \in Reader
      BY <1>2, CursorTyped
    <2>5. \A end \in start(part)..(Lines(part) - 1) : Cursor(part[1], end) \in Reader
      <3> TAKE end \in start(part)..(Lines(part) - 1)
      <3>1. end \in 0..PartLines
        BY <1>1, <2>2
      <3> QED  BY <2>2, <3>1, CursorTyped
    <2>6. Cursor(last(part)[1], last(part)[2]) \in Reader
      BY <2>3, CursorTyped
    <2>7. [tail EXCEPT !.at = last(part)[1], !.pos = last(part)[2], !.view = rest(part)] \in Reader
      BY <1>1, <2>3 DEF Reader
    <2> QED  BY <2>1, <2>4, <2>5, <2>6, <2>7 DEF Reads
  <1>7. UNCHANGED <<disk, writer, drain, role, job, sweep>> /\ NoFault
    BY DEF Reading, TailOpens, TailFirst, TailPolls, TailReads, Reads
  <1> QED  BY <1>3, <1>4, <1>5, <1>6, <1>7 DEF Reading

\* The files, the writers and the threads are as they were.
Same == UNCHANGED <<disk, writer, drain, role, job, sweep>>

LEMMA SameShape ==
    ASSUME Shape, Same, Typed'
    PROVE  Shape'
  <1>1. /\ plain' = plain /\ gz' = gz /\ dirs' = dirs /\ said' = said /\ writer' = writer /\ drain' = drain
        /\ role' = role /\ job' = job /\ sweep' = sweep
    BY DEF Same, disk
  <1>2. JobFits'
    BY <1>1 DEF Shape, JobFits, JobOf, Idle
  <1>3. WriterFits' /\ SaidFits' /\ PartsFit' /\ ActivePartIsLeftAlone'
    BY <1>1 DEF Shape, WriterFits, WriterOf, SaidFits, SaidOf, PartsFit, Opened, ActivePartIsLeftAlone
  <1>4. SweepFits'
    BY <1>1 DEF Shape, SweepFits, Opened, Idle
  <1> QED  BY <1>2, <1>3, <1>4 DEF Shape

LEMMA ShapeStep ==
    ASSUME Shape, [Next]_vars
    PROVE  Shape'
  <1>1. CASE \E t \in Threads : Compression(t)
    BY <1>1, CompressionShape
  <1>2. CASE \E r \in Runs : Writing(r)
    <2>1. PICK r \in Runs : Writing(r)
      BY <1>2
    <2> QED  BY <2>1, OpenPartShape, SayShape, BeginRunShape, FinalizeShape, LastSealShape, LetGoShape DEF Writing
  <1>3. CASE Sweeping
    BY <1>3, SweepingShape
  <1>4. CASE Crash
    BY <1>4, CrashShape
  <1>5. CASE Reading
    <2>1. Same /\ tail' \in Reader /\ NoFault
      BY <1>5, ReadingStep DEF Same
    <2>2. Typed'
      BY <2>1, FaultsTyped DEF Same, disk, Shape, Typed
    <2> QED  BY <2>1, <2>2, SameShape
  <1>6. CASE vars' = vars
    <2>1. Same /\ tail' = tail /\ faults' = faults /\ crashes' = crashes
      BY <1>6 DEF vars, Same, budget
    <2>2. Typed'
      BY <2>1 DEF Same, disk, Shape, Typed
    <2> QED  BY <2>1, <2>2, SameShape
  <1> QED  BY <1>1, <1>2, <1>3, <1>4, <1>5, <1>6 DEF Next

LEMMA InitShape ==
    ASSUME Init
    PROVE  Shape
  <1>1. /\ plain = {} /\ gz = {} /\ dirs = {} /\ litter = {} /\ order = {}
        /\ said = [p \in Parts |-> 0] /\ kept = [p \in Parts |-> 0]
        /\ writer = [r \in Runs |-> NoWriter]
        /\ drain = [r \in Runs |-> "none"] /\ role = [r \in Runs |-> "new"]
        /\ job = [t \in Threads |-> NoJob] /\ sweep = NoSweep /\ tail = NoTail
        /\ faults = 0 /\ crashes = 0
    BY DEF Init
  <1>2. Typed
    <2>1. 0 \in 0..PartLines
      BY ArchiveAssumption
    <2>2. said \in [Parts -> 0..PartLines] /\ kept \in [Parts -> 0..PartLines]
      BY <1>1, <2>1
    <2>3. faults \in 0..MaxFaults /\ crashes \in 0..MaxCrashes
      BY <1>1, ArchiveAssumption
    <2>4. writer \in [Runs -> Writer] /\ job \in [Threads -> Job] /\ tail \in Reader
          /\ sweep \in [on : BOOLEAN, todo : SUBSET Runs, parts : SUBSET Parts]
      BY <1>1, Blank
    <2> QED  BY <1>1, <2>2, <2>3, <2>4 DEF Typed
  <1>3. job[Main].step = "idle" /\ job[Main].aim = "sweep" /\ \A t \in Threads : Idle(t)
    BY <1>1, Blank DEF Idle
  <1>4. JobFits
    BY <1>3 DEF JobFits, JobOf, Threads
  <1>5. WriterFits /\ SaidFits /\ ActivePartIsLeftAlone
    <2>1. \A r \in Runs : writer[r].state = "none" /\ ~writer[r].stream /\ role[r] = "new"
      BY <1>1, Blank
    <2>2. \A r \in Runs, s \in Seqs : said[<<r, s>>] = 0
      BY <1>1 DEF Parts
    <2> QED  BY <2>1, <2>2 DEF WriterFits, WriterOf, SaidFits, SaidOf, ActivePartIsLeftAlone
  <1>6. SweepFits /\ PartsFit
    BY <1>1, <1>3, Blank DEF SweepFits, PartsFit
  <1> QED  BY <1>2, <1>4, <1>5, <1>6 DEF Shape

-----------------------------------------------------------------------------
(* What a step does to the files, whoever takes it *)

ReserveOf(t) ==
    /\ job[t].step = "copy" => job[t].reserve = 1
    /\ job[t].aim = "trim" => job[t].reserve = 0

Reserves == \A t \in Threads : ReserveOf(t)

\* A thread that has no copy of a part, and has listed nothing but what there is.
Anew(t) == ~Copied(t) /\ job[t].seen \in {{}, gz} /\ ReserveOf(t)

\* No line will be added to the part.
Sealed(p) == p[2] < writer[p[1]].seq \/ ~writer[p[1]].stream

\* The writer of its run opens the part or writes to it, and nobody copies it meanwhile.
Grows(x) ==
    /\ plain \subseteq plain' /\ plain' \subseteq plain \cup {x}
    /\ UNCHANGED <<order, plain>> \/ (order' = Touched(x) /\ x \in plain')
    /\ \A p \in Parts \ {x} : said'[p] = said[p]
    /\ said[x] <= said'[x]
    /\ \A t \in Threads : Copied(t) /\ job[t].part = x => Abandoned(x[1])
    /\ ~(Opened(x) /\ Sealed(x))

\* A step that is not part of a compression.
Aloof ==
    /\ gz' = gz /\ kept' = kept
    /\ \A t \in Threads : job'[t] = job[t] \/ Anew(t)'
    /\ \A r \in Runs : Abandoned(r) => Abandoned(r)'
    /\ \A p \in Parts : Opened(p) => Opened(p)' /\ (Sealed(p) => Sealed(p)')
    /\ UNCHANGED <<plain, order, said>> \/ \E x \in Parts : Grows(x)

\* The thread of an active run shares its part with nobody.
LEMMA OwnPart ==
    ASSUME Shape, NEW r \in Runs, writer[r].state \in {"none", "open", "closing"},
           NEW t \in Threads, t # r, ~Idle(t), job[t].step # "open", job[t].aim # "trim", ~Abandoned(r)
    PROVE  job[t].part[1] # r
  <1>1. CASE t \in Runs
    BY <1>1 DEF Shape, JobFits, JobOf
  <1>2. CASE t = Main
    <2>1. job[t].aim = "sweep"
      BY <1>2 DEF Shape, JobFits
    <2>2. role[job[t].part[1]] \in Over /\ Opened(job[t].part)
      BY <1>2, <2>1 DEF Shape, SweepFits
    <2>3. role[r] = "gone" => writer[r].state \in {"none", "closed"}
      BY RunsTyped DEF WriterOf
    <2> QED  BY <2>2, <2>3 DEF Over, Abandoned, Opened
  <1> QED  BY <1>1, <1>2 DEF Threads

\* Two threads are at the same part only when its run has been abandoned.
LEMMA Apart ==
    ASSUME Shape, NEW t \in Threads, NEW u \in Threads, t # u, Copied(t), Copied(u),
           job[t].part = job[u].part
    PROVE  Abandoned(job[t].part[1])
  <1>1. /\ ~Idle(t) /\ job[t].step # "open" /\ job[t].aim # "trim"
        /\ ~Idle(u) /\ job[u].step # "open" /\ job[u].aim # "trim"
    BY DEF Copied, Idle
  <1>2. \A r \in Runs : ~Idle(r) /\ job[r].step # "open" =>
           job[r].part[1] = r /\ writer[r].state \in {"open", "closing"}
    BY DEF Shape, JobFits, JobOf
  <1>3. CASE t \in Runs
    BY <1>1, <1>2, <1>3, OwnPart
  <1>4. CASE u \in Runs
    BY <1>1, <1>2, <1>4, OwnPart
  <1> QED  BY <1>3, <1>4 DEF Threads

LEMMA FreshJob ==
    ASSUME Shape
    PROVE  /\ \A p \in Parts, aim \in Aims : Compressing(p, aim).reserve = 1
           /\ NoJob.reserve = 1 /\ [NoJob EXCEPT !.step = "open"].reserve = 1
  BY DEF Compressing, NoJob

LEMMA AnewJob ==
    ASSUME Shape, NEW t \in Threads,
           \/ job'[t] = NoJob \/ job'[t] = [NoJob EXCEPT !.step = "open"]
           \/ \E p \in Parts, aim \in {"rotate", "final", "sweep"} : job'[t] = Compressing(p, aim)
    PROVE  Anew(t)'
  <1>1. CASE job'[t] = NoJob \/ job'[t] = [NoJob EXCEPT !.step = "open"]
    BY <1>1, Blank, OpenJob, FreshJob DEF Anew, Copied, ReserveOf
  <1>2. CASE \E p \in Parts, aim \in {"rotate", "final", "sweep"} : job'[t] = Compressing(p, aim)
    BY <1>2, NewJob, FreshJob DEF Anew, Copied, ReserveOf, Aims
  <1> QED  BY <1>1, <1>2

\* A writer that closes or loses its stream, and one that goes to its next part.
LEMMA WriterGoesOn ==
    ASSUME Shape, Shape', NEW r \in Runs,
           \A q \in Runs \ {r} : writer'[q] = writer[q],
           writer[r].state # "none" => writer'[r].state # "none",
           \/ writer'[r].seq = writer[r].seq /\ (writer'[r].stream => writer[r].stream)
           \/ writer'[r].seq = writer[r].seq + 1 
           \/ writer[r].state = "none"
    PROVE  /\ \A p \in Parts : Opened(p) => Opened(p)' /\ (Sealed(p) => Sealed(p)')
  <1> SUFFICES ASSUME NEW p \in Parts, Opened(p)
               PROVE  Opened(p)' /\ (Sealed(p) => Sealed(p)')
    OBVIOUS
  <1>1. /\ p[1] \in Runs /\ p[2] \in Nat /\ writer[p[1]].seq \in Nat /\ writer'[p[1]].seq \in Nat
        /\ writer[r].seq \in Nat
    BY Blank DEF Parts, Shape, Typed, Writer
  <1>2. CASE p[1] # r
    BY <1>1, <1>2 DEF Opened, Sealed
  <1>3. CASE p[1] = r
    BY <1>1, <1>3 DEF Opened, Sealed
  <1> QED  BY <1>2, <1>3

LEMMA OpenPartAloof ==
    ASSUME Shape, Shape', NEW r \in Runs, OpenPart(r)
    PROVE  Aloof
  <1> DEFINE x == <<r, writer[r].seq + 1>>
  <1>1. /\ job' = [job EXCEPT ![r] = NoJob] /\ gz' = gz /\ kept' = kept /\ said' = said /\ role' = role
        /\ job[r].step = "open"
    BY DEF OpenPart, Files
  <1>2. /\ r \in Threads /\ job \in [Threads -> Job] /\ ~Idle(r) /\ writer[r].seq \in Nat
        /\ writer \in [Runs -> Writer] /\ writer[r] \in Writer
    BY <1>1, RunsTyped DEF Shape, Typed, Idle
  <1>3. \/ /\ plain' = plain \cup {x} /\ order' = Touched(x)
           /\ writer' = [writer EXCEPT ![r].seq = @ + 1, ![r].stream = TRUE]
        \/ /\ writer' = [writer EXCEPT ![r].seq = @ + 1]
           /\ plain' = plain /\ order' = order
    BY DEF OpenPart
  <1>4. /\ writer'[r].state = writer[r].state /\ writer'[r].seq = writer[r].seq + 1
        /\ \A q \in Runs \ {r} : writer'[q] = writer[q]
    BY <1>2, <1>3 DEF Writer
  <1>5. \A p \in Parts : Opened(p) => Opened(p)' /\ (Sealed(p) => Sealed(p)')
    BY <1>4, WriterGoesOn
  <1>6. \A t \in Threads : job'[t] = job[t] \/ Anew(t)'
    BY <1>1, <1>2, AnewJob
  <1>7. x \in Parts
    BY <1>2, <1>4, RunsTyped DEF Parts, Shape, Typed, Writer
  <1>8. ASSUME NEW t \in Threads, Copied(t), job[t].part = x, ~Abandoned(r)
        PROVE  FALSE
    <2>1. t # r /\ ~Idle(t) /\ job[t].step # "open" /\ job[t].aim # "trim"
      BY <1>1, <1>8 DEF Copied, Idle
    <2>2. writer[r].state \in {"open", "closing"}
      BY <1>2, RunsTyped DEF JobOf
    <2> QED  BY <1>8, <2>1, <2>2, OwnPart
  <1>9. ~Opened(x)
    BY <1>2 DEF Opened
  <1>10. said[x] <= said'[x]
    BY <1>1, <1>7, Blank DEF Shape, Typed
  <1>11. plain' = plain \cup {x} /\ order' = Touched(x) => Grows(x)
    BY <1>1, <1>8, <1>9, <1>10 DEF Grows
  <1> QED  BY <1>1, <1>3, <1>5, <1>6, <1>7, <1>11 DEF Aloof, Abandoned

LEMMA WriteAloof ==
    ASSUME Shape, NEW r \in Runs, NEW state \in {"open", "closing"}, Write(r, state),
           Idle(r), writer[r].state = "open", writer[r].stream,
           state = "open" => writer[r].seq < MaxParts - 1, plain' = plain
    PROVE  Grows(<<r, writer[r].seq>>)
  <1> DEFINE x == <<r, writer[r].seq>>
  <1>1. /\ said'[x] = said[x] + 1 /\ \A p \in Parts : p # x => said'[p] = said[p]
        /\ order' = IF x \in plain THEN Touched(x) ELSE order
    BY WriteStep
  <1>2. ASSUME NEW t \in Threads, Copied(t), job[t].part = x, ~Abandoned(r)
        PROVE  FALSE
    <2>1. t # r /\ ~Idle(t) /\ job[t].step # "open" /\ job[t].aim # "trim"
      BY <1>2 DEF Copied, Idle
    <2> QED  BY <1>2, <2>1, OwnPart
  <1>3. said[x] <= said'[x]
    BY <1>1, RunsTyped
  <1>4. ~Sealed(x)
    <2>1. writer[r].seq \in Nat /\ x[1] = r /\ x[2] = writer[r].seq
      BY RunsTyped
    <2> HIDE DEF x
    <2>2. ~(x[2] < writer[x[1]].seq) /\ writer[x[1]].stream
      BY <2>1
    <2> QED  BY <2>2 DEF Sealed
  <1> QED  BY <1>1, <1>2, <1>3, <1>4 DEF Grows

LEMMA SealAloof ==
    ASSUME Shape, NEW r \in Runs, NEW state \in {"open", "closing"}, Write(r, state) \/ Seal(r, state),
           Idle(r), writer[r].state = "open", writer[r].stream,
           state = "open" => writer[r].seq < MaxParts - 1
    PROVE  /\ writer'[r].seq = writer[r].seq /\ writer'[r].state # "none"
           /\ \A q \in Runs \ {r} : writer'[q] = writer[q]
           /\ \A t \in Threads : job'[t] = job[t] \/ Anew(t)'
  <1>1. /\ writer'[r].seq = writer[r].seq /\ writer'[r].state # "none"
        /\ \A q \in Runs \ {r} : writer'[q] = writer[q]
    BY WriteStep, SealStep
  <1>2. /\ \A t \in Threads \ {r} : job'[t] = job[t]
        /\ job'[r] = job[r] \/ job'[r] = Compressing(<<r, writer[r].seq>>, "rotate")
    <2>1. CASE Seal(r, state)
      BY <2>1, SealStep
    <2>2. CASE Write(r, state)
      <3>1. CASE said[<<r, writer[r].seq>>] + 1 = PartLines
        BY <2>2, <3>1, SealStep DEF Write
      <3>2. CASE said[<<r, writer[r].seq>>] + 1 # PartLines
        BY <2>2, <3>2 DEF Write
      <3> QED  BY <3>1, <3>2
    <2> QED  BY <2>1, <2>2
  <1>3. r \in Threads /\ <<r, writer[r].seq>> \in Parts
    BY RunsTyped
  <1>4. \A t \in Threads : job'[t] = job[t] \/ Anew(t)'
    BY <1>2, <1>3, AnewJob
  <1> QED  BY <1>1, <1>4

LEMMA SayAloof ==
    ASSUME Shape, Shape', NEW r \in Runs, Say(r) \/ Finalize(r)
    PROVE  Aloof
  <1>1. /\ writer[r].state = "open" /\ Idle(r)
        /\ plain' = plain /\ gz' = gz /\ kept' = kept /\ role' = role
    BY DEF Say, Finalize, Files
  <1>2. \/ \E state \in {"open", "closing"} :
             /\ writer[r].stream /\ (state = "open" => writer[r].seq < MaxParts - 1)
             /\ Write(r, state) \/ (Seal(r, state) /\ UNCHANGED <<said, order>>)
        \/ writer' = [writer EXCEPT ![r].state = "closing"] /\ UNCHANGED <<said, order, job>>
    <2>1. CASE Say(r)
      BY <2>1 DEF Say
    <2>2. CASE Finalize(r)
      BY <2>2 DEF Finalize
    <2> QED  BY <2>1, <2>2
  <1>3. CASE writer' = [writer EXCEPT ![r].state = "closing"] /\ UNCHANGED <<said, order, job>>
    <2>1. /\ writer'[r].seq = writer[r].seq /\ writer'[r].stream = writer[r].stream
          /\ writer'[r].state # "none" /\ \A q \in Runs \ {r} : writer'[q] = writer[q]
      BY <1>3 DEF Shape, Typed, Writer
    <2>2. \A p \in Parts : Opened(p) => Opened(p)' /\ (Sealed(p) => Sealed(p)')
      BY <2>1, WriterGoesOn
    <2> QED  BY <1>1, <1>3, <2>2 DEF Aloof, Abandoned
  <1>4. ASSUME NEW state \in {"open", "closing"}, writer[r].stream, state = "open" => writer[r].seq < MaxParts - 1,
               Write(r, state) \/ (Seal(r, state) /\ UNCHANGED <<said, order>>)
        PROVE  Aloof
    <2>1. /\ writer'[r].seq = writer[r].seq /\ writer'[r].state # "none"
          /\ \A q \in Runs \ {r} : writer'[q] = writer[q]
          /\ \A t \in Threads : job'[t] = job[t] \/ Anew(t)'
      BY <1>1, <1>4, SealAloof
    <2>2. \A p \in Parts : Opened(p) => Opened(p)' /\ (Sealed(p) => Sealed(p)')
      BY <1>4, <2>1, WriterGoesOn
    <2>3. UNCHANGED <<plain, order, said>> \/ Grows(<<r, writer[r].seq>>)
      BY <1>1, <1>4, WriteAloof
    <2>4. <<r, writer[r].seq>> \in Parts
      BY RunsTyped
    <2> QED  BY <1>1, <2>1, <2>2, <2>3, <2>4 DEF Aloof, Abandoned
  <1> QED  BY <1>2, <1>3, <1>4

LEMMA BeginRunAloof ==
    ASSUME Shape, Shape', NEW r \in Runs, BeginRun(r)
    PROVE  Aloof
  <1> DEFINE x == <<r, 0>>
  <1>1. /\ role[r] = "new" /\ gz' = gz /\ kept' = kept /\ job' = job
        /\ \/ /\ plain' = plain \cup {x} /\ order' = Touched(x)
              /\ said' = [said EXCEPT ![x] = 1]
              /\ writer' = [writer EXCEPT ![r] = [state |-> "open", seq |-> 0, stream |-> TRUE]]
           \/ UNCHANGED <<plain, order, said, writer>>
        /\ role' = [role EXCEPT ![r] = "held"] \/ role' = [role EXCEPT ![r] = "gone"]
    BY DEF BeginRun
  <1>2. /\ writer \in [Runs -> Writer] /\ said \in [Parts -> 0..PartLines]
        /\ role \in [Runs -> {"new", "held", "deferred", "gone", "abandoned"}]
        /\ writer[r].state = "none" /\ x \in Parts /\ r \in Threads /\ Idle(r)
    BY <1>1, RunsTyped, Blank DEF Shape, Typed, Parts, WriterOf, JobOf
  <1>3. /\ \A q \in Runs \ {r} : writer'[q] = writer[q]
        /\ \A q \in Runs : Abandoned(q) => Abandoned(q)'
    BY <1>1, <1>2 DEF Abandoned
  <1>4. \A p \in Parts : Opened(p) => Opened(p)' /\ (Sealed(p) => Sealed(p)')
    BY <1>2, <1>3, WriterGoesOn
  <1>5. ASSUME plain' = plain \cup {x}, order' = Touched(x), said' = [said EXCEPT ![x] = 1]
        PROVE  Grows(x)
    <2>1. ~Opened(x)
      BY <1>2 DEF Opened
    <2>2. said[x] = 0
      BY <1>2, RunsTyped, Blank DEF SaidOf
    <2>3. said'[x] = 1 /\ \A p \in Parts \ {x} : said'[p] = said[p]
      BY <1>2, <1>5
    <2>4. ASSUME NEW t \in Threads, Copied(t), job[t].part = x, ~Abandoned(r)
          PROVE  FALSE
      <3>1. t # r /\ ~Idle(t) /\ job[t].step # "open" /\ job[t].aim # "trim"
        BY <1>2, <2>4 DEF Copied, Idle
      <3> QED  BY <1>2, <2>4, <3>1, OwnPart
    <2> QED  BY <1>5, <2>1, <2>2, <2>3, <2>4 DEF Grows
  <1> QED  BY <1>1, <1>2, <1>3, <1>4, <1>5 DEF Aloof

LEMMA LetGoAloof ==
    ASSUME Shape, Shape', NEW r \in Runs, LastSeal(r) \/ DrainEnds(r) \/ Defer(r) \/ GiveUp(r)
    PROVE  Aloof
  <1>1. /\ plain' = plain /\ gz' = gz /\ kept' = kept /\ said' = said /\ order' = order
        /\ \/ writer' = writer
           \/ writer[r].state = "closing" /\ writer' = [writer EXCEPT ![r].stream = FALSE]
           \/ writer[r].state = "closing" /\ writer' = [writer EXCEPT ![r].state = "closed", ![r].stream = FALSE]
        /\ job' = job \/ job' = [job EXCEPT ![r] = Compressing(<<r, writer[r].seq>>, "final")]
        /\ \/ role' = role
           \/ role[r] # "abandoned" \/ role'[r] = "abandoned"
        /\ \A q \in Runs \ {r} : role'[q] = role[q]
    <2>1. role \in [Runs -> {"new", "held", "deferred", "gone", "abandoned"}] /\ WriterOf(r)
      BY RunsTyped DEF Shape, Typed
    <2>2. CASE LastSeal(r)
      BY <2>1, <2>2 DEF LastSeal, Closed, disk, WriterOf
    <2>3. CASE DrainEnds(r) \/ Defer(r) \/ GiveUp(r)
      BY <2>1, <2>3 DEF DrainEnds, Defer, GiveUp, disk
    <2> QED  BY <2>2, <2>3
  <1>2. /\ writer \in [Runs -> Writer] /\ job \in [Threads -> Job] /\ r \in Threads /\ <<r, writer[r].seq>> \in Parts
    BY RunsTyped DEF Shape, Typed
  <1>3. /\ \A q \in Runs \ {r} : writer'[q] = writer[q]
        /\ writer'[r].seq = writer[r].seq /\ (writer'[r].stream => writer[r].stream)
        /\ writer[r].state # "none" => writer'[r].state # "none"
    BY <1>1, <1>2 DEF Writer
  <1>4. \A p \in Parts : Opened(p) => Opened(p)' /\ (Sealed(p) => Sealed(p)')
    BY <1>3, WriterGoesOn
  <1>5. \A t \in Threads : job'[t] = job[t] \/ Anew(t)'
    BY <1>1, <1>2, AnewJob
  <1> QED  BY <1>1, <1>4, <1>5 DEF Aloof, Abandoned

LEMMA SweepingAloof ==
    ASSUME Shape, Sweeping
    PROVE  Aloof
  <1>1. /\ plain' = plain /\ gz' = gz /\ kept' = kept /\ said' = said /\ order' = order
        /\ writer' = writer /\ role' = role
    BY DEF Sweeping, SweepBegins, SweepTrims, SweepVisits, SweepTakes, disk
  <1>2. job \in [Threads -> Job] /\ Main \in Threads
    BY Blank DEF Shape, Typed
  <1>3. CASE SweepBegins \/ \E r \in Runs : SweepVisits(r)
    BY <1>1, <1>3 DEF SweepBegins, SweepVisits, Aloof, Opened, Sealed, Abandoned
  <1>4. CASE \E p \in Parts : SweepTakes(p)
    <2>1. PICK p \in Parts : SweepTakes(p)
      BY <1>4
    <2>2. job' = job \/ job' = [job EXCEPT ![Main] = Compressing(p, "sweep")]
      BY <2>1 DEF SweepTakes
    <2>3. \A t \in Threads : job'[t] = job[t] \/ Anew(t)'
      BY <1>2, <2>2, AnewJob
    <2> QED  BY <1>1, <2>3 DEF Aloof, Opened, Sealed, Abandoned
  <1>5. CASE SweepTrims
    <2> DEFINE j == [NoJob EXCEPT !.step = "measure", !.seen = gz, !.reserve = 0, !.aim = "trim"]
    <2>1. j.seen = gz /\ j.step = "measure" /\ j.aim = "trim" /\ j.reserve = 0
      BY DEF NoJob, Compressing
    <2>2. job' = [job EXCEPT ![Main] = j]
      BY <1>5 DEF SweepTrims
    <2> HIDE DEF j
    <2>3. \A t \in Threads : job'[t] = job[t] \/ Anew(t)'
      BY <1>1, <1>2, <2>1, <2>2 DEF Anew, Copied, ReserveOf
    <2> QED  BY <1>1, <2>3 DEF Aloof, Opened, Sealed, Abandoned
  <1> QED  BY <1>3, <1>4, <1>5 DEF Sweeping

LEMMA CrashAloof ==
    ASSUME Shape, Crash
    PROVE  Aloof
  <1>1. /\ writer' = [r \in Runs |-> IF writer[r].state = "none" THEN NoWriter
                                     ELSE [writer[r] EXCEPT !.state = "closed", !.stream = FALSE]]
        /\ role' = [r \in Runs |-> IF role[r] \in {"new", "abandoned"} THEN role[r] ELSE "gone"]
        /\ job' = [t \in Threads |-> NoJob]
        /\ plain' = plain /\ gz' = gz /\ said' = said /\ kept' = kept /\ order' = order
    BY DEF Crash
  <1>2. ASSUME NEW r \in Runs, writer[r].state # "none"
        PROVE  writer'[r].state # "none" /\ writer'[r].seq = writer[r].seq /\ ~writer'[r].stream
    BY <1>1, <1>2 DEF Shape, Typed, Writer
  <1>3. \A p \in Parts : Opened(p) => Opened(p)' /\ (Sealed(p) => Sealed(p)')
    BY <1>2 DEF Opened, Sealed, Parts
  <1>4. \A t \in Threads : Anew(t)'
    BY <1>1, AnewJob
  <1> QED  BY <1>1, <1>3, <1>4 DEF Aloof, Abandoned

\* Every step is part of a compression or aloof from it; only the reader moves its cursor.
LEMMA CompressionOrAloof ==
    ASSUME Shape, Shape', [Next]_vars
    PROVE  \/ Aloof /\ (tail' = tail \/ Reading)
           \/ tail' = tail /\ \E t \in Threads : Compression(t)
  <1>1. CASE \E t \in Threads : Compression(t)
    BY <1>1, CompressionStep
  <1>2. CASE \E r \in Runs : Writing(r)
    <2>1. PICK r \in Runs : Writing(r)
      BY <1>2
    <2>2. Aloof
      BY <2>1, OpenPartAloof, SayAloof, BeginRunAloof, LetGoAloof DEF Writing
    <2>3. tail' = tail
      BY <2>1 DEF Writing, OpenPart, Say, BeginRun, DrainEnds, Finalize, LastSeal, Defer, GiveUp
    <2> QED  BY <2>2, <2>3
  <1>3. CASE Sweeping
    BY <1>3, SweepingAloof DEF Sweeping, SweepBegins, SweepTrims, SweepVisits, SweepTakes
  <1>4. CASE Crash
    BY <1>4, CrashAloof DEF Crash
  <1>5. CASE Reading \/ vars' = vars
    <2>1. Same /\ (tail' = tail \/ Reading)
      BY <1>5, ReadingStep DEF Same, vars
    <2> QED  BY <2>1 DEF Same, disk, Aloof, Opened, Sealed, Abandoned
  <1> QED  BY <1>1, <1>2, <1>3, <1>4, <1>5 DEF Next

-----------------------------------------------------------------------------
(* The steps of a compression, by what they do *)

SamePart(t) == job'[t].part = job[t].part /\ job'[t].aim = job[t].aim

\* It ends without a trace.
Rests(t) == Anew(t)' /\ UNCHANGED disk

MakesCopy(t) ==
    /\ job[t].step = "copy" /\ job'[t].step = "measure" /\ SamePart(t)
    /\ job'[t].reserve = job[t].reserve
    /\ job[t].part \in plain /\ job'[t].lines = said[job[t].part] /\ job'[t].seen = gz
    /\ UNCHANGED disk

\* It goes on from one step to the next.
Proceeds(t) ==
    /\ job[t].step \in {"measure", "prune"} /\ job'[t].step \in {"prune", "publish"} /\ SamePart(t)
    /\ job'[t].reserve = job[t].reserve /\ job'[t].lines = job[t].lines /\ job'[t].seen \subseteq job[t].seen
    /\ UNCHANGED disk

\* The part to be published is the first to be given up.
GivesUp(t) ==
    /\ OverLimit(job[t]) /\ OldestIsCandidate(job[t])
    /\ job[t].step = "prune" /\ job'[t].step = "prune" /\ SamePart(t)
    /\ job'[t].reserve = 0 /\ job'[t].lines = job[t].lines /\ job'[t].seen = job[t].seen
    /\ UNCHANGED disk

Drops(t, q) ==
    /\ OverLimit(job[t]) /\ ~OldestIsCandidate(job[t])
    /\ \A other \in job[t].seen \ {q} : Older(q, other)
    /\ job[t].step = "prune" /\ job'[t].step = "prune" /\ SamePart(t)
    /\ job'[t].reserve = job[t].reserve /\ job'[t].lines = job[t].lines /\ job'[t].seen = job[t].seen \ {q}
    /\ gz' = gz \ {q} /\ order' = Left(plain \cup gz')
    /\ UNCHANGED <<plain, said, kept>>

Publishes(t) ==
    /\ job[t].step = "publish" /\ job'[t].step = "unlink" /\ SamePart(t)
    /\ job'[t].reserve = job[t].reserve /\ job'[t].seen = job[t].seen
    /\ IF job[t].reserve = 1
       THEN gz' = gz \cup {job[t].part} /\ kept' = [kept EXCEPT ![job[t].part] = job[t].lines]
       ELSE UNCHANGED <<gz, kept>>
    /\ UNCHANGED <<plain, said, order>>

Unlinks(t) ==
    /\ job[t].step = "unlink" /\ Anew(t)' /\ job'[t].seen = {}
    /\ plain' = plain \ {job[t].part} /\ order' = Left(plain' \cup gz)
    /\ UNCHANGED <<gz, said, kept>>

LEMMA GoesOnAnew ==
    ASSUME Shape, NEW t \in Threads, ~Idle(t), job[t].step # "open", GoesOn(t)
    PROVE  Anew(t)' /\ job'[t].seen = {}
  <1>1. job[t].aim \in Aims /\ job \in [Threads -> Job]
    BY DEF Shape, Typed, Job
  <1>2. job'[t] = NoJob \/ job'[t] = [NoJob EXCEPT !.step = "open"]
    <2>1. CASE job[t].aim = "rotate"
      BY <1>1, <2>1 DEF GoesOn
    <2>2. CASE job[t].aim = "final"
      BY <1>1, <2>2 DEF GoesOn
    <2>3. CASE job[t].aim = "sweep"
      BY <1>1, <2>3 DEF GoesOn
    <2>4. CASE job[t].aim = "trim"
      BY <1>1, <2>4 DEF GoesOn
    <2> QED  BY <1>1, <2>1, <2>2, <2>3, <2>4 DEF Aims
  <1> QED  BY <1>2, AnewJob, Blank, OpenJob

LEMMA CompressionCases ==
    ASSUME Shape, NEW t \in Threads, Compression(t)
    PROVE  \/ Rests(t) \/ MakesCopy(t) \/ Proceeds(t) \/ GivesUp(t)
           \/ \E q \in job[t].seen \cap gz : Drops(t, q)
           \/ Publishes(t) \/ Unlinks(t)
  <1>1. job[t] \in Job /\ job \in [Threads -> Job] /\ ~Idle(t) /\ job[t].step # "open"
    BY CompressionStep DEF Shape, Typed
  <1>2. GoesOn(t) => Anew(t)' /\ job'[t].seen = {}
    BY <1>1, GoesOnAnew
  <1>3. CASE Copy(t)
    <2>1. CASE job[t].part \in plain
      <3> DEFINE j == [job[t] EXCEPT !.step = "measure", !.lines = said[job[t].part], !.seen = gz]
      <3>1. job'[t] = j /\ job[t].step = "copy" /\ UNCHANGED disk
        BY <1>1, <1>3, <2>1 DEF Copy
      <3>2. j.step = "measure" /\ j.lines = said[job[t].part] /\ j.seen = gz /\ j.part = job[t].part
            /\ j.aim = job[t].aim /\ j.reserve = job[t].reserve
        BY <1>1 DEF Job
      <3> HIDE DEF j
      <3> QED  BY <2>1, <3>1, <3>2 DEF MakesCopy, SamePart
    <2>2. CASE job[t].part \notin plain
      BY <1>2, <1>3, <2>2 DEF Copy, Rests
    <2> QED  BY <2>1, <2>2
  <1>4. CASE Measure(t)
    <2>1. CASE To(t, "prune")
      <3> DEFINE j == [job[t] EXCEPT !.step = "prune"]
      <3>1. job'[t] = j /\ job[t].step = "measure" /\ UNCHANGED disk
        BY <1>1, <1>4, <2>1 DEF Measure, To
      <3>2. j.step = "prune" /\ j.lines = job[t].lines /\ j.seen = job[t].seen /\ j.part = job[t].part
            /\ j.aim = job[t].aim /\ j.reserve = job[t].reserve
        BY <1>1 DEF Job
      <3> HIDE DEF j
      <3> QED  BY <3>1, <3>2 DEF Proceeds, SamePart
    <2>2. CASE GoesOn(t)
      BY <1>2, <1>4, <2>2 DEF Measure, Rests
    <2> QED  BY <1>4, <2>1, <2>2 DEF Measure
  <1>5. CASE PruneCandidate(t)
    <2> DEFINE j == [job[t] EXCEPT !.reserve = 0]
    <2>1. /\ job'[t] = j /\ job[t].step = "prune" /\ OverLimit(job[t]) /\ OldestIsCandidate(job[t])
          /\ UNCHANGED disk
      BY <1>1, <1>5 DEF PruneCandidate
    <2>2. j.step = job[t].step /\ j.lines = job[t].lines /\ j.seen = job[t].seen /\ j.part = job[t].part
          /\ j.aim = job[t].aim /\ j.reserve = 0
      BY <1>1 DEF Job
    <2> HIDE DEF j
    <2> QED  BY <2>1, <2>2 DEF GivesUp, SamePart
  <1>6. CASE PruneOldest(t)
    <2>1. /\ job[t].step = "prune" /\ OverLimit(job[t]) /\ ~OldestIsCandidate(job[t])
          /\ UNCHANGED <<plain, litter, said, kept>>
      BY <1>6 DEF PruneOldest
    <2>2. PICK q \in job[t].seen :
             /\ \A other \in job[t].seen \ {q} : Older(q, other)
             /\ IF q \in gz
                THEN /\ gz' = gz \ {q} /\ order' = Left(plain \cup gz')
                     /\ job' = [job EXCEPT ![t].seen = @ \ {q}]
                ELSE GoesOn(t) /\ UNCHANGED <<gz, dirs, order>>
      BY <1>6 DEF PruneOldest
    <2>3. CASE q \in gz
      <3> DEFINE j == [job[t] EXCEPT !.seen = @ \ {q}]
      <3>1. job'[t] = j
        BY <1>1, <2>2, <2>3
      <3>2. j.step = job[t].step /\ j.lines = job[t].lines /\ j.seen = job[t].seen \ {q} /\ j.part = job[t].part
            /\ j.aim = job[t].aim /\ j.reserve = job[t].reserve
        BY <1>1 DEF Job
      <3> HIDE DEF j
      <3>3. Drops(t, q)
        BY <2>1, <2>2, <2>3, <3>1, <3>2 DEF Drops, SamePart
      <3> QED  BY <2>3, <3>3
    <2>4. CASE q \notin gz
      BY <1>2, <2>1, <2>2, <2>4 DEF Rests, disk
    <2> QED  BY <2>3, <2>4
  <1>7. CASE PruneEnds(t)
    <2>1. CASE job[t].aim = "trim"
      BY <1>2, <1>7, <2>1 DEF PruneEnds, Rests
    <2>2. CASE job[t].aim # "trim"
      <3> DEFINE j == [job[t] EXCEPT !.step = "publish", !.seen = {}]
      <3>1. job'[t] = j /\ job[t].step = "prune" /\ UNCHANGED disk
        BY <1>1, <1>7, <2>2 DEF PruneEnds
      <3>2. j.step = "publish" /\ j.lines = job[t].lines /\ j.seen = {} /\ j.part = job[t].part
            /\ j.aim = job[t].aim /\ j.reserve = job[t].reserve
        BY <1>1 DEF Job
      <3> HIDE DEF j
      <3> QED  BY <3>1, <3>2 DEF Proceeds, SamePart
    <2> QED  BY <2>1, <2>2
  <1>8. CASE Publish(t)
    <2> DEFINE j == [job[t] EXCEPT !.step = "unlink", !.lines = 0]
    <2>1. job'[t] = j
      BY <1>1, <1>8 DEF Publish
    <2>2. j.step = "unlink" /\ j.seen = job[t].seen /\ j.part = job[t].part
          /\ j.aim = job[t].aim /\ j.reserve = job[t].reserve
      BY <1>1 DEF Job
    <2> HIDE DEF j
    <2>3. SamePart(t) /\ job'[t].step = "unlink" /\ job'[t].reserve = job[t].reserve /\ job'[t].seen = job[t].seen
      BY <2>1, <2>2 DEF SamePart
    <2> QED  BY <1>8, <2>3 DEF Publish, Publishes
  <1>9. CASE RemoveSource(t)
    BY <1>2, <1>9 DEF RemoveSource, Unlinks
  <1>10. CASE CompressionFails(t)
    BY <1>2, <1>10 DEF CompressionFails, Rests
  <1> QED  BY <1>3, <1>4, <1>5, <1>6, <1>7, <1>8, <1>9, <1>10 DEF Compression

\* The others go on with what they have, and the writers are where they were.
LEMMA CompressionAside ==
    ASSUME Shape, NEW t \in Threads, Compression(t)
    PROVE  /\ \A u \in Threads \ {t} : job'[u] = job[u]
           /\ said' = said
           /\ \A r \in Runs : Abandoned(r)' <=> Abandoned(r)
           /\ \A p \in Parts : (Opened(p)' <=> Opened(p)) /\ (Sealed(p)' <=> Sealed(p))
  <1>1. \A p \in Parts : p[1] \in Runs
    BY DEF Parts
  <1> QED  BY <1>1, CompressionKeeps, CompressionStep DEF Opened, Sealed

\* Only removal and publication wait for the first copy; a trim never gets so far.
LEMMA AtWork ==
    ASSUME Shape, NEW t \in Threads
    PROVE  /\ job[t].step \in {"publish", "unlink"} => Copied(t)
           /\ Copied(t) => job[t].part \in Parts /\ job[t].part \in InHand(t)
           /\ job[t].seen \subseteq InHand(t)
  <1>1. job[t].aim = "trim" => ~(job[t].step \in {"publish", "unlink"})
    <2>1. CASE t = Main
      BY <2>1 DEF Shape, JobFits
    <2>2. CASE t # Main
      BY <2>2 DEF Shape, JobFits, JobOf, Threads, Idle
    <2> QED  BY <2>1, <2>2
  <1>2. job[t].part \in Parts
    BY DEF Shape, Typed, Job
  <1> QED  BY <1>1, <1>2 DEF Copied, InHand

-----------------------------------------------------------------------------
LEMMA ReservesStep ==
    ASSUME Shape, Shape', Reserves, [Next]_vars
    PROVE  Reserves'
  <1>1. CASE Aloof
    <2> SUFFICES ASSUME NEW t \in Threads
                 PROVE  ReserveOf(t)'
      BY DEF Reserves
    <2>1. job'[t] = job[t] \/ Anew(t)'
      BY <1>1 DEF Aloof
    <2> QED  BY <2>1 DEF Reserves, ReserveOf, Anew
  <1>2. ASSUME NEW t \in Threads, Compression(t)
        PROVE  Reserves'
    <2>1. ReserveOf(t)'
      <3>1. job[t].aim = "trim" => ~(OldestIsCandidate(job[t]))
        BY DEF OldestIsCandidate
      <3>2. CASE Rests(t) \/ Unlinks(t)
        BY <3>2 DEF Rests, Unlinks, Anew
      <3>3. CASE MakesCopy(t) \/ Proceeds(t) \/ Publishes(t) \/ \E q \in job[t].seen \cap gz : Drops(t, q)
        BY <3>3 DEF MakesCopy, Proceeds, Publishes, Drops, SamePart, Reserves, ReserveOf
      <3>4. CASE GivesUp(t)
        BY <3>1, <3>4 DEF GivesUp, SamePart, Reserves, ReserveOf
      <3> QED  BY <1>2, <3>2, <3>3, <3>4, CompressionCases
    <2>2. \A u \in Threads \ {t} : ReserveOf(u)'
      BY <1>2, CompressionAside DEF Reserves, ReserveOf
    <2> QED  BY <2>1, <2>2 DEF Reserves
  <1> QED  BY <1>1, <1>2, CompressionOrAloof

LEMMA CountedStep ==
    ASSUME Shape, Shape', Counted, [Next]_vars
    PROVE  Counted'
  <1>1. CASE Aloof
    <2>1. IsFiniteSet(gz')
      BY <1>1 DEF Aloof, Counted
    <2>2. ASSUME NEW t \in Threads
          PROVE  IsFiniteSet(job'[t].seen)
      <3>1. job'[t] = job[t] \/ job'[t].seen \in {{}, gz'}
        BY <1>1 DEF Aloof, Anew
      <3> QED  BY <2>1, <3>1, FS_EmptySet DEF Counted
    <2> QED  BY <2>1, <2>2 DEF Counted
  <1>2. ASSUME NEW t \in Threads, Compression(t)
        PROVE  Counted'
    <2>1. IsFiniteSet(gz) /\ IsFiniteSet(job[t].seen)
      BY DEF Counted
    <2>2. IsFiniteSet(gz')
      <3>1. gz' \subseteq gz \cup {job[t].part}
        BY <1>2, CompressionStep
      <3>2. IsFiniteSet(gz \cup {job[t].part})
        BY <2>1, FS_AddElement
      <3> QED  BY <3>1, <3>2, FS_Subset
    <2>3. IsFiniteSet(job'[t].seen)
      <3>1. CASE Rests(t) \/ Unlinks(t)
        BY <2>2, <3>1, FS_EmptySet DEF Rests, Unlinks, Anew
      <3>2. CASE MakesCopy(t)
        BY <2>1, <3>2 DEF MakesCopy
      <3>3. CASE Proceeds(t) \/ GivesUp(t) \/ Publishes(t) \/ \E q \in job[t].seen \cap gz : Drops(t, q)
        <4>1. job'[t].seen \subseteq job[t].seen
          BY <3>3 DEF Proceeds, GivesUp, Publishes, Drops
        <4> QED  BY <2>1, <4>1, FS_Subset
      <3> QED  BY <1>2, <3>1, <3>2, <3>3, CompressionCases
    <2>4. \A u \in Threads \ {t} : IsFiniteSet(job'[u].seen)
      BY <1>2, CompressionAside DEF Counted
    <2> QED  BY <2>2, <2>3, <2>4 DEF Counted
  <1> QED  BY <1>1, <1>2, CompressionOrAloof

LEMMA SourceStaysStep ==
    ASSUME Shape, Shape', SourceStays, [Next]_vars
    PROVE  SourceStays'
  <1>1. CASE Aloof
    <2> SUFFICES ASSUME NEW t \in Threads, Copied(t)', ~Abandoned(job[t].part[1])'
                 PROVE  job'[t].part \in plain' /\ (job'[t].step # "unlink" => job'[t].lines = said'[job'[t].part])
      BY DEF SourceStays
    <2>1. job'[t] = job[t] /\ Copied(t) /\ job[t].part \in Parts
      BY <1>1, AtWork DEF Aloof, Anew, Copied
    <2>2. ~Abandoned(job[t].part[1])
      <3>1. job[t].part[1] \in Runs
        BY <2>1 DEF Parts
      <3>2. role'[job[t].part[1]] # "abandoned"
        BY <2>1 DEF Abandoned
      <3> QED  BY <1>1, <3>1, <3>2 DEF Aloof, Abandoned
    <2>3. job[t].part \in plain /\ (job[t].step # "unlink" => job[t].lines = said[job[t].part])
      BY <2>1, <2>2 DEF SourceStays
    <2>4. job[t].part \in plain' /\ said'[job[t].part] = said[job[t].part]
      BY <1>1, <2>1, <2>2, <2>3 DEF Aloof, Grows
    <2> QED  BY <2>1, <2>3, <2>4
  <1>2. ASSUME NEW t \in Threads, Compression(t)
        PROVE  SourceStays'
    <2> SUFFICES ASSUME NEW u \in Threads, Copied(u)', ~Abandoned(job[u].part[1])'
                 PROVE  job'[u].part \in plain' /\ (job'[u].step # "unlink" => job'[u].lines = said'[job'[u].part])
      BY DEF SourceStays
    <2>1. /\ job'[u].part \in Parts /\ job'[u].part[1] \in Runs
          /\ (~Abandoned(job[u].part[1])' <=> role'[job'[u].part[1]] # "abandoned")
      BY DEF Shape, Typed, Job, Parts, Abandoned
    <2>2. ~Abandoned(job'[u].part[1]) /\ said' = said
      BY <1>2, <2>1, CompressionAside DEF Abandoned
    <2>3. CASE u # t
      <3>1. job'[u] = job[u] /\ Copied(u)
        BY <1>2, <2>3, CompressionAside DEF Copied
      <3>2. job[u].part \in plain /\ (job[u].step # "unlink" => job[u].lines = said[job[u].part])
        BY <2>2, <3>1 DEF SourceStays
      <3>3. job[u].part \in plain'
        <4>1. CASE Unlinks(t)
          <5>1. job[t].part # job[u].part
            BY <2>2, <2>3, <3>1, <4>1, Apart, AtWork DEF Unlinks
          <5> QED  BY <3>2, <4>1, <5>1 DEF Unlinks
        <4>2. CASE ~Unlinks(t)
          BY <1>2, <3>2, <4>2, CompressionCases
             DEF Rests, MakesCopy, Proceeds, GivesUp, Drops, Publishes, disk
        <4> QED  BY <4>1, <4>2
      <3> QED  BY <2>2, <3>1, <3>2, <3>3
    <2>4. CASE u = t
      <3>1. ~Rests(t) /\ ~Unlinks(t)
        BY <2>4 DEF Rests, Unlinks, Anew
      <3>2. CASE MakesCopy(t)
        BY <2>2, <2>4, <3>2 DEF MakesCopy, SamePart, disk
      <3>3. CASE Proceeds(t) \/ GivesUp(t) \/ Publishes(t) \/ \E q \in job[t].seen \cap gz : Drops(t, q)
        <4>1. /\ job'[t].part = job[t].part /\ job'[t].aim = job[t].aim /\ plain' = plain
              /\ job[t].step \in {"measure", "prune", "publish"}
              /\ job'[t].step = "unlink" \/ job'[t].lines = job[t].lines
          BY <3>3 DEF Proceeds, GivesUp, Publishes, Drops, SamePart, disk
        <4>2. Copied(t)
          BY <2>4, <4>1 DEF Copied
        <4>3. job[t].part \in plain /\ job[t].lines = said[job[t].part]
          BY <2>2, <2>4, <4>1, <4>2 DEF SourceStays
        <4> QED  BY <2>2, <2>4, <4>1, <4>3
      <3> QED  BY <1>2, <3>1, <3>2, <3>3, CompressionCases
    <2> QED  BY <2>3, <2>4
  <1> QED  BY <1>1, <1>2, CompressionOrAloof

LEMMA ArchivesFitStep ==
    ASSUME Shape, Shape', SourceStays, ArchivesFit, [Next]_vars
    PROVE  ArchivesFit'
  <1> SUFFICES ASSUME NEW p \in gz', ~Abandoned(p[1])'
               PROVE  kept'[p] = said'[p] /\ Sealed(p)'
    BY DEF ArchivesFit, Sealed
  <1>1. p \in Parts /\ p[1] \in Runs
    BY DEF Shape, Typed, Parts
  <1>2. CASE Aloof
    <2>1. p \in gz /\ ~Abandoned(p[1])
      BY <1>1, <1>2 DEF Aloof
    <2>2. kept[p] = said[p] /\ Sealed(p) /\ Opened(p)
      BY <2>1 DEF ArchivesFit, Sealed, Shape, PartsFit
    <2>3. kept' = kept /\ said'[p] = said[p] /\ Sealed(p)'
      BY <1>1, <1>2, <2>2 DEF Aloof, Grows
    <2> QED  BY <2>2, <2>3
  <1>3. ASSUME NEW t \in Threads, Compression(t)
        PROVE  kept'[p] = said'[p] /\ Sealed(p)'
    <2>1. said' = said /\ ~Abandoned(p[1]) /\ (Sealed(p)' <=> Sealed(p))
      BY <1>1, <1>3, CompressionAside
    <2>2. p \in gz => kept[p] = said[p] /\ Sealed(p)
      BY <2>1 DEF ArchivesFit, Sealed
    <2>3. CASE Publishes(t) /\ job[t].reserve = 1 /\ p = job[t].part
      <3>1. Copied(t)
        BY <2>3, AtWork DEF Publishes
      <3>2. job[t].lines = said[p]
        BY <2>1, <2>3, <3>1 DEF SourceStays, Publishes
      <3>3. kept'[p] = said[p]
        BY <1>1, <2>3, <3>2 DEF Publishes, Shape, Typed
      <3>4. Sealed(p)
        <4>1. ~Idle(t) /\ job[t].step # "open" /\ job[t].aim # "trim"
          BY <3>1 DEF Copied, Idle
        <4>2. CASE t \in Runs
          <5>1. p = <<t, writer[t].seq>> /\ ~writer[t].stream
            BY <2>3, <4>1, <4>2 DEF Shape, JobFits, JobOf
          <5> QED  BY <5>1 DEF Sealed
        <4>3. CASE t = Main
          <5>1. job[Main].aim = "sweep"
            BY <4>1, <4>3 DEF Shape, JobFits
          <5>2. role[p[1]] = "gone"
            BY <2>1, <2>3, <4>1, <4>3, <5>1 DEF Shape, SweepFits, Over, Abandoned
          <5>3. ~writer[p[1]].stream
            BY <1>1, <5>2, RunsTyped DEF WriterOf
          <5> QED  BY <5>3 DEF Sealed
        <4> QED  BY <4>2, <4>3 DEF Threads
      <3> QED  BY <2>1, <3>3, <3>4
    <2>4. CASE ~(Publishes(t) /\ job[t].reserve = 1 /\ p = job[t].part)
      <3>1. kept'[p] = kept[p] /\ p \in gz
        <4>1. CASE Publishes(t) /\ job[t].reserve = 1
          BY <1>1, <2>4, <4>1 DEF Publishes, Shape, Typed
        <4>2. CASE ~(Publishes(t) /\ job[t].reserve = 1)
          <5>1. kept' = kept /\ gz' \subseteq gz
            BY <1>3, <4>2, CompressionCases
               DEF Rests, MakesCopy, Proceeds, GivesUp, Drops, Publishes, Unlinks, disk
          <5> QED  BY <5>1
        <4> QED  BY <4>1, <4>2
      <3> QED  BY <2>1, <2>2, <3>1
    <2> QED  BY <2>3, <2>4
  <1> QED  BY <1>2, <1>3, CompressionOrAloof

-----------------------------------------------------------------------------
(* The order of the parts *)

LEMMA OrderKept ==
    ASSUME NEW o, NEW K, NEW n, NEW L \in SUBSET K, StrictOn(o, K),
           \A p, q \in L : <<p, q>> \in n <=> <<p, q>> \in o
    PROVE  StrictOn(n, L)
  BY DEF StrictOn

LEMMA OrderTouched ==
    ASSUME NEW o, NEW K, NEW x, NEW n, NEW L, StrictOn(o, K), L \subseteq K \cup {x},
           n = (o \cap ((K \ {x}) \X (K \ {x}))) \cup ((K \ {x}) \X {x})
    PROVE  StrictOn(n, L)
  <1>1. \A p, q : <<p, q>> \in n <=> p \in K /\ p # x /\ (q = x \/ (q \in K /\ q # x /\ <<p, q>> \in o))
    OBVIOUS
  <1>2. \A p \in L : <<p, p>> \notin n
    BY <1>1 DEF StrictOn
  <1>3. \A p, q \in L : p = q \/ <<p, q>> \in n \/ <<q, p>> \in n
    BY <1>1 DEF StrictOn
  <1>4. \A p, q, y \in L : <<p, q>> \in n /\ <<q, y>> \in n => <<p, y>> \in n
    BY <1>1 DEF StrictOn
  <1> QED  BY <1>2, <1>3, <1>4 DEF StrictOn

LEMMA InAll ==
    /\ plain \cup gz \subseteq All
    /\ \A t \in Threads : InHand(t) \subseteq All
    /\ \A p \in All : p \in plain \cup gz \/ \E t \in Threads : p \in InHand(t)
  BY DEF All, Known

LEMMA InAllNext ==
    /\ plain' \cup gz' \subseteq All'
    /\ \A t \in Threads : InHand(t)' \subseteq All'
    /\ \A p \in All' : p \in plain' \cup gz' \/ \E t \in Threads : p \in InHand(t)'
  BY DEF All, Known, InHand

LEMMA InLeft ==
    ASSUME NEW parts, NEW p, NEW q
    PROVE  <<p, q>> \in Left(parts) <=> <<p, q>> \in order /\ p \in Known(parts) /\ q \in Known(parts)
  BY DEF Left

\* What the threads have in hand only shrinks, but for what is there.
LEMMA AloofHands ==
    ASSUME Shape, Aloof, NEW t \in Threads
    PROVE  InHand(t)' \subseteq InHand(t) \cup gz
  <1>1. CASE job'[t] = job[t]
    BY <1>1 DEF InHand
  <1>2. CASE Anew(t)'
    BY <1>2 DEF Anew, InHand, Copied, Aloof
  <1> QED  BY <1>1, <1>2 DEF Aloof

LEMMA CompressionHands ==
    ASSUME Shape, NEW t \in Threads, Compression(t)
    PROVE  /\ \A u \in Threads \ {t} : InHand(u)' = InHand(u)
           /\ InHand(t)' \subseteq InHand(t) \cup plain \cup gz
           /\ InHand(t)' \subseteq InHand(t) \/ UNCHANGED disk
           /\ plain' \subseteq plain /\ gz' \subseteq gz \cup InHand(t)
           /\ order' = order \/ order' = Left(plain' \cup gz')
  <1>1. \A u \in Threads \ {t} : InHand(u)' = InHand(u)
    BY CompressionAside DEF InHand
  <1>2. CASE Rests(t)
    BY <1>1, <1>2 DEF Rests, Anew, InHand, Copied, disk
  <1>3. CASE MakesCopy(t)
    BY <1>1, <1>3 DEF MakesCopy, SamePart, InHand, disk
  <1>4. CASE Proceeds(t) \/ GivesUp(t)
    BY <1>1, <1>4 DEF Proceeds, GivesUp, SamePart, InHand, disk
  <1>5. CASE \E q \in job[t].seen \cap gz : Drops(t, q)
    BY <1>1, <1>5 DEF Drops, SamePart, InHand
  <1>6. CASE Publishes(t)
    <2>1. job[t].part \in InHand(t)
      BY <1>6, AtWork DEF Publishes
    <2>2. InHand(t)' \subseteq InHand(t)
      BY <1>6 DEF Publishes, SamePart, InHand
    <2> QED  BY <1>1, <1>6, <2>1, <2>2 DEF Publishes
  <1>7. CASE Unlinks(t)
    <2>1. InHand(t)' = {}
      BY <1>7 DEF Unlinks, Anew, InHand, Copied
    <2> QED  BY <1>1, <1>7, <2>1 DEF Unlinks
  <1> QED  BY <1>2, <1>3, <1>4, <1>5, <1>6, <1>7, CompressionCases

LEMMA CompressionKnown ==
    ASSUME Shape, NEW t \in Threads, Compression(t)
    PROVE  /\ All' \subseteq All
           /\ \A p, q \in All' : Older(p, q)' <=> Older(p, q)
  <1>1. \A u \in Threads : InHand(u)' \subseteq InHand(u) \cup plain \cup gz
    BY CompressionHands
  <1>2. plain' \cup gz' \subseteq plain \cup gz \cup InHand(t)
    BY CompressionHands
  <1>3. All' \subseteq All
    BY <1>1, <1>2, InAll, InAllNext
  <1>4. CASE order' = order
    BY <1>3, <1>4 DEF Older
  <1>5. CASE order' = Left(plain' \cup gz')
    <2>1. CASE \A u \in Threads : InHand(u)' \subseteq InHand(u)
      <3>1. All' \subseteq Known(plain' \cup gz')
        BY <2>1, InAllNext DEF Known
      <3> QED  BY <1>3, <1>5, <3>1, InLeft DEF Older
    <2>2. CASE UNCHANGED disk
      BY <1>3, <2>2 DEF Older, disk
    <2> QED  BY <2>1, <2>2, CompressionHands
  <1> QED  BY <1>3, <1>4, <1>5, CompressionHands

LEMMA AloofKnown ==
    ASSUME Shape, Aloof
    PROVE  \/ /\ UNCHANGED <<plain, order, said>> /\ All' \subseteq All
           \/ \E x \in Parts :
                /\ Grows(x) /\ All' \subseteq All \cup {x}
                /\ \/ order' = order /\ plain' = plain
                   \/ /\ x \in plain'
                      /\ order' = (order \cap ((All \ {x}) \X (All \ {x}))) \cup ((All \ {x}) \X {x})
  <1>1. \A t \in Threads : InHand(t)' \subseteq InHand(t) \cup gz
    BY AloofHands
  <1>2. gz' = gz
    BY DEF Aloof
  <1>3. CASE UNCHANGED <<plain, order, said>>
    BY <1>1, <1>2, <1>3, InAll, InAllNext
  <1>4. ASSUME NEW x \in Parts, Grows(x)
        PROVE  /\ Grows(x) /\ All' \subseteq All \cup {x}
               /\ \/ order' = order /\ plain' = plain
                  \/ /\ x \in plain'
                     /\ order' = (order \cap ((All \ {x}) \X (All \ {x}))) \cup ((All \ {x}) \X {x})
    <2>1. plain' \subseteq plain \cup {x}
      BY <1>4 DEF Grows
    <2>2. All' \subseteq All \cup {x}
      BY <1>1, <1>2, <2>1, InAll, InAllNext
    <2>3. Touched(x) = (order \cap ((All \ {x}) \X (All \ {x}))) \cup ((All \ {x}) \X {x})
      BY DEF Touched, All
    <2> QED  BY <1>4, <2>2, <2>3 DEF Grows
  <1> QED  BY <1>3, <1>4 DEF Aloof

LEMMA OrderedStep ==
    ASSUME Shape, Shape', Ordered, [Next]_vars
    PROVE  Ordered'
  <1>1. StrictOn(order, All)
    BY DEF Ordered
  <1>2. CASE Aloof
    <2>1. CASE UNCHANGED <<plain, order, said>> /\ All' \subseteq All
      BY <1>1, <2>1, OrderKept DEF Ordered
    <2>2. ASSUME NEW x \in Parts, Grows(x), All' \subseteq All \cup {x},
                 order' = order, plain' = plain
          PROVE  Ordered'
      <3>1. All' \subseteq All
        BY <1>2, <2>2, AloofHands, InAll, InAllNext DEF Aloof
      <3> QED  BY <1>1, <2>2, <3>1, OrderKept DEF Ordered
    <2>3. ASSUME NEW x \in Parts, All' \subseteq All \cup {x},
                 order' = (order \cap ((All \ {x}) \X (All \ {x}))) \cup ((All \ {x}) \X {x})
          PROVE  Ordered'
      BY <1>1, <2>3, OrderTouched DEF Ordered
    <2> QED  BY <1>2, <2>1, <2>2, <2>3, AloofKnown
  <1>3. ASSUME NEW t \in Threads, Compression(t)
        PROVE  Ordered'
    <2>1. All' \in SUBSET All /\ \A p, q \in All' : <<p, q>> \in order' <=> <<p, q>> \in order
      BY <1>3, CompressionKnown DEF Older
    <2> QED  BY <1>1, <2>1, OrderKept DEF Ordered
  <1> QED  BY <1>2, <1>3, CompressionOrAloof

-----------------------------------------------------------------------------
(* Retention *)

LEMMA TwoSeen ==
    ASSUME NEW S, IsFiniteSet(S), NEW q \in S, Cardinality(S) > 1
    PROVE  \E z \in S : z # q
  <1> SUFFICES ASSUME \A z \in S : z = q
               PROVE  FALSE
    OBVIOUS
  <1>1. S = {q}
    OBVIOUS
  <1> QED  BY <1>1, FS_Singleton

\* A part that is older than one that is known is older than one that is there.
LEMMA NewerThere ==
    ASSUME Ordered, NewestStays, \A r \in Runs : ~Abandoned(r),
           NEW p \in All, NEW z \in All, Older(p, z)
    PROVE  \E y \in plain \cup gz : Older(p, y) /\ y # p
  <1>1. \A x \in All : ~Older(x, x)
    BY DEF Ordered, StrictOn, Older
  <1>2. CASE z \in plain \cup gz
    BY <1>1, <1>2
  <1>3. CASE Superseded(z)
    <2>1. PICK y \in plain \cup gz : Older(z, y)
      BY <1>3 DEF Superseded
    <2>2. y \in All
      BY InAll
    <2>3. Older(p, y)
      BY <2>1, <2>2 DEF Ordered, StrictOn, Older
    <2> QED  BY <1>1, <2>3
  <1>4. z \in plain \cup gz \/ Superseded(z)
    BY DEF NewestStays
  <1> QED  BY <1>2, <1>3, <1>4

\* A thread that prunes gives up no other part than its own before an older one.
LEMMA NewerThanDropped ==
    ASSUME Shape, Reserves, Ordered, Counted, NewestStays, \A r \in Runs : ~Abandoned(r),
           NEW t \in Threads, NEW q \in job[t].seen \cap gz, Drops(t, q),
           Copied(t) => job[t].part # q
    PROVE  \E y \in plain \cup gz : Older(q, y) /\ y # q
  <1>1. /\ OverLimit(job[t]) /\ ~OldestIsCandidate(job[t]) /\ job[t].step = "prune"
        /\ \A other \in job[t].seen \ {q} : Older(q, other)
    BY DEF Drops
  <1>2. job[t].seen \subseteq All /\ q \in All
    BY AtWork, InAll
  <1>3. CASE job[t].aim # "trim" /\ job[t].reserve = 1
    <2> DEFINE own == job[t].part
    <2>1. Copied(t) /\ own \in All /\ own # q
      BY <1>1, <1>3, AtWork, InAll DEF Copied
    <2>2. PICK newest \in job[t].seen : ~Older(own, newest)
      BY <1>1, <1>3 DEF OldestIsCandidate
    <2>3. own = newest \/ Older(newest, own)
      BY <1>2, <2>1, <2>2 DEF Ordered, StrictOn, Older
    <2>4. q = newest \/ Older(q, newest)
      BY <1>1
    <2>5. Older(q, own)
      <3> HIDE DEF own
      <3> QED  BY <1>2, <2>1, <2>3, <2>4 DEF Ordered, StrictOn, Older
    <2> QED  BY <1>2, <2>1, <2>5, NewerThere
  <1>4. CASE job[t].aim = "trim" \/ job[t].reserve = 0
    <2>1. job[t].reserve = 0
      BY <1>4 DEF Reserves, ReserveOf
    <2>2. Cardinality(job[t].seen) \in Nat /\ Limit \in Nat \ {0} /\ IsFiniteSet(job[t].seen)
      BY FS_CardinalityType, ArchiveAssumption DEF Counted
    <2>3. Cardinality(job[t].seen) > 1
      BY <1>1, <2>1, <2>2 DEF OverLimit
    <2>4. PICK z \in job[t].seen : z # q
      BY <2>2, <2>3, TwoSeen
    <2> QED  BY <1>1, <1>2, <2>4, NewerThere
  <1>5. job[t].reserve \in 0..1
    BY DEF Shape, Typed, Job
  <1> QED  BY <1>3, <1>4, <1>5

\* When a part goes, a newer one stays.
LEMMA NewerStays ==
    ASSUME Shape, Reserves, Ordered, Counted, SourceStays, NewestStays, \A r \in Runs : ~Abandoned(r),
           NEW t \in Threads, Compression(t), NEW p \in (plain \cup gz) \ (plain' \cup gz')
    PROVE  \E z \in plain' \cup gz' : Older(p, z)
  <1>1. p \in All
    BY InAll
  <1>2. CASE \E q \in job[t].seen \cap gz : Drops(t, q)
    <2>1. PICK q \in job[t].seen \cap gz : Drops(t, q)
      BY <1>2
    <2>2. q = p /\ p \notin plain /\ plain' \cup gz' = (plain \cup gz) \ {p}
      BY <2>1 DEF Drops
    <2>3. Copied(t) => job[t].part \in plain
      BY AtWork DEF SourceStays, Parts
    <2>4. \E y \in plain \cup gz : Older(q, y) /\ y # q
      BY <2>1, <2>2, <2>3, NewerThanDropped
    <2> QED  BY <2>2, <2>4
  <1>3. CASE Unlinks(t)
    <2>1. p = job[t].part /\ p \notin gz /\ plain' \cup gz' = (plain \cup gz) \ {p}
      BY <1>3 DEF Unlinks
    <2>2. Copied(t)
      BY <1>3, AtWork DEF Unlinks
    <2>3. Superseded(p)
      BY <1>3, <2>1, <2>2 DEF NewestStays, Unlinks
    <2>4. PICK z \in All : Older(p, z)
      BY <2>3, InAll DEF Superseded
    <2>5. \E y \in plain \cup gz : Older(p, y) /\ y # p
      BY <1>1, <2>4, NewerThere
    <2> QED  BY <2>1, <2>5
  <1>4. CASE ~Unlinks(t) /\ ~\E q \in job[t].seen \cap gz : Drops(t, q)
    BY <1>4, CompressionCases DEF Rests, MakesCopy, Proceeds, GivesUp, Publishes, disk
  <1> QED  BY <1>2, <1>3, <1>4

\* What a newer part stands for is not lost by a step.
LEMMA SupersededStays ==
    ASSUME Shape, Ordered, NEW t \in Threads, Compression(t),
           \A y \in (plain \cup gz) \ (plain' \cup gz') : \E z \in plain' \cup gz' : Older(y, z),
           NEW p \in All', p \in plain \cup gz \/ Superseded(p)
    PROVE  (p \in plain' \cup gz' \/ Superseded(p)') /\ (Superseded(p) => Superseded(p)')
  <1>1. All' \subseteq All /\ p \in All
    BY CompressionKnown
  <1>2. \A x, y, z \in All : Older(x, y) /\ Older(y, z) => Older(x, z)
    BY DEF Ordered, StrictOn, Older
  <1>3. plain' \cup gz' \subseteq All'
    BY InAllNext
  <1>4. \A z \in plain' \cup gz' : Older(p, z) => Superseded(p)'
    <2> TAKE z \in plain' \cup gz'
    <2> HAVE Older(p, z)
    <2>1. Older(p, z)'
      BY <1>3, CompressionKnown
    <2> QED  BY <2>1 DEF Superseded, Older
  <1>5. Superseded(p) => Superseded(p)'
    <2> SUFFICES ASSUME Superseded(p)
                 PROVE  Superseded(p)'
      OBVIOUS
    <2>1. PICK y \in plain \cup gz : Older(p, y)
      BY DEF Superseded
    <2>2. CASE y \in plain' \cup gz'
      BY <1>4, <2>1, <2>2
    <2>3. CASE y \notin plain' \cup gz'
      <3>1. PICK z \in plain' \cup gz' : Older(y, z)
        BY <2>3
      <3>2. y \in All /\ z \in All
        BY <1>1, <1>3, InAll
      <3>3. Older(p, z)
        BY <1>1, <1>2, <2>1, <3>1, <3>2
      <3> QED  BY <1>4, <3>3
    <2> QED  BY <2>2, <2>3
  <1>6. p \in (plain \cup gz) \ (plain' \cup gz') => Superseded(p)'
    BY <1>4
  <1> QED  BY <1>5, <1>6

LEMMA NewestStaysCompression ==
    ASSUME Shape, Shape', Reserves, Ordered, Counted, SourceStays, NewestStays, \A r \in Runs : ~Abandoned(r),
           NEW t \in Threads, Compression(t)
    PROVE  NewestStays'
  <1>1. \A y \in (plain \cup gz) \ (plain' \cup gz') : \E z \in plain' \cup gz' : Older(y, z)
    BY NewerStays
  <1>2. \A p \in All : p \in plain \cup gz \/ Superseded(p)
    BY DEF NewestStays
  <1>3. \A p \in All' : (p \in plain' \cup gz' \/ Superseded(p)') /\ (Superseded(p) => Superseded(p)')
    BY <1>1, <1>2, CompressionKnown, SupersededStays
  <1>4. ASSUME NEW u \in Threads, Copied(u)'
        PROVE  job'[u].part \in All'
    <2>1. job'[u].part \in InHand(u)'
      BY <1>4 DEF Copied, InHand
    <2> QED  BY <2>1, InAllNext
  <1>5. ASSUME NEW u \in Threads, Copied(u)'
        PROVE  /\ job'[u].reserve = 0 => Superseded(job'[u].part)
               /\ job'[u].step = "unlink" => job'[u].part \in gz' \/ Superseded(job'[u].part)
    <2>1. CASE u # t
      <3> DEFINE x == job[u].part
      <3>1. job'[u] = job[u] /\ Copied(u)
        BY <1>5, <2>1, CompressionAside DEF Copied
      <3>2. /\ job[u].reserve = 0 => Superseded(x)
            /\ job[u].step = "unlink" => x \in gz \/ Superseded(x)
        BY <3>1 DEF NewestStays
      <3>3. ASSUME x \in gz, x \notin gz'
            PROVE  Superseded(x)
        <4>1. PICK q \in job[t].seen \cap gz : Drops(t, q)
          BY <3>3, CompressionCases DEF Rests, MakesCopy, Proceeds, GivesUp, Publishes, Unlinks, disk
        <4>2. q = x
          BY <3>3, <4>1 DEF Drops
        <4>3. Copied(t) => job[t].part # x
          BY <2>1, <3>1, Apart, AtWork DEF Parts
        <4>4. \E y \in plain \cup gz : Older(x, y) /\ y # x
          <5> HIDE DEF x
          <5> QED  BY <4>1, <4>2, <4>3, NewerThanDropped
        <4> QED  BY <4>4 DEF Superseded
      <3> QED  BY <3>1, <3>2, <3>3
    <2>2. CASE u = t
      <3>1. ~Rests(t) /\ ~Unlinks(t)
        BY <1>5, <2>2 DEF Rests, Unlinks, Anew
      <3>2. CASE MakesCopy(t)
        <4>1. job[t].reserve = 1
          BY <3>2 DEF MakesCopy, Reserves, ReserveOf
        <4> QED  BY <2>2, <3>2, <4>1 DEF MakesCopy
      <3>3. CASE GivesUp(t)
        <4>1. /\ OverLimit(job[t]) /\ job[t].aim # "trim" /\ job[t].reserve = 1 /\ job[t].step = "prune"
              /\ \A q \in job[t].seen : Older(job[t].part, q)
          BY <3>3 DEF GivesUp, OldestIsCandidate
        <4>2. job[t].seen # {}
          <5>1. Limit \in Nat \ {0}
            BY ArchiveAssumption
          <5> QED  BY <4>1, <5>1, FS_EmptySet DEF OverLimit
        <4>3. PICK q \in job[t].seen : Older(job[t].part, q)
          BY <4>1, <4>2
        <4>4. job[t].part \in All /\ q \in All
          BY <4>1, AtWork, InAll DEF Copied
        <4>5. Superseded(job[t].part)
          BY <4>3, <4>4, NewerThere DEF Superseded
        <4> QED  BY <2>2, <3>3, <4>5 DEF GivesUp, SamePart
      <3>4. CASE Proceeds(t) \/ Publishes(t) \/ \E q \in job[t].seen \cap gz : Drops(t, q)
        <4>1. /\ job'[t].part = job[t].part /\ job'[t].aim = job[t].aim /\ job'[t].reserve = job[t].reserve
              /\ job[t].step \in {"measure", "prune", "publish"}
              /\ job'[t].step = "unlink" => Publishes(t)
          BY <3>4 DEF Proceeds, Publishes, Drops, SamePart
        <4>2. Copied(t)
          BY <1>5, <2>2, <4>1 DEF Copied
        <4>3. job[t].reserve = 0 => Superseded(job[t].part)
          BY <4>2 DEF NewestStays
        <4>4. job[t].reserve \in 0..1
          BY DEF Shape, Typed, Job
        <4>5. Publishes(t) => job[t].reserve = 0 \/ job[t].part \in gz'
          BY <4>4 DEF Publishes
        <4> QED  BY <2>2, <4>1, <4>3, <4>5
      <3> QED  BY <3>1, <3>2, <3>3, <3>4, CompressionCases
    <2> QED  BY <2>1, <2>2
  <1>6. ASSUME NEW u \in Threads, Copied(u)'
        PROVE  /\ job'[u].reserve = 0 => Superseded(job[u].part)'
               /\ job'[u].step = "unlink" => job'[u].part \in gz' \/ Superseded(job[u].part)'
    <2> DEFINE x == job'[u].part
    <2>1. x \in All'
      BY <1>4, <1>6
    <2>2. Superseded(x) => \E z \in plain' \cup gz' : <<x, z>> \in order'
      BY <1>3, <2>1 DEF Superseded, Older
    <2>3. Superseded(x) => Superseded(job[u].part)'
      BY <2>2 DEF Superseded, Older
    <2> QED  BY <1>5, <1>6, <2>3
  <1> QED  BY <1>3, <1>6 DEF NewestStays

LEMMA NewestStaysAloof ==
    ASSUME Shape, Ordered, NewestStays, \A r \in Runs : ~Abandoned(r), Aloof
    PROVE  NewestStays'
  <1>1. gz' = gz
    BY DEF Aloof
  <1>2. ASSUME NEW t \in Threads, Copied(t)'
        PROVE  job'[t] = job[t] /\ Copied(t) /\ job[t].part \in All'
    <2>1. job'[t] = job[t]
      BY <1>2 DEF Aloof, Anew
    <2>2. job[t].part \in InHand(t)'
      BY <1>2, <2>1 DEF Copied, InHand
    <2> QED  BY <1>2, <2>1, <2>2, InAllNext DEF Copied
  <1>3. CASE order' = order /\ plain' = plain
    <2>1. All' \subseteq All
      BY <1>1, <1>3, AloofHands, InAll, InAllNext
    <2>2. ASSUME NEW p
          PROVE  Superseded(p)' <=> Superseded(p)
      BY <1>1, <1>3 DEF Superseded, Older
    <2>3. \A t \in Threads : Copied(t)' =>
             /\ job'[t].reserve = 0 => Superseded(job[t].part)'
             /\ job'[t].step = "unlink" => job'[t].part \in gz' \/ Superseded(job[t].part)'
      BY <1>1, <1>2, <1>3 DEF NewestStays, Superseded, Older
    <2> QED  BY <1>1, <1>3, <2>1, <2>2, <2>3 DEF NewestStays
  <1>4. ASSUME NEW x \in Parts, Grows(x), All' \subseteq All \cup {x}, x \in plain',
               order' = (order \cap ((All \ {x}) \X (All \ {x}))) \cup ((All \ {x}) \X {x})
        PROVE  NewestStays'
    <2>1. \A p \in All' : p # x => <<p, x>> \in order'
      BY <1>4
    <2>2. \A p \in All' : p # x => Superseded(p)'
      BY <1>4, <2>1 DEF Superseded, Older
    <2>3. ASSUME NEW t \in Threads, Copied(t)'
          PROVE  Superseded(job[t].part)'
      <3>1. job'[t] = job[t] /\ job[t].part \in All' /\ job[t].part # x
        BY <1>2, <1>4, <2>3 DEF Grows, Parts
      <3>2. <<job'[t].part, x>> \in order'
        BY <2>1, <3>1
      <3> QED  BY <1>4, <3>2 DEF Superseded, Older
    <2> QED  BY <1>4, <2>2, <2>3 DEF NewestStays
  <1> QED  BY <1>3, <1>4, AloofKnown

-----------------------------------------------------------------------------
(* The reader misses nothing *)

\* A part that its writer has left behind gets no more lines, and one that is gone is gone.
LEMMA BehindStays ==
    ASSUME Shape, Shape', SourceStays, [Next]_vars, NEW p \in Parts, Opened(p),
           p[2] < writer[p[1]].seq, ~Abandoned(p[1])
    PROVE  said'[p] = said[p] /\ (p \in plain' \cup gz' => p \in plain \cup gz)
  <1>1. CASE Aloof
    BY <1>1 DEF Aloof, Grows, Sealed
  <1>2. ASSUME NEW t \in Threads, Compression(t)
        PROVE  said'[p] = said[p] /\ (p \in plain' \cup gz' => p \in plain \cup gz)
    <2>1. said' = said /\ plain' \subseteq plain /\ gz' \subseteq gz \cup {job[t].part}
          /\ (job[t].step # "publish" => gz' \subseteq gz)
      BY <1>2, CompressionStep
    <2>2. job[t].step = "publish" /\ job[t].part = p => p \in plain
      BY AtWork DEF SourceStays
    <2> QED  BY <2>1, <2>2
  <1> QED  BY <1>1, <1>2, CompressionOrAloof

LEMMA OpenedStays ==
    ASSUME Shape, Shape', [Next]_vars, NEW p \in Parts
    PROVE  /\ Opened(p) => Opened(p)'
           /\ said[p] \in Nat /\ said'[p] \in Nat /\ said[p] <= said'[p]
           /\ Abandoned(p[1]) => Abandoned(p[1])'
  <1>1. said[p] \in Nat /\ said'[p] \in Nat /\ p[1] \in Runs
    BY Blank DEF Shape, Typed, Parts
  <1>2. CASE Aloof
    BY <1>1, <1>2 DEF Aloof, Grows
  <1>3. ASSUME NEW t \in Threads, Compression(t)
        PROVE  said'[p] = said[p] /\ (Opened(p) => Opened(p)') /\ (Abandoned(p[1]) => Abandoned(p[1])')
    BY <1>1, <1>3, CompressionAside
  <1> QED  BY <1>1, <1>2, <1>3, CompressionOrAloof

LEMMA ReaderTyped ==
    ASSUME Shape
    PROVE  /\ tail.run \in Runs /\ tail.seq \in Nat /\ tail.at \in Nat /\ tail.line \in Nat /\ tail.pos \in Nat
           /\ tail.seq \in Seqs /\ tail.at \in Seqs
           /\ \A part \in tail.view : part \in Seqs \X BOOLEAN /\ part[1] \in Seqs /\ part[1] \in Nat
           /\ \A s \in Seqs : s \in Nat /\ <<tail.run, s>> \in Parts /\ said[<<tail.run, s>>] \in Nat
  <1>1. tail \in Reader /\ said \in [Parts -> 0..PartLines] /\ PartLines \in Nat /\ Seqs \subseteq Nat
    BY Blank DEF Shape, Typed
  <1>2. /\ tail.run \in Runs /\ tail.seq \in Seqs /\ tail.at \in Seqs
        /\ tail.line \in 0..PartLines /\ tail.pos \in 0..PartLines /\ tail.view \subseteq Seqs \X BOOLEAN
    BY <1>1 DEF Reader
  <1>3. tail.line \in Nat /\ tail.pos \in Nat
    BY <1>1, <1>2
  <1>4. \A part \in tail.view : part \in Seqs \X BOOLEAN /\ part[1] \in Seqs /\ part[1] \in Nat
    BY <1>1, <1>2
  <1>5. \A s \in Seqs : s \in Nat /\ <<tail.run, s>> \in Parts /\ said[<<tail.run, s>>] \in Nat
    BY <1>1, <1>2 DEF Parts
  <1> QED  BY <1>1, <1>2, <1>3, <1>4, <1>5

LEMMA ReaderAside ==
    ASSUME Shape, Shape', SourceStays, ReaderFits, [Next]_vars, tail' = tail
    PROVE  ReaderFits'
  <1> DEFINE R == tail.run
  <1>1. SUFFICES ASSUME ~Abandoned(R)'
                 PROVE  /\ tail.line <= said'[<<R, tail.seq>>]
                        /\ tail.step = "read" =>
                             /\ tail.seq <= tail.at
                             /\ \A part \in tail.view : tail.at <= part[1] /\ Opened(<<R, part[1]>>)'
                             /\ \A s \in Seqs, part \in tail.view :
                                  tail.at < s /\ s < part[1] /\ (\A other \in tail.view : other[1] # s) => Nothing(R, s)'
                             /\ \/ tail.at = tail.seq /\ tail.pos = tail.line /\ \E part \in tail.view : part[1] = tail.seq
                                \/ \A part \in tail.view : tail.at < part[1] /\ tail.pos = said'[<<R, tail.at>>]
    BY DEF ReaderFits, Nothing, Opened, Abandoned
  <1>2. R \in Runs /\ <<R, tail.seq>> \in Parts
    BY ReaderTyped
  <1>3. ~Abandoned(R)
    BY <1>1, <1>2, OpenedStays
  <1>4. /\ tail.line <= said[<<R, tail.seq>>]
        /\ tail.step = "read" =>
             /\ tail.seq <= tail.at
             /\ \A part \in tail.view : tail.at <= part[1] /\ Opened(<<R, part[1]>>)
             /\ \A s \in Seqs, part \in tail.view :
                  tail.at < s /\ s < part[1] /\ (\A other \in tail.view : other[1] # s) => Nothing(R, s)
             /\ \/ tail.at = tail.seq /\ tail.pos = tail.line /\ \E part \in tail.view : part[1] = tail.seq
                \/ \A part \in tail.view : tail.at < part[1] /\ tail.pos = said[<<R, tail.at>>]
    BY <1>3 DEF ReaderFits
  <1>5. tail.line <= said'[<<R, tail.seq>>]
    <2>1. /\ said[<<R, tail.seq>>] \in Nat /\ said'[<<R, tail.seq>>] \in Nat
          /\ said[<<R, tail.seq>>] <= said'[<<R, tail.seq>>]
      BY <1>2, OpenedStays
    <2> QED  BY <1>4, <2>1, ReaderTyped
  <1>6. ASSUME tail.step = "read", NEW part \in tail.view
        PROVE  Opened(<<R, part[1]>>)'
    <2>1. <<R, part[1]>> \in Parts
      BY ReaderTyped
    <2> QED  BY <1>4, <1>6, <2>1, OpenedStays
  <1>7. ASSUME tail.step = "read", NEW part \in tail.view, NEW s \in Seqs, s < part[1]
        PROVE  said'[<<R, s>>] = said[<<R, s>>] /\ (Nothing(R, s) => Nothing(R, s)')
    <2>1. <<R, s>> \in Parts /\ s \in Nat /\ part[1] \in Nat /\ writer[R].seq \in Nat
      BY <1>2, ReaderTyped, RunsTyped
    <2>2. writer[R].state # "none" /\ part[1] <= writer[R].seq
      BY <1>4, <1>7 DEF Opened
    <2>3. Opened(<<R, s>>) /\ s < writer[R].seq
      BY <1>7, <2>1, <2>2 DEF Opened
    <2>4. said'[<<R, s>>] = said[<<R, s>>] /\ (<<R, s>> \in plain' \cup gz' => <<R, s>> \in plain \cup gz)
      BY <1>3, <2>1, <2>3, BehindStays
    <2> QED  BY <2>4 DEF Nothing
  <1>8. tail.step = "read" =>
          \A s \in Seqs, part \in tail.view :
            tail.at < s /\ s < part[1] /\ (\A other \in tail.view : other[1] # s) => Nothing(R, s)'
    BY <1>4, <1>7
  <1>9. tail.step = "read" =>
          \/ tail.at = tail.seq /\ tail.pos = tail.line /\ \E part \in tail.view : part[1] = tail.seq
          \/ \A part \in tail.view : tail.at < part[1] /\ tail.pos = said'[<<R, tail.at>>]
    BY <1>4, <1>7, ReaderTyped
  <1> QED  BY <1>4, <1>5, <1>6, <1>8, <1>9

\* What a reader finds in a part that is there is all that was said in it.
LEMMA LinesThere ==
    ASSUME Shape, ArchivesFit, NEW part \in tail.view, There(part), ~Abandoned(tail.run)
    PROVE  Lines(part) = said[<<tail.run, part[1]>>]
  <1>1. <<tail.run, part[1]>> \in gz => kept[<<tail.run, part[1]>>] = said[<<tail.run, part[1]>>]
    BY DEF ArchivesFit
  <1> QED  BY <1>1 DEF Lines, There

\* Where a reader has come to when it has read a part to its end.
LEMMA ReadToEnd ==
    ASSUME Shape, ArchivesFit, ReaderFits, tail.step = "read", ~Abandoned(tail.run),
           NEW part \in tail.view, There(part),
           \A other \in tail.view \ {part} : part[1] < other[1],
           NEW n, n = Lines(part),
           NEW start, start = (IF part[1] # tail.seq THEN 0 ELSE IF tail.line < n THEN tail.line ELSE n),
           NEW at, NEW pos, <<at, pos>> = IF n > start THEN <<part[1], n>> ELSE <<tail.at, tail.pos>>
    PROVE  /\ at \in Seqs /\ pos = said[<<tail.run, at>>] /\ tail.at <= at /\ at <= part[1]
           /\ at < part[1] => said[<<tail.run, part[1]>>] = 0
           /\ at > tail.at => tail.pos = said[<<tail.run, tail.at>>] /\ at = part[1]
  <1> DEFINE R == tail.run
             k == part[1]
  <1>1. /\ n = said[<<R, k>>] /\ n \in Nat /\ k \in Nat /\ k \in Seqs
    BY LinesThere, ReaderTyped
  <1>2. /\ tail.line \in Nat /\ tail.seq \in Nat /\ tail.at \in Nat /\ tail.pos \in Nat /\ tail.at \in Seqs
        /\ tail.line <= said[<<R, tail.seq>>] /\ tail.seq <= tail.at /\ tail.at <= k
        /\ \A other \in tail.view : other[1] \in Nat
    BY ReaderTyped DEF ReaderFits
  <1>3. \/ tail.at = tail.seq /\ tail.pos = tail.line /\ \E other \in tail.view : other[1] = tail.seq
        \/ tail.at < k /\ tail.pos = said[<<R, tail.at>>]
    BY DEF ReaderFits
  <1>4. \A other \in tail.view : k <= other[1]
    <2> TAKE other \in tail.view
    <2>1. CASE other = part
      BY <1>1, <2>1
    <2>2. CASE other # part
      BY <1>1, <1>2, <2>2
    <2> QED  BY <2>1, <2>2
  <1>5. CASE k = tail.seq
    <2>1. tail.at = k /\ tail.pos = tail.line /\ tail.line <= n
      BY <1>1, <1>2, <1>3, <1>5
    <2>2. CASE n > start
      BY <1>1, <1>2, <2>1, <2>2
    <2>3. CASE ~(n > start)
      <3>1. tail.line = n
        BY <1>1, <1>2, <1>5, <2>1, <2>3
      <3> QED  BY <1>1, <1>2, <2>1, <2>3, <3>1
    <2> QED  BY <2>2, <2>3
  <1>6. CASE k # tail.seq
    <2>1. start = 0 /\ tail.at < k /\ tail.pos = said[<<R, tail.at>>]
      BY <1>1, <1>2, <1>3, <1>4, <1>6
    <2>2. CASE n > 0
      BY <1>1, <1>2, <2>1, <2>2
    <2>3. CASE ~(n > 0)
      BY <1>1, <1>2, <2>1, <2>3
    <2> QED  BY <2>2, <2>3
  <1> QED  BY <1>5, <1>6

LEMMA SameFiles ==
    ASSUME Shape, Reading
    PROVE  /\ plain' = plain /\ gz' = gz /\ said' = said /\ writer' = writer /\ role' = role
  BY ReadingStep DEF disk

\* A cursor is at a line that was said.
LEMMA CursorFits ==
    ASSUME Shape, Reading, NEW s \in Seqs, NEW n \in 0..PartLines, tail' = Cursor(s, n),
           ~Abandoned(tail.run) => n <= said[<<tail.run, s>>]
    PROVE  ReaderFits'
  <1>1. /\ tail'.step = "idle" /\ tail'.run = tail.run /\ tail'.seq = s /\ tail'.line = n
        /\ tail'.at = s /\ tail'.pos = n
    BY CursorTyped
  <1>2. said' = said /\ role' = role
    BY SameFiles
  <1> QED  BY <1>1, <1>2 DEF ReaderFits, Abandoned

\* How TailReads goes on with the part it reads.
LEMMA ReadsOne ==
    ASSUME Shape, TailReads
    PROVE  \E part \in tail.view, start \in Nat, last \in Nat \X Nat :
              /\ start = (IF part[1] # tail.seq THEN 0 ELSE IF tail.line < Lines(part) THEN tail.line ELSE Lines(part))
              /\ last = IF Lines(part) > start THEN <<part[1], Lines(part)>> ELSE <<tail.at, tail.pos>>
              /\ \A other \in tail.view \ {part} : part[1] < other[1]
              /\ \/ tail' = Cursor(tail.seq, tail.line)
                 \/ There(part) /\ \E end \in start..(Lines(part) - 1) : tail' = Cursor(part[1], end)
                 \/ There(part) /\ tail' = Cursor(last[1], last[2])
                 \/ /\ There(part)
                    /\ tail' = [tail EXCEPT !.at = last[1], !.pos = last[2], !.view = tail.view \ {part}]
  <1> DEFINE start(part) == IF part[1] # tail.seq THEN 0 ELSE IF tail.line < Lines(part) THEN tail.line ELSE Lines(part)
             last(part) == IF Lines(part) > start(part) THEN <<part[1], Lines(part)>> ELSE <<tail.at, tail.pos>>
  <1>1. PICK part \in tail.view :
           /\ \A other \in tail.view \ {part} : part[1] < other[1]
           /\ \/ tail' = Cursor(tail.seq, tail.line)
              \/ There(part) /\ \E end \in start(part)..(Lines(part) - 1) : tail' = Cursor(part[1], end)
              \/ There(part) /\ tail' = Cursor(last(part)[1], last(part)[2])
              \/ /\ There(part)
                 /\ tail' = [tail EXCEPT !.at = last(part)[1], !.pos = last(part)[2], !.view = tail.view \ {part}]
    BY DEF TailReads, Reads
  <1>2. start(part) \in Nat /\ last(part) \in Nat \X Nat
    <2>1. Lines(part) \in 0..PartLines /\ PartLines \in Nat
      BY PartsRead, ReaderTyped, Blank
    <2>2. Lines(part) \in Nat
      BY <2>1
    <2> QED  BY <2>2, ReaderTyped
  <1>3. /\ start(part) = (IF part[1] # tail.seq THEN 0 ELSE IF tail.line < Lines(part) THEN tail.line ELSE Lines(part))
        /\ last(part) = IF Lines(part) > start(part) THEN <<part[1], Lines(part)>> ELSE <<tail.at, tail.pos>>
    OBVIOUS
  <1> HIDE DEF start, last
  <1> QED  BY <1>1, <1>2, <1>3

LEMMA LastRead ==
    ASSUME Shape, ArchivesFit, ReaderFits, tail.step = "read", ~Abandoned(tail.run),
           NEW part \in tail.view, There(part),
           \A other \in tail.view \ {part} : part[1] < other[1],
           NEW start \in Nat,
           start = (IF part[1] # tail.seq THEN 0 ELSE IF tail.line < Lines(part) THEN tail.line ELSE Lines(part)),
           NEW last, last = IF Lines(part) > start THEN <<part[1], Lines(part)>> ELSE <<tail.at, tail.pos>>
    PROVE  /\ last[1] \in Seqs /\ last[2] = said[<<tail.run, last[1]>>] /\ tail.at <= last[1] /\ last[1] <= part[1]
           /\ last[1] < part[1] => said[<<tail.run, part[1]>>] = 0
           /\ last[1] > tail.at => tail.pos = said[<<tail.run, tail.at>>] /\ last[1] = part[1]
  <1> DEFINE n == Lines(part)
             at == IF n > start THEN part[1] ELSE tail.at
             pos == IF n > start THEN n ELSE tail.pos
  <1>1. <<at, pos>> = (IF n > start THEN <<part[1], n>> ELSE <<tail.at, tail.pos>>) /\ last[1] = at /\ last[2] = pos
        /\ n = Lines(part)
        /\ start = (IF part[1] # tail.seq THEN 0 ELSE IF tail.line < n THEN tail.line ELSE n)
    OBVIOUS
  <1> HIDE DEF n, at, pos
  <1> QED  BY <1>1, ReadToEnd

LEMMA ReadsFits ==
    ASSUME Shape, ArchivesFit, ReaderFits, TailReads
    PROVE  ReaderFits'
  <1> DEFINE R == tail.run
  <1>1. tail.step = "read" /\ Reading
    BY DEF TailReads, Reading
  <1>2. PICK part \in tail.view, start \in Nat, last \in Nat \X Nat :
              /\ start = (IF part[1] # tail.seq THEN 0 ELSE IF tail.line < Lines(part) THEN tail.line ELSE Lines(part))
              /\ last = IF Lines(part) > start THEN <<part[1], Lines(part)>> ELSE <<tail.at, tail.pos>>
              /\ \A other \in tail.view \ {part} : part[1] < other[1]
              /\ \/ tail' = Cursor(tail.seq, tail.line)
                 \/ There(part) /\ \E end \in start..(Lines(part) - 1) : tail' = Cursor(part[1], end)
                 \/ There(part) /\ tail' = Cursor(last[1], last[2])
                 \/ /\ There(part)
                    /\ tail' = [tail EXCEPT !.at = last[1], !.pos = last[2], !.view = tail.view \ {part}]
    BY ReadsOne
  <1>3. /\ Lines(part) \in 0..PartLines /\ Lines(part) \in Nat /\ part[1] \in Seqs /\ part[1] \in Nat
        /\ tail \in Reader /\ tail.seq \in Seqs /\ tail.line \in 0..PartLines /\ tail.at \in Seqs /\ tail.pos \in 0..PartLines
        /\ PartLines \in Nat
    <2>1. tail \in Reader /\ PartLines \in Nat
      BY Blank DEF Shape, Typed
    <2>2. tail.seq \in Seqs /\ tail.line \in 0..PartLines /\ tail.at \in Seqs /\ tail.pos \in 0..PartLines
      BY <2>1 DEF Reader
    <2>3. part \in Seqs \X BOOLEAN /\ part[1] \in Nat
      BY ReaderTyped
    <2>4. Lines(part) \in 0..PartLines /\ part[1] \in Seqs
      BY <2>3, PartsRead
    <2> QED  BY <2>1, <2>2, <2>3, <2>4
  <1>4. last[1] \in Seqs /\ last[2] \in 0..PartLines
    BY <1>2, <1>3
  <1>5. There(part) /\ ~Abandoned(R) =>
           /\ last[2] = said[<<R, last[1]>>] /\ tail.at <= last[1] /\ last[1] <= part[1]
           /\ last[1] < part[1] => said[<<R, part[1]>>] = 0
           /\ Lines(part) = said[<<R, part[1]>>]
    BY <1>1, <1>2, LastRead, LinesThere
  <1>6. CASE tail' = Cursor(tail.seq, tail.line)
    BY <1>1, <1>3, <1>6, CursorFits DEF ReaderFits
  <1>7. ASSUME There(part), NEW end \in start..(Lines(part) - 1), tail' = Cursor(part[1], end)
        PROVE  ReaderFits'
    <2>1. end \in 0..PartLines /\ end <= Lines(part)
      BY <1>3
    <2> QED  BY <1>1, <1>3, <1>5, <1>7, <2>1, CursorFits
  <1>8. CASE There(part) /\ tail' = Cursor(last[1], last[2])
    <2>1. ~Abandoned(R) => last[2] <= said[<<R, last[1]>>]
      BY <1>4, <1>5, <1>8
    <2> QED  BY <1>1, <1>4, <1>8, <2>1, CursorFits
  <1>9. CASE There(part) /\ tail' = [tail EXCEPT !.at = last[1], !.pos = last[2], !.view = tail.view \ {part}]
    <2>1. /\ tail'.step = "read" /\ tail'.run = R /\ tail'.seq = tail.seq /\ tail'.line = tail.line
          /\ tail'.at = last[1] /\ tail'.pos = last[2] /\ tail'.view = tail.view \ {part}
      BY <1>1, <1>3, <1>9 DEF Reader
    <2>2. plain' = plain /\ gz' = gz /\ said' = said /\ writer' = writer /\ role' = role
      BY <1>1, SameFiles
    <2>3. SUFFICES ASSUME ~Abandoned(R)
                   PROVE  /\ tail.line <= said[<<R, tail.seq>>]
                          /\ tail.seq <= last[1]
                          /\ \A other \in tail.view \ {part} : last[1] < other[1] /\ Opened(<<R, other[1]>>)
                          /\ \A s \in Seqs, other \in tail.view \ {part} :
                               last[1] < s /\ s < other[1] /\ (\A q \in tail.view \ {part} : q[1] # s) => Nothing(R, s)
                          /\ last[2] = said[<<R, last[1]>>]
      <3> SUFFICES ASSUME ~Abandoned(R)'
                   PROVE  /\ tail'.line <= said'[<<R, tail'.seq>>]
                          /\ tail'.seq <= tail'.at
                          /\ \A other \in tail'.view : tail'.at < other[1] /\ Opened(<<R, other[1]>>)'
                          /\ \A other \in tail'.view : tail'.at <= other[1]
                          /\ \A s \in Seqs, other \in tail'.view :
                               tail'.at < s /\ s < other[1] /\ (\A q \in tail'.view : q[1] # s) => Nothing(R, s)'
                          /\ tail'.pos = said'[<<R, tail'.at>>]
        BY <2>1 DEF ReaderFits, Nothing, Opened, Abandoned
      <3>1. ~Abandoned(R)
        BY <2>1, <2>2 DEF Abandoned
      <3>2. \A other \in tail.view \ {part} : last[1] < other[1] => last[1] <= other[1]
        BY <1>4, ReaderTyped
      <3> QED  BY <2>1, <2>2, <2>3, <3>1, <3>2 DEF Opened, Nothing
    <2>4. /\ tail.line <= said[<<R, tail.seq>>] /\ tail.seq <= tail.at
          /\ \A other \in tail.view : tail.at <= other[1] /\ Opened(<<R, other[1]>>)
          /\ \A s \in Seqs, other \in tail.view :
               tail.at < s /\ s < other[1] /\ (\A q \in tail.view : q[1] # s) => Nothing(R, s)
      BY <1>1, <2>3 DEF ReaderFits
    <2>5. /\ last[2] = said[<<R, last[1]>>] /\ tail.at <= last[1] /\ last[1] <= part[1]
          /\ last[1] < part[1] => said[<<R, part[1]>>] = 0
      BY <1>5, <1>9, <2>3
    <2>6. last[1] \in Nat /\ tail.at \in Nat /\ tail.seq \in Nat /\ part[1] \in Nat
          /\ (\A other \in tail.view : other[1] \in Nat) /\ \A s \in Seqs : s \in Nat
      BY <1>4, ReaderTyped
    <2>7. tail.seq <= last[1] /\ \A other \in tail.view \ {part} : last[1] < other[1]
      BY <1>2, <2>4, <2>5, <2>6
    <2>8. ASSUME NEW s \in Seqs, NEW other \in tail.view \ {part}, last[1] < s, s < other[1],
                 \A q \in tail.view \ {part} : q[1] # s
          PROVE  Nothing(R, s)
      <3>1. CASE s = part[1]
        BY <2>5, <2>8, <3>1 DEF Nothing
      <3>2. CASE s # part[1]
        <4>1. \A q \in tail.view : q[1] # s
          BY <2>8, <3>2
        <4>2. tail.at < s
          BY <2>5, <2>6, <2>8
        <4> QED  BY <2>4, <2>8, <4>1, <4>2
      <3> QED  BY <3>1, <3>2
    <2> QED  BY <2>4, <2>5, <2>7, <2>8
  <1> QED  BY <1>2, <1>6, <1>7, <1>8, <1>9

LEMMA OpensFits ==
    ASSUME Shape, ReaderFits, NEW r \in Followed, TailOpens(r)
    PROVE  ReaderFits'
  <1> DEFINE newest == {part \in Listing(r) : \A other \in Listing(r) : other[1] <= part[1]}
  <1>1. /\ tail.step = "off"
        /\ \/ tail' = [Cursor(0, 0) EXCEPT !.run = r]
           \/ tail' = [tail EXCEPT !.step = "first", !.run = r, !.view = newest]
    BY DEF TailOpens, Reads
  <1> HIDE DEF newest
  <1>2. Reading /\ r \in Runs
    BY ArchiveAssumption DEF Reading
  <1>3. tail \in Reader /\ tail.line = 0 /\ tail.seq \in Seqs /\ 0 \in Seqs
    BY <1>1, Blank DEF ReaderFits, Shape, Typed, Reader
  <1>4. \A s \in Seqs : 0 <= said'[<<r, s>>]
    <2>1. said \in [Parts -> 0..PartLines] /\ said' = said
      BY <1>2, SameFiles DEF Shape, Typed
    <2>2. \A s \in Seqs : <<r, s>> \in Parts
      BY <1>2 DEF Parts
    <2>3. \A s \in Seqs : said[<<r, s>>] \in 0..PartLines
      BY <2>1, <2>2
    <2> QED  BY <2>1, <2>3, Blank
  <1>5. CASE tail' = [Cursor(0, 0) EXCEPT !.run = r]
    <2>1. /\ tail'.step = "idle" /\ tail'.run = r /\ tail'.seq = 0 /\ tail'.line = 0
          /\ tail'.at = 0 /\ tail'.pos = 0
      BY <1>3, <1>5 DEF Cursor, Reader
    <2> QED  BY <1>3, <1>4, <2>1 DEF ReaderFits
  <1>6. CASE tail' = [tail EXCEPT !.step = "first", !.run = r, !.view = newest]
    <2>1. tail'.step = "first" /\ tail'.run = r /\ tail'.seq = tail.seq /\ tail'.line = 0
      BY <1>3, <1>6 DEF Reader
    <2> QED  BY <1>3, <1>4, <2>1 DEF ReaderFits
  <1> QED  BY <1>1, <1>5, <1>6

LEMMA OffFits ==
    ASSUME Shape', tail' = NoTail
    PROVE  ReaderFits'
  <1>1. tail'.step = "off" /\ tail'.line = 0 /\ tail'.seq = 0 /\ tail'.run = SomeRun
    BY DEF NoTail
  <1>2. 0 <= said'[<<SomeRun, 0>>]
    <2>1. said'[<<SomeRun, 0>>] \in 0..PartLines
      BY Blank DEF Shape, Typed
    <2> QED  BY <2>1, Blank
  <1> QED  BY <1>1, <1>2 DEF ReaderFits

LEMMA FirstFits ==
    ASSUME Shape, Shape', ArchivesFit, TailFirst
    PROVE  ReaderFits'
  <1>1. PICK part \in tail.view : tail' = IF There(part) THEN Cursor(part[1], Lines(part)) ELSE NoTail
    BY DEF TailFirst, Reads
  <1>2. CASE There(part)
    <2>1. Reading /\ part[1] \in Seqs /\ Lines(part) \in 0..PartLines
      BY ReaderTyped, PartsRead DEF Reading
    <2>2. ~Abandoned(tail.run) => Lines(part) <= said[<<tail.run, part[1]>>]
      BY <1>2, <2>1, LinesThere, ReaderTyped
    <2> QED  BY <1>1, <1>2, <2>1, <2>2, CursorFits
  <1>3. CASE ~There(part)
    BY <1>1, <1>3, OffFits
  <1> QED  BY <1>2, <1>3

LEMMA PollsFits ==
    ASSUME Shape, Shape', ReaderFits, TailPolls
    PROVE  ReaderFits'
  <1> DEFINE R == tail.run
             listed == Listing(R)
             ahead == {part \in listed : part[1] >= tail.seq}
  <1>1. /\ tail.step = "idle" /\ Reading
        /\ tail' = IF listed = {} THEN Cursor(0, 0)
                   ELSE IF \A part \in listed : part[1] # tail.seq THEN NoTail
                   ELSE [tail EXCEPT !.step = "read", !.view = ahead]
    BY DEF TailPolls, Reads, Reading
  <1>2. CASE listed = {}
    <2>1. 0 <= said[<<R, 0>>] /\ 0 \in Seqs /\ 0 \in 0..PartLines
      BY ReaderTyped, Blank
    <2> QED  BY <1>1, <1>2, <2>1, CursorFits
  <1>3. CASE listed # {} /\ \A part \in listed : part[1] # tail.seq
    BY <1>1, <1>3, OffFits
  <1>4. CASE listed # {} /\ ~\A part \in listed : part[1] # tail.seq
    <2>1. /\ \A part \in ahead : part[1] \in Seqs /\ part[1] >= tail.seq /\ <<R, part[1]>> \in plain \cup gz
          /\ \A s \in Seqs : s >= tail.seq /\ <<R, s>> \in plain \cup gz => \E part \in ahead : part[1] = s
      <3>1. ASSUME NEW part \in listed
            PROVE  part[1] \in Seqs /\ <<R, part[1]>> \in plain \cup gz
        <4>1. PICK s \in Seqs : part = <<s, <<R, s>> \in gz>> /\ <<R, s>> \in plain \cup gz
          BY <3>1 DEF Listing
        <4> QED  BY <4>1
      <3>2. ASSUME NEW s \in Seqs, s >= tail.seq, <<R, s>> \in plain \cup gz
            PROVE  \E part \in ahead : part[1] = s
        <4> DEFINE part == <<s, <<R, s>> \in gz>>
        <4>1. part \in listed /\ part[1] = s
          BY <3>2 DEF Listing
        <4> QED  BY <3>2, <4>1
      <3> QED  BY <3>1, <3>2
    <2>2. \E part \in ahead : part[1] = tail.seq
      BY <1>4, ReaderTyped
    <2> HIDE DEF ahead
    <2>3. tail \in Reader
      BY DEF Shape, Typed
    <2>4. /\ tail'.step = "read" /\ tail'.run = R /\ tail'.seq = tail.seq /\ tail'.line = tail.line
          /\ tail'.at = tail.seq /\ tail'.pos = tail.line /\ tail'.view = ahead
      BY <1>1, <1>4, <2>3 DEF Reader, ReaderFits
    <2>5. plain' = plain /\ gz' = gz /\ said' = said /\ writer' = writer /\ role' = role
      BY <1>1, SameFiles
    <2>6. \A part \in ahead : tail.seq <= part[1] /\ Opened(<<R, part[1]>>)
      BY <2>1, ReaderTyped DEF Shape, PartsFit
    <2>7. \A s \in Seqs : tail.seq < s /\ (\A other \in ahead : other[1] # s) => <<R, s>> \notin plain \cup gz
      BY <2>1, ReaderTyped
    <2>8. ASSUME ~Abandoned(R)'
          PROVE  /\ tail'.line <= said'[<<R, tail'.seq>>]
                 /\ tail'.seq <= tail'.at
                 /\ \A other \in tail'.view : tail'.at <= other[1] /\ Opened(<<R, other[1]>>)'
                 /\ \A s \in Seqs, other \in tail'.view :
                      tail'.at < s /\ s < other[1] /\ (\A q \in tail'.view : q[1] # s) => Nothing(R, s)'
                 /\ tail'.at = tail'.seq /\ tail'.pos = tail'.line /\ \E other \in tail'.view : other[1] = tail'.seq
      <3>1. ~Abandoned(R) /\ tail.line <= said[<<R, tail.seq>>]
        BY <2>4, <2>5, <2>8 DEF Abandoned, ReaderFits
      <3>2. tail.seq <= tail.seq
        BY ReaderTyped
      <3> QED  BY <2>2, <2>4, <2>5, <2>6, <2>7, <3>1, <3>2 DEF Opened, Nothing
    <2> QED  BY <2>4, <2>8 DEF ReaderFits, Nothing, Opened, Abandoned
  <1> QED  BY <1>2, <1>3, <1>4

LEMMA ReaderFitsStep ==
    ASSUME Shape, Shape', SourceStays, ArchivesFit, ReaderFits, [Next]_vars
    PROVE  ReaderFits'
  <1>1. CASE tail' = tail
    BY <1>1, ReaderAside
  <1>2. CASE Reading
    BY <1>2, OpensFits, FirstFits, PollsFits, ReadsFits DEF Reading
  <1> QED  BY <1>1, <1>2, CompressionOrAloof

-----------------------------------------------------------------------------
LogInv ==
    /\ Shape /\ Reserves /\ Ordered /\ Counted
    /\ SourceStays /\ ArchivesFit /\ NewestStays /\ ReaderFits

LEMMA InitInv ==
    ASSUME Init
    PROVE  LogInv
  <1>1. Shape
    BY InitShape
  <1>2. /\ plain = {} /\ gz = {} /\ \A t \in Threads : job[t] = NoJob
        /\ tail = NoTail
    BY DEF Init
  <1>3. \A t \in Threads : ~Copied(t) /\ job[t].seen = {} /\ job[t].reserve = 1
                           /\ job[t].aim = "sweep" /\ job[t].step = "idle"
    BY <1>1, <1>2, Blank, FreshJob DEF Copied
  <1>4. All = {}
    BY <1>2, <1>3, InAll DEF InHand, Copied
  <1>5. Reserves /\ Ordered /\ SourceStays /\ ArchivesFit /\ NewestStays
    BY <1>2, <1>3, <1>4 DEF Reserves, ReserveOf, Ordered, StrictOn, SourceStays, ArchivesFit, NewestStays
  <1>6. Counted
    BY <1>2, <1>3, FS_EmptySet DEF Counted
  <1>7. ReaderFits
    <2>1. 0 <= said[<<tail.run, 0>>]
      BY <1>1, ReaderTyped, Blank
    <2> QED  BY <1>2, <2>1, Blank DEF ReaderFits
  <1> QED  BY <1>1, <1>5, <1>6, <1>7 DEF LogInv

LEMMA InvStep ==
    ASSUME LogInv, [Next]_vars
    PROVE  LogInv'
  <1>1. Shape /\ Shape'
    BY ShapeStep DEF LogInv
  <1>2. Reserves' /\ Ordered' /\ Counted' /\ SourceStays' /\ ArchivesFit' /\ ReaderFits'
    BY <1>1, ReservesStep, OrderedStep, CountedStep, SourceStaysStep, ArchivesFitStep, ReaderFitsStep DEF LogInv
  <1>3. NewestStays'
    <2>1. CASE ~\A r \in Runs : ~Abandoned(r)
      <3>1. ~\A r \in Runs : role'[r] # "abandoned"
        <4>1. PICK r \in Runs : Abandoned(r)
          BY <2>1
        <4> DEFINE p == <<r, 0>>
        <4>2. p \in Parts /\ p[1] = r
          BY Blank DEF Parts
        <4> HIDE DEF p
        <4>3. Abandoned(p[1]) => Abandoned(p[1])'
          BY <1>1, <4>2, OpenedStays
        <4>4. Abandoned(r)'
          BY <4>1, <4>2, <4>3 DEF Abandoned
        <4> QED  BY <4>4 DEF Abandoned
      <3> QED  BY <3>1 DEF NewestStays, Abandoned
    <2>2. CASE \A r \in Runs : ~Abandoned(r)
      BY <1>1, <2>2, NewestStaysCompression, NewestStaysAloof, CompressionOrAloof DEF LogInv
    <2> QED  BY <2>1, <2>2
  <1> QED  BY <1>1, <1>2, <1>3 DEF LogInv

(***************************************************************************)
(* The inductive invariant from which the others follow: what each thread  *)
(* may be at, that a source stays until its copy is published, that the    *)
(* newest part stays, and where a reader is.                               *)
(***************************************************************************)
THEOREM ArchiveInvariant == Spec => []LogInv
  <1>1. Init => LogInv
    BY InitInv
  <1>2. LogInv /\ [Next]_vars => LogInv'
    BY InvStep
  <1> QED  BY <1>1, <1>2, PTL DEF Spec

(***************************************************************************)
(* The types of the state, and that any two parts there are known in the   *)
(* order in which they were last written to.                               *)
(***************************************************************************)
THEOREM ArchiveTypeCorrect == Spec => []TypeOK
  <1>1. LogInv => TypeOK
    BY InAll DEF LogInv, Shape, Typed, Ordered, StrictOn, Older, TypeOK
  <1> QED  BY <1>1, ArchiveInvariant, PTL

(***************************************************************************)
(* While a run is active its writer writes to a file that is there: no     *)
(* sweep takes the part that a writer has open.                            *)
(***************************************************************************)
THEOREM OpenPartsStay == Spec => []ActivePartIsLeftAlone
  <1>1. LogInv => ActivePartIsLeftAlone
    BY DEF LogInv, Shape
  <1> QED  BY <1>1, ArchiveInvariant, PTL

(***************************************************************************)
(* A part disappears, when no run has been abandoned, only while a newer   *)
(* part of the account is kept, whichever threads prune and publish at a   *)
(* time and wherever they fail or die.                                     *)
(***************************************************************************)
THEOREM OldestGoFirst == Spec => OnlyOlderPartsGo
  <1>1. ASSUME LogInv, [Next]_vars, \A r \in Runs : ~Abandoned(r)
        PROVE  \A p \in (plain \cup gz) \ (plain' \cup gz') : \E q \in plain' \cup gz' : Older(p, q)
    <2>1. Shape /\ Shape'
      BY <1>1, InvStep DEF LogInv
    <2>2. CASE Aloof
      BY <2>2 DEF Aloof, Grows
    <2>3. CASE \E t \in Threads : Compression(t)
      BY <1>1, <2>3, NewerStays DEF LogInv
    <2> QED  BY <1>1, <2>1, <2>2, <2>3, CompressionOrAloof
  <1>2. LogInv /\ [Next]_vars =>
           [(\A r \in Runs : ~Abandoned(r)) =>
              \A p \in (plain \cup gz) \ (plain' \cup gz') :
                 \E q \in plain' \cup gz' : Older(p, q)]_vars
    BY <1>1
  <1> QED  BY <1>2, ArchiveInvariant, PTL DEF Spec, OnlyOlderPartsGo

(***************************************************************************)
(* A reader of a run that has not been abandoned leaves a part only after  *)
(* its last line and passes over no line of another, while parts rotate,   *)
(* are compressed and pruned, and requests fail.                           *)
(***************************************************************************)
THEOREM TailIsComplete == Spec => TailMissesNothing
  <1>1. ASSUME LogInv, [Next]_vars, tail.step = "read", tail'.at > tail.at, ~Abandoned(tail.run)
        PROVE  /\ tail.pos = said[<<tail.run, tail.at>>]
               /\ \A s \in Seqs : tail.at < s /\ s < tail'.at =>
                    <<tail.run, s>> \notin plain \cup gz \/ said[<<tail.run, s>>] = 0
    <2>1. Shape /\ Shape' /\ ArchivesFit /\ ReaderFits
      BY <1>1, InvStep DEF LogInv
    <2>2. TailReads
      <3>1. tail.at \in Nat
        BY <2>1, ReaderTyped
      <3>2. tail' # tail
        BY <1>1, <3>1
      <3> QED  BY <1>1, <2>1, <3>2, CompressionOrAloof DEF Reading, TailOpens, TailFirst, TailPolls
    <2>3. PICK part \in tail.view, start \in Nat, last \in Nat \X Nat :
              /\ start = (IF part[1] # tail.seq THEN 0 ELSE IF tail.line < Lines(part) THEN tail.line ELSE Lines(part))
              /\ last = IF Lines(part) > start THEN <<part[1], Lines(part)>> ELSE <<tail.at, tail.pos>>
              /\ \A other \in tail.view \ {part} : part[1] < other[1]
              /\ \/ tail' = Cursor(tail.seq, tail.line)
                 \/ There(part) /\ \E end \in start..(Lines(part) - 1) : tail' = Cursor(part[1], end)
                 \/ There(part) /\ tail' = Cursor(last[1], last[2])
                 \/ /\ There(part)
                    /\ tail' = [tail EXCEPT !.at = last[1], !.pos = last[2], !.view = tail.view \ {part}]
      BY <2>1, <2>2, ReadsOne
    <2>4. /\ tail.at \in Nat /\ tail.seq \in Nat /\ part[1] \in Nat /\ tail \in Reader
          /\ \A other \in tail.view : other[1] \in Nat
          /\ \A s \in Seqs : s \in Nat
      BY <2>1, ReaderTyped DEF Shape, Typed
    <2>5. /\ tail.seq <= tail.at
          /\ \A s \in Seqs, other \in tail.view :
               tail.at < s /\ s < other[1] /\ (\A q \in tail.view : q[1] # s) => Nothing(tail.run, s)
          /\ \/ tail.at = tail.seq /\ \E other \in tail.view : other[1] = tail.seq
             \/ \A other \in tail.view : tail.at < other[1] /\ tail.pos = said[<<tail.run, tail.at>>]
      BY <1>1, <2>1 DEF ReaderFits
    <2>6. tail'.at = part[1]
      <3>1. CASE tail' = Cursor(tail.seq, tail.line)
        BY <1>1, <2>4, <2>5, <3>1 DEF Cursor, Reader
      <3>2. CASE \E end \in start..(Lines(part) - 1) : tail' = Cursor(part[1], end)
        BY <2>4, <3>2 DEF Cursor, Reader
      <3>3. CASE \/ tail' = Cursor(last[1], last[2])
                 \/ tail' = [tail EXCEPT !.at = last[1], !.pos = last[2], !.view = tail.view \ {part}]
        <4>1. tail'.at = last[1]
          BY <2>4, <3>3 DEF Cursor, Reader
        <4>2. last[1] = part[1] \/ last[1] = tail.at
          BY <2>3
        <4> QED  BY <1>1, <2>4, <4>1, <4>2
      <3> QED  BY <2>3, <3>1, <3>2, <3>3
    <2>7. \A other \in tail.view : part[1] <= other[1]
      <3> TAKE other \in tail.view
      <3>1. CASE other = part
        BY <2>4, <3>1
      <3>2. CASE other # part
        BY <2>3, <2>4, <3>2
      <3> QED  BY <3>1, <3>2
    <2>8. tail.pos = said[<<tail.run, tail.at>>]
      BY <1>1, <2>4, <2>5, <2>6, <2>7
    <2>9. \A s \in Seqs : s < part[1] => \A q \in tail.view : q[1] # s
      BY <2>4, <2>7
    <2> QED  BY <2>5, <2>6, <2>8, <2>9 DEF Nothing
  <1>2. LogInv /\ [Next]_vars =>
           [tail.step = "read" /\ tail'.at > tail.at /\ ~Abandoned(tail.run) =>
              /\ tail.pos = said[<<tail.run, tail.at>>]
              /\ \A s \in Seqs : tail.at < s /\ s < tail'.at =>
                   <<tail.run, s>> \notin plain \cup gz \/ said[<<tail.run, s>>] = 0]_vars
    BY <1>1
  <1> QED  BY <1>2, ArchiveInvariant, PTL DEF Spec, TailMissesNothing
=============================================================================
