------------------------------ MODULE RunLedger ------------------------------
(***************************************************************************)
(* What the supervisor promises about processes and run records, whatever  *)
(* is restarted, fails or dies: a run is recorded before its process       *)
(* exists, is launched at most once, and is closed only when no process of *)
(* it is left; an account has at most one process at any time; and no      *)
(* process outlives the worker.  MinerSupervisor implements this.          *)
(***************************************************************************)
EXTENDS Naturals

CONSTANTS
    Accounts,
    MaxRuns         \* run records of an account in use at one time

VARIABLES
    record,         \* "closed", "prepared", or "out": open, never to be launched again
    child           \* the run whose process is alive, 0 for none

vars == <<record, child>>

Runs == 1..MaxRuns

TypeOK ==
    /\ record \in [Accounts -> [Runs -> {"closed", "prepared", "out"}]]
    /\ child \in [Accounts -> 0..MaxRuns]

Init ==
    /\ record = [a \in Accounts |-> [r \in Runs |-> "closed"]]
    /\ child = [a \in Accounts |-> 0]

\* create_launch_snapshot
Prepare(a, r) ==
    /\ record[a][r] = "closed"
    /\ record' = [record EXCEPT ![a][r] = "prepared"]
    /\ UNCHANGED child

\* Popen: only where no process of the account is left.
Launch(a, r) ==
    /\ record[a][r] = "prepared" /\ child[a] = 0
    /\ record' = [record EXCEPT ![a][r] = "out"]
    /\ child' = [child EXCEPT ![a] = r]

\* A launch is given up and its end cannot be written yet.
Abandon(a, r) ==
    /\ record[a][r] = "prepared"
    /\ record' = [record EXCEPT ![a][r] = "out"]
    /\ UNCHANGED child

\* The process exits or is killed; its run stays open until that is recorded.
Gone(a) ==
    /\ child[a] # 0
    /\ child' = [child EXCEPT ![a] = 0]
    /\ UNCHANGED record

\* The process is stopped and its run closed.
Stop(a) ==
    /\ child[a] # 0
    /\ record' = [record EXCEPT ![a][child[a]] = "closed"]
    /\ child' = [child EXCEPT ![a] = 0]

\* Runs without a process are closed.
Close ==
    /\ \E S \in [Accounts -> SUBSET Runs] :
         /\ \A a \in Accounts : child[a] \notin S[a]
         /\ record' = [a \in Accounts |-> [r \in Runs |->
                          IF r \in S[a] THEN "closed" ELSE record[a][r]]]
    /\ UNCHANGED child

\* The worker dies, and every process with it.
Loss ==
    /\ record' = [a \in Accounts |-> [r \in Runs |->
                     IF record[a][r] = "prepared" THEN "out" ELSE record[a][r]]]
    /\ child' = [a \in Accounts |-> 0]

Next ==
    \/ \E a \in Accounts, r \in Runs : Prepare(a, r) \/ Launch(a, r) \/ Abandon(a, r)
    \/ \E a \in Accounts : Gone(a) \/ Stop(a)
    \/ Close
    \/ Loss

Spec == Init /\ [][Next]_vars

\* A process that is alive belongs to a run that has not ended.
LiveIsOut == \A a \in Accounts : child[a] # 0 => record[a][child[a]] = "out"

=============================================================================
