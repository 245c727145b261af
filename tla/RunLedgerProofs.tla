--------------------------- MODULE RunLedgerProofs ---------------------------
(***************************************************************************)
(* What RunLedger promises, for every set of accounts and every number of  *)
(* run records.  MinerSupervisor implements RunLedger (FollowsLedger), so   *)
(* it inherits these promises.                                             *)
(***************************************************************************)
EXTENDS RunLedger, TLAPS

\* LiveIsOut is inductive once the types are known.
IInv == TypeOK /\ LiveIsOut

LEMMA InitIInv ==
    ASSUME MaxRuns \in Nat
    PROVE  Init => IInv
  BY DEF Init, IInv, TypeOK, LiveIsOut, Runs

LEMMA NextIInv ==
    ASSUME MaxRuns \in Nat, IInv, [Next]_vars
    PROVE  IInv'
<1> USE DEF IInv, TypeOK, LiveIsOut, Runs
<1>1. ASSUME NEW a \in Accounts, NEW r \in Runs, Prepare(a, r)
      PROVE  IInv'
  BY <1>1 DEF Prepare
<1>2. ASSUME NEW a \in Accounts, NEW r \in Runs, Launch(a, r)
      PROVE  IInv'
  BY <1>2 DEF Launch
<1>3. ASSUME NEW a \in Accounts, NEW r \in Runs, Abandon(a, r)
      PROVE  IInv'
  BY <1>3 DEF Abandon
<1>4. ASSUME NEW a \in Accounts, Gone(a)
      PROVE  IInv'
  BY <1>4 DEF Gone
<1>5. ASSUME NEW a \in Accounts, Stop(a)
      PROVE  IInv'
  <2>1. child[a] \in Runs
    BY <1>5 DEF Stop
  <2> QED
    BY <1>5, <2>1 DEF Stop
<1>6. CASE Close
  <2>1. PICK S \in [Accounts -> SUBSET Runs] :
          /\ \A a \in Accounts : child[a] \notin S[a]
          /\ record' = [a \in Accounts |-> [r \in Runs |->
                           IF r \in S[a] THEN "closed" ELSE record[a][r]]]
    BY <1>6 DEF Close
  <2>2. child' = child
    BY <1>6 DEF Close
  <2>3. TypeOK'
    BY <2>1, <2>2
  <2>4. ASSUME NEW a \in Accounts, child'[a] # 0
        PROVE  record'[a][child'[a]] = "out"
    <3>1. child[a] \in Runs /\ child[a] \notin S[a]
      BY <2>1, <2>2, <2>4
    <3> QED
      BY <2>1, <2>2, <2>4, <3>1
  <2> QED
    BY <2>3, <2>4
<1>7. CASE Loss
  BY <1>7 DEF Loss
<1>8. CASE UNCHANGED vars
  BY <1>8 DEF vars
<1> QED
  BY <1>1, <1>2, <1>3, <1>4, <1>5, <1>6, <1>7, <1>8 DEF Next

\* A process that is alive always belongs to a run that was recorded before it
\* and has not ended: stop_account, _spawn_snapshot and _close_run never write
\* an end for a child that still lives.
THEOREM LiveProcessIsRecorded ==
    ASSUME MaxRuns \in Nat
    PROVE  Spec => [](TypeOK /\ LiveIsOut)
<1>1. Init => IInv
  BY InitIInv
<1>2. IInv /\ [Next]_vars => IInv'
  BY NextIInv
<1>3. IInv => TypeOK /\ LiveIsOut
  BY DEF IInv
<1> QED
  BY <1>1, <1>2, <1>3, PTL DEF Spec

\* Only Launch brings a process to life, for a run that is recorded and was never
\* launched before, and only where the account has no process.
LaunchesOnce ==
    [][\A a \in Accounts :
        child'[a] # child[a] /\ child'[a] # 0 =>
            child[a] = 0 /\ record[a][child'[a]] = "prepared"]_vars

\* No run is launched twice and no account gets a second process.
THEOREM EveryRunIsLaunchedOnce ==
    ASSUME MaxRuns \in Nat
    PROVE  Spec => LaunchesOnce
<1>1. ASSUME IInv, [Next]_vars
      PROVE  [\A a \in Accounts :
                child'[a] # child[a] /\ child'[a] # 0 =>
                    child[a] = 0 /\ record[a][child'[a]] = "prepared"]_vars
  <2>1. CASE UNCHANGED vars
    BY <2>1
  <2>2. CASE Next
    BY <1>1, <2>2 DEF Next, Prepare, Launch, Abandon, Gone, Stop, Close, Loss, IInv, TypeOK
  <2> QED
    BY <1>1, <2>1, <2>2
<1>2. IInv /\ IInv' /\ [Next]_vars =>
        [\A a \in Accounts :
            child'[a] # child[a] /\ child'[a] # 0 =>
                child[a] = 0 /\ record[a][child'[a]] = "prepared"]_vars
  BY <1>1
<1>3. Init => IInv
  BY InitIInv
<1>4. IInv /\ [Next]_vars => IInv'
  BY NextIInv
<1> QED
  BY <1>2, <1>3, <1>4, PTL DEF Spec, LaunchesOnce

=============================================================================
