---------------------------- MODULE CommandQueue ----------------------------
(***************************************************************************)
(* The durable command queue between the control room and the one miner    *)
(* worker (controller/services.py and controller/miner_supervisor.py).     *)
(*                                                                         *)
(* The web process writes the desired state of an account and queues       *)
(* commands for it in one transaction.  The worker leases the oldest       *)
(* queued command of the farm, checks that it is still wanted, runs it,    *)
(* and finishes it at once or leaves it attached to the child it started   *)
(* until that child is confirmed, exits or is replaced.  The worker may    *)
(* die at any moment; the next one puts every leased command back in the   *)
(* queue.                                                                  *)
(*                                                                         *)
(* SQLite runs in IMMEDIATE transaction mode, so a function decorated with *)
(* transaction.atomic is one step.  What running a command does to the     *)
(* miners is left open here: MinerSupervisor supplies it and implements    *)
(* this specification.                                                     *)
(***************************************************************************)
EXTENDS Naturals, Sequences

CONSTANTS
    Accounts,       \* the miner accounts
    MaxCommands     \* bound of the model: how many command rows are created

ASSUME MaxCommandsAssumption == MaxCommands \in Nat

VARIABLES
    desired,        \* MinerInstanceState.desired_state of each account
    cmds,           \* the MinerCommand rows, in creation order
    up,             \* a worker process is alive
    hand,           \* the command the worker is executing, 0 for none
    checked,        \* hand passed the checks at the head of execute_command
    attached        \* leased commands that wait for the startup of a child

vars == <<desired, cmds, up, hand, checked, attached>>

Actions  == {"start", "stop", "restart", "authenticate"}
Desires  == {"running", "stopped"}
Terminal == {"succeeded", "failed", "cancelled"}
Statuses == {"queued", "leased"} \cup Terminal
Command  == [acct: Accounts, action: Actions, status: Statuses]
Ids      == 1..Len(cmds)

TypeOK ==
    /\ desired \in [Accounts -> Desires]
    /\ cmds \in Seq(Command)
    /\ up \in BOOLEAN
    /\ checked \in BOOLEAN
    /\ hand \in Nat
    /\ attached \subseteq Nat

-----------------------------------------------------------------------------
(* Queries on the command table *)

\* Mutant: the action is stored as the desired state.
WantedAsAction(action) == action

Wanted(action) == IF action = "stop" THEN "stopped" ELSE "running"

IsActive(i) == cmds[i].status \in {"queued", "leased"}

Active(a) == {i \in Ids : cmds[i].acct = a /\ IsActive(i)}

Queued == {i \in Ids : cmds[i].status = "queued"}

Leased == {i \in Ids : cmds[i].status = "leased"}

\* A newer active command of the same account exists.
Superseded(i) == \E j \in Active(cmds[i].acct) : j > i

\* The rows of a table with the status of those in S overwritten.
Mark(table, S, status) ==
    [i \in 1..Len(table) |->
        IF i \in S THEN [table[i] EXCEPT !.status = status] ELSE table[i]]

-----------------------------------------------------------------------------
(* The web process *)

\* Mutant: also commands that are no longer queued are cancelled.
ObsoleteAnyway(a, action) ==
    {i \in Ids : /\ cmds[i].acct = a
                 /\ action = "stop" /\ cmds[i].action # "stop"}

\* The queued commands that a request for action makes obsolete.
Obsolete(a, action) ==
    {i \in Queued : /\ cmds[i].acct = a
                    /\ cmds[i].action \in
                         CASE action = "stop" -> Actions \ {"stop"}
                           [] action = "authenticate" -> Actions \ {"authenticate"}
                           [] action = "restart" -> {"stop", "start"}
                           [] action = "start" -> {"stop"}}

\* A pending authentication already includes a stop and a start.
Stronger(a, action) ==
    /\ action \in {"start", "restart"}
    /\ \E i \in Active(a) : cmds[i].action = "authenticate"

\* Mutant: only a command that still waits is joined.
RepeatedQueued(a, action) ==
    \E i \in Active(a) : cmds[i].action = action /\ cmds[i].status = "queued"

\* A repeated action coalesces with the active command, queued or leased.
Repeated(a, action) == \E i \in Active(a) : cmds[i].action = action

NewTable(a, action) ==
    IF Stronger(a, action) THEN cmds
    ELSE LET kept == Mark(cmds, Obsolete(a, action), "cancelled")
         IN  IF Repeated(a, action) THEN kept
             ELSE Append(kept, [acct |-> a, action |-> action, status |-> "queued"])

Enqueue(a, action) ==
    /\ Len(cmds) < MaxCommands \/ Stronger(a, action) \/ Repeated(a, action)
    /\ desired' = [desired EXCEPT ![a] = Wanted(action)]
    /\ cmds' = NewTable(a, action)
    /\ UNCHANGED <<up, hand, checked, attached>>

-----------------------------------------------------------------------------
(* The worker *)

\* The worker takes the oldest queued command of the whole farm.
Lease(i) ==
    /\ up /\ hand = 0
    /\ i \in Queued
    /\ \A j \in Queued : i <= j
    /\ cmds' = Mark(cmds, {i}, "leased")
    /\ hand' = i
    /\ checked' = FALSE
    /\ UNCHANGED <<desired, up, attached>>

\* Rows are only rewritten while they are still leased.
Finish(S, status) == cmds' = Mark(cmds, S \cap Leased, status)

\* The command in hand is dropped: a newer one exists, or the desired state
\* changed after it was queued.
Refuse ==
    /\ up /\ hand # 0 /\ ~checked
    /\ \/ Superseded(hand)
       \/ desired[cmds[hand].acct] # Wanted(cmds[hand].action)
    /\ Finish({hand}, "cancelled")
    /\ hand' = 0
    /\ UNCHANGED <<desired, up, checked, attached>>

\* Both checks are passed; from here the command is carried out whatever the
\* web process queues meanwhile.
Begin ==
    /\ up /\ hand # 0 /\ ~checked
    /\ ~Superseded(hand)
    /\ desired[cmds[hand].acct] = Wanted(cmds[hand].action)
    /\ checked' = TRUE
    /\ UNCHANGED <<desired, cmds, up, hand, attached>>

\* execute_command returns with the command finished.  If a launch failed and
\* its child could not be removed, that child keeps the reference.
Complete(status) ==
    /\ up /\ hand # 0 /\ checked
    /\ status \in {"succeeded", "failed"}
    /\ Finish({hand}, status)
    /\ hand' = 0
    /\ checked' = FALSE
    /\ attached' \in {attached, attached \cup {hand}}
    /\ UNCHANGED <<desired, up>>

\* execute_command returns while the child it launched is not confirmed; a
\* start that finds a child still starting takes that child over.
Attach ==
    /\ up /\ hand # 0 /\ checked
    /\ cmds[hand].action # "stop"
    /\ LET old == {i \in attached : cmds[i].acct = cmds[hand].acct}
       IN  /\ Finish(old, "cancelled")
           /\ attached' = (attached \ old) \cup {hand}
    /\ hand' = 0
    /\ checked' = FALSE
    /\ UNCHANGED <<desired, up>>

\* The child a command waits for is confirmed, dies, or is stopped.
Resolve(i, status) ==
    /\ up /\ i \in attached
    /\ status \in Terminal
    /\ Finish({i}, status)
    /\ attached' = attached \ {i}
    /\ UNCHANGED <<desired, up, hand, checked>>

\* A command is finished while the worker still refers to it: a stop cancels
\* the command of a child before that child is dead, and the cleanup of a
\* failed launch fails its command.  Complete or Resolve then comes for a
\* command that is finished, and must change nothing.
FinishEarly(i, status) ==
    /\ up /\ i \in attached \cup {hand} /\ i # 0
    /\ i = hand => checked
    /\ status \in {"cancelled", "failed"}
    /\ Finish({i}, status)
    /\ UNCHANGED <<desired, up, hand, checked, attached>>

\* A child that cannot authenticate stops its account, and the worker takes
\* the command of that child in hand to fail it.  This is the only write of
\* the desired state that the worker makes for an active account.
FailAuthentication(a) ==
    /\ up /\ hand = 0
    /\ desired' = [desired EXCEPT ![a] = "stopped"]
    /\ LET own == {i \in attached : cmds[i].acct = a}
       IN  \/ /\ own = {}
             /\ UNCHANGED <<hand, checked, attached>>
          \/ \E i \in own :
                /\ hand' = i
                /\ checked' = TRUE
                /\ attached' = attached \ {i}
    /\ UNCHANGED <<cmds, up>>

\* The worker process dies and forgets what it held.
Crash ==
    /\ up
    /\ up' = FALSE
    /\ hand' = 0
    /\ checked' = FALSE
    /\ attached' = {}
    /\ UNCHANGED <<desired, cmds>>

\* Mutant: the claims of the old worker stay as they are.
StartupTrusting ==
    /\ ~up
    /\ up' = TRUE
    /\ UNCHANGED <<desired, cmds, hand, checked, attached>>

\* A new worker owns no claim of the old one: all are queued again.
Startup ==
    /\ ~up
    /\ up' = TRUE
    /\ cmds' = Mark(cmds, Leased, "queued")
    /\ UNCHANGED <<desired, hand, checked, attached>>

Init ==
    /\ desired = [a \in Accounts |-> "stopped"]
    /\ cmds = <<>>
    /\ up = FALSE
    /\ hand = 0
    /\ checked = FALSE
    /\ attached = {}

Work ==
    \/ \E i \in Ids : Lease(i)
    \/ Refuse
    \/ Begin
    \/ \E status \in {"succeeded", "failed"} : Complete(status)
    \/ Attach
    \/ \E i \in Ids, status \in Terminal : Resolve(i, status)
    \/ \E i \in Ids, status \in {"cancelled", "failed"} : FinishEarly(i, status)

Next ==
    \/ \E a \in Accounts, action \in Actions : Enqueue(a, action)
    \/ Work
    \/ \E a \in Accounts : FailAuthentication(a)
    \/ Crash
    \/ Startup

Spec == Init /\ [][Next]_vars

-----------------------------------------------------------------------------
(* Safety *)

\* At most one queued or leased command exists per account and action: a
\* repeated request joins the pending one, also while the worker runs it, and
\* no restart of the worker brings a twin back (services.py, enqueue_command).
OneActivePerAction ==
    \A i, j \in Ids :
        /\ IsActive(i) /\ IsActive(j)
        /\ cmds[i].acct = cmds[j].acct /\ cmds[i].action = cmds[j].action
        => i = j

\* While a worker is up, every leased command is one it holds in memory, so no
\* claim is left behind that nobody will ever finish.
LeasedIsHeld == up => Leased \subseteq attached \cup {hand}

\* A finished command keeps its result, whatever is retried or restarted later.
TerminalIsFinal ==
    [][\A i \in Ids : cmds[i].status \in Terminal => cmds'[i] = cmds[i]]_vars

=============================================================================
