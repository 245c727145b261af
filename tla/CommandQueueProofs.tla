------------------------- MODULE CommandQueueProofs -------------------------
(***************************************************************************)
(* The safety properties of CommandQueue, for any accounts and any bound.  *)
(*                                                                         *)
(* OneActivePerAction and LeasedIsHeld are not inductive alone: a step may *)
(* only be followed if hand and attached name rows of the table, and if a  *)
(* worker that is down holds nothing.  IInv adds exactly that.             *)
(***************************************************************************)
EXTENDS CommandQueue, TLAPS

HeldAreRows == hand \in 0..Len(cmds) /\ attached \subseteq Ids

DownHoldsNothing == ~up => hand = 0 /\ attached = {}

IInv ==
    /\ TypeOK
    /\ HeldAreRows
    /\ DownHoldsNothing
    /\ OneActivePerAction
    /\ LeasedIsHeld

-----------------------------------------------------------------------------
(* Overwriting statuses keeps a table a table of the same commands. *)
LEMMA MarkFacts ==
    ASSUME NEW table \in Seq(Command), NEW S, NEW status \in Statuses
    PROVE  /\ Mark(table, S, status) \in Seq(Command)
           /\ Len(Mark(table, S, status)) = Len(table)
           /\ \A i \in 1..Len(table) :
                /\ Mark(table, S, status)[i].acct = table[i].acct
                /\ Mark(table, S, status)[i].action = table[i].action
                /\ Mark(table, S, status)[i].status
                     = IF i \in S THEN status ELSE table[i].status
                /\ i \notin S => Mark(table, S, status)[i] = table[i]
  <1>1. \A i \in 1..Len(table) : table[i] \in Command
    OBVIOUS
  <1> QED  BY <1>1 DEF Mark, Command

(* Appending a row keeps the earlier rows. *)
LEMMA AppendFacts ==
    ASSUME NEW table \in Seq(Command), NEW row \in Command
    PROVE  /\ Append(table, row) \in Seq(Command)
           /\ Len(Append(table, row)) = Len(table) + 1
           /\ \A i \in 1..Len(table) : Append(table, row)[i] = table[i]
           /\ Append(table, row)[Len(table) + 1] = row
  OBVIOUS

(* Finishing rows touches leased rows only, and leaves none of S leased. *)
LEMMA FinishFacts ==
    ASSUME TypeOK, NEW S, NEW status \in Terminal, Finish(S, status)
    PROVE  /\ cmds' \in Seq(Command)
           /\ Len(cmds') = Len(cmds)
           /\ \A i \in Ids :
                /\ cmds'[i].acct = cmds[i].acct
                /\ cmds'[i].action = cmds[i].action
                /\ cmds[i].status # "leased" => cmds'[i] = cmds[i]
                /\ i \notin S => cmds'[i] = cmds[i]
                /\ i \in S => cmds'[i].status # "leased"
                /\ cmds'[i].status \in {cmds[i].status} \cup Terminal
  <1>1. cmds \in Seq(Command) /\ status \in Statuses
    BY DEF TypeOK, Statuses
  <1>2. cmds' = Mark(cmds, S \cap Leased, status)
    BY DEF Finish
  <1> QED  BY <1>1, <1>2, MarkFacts DEF Ids, Leased, Terminal

(* The same number of rows, no row newly active: the two invariants about
   active rows carry over. *)
LEMMA ActiveShrinks ==
    ASSUME OneActivePerAction,
           Len(cmds') = Len(cmds),
           \A i \in Ids : /\ cmds'[i].acct = cmds[i].acct
                          /\ cmds'[i].action = cmds[i].action
                          /\ IsActive(i)' => IsActive(i)
    PROVE  OneActivePerAction'
  BY DEF OneActivePerAction, Ids

-----------------------------------------------------------------------------
(* A request keeps the invariant: it cancels queued rows and appends at most
   one row, which then is the only active one of its account and action. *)
LEMMA EnqueueStep ==
    ASSUME IInv, NEW a \in Accounts, NEW action \in Actions, Enqueue(a, action)
    PROVE  IInv'
  <1> DEFINE kept == Mark(cmds, Obsolete(a, action), "cancelled")
             row == [acct |-> a, action |-> action, status |-> "queued"]
  <1>1. cmds \in Seq(Command) /\ row \in Command /\ "cancelled" \in Statuses
    BY DEF IInv, TypeOK, Command, Statuses, Terminal
  <1>2. /\ kept \in Seq(Command) /\ Len(kept) = Len(cmds)
        /\ \A i \in Ids : /\ kept[i].acct = cmds[i].acct
                          /\ kept[i].action = cmds[i].action
                          /\ kept[i].status = IF i \in Obsolete(a, action)
                                                THEN "cancelled" ELSE cmds[i].status
    BY <1>1, MarkFacts DEF Ids
  <1>3. UNCHANGED <<up, hand, checked, attached>> /\ cmds' = NewTable(a, action)
    BY DEF Enqueue
  <1>4. desired' \in [Accounts -> Desires]
    BY DEF Enqueue, IInv, TypeOK, Wanted, Desires
  <1>5. CASE Stronger(a, action)
    <2>1. cmds' = cmds
      BY <1>3, <1>5 DEF NewTable
    <2> QED  BY <2>1, <1>3, <1>4
             DEF IInv, TypeOK, HeldAreRows, DownHoldsNothing, OneActivePerAction,
                 LeasedIsHeld, Ids, IsActive, Leased
  <1>6. CASE ~Stronger(a, action) /\ Repeated(a, action)
    <2>1. cmds' = kept
      BY <1>3, <1>6 DEF NewTable
    <2>2. OneActivePerAction'
      BY <2>1, <1>2, ActiveShrinks DEF IInv, IsActive, Ids
    <2>3. LeasedIsHeld'
      BY <2>1, <1>2, <1>3 DEF IInv, LeasedIsHeld, Leased, Ids
    <2> QED  BY <2>1, <2>2, <2>3, <1>2, <1>3, <1>4
             DEF IInv, TypeOK, HeldAreRows, DownHoldsNothing, Ids
  <1>7. CASE ~Stronger(a, action) /\ ~Repeated(a, action)
    <2>1. cmds' = Append(kept, row)
      BY <1>3, <1>7 DEF NewTable
    <2>2. /\ cmds' \in Seq(Command) /\ Len(cmds') = Len(cmds) + 1
          /\ \A i \in Ids : cmds'[i] = kept[i]
          /\ cmds'[Len(cmds) + 1] = row
      BY <2>1, <1>1, <1>2, AppendFacts DEF Ids
    <2>3. Len(cmds) \in Nat /\ Ids' = Ids \cup {Len(cmds) + 1}
      BY <2>2, <1>1 DEF Ids
    <2>4. OneActivePerAction'
      <3> SUFFICES ASSUME NEW i \in Ids', NEW j \in Ids',
                          IsActive(i)', IsActive(j)',
                          cmds'[i].acct = cmds'[j].acct,
                          cmds'[i].action = cmds'[j].action
                   PROVE  i = j
        BY DEF OneActivePerAction
      <3>1. \A k \in Ids : IsActive(k)' =>
                /\ IsActive(k)
                /\ cmds'[k].acct = cmds[k].acct
                /\ cmds'[k].action = cmds[k].action
                /\ ~(cmds[k].acct = a /\ cmds[k].action = action)
        BY <2>2, <1>2, <1>7 DEF IsActive, Repeated, Active
      <3>2. CASE i \in Ids /\ j \in Ids
        BY <3>1, <3>2 DEF IInv, OneActivePerAction
      <3>3. CASE i \notin Ids \/ j \notin Ids
        BY <3>1, <3>3, <2>2, <2>3
      <3> QED  BY <3>2, <3>3
    <2>5. LeasedIsHeld'
      BY <2>2, <2>3, <1>2, <1>3 DEF IInv, LeasedIsHeld, Leased
    <2> QED  BY <2>2, <2>3, <2>4, <2>5, <1>3, <1>4
             DEF IInv, TypeOK, HeldAreRows, DownHoldsNothing
  <1> QED  BY <1>5, <1>6, <1>7

(* Leasing moves one row from queued to the worker's hand. *)
LEMMA LeaseStep ==
    ASSUME IInv, NEW i \in Ids, Lease(i)
    PROVE  IInv'
  <1>1. /\ cmds \in Seq(Command) /\ "leased" \in Statuses
        /\ i \in Queued /\ up /\ hand = 0
        /\ cmds' = Mark(cmds, {i}, "leased")
        /\ hand' = i /\ checked' = FALSE /\ UNCHANGED <<desired, up, attached>>
    BY DEF Lease, IInv, TypeOK, Statuses
  <1>2. /\ cmds' \in Seq(Command) /\ Len(cmds') = Len(cmds)
        /\ \A j \in Ids : /\ cmds'[j].acct = cmds[j].acct
                          /\ cmds'[j].action = cmds[j].action
                          /\ cmds'[j].status = IF j = i THEN "leased" ELSE cmds[j].status
    BY <1>1, MarkFacts DEF Ids
  <1>3. OneActivePerAction'
    BY <1>1, <1>2, ActiveShrinks DEF IInv, IsActive, Queued, Ids
  <1>4. Ids' = Ids /\ Leased' = Leased \cup {i} /\ i # 0
    BY <1>2 DEF Leased, Ids
  <1>5. Leased \subseteq attached \cup {0} /\ 0 \notin Leased
    BY <1>1 DEF IInv, LeasedIsHeld, Leased, Ids
  <1>6. LeasedIsHeld'
    BY <1>1, <1>4, <1>5 DEF LeasedIsHeld
  <1>7. HeldAreRows'
    <2>1. hand' \in 0..Len(cmds')
      BY <1>1, <1>2 DEF Ids
    <2>2. attached' \subseteq Ids'
      BY <1>1, <1>4 DEF IInv, HeldAreRows
    <2> QED  BY <2>1, <2>2 DEF HeldAreRows
  <1>8. DownHoldsNothing'
    BY <1>1, Zenon DEF DownHoldsNothing
  <1>9. TypeOK'
    <2>1. i \in Nat
      BY <1>1 DEF Ids
    <2> QED  BY <2>1, <1>1, <1>2 DEF IInv, TypeOK
  <1> QED  BY <1>3, <1>6, <1>7, <1>8, <1>9 DEF IInv

(* Every step that finishes commands: what it finishes it may let go of. *)
LEMMA FinishStep ==
    ASSUME IInv, up,
           NEW S, NEW status \in Terminal, Finish(S, status),
           desired' = desired, up' = up, checked' \in BOOLEAN,
           hand' \in {0, hand},
           attached' \subseteq attached \cup ({hand} \ {0}),
           (attached \cup {hand}) \ S \subseteq attached' \cup {hand'}
    PROVE  IInv'
  <1>1. /\ cmds' \in Seq(Command) /\ Len(cmds') = Len(cmds)
        /\ \A i \in Ids :
             /\ cmds'[i].acct = cmds[i].acct
             /\ cmds'[i].action = cmds[i].action
             /\ cmds[i].status # "leased" => cmds'[i] = cmds[i]
             /\ i \notin S => cmds'[i] = cmds[i]
             /\ i \in S => cmds'[i].status # "leased"
             /\ cmds'[i].status \in {cmds[i].status} \cup Terminal
    BY FinishFacts DEF IInv
  <1>2. OneActivePerAction'
    BY <1>1, ActiveShrinks DEF IInv, IsActive, Terminal
  <1>3. LeasedIsHeld'
    BY <1>1 DEF IInv, LeasedIsHeld, Leased, Ids
  <1>4. HeldAreRows'
    BY <1>1 DEF IInv, HeldAreRows, Ids, TypeOK
  <1> QED  BY <1>1, <1>2, <1>3, <1>4 DEF IInv, TypeOK, DownHoldsNothing, HeldAreRows, Ids

(* A command finished while it is still referred to. *)
LEMMA EarlyStep ==
    ASSUME IInv, up,
           NEW S, NEW status \in Terminal, Finish(S, status),
           UNCHANGED <<desired, up, hand, checked, attached>>
    PROVE  IInv'
  <1>1. checked' \in BOOLEAN /\ hand' \in {0, hand} /\ attached' = attached /\ hand' = hand
    BY DEF IInv, TypeOK
  <1> QED  BY <1>1, FinishStep

(* The command of a child that cannot authenticate moves into the hand. *)
LEMMA AuthenticationStep ==
    ASSUME IInv, NEW a \in Accounts, FailAuthentication(a)
    PROVE  IInv'
  <1>1. /\ up /\ hand = 0 /\ UNCHANGED <<cmds, up>>
        /\ desired' = [desired EXCEPT ![a] = "stopped"]
        /\ \/ UNCHANGED <<hand, checked, attached>>
           \/ \E i \in attached : hand' = i /\ checked' = TRUE /\ attached' = attached \ {i}
    BY DEF FailAuthentication
  <1>2. /\ hand' \in {0} \cup attached /\ attached' \subseteq attached
        /\ checked' \in BOOLEAN /\ attached \subseteq attached' \cup {hand'}
    BY <1>1 DEF IInv, TypeOK
  <1>3. TypeOK'
    BY <1>1, <1>2 DEF IInv, TypeOK, Desires
  <1>4. OneActivePerAction'
    BY <1>1 DEF IInv, OneActivePerAction, Ids, IsActive
  <1>5. LeasedIsHeld'
    <2>1. Leased \subseteq attached \cup {0} /\ 0 \notin Leased
      BY <1>1 DEF IInv, LeasedIsHeld, Leased, Ids
    <2>2. Leased' = Leased
      BY <1>1 DEF Leased, Ids
    <2> QED  BY <1>2, <2>1, <2>2 DEF LeasedIsHeld
  <1>6. HeldAreRows'
    <2>1. hand' \in 0..Len(cmds)
      BY <1>1, <1>2 DEF IInv, HeldAreRows, Ids, TypeOK
    <2> QED  BY <2>1, <1>1, <1>2 DEF IInv, HeldAreRows, Ids
  <1>7. DownHoldsNothing'
    BY <1>1, Zenon DEF DownHoldsNothing
  <1> QED  BY <1>3, <1>4, <1>5, <1>6, <1>7 DEF IInv

(* The remaining steps of the worker's life. *)
LEMMA StartupStep ==
    ASSUME IInv, Startup
    PROVE  IInv'
  <1>1. /\ cmds \in Seq(Command) /\ "queued" \in Statuses
        /\ cmds' = Mark(cmds, Leased, "queued")
        /\ UNCHANGED <<desired, hand, checked, attached>> /\ up' = TRUE
    BY DEF Startup, IInv, TypeOK, Statuses
  <1>2. /\ cmds' \in Seq(Command) /\ Len(cmds') = Len(cmds)
        /\ \A j \in Ids : /\ cmds'[j].acct = cmds[j].acct
                          /\ cmds'[j].action = cmds[j].action
                          /\ cmds'[j].status = IF j \in Leased THEN "queued" ELSE cmds[j].status
    BY <1>1, MarkFacts DEF Ids
  <1>3. OneActivePerAction'
    BY <1>1, <1>2, ActiveShrinks DEF IInv, IsActive, Leased, Ids
  <1>4. Leased' = {}
    BY <1>2 DEF Leased, Ids
  <1> QED  BY <1>1, <1>2, <1>3, <1>4
           DEF IInv, TypeOK, HeldAreRows, DownHoldsNothing, LeasedIsHeld, Ids

-----------------------------------------------------------------------------
LEMMA Initially == Init => IInv
  <1> SUFFICES ASSUME Init
               PROVE  IInv
    OBVIOUS
  <1>1. cmds = <<>> /\ Len(cmds) = 0 /\ cmds \in Seq(Command) /\ Ids = {}
    BY DEF Init, Ids
  <1>2. TypeOK
    BY <1>1 DEF Init, TypeOK, Desires
  <1>3. HeldAreRows /\ DownHoldsNothing /\ LeasedIsHeld /\ OneActivePerAction
    BY <1>1 DEF Init, HeldAreRows, DownHoldsNothing, LeasedIsHeld, OneActivePerAction
  <1> QED  BY <1>2, <1>3 DEF IInv

LEMMA Inductive == IInv /\ [Next]_vars => IInv'
  <1> SUFFICES ASSUME IInv, [Next]_vars
               PROVE  IInv'
    OBVIOUS
  <1>1. ASSUME NEW a \in Accounts, NEW action \in Actions, Enqueue(a, action)
        PROVE  IInv'
    BY <1>1, EnqueueStep
  <1>2. ASSUME NEW i \in Ids, Lease(i)
        PROVE  IInv'
    BY <1>2, LeaseStep
  <1>3. CASE Refuse
    <2>1. up /\ Finish({hand}, "cancelled") /\ "cancelled" \in Terminal
      BY <1>3 DEF Refuse, Terminal
    <2> QED  BY <1>3, <2>1, FinishStep DEF Refuse, IInv, TypeOK
  <1>4. CASE Begin
    BY <1>4 DEF Begin, IInv, TypeOK, HeldAreRows, DownHoldsNothing,
                OneActivePerAction, LeasedIsHeld, Ids, IsActive, Leased
  <1>5. ASSUME NEW status \in {"succeeded", "failed"}, Complete(status)
        PROVE  IInv'
    <2>1. up /\ Finish({hand}, status) /\ status \in Terminal
      BY <1>5 DEF Complete, Terminal
    <2>2. /\ hand' = 0 /\ checked' = FALSE /\ desired' = desired /\ up' = up
          /\ hand # 0 /\ attached' \in {attached, attached \cup {hand}}
      BY <1>5 DEF Complete
    <2> QED  BY <2>1, <2>2, FinishStep
  <1>6. CASE Attach
    <2> DEFINE old == {i \in attached : cmds[i].acct = cmds[hand].acct}
    <2>1. up /\ hand # 0 /\ Finish(old, "cancelled") /\ "cancelled" \in Terminal
      BY <1>6 DEF Attach, Terminal
    <2>2. /\ attached' = (attached \ old) \cup {hand} /\ hand' = 0
          /\ checked' = FALSE /\ desired' = desired /\ up' = up
      BY <1>6 DEF Attach
    <2> HIDE DEF old
    <2> QED  BY <2>1, <2>2, FinishStep
  <1>7. ASSUME NEW i \in Ids, NEW status \in Terminal, Resolve(i, status)
        PROVE  IInv'
    <2>1. up /\ Finish({i}, status)
      BY <1>7 DEF Resolve
    <2> QED  BY <1>7, <2>1, FinishStep DEF Resolve, IInv, TypeOK
  <1>8. ASSUME NEW i \in Ids, NEW status \in {"cancelled", "failed"},
               FinishEarly(i, status)
        PROVE  IInv'
    <2>1. up /\ Finish({i}, status) /\ status \in Terminal
      BY <1>8 DEF FinishEarly, Terminal
    <2>2. UNCHANGED <<desired, up, hand, checked, attached>>
      BY <1>8 DEF FinishEarly
    <2> QED  BY <2>1, <2>2, EarlyStep
  <1>9. ASSUME NEW a \in Accounts, FailAuthentication(a)
        PROVE  IInv'
    BY <1>9, AuthenticationStep
  <1>10. CASE Crash
    <2>1. /\ cmds' = cmds /\ desired' = desired /\ up' = FALSE /\ hand' = 0
          /\ checked' = FALSE /\ attached' = {}
      BY <1>10 DEF Crash
    <2>2. Len(cmds) \in Nat /\ HeldAreRows'
      BY <2>1 DEF IInv, TypeOK, HeldAreRows
    <2>5. TypeOK'
      BY <2>1 DEF IInv, TypeOK
    <2>4. DownHoldsNothing' /\ LeasedIsHeld'
      BY <2>1, Zenon DEF DownHoldsNothing, LeasedIsHeld
    <2>3. OneActivePerAction'
      BY <2>1 DEF IInv, OneActivePerAction, Ids, IsActive
    <2> QED  BY <2>2, <2>3, <2>4, <2>5 DEF IInv
  <1>11. CASE Startup
    BY <1>11, StartupStep
  <1>12. CASE UNCHANGED vars
    BY <1>12 DEF vars, IInv, TypeOK, HeldAreRows, DownHoldsNothing,
                 OneActivePerAction, LeasedIsHeld, Ids, IsActive, Leased
  <1> QED  BY <1>1, <1>2, <1>3, <1>4, <1>5, <1>6, <1>7, <1>8, <1>9, <1>10,
              <1>11, <1>12 DEF Next, Work

(* Every reachable state of the queue satisfies the inductive invariant. *)
THEOREM Invariance == Spec => []IInv
  BY Initially, Inductive, PTL DEF Spec

(* The variables keep their types, for every farm: services.py and
   miner_supervisor.py write no other status, action or desired state. *)
THEOREM TypeCorrect == Spec => []TypeOK
  <1>1. IInv => TypeOK
    BY DEF IInv
  <1> QED  BY <1>1, Invariance, PTL

(* enqueue_command never leaves two active commands of one account and action,
   for every farm, any number of commands and any crashes of the worker. *)
THEOREM OneActive == Spec => []OneActivePerAction
  <1>1. IInv => OneActivePerAction
    BY DEF IInv
  <1> QED  BY <1>1, Invariance, PTL

(* No claim outlives the worker that made it: while a worker is up, a leased
   command is in its hand or attached to one of its children. *)
THEOREM NoLostClaim == Spec => []LeasedIsHeld
  <1>1. IInv => LeasedIsHeld
    BY DEF IInv
  <1> QED  BY <1>1, Invariance, PTL

(* The result of a command is final: late confirmations, retried stops and
   restarts of the worker leave a finished row as it is. *)
THEOREM ResultsAreFinal == Spec => TerminalIsFinal
  <1> DEFINE Keep == \A i \in Ids : cmds[i].status \in Terminal => cmds'[i] = cmds[i]
  <1>1. IInv /\ [Next]_vars => [Keep]_vars
    <2> SUFFICES ASSUME IInv, Next
                 PROVE  Keep
      OBVIOUS
    <2>0. TypeOK /\ cmds \in Seq(Command)
      BY DEF IInv, TypeOK
    <2>1. ASSUME NEW a \in Accounts, NEW action \in Actions, Enqueue(a, action)
          PROVE  Keep
      <3> DEFINE kept == Mark(cmds, Obsolete(a, action), "cancelled")
                 row == [acct |-> a, action |-> action, status |-> "queued"]
      <3>1. row \in Command /\ "cancelled" \in Statuses
        BY DEF Command, Statuses, Terminal
      <3>2. /\ kept \in Seq(Command) /\ Len(kept) = Len(cmds)
            /\ \A i \in Ids : cmds[i].status # "queued" => kept[i] = cmds[i]
        BY <2>0, <3>1, MarkFacts DEF Ids, Obsolete, Queued
      <3>3. \A i \in Ids : Append(kept, row)[i] = kept[i]
        BY <3>1, <3>2, AppendFacts DEF Ids
      <3>4. cmds' \in {cmds, kept, Append(kept, row)}
        BY <2>1 DEF Enqueue, NewTable
      <3> QED  BY <3>2, <3>3, <3>4 DEF Terminal
    <2>2. ASSUME NEW i \in Ids, Lease(i)
          PROVE  Keep
      BY <2>0, <2>2, MarkFacts DEF Lease, Queued, Statuses, Terminal, Ids
    <2>3. ASSUME NEW S, NEW status \in Terminal, Finish(S, status)
          PROVE  Keep
      BY <2>0, <2>3, FinishFacts DEF Terminal
    <2>4. CASE Startup
      BY <2>0, <2>4, MarkFacts DEF Startup, Leased, Statuses, Terminal, Ids
    <2>5. CASE cmds' = cmds
      BY <2>5
    <2> QED  BY <2>1, <2>2, <2>3, <2>4, <2>5
             DEF Next, Work, Refuse, Begin, Complete, Attach, Resolve, FinishEarly,
                 FailAuthentication, Crash, Terminal
  <1> QED  BY <1>1, Invariance, PTL DEF Spec, TerminalIsFinal

=============================================================================
