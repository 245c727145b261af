-------------------------- MODULE DropsEngineProofs --------------------------
(***************************************************************************)
(* Proofs about DropsEngine, for any number of channels and drops, any     *)
(* minutes and intervals, and any number of answers that are lost or late. *)
(***************************************************************************)
EXTENDS DropsEngine, TLAPS

\* What Twitch has shown is never more than what the account has.
ShownIsHad ==
    /\ \A d \in Drops : cached.minutes[d] <= minutes[d]
    /\ cached.awarded \subseteq awarded
    /\ \A d \in awarded : minutes[d] = Need

\* Nor is what it told of the current sessions.
ToldIsHad == \A c \in Channels : current[c] # NoSession => current[c][2] <= minutes[current[c][1]]

\* step() measures progress only on the channel it plays, and run() goes on only
\* while it has failed less than five times in a row.
Control ==
    /\ pc = "progress" => watching \in Channels
    /\ pc # "ended" => failures < Patience

IInv ==
    /\ TypeOK /\ Control /\ ShownIsHad /\ ToldIsHad
    /\ ProgressIsCredited /\ claimed \subseteq awarded /\ ClaimsAreTrue

LEMMA Constants ==
    /\ Last \in Nat /\ Last > 0 /\ Final \in Nat /\ Final > 0 /\ Need \in Nat /\ Need > 0
    /\ Refresh \in Nat /\ Refresh > 0 /\ Stall \in Nat /\ Stall > 0 /\ Slowest \in Nat
    /\ Patience \in Nat /\ Patience > 0 /\ MaxFaults \in Nat /\ Refresh <= Stall
  BY EngineAssumption

LEMMA InitIInv == Init => IInv
<1> USE Constants DEF Init
<1> SUFFICES ASSUME Init PROVE IInv
  OBVIOUS
<1>1. TwitchOK
  <2>1. 0 \in 0..Need
    OBVIOUS
  <2>2. minutes \in [Drops -> 0..Need]
    BY <2>1
  <2>3. cached \in [minutes : [Drops -> 0..Need], awarded : SUBSET Drops]
    BY <2>2
  <2> QED
    BY <2>2, <2>3 DEF TwitchOK, Windows
<1>2. ListsOK
  BY DEF ListsOK
<1>3. DropsOK
  BY <1>1 DEF DropsOK, TwitchOK
<1>4. ChoiceOK
  <2>1. 0 \in 0..Stall /\ 0 \in 0..Refresh
    OBVIOUS
  <2>2. cooldown \in [Channels -> 0..Stall]
    BY <2>1
  <2> QED
    BY <2>1, <2>2 DEF ChoiceOK
<1>5. StepOK
  <2>1. failures \in 0..Patience /\ faults \in 0..MaxFaults
    OBVIOUS
  <2> QED
    BY ONLY <2>1, Init DEF StepOK, Windows, Init
<1>6. Control /\ ShownIsHad /\ ToldIsHad
  BY DEF Control, ShownIsHad, ToldIsHad
<1>7. ProgressIsCredited /\ claimed \subseteq awarded /\ ClaimsAreTrue
  BY DEF ProgressIsCredited, ClaimsAreTrue
<1> QED
  BY <1>1, <1>2, <1>3, <1>4, <1>5, <1>6, <1>7 DEF IInv, TypeOK

-----------------------------------------------------------------------------
(* The parts of the invariant that a step which leaves their variables alone keeps *)

LEMMA TwitchFrame ==
    ASSUME IInv, UNCHANGED twitch
    PROVE  TwitchOK' /\ ShownIsHad'
  BY DEF IInv, TypeOK, TwitchOK, ShownIsHad, twitch

LEMMA ListsFrame ==
    ASSUME IInv, UNCHANGED <<minutes, lists>>
    PROVE  ListsOK' /\ ToldIsHad'
  BY DEF IInv, TypeOK, ListsOK, ToldIsHad, lists

LEMMA DropsFrame ==
    ASSUME IInv, UNCHANGED <<minutes, awarded, drops>>
    PROVE  DropsOK' /\ ProgressIsCredited' /\ (claimed \subseteq awarded)' /\ ClaimsAreTrue'
  BY DEF IInv, TypeOK, DropsOK, ProgressIsCredited, ClaimsAreTrue, drops

LEMMA ChoiceFrame ==
    ASSUME IInv, UNCHANGED <<cooldown, refreshIn, choice, shown>>
    PROVE  ChoiceOK'
  BY DEF IInv, TypeOK, ChoiceOK, choice

-----------------------------------------------------------------------------
(* Each step keeps the invariant *)

LEMMA FaultIsCounted ==
    ASSUME IInv, Fault \/ UNCHANGED faults
    PROVE  faults' \in 0..MaxFaults
  BY Constants DEF IInv, TypeOK, StepOK, Fault

LEMMA WindowKeeps ==
    ASSUME IInv, WindowMoves
    PROVE  IInv'
<1> USE DEF WindowMoves, engine
<1>1. TwitchOK' /\ ShownIsHad'
  BY DEF IInv, TypeOK, TwitchOK, ShownIsHad, Windows
<1>2. ListsOK' /\ ToldIsHad'
  BY ListsFrame
<1>3. DropsOK' /\ ProgressIsCredited' /\ (claimed \subseteq awarded)' /\ ClaimsAreTrue'
  BY DropsFrame
<1>4. ChoiceOK'
  BY ChoiceFrame
<1>5. StepOK' /\ Control'
  BY DEF IInv, TypeOK, StepOK, Control, choice, local
<1> QED
  BY <1>1, <1>2, <1>3, <1>4, <1>5 DEF IInv, TypeOK

LEMMA ChannelsFailKeeps ==
    ASSUME IInv, ChannelsFail
    PROVE  IInv'
<1> USE DEF ChannelsFail
<1>1. TwitchOK' /\ ShownIsHad'
  BY TwitchFrame
<1>2. ListsOK' /\ ToldIsHad'
  BY ListsFrame DEF twitch
<1>3. DropsOK' /\ ProgressIsCredited' /\ (claimed \subseteq awarded)' /\ ClaimsAreTrue'
  BY DropsFrame DEF twitch
<1>4. ChoiceOK'
  BY DEF IInv, TypeOK, ChoiceOK, choice
<1>5. StepOK' /\ Control'
  BY Constants, FaultIsCounted DEF IInv, TypeOK, StepOK, Control, local
<1> QED
  BY <1>1, <1>2, <1>3, <1>4, <1>5 DEF IInv, TypeOK

LEMMA WaitKeeps ==
    ASSUME IInv, Wait
    PROVE  IInv'
<1> USE DEF Wait
<1>1. TwitchOK' /\ ShownIsHad'
  BY TwitchFrame
<1>2. ListsOK' /\ ToldIsHad'
  BY DEF IInv, TypeOK, ListsOK, ToldIsHad
<1>3. DropsOK' /\ ProgressIsCredited' /\ (claimed \subseteq awarded)' /\ ClaimsAreTrue'
  BY DropsFrame DEF twitch
<1>4. ChoiceOK'
  <2>1. PICK t \in 1..Slowest :
          /\ cooldown' = [c \in Channels |-> Less(cooldown[c], t)]
          /\ refreshIn' = Less(refreshIn, t)
          /\ age' = IF watching = Nobody THEN age ELSE IF age + t > Stall THEN Stall ELSE age + t
    OBVIOUS
  <2>2. \A m \in Nat : \A n \in 0..m : Less(n, t) \in 0..m
    BY Constants DEF Less
  <2>3. cooldown' \in [Channels -> 0..Stall] /\ refreshIn' \in 0..Refresh
    BY <2>1, <2>2, Constants DEF IInv, TypeOK, ChoiceOK
  <2>4. age' \in 0..Stall
    BY <2>1, Constants DEF IInv, TypeOK, ChoiceOK
  <2> QED
    BY <2>3, <2>4 DEF IInv, TypeOK, ChoiceOK
<1>5. StepOK' /\ Control'
  BY DEF IInv, TypeOK, StepOK, Control, TwitchOK
<1> QED
  BY <1>1, <1>2, <1>3, <1>4, <1>5 DEF IInv, TypeOK

LEMMA ChannelsKeep ==
    ASSUME IInv, RefreshChannels
    PROVE  IInv'
<1> USE DEF RefreshChannels
<1>1. TwitchOK' /\ ShownIsHad'
  BY TwitchFrame
<1>2. ListsOK' /\ ToldIsHad'
  BY DEF IInv, TypeOK, ListsOK, ToldIsHad, twitch
<1>3. DropsOK' /\ ProgressIsCredited' /\ (claimed \subseteq awarded)' /\ ClaimsAreTrue'
  BY DropsFrame DEF twitch
<1>4. ChoiceOK'
  BY ChoiceFrame
<1>5. StepOK' /\ Control'
  BY DEF IInv, TypeOK, StepOK, Control, local
<1> QED
  BY <1>1, <1>2, <1>3, <1>4, <1>5 DEF IInv, TypeOK

\* Whatever the inventory shows, as long as the account has it, keeps the invariant.
LEMMA InventoryKeeps ==
    ASSUME IInv, NEW seen \in [minutes : [Drops -> 0..Need], awarded : SUBSET Drops],
           \A d \in Drops : seen.minutes[d] <= minutes[d],
           seen.awarded \subseteq awarded,
           RefreshInventory(seen), Fault \/ UNCHANGED faults
    PROVE  IInv'
<1> USE DEF RefreshInventory
<1>1. TwitchOK' /\ ShownIsHad'
  BY DEF IInv, TypeOK, TwitchOK, ShownIsHad
<1>2. ListsOK' /\ ToldIsHad'
  BY ListsFrame
<1>3. mins' \in [Drops -> 0..Need]
  BY Constants
<1>4. details' \in BOOLEAN /\ known' \in BOOLEAN
  BY DEF Discover, IInv, TypeOK, DropsOK
<1>5. done' \subseteq awarded /\ claimed' = claimed /\ (known' => claimed \subseteq done')
  BY DEF Counted, IInv
<1>6. DropsOK' /\ (claimed \subseteq awarded)' /\ ClaimsAreTrue'
  BY <1>3, <1>4, <1>5 DEF IInv, TypeOK, DropsOK, TwitchOK, ClaimsAreTrue
<1>7. ProgressIsCredited'
  <2> SUFFICES ASSUME NEW d \in Drops PROVE mins'[d] <= minutes[d]
    BY DEF ProgressIsCredited
  <2>1. minutes[d] \in 0..Need
    BY DEF IInv, TypeOK, TwitchOK
  <2>2. mins'[d] = IF ~known' THEN 0 ELSE IF d \in seen.awarded THEN Need ELSE seen.minutes[d]
    OBVIOUS
  <2>3. d \in seen.awarded => minutes[d] = Need
    BY DEF IInv, ShownIsHad
  <2> QED
    BY <2>1, <2>2, <2>3, Constants
<1>8. ChoiceOK'
  BY ChoiceFrame
<1>9. StepOK' /\ Control'
  BY FaultIsCounted DEF IInv, TypeOK, StepOK, Control, local
<1> QED
  BY <1>1, <1>2, <1>6, <1>7, <1>8, <1>9 DEF IInv, TypeOK

LEMMA InventoryFailsKeeps ==
    ASSUME IInv, InventoryFails
    PROVE  IInv'
<1> USE DEF InventoryFails
<1>1. TwitchOK' /\ ShownIsHad'
  BY TwitchFrame
<1>2. ListsOK' /\ ToldIsHad'
  BY ListsFrame DEF twitch
<1>3. DropsOK' /\ ProgressIsCredited' /\ (claimed \subseteq awarded)' /\ ClaimsAreTrue'
  BY DropsFrame DEF twitch
<1>4. ChoiceOK'
  BY ChoiceFrame
<1>5. StepOK' /\ Control'
  BY FaultIsCounted DEF IInv, TypeOK, StepOK, Control, local
<1> QED
  BY <1>1, <1>2, <1>3, <1>4, <1>5 DEF IInv, TypeOK

LEMMA SessionsKeep ==
    ASSUME IInv, RefreshSessions
    PROVE  IInv'
<1> USE DEF RefreshSessions
<1>1. TwitchOK' /\ ShownIsHad'
  BY TwitchFrame
<1>2. ListsOK' /\ ToldIsHad'
  <2>1. CASE UNCHANGED <<current, confirmed>>
    BY <2>1, ListsFrame DEF lists, twitch
  <2>2. CASE session \in online /\ confirmed' = confirmed \cup {session}
             /\ \E d \in Drops : \E m \in {minutes[d], cached.minutes[d]} :
                  current' = [current EXCEPT ![session] = <<d, m>>]
    <3>0. PICK d \in Drops : \E m \in {minutes[d], cached.minutes[d]} :
                               current' = [current EXCEPT ![session] = <<d, m>>]
      BY <2>2
    <3>1. PICK m \in {minutes[d], cached.minutes[d]} : current' = [current EXCEPT ![session] = <<d, m>>]
      BY <3>0
    <3>2. m \in 0..Need /\ m <= minutes[d] /\ minutes' = minutes
      BY DEF IInv, TypeOK, TwitchOK, ShownIsHad, twitch
    <3>3. ListsOK'
      BY <2>2, <3>1, <3>2 DEF IInv, TypeOK, ListsOK
    <3>4. ToldIsHad'
      BY <2>2, <3>1, <3>2 DEF IInv, TypeOK, ListsOK, ToldIsHad
    <3> QED
      BY <3>3, <3>4
  <2> QED
    BY <2>1, <2>2
<1>3. DropsOK' /\ ProgressIsCredited' /\ (claimed \subseteq awarded)' /\ ClaimsAreTrue'
  BY DropsFrame DEF twitch
<1>4. ChoiceOK'
  BY ChoiceFrame
<1>5. StepOK' /\ Control'
  BY DEF IInv, TypeOK, StepOK, Control, local
<1> QED
  BY <1>1, <1>2, <1>3, <1>4, <1>5 DEF IInv, TypeOK

\* Only what has its minutes is awarded, and only what is awarded counts as claimed.
LEMMA ClaimsKeep ==
    ASSUME IInv, NEW from, NEW to \in {"watch", "stall"}, from # "ended", ClaimDrops(from, to)
    PROVE  IInv'
<1>1. Claiming(from, to) /\ (Fault \/ UNCHANGED faults)
  BY DEF ClaimDrops, Confirms, Refused, Unanswered, NothingToClaim
<1>2. \/ UNCHANGED <<awarded, done, claimed>>
      \/ /\ UNCHANGED <<done, claimed>>
         /\ \E d \in Drops : minutes[d] = Need /\ awarded' = awarded \cup {d}
      \/ \E d \in Drops :
            /\ minutes[d] = Need /\ awarded' = awarded \cup {d}
            /\ done' = done \cup {d} /\ claimed' = claimed \cup {d}
  BY DEF ClaimDrops, Confirms, Refused, Unanswered, NothingToClaim, Awardable, IInv, ShownIsHad
<1>3. UNCHANGED <<minutes, cached, session, window, lists, known, mins>>
  BY <1>1 DEF Claiming
<1>4. TwitchOK' /\ ShownIsHad'
  BY <1>2, <1>3 DEF IInv, TypeOK, TwitchOK, ShownIsHad
<1>5. ListsOK' /\ ToldIsHad'
  BY <1>3, ListsFrame
<1>6. DropsOK' /\ (claimed \subseteq awarded)' /\ ClaimsAreTrue'
  BY <1>1, <1>2 DEF Claiming, IInv, TypeOK, DropsOK, ClaimsAreTrue
<1>7. ProgressIsCredited'
  BY <1>3 DEF IInv, ProgressIsCredited
<1>8. ChoiceOK'
  <2>1. refreshIn' \in 0..Refresh
    BY <1>1, Constants DEF Claiming, IInv, TypeOK, ChoiceOK
  <2> QED
    BY <1>1, <2>1 DEF Claiming, choice, IInv, TypeOK, ChoiceOK
<1>9. StepOK' /\ Control'
  <2>1. pc # "ended" /\ pc' = to /\ UNCHANGED <<failures, local>>
    BY <1>1 DEF Claiming
  <2>2. faults' \in 0..MaxFaults
    BY <1>1, FaultIsCounted
  <2> QED
    BY <2>1, <2>2 DEF local, IInv, TypeOK, StepOK, Control
<1> QED
  BY <1>4, <1>5, <1>6, <1>7, <1>8, <1>9 DEF IInv, TypeOK

\* Rest ends a step without a failure.
LEMMA RestKeeps ==
    ASSUME IInv, NEW c \in Channels \cup {Nobody}, Rest(c), UNCHANGED faults
    PROVE  StepOK' /\ Control' /\ shown' \in Channels \cup {Nobody}
<1>1. failures' \in 0..Patience /\ failures' < Patience
  BY Constants DEF Rest
<1> QED
  BY <1>1 DEF Rest, IInv, TypeOK, StepOK, Control

LEMMA NothingKeeps ==
    ASSUME IInv, NothingToWatch
    PROVE  IInv'
<1> USE DEF NothingToWatch
<1>1. TwitchOK' /\ ShownIsHad'
  BY TwitchFrame
<1>2. ListsOK' /\ ToldIsHad'
  BY ListsFrame DEF twitch
<1>3. DropsOK' /\ ProgressIsCredited' /\ (claimed \subseteq awarded)' /\ ClaimsAreTrue'
  BY DropsFrame DEF twitch
<1>4. StepOK' /\ Control' /\ shown' \in Channels \cup {Nobody}
  BY RestKeeps
<1>5. ChoiceOK'
  <2>1. 0 \in 0..Stall
    BY Constants
  <2> QED
    BY <1>4, <2>1 DEF Unwatched, IInv, TypeOK, ChoiceOK
<1> QED
  BY <1>1, <1>2, <1>3, <1>4, <1>5 DEF IInv, TypeOK

LEMMA PlaybackFailsKeeps ==
    ASSUME IInv, NEW c \in Channels, PlaybackFails(c)
    PROVE  IInv'
<1> USE DEF PlaybackFails
<1>1. TwitchOK' /\ ShownIsHad'
  BY TwitchFrame
<1>2. ListsOK' /\ ToldIsHad'
  BY ListsFrame DEF twitch
<1>3. DropsOK' /\ ProgressIsCredited' /\ (claimed \subseteq awarded)' /\ ClaimsAreTrue'
  BY DropsFrame DEF twitch
<1>4. StepOK' /\ Control' /\ shown' \in Channels \cup {Nobody}
  BY RestKeeps
<1>5. ChoiceOK'
  <2>1. 0 \in 0..Stall /\ 0 \in 0..Refresh /\ Refresh \in 0..Stall
    BY Constants
  <2> QED
    BY <1>4, <2>1 DEF Unwatched, IInv, TypeOK, ChoiceOK
<1> QED
  BY <1>1, <1>2, <1>3, <1>4, <1>5 DEF IInv, TypeOK

\* What is credited only adds to the minutes of an unfinished drop.
LEMMA CreditKeeps ==
    ASSUME IInv, NEW c \in Channels, Credited(c), UNCHANGED <<awarded, cached, window, lists, drops>>
    PROVE  /\ TwitchOK' /\ ListsOK' /\ DropsOK'
           /\ ShownIsHad' /\ ToldIsHad'
           /\ ProgressIsCredited' /\ (claimed \subseteq awarded)' /\ ClaimsAreTrue'
<1> USE DEF lists, drops
<1>1. CASE UNCHANGED <<minutes, session>>
  BY <1>1, TwitchFrame, ListsFrame, DropsFrame DEF twitch
<1>2. CASE session' = c /\ \E d \in Drops :
              /\ minutes[d] < Need /\ Unlocked(d, awarded)
              /\ minutes' = [minutes EXCEPT ![d] = @ + 1]
  <2>1. PICK d \in Drops : minutes[d] < Need /\ minutes' = [minutes EXCEPT ![d] = @ + 1]
    BY <1>2
  <2>2. minutes \in [Drops -> 0..Need]
    BY DEF IInv, TypeOK, TwitchOK
  <2>3. minutes' \in [Drops -> 0..Need]
    BY <2>1, <2>2, Constants
  <2>4. \A e \in Drops : minutes[e] <= minutes'[e] /\ (minutes[e] = Need => minutes'[e] = Need)
    BY <2>1, <2>2, Constants
  <2>5. TwitchOK' /\ ListsOK' /\ DropsOK'
    BY <1>2, <2>3 DEF IInv, TypeOK, TwitchOK, ListsOK, DropsOK
  <2>6. ShownIsHad'
    <3>1. \A e \in Drops : cached.minutes[e] \in 0..Need /\ cached.minutes[e] <= minutes[e]
      BY DEF IInv, TypeOK, TwitchOK, ShownIsHad
    <3>2. \A e \in Drops : cached.minutes[e] <= minutes'[e]
      BY <2>2, <2>3, <2>4, <3>1, Constants
    <3>3. awarded \subseteq Drops /\ cached.awarded \subseteq awarded /\ \A e \in awarded : minutes[e] = Need
      BY DEF IInv, TypeOK, TwitchOK, ShownIsHad
    <3> QED
      BY <2>4, <3>2, <3>3 DEF ShownIsHad
  <2>7. ToldIsHad'
    <3> SUFFICES ASSUME NEW x \in Channels, current[x] # NoSession
                 PROVE  current[x][2] <= minutes'[current[x][1]]
      BY DEF ToldIsHad
    <3>1. current[x] \in Drops \X (0..Need) /\ current[x][2] <= minutes[current[x][1]]
      BY DEF IInv, TypeOK, ListsOK, ToldIsHad
    <3>2. current[x][1] \in Drops /\ current[x][2] \in 0..Need
      BY <3>1
    <3> QED
      BY <2>2, <2>3, <2>4, <3>1, <3>2, Constants
  <2>8. ProgressIsCredited'
    <3>1. \A e \in Drops : mins[e] \in 0..Need /\ mins[e] <= minutes[e]
      BY DEF IInv, TypeOK, DropsOK, ProgressIsCredited
    <3> QED
      BY <2>2, <2>3, <2>4, <3>1, Constants DEF ProgressIsCredited
  <2>9. (claimed \subseteq awarded)' /\ ClaimsAreTrue'
    BY DEF IInv, ClaimsAreTrue
  <2> QED
    BY <2>5, <2>6, <2>7, <2>8, <2>9
<1> QED
  BY <1>1, <1>2 DEF Credited

LEMMA PlaybackKeeps ==
    ASSUME IInv, NEW c \in Channels, Playback(c)
    PROVE  IInv'
<1> USE DEF Playback
<1>1. /\ TwitchOK' /\ ListsOK' /\ DropsOK'
      /\ ShownIsHad' /\ ToldIsHad'
      /\ ProgressIsCredited' /\ (claimed \subseteq awarded)' /\ ClaimsAreTrue'
  BY CreditKeeps
<1>2. StepOK' /\ Control' /\ shown' \in Channels \cup {Nobody}
  <2>1. CASE Rest(c)
    BY <2>1, RestKeeps
  <2>2. CASE pc' = "progress" /\ shown' = c /\ rivals' = (Eligible # {c})
             /\ UNCHANGED <<failures, fresh, wall>>
    BY <2>2 DEF IInv, TypeOK, StepOK, Control
  <2> QED
    BY <2>1, <2>2
<1>3. ChoiceOK'
  <2>1. 0 \in 0..Stall
    BY Constants
  <2> QED
    BY <1>2, <2>1 DEF IInv, TypeOK, ChoiceOK
<1> QED
  BY <1>1, <1>2, <1>3 DEF IInv, TypeOK

\* What was told of the session of a channel only replaces a smaller count.
LEMMA ToldIsCredited ==
    ASSUME IInv, watching \in Channels
    PROVE  Told \in [Drops -> 0..Need] /\ \A d \in Drops : Told[d] <= minutes[d]
<1>1. mins \in [Drops -> 0..Need] /\ \A d \in Drops : mins[d] <= minutes[d]
  BY DEF IInv, TypeOK, DropsOK, ProgressIsCredited
<1>2. current[watching] \in (Drops \X (0..Need)) \cup {NoSession}
  BY DEF IInv, TypeOK, ListsOK
<1>3. CASE current[watching] = NoSession
  <2>1. \A d \in Drops : d # current[watching][1]
    BY <1>3, Constants DEF NoSession, Nobody, Drops
  <2> QED
    BY <1>1, <2>1 DEF Told
<1>4. CASE current[watching] \in Drops \X (0..Need) /\ current[watching] # NoSession
  <2>1. current[watching][2] \in 0..Need /\ current[watching][2] <= minutes[current[watching][1]]
    BY <1>4 DEF IInv, ToldIsHad
  <2> QED
    BY <1>1, <2>1 DEF Told
<1> QED
  BY <1>2, <1>3, <1>4

LEMMA ProgressKeeps ==
    ASSUME IInv, UpdateProgress
    PROVE  IInv'
<1> USE DEF UpdateProgress
<1>1. TwitchOK' /\ ShownIsHad'
  BY TwitchFrame
<1>2. ListsOK' /\ ToldIsHad'
  BY ListsFrame DEF twitch
<1>3. mins' \in [Drops -> 0..Need] /\ \A d \in Drops : mins'[d] <= minutes[d]
  BY ToldIsCredited DEF IInv, Control
<1>4. DropsOK' /\ ProgressIsCredited' /\ (claimed \subseteq awarded)' /\ ClaimsAreTrue'
  BY <1>3 DEF IInv, TypeOK, DropsOK, ProgressIsCredited, ClaimsAreTrue, twitch
<1>5. ChoiceOK'
  <2>1. 0 \in 0..Stall
    BY Constants
  <2> QED
    BY <1>3, <2>1 DEF IInv, TypeOK, ChoiceOK
<1>6. StepOK' /\ Control'
  BY DEF IInv, TypeOK, StepOK, Control, local
<1> QED
  BY <1>1, <1>2, <1>4, <1>5, <1>6 DEF IInv, TypeOK

LEMMA StallKeeps ==
    ASSUME IInv, StallCheck
    PROVE  IInv'
<1> USE DEF StallCheck
<1>1. TwitchOK' /\ ShownIsHad'
  BY TwitchFrame
<1>2. ListsOK' /\ ToldIsHad'
  BY ListsFrame DEF twitch
<1>3. DropsOK' /\ ProgressIsCredited' /\ (claimed \subseteq awarded)' /\ ClaimsAreTrue'
  BY DropsFrame DEF twitch
<1>4. shown \in Channels \cup {Nobody}
  BY DEF IInv, TypeOK, ChoiceOK
<1>5. StepOK' /\ Control' /\ shown' \in Channels \cup {Nobody}
  BY <1>4, RestKeeps
<1>6. ChoiceOK'
  <2>1. 0 \in 0..Stall /\ Stall \in 0..Stall
    BY Constants
  <2>2. CASE Unwatched /\ cooldown' = Penalty(watching)
    BY <1>5, <2>1, <2>2 DEF Unwatched, Penalty, IInv, TypeOK, ChoiceOK
  <2>3. CASE UNCHANGED <<choice, cooldown>>
    BY <1>5, <2>3 DEF choice, IInv, TypeOK, ChoiceOK
  <2> QED
    BY <2>2, <2>3
<1> QED
  BY <1>1, <1>2, <1>3, <1>5, <1>6 DEF IInv, TypeOK
LEMMA NextIInv == IInv /\ [Next]_vars => IInv'
<1> SUFFICES ASSUME IInv, [Next]_vars PROVE IInv'
  OBVIOUS
<1>1. CASE RefreshChannels
  BY <1>1, ChannelsKeep
<1>2. CASE ChannelsFail
  BY <1>2, ChannelsFailKeeps
<1>3. CASE InventoryIsCurrent
  <2>1. [minutes |-> minutes, awarded |-> awarded] \in [minutes : [Drops -> 0..Need], awarded : SUBSET Drops]
    BY DEF IInv, TypeOK, TwitchOK
  <2>2. \A d \in Drops : minutes[d] <= minutes[d]
    BY Constants DEF IInv, TypeOK, TwitchOK
  <2> QED
    BY <1>3, <2>1, <2>2, InventoryKeeps DEF InventoryIsCurrent
<1>4. CASE InventoryLags
  <2>1. /\ cached \in [minutes : [Drops -> 0..Need], awarded : SUBSET Drops]
        /\ cached.awarded \subseteq awarded /\ \A d \in Drops : cached.minutes[d] <= minutes[d]
    BY DEF IInv, TypeOK, TwitchOK, ShownIsHad
  <2> QED
    BY <1>4, <2>1, InventoryKeeps DEF InventoryLags
<1>5. CASE InventoryFails
  BY <1>5, InventoryFailsKeeps
<1>6. CASE RefreshSessions
  BY <1>6, SessionsKeep
<1>7. CASE Claim
  BY <1>7, ClaimsKeep DEF Claim
<1>8. CASE NothingToWatch
  BY <1>8, NothingKeeps
<1>9. CASE UpdateProgress
  BY <1>9, ProgressKeeps
<1>10. CASE Reclaim
  BY <1>10, ClaimsKeep DEF Reclaim
<1>11. CASE StallCheck
  BY <1>11, StallKeeps
<1>12. CASE \E c \in Channels : PlaybackFails(c) \/ Playback(c)
  BY <1>12, PlaybackFailsKeeps, PlaybackKeeps
<1>13. CASE Wait
  BY <1>13, WaitKeeps
<1>14. CASE WindowMoves
  BY <1>14, WindowKeeps
<1>15. CASE UNCHANGED vars
  <2>1. TwitchOK' /\ ShownIsHad'
    BY <1>15, TwitchFrame DEF vars
  <2>2. ListsOK' /\ ToldIsHad'
    BY <1>15, ListsFrame DEF vars, engine, twitch
  <2>3. DropsOK' /\ ProgressIsCredited' /\ (claimed \subseteq awarded)' /\ ClaimsAreTrue'
    BY <1>15, DropsFrame DEF vars, engine, twitch
  <2>4. ChoiceOK'
    BY <1>15, ChoiceFrame DEF vars, engine
  <2>5. StepOK' /\ Control'
    BY <1>15 DEF vars, engine, choice, local, IInv, TypeOK, StepOK, Control
  <2> QED
    BY <2>1, <2>2, <2>3, <2>4, <2>5 DEF IInv, TypeOK
<1> QED
  BY <1>1, <1>2, <1>3, <1>4, <1>5, <1>6, <1>7, <1>8, <1>9, <1>10, <1>11, <1>12, <1>13, <1>14, <1>15
     DEF Next, Step, Refreshing, Watching

-----------------------------------------------------------------------------
(* What the engine promises *)

\* What step() works with keeps its types, whatever Twitch answers and when.
THEOREM TypeCorrect == Spec => []TypeOK
<1>1. IInv => TypeOK
  BY DEF IInv
<1> QED
  BY <1>1, InitIInv, NextIInv, PTL DEF Spec

\* No answer, late or lost, and no order of steps makes the engine count more minutes
\* of a drop than Twitch has credited.
THEOREM ProgressIsOnlyCredited == Spec => []ProgressIsCredited
<1>1. IInv => ProgressIsCredited
  BY DEF IInv
<1> QED
  BY <1>1, InitIInv, NextIInv, PTL DEF Spec

\* A drop counts as claimed only if Twitch has awarded it, and a claim that was
\* confirmed is never taken back.
THEOREM ClaimsStayTrue == Spec => []ClaimsAreTrue
<1>1. IInv => ClaimsAreTrue
  BY DEF IInv
<1> QED
  BY <1>1, InitIInv, NextIInv, PTL DEF Spec
=============================================================================
