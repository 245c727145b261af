---------------------------- MODULE DropsEngine ----------------------------
(***************************************************************************)
(* The loop of a miner child (controller/twitch_miner/engine.py): which of *)
(* the configured channels it plays, what it knows of the drops, and when  *)
(* it claims them.  The engine is one thread; it polls Twitch, which is    *)
(* modelled by what the engine assumes of it: minutes are credited or not, *)
(* the inventory may lag behind, requests and answers get lost.            *)
(*                                                                         *)
(* There is one campaign, advertised by any of the channels; its drops are *)
(* numbered, each the prerequisite of the next, and need the same minutes. *)
(* Time passes in ticks of WATCH_INTERVAL, between the steps of the engine.*)
(***************************************************************************)
EXTENDS Naturals

CONSTANTS
    Last,           \* number of configured channels, 1 is the first configured
    Final,          \* number of drops
    Need,           \* minutes that a drop requires
    Refresh,        \* REFRESH_INTERVAL, in ticks
    Stall,          \* STALL_INTERVAL
    Slowest,        \* ticks that a step may take
    Patience,       \* failed steps in a row that end the child
    MaxFaults       \* answers of Twitch that are lost, refused or out of date

ASSUME EngineAssumption ==
    /\ {Last, Final, Need, Refresh, Stall, Slowest, Patience} \subseteq Nat \ {0}
    /\ Refresh <= Stall /\ Slowest < Stall /\ MaxFaults \in Nat

Channels == 1..Last
Drops    == 1..Final
Nobody   == 0       \* no channel, or no drop

VARIABLES
    \* Twitch
    minutes, awarded,           \* of the account
    cached,                     \* the minutes and awards that the inventory showed last
    session,                    \* the channel of the current drop session
    window,                     \* of the campaign: open, over but still to be claimed, closed
    \* DropsMiner
    online, advertised, confirmed,  \* channels, and the evidence that they carry the campaign
    current,                    \* minutes of current_drop, per channel
    details, known,             \* the campaign is in details; in campaigns
    mins, done, claimed,        \* current_minutes, is_claimed; self.claimed
    cooldown, refreshIn,        \* ticks until the deadline of each
    watching, progress, age,    \* age: ticks since progress_at, at most Stall
    failures,
    shown,                      \* the watching_channels event
    \* step()
    pc, fresh, rivals,          \* where it is, refresh, len(eligible) > 1
    wall,                       \* wall_now: the window when the step began
    faults

twitch == <<minutes, awarded, cached, session, window>>
lists  == <<online, advertised, confirmed, current>>
drops  == <<details, known, mins, done, claimed>>
choice == <<watching, progress, age>>
local  == <<fresh, rivals, wall>>
engine == <<lists, drops, cooldown, refreshIn, choice, failures, shown, pc, local>>
vars   == <<twitch, engine, faults>>

NoSession  == <<Nobody, 0>>
NoProgress == [d \in Drops |-> Need + 1]    \* unlike any minutes
Windows    == {"open", "grace", "closed"}

TwitchOK ==
    /\ minutes \in [Drops -> 0..Need] /\ awarded \subseteq Drops
    /\ cached \in [minutes : [Drops -> 0..Need], awarded : SUBSET Drops]
    /\ session \in Channels \cup {Nobody} /\ window \in Windows

ListsOK ==
    /\ online \subseteq Channels /\ advertised \subseteq online /\ confirmed \subseteq online
    /\ current \in [Channels -> (Drops \X (0..Need)) \cup {NoSession}]

DropsOK ==
    /\ details \in BOOLEAN /\ known \in BOOLEAN
    /\ mins \in [Drops -> 0..Need] /\ done \subseteq Drops /\ claimed \subseteq Drops

ChoiceOK ==
    /\ cooldown \in [Channels -> 0..Stall] /\ refreshIn \in 0..Refresh
    /\ watching \in Channels \cup {Nobody} /\ shown \in Channels \cup {Nobody}
    /\ progress \in [Drops -> 0..Need] \cup {NoProgress} /\ age \in 0..Stall

StepOK ==
    /\ pc \in {"channels", "inventory", "sessions", "claim", "watch", "progress", "reclaim",
               "stall", "wait", "ended"}
    /\ fresh \in BOOLEAN /\ rivals \in BOOLEAN /\ wall \in Windows
    /\ failures \in 0..Patience /\ faults \in 0..MaxFaults

TypeOK == TwitchOK /\ ListsOK /\ DropsOK /\ ChoiceOK /\ StepOK

Init ==
    /\ minutes = [d \in Drops |-> 0] /\ awarded = {}
    /\ cached = [minutes |-> minutes, awarded |-> {}]
    /\ session = Nobody /\ window = "open"
    /\ online = {} /\ advertised = {} /\ confirmed = {}
    /\ current = [c \in Channels |-> NoSession]
    /\ details = FALSE /\ known = FALSE
    /\ mins = minutes /\ done = {} /\ claimed = {}
    /\ cooldown = [c \in Channels |-> 0] /\ refreshIn = 0
    /\ watching = Nobody /\ progress = NoProgress /\ age = 0
    /\ failures = 0 /\ shown = Nobody
    /\ pc = "channels" /\ fresh = TRUE /\ rivals = FALSE /\ wall = window
    /\ faults = 0

-----------------------------------------------------------------------------
(* Twitch *)

Fault == faults < MaxFaults /\ faults' = faults + 1

\* After its end drops can still be claimed for a day.  That only matters when the
\* engine sets its clock or claims.
WindowMoves ==
    /\ pc \in {"wait", "claim", "reclaim"}
    /\ \/ window = "open" /\ window' = "grace"
       \/ window = "grace" /\ window' = "closed"
    /\ UNCHANGED <<minutes, awarded, cached, session, engine, faults>>

Unlocked(d, over) == \A p \in Drops : p + 1 = d => p \in over

\* Twitch credits the playback of a channel to the drop that is next, or not.
Credited(c) ==
    \/ UNCHANGED <<minutes, session>>
    \/ /\ window = "open" /\ session' = c
       /\ \E d \in Drops :
            /\ minutes[d] < Need /\ Unlocked(d, awarded)
            /\ minutes' = [minutes EXCEPT ![d] = @ + 1]

Awardable(d) == minutes[d] = Need /\ Unlocked(d, awarded) /\ window # "closed"

-----------------------------------------------------------------------------
(* The end of a step, and of the loop *)

Rest(c) == pc' = "wait" /\ shown' = c /\ failures' = 0 /\ rivals' = FALSE /\ UNCHANGED <<fresh, wall>>

\* Only a failed stream request gets out of step(): the next one starts over.  The end
\* by a signal, or by a request that is not authorized, is a matter of MinerSupervisor.
ChannelsFail ==
    /\ pc = "channels" /\ Fault
    /\ failures' = failures + 1 /\ shown' = Nobody
    /\ pc' = IF failures' >= Patience THEN "ended" ELSE "wait"
    /\ UNCHANGED <<twitch, lists, drops, cooldown, refreshIn, choice, local>>

\* Mutant: a deadline that has passed is not taken for one that is due.
LessOnly(n, t) == n - t
Less(n, t)     == IF n > t THEN n - t ELSE 0

\* What the current sessions said is only used in the step that asked for it.
Wait ==
    /\ pc = "wait" /\ current' = [c \in Channels |-> NoSession]
    /\ \E t \in 1..Slowest :
        /\ cooldown' = [c \in Channels |-> Less(cooldown[c], t)]
        /\ refreshIn' = Less(refreshIn, t)
        /\ age' = IF watching = Nobody THEN age ELSE IF age + t > Stall THEN Stall ELSE age + t
    /\ fresh' = (refreshIn' = 0) /\ wall' = window
    /\ pc' = IF fresh' THEN "channels" ELSE "watch"
    /\ UNCHANGED <<twitch, online, advertised, confirmed, drops, watching, progress, failures, rivals,
                   shown, faults>>

-----------------------------------------------------------------------------
(* The refresh, once in a minute *)

\* Any channels may be on the air by now, and carry the campaign without Twitch saying
\* so.  Evidence of the last refresh is dropped.
RefreshChannels ==
    /\ pc = "channels" /\ pc' = "inventory"
    /\ online' \in SUBSET Channels /\ advertised' \in SUBSET online'
    /\ confirmed' = {}
    /\ UNCHANGED <<twitch, current, drops, cooldown, refreshIn, choice, failures, shown, local, faults>>

\* A claim that was confirmed stands, however old the inventory is.
\* Mutant: the inventory alone says what is claimed.
CountedByTwitch == cached'.awarded
Counted         == cached'.awarded \cup claimed

Ongoing == cached'.awarded # {} \/ \E d \in Drops : cached'.minutes[d] > 0

\* Once in DISCOVERY_INTERVAL or sooner, when is left open here, the list of campaigns
\* is read; it may be empty for a TV session.  Details that cannot be read are kept.
Discover ==
    \/ UNCHANGED details
    \/ details' \in {FALSE, window = "open" /\ (online # {} \/ Ongoing)}

\* The campaign as the answers of Twitch describe it.
RefreshInventory(seen) ==
    /\ pc = "inventory" /\ pc' = "sessions" /\ cached' = seen
    /\ Discover
    /\ known' = (details' \/ Ongoing \/ advertised # {})
    /\ mins' = [d \in Drops |-> IF ~known' THEN 0 ELSE IF d \in seen.awarded THEN Need ELSE seen.minutes[d]]
    /\ done' = IF known' THEN Counted ELSE {}
    /\ UNCHANGED <<minutes, awarded, session, window, claimed, lists, cooldown, refreshIn, choice,
                   failures, shown, local>>

\* The inventory shows the account as it is, or as it was the last time.
InventoryIsCurrent == RefreshInventory([minutes |-> minutes, awarded |-> awarded]) /\ UNCHANGED faults
InventoryLags      == RefreshInventory(cached) /\ Fault

\* Without the inventory, or without the list of campaigns, everything stays as it was.
InventoryFails ==
    /\ pc = "inventory" /\ pc' = "sessions" /\ Fault
    /\ UNCHANGED <<twitch, lists, drops, cooldown, refreshIn, choice, failures, shown, local>>

\* The session of Twitch, if it tells of one, counts for the very channel it names, and
\* only there; what it says may be as old as the inventory.
RefreshSessions ==
    /\ pc = "sessions" /\ pc' = "claim"
    /\ \/ /\ session \in online /\ known
          /\ \E d \in Drops :
                /\ minutes[d] > 0 /\ \A e \in Drops : e > d => minutes[e] = 0
                /\ \E m \in {minutes[d], cached.minutes[d]} :
                     current' = [current EXCEPT ![session] = <<d, m>>]
          /\ confirmed' = confirmed \cup {session}
       \/ UNCHANGED <<current, confirmed>>
    /\ UNCHANGED <<twitch, online, advertised, drops, cooldown, refreshIn, choice,
                   failures, shown, local, faults>>

-----------------------------------------------------------------------------
(* claim_drops *)

\* Mutant: the drops of a campaign that is over are not claimed.
CanClaimOpen(d) ==
    known /\ d \notin done /\ mins[d] = Need /\ Unlocked(d, done) /\ wall = "open"

CanClaim(d) ==
    known /\ d \notin done /\ mins[d] = Need /\ Unlocked(d, done) /\ wall # "closed"

Claiming(from, to) ==
    /\ pc = from /\ pc' = to
    /\ refreshIn' = IF from = "claim" THEN Refresh ELSE refreshIn
    /\ UNCHANGED <<minutes, cached, session, window, lists, details, known, mins, cooldown,
                   choice, failures, shown, local>>

Confirms(from, to) ==
    /\ Claiming(from, to)
    /\ \E d \in Drops :
        /\ CanClaim(d) /\ (d \in awarded \/ Awardable(d))
        /\ awarded' = awarded \cup {d}
        /\ done' = done \cup {d} /\ claimed' = claimed \cup {d}
    /\ UNCHANGED faults

\* After the campaign was closed during the step.
Refused(from, to) ==
    /\ Claiming(from, to)
    /\ \E d \in Drops : CanClaim(d) /\ d \notin awarded /\ ~Awardable(d)
    /\ UNCHANGED <<awarded, done, claimed, faults>>

\* The request is lost, or the answer of a claim that Twitch has granted.
Unanswered(from, to) ==
    /\ Claiming(from, to) /\ Fault
    /\ \E d \in Drops :
        /\ CanClaim(d)
        /\ \/ UNCHANGED awarded
           \/ Awardable(d) /\ awarded' = awarded \cup {d}
    /\ UNCHANGED <<done, claimed>>

NothingToClaim(from, to) ==
    /\ Claiming(from, to)
    /\ \A d \in Drops : ~CanClaim(d)
    /\ UNCHANGED <<awarded, done, claimed, faults>>

ClaimDrops(from, to) ==
    \/ Confirms(from, to) \/ Refused(from, to)
    \/ Unanswered(from, to) \/ NothingToClaim(from, to)

Claim   == ClaimDrops("claim", "watch")
Reclaim == ClaimDrops("reclaim", "stall")

-----------------------------------------------------------------------------
(* The choice of a channel, and its playback *)

Earnable ==
    known /\ wall = "open" /\ \E d \in Drops : d \notin done /\ mins[d] < Need /\ Unlocked(d, done)

Candidates == {c \in online : cooldown[c] = 0}
Eligible   == {c \in Candidates : c \in advertised \cup confirmed /\ Earnable}

\* The first in the configured order.
Chosen(c) ==
    LET preferred == IF Eligible # {} THEN Eligible ELSE Candidates
    IN c \in preferred /\ \A x \in preferred : c <= x

\* What was watched before does not matter for the next choice.
Unwatched == watching' = Nobody /\ progress' = NoProgress /\ age' = 0

NothingToWatch ==
    /\ pc = "watch" /\ Candidates = {}
    /\ Unwatched /\ Rest(Nobody)
    /\ UNCHANGED <<twitch, lists, drops, cooldown, refreshIn, faults>>

\* The channel has gone off the air, or its segments cannot be read.
PlaybackFails(c) ==
    /\ pc = "watch" /\ Chosen(c)
    /\ Unwatched /\ Rest(Nobody)
    /\ cooldown' = [cooldown EXCEPT ![c] = Refresh] /\ refreshIn' = 0
    /\ UNCHANGED <<twitch, lists, drops, faults>>

\* Another channel measures its stall anew.
Playback(c) ==
    /\ pc = "watch" /\ Chosen(c) /\ Credited(c)
    /\ watching' = c
    /\ IF c = watching THEN UNCHANGED <<progress, age>> ELSE progress' = NoProgress /\ age' = 0
    /\ IF fresh /\ Eligible # {}
       THEN pc' = "progress" /\ shown' = c /\ rivals' = (Eligible # {c}) /\ UNCHANGED <<failures, fresh, wall>>
       ELSE Rest(c)
    /\ UNCHANGED <<awarded, cached, window, lists, drops, cooldown, refreshIn, faults>>

\* Mutant: playing a channel counts as a minute of the drop that is next.
ToldByTheClock ==
    [d \in Drops |-> IF mins[d] < Need /\ Unlocked(d, done) THEN mins[d] + 1 ELSE mins[d]]

\* What the session of the channel says, if it is not behind the inventory.
Told ==
    [d \in Drops |-> IF d = current[watching][1] /\ mins[d] < current[watching][2]
                     THEN current[watching][2] ELSE mins[d]]

\* Progress is what Twitch says it is; any change of it counts.
UpdateProgress ==
    /\ pc = "progress" /\ pc' = "reclaim"
    /\ mins' = Told
    /\ IF mins' # progress THEN progress' = mins' /\ age' = 0 ELSE UNCHANGED <<progress, age>>
    /\ UNCHANGED <<twitch, lists, details, known, done, claimed, cooldown, refreshIn,
                   watching, failures, shown, local, faults>>

\* A channel without progress makes room for the others, if there are any.
\* Mutant: only the playlist is fetched anew.
PenaltyNone(c) == cooldown
Penalty(c)     == IF rivals THEN [cooldown EXCEPT ![c] = Stall] ELSE cooldown

StallCheck ==
    /\ pc = "stall" /\ Rest(shown)
    /\ IF age >= Stall THEN Unwatched /\ cooldown' = Penalty(watching)
       ELSE UNCHANGED <<choice, cooldown>>
    /\ UNCHANGED <<twitch, lists, drops, refreshIn, faults>>

-----------------------------------------------------------------------------
Refreshing == RefreshChannels \/ ChannelsFail \/ InventoryIsCurrent \/ InventoryLags \/ InventoryFails
              \/ RefreshSessions \/ Claim
Watching   == NothingToWatch \/ UpdateProgress \/ Reclaim \/ StallCheck
              \/ \E c \in Channels : PlaybackFails(c) \/ Playback(c)
Step       == Refreshing \/ Watching \/ Wait

Next == Step \/ WindowMoves

Spec == Init /\ [][Next]_vars /\ WF_vars(Step)

-----------------------------------------------------------------------------
(* Properties *)

\* "No progress is invented": whatever is combined from the inventory, the current
\* session and claims, a drop never counts more minutes than Twitch has credited.
ProgressIsCredited == \A d \in Drops : mins[d] <= minutes[d]

\* A drop that counts as claimed was awarded, and a confirmed claim is neither undone
\* by an inventory that lags behind nor forgotten over a refresh that fails.
ClaimsAreTrue == done \subseteq awarded /\ (known => claimed \subseteq done)

\* A drop that has its minutes is claimed, through lost requests and answers, as long
\* as Twitch accepts the claim.
EarnedIsClaimed ==
    []<>(pc = "ended" \/ \A d \in Drops : Awardable(d) => d \in awarded)

\* No channel is played for ever without progress while another one could be: when
\* all are on the air and advertise the campaign, and it is never completed, each
\* is given up again and again.
StalledIsLeft ==
    \A c \in Channels :
        <>[](Earnable /\ pc # "ended" /\ advertised = Channels) => []<>(shown # c)
=============================================================================
