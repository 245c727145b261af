------------------------- MODULE FarmConfiguration -------------------------
(***************************************************************************)
(* What the control room configures (controller/services.py): accounts     *)
(* with their credentials and their source of channels, presets, the farm  *)
(* defaults, and the requests that each change makes of the worker.        *)
(*                                                                         *)
(* Every service is one IMMEDIATE transaction, hence one action; a         *)
(* ValidationError rolls it back, so its condition is a guard.  A list of  *)
(* channels, a password and a name are opaque values.  How requests are    *)
(* queued, coalesced and executed is the matter of CommandQueue and        *)
(* MinerSupervisor: here the worker only takes them.                       *)
(***************************************************************************)
EXTENDS Naturals, FiniteSets

CONSTANTS
    Keys,           \* config keys; an account is known by its key, which never changes
    Usernames,      \* names at Twitch
    Passwords,
    Lists,          \* lists of channels, none of them empty
    Names,          \* of presets
    NoPassword,     \* the account has no credential
    TvLogin,        \* the credential of a TV login, which stores no password
    NoList,         \* the empty list
    NoName,
    MaxPresets,     \* presets that may ever be created: their ids are not reused
    MaxEdits        \* changes made in the control room

ASSUME ConfigurationAssumption ==
    /\ Keys \subseteq Usernames     \* an account that only has a state is named by its key
    /\ {NoPassword, TvLogin} \cap Passwords = {} /\ NoPassword # TvLogin
    /\ NoList \notin Lists /\ NoName \notin Names
    /\ MaxPresets \in Nat /\ MaxEdits \in Nat

VARIABLES
    account,        \* MinerAccount, AccountCredential, AccountChannelSelection and
                    \* AccountCustomChannel: a row for each key in use
    preset,         \* ChannelPreset and PresetChannel: a row for each id in use
    nextPreset,
    settings,       \* FarmConfiguration
    seed,           \* AccountSessionSeed: the username it was validated for
    running,        \* desired state, as the set of accounts that are to run
    asked,          \* accounts with a start, restart or authentication to be executed
    live,           \* accounts with a current run
    history,        \* accounts with runs, commands, incidents or entries in ActionLog
    logged,         \* what ActionLog says was touched since the last import
    edits

rows     == <<account, preset, nextPreset, settings>>
intent   == <<running, asked, live>>
farmVars == <<rows, seed, intent, history, logged, edits>>

None == 0       \* no preset
Ids  == 1..MaxPresets

Selections == [mode : {"default", "custom"}, preset : {None}] \cup [mode : {"preset"}, preset : Ids]

Rows ==
    [username : Usernames, password : Passwords \cup {NoPassword, TvLogin}, active : BOOLEAN,
     source : Selections, custom : Lists \cup {NoList},
     printed : BOOLEAN,         \* configuration_fingerprint is not empty
     revision : Nat]

Settings == [channels : Lists \cup {NoList}, autostart : BOOLEAN]

Accounts == DOMAIN account
Presets  == DOMAIN preset

FarmTypeOK ==
    /\ Accounts \subseteq Keys /\ \A k \in Accounts : account[k] \in Rows
    /\ Presets \subseteq Ids /\ \A i \in Presets : preset[i] \in [name : Names, channels : Lists]
    /\ nextPreset \in 1..(MaxPresets + 1)
    /\ settings \in Settings
    /\ DOMAIN seed \subseteq Accounts /\ \A k \in DOMAIN seed : seed[k] \in Usernames
    /\ running \cup asked \cup live \cup history \subseteq Accounts
    /\ logged \in [accounts : SUBSET Keys, presets : SUBSET Ids, settings : BOOLEAN]
    /\ edits \in 0..MaxEdits

Empty    == [x \in {} |-> 0]
Nothing  == [accounts |-> {}, presets |-> {}, settings |-> FALSE]
Default  == [mode |-> "default", preset |-> None]
Custom   == [mode |-> "custom", preset |-> None]
Preset(i) == [mode |-> "preset", preset |-> i]

\* An account that the migration to the control room has made inert.
Shell(k) ==
    [username |-> k, password |-> NoPassword, active |-> FALSE, source |-> Default,
     custom |-> NoList, printed |-> FALSE, revision |-> 1]

FarmInit ==
    /\ \E S \in {{}} \cup {{k} : k \in Keys} : account = [k \in S |-> Shell(k)]
    /\ preset = Empty /\ nextPreset = 1
    /\ settings = [channels |-> NoList, autostart |-> FALSE]
    /\ seed = Empty
    /\ running = {} /\ asked = {} /\ live = {} /\ history = {}
    /\ logged = Nothing /\ edits = 0

-----------------------------------------------------------------------------
(* resolve_channels, of an account a with the presets p and the defaults d *)

ChannelsOf(a, p, d) ==
    CASE a.source.mode = "default" -> d.channels
      [] a.source.mode = "custom"  -> a.custom
      [] OTHER                     -> p[a.source.preset].channels

CanLaunch(a, p, d) == a.active /\ a.password # NoPassword /\ ChannelsOf(a, p, d) # NoList

Launchable(k) == CanLaunch(account[k], preset, settings)

\* What is launched; the fingerprint is computed from it.
LaunchSpec(k) ==
    LET a == account[k]
    IN [username |-> a.username, mode |-> a.source.mode, channels |-> ChannelsOf(a, preset, settings),
        name |-> IF a.source.mode = "preset" THEN preset[a.source.preset].name ELSE NoName]

\* _refresh_account_fingerprint: also one that cannot be launched has a fingerprint, if it
\* does not take the channels of the farm.
Printed(a, p, d) == [a EXCEPT !.printed = CanLaunch(a, p, d) \/ a.source # Default]

Revised(a, p, d) == [Printed(a, p, d) EXCEPT !.revision = @ + 1]

-----------------------------------------------------------------------------
(* Rows are changed, and those who run with them are asked to restart *)

Edit == edits < MaxEdits /\ edits' = edits + 1

Logs(K, I, s) ==
    logged' = [accounts |-> logged.accounts \cup K, presets |-> logged.presets \cup I,
               settings |-> logged.settings \/ s]

\* enqueue_command refuses what could not be launched.
Asks(K) ==
    /\ \A k \in K : Launchable(k)'
    /\ running' = running \cup K /\ asked' = asked \cup K
    /\ UNCHANGED live

Restarts(K) == Asks(K \cap running)

\* The rows of the accounts in K become the new ones, for which the presets p and the
\* defaults d count.
Rewrite(K, new, p, d) ==
    account' = [k \in Accounts |-> IF k \in K THEN Revised(new[k], p, d) ELSE account[k]]

Selecting(i) == {k \in Accounts : account[k].source = Preset(i)}
UsedBy(u)    == {k \in Accounts : account[k].username = u}
Named(n)     == {i \in Presets : preset[i].name = n}
Active(K)    == {k \in K : account[k].active}

Sources == {Default, Custom} \cup {Preset(i) : i \in Presets}

-----------------------------------------------------------------------------
(* Accounts *)

NewRow(u, p) ==
    [username |-> u, password |-> p, active |-> TRUE, source |-> Default, custom |-> NoList,
     printed |-> FALSE, revision |-> 1]

\* The list only counts for a custom source; the custom channels of an account are
\* kept when it leaves them.
Select(a, s, l) == [a EXCEPT !.source = s, !.custom = IF s = Custom THEN l ELSE @]

CreateAccount(k, u, p, s, l, start) ==
    /\ Edit
    /\ k \notin Accounts /\ UsedBy(u) = {}
    /\ LET new == IF s = Default THEN Printed(NewRow(u, p), preset, settings)
                  ELSE Revised(Select(NewRow(u, p), s, l), preset, settings)
       IN account' = [x \in Accounts \cup {k} |-> IF x = k THEN new ELSE account[x]]
    /\ history' = history \cup {k} /\ Logs(IF s = Default THEN {} ELSE {k}, {}, FALSE)
    /\ UNCHANGED <<preset, nextPreset, settings, seed>>
    /\ Asks(IF start THEN {k} ELSE {})

Unseeded(K) == [k \in DOMAIN seed \ K |-> seed[k]]

\* Without a password the old one is kept; a session that was imported belongs to the
\* old name.
\* Mutant: it goes over to the new name.
RenamesNobody(k, u) == {}
Renames(k, u)       == IF account[k].username = u THEN {} ELSE {k}

UpdateAccount(k, u, p) ==
    /\ Edit
    /\ k \in Active(Accounts) /\ UsedBy(u) \subseteq {k}
    /\ p # NoPassword => account[k].password # TvLogin
    /\ LET new == [account[k] EXCEPT !.username = u, !.password = IF p = NoPassword THEN @ ELSE p]
       IN account' = [account EXCEPT ![k] = Printed(new, preset, settings)]
    /\ seed' = Unseeded(Renames(k, u))
    /\ history' = history \cup {k} /\ Logs({k}, {}, FALSE)
    /\ UNCHANGED <<preset, nextPreset, settings>>
    /\ Restarts(IF account[k].username # u \/ p # NoPassword THEN {k} ELSE {})

RequestTvAuthentication(k) ==
    /\ Edit
    /\ k \in Active(Accounts)
    /\ account' = [account EXCEPT ![k].password = TvLogin]
    /\ history' = history \cup {k}
    /\ UNCHANGED <<preset, nextPreset, settings, seed, logged>>
    /\ Asks({k})

SetSource(k, s, l) ==
    /\ Edit
    /\ k \in Active(Accounts)
    /\ Rewrite({k}, [account EXCEPT ![k] = Select(@, s, l)], preset, settings)
    /\ history' = history \cup {k} /\ Logs({k}, {}, FALSE)
    /\ UNCHANGED <<preset, nextPreset, settings, seed>>
    /\ Restarts({k})

-----------------------------------------------------------------------------
(* Presets and defaults *)

\* preset_assignments: of the accounts that can be chosen, those in S shall have it.
Assign(i, S) ==
    /\ Edit
    /\ i \in Presets /\ S \subseteq {k \in Active(Accounts) : account[k].password # NoPassword}
    /\ LET left    == Active(Selecting(i)) \ S
           entered == S \ Selecting(i)
           Assigned == [k \in Accounts |->
                IF k \in left THEN Revised(Select(account[k], Default, NoList), preset, settings)
                ELSE IF k \in entered THEN Revised(Select(account[k], Preset(i), NoList), preset, settings)
                ELSE account[k]]
       IN /\ account' = Assigned
          /\ UNCHANGED <<preset, nextPreset, settings, seed>>
          /\ history' = history \cup left \cup entered /\ Logs(left \cup entered, {}, FALSE)
          /\ Restarts(left \cup entered)

CreatePreset(n, l) ==
    /\ Edit
    /\ Named(n) = {} /\ nextPreset <= MaxPresets
    /\ preset' = [i \in Presets \cup {nextPreset} |->
                    IF i = nextPreset THEN [name |-> n, channels |-> l] ELSE preset[i]]
    /\ nextPreset' = nextPreset + 1
    /\ UNCHANGED <<account, settings, seed, intent, history, logged>>

\* A preset concerns every account that has selected it, archived ones too.
\* Mutant: only its channels do, not its name.
ConcernedByChannels(i, n, l) == IF preset[i].channels = l THEN {} ELSE Selecting(i)
Concerned(i, n, l)           == Selecting(i)

EditPreset(i, n, l) ==
    /\ Edit
    /\ i \in Presets /\ Named(n) \subseteq {i}
    /\ preset' = [preset EXCEPT ![i] = [name |-> n, channels |-> l]]
    /\ UNCHANGED <<nextPreset, settings, seed>>
    /\ LET K == Concerned(i, n, l)
       IN /\ Rewrite(K, account, preset', settings)
          /\ history' = history \cup (K \cap running) /\ Logs({}, {i}, FALSE)
          /\ Restarts(K)

DeletePreset(i) ==
    /\ Edit
    /\ i \in Presets /\ Selecting(i) = {}
    /\ preset' = [x \in Presets \ {i} |-> preset[x]]
    /\ Logs({}, {i}, FALSE)
    /\ UNCHANGED <<account, nextPreset, settings, seed, intent, history>>

UpdateSettings(l, a) ==
    /\ Edit
    /\ settings' = [channels |-> l, autostart |-> a] /\ settings' # settings
    /\ UNCHANGED <<preset, nextPreset, seed>>
    /\ LET K == IF l = settings.channels THEN {}
                ELSE {k \in Active(Accounts) : account[k].source = Default}
       IN /\ Rewrite(K, account, preset, settings')
          /\ history' = history \cup (K \cap running) /\ Logs({}, {}, TRUE)
          /\ Restarts(K)

-----------------------------------------------------------------------------
(* Requests, and the worker *)

Start(k) ==
    /\ k \in Accounts
    /\ history' = history \cup {k}
    /\ UNCHANGED <<rows, seed, logged, edits>>
    /\ Asks({k})

\* What was queued is cancelled.
Stops(K) == running' = running \ K /\ asked' = asked \ K /\ UNCHANGED live

Stop(k) ==
    /\ k \in Accounts
    /\ Stops({k})
    /\ history' = history \cup {k}
    /\ UNCHANGED <<rows, seed, logged, edits>>

\* A child is launched, in answer to a request or instead of a dead one.
Launch(k) ==
    /\ k \in running /\ Launchable(k)
    /\ account' = [account EXCEPT ![k].printed = TRUE]
    /\ asked' = asked \ {k} /\ live' = live \cup {k} /\ history' = history \cup {k}
    /\ UNCHANGED <<preset, nextPreset, settings, seed, running, logged, edits>>

\* The child takes the session over; a TV login throws it away.
ConsumeSeed(k) ==
    /\ k \in live \cap DOMAIN seed
    /\ seed' = Unseeded({k})
    /\ UNCHANGED <<rows, intent, history, logged, edits>>

\* The run ends, with the account turned off if its login was refused.
End(k) ==
    /\ k \in live /\ live' = live \ {k}
    /\ running' \in {running, running \ {k}}
    /\ UNCHANGED <<rows, seed, asked, history, logged, edits>>

-----------------------------------------------------------------------------
ControlRoom ==
    \/ \E k \in Keys, u \in Usernames, p \in Passwords \cup {TvLogin}, s \in Sources, l \in Lists,
          start \in BOOLEAN : CreateAccount(k, u, p, s, l, start)
    \/ \E k \in Keys, u \in Usernames, p \in Passwords \cup {NoPassword} : UpdateAccount(k, u, p)
    \/ \E k \in Keys, s \in Sources, l \in Lists : SetSource(k, s, l)
    \/ \E k \in Keys : RequestTvAuthentication(k)
    \/ \E i \in Ids, S \in SUBSET Keys : Assign(i, S)
    \/ \E n \in Names, l \in Lists : CreatePreset(n, l) \/ \E i \in Ids : EditPreset(i, n, l)
    \/ \E i \in Ids : DeletePreset(i)
    \/ \E l \in Lists, a \in BOOLEAN : UpdateSettings(l, a)

Requests == \E k \in Keys : Start(k) \/ Stop(k)
Worker   == \E k \in Keys : Launch(k) \/ ConsumeSeed(k) \/ End(k)

FarmNext == ControlRoom \/ Requests \/ Worker

-----------------------------------------------------------------------------
(* Properties *)

\* Whatever is to run can be launched: an account that is archived, or loses its
\* credential or its last channels, is stopped with it, also by an import.
RunningIsLaunchable == \A k \in running : Launchable(k)

\* A session that was imported is only handed to a child of the user it belongs to.
SeedMatchesUser == \A k \in DOMAIN seed : seed[k] = account[k].username

\* No account goes on to run with another name, channels or preset without being asked
\* to restart: whatever changes them queues the request in the same transaction, or
\* stops the account.
ChangesAreAsked ==
    [][\A k \in running \cap running' :
            LaunchSpec(k)' # LaunchSpec(k) => k \in asked']_farmVars
=============================================================================
