---------------------------- MODULE LegacyImport ----------------------------
(***************************************************************************)
(* The import of legacy archives (controller/legacy_import.py): a draft is *)
(* previewed against the database, reviewed, and confirmed once, while the *)
(* control room and the worker go on.  What an import has written is       *)
(* remembered in a ledger, so that the next import knows which rows it may *)
(* change: those that it wrote itself and that nobody has touched since.   *)
(*                                                                         *)
(* An archive is a parsed payload; reading the ZIP is left out.            *)
(***************************************************************************)
EXTENDS FarmConfiguration

CONSTANTS
    Archives,       \* payloads, see Payload
    Drafts,         \* drafts that may exist at a time
    MaxImports      \* imports that are applied

\* Of config.yaml; a cookie is that of the account's user.
Configured(x) ==
    /\ DOMAIN x.accounts \subseteq Keys /\ IsFiniteSet(DOMAIN x.accounts)
    /\ \A k \in DOMAIN x.accounts :
            x.accounts[k] \in [username : Usernames, password : Passwords,
                               cookie : {"none", "valid", "invalid"}]
    /\ \A j, k \in DOMAIN x.accounts : x.accounts[j].username = x.accounts[k].username => j = k
    /\ x.settings \in Settings

\* Of presets.json.
HasPresets(x) ==
    DOMAIN x.presets \subseteq Names /\ \A n \in DOMAIN x.presets : x.presets[n] \in Lists

\* Of state.json: the sources of channels.
HasStates(x) ==
    /\ DOMAIN x.states \subseteq Keys /\ IsFiniteSet(DOMAIN x.states)
    /\ \A k \in DOMAIN x.states :
            /\ x.states[k] \in [mode : {"default", "custom", "preset"},
                                 preset : DOMAIN x.presets \cup {NoName}, custom : Lists \cup {NoList}]
            /\ x.states[k].mode = "preset" <=> x.states[k].preset # NoName
            /\ x.states[k].mode = "custom" => x.states[k].custom # NoList

Payload(x) == Configured(x) /\ HasPresets(x) /\ HasStates(x)

ASSUME ImportAssumption ==
    /\ \A x \in Archives : Payload(x)
    /\ MaxImports \in Nat

VARIABLES
    ledger,     \* ImportOwnership, in the last legacy_import entry of ActionLog
    imports,    \* such entries; none means that there is no ledger
    drafts,     \* LegacyImportDraft rows that are neither used nor discarded
    \* history variables: what the control room has created or changed and no import has
    \* written since, and whether it has changed anything since the last import
    ours, intact

importVars == <<ledger, imports, drafts, ours, intact>>
vars       == <<farmVars, importVars>>

NoDraft == [source |-> 0]

-----------------------------------------------------------------------------
(* What is compared *)

\* _account_semantic: the configuration of an account, with the name of its preset.
Semantic(k) ==
    LET a == account[k]
    IN [username |-> a.username, password |-> a.password, active |-> a.active,
        mode |-> a.source.mode, custom |-> a.custom,
        preset |-> IF a.source.mode = "preset" THEN preset[a.source.preset].name ELSE NoName]

\* What the control room itself decides of an account.
Chosen(k) ==
    <<account[k].username, account[k].password, account[k].active, account[k].source, account[k].custom>>

NoState == [mode |-> "default", preset |-> NoName, custom |-> NoList]

\* A state without an account in config.yaml makes an archived account.
Wanted(x, k) ==
    LET configured == k \in DOMAIN x.accounts
        st == IF k \in DOMAIN x.states THEN x.states[k] ELSE NoState
    IN [username |-> IF configured THEN x.accounts[k].username ELSE k,
        password |-> IF configured THEN x.accounts[k].password ELSE NoPassword,
        active |-> configured, mode |-> st.mode, preset |-> st.preset, custom |-> st.custom]

Cookie(x, k) == IF k \in DOMAIN x.accounts THEN x.accounts[k].cookie ELSE "none"

\* A new account whose cookie is not valid is left out.
Desired(x) ==
    {k \in DOMAIN x.accounts \cup DOMAIN x.states : k \in Accounts \/ Cookie(x, k) # "invalid"}

\* The row is as the last import left it, and nobody has touched it in between.
AccountIsIntact(k) ==
    k \in DOMAIN ledger.accounts /\ ledger.accounts[k] = Semantic(k) /\ k \notin logged.accounts

PresetIsIntact(i) ==
    i \in DOMAIN ledger.presets /\ ledger.presets[i] = preset[i] /\ i \notin logged.presets

SettingsAreIntact == ledger.settingsOwned /\ ~logged.settings /\ ledger.settings = settings

LegacyShell(x, k) ==
    /\ k \in DOMAIN x.accounts /\ ~account[k].active /\ account[k].password = NoPassword
    /\ account[k].username = x.accounts[k].username /\ ~account[k].printed

HasHistory(k) == k \in history

-----------------------------------------------------------------------------
(* _build_diff_plan *)

UsernameTaken(x, k) == UsedBy(Wanted(x, k).username) # {}

AccountsCreated(x) == {k \in Desired(x) \ Accounts : ~UsernameTaken(x, k)}
AccountsEqual(x)   == {k \in Desired(x) \cap Accounts : Semantic(k) = Wanted(x, k)}
AccountsUpdated(x) ==
    {k \in (Desired(x) \cap Accounts) \ AccountsEqual(x) :
        \/ k \in ledger.mutableAccounts /\ AccountIsIntact(k)
        \/ LegacyShell(x, k)}

PresetsNamed(S)   == {i \in Presets : preset[i].name \in S}
PresetsCreated(x) == {n \in DOMAIN x.presets : Named(n) = {}}
PresetsEqual(x)   == {i \in PresetsNamed(DOMAIN x.presets) : preset[i].channels = x.presets[preset[i].name]}
PresetsUpdated(x) ==
    {i \in PresetsNamed(DOMAIN x.presets) \ PresetsEqual(x) :
        i \in ledger.mutablePresets /\ PresetIsIntact(i)}

\* What an earlier import created and this one does not have.
AccountsLeft(x) == (ledger.createdAccounts \cap Accounts) \ Desired(x)
PresetsLeft(x)  == (ledger.createdPresets \cap Presets) \ PresetsNamed(DOMAIN x.presets)

\* Mutant: only runs count as history, not what was asked or changed.
RemovedIfIdle(x)       == {k \in AccountsLeft(x) : k \notin live}
AccountsRemoved(x)     == {k \in AccountsLeft(x) : ~HasHistory(k)}
AccountsPreserved(x)   == AccountsLeft(x) \ AccountsRemoved(x)
PresetsRemoved(x)      == {i \in PresetsLeft(x) : Selecting(i) = {}}

SettingsUpdated(x) ==
    x.settings # settings /\ (settings = [channels |-> NoList, autostart |-> FALSE] \/ SettingsAreIntact)

Conflicts(x) ==
    \/ Desired(x) # AccountsCreated(x) \cup AccountsEqual(x) \cup AccountsUpdated(x)
    \/ PresetsNamed(DOMAIN x.presets) # PresetsEqual(x) \cup PresetsUpdated(x)
    \/ \E k \in AccountsLeft(x) : ~AccountIsIntact(k)
    \/ \E i \in PresetsLeft(x) : ~PresetIsIntact(i)
    \/ x.settings # settings /\ ~SettingsUpdated(x)

RequiresStop(k) == k \in running \cup live

\* Accounts that are not imported but take the defaults, or a preset, that change.
AccountsReset(x) ==
    {k \in Active(Accounts) :
        /\ RequiresStop(k)
        /\ \/ SettingsUpdated(x) /\ account[k].source = Default
           \/ \E i \in PresetsUpdated(x) : account[k].source = Preset(i)}

\* The preview: the accounts and presets that are touched, how, who is stopped, and
\* whether something forbids it.
Plan(x) ==
    [created |-> AccountsCreated(x), updated |-> AccountsUpdated(x),
     removed |-> AccountsRemoved(x), preserved |-> AccountsPreserved(x),
     presetsCreated |-> PresetsCreated(x), presetsUpdated |-> PresetsUpdated(x),
     presetsRemoved |-> PresetsRemoved(x), settings |-> SettingsUpdated(x),
     stopped |-> AccountsReset(x)
                 \cup {k \in AccountsUpdated(x) \cup AccountsPreserved(x) : RequiresStop(k)},
     conflicts |-> Conflicts(x)]

NoChange ==
    [created |-> {}, updated |-> {}, removed |-> {}, preserved |-> {},
     presetsCreated |-> {}, presetsUpdated |-> {}, presetsRemoved |-> {}, settings |-> FALSE,
     stopped |-> {}, conflicts |-> FALSE]

-----------------------------------------------------------------------------
(* Drafts *)

\* _database_snapshot: the rows that the archive names, and those of the last import.
Snapshot(x) ==
    LET K == {k \in Accounts :
                \/ k \in DOMAIN x.accounts \cup DOMAIN x.states \cup DOMAIN ledger.accounts
                \/ \E j \in DOMAIN x.accounts : x.accounts[j].username = account[k].username}
        I == PresetsNamed(DOMAIN x.presets) \cup (DOMAIN ledger.presets \cap Presets)
    IN [imports |-> imports, settings |-> settings,
        accounts |-> [k \in K |-> <<Semantic(k), account[k].revision, account[k].printed>>],
        seeds |-> K \cap DOMAIN seed, running |-> K \cap running, live |-> K \cap live,
        presets |-> [i \in I |-> <<preset[i], Cardinality(Selecting(i))>>]]

Prepare(d, x) ==
    /\ drafts[d] = NoDraft /\ imports < MaxImports
    /\ drafts' = [drafts EXCEPT ![d] = [source |-> x, baseline |-> Snapshot(x), preview |-> Plan(x)]]
    /\ UNCHANGED <<farmVars, ledger, imports, ours, intact>>

\* A draft is deleted, expires or is purged.
Discard(d) ==
    /\ drafts[d] # NoDraft
    /\ drafts' = [drafts EXCEPT ![d] = NoDraft]
    /\ UNCHANGED <<farmVars, ledger, imports, ours, intact>>

-----------------------------------------------------------------------------
(* _apply_diff_plan *)

\* Names of presets to ids, among them the new ones.
PresetIds(x) ==
    {f \in [DOMAIN x.presets -> Ids] :
        /\ \A n \in DOMAIN x.presets :
                IF Named(n) = {} THEN f[n] \in nextPreset..(nextPreset + Cardinality(PresetsCreated(x)) - 1)
                ELSE f[n] \in Named(n)
        /\ \A m, n \in DOMAIN x.presets : f[m] = f[n] => m = n}

\* Mutant: the custom channels of an account that does not use them are not written.
ImportedInUse(x, k, ids) ==
    LET w == Wanted(x, k)
    IN [username |-> w.username, password |-> w.password, active |-> w.active,
        custom |-> IF w.mode = "custom" THEN w.custom ELSE NoList,
        source |-> IF w.mode = "preset" THEN Preset(ids[w.preset]) ELSE [mode |-> w.mode, preset |-> None],
        printed |-> FALSE, revision |-> IF k \in Accounts THEN account[k].revision + 1 ELSE 2]
Imported(x, k, ids) ==
    LET w == Wanted(x, k)
    IN [username |-> w.username, password |-> w.password, active |-> w.active, custom |-> w.custom,
        source |-> IF w.mode = "preset" THEN Preset(ids[w.preset]) ELSE [mode |-> w.mode, preset |-> None],
        printed |-> FALSE, revision |-> IF k \in Accounts THEN account[k].revision + 1 ELSE 2]

Archived(a) ==
    [a EXCEPT !.source = Default, !.custom = NoList, !.active = FALSE, !.printed = FALSE,
              !.revision = @ + 1]

WriteAccounts(x, ids) ==
    LET written == AccountsCreated(x) \cup AccountsUpdated(x)
    IN account' = [k \in (Accounts \cup written) \ AccountsRemoved(x) |->
                    IF k \in written THEN Imported(x, k, ids)
                    ELSE IF k \in AccountsPreserved(x) THEN Archived(account[k]) ELSE account[k]]

\* A preset that is in use by now stays.
WritePresets(x, ids) ==
    LET new == {ids[n] : n \in PresetsCreated(x)}
        kept == {i \in Presets : i \in PresetsRemoved(x) => \E k \in DOMAIN account' : account'[k].source = Preset(i)}
    IN /\ preset' = [i \in kept \cup new |->
                        IF \E n \in DOMAIN x.presets : ids[n] = i
                        THEN LET n == CHOOSE n \in DOMAIN x.presets : ids[n] = i
                             IN [name |-> n, channels |-> x.presets[n]]
                        ELSE preset[i]]
       /\ nextPreset' = nextPreset + Cardinality(new)

Renamed(x) == {k \in AccountsUpdated(x) : account[k].username # Wanted(x, k).username}

\* A session that was not used yet goes with its account, or with its name.
\* Mutant: only with its name.
OutdatedByName(x) == Renamed(x)
Outdated(x)  == Renamed(x) \cup AccountsRemoved(x)

\* The session of a new account comes along.
WriteSeeds(x) ==
    LET new == {k \in AccountsCreated(x) : Cookie(x, k) = "valid"}
    IN seed' = [k \in (DOMAIN seed \ Outdated(x)) \cup new |->
                    IF k \in new THEN Wanted(x, k).username ELSE seed[k]]

\* Everyone whose configuration changes is stopped: the accounts that are written, and
\* the active ones that take what is replaced.
\* Mutant: an account is archived as it runs.
StoppedIfKept(x) == AccountsReset(x) \cup AccountsUpdated(x)
Stopped(x)       == AccountsReset(x) \cup AccountsUpdated(x) \cup AccountsPreserved(x)

StopForImport(x) ==
    /\ running' = running \ (Stopped(x) \cup AccountsRemoved(x))
    /\ asked' = asked \ (Stopped(x) \cup AccountsRemoved(x))
    /\ live' = live \ AccountsRemoved(x)
    /\ history' = (history \cup {k \in Stopped(x) : RequiresStop(k)}) \ AccountsRemoved(x)

\* What has been written is owned from now on; rows that are equal stay owned as far as
\* they were, unless they have been touched.
Ledger(x, ids) ==
    LET equal    == {k \in AccountsEqual(x) : AccountIsIntact(k)}
        equalP   == {i \in PresetsEqual(x) : PresetIsIntact(i)}
        newP     == {ids[n] : n \in PresetsCreated(x)}
        owns     == SettingsUpdated(x) \/ (ledger.settingsOwned /\ ~logged.settings /\ ledger.settings = settings')
    IN [source |-> x,
        accounts |-> [k \in Desired(x) |-> Semantic(k)'],
        createdAccounts |-> AccountsCreated(x) \cup ((AccountsUpdated(x) \cup equal) \cap ledger.createdAccounts),
        mutableAccounts |-> AccountsCreated(x) \cup AccountsUpdated(x) \cup (equal \cap ledger.mutableAccounts),
        presets |-> [i \in {ids[n] : n \in DOMAIN x.presets} |-> preset'[i]],
        createdPresets |-> newP \cup ((PresetsUpdated(x) \cup equalP) \cap ledger.createdPresets),
        mutablePresets |-> newP \cup PresetsUpdated(x) \cup (equalP \cap ledger.mutablePresets),
        settingsOwned |-> owns, settings |-> IF owns THEN settings' ELSE [channels |-> NoList, autostart |-> FALSE]]

\* The database is as it was previewed, as far as the snapshot shows.
\* Mutant: it is enough that no other import came in between.
FreshIfNoImport(d) == drafts[d].baseline.imports = imports
Fresh(d)           == drafts[d].baseline = Snapshot(drafts[d].source)

\* The typed confirmation that a replacement demands is left out.
Confirmable(d) == drafts[d] # NoDraft /\ Fresh(d) /\ ~Plan(drafts[d].source).conflicts

ConfirmNothing(d) ==
    /\ Confirmable(d) /\ Plan(drafts[d].source) = NoChange
    /\ drafts' = [drafts EXCEPT ![d] = NoDraft]
    /\ UNCHANGED <<farmVars, ledger, imports, ours, intact>>

Confirm(d) ==
    LET x == drafts[d].source IN
    /\ Confirmable(d) /\ Plan(x) # NoChange
    /\ \E ids \in PresetIds(x) :
        /\ WriteAccounts(x, ids) /\ WritePresets(x, ids) /\ WriteSeeds(x) /\ StopForImport(x)
        /\ settings' = IF SettingsUpdated(x) THEN x.settings ELSE settings
        /\ ledger' = Ledger(x, ids)
    /\ imports' = imports + 1 /\ logged' = Nothing
    /\ drafts' = [drafts EXCEPT ![d] = NoDraft]
    /\ ours' = [accounts |-> ours.accounts \ (AccountsUpdated(x) \cup AccountsRemoved(x) \cup AccountsPreserved(x)),
                presets |-> ours.presets \ PresetsUpdated(x),
                settings |-> ours.settings /\ ~SettingsUpdated(x)]
    /\ intact' = TRUE
    /\ UNCHANGED edits

-----------------------------------------------------------------------------
NoLedger ==
    [source |-> 0, accounts |-> Empty, createdAccounts |-> {}, mutableAccounts |-> {},
     presets |-> Empty, createdPresets |-> {}, mutablePresets |-> {},
     settingsOwned |-> FALSE, settings |-> [channels |-> NoList, autostart |-> FALSE]]

Init ==
    /\ FarmInit
    /\ ledger = NoLedger /\ imports = 0
    /\ drafts = [d \in Drafts |-> NoDraft]
    /\ ours = Nothing /\ intact = TRUE

\* The control room changes something that it then owns.
Edited ==
    /\ ControlRoom
    /\ ours' = [accounts |-> ours.accounts
                    \cup {k \in Accounts' : k \in Accounts => Chosen(k)' # Chosen(k)},
                presets |-> ours.presets \cup {i \in Presets' : i \in Presets => preset'[i] # preset[i]},
                settings |-> ours.settings \/ settings' # settings]
    /\ intact' = FALSE
    /\ UNCHANGED <<ledger, imports, drafts>>

GoesOn == (Requests \/ Worker) /\ UNCHANGED importVars

Next ==
    \/ Edited \/ GoesOn
    \/ \E d \in Drafts : (\E x \in Archives : Prepare(d, x)) \/ Discard(d) \/ ConfirmNothing(d) \/ Confirm(d)

Spec == Init /\ [][Next]_vars

-----------------------------------------------------------------------------
(* Properties *)

LedgerOK ==
    /\ ledger.mutableAccounts \cup ledger.createdAccounts \subseteq DOMAIN ledger.accounts
    /\ ledger.mutablePresets \cup ledger.createdPresets \subseteq DOMAIN ledger.presets
    /\ DOMAIN ledger.accounts \subseteq Accounts /\ DOMAIN ledger.presets \subseteq Ids
    /\ imports \in 0..MaxImports

\* The rows keep their types, and refer to what exists.
TypeOK ==
    /\ FarmTypeOK /\ LedgerOK
    /\ \A k \in Accounts : account[k].source.preset \in Presets \cup {None}
    /\ \A d \in Drafts : drafts[d] # NoDraft => drafts[d].source \in Archives
    /\ ours \in [accounts : SUBSET Keys, presets : SUBSET Ids, settings : BOOLEAN] /\ intact \in BOOLEAN

\* "Importer ownership prevents legacy data from overwriting UI-created records", and
\* those that were changed in the control room: not even if the change was undone, was
\* made before an import that left the row alone, or came after the preview.  Accounts
\* with a history stay as well.
UIDataIsKept ==
    [][imports' # imports =>
        /\ \A k \in ours.accounts \cap Accounts : k \in Accounts' /\ Chosen(k)' = Chosen(k)
        /\ \A i \in ours.presets \cap Presets : i \in Presets' /\ preset'[i] = preset[i]
        /\ ours.settings => settings' = settings
        /\ history \subseteq Accounts']_vars

\* "A stale preview applies nothing": what an import writes or deletes is what the
\* preview has shown, although the plan is made anew.  One that has shown conflicts
\* is excepted (README, section 5).
AppliedAsReviewed ==
    [][imports' # imports =>
        \E d \in Drafts :
            LET p == drafts[d].preview IN
            /\ drafts[d] # NoDraft /\ drafts'[d] = NoDraft
            /\ \/ p.conflicts
               \/ /\ Accounts' \ Accounts \subseteq p.created /\ Accounts \ Accounts' \subseteq p.removed
                  /\ \A k \in Accounts \cap Accounts' :
                          Semantic(k)' # Semantic(k) => k \in p.updated \cup p.removed \cup p.preserved
                  /\ \A i \in Presets' \ Presets : preset'[i].name \in p.presetsCreated
                  /\ Presets \ Presets' \subseteq p.presetsRemoved
                  /\ \A i \in Presets \cap Presets' : preset'[i] # preset[i] => i \in p.presetsUpdated
                  /\ settings' # settings => p.settings]_vars

\* "An identical intact import is a no-op", and meets no conflict, whatever runs or is
\* stopped meanwhile.
ReimportIsNoOp ==
    imports > 0 /\ intact => Plan(ledger.source) = NoChange
=============================================================================
