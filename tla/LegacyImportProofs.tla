------------------------- MODULE LegacyImportProofs -------------------------
(***************************************************************************)
(* What FarmConfiguration and LegacyImport promise together, for any       *)
(* accounts, archives, drafts and number of edits and imports: the types,  *)
(* that whatever runs can be launched, that no session changes its user,   *)
(* that changes reach those who run, that an import keeps what the control *)
(* room has made, writes no more than its preview has shown, and does      *)
(* nothing the second time.                                                *)
(***************************************************************************)
EXTENDS LegacyImport, FiniteSetTheorems, TLAPS

\* The ids of presets are given out in turn, and their names are distinct.
Numbered ==
    /\ \A i \in Presets : i < nextPreset
    /\ \A i, j \in Presets : preset[i].name = preset[j].name => i = j

FarmShape ==
    /\ FarmTypeOK /\ Numbered /\ IsFiniteSet(Accounts)
    /\ \A k \in Accounts : account[k].source.preset \in Presets \cup {None}

Shape == TypeOK /\ FarmShape

\* What an import may change is what it has written, and nobody has touched since.
LedgerOwns(k) == k \in ledger.mutableAccounts \cup ledger.createdAccounts
LedgerHas(i)  == i \in ledger.mutablePresets \cup ledger.createdPresets

OursAreKnown ==
    /\ \A k \in ours.accounts : k \in Accounts /\ account[k].active
    /\ \A k \in ours.accounts : LedgerOwns(k) => k \in logged.accounts \/ account[k].password = TvLogin
    /\ \A k \in DOMAIN ledger.accounts : ledger.accounts[k].password # TvLogin
    /\ \A i \in ours.presets \cup DOMAIN ledger.presets : i < nextPreset
    /\ \A i \in ours.presets : LedgerHas(i) => i \in logged.presets
    /\ ours.settings => settings.channels # NoList /\ (ledger.settingsOwned => logged.settings)

\* What a preview without conflicts shows, in terms of the snapshot it was made from.
Shows(x, b, p) ==
    LET A == DOMAIN b.accounts
        I == DOMAIN b.presets
        D == {k \in DOMAIN x.accounts \cup DOMAIN x.states : k \in A \/ Cookie(x, k) # "invalid"}
    IN /\ D \ A \subseteq p.created
       /\ \A k \in D \cap A : b.accounts[k][1] # Wanted(x, k) => k \in p.updated
       /\ \A k \in (ledger.createdAccounts \cap A) \ D :
            k \in p.removed \cup p.preserved /\ (k \notin history => k \in p.removed)
       /\ \A n \in DOMAIN x.presets : (\A i \in I : b.presets[i][1].name # n) => n \in p.presetsCreated
       /\ \A i \in I : LET row == b.presets[i][1] IN
            /\ row.name \in DOMAIN x.presets /\ row.channels # x.presets[row.name] => i \in p.presetsUpdated
            /\ i \in ledger.createdPresets /\ row.name \notin DOMAIN x.presets /\ b.presets[i][2] = 0 =>
                 i \in p.presetsRemoved
       /\ x.settings # b.settings => p.settings

\* A preview was made at the number of imports it names; no other came in between unless
\* there are more now.
DraftFits(r) ==
    /\ r.baseline.imports \in 0..imports /\ r.baseline.imports < MaxImports
    /\ r.baseline.imports = imports /\ ~r.preview.conflicts => Shows(r.source, r.baseline, r.preview)

DraftsFit == DOMAIN drafts = Drafts /\ \A d \in Drafts : drafts[d] # NoDraft => DraftFits(drafts[d])

\* The database is as the archive has it, and nothing else is owned.
Mirrors(x) ==
    /\ \A k \in Desired(x) : k \in Accounts /\ Semantic(k) = Wanted(x, k)
    /\ ledger.createdAccounts \subseteq Desired(x)
    /\ \A n \in DOMAIN x.presets : Named(n) # {}
    /\ \A i \in PresetsNamed(DOMAIN x.presets) : preset[i].channels = x.presets[preset[i].name]
    /\ \A i \in ledger.createdPresets \cap Presets : preset[i].name \in DOMAIN x.presets
    /\ settings = x.settings

Mirrored == imports > 0 /\ intact => Mirrors(ledger.source)

ImportInv ==
    /\ Shape /\ RunningIsLaunchable /\ SeedMatchesUser
    /\ OursAreKnown /\ DraftsFit /\ Mirrored

-----------------------------------------------------------------------------
(* Rows and selections *)

USE DEF Accounts, Presets

\* Two rows with the same configuration.
Alike(a, b) ==
    /\ a.username = b.username /\ a.password = b.password /\ a.active = b.active
    /\ a.source = b.source /\ a.custom = b.custom

LEMMA Sourced ==
    /\ Default \in Selections /\ Custom \in Selections
    /\ \A i \in Ids : Preset(i) \in Selections
    /\ \A s \in Selections :
         /\ s.mode \in {"default", "custom", "preset"}
         /\ s.mode = "default" <=> s = Default
         /\ s.mode = "custom" <=> s = Custom
         /\ s.mode = "preset" <=> s.preset \in Ids
         /\ s.mode = "preset" => s = Preset(s.preset)
         /\ s.preset \in Ids \cup {None}
         /\ s.preset = None <=> s.mode # "preset"
         /\ \A i \in Ids : s = Preset(i) <=> s.preset = i
    /\ \A i, j \in Ids : Preset(i) = Preset(j) => i = j
    /\ Ids \subseteq Nat \ {None} /\ None \in Nat
  BY ConfigurationAssumption DEF Default, Custom, Preset, Selections, Ids, None

LEMMA PrintedRow ==
    ASSUME NEW a \in Rows, NEW p, NEW d
    PROVE  Printed(a, p, d) \in Rows /\ Alike(Printed(a, p, d), a)
  BY DEF Printed, Rows, Alike

LEMMA RevisedRow ==
    ASSUME NEW a \in Rows, NEW p, NEW d
    PROVE  Revised(a, p, d) \in Rows /\ Alike(Revised(a, p, d), a)
  <1> DEFINE b == Printed(a, p, d)
  <1>1. b \in Rows /\ Alike(b, a)
    BY PrintedRow
  <1> HIDE DEF b
  <1>2. [b EXCEPT !.revision = @ + 1] \in Rows /\ Alike([b EXCEPT !.revision = @ + 1], a)
    BY <1>1 DEF Rows, Alike
  <1> QED  BY <1>2 DEF Revised, b

LEMMA SelectedRow ==
    ASSUME NEW a \in Rows, NEW s \in Selections, NEW l \in Lists \cup {NoList}
    PROVE  LET b == Select(a, s, l)
           IN  /\ b \in Rows /\ b.source = s
               /\ b.username = a.username /\ b.password = a.password /\ b.active = a.active
  BY DEF Select, Rows

LEMMA MadeRow ==
    ASSUME NEW u \in Usernames, NEW p \in Passwords \cup {TvLogin}
    PROVE  NewRow(u, p) \in Rows
  BY Sourced DEF NewRow, Rows

LEMMA ChosenAlike ==
    ASSUME NEW k, Alike(account'[k], account[k])
    PROVE  Chosen(k)' = Chosen(k)
  BY DEF Alike, Chosen

-----------------------------------------------------------------------------
(* A step of the control room, of a request or of the worker *)

\* The configuration of an account stays, and so does what it takes its channels from.
Stays(k) ==
    /\ k \in Accounts' /\ Alike(account'[k], account[k])
    /\ account[k].source = Default => settings'.channels = settings.channels
    /\ account[k].source # Default /\ account[k].source # Custom =>
         preset'[account[k].source.preset] = preset[account[k].source.preset]

\* Whoever runs goes on as before, or is asked to do something that can be done.
Informs ==
    \A k \in running' : (k \in asked' /\ Launchable(k)') \/ (k \in running /\ Stays(k))

\* A session stays with its user.
SeedsStay ==
    \A k \in DOMAIN seed' :
        k \in DOMAIN seed /\ k \in Accounts /\ seed'[k] = seed[k] /\ account'[k].username = account[k].username

\* What changes by hand is logged, is a TV login, or is new.
ByHand ==
    /\ Accounts \subseteq Accounts' /\ logged.accounts \subseteq logged'.accounts
    /\ \A k \in Accounts : account[k].password = TvLogin => account'[k].password = TvLogin
    /\ \A k \in Accounts : account[k].active => account'[k].active
    /\ \A k \in Accounts' :
         \/ k \in Accounts /\ Chosen(k)' = Chosen(k)
         \/ account'[k].active /\ (k \in Accounts => k \in logged'.accounts \/ account'[k].password = TvLogin)
    /\ nextPreset <= nextPreset' /\ logged.presets \subseteq logged'.presets
    /\ \A i \in Presets' :
         \/ i \in Presets /\ (preset'[i] = preset[i] \/ i \in logged'.presets)
         \/ i = nextPreset /\ i < nextPreset'
    /\ settings' = settings \/ (logged'.settings /\ settings'.channels # NoList)
    /\ logged.settings => logged'.settings
    /\ history \subseteq history'

LEMMA StaysSame ==
    ASSUME FarmShape, NEW k \in Accounts, Stays(k)
    PROVE  Launchable(k)' = Launchable(k) /\ LaunchSpec(k)' = LaunchSpec(k)
  <1>1. account[k] \in Rows /\ account[k].source \in Selections
    BY DEF FarmShape, FarmTypeOK, Rows
  <1>2. CASE account[k].source = Default
    BY <1>1, <1>2, Sourced DEF Stays, Alike, Launchable, LaunchSpec, CanLaunch, ChannelsOf
  <1>3. CASE account[k].source = Custom
    BY <1>1, <1>3, Sourced DEF Stays, Alike, Launchable, LaunchSpec, CanLaunch, ChannelsOf
  <1>4. CASE account[k].source # Default /\ account[k].source # Custom
    BY <1>1, <1>4, Sourced DEF Stays, Alike, Launchable, LaunchSpec, CanLaunch, ChannelsOf
  <1> QED  BY <1>2, <1>3, <1>4

LEMMA InformsRuns ==
    ASSUME FarmShape, RunningIsLaunchable, Informs
    PROVE  /\ RunningIsLaunchable'
           /\ \A k \in running \cap running' : LaunchSpec(k)' # LaunchSpec(k) => k \in asked'
  <1>1. running \subseteq Accounts
    BY DEF FarmShape, FarmTypeOK
  <1>2. ASSUME NEW k \in running' PROVE Launchable(k)'
    <2>1. CASE k \in asked' /\ Launchable(k)'
      BY <2>1
    <2>2. CASE k \in running /\ Stays(k)
      BY <1>1, <2>2, StaysSame DEF RunningIsLaunchable
    <2> QED  BY <2>1, <2>2 DEF Informs
  <1>3. ASSUME NEW k \in running \cap running', LaunchSpec(k)' # LaunchSpec(k) PROVE k \in asked'
    BY <1>1, <1>3, StaysSame DEF Informs
  <1> QED  BY <1>2, <1>3 DEF RunningIsLaunchable

LEMMA SeedsMatch ==
    ASSUME SeedMatchesUser, SeedsStay
    PROVE  SeedMatchesUser'
  BY DEF SeedMatchesUser, SeedsStay

\* A request to restart reaches everyone whose configuration does not stay.
LEMMA RestartsInform ==
    ASSUME NEW K, Restarts(K), \A k \in running : k \in K \/ Stays(k)
    PROVE  Informs
  BY DEF Restarts, Asks, Informs

-----------------------------------------------------------------------------
(* The steps of the control room *)

Sound == FarmShape' /\ Informs /\ SeedsStay

LEMMA SourcesSelect ==
    ASSUME FarmShape
    PROVE  /\ Sources \subseteq Selections
           /\ \A s \in Sources : s.preset \in Presets \cup {None}
           /\ \A k \in Accounts : account[k] \in Rows /\ account[k].source \in Selections
           /\ Presets \subseteq Ids
  BY Sourced DEF FarmShape, FarmTypeOK, Sources, Rows

\* Accounts come and go one by one; presets and the rest stay as they are.
LEMMA FarmShapeStays ==
    ASSUME FarmShape, Accounts' = Accounts,
           \A k \in Accounts : account'[k] \in Rows /\ account'[k].source.preset \in Presets \cup {None},
           UNCHANGED <<preset, nextPreset, settings>>,
           DOMAIN seed' \subseteq DOMAIN seed, \A k \in DOMAIN seed' : seed'[k] = seed[k],
           running' \cup asked' \cup live' \cup history' \subseteq Accounts,
           logged' \in [accounts : SUBSET Keys, presets : SUBSET Ids, settings : BOOLEAN],
           edits' \in 0..MaxEdits
    PROVE  FarmShape'
  BY DEF FarmShape, FarmTypeOK, Numbered, Rows

LEMMA LogsType ==
    ASSUME FarmShape, NEW K \in SUBSET Keys, NEW I \in SUBSET Ids, NEW s \in BOOLEAN, Logs(K, I, s)
    PROVE  /\ logged' \in [accounts : SUBSET Keys, presets : SUBSET Ids, settings : BOOLEAN]
           /\ logged'.accounts = logged.accounts \cup K /\ logged'.presets = logged.presets \cup I
           /\ logged'.settings = (logged.settings \/ s)
  BY DEF FarmShape, FarmTypeOK, Logs

LEMMA EditType ==
    ASSUME FarmShape, Edit
    PROVE  edits' \in 0..MaxEdits
  BY ConfigurationAssumption DEF FarmShape, FarmTypeOK, Edit

\* What is left to show of a change of accounts alone.
LEMMA RowsByHand ==
    ASSUME FarmShape, Accounts \subseteq Accounts', UNCHANGED <<preset, nextPreset, settings>>,
           logged.accounts \subseteq logged'.accounts, logged.presets \subseteq logged'.presets,
           logged.settings => logged'.settings, history \subseteq history',
           \A k \in Accounts : account[k].password = TvLogin => account'[k].password = TvLogin,
           \A k \in Accounts : account[k].active => account'[k].active,
           \A k \in Accounts' :
              \/ k \in Accounts /\ Alike(account'[k], account[k])
              \/ account'[k].active /\ (k \in Accounts => k \in logged'.accounts \/ account'[k].password = TvLogin)
    PROVE  ByHand
  <1>1. nextPreset <= nextPreset'
    BY ConfigurationAssumption DEF FarmShape, FarmTypeOK
  <1>2. \A k \in Accounts : Alike(account'[k], account[k]) => Chosen(k)' = Chosen(k)
    BY ChosenAlike
  <1>3. settings' = settings /\ \A i \in Presets' : i \in Presets /\ preset'[i] = preset[i]
    OBVIOUS
  <1>4. \A k \in Accounts' :
          \/ k \in Accounts /\ Chosen(k)' = Chosen(k)
          \/ account'[k].active /\ (k \in Accounts => k \in logged'.accounts \/ account'[k].password = TvLogin)
    BY <1>2
  <1> QED  BY <1>1, <1>3, <1>4 DEF ByHand

LEMMA CreatesAccount ==
    ASSUME FarmShape, NEW k \in Keys, NEW u \in Usernames, NEW p \in Passwords \cup {TvLogin},
           NEW s \in Sources, NEW l \in Lists, NEW start \in BOOLEAN, CreateAccount(k, u, p, s, l, start)
    PROVE  Sound /\ ByHand
  <1> DEFINE new == IF s = Default THEN Printed(NewRow(u, p), preset, settings)
                    ELSE Revised(Select(NewRow(u, p), s, l), preset, settings)
             K   == IF start THEN {k} ELSE {}
  <1>1. new \in Rows /\ new.source = s /\ new.active /\ s.preset \in Presets \cup {None}
    <2>1. NewRow(u, p) \in Rows /\ NewRow(u, p).source = Default /\ NewRow(u, p).active
      BY MadeRow DEF NewRow
    <2>2. s \in Selections /\ s.preset \in Presets \cup {None}
      BY SourcesSelect
    <2>3. CASE s = Default
      BY <2>1, <2>2, <2>3, PrintedRow DEF Alike
    <2>4. CASE s # Default
      <3> DEFINE a == Select(NewRow(u, p), s, l)
      <3>1. a \in Rows /\ a.source = s /\ a.active
        BY <2>1, <2>2, SelectedRow
      <3> QED  BY <3>1, <2>2, <2>4, RevisedRow DEF Alike
    <2> QED  BY <2>3, <2>4
  <1> HIDE DEF new
  <1>2. account' = [x \in Accounts \cup {k} |-> IF x = k THEN new ELSE account[x]] /\ k \notin Accounts
    BY DEF CreateAccount, new
  <1>3. Accounts' = Accounts \cup {k} /\ account'[k] = new /\ \A x \in Accounts : account'[x] = account[x]
    BY <1>2
  <1>4. UNCHANGED <<preset, nextPreset, settings, seed>> /\ history' = history \cup {k}
    BY DEF CreateAccount
  <1>5. Asks(K)
    BY DEF CreateAccount
  <1>6. Logs(IF s = Default THEN {} ELSE {k}, {}, FALSE) /\ edits' \in 0..MaxEdits
    BY EditType DEF CreateAccount
  <1>7. /\ logged' \in [accounts : SUBSET Keys, presets : SUBSET Ids, settings : BOOLEAN]
        /\ logged.accounts \subseteq logged'.accounts /\ logged.presets \subseteq logged'.presets
        /\ logged.settings => logged'.settings
    BY <1>6, LogsType
  <1>8. FarmTypeOK'
    BY <1>1, <1>3, <1>4, <1>5, <1>6, <1>7 DEF FarmShape, FarmTypeOK, Asks
  <1>9. FarmShape'
    <2>1. IsFiniteSet(Accounts')
      BY <1>3, FS_AddElement DEF FarmShape
    <2> QED  BY <1>1, <1>3, <1>4, <1>8, <2>1 DEF FarmShape, Numbered
  <1>10. Informs
    BY <1>3, <1>4, <1>5 DEF Informs, Asks, Stays, Alike, FarmShape, FarmTypeOK
  <1>11. SeedsStay
    BY <1>3, <1>4 DEF SeedsStay, FarmShape, FarmTypeOK
  <1>12. ByHand
    BY <1>1, <1>2, <1>3, <1>4, <1>7, RowsByHand DEF Alike
  <1> QED  BY <1>9, <1>10, <1>11, <1>12 DEF Sound

LEMMA UpdatesAccount ==
    ASSUME FarmShape, NEW k \in Keys, NEW u \in Usernames, NEW p \in Passwords \cup {NoPassword},
           UpdateAccount(k, u, p)
    PROVE  Sound /\ ByHand
  <1> DEFINE new == [account[k] EXCEPT !.username = u, !.password = IF p = NoPassword THEN @ ELSE p]
             row == Printed(new, preset, settings)
             K   == IF account[k].username # u \/ p # NoPassword THEN {k} ELSE {}
  <1>1. k \in Accounts /\ account[k] \in Rows /\ account[k].active
    BY SourcesSelect DEF UpdateAccount, Active
  <1>2. /\ new \in Rows /\ new.username = u /\ new.source = account[k].source /\ new.active
        /\ new.custom = account[k].custom /\ new.active = account[k].active
        /\ new.password = IF p = NoPassword THEN account[k].password ELSE p
    BY <1>1 DEF Rows
  <1> HIDE DEF new
  <1>3. row \in Rows /\ Alike(row, new)
    BY <1>2, PrintedRow
  <1> HIDE DEF row
  <1>4. /\ Accounts' = Accounts /\ account'[k] = row /\ \A x \in Accounts : x # k => account'[x] = account[x]
    BY <1>1 DEF UpdateAccount, row, new
  <1>5. /\ UNCHANGED <<preset, nextPreset, settings>> /\ history' = history \cup {k}
        /\ seed' = Unseeded(Renames(k, u)) /\ Restarts(K)
    BY DEF UpdateAccount
  <1>6. Logs({k}, {}, FALSE) /\ edits' \in 0..MaxEdits /\ (p # NoPassword => account[k].password # TvLogin)
    BY EditType DEF UpdateAccount
  <1>7. /\ logged' \in [accounts : SUBSET Keys, presets : SUBSET Ids, settings : BOOLEAN]
        /\ logged'.accounts = logged.accounts \cup {k} /\ logged.presets \subseteq logged'.presets
        /\ logged.settings => logged'.settings
    BY <1>6, LogsType
  <1>8. /\ DOMAIN seed' \subseteq DOMAIN seed /\ \A x \in DOMAIN seed' : seed'[x] = seed[x]
        /\ k \in DOMAIN seed' => account[k].username = u
    BY <1>5 DEF Unseeded, Renames
  <1>9. FarmShape'
    <2>1. \A x \in Accounts : account'[x] \in Rows /\ account'[x].source.preset \in Presets \cup {None}
      BY <1>1, <1>2, <1>3, <1>4 DEF Alike, FarmShape, FarmTypeOK
    <2>2. running' \cup asked' \cup live' \cup history' \subseteq Accounts
      BY <1>1, <1>5 DEF Restarts, Asks, FarmShape, FarmTypeOK
    <2> QED  BY <1>4, <1>5, <1>6, <1>7, <1>8, <2>1, <2>2, FarmShapeStays
  <1>10. Informs
    <2>1. ASSUME NEW x \in running PROVE x \in K \/ Stays(x)
      <3>1. x \in Accounts
        BY DEF FarmShape, FarmTypeOK
      <3>2. CASE x # k
        BY <1>4, <1>5, <3>1, <3>2 DEF Stays, Alike
      <3>3. CASE x = k /\ p = NoPassword /\ account[k].username = u
        <4>1. Alike(row, account[k])
          BY <1>2, <1>3, <3>3 DEF Alike
        <4> QED  BY <1>4, <1>5, <3>1, <3>3, <4>1 DEF Stays
      <3> QED  BY <3>2, <3>3
    <2> QED  BY <1>5, <2>1, RestartsInform
  <1>11. SeedsStay
    BY <1>2, <1>3, <1>4, <1>8 DEF SeedsStay, Alike, FarmShape, FarmTypeOK
  <1>12. ByHand
    <2>1. account'[k].active /\ (account[k].password = TvLogin => account'[k].password = TvLogin)
      BY <1>2, <1>3, <1>4, <1>6 DEF Alike
    <2> QED  BY <1>1, <1>4, <1>5, <1>7, <2>1, RowsByHand DEF Alike
  <1> QED  BY <1>9, <1>10, <1>11, <1>12 DEF Sound

LEMMA RequestsTvAuthentication ==
    ASSUME FarmShape, NEW k \in Keys, RequestTvAuthentication(k)
    PROVE  Sound /\ ByHand
  <1>1. k \in Accounts /\ account[k] \in Rows /\ account[k].active
    BY SourcesSelect DEF RequestTvAuthentication, Active
  <1>2. /\ Accounts' = Accounts /\ \A x \in Accounts : x # k => account'[x] = account[x]
        /\ account'[k] \in Rows /\ account'[k].active /\ account'[k].password = TvLogin
        /\ account'[k].source = account[k].source /\ account'[k].username = account[k].username
    BY <1>1 DEF RequestTvAuthentication, Rows
  <1>3. UNCHANGED <<preset, nextPreset, settings, seed, logged>> /\ history' = history \cup {k} /\ Asks({k})
    BY DEF RequestTvAuthentication
  <1>4. edits' \in 0..MaxEdits
    BY EditType DEF RequestTvAuthentication
  <1>5. FarmShape'
    <2>1. \A x \in Accounts : account'[x] \in Rows /\ account'[x].source.preset \in Presets \cup {None}
      BY <1>2 DEF FarmShape, FarmTypeOK
    <2>2. running' \cup asked' \cup live' \cup history' \subseteq Accounts
      BY <1>1, <1>3 DEF Asks, FarmShape, FarmTypeOK
    <2>3. logged' \in [accounts : SUBSET Keys, presets : SUBSET Ids, settings : BOOLEAN]
      BY <1>3 DEF FarmShape, FarmTypeOK
    <2> QED  BY <1>2, <1>3, <1>4, <2>1, <2>2, <2>3, FarmShapeStays
  <1>6. Informs
    BY <1>2, <1>3 DEF Informs, Asks, Stays, Alike, FarmShape, FarmTypeOK
  <1>7. SeedsStay
    BY <1>2, <1>3 DEF SeedsStay, FarmShape, FarmTypeOK
  <1>8. ByHand
    BY <1>1, <1>2, <1>3, RowsByHand DEF Alike
  <1> QED  BY <1>5, <1>6, <1>7, <1>8 DEF Sound

\* Some accounts get a new selection; each of them is restarted if it runs.
LEMMA Reselected ==
    ASSUME FarmShape, NEW K \in SUBSET Accounts, Accounts' = Accounts,
           \A k \in K : account[k].active,
           \A k \in K : /\ account'[k] \in Rows /\ account'[k].source \in Sources
                        /\ account'[k].username = account[k].username
                        /\ account'[k].password = account[k].password
                        /\ account'[k].active = account[k].active,
           \A k \in Accounts \ K : account'[k] = account[k],
           UNCHANGED <<preset, nextPreset, settings, seed>>,
           history' = history \cup K, Logs(K, {}, FALSE), Edit, Restarts(K)
    PROVE  Sound /\ ByHand
  <1>1. K \subseteq Keys
    BY DEF FarmShape, FarmTypeOK
  <1>2. /\ logged' \in [accounts : SUBSET Keys, presets : SUBSET Ids, settings : BOOLEAN]
        /\ logged'.accounts = logged.accounts \cup K /\ logged.presets \subseteq logged'.presets
        /\ logged.settings => logged'.settings
    BY <1>1, LogsType
  <1>3. FarmShape'
    <2>1. \A x \in Accounts : account'[x] \in Rows /\ account'[x].source.preset \in Presets \cup {None}
      BY SourcesSelect DEF FarmShape, FarmTypeOK
    <2>2. running' \cup asked' \cup live' \cup history' \subseteq Accounts
      BY DEF Restarts, Asks, FarmShape, FarmTypeOK
    <2>3. edits' \in 0..MaxEdits
      BY EditType
    <2> QED  BY <1>2, <2>1, <2>2, <2>3, FarmShapeStays
  <1>4. Informs
    <2>1. ASSUME NEW x \in running PROVE x \in K \/ Stays(x)
      BY DEF Stays, Alike, FarmShape, FarmTypeOK
    <2> QED  BY <2>1, RestartsInform
  <1>5. SeedsStay
    BY DEF SeedsStay, FarmShape, FarmTypeOK
  <1>6. ByHand
    BY <1>2, RowsByHand DEF Alike
  <1> QED  BY <1>3, <1>4, <1>5, <1>6 DEF Sound

LEMMA SetsSource ==
    ASSUME FarmShape, NEW k \in Keys, NEW s \in Sources, NEW l \in Lists, SetSource(k, s, l)
    PROVE  Sound /\ ByHand
  <1>1. k \in Accounts /\ account[k] \in Rows /\ account[k].active /\ s \in Selections
    BY SourcesSelect DEF SetSource, Active
  <1> DEFINE new == [account EXCEPT ![k] = Select(@, s, l)]
             row == Revised(new[k], preset, settings)
  <1>2. new[k] = Select(account[k], s, l)
    BY <1>1
  <1>3. /\ row \in Rows /\ row.source = s /\ row.username = account[k].username
        /\ row.password = account[k].password /\ row.active = account[k].active
    <2> HIDE DEF new
    <2>1. /\ new[k] \in Rows /\ new[k].source = s /\ new[k].username = account[k].username
          /\ new[k].password = account[k].password /\ new[k].active = account[k].active
      <3> DEFINE a == Select(account[k], s, l)
      <3>1. /\ a \in Rows /\ a.source = s /\ a.username = account[k].username
            /\ a.password = account[k].password /\ a.active = account[k].active
        <4>1. account[k] \in Rows /\ s \in Selections /\ l \in Lists \cup {NoList}
          BY <1>1
        <4> HIDE DEF row
        <4> QED  BY <4>1, SelectedRow
      <3> QED  BY <1>2, <3>1
    <2>2. row \in Rows /\ Alike(row, new[k])
      BY <2>1, RevisedRow
    <2> QED  BY <2>1, <2>2 DEF Alike
  <1> HIDE DEF row
  <1>4. Accounts' = Accounts /\ account'[k] = row /\ \A x \in Accounts \ {k} : account'[x] = account[x]
    BY <1>1 DEF SetSource, Rewrite, row
  <1>5. /\ UNCHANGED <<preset, nextPreset, settings, seed>> /\ history' = history \cup {k}
        /\ Logs({k}, {}, FALSE) /\ Edit /\ Restarts({k})
    BY DEF SetSource
  <1>6. {k} \in SUBSET Accounts
    BY <1>1
  <1> QED  BY <1>1, <1>3, <1>4, <1>5, <1>6, Reselected

LEMMA Assigns ==
    ASSUME FarmShape, NEW i \in Ids, NEW S \in SUBSET Keys, Assign(i, S)
    PROVE  Sound /\ ByHand
  <1> DEFINE left    == Active(Selecting(i)) \ S
             entered == S \ Selecting(i)
             K       == left \cup entered
             leaves(k) == Revised(Select(account[k], Default, NoList), preset, settings)
             enters(k) == Revised(Select(account[k], Preset(i), NoList), preset, settings)
  <1>1. i \in Presets /\ S \subseteq Active(Accounts)
    BY DEF Assign, Active
  <1>2. K \subseteq Accounts /\ \A k \in K : account[k].active /\ account[k] \in Rows
    BY <1>1, SourcesSelect DEF Active, Selecting
  <1>3. Accounts' = Accounts
        /\ \A k \in Accounts : account'[k] = IF k \in left THEN leaves(k) ELSE IF k \in entered THEN enters(k) ELSE account[k]
    BY DEF Assign
  <1>4. ASSUME NEW k \in K, NEW s \in {Default, Preset(i)}
        PROVE  LET b == Revised(Select(account[k], s, NoList), preset, settings)
               IN  /\ b \in Rows /\ b.source = s /\ b.username = account[k].username
                   /\ b.password = account[k].password /\ b.active = account[k].active
    <2> DEFINE a == Select(account[k], s, NoList)
    <2>1. s \in Selections
      BY Sourced
    <2>2. /\ a \in Rows /\ a.source = s /\ a.username = account[k].username
          /\ a.password = account[k].password /\ a.active = account[k].active
      BY <1>2, <2>1, SelectedRow
    <2> HIDE DEF a
    <2>3. Revised(a, preset, settings) \in Rows /\ Alike(Revised(a, preset, settings), a)
      BY <2>2, RevisedRow
    <2> QED  BY <2>2, <2>3 DEF Alike, a
  <1>5. Default \in Sources /\ Preset(i) \in Sources
    BY <1>1 DEF Sources
  <1>6. \A k \in K : /\ account'[k] \in Rows /\ account'[k].source \in Sources
                     /\ account'[k].username = account[k].username
                     /\ account'[k].password = account[k].password
                     /\ account'[k].active = account[k].active
    <2>1. ASSUME NEW k \in K PROVE account'[k] = leaves(k) \/ account'[k] = enters(k)
      BY <1>2, <1>3
    <2> QED  BY <1>4, <1>5, <2>1
  <1>7. \A k \in Accounts \ K : account'[k] = account[k]
    BY <1>3
  <1>8. /\ UNCHANGED <<preset, nextPreset, settings, seed>> /\ history' = history \cup left \cup entered
        /\ Logs(K, {}, FALSE) /\ Edit /\ Restarts(K)
    BY DEF Assign
  <1>9. history' = history \cup K
    BY <1>8
  <1> HIDE DEF K
  <1> QED  BY <1>2, <1>3, <1>6, <1>7, <1>8, <1>9, Reselected

LEMMA CreatesPreset ==
    ASSUME FarmShape, NEW n \in Names, NEW l \in Lists, CreatePreset(n, l)
    PROVE  Sound /\ ByHand
  <1>1. /\ preset' = [i \in Presets \cup {nextPreset} |->
                         IF i = nextPreset THEN [name |-> n, channels |-> l] ELSE preset[i]]
        /\ nextPreset' = nextPreset + 1 /\ Named(n) = {} /\ nextPreset <= MaxPresets
        /\ UNCHANGED <<account, settings, seed, running, asked, live, history, logged>>
    BY DEF CreatePreset, intent
  <1>2. edits' \in 0..MaxEdits
    BY EditType DEF CreatePreset
  <1>3. nextPreset \in Ids /\ nextPreset \notin Presets /\ nextPreset' \in 1..(MaxPresets + 1) /\ nextPreset \in Nat
    BY <1>1, ConfigurationAssumption DEF FarmShape, FarmTypeOK, Numbered, Ids
  <1>4. /\ Presets' = Presets \cup {nextPreset} /\ preset'[nextPreset] = [name |-> n, channels |-> l]
        /\ \A i \in Presets : preset'[i] = preset[i]
    BY <1>1, <1>3
  <1>5. FarmTypeOK'
    BY <1>1, <1>2, <1>3, <1>4 DEF FarmShape, FarmTypeOK
  <1>6. Numbered'
    <2>1. \A i \in Presets : preset[i].name # n
      BY <1>1 DEF Named
    <2>2. \A i \in Presets : i \in Nat
      BY Sourced DEF FarmShape, FarmTypeOK
    <2> QED  BY <1>1, <1>3, <1>4, <2>1, <2>2 DEF FarmShape, Numbered
  <1>7. FarmShape'
    BY <1>1, <1>4, <1>5, <1>6 DEF FarmShape
  <1>8. Informs
    <2>1. ASSUME NEW k \in running PROVE Stays(k)
      <3>1. k \in Accounts /\ account[k].source.preset \in Presets \cup {None} /\ account[k].source \in Selections
        BY SourcesSelect DEF FarmShape, FarmTypeOK
      <3>2. account[k].source # Default /\ account[k].source # Custom => account[k].source.preset \in Presets
        BY <3>1, Sourced
      <3> QED  BY <1>1, <1>4, <3>1, <3>2 DEF Stays, Alike
    <2> QED  BY <1>1, <2>1 DEF Informs
  <1>9. SeedsStay
    BY <1>1 DEF SeedsStay, FarmShape, FarmTypeOK
  <1>10. ByHand
    <2>1. \A k \in Accounts : Alike(account'[k], account[k])
      BY <1>1 DEF Alike
    <2>2. \A k \in Accounts : Chosen(k)' = Chosen(k)
      BY <2>1, ChosenAlike
    <2> QED  BY <1>1, <1>3, <1>4, <2>2 DEF ByHand
  <1> QED  BY <1>7, <1>8, <1>9, <1>10 DEF Sound

\* Rows are written again for those who take what has changed.
LEMMA Rewritten ==
    ASSUME FarmShape, NEW K \in SUBSET Accounts, NEW p, NEW d, Rewrite(K, account, p, d)
    PROVE  /\ Accounts' = Accounts
           /\ \A k \in Accounts : account'[k] \in Rows /\ Alike(account'[k], account[k])
           /\ \A k \in Accounts : Chosen(k)' = Chosen(k)
  <1>1. Accounts' = Accounts
        /\ \A k \in Accounts : account'[k] = IF k \in K THEN Revised(account[k], p, d) ELSE account[k]
    BY DEF Rewrite
  <1>2. \A k \in Accounts : account'[k] \in Rows /\ Alike(account'[k], account[k])
    <2>1. \A k \in Accounts : account[k] \in Rows /\ Alike(account[k], account[k])
      BY SourcesSelect DEF Alike
    <2> QED  BY <1>1, <2>1, RevisedRow
  <1> QED  BY <1>1, <1>2, ChosenAlike

LEMMA EditsPreset ==
    ASSUME FarmShape, NEW i \in Ids, NEW n \in Names, NEW l \in Lists, EditPreset(i, n, l)
    PROVE  Sound /\ ByHand
  <1> DEFINE K == Concerned(i, n, l)
  <1>1. /\ i \in Presets /\ Named(n) \subseteq {i}
        /\ Presets' = Presets /\ preset'[i] = [name |-> n, channels |-> l]
        /\ \A j \in Presets \ {i} : preset'[j] = preset[j]
        /\ UNCHANGED <<nextPreset, settings, seed>>
    BY DEF EditPreset
  <1>2. Rewrite(K, account, preset', settings) /\ history' = history \cup (K \cap running) /\ Restarts(K)
    BY DEF EditPreset
  <1>3. K = {k \in Accounts : account[k].source = Preset(i)}
    BY DEF Concerned, Selecting
  <1> HIDE DEF K
  <1>4. /\ Accounts' = Accounts
        /\ \A k \in Accounts : account'[k] \in Rows /\ Alike(account'[k], account[k])
        /\ \A k \in Accounts : Chosen(k)' = Chosen(k)
    BY <1>2, <1>3, Rewritten
  <1>5. edits' \in 0..MaxEdits /\ Logs({}, {i}, FALSE)
    BY EditType DEF EditPreset
  <1>6. /\ logged' \in [accounts : SUBSET Keys, presets : SUBSET Ids, settings : BOOLEAN]
        /\ logged'.accounts = logged.accounts /\ logged'.presets = logged.presets \cup {i}
        /\ logged.settings => logged'.settings
    BY <1>1, <1>5 DEF Logs, FarmShape, FarmTypeOK
  <1>7. running' \cup asked' \cup live' \cup history' \subseteq Accounts
    BY <1>2, <1>3 DEF Restarts, Asks, FarmShape, FarmTypeOK
  <1>8. FarmTypeOK'
    BY <1>1, <1>4, <1>5, <1>6, <1>7 DEF FarmShape, FarmTypeOK
  <1>9. FarmShape'
    <2>1. Numbered'
      <3>1. \A j \in Presets \ {i} : preset[j].name # n
        BY <1>1 DEF Named
      <3> QED  BY <1>1, <3>1 DEF FarmShape, Numbered
    <2> QED  BY <1>1, <1>4, <1>8, <2>1 DEF FarmShape, Alike
  <1>10. Informs
    <2>1. ASSUME NEW k \in running PROVE k \in K \/ Stays(k)
      <3>1. k \in Accounts /\ account[k].source.preset \in Presets \cup {None} /\ account[k].source \in Selections
        BY SourcesSelect DEF FarmShape, FarmTypeOK
      <3>2. CASE k \notin K
        <4>1. account[k].source # Default /\ account[k].source # Custom => account[k].source.preset \in Presets \ {i}
          BY <1>3, <3>1, <3>2, Sourced
        <4> QED  BY <1>1, <1>4, <3>1, <4>1 DEF Stays
      <3> QED  BY <3>2
    <2> QED  BY <1>2, <2>1, RestartsInform
  <1>11. SeedsStay
    BY <1>1, <1>4 DEF SeedsStay, Alike, FarmShape, FarmTypeOK
  <1>12. ByHand
    <2>1. nextPreset <= nextPreset'
      BY <1>1, ConfigurationAssumption DEF FarmShape, FarmTypeOK
    <2>2. \A j \in Presets' : j \in Presets /\ (preset'[j] = preset[j] \/ j \in logged'.presets)
      BY <1>1, <1>6
    <2>3. /\ \A k \in Accounts : account[k].password = TvLogin => account'[k].password = TvLogin
          /\ \A k \in Accounts : account[k].active => account'[k].active
      BY <1>4 DEF Alike
    <2> QED  BY <1>1, <1>2, <1>4, <1>6, <2>1, <2>2, <2>3 DEF ByHand
  <1> QED  BY <1>9, <1>10, <1>11, <1>12 DEF Sound

LEMMA DeletesPreset ==
    ASSUME FarmShape, NEW i \in Ids, DeletePreset(i)
    PROVE  Sound /\ ByHand
  <1>1. /\ i \in Presets /\ Selecting(i) = {} /\ Presets' = Presets \ {i}
        /\ \A j \in Presets' : preset'[j] = preset[j]
        /\ UNCHANGED <<account, nextPreset, settings, seed, running, asked, live, history>>
    BY DEF DeletePreset, intent
  <1>2. edits' \in 0..MaxEdits /\ Logs({}, {i}, FALSE)
    BY EditType DEF DeletePreset
  <1>3. /\ logged' \in [accounts : SUBSET Keys, presets : SUBSET Ids, settings : BOOLEAN]
        /\ logged'.accounts = logged.accounts /\ logged.presets \subseteq logged'.presets
        /\ logged.settings => logged'.settings
    BY <1>1, <1>2 DEF Logs, FarmShape, FarmTypeOK
  <1>4. FarmTypeOK'
    BY <1>1, <1>2, <1>3 DEF FarmShape, FarmTypeOK
  <1>5. \A k \in Accounts : account[k].source.preset \in (Presets \ {i}) \cup {None}
    BY <1>1, SourcesSelect, Sourced DEF FarmShape, Selecting
  <1>6. FarmShape'
    BY <1>1, <1>4, <1>5 DEF FarmShape, Numbered
  <1>7. Informs
    <2>1. ASSUME NEW k \in running PROVE Stays(k)
      <3>1. k \in Accounts /\ account[k].source \in Selections
        BY SourcesSelect DEF FarmShape, FarmTypeOK
      <3>2. account[k].source # Default /\ account[k].source # Custom => account[k].source.preset \in Presets'
        BY <1>1, <1>5, <3>1, Sourced
      <3> QED  BY <1>1, <3>1, <3>2 DEF Stays, Alike
    <2> QED  BY <1>1, <2>1 DEF Informs
  <1>8. SeedsStay
    BY <1>1 DEF SeedsStay, FarmShape, FarmTypeOK
  <1>9. ByHand
    <2>1. nextPreset <= nextPreset'
      BY <1>1, ConfigurationAssumption DEF FarmShape, FarmTypeOK
    <2>2. \A k \in Accounts : Alike(account'[k], account[k])
      BY <1>1 DEF Alike
    <2>3. \A k \in Accounts : Chosen(k)' = Chosen(k)
      BY <2>2, ChosenAlike
    <2> QED  BY <1>1, <1>3, <2>1, <2>3 DEF ByHand
  <1> QED  BY <1>6, <1>7, <1>8, <1>9 DEF Sound

LEMMA UpdatesSettings ==
    ASSUME FarmShape, RunningIsLaunchable, NEW l \in Lists, NEW a \in BOOLEAN, UpdateSettings(l, a)
    PROVE  Sound /\ ByHand
  <1> DEFINE K == IF l = settings.channels THEN {} ELSE {k \in Active(Accounts) : account[k].source = Default}
  <1>1. settings' = [channels |-> l, autostart |-> a] /\ UNCHANGED <<preset, nextPreset, seed>>
    BY DEF UpdateSettings
  <1>2. Rewrite(K, account, preset, settings') /\ history' = history \cup (K \cap running) /\ Restarts(K)
    BY DEF UpdateSettings
  <1>3. K \subseteq Accounts
    BY DEF Active
  <1>4. /\ Accounts' = Accounts
        /\ \A k \in Accounts : account'[k] \in Rows /\ Alike(account'[k], account[k])
        /\ \A k \in Accounts : Chosen(k)' = Chosen(k)
    <2> HIDE DEF K
    <2> QED  BY <1>2, <1>3, Rewritten
  <1>5. edits' \in 0..MaxEdits /\ Logs({}, {}, TRUE)
    BY EditType DEF UpdateSettings
  <1>6. /\ logged' \in [accounts : SUBSET Keys, presets : SUBSET Ids, settings : BOOLEAN]
        /\ logged'.accounts = logged.accounts /\ logged'.presets = logged.presets /\ logged'.settings
    BY <1>1, <1>5 DEF Logs, FarmShape, FarmTypeOK
  <1>7. running' \cup asked' \cup live' \cup history' \subseteq Accounts
    BY <1>2, <1>3 DEF Restarts, Asks, FarmShape, FarmTypeOK
  <1>8. FarmTypeOK'
    BY <1>1, <1>4, <1>5, <1>6, <1>7 DEF FarmShape, FarmTypeOK, Settings
  <1>9. FarmShape'
    BY <1>1, <1>4, <1>8 DEF FarmShape, Numbered, Alike
  <1>10. Informs
    <2>1. ASSUME NEW k \in running PROVE k \in K \/ Stays(k)
      <3>1. k \in Accounts /\ account[k].active
        BY <2>1 DEF FarmShape, FarmTypeOK, RunningIsLaunchable, Launchable, CanLaunch
      <3> QED  BY <1>1, <1>4, <3>1 DEF Stays, Active
    <2> QED  BY <1>2, <2>1, RestartsInform
  <1>11. SeedsStay
    BY <1>1, <1>4 DEF SeedsStay, Alike, FarmShape, FarmTypeOK
  <1>12. ByHand
    <2>1. nextPreset <= nextPreset'
      BY <1>1, ConfigurationAssumption DEF FarmShape, FarmTypeOK
    <2>2. settings'.channels # NoList
      BY <1>1, ConfigurationAssumption
    <2>3. /\ \A k \in Accounts : account[k].password = TvLogin => account'[k].password = TvLogin
          /\ \A k \in Accounts : account[k].active => account'[k].active
      BY <1>4 DEF Alike
    <2> QED  BY <1>1, <1>2, <1>4, <1>6, <2>1, <2>2, <2>3 DEF ByHand
  <1> QED  BY <1>9, <1>10, <1>11, <1>12 DEF Sound

LEMMA ControlRoomSound ==
    ASSUME FarmShape, RunningIsLaunchable, ControlRoom
    PROVE  Sound /\ ByHand
  <1>1. ASSUME NEW k \in Keys, NEW u \in Usernames, NEW p \in Passwords \cup {TvLogin}, NEW s \in Sources,
               NEW l \in Lists, NEW start \in BOOLEAN, CreateAccount(k, u, p, s, l, start)
        PROVE  Sound /\ ByHand
    BY <1>1, CreatesAccount
  <1>2. ASSUME NEW k \in Keys, NEW u \in Usernames, NEW p \in Passwords \cup {NoPassword}, UpdateAccount(k, u, p)
        PROVE  Sound /\ ByHand
    BY <1>2, UpdatesAccount
  <1>3. ASSUME NEW k \in Keys, NEW s \in Sources, NEW l \in Lists, SetSource(k, s, l)
        PROVE  Sound /\ ByHand
    BY <1>3, SetsSource
  <1>4. ASSUME NEW k \in Keys, RequestTvAuthentication(k)
        PROVE  Sound /\ ByHand
    BY <1>4, RequestsTvAuthentication
  <1>5. ASSUME NEW i \in Ids, NEW S \in SUBSET Keys, Assign(i, S)
        PROVE  Sound /\ ByHand
    BY <1>5, Assigns
  <1>6. ASSUME NEW n \in Names, NEW l \in Lists, CreatePreset(n, l)
        PROVE  Sound /\ ByHand
    BY <1>6, CreatesPreset
  <1>7. ASSUME NEW n \in Names, NEW l \in Lists, NEW i \in Ids, EditPreset(i, n, l)
        PROVE  Sound /\ ByHand
    BY <1>7, EditsPreset
  <1>8. ASSUME NEW i \in Ids, DeletePreset(i)
        PROVE  Sound /\ ByHand
    BY <1>8, DeletesPreset
  <1>9. ASSUME NEW l \in Lists, NEW a \in BOOLEAN, UpdateSettings(l, a)
        PROVE  Sound /\ ByHand
    BY <1>9, UpdatesSettings
  <1> QED  BY <1>1, <1>2, <1>3, <1>4, <1>5, <1>6, <1>7, <1>8, <1>9 DEF ControlRoom

-----------------------------------------------------------------------------
(* Requests, and the worker *)

\* The configuration is left alone.
HandsOff ==
    /\ Accounts' = Accounts /\ \A k \in Accounts : Alike(account'[k], account[k])
    /\ UNCHANGED <<preset, nextPreset, settings, logged>> /\ history \subseteq history'

\* Rows may be marked as launched.
LEMMA HandsOffSound ==
    ASSUME FarmShape, HandsOff, \A k \in Accounts : account'[k] \in Rows,
           running' \cup asked' \cup live' \cup history' \subseteq Accounts, edits' = edits,
           DOMAIN seed' \subseteq DOMAIN seed, \A k \in DOMAIN seed' : seed'[k] = seed[k],
           \A k \in running' \ running : k \in asked' /\ Launchable(k)'
    PROVE  Sound
  <1>1. FarmShape'
    <2>1. \A x \in Accounts : account'[x].source.preset \in Presets \cup {None}
      BY DEF HandsOff, Alike, FarmShape
    <2>2. /\ logged' \in [accounts : SUBSET Keys, presets : SUBSET Ids, settings : BOOLEAN]
          /\ edits' \in 0..MaxEdits
      BY DEF HandsOff, FarmShape, FarmTypeOK
    <2> QED  BY <2>1, <2>2, FarmShapeStays DEF HandsOff
  <1>2. Informs
    BY DEF HandsOff, Informs, Stays, FarmShape, FarmTypeOK
  <1>3. SeedsStay
    BY DEF SeedsStay, HandsOff, Alike, FarmShape, FarmTypeOK
  <1> QED  BY <1>1, <1>2, <1>3 DEF Sound

LEMMA GoesOnSound ==
    ASSUME FarmShape, Requests \/ Worker
    PROVE  Sound /\ HandsOff
  <1>1. \A k \in Accounts : account[k] \in Rows /\ Alike(account[k], account[k])
    BY SourcesSelect DEF Alike
  <1>2. running \cup asked \cup live \cup history \subseteq Accounts
    BY DEF FarmShape, FarmTypeOK
  <1>3. ASSUME NEW k \in Keys, Start(k) PROVE Sound /\ HandsOff
    <2>1. HandsOff
      BY <1>1, <1>3 DEF Start, HandsOff, rows
    <2> QED  BY <1>1, <1>2, <1>3, <2>1, HandsOffSound DEF Start, Asks, rows
  <1>4. ASSUME NEW k \in Keys, Stop(k) PROVE Sound /\ HandsOff
    <2>1. HandsOff
      BY <1>1, <1>4 DEF Stop, HandsOff, rows
    <2> QED  BY <1>1, <1>2, <1>4, <2>1, HandsOffSound DEF Stop, Stops, rows
  <1>5. ASSUME NEW k \in Keys, Launch(k) PROVE Sound /\ HandsOff
    <2>1. /\ Accounts' = Accounts /\ \A x \in Accounts : x # k => account'[x] = account[x]
          /\ account'[k] \in Rows /\ Alike(account'[k], account[k])
      BY <1>1, <1>2, <1>5 DEF Launch, Alike, Rows
    <2>2. HandsOff
      BY <1>1, <1>5, <2>1 DEF Launch, HandsOff
    <2> QED  BY <1>1, <1>2, <1>5, <2>1, <2>2, HandsOffSound DEF Launch
  <1>6. ASSUME NEW k \in Keys, ConsumeSeed(k) PROVE Sound /\ HandsOff
    <2>1. HandsOff
      BY <1>1, <1>6 DEF ConsumeSeed, HandsOff, rows
    <2> QED  BY <1>1, <1>2, <1>6, <2>1, HandsOffSound DEF ConsumeSeed, Unseeded, rows, intent
  <1>7. ASSUME NEW k \in Keys, End(k) PROVE Sound /\ HandsOff
    <2>1. HandsOff
      BY <1>1, <1>7 DEF End, HandsOff, rows
    <2> QED  BY <1>1, <1>2, <1>7, <2>1, HandsOffSound DEF End, rows
  <1> QED  BY <1>3, <1>4, <1>5, <1>6, <1>7 DEF Requests, Worker

-----------------------------------------------------------------------------
(* An import *)

\* What the parser guarantees of an archive, in terms of what is wanted of an account.
LEMMA ArchiveWants ==
    ASSUME NEW x \in Archives
    PROVE  /\ DOMAIN x.accounts \cup DOMAIN x.states \subseteq Keys
           /\ IsFiniteSet(DOMAIN x.accounts) /\ IsFiniteSet(DOMAIN x.states)
           /\ DOMAIN x.presets \subseteq Names /\ \A n \in DOMAIN x.presets : x.presets[n] \in Lists
           /\ x.settings \in Settings
           /\ \A k \in DOMAIN x.accounts \cup DOMAIN x.states :
                /\ Wanted(x, k).username \in Usernames
                /\ Wanted(x, k).password \in Passwords \cup {NoPassword}
                /\ Wanted(x, k).active \in BOOLEAN
                /\ Wanted(x, k).mode \in {"default", "custom", "preset"}
                /\ Wanted(x, k).mode = "preset" => Wanted(x, k).preset \in DOMAIN x.presets
                /\ Wanted(x, k).mode # "preset" => Wanted(x, k).preset = NoName
                /\ Wanted(x, k).custom \in Lists \cup {NoList}
  <1>1. Configured(x) /\ HasPresets(x) /\ HasStates(x)
    BY ImportAssumption DEF Payload
  <1>2. ASSUME NEW k \in DOMAIN x.accounts \cup DOMAIN x.states
        PROVE  /\ Wanted(x, k).username \in Usernames
               /\ Wanted(x, k).password \in Passwords \cup {NoPassword}
               /\ Wanted(x, k).active \in BOOLEAN
    BY <1>1, ConfigurationAssumption DEF Configured, HasStates, Wanted
  <1>3. ASSUME NEW k \in DOMAIN x.accounts \cup DOMAIN x.states
        PROVE  /\ Wanted(x, k).mode \in {"default", "custom", "preset"}
               /\ Wanted(x, k).mode = "preset" => Wanted(x, k).preset \in DOMAIN x.presets
               /\ Wanted(x, k).mode # "preset" => Wanted(x, k).preset = NoName
               /\ Wanted(x, k).custom \in Lists \cup {NoList}
    <2>1. CASE k \in DOMAIN x.states
      <3>1. Wanted(x, k).mode = x.states[k].mode /\ Wanted(x, k).preset = x.states[k].preset
            /\ Wanted(x, k).custom = x.states[k].custom
        BY <2>1 DEF Wanted
      <3>2. NoName \notin DOMAIN x.presets
        BY <1>1, ConfigurationAssumption DEF HasPresets
      <3> QED  BY <1>1, <2>1, <3>1, <3>2 DEF HasStates
    <2>2. CASE k \notin DOMAIN x.states
      BY <2>2 DEF Wanted, NoState
    <2> QED  BY <2>1, <2>2
  <1> QED  BY <1>1, <1>2, <1>3 DEF Configured, HasPresets, HasStates

\* The new presets take the next ids.
LEMMA IdsOfPresets ==
    ASSUME FarmShape, NEW x, NEW ids \in PresetIds(x)
    PROVE  LET new == {ids[n] : n \in PresetsCreated(x)}
           IN  /\ \A n \in DOMAIN x.presets : Named(n) = {} =>
                    ids[n] \in Ids /\ nextPreset <= ids[n] /\ ids[n] < nextPreset + Cardinality(new)
               /\ \A n \in DOMAIN x.presets : Named(n) # {} => ids[n] \in Presets /\ preset[ids[n]].name = n
               /\ \A m, n \in DOMAIN x.presets : ids[m] = ids[n] => m = n
               /\ Cardinality(new) \in Nat /\ nextPreset + Cardinality(new) \in 1..(MaxPresets + 1)
               /\ (new # {} => nextPreset < nextPreset + Cardinality(new))
  <1> DEFINE N   == PresetsCreated(x)
             new == {ids[n] : n \in N}
             g   == [n \in N |-> ids[n]]
             c   == Cardinality(N)
             J   == nextPreset..(nextPreset + c - 1)
  <1>1. N = {n \in DOMAIN x.presets : Named(n) = {}}
    BY DEF PresetsCreated
  <1>2. /\ \A n \in N : ids[n] \in Ids /\ ids[n] \in J
        /\ \A n \in DOMAIN x.presets : n \notin N => ids[n] \in Presets /\ preset[ids[n]].name = n
        /\ \A m, n \in DOMAIN x.presets : ids[m] = ids[n] => m = n
    BY <1>1 DEF PresetIds, Named
  <1>3. nextPreset \in Nat /\ nextPreset >= 1 /\ nextPreset <= MaxPresets + 1 /\ MaxPresets \in Nat
    BY ConfigurationAssumption DEF FarmShape, FarmTypeOK
  <1>4. IsFiniteSet(N) /\ c \in Nat
    <2>1. g \in Injection(N, Ids)
      BY <1>1, <1>2 DEF Injection, IsInjective
    <2>2. IsFiniteSet(Ids)
      BY <1>3, FS_Interval DEF Ids
    <2>3. IsFiniteSet(N)
      BY <2>1, <2>2, FS_Injection
    <2> QED  BY <2>3, FS_CardinalityType
  <1>5. IsFiniteSet(new) /\ Cardinality(new) = c
    <2>1. g \in Bijection(N, new)
      BY <1>1, <1>2 DEF Bijection, Injection, Surjection, IsInjective
    <2>2. ExistsBijection(N, new)
      BY <2>1 DEF ExistsBijection
    <2> HIDE DEF N, new
    <2> QED  BY <1>4, <2>2, FS_Bijection
  <1>6. nextPreset + c - 1 \in Int
    BY <1>3, <1>4
  <1>7. nextPreset + c <= MaxPresets + 1
    <2>1. CASE c = 0
      BY <1>3, <2>1
    <2>2. CASE c > 0
      <3>1. IsFiniteSet(J) /\ Cardinality(J) = c
        BY <1>3, <1>4, <1>6, <2>2, FS_Interval
      <3>2. new \in SUBSET J
        BY <1>2
      <3> HIDE DEF N, new, J
      <3>3. new = J
        BY <1>5, <3>1, <3>2, FS_Subset
      <3>4. nextPreset + c - 1 \in J
        BY <1>3, <1>4, <2>2 DEF J
      <3>5. nextPreset + c - 1 \in Ids
        BY <1>2, <3>3, <3>4 DEF new
      <3> QED  BY <1>3, <1>4, <3>5 DEF Ids
    <2> QED  BY <1>4, <2>1, <2>2
  <1>8. ASSUME NEW n \in N PROVE nextPreset <= ids[n] /\ ids[n] < nextPreset + c /\ c > 0
    BY <1>2, <1>3, <1>4
  <1>9. new # {} => c > 0
    BY <1>8
  <1> HIDE DEF c
  <1>10. c \in Nat /\ nextPreset + c \in 1..(MaxPresets + 1) /\ (new # {} => nextPreset < nextPreset + c)
    BY <1>3, <1>4, <1>7, <1>9
  <1>11. \A n \in DOMAIN x.presets :
            /\ Named(n) = {} => ids[n] \in Ids /\ nextPreset <= ids[n] /\ ids[n] < nextPreset + c
            /\ Named(n) # {} => ids[n] \in Presets /\ preset[ids[n]].name = n
    BY <1>1, <1>2, <1>8
  <1> QED  BY <1>2, <1>5, <1>10, <1>11

\* The import of the archive x, with the ids of its presets.
Applies(x, ids) ==
    /\ ids \in PresetIds(x) /\ ~Conflicts(x)
    /\ WriteAccounts(x, ids) /\ WritePresets(x, ids) /\ WriteSeeds(x) /\ StopForImport(x)
    /\ settings' = IF SettingsUpdated(x) THEN x.settings ELSE settings
    /\ ledger' = Ledger(x, ids)
    /\ imports' = imports + 1 /\ logged' = Nothing
    /\ ours' = [accounts |-> ours.accounts \ (AccountsUpdated(x) \cup AccountsRemoved(x) \cup AccountsPreserved(x)),
                presets |-> ours.presets \ PresetsUpdated(x),
                settings |-> ours.settings /\ ~SettingsUpdated(x)]
    /\ intact' = TRUE
    /\ UNCHANGED edits

LEMMA PlanSorts ==
    ASSUME NEW x
    PROVE  /\ Desired(x) \subseteq DOMAIN x.accounts \cup DOMAIN x.states
           /\ AccountsCreated(x) \subseteq Desired(x) \ Accounts
           /\ AccountsUpdated(x) \subseteq (Desired(x) \cap Accounts) \ AccountsEqual(x)
           /\ AccountsEqual(x) \subseteq Desired(x) \cap Accounts
           /\ AccountsRemoved(x) \subseteq Accounts \ Desired(x)
           /\ AccountsPreserved(x) \subseteq Accounts \ Desired(x)
           /\ AccountsRemoved(x) \cap AccountsPreserved(x) = {}
           /\ AccountsLeft(x) = AccountsRemoved(x) \cup AccountsPreserved(x)
           /\ AccountsReset(x) \subseteq Accounts
           /\ PresetsUpdated(x) \subseteq PresetsNamed(DOMAIN x.presets) \ PresetsEqual(x)
           /\ PresetsRemoved(x) \subseteq PresetsLeft(x)
           /\ PresetsLeft(x) \subseteq Presets \ PresetsNamed(DOMAIN x.presets)
           /\ PresetsNamed(DOMAIN x.presets) \subseteq Presets
  BY DEF Desired, AccountsCreated, AccountsUpdated, AccountsEqual, AccountsRemoved, AccountsPreserved, AccountsLeft,
         AccountsReset, Active, PresetsUpdated, PresetsNamed, PresetsRemoved, PresetsLeft

\* The row that is written for an account.
LEMMA ImportedRow ==
    ASSUME FarmShape, NEW x \in Archives, NEW ids \in PresetIds(x), NEW k \in Desired(x)
    PROVE  /\ Imported(x, k, ids) \in Rows
           /\ Imported(x, k, ids).username = Wanted(x, k).username
           /\ Imported(x, k, ids).password = Wanted(x, k).password
           /\ Imported(x, k, ids).active = Wanted(x, k).active
           /\ Imported(x, k, ids).custom = Wanted(x, k).custom
           /\ Imported(x, k, ids).source.mode = Wanted(x, k).mode
           /\ Wanted(x, k).mode = "preset" =>
                Wanted(x, k).preset \in DOMAIN x.presets /\ Imported(x, k, ids).source = Preset(ids[Wanted(x, k).preset])
           /\ Wanted(x, k).mode # "preset" => Imported(x, k, ids).source.preset = None
  <1> DEFINE w == Wanted(x, k)
             s == IF w.mode = "preset" THEN Preset(ids[w.preset]) ELSE [mode |-> w.mode, preset |-> None]
             r == IF k \in Accounts THEN account[k].revision + 1 ELSE 2
  <1>1. k \in DOMAIN x.accounts \cup DOMAIN x.states
    BY PlanSorts
  <1>2. /\ w.username \in Usernames /\ w.password \in Passwords \cup {NoPassword} /\ w.active \in BOOLEAN
        /\ w.mode \in {"default", "custom", "preset"} /\ w.custom \in Lists \cup {NoList}
        /\ w.mode = "preset" => w.preset \in DOMAIN x.presets
    BY <1>1, ArchiveWants
  <1> HIDE DEF w
  <1>3. w.mode = "preset" => ids[w.preset] \in Ids
    BY <1>2, IdsOfPresets DEF FarmShape, FarmTypeOK
  <1>4. s \in Selections /\ s.mode = w.mode /\ (w.mode # "preset" => s.preset = None)
        /\ (w.mode = "preset" => s = Preset(ids[w.preset]))
    BY <1>2, <1>3, Sourced DEF Selections, Preset
  <1>5. r \in Nat
    BY SourcesSelect DEF Rows
  <1> HIDE DEF s, r
  <1>6. Imported(x, k, ids) = [username |-> w.username, password |-> w.password, active |-> w.active,
                               custom |-> w.custom, source |-> s, printed |-> FALSE, revision |-> r]
    BY DEF Imported, w, s, r
  <1> HIDE DEF w
  <1>7. Imported(x, k, ids) \in Rows
    BY <1>2, <1>4, <1>5, <1>6 DEF Rows
  <1> QED  BY <1>2, <1>4, <1>6, <1>7 DEF w

\* What becomes of the accounts.
LEMMA AccountsApplied ==
    ASSUME FarmShape, NEW x \in Archives, NEW ids, Applies(x, ids)
    PROVE  /\ Accounts' = (Accounts \cup AccountsCreated(x) \cup AccountsUpdated(x)) \ AccountsRemoved(x)
           /\ \A k \in AccountsCreated(x) \cup AccountsUpdated(x) :
                k \in Accounts' /\ account'[k] = Imported(x, k, ids)
           /\ \A k \in AccountsPreserved(x) : k \in Accounts' /\ account'[k] = Archived(account[k])
           /\ \A k \in Accounts \ (AccountsUpdated(x) \cup AccountsRemoved(x) \cup AccountsPreserved(x)) :
                k \in Accounts' /\ account'[k] = account[k]
           /\ Desired(x) = AccountsCreated(x) \cup AccountsEqual(x) \cup AccountsUpdated(x)
           /\ Desired(x) \subseteq Accounts'
  <1>1. account' = [k \in (Accounts \cup AccountsCreated(x) \cup AccountsUpdated(x)) \ AccountsRemoved(x) |->
                      IF k \in AccountsCreated(x) \cup AccountsUpdated(x) THEN Imported(x, k, ids)
                      ELSE IF k \in AccountsPreserved(x) THEN Archived(account[k]) ELSE account[k]]
    BY DEF Applies, WriteAccounts
  <1>2. Desired(x) = AccountsCreated(x) \cup AccountsEqual(x) \cup AccountsUpdated(x)
    BY DEF Applies, Conflicts
  <1> QED  BY <1>1, <1>2, PlanSorts

\* What becomes of the presets.
LEMMA PresetsApplied ==
    ASSUME FarmShape, NEW x \in Archives, NEW ids, Applies(x, ids)
    PROVE  /\ Presets' \subseteq Ids
           /\ \A n \in DOMAIN x.presets :
                ids[n] \in Presets' /\ preset'[ids[n]] = [name |-> n, channels |-> x.presets[n]]
           /\ \A i \in Presets' : (\A n \in DOMAIN x.presets : ids[n] # i) =>
                i \in Presets /\ preset'[i] = preset[i] /\ preset[i].name \notin DOMAIN x.presets
           /\ \A i \in Presets \cap Presets' :
                preset'[i].name = preset[i].name /\ (i \notin PresetsUpdated(x) => preset'[i] = preset[i])
           /\ Presets \ Presets' \subseteq PresetsRemoved(x)
           /\ \A i \in Presets, k \in Accounts' : account'[k].source = Preset(i) => i \in Presets'
           /\ \A i \in Presets' \ Presets :
                nextPreset <= i /\ \E n \in PresetsCreated(x) : i = ids[n]
           /\ \A i \in Presets' : i < nextPreset'
           /\ nextPreset <= nextPreset' /\ nextPreset' \in 1..(MaxPresets + 1)
           /\ \A i \in Presets' : preset'[i] \in [name : Names, channels : Lists]
           /\ Numbered'
  <1> DEFINE new  == {ids[n] : n \in PresetsCreated(x)}
             kept == {i \in Presets : i \in PresetsRemoved(x) =>
                        \E k \in DOMAIN account' : account'[k].source = Preset(i)}
             has(i) == \E n \in DOMAIN x.presets : ids[n] = i
             of(i)  == CHOOSE n \in DOMAIN x.presets : ids[n] = i
  <1>1. /\ preset' = [i \in kept \cup new |->
                        IF has(i) THEN [name |-> of(i), channels |-> x.presets[of(i)]] ELSE preset[i]]
        /\ nextPreset' = nextPreset + Cardinality(new)
    BY DEF Applies, WritePresets
  <1>2. /\ \A n \in PresetsCreated(x) :
              ids[n] \in Ids /\ nextPreset <= ids[n] /\ ids[n] < nextPreset'
        /\ \A n \in DOMAIN x.presets : n \notin PresetsCreated(x) => ids[n] \in Presets /\ preset[ids[n]].name = n
        /\ \A m, n \in DOMAIN x.presets : ids[m] = ids[n] => m = n
        /\ PresetsCreated(x) \subseteq DOMAIN x.presets
        /\ \A n \in PresetsCreated(x) : Named(n) = {}
        /\ nextPreset' \in 1..(MaxPresets + 1) /\ nextPreset <= nextPreset'
    <2>1. ids \in PresetIds(x)
      BY DEF Applies
    <2>2. nextPreset \in Nat /\ Cardinality(new) \in Nat
      BY <2>1, IdsOfPresets DEF FarmShape, FarmTypeOK
    <2>3. PresetsCreated(x) = {n \in DOMAIN x.presets : Named(n) = {}}
      BY DEF PresetsCreated
    <2>4. /\ \A n \in DOMAIN x.presets : Named(n) = {} =>
                    ids[n] \in Ids /\ nextPreset <= ids[n] /\ ids[n] < nextPreset'
          /\ nextPreset' \in 1..(MaxPresets + 1)
      <3>1. /\ \A n \in DOMAIN x.presets : Named(n) = {} =>
                    ids[n] \in Ids /\ nextPreset <= ids[n] /\ ids[n] < nextPreset + Cardinality(new)
            /\ nextPreset + Cardinality(new) \in 1..(MaxPresets + 1)
        BY <2>1, IdsOfPresets
      <3> HIDE DEF new
      <3> QED  BY <1>1, <3>1
    <2>5. nextPreset <= nextPreset'
      <3> HIDE DEF new
      <3> QED  BY <1>1, <2>2
    <2>6. /\ \A n \in DOMAIN x.presets : Named(n) # {} => ids[n] \in Presets /\ preset[ids[n]].name = n
          /\ \A m, n \in DOMAIN x.presets : ids[m] = ids[n] => m = n
      BY <2>1, IdsOfPresets
    <2> HIDE DEF new
    <2> QED  BY <2>3, <2>4, <2>5, <2>6
  <1>3. \A i \in Presets : i \in Nat /\ i \in Ids /\ i < nextPreset /\ preset[i] \in [name : Names, channels : Lists]
    BY Sourced DEF FarmShape, FarmTypeOK, Numbered
  <1>4. /\ DOMAIN x.presets \subseteq Names /\ \A n \in DOMAIN x.presets : x.presets[n] \in Lists
    BY ArchiveWants
  <1>5. nextPreset \in Nat
    BY DEF FarmShape, FarmTypeOK
  <1>6. ASSUME NEW n \in DOMAIN x.presets
        PROVE  ids[n] \in kept \cup new /\ has(ids[n]) /\ of(ids[n]) = n
    <2>1. CASE n \in PresetsCreated(x)
      BY <1>2, <2>1
    <2>2. CASE n \notin PresetsCreated(x)
      <3>1. ids[n] \in Presets /\ ids[n] \notin PresetsRemoved(x)
        BY <1>2, <2>2, PlanSorts DEF PresetsNamed
      <3> QED  BY <1>2, <3>1
    <2> QED  BY <2>1, <2>2
  <1>7. Presets' = kept \cup new
    BY <1>1
  <1>8. \A n \in DOMAIN x.presets :
          ids[n] \in Presets' /\ preset'[ids[n]] = [name |-> n, channels |-> x.presets[n]]
    BY <1>1, <1>6
  <1>9. \A i \in Presets' : ~has(i) => i \in Presets /\ preset'[i] = preset[i]
    BY <1>1, <1>2
  <1>10. \A i \in Presets : preset[i].name \in DOMAIN x.presets => has(i)
    <2>1. ASSUME NEW i \in Presets, preset[i].name \in DOMAIN x.presets PROVE has(i)
      <3>1. Named(preset[i].name) # {}
        BY DEF Named
      <3>2. ids[preset[i].name] \in Presets /\ preset[ids[preset[i].name]].name = preset[i].name
        BY <1>2, <2>1, <3>1
      <3>3. ids[preset[i].name] = i
        BY <3>2 DEF FarmShape, Numbered
      <3> QED  BY <2>1, <3>3
    <2> QED  BY <2>1
  <1>11. ASSUME NEW i \in Presets \cap Presets', has(i)
         PROVE  /\ preset[i].name \in DOMAIN x.presets /\ ids[preset[i].name] = i
                /\ preset'[i] = [name |-> preset[i].name, channels |-> x.presets[preset[i].name]]
    <2>1. PICK n \in DOMAIN x.presets : ids[n] = i
      BY <1>11
    <2>2. n \notin PresetsCreated(x)
      BY <1>2, <1>3, <1>5, <2>1
    <2>3. preset[i].name = n
      BY <1>2, <2>1, <2>2
    <2> QED  BY <1>8, <2>1, <2>3
  <1>12. \A i \in Presets \cap Presets' :
           preset'[i].name = preset[i].name /\ (i \notin PresetsUpdated(x) => preset'[i] = preset[i])
    <2>1. ASSUME NEW i \in Presets \cap Presets', has(i)
          PROVE  preset'[i].name = preset[i].name /\ (i \notin PresetsUpdated(x) => preset'[i] = preset[i])
      <3>1. preset'[i] = [name |-> preset[i].name, channels |-> x.presets[preset[i].name]]
            /\ preset[i].name \in DOMAIN x.presets
        BY <1>11, <2>1
      <3>2. ASSUME i \notin PresetsUpdated(x) PROVE preset[i].channels = x.presets[preset[i].name]
        <4>1. i \in PresetsNamed(DOMAIN x.presets)
          BY <3>1 DEF PresetsNamed
        <4>2. PresetsNamed(DOMAIN x.presets) = PresetsEqual(x) \cup PresetsUpdated(x)
          BY DEF Applies, Conflicts
        <4> QED  BY <3>2, <4>1, <4>2 DEF PresetsEqual
      <3>3. preset[i] = [name |-> preset[i].name, channels |-> preset[i].channels]
        BY <1>3
      <3> QED  BY <3>1, <3>2, <3>3
    <2> QED  BY <1>9, <2>1
  <1>13. Presets \ Presets' \subseteq PresetsRemoved(x)
    BY <1>7
  <1>14. \A i \in Presets, k \in Accounts' : account'[k].source = Preset(i) => i \in Presets'
    BY <1>7
  <1>15. \A i \in Presets' \ Presets : nextPreset <= i /\ \E n \in PresetsCreated(x) : i = ids[n]
    BY <1>2, <1>7
  <1>16. \A i \in Presets' : i \in Ids /\ i < nextPreset'
    BY <1>2, <1>3, <1>5, <1>7
  <1> HIDE DEF kept, new, of
  <1>17. \A i \in Presets' : preset'[i] \in [name : Names, channels : Lists]
    <2>1. ASSUME NEW i \in Presets', has(i) PROVE preset'[i] \in [name : Names, channels : Lists]
      <3>1. PICK n \in DOMAIN x.presets : ids[n] = i
        BY <2>1
      <3>2. preset'[i] = [name |-> n, channels |-> x.presets[n]]
        BY <1>8, <3>1
      <3> QED  BY <1>4, <3>2
    <2> QED  BY <1>3, <1>9, <2>1
  <1>18. ASSUME NEW i \in Presets', NEW j \in Presets', preset'[i].name = preset'[j].name PROVE i = j
    <2>1. CASE has(i) /\ has(j)
      <3>1. PICK m \in DOMAIN x.presets, n \in DOMAIN x.presets : ids[m] = i /\ ids[n] = j
        BY <2>1
      <3>2. preset'[i].name = m /\ preset'[j].name = n
        <4>1. preset'[i] = [name |-> m, channels |-> x.presets[m]] /\ preset'[j] = [name |-> n, channels |-> x.presets[n]]
          BY <1>8, <3>1
        <4> QED  BY <4>1
      <3> QED  BY <1>18, <3>1, <3>2
    <2>2. CASE ~has(i) /\ ~has(j)
      BY <1>9, <1>18, <2>2 DEF FarmShape, Numbered
    <2>3. ASSUME NEW a \in Presets', NEW b \in Presets', has(a), ~has(b), preset'[a].name = preset'[b].name PROVE FALSE
      <3>1. PICK n \in DOMAIN x.presets : ids[n] = a
        BY <2>3
      <3>2. preset'[b].name \in DOMAIN x.presets
        <4>1. preset'[a] = [name |-> n, channels |-> x.presets[n]]
          BY <1>8, <3>1
        <4> QED  BY <2>3, <4>1
      <3> QED  BY <1>9, <1>10, <2>3, <3>2
    <2> QED  BY <1>18, <2>1, <2>2, <2>3
  <1>19. Numbered'
    BY <1>16, <1>18 DEF Numbered
  <1> QED  BY <1>2, <1>8, <1>9, <1>10, <1>12, <1>13, <1>14, <1>15, <1>16, <1>17, <1>19

LEMMA ArchivedRow ==
    ASSUME NEW a \in Rows
    PROVE  /\ Archived(a) \in Rows /\ Archived(a).source = Default
           /\ Archived(a).username = a.username /\ Archived(a).active = FALSE
  <1> DEFINE b == [a EXCEPT !.source = Default, !.custom = NoList, !.active = FALSE]
             e == [b EXCEPT !.printed = FALSE]
             c == [e EXCEPT !.revision = @ + 1]
  <1>1. Default \in Selections
    BY Sourced
  <1>2. b \in Rows /\ b.source = Default /\ b.username = a.username /\ b.active = FALSE
    BY <1>1 DEF Rows
  <1>3. Archived(a) = c
    BY DEF Archived, Rows
  <1> HIDE DEF b
  <1>4. e \in Rows /\ e.source = b.source /\ e.username = b.username /\ e.active = b.active
    BY <1>2 DEF Rows
  <1> HIDE DEF e
  <1>5. c \in Rows /\ c.source = e.source /\ c.username = e.username /\ c.active = e.active
    BY <1>4 DEF Rows
  <1> QED  BY <1>2, <1>3, <1>4, <1>5

\* The rows of an import are rows, refer to presets that exist, and are finitely many.
LEMMA RowsApplied ==
    ASSUME FarmShape, NEW x \in Archives, NEW ids, Applies(x, ids)
    PROVE  /\ IsFiniteSet(Accounts') /\ Accounts' \subseteq Keys
           /\ \A k \in Accounts' : account'[k] \in Rows /\ account'[k].source.preset \in Presets' \cup {None}
  <1>1. ids \in PresetIds(x)
    BY DEF Applies
  <1>2. IsFiniteSet(Accounts') /\ Accounts' \subseteq Keys
    <2> DEFINE D == DOMAIN x.accounts \cup DOMAIN x.states
               F == Accounts \cup D
    <2>1. IsFiniteSet(D) /\ D \subseteq Keys
      BY ArchiveWants, FS_Union
    <2>2. IsFiniteSet(F)
      BY <2>1, FS_Union DEF FarmShape
    <2>3. Accounts' \in SUBSET F
      <3>1. Accounts' \subseteq Accounts \cup Desired(x)
        <4>1. Accounts' = (Accounts \cup AccountsCreated(x) \cup AccountsUpdated(x)) \ AccountsRemoved(x)
          BY AccountsApplied
        <4>2. AccountsCreated(x) \subseteq Desired(x) /\ AccountsUpdated(x) \subseteq Desired(x)
          BY PlanSorts
        <4> QED  BY <4>1, <4>2
      <3>2. Desired(x) \subseteq D
        BY PlanSorts
      <3> QED  BY <3>1, <3>2
    <2>4. Accounts \subseteq Keys
      BY DEF FarmShape, FarmTypeOK
    <2> QED  BY <2>1, <2>2, <2>3, <2>4, FS_Subset
  <1>3. ASSUME NEW k \in AccountsCreated(x) \cup AccountsUpdated(x)
        PROVE  account'[k] \in Rows /\ account'[k].source.preset \in Presets' \cup {None}
    <2>1. account'[k] = Imported(x, k, ids) /\ k \in Desired(x)
      BY AccountsApplied, PlanSorts
    <2>2. CASE Wanted(x, k).mode = "preset"
      <3>1. ids[Wanted(x, k).preset] \in Presets' /\ Presets' \subseteq Ids
            /\ account'[k].source = Preset(ids[Wanted(x, k).preset])
        <4>1. Wanted(x, k).preset \in DOMAIN x.presets
              /\ account'[k].source = Preset(ids[Wanted(x, k).preset])
          BY <1>1, <2>1, <2>2, ImportedRow
        <4> QED  BY <4>1, PresetsApplied
      <3> QED  BY <1>1, <2>1, <3>1, ImportedRow DEF Preset
    <2>3. CASE Wanted(x, k).mode # "preset"
      BY <1>1, <2>1, <2>3, ImportedRow
    <2> QED  BY <2>2, <2>3
  <1>4. ASSUME NEW k \in AccountsPreserved(x)
        PROVE  account'[k] \in Rows /\ account'[k].source.preset \in Presets' \cup {None}
    <2>1. account'[k] = Archived(account[k]) /\ account[k] \in Rows
      BY AccountsApplied, PlanSorts, SourcesSelect
    <2>2. account'[k] \in Rows /\ account'[k].source = Default
      BY <2>1, ArchivedRow
    <2> QED  BY <2>2 DEF Default
  <1>5. ASSUME NEW k \in Accounts', k \notin AccountsCreated(x) \cup AccountsUpdated(x) \cup AccountsPreserved(x)
        PROVE  account'[k] \in Rows /\ account'[k].source.preset \in Presets' \cup {None}
    <2>1. k \in Accounts /\ account'[k] = account[k]
      BY <1>5, AccountsApplied
    <2>2. account[k] \in Rows /\ account[k].source \in Selections /\ account[k].source.preset \in Presets \cup {None}
      BY <2>1, SourcesSelect DEF FarmShape
    <2>3. CASE account[k].source.preset \in Presets
      <3>1. account'[k].source = Preset(account[k].source.preset)
        BY <2>1, <2>2, <2>3, SourcesSelect, Sourced
      <3>2. account[k].source.preset \in Presets'
        BY <2>3, <3>1, PresetsApplied
      <3> QED  BY <2>1, <2>2, <3>2
    <2> QED  BY <2>1, <2>2, <2>3
  <1> QED  BY <1>2, <1>3, <1>4, <1>5

LEMMA SeedsApplied ==
    ASSUME FarmShape, SeedMatchesUser, NEW x \in Archives, NEW ids, Applies(x, ids)
    PROVE  /\ SeedMatchesUser'
           /\ DOMAIN seed' \subseteq Accounts' /\ \A k \in DOMAIN seed' : seed'[k] \in Usernames
  <1> DEFINE new == {k \in AccountsCreated(x) : Cookie(x, k) = "valid"}
  <1>1. seed' = [k \in (DOMAIN seed \ Outdated(x)) \cup new |->
                    IF k \in new THEN Wanted(x, k).username ELSE seed[k]]
    BY DEF Applies, WriteSeeds
  <1>2. ids \in PresetIds(x)
    BY DEF Applies
  <1>3. ASSUME NEW k \in new
        PROVE  k \in Accounts' /\ seed'[k] = account'[k].username
    <2>1. k \in AccountsCreated(x) /\ k \in Desired(x)
      BY PlanSorts
    <2>2. k \in Accounts' /\ account'[k] = Imported(x, k, ids)
      BY <2>1, AccountsApplied
    <2> QED  BY <1>1, <1>2, <2>1, <2>2, ImportedRow
  <1>4. ASSUME NEW k \in DOMAIN seed \ Outdated(x), k \notin new
        PROVE  k \in Accounts' /\ seed'[k] = account'[k].username
    <2>1. k \in Accounts /\ k \notin AccountsRemoved(x) /\ seed'[k] = seed[k] /\ seed[k] = account[k].username
      BY <1>1, <1>4 DEF FarmShape, FarmTypeOK, SeedMatchesUser, Outdated
    <2>2. CASE k \in AccountsUpdated(x)
      <3>1. Wanted(x, k).username = account[k].username
        BY <1>4, <2>2 DEF Outdated, Renamed
      <3>2. k \in Accounts' /\ account'[k] = Imported(x, k, ids) /\ k \in Desired(x)
        BY <2>2, AccountsApplied, PlanSorts
      <3> QED  BY <1>2, <2>1, <3>1, <3>2, ImportedRow
    <2>3. CASE k \in AccountsPreserved(x)
      <3>1. k \in Accounts' /\ account'[k] = Archived(account[k]) /\ account[k] \in Rows
        BY <2>1, <2>3, AccountsApplied, SourcesSelect
      <3> QED  BY <2>1, <3>1, ArchivedRow
    <2>4. CASE k \notin AccountsUpdated(x) /\ k \notin AccountsPreserved(x)
      BY <2>1, <2>4, AccountsApplied
    <2> QED  BY <2>2, <2>3, <2>4
  <1>5. \A k \in DOMAIN seed' : k \in Accounts' /\ seed'[k] = account'[k].username
    BY <1>1, <1>3, <1>4
  <1>6. \A k \in Accounts' : account'[k].username \in Usernames
    BY RowsApplied DEF Rows
  <1> QED  BY <1>5, <1>6 DEF SeedMatchesUser

LEMMA ImportShape ==
    ASSUME FarmShape, SeedMatchesUser, NEW x \in Archives, NEW ids, Applies(x, ids)
    PROVE  FarmShape'
  <1>1. running' \cup asked' \cup live' \cup history' \subseteq Accounts'
    <2>1. running \cup asked \cup live \cup history \subseteq Accounts
      BY DEF FarmShape, FarmTypeOK
    <2>2. Stopped(x) \subseteq Accounts
      BY PlanSorts DEF Stopped
    <2>3. Accounts \ AccountsRemoved(x) \subseteq Accounts'
      BY AccountsApplied
    <2> QED  BY <2>1, <2>2, <2>3 DEF Applies, StopForImport
  <1>2. settings' \in Settings
    BY ArchiveWants DEF Applies, FarmShape, FarmTypeOK
  <1>3. logged' \in [accounts : SUBSET Keys, presets : SUBSET Ids, settings : BOOLEAN] /\ edits' \in 0..MaxEdits
    BY DEF Applies, Nothing, FarmShape, FarmTypeOK
  <1>4. /\ Presets' \subseteq Ids /\ \A i \in Presets' : preset'[i] \in [name : Names, channels : Lists]
        /\ nextPreset' \in 1..(MaxPresets + 1) /\ Numbered'
    BY PresetsApplied
  <1>5. FarmTypeOK'
    BY <1>1, <1>2, <1>3, <1>4, RowsApplied, SeedsApplied DEF FarmTypeOK
  <1> QED  BY <1>4, <1>5, RowsApplied DEF FarmShape

\* Who goes on to run does so as before.
LEMMA ImportInforms ==
    ASSUME FarmShape, RunningIsLaunchable, NEW x \in Archives, NEW ids, Applies(x, ids)
    PROVE  Informs
  <1> SUFFICES ASSUME NEW k \in running' PROVE k \in running /\ Stays(k)
    BY DEF Informs
  <1>1. k \in running /\ k \notin Stopped(x) /\ k \notin AccountsRemoved(x)
    BY DEF Applies, StopForImport
  <1>2. k \in Accounts /\ account[k].active /\ account[k].source \in Selections
        /\ account[k].source.preset \in Presets \cup {None}
    BY <1>1, SourcesSelect DEF FarmShape, FarmTypeOK, RunningIsLaunchable, Launchable, CanLaunch
  <1>3. k \in Accounts' /\ account'[k] = account[k]
    BY <1>1, <1>2, AccountsApplied DEF Stopped
  <1>4. k \notin AccountsReset(x) /\ RequiresStop(k) /\ k \in Active(Accounts)
    BY <1>1, <1>2 DEF Stopped, RequiresStop, Active
  <1>5. account[k].source = Default => settings' = settings
    BY <1>4 DEF AccountsReset, Applies
  <1>6. ASSUME account[k].source # Default, account[k].source # Custom
        PROVE  preset'[account[k].source.preset] = preset[account[k].source.preset]
    <2> DEFINE i == account[k].source.preset
    <2>1. i \in Presets /\ account[k].source = Preset(i)
      BY <1>2, <1>6, Sourced
    <2>2. i \notin PresetsUpdated(x)
      BY <1>4, <2>1 DEF AccountsReset
    <2>3. i \in Presets'
      BY <1>3, <2>1, PresetsApplied
    <2> QED  BY <2>1, <2>2, <2>3, PresetsApplied
  <1> QED  BY <1>1, <1>3, <1>5, <1>6 DEF Stays, Alike

LEMMA SemanticStays ==
    ASSUME FarmShape, NEW k \in Accounts, Alike(account'[k], account[k]),
           account[k].source.mode = "preset" =>
             preset'[account[k].source.preset].name = preset[account[k].source.preset].name
    PROVE  Semantic(k)' = Semantic(k)
  BY DEF Semantic, Alike

\* What an import makes of the configurations.
LEMMA SemanticApplied ==
    ASSUME FarmShape, NEW x \in Archives, NEW ids, Applies(x, ids)
    PROVE  /\ \A k \in Desired(x) : k \in Accounts' /\ Semantic(k)' = Wanted(x, k)
           /\ \A k \in Accounts \ (AccountsUpdated(x) \cup AccountsRemoved(x) \cup AccountsPreserved(x)) :
                k \in Accounts' /\ account'[k] = account[k] /\ Semantic(k)' = Semantic(k)
  <1>1. ids \in PresetIds(x)
    BY DEF Applies
  <1>2. ASSUME NEW k \in AccountsCreated(x) \cup AccountsUpdated(x)
        PROVE  k \in Accounts' /\ Semantic(k)' = Wanted(x, k)
    <2> DEFINE w == Wanted(x, k)
               a == account'[k]
    <2>1. k \in Accounts' /\ a = Imported(x, k, ids) /\ k \in Desired(x)
      BY AccountsApplied, PlanSorts
    <2>2. /\ a.username = w.username /\ a.password = w.password /\ a.active = w.active
          /\ a.custom = w.custom /\ a.source.mode = w.mode
          /\ w.mode = "preset" => w.preset \in DOMAIN x.presets /\ a.source = Preset(ids[w.preset])
      BY <1>1, <2>1, ImportedRow
    <2>3. k \in DOMAIN x.accounts \cup DOMAIN x.states
      BY <2>1, PlanSorts
    <2>4. w.preset = IF a.source.mode = "preset" THEN preset'[a.source.preset].name ELSE NoName
      <3>1. CASE w.mode = "preset"
        <4>1. preset'[ids[w.preset]] = [name |-> w.preset, channels |-> x.presets[w.preset]]
          BY <2>2, <3>1, PresetsApplied
        <4>2. a.source.preset = ids[w.preset]
          BY <2>2, <3>1 DEF Preset
        <4> QED  BY <2>2, <3>1, <4>1, <4>2
      <3>2. CASE w.mode # "preset"
        BY <2>2, <2>3, <3>2, ArchiveWants
      <3> QED  BY <3>1, <3>2
    <2>5. w = [username |-> w.username, password |-> w.password, active |-> w.active,
               mode |-> w.mode, custom |-> w.custom, preset |-> w.preset]
      BY DEF Wanted
    <2> HIDE DEF w
    <2>6. Semantic(k)' = [username |-> a.username, password |-> a.password, active |-> a.active,
                          mode |-> a.source.mode, custom |-> a.custom,
                          preset |-> IF a.source.mode = "preset" THEN preset'[a.source.preset].name ELSE NoName]
      BY DEF Semantic
    <2> HIDE DEF a
    <2> QED  BY <2>1, <2>2, <2>4, <2>5, <2>6 DEF w
  <1>3. ASSUME NEW k \in Accounts \ (AccountsUpdated(x) \cup AccountsRemoved(x) \cup AccountsPreserved(x))
        PROVE  k \in Accounts' /\ account'[k] = account[k] /\ Semantic(k)' = Semantic(k)
    <2>1. k \in Accounts' /\ account'[k] = account[k]
      BY AccountsApplied
    <2>2. account[k].source \in Selections /\ account[k].source.preset \in Presets \cup {None}
      BY SourcesSelect DEF FarmShape
    <2>3. ASSUME account[k].source.mode = "preset"
          PROVE  preset'[account[k].source.preset].name = preset[account[k].source.preset].name
      <3>1. account[k].source.preset \in Presets /\ account'[k].source = Preset(account[k].source.preset)
        BY <2>1, <2>2, <2>3, Sourced
      <3>2. account[k].source.preset \in Presets'
        BY <2>1, <3>1, PresetsApplied
      <3> QED  BY <3>1, <3>2, PresetsApplied
    <2> QED  BY <2>1, <2>3, SemanticStays DEF Alike
  <1>4. ASSUME NEW k \in Desired(x) PROVE k \in Accounts' /\ Semantic(k)' = Wanted(x, k)
    <2>1. CASE k \in AccountsCreated(x) \cup AccountsUpdated(x)
      BY <1>2, <2>1
    <2>2. CASE k \in AccountsEqual(x)
      <3>1. k \in Accounts \ (AccountsUpdated(x) \cup AccountsRemoved(x) \cup AccountsPreserved(x))
        BY <2>2, PlanSorts
      <3> QED  BY <1>3, <2>2, <3>1 DEF AccountsEqual
    <2> QED  BY <2>1, <2>2, AccountsApplied
  <1> QED  BY <1>3, <1>4

\* The preset of a name that the archive has is the one with its id.
LEMMA NamedById ==
    ASSUME FarmShape, NEW x \in Archives, NEW ids, Applies(x, ids),
           NEW i \in PresetsNamed(DOMAIN x.presets)
    PROVE  ids[preset[i].name] = i /\ i \in Presets'
  <1>1. i \in Presets /\ preset[i].name \in DOMAIN x.presets /\ ids \in PresetIds(x)
    BY DEF PresetsNamed, Applies
  <1>2. Named(preset[i].name) # {}
    BY <1>1 DEF Named
  <1>3. ids[preset[i].name] \in Presets /\ preset[ids[preset[i].name]].name = preset[i].name
    BY <1>1, <1>2, IdsOfPresets
  <1>4. ids[preset[i].name] = i
    BY <1>1, <1>3 DEF FarmShape, Numbered
  <1>5. ids[preset[i].name] \in Presets'
    BY <1>1, PresetsApplied
  <1> QED  BY <1>4, <1>5

LEMMA LedgerApplied ==
    ASSUME FarmShape, NEW x \in Archives, NEW ids, Applies(x, ids)
    PROVE  /\ DOMAIN ledger'.accounts = Desired(x) /\ \A k \in Desired(x) : ledger'.accounts[k] = Semantic(k)'
           /\ ledger'.createdAccounts \cup ledger'.mutableAccounts \subseteq Desired(x)
           /\ DOMAIN ledger'.presets = {ids[n] : n \in DOMAIN x.presets}
           /\ ledger'.createdPresets \cup ledger'.mutablePresets \subseteq DOMAIN ledger'.presets
           /\ \A k : LedgerOwns(k)' /\ k \in Accounts => k \in AccountsUpdated(x) \/ (LedgerOwns(k) /\ AccountIsIntact(k))
           /\ \A i : LedgerHas(i)' =>
                i \in PresetsUpdated(x) \/ (LedgerHas(i) /\ PresetIsIntact(i)) \/ i \in {ids[n] : n \in PresetsCreated(x)}
           /\ ledger'.source = x
           /\ ledger'.settingsOwned => SettingsUpdated(x) \/ (ledger.settingsOwned /\ ~logged.settings)
  <1> DEFINE equal  == {k \in AccountsEqual(x) : AccountIsIntact(k)}
             equalP == {i \in PresetsEqual(x) : PresetIsIntact(i)}
             newP   == {ids[n] : n \in PresetsCreated(x)}
             range  == {ids[n] : n \in DOMAIN x.presets}
  <1>1. /\ ledger'.source = x
        /\ ledger'.accounts = [k \in Desired(x) |-> Semantic(k)']
        /\ ledger'.createdAccounts = AccountsCreated(x) \cup ((AccountsUpdated(x) \cup equal) \cap ledger.createdAccounts)
        /\ ledger'.mutableAccounts = AccountsCreated(x) \cup AccountsUpdated(x) \cup (equal \cap ledger.mutableAccounts)
        /\ ledger'.presets = [i \in range |-> preset'[i]]
        /\ ledger'.createdPresets = newP \cup ((PresetsUpdated(x) \cup equalP) \cap ledger.createdPresets)
        /\ ledger'.mutablePresets = newP \cup PresetsUpdated(x) \cup (equalP \cap ledger.mutablePresets)
    BY DEF Applies, Ledger
  <1>2. ledger'.settingsOwned => SettingsUpdated(x) \/ (ledger.settingsOwned /\ ~logged.settings)
    BY DEF Applies, Ledger
  <1>3. newP \subseteq range
    BY DEF PresetsCreated
  <1>4. PresetsUpdated(x) \cup equalP \subseteq range
    <2>1. ASSUME NEW i \in PresetsNamed(DOMAIN x.presets) PROVE i \in range
      <3>1. ids[preset[i].name] = i /\ preset[i].name \in DOMAIN x.presets
        BY NamedById DEF PresetsNamed
      <3> QED  BY <3>1
    <2>2. PresetsUpdated(x) \cup equalP \subseteq PresetsNamed(DOMAIN x.presets)
      BY PlanSorts DEF PresetsEqual
    <2> QED  BY <2>1, <2>2
  <1>5. /\ AccountsCreated(x) \cup AccountsUpdated(x) \cup equal \subseteq Desired(x)
        /\ AccountsCreated(x) \cap Accounts = {}
    BY PlanSorts
  <1>6. /\ \A k : LedgerOwns(k)' /\ k \in Accounts => k \in AccountsUpdated(x) \/ (LedgerOwns(k) /\ AccountIsIntact(k))
        /\ \A i : LedgerHas(i)' =>
             i \in PresetsUpdated(x) \/ (LedgerHas(i) /\ PresetIsIntact(i)) \/ i \in newP
    BY <1>1, <1>5 DEF LedgerOwns, LedgerHas
  <1> HIDE DEF equal, equalP, newP, range
  <1>7. /\ DOMAIN ledger'.accounts = Desired(x) /\ \A k \in Desired(x) : ledger'.accounts[k] = Semantic(k)'
        /\ ledger'.createdAccounts \cup ledger'.mutableAccounts \subseteq Desired(x)
        /\ DOMAIN ledger'.presets = range
        /\ ledger'.createdPresets \cup ledger'.mutablePresets \subseteq range
    BY <1>1, <1>3, <1>4, <1>5
  <1> QED  BY <1>1, <1>2, <1>6, <1>7 DEF newP, range

LEMMA ImportLedger ==
    ASSUME FarmShape, LedgerOK, imports < MaxImports, NEW x \in Archives, NEW ids, Applies(x, ids)
    PROVE  LedgerOK'
  <1>1. DOMAIN ledger'.accounts = Desired(x) /\ Desired(x) \subseteq Accounts'
    BY LedgerApplied, AccountsApplied
  <1>2. DOMAIN ledger'.presets \subseteq Ids
    <2>1. DOMAIN ledger'.presets = {ids[n] : n \in DOMAIN x.presets}
      BY LedgerApplied
    <2>2. \A n \in DOMAIN x.presets : ids[n] \in Presets' /\ Presets' \subseteq Ids
      BY PresetsApplied
    <2> QED  BY <2>1, <2>2
  <1>3. imports' \in 0..MaxImports
    BY ImportAssumption DEF LedgerOK, Applies
  <1>4. /\ ledger'.mutableAccounts \cup ledger'.createdAccounts \subseteq DOMAIN ledger'.accounts
        /\ ledger'.mutablePresets \cup ledger'.createdPresets \subseteq DOMAIN ledger'.presets
    BY LedgerApplied
  <1> QED  BY <1>1, <1>2, <1>3, <1>4 DEF LedgerOK

\* What the control room owns is not the import's to change.
LEMMA OursLeftAlone ==
    ASSUME OursAreKnown, NEW x \in Archives, ~Conflicts(x)
    PROVE  /\ \A k \in ours.accounts : k \notin AccountsUpdated(x) \cup AccountsRemoved(x) \cup AccountsPreserved(x)
           /\ \A i \in ours.presets : i \notin PresetsUpdated(x) \cup PresetsRemoved(x)
           /\ ours.settings => ~SettingsUpdated(x)
  <1>1. ASSUME NEW k \in ours.accounts, LedgerOwns(k) PROVE ~AccountIsIntact(k)
    <2>1. CASE k \in logged.accounts
      BY <2>1 DEF AccountIsIntact
    <2>2. CASE account[k].password = TvLogin
      BY <2>2 DEF AccountIsIntact, OursAreKnown, Semantic
    <2> QED  BY <1>1, <2>1, <2>2 DEF OursAreKnown
  <1>2. ASSUME NEW k \in ours.accounts
        PROVE  k \notin AccountsUpdated(x) \cup AccountsRemoved(x) \cup AccountsPreserved(x)
    <2>1. k \notin AccountsUpdated(x)
      BY <1>1 DEF AccountsUpdated, LedgerOwns, LegacyShell, OursAreKnown
    <2>2. k \notin AccountsLeft(x)
      BY <1>1 DEF Conflicts, AccountsLeft, LedgerOwns
    <2> QED  BY <2>1, <2>2, PlanSorts
  <1>3. ASSUME NEW i \in ours.presets PROVE i \notin PresetsUpdated(x) \cup PresetsRemoved(x)
    <2>1. LedgerHas(i) => ~PresetIsIntact(i)
      BY DEF OursAreKnown, PresetIsIntact
    <2>2. i \notin PresetsUpdated(x)
      BY <2>1 DEF PresetsUpdated, LedgerHas
    <2>3. i \notin PresetsLeft(x)
      BY <2>1 DEF Conflicts, PresetsLeft, LedgerHas
    <2> QED  BY <2>2, <2>3, PlanSorts
  <1>4. ours.settings => ~SettingsUpdated(x)
    BY DEF OursAreKnown, SettingsUpdated, SettingsAreIntact
  <1> QED  BY <1>2, <1>3, <1>4

LEMMA ImportOurs ==
    ASSUME FarmShape, LedgerOK, OursAreKnown, ours.presets \subseteq Ids,
           NEW x \in Archives, NEW ids, Applies(x, ids)
    PROVE  OursAreKnown'
  <1>1. /\ ours'.accounts \subseteq ours.accounts /\ ours'.presets \subseteq ours.presets
        /\ ours'.settings => ours.settings /\ ~SettingsUpdated(x)
        /\ ~Conflicts(x) /\ ids \in PresetIds(x)
    BY DEF Applies
  <1>2. ASSUME NEW k \in ours'.accounts
        PROVE  /\ k \in Accounts' /\ account'[k].active
               /\ ~LedgerOwns(k)'
    <2>1. k \in ours.accounts /\ k \in Accounts /\ account[k].active
      BY <1>1 DEF OursAreKnown
    <2>2. k \notin AccountsUpdated(x) \cup AccountsRemoved(x) \cup AccountsPreserved(x)
      BY <1>1, <2>1, OursLeftAlone
    <2>3. k \in Accounts' /\ account'[k] = account[k]
      BY <2>1, <2>2, AccountsApplied
    <2>4. ~(LedgerOwns(k) /\ AccountIsIntact(k))
      BY <2>1 DEF OursAreKnown, AccountIsIntact, Semantic
    <2>5. LedgerOwns(k)' => k \in AccountsUpdated(x) \/ (LedgerOwns(k) /\ AccountIsIntact(k))
      BY <2>1, LedgerApplied
    <2> QED  BY <2>1, <2>2, <2>3, <2>4, <2>5
  <1>3. ASSUME NEW k \in DOMAIN ledger'.accounts PROVE ledger'.accounts[k].password # TvLogin
    <2>1. k \in Desired(x) /\ ledger'.accounts[k] = Semantic(k)'
      BY LedgerApplied
    <2>2. Semantic(k)' = Wanted(x, k) /\ k \in DOMAIN x.accounts \cup DOMAIN x.states
      BY <2>1, SemanticApplied, PlanSorts
    <2>3. Wanted(x, k).password \in Passwords \cup {NoPassword}
      BY <2>2, ArchiveWants
    <2> QED  BY <2>1, <2>2, <2>3, ConfigurationAssumption
  <1>4. ASSUME NEW i \in ours'.presets \cup DOMAIN ledger'.presets PROVE i < nextPreset'
    <2>1. nextPreset \in Nat /\ nextPreset' \in Nat /\ nextPreset <= nextPreset'
      BY PresetsApplied DEF FarmShape, FarmTypeOK
    <2>2. CASE i \in ours'.presets
      <3>1. i \in Nat /\ i < nextPreset
        BY <1>1, <2>2, Sourced DEF OursAreKnown
      <3> QED  BY <2>1, <3>1
    <2>3. CASE i \in DOMAIN ledger'.presets
      <3>1. PICK n \in DOMAIN x.presets : i = ids[n]
        BY <2>3, LedgerApplied
      <3>2. i \in Presets'
        BY <3>1, PresetsApplied
      <3> QED  BY <3>2, PresetsApplied
    <2> QED  BY <2>2, <2>3
  <1>5. ASSUME NEW i \in ours'.presets PROVE ~LedgerHas(i)'
    <2>1. i \in ours.presets /\ i \in Nat /\ i < nextPreset /\ nextPreset \in Nat
      <3>1. i \in ours.presets /\ i \in Ids
        BY <1>1
      <3> QED  BY <3>1, Sourced DEF OursAreKnown, FarmShape, FarmTypeOK
    <2>2. i \notin PresetsUpdated(x) /\ ~(LedgerHas(i) /\ PresetIsIntact(i))
      BY <1>1, <2>1, OursLeftAlone DEF OursAreKnown, PresetIsIntact
    <2>3. i \notin {ids[n] : n \in PresetsCreated(x)}
      <3>1. \A n \in PresetsCreated(x) : nextPreset <= ids[n] /\ ids[n] \in Nat
        BY <1>1, IdsOfPresets, Sourced DEF PresetsCreated
      <3> QED  BY <2>1, <3>1
    <2> QED  BY <2>2, <2>3, LedgerApplied
  <1>6. ours'.settings => settings'.channels # NoList /\ ~ledger'.settingsOwned
    <2>1. ASSUME ours'.settings PROVE settings'.channels # NoList /\ ~ledger'.settingsOwned
      <3>1. settings' = settings /\ settings.channels # NoList /\ (ledger.settingsOwned => logged.settings)
        BY <1>1, <2>1 DEF Applies, OursAreKnown
      <3>2. ledger'.settingsOwned => SettingsUpdated(x) \/ (ledger.settingsOwned /\ ~logged.settings)
        BY LedgerApplied
      <3> QED  BY <1>1, <2>1, <3>1, <3>2
    <2> QED  BY <2>1
  <1> QED  BY <1>2, <1>3, <1>4, <1>5, <1>6 DEF OursAreKnown

\* After an import the database is as the archive has it.
LEMMA ImportMirrors ==
    ASSUME FarmShape, NEW x \in Archives, NEW ids, Applies(x, ids)
    PROVE  Mirrored'
  <1>1. Desired(x)' = Desired(x)
    <2>1. Accounts' \subseteq Accounts \cup Desired(x) /\ Desired(x) \subseteq Accounts'
      <3>1. /\ Accounts' = (Accounts \cup AccountsCreated(x) \cup AccountsUpdated(x)) \ AccountsRemoved(x)
            /\ Desired(x) \subseteq Accounts'
        BY AccountsApplied
      <3>2. AccountsCreated(x) \subseteq Desired(x) /\ AccountsUpdated(x) \subseteq Desired(x)
        BY PlanSorts
      <3> QED  BY <3>1, <3>2
    <2> QED  BY <2>1 DEF Desired
  <1>2. \A k \in Desired(x) : k \in Accounts' /\ Semantic(k)' = Wanted(x, k)
    BY SemanticApplied
  <1>3. ledger'.createdAccounts \subseteq Desired(x)
    BY LedgerApplied
  <1>4. \A n \in DOMAIN x.presets :
          ids[n] \in Presets' /\ preset'[ids[n]].name = n /\ preset'[ids[n]].channels = x.presets[n]
    <2>1. ASSUME NEW n \in DOMAIN x.presets
          PROVE  ids[n] \in Presets' /\ preset'[ids[n]].name = n /\ preset'[ids[n]].channels = x.presets[n]
      <3>1. ids[n] \in Presets' /\ preset'[ids[n]] = [name |-> n, channels |-> x.presets[n]]
        BY PresetsApplied
      <3> QED  BY <3>1
    <2> QED  BY <2>1
  <1>5. \A n \in DOMAIN x.presets : Named(n)' # {}
    BY <1>4 DEF Named
  <1>6. ASSUME NEW i \in PresetsNamed(DOMAIN x.presets)' PROVE preset'[i].channels = x.presets[preset'[i].name]
    <2>1. i \in Presets' /\ preset'[i].name \in DOMAIN x.presets
      BY DEF PresetsNamed
    <2>2. ids[preset'[i].name] = i
      BY <1>4, <2>1, PresetsApplied DEF Numbered
    <2> QED  BY <1>4, <2>1, <2>2
  <1>7. \A i \in ledger'.createdPresets : preset'[i].name \in DOMAIN x.presets
    <2>1. ledger'.createdPresets \subseteq {ids[n] : n \in DOMAIN x.presets}
      BY LedgerApplied
    <2> QED  BY <1>4, <2>1
  <1>8. settings' = x.settings
    BY DEF Applies, Conflicts
  <1>9. ledger'.source = x
    BY LedgerApplied
  <1> QED  BY <1>1, <1>2, <1>3, <1>5, <1>6, <1>7, <1>8, <1>9 DEF Mirrored, Mirrors, Desired, PresetsNamed, Named, Wanted, Cookie

-----------------------------------------------------------------------------
(* A preview *)

\* What a snapshot shows of the database.
LEMMA SnapshotShows ==
    ASSUME FarmShape, LedgerOK, NEW x \in Archives
    PROVE  LET b == Snapshot(x)
               A == DOMAIN b.accounts
               I == DOMAIN b.presets
           IN  /\ b.imports = imports /\ b.settings = settings
               /\ A \subseteq Accounts /\ \A k \in A : b.accounts[k][1] = Semantic(k)
               /\ {k \in DOMAIN x.accounts \cup DOMAIN x.states : k \in A \/ Cookie(x, k) # "invalid"} = Desired(x)
               /\ Desired(x) \cap Accounts \subseteq A
               /\ ledger.createdAccounts \cap Accounts \subseteq A
               /\ I \subseteq Presets /\ PresetsNamed(DOMAIN x.presets) \subseteq I
               /\ ledger.createdPresets \cap Presets \subseteq I
               /\ \A i \in I : b.presets[i][1] = preset[i] /\ (b.presets[i][2] = 0 <=> Selecting(i) = {})
  <1> DEFINE b == Snapshot(x)
             K == {k \in Accounts :
                     \/ k \in DOMAIN x.accounts \cup DOMAIN x.states \cup DOMAIN ledger.accounts
                     \/ \E j \in DOMAIN x.accounts : x.accounts[j].username = account[k].username}
             I == PresetsNamed(DOMAIN x.presets) \cup (DOMAIN ledger.presets \cap Presets)
  <1>1. /\ b.imports = imports /\ b.settings = settings
        /\ b.accounts = [k \in K |-> <<Semantic(k), account[k].revision, account[k].printed>>]
        /\ b.presets = [i \in I |-> <<preset[i], Cardinality(Selecting(i))>>]
    BY DEF Snapshot
  <1> HIDE DEF b
  <1>2. K \subseteq Accounts /\ (DOMAIN x.accounts \cup DOMAIN x.states \cup DOMAIN ledger.accounts) \cap Accounts \subseteq K
    OBVIOUS
  <1> HIDE DEF K
  <1>3. DOMAIN b.accounts = K /\ \A k \in K : b.accounts[k][1] = Semantic(k)
    BY <1>1
  <1>4. {k \in DOMAIN x.accounts \cup DOMAIN x.states : k \in K \/ Cookie(x, k) # "invalid"} = Desired(x)
    BY <1>2 DEF Desired
  <1>5. ledger.createdAccounts \cap Accounts \subseteq K /\ Desired(x) \cap Accounts \subseteq K
    BY <1>2, PlanSorts DEF LedgerOK
  <1>6. I \subseteq Presets /\ PresetsNamed(DOMAIN x.presets) \subseteq I /\ ledger.createdPresets \cap Presets \subseteq I
    BY PlanSorts DEF LedgerOK
  <1> HIDE DEF I
  <1>7. ASSUME NEW i \in I PROVE b.presets[i][1] = preset[i] /\ (b.presets[i][2] = 0 <=> Selecting(i) = {})
    <2>1. b.presets[i] = <<preset[i], Cardinality(Selecting(i))>>
      BY <1>1
    <2>2. IsFiniteSet(Selecting(i))
      BY FS_Subset DEF FarmShape, Selecting
    <2>3. Cardinality(Selecting(i)) = 0 <=> Selecting(i) = {}
      BY <2>2, FS_EmptySet
    <2> QED  BY <2>1, <2>3
  <1>8. DOMAIN b.presets = I
    BY <1>1
  <1> QED  BY <1>1, <1>2, <1>3, <1>4, <1>5, <1>6, <1>7, <1>8 DEF b

\* A preview that is made now, without conflicts, shows what there is to do.
LEMMA PlanShows ==
    ASSUME FarmShape, LedgerOK, NEW x \in Archives, ~Conflicts(x)
    PROVE  Shows(x, Snapshot(x), Plan(x))
  <1> DEFINE b == Snapshot(x)
             p == Plan(x)
             A == DOMAIN b.accounts
             I == DOMAIN b.presets
  <1>1. /\ b.settings = settings
        /\ A \subseteq Accounts /\ \A k \in A : b.accounts[k][1] = Semantic(k)
        /\ {k \in DOMAIN x.accounts \cup DOMAIN x.states : k \in A \/ Cookie(x, k) # "invalid"} = Desired(x)
        /\ Desired(x) \cap Accounts \subseteq A
        /\ I \subseteq Presets /\ PresetsNamed(DOMAIN x.presets) \subseteq I
        /\ \A i \in I : b.presets[i][1] = preset[i] /\ (b.presets[i][2] = 0 <=> Selecting(i) = {})
    BY SnapshotShows
  <1> HIDE DEF b
  <1>2. /\ p.created = AccountsCreated(x) /\ p.updated = AccountsUpdated(x)
        /\ p.removed = AccountsRemoved(x) /\ p.preserved = AccountsPreserved(x)
        /\ p.presetsCreated = PresetsCreated(x) /\ p.presetsUpdated = PresetsUpdated(x)
        /\ p.presetsRemoved = PresetsRemoved(x) /\ p.settings = SettingsUpdated(x)
    BY DEF Plan
  <1> HIDE DEF p, A, I
  <1>3. /\ Desired(x) = AccountsCreated(x) \cup AccountsEqual(x) \cup AccountsUpdated(x)
        /\ PresetsNamed(DOMAIN x.presets) = PresetsEqual(x) \cup PresetsUpdated(x)
        /\ x.settings # settings => SettingsUpdated(x)
    BY DEF Conflicts
  <1>4. Desired(x) \ A \subseteq p.created
    <2>1. ASSUME NEW k \in Desired(x) \ A PROVE k \in AccountsCreated(x)
      BY <1>1, <1>3, PlanSorts
    <2> QED  BY <1>2, <2>1
  <1>5. ASSUME NEW k \in Desired(x) \cap A, b.accounts[k][1] # Wanted(x, k) PROVE k \in p.updated
    <2>1. k \notin AccountsEqual(x) /\ k \in Accounts
      BY <1>1, <1>5 DEF AccountsEqual
    <2>2. k \notin AccountsCreated(x)
      BY <2>1, PlanSorts
    <2> QED  BY <1>2, <1>3, <2>1, <2>2
  <1>6. ASSUME NEW k \in (ledger.createdAccounts \cap A) \ Desired(x)
        PROVE  k \in p.removed \cup p.preserved /\ (k \notin history => k \in p.removed)
    <2>1. k \in AccountsLeft(x)
      BY <1>1 DEF AccountsLeft
    <2> QED  BY <1>2, <2>1 DEF AccountsPreserved, AccountsRemoved, HasHistory
  <1>7. ASSUME NEW n \in DOMAIN x.presets, \A i \in I : b.presets[i][1].name # n PROVE n \in p.presetsCreated
    <2>1. ASSUME NEW i \in Named(n) PROVE FALSE
      <3>1. i \in PresetsNamed(DOMAIN x.presets) /\ preset[i].name = n
        BY <2>1 DEF Named, PresetsNamed
      <3> QED  BY <1>1, <1>7, <3>1
    <2> QED  BY <1>2, <2>1 DEF PresetsCreated
  <1>8. ASSUME NEW i \in I
        PROVE  /\ preset[i].name \in DOMAIN x.presets /\ preset[i].channels # x.presets[preset[i].name] => i \in p.presetsUpdated
               /\ i \in ledger.createdPresets /\ preset[i].name \notin DOMAIN x.presets /\ b.presets[i][2] = 0 =>
                    i \in p.presetsRemoved
    <2>1. i \in Presets
      BY <1>1
    <2>2. ASSUME preset[i].name \in DOMAIN x.presets, preset[i].channels # x.presets[preset[i].name]
          PROVE  i \in p.presetsUpdated
      BY <1>2, <1>3, <2>1, <2>2 DEF PresetsNamed, PresetsEqual
    <2>3. ASSUME i \in ledger.createdPresets, preset[i].name \notin DOMAIN x.presets, b.presets[i][2] = 0
          PROVE  i \in p.presetsRemoved
      <3>1. Selecting(i) = {}
        BY <1>1, <2>3
      <3>2. i \in PresetsLeft(x)
        BY <2>1, <2>3 DEF PresetsLeft, PresetsNamed
      <3> QED  BY <1>2, <3>1, <3>2 DEF PresetsRemoved
    <2> QED  BY <2>2, <2>3
  <1>9. x.settings # b.settings => p.settings
    BY <1>1, <1>2, <1>3
  <1>10. \A i \in I : b.presets[i][1] = preset[i]
    BY <1>1
  <1> QED  BY <1>1, <1>4, <1>5, <1>6, <1>7, <1>8, <1>9, <1>10 DEF Shows, A, I, b, p

\* An import keeps what is ours.
LEMMA ImportKeeps ==
    ASSUME FarmShape, OursAreKnown, NEW x \in Archives, NEW ids, Applies(x, ids)
    PROVE  /\ \A k \in ours.accounts \cap Accounts : k \in Accounts' /\ Chosen(k)' = Chosen(k)
           /\ \A i \in ours.presets \cap Presets : i \in Presets' /\ preset'[i] = preset[i]
           /\ ours.settings => settings' = settings
           /\ history \subseteq Accounts'
  <1>1. ~Conflicts(x)
    BY DEF Applies
  <1>2. ASSUME NEW k \in ours.accounts \cap Accounts PROVE k \in Accounts' /\ Chosen(k)' = Chosen(k)
    <2>1. k \in Accounts' /\ account'[k] = account[k]
      BY <1>1, OursLeftAlone, AccountsApplied
    <2> QED  BY <2>1 DEF Chosen
  <1>3. ASSUME NEW i \in ours.presets \cap Presets PROVE i \in Presets' /\ preset'[i] = preset[i]
    <2>1. i \notin PresetsUpdated(x) /\ i \notin PresetsRemoved(x)
      BY <1>1, OursLeftAlone
    <2>2. i \in Presets'
      BY <2>1, PresetsApplied
    <2> QED  BY <2>1, <2>2, PresetsApplied
  <1>4. ours.settings => settings' = settings
    BY <1>1, OursLeftAlone DEF Applies
  <1>5. history \subseteq Accounts'
    <2>1. history \subseteq Accounts
      BY DEF FarmShape, FarmTypeOK
    <2>2. history \cap AccountsRemoved(x) = {}
      BY DEF AccountsRemoved, HasHistory
    <2> QED  BY <2>1, <2>2, AccountsApplied
  <1> QED  BY <1>2, <1>3, <1>4, <1>5

\* An import does what a preview of the same database has shown.
LEMMA ImportFollows ==
    ASSUME FarmShape, LedgerOK, NEW x \in Archives, NEW ids, Applies(x, ids),
           NEW p, Shows(x, Snapshot(x), p)
    PROVE  /\ Accounts' \ Accounts \subseteq p.created /\ Accounts \ Accounts' \subseteq p.removed
           /\ \A k \in Accounts \cap Accounts' :
                Semantic(k)' # Semantic(k) => k \in p.updated \cup p.removed \cup p.preserved
           /\ \A i \in Presets' \ Presets : preset'[i].name \in p.presetsCreated
           /\ Presets \ Presets' \subseteq p.presetsRemoved
           /\ \A i \in Presets \cap Presets' : preset'[i] # preset[i] => i \in p.presetsUpdated
           /\ settings' # settings => p.settings
  <1> DEFINE b == Snapshot(x)
             A == DOMAIN b.accounts
             I == DOMAIN b.presets
             D == {k \in DOMAIN x.accounts \cup DOMAIN x.states : k \in A \/ Cookie(x, k) # "invalid"}
  <1>1. /\ b.settings = settings
        /\ A \subseteq Accounts /\ \A k \in A : b.accounts[k][1] = Semantic(k)
        /\ D = Desired(x)
        /\ Desired(x) \cap Accounts \subseteq A
        /\ ledger.createdAccounts \cap Accounts \subseteq A
        /\ I \subseteq Presets /\ PresetsNamed(DOMAIN x.presets) \subseteq I
        /\ ledger.createdPresets \cap Presets \subseteq I
        /\ \A i \in I : b.presets[i][1] = preset[i] /\ (b.presets[i][2] = 0 <=> Selecting(i) = {})
    BY SnapshotShows
  <1>2. /\ D \ A \subseteq p.created
        /\ \A k \in D \cap A : b.accounts[k][1] # Wanted(x, k) => k \in p.updated
        /\ \A k \in (ledger.createdAccounts \cap A) \ D :
             k \in p.removed \cup p.preserved /\ (k \notin history => k \in p.removed)
        /\ \A n \in DOMAIN x.presets : (\A i \in I : b.presets[i][1].name # n) => n \in p.presetsCreated
        /\ \A i \in I :
             /\ b.presets[i][1].name \in DOMAIN x.presets /\ b.presets[i][1].channels # x.presets[b.presets[i][1].name] =>
                  i \in p.presetsUpdated
             /\ i \in ledger.createdPresets /\ b.presets[i][1].name \notin DOMAIN x.presets /\ b.presets[i][2] = 0 =>
                  i \in p.presetsRemoved
        /\ x.settings # b.settings => p.settings
    BY DEF Shows
  <1> HIDE DEF b, A, I, D
  <1>3. Accounts' \ Accounts \subseteq p.created
    <2>1. Accounts' \ Accounts \subseteq AccountsCreated(x)
      <3>1. Accounts' = (Accounts \cup AccountsCreated(x) \cup AccountsUpdated(x)) \ AccountsRemoved(x)
        BY AccountsApplied
      <3> QED  BY <3>1, PlanSorts
    <2>2. AccountsCreated(x) \subseteq D \ A
      <3>1. AccountsCreated(x) \subseteq Desired(x) \ Accounts
        BY PlanSorts
      <3> QED  BY <1>1, <3>1
    <2> QED  BY <1>2, <2>1, <2>2
  <1>4. ASSUME NEW k \in AccountsLeft(x) PROVE k \in (ledger.createdAccounts \cap A) \ D
    BY <1>1 DEF AccountsLeft
  <1>5. Accounts \ Accounts' \subseteq p.removed
    <2>1. ASSUME NEW k \in Accounts \ Accounts' PROVE k \in p.removed
      <3>1. k \in AccountsRemoved(x)
        BY AccountsApplied
      <3>2. k \in AccountsLeft(x) /\ k \notin history
        BY <3>1 DEF AccountsRemoved, HasHistory
      <3> QED  BY <1>2, <1>4, <3>2
    <2> QED  BY <2>1
  <1>6. ASSUME NEW k \in Accounts \cap Accounts', Semantic(k)' # Semantic(k)
        PROVE  k \in p.updated \cup p.removed \cup p.preserved
    <2>1. k \in AccountsUpdated(x) \/ k \in AccountsLeft(x)
      BY <1>6, SemanticApplied, PlanSorts
    <2>2. CASE k \in AccountsUpdated(x)
      <3>1. k \in Desired(x) /\ k \notin AccountsEqual(x) /\ k \in Accounts
        BY <2>2, PlanSorts
      <3>2. Semantic(k) # Wanted(x, k)
        BY <3>1 DEF AccountsEqual
      <3> QED  BY <1>1, <1>2, <3>1, <3>2
    <2> QED  BY <1>2, <1>4, <2>1, <2>2
  <1>7. ASSUME NEW i \in Presets' \ Presets PROVE preset'[i].name \in p.presetsCreated
    <2>1. PICK n \in PresetsCreated(x) : i = ids[n]
      BY PresetsApplied
    <2>2. n \in DOMAIN x.presets /\ Named(n) = {}
      BY DEF PresetsCreated
    <2>3. preset'[i].name = n
      <3>1. preset'[i] = [name |-> n, channels |-> x.presets[n]]
        BY <2>1, <2>2, PresetsApplied
      <3> QED  BY <3>1
    <2>4. \A j \in I : b.presets[j][1].name # n
      BY <1>1, <2>2 DEF Named
    <2> QED  BY <1>2, <2>2, <2>3, <2>4
  <1>8. ASSUME NEW i \in Presets \ Presets' PROVE i \in p.presetsRemoved
    <2>1. i \in PresetsRemoved(x)
      BY PresetsApplied
    <2>2. i \in PresetsLeft(x) /\ Selecting(i) = {}
      BY <2>1 DEF PresetsRemoved
    <2>3. i \in ledger.createdPresets /\ preset[i].name \notin DOMAIN x.presets
      BY <2>2 DEF PresetsLeft, PresetsNamed
    <2>4. i \in I
      BY <1>1, <2>3
    <2> QED  BY <1>1, <1>2, <2>2, <2>3, <2>4
  <1>9. ASSUME NEW i \in Presets \cap Presets', preset'[i] # preset[i] PROVE i \in p.presetsUpdated
    <2>1. i \in PresetsUpdated(x)
      BY <1>9, PresetsApplied
    <2>2. i \in PresetsNamed(DOMAIN x.presets) /\ i \notin PresetsEqual(x)
      BY <2>1, PlanSorts
    <2>3. i \in I /\ preset[i].name \in DOMAIN x.presets /\ preset[i].channels # x.presets[preset[i].name]
      BY <1>1, <2>2 DEF PresetsNamed, PresetsEqual
    <2> QED  BY <1>1, <1>2, <2>3
  <1>10. settings' # settings => p.settings
    BY <1>1, <1>2 DEF Applies, SettingsUpdated
  <1> QED  BY <1>3, <1>5, <1>6, <1>7, <1>8, <1>9, <1>10

-----------------------------------------------------------------------------
(* The invariant *)

\* A draft goes on to fit when the control room, a request or the worker does something.
LEMMA DraftFitsStill ==
    ASSUME NEW r, DraftFits(r), UNCHANGED <<imports, ledger>>, history \subseteq history'
    PROVE  DraftFits(r)'
  <1>1. ASSUME Shows(r.source, r.baseline, r.preview)
        PROVE  Shows(r.source, r.baseline, r.preview)'
    BY <1>1 DEF Shows
  <1> QED  BY <1>1 DEF DraftFits

\* Drafts that stay, or that fit.
LEMMA DraftsFitStill ==
    ASSUME DraftsFit, UNCHANGED <<imports, ledger>>, history \subseteq history', DOMAIN drafts' = Drafts,
           \A d \in Drafts : drafts'[d] # NoDraft => drafts'[d] = drafts[d] \/ DraftFits(drafts'[d])
    PROVE  DraftsFit'
  <1>1. ASSUME NEW d \in Drafts, drafts'[d] # NoDraft PROVE DraftFits(drafts[d])'
    <2> DEFINE r == drafts'[d]
    <2>1. DraftFits(r)
      BY <1>1 DEF DraftsFit
    <2>2. r.baseline.imports \in 0..imports' /\ r.baseline.imports < MaxImports
      BY <2>1 DEF DraftFits
    <2>3. ASSUME Shows(r.source, r.baseline, r.preview)
          PROVE  Shows(drafts[d].source, drafts[d].baseline, drafts[d].preview)'
      BY <2>3 DEF Shows
    <2> QED  BY <2>1, <2>2, <2>3 DEF DraftFits
  <1> QED  BY <1>1 DEF DraftsFit

\* A step that leaves the configuration, the ledger and what is ours alone.
LEMMA QuietStep ==
    ASSUME ImportInv, Sound, HandsOff, UNCHANGED <<ledger, imports, ours, intact>>, DOMAIN drafts' = Drafts,
           \A d \in Drafts : drafts'[d] # NoDraft =>
             drafts'[d] = drafts[d] \/ (drafts'[d].source \in Archives /\ DraftFits(drafts'[d]))
    PROVE  ImportInv'
  <1>1. FarmShape /\ TypeOK /\ FarmShape' /\ RunningIsLaunchable' /\ SeedMatchesUser'
    BY InformsRuns, SeedsMatch DEF ImportInv, Shape, Sound
  <1>2. LedgerOK'
    BY <1>1 DEF TypeOK, LedgerOK, HandsOff
  <1>3. TypeOK'
    BY <1>1, <1>2 DEF TypeOK, FarmShape
  <1>4. OursAreKnown'
    BY DEF ImportInv, OursAreKnown, HandsOff, Alike, LedgerOwns, LedgerHas
  <1>5. DraftsFit'
    <2>1. DraftsFit /\ history \subseteq history'
      BY DEF ImportInv, HandsOff
    <2> QED  BY <2>1, DraftsFitStill
  <1>6. Mirrored'
    <2> SUFFICES ASSUME imports > 0, intact PROVE Mirrors(ledger.source)'
      BY DEF Mirrored
    <2>1. Mirrors(ledger.source)
      BY DEF ImportInv, Mirrored
    <2>2. \A k \in Accounts : Semantic(k)' = Semantic(k)
      BY <1>1, SemanticStays DEF HandsOff
    <2>3. Accounts' = Accounts /\ UNCHANGED <<preset, settings>>
      BY DEF HandsOff
    <2>4. Desired(ledger.source)' = Desired(ledger.source)
      BY <2>3 DEF Desired, Cookie
    <2>5. \A k \in Desired(ledger.source)' : k \in Accounts' /\ Semantic(k)' = Wanted(ledger.source, k)'
      BY <2>1, <2>2, <2>3, <2>4 DEF Mirrors, Wanted
    <2>6. \A n : Named(n)' = Named(n)
      BY <2>3 DEF Named
    <2> QED  BY <2>1, <2>3, <2>4, <2>5, <2>6 DEF Mirrors, PresetsNamed
  <1> QED  BY <1>1, <1>3, <1>4, <1>5, <1>6 DEF ImportInv, Shape

LEMMA EditedKeeps ==
    ASSUME ImportInv, Edited
    PROVE  ImportInv'
  <1>1. FarmShape /\ TypeOK /\ OursAreKnown /\ RunningIsLaunchable
    BY DEF ImportInv, Shape
  <1>2. Sound /\ ByHand
    BY <1>1, ControlRoomSound DEF Edited
  <1>3. FarmShape' /\ RunningIsLaunchable' /\ SeedMatchesUser'
    BY <1>1, <1>2, InformsRuns, SeedsMatch DEF ImportInv, Sound
  <1>4. UNCHANGED <<ledger, imports, drafts>> /\ intact' = FALSE
    BY DEF Edited
  <1> DEFINE madeA == {k \in Accounts' : k \in Accounts => Chosen(k)' # Chosen(k)}
             madeP == {i \in Presets' : i \in Presets => preset'[i] # preset[i]}
  <1>5. /\ ours'.accounts = ours.accounts \cup madeA /\ ours'.presets = ours.presets \cup madeP
        /\ ours'.settings = (ours.settings \/ settings' # settings)
        /\ ours' \in [accounts : SUBSET Keys, presets : SUBSET Ids, settings : BOOLEAN]
    BY <1>1, <1>3 DEF Edited, TypeOK, FarmShape, FarmTypeOK
  <1>6. TypeOK'
    <2>1. LedgerOK'
      BY <1>1, <1>2, <1>4 DEF TypeOK, LedgerOK, ByHand
    <2> QED  BY <1>1, <1>3, <1>4, <1>5, <2>1 DEF TypeOK, FarmShape
  <1>7. ASSUME NEW k \in ours'.accounts
        PROVE  /\ k \in Accounts' /\ account'[k].active
               /\ LedgerOwns(k) => k \in logged'.accounts \/ account'[k].password = TvLogin
    <2>1. CASE k \in ours.accounts
      BY <1>1, <1>2, <2>1 DEF OursAreKnown, ByHand
    <2>2. CASE k \in madeA
      <3>1. LedgerOwns(k) => k \in Accounts
        BY <1>1 DEF TypeOK, LedgerOK, LedgerOwns
      <3> QED  BY <1>2, <2>2, <3>1 DEF ByHand
    <2> QED  BY <1>5, <2>1, <2>2
  <1>8. ASSUME NEW i \in ours'.presets \cup DOMAIN ledger.presets PROVE i < nextPreset'
    <2>1. CASE i \in ours.presets \cup DOMAIN ledger.presets
      <3>1. i \in Nat /\ i < nextPreset
        BY <1>1, <2>1, Sourced DEF TypeOK, LedgerOK, OursAreKnown
      <3>2. nextPreset \in Nat /\ nextPreset' \in Nat /\ nextPreset <= nextPreset'
        BY <1>1, <1>2, <1>3 DEF FarmShape, FarmTypeOK, ByHand
      <3> QED  BY <3>1, <3>2
    <2>2. CASE i \in madeP
      BY <1>3, <2>2 DEF FarmShape, Numbered
    <2> QED  BY <1>5, <2>1, <2>2
  <1>9. ASSUME NEW i \in ours'.presets, LedgerHas(i) PROVE i \in logged'.presets
    <2>1. CASE i \in ours.presets
      BY <1>1, <1>2, <1>9, <2>1 DEF OursAreKnown, ByHand
    <2>2. CASE i \in madeP
      <3>1. i # nextPreset
        <4>1. i \in DOMAIN ledger.presets
          BY <1>1, <1>9 DEF TypeOK, LedgerOK, LedgerHas
        <4>2. i < nextPreset /\ nextPreset \in Nat
          BY <1>1, <4>1 DEF OursAreKnown, FarmShape, FarmTypeOK
        <4> QED  BY <4>2
      <3> QED  BY <1>2, <2>2, <3>1 DEF ByHand
    <2> QED  BY <1>5, <2>1, <2>2
  <1>10. ours'.settings => settings'.channels # NoList /\ (ledger.settingsOwned => logged'.settings)
    BY <1>1, <1>2, <1>5 DEF OursAreKnown, ByHand
  <1>11. OursAreKnown'
    <2> HIDE DEF madeA, madeP
    <2>1. \A k \in DOMAIN ledger.accounts : ledger.accounts[k].password # TvLogin
      BY <1>1 DEF OursAreKnown
    <2> QED  BY <1>4, <1>7, <1>8, <1>9, <1>10, <2>1 DEF OursAreKnown, LedgerOwns, LedgerHas
  <1>12. DraftsFit'
    <2>1. DraftsFit /\ history \subseteq history' /\ DOMAIN drafts' = Drafts
      BY <1>2, <1>4 DEF ImportInv, ByHand, DraftsFit
    <2> QED  BY <1>4, <2>1, DraftsFitStill
  <1>13. Mirrored'
    BY <1>4 DEF Mirrored
  <1> QED  BY <1>3, <1>6, <1>11, <1>12, <1>13 DEF ImportInv, Shape

LEMMA GoesOnKeeps ==
    ASSUME ImportInv, GoesOn
    PROVE  ImportInv'
  <1>1. FarmShape /\ DOMAIN drafts = Drafts
    BY DEF ImportInv, Shape, DraftsFit
  <1>2. Sound /\ HandsOff
    BY <1>1, GoesOnSound DEF GoesOn
  <1>3. UNCHANGED <<ledger, imports, drafts, ours, intact>>
    BY DEF GoesOn, importVars
  <1> QED  BY <1>1, <1>2, <1>3, QuietStep

\* The farm stays as it is.
LEMMA FarmStays ==
    ASSUME FarmShape, UNCHANGED farmVars
    PROVE  Sound /\ HandsOff
  <1>1. UNCHANGED <<account, preset, nextPreset, settings, seed, running, asked, live, history, logged, edits>>
    BY DEF farmVars, rows, intent
  <1>2. HandsOff
    BY <1>1 DEF HandsOff, Alike
  <1>3. /\ \A k \in Accounts : account'[k] \in Rows
        /\ running' \cup asked' \cup live' \cup history' \subseteq Accounts
    BY <1>1 DEF FarmShape, FarmTypeOK
  <1> QED  BY <1>1, <1>2, <1>3, HandsOffSound

LEMMA PrepareKeeps ==
    ASSUME ImportInv, NEW d \in Drafts, NEW x \in Archives, Prepare(d, x)
    PROVE  ImportInv'
  <1> DEFINE r == [source |-> x, baseline |-> Snapshot(x), preview |-> Plan(x)]
  <1>1. FarmShape /\ LedgerOK /\ DOMAIN drafts = Drafts
    BY DEF ImportInv, Shape, TypeOK, DraftsFit
  <1>2. DraftFits(r)
    <2>1. Snapshot(x).imports = imports
      BY <1>1, SnapshotShows
    <2>2. Plan(x).conflicts = Conflicts(x)
      BY DEF Plan
    <2>3. ~Conflicts(x) => Shows(x, Snapshot(x), Plan(x))
      BY <1>1, PlanShows
    <2>4. imports \in 0..imports /\ imports < MaxImports
      BY <1>1, ImportAssumption DEF LedgerOK, Prepare
    <2> QED  BY <2>1, <2>2, <2>3, <2>4 DEF DraftFits
  <1>3. drafts' = [drafts EXCEPT ![d] = r]
    BY DEF Prepare
  <1>4. UNCHANGED <<farmVars, ledger, imports, ours, intact>>
    BY DEF Prepare
  <1>5. Sound /\ HandsOff
    BY <1>1, <1>4, FarmStays
  <1>6. r.source \in Archives
    OBVIOUS
  <1> HIDE DEF r
  <1>7. \A e \in Drafts : drafts'[e] = drafts[e] \/ (drafts'[e].source \in Archives /\ DraftFits(drafts'[e]))
    <2>1. ASSUME NEW e \in Drafts
          PROVE  drafts'[e] = drafts[e] \/ (drafts'[e].source \in Archives /\ DraftFits(drafts'[e]))
      <3>1. CASE e = d
        <4>1. drafts'[e] = r
          BY <1>1, <1>3, <3>1
        <4> QED  BY <1>2, <1>6, <4>1
      <3>2. CASE e # d
        BY <1>1, <1>3, <3>2
      <3> QED  BY <3>1, <3>2
    <2> QED  BY <2>1
  <1>8. DOMAIN drafts' = Drafts
    BY <1>1, <1>3
  <1> QED  BY <1>4, <1>5, <1>7, <1>8, QuietStep

\* A draft goes, or nothing happens.
LEMMA DiscardKeeps ==
    ASSUME ImportInv, UNCHANGED <<farmVars, ledger, imports, ours, intact>>,
           drafts' = drafts \/ \E d \in Drafts : drafts' = [drafts EXCEPT ![d] = NoDraft]
    PROVE  ImportInv'
  <1>1. FarmShape /\ DOMAIN drafts = Drafts
    BY DEF ImportInv, Shape, DraftsFit
  <1>2. Sound /\ HandsOff
    BY <1>1, FarmStays
  <1>3. DOMAIN drafts' = Drafts /\ \A e \in Drafts : drafts'[e] # NoDraft => drafts'[e] = drafts[e]
    BY <1>1
  <1> QED  BY <1>2, <1>3, QuietStep

\* A confirmation applies the archive of its draft, as it was previewed.
LEMMA ConfirmApplies ==
    ASSUME ImportInv, NEW d \in Drafts, Confirm(d)
    PROVE  /\ drafts[d] # NoDraft /\ drafts[d].source \in Archives /\ imports < MaxImports
           /\ \E ids : Applies(drafts[d].source, ids)
           /\ drafts' = [drafts EXCEPT ![d] = NoDraft]
           /\ ~drafts[d].preview.conflicts =>
                Shows(drafts[d].source, Snapshot(drafts[d].source), drafts[d].preview)
  <1> DEFINE x == drafts[d].source
  <1>1. drafts[d] # NoDraft /\ drafts[d].baseline = Snapshot(x) /\ ~Plan(x).conflicts
    BY DEF Confirm, Confirmable, Fresh
  <1>2. x \in Archives /\ FarmShape /\ LedgerOK /\ DraftFits(drafts[d])
    BY <1>1 DEF ImportInv, Shape, TypeOK, DraftsFit
  <1>3. Snapshot(x).imports = imports
    BY <1>2, SnapshotShows
  <1>4. ~Conflicts(x)
    BY <1>1 DEF Plan
  <1>5. \E ids : Applies(x, ids)
    BY <1>4 DEF Confirm, Applies
  <1>6. drafts' = [drafts EXCEPT ![d] = NoDraft]
    BY DEF Confirm
  <1>7. imports < MaxImports
    BY <1>1, <1>2, <1>3 DEF DraftFits
  <1>8. ~drafts[d].preview.conflicts => Shows(x, Snapshot(x), drafts[d].preview)
    BY <1>1, <1>2, <1>3 DEF DraftFits
  <1> QED  BY <1>1, <1>2, <1>5, <1>6, <1>7, <1>8

LEMMA ConfirmKeeps ==
    ASSUME ImportInv, NEW d \in Drafts, Confirm(d)
    PROVE  ImportInv'
  <1> DEFINE x == drafts[d].source
  <1>1. x \in Archives /\ imports < MaxImports /\ drafts' = [drafts EXCEPT ![d] = NoDraft]
    BY ConfirmApplies
  <1>2. PICK ids : Applies(x, ids)
    BY ConfirmApplies
  <1>3. FarmShape /\ LedgerOK /\ TypeOK /\ OursAreKnown /\ RunningIsLaunchable /\ SeedMatchesUser /\ DraftsFit
    BY DEF ImportInv, Shape, TypeOK
  <1> HIDE DEF x
  <1>4. FarmShape' /\ SeedMatchesUser'
    BY <1>1, <1>2, <1>3, ImportShape, SeedsApplied
  <1>5. RunningIsLaunchable'
    BY <1>1, <1>2, <1>3, ImportInforms, InformsRuns
  <1>6. LedgerOK'
    BY <1>1, <1>2, <1>3, ImportLedger
  <1>7. OursAreKnown'
    BY <1>1, <1>2, <1>3, ImportOurs DEF TypeOK
  <1>8. TypeOK'
    <2>1. ours' \in [accounts : SUBSET Keys, presets : SUBSET Ids, settings : BOOLEAN] /\ intact' \in BOOLEAN
      BY <1>2, <1>3 DEF Applies, TypeOK
    <2>2. \A e \in Drafts : drafts'[e] # NoDraft => drafts'[e].source \in Archives
      BY <1>1, <1>3 DEF TypeOK, DraftsFit
    <2> QED  BY <1>4, <1>6, <2>1, <2>2 DEF TypeOK, FarmShape
  <1>9. DraftsFit'
    <2>1. DOMAIN drafts' = Drafts /\ \A e \in Drafts : drafts'[e] # NoDraft => drafts'[e] = drafts[e]
      BY <1>1, <1>3 DEF DraftsFit
    <2>2. imports' = imports + 1 /\ imports \in Nat
      BY <1>2, <1>3 DEF Applies, LedgerOK
    <2>3. ASSUME NEW e \in Drafts, drafts'[e] # NoDraft
          PROVE  /\ drafts'[e].baseline.imports \in 0..imports' /\ drafts'[e].baseline.imports < MaxImports
                 /\ drafts'[e].baseline.imports # imports'
      <3>1. drafts[e].baseline.imports \in 0..imports /\ drafts[e].baseline.imports < MaxImports
        BY <1>3, <2>1, <2>3 DEF DraftsFit, DraftFits
      <3> QED  BY <2>1, <2>2, <2>3, <3>1
    <2> QED  BY <2>1, <2>3 DEF DraftsFit, DraftFits
  <1>10. Mirrored'
    BY <1>1, <1>2, <1>3, ImportMirrors
  <1> QED  BY <1>4, <1>5, <1>7, <1>8, <1>9, <1>10 DEF ImportInv, Shape

\* What an import, and any other step, does to those who run and to what is ours.
LEMMA ConfirmDoes ==
    ASSUME ImportInv, NEW d \in Drafts, Confirm(d)
    PROVE  /\ Informs
           /\ \A k \in ours.accounts \cap Accounts : k \in Accounts' /\ Chosen(k)' = Chosen(k)
           /\ \A i \in ours.presets \cap Presets : i \in Presets' /\ preset'[i] = preset[i]
           /\ ours.settings => settings' = settings
           /\ history \subseteq Accounts'
  <1>1. PICK x \in Archives : x = drafts[d].source /\ \E ids : Applies(x, ids)
    BY ConfirmApplies
  <1>2. PICK ids : Applies(x, ids)
    BY <1>1
  <1>3. FarmShape /\ RunningIsLaunchable /\ OursAreKnown
    BY DEF ImportInv, Shape
  <1> QED  BY <1>2, <1>3, ImportInforms, ImportKeeps

\* Imports are counted by confirmations, and every other step is sound for those who run.
LEMMA OtherSteps ==
    ASSUME ImportInv, Next, ~\E d \in Drafts : Confirm(d)
    PROVE  imports' = imports /\ Informs
  <1>1. FarmShape /\ RunningIsLaunchable
    BY DEF ImportInv, Shape
  <1>2. CASE Edited
    BY <1>1, <1>2, ControlRoomSound DEF Edited, Sound
  <1>3. CASE GoesOn
    BY <1>1, <1>3, GoesOnSound DEF GoesOn, importVars, Sound
  <1>4. ASSUME NEW d \in Drafts, (\E x \in Archives : Prepare(d, x)) \/ Discard(d) \/ ConfirmNothing(d)
        PROVE  imports' = imports /\ Informs
    <2>1. UNCHANGED farmVars /\ imports' = imports
      BY <1>4 DEF Prepare, Discard, ConfirmNothing
    <2> QED  BY <1>1, <2>1, FarmStays DEF Sound
  <1> QED  BY <1>2, <1>3, <1>4 DEF Next

LEMMA InitInv == Init => ImportInv
  <1> SUFFICES ASSUME Init PROVE ImportInv
    OBVIOUS
  <1>1. /\ preset = Empty /\ nextPreset = 1 /\ settings = [channels |-> NoList, autostart |-> FALSE]
        /\ seed = Empty /\ running = {} /\ asked = {} /\ live = {} /\ history = {}
        /\ logged = Nothing /\ edits = 0
        /\ ledger = NoLedger /\ imports = 0 /\ drafts = [d \in Drafts |-> NoDraft]
        /\ ours = Nothing /\ intact = TRUE
    BY DEF Init, FarmInit
  <1>2. PICK S \in {{}} \cup {{k} : k \in Keys} : account = [k \in S |-> Shell(k)]
    BY DEF Init, FarmInit
  <1>3. S \subseteq Keys /\ IsFiniteSet(S)
    BY FS_EmptySet, FS_Singleton
  <1>4. Accounts = S /\ \A k \in S : account[k] \in Rows /\ account[k].source.preset = None
    <2>1. \A k \in S : Shell(k) \in Rows /\ Shell(k).source = Default
      BY <1>3, Sourced, ConfigurationAssumption DEF Shell, Rows
    <2> QED  BY <1>2, <2>1 DEF Default
  <1>5. Presets = {} /\ DOMAIN seed = {}
    BY <1>1 DEF Empty
  <1>6. FarmTypeOK
    BY <1>1, <1>3, <1>4, <1>5, ConfigurationAssumption DEF FarmTypeOK, Settings, Nothing
  <1>7. FarmShape
    BY <1>3, <1>4, <1>5, <1>6 DEF FarmShape, Numbered
  <1>8. LedgerOK
    BY <1>1, ImportAssumption DEF LedgerOK, NoLedger, Empty
  <1>9. TypeOK
    BY <1>1, <1>4, <1>6, <1>8 DEF TypeOK, Nothing
  <1>10. RunningIsLaunchable /\ SeedMatchesUser
    BY <1>1, <1>5 DEF RunningIsLaunchable, SeedMatchesUser
  <1>11. OursAreKnown
    BY <1>1 DEF OursAreKnown, Nothing, NoLedger, Empty
  <1>12. DraftsFit /\ Mirrored
    BY <1>1 DEF DraftsFit, Mirrored
  <1> QED  BY <1>7, <1>9, <1>10, <1>11, <1>12 DEF ImportInv, Shape

LEMMA NextInv ==
    ASSUME ImportInv, [Next]_vars
    PROVE  ImportInv'
  <1>1. CASE Edited
    BY <1>1, EditedKeeps
  <1>2. CASE GoesOn
    BY <1>2, GoesOnKeeps
  <1>3. ASSUME NEW d \in Drafts, NEW x \in Archives, Prepare(d, x) PROVE ImportInv'
    BY <1>3, PrepareKeeps
  <1>4. ASSUME NEW d \in Drafts, Discard(d) \/ ConfirmNothing(d) PROVE ImportInv'
    BY <1>4, DiscardKeeps DEF Discard, ConfirmNothing
  <1>5. ASSUME NEW d \in Drafts, Confirm(d) PROVE ImportInv'
    BY <1>5, ConfirmKeeps
  <1>6. CASE UNCHANGED vars
    BY <1>6, DiscardKeeps DEF vars, importVars
  <1> QED  BY <1>1, <1>2, <1>3, <1>4, <1>5, <1>6 DEF Next

(* ImportInv holds in every state, for any accounts, archives, drafts, edits and
   imports: what the ledger of the last import says, what the control room owns and
   what the previews have shown fit together, whatever comes in between. *)
THEOREM ImportInvariant == Spec => []ImportInv
  <1>1. ImportInv /\ [Next]_vars => ImportInv'
    BY NextInv
  <1> QED  BY <1>1, InitInv, PTL DEF Spec

-----------------------------------------------------------------------------
(* What follows *)

(* Accounts, presets, sessions, requests, drafts and the ledger keep their types, no
   account refers to a preset that is gone, and the ledger names only accounts that
   exist: import_legacy deletes no row that another one needs. *)
THEOREM ImportTypeCorrect == Spec => []TypeOK
  <1>1. ImportInv => TypeOK
    BY DEF ImportInv, Shape
  <1> QED  BY <1>1, ImportInvariant, PTL

(* Whatever is to run can be launched: services.py and legacy_import.py stop an account
   with its credential, its last channels or its place in the configuration. *)
THEOREM RunningStaysLaunchable == Spec => []RunningIsLaunchable
  <1>1. ImportInv => RunningIsLaunchable
    BY DEF ImportInv
  <1> QED  BY <1>1, ImportInvariant, PTL

(* An imported session stays with the user it was validated for, through renaming in
   the control room and through any sequence of imports. *)
THEOREM SeedsStayTheirs == Spec => []SeedMatchesUser
  <1>1. ImportInv => SeedMatchesUser
    BY DEF ImportInv
  <1> QED  BY <1>1, ImportInvariant, PTL

LEMMA MirroredIsNoOp ==
    ASSUME NEW x, Mirrors(x)
    PROVE  Plan(x) = NoChange
  <1>1. /\ AccountsCreated(x) = {} /\ AccountsEqual(x) = Desired(x) /\ AccountsUpdated(x) = {}
        /\ AccountsLeft(x) = {}
    BY DEF Mirrors, AccountsCreated, AccountsEqual, AccountsUpdated, AccountsLeft
  <1>2. AccountsRemoved(x) = {} /\ AccountsPreserved(x) = {}
    BY <1>1 DEF AccountsRemoved, AccountsPreserved
  <1>3. /\ PresetsCreated(x) = {} /\ PresetsEqual(x) = PresetsNamed(DOMAIN x.presets)
        /\ PresetsUpdated(x) = {} /\ PresetsLeft(x) = {}
    BY DEF Mirrors, PresetsCreated, PresetsEqual, PresetsUpdated, PresetsLeft, PresetsNamed
  <1>4. PresetsRemoved(x) = {}
    BY <1>3 DEF PresetsRemoved
  <1>5. x.settings = settings
    BY DEF Mirrors
  <1>6. SettingsUpdated(x) = FALSE
    BY <1>5 DEF SettingsUpdated
  <1>7. Conflicts(x) = FALSE
    BY <1>1, <1>3, <1>5 DEF Conflicts
  <1>8. AccountsReset(x) = {}
    BY <1>3, <1>6 DEF AccountsReset
  <1> QED  BY <1>1, <1>2, <1>3, <1>4, <1>6, <1>7, <1>8 DEF Plan, NoChange

(* Importing the same archive again does nothing and meets no conflict, as long as the
   control room has changed nothing: _build_diff_plan finds every row as _apply_diff_plan
   has left it, whatever ran meanwhile and whatever was imported before. *)
THEOREM SecondImportIsNothing == Spec => []ReimportIsNoOp
  <1>1. ImportInv => ReimportIsNoOp
    BY MirroredIsNoOp DEF ImportInv, Mirrored, ReimportIsNoOp
  <1> QED  BY <1>1, ImportInvariant, PTL

(* No account goes on to run with another name, channels or preset without being asked
   to restart, whether the control room or an import has changed them. *)
THEOREM ChangesReachRunning == Spec => ChangesAreAsked
  <1> DEFINE Told == \A k \in running \cap running' : LaunchSpec(k)' # LaunchSpec(k) => k \in asked'
  <1>1. ImportInv /\ [Next]_vars => [Told]_farmVars
    <2> SUFFICES ASSUME ImportInv, Next PROVE Told
      BY DEF vars
    <2>1. FarmShape /\ RunningIsLaunchable
      BY DEF ImportInv, Shape
    <2>2. Informs
      BY ConfirmDoes, OtherSteps
    <2> QED  BY <2>1, <2>2, InformsRuns
  <1> QED  BY <1>1, ImportInvariant, PTL DEF Spec, ChangesAreAsked

(* An import overwrites, archives or deletes nothing that the control room has created
   or changed since the last import wrote it, nor an account with a history. *)
THEOREM UIDataStays == Spec => UIDataIsKept
  <1> DEFINE Kept ==
        imports' # imports =>
          /\ \A k \in ours.accounts \cap Accounts : k \in Accounts' /\ Chosen(k)' = Chosen(k)
          /\ \A i \in ours.presets \cap Presets : i \in Presets' /\ preset'[i] = preset[i]
          /\ ours.settings => settings' = settings
          /\ history \subseteq Accounts'
  <1>1. ImportInv /\ [Next]_vars => [Kept]_vars
    <2> SUFFICES ASSUME ImportInv, Next PROVE Kept
      OBVIOUS
    <2>1. CASE \E d \in Drafts : Confirm(d)
      BY <2>1, ConfirmDoes
    <2>2. CASE ~\E d \in Drafts : Confirm(d)
      BY <2>2, OtherSteps
    <2> QED  BY <2>1, <2>2
  <1> QED  BY <1>1, ImportInvariant, PTL DEF Spec, UIDataIsKept

(* What an import writes or deletes is what the preview of its draft has shown, although
   import_legacy makes the plan anew: the snapshot that is compared names enough rows to
   rule out any other change. *)
THEOREM ImportsAsPreviewed == Spec => AppliedAsReviewed
  <1> DEFINE Followed(d) ==
        LET p == drafts[d].preview IN
        /\ drafts[d] # NoDraft /\ drafts'[d] = NoDraft
        /\ \/ p.conflicts
           \/ /\ Accounts' \ Accounts \subseteq p.created /\ Accounts \ Accounts' \subseteq p.removed
              /\ \A k \in Accounts \cap Accounts' :
                      Semantic(k)' # Semantic(k) => k \in p.updated \cup p.removed \cup p.preserved
              /\ \A i \in Presets' \ Presets : preset'[i].name \in p.presetsCreated
              /\ Presets \ Presets' \subseteq p.presetsRemoved
              /\ \A i \in Presets \cap Presets' : preset'[i] # preset[i] => i \in p.presetsUpdated
              /\ settings' # settings => p.settings
         Reviewed == imports' # imports => \E d \in Drafts : Followed(d)
  <1>1. ImportInv /\ [Next]_vars => [Reviewed]_vars
    <2> SUFFICES ASSUME ImportInv, Next, imports' # imports PROVE \E d \in Drafts : Followed(d)
      OBVIOUS
    <2>1. PICK d \in Drafts : Confirm(d)
      BY OtherSteps
    <2>2. PICK x \in Archives : x = drafts[d].source /\ \E ids : Applies(x, ids)
      BY <2>1, ConfirmApplies
    <2>3. PICK ids : Applies(x, ids)
      BY <2>2
    <2>4. FarmShape /\ LedgerOK /\ DOMAIN drafts = Drafts
      BY DEF ImportInv, Shape, TypeOK, DraftsFit
    <2>5. /\ drafts[d] # NoDraft /\ drafts'[d] = NoDraft
          /\ ~drafts[d].preview.conflicts => Shows(x, Snapshot(x), drafts[d].preview)
      BY <2>1, <2>2, <2>4, ConfirmApplies
    <2>6. CASE drafts[d].preview.conflicts
      BY <2>5, <2>6
    <2>7. CASE ~drafts[d].preview.conflicts
      <3>1. PICK p : p = drafts[d].preview
        OBVIOUS
      <3>2. /\ Accounts' \ Accounts \subseteq p.created /\ Accounts \ Accounts' \subseteq p.removed
            /\ \A k \in Accounts \cap Accounts' :
                 Semantic(k)' # Semantic(k) => k \in p.updated \cup p.removed \cup p.preserved
            /\ \A i \in Presets' \ Presets : preset'[i].name \in p.presetsCreated
            /\ Presets \ Presets' \subseteq p.presetsRemoved
            /\ \A i \in Presets \cap Presets' : preset'[i] # preset[i] => i \in p.presetsUpdated
            /\ settings' # settings => p.settings
        BY <2>3, <2>4, <2>5, <2>7, <3>1, ImportFollows
      <3> QED  BY <2>5, <3>1, <3>2
    <2> QED  BY <2>6, <2>7
  <1> QED  BY <1>1, ImportInvariant, PTL DEF Spec, AppliedAsReviewed

=============================================================================
