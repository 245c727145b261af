--------------------------- MODULE MCLegacyImport ---------------------------
(***************************************************************************)
(* Archives for LegacyImport, and small instances for TLC.                 *)
(***************************************************************************)
EXTENDS LegacyImport, TLC

CONSTANTS k1, k2, u1, w1, l1, l2, p1, p2

Defaults(l) == [channels |-> l, autostart |-> FALSE]

\* An account with a preset, and custom channels that it does not use.
First ==
    [accounts |-> k1 :> [username |-> u1, password |-> w1, cookie |-> "valid"],
     states |-> k1 :> [mode |-> "preset", preset |-> p1, custom |-> l2],
     presets |-> p1 :> l1, settings |-> Defaults(l1)]

\* The same account under another name and with the defaults of the farm; the preset and
\* the defaults have other channels.
Second ==
    [accounts |-> k1 :> [username |-> k1, password |-> w1, cookie |-> "none"],
     states |-> Empty, presets |-> p1 :> l2, settings |-> Defaults(l2)]

\* Another account that only has a state; no presets, no defaults.
Third ==
    [accounts |-> Empty, states |-> k2 :> [mode |-> "custom", preset |-> NoName, custom |-> l2],
     presets |-> Empty, settings |-> Defaults(NoList)]

\* That account is a configured one, whose cookie is not valid.
Fourth ==
    [accounts |-> k2 :> [username |-> k2, password |-> w1, cookie |-> "invalid"],
     states |-> Empty, presets |-> Empty, settings |-> Defaults(l1)]

SomeArchives == {First, Second, Third, Fourth}
=============================================================================
