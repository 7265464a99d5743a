----------------------------- MODULE MCAccounts -----------------------------
(* Constant values and symmetry for the run of Accounts. *)
EXTENDS Accounts, TLC

CONSTANTS r1, f1, f2, k1, k2, x1, x2, c1, c2, l1, g, h, mail, none

OneSignup     == {r1}
TwoFlows      == {f1, f2}
TwoCallbacks  == {k1, k2}
TwoExchanges  == {x1, x2}
TwoConfirms   == {c1, c2}
OneLogin      == {l1}
\* One address at two providers.
TwoIdentities == {g, h}
SameEmail     == [i \in TwoIdentities |-> mail]
AllFaults     == {"io", "lost", "restart", "expiry"}

Symmetry ==
  Permutations(Flows) \cup Permutations(Callbacks) \cup Permutations(Exchanges)
    \cup Permutations(Confirms) \cup Permutations(Identities)
=============================================================================
