---------------------------- MODULE MCBotWizards ----------------------------
(* Small instances of BotWizards for TLC.                                  *)
EXTENDS BotWizards, TLC

CONSTANTS a1, a2, g1, g2

\* Addresses and slugs are interchangeable.
Symmetry == Permutations(Address) \cup Permutations(Slug)

=============================================================================
