--------------------------- MODULE MCSettingsFile ---------------------------
EXTENDS SettingsFile, TLC

CONSTANTS old, new

\* The keys are treated alike.
Alike == Permutations(Keys)

\* Two versions that differ in every value.
OldAndNew == {[k \in Keys |-> old], [k \in Keys |-> new]}
=============================================================================
