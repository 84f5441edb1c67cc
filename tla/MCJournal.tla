----------------------------- MODULE MCJournal -----------------------------
\* One document of any kind, manual entries, two requests at a time.
EXTENDS Journal, TLC

Workers == Permutations(Worker)

OneOrThree == {1, 3}
JustOne    == {1}
=============================================================================
