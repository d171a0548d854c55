----------------------------- MODULE MCFilePlans -----------------------------
\* Two commands and the timers around two documents of one file, two sessions,
\* a store with room for one plan, and a clock that outlives a plan and then a document.
EXTENDS FilePlans, TLC

CallSymmetry == Permutations(Calls)
=============================================================================
