------------------------- MODULE MCServiceOperations -------------------------
\* The service operations on one host whose session comes and goes.
EXTENDS ServiceOperations, TLC

RunningOrFailed ==
    {[phase |-> "running", can_reload |-> TRUE, can_start |-> FALSE],
     [phase |-> "failed", can_reload |-> FALSE, can_start |-> FALSE]}

\* Commands are interchangeable, and so are fresh plan ids and hosts.
Alike == Permutations(Calls) \cup Permutations(Plans) \cup Permutations(Hosts)
=============================================================================
