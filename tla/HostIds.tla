------------------------------- MODULE HostIds -------------------------------
\* The names that the stores of the hosts share.
CONSTANTS
    Hosts,
    Nothing  \* no record, no key, no host, nobody

ASSUME HostIdsAssumption == Nothing \notin Hosts
=============================================================================
