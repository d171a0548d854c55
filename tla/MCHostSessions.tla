--------------------------- MODULE MCHostSessions ---------------------------
\* Three commands on one host: the life cycle of its session, and what reads
\* through it.
EXTENDS SessionObservations
=============================================================================
