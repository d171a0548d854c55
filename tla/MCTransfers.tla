----------------------------- MODULE MCTransfers -----------------------------
\* Jobs that share one destination, with batches, cancellation, quiescence and
\* a history of one: three jobs of one host behind two permits, one of whose
\* tasks may be dropped, and for liveness two hosts behind one permit.
EXTENDS Transfers

MCHostOf(s) == s
=============================================================================
