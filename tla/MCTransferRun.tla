---------------------------- MODULE MCTransferRun ----------------------------
\* One operation of each kind against a server that may refuse or lose any
\* request and others that write destination and source up to three times.
EXTENDS TransferRun
=============================================================================
