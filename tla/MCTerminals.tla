----------------------------- MODULE MCTerminals -----------------------------
\* One terminal whose messages span chunks and whose chunks span batches.
EXTENDS Terminals
=============================================================================
