--------------------------- MODULE MCUpdateService ---------------------------
\* Two callers, two releases and shutdowns at any time: the service on its own,
\* called without the admission that the process puts in front of it.
EXTENDS UpdateService
=============================================================================
