-------------------------- MODULE MCSystemdDispatch --------------------------
\* One dispatch of each operation against a remote host that may refuse, run,
\* talk, fall silent or disappear at any point.
EXTENDS SystemdDispatch
=============================================================================
