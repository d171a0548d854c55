-------------------------- MODULE MCProcessLifecycle --------------------------
\* Three invocations, two of which may hold a permit at a time, one release.
EXTENDS ProcessLifecycle
=============================================================================
