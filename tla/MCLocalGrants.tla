---------------------------- MODULE MCLocalGrants ----------------------------
\* Grants of two hosts, against what the documentation says of a disconnect.
EXTENDS LocalGrants
=============================================================================
