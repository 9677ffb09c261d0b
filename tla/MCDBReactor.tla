---------------------------- MODULE MCDBReactor ----------------------------
EXTENDS DBReactor
=============================================================================
