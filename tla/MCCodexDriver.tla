---------------------------- MODULE MCCodexDriver ----------------------------
EXTENDS CodexDriver
=============================================================================
