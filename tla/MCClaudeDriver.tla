---------------------------- MODULE MCClaudeDriver ----------------------------
EXTENDS ClaudeDriver
=============================================================================
