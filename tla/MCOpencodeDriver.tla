-------------------------- MODULE MCOpencodeDriver --------------------------
EXTENDS OpencodeDriver
=============================================================================
