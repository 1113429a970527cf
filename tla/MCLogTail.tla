------------------------------ MODULE MCLogTail -----------------------------
EXTENDS LogTail
=============================================================================
