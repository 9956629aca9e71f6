----------------------------- MODULE MC_PyIndex -----------------------------
EXTENDS PyIndex
=============================================================================
