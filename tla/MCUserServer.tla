----------------------------- MODULE MCUserServer -----------------------------
EXTENDS UserServer, TLC
==============================================================================
