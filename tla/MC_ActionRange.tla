-------------------------- MODULE MC_ActionRange ----------------------------
EXTENDS ActionRange, TLC
=============================================================================
