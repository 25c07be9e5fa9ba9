---------------------------- MODULE MCObjectState ----------------------------
EXTENDS ObjectState

===============================================================================
