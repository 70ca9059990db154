-------------------------- MODULE MCConditionLock --------------------------
EXTENDS ConditionLock
=============================================================================
