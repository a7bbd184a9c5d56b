------------------------------ MODULE MCWorkflow ------------------------------
EXTENDS WorkflowProgress
CONSTANTS d1, d2
=============================================================================
