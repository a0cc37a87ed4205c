---------------------------- MODULE MCAgentTask ----------------------------
EXTENDS AgentTask

CONSTANTS m1, m2
=============================================================================
