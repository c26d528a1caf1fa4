--------------------------- MODULE MCAgentLifecycle ---------------------------
EXTENDS AgentLifecycle, TLC

CONSTANTS a1, a2, c1, c2

\* Agents are interchangeable, and so are Configs: call the first agent a1 and
\* its Config c1.  (Temporal properties rule out a SYMMETRY set.)
FirstNamed ==
  creating' # creating /\ creating' # None =>
    /\ creating' = a2 => Created(a1)
    /\ creating' = a1 => conf'[a1] = c1
=============================================================================
