------------------------------ MODULE MCUrlStats ------------------------------
EXTENDS UrlStats, TLC

CONSTANTS r1, r2, r3

\* Two records share a url.
MCUrl == [r \in Records |-> IF r \in {r1, r2} THEN "a" ELSE "b"]

Symmetry == Permutations({r1, r2})

\* Without what decides no step, and of the properties of url_stats is only typed:
\* the wake-up, which spares the worker its ticker's wait, and three histories of
\* the records counted late.
Read == <<now, queueVars, cpc, cur, snapshot, completed, retiredThrough, fate, statVars,
          sendVars, phase, dpc, late, flushed>>
==============================================================================
