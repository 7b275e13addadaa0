----------------------------- MODULE MCSimulation -----------------------------
EXTENDS Simulation, TLC

CONSTANTS set, get, zones, changed, q1, q2, wrong

\* Both objects of the engine declare the setter; the one of another engine
\* declares everything.
MCDefines == (q1 :> {set, zones}) @@ (q2 :> {set, zones}) @@ (wrong :> Functions)
=============================================================================
