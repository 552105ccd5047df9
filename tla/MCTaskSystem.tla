---------------------------- MODULE MCTaskSystem -----------------------------
EXTENDS TaskSystem

\* Task 1 is event-driven like the UART and button tasks, task 2 a timeout task
\* that may be put to sleep, task 3 runs once like SelfTest, and task 4, behind
\* them all, is periodic: its tick comes up to the modulus.
MCRates == <<1, 2, 1, 3>>

\* Task 1 runs once like SelfTest, task 2 is event-driven.
MCRaceRates == <<2, 1>>
=============================================================================
