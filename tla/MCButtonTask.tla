---------------------------- MODULE MCButtonTask -----------------------------
EXTENDS ButtonTask

\* Task 1 is the button task, task 2 any periodic task.
MCRates == <<1, 1>>
=============================================================================
