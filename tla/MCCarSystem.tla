----------------------------- MODULE MCCarSystem -----------------------------
EXTENDS CarSystem

\* In 50 ms: MotorTask, MotorConnStopTimeout 500 ms; the command task runs on
\* request only, whatever its rate is.
MCRates == <<1, 10, 1>>
=============================================================================
