----------------------------- MODULE MCCalendar ------------------------------
EXTENDS Calendar

MCDaysOfMonth == <<3, 2, 3>>
=============================================================================
