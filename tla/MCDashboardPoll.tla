--------------------------- MODULE MCDashboardPoll ---------------------------
EXTENDS DashboardPoll
=============================================================================
