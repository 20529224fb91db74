---------------------------- MODULE MCAdminServer ----------------------------
EXTENDS AdminServer
=============================================================================
