---------------------------- MODULE MCAdminConfig ----------------------------
(* Small instances of AdminConfig.                                          *)
EXTENDS AdminConfig, TLC

Symmetric == Permutations(Commands) \cup Permutations(Passwords)
=============================================================================
