---------------------------- MODULE MCAdminPages ----------------------------
(* Instances of AdminPages for TLC.                                        *)
EXTENDS AdminPages
=============================================================================
