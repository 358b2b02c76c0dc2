--------------------------- MODULE MCAdminSession ---------------------------
(* Instances of AdminSession for TLC.                                      *)
EXTENDS AdminSession

(* One call of each of two tabs, and one of a single tab.                  *)
OneEach == {<<"t1", 1>>, <<"t2", 1>>}
OneOnly == {<<"t1", 1>>}
TabOfPair(c) == c[1]
=============================================================================
