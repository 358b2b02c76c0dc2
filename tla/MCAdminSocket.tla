--------------------------- MODULE MCAdminSocket ---------------------------
(* Instances of AdminSocket for TLC.                                       *)
EXTENDS AdminSocket

AllPages == {"dashboard", "services", "kv", "health", "apikeys"}
AllChannels == {"kv", "services", "health"}

(* The useEffect of each page.                                             *)
Subscribed(p) == CASE p = "dashboard" -> AllChannels
                   [] p = "services" -> {"services"}
                   [] p = "kv" -> {"kv"}
                   [] p = "health" -> {"health"}
                   [] p = "apikeys" -> {}
=============================================================================
