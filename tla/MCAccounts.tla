------------------------------ MODULE MCAccounts ------------------------------
(* Values for model checking Accounts, and the crowds its run looks at: logins and   *)
(* sign-ups that race each other; OIDC logins that race beside one user-management   *)
(* request; one OIDC login beside several such requests.  The one pin is a display   *)
(* name that every OIDC subject may carry, so it treats people alike and they may be *)
(* permuted.                                                                         *)
EXTENDS Accounts, TLC

VARIABLE crowd

MCPins == {{<<"oidc", c>> : c \in Person}}
HandlerSymmetry == Permutations(Person) \cup Permutations(LoginHandler) \cup Permutations(AdminHandler)

Alone(h, handlers) == \A g \in handlers \ {h} : job[g].at = "idle"

CrowdInit == Init /\ crowd \in {"logins", "one admin", "admins"}
CrowdNext ==
  /\ UNCHANGED crowd
  /\ \/ \E h \in LoginHandler : /\ crowd = "admins" => Alone(h, LoginHandler)
                                /\ LoginStep(h)
                                /\ crowd # "logins" => job'[h].kind \in {None, "oidc"}
     \/ \E h \in AdminHandler : /\ crowd # "logins" /\ (crowd = "one admin" => Alone(h, AdminHandler))
                                /\ AdminStep(h)
     \/ \E c \in Person : Logout(c)
     \/ \E h \in Handler : DatabaseFault(h)
     \/ Crash
CrowdSpec == CrowdInit /\ [][CrowdNext]_<<vars, crowd>>
===============================================================================
