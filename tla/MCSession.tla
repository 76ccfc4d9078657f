------------------------------ MODULE MCSession ------------------------------
(* Session for TLC: an administrator and an operator, two tabs.             *)
EXTENDS Session, TLC

CONSTANTS admin, operator, t1, t2

Roles == admin :> 2 @@ operator :> 1
Paths == [audit |-> 2]
TwoTabs == {t1, t2}
TwoUsers == {admin, operator}
=============================================================================
