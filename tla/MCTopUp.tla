------------------------------- MODULE MCTopUp -------------------------------
(***************************************************************************)
(* Finite instances of TopUp.                                              *)
(***************************************************************************)
EXTENDS TopUp

CONSTANTS n1, n2

\* One process, or one process per handler.
OneNode == [h \in Handlers |-> n1]
OwnNodes ==
  LET first == CHOOSE h \in Handlers : TRUE
  IN [h \in Handlers |-> IF h = first THEN n1 ELSE n2]

\* Whose orders administrators complete: an order of Creem would be granted
\* its Amount times QuotaPerUnit by them, and its Amount by the webhook.
AllButCreem == Providers \ {"creem"}
=============================================================================
