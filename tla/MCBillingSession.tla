-------------------------- MODULE MCBillingSession --------------------------
(***************************************************************************)
(* Finite instances of BillingSession.                                     *)
(***************************************************************************)
EXTENDS BillingSession

\* All requests use the same token, which starts with a quota of 2.
OneToken == [r \in Requests |-> CHOOSE t \in Tokens : TRUE]
TwoEach == [t \in Tokens |-> 2]
=============================================================================
