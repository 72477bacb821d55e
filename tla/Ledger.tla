------------------------------- MODULE Ledger -------------------------------
(***************************************************************************)
(* What the payment code promises about an order, whatever the gateway and *)
(* however often it is confirmed: an order is worth a fixed amount from    *)
(* the moment it exists, somebody with the right to do so approves it (the *)
(* gateway that was paid, or an administrator), and only then is it        *)
(* granted, once, for exactly what it is worth.                            *)
(***************************************************************************)
EXTENDS Naturals

CONSTANT Orders

VARIABLES
  worth,     \* [Orders -> Nat], 0 until the order exists
  approved,  \* the orders paid at their gateway or completed by hand
  granted    \* [Orders -> Nat], what the user got for the order

vars == <<worth, approved, granted>>

Init ==
  /\ worth = [o \in Orders |-> 0]
  /\ approved = {}
  /\ granted = [o \in Orders |-> 0]

Create(o) ==
  /\ worth[o] = 0
  /\ worth'[o] \in Nat \ {0}
  /\ worth' = [worth EXCEPT ![o] = worth'[o]]
  /\ UNCHANGED <<approved, granted>>

Approve(o) ==
  /\ worth[o] # 0
  /\ approved' = approved \cup {o}
  /\ UNCHANGED <<worth, granted>>

Grant(o) ==
  /\ o \in approved
  /\ granted[o] = 0
  /\ granted' = [granted EXCEPT ![o] = worth[o]]
  /\ UNCHANGED <<worth, approved>>

Next == \E o \in Orders : Create(o) \/ Approve(o) \/ Grant(o)

Spec == Init /\ [][Next]_vars
=============================================================================
