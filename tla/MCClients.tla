----------------------------- MODULE MCClients -----------------------------
(* Clients on a small instance: two devices that start out with one slot   *)
(* between them.                                                           *)
EXTENDS Clients

TightInit == Init /\ maxSlots = 1

TightSpec == TightInit /\ [][Next]_vars /\ Fairness

=============================================================================
