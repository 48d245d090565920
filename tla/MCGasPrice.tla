---- MODULE MCGasPrice ----
(* Pending transactions and prices for TLC. *)
EXTENDS GasPrice

Tx(p, gas, rival) == [price |-> p, turn |-> 1, gas |-> gas, rival |-> rival]
Pendings == {Tx(11, 2, FALSE), Tx(12, 1, TRUE), Tx(30, 1, TRUE)}

\* A tenth more than the price.
Times(p) == (p * 11) \div 10
====
