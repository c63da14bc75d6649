----------------------------- MODULE MCTxQueue -----------------------------
(* Instances of TxQueue for TLC. *)
EXTENDS TxQueue

Client(v, g, c, m) == [vlan |-> v, gso |-> g, csum |-> c, marks |-> m]

(* A client that tags every packet and marks some to be ignored, and two   *)
(* that switch an offload on and off.                                      *)
EachExtension ==
    {Client(TRUE, FALSE, FALSE, TRUE), Client(FALSE, TRUE, FALSE, FALSE),
     Client(FALSE, FALSE, TRUE, FALSE)}

(* Every packet takes a context descriptor, or none does. *)
AlwaysTags == {Client(TRUE, FALSE, FALSE, FALSE)}
NoExtension == {Client(FALSE, FALSE, FALSE, FALSE)}
============================================================================
