---------------------------- MODULE MCInterrupt ----------------------------
(* Instances of Interrupt for TLC. *)
EXTENDS Interrupt

OneRxQueue == {0}

Setup(m, queues, link, over) ==
    [mode |-> m, queues |-> queues, links |-> link, overlap |-> over]

(* Either mode, each kind of queue alone with a link that changes, and     *)
(* both on the shared interrupt; DPCs that overlap and, with MSI-X, not.   *)
AllSetups ==
    {Setup("msix", {q}, TRUE, over) : q \in Queues, over \in BOOLEAN}
      \cup {Setup("shared", {q}, TRUE, TRUE) : q \in Queues}
      \cup {Setup("shared", Queues, FALSE, TRUE)}

(* The link shares its vector with the transmit queue, or the interrupt    *)
(* with either queue; on the shared interrupt with the transmit queue, and *)
(* alone on MSI-X's misc vector, DPCs overlap. A receive queue has a       *)
(* vector of its own with MSI-X.                                           *)
LiveSetups ==
    {Setup("msix", {0}, FALSE, TRUE), Setup("msix", {Tx}, TRUE, FALSE),
     Setup("msix", {}, TRUE, TRUE),
     Setup("shared", {0}, TRUE, FALSE), Setup("shared", {Tx}, TRUE, TRUE)}
SharedSetup == {Setup("shared", Queues, FALSE, FALSE)}
============================================================================
