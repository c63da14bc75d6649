----------------------------- MODULE MCAdapter -----------------------------
(***************************************************************************)
(* Device, with two multicast addresses, and Link, with two DPCs. They     *)
(* share no state but the power, which each has its own view of; to keep   *)
(* them from multiplying, a behaviour is about one part of the adapter: a  *)
(* client that sets filters on an I210 with one interrupt line, or any     *)
(* resources and no client, or the link.                                   *)
(***************************************************************************)
EXTENDS Device, Link

VARIABLE part

TwoAddresses == {<<52, 86>>, <<200, 7>>}

MCInit ==
    /\ Init /\ LinkInit /\ part \in {"filters", "resources", "link"}
    /\ part = "filters" => type = "i210" /\ configured = "local"
    /\ part # "filters" => mc_filter_type = 0
    /\ part = "link" => type = "i210" /\ configured = "local"
    /\ part # "link" => media_type = "copper" /\ requested_mode = "none"
MCNext ==
    /\ UNCHANGED part
    /\ \/ part # "link" /\ Next /\ UNCHANGED linkVars
       \/ part = "link" /\ LinkNext /\ UNCHANGED vars
    /\ part = "filters" => interrupts' <= 1 /\ MsiInterrupts' = 0
    /\ part # "filters" => filter' = None /\ start' = None

MCSpec == MCInit /\ [][MCNext]_<<vars, linkVars, part>> /\ Fairness
=============================================================================
