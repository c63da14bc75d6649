----------------------------- MODULE LinkProofs -----------------------------
(***************************************************************************)
(* Proofs about Link, for any number of DPCs and of changes of the link.   *)
(***************************************************************************)
EXTENDS Link, TLAPS

Saying == [up : BOOLEAN, full : BOOLEAN, pause : Modes]
Places == {"idle", "clear_causes", "check", "up", "flow_control", "duplex",
           "serdes_flow_control", "look", "tell"}
LinkType == [up : BOOLEAN, able : SUBSET Abilities, full : BOOLEAN, negotiated : BOOLEAN]

Typed ==
    /\ media_type \in {"copper", "internal_serdes"}
    /\ requested_mode \in Modes \cup {"default"} /\ current_mode \in Modes
    /\ get_link_status \in BOOLEAN /\ watermarks \in BOOLEAN
    /\ adv \subseteq Abilities /\ CTRL \subseteq {"TFCE", "RFCE"}
    /\ link \in LinkType /\ (link = Down \/ link \in Links)
    /\ stage \in {"reset", "set_up", "D3", "D0"}
    /\ check \in [Checks -> [at : Places, say : Saying]]
    /\ reported \in Saying
    /\ changes \in 0 .. MaxChanges

(* What a station that agreed with its partner does. *)
Agreed ==
    IF media_type = "copper"
      THEN IF HalfDuplex THEN "none" ELSE e1000_config_fc_after_link_up_generic(adv, link.able)
      ELSE ConfigFcSerdes(adv, link.able)
Settled == link.negotiated => current_mode = Agreed /\ CTRL = e1000_force_mac_fc_generic(Agreed)

(* Checks run with the device at work, and the latest alone if they do not *)
(* overlap.                                                                *)
RunsInD0 == stage # "D0" => Running = {}
RunsAlone == ~overlapped => \A c, d \in Running : c = d

(* How far a check has come that meets the link of the moment.             *)
Progress(c) ==
    /\ At(c, "clear_causes") \/ At(c, "check") => get_link_status
    /\ At(c, "up") \/ At(c, "flow_control") \/ At(c, "duplex") => media_type = "copper"
    /\ At(c, "serdes_flow_control") => media_type = "internal_serdes"
    /\ ~pending /\ ~stale =>
         /\ At(c, "duplex") =>
              current_mode = e1000_config_fc_after_link_up_generic(adv, link.able)
         /\ At(c, "look") \/ At(c, "tell") => Settled
ChecksProgress == ~overlapped => \A c \in Checks : Progress(c)

IdleIsSettled == Quiet => Settled

(* What was set up. *)
Prepared ==
    /\ stage = "reset" => adv = {}
    /\ stage = "set_up" /\ ~unset => current_mode = requested_mode
    /\ stage # "reset" /\ ~unset => (adv = {"ASM_DIR"} => requested_mode = "tx_pause")
    /\ stage \in {"D3", "D0"} /\ ~unset =>
         (requested_mode \in {"tx_pause", "full"} => watermarks)

LinkInvariant ==
    Typed /\ RunsInD0 /\ RunsAlone /\ ChecksProgress /\ IdleIsSettled /\ Prepared
-----------------------------------------------------------------------------
(* Flow control. *)

LEMMA ForceTyped ==
    ASSUME NEW mode \in Modes
    PROVE  /\ e1000_force_mac_fc_generic(mode) \subseteq {"TFCE", "RFCE"}
           /\ "TFCE" \in e1000_force_mac_fc_generic(mode) <=> mode \in {"tx_pause", "full"}
           /\ "RFCE" \in e1000_force_mac_fc_generic(mode) <=> mode \in {"rx_pause", "full"}
<1>1. mode = "none" \/ mode = "rx_pause" \/ mode = "tx_pause" \/ mode = "full"
  BY DEF Modes
<1>2. CASE mode = "none"
  BY <1>2 DEF e1000_force_mac_fc_generic
<1>3. CASE mode = "rx_pause"
  BY <1>3 DEF e1000_force_mac_fc_generic
<1>4. CASE mode = "tx_pause"
  BY <1>4 DEF e1000_force_mac_fc_generic
<1>5. CASE mode = "full"
  BY <1>5 DEF e1000_force_mac_fc_generic
<1>6. QED
  BY <1>1, <1>2, <1>3, <1>4, <1>5

LEMMA ConfigTyped ==
    ASSUME NEW own, NEW partner
    PROVE  /\ e1000_config_fc_after_link_up_generic(own, partner) \in Modes
           /\ ConfigFcSerdes(own, partner) \in Modes
BY DEF e1000_config_fc_after_link_up_generic, ConfigFcSerdes, Modes

(* Copper and SerDes decide alike. *)
LEMMA SerdesAlike ==
    ASSUME NEW own \in SUBSET Abilities, NEW partner \in SUBSET Abilities
    PROVE  ConfigFcSerdes(own, partner) = e1000_config_fc_after_link_up_generic(own, partner)
<1>1. "PAUSE" \in own \cap partner <=> "PAUSE" \in own /\ "PAUSE" \in partner
  OBVIOUS
<1>2. own = {"ASM_DIR"} /\ partner = Abilities
        <=> "PAUSE" \notin own /\ "ASM_DIR" \in own /\ Abilities \subseteq partner
  BY DEF Abilities
<1>3. own = Abilities /\ partner = {"ASM_DIR"}
        <=> Abilities \subseteq own /\ "PAUSE" \notin partner /\ "ASM_DIR" \in partner
  BY DEF Abilities
<1>4. QED
  BY <1>1, <1>2, <1>3 DEF ConfigFcSerdes, e1000_config_fc_after_link_up_generic

LEMMA AgreedTyped == Agreed \in Modes
BY ConfigTyped DEF Agreed, Modes

(* Both stations resolve the same abilities to fitting modes: what one     *)
(* sends the other obeys.                                                  *)
LEMMA StationsAgree ==
    ASSUME NEW own \in SUBSET Abilities, NEW partner \in SUBSET Abilities
    PROVE  LET mode == e1000_config_fc_after_link_up_generic(own, partner) IN
             /\ mode \in {"tx_pause", "full"} => "obeys" \in Resolution(partner, own)
             /\ "sends" \in Resolution(partner, own) => mode \in {"rx_pause", "full"}
             /\ mode = "full" => requested_mode = "full"
             /\ mode = "tx_pause" => own = {"ASM_DIR"}
<1> DEFINE mode == e1000_config_fc_after_link_up_generic(own, partner)
           resolved == Resolution(partner, own)
<1>1. CASE "PAUSE" \in own \cap partner
  <2>1. resolved = {"sends", "obeys"}
    BY <1>1 DEF Resolution
  <2>2. mode = IF requested_mode = "full" THEN "full" ELSE "rx_pause"
    BY <1>1 DEF e1000_config_fc_after_link_up_generic
  <2>3. QED
    BY <2>1, <2>2
<1>2. CASE own = {"ASM_DIR"} /\ partner = Abilities
  <2>1. "PAUSE" \notin own \cap partner /\ "PAUSE" \notin partner \cap own
        /\ partner # {"ASM_DIR"} /\ own # Abilities
    BY <1>2 DEF Abilities
  <2>2. resolved = {"obeys"}
    BY <1>2, <2>1 DEF Resolution
  <2>3. mode = "tx_pause"
    BY <1>2, <2>1 DEF e1000_config_fc_after_link_up_generic
  <2>4. QED
    BY <1>2, <2>2, <2>3
<1>3. CASE own = Abilities /\ partner = {"ASM_DIR"}
  <2>1. "PAUSE" \notin own \cap partner /\ "PAUSE" \notin partner \cap own
        /\ own # {"ASM_DIR"} /\ partner # Abilities
    BY <1>3 DEF Abilities
  <2>2. resolved = {"sends"}
    BY <1>3, <2>1 DEF Resolution
  <2>3. mode = "rx_pause"
    BY <1>3, <2>1 DEF e1000_config_fc_after_link_up_generic
  <2>4. QED
    BY <2>2, <2>3
<1>4. CASE /\ "PAUSE" \notin own \cap partner
           /\ ~(own = {"ASM_DIR"} /\ partner = Abilities)
           /\ ~(own = Abilities /\ partner = {"ASM_DIR"})
  <2>1. "PAUSE" \notin partner \cap own
    BY <1>4
  <2>2. resolved = {}
    BY <1>4, <2>1 DEF Resolution
  <2>3. mode = "none"
    BY <1>4 DEF e1000_config_fc_after_link_up_generic
  <2>4. QED
    BY <2>2, <2>3
<1>5. QED
  BY <1>1, <1>2, <1>3, <1>4

(* A partner negotiates only with the link up, and over SerDes at full     *)
(* duplex.                                                                 *)
LEMMA LinkFacts ==
    ASSUME Typed, link.negotiated
    PROVE  link.up /\ (media_type = "internal_serdes" => link.full)
<1>1. link # Down
  BY DEF Down
<1>2. link \in Links
  BY <1>1 DEF Typed
<1> DEFINE none(fulls) == {[Down EXCEPT !.up = TRUE, !.full = (fulls = {TRUE})]}
<1>3. ASSUME NEW fulls PROVE link \notin none(fulls)
  <2> DEFINE full == (fulls = {TRUE})
             found == [Down EXCEPT !.up = TRUE, !.full = full]
  <2>1. none(fulls) = {found}
    OBVIOUS
  <2> HIDE DEF full, none
  <2>2. found.negotiated = FALSE
    BY DEF Down
  <2>3. link # found
    BY <2>2
  <2> HIDE DEF found
  <2>4. QED
    BY <2>1, <2>3
<1> HIDE DEF none
<1>4. ASSUME NEW negotiates, NEW fulls, link \in Partners(negotiates, fulls)
      PROVE  link \in [up : {TRUE}, able : SUBSET Abilities, full : fulls, negotiated : {TRUE}]
  <2> DEFINE every == [up : {TRUE}, able : SUBSET Abilities, full : fulls, negotiated : {TRUE}]
             single == none(fulls)
  <2>1. Partners(negotiates, fulls) = IF negotiates THEN every ELSE single
    BY DEF Partners, none
  <2>2. link \notin single
    BY <1>3
  <2> HIDE DEF every, single
  <2>3. link \in every
    BY <1>4, <2>1, <2>2
  <2>4. QED
    BY <2>3 DEF every
<1>5. CASE media_type = "copper"
  BY <1>2, <1>4, <1>5 DEF Links
<1>6. CASE media_type # "copper"
  <2>1. \E negotiates : link \in Partners(negotiates, {TRUE})
    BY <1>2, <1>6 DEF Links
  <2>2. link \in [up : {TRUE}, able : SUBSET Abilities, full : {TRUE}, negotiated : {TRUE}]
    BY <1>4, <2>1
  <2>3. QED
    BY <2>2
<1>7. QED
  BY <1>5, <1>6
-----------------------------------------------------------------------------
(* The checks. *)

LEMMA AgreedKept ==
    ASSUME UNCHANGED <<setting, link>>
    PROVE  Agreed' = Agreed
<1>1. media_type' = media_type /\ adv' = adv /\ link' = link /\ requested_mode' = requested_mode
  BY DEF setting
<1>2. QED
  BY <1>1 DEF Agreed, HalfDuplex, e1000_config_fc_after_link_up_generic, ConfigFcSerdes

LEMMA SettledKept ==
    ASSUME UNCHANGED <<setting, link, current_mode, CTRL>>
    PROVE  Settled' <=> Settled
<1>1. e1000_force_mac_fc_generic(Agreed)' = e1000_force_mac_fc_generic(Agreed)
  BY AgreedKept DEF e1000_force_mac_fc_generic
<1>2. link' = link /\ current_mode' = current_mode /\ CTRL' = CTRL
  OBVIOUS
<1>3. QED
  BY <1>1, <1>2, AgreedKept DEF Settled

LEMMA LinksKept == ASSUME UNCHANGED <<media_type, autoneg, unset>> PROVE Links' = Links
BY DEF Links, Partners

(* Registers that are lost leave no fewer partners possible. *)
LEMMA LinksGrow ==
    ASSUME UNCHANGED <<media_type, autoneg>>, unset' \/ unset' = unset
    PROVE  Links \subseteq Links'
<1>1. CASE media_type = "copper"
  BY <1>1 DEF Links, Partners
<1>2. CASE media_type # "copper"
  <2> DEFINE every == [up : {TRUE}, able : SUBSET Abilities, full : {TRUE}, negotiated : {TRUE}]
             single == {[Down EXCEPT !.up = TRUE, !.full = ({TRUE} = {TRUE})]}
  <2>1. \A negotiates : Partners(negotiates, {TRUE}) = IF negotiates THEN every ELSE single
    BY DEF Partners
  <2>2. \A negotiates : Partners(negotiates, {TRUE})' = IF negotiates THEN every ELSE single
    BY DEF Partners, Down, Abilities
  <2> HIDE DEF every, single
  <2>3. Links = UNION {Partners(negotiates, {TRUE}) : negotiates \in {FALSE, autoneg \/ unset}}
    BY <1>2 DEF Links
  <2>4. Links' = UNION {Partners(negotiates, {TRUE})' :
                          negotiates \in {FALSE, autoneg \/ unset'}}
    BY <1>2 DEF Links
  <2>5. Links = single \cup (IF autoneg \/ unset THEN every ELSE single)
    BY <2>1, <2>3
  <2>6. Links' = single \cup (IF autoneg \/ unset' THEN every ELSE single)
    BY <2>2, <2>4
  <2>7. QED
    BY <2>5, <2>6
<1>3. QED
  BY <1>1, <1>2

(* A running check is the only one, with the device at work. *)
LEMMA TheOnlyCheck ==
    ASSUME LinkInvariant, NEW c \in Checks, ~At(c, "idle")
    PROVE  /\ stage = "D0" /\ c \in Running
           /\ ~overlapped => Progress(c) /\ \A d \in Checks : d # c => At(d, "idle")
<1>1. c \in Running
  BY DEF Running
<1>2. stage = "D0"
  BY <1>1 DEF LinkInvariant, RunsInD0
<1>3. ~overlapped => \A d \in Checks : d # c => At(d, "idle")
  BY <1>1 DEF LinkInvariant, RunsAlone, Running
<1>4. ~overlapped => Progress(c)
  BY DEF LinkInvariant, ChecksProgress
<1>5. QED
  BY <1>1, <1>2, <1>3, <1>4

(* To show that a step of a running check, after which it still runs,      *)
(* keeps the invariant, look at how far it has come.                       *)
LEMMA StepOfCheck ==
    ASSUME LinkInvariant, NEW c \in Checks, ~At(c, "idle"), NEW state,
           state \in [at : Places \ {"idle"}, say : Saying],
           check' = [check EXCEPT ![c] = state],
           UNCHANGED <<setting, stage, link, changes, reported, overlapped>>,
           current_mode' \in Modes, get_link_status' \in BOOLEAN,
           CTRL' \subseteq {"TFCE", "RFCE"},
           ~overlapped => Progress(c)'
    PROVE  LinkInvariant'
<1>1. stage = "D0" /\ c \in Running /\ (~overlapped => \A d \in Checks : d # c => At(d, "idle"))
  BY TheOnlyCheck
<1>2. check \in [Checks -> [at : Places, say : Saying]]
  BY DEF LinkInvariant, Typed
<1>3. /\ check' \in [Checks -> [at : Places, say : Saying]] /\ check'[c] = state
      /\ \A d \in Checks : d # c => check'[d] = check[d]
  BY <1>2
<1>4. \A d \in Checks : d # c => (At(d, "idle")' <=> At(d, "idle"))
  BY <1>3 DEF At
<1>5. ~At(c, "idle")'
  BY <1>3 DEF At
<1>6. c \in Running' /\ Running' = Running
  BY <1>1, <1>4, <1>5 DEF Running
<1>7. Links' = Links
  BY LinksKept DEF setting
<1>8. Typed'
  BY <1>3, <1>7 DEF LinkInvariant, Typed, setting
<1>9. RunsInD0' /\ RunsAlone'
  BY <1>1, <1>6 DEF LinkInvariant, RunsInD0, RunsAlone
<1>10. ChecksProgress'
  <2> SUFFICES ASSUME ~overlapped', NEW d \in Checks PROVE Progress(d)'
    BY DEF ChecksProgress
  <2>1. ~overlapped
    OBVIOUS
  <2>2. CASE d = c
    BY <2>1, <2>2
  <2>3. CASE d # c
    <3>1. check'[d].at = "idle"
      BY <1>1, <1>3, <2>1, <2>3 DEF At
    <3>2. QED
      BY <3>1 DEF Progress, At
  <2>4. QED
    BY <2>2, <2>3
<1>11. IdleIsSettled'
  BY <1>6 DEF IdleIsSettled, Quiet
<1>12. Prepared'
  BY <1>1 DEF LinkInvariant, Prepared, setting
<1>13. QED
  BY <1>8, <1>9, <1>10, <1>11, <1>12 DEF LinkInvariant

(* The same when it only moves. *)
LEMMA MoveOfCheck ==
    ASSUME LinkInvariant, NEW c \in Checks, ~At(c, "idle"), NEW place,
           place \in Places \ {"idle"}, Goes(c, place),
           UNCHANGED <<setting, stage, link, changes, reported, overlapped>>,
           current_mode' \in Modes, get_link_status' \in BOOLEAN,
           CTRL' \subseteq {"TFCE", "RFCE"},
           check'[c].at = place => (~overlapped => Progress(c)')
    PROVE  LinkInvariant'
<1> DEFINE state == [check[c] EXCEPT !.at = place]
<1>1. check \in [Checks -> [at : Places, say : Saying]]
  BY DEF LinkInvariant, Typed
<1>2. check' = [check EXCEPT ![c] = state]
  BY DEF Goes
<1>3. check[c] \in [at : Places, say : Saying]
  BY <1>1
<1>4. state \in [at : Places \ {"idle"}, say : Saying] /\ state.at = place
  BY <1>3
<1>5. check'[c].at = place
  BY <1>1, <1>2, <1>4
<1> HIDE DEF state
<1>6. QED
  BY <1>2, <1>4, <1>5, StepOfCheck

(* What the steps of a check leave alone. *)
LEMMA CheckMoves ==
    ASSUME LinkInvariant, NEW c \in Checks,
           \/ e1000_phy_has_link_generic(c) \/ NothingToCheck(c)
           \/ e1000_check_for_copper_link_generic(c)
           \/ e1000_get_pcs_speed_and_duplex_82575(c)
    PROVE  LinkInvariant'
<1>1. current_mode \in Modes /\ get_link_status \in BOOLEAN /\ CTRL \subseteq {"TFCE", "RFCE"}
  BY DEF LinkInvariant, Typed
<1>2. ASSUME ~At(c, "idle")
      PROVE  ~overlapped => Progress(c)
  BY <1>2, TheOnlyCheck
<1>3. CASE NothingToCheck(c)
  <2>1. At(c, "check") /\ media_type = "copper" /\ ~get_link_status /\ Goes(c, "look")
        /\ UNCHANGED <<setting, stage, link, changes, current_mode, CTRL, reported,
                       get_link_status, overlapped>>
    BY <1>3 DEF NothingToCheck, wire
  <2>2. ~At(c, "idle")
    BY <2>1 DEF At
  <2>3. overlapped
    BY <1>2, <2>1, <2>2 DEF Progress
  <2>4. "look" \in Places \ {"idle"}
    BY DEF Places
  <2>5. QED
    BY <1>1, <2>1, <2>2, <2>3, <2>4, MoveOfCheck
<1>4. CASE e1000_check_for_copper_link_generic(c)
  <2>1. At(c, "up") /\ get_link_status' = FALSE /\ Goes(c, "flow_control")
        /\ UNCHANGED <<setting, stage, link, changes, current_mode, CTRL, reported, overlapped>>
    BY <1>4 DEF e1000_check_for_copper_link_generic, wire
  <2>2. ~At(c, "idle")
    BY <2>1 DEF At
  <2>3. ~overlapped => media_type = "copper"
    BY <1>2, <2>1, <2>2 DEF Progress
  <2>4. "flow_control" \in Places \ {"idle"} /\ get_link_status' \in BOOLEAN
    BY <2>1 DEF Places
  <2>5. media_type' = media_type
    BY <2>1 DEF setting
  <2>6. check'[c].at = "flow_control" => (~overlapped => Progress(c)')
    BY <2>3, <2>5 DEF Progress, At
  <2>7. QED
    BY <1>1, <2>1, <2>2, <2>4, <2>6, MoveOfCheck
<1>5. CASE e1000_get_pcs_speed_and_duplex_82575(c)
  <2>1. At(c, "check") /\ media_type = "internal_serdes" /\ get_link_status' = ~link.up
        /\ Goes(c, "serdes_flow_control")
        /\ UNCHANGED <<setting, stage, link, changes, current_mode, CTRL, reported, overlapped>>
    BY <1>5 DEF e1000_get_pcs_speed_and_duplex_82575, wire
  <2>2. ~At(c, "idle")
    BY <2>1 DEF At
  <2>3. "serdes_flow_control" \in Places \ {"idle"} /\ get_link_status' \in BOOLEAN
    BY <2>1 DEF Places
  <2>4. media_type' = media_type
    BY <2>1 DEF setting
  <2>5. check'[c].at = "serdes_flow_control" => (~overlapped => Progress(c)')
    BY <2>1, <2>4 DEF Progress, At
  <2>6. QED
    BY <1>1, <2>1, <2>2, <2>3, <2>5, MoveOfCheck
<1>6. CASE e1000_phy_has_link_generic(c)
  <2>1. At(c, "check") /\ media_type = "copper"
        /\ UNCHANGED <<setting, stage, link, pending, changes, current_mode, CTRL, reported,
                       get_link_status, overlapped>>
    BY <1>6 DEF e1000_phy_has_link_generic
  <2>2. ~At(c, "idle")
    BY <2>1 DEF At
  <2>3. media_type' = media_type /\ {"up", "look"} \subseteq Places \ {"idle"}
    BY <2>1 DEF setting, Places
  <2>4. PICK place :
          /\ check' = [check EXCEPT ![c].at = place]
          /\ \/ place = IF TwoReads THEN "up" ELSE "look"
             \/ place \in {"up", "look"} /\ (place = "up" => link.up) /\ stale' = TRUE
             \/ place = "look" /\ stale' = TRUE
    BY <1>6 DEF e1000_phy_has_link_generic, Goes
  <2>5. Goes(c, place)
    BY <2>4 DEF Goes
  <2>6. place = "up" \/ (place = "look" /\ (link.up => stale' = TRUE))
    BY <2>4 DEF TwoReads
  <2>7. CASE place = "up"
    <3>1. check'[c].at = "up" => (~overlapped => Progress(c)')
      BY <2>1, <2>3 DEF Progress, At
    <3>2. QED
      BY <1>1, <2>1, <2>2, <2>3, <2>5, <2>7, <3>1, MoveOfCheck
  <2>8. CASE place = "look" /\ (link.up => stale' = TRUE)
    <3>1. ~stale' => ~link.negotiated
      BY <2>8, LinkFacts DEF LinkInvariant
    <3>2. ~stale' => Settled'
      BY <2>1, <3>1 DEF Settled
    <3>3. check'[c].at = "look" => (~overlapped => Progress(c)')
      BY <3>2 DEF Progress, At
    <3>4. QED
      BY <1>1, <2>1, <2>2, <2>3, <2>5, <2>8, <3>3, MoveOfCheck
  <2>9. QED
    BY <2>6, <2>7, <2>8
<1>7. QED
  BY <1>3, <1>4, <1>5, <1>6

(* The steps that settle flow control. *)
LEMMA CheckConfigures ==
    ASSUME LinkInvariant, NEW c \in Checks,
           ConfigFcCopper(c) \/ ConfigFcDuplex(c) \/ e1000_check_for_link_82575(c)
    PROVE  LinkInvariant'
<1>1. current_mode \in Modes /\ get_link_status \in BOOLEAN /\ CTRL \subseteq {"TFCE", "RFCE"}
  BY DEF LinkInvariant, Typed
<1>2. ASSUME ~At(c, "idle")
      PROVE  ~overlapped => Progress(c)
  BY <1>2, TheOnlyCheck
<1>3. {"duplex", "look"} \subseteq Places \ {"idle"} /\ "none" \in Modes
  BY DEF Places, Modes
<1>4. CASE ConfigFcCopper(c)
  <2>1. At(c, "flow_control") /\ CTRL' = e1000_force_mac_fc_generic(current_mode)
        /\ UNCHANGED <<setting, stage, link, pending, changes, reported, get_link_status,
                       overlapped>>
    BY <1>4 DEF ConfigFcCopper, wire
  <2>2. ~At(c, "idle")
    BY <2>1 DEF At
  <2>3. CTRL' \subseteq {"TFCE", "RFCE"}
    BY <1>1, <2>1, ForceTyped
  <2>4. media_type' = media_type /\ adv' = adv /\ requested_mode' = requested_mode
    BY <2>1 DEF setting
  <2>5. ~overlapped => media_type = "copper"
    BY <1>2, <2>1, <2>2 DEF Progress
  <2>6. \/ /\ current_mode' = e1000_config_fc_after_link_up_generic(adv, link.able)
           /\ Goes(c, "duplex")
        \/ /\ Goes(c, "look") /\ current_mode' = current_mode
           /\ ~link.negotiated \/ stale'
    BY <1>4 DEF ConfigFcCopper
  <2>7. CASE /\ current_mode' = e1000_config_fc_after_link_up_generic(adv, link.able)
             /\ Goes(c, "duplex")
    <3>1. current_mode' \in Modes
      BY <2>7, ConfigTyped
    <3>2. current_mode' = e1000_config_fc_after_link_up_generic(adv, link.able)'
      BY <2>1, <2>4, <2>7 DEF e1000_config_fc_after_link_up_generic
    <3>3. check'[c].at = "duplex" => (~overlapped => Progress(c)')
      BY <2>4, <2>5, <3>2 DEF Progress, At
    <3>4. QED
      BY <1>1, <1>3, <2>1, <2>2, <2>3, <2>7, <3>1, <3>3, MoveOfCheck
  <2>8. CASE /\ Goes(c, "look") /\ current_mode' = current_mode
             /\ ~link.negotiated \/ stale'
    <3>1. ~stale' => Settled'
      BY <2>1, <2>8 DEF Settled
    <3>2. check'[c].at = "look" => (~overlapped => Progress(c)')
      BY <3>1 DEF Progress, At
    <3>3. QED
      BY <1>1, <1>3, <2>1, <2>2, <2>3, <2>8, <3>2, MoveOfCheck
  <2>9. QED
    BY <2>6, <2>7, <2>8
<1>5. CASE ConfigFcDuplex(c)
  <2>1. At(c, "duplex") /\ CTRL' = e1000_force_mac_fc_generic(current_mode')
        /\ current_mode' = (IF HalfDuplex THEN "none" ELSE current_mode) /\ Goes(c, "look")
        /\ UNCHANGED <<setting, stage, link, pending, changes, reported, get_link_status, stale,
                       overlapped>>
    BY <1>5 DEF ConfigFcDuplex, wire
  <2>2. ~At(c, "idle")
    BY <2>1 DEF At
  <2>3. current_mode' \in Modes
    BY <1>1, <1>3, <2>1
  <2>4. CTRL' \subseteq {"TFCE", "RFCE"}
    BY <2>1, <2>3, ForceTyped
  <2>5. ~overlapped /\ ~pending /\ ~stale => current_mode' = Agreed
    BY <1>2, <2>1, <2>2 DEF Progress, Agreed
  <2>6. Agreed' = Agreed
    BY <2>1, AgreedKept
  <2>7. ~overlapped /\ ~pending' /\ ~stale' => Settled'
    BY <2>1, <2>5, <2>6 DEF Settled, e1000_force_mac_fc_generic
  <2>8. check'[c].at = "look" => (~overlapped => Progress(c)')
    BY <2>7 DEF Progress, At
  <2>9. QED
    BY <1>1, <1>3, <2>1, <2>2, <2>3, <2>4, <2>8, MoveOfCheck
<1>6. CASE e1000_check_for_link_82575(c)
  <2>1. At(c, "serdes_flow_control") /\ Goes(c, "look")
        /\ UNCHANGED <<setting, stage, link, pending, changes, reported, get_link_status, stale,
                       overlapped>>
    BY <1>6 DEF e1000_check_for_link_82575, wire
  <2>2. ~At(c, "idle")
    BY <2>1 DEF At
  <2>3. CASE link.negotiated
    <3>1. current_mode' = ConfigFcSerdes(adv, link.able)
          /\ CTRL' = e1000_force_mac_fc_generic(current_mode')
      BY <1>6, <2>3 DEF e1000_check_for_link_82575
    <3>2. current_mode' \in Modes
      BY <3>1, ConfigTyped
    <3>3. CTRL' \subseteq {"TFCE", "RFCE"}
      BY <3>1, <3>2, ForceTyped
    <3>4. ~overlapped => current_mode' = Agreed
      BY <1>2, <2>1, <2>2, <3>1 DEF Progress, Agreed
    <3>5. ~overlapped => Settled'
      BY <2>1, <3>1, <3>4, AgreedKept DEF Settled, e1000_force_mac_fc_generic
    <3>6. check'[c].at = "look" => (~overlapped => Progress(c)')
      BY <3>5 DEF Progress, At
    <3>7. QED
      BY <1>1, <1>3, <2>1, <2>2, <3>2, <3>3, <3>6, MoveOfCheck
  <2>4. CASE ~link.negotiated
    <3>1. UNCHANGED <<current_mode, CTRL>>
      BY <1>6, <2>4 DEF e1000_check_for_link_82575
    <3>2. Settled'
      BY <2>1, <2>4 DEF Settled
    <3>3. check'[c].at = "look" => (~overlapped => Progress(c)')
      BY <3>2 DEF Progress, At
    <3>4. QED
      BY <1>1, <1>3, <2>1, <2>2, <3>1, <3>3, MoveOfCheck
  <2>5. QED
    BY <2>3, <2>4
<1>7. QED
  BY <1>4, <1>5, <1>6

LEMMA CausesCleared == LinkInvariant /\ ClearCauses => LinkInvariant'
<1> SUFFICES ASSUME LinkInvariant, ClearCauses PROVE LinkInvariant'
  OBVIOUS
<1> DEFINE c == "D0Entry"
<1>1. /\ At(c, "clear_causes") /\ Goes(c, "check") /\ c \in Checks
      /\ UNCHANGED <<setting, stage, link, changes, current_mode, CTRL, reported,
                     get_link_status, overlapped>>
  BY DEF ClearCauses, Checks
<1>2. ~At(c, "idle")
  BY <1>1 DEF At
<1>3. current_mode \in Modes /\ get_link_status \in BOOLEAN /\ CTRL \subseteq {"TFCE", "RFCE"}
  BY DEF LinkInvariant, Typed
<1>4. ~overlapped => Progress(c)
  BY <1>1, <1>2, TheOnlyCheck
<1>5. ~overlapped => get_link_status
  BY <1>1, <1>4 DEF Progress
<1>6. check'[c].at = "check" => (~overlapped => Progress(c)')
  BY <1>1, <1>5 DEF Progress, At
<1>7. "check" \in Places \ {"idle"}
  BY DEF Places
<1> HIDE DEF c
<1>8. QED
  BY <1>1, <1>2, <1>3, <1>6, <1>7, MoveOfCheck

LEMMA CheckDecides ==
    ASSUME LinkInvariant, NEW c \in Checks, IgbCheckLinkStatus(c)
    PROVE  LinkInvariant'
<1> DEFINE say == IF get_link_status THEN Unknown
                  ELSE [up |-> TRUE, full |-> link.full, pause |-> current_mode]
           state == [at |-> "tell", say |-> say]
<1>1. /\ At(c, "look")
      /\ UNCHANGED <<setting, stage, link, pending, changes, current_mode, CTRL, reported,
                     get_link_status, stale, overlapped>>
  BY DEF IgbCheckLinkStatus, wire
<1>2. check' = [check EXCEPT ![c] = state]
  BY DEF IgbCheckLinkStatus, Report
<1>3. ~At(c, "idle")
  BY <1>1 DEF At
<1>4. current_mode \in Modes /\ get_link_status \in BOOLEAN /\ CTRL \subseteq {"TFCE", "RFCE"}
      /\ link.full \in BOOLEAN /\ check \in [Checks -> [at : Places, say : Saying]]
  BY DEF LinkInvariant, Typed, LinkType
<1>5. Unknown \in Saying
  BY DEF Unknown, Saying, Modes
<1>6. [up |-> TRUE, full |-> link.full, pause |-> current_mode] \in Saying
  BY <1>4 DEF Saying
<1>7. say \in Saying
  BY <1>5, <1>6
<1>8. state \in [at : Places \ {"idle"}, say : Saying] /\ state.at = "tell"
  BY <1>7 DEF Places
<1>9. ~overlapped => Progress(c)
  BY <1>3, TheOnlyCheck
<1>10. ~overlapped /\ ~pending /\ ~stale => Settled
  BY <1>1, <1>9 DEF Progress
<1>11. ~overlapped /\ ~pending' /\ ~stale' => Settled'
  BY <1>1, <1>10, SettledKept
<1>12. check'[c].at = "tell"
  BY <1>2, <1>4, <1>8
<1>13. ~overlapped => Progress(c)'
  BY <1>11, <1>12 DEF Progress, At
<1> HIDE DEF state
<1>14. QED
  BY <1>1, <1>2, <1>3, <1>4, <1>8, <1>13, StepOfCheck

LEMMA CheckEnds ==
    ASSUME LinkInvariant, NEW c \in Checks, NetAdapterSetLinkState(c)
    PROVE  LinkInvariant'
<1>1. /\ At(c, "tell") /\ reported' = check[c].say /\ check' = [check EXCEPT ![c] = Idle]
      /\ UNCHANGED <<setting, stage, link, pending, changes, current_mode, CTRL,
                     get_link_status, stale, overlapped>>
  BY DEF NetAdapterSetLinkState, wire
<1>2. ~At(c, "idle")
  BY <1>1 DEF At
<1>3. check \in [Checks -> [at : Places, say : Saying]] /\ Idle \in [at : Places, say : Saying]
  BY DEF LinkInvariant, Typed, Idle, Unknown, Places, Saying, Modes
<1>4. /\ check' \in [Checks -> [at : Places, say : Saying]] /\ check'[c].at = "idle"
      /\ \A d \in Checks : d # c => check'[d] = check[d]
      /\ check[c].say \in Saying
  BY <1>1, <1>3 DEF Idle
<1>5. Running' = Running \ {c}
  BY <1>4 DEF Running, At
<1>6. stage = "D0" /\ (~overlapped => Progress(c) /\ \A d \in Checks : d # c => At(d, "idle"))
  BY <1>2, TheOnlyCheck
<1>7. Links' = Links
  BY <1>1, LinksKept DEF setting
<1>8. Typed'
  BY <1>1, <1>4, <1>7 DEF LinkInvariant, Typed, setting
<1>9. RunsInD0' /\ RunsAlone'
  BY <1>1, <1>5, <1>6 DEF LinkInvariant, RunsInD0, RunsAlone
<1>10. ChecksProgress'
  <2> SUFFICES ASSUME ~overlapped', NEW d \in Checks PROVE Progress(d)'
    BY DEF ChecksProgress
  <2>1. check'[d].at = "idle"
    BY <1>1, <1>4, <1>6 DEF At
  <2>2. QED
    BY <2>1 DEF Progress, At
<1>11. IdleIsSettled'
  <2>1. ~overlapped /\ ~pending /\ ~stale => Settled
    BY <1>1, <1>6 DEF Progress
  <2>2. QED
    BY <1>1, <2>1, SettledKept DEF IdleIsSettled, Quiet
<1>12. Prepared'
  BY <1>1, <1>6 DEF LinkInvariant, Prepared, setting
<1>13. QED
  BY <1>8, <1>9, <1>10, <1>11, <1>12 DEF LinkInvariant

LEMMA CheckBegins ==
    ASSUME LinkInvariant, NEW c \in Checks, NEW place \in {"clear_causes", "check"},
           Goes(c, place), Begins(c), stage \in {"D3", "D0"}, stage' = "D0",
           UNCHANGED <<setting, link, changes, current_mode, CTRL, reported>>
    PROVE  LinkInvariant'
<1> DEFINE state == [check[c] EXCEPT !.at = place]
<1>1. check \in [Checks -> [at : Places, say : Saying]]
  BY DEF LinkInvariant, Typed
<1>2. check' = [check EXCEPT ![c] = state]
  BY DEF Goes
<1>3. check[c] \in [at : Places, say : Saying] /\ place \in Places
  BY <1>1 DEF Places
<1>4. state \in [at : Places, say : Saying] /\ state.at = place
  BY <1>3
<1>5. /\ check' \in [Checks -> [at : Places, say : Saying]] /\ check'[c].at = place
      /\ \A d \in Checks : d # c => check'[d] = check[d]
  BY <1>1, <1>2, <1>4
<1>6. Running' = Running \cup {c}
  BY <1>5 DEF Running, At
<1>7. get_link_status' = TRUE /\ (~overlapped' => Running = {})
  BY DEF Begins
<1>8. Links' = Links
  BY LinksKept DEF setting
<1>9. Typed'
  BY <1>5, <1>7, <1>8 DEF LinkInvariant, Typed, setting
<1>10. RunsInD0' /\ RunsAlone' /\ IdleIsSettled'
  BY <1>6, <1>7 DEF RunsInD0, RunsAlone, IdleIsSettled, Quiet
<1>11. ChecksProgress'
  <2> SUFFICES ASSUME ~overlapped', NEW d \in Checks PROVE Progress(d)'
    BY DEF ChecksProgress
  <2>1. CASE d = c
    BY <1>5, <1>7, <2>1 DEF Progress, At
  <2>2. CASE d # c
    <3>1. check'[d].at = "idle"
      BY <1>5, <1>7, <2>2 DEF Running, At
    <3>2. QED
      BY <3>1 DEF Progress, At
  <2>3. QED
    BY <2>1, <2>2
<1>12. Prepared'
  BY DEF LinkInvariant, Prepared, setting
<1>13. QED
  BY <1>9, <1>10, <1>11, <1>12 DEF LinkInvariant
-----------------------------------------------------------------------------
(* Set-up, power and the partner. *)

(* A step while no check runs, and after which none has anything to go by: *)
(* the device is not at work, or the partner has just changed.             *)
LEMMA NothingSettled ==
    ASSUME LinkInvariant, check' = check, overlapped' = overlapped,
           stage' # "D0" \/ (pending' /\ stage' = stage /\ get_link_status' = get_link_status
                               /\ media_type' = media_type),
           stage' # "D0" => Running = {},
           Typed', Prepared'
    PROVE  LinkInvariant'
<1>1. Running' = Running
  BY DEF Running, At
<1>2. RunsInD0' /\ RunsAlone'
  BY <1>1 DEF LinkInvariant, RunsInD0, RunsAlone
<1>3. IdleIsSettled'
  BY DEF IdleIsSettled, Quiet
<1>4. ChecksProgress'
  <2> SUFFICES ASSUME ~overlapped', NEW d \in Checks PROVE Progress(d)'
    BY DEF ChecksProgress
  <2>1. CASE stage' # "D0"
    <3>1. check'[d].at = "idle"
      BY <2>1 DEF Running, At
    <3>2. QED
      BY <3>1 DEF Progress, At
  <2>2. CASE pending' /\ get_link_status' = get_link_status /\ media_type' = media_type
    <3>1. Progress(d)
      BY DEF LinkInvariant, ChecksProgress
    <3>2. QED
      BY <2>2, <3>1 DEF Progress, At
  <2>3. QED
    BY <2>1, <2>2
<1>5. QED
  BY <1>2, <1>3, <1>4 DEF LinkInvariant

LEMMA DefaultTyped ==
    ASSUME Typed, NEW mode \in e1000_set_default_fc_generic
    PROVE  mode \in Modes
BY DEF Typed, e1000_set_default_fc_generic, Modes

LEMMA SetupTyped ==
    ASSUME NEW mode \in Modes
    PROVE  /\ e1000_phy_setup_autoneg(mode) \subseteq Abilities
           /\ PCS_ANADV(mode) \subseteq Abilities
           /\ e1000_phy_setup_autoneg(mode) = {"ASM_DIR"} => mode = "tx_pause"
           /\ PCS_ANADV(mode) = {"ASM_DIR"} => mode = "tx_pause"
<1>1. mode = "none" \/ mode = "rx_pause" \/ mode = "tx_pause" \/ mode = "full"
  BY DEF Modes
<1>2. {"ASM_DIR"} # Abilities /\ {"ASM_DIR"} # {} /\ {"ASM_DIR"} \subseteq Abilities
  BY DEF Abilities
<1>3. CASE mode = "none"
  BY <1>2, <1>3 DEF e1000_phy_setup_autoneg, PCS_ANADV
<1>4. CASE mode = "rx_pause"
  BY <1>2, <1>4 DEF e1000_phy_setup_autoneg, PCS_ANADV
<1>5. CASE mode = "tx_pause"
  BY <1>2, <1>5 DEF e1000_phy_setup_autoneg, PCS_ANADV
<1>6. CASE mode = "full"
  BY <1>2, <1>6 DEF e1000_phy_setup_autoneg, PCS_ANADV
<1>7. QED
  BY <1>1, <1>3, <1>4, <1>5, <1>6

LEMMA SetupBegins == LinkInvariant /\ e1000_setup_link_generic => LinkInvariant'
<1> SUFFICES ASSUME LinkInvariant, e1000_setup_link_generic PROVE LinkInvariant'
  OBVIOUS
<1>1. Typed /\ stage = "reset" /\ Running = {} /\ adv = {}
  BY DEF LinkInvariant, RunsInD0, Prepared, e1000_setup_link_generic
<1>2. PICK mode \in e1000_set_default_fc_generic :
        /\ requested_mode' = mode /\ current_mode' = mode
        /\ IF media_type = "copper" THEN e1000_setup_copper_link_82575(mode)
                                    ELSE e1000_setup_serdes_link_82575(mode)
  BY DEF e1000_setup_link_generic
<1>3. mode \in Modes
  BY <1>1, DefaultTyped
<1>4. /\ get_link_status' = (media_type = "copper") /\ stage' = "set_up"
      /\ UNCHANGED <<media_type, autoneg, watermarks, link, changes, check, reported, overlapped,
                     unset>>
  BY DEF e1000_setup_link_generic, wire
<1>5. \/ adv' = e1000_phy_setup_autoneg(mode) /\ CTRL' = CTRL
      \/ adv' = PCS_ANADV(mode) /\ CTRL' = CTRL
      \/ adv' = adv /\ CTRL' = e1000_force_mac_fc_generic(mode)
  BY <1>2 DEF e1000_setup_copper_link_82575, e1000_setup_serdes_link_82575
<1>6. adv' \subseteq Abilities /\ (adv' = {"ASM_DIR"} => mode = "tx_pause")
  BY <1>1, <1>3, <1>5, SetupTyped
<1>7. CTRL' \subseteq {"TFCE", "RFCE"}
  <2>1. e1000_force_mac_fc_generic(mode) \subseteq {"TFCE", "RFCE"}
    BY <1>3, ForceTyped
  <2>2. CTRL \subseteq {"TFCE", "RFCE"}
    BY <1>1 DEF Typed
  <2>3. QED
    BY <1>5, <2>1, <2>2
<1>8. Links' = Links
  BY <1>4, LinksKept
<1>9. Typed'
  BY <1>1, <1>2, <1>3, <1>4, <1>6, <1>7, <1>8 DEF Typed
<1>10. Prepared'
  BY <1>2, <1>4, <1>6 DEF Prepared
<1>11. QED
  BY <1>1, <1>4, <1>9, <1>10, NothingSettled

LEMMA SetupFails == LinkInvariant /\ SetupStops => LinkInvariant'
<1> SUFFICES ASSUME LinkInvariant, SetupStops PROVE LinkInvariant'
  OBVIOUS
<1>1. Typed /\ Running = {}
  BY DEF LinkInvariant, RunsInD0, SetupStops
<1>2. /\ unset' = TRUE /\ stage' = "D3"
      /\ UNCHANGED <<media_type, autoneg, get_link_status, watermarks, link, changes, check,
                     reported, overlapped>>
  BY DEF SetupStops, wire
<1>3. /\ requested_mode \in Modes \cup {"default"} /\ current_mode \in Modes
      /\ adv \subseteq Abilities /\ CTRL \subseteq {"TFCE", "RFCE"}
  BY <1>1 DEF Typed
<1>4. /\ requested_mode' \in Modes \cup {"default"} /\ current_mode' \in Modes
      /\ adv' \subseteq Abilities /\ CTRL' \subseteq {"TFCE", "RFCE"}
  <2>1. CASE adv' \in OwnChoice /\ UNCHANGED <<requested_mode, current_mode, CTRL>>
    BY <1>3, <2>1 DEF OwnChoice
  <2>2. CASE /\ adv' \in OwnChoice /\ UNCHANGED CTRL
             /\ requested_mode' \in e1000_set_default_fc_generic
             /\ current_mode' = requested_mode'
    <3>1. requested_mode' \in Modes
      BY <1>1, <2>2, DefaultTyped
    <3>2. QED
      BY <1>3, <2>2, <3>1 DEF OwnChoice
  <2>3. CASE /\ CTRL' = CTRL \/ CTRL' = e1000_force_mac_fc_generic(current_mode)
             /\ UNCHANGED <<requested_mode, current_mode, adv>>
    BY <1>3, <2>3, ForceTyped
  <2>4. QED
    BY <2>1, <2>2, <2>3 DEF SetupStops
<1>5. Links \subseteq Links' /\ Down' = Down
  BY <1>2, LinksGrow DEF Down
<1>6. Typed'
  BY <1>1, <1>2, <1>4, <1>5 DEF Typed
<1>7. unset' /\ stage' # "reset"
  BY <1>2
<1>8. Prepared'
  BY <1>2, <1>7 DEF Prepared
<1>9. QED
  BY <1>1, <1>2, <1>6, <1>8, NothingSettled

LEMMA SetupCompletes == LinkInvariant /\ SetupEnds => LinkInvariant'
<1> SUFFICES ASSUME LinkInvariant, SetupEnds PROVE LinkInvariant'
  OBVIOUS
<1> DEFINE agreed == IF HalfDuplex THEN "none"
                     ELSE e1000_config_fc_after_link_up_generic(adv, link.able)
<1>1. Typed /\ Prepared /\ stage = "set_up" /\ Running = {}
  BY DEF LinkInvariant, RunsInD0, SetupEnds
<1>2. /\ watermarks' = e1000_set_fc_watermarks_generic(current_mode') /\ stage' = "D3"
      /\ UNCHANGED <<media_type, autoneg, requested_mode, adv, get_link_status, link, changes,
                     check, reported, overlapped>>
  BY DEF SetupEnds, wire
<1>3. \/ /\ current_mode' = IF link.negotiated THEN agreed ELSE current_mode
         /\ CTRL' = e1000_force_mac_fc_generic(current_mode') /\ unset' = TRUE
      \/ UNCHANGED <<current_mode, CTRL, unset>>
  BY DEF SetupEnds
<1>4. agreed \in Modes
  BY ConfigTyped DEF Modes
<1> HIDE DEF agreed
<1>5. current_mode' \in Modes
  BY <1>1, <1>3, <1>4 DEF Typed
<1>6. CTRL' \subseteq {"TFCE", "RFCE"}
  <2>1. e1000_force_mac_fc_generic(current_mode') \subseteq {"TFCE", "RFCE"}
    BY <1>5, ForceTyped
  <2>2. CTRL \subseteq {"TFCE", "RFCE"}
    BY <1>1 DEF Typed
  <2>3. QED
    BY <1>3, <2>1, <2>2
<1>7. Links \subseteq Links' /\ Down' = Down
  BY <1>2, <1>3, LinksGrow DEF Down
<1>8. watermarks' \in BOOLEAN
  BY <1>2 DEF e1000_set_fc_watermarks_generic
<1>9. Typed'
  BY <1>1, <1>2, <1>5, <1>6, <1>7, <1>8 DEF Typed
<1>10. ~unset' => current_mode' = current_mode /\ ~unset
  BY <1>3
<1>11. Prepared'
  BY <1>1, <1>2, <1>10 DEF Prepared, e1000_set_fc_watermarks_generic
<1>12. QED
  BY <1>1, <1>2, <1>9, <1>11, NothingSettled

LEMMA LinksTyped == ASSUME NEW new \in Links PROVE new \in LinkType
<1>1. ASSUME NEW negotiates, NEW fulls \in SUBSET BOOLEAN,
             new \in Partners(negotiates, fulls)
      PROVE  new \in LinkType
  <2> DEFINE every == [up : {TRUE}, able : SUBSET Abilities, full : fulls,
                       negotiated : {TRUE}]
             full == (fulls = {TRUE})
             found == [Down EXCEPT !.up = TRUE, !.full = full]
             single == {found}
  <2>1. Partners(negotiates, fulls) = IF negotiates THEN every ELSE single
    BY DEF Partners
  <2>2. full \in BOOLEAN
    OBVIOUS
  <2> HIDE DEF full
  <2>3. found \in LinkType
    BY <2>2 DEF Down, LinkType
  <2> HIDE DEF found
  <2>4. every \subseteq LinkType /\ single \subseteq LinkType
    BY <2>3 DEF LinkType
  <2> HIDE DEF every, single
  <2>5. QED
    BY <1>1, <2>1, <2>4
<1>2. CASE media_type = "copper"
  <2>1. new \in Partners(TRUE, BOOLEAN) \/ new \in Partners(FALSE, BOOLEAN)
    BY <1>2 DEF Links
  <2>2. QED
    BY <1>1, <2>1
<1>3. CASE media_type # "copper"
  <2>1. \E negotiates : new \in Partners(negotiates, {TRUE})
    BY <1>3 DEF Links
  <2>2. {TRUE} \in SUBSET BOOLEAN
    OBVIOUS
  <2>3. QED
    BY <1>1, <2>1, <2>2
<1>4. QED
  BY <1>2, <1>3

LEMMA OneMoreChange ==
    ASSUME Typed, changes < MaxChanges, changes' = changes + 1
    PROVE  changes' \in 0 .. MaxChanges
BY LinkAssumption DEF Typed

LEMMA PowerLost == LinkInvariant /\ LosesPower => LinkInvariant'
<1> SUFFICES ASSUME LinkInvariant, LosesPower PROVE LinkInvariant'
  OBVIOUS
<1>1. Typed /\ Running = {} /\ changes' \in 0 .. MaxChanges
  BY OneMoreChange DEF LinkInvariant, LosesPower
<1>2. /\ stage' = "D3" /\ unset' = TRUE /\ CTRL' = {} /\ watermarks' = FALSE
      /\ UNCHANGED <<media_type, autoneg, requested_mode, check, current_mode, reported,
                     get_link_status, overlapped>>
  BY DEF LosesPower
<1>3. adv' \subseteq Abilities /\ (link' = link \/ link' = Down)
  BY <1>1 DEF LosesPower, OwnChoice, Typed
<1>4. Links \subseteq Links' /\ Down' = Down
  BY <1>2, LinksGrow DEF Down
<1>5. Down \in LinkType
  BY DEF Down, LinkType
<1>6. Typed'
  BY <1>1, <1>2, <1>3, <1>4, <1>5 DEF Typed
<1>7. unset' /\ stage' # "reset"
  BY <1>2
<1>8. Prepared'
  BY <1>7 DEF Prepared
<1>9. QED
  BY <1>1, <1>2, <1>6, <1>8, NothingSettled

LEMMA PartnerChanges == LinkInvariant /\ LinkChanges => LinkInvariant'
<1> SUFFICES ASSUME LinkInvariant, LinkChanges PROVE LinkInvariant'
  OBVIOUS
<1>1. Typed /\ Prepared /\ changes' \in 0 .. MaxChanges
  BY OneMoreChange DEF LinkInvariant, LinkChanges
<1>2. /\ UNCHANGED <<setting, stage, check, current_mode, CTRL, reported, get_link_status,
                     overlapped>>
      /\ pending' = TRUE /\ (link' = Down \/ link' \in Links)
  BY DEF LinkChanges
<1>3. Links' = Links /\ Down' = Down
  BY <1>2, LinksKept DEF setting, Down
<1>4. link' \in LinkType
  <2>1. Down \in LinkType
    BY DEF Down, LinkType
  <2>2. \A new \in Links : new \in LinkType
    BY LinksTyped
  <2>3. QED
    BY <1>2, <2>1, <2>2
<1>5. Typed'
  BY <1>1, <1>2, <1>3, <1>4 DEF Typed, setting
<1>6. Prepared'
  BY <1>1, <1>2 DEF Prepared, setting
<1>7. stage' # "D0" => Running = {}
  BY <1>2 DEF LinkInvariant, RunsInD0
<1>8. media_type' = media_type /\ pending'
  BY <1>2 DEF setting
<1>9. QED
  BY <1>2, <1>5, <1>6, <1>7, <1>8, NothingSettled
-----------------------------------------------------------------------------
LEMMA HoldsAtFirst == LinkInit => LinkInvariant
<1> SUFFICES ASSUME LinkInit PROVE LinkInvariant
  OBVIOUS
<1>1. /\ stage = "reset" /\ link = Down /\ check = [c \in Checks |-> Idle] /\ adv = {}
      /\ reported = Unknown /\ changes = 0 /\ current_mode = "none"
      /\ get_link_status = FALSE /\ watermarks = FALSE /\ CTRL = {}
      /\ requested_mode \in Modes \cup {"default"}
      /\ media_type \in {"copper", "internal_serdes"}
  BY DEF LinkInit
<1>2. Idle \in [at : Places, say : Saying] /\ Unknown \in Saying /\ Idle.at = "idle"
  BY DEF Idle, Unknown, Places, Saying, Modes
<1>3. Down \in LinkType
  BY DEF Down, LinkType
<1>4. Typed
  <2>1. get_link_status \in BOOLEAN /\ watermarks \in BOOLEAN
    BY <1>1, Zenon
  <2>5. changes \in 0 .. MaxChanges
    BY <1>1, LinkAssumption
  <2>2. check \in [Checks -> [at : Places, say : Saying]]
    BY <1>1, <1>2
  <2>3. current_mode \in Modes /\ adv \subseteq Abilities /\ CTRL \subseteq {"TFCE", "RFCE"}
    BY <1>1 DEF Modes
  <2>4. QED
    BY <1>1, <1>2, <1>3, <2>1, <2>2, <2>3, <2>5 DEF Typed
<1>5. Running = {}
  BY <1>1, <1>2 DEF Running, At
<1>6. RunsInD0 /\ RunsAlone /\ IdleIsSettled /\ Prepared
  BY <1>1, <1>5 DEF RunsInD0, RunsAlone, IdleIsSettled, Quiet, Prepared
<1>7. ASSUME NEW c \in Checks PROVE Progress(c)
  <2>1. check[c].at = "idle"
    BY <1>1, <1>2
  <2>2. QED
    BY <2>1 DEF Progress, At
<1>8. QED
  BY <1>4, <1>6, <1>7 DEF LinkInvariant, ChecksProgress

LEMMA HoldsStill == LinkInvariant /\ UNCHANGED linkVars => LinkInvariant'
<1> SUFFICES ASSUME LinkInvariant, UNCHANGED linkVars PROVE LinkInvariant'
  OBVIOUS
<1>1. UNCHANGED <<setting, link, current_mode, CTRL, get_link_status, stage, check, reported,
                  changes, pending, stale, overlapped>>
  BY DEF linkVars, setting
<1>2. Links' = Links
  BY <1>1, LinksKept DEF setting
<1>3. Settled' <=> Settled
  BY <1>1, SettledKept
<1>4. Running' = Running
  BY <1>1 DEF Running, At
<1>5. Typed' /\ Prepared'
  BY <1>1, <1>2 DEF LinkInvariant, Typed, Prepared, setting
<1>6. RunsInD0' /\ RunsAlone' /\ IdleIsSettled'
  BY <1>1, <1>3, <1>4 DEF LinkInvariant, RunsInD0, RunsAlone, IdleIsSettled, Quiet
<1>7. ASSUME NEW c \in Checks, Progress(c) PROVE Progress(c)'
  BY <1>1, <1>3, <1>7 DEF Progress, At, setting, e1000_config_fc_after_link_up_generic
<1>8. QED
  BY <1>1, <1>5, <1>6, <1>7 DEF LinkInvariant, ChecksProgress

LEMMA HoldsAfter == LinkInvariant /\ [LinkNext]_linkVars => LinkInvariant'
<1> SUFFICES ASSUME LinkInvariant, [LinkNext]_linkVars PROVE LinkInvariant'
  OBVIOUS
<1>1. CASE IgbResetLink
  <2> DEFINE c == "D0Entry"
  <2>1. /\ c \in Checks /\ Goes(c, "clear_causes") /\ Begins(c) /\ stage = "D3" /\ stage' = "D0"
        /\ UNCHANGED <<setting, link, changes, current_mode, CTRL, reported>>
    BY <1>1 DEF IgbResetLink, Checks, wire
  <2> HIDE DEF c
  <2>2. QED
    BY <2>1, CheckBegins
<1>2. ASSUME NEW c \in DPCs, EvtInterruptDpc(c) PROVE LinkInvariant'
  <2>1. /\ c \in Checks /\ Goes(c, "check") /\ Begins(c) /\ stage = "D0" /\ stage' = "D0"
        /\ UNCHANGED <<setting, link, changes, current_mode, CTRL, reported>>
    BY <1>2 DEF EvtInterruptDpc, Checks
  <2>2. QED
    BY <2>1, CheckBegins
<1>3. ASSUME NEW c \in Checks, Steps(c) PROVE LinkInvariant'
  BY <1>3, CheckMoves, CheckConfigures, CheckDecides, CheckEnds DEF Steps
<1>4. QED
  BY <1>1, <1>2, <1>3, SetupBegins, SetupFails, SetupCompletes, CausesCleared, PartnerChanges,
     PowerLost, HoldsStill DEF LinkNext

LEMMA LinkAlways == LinkSpec => []LinkInvariant
BY HoldsAtFirst, HoldsAfter, PTL DEF LinkSpec

(* The link's variables have their types. *)
THEOREM TypesHold == LinkSpec => []LinkTypeOK
<1>1. LinkInvariant => LinkTypeOK
  BY DEF LinkInvariant, Typed, LinkTypeOK, Saying
<1>2. QED
  BY <1>1, LinkAlways, PTL

(* However often the link and the power come and go, and however many DPCs *)
(* check it: when the latest check met no failure and no other check, the  *)
(* two stations agree about pause frames.                                  *)
THEOREM StationsAgreeAboutFlow == LinkSpec => []FlowControlAgrees
<1>1. LinkInvariant => FlowControlAgrees
  <2> SUFFICES ASSUME LinkInvariant, Quiet, link.negotiated
               PROVE  /\ "TFCE" \in CTRL => "obeys" \in Partner /\ (watermarks \/ unset)
                      /\ "sends" \in Partner => "RFCE" \in CTRL
    BY DEF FlowControlAgrees
  <2> DEFINE mode == e1000_config_fc_after_link_up_generic(adv, link.able)
  <2>1. /\ adv \in SUBSET Abilities /\ link.able \in SUBSET Abilities /\ stage = "D0"
        /\ media_type \in {"copper", "internal_serdes"}
    BY DEF LinkInvariant, Typed, LinkType, Quiet
  <2>2. link.up /\ (media_type = "internal_serdes" => link.full)
    BY LinkFacts DEF LinkInvariant
  <2>3. Agreed = IF link.full THEN mode ELSE "none"
    <3>1. CASE media_type = "copper"
      BY <2>2, <3>1 DEF Agreed, HalfDuplex
    <3>2. CASE media_type = "internal_serdes"
      BY <2>1, <2>2, <3>2, SerdesAlike DEF Agreed
    <3>3. QED
      BY <2>1, <3>1, <3>2
  <2>4. CTRL = e1000_force_mac_fc_generic(Agreed)
    BY DEF LinkInvariant, IdleIsSettled, Settled
  <2>5. /\ "TFCE" \in CTRL <=> Agreed \in {"tx_pause", "full"}
        /\ "RFCE" \in CTRL <=> Agreed \in {"rx_pause", "full"}
    BY <2>4, AgreedTyped, ForceTyped
  <2>6. /\ mode \in {"tx_pause", "full"} => "obeys" \in Resolution(link.able, adv)
        /\ "sends" \in Resolution(link.able, adv) => mode \in {"rx_pause", "full"}
        /\ mode = "full" => requested_mode = "full"
        /\ mode = "tx_pause" => adv = {"ASM_DIR"}
    BY <2>1, StationsAgree
  <2>7. mode \in {"tx_pause", "full"} => watermarks \/ unset
    BY <2>1, <2>6 DEF LinkInvariant, Prepared
  <2> HIDE DEF mode
  <2>8. CASE link.full
    <3>1. Partner = Resolution(link.able, adv) /\ Agreed = mode
      BY <2>3, <2>8 DEF Partner
    <3>2. QED
      BY <2>5, <2>6, <2>7, <3>1
  <2>9. CASE ~link.full
    <3>1. Partner = {} /\ Agreed = "none"
      BY <2>3, <2>9 DEF Partner
    <3>2. QED
      BY <2>5, <3>1
  <2>10. QED
    BY <2>8, <2>9
<1>2. QED
  BY <1>1, LinkAlways, PTL
=============================================================================
