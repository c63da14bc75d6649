-------------------------------- MODULE Link --------------------------------
(***************************************************************************)
(* The link: its set-up when the hardware is initialised, the check after  *)
(* power-up and after every link interrupt, flow control, and what the     *)
(* driver tells the system (link.cpp, the link functions of e1000_mac.c,   *)
(* e1000_phy.c and e1000_82575.c).                                         *)
(*                                                                         *)
(* A check is a thread of its own: the one of EvtDeviceD0Entry runs alone, *)
(* those of EvtInterruptDpc may overlap. The partner comes and goes with   *)
(* the pause abilities it advertises. Any read of the PHY may fail.        *)
(***************************************************************************)
EXTENDS Naturals

CONSTANTS
    DPCs,        \* the instances of EvtInterruptDpc that may run at once
    MaxChanges   \* bound: how often the link or the power goes up or down

ASSUME LinkAssumption == MaxChanges \in Nat

VARIABLES
    media_type, autoneg,  \* autoneg: whether SerDes negotiates
    requested_mode, current_mode, get_link_status,
    adv,         \* the pause abilities in PHY_AUTONEG_ADV or PCS_ANADV
    CTRL,        \* the bits TFCE and RFCE: pause frames are sent, are obeyed
    watermarks,  \* FCRTL and FCRTH say when to send pause frames
    link,        \* the partner, as far as the link shows it
    latched,     \* PHY_STATUS still shows a link that was down
    pending,     \* the LSC cause is set
    stage,       \* "reset", "set_up", "D3" or "D0"
    check,       \* where every check is, and what it is about to report
    reported,    \* what NetAdapterSetLinkState was told last
    changes,
    stale,       \* history: a read of the latest check failed
    overlapped,  \* history: the latest checks overlapped
    unset        \* history: set-up stopped or met a link, or what it wrote was lost

linkVars == <<media_type, autoneg, requested_mode, current_mode, get_link_status, adv, CTRL,
          watermarks, link, latched, pending, stage, check, reported, changes, stale,
          overlapped, unset>>
wire == <<link, latched, pending, changes>>
setting == <<media_type, autoneg, requested_mode, adv, watermarks, unset>>

Modes == {"none", "rx_pause", "tx_pause", "full"}
Abilities == {"PAUSE", "ASM_DIR"}
Down == [up |-> FALSE, able |-> {}, full |-> FALSE, negotiated |-> FALSE]
(* A copper partner that does not negotiate is found at half duplex. SerDes*)
(* that does negotiate may give up waiting and take the link as it is, and *)
(* when it is not set up it is the chip's choice whether it does.          *)
Partners(negotiates, fulls) ==
    IF negotiates THEN [up : {TRUE}, able : SUBSET Abilities, full : fulls, negotiated : {TRUE}]
                  ELSE {[Down EXCEPT !.up = TRUE, !.full = (fulls = {TRUE})]}
Links == IF media_type = "copper"
           THEN Partners(TRUE, BOOLEAN) \cup Partners(FALSE, BOOLEAN)
           ELSE UNION {Partners(negotiates, {TRUE}) : negotiates \in {FALSE, autoneg \/ unset}}

Unknown == [up |-> FALSE, full |-> FALSE, pause |-> "none"]
Checks == DPCs \cup {"D0Entry"}
Idle == [at |-> "idle", say |-> Unknown]
At(c, place) == check[c].at = place
Goes(c, place) == check' = [check EXCEPT ![c].at = place]
Running == {c \in Checks : ~At(c, "idle")}
-----------------------------------------------------------------------------
(* Flow control. *)

e1000_force_mac_fc_generic(mode) ==
    CASE mode = "none" -> {}
      [] mode = "rx_pause" -> {"RFCE"}
      [] mode = "tx_pause" -> {"TFCE"}
      [] mode = "full" -> {"TFCE", "RFCE"}

e1000_phy_setup_autoneg(mode) ==
    CASE mode = "none" -> {}
      [] mode = "tx_pause" -> {"ASM_DIR"}
      [] OTHER -> Abilities
PCS_ANADV(mode) ==
    CASE mode \in {"full", "rx_pause"} -> Abilities
      [] mode = "tx_pause" -> {"ASM_DIR"}
      [] OTHER -> {}

SendsAnyway(own, partner) ==  \* mutant
    IF "PAUSE" \in own \cap partner THEN "full" ELSE "none"
e1000_config_fc_after_link_up_generic(own, partner) ==
    CASE "PAUSE" \in own \cap partner -> IF requested_mode = "full" THEN "full" ELSE "rx_pause"
      [] own = {"ASM_DIR"} /\ partner = Abilities -> "tx_pause"
      [] own = Abilities /\ partner = {"ASM_DIR"} -> "rx_pause"
      [] OTHER -> "none"

(* The same for SerDes, from PCS_ANADV and PCS_LPAB.                       *)
ConfigFcSerdes(own, partner) ==
    CASE "PAUSE" \in own /\ "PAUSE" \in partner ->
           IF requested_mode = "full" THEN "full" ELSE "rx_pause"
      [] "PAUSE" \notin own /\ "ASM_DIR" \in own /\ Abilities \subseteq partner -> "tx_pause"
      [] Abilities \subseteq own /\ "PAUSE" \notin partner /\ "ASM_DIR" \in partner -> "rx_pause"
      [] OTHER -> "none"

HalfDuplex == link.up /\ ~link.full

DefaultKept == {requested_mode}  \* mutant
e1000_set_default_fc_generic ==
    IF requested_mode = "default" THEN {"none", "tx_pause", "full"} ELSE {requested_mode}

e1000_set_fc_watermarks_generic(mode) == mode \in {"tx_pause", "full"}
-----------------------------------------------------------------------------
(* Set-up, by e1000_init_hw. Its result is not looked at.                  *)

LinkInit ==
    /\ media_type \in {"copper", "internal_serdes"} /\ autoneg \in BOOLEAN
    /\ media_type = "copper" => autoneg
    /\ requested_mode \in Modes \cup {"default"}
    /\ current_mode = "none" /\ get_link_status = FALSE
    /\ adv = {} /\ CTRL = {} /\ watermarks = FALSE
    /\ link = Down /\ latched = TRUE /\ pending = FALSE /\ changes = 0
    /\ stage = "reset" /\ check = [c \in Checks |-> Idle] /\ reported = Unknown
    /\ stale = FALSE /\ overlapped = FALSE /\ unset = FALSE

(* Negotiation starts anew; SerDes without it uses the requested mode.     *)
e1000_setup_copper_link_82575(mode) ==
    adv' = e1000_phy_setup_autoneg(mode) /\ UNCHANGED CTRL
e1000_setup_serdes_link_82575(mode) ==
    IF autoneg THEN adv' = PCS_ANADV(mode) /\ UNCHANGED CTRL
               ELSE CTRL' = e1000_force_mac_fc_generic(mode) /\ UNCHANGED adv

e1000_setup_link_generic ==
    /\ stage = "reset"
    /\ \E mode \in e1000_set_default_fc_generic :
         /\ requested_mode' = mode /\ current_mode' = mode
         /\ IF media_type = "copper" THEN e1000_setup_copper_link_82575(mode)
                                    ELSE e1000_setup_serdes_link_82575(mode)
    /\ get_link_status' = (media_type = "copper")
    /\ stage' = "set_up"
    /\ UNCHANGED <<media_type, autoneg, watermarks, wire, check, reported, stale, overlapped,
                   unset>>

(* The firmware blocks it, or an access to NVM or PHY fails: before the    *)
(* mode is chosen, before it is advertised (NVM_COMPAT over SerDes), or,   *)
(* with copper, after that. What is not set yet is the chip's own choice.  *)
OwnChoice == {{}, Abilities}
SetupStops ==
    /\ \/ /\ stage = "reset" /\ adv' \in OwnChoice
          /\ UNCHANGED <<requested_mode, current_mode, CTRL>>
       \/ /\ stage = "reset" /\ adv' \in OwnChoice
          /\ requested_mode' \in e1000_set_default_fc_generic /\ current_mode' = requested_mode'
          /\ UNCHANGED CTRL
       \/ /\ stage = "set_up" /\ media_type = "copper"
          /\ CTRL' = CTRL \/ (link.up /\ CTRL' = e1000_force_mac_fc_generic(current_mode))
          /\ UNCHANGED <<requested_mode, current_mode, adv>>
    /\ unset' = TRUE /\ stage' = "D3"
    /\ UNCHANGED <<media_type, autoneg, get_link_status, watermarks, wire, check, reported, stale,
                   overlapped>>

(* A copper link that is back within 100 us is configured here, and the    *)
(* watermarks are then set for what the first partner agreed to.           *)
SetupEnds ==
    LET agreed == IF HalfDuplex THEN "none"
                  ELSE e1000_config_fc_after_link_up_generic(adv, link.able)
    IN
    /\ stage = "set_up"
    /\ IF media_type = "copper" /\ link.up
         THEN /\ current_mode' = IF link.negotiated THEN agreed ELSE current_mode
              /\ CTRL' = e1000_force_mac_fc_generic(current_mode')
              /\ unset' = TRUE
         ELSE UNCHANGED <<current_mode, CTRL, unset>>
    /\ watermarks' = e1000_set_fc_watermarks_generic(current_mode')
    /\ stage' = "D3"
    /\ UNCHANGED <<media_type, autoneg, requested_mode, adv, get_link_status, wire, check,
                   reported, stale, overlapped>>
-----------------------------------------------------------------------------
(* Power and interrupts. *)

Begins(c) ==
    /\ get_link_status' = TRUE
    /\ stale' = (stale /\ Running # {}) /\ overlapped' = (Running # {})

(* EvtDeviceD0Entry, up to where IgbResetLink reads ICR.                   *)
IgbResetLink ==
    /\ stage = "D3"
    /\ stage' = "D0" /\ Begins("D0Entry") /\ Goes("D0Entry", "clear_causes")
    /\ UNCHANGED <<setting, wire, current_mode, CTRL, reported>>

ClearCauses ==
    /\ At("D0Entry", "clear_causes")
    /\ pending' = FALSE /\ Goes("D0Entry", "check")
    /\ UNCHANGED <<setting, stage, link, latched, changes, current_mode, CTRL, reported,
                   get_link_status, stale, overlapped>>

(* EvtDeviceD0Exit and what D3 does: the registers are lost and nothing    *)
(* writes them again. A PHY may keep its power, and then the link.         *)
LosesPower ==
    /\ stage = "D0" /\ Running = {} /\ changes < MaxChanges
    /\ stage' = "D3" /\ changes' = changes + 1
    /\ CTRL' = {} /\ watermarks' = FALSE /\ unset' = TRUE
    /\ \/ media_type = "copper" /\ UNCHANGED <<adv, link, latched>>
       \/ adv' \in OwnChoice /\ link' = Down /\ latched' = TRUE
    /\ UNCHANGED <<media_type, autoneg, requested_mode, pending, check, current_mode, reported,
                   get_link_status, stale, overlapped>>

EvtInterruptDpc(c) ==
    /\ stage = "D0" /\ At("D0Entry", "idle") /\ At(c, "idle") /\ pending
    /\ pending' = FALSE /\ Begins(c) /\ Goes(c, "check")
    /\ UNCHANGED <<setting, stage, link, latched, changes, current_mode, CTRL, reported>>
-----------------------------------------------------------------------------
(* IgbCheckLinkStatus: a copper link. *)

(* The link bit stays low until it is read once; the result of the second  *)
(* read counts. If the first one fails the second may show the past.       *)
OneRead == link.up /\ ~latched  \* mutant
TwoReads == link.up

e1000_phy_has_link_generic(c) ==
    /\ At(c, "check") /\ media_type = "copper" /\ get_link_status
    /\ \/ /\ check' = [check EXCEPT ![c].at = IF TwoReads THEN "up" ELSE "look"]
          /\ latched' = ~link.up
          /\ UNCHANGED stale
       \/ /\ check' = [check EXCEPT ![c].at = IF link.up /\ ~latched THEN "up" ELSE "look"]
          /\ latched' = ~link.up /\ stale' = TRUE
       \/ Goes(c, "look") /\ latched' \in {latched, ~link.up} /\ stale' = TRUE
    /\ UNCHANGED <<setting, stage, link, pending, changes, current_mode, CTRL, reported,
                   get_link_status, overlapped>>

(* Nobody asked since the last check found a link.                         *)
NothingToCheck(c) ==
    /\ At(c, "check") /\ media_type = "copper" /\ ~get_link_status
    /\ Goes(c, "look")
    /\ UNCHANGED <<setting, stage, wire, current_mode, CTRL, reported, get_link_status, stale,
                   overlapped>>

e1000_check_for_copper_link_generic(c) ==
    /\ At(c, "up")
    /\ get_link_status' = FALSE /\ Goes(c, "flow_control")
    /\ UNCHANGED <<setting, stage, wire, current_mode, CTRL, reported, stale, overlapped>>

(* What the former link agreed to is set again before the registers are    *)
(* read, and stays when negotiation is not complete or a read fails.       *)
ConfigFcCopper(c) ==
    /\ At(c, "flow_control")
    /\ CTRL' = e1000_force_mac_fc_generic(current_mode)
    /\ \/ /\ link.negotiated
          /\ current_mode' = e1000_config_fc_after_link_up_generic(adv, link.able)
          /\ Goes(c, "duplex") /\ UNCHANGED stale
       \/ ~link.negotiated /\ Goes(c, "look") /\ UNCHANGED <<current_mode, stale>>
       \/ Goes(c, "look") /\ stale' = TRUE /\ UNCHANGED current_mode
    /\ UNCHANGED <<setting, stage, wire, reported, get_link_status, overlapped>>

ConfigFcDuplex(c) ==
    /\ At(c, "duplex")
    /\ current_mode' = IF HalfDuplex THEN "none" ELSE current_mode
    /\ CTRL' = e1000_force_mac_fc_generic(current_mode')
    /\ Goes(c, "look")
    /\ UNCHANGED <<setting, stage, wire, reported, get_link_status, stale, overlapped>>
-----------------------------------------------------------------------------
(* IgbCheckLinkStatus: SerDes, and the report. *)

e1000_get_pcs_speed_and_duplex_82575(c) ==
    /\ At(c, "check") /\ media_type = "internal_serdes"
    /\ get_link_status' = ~link.up
    /\ Goes(c, "serdes_flow_control")
    /\ UNCHANGED <<setting, stage, wire, current_mode, CTRL, reported, stale, overlapped>>

e1000_check_for_link_82575(c) ==
    /\ At(c, "serdes_flow_control")
    /\ IF link.negotiated
         THEN /\ current_mode' = ConfigFcSerdes(adv, link.able)
              /\ CTRL' = e1000_force_mac_fc_generic(current_mode')
         ELSE UNCHANGED <<current_mode, CTRL>>
    /\ Goes(c, "look")
    /\ UNCHANGED <<setting, stage, wire, reported, get_link_status, stale, overlapped>>

Report(c, say) == check' = [check EXCEPT ![c] = [at |-> "tell", say |-> say]]
IgbCheckLinkStatus(c) ==
    /\ At(c, "look")
    /\ Report(c, IF get_link_status THEN Unknown
                 ELSE [up |-> TRUE, full |-> link.full, pause |-> current_mode])
    /\ UNCHANGED <<setting, stage, wire, current_mode, CTRL, reported, get_link_status, stale,
                   overlapped>>

NetAdapterSetLinkState(c) ==
    /\ At(c, "tell")
    /\ reported' = check[c].say
    /\ check' = [check EXCEPT ![c] = Idle]
    /\ UNCHANGED <<setting, stage, wire, current_mode, CTRL, get_link_status, stale, overlapped>>
-----------------------------------------------------------------------------
(* The partner. *)

LinkChanges ==
    /\ stage # "reset" /\ changes < MaxChanges
    /\ link' \in (IF link.up THEN {Down} ELSE Links)
    /\ latched' = (latched \/ ~link'.up)
    /\ pending' = TRUE /\ changes' = changes + 1
    /\ UNCHANGED <<setting, stage, check, current_mode, CTRL, reported, get_link_status, stale,
                   overlapped>>

Steps(c) ==
    \/ e1000_phy_has_link_generic(c) \/ NothingToCheck(c)
    \/ e1000_check_for_copper_link_generic(c) \/ ConfigFcCopper(c) \/ ConfigFcDuplex(c)
    \/ e1000_get_pcs_speed_and_duplex_82575(c) \/ e1000_check_for_link_82575(c)
    \/ IgbCheckLinkStatus(c) \/ NetAdapterSetLinkState(c)

LinkNext ==
    \/ e1000_setup_link_generic \/ SetupStops \/ SetupEnds
    \/ IgbResetLink \/ ClearCauses \/ LosesPower
    \/ \E c \in DPCs : EvtInterruptDpc(c)
    \/ \E c \in Checks : Steps(c)
    \/ LinkChanges

(* A check that began goes on, and an interrupt that is raised leads to a  *)
(* DPC (see Interrupt).                                                    *)
Fairness ==
    /\ WF_linkVars(ClearCauses) /\ WF_linkVars(\E c \in DPCs : EvtInterruptDpc(c))
    /\ \A c \in Checks : WF_linkVars(Steps(c))

LinkSpec == LinkInit /\ [][LinkNext]_linkVars /\ Fairness
-----------------------------------------------------------------------------
(* Properties. *)

LinkTypeOK ==
    /\ requested_mode \in Modes \cup {"default"} /\ current_mode \in Modes
    /\ get_link_status \in BOOLEAN /\ watermarks \in BOOLEAN
    /\ adv \subseteq Abilities /\ CTRL \subseteq {"TFCE", "RFCE"}
    /\ link = Down \/ link \in Links
    /\ reported \in [up : BOOLEAN, full : BOOLEAN, pause : Modes]
    /\ changes \in 0 .. MaxChanges

(* What IEEE 802.3 (table 28B-3) makes a station do.                       *)
Resolution(own, other) ==
    CASE "PAUSE" \in own \cap other -> {"sends", "obeys"}
      [] own = {"ASM_DIR"} /\ other = Abilities -> {"sends"}
      [] own = Abilities /\ other = {"ASM_DIR"} -> {"obeys"}
      [] OTHER -> {}
Partner == IF link.full THEN Resolution(link.able, adv) ELSE {}

Quiet == stage = "D0" /\ Running = {} /\ ~pending /\ ~stale /\ ~overlapped

(* Whatever links there were before, whatever was requested, however often *)
(* the device slept and wherever its set-up stopped: once a link whose     *)
(* partner negotiates is checked, pause frames are sent only to a partner  *)
(* that obeys them, and those it may send are obeyed. The watermarks that  *)
(* trigger them are set as long as what a set-up without a link wrote      *)
(* lasts: not after D3. Nothing is said of partners that do not negotiate, *)
(* for whom the mode of the former link stays, nor after a failed read or  *)
(* overlapping checks.                                                     *)
FlowControlAgrees ==
    Quiet /\ link.negotiated =>
        /\ "TFCE" \in CTRL => "obeys" \in Partner /\ (watermarks \/ unset)
        /\ "sends" \in Partner => "RFCE" \in CTRL

(* However fast the link comes and goes, what the system is told last is   *)
(* that it is up or down, its duplex and the pause mode in CTRL: no change *)
(* is lost between the interrupt, get_link_status and the sticky PHY_STATUS.*)
(* The pause mode is in CTRL when a check put it there, with copper or a   *)
(* partner that negotiates, or a forced SerDes link was set up to its end  *)
(* and never slept.                                                        *)
Told ==
    /\ reported.up = link.up
    /\ link.up => reported.full = link.full /\ reported.pause = current_mode
    /\ link.up /\ (media_type = "copper" \/ link.negotiated \/ ~(autoneg \/ unset)) =>
         e1000_force_mac_fc_generic(reported.pause) = CTRL
RealLinkReported == <>[](stage = "D0" => Told \/ stale \/ overlapped)
=============================================================================
