--------------------------------- MODULE Phy ---------------------------------
(***************************************************************************)
(* How the PHY is programmed (e1000_phy.c, e1000_82575.c, e1000_i210.c).   *)
(* A function of the driver is the sequence of the accesses it makes, with *)
(* alternatives where the driver's data or what it reads decide. An access *)
(* goes through the functions for the PHY at hand, which take the          *)
(* semaphore, may select the register's page, and make the transfer. Any   *)
(* of these may fail; most callers then return, some do not look.          *)
(*                                                                         *)
(* The PHYs of an I210 and an IGP3 select a page with every access and are *)
(* used by two threads, a caller and the link check; with the others the   *)
(* callers select pages themselves, and one thread runs. Loops that poll   *)
(* are cut after two rounds. The contents of registers are left out.       *)
(***************************************************************************)
EXTENDS Naturals, Sequences

VARIABLES
    kind,    \* the PHY
    todo,    \* what remains of every thread's call
    holder,  \* the thread that has the PHY semaphore
    page,    \* the page selected
    saved,   \* default_page of e1000_get_cable_length_m88_gen2
    seen,    \* the registers every thread's call has read, by page
    blind,   \* history: the call went on after an access had failed
    left     \* history: a call ended with another page than 0 selected

phyVars == <<kind, todo, holder, page, saved, seen, blind, left>>

Threads == {"caller", "link check"}
Kinds == {"i210", "i210 at start", "igp_3", "82580", "i347at4", "m88e1111", "m88e1112",
          "m88e1512", "m88e1543"}
SelectsAlways == {"i210", "igp_3"}
I2c == {"m88e1111", "m88e1112"}
Sgmii == I2c \cup {"i347at4", "m88e1512", "m88e1543"}
-----------------------------------------------------------------------------
(* Accesses, what is made of them, and what else a function may do next.   *)

Step(op, p, reg) ==
    [op |-> op, page |-> p, reg |-> reg, raw |-> FALSE, onError |-> "return", of |-> {}]
Read(reg) == <<Step("read", 0, reg)>>
Write(reg) == <<Step("write", 0, reg)>>
Update(reg) == <<Step("update", 0, reg)>>  \* writes what was read, changed
Change(reg) == Read(reg) \o Update(reg)
Select(p) == <<Step("select", p, "PAGE_SELECT")>>
Save == <<Step("save", 0, "PAGE_SELECT")>>
Restore == <<Step("restore", 0, "PAGE_SELECT")>>
Reset == <<Step("reset", 0, "CTRL.PHY_RST")>>
Fail == <<Step("fail", 0, "")>>    \* an error of the function's own
Leave == <<Step("leave", 0, "")>>  \* the end of a function that restores no page
Lock == Step("lock", 0, "")
Unlock == [Step("unlock", 0, "") EXCEPT !.raw = TRUE]

On(p, steps) == [i \in DOMAIN steps |-> [steps[i] EXCEPT !.page = p]]
Ignoring(steps) == [i \in DOMAIN steps |-> [steps[i] EXCEPT !.onError = "skip"]]
Under(steps) == [i \in DOMAIN steps |-> [steps[i] EXCEPT !.raw = TRUE, !.onError = "next"]]

Either(functions) == <<[Step("either", 0, "") EXCEPT !.of = functions]>>
Optionally(function) == Either({function, <<>>})
If(condition, function) == IF condition THEN function ELSE <<>>
-----------------------------------------------------------------------------
(* The functions that read and write a register: what follows their lock.  *)

Raw(a) == [a EXCEPT !.raw = TRUE]
PageSelect(a) == [Raw(a) EXCEPT !.op = "select", !.reg = "PAGE_SELECT"]

NotUnderOneLock(a) == <<PageSelect(a), Unlock, Lock, Raw(a), Unlock>>  \* mutant
e1000_read_phy_reg_gs40g(a) == <<PageSelect(a), Raw(a), Unlock>>

(* Registers up to MAX_PHY_MULTI_PAGE_REG are the same on every page.      *)
MultiPage == {"CONTROL", "STATUS", "ID1", "ID2", "AUTONEG_ADV", "LP_ABILITY", "1000T_CTRL",
              "1000T_STATUS"}
e1000_read_phy_reg_igp(a) ==
    (IF a.reg \in MultiPage THEN <<>> ELSE <<PageSelect(a)>>) \o <<Raw(a), Unlock>>

e1000_read_phy_reg_82580(a) == <<Raw(a), Unlock>>
e1000_read_phy_reg_sgmii_82575(a) == <<Raw(a), Unlock>>

UnderLock(a) ==
    CASE a.op = "lock" -> <<>>
      [] a.op = "reset" -> <<Raw(a), Unlock>>
      [] OTHER -> CASE kind = "i210" -> e1000_read_phy_reg_gs40g(a)
                    [] kind = "igp_3" -> e1000_read_phy_reg_igp(a)
                    [] kind \in I2c -> e1000_read_phy_reg_sgmii_82575(a)
                    [] OTHER -> e1000_read_phy_reg_82580(a)
-----------------------------------------------------------------------------
(* Identification, resets and power. *)

e1000_get_phy_id == Read("ID1") \o Read("ID2")

(* Over I2C the PHY is looked for; an I354 asks twice.                     *)
e1000_get_phy_id_82575 ==
    CASE kind \in I2c -> Ignoring(Read("ID1")) \o Optionally(Ignoring(Read("ID1")))
                           \o Either({Fail, e1000_get_phy_id})
      [] kind \in {"m88e1512", "m88e1543"} ->
           Ignoring(Read("ID1")) \o Optionally(Ignoring(Read("ID2"))) \o e1000_get_phy_id
      [] OTHER -> e1000_get_phy_id

e1000_phy_sw_reset_generic == Change("CONTROL")
e1000_phy_reset_dsp_generic == Write("GEN_CONTROL") \o Write("GEN_CONTROL")

(* Three writes stand for the 32 of the script.                            *)
e1000_phy_init_script_igp3 ==
    Ignoring(On(1, Write("0x2F5B")) \o On(2, Write("0x1F30")) \o Write("CONTROL"))
e1000_get_cfg_done_82575 == If(kind = "igp_3", Optionally(e1000_phy_init_script_igp3))

(* Nothing happens while the management firmware blocks it.                *)
e1000_phy_hw_reset_generic == Optionally(Reset \o e1000_get_cfg_done_82575)

Configure(p) == Select(p) \o On(p, Write("CFG"))
Configure255 == Select(255) \o On(255, [i \in 1 .. 8 |-> Write("CFG")[1]])
e1000_initialize_M88E1512_phy ==
    Configure255 \o Configure(251) \o Configure(18) \o Select(0) \o e1000_phy_sw_reset_generic
e1000_initialize_M88E1543_phy ==
    Configure255 \o Configure(251) \o Configure(18) \o Configure(1) \o Select(0)
      \o e1000_phy_sw_reset_generic

e1000_phy_hw_reset_sgmii_82575 ==
    Write("0x1B") \o e1000_phy_sw_reset_generic
      \o If(kind = "m88e1512", e1000_initialize_M88E1512_phy)

(* To learn its mode, page 2 of an M88E1112 is selected, and stays.        *)
e1000_init_phy_params_82575 ==
    e1000_get_phy_id_82575
      \o CASE kind = "m88e1112" -> Select(2) \o On(2, Read("MAC_CTRL_1")) \o Leave
           [] kind = "m88e1512" -> e1000_initialize_M88E1512_phy
           [] kind = "m88e1543" -> e1000_initialize_M88E1543_phy
           [] OTHER -> <<>>

(* Neither looks whether the register could be read.                       *)
e1000_power_up_phy_copper == Ignoring(Change("CONTROL"))
e1000_power_down_phy_copper == Ignoring(Change("CONTROL"))

(* At start the driver may have to reset the PHY of an I210 until its PLL  *)
(* works, under the semaphore, or without it should it not get it.         *)
PllTry == Under(Select(252) \o On(252, Read("PLL_FREQ")) \o Select(0))
e1000_pll_workaround_i210 ==
    <<[Lock EXCEPT !.onError = "next"]>> \o PllTry \o Optionally(Under(Reset) \o PllTry)
      \o <<Unlock>>
-----------------------------------------------------------------------------
(* Link set-up. *)

HasLinkOnce == Ignoring(Read("STATUS")) \o Read("STATUS")
e1000_phy_has_link_generic == HasLinkOnce \o Optionally(HasLinkOnce)
e1000_wait_autoneg ==
    Read("STATUS") \o Read("STATUS") \o Optionally(Read("STATUS") \o Read("STATUS"))

e1000_set_primary_secondary_mode == Change("1000T_CTRL")

e1000_copper_link_setup_82577 ==
    e1000_phy_hw_reset_generic \o Change("CFG_REG") \o Change("PHY_CTRL_2")
      \o e1000_set_primary_secondary_mode

e1000_copper_link_setup_m88 ==
    Change("SPEC_CTRL") \o Optionally(Change("EXT_SPEC_CTRL")) \o e1000_phy_sw_reset_generic

e1000_copper_link_setup_m88_gen2 ==
    Read("SPEC_CTRL")
      \o If(kind = "m88e1543", Update("SPEC_CTRL") \o e1000_phy_sw_reset_generic)
      \o Update("SPEC_CTRL") \o e1000_phy_sw_reset_generic \o e1000_set_primary_secondary_mode

(* The second register is changed without a look whether it was read.      *)
e1000_set_d0_lplu_state_82575 ==
    Read("POWER_MGMT")
      \o Either({Update("POWER_MGMT") \o Ignoring(Read("PORT_CONFIG")) \o Update("PORT_CONFIG"),
                 Ignoring(Update("POWER_MGMT")) \o Optionally(Change("PORT_CONFIG"))})
e1000_set_d3_lplu_state_generic ==
    Read("POWER_MGMT") \o Optionally(Update("POWER_MGMT") \o Optionally(Change("PORT_CONFIG")))

e1000_copper_link_setup_igp ==
    e1000_phy_hw_reset_generic \o e1000_set_d0_lplu_state_82575 \o Change("PORT_CTRL")
      \o Optionally(Optionally(Change("PORT_CONFIG") \o Change("1000T_CTRL"))
                      \o e1000_set_primary_secondary_mode)

e1000_phy_setup_autoneg ==
    Read("AUTONEG_ADV") \o Either({Read("1000T_CTRL") \o Update("AUTONEG_ADV")
                                      \o Update("1000T_CTRL"),
                                   Update("AUTONEG_ADV")})
e1000_copper_link_autoneg ==
    e1000_phy_setup_autoneg \o Change("CONTROL") \o Optionally(e1000_wait_autoneg)

AwaitForced == Optionally(e1000_phy_has_link_generic \o e1000_phy_has_link_generic)
e1000_phy_force_speed_duplex_igp == Change("CONTROL") \o Change("PORT_CTRL") \o AwaitForced
e1000_phy_force_speed_duplex_82577 == Change("CONTROL") \o AwaitForced
e1000_phy_force_speed_duplex_m88 ==
    If(kind # "i210", Change("SPEC_CTRL")) \o Change("CONTROL") \o e1000_phy_sw_reset_generic
      \o Optionally(e1000_phy_has_link_generic
                      \o If(kind = "m88e1111", Optionally(Write("M88E1000_PAGE_SELECT")
                                                            \o e1000_phy_reset_dsp_generic))
                      \o e1000_phy_has_link_generic)
      \o If(kind = "m88e1111", Change("EXT_SPEC_CTRL") \o Change("SPEC_CTRL"))

ForceSpeedDuplex ==
    CASE kind = "igp_3" -> e1000_phy_force_speed_duplex_igp
      [] kind = "82580" -> e1000_phy_force_speed_duplex_82577
      [] OTHER -> e1000_phy_force_speed_duplex_m88

e1000_config_fc_after_link_up_generic ==
    Optionally(Read("STATUS") \o Read("STATUS")
                 \o Optionally(Read("AUTONEG_ADV") \o Read("LP_ABILITY")))
e1000_setup_copper_link_generic ==
    Either({e1000_copper_link_autoneg, ForceSpeedDuplex}) \o e1000_phy_has_link_generic
      \o Optionally(e1000_config_fc_after_link_up_generic)

e1000_setup_copper_link_82575 ==
    If(kind \in Sgmii, e1000_phy_hw_reset_sgmii_82575)
      \o (CASE kind = "m88e1111" -> e1000_copper_link_setup_m88
            [] kind = "igp_3" -> e1000_copper_link_setup_igp
            [] kind = "82580" -> e1000_copper_link_setup_82577
            [] OTHER -> e1000_copper_link_setup_m88_gen2)
      \o e1000_setup_copper_link_generic
-----------------------------------------------------------------------------
(* Status. *)

e1000_check_downshift_generic ==
    CASE kind = "igp_3" -> Read("LINK_HEALTH")
      [] kind = "82580" -> <<>>
      [] OTHER -> Read("SPEC_STATUS")

(* What the downshift check returns is not looked at.                      *)
e1000_check_for_copper_link_generic ==
    Optionally(HasLinkOnce
      \o Optionally(Ignoring(e1000_check_downshift_generic)
                      \o Optionally(e1000_config_fc_after_link_up_generic)))

e1000_check_polarity_m88 == Read("SPEC_STATUS")
e1000_check_polarity_igp ==
    Read("PORT_STATUS") \o Either({Read("PORT_STATUS"), On(5, Read("PCS_INIT_REG"))})
e1000_check_polarity_82577 == Read("PHY_STATUS_2")

(* A length out of the table's range is an error.                          *)
e1000_get_cable_length_m88 == Read("SPEC_STATUS") \o Optionally(Fail)
Distance == On(7, Read("PCDL") \o Read("PCDC"))
e1000_get_cable_length_m88_gen2 ==
    CASE kind = "i210" -> Distance
      [] kind = "m88e1112" -> Save \o Select(5) \o On(5, Read("VCT_DSP_DISTANCE"))
                                \o Either({Restore, Fail})
      [] OTHER -> Save \o Select(7) \o Distance \o Restore
e1000_get_cable_length_igp_2 ==
    LET agc(reg) == On(1, Read(reg)) \o Optionally(Fail)
    IN agc("AGC_A") \o agc("AGC_B") \o agc("AGC_C") \o agc("AGC_D")
e1000_get_cable_length_82577 == Read("PHY_DIAG_STATUS") \o Optionally(Fail)

(* The link has to be up; at 1000 Mb/s there is more to see.               *)
AtGigabit(length) == Optionally(length \o Read("1000T_STATUS"))
e1000_get_phy_info_m88 ==
    Optionally(Fail) \o HasLinkOnce \o Optionally(Fail)
      \o Read("SPEC_CTRL") \o e1000_check_polarity_m88 \o Read("SPEC_STATUS")
      \o AtGigabit(IF kind = "m88e1111" THEN e1000_get_cable_length_m88
                                        ELSE e1000_get_cable_length_m88_gen2)
e1000_get_phy_info_igp ==
    HasLinkOnce \o Optionally(Fail) \o e1000_check_polarity_igp \o Read("PORT_STATUS")
      \o AtGigabit(e1000_get_cable_length_igp_2)
e1000_get_phy_info_82577 ==
    HasLinkOnce \o Optionally(Fail) \o e1000_check_polarity_82577 \o Read("PHY_STATUS_2")
      \o AtGigabit(e1000_get_cable_length_82577)

__e1000_access_xmdio_reg(access) ==
    Write("MMDAC") \o Write("MMDAAD") \o Write("MMDAC") \o access \o Write("MMDAC")
e1000_set_eee_i354 ==
    Optionally(Select(18) \o On(18, Change("EEE_CTRL_1")) \o Select(0))
      \o __e1000_access_xmdio_reg(Read("MMDAAD")) \o __e1000_access_xmdio_reg(Write("MMDAAD"))
e1000_get_eee_status_i354 == __e1000_access_xmdio_reg(Read("MMDAAD"))
-----------------------------------------------------------------------------
(* The calls the driver makes with each PHY.                               *)
Calls ==
    IF kind = "i210 at start" THEN {e1000_pll_workaround_i210}
    ELSE {e1000_init_phy_params_82575, e1000_setup_copper_link_82575,
          e1000_power_up_phy_copper, e1000_power_down_phy_copper,
          e1000_check_for_copper_link_generic}
           \cup (CASE kind = "igp_3" -> {e1000_get_phy_info_igp, e1000_set_d0_lplu_state_82575,
                                         e1000_set_d3_lplu_state_generic}
                   [] kind = "82580" -> {e1000_get_phy_info_82577}
                   [] OTHER -> {e1000_get_phy_info_m88})
           \cup (IF kind \in {"m88e1512", "m88e1543"}
                   THEN {e1000_set_eee_i354, e1000_get_eee_status_i354} ELSE {})

Init ==
    /\ kind \in Kinds
    /\ todo = [t \in Threads |-> <<>>]
    /\ holder = "none" /\ page = 0 /\ saved = 0
    /\ seen = [t \in Threads |-> {}] /\ blind = [t \in Threads |-> FALSE]
    /\ left = FALSE

Call(t) ==
    /\ todo[t] = <<>>
    /\ t = "link check" => kind \in SelectsAlways
    /\ \E function \in (IF t = "caller" THEN Calls ELSE {e1000_check_for_copper_link_generic}) :
         todo' = [todo EXCEPT ![t] = function]
    /\ seen' = [seen EXCEPT ![t] = {}] /\ blind' = [blind EXCEPT ![t] = FALSE]
    /\ UNCHANGED <<kind, holder, page, saved, left>>

Now(t, ops) == todo[t] # <<>> /\ Head(todo[t]).op \in ops
Accesses == {"read", "write", "update", "select", "save", "restore", "reset"}

(* What decides is data or what was read.                                  *)
Decide(t) ==
    /\ Now(t, {"either"})
    /\ \E function \in Head(todo[t]).of : todo' = [todo EXCEPT ![t] = function \o Tail(@)]
    /\ UNCHANGED <<kind, holder, page, saved, seen, blind, left>>

(* The call ends before its time, at a page that matters to the next one   *)
(* where pages are the callers' business.                                  *)
Ends(t) ==
    /\ todo' = [todo EXCEPT ![t] = <<>>]
    /\ left' = (left \/ (kind \notin SelectsAlways /\ page # 0))

GiveUp(t) ==
    /\ Now(t, {"fail", "leave"})
    /\ Ends(t)
    /\ UNCHANGED <<kind, holder, page, saved, seen, blind>>

NeedsLock(t) == todo[t] # <<>> /\ ~Head(todo[t]).raw /\ Head(todo[t]).op \in Accesses \cup {"lock"}

e1000_acquire_phy_base(t) ==
    /\ NeedsLock(t) /\ holder = "none"
    /\ holder' = t
    /\ todo' = [todo EXCEPT ![t] = UnderLock(Head(@)) \o Tail(@)]
    /\ UNCHANGED <<kind, page, saved, seen, blind, left>>

AcquireFails(t) ==
    /\ NeedsLock(t)
    /\ IF Head(todo[t]).onError = "return"
         THEN Ends(t) /\ UNCHANGED blind
         ELSE /\ todo' = [todo EXCEPT ![t] = Tail(@)]
              /\ blind' = [blind EXCEPT ![t] = TRUE]
              /\ UNCHANGED left
    /\ UNCHANGED <<kind, holder, page, saved, seen>>

e1000_release_phy_base(t) ==
    /\ Now(t, {"unlock"})
    /\ holder' = "none"
    /\ todo' = [todo EXCEPT ![t] = Tail(@)]
    /\ UNCHANGED <<kind, page, saved, seen, blind, left>>

PageMatters(a) == kind # "igp_3" \/ a.reg \notin MultiPage
Transferring(t) == Now(t, Accesses) /\ Head(todo[t]).raw
Seen(a) == <<IF PageMatters(a) THEN page ELSE 0, a.reg>>

(* e1000_read_phy_reg_mdic, e1000_write_phy_reg_mdic, their I2C fellows,   *)
(* and the reset of the PHY.                                               *)
Transfer(t) ==
    LET a == Head(todo[t]) IN
    /\ Transferring(t)
    /\ page' = CASE a.op = "select" -> a.page
                 [] a.op = "restore" -> saved
                 [] a.op = "reset" -> 0
                 [] OTHER -> page
    /\ saved' = IF a.op = "save" THEN page ELSE saved
    /\ seen' = IF a.op = "read" THEN [seen EXCEPT ![t] = @ \cup {Seen(a)}] ELSE seen
    /\ todo' = [todo EXCEPT ![t] = Tail(@)]
    /\ UNCHANGED <<kind, holder, blind, left>>

(* An error ends the access, with the release, and the call unless its     *)
(* caller does not look.                                                   *)
FromUnlock(s) ==
    LET first == CHOOSE i \in DOMAIN s : /\ s[i].op = "unlock"
                                         /\ \A j \in 1 .. (i - 1) : s[j].op # "unlock"
    IN SubSeq(s, first, Len(s))
EndsUnreleased(s) == IF Head(s).onError = "return" THEN Fail ELSE FromUnlock(s)  \* mutant
AfterError(s) ==
    CASE Head(s).onError = "return" -> <<Unlock>> \o Fail
      [] Head(s).onError = "skip" -> FromUnlock(s)
      [] Head(s).onError = "next" -> Tail(s)

TransferFails(t) ==
    /\ Transferring(t) /\ Head(todo[t]).op # "reset"
    /\ todo' = [todo EXCEPT ![t] = AfterError(@)]
    /\ blind' = [blind EXCEPT ![t] = @ \/ Head(todo[t]).onError # "return"]
    /\ UNCHANGED <<kind, holder, page, saved, seen, left>>

Next ==
    \E t \in Threads :
        \/ Call(t) \/ Decide(t) \/ GiveUp(t)
        \/ e1000_acquire_phy_base(t) \/ AcquireFails(t) \/ e1000_release_phy_base(t)
        \/ Transfer(t) \/ TransferFails(t)

Spec == Init /\ [][Next]_phyVars
-----------------------------------------------------------------------------
(* Properties. *)

TypeOK ==
    /\ kind \in Kinds /\ holder \in Threads \cup {"none"}
    /\ page \in 0 .. 255 /\ saved \in 0 .. 255
    /\ DOMAIN todo = Threads /\ DOMAIN seen = Threads
    /\ blind \in [Threads -> BOOLEAN] /\ left \in BOOLEAN

(* Every register is read and written on its page, and one that is changed *)
(* was read before, whatever the other thread does to the page meanwhile.  *)
(* A call that succeeds leaves page 0 where callers rely on it. Not after  *)
(* a call that ended early at another page or is e1000_init_phy_params for *)
(* an M88E1112, nor in a call that does not look at errors and met one.    *)
PageDiscipline ==
    /\ \A t \in Threads : Transferring(t) /\ ~blind[t] /\ ~left =>
         LET a == Head(todo[t]) IN
         /\ a.op \in {"read", "write", "update"} /\ PageMatters(a) => page = a.page
         /\ a.op = "update" => Seen(a) \in seen[t]
    /\ kind \notin SelectsAlways /\ ~left /\ (\A t \in Threads : todo[t] = <<>> /\ ~blind[t])
         => page = 0

(* "Release any acquired semaphores before exiting" (e1000_phy.c:703), on  *)
(* every path: a transfer is made and the semaphore released only by its   *)
(* holder, and no call ends with it; but e1000_pll_workaround_i210 ignores *)
(* that it did not get it.                                                 *)
SemaphoreBalanced ==
    \A t \in Threads :
        /\ holder = t => todo[t] # <<>>
        /\ Transferring(t) \/ Now(t, {"unlock"}) => holder = t \/ blind[t]
        /\ Now(t, {"fail"}) \/ NeedsLock(t) => holder # t
=============================================================================
