--------------------------- MODULE ServicesProofs ---------------------------
(***************************************************************************)
(* Proofs about the services of the shared code, for any bounds on calls,  *)
(* messages and lengths: the mailbox, the host interface, the non-volatile *)
(* memory, the part number and the records in it, and the PHY.             *)
(***************************************************************************)
EXTENDS MCServices, SequenceTheorems, FiniteSetTheorems, WellFoundedInduction, TLAPS

(* The mailbox. *)

(* The two ends: where they are and what they have. *)
VfPlaces == {"idle", "resetting", "writing", "filling", "acked", "answered", "reading",
             "copying", "done", "checking"}
PfPlaces == {"idle", "reading", "copying", "writing", "filling"}
VfType == [pc : VfPlaces, msg : Mbx!Messages, got : Mbx!Halves, n : 0 .. MaxRequests,
           sent : BOOLEAN]
PfType == [pc : PfPlaces, msg : Mbx!Messages, got : Mbx!Halves, left : 0 .. MaxUnsolicited,
           read : 0 .. MaxRequests]

MailboxTypes ==
    /\ VMBMEM \in Mbx!Halves /\ owner \in {"none", "vf", "pf"}
    /\ V2PMAILBOX \subseteq {"PFSTS", "PFACK", "RSTI", "RSTD"}
    /\ v2p_mailbox \subseteq {"PFSTS", "PFACK", "RSTD"}
    /\ MBVFICR \subseteq {"VFREQ", "VFACK", "VFLRE"}
    /\ timeout \in BOOLEAN /\ get_link_status \in BOOLEAN /\ unread \in BOOLEAN
    /\ mac \in [perm_addr : BOOLEAN, addr : {"own", "perm"}]
    /\ vf \in VfType /\ pf \in PfType

(* What the virtual function is told, by the register or by its copy.      *)
Told == V2PMAILBOX \cup v2p_mailbox

(* Who has the buffer, and nobody else, copies from it or fills it.        *)
Ownership ==
    /\ owner = "vf" <=> vf.pc \in {"filling", "copying"}
    /\ owner = "pf" <=> pf.pc \in {"filling", "copying"}

(* The buffer holds one message unless it is being filled with another.    *)
BufferWhole ==
    /\ vf.pc # "filling" /\ pf.pc # "filling" => VMBMEM.head = VMBMEM.tail
    /\ vf.pc = "filling" => VMBMEM.head = vf.msg
    /\ pf.pc = "filling" => VMBMEM.head = pf.msg
    /\ vf.pc = "copying" => vf.got.head = VMBMEM.head
    /\ pf.pc = "copying" => pf.got.head = VMBMEM.head
    /\ vf.pc = "done" => vf.got.head = vf.got.tail
    /\ pf.pc = "writing" /\ pf.msg.kind # "CONTROL" => pf.got.head = pf.got.tail

(* Each end's own message, and the number of the latest request.           *)
Authors ==
    /\ vf.pc \in {"writing", "filling"} => vf.msg.from = "vf" /\ vf.msg.n = vf.n /\ ~vf.sent
    /\ vf.pc = "acked" => vf.sent
    /\ vf.pc = "resetting" => vf.n < MaxRequests
    /\ pf.pc \in {"writing", "filling"} =>
         pf.msg.from = "pf" /\ (pf.msg.kind = "CONTROL" \/ pf.msg.n = pf.read)
    /\ VMBMEM.head.from = "pf" => VMBMEM.head.kind = "CONTROL" \/ VMBMEM.head.n = pf.read

(* The virtual function's latest request is the one in the buffer, if one  *)
(* is there, and only a request is there for the physical function to read.*)
Exchanging == vf.pc \in {"acked", "answered", "reading", "copying", "done"} /\ vf.sent
RequestInBuffer ==
    /\ vf.pc = "filling" \/ Exchanging =>
         (VMBMEM.head.from = "vf" => VMBMEM.head.n = vf.n)
    /\ "VFREQ" \in MBVFICR \/ pf.pc \in {"reading", "copying"} => VMBMEM.head.from = "vf"

(* Acknowledgement and message flags that were not set for this request    *)
(* are gone.                                                               *)
FlagsAreNew ==
    /\ vf.pc = "filling" => Told \cap {"PFACK", "PFSTS"} = {}
    /\ vf.pc = "acked" /\ "PFACK" \in Told => pf.read = vf.n
    /\ Exchanging /\ vf.pc # "acked" => pf.read = vf.n
    /\ vf.pc \in {"acked", "answered"} /\ vf.sent /\ "PFSTS" \in Told => VMBMEM.head.from = "pf"
    /\ vf.pc \in {"reading", "copying"} /\ vf.sent => VMBMEM.head.from = "pf"

UnreadInBuffer ==
    unread => VMBMEM.head.from = "pf"

MailboxInvariant ==
    /\ MailboxTypes /\ Ownership /\ BufferWhole /\ Authors /\ RequestInBuffer /\ FlagsAreNew
    /\ UnreadInBuffer /\ Mbx!UnreadIsAnnounced /\ Mbx!AnswersMatch
-----------------------------------------------------------------------------
LEMMA Numbers ==
    MaxRequests \in Nat /\ MaxUnsolicited \in Nat /\ MaxHashes \in Nat /\ MaxMulticast \in Nat
BY ServicesAssumption

(* The register is read: what it and its copy told is remembered, but for  *)
(* what the caller asked for.                                              *)
LEMMA ReadingKeeps ==
    ASSUME MailboxTypes, NEW o, NEW mask, Mbx!ReadV2P(o, mask)
    PROVE  /\ V2PMAILBOX' \subseteq {"PFSTS", "PFACK", "RSTI", "RSTD"}
           /\ v2p_mailbox' \subseteq {"PFSTS", "PFACK", "RSTD"}
           /\ "PFSTS" \in Told' <=> "PFSTS" \in Told /\ "PFSTS" \notin mask
           /\ "PFACK" \in Told' <=> "PFACK" \in Told /\ "PFACK" \notin mask
<1>1. /\ v2p_mailbox' = (Mbx!Shown(o) \cap {"PFSTS", "PFACK", "RSTD"}) \ mask
      /\ V2PMAILBOX' = V2PMAILBOX \ {"PFSTS", "PFACK", "RSTD"}
  BY DEF Mbx!ReadV2P, Mbx!Kept, Mbx!R2C_BITS
<1>2. /\ "PFSTS" \in Mbx!Shown(o) <=> "PFSTS" \in Told
      /\ "PFACK" \in Mbx!Shown(o) <=> "PFACK" \in Told
  BY DEF Mbx!Shown, Told
<1>3. V2PMAILBOX' \subseteq {"PFSTS", "PFACK", "RSTI", "RSTD"}
      /\ v2p_mailbox' \subseteq {"PFSTS", "PFACK", "RSTD"}
  BY <1>1 DEF MailboxTypes
<1>4. /\ "PFSTS" \in Told' <=> "PFSTS" \in Told /\ "PFSTS" \notin mask
      /\ "PFACK" \in Told' <=> "PFACK" \in Told /\ "PFACK" \notin mask
  BY <1>1, <1>2 DEF Told
<1>5. QED
  BY <1>3, <1>4

(* VFU shows when nobody else has the buffer. *)
LEMMA VfuShown ==
    ASSUME MailboxTypes
    PROVE  /\ "VFU" \in Mbx!Shown(Mbx!TakenBy("vf")) <=> owner # "pf"
           /\ owner # "pf" => Mbx!TakenBy("vf") = "vf"
           /\ Mbx!TakenBy("pf") = "pf" <=> owner # "vf"
BY DEF MailboxTypes, Mbx!Shown, Mbx!TakenBy

(* Steps in which the virtual function moves on, without the buffer.       *)
LEMMA VfMovesOn ==
    ASSUME MailboxInvariant, NEW place \in {"idle", "resetting", "answered", "reading", "checking"},
           vf.pc \notin {"filling", "copying"},
           vf' = [vf EXCEPT !.pc = place],
           UNCHANGED <<VMBMEM, owner, pf>>,
           unread' \in BOOLEAN, unread' => unread,
           MBVFICR' \subseteq {"VFREQ", "VFACK", "VFLRE"},
           "VFREQ" \in MBVFICR' => "VFREQ" \in MBVFICR,
           V2PMAILBOX' \subseteq {"PFSTS", "PFACK", "RSTI", "RSTD"},
           v2p_mailbox' \subseteq {"PFSTS", "PFACK", "RSTD"},
           "PFSTS" \in Told' => "PFSTS" \in Told,
           "PFACK" \in Told' => "PFACK" \in Told,
           timeout' \in BOOLEAN, get_link_status' \in BOOLEAN,
           mac' \in [perm_addr : BOOLEAN, addr : {"own", "perm"}],
           place = "answered" => (vf.pc = "acked" /\ "PFACK" \in Told) \/ ~vf.sent,
           place = "reading" => vf.pc = "answered" /\ "PFSTS" \in Told,
           "PFSTS" \in Told => "PFSTS" \in Told' \/ place = "reading",
           vf.pc = "reading" => owner = "pf",
           place = "resetting" => vf.n < MaxRequests
    PROVE  MailboxInvariant'
<1>1. MailboxTypes
  BY DEF MailboxInvariant
<1>2. /\ vf' \in VfType /\ vf'.pc = place /\ vf'.msg = vf.msg /\ vf'.got = vf.got
      /\ vf'.n = vf.n /\ vf'.sent = vf.sent
  BY <1>1 DEF MailboxTypes, VfType, VfPlaces
<1>3. MailboxTypes'
  BY <1>1, <1>2 DEF MailboxTypes
<1>4. Ownership'
  BY <1>2 DEF MailboxInvariant, Ownership
<1>5. BufferWhole'
  BY <1>2 DEF MailboxInvariant, BufferWhole
<1>6. Authors'
  BY <1>2 DEF MailboxInvariant, Authors
<1>7. Exchanging' => Exchanging
  BY <1>2 DEF MailboxInvariant, Authors, Exchanging
<1>8. RequestInBuffer'
  BY <1>2, <1>7 DEF MailboxInvariant, RequestInBuffer
<1>9. FlagsAreNew'
  BY <1>2, <1>7 DEF MailboxInvariant, FlagsAreNew, Exchanging
<1>10. UnreadInBuffer'
  BY DEF MailboxInvariant, UnreadInBuffer
<1>11. Mbx!UnreadIsAnnounced'
  BY <1>2 DEF MailboxInvariant, Mbx!UnreadIsAnnounced, Told
<1>12. Mbx!AnswersMatch'
  BY <1>2 DEF Mbx!AnswersMatch
<1>13. QED
  BY <1>3, <1>4, <1>5, <1>6, <1>8, <1>9, <1>10, <1>11, <1>12 DEF MailboxInvariant

(* Steps in which it has something to ask. *)
LEMMA VfAsks ==
    ASSUME MailboxInvariant, NEW m \in Mbx!Messages, m.from = "vf", m.n = vf.n + 1,
           vf.pc \in {"idle", "resetting"}, vf.n < MaxRequests,
           vf' = [vf EXCEPT !.pc = "writing", !.n = @ + 1, !.sent = FALSE, !.msg = m],
           UNCHANGED <<VMBMEM, owner, pf, unread, MBVFICR, get_link_status, mac>>,
           V2PMAILBOX' \subseteq {"PFSTS", "PFACK", "RSTI", "RSTD"},
           v2p_mailbox' \subseteq {"PFSTS", "PFACK", "RSTD"},
           "PFSTS" \in Told => "PFSTS" \in Told',
           timeout' \in BOOLEAN
    PROVE  MailboxInvariant'
<1>1. MailboxTypes
  BY DEF MailboxInvariant
<1>2. vf \in VfType /\ vf.n \in 0 .. MaxRequests /\ vf.n + 1 \in 0 .. MaxRequests
  BY <1>1, Numbers DEF MailboxTypes, VfType
<1>3. /\ vf' \in VfType /\ vf'.pc = "writing" /\ vf'.msg = m /\ vf'.got = vf.got
      /\ vf'.n = vf.n + 1 /\ vf'.sent = FALSE
  BY <1>2 DEF VfType, VfPlaces
<1>4. ~vf'.sent
  BY <1>3
<1>5. MailboxTypes'
  BY <1>1, <1>3 DEF MailboxTypes
<1>6. Ownership' /\ BufferWhole'
  BY <1>3 DEF MailboxInvariant, Ownership, BufferWhole
<1>7. Authors'
  BY <1>3, <1>4 DEF MailboxInvariant, Authors
<1>8. RequestInBuffer' /\ FlagsAreNew' /\ Mbx!AnswersMatch'
  BY <1>3, <1>4 DEF MailboxInvariant, RequestInBuffer, FlagsAreNew, Mbx!AnswersMatch, Exchanging
<1>9. UnreadInBuffer' /\ Mbx!UnreadIsAnnounced'
  BY <1>3 DEF MailboxInvariant, UnreadInBuffer, Mbx!UnreadIsAnnounced, Told
<1>10. QED
  BY <1>5, <1>6, <1>7, <1>8, <1>9 DEF MailboxInvariant
LEMMA VfRegisters ==
    ASSUME MailboxInvariant,
           \/ Mbx!e1000_reset_hw_vf \/ Mbx!LockFailsVf \/ Mbx!PollAck \/ Mbx!PollMsg
           \/ Mbx!TimesOut \/ Mbx!Understand
           \/ Mbx!e1000_check_for_link_vf
    PROVE  MailboxInvariant'
<1>1. /\ MailboxTypes /\ timeout \in BOOLEAN /\ get_link_status \in BOOLEAN
      /\ unread \in BOOLEAN
      /\ mac \in [perm_addr : BOOLEAN, addr : {"own", "perm"}]
      /\ MBVFICR \subseteq {"VFREQ", "VFACK", "VFLRE"}
      /\ V2PMAILBOX \subseteq {"PFSTS", "PFACK", "RSTI", "RSTD"}
      /\ v2p_mailbox \subseteq {"PFSTS", "PFACK", "RSTD"}
  BY DEF MailboxInvariant, MailboxTypes
<1>2. CASE Mbx!e1000_reset_hw_vf
  <2>1. /\ vf.pc = "idle" /\ vf.n < MaxRequests /\ MBVFICR' = MBVFICR \cup {"VFLRE"}
        /\ vf' = [vf EXCEPT !.pc = "resetting"]
        /\ UNCHANGED <<VMBMEM, owner, V2PMAILBOX, v2p_mailbox, timeout, get_link_status, mac, pf,
                       unread>>
    BY <1>2 DEF Mbx!e1000_reset_hw_vf, Mbx!VfMoves
  <2>2. Told' = Told
    BY <2>1 DEF Told
  <2>3. QED
    BY <1>1, <2>1, <2>2, VfMovesOn
<1>3. CASE Mbx!LockFailsVf
  <2>1. /\ vf.pc \in {"writing", "reading"} /\ owner = "pf" /\ Mbx!ReadV2P("pf", {})
        /\ UNCHANGED <<VMBMEM, owner, MBVFICR, timeout, get_link_status, mac, pf, unread>>
    BY <1>3 DEF Mbx!LockFailsVf
  <2>2. PICK place : /\ vf' = [vf EXCEPT !.pc = place]
                     /\ place = "idle" \/ (place = "answered" /\ vf.pc = "writing")
    BY <1>3 DEF Mbx!LockFailsVf, Mbx!VfMoves
  <2>3. vf.pc = "writing" => ~vf.sent
    BY DEF MailboxInvariant, Authors
  <2>4. QED
    BY <1>1, <2>1, <2>2, <2>3, ReadingKeeps, VfMovesOn
<1>4. CASE Mbx!PollAck
  <2>1. /\ vf.pc = "acked" /\ "PFACK" \in Mbx!Shown(owner) /\ Mbx!ReadV2P(owner, {"PFACK"})
        /\ vf' = [vf EXCEPT !.pc = "answered"]
        /\ UNCHANGED <<VMBMEM, owner, MBVFICR, timeout, get_link_status, mac, pf, unread>>
    BY <1>4 DEF Mbx!PollAck, Mbx!VfMoves
  <2>2. "PFACK" \in Told
    BY <2>1 DEF Mbx!Shown, Told
  <2>3. QED
    BY <1>1, <2>1, <2>2, ReadingKeeps, VfMovesOn
<1>5. CASE Mbx!PollMsg
  <2>1. /\ vf.pc = "answered" /\ "PFSTS" \in Mbx!Shown(owner) /\ Mbx!ReadV2P(owner, {"PFSTS"})
        /\ vf' = [vf EXCEPT !.pc = "reading"]
        /\ UNCHANGED <<VMBMEM, owner, MBVFICR, timeout, get_link_status, mac, pf, unread>>
    BY <1>5 DEF Mbx!PollMsg, Mbx!VfMoves
  <2>2. "PFSTS" \in Told
    BY <2>1 DEF Mbx!Shown, Told
  <2>3. QED
    BY <1>1, <2>1, <2>2, ReadingKeeps, VfMovesOn
<1>6. CASE Mbx!TimesOut
  <2>1. /\ vf.pc \in {"acked", "answered"} /\ Mbx!ReadV2P(owner, {})
        /\ vf' = [vf EXCEPT !.pc = "idle"] /\ timeout' = FALSE
        /\ UNCHANGED <<VMBMEM, owner, MBVFICR, get_link_status, mac, pf, unread>>
    BY <1>6 DEF Mbx!TimesOut, Mbx!VfMoves
  <2>2. timeout' \in BOOLEAN
    BY <2>1
  <2>3. QED
    BY <1>1, <2>1, <2>2, ReadingKeeps, VfMovesOn
<1>7. CASE Mbx!Understand
  <2>1. /\ vf.pc = "done" /\ vf' = [vf EXCEPT !.pc = "idle"]
        /\ UNCHANGED <<VMBMEM, owner, V2PMAILBOX, MBVFICR, v2p_mailbox, timeout, get_link_status,
                       pf, unread>>
    BY <1>7 DEF Mbx!Understand, Mbx!VfMoves
  <2>2. mac' \in {[mac EXCEPT !.perm_addr = TRUE], [mac EXCEPT !.addr = "perm"], mac}
    BY <1>7 DEF Mbx!Understand
  <2>3. mac' \in [perm_addr : BOOLEAN, addr : {"own", "perm"}]
    BY <1>1, <2>2
  <2>4. Told' = Told
    BY <2>1 DEF Told
  <2>5. QED
    BY <1>1, <2>1, <2>3, <2>4, VfMovesOn
<1>8. CASE Mbx!e1000_check_for_link_vf
  <2>1. /\ vf.pc = "idle" /\ Mbx!ReadV2P(owner, {"RSTI", "RSTD"})
        /\ UNCHANGED <<VMBMEM, owner, MBVFICR, timeout, mac, pf, unread>>
    BY <1>8 DEF Mbx!e1000_check_for_link_vf
  <2>2. get_link_status' \in BOOLEAN
    BY <1>1, <1>8 DEF Mbx!e1000_check_for_link_vf
  <2>3. vf = [vf EXCEPT !.pc = "idle"]
    BY <1>1, <2>1 DEF MailboxTypes, VfType
  <2>4. PICK place \in {"checking", "idle"} : vf' = [vf EXCEPT !.pc = place]
    BY <1>8, <2>3 DEF Mbx!e1000_check_for_link_vf, Mbx!VfMoves
  <2>5. QED
    BY <1>1, <2>1, <2>2, <2>4, ReadingKeeps, VfMovesOn
<1>9. QED
  BY <1>2, <1>3, <1>4, <1>5, <1>6, <1>7, <1>8

LEMMA VfRequests ==
    ASSUME MailboxInvariant,
           \/ Mbx!AwaitReset \/ Mbx!e1000_rar_set_vf \/ Mbx!e1000_vfta_set_vf
           \/ Mbx!e1000_rlpml_set_vf
           \/ Mbx!e1000_promisc_set_vf \/ Mbx!e1000_update_mc_addr_list_vf
    PROVE  MailboxInvariant'
<1>1. /\ MailboxTypes /\ timeout \in BOOLEAN /\ get_link_status \in BOOLEAN
      /\ unread \in BOOLEAN
      /\ mac \in [perm_addr : BOOLEAN, addr : {"own", "perm"}]
      /\ MBVFICR \subseteq {"VFREQ", "VFACK", "VFLRE"}
      /\ V2PMAILBOX \subseteq {"PFSTS", "PFACK", "RSTI", "RSTD"}
      /\ v2p_mailbox \subseteq {"PFSTS", "PFACK", "RSTD"}
      /\ vf.n \in 0 .. MaxRequests
  BY DEF MailboxInvariant, MailboxTypes, VfType
<1>2. ASSUME vf.n < MaxRequests, NEW request \in Mbx!Kinds
      PROVE  /\ Mbx!Msg("vf", request, vf.n + 1, "none", FALSE) \in Mbx!Messages
             /\ Mbx!Msg("vf", request, vf.n + 1, "none", FALSE).from = "vf"
             /\ Mbx!Msg("vf", request, vf.n + 1, "none", FALSE).n = vf.n + 1
  <2>1. vf.n + 1 \in 0 .. MaxRequests
    BY <1>1, <1>2, Numbers
  <2>2. 0 \in 0 .. MaxHashes
    BY Numbers
  <2>3. QED
    BY <2>1, <2>2 DEF Mbx!Msg, Mbx!Messages
<1>3. ASSUME NEW request \in Mbx!Kinds, NEW count \in 0 .. MaxHashes, Mbx!Request(request, count)
      PROVE  MailboxInvariant'
  <2> DEFINE base == Mbx!Msg("vf", request, vf.n + 1, "none", FALSE)
             m == [base EXCEPT !.count = count]
  <2>1. /\ vf.pc = "idle" /\ vf.n < MaxRequests
        /\ vf' = [vf EXCEPT !.pc = "writing", !.n = @ + 1, !.sent = FALSE, !.msg = m]
        /\ UNCHANGED <<VMBMEM, owner, V2PMAILBOX, MBVFICR, v2p_mailbox, timeout,
                       get_link_status, mac, pf, unread>>
    BY <1>3 DEF Mbx!Request
  <2>2. base \in Mbx!Messages /\ base.from = "vf" /\ base.n = vf.n + 1
    BY <1>2, <2>1
  <2> HIDE DEF base
  <2>3. m \in Mbx!Messages /\ m.from = "vf" /\ m.n = vf.n + 1
    BY <2>2 DEF Mbx!Messages
  <2> HIDE DEF m
  <2>4. Told' = Told
    BY <2>1 DEF Told
  <2>5. QED
    BY <1>1, <2>1, <2>3, <2>4, VfAsks
<1>4. 0 \in 0 .. MaxHashes
  BY Numbers
<1>5. \A request \in {"SET_MAC_ADDR", "SET_VLAN", "SET_LPE", "SET_PROMISC", "SET_MULTICAST",
                     "RESET"} :
        request \in Mbx!Kinds
  BY DEF Mbx!Kinds
<1>6. CASE \/ Mbx!e1000_rar_set_vf \/ Mbx!e1000_vfta_set_vf \/ Mbx!e1000_rlpml_set_vf
           \/ Mbx!e1000_promisc_set_vf
  BY <1>3, <1>4, <1>5, <1>6
     DEF Mbx!e1000_rar_set_vf, Mbx!e1000_vfta_set_vf, Mbx!e1000_rlpml_set_vf,
         Mbx!e1000_promisc_set_vf
<1>7. CASE Mbx!e1000_update_mc_addr_list_vf
  <2>1. PICK mc_addr_count \in 0 .. MaxMulticast :
          Mbx!Request("SET_MULTICAST",
                      IF mc_addr_count > MaxHashes THEN MaxHashes ELSE mc_addr_count)
    BY <1>7 DEF Mbx!e1000_update_mc_addr_list_vf
  <2>2. (IF mc_addr_count > MaxHashes THEN MaxHashes ELSE mc_addr_count) \in 0 .. MaxHashes
    BY Numbers
  <2>3. QED
    BY <1>3, <1>5, <2>1, <2>2
<1>8. CASE Mbx!AwaitReset
  <2>1. /\ vf.pc = "resetting" /\ Mbx!ReadV2P(owner, {"RSTI", "RSTD"})
        /\ UNCHANGED <<VMBMEM, owner, MBVFICR, get_link_status, mac, pf, unread>>
    BY <1>8 DEF Mbx!AwaitReset
  <2> DEFINE m == Mbx!Msg("vf", "RESET", vf.n + 1, "none", FALSE)
  <2>2. \/ /\ timeout' = TRUE
           /\ vf' = [vf EXCEPT !.pc = "writing", !.n = @ + 1, !.sent = FALSE, !.msg = m]
        \/ vf' = [vf EXCEPT !.pc = "idle"] /\ timeout' = timeout
    BY <1>8 DEF Mbx!AwaitReset, Mbx!VfMoves
  <2>3. timeout' \in BOOLEAN
    BY <1>1, <2>2
  <2>4. /\ V2PMAILBOX' \subseteq {"PFSTS", "PFACK", "RSTI", "RSTD"}
        /\ v2p_mailbox' \subseteq {"PFSTS", "PFACK", "RSTD"}
        /\ "PFSTS" \in Told' <=> "PFSTS" \in Told
        /\ "PFACK" \in Told' <=> "PFACK" \in Told
    BY <1>1, <2>1, ReadingKeeps
  <2>5. vf.n < MaxRequests
    BY <2>1 DEF MailboxInvariant, Authors
  <2>6. m \in Mbx!Messages /\ m.from = "vf" /\ m.n = vf.n + 1
    BY <1>2, <1>5, <2>5
  <2> HIDE DEF m
  <2>7. CASE vf' = [vf EXCEPT !.pc = "idle"]
    BY <1>1, <2>1, <2>3, <2>4, <2>7, VfMovesOn
  <2>8. CASE vf' = [vf EXCEPT !.pc = "writing", !.n = @ + 1, !.sent = FALSE, !.msg = m]
    BY <1>1, <2>1, <2>3, <2>4, <2>5, <2>6, <2>8, VfAsks
  <2>9. QED
    BY <2>2, <2>7, <2>8
<1>9. QED
  BY <1>6, <1>7, <1>8
(* The virtual function with the buffer.                                   *)
LEMMA VfWriteBegins ==
    ASSUME MailboxInvariant, Mbx!WriteBeginsVf
    PROVE  MailboxInvariant'
<1>1. MailboxTypes
  BY DEF MailboxInvariant
<1>2. /\ vf.pc = "writing" /\ owner # "pf" /\ owner' = "vf"
      /\ Mbx!ReadV2P(Mbx!TakenBy("vf"), Mbx!Flushed)
      /\ VMBMEM' = [VMBMEM EXCEPT !.head = vf.msg] /\ unread' = FALSE
      /\ vf' = [vf EXCEPT !.pc = "filling"]
      /\ UNCHANGED <<MBVFICR, timeout, get_link_status, mac, pf>>
  BY <1>1, VfuShown DEF Mbx!WriteBeginsVf, Mbx!VfMoves
<1>3. /\ V2PMAILBOX' \subseteq {"PFSTS", "PFACK", "RSTI", "RSTD"}
      /\ v2p_mailbox' \subseteq {"PFSTS", "PFACK", "RSTD"}
      /\ "PFSTS" \notin Told' /\ "PFACK" \notin Told'
  BY <1>1, <1>2, ReadingKeeps DEF Mbx!Flushed
<1>4. /\ vf' \in VfType /\ vf'.pc = "filling" /\ vf'.msg = vf.msg /\ vf'.got = vf.got
      /\ vf'.n = vf.n /\ vf'.sent = vf.sent /\ vf.msg \in Mbx!Messages
  BY <1>1, <1>2 DEF MailboxTypes, VfType, VfPlaces
<1>5. VMBMEM' \in Mbx!Halves /\ VMBMEM'.head = vf.msg
  BY <1>1, <1>2, <1>4 DEF MailboxTypes, Mbx!Halves
<1>6. vf.msg.from = "vf" /\ vf.msg.n = vf.n /\ ~vf.sent
  BY <1>2 DEF MailboxInvariant, Authors
<1>7. pf.pc \notin {"filling", "copying"} /\ pf' = pf
  BY <1>2 DEF MailboxInvariant, Ownership
<1>8. MailboxTypes'
  BY <1>1, <1>2, <1>3, <1>4, <1>5 DEF MailboxTypes
<1>9. Ownership'
  BY <1>2, <1>4, <1>7 DEF Ownership
<1>10. BufferWhole'
  BY <1>4, <1>5, <1>7 DEF MailboxInvariant, BufferWhole
<1>11. Authors'
  BY <1>4, <1>5, <1>6, <1>7 DEF MailboxInvariant, Authors
<1>12. RequestInBuffer' /\ FlagsAreNew' /\ Mbx!AnswersMatch'
  BY <1>3, <1>4, <1>5, <1>6 DEF RequestInBuffer, FlagsAreNew, Mbx!AnswersMatch, Exchanging
<1>13. UnreadInBuffer' /\ Mbx!UnreadIsAnnounced'
  BY <1>2 DEF UnreadInBuffer, Mbx!UnreadIsAnnounced
<1>14. QED
  BY <1>8, <1>9, <1>10, <1>11, <1>12, <1>13 DEF MailboxInvariant

LEMMA VfWriteEnds ==
    ASSUME MailboxInvariant, Mbx!WriteEndsVf
    PROVE  MailboxInvariant'
<1>1. MailboxTypes
  BY DEF MailboxInvariant
<1>2. /\ vf.pc = "filling" /\ owner' = "none"
      /\ VMBMEM' = [VMBMEM EXCEPT !.tail = vf.msg]
      /\ MBVFICR' = MBVFICR \cup {"VFREQ"}
      /\ vf' = [vf EXCEPT !.pc = "acked", !.sent = TRUE]
      /\ UNCHANGED <<V2PMAILBOX, v2p_mailbox, timeout, get_link_status, mac, pf, unread>>
  BY DEF Mbx!WriteEndsVf
<1>3. /\ vf' \in VfType /\ vf'.pc = "acked" /\ vf'.msg = vf.msg /\ vf'.got = vf.got
      /\ vf'.n = vf.n /\ vf'.sent /\ vf.msg \in Mbx!Messages
  BY <1>1, <1>2 DEF MailboxTypes, VfType, VfPlaces
<1>4. VMBMEM.head = vf.msg /\ vf.msg.from = "vf" /\ vf.msg.n = vf.n
  BY <1>2 DEF MailboxInvariant, BufferWhole, Authors
<1>5. VMBMEM' \in Mbx!Halves /\ VMBMEM'.head = vf.msg /\ VMBMEM'.tail = vf.msg
  BY <1>1, <1>2, <1>3, <1>4 DEF MailboxTypes, Mbx!Halves
<1>6. Told' = Told /\ "PFSTS" \notin Told /\ "PFACK" \notin Told
  BY <1>2 DEF MailboxInvariant, FlagsAreNew, Told
<1>7. pf.pc \notin {"filling", "copying"} /\ pf' = pf
  BY <1>2 DEF MailboxInvariant, Ownership
<1>8. ~unread /\ ~unread'
  BY <1>2, <1>4 DEF MailboxInvariant, UnreadInBuffer
<1>9. MailboxTypes'
  <2>1. MBVFICR' \subseteq {"VFREQ", "VFACK", "VFLRE"}
    BY <1>1, <1>2 DEF MailboxTypes
  <2>2. QED
    BY <1>1, <1>2, <1>3, <1>5, <2>1 DEF MailboxTypes
<1>10. Ownership'
  BY <1>2, <1>3, <1>7 DEF Ownership
<1>11. BufferWhole'
  BY <1>3, <1>5, <1>7 DEF MailboxInvariant, BufferWhole
<1>12. Authors'
  BY <1>3, <1>4, <1>5, <1>7 DEF MailboxInvariant, Authors
<1>13. RequestInBuffer' /\ FlagsAreNew' /\ Mbx!AnswersMatch'
  BY <1>3, <1>4, <1>5, <1>6 DEF RequestInBuffer, FlagsAreNew, Mbx!AnswersMatch, Exchanging
<1>14. UnreadInBuffer' /\ Mbx!UnreadIsAnnounced'
  BY <1>8 DEF UnreadInBuffer, Mbx!UnreadIsAnnounced
<1>15. QED
  BY <1>9, <1>10, <1>11, <1>12, <1>13, <1>14 DEF MailboxInvariant

LEMMA VfReadBegins ==
    ASSUME MailboxInvariant, Mbx!ReadBeginsVf
    PROVE  MailboxInvariant'
<1>1. MailboxTypes
  BY DEF MailboxInvariant
<1>2. /\ vf.pc = "reading" /\ owner # "pf" /\ owner' = "vf"
      /\ Mbx!ReadV2P(Mbx!TakenBy("vf"), {})
      /\ vf' = [vf EXCEPT !.pc = "copying", !.got.head = VMBMEM.head]
      /\ UNCHANGED <<VMBMEM, MBVFICR, timeout, get_link_status, mac, pf, unread>>
  BY <1>1, VfuShown DEF Mbx!ReadBeginsVf
<1>3. /\ V2PMAILBOX' \subseteq {"PFSTS", "PFACK", "RSTI", "RSTD"}
      /\ v2p_mailbox' \subseteq {"PFSTS", "PFACK", "RSTD"}
      /\ "PFSTS" \in Told' <=> "PFSTS" \in Told
      /\ "PFACK" \in Told' <=> "PFACK" \in Told
  BY <1>1, <1>2, ReadingKeeps
<1>4. /\ vf' \in VfType /\ vf'.pc = "copying" /\ vf'.msg = vf.msg
      /\ vf'.got.head = VMBMEM.head /\ vf'.n = vf.n /\ vf'.sent = vf.sent
  <2>1. vf \in VfType /\ vf.got \in Mbx!Halves /\ VMBMEM.head \in Mbx!Messages
    BY <1>1 DEF MailboxTypes, VfType, Mbx!Halves
  <2>2. [vf.got EXCEPT !.head = VMBMEM.head] \in Mbx!Halves
    BY <2>1 DEF Mbx!Halves
  <2>3. /\ vf'.pc = "copying" /\ vf'.msg = vf.msg /\ vf'.n = vf.n /\ vf'.sent = vf.sent
        /\ vf'.got = [vf.got EXCEPT !.head = VMBMEM.head]
        /\ vf' \in VfType
    BY <1>2, <2>1, <2>2 DEF VfType, VfPlaces
  <2>4. QED
    BY <2>1, <2>3 DEF Mbx!Halves
<1>5. pf.pc \notin {"filling", "copying"} /\ pf' = pf
  BY <1>2 DEF MailboxInvariant, Ownership
<1>6. MailboxTypes'
  BY <1>1, <1>2, <1>3, <1>4 DEF MailboxTypes
<1>7. Ownership'
  BY <1>2, <1>4, <1>5 DEF Ownership
<1>8. BufferWhole'
  BY <1>2, <1>4, <1>5 DEF MailboxInvariant, BufferWhole
<1>9. Authors'
  BY <1>2, <1>4, <1>5 DEF MailboxInvariant, Authors
<1>10. Exchanging' => Exchanging
  BY <1>2, <1>4 DEF Exchanging
<1>11. RequestInBuffer'
  BY <1>2, <1>4, <1>5, <1>10 DEF MailboxInvariant, RequestInBuffer
<1>12. FlagsAreNew' /\ Mbx!AnswersMatch'
  BY <1>2, <1>4, <1>5 DEF MailboxInvariant, FlagsAreNew, Mbx!AnswersMatch, Exchanging
<1>13. UnreadInBuffer' /\ Mbx!UnreadIsAnnounced'
  BY <1>2, <1>4 DEF MailboxInvariant, UnreadInBuffer, Mbx!UnreadIsAnnounced
<1>14. QED
  BY <1>6, <1>7, <1>8, <1>9, <1>11, <1>12, <1>13 DEF MailboxInvariant

LEMMA VfReadEnds ==
    ASSUME MailboxInvariant, Mbx!ReadEndsVf
    PROVE  MailboxInvariant'
<1>1. MailboxTypes
  BY DEF MailboxInvariant
<1>2. /\ vf.pc = "copying" /\ owner' = "none" /\ unread' = FALSE
      /\ vf' = [vf EXCEPT !.pc = "done", !.got.tail = VMBMEM.tail]
      /\ MBVFICR' = MBVFICR \cup {"VFACK"}
      /\ UNCHANGED <<VMBMEM, V2PMAILBOX, v2p_mailbox, timeout, get_link_status, mac, pf>>
  BY DEF Mbx!ReadEndsVf
<1>3. /\ vf' \in VfType /\ vf'.pc = "done" /\ vf'.msg = vf.msg /\ vf'.n = vf.n
      /\ vf'.sent = vf.sent /\ vf'.got.head = vf.got.head /\ vf'.got.tail = VMBMEM.tail
  <2>1. vf \in VfType /\ vf.got \in Mbx!Halves /\ VMBMEM.tail \in Mbx!Messages
    BY <1>1 DEF MailboxTypes, VfType, Mbx!Halves
  <2>2. [vf.got EXCEPT !.tail = VMBMEM.tail] \in Mbx!Halves
    BY <2>1 DEF Mbx!Halves
  <2>3. /\ vf'.pc = "done" /\ vf'.msg = vf.msg /\ vf'.n = vf.n /\ vf'.sent = vf.sent
        /\ vf'.got = [vf.got EXCEPT !.tail = VMBMEM.tail]
        /\ vf' \in VfType
    BY <1>2, <2>1, <2>2 DEF VfType, VfPlaces
  <2>4. QED
    BY <2>1, <2>3 DEF Mbx!Halves
<1>4. pf.pc \notin {"filling", "copying"} /\ pf' = pf
  BY <1>2 DEF MailboxInvariant, Ownership
<1>5. vf'.got.head = VMBMEM.head /\ VMBMEM.head = VMBMEM.tail
  BY <1>2, <1>3, <1>4 DEF MailboxInvariant, BufferWhole
<1>6. vf.sent => VMBMEM.head.from = "pf" /\ pf.read = vf.n
  BY <1>2 DEF MailboxInvariant, FlagsAreNew, Exchanging
<1>7. MailboxTypes'
  <2>1. MBVFICR' \subseteq {"VFREQ", "VFACK", "VFLRE"}
    BY <1>1, <1>2 DEF MailboxTypes
  <2>2. QED
    BY <1>1, <1>2, <1>3, <2>1 DEF MailboxTypes
<1>8. Ownership'
  BY <1>2, <1>3, <1>4 DEF Ownership
<1>9. BufferWhole'
  BY <1>2, <1>3, <1>4, <1>5 DEF MailboxInvariant, BufferWhole
<1>10. Authors'
  BY <1>2, <1>3, <1>4 DEF MailboxInvariant, Authors
<1>11. RequestInBuffer'
  BY <1>2, <1>3, <1>4, <1>6 DEF MailboxInvariant, RequestInBuffer, Exchanging
<1>12. FlagsAreNew'
  BY <1>3, <1>4, <1>6 DEF FlagsAreNew, Exchanging
<1>13. Mbx!AnswersMatch'
  BY <1>3, <1>5, <1>6 DEF MailboxInvariant, Authors, Mbx!AnswersMatch
<1>14. UnreadInBuffer' /\ Mbx!UnreadIsAnnounced'
  BY <1>2 DEF UnreadInBuffer, Mbx!UnreadIsAnnounced
<1>15. QED
  BY <1>7, <1>8, <1>9, <1>10, <1>11, <1>12, <1>13, <1>14 DEF MailboxInvariant
LEMMA VfLinkMessage ==
    ASSUME MailboxInvariant, Mbx!LinkMessage
    PROVE  MailboxInvariant'
<1>1. /\ MailboxTypes /\ timeout \in BOOLEAN /\ get_link_status \in BOOLEAN
      /\ unread \in BOOLEAN
      /\ mac \in [perm_addr : BOOLEAN, addr : {"own", "perm"}]
      /\ MBVFICR \subseteq {"VFREQ", "VFACK", "VFLRE"}
      /\ owner \in {"none", "vf", "pf"}
  BY DEF MailboxInvariant, MailboxTypes
<1>2. /\ vf.pc = "checking" /\ Mbx!ReadV2P(Mbx!TakenBy("vf"), {})
      /\ vf' = [vf EXCEPT !.pc = "idle"]
      /\ UNCHANGED <<VMBMEM, timeout, mac, pf>>
  BY DEF Mbx!LinkMessage, Mbx!VfMoves
<1>3. owner # "vf"
  BY <1>2 DEF MailboxInvariant, Ownership
<1>4. \/ /\ get_link_status' = ~(VMBMEM.head.cts /\ timeout)
         /\ MBVFICR' = MBVFICR \cup {"VFACK"}
         /\ owner' = "none" /\ unread' = FALSE /\ owner # "pf"
      \/ UNCHANGED <<get_link_status, MBVFICR, owner, unread>>
  BY <1>1, VfuShown DEF Mbx!LinkMessage
<1>5. /\ owner' = owner /\ timeout' \in BOOLEAN
      /\ MBVFICR' \subseteq {"VFREQ", "VFACK", "VFLRE"}
      /\ "VFREQ" \in MBVFICR' => "VFREQ" \in MBVFICR
      /\ mac' \in [perm_addr : BOOLEAN, addr : {"own", "perm"}]
  BY <1>1, <1>2, <1>3, <1>4
<1>6. unread' \in BOOLEAN /\ (unread' => unread)
  <2>1. unread' = FALSE \/ unread' = unread
    BY <1>4
  <2>2. unread' \in BOOLEAN
    BY <1>1, <2>1
  <2>3. unread' => unread
    BY <2>1
  <2>4. QED
    BY <2>2, <2>3
<1>7. get_link_status' \in BOOLEAN
  BY <1>1, <1>4
<1>8. /\ V2PMAILBOX' \subseteq {"PFSTS", "PFACK", "RSTI", "RSTD"}
      /\ v2p_mailbox' \subseteq {"PFSTS", "PFACK", "RSTD"}
      /\ "PFSTS" \in Told' <=> "PFSTS" \in Told
      /\ "PFACK" \in Told' <=> "PFACK" \in Told
  BY <1>1, <1>2, ReadingKeeps
<1>9. QED
  BY <1>2, <1>5, <1>6, <1>7, <1>8, VfMovesOn
-----------------------------------------------------------------------------
(* The physical function. Steps in which it moves on without the buffer.   *)
LEMMA PfMovesOn ==
    ASSUME MailboxInvariant, pf' \in PfType,
           pf.pc \notin {"filling", "copying"}, pf'.pc \in {"idle", "reading", "writing"},
           pf'.read = pf.read, pf'.got = pf.got,
           pf'.pc = "writing" => pf'.msg.from = "pf" /\ pf'.msg.kind = "CONTROL",
           pf'.pc = "reading" => "VFREQ" \in MBVFICR,
           UNCHANGED <<VMBMEM, owner, unread>>, Mbx!VfSeesNothing,
           MBVFICR' \subseteq MBVFICR,
           V2PMAILBOX' \subseteq {"PFSTS", "PFACK", "RSTI", "RSTD"},
           "PFSTS" \in Told' <=> "PFSTS" \in Told,
           "PFACK" \in Told' <=> "PFACK" \in Told
    PROVE  MailboxInvariant'
<1>1. MailboxTypes
  BY DEF MailboxInvariant
<1>2. UNCHANGED <<v2p_mailbox, timeout, get_link_status, mac, vf>>
  BY DEF Mbx!VfSeesNothing
<1>3. MailboxTypes'
  BY <1>1, <1>2 DEF MailboxTypes
<1>4. Ownership'
  BY <1>2 DEF MailboxInvariant, Ownership
<1>5. BufferWhole'
  BY <1>2 DEF MailboxInvariant, BufferWhole
<1>6. Authors'
  BY <1>2 DEF MailboxInvariant, Authors
<1>7. RequestInBuffer'
  BY <1>2 DEF MailboxInvariant, RequestInBuffer, Exchanging
<1>8. FlagsAreNew'
  <2>1. (Told \cap {"PFACK", "PFSTS"} = {}) => (Told' \cap {"PFACK", "PFSTS"} = {})
    OBVIOUS
  <2>2. QED
    BY <1>2, <2>1 DEF MailboxInvariant, FlagsAreNew, Exchanging
<1>9. UnreadInBuffer'
  BY DEF MailboxInvariant, UnreadInBuffer
<1>10. Mbx!UnreadIsAnnounced'
  BY <1>2 DEF MailboxInvariant, Mbx!UnreadIsAnnounced, Told
<1>11. Mbx!AnswersMatch'
  BY <1>2 DEF MailboxInvariant, Mbx!AnswersMatch
<1>12. QED
  BY <1>3, <1>4, <1>5, <1>6, <1>7, <1>8, <1>9, <1>10, <1>11 DEF MailboxInvariant

LEMMA PfRegisters ==
    ASSUME MailboxInvariant,
           \/ Mbx!e1000_check_for_msg_pf \/ Mbx!e1000_check_for_ack_pf \/ Mbx!e1000_check_for_rst_pf
           \/ Mbx!LockFailsPf \/ Mbx!SendsControl \/ Mbx!Resets
    PROVE  MailboxInvariant'
<1>1. /\ MailboxTypes /\ pf \in PfType /\ pf.left \in 0 .. MaxUnsolicited
      /\ V2PMAILBOX \subseteq {"PFSTS", "PFACK", "RSTI", "RSTD"}
  BY DEF MailboxInvariant, MailboxTypes, PfType
<1>2. CASE Mbx!e1000_check_for_msg_pf
  <2>1. /\ pf.pc = "idle" /\ "VFREQ" \in MBVFICR /\ MBVFICR' \subseteq MBVFICR
        /\ pf' = [pf EXCEPT !.pc = "reading"]
        /\ UNCHANGED <<VMBMEM, owner, V2PMAILBOX, unread>> /\ Mbx!VfSeesNothing
    BY <1>2 DEF Mbx!e1000_check_for_msg_pf, Mbx!PfMoves
  <2>2. /\ pf' \in PfType /\ pf'.pc = "reading" /\ pf'.read = pf.read /\ pf'.got = pf.got
    BY <1>1, <2>1 DEF PfType, PfPlaces
  <2>3. Told' = Told
    BY <2>1 DEF Told, Mbx!VfSeesNothing
  <2>4. QED
    BY <1>1, <2>1, <2>2, <2>3, PfMovesOn
<1>3. CASE Mbx!e1000_check_for_ack_pf \/ Mbx!e1000_check_for_rst_pf
  <2>1. /\ pf.pc = "idle" /\ MBVFICR' \subseteq MBVFICR
        /\ UNCHANGED <<VMBMEM, owner, V2PMAILBOX, unread, pf>> /\ Mbx!VfSeesNothing
    BY <1>3 DEF Mbx!e1000_check_for_ack_pf, Mbx!e1000_check_for_rst_pf
  <2>2. Told' = Told
    BY <2>1 DEF Told, Mbx!VfSeesNothing
  <2>3. QED
    BY <1>1, <2>1, <2>2, PfMovesOn
<1>4. CASE Mbx!LockFailsPf
  <2>1. /\ pf.pc \in {"reading", "writing"} /\ pf' = [pf EXCEPT !.pc = "idle"]
        /\ UNCHANGED <<VMBMEM, owner, V2PMAILBOX, MBVFICR, unread>> /\ Mbx!VfSeesNothing
    BY <1>4 DEF Mbx!LockFailsPf, Mbx!PfMoves
  <2>2. /\ pf' \in PfType /\ pf'.pc = "idle" /\ pf'.read = pf.read /\ pf'.got = pf.got
    BY <1>1, <2>1 DEF PfType, PfPlaces
  <2>3. Told' = Told
    BY <2>1 DEF Told, Mbx!VfSeesNothing
  <2>4. QED
    BY <1>1, <2>1, <2>2, <2>3, PfMovesOn
<1>5. CASE Mbx!SendsControl
  <2> DEFINE m == Mbx!Msg("pf", "CONTROL", 0, "none", TRUE)
  <2>1. /\ pf.pc = "idle" /\ pf.left > 0
        /\ pf' = [pf EXCEPT !.pc = "writing", !.left = @ - 1, !.msg = m]
        /\ UNCHANGED <<VMBMEM, owner, V2PMAILBOX, MBVFICR, unread>> /\ Mbx!VfSeesNothing
    BY <1>5 DEF Mbx!SendsControl
  <2>2. m \in Mbx!Messages /\ m.from = "pf" /\ m.kind = "CONTROL"
    BY Numbers DEF Mbx!Msg, Mbx!Messages
  <2> HIDE DEF m
  <2>3. pf.left - 1 \in 0 .. MaxUnsolicited
    BY <1>1, <2>1, Numbers
  <2>4. /\ pf' \in PfType /\ pf'.pc = "writing" /\ pf'.read = pf.read /\ pf'.got = pf.got
        /\ pf'.msg = m
    BY <1>1, <2>1, <2>2, <2>3 DEF PfType, PfPlaces
  <2>5. Told' = Told
    BY <2>1 DEF Told, Mbx!VfSeesNothing
  <2>6. QED
    BY <1>1, <2>1, <2>2, <2>4, <2>5, PfMovesOn
<1>6. CASE Mbx!Resets
  <2>1. /\ pf.pc = "idle" /\ UNCHANGED <<VMBMEM, owner, MBVFICR, unread>> /\ Mbx!VfSeesNothing
        /\ \/ pf.left > 0 /\ pf' = [pf EXCEPT !.left = @ - 1]
           \/ pf' = pf
        /\ \/ V2PMAILBOX' = V2PMAILBOX \cup {"RSTI"}
           \/ V2PMAILBOX' = (V2PMAILBOX \ {"RSTI"}) \cup {"RSTD"}
    BY <1>6 DEF Mbx!Resets
  <2>2. pf.left > 0 => pf.left - 1 \in 0 .. MaxUnsolicited
    BY <1>1, Numbers
  <2>3. /\ pf' \in PfType /\ pf'.pc = "idle" /\ pf'.read = pf.read /\ pf'.got = pf.got
    BY <1>1, <2>1, <2>2 DEF PfType, PfPlaces
  <2>4. V2PMAILBOX' \subseteq {"PFSTS", "PFACK", "RSTI", "RSTD"}
    BY <1>1, <2>1
  <2>5. v2p_mailbox' = v2p_mailbox
    BY <2>1 DEF Mbx!VfSeesNothing
  <2>6. /\ "PFSTS" \in Told' <=> "PFSTS" \in Told
        /\ "PFACK" \in Told' <=> "PFACK" \in Told
    BY <2>1, <2>5 DEF Told
  <2>7. QED
    BY <1>1, <2>1, <2>3, <2>4, <2>6, PfMovesOn
<1>7. QED
  BY <1>2, <1>3, <1>4, <1>5, <1>6
(* The physical function with the buffer.                                  *)
LEMMA PfReadBegins ==
    ASSUME MailboxInvariant, Mbx!ReadBeginsPf
    PROVE  MailboxInvariant'
<1>1. MailboxTypes
  BY DEF MailboxInvariant
<1>2. /\ pf.pc = "reading" /\ owner # "vf" /\ owner' = "pf"
      /\ pf' = [pf EXCEPT !.pc = "copying", !.got.head = VMBMEM.head]
      /\ UNCHANGED <<VMBMEM, V2PMAILBOX, MBVFICR, unread>>
      /\ UNCHANGED <<v2p_mailbox, timeout, get_link_status, mac, vf>>
  BY <1>1, VfuShown DEF Mbx!ReadBeginsPf, Mbx!VfSeesNothing, Mbx!Obtains
<1>3. /\ pf' \in PfType /\ pf'.pc = "copying" /\ pf'.msg = pf.msg
      /\ pf'.got.head = VMBMEM.head /\ pf'.read = pf.read
  <2>1. pf \in PfType /\ pf.got \in Mbx!Halves /\ VMBMEM.head \in Mbx!Messages
    BY <1>1 DEF MailboxTypes, PfType, Mbx!Halves
  <2>2. [pf.got EXCEPT !.head = VMBMEM.head] \in Mbx!Halves
    BY <2>1 DEF Mbx!Halves
  <2>3. /\ pf'.pc = "copying" /\ pf'.msg = pf.msg /\ pf'.read = pf.read
        /\ pf'.got = [pf.got EXCEPT !.head = VMBMEM.head]
        /\ pf' \in PfType
    BY <1>2, <2>1, <2>2 DEF PfType, PfPlaces
  <2>4. QED
    BY <2>1, <2>3 DEF Mbx!Halves
<1>4. vf.pc \notin {"filling", "copying"} /\ Told' = Told
  BY <1>2 DEF MailboxInvariant, Ownership, Told
<1>5. MailboxTypes'
  BY <1>1, <1>2, <1>3 DEF MailboxTypes
<1>6. Ownership'
  BY <1>2, <1>3, <1>4 DEF Ownership
<1>7. BufferWhole'
  BY <1>2, <1>3, <1>4 DEF MailboxInvariant, BufferWhole
<1>8. Authors'
  BY <1>2, <1>3 DEF MailboxInvariant, Authors
<1>9. RequestInBuffer'
  BY <1>2, <1>3 DEF MailboxInvariant, RequestInBuffer, Exchanging
<1>10. FlagsAreNew' /\ Mbx!AnswersMatch'
  BY <1>2, <1>3, <1>4 DEF MailboxInvariant, FlagsAreNew, Mbx!AnswersMatch, Exchanging
<1>11. UnreadInBuffer' /\ Mbx!UnreadIsAnnounced'
  BY <1>2, <1>3 DEF MailboxInvariant, UnreadInBuffer, Mbx!UnreadIsAnnounced
<1>12. QED
  BY <1>5, <1>6, <1>7, <1>8, <1>9, <1>10, <1>11 DEF MailboxInvariant

LEMMA PfReadEnds ==
    ASSUME MailboxInvariant, Mbx!ReadEndsPf
    PROVE  MailboxInvariant'
<1>1. MailboxTypes
  BY DEF MailboxInvariant
<1>2. PICK answer \in {Mbx!Answers(pf.got.head), Mbx!Refuses(pf.got.head)} :
        pf' = [pf EXCEPT !.pc = "writing", !.got.tail = VMBMEM.tail, !.msg = answer,
                         !.read = pf.got.head.n]
  BY DEF Mbx!ReadEndsPf
<1>3. /\ pf.pc = "copying" /\ V2PMAILBOX' = V2PMAILBOX \cup {"PFACK"} /\ owner' = "none"
      /\ UNCHANGED <<VMBMEM, MBVFICR, unread>>
      /\ UNCHANGED <<v2p_mailbox, timeout, get_link_status, mac, vf>>
  BY DEF Mbx!ReadEndsPf, Mbx!VfSeesNothing
<1>4. vf.pc \notin {"filling", "copying"} /\ owner = "pf"
  BY <1>3 DEF MailboxInvariant, Ownership
<1>5. /\ pf.got.head = VMBMEM.head /\ VMBMEM.head = VMBMEM.tail
      /\ VMBMEM.head.from = "vf" /\ VMBMEM.head \in Mbx!Messages
  BY <1>1, <1>3, <1>4
     DEF MailboxInvariant, BufferWhole, RequestInBuffer, MailboxTypes, Mbx!Halves
<1>6. /\ answer \in Mbx!Messages /\ answer.from = "pf" /\ answer.n = VMBMEM.head.n
  <2> DEFINE h == VMBMEM.head
             base == Mbx!Msg("pf", h.kind, h.n, "none", h.kind # "RESET")
  <2>1. h.kind \in Mbx!Kinds \cup {"CONTROL"} /\ h.n \in 0 .. MaxRequests
    BY <1>5 DEF Mbx!Messages
  <2>2. (h.kind # "RESET") \in BOOLEAN /\ 0 \in 0 .. MaxHashes
    BY Numbers
  <2>3. base \in Mbx!Messages /\ base.from = "pf" /\ base.n = h.n
    BY <2>1, <2>2 DEF Mbx!Msg, Mbx!Messages
  <2>4. \/ answer = [base EXCEPT !.type = "ACK"]
        \/ answer = [base EXCEPT !.type = "NACK"]
    BY <1>5 DEF Mbx!Answers, Mbx!Refuses
  <2> HIDE DEF base
  <2>5. QED
    BY <2>3, <2>4 DEF Mbx!Messages
<1>7. /\ pf' \in PfType /\ pf'.pc = "writing" /\ pf'.msg = answer
      /\ pf'.got.head = VMBMEM.head /\ pf'.got.tail = VMBMEM.tail
      /\ pf'.read = VMBMEM.head.n
  <2>1. /\ pf \in PfType /\ pf.got \in Mbx!Halves /\ VMBMEM.tail \in Mbx!Messages
        /\ VMBMEM.head.n \in 0 .. MaxRequests
    BY <1>1, <1>5 DEF MailboxTypes, PfType, Mbx!Halves, Mbx!Messages
  <2>2. [pf.got EXCEPT !.tail = VMBMEM.tail] \in Mbx!Halves
    BY <2>1 DEF Mbx!Halves
  <2>3. /\ pf'.pc = "writing" /\ pf'.msg = answer /\ pf'.read = pf.got.head.n
        /\ pf'.got = [pf.got EXCEPT !.tail = VMBMEM.tail]
        /\ pf' \in PfType
    BY <1>2, <1>5, <1>6, <2>1, <2>2 DEF PfType, PfPlaces
  <2>4. QED
    BY <1>5, <2>1, <2>3 DEF Mbx!Halves
<1>8. Told' = Told \cup {"PFACK"}
  BY <1>3 DEF Told
<1>9. MailboxTypes'
  <2>1. V2PMAILBOX' \subseteq {"PFSTS", "PFACK", "RSTI", "RSTD"}
    BY <1>1, <1>3 DEF MailboxTypes
  <2>2. QED
    BY <1>1, <1>3, <1>7, <2>1 DEF MailboxTypes
<1>10. Ownership'
  BY <1>3, <1>4, <1>7 DEF Ownership
<1>11. BufferWhole'
  BY <1>3, <1>4, <1>5, <1>7 DEF MailboxInvariant, BufferWhole
<1>12. Authors'
  BY <1>3, <1>5, <1>6, <1>7 DEF MailboxInvariant, Authors
<1>13. RequestInBuffer'
  BY <1>3, <1>7 DEF MailboxInvariant, RequestInBuffer, Exchanging
<1>14. Exchanging => VMBMEM.head.n = vf.n
  BY <1>5 DEF MailboxInvariant, RequestInBuffer
<1>15. FlagsAreNew'
  <2>1. vf.pc = "acked" => Exchanging
    BY DEF MailboxInvariant, Authors, Exchanging
  <2>2. "PFSTS" \in Told' <=> "PFSTS" \in Told
    BY <1>8
  <2>3. QED
    BY <1>3, <1>4, <1>7, <1>14, <2>1, <2>2 DEF MailboxInvariant, FlagsAreNew, Exchanging
<1>16. UnreadInBuffer' /\ Mbx!UnreadIsAnnounced'
  BY <1>3, <1>5 DEF MailboxInvariant, UnreadInBuffer, Mbx!UnreadIsAnnounced
<1>17. Mbx!AnswersMatch'
  BY <1>3 DEF MailboxInvariant, Mbx!AnswersMatch
<1>18. QED
  BY <1>9, <1>10, <1>11, <1>12, <1>13, <1>15, <1>16, <1>17 DEF MailboxInvariant

LEMMA PfWriteBegins ==
    ASSUME MailboxInvariant, Mbx!WriteBeginsPf
    PROVE  MailboxInvariant'
<1>1. MailboxTypes
  BY DEF MailboxInvariant
<1>2. /\ pf.pc = "writing" /\ owner # "vf" /\ owner' = "pf"
      /\ MBVFICR' = MBVFICR \ {"VFREQ", "VFACK"}
      /\ VMBMEM' = [VMBMEM EXCEPT !.head = pf.msg]
      /\ pf' = [pf EXCEPT !.pc = "filling"]
      /\ UNCHANGED <<V2PMAILBOX, unread>>
      /\ UNCHANGED <<v2p_mailbox, timeout, get_link_status, mac, vf>>
  BY <1>1, VfuShown DEF Mbx!WriteBeginsPf, Mbx!VfSeesNothing, Mbx!Obtains, Mbx!PfMoves
<1>3. /\ pf' \in PfType /\ pf'.pc = "filling" /\ pf'.msg = pf.msg /\ pf'.got = pf.got
      /\ pf'.read = pf.read /\ pf.msg \in Mbx!Messages
  BY <1>1, <1>2 DEF MailboxTypes, PfType, PfPlaces
<1>4. /\ VMBMEM' \in Mbx!Halves /\ VMBMEM'.head = pf.msg
  BY <1>1, <1>2, <1>3 DEF MailboxTypes, Mbx!Halves
<1>5. pf.msg.from = "pf" /\ (pf.msg.kind = "CONTROL" \/ pf.msg.n = pf.read)
  BY <1>2 DEF MailboxInvariant, Authors
<1>6. vf.pc \notin {"filling", "copying"} /\ Told' = Told /\ vf' = vf
  BY <1>2 DEF MailboxInvariant, Ownership, Told
<1>7. MailboxTypes'
  <2>1. MBVFICR' \subseteq {"VFREQ", "VFACK", "VFLRE"}
    BY <1>1, <1>2 DEF MailboxTypes
  <2>2. QED
    BY <1>1, <1>2, <1>3, <1>4, <2>1 DEF MailboxTypes
<1>8. Ownership'
  BY <1>2, <1>3, <1>6 DEF Ownership
<1>9. BufferWhole'
  BY <1>3, <1>4, <1>6 DEF MailboxInvariant, BufferWhole
<1>10. Authors'
  BY <1>3, <1>4, <1>5, <1>6 DEF MailboxInvariant, Authors
<1>11. RequestInBuffer'
  BY <1>2, <1>3, <1>4, <1>5, <1>6 DEF RequestInBuffer
<1>12. FlagsAreNew'
  BY <1>3, <1>4, <1>5, <1>6 DEF MailboxInvariant, FlagsAreNew, Exchanging
<1>13. Mbx!AnswersMatch'
  BY <1>6 DEF MailboxInvariant, Mbx!AnswersMatch
<1>14. UnreadInBuffer' /\ Mbx!UnreadIsAnnounced'
  BY <1>2, <1>4, <1>5 DEF UnreadInBuffer, Mbx!UnreadIsAnnounced
<1>15. QED
  BY <1>7, <1>8, <1>9, <1>10, <1>11, <1>12, <1>13, <1>14 DEF MailboxInvariant

LEMMA PfWriteEnds ==
    ASSUME MailboxInvariant, Mbx!WriteEndsPf
    PROVE  MailboxInvariant'
<1>1. MailboxTypes
  BY DEF MailboxInvariant
<1>2. /\ pf.pc = "filling" /\ owner' = "none" /\ unread' = TRUE
      /\ VMBMEM' = [VMBMEM EXCEPT !.tail = pf.msg]
      /\ V2PMAILBOX' = V2PMAILBOX \cup {"PFSTS"}
      /\ pf' = [pf EXCEPT !.pc = "idle"]
      /\ UNCHANGED <<MBVFICR, v2p_mailbox, timeout, get_link_status, mac, vf>>
  BY DEF Mbx!WriteEndsPf, Mbx!VfSeesNothing, Mbx!PfMoves
<1>3. /\ pf' \in PfType /\ pf'.pc = "idle" /\ pf'.msg = pf.msg /\ pf'.got = pf.got
      /\ pf'.read = pf.read /\ pf.msg \in Mbx!Messages
  BY <1>1, <1>2 DEF MailboxTypes, PfType, PfPlaces
<1>4. VMBMEM.head = pf.msg /\ pf.msg.from = "pf"
  BY <1>2 DEF MailboxInvariant, BufferWhole, Authors
<1>5. VMBMEM' \in Mbx!Halves /\ VMBMEM'.head = VMBMEM.head /\ VMBMEM'.tail = VMBMEM.head
  BY <1>1, <1>2, <1>3, <1>4 DEF MailboxTypes, Mbx!Halves
<1>6. vf.pc \notin {"filling", "copying"} /\ vf' = vf /\ Told' = Told \cup {"PFSTS"}
  BY <1>2 DEF MailboxInvariant, Ownership, Told
<1>7. MailboxTypes'
  <2>1. V2PMAILBOX' \subseteq {"PFSTS", "PFACK", "RSTI", "RSTD"}
    BY <1>1, <1>2 DEF MailboxTypes
  <2>2. unread' \in BOOLEAN
    BY <1>2
  <2>3. QED
    BY <1>1, <1>2, <1>3, <1>5, <2>1, <2>2 DEF MailboxTypes
<1>8. Ownership'
  BY <1>2, <1>3, <1>6 DEF Ownership
<1>9. BufferWhole'
  BY <1>3, <1>5, <1>6 DEF MailboxInvariant, BufferWhole
<1>10. Authors'
  BY <1>3, <1>5, <1>6 DEF MailboxInvariant, Authors
<1>11. RequestInBuffer'
  BY <1>2, <1>3, <1>5, <1>6 DEF MailboxInvariant, RequestInBuffer, Exchanging
<1>12. FlagsAreNew'
  <2>1. "PFACK" \in Told' <=> "PFACK" \in Told
    BY <1>6
  <2>2. QED
    BY <1>3, <1>4, <1>5, <1>6, <2>1 DEF MailboxInvariant, FlagsAreNew, Exchanging
<1>13. Mbx!AnswersMatch'
  BY <1>6 DEF MailboxInvariant, Mbx!AnswersMatch
<1>14. UnreadInBuffer' /\ Mbx!UnreadIsAnnounced'
  BY <1>2, <1>4, <1>5, <1>6 DEF UnreadInBuffer, Mbx!UnreadIsAnnounced, Told
<1>15. QED
  BY <1>7, <1>8, <1>9, <1>10, <1>11, <1>12, <1>13, <1>14 DEF MailboxInvariant
-----------------------------------------------------------------------------
LEMMA MailboxStarts == Mbx!Init => MailboxInvariant
<1> SUFFICES ASSUME Mbx!Init PROVE MailboxInvariant
  OBVIOUS
<1>1. Mbx!Blank \in Mbx!Messages /\ Mbx!Blank.from = "none" /\ Mbx!Both(Mbx!Blank) \in Mbx!Halves
      /\ Mbx!Both(Mbx!Blank).head = Mbx!Blank /\ Mbx!Both(Mbx!Blank).tail = Mbx!Blank
  BY Numbers DEF Mbx!Blank, Mbx!Msg, Mbx!Messages, Mbx!Both, Mbx!Halves
<1> HIDE DEF Mbx!Blank
<1>2. MailboxTypes
  <2>1. 0 \in 0 .. MaxRequests /\ MaxUnsolicited \in 0 .. MaxUnsolicited
    BY Numbers
  <2>2. vf \in VfType
    BY <1>1, <2>1 DEF Mbx!Init, VfType, VfPlaces
  <2>3. pf \in PfType
    BY <1>1, <2>1 DEF Mbx!Init, PfType, PfPlaces
  <2>4. mac \in [perm_addr : BOOLEAN, addr : {"own", "perm"}]
    BY DEF Mbx!Init
  <2>5. timeout \in BOOLEAN /\ get_link_status \in BOOLEAN /\ unread \in BOOLEAN
    BY DEF Mbx!Init
  <2>6. QED
    BY <1>1, <2>2, <2>3, <2>4, <2>5 DEF Mbx!Init, MailboxTypes
<1>3. Ownership /\ BufferWhole /\ Authors
  BY <1>1 DEF Mbx!Init, Ownership, BufferWhole, Authors
<1>4. RequestInBuffer /\ FlagsAreNew /\ Mbx!AnswersMatch
  BY <1>1 DEF Mbx!Init, RequestInBuffer, FlagsAreNew, Mbx!AnswersMatch, Exchanging
<1>5. UnreadInBuffer /\ Mbx!UnreadIsAnnounced
  BY DEF Mbx!Init, UnreadInBuffer, Mbx!UnreadIsAnnounced
<1>6. QED
  BY <1>2, <1>3, <1>4, <1>5 DEF MailboxInvariant

LEMMA MailboxRests == ASSUME MailboxInvariant, UNCHANGED Mbx!mbxVars PROVE MailboxInvariant'
BY DEF Mbx!mbxVars, MailboxInvariant, MailboxTypes, Ownership, BufferWhole, Authors,
       RequestInBuffer, FlagsAreNew, UnreadInBuffer, Mbx!UnreadIsAnnounced, Mbx!AnswersMatch,
       Exchanging, Told

LEMMA MailboxGoesOn == ASSUME MailboxInvariant, Mbx!Next PROVE MailboxInvariant'
<1>1. CASE Mbx!VirtualFunction
  BY <1>1, VfRegisters, VfRequests, VfWriteBegins, VfWriteEnds, VfReadBegins, VfReadEnds,
     VfLinkMessage DEF Mbx!VirtualFunction
<1>2. CASE Mbx!PhysicalFunction
  BY <1>2, PfRegisters, PfReadBegins, PfReadEnds, PfWriteBegins, PfWriteEnds
     DEF Mbx!PhysicalFunction
<1>3. QED
  BY <1>1, <1>2 DEF Mbx!Next

LEMMA MailboxTells == MailboxInvariant => Mbx!Conversation
BY DEF MailboxInvariant, Mbx!Conversation, Mbx!MessagesWhole, Mbx!AcknowledgedWasRead, BufferWhole,
       FlagsAreNew, Exchanging

LEMMA MailboxInvariance == ServicesSpec => []MailboxInvariant
<1>1. ServicesInit => MailboxInvariant
  BY MailboxStarts DEF ServicesInit
<1>2. MailboxInvariant /\ [ServicesNext]_serviceVars => MailboxInvariant'
  <2> SUFFICES ASSUME MailboxInvariant, [ServicesNext]_serviceVars PROVE MailboxInvariant'
    OBVIOUS
  <2>1. Mbx!Next \/ UNCHANGED mbxVars
    BY DEF ServicesNext, serviceVars
  <2>2. UNCHANGED mbxVars => UNCHANGED Mbx!mbxVars
    BY DEF mbxVars, Mbx!mbxVars
  <2>3. QED
    BY <2>1, <2>2, MailboxRests, MailboxGoesOn
<1>3. QED
  BY <1>1, <1>2, PTL DEF ServicesSpec

(* However many requests are made and time out, and whatever the other end *)
(* sends: messages are read whole, and an acknowledgement or an answer the *)
(* virtual function accepts is one to the request it waits for.            *)
THEOREM MessagesAreHeard == ServicesSpec => []Conversation
<1>1. MailboxInvariant => Conversation
  BY MailboxTells DEF Conversation
<1>2. QED
  BY <1>1, MailboxInvariance, PTL

(* Every read of V2PMAILBOX keeps in v2p_mailbox the bits it clears: no    *)
(* message that is in the buffer and was not read goes without its flag.   *)
THEOREM MessagesAreAnnounced == ServicesSpec => []UnreadIsAnnounced
<1>1. MailboxInvariant => UnreadIsAnnounced
  BY DEF MailboxInvariant, UnreadIsAnnounced
<1>2. QED
  BY <1>1, MailboxInvariance, PTL
-----------------------------------------------------------------------------
(* Division, for the block and the place in it of a dword.                 *)

LEMMA Divided ==
    ASSUME NEW n \in Nat \ {0}, NEW k \in Nat
    PROVE  /\ k % n \in 0 .. (n - 1)
           /\ k \div n \in Nat
           /\ k = (n * (k \div n)) + (k % n)
OBVIOUS

LEMMA Multiples ==
    ASSUME NEW n \in Nat, NEW p \in Nat, NEW q \in Nat, p < q
    PROVE  (n * p) + n <= n * q
OBVIOUS

LEMMA DivisionUnique ==
    ASSUME NEW n \in Nat \ {0}, NEW p \in Nat, NEW q \in Nat,
           NEW r \in 0 .. (n - 1), NEW s \in 0 .. (n - 1), (n * q) + r = (n * p) + s
    PROVE  q = p /\ r = s
<1>1. n * q \in Nat /\ n * p \in Nat
  OBVIOUS
<1>2. ~(q < p)
  <2>1. q < p => (n * q) + n <= n * p
    BY Multiples
  <2>2. QED
    BY <1>1, <2>1
<1>3. ~(p < q)
  <2>1. p < q => (n * p) + n <= n * q
    BY Multiples
  <2>2. QED
    BY <1>1, <2>1
<1>4. QED
  BY <1>2, <1>3

LEMMA DivisionMonotonic ==
    ASSUME NEW n \in Nat \ {0}, NEW i \in Nat, NEW k \in Nat, i <= k
    PROVE  i \div n <= k \div n
<1> DEFINE q == i \div n
           p == k \div n
<1>1. /\ i % n \in 0 .. (n - 1) /\ q \in Nat /\ i = (n * q) + (i % n)
      /\ k % n \in 0 .. (n - 1) /\ p \in Nat /\ k = (n * p) + (k % n)
  BY Divided
<1> HIDE DEF q, p
<1>2. p < q => (n * p) + n <= n * q
  BY <1>1, Multiples
<1>3. n * q \in Nat /\ n * p \in Nat
  BY <1>1
<1>4. q <= p
  BY <1>1, <1>2, <1>3
<1>5. QED
  BY <1>4 DEF q, p

(* The next dword is in the same block unless it starts one. *)
LEMMA SameBlockNext ==
    ASSUME NEW n \in Nat \ {0}, NEW i \in Nat, (i + 1) % n # 0
    PROVE  (i + 1) \div n = i \div n
<1> DEFINE q == i \div n
           r == i % n
           p == (i + 1) \div n
           s == (i + 1) % n
<1>1. r \in 0 .. (n - 1) /\ q \in Nat /\ i = (n * q) + r
  BY Divided
<1>2. i + 1 \in Nat
  OBVIOUS
<1>3. s \in 0 .. (n - 1) /\ p \in Nat /\ i + 1 = (n * p) + s
  BY <1>2, Divided
<1>4. s # 0
  OBVIOUS
<1> HIDE DEF q, r, p, s
<1>5. s - 1 \in 0 .. (n - 1)
  BY <1>3, <1>4
<1>6. n * q \in Nat /\ n * p \in Nat
  BY <1>1, <1>3
<1>7. (n * q) + r = (n * p) + (s - 1)
  BY <1>1, <1>3, <1>6
<1>8. p = q
  BY <1>1, <1>3, <1>5, <1>7, DivisionUnique
<1>9. QED
  BY <1>8 DEF p, q

(* Two dwords are not stored at the same place. *)
LEMMA PlacesDiffer ==
    ASSUME NEW n \in Nat \ {0}, NEW i \in Nat, NEW k \in Nat,
           i \div n = k \div n, i % n = k % n
    PROVE  i = k
<1>1. i = (n * (i \div n)) + (i % n)
  BY Divided
<1>2. k = (n * (k \div n)) + (k % n)
  BY Divided
<1>3. QED
  BY <1>1, <1>2
-----------------------------------------------------------------------------
(* The host interface: the inductive invariant. *)

CallType ==
    [step : Host!Steps, length : Nat, i : Nat, status : {"SUCCESS", "HOST_INTERFACE_COMMAND"},
     answer : Seq(Nat), kind : {"none", "command", "load"}]

HostTypes ==
    /\ HIBBA \in Host!Blocks
    /\ window \in [Host!Slots -> Nat]
    /\ image \in [Host!Blocks -> [Host!Slots -> Host!Dwords]]
    /\ call \in CallType

(* Without a command the window shows what the firmware has answered.      *)
Answered == "C" \notin HICR /\ "SV" \in HICR => \A s \in Host!Slots : window[s] = 0

(* What kind of call has which steps, and how long it may be.              *)
StepsOfKinds ==
    /\ call.step = "command" => call.kind = "command" /\ call.length <= BlockLength
    /\ call.step \in {"awaitReset", "awaitMode", "copying", "load"} => call.kind = "load"
    /\ call.kind = "load" => call.length <= MaxLength

(* What was copied lies in its place, and the window over the block of the *)
(* dword that comes next, unless that one is the first of a block.         *)
Stored(k) == image[k \div BlockLength][k % BlockLength] = k + 1
CopiedSoFar ==
    /\ call.step = "copying" =>
         /\ call.i <= call.length
         /\ \A k \in 0 .. (call.i - 1) : Stored(k)
         /\ call.i % BlockLength # 0 => HIBBA = call.i \div BlockLength
    /\ call.step = "load" => \A k \in 0 .. (call.length - 1) : Stored(k)

HostInvariant ==
    /\ HostTypes /\ Answered /\ StepsOfKinds /\ CopiedSoFar
    /\ Host!AnswerIsFirmwares /\ Host!LoadedWhole
-----------------------------------------------------------------------------
LEMMA Lengths ==
    /\ BlockLength \in Nat \ {0} /\ MaxLength \in Nat \ {0}
    /\ BlockLength \in Nat /\ MaxLength \in Nat /\ BlockLength >= 1 /\ MaxLength >= 1
BY ServicesAssumption

(* The place of a dword is in the firmware's memory. *)
LEMMA PlaceInMemory ==
    ASSUME NEW k \in 0 .. (MaxLength - 1)
    PROVE  /\ k \div BlockLength \in Host!Blocks /\ k % BlockLength \in Host!Slots
           /\ k \in Nat
<1>1. k \in Nat /\ MaxLength - 1 \in Nat /\ k <= MaxLength - 1
  BY Lengths
<1>2. k % BlockLength \in 0 .. (BlockLength - 1) /\ k \div BlockLength \in Nat
  BY <1>1, Lengths, Divided
<1>3. (MaxLength - 1) \div BlockLength \in Nat
  BY <1>1, Lengths, Divided
<1>4. k \div BlockLength <= (MaxLength - 1) \div BlockLength
  BY <1>1, Lengths, DivisionMonotonic
<1>5. QED
  BY <1>1, <1>2, <1>3, <1>4 DEF Host!Blocks, Host!Slots

LEMMA FirstPlace ==
    /\ 0 % BlockLength = 0 /\ 0 \in Host!Blocks
<1>1. 0 \in 0 .. (MaxLength - 1)
  BY Lengths
<1>2. 0 % BlockLength \in 0 .. (BlockLength - 1) /\ 0 \div BlockLength \in Nat
      /\ 0 = (BlockLength * (0 \div BlockLength)) + (0 % BlockLength)
  BY Lengths, Divided
<1>3. (MaxLength - 1) \div BlockLength \in Nat
  <2>1. MaxLength - 1 \in Nat
    BY Lengths
  <2>2. QED
    BY <2>1, Lengths, Divided
<1>4. BlockLength * (0 \div BlockLength) \in Nat
  BY <1>2, Lengths
<1>5. QED
  BY <1>2, <1>3, <1>4 DEF Host!Blocks

(* Steps in which the call goes on, and the window and the memory stay.    *)
LEMMA HostCallMoves ==
    ASSUME HostInvariant, UNCHANGED <<window, HIBBA, image>>,
           "C" \notin HICR' /\ "SV" \in HICR' => "C" \notin HICR /\ "SV" \in HICR,
           NEW step \in Host!Steps, NEW i \in Nat,
           NEW status \in {"SUCCESS", "HOST_INTERFACE_COMMAND"},
           call' = [call EXCEPT !.step = step, !.i = i, !.status = status],
           \/ step = call.step /\ step # "copying"
           \/ step = "idle" /\ call.step # "idle" /\ status # "SUCCESS"
           \/ step = "idle" /\ call.step = "load"
           \/ step = "load" /\ call.step = "copying" /\ call.i = call.length
           \/ step = "copying" /\ i = 0 /\ call.step = "awaitMode"
           \/ step = "awaitMode" /\ call.step = "awaitReset",
           step = "idle" => call.step # "idle"
    PROVE  HostInvariant'
<1>1. HostTypes /\ call \in CallType
  BY DEF HostInvariant, HostTypes
<1>2. /\ call' \in CallType /\ call'.step = step /\ call'.i = i /\ call'.status = status
      /\ call'.length = call.length /\ call'.kind = call.kind /\ call'.answer = call.answer
  BY <1>1 DEF CallType
<1>3. HostTypes'
  BY <1>1, <1>2 DEF HostTypes
<1>4. Answered'
  BY DEF HostInvariant, Answered
<1>5. StepsOfKinds'
  BY <1>2 DEF HostInvariant, StepsOfKinds, Host!Steps
<1>6. CopiedSoFar'
  <2>1. \A k : Stored(k)' <=> Stored(k)
    BY DEF Stored
  <2>2. 0 <= call.length /\ 0 .. (0 - 1) = {}
    BY <1>1 DEF CallType
  <2>3. CASE step = "copying"
    BY <1>2, <2>2, <2>3, FirstPlace DEF CopiedSoFar
  <2>4. CASE step # "copying"
    BY <1>2, <2>1, <2>4 DEF HostInvariant, CopiedSoFar
  <2>5. QED
    BY <2>3, <2>4
<1>7. step = "idle" /\ status = "SUCCESS" =>
        call.step = "load" /\ call.kind = "load"
  BY DEF HostInvariant, StepsOfKinds
<1>8. Host!AnswerIsFirmwares'
  BY <1>2, <1>7 DEF Host!AnswerIsFirmwares
<1>9. Host!LoadedWhole'
  BY <1>2, <1>7 DEF HostInvariant, Host!LoadedWhole, CopiedSoFar, Stored
<1>10. QED
  BY <1>3, <1>4, <1>5, <1>6, <1>8, <1>9 DEF HostInvariant

(* A call begins. *)
LEMMA HostCallBegins ==
    ASSUME HostInvariant, UNCHANGED <<HIBBA, image>>, window' \in [Host!Slots -> Nat],
           Answered', NEW kd \in {"command", "load"}, NEW step \in Host!Steps, NEW length \in Nat,
           Host!Begins(kd, step, length),
           \/ kd = "command" /\ step = "command" /\ length <= BlockLength
           \/ kd = "load" /\ step = "awaitReset" /\ length <= MaxLength
    PROVE  HostInvariant'
<1>1. HostTypes
  BY DEF HostInvariant
<1>2. call' = [step |-> step, length |-> length, i |-> 0, status |-> "SUCCESS",
               answer |-> <<>>, kind |-> kd]
  BY DEF Host!Begins, Host!None
<1>3. call' \in CallType
  BY <1>2 DEF CallType
<1>4. HostTypes'
  BY <1>1, <1>3 DEF HostTypes
<1>5. StepsOfKinds' /\ CopiedSoFar' /\ Host!AnswerIsFirmwares' /\ Host!LoadedWhole'
  BY <1>2 DEF StepsOfKinds, CopiedSoFar, Host!AnswerIsFirmwares, Host!LoadedWhole
<1>6. QED
  BY <1>4, <1>5 DEF HostInvariant

LEMMA HostCommands ==
    ASSUME HostInvariant, Host!e1000_host_interface_command \/ Host!e1000_load_firmware
    PROVE  HostInvariant'
<1>1. window \in [Host!Slots -> Nat]
  BY DEF HostInvariant, HostTypes
<1>2. CASE Host!e1000_host_interface_command
  <2>1. PICK length \in 1 .. BlockLength :
          /\ Host!Begins("command", "command", length)
          /\ window' = [s \in Host!Slots |-> IF s < length THEN s + 1 ELSE window[s]]
          /\ HICR' = HICR \cup {"C"}
          /\ UNCHANGED <<HIBBA, image, firmware>>
    BY <1>2 DEF Host!e1000_host_interface_command
  <2>2. \A s \in Host!Slots : s + 1 \in Nat
    BY DEF Host!Slots
  <2>3. window' \in [Host!Slots -> Nat]
    BY <1>1, <2>1, <2>2
  <2>4. Answered'
    BY <2>1 DEF Answered
  <2>5. length \in Nat /\ length <= BlockLength /\ "command" \in Host!Steps
    BY <2>1, Lengths DEF Host!Steps
  <2>6. QED
    BY <2>1, <2>3, <2>4, <2>5, HostCallBegins
<1>3. CASE Host!e1000_load_firmware
  <2>1. PICK length \in 1 .. MaxLength :
          /\ Host!Begins("load", "awaitReset", length)
          /\ UNCHANGED <<HICR, window, HIBBA, image>>
    BY <1>3 DEF Host!e1000_load_firmware
  <2>2. Answered'
    BY <2>1 DEF HostInvariant, Answered
  <2>3. length \in Nat /\ length <= MaxLength /\ "awaitReset" \in Host!Steps
    BY <2>1, Lengths DEF Host!Steps
  <2>4. QED
    BY <1>1, <2>1, <2>2, <2>3, HostCallBegins
<1>4. QED
  BY <1>2, <1>3

(* The polls that go on, give up or see what they wait for. *)
LEMMA HostPolls ==
    ASSUME HostInvariant, Host!AwaitReset \/ Host!AwaitMode \/ Host!AwaitLoaded \/ Host!Commit
    PROVE  HostInvariant'
<1>1. /\ call \in CallType /\ call.step \in Host!Steps /\ call.i \in Nat /\ call.i + 1 \in Nat
      /\ call.status \in {"SUCCESS", "HOST_INTERFACE_COMMAND"}
  BY DEF HostInvariant, HostTypes, CallType
<1>2. 0 \in Nat /\ {"idle", "awaitMode", "copying", "load"} \subseteq Host!Steps
  BY DEF Host!Steps
<1>3. /\ [call EXCEPT !.i = @ + 1]
           = [call EXCEPT !.step = call.step, !.i = call.i + 1, !.status = call.status]
      /\ [call EXCEPT !.step = "idle", !.status = "HOST_INTERFACE_COMMAND"]
           = [call EXCEPT !.step = "idle", !.i = call.i, !.status = "HOST_INTERFACE_COMMAND"]
      /\ [call EXCEPT !.step = "idle"]
           = [call EXCEPT !.step = "idle", !.i = call.i, !.status = call.status]
  BY <1>1 DEF CallType
<1>4. \A step : [call EXCEPT !.step = step, !.i = 0]
                  = [call EXCEPT !.step = step, !.i = 0, !.status = call.status]
  BY <1>1 DEF CallType
<1>5. CASE Host!AwaitReset
  <2>1. /\ call.step = "awaitReset" /\ UNCHANGED <<HICR, window, HIBBA, image>>
        /\ \/ call' = [call EXCEPT !.step = call.step, !.i = call.i + 1, !.status = call.status]
           \/ call' = [call EXCEPT !.step = "idle", !.i = call.i,
                                   !.status = "HOST_INTERFACE_COMMAND"]
           \/ call' = [call EXCEPT !.step = "awaitMode", !.i = 0, !.status = call.status]
    BY <1>3, <1>4, <1>5 DEF Host!AwaitReset, Host!Polls, Host!Fails, Host!Goes
  <2>2. QED
    BY <1>1, <1>2, <2>1, HostCallMoves
<1>6. CASE Host!AwaitMode
  <2>1. /\ call.step = "awaitMode" /\ UNCHANGED <<HICR, window, HIBBA, image>>
        /\ \/ call' = [call EXCEPT !.step = call.step, !.i = call.i + 1, !.status = call.status]
           \/ call' = [call EXCEPT !.step = "idle", !.i = call.i,
                                   !.status = "HOST_INTERFACE_COMMAND"]
           \/ call' = [call EXCEPT !.step = "copying", !.i = 0, !.status = call.status]
    BY <1>3, <1>4, <1>6 DEF Host!AwaitMode, Host!Polls, Host!Fails, Host!Goes
  <2>2. QED
    BY <1>1, <1>2, <2>1, HostCallMoves
<1>7. CASE Host!AwaitLoaded
  <2>1. /\ call.step = "load" /\ UNCHANGED <<HICR, window, HIBBA, image>>
        /\ \/ call' = [call EXCEPT !.step = call.step, !.i = call.i + 1, !.status = call.status]
           \/ call' = [call EXCEPT !.step = "idle", !.i = call.i,
                                   !.status = "HOST_INTERFACE_COMMAND"]
           \/ call' = [call EXCEPT !.step = "idle", !.i = call.i, !.status = call.status]
    BY <1>3, <1>7 DEF Host!AwaitLoaded, Host!Polls, Host!Fails
  <2>2. QED
    BY <1>1, <1>2, <2>1, HostCallMoves
<1>8. CASE Host!Commit
  <2>1. /\ call.step = "copying" /\ call.i = call.length /\ HICR' = HICR \cup {"C"}
        /\ UNCHANGED <<window, HIBBA, image>>
        /\ call' = [call EXCEPT !.step = "load", !.i = 0, !.status = call.status]
    BY <1>4, <1>8 DEF Host!Commit, Host!Goes
  <2>2. QED
    BY <1>1, <1>2, <2>1, HostCallMoves
<1>9. QED
  BY <1>5, <1>6, <1>7, <1>8

(* The answer of a command is taken from a window that the firmware has    *)
(* filled.                                                                 *)
LEMMA HostAnswer ==
    ASSUME HostInvariant, Host!AwaitAnswer
    PROVE  HostInvariant'
<1>1. /\ call \in CallType /\ call.step \in Host!Steps /\ call.i \in Nat /\ call.i + 1 \in Nat
      /\ call.status \in {"SUCCESS", "HOST_INTERFACE_COMMAND"}
  BY DEF HostInvariant, HostTypes, CallType
<1>2. /\ call.step = "command" /\ UNCHANGED <<HICR, window, HIBBA, image>>
      /\ "idle" \in Host!Steps
  BY DEF Host!AwaitAnswer, Host!Steps
<1>3. CASE Host!Polls
  <2>1. call' = [call EXCEPT !.step = call.step, !.i = call.i + 1, !.status = call.status]
    BY <1>1, <1>3 DEF Host!Polls, CallType
  <2>2. QED
    BY <1>1, <1>2, <2>1, HostCallMoves
<1>4. CASE Host!Fails("HOST_INTERFACE_COMMAND")
  <2>1. call' = [call EXCEPT !.step = "idle", !.i = call.i, !.status = "HOST_INTERFACE_COMMAND"]
    BY <1>1, <1>4 DEF Host!Fails, CallType
  <2>2. QED
    BY <1>1, <1>2, <2>1, HostCallMoves
<1>5. CASE /\ "C" \notin HICR /\ "SV" \in HICR
           /\ call' = [Host!None EXCEPT !.kind = "command", !.length = call.length,
                         !.answer = [k \in 1 .. call.length |-> window[k - 1]]]
  <2> DEFINE answer == [k \in 1 .. call.length |-> window[k - 1]]
  <2>1. call' = [step |-> "idle", length |-> call.length, i |-> 0, status |-> "SUCCESS",
                 answer |-> answer, kind |-> "command"]
    BY <1>5 DEF Host!None
  <2>2. call.length \in Nat /\ call.length <= BlockLength
    BY <1>1, <1>2 DEF HostInvariant, StepsOfKinds, CallType
  <2>3. \A k \in 1 .. call.length : k - 1 \in Host!Slots
    BY <2>2, Lengths DEF Host!Slots
  <2>4. \A k \in 1 .. call.length : answer[k] = 0
    BY <1>5, <2>3 DEF HostInvariant, Answered
  <2>5. answer \in Seq(Nat) /\ DOMAIN answer = 1 .. call.length
    <3>1. \A k \in 1 .. call.length : answer[k] \in Nat
      BY <2>4
    <3>2. answer \in [1 .. call.length -> Nat]
      BY <3>1
    <3> HIDE DEF answer
    <3>3. QED
      BY <2>2, <3>2
  <2> HIDE DEF answer
  <2>6. call' \in CallType
    BY <2>1, <2>2, <2>5 DEF CallType, Host!Steps
  <2>7. HostTypes'
    BY <1>2, <2>6 DEF HostInvariant, HostTypes
  <2>8. Answered'
    BY <1>2 DEF HostInvariant, Answered
  <2>9. StepsOfKinds' /\ CopiedSoFar' /\ Host!LoadedWhole'
    BY <2>1 DEF StepsOfKinds, CopiedSoFar, Host!LoadedWhole
  <2>10. Host!AnswerIsFirmwares'
    BY <2>1, <2>4, <2>5 DEF Host!AnswerIsFirmwares
  <2>11. QED
    BY <2>7, <2>8, <2>9, <2>10 DEF HostInvariant
<1>6. QED
  BY <1>3, <1>4, <1>5 DEF Host!AwaitAnswer, Host!StatusValid

(* A dword is copied to its place, whether or not the window is moved, and *)
(* to no other's.                                                          *)
LEMMA HostCopies ==
    ASSUME HostInvariant, Host!CopyDword
    PROVE  HostInvariant'
<1> DEFINE i == call.i
           b == i \div BlockLength
           o == i % BlockLength
<1>1. /\ call \in CallType /\ i \in Nat /\ i + 1 \in Nat /\ call.length \in Nat
      /\ image \in [Host!Blocks -> [Host!Slots -> Host!Dwords]]
  BY DEF HostInvariant, HostTypes, CallType
<1>2. /\ call.step = "copying" /\ i < call.length
      /\ HIBBA' = IF o = 0 THEN b ELSE HIBBA
      /\ image' = [image EXCEPT ![HIBBA'][o] = i + 1]
      /\ call' = [call EXCEPT !.i = i + 1]
      /\ UNCHANGED <<HICR, window, firmware, commands>>
  BY DEF Host!CopyDword, Host!BlockOf, Host!Polls
<1>3. call.length <= MaxLength
  BY <1>2 DEF HostInvariant, StepsOfKinds
<1>4. /\ b \in Host!Blocks /\ o \in Host!Slots /\ i + 1 \in Host!Dwords
  <2>1. i \in 0 .. (MaxLength - 1) /\ i + 1 \in 0 .. MaxLength
    BY <1>1, <1>2, <1>3, Lengths
  <2>2. QED
    BY <2>1, PlaceInMemory DEF Host!Dwords
<1>5. HIBBA' = b
  BY <1>2 DEF HostInvariant, CopiedSoFar
<1>6. image' = [image EXCEPT ![b][o] = i + 1]
  BY <1>2, <1>5
<1>7. image' \in [Host!Blocks -> [Host!Slots -> Host!Dwords]] /\ image'[b][o] = i + 1
  <2> HIDE DEF b, o
  <2>1. [image[b] EXCEPT ![o] = i + 1] \in [Host!Slots -> Host!Dwords]
    BY <1>1, <1>4
  <2>2. image' = [image EXCEPT ![b] = [image[b] EXCEPT ![o] = i + 1]]
    BY <1>1, <1>4, <1>6
  <2>3. QED
    BY <1>1, <1>4, <2>1, <2>2
<1>8. /\ call' \in CallType /\ call'.step = "copying" /\ call'.i = i + 1
      /\ call'.length = call.length /\ call'.kind = call.kind
  BY <1>1, <1>2 DEF CallType
<1>9. HostTypes'
  BY <1>2, <1>4, <1>5, <1>7, <1>8 DEF HostInvariant, HostTypes
<1>10. Answered'
  BY <1>2 DEF HostInvariant, Answered
<1>11. StepsOfKinds'
  BY <1>2, <1>8 DEF HostInvariant, StepsOfKinds
<1>12. \A k \in 0 .. i : Stored(k)'
  <2> TAKE k \in 0 .. i
  <2>1. CASE k = i
    BY <1>7, <2>1 DEF Stored
  <2>2. CASE k # i
    <3>1. k \in 0 .. (i - 1) /\ k \in Nat /\ k \in 0 .. (MaxLength - 1)
      BY <1>1, <1>2, <1>3, <2>2, Lengths
    <3>2. image[k \div BlockLength][k % BlockLength] = k + 1
      BY <1>2, <3>1 DEF HostInvariant, CopiedSoFar, Stored
    <3>3. k \div BlockLength \in Host!Blocks /\ k % BlockLength \in Host!Slots
      BY <3>1, PlaceInMemory
    <3>4. k \div BlockLength # b \/ k % BlockLength # o
      BY <1>1, <2>2, <3>1, Lengths, PlacesDiffer
    <3> DEFINE p == k \div BlockLength
               q == k % BlockLength
    <3> HIDE DEF p, q, b, o
    <3>5. image'[p][q] = image[p][q]
      <4>1. p \in Host!Blocks /\ q \in Host!Slots /\ (p # b \/ q # o)
        BY <3>3, <3>4 DEF p, q
      <4>2. image' = [image EXCEPT ![b] = [image[b] EXCEPT ![o] = i + 1]]
        BY <1>1, <1>4, <1>6
      <4>3. CASE p # b
        BY <1>1, <4>1, <4>2, <4>3
      <4>4. CASE p = b /\ q # o
        <5>1. image'[p] = [image[b] EXCEPT ![o] = i + 1]
          BY <1>1, <1>4, <4>2, <4>4
        <5>2. image[b] \in [Host!Slots -> Host!Dwords]
          BY <1>1, <1>4
        <5>3. QED
          BY <4>1, <4>4, <5>1, <5>2
      <4>5. QED
        BY <4>1, <4>3, <4>4
    <3>6. QED
      BY <3>2, <3>5 DEF Stored, p, q
  <2>3. QED
    BY <2>1, <2>2
<1>13. CopiedSoFar'
  <2>1. i + 1 <= call.length /\ 0 .. ((i + 1) - 1) = 0 .. i
    BY <1>1, <1>2
  <2>2. (i + 1) % BlockLength # 0 => HIBBA' = (i + 1) \div BlockLength
    BY <1>1, <1>5, Lengths, SameBlockNext
  <2> HIDE DEF i, b, o
  <2>3. QED
    BY <1>8, <1>12, <2>1, <2>2 DEF CopiedSoFar
<1>14. Host!AnswerIsFirmwares' /\ Host!LoadedWhole'
  BY <1>8 DEF Host!AnswerIsFirmwares, Host!LoadedWhole
<1>15. QED
  BY <1>9, <1>10, <1>11, <1>13, <1>14 DEF HostInvariant

LEMMA HostFirmware ==
    ASSUME HostInvariant, Host!FirmwareServes \/ Host!FirmwareRestarts
    PROVE  HostInvariant'
<1>1. UNCHANGED <<HIBBA, image, call>>
  BY DEF Host!FirmwareServes, Host!FirmwareRestarts
<1>2. window' \in [Host!Slots -> Nat] /\ Answered'
  <2>1. CASE Host!FirmwareServes
    <3>1. CASE HICR' = {"SV"} /\ window' = [s \in Host!Slots |-> 0]
      BY <3>1 DEF Answered
    <3>2. CASE HICR' = {} /\ UNCHANGED window
      BY <3>2 DEF HostInvariant, HostTypes, Answered
    <3>3. QED
      BY <2>1, <3>1, <3>2 DEF Host!FirmwareServes
  <2>2. CASE Host!FirmwareRestarts
    BY <2>2 DEF Host!FirmwareRestarts, HostInvariant, HostTypes, Answered
  <2>3. QED
    BY <2>1, <2>2
<1>3. HostTypes'
  BY <1>1, <1>2 DEF HostInvariant, HostTypes
<1>4. StepsOfKinds' /\ Host!AnswerIsFirmwares'
  BY <1>1 DEF HostInvariant, StepsOfKinds, Host!AnswerIsFirmwares
<1>5. CopiedSoFar' /\ Host!LoadedWhole'
  BY <1>1 DEF HostInvariant, CopiedSoFar, Stored, Host!LoadedWhole
<1>6. QED
  BY <1>2, <1>3, <1>4, <1>5 DEF HostInvariant

LEMMA HostStarts == Host!Init => HostInvariant
<1> SUFFICES ASSUME Host!Init PROVE HostInvariant
  OBVIOUS
<1>1. call = [step |-> "idle", length |-> 0, i |-> 0, status |-> "SUCCESS", answer |-> <<>>,
              kind |-> "none"]
  BY DEF Host!Init, Host!None
<1>2. call \in CallType
  BY <1>1 DEF CallType, Host!Steps
<1>3. 0 \in Host!Dwords
  BY Lengths DEF Host!Dwords
<1>4. HostTypes
  BY <1>2, <1>3, FirstPlace DEF HostTypes, Host!Init
<1>5. Answered /\ StepsOfKinds /\ CopiedSoFar
  BY <1>1 DEF Host!Init, Answered, StepsOfKinds, CopiedSoFar
<1>6. Host!AnswerIsFirmwares /\ Host!LoadedWhole
  BY <1>1 DEF Host!AnswerIsFirmwares, Host!LoadedWhole
<1>7. QED
  BY <1>4, <1>5, <1>6 DEF HostInvariant

LEMMA HostHolds == ServicesSpec => []HostInvariant
<1>1. ServicesInit => HostInvariant
  BY HostStarts DEF ServicesInit
<1>2. HostInvariant /\ [ServicesNext]_serviceVars => HostInvariant'
  <2> SUFFICES ASSUME HostInvariant, [ServicesNext]_serviceVars PROVE HostInvariant'
    OBVIOUS
  <2>1. CASE Host!Next
    BY <2>1, HostCommands, HostAnswer, HostPolls, HostCopies, HostFirmware DEF Host!Next
  <2>2. CASE UNCHANGED mngVars
    BY <2>2 DEF mngVars, HostInvariant, HostTypes, Answered, StepsOfKinds, CopiedSoFar, Stored,
                Host!AnswerIsFirmwares, Host!LoadedWhole
  <2>3. QED
    BY <2>1, <2>2 DEF ServicesNext, serviceVars
<1>3. QED
  BY <1>1, <1>2, PTL DEF ServicesSpec

(* A command is never taken for answered while the firmware has not put    *)
(* its answer into the window, whatever timed out before; and an image     *)
(* that is reported as loaded is in the firmware's memory, whatever its    *)
(* length and that of a block.                                             *)
THEOREM HostInterfaceIsTrue == ServicesSpec => []HostInterfaceTrue
<1>1. HostInvariant => HostInterfaceTrue
  BY DEF HostInvariant, HostInterfaceTrue
<1>2. QED
  BY <1>1, HostHolds, PTL
-----------------------------------------------------------------------------
(* The non-volatile memory: the inductive invariant. *)

(* A part that is addressed with eight bits has no more than two halves.   *)
PartFits == type = "spi8" => WordSize <= 2 * HalfSize

NvmTypes ==
    /\ job = [call |-> job.call, offset |-> job.offset, count |-> job.count, i |-> job.i,
              data |-> job.data, status |-> job.status, lost |-> job.lost,
              before |-> job.before]
    /\ job.offset \in Nat /\ job.count \in Nat /\ job.i \in Nat
    /\ job.call \in Working \cup {"none", "commit", "returned"}
    /\ words = [a \in Addresses |-> words[a]]
    /\ type \in Types /\ held \in BOOLEAN /\ job.lost \in BOOLEAN

(* The memory is held for a call that has something to do with it.         *)
HeldForTransfer ==
    /\ readOp = "srrd"
    /\ held => \/ job.call \in {"read", "write"} /\ HasMore
               \/ job.call \in {"validate", "update"} /\ IsFlash

(* What a call asks for is in range, of a flash once it was looked at; a   *)
(* read, and a write of a flash, that fit have no more than one step; and  *)
(* a call that transfers nothing has no words.                             *)
AskedInRange ==
    /\ job.call \in {"read", "write"} /\ (~IsFlash \/ job.i > 0) /\ Fits
         => InRange(job.offset, job.count)
    /\ job.call = "read" \/ (job.call = "write" /\ IsFlash) =>
         (Fits /\ job.i > 0 => job.i >= job.count)
    /\ job.call = "write" /\ job.count = 0 => job.data = <<>>
    /\ job.call \in {"validate", "update", "commit", "none"} => job.data = <<>>

(* The words of a read, and how far a write has come.                      *)
ReadSoFar ==
    /\ words = job.before
    /\ job.i = 0 => job.data = <<>>
    /\ job.i > 0 => \A a \in Asked : words[a] = job.data[a - job.offset + 1]
WrittenSoFar ==
    \A a \in Addresses :
        words[a] = IF a \in Asked /\ a - job.offset < job.i THEN job.data[a - job.offset + 1]
                                                            ELSE job.before[a]
Transferring(what) == job.call = what /\ PartFits /\ Fits /\ ~job.lost

NvmInvariant ==
    /\ NvmTypes /\ HeldForTransfer /\ AskedInRange
    /\ Transferring("read") => ReadSoFar
    /\ Transferring("write") => WrittenSoFar
    /\ PartFits => TransfersWhatWasAsked
-----------------------------------------------------------------------------
LEMMA NvmNumbers ==
    /\ WordSize \in Nat /\ WordSize > 0 /\ MaxCount \in Nat \ {0} /\ PageSize \in Nat \ {0}
    /\ HalfSize \in Nat \ {0} /\ NVM_CHECKSUM_REG \in Addresses
BY NvmAssumption DEF Addresses

(* A call begins. *)
LEMMA NvmCalls ==
    ASSUME NvmInvariant, NEW what \in Working, NEW offset \in Nat, NEW count \in Nat, NEW data,
           Call(what, offset, count, data),
           what \in {"read", "write"} => CanStart(offset, count),
           what # "write" \/ count = 0 => data = <<>>
    PROVE  NvmInvariant'
<1>1. /\ NvmTypes /\ HeldForTransfer
  BY DEF NvmInvariant
<1>2. /\ job.call \in {"none", "returned"}
      /\ job' = [call |-> what, offset |-> offset, count |-> count, i |-> 0, data |-> data,
                 status |-> "SUCCESS", lost |-> FALSE, before |-> words]
      /\ UNCHANGED <<type, words, flash, held, readOp>>
  BY DEF Call, Idle
<1>3. /\ job'.call = what /\ job'.offset = offset /\ job'.count = count /\ job'.i = 0
      /\ job'.data = data /\ job'.before = words /\ words' = words /\ type' = type
      /\ job'.call # "returned"
  BY <1>2 DEF Working
<1>4. NvmTypes'
  BY <1>1, <1>2 DEF NvmTypes
<1>5. HeldForTransfer'
  BY <1>1, <1>2 DEF HeldForTransfer
<1>6. AskedInRange'
  BY <1>3 DEF AskedInRange, CanStart, IsFlash, InRange
<1>7. Transferring("read")' => ReadSoFar'
  BY <1>3 DEF Transferring, ReadSoFar
<1>8. Transferring("write")' => WrittenSoFar'
  BY <1>3 DEF Transferring, WrittenSoFar, Asked
<1>9. TransfersWhatWasAsked'
  BY <1>3 DEF TransfersWhatWasAsked, Succeeded
<1>10. QED
  BY <1>4, <1>5, <1>6, <1>7, <1>8, <1>9 DEF NvmInvariant

(* A call returns with an error, or has transferred nothing.               *)
LEMMA NvmEnds ==
    ASSUME NvmInvariant, NEW status \in {"SUCCESS", "NVM", "SWFW_SYNC"}, NEW lost \in BOOLEAN,
           job' = [job EXCEPT !.call = "returned", !.status = status, !.lost = lost],
           status = "SUCCESS" => job.data = <<>>,
           words' = [a \in Addresses |-> words'[a]],
           held' = FALSE, readOp' = "srrd", type' = type
    PROVE  NvmInvariant'
<1>1. NvmTypes
  BY DEF NvmInvariant
<1>2. job' = [call |-> "returned", offset |-> job.offset, count |-> job.count, i |-> job.i,
              data |-> job.data, status |-> status, lost |-> lost, before |-> job.before]
  BY <1>1 DEF NvmTypes
<1>3. job'.call = "returned" /\ job'.data = job.data /\ job'.status = status
  BY <1>2
<1>4. NvmTypes'
  BY <1>1, <1>2 DEF NvmTypes
<1>5. HeldForTransfer'
  BY DEF HeldForTransfer
<1>6. AskedInRange'
  BY <1>3 DEF AskedInRange
<1>7. ~Transferring("read")' /\ ~Transferring("write")'
  BY <1>3 DEF Transferring
<1>8. TransfersWhatWasAsked'
  BY <1>3 DEF TransfersWhatWasAsked, Succeeded
<1>9. QED
  BY <1>4, <1>5, <1>6, <1>7, <1>8 DEF NvmInvariant

LEMMA NvmReturns ==
    ASSUME NvmTypes, NEW status, Returns(status)
    PROVE  /\ job' = [job EXCEPT !.call = "returned", !.status = status, !.lost = job.lost]
           /\ job.lost \in BOOLEAN
BY DEF NvmTypes, Returns

(* What is asked for is in range: the words have addresses. *)
LEMMA AskedHaveAddresses ==
    ASSUME NvmTypes, InRange(job.offset, job.count)
    PROVE  Asked \subseteq Addresses /\ job.count >= 1
BY NvmNumbers DEF NvmTypes, InRange, Asked, Addresses

LEMMA NvmAcquires ==
    ASSUME NvmInvariant, e1000_acquire_nvm_generic
    PROVE  NvmInvariant'
<1>1. NvmTypes /\ readOp = "srrd"
  BY DEF NvmInvariant, HeldForTransfer
<1>2. UNCHANGED <<type, words, flash, readOp>>
  BY DEF e1000_acquire_nvm_generic
<1>3. CASE held' = TRUE /\ UNCHANGED job
  <2>1. HeldForTransfer'
    BY <1>1, <1>2, <1>3 DEF e1000_acquire_nvm_generic, HeldForTransfer, HasMore, IsFlash
  <2>2. NvmTypes'
    BY <1>1, <1>2, <1>3 DEF NvmTypes
  <2>3. AskedInRange'
    BY <1>2, <1>3 DEF NvmInvariant, AskedInRange, Fits, IsFlash, InRange
  <2>4. /\ Transferring("read")' => ReadSoFar'
        /\ Transferring("write")' => WrittenSoFar'
    BY <1>2, <1>3 DEF NvmInvariant, Transferring, ReadSoFar, WrittenSoFar, Asked, PartFits, Fits,
                      IsFlash
  <2>5. (PartFits => TransfersWhatWasAsked)'
    BY <1>2, <1>3 DEF NvmInvariant, PartFits, TransfersWhatWasAsked, Succeeded, Fits, Asked
  <2>6. QED
    BY <2>1, <2>2, <2>3, <2>4, <2>5 DEF NvmInvariant
<1>4. CASE held' = FALSE /\ Returns(IF IsFlash THEN "SWFW_SYNC" ELSE "NVM")
  <2>1. PICK status \in {"NVM", "SWFW_SYNC"} : Returns(status)
    BY <1>4
  <2>2. /\ job' = [job EXCEPT !.call = "returned", !.status = status, !.lost = job.lost]
        /\ job.lost \in BOOLEAN
    BY <1>1, <2>1, NvmReturns
  <2>3. words' = [a \in Addresses |-> words'[a]]
    BY <1>1, <1>2 DEF NvmTypes
  <2>4. QED
    BY <1>1, <1>2, <1>4, <2>1, <2>2, <2>3, NvmEnds
<1>5. QED
  BY <1>3, <1>4 DEF e1000_acquire_nvm_generic

(* Everything was transferred: the call succeeds. *)
LEMMA NvmSucceeds ==
    ASSUME NvmInvariant, AllDone
    PROVE  NvmInvariant'
<1>1. /\ NvmTypes /\ readOp = "srrd" /\ ~held /\ ~HasMore /\ job.call \in {"read", "write"}
      /\ Returns("SUCCESS") /\ UNCHANGED <<type, words, flash, held, readOp>>
  BY DEF AllDone, NvmInvariant, HeldForTransfer
<1>2. job' = [call |-> "returned", offset |-> job.offset, count |-> job.count, i |-> job.i,
              data |-> job.data, status |-> "SUCCESS", lost |-> job.lost, before |-> job.before]
  BY <1>1 DEF NvmTypes, Returns
<1>3. NvmTypes' /\ HeldForTransfer'
  BY <1>1, <1>2 DEF NvmTypes, HeldForTransfer
<1>4. AskedInRange' /\ ~Transferring("read")' /\ ~Transferring("write")'
  BY <1>2 DEF AskedInRange, Transferring
<1>5. (PartFits => TransfersWhatWasAsked)'
  <2> SUFFICES ASSUME PartFits, Fits, ~job.lost, job.data # <<>>
               PROVE  /\ \A a \in Asked : words[a] = job.data[a - job.offset + 1]
                      /\ \A a \in Addresses \ Asked : words[a] = job.before[a]
    BY <1>1, <1>2 DEF PartFits, TransfersWhatWasAsked, Fits, Asked
  <2>1. CASE job.call = "read"
    <3>1. ReadSoFar
      BY <2>1 DEF NvmInvariant, Transferring
    <3>2. job.i > 0
      BY <1>1, <3>1 DEF NvmTypes, ReadSoFar
    <3>3. QED
      BY <3>1, <3>2 DEF ReadSoFar
  <2>2. CASE job.call = "write"
    <3>1. WrittenSoFar
      BY <2>2 DEF NvmInvariant, Transferring
    <3>2. job.count # 0 /\ job.i >= job.count /\ job.i > 0
      BY <1>1, <2>2 DEF NvmInvariant, NvmTypes, AskedInRange, HasMore
    <3>3. InRange(job.offset, job.count)
      BY <2>2, <3>2 DEF NvmInvariant, AskedInRange
    <3>4. Asked \subseteq Addresses
      BY <1>1, <3>3, AskedHaveAddresses
    <3>5. \A a \in Asked : a - job.offset < job.i
      BY <1>1, <3>2 DEF NvmTypes, Asked
    <3>6. \A a \in Asked : words[a] = job.data[a - job.offset + 1]
      BY <3>1, <3>4, <3>5 DEF WrittenSoFar
    <3>7. \A a \in Addresses \ Asked : words[a] = job.before[a]
      BY <3>1 DEF WrittenSoFar
    <3>8. QED
      BY <3>6, <3>7
  <2>3. QED
    BY <1>1, <2>1, <2>2
<1>6. QED
  BY <1>3, <1>4, <1>5 DEF NvmInvariant

(* The steps that end a call without words, or with an error. *)
LEMMA NvmGivesUp ==
    ASSUME NvmInvariant, NEW status \in {"NVM", "SWFW_SYNC"}, Returns(status),
           words' = [a \in Addresses |-> words'[a]],
           held' = FALSE, readOp' = "srrd", type' = type
    PROVE  NvmInvariant'
<1>1. /\ job' = [job EXCEPT !.call = "returned", !.status = status, !.lost = job.lost]
      /\ job.lost \in BOOLEAN
  BY NvmReturns DEF NvmInvariant
<1>2. QED
  BY <1>1, NvmEnds

LEMMA NvmSucceedsAtOnce ==
    ASSUME NvmInvariant, job.data = <<>>, Returns("SUCCESS"),
           words' = [a \in Addresses |-> words'[a]],
           held' = FALSE, readOp' = "srrd", type' = type
    PROVE  NvmInvariant'
<1>1. /\ job' = [job EXCEPT !.call = "returned", !.status = "SUCCESS", !.lost = job.lost]
      /\ job.lost \in BOOLEAN
  BY NvmReturns DEF NvmInvariant
<1>2. QED
  BY <1>1, NvmEnds

LEMMA NvmChecksums ==
    ASSUME NvmInvariant,
           \/ e1000_validate_nvm_checksum_i210 \/ e1000_update_nvm_checksum_i210
           \/ e1000_update_flash_i210 \/ e1000_ready_nvm_eeprom
           \/ e1000_validate_nvm_checksum_generic \/ e1000_update_nvm_checksum_generic
    PROVE  NvmInvariant'
<1>1. NvmTypes /\ readOp = "srrd" /\ words = [a \in Addresses |-> words[a]]
  BY DEF NvmInvariant, HeldForTransfer, NvmTypes
<1>2. job.call \in {"validate", "update", "commit"} => job.data = <<>>
  BY DEF NvmInvariant, AskedInRange
<1>3. /\ ~IsFlash /\ job.call \in {"validate", "update"} => held = FALSE
      /\ job.call = "commit" => held = FALSE
  BY DEF NvmInvariant, HeldForTransfer, NvmTypes
<1>4. CASE e1000_validate_nvm_checksum_i210
  <2>1. PICK ok \in BOOLEAN :
          /\ Returns(IF ok THEN "SUCCESS" ELSE "NVM")
          /\ readOp' = Restored(ok) /\ held' = HeldAfter(ok)
    BY <1>4 DEF e1000_validate_nvm_checksum_i210
  <2>2. /\ Returns("SUCCESS") \/ Returns("NVM")
        /\ readOp' = "srrd" /\ held' = FALSE
        /\ job.data = <<>> /\ UNCHANGED <<type, words>>
    BY <1>2, <1>4, <2>1 DEF e1000_validate_nvm_checksum_i210, Restored, HeldAfter
  <2>3. QED
    BY <1>1, <2>2, NvmGivesUp, NvmSucceedsAtOnce
<1>5. CASE e1000_update_nvm_checksum_i210
  <2>1. job.data = <<>> /\ held' = FALSE /\ readOp' = "srrd" /\ type' = type
    BY <1>1, <1>2, <1>5 DEF e1000_update_nvm_checksum_i210, HeldAfter
  <2>2. CASE Returns("NVM") /\ UNCHANGED words
    BY <1>1, <2>1, <2>2, NvmGivesUp
  <2>3. ASSUME NEW lost \in BOOLEAN,
               words' = IF lost THEN words ELSE [words EXCEPT ![NVM_CHECKSUM_REG] = Checksum],
               job' = [job EXCEPT !.call = "commit", !.lost = lost]
        PROVE  NvmInvariant'
    <3>1. words' = [a \in Addresses |-> words'[a]]
      <4>1. CASE lost
        BY <1>1, <2>3, <4>1
      <4>2. CASE ~lost
        <5> DEFINE sum == Checksum
        <5> HIDE DEF sum
        <5>1. words' = [words EXCEPT ![NVM_CHECKSUM_REG] = sum]
          BY <2>3, <4>2 DEF sum
        <5>2. QED
          BY <1>1, <5>1
      <4>3. QED
        BY <4>1, <4>2
    <3>2. job' = [call |-> "commit", offset |-> job.offset, count |-> job.count, i |-> job.i,
                  data |-> job.data, status |-> job.status, lost |-> lost,
                  before |-> job.before]
      BY <1>1, <2>3 DEF NvmTypes
    <3>3. QED
      <4>1. NvmTypes'
        BY <1>1, <2>1, <3>1, <3>2 DEF NvmTypes
      <4>2. HeldForTransfer' /\ AskedInRange'
        BY <2>1, <3>2 DEF HeldForTransfer, AskedInRange
      <4>3. /\ ~Transferring("read")' /\ ~Transferring("write")'
            /\ TransfersWhatWasAsked'
        BY <3>2 DEF Transferring, TransfersWhatWasAsked, Succeeded
      <4>4. QED
        BY <4>1, <4>2, <4>3 DEF NvmInvariant
  <2>4. QED
    BY <1>5, <2>2, <2>3 DEF e1000_update_nvm_checksum_i210
<1>6. CASE e1000_update_flash_i210
  <2>1. /\ Returns("SUCCESS") \/ Returns("NVM")
        /\ job.data = <<>> /\ held' = FALSE /\ UNCHANGED <<type, words, readOp>>
    BY <1>2, <1>3, <1>6 DEF e1000_update_flash_i210
  <2>2. QED
    BY <1>1, <2>1, NvmGivesUp, NvmSucceedsAtOnce
<1>7. CASE e1000_ready_nvm_eeprom
  <2>1. Returns("NVM") /\ held' = FALSE /\ UNCHANGED <<type, words, readOp>>
    BY <1>7 DEF e1000_ready_nvm_eeprom, HeldAfter
  <2>2. QED
    BY <1>1, <2>1, NvmGivesUp
<1>8. CASE e1000_validate_nvm_checksum_generic
  <2>1. /\ Returns("SUCCESS") \/ Returns("NVM")
        /\ job.data = <<>> /\ held' = FALSE /\ UNCHANGED <<type, words, readOp>>
    BY <1>2, <1>3, <1>8 DEF e1000_validate_nvm_checksum_generic
  <2>2. QED
    BY <1>1, <2>1, NvmGivesUp, NvmSucceedsAtOnce
<1>9. CASE e1000_update_nvm_checksum_generic
  <2> DEFINE sum == Checksum
  <2>1. job.data = <<>> /\ held' = FALSE /\ UNCHANGED <<type, readOp>>
    BY <1>2, <1>3, <1>9 DEF e1000_update_nvm_checksum_generic
  <2>2. \/ words' = [words EXCEPT ![NVM_CHECKSUM_REG] = sum] /\ Returns("SUCCESS")
        \/ Returns("NVM") /\ words' = words
    BY <1>9 DEF e1000_update_nvm_checksum_generic
  <2> HIDE DEF sum
  <2>3. words' = [a \in Addresses |-> words'[a]]
    BY <1>1, <2>2
  <2>4. QED
    BY <1>1, <2>1, <2>2, <2>3, NvmGivesUp, NvmSucceedsAtOnce
<1>10. QED
  BY <1>4, <1>5, <1>6, <1>7, <1>8, <1>9

(* A read or a write in one step; of a write, of one page. *)
LEMMA NvmReadsWords ==
    ASSUME NvmInvariant, job.call = "read", held, NEW last \in Nat, NEW data,
           job' = [job EXCEPT !.i = last, !.data = data],
           UNCHANGED <<type, words, readOp>>, held' = FALSE, last > 0,
           Fits => InRange(job.offset, job.count) /\ last >= job.count,
           PartFits /\ Fits /\ ~job.lost =>
             \A a \in Asked : words[a] = data[a - job.offset + 1]
    PROVE  NvmInvariant'
<1>1. NvmTypes /\ readOp = "srrd"
  BY DEF NvmInvariant, HeldForTransfer
<1>2. job' = [call |-> "read", offset |-> job.offset, count |-> job.count, i |-> last,
              data |-> data, status |-> job.status, lost |-> job.lost, before |-> job.before]
  BY <1>1 DEF NvmTypes
<1>3. NvmTypes' /\ HeldForTransfer'
  BY <1>1, <1>2 DEF NvmTypes, HeldForTransfer
<1>4. Asked' = Asked /\ Fits' = Fits /\ PartFits' = PartFits
  BY <1>2 DEF Asked, Fits, PartFits
<1>5. AskedInRange'
  BY <1>2, <1>4 DEF AskedInRange, InRange
<1>6. Transferring("read")' => ReadSoFar'
  BY <1>2, <1>4 DEF NvmInvariant, Transferring, ReadSoFar
<1>7. ~Transferring("write")' /\ TransfersWhatWasAsked'
  BY <1>2 DEF Transferring, TransfersWhatWasAsked, Succeeded
<1>8. QED
  BY <1>3, <1>5, <1>6, <1>7 DEF NvmInvariant

LEMMA NvmWritesWords ==
    ASSUME NvmInvariant, job.call = "write", held, NEW last \in Nat, NEW lost \in BOOLEAN,
           job' = [job EXCEPT !.i = last, !.lost = lost],
           words' = [a \in Addresses |-> words'[a]],
           UNCHANGED <<type, readOp>>, held' = FALSE, last > 0,
           Fits => InRange(job.offset, job.count) /\ (IsFlash => last >= job.count),
           PartFits /\ Fits /\ ~lost =>
             \A a \in Addresses :
                 words'[a] = IF a \in Asked /\ a - job.offset < last
                               THEN job.data[a - job.offset + 1] ELSE job.before[a]
    PROVE  NvmInvariant'
<1>1. NvmTypes /\ readOp = "srrd"
  BY DEF NvmInvariant, HeldForTransfer
<1>2. job' = [call |-> "write", offset |-> job.offset, count |-> job.count, i |-> last,
              data |-> job.data, status |-> job.status, lost |-> lost, before |-> job.before]
  BY <1>1 DEF NvmTypes
<1>3. NvmTypes' /\ HeldForTransfer'
  BY <1>1, <1>2 DEF NvmTypes, HeldForTransfer
<1>4. Asked' = Asked /\ Fits' = Fits /\ PartFits' = PartFits /\ IsFlash' = IsFlash
  BY <1>2 DEF Asked, Fits, PartFits, IsFlash
<1>5. AskedInRange'
  BY <1>2, <1>4 DEF NvmInvariant, AskedInRange, InRange
<1>6. Transferring("write")' => WrittenSoFar'
  BY <1>2, <1>4 DEF Transferring, WrittenSoFar
<1>7. ~Transferring("read")' /\ TransfersWhatWasAsked'
  BY <1>2 DEF Transferring, TransfersWhatWasAsked, Succeeded
<1>8. QED
  BY <1>3, <1>5, <1>6, <1>7 DEF NvmInvariant

(* A call that fits a flash takes one chunk. *)
LEMMA OneChunk ==
    ASSUME NvmInvariant, IsFlash, held, job.call \in {"read", "write"}, Fits
    PROVE  job.i = 0 /\ ChunkCount = job.count /\ job.count <= MaxCount /\ job.count > 0
<1>1. NvmTypes /\ job.i < job.count
  BY DEF NvmInvariant, HeldForTransfer, HasMore
<1>2. job.i = 0 /\ job.count <= MaxCount /\ job.count \in Nat /\ job.count > 0
  BY <1>1, NvmNumbers DEF NvmInvariant, AskedInRange, NvmTypes, Fits, IsFlash
<1>3. (job.count - job.i) \div MaxCount > 0 => job.count >= MaxCount
  <2> DEFINE q == job.count \div MaxCount
  <2>1. /\ job.count % MaxCount \in 0 .. (MaxCount - 1) /\ q \in Nat
        /\ job.count = (MaxCount * q) + (job.count % MaxCount)
    BY <1>2, NvmNumbers, Divided
  <2> HIDE DEF q
  <2>2. q > 0 => MaxCount * q >= MaxCount
    <3>1. 0 < q => (MaxCount * 0) + MaxCount <= MaxCount * q
      BY <2>1, NvmNumbers, Multiples
    <3>2. QED
      BY <2>1, <3>1, NvmNumbers
  <2>3. MaxCount * q \in Nat
    BY <2>1, NvmNumbers
  <2>4. q > 0 => job.count >= MaxCount
    BY <1>2, <2>1, <2>2, <2>3, NvmNumbers
  <2>5. job.count - job.i = job.count
    BY <1>2
  <2>6. QED
    BY <2>4, <2>5 DEF q
<1>4. ChunkCount = job.count
  BY <1>2, <1>3, NvmNumbers DEF ChunkCount
<1>5. QED
  BY <1>2, <1>4

(* What is read into an empty buffer. *)
LEMMA EerdReads ==
    ASSUME NvmTypes, InRange(job.offset, job.count), job.data = <<>>
    PROVE  \A a \in Asked : words[a] = Eerd(job.count)[a - job.offset + 1]
<1> DEFINE V == {words[a] : a \in Addresses}
           f == [k \in 1 .. job.count |-> words[ChunkStart + k - 1]]
<1>1. job.offset \in Nat /\ job.count \in Nat /\ Asked \subseteq Addresses
  BY AskedHaveAddresses DEF NvmTypes
<1>2. \A k \in 1 .. job.count : f[k] \in V
  <2> SUFFICES ASSUME NEW k \in 1 .. job.count PROVE words[job.offset + k - 1] \in V
    BY DEF ChunkStart
  <2>1. job.offset + k - 1 \in Asked
    BY <1>1 DEF Asked
  <2>2. QED
    BY <1>1, <2>1
<1>3. \A a \in Asked : a - job.offset + 1 \in 1 .. job.count
                       /\ job.offset + (a - job.offset + 1) - 1 = a
  BY <1>1 DEF Asked
<1>4. \A a \in Asked : f[a - job.offset + 1] = words[a]
  BY <1>3 DEF ChunkStart
<1>5. f \in [1 .. job.count -> V]
  BY <1>2
<1> HIDE DEF V
<1>6. Eerd(job.count) = job.data \o f
  BY DEF Eerd
<1> HIDE DEF f
<1>7. f \in Seq(V)
  BY <1>1, <1>5
<1>8. <<>> \o f = f
  BY <1>7, ConcatEmptySeq
<1>9. QED
  BY <1>4, <1>6, <1>8

(* Of a part that fits, eight bits and A8 are the whole address.           *)
LEMMA SpiAddressWhole ==
    ASSUME NvmTypes, PartFits, Fits, InRange(job.offset, job.count),
           NEW k \in 0 .. (job.count - 1)
    PROVE  SpiAddress(k) = job.offset + k
<1>1. /\ job.offset \in Nat /\ job.count \in Nat /\ job.offset + k \in Nat
      /\ job.offset + job.count <= WordSize
  BY NvmNumbers DEF NvmTypes, InRange
<1> DEFINE x == job.offset + k
           q == x \div HalfSize
           r == x % HalfSize
<1>2. r \in 0 .. (HalfSize - 1) /\ q \in Nat /\ x = (HalfSize * q) + r
  BY <1>1, NvmNumbers, Divided
<1> HIDE DEF x, q, r
<1>3. x = job.offset + k
  BY DEF x
<1>4. CASE type = "spi8" /\ job.offset >= HalfSize
  <2>1. x - HalfSize \in 0 .. (HalfSize - 1)
    BY <1>1, <1>3, <1>4, NvmNumbers DEF PartFits
  <2>2. (HalfSize * q) + r = (HalfSize * 1) + (x - HalfSize)
    BY <1>1, <1>2, <1>3, NvmNumbers
  <2>3. r = x - HalfSize
    BY <1>2, <2>1, <2>2, NvmNumbers, DivisionUnique
  <2>4. SpiAddress(k) = HalfSize + r
    BY <1>4 DEF SpiAddress, r, x
  <2>5. QED
    BY <1>1, <1>3, <2>3, <2>4, NvmNumbers
<1>5. CASE type = "spi8" /\ ~(job.offset >= HalfSize)
  <2>1. x \in 0 .. (HalfSize - 1)
    BY <1>1, <1>3, <1>5, NvmNumbers DEF Fits
  <2>2. (HalfSize * q) + r = (HalfSize * 0) + x
    BY <1>1, <1>2, <1>3, NvmNumbers
  <2>3. r = x
    BY <1>2, <2>1, <2>2, NvmNumbers, DivisionUnique
  <2>4. SpiAddress(k) = 0 + r
    BY <1>5 DEF SpiAddress, r, x
  <2>5. QED
    BY <1>1, <1>3, <2>3, <2>4
<1>6. CASE type # "spi8"
  BY <1>6 DEF SpiAddress
<1>7. QED
  BY <1>4, <1>5, <1>6

LEMMA NoRemainder ==
    ASSUME NEW n \in Nat \ {0}, NEW u \in Nat, NEW y, y = n * u
    PROVE  y % n = 0
<1> DEFINE p == y \div n
           s == y % n
<1>1. y \in Nat /\ 0 \in 0 .. (n - 1)
  OBVIOUS
<1>2. s \in 0 .. (n - 1) /\ p \in Nat /\ y = (n * p) + s
  BY <1>1, Divided
<1> HIDE DEF p, s
<1>3. (n * u) + 0 = (n * p) + s
  BY <1>1, <1>2
<1>4. u = p /\ 0 = s
  BY <1>1, <1>2, <1>3, DivisionUnique
<1>5. QED
  BY <1>4 DEF s

(* A page ends somewhere, and not before. *)
LEMMA PageEnds ==
    ASSUME NEW from \in Nat, job.offset \in Nat, job.count \in Nat, from < job.count
    PROVE  /\ PageEnd(from) \in (from + 1) .. job.count
           /\ \A f \in (from + 1) .. (PageEnd(from) - 1) : (job.offset + f) % PageSize # 0
<1> DEFINE P == PageSize
           x == job.offset + from
           q == x \div P
           r == x % P
           n == from + (P - r)
           e == IF n <= job.count THEN n ELSE job.count
<1>1. x \in Nat /\ P \in Nat \ {0}
  BY NvmNumbers
<1>2. r \in 0 .. (P - 1) /\ q \in Nat /\ x = (P * q) + r
  BY <1>1, Divided
<1> HIDE DEF q, r
<1>3. n \in Nat /\ n > from /\ job.offset + n = (P * q) + P
  BY <1>1, <1>2
<1>4. (job.offset + n) % P = 0
  <2>1. q + 1 \in Nat /\ job.offset + n = P * (q + 1)
    BY <1>1, <1>2, <1>3
  <2> HIDE DEF n, P
  <2>2. QED
    BY <1>1, <2>1, NoRemainder
<1>5. ASSUME NEW f \in (from + 1) .. (n - 1)
      PROVE  (job.offset + f) % P # 0
  <2> DEFINE y == job.offset + f
             p == y \div P
             s == y % P
             t == (r + f) - from
  <2>1. f \in Nat /\ y \in Nat /\ t \in 0 .. (P - 1) /\ t # 0 /\ y = (P * q) + t
    BY <1>1, <1>2, <1>3
  <2>2. s \in 0 .. (P - 1) /\ p \in Nat /\ y = (P * p) + s
    BY <1>1, <2>1, Divided
  <2> HIDE DEF y, p, s, t
  <2>3. s = t
    BY <1>1, <1>2, <2>1, <2>2, DivisionUnique
  <2>4. QED
    BY <2>1, <2>3 DEF s, y
<1>6. /\ e \in (from + 1) .. job.count
      /\ e = job.count \/ (job.offset + e) % PageSize = 0
      /\ \A f \in (from + 1) .. (e - 1) : (job.offset + f) % PageSize # 0
  <2>1. e \in (from + 1) .. job.count
    BY <1>3
  <2>2. e = job.count \/ (job.offset + e) % PageSize = 0
    BY <1>4
  <2>3. \A f \in (from + 1) .. (e - 1) : f \in (from + 1) .. (n - 1)
    BY <1>3
  <2>4. QED
    BY <1>5, <2>1, <2>2, <2>3
<1>7. QED
  BY <1>6 DEF PageEnd

LEMMA SmallRemainder ==
    ASSUME NEW n \in Nat \ {0}, NEW k \in 0 .. (n - 1)
    PROVE  k % n = k
<1> DEFINE q == k \div n
           r == k % n
<1>1. k \in Nat /\ 0 \in Nat
  OBVIOUS
<1>2. r \in 0 .. (n - 1) /\ q \in Nat /\ k = (n * q) + r
  BY <1>1, Divided
<1> HIDE DEF q, r
<1>3. (n * q) + r = (n * 0) + k
  BY <1>2
<1>4. r = k
  BY <1>1, <1>2, <1>3, DivisionUnique
<1>5. QED
  BY <1>4 DEF r

(* The words that go out before the end of a page do not wrap round it.    *)
LEMMA WithinPage ==
    ASSUME NEW from \in Nat, job.offset \in Nat, job.count \in Nat, from < job.count,
           NEW start, start = job.offset + from,
           NEW base, base = (start \div PageSize) * PageSize,
           NEW k \in 0 .. (PageEnd(from) - from - 1)
    PROVE  base + ((start - base + k) % PageSize) = start + k
<1> DEFINE P == PageSize
           q == start \div P
           r == start % P
           e == PageEnd(from)
<1>1. start \in Nat /\ P \in Nat \ {0}
  BY NvmNumbers
<1>2. r \in 0 .. (P - 1) /\ q \in Nat /\ start = (P * q) + r
  BY <1>1, Divided
<1>3. /\ e \in (from + 1) .. job.count
      /\ \A f \in (from + 1) .. (e - 1) : (job.offset + f) % PageSize # 0
  BY PageEnds
<1>4. k \in Nat /\ k <= e - from - 1
  BY <1>3
<1>5. base = P * q /\ base \in Nat
  <2>1. base = q * P
    OBVIOUS
  <2> HIDE DEF q, r, e
  <2>2. QED
    BY <1>1, <1>2, <2>1
<1> HIDE DEF q, r, e
<1>6. start - base = r
  BY <1>1, <1>2, <1>5
<1>7. r + k < P
  <2> SUFFICES ASSUME ~(r + k < P) PROVE FALSE
    OBVIOUS
  <2> DEFINE f == from + (P - r)
  <2>1. f \in (from + 1) .. (e - 1)
    <3>1. P - r \in Int /\ P - r > 0 /\ k \in Nat /\ e \in Int /\ r \in Int
      BY <1>1, <1>2, <1>3, <1>4
    <3>2. P - r <= k /\ k <= e - from - 1
      BY <1>1, <1>2, <1>4, <3>1
    <3> HIDE DEF P
    <3>3. QED
      BY <3>1, <3>2
  <2>2. job.offset + f = P * (q + 1)
    <3>1. job.offset + f = (start - r) + P
      BY <1>1, <1>2
    <3>2. P * (q + 1) = (P * q) + P
      BY <1>1, <1>2
    <3>3. start - r = P * q
      BY <1>1, <1>2
    <3> HIDE DEF P, f
    <3>4. QED
      BY <3>1, <3>2, <3>3
  <2>3. (job.offset + f) % P # 0
    BY <1>3, <2>1
  <2> HIDE DEF f, P
  <2>4. q + 1 \in Nat
    BY <1>2
  <2>5. QED
    BY <1>1, <2>2, <2>3, <2>4, NoRemainder
<1>8. (r + k) % P = r + k
  <2>1. r + k \in 0 .. (P - 1)
    BY <1>1, <1>2, <1>4, <1>7
  <2>2. QED
    BY <1>1, <2>1, SmallRemainder
<1>9. QED
  BY <1>1, <1>2, <1>4, <1>5, <1>6, <1>8

LEMMA PageProgrammed ==
    ASSUME NvmTypes, PartFits, Fits, InRange(job.offset, job.count),
           NEW from \in Nat, from < job.count, NEW a \in Addresses
    PROVE  Programmed(from, PageEnd(from))[a]
             = IF a - (job.offset + from) \in 0 .. (PageEnd(from) - from - 1)
                 THEN job.data[a - job.offset + 1] ELSE words[a]
<1> DEFINE to == PageEnd(from)
           start == SpiAddress(from)
           base == (start \div PageSize) * PageSize
           sent == 0 .. (to - from - 1)
           last == {k \in sent : base + ((start - base + k) % PageSize) = a}
<1>1. /\ job.offset \in Nat /\ job.count \in Nat /\ a \in Nat /\ from \in 0 .. (job.count - 1)
  BY DEF NvmTypes, Addresses
<1>2. to \in (from + 1) .. job.count
  BY <1>1, PageEnds
<1>3. start = job.offset + from
  BY <1>1, SpiAddressWhole
<1>4. \A k \in sent : base + ((start - base + k) % PageSize) = start + k
  BY <1>1, <1>3, WithinPage
<1>5. Programmed(from, to)[a]
        = IF last = {} THEN words[a]
          ELSE job.data[from + 1 + (CHOOSE k \in last : \A l \in last : l <= k)]
  BY DEF Programmed
<1> HIDE DEF to, start, base
<1>6. last = {k \in sent : start + k = a}
  BY <1>4
<1>7. CASE a - (job.offset + from) \in sent
  <2>1. last = {a - start}
    BY <1>1, <1>2, <1>3, <1>6, <1>7
  <2>2. (CHOOSE k \in last : \A l \in last : l <= k) = a - start
    <3> HIDE DEF last
    <3>1. \A k \in last : k = a - start
      BY <2>1
    <3>2. a - start \in last /\ a - start \in Int
      BY <1>1, <1>3, <2>1
    <3>3. \A l \in last : l <= a - start
      BY <3>1, <3>2
    <3>4. QED
      BY <3>1, <3>2, <3>3
  <2>3. last # {}
    <3> HIDE DEF last
    <3>1. QED
      BY <2>1
  <2>4. from + 1 + (a - start) = a - job.offset + 1
    <3> HIDE DEF last
    <3>1. QED
      BY <1>1, <1>3
  <2> HIDE DEF last
  <2>5. QED
    BY <1>3, <1>5, <1>7, <2>2, <2>3, <2>4 DEF to
<1>8. CASE a - (job.offset + from) \notin sent
  <2>1. last = {}
    BY <1>1, <1>2, <1>3, <1>6, <1>8
  <2> HIDE DEF last
  <2>2. QED
    BY <1>5, <1>8, <2>1 DEF to
<1>9. QED
  BY <1>7, <1>8

(* A chunk of a flash. *)
LEMMA NvmReadsChunk ==
    ASSUME NvmInvariant, e1000_read_nvm_srrd_i210
    PROVE  NvmInvariant'
<1>1. NvmTypes /\ readOp = "srrd" /\ words = [a \in Addresses |-> words[a]] /\ job.i \in Nat
  BY DEF NvmInvariant, HeldForTransfer, NvmTypes
<1>2. /\ IsFlash /\ job.call = "read" /\ held /\ held' = FALSE /\ UNCHANGED <<type, words, readOp>>
      /\ \/ InRange(ChunkStart, ChunkCount)
            /\ job' = [job EXCEPT !.i = job.i + MaxCount, !.data = Eerd(ChunkCount)]
         \/ Returns("NVM")
  BY DEF e1000_read_nvm_srrd_i210, HeldAfter
<1>3. CASE Returns("NVM")
  BY <1>1, <1>2, <1>3, NvmGivesUp
<1>4. CASE /\ InRange(ChunkStart, ChunkCount)
           /\ job' = [job EXCEPT !.i = job.i + MaxCount, !.data = Eerd(ChunkCount)]
  <2>1. job.i + MaxCount \in Nat /\ job.i + MaxCount > 0
    BY <1>1, NvmNumbers
  <2>2. ASSUME Fits
        PROVE  /\ InRange(job.offset, job.count) /\ job.i + MaxCount >= job.count
               /\ ChunkCount = job.count /\ job.i = 0
    <3>1. job.i = 0 /\ ChunkCount = job.count /\ job.count <= MaxCount
      BY <1>2, <2>2, OneChunk
    <3>2. QED
      BY <1>4, <3>1, NvmNumbers DEF ChunkStart
  <2>3. ASSUME PartFits, Fits, ~job.lost
        PROVE  \A a \in Asked : words[a] = Eerd(ChunkCount)[a - job.offset + 1]
    <3>1. job.data = <<>>
      BY <1>2, <2>2, <2>3 DEF NvmInvariant, Transferring, ReadSoFar
    <3>2. QED
      BY <1>1, <2>2, <2>3, <3>1, EerdReads
  <2> DEFINE last == job.i + MaxCount
             data == Eerd(ChunkCount)
  <2> HIDE DEF last, data
  <2>4. last \in Nat /\ last > 0 /\ job' = [job EXCEPT !.i = last, !.data = data]
    BY <1>4, <2>1 DEF last, data
  <2>5. Fits => InRange(job.offset, job.count) /\ last >= job.count
    BY <2>2 DEF last
  <2>6. PartFits /\ Fits /\ ~job.lost => \A a \in Asked : words[a] = data[a - job.offset + 1]
    BY <2>3 DEF data
  <2>7. QED
    BY <1>1, <1>2, <2>4, <2>5, <2>6, NvmReadsWords
<1>5. QED
  BY <1>2, <1>3, <1>4

LEMMA NvmWritesChunk ==
    ASSUME NvmInvariant, e1000_write_nvm_srwr_i210
    PROVE  NvmInvariant'
<1>1. /\ NvmTypes /\ readOp = "srrd" /\ words = [a \in Addresses |-> words[a]] /\ job.i \in Nat
      /\ job.offset \in Nat /\ job.count \in Nat
  BY DEF NvmInvariant, HeldForTransfer, NvmTypes
<1>2. /\ IsFlash /\ job.call = "write" /\ held /\ held' = FALSE /\ UNCHANGED <<type, readOp>>
      /\ \/ /\ InRange(ChunkStart, ChunkCount)
            /\ \E done \in SUBSET (0 .. (ChunkCount - 1)) :
                 /\ words' = SrwrWrites(done)
                 /\ job' = [job EXCEPT !.i = @ + MaxCount,
                                       !.lost = @ \/ done # 0 .. (ChunkCount - 1)]
         \/ Returns("NVM") /\ UNCHANGED words
  BY DEF e1000_write_nvm_srwr_i210, HeldAfter
<1>3. CASE Returns("NVM") /\ UNCHANGED words
  BY <1>1, <1>2, <1>3, NvmGivesUp
<1>4. ASSUME InRange(ChunkStart, ChunkCount),
             NEW done \in SUBSET (0 .. (ChunkCount - 1)), words' = SrwrWrites(done),
             job' = [job EXCEPT !.i = @ + MaxCount,
                                !.lost = @ \/ done # 0 .. (ChunkCount - 1)]
      PROVE  NvmInvariant'
  <2> DEFINE last == job.i + MaxCount
             lost == job.lost \/ done # 0 .. (ChunkCount - 1)
  <2>1. last \in Nat /\ last > 0
    BY <1>1, NvmNumbers
  <2>2. job' = [job EXCEPT !.i = last, !.lost = lost] /\ lost \in BOOLEAN
    BY <1>4
  <2>3. words' = [a \in Addresses |-> words'[a]]
    BY <1>4 DEF SrwrWrites
  <2>4. ASSUME Fits
        PROVE  /\ InRange(job.offset, job.count) /\ last >= job.count
               /\ ChunkCount = job.count /\ job.i = 0
    <3>1. job.i = 0 /\ ChunkCount = job.count /\ job.count <= MaxCount
      BY <1>2, <2>4, OneChunk
    <3>2. QED
      BY <1>1, <1>4, <3>1, NvmNumbers DEF ChunkStart
  <2>5. ASSUME PartFits, Fits, ~lost, NEW a \in Addresses
        PROVE  words'[a] = IF a \in Asked /\ a - job.offset < last
                             THEN job.data[a - job.offset + 1] ELSE job.before[a]
    <3>1. job.i = 0 /\ last >= job.count /\ done = 0 .. (job.count - 1) /\ a \in Nat
      BY <2>4, <2>5 DEF Addresses
    <3>2. words[a] = job.before[a]
      <4>1. Transferring("write")
        BY <1>1, <1>2, <2>5 DEF Transferring, NvmTypes
      <4>2. words[a] = IF a \in Asked /\ a - job.offset < job.i
                         THEN job.data[a - job.offset + 1] ELSE job.before[a]
        BY <4>1 DEF NvmInvariant, WrittenSoFar
      <4>3. a \in Asked => ~(a - job.offset < job.i)
        BY <1>1, <3>1 DEF Asked
      <4>4. QED
        BY <4>2, <4>3
    <3>3. words'[a] = IF a - job.offset \in 0 .. (job.count - 1)
                        THEN job.data[job.i + a - job.offset + 1] ELSE words[a]
      BY <1>4, <3>1 DEF SrwrWrites, ChunkStart
    <3>4. a - job.offset \in 0 .. (job.count - 1) <=> a \in Asked /\ a - job.offset < last
      <4> HIDE DEF last
      <4>1. QED
        BY <1>1, <2>1, <3>1 DEF Asked
    <3>5. job.i + a - job.offset + 1 = a - job.offset + 1
      BY <1>1, <3>1
    <3>6. QED
      BY <3>2, <3>3, <3>4, <3>5
  <2> HIDE DEF last, lost
  <2>6. QED
    BY <1>2, <1>1, <2>1, <2>2, <2>3, <2>4, <2>5, NvmWritesWords
<1>5. QED
  BY <1>2, <1>3, <1>4

(* An EEPROM. *)
LEMMA NvmReadsSpi ==
    ASSUME NvmInvariant, e1000_read_nvm_spi
    PROVE  NvmInvariant'
<1> DEFINE start == IF type = "microwire" THEN job.offset ELSE SpiAddress(0)
           data == [k \in 1 .. job.count |-> words[start + k - 1]]
<1>1. /\ NvmTypes /\ readOp = "srrd" /\ job.offset \in Nat /\ job.count \in Nat
      /\ type \in Types
  BY DEF NvmInvariant, HeldForTransfer, NvmTypes
<1>2. /\ ~IsFlash /\ job.call = "read" /\ held /\ held' = FALSE
      /\ UNCHANGED <<type, words, readOp>>
      /\ job' = [job EXCEPT !.i = job.count, !.data = data]
  BY DEF e1000_read_nvm_spi, HeldAfter
<1>3. job.count > 0
  BY <1>1, <1>2 DEF NvmInvariant, HeldForTransfer, HasMore, NvmTypes
<1>4. /\ Fits => InRange(job.offset, job.count)
      /\ job.count >= job.count
  BY <1>1, <1>2 DEF NvmInvariant, AskedInRange
<1>5. ASSUME PartFits, Fits, NEW a \in Asked
      PROVE  words[a] = data[a - job.offset + 1]
  <2>1. start = job.offset
    <3>1. 0 \in 0 .. (job.count - 1)
      BY <1>1, <1>3
    <3>2. SpiAddress(0) = job.offset + 0
      BY <1>1, <1>4, <1>5, <3>1, SpiAddressWhole
    <3>3. QED
      BY <1>1, <3>2
  <2>2. a - job.offset + 1 \in 1 .. job.count /\ job.offset + (a - job.offset + 1) - 1 = a
    BY <1>1 DEF Asked
  <2> HIDE DEF start
  <2>3. QED
    BY <2>1, <2>2
<1> HIDE DEF data
<1>6. QED
  BY <1>1, <1>2, <1>3, <1>4, <1>5, NvmReadsWords

LEMMA NvmWritesPage ==
    ASSUME NvmInvariant, e1000_write_nvm_spi
    PROVE  NvmInvariant'
<1> DEFINE last == PageEnd(job.i)
<1>1. /\ NvmTypes /\ readOp = "srrd" /\ job.offset \in Nat /\ job.count \in Nat
      /\ job.i \in Nat
  BY DEF NvmInvariant, HeldForTransfer, NvmTypes
<1>2. /\ ~IsFlash /\ job.call = "write" /\ held /\ held' = FALSE
      /\ UNCHANGED <<type, readOp>>
      /\ words' = Programmed(job.i, last)
      /\ job' = [job EXCEPT !.i = last]
  BY DEF e1000_write_nvm_spi, HeldAfter, IsFlash
<1>3. job.i < job.count
  BY <1>1, <1>2 DEF NvmInvariant, HeldForTransfer, HasMore
<1>4. last \in (job.i + 1) .. job.count
  BY <1>1, <1>3, PageEnds
<1>5. words' = [a \in Addresses |-> words'[a]]
  <2> HIDE DEF last
  <2>1. QED
    BY <1>2 DEF Programmed
<1>6. Fits => InRange(job.offset, job.count)
  BY <1>2 DEF NvmInvariant, AskedInRange
<1>7. ASSUME PartFits, Fits, ~job.lost, NEW a \in Addresses
      PROVE  words'[a] = IF a \in Asked /\ a - job.offset < last
                           THEN job.data[a - job.offset + 1] ELSE job.before[a]
  <2>1. words'[a] = IF a - (job.offset + job.i) \in 0 .. (last - job.i - 1)
                      THEN job.data[a - job.offset + 1] ELSE words[a]
    BY <1>1, <1>2, <1>3, <1>6, <1>7, PageProgrammed
  <2>2. words[a] = IF a \in Asked /\ a - job.offset < job.i
                     THEN job.data[a - job.offset + 1] ELSE job.before[a]
    BY <1>2, <1>7 DEF NvmInvariant, Transferring, WrittenSoFar
  <2> HIDE DEF last
  <2>3. a \in Asked /\ a - job.offset < last
          <=> \/ a \in Asked /\ a - job.offset < job.i
              \/ a - (job.offset + job.i) \in 0 .. (last - job.i - 1)
    BY <1>1, <1>3, <1>4 DEF Asked, Addresses
  <2>4. QED
    BY <2>1, <2>2, <2>3
<1>8. /\ job' = [job EXCEPT !.i = last, !.lost = job.lost] /\ job.lost \in BOOLEAN
      /\ last \in Nat /\ last > 0
  <2> HIDE DEF last
  <2>1. last \in Nat /\ last > 0
    BY <1>1, <1>4
  <2>2. QED
    BY <1>1, <1>2, <2>1 DEF NvmTypes
<1> HIDE DEF last
<1>9. QED
  BY <1>1, <1>2, <1>5, <1>6, <1>7, <1>8, NvmWritesWords

LEMMA NvmWritesMicrowire ==
    ASSUME NvmInvariant, e1000_write_nvm_microwire
    PROVE  NvmInvariant'
<1>1. /\ NvmTypes /\ readOp = "srrd" /\ job.offset \in Nat /\ job.count \in Nat
      /\ job.i \in Nat
  BY DEF NvmInvariant, HeldForTransfer, NvmTypes
<1>2. PICK done \in 0 .. job.count :
        /\ words' = [a \in Addresses |-> IF a - job.offset \in 0 .. (done - 1)
                                           THEN job.data[a - job.offset + 1] ELSE words[a]]
        /\ IF done = job.count THEN job' = [job EXCEPT !.i = job.count] ELSE Returns("NVM")
        /\ held' = HeldAfter(done = job.count)
  BY DEF e1000_write_nvm_microwire
<1>3. /\ ~IsFlash /\ job.call = "write" /\ held /\ held' = FALSE
      /\ UNCHANGED <<type, readOp>> /\ words' = [a \in Addresses |-> words'[a]]
  BY <1>2 DEF e1000_write_nvm_microwire, HeldAfter, IsFlash
<1>4. CASE done # job.count
  BY <1>1, <1>2, <1>3, <1>4, NvmGivesUp
<1>5. CASE done = job.count
  <2>1. job' = [job EXCEPT !.i = job.count, !.lost = job.lost] /\ job.lost \in BOOLEAN
    BY <1>1, <1>2, <1>5 DEF NvmTypes
  <2>2. job.count > 0
    BY <1>1, <1>3 DEF NvmInvariant, HeldForTransfer, HasMore
  <2>3. Fits => InRange(job.offset, job.count)
    BY <1>3 DEF NvmInvariant, AskedInRange
  <2>4. ASSUME PartFits, Fits, ~job.lost, NEW a \in Addresses
        PROVE  words'[a] = IF a \in Asked /\ a - job.offset < job.count
                             THEN job.data[a - job.offset + 1] ELSE job.before[a]
    <3>1. words'[a] = IF a - job.offset \in 0 .. (job.count - 1)
                        THEN job.data[a - job.offset + 1] ELSE words[a]
      BY <1>2, <1>5
    <3>2. words[a] = IF a \in Asked /\ a - job.offset < job.i
                       THEN job.data[a - job.offset + 1] ELSE job.before[a]
      BY <1>3, <2>4 DEF NvmInvariant, Transferring, WrittenSoFar
    <3>3. a \in Asked /\ a - job.offset < job.count <=> a - job.offset \in 0 .. (job.count - 1)
      BY <1>1 DEF Asked, Addresses
    <3>4. a \in Asked /\ a - job.offset < job.i => a - job.offset \in 0 .. (job.count - 1)
      BY <1>1 DEF Asked, Addresses
    <3>5. QED
      BY <3>1, <3>2, <3>3, <3>4
  <2>5. QED
    BY <1>1, <1>3, <2>1, <2>2, <2>3, <2>4, NvmWritesWords
<1>6. QED
  BY <1>4, <1>5

(* The calls of the memory's users. *)
LEMMA NvmIsCalled ==
    ASSUME NvmInvariant,
           \/ e1000_read_nvm \/ e1000_write_nvm
           \/ e1000_validate_nvm_checksum \/ e1000_update_nvm_checksum
    PROVE  NvmInvariant'
<1>1. CASE e1000_read_nvm
  <2>1. PICK o \in 0 .. WordSize, c \in 0 .. WordSize :
          CanStart(o, c) /\ Call("read", o, c, <<>>)
    BY <1>1 DEF e1000_read_nvm
  <2>2. o \in Nat /\ c \in Nat /\ "read" \in Working
    BY DEF Working
  <2>3. QED
    BY <2>1, <2>2, NvmCalls
<1>2. CASE e1000_write_nvm
  <2>1. PICK o \in 0 .. WordSize, c \in 0 .. WordSize :
          CanStart(o, c) /\ Call("write", o, c, [k \in 1 .. c |-> (k + 1) % Base])
    BY <1>2 DEF e1000_write_nvm
  <2> DEFINE data == [k \in 1 .. c |-> (k + 1) % Base]
  <2>2. o \in Nat /\ c \in Nat /\ "write" \in Working
    BY DEF Working
  <2>3. c = 0 => data = <<>>
    OBVIOUS
  <2> HIDE DEF data
  <2>4. Call("write", o, c, data)
    BY <2>1 DEF data
  <2>5. QED
    BY <2>1, <2>2, <2>3, <2>4, NvmCalls
<1>3. CASE e1000_validate_nvm_checksum
  BY <1>3, NvmCalls DEF e1000_validate_nvm_checksum, Working
<1>4. CASE e1000_update_nvm_checksum
  BY <1>4, NvmCalls DEF e1000_update_nvm_checksum, Working
<1>5. QED
  BY <1>1, <1>2, <1>3, <1>4

LEMMA NvmStarts == Init => NvmInvariant
<1> SUFFICES ASSUME Init PROVE NvmInvariant
  OBVIOUS
<1>1. /\ job = [call |-> "none", offset |-> 0, count |-> 0, i |-> 0, data |-> <<>>,
                status |-> "SUCCESS", lost |-> FALSE, before |-> [a \in Addresses |-> 0]]
      /\ words = [a \in Addresses |-> a % Base]
      /\ type \in Types /\ held = FALSE /\ readOp = "srrd"
  BY DEF Init, Idle
<1>2. words = [a \in Addresses |-> words[a]]
  <2> DEFINE w(a) == a % Base
  <2>1. words = [a \in Addresses |-> w(a)]
    BY <1>1
  <2> HIDE DEF w
  <2>2. QED
    BY <2>1
<1>3. NvmTypes
  BY <1>1, <1>2 DEF NvmTypes
<1>4. job.call = "none" /\ job.data = <<>>
  BY <1>1
<1>5. HeldForTransfer /\ AskedInRange
  BY <1>1, <1>4 DEF HeldForTransfer, AskedInRange
<1>6. /\ ~Transferring("read") /\ ~Transferring("write")
      /\ TransfersWhatWasAsked
  BY <1>4 DEF Transferring, TransfersWhatWasAsked, Succeeded
<1>7. QED
  BY <1>3, <1>5, <1>6 DEF NvmInvariant

LEMMA NvmStays == ASSUME NvmInvariant, UNCHANGED nvmVars PROVE NvmInvariant'
<1>1. type' = type /\ words' = words /\ held' = held /\ readOp' = readOp /\ job' = job
  BY DEF nvmVars
<1>2. NvmTypes' /\ HeldForTransfer' /\ AskedInRange'
  BY <1>1 DEF NvmInvariant, NvmTypes, HeldForTransfer, AskedInRange, IsFlash, Fits, InRange,
              HasMore
<1>3. (Transferring("read") => ReadSoFar)' /\ (Transferring("write") => WrittenSoFar)'
  BY <1>1 DEF NvmInvariant, Transferring, ReadSoFar, WrittenSoFar, Asked, Fits, PartFits
<1>4. (PartFits => TransfersWhatWasAsked)'
  BY <1>1 DEF NvmInvariant, TransfersWhatWasAsked, Succeeded, Asked, Fits, PartFits
<1>5. QED
  BY <1>2, <1>3, <1>4 DEF NvmInvariant

LEMMA NvmHolds ==
    ServicesSpec => []NvmInvariant
<1>1. ServicesInit => NvmInvariant
  BY NvmStarts DEF ServicesInit
<1>2. NvmInvariant /\ [ServicesNext]_serviceVars => NvmInvariant'
  <2> SUFFICES ASSUME NvmInvariant, [ServicesNext]_serviceVars PROVE NvmInvariant'
    OBVIOUS
  <2>1. CASE Next
    BY <2>1, NvmIsCalled, NvmAcquires, NvmSucceeds, NvmChecksums, NvmReadsChunk, NvmWritesChunk,
       NvmReadsSpi, NvmWritesPage, NvmWritesMicrowire DEF Next
  <2>2. CASE UNCHANGED nvmVars
    BY <2>2, NvmStays
  <2>3. QED
    BY <2>1, <2>2 DEF ServicesNext, serviceVars
<1>3. QED
  BY <1>1, <1>2, PTL DEF ServicesSpec

(* Whatever times out, and wherever, a call that has returned has left the *)
(* semaphore or EECD.REQ to others, and the function that reads under it   *)
(* as the driver expects it.                                               *)
THEOREM NothingIsLeftBehind == ServicesSpec => []NothingLeftBehind
<1>1. NvmInvariant => NothingLeftBehind
  BY DEF NvmInvariant, NvmTypes, HeldForTransfer, NothingLeftBehind
<1>2. QED
  BY <1>1, NvmHolds, PTL

(* Of a memory that its addresses reach, a successful read that fits has   *)
(* the words asked for, and a successful write of which no access timed    *)
(* out has changed these words and no others: whatever the size of a page, *)
(* and wherever in a page the write begins and ends.                       *)
THEOREM TransfersAreExact == ServicesSpec => [](PartFits => TransfersWhatWasAsked)
<1>1. NvmInvariant => (PartFits => TransfersWhatWasAsked)
  BY DEF NvmInvariant
<1>2. QED
  BY <1>1, NvmHolds, PTL
-----------------------------------------------------------------------------
(* The part number: the inductive invariant. *)

PbaAddresses == 0 .. (PbaWords - 1)
PbaStatus == {"none", "SUCCESS", "written", "NVM", "NO_SPACE", "NVM_PBA_SECTION", "PARAM"}

PbaTypes ==
    /\ nvm \in [PbaAddresses -> Nat]
    /\ pba = [status |-> pba.status, size |-> pba.size, written |-> pba.written,
              block |-> pba.block]
    /\ pba.size \in Nat /\ pba.written \in Nat

(* A length that was reported is still the one in the memory, and so is a  *)
(* part number that was read, until it is written.                         *)
LengthKept ==
    pba.status = "SUCCESS" /\ pba.size > 0 =>
        IF Contents!IsBlock
          THEN /\ Contents!Readable(nvm[Contents!Offset1]) /\ ~Contents!BadLength
               /\ pba.size = Contents!BlockChars
          ELSE pba.size = PbaNumLength
BlockKept ==
    pba.status = "SUCCESS" /\ pba.block # <<>> =>
        Contents!RawReadable /\ pba.block = Contents!RawBlock

PbaInvariant ==
    /\ PbaTypes /\ LengthKept /\ BlockKept
    /\ Contents!LengthSuffices /\ Contents!RawRoundTrip
-----------------------------------------------------------------------------
LEMMA PbaNumbers ==
    /\ Offset0 \in PbaAddresses /\ Contents!Offset1 \in PbaAddresses
    /\ Contents!Offset1 = Offset0 + 1 /\ Offset0 \in Nat /\ PbaWords \in Nat
    /\ PbaNumLength \in Nat /\ PbaNumLength >= 11
BY PartsAssumption DEF PbaAddresses, Contents!Offset1

(* The length of a block that can be looked up. *)
LEMMA PbaLength ==
    ASSUME PbaTypes
    PROVE  /\ nvm[Offset0] \in Nat /\ nvm[Contents!Offset1] \in Nat
           /\ DOMAIN nvm = PbaAddresses
           /\ Contents!Readable(nvm[Contents!Offset1]) => Contents!Length \in Nat
BY PbaNumbers DEF PbaTypes, Contents!Readable, Contents!Length

(* A block that was read raw: its words, one by one. *)
LEMMA RawBlockWords ==
    ASSUME PbaTypes, Contents!RawReadable
    PROVE  /\ Contents!RawBlock[1] = nvm[Offset0]
           /\ Contents!RawBlock[2] = nvm[Contents!Offset1]
           /\ \A k \in 1 .. Contents!e1000_get_pba_block_size :
                Contents!RawBlock[k + 2] = nvm[nvm[Contents!Offset1] + k - 1]
           /\ Contents!RawBlock # <<>>
           /\ Contents!e1000_get_pba_block_size \in Nat
<1> DEFINE n == Contents!e1000_get_pba_block_size
           head == <<nvm[Offset0], nvm[Contents!Offset1]>>
           V == {nvm[a] : a \in PbaAddresses}
           tail == [k \in 1 .. n |-> nvm[nvm[Contents!Offset1] + k - 1]]
<1>1. /\ DOMAIN nvm = PbaAddresses /\ nvm[Contents!Offset1] \in Nat
      /\ Contents!Readable(nvm[Contents!Offset1]) => Contents!Length \in Nat
  BY PbaLength
<1>2. /\ n \in Nat
      /\ n # 0 => /\ n = Contents!Length
                  /\ PbaWords > nvm[Contents!Offset1] + Contents!Length
  <2>1. CASE ~Contents!IsBlock
    BY <2>1 DEF Contents!e1000_get_pba_block_size
  <2>2. CASE Contents!IsBlock
    <3>1. /\ PbaWords > nvm[Contents!Offset1] /\ n = Contents!Length
          /\ PbaWords > nvm[Contents!Offset1] + Contents!Length
      BY <2>2 DEF Contents!RawReadable, Contents!e1000_get_pba_block_size, Contents!InImage
    <3>2. Contents!Readable(nvm[Contents!Offset1])
      BY <1>1, <3>1, PbaNumbers DEF Contents!Readable, PbaAddresses
    <3>3. QED
      BY <1>1, <3>1, <3>2
  <2>3. QED
    BY <2>1, <2>2
<1> HIDE DEF n
<1>3. \A k \in 1 .. n : tail[k] \in V
  <2> SUFFICES ASSUME NEW k \in 1 .. n PROVE nvm[nvm[Contents!Offset1] + k - 1] \in V
    OBVIOUS
  <2>1. nvm[Contents!Offset1] + k - 1 \in PbaAddresses
    BY <1>1, <1>2, PbaNumbers DEF PbaAddresses
  <2>2. QED
    BY <2>1
<1>4. tail \in Seq(V) /\ Len(tail) = n
  <2>1. tail \in [1 .. n -> V]
    BY <1>3
  <2> HIDE DEF tail, V
  <2>2. tail \in Seq(V)
    BY <1>2, <2>1
  <2>3. DOMAIN tail = 1 .. n
    BY <2>1
  <2>4. QED
    BY <1>2, <2>2, <2>3, LenProperties
<1>5. head \in Seq(V) /\ Len(head) = 2 /\ head[1] = nvm[Offset0] /\ head[2] = nvm[Contents!Offset1]
  <2>1. nvm[Offset0] \in V /\ nvm[Contents!Offset1] \in V
    BY PbaNumbers
  <2> HIDE DEF V
  <2>2. QED
    BY <2>1
<1>6. \A k \in 1 .. n : tail[k] = nvm[nvm[Contents!Offset1] + k - 1]
  OBVIOUS
<1>7. Contents!RawBlock = head \o tail
  BY DEF Contents!RawBlock, n
<1> HIDE DEF head, tail, V
<1>8. /\ Len(head \o tail) = 2 + n
      /\ \A i \in 1 .. (2 + n) : (head \o tail)[i] = IF i <= 2 THEN head[i] ELSE tail[i - 2]
  <2>1. head \in Seq(V) /\ tail \in Seq(V) /\ Len(head) = 2 /\ Len(tail) = n
    BY <1>4, <1>5
  <2>2. /\ Len(head \o tail) = Len(head) + Len(tail)
        /\ \A i \in 1 .. (Len(head) + Len(tail)) :
             (head \o tail)[i] = IF i <= Len(head) THEN head[i] ELSE tail[i - Len(head)]
    BY <2>1, ConcatProperties
  <2>3. QED
    BY <2>1, <2>2
<1>9. \A k \in 1 .. n : (head \o tail)[k + 2] = tail[k]
  <2> SUFFICES ASSUME NEW k \in 1 .. n PROVE (head \o tail)[k + 2] = tail[k]
    OBVIOUS
  <2>1. k + 2 \in 1 .. (2 + n) /\ ~(k + 2 <= 2) /\ k + 2 - 2 = k
    BY <1>2
  <2>2. QED
    BY <1>8, <2>1
<1>10. (head \o tail)[1] = head[1] /\ (head \o tail)[2] = head[2]
  BY <1>2, <1>8
<1>11. head \o tail # <<>>
  BY <1>2, <1>8
<1>12. QED
  BY <1>2, <1>5, <1>6, <1>7, <1>9, <1>10, <1>11 DEF n

(* The readers. *)
LEMMA PbaReads ==
    ASSUME PbaInvariant,
           \/ Contents!e1000_read_pba_length_generic \/ Contents!e1000_read_pba_raw
    PROVE  PbaInvariant'
<1>1. PbaTypes
  BY DEF PbaInvariant
<1>2. /\ DOMAIN nvm = PbaAddresses /\ nvm[Contents!Offset1] \in Nat
      /\ Contents!Readable(nvm[Contents!Offset1]) => Contents!Length \in Nat
  BY <1>1, PbaLength
<1>3. CASE Contents!e1000_read_pba_length_generic
  <2> DEFINE status == IF ~Contents!IsBlock THEN "SUCCESS"
                       ELSE IF ~Contents!Readable(nvm[Contents!Offset1]) THEN "NVM"
                       ELSE IF Contents!BadLength THEN "NVM_PBA_SECTION" ELSE "SUCCESS"
             size == IF ~Contents!IsBlock THEN PbaNumLength
                     ELSE IF ~Contents!Readable(nvm[Contents!Offset1]) THEN 0
                     ELSE IF Contents!BadLength THEN 0 ELSE Contents!BlockChars
  <2>1. /\ pba' = [status |-> status, size |-> size, written |-> 0, block |-> <<>>]
        /\ nvm' = nvm
    BY <1>3 DEF Contents!e1000_read_pba_length_generic, Contents!Failed
  <2>2. size \in Nat
    BY <1>2, PbaNumbers DEF Contents!BlockChars, Contents!BadLength
  <2>3. PbaTypes'
    BY <1>1, <2>1, <2>2 DEF PbaTypes
  <2>4. LengthKept'
    BY <2>1 DEF LengthKept, Contents!IsBlock, Contents!Readable, Contents!BadLength,
                Contents!BlockChars, Contents!Length
  <2>5. BlockKept' /\ Contents!RawRoundTrip'
    BY <2>1 DEF BlockKept, Contents!RawRoundTrip
  <2>6. Contents!LengthSuffices'
    BY <2>1, <2>2 DEF Contents!LengthSuffices
  <2>7. QED
    BY <2>3, <2>4, <2>5, <2>6 DEF PbaInvariant
<1>4. CASE Contents!e1000_read_pba_raw
  <2> DEFINE status == IF Contents!RawReadable THEN "SUCCESS" ELSE "PARAM"
             block == IF Contents!RawReadable THEN Contents!RawBlock ELSE <<>>
  <2>1. /\ pba' = [status |-> status, size |-> 0, written |-> 0, block |-> block]
        /\ nvm' = nvm
    BY <1>4 DEF Contents!e1000_read_pba_raw, Contents!Failed
  <2>2. PbaTypes' /\ LengthKept' /\ Contents!RawRoundTrip' /\ Contents!LengthSuffices'
    BY <1>1, <2>1 DEF PbaTypes, LengthKept, Contents!RawRoundTrip, Contents!LengthSuffices
  <2>3. Contents!RawReadable' = Contents!RawReadable /\ Contents!RawBlock' = Contents!RawBlock
    BY <2>1 DEF Contents!RawReadable, Contents!RawBlock, Contents!e1000_get_pba_block_size,
                Contents!IsBlock, Contents!BadLength, Contents!Length, Contents!InImage
  <2>4. BlockKept'
    BY <2>1, <2>3 DEF BlockKept
  <2>5. QED
    BY <2>2, <2>4 DEF PbaInvariant
<1>5. QED
  BY <1>3, <1>4

LEMMA SameCardinality == \A S : Contents!Cardinality(S) = Cardinality(S)
BY DEF Contents!Cardinality, Cardinality

LEMMA PbaString ==
    ASSUME PbaInvariant, Contents!e1000_read_pba_string_generic
    PROVE  PbaInvariant'
<1>1. PbaTypes /\ LengthKept /\ BlockKept /\ Contents!LengthSuffices
  BY DEF PbaInvariant
<1>2. /\ DOMAIN nvm = PbaAddresses /\ nvm[Contents!Offset1] \in Nat
      /\ Contents!Readable(nvm[Contents!Offset1]) => Contents!Length \in Nat
  BY <1>1, PbaLength
<1> DEFINE n == Contents!Length
           readable == {k \in 1 .. (n - 1) : Contents!Readable(nvm[Contents!Offset1] + k)}
           c == Contents!Cardinality(readable)
<1>3. /\ nvm' = nvm /\ pba.status = "SUCCESS" /\ pba.size > 0
      /\ pba' = IF ~Contents!IsBlock THEN
                  IF pba.size < PbaNumLength THEN [pba EXCEPT !.status = "NO_SPACE"]
                                     ELSE [pba EXCEPT !.status = "SUCCESS", !.written = 11]
                ELSE IF ~Contents!Readable(nvm[Contents!Offset1]) THEN [pba EXCEPT !.status = "NVM"]
                ELSE IF Contents!BadLength THEN [pba EXCEPT !.status = "NVM_PBA_SECTION"]
                ELSE IF pba.size < 2 * n - 1 THEN [pba EXCEPT !.status = "NO_SPACE"]
                ELSE IF c = n - 1
                       THEN [pba EXCEPT !.status = "SUCCESS", !.written = 2 * (n - 1) + 1]
                       ELSE [pba EXCEPT !.status = "NVM", !.written = 2 * c]
  BY DEF Contents!e1000_read_pba_string_generic
<1>4. PICK status \in {"SUCCESS", "NVM"}, written \in Nat :
        /\ pba' = [pba EXCEPT !.status = status, !.written = written]
        /\ written <= pba.size
  <2>1. CASE ~Contents!IsBlock
    <3>1. pba.size = PbaNumLength
      BY <1>1, <1>3, <2>1 DEF LengthKept
    <3>2. pba' = [pba EXCEPT !.status = "SUCCESS", !.written = 11] /\ 11 <= pba.size
      BY <1>3, <2>1, <3>1, PbaNumbers
    <3>3. QED
      BY <3>2
  <2>2. CASE Contents!IsBlock
    <3>1. /\ Contents!Readable(nvm[Contents!Offset1]) /\ ~Contents!BadLength
          /\ pba.size = 2 * n - 1
      BY <1>1, <1>3, <2>2 DEF LengthKept, Contents!BlockChars
    <3>2. n \in Nat /\ n # 0
      BY <1>2, <3>1 DEF Contents!BadLength
    <3>3. c \in Nat /\ c <= n - 1
      <4>1. 1 \in Int /\ n - 1 \in Int /\ readable \in SUBSET (1 .. (n - 1))
        BY <3>2
      <4> HIDE DEF n
      <4>2. /\ IsFiniteSet(1 .. (n - 1))
            /\ Cardinality(1 .. (n - 1)) = IF 1 > n - 1 THEN 0 ELSE (n - 1) - 1 + 1
        BY <4>1, FS_Interval
      <4> HIDE DEF readable
      <4>3. /\ IsFiniteSet(readable)
            /\ Cardinality(readable) <= Cardinality(1 .. (n - 1))
        BY <4>1, <4>2, FS_Subset
      <4>4. Cardinality(readable) \in Nat
        BY <4>3, FS_CardinalityType
      <4>5. c = Cardinality(readable)
        BY SameCardinality
      <4>6. QED
        BY <3>2, <4>2, <4>3, <4>4, <4>5
    <3> HIDE DEF n, c, readable
    <3>4. ~(pba.size < 2 * n - 1)
      BY <3>1, <3>2
    <3>5. pba' = IF c = n - 1
                   THEN [pba EXCEPT !.status = "SUCCESS", !.written = 2 * (n - 1) + 1]
                   ELSE [pba EXCEPT !.status = "NVM", !.written = 2 * c]
      BY <1>3, <2>2, <3>1, <3>4
    <3>6. /\ 2 * (n - 1) + 1 \in Nat /\ 2 * (n - 1) + 1 <= pba.size
          /\ 2 * c \in Nat /\ 2 * c <= pba.size
      BY <3>1, <3>2, <3>3
    <3>7. QED
      BY <3>5, <3>6
  <2>3. QED
    BY <2>1, <2>2
<1>5. pba' = [status |-> status, size |-> pba.size, written |-> written, block |-> pba.block]
  BY <1>1, <1>4 DEF PbaTypes
<1>6. PbaTypes' /\ Contents!RawRoundTrip' /\ Contents!LengthSuffices'
  BY <1>1, <1>3, <1>4, <1>5 DEF PbaTypes, Contents!RawRoundTrip, Contents!LengthSuffices
<1>7. LengthKept'
  BY <1>1, <1>3, <1>5 DEF LengthKept, Contents!IsBlock, Contents!Readable, Contents!BadLength,
                          Contents!BlockChars, Contents!Length
<1>8. BlockKept'
  BY <1>1, <1>3, <1>5 DEF BlockKept, Contents!RawReadable, Contents!RawBlock,
       Contents!e1000_get_pba_block_size, Contents!IsBlock, Contents!BadLength, Contents!Length,
       Contents!InImage
<1>9. QED
  BY <1>6, <1>7, <1>8 DEF PbaInvariant

(* Both words and the block reach the other image, also where the block    *)
(* lies over the words. *)
LEMMA PbaWrites ==
    ASSUME PbaInvariant, Contents!e1000_write_pba_raw
    PROVE  PbaInvariant'
<1> DEFINE n == Contents!e1000_get_pba_block_size
           at == nvm[Contents!Offset1]
           b == pba.block
           m == Contents!BlockWords
<1>1. /\ PbaTypes /\ Contents!LengthSuffices /\ Contents!RawReadable /\ b = Contents!RawBlock
  BY DEF PbaInvariant, BlockKept, Contents!e1000_write_pba_raw
<1>2. /\ b[1] = nvm[Offset0] /\ b[2] = at /\ n \in Nat
      /\ \A k \in 1 .. n : b[k + 2] = nvm[at + k - 1]
  BY <1>1, RawBlockWords
<1>3. /\ nvm[Offset0] \in Nat /\ at \in Nat /\ DOMAIN nvm = PbaAddresses
      /\ Contents!Readable(at) => Contents!Length \in Nat
  BY <1>1, PbaLength
<1>4. ASSUME Contents!IsBlock
      PROVE  /\ n = Contents!Length /\ n > 0 /\ n # Empty /\ at + n < PbaWords
             /\ m = n /\ nvm[at] = n
  <2>1. /\ PbaWords > at /\ ~Contents!BadLength /\ n = Contents!Length
        /\ PbaWords > at + Contents!Length
    BY <1>1, <1>4 DEF Contents!RawReadable, Contents!e1000_get_pba_block_size, Contents!InImage
  <2>2. n # 0 /\ n # Empty
    BY <2>1 DEF Contents!BadLength
  <2>3. 1 \in 1 .. n /\ at + 1 - 1 = at /\ 1 + 2 = 3
    BY <1>2, <1>3, <2>2
  <2>4. b[3] = nvm[at]
    BY <1>2, <2>3
  <2>5. m = b[3]
    BY <1>2, <1>4 DEF Contents!BlockWords, Contents!IsBlock
  <2>6. nvm[at] = n
    BY <2>1 DEF Contents!Length
  <2> HIDE DEF n, m, at, b
  <2>7. QED
    BY <1>2, <1>3, <2>1, <2>2, <2>4, <2>5, <2>6 DEF n
<1>5. ASSUME ~Contents!IsBlock
      PROVE  n = 0 /\ m = 0
  BY <1>2, <1>5 DEF Contents!e1000_get_pba_block_size, Contents!BlockWords, Contents!IsBlock
<1>6. /\ pba.status = "SUCCESS" /\ pba' = [pba EXCEPT !.status = "written"]
  BY DEF Contents!e1000_write_pba_raw
<1>7. PICK erased \in {0, Empty} :
        nvm' = [a \in PbaAddresses |->
                  IF a - b[2] \in 0 .. (m - 1) THEN b[a - b[2] + 3]
                  ELSE IF a \in {Offset0, Contents!Offset1} THEN b[a - Offset0 + 1]
                  ELSE erased]
  BY <1>3 DEF Contents!e1000_write_pba_raw
<1> HIDE DEF n, at, b, m
<1>8. m = n
  BY <1>4, <1>5
<1>9. ASSUME NEW a \in PbaAddresses, a - at \in 0 .. (n - 1)
      PROVE  nvm'[a] = nvm[a]
  <2>1. nvm'[a] = b[a - at + 3]
    BY <1>2, <1>7, <1>8, <1>9
  <2>2. a - at + 1 \in 1 .. n /\ a - at + 3 = (a - at + 1) + 2 /\ at + (a - at + 1) - 1 = a
    <3>1. a \in Int /\ at \in Int /\ n \in Int
      BY <1>2, <1>3, PbaNumbers DEF PbaAddresses
    <3>2. 0 <= a - at /\ a - at <= n - 1
      BY <1>9, <3>1
    <3>3. QED
      BY <3>1, <3>2
  <2>3. b[(a - at + 1) + 2] = nvm[at + (a - at + 1) - 1]
    BY <1>2, <2>2
  <2>4. QED
    BY <2>1, <2>2, <2>3
<1>10. nvm'[Offset0] = nvm[Offset0] /\ nvm'[Contents!Offset1] = at
  <2>1. ASSUME NEW a \in {Offset0, Contents!Offset1}, a - at \notin 0 .. (n - 1)
        PROVE  nvm'[a] = b[a - Offset0 + 1]
    BY <1>2, <1>7, <1>8, <2>1, PbaNumbers
  <2>2. Offset0 - Offset0 + 1 = 1 /\ Contents!Offset1 - Offset0 + 1 = 2
    BY PbaNumbers
  <2>3. nvm'[Offset0] = nvm[Offset0]
    BY <1>2, <1>9, <2>1, <2>2, PbaNumbers
  <2>4. nvm'[Contents!Offset1] = nvm[Contents!Offset1]
    BY <1>2, <1>9, <2>1, <2>2, PbaNumbers DEF at
  <2>5. QED
    BY <2>3, <2>4 DEF at
<1>11. nvm' \in [PbaAddresses -> Nat]
  <2> SUFFICES ASSUME NEW a \in PbaAddresses PROVE nvm'[a] \in Nat
    BY <1>7
  <2>1. nvm[a] \in Nat
    BY <1>1 DEF PbaTypes
  <2>2. CASE a - at \in 0 .. (n - 1)
    BY <1>9, <2>1, <2>2
  <2>3. CASE a \in {Offset0, Contents!Offset1}
    BY <1>3, <1>10, <2>3 DEF at
  <2>4. CASE a - at \notin 0 .. (n - 1) /\ a \notin {Offset0, Contents!Offset1}
    <3>1. nvm'[a] = erased
      BY <1>2, <1>7, <1>8, <2>4
    <3>2. QED
      BY <3>1, PartsAssumption
  <2>5. QED
    BY <2>2, <2>3, <2>4
<1>12. /\ Contents!IsBlock' = Contents!IsBlock
       /\ nvm'[Contents!Offset1] = nvm[Contents!Offset1]
  BY <1>10 DEF Contents!IsBlock, at
<1>13. Contents!IsBlock => /\ Contents!Length' = Contents!Length
                           /\ Contents!BadLength' = Contents!BadLength
  <2> SUFFICES ASSUME Contents!IsBlock PROVE Contents!Length' = Contents!Length
    BY DEF Contents!BadLength
  <2>1. at \in PbaAddresses /\ at - at \in 0 .. (n - 1)
    BY <1>2, <1>3, <1>4, PbaNumbers DEF PbaAddresses
  <2>2. nvm'[at] = nvm[at]
    BY <1>9, <2>1
  <2>3. QED
    BY <1>12, <2>2 DEF Contents!Length, at
<1>14. Contents!e1000_get_pba_block_size' = n
  BY <1>12, <1>13 DEF Contents!e1000_get_pba_block_size, n
<1>15. Contents!RawReadable'
  BY <1>1, <1>12, <1>13, <1>14 DEF Contents!RawReadable, Contents!InImage, n
<1>16. Contents!RawBlock' = b
  <2>1. \A k \in 1 .. n : nvm'[at + k - 1] = nvm[at + k - 1]
    <3> SUFFICES ASSUME NEW k \in 1 .. n PROVE nvm'[at + k - 1] = nvm[at + k - 1]
      OBVIOUS
    <3>1. n # 0
      BY <1>2
    <3>2. at + n < PbaWords
      BY <1>4, <1>5, <3>1
    <3>3. at + k - 1 \in PbaAddresses /\ at + k - 1 - at \in 0 .. (n - 1) /\ at \in Nat
      BY <1>2, <1>3, <3>2, PbaNumbers DEF PbaAddresses, at
    <3>4. QED
      BY <1>9, <3>3
  <2>2. [k \in 1 .. n |-> nvm'[at + k - 1]] = [k \in 1 .. n |-> nvm[at + k - 1]]
    BY <2>1
  <2>3. Contents!RawBlock' = <<nvm[Offset0], at>> \o [k \in 1 .. n |-> nvm'[at + k - 1]]
    BY <1>10, <1>14 DEF Contents!RawBlock
  <2>4. Contents!RawBlock = <<nvm[Offset0], at>> \o [k \in 1 .. n |-> nvm[at + k - 1]]
    BY DEF Contents!RawBlock, n, at
  <2>5. QED
    BY <1>1, <2>2, <2>3, <2>4
<1>17. pba' = [status |-> "written", size |-> pba.size, written |-> pba.written, block |-> b]
  BY <1>1, <1>6 DEF PbaTypes, b
<1>18. PbaTypes' /\ LengthKept' /\ BlockKept' /\ Contents!LengthSuffices'
  BY <1>1, <1>11, <1>17 DEF PbaTypes, LengthKept, BlockKept, Contents!LengthSuffices
<1>19. Contents!RawRoundTrip'
  BY <1>15, <1>16, <1>17 DEF Contents!RawRoundTrip
<1>20. QED
  BY <1>18, <1>19 DEF PbaInvariant

LEMMA PbaStays == ASSUME PbaInvariant, nvm' = nvm, pba' = pba PROVE PbaInvariant'
<1>1. /\ Contents!RawReadable' = Contents!RawReadable /\ Contents!RawBlock' = Contents!RawBlock
  BY DEF Contents!RawReadable, Contents!RawBlock, Contents!e1000_get_pba_block_size,
         Contents!IsBlock, Contents!BadLength, Contents!Length, Contents!InImage
<1>2. PbaTypes' /\ Contents!LengthSuffices'
  BY DEF PbaInvariant, PbaTypes, Contents!LengthSuffices
<1>3. LengthKept'
  BY DEF PbaInvariant, LengthKept, Contents!IsBlock, Contents!Readable, Contents!BadLength,
         Contents!BlockChars, Contents!Length
<1>4. BlockKept' /\ Contents!RawRoundTrip'
  BY <1>1 DEF PbaInvariant, BlockKept, Contents!RawRoundTrip
<1>5. QED
  BY <1>2, <1>3, <1>4 DEF PbaInvariant

LEMMA PbaStarts == Contents!Init => PbaInvariant
<1> SUFFICES ASSUME Contents!Init PROVE PbaInvariant
  OBVIOUS
<1>1. pba = [status |-> "none", size |-> 0, written |-> 0, block |-> <<>>]
  BY DEF Contents!Init, Contents!Failed
<1>2. nvm \in [PbaAddresses -> Nat]
  BY PartsAssumption DEF Contents!Init, PbaAddresses
<1>3. PbaTypes /\ LengthKept /\ BlockKept
  BY <1>1, <1>2 DEF PbaTypes, LengthKept, BlockKept
<1>4. Contents!LengthSuffices /\ Contents!RawRoundTrip
  BY <1>1 DEF Contents!LengthSuffices, Contents!RawRoundTrip
<1>5. QED
  BY <1>3, <1>4 DEF PbaInvariant

LEMMA PbaHolds == ServicesSpec => []PbaInvariant
<1>1. ServicesInit => PbaInvariant
  BY PbaStarts DEF ServicesInit
<1>2. PbaInvariant /\ [ServicesNext]_serviceVars => PbaInvariant'
  <2> SUFFICES ASSUME PbaInvariant, [ServicesNext]_serviceVars PROVE PbaInvariant'
    OBVIOUS
  <2>1. CASE Contents!Next
    <3>1. CASE Contents!e1000_read_invm_word_i210
      BY <3>1, PbaStays DEF Contents!e1000_read_invm_word_i210
    <3>2. QED
      BY <2>1, <3>1, PbaReads, PbaString, PbaWrites DEF Contents!Next
  <2>2. CASE UNCHANGED contentVars
    BY <2>2, PbaStays DEF contentVars
  <2>3. QED
    BY <2>1, <2>2 DEF ServicesNext, serviceVars
<1>3. QED
  BY <1>1, <1>2, PTL DEF ServicesSpec
-----------------------------------------------------------------------------
(* Induction. The library's theorems about it have an operator as their    *)
(* parameter; with a set in its place, the least element that is missing   *)
(* from it gives the same.                                                 *)
LEMMA LeastNumber ==
    ASSUME NEW S, S \subseteq Nat, S # {}
    PROVE  \E n \in S : \A m \in S : ~(m < n)
<1>1. PICK n \in S : \A m \in S : <<m, n>> \notin OpToRel(<, Nat)
  <2> DEFINE R == OpToRel(<, Nat)
  <2>1. IsWellFoundedOn(R, Nat)
    BY NatLessThanWellFounded
  <2> HIDE DEF R
  <2>2. \E n \in S : \A m \in S : ~ (<<m, n>> \in R)
    BY <2>1, WFMin
  <2>3. QED
    BY <2>2 DEF R
<1>2. \A m \in S : ~(m < n)
  BY <1>1, Zenon DEF OpToRel
<1>3. QED
  BY <1>2

LEMMA InductionOver ==
    ASSUME NEW S, 0 \in S, \A n \in Nat : n \in S => n + 1 \in S
    PROVE  \A n \in Nat : n \in S
<1>1. SUFFICES ASSUME Nat \ S # {} PROVE FALSE
  OBVIOUS
<1>2. PICK n \in Nat \ S : \A m \in Nat \ S : ~(m < n)
  BY <1>1, LeastNumber
<1>3. n - 1 \in Nat
  BY <1>2
<1>4. QED
  BY <1>2, <1>3
-----------------------------------------------------------------------------
(* Sums over the words of a memory. *)

(* What the sum over a part of the addresses follows from; and the sums.   *)
First(part) == CHOOSE a \in part : TRUE
SumStep(w, part, sums) ==
    IF part = {} THEN 0 ELSE w[First(part)] + sums[part \ {First(part)}]
Sums(w, S) == CHOOSE sums : sums = [part \in SUBSET S |-> SumStep(w, part, sums)]

LEMMA SumOfNone == ASSUME NEW w, NEW sums PROVE SumStep(w, {}, sums) = 0
BY DEF SumStep

LEMMA SumsAre == ASSUME NEW w, NEW S PROVE SumFunctionOnSet(w, S) = Sums(w, S)[S]
BY Zenon DEF SumFunctionOnSet, FoldFunctionOnSet, MapThenFoldSet, Sums, SumStep, First

(* A part without its first address is smaller. *)
LEMMA WithoutFirst ==
    ASSUME NEW S, IsFiniteSet(S), NEW part \in SUBSET S, part # {}
    PROVE  /\ First(part) \in part /\ part \ {First(part)} \in SUBSET S
           /\ Cardinality(part \ {First(part)}) = Cardinality(part) - 1
           /\ Cardinality(part) \in Nat /\ Cardinality(part) # 0
<1>1. First(part) \in part
  BY DEF First
<1>2. IsFiniteSet(part)
  BY FS_Subset
<1>3. Cardinality(part \ {First(part)}) = Cardinality(part) - 1
  BY <1>1, <1>2, FS_RemoveElement
<1>4. Cardinality(part) \in Nat /\ Cardinality(part) # 0
  BY <1>2, FS_CardinalityType, FS_EmptySet
<1>5. QED
  BY <1>1, <1>3, <1>4

LEMMA NoneIsEmpty ==
    ASSUME NEW S, IsFiniteSet(S), NEW part \in SUBSET S, Cardinality(part) <= 0
    PROVE  part = {}
<1>1. part # {} => Cardinality(part) \in Nat /\ Cardinality(part) # 0
  BY WithoutFirst
<1>2. QED
  BY <1>1

(* There are sums of the parts with no more than n addresses, for every n. *)
UpTo(n, S) == {part \in SUBSET S : Cardinality(part) <= n}
SumsUpTo(w, S, n, sums) ==
    sums = [part \in UpTo(n, S) |-> SumStep(w, part, sums)]

LEMMA SumsExist ==
    ASSUME NEW w, NEW S, IsFiniteSet(S)
    PROVE  Sums(w, S) = [part \in SUBSET S |-> SumStep(w, part, Sums(w, S))]
<1> DEFINE N == {n \in Nat : \E sums : SumsUpTo(w, S, n, sums)}
<1>1. 0 \in N
  <2> DEFINE sums == [part \in UpTo(0, S) |-> 0]
  <2>1. ASSUME NEW part \in UpTo(0, S) PROVE part = {}
    <3>1. part \in SUBSET S /\ Cardinality(part) <= 0
      BY DEF UpTo
    <3>2. QED
      BY <3>1, NoneIsEmpty
  <2>2. [part \in UpTo(0, S) |-> SumStep(w, part, sums)] = sums
    BY <2>1 DEF SumStep
  <2>3. QED
    BY <2>2 DEF SumsUpTo
<1>2. ASSUME NEW n \in Nat, n \in N PROVE n + 1 \in N
  <2>1. PICK sums : SumsUpTo(w, S, n, sums)
    BY <1>2
  <2> DEFINE more == [part \in UpTo(n + 1, S) |-> SumStep(w, part, sums)]
  <2>2. ASSUME NEW part \in UpTo(n + 1, S)
        PROVE  SumStep(w, part, more) = SumStep(w, part, sums)
    <3>1. CASE part = {}
      BY <3>1 DEF SumStep
    <3>2. CASE part # {}
      <4> DEFINE rest == part \ {First(part)}
      <4>1. rest \in UpTo(n, S) /\ rest \in UpTo(n + 1, S)
        BY <3>2, WithoutFirst DEF UpTo
      <4> HIDE DEF rest
      <4>2. more[rest] = SumStep(w, rest, sums)
        BY <4>1
      <4>3. sums[rest] = SumStep(w, rest, sums)
        BY <2>1, <4>1 DEF SumsUpTo
      <4> HIDE DEF more
      <4>4. QED
        BY <3>2, <4>2, <4>3 DEF SumStep, rest
    <3>3. QED
      BY <3>1, <3>2
  <2>3. SumsUpTo(w, S, n + 1, more)
    BY <2>2 DEF SumsUpTo
  <2> HIDE DEF more
  <2>4. QED
    BY <2>3
<1> HIDE DEF N
<1>3. Cardinality(S) \in N
  <2>1. \A n \in Nat : n \in N
    BY <1>1, <1>2, InductionOver
  <2>2. QED
    BY <2>1, FS_CardinalityType
<1>4. UpTo(Cardinality(S), S) = SUBSET S
  BY FS_Subset DEF UpTo
<1>5. \E sums : sums = [part \in SUBSET S |-> SumStep(w, part, sums)]
  BY <1>3, <1>4 DEF N, SumsUpTo
<1>6. QED
  BY <1>5 DEF Sums

LEMMA SumsStep ==
    ASSUME NEW w, NEW S, IsFiniteSet(S), NEW part \in SUBSET S
    PROVE  Sums(w, S)[part] = SumStep(w, part, Sums(w, S))
<1> DEFINE sums == Sums(w, S)
<1>1. sums = [p \in SUBSET S |-> SumStep(w, p, sums)]
  BY SumsExist
<1> HIDE DEF sums
<1>2. sums[part] = SumStep(w, part, sums)
  BY <1>1, Zenon
<1>3. QED
  BY <1>2 DEF sums

(* The sum of integers is one. *)
LEMMA SumIsInteger ==
    ASSUME NEW w, NEW S, IsFiniteSet(S), \A a \in S : w[a] \in Int
    PROVE  SumFunctionOnSet(w, S) \in Int
<1> DEFINE sums == Sums(w, S)
           N == {n \in Nat : \A part \in UpTo(n, S) : sums[part] \in Int}
<1>1. ASSUME NEW part \in SUBSET S PROVE sums[part] = SumStep(w, part, sums)
  BY SumsStep
<1> HIDE DEF sums
<1>2. 0 \in N
  <2> SUFFICES ASSUME NEW part \in UpTo(0, S) PROVE sums[part] \in Int
    OBVIOUS
  <2>1. part \in SUBSET S /\ Cardinality(part) <= 0
    BY DEF UpTo
  <2>2. part = {}
    BY <2>1, NoneIsEmpty
  <2>3. QED
    BY <1>1, <2>1, <2>2, SumOfNone
<1>3. ASSUME NEW n \in Nat, n \in N PROVE n + 1 \in N
  <2> SUFFICES ASSUME NEW part \in UpTo(n + 1, S) PROVE sums[part] \in Int
    OBVIOUS
  <2>1. part \in SUBSET S /\ Cardinality(part) <= n + 1
    BY DEF UpTo
  <2>2. CASE part = {}
    BY <1>1, <2>1, <2>2, SumOfNone
  <2>3. CASE part # {}
    <3>1. First(part) \in S /\ part \ {First(part)} \in UpTo(n, S)
      BY <2>1, <2>3, WithoutFirst DEF UpTo
    <3>2. sums[part \ {First(part)}] \in Int
      BY <1>3, <3>1
    <3>3. sums[part] = w[First(part)] + sums[part \ {First(part)}]
      BY <1>1, <2>1, <2>3 DEF SumStep
    <3>4. QED
      BY <3>1, <3>2, <3>3
  <2>4. QED
    BY <2>2, <2>3
<1>4. Cardinality(S) \in N
  <2> HIDE DEF N
  <2>1. \A n \in Nat : n \in N
    BY <1>2, <1>3, InductionOver
  <2>2. QED
    BY <2>1, FS_CardinalityType
<1>5. S \in UpTo(Cardinality(S), S)
  BY FS_CardinalityType DEF UpTo
<1>6. sums[S] \in Int
  BY <1>4, <1>5
<1>7. QED
  BY <1>6, SumsAre DEF sums

(* A word that changes changes the sum by as much. *)
LEMMA SumOfChanged ==
    ASSUME NEW w, NEW v, NEW S, IsFiniteSet(S), NEW c \in S,
           \A a \in S : w[a] \in Int /\ v[a] \in Int,
           \A a \in S \ {c} : v[a] = w[a]
    PROVE  SumFunctionOnSet(v, S) = SumFunctionOnSet(w, S) - w[c] + v[c]
<1> DEFINE sums == Sums(w, S)
           other == Sums(v, S)
           Differ(part) == other[part] = IF c \in part THEN sums[part] - w[c] + v[c]
                                                       ELSE sums[part]
           Good(part) == sums[part] \in Int /\ Differ(part)
           N == {n \in Nat : \A part \in UpTo(n, S) : Good(part)}
<1>1. ASSUME NEW part \in SUBSET S
      PROVE  sums[part] = SumStep(w, part, sums) /\ other[part] = SumStep(v, part, other)
  BY SumsStep
<1> HIDE DEF sums, other
<1>2. ASSUME NEW part \in SUBSET S, part = {} PROVE Good(part)
  <2>1. sums[part] = 0 /\ other[part] = 0
    BY <1>1, <1>2, SumOfNone
  <2>2. QED
    BY <1>2, <2>1
<1>3. 0 \in N
  <2> SUFFICES ASSUME NEW part \in UpTo(0, S) PROVE Good(part)
    OBVIOUS
  <2>1. part \in SUBSET S /\ Cardinality(part) <= 0
    BY DEF UpTo
  <2>2. part = {}
    BY <2>1, NoneIsEmpty
  <2> HIDE DEF Good
  <2>3. QED
    BY <1>2, <2>1, <2>2
<1>4. ASSUME NEW n \in Nat, n \in N PROVE n + 1 \in N
  <2> SUFFICES ASSUME NEW part \in UpTo(n + 1, S) PROVE Good(part)
    OBVIOUS
  <2>1. part \in SUBSET S /\ Cardinality(part) <= n + 1
    BY DEF UpTo
  <2>2. CASE part = {}
    <3> HIDE DEF Good
    <3>1. QED
      BY <1>2, <2>1, <2>2
  <2>3. CASE part # {}
    <3> DEFINE f == First(part)
               rest == part \ {f}
    <3>1. f \in S /\ f \in part /\ rest \in UpTo(n, S)
      BY <2>1, <2>3, WithoutFirst DEF UpTo
    <3>2. Good(rest)
      <4> HIDE DEF Good, rest
      <4>1. QED
        BY <1>4, <3>1
    <3>3. sums[part] = w[f] + sums[rest] /\ other[part] = v[f] + other[rest]
      BY <1>1, <2>1, <2>3 DEF SumStep
    <3>4. c \in part <=> f = c \/ c \in rest
      BY <3>1
    <3>5. f = c => c \notin rest
      OBVIOUS
    <3>6. /\ w[f] \in Int /\ v[f] \in Int /\ w[c] \in Int /\ v[c] \in Int
          /\ f # c => v[f] = w[f]
      BY <3>1
    <3> HIDE DEF f, rest
    <3>7. QED
      BY <3>2, <3>3, <3>4, <3>5, <3>6
  <2>4. QED
    BY <2>2, <2>3
<1>5. Cardinality(S) \in N
  <2> HIDE DEF N
  <2>1. \A n \in Nat : n \in N
    BY <1>3, <1>4, InductionOver
  <2>2. QED
    BY <2>1, FS_CardinalityType
<1>6. S \in UpTo(Cardinality(S), S)
  BY FS_CardinalityType DEF UpTo
<1>7. Differ(S)
  BY <1>5, <1>6
<1>8. QED
  BY <1>7, SumsAre DEF sums, other
-----------------------------------------------------------------------------
(* The checksum. *)
LEMMA DividedWhole ==
    ASSUME NEW n \in Nat \ {0}, NEW k \in Int
    PROVE  /\ k % n \in 0 .. (n - 1)
           /\ k \div n \in Int
           /\ k = (n * (k \div n)) + (k % n)
OBVIOUS

LEMMA MultiplesWhole ==
    ASSUME NEW n \in Nat, NEW p \in Int, NEW q \in Int, p < q
    PROVE  (n * p) + n <= n * q
OBVIOUS

LEMMA RemainderIs ==
    ASSUME NEW n \in Nat \ {0}, NEW k \in Int, NEW p \in Int, NEW r \in 0 .. (n - 1),
           k = (n * p) + r
    PROVE  k % n = r
<1> DEFINE q == k \div n
           s == k % n
<1>1. s \in 0 .. (n - 1) /\ q \in Int /\ k = (n * q) + s
  BY DividedWhole
<1> HIDE DEF q, s
<1>2. n * q \in Int /\ n * p \in Int
  BY <1>1
<1>3. (p < q => (n * p) + n <= n * q) /\ (q < p => (n * q) + n <= n * p)
  BY <1>1, MultiplesWhole
<1>4. p = q
  BY <1>1, <1>2, <1>3
<1>5. s = r
  BY <1>1, <1>2, <1>4
<1>6. QED
  BY <1>5 DEF s

(* What the driver computes completes the sum. *)
LEMMA RemaindersAddUp ==
    ASSUME NEW n \in Nat \ {0}, NEW total \in Int, NEW old \in Int, NEW want \in 0 .. (n - 1)
    PROVE  (total - old + ((want - ((total % n) - old)) % n)) % n = want
<1> DEFINE r == total % n
           q == total \div n
           x == want - (r - old)
           s == x % n
           p == x \div n
<1>1. r \in 0 .. (n - 1) /\ q \in Int /\ total = (n * q) + r
  BY DividedWhole
<1>2. x \in Int
  BY <1>1
<1>3. s \in 0 .. (n - 1) /\ p \in Int /\ x = (n * p) + s
  BY <1>2, DividedWhole
<1>4. x = want - (r - old)
  OBVIOUS
<1> HIDE DEF r, q, x, s, p
<1>5. n * q \in Int /\ n * p \in Int /\ n * (q - p) = (n * q) - (n * p) /\ q - p \in Int
  BY <1>1, <1>3
<1>6. total - old + s = (n * (q - p)) + want /\ total - old + s \in Int
  BY <1>1, <1>2, <1>3, <1>4, <1>5
<1>7. (total - old + s) % n = want
  BY <1>5, <1>6, RemainderIs
<1>8. QED
  BY <1>7 DEF s, x, r

LEMMA Summed ==
    /\ IsFiniteSet(0 .. NVM_CHECKSUM_REG) /\ 0 .. NVM_CHECKSUM_REG \subseteq Addresses
    /\ NVM_CHECKSUM_REG \in 0 .. NVM_CHECKSUM_REG /\ NVM_CHECKSUM_REG \in Addresses
    /\ Base \in Nat \ {0} /\ NVM_SUM \in Words /\ Words \subseteq Int
<1>1. /\ NVM_CHECKSUM_REG \in Int /\ 0 \in Int /\ WordSize \in Nat
      /\ NVM_CHECKSUM_REG \in 0 .. (WordSize - 1) /\ Base \in Nat \ {0} /\ NVM_SUM \in 0 .. (Base - 1)
  BY NvmAssumption
<1>2. IsFiniteSet(0 .. NVM_CHECKSUM_REG)
  BY <1>1, FS_Interval
<1>3. QED
  BY <1>1, <1>2 DEF Addresses, Words

LEMMA ChecksumIsWord ==
    ASSUME words \in [Addresses -> Words]
    PROVE  Checksum \in Words /\ SumFunctionOnSet(words, 0 .. NVM_CHECKSUM_REG) \in Int
<1> DEFINE total == SumFunctionOnSet(words, 0 .. NVM_CHECKSUM_REG)
<1>1. \A a \in 0 .. NVM_CHECKSUM_REG : words[a] \in Int
  BY Summed
<1>2. total \in Int
  BY <1>1, Summed, SumIsInteger
<1>3. Checksum = (NVM_SUM - ((total % Base) - words[NVM_CHECKSUM_REG])) % Base
  BY DEF Checksum, SumOf
<1> HIDE DEF total
<1>4. total % Base \in Int
  BY <1>2, Summed, DividedWhole
<1>5. NVM_SUM - ((total % Base) - words[NVM_CHECKSUM_REG]) \in Int
  BY <1>1, <1>4, Summed
<1>6. Checksum \in 0 .. (Base - 1)
  BY <1>3, <1>5, Summed, DividedWhole
<1>7. QED
  BY <1>2, <1>6 DEF Words, total

LEMMA ChecksumCompletes ==
    ASSUME words \in [Addresses -> Words]
    PROVE  SumOf([words EXCEPT ![NVM_CHECKSUM_REG] = Checksum]) = NVM_SUM
<1> DEFINE S == 0 .. NVM_CHECKSUM_REG
           c == NVM_CHECKSUM_REG
           total == SumFunctionOnSet(words, S)
           new == [words EXCEPT ![c] = Checksum]
<1>1. total \in Int /\ Checksum \in Words
  BY ChecksumIsWord
<1>2. /\ \A a \in S : words[a] \in Int /\ new[a] \in Int
      /\ \A a \in S \ {c} : new[a] = words[a]
      /\ new[c] = Checksum /\ words[c] \in Int
  BY <1>1, Summed
<1>3. Checksum = (NVM_SUM - ((total % Base) - words[c])) % Base
  BY DEF Checksum, SumOf
<1> HIDE DEF new, total
<1>4. SumFunctionOnSet(new, S) = SumFunctionOnSet(words, S) - words[c] + new[c]
  <2>1. IsFiniteSet(S) /\ c \in S
    BY Summed
  <2> HIDE DEF S, c
  <2>2. QED
    BY <1>2, <2>1, SumOfChanged
<1>5. SumOf(new) = (total - words[c] + Checksum) % Base
  BY <1>2, <1>4 DEF SumOf, total
<1>6. (total - words[c] + ((NVM_SUM - ((total % Base) - words[c])) % Base)) % Base = NVM_SUM
  <2>1. Base \in Nat \ {0} /\ NVM_SUM \in 0 .. (Base - 1) /\ words[c] \in Int
    BY <1>2, Summed DEF Words
  <2> HIDE DEF c
  <2>2. QED
    BY <1>1, <2>1, RemaindersAddUp
<1>7. QED
  BY <1>3, <1>5, <1>6 DEF new
-----------------------------------------------------------------------------
(* What the memory, the flash and the buffer of a call hold: words, as     *)
(* many as a write is to write, of an EEPROM in range; and what is about   *)
(* to be committed adds up.                                                *)
MemoryHolds ==
    /\ words \in [Addresses -> Words] /\ flash \in [Addresses -> Words]
    /\ job.data \in Seq(Words) /\ calls \in 0 .. MaxCalls
    /\ job.call = "write" => Len(job.data) = job.count
    /\ job.call \in {"read", "write"} /\ ~IsFlash => InRange(job.offset, job.count)
    /\ job.call = "commit" => IsFlash /\ (~job.lost => SumOf(words) = NVM_SUM)

LEMMA GreatestNumber ==
    ASSUME NEW n \in Nat, NEW S, S \subseteq 0 .. n, S # {}
    PROVE  \E k \in S : \A l \in S : l <= k
<1> DEFINE T == {n - k : k \in S}
<1>1. T \subseteq Nat /\ T # {}
  <2>1. ASSUME NEW k \in S PROVE n - k \in Nat /\ n - k \in T
    <3>1. k \in 0 .. n
      OBVIOUS
    <3>2. QED
      BY <3>1
  <2>2. QED
    BY <2>1
<1>2. PICK m \in T : \A l \in T : ~(l < m)
  BY <1>1, LeastNumber
<1>3. PICK k \in S : m = n - k
  OBVIOUS
<1>4. \A l \in S : n - l \in T
  OBVIOUS
<1>5. \A l \in S : l <= k
  BY <1>2, <1>3, <1>4
<1>6. QED
  BY <1>5

LEMMA ReturnKeeps ==
    ASSUME NvmTypes, NEW status, Returns(status)
    PROVE  job'.call = "returned" /\ job'.data = job.data /\ job'.status = status
<1>1. job' = [call |-> "returned", offset |-> job.offset, count |-> job.count, i |-> job.i,
              data |-> job.data, status |-> status, lost |-> job.lost, before |-> job.before]
  BY DEF NvmTypes, Returns
<1>2. QED
  BY <1>1

LEMMA MemoryReturns ==
    ASSUME NvmTypes, MemoryHolds, NEW status, Returns(status),
           words' \in [Addresses -> Words], flash' \in [Addresses -> Words], calls' = calls
    PROVE  MemoryHolds'
<1>1. job'.call = "returned" /\ job'.data = job.data
  BY ReturnKeeps
<1>2. QED
  BY <1>1 DEF MemoryHolds

(* A call goes on, in the words it has read or is to write. *)
LEMMA MemoryProceeds ==
    ASSUME NvmTypes, MemoryHolds, NEW i, NEW lost, NEW data \in Seq(Words),
           job' = [job EXCEPT !.i = i, !.data = data, !.lost = lost],
           job.call \in {"read", "write"}, job.call = "write" => data = job.data,
           words' \in [Addresses -> Words], UNCHANGED <<flash, calls, type>>
    PROVE  MemoryHolds'
<1>1. job' = [call |-> job.call, offset |-> job.offset, count |-> job.count, i |-> i,
              data |-> data, status |-> job.status, lost |-> lost, before |-> job.before]
  BY DEF NvmTypes
<1>2. /\ job'.call = job.call /\ job'.data = data /\ job'.count = job.count
      /\ job'.offset = job.offset
  BY <1>1
<1>3. QED
  BY <1>2 DEF MemoryHolds, IsFlash, InRange

LEMMA MemoryIsCalled ==
    ASSUME NvmTypes, MemoryHolds,
           \/ e1000_read_nvm \/ e1000_write_nvm
           \/ e1000_validate_nvm_checksum \/ e1000_update_nvm_checksum
    PROVE  MemoryHolds'
<1>1. ASSUME NEW what \in Working, NEW o, NEW c, NEW data \in Seq(Words), Call(what, o, c, data),
             what \in {"read", "write"} => CanStart(o, c), what = "write" => Len(data) = c
      PROVE  MemoryHolds'
  <2>1. /\ job' = [call |-> what, offset |-> o, count |-> c, i |-> 0, data |-> data,
                   status |-> "SUCCESS", lost |-> FALSE, before |-> words]
        /\ UNCHANGED <<type, words, flash>>
        /\ calls' = calls + 1 /\ calls < MaxCalls
    BY <1>1 DEF Call, Idle
  <2>2. job'.call = what /\ job'.data = data /\ job'.count = c /\ job'.offset = o
    BY <2>1
  <2>3. calls' \in 0 .. MaxCalls
    BY <2>1, NvmAssumption DEF MemoryHolds
  <2>4. QED
    BY <1>1, <2>1, <2>2, <2>3 DEF MemoryHolds, CanStart, IsFlash, InRange, Working
<1>2. <<>> \in Seq(Words)
  OBVIOUS
<1>3. CASE e1000_write_nvm
  <2>1. PICK o \in 0 .. WordSize, c \in 0 .. WordSize :
          CanStart(o, c) /\ Call("write", o, c, [k \in 1 .. c |-> (k + 1) % Base])
    BY <1>3 DEF e1000_write_nvm
  <2> DEFINE data == [k \in 1 .. c |-> (k + 1) % Base]
  <2>2. c \in Nat /\ Base \in Nat \ {0}
    BY NvmAssumption
  <2>3. \A k \in 1 .. c : (k + 1) % Base \in Words
    BY <2>2, DividedWhole DEF Words
  <2>4. data \in [1 .. c -> Words]
    BY <2>3
  <2> HIDE DEF data
  <2>5. data \in Seq(Words) /\ Len(data) = c
    <3>1. data \in Seq(Words)
      BY <2>2, <2>4
    <3>2. DOMAIN data = 1 .. c
      BY <2>4
    <3>3. QED
      BY <2>2, <3>1, <3>2, LenProperties
  <2>6. Call("write", o, c, data)
    BY <2>1 DEF data
  <2>7. QED
    BY <1>1, <2>1, <2>5, <2>6 DEF Working
<1>4. CASE e1000_read_nvm
  BY <1>1, <1>2, <1>4 DEF e1000_read_nvm, Working
<1>5. CASE e1000_validate_nvm_checksum \/ e1000_update_nvm_checksum
  BY <1>1, <1>2, <1>5 DEF e1000_validate_nvm_checksum, e1000_update_nvm_checksum, Working
<1>6. QED
  BY <1>3, <1>4, <1>5

(* What an error, a validation or the end of a transfer leaves.            *)
LEMMA MemoryUntouched ==
    ASSUME NvmTypes, MemoryHolds,
           \/ e1000_acquire_nvm_generic \/ AllDone \/ e1000_ready_nvm_eeprom
           \/ e1000_validate_nvm_checksum_i210 \/ e1000_validate_nvm_checksum_generic
    PROVE  MemoryHolds'
<1>1. UNCHANGED <<type, words, flash, calls>>
  BY DEF e1000_acquire_nvm_generic, AllDone, e1000_ready_nvm_eeprom,
         e1000_validate_nvm_checksum_i210, e1000_validate_nvm_checksum_generic
<1>2. UNCHANGED job \/ \E status : Returns(status)
  BY DEF e1000_acquire_nvm_generic, AllDone, e1000_ready_nvm_eeprom,
         e1000_validate_nvm_checksum_i210, e1000_validate_nvm_checksum_generic
<1>3. CASE UNCHANGED job
  BY <1>1, <1>3 DEF MemoryHolds, IsFlash, InRange, SumOf
<1>4. ASSUME NEW status, Returns(status) PROVE MemoryHolds'
  <2>1. words' \in [Addresses -> Words] /\ flash' \in [Addresses -> Words] /\ calls' = calls
    BY <1>1 DEF MemoryHolds
  <2>2. QED
    BY <1>4, <2>1, MemoryReturns
<1>5. QED
  BY <1>2, <1>3, <1>4

(* The checksum is stored, and committed. *)
LEMMA MemoryUpdated ==
    ASSUME NvmTypes, MemoryHolds,
           \/ e1000_update_nvm_checksum_i210 \/ e1000_update_nvm_checksum_generic
           \/ e1000_update_flash_i210
    PROVE  MemoryHolds'
<1> DEFINE new == [words EXCEPT ![NVM_CHECKSUM_REG] = Checksum]
<1>1. /\ words \in [Addresses -> Words] /\ flash \in [Addresses -> Words]
      /\ new \in [Addresses -> Words] /\ SumOf(new) = NVM_SUM
  BY ChecksumIsWord, ChecksumCompletes, Summed DEF MemoryHolds
<1> HIDE DEF new
<1>2. ASSUME NEW status, Returns(status), calls' = calls,
             words' \in {words, new}, flash' \in {flash, words}
      PROVE  MemoryHolds'
  BY <1>1, <1>2, MemoryReturns
<1>3. CASE e1000_update_flash_i210
  BY <1>2, <1>3 DEF e1000_update_flash_i210
<1>4. CASE e1000_update_nvm_checksum_generic
  BY <1>2, <1>4 DEF e1000_update_nvm_checksum_generic, new
<1>5. CASE e1000_update_nvm_checksum_i210
  <2>1. CASE Returns("NVM") /\ UNCHANGED words
    BY <1>2, <1>5, <2>1 DEF e1000_update_nvm_checksum_i210
  <2>2. ASSUME NEW lost \in BOOLEAN, words' = IF lost THEN words ELSE new,
               job' = [job EXCEPT !.call = "commit", !.lost = lost]
        PROVE  MemoryHolds'
    <3>1. job' = [call |-> "commit", offset |-> job.offset, count |-> job.count, i |-> job.i,
                  data |-> job.data, status |-> job.status, lost |-> lost,
                  before |-> job.before]
      BY <2>2 DEF NvmTypes
    <3>2. job'.call = "commit" /\ job'.data = job.data /\ job'.lost = lost
      BY <3>1
    <3>3. UNCHANGED <<type, flash, calls>> /\ IsFlash
      BY <1>5 DEF e1000_update_nvm_checksum_i210
    <3>4. ~lost => SumOf(words)' = NVM_SUM
      BY <1>1, <2>2 DEF SumOf
    <3>5. words' \in [Addresses -> Words]
      BY <1>1, <2>2
    <3>6. QED
      BY <3>2, <3>3, <3>4, <3>5 DEF MemoryHolds, IsFlash
  <2>3. QED
    BY <1>5, <2>1, <2>2 DEF e1000_update_nvm_checksum_i210, new
<1>6. QED
  BY <1>3, <1>4, <1>5

(* The places from which a chunk's words are read and written are there.   *)
LEMMA ChunkWithin ==
    ASSUME NvmTypes, HasMore
    PROVE  /\ ChunkCount \in Nat /\ job.i + ChunkCount <= job.count
           /\ job.i \in Nat /\ job.count \in Nat /\ job.offset \in Nat
<1>1. job.i \in Nat /\ job.count \in Nat /\ job.offset \in Nat /\ job.count - job.i \in Nat
  BY DEF NvmTypes, HasMore
<1> DEFINE n == job.count - job.i
           q == n \div MaxCount
<1>2. n % MaxCount \in 0 .. (MaxCount - 1) /\ q \in Nat /\ n = (MaxCount * q) + (n % MaxCount)
  BY <1>1, NvmNumbers, Divided
<1>3. ChunkCount = IF q > 0 THEN MaxCount ELSE n
  BY DEF ChunkCount
<1> HIDE DEF n, q
<1>4. 0 < q => (MaxCount * 0) + MaxCount <= MaxCount * q
  BY <1>2, NvmNumbers, Multiples
<1>5. n \in Nat
  BY <1>1 DEF n
<1>6. ChunkCount \in Nat /\ ChunkCount <= n
  BY <1>2, <1>3, <1>4, <1>5, NvmNumbers
<1>7. QED
  BY <1>1, <1>6 DEF n

LEMMA MemoryReadsChunk ==
    ASSUME NvmTypes, HeldForTransfer, MemoryHolds, e1000_read_nvm_srrd_i210
    PROVE  MemoryHolds'
<1>1. /\ job.call = "read" /\ UNCHANGED <<type, words, flash, calls>>
      /\ \/ /\ InRange(ChunkStart, ChunkCount)
            /\ job' = [job EXCEPT !.i = @ + MaxCount, !.data = Eerd(ChunkCount)]
         \/ Returns("NVM")
  BY DEF e1000_read_nvm_srrd_i210
<1>2. HasMore
  BY DEF HeldForTransfer, e1000_read_nvm_srrd_i210
<1>3. words' \in [Addresses -> Words] /\ flash' \in [Addresses -> Words]
  BY <1>1 DEF MemoryHolds
<1>4. CASE Returns("NVM")
  BY <1>1, <1>3, <1>4, MemoryReturns
<1>5. CASE /\ InRange(ChunkStart, ChunkCount)
           /\ job' = [job EXCEPT !.i = @ + MaxCount, !.data = Eerd(ChunkCount)]
  <2> DEFINE f == [k \in 1 .. ChunkCount |-> words[ChunkStart + k - 1]]
  <2>1. ChunkCount \in Nat /\ job.offset \in Nat /\ job.offset + ChunkCount <= WordSize
    BY <1>2, <1>5, ChunkWithin, NvmNumbers DEF InRange, ChunkStart
  <2>2. \A k \in 1 .. ChunkCount : ChunkStart + k - 1 \in Addresses
    BY <2>1, NvmNumbers DEF ChunkStart, Addresses
  <2>3. f \in [1 .. ChunkCount -> Words]
    BY <2>2 DEF MemoryHolds
  <2>4. Eerd(ChunkCount) = job.data \o f
    BY DEF Eerd
  <2> HIDE DEF f
  <2>5. f \in Seq(Words)
    BY <2>1, <2>3
  <2>6. Eerd(ChunkCount) \in Seq(Words)
    BY <2>4, <2>5 DEF MemoryHolds
  <2> DEFINE data == Eerd(ChunkCount)
             i == job.i + MaxCount
  <2> HIDE DEF data, i
  <2>7. job' = [job EXCEPT !.i = i, !.data = data, !.lost = job.lost]
    BY <1>5 DEF i, data, NvmTypes
  <2>8. data \in Seq(Words)
    BY <2>6 DEF data
  <2>9. QED
    BY <1>1, <1>3, <2>7, <2>8, MemoryProceeds
<1>6. QED
  BY <1>1, <1>4, <1>5

(* The words a write takes from its buffer. *)
LEMMA BufferHas ==
    ASSUME NvmTypes, MemoryHolds, job.call = "write", NEW k \in 1 .. job.count
    PROVE  job.data[k] \in Words
<1>1. k \in 1 .. Len(job.data) /\ job.data \in Seq(Words)
  BY DEF MemoryHolds
<1>2. QED
  BY <1>1, ElementOfSeq

(* A write goes on, or returns, with what it has written. *)
LEMMA MemoryWrites ==
    ASSUME NvmTypes, MemoryHolds, job.call = "write", NEW i, NEW lost,
           \/ job' = [job EXCEPT !.i = i, !.lost = lost]
           \/ Returns("NVM"),
           words' \in [Addresses -> Words], UNCHANGED <<flash, calls, type>>
    PROVE  MemoryHolds'
<1>1. job.data \in Seq(Words) /\ flash' \in [Addresses -> Words]
  BY DEF MemoryHolds
<1>2. CASE job' = [job EXCEPT !.i = i, !.lost = lost]
  <2>1. job' = [job EXCEPT !.i = i, !.data = job.data, !.lost = lost]
    BY <1>2 DEF NvmTypes
  <2>2. QED
    BY <1>1, <2>1, MemoryProceeds
<1>3. CASE Returns("NVM")
  BY <1>1, <1>3, MemoryReturns
<1>4. QED
  BY <1>2, <1>3

LEMMA MemoryWritesChunk ==
    ASSUME NvmTypes, HeldForTransfer, MemoryHolds, e1000_write_nvm_srwr_i210
    PROVE  MemoryHolds'
<1>1. /\ job.call = "write" /\ UNCHANGED <<type, flash, calls>>
      /\ \/ \E done \in SUBSET (0 .. (ChunkCount - 1)) :
              /\ words' = SrwrWrites(done)
              /\ job' = [job EXCEPT !.i = @ + MaxCount,
                                    !.lost = @ \/ done # 0 .. (ChunkCount - 1)]
         \/ Returns("NVM") /\ UNCHANGED words
  BY DEF e1000_write_nvm_srwr_i210
<1>2. HasMore
  BY DEF HeldForTransfer, e1000_write_nvm_srwr_i210
<1>3. CASE Returns("NVM") /\ UNCHANGED words
  <2>1. words' \in [Addresses -> Words]
    BY <1>3 DEF MemoryHolds
  <2>2. QED
    BY <1>1, <1>3, <2>1, MemoryWrites
<1>4. ASSUME NEW done \in SUBSET (0 .. (ChunkCount - 1)), words' = SrwrWrites(done),
             job' = [job EXCEPT !.i = @ + MaxCount,
                                !.lost = @ \/ done # 0 .. (ChunkCount - 1)]
      PROVE  MemoryHolds'
  <2>1. /\ ChunkCount \in Nat /\ job.i + ChunkCount <= job.count
        /\ job.i \in Nat /\ job.count \in Nat /\ job.offset \in Nat
    BY <1>2, ChunkWithin
  <2>2. ASSUME NEW a \in Addresses, a - ChunkStart \in done
        PROVE  job.data[job.i + a - ChunkStart + 1] \in Words
    <3>1. a - ChunkStart \in 0 .. (ChunkCount - 1) /\ a \in Int /\ ChunkStart = job.offset
      <4>1. a - ChunkStart \in 0 .. (ChunkCount - 1) /\ ChunkStart = job.offset
        BY <2>2 DEF ChunkStart
      <4>2. a \in Int
        BY NvmNumbers DEF Addresses
      <4>3. QED
        BY <4>1, <4>2
    <3>2. job.i + a - ChunkStart + 1 \in 1 .. job.count
      BY <2>1, <3>1
    <3>3. QED
      BY <1>1, <3>2, BufferHas
  <2>3. words' \in [Addresses -> Words]
    BY <1>4, <2>2 DEF SrwrWrites, MemoryHolds
  <2> DEFINE i == job.i + MaxCount
             lost == job.lost \/ done # 0 .. (ChunkCount - 1)
  <2>4. job' = [job EXCEPT !.i = i, !.lost = lost]
    BY <1>4
  <2> HIDE DEF i, lost
  <2>5. QED
    BY <1>1, <2>3, <2>4, MemoryWrites
<1>5. QED
  BY <1>1, <1>3, <1>4

LEMMA MemoryReadsSpi ==
    ASSUME NvmTypes, HeldForTransfer, MemoryHolds, e1000_read_nvm_spi
    PROVE  MemoryHolds'
<1> DEFINE start == IF type = "microwire" THEN job.offset ELSE SpiAddress(0)
           data == [k \in 1 .. job.count |-> words[start + k - 1]]
<1>1. /\ ~IsFlash /\ job.call = "read" /\ UNCHANGED <<type, words, flash, calls>>
      /\ job' = [job EXCEPT !.i = job.count, !.data = data]
  BY DEF e1000_read_nvm_spi
<1>2. job.offset \in Nat /\ job.count \in Nat /\ job.offset + job.count <= WordSize
  BY <1>1, NvmNumbers DEF MemoryHolds, InRange, NvmTypes
<1>3. start \in Nat /\ start <= job.offset
  <2> DEFINE r == job.offset % HalfSize
             q == job.offset \div HalfSize
  <2>1. r \in 0 .. (HalfSize - 1) /\ q \in Nat /\ job.offset = (HalfSize * q) + r
    BY <1>2, NvmNumbers, Divided
  <2>2. job.offset + 0 = job.offset
    BY <1>2
  <2>3. SpiAddress(0) = IF type = "spi8" THEN (IF job.offset >= HalfSize THEN HalfSize ELSE 0) + r
                        ELSE job.offset
    BY <2>2 DEF SpiAddress
  <2> HIDE DEF r, q
  <2>4. HalfSize * q \in Nat /\ (0 < q => (HalfSize * 0) + HalfSize <= HalfSize * q)
        /\ HalfSize * 0 = 0
    BY <2>1, NvmNumbers, Multiples
  <2>5. q = 0 => HalfSize * q = 0
    BY NvmNumbers
  <2>6. job.offset >= HalfSize => HalfSize + r <= job.offset
    BY <1>2, <2>1, <2>4, <2>5, NvmNumbers
  <2>7. r <= job.offset
    BY <1>2, <2>1, <2>4, NvmNumbers
  <2>8. QED
    BY <1>2, <2>1, <2>3, <2>6, <2>7, NvmNumbers
<1> HIDE DEF start
<1>4. \A k \in 1 .. job.count : start + k - 1 \in Addresses
  BY <1>2, <1>3, NvmNumbers DEF Addresses
<1>5. data \in [1 .. job.count -> Words]
  BY <1>4 DEF MemoryHolds
<1> HIDE DEF data
<1>6. data \in Seq(Words)
  BY <1>2, <1>5
<1>7. job' = [job EXCEPT !.i = job.count, !.data = data, !.lost = job.lost]
  BY <1>1 DEF NvmTypes
<1>8. words' \in [Addresses -> Words]
  BY <1>1 DEF MemoryHolds
<1>9. QED
  BY <1>1, <1>6, <1>7, <1>8, MemoryProceeds

LEMMA MemoryWritesPage ==
    ASSUME NvmTypes, HeldForTransfer, MemoryHolds, e1000_write_nvm_spi
    PROVE  MemoryHolds'
<1> DEFINE to == PageEnd(job.i)
           start == SpiAddress(job.i)
           base == (start \div PageSize) * PageSize
           last(a) == {k \in 0 .. (to - job.i - 1) : base + ((start - base + k) % PageSize) = a}
           latest(a) == CHOOSE k \in last(a) : \A l \in last(a) : l <= k
<1>1. /\ job.call = "write" /\ UNCHANGED <<type, flash, calls>>
      /\ words' = Programmed(job.i, to) /\ job' = [job EXCEPT !.i = to]
  BY DEF e1000_write_nvm_spi
<1>2. /\ job.i \in Nat /\ job.count \in Nat /\ job.i < job.count
      /\ job.offset \in Nat
  BY DEF NvmTypes, HeldForTransfer, HasMore, e1000_write_nvm_spi
<1>3. to \in (job.i + 1) .. job.count
  BY <1>2, PageEnds
<1>4. words' = [a \in Addresses |-> IF last(a) = {} THEN words[a]
                                     ELSE job.data[job.i + 1 + latest(a)]]
  BY <1>1 DEF Programmed
<1> HIDE DEF to, start, base
<1>5. ASSUME NEW a \in Addresses, last(a) # {} PROVE job.data[job.i + 1 + latest(a)] \in Words
  <2> DEFINE S == last(a)
             n == to - job.i - 1
  <2>1. S \subseteq 0 .. n /\ n \in Nat /\ S # {}
    BY <1>2, <1>3, <1>5
  <2> HIDE DEF S, n
  <2>2. \E k \in S : \A l \in S : l <= k
    BY <2>1, GreatestNumber
  <2> DEFINE m == CHOOSE k \in S : \A l \in S : l <= k
  <2>3. m \in S
    BY <2>2
  <2> HIDE DEF m
  <2>4. m \in 0 .. (to - job.i - 1)
    BY <2>1, <2>3 DEF n
  <2>5. job.i + 1 + m \in 1 .. job.count
    BY <1>2, <1>3, <2>4
  <2>6. job.data[job.i + 1 + m] \in Words
    BY <1>1, <2>5, BufferHas
  <2>7. QED
    BY <2>6 DEF m, S
<1>6. words' \in [Addresses -> Words]
  <2> HIDE DEF last, latest
  <2>1. QED
    BY <1>4, <1>5 DEF MemoryHolds
<1>7. job' = [job EXCEPT !.i = to, !.lost = job.lost]
  BY <1>1 DEF NvmTypes
<1>8. QED
  BY <1>1, <1>6, <1>7, MemoryWrites

LEMMA MemoryWritesMicrowire ==
    ASSUME NvmTypes, MemoryHolds, e1000_write_nvm_microwire
    PROVE  MemoryHolds'
<1>1. PICK done \in 0 .. job.count :
        /\ words' = [a \in Addresses |-> IF a - job.offset \in 0 .. (done - 1)
                                           THEN job.data[a - job.offset + 1] ELSE words[a]]
        /\ IF done = job.count THEN job' = [job EXCEPT !.i = job.count] ELSE Returns("NVM")
  BY DEF e1000_write_nvm_microwire
<1>2. job.call = "write" /\ UNCHANGED <<type, flash, calls>>
  BY DEF e1000_write_nvm_microwire
<1>3. job.count \in Nat /\ job.offset \in Nat
  BY DEF NvmTypes
<1>4. ASSUME NEW a \in Addresses, a - job.offset \in 0 .. (done - 1)
      PROVE  job.data[a - job.offset + 1] \in Words
  <2>1. a - job.offset + 1 \in 1 .. job.count
    BY <1>3, <1>4 DEF Addresses
  <2>2. QED
    BY <1>2, <2>1, BufferHas
<1>5. words' \in [Addresses -> Words]
  BY <1>1, <1>4 DEF MemoryHolds
<1>6. job' = [job EXCEPT !.i = job.count, !.lost = job.lost] \/ Returns("NVM")
  BY <1>1 DEF NvmTypes
<1>7. QED
  BY <1>2, <1>5, <1>6, MemoryWrites

LEMMA MemoryStarts == Init => MemoryHolds
<1> SUFFICES ASSUME Init PROVE MemoryHolds
  OBVIOUS
<1>1. /\ words = [a \in Addresses |-> a % Base] /\ flash = words
      /\ job.call = "none" /\ job.data = <<>> /\ calls = 0
  BY DEF Init, Idle
<1>2. \A a \in Addresses : a % Base \in Words
  <2>1. \A a \in Addresses : a \in Nat
    BY DEF Addresses
  <2>2. QED
    BY <2>1, Summed, Divided DEF Words
<1>3. words \in [Addresses -> Words]
  BY <1>1, <1>2
<1>4. QED
  BY <1>1, <1>3, NvmAssumption DEF MemoryHolds

LEMMA MemoryAlwaysHolds == ServicesSpec => []MemoryHolds
<1>1. ServicesInit => MemoryHolds
  BY MemoryStarts DEF ServicesInit
<1>2. NvmInvariant /\ MemoryHolds /\ [ServicesNext]_serviceVars => MemoryHolds'
  <2> SUFFICES ASSUME NvmInvariant, MemoryHolds, [ServicesNext]_serviceVars PROVE MemoryHolds'
    OBVIOUS
  <2>1. NvmTypes /\ HeldForTransfer
    BY DEF NvmInvariant
  <2>2. CASE Next
    BY <2>1, <2>2, MemoryIsCalled, MemoryUntouched, MemoryUpdated, MemoryReadsChunk,
       MemoryWritesChunk, MemoryReadsSpi, MemoryWritesPage, MemoryWritesMicrowire DEF Next
  <2>3. CASE UNCHANGED nvmVars
    BY <2>3 DEF nvmVars, MemoryHolds, IsFlash, InRange, SumOf
  <2>4. QED
    BY <2>2, <2>3 DEF ServicesNext, serviceVars
<1>3. QED
  BY <1>1, <1>2, NvmHolds, PTL DEF ServicesSpec

(* After an update that reports success and of which no write was lost,    *)
(* the flash has what the driver has, and it adds up: whatever the words,  *)
(* how many there are and what they count modulo.                          *)
THEOREM CommitsAddUp == ServicesSpec => CommittedAddsUp
<1>1. NvmInvariant /\ MemoryHolds /\ [ServicesNext]_serviceVars
        => [job.call = "commit" /\ job'.status = "SUCCESS" /\ ~job.lost =>
              flash' = words /\ SumOf(flash') = NVM_SUM]_nvmVars
  <2> SUFFICES ASSUME NvmTypes, HeldForTransfer, MemoryHolds, [ServicesNext]_serviceVars,
                      ~UNCHANGED nvmVars,
                      job.call = "commit", job'.status = "SUCCESS", ~job.lost
               PROVE  flash' = words /\ SumOf(flash') = NVM_SUM
    BY DEF NvmInvariant
  <2>1. Next
    BY DEF ServicesNext, serviceVars
  <2>2. IsFlash /\ ~held /\ SumOf(words) = NVM_SUM
    BY DEF MemoryHolds, HeldForTransfer
  <2>3. e1000_update_flash_i210
    BY <2>1, <2>2 DEF Next, e1000_read_nvm, e1000_write_nvm, e1000_validate_nvm_checksum,
       e1000_update_nvm_checksum, Call, e1000_acquire_nvm_generic, AllDone,
       e1000_read_nvm_srrd_i210, e1000_write_nvm_srwr_i210, e1000_validate_nvm_checksum_i210,
       e1000_update_nvm_checksum_i210, e1000_ready_nvm_eeprom, e1000_read_nvm_spi,
       e1000_write_nvm_spi, e1000_write_nvm_microwire, e1000_validate_nvm_checksum_generic,
       e1000_update_nvm_checksum_generic
  <2>4. Returns("NVM") => job'.status = "NVM"
    BY ReturnKeeps
  <2>5. flash' = words
    BY <2>3, <2>4 DEF e1000_update_flash_i210
  <2>6. QED
    BY <2>2, <2>5
<1>2. QED
  BY <1>1, NvmHolds, MemoryAlwaysHolds, PTL DEF ServicesSpec, CommittedAddsUp
-----------------------------------------------------------------------------
(* The one-time programmable memory. *)

(* What the search does at a record, and the search from there on.         *)
Last == InvmSize + RsaSize + 1
SearchStep(address, i, from) ==
    IF i >= InvmSize \/ invm[i].type = "uninitialized" THEN -1
    ELSE IF invm[i].type = "word" /\ invm[i].address = address THEN i
    ELSE from[i + Contents!RecordSize(invm[i].type)]
SearchFrom(address) ==
    CHOOSE from : from = [i \in 0 .. Last |-> SearchStep(address, i, from)]

InvmTyped == invm \in [0 .. (InvmSize - 1) -> [type : InvmTypes, address : Nat]]

LEMMA SearchIs == ASSUME NEW address PROVE Contents!Search(address) = SearchFrom(address)[0]
BY Zenon DEF Contents!Search, SearchFrom, SearchStep, Last

LEMMA RecordSizes ==
    ASSUME InvmTyped, NEW i \in 0 .. (InvmSize - 1), invm[i].type # "uninitialized"
    PROVE  /\ Contents!RecordSize(invm[i].type) \in Nat \ {0}
           /\ Contents!RecordSize(invm[i].type) = Contents!Extent[invm[i].type]
           /\ i + Contents!RecordSize(invm[i].type) \in 0 .. Last
<1>1. invm[i].type \in {"word", "csr", "rsa", "other"}
  BY DEF InvmTyped, InvmTypes
<1>2. InvmSize \in Nat /\ RsaSize \in Nat
  BY PartsAssumption
<1>3. QED
  BY <1>1, <1>2 DEF Contents!RecordSize, Contents!Extent, Last

(* There is a search from the last n records on, for every n.              *)
Final(n) == {i \in 0 .. Last : i + n >= Last}
SearchesFinal(address, n, from) ==
    from = [i \in Final(n) |-> SearchStep(address, i, from)]

LEMMA LastIs == InvmSize \in Nat /\ RsaSize \in Nat /\ Last \in Nat /\ Last >= InvmSize
BY PartsAssumption DEF Last

(* The record after one of the last n + 1 is one of the last n.            *)
LEMMA NextIsFinal ==
    ASSUME InvmTyped, NEW n \in Nat, NEW i \in Final(n + 1), ~(i >= InvmSize),
           invm[i].type # "uninitialized"
    PROVE  i + Contents!RecordSize(invm[i].type) \in Final(n)
<1>1. i \in 0 .. (InvmSize - 1) /\ i \in Nat /\ i + (n + 1) >= Last
  BY LastIs DEF Final
<1>2. /\ Contents!RecordSize(invm[i].type) \in Nat \ {0}
      /\ i + Contents!RecordSize(invm[i].type) \in 0 .. Last
  BY <1>1, RecordSizes
<1>3. QED
  BY <1>1, <1>2, LastIs DEF Final

LEMMA SearchExists ==
    ASSUME InvmTyped, NEW address
    PROVE  SearchFrom(address) = [i \in 0 .. Last |-> SearchStep(address, i, SearchFrom(address))]
<1> DEFINE N == {n \in Nat : \E from : SearchesFinal(address, n, from)}
<1>1. 0 \in N
  <2> DEFINE from == [i \in Final(0) |-> -1]
  <2>1. ASSUME NEW i \in Final(0) PROVE SearchStep(address, i, from) = -1
    BY LastIs DEF Final, SearchStep
  <2>2. [i \in Final(0) |-> SearchStep(address, i, from)] = from
    BY <2>1
  <2>3. QED
    BY <2>2 DEF SearchesFinal
<1>2. ASSUME NEW n \in Nat, n \in N PROVE n + 1 \in N
  <2>1. PICK from : SearchesFinal(address, n, from)
    BY <1>2
  <2> DEFINE more == [i \in Final(n + 1) |-> SearchStep(address, i, from)]
  <2>2. ASSUME NEW i \in Final(n + 1)
        PROVE  SearchStep(address, i, more) = SearchStep(address, i, from)
    <3> DEFINE k == i + Contents!RecordSize(invm[i].type)
    <3>1. CASE i >= InvmSize \/ invm[i].type = "uninitialized"
      BY <3>1 DEF SearchStep
    <3>2. CASE ~(i >= InvmSize) /\ invm[i].type # "uninitialized"
      <4>1. k \in Final(n)
        BY <3>2, NextIsFinal
      <4> HIDE DEF k
      <4>2. k \in Final(n + 1)
        BY <4>1, LastIs DEF Final
      <4>3. more[k] = SearchStep(address, k, from)
        BY <4>2
      <4>4. from[k] = SearchStep(address, k, from)
        BY <2>1, <4>1 DEF SearchesFinal
      <4> HIDE DEF more
      <4>5. QED
        BY <4>3, <4>4 DEF SearchStep, k
    <3>3. QED
      BY <3>1, <3>2
  <2>3. SearchesFinal(address, n + 1, more)
    BY <2>2 DEF SearchesFinal
  <2> HIDE DEF more
  <2>4. QED
    BY <2>3
<1>3. Last \in N
  <2> HIDE DEF N
  <2>1. \A n \in Nat : n \in N
    BY <1>1, <1>2, InductionOver
  <2>2. QED
    BY <2>1, LastIs
<1>4. Final(Last) = 0 .. Last
  BY LastIs DEF Final
<1>5. \E from : from = [i \in 0 .. Last |-> SearchStep(address, i, from)]
  BY <1>3, <1>4 DEF SearchesFinal
<1>6. QED
  BY <1>5 DEF SearchFrom

LEMMA SearchSteps ==
    ASSUME InvmTyped, NEW address, NEW i \in 0 .. Last
    PROVE  SearchFrom(address)[i] = SearchStep(address, i, SearchFrom(address))
<1> DEFINE from == SearchFrom(address)
<1>1. from = [j \in 0 .. Last |-> SearchStep(address, j, from)]
  BY SearchExists
<1> HIDE DEF from
<1>2. from[i] = SearchStep(address, i, from)
  BY <1>1, Zenon
<1>3. QED
  BY <1>2 DEF from

(* From i on, a record is found by way of records laid end to end.         *)
Chained(i, f, starts) ==
    /\ starts \subseteq {s \in i .. f : invm[s].type # "uninitialized"}
    /\ f \in starts
    /\ \A s \in starts : s = i \/ \E r \in starts : s = r + Contents!Extent[invm[r].type]
Reached(i, f) ==
    \/ f = -1
    \/ f \in i .. (InvmSize - 1) /\ \E starts : Chained(i, f, starts)

LEMMA SearchReaches ==
    ASSUME InvmTyped, NEW address
    PROVE  Reached(0, Contents!Search(address))
<1> DEFINE from == SearchFrom(address)
           N == {n \in Nat : \A i \in Final(n) : Reached(i, from[i])}
<1>1. ASSUME NEW i \in 0 .. Last PROVE from[i] = SearchStep(address, i, from)
  BY SearchSteps
<1> HIDE DEF from
<1>2. 0 \in N
  <2> SUFFICES ASSUME NEW i \in Final(0) PROVE Reached(i, from[i])
    OBVIOUS
  <2>1. i \in 0 .. Last /\ i >= InvmSize
    BY LastIs DEF Final
  <2>2. from[i] = -1
    BY <1>1, <2>1 DEF SearchStep
  <2>3. QED
    BY <2>2 DEF Reached
<1>3. ASSUME NEW n \in Nat, n \in N PROVE n + 1 \in N
  <2> SUFFICES ASSUME NEW i \in Final(n + 1) PROVE Reached(i, from[i])
    OBVIOUS
  <2> DEFINE t == invm[i].type
             k == i + Contents!RecordSize(t)
  <2>1. i \in 0 .. Last /\ i \in Nat /\ from[i] = SearchStep(address, i, from)
    BY <1>1, LastIs DEF Final
  <2>2. CASE i >= InvmSize \/ t = "uninitialized"
    BY <2>1, <2>2 DEF SearchStep, Reached
  <2>3. CASE ~(i >= InvmSize) /\ t # "uninitialized" /\ from[i] = i
    <3>1. Chained(i, i, {i})
      BY <2>1, <2>3 DEF Chained
    <3>2. i \in i .. (InvmSize - 1)
      BY <2>1, <2>3, LastIs
    <3>3. QED
      BY <2>3, <3>1, <3>2 DEF Reached
  <2>4. CASE ~(i >= InvmSize) /\ t # "uninitialized" /\ from[i] # i
    <3>1. from[i] = from[k]
      BY <2>1, <2>4 DEF SearchStep
    <3>2. k \in Final(n)
      BY <2>4, NextIsFinal
    <3>3. Reached(k, from[k])
      BY <1>3, <3>2
    <3>4. CASE from[k] = -1
      BY <3>1, <3>4 DEF Reached
    <3>5. CASE from[k] # -1
      <4>1. PICK starts : Chained(k, from[k], starts)
        BY <3>3, <3>5 DEF Reached
      <4>2. from[k] \in k .. (InvmSize - 1)
        BY <3>3, <3>5 DEF Reached
      <4>3. i \in 0 .. (InvmSize - 1)
        BY <2>1, <2>4, LastIs
      <4>4. /\ k = i + Contents!Extent[t] /\ k \in Nat /\ k > i
        <5>1. Contents!RecordSize(t) \in Nat \ {0} /\ Contents!RecordSize(t) = Contents!Extent[t]
          BY <2>4, <4>3, RecordSizes
        <5>2. QED
          BY <2>1, <5>1
      <4> HIDE DEF k
      <4>5. Chained(i, from[k], {i} \cup starts)
        <5>1. ASSUME NEW s \in {i} \cup starts
              PROVE  s \in i .. from[k] /\ invm[s].type # "uninitialized"
          BY <2>1, <2>4, <4>1, <4>2, <4>4, LastIs DEF Chained
        <5>2. from[k] \in {i} \cup starts
          BY <4>1 DEF Chained
        <5>3. ASSUME NEW s \in {i} \cup starts
              PROVE  s = i \/ \E r \in {i} \cup starts : s = r + Contents!Extent[invm[r].type]
          BY <4>1, <4>4 DEF Chained
        <5>4. QED
          BY <5>1, <5>2, <5>3 DEF Chained
      <4>6. from[i] \in i .. (InvmSize - 1)
        BY <2>1, <3>1, <4>2, <4>4, LastIs
      <4>7. QED
        BY <3>1, <4>5, <4>6 DEF Reached
    <3>6. QED
      BY <3>4, <3>5
  <2>5. QED
    BY <2>2, <2>3, <2>4
<1>4. Last \in N
  <2> HIDE DEF N
  <2>1. \A n \in Nat : n \in N
    BY <1>2, <1>3, InductionOver
  <2>2. QED
    BY <2>1, LastIs
<1>5. 0 \in Final(Last)
  BY LastIs DEF Final
<1>6. Reached(0, from[0])
  BY <1>4, <1>5
<1>7. QED
  BY <1>6, SearchIs DEF from
(* What was found, and the statuses. *)
RecordFound ==
    /\ InvmTyped /\ found \in {-1} \cup DOMAIN invm /\ Contents!FoundIsRecord
    /\ pba.status \in PbaStatus

LEMMA RecordIsFound ==
    ASSUME RecordFound, Contents!e1000_read_invm_word_i210
    PROVE  RecordFound'
<1>1. PICK address : found' = Contents!Search(address)
  BY DEF Contents!e1000_read_invm_word_i210
<1>2. InvmTyped /\ invm' = invm /\ pba' = pba /\ pba.status \in PbaStatus
  BY DEF RecordFound, Contents!e1000_read_invm_word_i210
<1>3. Reached(0, Contents!Search(address))
  BY <1>2, SearchReaches
<1>4. ASSUME Reached(0, found')
      PROVE  (found \in {-1} \cup DOMAIN invm /\ Contents!FoundIsRecord)'
  <2>1. CASE found' = -1
    BY <2>1 DEF Contents!FoundIsRecord
  <2>2. CASE found' # -1
    <3>1. PICK starts : Chained(0, found', starts)
      BY <1>4, <2>2 DEF Reached
    <3>2. found' \in 0 .. (InvmSize - 1)
      BY <1>4, <2>2 DEF Reached
    <3>3. /\ starts \in SUBSET {s \in 0 .. found' : invm'[s].type # "uninitialized"}
          /\ found' \in starts
          /\ \A s \in starts : s = 0 \/ \E r \in starts : s = r + Contents!Extent[invm'[r].type]
      BY <1>2, <3>1 DEF Chained
    <3>4. QED
      BY <1>2, <3>2, <3>3 DEF Contents!FoundIsRecord, InvmTyped, Contents!Extent
  <2>3. QED
    BY <2>1, <2>2
<1>5. QED
  BY <1>1, <1>2, <1>3, <1>4 DEF RecordFound, InvmTyped

LEMMA RecordStays ==
    ASSUME RecordFound, invm' = invm, found' = found, pba'.status \in PbaStatus
    PROVE  RecordFound'
BY DEF RecordFound, InvmTyped, Contents!FoundIsRecord, Contents!Extent

LEMMA PbaHasStatus ==
    ASSUME PbaTypes, pba.status \in PbaStatus,
           \/ Contents!e1000_read_pba_length_generic \/ Contents!e1000_read_pba_string_generic
           \/ Contents!e1000_read_pba_raw \/ Contents!e1000_write_pba_raw
    PROVE  pba'.status \in PbaStatus /\ invm' = invm /\ found' = found
<1>1. CASE Contents!e1000_read_pba_length_generic
  BY <1>1 DEF Contents!e1000_read_pba_length_generic, Contents!Failed, PbaStatus
<1>2. CASE Contents!e1000_read_pba_raw
  BY <1>2 DEF Contents!e1000_read_pba_raw, Contents!Failed, PbaStatus
<1>3. ASSUME NEW status \in PbaStatus, NEW written,
             pba' = [pba EXCEPT !.status = status, !.written = written]
      PROVE  pba'.status \in PbaStatus
  BY <1>3 DEF PbaTypes
<1>4. CASE Contents!e1000_read_pba_string_generic
  <2>1. \E status \in PbaStatus : \E written :
          pba' = [pba EXCEPT !.status = status, !.written = written]
    <3>1. \/ \E status \in PbaStatus : pba' = [pba EXCEPT !.status = status]
          \/ \E status \in PbaStatus : \E written :
               pba' = [pba EXCEPT !.status = status, !.written = written]
      BY <1>4 DEF Contents!e1000_read_pba_string_generic, PbaStatus
    <3>2. ASSUME NEW status, pba' = [pba EXCEPT !.status = status]
          PROVE  pba' = [pba EXCEPT !.status = status, !.written = pba.written]
      BY <3>2 DEF PbaTypes
    <3>3. QED
      BY <3>1, <3>2
  <2>2. QED
    BY <1>3, <1>4, <2>1 DEF Contents!e1000_read_pba_string_generic
<1>5. CASE Contents!e1000_write_pba_raw
  BY <1>5 DEF Contents!e1000_write_pba_raw, PbaTypes, PbaStatus
<1>6. QED
  BY <1>1, <1>2, <1>4, <1>5 DEF Contents!e1000_read_pba_length_generic,
     Contents!e1000_read_pba_string_generic, Contents!e1000_read_pba_raw,
     Contents!e1000_write_pba_raw

LEMMA RecordAlwaysFound == ServicesSpec => []RecordFound
<1>1. ServicesInit => RecordFound
  <2> SUFFICES ASSUME Contents!Init PROVE RecordFound
    BY DEF ServicesInit
  <2>1. PICK part \in Parts : invm = part.invm
    BY DEF Contents!Init
  <2>2. InvmTyped /\ found = -1 /\ pba.status = "none"
    BY <2>1, PartsAssumption DEF Contents!Init, Contents!Failed, InvmTyped
  <2>3. QED
    BY <2>2 DEF RecordFound, Contents!FoundIsRecord, PbaStatus
<1>2. PbaInvariant /\ RecordFound /\ [ServicesNext]_serviceVars => RecordFound'
  <2> SUFFICES ASSUME PbaTypes, RecordFound, [ServicesNext]_serviceVars PROVE RecordFound'
    BY DEF PbaInvariant
  <2>1. CASE Contents!Next
    <3>1. CASE Contents!e1000_read_invm_word_i210
      BY <3>1, RecordIsFound
    <3>2. CASE ~Contents!e1000_read_invm_word_i210
      <4>1. pba'.status \in PbaStatus /\ invm' = invm /\ found' = found
        BY <2>1, <3>2, PbaHasStatus DEF Contents!Next, RecordFound
      <4>2. QED
        BY <4>1, RecordStays
    <3>3. QED
      BY <3>1, <3>2
  <2>2. CASE UNCHANGED contentVars
    BY <2>2, RecordStays DEF contentVars, RecordFound
  <2>3. QED
    BY <2>1, <2>2 DEF ServicesNext, serviceVars
<1>3. QED
  BY <1>1, <1>2, PbaHolds, PTL DEF ServicesSpec

(* Whatever the words of the memory and however many: a buffer of the      *)
(* length that was reported is never too small and never written past its  *)
(* end, and a part number that was written into another image is read back *)
(* from there. Whatever the records: a word that                           *)
(* e1000_read_invm_word_i210 takes is a record, and never part of the data *)
(* of one before it.                                                       *)
THEOREM ContentsAreConsistent == ServicesSpec => []ContentsConsistent
<1>1. PbaInvariant /\ RecordFound => ContentsConsistent
  BY DEF PbaInvariant, RecordFound, ContentsConsistent, Contents!ContentsConsistent
<1>2. QED
  BY <1>1, PbaHolds, RecordAlwaysFound, PTL
-----------------------------------------------------------------------------
(* The PHY: what a function may do, from a page that is selected and a set *)
(* of registers that have been read, to a page and a set.                  *)
SelectsAlways == Transceiver!SelectsAlways
Matters(k, a) == k # "igp_3" \/ a.reg \notin Transceiver!MultiPage
Mark(k, a) == <<IF Matters(k, a) THEN a.page ELSE 0, a.reg>>
OnPage(k, a, p) == k \in SelectsAlways \/ a.page = p

(* With the one PHY whose function has the semaphore for all of its        *)
(* accesses they are made as they stand, and no error ends it.             *)
Start == "i210 at start"
Plain(k, a) ==
    /\ a = [op |-> a.op, page |-> a.page, reg |-> a.reg, raw |-> k = Start,
            onError |-> a.onError, of |-> a.of]
    /\ a.page \in 0 .. 255
    /\ a.onError \in IF k = Start THEN {"next"} ELSE {"return", "skip"}

(* An access, or the end of a function before its time. What is not looked *)
(* at when it fails leaves the page.                                       *)
Allowed(k, a, p, S, q, T) ==
    \/ a.op = "read" /\ OnPage(k, a, p) /\ q = p /\ T \subseteq S \cup {Mark(k, a)}
    \/ a.op = "write" /\ OnPage(k, a, p) /\ q = p /\ T \subseteq S
    \/ a.op = "update" /\ OnPage(k, a, p) /\ q = p /\ T \subseteq S /\ Mark(k, a) \in S
    \/ /\ a.op = "select" /\ a.onError # "skip" /\ k \notin SelectsAlways
       /\ q = a.page /\ T \subseteq S
    \/ /\ a.op = "save" /\ a.onError # "skip" /\ k \notin SelectsAlways \cup {Start}
       /\ p = 0 /\ q = 0 /\ T \subseteq S
    \/ /\ a.op = "restore" /\ a.onError # "skip" /\ k \notin SelectsAlways \cup {Start}
       /\ q = 0 /\ T \subseteq S
    \/ a.op = "reset" /\ a.onError # "skip" /\ q = 0 /\ T \subseteq S
    \/ a.op \in {"fail", "leave"} /\ k # Start

(* A set of functions, each with where it may begin and where it ends:     *)
(* closed under what is left after a step and under alternatives.          *)
StepIn(k, R, a, p, S, q, T) ==
    \/ Plain(k, a) /\ Allowed(k, a, p, S, q, T)
    \/ a.op = "either" /\ \A f \in a.of : \E X : X \subseteq S /\ <<f, p, X, q, T>> \in R
RunIn(k, R, A, f, p, S, q, T) ==
    /\ f \in Seq(A)
    /\ f = <<>> => p = q /\ S = T
    /\ f # <<>> => \E p1, S1 : /\ StepIn(k, R, Head(f), p, S, p1, S1)
                               /\ <<Tail(f), p1, S1, q, T>> \in R
Closed(k, R, A) ==
    \A r \in R : \E f, p, S, q, T : r = <<f, p, S, q, T>> /\ RunIn(k, R, A, f, p, S, q, T)
Runs(k, f, p, S, q, T) == \E R, A : Closed(k, R, A) /\ <<f, p, S, q, T>> \in R
-----------------------------------------------------------------------------
LEMMA StepMore ==
    ASSUME NEW k, NEW R, NEW Q, R \subseteq Q, NEW a, NEW p, NEW S, NEW q, NEW T,
           StepIn(k, R, a, p, S, q, T)
    PROVE  StepIn(k, Q, a, p, S, q, T)
BY DEF StepIn

LEMMA RunMore ==
    ASSUME NEW k, NEW R, NEW Q, R \subseteq Q, NEW A, NEW B, A \subseteq B,
           NEW f, NEW p, NEW S, NEW q, NEW T, RunIn(k, R, A, f, p, S, q, T)
    PROVE  RunIn(k, Q, B, f, p, S, q, T)
<1>1. f \in Seq(B)
  BY DEF RunIn
<1>2. CASE f = <<>>
  BY <1>1, <1>2 DEF RunIn
<1>3. CASE f # <<>>
  <2>1. PICK p1, S1 : /\ StepIn(k, R, Head(f), p, S, p1, S1)
                      /\ <<Tail(f), p1, S1, q, T>> \in R
    BY <1>3 DEF RunIn
  <2>2. StepIn(k, Q, Head(f), p, S, p1, S1)
    BY <2>1, StepMore
  <2>3. QED
    BY <1>1, <1>3, <2>1, <2>2 DEF RunIn
<1>4. QED
  BY <1>2, <1>3

(* What a function that runs does. *)
LEMMA RunUnfolds ==
    ASSUME NEW k, NEW R, NEW A, Closed(k, R, A), NEW f, NEW p, NEW S, NEW q, NEW T,
           <<f, p, S, q, T>> \in R
    PROVE  RunIn(k, R, A, f, p, S, q, T)
<1>1. PICK g, x, X, y, Y : /\ <<f, p, S, q, T>> = <<g, x, X, y, Y>>
                           /\ RunIn(k, R, A, g, x, X, y, Y)
  BY DEF Closed
<1>2. g = f /\ x = p /\ X = S /\ y = q /\ Y = T
  BY <1>1
<1>3. QED
  BY <1>1, <1>2

LEMMA Stops ==
    ASSUME NEW k, NEW p, NEW S
    PROVE  Runs(k, <<>>, p, S, p, S)
<1> DEFINE R == {<< <<>>, p, S, p, S>>}
<1>1. RunIn(k, R, {}, <<>>, p, S, p, S)
  BY DEF RunIn
<1> HIDE DEF R
<1>2. \A r \in R : r = << <<>>, p, S, p, S>>
  BY DEF R
<1>3. Closed(k, R, {})
  BY <1>1, <1>2 DEF Closed
<1>4. << <<>>, p, S, p, S>> \in R
  BY DEF R
<1>5. QED
  BY <1>3, <1>4 DEF Runs

(* One step. *)
LEMMA RunsStep ==
    ASSUME NEW k, NEW a, NEW p, NEW S, NEW q, NEW T, Plain(k, a),
           Allowed(k, a, p, S, q, T)
    PROVE  Runs(k, <<a>>, p, S, q, T)
<1> DEFINE stop == << <<>>, q, T, q, T>>
           go == << <<a>>, p, S, q, T>>
           R == {stop, go}
<1>1. <<a>> \in Seq({a}) /\ <<a>> # <<>> /\ Head(<<a>>) = a /\ Tail(<<a>>) = <<>>
      /\ <<>> \in Seq({a})
  OBVIOUS
<1>2. StepIn(k, R, a, p, S, q, T)
  BY DEF StepIn
<1>3. stop \in R /\ go \in R /\ \A r \in R : r = stop \/ r = go
  OBVIOUS
<1> HIDE DEF R
<1>4. RunIn(k, R, {a}, <<a>>, p, S, q, T)
  BY <1>1, <1>2, <1>3 DEF RunIn
<1>5. RunIn(k, R, {a}, <<>>, q, T, q, T)
  BY <1>1 DEF RunIn
<1>6. Closed(k, R, {a})
  BY <1>3, <1>4, <1>5 DEF Closed
<1>7. QED
  BY <1>3, <1>6 DEF Runs

LEMMA HeadTailOfConcat ==
    ASSUME NEW A, NEW f \in Seq(A), NEW g \in Seq(A), f # <<>>
    PROVE  /\ f \o g \in Seq(A) /\ f \o g # <<>>
           /\ Head(f \o g) = Head(f) /\ Tail(f \o g) = Tail(f) \o g
<1>1. /\ f \o g \in Seq(A) /\ Len(f \o g) = Len(f) + Len(g)
      /\ \A i \in 1 .. (Len(f) + Len(g)) :
           (f \o g)[i] = IF i <= Len(f) THEN f[i] ELSE g[i - Len(f)]
  BY ConcatProperties
<1>2. /\ Len(f) \in Nat /\ Len(f) > 0 /\ Len(g) \in Nat
      /\ Tail(f) \in Seq(A) /\ Len(Tail(f)) = Len(f) - 1
      /\ \A i \in 1 .. Len(Tail(f)) : Tail(f)[i] = f[i + 1]
  BY EmptySeq, LenProperties, HeadTailProperties
<1>3. f \o g # <<>>
  BY <1>1, <1>2
<1>4. Head(f \o g) = Head(f)
  BY <1>1, <1>2
<1>5. Tail(f \o g) = Tail(f) \o g
  <2>1. /\ Tail(f \o g) \in Seq(A) /\ Len(Tail(f \o g)) = Len(f) + Len(g) - 1
        /\ \A i \in 1 .. Len(Tail(f \o g)) : Tail(f \o g)[i] = (f \o g)[i + 1]
    BY <1>1, <1>3, HeadTailProperties
  <2>2. /\ Tail(f) \o g \in Seq(A) /\ Len(Tail(f) \o g) = Len(f) - 1 + Len(g)
        /\ \A i \in 1 .. (Len(f) - 1 + Len(g)) :
             (Tail(f) \o g)[i] = IF i <= Len(f) - 1 THEN Tail(f)[i] ELSE g[i - (Len(f) - 1)]
    BY <1>2, ConcatProperties
  <2>3. ASSUME NEW i \in 1 .. (Len(f) - 1 + Len(g)) PROVE Tail(f \o g)[i] = (Tail(f) \o g)[i]
    BY <1>1, <1>2, <2>1, <2>2
  <2>4. QED
    BY <1>2, <2>1, <2>2, <2>3, SeqEqual
<1>6. QED
  BY <1>1, <1>3, <1>4, <1>5

(* One function after the other. *)
LEMMA RunsOn ==
    ASSUME NEW k, NEW f, NEW g, NEW p, NEW S, NEW p1, NEW S1, NEW q, NEW T,
           Runs(k, f, p, S, p1, S1), Runs(k, g, p1, S1, q, T)
    PROVE  Runs(k, f \o g, p, S, q, T)
<1>1. PICK R1, A1 : Closed(k, R1, A1) /\ <<f, p, S, p1, S1>> \in R1
  BY DEF Runs
<1>2. PICK R2, A2 : Closed(k, R2, A2) /\ <<g, p1, S1, q, T>> \in R2
  BY DEF Runs
<1> DEFINE Starts == {r \in R1 : \E h, x, X : r = <<h, x, X, p1, S1>>}
           Q == {<<r[1] \o g, r[2], r[3], q, T>> : r \in Starts}
           R == R1 \cup R2 \cup Q
           A == A1 \cup A2
<1>3. g \in Seq(A) /\ RunIn(k, R2, A2, g, p1, S1, q, T)
  <2>1. RunIn(k, R2, A2, g, p1, S1, q, T)
    BY <1>2, RunUnfolds
  <2>2. g \in Seq(A2)
    BY <2>1 DEF RunIn
  <2>3. A2 \subseteq A
    OBVIOUS
  <2> HIDE DEF A
  <2>4. g \in Seq(A)
    BY <2>2, <2>3
  <2>5. QED
    BY <2>1, <2>4
<1>4. ASSUME NEW h, NEW x, NEW X, <<h, x, X, p1, S1>> \in R1
      PROVE  <<h \o g, x, X, q, T>> \in R
  <2>1. <<h, x, X, p1, S1>> \in Starts
    BY <1>4
  <2>2. <<h \o g, x, X, q, T>> \in Q
    BY <2>1
  <2>3. QED
    BY <2>2
<1>5. ASSUME NEW r \in Q
      PROVE  \E h, x, X : r = <<h \o g, x, X, q, T>> /\ <<h, x, X, p1, S1>> \in R1
  <2>1. PICK s \in Starts : r = <<s[1] \o g, s[2], s[3], q, T>>
    BY <1>5
  <2>2. PICK h, x, X : s = <<h, x, X, p1, S1>>
    BY <2>1
  <2>3. s[1] = h /\ s[2] = x /\ s[3] = X /\ s \in R1
    BY <2>1, <2>2
  <2>4. r = <<h \o g, x, X, q, T>> /\ <<h, x, X, p1, S1>> \in R1
    BY <2>1, <2>2, <2>3
  <2>5. QED
    BY <2>4
<1>6. R1 \subseteq R /\ R2 \subseteq R /\ R \subseteq R1 \cup R2 \cup Q
      /\ A1 \subseteq A /\ A2 \subseteq A
  OBVIOUS
<1> HIDE DEF Starts, Q, R, A
<1>7. ASSUME NEW h, NEW x, NEW X, <<h, x, X, p1, S1>> \in R1
      PROVE  RunIn(k, R, A, h \o g, x, X, q, T)
  <2>1. RunIn(k, R1, A1, h, x, X, p1, S1)
    BY <1>1, <1>7, RunUnfolds
  <2>2. h \in Seq(A)
    BY <1>6, <2>1 DEF RunIn
  <2>3. CASE h = <<>>
    <3>1. x = p1 /\ X = S1
      BY <2>1, <2>3 DEF RunIn
    <3>2. h \o g = g
      BY <1>3, <2>3, ConcatEmptySeq
    <3>3. RunIn(k, R, A, g, p1, S1, q, T)
      BY <1>3, <1>6, RunMore
    <3>4. QED
      BY <3>1, <3>2, <3>3
  <2>4. CASE h # <<>>
    <3>1. PICK p2, S2 : /\ StepIn(k, R1, Head(h), x, X, p2, S2)
                        /\ <<Tail(h), p2, S2, p1, S1>> \in R1
      BY <2>1, <2>4 DEF RunIn
    <3>2. StepIn(k, R, Head(h), x, X, p2, S2)
      BY <1>6, <3>1, StepMore
    <3>3. <<Tail(h) \o g, p2, S2, q, T>> \in R
      BY <1>4, <3>1
    <3>4. /\ h \o g \in Seq(A) /\ h \o g # <<>>
          /\ Head(h \o g) = Head(h) /\ Tail(h \o g) = Tail(h) \o g
      BY <1>3, <2>2, <2>4, HeadTailOfConcat
    <3>5. QED
      BY <3>2, <3>3, <3>4 DEF RunIn
  <2>5. QED
    BY <2>3, <2>4
<1>8. Closed(k, R, A)
  <2> SUFFICES ASSUME NEW r \in R
               PROVE  \E h, x, X, y, Y : /\ r = <<h, x, X, y, Y>>
                                         /\ RunIn(k, R, A, h, x, X, y, Y)
    BY DEF Closed
  <2>1. CASE r \in R1
    <3>1. PICK h, x, X, y, Y : r = <<h, x, X, y, Y>> /\ RunIn(k, R1, A1, h, x, X, y, Y)
      BY <1>1, <2>1 DEF Closed
    <3>2. RunIn(k, R, A, h, x, X, y, Y)
      BY <1>6, <3>1, RunMore
    <3>3. QED
      BY <3>1, <3>2
  <2>2. CASE r \in R2
    <3>1. PICK h, x, X, y, Y : r = <<h, x, X, y, Y>> /\ RunIn(k, R2, A2, h, x, X, y, Y)
      BY <1>2, <2>2 DEF Closed
    <3>2. RunIn(k, R, A, h, x, X, y, Y)
      BY <1>6, <3>1, RunMore
    <3>3. QED
      BY <3>1, <3>2
  <2>3. CASE r \in Q
    BY <1>5, <1>7, <2>3
  <2>4. QED
    BY <1>6, <2>1, <2>2, <2>3
<1>9. <<f \o g, p, S, q, T>> \in R
  BY <1>1, <1>4
<1>10. QED
  BY <1>8, <1>9 DEF Runs
-----------------------------------------------------------------------------
(* Two alternatives, for which part of what has been read is enough.       *)
LEMMA EitherRuns ==
    ASSUME NEW k, NEW f, NEW g, NEW p, NEW S, NEW X, NEW Y, NEW q, NEW T,
           X \subseteq S, Y \subseteq S, Runs(k, f, p, X, q, T), Runs(k, g, p, Y, q, T)
    PROVE  Runs(k, Transceiver!Either({f, g}), p, S, q, T)
<1>1. PICK R1, A1 : Closed(k, R1, A1) /\ <<f, p, X, q, T>> \in R1
  BY DEF Runs
<1>2. PICK R2, A2 : Closed(k, R2, A2) /\ <<g, p, Y, q, T>> \in R2
  BY DEF Runs
<1> DEFINE a == [Transceiver!Step("either", 0, "") EXCEPT !.of = {f, g}]
           stop == << <<>>, q, T, q, T>>
           go == << <<a>>, p, S, q, T>>
           R == R1 \cup R2 \cup {stop, go}
           A == A1 \cup A2 \cup {a}
<1>3. a.op = "either" /\ a.of = {f, g}
  BY DEF Transceiver!Step
<1>4. Transceiver!Either({f, g}) = <<a>>
  BY DEF Transceiver!Either
<1> HIDE DEF a
<1>5. <<a>> \in Seq({a}) /\ <<a>> # <<>> /\ Head(<<a>>) = a /\ Tail(<<a>>) = <<>>
      /\ <<>> \in Seq({a})
  OBVIOUS
<1>6. /\ R1 \subseteq R /\ R2 \subseteq R /\ stop \in R /\ go \in R
      /\ \A r \in R : r \in R1 \/ r \in R2 \/ r = stop \/ r = go
      /\ A1 \subseteq A /\ A2 \subseteq A /\ {a} \subseteq A
  OBVIOUS
<1> HIDE DEF R, A
<1>7. StepIn(k, R, a, p, S, q, T)
  BY <1>1, <1>2, <1>3, <1>6 DEF StepIn
<1>8. <<a>> \in Seq(A) /\ <<>> \in Seq(A)
  BY <1>5, <1>6
<1>9. RunIn(k, R, A, <<a>>, p, S, q, T)
  BY <1>5, <1>6, <1>7, <1>8 DEF RunIn
<1>10. RunIn(k, R, A, <<>>, q, T, q, T)
  BY <1>8 DEF RunIn
<1>11. Closed(k, R, A)
  <2> SUFFICES ASSUME NEW r \in R
               PROVE  \E h, x, V, y, W : /\ r = <<h, x, V, y, W>>
                                         /\ RunIn(k, R, A, h, x, V, y, W)
    BY DEF Closed
  <2>1. CASE r \in R1
    <3>1. PICK h, x, V, y, W : r = <<h, x, V, y, W>> /\ RunIn(k, R1, A1, h, x, V, y, W)
      BY <1>1, <2>1 DEF Closed
    <3>2. RunIn(k, R, A, h, x, V, y, W)
      BY <1>6, <3>1, RunMore
    <3>3. QED
      BY <3>1, <3>2
  <2>2. CASE r \in R2
    <3>1. PICK h, x, V, y, W : r = <<h, x, V, y, W>> /\ RunIn(k, R2, A2, h, x, V, y, W)
      BY <1>2, <2>2 DEF Closed
    <3>2. RunIn(k, R, A, h, x, V, y, W)
      BY <1>6, <3>1, RunMore
    <3>3. QED
      BY <3>1, <3>2
  <2>3. CASE r = stop
    BY <1>10, <2>3
  <2>4. CASE r = go
    BY <1>9, <2>4
  <2>5. QED
    BY <1>6, <2>1, <2>2, <2>3, <2>4
<1>12. QED
  BY <1>4, <1>6, <1>11 DEF Runs

LEMMA OptionallyRuns ==
    ASSUME NEW k, NEW f, NEW p, NEW S, NEW T, T \subseteq S, Runs(k, f, p, S, p, T)
    PROVE  Runs(k, Transceiver!Optionally(f), p, S, p, T)
BY Stops, EitherRuns DEF Transceiver!Optionally

(* The accesses. *)
Access(op, p, reg, onError) ==
    [op |-> op, page |-> p, reg |-> reg, raw |-> FALSE, onError |-> onError, of |-> {}]

LEMMA Forms ==
    /\ \A reg : /\ Transceiver!Read(reg) = <<Access("read", 0, reg, "return")>>
                /\ Transceiver!Write(reg) = <<Access("write", 0, reg, "return")>>
                /\ Transceiver!Update(reg) = <<Access("update", 0, reg, "return")>>
    /\ \A p : Transceiver!Select(p) = <<Access("select", p, "PAGE_SELECT", "return")>>
    /\ Transceiver!Save = <<Access("save", 0, "PAGE_SELECT", "return")>>
    /\ Transceiver!Restore = <<Access("restore", 0, "PAGE_SELECT", "return")>>
    /\ Transceiver!Reset = <<Access("reset", 0, "CTRL.PHY_RST", "return")>>
    /\ Transceiver!Fail = <<Access("fail", 0, "", "return")>>
    /\ Transceiver!Leave = <<Access("leave", 0, "", "return")>>
BY DEF Access, Transceiver!Step, Transceiver!Read, Transceiver!Write, Transceiver!Update,
       Transceiver!Select, Transceiver!Save, Transceiver!Restore, Transceiver!Reset,
       Transceiver!Fail, Transceiver!Leave

LEMMA AccessRuns ==
    ASSUME NEW k, k # Start, NEW op, NEW x \in 0 .. 255, NEW reg,
           NEW onError \in {"return", "skip"}, NEW p, NEW S, NEW q, NEW T,
           Allowed(k, Access(op, x, reg, onError), p, S, q, T)
    PROVE  Runs(k, <<Access(op, x, reg, onError)>>, p, S, q, T)
<1>1. Plain(k, Access(op, x, reg, onError))
  BY DEF Plain, Access
<1>2. QED
  BY <1>1, RunsStep

(* Registers of the page selected. *)
LEMMA ReadRuns ==
    ASSUME NEW k, k # Start, NEW x \in 0 .. 255, NEW reg, NEW onError \in {"return", "skip"},
           NEW p, k \in SelectsAlways \/ x = p, NEW S
    PROVE  LET a == Access("read", x, reg, onError)
           IN Runs(k, <<a>>, p, S, p, S) /\ Runs(k, <<a>>, p, S, p, S \cup {Mark(k, a)})
<1> DEFINE a == Access("read", x, reg, onError)
<1>1. a.op = "read" /\ OnPage(k, a, p)
  BY DEF OnPage, Access
<1>2. Allowed(k, a, p, S, p, S) /\ Allowed(k, a, p, S, p, S \cup {Mark(k, a)})
  BY <1>1 DEF Allowed
<1>3. QED
  BY <1>2, AccessRuns

LEMMA WriteRuns ==
    ASSUME NEW k, k # Start, NEW x \in 0 .. 255, NEW reg, NEW onError \in {"return", "skip"},
           NEW p, k \in SelectsAlways \/ x = p, NEW S
    PROVE  Runs(k, <<Access("write", x, reg, onError)>>, p, S, p, S)
<1> DEFINE a == Access("write", x, reg, onError)
<1>1. a.op = "write" /\ OnPage(k, a, p)
  BY DEF OnPage, Access
<1>2. Allowed(k, a, p, S, p, S)
  BY <1>1 DEF Allowed
<1>3. QED
  BY <1>2, AccessRuns

(* What is changed has been read, be it with another way to treat errors.  *)
LEMMA UpdateRuns ==
    ASSUME NEW k, k # Start, NEW x \in 0 .. 255, NEW reg, NEW onError \in {"return", "skip"},
           NEW p, k \in SelectsAlways \/ x = p, NEW S, NEW T, T \subseteq S, NEW e,
           Mark(k, Access("read", x, reg, e)) \in S
    PROVE  Runs(k, <<Access("update", x, reg, onError)>>, p, S, p, T)
<1> DEFINE a == Access("update", x, reg, onError)
<1>1. a.op = "update" /\ OnPage(k, a, p) /\ Mark(k, a) \in S
  BY DEF OnPage, Access, Mark, Matters
<1>2. Allowed(k, a, p, S, p, T)
  BY <1>1 DEF Allowed
<1>3. QED
  BY <1>2, AccessRuns

(* The selection of pages. *)
LEMMA SelectRuns ==
    ASSUME NEW k, k # Start, k \notin SelectsAlways, NEW x \in 0 .. 255, NEW p, NEW S
    PROVE  Runs(k, Transceiver!Select(x), p, S, x, S)
<1> DEFINE a == Access("select", x, "PAGE_SELECT", "return")
<1>1. a.op = "select" /\ a.onError = "return" /\ a.page = x
  BY DEF Access
<1>2. Allowed(k, a, p, S, x, S)
  BY <1>1 DEF Allowed
<1>3. QED
  BY <1>2, AccessRuns, Forms

LEMMA SaveRuns ==
    ASSUME NEW k, k # Start, k \notin SelectsAlways, NEW S, NEW p
    PROVE  /\ Runs(k, Transceiver!Save, 0, S, 0, S)
           /\ Runs(k, Transceiver!Restore, p, S, 0, S)
<1> DEFINE s == Access("save", 0, "PAGE_SELECT", "return")
           r == Access("restore", 0, "PAGE_SELECT", "return")
<1>1. s.op = "save" /\ s.onError = "return" /\ r.op = "restore" /\ r.onError = "return"
  BY DEF Access
<1>2. Allowed(k, s, 0, S, 0, S) /\ Allowed(k, r, p, S, 0, S)
  BY <1>1 DEF Allowed
<1>3. 0 \in 0 .. 255 /\ "return" \in {"return", "skip"}
  OBVIOUS
<1>4. Runs(k, <<s>>, 0, S, 0, S) /\ Runs(k, <<r>>, p, S, 0, S)
  BY <1>2, <1>3, AccessRuns
<1>5. QED
  BY <1>4, Forms

LEMMA ResetRuns ==
    ASSUME NEW k, k # Start, NEW p, NEW S
    PROVE  Runs(k, Transceiver!Reset, p, S, 0, S)
<1> DEFINE a == Access("reset", 0, "CTRL.PHY_RST", "return")
<1>1. a.op = "reset" /\ a.onError = "return"
  BY DEF Access
<1>2. Allowed(k, a, p, S, 0, S)
  BY <1>1 DEF Allowed
<1>3. 0 \in 0 .. 255 /\ "return" \in {"return", "skip"}
  OBVIOUS
<1>4. Runs(k, <<a>>, p, S, 0, S)
  BY <1>2, <1>3, AccessRuns
<1>5. QED
  BY <1>4, Forms

(* A function may end anywhere. *)
LEMMA EndRuns ==
    ASSUME NEW k, k # Start, NEW p, NEW S, NEW q, NEW T
    PROVE  Runs(k, Transceiver!Fail, p, S, q, T) /\ Runs(k, Transceiver!Leave, p, S, q, T)
<1> DEFINE f == Access("fail", 0, "", "return")
           e == Access("leave", 0, "", "return")
<1>1. f.op = "fail" /\ e.op = "leave"
  BY DEF Access
<1>2. Allowed(k, f, p, S, q, T) /\ Allowed(k, e, p, S, q, T)
  BY <1>1 DEF Allowed
<1>3. 0 \in 0 .. 255 /\ "return" \in {"return", "skip"}
  OBVIOUS
<1>4. Runs(k, <<f>>, p, S, q, T) /\ Runs(k, <<e>>, p, S, q, T)
  BY <1>2, <1>3, AccessRuns
<1>5. QED
  BY <1>4, Forms
-----------------------------------------------------------------------------
(* Functions that begin and end at a page, and need nothing to be read     *)
(* before.                                                                 *)
Kept(k, p, f) == \A S : Runs(k, f, p, S, p, S)

LEMMA NothingKept ==
    ASSUME NEW k, NEW p
    PROVE  Kept(k, p, <<>>)
BY Stops DEF Kept

LEMMA BothKept ==
    ASSUME NEW k, NEW p, NEW f, NEW g, Kept(k, p, f), Kept(k, p, g)
    PROVE  Kept(k, p, f \o g)
<1> SUFFICES ASSUME NEW S PROVE Runs(k, f \o g, p, S, p, S)
  BY DEF Kept
<1>1. Runs(k, f, p, S, p, S) /\ Runs(k, g, p, S, p, S)
  BY DEF Kept
<1>2. QED
  BY <1>1, RunsOn

LEMMA EitherKept ==
    ASSUME NEW k, NEW p, NEW f, NEW g, Kept(k, p, f), Kept(k, p, g)
    PROVE  Kept(k, p, Transceiver!Either({f, g}))
<1> SUFFICES ASSUME NEW S PROVE Runs(k, Transceiver!Either({f, g}), p, S, p, S)
  BY DEF Kept
<1>1. Runs(k, f, p, S, p, S) /\ Runs(k, g, p, S, p, S)
  BY DEF Kept
<1>2. QED
  BY <1>1, EitherRuns

LEMMA OptionallyKept ==
    ASSUME NEW k, NEW p, NEW f, Kept(k, p, f)
    PROVE  Kept(k, p, Transceiver!Optionally(f))
BY NothingKept, EitherKept DEF Transceiver!Optionally

LEMMA IfKept ==
    ASSUME NEW k, NEW p, NEW f, NEW c, c => Kept(k, p, f)
    PROVE  Kept(k, p, Transceiver!If(c, f))
<1>1. CASE c
  BY <1>1 DEF Transceiver!If
<1>2. CASE ~c
  BY <1>2, NothingKept DEF Transceiver!If
<1>3. QED
  BY <1>1, <1>2

LEMMA EndKept ==
    ASSUME NEW k, k # Start, NEW p
    PROVE  /\ Kept(k, p, Transceiver!Fail)
           /\ Kept(k, p, Transceiver!Leave)
BY EndRuns DEF Kept

(* What is done to every step of two functions in a row is done to each.   *)
Through(v, s) == [i \in DOMAIN s |-> v[s[i]]]

Images(v, V, h, s) ==
    s \in Seq(V) /\ Len(s) = Len(h) /\ \A i \in 1 .. Len(h) : s[i] = v[h[i]]

LEMMA ThroughIs ==
    ASSUME NEW A, NEW V, NEW v \in [A -> V], NEW h \in Seq(A)
    PROVE  Images(v, V, h, Through(v, h))
<1>1. /\ Len(h) \in Nat /\ DOMAIN h = 1 .. Len(h) /\ \A i \in 1 .. Len(h) : h[i] \in A
  BY LenProperties, ElementOfSeq
<1>2. Through(v, h) = [i \in 1 .. Len(h) |-> v[h[i]]]
  BY <1>1 DEF Through
<1>3. \A i \in 1 .. Len(h) : v[h[i]] \in V
  BY <1>1
<1>4. Through(v, h) \in [1 .. Len(h) -> V]
  BY <1>2, <1>3
<1>5. Through(v, h) \in Seq(V) /\ Len(Through(v, h)) = Len(h)
  BY <1>1, <1>4, SeqDef, LenProperties
<1>6. QED
  BY <1>2, <1>5 DEF Images

Splits(v, f, g) == Through(v, f \o g) = Through(v, f) \o Through(v, g)

LEMMA ThroughBoth ==
    ASSUME NEW A, NEW V, NEW v \in [A -> V], NEW f \in Seq(A), NEW g \in Seq(A)
    PROVE  Splits(v, f, g)
<1>1. /\ f \o g \in Seq(A) /\ Len(f \o g) = Len(f) + Len(g)
      /\ \A i \in 1 .. (Len(f) + Len(g)) :
           (f \o g)[i] = IF i <= Len(f) THEN f[i] ELSE g[i - Len(f)]
  BY ConcatProperties
<1>2. Len(f) \in Nat /\ Len(g) \in Nat
  BY LenProperties
<1> DEFINE F == Through(v, f)
           G == Through(v, g)
           H == Through(v, f \o g)
<1>. Images(v, V, f, F) /\ Images(v, V, g, G) /\ Images(v, V, f \o g, H)
  BY <1>1, ThroughIs
<1> HIDE DEF F, G, H
<1>3. /\ F \in Seq(V) /\ Len(F) = Len(f) /\ \A i \in 1 .. Len(f) : F[i] = v[f[i]]
      /\ G \in Seq(V) /\ Len(G) = Len(g) /\ \A i \in 1 .. Len(g) : G[i] = v[g[i]]
  BY DEF Images
<1>4. /\ H \in Seq(V) /\ Len(H) = Len(f \o g)
      /\ \A i \in 1 .. Len(f \o g) : H[i] = v[(f \o g)[i]]
  BY DEF Images
<1>5. /\ F \o G \in Seq(V) /\ Len(F \o G) = Len(F) + Len(G)
      /\ \A i \in 1 .. (Len(F) + Len(G)) :
           (F \o G)[i] = IF i <= Len(F) THEN F[i] ELSE G[i - Len(F)]
  BY <1>3, ConcatProperties
<1>6. ASSUME NEW i \in 1 .. Len(H)
      PROVE  H[i] = (F \o G)[i]
  <2>1. i \in 1 .. (Len(f) + Len(g))
    BY <1>1, <1>4
  <2>2. CASE i <= Len(f)
    <3>1. i \in 1 .. Len(f)
      BY <1>2, <2>1, <2>2
    <3>2. H[i] = v[f[i]]
      BY <1>1, <1>4, <2>1, <2>2
    <3>3. (F \o G)[i] = v[f[i]]
      BY <1>3, <1>5, <2>1, <2>2, <3>1
    <3>4. QED
      BY <3>2, <3>3
  <2>3. CASE ~(i <= Len(f))
    <3>1. i - Len(f) \in 1 .. Len(g)
      BY <1>2, <2>1, <2>3
    <3>2. H[i] = v[g[i - Len(f)]]
      BY <1>1, <1>4, <2>1, <2>3
    <3>3. (F \o G)[i] = v[g[i - Len(f)]]
      BY <1>3, <1>5, <2>1, <2>3, <3>1
    <3>4. QED
      BY <3>2, <3>3
  <2>4. QED
    BY <2>2, <2>3
<1>7. Len(H) = Len(F \o G)
  BY <1>1, <1>3, <1>4, <1>5
<1>8. H = F \o G
  BY <1>4, <1>5, <1>6, <1>7, SeqEqual
<1>9. QED
  BY <1>8 DEF F, G, H, Splits

LEMMA OnBoth ==
    ASSUME NEW A, NEW f \in Seq(A), NEW g \in Seq(A), NEW p
    PROVE  Transceiver!On(p, f \o g) = Transceiver!On(p, f) \o Transceiver!On(p, g)
<1> DEFINE V == {[a EXCEPT !.page = p] : a \in A}
           v == [a \in A |-> [a EXCEPT !.page = p]]
<1>1. ASSUME NEW h \in Seq(A)
      PROVE  Transceiver!On(p, h) = Through(v, h)
  <2>1. \A i \in DOMAIN h : h[i] \in A
    BY LenProperties, ElementOfSeq
  <2>2. QED
    BY <2>1 DEF Through, Transceiver!On
<1>2. f \o g \in Seq(A)
  BY ConcatProperties
<1>3. v \in [A -> V]
  OBVIOUS
<1> HIDE DEF v, V
<1>4. Splits(v, f, g)
  BY <1>3, ThroughBoth
<1>5. QED
  BY <1>1, <1>2, <1>4 DEF Splits

LEMMA IgnoringBoth ==
    ASSUME NEW A, NEW f \in Seq(A), NEW g \in Seq(A)
    PROVE  Transceiver!Ignoring(f \o g) = Transceiver!Ignoring(f) \o Transceiver!Ignoring(g)
<1> DEFINE V == {[a EXCEPT !.onError = "skip"] : a \in A}
           v == [a \in A |-> [a EXCEPT !.onError = "skip"]]
<1>1. ASSUME NEW h \in Seq(A)
      PROVE  Transceiver!Ignoring(h) = Through(v, h)
  <2>1. \A i \in DOMAIN h : h[i] \in A
    BY LenProperties, ElementOfSeq
  <2>2. QED
    BY <2>1 DEF Through, Transceiver!Ignoring
<1>2. f \o g \in Seq(A)
  BY ConcatProperties
<1>3. v \in [A -> V]
  OBVIOUS
<1> HIDE DEF v, V
<1>4. Splits(v, f, g)
  BY <1>3, ThroughBoth
<1>5. QED
  BY <1>1, <1>2, <1>4 DEF Splits

LEMMA UnderBoth ==
    ASSUME NEW A, NEW f \in Seq(A), NEW g \in Seq(A)
    PROVE  Transceiver!Under(f \o g) = Transceiver!Under(f) \o Transceiver!Under(g)
<1> DEFINE V == {[a EXCEPT !.raw = TRUE, !.onError = "next"] : a \in A}
           v == [a \in A |-> [a EXCEPT !.raw = TRUE, !.onError = "next"]]
<1>1. ASSUME NEW h \in Seq(A)
      PROVE  Transceiver!Under(h) = Through(v, h)
  <2>1. \A i \in DOMAIN h : h[i] \in A
    BY LenProperties, ElementOfSeq
  <2>2. QED
    BY <2>1 DEF Through, Transceiver!Under
<1>2. f \o g \in Seq(A)
  BY ConcatProperties
<1>3. v \in [A -> V]
  OBVIOUS
<1> HIDE DEF v, V
<1>4. Splits(v, f, g)
  BY <1>3, ThroughBoth
<1>5. QED
  BY <1>1, <1>2, <1>4 DEF Splits

(* A sequence of one access, at another page, with errors not looked at, or *)
(* under a semaphore that the function has.                                *)
Form(op, p, reg, raw, onError, of) ==
    [op |-> op, page |-> p, reg |-> reg, raw |-> raw, onError |-> onError, of |-> of]

LEMMA FormExcept ==
    ASSUME NEW op, NEW x, NEW reg, NEW raw, NEW e, NEW of, NEW p
    PROVE  [Form(op, x, reg, raw, e, of) EXCEPT !.page = p] = Form(op, p, reg, raw, e, of)
BY DEF Form

LEMMA FormIgnored ==
    ASSUME NEW op, NEW x, NEW reg, NEW raw, NEW e, NEW of, NEW d
    PROVE  [Form(op, x, reg, raw, e, of) EXCEPT !.onError = d] = Form(op, x, reg, raw, d, of)
BY DEF Form

Borrowed(a, r, d) == [a EXCEPT !.raw = r, !.onError = d]

LEMMA FormUnder ==
    ASSUME NEW op, NEW x, NEW reg, NEW raw, NEW e, NEW of, NEW r, NEW d
    PROVE  Borrowed(Form(op, x, reg, raw, e, of), r, d) = Form(op, x, reg, r, d, of)
<1> DEFINE f == Form(op, x, reg, raw, e, of)
<1>1. [f EXCEPT !.raw = r] = Form(op, x, reg, r, e, of)
  BY DEF Form
<1> HIDE DEF f
<1>2. [f EXCEPT !.raw = r, !.onError = d] = [[f EXCEPT !.raw = r] EXCEPT !.onError = d]
  OBVIOUS
<1>3. [Form(op, x, reg, r, e, of) EXCEPT !.onError = d] = Form(op, x, reg, r, d, of)
  BY FormIgnored
<1>4. [[f EXCEPT !.raw = r] EXCEPT !.onError = d] = Form(op, x, reg, r, d, of)
  BY <1>1, <1>3, Zenon
<1>5. QED
  BY <1>2, <1>4 DEF f, Borrowed

LEMMA OneElement ==
    ASSUME NEW a, NEW b
    PROVE  DOMAIN <<a>> = 1 .. 1 /\ <<a>>[1] = a /\ [i \in 1 .. 1 |-> b] = <<b>>
OBVIOUS

LEMMA OneOn ==
    ASSUME NEW op, NEW x, NEW reg, NEW e, NEW p
    PROVE  Transceiver!On(p, <<Access(op, x, reg, e)>>) = <<Access(op, p, reg, e)>>
<1>1. \E no : no = FALSE
  OBVIOUS
<1>2. PICK no : no = FALSE
  BY <1>1
<1> DEFINE a == Form(op, x, reg, no, e, {})
<1>3. Access(op, x, reg, e) = a /\ Access(op, p, reg, e) = Form(op, p, reg, no, e, {})
  BY <1>2 DEF Access, Form
<1>4. [a EXCEPT !.page = p] = Form(op, p, reg, no, e, {})
  BY FormExcept
<1> HIDE DEF a
<1>5. Transceiver!On(p, <<a>>) = [i \in 1 .. 1 |-> [a EXCEPT !.page = p]]
  BY OneElement DEF Transceiver!On
<1>6. QED
  BY <1>3, <1>4, <1>5, OneElement

LEMMA OneIgnoring ==
    ASSUME NEW op, NEW x, NEW reg, NEW e
    PROVE  Transceiver!Ignoring(<<Access(op, x, reg, e)>>) = <<Access(op, x, reg, "skip")>>
<1>1. \E no : no = FALSE
  OBVIOUS
<1>2. PICK no : no = FALSE
  BY <1>1
<1> DEFINE a == Form(op, x, reg, no, e, {})
<1>3. Access(op, x, reg, e) = a /\ Access(op, x, reg, "skip") = Form(op, x, reg, no, "skip", {})
  BY <1>2 DEF Access, Form
<1>4. [a EXCEPT !.onError = "skip"] = Form(op, x, reg, no, "skip", {})
  BY FormIgnored
<1> HIDE DEF a
<1>5. Transceiver!Ignoring(<<a>>) = [i \in 1 .. 1 |-> [a EXCEPT !.onError = "skip"]]
  BY OneElement DEF Transceiver!Ignoring
<1>6. QED
  BY <1>3, <1>4, <1>5, OneElement

LEMMA OneUnder ==
    ASSUME NEW op, NEW x, NEW reg, NEW e
    PROVE  Transceiver!Under(<<Access(op, x, reg, e)>>)
             = <<Form(op, x, reg, TRUE, "next", {})>>
<1>1. \E no, yes : no = FALSE /\ yes = TRUE
  OBVIOUS
<1>2. PICK no, yes : no = FALSE /\ yes = TRUE
  BY <1>1
<1> DEFINE a == Form(op, x, reg, no, e, {})
           b == Form(op, x, reg, yes, "next", {})
<1>3. Access(op, x, reg, e) = a /\ Form(op, x, reg, TRUE, "next", {}) = b
  BY <1>2 DEF Access, Form
<1>4. Borrowed(a, yes, "next") = b
  BY FormUnder
<1> HIDE DEF a, b
<1>5. <<a>>[1] = a /\ DOMAIN <<a>> = 1 .. 1
  BY OneElement
<1>6. Transceiver!Under(<<a>>) = [i \in 1 .. 1 |-> Borrowed(<<a>>[i], yes, "next")]
  BY <1>2, <1>5 DEF Transceiver!Under, Borrowed
<1>7. \A i \in 1 .. 1 : Borrowed(<<a>>[i], yes, "next") = b
  BY <1>4, <1>5
<1>8. Transceiver!Under(<<a>>) = [i \in 1 .. 1 |-> b]
  BY <1>6, <1>7
<1>9. QED
  BY <1>3, <1>8, OneElement

(* A register read, written, or read and written.                          *)
LEMMA ReadKept ==
    ASSUME NEW k, k # Start, NEW reg
    PROVE  /\ Kept(k, 0, Transceiver!Read(reg))
           /\ Kept(k, 0, Transceiver!Ignoring(Transceiver!Read(reg)))
<1>1. 0 \in 0 .. 255 /\ "return" \in {"return", "skip"} /\ "skip" \in {"return", "skip"}
  OBVIOUS
<1>2. /\ Kept(k, 0, <<Access("read", 0, reg, "return")>>)
      /\ Kept(k, 0, <<Access("read", 0, reg, "skip")>>)
  BY <1>1, ReadRuns DEF Kept
<1>3. QED
  BY <1>2, Forms, OneIgnoring

LEMMA ReadKeptOn ==
    ASSUME NEW k, k # Start, NEW reg, NEW x \in 0 .. 255, NEW p, k \in SelectsAlways \/ x = p
    PROVE  Kept(k, p, Transceiver!On(x, Transceiver!Read(reg)))
<1>1. "return" \in {"return", "skip"}
  OBVIOUS
<1>2. Kept(k, p, <<Access("read", x, reg, "return")>>)
  BY <1>1, ReadRuns DEF Kept
<1>3. Transceiver!Read(reg) = <<Access("read", 0, reg, "return")>>
  BY Forms
<1>4. Transceiver!On(x, <<Access("read", 0, reg, "return")>>) = <<Access("read", x, reg, "return")>>
  BY OneOn
<1>5. QED
  BY <1>2, <1>3, <1>4

LEMMA WriteKept ==
    ASSUME NEW k, k # Start, NEW reg
    PROVE  Kept(k, 0, Transceiver!Write(reg))
<1>1. 0 \in 0 .. 255 /\ "return" \in {"return", "skip"}
  OBVIOUS
<1>2. Kept(k, 0, <<Access("write", 0, reg, "return")>>)
  BY <1>1, WriteRuns DEF Kept
<1>3. QED
  BY <1>2, Forms

LEMMA WriteKeptOn ==
    ASSUME NEW k, k # Start, NEW reg, NEW x \in 0 .. 255, NEW p, k \in SelectsAlways \/ x = p
    PROVE  Kept(k, p, Transceiver!On(x, Transceiver!Write(reg)))
<1>1. "return" \in {"return", "skip"}
  OBVIOUS
<1>2. Kept(k, p, <<Access("write", x, reg, "return")>>)
  BY <1>1, WriteRuns DEF Kept
<1>3. Transceiver!Write(reg) = <<Access("write", 0, reg, "return")>>
  BY Forms
<1>4. Transceiver!On(x, <<Access("write", 0, reg, "return")>>)
        = <<Access("write", x, reg, "return")>>
  BY OneOn
<1>5. QED
  BY <1>2, <1>3, <1>4

(* A read after which the register may be written. *)
Has(k, reg) == Mark(k, Access("read", 0, reg, "return"))

LEMMA ReadFirst ==
    ASSUME NEW k, k # Start, NEW reg, NEW S
    PROVE  Runs(k, Transceiver!Read(reg), 0, S, 0, S \cup {Has(k, reg)})
<1>1. 0 \in 0 .. 255 /\ "return" \in {"return", "skip"}
  OBVIOUS
<1>2. Runs(k, <<Access("read", 0, reg, "return")>>, 0, S, 0, S \cup {Has(k, reg)})
  BY <1>1, ReadRuns DEF Has
<1>3. QED
  BY <1>2, Forms

LEMMA ThenUpdate ==
    ASSUME NEW k, k # Start, NEW reg, NEW S, Has(k, reg) \in S, NEW T, T \subseteq S
    PROVE  /\ Runs(k, Transceiver!Update(reg), 0, S, 0, T)
           /\ Runs(k, Transceiver!Ignoring(Transceiver!Update(reg)), 0, S, 0, T)
<1>1. 0 \in 0 .. 255 /\ "return" \in {"return", "skip"} /\ "skip" \in {"return", "skip"}
  OBVIOUS
<1>2. /\ Runs(k, <<Access("update", 0, reg, "return")>>, 0, S, 0, T)
      /\ Runs(k, <<Access("update", 0, reg, "skip")>>, 0, S, 0, T)
  BY <1>1, UpdateRuns DEF Has
<1>3. QED
  BY <1>2, Forms, OneIgnoring

LEMMA ChangeKeptOn ==
    ASSUME NEW k, k # Start, NEW x \in 0 .. 255, NEW reg, NEW e \in {"return", "skip"},
           NEW p, k \in SelectsAlways \/ x = p
    PROVE  Kept(k, p, <<Access("read", x, reg, e)>> \o <<Access("update", x, reg, e)>>)
<1> SUFFICES ASSUME NEW S
             PROVE  Runs(k, <<Access("read", x, reg, e)>> \o <<Access("update", x, reg, e)>>,
                         p, S, p, S)
  BY DEF Kept
<1> DEFINE m == Mark(k, Access("read", x, reg, e))
<1>1. Runs(k, <<Access("read", x, reg, e)>>, p, S, p, S \cup {m})
  BY ReadRuns
<1>2. m \in S \cup {m} /\ S \subseteq S \cup {m}
  OBVIOUS
<1> HIDE DEF m
<1>3. Runs(k, <<Access("update", x, reg, e)>>, p, S \cup {m}, p, S)
  BY <1>2, UpdateRuns DEF m
<1>4. QED
  BY <1>1, <1>3, RunsOn

LEMMA ChangeKept ==
    ASSUME NEW k, k # Start, NEW reg
    PROVE  /\ Kept(k, 0, Transceiver!Change(reg))
           /\ Kept(k, 0, Transceiver!Ignoring(Transceiver!Change(reg)))
<1> DEFINE r == Access("read", 0, reg, "return")
           u == Access("update", 0, reg, "return")
<1>1. 0 \in 0 .. 255 /\ "return" \in {"return", "skip"} /\ "skip" \in {"return", "skip"}
  OBVIOUS
<1>2. Transceiver!Change(reg) = <<r>> \o <<u>>
  BY Forms DEF Transceiver!Change
<1>3. <<r>> \in Seq({r, u}) /\ <<u>> \in Seq({r, u})
  OBVIOUS
<1>4. Transceiver!Ignoring(<<r>> \o <<u>>)
        = <<Access("read", 0, reg, "skip")>> \o <<Access("update", 0, reg, "skip")>>
  <2>1. /\ Transceiver!Ignoring(<<r>>) = <<Access("read", 0, reg, "skip")>>
        /\ Transceiver!Ignoring(<<u>>) = <<Access("update", 0, reg, "skip")>>
    BY OneIgnoring
  <2> HIDE DEF r, u
  <2>2. QED
    BY <1>3, <2>1, IgnoringBoth
<1>5. QED
  BY <1>1, <1>2, <1>4, ChangeKeptOn
-----------------------------------------------------------------------------
(* The functions of the driver, each begun and ended at page 0. *)
LEMMA IdKept ==
    ASSUME kind # Start
    PROVE  Kept(kind, 0, Transceiver!e1000_get_phy_id)
BY ReadKept, BothKept DEF Transceiver!e1000_get_phy_id

LEMMA SwResetKept ==
    ASSUME kind # Start
    PROVE  Kept(kind, 0, Transceiver!e1000_phy_sw_reset_generic)
BY ChangeKept DEF Transceiver!e1000_phy_sw_reset_generic

LEMMA DspKept ==
    ASSUME kind # Start
    PROVE  Kept(kind, 0, Transceiver!e1000_phy_reset_dsp_generic)
BY WriteKept, BothKept DEF Transceiver!e1000_phy_reset_dsp_generic

LEMMA PowerUpKept ==
    ASSUME kind # Start
    PROVE  Kept(kind, 0, Transceiver!e1000_power_up_phy_copper)
BY ChangeKept DEF Transceiver!e1000_power_up_phy_copper

LEMMA PowerDownKept ==
    ASSUME kind # Start
    PROVE  Kept(kind, 0, Transceiver!e1000_power_down_phy_copper)
BY ChangeKept DEF Transceiver!e1000_power_down_phy_copper

LEMMA LinkOnceKept ==
    ASSUME kind # Start
    PROVE  Kept(kind, 0, Transceiver!HasLinkOnce)
BY ReadKept, BothKept DEF Transceiver!HasLinkOnce

LEMMA HasLinkKept ==
    ASSUME kind # Start
    PROVE  Kept(kind, 0, Transceiver!e1000_phy_has_link_generic)
BY BothKept, OptionallyKept, LinkOnceKept DEF Transceiver!e1000_phy_has_link_generic

LEMMA WaitAutonegKept ==
    ASSUME kind # Start
    PROVE  Kept(kind, 0, Transceiver!e1000_wait_autoneg)
BY ReadKept, BothKept, OptionallyKept DEF Transceiver!e1000_wait_autoneg

LEMMA PrimaryKept ==
    ASSUME kind # Start
    PROVE  Kept(kind, 0, Transceiver!e1000_set_primary_secondary_mode)
BY ChangeKept DEF Transceiver!e1000_set_primary_secondary_mode

LEMMA ForceIgpKept ==
    ASSUME kind # Start
    PROVE  Kept(kind, 0, Transceiver!e1000_phy_force_speed_duplex_igp)
BY ChangeKept, BothKept, OptionallyKept, HasLinkKept
   DEF Transceiver!e1000_phy_force_speed_duplex_igp, Transceiver!AwaitForced

LEMMA AfterLinkUpKept ==
    ASSUME kind # Start
    PROVE  Kept(kind, 0, Transceiver!e1000_config_fc_after_link_up_generic)
BY ReadKept, BothKept, OptionallyKept DEF Transceiver!e1000_config_fc_after_link_up_generic

LEMMA PolarityM88Kept ==
    ASSUME kind # Start
    PROVE  Kept(kind, 0, Transceiver!e1000_check_polarity_m88)
BY ReadKept DEF Transceiver!e1000_check_polarity_m88

LEMMA Polarity82577Kept ==
    ASSUME kind # Start
    PROVE  Kept(kind, 0, Transceiver!e1000_check_polarity_82577)
BY ReadKept DEF Transceiver!e1000_check_polarity_82577

LEMMA IdOf82575Kept ==
    ASSUME kind # Start
    PROVE  Kept(kind, 0, Transceiver!e1000_get_phy_id_82575)
BY ReadKept, BothKept, OptionallyKept, EitherKept, EndKept, IdKept
   DEF Transceiver!e1000_get_phy_id_82575

LEMMA ResetKept ==
    ASSUME kind # Start
    PROVE  Kept(kind, 0, Transceiver!Reset)
BY ResetRuns DEF Kept

(* The script of an IGP3 selects the pages of what it writes. *)
LEMMA ScriptKept ==
    ASSUME kind = "igp_3"
    PROVE  Kept(kind, 0, Transceiver!e1000_phy_init_script_igp3)
<1> DEFINE a == Access("write", 1, "0x2F5B", "return")
           b == Access("write", 2, "0x1F30", "return")
           c == Access("write", 0, "CONTROL", "return")
           x == Access("write", 1, "0x2F5B", "skip")
           y == Access("write", 2, "0x1F30", "skip")
           z == Access("write", 0, "CONTROL", "skip")
           A == {a, b, c}
<1>1. /\ Transceiver!Write("0x2F5B") = <<Access("write", 0, "0x2F5B", "return")>>
      /\ Transceiver!Write("0x1F30") = <<Access("write", 0, "0x1F30", "return")>>
      /\ Transceiver!Write("CONTROL") = <<c>>
  BY Forms
<1>2. /\ Transceiver!On(1, Transceiver!Write("0x2F5B")) = <<a>>
      /\ Transceiver!On(2, Transceiver!Write("0x1F30")) = <<b>>
  BY <1>1, OneOn
<1>3. Transceiver!Ignoring(<<a>>) = <<x>> /\ Transceiver!Ignoring(<<b>>) = <<y>>
      /\ Transceiver!Ignoring(<<c>>) = <<z>>
  BY OneIgnoring
<1>4. Kept(kind, 0, <<x>>) /\ Kept(kind, 0, <<y>>) /\ Kept(kind, 0, <<z>>)
  <2>1. /\ kind # Start /\ kind \in SelectsAlways /\ "skip" \in {"return", "skip"}
        /\ 0 \in 0 .. 255 /\ 1 \in 0 .. 255 /\ 2 \in 0 .. 255
    BY DEF Start, SelectsAlways, Transceiver!SelectsAlways
  <2>2. QED
    BY <2>1, WriteRuns DEF Kept
<1>5. <<a>> \in Seq(A) /\ <<b>> \in Seq(A) /\ <<c>> \in Seq(A)
  OBVIOUS
<1>6. Transceiver!e1000_phy_init_script_igp3 = Transceiver!Ignoring(<<a>> \o <<b>> \o <<c>>)
  BY <1>1, <1>2 DEF Transceiver!e1000_phy_init_script_igp3
<1> HIDE DEF a, b, c, x, y, z, A
<1>7. Transceiver!Ignoring(<<a>> \o <<b>>) = <<x>> \o <<y>>
  BY <1>3, <1>5, IgnoringBoth
<1> DEFINE ab == <<a>> \o <<b>>
<1>8. ab \in Seq(A)
  BY <1>5, ConcatProperties
<1> HIDE DEF ab
<1>9. Transceiver!Ignoring(ab \o <<c>>) = <<x>> \o <<y>> \o <<z>>
  <2>1. Transceiver!Ignoring(ab \o <<c>>)
          = Transceiver!Ignoring(ab) \o Transceiver!Ignoring(<<c>>)
    BY <1>5, <1>8, IgnoringBoth
  <2>2. QED
    BY <1>3, <1>7, <2>1 DEF ab
<1>10. QED
  BY <1>4, <1>6, <1>9, BothKept DEF ab

LEMMA CfgDoneKept ==
    ASSUME kind # Start
    PROVE  Kept(kind, 0, Transceiver!e1000_get_cfg_done_82575)
BY OptionallyKept, IfKept, ScriptKept DEF Transceiver!e1000_get_cfg_done_82575

LEMMA HwResetKept ==
    ASSUME kind # Start
    PROVE  Kept(kind, 0, Transceiver!e1000_phy_hw_reset_generic)
BY BothKept, OptionallyKept, ResetKept, CfgDoneKept DEF Transceiver!e1000_phy_hw_reset_generic

LEMMA Setup82577Kept ==
    ASSUME kind # Start
    PROVE  Kept(kind, 0, Transceiver!e1000_copper_link_setup_82577)
BY ChangeKept, BothKept, HwResetKept, PrimaryKept DEF Transceiver!e1000_copper_link_setup_82577

LEMMA SetupM88Kept ==
    ASSUME kind # Start
    PROVE  Kept(kind, 0, Transceiver!e1000_copper_link_setup_m88)
BY ChangeKept, BothKept, OptionallyKept, SwResetKept DEF Transceiver!e1000_copper_link_setup_m88

LEMMA SetupM88Gen2Kept ==
    ASSUME kind # Start
    PROVE  Kept(kind, 0, Transceiver!e1000_copper_link_setup_m88_gen2)
<1> SUFFICES ASSUME NEW S
             PROVE  Runs(kind, Transceiver!e1000_copper_link_setup_m88_gen2, 0, S, 0, S)
  BY DEF Kept
<1> DEFINE X == S \cup {Has(kind, "SPEC_CTRL")}
<1>1. S \subseteq X /\ X \subseteq X /\ Has(kind, "SPEC_CTRL") \in X
  OBVIOUS
<1>2. Runs(kind, Transceiver!Read("SPEC_CTRL"), 0, S, 0, X)
  BY ReadFirst
<1> HIDE DEF X
<1>3. /\ Runs(kind, Transceiver!Update("SPEC_CTRL"), 0, X, 0, X)
      /\ Runs(kind, Transceiver!Update("SPEC_CTRL"), 0, X, 0, S)
  BY <1>1, ThenUpdate
<1>4. /\ Runs(kind, Transceiver!e1000_phy_sw_reset_generic, 0, X, 0, X)
      /\ Runs(kind, Transceiver!e1000_phy_sw_reset_generic, 0, S, 0, S)
      /\ Runs(kind, Transceiver!e1000_set_primary_secondary_mode, 0, S, 0, S)
  BY SwResetKept, PrimaryKept DEF Kept
<1> DEFINE again == Transceiver!Update("SPEC_CTRL") \o Transceiver!e1000_phy_sw_reset_generic
<1>5. Runs(kind, again, 0, X, 0, X)
  BY <1>3, <1>4, RunsOn
<1> HIDE DEF again
<1>6. Runs(kind, Transceiver!If(kind = "m88e1543", again), 0, X, 0, X)
  BY <1>5, Stops DEF Transceiver!If
<1>7. Runs(kind, Transceiver!Read("SPEC_CTRL") \o Transceiver!If(kind = "m88e1543", again),
           0, S, 0, X)
  BY <1>2, <1>6, RunsOn
<1>8. QED
  BY <1>3, <1>4, <1>7, RunsOn DEF again, Transceiver!e1000_copper_link_setup_m88_gen2

LEMMA LpluKept ==
    ASSUME kind # Start
    PROVE  Kept(kind, 0, Transceiver!e1000_set_d0_lplu_state_82575)
<1> SUFFICES ASSUME NEW S
             PROVE  Runs(kind, Transceiver!e1000_set_d0_lplu_state_82575, 0, S, 0, S)
  BY DEF Kept
<1> DEFINE X == S \cup {Has(kind, "POWER_MGMT")}
           Y == S \cup {Has(kind, "PORT_CONFIG")}
<1>1. S \subseteq X /\ Has(kind, "POWER_MGMT") \in X /\ Has(kind, "PORT_CONFIG") \in Y
      /\ S \subseteq Y /\ X \subseteq X
  OBVIOUS
<1>2. Runs(kind, Transceiver!Read("POWER_MGMT"), 0, S, 0, X)
  BY ReadFirst
<1>3. Runs(kind, Transceiver!Ignoring(Transceiver!Read("PORT_CONFIG")), 0, S, 0, Y)
  <2>1. 0 \in 0 .. 255 /\ "skip" \in {"return", "skip"}
    OBVIOUS
  <2>2. Mark(kind, Access("read", 0, "PORT_CONFIG", "skip")) = Has(kind, "PORT_CONFIG")
    BY DEF Has, Mark, Matters, Access
  <2>3. Runs(kind, <<Access("read", 0, "PORT_CONFIG", "skip")>>, 0, S, 0, Y)
    BY <2>1, <2>2, ReadRuns
  <2>4. QED
    BY <2>3, Forms, OneIgnoring
<1> HIDE DEF X, Y
<1>4. /\ Runs(kind, Transceiver!Update("POWER_MGMT"), 0, X, 0, S)
      /\ Runs(kind, Transceiver!Ignoring(Transceiver!Update("POWER_MGMT")), 0, X, 0, S)
      /\ Runs(kind, Transceiver!Update("PORT_CONFIG"), 0, Y, 0, S)
  BY <1>1, ThenUpdate
<1>5. Runs(kind, Transceiver!Optionally(Transceiver!Change("PORT_CONFIG")), 0, S, 0, S)
  BY ChangeKept, OptionallyKept DEF Kept
<1> DEFINE one == Transceiver!Update("POWER_MGMT")
                    \o Transceiver!Ignoring(Transceiver!Read("PORT_CONFIG"))
                    \o Transceiver!Update("PORT_CONFIG")
           two == Transceiver!Ignoring(Transceiver!Update("POWER_MGMT"))
                    \o Transceiver!Optionally(Transceiver!Change("PORT_CONFIG"))
<1>6. Runs(kind, one, 0, X, 0, S)
  <2>1. Runs(kind, Transceiver!Update("POWER_MGMT")
                     \o Transceiver!Ignoring(Transceiver!Read("PORT_CONFIG")), 0, X, 0, Y)
    BY <1>3, <1>4, RunsOn
  <2>2. QED
    BY <1>4, <2>1, RunsOn
<1>7. Runs(kind, two, 0, X, 0, S)
  BY <1>4, <1>5, RunsOn
<1> HIDE DEF one, two
<1>8. Runs(kind, Transceiver!Either({one, two}), 0, X, 0, S)
  BY <1>1, <1>6, <1>7, EitherRuns
<1>9. Runs(kind, Transceiver!Read("POWER_MGMT") \o Transceiver!Either({one, two}), 0, S, 0, S)
  BY <1>2, <1>8, RunsOn
<1>10. QED
  BY <1>9 DEF one, two, Transceiver!e1000_set_d0_lplu_state_82575

LEMMA SleepLpluKept ==
    ASSUME kind # Start
    PROVE  Kept(kind, 0, Transceiver!e1000_set_d3_lplu_state_generic)
<1> SUFFICES ASSUME NEW S
             PROVE  Runs(kind, Transceiver!e1000_set_d3_lplu_state_generic, 0, S, 0, S)
  BY DEF Kept
<1> DEFINE X == S \cup {Has(kind, "POWER_MGMT")}
<1>1. S \subseteq X /\ Has(kind, "POWER_MGMT") \in X
  OBVIOUS
<1>2. Runs(kind, Transceiver!Read("POWER_MGMT"), 0, S, 0, X)
  BY ReadFirst
<1> HIDE DEF X
<1>3. Runs(kind, Transceiver!Update("POWER_MGMT"), 0, X, 0, S)
  BY <1>1, ThenUpdate
<1>4. Runs(kind, Transceiver!Optionally(Transceiver!Change("PORT_CONFIG")), 0, S, 0, S)
  BY ChangeKept, OptionallyKept DEF Kept
<1> DEFINE f == Transceiver!Update("POWER_MGMT")
                  \o Transceiver!Optionally(Transceiver!Change("PORT_CONFIG"))
<1>5. Runs(kind, f, 0, X, 0, S)
  BY <1>3, <1>4, RunsOn
<1> HIDE DEF f
<1>6. Runs(kind, Transceiver!Optionally(f), 0, X, 0, S)
  BY <1>1, <1>5, OptionallyRuns
<1>7. Runs(kind, Transceiver!Read("POWER_MGMT") \o Transceiver!Optionally(f), 0, S, 0, S)
  BY <1>2, <1>6, RunsOn
<1>8. QED
  BY <1>7 DEF f, Transceiver!e1000_set_d3_lplu_state_generic

LEMMA SetupIgpKept ==
    ASSUME kind # Start
    PROVE  Kept(kind, 0, Transceiver!e1000_copper_link_setup_igp)
BY ChangeKept, BothKept, OptionallyKept, HwResetKept, LpluKept, PrimaryKept
   DEF Transceiver!e1000_copper_link_setup_igp

LEMMA SetupAutonegKept ==
    ASSUME kind # Start
    PROVE  Kept(kind, 0, Transceiver!e1000_phy_setup_autoneg)
<1> SUFFICES ASSUME NEW S
             PROVE  Runs(kind, Transceiver!e1000_phy_setup_autoneg, 0, S, 0, S)
  BY DEF Kept
<1> DEFINE X == S \cup {Has(kind, "AUTONEG_ADV")}
           Y == X \cup {Has(kind, "1000T_CTRL")}
<1>1. /\ S \subseteq X /\ Has(kind, "AUTONEG_ADV") \in X /\ Has(kind, "AUTONEG_ADV") \in Y
      /\ Has(kind, "1000T_CTRL") \in Y /\ S \subseteq Y /\ X \subseteq X /\ Y \subseteq Y
  OBVIOUS
<1>2. /\ Runs(kind, Transceiver!Read("AUTONEG_ADV"), 0, S, 0, X)
      /\ Runs(kind, Transceiver!Read("1000T_CTRL"), 0, X, 0, Y)
  BY ReadFirst
<1> HIDE DEF X, Y
<1>3. /\ Runs(kind, Transceiver!Update("AUTONEG_ADV"), 0, X, 0, S)
      /\ Runs(kind, Transceiver!Update("AUTONEG_ADV"), 0, Y, 0, Y)
      /\ Runs(kind, Transceiver!Update("1000T_CTRL"), 0, Y, 0, S)
  BY <1>1, ThenUpdate
<1> DEFINE one == Transceiver!Read("1000T_CTRL") \o Transceiver!Update("AUTONEG_ADV")
                    \o Transceiver!Update("1000T_CTRL")
           two == Transceiver!Update("AUTONEG_ADV")
<1>4. Runs(kind, one, 0, X, 0, S)
  <2>1. Runs(kind, Transceiver!Read("1000T_CTRL") \o Transceiver!Update("AUTONEG_ADV"),
             0, X, 0, Y)
    BY <1>2, <1>3, RunsOn
  <2>2. QED
    BY <1>3, <2>1, RunsOn
<1>5. Runs(kind, two, 0, X, 0, S)
  BY <1>3
<1> HIDE DEF one, two
<1>6. Runs(kind, Transceiver!Either({one, two}), 0, X, 0, S)
  BY <1>1, <1>4, <1>5, EitherRuns
<1>7. Runs(kind, Transceiver!Read("AUTONEG_ADV") \o Transceiver!Either({one, two}), 0, S, 0, S)
  BY <1>2, <1>6, RunsOn
<1>8. QED
  BY <1>7 DEF one, two, Transceiver!e1000_phy_setup_autoneg

LEMMA AutonegKept ==
    ASSUME kind # Start
    PROVE  Kept(kind, 0, Transceiver!e1000_copper_link_autoneg)
BY ChangeKept, BothKept, OptionallyKept, SetupAutonegKept, WaitAutonegKept
   DEF Transceiver!e1000_copper_link_autoneg

LEMMA Force82577Kept ==
    ASSUME kind # Start
    PROVE  Kept(kind, 0, Transceiver!e1000_phy_force_speed_duplex_82577)
BY ChangeKept, BothKept, OptionallyKept, HasLinkKept
   DEF Transceiver!e1000_phy_force_speed_duplex_82577, Transceiver!AwaitForced

LEMMA ForceM88Kept ==
    ASSUME kind # Start
    PROVE  Kept(kind, 0, Transceiver!e1000_phy_force_speed_duplex_m88)
BY WriteKept, ChangeKept, BothKept, OptionallyKept, IfKept, SwResetKept, HasLinkKept, DspKept
   DEF Transceiver!e1000_phy_force_speed_duplex_m88

LEMMA ForceKept ==
    ASSUME kind # Start
    PROVE  Kept(kind, 0, Transceiver!ForceSpeedDuplex)
BY ForceIgpKept, Force82577Kept, ForceM88Kept DEF Transceiver!ForceSpeedDuplex

LEMMA SetupGenericKept ==
    ASSUME kind # Start
    PROVE  Kept(kind, 0, Transceiver!e1000_setup_copper_link_generic)
BY BothKept, OptionallyKept, EitherKept, AutonegKept, ForceKept, HasLinkKept, AfterLinkUpKept
   DEF Transceiver!e1000_setup_copper_link_generic

(* Where the callers select the pages. *)
Sgmii == Transceiver!Sgmii

LEMMA SgmiiSelects ==
    ASSUME kind \in Sgmii
    PROVE  kind # Start /\ kind \notin SelectsAlways
BY DEF Sgmii, Transceiver!Sgmii, Transceiver!I2c, Start, SelectsAlways,
       Transceiver!SelectsAlways

LEMMA Doubled ==
    ASSUME NEW n \in Nat, NEW a
    PROVE  [i \in 1 .. (n + n) |-> a] = [i \in 1 .. n |-> a] \o [i \in 1 .. n |-> a]
<1> DEFINE s == [i \in 1 .. n |-> a]
           d == [i \in 1 .. (n + n) |-> a]
<1>1. s \in Seq({a}) /\ Len(s) = n /\ \A i \in 1 .. n : s[i] = a
  <2>1. s \in [1 .. n -> {a}]
    OBVIOUS
  <2>2. s \in Seq({a})
    BY <2>1, SeqDef
  <2>3. QED
    BY <2>1, <2>2, LenProperties
<1>2. d \in Seq({a}) /\ Len(d) = n + n /\ \A i \in 1 .. (n + n) : d[i] = a
  <2>1. d \in [1 .. (n + n) -> {a}] /\ n + n \in Nat
    OBVIOUS
  <2>2. d \in Seq({a})
    BY <2>1, SeqDef
  <2>3. QED
    BY <2>1, <2>2, LenProperties
<1> HIDE DEF s, d
<1>3. /\ s \o s \in Seq({a}) /\ Len(s \o s) = n + n
      /\ \A i \in 1 .. (n + n) : (s \o s)[i] = IF i <= n THEN s[i] ELSE s[i - n]
  BY <1>1, ConcatProperties
<1>4. \A i \in 1 .. (n + n) : (s \o s)[i] = a
  BY <1>1, <1>3
<1>5. d = s \o s
  BY <1>2, <1>3, <1>4, SeqEqual
<1>6. QED
  BY <1>5 DEF s, d

LEMMA DoubledKept ==
    ASSUME NEW n \in Nat, NEW k, NEW p, NEW a, Kept(k, p, [i \in 1 .. n |-> a])
    PROVE  Kept(k, p, [i \in 1 .. (n + n) |-> a])
<1> DEFINE s == [i \in 1 .. n |-> a]
<1>1. [i \in 1 .. (n + n) |-> a] = s \o s
  BY Doubled
<1> HIDE DEF s
<1>2. Kept(k, p, s \o s)
  BY BothKept DEF s
<1>3. QED
  BY <1>1, <1>2

LEMMA EightKept ==
    ASSUME NEW k, NEW p, NEW a, Kept(k, p, <<a>>)
    PROVE  Kept(k, p, [i \in 1 .. 8 |-> a])
<1>1. Kept(k, p, [i \in 1 .. 1 |-> a])
  BY OneElement
<1>2. Kept(k, p, [i \in 1 .. (1 + 1) |-> a])
  BY <1>1, DoubledKept
<1>3. Kept(k, p, [i \in 1 .. 2 |-> a])
  BY <1>2
<1>4. Kept(k, p, [i \in 1 .. (2 + 2) |-> a])
  BY <1>3, DoubledKept
<1>5. Kept(k, p, [i \in 1 .. 4 |-> a])
  BY <1>4
<1>6. Kept(k, p, [i \in 1 .. (4 + 4) |-> a])
  BY <1>5, DoubledKept
<1>7. QED
  BY <1>6

LEMMA ConfigureRuns ==
    ASSUME kind \in Sgmii, NEW x \in 0 .. 255, NEW p, NEW S
    PROVE  Runs(kind, Transceiver!Configure(x), p, S, x, S)
<1>1. Runs(kind, Transceiver!Select(x), p, S, x, S)
  BY SgmiiSelects, SelectRuns
<1>2. Runs(kind, Transceiver!On(x, Transceiver!Write("CFG")), x, S, x, S)
  BY SgmiiSelects, WriteKeptOn DEF Kept
<1>3. QED
  BY <1>1, <1>2, RunsOn DEF Transceiver!Configure

LEMMA Configure255Runs ==
    ASSUME kind \in Sgmii, NEW p, NEW S
    PROVE  Runs(kind, Transceiver!Configure255, p, S, 255, S)
<1> DEFINE a == Access("write", 0, "CFG", "return")
           b == Access("write", 255, "CFG", "return")
           s == [i \in 1 .. 8 |-> a]
           d == [i \in 1 .. 8 |-> b]
<1>1. 255 \in 0 .. 255 /\ 0 \in 0 .. 255
  OBVIOUS
<1>2. Runs(kind, Transceiver!Select(255), p, S, 255, S)
  BY <1>1, SgmiiSelects, SelectRuns
<1>3. Kept(kind, 255, <<b>>)
  BY <1>1, SgmiiSelects, WriteRuns DEF Kept
<1>4. Transceiver!Write("CFG")[1] = a
  BY Forms
<1>5. [a EXCEPT !.page = 255] = b
  <2>1. PICK no : no = FALSE
    OBVIOUS
  <2>2. /\ a = Form("write", 0, "CFG", no, "return", {})
        /\ b = Form("write", 255, "CFG", no, "return", {})
    BY <2>1 DEF Access, Form
  <2>3. QED
    BY <2>2, FormExcept
<1> HIDE DEF a, b
<1>6. Kept(kind, 255, d)
  BY <1>3, EightKept
<1>7. Transceiver!On(255, s) = d
  BY <1>5 DEF Transceiver!On
<1>8. Transceiver!Configure255 = Transceiver!Select(255) \o d
  BY <1>4, <1>7 DEF Transceiver!Configure255
<1> HIDE DEF d
<1>9. Runs(kind, d, 255, S, 255, S)
  BY <1>6 DEF Kept
<1>10. QED
  BY <1>2, <1>8, <1>9, RunsOn

LEMMA Initialize1512Kept ==
    ASSUME kind \in Sgmii
    PROVE  Kept(kind, 0, Transceiver!e1000_initialize_M88E1512_phy)
<1> SUFFICES ASSUME NEW S
             PROVE  Runs(kind, Transceiver!e1000_initialize_M88E1512_phy, 0, S, 0, S)
  BY DEF Kept
<1>1. 251 \in 0 .. 255 /\ 18 \in 0 .. 255 /\ 0 \in 0 .. 255
  OBVIOUS
<1>2. /\ Runs(kind, Transceiver!Configure255, 0, S, 255, S)
      /\ Runs(kind, Transceiver!Configure(251), 255, S, 251, S)
      /\ Runs(kind, Transceiver!Configure(18), 251, S, 18, S)
  BY <1>1, Configure255Runs, ConfigureRuns
<1>3. /\ Runs(kind, Transceiver!Select(0), 18, S, 0, S)
      /\ Runs(kind, Transceiver!e1000_phy_sw_reset_generic, 0, S, 0, S)
  BY <1>1, SgmiiSelects, SelectRuns, SwResetKept DEF Kept
<1>4. Runs(kind, Transceiver!Configure255 \o Transceiver!Configure(251)
                   \o Transceiver!Configure(18), 0, S, 18, S)
  BY <1>2, RunsOn
<1>5. QED
  BY <1>3, <1>4, RunsOn DEF Transceiver!e1000_initialize_M88E1512_phy

LEMMA Initialize1543Kept ==
    ASSUME kind \in Sgmii
    PROVE  Kept(kind, 0, Transceiver!e1000_initialize_M88E1543_phy)
<1> SUFFICES ASSUME NEW S
             PROVE  Runs(kind, Transceiver!e1000_initialize_M88E1543_phy, 0, S, 0, S)
  BY DEF Kept
<1>1. 251 \in 0 .. 255 /\ 18 \in 0 .. 255 /\ 0 \in 0 .. 255 /\ 1 \in 0 .. 255
  OBVIOUS
<1>2. /\ Runs(kind, Transceiver!Configure255, 0, S, 255, S)
      /\ Runs(kind, Transceiver!Configure(251), 255, S, 251, S)
      /\ Runs(kind, Transceiver!Configure(18), 251, S, 18, S)
      /\ Runs(kind, Transceiver!Configure(1), 18, S, 1, S)
  BY <1>1, Configure255Runs, ConfigureRuns
<1>3. /\ Runs(kind, Transceiver!Select(0), 1, S, 0, S)
      /\ Runs(kind, Transceiver!e1000_phy_sw_reset_generic, 0, S, 0, S)
  BY <1>1, SgmiiSelects, SelectRuns, SwResetKept DEF Kept
<1>4. Runs(kind, Transceiver!Configure255 \o Transceiver!Configure(251)
                   \o Transceiver!Configure(18), 0, S, 18, S)
  BY <1>2, RunsOn
<1>5. Runs(kind, Transceiver!Configure255 \o Transceiver!Configure(251)
                   \o Transceiver!Configure(18) \o Transceiver!Configure(1), 0, S, 1, S)
  BY <1>2, <1>4, RunsOn
<1>6. QED
  BY <1>3, <1>5, RunsOn DEF Transceiver!e1000_initialize_M88E1543_phy

LEMMA HwResetSgmiiKept ==
    ASSUME kind \in Sgmii
    PROVE  Kept(kind, 0, Transceiver!e1000_phy_hw_reset_sgmii_82575)
BY SgmiiSelects, WriteKept, BothKept, IfKept, SwResetKept, Initialize1512Kept
   DEF Transceiver!e1000_phy_hw_reset_sgmii_82575

LEMMA InitParamsKept ==
    ASSUME kind # Start
    PROVE  Kept(kind, 0, Transceiver!e1000_init_phy_params_82575)
<1> DEFINE mode == Transceiver!Select(2) \o Transceiver!On(2, Transceiver!Read("MAC_CTRL_1"))
                     \o Transceiver!Leave
<1>1. ASSUME kind = "m88e1112" PROVE Kept(kind, 0, mode)
  <2> SUFFICES ASSUME NEW S PROVE Runs(kind, mode, 0, S, 0, S)
    BY DEF Kept
  <2>1. kind \notin SelectsAlways /\ 2 \in 0 .. 255
    BY <1>1, SgmiiSelects DEF Sgmii, Transceiver!Sgmii, Transceiver!I2c
  <2>2. /\ Runs(kind, Transceiver!Select(2), 0, S, 2, S)
        /\ Runs(kind, Transceiver!On(2, Transceiver!Read("MAC_CTRL_1")), 2, S, 2, S)
        /\ Runs(kind, Transceiver!Leave, 2, S, 0, S)
    BY <2>1, SelectRuns, ReadKeptOn, EndRuns DEF Kept
  <2>3. QED
    BY <2>2, RunsOn
<1>2. ASSUME kind = "m88e1512" PROVE Kept(kind, 0, Transceiver!e1000_initialize_M88E1512_phy)
  BY <1>2, Initialize1512Kept DEF Sgmii, Transceiver!Sgmii
<1>3. ASSUME kind = "m88e1543" PROVE Kept(kind, 0, Transceiver!e1000_initialize_M88E1543_phy)
  BY <1>3, Initialize1543Kept DEF Sgmii, Transceiver!Sgmii
<1>4. Kept(kind, 0, <<>>)
  BY NothingKept
<1> DEFINE rest ==
       CASE kind = "m88e1112" -> mode
         [] kind = "m88e1512" -> Transceiver!e1000_initialize_M88E1512_phy
         [] kind = "m88e1543" -> Transceiver!e1000_initialize_M88E1543_phy
         [] OTHER -> <<>>
<1> HIDE DEF mode
<1>5. Kept(kind, 0, rest)
  BY <1>1, <1>2, <1>3, <1>4
<1> HIDE DEF rest
<1>6. Kept(kind, 0, Transceiver!e1000_get_phy_id_82575 \o rest)
  BY <1>5, IdOf82575Kept, BothKept
<1>7. QED
  BY <1>6 DEF rest, mode, Transceiver!e1000_init_phy_params_82575

LEMMA SetupKept ==
    ASSUME kind # Start
    PROVE  Kept(kind, 0, Transceiver!e1000_setup_copper_link_82575)
<1> DEFINE link ==
       CASE kind = "m88e1111" -> Transceiver!e1000_copper_link_setup_m88
         [] kind = "igp_3" -> Transceiver!e1000_copper_link_setup_igp
         [] kind = "82580" -> Transceiver!e1000_copper_link_setup_82577
         [] OTHER -> Transceiver!e1000_copper_link_setup_m88_gen2
<1>1. Kept(kind, 0, link)
  BY SetupM88Kept, SetupIgpKept, Setup82577Kept, SetupM88Gen2Kept
<1>2. Kept(kind, 0, Transceiver!If(kind \in Sgmii, Transceiver!e1000_phy_hw_reset_sgmii_82575))
  BY IfKept, HwResetSgmiiKept
<1> HIDE DEF link
<1>3. Kept(kind, 0, Transceiver!If(kind \in Sgmii, Transceiver!e1000_phy_hw_reset_sgmii_82575)
                      \o link \o Transceiver!e1000_setup_copper_link_generic)
  BY <1>1, <1>2, SetupGenericKept, BothKept
<1>4. QED
  BY <1>3 DEF link, Sgmii, Transceiver!e1000_setup_copper_link_82575

LEMMA DownshiftKept ==
    ASSUME kind # Start
    PROVE  Kept(kind, 0, Transceiver!Ignoring(Transceiver!e1000_check_downshift_generic))
<1>1. Transceiver!Ignoring(<<>>) = <<>>
  BY DEF Transceiver!Ignoring
<1>2. CASE kind = "igp_3"
  BY <1>2, ReadKept DEF Transceiver!e1000_check_downshift_generic
<1>3. CASE kind = "82580"
  BY <1>1, <1>3, NothingKept DEF Transceiver!e1000_check_downshift_generic
<1>4. CASE kind # "igp_3" /\ kind # "82580"
  BY <1>4, ReadKept DEF Transceiver!e1000_check_downshift_generic
<1>5. QED
  BY <1>2, <1>3, <1>4

LEMMA CheckKept ==
    ASSUME kind # Start
    PROVE  Kept(kind, 0, Transceiver!e1000_check_for_copper_link_generic)
BY BothKept, OptionallyKept, LinkOnceKept, DownshiftKept, AfterLinkUpKept
   DEF Transceiver!e1000_check_for_copper_link_generic

LEMMA PolarityIgpKept ==
    ASSUME kind = "igp_3"
    PROVE  Kept(kind, 0, Transceiver!e1000_check_polarity_igp)
<1>1. kind # Start /\ kind \in SelectsAlways /\ 5 \in 0 .. 255
  BY DEF Start, SelectsAlways, Transceiver!SelectsAlways
<1>2. Kept(kind, 0, Transceiver!On(5, Transceiver!Read("PCS_INIT_REG")))
  BY <1>1, ReadKeptOn
<1>3. QED
  BY <1>1, <1>2, ReadKept, BothKept, EitherKept DEF Transceiver!e1000_check_polarity_igp

LEMMA TwoOn ==
    ASSUME NEW a, NEW b, NEW p
    PROVE  Transceiver!On(p, <<a>> \o <<b>>) = Transceiver!On(p, <<a>>) \o Transceiver!On(p, <<b>>)
<1>1. <<a>> \in Seq({a, b}) /\ <<b>> \in Seq({a, b})
  OBVIOUS
<1>2. QED
  BY <1>1, OnBoth

LEMMA DistanceKept ==
    ASSUME kind # Start, NEW p, kind \in SelectsAlways \/ p = 7
    PROVE  Kept(kind, p, Transceiver!Distance)
<1> DEFINE a == Access("read", 0, "PCDL", "return")
           b == Access("read", 0, "PCDC", "return")
<1>1. Transceiver!Read("PCDL") = <<a>> /\ Transceiver!Read("PCDC") = <<b>>
  BY Forms
<1> HIDE DEF a, b
<1>3. Transceiver!On(7, <<a>> \o <<b>>) = Transceiver!On(7, <<a>>) \o Transceiver!On(7, <<b>>)
  BY TwoOn
<1>4. 7 \in 0 .. 255
  OBVIOUS
<1>5. /\ Kept(kind, p, Transceiver!On(7, Transceiver!Read("PCDL")))
      /\ Kept(kind, p, Transceiver!On(7, Transceiver!Read("PCDC")))
  BY <1>4, ReadKeptOn
<1>6. Kept(kind, p, Transceiver!On(7, <<a>>) \o Transceiver!On(7, <<b>>))
  BY <1>1, <1>5, BothKept
<1>7. QED
  BY <1>1, <1>3, <1>6 DEF Transceiver!Distance

LEMMA LengthM88Gen2Kept ==
    ASSUME kind # Start, kind # "igp_3"
    PROVE  Kept(kind, 0, Transceiver!e1000_get_cable_length_m88_gen2)
<1>1. kind \in SelectsAlways <=> kind = "i210"
  BY DEF SelectsAlways, Transceiver!SelectsAlways
<1>2. CASE kind = "i210"
  BY <1>1, <1>2, DistanceKept DEF Transceiver!e1000_get_cable_length_m88_gen2
<1>3. CASE kind = "m88e1112"
  <2> SUFFICES ASSUME NEW S
               PROVE  Runs(kind, Transceiver!e1000_get_cable_length_m88_gen2, 0, S, 0, S)
    BY DEF Kept
  <2>1. kind \notin SelectsAlways /\ 5 \in 0 .. 255
    BY <1>1, <1>3
  <2>2. /\ Runs(kind, Transceiver!Save, 0, S, 0, S)
        /\ Runs(kind, Transceiver!Select(5), 0, S, 5, S)
        /\ Runs(kind, Transceiver!On(5, Transceiver!Read("VCT_DSP_DISTANCE")), 5, S, 5, S)
    BY <2>1, SaveRuns, SelectRuns, ReadKeptOn DEF Kept
  <2>3. Runs(kind, Transceiver!Either({Transceiver!Restore, Transceiver!Fail}), 5, S, 0, S)
    <3>1. Runs(kind, Transceiver!Restore, 5, S, 0, S) /\ Runs(kind, Transceiver!Fail, 5, S, 0, S)
      BY <2>1, SaveRuns, EndRuns
    <3>2. QED
      BY <3>1, EitherRuns
  <2>4. Runs(kind, Transceiver!Save \o Transceiver!Select(5)
                     \o Transceiver!On(5, Transceiver!Read("VCT_DSP_DISTANCE")), 0, S, 5, S)
    BY <2>2, RunsOn
  <2>5. QED
    BY <1>3, <2>3, <2>4, RunsOn DEF Transceiver!e1000_get_cable_length_m88_gen2
<1>4. CASE kind # "i210" /\ kind # "m88e1112"
  <2> SUFFICES ASSUME NEW S
               PROVE  Runs(kind, Transceiver!e1000_get_cable_length_m88_gen2, 0, S, 0, S)
    BY DEF Kept
  <2>1. kind \notin SelectsAlways /\ 7 \in 0 .. 255
    BY <1>1, <1>4
  <2>2. /\ Runs(kind, Transceiver!Save, 0, S, 0, S)
        /\ Runs(kind, Transceiver!Select(7), 0, S, 7, S)
        /\ Runs(kind, Transceiver!Distance, 7, S, 7, S)
        /\ Runs(kind, Transceiver!Restore, 7, S, 0, S)
    BY <2>1, SaveRuns, SelectRuns, DistanceKept DEF Kept
  <2>3. Runs(kind, Transceiver!Save \o Transceiver!Select(7) \o Transceiver!Distance,
             0, S, 7, S)
    BY <2>2, RunsOn
  <2>4. QED
    BY <1>4, <2>2, <2>3, RunsOn DEF Transceiver!e1000_get_cable_length_m88_gen2
<1>5. QED
  BY <1>2, <1>3, <1>4

LEMMA LengthIgpKept ==
    ASSUME kind = "igp_3"
    PROVE  Kept(kind, 0, Transceiver!e1000_get_cable_length_igp_2)
<1>1. kind # Start /\ kind \in SelectsAlways /\ 1 \in 0 .. 255
  BY DEF Start, SelectsAlways, Transceiver!SelectsAlways
<1> DEFINE agc(reg) == Transceiver!On(1, Transceiver!Read(reg))
                         \o Transceiver!Optionally(Transceiver!Fail)
<1>2. \A reg : Kept(kind, 0, agc(reg))
  BY <1>1, ReadKeptOn, EndKept, OptionallyKept, BothKept
<1> HIDE DEF agc
<1>3. Kept(kind, 0, agc("AGC_A") \o agc("AGC_B") \o agc("AGC_C") \o agc("AGC_D"))
  BY <1>2, BothKept
<1>4. QED
  BY <1>3 DEF agc, Transceiver!e1000_get_cable_length_igp_2

LEMMA LengthM88Kept ==
    ASSUME kind # Start
    PROVE  Kept(kind, 0, Transceiver!e1000_get_cable_length_m88)
BY ReadKept, BothKept, OptionallyKept, EndKept DEF Transceiver!e1000_get_cable_length_m88

LEMMA Length82577Kept ==
    ASSUME kind # Start
    PROVE  Kept(kind, 0, Transceiver!e1000_get_cable_length_82577)
BY ReadKept, BothKept, OptionallyKept, EndKept DEF Transceiver!e1000_get_cable_length_82577

LEMMA AtGigabitKept ==
    ASSUME kind # Start, NEW f, Kept(kind, 0, f)
    PROVE  Kept(kind, 0, Transceiver!AtGigabit(f))
BY ReadKept, BothKept, OptionallyKept DEF Transceiver!AtGigabit

LEMMA InfoM88Kept ==
    ASSUME kind # Start, kind # "igp_3"
    PROVE  Kept(kind, 0, Transceiver!e1000_get_phy_info_m88)
<1> DEFINE f == IF kind = "m88e1111" THEN Transceiver!e1000_get_cable_length_m88
                                     ELSE Transceiver!e1000_get_cable_length_m88_gen2
<1>1. Kept(kind, 0, f)
  BY LengthM88Kept, LengthM88Gen2Kept
<1> HIDE DEF f
<1>2. Kept(kind, 0, Transceiver!Optionally(Transceiver!Fail))
  BY EndKept, OptionallyKept
<1> DEFINE look == Transceiver!Optionally(Transceiver!Fail) \o Transceiver!HasLinkOnce
                     \o Transceiver!Optionally(Transceiver!Fail)
           status == look \o Transceiver!Read("SPEC_CTRL") \o Transceiver!e1000_check_polarity_m88
                          \o Transceiver!Read("SPEC_STATUS")
<1>3. Kept(kind, 0, look)
  BY <1>2, LinkOnceKept, BothKept
<1> HIDE DEF look
<1>4. Kept(kind, 0, status)
  BY <1>3, ReadKept, PolarityM88Kept, BothKept
<1> HIDE DEF status
<1>5. Kept(kind, 0, status \o Transceiver!AtGigabit(f))
  BY <1>1, <1>4, AtGigabitKept, BothKept
<1>6. QED
  BY <1>5 DEF f, look, status, Transceiver!e1000_get_phy_info_m88

LEMMA InfoIgpKept ==
    ASSUME kind = "igp_3"
    PROVE  Kept(kind, 0, Transceiver!e1000_get_phy_info_igp)
<1>1. kind # Start
  BY DEF Start
<1>2. Kept(kind, 0, Transceiver!Optionally(Transceiver!Fail))
  BY <1>1, EndKept, OptionallyKept
<1> DEFINE status == Transceiver!HasLinkOnce \o Transceiver!Optionally(Transceiver!Fail)
                       \o Transceiver!e1000_check_polarity_igp \o Transceiver!Read("PORT_STATUS")
<1>3. Kept(kind, 0, status)
  BY <1>1, <1>2, ReadKept, LinkOnceKept, PolarityIgpKept, BothKept
<1> HIDE DEF status
<1>4. Kept(kind, 0, status \o Transceiver!AtGigabit(Transceiver!e1000_get_cable_length_igp_2))
  BY <1>1, <1>3, LengthIgpKept, AtGigabitKept, BothKept
<1>5. QED
  BY <1>4 DEF status, Transceiver!e1000_get_phy_info_igp

LEMMA Info82577Kept ==
    ASSUME kind # Start
    PROVE  Kept(kind, 0, Transceiver!e1000_get_phy_info_82577)
<1>1. Kept(kind, 0, Transceiver!Optionally(Transceiver!Fail))
  BY EndKept, OptionallyKept
<1> DEFINE status == Transceiver!HasLinkOnce \o Transceiver!Optionally(Transceiver!Fail)
                       \o Transceiver!e1000_check_polarity_82577
                       \o Transceiver!Read("PHY_STATUS_2")
<1>2. Kept(kind, 0, status)
  BY <1>1, ReadKept, LinkOnceKept, Polarity82577Kept, BothKept
<1> HIDE DEF status
<1>3. Kept(kind, 0, status \o Transceiver!AtGigabit(Transceiver!e1000_get_cable_length_82577))
  BY <1>2, Length82577Kept, AtGigabitKept, BothKept
<1>4. QED
  BY <1>3 DEF status, Transceiver!e1000_get_phy_info_82577

LEMMA XmdioKept ==
    ASSUME kind # Start, NEW f, Kept(kind, 0, f)
    PROVE  Kept(kind, 0, Transceiver!__e1000_access_xmdio_reg(f))
BY WriteKept, BothKept DEF Transceiver!__e1000_access_xmdio_reg

LEMMA EeeKept ==
    ASSUME kind \in Sgmii
    PROVE  Kept(kind, 0, Transceiver!e1000_set_eee_i354)
<1> DEFINE r == Access("read", 0, "EEE_CTRL_1", "return")
           u == Access("update", 0, "EEE_CTRL_1", "return")
           page18 == Transceiver!Select(18)
                       \o Transceiver!On(18, Transceiver!Change("EEE_CTRL_1"))
                       \o Transceiver!Select(0)
<1>1. Transceiver!Change("EEE_CTRL_1") = <<r>> \o <<u>>
  BY Forms DEF Transceiver!Change
<1>3. /\ Transceiver!On(18, <<r>>) = <<Access("read", 18, "EEE_CTRL_1", "return")>>
      /\ Transceiver!On(18, <<u>>) = <<Access("update", 18, "EEE_CTRL_1", "return")>>
  BY OneOn
<1>4. 18 \in 0 .. 255 /\ 0 \in 0 .. 255 /\ "return" \in {"return", "skip"}
  OBVIOUS
<1>5. Kept(kind, 18, <<Access("read", 18, "EEE_CTRL_1", "return")>>
                       \o <<Access("update", 18, "EEE_CTRL_1", "return")>>)
  BY <1>4, SgmiiSelects, ChangeKeptOn
<1> HIDE DEF r, u, page18
<1>6. Transceiver!On(18, <<r>> \o <<u>>) = Transceiver!On(18, <<r>>) \o Transceiver!On(18, <<u>>)
  BY TwoOn
<1>7. Kept(kind, 18, Transceiver!On(18, Transceiver!Change("EEE_CTRL_1")))
  BY <1>1, <1>3, <1>5, <1>6
<1>8. Kept(kind, 0, page18)
  <2> USE DEF page18
  <2> SUFFICES ASSUME NEW S PROVE Runs(kind, page18, 0, S, 0, S)
    BY DEF Kept
  <2>1. /\ Runs(kind, Transceiver!Select(18), 0, S, 18, S)
        /\ Runs(kind, Transceiver!Select(0), 18, S, 0, S)
    BY <1>4, SgmiiSelects, SelectRuns
  <2>2. Runs(kind, Transceiver!On(18, Transceiver!Change("EEE_CTRL_1")), 18, S, 18, S)
    BY <1>7 DEF Kept
  <2>3. QED
    BY <2>1, <2>2, RunsOn
<1> HIDE DEF page18
<1>9. Kept(kind, 0, Transceiver!Optionally(page18)
                      \o Transceiver!__e1000_access_xmdio_reg(Transceiver!Read("MMDAAD"))
                      \o Transceiver!__e1000_access_xmdio_reg(Transceiver!Write("MMDAAD")))
  BY <1>8, SgmiiSelects, OptionallyKept, XmdioKept, ReadKept, WriteKept, BothKept
<1>10. QED
  BY <1>9 DEF page18, Transceiver!e1000_set_eee_i354

LEMMA EeeStatusKept ==
    ASSUME kind # Start
    PROVE  Kept(kind, 0, Transceiver!e1000_get_eee_status_i354)
BY ReadKept, XmdioKept DEF Transceiver!e1000_get_eee_status_i354

(* Every call of the driver. *)
LEMMA CallsKept ==
    ASSUME kind # Start, NEW f,
           f \in Transceiver!Calls \cup {Transceiver!e1000_check_for_copper_link_generic}
    PROVE  Kept(kind, 0, f)
<1>1. CASE f = Transceiver!e1000_check_for_copper_link_generic
  BY <1>1, CheckKept
<1>2. CASE f = Transceiver!e1000_init_phy_params_82575
  BY <1>2, InitParamsKept
<1>3. CASE f = Transceiver!e1000_setup_copper_link_82575
  BY <1>3, SetupKept
<1>4. CASE f = Transceiver!e1000_power_up_phy_copper
  BY <1>4, PowerUpKept
<1>5. CASE f = Transceiver!e1000_power_down_phy_copper
  BY <1>5, PowerDownKept
<1>6. CASE f \in {Transceiver!e1000_get_phy_info_igp, Transceiver!e1000_set_d0_lplu_state_82575,
                  Transceiver!e1000_set_d3_lplu_state_generic} /\ kind = "igp_3"
  BY <1>6, InfoIgpKept, LpluKept, SleepLpluKept
<1>7. CASE f = Transceiver!e1000_get_phy_info_82577
  BY <1>7, Info82577Kept
<1>8. CASE f = Transceiver!e1000_get_phy_info_m88 /\ kind # "igp_3"
  BY <1>8, InfoM88Kept
<1>9. CASE f \in {Transceiver!e1000_set_eee_i354, Transceiver!e1000_get_eee_status_i354}
           /\ kind \in {"m88e1512", "m88e1543"}
  BY <1>9, EeeKept, EeeStatusKept DEF Sgmii, Transceiver!Sgmii
<1>10. QED
  BY <1>1, <1>2, <1>3, <1>4, <1>5, <1>6, <1>7, <1>8, <1>9 DEF Transceiver!Calls, Start
-----------------------------------------------------------------------------
(* What a thread has to do: sequences of whatever steps, put before others. *)
IsProgram(s) == \E A : s \in Seq(A)
Then(a, s) == <<a>> \o s

LEMMA ThenIs ==
    ASSUME NEW s, IsProgram(s), NEW a
    PROVE  /\ IsProgram(Then(a, s)) /\ Then(a, s) # <<>>
           /\ Head(Then(a, s)) = a /\ Tail(Then(a, s)) = s
           /\ Len(Then(a, s)) = Len(s) + 1 /\ Then(a, s)[1] = a
           /\ \A i \in 1 .. Len(s) : Then(a, s)[i + 1] = s[i]
<1>1. PICK A : s \in Seq(A)
  BY DEF IsProgram
<1> DEFINE B == A \cup {a}
<1>2. A \subseteq B /\ {a} \subseteq B
  OBVIOUS
<1>3. <<a>> \in Seq({a}) /\ <<a>> # <<>> /\ Head(<<a>>) = a /\ Tail(<<a>>) = <<>>
      /\ Len(<<a>>) = 1 /\ <<a>>[1] = a
  OBVIOUS
<1> HIDE DEF B
<1>4. s \in Seq(B) /\ <<a>> \in Seq(B)
  BY <1>1, <1>2, <1>3
<1>5. /\ <<a>> \o s \in Seq(B) /\ <<a>> \o s # <<>>
      /\ Head(<<a>> \o s) = a /\ Tail(<<a>> \o s) = <<>> \o s
  BY <1>3, <1>4, HeadTailOfConcat
<1>6. <<>> \o s = s
  BY <1>4, ConcatEmptySeq
<1>7. /\ Len(<<a>> \o s) = 1 + Len(s)
      /\ \A i \in 1 .. (1 + Len(s)) :
           (<<a>> \o s)[i] = IF i <= 1 THEN <<a>>[i] ELSE s[i - 1]
  BY <1>3, <1>4, ConcatProperties
<1>8. Len(s) \in Nat
  BY <1>4, LenProperties
<1>9. Len(<<a>> \o s) = Len(s) + 1 /\ (<<a>> \o s)[1] = a
  BY <1>3, <1>7, <1>8
<1>10. ASSUME NEW i \in 1 .. Len(s)
       PROVE  (<<a>> \o s)[i + 1] = s[i]
  BY <1>7, <1>8
<1>11. IsProgram(<<a>> \o s)
  BY <1>5 DEF IsProgram
<1>12. QED
  BY <1>5, <1>6, <1>9, <1>10, <1>11 DEF Then

LEMMA EmptyIsProgram == IsProgram(<<>>)
<1>1. <<>> \in Seq({})
  OBVIOUS
<1>2. QED
  BY <1>1 DEF IsProgram

LEMMA BothProgram ==
    ASSUME NEW f, NEW g, IsProgram(f), IsProgram(g)
    PROVE  IsProgram(f \o g)
<1>1. PICK A, B : f \in Seq(A) /\ g \in Seq(B)
  BY DEF IsProgram
<1>2. f \in Seq(A \cup B) /\ g \in Seq(A \cup B)
  BY <1>1
<1>3. f \o g \in Seq(A \cup B)
  BY <1>2, ConcatProperties
<1>4. QED
  BY <1>3 DEF IsProgram

LEMMA Associative ==
    ASSUME NEW f, NEW g, NEW h, IsProgram(f), IsProgram(g), IsProgram(h)
    PROVE  (f \o g) \o h = f \o (g \o h)
<1>1. PICK A, B, C : f \in Seq(A) /\ g \in Seq(B) /\ h \in Seq(C)
  BY DEF IsProgram
<1> DEFINE D == A \cup B \cup C
<1>2. A \subseteq D /\ B \subseteq D /\ C \subseteq D
  OBVIOUS
<1> HIDE DEF D
<1>3. f \in Seq(D) /\ g \in Seq(D) /\ h \in Seq(D)
  BY <1>1, <1>2
<1>4. QED
  BY <1>3, ConcatAssociative

LEMMA FirstOfBoth ==
    ASSUME NEW f, NEW g, IsProgram(f), IsProgram(g), f # <<>>
    PROVE  f \o g # <<>> /\ Head(f \o g) = Head(f) /\ Tail(f \o g) = Tail(f) \o g
<1>1. PICK A, B : f \in Seq(A) /\ g \in Seq(B)
  BY DEF IsProgram
<1>2. f \in Seq(A \cup B) /\ g \in Seq(A \cup B)
  BY <1>1
<1>3. QED
  BY <1>2, HeadTailOfConcat

LEMMA NothingBefore ==
    ASSUME NEW g, IsProgram(g)
    PROVE  <<>> \o g = g /\ g \o <<>> = g
BY ConcatEmptySeq DEF IsProgram

(* What comes after an error: the release, and what follows it.            *)
LEMMA FromUnlockIs ==
    ASSUME NEW s, IsProgram(s), NEW n \in 1 .. Len(s), s[n].op = "unlock",
           \A j \in 1 .. (n - 1) : s[j].op # "unlock"
    PROVE  Transceiver!FromUnlock(s) = SubSeq(s, n, Len(s))
<1> DEFINE P(i) == s[i].op = "unlock" /\ \A j \in 1 .. (i - 1) : s[j].op # "unlock"
           c == CHOOSE i \in DOMAIN s : P(i)
<1>1. DOMAIN s = 1 .. Len(s) /\ Len(s) \in Nat
  BY LenProperties DEF IsProgram
<1>2. n \in DOMAIN s /\ P(n)
  BY <1>1
<1>3. c \in DOMAIN s /\ P(c)
  BY <1>2
<1>4. c = n
  <2>1. ~(c < n)
    BY <1>1, <1>2, <1>3
  <2>2. ~(n < c)
    BY <1>1, <1>2, <1>3
  <2>3. QED
    BY <1>1, <1>3, <2>1, <2>2
<1>5. QED
  BY <1>4 DEF Transceiver!FromUnlock

LEMMA FromUnlockOne ==
    ASSUME NEW r, IsProgram(r), NEW a, a.op # "unlock", NEW u, u.op = "unlock"
    PROVE  Transceiver!FromUnlock(Then(a, Then(u, r))) = Then(u, r)
<1> DEFINE t == Then(u, r)
           s == Then(a, t)
<1>1. IsProgram(t) /\ t[1] = u /\ Len(t) = Len(r) + 1
  BY ThenIs
<1>2. Len(r) \in Nat
  BY LenProperties DEF IsProgram
<1> HIDE DEF t
<1>3. /\ IsProgram(s) /\ s # <<>> /\ Tail(s) = t /\ s[1] = a /\ Len(s) = Len(t) + 1
      /\ \A i \in 1 .. Len(t) : s[i + 1] = t[i]
  BY <1>1, ThenIs
<1> HIDE DEF s
<1>4. s[2] = u
  <2>1. 1 \in 1 .. Len(t) /\ 1 + 1 = 2
    BY <1>1, <1>2
  <2>2. QED
    BY <1>1, <1>3, <2>1
<1>5. 2 \in 1 .. Len(s) /\ \A j \in 1 .. (2 - 1) : s[j].op # "unlock"
  BY <1>1, <1>2, <1>3
<1>6. Transceiver!FromUnlock(s) = SubSeq(s, 2, Len(s))
  BY <1>3, <1>4, <1>5, FromUnlockIs
<1>7. Tail(s) = SubSeq(s, 2, Len(s))
  BY <1>3, TailIsSubSeq DEF IsProgram
<1>8. QED
  BY <1>3, <1>6, <1>7 DEF s, t

LEMMA FromUnlockTwo ==
    ASSUME NEW r, IsProgram(r), NEW a, a.op # "unlock", NEW b, b.op # "unlock",
           NEW u, u.op = "unlock"
    PROVE  Transceiver!FromUnlock(Then(a, Then(b, Then(u, r)))) = Then(u, r)
<1> DEFINE v == Then(u, r)
           t == Then(b, v)
           s == Then(a, t)
<1>1. IsProgram(v) /\ v[1] = u /\ Len(v) = Len(r) + 1
  BY ThenIs
<1>2. Len(r) \in Nat
  BY LenProperties DEF IsProgram
<1> HIDE DEF v
<1>3. /\ IsProgram(t) /\ t # <<>> /\ Tail(t) = v /\ t[1] = b /\ Len(t) = Len(v) + 1
      /\ \A i \in 1 .. Len(v) : t[i + 1] = v[i]
  BY <1>1, ThenIs
<1> HIDE DEF t
<1>4. /\ IsProgram(s) /\ s # <<>> /\ Tail(s) = t /\ s[1] = a /\ Len(s) = Len(t) + 1
      /\ \A i \in 1 .. Len(t) : s[i + 1] = t[i]
  BY <1>3, ThenIs
<1> HIDE DEF s
<1>5. s[2] = b /\ s[3] = u
  <2>1. 1 \in 1 .. Len(t) /\ 2 \in 1 .. Len(t) /\ 1 \in 1 .. Len(v) /\ 1 + 1 = 2 /\ 2 + 1 = 3
    BY <1>1, <1>2, <1>3
  <2>2. t[2] = u
    BY <1>1, <1>3, <2>1
  <2>3. QED
    BY <1>3, <1>4, <2>1, <2>2
<1>6. 3 \in 1 .. Len(s) /\ \A j \in 1 .. (3 - 1) : s[j].op # "unlock"
  <2>1. 3 \in 1 .. Len(s)
    BY <1>1, <1>2, <1>3, <1>4
  <2>2. \A j \in 1 .. (3 - 1) : j = 1 \/ j = 2
    OBVIOUS
  <2>3. QED
    BY <1>4, <1>5, <2>1, <2>2
<1>7. Transceiver!FromUnlock(s) = SubSeq(s, 3, Len(s))
  BY <1>4, <1>5, <1>6, FromUnlockIs
<1>8. SubSeq(s, 3, Len(s)) = v
  <2>1. Tail(s) = SubSeq(s, 2, Len(s))
    BY <1>4, TailIsSubSeq DEF IsProgram
  <2>2. Tail(SubSeq(s, 2, Len(s))) = SubSeq(s, 2 + 1, Len(s))
    <3>1. PICK A : s \in Seq(A)
      BY <1>4 DEF IsProgram
    <3>2. 2 \in 1 .. Len(s) /\ Len(s) \in 2 .. Len(s)
      BY <1>1, <1>2, <1>3, <1>4
    <3>3. QED
      BY <3>1, <3>2, HeadTailOfSubSeq
  <2>3. 2 + 1 = 3
    OBVIOUS
  <2>4. QED
    BY <1>3, <1>4, <2>1, <2>2, <2>3
<1>9. QED
  BY <1>7, <1>8 DEF s, t, v

(* What a program that runs may do next. *)
LEMMA RunsProgram ==
    ASSUME NEW k, NEW f, NEW p, NEW S, NEW q, NEW T, Runs(k, f, p, S, q, T)
    PROVE  IsProgram(f) /\ (f = <<>> => p = q)
<1>1. PICK R, A : Closed(k, R, A) /\ <<f, p, S, q, T>> \in R
  BY DEF Runs
<1>2. RunIn(k, R, A, f, p, S, q, T)
  BY <1>1, RunUnfolds
<1>3. QED
  BY <1>2 DEF RunIn, IsProgram

LEMMA RunsNext ==
    ASSUME NEW k, NEW f, NEW p, NEW S, NEW q, NEW T, Runs(k, f, p, S, q, T), f # <<>>
    PROVE  \/ /\ Plain(k, Head(f))
              /\ \E p1, S1 : /\ Allowed(k, Head(f), p, S, p1, S1)
                             /\ Runs(k, Tail(f), p1, S1, q, T)
           \/ /\ Head(f).op = "either"
              /\ \A g \in Head(f).of : /\ IsProgram(g)
                                       /\ \E X : /\ X \subseteq S
                                                /\ Runs(k, g \o Tail(f), p, X, q, T)
<1>1. PICK R, A : Closed(k, R, A) /\ <<f, p, S, q, T>> \in R
  BY DEF Runs
<1>2. RunIn(k, R, A, f, p, S, q, T)
  BY <1>1, RunUnfolds
<1>3. PICK p1, S1 : StepIn(k, R, Head(f), p, S, p1, S1) /\ <<Tail(f), p1, S1, q, T>> \in R
  BY <1>2 DEF RunIn
<1>4. Runs(k, Tail(f), p1, S1, q, T)
  BY <1>1, <1>3 DEF Runs
<1>5. CASE Plain(k, Head(f)) /\ Allowed(k, Head(f), p, S, p1, S1)
  BY <1>4, <1>5
<1>6. CASE Head(f).op = "either" /\ \A g \in Head(f).of :
             \E X : X \subseteq S /\ <<g, p, X, p1, S1>> \in R
  <2>1. ASSUME NEW g \in Head(f).of
        PROVE  IsProgram(g) /\ \E X : X \subseteq S /\ Runs(k, g \o Tail(f), p, X, q, T)
    <3>1. PICK X : X \subseteq S /\ <<g, p, X, p1, S1>> \in R
      BY <1>6
    <3>2. Runs(k, g, p, X, p1, S1)
      BY <1>1, <3>1 DEF Runs
    <3>3. Runs(k, g \o Tail(f), p, X, q, T)
      BY <1>4, <3>2, RunsOn
    <3>4. QED
      BY <3>1, <3>2, <3>3, RunsProgram
  <2>2. QED
    BY <1>6, <2>1
<1>7. QED
  BY <1>3, <1>5, <1>6 DEF StepIn
-----------------------------------------------------------------------------
(* The states of the PHY and of its users: outside of the semaphore, a     *)
(* program is left that runs from the page selected and what has been      *)
(* read; inside, the rest of an access comes before.                       *)
Threads == Transceiver!Threads
Accesses == Transceiver!Accesses
Unlock == Transceiver!Unlock
Raw(a) == Transceiver!Raw(a)
PageSelect(a) == Transceiver!PageSelect(a)

Current == IF kind \in SelectsAlways THEN 0 ELSE page
Knows(t, p, S) ==
    /\ ~left /\ ~(kind = Start /\ blind[t]) => p = Current
    /\ ~left /\ ~blind[t] => S \subseteq seen[t]
Goes(t, f) == \E p, S, T : Knows(t, p, S) /\ Runs(kind, f, p, S, 0, T)
Accessing(t, a, rest) ==
    /\ a.op \in Accesses /\ Plain(kind, a)
    /\ \E p, S, q, X, T : /\ Knows(t, p, S) /\ Allowed(kind, a, p, S, q, X)
                          /\ Runs(kind, rest, q, X, 0, T)

Outside(t) == kind # Start /\ holder # t /\ Goes(t, todo[t])
AtRelease(t) ==
    kind # Start /\ holder = t /\ \E rest : todo[t] = Then(Unlock, rest) /\ Goes(t, rest)
AtTransfer(t) ==
    /\ kind # Start /\ holder = t
    /\ \E a, rest : /\ todo[t] = Then(Raw(a), Then(Unlock, rest)) /\ Accessing(t, a, rest)
                    /\ kind \in SelectsAlways /\ a.op # "reset" /\ Matters(kind, a)
                         => page = a.page
AtSelect(t) ==
    /\ kind \in SelectsAlways /\ holder = t
    /\ \E a, rest : /\ todo[t] = Then(PageSelect(a), Then(Raw(a), Then(Unlock, rest)))
                    /\ Accessing(t, a, rest) /\ a.op # "reset"

(* The function that holds the semaphore throughout. *)
LockNext == [Transceiver!Lock EXCEPT !.onError = "next"]
PllIdle(t) ==
    kind = Start /\ holder # t /\ todo[t] = <<>> /\ (~left /\ ~blind[t] => page = 0)
PllBegins(t) ==
    /\ kind = Start /\ holder # t /\ ~blind[t]
    /\ \E r : todo[t] = Then(LockNext, r \o <<Unlock>>) /\ Goes(t, r)
PllInside(t) ==
    /\ kind = Start /\ (holder = t \/ blind[t])
    /\ \E r : todo[t] = r \o <<Unlock>> /\ Goes(t, r)

Phase(t) ==
    \/ Outside(t) \/ AtRelease(t) \/ AtTransfer(t) \/ AtSelect(t)
    \/ PllIdle(t) \/ PllBegins(t) \/ PllInside(t)

PhyTypes ==
    /\ kind \in Transceiver!Kinds /\ holder \in Threads \cup {"none"}
    /\ page \in 0 .. 255 /\ saved \in 0 .. 255 /\ left \in BOOLEAN
    /\ todo = [t \in Threads |-> todo[t]] /\ seen = [t \in Threads |-> seen[t]]
    /\ blind \in [Threads -> BOOLEAN]
SavedZero == ~left /\ kind \notin SelectsAlways => saved = 0
Active(t) == kind \in SelectsAlways \/ t = "caller"
PhyInvariant ==
    /\ PhyTypes /\ SavedZero
    /\ \A t \in Threads : /\ Active(t) => Phase(t)
                          /\ ~Active(t) => todo[t] = <<>> /\ holder # t

PhyStep(t) ==
    \/ Transceiver!Call(t) \/ Transceiver!Decide(t) \/ Transceiver!GiveUp(t)
    \/ Transceiver!e1000_acquire_phy_base(t) \/ Transceiver!AcquireFails(t)
    \/ Transceiver!e1000_release_phy_base(t) \/ Transceiver!Transfer(t)
    \/ Transceiver!TransferFails(t)
-----------------------------------------------------------------------------
LEMMA OpsAllowed ==
    ASSUME NEW k, NEW a, NEW p, NEW S, NEW q, NEW T, Allowed(k, a, p, S, q, T)
    PROVE  \/ a.op \in Accesses
           \/ a.op \in {"fail", "leave"} /\ k # Start
BY DEF Allowed, Accesses, Transceiver!Accesses

LEMMA OpsDiffer ==
    /\ "either" \notin Accesses /\ "lock" \notin Accesses /\ "unlock" \notin Accesses
    /\ "fail" \notin Accesses /\ "leave" \notin Accesses /\ "select" \in Accesses
BY DEF Accesses, Transceiver!Accesses

LEMMA UnlockIs == Unlock.op = "unlock" /\ Unlock.raw = TRUE
BY DEF Unlock, Transceiver!Unlock, Transceiver!Step

LEMMA LockIs == LockNext.op = "lock" /\ LockNext.raw = FALSE /\ LockNext.onError = "next"
BY DEF LockNext, Transceiver!Lock, Transceiver!Step

LEMMA PlainIs ==
    ASSUME NEW k, NEW a, Plain(k, a)
    PROVE  /\ k # Start => a.raw = FALSE /\ a.onError \in {"return", "skip"}
           /\ k = Start => a.raw = TRUE /\ a.onError = "next"
           /\ a.page \in 0 .. 255
<1>1. PICK r : r = (k = Start)
  OBVIOUS
<1>2. a = [op |-> a.op, page |-> a.page, reg |-> a.reg, raw |-> r, onError |-> a.onError,
           of |-> a.of]
  BY <1>1 DEF Plain
<1>3. a.raw = r
  BY <1>2
<1>4. (k # Start => r = FALSE) /\ (k = Start => r = TRUE)
  BY <1>1
<1>5. QED
  BY <1>3, <1>4 DEF Plain

LEMMA RawIs ==
    ASSUME NEW k, NEW a, Plain(k, a)
    PROVE  /\ Raw(a).op = a.op /\ Raw(a).page = a.page /\ Raw(a).reg = a.reg
           /\ Raw(a).raw = TRUE /\ Raw(a).onError = a.onError
           /\ PageSelect(a).op = "select" /\ PageSelect(a).page = a.page
           /\ PageSelect(a).raw = TRUE /\ PageSelect(a).onError = a.onError
<1>1. PICK r : r = (k = Start)
  OBVIOUS
<1>2. a = [op |-> a.op, page |-> a.page, reg |-> a.reg, raw |-> r, onError |-> a.onError,
           of |-> a.of]
  BY <1>1 DEF Plain
<1>3. DOMAIN a = {"op", "page", "reg", "raw", "onError", "of"}
  BY <1>2
<1>4. /\ Raw(a).op = a.op /\ Raw(a).page = a.page /\ Raw(a).reg = a.reg
      /\ Raw(a).raw = TRUE /\ Raw(a).onError = a.onError
  BY <1>3 DEF Raw, Transceiver!Raw
<1>5. DOMAIN Raw(a) = {"op", "page", "reg", "raw", "onError", "of"}
  BY <1>3 DEF Raw, Transceiver!Raw
<1>6. /\ PageSelect(a).op = "select" /\ PageSelect(a).page = Raw(a).page
      /\ PageSelect(a).raw = Raw(a).raw /\ PageSelect(a).onError = Raw(a).onError
  BY <1>5 DEF Raw, PageSelect, Transceiver!PageSelect
<1>7. QED
  BY <1>4, <1>6

(* What every step leaves alone, and what the steps of the others leave    *)
(* alone for a thread that is inside or outside of the semaphore.          *)
LEMMA Frame ==
    ASSUME PhyTypes, NEW t \in Threads, PhyStep(t)
    PROVE  /\ kind' = kind
           /\ todo' = [u \in Threads |-> todo'[u]] /\ seen' = [u \in Threads |-> seen'[u]]
           /\ blind' \in [Threads -> BOOLEAN] /\ left' \in BOOLEAN
           /\ \A u \in Threads \ {t} : /\ todo'[u] = todo[u] /\ seen'[u] = seen[u]
                                       /\ blind'[u] = blind[u]
           /\ left => left'
           /\ kind \in SelectsAlways => left' = left
           /\ holder' \in {holder, t, "none"}
           /\ holder' = t /\ holder # t => holder = "none"
           /\ holder' # holder /\ holder' = "none" => Transceiver!Now(t, {"unlock"})
           /\ page' # page \/ saved' # saved => Transceiver!Transferring(t)
<1>1. CASE Transceiver!Call(t)
  BY <1>1 DEF PhyTypes, Threads, Transceiver!Call
<1>2. CASE Transceiver!Decide(t)
  BY <1>2 DEF PhyTypes, Threads, Transceiver!Decide
<1>3. CASE Transceiver!GiveUp(t)
  BY <1>3 DEF PhyTypes, Threads, Transceiver!GiveUp, Transceiver!Ends, SelectsAlways
<1>4. CASE Transceiver!e1000_acquire_phy_base(t)
  BY <1>4 DEF PhyTypes, Threads, Transceiver!e1000_acquire_phy_base
<1>5. CASE Transceiver!AcquireFails(t)
  <2>1. UNCHANGED <<kind, holder, page, saved, seen>>
    BY <1>5 DEF Transceiver!AcquireFails
  <2>2. CASE Head(todo[t]).onError = "return"
    <3>1. /\ todo' = [todo EXCEPT ![t] = <<>>] /\ blind' = blind
          /\ left' = (left \/ (kind \notin SelectsAlways /\ page # 0))
      BY <1>5, <2>2 DEF Transceiver!AcquireFails, Transceiver!Ends, SelectsAlways
    <3>2. QED
      BY <2>1, <3>1 DEF PhyTypes, Threads
  <2>3. CASE Head(todo[t]).onError # "return"
    <3>1. /\ todo' = [todo EXCEPT ![t] = Tail(@)] /\ blind' = [blind EXCEPT ![t] = TRUE]
          /\ left' = left
      BY <1>5, <2>3 DEF Transceiver!AcquireFails
    <3>2. QED
      BY <2>1, <3>1 DEF PhyTypes, Threads
  <2>4. QED
    BY <2>2, <2>3
<1>6. CASE Transceiver!e1000_release_phy_base(t)
  <2>1. /\ Transceiver!Now(t, {"unlock"}) /\ holder' = "none"
        /\ todo' = [todo EXCEPT ![t] = Tail(@)]
        /\ UNCHANGED <<kind, page, saved, seen, blind, left>>
    BY <1>6 DEF Transceiver!e1000_release_phy_base
  <2>2. holder' # t
    BY <2>1 DEF Threads, Transceiver!Threads
  <2>3. QED
    BY <2>1, <2>2 DEF PhyTypes, Threads
<1>7. CASE Transceiver!Transfer(t)
  BY <1>7 DEF PhyTypes, Threads, Transceiver!Transfer
<1>8. CASE Transceiver!TransferFails(t)
  BY <1>8 DEF PhyTypes, Threads, Transceiver!TransferFails
<1>9. QED
  BY <1>1, <1>2, <1>3, <1>4, <1>5, <1>6, <1>7, <1>8 DEF PhyStep

LEMMA TypesStay ==
    ASSUME PhyTypes, NEW t \in Threads, PhyStep(t),
           Transceiver!Transferring(t) => Head(todo[t]).page \in 0 .. 255
    PROVE  PhyTypes'
<1>1. /\ kind' = kind
      /\ todo' = [u \in Threads |-> todo'[u]] /\ seen' = [u \in Threads |-> seen'[u]]
      /\ blind' \in [Threads -> BOOLEAN] /\ left' \in BOOLEAN
      /\ holder' \in {holder, t, "none"}
      /\ page' # page \/ saved' # saved => Transceiver!Transferring(t)
  BY Frame
<1>2. page' \in 0 .. 255 /\ saved' \in 0 .. 255
  <2>1. CASE Transceiver!Transfer(t)
    BY <2>1 DEF PhyTypes, Transceiver!Transfer
  <2>2. CASE ~Transceiver!Transfer(t)
    <3>1. page' = page /\ saved' = saved
      BY <2>2 DEF PhyStep, Transceiver!Call, Transceiver!Decide, Transceiver!GiveUp,
             Transceiver!e1000_acquire_phy_base, Transceiver!AcquireFails,
             Transceiver!e1000_release_phy_base, Transceiver!TransferFails
    <3>2. QED
      BY <3>1 DEF PhyTypes
  <2>3. QED
    BY <2>1, <2>2
<1>3. QED
  BY <1>1, <1>2 DEF PhyTypes
-----------------------------------------------------------------------------
(* What comes first in every phase. *)
Foremost(t) == Head(todo[t])

LEMMA ProgramLeft ==
    ASSUME NEW t, NEW f, Goes(t, f)
    PROVE  IsProgram(f)
BY RunsProgram DEF Goes

LEMMA OutsideFirst ==
    ASSUME NEW t, Outside(t), todo[t] # <<>>
    PROVE  \/ Foremost(t).op = "either"
           \/ Foremost(t).op \in Accesses \cup {"fail", "leave"} /\ Foremost(t).raw = FALSE
<1>1. PICK p, S, T : Runs(kind, todo[t], p, S, 0, T)
  BY DEF Outside, Goes
<1>2. kind # Start
  BY DEF Outside
<1>3. CASE Foremost(t).op = "either"
  BY <1>3
<1>4. ASSUME NEW p1, NEW S1, Plain(kind, Foremost(t)), Allowed(kind, Foremost(t), p, S, p1, S1)
      PROVE  Foremost(t).op \in Accesses \cup {"fail", "leave"} /\ Foremost(t).raw = FALSE
  BY <1>2, <1>4, OpsAllowed, PlainIs
<1>5. QED
  BY <1>1, <1>3, <1>4, RunsNext DEF Foremost

LEMMA ReleaseFirst ==
    ASSUME NEW t, AtRelease(t)
    PROVE  todo[t] # <<>> /\ Foremost(t) = Unlock
BY ProgramLeft, ThenIs DEF AtRelease, Foremost

LEMMA AccessingIs ==
    ASSUME NEW t, NEW a, NEW rest, Accessing(t, a, rest)
    PROVE  /\ a.op \in Accesses /\ a.page \in 0 .. 255 /\ IsProgram(rest)
           /\ IsProgram(Then(Unlock, rest)) /\ IsProgram(Then(Raw(a), Then(Unlock, rest)))
<1>1. IsProgram(rest)
  BY RunsProgram DEF Accessing
<1>2. QED
  BY <1>1, ThenIs, PlainIs DEF Accessing

LEMMA TransferFirst ==
    ASSUME NEW t, AtTransfer(t)
    PROVE  todo[t] # <<>> /\ Foremost(t).op \in Accesses /\ Foremost(t).raw = TRUE
           /\ Foremost(t).page \in 0 .. 255
<1>1. PICK a, rest : todo[t] = Then(Raw(a), Then(Unlock, rest)) /\ Accessing(t, a, rest)
  BY DEF AtTransfer
<1>2. IsProgram(Then(Unlock, rest)) /\ a.op \in Accesses /\ a.page \in 0 .. 255
  BY <1>1, AccessingIs
<1>3. todo[t] # <<>> /\ Foremost(t) = Raw(a)
  BY <1>1, <1>2, ThenIs DEF Foremost
<1>4. Raw(a).op = a.op /\ Raw(a).raw = TRUE /\ Raw(a).page = a.page
  BY <1>1, RawIs DEF Accessing
<1>5. QED
  BY <1>2, <1>3, <1>4

LEMMA SelectFirst ==
    ASSUME NEW t, AtSelect(t)
    PROVE  todo[t] # <<>> /\ Foremost(t).op = "select" /\ Foremost(t).raw = TRUE
           /\ Foremost(t).page \in 0 .. 255
<1>1. PICK a, rest : /\ todo[t] = Then(PageSelect(a), Then(Raw(a), Then(Unlock, rest)))
                     /\ Accessing(t, a, rest)
  BY DEF AtSelect
<1>2. IsProgram(Then(Raw(a), Then(Unlock, rest))) /\ a.page \in 0 .. 255
  BY <1>1, AccessingIs
<1>3. todo[t] # <<>> /\ Foremost(t) = PageSelect(a)
  BY <1>1, <1>2, ThenIs DEF Foremost
<1>4. PageSelect(a).op = "select" /\ PageSelect(a).raw = TRUE /\ PageSelect(a).page = a.page
  BY <1>1, RawIs DEF Accessing
<1>5. QED
  BY <1>2, <1>3, <1>4

LEMMA BeginsFirst ==
    ASSUME NEW t, PllBegins(t)
    PROVE  todo[t] # <<>> /\ Foremost(t) = LockNext
<1>1. PICK r : todo[t] = Then(LockNext, r \o <<Unlock>>) /\ Goes(t, r)
  BY DEF PllBegins
<1>2. IsProgram(r \o <<Unlock>>)
  <2>1. IsProgram(<<Unlock>>)
    <3>1. <<Unlock>> \in Seq({Unlock})
      OBVIOUS
    <3>2. QED
      BY <3>1 DEF IsProgram
  <2>2. QED
    BY <1>1, <2>1, ProgramLeft, BothProgram
<1>3. QED
  BY <1>1, <1>2, ThenIs DEF Foremost

LEMMA OneProgram == IsProgram(<<Unlock>>) /\ <<Unlock>> = Then(Unlock, <<>>)
<1>1. <<Unlock>> \in Seq({Unlock})
  OBVIOUS
<1>2. IsProgram(<<Unlock>>)
  BY <1>1 DEF IsProgram
<1>3. QED
  BY <1>2, NothingBefore DEF Then

LEMMA InsideFirst ==
    ASSUME NEW t, PllInside(t)
    PROVE  /\ todo[t] # <<>>
           /\ \/ Foremost(t) = Unlock
              \/ Foremost(t).op = "either"
              \/ /\ Foremost(t).op \in Accesses /\ Foremost(t).raw = TRUE
                 /\ Foremost(t).page \in 0 .. 255 /\ Foremost(t).onError = "next"
<1>1. PICK r : todo[t] = r \o <<Unlock>> /\ Goes(t, r)
  BY DEF PllInside
<1>2. IsProgram(r) /\ kind = Start
  BY <1>1, ProgramLeft DEF PllInside
<1>3. CASE r = <<>>
  <2>1. todo[t] = <<Unlock>>
    BY <1>1, <1>3, OneProgram, NothingBefore
  <2>2. <<Unlock>> # <<>> /\ Head(<<Unlock>>) = Unlock
    OBVIOUS
  <2>3. QED
    BY <2>1, <2>2 DEF Foremost
<1>4. CASE r # <<>>
  <2>1. todo[t] # <<>> /\ Foremost(t) = Head(r)
    <3> DEFINE end == <<Unlock>>
    <3>1. IsProgram(end)
      BY OneProgram
    <3> HIDE DEF end
    <3>2. r \o end # <<>> /\ Head(r \o end) = Head(r) /\ Tail(r \o end) = Tail(r) \o end
      BY <1>2, <1>4, <3>1, FirstOfBoth
    <3>3. QED
      BY <1>1, <3>2 DEF end, Foremost
  <2>2. PICK p, S, T : Runs(kind, r, p, S, 0, T)
    BY <1>1 DEF Goes
  <2>3. CASE Head(r).op = "either"
    BY <2>1, <2>3
  <2>4. ASSUME NEW p1, NEW S1, Plain(kind, Head(r)), Allowed(kind, Head(r), p, S, p1, S1)
        PROVE  /\ Head(r).op \in Accesses /\ Head(r).raw = TRUE
               /\ Head(r).page \in 0 .. 255 /\ Head(r).onError = "next"
    BY <1>2, <2>4, OpsAllowed, PlainIs
  <2>5. QED
    BY <1>4, <2>1, <2>2, <2>3, <2>4, RunsNext
<1>5. QED
  BY <1>3, <1>4

(* What the phases say of the semaphore. *)
Safe(t) ==
    /\ holder = t => todo[t] # <<>>
    /\ Transceiver!Transferring(t) \/ Transceiver!Now(t, {"unlock"})
         => holder = t \/ (blind[t] /\ kind = Start)
    /\ Transceiver!Now(t, {"fail"}) \/ Transceiver!NeedsLock(t) => holder # t
    /\ Transceiver!Transferring(t) => Foremost(t).page \in 0 .. 255

LEMMA PhaseSafe ==
    ASSUME NEW t, Phase(t)
    PROVE  Safe(t)
<1> USE OpsDiffer
<1>1. CASE Outside(t)
  <2>1. holder # t
    BY <1>1 DEF Outside
  <2>2. ~Transceiver!Transferring(t) /\ ~Transceiver!Now(t, {"unlock"})
    BY <1>1, OutsideFirst DEF Transceiver!Transferring, Transceiver!Now, Accesses, Foremost
  <2>3. QED
    BY <2>1, <2>2 DEF Safe
<1>2. CASE AtRelease(t)
  <2>1. holder = t /\ todo[t] # <<>> /\ Foremost(t).op = "unlock" /\ Foremost(t).raw = TRUE
    BY <1>2, ReleaseFirst, UnlockIs DEF AtRelease
  <2>2. QED
    BY <2>1 DEF Safe, Foremost, Transceiver!Transferring, Transceiver!Now, Transceiver!NeedsLock,
               Accesses
<1>3. CASE AtTransfer(t)
  <2>1. holder = t /\ todo[t] # <<>> /\ Foremost(t).op \in Accesses /\ Foremost(t).raw = TRUE
        /\ Foremost(t).page \in 0 .. 255
    BY <1>3, TransferFirst DEF AtTransfer
  <2>2. QED
    BY <2>1 DEF Safe, Foremost, Transceiver!Transferring, Transceiver!Now, Transceiver!NeedsLock,
               Accesses
<1>4. CASE AtSelect(t)
  <2>1. holder = t /\ todo[t] # <<>> /\ Foremost(t).op = "select" /\ Foremost(t).raw = TRUE
        /\ Foremost(t).page \in 0 .. 255
    BY <1>4, SelectFirst DEF AtSelect
  <2>2. QED
    BY <2>1 DEF Safe, Foremost, Transceiver!Transferring, Transceiver!Now, Transceiver!NeedsLock,
               Accesses
<1>5. CASE PllIdle(t)
  BY <1>5 DEF PllIdle, Safe, Transceiver!Transferring, Transceiver!Now, Transceiver!NeedsLock
<1>6. CASE PllBegins(t)
  <2>1. holder # t /\ Foremost(t).op = "lock"
    BY <1>6, BeginsFirst, LockIs DEF PllBegins
  <2>2. QED
    BY <2>1 DEF Safe, Foremost, Transceiver!Transferring, Transceiver!Now, Accesses
<1>7. CASE PllInside(t)
  <2>1. kind = Start /\ (holder = t \/ blind[t]) /\ todo[t] # <<>>
    BY <1>7, InsideFirst DEF PllInside
  <2>2. CASE Foremost(t) = Unlock
    BY <2>1, <2>2, UnlockIs DEF Safe, Foremost, Transceiver!Transferring, Transceiver!Now,
               Transceiver!NeedsLock, Accesses
  <2>3. CASE Foremost(t).op = "either"
    BY <2>1, <2>3 DEF Safe, Foremost, Transceiver!Transferring, Transceiver!Now,
               Transceiver!NeedsLock, Accesses
  <2>4. CASE Foremost(t).op \in Accesses /\ Foremost(t).raw = TRUE /\ Foremost(t).page \in 0 .. 255
    BY <2>1, <2>4 DEF Safe, Foremost, Transceiver!Transferring, Transceiver!Now,
               Transceiver!NeedsLock, Accesses
  <2>5. QED
    BY <1>7, <2>2, <2>3, <2>4, InsideFirst
<1>8. QED
  BY <1>1, <1>2, <1>3, <1>4, <1>5, <1>6, <1>7 DEF Phase
-----------------------------------------------------------------------------
(* A thread stays in its phase when the other one moves. *)
LEMMA OtherStays ==
    ASSUME PhyTypes, NEW t \in Threads, NEW u \in Threads, u # t, PhyStep(t),
           kind \in SelectsAlways, Phase(u), Safe(t)
    PROVE  Phase(u)'
<1>1. kind # Start
  BY DEF SelectsAlways, Transceiver!SelectsAlways, Start
<1>2. /\ kind' = kind /\ left' = left /\ todo'[u] = todo[u] /\ seen'[u] = seen[u]
      /\ blind'[u] = blind[u]
  BY Frame
<1>3. u # "none"
  BY DEF Threads, Transceiver!Threads
<1>4. (holder = u <=> holder' = u) /\ (holder = u => page' = page)
  <2>1. /\ holder' \in {holder, t, "none"}
        /\ holder' = t /\ holder # t => holder = "none"
        /\ holder' # holder /\ holder' = "none" => Transceiver!Now(t, {"unlock"})
        /\ page' # page \/ saved' # saved => Transceiver!Transferring(t)
    BY Frame
  <2>2. Transceiver!Transferring(t) \/ Transceiver!Now(t, {"unlock"}) => holder = t
    BY <1>1 DEF Safe
  <2>3. QED
    BY <1>3, <2>1, <2>2
<1>5. \A p, S : Knows(u, p, S) => Knows(u, p, S)'
  BY <1>1, <1>2 DEF Knows, Current
<1>6. \A f : Goes(u, f) => Goes(u, f)'
  BY <1>2, <1>5 DEF Goes
<1>7. \A a, rest : Accessing(u, a, rest) => Accessing(u, a, rest)'
  BY <1>2, <1>5 DEF Accessing
<1>8. CASE Outside(u)
  BY <1>2, <1>4, <1>6, <1>8 DEF Outside, Phase
<1>9. CASE AtRelease(u)
  BY <1>2, <1>4, <1>6, <1>9 DEF AtRelease, Phase
<1>10. CASE AtTransfer(u)
  <2>1. PICK a, rest : /\ todo[u] = Then(Raw(a), Then(Unlock, rest)) /\ Accessing(u, a, rest)
                       /\ kind \in SelectsAlways /\ a.op # "reset" /\ Matters(kind, a)
                            => page = a.page
    BY <1>10 DEF AtTransfer
  <2>2. holder = u
    BY <1>10 DEF AtTransfer
  <2>3. AtTransfer(u)'
    BY <1>1, <1>2, <1>4, <1>7, <2>1, <2>2 DEF AtTransfer
  <2>4. QED
    BY <2>3 DEF Phase
<1>11. CASE AtSelect(u)
  <2>1. PICK a, rest : /\ todo[u] = Then(PageSelect(a), Then(Raw(a), Then(Unlock, rest)))
                       /\ Accessing(u, a, rest) /\ a.op # "reset"
    BY <1>11 DEF AtSelect
  <2>2. holder = u
    BY <1>11 DEF AtSelect
  <2>3. AtSelect(u)'
    BY <1>2, <1>4, <1>7, <2>1, <2>2 DEF AtSelect
  <2>4. QED
    BY <2>3 DEF Phase
<1>12. QED
  BY <1>1, <1>8, <1>9, <1>10, <1>11 DEF Phase, PllIdle, PllBegins, PllInside

(* The effect of a transfer on what is known. *)
LEMMA TransferKnows ==
    ASSUME PhyTypes, SavedZero, NEW t \in Threads, NEW a, NEW b,
           b.op = a.op, b.page = a.page, b.reg = a.reg, Head(todo[t]) = b,
           Transceiver!Transfer(t), a.op \in Accesses,
           NEW p, NEW S, NEW q, NEW X, Allowed(kind, a, p, S, q, X), Knows(t, p, S),
           kind \in SelectsAlways /\ a.op # "reset" /\ Matters(kind, a) => page = a.page
    PROVE  Knows(t, q, X)' /\ SavedZero'
<1>1. /\ page' = CASE b.op = "select" -> b.page
                   [] b.op = "restore" -> saved
                   [] b.op = "reset" -> 0
                   [] OTHER -> page
      /\ saved' = IF b.op = "save" THEN page ELSE saved
      /\ seen' = IF b.op = "read"
                   THEN [seen EXCEPT ![t] = seen[t] \cup {Transceiver!Seen(b)}] ELSE seen
      /\ UNCHANGED <<kind, holder, blind, left>>
  BY DEF Transceiver!Transfer
<1>2. Transceiver!Seen(b) = <<IF Matters(kind, a) THEN page ELSE 0, a.reg>>
  BY DEF Transceiver!Seen, Transceiver!PageMatters, Matters
<1>3. seen = [u \in Threads |-> seen[u]]
  BY DEF PhyTypes
<1>4. kind = Start => kind \notin SelectsAlways
  BY DEF Start, SelectsAlways, Transceiver!SelectsAlways
<1>5. CASE a.op = "read"
  <2>1. q = p /\ X \subseteq S \cup {Mark(kind, a)} /\ OnPage(kind, a, p)
    BY <1>5 DEF Allowed
  <2>2. page' = page /\ saved' = saved /\ seen'[t] = seen[t] \cup {Transceiver!Seen(b)}
    BY <1>1, <1>3, <1>5
  <2>3. ~left /\ ~blind[t] => Mark(kind, a) = Transceiver!Seen(b)
    BY <1>2, <1>5, <2>1 DEF Mark, OnPage, Knows, Current
  <2>4. QED
    BY <1>1, <2>1, <2>2, <2>3 DEF Knows, Current, SavedZero
<1>6. CASE a.op \in {"write", "update"}
  <2>1. q = p /\ X \subseteq S
    BY <1>6 DEF Allowed
  <2>2. page' = page /\ saved' = saved /\ seen' = seen
    BY <1>1, <1>6
  <2>3. QED
    BY <1>1, <2>1, <2>2 DEF Knows, Current, SavedZero
<1>7. CASE a.op = "select"
  <2>1. kind \notin SelectsAlways /\ q = a.page /\ X \subseteq S
    BY <1>7 DEF Allowed
  <2>2. page' = a.page /\ saved' = saved /\ seen' = seen
    BY <1>1, <1>7
  <2>3. QED
    BY <1>1, <2>1, <2>2 DEF Knows, Current, SavedZero
<1>8. CASE a.op = "save"
  <2>1. kind \notin SelectsAlways /\ kind # Start /\ p = 0 /\ q = 0 /\ X \subseteq S
    BY <1>8 DEF Allowed
  <2>2. page' = page /\ saved' = page /\ seen' = seen
    BY <1>1, <1>8
  <2>3. QED
    BY <1>1, <2>1, <2>2 DEF Knows, Current, SavedZero
<1>9. CASE a.op = "restore"
  <2>1. kind \notin SelectsAlways /\ q = 0 /\ X \subseteq S
    BY <1>9 DEF Allowed
  <2>2. page' = saved /\ saved' = saved /\ seen' = seen
    BY <1>1, <1>9
  <2>3. QED
    BY <1>1, <2>1, <2>2 DEF Knows, Current, SavedZero
<1>10. CASE a.op = "reset"
  <2>1. q = 0 /\ X \subseteq S
    BY <1>10 DEF Allowed
  <2>2. page' = 0 /\ saved' = saved /\ seen' = seen
    BY <1>1, <1>10
  <2>3. QED
    BY <1>1, <2>1, <2>2 DEF Knows, Current, SavedZero
<1>11. QED
  BY <1>5, <1>6, <1>7, <1>8, <1>9, <1>10 DEF Accesses, Transceiver!Accesses

(* An error that is not looked at leaves the page as it was.               *)
LEMMA SkippedStays ==
    ASSUME NEW k, NEW a, a.op \in Accesses, a.onError = "skip",
           NEW p, NEW S, NEW q, NEW X, Allowed(k, a, p, S, q, X)
    PROVE  q = p
BY DEF Allowed, Accesses, Transceiver!Accesses
-----------------------------------------------------------------------------
(* The steps a thread makes in every phase lead to a phase. *)
Follows(t) == SavedZero' /\ Phase(t)'

LEMMA StepsAt ==
    ASSUME PhyTypes, NEW t \in Threads, PhyStep(t), todo[t] # <<>>
    PROVE  \/ Foremost(t).op = "either" /\ Transceiver!Decide(t)
           \/ Foremost(t).op \in {"fail", "leave"} /\ Transceiver!GiveUp(t)
           \/ /\ Foremost(t).op \in Accesses \cup {"lock"} /\ ~Foremost(t).raw
              /\ Transceiver!e1000_acquire_phy_base(t) \/ Transceiver!AcquireFails(t)
           \/ Foremost(t).op = "unlock" /\ Transceiver!e1000_release_phy_base(t)
           \/ /\ Foremost(t).op \in Accesses /\ Foremost(t).raw
              /\ \/ Transceiver!Transfer(t)
                 \/ Transceiver!TransferFails(t) /\ Foremost(t).op # "reset"
<1>1. ~Transceiver!Call(t)
  BY DEF Transceiver!Call
<1>2. CASE Transceiver!Decide(t)
  BY <1>2 DEF Transceiver!Decide, Transceiver!Now, Foremost
<1>3. CASE Transceiver!GiveUp(t)
  BY <1>3 DEF Transceiver!GiveUp, Transceiver!Now, Foremost
<1>4. CASE Transceiver!e1000_acquire_phy_base(t)
  BY <1>4 DEF Transceiver!e1000_acquire_phy_base, Transceiver!NeedsLock, Foremost, Accesses
<1>5. CASE Transceiver!AcquireFails(t)
  BY <1>5 DEF Transceiver!AcquireFails, Transceiver!NeedsLock, Foremost, Accesses
<1>6. CASE Transceiver!e1000_release_phy_base(t)
  BY <1>6 DEF Transceiver!e1000_release_phy_base, Transceiver!Now, Foremost
<1>7. CASE Transceiver!Transfer(t)
  BY <1>7 DEF Transceiver!Transfer, Transceiver!Transferring, Transceiver!Now, Foremost, Accesses
<1>8. CASE Transceiver!TransferFails(t)
  BY <1>8 DEF Transceiver!TransferFails, Transceiver!Transferring, Transceiver!Now, Foremost,
         Accesses
<1>9. QED
  BY <1>1, <1>2, <1>3, <1>4, <1>5, <1>6, <1>7, <1>8 DEF PhyStep

LEMMA TodoAt ==
    ASSUME PhyTypes, NEW t \in Threads
    PROVE  \A f : [todo EXCEPT ![t] = f][t] = f
BY DEF PhyTypes

(* The end of a call. *)
LEMMA EndsOutside ==
    ASSUME PhyTypes, SavedZero, NEW t \in Threads, Outside(t), Transceiver!Ends(t),
           UNCHANGED <<kind, holder, page, saved, seen>>
    PROVE  Follows(t)
<1>1. todo'[t] = <<>>
  BY TodoAt DEF Transceiver!Ends
<1>2. left' = (left \/ (kind \notin SelectsAlways /\ page # 0))
  BY DEF Transceiver!Ends, SelectsAlways
<1>3. Knows(t, 0, {})'
  BY <1>2 DEF Knows, Current
<1>4. Runs(kind', <<>>, 0, {}, 0, {})
  BY Stops
<1>5. Goes(t, todo[t])'
  BY <1>1, <1>3, <1>4 DEF Goes
<1>6. Outside(t)'
  BY <1>5 DEF Outside
<1>7. QED
  BY <1>2, <1>6 DEF Follows, Phase, SavedZero

LEMMA CallOutside ==
    ASSUME PhyTypes, SavedZero, NEW t \in Threads, Outside(t), Transceiver!Call(t)
    PROVE  Follows(t)
<1>1. PICK f \in (IF t = "caller" THEN Transceiver!Calls
                  ELSE {Transceiver!e1000_check_for_copper_link_generic}) :
         todo' = [todo EXCEPT ![t] = f]
  BY DEF Transceiver!Call
<1>2. /\ todo[t] = <<>> /\ todo'[t] = f
      /\ UNCHANGED <<kind, holder, page, saved, left>>
  BY <1>1, TodoAt DEF Transceiver!Call
<1>3. kind # Start /\ holder # t
  BY DEF Outside
<1>4. Runs(kind, f, 0, {}, 0, {})
  BY <1>1, <1>3, CallsKept DEF Kept
<1>5. ~left => Current = 0
  <2>1. PICK p, S, T : Knows(t, p, S) /\ Runs(kind, <<>>, p, S, 0, T)
    BY <1>2 DEF Outside, Goes
  <2>2. p = 0
    BY <2>1, RunsProgram
  <2>3. QED
    BY <1>3, <2>1, <2>2 DEF Knows
<1>6. Knows(t, 0, {})'
  BY <1>2, <1>5 DEF Knows, Current
<1>7. Goes(t, todo[t])'
  BY <1>2, <1>4, <1>6 DEF Goes
<1>8. Outside(t)'
  BY <1>2, <1>3, <1>7 DEF Outside
<1>9. QED
  BY <1>2, <1>8 DEF Follows, Phase, SavedZero

LEMMA DecideOutside ==
    ASSUME PhyTypes, SavedZero, NEW t \in Threads, Outside(t), Transceiver!Decide(t),
           todo[t] # <<>>, Foremost(t).op = "either"
    PROVE  Follows(t)
<1>1. PICK p, S, T : Knows(t, p, S) /\ Runs(kind, todo[t], p, S, 0, T)
  BY DEF Outside, Goes
<1>2. PICK g \in Foremost(t).of : todo' = [todo EXCEPT ![t] = g \o Tail(todo[t])]
  BY DEF Transceiver!Decide, Foremost
<1>3. UNCHANGED <<kind, holder, page, saved, seen, blind, left>>
  BY DEF Transceiver!Decide
<1>4. todo'[t] = g \o Tail(todo[t])
  BY <1>2, TodoAt
<1>5. kind # Start /\ holder # t
  BY DEF Outside
<1>6. ~(\E q, X : Allowed(kind, Foremost(t), p, S, q, X))
  BY OpsAllowed, OpsDiffer
<1>7. PICK X : X \subseteq S /\ Runs(kind, g \o Tail(todo[t]), p, X, 0, T)
  BY <1>1, <1>6, RunsNext DEF Foremost
<1>8. Knows(t, p, X)'
  BY <1>1, <1>3, <1>7 DEF Knows, Current
<1>9. Goes(t, todo[t])'
  BY <1>3, <1>4, <1>7, <1>8 DEF Goes
<1>10. Outside(t)'
  BY <1>3, <1>5, <1>9 DEF Outside
<1>11. QED
  BY <1>3, <1>10 DEF Follows, Phase, SavedZero

(* An access is about to be made. *)
LEMMA AccessOutside ==
    ASSUME NEW t \in Threads, Outside(t), todo[t] # <<>>, Foremost(t).op \in Accesses
    PROVE  \E rest : rest = Tail(todo[t]) /\ Accessing(t, Foremost(t), rest)
<1>1. PICK p, S, T : Knows(t, p, S) /\ Runs(kind, todo[t], p, S, 0, T)
  BY DEF Outside, Goes
<1>2. Foremost(t).op # "either"
  BY OpsDiffer
<1>3. PICK q, X : /\ Plain(kind, Foremost(t)) /\ Allowed(kind, Foremost(t), p, S, q, X)
                  /\ Runs(kind, Tail(todo[t]), q, X, 0, T)
  BY <1>1, <1>2, RunsNext DEF Foremost
<1>4. QED
  BY <1>1, <1>3 DEF Accessing

LEMMA FailsOutside ==
    ASSUME PhyTypes, SavedZero, NEW t \in Threads, Outside(t), todo[t] # <<>>,
           Foremost(t).op \in Accesses, Transceiver!AcquireFails(t)
    PROVE  Follows(t)
<1>1. UNCHANGED <<kind, holder, page, saved, seen>>
  BY DEF Transceiver!AcquireFails
<1>2. CASE Foremost(t).onError = "return"
  <2>1. Transceiver!Ends(t)
    BY <1>2 DEF Transceiver!AcquireFails, Foremost
  <2>2. QED
    BY <1>1, <2>1, EndsOutside
<1>3. CASE Foremost(t).onError # "return"
  <2>1. /\ todo' = [todo EXCEPT ![t] = Tail(todo[t])] /\ blind' = [blind EXCEPT ![t] = TRUE]
        /\ left' = left
    BY <1>3 DEF Transceiver!AcquireFails, Foremost
  <2>2. todo'[t] = Tail(todo[t]) /\ blind'[t] = TRUE
    BY <2>1, TodoAt DEF PhyTypes
  <2>3. Accessing(t, Foremost(t), Tail(todo[t])) /\ kind # Start /\ holder # t
    BY AccessOutside DEF Outside
  <2>4. PICK p, S, q, X, T : /\ Knows(t, p, S) /\ Allowed(kind, Foremost(t), p, S, q, X)
                             /\ Runs(kind, Tail(todo[t]), q, X, 0, T)
    BY <2>3 DEF Accessing
  <2>5. Foremost(t).onError = "skip"
    BY <1>3, <2>3, PlainIs DEF Accessing
  <2>6. q = p
    BY <2>4, <2>5, SkippedStays
  <2>7. Knows(t, q, X)'
    BY <1>1, <2>1, <2>2, <2>3, <2>4, <2>6 DEF Knows, Current
  <2>8. Goes(t, todo[t])'
    BY <1>1, <2>2, <2>4, <2>7 DEF Goes
  <2>9. Outside(t)'
    BY <1>1, <2>3, <2>8 DEF Outside
  <2>10. QED
    BY <1>1, <2>1, <2>9 DEF Follows, Phase, SavedZero
<1>4. QED
  BY <1>2, <1>3
-----------------------------------------------------------------------------
(* What is done under the semaphore. *)
LEMMA OneIs ==
    ASSUME NEW x
    PROVE  IsProgram(<<x>>) /\ <<x>> # <<>> /\ Len(<<x>>) = 1 /\ <<x>>[1] = x
<1>1. <<x>> \in Seq({x})
  OBVIOUS
<1>2. <<x>> # <<>> /\ Len(<<x>>) = 1 /\ <<x>>[1] = x
  OBVIOUS
<1>3. QED
  BY <1>1, <1>2 DEF IsProgram

LEMMA TwoAre ==
    ASSUME NEW x, NEW y
    PROVE  IsProgram(<<x, y>>) /\ <<x, y>> = Then(x, <<y>>)
<1> DEFINE s == <<y>>
           t == <<x, y>>
           A == {x, y}
<1>1. IsProgram(s) /\ Len(s) = 1 /\ s[1] = y
  BY OneIs
<1>2. t \in Seq(A) /\ Len(t) = 2 /\ t[1] = x /\ t[2] = y
  OBVIOUS
<1> HIDE DEF s, t, A
<1>3. /\ IsProgram(Then(x, s)) /\ Len(Then(x, s)) = 2 /\ Then(x, s)[1] = x
      /\ \A i \in 1 .. 1 : Then(x, s)[i + 1] = s[i]
  <2>1. /\ IsProgram(Then(x, s)) /\ Len(Then(x, s)) = Len(s) + 1 /\ Then(x, s)[1] = x
        /\ \A i \in 1 .. Len(s) : Then(x, s)[i + 1] = s[i]
    BY <1>1, ThenIs
  <2>2. QED
    BY <1>1, <2>1
<1>4. PICK B : Then(x, s) \in Seq(B)
  BY <1>3 DEF IsProgram
<1>5. Then(x, s)[2] = y
  <2>1. 1 \in 1 .. 1 /\ 1 + 1 = 2
    OBVIOUS
  <2>2. QED
    BY <1>1, <1>3, <2>1
<1>6. \A i \in 1 .. Len(t) : t[i] = Then(x, s)[i]
  <2>1. \A i \in 1 .. 2 : i = 1 \/ i = 2
    OBVIOUS
  <2>2. QED
    BY <1>2, <1>3, <1>5, <2>1
<1>7. t = Then(x, s)
  BY <1>2, <1>3, <1>4, <1>6, SeqEqual
<1>8. IsProgram(t)
  BY <1>2 DEF IsProgram
<1>9. QED
  BY <1>7, <1>8 DEF s, t

LEMMA ThreeAre ==
    ASSUME NEW x, NEW y, NEW z
    PROVE  IsProgram(<<x, y, z>>) /\ <<x, y, z>> = Then(x, <<y, z>>)
<1> DEFINE s == <<y, z>>
           t == <<x, y, z>>
           A == {x, y, z}
<1>1. Len(s) = 2 /\ s[1] = y /\ s[2] = z
  OBVIOUS
<1>2. t \in Seq(A) /\ Len(t) = 3 /\ t[1] = x /\ t[2] = y /\ t[3] = z
  OBVIOUS
<1>3. IsProgram(s)
  BY TwoAre
<1> HIDE DEF s, t, A
<1>4. /\ IsProgram(Then(x, s)) /\ Len(Then(x, s)) = 3 /\ Then(x, s)[1] = x
      /\ \A i \in 1 .. 2 : Then(x, s)[i + 1] = s[i]
  <2>1. /\ IsProgram(Then(x, s)) /\ Len(Then(x, s)) = Len(s) + 1 /\ Then(x, s)[1] = x
        /\ \A i \in 1 .. Len(s) : Then(x, s)[i + 1] = s[i]
    BY <1>3, ThenIs
  <2>2. QED
    BY <1>1, <2>1
<1>5. PICK B : Then(x, s) \in Seq(B)
  BY <1>4 DEF IsProgram
<1>6. Then(x, s)[2] = y /\ Then(x, s)[3] = z
  <2>1. 1 \in 1 .. 2 /\ 2 \in 1 .. 2 /\ 1 + 1 = 2 /\ 2 + 1 = 3
    OBVIOUS
  <2>2. QED
    BY <1>1, <1>4, <2>1
<1>7. \A i \in 1 .. Len(t) : t[i] = Then(x, s)[i]
  <2>1. \A i \in 1 .. 3 : i = 1 \/ i = 2 \/ i = 3
    OBVIOUS
  <2>2. QED
    BY <1>2, <1>4, <1>6, <2>1
<1>8. t = Then(x, s)
  BY <1>2, <1>4, <1>5, <1>7, SeqEqual
<1>9. IsProgram(t)
  BY <1>2 DEF IsProgram
<1>10. QED
  BY <1>8, <1>9 DEF s, t

LEMMA TwoBefore ==
    ASSUME NEW x, NEW y, NEW r, IsProgram(r)
    PROVE  <<x, y>> \o r = Then(x, Then(y, r))
<1> DEFINE f == <<x>>
           g == <<y>>
<1>1. IsProgram(f) /\ IsProgram(g)
  BY OneIs
<1>2. <<x, y>> = f \o g
  BY TwoAre DEF Then
<1> HIDE DEF f, g
<1>3. (f \o g) \o r = f \o (g \o r)
  BY <1>1, Associative
<1>4. <<x, y>> \o r = f \o (g \o r)
  BY <1>2, <1>3
<1>5. QED
  BY <1>4 DEF Then, f, g

LEMMA ThreeBefore ==
    ASSUME NEW x, NEW y, NEW z, NEW r, IsProgram(r)
    PROVE  <<x, y, z>> \o r = Then(x, Then(y, Then(z, r)))
<1> DEFINE f == <<x>>
           g == <<y, z>>
<1>1. IsProgram(f) /\ IsProgram(g)
  BY OneIs, TwoAre
<1>2. <<x, y, z>> = f \o g
  BY ThreeAre DEF Then
<1>3. g \o r = Then(y, Then(z, r))
  BY TwoBefore
<1> HIDE DEF f, g
<1>4. (f \o g) \o r = f \o (g \o r)
  BY <1>1, Associative
<1>5. <<x, y, z>> \o r = f \o Then(y, Then(z, r))
  BY <1>2, <1>3, <1>4
<1>6. QED
  BY <1>5 DEF Then, f

(* An access is made with the page selected under the same semaphore,      *)
(* unless pages are the callers' business or all pages have the register.  *)
Alone(a) == <<Raw(a), Unlock>>
Selecting(a) == <<PageSelect(a), Raw(a), Unlock>>

LEMMA UnderLockIs ==
    ASSUME NEW a, a.op \in Accesses
    PROVE  \/ /\ Transceiver!UnderLock(a) = Alone(a)
              /\ ~(kind \in SelectsAlways /\ a.op # "reset" /\ Matters(kind, a))
           \/ /\ Transceiver!UnderLock(a) = Selecting(a)
              /\ kind \in SelectsAlways /\ a.op # "reset"
<1> USE OpsDiffer
<1>1. CASE a.op = "reset"
  BY <1>1 DEF Transceiver!UnderLock, Alone, Raw, Unlock
<1>2. CASE a.op # "reset" /\ kind = "i210"
  <2>1. Transceiver!UnderLock(a) = Transceiver!e1000_read_phy_reg_gs40g(a)
    BY <1>2 DEF Transceiver!UnderLock, Transceiver!I2c
  <2>2. Transceiver!e1000_read_phy_reg_gs40g(a) = Selecting(a)
    BY DEF Transceiver!e1000_read_phy_reg_gs40g, Selecting, PageSelect, Raw, Unlock
  <2>3. QED
    BY <1>2, <2>1, <2>2 DEF SelectsAlways, Transceiver!SelectsAlways
<1>3. CASE a.op # "reset" /\ kind = "igp_3"
  <2>1. Transceiver!UnderLock(a) = Transceiver!e1000_read_phy_reg_igp(a)
    BY <1>3 DEF Transceiver!UnderLock, Transceiver!I2c
  <2>2. CASE a.reg \in Transceiver!MultiPage
    <3>1. Transceiver!e1000_read_phy_reg_igp(a) = <<>> \o Alone(a)
      BY <2>2 DEF Transceiver!e1000_read_phy_reg_igp, Alone, Raw, Unlock
    <3>2. <<>> \o Alone(a) = Alone(a)
      BY TwoAre, NothingBefore DEF Alone
    <3>3. QED
      BY <1>3, <2>1, <2>2, <3>1, <3>2 DEF Matters
  <2>3. CASE a.reg \notin Transceiver!MultiPage
    <3>1. Transceiver!e1000_read_phy_reg_igp(a) = <<PageSelect(a)>> \o Alone(a)
      BY <2>3 DEF Transceiver!e1000_read_phy_reg_igp, Alone, PageSelect, Raw, Unlock
    <3>2. <<PageSelect(a)>> \o Alone(a) = Selecting(a)
      BY ThreeAre DEF Alone, Selecting, Then
    <3>3. QED
      BY <1>3, <2>1, <3>1, <3>2 DEF SelectsAlways, Transceiver!SelectsAlways
  <2>4. QED
    BY <2>2, <2>3
<1>4. CASE a.op # "reset" /\ kind # "i210" /\ kind # "igp_3"
  <2>1. Transceiver!UnderLock(a) \in {Transceiver!e1000_read_phy_reg_sgmii_82575(a),
                                     Transceiver!e1000_read_phy_reg_82580(a)}
    BY <1>4 DEF Transceiver!UnderLock
  <2>2. /\ Transceiver!e1000_read_phy_reg_sgmii_82575(a) = Alone(a)
        /\ Transceiver!e1000_read_phy_reg_82580(a) = Alone(a)
    BY DEF Transceiver!e1000_read_phy_reg_sgmii_82575, Transceiver!e1000_read_phy_reg_82580,
           Alone, Raw, Unlock
  <2>3. QED
    BY <1>4, <2>1, <2>2 DEF SelectsAlways, Transceiver!SelectsAlways
<1>5. QED
  BY <1>1, <1>2, <1>3, <1>4

LEMMA AcquireOutside ==
    ASSUME PhyTypes, SavedZero, NEW t \in Threads, Outside(t), todo[t] # <<>>,
           Foremost(t).op \in Accesses, Transceiver!e1000_acquire_phy_base(t)
    PROVE  Follows(t)
<1>1. PICK a, rest : a = Foremost(t) /\ rest = Tail(todo[t]) /\ Accessing(t, a, rest)
  BY AccessOutside
<1>2. /\ todo' = [todo EXCEPT ![t] = Transceiver!UnderLock(a) \o rest] /\ holder' = t
      /\ UNCHANGED <<kind, page, saved, seen, blind, left>>
  BY <1>1 DEF Transceiver!e1000_acquire_phy_base, Foremost
<1>3. todo'[t] = Transceiver!UnderLock(a) \o rest
  BY <1>2, TodoAt
<1>4. kind # Start /\ IsProgram(rest)
  BY <1>1, AccessingIs DEF Outside
<1>5. Accessing(t, a, rest)'
  <2>1. PICK p, S, q, X, T : /\ Knows(t, p, S) /\ Allowed(kind, a, p, S, q, X)
                             /\ Runs(kind, rest, q, X, 0, T)
    BY <1>1 DEF Accessing
  <2>2. Knows(t, p, S)'
    BY <1>2, <2>1 DEF Knows, Current
  <2>3. QED
    BY <1>1, <1>2, <2>1, <2>2 DEF Accessing
<1>6. CASE /\ Transceiver!UnderLock(a) = Alone(a)
           /\ ~(kind \in SelectsAlways /\ a.op # "reset" /\ Matters(kind, a))
  <2>1. todo'[t] = Then(Raw(a), Then(Unlock, rest))
    BY <1>3, <1>4, <1>6, TwoBefore DEF Alone
  <2>2. AtTransfer(t)'
    BY <1>2, <1>4, <1>5, <1>6, <2>1 DEF AtTransfer, Matters
  <2>3. QED
    BY <1>2, <2>2 DEF Follows, Phase, SavedZero
<1>7. CASE Transceiver!UnderLock(a) = Selecting(a) /\ kind \in SelectsAlways /\ a.op # "reset"
  <2>1. todo'[t] = Then(PageSelect(a), Then(Raw(a), Then(Unlock, rest)))
    BY <1>3, <1>4, <1>7, ThreeBefore DEF Selecting
  <2>2. AtSelect(t)'
    BY <1>2, <1>5, <1>7, <2>1 DEF AtSelect
  <2>3. QED
    BY <1>2, <2>2 DEF Follows, Phase, SavedZero
<1>8. QED
  BY <1>1, <1>6, <1>7, AccessingIs, UnderLockIs
-----------------------------------------------------------------------------
(* The steps of the thread that has the semaphore. *)
LEMMA ReleaseStep ==
    ASSUME PhyTypes, SavedZero, NEW t \in Threads, AtRelease(t), PhyStep(t)
    PROVE  Follows(t)
<1>1. PICK rest : todo[t] = Then(Unlock, rest) /\ Goes(t, rest)
  BY DEF AtRelease
<1>2. todo[t] # <<>> /\ Foremost(t).op = "unlock" /\ Foremost(t).raw = TRUE
  BY ReleaseFirst, UnlockIs
<1>3. Transceiver!e1000_release_phy_base(t)
  BY <1>2, StepsAt, OpsDiffer
<1>4. /\ todo' = [todo EXCEPT ![t] = Tail(todo[t])] /\ holder' = "none"
      /\ UNCHANGED <<kind, page, saved, seen, blind, left>>
  BY <1>3 DEF Transceiver!e1000_release_phy_base
<1>5. Tail(todo[t]) = rest
  BY <1>1, ProgramLeft, ThenIs
<1>6. todo'[t] = rest
  BY <1>4, <1>5, TodoAt
<1>7. PICK p, S, T : Knows(t, p, S) /\ Runs(kind, rest, p, S, 0, T)
  BY <1>1 DEF Goes
<1>8. Knows(t, p, S)'
  BY <1>4, <1>7 DEF Knows, Current
<1>9. Goes(t, todo[t])'
  BY <1>4, <1>6, <1>7, <1>8 DEF Goes
<1>10. kind' # Start /\ holder' # t
  BY <1>4 DEF AtRelease, Threads, Transceiver!Threads
<1>11. Outside(t)'
  BY <1>9, <1>10 DEF Outside
<1>12. QED
  BY <1>4, <1>11 DEF Follows, Phase, SavedZero

(* An access that fails: its caller ends, or goes on where it would have.  *)
LEMMA FailsInside ==
    ASSUME PhyTypes, SavedZero, NEW t \in Threads, kind # Start, holder = t,
           NEW a, NEW b, NEW rest, Accessing(t, a, rest), todo[t] # <<>>, Foremost(t) = b,
           b.onError = a.onError, Transceiver!FromUnlock(todo[t]) = Then(Unlock, rest),
           Transceiver!TransferFails(t)
    PROVE  Follows(t)
<1>1. /\ todo' = [todo EXCEPT ![t] = Transceiver!AfterError(todo[t])]
      /\ blind' = [blind EXCEPT ![t] = blind[t] \/ b.onError # "return"]
      /\ UNCHANGED <<kind, holder, page, saved, seen, left>>
  BY DEF Transceiver!TransferFails, Foremost
<1>2. todo'[t] = Transceiver!AfterError(todo[t])
  BY <1>1, TodoAt
<1>3. blind \in [Threads -> BOOLEAN]
  BY DEF PhyTypes
<1>4. PICK p, S, q, X, T : /\ Knows(t, p, S) /\ Allowed(kind, a, p, S, q, X)
                           /\ Runs(kind, rest, q, X, 0, T)
  BY DEF Accessing
<1>5. a.onError \in {"return", "skip"} /\ a.op \in Accesses
  BY PlainIs DEF Accessing
<1>6. CASE a.onError = "return"
  <2>1. blind' = blind
    BY <1>1, <1>3, <1>6
  <2>2. Knows(t, p, S)'
    BY <1>1, <1>4, <2>1 DEF Knows, Current
  <2>3. Runs(kind, Transceiver!Fail, p, S, 0, T)
    BY EndRuns
  <2>4. Goes(t, Transceiver!Fail)'
    <3> DEFINE f == Transceiver!Fail
    <3>1. Runs(kind', f, p, S, 0, T)
      BY <1>1, <2>3
    <3> HIDE DEF f
    <3>2. Goes(t, f)'
      BY <2>2, <3>1 DEF Goes
    <3>3. QED
      BY <3>2 DEF f
  <2>5. todo'[t] = Then(Unlock, Transceiver!Fail)
    BY <1>2, <1>6 DEF Transceiver!AfterError, Then, Unlock, Foremost
  <2>6. AtRelease(t)'
    BY <1>1, <2>4, <2>5 DEF AtRelease
  <2>7. QED
    BY <1>1, <2>6 DEF Follows, Phase, SavedZero
<1>7. CASE a.onError = "skip"
  <2>1. blind'[t] = TRUE
    BY <1>1, <1>3, <1>7
  <2>2. q = p
    BY <1>4, <1>5, <1>7, SkippedStays
  <2>3. Knows(t, q, X)'
    BY <1>1, <1>4, <2>1, <2>2 DEF Knows, Current
  <2>4. Goes(t, rest)'
    BY <1>1, <1>4, <2>3 DEF Goes
  <2>5. todo'[t] = Then(Unlock, rest)
    BY <1>2, <1>7 DEF Transceiver!AfterError, Foremost
  <2>6. AtRelease(t)'
    BY <1>1, <2>4, <2>5 DEF AtRelease
  <2>7. QED
    BY <1>1, <2>6 DEF Follows, Phase, SavedZero
<1>8. QED
  BY <1>5, <1>6, <1>7

LEMMA TransferStep ==
    ASSUME PhyTypes, SavedZero, NEW t \in Threads, AtTransfer(t), PhyStep(t)
    PROVE  Follows(t)
<1>1. PICK a, rest : /\ todo[t] = Then(Raw(a), Then(Unlock, rest)) /\ Accessing(t, a, rest)
                     /\ kind \in SelectsAlways /\ a.op # "reset" /\ Matters(kind, a)
                          => page = a.page
  BY DEF AtTransfer
<1>2. kind # Start /\ holder = t
  BY DEF AtTransfer
<1>3. /\ a.op \in Accesses /\ IsProgram(rest) /\ IsProgram(Then(Unlock, rest))
  BY <1>1, AccessingIs
<1>4. todo[t] # <<>> /\ Foremost(t) = Raw(a) /\ Tail(todo[t]) = Then(Unlock, rest)
  BY <1>1, <1>3, ThenIs DEF Foremost
<1>5. /\ Raw(a).op = a.op /\ Raw(a).page = a.page /\ Raw(a).reg = a.reg
      /\ Raw(a).raw = TRUE /\ Raw(a).onError = a.onError
  BY <1>1, RawIs DEF Accessing
<1>6. Transceiver!Transfer(t) \/ Transceiver!TransferFails(t)
  BY <1>3, <1>4, <1>5, StepsAt, OpsDiffer
<1>7. CASE Transceiver!Transfer(t)
  <2>1. todo' = [todo EXCEPT ![t] = Tail(todo[t])] /\ kind' = kind /\ holder' = holder
    BY <1>7 DEF Transceiver!Transfer
  <2>2. todo'[t] = Then(Unlock, rest)
    BY <1>4, <2>1, TodoAt
  <2>3. PICK p, S, q, X, T : /\ Knows(t, p, S) /\ Allowed(kind, a, p, S, q, X)
                             /\ Runs(kind, rest, q, X, 0, T)
    BY <1>1 DEF Accessing
  <2>4. Head(todo[t]) = Raw(a)
    BY <1>4 DEF Foremost
  <2>5. Knows(t, q, X)' /\ SavedZero'
    BY <1>1, <1>3, <1>5, <1>7, <2>3, <2>4, TransferKnows
  <2>6. Goes(t, rest)'
    BY <2>1, <2>3, <2>5 DEF Goes
  <2>7. AtRelease(t)'
    BY <1>2, <2>1, <2>2, <2>6 DEF AtRelease
  <2>8. QED
    BY <2>5, <2>7 DEF Follows, Phase
<1>8. CASE Transceiver!TransferFails(t)
  <2>1. Raw(a).op # "unlock" /\ Unlock.op = "unlock"
    BY <1>3, <1>5, OpsDiffer, UnlockIs
  <2>2. Transceiver!FromUnlock(todo[t]) = Then(Unlock, rest)
    BY <1>1, <1>3, <2>1, FromUnlockOne
  <2>3. QED
    BY <1>1, <1>2, <1>4, <1>5, <1>8, <2>2, FailsInside
<1>9. QED
  BY <1>6, <1>7, <1>8

LEMMA SelectStep ==
    ASSUME PhyTypes, SavedZero, NEW t \in Threads, AtSelect(t), PhyStep(t)
    PROVE  Follows(t)
<1>1. PICK a, rest : /\ todo[t] = Then(PageSelect(a), Then(Raw(a), Then(Unlock, rest)))
                     /\ Accessing(t, a, rest) /\ a.op # "reset"
  BY DEF AtSelect
<1>2. kind \in SelectsAlways /\ holder = t /\ kind # Start
  BY DEF AtSelect, SelectsAlways, Transceiver!SelectsAlways, Start
<1>3. /\ a.op \in Accesses /\ IsProgram(rest) /\ IsProgram(Then(Raw(a), Then(Unlock, rest)))
  BY <1>1, AccessingIs
<1>4. /\ todo[t] # <<>> /\ Foremost(t) = PageSelect(a)
      /\ Tail(todo[t]) = Then(Raw(a), Then(Unlock, rest))
  BY <1>1, <1>3, ThenIs DEF Foremost
<1>5. /\ PageSelect(a).op = "select" /\ PageSelect(a).page = a.page
      /\ PageSelect(a).raw = TRUE /\ PageSelect(a).onError = a.onError /\ Raw(a).op = a.op
  BY <1>1, RawIs DEF Accessing
<1>6. Transceiver!Transfer(t) \/ Transceiver!TransferFails(t)
  BY <1>4, <1>5, StepsAt, OpsDiffer
<1>7. CASE Transceiver!Transfer(t)
  <2>1. /\ todo' = [todo EXCEPT ![t] = Tail(todo[t])] /\ page' = a.page
        /\ UNCHANGED <<kind, holder, blind, left, saved, seen>>
    BY <1>4, <1>5, <1>7 DEF Transceiver!Transfer, Foremost
  <2>2. todo'[t] = Then(Raw(a), Then(Unlock, rest))
    BY <1>4, <2>1, TodoAt
  <2>3. PICK p, S, q, X, T : /\ Knows(t, p, S) /\ Allowed(kind, a, p, S, q, X)
                             /\ Runs(kind, rest, q, X, 0, T)
    BY <1>1 DEF Accessing
  <2>4. Knows(t, p, S)'
    BY <1>2, <2>1, <2>3 DEF Knows, Current
  <2>5. Accessing(t, a, rest)'
    BY <1>1, <2>1, <2>3, <2>4 DEF Accessing
  <2>6. AtTransfer(t)'
    BY <1>2, <2>1, <2>2, <2>5 DEF AtTransfer
  <2>7. QED
    BY <2>1, <2>6 DEF Follows, Phase, SavedZero
<1>8. CASE Transceiver!TransferFails(t)
  <2>1. PageSelect(a).op # "unlock" /\ Raw(a).op # "unlock" /\ Unlock.op = "unlock"
    BY <1>3, <1>5, OpsDiffer, UnlockIs
  <2>2. Transceiver!FromUnlock(todo[t]) = Then(Unlock, rest)
    BY <1>1, <1>3, <2>1, FromUnlockTwo
  <2>3. QED
    BY <1>1, <1>2, <1>4, <1>5, <1>8, <2>2, FailsInside
<1>9. QED
  BY <1>6, <1>7, <1>8

LEMMA OutsideStep ==
    ASSUME PhyTypes, SavedZero, NEW t \in Threads, Outside(t), PhyStep(t)
    PROVE  Follows(t)
<1>1. CASE todo[t] = <<>>
  <2>1. Transceiver!Call(t)
    BY <1>1 DEF PhyStep, Transceiver!Decide, Transceiver!GiveUp, Transceiver!Now,
           Transceiver!e1000_acquire_phy_base, Transceiver!AcquireFails, Transceiver!NeedsLock,
           Transceiver!e1000_release_phy_base, Transceiver!Transfer, Transceiver!TransferFails,
           Transceiver!Transferring
  <2>2. QED
    BY <2>1, CallOutside
<1>2. CASE todo[t] # <<>>
  <2>1. \/ Foremost(t).op = "either"
        \/ Foremost(t).op \in Accesses \cup {"fail", "leave"} /\ Foremost(t).raw = FALSE
    BY <1>2, OutsideFirst
  <2>2. CASE Foremost(t).op = "either"
    <3>1. Transceiver!Decide(t)
      BY <1>2, <2>2, StepsAt, OpsDiffer
    <3>2. QED
      BY <1>2, <2>2, <3>1, DecideOutside
  <2>3. CASE Foremost(t).op \in {"fail", "leave"}
    <3>1. Transceiver!GiveUp(t)
      BY <1>2, <2>3, StepsAt, OpsDiffer
    <3>2. Transceiver!Ends(t) /\ UNCHANGED <<kind, holder, page, saved, seen>>
      BY <3>1 DEF Transceiver!GiveUp
    <3>3. QED
      BY <3>2, EndsOutside
  <2>4. CASE Foremost(t).op \in Accesses /\ Foremost(t).raw = FALSE
    <3>1. Transceiver!e1000_acquire_phy_base(t) \/ Transceiver!AcquireFails(t)
      BY <1>2, <2>4, StepsAt, OpsDiffer
    <3>2. QED
      BY <1>2, <2>4, <3>1, AcquireOutside, FailsOutside
  <2>5. QED
    BY <2>1, <2>2, <2>3, <2>4
<1>3. QED
  BY <1>1, <1>2
-----------------------------------------------------------------------------
(* The function that has the semaphore for all of its accesses: from any   *)
(* page it comes back to page 0.                                           *)
Borrowing(op, x, reg) == Form(op, x, reg, TRUE, "next", {})

LEMMA BorrowingRuns ==
    ASSUME NEW op, NEW x \in 0 .. 255, NEW reg, NEW p, NEW S, NEW q, NEW T,
           Allowed(Start, Borrowing(op, x, reg), p, S, q, T)
    PROVE  Runs(Start, <<Borrowing(op, x, reg)>>, p, S, q, T)
<1>1. \E k, yes : k = Start /\ yes = (k = Start) /\ yes = TRUE
  OBVIOUS
<1>2. PICK k, yes : k = Start /\ yes = (k = Start) /\ yes = TRUE
  BY <1>1
<1> DEFINE a == Form(op, x, reg, yes, "next", {})
<1>3. a = Borrowing(op, x, reg)
  BY <1>2 DEF Borrowing, Form
<1>4. a = [op |-> a.op, page |-> a.page, reg |-> a.reg, raw |-> yes, onError |-> a.onError,
           of |-> a.of]
  BY DEF Form
<1>5. a.page \in 0 .. 255 /\ a.onError = "next"
  BY DEF Form
<1>6. Plain(k, a)
  BY <1>2, <1>4, <1>5 DEF Plain
<1>7. QED
  BY <1>2, <1>3, <1>6, RunsStep

LEMMA TryRuns ==
    ASSUME NEW p, NEW S
    PROVE  Runs(Start, Transceiver!PllTry, p, S, 0, S)
<1> DEFINE s == <<Access("select", 252, "PAGE_SELECT", "return")>>
           r == <<Access("read", 252, "PLL_FREQ", "return")>>
           e == <<Access("select", 0, "PAGE_SELECT", "return")>>
           S1 == <<Borrowing("select", 252, "PAGE_SELECT")>>
           R1 == <<Borrowing("read", 252, "PLL_FREQ")>>
           E1 == <<Borrowing("select", 0, "PAGE_SELECT")>>
<1>1. /\ Transceiver!Select(252) = s /\ Transceiver!Select(0) = e
      /\ Transceiver!Read("PLL_FREQ") = <<Access("read", 0, "PLL_FREQ", "return")>>
  BY Forms
<1>2. Transceiver!On(252, Transceiver!Read("PLL_FREQ")) = r
  BY <1>1, OneOn
<1>3. Transceiver!Under(s) = S1 /\ Transceiver!Under(r) = R1 /\ Transceiver!Under(e) = E1
  BY OneUnder DEF Borrowing
<1>4. PICK A : s \in Seq(A) /\ r \in Seq(A) /\ e \in Seq(A)
  <2> DEFINE B == {Access("select", 252, "PAGE_SELECT", "return"),
                   Access("read", 252, "PLL_FREQ", "return"),
                   Access("select", 0, "PAGE_SELECT", "return")}
  <2>1. s \in Seq(B) /\ r \in Seq(B) /\ e \in Seq(B)
    OBVIOUS
  <2>2. QED
    BY <2>1
<1>5. /\ Runs(Start, S1, p, S, 252, S) /\ Runs(Start, R1, 252, S, 252, S)
      /\ Runs(Start, E1, 252, S, 0, S)
  <2>1. /\ Borrowing("select", 252, "PAGE_SELECT").op = "select"
        /\ Borrowing("select", 252, "PAGE_SELECT").onError = "next"
        /\ Borrowing("select", 252, "PAGE_SELECT").page = 252
        /\ Borrowing("read", 252, "PLL_FREQ").op = "read"
        /\ Borrowing("read", 252, "PLL_FREQ").page = 252
        /\ Borrowing("select", 0, "PAGE_SELECT").op = "select"
        /\ Borrowing("select", 0, "PAGE_SELECT").onError = "next"
        /\ Borrowing("select", 0, "PAGE_SELECT").page = 0
    BY DEF Borrowing, Form
  <2>2. Start \notin SelectsAlways
    BY DEF Start, SelectsAlways, Transceiver!SelectsAlways
  <2>3. /\ Allowed(Start, Borrowing("select", 252, "PAGE_SELECT"), p, S, 252, S)
        /\ Allowed(Start, Borrowing("read", 252, "PLL_FREQ"), 252, S, 252, S)
        /\ Allowed(Start, Borrowing("select", 0, "PAGE_SELECT"), 252, S, 0, S)
    BY <2>1, <2>2 DEF Allowed, OnPage
  <2>4. 252 \in 0 .. 255 /\ 0 \in 0 .. 255
    OBVIOUS
  <2>5. Runs(Start, S1, p, S, 252, S)
    BY <2>3, <2>4, BorrowingRuns
  <2>6. Runs(Start, R1, 252, S, 252, S)
    BY <2>3, <2>4, BorrowingRuns
  <2>7. Runs(Start, E1, 252, S, 0, S)
    BY <2>3, <2>4, BorrowingRuns
  <2>8. QED
    BY <2>5, <2>6, <2>7
<1> HIDE DEF s, r, e, S1, R1, E1
<1>6. s \o r \in Seq(A)
  BY <1>4, ConcatProperties
<1>7. Transceiver!Under((s \o r) \o e) = (S1 \o R1) \o E1
  <2>1. Transceiver!Under((s \o r) \o e) = Transceiver!Under(s \o r) \o Transceiver!Under(e)
    BY <1>4, <1>6, UnderBoth
  <2>2. Transceiver!Under(s \o r) = Transceiver!Under(s) \o Transceiver!Under(r)
    BY <1>4, UnderBoth
  <2>3. QED
    BY <1>3, <2>1, <2>2
<1>8. Transceiver!PllTry = (S1 \o R1) \o E1
  BY <1>1, <1>2, <1>7 DEF Transceiver!PllTry
<1>9. Runs(Start, S1 \o R1, p, S, 252, S)
  BY <1>5, RunsOn
<1>10. QED
  BY <1>5, <1>8, <1>9, RunsOn

LEMMA ResetBorrowed ==
    ASSUME NEW S
    PROVE  Runs(Start, Transceiver!Under(Transceiver!Reset), 0, S, 0, S)
<1>1. Transceiver!Under(Transceiver!Reset) = <<Borrowing("reset", 0, "CTRL.PHY_RST")>>
  BY Forms, OneUnder DEF Borrowing
<1>2. /\ Borrowing("reset", 0, "CTRL.PHY_RST").op = "reset"
      /\ Borrowing("reset", 0, "CTRL.PHY_RST").onError = "next" /\ 0 \in 0 .. 255
  BY DEF Borrowing, Form
<1>3. Allowed(Start, Borrowing("reset", 0, "CTRL.PHY_RST"), 0, S, 0, S)
  BY <1>2 DEF Allowed
<1>4. QED
  BY <1>1, <1>2, <1>3, BorrowingRuns

(* A second try after a reset. *)
LEMMA AgainRuns ==
    ASSUME NEW S
    PROVE  Runs(Start, Transceiver!Optionally(Transceiver!Under(Transceiver!Reset)
                                                \o Transceiver!PllTry), 0, S, 0, S)
<1>1. Runs(Start, Transceiver!Under(Transceiver!Reset) \o Transceiver!PllTry, 0, S, 0, S)
  BY ResetBorrowed, TryRuns, RunsOn
<1>2. QED
  BY <1>1, OptionallyRuns

PllRest == Transceiver!PllTry
             \o Transceiver!Optionally(Transceiver!Under(Transceiver!Reset) \o Transceiver!PllTry)

LEMMA RestRuns ==
    ASSUME NEW p, NEW S
    PROVE  Runs(Start, PllRest, p, S, 0, S)
BY TryRuns, AgainRuns, RunsOn DEF PllRest

LEMMA PllIs ==
    Transceiver!e1000_pll_workaround_i210 = Then(LockNext, PllRest \o <<Unlock>>)
<1> DEFINE l == <<LockNext>>
           f == Transceiver!PllTry
           g == Transceiver!Optionally(Transceiver!Under(Transceiver!Reset)
                                         \o Transceiver!PllTry)
           u == <<Unlock>>
<1>1. Runs(Start, f, 0, {}, 0, {})
  BY TryRuns
<1>2. Runs(Start, g, 0, {}, 0, {})
  BY AgainRuns
<1>3. IsProgram(f) /\ IsProgram(g)
  BY <1>1, <1>2, RunsProgram
<1>4. IsProgram(l) /\ IsProgram(u)
  BY OneIs
<1>5. Transceiver!e1000_pll_workaround_i210 = ((l \o f) \o g) \o u
  BY DEF Transceiver!e1000_pll_workaround_i210, LockNext, Unlock
<1>6. PllRest = f \o g
  BY DEF PllRest
<1> HIDE DEF l, f, g, u
<1>7. IsProgram(f \o g) /\ (l \o f) \o g = l \o (f \o g)
  <2>1. IsProgram(f \o g)
    BY <1>3, BothProgram
  <2>2. (l \o f) \o g = l \o (f \o g)
    BY <1>3, <1>4, Associative
  <2>3. QED
    BY <2>1, <2>2
<1>8. (l \o (f \o g)) \o u = l \o ((f \o g) \o u)
  BY <1>4, <1>7, Associative
<1>9. QED
  BY <1>5, <1>6, <1>7, <1>8 DEF Then, l, u
-----------------------------------------------------------------------------
(* The steps of the function that has the semaphore throughout, or goes on *)
(* without it.                                                             *)
LEMMA TailIsProgram ==
    ASSUME NEW r, IsProgram(r), r # <<>>
    PROVE  IsProgram(Tail(r))
<1>1. PICK A : r \in Seq(A)
  BY DEF IsProgram
<1>2. Tail(r) \in Seq(A)
  BY <1>1
<1>3. QED
  BY <1>2 DEF IsProgram

LEMMA IdleStep ==
    ASSUME PhyTypes, SavedZero, NEW t \in Threads, PllIdle(t), PhyStep(t)
    PROVE  Follows(t)
<1>1. /\ kind = Start /\ holder # t /\ todo[t] = <<>>
  BY DEF PllIdle
<1>2. Transceiver!Call(t)
  BY <1>1 DEF PhyStep, Transceiver!Decide, Transceiver!GiveUp, Transceiver!Now,
         Transceiver!e1000_acquire_phy_base, Transceiver!AcquireFails, Transceiver!NeedsLock,
         Transceiver!e1000_release_phy_base, Transceiver!Transfer, Transceiver!TransferFails,
         Transceiver!Transferring
<1>3. t = "caller"
  BY <1>1, <1>2 DEF Transceiver!Call, Transceiver!SelectsAlways, Threads, Transceiver!Threads,
         Start
<1>4. Transceiver!Calls = {Transceiver!e1000_pll_workaround_i210}
  BY <1>1 DEF Transceiver!Calls, Start
<1>5. /\ todo' = [todo EXCEPT ![t] = Transceiver!e1000_pll_workaround_i210]
      /\ blind' = [blind EXCEPT ![t] = FALSE] /\ seen' = [seen EXCEPT ![t] = {}]
      /\ UNCHANGED <<kind, holder, page, saved, left>>
  BY <1>2, <1>3, <1>4 DEF Transceiver!Call
<1>6. /\ todo'[t] = Then(LockNext, PllRest \o <<Unlock>>)
      /\ seen'[t] = {}
  BY <1>5, PllIs, TodoAt DEF PhyTypes
<1>7. blind'[t] = FALSE
  BY <1>5 DEF PhyTypes
<1>8. Knows(t, page, {})'
  BY <1>1, <1>5, <1>6 DEF Knows, Current, Start, SelectsAlways, Transceiver!SelectsAlways
<1>9. Runs(kind', PllRest, page', {}, 0, {})
  BY <1>1, <1>5, RestRuns
<1>10. Goes(t, PllRest)'
  <2> DEFINE r == PllRest
  <2>1. Runs(kind', r, page', {}, 0, {})
    BY <1>9
  <2>2. r' = r
    BY <1>5 DEF PllRest
  <2> HIDE DEF r
  <2>3. \E p, S, T : Knows(t, p, S)' /\ Runs(kind', r, p, S, 0, T)
    BY <1>5, <1>8, <2>1
  <2>4. QED
    BY <2>2, <2>3 DEF Goes, r
<1>11. PllBegins(t)'
  BY <1>1, <1>5, <1>6, <1>7, <1>10 DEF PllBegins
<1>12. QED
  BY <1>5, <1>11 DEF Follows, Phase, SavedZero

LEMMA BeginsStep ==
    ASSUME PhyTypes, SavedZero, NEW t \in Threads, PllBegins(t), PhyStep(t)
    PROVE  Follows(t)
<1>1. PICK r : todo[t] = Then(LockNext, r \o <<Unlock>>) /\ Goes(t, r)
  BY DEF PllBegins
<1>2. kind = Start
  BY DEF PllBegins
<1>3. IsProgram(r \o <<Unlock>>)
  BY <1>1, OneIs, ProgramLeft, BothProgram
<1>4. todo[t] # <<>> /\ Foremost(t) = LockNext /\ Tail(todo[t]) = r \o <<Unlock>>
  <2> DEFINE s == r \o <<Unlock>>
  <2>1. IsProgram(s) /\ todo[t] = Then(LockNext, s)
    BY <1>1, <1>3
  <2> HIDE DEF s
  <2>2. todo[t] # <<>> /\ Foremost(t) = LockNext /\ Tail(todo[t]) = s
    BY <2>1, ThenIs DEF Foremost
  <2>3. QED
    BY <2>2 DEF s
<1>5. Foremost(t).op = "lock" /\ Foremost(t).onError = "next"
  BY <1>4, LockIs
<1>6. Transceiver!e1000_acquire_phy_base(t) \/ Transceiver!AcquireFails(t)
  BY <1>4, <1>5, StepsAt, OpsDiffer
<1>7. PICK p, S, T : Knows(t, p, S) /\ Runs(kind, r, p, S, 0, T)
  BY <1>1 DEF Goes
<1>8. CASE Transceiver!e1000_acquire_phy_base(t)
  <2>1. /\ todo' = [todo EXCEPT ![t] = Transceiver!UnderLock(Foremost(t)) \o Tail(todo[t])]
        /\ holder' = t /\ UNCHANGED <<kind, page, saved, seen, blind, left>>
    BY <1>8 DEF Transceiver!e1000_acquire_phy_base, Foremost
  <2>2. Transceiver!UnderLock(Foremost(t)) = <<>>
    BY <1>5 DEF Transceiver!UnderLock
  <2>3. <<>> \o Tail(todo[t]) = Tail(todo[t])
    BY <1>3, <1>4, NothingBefore
  <2>4. todo'[t] = r \o <<Unlock>>
    BY <1>4, <2>1, <2>2, <2>3, TodoAt
  <2>5. Knows(t, p, S)'
    BY <1>7, <2>1 DEF Knows, Current
  <2>6. Goes(t, r)'
    BY <1>7, <2>1, <2>5 DEF Goes
  <2>7. PllInside(t)'
    BY <1>2, <2>1, <2>4, <2>6 DEF PllInside
  <2>8. QED
    BY <2>1, <2>7 DEF Follows, Phase, SavedZero
<1>9. CASE Transceiver!AcquireFails(t)
  <2>1. /\ todo' = [todo EXCEPT ![t] = Tail(todo[t])] /\ blind' = [blind EXCEPT ![t] = TRUE]
        /\ UNCHANGED <<kind, holder, page, saved, seen, left>>
    BY <1>5, <1>9 DEF Transceiver!AcquireFails, Foremost
  <2>2. todo'[t] = r \o <<Unlock>>
    BY <1>4, <2>1, TodoAt
  <2>3. blind'[t] = TRUE
    BY <2>1 DEF PhyTypes
  <2>4. Knows(t, p, S)'
    BY <1>2, <1>7, <2>1, <2>3 DEF Knows, Current
  <2>5. Goes(t, r)'
    BY <1>7, <2>1, <2>4 DEF Goes
  <2>6. PllInside(t)'
    BY <1>2, <2>1, <2>2, <2>3, <2>5 DEF PllInside
  <2>7. QED
    BY <2>1, <2>6 DEF Follows, Phase, SavedZero
<1>10. QED
  BY <1>6, <1>8, <1>9

LEMMA InsideStep ==
    ASSUME PhyTypes, SavedZero, NEW t \in Threads, PllInside(t), PhyStep(t)
    PROVE  Follows(t)
<1>1. PICK r : todo[t] = r \o <<Unlock>> /\ Goes(t, r)
  BY DEF PllInside
<1>2. PICK p, S, T : Knows(t, p, S) /\ Runs(kind, r, p, S, 0, T)
  BY <1>1 DEF Goes
<1>3. kind = Start /\ (holder = t \/ blind[t]) /\ kind \notin SelectsAlways
  BY DEF PllInside, Start, SelectsAlways, Transceiver!SelectsAlways
<1>4. PICK u : u = <<Unlock>> /\ IsProgram(u)
  BY OneIs
<1>5. IsProgram(r) /\ todo[t] = r \o u /\ (r = <<>> => p = 0)
  BY <1>1, <1>2, <1>4, RunsProgram
<1>6. todo[t] # <<>>
  BY InsideFirst
<1>7. CASE r = <<>>
  <2>1. todo[t] = <<Unlock>>
    BY <1>4, <1>5, <1>7, NothingBefore
  <2>2. Head(<<Unlock>>) = Unlock /\ Tail(<<Unlock>>) = <<>>
    OBVIOUS
  <2>3. Foremost(t) = Unlock /\ Tail(todo[t]) = <<>>
    BY <2>1, <2>2 DEF Foremost
  <2>4. Transceiver!e1000_release_phy_base(t)
    BY <1>6, <2>3, UnlockIs, StepsAt, OpsDiffer
  <2>5. /\ todo' = [todo EXCEPT ![t] = Tail(todo[t])] /\ holder' = "none"
        /\ UNCHANGED <<kind, page, saved, seen, blind, left>>
    BY <2>4 DEF Transceiver!e1000_release_phy_base
  <2>6. todo'[t] = <<>>
    BY <2>3, <2>5, TodoAt
  <2>7. ~left /\ ~blind[t] => page = 0
    BY <1>2, <1>3, <1>5, <1>7 DEF Knows, Current
  <2>8. holder' # t
    BY <2>5 DEF Threads, Transceiver!Threads
  <2>9. PllIdle(t)'
    BY <1>3, <2>5, <2>6, <2>7, <2>8 DEF PllIdle
  <2>10. QED
    BY <2>5, <2>9 DEF Follows, Phase, SavedZero
<1>8. CASE r # <<>>
  <2>1. Foremost(t) = Head(r) /\ Tail(todo[t]) = Tail(r) \o u
    BY <1>4, <1>5, <1>8, FirstOfBoth DEF Foremost
  <2>2. CASE Head(r).op = "either" /\ \A g \in Head(r).of :
               IsProgram(g) /\ \E X : X \subseteq S /\ Runs(kind, g \o Tail(r), p, X, 0, T)
    <3>1. Transceiver!Decide(t)
      BY <1>6, <2>1, <2>2, StepsAt, OpsDiffer
    <3>2. PICK g \in Head(r).of : todo' = [todo EXCEPT ![t] = g \o Tail(todo[t])]
      BY <2>1, <3>1 DEF Transceiver!Decide, Foremost
    <3>3. UNCHANGED <<kind, holder, page, saved, seen, blind, left>>
      BY <3>1 DEF Transceiver!Decide
    <3>4. PICK X : X \subseteq S /\ Runs(kind, g \o Tail(r), p, X, 0, T)
      BY <2>2
    <3>5. IsProgram(g) /\ IsProgram(Tail(r))
      BY <1>5, <1>8, <2>2, TailIsProgram
    <3>6. g \o (Tail(r) \o u) = (g \o Tail(r)) \o u
      <4>1. PICK h : h = Tail(r)
        OBVIOUS
      <4>2. IsProgram(g) /\ IsProgram(h) /\ IsProgram(u)
        BY <1>4, <3>5, <4>1
      <4>3. (g \o h) \o u = g \o (h \o u)
        BY <4>2, Associative
      <4>4. QED
        BY <4>1, <4>3
    <3>7. todo'[t] = (g \o Tail(r)) \o <<Unlock>>
      BY <1>4, <2>1, <3>2, <3>6, TodoAt
    <3>8. Knows(t, p, X)'
      BY <1>2, <3>3, <3>4 DEF Knows, Current
    <3>9. PICK f : f = g \o Tail(r)
      OBVIOUS
    <3>10. Goes(t, f)'
      BY <3>3, <3>4, <3>8, <3>9 DEF Goes
    <3>11. PllInside(t)'
      BY <1>3, <3>3, <3>7, <3>9, <3>10 DEF PllInside
    <3>12. QED
      BY <3>3, <3>11 DEF Follows, Phase, SavedZero
  <2>3. CASE Plain(kind, Head(r)) /\ \E q, X : /\ Allowed(kind, Head(r), p, S, q, X)
                                               /\ Runs(kind, Tail(r), q, X, 0, T)
    <3>1. PICK q, X : Allowed(kind, Head(r), p, S, q, X) /\ Runs(kind, Tail(r), q, X, 0, T)
      BY <2>3
    <3>2. /\ Foremost(t).op \in Accesses /\ Foremost(t).raw = TRUE /\ Foremost(t).onError = "next"
      BY <1>3, <2>1, <2>3, <3>1, PlainIs, OpsAllowed
    <3>3. Transceiver!Transfer(t) \/ Transceiver!TransferFails(t)
      BY <1>6, <3>2, StepsAt, OpsDiffer
    <3>4. ASSUME Knows(t, q, X)', SavedZero', todo' = [todo EXCEPT ![t] = Tail(todo[t])],
                 kind' = kind, holder' = holder, blind[t] => blind'[t]
          PROVE  Follows(t)
      <4>1. todo'[t] = Tail(r) \o <<Unlock>>
        BY <1>4, <2>1, <3>4, TodoAt
      <4>2. PICK f : f = Tail(r)
        OBVIOUS
      <4>3. Goes(t, f)'
        BY <3>1, <3>4, <4>2 DEF Goes
      <4>4. PllInside(t)'
        BY <1>3, <3>4, <4>1, <4>2, <4>3 DEF PllInside
      <4>5. QED
        BY <3>4, <4>4 DEF Follows, Phase
    <3>5. CASE Transceiver!Transfer(t)
      <4>1. Head(todo[t]) = Head(r)
        BY <2>1 DEF Foremost
      <4>2. Knows(t, q, X)' /\ SavedZero'
        BY <1>2, <1>3, <2>1, <3>1, <3>2, <3>5, <4>1, TransferKnows
      <4>3. QED
        BY <3>4, <3>5, <4>2 DEF Transceiver!Transfer
    <3>6. CASE Transceiver!TransferFails(t)
      <4>1. Transceiver!AfterError(todo[t]) = Tail(todo[t])
        BY <3>2 DEF Transceiver!AfterError, Foremost
      <4>2. /\ todo' = [todo EXCEPT ![t] = Tail(todo[t])]
            /\ blind' = [blind EXCEPT ![t] = blind[t] \/ Foremost(t).onError # "return"]
            /\ UNCHANGED <<kind, holder, page, saved, seen, left>>
        BY <3>6, <4>1 DEF Transceiver!TransferFails, Foremost
      <4>3. blind'[t] = TRUE
        BY <3>2, <4>2 DEF PhyTypes
      <4>4. Knows(t, q, X)' /\ SavedZero'
        BY <1>3, <4>2, <4>3 DEF Knows, SavedZero
      <4>5. QED
        BY <3>4, <4>2, <4>3, <4>4
    <3>7. QED
      BY <3>3, <3>5, <3>6
  <2>4. QED
    BY <1>2, <1>8, <2>2, <2>3, RunsNext
<1>9. QED
  BY <1>7, <1>8
-----------------------------------------------------------------------------
(* The invariant. *)
LEMMA TurnStep ==
    ASSUME PhyTypes, SavedZero, NEW t \in Threads, Phase(t), PhyStep(t)
    PROVE  Follows(t)
BY OutsideStep, ReleaseStep, TransferStep, SelectStep, IdleStep, BeginsStep, InsideStep
   DEF Phase

LEMMA InactiveStands ==
    ASSUME NEW t \in Threads, ~Active(t), todo[t] = <<>>
    PROVE  ~PhyStep(t)
<1>1. t = "link check" /\ kind \notin Transceiver!SelectsAlways
  BY DEF Active, Threads, Transceiver!Threads, SelectsAlways
<1>2. QED
  BY <1>1 DEF PhyStep, Transceiver!Call, Transceiver!Decide, Transceiver!GiveUp,
     Transceiver!Now, Transceiver!e1000_acquire_phy_base, Transceiver!AcquireFails,
     Transceiver!NeedsLock, Transceiver!e1000_release_phy_base, Transceiver!Transfer,
     Transceiver!TransferFails, Transceiver!Transferring

LEMMA PhyBegins ==
    ASSUME Transceiver!Init
    PROVE  PhyInvariant
<1>1. /\ kind \in Transceiver!Kinds
      /\ todo = [t \in Threads |-> <<>>]
      /\ holder = "none" /\ page = 0 /\ saved = 0
      /\ seen = [t \in Threads |-> {}] /\ blind = [t \in Threads |-> FALSE] /\ left = FALSE
  BY DEF Transceiver!Init, Threads
<1>2. \A t \in Threads : todo[t] = <<>> /\ seen[t] = {} /\ holder # t /\ blind[t] = FALSE
  BY <1>1 DEF Threads, Transceiver!Threads
<1>3. PhyTypes /\ SavedZero
  <2>1. blind \in [Threads -> BOOLEAN]
    BY <1>1, Zenon
  <2>2. todo = [t \in Threads |-> todo[t]] /\ seen = [t \in Threads |-> seen[t]]
    BY <1>1, <1>2
  <2>3. 0 \in 0 .. 255
    OBVIOUS
  <2>4. QED
    BY <1>1, <2>1, <2>2, <2>3 DEF PhyTypes, SavedZero
<1>4. ASSUME NEW t \in Threads PROVE Phase(t)
  <2>1. CASE kind = Start
    BY <1>1, <1>2, <2>1 DEF Phase, PllIdle
  <2>2. CASE kind # Start
    <3>1. Runs(kind, <<>>, 0, {}, 0, {})
      BY Stops
    <3>2. Knows(t, 0, {})
      BY <1>1, <1>2 DEF Knows, Current
    <3>3. Goes(t, todo[t])
      BY <1>2, <3>1, <3>2 DEF Goes
    <3>4. QED
      BY <1>2, <2>2, <3>3 DEF Phase, Outside
  <2>3. QED
    BY <2>1, <2>2
<1>5. QED
  BY <1>2, <1>3, <1>4 DEF PhyInvariant

LEMMA PhyGoesOn ==
    ASSUME PhyInvariant, Transceiver!Next
    PROVE  PhyInvariant'
<1>1. PICK t \in Threads : PhyStep(t)
  BY DEF Transceiver!Next, PhyStep, Threads
<1>2. PhyTypes /\ SavedZero
  BY DEF PhyInvariant
<1>3. Active(t)
  BY <1>1, InactiveStands DEF PhyInvariant
<1>4. Phase(t)
  BY <1>3 DEF PhyInvariant
<1>5. Follows(t) /\ Safe(t)
  BY <1>1, <1>2, <1>4, TurnStep, PhaseSafe
<1>6. PhyTypes'
  BY <1>1, <1>2, <1>5, TypesStay DEF Safe, Foremost
<1>7. kind' = kind /\ holder' \in {holder, t, "none"}
  BY <1>1, <1>2, Frame
<1>8. ASSUME NEW u \in Threads
      PROVE  (Active(u)' => Phase(u)') /\ (~Active(u)' => todo'[u] = <<>> /\ holder' # u)
  <2>1. CASE u = t
    BY <1>3, <1>5, <1>7, <2>1 DEF Active, Follows
  <2>2. CASE u # t /\ Active(u)
    <3>1. kind \in SelectsAlways
      BY <1>3, <2>2 DEF Active, Threads, Transceiver!Threads
    <3>2. Phase(u)
      BY <2>2 DEF PhyInvariant
    <3>3. Phase(u)'
      BY <1>1, <1>2, <1>5, <2>2, <3>1, <3>2, OtherStays
    <3>4. QED
      BY <1>7, <2>2, <3>3 DEF Active
  <2>3. CASE u # t /\ ~Active(u)
    <3>1. todo[u] = <<>> /\ holder # u
      BY <2>3 DEF PhyInvariant
    <3>2. todo'[u] = todo[u]
      BY <1>1, <1>2, <2>3, Frame
    <3>3. u # "none"
      BY DEF Threads, Transceiver!Threads
    <3>4. QED
      BY <1>7, <2>3, <3>1, <3>2, <3>3 DEF Active
  <2>4. QED
    BY <2>1, <2>2, <2>3
<1>9. QED
  BY <1>5, <1>6, <1>8 DEF PhyInvariant, Follows

LEMMA PhyRests ==
    ASSUME PhyInvariant, UNCHANGED phyVars
    PROVE  PhyInvariant'
<1>1. UNCHANGED <<kind, todo, holder, page, saved, seen, blind, left>>
  BY DEF phyVars, Transceiver!phyVars
<1>2. PhyTypes' /\ SavedZero'
  BY <1>1 DEF PhyInvariant, PhyTypes, SavedZero
<1>3. ASSUME NEW t \in Threads, Phase(t) PROVE Phase(t)'
  <2>1. \A p, S : Knows(t, p, S) => Knows(t, p, S)'
    BY <1>1 DEF Knows, Current
  <2>2. \A f : Goes(t, f) => Goes(t, f)'
    BY <1>1, <2>1 DEF Goes
  <2>3. \A a, rest : Accessing(t, a, rest) => Accessing(t, a, rest)'
    BY <1>1, <2>1 DEF Accessing
  <2>4. CASE Outside(t)
    BY <1>1, <2>2, <2>4 DEF Outside, Phase
  <2>5. CASE AtRelease(t)
    BY <1>1, <2>2, <2>5 DEF AtRelease, Phase
  <2>6. CASE AtTransfer(t)
    <3>1. PICK a, rest : /\ todo[t] = Then(Raw(a), Then(Unlock, rest)) /\ Accessing(t, a, rest)
                         /\ kind \in SelectsAlways /\ a.op # "reset" /\ Matters(kind, a)
                              => page = a.page
      BY <2>6 DEF AtTransfer
    <3>2. AtTransfer(t)'
      BY <1>1, <2>3, <2>6, <3>1 DEF AtTransfer
    <3>3. QED
      BY <3>2 DEF Phase
  <2>7. CASE AtSelect(t)
    <3>1. PICK a, rest : /\ todo[t] = Then(PageSelect(a), Then(Raw(a), Then(Unlock, rest)))
                         /\ Accessing(t, a, rest) /\ a.op # "reset"
      BY <2>7 DEF AtSelect
    <3>2. AtSelect(t)'
      BY <1>1, <2>3, <2>7, <3>1 DEF AtSelect
    <3>3. QED
      BY <3>2 DEF Phase
  <2>8. CASE PllIdle(t)
    BY <1>1, <2>8 DEF PllIdle, Phase
  <2>9. CASE PllBegins(t)
    BY <1>1, <2>2, <2>9 DEF PllBegins, Phase
  <2>10. CASE PllInside(t)
    BY <1>1, <2>2, <2>10 DEF PllInside, Phase
  <2>11. QED
    BY <1>3, <2>4, <2>5, <2>6, <2>7, <2>8, <2>9, <2>10 DEF Phase
<1>4. QED
  BY <1>1, <1>2, <1>3 DEF PhyInvariant, Active

LEMMA PhyHolds == ServicesSpec => []PhyInvariant
<1>1. ServicesInit => PhyInvariant
  BY PhyBegins DEF ServicesInit
<1>2. PhyInvariant /\ [ServicesNext]_serviceVars => PhyInvariant'
  BY PhyGoesOn, PhyRests DEF ServicesNext, serviceVars
<1>3. QED
  BY <1>1, <1>2, PTL DEF ServicesSpec

(* Every access of the drivers' functions for the PHY is made, and the     *)
(* semaphore released, only by its holder, and no call ends with it,       *)
(* whichever accesses fail and however two threads take turns; but         *)
(* e1000_pll_workaround_i210 goes on without it.                           *)
THEOREM SemaphoresAreBalanced == ServicesSpec => []SemaphoreBalanced
<1>1. ASSUME PhyInvariant PROVE SemaphoreBalanced
  <2>1. ASSUME NEW t \in Threads
        PROVE  /\ holder = t => todo[t] # <<>>
               /\ Transceiver!Transferring(t) \/ Transceiver!Now(t, {"unlock"})
                    => holder = t \/ blind[t]
               /\ Transceiver!Now(t, {"fail"}) \/ Transceiver!NeedsLock(t) => holder # t
    <3>1. CASE Active(t)
      BY <1>1, <3>1, PhaseSafe DEF PhyInvariant, Safe
    <3>2. CASE ~Active(t)
      BY <1>1, <3>2 DEF PhyInvariant, Transceiver!Transferring, Transceiver!Now,
         Transceiver!NeedsLock
    <3>3. QED
      BY <3>1, <3>2
  <2>2. QED
    BY <2>1 DEF SemaphoreBalanced, Transceiver!SemaphoreBalanced, Threads
<1>2. QED
  BY <1>1, PhyHolds, PTL

(* A transfer is made on its register's page, and a change of what was read. *)
LEMMA OnItsPage ==
    ASSUME NEW t, ~left, ~blind[t],
           NEW a, NEW p, NEW S, NEW q, NEW X,
           Knows(t, p, S), Allowed(kind, a, p, S, q, X),
           kind \in SelectsAlways /\ a.op # "reset" /\ Matters(kind, a) => page = a.page
    PROVE  /\ a.op \in {"read", "write", "update"} /\ Matters(kind, a) => page = a.page
           /\ a.op = "update" => <<IF Matters(kind, a) THEN page ELSE 0, a.reg>> \in seen[t]
<1>1. p = Current /\ S \subseteq seen[t]
  BY DEF Knows
<1>2. a.op \in {"read", "write", "update"} => OnPage(kind, a, p)
  BY DEF Allowed
<1>3. a.op \in {"read", "write", "update"} /\ Matters(kind, a) => page = a.page
  BY <1>1, <1>2 DEF OnPage, Current
<1>4. a.op = "update" => Mark(kind, a) \in S
  BY DEF Allowed
<1>5. QED
  BY <1>1, <1>3, <1>4 DEF Mark

(* Whatever accesses fail and whatever the data decide, a register is read *)
(* and written on its page, what is changed was read before, and a call    *)
(* that succeeds leaves page 0 where callers rely on it: for the calls and *)
(* the errors that PageDiscipline names.                                   *)
THEOREM PagesAreKept == ServicesSpec => []PageDiscipline
<1>1. ASSUME PhyInvariant, NEW t \in Threads, Transceiver!Transferring(t), ~blind[t], ~left
      PROVE  LET a == Head(todo[t])
             IN  /\ a.op \in {"read", "write", "update"} /\ Transceiver!PageMatters(a)
                      => page = a.page
                 /\ a.op = "update" => Transceiver!Seen(a) \in seen[t]
  <2> DEFINE b == Head(todo[t])
  <2>1. Transceiver!PageMatters(b) = Matters(kind, b)
        /\ Transceiver!Seen(b) = <<IF Matters(kind, b) THEN page ELSE 0, b.reg>>
    BY DEF Transceiver!Seen, Transceiver!PageMatters, Matters
  <2>2. todo[t] # <<>> /\ b.op \in Accesses /\ b.raw
    BY <1>1 DEF Transceiver!Transferring, Transceiver!Now, Accesses
  <2>3. Phase(t)
    BY <1>1, <2>2 DEF PhyInvariant
  <2>4. ASSUME NEW a, b.op = a.op, b.page = a.page, b.reg = a.reg,
               a.op \in {"read", "write", "update"} /\ Matters(kind, a) => page = a.page,
               a.op = "update" => <<IF Matters(kind, a) THEN page ELSE 0, a.reg>> \in seen[t]
        PROVE  /\ b.op \in {"read", "write", "update"} /\ Transceiver!PageMatters(b)
                    => page = b.page
               /\ b.op = "update" => Transceiver!Seen(b) \in seen[t]
    BY <2>1, <2>4 DEF Matters
  <2>5. CASE AtTransfer(t)
    <3>1. PICK a, rest : /\ todo[t] = Then(Raw(a), Then(Unlock, rest)) /\ Accessing(t, a, rest)
                         /\ kind \in SelectsAlways /\ a.op # "reset" /\ Matters(kind, a)
                              => page = a.page
      BY <2>5 DEF AtTransfer
    <3>2. PICK p, S, q, X, T : /\ Knows(t, p, S) /\ Allowed(kind, a, p, S, q, X)
                               /\ Runs(kind, rest, q, X, 0, T)
      BY <3>1 DEF Accessing
    <3>3. b = Raw(a)
      BY <3>1, AccessingIs, ThenIs
    <3>4. b.op = a.op /\ b.page = a.page /\ b.reg = a.reg
      BY <3>1, <3>3, RawIs DEF Accessing
    <3>5. /\ a.op \in {"read", "write", "update"} /\ Matters(kind, a) => page = a.page
          /\ a.op = "update" => <<IF Matters(kind, a) THEN page ELSE 0, a.reg>> \in seen[t]
      BY <1>1, <3>1, <3>2, OnItsPage
    <3>6. QED
      BY <2>4, <3>4, <3>5
  <2>6. CASE AtSelect(t)
    BY <2>6, SelectFirst DEF Foremost
  <2>7. CASE PllInside(t)
    <3>1. PICK r : todo[t] = r \o <<Unlock>> /\ Goes(t, r)
      BY <2>7 DEF PllInside
    <3>2. PICK p, S, T : Knows(t, p, S) /\ Runs(kind, r, p, S, 0, T)
      BY <3>1 DEF Goes
    <3>3. PICK u : u = <<Unlock>> /\ IsProgram(u)
      BY OneIs
    <3>4. IsProgram(r)
      BY <3>2, RunsProgram
    <3>5. r # <<>>
      <4>1. CASE r = <<>>
        <5>1. todo[t] = <<Unlock>>
          BY <3>1, <3>3, <4>1, NothingBefore
        <5>2. Head(<<Unlock>>) = Unlock
          OBVIOUS
        <5>3. b.op = "unlock"
          BY <5>1, <5>2, UnlockIs
        <5>4. QED
          BY <2>2, <5>3, OpsDiffer
      <4>2. QED
        BY <4>1
    <3>6. b = Head(r)
      BY <3>1, <3>3, <3>4, <3>5, FirstOfBoth
    <3>7. PICK q, X : Allowed(kind, b, p, S, q, X)
      BY <2>2, <3>2, <3>5, <3>6, RunsNext, OpsDiffer
    <3>8. kind \notin SelectsAlways
      BY <2>7 DEF PllInside, Start, SelectsAlways, Transceiver!SelectsAlways
    <3>9. /\ b.op \in {"read", "write", "update"} /\ Matters(kind, b) => page = b.page
          /\ b.op = "update" => <<IF Matters(kind, b) THEN page ELSE 0, b.reg>> \in seen[t]
      <4> HIDE DEF b
      <4>1. QED
        BY <1>1, <3>2, <3>7, <3>8, OnItsPage
    <3>10. QED
      BY <2>1, <3>9
  <2>8. ~Outside(t) /\ ~AtRelease(t) /\ ~PllIdle(t) /\ ~PllBegins(t)
    <3>1. ~Outside(t)
      BY <2>2, OutsideFirst, OpsDiffer DEF Foremost
    <3>2. ~AtRelease(t)
      BY <2>2, ReleaseFirst, UnlockIs, OpsDiffer DEF Foremost
    <3>3. ~PllBegins(t)
      BY <2>2, BeginsFirst, LockIs, OpsDiffer DEF Foremost
    <3>4. QED
      BY <2>2, <3>1, <3>2, <3>3 DEF PllIdle
  <2>9. QED
    BY <2>3, <2>5, <2>6, <2>7, <2>8 DEF Phase
<1>2. ASSUME PhyInvariant, kind \notin SelectsAlways, ~left,
             \A t \in Threads : todo[t] = <<>> /\ ~blind[t]
      PROVE  page = 0
  <2>1. PICK t : t = "caller"
    OBVIOUS
  <2>2. t \in Threads /\ Active(t)
    BY <2>1 DEF Threads, Transceiver!Threads, Active
  <2>3. Phase(t) /\ todo[t] = <<>> /\ ~blind[t]
    BY <1>2, <2>2 DEF PhyInvariant
  <2>4. CASE Outside(t)
    <3>1. PICK p, S, T : Knows(t, p, S) /\ Runs(kind, <<>>, p, S, 0, T)
      BY <2>3, <2>4 DEF Outside, Goes
    <3>2. p = 0
      BY <3>1, RunsProgram
    <3>3. QED
      BY <1>2, <2>3, <3>1, <3>2 DEF Knows, Current
  <2>5. CASE PllIdle(t)
    BY <1>2, <2>3, <2>5 DEF PllIdle
  <2>6. QED
    BY <2>3, <2>4, <2>5, ReleaseFirst, TransferFirst, SelectFirst, BeginsFirst, InsideFirst
       DEF Phase
<1>3. ASSUME PhyInvariant PROVE PageDiscipline
  <2>1. \A t \in Threads : Transceiver!Transferring(t) /\ ~blind[t] /\ ~left =>
           LET a == Head(todo[t])
           IN  /\ a.op \in {"read", "write", "update"} /\ Transceiver!PageMatters(a)
                    => page = a.page
               /\ a.op = "update" => Transceiver!Seen(a) \in seen[t]
    BY <1>1, <1>3
  <2>2. /\ kind \notin SelectsAlways /\ ~left
        /\ \A t \in Threads : todo[t] = <<>> /\ ~blind[t]
        => page = 0
    BY <1>2, <1>3
  <2>3. QED
    BY <2>1, <2>2 DEF PageDiscipline, Transceiver!PageDiscipline, Threads, SelectsAlways
<1>4. QED
  BY <1>3, PhyHolds, PTL
-----------------------------------------------------------------------------
(* The types. Those of the host interface ask for a bound of their own: no *)
(* poll is counted beyond the time-out, no dword copied beyond the end.    *)
HostBounds ==
    /\ HICR \subseteq {"C", "SV"} /\ firmware \in {"running", "reset", "restarted", "ready"}
    /\ commands \in 0 .. MaxCommands
    /\ window \in [Host!Slots -> 0 .. BlockLength] /\ call.answer \in Seq(0 .. BlockLength)
    /\ call.step \in {"command", "awaitMode", "load"} => call.i <= Timeout
    /\ call.step # "copying" => call.i <= 2 * Timeout

LEMMA HostNumbers == Timeout \in Nat /\ MaxCommands \in Nat /\ Timeout <= 2 * Timeout
BY ServicesAssumption

LEMMA HostBoundsCall ==
    ASSUME HostInvariant, HostBounds, Host!e1000_host_interface_command \/ Host!e1000_load_firmware
    PROVE  HostBounds'
<1>1. PICK kd, step, length : step \in {"command", "awaitReset"} /\ Host!Begins(kd, step, length)
  BY DEF Host!e1000_host_interface_command, Host!e1000_load_firmware
<1>2. call' = [step |-> step, length |-> length, i |-> 0, status |-> "SUCCESS",
               answer |-> <<>>, kind |-> kd]
  BY <1>1 DEF Host!Begins, Host!None
<1>3. commands' \in 0 .. MaxCommands
  BY <1>1, HostNumbers DEF HostBounds, Host!Begins
<1>4. window' \in [Host!Slots -> 0 .. BlockLength]
  <2>1. CASE Host!e1000_host_interface_command
    <3>1. PICK n \in 1 .. BlockLength :
            window' = [s \in Host!Slots |-> IF s < n THEN s + 1 ELSE window[s]]
      BY <2>1 DEF Host!e1000_host_interface_command
    <3>2. \A s \in Host!Slots : s + 1 \in 0 .. BlockLength /\ window[s] \in 0 .. BlockLength
      BY Lengths DEF Host!Slots, HostBounds
    <3>3. QED
      BY <3>1, <3>2
  <2>2. CASE Host!e1000_load_firmware
    BY <2>2 DEF Host!e1000_load_firmware, HostBounds
  <2>3. QED
    BY <2>1, <2>2
<1>5. HICR' \subseteq {"C", "SV"} /\ firmware' \in {"running", "reset", "restarted", "ready"}
  BY DEF Host!e1000_host_interface_command, Host!e1000_load_firmware, HostBounds
<1>6. call'.answer \in Seq(0 .. BlockLength)
  BY <1>2
<1>7. QED
  BY <1>2, <1>3, <1>4, <1>5, <1>6, HostNumbers DEF HostBounds

(* A step of a call that goes on. *)
LEMMA HostBoundsGo ==
    ASSUME HostInvariant, HostBounds,
           \/ Host!AwaitAnswer \/ Host!AwaitReset \/ Host!AwaitMode
           \/ Host!CopyDword \/ Host!Commit \/ Host!AwaitLoaded
    PROVE  HostBounds'
<1>1. call \in CallType /\ call.i \in Nat
  BY DEF HostInvariant, HostTypes, CallType
<1>2. /\ HICR' \subseteq {"C", "SV"} /\ firmware' = firmware /\ commands' = commands
      /\ window' = window
  BY DEF HostBounds, Host!AwaitAnswer, Host!AwaitReset, Host!AwaitMode, Host!CopyDword,
         Host!Commit, Host!AwaitLoaded
<1>3. ASSUME call'.answer = call.answer,
             \/ call'.step = "copying"
             \/ call'.step # "copying" /\ call'.i = 0
             \/ call'.step = call.step /\ call'.i = call.i + 1
                  /\ (call.step # "awaitReset" => call.i < Timeout)
                  /\ (call.step = "awaitReset" => call.i < 2 * Timeout)
             \/ call'.step = "idle" /\ call'.i = call.i /\ call.step # "copying"
             \/ call'.step \in {"idle", "awaitReset"} /\ call'.i <= 2 * Timeout
      PROVE  HostBounds'
  BY <1>1, <1>2, <1>3, HostNumbers DEF HostBounds
<1>4. CASE Host!AwaitAnswer
  <2>1. CASE call' = [call EXCEPT !.i = @ + 1] /\ call.i < Timeout
    BY <1>1, <1>3, <1>4, <2>1 DEF Host!AwaitAnswer, CallType
  <2>2. CASE Host!Fails("HOST_INTERFACE_COMMAND")
    BY <1>1, <1>3, <1>4, <2>2 DEF Host!AwaitAnswer, Host!Fails, CallType
  <2>3. CASE call' = [Host!None EXCEPT !.kind = "command", !.length = call.length,
                        !.answer = [k \in 1 .. call.length |-> window[k - 1]]]
    <3>1. call.length \in Nat /\ call.length <= BlockLength
      BY <1>1, <1>4 DEF CallType, HostInvariant, StepsOfKinds, Host!AwaitAnswer
    <3>2. \A k \in 1 .. call.length : window[k - 1] \in 0 .. BlockLength
      <4>1. \A k \in 1 .. call.length : k - 1 \in Host!Slots
        BY <3>1, Lengths DEF Host!Slots
      <4>2. QED
        BY <4>1 DEF HostBounds
    <3>3. [k \in 1 .. call.length |-> window[k - 1]] \in Seq(0 .. BlockLength)
      <4> DEFINE D == 0 .. BlockLength
      <4>1. \A k \in 1 .. call.length : window[k - 1] \in D
        BY <3>2
      <4> HIDE DEF D
      <4>2. [k \in 1 .. call.length |-> window[k - 1]] \in Seq(D)
        BY <3>1, <4>1
      <4>3. QED
        BY <4>2 DEF D
    <3>4. /\ call'.answer = [k \in 1 .. call.length |-> window[k - 1]]
          /\ call'.i = 0 /\ call'.step = "idle"
      BY <2>3 DEF Host!None
    <3>5. QED
      BY <1>2, <3>3, <3>4, HostNumbers DEF HostBounds
  <2>4. QED
    BY <1>4, <2>1, <2>2, <2>3 DEF Host!AwaitAnswer, Host!Polls
<1>5. CASE Host!AwaitReset
  <2>1. CASE call' = [call EXCEPT !.i = @ + 1] /\ call.i < 2 * Timeout
    BY <1>1, <1>3, <1>5, <2>1 DEF Host!AwaitReset, CallType
  <2>2. CASE Host!Fails("HOST_INTERFACE_COMMAND") \/ Host!Goes("awaitMode")
    BY <1>1, <1>3, <1>5, <2>2 DEF Host!AwaitReset, Host!Fails, Host!Goes, CallType
  <2>3. QED
    BY <1>5, <2>1, <2>2 DEF Host!AwaitReset, Host!Polls
<1>6. CASE Host!AwaitMode
  <2>1. CASE call' = [call EXCEPT !.i = @ + 1] /\ call.i < Timeout
    BY <1>1, <1>3, <1>6, <2>1 DEF Host!AwaitMode, CallType
  <2>2. CASE Host!Fails("HOST_INTERFACE_COMMAND") \/ Host!Goes("copying")
    BY <1>1, <1>3, <1>6, <2>2 DEF Host!AwaitMode, Host!Fails, Host!Goes, CallType
  <2>3. QED
    BY <1>6, <2>1, <2>2 DEF Host!AwaitMode, Host!Polls
<1>7. CASE Host!CopyDword
  BY <1>1, <1>3, <1>7 DEF Host!CopyDword, Host!Polls, CallType
<1>8. CASE Host!Commit
  BY <1>1, <1>3, <1>8 DEF Host!Commit, Host!Goes, CallType
<1>9. CASE Host!AwaitLoaded
  <2>1. CASE call' = [call EXCEPT !.i = @ + 1] /\ call.i < Timeout
    BY <1>1, <1>3, <1>9, <2>1 DEF Host!AwaitLoaded, CallType
  <2>2. CASE Host!Fails("HOST_INTERFACE_COMMAND") \/ call' = [call EXCEPT !.step = "idle"]
    BY <1>1, <1>3, <1>9, <2>2 DEF Host!AwaitLoaded, Host!Fails, CallType
  <2>3. QED
    BY <1>9, <2>1, <2>2 DEF Host!AwaitLoaded, Host!Polls
<1>10. QED
  BY <1>4, <1>5, <1>6, <1>7, <1>8, <1>9

LEMMA HostBoundsFirmware ==
    ASSUME HostBounds, Host!FirmwareServes \/ Host!FirmwareRestarts
    PROVE  HostBounds'
<1>1. CASE Host!FirmwareServes
  <2>1. 0 \in 0 .. BlockLength
    BY Lengths
  <2>2. window' \in [Host!Slots -> 0 .. BlockLength]
    BY <1>1, <2>1 DEF Host!FirmwareServes, HostBounds
  <2>3. QED
    BY <1>1, <2>2 DEF Host!FirmwareServes, HostBounds
<1>2. CASE Host!FirmwareRestarts
  BY <1>2 DEF Host!FirmwareRestarts, HostBounds
<1>3. QED
  BY <1>1, <1>2

LEMMA HostBoundsHold == ServicesSpec => []HostBounds
<1>1. ServicesInit => HostBounds
  <2> SUFFICES ASSUME Host!Init PROVE HostBounds
    BY DEF ServicesInit
  <2>1. 0 \in 0 .. BlockLength
    BY Lengths
  <2>2. QED
    BY <2>1, HostNumbers DEF Host!Init, Host!None, HostBounds
<1>2. HostInvariant /\ HostBounds /\ [ServicesNext]_serviceVars => HostBounds'
  <2> SUFFICES ASSUME HostInvariant, HostBounds, [ServicesNext]_serviceVars
               PROVE  HostBounds'
    OBVIOUS
  <2>1. CASE Host!Next
    BY <2>1, HostBoundsCall, HostBoundsGo, HostBoundsFirmware DEF Host!Next
  <2>2. CASE UNCHANGED mngVars
    BY <2>2 DEF mngVars, HostBounds
  <2>3. QED
    BY <2>1, <2>2 DEF ServicesNext, serviceVars
<1>3. QED
  BY <1>1, <1>2, HostHolds, PTL DEF ServicesSpec

LEMMA HostTyped ==
    ASSUME HostInvariant, HostBounds
    PROVE  Host!TypeOK
<1>1. 0 .. BlockLength \subseteq Host!Dwords
  BY DEF Host!Dwords
<1>2. window \in [Host!Slots -> Host!Dwords] /\ call.answer \in Seq(Host!Dwords)
  <2>1. call.answer \in Seq(Host!Dwords)
    BY <1>1, SeqMonotonic DEF HostBounds
  <2>2. QED
    BY <1>1, <2>1 DEF HostBounds
<1>3. call.i \in 0 .. (2 * Timeout) \cup Host!Dwords
  <2>1. call.i \in Nat /\ call.length \in Nat
    BY DEF HostInvariant, HostTypes, CallType
  <2>2. CASE call.step = "copying"
    <3>1. call.i <= call.length /\ call.length <= MaxLength
      BY <2>2 DEF HostInvariant, CopiedSoFar, StepsOfKinds
    <3>2. QED
      BY <2>1, <3>1, Lengths DEF Host!Dwords
  <2>3. CASE call.step # "copying"
    BY <2>1, <2>3, HostNumbers DEF HostBounds
  <2>4. QED
    BY <2>2, <2>3
<1>4. QED
  BY <1>2, <1>3 DEF HostInvariant, HostTypes, HostBounds, CallType, Host!TypeOK

(* What every variable of the services may hold, for all their bounds:     *)
(* among them that the words of a memory stay words when a checksum is     *)
(* written, that neither end of the mailbox gets anything but a message,   *)
(* that a dword is copied into the firmware's memory and not beyond it,    *)
(* and that of a record its place is found.                                *)
THEOREM ServicesTyped == ServicesSpec => []ServicesTypeOK
<1>1. ASSUME NvmInvariant, MemoryHolds PROVE TypeOK
  BY <1>1 DEF NvmInvariant, NvmTypes, HeldForTransfer, MemoryHolds, TypeOK
<1>2. ASSUME PbaInvariant, RecordFound PROVE Contents!TypeOK
  BY <1>2 DEF PbaInvariant, PbaTypes, RecordFound, PbaStatus, Contents!TypeOK
<1>3. ASSUME MailboxInvariant PROVE Mbx!TypeOK
  BY <1>3 DEF MailboxInvariant, MailboxTypes, VfType, PfType, VfPlaces, PfPlaces, Mbx!TypeOK
<1>4. ASSUME PhyInvariant PROVE Transceiver!TypeOK
  <2>1. todo = [t \in Threads |-> todo[t]] => DOMAIN todo = Threads
    OBVIOUS
  <2>2. seen = [t \in Threads |-> seen[t]] => DOMAIN seen = Threads
    OBVIOUS
  <2>3. QED
    BY <1>4, <2>1, <2>2 DEF PhyInvariant, PhyTypes, Threads, Transceiver!TypeOK
<1>5. /\ NvmInvariant /\ MemoryHolds /\ PbaInvariant /\ RecordFound /\ MailboxInvariant
      /\ PhyInvariant /\ HostInvariant /\ HostBounds
      => ServicesTypeOK
  BY <1>1, <1>2, <1>3, <1>4, HostTyped DEF ServicesTypeOK
<1>6. QED
  BY <1>5, NvmHolds, MemoryAlwaysHolds, PbaHolds, RecordAlwaysFound, MailboxInvariance, PhyHolds,
     HostHolds, HostBoundsHold, PTL
=============================================================================
