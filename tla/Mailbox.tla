------------------------------ MODULE Mailbox -------------------------------
(***************************************************************************)
(* The mailbox between a physical and a virtual function (e1000_mbx.c),    *)
(* with the requests a virtual function makes through it (e1000_vf.c). One *)
(* buffer serves both directions. An end owns it from obtaining its bit,   *)
(* VFU or PFU, to the write that signals the other end, which drops the    *)
(* bit. The bits that tell the virtual function of a message, of an        *)
(* acknowledgement and of a reset are cleared by being read, so every read *)
(* of the register is kept in a copy.                                      *)
(*                                                                         *)
(* Polling ends in success or in its time-out, whichever comes first. The  *)
(* driver of the physical function is not part of the code: it is taken to *)
(* serve one thing after the other with the functions the code has for it. *)
(***************************************************************************)
EXTENDS Naturals, FiniteSets

CONSTANTS
    MaxRequests,     \* bound on the requests of the virtual function
    MaxUnsolicited,  \* bound on the messages the other end sends on its own
    MaxHashes,       \* multicast hashes that fit into a message (30)
    MaxMulticast     \* longest multicast list tried

VARIABLES
    VMBMEM,           \* the two halves of the buffer, each part of a message
    owner,            \* who has its bit set: "vf", "pf" or "none"
    V2PMAILBOX,       \* what the register would show the virtual function
    MBVFICR,          \* what the physical function is told: VFREQ, VFACK, VFLRE
    v2p_mailbox,      \* hw->dev_spec.vf.v2p_mailbox
    timeout,          \* hw->mbx.timeout is not zero
    get_link_status,  \* of the virtual function
    mac,              \* its perm_addr is known, its addr is its own choice
    vf, pf,           \* the two ends: where they are and the message they have
    unread            \* history: a message to the virtual function nobody read

mbxVars == <<VMBMEM, owner, V2PMAILBOX, MBVFICR, v2p_mailbox, timeout, get_link_status, mac,
             vf, pf, unread>>

Kinds == {"RESET", "SET_MAC_ADDR", "SET_MULTICAST", "SET_VLAN", "SET_LPE", "SET_PROMISC"}
Msg(from, kind, n, type, cts) ==
    [from |-> from, kind |-> kind, n |-> n, type |-> type, cts |-> cts, count |-> 0]
Blank == Msg("none", "CONTROL", 0, "none", FALSE)
Messages ==
    [from : {"none", "vf", "pf"}, kind : Kinds \cup {"CONTROL"}, n : 0 .. MaxRequests,
     type : {"none", "ACK", "NACK"}, cts : BOOLEAN, count : 0 .. MaxHashes]
Halves == [head : Messages, tail : Messages]
Both(m) == [head |-> m, tail |-> m]

TypeOK ==
    /\ VMBMEM \in Halves /\ owner \in {"none", "vf", "pf"}
    /\ V2PMAILBOX \subseteq {"PFSTS", "PFACK", "RSTI", "RSTD"}
    /\ v2p_mailbox \subseteq {"PFSTS", "PFACK", "RSTD"}
    /\ MBVFICR \subseteq {"VFREQ", "VFACK", "VFLRE"}
    /\ timeout \in BOOLEAN /\ get_link_status \in BOOLEAN /\ unread \in BOOLEAN
    /\ mac \in [perm_addr : BOOLEAN, addr : {"own", "perm"}]
    /\ vf.pc \in {"idle", "resetting", "writing", "filling", "acked", "answered", "reading",
                  "copying", "done", "checking"}
    /\ vf.msg \in Messages /\ vf.got \in Halves /\ vf.n \in 0 .. MaxRequests
    /\ vf.sent \in BOOLEAN
    /\ pf.pc \in {"idle", "reading", "copying", "writing", "filling"}
    /\ pf.msg \in Messages /\ pf.got \in Halves /\ pf.left \in 0 .. MaxUnsolicited
    /\ pf.read \in 0 .. MaxRequests

(* e1000_init_mbx_params_vf: the mailbox is unused until the first reset. *)
Init ==
    /\ VMBMEM = Both(Blank) /\ owner = "none" /\ V2PMAILBOX = {} /\ MBVFICR = {}
    /\ v2p_mailbox = {} /\ timeout = FALSE /\ get_link_status = TRUE
    /\ mac = [perm_addr |-> FALSE, addr |-> "own"]
    /\ vf = [pc |-> "idle", msg |-> Blank, got |-> Both(Blank), n |-> 0,
             sent |-> FALSE]
    /\ pf = [pc |-> "idle", msg |-> Blank, got |-> Both(Blank), left |-> MaxUnsolicited,
             read |-> 0]
    /\ unread = FALSE
-----------------------------------------------------------------------------
(* Registers. *)

R2C_ALL == {"PFSTS", "PFACK", "RSTD", "VFU"}  \* mutant: ownership is kept as well
R2C_BITS == {"PFSTS", "PFACK", "RSTD"}

(* e1000_read_v2p_mailbox: the bits read, with those earlier reads cleared *)
(* from the register; the caller drops the ones it asked for.              *)
Shown(o) == V2PMAILBOX \cup v2p_mailbox \cup (IF o = "vf" THEN {"VFU"} ELSE {})
CopyForgotten(o, mask) == {}  \* mutant: bits nobody asked for are lost
Kept(o, mask) == (Shown(o) \cap R2C_BITS) \ mask
ReadV2P(o, mask) ==
    /\ v2p_mailbox' = Kept(o, mask)
    /\ V2PMAILBOX' = V2PMAILBOX \ R2C_BITS

(* Writing VFU or PFU takes the buffer unless the other end owns it.       *)
TakenBy(e) == IF owner \in {"none", e} THEN e ELSE owner

VfMoves(pc) == vf' = [vf EXCEPT !.pc = pc]
-----------------------------------------------------------------------------
(* The virtual function's requests: each has its message and its end. *)

(* e1000_reset_hw_vf waits for the physical function's own reset to be     *)
(* over, enables the mailbox, and asks for its address.                    *)
e1000_reset_hw_vf ==
    /\ vf.pc = "idle" /\ vf.n < MaxRequests
    /\ MBVFICR' = MBVFICR \cup {"VFLRE"}
    /\ VfMoves("resetting")
    /\ UNCHANGED <<VMBMEM, owner, V2PMAILBOX, v2p_mailbox, timeout, get_link_status, mac, pf,
                   unread>>

AwaitReset ==
    /\ vf.pc = "resetting"
    /\ ReadV2P(owner, {"RSTI", "RSTD"})
    /\ \/ /\ Shown(owner) \cap {"RSTI", "RSTD"} = {}
          /\ timeout' = TRUE
          /\ vf' = [vf EXCEPT !.pc = "writing", !.n = @ + 1, !.sent = FALSE,
                              !.msg = Msg("vf", "RESET", vf.n + 1, "none", FALSE)]
       \/ /\ Shown(owner) \cap {"RSTI", "RSTD"} # {}
          /\ VfMoves("idle") /\ UNCHANGED timeout
    /\ UNCHANGED <<VMBMEM, owner, MBVFICR, get_link_status, mac, pf, unread>>

(* e1000_write_posted_mbx does nothing while the mailbox has timed out.    *)
Request(kind, count) ==
    /\ vf.pc = "idle" /\ vf.n < MaxRequests /\ timeout
    /\ vf' = [vf EXCEPT !.pc = "writing", !.n = @ + 1, !.sent = FALSE,
                !.msg = [Msg("vf", kind, vf.n + 1, "none", FALSE) EXCEPT !.count = count]]
    /\ UNCHANGED <<VMBMEM, owner, V2PMAILBOX, MBVFICR, v2p_mailbox, timeout, get_link_status,
                   mac, pf, unread>>

e1000_rar_set_vf == Request("SET_MAC_ADDR", 0)
e1000_vfta_set_vf == Request("SET_VLAN", 0)
e1000_rlpml_set_vf == Request("SET_LPE", 0)
e1000_promisc_set_vf == Request("SET_PROMISC", 0)

(* The list is cut to what fits. The overflow flag is set in the message's *)
(* first word, and lost when the word is assigned right after.             *)
e1000_update_mc_addr_list_vf ==
    \E mc_addr_count \in 0 .. MaxMulticast :
        Request("SET_MULTICAST", IF mc_addr_count > MaxHashes THEN MaxHashes ELSE mc_addr_count)
-----------------------------------------------------------------------------
(* e1000_write_mbx_vf *)

(* The buffer is obtained; message and acknowledgement flags still set are *)
(* for what the new message overwrites, and are dropped; half is written.  *)
FlushNothing == {}       \* mutant: they are not
Flushed == {"PFSTS", "PFACK"}

WriteBeginsVf ==
    /\ vf.pc = "writing"
    /\ "VFU" \in Shown(TakenBy("vf"))
    /\ owner' = TakenBy("vf")
    /\ ReadV2P(TakenBy("vf"), Flushed)
    /\ VMBMEM' = [VMBMEM EXCEPT !.head = vf.msg]
    /\ unread' = FALSE
    /\ VfMoves("filling")
    /\ UNCHANGED <<MBVFICR, timeout, get_link_status, mac, pf>>

(* The rest follows, and REQ is written, alone: VFU drops with it.         *)
WriteEndsVf ==
    /\ vf.pc = "filling"
    /\ VMBMEM' = [VMBMEM EXCEPT !.tail = vf.msg]
    /\ MBVFICR' = MBVFICR \cup {"VFREQ"}
    /\ owner' = "none"
    /\ vf' = [vf EXCEPT !.pc = "acked", !.sent = TRUE]
    /\ UNCHANGED <<V2PMAILBOX, v2p_mailbox, timeout, get_link_status, mac, pf, unread>>

(* e1000_obtain_mbx_lock_vf gave up. Only e1000_reset_hw_vf goes on to     *)
(* wait for an answer to a message it could not send.                      *)
LockFailsVf ==
    /\ vf.pc \in {"writing", "reading"} /\ owner = "pf"
    /\ ReadV2P("pf", {})
    /\ VfMoves(IF vf.pc = "writing" /\ vf.msg.kind = "RESET" THEN "answered" ELSE "idle")
    /\ UNCHANGED <<VMBMEM, owner, MBVFICR, timeout, get_link_status, mac, pf, unread>>

(* e1000_poll_for_ack *)
PollAck ==
    /\ vf.pc = "acked"
    /\ "PFACK" \in Shown(owner)
    /\ ReadV2P(owner, {"PFACK"})
    /\ VfMoves("answered")
    /\ UNCHANGED <<VMBMEM, owner, MBVFICR, timeout, get_link_status, mac, pf, unread>>

(* e1000_poll_for_msg; the mailbox must not be given up already. *)
PollMsg ==
    /\ vf.pc = "answered" /\ timeout
    /\ "PFSTS" \in Shown(owner)
    /\ ReadV2P(owner, {"PFSTS"})
    /\ VfMoves("reading")
    /\ UNCHANGED <<VMBMEM, owner, MBVFICR, timeout, get_link_status, mac, pf, unread>>

(* Either poll gives up: the mailbox is not used until the next reset. A   *)
(* reset still polls for the answer, in vain, as the time-out is zero.     *)
TimesOut ==
    /\ vf.pc \in {"acked", "answered"}
    /\ (IF vf.pc = "acked" THEN "PFACK" ELSE "PFSTS") \notin Shown(owner)
    /\ ReadV2P(owner, {})
    /\ timeout' = FALSE
    /\ VfMoves("idle")
    /\ UNCHANGED <<VMBMEM, owner, MBVFICR, get_link_status, mac, pf, unread>>
-----------------------------------------------------------------------------
(* e1000_read_mbx_vf, after which the caller looks at the message *)

ReadBeginsVf ==
    /\ vf.pc = "reading"
    /\ "VFU" \in Shown(TakenBy("vf"))
    /\ owner' = TakenBy("vf")
    /\ ReadV2P(TakenBy("vf"), {})
    /\ vf' = [vf EXCEPT !.pc = "copying", !.got.head = VMBMEM.head]
    /\ UNCHANGED <<VMBMEM, MBVFICR, timeout, get_link_status, mac, pf, unread>>

ReadEndsVf ==
    /\ vf.pc = "copying"
    /\ vf' = [vf EXCEPT !.pc = "done", !.got.tail = VMBMEM.tail]
    /\ MBVFICR' = MBVFICR \cup {"VFACK"}
    /\ owner' = "none"
    /\ unread' = FALSE
    /\ UNCHANGED <<VMBMEM, V2PMAILBOX, v2p_mailbox, timeout, get_link_status, mac, pf>>

(* e1000_reset_hw_vf takes its address from a positive answer, which has   *)
(* no other bit set; e1000_rar_set_vf goes back to it when told to. The    *)
(* other requests only read what comes.                                    *)
Understand ==
    /\ vf.pc = "done"
    /\ LET m == vf.got.head IN
         mac' = IF vf.msg.kind = "RESET" /\ m.kind = "RESET" /\ m.type = "ACK" /\ ~m.cts
                  THEN [mac EXCEPT !.perm_addr = TRUE]
                ELSE IF vf.msg.kind = "SET_MAC_ADDR" /\ m.kind = "SET_MAC_ADDR"
                        /\ m.type = "NACK"
                  THEN [mac EXCEPT !.addr = "perm"]
                ELSE mac
    /\ VfMoves("idle")
    /\ UNCHANGED <<VMBMEM, owner, V2PMAILBOX, MBVFICR, v2p_mailbox, timeout, get_link_status,
                   pf, unread>>

(* A reset or a time-out drops the link; with STATUS.LU set the message in *)
(* the buffer is looked at, whatever it is.                                *)
e1000_check_for_link_vf ==
    /\ vf.pc = "idle"
    /\ LET drops == Shown(owner) \cap {"RSTI", "RSTD"} # {} \/ ~timeout IN
         /\ get_link_status' = (get_link_status \/ drops)
         /\ \/ get_link_status' /\ VfMoves("checking")
            \/ UNCHANGED vf
    /\ ReadV2P(owner, {"RSTI", "RSTD"})
    /\ UNCHANGED <<VMBMEM, owner, MBVFICR, timeout, mac, pf, unread>>

(* Only a message that is clear to send, read while the mailbox has not    *)
(* timed out, ends the check. A collision is no error: it is tried later.  *)
LinkMessage ==
    /\ vf.pc = "checking"
    /\ ReadV2P(TakenBy("vf"), {})
    /\ IF "VFU" \in Shown(TakenBy("vf"))
         THEN /\ get_link_status' = ~(VMBMEM.head.cts /\ timeout)
              /\ MBVFICR' = MBVFICR \cup {"VFACK"}
              /\ owner' = "none" /\ unread' = FALSE
         ELSE UNCHANGED <<get_link_status, MBVFICR, owner, unread>>
    /\ VfMoves("idle")
    /\ UNCHANGED <<VMBMEM, timeout, mac, pf>>
-----------------------------------------------------------------------------
(* The physical function. *)

PfMoves(pc) == pf' = [pf EXCEPT !.pc = pc]
VfSeesNothing == UNCHANGED <<v2p_mailbox, timeout, get_link_status, mac, vf>>

(* e1000_check_for_msg_pf, then e1000_read_mbx_pf or a failure to obtain   *)
(* the buffer.                                                             *)
e1000_check_for_msg_pf ==
    /\ pf.pc = "idle" /\ "VFREQ" \in MBVFICR
    /\ MBVFICR' = MBVFICR \ {"VFREQ"}
    /\ PfMoves("reading")
    /\ UNCHANGED <<VMBMEM, owner, V2PMAILBOX, unread>> /\ VfSeesNothing

e1000_check_for_ack_pf ==
    /\ pf.pc = "idle" /\ "VFACK" \in MBVFICR
    /\ MBVFICR' = MBVFICR \ {"VFACK"}
    /\ UNCHANGED <<VMBMEM, owner, V2PMAILBOX, unread, pf>> /\ VfSeesNothing

e1000_check_for_rst_pf ==
    /\ pf.pc = "idle" /\ "VFLRE" \in MBVFICR
    /\ MBVFICR' = MBVFICR \ {"VFLRE"}
    /\ UNCHANGED <<VMBMEM, owner, V2PMAILBOX, unread, pf>> /\ VfSeesNothing

ObtainsAlways == "pf"  \* mutant: PFU is not read back
Obtains == TakenBy("pf")

ReadBeginsPf ==
    /\ pf.pc = "reading" /\ Obtains = "pf"
    /\ owner' = "pf"
    /\ pf' = [pf EXCEPT !.pc = "copying", !.got.head = VMBMEM.head]
    /\ UNCHANGED <<VMBMEM, V2PMAILBOX, MBVFICR, unread>> /\ VfSeesNothing

Answers(m) == [Msg("pf", m.kind, m.n, "none", m.kind # "RESET") EXCEPT !.type = "ACK"]
Refuses(m) == [Msg("pf", m.kind, m.n, "none", m.kind # "RESET") EXCEPT !.type = "NACK"]

ReadEndsPf ==
    /\ pf.pc = "copying"
    /\ \E answer \in {Answers(pf.got.head), Refuses(pf.got.head)} :
         pf' = [pf EXCEPT !.pc = "writing", !.got.tail = VMBMEM.tail, !.msg = answer,
                          !.read = pf.got.head.n]
    /\ V2PMAILBOX' = V2PMAILBOX \cup {"PFACK"}
    /\ owner' = "none"
    /\ UNCHANGED <<VMBMEM, MBVFICR, unread>> /\ VfSeesNothing

(* e1000_obtain_mbx_lock_pf gave up: message or answer is lost. *)
LockFailsPf ==
    /\ pf.pc \in {"reading", "writing"} /\ Obtains # "pf"
    /\ PfMoves("idle")
    /\ UNCHANGED <<VMBMEM, owner, V2PMAILBOX, MBVFICR, unread>> /\ VfSeesNothing

(* e1000_write_mbx_pf, of an answer or of a message of its own *)
WriteBeginsPf ==
    /\ pf.pc = "writing" /\ Obtains = "pf"
    /\ owner' = "pf"
    /\ MBVFICR' = MBVFICR \ {"VFREQ", "VFACK"}
    /\ VMBMEM' = [VMBMEM EXCEPT !.head = pf.msg]
    /\ PfMoves("filling")
    /\ UNCHANGED <<V2PMAILBOX, unread>> /\ VfSeesNothing

WriteEndsPf ==
    /\ pf.pc = "filling"
    /\ VMBMEM' = [VMBMEM EXCEPT !.tail = pf.msg]
    /\ V2PMAILBOX' = V2PMAILBOX \cup {"PFSTS"}
    /\ owner' = "none" /\ unread' = TRUE
    /\ PfMoves("idle")
    /\ UNCHANGED MBVFICR /\ VfSeesNothing

SendsControl ==
    /\ pf.pc = "idle" /\ pf.left > 0
    /\ pf' = [pf EXCEPT !.pc = "writing", !.left = @ - 1,
                        !.msg = Msg("pf", "CONTROL", 0, "none", TRUE)]
    /\ UNCHANGED <<VMBMEM, owner, V2PMAILBOX, MBVFICR, unread>> /\ VfSeesNothing

(* Its own reset is announced by RSTI, and by RSTD when it is done. *)
Resets ==
    /\ pf.pc = "idle"
    /\ \/ /\ pf.left > 0 /\ {"RSTI", "RSTD"} \cap V2PMAILBOX = {}
          /\ V2PMAILBOX' = V2PMAILBOX \cup {"RSTI"}
          /\ pf' = [pf EXCEPT !.left = @ - 1]
       \/ /\ "RSTI" \in V2PMAILBOX
          /\ V2PMAILBOX' = (V2PMAILBOX \ {"RSTI"}) \cup {"RSTD"}
          /\ UNCHANGED pf
    /\ UNCHANGED <<VMBMEM, owner, MBVFICR, unread>> /\ VfSeesNothing
-----------------------------------------------------------------------------
VirtualFunction ==
    \/ e1000_reset_hw_vf \/ AwaitReset
    \/ e1000_rar_set_vf \/ e1000_vfta_set_vf \/ e1000_rlpml_set_vf \/ e1000_promisc_set_vf
    \/ e1000_update_mc_addr_list_vf
    \/ WriteBeginsVf \/ WriteEndsVf \/ LockFailsVf \/ PollAck \/ PollMsg \/ TimesOut
    \/ ReadBeginsVf \/ ReadEndsVf \/ Understand
    \/ e1000_check_for_link_vf \/ LinkMessage

PhysicalFunction ==
    \/ e1000_check_for_msg_pf \/ e1000_check_for_ack_pf \/ e1000_check_for_rst_pf
    \/ ReadBeginsPf \/ ReadEndsPf \/ LockFailsPf \/ WriteBeginsPf \/ WriteEndsPf
    \/ SendsControl \/ Resets

Next == VirtualFunction \/ PhysicalFunction

Spec == Init /\ [][Next]_mbxVars
-----------------------------------------------------------------------------
(* Properties. *)

(* Neither end ever reads a message the other is still writing over: what  *)
(* was copied from the buffer was written by one e1000_write_mbx.          *)
MessagesWhole ==
    /\ vf.pc = "done" => vf.got.head = vf.got.tail
    /\ pf.pc = "writing" /\ pf.msg.kind # "CONTROL" => pf.got.head = pf.got.tail

(* An acknowledgement that e1000_poll_for_ack believes is for the message  *)
(* just written: the physical function has read that message, not one it   *)
(* read before and acknowledged late.                                      *)
AcknowledgedWasRead ==
    vf.pc = "answered" /\ vf.sent => pf.read = vf.n

(* An answer to a request that was sent is the answer to that request, or  *)
(* a message sent unasked: never an answer that belongs to a request that  *)
(* timed out, and never the function's own message. (A reset goes on to    *)
(* read after it failed to send.)                                          *)
AnswersMatch ==
    vf.pc = "done" /\ vf.sent =>
        /\ vf.got.head.from = "pf"
        /\ vf.got.head.kind = "CONTROL" \/ vf.got.head.n = vf.n

(* All three: what is said through the mailbox is heard as it was said.    *)
Conversation == MessagesWhole /\ AcknowledgedWasRead /\ AnswersMatch

(* A message to the virtual function that nobody has read or overwritten   *)
(* is always announced, in the register or in the copy that remembers what *)
(* reading the register has cleared.                                       *)
UnreadIsAnnounced ==
    unread => \/ "PFSTS" \in V2PMAILBOX \cup v2p_mailbox
              \/ vf.pc \in {"reading", "copying"}
              \/ owner = "pf"
=============================================================================
