----------------------------- MODULE MCServices -----------------------------
(***************************************************************************)
(* One instance of each service of the shared code that talks to another   *)
(* party: to the non-volatile memory (Nvm, NvmContents), the management    *)
(* firmware (Manage), another function of the device (Mailbox) and the PHY *)
(* (Phy). They share no state and the driver calls one at a time, so a     *)
(* behaviour is of one of them, chosen at the start.                       *)
(***************************************************************************)
EXTENDS Nvm

CONSTANTS
    PbaWords, Offset0, Guard, Empty, PbaNumLength, InvmSize, RsaSize, Parts,
    Timeout, BlockLength, MaxLength, MaxCommands,
    MaxRequests, MaxUnsolicited, MaxHashes, MaxMulticast

ASSUME ServicesAssumption ==
    /\ {Timeout, MaxCommands, MaxRequests, MaxUnsolicited, MaxHashes, MaxMulticast} \subseteq Nat
    /\ {BlockLength, MaxLength} \subseteq Nat \ {0}

(* The part number's two words are in the memory; ten digits and their end *)
(* fit into E1000_PBANUM_LENGTH; a dword of the one-time programmable      *)
(* memory has a type.                                                      *)
InvmTypes == {"uninitialized", "word", "csr", "rsa", "other"}
ASSUME PartsAssumption ==
    /\ {Offset0, PbaWords, PbaNumLength, Empty, InvmSize, RsaSize} \subseteq Nat
    /\ Offset0 + 1 < PbaWords /\ PbaNumLength >= 11
    /\ \A part \in Parts :
         /\ part.nvm \in [0 .. (PbaWords - 1) -> Nat]
         /\ part.invm \in [0 .. (InvmSize - 1) -> [type : InvmTypes, address : Nat]]

VARIABLES
    service,
    nvm, invm, pba, found,
    HICR, window, HIBBA, image, firmware, call, commands,
    VMBMEM, owner, V2PMAILBOX, MBVFICR, v2p_mailbox, timeout, get_link_status, mac, vf, pf, unread,
    kind, todo, holder, page, saved, seen, blind, left

Contents == INSTANCE NvmContents WITH WordSize <- PbaWords
Host == INSTANCE Manage
Mbx == INSTANCE Mailbox
Transceiver == INSTANCE Phy

contentVars == <<nvm, invm, pba, found>>
mngVars == <<HICR, window, HIBBA, image, firmware, call, commands>>
mbxVars == <<VMBMEM, owner, V2PMAILBOX, MBVFICR, v2p_mailbox, timeout, get_link_status, mac,
             vf, pf, unread>>
phyVars == <<kind, todo, holder, page, saved, seen, blind, left>>
serviceVars == <<service, nvmVars, contentVars, mngVars, mbxVars, phyVars>>

Memories == [0 .. (PbaWords - 1) -> {0, 1, 2, 3, Guard, Empty}]
Unused == [type |-> "uninitialized", address |-> 0]
Records == [type : {"word", "csr", "rsa"}, address : {1, 2}] \cup {Unused}
Erased == [nvm |-> [a \in 0 .. (PbaWords - 1) |-> 0],
           invm |-> [i \in 0 .. (InvmSize - 1) |-> Unused]]
ManyParts ==
    [nvm : Memories, invm : {Erased.invm}]
    \cup [nvm : {Erased.nvm}, invm : [0 .. (InvmSize - 1) -> Records]]

ServicesInit ==
    /\ Init /\ Contents!Init /\ Host!Init /\ Mbx!Init /\ Transceiver!Init
    /\ service \in {"nvm", "contents", "host_interface", "mailbox", "phy"}
    /\ service # "nvm" => type = "flash_hw"
    /\ service # "phy" => kind = "i210"
    /\ service # "contents" => nvm = Erased.nvm /\ invm = Erased.invm

ServicesNext ==
    \/ /\ service = "nvm" /\ Next
       /\ UNCHANGED <<service, contentVars, mngVars, mbxVars, phyVars>>
    \/ /\ service = "contents" /\ Contents!Next
       /\ UNCHANGED <<service, nvmVars, mngVars, mbxVars, phyVars>>
    \/ /\ service = "host_interface" /\ Host!Next
       /\ UNCHANGED <<service, nvmVars, contentVars, mbxVars, phyVars>>
    \/ /\ service = "mailbox" /\ Mbx!Next
       /\ UNCHANGED <<service, nvmVars, contentVars, mngVars, phyVars>>
    \/ /\ service = "phy" /\ Transceiver!Next
       /\ UNCHANGED <<service, nvmVars, contentVars, mngVars, mbxVars>>

ServicesSpec == ServicesInit /\ [][ServicesNext]_serviceVars
-----------------------------------------------------------------------------
(* The variables of every service have their types. *)
ServicesTypeOK == TypeOK /\ Contents!TypeOK /\ Host!TypeOK /\ Mbx!TypeOK /\ Transceiver!TypeOK

(* What NvmContents says of the part number and of the records.            *)
ContentsConsistent == Contents!ContentsConsistent

(* What Manage says of commands and of firmware images.                    *)
HostInterfaceTrue == Host!AnswerIsFirmwares /\ Host!LoadedWhole

(* What Mailbox says of messages and answers.                              *)
Conversation == Mbx!Conversation
UnreadIsAnnounced == Mbx!UnreadIsAnnounced

(* What Phy says of pages and of the semaphore.                            *)
PageDiscipline == Transceiver!PageDiscipline
SemaphoreBalanced == Transceiver!SemaphoreBalanced
=============================================================================
