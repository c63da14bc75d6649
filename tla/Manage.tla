------------------------------- MODULE Manage -------------------------------
(***************************************************************************)
(* The host interface to the management firmware (e1000_manage.c). The     *)
(* driver fills a window of the firmware's memory, sets the command bit    *)
(* and waits for the firmware to clear it; a command leaves its answer in  *)
(* the window. Firmware is loaded, after the firmware's processor has been *)
(* reset, through the same window moved over its memory.                   *)
(*                                                                         *)
(* The firmware answers between two polls or later; a poll takes a         *)
(* millisecond and counts.                                                 *)
(***************************************************************************)
EXTENDS Naturals, Sequences

CONSTANTS
    Timeout,      \* E1000_HI_COMMAND_TIMEOUT
    BlockLength,  \* E1000_HI_FW_BLOCK_DWORD_LENGTH: dwords of the window
    MaxLength,    \* longest command and image tried, in dwords
    MaxCommands   \* bound on the calls

VARIABLES
    HICR,      \* the bits C (command) and SV (status valid); EN is set
    window,    \* E1000_HOST_IF
    HIBBA,     \* the block of the firmware's memory the window lies over
    image,     \* the firmware's memory, block by block
    firmware,  \* running, in reset, out of it (ICR.MNG raised), or ready
    call,      \* where the call is: its step, its polls, what is left to copy
    commands   \* calls made

mngVars == <<HICR, window, HIBBA, image, firmware, call, commands>>

Dwords == 0 .. MaxLength \cup 0 .. BlockLength
Blocks == 0 .. (MaxLength - 1) \div BlockLength
Slots == 0 .. (BlockLength - 1)
Steps == {"idle", "command", "awaitReset", "awaitMode", "copying", "load"}
None == [step |-> "idle", length |-> 0, i |-> 0, status |-> "SUCCESS", answer |-> <<>>,
         kind |-> "none"]

TypeOK ==
    /\ HICR \subseteq {"C", "SV"} /\ HIBBA \in Blocks
    /\ window \in [Slots -> Dwords] /\ image \in [Blocks -> [Slots -> Dwords]]
    /\ firmware \in {"running", "reset", "restarted", "ready"}
    /\ call.step \in Steps /\ call.i \in 0 .. (2 * Timeout) \cup Dwords
    /\ call.answer \in Seq(Dwords) /\ commands \in 0 .. MaxCommands

Init ==
    /\ HICR = {} /\ HIBBA = 0 /\ firmware = "running" /\ call = None /\ commands = 0
    /\ window = [s \in Slots |-> 0] /\ image = [b \in Blocks |-> [s \in Slots |-> 0]]

Goes(step) == call' = [call EXCEPT !.step = step, !.i = 0]
Fails(status) == call' = [call EXCEPT !.step = "idle", !.status = status]
Begins(kind, step, length) ==
    /\ call.step = "idle" /\ commands < MaxCommands
    /\ commands' = commands + 1
    /\ call' = [None EXCEPT !.kind = kind, !.step = step, !.length = length]
-----------------------------------------------------------------------------
(* e1000_host_interface_command: the command, dword k of which is k + 1,   *)
(* is written and C set.                                                   *)
e1000_host_interface_command ==
    \E length \in 1 .. BlockLength :
        /\ Begins("command", "command", length)
        /\ window' = [s \in Slots |-> IF s < length THEN s + 1 ELSE window[s]]
        /\ HICR' = HICR \cup {"C"}
        /\ UNCHANGED <<HIBBA, image, firmware>>

Polls == call' = [call EXCEPT !.i = @ + 1]

(* C is clear: the answer is in the window if SV says so.                  *)
StatusIgnored == TRUE  \* mutant: SV is not looked at
StatusValid == "SV" \in HICR

AwaitAnswer ==
    /\ call.step = "command"
    /\ \/ "C" \in HICR /\ call.i < Timeout /\ Polls
       \/ call.i = Timeout /\ Fails("HOST_INTERFACE_COMMAND")
       \/ "C" \notin HICR /\ call.i < Timeout /\
          IF StatusValid THEN call' = [None EXCEPT !.kind = "command", !.length = call.length,
                                  !.answer = [k \in 1 .. call.length |-> window[k - 1]]]
                         ELSE Fails("HOST_INTERFACE_COMMAND")
    /\ UNCHANGED <<HICR, window, HIBBA, image, firmware, commands>>
-----------------------------------------------------------------------------
(* e1000_load_firmware *)

e1000_load_firmware ==
    \E length \in 1 .. MaxLength :
        /\ Begins("load", "awaitReset", length)
        /\ firmware' = "reset"
        /\ UNCHANGED <<HICR, window, HIBBA, image>>

(* Twice the time-out is waited for ICR.MNG, but it is the time-out that   *)
(* is taken for a failure.                                                 *)
AwaitReset ==
    /\ call.step = "awaitReset"
    /\ \/ firmware = "reset" /\ call.i < 2 * Timeout /\ Polls
       \/ /\ firmware # "reset" \/ call.i = 2 * Timeout
          /\ IF call.i = Timeout THEN Fails("HOST_INTERFACE_COMMAND") ELSE Goes("awaitMode")
    /\ UNCHANGED <<HICR, window, HIBBA, image, firmware, commands>>

AwaitMode ==
    /\ call.step = "awaitMode"
    /\ \/ firmware # "ready" /\ call.i < Timeout /\ Polls
       \/ call.i = Timeout /\ Fails("HOST_INTERFACE_COMMAND")
       \/ firmware = "ready" /\ call.i < Timeout /\ Goes("copying")
    /\ UNCHANGED <<HICR, window, HIBBA, image, firmware, commands>>

(* The window is moved at the start of every block.                        *)
SameBlock(i) == HIBBA  \* mutant: it is not
BlockOf(i) == i \div BlockLength

CopyDword ==
    /\ call.step = "copying" /\ call.i < call.length
    /\ HIBBA' = IF call.i % BlockLength = 0 THEN BlockOf(call.i) ELSE HIBBA
    /\ image' = [image EXCEPT ![HIBBA'][call.i % BlockLength] = call.i + 1]
    /\ Polls
    /\ UNCHANGED <<HICR, window, firmware, commands>>

Commit ==
    /\ call.step = "copying" /\ call.i = call.length
    /\ HICR' = HICR \cup {"C"}
    /\ Goes("load")
    /\ UNCHANGED <<window, HIBBA, image, firmware, commands>>

AwaitLoaded ==
    /\ call.step = "load"
    /\ \/ "C" \in HICR /\ call.i < Timeout /\ Polls
       \/ call.i = Timeout /\ Fails("HOST_INTERFACE_COMMAND")
       \/ "C" \notin HICR /\ call.i < Timeout /\ call' = [call EXCEPT !.step = "idle"]
    /\ UNCHANGED <<HICR, window, HIBBA, image, firmware, commands>>
-----------------------------------------------------------------------------
(* The firmware serves a command, answering in the window or not at all,   *)
(* and comes out of a reset.                                               *)
FirmwareServes ==
    /\ "C" \in HICR
    /\ \/ HICR' = {"SV"} /\ window' = [s \in Slots |-> 0]
       \/ HICR' = {} /\ UNCHANGED window
    /\ UNCHANGED <<HIBBA, image, firmware, call, commands>>

FirmwareRestarts ==
    /\ firmware' = CASE firmware = "reset" -> "restarted"
                     [] firmware = "restarted" -> "ready"
                     [] OTHER -> "running"
    /\ firmware # "running"
    /\ call.step \in {"awaitReset", "awaitMode"} \/ firmware # "reset"
    /\ UNCHANGED <<HICR, window, HIBBA, image, call, commands>>

Next ==
    \/ e1000_host_interface_command \/ AwaitAnswer
    \/ e1000_load_firmware \/ AwaitReset \/ AwaitMode \/ CopyDword \/ Commit \/ AwaitLoaded
    \/ FirmwareServes \/ FirmwareRestarts

Spec == Init /\ [][Next]_mngVars
-----------------------------------------------------------------------------
(* Properties. *)

(* What a successful command returns is the firmware's answer and not the  *)
(* command still in the window.                                            *)
AnswerIsFirmwares ==
    call.step = "idle" /\ call.kind = "command" /\ call.status = "SUCCESS" =>
        \A k \in DOMAIN call.answer : call.answer[k] = 0

(* A firmware image that e1000_load_firmware reports as loaded is in the   *)
(* firmware's memory, dword for dword, over all of its blocks.             *)
LoadedWhole ==
    call.step = "idle" /\ call.kind = "load" /\ call.status = "SUCCESS" =>
        \A i \in 0 .. (call.length - 1) : image[i \div BlockLength][i % BlockLength] = i + 1
=============================================================================
