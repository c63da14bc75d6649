---------------------------- MODULE NvmContents -----------------------------
(***************************************************************************)
(* What the driver finds in the non-volatile memory (e1000_nvm.c,          *)
(* e1000_i210.c): the part number, in two words or, behind a guard, in a   *)
(* block the second word points to; and the records of the one-time        *)
(* programmable memory that stands in for words of an I210 without flash.  *)
(*                                                                         *)
(* A caller asks for the length of the part number, allocates that much    *)
(* and reads it. Words are numbers, as they serve as pointers and lengths; *)
(* any read may fail.                                                      *)
(***************************************************************************)
EXTENDS Integers, Sequences, FiniteSets

CONSTANTS
    WordSize,      \* words of the memory
    Offset0,       \* NVM_PBA_OFFSET_0; the other word follows
    Guard, Empty,  \* NVM_PBA_PTR_GUARD, 0xFFFF
    PbaNumLength,  \* E1000_PBANUM_LENGTH
    InvmSize,      \* E1000_INVM_SIZE
    RsaSize,       \* E1000_INVM_RSA_KEY_SHA256_DATA_SIZE_IN_DWORDS; a CSR record has 1
    Parts          \* what the two memories of a part hold, for the parts tried

VARIABLES
    nvm,   \* the words
    invm,  \* the records: type, word address
    pba,   \* the caller's buffer: its size, how much was written, the block
    found  \* the record a word was taken from

contentVars == <<nvm, invm, pba, found>>

Offset1 == Offset0 + 1
Failed == [status |-> "NVM", size |-> 0, written |-> 0, block |-> <<>>]

TypeOK ==
    /\ pba.status \in {"none", "SUCCESS", "written", "NVM", "NO_SPACE", "NVM_PBA_SECTION", "PARAM"}
    /\ {pba.size, pba.written} \subseteq Nat
    /\ found \in {-1} \cup DOMAIN invm

Init ==
    /\ \E part \in Parts : nvm = part.nvm /\ invm = part.invm
    /\ pba = [Failed EXCEPT !.status = "none"] /\ found = -1

(* What a pointer leads to, if it leads anywhere. *)
Readable(a) == a \in DOMAIN nvm
Length == nvm[nvm[Offset1]]
IsBlock == nvm[Offset0] = Guard
BadLength == Length = Empty \/ Length = 0
-----------------------------------------------------------------------------
WithoutEnd == 2 * Length - 2  \* mutant: no room for the terminator
BlockChars == 2 * Length - 1

e1000_read_pba_length_generic ==
    /\ pba' = IF ~IsBlock THEN [Failed EXCEPT !.status = "SUCCESS", !.size = PbaNumLength]
              ELSE IF ~Readable(nvm[Offset1]) THEN Failed
              ELSE IF BadLength THEN [Failed EXCEPT !.status = "NVM_PBA_SECTION"]
              ELSE [Failed EXCEPT !.status = "SUCCESS", !.size = BlockChars]
    /\ UNCHANGED <<nvm, invm, found>>

(* Ten digits and a terminator; or the bytes of the words that follow the  *)
(* length, which counts itself, and a terminator. A word of the block that *)
(* cannot be read leaves the bytes before it. The part has a flash: an     *)
(* I210 without one fails before anything is read or written.              *)
e1000_read_pba_string_generic ==
    /\ pba.status = "SUCCESS" /\ pba.size > 0
    /\ pba' =
         IF ~IsBlock THEN
           IF pba.size < PbaNumLength THEN [pba EXCEPT !.status = "NO_SPACE"]
                                      ELSE [pba EXCEPT !.status = "SUCCESS", !.written = 11]
         ELSE IF ~Readable(nvm[Offset1]) THEN [pba EXCEPT !.status = "NVM"]
         ELSE IF BadLength THEN [pba EXCEPT !.status = "NVM_PBA_SECTION"]
         ELSE IF pba.size < 2 * Length - 1 THEN [pba EXCEPT !.status = "NO_SPACE"]
         ELSE LET readable == {k \in 1 .. (Length - 1) : Readable(nvm[Offset1] + k)} IN
              IF Cardinality(readable) = Length - 1
                THEN [pba EXCEPT !.status = "SUCCESS", !.written = 2 * (Length - 1) + 1]
                ELSE [pba EXCEPT !.status = "NVM", !.written = 2 * Cardinality(readable)]
    /\ UNCHANGED <<nvm, invm, found>>

(* Out of an image of the memory, whose last word counts as outside. *)
e1000_get_pba_block_size ==
    IF ~IsBlock THEN 0 ELSE IF WordSize > nvm[Offset1] /\ ~BadLength THEN Length ELSE -1
InImage(from, size) == WordSize > from + size
RawReadable ==
    e1000_get_pba_block_size >= 0 /\ (IsBlock => InImage(nvm[Offset1], Length))
RawBlock == <<nvm[Offset0], nvm[Offset1]>> \o
               [k \in 1 .. e1000_get_pba_block_size |-> nvm[nvm[Offset1] + k - 1]]

e1000_read_pba_raw ==
    /\ pba' = IF RawReadable THEN [Failed EXCEPT !.status = "SUCCESS", !.block = RawBlock]
                             ELSE [Failed EXCEPT !.status = "PARAM"]
    /\ UNCHANGED <<nvm, invm, found>>

(* The words, and as many of the block as its first word says, are written *)
(* into another image, here one that was erased or cleared.                *)
WordsOnly == 0  \* mutant: the block is left out
BlockWords == IF pba.block[1] = Guard THEN pba.block[3] ELSE 0

e1000_write_pba_raw ==
    /\ pba.status = "SUCCESS" /\ pba.block # <<>>
    /\ \E erased \in {0, Empty} :
         nvm' = [a \in DOMAIN nvm |->
                   IF a - pba.block[2] \in 0 .. (BlockWords - 1)
                     THEN pba.block[a - pba.block[2] + 3]
                   ELSE IF a \in {Offset0, Offset1} THEN pba.block[a - Offset0 + 1]
                   ELSE erased]
    /\ pba' = [pba EXCEPT !.status = "written"]
    /\ UNCHANGED <<invm, found>>
-----------------------------------------------------------------------------
(* e1000_read_invm_word_i210 goes from record to record, past their data,  *)
(* until an empty one.                                                     *)
NoSkip(type) == 1  \* mutant: the data of a record are taken for records
RecordSize(type) ==
    CASE type = "csr" -> 2 [] type = "rsa" -> 1 + RsaSize [] OTHER -> 1

Search(address) ==
    LET from[i \in 0 .. (InvmSize + RsaSize + 1)] ==
          IF i >= InvmSize \/ invm[i].type = "uninitialized" THEN -1
          ELSE IF invm[i].type = "word" /\ invm[i].address = address THEN i
          ELSE from[i + RecordSize(invm[i].type)]
    IN from[0]

e1000_read_invm_word_i210 ==
    /\ \E address \in {invm[i].address : i \in DOMAIN invm} : found' = Search(address)
    /\ UNCHANGED <<nvm, invm, pba>>
-----------------------------------------------------------------------------
Next ==
    \/ e1000_read_pba_length_generic \/ e1000_read_pba_string_generic
    \/ e1000_read_pba_raw \/ e1000_write_pba_raw
    \/ e1000_read_invm_word_i210

Spec == Init /\ [][Next]_contentVars
-----------------------------------------------------------------------------
(* Properties. *)

(* A buffer of the length that e1000_read_pba_length_generic reported is   *)
(* large enough for what e1000_read_pba_string_generic then writes, and is *)
(* never refused as too small.                                             *)
LengthSuffices == pba.written <= pba.size /\ pba.status # "NO_SPACE"

(* A part number written into another image is read back from there.       *)
RawRoundTrip == pba.status = "written" => RawReadable /\ RawBlock = pba.block

(* A word taken from the one-time programmable memory is a record of its   *)
(* own, never part of the data of a record before it: up to it records     *)
(* with their data can be laid end to end.                                 *)
Extent == [word |-> 1, other |-> 1, csr |-> 2, rsa |-> 1 + RsaSize]
FoundIsRecord ==
    found >= 0 =>
        \E starts \in SUBSET {s \in 0 .. found : invm[s].type # "uninitialized"} :
            /\ found \in starts
            /\ \A s \in starts : s = 0 \/ \E r \in starts : s = r + Extent[invm[r].type]

ContentsConsistent == LengthSuffices /\ RawRoundTrip /\ FoundIsRecord
=============================================================================
