-------------------------------- MODULE Nvm ---------------------------------
(***************************************************************************)
(* Reading, writing and check-summing the non-volatile memory              *)
(* (e1000_nvm.c, e1000_i210.c). An I210 with a flash reads and writes a    *)
(* shadow RAM in chunks under the NVM semaphore and commits it to the      *)
(* flash; earlier parts shift opcodes, addresses and words into an SPI     *)
(* EEPROM, which programs a page at a time, or into a Microwire EEPROM,    *)
(* which programs a word.                                                  *)
(*                                                                         *)
(* One call runs at a time, as in the driver; a step is a chunk, a page or *)
(* a pass over the memory, and any access in it may time out.              *)
(***************************************************************************)
EXTENDS Integers, Sequences, Functions

CONSTANTS
    WordSize,          \* words of the memory: nvm->word_size
    NVM_CHECKSUM_REG,  \* the word that completes the sum
    NVM_SUM, Base,     \* the sum wanted, of words modulo Base (2^16)
    MaxCount,          \* E1000_EERD_EEWR_MAX_COUNT
    PageSize,          \* words an SPI EEPROM programs at a time
    HalfSize,          \* words that an address of 8 bits reaches (128)
    MaxCalls           \* bound on the calls

ASSUME NvmAssumption ==
    /\ {WordSize, Base, MaxCount, PageSize, HalfSize} \subseteq Nat \ {0}
    /\ NVM_CHECKSUM_REG \in 0 .. (WordSize - 1) /\ NVM_SUM \in 0 .. (Base - 1)
    /\ MaxCalls \in Nat

VARIABLES
    type,    \* flash_hw, eeprom_spi with 8 or 16 address bits, eeprom_microwire
    words,   \* the shadow RAM, or the EEPROM
    flash,   \* what the flash of an I210 holds
    held,    \* the semaphore (flash) or EECD.REQ (EEPROM)
    readOp,  \* hw->nvm.ops.read
    job,     \* the call: its arguments, its progress, what it has read
    calls    \* calls made

nvmVars == <<type, words, flash, held, readOp, job, calls>>

Addresses == 0 .. (WordSize - 1)
Words == 0 .. (Base - 1)
Types == {"flash_hw", "spi8", "spi16", "microwire"}
Idle == [call |-> "none", offset |-> 0, count |-> 0, i |-> 0, data |-> <<>>,
         status |-> "SUCCESS", lost |-> FALSE, before |-> [a \in Addresses |-> 0]]
Working == {"read", "write", "validate", "update"}

TypeOK ==
    /\ type \in Types /\ held \in BOOLEAN /\ readOp \in {"srrd", "eerd"}
    /\ words \in [Addresses -> Words] /\ flash \in [Addresses -> Words]
    /\ job.call \in Working \cup {"none", "commit", "returned"}
    /\ job.data \in Seq(Words) /\ job.i \in Nat /\ calls \in 0 .. MaxCalls

Init ==
    /\ type \in Types
    /\ words = [a \in Addresses |-> a % Base] /\ flash = words
    /\ held = FALSE /\ readOp = "srrd" /\ job = Idle /\ calls = 0

IsFlash == type = "flash_hw"
SumOf(w) == SumFunctionOnSet(w, 0 .. NVM_CHECKSUM_REG) % Base
InRange(offset, count) == offset < WordSize /\ count <= WordSize - offset /\ count # 0

Returns(status) == job' = [job EXCEPT !.call = "returned", !.status = status]
-----------------------------------------------------------------------------
(* The calls. An EEPROM refuses at once what is out of range; the chunks   *)
(* of a flash are looked at one by one.                                    *)

Call(call, offset, count, data) ==
    /\ job.call \in {"none", "returned"} /\ calls < MaxCalls
    /\ job' = [Idle EXCEPT !.call = call, !.offset = offset, !.count = count, !.data = data,
                           !.before = words]
    /\ calls' = calls + 1
    /\ UNCHANGED <<type, words, flash, held, readOp>>

CanStart(offset, count) == IsFlash \/ InRange(offset, count)

e1000_read_nvm ==
    \E o \in 0 .. WordSize, c \in 0 .. WordSize : CanStart(o, c) /\ Call("read", o, c, <<>>)
e1000_write_nvm ==
    \E o \in 0 .. WordSize, c \in 0 .. WordSize :
        CanStart(o, c) /\ Call("write", o, c, [k \in 1 .. c |-> (k + 1) % Base])
e1000_validate_nvm_checksum == Call("validate", 0, 0, <<>>)
e1000_update_nvm_checksum == Call("update", 0, 0, <<>>)

(* The semaphore of an I210 or, of an EEPROM, EECD.REQ answered by GNT; a  *)
(* request that is not granted is taken back. The I210 reads a word first, *)
(* without the semaphore, before it computes a checksum.                   *)
HasMore == job.i < job.count
e1000_acquire_nvm_generic ==
    /\ ~held
    /\ \/ job.call \in {"read", "write"} /\ HasMore
       \/ job.call \in {"validate", "update"} /\ IsFlash
    /\ \/ held' = TRUE /\ UNCHANGED job
       \/ held' = FALSE /\ Returns(IF IsFlash THEN "SWFW_SYNC" ELSE "NVM")
    /\ UNCHANGED <<type, words, flash, readOp, calls>>

KeepsOnError(ok) == ~ok  \* mutant: an error path does not release
HeldAfter(ok) == FALSE

AllDone ==
    /\ job.call \in {"read", "write"} /\ ~held /\ ~HasMore
    /\ Returns("SUCCESS")
    /\ UNCHANGED <<type, words, flash, held, readOp, calls>>
-----------------------------------------------------------------------------
(* The shadow RAM of an I210. *)

ChunkCount == IF (job.count - job.i) \div MaxCount > 0 THEN MaxCount ELSE job.count - job.i

(* e1000_read_nvm_eerd reads up to the word whose access times out. Every  *)
(* chunk starts at the offset of the call.                                 *)
NextWordOnly == job.offset + 1  \* mutant: it starts one further
ChunkStart == job.offset
Eerd(done) == job.data \o [k \in 1 .. done |-> words[ChunkStart + k - 1]]

e1000_read_nvm_srrd_i210 ==
    /\ IsFlash /\ job.call = "read" /\ held
    /\ IF InRange(ChunkStart, ChunkCount)
         THEN \/ /\ job' = [job EXCEPT !.i = @ + MaxCount, !.data = Eerd(ChunkCount)]
                 /\ held' = HeldAfter(TRUE)
              \/ Returns("NVM") /\ held' = HeldAfter(FALSE)
         ELSE Returns("NVM") /\ held' = HeldAfter(FALSE)
    /\ UNCHANGED <<type, words, flash, readOp, calls>>

(* e1000_write_nvm_srwr: the words of the chunk reach the shadow RAM but   *)
(* for those whose access times out, and the function reports success.     *)
SrwrWrites(done) ==
    [a \in Addresses |-> IF a - ChunkStart \in done THEN job.data[job.i + a - ChunkStart + 1]
                                                    ELSE words[a]]

e1000_write_nvm_srwr_i210 ==
    /\ IsFlash /\ job.call = "write" /\ held
    /\ IF InRange(ChunkStart, ChunkCount)
         THEN \E done \in SUBSET (0 .. (ChunkCount - 1)) :
                /\ words' = SrwrWrites(done)
                /\ job' = [job EXCEPT !.i = @ + MaxCount,
                                      !.lost = @ \/ done # 0 .. (ChunkCount - 1)]
                /\ held' = HeldAfter(TRUE)
         ELSE Returns("NVM") /\ held' = HeldAfter(FALSE) /\ UNCHANGED words
    /\ UNCHANGED <<type, flash, readOp, calls>>

(* Under the semaphore e1000_read_nvm_eerd stands in for the function that *)
(* would take it for every word, until the sum is made or a word fails.    *)
RestoredIfValid(ok) == IF ok THEN "srrd" ELSE "eerd"  \* mutant: not after an error
Restored(ok) == "srrd"

e1000_validate_nvm_checksum_i210 ==
    /\ IsFlash /\ job.call = "validate" /\ held
    /\ \E ok \in BOOLEAN :
         /\ ok => SumOf(words) = NVM_SUM
         /\ Returns(IF ok THEN "SUCCESS" ELSE "NVM")
         /\ readOp' = Restored(ok) /\ held' = HeldAfter(ok)
    /\ UNCHANGED <<type, words, flash, calls>>

(* The checksum word is what completes the sum of the words before it.     *)
WholeSum == (NVM_SUM - SumOf(words)) % Base  \* mutant: the old checksum is added as well
Checksum == (NVM_SUM - (SumOf(words) - words[NVM_CHECKSUM_REG])) % Base

e1000_update_nvm_checksum_i210 ==
    /\ IsFlash /\ job.call = "update" /\ held
    /\ \/ Returns("NVM") /\ held' = HeldAfter(FALSE) /\ UNCHANGED words
       \/ \E lost \in BOOLEAN :
            /\ words' = IF lost THEN words ELSE [words EXCEPT ![NVM_CHECKSUM_REG] = Checksum]
            /\ job' = [job EXCEPT !.call = "commit", !.lost = lost]
            /\ held' = HeldAfter(TRUE)
    /\ UNCHANGED <<type, flash, readOp, calls>>

(* e1000_update_flash_i210 waits for an update under way, starts another   *)
(* and waits for it; it may take longer than the driver waits.             *)
e1000_update_flash_i210 ==
    /\ job.call = "commit"
    /\ \/ flash' = words /\ Returns("SUCCESS")
       \/ flash' \in {flash, words} /\ Returns("NVM")
    /\ UNCHANGED <<type, words, held, readOp, calls>>
-----------------------------------------------------------------------------
(* The EEPROMs. *)

(* The address shifted out: eight bits reach the first half, and the A8    *)
(* bit of the opcode, taken from the offset of the call, adds the other.   *)
SpiAddress(k) ==
    IF type = "spi8" THEN (IF job.offset >= HalfSize THEN HalfSize ELSE 0)
                            + ((job.offset + k) % HalfSize)
    ELSE job.offset + k

(* An SPI EEPROM is asked for its status before every command, and may     *)
(* stay busy with what it programs for as long as the driver asks.         *)
e1000_ready_nvm_eeprom ==
    /\ type \in {"spi8", "spi16"} /\ held
    /\ Returns("NVM")
    /\ held' = HeldAfter(FALSE)
    /\ UNCHANGED <<type, words, flash, readOp, calls>>

(* e1000_read_nvm_spi and e1000_read_nvm_microwire: opcode and address,    *)
(* for every word or once, with the EEPROM counting up.                    *)
e1000_read_nvm_spi ==
    /\ ~IsFlash /\ job.call = "read" /\ held
    /\ job' = [job EXCEPT !.i = job.count,
                 !.data = [k \in 1 .. job.count |->
                             words[(IF type = "microwire" THEN job.offset
                                                          ELSE SpiAddress(0)) + k - 1]]]
    /\ held' = HeldAfter(TRUE)
    /\ UNCHANGED <<type, words, flash, readOp, calls>>

(* The words that go out before the end of a page. *)
NoPages(from) == job.count  \* mutant: the end of a page is not looked for
PageEnd(from) ==
    CHOOSE e \in (from + 1) .. job.count :
        /\ e = job.count \/ (job.offset + e) % PageSize = 0
        /\ \A f \in (from + 1) .. (e - 1) : (job.offset + f) % PageSize # 0

(* The EEPROM programs them from the address on, round its page.           *)
Programmed(from, to) ==
    LET start == SpiAddress(from)
        page == (start \div PageSize) * PageSize
        In(k) == page + ((start - page + k) % PageSize)
        last(a) == {k \in 0 .. (to - from - 1) : In(k) = a}
    IN [a \in Addresses |->
          IF last(a) = {} THEN words[a]
          ELSE job.data[from + 1 + (CHOOSE k \in last(a) : \A l \in last(a) : l <= k)]]

e1000_write_nvm_spi ==
    /\ type \in {"spi8", "spi16"} /\ job.call = "write" /\ held
    /\ words' = Programmed(job.i, PageEnd(job.i))
    /\ job' = [job EXCEPT !.i = PageEnd(job.i)]
    /\ held' = HeldAfter(TRUE)
    /\ UNCHANGED <<type, flash, readOp, calls>>

(* Word by word until one is not programmed in time.                       *)
e1000_write_nvm_microwire ==
    /\ type = "microwire" /\ job.call = "write" /\ held
    /\ \E done \in 0 .. job.count :
         /\ words' = [a \in Addresses |-> IF a - job.offset \in 0 .. (done - 1)
                                            THEN job.data[a - job.offset + 1] ELSE words[a]]
         /\ IF done = job.count THEN job' = [job EXCEPT !.i = job.count] ELSE Returns("NVM")
         /\ held' = HeldAfter(done = job.count)
    /\ UNCHANGED <<type, flash, readOp, calls>>

(* Without the I210's functions, every word is read and the checksum       *)
(* written with the functions above, each with its own acquire.            *)
e1000_validate_nvm_checksum_generic ==
    /\ ~IsFlash /\ job.call = "validate"
    /\ Returns(IF SumOf(words) = NVM_SUM THEN "SUCCESS" ELSE "NVM") \/ Returns("NVM")
    /\ UNCHANGED <<type, words, flash, held, readOp, calls>>

e1000_update_nvm_checksum_generic ==
    /\ ~IsFlash /\ job.call = "update"
    /\ \/ /\ words' = [words EXCEPT ![NVM_CHECKSUM_REG] = Checksum]
          /\ Returns("SUCCESS")
       \/ Returns("NVM") /\ UNCHANGED words
    /\ UNCHANGED <<type, flash, held, readOp, calls>>
-----------------------------------------------------------------------------
Next ==
    \/ e1000_read_nvm \/ e1000_write_nvm
    \/ e1000_validate_nvm_checksum \/ e1000_update_nvm_checksum
    \/ e1000_acquire_nvm_generic \/ AllDone
    \/ e1000_read_nvm_srrd_i210 \/ e1000_write_nvm_srwr_i210
    \/ e1000_validate_nvm_checksum_i210 \/ e1000_update_nvm_checksum_i210
    \/ e1000_update_flash_i210
    \/ e1000_ready_nvm_eeprom
    \/ e1000_read_nvm_spi \/ e1000_write_nvm_spi \/ e1000_write_nvm_microwire
    \/ e1000_validate_nvm_checksum_generic \/ e1000_update_nvm_checksum_generic

Spec == Init /\ [][Next]_nvmVars
-----------------------------------------------------------------------------
(* Properties. *)

Asked == job.offset .. (job.offset + job.count - 1)
Succeeded == job.call = "returned" /\ job.status = "SUCCESS"

(* Whatever times out, a call leaves the memory to others and the read     *)
(* function as it was.                                                     *)
NothingLeftBehind == job.call \in {"none", "returned"} => ~held /\ readOp = "srrd"

(* A call that fits: into one chunk of a flash, or into one half of an     *)
(* EEPROM addressed with eight bits.                                       *)
Fits == /\ type = "flash_hw" => job.count <= MaxCount
        /\ type = "spi8" => (job.offset < HalfSize <=> job.offset + job.count <= HalfSize)

(* A successful read has the words asked for, and a successful write of    *)
(* which no access timed out has changed these words and no others, across *)
(* the pages of an EEPROM.                                                 *)
TransfersWhatWasAsked ==
    Succeeded /\ Fits /\ ~job.lost /\ job.data # <<>> =>
        /\ \A a \in Asked : words[a] = job.data[a - job.offset + 1]
        /\ \A a \in Addresses \ Asked : words[a] = job.before[a]

(* After a successful e1000_update_nvm_checksum_i210 of which no write was *)
(* lost, what is in the flash is what the driver has, and it adds up.      *)
CommittedAddsUp ==
    [][job.call = "commit" /\ job'.status = "SUCCESS" /\ ~job.lost =>
         flash' = words /\ SumOf(flash') = NVM_SUM]_nvmVars

(* "Reads a 16 bit word from the Shadow Ram" for each of the "number of    *)
(* words to read" (e1000_i210.c:226-229): also when they take two chunks.  *)
ReadsEveryWord ==
    IsFlash /\ Succeeded /\ job.i > 0 /\ ~job.lost /\ job.before = words =>
        \A a \in Asked : words[a] = job.data[a - job.offset + 1]
=============================================================================
