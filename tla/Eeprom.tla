------------------------------- MODULE Eeprom -------------------------------
(***************************************************************************)
(* Data in the flash memory (hal/eeprom-hal.c).  Memory is erased a page   *)
(* at a time and written a byte at a time, and a write can only clear      *)
(* bits.  A block is written by erasing every page it touches, all of it,  *)
(* and then writing its bytes; the microcontroller may be reset between    *)
(* any two of these steps, and the memory keeps what it has.  A byte is    *)
(* the set of its bits that are 1.                                         *)
(***************************************************************************)
EXTENDS Integers, Sequences

CONSTANTS EeSize,     \* bytes of memory
          EePage,     \* EEPROM_PAGE_SIZE (512 in the code)
          EeBlocks,   \* bound: the blocks that are written, [at, data]
          EeAddresses,   \* bound: the bytes written and the pages erased singly
          EeBytes,    \* bound: the values of bytes written singly
          EeWrites    \* bound: blocks written

EeByte == SUBSET (0 .. 7)

\* The memory is whole pages, and its last page begins where a 16-bit page
\* address still has a successor.
ASSUME EeAssumption ==
    /\ EePage \in Nat \ {0} /\ EeSize \in Nat /\ EeSize % EePage = 0 /\ EeSize < 65536
    /\ EeBlocks \subseteq [at : Nat, data : Seq(EeByte)]
    /\ EeAddresses \subseteq 0 .. EeSize - 1 /\ EeBytes \subseteq EeByte

VARIABLES eeMemory,
          iap,        \* IAP_CONTR lets commands through
          eeTask,     \* the write that is under way, or none
          eeKept,     \* the blocks that were written, and that nothing was written over since
          eeWrites

eeVars == <<eeMemory, iap, eeTask, eeKept, eeWrites>>

EeErased == 0 .. 7
EePageOf(address) == address - (address % EePage)

EeIdle == [step |-> "none"]

\* _iapExecute: nothing is done unless commands are let through
eeErase(page) ==
    IF iap THEN [a \in DOMAIN eeMemory |-> IF EePageOf(a) = page THEN EeErased ELSE eeMemory[a]] ELSE eeMemory

\* A write only clears bits
eeWrite(address, byte) ==
    IF iap THEN [eeMemory EXCEPT ![address] = @ \cap byte] ELSE eeMemory

\* _iapEnable, _iapDisable
IapEnable  == iap' = TRUE
IapDisable == iap' = FALSE

\* The pages a block touches: one of them is erased for each step of the loop
FirstPage(block) == EePageOf(block.at)
LastPagePast(block) == EePageOf(block.at + Len(block.data))   \* a slip: one byte too far
LastPage(block)  == EePageOf(block.at + Len(block.data) - 1)
EePagesOf(block) == {EePageOf(block.at + i - 1) : i \in 1 .. Len(block.data)}

eepromWriteBlock(block) ==
    /\ eeTask = EeIdle /\ eeWrites > 0
    /\ Len(block.data) > 0 /\ block.at + Len(block.data) <= EeSize
    /\ eeWrites' = eeWrites - 1
    /\ eeTask' = [step |-> "erase", block |-> block, page |-> FirstPage(block), index |-> 1]
    /\ IapEnable
    /\ eeKept' = {b \in eeKept : EePagesOf(b) \cap EePagesOf(block) = {}}
    /\ UNCHANGED eeMemory

ErasePage ==
    /\ eeTask.step = "erase"
    /\ IF eeTask.page <= LastPage(eeTask.block)
       THEN /\ eeMemory' = eeErase(eeTask.page)
            /\ eeTask' = [eeTask EXCEPT !.page = @ + EePage]
       ELSE /\ eeTask' = [eeTask EXCEPT !.step = "write"]
            /\ UNCHANGED eeMemory
    /\ UNCHANGED <<iap, eeKept, eeWrites>>

WriteNext ==
    /\ eeTask.step = "write"
    /\ IF eeTask.index <= Len(eeTask.block.data)
       THEN /\ eeMemory' = eeWrite(eeTask.block.at + eeTask.index - 1, eeTask.block.data[eeTask.index])
            /\ eeTask' = [eeTask EXCEPT !.index = @ + 1]
            /\ UNCHANGED <<iap, eeKept>>
       ELSE /\ eeTask' = EeIdle
            /\ IapDisable
            /\ eeKept' = eeKept \cup {eeTask.block}
            /\ UNCHANGED eeMemory
    /\ UNCHANGED eeWrites

\* eepromErasePage, eepromWriteByte: one command each
eepromErasePage(address) ==
    /\ eeTask = EeIdle /\ eeWrites > 0
    /\ eeWrites' = eeWrites - 1
    /\ eeMemory' = [a \in DOMAIN eeMemory |-> IF EePageOf(a) = EePageOf(address) THEN EeErased ELSE eeMemory[a]]
    /\ eeKept' = {b \in eeKept : EePageOf(address) \notin EePagesOf(b)}
    /\ UNCHANGED <<iap, eeTask>>

eepromWriteByte(address, byte) ==
    /\ eeTask = EeIdle /\ eeWrites > 0
    /\ eeWrites' = eeWrites - 1
    /\ eeMemory' = [eeMemory EXCEPT ![address] = @ \cap byte]
    /\ LET others == {b \in eeKept : address \notin b.at .. b.at + Len(b.data) - 1}
       IN  eeKept' = IF eeMemory[address] = EeErased
                     THEN others \cup {[at |-> address, data |-> <<byte>>]}
                     ELSE others
    /\ UNCHANGED <<iap, eeTask>>

\* The microcontroller is reset: what was under way is not taken up again
EeReset ==
    /\ eeTask # EeIdle
    /\ eeTask' = EeIdle
    /\ iap' = FALSE
    /\ UNCHANGED <<eeMemory, eeKept, eeWrites>>

EeInit ==
    /\ eeMemory = [a \in 0 .. EeSize - 1 |-> IF a % 3 = 0 THEN {} ELSE EeErased]
    /\ iap = FALSE
    /\ eeTask = EeIdle
    /\ eeKept = {}
    /\ eeWrites = EeWrites

EeNext ==
    \/ \E block \in EeBlocks : eepromWriteBlock(block)
    \/ ErasePage \/ WriteNext
    \/ \E address \in EeAddresses : eepromErasePage(address)
    \/ \E address \in EeAddresses, byte \in EeBytes : eepromWriteByte(address, byte)
    \/ EeReset

EeSpec == EeInit /\ [][EeNext]_eeVars

\* eepromReadByte, eepromReadBlock
eepromReadByte(address) == eeMemory[address]
eepromReadBlock(address, count) == [i \in 1 .. count |-> eepromReadByte(address + i - 1)]

\* A block that was written reads back, until something is written over one of its
\* pages: a write erases the pages it needs and no others, from the first byte of
\* the block to the last, and a reset in the middle of one write does not cost the
\* blocks of another (eeprom-hal.c 105-121)
BlocksReadBack ==
    \A b \in eeKept : eepromReadBlock(b.at, Len(b.data)) = b.data
=============================================================================
