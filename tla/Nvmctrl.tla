------------------------------ MODULE Nvmctrl ------------------------------
(***************************************************************************)
(* The non-volatile memory controller of the 0- and 1-series               *)
(* (avr_nvmctrl.c): stores into a memory fill the page buffer of its       *)
(* section, and a command behind the CCP window commits or erases.         *)
(*                                                                         *)
(* The EEPROM and the user row are pages of the same buffer; the flash has *)
(* its own.  A byte is 1 when erased.                                      *)
(***************************************************************************)
EXTENDS Integers, Ccp

CONSTANTS
    FlashPages, Offsets,  \* of the flash; of any page
    Values,               \* that are stored
    OpTime                \* NVM_OP_CYCLES

VARIABLES
    part,
    eeprom, userrow, flash,
    buf, dirty, fbuf, fdirty, fbufPage, \* p->buf ... p->fbuf_page
    section,              \* p->last_section
    fbusy, eebusy,        \* STATUS
    eeready, intctrl, pending, \* INTFLAGS, INTCTRL and the vector
    op                    \* the cycles left of nvm_op_done, or Off

memories == <<eeprom, userrow, flash>>
buffers == <<buf, dirty, fbuf, fdirty, fbufPage, section>>
status == <<fbusy, eebusy, eeready, intctrl, pending>>
vars == <<part, ccp, signed, memories, buffers, status, op>>

Off == -1
Bits == {0, 1}
Commands == {"none", "PAGEWRITE", "PAGEERASE", "PAGEERASEWRITE", "PAGEBUFCLR", "CHIPERASE",
             "EEERASE", "FUSEWRITE"}
Erased == [o \in Offsets |-> 1]
SomePage == CHOOSE p \in FlashPages : \A q \in FlashPages : p <= q

BuffersReset == dirty' = {} /\ fdirty' = {} /\ fbufPage' = SomePage /\ section' = "none"

\* What the constants are: an operation takes a cycle at least, and the flash
\* has a first page.
WellFormed ==
    /\ OpTime \in Nat \ {0} /\ Values \subseteq Bits
    /\ \E p \in FlashPages : \A q \in FlashPages : p <= q

Init ==
    /\ CcpInit
    /\ eeprom = Erased /\ userrow = Erased /\ flash = [p \in FlashPages |-> Erased]
    /\ buf = Erased /\ dirty = {} /\ fbuf = Erased /\ fdirty = {}
    /\ fbufPage = SomePage /\ section = "none"
    /\ fbusy = FALSE /\ eebusy = FALSE /\ eeready = FALSE /\ intctrl = FALSE
    /\ pending = FALSE /\ op = Off

Pass(t) == IF t > 0 THEN t - 1 ELSE t
Executes == op # 0

-----------------------------------------------------------------------------
(* Stores into the memories *)

\* avr_nvmctrl_ee_write and avr_nvmctrl_uro_write
StoreEe(s, o, v) ==
    /\ s \in {"ee", "userrow"}
    /\ buf' = [buf EXCEPT ![o] = v] /\ dirty' = dirty \cup {o} /\ section' = s
    /\ UNCHANGED <<fbuf, fdirty, fbufPage>>

\* avr_nvmctrl_flash_write: another page starts with an empty buffer.
StoreFlash(p, o, v) ==
    /\ fbufPage' = p
    /\ fdirty' = (IF p = fbufPage THEN fdirty ELSE {}) \cup {o}
    /\ fbuf' = [fbuf EXCEPT ![o] = v]
    /\ section' = "flash"
    /\ UNCHANGED <<buf, dirty>>

Store ==
    /\ Executes
    /\ \E o \in Offsets, v \in Values :
          \/ \E s \in {"ee", "userrow"} : StoreEe(s, o, v)
          \/ \E p \in FlashPages : StoreFlash(p, o, v)
    /\ op' = Pass(op) /\ OtherInstruction
    /\ UNCHANGED <<part, memories, status>>

-----------------------------------------------------------------------------
(* Commands *)

\* A page after its dirty bytes were written from b, or erased.
Committed(page, b, d) == [o \in Offsets |-> IF o \in d THEN b[o] ELSE page[o]]

\* nvm_begin; the instruction takes a cycle.
Begin(flag) ==
    /\ fbusy' = (fbusy \/ flag = "fbusy") /\ eebusy' = (eebusy \/ flag = "eebusy")
    /\ op' = OpTime - 1

Keeps == UNCHANGED <<fbusy, eebusy>> /\ op' = Pass(op)

\* CHIPERASE spares the user row.
ChipErase ==
    /\ eeprom' = Erased /\ flash' = [p \in FlashPages |-> Erased]
    /\ dirty' = {} /\ fdirty' = {}
    /\ Begin("eebusy")
    /\ UNCHANGED userrow

\* FUSEWRITE with an address that there is, or not.
FuseWrite ==
    /\ Begin("fbusy") \/ Keeps
    /\ UNCHANGED <<memories, dirty, fdirty>>

\* The page commands on a page of the EEPROM or the user row.
EePage(command, page) ==
    CASE command \in {"PAGEWRITE", "PAGEERASEWRITE"} -> Committed(page, buf, dirty)
      [] command = "PAGEERASE" -> Committed(page, Erased, dirty)
      [] OTHER -> page

PageCommands == {"PAGEWRITE", "PAGEERASE", "PAGEERASEWRITE", "PAGEBUFCLR"}

UserRowCommand(command) ==
    /\ section = "userrow"
    /\ IF command \in PageCommands
       THEN userrow' = EePage(command, userrow) /\ dirty' = {} /\ Begin("eebusy")
       ELSE Keeps /\ UNCHANGED <<userrow, dirty>>
    /\ UNCHANGED <<eeprom, flash, fdirty>>

EepromCommand(command) ==
    /\ section \in {"ee", "none"}
    /\ IF command \in PageCommands \cup {"EEERASE"}
       THEN /\ eeprom' = IF command = "EEERASE" THEN Erased ELSE EePage(command, eeprom)
            /\ dirty' = {} /\ Begin("eebusy")
       ELSE Keeps /\ UNCHANGED <<eeprom, dirty>>
    /\ UNCHANGED <<userrow, flash, fdirty>>

\* The whole page is erased, and then the dirty bytes are written.
FlashPage(command, page) ==
    LET base == IF command \in {"PAGEERASE", "PAGEERASEWRITE"} THEN Erased ELSE page
    IN  IF command \in {"PAGEWRITE", "PAGEERASEWRITE"}
        THEN Committed(base, fbuf, fdirty) ELSE base

FlashCommand(command) ==
    /\ section = "flash"
    /\ IF command \in PageCommands
       THEN /\ flash' = [flash EXCEPT ![fbufPage] = FlashPage(command, @)]
            /\ fdirty' = {} /\ Begin("fbusy")
       ELSE Keeps /\ UNCHANGED <<flash, fdirty>>
    /\ UNCHANGED <<eeprom, userrow, dirty>>

Command(command) ==
    CASE command = "CHIPERASE" -> ChipErase
      [] command = "FUSEWRITE" -> FuseWrite
      [] OTHER -> UserRowCommand(command) \/ EepromCommand(command) \/ FlashCommand(command)

\* avr_nvmctrl_ctrla_write
WriteCtrla(command) ==
    /\ Executes
    /\ IF Unlocked THEN Command(command) ELSE Keeps /\ UNCHANGED <<memories, dirty, fdirty>>
    /\ OtherInstruction
    /\ UNCHANGED <<part, buf, fbuf, fbufPage, section, eeready, intctrl, pending>>

-----------------------------------------------------------------------------
(* The interrupt, other instructions and the reset *)

\* INTCTRL is a plain register.
WriteIntctrl(e) ==
    /\ Executes /\ intctrl' = e /\ op' = Pass(op) /\ OtherInstruction
    /\ UNCHANGED <<part, memories, buffers, fbusy, eebusy, eeready, pending>>

\* avr_nvmctrl_intflags_write
WriteIntflags(clears) ==
    /\ Executes
    /\ eeready' = (eeready /\ ~clears)
    /\ pending' = (pending /\ eeready')
    /\ op' = Pass(op) /\ OtherInstruction
    /\ UNCHANGED <<part, memories, buffers, fbusy, eebusy, intctrl>>

Plain ==
    /\ Executes /\ op' = Pass(op)
    /\ WriteCcp \/ OtherInstruction
    /\ UNCHANGED <<part, memories, buffers, status>>

\* The vector is served, or dropped if it is masked.
ServeReady ==
    /\ pending /\ pending' = FALSE
    /\ UNCHANGED <<part, ccp, signed, memories, buffers, fbusy, eebusy, eeready, intctrl, op>>

\* nvm_op_done
OpDone ==
    /\ op = 0
    /\ op' = Off /\ fbusy' = FALSE /\ eebusy' = FALSE
    /\ eeready' = (eeready \/ eebusy)
    /\ pending' = (pending \/ (eebusy /\ intctrl))
    /\ UNCHANGED <<part, ccp, signed, memories, buffers, intctrl>>

\* avr_reset with avr_nvmctrl_reset: the memories persist.
Reset ==
    /\ BuffersReset
    /\ fbusy' = FALSE /\ eebusy' = FALSE /\ eeready' = FALSE /\ intctrl' = FALSE
    /\ pending' = FALSE /\ op' = Off
    /\ UNCHANGED <<part, ccp, signed, memories, buf, fbuf>>

Next ==
    \/ Store \/ \E c \in Commands : WriteCtrla(c)
    \/ \E b \in BOOLEAN : WriteIntctrl(b) \/ WriteIntflags(b)
    \/ Plain \/ ServeReady \/ OpDone \/ Reset

Spec == Init /\ [][Next]_vars

-----------------------------------------------------------------------------
(* Properties *)

TypeOK ==
    /\ CcpTypeOK
    /\ eeprom \in [Offsets -> Bits] /\ userrow \in [Offsets -> Bits]
    /\ flash \in [FlashPages -> [Offsets -> Bits]]
    /\ buf \in [Offsets -> Bits] /\ dirty \subseteq Offsets
    /\ fbuf \in [Offsets -> Bits] /\ fdirty \subseteq Offsets /\ fbufPage \in FlashPages
    /\ section \in {"none", "ee", "userrow", "flash"}
    /\ fbusy \in BOOLEAN /\ eebusy \in BOOLEAN /\ eeready \in BOOLEAN
    /\ intctrl \in BOOLEAN /\ pending \in BOOLEAN /\ op \in Nat \cup {Off}

\* The controller is busy exactly while an operation is being timed.
TimersFollowRegisters == fbusy \/ eebusy <=> op # Off

\* The memories change only in the instructions after a signature, at most one
\* section and one flash page at a time unless the chip is erased, and a flash
\* page only if it was the last one stored into.
ChangesInSequence ==
    \/ UNCHANGED memories
    \/ /\ signed < CcpWindow
       /\ \/ eeprom' = Erased /\ flash' = [p \in FlashPages |-> Erased] /\ userrow' = userrow
          \/ UNCHANGED <<userrow, flash>>
          \/ UNCHANGED <<eeprom, flash>> /\ section = "userrow"
          \/ /\ UNCHANGED <<eeprom, userrow>> /\ section = "flash"
             /\ \A p \in FlashPages \ {fbufPage} : flash'[p] = flash[p]

\* A request of the ready interrupt stands for a flag that is set.
RequestIsReady == pending => eeready

=============================================================================
