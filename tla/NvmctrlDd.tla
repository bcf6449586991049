----------------------------- MODULE NvmctrlDd -----------------------------
(***************************************************************************)
(* The non-volatile memory controller of the AVR DD (avr_nvmctrl_dd.c): a  *)
(* command behind the CCP window arms a mode, and each store into a memory *)
(* then programs or erases, if the sections of the flash allow it.         *)
(*                                                                         *)
(* A flash page, the EEPROM and the user row are one cell each, 1 when     *)
(* erased.  The error code, the latched address and FLMAP are data.        *)
(***************************************************************************)
EXTENDS Integers, Ccp

CONSTANTS
    FlashPages,      \* 0 .. n-1
    SectionOf,       \* the section of each page, by the fuses
    OpTime           \* NVM_OP_CYCLES

VARIABLES
    part,
    eeprom, userrow, flash,
    armed,           \* the command in CTRLA
    protected,       \* the sections that APPCODEWP and APPDATAWP lock
    fbusy, eebusy,   \* STATUS
    eeready, intctrl, pending, \* INTFLAGS, INTCTRL and the vector
    op               \* the cycles left of nvm_op_done, or Off

memories == <<eeprom, userrow, flash>>
interrupt == <<eeready, intctrl, pending>>
vars == <<part, ccp, signed, memories, armed, protected, fbusy, eebusy, interrupt, op>>

Off == -1
Bits == {0, 1}
Sections == {"boot", "appcode", "appdata"}

\* FLPER and FLMPER2 stand for the page erases, EEWR for EEERWR too, EEBER for
\* the byte erases; CHER is the chip erase, EECHER that of the EEPROM.
Commands == {"NOCMD", "FLWR", "FLPER", "FLMPER2", "EEWR", "EEBER", "CHER", "EECHER",
             "invalid"}
Armable == Commands \ {"CHER", "EECHER", "invalid"}

ResetRegisters ==
    /\ armed' = "NOCMD" /\ protected' = {}
    /\ fbusy' = FALSE /\ eebusy' = FALSE
    /\ eeready' = TRUE /\ intctrl' = FALSE /\ pending' = FALSE /\ op' = Off

\* What the constants are: an operation takes a cycle at least, and every page
\* is in a section.
WellFormed == OpTime \in Nat \ {0} /\ \A p \in FlashPages : SectionOf[p] \in Sections

Init ==
    /\ CcpInit
    /\ eeprom = 1 /\ userrow = 1 /\ flash = [p \in FlashPages |-> 1]
    /\ armed = "NOCMD" /\ protected = {}
    /\ fbusy = FALSE /\ eebusy = FALSE
    /\ eeready = TRUE /\ intctrl = FALSE /\ pending = FALSE /\ op = Off

Pass(t) == IF t > 0 THEN t - 1 ELSE t
Executes == op # 0
Busy == fbusy \/ eebusy

-----------------------------------------------------------------------------
(* Operations *)

\* nvm_begin for the flash and for the EEPROM, in an instruction.
BeginFlash ==
    /\ fbusy' = TRUE /\ op' = OpTime - 1
    /\ UNCHANGED <<eebusy, eeready, pending>>

BeginEe ==
    /\ eebusy' = TRUE /\ op' = OpTime - 1
    /\ eeready' = FALSE /\ pending' = FALSE
    /\ UNCHANGED fbusy

\* No operation begins.
Keeps == UNCHANGED <<fbusy, eebusy, eeready, pending>> /\ op' = Pass(op)

\* nvm_flash_write_allowed for code that runs in section exec.
Allowed(exec, p) ==
    CASE SectionOf[p] = "boot" -> FALSE
      [] SectionOf[p] = "appcode" -> exec = "boot" /\ "appcode" \notin protected
      [] SectionOf[p] = "appdata" -> exec # "appdata" /\ "appdata" \notin protected

\* The pages an erase of the armed kind takes: FLMPER2 an aligned pair.
ErasedPages(p) ==
    IF armed = "FLMPER2" THEN {q \in FlashPages : q \div 2 = p \div 2} ELSE {p}

\* nvm_flash_store: a protected page aborts the whole erase.
StoreFlash(exec, p) ==
    /\ UNCHANGED <<eeprom, userrow>>
    /\ \/ /\ armed = "FLWR" /\ Allowed(exec, p)
          /\ \E v \in Bits : flash' = [flash EXCEPT ![p] = v]
          /\ BeginFlash
       \/ /\ armed \in {"FLPER", "FLMPER2"} /\ Allowed(exec, p)
          /\ \A q \in ErasedPages(p) : Allowed(exec, q)
          /\ flash' = [q \in FlashPages |-> IF q \in ErasedPages(p) THEN 1 ELSE flash[q]]
          /\ BeginFlash
       \/ /\ \/ armed \notin {"FLWR", "FLPER", "FLMPER2"}
             \/ ~Allowed(exec, p)
             \/ armed # "FLWR" /\ \E q \in ErasedPages(p) : ~Allowed(exec, q)
          /\ UNCHANGED flash /\ Keeps

\* nvm_ee_store
StoreEe ==
    /\ UNCHANGED <<userrow, flash>>
    /\ CASE armed = "EEWR" -> eeprom' \in Bits /\ BeginEe
         [] armed = "EEBER" -> eeprom' = 1 /\ BeginEe
         [] OTHER -> UNCHANGED eeprom /\ Keeps

\* nvm_uro_store
StoreUserRow ==
    /\ UNCHANGED <<eeprom, flash>>
    /\ CASE armed = "FLWR" -> userrow' \in Bits /\ BeginFlash
         [] armed = "FLPER" -> userrow' = 1 /\ BeginFlash
         [] OTHER -> UNCHANGED userrow /\ Keeps

Store ==
    /\ Executes
    /\ (\E exec \in Sections, p \in FlashPages : StoreFlash(exec, p)) \/ StoreEe \/ StoreUserRow
    /\ OtherInstruction
    /\ UNCHANGED <<part, armed, protected, intctrl>>

-----------------------------------------------------------------------------
(* Registers *)

\* A command is refused while busy, NOCMD (and NOOP) never.
Refused(command) == command # "NOCMD" /\ Busy

\* nvm_ctrla_write; CHER is left to the programming interface.
WriteCtrla(command) ==
    /\ Executes
    /\ IF ~Unlocked \/ command \in {"CHER", "invalid"} \/ Refused(command)
       THEN UNCHANGED <<armed, eeprom>> /\ Keeps
       ELSE IF command = "EECHER"
       THEN armed' = "NOCMD" /\ eeprom' = 1 /\ BeginEe
       ELSE armed' = command /\ UNCHANGED eeprom /\ Keeps
    /\ OtherInstruction
    /\ UNCHANGED <<part, userrow, flash, protected, intctrl>>

\* nvm_ctrlb_write: a protection that is set stays until a reset.
WriteCtrlb(bits) ==
    /\ Executes
    /\ protected' = IF Unlocked THEN protected \cup bits ELSE protected
    /\ Keeps /\ OtherInstruction
    /\ UNCHANGED <<part, memories, armed, intctrl>>

\* nvm_intctrl_write
WriteIntctrl(e) ==
    /\ Executes
    /\ intctrl' = e
    /\ pending' = (e /\ (pending \/ eeready))
    /\ op' = Pass(op) /\ OtherInstruction
    /\ UNCHANGED <<part, memories, armed, protected, fbusy, eebusy, eeready>>

\* nvm_intflags_write with EEREADY: nothing while the EEPROM is idle.
WriteIntflags ==
    /\ Executes
    /\ eeready' = (eeready /\ ~eebusy)
    /\ op' = Pass(op) /\ OtherInstruction
    /\ UNCHANGED <<part, memories, armed, protected, fbusy, eebusy, intctrl, pending>>

Plain ==
    /\ Executes /\ Keeps
    /\ WriteCcp \/ OtherInstruction
    /\ UNCHANGED <<part, memories, armed, protected, intctrl>>

ServeReady ==
    /\ pending /\ pending' = FALSE
    /\ UNCHANGED <<part, ccp, signed, memories, armed, protected, fbusy, eebusy, eeready,
                   intctrl, op>>

\* nvm_op_done
OpDone ==
    /\ op = 0
    /\ op' = Off /\ fbusy' = FALSE /\ eebusy' = FALSE
    /\ eeready' = (eeready \/ eebusy)
    /\ pending' = (pending \/ (eebusy /\ intctrl))
    /\ UNCHANGED <<part, ccp, signed, memories, armed, protected, intctrl>>

\* avr_reset with nvm_reset: the memories persist.
Reset == ResetRegisters /\ UNCHANGED <<part, ccp, signed, memories>>

Next ==
    \/ Store \/ \E c \in Commands : WriteCtrla(c)
    \/ \E s \in SUBSET {"appcode", "appdata"} : WriteCtrlb(s)
    \/ \E e \in BOOLEAN : WriteIntctrl(e)
    \/ WriteIntflags \/ Plain \/ ServeReady \/ OpDone \/ Reset

Spec == Init /\ [][Next]_vars

-----------------------------------------------------------------------------
(* Properties *)

TypeOK ==
    /\ CcpTypeOK
    /\ eeprom \in Bits /\ userrow \in Bits /\ flash \in [FlashPages -> Bits]
    /\ armed \in Armable /\ protected \subseteq {"appcode", "appdata"}
    /\ fbusy \in BOOLEAN /\ eebusy \in BOOLEAN /\ eeready \in BOOLEAN
    /\ intctrl \in BOOLEAN /\ pending \in BOOLEAN /\ op \in Nat \cup {Off}

\* The controller is busy exactly while an operation is being timed.
TimersFollowRegisters == Busy <=> op # Off

\* A command is armed, and a section locked, only in the instructions after a
\* signature, and a lock goes only by a reset; no page of the boot section or
\* of a locked section changes, not by an erase of several pages either.
ChangesInSequence ==
    /\ armed' # armed => signed < CcpWindow \/ Reset
    /\ protected' # protected => (signed < CcpWindow /\ protected \subseteq protected') \/ Reset
    /\ \A p \in FlashPages : flash'[p] # flash[p] =>
           SectionOf[p] # "boot" /\ SectionOf[p] \notin protected

\* EEREADY is set exactly while the EEPROM is idle, and a request of the ready
\* interrupt stands for the flag and the enable.
RequestIsReady ==
    /\ eeready <=> ~eebusy
    /\ pending => eeready /\ intctrl

=============================================================================
