------------------------------- MODULE Flash -------------------------------
(***************************************************************************)
(* Self-programming of the classic flash (avr_flash.c): SPM and LPM within *)
(* a few cycles of SELFPRGEN, and the buffer of a page whose words can be  *)
(* written once.  A word is 1 when erased.                                 *)
(***************************************************************************)
EXTENDS Integers

CONSTANTS
    Pages, Words,  \* of the flash, of a page
    Window,        \* cycles SELFPRGEN stays set
    Far            \* history: cycles are counted up to here

VARIABLES
    part,          \* .spmen: the SPM enable fuse is programmed; .rww: RWWSRE is there
    selfprgen,     \* in SPMCSR
    op,            \* what the other bits of SPMCSR select
    flash,
    tmppage, used, \* p->tmppage, p->tmppage_used
    window,        \* the cycles left of avr_progen_clear, or Off
    since          \* history: cycles since SELFPRGEN was written

vars == <<part, selfprgen, op, flash, tmppage, used, window, since>>

Off == -1
Bits == {0, 1}

\* PGERS, PGWRT, BLBSET and RWWSRE in this order of precedence, or none of them.
Ops == {"erase", "write", "lock", "rww", "fill"}

EmptyPage == [w \in Words |-> 1]

\* What the constants are: what is remembered is longer than the window.
WellFormed == Window \in Nat \ {0} /\ Far \in Nat /\ Window <= Far

Init ==
    /\ selfprgen = FALSE /\ op = "fill"
    /\ flash = [p \in Pages |-> EmptyPage]
    /\ tmppage = EmptyPage /\ used = {}
    /\ window = Off /\ since = Far

Pass(t) == IF t > 0 THEN t - 1 ELSE t
Older == IF since < Far THEN since + 1 ELSE Far
Executes == window # 0

-----------------------------------------------------------------------------
\* avr_flash_write: every write with SELFPRGEN opens the window again.
Write(enable, o) ==
    /\ Executes
    /\ IF ~part.spmen
       THEN UNCHANGED <<selfprgen, op>> /\ window' = Pass(window) /\ since' = Older
       ELSE /\ selfprgen' = enable /\ op' = o
            /\ window' = IF enable THEN Window - 1 ELSE Pass(window)
            /\ since' = IF enable THEN 1 ELSE Older
    /\ UNCHANGED <<part, flash, tmppage, used>>

Plain ==
    /\ Executes
    /\ window' = Pass(window) /\ since' = Older
    /\ UNCHANGED <<part, selfprgen, op, flash, tmppage, used>>

\* SPM and LPM end the sequence, whatever they find.
EndsSequence ==
    /\ selfprgen' = FALSE
    /\ window' = IF selfprgen THEN Off ELSE Pass(window)
    /\ since' = Older
    /\ UNCHANGED <<part, op>>

\* LPM: AVR_IOCTL_FLASH_LPM
Lpm == Executes /\ EndsSequence /\ UNCHANGED <<flash, tmppage, used>>

ClearTemppage == tmppage' = EmptyPage /\ used' = {}

ErasePage(p) ==
    op = "erase" /\ flash' = [flash EXCEPT ![p] = EmptyPage] /\ UNCHANGED <<tmppage, used>>

WritePage(p) == op = "write" /\ flash' = [flash EXCEPT ![p] = tmppage] /\ ClearTemppage

LockBits == op = "lock" /\ UNCHANGED <<flash, tmppage, used>>

EnableRww == op = "rww" /\ part.rww /\ ClearTemppage /\ UNCHANGED flash

\* A word of the buffer can be written once.
FillWord(w, d) ==
    /\ op = "fill" \/ (op = "rww" /\ ~part.rww)
    /\ IF w \in used
       THEN UNCHANGED <<tmppage, used>>
       ELSE tmppage' = [tmppage EXCEPT ![w] = d] /\ used' = used \cup {w}
    /\ UNCHANGED flash

\* SPM with Z in page p and word w and R1:R0 = d: AVR_IOCTL_FLASH_SPM
Spm(p, w, d) ==
    /\ Executes /\ EndsSequence
    /\ IF selfprgen
       THEN ErasePage(p) \/ WritePage(p) \/ LockBits \/ EnableRww \/ FillWord(w, d)
       ELSE UNCHANGED <<flash, tmppage, used>>

\* avr_progen_clear
EnableEnds ==
    /\ window = 0
    /\ window' = Off /\ selfprgen' = FALSE
    /\ UNCHANGED <<part, op, flash, tmppage, used, since>>

\* avr_reset with avr_flash_reset
Reset ==
    /\ selfprgen' = FALSE /\ op' = "fill" /\ window' = Off /\ since' = Far
    /\ ClearTemppage
    /\ UNCHANGED <<part, flash>>

Next ==
    \/ \E enable \in BOOLEAN, o \in Ops : Write(enable, o)
    \/ Plain \/ Lpm
    \/ \E p \in Pages, w \in Words, d \in Bits : Spm(p, w, d)
    \/ EnableEnds \/ Reset

Spec == Init /\ [][Next]_vars

-----------------------------------------------------------------------------
(* Properties *)

TypeOK ==
    /\ selfprgen \in BOOLEAN /\ op \in Ops
    /\ flash \in [Pages -> [Words -> Bits]]
    /\ tmppage \in [Words -> Bits] /\ used \subseteq Words
    /\ window \in Nat \cup {Off} /\ since \in 1 .. Far

\* SELFPRGEN is about to be cleared.
TimersFollowRegisters == selfprgen => window \in 0 .. Window

\* The flash and its buffer change only within Window cycles of SELFPRGEN, one
\* page at a time, and never on a part whose fuse locks SPM; a word that is in
\* the buffer stays until the buffer is written or dropped.
ChangesInSequence ==
    \/ UNCHANGED <<flash, tmppage, used>>
    \/ Reset /\ flash' = flash
    \/ /\ since < Window /\ part.spmen
       /\ \A p, q \in Pages : flash'[p] # flash[p] /\ flash'[q] # flash[q] => p = q
       /\ used' = {} \/ \A w \in used : tmppage'[w] = tmppage[w]

=============================================================================
