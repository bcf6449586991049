-------------------------------- MODULE Ccp --------------------------------
(***************************************************************************)
(* Configuration change protection of the modern cores (sim_avr.c and the  *)
(* end of avr_run_one): a signature in the CCP register opens protected    *)
(* registers for the next few instructions.                                *)
(***************************************************************************)
EXTENDS Integers

CONSTANT CcpWindow     \* AVR_CCP_WINDOW

ASSUME CcpAssumption == CcpWindow \in Nat

VARIABLES
    ccp,               \* avr->arch.ccp_window
    signed             \* history: instructions since the signature

CcpInit == ccp = 0 /\ signed = CcpWindow + 1

\* avr_ccp_io_write_enabled
Unlocked == ccp > 0

\* Mutant: the count is not tested before it is decremented.
Decremented(w) == w - 1

\* The end of an instruction that left the window at w.
AfterInstruction(w) == IF w > 0 THEN w - 1 ELSE 0

\* Mutant: the instruction that writes the signature uses up a step.
ShortWindow == CcpWindow

\* One more than the window: this instruction counts it down as well.
OpenedCcp == CcpWindow + 1

\* avr_ccp_write with one of the two signatures.
WriteCcp == ccp' = AfterInstruction(OpenedCcp) /\ signed' = 0

\* Any other instruction.
OtherInstruction ==
    /\ ccp' = AfterInstruction(ccp)
    /\ signed' = IF signed <= CcpWindow THEN signed + 1 ELSE signed

CcpTypeOK == ccp \in 0 .. CcpWindow /\ signed \in 0 .. CcpWindow + 1

\* Protected registers are open for exactly CcpWindow instructions after the
\* one that wrote the signature, whatever else happens, a reset included
\* (avr_ccp_write, avr_run_one).
CcpIsExact == Unlocked <=> signed < CcpWindow

=============================================================================
