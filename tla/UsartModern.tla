---------------------------- MODULE UsartModern -----------------------------
(***************************************************************************)
(* The modern USART (avr_usart_modern.c).  A byte that is written goes to  *)
(* the wire IRQ at once; its waveform on the TXD pin is shifted out of a   *)
(* queue by one timer, while another, restarted by every write, ends the   *)
(* transmission.  Bytes are counted, a frame is a start bit, a data bit    *)
(* that is either level, and a stop bit, and a timer may fire any time.    *)
(* The data register is always empty: its flag and interrupt are left out. *)
(***************************************************************************)
EXTENDS Naturals, Sequences

CONSTANTS
    FifoSize, TxqSize

WellFormed == FifoSize \in Nat /\ TxqSize \in Nat

VARIABLES
    part,
    rxen, txen, rxcie, txcie, lbme,  \* CTRLA and CTRLB
    rx,         \* bytes in p->rx
    rxcif, txcif,
    rxcPending, txcPending,
    txq,        \* p->txq_count
    frame,      \* the bits of the frame still to shift, the current one included
    tick, done, \* the timers of usart_pin_tick and usart_tx_done
    loopback,   \* p->tx_loopback
    pin         \* p->pin_state: whether the USART drives the pin, and the level

enables == <<rxen, txen, rxcie, txcie, lbme>>
receiver == <<rx, rxcif, rxcPending>>
waveform == <<txq, frame, tick, pin>>
transmission == <<txcif, txcPending, done, loopback>>
vars == <<part, enables, receiver, waveform, transmission>>

Frames == {<<0, bit, 1>> : bit \in {0, 1}}
Released == <<FALSE, 0>>

Init ==
    /\ rxen = FALSE /\ txen = FALSE /\ rxcie = FALSE /\ txcie = FALSE /\ lbme = FALSE
    /\ rx = 0 /\ rxcif = FALSE /\ txcif = FALSE /\ rxcPending = FALSE /\ txcPending = FALSE
    /\ txq = 0 /\ frame = <<>> /\ tick = FALSE /\ done = FALSE /\ loopback = FALSE
    /\ pin = Released

-----------------------------------------------------------------------------
(* The receiver *)

\* Mutant: a full fifo takes the byte.
PushUnchecked ==
    IF rxen
    THEN rx' = rx + 1 /\ rxcif' = TRUE /\ rxcPending' = (rxcPending \/ rxcie)
    ELSE UNCHANGED receiver

\* usart_push_rx
PushRx ==
    IF rxen /\ rx < FifoSize
    THEN rx' = rx + 1 /\ rxcif' = TRUE /\ rxcPending' = (rxcPending \/ rxcie)
    ELSE UNCHANGED receiver

\* avr_usart_modern_irq_input
Input == PushRx /\ UNCHANGED <<part, enables, waveform, transmission>>

\* avr_usart_modern_rxdatal_read
ReadData ==
    /\ rx' = IF rx > 0 THEN rx - 1 ELSE 0
    /\ rxcif' = (rxcif /\ rx' > 0)
    /\ rxcPending' = (rxcPending /\ rx' > 0)
    /\ UNCHANGED <<part, enables, waveform, transmission>>

-----------------------------------------------------------------------------
(* The pin *)

\* usart_pin_update
PinState(on, bits) ==
    <<on \/ bits # <<>>, IF bits = <<>> THEN 1 ELSE Head(bits)>>

\* usart_start_frame, if a byte waits among queued.
StartFrame(queued) ==
    IF queued = 0
    THEN frame' = <<>> /\ txq' = 0 /\ tick' = FALSE
    ELSE frame' \in Frames /\ txq' = queued - 1 /\ tick' = TRUE

\* usart_pin_tick
PinTick ==
    /\ tick
    /\ IF Len(frame) > 1
       THEN frame' = Tail(frame) /\ UNCHANGED <<txq, tick>>
       ELSE StartFrame(txq)
    /\ pin' = PinState(txen, frame')
    /\ UNCHANGED <<part, enables, receiver, transmission>>

-----------------------------------------------------------------------------
(* The transmitter *)

Min2(a, b) == IF a < b THEN a ELSE b

\* avr_usart_modern_txdata_write
WriteData ==
    /\ txen
    /\ IF frame = <<>>
       THEN StartFrame(1) /\ pin' = PinState(txen, frame')
       ELSE txq' = Min2(txq + 1, TxqSize) /\ UNCHANGED <<frame, tick, pin>>
    /\ loopback' = (lbme /\ rxen)
    /\ txcif' = FALSE /\ done' = TRUE
    /\ UNCHANGED <<part, enables, receiver, txcPending>>

\* usart_tx_done
TxDone ==
    /\ done
    /\ IF loopback THEN PushRx ELSE UNCHANGED receiver
    /\ loopback' = FALSE /\ done' = FALSE
    /\ txcif' = TRUE /\ txcPending' = (txcPending \/ txcie)
    /\ UNCHANGED <<part, enables, waveform>>

-----------------------------------------------------------------------------
(* Control *)

\* avr_usart_modern_status_write of TXCIF
ClearTxc ==
    /\ txcif' = FALSE /\ txcPending' = FALSE
    /\ UNCHANGED <<part, enables, receiver, waveform, done, loopback>>

\* avr_usart_modern_ctrla_write
WriteCtrla(ie, tie, loop) ==
    /\ rxcie' = ie /\ txcie' = tie /\ lbme' = loop
    /\ rxcPending' = (rxcPending \/ (ie /\ rxcif))
    /\ txcPending' = (txcPending \/ (tie /\ txcif))
    /\ UNCHANGED <<part, rxen, txen, rx, rxcif, waveform, txcif, done, loopback>>

\* Mutant: a transmitter that is switched off leaves the pin at once.
LeavesAtOnce(on) == IF on THEN PinState(on, frame) ELSE Released

PinAfter(on) == PinState(on, frame)

\* avr_usart_modern_ctrlb_write: the frame in flight is finished.
WriteCtrlb(receives, sends) ==
    /\ rxen' = receives /\ txen' = sends
    /\ pin' = PinAfter(sends)
    /\ UNCHANGED <<part, rxcie, txcie, lbme, receiver, txq, frame, tick, transmission>>

\* The CPUINT controller serves a vector; the flags are sticky.
ServeRxc ==
    /\ rxcPending /\ rxcie /\ rxcPending' = FALSE
    /\ UNCHANGED <<part, enables, rx, rxcif, waveform, transmission>>
ServeTxc ==
    /\ txcPending /\ txcie /\ txcPending' = FALSE
    /\ UNCHANGED <<part, enables, receiver, waveform, txcif, done, loopback>>

\* avr_reset with avr_usart_modern_reset; no one is told of the pin.
Reset ==
    /\ rxen' = FALSE /\ txen' = FALSE /\ rxcie' = FALSE /\ txcie' = FALSE /\ lbme' = FALSE
    /\ rx' = 0 /\ rxcif' = FALSE /\ txcif' = FALSE
    /\ rxcPending' = FALSE /\ txcPending' = FALSE
    /\ txq' = 0 /\ frame' = <<>> /\ tick' = FALSE /\ done' = FALSE
    /\ pin' = Released
    /\ UNCHANGED <<part, loopback>>

-----------------------------------------------------------------------------
Next ==
    \/ Input \/ ReadData \/ PinTick \/ WriteData \/ TxDone \/ ClearTxc
    \/ \E ie, tie, loop \in BOOLEAN : WriteCtrla(ie, tie, loop)
    \/ \E receives, sends \in BOOLEAN : WriteCtrlb(receives, sends)
    \/ ServeRxc \/ ServeTxc \/ Reset

Spec == Init /\ [][Next]_vars

-----------------------------------------------------------------------------
(* Properties *)

TypeOK ==
    /\ \A flag \in {rxen, txen, rxcie, txcie, lbme, rxcif, txcif} : flag \in BOOLEAN
    /\ \A flag \in {rxcPending, txcPending, tick, done, loopback} : flag \in BOOLEAN
    /\ rx \in 0 .. FifoSize /\ txq \in 0 .. TxqSize
    /\ Len(frame) \in 0 .. 3 /\ pin \in BOOLEAN \X {0, 1}

\* A frame is being shifted exactly while its timer runs, a queue waits only
\* behind a frame, the pin is held until the last frame has been shifted, and
\* RXCIF and its request stand for bytes in the fifo.
WorkIsTimed ==
    /\ tick <=> frame # <<>>
    /\ txq > 0 => tick
    /\ pin[1] <=> txen \/ tick
    /\ pin[1] => pin = PinState(txen, frame)
    /\ rxcif <=> rx > 0
    /\ rxcPending => rxcif

=============================================================================
