-------------------------------- MODULE Uart --------------------------------
(***************************************************************************)
(* The classic USART (avr_uart.c): the receive fifo with its pump and its  *)
(* flow control, and the transmitter with its count of unsent bytes.       *)
(*                                                                         *)
(* Only how many bytes the fifo holds matters.  The cycles of a byte are   *)
(* not counted: a pump that is armed may fire at any time.  The sender is  *)
(* that of uart_pty.c, or one that ignores the flow control.  The bytes    *)
(* that an XON hook sends at once are steps of their own.                  *)
(***************************************************************************)
EXTENDS Integers

CONSTANTS
    Room,       \* bytes the fifo takes
    TxCounts    \* tx_cnt is a byte: 256

WellFormed == Room \in Nat \ {0} /\ TxCounts \in Nat \ {0}

VARIABLES
    part,       \* .polite: the sender heeds XOFF
    rxen, txen, udrie,     \* UCSRB
    rxc, txc, udre, dor,   \* UCSRA
    input,      \* bytes in p->input
    rxPump, txPump,        \* the timers of avr_uart_rxc_raise and avr_uart_txc_raise
    rxCnt, txCnt,          \* p->rx_cnt, up to 2, and p->tx_cnt
    xoff,       \* the value of the filtered IRQ UART_IRQ_OUT_XOFF
    xon,        \* the sender may send
    rejectedAt  \* history: the bytes in the fifo when one was last rejected

receiver == <<rxc, dor, input, rxPump, rxCnt, rejectedAt>>
flow == <<xoff, xon>>
transmitter == <<udre, txPump, txCnt>>
enables == <<rxen, txen, udrie>>
vars == <<part, enables, receiver, flow, transmitter, txc>>

Nowhere == -1
Unset == -1

Init ==
    /\ rxen = FALSE /\ txen = TRUE /\ udrie = FALSE
    /\ rxc = FALSE /\ txc = FALSE /\ udre = TRUE /\ dor = FALSE
    /\ input = 0 /\ rxPump = FALSE /\ txPump = FALSE /\ rxCnt = 0 /\ txCnt = 0
    /\ xoff = Unset /\ xon = FALSE /\ rejectedAt = Nowhere

-----------------------------------------------------------------------------
(* Flow control *)

\* uart_pty_xoff_hook stops on every call, one that says 0 too.
TellFull ==
    /\ xoff' = 1
    /\ xon' = (xon /\ xoff = 1)

\* XOFF 0, then XON.
TellRoom == xoff' = 0 /\ xon' = TRUE

-----------------------------------------------------------------------------
(* The receiver *)

\* Mutant: the fifo is found full one byte too late.
FullLate(n) == n > Room

Full(n) == n = Room

\* avr_uart_irq_input
Receive ==
    /\ rxen /\ (xon \/ ~part.polite)
    /\ LET starts == input = 0 /\ ~rxPump
           overrun == IF starts THEN FALSE ELSE input = Room \/ dor
       IN  /\ rxPump' = (rxPump \/ starts)
           /\ rxCnt' = IF starts THEN 0 ELSE rxCnt
           /\ dor' = overrun
           /\ input' = IF overrun THEN input ELSE input + 1
           /\ rejectedAt' = IF overrun THEN input ELSE rejectedAt
    /\ IF Full(input') THEN TellFull ELSE UNCHANGED flow
    /\ UNCHANGED <<part, enables, rxc, transmitter, txc>>

\* avr_uart_rxc_raise
RxPumps ==
    /\ rxPump
    /\ IF rxen /\ input > 0
       THEN rxc' = TRUE /\ rxCnt' = (IF rxc THEN rxCnt ELSE 0) /\ UNCHANGED rxPump
       ELSE rxPump' = FALSE /\ UNCHANGED <<rxc, rxCnt>>
    /\ UNCHANGED <<part, enables, dor, input, rejectedAt, flow, transmitter, txc>>

\* avr_uart_status_read
ReadStatus ==
    /\ rxen /\ input = 0 /\ TellRoom
    /\ UNCHANGED <<part, enables, receiver, transmitter, txc>>

\* A byte is there to be read.
Readable == rxen /\ rxc /\ input > 0

\* avr_uart_read; fast: less than a byte time per byte since RXC was raised.
ReadData(fast) ==
    LET read == IF rxCnt < 2 THEN rxCnt + 1 ELSE 2
        throttled == Readable /\ read > 1 /\ fast
    IN  /\ input' = IF Readable THEN input - 1 ELSE input
        /\ rxCnt' = IF ~Readable THEN rxCnt ELSE IF throttled THEN 0 ELSE read
        /\ rxc' = (rxc /\ ~throttled /\ input' # 0)
        /\ rxPump' = (rxPump /\ input' # 0)
        /\ dor' = (dor /\ input' = Room)
        /\ IF input' = 0 THEN TellRoom ELSE UNCHANGED flow
        /\ UNCHANGED <<part, enables, rejectedAt, transmitter, txc>>

-----------------------------------------------------------------------------
(* The transmitter *)

\* avr_uart_udr_write
WriteData ==
    /\ udre' = FALSE
    /\ txCnt' = IF txen THEN (txCnt + 1) % TxCounts ELSE txCnt
    /\ txPump' = (txPump \/ txen)
    /\ UNCHANGED <<part, enables, receiver, flow, txc>>

\* avr_uart_txc_raise
TxPumps ==
    /\ txPump
    /\ txc' = (txc \/ txCnt = 1)
    /\ txCnt' = IF txCnt > 0 THEN txCnt - 1 ELSE 0
    /\ udre' = IF txCnt' > 0 THEN FALSE ELSE udre \/ txen
    /\ txPump' = (txCnt' > 0 \/ (txen /\ udrie))
    /\ UNCHANGED <<part, enables, receiver, flow>>

\* The TXC vector is served, which clears the flag.
ServeTxc == txc /\ txc' = FALSE /\ UNCHANGED <<part, enables, receiver, flow, transmitter>>

-----------------------------------------------------------------------------
(* Control *)

\* avr_uart_write of UCSRA
WriteStatus(clears) ==
    /\ dor' = FALSE
    /\ txc' = (txc /\ ~clears)
    /\ UNCHANGED <<part, enables, rxc, input, rxPump, rxCnt, rejectedAt, flow, transmitter>>

StartReceiver ==
    /\ ~rxen
    /\ IF input = 0 THEN TellRoom ELSE UNCHANGED flow
    /\ UNCHANGED receiver

StopReceiver ==
    /\ rxen
    /\ TellFull
    /\ rxPump' = FALSE /\ input' = 0 /\ rxc' = FALSE
    /\ UNCHANGED <<dor, rxCnt, rejectedAt>>

\* UDRIE set with nothing to send raises UDRE at once.
Raises(tx, ie) == ie /\ ~udrie /\ tx /\ ~txPump

\* avr_uart_write of UCSRB
WriteControl(rx, tx, ie) ==
    /\ rxen' = rx /\ txen' = tx /\ udrie' = ie
    /\ IF rx = rxen THEN UNCHANGED <<receiver, flow>> ELSE StartReceiver \/ StopReceiver
    /\ udre' = IF tx # txen THEN tx ELSE udre \/ Raises(tx, ie)
    /\ UNCHANGED <<part, txPump, txCnt, txc>>

\* avr_reset with avr_uart_reset: TXEN is set, and no one is told.
Reset ==
    /\ rxen' = FALSE /\ txen' = TRUE /\ udrie' = FALSE
    /\ rxc' = FALSE /\ txc' = FALSE /\ udre' = TRUE /\ dor' = FALSE
    /\ input' = 0 /\ rxPump' = FALSE /\ txPump' = FALSE /\ txCnt' = 0
    /\ UNCHANGED <<part, rxCnt, flow, rejectedAt>>

-----------------------------------------------------------------------------
Next ==
    \/ Receive \/ RxPumps \/ ReadStatus \/ \E fast \in BOOLEAN : ReadData(fast)
    \/ WriteData \/ TxPumps \/ ServeTxc
    \/ \E clears \in BOOLEAN : WriteStatus(clears)
    \/ \E rx, tx, ie \in BOOLEAN : WriteControl(rx, tx, ie)
    \/ Reset

Spec == Init /\ [][Next]_vars

-----------------------------------------------------------------------------
(* Properties *)

TypeOK ==
    /\ rxen \in BOOLEAN /\ txen \in BOOLEAN /\ udrie \in BOOLEAN
    /\ rxc \in BOOLEAN /\ txc \in BOOLEAN /\ udre \in BOOLEAN /\ dor \in BOOLEAN
    /\ input \in 0 .. Room /\ rxPump \in BOOLEAN /\ txPump \in BOOLEAN
    /\ rxCnt \in 0 .. 2 /\ txCnt \in 0 .. TxCounts - 1
    /\ xoff \in {Unset, 0, 1} /\ xon \in BOOLEAN /\ rejectedAt \in Nowhere .. Room

\* A byte is rejected only when the fifo is full, one of a sender that heeds
\* the flow control never; and a sender that was stopped is let go when the
\* fifo has been read.
SenderLosesNothing ==
    /\ rejectedAt \in {Nowhere, Room}
    /\ part.polite => rejectedAt = Nowhere
    /\ rxen /\ ~xon => input > 0

\* A pump runs while there are bytes to hand over, RXC stands for a byte that
\* can be read, and an idle transmitter says that it is empty.
WorkIsTimed ==
    /\ input > 0 => rxPump
    /\ rxc => rxen /\ input > 0
    /\ txCnt > 0 => txPump
    /\ txen /\ ~txPump => udre

=============================================================================
