----------------------------- MODULE SpiModern -----------------------------
(***************************************************************************)
(* The modern SPI (avr_spi_modern.c) as host and as client, with one       *)
(* transfer at a time and with the buffers of two bytes.                   *)
(*                                                                         *)
(* The record s is avr_spi_modern_t with its registers.  Bit 7 of the      *)
(* flags is RXCIF or IF, bit 6 is TXCIF or WRCOL, as the mode has it;      *)
(* SSIF is never set.  served, owed, turned and again are history: the     *)
(* request was served since it was made, the bytes taken to be sent, CTRLA *)
(* was changed with bytes on their way, so that what one role began is     *)
(* left to the other, and RXCIF was set again by a read, which makes no    *)
(* request, after firmware had cleared it with bytes in the fifo.          *)
(***************************************************************************)
EXTENDS Sequences, Naturals

CONSTANTS
    Bytes,      \* values of a byte
    Enables     \* values of INTCTRL

VARIABLE s

Idle == 0       \* DATA with nothing received
NoByte == 99      \* nothing valid

WellFormed == NoByte \notin Bytes /\ {} \in Enables

RxFifoSize == 2

Off ==
    [enable |-> FALSE, host |-> FALSE, buffered |-> FALSE, ie |-> {}, flags |-> {},
     data |-> Idle, busy |-> FALSE, timer |-> FALSE, shift |-> NoByte, buf |-> NoByte,
     rx |-> <<>>, pending |-> FALSE,
     served |-> FALSE, owed |-> <<>>, turned |-> FALSE, again |-> FALSE]

Init == s = Off

-----------------------------------------------------------------------------
(* Helpers *)

\* What spi_update_interrupt calls active.
Active(t) ==
    IF t.buffered THEN t.flags \cap t.ie \cap {"bit7", "bit6", "DRE"} # {}
    ELSE "bit7" \in t.flags /\ "IE" \in t.ie

UpdateInterrupt(t) ==
    [t EXCEPT !.pending = Active(t), !.served = IF Active(t) /\ ~t.pending THEN FALSE ELSE @,
              !.again = FALSE]

\* spi_update_buffered_flags
UpdateFlags(t, complete) ==
    UpdateInterrupt(
        [t EXCEPT !.flags = (@ \ {"DRE", "bit6"})
             \cup (IF t.buf = NoByte THEN {"DRE"} ELSE {})
             \cup (IF complete /\ ~t.busy /\ t.buf = NoByte /\ t.shift = NoByte
                   THEN {"bit6"} ELSE {})])

\* spi_push_rx: the first byte is in DATA, what comes to a full fifo is lost.
PushRx(t, v) ==
    IF Len(t.rx) = RxFifoSize THEN [t EXCEPT !.flags = @ \cup {"OVF"}]
    ELSE [t EXCEPT !.rx = Append(@, v), !.data = IF t.rx = <<>> THEN v ELSE @,
                   !.flags = @ \cup {"bit7"}]

\* spi_pop_rx_to_data
PopRx(t) ==
    LET rest == Tail(t.rx)
    IN  [t EXCEPT !.rx = rest, !.data = IF rest = <<>> THEN Idle ELSE Head(rest),
                  !.flags = (@ \ {"bit7", "OVF"}) \cup (IF rest = <<>> THEN {} ELSE {"bit7"}),
                  !.again = @ \/ (rest # <<>> /\ "bit7" \notin t.flags)]

\* spi_start_host_transfer
StartTransfer(t, v) ==
    [t EXCEPT !.busy = TRUE, !.shift = v, !.timer = TRUE]

Sent(t) == [t EXCEPT !.owed = IF @ = <<>> THEN @ ELSE Tail(@)]

\* Mutant: the byte that is taken from the buffer stays in it.
TakenTwice(t) == t

\* The buffer is emptied before its byte is sent.
Taken(t) == [t EXCEPT !.buf = NoByte]

\* Mutant: a transfer of the mode before ends in the mode after.
TornButTimed(t) ==
    [t EXCEPT !.busy = FALSE, !.shift = NoByte, !.buf = NoByte, !.rx = <<>>, !.flags = {},
              !.owed = <<>>, !.turned = FALSE]

Torn(t) ==
    [t EXCEPT !.timer = FALSE, !.busy = FALSE, !.shift = NoByte, !.buf = NoByte, !.rx = <<>>,
              !.flags = {}, !.owed = <<>>, !.turned = FALSE]

-----------------------------------------------------------------------------
(* Instructions *)

\* CTRLA has no handler: what is on its way stays where it is.
WriteCtrla(enable, host) ==
    s' = [s EXCEPT !.enable = enable, !.host = host,
              !.turned = @ \/ (<<enable, host>> # <<s.enable, s.host>>
                               /\ (s.busy \/ s.shift # NoByte \/ s.rx # <<>> \/ s.owed # <<>>))]

WriteCtrlb(buffered) ==
    s' = IF buffered = s.buffered THEN s
         ELSE LET t == Torn([s EXCEPT !.buffered = buffered])
              IN  IF buffered THEN UpdateFlags(t, FALSE) ELSE UpdateInterrupt(t)

WriteIntctrl(ie) == s' = UpdateInterrupt([s EXCEPT !.ie = ie])

\* Any flag is cleared by a one, those that follow the buffers too.
Clearable == IF s.buffered THEN {"bit7", "bit6", "DRE", "OVF"} ELSE {"bit6", "bit7"}
WriteIntflags(f) == s' = UpdateInterrupt([s EXCEPT !.flags = @ \ {f}])

WriteBuffered(v) ==
    LET t == [s EXCEPT !.flags = @ \ {"bit6"}]
    IN  CASE ~t.busy /\ t.shift = NoByte ->
                 LET u == [UpdateFlags(t, FALSE) EXCEPT !.owed = Append(@, v)]
                 IN  IF u.host THEN StartTransfer(u, v) ELSE [u EXCEPT !.shift = v]
          [] (t.busy \/ t.shift # NoByte) /\ t.buf = NoByte ->
                 UpdateFlags([t EXCEPT !.buf = v, !.owed = Append(@, v)], FALSE)
          [] (t.busy \/ t.shift # NoByte) /\ t.buf # NoByte -> t

\* A write while a transfer is in flight is a collision.
WriteNormal(v) ==
    IF s.busy THEN UpdateInterrupt([s EXCEPT !.flags = @ \cup {"bit6"}])
    ELSE LET t == [s EXCEPT !.data = v, !.owed = <<v>>]
         IN  IF s.host THEN StartTransfer(t, v) ELSE t

\* avr_spi_modern_data_write
WriteData(v) ==
    s' = CASE ~s.enable -> [s EXCEPT !.data = v, !.turned = @ \/ s.rx # <<>>]
           [] s.enable /\ s.buffered -> WriteBuffered(v)
           [] s.enable /\ ~s.buffered -> WriteNormal(v)

\* avr_spi_modern_data_read
ReadData ==
    s' = CASE s.buffered /\ s.rx # <<>> -> PopRx(s)
           [] s.buffered /\ s.rx = <<>> ->
                  UpdateInterrupt([s EXCEPT !.flags = @ \ {"bit7", "OVF"}])
           [] ~s.buffered -> [s EXCEPT !.flags = @ \ {"bit7"}]

\* The vector is entered: its flags stay.
Serve == s.pending /\ s' = [s EXCEPT !.pending = FALSE, !.served = TRUE]

Reset == s' = Off

-----------------------------------------------------------------------------
(* The bus *)

\* avr_spi_modern_irq_input: a byte for a client, which is answered.
Input(v) ==
    /\ s.enable /\ ~s.host
    /\ s' = CASE s.buffered ->
                     LET t == [Sent(PushRx(s, v)) EXCEPT !.shift = s.buf]
                     IN  UpdateFlags(Taken(t), s.buf = NoByte)
              [] ~s.buffered ->
                     UpdateInterrupt([Sent(s) EXCEPT !.data = v, !.flags = @ \cup {"bit7"}])

\* avr_spi_modern_xfer.  A device that replies has done so since the transfer
\* was started, at the latest when the byte is put on the bus.
Xfer ==
    /\ s.timer
    /\ \E reply \in Bytes :
         LET q == [s EXCEPT !.busy = FALSE, !.timer = FALSE]
             t == PushRx(Sent(q), reply)
         IN  s' = CASE ~(s.enable /\ s.host) -> q
                    [] s.enable /\ s.host /\ s.buffered ->
                           IF s.buf # NoByte
                           THEN StartTransfer(UpdateFlags(Taken(t), FALSE), s.buf)
                           ELSE UpdateFlags([t EXCEPT !.shift = NoByte], TRUE)
                    [] s.enable /\ s.host /\ ~s.buffered ->
                           UpdateInterrupt([Sent(q) EXCEPT !.data = reply, !.flags = @ \cup {"bit7"}])

Next ==
    \/ \E enable, host \in BOOLEAN : WriteCtrla(enable, host)
    \/ \E buffered \in BOOLEAN : WriteCtrlb(buffered)
    \/ \E ie \in Enables : WriteIntctrl(ie)
    \/ \E f \in Clearable : WriteIntflags(f)
    \/ \E v \in Bytes : WriteData(v) \/ Input(v)
    \/ ReadData \/ Serve \/ Reset \/ Xfer

Spec == Init /\ [][Next]_s

-----------------------------------------------------------------------------
(* Properties *)

MaybeByte == Bytes \cup {Idle, NoByte}

TypeOK ==
    /\ {s.enable, s.host, s.buffered, s.busy, s.timer, s.pending, s.served, s.turned, s.again}
           \subseteq BOOLEAN
    /\ s.ie \in Enables /\ s.flags \subseteq {"bit7", "bit6", "DRE", "OVF"}
    /\ {s.data, s.shift, s.buf} \subseteq MaybeByte
    /\ s.rx \in Seq(Bytes) /\ Len(s.rx) <= RxFifoSize
    /\ s.owed \in Seq(Bytes) /\ Len(s.owed) <= 2

\* A transfer is busy exactly while its timer waits, a host that has a byte to
\* shift is busy, and a flag that is enabled has its interrupt requested or
\* served, unless a read has set it again (spi_start_host_transfer,
\* avr_spi_modern_ctrlb_write, spi_update_interrupt).
WorkIsTimed ==
    /\ s.busy <=> s.timer
    /\ s.buffered /\ s.enable /\ s.host /\ ~s.turned /\ s.owed # <<>> => s.busy
    /\ Active(s) => s.pending \/ s.served \/ s.again

Queued == (IF s.shift = NoByte THEN <<>> ELSE <<s.shift>>)
              \o (IF s.buf = NoByte THEN <<>> ELSE <<s.buf>>)

\* The bytes taken from the firmware are those that will be sent, each once and
\* in order; DREIF and TXCIF do not tell of room, or of an end, that is not
\* there; and DATA shows the oldest byte received (avr_spi_modern_data_write,
\* avr_spi_modern_xfer, avr_spi_modern_irq_input).
BytesInOrder ==
    s.buffered /\ ~s.turned =>
        /\ s.owed = Queued
        /\ "DRE" \in s.flags => s.buf = NoByte
        /\ "bit6" \in s.flags => s.owed = <<>>
        /\ s.rx # <<>> => s.data = Head(s.rx)

=============================================================================
