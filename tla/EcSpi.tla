------------------------------- MODULE EcSpi --------------------------------
(***************************************************************************)
(* A transfer of the ECSPI driver (spi/mx51ecspi) in burst mode, which is  *)
(* the default: mx51_xfer loads the FIFO and waits, the interrupt handler  *)
(* spi_intr refills it and empties the receive FIFO, and the wait ends     *)
(* with the handler's pulse or with a timeout.                             *)
(*                                                                         *)
(* The controller moves a burst of 1..BurstMax bytes, right-aligned in     *)
(* words of four: a burst whose length is no multiple of four begins with  *)
(* a partial word.  One buffer is sent from and received into.  The bytes  *)
(* of a character of two or four are numbered from its most significant    *)
(* one on, which is the order of the wire, not that of the memory.         *)
(***************************************************************************)
EXTENDS Integers, Sequences, FiniteSetsExt

CONSTANTS
    FifoWords,   \* words written to the FIFO at a time (8 in the code)
    Lens,        \* transfer lengths
    Dlens,       \* bytes per character
    Xfers        \* bound: number of transfers

BurstMax == 4 * FifoWords    \* MX51_CSPI_BURST_MAX

ASSUME EcSpiAssumption ==
    /\ FifoWords \in Nat \ {0} /\ Xfers \in Nat
    /\ Lens \subseteq Nat /\ Dlens \subseteq 1..4
    /\ Lens # {} => \E m \in Lens : \A l \in Lens : l <= m

VARIABLES
    xlen, rlen, tlen, dlen,   \* the fields of mx51_cspi_t
    buf,      \* dev->pbuf; byte k to send is k + 1, the answer to it -(k + 1)
    tx, rx,   \* external: the FIFOs; a word is four bytes
    bcnt,     \* burst length in CONTROLREG, in bytes
    xch,      \* CONTROLREG_XCH: an exchange is under way
    tc,       \* STATREG_TC
    inten,    \* INTREG_TCEN
    pulses,   \* pulses in the channel
    wire,     \* history: the bytes sent in this transfer
    pc, begun, \* place in mx51_xfer; transfers begun
    len,      \* *len: the result of the last transfer
    expired,  \* history: some wait has timed out
    backward  \* history: memcpy has moved overlapping areas downwards

history == <<expired, backward>>
regs == <<bcnt, xch, tc, inten>>
ecVars == <<xlen, rlen, tlen, dlen, buf, tx, rx, regs, pulses, wire, pc, begun, len,
            history>>

Byte == Int
WordSet == [1..4 -> Byte]
MaxLen == IF Lens = {} THEN 0 ELSE Max(Lens)
Index == 0..(MaxLen + 3)   \* the last word may reach three bytes further

EcTypeOK ==
    /\ xlen \in Lens \cup {0} /\ rlen \in Int /\ tlen \in 0..(MaxLen + 3)
    /\ dlen \in Dlens \cup {0} /\ buf \in [Index -> Byte]
    /\ tx \in Seq(WordSet) /\ rx \in Seq(WordSet) /\ bcnt \in 0..BurstMax
    /\ xch \in BOOLEAN /\ tc \in BOOLEAN /\ inten \in BOOLEAN
    /\ pulses \in 0..Xfers /\ begun \in 0..Xfers
    /\ pc \in {"idle", "load", "wait", "timedout", "fix"}
    /\ len \in Int /\ wire \in Seq(Byte) /\ expired \in BOOLEAN /\ backward \in BOOLEAN

EcInit ==
    /\ xlen = 0 /\ rlen = 0 /\ tlen = 0 /\ dlen = 0
    /\ buf = [i \in Index |-> 0]
    /\ tx = <<>> /\ rx = <<>> /\ bcnt = 0
    /\ xch = FALSE /\ tc = FALSE /\ inten = FALSE
    /\ pulses = 0 /\ wire = <<>>
    /\ pc = "idle" /\ begun = 0 /\ len = 0 /\ expired = FALSE
    /\ backward = FALSE

(* Byte k of a sequence of words.                                          *)
ByteOf(words, k) == words[((k - 1) \div 4) + 1][((k - 1) % 4) + 1]

(***************************************************************************)
(* Filling the transmit FIFO: the same code in mx51_xfer and in spi_intr   *)
(***************************************************************************)

(* Words for m bytes.                                                      *)
Words(m) == (m + 3) \div 4

(* Bytes of the first word that a transfer of m bytes does not use.        *)
Pad(m) == (4 - (m % 4)) % 4

Get(b, i) == IF i \in Index THEN b[i] ELSE 0

(* m bytes of the buffer from position t, right-aligned in a word.         *)
Word(b, t, m) == [k \in 1..4 |-> IF k <= 4 - m THEN 0 ELSE Get(b, t + k - 1 - (4 - m))]

(* Mutant: a long transfer has a partial word in its first burst, too.     *)
PartialMutant(count, d) == IF d = 1 THEN count % 4 ELSE 0

(* The partial word that opens the last burst, if the character length     *)
(* allows one.                                                             *)
Partial(count, d) ==
    LET m == count % 4
    IN  IF count < BurstMax /\ (d = 1 \/ (d = 2 /\ m = 2)) THEN m ELSE 0

NextBurst(count) == IF count >= BurstMax THEN BurstMax ELSE count

(* What goes into the FIFO when the bytes from t on are still to be sent.  *)
(* A character length of three is not supported: words of zeros.           *)
Fill(b, x, t, d) ==
    LET count == x - t
        p == Partial(count, d)
        full == Min({FifoWords, Words(count - p)})
        w(k) == IF d = 3 THEN <<0, 0, 0, 0>> ELSE Word(b, t + p + 4 * (k - 1), 4)
    IN  [words |-> (IF p > 0 THEN <<Word(b, t, p)>> ELSE <<>>) \o [k \in 1..full |-> w(k)],
         tlen |-> t + p + 4 * full,
         bcnt |-> NextBurst(count)]

(***************************************************************************)
(* mx51_xfer and mx51_wait                                                 *)
(***************************************************************************)

(* A new request; the fields are set before interrupts are disabled.       *)
Begin(l, d) ==
    /\ pc = "idle" /\ begun < Xfers
    /\ xlen' = l /\ rlen' = 0 /\ tlen' = 0 /\ dlen' = d
    /\ buf' = [i \in Index |-> IF i < l THEN i + 1 ELSE 0]
    /\ wire' = <<>> /\ begun' = begun + 1 /\ backward' = FALSE
    /\ pc' = "load"
    /\ UNCHANGED <<tx, rx, regs, pulses, len, expired>>

(* Disable interrupts, clean up the receive FIFO, fill the other, enable   *)
(* the interrupt of a completed transfer and start the exchange.           *)
Load ==
    /\ pc = "load"
    /\ LET f == Fill(buf, xlen, 0, dlen)
       IN  tx' = tx \o f.words /\ tlen' = f.tlen /\ bcnt' = f.bcnt
    /\ rx' = <<>>
    /\ inten' = TRUE /\ xch' = TRUE
    /\ pc' = "wait"
    /\ UNCHANGED <<xlen, rlen, dlen, buf, tc, pulses, wire, begun, len, history>>

WaitPulse ==
    /\ pc = "wait" /\ pulses > 0
    /\ pulses' = pulses - 1
    /\ pc' = "fix"
    /\ UNCHANGED <<xlen, rlen, tlen, dlen, buf, tx, rx, regs, wire, begun, len, history>>

(* The time-out is set only for a length other than 0.                     *)
TimeoutSet == xlen # 0

WaitTimeout ==
    /\ pc = "wait" /\ pulses = 0 /\ TimeoutSet
    /\ pc' = "timedout" /\ expired' = TRUE
    /\ UNCHANGED <<xlen, rlen, tlen, dlen, buf, tx, rx, regs, pulses, wire, begun, len,
                   backward>>

TimedOut ==
    /\ pc = "timedout"
    /\ rlen' = -1
    /\ pc' = "fix"
    /\ UNCHANGED <<xlen, tlen, dlen, buf, tx, rx, regs, pulses, wire, begun, len, history>>

(* As many of m bytes as fill whole bursts.                                *)
InBursts(m) == (m \div BurstMax) * BurstMax

(* The partial word was received with leading bytes of no meaning: memcpy  *)
(* moves what follows them to the front of the last burst.                 *)
Fix(b) ==
    [i \in Index |-> IF InBursts(xlen) <= i /\ i < xlen THEN Get(b, i + Pad(xlen)) ELSE b[i]]

(* The two areas may overlap, which memcpy does not allow for.  One that   *)
(* goes upwards does as above; one that goes downwards overwrites bytes    *)
(* before it comes to them.                                                *)
Overlaps == Pad(xlen) > 0 /\ xlen - InBursts(xlen) > Pad(xlen)

FixBackward(b) ==
    LET last(i) == i + Pad(xlen) * ((xlen - i + Pad(xlen) - 1) \div Pad(xlen))
    IN  [i \in Index |-> IF InBursts(xlen) <= i /\ i < xlen THEN Get(b, last(i)) ELSE b[i]]

Finish ==
    /\ pc = "fix"
    /\ \/ buf' = Fix(buf) /\ backward' = FALSE
       \/ Overlaps /\ buf' = FixBackward(buf) /\ backward' = TRUE
    /\ rlen' = rlen - Pad(xlen)
    /\ len' = rlen'
    /\ pc' = "idle"
    /\ UNCHANGED <<xlen, tlen, dlen, tx, rx, regs, pulses, wire, begun, expired>>

(***************************************************************************)
(* spi_intr                                                                *)
(***************************************************************************)

(* The received words are stored from rlen on; a word of four bytes per    *)
(* received word, none for characters of three.                            *)
Stored(b, words) ==
    [i \in Index |->
        IF rlen <= i /\ i < rlen + 4 * Len(words)
        THEN ByteOf(words, i - rlen + 1) ELSE b[i]]

(* Mutant: the interrupt stays enabled.                                    *)
CompleteMutant == pulses' = pulses + 1 /\ UNCHANGED <<inten, xch>>

Complete == inten' = FALSE /\ pulses' = pulses + 1 /\ UNCHANGED xch

Intr ==
    /\ tc /\ inten
    /\ tc' = FALSE
    /\ IF xlen > tlen
         THEN LET f == Fill(buf, xlen, tlen, dlen)
              IN  tx' = tx \o f.words /\ tlen' = f.tlen /\ bcnt' = f.bcnt
         ELSE UNCHANGED <<tx, tlen, bcnt>>
    /\ rx' = <<>>
    /\ IF dlen = 3 THEN UNCHANGED <<buf, rlen>>
                   ELSE buf' = Stored(buf, rx) /\ rlen' = rlen + 4 * Len(rx)
    /\ IF rlen' >= xlen
         THEN Complete
         ELSE xch' = TRUE /\ UNCHANGED <<inten, pulses>>
    /\ UNCHANGED <<xlen, dlen, wire, pc, begun, len, history>>

(***************************************************************************)
(* External: the controller sends the words of a burst and receives as     *)
(* many.  Without enough words in the FIFO it waits for them.              *)
(***************************************************************************)

Exchange ==
    LET words == Words(bcnt)
        skip == Pad(bcnt)
        out == [k \in 1..bcnt |-> ByteOf(tx, skip + k)]
        in(k) == IF k <= skip THEN 0 ELSE -(Len(wire) + k - skip)
    IN  /\ xch /\ bcnt > 0 /\ Len(tx) >= words
        /\ tx' = SubSeq(tx, words + 1, Len(tx))
        /\ rx' = rx \o [w \in 1..words |-> [k \in 1..4 |-> in(4 * (w - 1) + k)]]
        /\ wire' = wire \o out
        /\ xch' = FALSE /\ tc' = TRUE
        /\ UNCHANGED <<xlen, rlen, tlen, dlen, buf, bcnt, inten, pulses, pc, begun, len, history>>

Xfer == Load \/ WaitPulse \/ WaitTimeout \/ TimedOut \/ Finish

EcNext == Xfer \/ Intr \/ Exchange \/ \E l \in Lens, d \in Dlens : Begin(l, d)

EcSpec == EcInit /\ [][EcNext]_ecVars /\ WF_ecVars(Xfer) /\ WF_ecVars(Intr) /\ WF_ecVars(Exchange)

(***************************************************************************)
(* Properties                                                              *)
(***************************************************************************)

Supported == dlen # 3 /\ xlen % dlen = 0

(* As long as no wait has timed out, a finished transfer has put exactly   *)
(* the client's bytes on the wire, in order, none of them overwritten by   *)
(* an answer before it was sent (intr.c: "We use the same buffer for       *)
(* transmit and receive") and reports the full length; and it has every    *)
(* answer at the place of its byte, unless memcpy has moved the answers    *)
(* of the last burst downwards, one over the other.                        *)
BytesExact ==
    pc = "idle" /\ begun > 0 /\ ~expired /\ Supported =>
        /\ wire = [k \in 1..xlen |-> k]
        /\ len = xlen
        /\ ~backward => \A i \in 0..(xlen - 1) : buf[i] = -(i + 1)

(* As long as no wait has timed out, the handler stores no further than    *)
(* the end of the last word, and the controller is quiet, with nothing     *)
(* left in its FIFOs and no pulse on its way, when a transfer is over.     *)
QuietWhenDone ==
    ~expired => /\ rlen <= 4 * ((xlen + 3) \div 4)
                /\ pc = "idle" => /\ tx = <<>> /\ rx = <<>> /\ pulses = 0
                                  /\ ~xch /\ ~tc /\ ~inten

(* mxecspi.c:712, "ignore first 3 bytes in RXFIFO": the answers are moved  *)
(* to where they belong, whatever the direction in which memcpy works.     *)
AnswersInPlace ==
    pc = "idle" /\ begun > 0 /\ ~expired /\ Supported =>
        \A i \in 0..(xlen - 1) : buf[i] = -(i + 1)

(* A transfer of at least one byte ends, with its bytes or with a timeout, *)
(* even when the controller waits for words that never come.               *)
TransferEnds == (pc = "load" /\ xlen > 0) ~> (pc = "idle")

(* mx51_xfer waits for its exchange to finish: it reports bytes only if    *)
(* all of them were exchanged, and an error if it gave up.                 *)
WaitsForExchange ==
    pc = "idle" /\ begun > 0 /\ len > 0 => len = xlen

(***************************************************************************)
(* The inductive invariant                                                 *)
(***************************************************************************)

(* The four states of the controller and of its handler, without timeouts. *)
Still == tx = <<>> /\ rx = <<>> /\ ~xch /\ ~tc /\ ~inten
Sending == /\ xch /\ ~tc /\ inten /\ pulses = 0 /\ rx = <<>>
           /\ Len(tx) = Words(bcnt) \/ (dlen = 3 /\ tx = <<>>)
Sent == /\ ~xch /\ tc /\ inten /\ pulses = 0 /\ tx = <<>>
        /\ Len(rx) = Words(bcnt) /\ bcnt > 0
Over == pc = "fix" \/ (pc = "wait" /\ pulses = 1)

(* The burst under way begins at rlen; all before it is received.          *)
BurstInv ==
    /\ bcnt > 0 => xlen > 0
    /\ dlen = 3 => rlen = 0
    /\ dlen # 3 => /\ rlen >= 0 /\ rlen % 4 = 0 /\ rlen <= xlen /\ (xlen > 0 => rlen < xlen)
                   /\ bcnt = NextBurst(xlen - rlen)
                   /\ tlen < xlen => tlen = rlen + BurstMax
                   /\ tlen >= xlen => bcnt = xlen - rlen

QuietInv ==
    /\ pc \in {"idle", "load"} => Still /\ pulses = 0
    /\ pc = "idle" => rlen <= xlen
    /\ pc = "load" => rlen = 0
    /\ pc = "wait" => (Sending /\ BurstInv) \/ (Sent /\ BurstInv) \/ (Still /\ pulses = 1)
    /\ pc = "fix" => Still /\ pulses = 0
    /\ Over => dlen # 3 /\ rlen = 4 * Words(xlen)
    /\ pc # "timedout"

Unsent(i) == rlen <= i /\ i < xlen => buf[i] = i + 1
Answered(i) == i < rlen => buf[i] = -(i + 1)

BytesInv ==
    /\ \A k \in 1..Len(wire) : wire[k] = k
    /\ pc = "load" => wire = <<>> /\ \A i \in Index : Unsent(i)
    /\ pc = "wait" /\ ~Over =>
        /\ Len(wire) = IF tc THEN rlen + bcnt ELSE rlen
        /\ \A i \in Index : Unsent(i) /\ Answered(i)
        /\ InBursts(xlen) = rlen + InBursts(xlen - rlen)
        /\ xch => \A k \in 1..bcnt : ByteOf(tx, Pad(bcnt) + k) = rlen + k
        /\ tc => \A k \in 1..bcnt : ByteOf(rx, Pad(bcnt) + k) = -(rlen + k)
    /\ Over =>
        /\ Len(wire) = xlen
        /\ \A i \in Index : i < InBursts(xlen) => buf[i] = -(i + 1)
        /\ \A i \in Index : InBursts(xlen) <= i /\ i < xlen => buf[i + Pad(xlen)] = -(i + 1)
    /\ BytesExact

(* A pulse for each time that the interrupt was enabled.                   *)
PulsesInv ==
    /\ pulses + (IF inten THEN 1 ELSE 0) + (IF pc = "load" THEN 1 ELSE 0) <= begun
    /\ pc # "idle" => begun > 0
    /\ begun > 0 => dlen \in Dlens /\ xlen \in Lens

EcInv == EcTypeOK /\ PulsesInv /\ (~expired => QuietInv /\ (begun > 0 /\ Supported => BytesInv))
=============================================================================
