----------------------------- MODULE EspContext -----------------------------
(***************************************************************************)
(* The sequence numbers of one ESP SA (libipsec/esp_context.c): the        *)
(* outbound context of the sender assigns them, the inbound context of the *)
(* receiver keeps the anti-replay window, a ring of bits.  Authenticated   *)
(* packets are those the sender made; between the two contexts packets are *)
(* lost, repeated and reordered at will, and packets that fail the         *)
(* integrity check arrive with any sequence number.                        *)
(***************************************************************************)
EXTENDS Integers

CONSTANTS
    WindowSize,   \* ESP_DEFAULT_WINDOW_SIZE, 128
    MaxSeqno      \* UINT32_MAX

Word == MaxSeqno + 1

\* u_int arithmetic wraps at Word, of which the window size is a divisor.
ASSUME WidthAssumption ==
    /\ WindowSize \in Nat \ {0}
    /\ MaxSeqno \in Nat
    /\ \E k \in 1 .. Word : Word = k * WindowSize

VARIABLES
    sent,          \* last_seqno of the outbound context
    last_seqno,    \* of the inbound context: highest authenticated seqno
    seqno_index,   \* the bit of last_seqno
    window,        \* the anti-replay window
    passed         \* history: the sequence numbers delivered so far

vars == <<sent, last_seqno, seqno_index, window, passed>>

Bits == 0 .. WindowSize - 1
Seqnos == 0 .. MaxSeqno

-----------------------------------------------------------------------------

\* esp_context_create: the buffer of an inbound context is zeroed.
Init ==
    /\ sent = 0
    /\ last_seqno = 0
    /\ seqno_index = 0
    /\ window = [b \in Bits |-> FALSE]
    /\ passed = {}

\* The bit of the sequence number offset below last_seqno.
BitOf(offset) == ((seqno_index - offset) % Word) % WindowSize

\* check_window
check_window(s) == ~window[BitOf(last_seqno - s)]

\* verify_seqno
verify_seqno(s) ==
    \/ s > last_seqno
    \/ /\ s <= last_seqno
       /\ s > 0
       /\ WindowSize > last_seqno - s
       /\ check_window(s)

Min2(a, b) == IF a < b THEN a ELSE b

\* A slip: each bit is cleared before the index moves on.
ShiftWindow_ClearFirst(s) ==
    LET shift == Min2(s - last_seqno, WindowSize)
        index == (seqno_index + shift) % WindowSize
        clear == {(seqno_index + k) % WindowSize : k \in 0 .. shift - 1}
    IN  /\ seqno_index' = index
        /\ window' = [b \in Bits |-> b = index \/ (b \notin clear /\ window[b])]
        /\ last_seqno' = s

\* A slip: the index is moved by the uncapped distance at once.
ShiftWindow_NoWrap(s) ==
    /\ seqno_index' = seqno_index + (s - last_seqno)
    /\ window' = [b \in Bits |-> b = (seqno_index + s - last_seqno) % WindowSize]
    /\ last_seqno' = s

\* set_authenticated_seqno, seqno above the window: the loop clears the bits
\* it passes on its way to the new index.
ShiftWindow(s) ==
    LET shift == Min2(s - last_seqno, WindowSize)
        index == (seqno_index + shift) % WindowSize
        clear == {(seqno_index + k) % WindowSize : k \in 1 .. shift}
    IN  /\ seqno_index' = index
        /\ window' = [b \in Bits |-> b = index \/ (b \notin clear /\ window[b])]
        /\ last_seqno' = s

\* set_authenticated_seqno, seqno inside the window.
MarkBit(s) ==
    /\ window' = [window EXCEPT ![BitOf(last_seqno - s)] = TRUE]
    /\ UNCHANGED <<last_seqno, seqno_index>>

set_authenticated_seqno(s) ==
    \/ s > last_seqno /\ ShiftWindow(s)
    \/ s <= last_seqno /\ MarkBit(s)

-----------------------------------------------------------------------------

\* encrypt, through next_seqno: a number is consumed even when encryption
\* fails afterwards; at UINT32_MAX it is refused.
Encrypt ==
    /\ sent # MaxSeqno
    /\ sent' = sent + 1
    /\ UNCHANGED <<last_seqno, seqno_index, window, passed>>

\* decrypt of a packet of the sender: the first delivery, a duplicate or a
\* late one.
Decrypt(s) ==
    /\ s \in 1 .. sent
    /\ verify_seqno(s)
    /\ set_authenticated_seqno(s)
    /\ passed' = passed \cup {s}
    /\ UNCHANGED sent

\* A slip: the window is updated before the packet is authenticated.
IcvMismatch_Marked(s) == set_authenticated_seqno(s)

\* What decrypt does with a packet whose seqno passes verify_seqno and whose
\* ICV does not match: it returns before set_authenticated_seqno.
IcvMismatch(s) == UNCHANGED <<last_seqno, seqno_index, window>>

\* decrypt of a packet the sender did not make.
DecryptFails(s) ==
    /\ s \in Seqnos
    /\ verify_seqno(s)
    /\ IcvMismatch(s)
    /\ UNCHANGED <<sent, passed>>

Next ==
    \/ Encrypt
    \/ \E s \in Seqnos : Decrypt(s) \/ DecryptFails(s)

Spec == Init /\ [][Next]_vars

-----------------------------------------------------------------------------
(* Properties *)

\* Type invariant; that seqno_index is a bit of the window is what keeps
\* set_window_bit inside its buffer.
TypeOK ==
    /\ sent \in Seqnos
    /\ last_seqno \in Seqnos
    /\ seqno_index \in Bits
    /\ window \in [Bits -> BOOLEAN]
    /\ passed \subseteq Seqnos

\* No replay: verify_seqno refuses every packet that was delivered before,
\* however far the window has moved and however often its index has wrapped
\* (esp_packet.c drops the packet then).
NoReplay == \A s \in passed : ~verify_seqno(s)

\* No false alarm: a packet of the sender that is not older than the window
\* and was not delivered yet is accepted, whatever was received in between,
\* packets that fail the integrity check included.
NoFalseAlarm ==
    \A s \in 1 .. sent :
        s \notin passed /\ s + WindowSize > last_seqno => verify_seqno(s)

=============================================================================
