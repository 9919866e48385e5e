-------------------------- MODULE EspContextProofs --------------------------
(***************************************************************************)
(* The anti-replay window is exact for every window size and every width   *)
(* of the sequence numbers the size divides.                               *)
(***************************************************************************)
EXTENDS EspContext, TLAPS

-----------------------------------------------------------------------------
(* Modular arithmetic *)

\* A number is its own remainder below the modulus.
LEMMA ModSmall ==
    ASSUME NEW n \in Nat \ {0}, NEW x \in 0 .. n - 1
    PROVE  x % n = x
  BY Z3

\* Adding a multiple of the modulus changes nothing.
LEMMA ModMultiple ==
    ASSUME NEW n \in Nat \ {0}, NEW x \in 0 .. n - 1, NEW k \in Nat
    PROVE  (x + k * n) % n = x
  BY Z3

\* One step around the ring, in either direction.
LEMMA ModWrap ==
    ASSUME NEW n \in Nat \ {0}, NEW x \in Int
    PROVE  /\ x \in n .. 2 * n - 1 => x % n = x - n
           /\ x \in 0 - n .. 0 - 1 => x % n = x + n
  BY Z3

\* The bits of the ring: going back by less than its size, through 32-bit
\* arithmetic that may wrap below zero, ends on the bit one expects.
LEMMA BitOfOffset ==
    ASSUME NEW i \in Bits, NEW d \in Bits
    PROVE  ((i - d) % Word) % WindowSize
             = IF i >= d THEN i - d ELSE i - d + WindowSize
  <1>1. PICK k \in 1 .. Word : Word = k * WindowSize
    BY WidthAssumption
  <1>2. Word \in Nat \ {0} /\ WindowSize \in Nat \ {0}
    BY WidthAssumption DEF Word
  <1>3. WindowSize <= Word
    BY <1>1, <1>2, Z3
  <1>4. CASE i >= d
    <2>1. i - d \in 0 .. WindowSize - 1 /\ i - d \in 0 .. Word - 1
      BY <1>2, <1>3, <1>4 DEF Bits
    <2> QED BY <1>2, <1>4, <2>1, ModSmall
  <1>5. CASE i < d
    <2>1. i - d \in 0 - Word .. 0 - 1 /\ i - d + WindowSize \in 0 .. WindowSize - 1
      BY <1>2, <1>3, <1>5 DEF Bits
    <2>2. (i - d) % Word = i - d + Word
      BY <1>2, <2>1, ModWrap
    <2>3. i - d + Word = (i - d + WindowSize) + (k - 1) * WindowSize
      BY <1>1, <1>2, Z3 DEF Bits
    <2>4. (i - d + Word) % WindowSize = i - d + WindowSize
      <3>1. k - 1 \in Nat /\ k \in Int
        BY <1>1, <1>2
      <3>2. ((i - d + WindowSize) + (k - 1) * WindowSize) % WindowSize
              = i - d + WindowSize
        BY ONLY <1>2, <2>1, <3>1, ModMultiple, Zenon
      <3> QED BY <2>3, <3>2, Zenon
    <2> QED BY <1>5, <2>2, <2>4 DEF Bits
  <1> QED BY <1>4, <1>5 DEF Bits

\* The same for going forward by at most its size.
LEMMA BitAhead ==
    ASSUME NEW i \in Bits, NEW k \in 0 .. WindowSize
    PROVE  (i + k) % WindowSize
             = IF i + k < WindowSize THEN i + k ELSE i + k - WindowSize
  BY WidthAssumption, ModSmall, ModWrap DEF Bits

-----------------------------------------------------------------------------
(* The inductive invariant *)

\* The bits of the window are the sequence numbers delivered.
WindowExact ==
    \A d \in Bits : d < last_seqno =>
        (window[BitOf(d)] <=> last_seqno - d \in passed)

\* The highest number delivered has been sent, and none above it was delivered.
Anchored ==
    /\ last_seqno <= sent
    /\ \A s \in passed : 0 < s /\ s <= last_seqno

EspInv == TypeOK /\ WindowExact /\ Anchored

\* A new context satisfies the invariant.
LEMMA EspInit == Init => EspInv
  BY WidthAssumption DEF Init, EspInv, TypeOK, WindowExact, Anchored, Bits, Seqnos, Word

\* What the invariant says of verify_seqno: the reference definition of an
\* anti-replay window.
LEMMA VerifyExact ==
    ASSUME EspInv, NEW s \in Seqnos
    PROVE  verify_seqno(s) <=>
             s > 0 /\ s \notin passed /\ s + WindowSize > last_seqno
  <1> USE DEF EspInv, TypeOK, Seqnos
  <1>1. CASE s > last_seqno
    BY <1>1, WidthAssumption DEF verify_seqno, Anchored
  <1>2. CASE s <= last_seqno /\ s > 0 /\ WindowSize > last_seqno - s
    <2>1. last_seqno - s \in Bits /\ last_seqno - s < last_seqno
      BY <1>2, WidthAssumption DEF Bits
    <2>2. last_seqno - (last_seqno - s) = s
      BY WidthAssumption
    <2>3. window[BitOf(last_seqno - s)] <=> s \in passed
      BY <2>1, <2>2, Zenon DEF WindowExact
    <2> QED BY <1>2, <2>3, WidthAssumption DEF verify_seqno, check_window
  <1>3. CASE s <= last_seqno /\ ~(s > 0 /\ WindowSize > last_seqno - s)
    BY <1>3, WidthAssumption DEF verify_seqno
  <1> QED BY <1>1, <1>2, <1>3, WidthAssumption

-----------------------------------------------------------------------------
(* The steps *)

\* Shifting the window to a new highest sequence number keeps it exact: the
\* bits of the numbers skipped are cleared, the others keep their meaning.
LEMMA ShiftExact ==
    ASSUME EspInv, NEW s \in Seqnos, s > last_seqno, s <= sent,
           ShiftWindow(s), passed' = passed \cup {s}, UNCHANGED sent
    PROVE  EspInv'
  <1> DEFINE W == WindowSize
             n == Min2(s - last_seqno, W)
             index == (seqno_index + n) % W
             clear == {(seqno_index + k) % W : k \in 1 .. n}
  <1>1. /\ W \in Nat \ {0}
        /\ seqno_index \in 0 .. W - 1
        /\ last_seqno \in Nat /\ s \in Nat
        /\ n \in 1 .. W
        /\ n < W => s = last_seqno + n
        /\ window \in [Bits -> BOOLEAN]
    BY WidthAssumption DEF EspInv, TypeOK, Min2, Seqnos, Bits
  <1>2. /\ seqno_index' = index
        /\ window' = [b \in Bits |-> b = index \/ (b \notin clear /\ window[b])]
        /\ last_seqno' = s
    BY DEF ShiftWindow
  <1>3. index = IF seqno_index + n < W THEN seqno_index + n ELSE seqno_index + n - W
    <2>1. seqno_index \in Bits /\ n \in 0 .. WindowSize
      BY <1>1 DEF Bits
    <2> QED BY <2>1, BitAhead, Zenon
  <1> HIDE DEF n, index
  <1>4. index \in Bits
    BY <1>1, <1>3 DEF Bits
  <1>5. TypeOK'
    <2>1. passed' \subseteq Seqnos /\ sent' \in Seqnos
      BY DEF EspInv, TypeOK
    <2>2. window' \in [Bits -> BOOLEAN]
      BY <1>2, Zenon
    <2> QED BY <1>2, <1>4, <2>1, <2>2, Zenon DEF TypeOK
  <1>6. Anchored'
    BY <1>1, <1>2 DEF EspInv, Anchored, TypeOK, Seqnos
  <1>7. ASSUME NEW d \in Bits, d < s
        PROVE  window'[((index - d) % Word) % WindowSize] <=> s - d \in passed \cup {s}
    <2> DEFINE j == IF index >= d THEN index - d ELSE index - d + W
    <2>1. ((index - d) % Word) % WindowSize = j
      BY <1>4, BitOfOffset, Zenon
    <2>2. j \in Bits
      BY <1>1, <1>4 DEF Bits
    <2>3. window'[j] <=> (j = index \/ (j \notin clear /\ window[j]))
      BY <1>2, <2>2, Zenon
    <2>4. CASE d = 0
      <3>1. j = index /\ s - d = s
        BY <1>1, <1>4, <2>4 DEF Bits
      <3> QED BY <2>1, <2>3, <3>1
    <2>5. CASE d > 0 /\ d < n
      <3>1. j # index
        BY <1>1, <1>4, <2>5 DEF Bits
      <3>2. n - d \in 1 .. n /\ n - d \in 0 .. W
        BY <1>1, <2>5 DEF Bits
      <3>3. (seqno_index + (n - d)) % W = j
        <4>1. (seqno_index + (n - d)) % W
                = IF seqno_index + (n - d) < W THEN seqno_index + (n - d)
                                               ELSE seqno_index + (n - d) - W
          <5>1. seqno_index \in Bits
            BY <1>1 DEF Bits
          <5> QED BY <3>2, <5>1, BitAhead, Zenon
        <4> HIDE DEF clear
        <4> QED BY <1>1, <1>3, <1>4, <2>5, <4>1 DEF Bits
      <3>4. j \in clear
        BY <3>2, <3>3
      <3>5. s - d \notin passed \cup {s}
        <4>1. s - d > last_seqno /\ s - d # s
          BY <1>1, <2>5 DEF Min2, n, Bits
        <4> QED BY <1>1, <4>1 DEF EspInv, Anchored, TypeOK, Seqnos, Bits
      <3> QED BY <2>1, <2>3, <3>1, <3>4, <3>5
    <2>6. CASE d > 0 /\ d >= n
      <3>1. n < W /\ s = last_seqno + n
        BY <1>1, <2>6 DEF Bits
      <3>2. d - n \in Bits /\ d - n < last_seqno /\ s - d = last_seqno - (d - n)
        BY <1>1, <1>7, <2>6, <3>1 DEF Bits
      <3>3. j # index /\ s - d # s
        BY <1>1, <1>4, <2>6 DEF Bits
      <3>4. j \notin clear
        <4>1. ASSUME NEW k \in 1 .. n PROVE (seqno_index + k) % W # j
          <5>1. k \in 0 .. W
            BY <1>1
          <5>2. (seqno_index + k) % W
                  = IF seqno_index + k < W THEN seqno_index + k ELSE seqno_index + k - W
            <6>1. seqno_index \in Bits
              BY <1>1 DEF Bits
            <6> QED BY <5>1, <6>1, BitAhead, Zenon
          <5> QED BY <1>1, <1>3, <2>6, <3>1, <5>2 DEF Bits
        <4> QED BY <4>1
      <3>5. j = IF seqno_index >= d - n THEN seqno_index - (d - n)
                                        ELSE seqno_index - (d - n) + W
        BY <1>1, <1>3, <2>6, <3>1 DEF Bits
      <3>6. BitOf(d - n) = j
        <4>1. seqno_index \in Bits
          BY <1>1 DEF Bits
        <4> QED BY <3>2, <3>5, <4>1, BitOfOffset, Zenon DEF BitOf
      <3>7. window[j] <=> last_seqno - (d - n) \in passed
        BY <3>2, <3>6, Zenon DEF EspInv, WindowExact
      <3> QED BY <2>1, <2>3, <3>2, <3>3, <3>4, <3>7
    <2> QED BY <1>1, <2>4, <2>5, <2>6 DEF Bits
  <1>8. WindowExact'
    BY <1>2, <1>7, Zenon DEF WindowExact, BitOf
  <1> QED BY <1>5, <1>6, <1>8 DEF EspInv

\* Marking a number inside the window sets its bit and no other.
LEMMA MarkExact ==
    ASSUME EspInv, NEW s \in Seqnos, s <= last_seqno, verify_seqno(s),
           MarkBit(s), passed' = passed \cup {s}, UNCHANGED sent
    PROVE  EspInv'
  <1> DEFINE e == last_seqno - s
  <1>1. /\ WindowSize \in Nat \ {0}
        /\ seqno_index \in Bits
        /\ last_seqno \in Nat /\ s \in Nat
        /\ window \in [Bits -> BOOLEAN]
    BY WidthAssumption DEF EspInv, TypeOK, Seqnos
  <1>2. s > 0 /\ e \in Bits /\ e < last_seqno
    BY <1>1 DEF verify_seqno, Bits
  <1>3. \A d \in Bits : BitOf(d) = IF seqno_index >= d THEN seqno_index - d
                                   ELSE seqno_index - d + WindowSize
    BY <1>1, BitOfOffset, Zenon DEF BitOf
  <1>4. \A d \in Bits : BitOf(d) \in Bits
    BY <1>1, <1>3 DEF Bits
  <1>5. \A d \in Bits : BitOf(d) = BitOf(e) => d = e
    BY <1>1, <1>2, <1>3 DEF Bits
  <1>6. /\ window' = [window EXCEPT ![BitOf(e)] = TRUE]
        /\ last_seqno' = last_seqno /\ seqno_index' = seqno_index
    BY DEF MarkBit
  <1>7. TypeOK'
    <2>1. window' \in [Bits -> BOOLEAN]
      BY <1>1, <1>6, Zenon
    <2> QED BY <1>6, <2>1 DEF EspInv, TypeOK
  <1>8. Anchored'
    BY <1>1, <1>2, <1>6 DEF EspInv, Anchored
  <1>9. WindowExact'
    <2> SUFFICES ASSUME NEW d \in Bits, d < last_seqno
                 PROVE  window'[BitOf(d)] <=> last_seqno - d \in passed \cup {s}
      BY <1>6, Zenon DEF WindowExact, BitOf
    <2>1. CASE d = e
      <3>1. window'[BitOf(d)] = TRUE
        BY <1>1, <1>2, <1>4, <1>6, <2>1
      <3>2. last_seqno - d = s
        BY <1>1, <2>1
      <3> QED BY <3>1, <3>2
    <2>2. CASE d # e
      <3>1. window'[BitOf(d)] = window[BitOf(d)]
        BY <1>1, <1>2, <1>4, <1>5, <1>6, <2>2
      <3>2. last_seqno - d # s
        BY <1>1, <2>2 DEF Bits
      <3> QED BY <3>1, <3>2 DEF EspInv, WindowExact
    <2> QED BY <2>1, <2>2
  <1> QED BY <1>7, <1>8, <1>9 DEF EspInv

\* Sending, accepting and refusing a packet keep the invariant.
LEMMA EspStep == EspInv /\ [Next]_vars => EspInv'
  <1> SUFFICES ASSUME EspInv, [Next]_vars PROVE EspInv'
    OBVIOUS
  <1>1. CASE Encrypt
    <2>1. TypeOK'
      BY <1>1, WidthAssumption DEF Encrypt, EspInv, TypeOK, Seqnos
    <2>2. Anchored'
      BY <1>1, WidthAssumption DEF Encrypt, EspInv, TypeOK, Seqnos, Anchored
    <2>3. WindowExact'
      BY <1>1, Zenon DEF Encrypt, EspInv, WindowExact, BitOf
    <2> QED BY <2>1, <2>2, <2>3 DEF EspInv
  <1>2. ASSUME NEW s \in Seqnos, Decrypt(s) PROVE EspInv'
    <2>1. s <= sent /\ sent \in Nat /\ s \in Nat /\ last_seqno \in Nat
      BY <1>2, WidthAssumption DEF Decrypt, EspInv, TypeOK, Seqnos
    <2>2. CASE s > last_seqno
      BY <1>2, <2>1, <2>2, ShiftExact DEF Decrypt, set_authenticated_seqno
    <2>3. CASE s <= last_seqno
      BY <1>2, <2>1, <2>3, MarkExact DEF Decrypt, set_authenticated_seqno
    <2> QED BY <2>1, <2>2, <2>3
  <1>3. ASSUME NEW s \in Seqnos, DecryptFails(s) PROVE EspInv'
    BY <1>3, Zenon DEF DecryptFails, IcvMismatch, EspInv, TypeOK, Anchored,
                       WindowExact, BitOf
  <1>4. CASE UNCHANGED vars
    BY <1>4, Zenon DEF vars, EspInv, TypeOK, Anchored, WindowExact, BitOf
  <1> QED BY <1>1, <1>2, <1>3, <1>4 DEF Next

-----------------------------------------------------------------------------
(* The theorems *)

\* The window is exact in every reachable state of the two contexts.
THEOREM EspTheorem == Spec => []EspInv
  BY EspInit, EspStep, PTL DEF Spec

\* The index stays inside the window and the sequence numbers inside their
\* width: esp_context.c never touches a bit outside its buffer.
THEOREM EspTypes == Spec => []TypeOK
  BY EspTheorem, PTL DEF EspInv

\* No packet is delivered twice, for every window size and every width of the
\* sequence numbers.
THEOREM NoReplayTheorem == Spec => []NoReplay
  <1>1. EspInv => NoReplay
    BY VerifyExact, Zenon DEF NoReplay, EspInv, TypeOK
  <1> QED BY <1>1, EspTheorem, PTL

\* No packet the window still covers is refused before it was delivered.
THEOREM NoFalseAlarmTheorem == Spec => []NoFalseAlarm
  <1>1. EspInv => NoFalseAlarm
    <2> SUFFICES ASSUME EspInv, NEW s \in 1 .. sent, s \notin passed,
                        s + WindowSize > last_seqno
                 PROVE  verify_seqno(s)
      BY DEF NoFalseAlarm
    <2>1. s \in Seqnos /\ s > 0
      BY WidthAssumption DEF EspInv, TypeOK, Seqnos
    <2> QED BY <2>1, VerifyExact, Zenon
  <1> QED BY <1>1, EspTheorem, PTL

=============================================================================
