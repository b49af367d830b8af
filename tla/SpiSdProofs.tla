---------------------------- MODULE SpiSdProofs -----------------------------
(***************************************************************************)
(* Proofs about SpiSd.tla, for every number of bits in a command's number, *)
(* every set of commands and every number of clocks required.              *)
(***************************************************************************)
EXTENDS SpiSd, SequenceTheorems, FiniteSetTheorems,
        WellFoundedInduction, TLAPS

\* While a frame is sent the card has counted its bits and holds them in its
\* input register; afterwards it counts the bits of the answer.
Tracking ==
  selected =>
    IF Sending
    THEN /\ bit_count = sent /\ got = <<>>
         /\ \A i \in 1 .. sent : shift_in[FrameLength - sent + i] = Frame(cmd)[i]
    ELSE bit_count = sent - FrameLength /\ Len(got) = sent - FrameLength

Inv == TypeOK /\ Tracking /\ InStep /\ ReadyLate

\* Lengths and bits of the card's constants.
LEMMA Sizes ==
  /\ FrameLength \in Nat /\ FrameLength > 4 /\ AnswerLength = 3
  /\ Req \in Nat
BY SizesAssumption DEF FrameLength, AnswerLength

\* A frame is a sequence of bits whose fixed bits are as the card wants them.
LEMMA FrameBits ==
  ASSUME NEW c \in Commands
  PROVE  /\ Frame(c) \in Seq({0, 1}) /\ Len(Frame(c)) = FrameLength
         /\ Frame(c)[1] = 0 /\ Frame(c)[2] = 1 /\ Frame(c)[FrameLength] = 1
         /\ Frame(c)[FrameLength - 1] = IF c.good THEN 1 ELSE 0
         /\ \A i \in 1 .. TypeBits : Frame(c)[2 + i] = Bit(c.type, TypeBits - i)
<1> DEFINE number == [i \in 1 .. TypeBits |-> Bit(c.type, TypeBits - i)]
           tail   == <<IF c.good THEN 1 ELSE 0, 1>>
<1>1. /\ number \in Seq({0, 1}) /\ Len(number) = TypeBits
      /\ \A i \in 1 .. TypeBits : number[i] = Bit(c.type, TypeBits - i)
  BY SizesAssumption DEF Bit
<1>2. /\ tail \in Seq({0, 1}) /\ Len(tail) = 2 /\ tail[2] = 1
      /\ tail[1] = IF c.good THEN 1 ELSE 0
  OBVIOUS
<1>3. <<0, 1>> \in Seq({0, 1})
  OBVIOUS
<1>4. Frame(c) = (<<0, 1>> \o number) \o tail
  BY DEF Frame
<1> HIDE DEF number, tail
<1> DEFINE head == <<0, 1>> \o number
<1>5. /\ head \in Seq({0, 1}) /\ Len(head) = TypeBits + 2 /\ head[1] = 0 /\ head[2] = 1
      /\ \A i \in 1 .. TypeBits : head[2 + i] = number[i]
  BY <1>1, <1>3, SizesAssumption
<1>6. Frame(c) = head \o tail
  BY <1>4
<1> HIDE DEF head
<1> DEFINE Joined(i) == IF i <= Len(head) THEN head[i] ELSE tail[i - Len(head)]
<1>7. /\ head \o tail \in Seq({0, 1})
      /\ Len(head \o tail) = Len(head) + Len(tail)
      /\ \A i \in 1 .. Len(head) + Len(tail) : (head \o tail)[i] = Joined(i)
  BY <1>2, <1>5, ConcatProperties, Zenon
<1>8. \A i \in 1 .. TypeBits + 4 : Frame(c)[i] = Joined(i)
  BY <1>2, <1>5, <1>6, <1>7, SizesAssumption
<1>9. /\ Joined(1) = 0 /\ Joined(2) = 1
      /\ Joined(TypeBits + 4) = tail[2] /\ Joined(TypeBits + 3) = tail[1]
      /\ \A i \in 1 .. TypeBits : Joined(2 + i) = number[i]
  BY <1>2, <1>5, SizesAssumption
<1>10. Frame(c) \in Seq({0, 1}) /\ Len(Frame(c)) = TypeBits + 4
  BY <1>2, <1>5, <1>6, <1>7, SizesAssumption
<1> HIDE DEF Joined
<1>11. /\ 1 \in 1 .. TypeBits + 4 /\ 2 \in 1 .. TypeBits + 4
       /\ TypeBits + 3 \in 1 .. TypeBits + 4 /\ TypeBits + 4 \in 1 .. TypeBits + 4
       /\ \A i \in 1 .. TypeBits : 2 + i \in 1 .. TypeBits + 4
       /\ FrameLength = TypeBits + 4 /\ FrameLength - 1 = TypeBits + 3
  BY SizesAssumption DEF FrameLength
<1>12. \A i \in 1 .. TypeBits : Frame(c)[2 + i] = Bit(c.type, TypeBits - i)
  <2> SUFFICES ASSUME NEW i \in 1 .. TypeBits
               PROVE  Frame(c)[2 + i] = Bit(c.type, TypeBits - i)
    OBVIOUS
  <2>1. Frame(c)[2 + i] = Joined(2 + i) /\ Joined(2 + i) = number[i]
    BY <1>8, <1>9, <1>11
  <2>2. QED
    BY <1>1, <2>1
<1>13. QED
  BY <1>2, <1>8, <1>9, <1>10, <1>11, <1>12

\* Shifting keeps the length and moves every bit by one place.
LEMMA ShiftedBits ==
  ASSUME NEW s \in Seq({0, 1}), Len(s) > 0, NEW b \in {0, 1}
  PROVE  /\ Append(Tail(s), b) \in Seq({0, 1}) /\ Len(Append(Tail(s), b)) = Len(s)
         /\ \A i \in 1 .. Len(s) - 1 : Append(Tail(s), b)[i] = s[i + 1]
         /\ Append(Tail(s), b)[Len(s)] = b
<1>1. s # <<>>
  OBVIOUS
<1>2. /\ Tail(s) \in Seq({0, 1}) /\ Len(Tail(s)) = Len(s) - 1
      /\ \A i \in 1 .. Len(s) - 1 : Tail(s)[i] = s[i + 1]
  BY <1>1
<1>3. QED
  BY <1>2

\* The output register is never empty; a bit leaves it.
LEMMA PushedBits ==
  ASSUME TypeOK
  PROVE  /\ Pushed \in Seq({0, 1}) /\ Len(Pushed) = AnswerLength
         /\ Out \in {0, 1}
<1>1. shift_out \in Seq({0, 1}) /\ Len(shift_out) = 3
  BY DEF TypeOK, Bits, AnswerLength
<1>2. QED
  BY <1>1, ShiftedBits DEF Pushed, Out, AnswerLength

LEMMA LaterType ==
  ASSUME TypeOK
  PROVE  Later \in 0 .. Req + 1 /\ (since > Req => Later > Req)
BY Sizes DEF TypeOK, Later

\* What a command leaves of the card.
LEMMA ExecuteKeeps ==
  ASSUME TypeOK, ReadyLate, NEW frame, Execute(frame)
  PROVE  /\ state' \in {"UNINITIALISED", "IDLE", "READY"} /\ since' \in 0 .. Req + 1
         /\ shift_out' \in Seq({0, 1}) /\ Len(shift_out') = AnswerLength
         /\ ReadyLate'
<1>1. Pushed \in Seq({0, 1}) /\ Len(Pushed) = AnswerLength
  BY PushedBits
<1>2. \A a, b \in {0, 1} : R1(a, b) \in Seq({0, 1}) /\ Len(R1(a, b)) = AnswerLength
  BY DEF R1, AnswerLength
<1>3. /\ Awake \in {"UNINITIALISED", "IDLE", "READY"}
      /\ Awake = "READY" => Later > Req
  BY LaterType DEF TypeOK, ReadyLate, Awake
<1>4. Busy \in {0, 1}
  BY DEF Busy
<1>5. CASE spisd_go_idle_handler(Good(frame))
  BY <1>2, <1>5, LaterType, Sizes DEF spisd_go_idle_handler, ReadyLate
<1>6. CASE spisd_send_op_handler
  BY <1>2, <1>3, <1>4, <1>6, LaterType DEF spisd_send_op_handler, ReadyLate
<1>7. CASE state' = Awake /\ since' = Later /\ shift_out' = Pushed
  BY <1>1, <1>3, <1>7, LaterType DEF ReadyLate
<1>8. QED
  BY <1>5, <1>6, <1>7 DEF Execute

\* The conjuncts of TypeOK without arithmetic, and those with it.
Flags    == broken \in BOOLEAN /\ scripted \in BOOLEAN /\ selected \in BOOLEAN
CardData ==
  /\ state \in {"UNINITIALISED", "IDLE", "READY"} /\ since \in 0 .. Req + 1
  /\ shift_in \in Seq({0, 1}) /\ Len(shift_in) = FrameLength
  /\ shift_out \in Seq({0, 1}) /\ Len(shift_out) = AnswerLength
  /\ bit_count \in 0 .. FrameLength - 1
HostData ==
  /\ cmd \in Commands /\ sent \in 0 .. FrameLength + AnswerLength
  /\ got \in Seq({0, 1}) /\ Len(got) <= AnswerLength
  /\ reply \in Seq({0, 1}) /\ Len(reply) <= AnswerLength
  /\ todo \in Seq(Commands)

LEMMA TypeParts == TypeOK <=> Flags /\ CardData /\ HostData
BY Zenon DEF TypeOK, Flags, CardData, HostData, Bits

LEMMA InitInv == Init => Inv
<1> SUFFICES ASSUME Init PROVE Inv
  OBVIOUS
<1> USE Sizes DEF Init
<1>1. /\ shift_in \in Seq({0, 1}) /\ Len(shift_in) = FrameLength
      /\ shift_out \in Seq({0, 1}) /\ Len(shift_out) = AnswerLength
  OBVIOUS
<1>2. cmd \in Commands /\ todo \in Seq(Commands)
  <2>1. \A i \in 1 .. 3 : <<GO_IDLE_STATE, SEND_OP_COND, SET_BLOCKLEN>>[i] \in Types
    BY SizesAssumption
  <2>2. \A t \in Types : [type |-> t, good |-> TRUE] \in Commands
    BY DEF Commands
  <2>3. Program \in Seq(Commands) /\ <<>> \in Seq(Commands)
    BY <2>1, <2>2 DEF Program
  <2>4. cmd \in Commands
    BY SizesAssumption DEF Commands
  <2>5. QED
    BY <2>3, <2>4
<1>3. <<>> \in Seq({0, 1}) /\ Len(<<>>) = 0
  OBVIOUS
<1>4. TypeOK
  <2>1. Flags
    BY DEF Flags
  <2>2. CardData
    BY <1>1 DEF CardData
  <2>3. HostData
    BY <1>2, <1>3 DEF HostData
  <2>4. QED
    BY <2>1, <2>2, <2>3, TypeParts
<1>5. QED
  BY <1>4 DEF Inv, Tracking, InStep, ReadyLate

LEMMA SelectInv == Inv /\ Select => Inv'
<1> SUFFICES ASSUME Inv, Select PROVE Inv'
  OBVIOUS
<1> USE Sizes
<1>1. cmd' \in Commands /\ todo' \in Seq(Commands)
  <2>1. todo \in Seq(Commands)
    BY TypeParts DEF Inv, HostData
  <2>2. CASE scripted
    <3>1. todo # <<>> /\ cmd' = Head(todo) /\ todo' = Tail(todo)
      BY <2>2 DEF Select
    <3>2. Head(todo) \in Commands /\ Tail(todo) \in Seq(Commands)
      BY <2>1, <3>1, HeadTailProperties
    <3>3. QED
      BY <3>1, <3>2
  <2>3. CASE ~scripted
    BY <2>1, <2>3 DEF Select
  <2>4. QED
    BY <2>2, <2>3
<1>2. bit_count' = 0 /\ sent' = 0 /\ got' = <<>> /\ selected' = TRUE
  BY DEF Select, spisd_spi_select
<1>3. TypeOK'
  BY <1>1, <1>2 DEF Inv, TypeOK, Select, Bits
<1>4. Tracking'
  BY <1>2 DEF Tracking, Sending
<1>5. QED
  BY <1>3, <1>4 DEF Inv, Select, InStep, ReadyLate

\* The clock of a bit before the last one of a frame.
LEMMA ClockInv == Inv /\ Clock => Inv'
<1> SUFFICES ASSUME Inv, Clock PROVE Inv'
  OBVIOUS
<1> USE Sizes
<1> DEFINE in == IF Sending THEN Frame(cmd)[sent + 1] ELSE 1
<1>1. /\ TypeOK /\ Tracking /\ ReadyLate /\ selected /\ sent' = sent + 1
      /\ spisd_spi_clock(in) /\ sent # FrameLength + AnswerLength
      /\ got' = IF Sending THEN got ELSE Append(got, Out)
      /\ UNCHANGED <<scripted, todo, selected, cmd, reply>>
  BY DEF Inv, Clock, Over
<1>2. /\ sent \in 0 .. FrameLength + 2 /\ sent' \in 0 .. FrameLength + AnswerLength
      /\ bit_count \in 0 .. FrameLength - 1 /\ cmd \in Commands
  BY <1>1 DEF TypeOK
<1>3. in \in {0, 1}
  <2>1. CASE Sending
    BY <2>1, <1>2, FrameBits DEF Sending
  <2>2. CASE ~Sending
    BY <2>2
  <2>3. QED
    BY <2>1, <2>2
<1> HIDE DEF in
<1>4. /\ shift_in' = Shifted(in)
      /\ shift_in' \in Seq({0, 1}) /\ Len(shift_in') = FrameLength
      /\ \A i \in 1 .. FrameLength - 1 : shift_in'[i] = shift_in[i + 1]
      /\ shift_in'[FrameLength] = in
  BY <1>1, <1>3, ShiftedBits DEF TypeOK, Bits, spisd_spi_clock, Shifted
<1>5. Sending => \A i \in 1 .. sent + 1 :
                   shift_in'[FrameLength - (sent + 1) + i] = Frame(cmd)[i]
  <2> SUFFICES ASSUME Sending, NEW i \in 1 .. sent + 1
               PROVE  shift_in'[FrameLength - (sent + 1) + i] = Frame(cmd)[i]
    OBVIOUS
  <2>1. \A j \in 1 .. sent : shift_in[FrameLength - sent + j] = Frame(cmd)[j]
    BY <1>1 DEF Tracking
  <2>2. CASE i = sent + 1
    BY <2>2, <1>2, <1>4 DEF in
  <2>3. CASE i \in 1 .. sent
    <3>1. FrameLength - (sent + 1) + i \in 1 .. FrameLength - 1
      BY <2>3, <1>2 DEF Sending
    <3>2. FrameLength - (sent + 1) + i + 1 = FrameLength - sent + i
      BY <2>3, <1>2
    <3>3. QED
      BY <3>1, <3>2, <2>1, <2>3, <1>4
  <2>4. QED
    BY <2>2, <2>3, <1>2
<1>6. got' \in Seq({0, 1}) /\ Len(got') <= AnswerLength
      /\ (~Sending => Len(got') = sent + 1 - FrameLength)
  <2>1. CASE Sending
    BY <2>1, <1>1 DEF TypeOK, Bits
  <2>2. CASE ~Sending
    <3>1. Out \in {0, 1}
      BY <1>1, PushedBits
    <3>2. Len(got) = sent - FrameLength /\ got \in Seq({0, 1})
      BY <2>2, <1>1 DEF Tracking, TypeOK, Bits
    <3>3. QED
      BY <3>1, <3>2, <2>2, <1>1, <1>2 DEF Sending
  <2>3. QED
    BY <2>1, <2>2
<1>7. /\ state' \in {"UNINITIALISED", "IDLE", "READY"} /\ since' \in 0 .. Req + 1
      /\ shift_out' \in Seq({0, 1}) /\ Len(shift_out') = AnswerLength
      /\ ReadyLate' /\ broken' = FALSE
      /\ bit_count' = IF bit_count + 1 < FrameLength THEN bit_count + 1 ELSE 0
  <2>1. broken = FALSE
    BY DEF Inv, InStep, TypeOK
  <2>2. CASE bit_count + 1 < FrameLength
    <3>1. /\ bit_count' = bit_count + 1 /\ since' = Later /\ shift_out' = Pushed
          /\ UNCHANGED <<state, broken>>
      BY <2>2, <1>1 DEF spisd_spi_clock
    <3>2. Pushed \in Seq({0, 1}) /\ Len(Pushed) = AnswerLength
      BY <1>1, PushedBits
    <3>3. QED
      BY <3>1, <3>2, <2>1, <2>2, <1>1, LaterType DEF TypeOK, ReadyLate
  <2>3. CASE ~(bit_count + 1 < FrameLength)
    <3>1. Sending /\ sent + 1 = FrameLength
      BY <2>3, <1>1, <1>2 DEF Tracking, Sending
    <3>2. \A i \in 1 .. FrameLength : shift_in'[i] = Frame(cmd)[i]
      <4>1. \A i \in 1 .. FrameLength : shift_in'[FrameLength - FrameLength + i] = Frame(cmd)[i]
        BY <3>1, <1>5, Zenon
      <4>2. \A i \in 1 .. FrameLength : FrameLength - FrameLength + i = i
        OBVIOUS
      <4>3. QED
        BY <4>1, <4>2, Zenon
    <3>3. ~Malformed(Shifted(in))
      BY <3>2, <1>2, <1>4, FrameBits, SMTT(30) DEF Malformed
    <3>4. Execute(Shifted(in)) /\ bit_count' = 0 /\ UNCHANGED broken
      BY <3>3, <2>3, <1>1 DEF spisd_spi_clock
    <3>5. QED
      BY <3>4, <2>1, <2>3, <1>1, ExecuteKeeps
  <2>4. QED
    BY <2>2, <2>3
<1>8. TypeOK'
  <2>1. Flags'
    BY <1>1, <1>7, TypeParts DEF Flags
  <2>2. bit_count' \in 0 .. FrameLength - 1
    BY <1>2, <1>7
  <2>3. CardData'
    BY <2>2, <1>4, <1>7 DEF CardData
  <2>4. HostData'
    BY <1>1, <1>2, <1>6, TypeParts DEF HostData
  <2>5. QED
    BY <2>1, <2>3, <2>4, TypeParts, PTL
<1>9. Tracking'
  <2>1. CASE sent + 1 < FrameLength
    <3>1. Sending /\ Sending' /\ got' = <<>> /\ bit_count = sent
      BY <2>1, <1>1, <1>2 DEF Sending, Tracking
    <3>2. bit_count' = sent'
      BY <3>1, <2>1, <1>1, <1>7
    <3>3. QED
      BY <3>1, <3>2, <1>1, <1>5 DEF Tracking, Frame
  <2>2. CASE sent + 1 = FrameLength
    <3>1. Sending /\ ~Sending' /\ got' = <<>> /\ bit_count = sent
      BY <2>2, <1>1, <1>2, SMTT(30) DEF Sending, Tracking
    <3>2. bit_count' = 0 /\ Len(got') = 0
      BY <3>1, <2>2, <1>7
    <3>3. QED
      BY <3>1, <3>2, <2>2, <1>1 DEF Tracking
  <2>3. CASE sent >= FrameLength
    <3>1. ~Sending /\ ~Sending' /\ bit_count = sent - FrameLength
      BY <2>3, <1>1, <1>2 DEF Sending, Tracking
    <3>2. bit_count' = sent' - FrameLength
      BY <3>1, <1>1, <1>2, <1>7
    <3>3. QED
      <4>1. Len(got') = sent' - FrameLength
        BY <3>1, <1>1, <1>2, <1>6
      <4>2. QED
        BY <3>1, <3>2, <4>1 DEF Tracking
  <2>4. QED
    BY <2>1, <2>2, <2>3, <1>2
<1>10. QED
  BY <1>7, <1>8, <1>9 DEF Inv, InStep

LEMMA DeselectInv == Inv /\ Deselect => Inv'
<1> SUFFICES ASSUME Inv, Deselect PROVE Inv'
  OBVIOUS
<1> USE Sizes
<1>1. /\ TypeOK /\ InStep /\ ReadyLate /\ selected' = FALSE /\ sent' = 0 /\ got' = <<>>
      /\ bit_count' = bit_count
      /\ UNCHANGED <<state, shift_in, shift_out, since, broken, scripted, todo, cmd>>
      /\ reply' = IF Over THEN got ELSE reply
  BY DEF Inv, Deselect, spisd_spi_select
<1>2. TypeOK'
  <2>1. Flags'
    BY <1>1, TypeParts DEF Flags
  <2>2. CardData'
    BY <1>1, TypeParts DEF CardData
  <2>3. HostData'
    BY <1>1, TypeParts DEF HostData
  <2>4. QED
    BY <2>1, <2>2, <2>3, TypeParts, PTL
<1>3. QED
  BY <1>1, <1>2 DEF Inv, InStep, ReadyLate, Tracking

LEMMA ElsewhereInv == Inv /\ Elsewhere => Inv'
<1> SUFFICES ASSUME Inv, Elsewhere PROVE Inv'
  OBVIOUS
<1>1. /\ TypeOK /\ InStep /\ ReadyLate /\ ~selected /\ since' = Later
      /\ UNCHANGED <<state, shift_in, shift_out, bit_count, broken,
                     scripted, todo, selected, cmd, sent, got, reply>>
  BY DEF Inv, Elsewhere, host
<1>2. TypeOK'
  BY <1>1, LaterType DEF TypeOK
<1>3. QED
  BY <1>1, <1>2, LaterType DEF Inv, InStep, ReadyLate, Tracking

LEMMA StutterInv == Inv /\ UNCHANGED vars => Inv'
<1> SUFFICES ASSUME Inv, UNCHANGED vars PROVE Inv'
  OBVIOUS
<1>1. TypeOK'
  BY DEF Inv, TypeOK, vars, card, host
<1>2. Tracking'
  BY DEF Inv, Tracking, Sending, vars, card, host
<1>3. QED
  BY <1>1, <1>2 DEF Inv, InStep, ReadyLate, vars, card, host

LEMMA Invariance == Spec => []Inv
<1>1. Inv /\ [Next]_vars => Inv'
  BY SelectInv, ClockInv, DeselectInv, ElsewhereInv, StutterInv DEF Next, Step
<1>2. QED
  BY InitInv, <1>1, PTL DEF Spec

\* The state of card and host is well-typed whatever the host sends and
\* wherever it gives up: spisd_spi_clock never counts beyond a frame.
THEOREM CardTypes == Spec => []TypeOK
BY Invariance, PTL DEF Inv

\* A host that starts each command with a selection never meets one of the
\* breakpoints of spisd_spi_clock.
THEOREM CardInStep == Spec => []InStep
BY Invariance, PTL DEF Inv

\* The card is ready only after RESET_CYCLE_REQ clocks from its last reset.
THEOREM CardReadyLate == Spec => []ReadyLate
BY Invariance, PTL DEF Inv

-----------------------------------------------------------------------------
(* The number in a frame is the number of its command.                     *)

\* Powers of two, as numbers of subsets.
LEMMA PowerNat ==
  ASSUME NEW n \in Nat
  PROVE  2 ^ n \in Nat /\ 2 ^ n = Cardinality(SUBSET (1 .. n)) /\ IsFiniteSet(SUBSET (1 .. n))
<1>1. IsFiniteSet(1 .. n) /\ Cardinality(1 .. n) = n
  BY FS_Interval
<1>2. IsFiniteSet(SUBSET (1 .. n)) /\ Cardinality(SUBSET (1 .. n)) = 2 ^ n
  BY <1>1, FS_SUBSET
<1>3. QED
  BY <1>2, FS_CardinalityType

\* A set of one more element has twice as many subsets.
LEMMA PowerNext ==
  ASSUME NEW n \in Nat PROVE 2 ^ (n + 1) = 2 * 2 ^ n
<1> DEFINE A == SUBSET (1 .. n)
           B == {a \cup {n + 1} : a \in A}
<1>1. /\ IsFiniteSet(A) /\ Cardinality(A) = 2 ^ n /\ 2 ^ n \in Nat
      /\ Cardinality(SUBSET (1 .. n + 1)) = 2 ^ (n + 1)
  BY PowerNat
<1>2. SUBSET (1 .. n + 1) = A \cup B
  <2>1. 1 .. n + 1 = (1 .. n) \cup {n + 1} /\ n + 1 \notin 1 .. n
    OBVIOUS
  <2>2. A \cup B \subseteq SUBSET (1 .. n + 1)
    BY <2>1
  <2>3. ASSUME NEW s \in SUBSET (1 .. n + 1) PROVE s \in A \cup B
    <3>1. CASE n + 1 \in s
      <4>1. s \ {n + 1} \in A /\ s = (s \ {n + 1}) \cup {n + 1}
        BY <2>1, <3>1
      <4>2. QED
        BY <4>1
    <3>2. CASE n + 1 \notin s
      BY <2>1, <3>2
    <3>3. QED
      BY <3>1, <3>2
  <2>4. QED
    BY <2>2, <2>3
<1>3. A \cap B = {}
  OBVIOUS
<1>4. IsFiniteSet(B) /\ Cardinality(B) = Cardinality(A)
  <2> DEFINE f == [a \in A |-> a \cup {n + 1}]
  <2>1. f \in Bijection(A, B)
    <3>1. \A a \in A : n + 1 \notin a
      OBVIOUS
    <3>2. f \in [A -> B] /\ \A b \in B : \E a \in A : f[a] = b
      OBVIOUS
    <3>3. \A a, c \in A : f[a] = f[c] => a = c
      BY <3>1
    <3> HIDE DEF f, A, B
    <3>4. QED
      BY <3>2, <3>3 DEF Bijection, Injection, Surjection, IsInjective
  <2> HIDE DEF f, A, B
  <2>2. QED
    BY <2>1, <1>1, FS_Bijection DEF ExistsBijection
<1> HIDE DEF A, B
<1>5. Cardinality(A \cup B) = Cardinality(A) + Cardinality(B) - Cardinality(A \cap B)
  BY <1>1, <1>4, FS_Union, Zenon
<1>6. Cardinality(A \cap B) = 0
  BY <1>3, FS_EmptySet
<1> DEFINE p == 2 ^ n
           q == 2 ^ (n + 1)
<1>7. /\ p \in Nat /\ q = Cardinality(A \cup B)
      /\ Cardinality(A) = p /\ Cardinality(B) = p
  BY <1>1, <1>2, <1>4, Zenon
<1> HIDE DEF p, q
<1>8. q = 2 * p
  BY <1>5, <1>6, <1>7
<1>9. QED
  BY <1>8 DEF p, q
\* The number t without its last k bits.
Upper(t, k) == t \div 2 ^ k

LEMMA UpperBits ==
  ASSUME NEW t \in Nat, NEW k \in Nat
  PROVE  /\ Upper(t, k) \in Nat
         /\ Upper(t, k) = 2 * Upper(t, k + 1) + Bit(t, k)
<1> DEFINE p == 2 ^ k
           q == 2 ^ (k + 1)
<1>1. p \in Nat /\ q \in Nat /\ q = 2 * p
  <2>1. k + 1 \in Nat
    OBVIOUS
  <2>2. QED
    BY <2>1, PowerNat, PowerNext, Zenon
<1>2. p > 0
  <2>1. {} \in SUBSET (1 .. k) /\ p = Cardinality(SUBSET (1 .. k)) /\ IsFiniteSet(SUBSET (1 .. k))
    BY PowerNat
  <2> HIDE DEF p
  <2>2. p # 0
    BY <2>1, FS_EmptySet
  <2>3. QED
    BY <1>1, <2>2
<1>3. Bit(t, k) = IF (t \div p) % 2 = 1 THEN 1 ELSE 0
  BY DEF Bit
<1>4. Upper(t, k) = t \div p /\ Upper(t, k + 1) = t \div q
  BY DEF Upper
<1> HIDE DEF p, q
<1> DEFINE u == t \div p
<1>5. u \in Nat /\ t \div q = u \div 2
  BY <1>1, <1>2
<1>6. Bit(t, k) = IF u % 2 = 1 THEN 1 ELSE 0
  BY <1>3
<1> HIDE DEF u
<1>7. u = (2 * (u \div 2)) + Bit(t, k)
  BY <1>5, <1>6
<1>8. QED
  BY <1>4, <1>5, <1>7 DEF u

\* What Number has found after i bits.
Accumulated(frame, f, i) == IF i = 0 THEN 0 ELSE 2 * f[i - 1] + frame[2 + i]

LEMMA NumberUnfolds ==
  ASSUME NEW frame, NEW g,
         g = [i \in 0 .. TypeBits |-> Accumulated(frame, g, i)]
  PROVE  \E f : /\ f = [i \in 0 .. TypeBits |-> Accumulated(frame, f, i)]
                /\ Number(frame) = f[TypeBits] % TypeMask
<1> DEFINE value[i \in 0 .. TypeBits] == IF i = 0 THEN 0 ELSE 2 * value[i - 1] + frame[2 + i]
<1>1. Number(frame) = value[TypeBits] % TypeMask
  BY Zenon DEF Number
<1>2. g = [i \in 0 .. TypeBits |-> IF i = 0 THEN 0 ELSE 2 * g[i - 1] + frame[2 + i]]
  BY DEF Accumulated
<1>3. value = [i \in 0 .. TypeBits |-> IF i = 0 THEN 0 ELSE 2 * value[i - 1] + frame[2 + i]]
  BY <1>2, Zenon
<1>4. value = [i \in 0 .. TypeBits |-> Accumulated(frame, value, i)]
  BY <1>3 DEF Accumulated
<1> HIDE DEF value
<1>5. QED
  BY <1>1, <1>4

\* Induction over the natural numbers, for a set of them.
LEMMA NatSetInduction ==
  ASSUME NEW T, \A n \in Nat : (\A m \in 0 .. n - 1 : m \in T) => n \in T
  PROVE  Nat \subseteq T
<1> SUFFICES ASSUME Nat \ T # {} PROVE FALSE
  OBVIOUS
<1>1. IsWellFoundedOn(OpToRel(<, Nat), Nat)
  BY NatLessThanWellFounded
<1>2. PICK n \in Nat \ T : \A m \in Nat \ T : ~(<<m, n>> \in OpToRel(<, Nat))
  <2>1. Nat \ T \subseteq Nat
    OBVIOUS
  <2>2. QED
    BY <1>1, <2>1, WFMin, Zenon
<1>3. \A m \in 0 .. n - 1 : m \in T
  <2> SUFFICES ASSUME NEW m \in 0 .. n - 1, m \notin T PROVE FALSE
    OBVIOUS
  <2>1. m \in Nat /\ m < n
    OBVIOUS
  <2>2. <<m, n>> \in OpToRel(<, Nat)
    BY <2>1 DEF OpToRel
  <2>3. QED
    BY <1>2, <2>1, <2>2
<1>4. QED
  BY <1>2, <1>3


\* Two such functions are equal.
LEMMA NumberIs ==
  ASSUME NEW frame, NEW g,
         g = [i \in 0 .. TypeBits |-> Accumulated(frame, g, i)]
  PROVE  Number(frame) = g[TypeBits] % TypeMask
<1>1. PICK f : /\ f = [i \in 0 .. TypeBits |-> Accumulated(frame, f, i)]
               /\ Number(frame) = f[TypeBits] % TypeMask
  BY NumberUnfolds, Zenon
<1> DEFINE T == {n \in Nat : n <= TypeBits => f[n] = g[n]}
<1>2. ASSUME NEW n \in Nat, \A m \in 0 .. n - 1 : m \in T
      PROVE  n \in T
  <2> SUFFICES ASSUME n <= TypeBits PROVE f[n] = g[n]
    OBVIOUS
  <2>1. n \in 0 .. TypeBits
    OBVIOUS
  <2>2. f[n] = Accumulated(frame, f, n) /\ g[n] = Accumulated(frame, g, n)
    BY <2>1, <1>1
  <2>3. CASE n = 0
    BY <2>2, <2>3 DEF Accumulated
  <2>4. CASE n # 0
    <3>1. f[n - 1] = g[n - 1]
      BY <1>2, <2>4, SizesAssumption
    <3>2. QED
      BY <2>2, <2>4, <3>1 DEF Accumulated
  <2>5. QED
    BY <2>3, <2>4
<1> HIDE DEF T
<1>3. Nat \subseteq T
  BY <1>2, NatSetInduction
<1>4. TypeBits \in Nat
  BY SizesAssumption
<1>5. f[TypeBits] = g[TypeBits]
  BY <1>3, <1>4 DEF T
<1>6. QED
  BY <1>1, <1>5

\* The number of a command whose top bit is not set is that of its frame.
LEMMA NumberOfFrame ==
  ASSUME NEW c \in Commands, c.type < TypeMask
  PROVE  Number(Frame(c)) = c.type
<1> DEFINE t == c.type
           g == [i \in 0 .. TypeBits |-> Upper(t, TypeBits - i)]
<1>1. t \in Nat /\ TypeBits \in Nat /\ TypeBits > 0 /\ 2 ^ TypeBits \in Nat /\ t < 2 ^ TypeBits
  <2>1. TypeBits \in Nat /\ TypeBits > 0 /\ Types \subseteq 0 .. 2 ^ TypeBits - 1
    BY SizesAssumption
  <2>2. 2 ^ TypeBits \in Nat
    BY <2>1, PowerNat
  <2>3. t \in Types
    BY DEF Commands
  <2> DEFINE p == 2 ^ TypeBits
  <2>4. t \in 0 .. p - 1 /\ p \in Nat
    BY <2>1, <2>2, <2>3, Zenon
  <2> HIDE DEF p, t
  <2>5. t \in Nat /\ t < p
    BY <2>4
  <2>6. QED
    BY <2>1, <2>4, <2>5 DEF p
<1>2. \A i \in 1 .. TypeBits : Frame(c)[2 + i] = Bit(t, TypeBits - i)
  BY FrameBits
<1>3. ASSUME NEW i \in 0 .. TypeBits
      PROVE  Upper(t, TypeBits - i) = Accumulated(Frame(c), g, i)
  <2>1. CASE i = 0
    <3>1. Upper(t, TypeBits) = 0
      <4> DEFINE p == 2 ^ TypeBits
      <4>1. t < p /\ p \in Nat
        BY <1>1
      <4>2. Upper(t, TypeBits) = t \div p
        BY DEF Upper
      <4> HIDE DEF p
      <4>3. t \div p = 0
        BY <1>1, <4>1
      <4>4. QED
        BY <4>2, <4>3
    <3>2. TypeBits - i = TypeBits
      BY <1>1, <2>1
    <3> HIDE DEF t, g
    <3>3. QED
      BY <2>1, <3>1, <3>2 DEF Accumulated
  <2>2. CASE i # 0
    <3> DEFINE k == TypeBits - i
    <3>1. /\ i \in 1 .. TypeBits /\ i - 1 \in 0 .. TypeBits /\ k \in Nat
          /\ TypeBits - (i - 1) = k + 1
      BY <1>1, <2>2
    <3>2. g[i - 1] = Upper(t, k + 1) /\ Frame(c)[2 + i] = Bit(t, k)
      BY <3>1, <1>2
    <3>3. Upper(t, k) = 2 * Upper(t, k + 1) + Bit(t, k)
      BY <3>1, <1>1, UpperBits
    <3> HIDE DEF t, g, k
    <3>4. Accumulated(Frame(c), g, i) = 2 * Upper(t, k + 1) + Bit(t, k)
      BY <2>2, <3>2 DEF Accumulated
    <3>5. QED
      BY <3>3, <3>4 DEF k
  <2>3. QED
    BY <2>1, <2>2
<1>4. g = [i \in 0 .. TypeBits |-> Accumulated(Frame(c), g, i)]
  BY <1>3
<1>5. g[TypeBits] = t
  <2>1. g[TypeBits] = Upper(t, 0)
    BY <1>1
  <2>2. Upper(t, 0) = t \div 1
    BY DEF Upper
  <2> HIDE DEF t, g
  <2>3. QED
    BY <1>1, <2>1, <2>2
<1>6. TypeMask \in Nat
  BY <1>1, PowerNat DEF TypeMask
<1>7. Number(Frame(c)) = t % TypeMask
  <2> HIDE DEF t, g
  <2>1. QED
    BY <1>4, <1>5, NumberIs
<1>8. t < TypeMask
  OBVIOUS
<1> HIDE DEF t
<1>9. t % TypeMask = t
  BY <1>1, <1>6, <1>8
<1>10. QED
  BY <1>7, <1>9 DEF t

-----------------------------------------------------------------------------
(* The refinement of SdContract.                                           *)

\* No command has a number whose top bit the card would leave out.
NoTopBit == \A t \in Types : t < TypeMask

\* While a frame is sent the output register runs empty.
Drained ==
  selected /\ Sending =>
    \A i \in 1 .. AnswerLength : i > AnswerLength - sent => shift_out[i] = 0

\* The output register as a sequence of three bits, and its next value.
LEMMA OutputBits ==
  ASSUME TypeOK
  PROVE  /\ shift_out \in Seq({0, 1}) /\ Len(shift_out) = 3
         /\ got \in Seq({0, 1}) /\ Len(got) \in 0 .. 3
         /\ Pushed[3] = 0 /\ \A i \in 1 .. 2 : Pushed[i] = shift_out[i + 1]
         /\ Out = shift_out[1] /\ Out \in {0, 1}
<1>1. /\ shift_out \in Seq({0, 1}) /\ Len(shift_out) = AnswerLength
      /\ got \in Seq({0, 1}) /\ Len(got) <= AnswerLength
  BY TypeParts DEF CardData, HostData
<1>2. Len(shift_out) = 3 /\ Len(got) \in 0 .. 3
  <2>1. Len(got) \in Nat
    BY <1>1, LenProperties
  <2>2. Len(shift_out) = 3 /\ Len(got) <= 3
    BY <1>1 DEF AnswerLength
  <2> DEFINE n == Len(got)
  <2>3. n \in Nat /\ n <= 3
    BY <2>1, <2>2
  <2> HIDE DEF n
  <2>4. n \in 0 .. 3
    BY <2>3
  <2>5. QED
    BY <2>2, <2>4 DEF n
<1>3. Len(shift_out) > 0 /\ 0 \in {0, 1} /\ Len(shift_out) - 1 = 2
  BY <1>2
<1>4. /\ \A i \in 1 .. Len(shift_out) - 1 : Append(Tail(shift_out), 0)[i] = shift_out[i + 1]
      /\ Append(Tail(shift_out), 0)[Len(shift_out)] = 0
  BY <1>1, <1>3, ShiftedBits
<1>5. Pushed[3] = 0 /\ \A i \in 1 .. 2 : Pushed[i] = shift_out[i + 1]
  BY <1>2, <1>3, <1>4, Zenon DEF Pushed
<1>6. Out = shift_out[1] /\ Out \in {0, 1}
  BY <1>1, <1>2 DEF Out
<1>7. QED
  BY <1>1, <1>2, <1>5, <1>6

LEMMA DrainedStep == Inv /\ Drained /\ [Next]_vars => Drained'
<1> SUFFICES ASSUME Inv, Drained, [Next]_vars, selected', Sending',
                    NEW i \in 1 .. AnswerLength, i > AnswerLength - sent'
             PROVE  shift_out'[i] = 0
  BY DEF Drained
<1> USE Sizes
<1>1. TypeOK
  BY DEF Inv
<1>2. CASE Select
  BY <1>2 DEF Select
<1>3. CASE Clock
  <2>1. sent' = sent + 1 /\ selected /\ spisd_spi_clock(IF Sending THEN Frame(cmd)[sent + 1] ELSE 1)
    BY <1>3 DEF Clock
  <2>2. sent \in Nat /\ sent + 1 < FrameLength /\ Sending
    BY <1>1, <2>1 DEF TypeOK, Sending
  <2>3. bit_count = sent
    BY <2>1, <2>2 DEF Inv, Tracking
  <2>4. shift_out' = Pushed
    BY <2>1, <2>2, <2>3 DEF spisd_spi_clock
  <2>5. Pushed[3] = 0 /\ \A j \in 1 .. 2 : Pushed[j] = shift_out[j + 1]
    BY <1>1, OutputBits
  <2>6. CASE i = AnswerLength
    BY <2>4, <2>5, <2>6
  <2>7. CASE i # AnswerLength
    <3>1. i + 1 \in 1 .. AnswerLength /\ i + 1 > AnswerLength - sent
      BY <2>1, <2>2, <2>7
    <3>2. shift_out[i + 1] = 0
      BY <2>1, <2>2, <3>1 DEF Drained
    <3>3. shift_out'[i] = shift_out[i + 1]
      BY <2>4, <2>5, <2>7
    <3>4. QED
      BY <3>2, <3>3
  <2>8. QED
    BY <2>6, <2>7
<1>4. CASE Deselect
  BY <1>4 DEF Deselect
<1>5. CASE Elsewhere
  BY <1>5 DEF Elsewhere, host
<1>6. CASE UNCHANGED vars
  BY <1>6 DEF vars, card, host, Drained, Sending
<1>7. QED
  BY <1>2, <1>3, <1>4, <1>5, <1>6 DEF Next, Step

LEMMA DrainedInvariance == Spec => [](Inv /\ Drained)
<1>1. Init => Drained
  BY DEF Init, Drained
<1>2. QED
  BY <1>1, Invariance, DrainedStep, PTL DEF Spec

\* What SdContract sees.
Pending == IF selected /\ Sending THEN <<cmd.type, cmd.good>> ELSE <<>>
Left    == SubSeq(shift_out, 1, AnswerLength - Len(got))
Owed    == IF selected /\ ~Sending THEN got \o Left ELSE <<>>

\* What the host has read and what is left make up three bits.
OwesBits ==
  /\ got \o Left \in Seq({0, 1}) /\ Len(got \o Left) = AnswerLength
  /\ \A i \in 1 .. AnswerLength :
       (got \o Left)[i] = IF i <= Len(got) THEN got[i] ELSE shift_out[i - Len(got)]

\* The bits that are left are bits of the output register.
LEMMA LeftBits ==
  ASSUME TypeOK
  PROVE  /\ Left \in Seq({0, 1}) /\ Len(Left) = AnswerLength - Len(got)
         /\ \A i \in 1 .. AnswerLength - Len(got) : Left[i] = shift_out[i]
         /\ OwesBits
<1> USE DEF AnswerLength
<1>1. /\ shift_out \in Seq({0, 1}) /\ Len(shift_out) = 3
      /\ got \in Seq({0, 1}) /\ Len(got) \in 0 .. 3
  BY OutputBits
<1> DEFINE n == 3 - Len(got)
<1>2. n \in 0 .. 3 /\ n <= Len(shift_out)
  BY <1>1
<1>3. Left = SubSeq(shift_out, 1, n)
  BY DEF Left
<1> HIDE DEF n
<1>4. /\ Left \in Seq({0, 1}) /\ Len(Left) = n
      /\ \A i \in 1 .. n : Left[i] = shift_out[i]
  BY <1>1, <1>2, <1>3
<1>5. /\ got \o Left \in Seq({0, 1}) /\ Len(got \o Left) = Len(got) + Len(Left)
      /\ \A i \in 1 .. Len(got) + Len(Left) :
           (got \o Left)[i] = IF i <= Len(got) THEN got[i] ELSE Left[i - Len(got)]
  BY <1>1, <1>4, ConcatProperties, Zenon
<1>6. Len(got) + Len(Left) = 3 /\ n = 3 - Len(got)
  BY <1>1, <1>2, <1>4 DEF n
<1>7. ASSUME NEW i \in 1 .. 3
      PROVE  (got \o Left)[i] = IF i <= Len(got) THEN got[i] ELSE shift_out[i - Len(got)]
  <2>1. (got \o Left)[i] = IF i <= Len(got) THEN got[i] ELSE Left[i - Len(got)]
    BY <1>5, <1>6
  <2>2. CASE i <= Len(got)
    BY <2>1, <2>2
  <2>3. CASE ~(i <= Len(got))
    <3>1. i - Len(got) \in 1 .. n
      BY <1>1, <1>6, <2>3
    <3>2. QED
      BY <1>4, <2>1, <2>3, <3>1
  <2>4. QED
    BY <2>2, <2>3
<1>8. QED
  BY <1>4, <1>5, <1>6, <1>7 DEF OwesBits

LEMMA Owes == TypeOK => OwesBits
BY LeftBits

\* A clock of the answer moves a bit from the card to the host: what is owed
\* stays the same.
LEMMA ReadingKeepsOwed ==
  ASSUME TypeOK, TypeOK', Len(got) < AnswerLength,
         shift_out' = Pushed, got' = Append(got, Out)
  PROVE  got' \o Left' = got \o Left
<1> DEFINE a == got \o Left
           b == (got \o Left)'
<1>1. /\ shift_out \in Seq({0, 1}) /\ Len(shift_out) = 3
      /\ got \in Seq({0, 1}) /\ Len(got) \in 0 .. 2 /\ AnswerLength = 3
      /\ Out = shift_out[1] /\ Out \in {0, 1}
      /\ \A i \in 1 .. 2 : Pushed[i] = shift_out[i + 1]
  BY OutputBits, Sizes
<1>2. /\ Len(got') = Len(got) + 1 /\ got'[Len(got) + 1] = shift_out[1]
      /\ \A i \in 1 .. Len(got) : got'[i] = got[i]
  BY <1>1
<1>3. \A i \in 1 .. 2 : shift_out'[i] = shift_out[i + 1]
  BY <1>1
<1>4. /\ a \in Seq({0, 1}) /\ Len(a) = 3
      /\ \A i \in 1 .. 3 : a[i] = IF i <= Len(got) THEN got[i] ELSE shift_out[i - Len(got)]
  BY <1>1, LeftBits DEF OwesBits
<1>5. /\ b \in Seq({0, 1}) /\ Len(b) = 3
      /\ \A i \in 1 .. 3 : b[i] = IF i <= Len(got') THEN got'[i] ELSE shift_out'[i - Len(got')]
  <2>1. OwesBits'
    BY Owes, PTL
  <2>2. QED
    BY <1>1, <2>1 DEF OwesBits
<1> HIDE DEF a, b
<1>6. ASSUME NEW i \in 1 .. 3 PROVE a[i] = b[i]
  <2>1. CASE i <= Len(got)
    BY <2>1, <1>1, <1>2, <1>4, <1>5
  <2>2. CASE i = Len(got) + 1
    BY <2>2, <1>1, <1>2, <1>4, <1>5
  <2>3. CASE i > Len(got) + 1
    <3>1. i - Len(got') \in 1 .. 2 /\ (i - Len(got')) + 1 = i - Len(got)
      BY <2>3, <1>1, <1>2
    <3>2. b[i] = shift_out'[i - Len(got')] /\ a[i] = shift_out[i - Len(got)]
      BY <2>3, <1>1, <1>2, <1>4, <1>5
    <3>3. QED
      BY <3>1, <3>2, <1>3
  <2>4. QED
    BY <2>1, <2>2, <2>3, <1>1
<1>7. a = b
  BY <1>4, <1>5, <1>6
<1>8. QED
  BY <1>7 DEF a, b

\* The steps of SdContract, by what they do to what it sees.
LEMMA AsTick ==
  ASSUME since' = Later, UNCHANGED <<state, reply>>, Pending' = Pending, Owed' = Owed
  PROVE  Contract!Next
<1>1. state' = state /\ reply' = reply
  OBVIOUS
<1>2. since' = Contract!Later(since)
  BY DEF Later, Contract!Later
<1>3. Contract!Tick
  BY <1>1, <1>2, Zenon DEF Contract!Tick, Pending, Owed, Left
<1>4. QED
  BY <1>3, Zenon DEF Contract!Next

LEMMA AsAsk ==
  ASSUME Pending = <<>>, Owed = <<>>, Owed' = <<>>,
         NEW type \in Types, NEW good \in BOOLEAN, Pending' = <<type, good>>,
         UNCHANGED <<state, since, reply>>
  PROVE  Contract!Next
<1>1. state' = state /\ since' = since /\ reply' = reply
  OBVIOUS
<1>2. Contract!Ask
  BY <1>1, Zenon DEF Contract!Ask, Pending, Owed, Left
<1>3. QED
  BY <1>2, Zenon DEF Contract!Next

LEMMA AsForget ==
  ASSUME Pending' = <<>>, Owed' = <<>>, UNCHANGED <<state, since, reply>>
  PROVE  Contract!Next
<1>1. state' = state /\ since' = since /\ reply' = reply
  OBVIOUS
<1>2. Contract!Forget
  BY <1>1, Zenon DEF Contract!Forget, Pending, Owed, Left
<1>3. QED
  BY <1>2, Zenon DEF Contract!Next

LEMMA AsDeliver ==
  ASSUME Owed # <<>>, reply' = Owed, Owed' = <<>>, Pending' = Pending, UNCHANGED <<state, since>>
  PROVE  Contract!Next
<1>1. state' = state /\ since' = since
  OBVIOUS
<1>2. Contract!Deliver
  BY <1>1, Zenon DEF Contract!Deliver, Pending, Owed, Left
<1>3. QED
  BY <1>2, Zenon DEF Contract!Next

LEMMA SameAwake == Awake = Contract!Awake
BY DEF Awake, Later, Contract!Awake, Contract!Later

\* What the card does when it has got the frame of the command in hand is what
\* SdContract says of the command.
LEMMA AsCommand ==
  ASSUME selected, Sending, cmd \in Commands, reply' = reply, Pending' = <<>>,
         state \in {"UNINITIALISED", "IDLE", "READY"},
         IF cmd.type = GO_IDLE_STATE THEN spisd_go_idle_handler(cmd.good)
         ELSE /\ state' = Awake /\ since' = Later
              /\ shift_out' = R1(0, IF cmd.type = SEND_OP_COND /\ Awake # "READY" THEN 1 ELSE 0),
         Owed' = shift_out'
  PROVE  Contract!Next
<1> DEFINE type == cmd.type
           good == cmd.good
<1>1. Pending = <<type, good>> /\ Pending # <<>> /\ Pending[1] = type
  BY DEF Pending
<1>2. Pending[2] = good
  BY <1>1, Zenon
<1>3. Awake = Contract!Awake /\ Later = Contract!Later(since)
  BY SameAwake DEF Later, Contract!Later
<1>4. \A a, b : R1(a, b) = Contract!R1(a, b)
  BY DEF R1, Contract!R1
<1> HIDE DEF type, good
<1>5. CASE type = GO_IDLE_STATE
  <2>1. spisd_go_idle_handler(good)
    BY <1>5 DEF type, good
  <2>2. Contract!Reset(good)
    <3>1. CASE good \/ Awake # "UNINITIALISED"
      <4>1. state' = "IDLE" /\ since' = 0 /\ Owed' = Contract!R1(0, 1)
        BY <2>1, <3>1, <1>4, Zenon DEF spisd_go_idle_handler
      <4>2. QED
        BY <4>1, <3>1, <1>3, Zenon DEF Contract!Reset, Owed, Left
    <3>2. CASE ~good /\ Awake = "UNINITIALISED"
      <4>1. state' = "UNINITIALISED" /\ since' = Later /\ Owed' = Contract!R1(1, 0)
        BY <2>1, <3>2, <1>4, Zenon DEF spisd_go_idle_handler
      <4>2. state = "UNINITIALISED"
        BY <3>2 DEF Awake
      <4>3. QED
        BY <4>1, <4>2, <3>2, <1>3, Zenon DEF Contract!Reset, Owed, Left
    <3>3. QED
      BY <3>1, <3>2, Zenon
  <2>3. Contract!Command
    BY <1>1, <1>2, <1>5, <2>2, Zenon DEF Contract!Command, Pending
  <2>4. QED
    BY <2>3, Zenon DEF Contract!Next
<1>6. CASE type # GO_IDLE_STATE
  <2>1. /\ state' = Awake /\ since' = Later
        /\ shift_out' = R1(0, IF type = SEND_OP_COND /\ Awake # "READY" THEN 1 ELSE 0)
    BY <1>6 DEF type
  <2>2. Contract!Other(type)
    BY <2>1, <1>3, <1>4, Zenon DEF Contract!Other, Owed, Left
  <2>3. Contract!Command
    BY <1>1, <1>6, <2>2, Zenon DEF Contract!Command, Pending
  <2>4. QED
    BY <2>3, Zenon DEF Contract!Next
<1>7. QED
  BY <1>5, <1>6

\* The last clock of a frame.
LEMMA FrameDone ==
  ASSUME NoTopBit, Inv, Drained, Clock, sent + 1 = FrameLength
  PROVE  Contract!Next
<1> USE Sizes
<1>1. /\ TypeOK /\ selected /\ sent' = sent + 1 /\ Sending /\ selected' = selected
      /\ spisd_spi_clock(Frame(cmd)[sent + 1]) /\ got' = got /\ reply' = reply
  <2>1. TypeOK /\ sent \in Nat
    BY DEF Inv, TypeOK
  <2>2. Sending
    BY <2>1 DEF Sending
  <2>3. QED
    BY <2>1, <2>2, Zenon DEF Clock
<1>2. /\ bit_count = sent /\ got = <<>> /\ sent \in Nat
      /\ \A i \in 1 .. sent : shift_in[FrameLength - sent + i] = Frame(cmd)[i]
  BY <1>1 DEF Inv, Tracking, TypeOK
<1>3. cmd \in Commands /\ state \in {"UNINITIALISED", "IDLE", "READY"}
  BY <1>1, TypeParts DEF CardData, HostData
<1>4. Shifted(Frame(cmd)[sent + 1]) = Frame(cmd)
  <2> DEFINE in == Frame(cmd)[sent + 1]
             s  == Append(Tail(shift_in), in)
  <2>1. Frame(cmd) \in Seq({0, 1}) /\ Len(Frame(cmd)) = FrameLength
    BY <1>3, FrameBits
  <2>2. in \in {0, 1}
    BY <1>2, <2>1
  <2>3. shift_in \in Seq({0, 1}) /\ Len(shift_in) = FrameLength /\ Len(shift_in) > 0
    BY <1>1, TypeParts DEF CardData
  <2> HIDE DEF in
  <2>4. /\ s \in Seq({0, 1}) /\ Len(s) = FrameLength /\ s[FrameLength] = in
        /\ \A i \in 1 .. FrameLength - 1 : s[i] = shift_in[i + 1]
    BY <2>2, <2>3, ShiftedBits
  <2> HIDE DEF s
  <2>5. ASSUME NEW i \in 1 .. FrameLength PROVE s[i] = Frame(cmd)[i]
    <3>1. CASE i = FrameLength
      BY <2>4, <3>1 DEF in
    <3>2. CASE i # FrameLength
      <4>1. i \in 1 .. FrameLength - 1 /\ i \in 1 .. sent /\ FrameLength - sent + i = i + 1
        BY <1>2, <3>2
      <4>2. s[i] = shift_in[i + 1] /\ shift_in[FrameLength - sent + i] = Frame(cmd)[i]
        BY <1>2, <2>4, <4>1
      <4>3. QED
        BY <4>1, <4>2
    <3>3. QED
      BY <3>1, <3>2
  <2>6. s = Frame(cmd)
    BY <2>1, <2>4, <2>5
  <2>7. QED
    BY <2>6 DEF s, in, Shifted
<1>5. ~Malformed(Frame(cmd)) /\ Good(Frame(cmd)) = cmd.good /\ Number(Frame(cmd)) = cmd.type
  <2>1. ~Malformed(Frame(cmd))
    BY <1>3, FrameBits DEF Malformed
  <2>2. cmd.good \in BOOLEAN /\ cmd.type \in Types
    BY <1>3 DEF Commands
  <2>3. Good(Frame(cmd)) = cmd.good
    <3>1. Frame(cmd)[FrameLength - 1] = IF cmd.good THEN 1 ELSE 0
      BY <1>3, FrameBits
    <3>2. CASE cmd.good = TRUE
      <4>1. Good(Frame(cmd)) = TRUE
        BY <3>1, <3>2 DEF Good
      <4>2. QED
        BY <3>2, <4>1, Zenon
    <3>3. CASE cmd.good = FALSE
      <4>1. Good(Frame(cmd)) = FALSE
        BY <3>1, <3>3 DEF Good
      <4>2. QED
        BY <3>3, <4>1, Zenon
    <3>4. QED
      BY <2>2, <3>2, <3>3, Zenon
  <2>4. Number(Frame(cmd)) = cmd.type
    BY <1>3, <2>2, NumberOfFrame DEF NoTopBit
  <2>5. QED
    BY <2>1, <2>3, <2>4
<1>6. Execute(Frame(cmd))
  <2>1. ~(bit_count + 1 < FrameLength)
    BY <1>2
  <2>2. QED
    BY <1>1, <1>4, <1>5, <2>1, Zenon DEF spisd_spi_clock
<1>7. Pushed = R1(0, 0)
  <2>1. \A i \in 1 .. 3 : shift_out[i] = 0
    BY <1>1, <1>2 DEF Drained, AnswerLength
  <2>2. Pushed \in Seq({0, 1}) /\ Len(Pushed) = 3 /\ \A i \in 1 .. 3 : Pushed[i] = 0
    BY <1>1, <2>1, OutputBits, PushedBits
  <2>3. R1(0, 0) \in Seq({0, 1}) /\ Len(R1(0, 0)) = 3 /\ \A i \in 1 .. 3 : R1(0, 0)[i] = 0
    BY DEF R1
  <2> HIDE DEF Sizes
  <2>4. QED
    BY <2>2, <2>3
<1>8. IF cmd.type = GO_IDLE_STATE THEN spisd_go_idle_handler(cmd.good)
      ELSE /\ state' = Awake /\ since' = Later
           /\ shift_out' = R1(0, IF cmd.type = SEND_OP_COND /\ Awake # "READY" THEN 1 ELSE 0)
  <2>1. CASE cmd.type = GO_IDLE_STATE
    BY <1>5, <1>6, <2>1, SizesAssumption, Zenon DEF Execute
  <2>2. CASE cmd.type = SEND_OP_COND
    <3>1. spisd_send_op_handler /\ cmd.type # GO_IDLE_STATE
      BY <1>5, <1>6, <2>2, SizesAssumption, Zenon DEF Execute
    <3>2. QED
      BY <3>1, <2>2 DEF spisd_send_op_handler, Busy
  <2>3. CASE cmd.type # GO_IDLE_STATE /\ cmd.type # SEND_OP_COND
    <3>1. state' = Awake /\ since' = Later /\ shift_out' = Pushed
      BY <1>5, <1>6, <2>3, Zenon DEF Execute
    <3>2. QED
      BY <3>1, <2>3, <1>7
  <2>4. QED
    BY <2>1, <2>2, <2>3
<1>9. ~Sending' /\ Pending' = <<>> /\ got' = <<>> /\ selected'
  BY <1>1, <1>2 DEF Sending, Pending
<1>10. shift_out' \in Seq({0, 1}) /\ Len(shift_out') = 3
  <2>1. TypeOK'
    BY ClockInv DEF Inv
  <2>2. QED
    BY <2>1 DEF TypeOK, Bits, AnswerLength
<1>11. Owed' = shift_out'
  <2>1. Owed' = got' \o Left'
    BY <1>9 DEF Owed
  <2>2. Left' = shift_out'
    <3>1. Left' = SubSeq(shift_out', 1, 3)
      BY <1>9 DEF Left, AnswerLength
    <3>2. QED
      BY <3>1, <1>10
  <2>3. QED
    BY <1>9, <1>10, <2>1, <2>2
<1>12. QED
  BY <1>1, <1>3, <1>8, <1>9, <1>11, AsCommand

LEMMA ClockMaps ==
  ASSUME NoTopBit, Inv, Drained, Clock
  PROVE  Contract!Next
<1> USE Sizes
<1>1. /\ TypeOK /\ TypeOK' /\ selected /\ selected' = selected /\ sent' = sent + 1
      /\ cmd' = cmd /\ reply' = reply /\ sent # FrameLength + AnswerLength
      /\ sent \in 0 .. FrameLength + AnswerLength
      /\ spisd_spi_clock(IF Sending THEN Frame(cmd)[sent + 1] ELSE 1)
      /\ got' = IF Sending THEN got ELSE Append(got, Out)
  BY ClockInv DEF Inv, Clock, Over, TypeOK
<1>2. CASE sent + 1 = FrameLength
  BY <1>2, FrameDone
<1>3. CASE sent + 1 < FrameLength
  <2>1. Sending /\ Sending' /\ bit_count = sent
    BY <1>1, <1>3 DEF Inv, Tracking, Sending
  <2>2. since' = Later /\ state' = state
    BY <1>1, <1>3, <2>1 DEF spisd_spi_clock
  <2>3. Pending' = Pending /\ Owed' = Owed
    BY <1>1, <2>1, Zenon DEF Pending, Owed
  <2>4. QED
    BY <1>1, <2>2, <2>3, AsTick
<1>4. CASE sent >= FrameLength
  <2>1. /\ ~Sending /\ ~Sending' /\ bit_count = sent - FrameLength
        /\ Len(got) = sent - FrameLength
    BY <1>1, <1>4 DEF Inv, Tracking, Sending
  <2>2. bit_count + 1 < FrameLength /\ Len(got) < AnswerLength
    BY <1>1, <1>4, <2>1
  <2>3. since' = Later /\ state' = state /\ shift_out' = Pushed
    BY <1>1, <2>2 DEF spisd_spi_clock
  <2>4. got' \o Left' = got \o Left
    BY <1>1, <2>1, <2>2, <2>3, ReadingKeepsOwed
  <2>5. Pending' = Pending /\ Owed' = Owed
    BY <1>1, <2>1, <2>4, Zenon DEF Pending, Owed
  <2>6. QED
    BY <1>1, <2>3, <2>5, AsTick
<1>5. QED
  BY <1>1, <1>2, <1>3, <1>4

LEMMA SelectMaps ==
  ASSUME Inv, Select
  PROVE  Contract!Next
<1>1. /\ ~selected /\ selected' /\ sent' = 0 /\ cmd' \in Commands
      /\ state' = state /\ since' = since /\ reply' = reply
  <2>1. TypeOK'
    BY SelectInv DEF Inv
  <2>2. QED
    BY <2>1 DEF Select, TypeOK
<1>2. Sending'
  BY <1>1, Sizes DEF Sending
<1>3. cmd'.type \in Types /\ cmd'.good \in BOOLEAN
  BY <1>1, Zenon DEF Commands
<1>4. Pending = <<>> /\ Owed = <<>> /\ Owed' = <<>> /\ Pending' = <<cmd'.type, cmd'.good>>
  BY <1>1, <1>2, Zenon DEF Pending, Owed
<1>5. QED
  BY <1>1, <1>3, <1>4, AsAsk

LEMMA DeselectMaps ==
  ASSUME Inv, Deselect
  PROVE  Contract!Next
<1>1. /\ selected /\ ~selected' /\ state' = state /\ since' = since
      /\ reply' = IF Over THEN got ELSE reply
      /\ TypeOK /\ Tracking
  BY DEF Deselect, Inv
<1>2. Pending' = <<>> /\ Owed' = <<>>
  BY <1>1, Zenon DEF Pending, Owed
<1>3. CASE ~Over
  BY <1>1, <1>2, <1>3, AsForget
<1>4. CASE Over
  <2>1. sent = FrameLength + 3 /\ ~Sending
    BY <1>4, Sizes DEF Over, Sending
  <2>2. got \in Seq({0, 1}) /\ Len(got) = 3
    BY <1>1, <2>1, Sizes DEF Tracking, TypeOK, Bits
  <2>3. Owed = got /\ got # <<>>
    <3>1. Owed = got \o Left
      BY <1>1, <2>1 DEF Owed
    <3>2. AnswerLength - Len(got) = 0
      BY <2>2, Sizes
    <3>3. Left = <<>>
      BY <1>1, <3>2, LeftBits
    <3>4. QED
      BY <2>2, <3>1, <3>3
  <2>4. Pending = <<>>
    BY <2>1 DEF Pending
  <2>5. QED
    BY <1>1, <1>2, <1>4, <2>3, <2>4, AsDeliver
<1>5. QED
  BY <1>3, <1>4

LEMMA ElsewhereMaps ==
  ASSUME Elsewhere
  PROVE  Contract!Next
<1>1. /\ ~selected /\ ~selected' /\ since' = Later /\ state' = state /\ reply' = reply
  BY DEF Elsewhere, host
<1>2. Pending' = Pending /\ Owed' = Owed
  BY <1>1, Zenon DEF Pending, Owed
<1>3. QED
  BY <1>1, <1>2, AsTick

LEMMA StepMaps ==
  NoTopBit /\ Inv /\ Drained /\ [Next]_vars => [Contract!Next]_Contract!vars
<1> SUFFICES ASSUME NoTopBit, Inv, Drained, [Next]_vars
             PROVE  [Contract!Next]_Contract!vars
  OBVIOUS
<1>1. CASE Select
  BY <1>1, SelectMaps, Zenon
<1>2. CASE Clock
  BY <1>2, ClockMaps, Zenon
<1>3. CASE Deselect
  BY <1>3, DeselectMaps, Zenon
<1>4. CASE Elsewhere
  BY <1>4, ElsewhereMaps, Zenon
<1>5. CASE UNCHANGED vars
  <2>1. UNCHANGED <<state, since, selected, cmd, sent, got, shift_out, reply>>
    BY <1>5 DEF vars, card, host
  <2>2. UNCHANGED Contract!vars
    BY <2>1 DEF Contract!vars, Sending
  <2>3. QED
    BY <2>2, Zenon
<1>6. QED
  BY <1>1, <1>2, <1>3, <1>4, <1>5, Zenon DEF Next, Step

LEMMA InitMaps == Init => Contract!Init
<1> SUFFICES ASSUME Init PROVE Contract!Init
  OBVIOUS
<1>1. state = "UNINITIALISED" /\ since = 0 /\ reply = <<>> /\ selected = FALSE
  BY DEF Init
<1>2. QED
  BY <1>1, Zenon DEF Contract!Init

\* Bit by bit, the card answers each command as SdContract says, for any number
\* of clocks required and any commands whose numbers the card can tell apart.
THEOREM CardKeepsContract ==
  ASSUME NoTopBit
  PROVE  Spec => KeepsContract
<1>1. Inv /\ Drained /\ [Next]_vars => [Contract!Next]_Contract!vars
  BY StepMaps, NoTopBit
<1>2. QED
  BY <1>1, InitMaps, DrainedInvariance, PTL DEF Spec, KeepsContract, Contract!Spec

=============================================================================
