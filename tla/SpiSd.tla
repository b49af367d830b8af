------------------------------- MODULE SpiSd -------------------------------
(***************************************************************************)
(* The SD card behind the SPI master (src/src/devices/spisd.c), and a host *)
(* that drives its select line and its clock as spi.c does: a transfer is  *)
(* a selection, a command and as many further clocks as the answer has     *)
(* bits.  The host is either any program, which may give up a transfer at  *)
(* any bit, or the one of src/test/spi.tas.cpp.  The card also sees the    *)
(* clocks of other slaves.                                                 *)
(*                                                                         *)
(* A frame is 0, 1, the command's number, its checksum and 1; the argument *)
(* is left out since no command looks at it.  The checksum is one bit: the *)
(* one of GO_IDLE_STATE or not.  An R1 is the must-be-zero bit, crc_error  *)
(* and idle; the card sets none of its other flags.                        *)
(***************************************************************************)
EXTENDS Integers, Sequences

CONSTANTS Req,            \* RESET_CYCLE_REQ
          TypeBits,       \* bits of a command's number
          Types,          \* the numbers the host sends
          GO_IDLE_STATE, SEND_OP_COND, SET_BLOCKLEN

ASSUME SizesAssumption ==
  /\ Req \in Nat /\ TypeBits \in Nat \ {0}
  /\ Types \subseteq 0 .. 2 ^ TypeBits - 1
  /\ {GO_IDLE_STATE, SEND_OP_COND, SET_BLOCKLEN} \subseteq Types
  /\ GO_IDLE_STATE # SEND_OP_COND

R1(crc_error, idle) == <<0, crc_error, idle>>

FrameLength  == TypeBits + 4        \* 48
AnswerLength == 3                   \* 8 * spisd_rsp_R1_minbytes
TypeMask     == 2 ^ (TypeBits - 1)  \* 0x1f, one bit less than a number has

VARIABLES state, shift_in, shift_out, bit_count, since,   \* struct spisd_state
          broken,     \* a breakpoint() has ended the program
          scripted,   \* the host runs spi.tas.cpp, rather than anything
          todo,       \* the commands that program has still to send
          selected,   \* the select line, held during a transfer
          cmd,        \* the command of the transfer
          sent,       \* its clocks so far
          got,        \* the bits read after the frame
          reply       \* the last answer read in full

card == <<state, shift_in, shift_out, bit_count, since, broken>>
host == <<scripted, todo, selected, cmd, sent, got, reply>>
vars == <<card, host>>

Bit(n, i) == IF (n \div 2 ^ i) % 2 = 1 THEN 1 ELSE 0

Frame(c) == <<0, 1>> \o [i \in 1 .. TypeBits |-> Bit(c.type, TypeBits - i)]
              \o <<IF c.good THEN 1 ELSE 0, 1>>

Commands == [type : Types, good : BOOLEAN]

\* spi.tas.cpp resets the card, asks whether it is ready, and sets its block
\* length; all its commands carry the checksum of GO_IDLE_STATE.  It asks once:
\* whether or not the answer says idle, put_spisd returns after put_spi's wait,
\* to which line 49 jumps.
Program ==
  [i \in 1 .. 3 |-> [type |-> <<GO_IDLE_STATE, SEND_OP_COND, SET_BLOCKLEN>>[i], good |-> TRUE]]

Init ==
  /\ state = "UNINITIALISED" /\ bit_count = 0 /\ since = 0 /\ broken = FALSE
  /\ shift_in = [i \in 1 .. FrameLength |-> 0]
  /\ shift_out = [i \in 1 .. AnswerLength |-> 0]
  /\ scripted \in BOOLEAN /\ todo = IF scripted THEN Program ELSE <<>>
  /\ selected = FALSE /\ cmd = [type |-> GO_IDLE_STATE, good |-> TRUE]
  /\ sent = 0 /\ got = <<>> /\ reply = <<>>

-----------------------------------------------------------------------------
(* The card. *)

\* cycle_count - last_reset, as far as it matters.
Later == IF since > Req THEN since ELSE since + 1

Shifted(in) == Append(Tail(shift_in), in)

\* Mutant of Number: the wrong end of the number is left out.
NumberTop(frame) ==
  LET value[i \in 0 .. TypeBits] == IF i = 0 THEN 0 ELSE 2 * value[i - 1] + frame[2 + i]
  IN  value[TypeBits - 1]

\* The number's top bit is not looked at.
Number(frame) ==
  LET value[i \in 0 .. TypeBits] == IF i = 0 THEN 0 ELSE 2 * value[i - 1] + frame[2 + i]
  IN  value[TypeBits] % TypeMask

Good(frame) == frame[FrameLength - 1] = 1

Malformed(frame) == frame[1] = 1 \/ frame[2] = 0 \/ frame[FrameLength] = 0

\* Mutant of Awake: no clocks are required.
AwakeAtOnce == IF state = "IDLE" THEN "READY" ELSE state

\* spisd_cycle_handler, before the command's own handler.
Awake == IF state = "IDLE" /\ Later > Req THEN "READY" ELSE state

spisd_go_idle_handler(good) ==
  IF good \/ Awake # "UNINITIALISED"
  THEN state' = "IDLE" /\ since' = 0 /\ shift_out' = R1(0, 1)
  ELSE state' = "UNINITIALISED" /\ since' = Later /\ shift_out' = R1(1, 0)

Busy == IF Awake = "READY" THEN 0 ELSE 1

\* Mutant of spisd_send_op_handler: the answer is about the clock before.
SendOpBefore ==
  /\ state' = Awake /\ since' = Later
  /\ shift_out' = R1(0, IF state = "READY" THEN 0 ELSE 1)

\* Mutant of spisd_send_op_handler: to ask is to start again.
SendOpResets ==
  state' = Awake /\ since' = 0 /\ shift_out' = R1(0, Busy)

spisd_send_op_handler ==
  state' = Awake /\ since' = Later /\ shift_out' = R1(0, Busy)

Pushed == Append(Tail(shift_out), 0)

\* SET_BLOCKLEN has a handler that does nothing, the other numbers have none.
Execute(frame) ==
  CASE Number(frame) = GO_IDLE_STATE -> spisd_go_idle_handler(Good(frame))
    [] Number(frame) = SEND_OP_COND  -> spisd_send_op_handler
    [] OTHER -> state' = Awake /\ since' = Later /\ shift_out' = Pushed

\* Mutant of spisd_spi_clock: the count is left as it is after a command.
ClockCountsOn(in) ==
  /\ shift_in' = Shifted(in)
  /\ bit_count' = bit_count + 1
  /\ UNCHANGED broken
  /\ IF bit_count + 1 = FrameLength THEN Execute(Shifted(in))
     ELSE since' = Later /\ shift_out' = Pushed /\ UNCHANGED state

\* spisd_spi_clock while selected: a bit in and, before any command has been
\* looked at, a bit out.
spisd_spi_clock(in) ==
  /\ shift_in' = Shifted(in)
  /\ IF bit_count + 1 < FrameLength
     THEN /\ bit_count' = bit_count + 1
          /\ since' = Later /\ shift_out' = Pushed
          /\ UNCHANGED <<state, broken>>
     ELSE IF Malformed(Shifted(in))
     THEN broken' = TRUE /\ UNCHANGED <<state, since, shift_out, bit_count>>
     ELSE Execute(Shifted(in)) /\ bit_count' = 0 /\ UNCHANGED broken

Out == Head(shift_out)

\* Mutant of spisd_spi_select: a new selection goes on with the old count.
SelectResumes(ss) == bit_count' = bit_count

spisd_spi_select(ss) == bit_count' = IF ss THEN 0 ELSE bit_count

-----------------------------------------------------------------------------
(* The host. *)

Select ==
  /\ ~broken /\ ~selected
  /\ IF scripted THEN todo # <<>> /\ cmd' = Head(todo) /\ todo' = Tail(todo)
     ELSE cmd' \in Commands /\ UNCHANGED todo
  /\ selected' = TRUE /\ sent' = 0 /\ got' = <<>>
  /\ spisd_spi_select(TRUE)
  /\ UNCHANGED <<state, shift_in, shift_out, since, broken, scripted, reply>>

Sending == sent < FrameLength
Over    == sent = FrameLength + AnswerLength

\* The bits of the answer are read while ones are sent.
Clock ==
  /\ ~broken /\ selected /\ ~Over
  /\ spisd_spi_clock(IF Sending THEN Frame(cmd)[sent + 1] ELSE 1)
  /\ sent' = sent + 1
  /\ got' = IF Sending THEN got ELSE Append(got, Out)
  /\ UNCHANGED <<scripted, todo, selected, cmd, reply>>

Deselect ==
  /\ ~broken /\ selected /\ (Over \/ ~scripted)
  /\ selected' = FALSE /\ sent' = 0 /\ got' = <<>>
  /\ reply' = IF Over THEN got ELSE reply
  /\ spisd_spi_select(FALSE)
  /\ UNCHANGED <<state, shift_in, shift_out, since, broken, scripted, todo, cmd>>

\* A clock for another slave.
Elsewhere ==
  /\ ~broken /\ ~selected
  /\ since' = Later
  /\ UNCHANGED <<state, shift_in, shift_out, bit_count, broken, host>>

Step == Select \/ Clock \/ Deselect
Next == Step \/ Elsewhere

\* The host's program goes on; other slaves need not be used.
Spec == Init /\ [][Next]_vars /\ WF_vars(Step)

-----------------------------------------------------------------------------
(* Properties. *)

Bits == Seq({0, 1})

TypeOK ==
  /\ state \in {"UNINITIALISED", "IDLE", "READY"} /\ since \in 0 .. Req + 1
  /\ shift_in \in Bits /\ Len(shift_in) = FrameLength
  /\ shift_out \in Bits /\ Len(shift_out) = AnswerLength
  /\ bit_count \in 0 .. FrameLength - 1
  /\ broken \in BOOLEAN /\ scripted \in BOOLEAN /\ selected \in BOOLEAN
  /\ todo \in Seq(Commands)
  /\ cmd \in Commands /\ sent \in 0 .. FrameLength + AnswerLength
  /\ got \in Bits /\ Len(got) <= AnswerLength
  /\ reply \in Bits /\ Len(reply) <= AnswerLength

\* A host that starts each command with a selection never runs into one of
\* the card's checks of the fixed bits, though it gives commands up half way
\* and the bits it sends while it reads count as the beginning of another.
InStep == ~broken

\* The card is ready only when more clocks than required have passed since
\* its last reset.
ReadyLate == state = "READY" => since > Req

\* Bit by bit, the card does what SdContract says of whole commands: the
\* answer that the host reads is that of the command it sent, in the mode the
\* card then was in.  What is owed while the host reads is what it has read
\* and what is left in the output register.
Contract == INSTANCE SdContract WITH
  mode <- state,
  pending <- IF selected /\ Sending THEN <<cmd.type, cmd.good>> ELSE <<>>,
  owed <- IF selected /\ ~Sending
          THEN got \o SubSeq(shift_out, 1, AnswerLength - Len(got)) ELSE <<>>
KeepsContract == Contract!Spec

ToldReady == cmd.type = SEND_OP_COND /\ reply = R1(0, 0)

\* spi.tas.cpp is told that the card is ready, although it asks only once (line
\* 49 jumps into put_spi and not, as its comment says, to ask again): the
\* clocks of the answer to its reset and those of its question are more than
\* the card requires. With a card that requires more it would not hold.
PowersUp == scripted => <>ToldReady

\* A card that is asked again and again and not reset any more is ready in the
\* end, also for a host that gives up each transfer before the answer, and
\* even if it saw no clock but those of the questions.
GetsReady ==
  /\ []<>(cmd.type = SEND_OP_COND /\ selected /\ ~Sending)
  /\ <>[](cmd.type # GO_IDLE_STATE)
  => <>[](state # "IDLE")

=============================================================================
