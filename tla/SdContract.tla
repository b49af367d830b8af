----------------------------- MODULE SdContract -----------------------------
(***************************************************************************)
(* What the card of SpiSd.tla promises, command by command: its mode, how  *)
(* long ago it was reset, the command it is sent, the answer it owes and   *)
(* the answer last given.                                                  *)
(* Bits, frames and shift registers are SpiSd's matter.                    *)
(***************************************************************************)
EXTENDS Integers, Sequences

CONSTANTS Req,       \* RESET_CYCLE_REQ
          Types, GO_IDLE_STATE, SEND_OP_COND

VARIABLES mode,      \* "UNINITIALISED", "IDLE" or "READY"
          since,     \* clocks since the last reset, as far as Req + 1
          pending,   \* the command the host is sending, or <<>>
          owed,      \* the answer of the command in hand, or <<>>
          reply      \* the answer the host has read last, or <<>>

vars == <<mode, since, pending, owed, reply>>

R1(crc_error, idle) == <<0, crc_error, idle>>

Later(n) == IF n > Req THEN n ELSE n + 1

\* The card gets ready when a command finds it idle for long enough.
Awake == IF mode = "IDLE" /\ Later(since) > Req THEN "READY" ELSE mode

Init ==
  /\ mode = "UNINITIALISED" /\ since = 0
  /\ pending = <<>> /\ owed = <<>> /\ reply = <<>>

\* A clock that is not the last one of a command.
Tick == since' = Later(since) /\ UNCHANGED <<mode, pending, owed, reply>>

Ask ==
  /\ pending = <<>> /\ owed = <<>>
  /\ \E type \in Types, good \in BOOLEAN : pending' = <<type, good>>
  /\ UNCHANGED <<mode, since, owed, reply>>

\* The host gives up the command or its answer.
Forget == pending' = <<>> /\ owed' = <<>> /\ UNCHANGED <<mode, since, reply>>

\* Only the first reset of the card needs a checksum.
Reset(good) ==
  IF good \/ Awake # "UNINITIALISED"
  THEN mode' = "IDLE" /\ since' = 0 /\ owed' = R1(0, 1)
  ELSE UNCHANGED mode /\ since' = Later(since) /\ owed' = R1(1, 0)

\* Other commands change nothing and are all answered alike.
Other(type) ==
  /\ mode' = Awake /\ since' = Later(since)
  /\ owed' = R1(0, IF type = SEND_OP_COND /\ Awake # "READY" THEN 1 ELSE 0)

Command ==
  /\ pending # <<>>
  /\ IF pending[1] = GO_IDLE_STATE THEN Reset(pending[2]) ELSE Other(pending[1])
  /\ pending' = <<>> /\ UNCHANGED reply

Deliver ==
  owed # <<>> /\ reply' = owed /\ owed' = <<>> /\ UNCHANGED <<mode, since, pending>>

Next == Tick \/ Ask \/ Forget \/ Command \/ Deliver

Spec == Init /\ [][Next]_vars
=============================================================================
