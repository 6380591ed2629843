------------------------------ MODULE KbDriver ------------------------------
(***************************************************************************)
(* The commands dev/kb_driver.c sends to the keyboard.  The only command   *)
(* is the echo; programs queue it and flush the queue through the device   *)
(* directory, the keyboard answers each byte with an interrupt.  The order *)
(* of the queue is Queue's subject: here only its length counts.           *)
(***************************************************************************)
EXTENDS Integers

CONSTANTS
  MaxQueue,     \* bound: commands queued at once
  MaxResends    \* bound: requests to resend a keyboard makes in a row

\* KB_STATUS_*
IDLE     == 0
RESEND0  == 1
RESEND2  == 3
FAILED   == 4
IN_WORK0 == 5

ECHO   == "echo"
NOBYTE == "none"    \* send_byte = 0

VARIABLES
  kb_status, kb_last_byte, kb_status_before_resend,
  last_func,    \* TRUE once it is kb_echo_func, FALSE while NULL
  queued,       \* entries of keyboard_qu
  wire,         \* the byte the keyboard has received and not answered
  resends       \* history: bytes sent again since the command was sent

vars == <<kb_status, kb_last_byte, kb_status_before_resend, last_func, queued,
          wire, resends>>

Init ==
  /\ kb_status = IDLE
  /\ kb_last_byte = NOBYTE
  /\ kb_status_before_resend = IDLE
  /\ last_func = FALSE
  /\ queued = 0
  /\ wire = NOBYTE
  /\ resends = 0
----------------------------------------------------------------------------
\* kb_echo_func in status st: the status it leaves and the byte it returns.  At the
\* end of the command it assigns its parameter and not kb_status.
EchoStatus(st) == IF st = IDLE THEN IN_WORK0 ELSE st
EchoByte(st)   == IF st = IDLE THEN ECHO ELSE NOBYTE

\* A byte goes out unless the line is busy, which only the controller knows.
Send(byte) ==
  \/ byte # NOBYTE /\ kb_last_byte' = byte /\ wire' = byte
  \/ UNCHANGED kb_last_byte /\ wire' = NOBYTE

InResend(st) == st >= RESEND0 \/ st <= RESEND2

AnswerEcho ==
  /\ kb_status' = EchoStatus(kb_status)
  /\ Send(EchoByte(kb_status))
  /\ UNCHANGED <<kb_status_before_resend, resends>>

AnswerAck ==
  LET st == IF InResend(kb_status) THEN kb_status_before_resend ELSE kb_status
  IN  /\ kb_status' = EchoStatus(st)
      /\ Send(EchoByte(st))
      /\ UNCHANGED <<kb_status_before_resend, resends>>

AnswerResend ==
  /\ resends < MaxResends
  /\ \/ /\ InResend(kb_status)
        /\ kb_status' = (kb_status + 1) % 256
        /\ Send(kb_last_byte)
        /\ UNCHANGED kb_status_before_resend
     \/ /\ ~InResend(kb_status) /\ kb_status = FAILED
        /\ Send(EchoByte(kb_status))
        /\ UNCHANGED <<kb_status, kb_status_before_resend>>
     \/ /\ ~InResend(kb_status) /\ kb_status # FAILED
        /\ kb_status_before_resend' = kb_status
        /\ kb_status' = RESEND0
        /\ Send(kb_last_byte)
  /\ resends' = IF wire' = NOBYTE THEN resends ELSE resends + 1

\* The interrupt of an answer; the keyboard answers only a byte it was sent, and
\* then last_func is set.
keyboard_ih_low ==
  /\ wire # NOBYTE
  /\ AnswerEcho \/ AnswerAck \/ AnswerResend
  /\ UNCHANGED <<last_func, queued>>

IoctlEcho ==
  /\ queued < MaxQueue
  /\ queued' = queued + 1
  /\ UNCHANGED <<kb_status, kb_last_byte, kb_status_before_resend, last_func,
                 wire, resends>>

\* IOCTL_FLUSH and send_data, by a program that queued a command before and lets
\* the keyboard answer it.
IoctlFlush ==
  /\ queued > 0
  /\ wire = NOBYTE
  /\ queued' = queued - 1
  /\ last_func' = TRUE
  /\ kb_status' = EchoStatus(kb_status)
  /\ Send(EchoByte(kb_status))
  /\ resends' = 0
  /\ UNCHANGED kb_status_before_resend

Next == keyboard_ih_low \/ IoctlEcho \/ IoctlFlush

Spec == Init /\ [][Next]_vars
----------------------------------------------------------------------------
\* A command is sent again at most three times, whatever the keyboard asks
\* (kb_driver.h:16, kb_driver.c:71).
ThreeResends == resends <= 3
=============================================================================
