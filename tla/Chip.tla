-------------------------------- MODULE Chip --------------------------------
(***************************************************************************)
(* The link layer of TROPIC01 as the driver uses it: the chip is external  *)
(* to the repository, and everything here is read off how tropic01/l1.go   *)
(* and l2.go talk to it.  It has one output register: a request it takes   *)
(* replaces what was not read, frames are given out in order, and the last *)
(* frame given out is kept for RESEND.  The chip answers a request when it *)
(* takes it; how long an answer takes shows as polls that time out and as  *)
(* writes it never sees because it was not READY.                          *)
(***************************************************************************)
EXTENDS Sequences

CONSTANT Noise   \* what the line can do to a frame: "data", "status", "length"

ASSUME ChipAssumption == Noise \subseteq {"data", "status", "length"}

VARIABLES
  out,    \* frames to be read, the next one first
  kept    \* what the chip gives again when it is asked to RESEND

link == <<out, kept>>

\* The frame of a STATUS without payload.
StatusFrame(status) ==
  [status |-> status, len |-> 0, crcOK |-> TRUE, data |-> [id |-> "NONE"]]

GenErr == StatusFrame("GEN_ERR")

ChipInit ==
  /\ out = <<>>
  /\ kept = <<>>

\* What the host may receive when the chip sends f.
OnWire(f) ==
  {f}
  \union (IF "data" \in Noise THEN {[f EXCEPT !.data = [id |-> "DAMAGED"], !.crcOK = FALSE]}
          ELSE {})
  \union (IF "status" \in Noise
          THEN {[f EXCEPT !.status = s, !.crcOK = FALSE] :
                  s \in {"CRC_ERR", "GEN_ERR"}}
          ELSE {})
  \union (IF "length" \in Noise
          THEN {[f EXCEPT !.len = 255, !.crcOK = FALSE]} ELSE {})

\* The chip takes a request and answers with these frames, or has a general
\* error to report first and gives the answer when asked to RESEND.
Answers(frames) ==
  \/ out' = frames /\ UNCHANGED kept
  \/ out' = <<GenErr>> /\ kept' = frames

\* The chip has a general error and does nothing with the request.
Refuses ==
  /\ out' = <<GenErr>>
  /\ kept' = <<GenErr>>

\* The chip takes a frame that the line garbled.
TakesGarbled ==
  /\ out' = <<StatusFrame("CRC_ERR")>>
  /\ UNCHANGED kept

\* The chip gives the last frame again, before any that is still to come.
Resends ==
  /\ out' = IF kept = <<>> THEN <<GenErr>> ELSE kept \o out
  /\ UNCHANGED kept

\* The chip was not READY in any poll of the write: it is busy with an
\* earlier request, or starting up.
SeesNothing == UNCHANGED link

\* The chip gives out its next frame.
Gives ==
  /\ out # <<>>
  /\ out' = Tail(out)
  /\ kept' = IF Head(out) = GenErr THEN kept ELSE <<Head(out)>>

\* The chip loses power or restarts.
Resets ==
  /\ out' = <<>>
  /\ kept' = <<>>
=============================================================================
