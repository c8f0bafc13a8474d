-------------------------------- MODULE Sim --------------------------------
(***************************************************************************)
(* The simulated transport of the tests, tropic01/hal/sim/sim.go, in both  *)
(* modes.  Its calls hold a mutex, so each is one step, and calls of the   *)
(* test that fills the queue come between those of the driver.  Of what a  *)
(* Transfer leaves in a buffer only the first two bytes matter here.       *)
(***************************************************************************)
EXTENDS Naturals, Sequences, FiniteSets, SequencesExt

CONSTANTS
  Modes,      \* the modes to model, of "queued" and "stateful"
  BufLens,    \* lengths of the buffers handed to Transfer, 2 for any longer one
  MaxFrames   \* bound of the model: frames enqueued

VARIABLES
  mode,        \* Sim.mode
  queue,       \* Sim.queue: frames, numbered as they were enqueued
  inProgress,  \* Sim.inProgress
  hasResponse, \* stateful.hasResponse
  phase,       \* stateful.phase
  out,         \* what the last call returned, and left in the first bytes of buf
  enqueued,    \* history: frames enqueued so far
  past,        \* history: frames served in earlier selections
  now,         \* history: frames served in this selection
  parts        \* history: parts of a response served in this selection, in order

vars == <<mode, queue, inProgress, hasResponse, phase, out, enqueued, past, now, parts>>

READY == 1
RESULT_OK == 2

\* The first bytes of a frame, as far as the driver tells them apart: the chip
\* status is READY, ALARM (2) or neither, STATUS is RESULT_OK or 0xFF.
Responses == {0, READY, 2} \X {RESULT_OK, 255}
Bytes == (0..2) \X {0, RESULT_OK, 255}

\* Bytes are bytes, frames have their numbers and selections their parts.
TypeOK ==
  /\ mode \in Modes
  /\ queue \in Seq([no : 1..MaxFrames, bytes : Bytes])
  /\ inProgress \in BOOLEAN
  /\ hasResponse \in BOOLEAN
  /\ phase \in 0..3
  /\ out \in [err : {"", "protocol", "empty", "short", "phase"}, bytes : Bytes]
  /\ enqueued \in 0..MaxFrames
  /\ past \subseteq 1..MaxFrames
  /\ now \subseteq 1..MaxFrames
  /\ parts \in Seq({"poll", "header", "data"})

\* NewQueued, NewStateful.
Init ==
  /\ mode \in Modes
  /\ queue = <<>>
  /\ inProgress = FALSE
  /\ hasResponse = FALSE
  /\ phase = 0
  /\ out = [err |-> "", bytes |-> <<0, 0>>]
  /\ enqueued = 0
  /\ past = {} /\ now = {} /\ parts = <<>>

Fails(e) ==
  /\ out' = [err |-> e, bytes |-> <<0, 0>>]
  /\ UNCHANGED <<mode, queue, inProgress, hasResponse, phase, enqueued, past, now, parts>>

EnqueueResponse(bytes) ==
  /\ enqueued < MaxFrames
  /\ enqueued' = enqueued + 1
  /\ queue' = Append(queue, [no |-> enqueued', bytes |-> bytes])
  /\ UNCHANGED <<mode, inProgress, hasResponse, phase, out, past, now, parts>>

CSNLow ==
  \/ inProgress /\ Fails("protocol")
  \/ /\ ~inProgress
     /\ inProgress' = TRUE
     /\ phase' = IF mode = "stateful" THEN 0 ELSE phase
     /\ out' = [err |-> "", bytes |-> <<0, 0>>]
     /\ past' = past \union now /\ now' = {} /\ parts' = <<>>
     /\ UNCHANGED <<mode, queue, hasResponse, enqueued>>

\* A CSNHigh that leaves the queue alone.
CSNHighKeeping ==
  \/ ~inProgress /\ Fails("protocol")
  \/ /\ inProgress
     /\ inProgress' = FALSE
     /\ out' = [err |-> "", bytes |-> <<0, 0>>]
     /\ UNCHANGED <<mode, queue, hasResponse, phase, enqueued, past, now, parts>>

\* The head of the queue goes, whether it was served or not.
CSNHigh ==
  \/ ~inProgress /\ Fails("protocol")
  \/ /\ inProgress
     /\ inProgress' = FALSE
     /\ queue' = IF queue = <<>> THEN <<>> ELSE Tail(queue)
     /\ out' = [err |-> "", bytes |-> <<0, 0>>]
     /\ UNCHANGED <<mode, hasResponse, phase, enqueued, past, now, parts>>

TransferQueued ==
  \/ queue = <<>> /\ Fails("empty")
  \/ /\ queue # <<>>
     /\ out' = [err |-> "", bytes |-> Head(queue).bytes]
     /\ now' = now \union {Head(queue).no}
     /\ UNCHANGED <<mode, queue, inProgress, hasResponse, phase, enqueued, past, parts>>

\* The first Transfer is taken for the request, whatever it carries.
Absorb ==
  /\ ~hasResponse
  /\ hasResponse' = TRUE
  /\ out' = [err |-> "", bytes |-> <<0, 0>>]
  /\ UNCHANGED <<mode, queue, inProgress, phase, enqueued, past, now, parts>>

\* A part of the response, RESULT_OK without data; the bytes of the CRC at the
\* end stand for any.
Part(name, bytes) ==
  /\ out' = [err |-> "", bytes |-> bytes]
  /\ phase' = phase + 1
  /\ parts' = Append(parts, name)
  /\ hasResponse' = (name # "data")
  /\ UNCHANGED <<mode, queue, inProgress, enqueued, past, now>>

transferStateful(n) ==
  \/ Absorb
  \/ hasResponse /\ phase = 0 /\ n < 1 /\ Fails("short")
  \/ hasResponse /\ phase = 0 /\ n >= 1 /\ Part("poll", <<READY, 0>>)
  \/ hasResponse /\ phase = 1 /\ n < 2 /\ Fails("short")
  \/ hasResponse /\ phase = 1 /\ n >= 2 /\ Part("header", <<RESULT_OK, 0>>)
  \/ hasResponse /\ phase = 2 /\ \E crc \in {<<0, 0>>, <<1, 255>>} : Part("data", crc)
  \/ hasResponse /\ phase = 3 /\ Fails("phase")

Transfer(n) ==
  \/ ~inProgress /\ Fails("protocol")
  \/ inProgress /\ mode = "stateful" /\ transferStateful(n)
  \/ inProgress /\ mode = "queued" /\ TransferQueued

Enqueue == \E bytes \in Responses : EnqueueResponse(bytes)

Next ==
  \/ Enqueue
  \/ CSNLow
  \/ CSNHigh
  \/ \E n \in BufLens : Transfer(n)

Spec == Init /\ [][Next]_vars

-----------------------------------------------------------------------------

\* Each selection serves one frame, however often it transfers and whatever is
\* enqueued meanwhile, and the frames come in the order of the queue: a test that
\* enqueues one frame for each selection gets each of them where it belongs.
OneFramePerSelection ==
  /\ Cardinality(now) <= 1
  /\ \A earlier \in past, later \in now : earlier < later

\* The parts of a stateful response are served in order and in one selection; a
\* read that was given up starts over, and no request is absorbed before the
\* response was read to its end.
ResponseInOneSelection ==
  mode = "stateful" /\ inProgress =>
    /\ IsPrefix(parts, <<"poll", "header", "data">>)
    /\ parts # <<>> /\ Len(parts) < 3 => hasResponse
=============================================================================
