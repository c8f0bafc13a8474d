------------------------------- MODULE SimL1 -------------------------------
(***************************************************************************)
(* l1Write and l1Read on the hardware, on the simulated transport, and a   *)
(* test that calls the latter itself.  On the simulator every call that L1 *)
(* makes is one of Sim, and L1 goes on as Sim's result says; another       *)
(* goroutine may enqueue frames between any two of them.                   *)
(***************************************************************************)
EXTENDS L1

CONSTANTS
  Modes, BufLens, MaxFrames  \* those of Sim

ASSUME SimL1Assumption ==
  /\ Modes \subseteq {"queued", "stateful"}
  /\ BufLens \subseteq Nat
  /\ MaxFrames \in Nat

VARIABLES
  mode, queue, inProgress, hasResponse, phase, out, enqueued, past, now, parts,
  setup,      \* who calls what: "hardware", "simulator" or "test"
  releasing   \* a Transfer failed, and its CSNHigh is next

S == INSTANCE Sim

simVars == <<mode, queue, inProgress, hasResponse, phase, out, enqueued, past, now, parts>>
systemVars == <<vars, simVars, setup, releasing>>

SystemInit ==
  /\ Init
  /\ S!Init
  /\ setup \in {"hardware", "simulator", "test"}
  /\ releasing = FALSE

CallL1 ==
  /\ ReadCall \/ \E r \in Requests : WriteCall(r)
  /\ UNCHANGED <<simVars, releasing>>

\* The steps of L1 between two calls of the transport; a Delay cannot fail.
Compute ==
  /\ Refill \/ Exhausted \/ Inspect \/ Delay
  /\ UNCHANGED <<simVars, releasing>>

\* A call of the transport that L1 makes, and where L1 goes from its result.
Calls(at, sim, succeeds, fails) ==
  /\ pc = at
  /\ ~releasing
  /\ sim
  /\ IF out'.err = "" THEN succeeds ELSE fails

Selects == Calls("csnLow", S!CSNLow, CSNLow, CSNLowFails) /\ UNCHANGED releasing
Releases == Calls("csnHigh", S!CSNHigh, CSNHigh, CSNHighFails) /\ UNCHANGED releasing

\* What L1 sees in the first bytes of its buffer.
AsChip(bytes) ==
  [ready |-> bytes[1] % 2 = 1, alarm |-> (bytes[1] \div 2) % 2 = 1, empty |-> bytes[2] = 255]

Transfers ==
  Calls("transfer", S!Transfer(2),
        Transfer /\ l2buf' = AsChip(out'.bytes) /\ UNCHANGED releasing,
        releasing' = TRUE /\ UNCHANGED vars)

\* A return that forgets the CSNHigh.
ReleasesNotAfterFailure ==
  /\ releasing
  /\ TransferFails
  /\ UNCHANGED <<csn, taken>>
  /\ releasing' = FALSE
  /\ UNCHANGED simVars

\* The CSNHigh after a failing Transfer, whose result is ignored.
ReleasesAfterFailure ==
  /\ releasing
  /\ S!CSNHigh
  /\ TransferFails
  /\ csn' = (IF inProgress' THEN "low" ELSE "high") /\ UNCHANGED taken
  /\ releasing' = FALSE

Enqueues == S!Enqueue /\ UNCHANGED <<vars, releasing>>

OnHardware ==
  /\ setup = "hardware"
  /\ Step
  /\ UNCHANGED <<simVars, releasing>>

OnSimulator ==
  /\ setup = "simulator"
  /\ Compute \/ Selects \/ Transfers \/ Releases \/ ReleasesAfterFailure

SystemNext ==
  /\ \/ setup # "test" /\ CallL1
     \/ OnHardware
     \/ OnSimulator
     \/ setup = "simulator" /\ Enqueues
     \/ setup = "test" /\ S!Next /\ UNCHANGED <<vars, releasing>>
  /\ UNCHANGED setup

SystemSpec == SystemInit /\ [][SystemNext]_systemVars

\* The functions of L1 run to their return on either transport.
FairSystemSpec == SystemSpec /\ WF_systemVars((OnHardware \/ OnSimulator) /\ UNCHANGED setup)

-----------------------------------------------------------------------------

\* Whatever fails, L1 never breaks the rules of the simulator, which answers
\* with an error when a selection is opened twice or a transfer is made outside
\* of one; all a test can run into is an empty queue.
NoMisuse == setup # "test" => out.err \in {"", "empty"}

\* The state of L1 and of the simulator keeps its type.
SystemTypeOK == TypeOK /\ S!TypeOK

\* What Sim promises of a selection, whether L1 or a test calls it.
SelectionsServed == S!OneFramePerSelection /\ S!ResponseInOneSelection
=============================================================================
