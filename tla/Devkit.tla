------------------------------- MODULE Devkit -------------------------------
(***************************************************************************)
(* The example program, cmd/tropic01-example-usb-devkit: four commands,    *)
(* each a fixed sequence of calls of Device, run one after the other on    *)
(* the same chip.  A call returns nil when the chip has acted on it, or an *)
(* error, with or without that (CommandService says so of L3 commands).    *)
(* Init, Startup and the others may fail at any point, and the process may *)
(* be ended; what it leaves behind is the chip as it is: os.Exit runs no   *)
(* deferred Deinit, and nothing aborts the session after an error.         *)
(***************************************************************************)
EXTENDS Integers, Sequences

CONSTANTS
  Commands,  \* the commands that are run, of the names of Script
  MaxRuns    \* bound on the number of runs

ASSUME DevkitAssumption ==
  /\ Commands \subseteq {"hello_world", "identify_chip", "ecc_eddsa", "full_chain_verification"}
  /\ MaxRuns \in Nat

VARIABLES
  place,   \* "off", "calling", "done" or "error"
  command, \* what the process runs
  at,      \* number of its next call
  session, \* Device.session
  seen,    \* what the calls returned that is used or shown
  tropic,  \* the chip's mode, session and slot 0; a key is a number
  keys,    \* number of keys generated
  runs,    \* number of runs
  fault    \* a call of this run was disturbed

kitVars == <<place, command, at, session, seen, tropic, keys, runs, fault>>

\* The calls of each command.
runHelloWorld == <<"Reboot", "SessionStart", "Ping", "SessionAbort">>

runIdentifyChip ==
  <<"Reboot", "RiscvFWVer", "SpectFWVer", "MaintenanceReboot", "Bootloader",
    "FWBank", "FWBank", "FWBank", "FWBank", "ChipID">>

runECCEdDSA ==
  <<"Reboot", "SessionStart", "ECCKeyErase", "ECCKeyGenerate", "ECCKeyRead",
    "EdDSASign", "EdDSASign", "SessionAbort">>

runFullChainVerification == <<"Reboot", "GetInfoCertStore">>

Script ==
  [hello_world |-> runHelloWorld,
   identify_chip |-> runIdentifyChip,
   ecc_eddsa |-> runECCEdDSA,
   full_chain_verification |-> runFullChainVerification]

L3Commands == {"Ping", "ECCKeyErase", "ECCKeyGenerate", "ECCKeyRead", "EdDSASign"}

NothingSeen == [pubKey |-> 0, sigs |-> <<>>, versions |-> <<>>]

KitInit ==
  /\ place = "off" /\ command = "none" /\ at = 1
  /\ session = FALSE /\ seen = NothingSeen /\ fault = FALSE
  /\ tropic \in [mode : {"application", "maintenance"}, session : BOOLEAN, slot : {0, 1}]
  /\ keys = 1 /\ runs = 0

next == Script[command][at]

-----------------------------------------------------------------------------
\* The chip, external: why it refuses a call, and what becomes of it.

Refusal ==
  CASE next = "SessionStart" /\ tropic.mode = "maintenance" -> "ErrL2UnknownReq"
    [] next \in L3Commands /\ ~tropic.session -> "ErrL2NoSession"
    [] next \in {"ECCKeyErase", "ECCKeyRead", "EdDSASign"} /\ tropic.slot = 0 -> "ErrL3SlotEmpty"
    [] next = "ECCKeyGenerate" /\ tropic.slot # 0 -> "ErrL3SlotNotEmpty"
    [] next = "FWBank" /\ tropic.mode = "application" -> "ErrL2UnknownReq"
    [] OTHER -> "nil"

Acted ==
  CASE next = "Reboot" -> [tropic EXCEPT !.mode = "application", !.session = FALSE]
    [] next = "MaintenanceReboot" -> [tropic EXCEPT !.mode = "maintenance", !.session = FALSE]
    [] next = "SessionStart" -> [tropic EXCEPT !.session = TRUE]
    [] next = "SessionAbort" -> [tropic EXCEPT !.session = FALSE]
    [] next = "ECCKeyErase" -> [tropic EXCEPT !.slot = 0]
    [] next = "ECCKeyGenerate" -> [tropic EXCEPT !.slot = keys + 1]
    [] OTHER -> tropic

ChipActs ==
  /\ Refusal = "nil"
  /\ tropic' = Acted
  /\ keys' = IF next = "ECCKeyGenerate" THEN keys + 1 ELSE keys

-----------------------------------------------------------------------------
\* The program.

\* main creates a Device and initializes it.
Run(c) ==
  /\ place \in {"off", "done", "error"} /\ runs < MaxRuns
  /\ runs' = runs + 1
  /\ command' = c /\ at' = 1
  /\ session' = FALSE /\ seen' = NothingSeen
  /\ \/ place' = "calling" /\ fault' = FALSE
     \/ place' = "error" /\ fault' = TRUE
  /\ UNCHANGED <<tropic, keys>>

\* A program that stops at every error, and one that goes on after any in the slot.
IgnoredNever(err) == FALSE
IgnoredAnySlotError(err) == next \in {"ECCKeyErase", "ECCKeyGenerate", "ECCKeyRead", "FWBank"}

\* The errors that the program goes on after.
Ignored(err) ==
  \/ next = "ECCKeyErase" /\ err = "ErrL3SlotEmpty"
  \/ next = "FWBank"

\* What the program keeps or shows of an answer.
Kept ==
  CASE next = "ECCKeyRead" -> [seen EXCEPT !.pubKey = tropic.slot]
    [] next = "EdDSASign" -> [seen EXCEPT !.sigs = Append(@, tropic.slot)]
    [] next \in {"RiscvFWVer", "SpectFWVer", "Bootloader"} ->
         [seen EXCEPT !.versions = Append(@, [name |-> next, mode |-> tropic.mode])]
    [] OTHER -> seen

\* d.session after the call; SessionStart clears it first, SessionAbort at last.
SessionAfter(err) ==
  CASE next = "SessionStart" -> err = "nil"
    [] next = "SessionAbort" -> FALSE
    [] OTHER -> session

GoesOn ==
  /\ at' = at + 1
  /\ place' = IF at = Len(Script[command]) THEN "done" ELSE "calling"

\* After an error: main reports it and exits, or the command goes on.
After(err) ==
  /\ session' = SessionAfter(err)
  /\ IF Ignored(err) THEN GoesOn ELSE place' = "error" /\ UNCHANGED at

Succeed ==
  /\ place = "calling"
  /\ ChipActs
  /\ seen' = Kept
  /\ session' = SessionAfter("nil")
  /\ GoesOn
  /\ UNCHANGED <<command, runs, fault>>

Refused ==
  /\ place = "calling"
  /\ Refusal # "nil"
  /\ After(Refusal)
  /\ UNCHANGED <<command, seen, tropic, keys, runs, fault>>

\* The call is disturbed, before or after the chip has acted on it.
Disturbed ==
  /\ place = "calling"
  /\ fault' = TRUE
  /\ ChipActs \/ UNCHANGED <<tropic, keys>>
  /\ After("ErrL1SPI")
  /\ UNCHANGED <<command, seen, runs>>

\* The process is ended from outside.
Killed ==
  /\ place = "calling"
  /\ place' = "off" /\ session' = FALSE
  /\ UNCHANGED <<command, at, seen, tropic, keys, runs, fault>>

ChipRestarts ==
  /\ tropic' = [tropic EXCEPT !.mode = "application", !.session = FALSE]
  /\ tropic' # tropic
  /\ fault' = TRUE
  /\ UNCHANGED <<place, command, at, session, seen, keys, runs>>

Over == place # "calling" /\ runs = MaxRuns /\ UNCHANGED kitVars

KitNext ==
  \/ \E c \in Commands : Run(c)
  \/ Succeed \/ Refused \/ Disturbed \/ Killed \/ ChipRestarts \/ Over

KitSpec == KitInit /\ [][KitNext]_kitVars

-----------------------------------------------------------------------------

KitTypeOK ==
  /\ place \in {"off", "calling", "done", "error"}
  /\ command \in Commands \union {"none"}
  /\ place = "calling" => at \in DOMAIN Script[command]
  /\ session \in BOOLEAN /\ fault \in BOOLEAN
  /\ tropic \in [mode : {"application", "maintenance"}, session : BOOLEAN, slot : 0..keys]
  /\ runs \in 0..MaxRuns

\* A command reports an error only if one of its own calls was disturbed: the
\* mode, the session and the key that earlier commands left in the chip, whether
\* they came to their end, failed or were killed at any point, do not matter.
EarlierRunsDoNotMatter == place = "error" => fault

\* Signatures are checked against the key that made them, and a command that came
\* to its end has checked two.
SignaturesFitKey ==
  /\ \A k \in DOMAIN seen.sigs : seen.pubKey # 0 /\ seen.sigs[k] = seen.pubKey
  /\ place = "done" /\ command = "ecc_eddsa" => Len(seen.sigs) = 2

\* A version is shown under the name of the firmware that ran when it was read:
\* "Maintenance reboot to read bootloader version" (identify_chip.go:34).
VersionsFitMode ==
  ~fault =>
    \A k \in DOMAIN seen.versions :
      seen.versions[k].mode =
        IF seen.versions[k].name = "Bootloader" THEN "maintenance" ELSE "application"

\* What the commands show is true.
ReportsAreTrue == SignaturesFitKey /\ VersionsFitMode
=============================================================================
