---------------------------- MODULE ExampleProofs ----------------------------
(***************************************************************************)
(* Proofs about the example program.  For any number of runs of any of its *)
(* commands: what one run leaves in the chip never makes a later one fail, *)
(* and what the commands report is true; the invariant says what the chip  *)
(* is like when a call is made that depends on it, and a call gets it from *)
(* the call before, whatever command they belong to.  For every store: it  *)
(* is split at places inside of it; where it is laid out as the comments   *)
(* say, both readers see the same certificates and the same key, since the *)
(* search for it finds the first BIT STRING with a content.  Reading and   *)
(* splitting a store takes a bounded number of steps.                      *)
(***************************************************************************)
EXTENDS MCExample, SequenceTheorems, Induction, TLAPS

\* The four commands.

CommandNames == {"hello_world", "identify_chip", "ecc_eddsa", "full_chain_verification"}

ChipModes == {"application", "maintenance"}
Shown == [name : {"RiscvFWVer", "SpectFWVer", "Bootloader"}, mode : ChipModes]

\* KitTypeOK, with the types of what it leaves open.
KitTypeInv ==
  /\ KitTypeOK
  /\ place # "off" => command \in Commands
  /\ keys \in Nat
  /\ seen \in [pubKey : Nat, sigs : Seq(Nat), versions : Seq(Shown)]

\* Undisturbed, the chip is as the next call needs it.
ChipFits ==
  place = "calling" /\ ~fault =>
    /\ next \in {"SessionStart", "RiscvFWVer", "SpectFWVer", "MaintenanceReboot"} => tropic.mode = "application"
    /\ next \in {"Bootloader", "FWBank"} => tropic.mode = "maintenance"
    /\ next \in L3Commands => tropic.session
    /\ next = "ECCKeyGenerate" => tropic.slot = 0
    /\ next \in {"ECCKeyRead", "EdDSASign"} => tropic.slot # 0

\* The key that was read stays in the slot while it signs, and the two
\* signatures are made one after the other.
KeyInv ==
  /\ \A k \in DOMAIN seen.sigs : seen.pubKey # 0 /\ seen.sigs[k] = seen.pubKey
  /\ command = "ecc_eddsa" =>
       /\ place = "calling" => Len(seen.sigs) = IF at <= 6 THEN 0 ELSE at - 6
       /\ place = "calling" /\ at >= 6 => seen.pubKey = tropic.slot /\ seen.pubKey # 0
       /\ place = "done" => Len(seen.sigs) = 2

-----------------------------------------------------------------------------
\* The scripts.

LEMMA Scripts ==
  /\ Script["hello_world"] = runHelloWorld
  /\ Script["identify_chip"] = runIdentifyChip
  /\ Script["ecc_eddsa"] = runECCEdDSA
  /\ Script["full_chain_verification"] = runFullChainVerification
BY DEF Script

\* The calls that a call may come after.
Follows ==
  {<<"Reboot", "SessionStart">>, <<"SessionStart", "Ping">>, <<"Ping", "SessionAbort">>,
   <<"Reboot", "RiscvFWVer">>, <<"RiscvFWVer", "SpectFWVer">>, <<"SpectFWVer", "MaintenanceReboot">>,
   <<"MaintenanceReboot", "Bootloader">>, <<"Bootloader", "FWBank">>, <<"FWBank", "FWBank">>,
   <<"FWBank", "ChipID">>, <<"SessionStart", "ECCKeyErase">>, <<"ECCKeyErase", "ECCKeyGenerate">>,
   <<"ECCKeyGenerate", "ECCKeyRead">>, <<"ECCKeyRead", "EdDSASign">>, <<"EdDSASign", "EdDSASign">>,
   <<"EdDSASign", "SessionAbort">>, <<"Reboot", "GetInfoCertStore">>}

LEMMA Succession ==
  ASSUME NEW c \in CommandNames, NEW j \in DOMAIN Script[c]
  PROVE  /\ j \in Nat /\ j >= 1 /\ Len(Script[c]) \in Nat /\ j <= Len(Script[c])
         /\ Script[c][1] = "Reboot"
         /\ j # Len(Script[c]) => /\ j + 1 \in DOMAIN Script[c]
                                  /\ <<Script[c][j], Script[c][j + 1]>> \in Follows
<1>1. CASE c = "hello_world"
  BY <1>1, Scripts DEF runHelloWorld, Follows
<1>2. CASE c = "identify_chip"
  BY <1>2, Scripts DEF runIdentifyChip, Follows
<1>3. CASE c = "ecc_eddsa"
  BY <1>3, Scripts DEF runECCEdDSA, Follows
<1>4. CASE c = "full_chain_verification"
  BY <1>4, Scripts DEF runFullChainVerification, Follows
<1> QED
  BY <1>1, <1>2, <1>3, <1>4 DEF CommandNames

-----------------------------------------------------------------------------
\* The effects of the calls.

Chips == [mode : ChipModes, session : BOOLEAN, slot : Nat]

LEMMA ActedIs ==
  ASSUME tropic \in Chips, keys \in Nat
  PROVE  /\ Acted \in Chips
         /\ next = "Reboot" => Acted.mode = "application"
         /\ next = "MaintenanceReboot" => Acted.mode = "maintenance"
         /\ next \notin {"Reboot", "MaintenanceReboot"} => Acted.mode = tropic.mode
         /\ next = "SessionStart" => Acted.session
         /\ next \notin {"Reboot", "MaintenanceReboot", "SessionAbort"} /\ tropic.session => Acted.session
         /\ Acted.slot = IF next = "ECCKeyErase" THEN 0
                         ELSE IF next = "ECCKeyGenerate" THEN keys + 1 ELSE tropic.slot
<1> DEFINE n == next
<1>n. n = next
  OBVIOUS
<1> HIDE DEF n
<1>1. CASE n = "Reboot"
  BY <1>n, <1>1 DEF Acted, Chips, ChipModes
<1>2. CASE n = "MaintenanceReboot"
  BY <1>n, <1>2 DEF Acted, Chips, ChipModes
<1>3. CASE n = "SessionStart"
  BY <1>n, <1>3 DEF Acted, Chips, ChipModes
<1>4. CASE n = "SessionAbort"
  BY <1>n, <1>4 DEF Acted, Chips, ChipModes
<1>5. CASE n = "ECCKeyErase"
  BY <1>n, <1>5 DEF Acted, Chips, ChipModes
<1>6. CASE n = "ECCKeyGenerate"
  BY <1>n, <1>6 DEF Acted, Chips, ChipModes
<1>7. CASE n \notin {"Reboot", "MaintenanceReboot", "SessionStart", "SessionAbort", "ECCKeyErase", "ECCKeyGenerate"}
  <2>1. Acted = tropic
    BY <1>n, <1>7 DEF Acted
  <2> QED
    BY <1>n, <1>7, <2>1
<1> QED
  BY <1>1, <1>2, <1>3, <1>4, <1>5, <1>6, <1>7

LEMMA KeptIs ==
  ASSUME tropic \in Chips, seen \in [pubKey : Nat, sigs : Seq(Nat), versions : Seq(Shown)]
  PROVE  /\ Kept \in [pubKey : Nat, sigs : Seq(Nat), versions : Seq(Shown)]
         /\ Kept.pubKey = IF next = "ECCKeyRead" THEN tropic.slot ELSE seen.pubKey
         /\ Kept.sigs = IF next = "EdDSASign" THEN Append(seen.sigs, tropic.slot) ELSE seen.sigs
         /\ Kept.versions = IF next \in {"RiscvFWVer", "SpectFWVer", "Bootloader"}
                            THEN Append(seen.versions, [name |-> next, mode |-> tropic.mode])
                            ELSE seen.versions
<1> DEFINE n == next
<1>n. n = next
  OBVIOUS
<1>s. tropic.slot \in Nat /\ seen.pubKey \in Nat /\ seen.sigs \in Seq(Nat) /\ seen.versions \in Seq(Shown)
  BY DEF Chips
<1> HIDE DEF n
<1>1. CASE n = "ECCKeyRead"
  <2>1. Kept = [seen EXCEPT !.pubKey = tropic.slot]
    BY <1>n, <1>1 DEF Kept
  <2> QED
    BY <1>n, <1>s, <1>1, <2>1
<1>2. CASE n = "EdDSASign"
  <2> DEFINE sigs == Append(seen.sigs, tropic.slot)
  <2>1. Kept = [seen EXCEPT !.sigs = sigs]
    BY <1>n, <1>2 DEF Kept
  <2>2. sigs \in Seq(Nat)
    BY <1>s
  <2>3. sigs = Append(seen.sigs, tropic.slot)
    OBVIOUS
  <2> HIDE DEF sigs
  <2> QED
    BY <1>n, <1>s, <1>2, <2>1, <2>2, <2>3
<1>3. CASE n \in {"RiscvFWVer", "SpectFWVer", "Bootloader"}
  <2> DEFINE v == [name |-> n, mode |-> tropic.mode]
             versions == Append(seen.versions, v)
  <2>1. Kept = [seen EXCEPT !.versions = versions]
    BY <1>n, <1>3 DEF Kept
  <2>2. v \in Shown
    BY <1>3 DEF Shown, Chips
  <2>3. v = [name |-> next, mode |-> tropic.mode]
    BY <1>n
  <2> HIDE DEF v
  <2>4. versions \in Seq(Shown)
    BY <1>s, <2>2
  <2>5. versions = Append(seen.versions, [name |-> next, mode |-> tropic.mode])
    BY <2>3
  <2> HIDE DEF versions
  <2> QED
    BY <1>n, <1>s, <1>3, <2>1, <2>4, <2>5
<1>4. CASE n \notin {"ECCKeyRead", "EdDSASign", "RiscvFWVer", "SpectFWVer", "Bootloader"}
  <2>1. Kept = seen
    BY <1>n, <1>4 DEF Kept
  <2> QED
    BY <1>n, <1>4, <2>1
<1> QED
  BY <1>1, <1>2, <1>3, <1>4

LEMMA SessionAfterType ==
  ASSUME NEW err, session \in BOOLEAN
  PROVE  SessionAfter(err) \in BOOLEAN
<1>1. CASE next = "SessionStart"
  BY <1>1 DEF SessionAfter
<1>2. CASE next = "SessionAbort"
  BY <1>2 DEF SessionAfter
<1>3. CASE next \notin {"SessionStart", "SessionAbort"}
  BY <1>3 DEF SessionAfter
<1> QED
  BY <1>1, <1>2, <1>3

\* The parts of the types.
Seen == [pubKey : Nat, sigs : Seq(Nat), versions : Seq(Shown)]

LEMMA Types ==
  ASSUME KitTypeInv
  PROVE  /\ place \in {"off", "calling", "done", "error"}
         /\ command \in Commands \union {"none"} /\ (place # "off" => command \in Commands)
         /\ Commands \subseteq CommandNames
         /\ place = "calling" => at \in DOMAIN Script[command]
         /\ session \in BOOLEAN /\ fault \in BOOLEAN
         /\ tropic \in Chips /\ tropic.slot \in 0..keys
         /\ keys \in Nat /\ runs \in 0..MaxRuns /\ MaxRuns \in Nat /\ seen \in Seen
<1>1. tropic \in [mode : ChipModes, session : BOOLEAN, slot : 0..keys] /\ keys \in Nat
  BY DEF KitTypeInv, KitTypeOK, ChipModes
<1>2. tropic \in Chips /\ tropic.slot \in 0..keys
  BY <1>1 DEF Chips
<1> QED
  BY <1>1, <1>2, DevkitAssumption DEF KitTypeInv, KitTypeOK, Seen, CommandNames

\* Where a command that goes on gets to.
LEMMA GoesOnTo ==
  ASSUME KitTypeInv, place = "calling", GoesOn, UNCHANGED command
  PROVE  /\ at \in Nat /\ at >= 1 /\ at' = at + 1
         /\ \/ place' = "done" /\ at = Len(Script[command])
            \/ /\ place' = "calling" /\ at' \in DOMAIN Script[command']
               /\ <<next, next'>> \in Follows
<1>1. command \in CommandNames /\ at \in DOMAIN Script[command]
  BY Types
<1>2. /\ at' = at + 1
      /\ place' = IF at = Len(Script[command]) THEN "done" ELSE "calling"
  BY DEF GoesOn
<1>3. next = Script[command][at] /\ next' = Script[command][at']
  BY DEF next
<1>4. at \in Nat /\ at >= 1
  BY <1>1, Succession
<1>5. at # Len(Script[command]) =>
        at + 1 \in DOMAIN Script[command] /\ <<Script[command][at], Script[command][at + 1]>> \in Follows
  BY <1>1, Succession
<1> QED
  BY <1>2, <1>3, <1>4, <1>5

\* An error is one of the last.
LEMMA AfterTo ==
  ASSUME KitTypeInv, place = "calling", NEW err, After(err), UNCHANGED command
  PROVE  /\ session' \in BOOLEAN
         /\ \/ Ignored(err) /\ GoesOn
            \/ ~Ignored(err) /\ place' = "error" /\ at' = at
BY Types, SessionAfterType DEF After

LEMMA TypeInit == KitInit => KitTypeInv
<1> SUFFICES ASSUME KitInit PROVE KitTypeInv
  OBVIOUS
<1>1. /\ place = "off" /\ command = "none" /\ session = FALSE /\ fault = FALSE
      /\ keys = 1 /\ runs = 0 /\ seen = NothingSeen
  BY DEF KitInit
<1>2. tropic \in [mode : ChipModes, session : BOOLEAN, slot : 0..keys]
  <2>1. tropic \in [mode : ChipModes, session : BOOLEAN, slot : {0, 1}] /\ {0, 1} \subseteq 0..1
    BY DEF KitInit, ChipModes
  <2> QED
    BY <1>1, <2>1
<1>3. NothingSeen \in Seen
  BY DEF NothingSeen, Seen
<1>4. runs \in 0..MaxRuns /\ keys \in Nat
  BY <1>1, DevkitAssumption
<1>5. KitTypeOK
  BY <1>1, <1>2, <1>4 DEF KitTypeOK, ChipModes
<1> QED
  BY <1>1, <1>3, <1>4, <1>5 DEF KitTypeInv, Seen

LEMMA TypeStep ==
  ASSUME KitTypeInv, [KitNext]_kitVars
  PROVE  KitTypeInv'
<1>t. /\ place \in {"off", "calling", "done", "error"}
      /\ command \in Commands \union {"none"} /\ (place # "off" => command \in Commands)
      /\ place = "calling" => at \in DOMAIN Script[command]
      /\ session \in BOOLEAN /\ fault \in BOOLEAN
      /\ tropic \in Chips /\ tropic.slot \in 0..keys
      /\ keys \in Nat /\ runs \in 0..MaxRuns /\ MaxRuns \in Nat /\ seen \in Seen
  BY Types
<1>s. ASSUME place' \in {"off", "calling", "done", "error"},
             command' \in Commands \union {"none"}, place' # "off" => command' \in Commands,
             place' = "calling" => at' \in DOMAIN Script[command'],
             session' \in BOOLEAN, fault' \in BOOLEAN,
             tropic' \in Chips, tropic'.slot \in 0..keys',
             keys' \in Nat, runs' \in 0..MaxRuns, seen' \in Seen
      PROVE  KitTypeInv'
  <2>1. tropic' \in [mode : ChipModes, session : BOOLEAN, slot : 0..keys']
    BY <1>s DEF Chips
  <2> QED
    BY <1>s, <2>1 DEF KitTypeInv, KitTypeOK, Seen, ChipModes
<1>c. ASSUME ChipActs
      PROVE  tropic' \in Chips /\ keys' \in Nat /\ tropic'.slot \in 0..keys'
  <2>1. tropic' = Acted /\ keys' = IF next = "ECCKeyGenerate" THEN keys + 1 ELSE keys
    BY <1>c DEF ChipActs
  <2>2. keys' \in Nat
    BY <1>t, <2>1
  <2>3. tropic' \in Chips /\ tropic'.slot = IF next = "ECCKeyErase" THEN 0
                                          ELSE IF next = "ECCKeyGenerate" THEN keys + 1 ELSE tropic.slot
    BY <1>t, <2>1, ActedIs
  <2>4. tropic'.slot \in 0..keys'
    BY <1>t, <2>1, <2>3
  <2> QED
    BY <2>2, <2>3, <2>4
<1>g. ASSUME place = "calling", GoesOn, UNCHANGED command
      PROVE  place' \in {"done", "calling"} /\ (place' = "calling" => at' \in DOMAIN Script[command'])
  BY <1>g, GoesOnTo
<1>1. ASSUME NEW c \in Commands, Run(c) PROVE KitTypeInv'
  <2>1. /\ place' \in {"calling", "error"} /\ command' = c /\ at' = 1
        /\ session' = FALSE /\ seen' = NothingSeen /\ fault' \in BOOLEAN
        /\ runs' = runs + 1 /\ runs < MaxRuns /\ UNCHANGED <<tropic, keys>>
    BY <1>1 DEF Run
  <2>2. NothingSeen \in Seen
    BY DEF NothingSeen, Seen
  <2>3. 1 \in DOMAIN Script[c]
    BY Types DEF CommandNames, Script, runHelloWorld, runIdentifyChip, runECCEdDSA, runFullChainVerification
  <2>4. runs' \in 0..MaxRuns
    BY <1>t, <2>1
  <2> QED
    BY <1>s, <1>t, <2>1, <2>2, <2>3, <2>4
<1>2. CASE Succeed
  <2>1. /\ place = "calling" /\ ChipActs /\ seen' = Kept /\ session' = SessionAfter("nil") /\ GoesOn
        /\ UNCHANGED <<command, runs, fault>>
    BY <1>2 DEF Succeed
  <2>2. seen' \in Seen /\ session' \in BOOLEAN
    BY <1>t, <2>1, KeptIs, SessionAfterType DEF Seen
  <2> QED
    BY <1>s, <1>t, <1>c, <1>g, <2>1, <2>2
<1>3. CASE Refused
  <2>1. place = "calling" /\ After(Refusal) /\ UNCHANGED <<command, seen, tropic, keys, runs, fault>>
    BY <1>3 DEF Refused
  <2>2. session' \in BOOLEAN /\ (GoesOn \/ place' = "error")
    BY <2>1, AfterTo
  <2> QED
    BY <1>s, <1>t, <1>g, <2>1, <2>2
<1>4. CASE Disturbed
  <2>1. /\ place = "calling" /\ After("ErrL1SPI") /\ fault' = TRUE /\ UNCHANGED <<command, seen, runs>>
        /\ ChipActs \/ UNCHANGED <<tropic, keys>>
    BY <1>4 DEF Disturbed
  <2>2. session' \in BOOLEAN /\ (GoesOn \/ place' = "error")
    BY <2>1, AfterTo
  <2>3. tropic' \in Chips /\ keys' \in Nat /\ tropic'.slot \in 0..keys'
    BY <1>t, <1>c, <2>1
  <2> QED
    BY <1>s, <1>t, <1>g, <2>1, <2>2, <2>3
<1>5. CASE Killed
  <2>1. place' = "off" /\ session' = FALSE /\ UNCHANGED <<command, at, seen, tropic, keys, runs, fault>>
    BY <1>5 DEF Killed
  <2> QED
    BY <1>s, <1>t, <2>1
<1>6. CASE ChipRestarts
  <2>1. /\ tropic' = [tropic EXCEPT !.mode = "application", !.session = FALSE] /\ fault' = TRUE
        /\ UNCHANGED <<place, command, at, session, seen, keys, runs>>
    BY <1>6 DEF ChipRestarts
  <2>2. tropic' \in Chips /\ tropic'.slot = tropic.slot
    BY <1>t, <2>1 DEF Chips, ChipModes
  <2> QED
    BY <1>s, <1>t, <2>1, <2>2
<1>7. CASE UNCHANGED kitVars
  BY <1>7 DEF kitVars, KitTypeInv, KitTypeOK
<1> QED
  BY <1>1, <1>2, <1>3, <1>4, <1>5, <1>6, <1>7 DEF KitNext, Over

-----------------------------------------------------------------------------
\* The chip is as the next call needs it.

\* What a call leaves is what the calls after it need.
LEMMA FitsNext ==
  ASSUME KitTypeInv, <<next, next'>> \in Follows,
         tropic' \in Chips,
         next = "Reboot" => tropic'.mode = "application",
         next = "MaintenanceReboot" => tropic'.mode = "maintenance",
         next \notin {"Reboot", "MaintenanceReboot"} => tropic'.mode = tropic.mode,
         next = "SessionStart" => tropic'.session,
         next \notin {"Reboot", "MaintenanceReboot", "SessionAbort"} /\ tropic.session => tropic'.session,
         next = "ECCKeyErase" => tropic'.slot = 0,
         next = "ECCKeyGenerate" => tropic'.slot # 0,
         next \notin {"ECCKeyErase", "ECCKeyGenerate"} => tropic'.slot = tropic.slot,
         place = "calling", ~fault, ChipFits
  PROVE  /\ next' \in {"SessionStart", "RiscvFWVer", "SpectFWVer", "MaintenanceReboot"} => tropic'.mode = "application"
         /\ next' \in {"Bootloader", "FWBank"} => tropic'.mode = "maintenance"
         /\ next' \in L3Commands => tropic'.session
         /\ next' = "ECCKeyGenerate" => tropic'.slot = 0
         /\ next' \in {"ECCKeyRead", "EdDSASign"} => tropic'.slot # 0
<1> DEFINE n == next
           m == next'
<1>d. n = next /\ m = next' /\ <<n, m>> \in Follows
  OBVIOUS
<1> HIDE DEF n, m
<1>1. m \in {"SessionStart", "RiscvFWVer", "SpectFWVer", "MaintenanceReboot"} =>
        n = "Reboot" \/ n \in {"RiscvFWVer", "SpectFWVer"}
  BY <1>d DEF Follows
<1>2. m \in {"Bootloader", "FWBank"} => n \in {"MaintenanceReboot", "Bootloader", "FWBank"}
  BY <1>d DEF Follows
<1>3. m \in L3Commands => n = "SessionStart" \/ n \in L3Commands
  BY <1>d DEF Follows, L3Commands
<1>4. m = "ECCKeyGenerate" => n = "ECCKeyErase"
  BY <1>d DEF Follows
<1>5. m \in {"ECCKeyRead", "EdDSASign"} => n \in {"ECCKeyGenerate", "ECCKeyRead", "EdDSASign"}
  BY <1>d DEF Follows
<1>6. m \in {"SessionStart", "RiscvFWVer", "SpectFWVer", "MaintenanceReboot"} => tropic'.mode = "application"
  BY <1>d, <1>1 DEF ChipFits
<1>7. m \in {"Bootloader", "FWBank"} => tropic'.mode = "maintenance"
  BY <1>d, <1>2 DEF ChipFits
<1>8. m \in L3Commands => tropic'.session
  BY <1>d, <1>3, Zenon DEF ChipFits, L3Commands
<1>9. m = "ECCKeyGenerate" => tropic'.slot = 0
  BY <1>d, <1>4
<1>10. m \in {"ECCKeyRead", "EdDSASign"} => tropic'.slot # 0
  BY <1>d, <1>5 DEF ChipFits
<1> QED
  BY <1>d, <1>6, <1>7, <1>8, <1>9, <1>10

\* Undisturbed, a chip that fits refuses one call only, the erasing of an empty slot.
LEMMA RefusesEraseOnly ==
  ASSUME KitTypeInv, ChipFits, place = "calling", ~fault, Refusal # "nil"
  PROVE  next = "ECCKeyErase" /\ tropic.slot = 0 /\ Refusal = "ErrL3SlotEmpty"
<1>1. ~(next = "SessionStart" /\ tropic.mode = "maintenance")
  BY DEF ChipFits
<1>2. ~(next \in L3Commands /\ ~tropic.session)
  BY DEF ChipFits
<1>3. ~(next = "ECCKeyGenerate" /\ tropic.slot # 0)
  BY DEF ChipFits
<1>4. ~(next = "FWBank" /\ tropic.mode = "application")
  BY DEF ChipFits
<1>5. next \in {"ECCKeyErase", "ECCKeyRead", "EdDSASign"} /\ tropic.slot = 0
  BY <1>1, <1>2, <1>3, <1>4, Zenon DEF Refusal
<1>6. next = "ECCKeyErase"
  BY <1>5 DEF ChipFits
<1> QED
  BY <1>1, <1>2, <1>5, <1>6 DEF Refusal

\* The invariant holds where a command starts.
LEMMA FirstCall ==
  ASSUME NEW c \in CommandNames
  PROVE  Script[c][1] = "Reboot"
BY Scripts DEF CommandNames, runHelloWorld, runIdentifyChip, runECCEdDSA, runFullChainVerification

LEMMA FitsStep ==
  ASSUME KitTypeInv, ChipFits, [KitNext]_kitVars
  PROVE  ChipFits'
<1>t. tropic \in Chips /\ tropic.slot \in 0..keys /\ keys \in Nat /\ Commands \subseteq CommandNames
  BY Types
<1>1. ASSUME NEW c \in Commands, Run(c) PROVE ChipFits'
  <2>1. command' = c /\ at' = 1
    BY <1>1 DEF Run
  <2>2. next' = "Reboot"
    BY <1>t, <2>1, FirstCall DEF next
  <2> QED
    BY <2>2 DEF ChipFits, L3Commands
<1>2. CASE Succeed
  <2>1. place = "calling" /\ ChipActs /\ GoesOn /\ UNCHANGED <<command, fault>>
    BY <1>2 DEF Succeed
  <2>2. tropic' = Acted
    BY <2>1 DEF ChipActs
  <2>3. SUFFICES ASSUME place' = "calling", ~fault' PROVE ChipFits'
    BY DEF ChipFits
  <2>4. <<next, next'>> \in Follows
    BY <2>1, <2>3, GoesOnTo
  <2>5. keys + 1 # 0
    BY <1>t
  <2>6. /\ tropic' \in Chips
        /\ next = "Reboot" => tropic'.mode = "application"
        /\ next = "MaintenanceReboot" => tropic'.mode = "maintenance"
        /\ next \notin {"Reboot", "MaintenanceReboot"} => tropic'.mode = tropic.mode
        /\ next = "SessionStart" => tropic'.session
        /\ next \notin {"Reboot", "MaintenanceReboot", "SessionAbort"} /\ tropic.session => tropic'.session
    BY <1>t, <2>2, ActedIs
  <2>7. /\ next = "ECCKeyErase" => tropic'.slot = 0
        /\ next = "ECCKeyGenerate" => tropic'.slot # 0
        /\ next \notin {"ECCKeyErase", "ECCKeyGenerate"} => tropic'.slot = tropic.slot
    BY <1>t, <2>2, <2>5, ActedIs
  <2>8. ~fault
    BY <2>1, <2>3
  <2> QED
    BY <2>1, <2>4, <2>6, <2>7, <2>8, FitsNext DEF ChipFits
<1>3. CASE Refused
  <2>1. /\ place = "calling" /\ Refusal # "nil" /\ After(Refusal)
        /\ UNCHANGED <<command, tropic, fault>>
    BY <1>3 DEF Refused
  <2>2. SUFFICES ASSUME place' = "calling", ~fault' PROVE ChipFits'
    BY DEF ChipFits
  <2>3. ~fault
    BY <2>1, <2>2
  <2>4. next = "ECCKeyErase" /\ tropic.slot = 0
    BY <2>1, <2>3, RefusesEraseOnly
  <2>5. GoesOn
    BY <2>1, <2>2, AfterTo
  <2>6. <<next, next'>> \in Follows
    BY <2>1, <2>2, <2>5, GoesOnTo
  <2>7. tropic' = tropic
    BY <2>1
  <2> QED
    BY <1>t, <2>1, <2>3, <2>4, <2>6, <2>7, FitsNext DEF ChipFits
<1>4. CASE Disturbed \/ ChipRestarts
  <2>1. fault' = TRUE
    BY <1>4 DEF Disturbed, ChipRestarts
  <2> QED
    BY <2>1 DEF ChipFits
<1>5. CASE Killed
  <2>1. place' = "off"
    BY <1>5 DEF Killed
  <2> QED
    BY <2>1 DEF ChipFits
<1>6. CASE UNCHANGED kitVars
  BY <1>6 DEF kitVars, ChipFits, next
<1> QED
  BY <1>1, <1>2, <1>3, <1>4, <1>5, <1>6 DEF KitNext, Over

-----------------------------------------------------------------------------
\* Earlier runs do not matter.

LEMMA ErrorStep ==
  ASSUME KitTypeInv, ChipFits, EarlierRunsDoNotMatter, [KitNext]_kitVars
  PROVE  EarlierRunsDoNotMatter'
<1>1. ASSUME NEW c \in Commands, Run(c) PROVE EarlierRunsDoNotMatter'
  BY <1>1 DEF Run, EarlierRunsDoNotMatter
<1>2. CASE Succeed
  <2>1. place' # "error"
    BY <1>2, GoesOnTo DEF Succeed
  <2> QED
    BY <2>1 DEF EarlierRunsDoNotMatter
<1>3. CASE Refused
  <2>1. /\ place = "calling" /\ Refusal # "nil" /\ After(Refusal)
        /\ UNCHANGED <<command, tropic, fault>>
    BY <1>3 DEF Refused
  <2>2. ASSUME ~fault PROVE place' # "error"
    <3>1. next = "ECCKeyErase" /\ Refusal = "ErrL3SlotEmpty"
      BY <2>1, <2>2, RefusesEraseOnly
    <3>2. Ignored(Refusal)
      BY <3>1 DEF Ignored
    <3> QED
      BY <2>1, <3>2, AfterTo, GoesOnTo
  <2> QED
    BY <2>1, <2>2 DEF EarlierRunsDoNotMatter
<1>4. CASE Disturbed \/ ChipRestarts
  <2>1. fault' = TRUE
    BY <1>4 DEF Disturbed, ChipRestarts
  <2> QED
    BY <2>1 DEF EarlierRunsDoNotMatter
<1>5. CASE Killed
  BY <1>5 DEF Killed, EarlierRunsDoNotMatter
<1>6. CASE UNCHANGED kitVars
  BY <1>6 DEF kitVars, EarlierRunsDoNotMatter
<1> QED
  BY <1>1, <1>2, <1>3, <1>4, <1>5, <1>6 DEF KitNext, Over

\* No run of a command reports an error unless one of its own calls was disturbed,
\* whatever earlier runs left in the chip, for any number of runs.
THEOREM NothingLeftMatters == KitSpec => []EarlierRunsDoNotMatter
<1>1. KitInit => KitTypeInv /\ ChipFits /\ EarlierRunsDoNotMatter
  <2>1. KitInit => place = "off"
    BY DEF KitInit
  <2> QED
    BY <2>1, TypeInit DEF ChipFits, EarlierRunsDoNotMatter
<1>2. KitTypeInv /\ ChipFits /\ EarlierRunsDoNotMatter /\ [KitNext]_kitVars =>
        (KitTypeInv /\ ChipFits /\ EarlierRunsDoNotMatter)'
  BY TypeStep, FitsStep, ErrorStep
<1> QED
  BY <1>1, <1>2, PTL DEF KitSpec

-----------------------------------------------------------------------------
\* What the commands show is true.

LEMMA AppendIs ==
  ASSUME NEW S, NEW s \in Seq(S), NEW e \in S
  PROVE  \A k \in DOMAIN Append(s, e) : Append(s, e)[k] = e \/ (k \in DOMAIN s /\ Append(s, e)[k] = s[k])
<1> DEFINE t == Append(s, e)
<1>1. DOMAIN t = 1..(Len(s) + 1) /\ DOMAIN s = 1..Len(s) /\ Len(s) \in Nat
  OBVIOUS
<1>2. t[Len(s) + 1] = e /\ \A k \in 1..Len(s) : t[k] = s[k]
  BY AppendProperties
<1> SUFFICES ASSUME NEW k \in DOMAIN t
             PROVE  t[k] = e \/ (k \in DOMAIN s /\ t[k] = s[k])
  OBVIOUS
<1> HIDE DEF t
<1>3. CASE k = Len(s) + 1
  BY <1>2, <1>3
<1>4. CASE k \in 1..Len(s)
  BY <1>1, <1>2, <1>4
<1> QED
  BY <1>1, <1>3, <1>4

\* A version is read in the mode in which that firmware runs.
LEMMA VersionsStep ==
  ASSUME KitTypeInv, ChipFits, VersionsFitMode, [KitNext]_kitVars
  PROVE  VersionsFitMode'
<1>t. tropic \in Chips /\ seen \in Seen
  BY Types
<1>v. seen.versions \in Seq(Shown)
  BY <1>t DEF Seen
<1>1. ASSUME NEW c \in Commands, Run(c) PROVE VersionsFitMode'
  <2>1. seen' = NothingSeen
    BY <1>1 DEF Run
  <2>2. DOMAIN NothingSeen.versions = {}
    BY DEF NothingSeen
  <2> QED
    BY <2>1, <2>2 DEF VersionsFitMode
<1>2. CASE Succeed
  <2>1. place = "calling" /\ seen' = Kept /\ UNCHANGED fault
    BY <1>2 DEF Succeed
  <2>2. SUFFICES ASSUME ~fault PROVE VersionsFitMode'
    BY <2>1 DEF VersionsFitMode
  <2>3. CASE next \in {"RiscvFWVer", "SpectFWVer", "Bootloader"}
    <3> DEFINE v == [name |-> next, mode |-> tropic.mode]
    <3>1. Kept.versions = Append(seen.versions, v)
      BY <1>t, <2>3, KeptIs DEF Seen
    <3>2. v.name = next /\ v.mode = tropic.mode /\ v \in Shown
      BY <1>t, <2>3 DEF Shown, Chips
    <3>3. v.mode = IF v.name = "Bootloader" THEN "maintenance" ELSE "application"
      BY <2>1, <2>2, <2>3, <3>2 DEF ChipFits
    <3> HIDE DEF v
    <3>4. \A k \in DOMAIN Kept.versions :
            \/ Kept.versions[k] = v
            \/ k \in DOMAIN seen.versions /\ Kept.versions[k] = seen.versions[k]
      BY <1>v, <3>1, <3>2, AppendIs
    <3> QED
      BY <2>1, <2>2, <3>3, <3>4 DEF VersionsFitMode
  <2>4. CASE next \notin {"RiscvFWVer", "SpectFWVer", "Bootloader"}
    <3>1. seen'.versions = seen.versions
      BY <1>t, <2>1, <2>4, KeptIs DEF Seen
    <3> QED
      BY <2>1, <2>2, <3>1 DEF VersionsFitMode
  <2> QED
    BY <2>3, <2>4
<1>3. CASE Refused \/ Killed
  BY <1>3 DEF Refused, Killed, VersionsFitMode
<1>4. CASE Disturbed \/ ChipRestarts
  <2>1. fault' = TRUE
    BY <1>4 DEF Disturbed, ChipRestarts
  <2> QED
    BY <2>1 DEF VersionsFitMode
<1>5. CASE UNCHANGED kitVars
  BY <1>5 DEF kitVars, VersionsFitMode
<1> QED
  BY <1>1, <1>2, <1>3, <1>4, <1>5 DEF KitNext, Over

\* Where runECCEdDSA is, by the number of its next call.
LEMMA CallsOfECCEdDSA ==
  ASSUME command = "ecc_eddsa", at \in DOMAIN Script[command]
  PROVE  /\ at \in 1..8 /\ Len(Script[command]) = 8
         /\ next = "ECCKeyRead" <=> at = 5
         /\ next = "EdDSASign" <=> at \in {6, 7}
         /\ next = "ECCKeyErase" <=> at = 3
         /\ next = "ECCKeyGenerate" <=> at = 4
         /\ next # "FWBank"
<1>1. Script[command] = runECCEdDSA
  BY Scripts
<1>2. next = runECCEdDSA[at] /\ at \in DOMAIN runECCEdDSA
  BY <1>1 DEF next
<1>3. at \in 1..8 /\ Len(runECCEdDSA) = 8
  BY <1>2 DEF runECCEdDSA
<1> QED
  BY <1>1, <1>2, <1>3 DEF runECCEdDSA

\* The others read no key and sign nothing.
LEMMA CallsOfOthers ==
  ASSUME command \in CommandNames, command # "ecc_eddsa", at \in DOMAIN Script[command]
  PROVE  next \notin {"ECCKeyRead", "EdDSASign"}
<1>1. CASE command = "hello_world"
  BY <1>1, Scripts DEF next, runHelloWorld
<1>2. CASE command = "identify_chip"
  BY <1>2, Scripts DEF next, runIdentifyChip
<1>3. CASE command = "full_chain_verification"
  BY <1>3, Scripts DEF next, runFullChainVerification
<1> QED
  BY <1>1, <1>2, <1>3 DEF CommandNames

\* The errors after which it goes on are those of the erasing.
LEMMA GoesOnAfterErase ==
  ASSUME KitTypeInv, command = "ecc_eddsa", place = "calling", NEW err, Ignored(err)
  PROVE  at = 3
<1>1. at \in DOMAIN Script[command]
  BY Types
<1> QED
  BY <1>1, CallsOfECCEdDSA DEF Ignored

LEMMA KeyStep ==
  ASSUME KitTypeInv, KeyInv, [KitNext]_kitVars
  PROVE  KeyInv'
<1>t. /\ tropic \in Chips /\ keys \in Nat /\ seen \in Seen /\ Commands \subseteq CommandNames
      /\ place = "calling" => at \in DOMAIN Script[command]
  BY Types
<1>s. seen.sigs \in Seq(Nat) /\ Len(seen.sigs) \in Nat /\ DOMAIN seen.sigs = 1..Len(seen.sigs)
      /\ tropic.slot \in Nat /\ seen.pubKey \in Nat
  BY <1>t DEF Seen, Chips
<1>1. ASSUME NEW c \in Commands, Run(c) PROVE KeyInv'
  <2>1. seen' = NothingSeen /\ at' = 1 /\ place' \in {"calling", "error"}
    BY <1>1 DEF Run
  <2>2. NothingSeen.sigs = <<>>
    BY DEF NothingSeen
  <2> QED
    BY <2>1, <2>2 DEF KeyInv
<1>2. CASE Succeed
  <2>1. place = "calling" /\ ChipActs /\ seen' = Kept /\ GoesOn /\ UNCHANGED command
    BY <1>2 DEF Succeed
  <2>2. /\ seen'.pubKey = IF next = "ECCKeyRead" THEN tropic.slot ELSE seen.pubKey
        /\ seen'.sigs = IF next = "EdDSASign" THEN Append(seen.sigs, tropic.slot) ELSE seen.sigs
    BY <1>t, <2>1, KeptIs DEF Seen
  <2>3. tropic'.slot = IF next = "ECCKeyErase" THEN 0
                      ELSE IF next = "ECCKeyGenerate" THEN keys + 1 ELSE tropic.slot
    BY <1>t, <2>1, ActedIs DEF ChipActs
  <2>4. at' = at + 1 /\ ((place' = "done" /\ at = Len(Script[command])) \/ place' = "calling")
    BY <2>1, GoesOnTo
  <2>5. CASE command = "ecc_eddsa"
    <3>1. /\ at \in 1..8 /\ Len(Script[command]) = 8
          /\ next = "ECCKeyRead" <=> at = 5
          /\ next = "EdDSASign" <=> at \in {6, 7}
          /\ next = "ECCKeyErase" <=> at = 3
          /\ next = "ECCKeyGenerate" <=> at = 4
      BY <1>t, <2>1, <2>5, CallsOfECCEdDSA
    <3>2. /\ Len(seen.sigs) = IF at <= 6 THEN 0 ELSE at - 6
          /\ at >= 6 => seen.pubKey = tropic.slot /\ seen.pubKey # 0
      BY <2>1, <2>5 DEF KeyInv
    <3>3. CASE at \in {6, 7}
      <4>1. /\ seen'.sigs = Append(seen.sigs, tropic.slot) /\ seen'.pubKey = seen.pubKey
            /\ tropic'.slot = tropic.slot
        BY <2>2, <2>3, <3>1, <3>3
      <4>2. Len(seen'.sigs) = Len(seen.sigs) + 1
        BY <1>s, <4>1
      <4>3. \A k \in DOMAIN seen'.sigs : seen'.sigs[k] = seen'.pubKey
        BY <1>s, <3>2, <3>3, <4>1 DEF KeyInv
      <4>4. at' # 8 + 1 /\ place' = "calling" /\ at' > 6 /\ Len(seen'.sigs) = at' - 6
        BY <2>4, <3>1, <3>2, <3>3, <4>2
      <4> QED
        BY <2>4, <3>2, <3>3, <4>1, <4>3, <4>4 DEF KeyInv
    <3>4. CASE at \notin {6, 7}
      <4>1. seen'.sigs = seen.sigs
        BY <2>2, <3>1, <3>4
      <4>2. at <= 5 => DOMAIN seen'.sigs = {} /\ Len(seen'.sigs) = 0
        BY <1>s, <3>1, <3>2, <4>1
      <4>3. CASE at < 5
        <5>1. at' <= 6 /\ ~(at' >= 6) /\ place' = "calling" /\ at <= 5
          BY <2>4, <3>1, <4>3
        <5>2. DOMAIN seen'.sigs = {} /\ Len(seen'.sigs) = 0
          BY <4>2, <5>1
        <5> QED
          BY <5>1, <5>2 DEF KeyInv
      <4>4. CASE at = 5
        <5>1. seen'.pubKey = tropic.slot /\ tropic'.slot = tropic.slot
          BY <2>2, <2>3, <3>1, <4>4
        <5>2. tropic.slot # 0
          <6>1. next = "ECCKeyRead" /\ Refusal = "nil"
            BY <2>1, <3>1, <4>4 DEF ChipActs
          <6>2. ASSUME tropic.slot = 0 PROVE Refusal # "nil"
            <7>1. next # "SessionStart" /\ next # "ECCKeyGenerate" /\ next # "FWBank" /\ next = "ECCKeyRead"
              BY <6>1
            <7>2. CASE next \in L3Commands /\ ~tropic.session
              BY <7>1, <7>2, <6>2 DEF Refusal
            <7>3. CASE ~(next \in L3Commands /\ ~tropic.session)
              BY <7>1, <7>3, <6>2 DEF Refusal
            <7> QED
              BY <7>2, <7>3
          <6> QED
            BY <6>1, <6>2
        <5>3. at' = 6 /\ place' = "calling"
          BY <2>4, <3>1, <4>4
        <5> QED
          BY <4>2, <4>4, <5>1, <5>2, <5>3 DEF KeyInv
      <4>5. CASE at = 8
        <5>1. place' = "done" \/ place' = "calling"
          BY <2>4
        <5>2. seen'.pubKey = seen.pubKey /\ Len(seen.sigs) = 2
          BY <2>2, <3>1, <3>2, <4>5
        <5>3. place' = "done"
          BY <2>1, <2>4, <3>1, <4>5 DEF GoesOn
        <5> QED
          BY <4>1, <5>2, <5>3 DEF KeyInv
      <4> QED
        BY <3>1, <3>4, <4>3, <4>4, <4>5
    <3> QED
      BY <3>3, <3>4
  <2>6. CASE command # "ecc_eddsa"
    <3>1. next \notin {"ECCKeyRead", "EdDSASign"}
      BY <1>t, <2>1, <2>6, Types, CallsOfOthers
    <3>2. seen'.sigs = seen.sigs /\ seen'.pubKey = seen.pubKey
      BY <2>2, <3>1
    <3> QED
      BY <2>1, <2>6, <3>2 DEF KeyInv
  <2> QED
    BY <2>5, <2>6
<1>3. ASSUME UNCHANGED <<command, seen>>, place = "calling",
             \/ place' = "error"
             \/ GoesOn /\ (command = "ecc_eddsa" => at = 3)
      PROVE  KeyInv'
  <2>1. CASE place' = "error"
    BY <1>3, <2>1 DEF KeyInv
  <2>2. CASE GoesOn /\ command = "ecc_eddsa" /\ at = 3
    <3>1. Len(Script[command]) = 8
      BY <1>t, <1>3, <2>2, CallsOfECCEdDSA
    <3>2. at' = 4 /\ place' = "calling"
      BY <2>2, <3>1 DEF GoesOn
    <3>3. Len(seen.sigs) = 0
      BY <1>3, <2>2 DEF KeyInv
    <3> QED
      BY <1>3, <2>2, <3>2, <3>3 DEF KeyInv
  <2>3. CASE command # "ecc_eddsa"
    BY <1>3, <2>3 DEF KeyInv
  <2> QED
    BY <1>3, <2>1, <2>2, <2>3
<1>4. CASE Refused
  BY <1>3, <1>4, AfterTo, GoesOnAfterErase DEF Refused
<1>5. CASE Disturbed
  BY <1>3, <1>5, AfterTo, GoesOnAfterErase DEF Disturbed
<1>6. CASE Killed
  BY <1>6 DEF Killed, KeyInv
<1>7. CASE ChipRestarts
  <2>1. tropic' = [tropic EXCEPT !.mode = "application", !.session = FALSE] /\ UNCHANGED <<place, command, at, seen>>
    BY <1>7 DEF ChipRestarts
  <2>2. tropic'.slot = tropic.slot
    BY <1>t, <2>1 DEF Chips
  <2> QED
    BY <2>1, <2>2 DEF KeyInv
<1>8. CASE UNCHANGED kitVars
  BY <1>8 DEF kitVars, KeyInv
<1> QED
  BY <1>1, <1>2, <1>4, <1>5, <1>6, <1>7, <1>8 DEF KitNext, Over

\* Signatures are checked against the key that made them, two of them where the
\* command came to its end, and versions are shown under their own names.
THEOREM ReportsTrue == KitSpec => []ReportsAreTrue
<1> DEFINE Inv == KitTypeInv /\ ChipFits /\ KeyInv /\ VersionsFitMode
<1>1. KitInit => Inv
  <2>1. KitInit => place = "off" /\ command = "none" /\ seen = NothingSeen
    BY DEF KitInit
  <2>2. NothingSeen.sigs = <<>> /\ NothingSeen.versions = <<>>
    BY DEF NothingSeen
  <2>3. KitInit => KeyInv /\ VersionsFitMode /\ ChipFits
    BY <2>1, <2>2 DEF KeyInv, VersionsFitMode, ChipFits
  <2> QED
    BY <2>3, TypeInit
<1>2. Inv /\ [KitNext]_kitVars => Inv'
  BY TypeStep, FitsStep, KeyStep, VersionsStep
<1>3. Inv => ReportsAreTrue
  BY DEF KeyInv, ReportsAreTrue, SignaturesFitKey
<1> QED
  BY <1>1, <1>2, <1>3, PTL DEF KitSpec

-----------------------------------------------------------------------------
\* The certificate store.

ByteValues == 0..(Radix - 1)
Pieces == [from : Nat, to : Nat]

\* What has been read after n blocks.
ReadAfter(n) == IF n * BlockLen < Len(chip) THEN n * BlockLen ELSE Len(chip)

\* TypeOK, how much has been read where the program is, and that no index of the
\* two loops leads out of the store.
StoreInv ==
  /\ TypeOK
  /\ store \in Seq(ByteValues) /\ certs \in Seq(Pieces)
  /\ pc = "read" => i \in 0..Blocks /\ Len(store) = ReadAfter(i) /\ certs = <<>>
  /\ pc = "table" => Len(store) >= 16 /\ HasTable /\ i \in 0..LittleEndian(store, 6)
  /\ pc = "scan" => i \in 0..Len(store)
  /\ pc \in {"read", "table", "scan"} => written = 0

LEMMA MinIs ==
  ASSUME NEW m \in Nat, NEW n \in Nat
  PROVE  Min({m, n}) = IF m <= n THEN m ELSE n
<1> DEFINE least == IF m <= n THEN m ELSE n
<1>1. least \in {m, n} /\ \A y \in {m, n} : least <= y
  OBVIOUS
<1>2. \A x \in {m, n} : (\A y \in {m, n} : x <= y) => x = least
  OBVIOUS
<1> HIDE DEF least
<1>3. (CHOOSE x \in {m, n} : \A y \in {m, n} : x <= y) = least
  BY <1>1, <1>2, Zenon
<1> QED
  BY <1>3 DEF Min, least

LEMMA Constants ==
  /\ Radix \in Nat /\ Radix > 0 /\ LONG2 \in Nat
  /\ SEQUENCE \in Nat
  /\ BlockLen \in Nat /\ BlockLen > 0 /\ Blocks \in Nat /\ MaxCerts \in Nat
  /\ Stores \subseteq Seq(ByteValues)
<1>1. Radix \in Nat /\ Radix > 0 /\ SEQUENCE \in Nat
  BY Asn1DerAssumption
<1>2. LONG2 \in Nat
  BY <1>1 DEF LONG2, LongForm
<1> QED
  BY <1>1, <1>2, CertStoreAssumption DEF ByteValues

LEMMA StoreTypes ==
  ASSUME StoreInv
  PROVE  /\ chip \in Seq(ByteValues) /\ Len(chip) \in Nat
         /\ store \in Seq(ByteValues) /\ Len(store) \in Nat /\ Len(store) <= Len(chip)
         /\ \A k \in 1..Len(store) : store[k] = chip[k]
         /\ \A k \in 0..(Len(store) - 1) : Byte(store, k) \in 0..(Radix - 1) /\ Byte(store, k) \in Nat
         /\ i \in 0..(Len(store) + Blocks) /\ i \in Nat
         /\ certs \in Seq(Pieces) /\ Len(certs) \in Nat
<1>1. chip \in Seq(ByteValues) /\ Len(chip) \in Nat
  BY LenProperties DEF StoreInv, TypeOK, ByteValues
<1>2. store \in Seq(ByteValues) /\ Len(store) \in Nat
  BY LenProperties DEF StoreInv
<1>3. store = SubSeq(chip, 1, Len(store)) /\ Len(store) <= Len(chip) /\ i \in 0..(Len(store) + Blocks)
  BY DEF StoreInv, TypeOK
<1>4. \A k \in 1..Len(store) : store[k] = chip[k]
  BY <1>1, <1>2, <1>3
<1>5. \A k \in 1..Len(store) : store[k] \in ByteValues
  BY <1>2, ElementOfSeq
<1>6. \A k \in 0..(Len(store) - 1) : Byte(store, k) \in 0..(Radix - 1)
  BY <1>2, <1>5 DEF Byte, ByteValues
<1>7. certs \in Seq(Pieces) /\ Len(certs) \in Nat
  BY LenProperties DEF StoreInv
<1> QED
  BY <1>1, <1>2, <1>3, <1>4, <1>6, <1>7, Constants

LEMMA EndianTypes ==
  ASSUME StoreInv, NEW k \in Nat, k + 1 < Len(store)
  PROVE  /\ LittleEndian(store, k) \in Nat /\ BigEndian(store, k) \in Nat
         /\ LittleEndian(store, k) = Byte(store, k) + Radix * Byte(store, k + 1)
         /\ BigEndian(store, k) = Radix * Byte(store, k) + Byte(store, k + 1)
<1>1. Byte(store, k) \in Nat /\ Byte(store, k + 1) \in Nat /\ Radix \in Nat
  BY StoreTypes, Constants
<1> QED
  BY <1>1 DEF LittleEndian, BigEndian

\* What an entry of the table and a header in the store stand for.
LEMMA EntryIs ==
  ASSUME StoreInv, pc = "table", i < LittleEndian(store, 6)
  PROVE  /\ Entry \in Pieces /\ Entry.from <= Entry.to
         /\ Entry = Piece(LittleEndian(store, 8 + 4 * i), LittleEndian(store, 10 + 4 * i))
         /\ i + 1 \in 0..LittleEndian(store, 6)
<1> DEFINE n == LittleEndian(store, 6)
<1>1. Len(store) >= 16 /\ n > 0 /\ n <= MaxCerts /\ 8 + 4 * n <= Len(store) /\ i \in 0..n
  BY DEF StoreInv, HasTable
<1>2. n \in Nat /\ Len(store) \in Nat /\ i \in Nat
  BY <1>1, StoreTypes, EndianTypes
<1> HIDE DEF n
<1>3. i < n
  BY DEF n
<1>4. 8 + 4 * i \in Nat /\ 10 + 4 * i \in Nat /\ 8 + 4 * i + 1 < Len(store) /\ 10 + 4 * i + 1 < Len(store)
  BY <1>1, <1>2, <1>3
<1>5. LittleEndian(store, 8 + 4 * i) \in Nat /\ LittleEndian(store, 10 + 4 * i) \in Nat
  BY <1>4, EndianTypes
<1>6. i + 1 \in 0..LittleEndian(store, 6)
  BY <1>1, <1>2, <1>3 DEF n
<1> QED
  BY <1>5, <1>6 DEF Entry, Piece, Pieces

LEMMA FoundIs ==
  ASSUME StoreInv, pc = "scan", i < Len(store) - 4
  PROVE  /\ Found \in Pieces /\ Found.from = i /\ Found.to = i + 4 + BigEndian(store, i + 2)
         /\ Found.from < Found.to /\ BigEndian(store, i + 2) \in Nat
<1>1. i \in Nat /\ Len(store) \in Nat /\ i + 2 \in Nat /\ i + 3 < Len(store)
  BY StoreTypes
<1>2. BigEndian(store, i + 2) \in Nat
  BY <1>1, EndianTypes
<1> QED
  BY <1>1, <1>2 DEF Found, Piece, Pieces

LEMMA FilesAre ==
  ASSUME StoreInv
  PROVE  Len(Files) \in Nat /\ Len(Files) >= 1
<1>1. CASE certs = <<>>
  BY <1>1 DEF Files
<1>2. CASE certs # <<>>
  <2>1. certs \in Seq(Pieces) /\ Len(certs) \in Nat /\ Files = certs
    BY <1>2, StoreTypes DEF Files
  <2> QED
    BY <1>2, <2>1, EmptySeq
<1> QED
  BY <1>1, <1>2

\* A block goes on where the one before ended.
LEMMA BlockIs ==
  ASSUME StoreInv, pc = "read", i < Blocks
  PROVE  /\ store \o Block \in Seq(ByteValues)
         /\ Len(store \o Block) = ReadAfter(i + 1) /\ Len(store \o Block) <= Len(chip)
         /\ store \o Block = SubSeq(chip, 1, Len(store \o Block))
<1> DEFINE n == i * BlockLen
           m == (i + 1) * BlockLen
           least == Min({Len(chip), m})
<1>1. i \in Nat /\ BlockLen \in Nat /\ BlockLen > 0
  BY StoreTypes, Constants
<1>2. n \in Nat /\ m = n + BlockLen /\ m \in Nat
  BY <1>1
<1>3. chip \in Seq(ByteValues) /\ Len(chip) \in Nat /\ store = SubSeq(chip, 1, Len(store)) /\ store \in Seq(ByteValues)
  BY StoreTypes DEF StoreInv, TypeOK
<1>4. Len(store) = IF n < Len(chip) THEN n ELSE Len(chip)
  BY DEF StoreInv, ReadAfter
<1>5. Block = SubSeq(chip, n + 1, least)
  BY DEF Block
<1>6. ReadAfter(i + 1) = IF m < Len(chip) THEN m ELSE Len(chip)
  BY DEF ReadAfter
<1>7. least = IF Len(chip) <= m THEN Len(chip) ELSE m
  BY <1>2, <1>3, MinIs
<1> HIDE DEF n, m, least
<1>8. CASE n < Len(chip)
  <2>1. least \in n..Len(chip) /\ n \in 0..Len(chip) /\ 1 \in 1..(Len(chip) + 1)
    BY <1>1, <1>2, <1>3, <1>7, <1>8
  <2>2. SubSeq(chip, 1, n) \o SubSeq(chip, n + 1, least) = SubSeq(chip, 1, least)
    BY <1>3, <2>1, ConcatAdjacentSubSeq
  <2>3. store \o Block = SubSeq(chip, 1, least)
    BY <1>3, <1>4, <1>5, <1>8, <2>2
  <2>4. SubSeq(chip, 1, least) \in Seq(ByteValues) /\ Len(SubSeq(chip, 1, least)) = least
    BY <1>3, <2>1, <1>2
  <2> QED
    BY <1>2, <1>3, <1>6, <1>7, <2>1, <2>3, <2>4
<1>9. CASE ~(n < Len(chip))
  <2>1. least = Len(chip) /\ ReadAfter(i + 1) = Len(chip)
    BY <1>1, <1>2, <1>3, <1>6, <1>7, <1>9
  <2>2. Block = <<>>
    BY <1>2, <1>3, <1>5, <1>9, <2>1, SubSeqEmpty
  <2>3. store \o Block = store
    BY <1>3, <2>2, ConcatEmptySeq
  <2> QED
    BY <1>3, <1>4, <1>9, <2>1, <2>3
<1> QED
  BY <1>2, <1>3, <1>8, <1>9

LEMMA StoreStarts == Init => StoreInv
<1> SUFFICES ASSUME Init PROVE StoreInv
  OBVIOUS
<1>1. chip \in Stores /\ pc = "read" /\ store = <<>> /\ i = 0 /\ certs = <<>> /\ written = 0
  BY DEF Init
<1>2. chip \in Seq(ByteValues) /\ Len(chip) \in Nat
  BY <1>1, Constants, LenProperties
<1>3. store = SubSeq(chip, 1, Len(store)) /\ Len(store) = 0
  BY <1>1, <1>2, SubSeqEmpty
<1>4. <<>> \in Seq(ByteValues) /\ <<>> \in Seq(Pieces)
  BY EmptySeq
<1>5. Len(Files) = 1
  BY <1>1 DEF Files
<1>6. ReadAfter(0) = 0
  BY <1>2, Constants DEF ReadAfter
<1>7. TypeOK
  BY <1>1, <1>2, <1>3, <1>5, Constants DEF TypeOK, ByteValues
<1> QED
  BY <1>1, <1>3, <1>4, <1>6, <1>7, Constants DEF StoreInv

LEMMA StoreStep ==
  ASSUME StoreInv, [Next]_vars
  PROVE  StoreInv'
<1>t. /\ chip \in Seq(ByteValues) /\ Len(chip) \in Nat
      /\ store \in Seq(ByteValues) /\ Len(store) \in Nat /\ Len(store) <= Len(chip)
      /\ i \in 0..(Len(store) + Blocks) /\ certs \in Seq(Pieces)
      /\ store = SubSeq(chip, 1, Len(store))
      /\ Len(Files) \in Nat /\ written \in 0..Len(Files)
      /\ Blocks \in Nat
  BY StoreTypes, FilesAre, Constants DEF StoreInv, TypeOK
\* The steps that leave what was read and found as it is.
<1>s. ASSUME UNCHANGED <<chip, store, certs>>, written' \in 0..Len(Files),
             pc' \in {"table", "scan", "write", "done", "failed"},
             i' \in 0..(Len(store) + Blocks),
             pc' = "table" => Len(store) >= 16 /\ HasTable /\ i' \in 0..LittleEndian(store, 6),
             pc' = "scan" => i' \in 0..Len(store),
             pc' \in {"table", "scan"} => written' = 0
      PROVE  StoreInv'
  <2>1. Files' = Files /\ HasTable' = HasTable /\ LittleEndian(store, 6)' = LittleEndian(store, 6)
    BY <1>s DEF Files, HasTable, LittleEndian, Byte, Piece
  <2>2. TypeOK'
    BY <1>s, <1>t, <2>1 DEF TypeOK, ByteValues
  <2> QED
    BY <1>s, <1>t, <2>1, <2>2 DEF StoreInv
\* The steps that find a piece.
<1>p. ASSUME NEW piece \in Pieces, certs' = Append(certs, piece), UNCHANGED <<chip, pc, store, written>>,
             pc \in {"table", "scan"},
             i' \in 0..(Len(store) + Blocks),
             pc = "table" => i' \in 0..LittleEndian(store, 6),
             pc = "scan" => i' \in 0..Len(store)
      PROVE  StoreInv'
  <2>1. HasTable' = HasTable /\ LittleEndian(store, 6)' = LittleEndian(store, 6)
    BY <1>p DEF HasTable, LittleEndian, Byte
  <2>2. certs' \in Seq(Pieces) /\ certs' # <<>>
    BY <1>p, <1>t, AppendProperties
  <2>3. Files' = certs' /\ Len(certs') \in Nat
    BY <2>2, LenProperties DEF Files
  <2>4. written' = 0 /\ (pc = "table" => Len(store) >= 16 /\ HasTable)
    BY <1>p DEF StoreInv
  <2>5. TypeOK'
    BY <1>p, <1>t, <2>3, <2>4 DEF TypeOK, ByteValues
  <2> QED
    BY <1>p, <1>t, <2>1, <2>2, <2>4, <2>5 DEF StoreInv
<1>1. CASE ReadBlock
  <2>1. /\ pc = "read" /\ i < Blocks /\ store' = store \o Block /\ i' = i + 1
        /\ UNCHANGED <<chip, pc, certs, written>>
    BY <1>1 DEF ReadBlock
  <2>2. /\ store' \in Seq(ByteValues) /\ Len(store') = ReadAfter(i + 1) /\ Len(store') <= Len(chip)
        /\ store' = SubSeq(chip, 1, Len(store'))
    BY <2>1, BlockIs
  <2>3. i' \in 0..Blocks /\ Len(store') \in Nat /\ certs = <<>> /\ written = 0
    BY <1>t, <2>1, <2>2, LenProperties DEF StoreInv
  <2>4. i' \in 0..(Len(store') + Blocks)
    BY <1>t, <2>3
  <2>5. ReadAfter(i)' = ReadAfter(i + 1)
    BY <2>1 DEF ReadAfter
  <2>6. Len(Files') = 1
    BY <2>1, <2>3 DEF Files
  <2>7. TypeOK'
    BY <1>t, <2>1, <2>2, <2>3, <2>4, <2>6 DEF TypeOK, ByteValues
  <2> QED
    BY <1>t, <2>1, <2>2, <2>3, <2>5, <2>7 DEF StoreInv
<1>2. CASE RequestFails
  BY <1>s, <1>t, <1>2 DEF RequestFails
<1>3. CASE ReadAll
  <2>1. /\ pc = "read" /\ i' = 0 /\ UNCHANGED <<chip, store, certs, written>>
        /\ pc' = IF Len(store) < 16 THEN "failed" ELSE IF HasTable THEN "table" ELSE "scan"
    BY <1>3 DEF ReadAll
  <2>2. Len(store) >= 16 => LittleEndian(store, 6) \in Nat
    BY <1>t, EndianTypes
  <2>3. written' = 0 /\ i' \in 0..(Len(store) + Blocks)
    BY <1>t, <2>1 DEF StoreInv
  <2> QED
    BY <1>s, <1>t, <2>1, <2>2, <2>3
<1>4. CASE TakeEntry
  <2>1. /\ pc = "table" /\ i < LittleEndian(store, 6) /\ certs' = Append(certs, Entry) /\ i' = i + 1
        /\ UNCHANGED <<chip, pc, store, written>>
    BY <1>4 DEF TakeEntry
  <2>2. Entry \in Pieces /\ i + 1 \in 0..LittleEndian(store, 6)
    BY <2>1, EntryIs
  <2>3. 8 + 4 * LittleEndian(store, 6) <= Len(store) /\ LittleEndian(store, 6) \in Nat
    <3>1. Len(store) >= 16 /\ HasTable
      BY <2>1 DEF StoreInv
    <3>2. LittleEndian(store, 6) \in Nat
      BY <1>t, <3>1, EndianTypes
    <3> QED
      BY <3>1, <3>2 DEF HasTable
  <2>4. i' \in 0..(Len(store) + Blocks)
    BY <1>t, <2>1, <2>2, <2>3
  <2> QED
    BY <1>p, <2>1, <2>2, <2>4
<1>5. CASE LeaveTable
  <2>1. pc' = "scan" /\ i' = 0 /\ certs' = <<>> /\ UNCHANGED <<chip, store, written>> /\ written = 0
    BY <1>5 DEF LeaveTable, StoreInv
  <2>2. Len(Files') = 1 /\ <<>> \in Seq(Pieces)
    BY <2>1, EmptySeq DEF Files
  <2>3. TypeOK'
    BY <1>t, <2>1, <2>2 DEF TypeOK, ByteValues
  <2> QED
    BY <1>t, <2>1, <2>2, <2>3 DEF StoreInv
<1>6. CASE EndTable
  BY <1>s, <1>t, <1>6 DEF EndTable
<1>7. CASE TakeCert
  <2>1. /\ pc = "scan" /\ i < Len(store) - 4 /\ Found.to <= Len(store)
        /\ certs' = Append(certs, Found) /\ i' = Found.to /\ UNCHANGED <<chip, pc, store, written>>
    BY <1>7 DEF TakeCert, IsHeader
  <2>2. Found \in Pieces /\ Found.to \in Nat
    BY <2>1, FoundIs DEF Pieces
  <2>3. i' \in 0..Len(store) /\ i' \in 0..(Len(store) + Blocks)
    BY <1>t, <2>1, <2>2
  <2> QED
    BY <1>p, <2>1, <2>2, <2>3
<1>8. CASE SkipByte
  <2>1. pc = "scan" /\ i < Len(store) - 4 /\ i' = i + 1 /\ UNCHANGED <<chip, pc, store, certs, written>> /\ written = 0
    BY <1>8 DEF SkipByte, StoreInv
  <2>2. i' \in 0..Len(store) /\ i' \in 0..(Len(store) + Blocks)
    BY <1>t, <2>1
  <2> QED
    BY <1>s, <1>t, <2>1, <2>2
<1>9. CASE EndScan
  BY <1>s, <1>t, <1>9 DEF EndScan
<1>10. CASE WriteFile
  <2>1. pc = "write" /\ written' \in 0..Len(Files) /\ UNCHANGED <<chip, pc, store, i, certs>>
    BY <1>t, <1>10 DEF WriteFile
  <2> QED
    BY <1>s, <1>t, <2>1
<1>11. CASE WriteFails
  BY <1>s, <1>t, <1>11 DEF WriteFails
<1>12. CASE Finish
  BY <1>s, <1>t, <1>12 DEF Finish
<1>13. CASE UNCHANGED vars
  BY <1>13 DEF vars, StoreInv, TypeOK, HasTable, LittleEndian, Byte, Files, Piece, ReadAfter
<1> QED
  BY <1>1, <1>2, <1>3, <1>4, <1>5, <1>6, <1>7, <1>8, <1>9, <1>10, <1>11, <1>12, <1>13 DEF Next, Step, Ended

\* Whatever the store holds, no piece that is split off reaches out of it, and
\* those that were found by scanning do not overlap.
LEMMA PiecesStep ==
  ASSUME StoreInv, PiecesInside, [Next]_vars
  PROVE  PiecesInside'
<1>t. Len(store) \in Nat /\ i \in Nat /\ certs \in Seq(Pieces) /\ Len(certs) \in Nat
  BY StoreTypes
<1>i. \A k \in DOMAIN certs : certs[k].from < certs[k].to /\ certs[k].to <= Len(store)
  BY DEF PiecesInside
<1>e. ASSUME certs' = <<>> PROVE PiecesInside'
  BY <1>e DEF PiecesInside
<1>1. ASSUME UNCHANGED <<certs, store>>, pc' # "scan" PROVE PiecesInside'
  BY <1>1 DEF PiecesInside
<1>2. ASSUME NEW piece \in Pieces, certs' = Append(certs, piece), UNCHANGED store,
             piece.from < piece.to, piece.to <= Len(store),
             pc' = "scan" => pc = "scan" /\ piece.from = i /\ i' = piece.to
      PROVE  PiecesInside'
  <2>1. /\ Len(certs') = Len(certs) + 1 /\ certs'[Len(certs) + 1] = piece
        /\ \A k \in 1..Len(certs) : certs'[k] = certs[k]
        /\ DOMAIN certs' = 1..(Len(certs) + 1) /\ DOMAIN certs = 1..Len(certs)
    BY <1>2, <1>t, AppendProperties, LenProperties
  <2>2. ASSUME NEW k \in DOMAIN certs' PROVE certs'[k].from < certs'[k].to /\ certs'[k].to <= Len(store')
    BY <1>t, <1>i, <1>2, <2>1
  <2>3. ASSUME pc' = "scan", NEW k \in DOMAIN certs'
        PROVE  certs'[k].to <= IF k = Len(certs') THEN i' ELSE certs'[k + 1].from
    <3>1. CASE k = Len(certs')
      BY <1>2, <1>t, <2>1, <2>3, <3>1 DEF Pieces
    <3>2. CASE k # Len(certs')
      <4>1. k \in 1..Len(certs) /\ certs'[k] = certs[k]
        BY <1>t, <2>1, <2>3, <3>2
      <4>2. certs[k].to <= IF k = Len(certs) THEN i ELSE certs[k + 1].from
        BY <1>2, <2>1, <2>3, <4>1 DEF PiecesInside
      <4>3. CASE k = Len(certs)
        BY <1>2, <1>t, <2>1, <2>3, <3>2, <4>1, <4>2, <4>3
      <4>4. CASE k # Len(certs)
        <5>1. k + 1 \in 1..Len(certs) /\ certs'[k + 1] = certs[k + 1]
          BY <1>t, <2>1, <4>1, <4>4
        <5> QED
          BY <3>2, <4>1, <4>2, <4>4, <5>1
      <4> QED
        BY <4>3, <4>4
    <3> QED
      BY <3>1, <3>2
  <2> QED
    BY <2>2, <2>3 DEF PiecesInside
<1>3. CASE ReadBlock \/ LeaveTable
  BY <1>e, <1>3 DEF ReadBlock, LeaveTable, StoreInv
<1>4. CASE RequestFails \/ EndTable \/ EndScan \/ WriteFails \/ Finish
  BY <1>1, <1>4 DEF RequestFails, EndTable, EndScan, WriteFails, Finish
<1>5. CASE ReadAll
  BY <1>e, <1>5 DEF ReadAll, StoreInv
<1>6. CASE WriteFile
  BY <1>1, <1>6 DEF WriteFile
<1>7. CASE TakeEntry
  <2>1. /\ pc = "table" /\ i < LittleEndian(store, 6) /\ certs' = Append(certs, Entry)
        /\ Entry.to <= Len(store) /\ Entry.from # Entry.to /\ UNCHANGED <<pc, store>>
    BY <1>7 DEF TakeEntry
  <2>2. Entry \in Pieces /\ Entry.from <= Entry.to
    BY <2>1, EntryIs
  <2>3. Entry.from < Entry.to
    BY <2>1, <2>2 DEF Pieces
  <2> QED
    BY <1>2, <2>1, <2>2, <2>3
<1>8. CASE TakeCert
  <2>1. /\ pc = "scan" /\ i < Len(store) - 4 /\ Found.to <= Len(store) /\ UNCHANGED <<pc, store>>
        /\ certs' = Append(certs, Found) /\ i' = Found.to
    BY <1>8 DEF TakeCert, IsHeader
  <2> QED
    BY <1>2, <2>1, FoundIs
<1>9. CASE SkipByte
  <2>1. pc = "scan" /\ i' = i + 1 /\ UNCHANGED <<pc, store, certs>>
    BY <1>9 DEF SkipByte
  <2>2. \A k \in DOMAIN certs : certs[k].to <= IF k = Len(certs) THEN i ELSE certs[k + 1].from
    BY <2>1 DEF PiecesInside
  <2>3. \A k \in DOMAIN certs : certs[k].to \in Nat
    <3>1. DOMAIN certs = 1..Len(certs) /\ \A k \in 1..Len(certs) : certs[k] \in Pieces
      BY <1>t, LenProperties, ElementOfSeq
    <3> QED
      BY <3>1 DEF Pieces
  <2>4. \A k \in DOMAIN certs : certs[k].to <= IF k = Len(certs) THEN i + 1 ELSE certs[k + 1].from
    BY <1>t, <2>2, <2>3
  <2> QED
    BY <1>i, <2>1, <2>4 DEF PiecesInside
<1>10. CASE UNCHANGED vars
  BY <1>10 DEF vars, PiecesInside
<1> QED
  BY <1>3, <1>4, <1>5, <1>6, <1>7, <1>8, <1>9, <1>10 DEF Next, Step, Ended

\* No piece of the store that is split off reaches out of it, and those that were
\* found by scanning do not overlap, whatever the store holds.
THEOREM Inside == Spec => []PiecesInside
<1>1. Init => PiecesInside
  BY DEF Init, PiecesInside
<1> QED
  BY <1>1, StoreStarts, StoreStep, PiecesStep, PTL DEF Spec

-----------------------------------------------------------------------------
\* How long the splitting takes.

\* Steps that are left of each loop: the blocks to come and whatever comes after them,
\* twice the entries to come (one may send the program to the scan), the bytes that were
\* not searched, the files to write.
SplitStepsLeft ==
  CASE pc = "read" -> (Blocks - i) + 2 * MaxCerts + Len(chip) + 5
    [] pc = "table" -> 2 * (LittleEndian(store, 6) - i) + Len(certs) + Len(store) + 4
    [] pc = "scan" -> (Len(store) - i) + Len(certs) + 3
    [] pc = "write" -> (Len(Files) - written) + 1
    [] OTHER -> 0

\* Reading, splitting and writing is done after so many steps, of which each uses one up.
SplittingIsBounded ==
  /\ SplitStepsLeft <= Blocks + 2 * MaxCerts + Len(chip) + 5
  /\ [][SplitStepsLeft' \in 0..(SplitStepsLeft - 1)]_vars

SplitValues ==
  /\ pc = "read" => SplitStepsLeft = (Blocks - i) + 2 * MaxCerts + Len(chip) + 5
  /\ pc = "table" =>
       SplitStepsLeft = 2 * (LittleEndian(store, 6) - i) + Len(certs) + Len(store) + 4
  /\ pc = "scan" => SplitStepsLeft = (Len(store) - i) + Len(certs) + 3
  /\ pc = "write" => SplitStepsLeft = (Len(Files) - written) + 1
  /\ pc \in {"done", "failed"} => SplitStepsLeft = 0
  /\ SplitStepsLeft \in Nat
  /\ pc \notin {"done", "failed"} => SplitStepsLeft >= 1
  /\ Len(Files) \in Nat /\ Len(Files) <= Len(certs) + 1

LEMMA SplitLeft ==
  ASSUME StoreInv
  PROVE  SplitValues
<1>1. /\ pc = "read" => SplitStepsLeft = (Blocks - i) + 2 * MaxCerts + Len(chip) + 5
      /\ pc = "table" =>
           SplitStepsLeft = 2 * (LittleEndian(store, 6) - i) + Len(certs) + Len(store) + 4
      /\ pc = "scan" => SplitStepsLeft = (Len(store) - i) + Len(certs) + 3
      /\ pc = "write" => SplitStepsLeft = (Len(Files) - written) + 1
      /\ pc \in {"done", "failed"} => SplitStepsLeft = 0
  BY DEF SplitStepsLeft
<1>2. /\ Len(chip) \in Nat /\ Len(store) \in Nat /\ Len(certs) \in Nat /\ i \in Nat
      /\ Blocks \in Nat /\ MaxCerts \in Nat
      /\ Len(Files) \in Nat /\ written \in 0..Len(Files)
      /\ pc \in {"read", "table", "scan", "write", "done", "failed"}
  BY StoreTypes, FilesAre, Constants DEF StoreInv, TypeOK
<1>3. Len(Files) <= Len(certs) + 1
  <2>1. CASE certs = <<>>
    <3>1. Len(Files) = 1
      BY <2>1 DEF Files
    <3> QED
      BY <1>2, <3>1
  <2>2. CASE certs # <<>>
    <3>1. Files = certs
      BY <2>2 DEF Files
    <3> QED
      BY <1>2, <3>1
  <2> QED
    BY <2>1, <2>2
<1>4. ASSUME pc = "table"
      PROVE  LittleEndian(store, 6) \in Nat /\ i <= LittleEndian(store, 6)
  <2>1. Len(store) >= 16 /\ i \in 0..LittleEndian(store, 6)
    BY <1>4 DEF StoreInv
  <2>2. LittleEndian(store, 6) \in Nat
    BY <1>2, <2>1, EndianTypes
  <2> QED
    BY <2>1, <2>2
<1>5. (pc = "read" => i <= Blocks) /\ (pc = "scan" => i <= Len(store))
  BY DEF StoreInv
<1>6. SplitStepsLeft \in Nat /\ (pc \notin {"done", "failed"} => SplitStepsLeft >= 1)
  <2>1. CASE pc \in {"read", "scan", "write", "done", "failed"}
    BY <1>1, <1>2, <1>5, <2>1
  <2>2. CASE pc = "table"
    <3> DEFINE n == LittleEndian(store, 6)
    <3>1. n \in Nat /\ i <= n /\ SplitStepsLeft = 2 * (n - i) + Len(certs) + Len(store) + 4
      BY <1>1, <1>4, <2>2
    <3> HIDE DEF n
    <3> QED
      BY <1>2, <3>1
  <2> QED
    BY <1>2, <2>1, <2>2
<1> QED
  BY <1>1, <1>2, <1>3, <1>6 DEF SplitValues

LEMMA SplitLeftNext == StoreInv' => SplitValues'
<1>1. StoreInv => SplitValues
  BY SplitLeft
<1> QED
  BY <1>1, PTL

\* Each step is one of those that were left.
LEMMA SplitStepCounts ==
  ASSUME StoreInv, StoreInv', Step
  PROVE  SplitStepsLeft' \in 0..(SplitStepsLeft - 1)
<1> DEFINE n == LittleEndian(store, 6)
<1>v. SplitValues /\ SplitValues'
  BY SplitLeft, SplitLeftNext
<1>t. /\ Len(chip) \in Nat /\ Len(store) \in Nat /\ Len(store) <= Len(chip)
      /\ Len(certs) \in Nat /\ i \in Nat /\ Blocks \in Nat /\ MaxCerts \in Nat
      /\ Len(Files) \in Nat /\ written \in Nat
      /\ certs \in Seq(Pieces)
  <2>1. written \in 0..Len(Files)
    BY DEF StoreInv, TypeOK
  <2>2. Len(Files) \in Nat
    BY FilesAre
  <2> QED
    BY <2>1, <2>2, StoreTypes, Constants
<1>w. SplitStepsLeft \in Nat /\ SplitStepsLeft' \in Nat
  BY <1>v DEF SplitValues
<1>e. ASSUME pc \notin {"done", "failed"}, pc' \in {"done", "failed"}
      PROVE  SplitStepsLeft' < SplitStepsLeft
  BY <1>v, <1>e DEF SplitValues
<1>l. ASSUME NEW p, certs' = Append(certs, p)
      PROVE  Len(certs') = Len(certs) + 1
  BY <1>t, <1>l
<1>n. ASSUME pc = "table" \/ pc' = "table", store' = store
      PROVE  n \in Nat /\ n <= MaxCerts /\ LittleEndian(store', 6) = n
             /\ (pc = "table" => i <= n)
  <2>1. Len(store) >= 16 /\ n <= MaxCerts
    BY <1>n DEF StoreInv, HasTable
  <2>2. n \in Nat
    BY <1>t, <2>1, EndianTypes
  <2>3. pc = "table" => i \in 0..n
    BY DEF StoreInv
  <2> QED
    BY <1>n, <2>1, <2>2, <2>3
<1>1. CASE ReadBlock
  <2>1. pc = "read" /\ i < Blocks /\ i' = i + 1 /\ pc' = "read" /\ chip' = chip
    BY <1>1 DEF ReadBlock
  <2>2. /\ SplitStepsLeft = (Blocks - i) + 2 * MaxCerts + Len(chip) + 5
        /\ SplitStepsLeft' = (Blocks - (i + 1)) + 2 * MaxCerts + Len(chip) + 5
    BY <1>v, <2>1 DEF SplitValues
  <2> QED
    BY <1>t, <1>w, <2>2
<1>2. CASE RequestFails
  BY <1>w, <1>e, <1>2 DEF RequestFails
<1>3. CASE ReadAll
  <2>1. /\ pc = "read" /\ i = Blocks /\ pc' \in {"failed", "table", "scan"} /\ i' = 0
        /\ store' = store /\ certs' = <<>>
    BY <1>3 DEF ReadAll, StoreInv
  <2>2. SplitStepsLeft = 0 + 2 * MaxCerts + Len(chip) + 5
    BY <1>v, <1>t, <2>1 DEF SplitValues
  <2>3. CASE pc' = "failed"
    BY <1>w, <1>e, <2>1, <2>3
  <2>4. CASE pc' = "table"
    <3>1. SplitStepsLeft' = 2 * (n - 0) + 0 + Len(store) + 4
      BY <1>v, <1>n, <2>1, <2>4 DEF SplitValues
    <3>2. n \in Nat /\ n <= MaxCerts
      BY <1>n, <2>1, <2>4
    <3> HIDE DEF n
    <3> QED
      BY <1>t, <1>w, <2>2, <3>1, <3>2
  <2>5. CASE pc' = "scan"
    <3>1. SplitStepsLeft' = (Len(store) - 0) + 0 + 3
      BY <1>v, <2>1, <2>5 DEF SplitValues
    <3> QED
      BY <1>t, <1>w, <2>2, <3>1
  <2> QED
    BY <2>1, <2>3, <2>4, <2>5
<1>4. CASE TakeEntry
  <2>1. /\ pc = "table" /\ pc' = "table" /\ certs' = Append(certs, Entry) /\ i' = i + 1
        /\ store' = store
    BY <1>4 DEF TakeEntry
  <2>2. n \in Nat /\ LittleEndian(store', 6) = n
    BY <1>n, <2>1
  <2>3. /\ SplitStepsLeft = 2 * (n - i) + Len(certs) + Len(store) + 4
        /\ SplitStepsLeft' = 2 * (n - (i + 1)) + (Len(certs) + 1) + Len(store) + 4
    BY <1>v, <1>l, <2>1, <2>2 DEF SplitValues
  <2> HIDE DEF n
  <2> QED
    BY <1>t, <1>w, <2>2, <2>3
<1>5. CASE LeaveTable
  <2>1. pc = "table" /\ pc' = "scan" /\ i' = 0 /\ certs' = <<>> /\ store' = store
    BY <1>5 DEF LeaveTable
  <2>2. n \in Nat /\ i <= n
    BY <1>n, <2>1
  <2>3. /\ SplitStepsLeft = 2 * (n - i) + Len(certs) + Len(store) + 4
        /\ SplitStepsLeft' = (Len(store) - 0) + 0 + 3
    BY <1>v, <2>1 DEF SplitValues
  <2> HIDE DEF n
  <2> QED
    BY <1>t, <1>w, <2>2, <2>3
\* Either loop has found its last piece.
<1>f. ASSUME pc \in {"table", "scan"}, pc' = "write", UNCHANGED <<store, certs, written>>,
             SplitStepsLeft >= Len(certs) + 3
      PROVE  SplitStepsLeft' < SplitStepsLeft
  <2>1. Files' = Files
    BY <1>f DEF Files
  <2>2. SplitStepsLeft' = (Len(Files) - written) + 1 /\ Len(Files) <= Len(certs) + 1
    BY <1>v, <1>f, <2>1 DEF SplitValues
  <2> QED
    BY <1>t, <1>w, <1>f, <2>2
<1>6. CASE EndTable
  <2>1. pc = "table" /\ pc' = "write" /\ i = n /\ UNCHANGED <<store, certs, written>>
    BY <1>6 DEF EndTable
  <2>2. SplitStepsLeft = 2 * (n - i) + Len(certs) + Len(store) + 4 /\ n \in Nat
    BY <1>v, <1>n, <2>1 DEF SplitValues
  <2> HIDE DEF n
  <2>3. SplitStepsLeft >= Len(certs) + 3
    BY <1>t, <2>1, <2>2
  <2> QED
    BY <1>f, <1>w, <2>1, <2>3
<1>7. CASE TakeCert
  <2>1. /\ pc = "scan" /\ pc' = "scan" /\ i < Len(store) - 4 /\ certs' = Append(certs, Found)
        /\ i' = Found.to /\ store' = store
    BY <1>7 DEF TakeCert, IsHeader
  <2>2. PICK j \in Nat : i' = j /\ j >= i + 4
    BY <1>t, <2>1, FoundIs
  <2>3. /\ SplitStepsLeft = (Len(store) - i) + Len(certs) + 3
        /\ SplitStepsLeft' = (Len(store) - j) + (Len(certs) + 1) + 3
    BY <1>v, <1>l, <2>1, <2>2 DEF SplitValues
  <2> QED
    BY <1>t, <1>w, <2>2, <2>3
<1>8. CASE SkipByte
  <2>1. pc = "scan" /\ pc' = "scan" /\ i' = i + 1 /\ UNCHANGED <<store, certs>>
    BY <1>8 DEF SkipByte
  <2>2. /\ SplitStepsLeft = (Len(store) - i) + Len(certs) + 3
        /\ SplitStepsLeft' = (Len(store) - (i + 1)) + Len(certs) + 3
    BY <1>v, <2>1 DEF SplitValues
  <2> QED
    BY <1>t, <1>w, <2>2
<1>9. CASE EndScan
  <2>1. pc = "scan" /\ pc' = "write" /\ UNCHANGED <<store, certs, written>>
    BY <1>9 DEF EndScan
  <2>2. SplitStepsLeft = (Len(store) - i) + Len(certs) + 3 /\ i <= Len(store)
    BY <1>v, <2>1 DEF SplitValues, StoreInv
  <2>3. SplitStepsLeft >= Len(certs) + 3
    BY <1>t, <2>2
  <2> QED
    BY <1>f, <1>w, <2>1, <2>3
<1>10. CASE WriteFile
  <2>1. pc = "write" /\ pc' = "write" /\ written' = written + 1 /\ certs' = certs /\ store' = store
    BY <1>10 DEF WriteFile
  <2>2. Files' = Files
    BY <2>1 DEF Files
  <2>3. /\ SplitStepsLeft = (Len(Files) - written) + 1
        /\ SplitStepsLeft' = (Len(Files) - (written + 1)) + 1
    BY <1>v, <2>1, <2>2 DEF SplitValues
  <2> QED
    BY <1>t, <1>w, <2>3
<1>11. CASE WriteFails \/ Finish
  BY <1>w, <1>e, <1>11 DEF WriteFails, Finish
<1> QED
  BY <1>1, <1>2, <1>3, <1>4, <1>5, <1>6, <1>7, <1>8, <1>9, <1>10, <1>11 DEF Step

\* For every store the three loops together take no more steps than there are blocks,
\* bytes in the store and twice the entries of a table, and five more: a table that does
\* not hold and lengths that lead anywhere included.
THEOREM BoundedSplitting == Spec => SplittingIsBounded
<1>1. ASSUME Init
      PROVE  SplitStepsLeft <= Blocks + 2 * MaxCerts + Len(chip) + 5
  <2>1. pc = "read" /\ i = 0 /\ StoreInv
    BY <1>1, StoreStarts DEF Init
  <2>2. SplitStepsLeft = (Blocks - 0) + 2 * MaxCerts + Len(chip) + 5
    BY <2>1, SplitLeft DEF SplitValues
  <2>3. Blocks \in Nat /\ MaxCerts \in Nat /\ Len(chip) \in Nat
    BY <2>1, Constants, StoreTypes
  <2> QED
    BY <2>2, <2>3
<1>2. ASSUME StoreInv, StoreInv', [Next]_vars
      PROVE  [SplitStepsLeft' \in 0..(SplitStepsLeft - 1)]_vars
  BY <1>2, SplitStepCounts DEF Next, Ended
<1>3. StoreInv /\ [Next]_vars => StoreInv'
  BY StoreStep
<1> QED
  BY <1>1, <1>2, <1>3, StoreStarts, PTL DEF Spec, SplittingIsBounded

-----------------------------------------------------------------------------
\* The two readers of an ordinary store.

\* A store that is well formed and read to its end, and small enough that the
\* bytes of a header are not met among its lengths: in the source, a length
\* below 0x3000 and a store of at most 0x8200 bytes.
Ordinary(data) ==
  /\ SEQUENCE \notin {0, 1, 4, LONG2}
  /\ WellFormed(data)
  /\ Len(data) <= BlockLen * Blocks /\ Len(data) <= Radix * LONG2
  /\ \A k \in 0..3 : CertLen(data, k) < Radix * SEQUENCE

\* The first four files are the four certificates, and the driver takes its key
\* from the bytes of the first.
FirstFour ==
  /\ Len(certs) >= 4 /\ \A k \in 1..4 : certs[k] = Certificate(chip, k - 1)
  /\ extractChipPublicKey(chip) = ExtractSubjectPublicKey(BytesOf(store, certs[1]))

WholeRead == pc \notin {"read", "failed"} => Len(store) = ReadAfter(Blocks)

\* Behind the four certificates, and that nothing there looks like another one.
Behind(data) == CertFrom(data, 3) + CertLen(data, 3)
NothingBehind(data) ==
  \A k \in Behind(data)..(Len(data) - 5) : ~(Byte(data, k) = SEQUENCE /\ Byte(data, k + 1) = LONG2)

NoMore == NothingBehind(store) => Len(certs) = 4

\* n certificates are found, and the scan stands where the next one begins.
Taken(n) ==
  /\ Len(certs) >= n /\ (n = 4 => NoMore) /\ \A k \in 1..n : certs[k] = Certificate(store, k - 1)
  /\ n < 4 => Len(certs) = n
At(n) == IF n = 0 THEN i <= 10 ELSE IF n < 4 THEN i = CertFrom(store, n) ELSE i >= Behind(store)

\* The table of the other format is left at its first entry.
SplitInv ==
  /\ WholeRead
  /\ Ordinary(chip) =>
       /\ pc = "table" => i = 0
       /\ pc = "scan" => \E n \in 0..4 : Taken(n) /\ At(n)
       /\ pc \in {"write", "done"} => Taken(4)

LEMMA WholeStore ==
  ASSUME StoreInv, WholeRead, pc \notin {"read", "failed"}, Ordinary(chip)
  PROVE  store = chip
<1>1. Len(chip) \in Nat /\ chip \in Seq(ByteValues) /\ store \in Seq(ByteValues) /\ Len(store) \in Nat
      /\ \A k \in 1..Len(store) : store[k] = chip[k]
  BY StoreTypes
<1> DEFINE all == Blocks * BlockLen
<1>2. all \in Nat /\ all = BlockLen * Blocks
  BY Constants
<1>3. Len(chip) <= all
  BY <1>2 DEF Ordinary
<1>4. Len(store) = IF all < Len(chip) THEN all ELSE Len(chip)
  BY DEF WholeRead, ReadAfter
<1>5. Len(store) = Len(chip)
  BY <1>1, <1>2, <1>3, <1>4
<1> QED
  BY <1>1, <1>5, SeqEqual

LEMMA Layout ==
  ASSUME StoreInv, Ordinary(store)
  PROVE  /\ Len(store) >= 10 + 20
         /\ \A k \in 0..3 :
              /\ CertLen(store, k) \in Nat /\ CertLen(store, k) > 4 /\ CertLen(store, k) < Radix * SEQUENCE
              /\ CertFrom(store, k) \in Nat /\ CertFrom(store, k) >= 10
              /\ CertFrom(store, k) + CertLen(store, k) <= Len(store)
              /\ CertFrom(store, k) < Len(store) - 4
         /\ CertFrom(store, 0) = 10
         /\ \A k \in 0..2 : CertFrom(store, k + 1) = CertFrom(store, k) + CertLen(store, k)
<1>1. Len(store) \in Nat /\ Len(store) >= 10
  BY StoreTypes DEF Ordinary, WellFormed
<1>2. \A k \in 0..3 : CertLen(store, k) \in Nat
  BY <1>1, EndianTypes DEF CertLen
<1>3. \A k \in 0..3 : /\ CertLen(store, k) > 4 /\ CertLen(store, k) < Radix * SEQUENCE
                      /\ CertFrom(store, k) + CertLen(store, k) <= Len(store)
  BY DEF Ordinary, WellFormed
<1>4. /\ CertFrom(store, 0) = 10
      /\ CertFrom(store, 1) = 10 + CertLen(store, 0)
      /\ CertFrom(store, 2) = 10 + CertLen(store, 0) + CertLen(store, 1)
      /\ CertFrom(store, 3) = 10 + CertLen(store, 0) + CertLen(store, 1) + CertLen(store, 2)
  BY <1>2 DEF CertFrom
<1>5. \A k \in 0..2 : CertFrom(store, k + 1) = CertFrom(store, k) + CertLen(store, k)
  BY <1>2, <1>4
<1>6. \A k \in 0..3 : CertFrom(store, k) \in Nat /\ CertFrom(store, k) >= 10
  BY <1>2, <1>4
<1>7. ASSUME NEW k \in 0..3 PROVE CertFrom(store, k) < Len(store) - 4
  <2> DEFINE l == CertLen(store, k)
             f == CertFrom(store, k)
  <2>1. l \in Nat /\ f \in Nat /\ l > 4 /\ f + l <= Len(store)
    BY <1>2, <1>3, <1>6
  <2> HIDE DEF l, f
  <2>2. f < Len(store) - 4
    BY <1>1, <2>1
  <2> QED
    BY <2>2 DEF f
<1>8. Len(store) >= 30
  BY <1>1, <1>2, <1>3, <1>4
<1> QED
  BY <1>2, <1>3, <1>4, <1>5, <1>6, <1>7, <1>8

LEMMA BehindIs ==
  ASSUME StoreInv, Ordinary(store)
  PROVE  Behind(store) \in Nat
<1>1. 3 \in 0..3
  OBVIOUS
<1>2. CertFrom(store, 3) \in Nat /\ CertLen(store, 3) \in Nat
  BY <1>1, Layout
<1> QED
  BY <1>2 DEF Behind

\* The lengths before the certificates are not taken for a header.
LEMMA NoHeaderBefore ==
  ASSUME StoreInv, Ordinary(store), i \in 0..9
  PROVE  ~IsHeader
<1> SUFFICES ASSUME Byte(store, i) = SEQUENCE, Byte(store, i + 1) = LONG2 PROVE FALSE
  BY DEF IsHeader
<1>1. Byte(store, 0) = 1 /\ Byte(store, 1) = 4 /\ SEQUENCE \notin {0, 1, 4, LONG2}
      /\ Len(store) <= Radix * LONG2
  BY DEF Ordinary, WellFormed
<1>2. Len(store) \in Nat /\ Len(store) >= 30
      /\ \A k \in 0..3 : CertLen(store, k) < Radix * SEQUENCE /\ 10 + CertLen(store, k) <= Len(store)
  <2>1. Len(store) \in Nat /\ Len(store) >= 30
    BY StoreTypes, Layout
  <2>2. ASSUME NEW k \in 0..3
        PROVE  CertLen(store, k) < Radix * SEQUENCE /\ 10 + CertLen(store, k) <= Len(store)
    <3>1. /\ CertLen(store, k) \in Nat /\ CertLen(store, k) < Radix * SEQUENCE
          /\ CertFrom(store, k) \in Nat /\ CertFrom(store, k) >= 10
          /\ CertFrom(store, k) + CertLen(store, k) <= Len(store)
      BY <2>2, Layout, Zenon
    <3> DEFINE l == CertLen(store, k)
               f == CertFrom(store, k)
    <3>2. l \in Nat /\ f \in Nat /\ f >= 10 /\ f + l <= Len(store)
      BY <3>1
    <3> HIDE DEF l, f
    <3>3. 10 + l <= Len(store)
      BY <2>1, <3>2
    <3> QED
      BY <3>1, <3>3 DEF l
  <2> QED
    BY <2>1, <2>2
<1>3. \A k \in 0..3 : /\ CertLen(store, k) = Radix * Byte(store, 2 + 2 * k) + Byte(store, 2 + 2 * k + 1)
                      /\ Byte(store, 2 + 2 * k) \in Nat /\ Byte(store, 2 + 2 * k + 1) \in Nat
  <2> TAKE k \in 0..3
  <2>1. 2 + 2 * k \in Nat /\ 2 + 2 * k + 1 < Len(store)
    BY <1>2
  <2>2. BigEndian(store, 2 + 2 * k) = Radix * Byte(store, 2 + 2 * k) + Byte(store, 2 + 2 * k + 1)
    BY <2>1, EndianTypes
  <2>3. 2 + 2 * k \in 0..(Len(store) - 1) /\ 2 + 2 * k + 1 \in 0..(Len(store) - 1)
    BY <1>2, <2>1
  <2>4. Byte(store, 2 + 2 * k) \in Nat /\ Byte(store, 2 + 2 * k + 1) \in Nat
    BY <2>3, StoreTypes
  <2> QED
    BY <2>2, <2>4 DEF CertLen
<1>4. Byte(store, 10) = SEQUENCE
  BY Layout DEF Ordinary, WellFormed
<1>5. Radix \in Nat /\ LONG2 \in Nat /\ SEQUENCE \in Nat
  BY Constants
<1>6. i \notin {0, 1, 9}
  BY <1>1, <1>4
<1>7. ASSUME NEW k \in 0..3, i = 2 + 2 * k PROVE FALSE
  <2>1. CertLen(store, k) = Radix * SEQUENCE + LONG2
    BY <1>3, <1>7
  <2>2. Radix * SEQUENCE \in Nat
    BY <1>5
  <2> QED
    BY <1>2, <1>5, <2>1, <2>2
<1>8. ASSUME NEW k \in 0..3, i + 1 = 2 + 2 * k PROVE FALSE
  <2>1. CertLen(store, k) = Radix * LONG2 + Byte(store, 2 + 2 * k + 1)
    BY <1>3, <1>8
  <2> DEFINE p == Radix * LONG2
             b == Byte(store, 2 + 2 * k + 1)
  <2>2. p \in Nat /\ b \in Nat /\ CertLen(store, k) = p + b
    BY <1>3, <1>5, <2>1
  <2>3. Len(store) <= p /\ 10 + CertLen(store, k) <= Len(store)
    BY <1>1, <1>2
  <2> HIDE DEF p, b
  <2> QED
    BY <1>2, <2>2, <2>3
<1>9. i \in {2, 4, 6, 8} \/ i + 1 \in {4, 6, 8}
  BY <1>6
<1>10. CASE i \in {2, 4, 6, 8}
  <2>1. \E k \in 0..3 : i = 2 + 2 * k
    BY <1>10
  <2> QED
    BY <1>7, <2>1
<1>11. CASE i + 1 \in {4, 6, 8}
  <2>1. \E k \in 0..3 : i + 1 = 2 + 2 * k
    BY <1>11
  <2> QED
    BY <1>8, <2>1
<1> QED
  BY <1>9, <1>10, <1>11

\* Where a certificate begins, it is found.
LEMMA HeaderThere ==
  ASSUME StoreInv, Ordinary(store), NEW k \in 0..3, i = CertFrom(store, k)
  PROVE  IsHeader /\ Found = Certificate(store, k)
<1>1. /\ Byte(store, i) = SEQUENCE /\ Byte(store, i + 1) = LONG2
      /\ BigEndian(store, i + 2) = CertLen(store, k) - 4
  BY DEF Ordinary, WellFormed
<1>2. CertLen(store, k) \in Nat /\ i + CertLen(store, k) <= Len(store)
  BY Layout
<1>3. Found = Piece(i, CertLen(store, k))
  BY <1>1, <1>2 DEF Found
<1> QED
  BY <1>1, <1>2, <1>3 DEF IsHeader, Certificate, Piece

\* An entry that the table would have to begin with reaches out of the store.
LEMMA EntryReachesOut ==
  ASSUME StoreInv, Ordinary(store), i = 0, pc = "table"
  PROVE  Entry.to > Len(store)
<1>1. Len(store) \in Nat /\ Len(store) >= 30
  BY StoreTypes, Layout
<1>2. Byte(store, 10) = SEQUENCE /\ Byte(store, 11) = LONG2
  BY Layout DEF Ordinary, WellFormed
<1>3. LittleEndian(store, 10) = SEQUENCE + Radix * LONG2 /\ LittleEndian(store, 8) \in Nat
  BY <1>1, <1>2, EndianTypes
<1>4. Entry.to = LittleEndian(store, 8) + LittleEndian(store, 10)
  BY DEF Entry, Piece
<1>5. Radix * LONG2 \in Nat /\ SEQUENCE \in Nat /\ SEQUENCE # 0 /\ Len(store) <= Radix * LONG2
  BY Constants DEF Ordinary
<1> QED
  BY <1>1, <1>3, <1>4, <1>5

LEMMA SplitStep ==
  ASSUME StoreInv, SplitInv, [Next]_vars
  PROVE  SplitInv'
<1>t. /\ Len(store) \in Nat /\ Len(chip) \in Nat /\ i \in Nat
      /\ certs \in Seq(Pieces) /\ Len(certs) \in Nat
  BY StoreTypes
\* What has been read stays read.
<1>w. WholeRead'
  <2>1. CASE ReadBlock \/ RequestFails \/ WriteFails
    BY <2>1 DEF ReadBlock, RequestFails, WriteFails, WholeRead
  <2>2. CASE ReadAll
    BY <2>2 DEF ReadAll, StoreInv, WholeRead, ReadAfter
  <2>3. CASE UNCHANGED <<chip, store>> /\ pc # "read" /\ pc # "failed"
    BY <2>3 DEF SplitInv, WholeRead, ReadAfter
  <2>4. CASE TakeEntry \/ LeaveTable \/ EndTable \/ TakeCert \/ SkipByte \/ EndScan \/ WriteFile \/ Finish
    BY <2>3, <2>4 DEF TakeEntry, LeaveTable, EndTable, TakeCert, SkipByte, EndScan, WriteFile, Finish
  <2>5. CASE UNCHANGED vars
    BY <2>5 DEF vars, SplitInv, WholeRead, ReadAfter
  <2> QED
    BY <2>1, <2>2, <2>4, <2>5 DEF Next, Step, Ended
<1> SUFFICES ASSUME Ordinary(chip)'
    PROVE  /\ pc' = "table" => i' = 0
           /\ pc' = "scan" => \E n \in 0..4 : Taken(n)' /\ At(n)'
           /\ pc' \in {"write", "done"} => Taken(4)'
  BY <1>w DEF SplitInv
<1>c. chip' = chip
  BY DEF Next, Step, Ended, vars, ReadBlock, RequestFails, ReadAll, TakeEntry, LeaveTable, EndTable,
         TakeCert, SkipByte, EndScan, WriteFile, WriteFails, Finish
<1>o. Ordinary(chip)
  BY <1>c DEF Ordinary, WellFormed, CertFrom, CertLen, BigEndian, Byte
<1>s. pc \notin {"read", "failed"} => store = chip /\ Ordinary(store)
  BY <1>o, WholeStore DEF SplitInv
<1>i. /\ pc = "table" => i = 0
      /\ pc = "scan" => \E n \in 0..4 : Taken(n) /\ At(n)
      /\ pc \in {"write", "done"} => Taken(4)
  BY <1>o DEF SplitInv
<1>1. CASE ReadBlock \/ RequestFails \/ WriteFails
  BY <1>1 DEF ReadBlock, RequestFails, WriteFails, StoreInv
<1>2. CASE ReadAll
  <2>1. pc = "read" /\ i' = 0 /\ UNCHANGED <<chip, store, certs>> /\ certs = <<>>
        /\ pc' \in {"failed", "table", "scan"}
    BY <1>2 DEF ReadAll, StoreInv
  <2>2. Taken(0)' /\ At(0)'
    BY <2>1 DEF Taken, At
  <2> QED
    BY <2>1, <2>2
<1>3. CASE TakeEntry \/ EndTable
  <2>1. pc = "table" /\ i = 0 /\ store = chip /\ Ordinary(store)
    BY <1>3, <1>i, <1>s DEF TakeEntry, EndTable
  <2>2. Entry.to > Len(store)
    BY <2>1, EntryReachesOut
  <2>3. LittleEndian(store, 6) # 0
    <3>1. LittleEndian(store, 6) > 0
      BY <2>1 DEF StoreInv, HasTable
    <3> QED
      BY <3>1
  <2>4. Entry.to \in Nat
    <3>1. LittleEndian(store, 6) \in Nat
      <4>1. Len(store) >= 30
        BY <2>1, Layout
      <4> QED
        BY <1>t, <4>1, EndianTypes
    <3> QED
      BY <2>1, <2>3, <3>1, EntryIs DEF Pieces
  <2> QED
    BY <1>t, <1>3, <2>1, <2>2, <2>3, <2>4 DEF TakeEntry, EndTable
<1>4. CASE LeaveTable
  <2>1. pc' = "scan" /\ i' = 0 /\ certs' = <<>>
    BY <1>4 DEF LeaveTable
  <2>2. Taken(0)' /\ At(0)'
    BY <2>1 DEF Taken, At
  <2> QED
    BY <2>1, <2>2
<1>5. CASE TakeCert
  <2>1. /\ pc = "scan" /\ i < Len(store) - 4 /\ IsHeader /\ UNCHANGED <<chip, pc, store>>
        /\ certs' = Append(certs, Found) /\ i' = Found.to
    BY <1>5 DEF TakeCert
  <2>2. Ordinary(store) /\ Found \in Pieces
    BY <1>s, <2>1, FoundIs
  <2>3. PICK n \in 0..4 : Taken(n) /\ At(n)
    BY <1>i, <2>1
  <2>4. /\ Len(certs') = Len(certs) + 1 /\ certs'[Len(certs) + 1] = Found
        /\ \A k \in 1..Len(certs) : certs'[k] = certs[k]
    BY <1>t, <2>1, <2>2, AppendProperties
  <2>5. CASE n = 4
    <3>1. Len(certs) >= 4 /\ \A k \in 1..4 : certs[k] = Certificate(store, k - 1)
      BY <2>3, <2>5 DEF Taken
    <3>2. Len(certs') >= 4 /\ \A k \in 1..4 : certs'[k] = Certificate(store, k - 1)
      BY <1>t, <2>4, <3>1
    <3>3. i >= Behind(store) /\ Behind(store) \in Nat
      BY <2>2, <2>3, <2>5, BehindIs DEF At
    <3>4. ~NothingBehind(store)
      BY <1>t, <2>1, <3>3 DEF NothingBehind, IsHeader
    <3>5. i' >= Behind(store)
      BY <1>t, <2>1, <3>3, FoundIs
    <3>6. Taken(4)' /\ At(4)'
      BY <2>1, <3>2, <3>4, <3>5 DEF Taken, At, NoMore
    <3> QED
      BY <2>1, <3>6
  <2>6. CASE n # 4
    <3>1. n \in 0..3 /\ n + 1 \in 1..4 /\ Len(certs) = n /\ \A k \in 1..n : certs[k] = Certificate(store, k - 1)
      BY <2>3, <2>6 DEF Taken
    <3>2. i = CertFrom(store, n)
      <4>1. CASE n = 0
        <5>1. i <= 10
          BY <2>3, <4>1 DEF At
        <5>2. i \notin 0..9
          BY <2>1, <2>2, NoHeaderBefore
        <5>3. i = 10
          BY <1>t, <5>1, <5>2
        <5> QED
          BY <2>2, <4>1, <5>3, Layout
      <4>2. CASE n # 0
        BY <2>3, <3>1, <4>2 DEF At
      <4> QED
        BY <4>1, <4>2
    <3>3. Found = Certificate(store, n)
      BY <2>2, <3>1, <3>2, HeaderThere
    <3>4. Len(certs') = n + 1 /\ \A k \in 1..(n + 1) : certs'[k] = Certificate(store, k - 1)
      BY <1>t, <2>4, <3>1, <3>3
    <3>5. Taken(n + 1)'
      BY <2>1, <3>1, <3>4 DEF Taken, NoMore
    <3>6. n + 1 < 4 => i' = CertFrom(store, n + 1)
      <4>1. Found.to = CertFrom(store, n) + CertLen(store, n)
        BY <3>3 DEF Certificate, Piece
      <4>2. n + 1 < 4 => CertFrom(store, n + 1) = CertFrom(store, n) + CertLen(store, n)
        <5>1. n + 1 < 4 => n \in 0..2
          BY <3>1
        <5> QED
          BY <2>2, <5>1, Layout, Zenon
      <4> QED
        BY <2>1, <4>1, <4>2
    <3>7. n = 3 => i' = Behind(store)
      BY <2>1, <3>3 DEF Certificate, Piece, Behind
    <3>8. At(n + 1)'
      <4>1. CASE n = 3
        BY <2>1, <2>2, <3>7, <4>1, BehindIs DEF At
      <4>2. CASE n # 3
        BY <2>1, <3>1, <3>6, <4>2 DEF At
      <4> QED
        BY <4>1, <4>2
    <3> QED
      BY <2>1, <3>1, <3>5, <3>8
  <2> QED
    BY <2>5, <2>6
<1>6. CASE SkipByte
  <2>1. /\ pc = "scan" /\ i < Len(store) - 4 /\ ~IsHeader /\ UNCHANGED <<chip, pc, store, certs>>
        /\ i' = i + 1
    BY <1>6 DEF SkipByte
  <2>2. Ordinary(store)
    BY <1>s, <2>1
  <2>3. PICK n \in 0..4 : Taken(n) /\ At(n)
    BY <1>i, <2>1
  <2>4. Taken(n)'
    BY <2>1, <2>3 DEF Taken, NoMore
  <2>5. CASE n = 0
    <3>1. i <= 10 /\ i # 10
      <4>1. i <= 10
        BY <2>3, <2>5 DEF At
      <4> QED
        BY <2>1, <2>2, <4>1, HeaderThere, Layout
    <3>2. At(0)'
      BY <1>t, <2>1, <3>1 DEF At
    <3> QED
      BY <2>1, <2>4, <2>5, <3>2
  <2>6. CASE n = 4
    <3>1. i >= Behind(store) /\ Behind(store) \in Nat
      BY <2>2, <2>3, <2>6, BehindIs DEF At
    <3>2. At(4)'
      BY <1>t, <2>1, <3>1 DEF At
    <3> QED
      BY <2>1, <2>4, <2>6, <3>2
  <2>7. CASE n \in 1..3
    <3>1. i = CertFrom(store, n)
      BY <2>3, <2>7 DEF At
    <3> QED
      BY <2>1, <2>2, <2>7, <3>1, HeaderThere
  <2> QED
    BY <2>5, <2>6, <2>7
<1>7. CASE EndScan
  <2>1. pc = "scan" /\ i >= Len(store) - 4 /\ UNCHANGED <<chip, store, i, certs>> /\ pc' = "write"
    BY <1>7 DEF EndScan
  <2>2. Ordinary(store)
    BY <1>s, <2>1
  <2>3. PICK n \in 0..4 : Taken(n) /\ At(n)
    BY <1>i, <2>1
  <2>4. CASE n = 0
    <3>1. i <= 10 /\ Len(store) >= 30
      BY <2>2, <2>3, <2>4, Layout DEF At
    <3> QED
      BY <1>t, <2>1, <3>1
  <2>5. CASE n \in 1..3
    <3>1. i = CertFrom(store, n) /\ CertFrom(store, n) < Len(store) - 4
      <4>1. n \in 0..3 /\ n < 4 /\ n # 0
        BY <2>5
      <4>2. CertFrom(store, n) < Len(store) - 4
        BY <2>2, <4>1, Layout, Zenon
      <4> QED
        BY <2>3, <4>1, <4>2 DEF At
    <3> QED
      BY <1>t, <2>1, <3>1
  <2>6. CASE n = 4
    <3>1. Taken(4)'
      BY <2>1, <2>3, <2>6 DEF Taken, NoMore
    <3> QED
      BY <2>1, <3>1
  <2> QED
    BY <2>4, <2>5, <2>6
<1>8. CASE WriteFile \/ Finish
  BY <1>8, <1>i DEF WriteFile, Finish, Taken, NoMore
<1>9. CASE UNCHANGED vars
  <2>1. pc' = pc /\ i' = i /\ store' = store /\ certs' = certs
    BY <1>9 DEF vars
  <2>2. \A n \in 0..4 : (Taken(n) => Taken(n)') /\ (At(n) => At(n)')
    BY <2>1 DEF Taken, At, NoMore
  <2> QED
    BY <1>i, <2>1, <2>2
<1> QED
  BY <1>1, <1>2, <1>3, <1>4, <1>5, <1>6, <1>7, <1>8, <1>9 DEF Next, Step, Ended

LEMMA FourAreFound ==
  ASSUME StoreInv, SplitInv, pc = "done", Ordinary(chip)
  PROVE  FirstFour /\ store = chip /\ NoMore
<1>1. store = chip /\ Taken(4) /\ NoMore
  BY WholeStore DEF SplitInv, Taken
<1>2. Len(certs) >= 4 /\ \A k \in 1..4 : certs[k] = Certificate(chip, k - 1)
  BY <1>1 DEF Taken
<1>3. certs[1] = Certificate(chip, 0)
  BY <1>2
<1>4. CertLen(chip, 0) = BigEndian(chip, 2)
  BY DEF CertLen
<1>5. CertFrom(store, 0) = 10 /\ 10 + CertLen(store, 0) <= Len(store) /\ Len(store) >= 30
  <2>1. Ordinary(store)
    BY <1>1
  <2>2. CertFrom(store, 0) = 10 /\ CertFrom(store, 0) + CertLen(store, 0) <= Len(store) /\ Len(store) >= 30
    BY <2>1, Layout
  <2> QED
    BY <2>1, <2>2
<1>6. certs[1] = Piece(10, BigEndian(chip, 2))
  BY <1>1, <1>3, <1>4, <1>5 DEF Certificate
<1>7. Len(chip) >= 10 /\ Byte(chip, 0) = 1 /\ Byte(chip, 1) = 4
  BY DEF Ordinary, WellFormed
<1>8. BigEndian(chip, 2) \in Nat /\ Len(chip) \in Nat
  BY <1>1, <1>5, StoreTypes, EndianTypes
<1>9. extractChipPublicKey(chip) = ExtractSubjectPublicKey(BytesOf(chip, Piece(10, BigEndian(chip, 2))))
  BY <1>1, <1>4, <1>5, <1>7, <1>8 DEF extractChipPublicKey
<1> QED
  BY <1>1, <1>2, <1>6, <1>9 DEF FirstFour

LEMMA SplitHolds == Spec => [](StoreInv /\ SplitInv)
<1>1. Init => SplitInv
  BY DEF Init, SplitInv, WholeRead
<1> QED
  BY <1>1, StoreStarts, StoreStep, SplitStep, PTL DEF Spec

\* Both readers see the same certificates in every ordinary store: the first files
\* that the example program writes are the four that the header describes, and
\* the driver takes the key from the bytes of the first of them.
THEOREM SameCertificates == Spec => [](pc = "done" /\ Ordinary(chip) => FirstFour)
<1>1. StoreInv /\ SplitInv => (pc = "done" /\ Ordinary(chip) => FirstFour)
  BY FourAreFound
<1> QED
  BY <1>1, SplitHolds, PTL

-----------------------------------------------------------------------------
\* Lengths.

ByteStrings == Seq(0..(Radix - 1))

LEMMA RadixIs ==
  /\ Radix \in Nat /\ Radix >= 4
  /\ LongForm \in Nat \ {0} /\ Radix = 2 * LongForm
BY Asn1DerAssumption DEF LongForm

\* The powers are what their definition says.
LEMMA PowersAre ==
  /\ Powers[0] = 1
  /\ \A k \in 1..IntOctets : Powers[k] = Powers[k - 1] * Radix
<1> DEFINE N == IntOctets
           X == Int
           c == 1
           F == [k \in 1..N |-> [x \in X |-> x * Radix]]
           P == Powers
<1>1. N \in Nat /\ Radix \in Int /\ c \in X
  BY Asn1DerAssumption
<1>2. P = CHOOSE f : f = [k \in 0..N |-> IF k = 0 THEN c ELSE f[k - 1] * Radix]
  BY DEF Powers
<1> HIDE DEF P, N
<1>3. F \in [1..N -> [X -> X]] /\ \A k \in 1..N, x \in X : F[k][x] = x * Radix
  BY <1>1
<1> HIDE DEF F, X, c
<1>4. PICK h \in [0..N -> X] : h[0] = c /\ \A k \in 1..N : h[k] = F[k][h[k - 1]]
  BY <1>1, <1>3, Recursion, SMTT(30)
<1>5. h = [k \in 0..N |-> IF k = 0 THEN c ELSE h[k - 1] * Radix]
  <2>1. ASSUME NEW k \in 0..N PROVE h[k] = IF k = 0 THEN c ELSE h[k - 1] * Radix
    <3>1. CASE k = 0
      BY <1>4, <3>1
    <3>2. CASE k # 0
      <4>1. k \in 1..N /\ k - 1 \in 0..N
        BY <1>1, <3>2
      <4> QED
        BY <1>3, <1>4, <3>2, <4>1
    <3> QED
      BY <3>1, <3>2
  <2>2. h = [k \in 0..N |-> h[k]]
    OBVIOUS
  <2> QED
    BY <2>1, <2>2
<1>6. P = [k \in 0..N |-> IF k = 0 THEN c ELSE P[k - 1] * Radix]
  BY <1>2, <1>5, Zenon
<1>7. P[0] = c /\ \A k \in 1..N : P[k] = P[k - 1] * Radix
  BY <1>1, <1>6
<1> QED
  BY <1>7 DEF P, N, c

\* The powers grow faster than the number of bytes.
LEMMA PowersGrow ==
  \A k \in 0..IntOctets : Powers[k] \in Nat /\ Powers[k] > k /\ (k > 0 => Powers[k] > k + 1)
<1> DEFINE Grows(k) == Powers[k] \in Nat /\ Powers[k] > k /\ (k > 0 => Powers[k] > k + 1)
           S == {k \in Nat : k <= IntOctets => Grows(k)}
<1>1. IntOctets \in Nat
  BY Asn1DerAssumption
<1>2. 0 \in S
  BY PowersAre
<1>3. ASSUME NEW n \in Nat, n \in S PROVE n + 1 \in S
  <2> SUFFICES ASSUME n + 1 <= IntOctets PROVE Grows(n + 1)
    OBVIOUS
  <2> DEFINE a == Powers[n]
             b == Powers[n + 1]
  <2>1. a \in Nat /\ a > n
    BY <1>1, <1>3
  <2>2. b = a * Radix
    <3> DEFINE p == n + 1
    <3>1. p \in 1..IntOctets /\ p - 1 = n
      BY <1>1
    <3> HIDE DEF p
    <3>2. Powers[p] = Powers[n] * Radix
      BY <3>1, PowersAre
    <3> QED
      BY <3>2 DEF p
  <2> HIDE DEF a, b
  <2>3. b \in Nat /\ b >= a * 4
    BY <2>1, <2>2, RadixIs
  <2>4. b > n + 2
    BY <2>1, <2>3
  <2> QED
    BY <2>3, <2>4 DEF b
<1>4. Nat \subseteq S
  <2> HIDE DEF S
  <2> QED
    BY <1>2, <1>3, SetInduction
<1> QED
  BY <1>1, <1>4

\* Numbers below half of an int's range are what they are, ...
LEMMA SmallInt ==
  ASSUME NEW n \in Nat, 2 * n < IntValues
  PROVE  AsInt(n) = n
<1>1. IntValues \in Nat /\ n < IntValues
  BY PowersGrow, Asn1DerAssumption DEF IntValues
<1>2. n % IntValues = n
  BY <1>1
<1> QED
  BY <1>1, <1>2 DEF AsInt

\* ... and so is every length of fewer bytes, with its header.
LEMMA FewOctetsFit ==
  ASSUME NEW k \in 1..(IntOctets - 1), NEW n \in Nat, n < Powers[k]
  PROVE  2 * n < IntValues /\ 2 * (2 + k + n) < IntValues
<1> DEFINE p == Powers[k]
           q == Powers[k + 1]
<1>1. IntOctets \in Nat
  BY Asn1DerAssumption
<1>2. ASSUME NEW j \in 1..IntOctets PROVE Powers[j] <= IntValues
  <2> DEFINE S == {m \in Nat : m <= IntOctets - j => Powers[j] <= Powers[j + m]}
  <2>1. 0 \in S
    BY <1>1, PowersGrow
  <2>2. ASSUME NEW m \in Nat, m \in S PROVE m + 1 \in S
    <3> SUFFICES ASSUME m + 1 <= IntOctets - j PROVE Powers[j] <= Powers[j + (m + 1)]
      OBVIOUS
    <3> DEFINE t == j + (m + 1)
    <3>1. t \in 1..IntOctets /\ t - 1 = j + m /\ t - 1 \in 0..IntOctets
      BY <1>1
    <3> HIDE DEF t
    <3>2. Powers[t] = Powers[t - 1] * Radix /\ Powers[t - 1] \in Nat
      BY <3>1, PowersAre, PowersGrow
    <3>3. Powers[t - 1] <= Powers[t]
      BY <3>2, RadixIs
    <3>4. Powers[j] <= Powers[t - 1]
      BY <1>1, <2>2, <3>1
    <3>5. Powers[j] \in Nat /\ Powers[t] \in Nat
      BY <1>1, <3>1, PowersGrow
    <3>6. Powers[j] <= Powers[t]
      BY <3>2, <3>3, <3>4, <3>5
    <3> QED
      BY <3>6 DEF t
  <2>3. Nat \subseteq S
    <3> HIDE DEF S
    <3> QED
      BY <2>1, <2>2, SetInduction
  <2>4. IntOctets - j \in Nat /\ j + (IntOctets - j) = IntOctets
    BY <1>1
  <2> QED
    BY <2>3, <2>4 DEF IntValues
<1>3. k + 1 \in 1..IntOctets /\ k \in 1..IntOctets /\ (k + 1) - 1 = k
  BY <1>1
<1>4. p \in Nat /\ p > k + 1 /\ n < p
  BY <1>1, PowersGrow
<1>5. q = p * Radix
  <2> DEFINE t == k + 1
  <2>1. t \in 1..IntOctets /\ t - 1 = k
    BY <1>3
  <2> HIDE DEF t
  <2>2. Powers[t] = Powers[k] * Radix
    BY <2>1, PowersAre
  <2> QED
    BY <2>2 DEF t
<1>6. q <= IntValues /\ IntValues \in Nat
  BY <1>1, <1>2, <1>3, PowersGrow DEF IntValues
<1> HIDE DEF p, q
<1>7. q >= 4 * p /\ q \in Nat
  BY <1>4, <1>5, RadixIs
<1> QED
  BY <1>3, <1>4, <1>6, <1>7

-----------------------------------------------------------------------------
\* An element that is read from a slice of the certificate.

\* d[from:to] of the source, counted from 1.
Slice(d, from, to) == SubSeq(d, from, to - 1)

LEMMA SliceIs ==
  ASSUME NEW d \in ByteStrings, NEW p \in 1..(Len(d) + 1), NEW e \in p..(Len(d) + 1)
  PROVE  /\ Slice(d, p, e) \in ByteStrings
         /\ Len(Slice(d, p, e)) = e - p
         /\ \A k \in 1..(e - p) : Slice(d, p, e)[k] = d[p + k - 1]
<1>1. Len(d) \in Nat /\ d \in Seq(0..(Radix - 1))
  BY LenProperties DEF ByteStrings
<1>2. e - 1 \in Int /\ (p <= e - 1 => p \in 1..Len(d) /\ e - 1 \in p..Len(d))
  BY <1>1
<1>3. CASE p <= e - 1
  <2> DEFINE f == e - 1
  <2>1. ASSUME NEW k \in p..f PROVE d[k] \in 0..(Radix - 1)
    <3>1. k \in 1..Len(d)
      BY <1>1
    <3> QED
      BY <1>1, <3>1, ElementOfSeq
  <2>2. f \in Int /\ p \in Int /\ p <= f /\ f - p + 1 = e - p
    BY <1>1, <1>3
  <2> HIDE DEF f
  <2>3. /\ SubSeq(d, p, f) \in Seq(0..(Radix - 1))
        /\ Len(SubSeq(d, p, f)) = f - p + 1
        /\ \A k \in 1..(f - p + 1) : SubSeq(d, p, f)[k] = d[p + k - 1]
    BY <2>1, <2>2, SubSeqProperties
  <2> QED
    BY <2>2, <2>3 DEF f, Slice, ByteStrings
<1>4. CASE p = e
  <2>1. SubSeq(d, p, e - 1) = <<>>
    BY <1>1, <1>4, SubSeqEmpty
  <2> QED
    BY <2>1, <1>4 DEF Slice, ByteStrings
<1> QED
  BY <1>1, <1>3, <1>4

\* A slice of a slice.
LEMMA SliceOfSlice ==
  ASSUME NEW d \in ByteStrings, NEW p \in 1..(Len(d) + 1), NEW e \in p..(Len(d) + 1),
         NEW a \in 0..(e - p), NEW b \in a..(e - p)
  PROVE  SubSeq(Slice(d, p, e), a + 1, b) = Slice(d, p + a, p + b)
<1> DEFINE s == Slice(d, p, e)
           t == Slice(s, a + 1, b + 1)
           u == Slice(d, p + a, p + b)
<1>1. Len(d) \in Nat
  BY LenProperties DEF ByteStrings
<1>2. s \in ByteStrings /\ Len(s) = e - p /\ \A k \in 1..(e - p) : s[k] = d[p + k - 1]
  BY SliceIs
<1> HIDE DEF s
<1>3. a + 1 \in 1..(Len(s) + 1) /\ b + 1 \in (a + 1)..(Len(s) + 1)
  BY <1>1, <1>2
<1>4. t \in ByteStrings /\ Len(t) = b - a /\ \A k \in 1..(b - a) : t[k] = s[a + k]
  <2> DEFINE f == a + 1
             g == b + 1
  <2>1. f \in 1..(Len(s) + 1) /\ g \in f..(Len(s) + 1) /\ g - f = b - a /\ \A k \in Int : f + k - 1 = a + k
    BY <1>1, <1>3
  <2> HIDE DEF f, g
  <2>2. /\ Slice(s, f, g) \in ByteStrings /\ Len(Slice(s, f, g)) = g - f
        /\ \A k \in 1..(g - f) : Slice(s, f, g)[k] = s[f + k - 1]
    BY <1>2, <2>1, SliceIs
  <2>3. ASSUME NEW k \in 1..(b - a) PROVE Slice(s, f, g)[k] = s[a + k]
    <3>1. k \in 1..(g - f) /\ f + k - 1 = a + k
      BY <2>1
    <3>2. Slice(s, f, g)[k] = s[f + k - 1]
      BY <2>2, <3>1, Zenon
    <3> QED
      BY <3>1, <3>2, Zenon
  <2> QED
    BY <2>1, <2>2, <2>3 DEF f, g
<1>6. u \in ByteStrings /\ Len(u) = b - a /\ \A k \in 1..(b - a) : u[k] = d[p + a + k - 1]
  <2> DEFINE f == p + a
             g == p + b
  <2>1. f \in 1..(Len(d) + 1) /\ g \in f..(Len(d) + 1) /\ g - f = b - a
    BY <1>1
  <2> HIDE DEF f, g
  <2>2. /\ Slice(d, f, g) \in ByteStrings /\ Len(Slice(d, f, g)) = g - f
        /\ \A k \in 1..(g - f) : Slice(d, f, g)[k] = d[f + k - 1]
    BY <2>1, SliceIs
  <2>3. Len(Slice(d, f, g)) = b - a /\ \A k \in 1..(b - a) : Slice(d, f, g)[k] = d[f + k - 1]
    BY <2>1, <2>2
  <2> QED
    BY <2>2, <2>3 DEF f, g
<1>t. t = SubSeq(s, a + 1, b)
  BY <1>1 DEF Slice
<1> HIDE DEF t, u
<1>8. ASSUME NEW k \in 1..(b - a) PROVE t[k] = u[k]
  <2> DEFINE j == a + k
  <2>1. j \in 1..(e - p) /\ p + j - 1 = p + a + k - 1
    BY <1>1
  <2>2. t[k] = s[j] /\ u[k] = d[p + a + k - 1]
    BY <1>4, <1>6
  <2> QED
    BY <1>2, <2>1, <2>2
<1>9. t = u
  BY <1>4, <1>6, <1>8, SeqEqual DEF ByteStrings
<1> QED
  BY <1>9, <1>t DEF s, u

LEMMA AsIntIsInt ==
  ASSUME NEW n \in Int
  PROVE  AsInt(n) \in Int
<1>1. IntValues \in Nat /\ IntValues > 0
  BY PowersGrow, Asn1DerAssumption DEF IntValues
<1>2. n % IntValues \in Int
  BY <1>1
<1> QED
  BY <1>1, <1>2 DEF AsInt

\* The loop over the octets of a length, on the code's ints, ...
LEMMA ValLensAre ==
  ASSUME NEW data \in ByteStrings, Len(data) >= 2, 2 + Octets(data) <= Len(data)
  PROVE  /\ ValLens(data)[0] = 0
         /\ \A k \in 1..Octets(data) : ValLens(data)[k] = AsInt(ValLens(data)[k - 1] * Radix + data[2 + k])
<1> DEFINE N == Octets(data)
           X == Int
           c == 0
           F == [k \in 1..N |-> [x \in X |-> AsInt(x * Radix + data[2 + k])]]
           P == ValLens(data)
<1>0. Len(data) \in Nat /\ \A k \in 1..Len(data) : data[k] \in 0..(Radix - 1)
  BY LenProperties, ElementOfSeq DEF ByteStrings
<1>1. N \in Nat /\ Radix \in Int /\ c \in X /\ \A k \in 1..N : data[2 + k] \in Int
  BY <1>0, RadixIs DEF Octets
<1>2. P = CHOOSE f : f = [k \in 0..N |-> IF k = 0 THEN c ELSE AsInt(f[k - 1] * Radix + data[2 + k])]
  BY DEF ValLens
<1> HIDE DEF P, N
<1>a. ASSUME NEW k \in 1..N, NEW x \in X PROVE AsInt(x * Radix + data[2 + k]) \in X
  <2>1. data[2 + k] \in Int
    BY <1>1, Zenon
  <2>2. x * Radix + data[2 + k] \in Int
    BY <1>1, <2>1
  <2> QED
    BY <2>2, AsIntIsInt
<1>b. N \in Nat /\ c \in X
  BY <1>1
<1> HIDE DEF X, c
<1>c. F \in [1..N -> [X -> X]]
  BY <1>a
<1>3. \A k \in 1..N, x \in X : F[k][x] = AsInt(x * Radix + data[2 + k])
  BY <1>a
<1> HIDE DEF F
<1>4. PICK h \in [0..N -> X] : h[0] = c /\ \A k \in 1..N : h[k] = F[k][h[k - 1]]
  BY <1>b, <1>c, Recursion, SMTT(30)
<1>5. h = [k \in 0..N |-> IF k = 0 THEN c ELSE AsInt(h[k - 1] * Radix + data[2 + k])]
  <2>1. ASSUME NEW k \in 0..N PROVE h[k] = IF k = 0 THEN c ELSE AsInt(h[k - 1] * Radix + data[2 + k])
    <3>1. CASE k = 0
      BY <1>4, <3>1
    <3>2. CASE k # 0
      <4>1. k \in 1..N /\ k - 1 \in 0..N
        BY <1>1, <3>2
      <4> QED
        BY <1>3, <1>4, <3>2, <4>1
    <3> QED
      BY <3>1, <3>2
  <2>2. h = [k \in 0..N |-> h[k]]
    OBVIOUS
  <2> QED
    BY <2>1, <2>2
<1>6. P = [k \in 0..N |-> IF k = 0 THEN c ELSE AsInt(P[k - 1] * Radix + data[2 + k])]
  BY <1>2, <1>5, Zenon
<1>7. P[0] = c /\ \A k \in 1..N : P[k] = AsInt(P[k - 1] * Radix + data[2 + k])
  BY <1>1, <1>6
<1> QED
  BY <1>7 DEF P, N, c

\* ... and on numbers.
LEMMA TrueLengthsAre ==
  ASSUME NEW d \in ByteStrings, NEW p \in 1..(Len(d) - 1), p + 1 + OctetsAt(d, p) <= Len(d)
  PROVE  /\ TrueLengths(d, p)[0] = 0
         /\ \A k \in 1..OctetsAt(d, p) : TrueLengths(d, p)[k] = TrueLengths(d, p)[k - 1] * Radix + d[p + 1 + k]
<1> DEFINE N == OctetsAt(d, p)
           X == Int
           c == 0
           F == [k \in 1..N |-> [x \in X |-> x * Radix + d[p + 1 + k]]]
           P == TrueLengths(d, p)
<1>0. Len(d) \in Nat /\ \A k \in 1..Len(d) : d[k] \in 0..(Radix - 1)
  BY LenProperties, ElementOfSeq DEF ByteStrings
<1>1. N \in Nat /\ Radix \in Int /\ c \in X /\ \A k \in 1..N : d[p + 1 + k] \in Int
  BY <1>0, RadixIs DEF OctetsAt
<1>2. P = CHOOSE f : f = [k \in 0..N |-> IF k = 0 THEN c ELSE f[k - 1] * Radix + d[p + 1 + k]]
  BY DEF TrueLengths
<1> HIDE DEF P, N
<1>a. ASSUME NEW k \in 1..N, NEW x \in X PROVE x * Radix + d[p + 1 + k] \in X
  <2>1. d[p + 1 + k] \in Int
    BY <1>1, Zenon
  <2> QED
    BY <1>1, <2>1
<1>b. N \in Nat /\ c \in X
  BY <1>1
<1> HIDE DEF X, c
<1>c. F \in [1..N -> [X -> X]]
  BY <1>a
<1>3. \A k \in 1..N, x \in X : F[k][x] = x * Radix + d[p + 1 + k]
  BY <1>a
<1> HIDE DEF F
<1>4. PICK h \in [0..N -> X] : h[0] = c /\ \A k \in 1..N : h[k] = F[k][h[k - 1]]
  BY <1>b, <1>c, Recursion
<1>5. h = [k \in 0..N |-> IF k = 0 THEN c ELSE h[k - 1] * Radix + d[p + 1 + k]]
  <2>1. ASSUME NEW k \in 0..N PROVE h[k] = IF k = 0 THEN c ELSE h[k - 1] * Radix + d[p + 1 + k]
    <3>1. CASE k = 0
      BY <1>4, <3>1
    <3>2. CASE k # 0
      <4>1. k \in 1..N /\ k - 1 \in 0..N
        BY <1>1, <3>2
      <4> QED
        BY <1>3, <1>4, <3>2, <4>1
    <3> QED
      BY <3>1, <3>2
  <2>2. h = [k \in 0..N |-> h[k]]
    OBVIOUS
  <2> QED
    BY <2>1, <2>2
<1>6. P = [k \in 0..N |-> IF k = 0 THEN c ELSE P[k - 1] * Radix + d[p + 1 + k]]
  BY <1>2, <1>5, Zenon
<1>7. P[0] = c /\ \A k \in 1..N : P[k] = P[k - 1] * Radix + d[p + 1 + k]
  BY <1>1, <1>6
<1> QED
  BY <1>7 DEF P, N, c


\* Where lengths fit, the loop of the code finds the length of the element.
LEMMA LengthsAgree ==
  ASSUME NEW d \in ByteStrings, NEW p \in 1..(Len(d) - 1), NEW e \in (p + 2)..(Len(d) + 1),
         OctetsAt(d, p) \in 1..(IntOctets - 1), ContentAt(d, p) <= e, IsLong(Slice(d, p, e)),
         Octets(Slice(d, p, e)) = OctetsAt(d, p), p + 2 + OctetsAt(d, p) <= e
  PROVE  /\ ValLen(Slice(d, p, e)) = TrueLengths(d, p)[OctetsAt(d, p)]
         /\ TrueLengths(d, p)[OctetsAt(d, p)] \in Nat
         /\ TrueLengths(d, p)[OctetsAt(d, p)] < Powers[OctetsAt(d, p)]
<1> DEFINE N == OctetsAt(d, p)
           s == Slice(d, p, e)
           V == ValLens(s)
           T == TrueLengths(d, p)
           Agree(k) == V[k] = T[k] /\ T[k] \in Nat /\ T[k] < Powers[k]
           S == {k \in Nat : k <= N => Agree(k)}
<1>1. Len(d) \in Nat /\ N \in 1..(IntOctets - 1) /\ IntOctets \in Nat /\ p + 2 + N <= e
  BY LenProperties, Asn1DerAssumption DEF ByteStrings
<1>2. s \in ByteStrings /\ Len(s) = e - p /\ \A k \in 1..(e - p) : s[k] = d[p + k - 1]
  <2>1. p \in 1..(Len(d) + 1) /\ e \in p..(Len(d) + 1)
    BY <1>1
  <2> QED
    BY <2>1, SliceIs
<1>3. Octets(s) = N
  OBVIOUS
<1>4. V[0] = 0 /\ \A k \in 1..N : V[k] = AsInt(V[k - 1] * Radix + s[2 + k])
  <2>1. Len(s) >= 2 /\ 2 + Octets(s) <= Len(s)
    BY <1>1, <1>2, <1>3
  <2> HIDE DEF s, N
  <2> QED
    BY <1>2, <1>3, <2>1, ValLensAre
<1>5. T[0] = 0 /\ \A k \in 1..N : T[k] = T[k - 1] * Radix + d[p + 1 + k]
  <2>1. p + 1 + OctetsAt(d, p) <= Len(d)
    BY <1>1
  <2> QED
    BY <2>1, TrueLengthsAre
<1>6. ASSUME NEW k \in 1..N PROVE s[2 + k] = d[p + 1 + k] /\ d[p + 1 + k] \in 0..(Radix - 1)
  <2>1. 2 + k \in 1..(e - p) /\ p + (2 + k) - 1 = p + 1 + k /\ p + 1 + k \in 1..Len(d)
    BY <1>1
  <2>2. s[2 + k] = d[p + (2 + k) - 1]
    BY <1>2, <2>1, Zenon
  <2>3. d[p + 1 + k] \in 0..(Radix - 1)
    BY <2>1, ElementOfSeq DEF ByteStrings
  <2> QED
    BY <2>1, <2>2, <2>3
<1> HIDE DEF N, s, V, T
<1>7. 0 \in S
  BY <1>1, <1>4, <1>5, PowersAre
<1>8. ASSUME NEW n \in Nat, n \in S PROVE n + 1 \in S
  <2> SUFFICES ASSUME n + 1 <= N PROVE Agree(n + 1)
    OBVIOUS
  <2> DEFINE k == n + 1
             t == T[n]
             w == Powers[n]
             b == d[p + 1 + k]
  <2>1. k \in 1..N /\ k - 1 = n /\ k \in 1..(IntOctets - 1) /\ k \in 1..IntOctets /\ n \in 0..IntOctets
    BY <1>1
  <2>2. V[n] = t /\ t \in Nat /\ t < w /\ w \in Nat
    BY <1>1, <1>8, <2>1, PowersGrow
  <2> HIDE DEF k
  <2>3. b \in 0..(Radix - 1) /\ s[2 + k] = b
    BY <1>6, <2>1
  <2>4. T[k] = t * Radix + b /\ V[k] = AsInt(t * Radix + b)
    BY <1>4, <1>5, <2>1, <2>2, <2>3
  <2>5. Powers[k] = w * Radix
    BY <2>1, PowersAre
  <2> HIDE DEF t, w, b
  <2>6. t * Radix + b \in Nat /\ t * Radix + b < w * Radix
    <3>1. Radix \in Nat /\ Radix > 0
      BY RadixIs
    <3>2. t + 1 <= w
      BY <2>2
    <3>3. (t + 1) * Radix <= w * Radix
      BY <2>2, <3>1, <3>2
    <3>4. (t + 1) * Radix = t * Radix + Radix /\ t * Radix \in Nat /\ w * Radix \in Nat
      BY <2>2, <3>1
    <3> DEFINE u == t * Radix
               z == w * Radix
    <3>5. u + Radix <= z /\ u \in Nat /\ z \in Nat
      BY <3>3, <3>4
    <3> HIDE DEF u, z
    <3>6. u + b \in Nat /\ u + b < z
      BY <2>3, <3>1, <3>5
    <3> QED
      BY <3>6 DEF u, z
  <2>7. AsInt(t * Radix + b) = t * Radix + b
    BY <2>1, <2>5, <2>6, FewOctetsFit, SmallInt
  <2>8. Agree(k)
    BY <2>4, <2>5, <2>6, <2>7
  <2> HIDE DEF Agree
  <2> QED
    BY <2>8 DEF k
<1>9. Nat \subseteq S
  <2> HIDE DEF S
  <2> QED
    BY <1>7, <1>8, SetInduction
<1>10. Agree(N)
  BY <1>1, <1>9
<1> QED
  BY <1>3, <1>10 DEF ValLen, V, T, s, N

\* A length is a number, of however many octets.
LEMMA LengthIsNat ==
  ASSUME NEW d \in ByteStrings, NEW p \in 1..(Len(d) - 1), NEW e \in (p + 2)..(Len(d) + 1),
         IsElement(d, p, e)
  PROVE  /\ ContentAt(d, p) \in (p + 2)..e /\ TrueLength(d, p) \in Nat
         /\ EndAt(d, p) \in ContentAt(d, p)..e
<1> DEFINE N == OctetsAt(d, p)
           T == TrueLengths(d, p)
           S == {k \in Nat : k <= N => T[k] \in Nat}
<1>1. Len(d) \in Nat /\ p + 1 \in 1..Len(d) /\ e <= Len(d) + 1
  BY LenProperties DEF ByteStrings
<1>2. d[p + 1] \in Nat /\ Radix \in Nat
  <2>1. d[p + 1] \in 0..(Radix - 1)
    BY <1>1, ElementOfSeq DEF ByteStrings
  <2> QED
    BY <2>1, RadixIs
<1>3. N \in Nat
  BY <1>2, RadixIs DEF OctetsAt
<1>4. ContentAt(d, p) <= e /\ EndAt(d, p) <= e
  BY DEF IsElement
<1>5. CASE d[p + 1] < LongForm
  BY <1>1, <1>2, <1>4, <1>5 DEF ContentAt, TrueLength, EndAt
<1>6. CASE ~(d[p + 1] < LongForm)
  <2>1. ContentAt(d, p) = p + 2 + N /\ TrueLength(d, p) = T[N]
    BY <1>6 DEF ContentAt, TrueLength
  <2>2. T[0] = 0 /\ \A k \in 1..N : T[k] = T[k - 1] * Radix + d[p + 1 + k]
    <3>1. p + 1 + OctetsAt(d, p) <= Len(d)
      BY <1>1, <1>3, <1>4, <2>1
    <3> QED
      BY <3>1, TrueLengthsAre
  <2>3. ASSUME NEW k \in 1..N PROVE d[p + 1 + k] \in Nat
    <3>1. p + 1 + k \in 1..Len(d)
      BY <1>1, <1>3, <1>4, <2>1
    <3>2. d[p + 1 + k] \in 0..(Radix - 1)
      BY <3>1, ElementOfSeq DEF ByteStrings
    <3> QED
      BY <1>2, <3>2
  <2> HIDE DEF N, T
  <2>4. 0 \in S
    BY <2>2
  <2>5. ASSUME NEW n \in Nat, n \in S PROVE n + 1 \in S
    <3> SUFFICES ASSUME n + 1 <= N PROVE T[n + 1] \in Nat
      OBVIOUS
    <3> DEFINE k == n + 1
               t == T[n]
               b == d[p + 1 + k]
    <3>1. k \in 1..N /\ k - 1 = n /\ n <= N
      BY <1>3
    <3> HIDE DEF k
    <3>2. t \in Nat /\ b \in Nat /\ T[k] = t * Radix + b
      BY <2>2, <2>3, <2>5, <3>1
    <3> HIDE DEF t, b
    <3>3. T[k] \in Nat
      BY <1>2, <3>2
    <3> QED
      BY <3>3 DEF k
  <2>6. Nat \subseteq S
    <3> HIDE DEF S
    <3> QED
      BY <2>4, <2>5, SetInduction
  <2>7. T[N] \in Nat
    BY <1>3, <2>6
  <2> DEFINE t == T[N]
             c == ContentAt(d, p)
             f == EndAt(d, p)
  <2>8. f = c + t
    BY <2>1 DEF EndAt
  <2> HIDE DEF t, c, f
  <2>9. c \in (p + 2)..e /\ f \in c..e
    BY <1>1, <1>3, <1>4, <2>1, <2>7, <2>8 DEF c, f, t
  <2> QED
    BY <2>1, <2>7, <2>9 DEF c, f
<1> QED
  BY <1>5, <1>6

\* What parseTLV finds at the beginning of a slice, and that it never ends before
\* it starts.
LEMMA Parsed ==
  ASSUME NEW d \in ByteStrings, NEW p \in 1..(Len(d) - 1), NEW e \in (p + 2)..(Len(d) + 1),
         LengthFits(d, p)
  PROVE  LET s == Slice(d, p, e) IN
         /\ parseTLV(s).ok <=> IsElement(d, p, e)
         /\ IsElement(d, p, e) =>
              /\ parseTLV(s).total = EndAt(d, p) - p
              /\ HeaderLen(s) = ContentAt(d, p) - p
              /\ ContentAt(d, p) \in (p + 2)..e
              /\ TrueLength(d, p) \in Nat
              /\ EndAt(d, p) \in ContentAt(d, p)..e
<1> DEFINE s == Slice(d, p, e)
           b == d[p + 1]
           N == OctetsAt(d, p)
<1>1. Len(d) \in Nat /\ IntOctets \in Nat /\ e - p >= 2
  BY LenProperties, Asn1DerAssumption DEF ByteStrings
<1>2. Len(s) = e - p /\ s[2] = b /\ s \in ByteStrings
  <2>1. p \in 1..(Len(d) + 1) /\ e \in p..(Len(d) + 1) /\ 2 \in 1..(e - p) /\ p + 2 - 1 = p + 1
    BY <1>1
  <2> QED
    BY <2>1, SliceIs
<1>3. b \in 0..(Radix - 1) /\ (b < LongForm \/ b % LongForm < IntOctets)
  <2>1. p + 1 \in 1..Len(d)
    BY <1>1
  <2> QED
    BY <2>1, ElementOfSeq DEF ByteStrings, LengthFits, OctetsAt
<1>4. IsElement(d, p, e) <=> b # LongForm /\ ContentAt(d, p) <= e /\ EndAt(d, p) <= e
  BY <1>1 DEF IsElement
<1>5. CASE b < LongForm
  <2>1. /\ ~IsLong(s) /\ HeaderLen(s) = 2
        /\ parseTLV(s) = IF 2 + b > e - p THEN Truncated ELSE [ok |-> TRUE, total |-> 2 + b]
    BY <1>1, <1>2, <1>3, <1>5, RadixIs DEF parseTLV, IsLong, HeaderLen, Within
  <2>2. ContentAt(d, p) = p + 2 /\ TrueLength(d, p) = b /\ EndAt(d, p) = p + 2 + b
    BY <1>5 DEF ContentAt, EndAt, TrueLength
  <2>3. parseTLV(s).ok <=> 2 + b <= e - p
    BY <1>1, <1>3, <2>1, RadixIs DEF Truncated
  <2>4. 2 + b <= e - p => parseTLV(s).total = 2 + b
    BY <1>1, <1>3, <2>1, RadixIs
  <2>5. b # LongForm /\ b \in Nat
    BY <1>3, <1>5, RadixIs
  <2> QED
    BY <1>1, <1>4, <2>1, <2>2, <2>3, <2>4, <2>5
<1>6. CASE b >= LongForm
  <2>1. N = b - LongForm /\ N = b % LongForm /\ N \in 0..(IntOctets - 1)
    <3>1. N = b % LongForm
      BY DEF OctetsAt
    <3> HIDE DEF b, N
    <3>2. b \in LongForm..(2 * LongForm - 1) /\ LongForm \in Nat \ {0}
      BY <1>3, <1>6, RadixIs
    <3>3. b % LongForm = b - LongForm
      BY <3>2
    <3>4. N < IntOctets
      BY <1>3, <1>6, <3>1, <3>2
    <3> QED
      BY <1>1, <3>1, <3>2, <3>3, <3>4
  <2>2. Octets(s) = N /\ IsLong(s) /\ HeaderLen(s) = 2 + N
    BY <1>2, <1>6, <2>1 DEF Octets, IsLong, HeaderLen
  <2>3. ContentAt(d, p) = p + 2 + N /\ TrueLength(d, p) = TrueLengths(d, p)[N]
    BY <1>3, <1>6, RadixIs DEF ContentAt, TrueLength
  <2> HIDE DEF s, N, b
  <2>4. CASE N = 0 \/ 2 + N > e - p
    <3>1. parseTLV(s) = Truncated
      BY <1>1, <1>2, <2>1, <2>2, <2>4 DEF parseTLV
    <3>2. ~IsElement(d, p, e)
      BY <1>1, <1>3, <1>4, <2>1, <2>3, <2>4, RadixIs
    <3> QED
      BY <3>1, <3>2 DEF Truncated, s
  <2>5. CASE N # 0 /\ 2 + N <= e - p
    <3> DEFINE v == TrueLengths(d, p)[N]
    <3>1. ValLen(s) = v /\ v \in Nat /\ v < Powers[N]
      <4>1. OctetsAt(d, p) \in 1..(IntOctets - 1) /\ p + 2 + OctetsAt(d, p) <= e
        BY <1>1, <2>1, <2>5 DEF N
      <4>2. ContentAt(d, p) <= e
        BY <1>1, <2>1, <2>3, <2>5
      <4>3. IsLong(Slice(d, p, e)) /\ Octets(Slice(d, p, e)) = OctetsAt(d, p)
        BY <2>2 DEF s, N
      <4> QED
        BY <4>1, <4>2, <4>3, LengthsAgree DEF s, N
    <3>2. AsInt(2 + N + v) = 2 + N + v
      <4>1. N \in 1..(IntOctets - 1) /\ 2 + N + v \in Nat
        BY <1>1, <2>1, <2>5, <3>1
      <4> HIDE DEF v
      <4>2. 2 * (2 + N + v) < IntValues
        BY <3>1, <4>1, FewOctetsFit
      <4> QED
        BY <4>1, <4>2, SmallInt
    <3> HIDE DEF v
    <3>3. parseTLV(s) = IF 2 + N + v > e - p THEN Truncated ELSE [ok |-> TRUE, total |-> 2 + N + v]
      <4>1. parseTLV(s) = Within(s, AsInt(2 + Octets(s) + ValLen(s)))
        BY <1>1, <1>2, <2>1, <2>2, <2>5 DEF parseTLV
      <4> QED
        BY <1>2, <2>2, <3>1, <3>2, <4>1 DEF Within
    <3>4. EndAt(d, p) = p + 2 + N + v /\ TrueLength(d, p) = v
      BY <2>3 DEF EndAt, v
    <3>5. IsElement(d, p, e) <=> 2 + N + v <= e - p
      BY <1>1, <1>3, <1>4, <2>1, <2>3, <2>5, <3>1, <3>4, RadixIs
    <3>6. parseTLV(s).ok <=> 2 + N + v <= e - p
      BY <1>1, <2>1, <3>1, <3>3 DEF Truncated
    <3>7. 2 + N + v <= e - p => parseTLV(s).total = 2 + N + v
      BY <1>1, <2>1, <3>1, <3>3
    <3>8. parseTLV(s).ok <=> IsElement(d, p, e)
      BY <3>5, <3>6
    <3>9. IsElement(d, p, e) => /\ parseTLV(s).total = EndAt(d, p) - p
                                /\ ContentAt(d, p) \in (p + 2)..e
                                /\ EndAt(d, p) \in ContentAt(d, p)..e
      BY <1>1, <2>1, <2>3, <2>5, <3>1, <3>4, <3>5, <3>7, SMTT(30)
    <3>10. HeaderLen(s) = ContentAt(d, p) - p
      BY <1>1, <2>1, <2>2, <2>3
    <3> QED
      BY <3>1, <3>4, <3>8, <3>9, <3>10 DEF s
  <2> QED
    BY <1>1, <2>1, <2>4, <2>5
<1> QED
  BY <1>3, <1>5, <1>6, RadixIs

LEMMA ContentIs ==
  ASSUME NEW d \in ByteStrings, NEW p \in 1..(Len(d) - 1), NEW e \in (p + 2)..(Len(d) + 1),
         LengthFits(d, p)
  PROVE  tlvContent(Slice(d, p, e)) =
           IF IsElement(d, p, e) THEN Bytes(Slice(d, ContentAt(d, p), EndAt(d, p))) ELSE Error
<1> DEFINE s == Slice(d, p, e)
           c == ContentAt(d, p)
           f == EndAt(d, p)
<1>0. Len(d) \in Nat
  BY LenProperties DEF ByteStrings
<1>1. CASE ~IsElement(d, p, e)
  BY <1>1, Parsed DEF tlvContent
<1>2. CASE IsElement(d, p, e)
  <2>1. /\ parseTLV(s).ok /\ parseTLV(s).total = f - p /\ HeaderLen(s) = c - p
        /\ c \in (p + 2)..e /\ f \in c..e
    BY <1>2, Parsed
  <2> HIDE DEF c, f
  <2> DEFINE g == c - p
             h == f - p
  <2>2. /\ p \in 1..(Len(d) + 1) /\ e \in p..(Len(d) + 1) /\ g \in 0..(e - p) /\ h \in g..(e - p)
        /\ p + g = c /\ p + h = f /\ ~(h < g)
    BY <1>0, <2>1
  <2>3. tlvContent(s) = Bytes(SubSeq(s, g + 1, h))
    BY <2>1, <2>2 DEF tlvContent
  <2> HIDE DEF g, h
  <2>4. SubSeq(s, g + 1, h) = Slice(d, p + g, p + h)
    BY <2>2, SliceOfSlice
  <2>5. tlvContent(s) = Bytes(Slice(d, c, f))
    BY <2>2, <2>3, <2>4
  <2> QED
    BY <1>2, <2>5 DEF c, f
<1> QED
  BY <1>1, <1>2

-----------------------------------------------------------------------------
\* The recursive search is what its definition says: it calls itself on shorter
\* inputs only.

LEMMA ValLenIsInt ==
  ASSUME NEW data \in ByteStrings, Len(data) >= 2, 2 + Octets(data) <= Len(data)
  PROVE  ValLen(data) \in Int
<1> DEFINE N == Octets(data)
           V == ValLens(data)
           S == {k \in Nat : k <= N => V[k] \in Int}
<1>1. Len(data) \in Nat /\ \A k \in 1..Len(data) : data[k] \in 0..(Radix - 1)
  BY LenProperties, ElementOfSeq DEF ByteStrings
<1>2. N \in Nat /\ 2 + N <= Len(data)
  BY <1>1, RadixIs DEF Octets
<1>3. V[0] = 0 /\ \A k \in 1..N : V[k] = AsInt(V[k - 1] * Radix + data[2 + k])
  BY ValLensAre
<1> HIDE DEF N, V
<1>4. 0 \in S
  BY <1>3
<1>5. ASSUME NEW n \in Nat, n \in S PROVE n + 1 \in S
  <2> SUFFICES ASSUME n + 1 <= N PROVE V[n + 1] \in Int
    OBVIOUS
  <2> DEFINE k == n + 1
  <2>1. k \in 1..N /\ k - 1 = n /\ 2 + k \in 1..Len(data)
    BY <1>1, <1>2
  <2> HIDE DEF k
  <2>2. V[n] \in Int /\ data[2 + k] \in Int /\ Radix \in Int
    BY <1>1, <1>2, <1>5, <2>1, RadixIs
  <2>3. V[n] * Radix + data[2 + k] \in Int
    BY <2>2
  <2>4. V[k] = AsInt(V[n] * Radix + data[2 + k])
    BY <1>3, <2>1
  <2>5. V[k] \in Int
    BY <2>3, <2>4, AsIntIsInt
  <2> QED
    BY <2>5 DEF k
<1>6. Nat \subseteq S
  <2> HIDE DEF S
  <2> QED
    BY <1>4, <1>5, SetInduction
<1> QED
  BY <1>2, <1>6 DEF ValLen, N, V

Rest(data) == SubSeq(data, parseTLV(data).total + 1, Len(data))

LEMMA Shorter ==
  ASSUME NEW data \in ByteStrings, Len(data) >= 2, tlvContent(data).kind = "bytes"
  PROVE  /\ tlvContent(data).bytes \in ByteStrings /\ Len(tlvContent(data).bytes) < Len(data)
         /\ Rest(data) \in ByteStrings /\ Len(Rest(data)) < Len(data)
<1> DEFINE n == Len(data)
           t == parseTLV(data).total
           h == HeaderLen(data)
<1>1. n \in Nat /\ data[2] \in 0..(Radix - 1)
  <2>1. n \in Nat
    BY LenProperties DEF ByteStrings
  <2>2. 2 \in 1..n
    BY <2>1
  <2> QED
    BY <2>1, <2>2, ElementOfSeq DEF ByteStrings
<1>2. parseTLV(data).ok /\ ~(t < h) /\ tlvContent(data).bytes = SubSeq(data, h + 1, t)
  <2>1. tlvContent(data) # Error /\ tlvContent(data) # Panic
    BY DEF Error, Panic
  <2>2. parseTLV(data).ok /\ ~(t < h)
    BY <2>1 DEF tlvContent
  <2>3. tlvContent(data) = Bytes(SubSeq(data, h + 1, t))
    BY <2>2 DEF tlvContent
  <2>4. Bytes(SubSeq(data, h + 1, t)).bytes = SubSeq(data, h + 1, t)
    BY DEF Bytes
  <2> HIDE DEF h, t
  <2> QED
    BY <2>2, <2>3, <2>4, Zenon
<1>3. h \in Nat /\ h >= 2
  BY <1>1, RadixIs DEF HeaderLen, Octets
<1>4. t \in Int /\ t <= n
  <2>1. CASE ~IsLong(data)
    BY <1>1, <1>2, <2>1, RadixIs DEF parseTLV, Within, Truncated
  <2>2. CASE IsLong(data)
    <3>1. 2 + Octets(data) <= n
      BY <1>1, <1>2, <2>2, RadixIs DEF parseTLV, Truncated, Octets
    <3>2. 2 + Octets(data) + ValLen(data) \in Int
      BY <1>1, <3>1, ValLenIsInt, RadixIs DEF Octets
    <3> DEFINE a == AsInt(2 + Octets(data) + ValLen(data))
    <3>3. a \in Int
      BY <3>2, AsIntIsInt
    <3>4. parseTLV(data) = Truncated \/ parseTLV(data) = Within(data, a)
      BY <2>2 DEF parseTLV
    <3> HIDE DEF a
    <3> QED
      BY <1>1, <1>2, <3>3, <3>4 DEF Within, Truncated
  <2> QED
    BY <2>1, <2>2
<1> HIDE DEF t, h
<1>5. /\ Slice(data, h + 1, t + 1) \in ByteStrings
      /\ Len(Slice(data, h + 1, t + 1)) = (t + 1) - (h + 1)
  <2> DEFINE f == h + 1
             g == t + 1
  <2>1. f \in 1..(Len(data) + 1) /\ g \in f..(Len(data) + 1)
    BY <1>1, <1>2, <1>3, <1>4 DEF t
  <2> HIDE DEF f, g
  <2>2. Slice(data, f, g) \in ByteStrings /\ Len(Slice(data, f, g)) = g - f
    BY <2>1, SliceIs
  <2> QED
    BY <2>2 DEF f, g
<1>6. /\ Slice(data, t + 1, n + 1) \in ByteStrings
      /\ Len(Slice(data, t + 1, n + 1)) = (n + 1) - (t + 1)
  <2> DEFINE f == t + 1
             g == n + 1
  <2>1. f \in 1..(Len(data) + 1) /\ g \in f..(Len(data) + 1)
    BY <1>1, <1>2, <1>3, <1>4
  <2> HIDE DEF f, g
  <2>2. Slice(data, f, g) \in ByteStrings /\ Len(Slice(data, f, g)) = g - f
    BY <2>1, SliceIs
  <2> QED
    BY <2>2 DEF f, g
<1>8. Slice(data, h + 1, t + 1) = tlvContent(data).bytes /\ Slice(data, t + 1, n + 1) = Rest(data)
  <2> HIDE DEF n
  <2>1. ASSUME NEW x, NEW y \in Int PROVE Slice(data, x, y + 1) = SubSeq(data, x, y)
    <3> DEFINE z == y + 1
    <3>1. z - 1 = y
      OBVIOUS
    <3> HIDE DEF z
    <3>2. Slice(data, x, z) = SubSeq(data, x, z - 1)
      BY DEF Slice
    <3>3. Slice(data, x, z) = SubSeq(data, x, y)
      BY <3>1, <3>2, Zenon
    <3> QED
      BY <3>3 DEF z
  <2>2. Rest(data) = SubSeq(data, t + 1, n)
    BY DEF Rest, t, n
  <2> QED
    <3>1. t \in Int /\ n \in Int
      BY <1>1, <1>4
    <3> QED
      BY <1>2, <2>1, <2>2, <3>1, Zenon
<1>9. (t + 1) - (h + 1) < n /\ (n + 1) - (t + 1) < n
  BY <1>1, <1>2, <1>3, <1>4
<1> QED
  BY <1>5, <1>6, <1>8, <1>9

\* One call of findBitString, with f for the calls in it.
Search(f, data) ==
  IF Len(data) < 2 THEN Error
  ELSE LET content == tlvContent(data)
       IN  IF content.kind # "bytes" THEN content
           ELSE IF data[1] = BIT_STRING
                THEN IF Len(content.bytes) < 2 THEN Error ELSE Bytes(Tail(content.bytes))
                ELSE LET inner == IF Descends(data[1]) THEN f[content.bytes] ELSE Error
                     IN  IF inner.kind # "error" THEN inner ELSE f[Rest(data)]

LEMMA SearchAgrees ==
  ASSUME NEW f, NEW g, NEW data \in ByteStrings,
         \A s \in ByteStrings : Len(s) < Len(data) => f[s] = g[s]
  PROVE  Search(f, data) = Search(g, data)
<1>0. Len(data) \in Nat
  BY LenProperties DEF ByteStrings
<1>1. CASE Len(data) >= 2 /\ tlvContent(data).kind = "bytes"
  <2> DEFINE c == tlvContent(data).bytes
             r == Rest(data)
  <2>1. f[c] = g[c] /\ f[r] = g[r]
    BY <1>1, Shorter
  <2> QED
    BY <2>1 DEF Search
<1>2. CASE ~(Len(data) >= 2 /\ tlvContent(data).kind = "bytes")
  BY <1>0, <1>2 DEF Search
<1> QED
  BY <1>1, <1>2

\* f is the search on inputs of up to n bytes.
Solves(f, n) == \A data \in ByteStrings : Len(data) <= n => f[data] = Search(f, data)

LEMMA SolutionsExist == \A n \in Nat : \E f : Solves(f, n)
<1> DEFINE S == {n \in Nat : \E f : Solves(f, n)}
<1>0. \A data \in ByteStrings : Len(data) \in Nat
  BY LenProperties DEF ByteStrings
<1>1. 0 \in S
  <2> DEFINE g == [data \in ByteStrings |-> Error]
  <2>1. ASSUME NEW data \in ByteStrings, Len(data) <= 0 PROVE g[data] = Search(g, data)
    BY <1>0, <2>1 DEF Search
  <2> HIDE DEF g
  <2>2. Solves(g, 0)
    BY <2>1 DEF Solves
  <2> QED
    BY <2>2
<1>2. ASSUME NEW n \in Nat, n \in S PROVE n + 1 \in S
  <2>1. PICK f : Solves(f, n)
    BY <1>2
  <2> DEFINE g == [data \in ByteStrings |-> IF Len(data) <= n THEN f[data] ELSE Search(f, data)]
  <2>2. ASSUME NEW data \in ByteStrings PROVE g[data] = Search(f, data)
    BY <2>1 DEF Solves
  <2>3. ASSUME NEW data \in ByteStrings, Len(data) <= n PROVE g[data] = f[data]
    BY <2>3
  <2> HIDE DEF g
  <2>4. ASSUME NEW data \in ByteStrings, Len(data) <= n + 1 PROVE g[data] = Search(g, data)
    <3>1. \A s \in ByteStrings : Len(s) < Len(data) => f[s] = g[s]
      BY <1>0, <2>3, <2>4
    <3>2. Search(f, data) = Search(g, data)
      BY <3>1, SearchAgrees
    <3> QED
      BY <2>2, <3>2
  <2>5. Solves(g, n + 1)
    BY <2>4 DEF Solves
  <2> QED
    BY <2>5
<1>3. Nat \subseteq S
  <2> HIDE DEF S
  <2> QED
    BY <1>1, <1>2, SetInduction
<1> QED
  BY <1>3

LEMMA SolutionsAgree ==
  ASSUME NEW f, NEW g, NEW m \in Nat, NEW n \in Nat, Solves(f, m), Solves(g, n)
  PROVE  \A data \in ByteStrings : Len(data) <= m /\ Len(data) <= n => f[data] = g[data]
<1> DEFINE Same(k) == \A data \in ByteStrings : Len(data) < k /\ Len(data) <= m /\ Len(data) <= n => f[data] = g[data]
           S == {k \in Nat : Same(k)}
<1>0. \A data \in ByteStrings : Len(data) \in Nat
  BY LenProperties DEF ByteStrings
<1>1. 0 \in S
  BY <1>0
<1>2. ASSUME NEW k \in Nat, k \in S PROVE k + 1 \in S
  <2> SUFFICES ASSUME NEW data \in ByteStrings, Len(data) < k + 1, Len(data) <= m, Len(data) <= n
               PROVE  f[data] = g[data]
    OBVIOUS
  <2>1. \A s \in ByteStrings : Len(s) < Len(data) => f[s] = g[s]
    BY <1>0, <1>2
  <2>2. Search(f, data) = Search(g, data)
    BY <2>1, SearchAgrees
  <2> QED
    BY <2>2 DEF Solves
<1>3. Nat \subseteq S
  <2> HIDE DEF S
  <2> QED
    BY <1>1, <1>2, SetInduction
<1>4. ASSUME NEW data \in ByteStrings, Len(data) <= m, Len(data) <= n PROVE f[data] = g[data]
  <2>1. Len(data) + 1 \in Nat /\ Len(data) < Len(data) + 1
    BY <1>0
  <2>2. Same(Len(data) + 1)
    BY <1>3, <2>1
  <2> QED
    BY <1>4, <2>1, <2>2
<1> QED
  BY <1>4

LEMMA SearchIs ==
  \A data \in ByteStrings : findBitString[data] = Search(findBitString, data)
<1> DEFINE F(n) == CHOOSE f : Solves(f, n)
           h == [data \in ByteStrings |-> F(Len(data))[data]]
<1>0. \A data \in ByteStrings : Len(data) \in Nat
  BY LenProperties DEF ByteStrings
<1>1. \A n \in Nat : Solves(F(n), n)
  BY SolutionsExist
<1> HIDE DEF F
<1>2. ASSUME NEW data \in ByteStrings PROVE h[data] = Search(h, data)
  <2> DEFINE n == Len(data)
  <2>1. n \in Nat /\ Solves(F(n), n) /\ h[data] = F(n)[data]
    BY <1>0, <1>1
  <2>2. F(n)[data] = Search(F(n), data)
    BY <2>1 DEF Solves
  <2>3. ASSUME NEW s \in ByteStrings, Len(s) < n PROVE F(n)[s] = h[s]
    <3>1. Len(s) \in Nat /\ Solves(F(Len(s)), Len(s)) /\ h[s] = F(Len(s))[s]
      BY <1>0, <1>1
    <3>2. F(n)[s] = F(Len(s))[s]
      BY <2>1, <2>3, <3>1, SolutionsAgree
    <3> QED
      BY <3>1, <3>2
  <2> HIDE DEF h, n
  <2>4. Search(F(n), data) = Search(h, data)
    BY <2>3, SearchAgrees DEF n
  <2> QED
    BY <2>1, <2>2, <2>4
<1>3. h = [data \in ByteStrings |-> Search(h, data)]
  <2>1. h = [data \in ByteStrings |-> h[data]]
    OBVIOUS
  <2> HIDE DEF h
  <2> QED
    BY <1>2, <2>1
<1> HIDE DEF h
<1>4. findBitString = CHOOSE f : f = [data \in ByteStrings |-> Search(f, data)]
  BY DEF findBitString, Search, Rest, ByteStrings
<1>5. findBitString = [data \in ByteStrings |-> Search(findBitString, data)]
  BY <1>3, <1>4, Zenon
<1> QED
  BY <1>5

-----------------------------------------------------------------------------
\* The search by positions.

LEMMA FoundAt ==
  ASSUME NEW d \in ByteStrings, NEW p \in 1..(Len(d) + 1), NEW e \in p..(Len(d) + 1),
         p + 1 < e => LengthFits(d, p)
  PROVE  LET c == ContentAt(d, p)
             f == EndAt(d, p)
             found == findBitString[Slice(d, p, e)]
             inner == findBitString[Slice(d, c, f)]
             behind == findBitString[Slice(d, f, e)]
         IN  /\ ~IsElement(d, p, e) => found = Error
             /\ IsElement(d, p, e) =>
                  /\ d[p] = BIT_STRING =>
                       found = IF TrueLength(d, p) < 2 THEN Error ELSE Bytes(SubSeq(d, c + 1, f - 1))
                  /\ d[p] # BIT_STRING /\ ~Descends(d[p]) => found = behind
                  /\ d[p] # BIT_STRING /\ Descends(d[p]) => found = IF inner.kind # "error" THEN inner ELSE behind
<1> DEFINE c == ContentAt(d, p)
           f == EndAt(d, p)
           s == Slice(d, p, e)
           found == findBitString[s]
           inner == findBitString[Slice(d, c, f)]
           behind == findBitString[Slice(d, f, e)]
<1>1. Len(d) \in Nat
  BY LenProperties DEF ByteStrings
<1>2. s \in ByteStrings /\ Len(s) = e - p /\ \A k \in 1..(e - p) : s[k] = d[p + k - 1]
  BY SliceIs
<1>3. found = Search(findBitString, s)
  BY <1>2, SearchIs
<1>4. CASE e - p < 2
  <2>1. ~IsElement(d, p, e)
    BY <1>1, <1>4 DEF IsElement
  <2>2. found = Error
    BY <1>2, <1>3, <1>4 DEF Search
  <2> QED
    BY <2>1, <2>2
<1>5. CASE e - p >= 2
  <2>1. p \in 1..(Len(d) - 1) /\ e \in (p + 2)..(Len(d) + 1) /\ LengthFits(d, p)
    BY <1>1, <1>5
  <2>2. tlvContent(s) = IF IsElement(d, p, e) THEN Bytes(Slice(d, c, f)) ELSE Error
    BY <2>1, ContentIs
  <2>3. s[1] = d[p]
    <3>1. 1 \in 1..(e - p) /\ p + 1 - 1 = p
      BY <1>1, <1>5
    <3> QED
      BY <1>2, <3>1
  <2>4. ~(Len(s) < 2)
    BY <1>1, <1>2, <1>5
  <2>5. CASE ~IsElement(d, p, e)
    <3>1. tlvContent(s) = Error /\ Error.kind # "bytes"
      BY <2>2, <2>5 DEF Error
    <3>2. found = Error
      BY <1>3, <2>4, <3>1 DEF Search
    <3> QED
      BY <2>5, <3>2
  <2>6. CASE IsElement(d, p, e)
    <3> HIDE DEF c, f
    <3>1. /\ parseTLV(s).total = f - p /\ c \in (p + 2)..e /\ f \in c..e
          /\ TrueLength(d, p) \in Nat /\ f = c + TrueLength(d, p)
      BY <2>1, <2>6, Parsed DEF c, f, EndAt
    <3>2. /\ tlvContent(s).kind = "bytes"
          /\ tlvContent(s).bytes = Slice(d, c, f)
      BY <2>2, <2>6 DEF Bytes
    <3>3. Rest(s) = Slice(d, f, e)
      <4> DEFINE g == f - p
                 h == e - p
      <4>1. g \in 0..(e - p) /\ h \in g..(e - p) /\ p + g = f /\ p + h = e
        BY <1>1, <3>1
      <4>2. Rest(s) = SubSeq(s, g + 1, h)
        BY <1>2, <3>1 DEF Rest
      <4> HIDE DEF g, h
      <4>3. SubSeq(s, g + 1, h) = Slice(d, p + g, p + h)
        BY <4>1, SliceOfSlice
      <4> QED
        BY <4>1, <4>2, <4>3
    <3>4. c \in 1..(Len(d) + 1) /\ f \in c..(Len(d) + 1) /\ Len(Slice(d, c, f)) = TrueLength(d, p)
      <4>1. c \in 1..(Len(d) + 1) /\ f \in c..(Len(d) + 1)
        BY <1>1, <3>1
      <4>2. Len(Slice(d, c, f)) = f - c
        BY <4>1, SliceIs
      <4> QED
        BY <1>1, <3>1, <4>1, <4>2
    <3>5. TrueLength(d, p) >= 2 => Tail(Slice(d, c, f)) = SubSeq(d, c + 1, f - 1)
      <4> SUFFICES ASSUME TrueLength(d, p) >= 2
                   PROVE  Tail(Slice(d, c, f)) = SubSeq(d, c + 1, f - 1)
        OBVIOUS
      <4> DEFINE g == f - 1
      <4>1. c \in 1..Len(d) /\ g \in c..Len(d)
        BY <1>1, <3>1
      <4> HIDE DEF g
      <4>2. Tail(SubSeq(d, c, g)) = SubSeq(d, c + 1, g)
        BY <4>1, HeadTailOfSubSeq DEF ByteStrings
      <4> QED
        BY <4>2 DEF Slice, g
    <3>6. d[p] = BIT_STRING => found = IF TrueLength(d, p) < 2 THEN Error ELSE Bytes(SubSeq(d, c + 1, f - 1))
      <4> SUFFICES ASSUME d[p] = BIT_STRING
                   PROVE  found = IF TrueLength(d, p) < 2 THEN Error ELSE Bytes(SubSeq(d, c + 1, f - 1))
        OBVIOUS
      <4>1. found = IF Len(Slice(d, c, f)) < 2 THEN Error ELSE Bytes(Tail(Slice(d, c, f)))
        BY <1>3, <2>3, <2>4, <3>2 DEF Search
      <4>2. TrueLength(d, p) < 2 \/ TrueLength(d, p) >= 2
        BY <3>1
      <4> QED
        BY <3>4, <3>5, <4>1, <4>2
    <3>7. d[p] # BIT_STRING /\ ~Descends(d[p]) => found = behind
      <4>1. Error.kind = "error"
        BY DEF Error
      <4> QED
        BY <1>3, <2>3, <2>4, <3>2, <3>3, <4>1 DEF Search
    <3>8. d[p] # BIT_STRING /\ Descends(d[p]) => found = IF inner.kind # "error" THEN inner ELSE behind
      BY <1>3, <2>3, <2>4, <3>2, <3>3 DEF Search
    <3> QED
      BY <2>6, <3>6, <3>7, <3>8 DEF c, f
  <2> QED
    BY <2>5, <2>6
<1> QED
  BY <1>1, <1>4, <1>5

-----------------------------------------------------------------------------
\* The places that are reached from a place.

Pl(d) == {x \in (1..(Len(d) + 1)) \X (1..(Len(d) + 1)) : x[1] <= x[2]}

Leads(d, x, y) ==
  /\ IsElement(d, x[1], x[2])
  /\ \/ d[x[1]] # BIT_STRING /\ y = <<EndAt(d, x[1]), x[2]>>
     \/ Descends(d[x[1]]) /\ y = <<ContentAt(d, x[1]), EndAt(d, x[1])>>

LEMMA PlacesAfterIs ==
  ASSUME NEW d, NEW P, NEW y
  PROVE  y \in PlacesAfter(d, P) <=> \E x \in P : Leads(d, x, y)
BY DEF PlacesAfter, Leads, Descends

\* A step goes on, and stays inside.
LEMMA LeadsOn ==
  ASSUME NEW d \in ByteStrings, NEW x \in Pl(d), NEW y, Leads(d, x, y)
  PROVE  y \in Pl(d) /\ y[1] > x[1] /\ y[2] <= x[2]
<1> DEFINE p == x[1]
           e == x[2]
           c == ContentAt(d, p)
           f == EndAt(d, p)
<1>1. Len(d) \in Nat
  BY LenProperties DEF ByteStrings
<1>2. p \in 1..(Len(d) + 1) /\ e \in 1..(Len(d) + 1) /\ IsElement(d, p, e) /\ x = <<p, e>>
  BY DEF Pl, Leads
<1>3. p \in 1..(Len(d) - 1) /\ e \in (p + 2)..(Len(d) + 1)
  BY <1>1, <1>2 DEF IsElement
<1>4. c \in (p + 2)..e /\ f \in c..e
  BY <1>2, <1>3, LengthIsNat
<1>5. y = <<f, e>> \/ y = <<c, f>>
  BY DEF Leads
<1> HIDE DEF p, e, c, f
<1>6. y[1] \in 1..(Len(d) + 1) /\ y[2] \in 1..(Len(d) + 1) /\ y[1] <= y[2] /\ y[1] > p /\ y[2] <= e
      /\ y = <<y[1], y[2]>>
  BY <1>1, <1>3, <1>4, <1>5
<1> QED
  BY <1>6 DEF Pl, p, e

Closed(d, T) == \A u \in T : \A v \in Pl(d) : Leads(d, u, v) => v \in T

From(d, x) == {y \in Pl(d) : \A T \in SUBSET Pl(d) : x \in T /\ Closed(d, T) => y \in T}

LEMMA FromIsLeast ==
  ASSUME NEW d, NEW x \in Pl(d)
  PROVE  /\ x \in From(d, x) /\ From(d, x) \subseteq Pl(d) /\ Closed(d, From(d, x))
         /\ \A T \in SUBSET Pl(d) : x \in T /\ Closed(d, T) => From(d, x) \subseteq T
BY DEF From, Closed

LEMMA FromIs ==
  ASSUME NEW d, NEW x \in Pl(d)
  PROVE  \A z : z \in From(d, x) <=> z = x \/ \E y \in Pl(d) : Leads(d, x, y) /\ z \in From(d, y)
<1> DEFINE T == {z \in Pl(d) : z = x \/ \E y \in Pl(d) : Leads(d, x, y) /\ z \in From(d, y)}
<1>1. x \in T /\ T \subseteq Pl(d)
  OBVIOUS
<1>2. ASSUME NEW u \in T, NEW v \in Pl(d), Leads(d, u, v)
      PROVE  v \in T
  <2>1. CASE u = x
    BY <1>2, <2>1, FromIsLeast
  <2>2. CASE u # x
    <3>1. PICK y \in Pl(d) : Leads(d, x, y) /\ u \in From(d, y)
      BY <2>2
    <3>2. v \in From(d, y)
      BY <1>2, <3>1, FromIsLeast DEF Closed
    <3> QED
      BY <3>1, <3>2
  <2> QED
    BY <2>1, <2>2
<1>3. From(d, x) \subseteq T
  <2> HIDE DEF T
  <2>1. Closed(d, T)
    BY <1>2 DEF Closed
  <2> QED
    BY <1>1, <2>1, FromIsLeast
<1>4. ASSUME NEW y \in Pl(d), Leads(d, x, y)
      PROVE  From(d, y) \subseteq From(d, x)
  <2>1. y \in From(d, x)
    BY <1>4, FromIsLeast DEF Closed
  <2>2. From(d, x) \in SUBSET Pl(d) /\ Closed(d, From(d, x))
    BY FromIsLeast
  <2> QED
    BY <2>1, <2>2, FromIsLeast
<1>5. x \in From(d, x)
  BY FromIsLeast
<1>6. \A z \in From(d, x) : z = x \/ \E y \in Pl(d) : Leads(d, x, y) /\ z \in From(d, y)
  BY <1>3
<1> QED
  BY <1>4, <1>5, <1>6

LEMMA FromWithin ==
  ASSUME NEW d \in ByteStrings, NEW x \in Pl(d)
  PROVE  \A z \in From(d, x) : z[1] >= x[1] /\ z[2] <= x[2]
<1> DEFINE T == {z \in Pl(d) : z[1] >= x[1] /\ z[2] <= x[2]}
<1>0. Len(d) \in Nat /\ \A z \in Pl(d) : z[1] \in Int /\ z[2] \in Int
  BY LenProperties DEF Pl, ByteStrings
<1>1. x \in T /\ T \subseteq Pl(d)
  BY <1>0
<1>2. ASSUME NEW u \in T, NEW v \in Pl(d), Leads(d, u, v)
      PROVE  v \in T
  <2>1. v[1] > u[1] /\ v[2] <= u[2]
    BY <1>2, LeadsOn
  <2> QED
    BY <1>0, <2>1
<1>3. Closed(d, T)
  <2> HIDE DEF T
  <2> QED
    BY <1>2 DEF Closed
<1>4. From(d, x) \subseteq T
  <2> HIDE DEF T
  <2> QED
    BY <1>1, <1>3, FromIsLeast
<1> QED
  BY <1>4

-----------------------------------------------------------------------------
\* The search finds the first of the reached places that is a BIT STRING with a
\* content.

Full(d, P) == {x \in P : IsElement(d, x[1], x[2]) /\ d[x[1]] = BIT_STRING /\ TrueLength(d, x[1]) >= 2}

LEMMA LeastIs ==
  ASSUME NEW S \in SUBSET Nat, S # {}
  PROVE  Min(S) \in S /\ \A y \in S : Min(S) <= y
<1> DEFINE Less == OpToRel(<, Nat)
<1>1. IsWellFoundedOn(Less, Nat)
  BY NatLessThanWellFounded
<1>2. Less = {z \in Nat \X Nat : z[1] < z[2]}
  BY DEF OpToRel
<1> HIDE DEF Less
<1>3. PICK x \in S : \A y \in S : ~(<<y, x>> \in Less)
  BY <1>1, WFMin
<1>4. ASSUME NEW y \in S PROVE x <= y
  <2>1. x \in Nat /\ y \in Nat
    OBVIOUS
  <2>2. y < x => <<y, x>> \in Less
    BY <1>2, <2>1
  <2> QED
    BY <1>3, <2>1, <2>2
<1> QED
  BY <1>4 DEF Min

\* The first of two sets, one of which is before the other.
LEMMA EarliestOfTwo ==
  ASSUME NEW d \in ByteStrings, NEW A \in SUBSET Pl(d), NEW B \in SUBSET Pl(d), A # {},
         \A a \in A : ~(TrueLength(d, a[1]) < 2),
         \A a \in A : \A b \in B : a[1] <= b[1]
  PROVE  Earliest(d, A \union B) = Earliest(d, A) /\ Earliest(d, A).kind # "error"
<1> DEFINE S == {a[1] : a \in A}
           T == {a[1] : a \in A \union B}
<1>0. \A a \in Pl(d) : a[1] \in Nat
  BY LenProperties DEF Pl, ByteStrings
<1>1. S \in SUBSET Nat /\ S # {} /\ T \in SUBSET Nat /\ T # {} /\ S \subseteq T
  BY <1>0
<1>2. \A m \in S : \A t \in T : t \in S \/ m <= t
  OBVIOUS
<1>3. \A m \in S : ~(TrueLength(d, m) < 2)
  OBVIOUS
<1> HIDE DEF S, T
<1>4. Min(S) \in S /\ (\A y \in S : Min(S) <= y) /\ Min(T) \in T /\ \A y \in T : Min(T) <= y
  BY <1>1, LeastIs
<1>5. Min(T) = Min(S)
  <2> DEFINE m == Min(S)
             t == Min(T)
  <2>1. m \in Nat /\ t \in Nat
    BY <1>1, <1>4
  <2>2. t <= m /\ m <= t
    BY <1>1, <1>2, <1>4
  <2> HIDE DEF m, t
  <2>3. m = t
    BY <2>1, <2>2
  <2> QED
    BY <2>3 DEF m, t
<1>6. ~(TrueLength(d, Min(S)) < 2)
  BY <1>3, <1>4
<1>7. /\ Earliest(d, A) = Bytes(SubSeq(d, ContentAt(d, Min(S)) + 1, EndAt(d, Min(S)) - 1))
      /\ Earliest(d, A \union B) = Bytes(SubSeq(d, ContentAt(d, Min(T)) + 1, EndAt(d, Min(T)) - 1))
  BY <1>5, <1>6 DEF Earliest, S, T
<1>8. Earliest(d, A).kind # "error"
  BY <1>7 DEF Bytes
<1> QED
  BY <1>5, <1>7, <1>8

LEMMA FullIs ==
  ASSUME NEW d \in ByteStrings, NEW x \in Pl(d), IsElement(d, x[1], x[2])
  PROVE  TrueLength(d, x[1]) \in Nat
<1>1. Len(d) \in Nat /\ x[1] \in 1..(Len(d) + 1) /\ x[2] \in 1..(Len(d) + 1)
  BY LenProperties DEF Pl, ByteStrings
<1>2. x[1] \in 1..(Len(d) - 1) /\ x[2] \in (x[1] + 2)..(Len(d) + 1)
  BY <1>1 DEF IsElement
<1> QED
  BY <1>2, LengthIsNat

\* The lengths on the way from a place fit.
FitsFrom(d, x) == \A y \in From(d, x) : y[1] + 1 < y[2] => LengthFits(d, y[1])

LEMMA SearchFindsFirst ==
  ASSUME NEW d \in ByteStrings
  PROVE  \A x \in Pl(d) : FitsFrom(d, x) =>
           findBitString[Slice(d, x[1], x[2])] = Earliest(d, Full(d, From(d, x)))
<1> DEFINE Finds(x) == FitsFrom(d, x) =>
             findBitString[Slice(d, x[1], x[2])] = Earliest(d, Full(d, From(d, x)))
           S == {n \in Nat : \A x \in Pl(d) : x[2] - x[1] < n => Finds(x)}
<1>0. Len(d) \in Nat
  BY LenProperties DEF ByteStrings
<1>p. \A x \in Pl(d) : x[1] \in 1..(Len(d) + 1) /\ x[2] \in x[1]..(Len(d) + 1) /\ x = <<x[1], x[2]>>
  BY <1>0 DEF Pl
<1>1. 0 \in S
  BY <1>0, <1>p
<1>2. ASSUME NEW n \in Nat, n \in S PROVE n + 1 \in S
  <2> SUFFICES ASSUME NEW x \in Pl(d), x[2] - x[1] < n + 1, FitsFrom(d, x)
               PROVE  findBitString[Slice(d, x[1], x[2])] = Earliest(d, Full(d, From(d, x)))
    OBVIOUS
  <2> DEFINE p == x[1]
             e == x[2]
             c == ContentAt(d, p)
             f == EndAt(d, p)
             a == <<c, f>>
             b == <<f, e>>
  <2>1. p \in 1..(Len(d) + 1) /\ e \in p..(Len(d) + 1)
    BY <1>p
  <2>a. p + 1 < e => LengthFits(d, p)
    BY FromIsLeast DEF FitsFrom
  <2>2. ASSUME NEW y \in Pl(d), Leads(d, x, y)
        PROVE  findBitString[Slice(d, y[1], y[2])] = Earliest(d, Full(d, From(d, y)))
    <3>1. y[1] > x[1] /\ y[2] <= x[2]
      BY <2>2, LeadsOn
    <3>2. y[1] \in Int /\ y[2] \in Int /\ x[1] \in Int /\ x[2] \in Int
      BY <1>p, <1>0
    <3>3. y[2] - y[1] < n
      BY <3>1, <3>2
    <3>4. FitsFrom(d, y)
      BY <2>2, FromIs DEF FitsFrom
    <3> QED
      BY <1>2, <3>3, <3>4
  <2>3. \A y : Leads(d, x, y) => y \in Pl(d)
    BY LeadsOn
  <2>4. \A y : Leads(d, x, y) <=>
          /\ IsElement(d, p, e)
          /\ (d[p] # BIT_STRING /\ y = b) \/ (Descends(d[p]) /\ y = a)
    BY DEF Leads
  <2>5. \A z : z \in From(d, x) <=> z = x \/ \E y : Leads(d, x, y) /\ z \in From(d, y)
    BY <2>3, FromIs
  <2>6. ASSUME d[p] # BIT_STRING \/ ~IsElement(d, p, e)
        PROVE  \A z : z \in Full(d, From(d, x)) <=> \E y : Leads(d, x, y) /\ z \in Full(d, From(d, y))
    BY <2>5, <2>6 DEF Full
  <2>t. BIT_STRING \notin {SEQUENCE, SET}
    BY Asn1DerAssumption
  <2>7. CASE ~IsElement(d, p, e)
    <3>1. Full(d, From(d, x)) = {}
      BY <2>4, <2>6, <2>7
    <3>2. Earliest(d, Full(d, From(d, x))) = Error
      BY <3>1 DEF Earliest
    <3> QED
      BY <2>1, <2>7, <3>2, <2>a, FoundAt
  <2>8. CASE IsElement(d, p, e) /\ d[p] = BIT_STRING
    <3>1. From(d, x) = {x}
      BY <2>4, <2>5, <2>8, <2>t DEF Descends
    <3>2. findBitString[Slice(d, p, e)] = IF TrueLength(d, p) < 2 THEN Error ELSE Bytes(SubSeq(d, c + 1, f - 1))
      BY <2>1, <2>8, <2>a, FoundAt
    <3>3. TrueLength(d, p) \in Nat
      BY <2>8, FullIs
    <3>4. CASE TrueLength(d, p) < 2
      <4>1. Full(d, From(d, x)) = {}
        BY <3>1, <3>3, <3>4 DEF Full
      <4> QED
        BY <3>2, <3>4, <4>1 DEF Earliest
    <3>5. CASE TrueLength(d, p) >= 2
      <4>1. Full(d, From(d, x)) = {x}
        BY <2>8, <3>1, <3>5 DEF Full
      <4>2. {z[1] : z \in {x}} = {p}
        OBVIOUS
      <4>3. Min({p}) = p
        <5>1. {p} \in SUBSET Nat /\ {p} # {}
          BY <2>1
        <5>2. Min({p}) \in {p}
          BY <5>1, LeastIs
        <5> QED
          BY <5>2
      <4>4. ~(TrueLength(d, p) < 2)
        BY <3>3, <3>5
      <4> QED
        BY <3>2, <4>1, <4>2, <4>3, <4>4 DEF Earliest
    <3> QED
      BY <3>3, <3>4, <3>5
  <2>9. CASE IsElement(d, p, e) /\ d[p] # BIT_STRING
    <3>1. b \in Pl(d) /\ findBitString[Slice(d, f, e)] = Earliest(d, Full(d, From(d, b)))
      BY <2>2, <2>3, <2>4, <2>9
    <3>2. CASE ~Descends(d[p])
      <4>1. \A z : z \in Full(d, From(d, x)) <=> z \in Full(d, From(d, b))
        BY <2>4, <2>6, <2>9, <3>2
      <4>2. findBitString[Slice(d, p, e)] = findBitString[Slice(d, f, e)]
        BY <2>1, <2>9, <3>2, <2>a, FoundAt
      <4>3. Full(d, From(d, x)) = Full(d, From(d, b))
        BY <4>1
      <4> QED
        BY <3>1, <4>2, <4>3
    <3>3. CASE Descends(d[p])
      <4> DEFINE A == Full(d, From(d, a))
                 B == Full(d, From(d, b))
      <4>1. a \in Pl(d) /\ findBitString[Slice(d, c, f)] = Earliest(d, Full(d, From(d, a)))
        BY <2>2, <2>3, <2>4, <2>9, <3>3
      <4>2. Full(d, From(d, x)) = A \union B
        <5>1. \A z : z \in Full(d, From(d, x)) <=> z \in A \/ z \in B
          BY <2>4, <2>6, <2>9, <3>3
        <5> QED
          BY <5>1
      <4>3. findBitString[Slice(d, p, e)] =
              IF findBitString[Slice(d, c, f)].kind # "error" THEN findBitString[Slice(d, c, f)]
              ELSE findBitString[Slice(d, f, e)]
        BY <2>1, <2>9, <3>3, <2>a, FoundAt
      <4>4. findBitString[Slice(d, c, f)] = Earliest(d, A) /\ findBitString[Slice(d, f, e)] = Earliest(d, B)
        BY <3>1, <4>1
      <4>5. CASE A = {}
        <5>1. Earliest(d, A) = Error /\ Error.kind = "error"
          BY <4>5 DEF Earliest, Error
        <5>2. A \union B = B
          BY <4>5
        <5> QED
          BY <4>2, <4>3, <4>4, <5>1, <5>2
      <4>6. CASE A # {}
        <5>1. A \in SUBSET Pl(d) /\ B \in SUBSET Pl(d)
          BY <3>1, <4>1, FromIsLeast DEF Full
        <5>2. ASSUME NEW z \in A PROVE ~(TrueLength(d, z[1]) < 2)
          <6>1. TrueLength(d, z[1]) >= 2 /\ TrueLength(d, z[1]) \in Nat
            BY <5>1, FullIs DEF Full
          <6> QED
            BY <6>1
        <5>3. ASSUME NEW u \in A, NEW v \in B PROVE u[1] <= v[1]
          <6>1. u \in From(d, a) /\ v \in From(d, b) /\ IsElement(d, u[1], u[2])
            BY DEF Full
          <6>2. u[2] <= f /\ v[1] >= f
            BY <3>1, <4>1, <6>1, FromWithin
          <6>3. u[1] \in Int /\ u[2] \in Int /\ v[1] \in Int /\ f \in Int
            BY <1>p, <3>1, <5>1
          <6> QED
            BY <6>1, <6>2, <6>3 DEF IsElement
        <5>4. Earliest(d, A \union B) = Earliest(d, A) /\ Earliest(d, A).kind # "error"
          <6> HIDE DEF A, B
          <6> QED
            BY <4>6, <5>1, <5>2, <5>3, EarliestOfTwo
        <5> QED
          BY <4>2, <4>3, <4>4, <5>4
      <4> QED
        BY <4>5, <4>6
    <3> QED
      BY <3>2, <3>3
  <2> QED
    BY <2>7, <2>8, <2>9
<1>3. Nat \subseteq S
  <2> HIDE DEF S
  <2> QED
    BY <1>1, <1>2, SetInduction
<1>4. ASSUME NEW x \in Pl(d) PROVE Finds(x)
  <2> DEFINE k == x[2] - x[1] + 1
  <2>1. k \in Nat /\ x[2] - x[1] < k
    BY <1>0, <1>p
  <2> HIDE DEF k, Finds
  <2>2. k \in S
    BY <1>3, <2>1
  <2> QED
    BY <2>1, <2>2
<1> QED
  BY <1>4

-----------------------------------------------------------------------------
\* The places of the reference are those.

LEMMA StepsExist ==
  ASSUME NEW d \in ByteStrings, NEW x \in Pl(d)
  PROVE  \E h \in [0..Len(d) -> SUBSET Pl(d)] :
            h = [k \in 0..Len(d) |-> IF k = 0 THEN {x} ELSE h[k - 1] \union PlacesAfter(d, h[k - 1])]
<1> DEFINE N == Len(d)
           X == SUBSET Pl(d)
           c == {x}
           F == [k \in 1..N |-> [P \in X |-> P \union PlacesAfter(d, P)]]
<1>1. N \in Nat /\ c \in X
  BY LenProperties DEF ByteStrings
<1>3. ASSUME NEW P \in X PROVE P \union PlacesAfter(d, P) \in X
  BY <1>3, PlacesAfterIs, LeadsOn
<1> HIDE DEF N, c, X
<1>4. F \in [1..N -> [X -> X]]
  BY <1>3
<1>5. \A k \in 1..N, P \in X : F[k][P] = P \union PlacesAfter(d, P)
  OBVIOUS
<1> HIDE DEF F
<1>6. PICK h \in [0..N -> X] : h[0] = c /\ \A k \in 1..N : h[k] = F[k][h[k - 1]]
  BY <1>1, <1>4, Recursion
<1>7. h = [k \in 0..N |-> IF k = 0 THEN c ELSE h[k - 1] \union PlacesAfter(d, h[k - 1])]
  <2>1. ASSUME NEW k \in 0..N PROVE h[k] = IF k = 0 THEN c ELSE h[k - 1] \union PlacesAfter(d, h[k - 1])
    <3>1. CASE k = 0
      BY <1>6, <3>1
    <3>2. CASE k # 0
      <4>1. k \in 1..N /\ k - 1 \in 0..N
        BY <1>1, <3>2
      <4> QED
        BY <1>5, <1>6, <3>2, <4>1
    <3> QED
      BY <3>1, <3>2
  <2>2. h = [k \in 0..N |-> h[k]]
    OBVIOUS
  <2> QED
    BY <2>1, <2>2
<1> QED
  BY <1>7 DEF N, X, c

LEMMA ReachedIs ==
  ASSUME NEW d \in ByteStrings, NEW x \in Pl(d),
         x = <<ContentAt(d, 1), EndAt(d, 1)>>
  PROVE  /\ Reached(d)[0] = {x}
         /\ \A k \in 1..Len(d) : Reached(d)[k] = Reached(d)[k - 1] \union PlacesAfter(d, Reached(d)[k - 1])
         /\ \A k \in 0..Len(d) : Reached(d)[k] \in SUBSET Pl(d)
<1> DEFINE N == Len(d)
           X == SUBSET Pl(d)
           c == {x}
           R == Reached(d)
<1>1. N \in Nat /\ c \in X
  BY LenProperties DEF ByteStrings
<1>2. R = CHOOSE f : f = [k \in 0..N |-> IF k = 0 THEN c ELSE f[k - 1] \union PlacesAfter(d, f[k - 1])]
  BY DEF Reached
<1>3. ASSUME NEW P \in X PROVE P \union PlacesAfter(d, P) \in X
  BY <1>3, PlacesAfterIs, LeadsOn
<1>7. PICK h \in [0..N -> X] : h = [k \in 0..N |-> IF k = 0 THEN c ELSE h[k - 1] \union PlacesAfter(d, h[k - 1])]
  BY StepsExist
<1> HIDE DEF R, N, c, X
<1>8. R = [k \in 0..N |-> IF k = 0 THEN c ELSE R[k - 1] \union PlacesAfter(d, R[k - 1])]
  BY <1>2, <1>7, Zenon
<1>9. R[0] = c /\ \A k \in 1..N : R[k] = R[k - 1] \union PlacesAfter(d, R[k - 1])
  <2>1. R[0] = c
    <3>1. 0 \in 0..N
      BY <1>1
    <3> QED
      BY <1>8, <3>1
  <2>2. ASSUME NEW k \in 1..N PROVE R[k] = R[k - 1] \union PlacesAfter(d, R[k - 1])
    <3>1. k \in 0..N /\ k # 0
      BY <1>1
    <3> QED
      BY <1>8, <3>1
  <2> QED
    BY <2>1, <2>2
<1> DEFINE S == {k \in Nat : k <= N => R[k] \in X}
<1>10. 0 \in S
  BY <1>1, <1>9
<1>11. ASSUME NEW n \in Nat, n \in S PROVE n + 1 \in S
  <2> SUFFICES ASSUME n + 1 <= N PROVE R[n + 1] \in X
    OBVIOUS
  <2> DEFINE k == n + 1
  <2>1. k \in 1..N /\ k - 1 = n /\ n <= N
    BY <1>1
  <2> HIDE DEF k
  <2>2. R[k] = R[n] \union PlacesAfter(d, R[n]) /\ R[n] \in X
    BY <1>9, <1>11, <2>1
  <2>3. R[k] \in X
    BY <1>3, <2>2
  <2> QED
    BY <2>3 DEF k
<1>12. Nat \subseteq S
  <2> HIDE DEF S
  <2> QED
    BY <1>10, <1>11, SetInduction
<1>13. \A k \in 0..N : R[k] \in X
  BY <1>1, <1>12
<1> QED
  BY <1>9, <1>13 DEF R, N, c, X

LEMMA PlacesAre ==
  ASSUME NEW d \in ByteStrings, NEW x \in Pl(d), x[1] > 1,
         x = <<ContentAt(d, 1), EndAt(d, 1)>>
  PROVE  Places(d) = From(d, x)
<1> DEFINE N == Len(d)
           R == Reached(d)
           OnlyReached(k) == R[k] \subseteq From(d, x) /\ x \in R[k]
           Done(k) == \A u \in R[k] : (\A v \in Pl(d) : Leads(d, u, v) => v \in R[k]) \/ u[1] > 1 + k
           S == {k \in Nat : k <= N => OnlyReached(k) /\ Done(k)}
<1>1. N \in Nat /\ \A z \in Pl(d) : z[1] \in Int /\ z[2] \in Int /\ z[1] <= z[2] /\ z[2] <= N + 1
  BY LenProperties DEF Pl, ByteStrings
<1>2. /\ R[0] = {x}
      /\ \A k \in 1..N : R[k] = R[k - 1] \union PlacesAfter(d, R[k - 1])
      /\ \A k \in 0..N : R[k] \in SUBSET Pl(d)
  BY ReachedIs
<1> HIDE DEF R
<1>3. 0 \in S
  <2>1. OnlyReached(0)
    BY <1>2, FromIsLeast
  <2>2. Done(0)
    BY <1>1, <1>2
  <2> QED
    BY <2>1, <2>2
<1>4. ASSUME NEW n \in Nat, n \in S PROVE n + 1 \in S
  <2> SUFFICES ASSUME n + 1 <= N PROVE OnlyReached(n + 1) /\ Done(n + 1)
    OBVIOUS
  <2> DEFINE k == n + 1
  <2>1. k \in 1..N /\ k - 1 = n /\ n \in 0..N /\ k \in 0..N
    BY <1>1
  <2>2. OnlyReached(n) /\ Done(n)
    BY <1>4, <2>1
  <2>k. 1 + k = 1 + n + 1
    OBVIOUS
  <2> HIDE DEF k
  <2>3. R[k] = R[n] \union PlacesAfter(d, R[n]) /\ R[n] \subseteq Pl(d) /\ R[k] \subseteq Pl(d)
    BY <1>2, <2>1
  <2>4. \A v : v \in R[k] <=> v \in R[n] \/ \E u \in R[n] : Leads(d, u, v)
    BY <2>3, PlacesAfterIs
  <2>5. OnlyReached(k)
    <3>1. ASSUME NEW u \in R[n], NEW v, Leads(d, u, v) PROVE v \in From(d, x)
      <4>1. u \in Pl(d) /\ v \in Pl(d) /\ u \in From(d, x)
        BY <2>2, <2>3, <3>1, LeadsOn
      <4> QED
        BY <3>1, <4>1, FromIsLeast DEF Closed
    <3> QED
      BY <2>2, <2>4, <3>1
  <2>6. ASSUME NEW u \in R[k] PROVE (\A v \in Pl(d) : Leads(d, u, v) => v \in R[k]) \/ u[1] > 1 + k
    <3>1. CASE u \in R[n]
      BY <2>4, <3>1
    <3>2. CASE u \notin R[n]
      <4>1. PICK w \in R[n] : Leads(d, w, u)
        BY <2>4, <3>2
      <4>2. u \in Pl(d) /\ w \in Pl(d) /\ u[1] > w[1]
        BY <2>3, <4>1, LeadsOn
      <4>3. w[1] > 1 + n
        BY <2>2, <3>2, <4>1, <4>2
      <4> QED
        BY <1>1, <2>k, <4>2, <4>3
    <3> QED
      BY <3>1, <3>2
  <2>7. Done(k)
    BY <2>6
  <2> HIDE DEF OnlyReached, Done
  <2> QED
    BY <2>5, <2>7 DEF k
<1>5. Nat \subseteq S
  <2> HIDE DEF S
  <2> QED
    BY <1>3, <1>4, SetInduction
<1>6. OnlyReached(N) /\ Done(N) /\ R[N] \in SUBSET Pl(d)
  BY <1>1, <1>2, <1>5
<1>7. Closed(d, R[N])
  <2>1. ASSUME NEW u \in R[N], NEW v \in Pl(d), Leads(d, u, v) PROVE v \in R[N]
    <3>1. u[1] + 1 < u[2] /\ u \in Pl(d)
      BY <1>6, <2>1 DEF Leads, IsElement
    <3>2. ~(u[1] > 1 + N)
      BY <1>1, <3>1
    <3> QED
      BY <1>6, <2>1, <3>2
  <2> QED
    BY <2>1 DEF Closed
<1>8. R[N] = From(d, x)
  BY <1>6, <1>7, FromIsLeast
<1> QED
  BY <1>8 DEF R, Places

LEMMA ExtractsFirst ==
  ASSUME NEW d \in ByteStrings, LengthsFit(d)
  PROVE  ExtractSubjectPublicKey(d) = FirstWithContent(d)
<1> DEFINE n == Len(d)
           c == ContentAt(d, 1)
           f == EndAt(d, 1)
           x == <<c, f>>
<1>1. n \in Nat
  BY LenProperties DEF ByteStrings
<1>2. CASE n < 2 \/ d[1] # SEQUENCE
  BY <1>1, <1>2 DEF ExtractSubjectPublicKey, FirstWithContent, IsCertificate
<1>3. CASE n >= 2 /\ d[1] = SEQUENCE
  <2> DEFINE e == n + 1
  <2>1. 1 \in 1..(Len(d) - 1) /\ e \in (1 + 2)..(Len(d) + 1) /\ LengthFits(d, 1)
    BY <1>1, <1>3 DEF LengthsFit
  <2>2. Slice(d, 1, e) = d
    <3>1. e - 1 = n
      BY <1>1
    <3>2. SubSeq(d, 1, n) = d
      BY SubSeqFull DEF ByteStrings
    <3> HIDE DEF e, n
    <3> QED
      BY <3>1, <3>2, Zenon DEF Slice
  <2>3. IsCertificate(d) <=> IsElement(d, 1, e)
    BY <1>3 DEF IsCertificate
  <2>4. ExtractSubjectPublicKey(d) =
          IF tlvContent(d).kind # "bytes" THEN tlvContent(d) ELSE findBitString[tlvContent(d).bytes]
    BY <1>1, <1>3 DEF ExtractSubjectPublicKey
  <2> HIDE DEF e
  <2>5. tlvContent(d) = IF IsElement(d, 1, e) THEN Bytes(Slice(d, c, f)) ELSE Error
    <3> HIDE DEF c, f
    <3>1. tlvContent(Slice(d, 1, e)) = IF IsElement(d, 1, e) THEN Bytes(Slice(d, c, f)) ELSE Error
      BY <2>1, ContentIs DEF c, f
    <3> QED
      BY <2>2, <3>1
  <2>6. CASE ~IsElement(d, 1, e)
    BY <2>3, <2>4, <2>5, <2>6 DEF FirstWithContent, Error
  <2>7. CASE IsElement(d, 1, e)
    <3>1. c \in (1 + 2)..e /\ f \in c..e
      BY <2>1, <2>7, Parsed
    <3> HIDE DEF c, f
    <3>2. x \in Pl(d) /\ x[1] = c /\ x[2] = f /\ x[1] > 1
      BY <1>1, <2>1, <3>1 DEF Pl
    <3>3. ExtractSubjectPublicKey(d) = findBitString[Slice(d, c, f)]
      BY <2>4, <2>5, <2>7 DEF Bytes
    <3>4. Places(d) = From(d, x)
      BY <3>2, PlacesAre DEF c, f
    <3>5. findBitString[Slice(d, c, f)] = Earliest(d, Full(d, From(d, x)))
      <4> HIDE DEF x
      <4>1. FitsFrom(d, x)
        BY <2>3, <2>7, <3>4 DEF LengthsFit, FitsFrom
      <4>2. findBitString[Slice(d, x[1], x[2])] = Earliest(d, Full(d, From(d, x)))
        BY <3>2, <4>1, SearchFindsFirst
      <4> QED
        BY <3>2, <4>2
    <3>6. {pl \in BitStrings(d) : TrueLength(d, pl[1]) >= 2} = Full(d, From(d, x))
      BY <3>4 DEF BitStrings, Full
    <3>7. FirstWithContent(d) = Earliest(d, Full(d, From(d, x)))
      BY <2>3, <2>7, <3>6 DEF FirstWithContent
    <3> QED
      BY <3>3, <3>5, <3>7
  <2> QED
    BY <2>6, <2>7
<1> QED
  BY <1>1, <1>2, <1>3

\* In every string of bytes in which the lengths on the way have fewer octets than
\* an int, the search of the driver, with its errors dropped inside of containers,
\* returns the content of the first BIT STRING that has one and never panics,
\* whatever the nesting.
THEOREM FindsFirst == der \in Seq(0..(Radix - 1)) => FindsFirstWithContent
BY ExtractsFirst DEF FindsFirstWithContent, ByteStrings

-----------------------------------------------------------------------------
\* The two readers see the same key.

\* An ordinary store without something like a fifth certificate, with a key in the
\* first one.
Complete(data) ==
  LET first == BytesOf(data, Certificate(data, 0))
  IN  /\ Ordinary(data) /\ NothingBehind(data)
      /\ LengthsFit(first) /\ FirstWithContent(first).kind = "bytes"

LEMMA DoneAgree ==
  ASSUME StoreInv, SplitInv, WellFormed(chip) => Complete(chip)
  PROVE  ReadersAgree
<1> SUFFICES ASSUME pc = "done", WellFormed(chip)
             PROVE  /\ certs = [k \in 1..4 |-> Certificate(chip, k - 1)]
                    /\ LET key == FirstWithContent(BytesOf(store, certs[1]))
                       IN  key.kind = "bytes" /\ extractChipPublicKey(store) = key
  BY DEF ReadersAgree
<1>1. Ordinary(chip) /\ NothingBehind(chip)
  BY DEF Complete
<1>2. FirstFour /\ store = chip /\ Len(certs) = 4
  BY <1>1, FourAreFound DEF NoMore
<1>3. certs = [k \in 1..4 |-> Certificate(chip, k - 1)]
  <2>1. certs \in Seq(Pieces) /\ \A k \in 1..4 : certs[k] = Certificate(chip, k - 1)
    BY <1>2, StoreTypes DEF FirstFour
  <2>2. certs = [k \in 1..4 |-> certs[k]]
    BY <1>2, <2>1
  <2> QED
    BY <2>1, <2>2
<1> DEFINE first == BytesOf(chip, Certificate(chip, 0))
<1>4. BytesOf(store, certs[1]) = first
  BY <1>2 DEF FirstFour
<1>5. LengthsFit(first) /\ FirstWithContent(first).kind = "bytes"
  BY DEF Complete
<1>6. first \in ByteStrings
  <2>1. chip \in Seq(ByteValues) /\ store \in Seq(ByteValues)
    BY StoreTypes
  <2>2. 0 \in 0..3
    OBVIOUS
  <2>3. /\ CertFrom(chip, 0) \in Nat /\ CertLen(chip, 0) \in Nat
        /\ CertFrom(chip, 0) + CertLen(chip, 0) <= Len(chip)
    BY <1>1, <1>2, <2>2, Layout
  <2>4. Len(chip) \in Nat
    BY <2>1, LenProperties
  <2>5. SubSeq(chip, CertFrom(chip, 0) + 1, CertFrom(chip, 0) + CertLen(chip, 0)) \in Seq(ByteValues)
    BY <2>1, <2>3, <2>4, SubSeqProperties
  <2> QED
    BY <2>5 DEF BytesOf, Certificate, Piece, ByteStrings, ByteValues
<1> HIDE DEF first
<1>7. ExtractSubjectPublicKey(first) = FirstWithContent(first)
  BY <1>5, <1>6, ExtractsFirst
<1>8. extractChipPublicKey(store) = ExtractSubjectPublicKey(first)
  BY <1>2, <1>4 DEF FirstFour
<1> QED
  BY <1>3, <1>4, <1>5, <1>7, <1>8

\* In every store that is complete if it is laid out as the comments say, the files
\* are the four certificates and the key that sessions trust is the one in the
\* first of them.
THEOREM SameKey == Spec => []((WellFormed(chip) => Complete(chip)) => ReadersAgree)
<1>1. StoreInv /\ SplitInv => ((WellFormed(chip) => Complete(chip)) => ReadersAgree)
  BY DoneAgree
<1> QED
  BY <1>1, SplitHolds, PTL

-----------------------------------------------------------------------------
\* The state of the program, of the chip under it and of the two readers keeps
\* its type.
THEOREM ExampleTyping == ExampleSpec => []ExampleTypeOK
<1>1. ASSUME ExampleInit PROVE StoreInv
  <2>1. CASE checked = "store"
    BY <1>1, <2>1, StoreStarts DEF ExampleInit
  <2>2. CASE checked # "store"
    <3>1. chip = <<>> /\ pc = "done" /\ store = <<>> /\ i = 0 /\ certs = <<>> /\ written = 0
      BY <1>1, <2>2 DEF ExampleInit
    <3>2. <<>> \in Seq(ByteValues) /\ <<>> \in Seq(Pieces) /\ Len(<<>>) = 0
      BY EmptySeq
    <3>3. chip = SubSeq(chip, 1, Len(chip))
      BY <3>1, <3>2, SubSeqFull
    <3>4. Len(Files) = 1
      BY <3>1 DEF Files
    <3>5. TypeOK
      BY <3>1, <3>2, <3>3, <3>4, Constants DEF TypeOK, ByteValues
    <3> QED
      BY <3>1, <3>2, <3>5 DEF StoreInv
  <2> QED
    BY <2>1, <2>2
<1>2. ASSUME ExampleInit PROVE KitTypeInv
  <2>1. CASE checked = "commands"
    BY <1>2, <2>1, TypeInit DEF ExampleInit
  <2>2. CASE checked # "commands"
    <3>1. /\ place = "off" /\ command = "none" /\ session = FALSE /\ fault = FALSE /\ seen = NothingSeen
          /\ tropic = [mode |-> "application", session |-> FALSE, slot |-> 0] /\ keys = 0 /\ runs = 0
      BY <1>2, <2>2 DEF ExampleInit
    <3>2. NothingSeen \in Seen /\ runs \in 0..MaxRuns
      BY <3>1, DevkitAssumption DEF NothingSeen, Seen
    <3>3. tropic \in [mode : {"application", "maintenance"}, session : BOOLEAN, slot : 0..keys]
      BY <3>1
    <3>4. KitTypeOK
      BY <3>1, <3>2, <3>3 DEF KitTypeOK
    <3> QED
      BY <3>1, <3>2, <3>4 DEF KitTypeInv, Seen
  <2> QED
    BY <2>1, <2>2
<1>3. [ExampleNext]_allVars => [Next]_vars /\ [KitNext]_kitVars
  BY DEF ExampleNext, allVars
<1>4. StoreInv /\ KitTypeInv /\ [ExampleNext]_allVars => (StoreInv /\ KitTypeInv)'
  BY <1>3, StoreStep, TypeStep
<1>5. StoreInv /\ KitTypeInv => ExampleTypeOK
  BY DEF StoreInv, KitTypeInv, ExampleTypeOK
<1> QED
  BY <1>1, <1>2, <1>4, <1>5, PTL DEF ExampleSpec
=============================================================================
