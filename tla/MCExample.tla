----------------------------- MODULE MCExample -----------------------------
(***************************************************************************)
(* The example program: its four commands on one chip (Devkit), the        *)
(* reading and splitting of the store in one of them (CertStore), and the  *)
(* DER reader that the driver applies to what the store holds (Asn1Der).   *)
(* The three share no state: what is checked is chosen at the start, and   *)
(* the instance has the behaviours of each.                                *)
(***************************************************************************)
EXTENDS MCCertStore, MCAsn1Der, Devkit

VARIABLE checked

allVars == <<vars, derVars, kitVars, checked>>

ExampleInit ==
  /\ checked \in {"commands", "store", "reader"}
  /\ IF checked = "store" THEN Init
     ELSE /\ chip = <<>> /\ pc = "done" /\ store = <<>>
          /\ i = 0 /\ certs = <<>> /\ written = 0
  /\ IF checked = "reader" THEN DerInit ELSE der = <<>> /\ result = Error
  /\ IF checked = "commands" THEN KitInit
     ELSE /\ place = "off" /\ command = "none" /\ at = 1 /\ session = FALSE /\ seen = NothingSeen
          /\ tropic = [mode |-> "application", session |-> FALSE, slot |-> 0]
          /\ keys = 0 /\ runs = 0 /\ fault = FALSE

ExampleNext ==
  \/ checked = "store" /\ Next /\ UNCHANGED <<derVars, kitVars, checked>>
  \/ checked = "reader" /\ DerNext /\ UNCHANGED <<vars, kitVars, checked>>
  \/ checked = "commands" /\ KitNext /\ UNCHANGED <<vars, derVars, checked>>

\* The fairness of CertStore.
ExampleSpec == ExampleInit /\ [][ExampleNext]_allVars /\ WF_vars(Step)

-----------------------------------------------------------------------------

\* The state of the readers and of the program keeps its type.
ExampleTypeOK == TypeOK /\ KitTypeOK
=============================================================================
