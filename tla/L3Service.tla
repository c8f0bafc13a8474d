----------------------------- MODULE L3Service -----------------------------
(***************************************************************************)
(* L3 implements CommandService.  The history of the results that were     *)
(* returned is added to L3: a command returns the number of the call whose *)
(* result it opened, with or without the error in its first byte.          *)
(***************************************************************************)
EXTENDS L3, Api

\* Fewer commands are sealed than the counter has nonces.  When it wraps, the
\* session opens an old result again and results are not in order.
ASSUME ServiceAssumption == MaxCalls < IVMod

VARIABLE given

allvars == <<vars, given>>

ServiceInit == Init /\ given = <<>>

ServiceNext ==
  /\ Next
  /\ given' = IF op = "decrypt" /\ op' = "idle" /\ ret'.answer # 0
              THEN Append(given, ret'.answer) ELSE given

ServiceSpec == ServiceInit /\ [][ServiceNext]_allvars

\* The fairness of L3.
FairServiceSpec == ServiceSpec /\ WF_vars(HostStep)

Service == INSTANCE CommandService WITH
  calls <- Len(sealed),
  running <- op \in {"encrypt", "decrypt"},
  done <- executed,
  lost <- unseen

\* A ping-like command, which fits both ways.
OneCommand == {MCTRGet}

\* Every step of the driver, the chip and the line is a step of the service or
\* none of its business: retries, answers asked for again, restarts of either
\* side and unread answers of earlier calls included.
ImplementsService == Service!Spec
=============================================================================
