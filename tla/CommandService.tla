--------------------------- MODULE CommandService ---------------------------
(***************************************************************************)
(* What a caller of the driver may count on: commands are called one after *)
(* the other, numbered; each is carried out at most once and only while    *)
(* its call runs, so that a call that has returned, with an error or by    *)
(* the end of the process, has had its effect or never will; results are   *)
(* returned in order, each at most once, and never one of a command that   *)
(* was not carried out.  A result of an earlier call can only be returned  *)
(* in a session in which a write was lost unnoticed.                       *)
(***************************************************************************)
EXTENDS Naturals, Sequences

VARIABLES
  calls,    \* number of calls made
  running,  \* whether the last of them runs
  done,     \* the calls that were carried out, in order
  given,    \* the calls whose results were returned, in order
  lost      \* a write was lost in this session

vars == <<calls, running, done, given, lost>>

Latest(s) == IF s = <<>> THEN 0 ELSE s[Len(s)]

Init ==
  /\ calls = 0 /\ running = FALSE
  /\ done = <<>> /\ given = <<>>
  /\ lost = FALSE

\* A command is called.
Submit ==
  /\ ~running
  /\ calls' = calls + 1 /\ running' = TRUE
  /\ UNCHANGED <<done, given, lost>>

CarryOut ==
  /\ running /\ Latest(done) < calls
  /\ done' = Append(done, calls)
  /\ UNCHANGED <<calls, running, given, lost>>

\* The call returns a result, its own or a late one.
Succeed ==
  /\ running
  /\ \E n \in {done[k] : k \in DOMAIN done} :
       /\ n = calls \/ lost
       /\ Latest(given) < n
       /\ given' = Append(given, n)
  /\ running' = FALSE
  /\ UNCHANGED <<calls, done, lost>>

\* The call returns an error, or the process ends.
Fail ==
  /\ running
  /\ running' = FALSE
  /\ UNCHANGED <<calls, done, given, lost>>

\* A write is lost unnoticed.
Lose ==
  /\ lost' = TRUE
  /\ UNCHANGED <<calls, running, done, given>>

\* A new session, in which nothing was lost.
Establish ==
  /\ ~running
  /\ lost' = FALSE
  /\ UNCHANGED <<calls, running, done, given>>

Next == Submit \/ CarryOut \/ Succeed \/ Fail \/ Lose \/ Establish

Spec == Init /\ [][Next]_vars
=============================================================================
