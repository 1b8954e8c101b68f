------------------------------- MODULE RemoteCall -------------------------------
(***************************************************************************)
(* What a caller may rely on when it calls a service over a network and    *)
(* repeats the call after a failure: an attempt is executed at most once,   *)
(* possibly after its caller has given it up; what is handed back is what   *)
(* this very attempt was answered; and a new attempt is only made after     *)
(* the one before has failed.                                              *)
(***************************************************************************)
EXTENDS Naturals

CONSTANTS Callers, MaxAttempts, Verdicts, None

VARIABLES
  state,      \* caller -> attempt -> where it is
  executed,   \* caller -> attempt -> the verdict of the service
  handed      \* caller -> the verdict it got back

vars == <<state, executed, handed>>

Attempts == 1..MaxAttempts

Init ==
  /\ state = [c \in Callers |-> [n \in Attempts |-> "none"]]
  /\ executed = [c \in Callers |-> [n \in Attempts |-> None]]
  /\ handed = [c \in Callers |-> None]

Open(c, n) ==
  /\ state[c][n] = "none"
  /\ \A m \in 1..(n - 1) : state[c][m] = "failed"
  /\ state' = [state EXCEPT ![c][n] = "open"]
  /\ UNCHANGED <<executed, handed>>

Execute(c, n) ==
  /\ state[c][n] \in {"open", "failed"}
  /\ executed[c][n] = None
  /\ executed'[c][n] \in Verdicts
  /\ executed' = [executed EXCEPT ![c][n] = executed'[c][n]]
  /\ UNCHANGED <<state, handed>>

Return(c, n) ==
  /\ state[c][n] = "open"
  /\ executed[c][n] # None
  /\ state' = [state EXCEPT ![c][n] = "returned"]
  /\ handed' = [handed EXCEPT ![c] = executed[c][n]]
  /\ UNCHANGED executed

Fail(c, n) ==
  /\ state[c][n] = "open"
  /\ state' = [state EXCEPT ![c][n] = "failed"]
  /\ UNCHANGED <<executed, handed>>

Next ==
  \E c \in Callers, n \in Attempts :
    Open(c, n) \/ Execute(c, n) \/ Return(c, n) \/ Fail(c, n)

Spec == Init /\ [][Next]_vars
================================================================================
