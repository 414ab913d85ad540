------------------------------- MODULE SshPool -------------------------------
(***************************************************************************)
(* What AsyncSSHCLIClient promises: "One reusable SSH connection per host, *)
(* bounded concurrency" (the module's docstring in transport/ssh.py).  The *)
(* abstract specification that SshTransport and Racadm implement.          *)
(***************************************************************************)
EXTENDS Naturals, FiniteSets

CONSTANTS
  Tasks,          \* who calls run()
  MaxConcurrent   \* how many of them at a time

VARIABLES
  running,   \* the tasks whose run() has begun and is not over
  open       \* the host's connections

pool == <<running, open>>

Init == running = {} /\ open = {}

Begin(t) ==
  /\ t \notin running /\ Cardinality(running) < MaxConcurrent
  /\ running' = running \cup {t}
  /\ UNCHANGED open

End(t) ==
  /\ t \in running
  /\ running' = running \ {t}
  /\ UNCHANGED open

\* There is never a second connection.
Connect ==
  /\ running # {} /\ open = {}
  /\ open' # {} /\ \A c, d \in open' : c = d
  /\ UNCHANGED running

Lose ==
  /\ open # {} /\ open' = {}
  /\ UNCHANGED running

Next == Connect \/ Lose \/ \E t \in Tasks : Begin(t) \/ End(t)

Spec == Init /\ [][Next]_pool
=============================================================================
