------------------------------ MODULE OneDaemon ------------------------------
(***************************************************************************)
(* What the daemon lifecycle promises, without files, locks or commands:   *)
(* a project has at most one live daemon, the project's record names it    *)
(* for as long as it lives, and a daemon is forgotten only once it is dead.*)
(***************************************************************************)
CONSTANTS Instance, NoInstance, Project, ProjectOf

VARIABLES
  live,    \* the live daemons of each project
  record   \* the daemon each project's record names

vars == <<live, record>>

Init ==
  /\ live = [p \in Project |-> {}]
  /\ record = [p \in Project |-> NoInstance]

\* A new daemon enters service: nothing else is live or on record.
Claim(i) ==
  LET p == ProjectOf[i] IN
  /\ live[p] = {} /\ record[p] = NoInstance
  /\ live' = [live EXCEPT ![p] = {i}]
  /\ record' = [record EXCEPT ![p] = i]

Die(p) ==
  /\ live' = [live EXCEPT ![p] = {}]
  /\ UNCHANGED record

Forget(p) ==
  /\ live[p] = {}
  /\ record' = [record EXCEPT ![p] = NoInstance]
  /\ UNCHANGED live

Next ==
  \/ \E i \in Instance : Claim(i)
  \/ \E p \in Project : Die(p) \/ Forget(p)

Spec == Init /\ [][Next]_vars
=============================================================================
