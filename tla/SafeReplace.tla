----------------------------- MODULE SafeReplace -----------------------------
(***************************************************************************)
(* What the commit of a configuration promises, without temporary files,   *)
(* digests or errors: it installs its content once, moving what was there  *)
(* aside; afterwards it only puts back what it has moved aside; a version   *)
(* that somebody else has written leaves the side only by being put back;   *)
(* the file never vanishes by its doing, and it touches nothing when over. *)
(***************************************************************************)
EXTENDS Naturals

CONSTANTS Content, Absent, Old, New

VARIABLES
  file,    \* the configuration file
  aside,   \* the versions of others that have been moved aside
  phase,   \* before the commit installs its content, after that, over, or cut short
  edits    \* how often somebody else has written the file

vars == <<file, aside, phase, edits>>

\* What the commit has not read and not written itself.
Foreign(x) == {x} \ {Old, New, Absent}

Init ==
  /\ file \in {Old, Absent}
  /\ aside = {}
  /\ phase = "before"
  /\ edits = 0

Install ==
  /\ phase = "before" /\ phase' = "after"
  /\ file' = New
  /\ aside' = aside \cup Foreign(file)
  /\ UNCHANGED edits

\* v may be kept in a second copy.
PutBack(v) ==
  /\ phase = "after"
  /\ file' = v
  /\ aside' \in {aside \cup Foreign(file), (aside \ {v}) \cup Foreign(file)}
  /\ UNCHANGED <<phase, edits>>

\* Returned, or killed.
End ==
  /\ phase \in {"before", "after"} /\ phase' = "over"
  /\ UNCHANGED <<file, aside, edits>>

\* An interrupt may lose what was moved aside.
Cut ==
  /\ phase \in {"before", "after"} /\ phase' = "cut"
  /\ aside' \subseteq aside
  /\ UNCHANGED <<file, edits>>

\* Somebody else writes or removes the file, at any time.
Edit ==
  /\ file' \in Content \cup {Absent}
  /\ edits' = edits + 1
  /\ UNCHANGED <<aside, phase>>

Next ==
  \/ Install \/ End \/ Cut \/ Edit
  \/ \E v \in aside \cup {Old, New} : PutBack(v)

Spec == Init /\ [][Next]_vars
=============================================================================
