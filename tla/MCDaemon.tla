------------------------------ MODULE MCDaemon ------------------------------
(* Instances of Daemon for TLC.                                            *)
EXTENDS Daemon, TLC

CONSTANTS c1, c2, c3, p1, p2

\* One project; the port its path hashes to is the last of the range.
OneProject == {p1}
AllOnOne == [c \in Cli |-> p1]
OneDefault == [p \in {p1} |-> NPorts - 1]
CliSymmetry == Permutations(Cli)

\* Two projects whose paths hash to the same port.
TwoProjects == {p1, p2}
TwoOnFirst == [c \in Cli |-> IF c = c2 THEN p2 ELSE p1]
SameDefault == [p \in {p1, p2} |-> NPorts - 1]
=============================================================================
