---------------------------- MODULE MCCodexCommit ----------------------------
(* Instances of CodexCommit for TLC.                                       *)
EXTENDS CodexCommit

CONSTANTS old, mine, e1, e2, e3
=============================================================================
