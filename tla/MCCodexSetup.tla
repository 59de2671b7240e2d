---------------------------- MODULE MCCodexSetup ----------------------------
(* Instances of CodexSetup for TLC.                                        *)
EXTENDS CodexSetup, TLC

CONSTANTS t1, t2, u1, u2

\* Two writers, one of which may restart the daemon, and a writer with a reader.
Pairs == {t1 :> "setup" @@ t2 :> "repair", t1 :> "setup" @@ t2 :> "doctor"}

UrlSymmetry == Permutations(Url)
=============================================================================
