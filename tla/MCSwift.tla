------------------------------- MODULE MCSwift --------------------------------
(* Instances of SwiftRecovery for TLC. *)
EXTENDS SwiftRecovery, TLC

CONSTANTS c1, c2

MCCommands == {c1, c2}
MCNone     == {}
MCReads    == {c2}
MCProxied  == {<<1, c2>>}
MCBallots  == {0, 4, 5}
MCBallots2 == {0, 3}
MCSymmetry == Permutations(MCCommands)
===============================================================================
