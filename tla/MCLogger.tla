------------------------------- MODULE MCLogger -------------------------------
(***************************************************************************)
(* Instances of Logger for TLC.                                             *)
(***************************************************************************)
EXTENDS Logger, TLC

MCThreads == {1, 2}
MCGarbage == {0, 1}
MCFixedWhen == {0}

\* Consumers are interchangeable: the code keeps no order on them.
ConsumerSymmetry == Permutations(Consumers)

===============================================================================
