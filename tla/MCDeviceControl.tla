-------------------------- MODULE MCDeviceControl --------------------------
(* Instances of DeviceControl for TLC. *)
EXTENDS DeviceControl, TLC

\* Everything that can disturb the way to the board, and the undisturbed way with
\* a second plant.
EnvFaultSets ==
    {AllFaults \ {"post", "plants"}, {"post", "list", "plants"}}

Symmetry == Permutations(Cmds)

\* No step of the phone or the board depends on the way to the table, so where the
\* rows are not looked at, states that differ only there need not be told apart.
View == IF Undisturbed THEN vars ELSE <<phoneVars, boardVars, effects, faults>>
=============================================================================
