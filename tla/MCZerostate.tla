---------------------------- MODULE MCZerostate ----------------------------
(***************************************************************************)
(* An instance of Zerostate for TLC: inputs that share all, some or none   *)
(* of the workchain states, and one that does not pass the checks.         *)
(***************************************************************************)
EXTENDS Zerostate, TLC

Input(workchains, time, rest, sound) ==
  [workchains |-> workchains, time |-> time, rest |-> rest, sound |-> sound]

MCInputs ==
  {Input({0}, 1, "a", TRUE), Input({0, 1}, 1, "b", TRUE), Input({0}, 2, "a", TRUE),
   Input({0}, 1, "c", FALSE)}

RunSymmetry == Permutations(Run)

=============================================================================
