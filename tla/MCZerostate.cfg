SPECIFICATION Spec
CONSTANTS
  None = None
  Run = {r1, r2, r3}
  Workchain = {0, 1}
  Inputs <- MCInputs
SYMMETRY RunSymmetry
INVARIANTS TypeOK ConfigBacked ConfigChecked SuccessLaunchable LastRunLaunchable ZeroInv
CHECK_DEADLOCK FALSE
