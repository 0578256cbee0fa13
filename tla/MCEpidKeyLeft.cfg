SPECIFICATION Spec
CONSTANTS
  k1 = k1
  k2 = k2
  k3 = k3
  c1 = c1
  c2 = c2
  Keys <- MCKeys
  Ctx <- MCCtx
  NULL = NULL
  MaxRl = 1
  EPID_R6 = TRUE
  EPID_TINY = FALSE
  TARGET_OS_FREERTOS = TRUE
  ReInit = FALSE
SYMMETRY MCSymmetry
INVARIANT PrivKeyClearedWhenClosed
