SPECIFICATION Spec
CONSTANTS
  Uses = {u1, u2}
  Approvals = {a1}
  MaxAmount = 2
  MaxLag = 1
  Nobody = nobody
SYMMETRY UseSymmetry
VIEW LiveState
INVARIANT IInv
INVARIANT ReadsHeardWrites
INVARIANT CapKept
INVARIANT NeededApproveSent
CHECK_DEADLOCK FALSE
