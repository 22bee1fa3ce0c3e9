CONSTANTS
  Kernels = {"avx"}
  Lens <- MCLens
  Addrs <- MCAddrs
  Passed = {TRUE}
  Unset = Unset
SPECIFICATION Spec
INVARIANT AvxResultRight
CHECK_DEADLOCK FALSE
