CONSTANTS
  Kernels = {"avx", "sse", "line", "dso"}
  Lens <- MCLens
  Addrs <- MCAddrs
  Passed = {TRUE, FALSE}
  Unset = Unset
SPECIFICATION Spec
INVARIANTS ResultRight EachElementOnce AccessesValid CallbackProtocol
CHECK_DEADLOCK FALSE
