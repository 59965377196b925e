SPECIFICATION Spec
CONSTANTS
  c1 = c1
  c2 = c2
  c3 = c3
  fd5 = fd5
  fd6 = fd6
  Channel <- MCChannel
  Fd <- MCFd
  None = None
  kInitEventListSize = 1
SYMMETRY Symmetry
INVARIANTS
  TypeOK
  ViewsAgree
  NothingLeftBehind
  NeverFatal
  NoDanglingChannel
