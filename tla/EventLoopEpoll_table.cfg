SPECIFICATION Spec
CONSTANTS
  Fds = {f1, f2}
  MaxFds = 2
  Batch = 3
  MaxRegs = 3
  Loop = loop
  Others = {t1}
  NoFd = nofd
  WakeFd = wakefd
  MaxWake = 1
SYMMETRY Symmetry
INVARIANT TableMatchesEpoll
PROPERTY NoCallbackAfterUnregister
CHECK_DEADLOCK FALSE
