SPECIFICATION FairSpec
CONSTANTS
  Fds = {f1}
  MaxFds = 2
  Batch = 1
  MaxRegs = 2
  Loop = loop
  Others = {t1}
  NoFd = nofd
  WakeFd = wakefd
  MaxWake = 1
PROPERTY ReadyIsServed
PROPERTY StopStops
PROPERTY WorkIsFlushed
CHECK_DEADLOCK FALSE
