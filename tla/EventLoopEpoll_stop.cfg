SPECIFICATION FairSpec
CONSTANTS
  Fds = {f1}
  MaxFds = 2
  Batch = 3
  MaxRegs = 1
  Loop = loop
  Others = {t1}
  NoFd = nofd
  WakeFd = wakefd
  MaxWake = 1
PROPERTY StopIsNeverLost
CHECK_DEADLOCK FALSE
