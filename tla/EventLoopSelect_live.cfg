SPECIFICATION FairSpec
CONSTANTS
  Fds = {f1, f2}
  MaxFds = 2
  Batch = 2
  MaxRegs = 3
  Loop = loop
  Others = {t1}
  NoFd = nofd
INVARIANT TypeOK
 
 
PROPERTY StopStops
PROPERTY WorkIsFlushed
