\* Two wakers: the sleep signal and another thread, as in network.cpp, where the netlink
\* thread wakes the timer thread.  A destroyed object makes no step: CHECK_DEADLOCK is off, StopReturns covers a
\* destructor that hangs.
SPECIFICATION FairSleeperSpec
CONSTANTS
  Waker = {sleepSignal, netlink}
INVARIANTS SleeperTypeOK NoMissedWakeup PausedRests
PROPERTIES StopReturns
CHECK_DEADLOCK FALSE
