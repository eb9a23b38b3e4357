SPECIFICATION Spec
CONSTANTS
    poller = poller
    writer = writer
    reader = reader
    ev = ev
    sem = sem
    sigfd = sigfd
    Threads = {poller, writer, reader}
    EventFds = {ev, sem}
    SignalFd = sigfd
    MaxFd = 3
    Names <- Opened
    MaxParents = 2
    MaxCount = 1
    Semaphores = {sem}
    Nonblocking = {sem}
    May <- Events
    None = None
INVARIANTS NoLockCycle NoLostEvent StrayWasClosed
PROPERTIES PollReturns KilledSleeperWakes
CHECK_DEADLOCK FALSE
