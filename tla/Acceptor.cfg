CONSTANTS
  Sessions = {s1, s2, s3}
  Fds = {1, 2}
  Waiters = {"epoll", "kqueue", "ports", "poll"}
SPECIFICATION AcceptorFairSpec
INVARIANTS
    WaiterSound
    EventsReachIdle
PROPERTIES
    NoneForgotten
