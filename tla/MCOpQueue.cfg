SPECIFICATION Spec
CONSTANTS
  Fds = {f1, f2}
  NoFd = NoFd
  QueueSize = 2
  MaxSize = 8
PROPERTY FifoSpec
CHECK_DEADLOCK FALSE
