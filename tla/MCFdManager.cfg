CONSTANTS
  h1 = h1
  h2 = h2
  outsider = outsider
  Fds <- Fds3
  Threads <- All
  Hooked <- Runners
  InitSize = 2
SPECIFICATION FdManagerSpec
SYMMETRY Symmetry
INVARIANTS ContextKept  KernelNonblocking
