\* A scheduler: two threads with process stacks, PendSV switches, one interrupt preempts, the chip is reset.
CONSTANTS
  Irq = {16}
  Threads <- MCThreads
  Boot = main
  Regs = {0, 1}
  VectorRegs = 0
  BasepriVals = {0}
  MaxFrames = 6
  Disciplined = TRUE
  Repertoire = {"compute", "return", "svc", "control", "switch", "nvic_enable", "icsr", "prio", "reset"}
  PrioWrites <- MCOneIrqPrios
  main = main
  worker = worker
SPECIFICATION Spec
INVARIANTS FrameDiscipline
PROPERTY ImplementsNesting
