\* Nested preemption by two interrupts, SysTick, PendSV and SVC against PRIMASK, BASEPRI (with a low nibble too) and FAULTMASK.
CONSTANTS
  Irq = {16, 17}
  Threads = {"t"}
  Boot = "t"
  Regs = {0}
  VectorRegs = 0
  BasepriVals = {0, 15, 64}
  MaxFrames = 6
  Disciplined = TRUE
  Repertoire = {"return", "svc", "primask", "basepri", "faultmask", "nvic_enable", "nvic_pending", "icsr", "prio"}
  PrioWrites <- MCPrioWrites
  main = main
  worker = worker
SPECIFICATION Spec
INVARIANTS TypeInvariant NestedUrgency NothingUrgentWaits
PROPERTY RequestsSurvive
