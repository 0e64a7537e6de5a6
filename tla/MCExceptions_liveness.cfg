\* Urgent requests are served, handlers return and PendSV runs, under a fair firmware.
CONSTANTS
  Irq = {16}
  Threads = {"t"}
  Boot = "t"
  Regs = {0}
  VectorRegs = 0
  BasepriVals = {0, 64}
  MaxFrames = 6
  Disciplined = TRUE
  Repertoire = {"return", "primask", "basepri", "nvic_pending", "nvic_enable", "icsr", "prio"}
  PrioWrites <- MCOneIrqPrios
  main = main
  worker = worker
SPECIFICATION FairSpec
PROPERTIES UrgentRequestIsServed TowerUnwinds PendSVRuns
