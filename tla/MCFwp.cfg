CONSTANTS
  Threads = {t1, t2}
  Plan <- MCPlan
  SubLayers <- MCSubLayers
  MaxId = 12
  MaxFlow = 5
  Racing = FALSE
SPECIFICATION Spec
INVARIANTS  NotificationsExact  RequestScoped 
SYMMETRY MCSymmetry
CHECK_DEADLOCK FALSE
