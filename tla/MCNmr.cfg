CONSTANTS
  c1 = c1
  p1 = p1
  p2 = p2
  Clients = {c1}
  Providers = {p1, p2}
  NoNpi = NoNpi
  NoBinding = NoBinding
  NpiId <- OneNpi
  AsyncModules = {p1}
  ContextModules = {c1, p1}
  FailingModules = {p2}
  AssertsEnabled = TRUE
SPECIFICATION Spec
INVARIANTS ContextsCleanedOnce NoDanglingRegistration
