CONSTANTS
  c1 = c1
  p1 = p1
  Clients = {c1}
  Providers = {p1}
  NoNpi = NoNpi
  NoBinding = NoBinding
  NpiId <- OneNpi
  AsyncModules = {c1}
  ContextModules = {c1, p1}
  FailingModules = {c1, p1}
  AssertsEnabled = FALSE
SPECIFICATION FairSpec
PROPERTIES StatusNeverRegresses DeregistrationCompletes
\* A thread that waits for ever violates DeregistrationCompletes.
CHECK_DEADLOCK FALSE
