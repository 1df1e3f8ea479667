\* Every adapter, configuration, credential and payload class.  A behaviour
\* ends when startup or Validate refuses, on success, or at shutdown.
SPECIFICATION Spec
INVARIANTS VerdictIsVendors ShutdownIsNotOutage
CHECK_DEADLOCK FALSE
