\* The instance of MCProviderCall.cfg, against the comment in process.
SPECIFICATION Spec
INVARIANT ReachableMeansAnswered
CHECK_DEADLOCK FALSE
