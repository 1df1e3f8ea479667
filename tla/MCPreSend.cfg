\* The instance of MCProviderCall.cfg, against the comment of PreSendFailure.
SPECIFICATION Spec
INVARIANT PreSendMeansUnsent
CHECK_DEADLOCK FALSE
