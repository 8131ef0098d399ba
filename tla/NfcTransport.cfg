\* One poll before the wake-up mode, so that both are in every discovery.
SPECIFICATION Spec
CONSTANT NPolls = 1
INVARIANTS WorkerAlive TagIsActive SilentWhenStopped
PROPERTIES ExchangeIsNotCut DiscoveryRestarts
