\* One row for long, or two rows under a dedupe key; two workers and an api process.
CONSTANTS
    j1 = j1  j2 = j2
    w1 = w1  w2 = w2  api = api
    asset = asset
    None = None
    JobIds = {j1, j2}
    Owners = {w1, w2, api}
    Consumer <- MCConsumer
    Resources = {asset}
    EnqueueJobs <- MCEnqueueJobs
    LeaseTime = 2
    DefaultAttempts = 2
    RetryDelays = {0, 1}
    ProgressDelay = 1
    RecheckDelay = 2
    Cooldown = 1
    MaxTime = 5
    MaxGeneration = 5
SPECIFICATION MCSpec
SYMMETRY WorkerSymmetry
INVARIANTS OneLiveLease EffectOnce LeasesBounded KeyedEffectOnce
PROPERTIES NoStolenLease TerminalStays
