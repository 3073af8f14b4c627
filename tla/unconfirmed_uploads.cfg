SPECIFICATION Spec
CONSTANTS
  Sources = {a1, a2}
  Handlers = {h1, h2}
  NoSource = NoSource
  MaxDatagrams = 3
  MaxSeconds = 1
  MaxCopies = 1
  Faults = TRUE
  Paths = {p1, p2}
  Frames = 2
  Fragments = 2
  Fps = 1
  MaxActive = 1
  TcpRounds = 2
  UdpStages = 1
  RequiredSeconds = 3
  Timeout = 9
  PollInterval = 2
  SampleLatency = 1
  Parts = {"evidence"}
  WordLengths = {127, 128, 16383, 16384}
  LatencyEvery = 2
  RadioEvery = 5
  JoinTime = 3
  ReadingTime = 2
  SamplerTime = 14
  MaxChunks = 3
  PayloadChunks = 2
  MetricValues = {0, 10, 11}
  Hours = {1, 2, 5}
  MaxRuns = 3
  MinRuns = 1
  TargetValues = {0, 27}
  MaxExperiments = 2
  MaxVariants = 1
  Requests = {q1, q2}
  MaxLabRuns = 2
INVARIANTS
  UploadsAreConfirmed
SYMMETRY Symmetry
CHECK_DEADLOCK FALSE
