--------------------------- MODULE StageParameters ---------------------------
(***************************************************************************)
(* The parameters of the wait before a run and of its stages, and the bounds *)
(* on what they do.                                                          *)
(***************************************************************************)
EXTENDS Integers

CONSTANTS
  Paths,         \* the paths of the router's profile
  (* The UDP upload of one path. *)
  Sources,       \* addresses the path's datagrams may seem to come from
  Handlers,      \* threads of ThreadingUDPServer
  NoSource,      \* not an address
  MaxDatagrams,  \* bound: datagrams the sender sends at most
  MaxSeconds,    \* bound: seconds the node's clock moves on
  (* The video probe. *)
  Frames,        \* bound: frames a sender has planned
  Fragments,     \* fragments of a frame
  Fps,           \* frames per second, the length of a bucket
  MaxActive,     \* MAX_ACTIVE_VIDEO_FRAMES_PER_PATH
  (* The network and the node, for both. *)
  MaxCopies,     \* bound: datagrams the network delivers twice
  Faults,        \* whether cancels, a lost reservation and failed calls occur
  (* The plan. *)
  TcpRounds,     \* number of TCP rounds
  UdpStages,     \* number of UDP stages: one, or one after each TCP round
  (* The wait for stable paths before a run. *)
  RequiredSeconds, \* required_seconds
  Timeout,       \* timeout_seconds
  PollInterval,  \* poll_interval_seconds
  SampleLatency, \* bound: how long a sample takes at most
  (* The TCP upload of one path. *)
  MaxChunks,     \* bound: chunks a timed upload sends at most
  PayloadChunks, \* chunks of the payload of the other kind
  (* The router's connection. *)
  WordLengths,   \* lengths a word of an answer may have
  (* The sampler, in polls. *)
  LatencyEvery,  \* latency_interval_seconds
  RadioEvery,    \* radio_interval_seconds
  JoinTime,      \* how long stop() waits for the thread
  ReadingTime,   \* bound: how long a reading takes at most
  SamplerTime,   \* bound: how long the run's sampling is followed
  (* The comparison. *)
  MetricValues,  \* values a run may have measured
  Hours,         \* hours at which it may have been made
  MaxRuns,       \* bound: runs compared
  MinRuns,       \* min_runs
  (* The making of batches. *)
  TargetValues,  \* target_value, in tenths
  MaxExperiments, \* bound: experiments made
  MaxVariants,   \* bound: variants made
  (* The lab. *)
  Requests,      \* threads, or command lines, that start and cancel lab runs
  MaxLabRuns     \* bound: lab runs made

ASSUME UdpAssumption ==
  /\ {MaxDatagrams, MaxSeconds} \subseteq Nat
  /\ NoSource \notin Sources

ASSUME VideoAssumption == {Frames, Fragments, Fps, MaxActive} \subseteq Nat \ {0}

ASSUME NetworkAssumption == MaxCopies \in Nat /\ Faults \in BOOLEAN

ASSUME PlanAssumption == TcpRounds \in Nat \ {0} /\ UdpStages \in {1, TcpRounds}

ASSUME WaitAssumption ==
  /\ {RequiredSeconds, SampleLatency} \subseteq Nat
  /\ {Timeout, PollInterval} \subseteq Nat \ {0}

ASSUME TcpAssumption == MaxChunks \in Nat /\ PayloadChunks \in 1 .. MaxChunks

ASSUME SamplerAssumption ==
  /\ {LatencyEvery, RadioEvery} \subseteq Nat \ {0}
  /\ {JoinTime, ReadingTime, SamplerTime} \subseteq Nat

ASSUME ComparisonAssumption ==
  /\ MetricValues \subseteq Nat /\ Hours \subseteq 0 .. 23
  /\ {MaxRuns, MinRuns} \subseteq Nat \ {0}

ASSUME CampaignAssumption ==
  TargetValues \subseteq Nat /\ {MaxExperiments, MaxVariants} \subseteq Nat

ASSUME LabAssumption == MaxLabRuns \in Nat

ASSUME RouterAssumption ==
  /\ WordLengths \subseteq Nat /\ \A n \in WordLengths : n \div 65536 < 65536
  /\ "general" \notin Paths
=============================================================================
