\* A router's attempt on three backends, or a task that two hosts claim; a recovery and
\* an attempt without progress are treated like a cancellation.
SPECIFICATION FairSpec
CONSTANTS
    h1 = h1
    h2 = h2
    Hosts = {h1, h2}
    Backends = {"codex", "claude", "opencode"}
    AbortReasons = {"cancelled"}
INVARIANTS
    SuccessEarned
    AnswerTrue
    QuotaTold
    ExecutedOnce
PROPERTIES
    EveryAttemptEnds
CHECK_DEADLOCK FALSE
