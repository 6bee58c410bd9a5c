CONSTANTS
    Desktop = {d}
    Interactive = {c}
    Initializing = {i}
    Services = {s}
    Setups = {"keyring", "pass", "container"}
    Sessions = {t1, t2}
    MaxPolls = 1
    MaxFaults = 2
    MaxActive = 2
    None = None
SPECIFICATION LoginSpec
SYMMETRY Interchangeable
INVARIANTS RejectedNotReadBack PromptOnlyWithoutSession RequiredMeansSaved
PROPERTIES NeverBlind PreservingKeepsOld
