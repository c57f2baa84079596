SPECIFICATION FairSpec
CONSTANTS
    Clients = {c1, c2, c3}
    NoOne = NoOne
    IsrOrder <- DecoderOnly
    Timeouts = TRUE
    MaxOrphans = 1
PROPERTIES CompletionWakes
