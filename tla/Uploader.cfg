\* Two shards, queues of one, two expirations, one socket that fails or is
\* not bound; after a panic the client stops.
SPECIFICATION FairSpec
CONSTANTS
    NumShards = 2
    Capacity = 1
    Nobody = Nobody
    MaxCount = 1
    MaxResets = 2
    MaxDeaths = 1
PROPERTIES FairComparison UploadGoesOn Settles
CHECK_DEADLOCK FALSE
