CONSTANTS
    w1 = w1
    w2 = w2
    u1 = u1
    c1 = c1
    c2 = c2
    i1 = i1
    i2 = i2
    t1 = t1
    t2 = t2
    Workers = {w1, w2}
    Uploaders = {}
    Covers = {c1, c2}
    Legacy = {c1}
    Images = {i1, i2}
    ImageOf <- OneImageEach
    Thumbs = {t1, t2}
    ThumbOf <- OwnThumbs
    Interval = 1
    Timeout = 1
    Lease = 4
    BaseDelay = 1
    MaxDelay = 1
    ThrottleDelay = 2
    RetryAfters = {0}
    AttemptCap = 1
    MaxFaults = 1
    Watched = {}
SPECIFICATION FairSpec
INVARIANT DownloadsSerialized
INVARIANT OneDownloadPerCover
PROPERTY StartsSpaced
PROPERTY ReadyStays
PROPERTY EventuallyMirrored
