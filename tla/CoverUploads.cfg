CONSTANTS
    w1 = w1
    w2 = w2
    u1 = u1
    c1 = c1
    c2 = c2
    i1 = i1
    i2 = i2
    t1 = t1
    t2 = t2
    Workers = {w1}
    Uploaders = {u1}
    Covers = {c1}
    Legacy = {}
    Images = {i1, i2}
    ImageOf <- OneImage
    Thumbs = {t1}
    ThumbOf <- SameThumb
    Interval = 1
    Timeout = 1
    Lease = 4
    BaseDelay = 1
    MaxDelay = 4
    ThrottleDelay = 3
    RetryAfters = {0, 2, 5}
    AttemptCap = 3
    MaxFaults = 2
    Watched = {c1}
SPECIFICATION Spec
INVARIANT TypeOK
INVARIANT ReadyServesFiles
