SPECIFICATION RetryingSpec
CONSTANTS
    w1 = w1
    w2 = w2
    w3 = w3
    r1 = r1
    r2 = r2
    r3 = r3
    s1 = s1
    s2 = s2
    t1 = t1
    t2 = t2
    t3 = t3
    t4 = t4
    NoWorker = NoWorker
    NoRequest = NoRequest
    NoSignature = NoSignature
    NoToken = NoToken
    Workers = {w1, w2}
    Requests = {r1}
    Signatures = {s1}
    Tokens = {t1, t2, t3}
    NativeSession = FALSE
    MaxVersion = 1
    MaxRelease = 0
PROPERTIES
    JobSettles
