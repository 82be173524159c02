\* Five elements with three keys, and every function from the keys to two hash values.
\* One bucket to start with and a threshold of one, so that additions expand at once, and
\* two expansions in a row that do not help inhibit any other; 16 buckets are where the
\* fourth of them ends.
SPECIFICATION Spec
CONSTANTS
    e1 = e1  e2 = e2  e3 = e3  e4 = e4  e5 = e5
    k1 = k1  k2 = k2  k3 = k3
    NULL = NULL
    Elements <- FiveElements
    Keys <- ThreeKeys
    KeyOf <- SharedKeys
    HashValues <- TwoHashValues
    Ranks <- OneRanking
    HASH_INITIAL_NUM_BUCKETS = 1
    HASH_BKT_CAPACITY_THRESH = 1
    MaxBuckets = 16
INVARIANTS TypeOK Fsck BoundedChains LoopsRelink
PROPERTIES IsHashTable
VIEW View
