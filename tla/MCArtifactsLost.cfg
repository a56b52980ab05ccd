SPECIFICATION MCSpec
CONSTANTS
    blockA = blockA
    blockB = blockB
    Blocks = {blockA, blockB}
    Contents <- TwoContents
    Files = {f1}
    Models = {m1}
    MaxHistory = 2
    Absent = Absent
    Damaged = Damaged
    CacheProcs = {p1, p2}
    Artifacts = {a1, a2}
    Shas = {s1}
    ShaOf <- MCShaOf
    Size = 2
    MaxPart = 3
    LitProcs = {p1, p2}
    Manifests = {v1, v2}
    LitModels = {d1}
    Junk = Junk
    Installers = {p1, p2}
    Tags = {t1, t2}
    Assets = {z1, z2}
    Shards = {1, 2}
    ShardBlocks = 4
    Streams = {1, 2, 3}
    NLayers = 1
    TensorsOf <- MCTensorsOf
    Launches = 2
INVARIANT NoByteLost
CHECK_DEADLOCK FALSE
