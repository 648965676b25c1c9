\* Inserts, updates, removals and iterations of three threads; one of them also clears.
CONSTANTS
    Threads = {t1, t2, t3}
    Clearers = {t3}
    Keys = {1, 2, 3}
    Size = 2
    Bucket <- Colliding
    Wrap = 8
    MaxLost = 1
SPECIFICATION Spec
INVARIANTS KeysOnce CountExact ForeachComplete
