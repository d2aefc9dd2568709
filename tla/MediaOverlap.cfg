SPECIFICATION MediaSpec
CONSTANTS
    Speakers = {kitchen}
    Levels = {1, 2, 3}
    Deliveries = {d1, d2}
    NoVolume = NoVolume
    MaxMishaps = 0
INVARIANT NormalVolumeKept
