SPECIFICATION Spec
CONSTANTS
    Addresses = {1, 2, 3, 4, 5}
    Fds = {0, 1}
    Threads = {t1, t2}
    MaxDevices = 1
INVARIANTS
    EveryObjectOwned
    FilesLostOnlyByRaces
CONSTRAINT BeforeRacingClose
