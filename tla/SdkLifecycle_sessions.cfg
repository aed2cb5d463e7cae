\* Two LiDARs, any number of sessions; fair threads.
CONSTANTS
    Lidar = {h1, h2}
    NoLidar = NoLidar
    StartsAgain = TRUE
    DataSends = TRUE
SPECIFICATION FairSpec
INVARIANTS NoThreadLeft TornDownUnused
PROPERTY UninitReturns
\* The second Start ends the program.
CHECK_DEADLOCK FALSE
