SPECIFICATION FairSpec
CONSTANTS
    Races = {"spring"}
    Runners = {1, 2}
    MaxCourse = 2
    MaxPassed = 1
    MaxRevisions = 2
    MaxPairings = 2
    MaxMishaps = 1
    Reverts = FALSE
    RaceReused = FALSE
    PairDisturbed = FALSE
INVARIANTS
    
    CourseIsHeldFirst
    OldestFirst
 
