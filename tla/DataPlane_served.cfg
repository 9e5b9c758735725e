\* One visitor and the two loops; no symmetry under a liveness check.
CONSTANTS
    visitor1 = visitor1
    Profile = Profile
    Playlists = Playlists
    Kinds = {Playlists, Profile}
    Visitors = {visitor1}
    Admins = {}
    MaxVersion = 2
SPECIFICATION ServedFairSpec
INVARIANTS
    ServedFromCell
PROPERTIES
    FetchingResumes
    DisabledQuiets
    CellsConverge
