\* The profile and playlists loops, a visitor and the owner overlap.
CONSTANTS
    visitor1 = visitor1
    admin1 = admin1
    Profile = Profile
    Playlists = Playlists
    Kinds = {Profile, Playlists}
    Visitors = {visitor1}
    Admins = {admin1}
    MaxVersion = 2
SPECIFICATION Spec
INVARIANTS
    PlaneInv
PROPERTIES
    LastGoodKept
    OnlyOvertakenGoesBack
    KeepsToVisitGate
