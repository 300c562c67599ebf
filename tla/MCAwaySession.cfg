SPECIFICATION AwaySpec
CONSTANTS
    Users = {"alice"}
    Self = "alice"
    Profiles <- MCProfiles
    TooLong <- MCTooLong
    Stamps = 2
INVARIANTS
    AwayTypeOK
    NoAutoAwayWhileWatched
    RowIsExplicitAway
    UpstreamAgrees
PROPERTIES
    AutoWindowFixed
    ExplicitSticks
    ReturnIsNoticed
