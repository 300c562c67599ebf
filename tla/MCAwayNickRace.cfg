SPECIFICATION AwaySpec
CONSTANTS
    Users = {"alice"}
    Self = "alice"
    Profiles <- MCReturn
    TooLong <- MCTooLong
    Stamps = 2
INVARIANT
    NotStrandedOnAwayNick
