SPECIFICATION FairSpec
CONSTANTS
    Team = {ta, tb}
    Decoder = {d1, d2}
    NoTeam = NoTeam
INVARIANT TypeOK
INVARIANT OwnsUnlessRaced
INVARIANT FlagsAgree
PROPERTY OnlyClaimantsTouch
PROPERTY ClaimSettles
