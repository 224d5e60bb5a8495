SPECIFICATION Spec
CONSTANTS
    Team = {ta, tb}
    Decoder = {d1}
    NoTeam = NoTeam
INVARIANT OneTeamAtATime
