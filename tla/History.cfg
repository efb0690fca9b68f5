CONSTANTS
    Commits <- MCCommits
    Gone = 0
    Stages = {s1, s2}
    Branches = {"b1", "b2"}
    Tags = {"t1"}
    MainBranches = {"b2"}
    TaggerDate <- MCTaggerDate
    WeekAgo = 1
    Histories <- MCHistories
    Calendars <- MCCalendars
    HeadChoices <- MCHeads
    PolicyChoices <- MCPolicies
    MaxCommits = 2
    MaxRounds = 2
SPECIFICATION HistorySpec
INVARIANTS PromisedAreKept CleanupIsIdempotent
