\* Two tabs, two users.
SPECIFICATION FairSpec
CONSTANTS
    Tabs = {t1, t2}
    Users = {alice, bob}
    Releases <- MCReleases
    Running <- MCRunning
    MaxSessions = 2
    MaxRequests = 1
    MaxPolls = 1
    None = None
INVARIANTS
    TypeOK
    ActsAsShown
    NoticeIsDue
PROPERTIES
    EndNoticed
    OnlyConfirmed
