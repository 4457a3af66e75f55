\* Two tabs.  An access token can be used at the moment it is issued, and a
\* refresh token one moment longer.
SPECIFICATION WebSpec
CONSTANTS
    Tab = {t1, t2}
    AccessTTL = 2
    RefreshTTL = 2
    CLOCK_SKEW = 1
    Opened = {"/", "/login", "/wiki"}
    Linked = {"/wiki"}
    MaxRedirects = 7
    MaxTime = 1
    MaxPairs = 4
    MaxAsked = 3
SYMMETRY Symmetry
INVARIANTS CalmLands CalmCallAnswered NoRedirectLoop
CHECK_DEADLOCK FALSE
