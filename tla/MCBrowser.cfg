SPECIFICATION Spec
CONSTANTS
    w1 = w1
    w2 = w2
    news = news
    mail = mail
    NoPage = NoPage
    Nobody = Nobody
    Windows <- MCWindows
    Toolbars <- MCWindows
    Pages <- MCPages
    Urls <- MCPages
    Installable <- MCInstallable
    Budgets <- MCBudgets
    Heights = {2, 5}
    Places = {0, 1}
    Inset = 1
    Bands = {1, 2}
    PlainHeight = 2
INVARIANT TypeOK
INVARIANT BoundsSettle
INVARIANT OnlyAskedSizes
INVARIANT FrameNotStale
INVARIANT ButtonSettles
INVARIANT KeptSurvive
INVARIANT ClipboardFollows
PROPERTY InstallsWhatIsShown
PROPERTY ListedWhole
PROPERTY CloseSettles
PROPERTY PressEnds
CHECK_DEADLOCK FALSE
