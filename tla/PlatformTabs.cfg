CONSTANTS
    Tabs = {t1, t2}
    WizardTabs = {t1}
    Channels = {telegram, slack}
    None = None
    MaxLogins = 1
    MaxPuts = 1
    MaxFaults = 1
SPECIFICATION FairSpec
INVARIANT TypeOK
INVARIANT PostMatchesChoices
INVARIANT CompletedHasInstance
INVARIANT ShownMatchesServer
PROPERTY NavigationRests
