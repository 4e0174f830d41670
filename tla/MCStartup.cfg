SPECIFICATION Spec
CONSTANTS
    Configs <- MCConfigs
    Environments <- MCEnvironments
    Views <- MCViews
    Natives <- MCNatives
    MaxChanges = 1
INVARIANTS
    NothingLeaks
    NoSilentSwitch
    RequestIsHonoured
    ReportIsTrue
