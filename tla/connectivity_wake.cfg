SPECIFICATION Spec
CONSTANTS
    NNodes = 3
    MaxGenNum = 1
    MaxInFlight = 1
    Established <- AllLinks
    Flaky <- Between1And2
    Restartable <- Nobody
PROPERTIES
    ChangeWakesCampaigner
