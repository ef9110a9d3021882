SPECIFICATION StoreSpec
CONSTANTS
    MaxFileRows = 2
    MaxDeaths = 3
INVARIANT
    StoreInv
PROPERTIES
    HistorySurvives
    StartSucceeds
