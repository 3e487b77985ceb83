SPECIFICATION FairAppSpec
CONSTANTS
    MaxTime <- MCMaxTime
    UTC = "UTC"
    Zones <- MCZones
    Calendar <- MCCalendar
    Users = {"ana"}
    RowIds = {1, 2, 3}
    Amounts = {0, 1, 2}
    SettingsChoices <- MCSettingsChoices
    Timezones <- MCTimezones
    Calls = {"c1", "c2"}
    None = None
INVARIANTS
    AppTypeOK
    RowsAreWellFiled
    ReceiptsAreTrue
PROPERTIES
    KeepsTheBook
    EveryCallEnds
