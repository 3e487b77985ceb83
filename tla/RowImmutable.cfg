SPECIFICATION Spec
CONSTANTS
    MaxTime <- MCMaxTime
    UTC = "UTC"
    Zones <- MCZones
    Calendar <- MCCalendar
    Users = {"ana"}
    r1 = r1
    r2 = r2
    RowIds = {r1, r2}
    Amounts = {0, 1, 2}
    SettingsChoices <- MCSettingsChoices
    Timezones = {"UTC"}
SYMMETRY MCRowSymmetry
PROPERTY RowImmutableOncePast
