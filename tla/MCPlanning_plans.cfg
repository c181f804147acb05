SPECIFICATION Spec
CONSTANTS
  HourTicks = 4
  DayHours = 4
  WeekDays = 3
  Dates <- MCDates
  LeapDay = 3
  MonthlyDays = 2
  MaxMonthDays = 4
  ScanTicks = 12
  Zones <- MCZones
  Schedules <- MCSchedules
  Start = 208
  End = 336
  MaxLate = 3
  None = None
  Names <- MCNames
  Components <- MCComponents
  Fields <- MCFields
  DefaultPolicy <- MCDefault
  ValidValues <- MCValidValues
  Configurations <- MCConfigurations
  Inventories <- MCInventories
  Sources <- MCSources
  Numbers <- MCNumbers
  Bytes <- MCBytes
  Negatives <- MCNegatives
  MonitoringKeys = {"hourly_warn"}
  Dotted <- MCDotted
  NoKeys = {"both quotes"}
  Notices <- MCNotices
  MaxMessage = 1900
  MaxDetail = 500
  Reserve = 80
\* Time ends at End, and a resolution ends.
CHECK_DEADLOCK FALSE
INVARIANTS
  BoundaryIsLatest
  NamesDistinct
  NearestSectionWins
  OneSnapshotEach
  MigrationKeepsMeaning
  OnlyNamesOrValuesInvalid
  ArrivesWhole
PROPERTIES
  OncePerBoundary
