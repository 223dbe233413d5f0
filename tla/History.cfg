SPECIFICATION Spec
CONSTANTS
  DefaultLimit = 2
  plain = plain
  filtered = filtered
  Views <- MCViews
  Hidden <- MCHidden
  DayOf <- MCDayOf
  DateOf <- MCDateOf
  Before = 2
  PageSize = 2
  Pages = 2
  RecentLimit = 2
  MaxEvents = 1
INVARIANTS
  TypeOK
  HistoryIsOrdered
  CopyIsExact
  NewestAreShown
  NothingIsSkipped
PROPERTY LoadEnds
CHECK_DEADLOCK FALSE
