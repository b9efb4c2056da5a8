SPECIFICATION ZoneSpec
CONSTANTS
  FirstDay <- MCFirstDay
  LastDay <- MCLastDay
  FirstUtc <- MCFirstUtc
  LastUtc <- MCLastUtc
  Clocks <- MCClocks
  Zones <- MCZones
  FirstZoneDay <- MCFirstZoneDay
  LastZoneDay = 0
  ZoneClocks <- MCZoneClocks
INVARIANTS
  JulianDaysFollowTheCalendar
  DatesComeBack
  UtcFollowsTheCalendar
  
  LocalTimesComeBack
