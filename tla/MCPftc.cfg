SPECIFICATION MCSpec
CONSTANTS
  wlan = wlan
  eth = eth
  home = home
  key = key
  here = here
  there = there
  NoText = NoText
  NoEdit = NoEdit
  Interfaces = {wlan, eth}
  Wifi = {wlan}
  Ssids = {home}
  Psks = {key}
  Addrs = {here, there}
  Reported <- BothReported
  SyncRetries = 2
  MaxChanges = 3
  Typed <- AllTyped
  Retyped <- SomeTyped
  DeviceReports <- AllReports
  MaxEdits = 2
INVARIANTS
  SettingsOfSelected
  ConfirmedEditsKept
  ScreensBalanced
  MenuDoesWhatItSays
  SentOnce
  PftcInv
  OnlyProperTexts
  RequestSaysWhatIsShown
  TextsFit
PROPERTIES
  ComesBackToUser
CHECK_DEADLOCK FALSE
