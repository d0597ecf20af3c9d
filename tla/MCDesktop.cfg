SPECIFICATION DesktopSpec
CONSTANTS
  Launches = {l, m}
  Oversize = {}
  Importing = {m}
  Varied = {"tray", "hotkeys"}
  Stale = Stale
  None = None
  Capacity = 2
  MaxInputs = 2
  Profiles = {p, q}
  Remote = {p}
  Edits = {d, e}
  Edited = {"tun", "other"}
  Proxy = "proxy"
  Toggled = "tun"
  PageInputs = 4
INVARIANTS
  OnlyOnePrimary
  ClosedHasIcon
  LaunchesAreHeard
  PagesShowTheFiles
  NoEditVanishes
PROPERTIES
  OthersFieldsSurvive
CHECK_DEADLOCK FALSE
