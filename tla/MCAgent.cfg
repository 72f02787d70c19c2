SPECIFICATION Spec
CONSTANTS
  Kilo = 8
  Characters <- Letters
  Null = Null
  Prefix <- InstalledIn
  ConfigFiles <- Files
  FirstDirs <- DirsAtFirst
  Closed <- ClosedDirs
  OtherFiles <- NotDirs
  File = "file"
  PluginDir <- Dir
  Kind <- KindOf
  Handles <- HandledBy
  MacLists <- Lists
  None = None
  Errors = {"open", "write", "router", "worker", "memory", "mkdir"}
  MaxBoots = 3
  MaxBeats = 1
INVARIANTS
  TypeOK
  Numbered
  PluginsAlive
  SettingsAreThere
  ValuesAsWritten
  DirsAreThere
CHECK_DEADLOCK FALSE
