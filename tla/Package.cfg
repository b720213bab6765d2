SPECIFICATION Spec
CONSTANTS
  None = None
  Malformed = {"bad"}
  Executables = {"app.exe", "tool.exe", "dep.exe"}
  Scripts = {"app.ps1", "bad.ps1", "con"}
  ScriptName <- MCScriptName
  BatchMaxFiles = 2
  BatchMaxBytes = 3
  MaxChoices = 3
  Manifests <- MCManifests
  Steady <- MCSteady
  Sources <- MCSources
  Contents <- MCContents
  FirstDisk <- MCFirstDisk
  Info <- MCInfo
  ProjectVersion = "1"
  StreamOrder <- MCStreamOrder
  Damages = {"none", "signed", "certificate", "cut", "payload", "loader", "engine", "metadata", "footer"}
  MaxEdits = 2
  MaxBuilds = 2
INVARIANTS DeliversWhatItSays ReadsWhatWasBuilt
PROPERTIES KeepsWhatStood RefusedForCause
CHECK_DEADLOCK FALSE
