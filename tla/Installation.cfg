SPECIFICATION InstallationSpec
CONSTANTS
  None = None  Absent = Absent
  Malformed = {}
  Executables = {"app.exe"}
  Scripts = {"app.ps1"}
  BatchMaxFiles = 2
  BatchMaxBytes = 3
  MaxChoices = 3
  InstallRoot <- Root_
  Uninstaller <- Uninstaller_
  Cases <- MCCases
INVARIANTS FollowsThePackage RepairHeals
PROPERTIES TheirsStand
