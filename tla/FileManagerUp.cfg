SPECIFICATION ManagerSpec
CONSTANTS
  Dirs <- MCDirs
  Root = "/"
  Parent <- MCParent
  Contents <- MCContents
  Up = ".."
  Visible = 2
  MaxMishaps = 0
CHECK_DEADLOCK FALSE
PROPERTY
  UpLeadsToParent
