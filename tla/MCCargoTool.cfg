\* One invocation of the tool, for every combination of the inputs.
SPECIFICATION ToolSpec
CONSTANTS
  None = None
  Commands <- MCCommands
  Workspaces <- MCWorkspaces
  Cwd <- MCCwd
  Environments <- MCEnvironments
  Dirs <- MCDirs
  RegularFiles <- MCFiles
  Messages <- MCMessages
  MaxOutput = 3
  PipeSize = 1
  Elfs <- MCElfs
  MaxAddr = 7
  UuidSize = 2
INVARIANTS
  DirForArch
  EnvironmentLast
  ToolchainMatches
  ResultIsTheProduct
  ReadsWhatIsLoaded
PROPERTY Ends
\* The tool has ended.
CHECK_DEADLOCK FALSE
