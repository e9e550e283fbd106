SPECIFICATION Spec
CONSTANTS
  Ports   <- MCPorts
  Boards  <- MCBoards
  Builds  <- MCBuilds
  Cmds    <- MCCmds
  CmdInfo <- MCCmdInfo
INVARIANTS
  TypeOK
  Heard
  InStep
  CleanProbe
