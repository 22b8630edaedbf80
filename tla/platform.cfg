SPECIFICATION LiveSpec
CONSTANTS
  Devices <- MCDevices
  MovedBar <- MCMovedBar
  MaxNs = 1
  PageSize = 4
  RegionPages = 14
  LoadPage = 3
  APs = {ap1, ap2}
  SMP_MAX_CPUS = 3
  StartAddrs <- MCStartAddrs
  PAGE_SIZE = 4096
  Size = 192
  GdtrAt = 160
  GdtAt = 168
  Entry32At = 40
  RunAddr = 7340032
  UART <- MCUart
  SPI <- MCSpi
  MODULE_DEV <- MCModule
  ModuleRegs = {17, 22}
  Machines <- MCMachines
  MaxCalls = 2
INVARIANTS
  ReachesItsRegister
  BaseIsBar
  DevicesReached
  PagesProtected
  ApRunsPatchedPage
PROPERTIES
  MpInitReturns
CHECK_DEADLOCK FALSE
