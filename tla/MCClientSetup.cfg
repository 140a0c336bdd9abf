SPECIFICATION Spec
CONSTANTS
  Configs <- MCConfigs
  Direct <- MCDirect
  Urls <- MCUrls
  MaxClients = 2
  MaxHops = 2
INVARIANTS
  ClientsAreUsable
  RedirectsStayInside
CHECK_DEADLOCK FALSE
