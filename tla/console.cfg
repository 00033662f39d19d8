SPECIFICATION Spec
CONSTANTS
  a = a  b = b  d = d  employee = employee  project = project
  people = people  money = money  home = home
  Codes <- MCCodes
  Objects <- MCObjects
  FromCandidate = d
  Nothing = Nothing
  FullSet = 2
  MaxActs = 2
  MaxFaults = 1
  Other = money
  Functions <- MCFunctions
  FunctionOf <- MCFunctionOf
  Industries <- MCIndustries
  IndustryOf <- MCIndustryOf
  Hits = {a, d}
  Employee = employee
  Workbooks <- MCWorkbooks
  NodeOrder <- MCOrder
  Colours = 1
  SeedUnits <- MCSeedUnits
  SeedEdges <- MCSeedEdges
  OpenGroups <- MCOpenGroups
INVARIANTS ReadsItsWrites DecidedOnce UploadAccounted LayoutSound DeadButtonWorks
PROPERTIES HitsAreOpen
CHECK_DEADLOCK FALSE
