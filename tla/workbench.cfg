SPECIFICATION Spec
CONSTANTS
  offer = offer  joiner = joiner  u1 = u1  u2 = u2  pay = pay  hire = hire
  w1 = w1  w2 = w2  f1 = f1  f2 = f2  s1 = s1  s2 = s2  hand = hand
  pain = pain  period = period  dual = dual  said = said  also = also
  goal = goal  authority = authority  ann = ann
  sheet = sheet  pdf = pdf  scan = scan  note = note  c1 = c1  c2 = c2
  inputs = inputs  decides = decides  paper = paper  letter = letter
  Nothing = Nothing
  MaxActs <- MCMaxActs
  MaxFaults = 1
  Objects <- MCObjects
  UnitsOf <- MCUnitsOf
  Subs <- MCSubs
  Owners <- MCOwners
  SpecUnits <- MCSpecUnits
  Preferred = w1
  Strict = {w2}
  Fields <- MCFields
  SampleRows <- MCSampleRows
  HandRow = hand
  Chunks = 2
  Disputed <- MCDisputed
  SeedUnits <- MCSeedUnits
  CoreIds <- MCCoreIds
  ThisPeriod = period
  Checks <- MCChecks
  Sentences <- MCSentences
  SitRows <- MCSitRows
  Humans <- MCHumans
  Clipped <- MCClipped
  DeskRows <- MCDeskRows
  Files <- MCFiles
  Sheets <- MCSheets
  Pdfs <- MCPdfs
  Empty = {note}
  Foreign = {}
  Broken = {scan}
  Citations <- MCCitations
  ClaimUnits <- MCClaimUnits
  PlainFields <- MCPlainFields
  Binding <- MCBinding
  Requested <- MCRequested
  Limit = 1
  Documents <- MCDocuments
INVARIANTS ShownIsStored AddedOnce ConfirmedIsStored SampleNeverSaved FactsOpen
PROPERTY HandWordsKept
CHECK_DEADLOCK FALSE
