SPECIFICATION Spec
CONSTANTS
  None = None
  Absent = Absent
  Blank = Blank
  north = north
  south = south
  acme = acme
  brit = brit
  newco = newco
  main = main
  x = x
  Texts = {Blank, north, south, acme, brit, newco, main, x}
  InitialDbs <- MCInitialDbs
  Files <- MCFiles
  FormRecords <- MCFormRecords
  ImportModes = {"add_only", "add_update"}
  MaxPreviews = 1
  MaxEdits = 0
CHECK_DEADLOCK FALSE
PROPERTY
  SkippedRowsUntouched
