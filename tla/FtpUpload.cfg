CONSTANTS
  d = d
  u = u
  Fetched = {d}
  Stored = {u}
  Size <- MCSize
  RestHonoured = TRUE
  MaxPending = 2
SPECIFICATION Spec
PROPERTY UploadResumes
