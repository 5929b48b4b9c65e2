SPECIFICATION StreamSpec
CONSTANTS
  Characters <- MCCharacters
  Markers <- MCMarkers
  Keywords <- MCKeywords
  Newline = "n"
  Window = 0
  MaxBuffer = 5
  LastIndex = 1
  Contents <- MCContents
  Thoughts <- MCThoughts
  Usages = {1, 2}
  MaxCost = 4
  Profiles = 2
  MaxRequests = 2
INVARIANTS EventsRebuildTheMessage ReadersAgree BlocksAreNotContent
CHECK_DEADLOCK FALSE
