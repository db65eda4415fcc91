SPECIFICATION Spec
CONSTANTS
  Space = " "
  Excluded = {"api_key"}
  Unordered = {"phonemes"}
  Services = {"a", "b"}
  Profiles <- MCProfiles
  Starts <- MCStarts
  Changed <- MCChanged
  Texts <- MCTexts
  Key <- MCKey
  Alike <- MCAlike
  NoKey <- KeyError
  NoEntry = NoEntry
  NoCall = NoCall
  MaxRequests = 2
  MaxUpdates = 1
INVARIANTS
  TypeOK
  FiledUnderItsKey
  HeardAsAsked
  KeysIsolate
  KeysAgree
