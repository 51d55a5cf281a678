SPECIFICATION FairSpec
CONSTANTS
  ConfFiles <- SomeConfs
  Asked <- SomeKeys
  BufSize = 3
  IniFiles <- SomeIni
  Chunk = 4
  Beginnings <- SomeBeginnings
  Endings <- SomeEndings
  UsedFiles <- UsedRules
  Words <- SomeWords
  Size <- SizeOf
INVARIANTS
  KeysAreFound ValuesAreTheirs
  LinksAreMutual TextIsKept MarksArePaired CrashesAtLastComma
PROPERTIES Ends LinesAreRead
CHECK_DEADLOCK FALSE
