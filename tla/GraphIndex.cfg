SPECIFICATION Spec
CONSTANTS
  Path <- MCPath
  Shouty <- MCShouty
  Generic <- MCGeneric
  Tags = {"v1", "v2"}
  NoTag = NoTag
  None = None
  FileMaps <- MCFileMaps
  Parsed <- MCParsed
INVARIANTS TypeOK CacheFaithful GraphIsExtraction EdgesClosed NothingParsedTwice FamiliesIndependent
