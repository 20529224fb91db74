\* Two requests over the namespaces of a database that two --scan directories may hold.
SPECIFICATION FairSpec
CONSTANTS
  Handlers = {h1, h2}
  Names = {"b"}
  Paths = {"one/b", "two/b"}
  Base <- NothingConfigured
  ScanName <- ScanNames
  ScanDir <- TwoDirectories
  Namespaces = {"default", "other"}
  Default = "default"
  Nobody = Nobody
  Nothing = Nothing
INVARIANTS OpenedOnce OnceEachTTL GracefulClose
PROPERTIES ReadersCreateNothing OnlyAdds RequestsEnd
CHECK_DEADLOCK FALSE
