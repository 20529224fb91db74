---------------------------- MODULE MCDBManager ----------------------------
EXTENDS DBManager, TLC

\* Both --scan directories can hold a file named "b", and nothing is configured, so the
\* entry is that of the first file a scan gets to see.
NothingConfigured == <<>>
ScanNames == ("one/b" :> "b") @@ ("two/b" :> "b")
TwoDirectories == ("one/b" :> 1) @@ ("two/b" :> 2)
=============================================================================
