------------------------- MODULE MC_MetadataCache --------------------------
EXTENDS MetadataCache, TLC

CONSTANTS r1, r2

MCReaders == {r1, r2}
MCOneReader == {r1}

\* req_timeout 10 s < FILE_METADATA_REQUEST_TIMEOUT 30 s;
\* LIST_DIR_TIMEOUT 50 s > FILE_LISTDIR_REQUEST_TIMEOUT 45 s.
MCSmbTimeout == [k \in Kinds |-> 1]
MCBackendTimeout == [k \in Kinds |-> 1]

=============================================================================
