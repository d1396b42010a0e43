------------------------- MODULE MC_SmbConnection -------------------------
(***************************************************************************)
(* Model-checking instance of SmbConnection: one intercepted share and one *)
(* pass-through share, the share root and one file, two tree and two file  *)
(* ids, a read-only and a MAXIMUM_ALLOWED access mask.                     *)
(***************************************************************************)
EXTENDS SmbConnection

CONSTANTS sData, sIpc, root, f1, srvsvc, t1, t2, h1, h2

MCShares      == {sData, sIpc}
MCPassThrough == {sIpc}
MCNames       == {root, f1}
MCTreeIds     == {t1, t2}
MCFileIds     == {h1, h2}
MCAccessMasks == {{"GENERIC_READ"}, {"MAXIMUM_ALLOWED"}}

\* Compounds of plain requests only: every later request names its handle.
PlainChains   == {<<>>}
\* A CREATE may carry a related CLOSE, SET_INFO + CLOSE or QUERY_DIRECTORY
\* (what Windows clients send to open, stat, delete or list in one round trip)
CompoundClose    == {<<>>, <<"CLOSE">>}
CompoundDelete   == {<<>>, <<"SET_INFO", "CLOSE">>}
CompoundQueryDir == {<<>>, <<"QUERY_DIRECTORY">>}

\* For the liveness runs: the intercepted share alone, opened for writing
OneShare      == {sData}
NoPassThrough == {}
WriteMasks    == {{"MAXIMUM_ALLOWED"}}
=============================================================================
