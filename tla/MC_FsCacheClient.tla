---------------------------- MODULE MC_FsCacheClient ----------------------------
(* Model-checking instance of FsCacheClient: two client handles.           *)
EXTENDS FsCacheClient, TLC

CONSTANTS c1, c2

MCSessions == {c1, c2}
MCOneSession == {c1}

\* The sessions run the same code: any permutation of them is a behaviour.
MCSymmetry == Permutations(MCSessions)
====
