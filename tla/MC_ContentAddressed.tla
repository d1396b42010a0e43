------------------------- MODULE MC_ContentAddressed -------------------------
(* Model-checking instance of ContentAddressed: two SYNCs of F, chunks of  *)
(* two bytes, two parts in flight.                                         *)
EXTENDS ContentAddressed, TLC

CONSTANTS s1, s2

MCReaders == {s1, s2}

\* Three contents of the same size that share their first chunk, and a
\* shorter one: rewrites that keep the size keep the key's size too.
MCContents == {<<0, 0, 1>>, <<0, 0, 0>>, <<1, 0>>}

\* One SYNC, and a one-part file that a rewrite may make shorter.
MCOneReader == {s1}
MCShrinkingContents == {<<0, 0>>, <<1>>}

MCSymmetry == Permutations(MCReaders)
====
