---------------------------- MODULE MCAutoUpdate -----------------------------
(* Versions for TLC.                                                         *)
EXTENDS AutoUpdate

TwoReleases == {<<1, 13, 0>>, <<1, 14, 0>>}

\* One from which the second release would skip a minor, and a prerelease of the first
\* from which it would not.
MixedVersions == {<<1, 12, 0>>, <<1, 13, -1>>}
=============================================================================
