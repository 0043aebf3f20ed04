----------------------------- MODULE MCManifest -----------------------------
EXTENDS Manifest, TLC

CONSTANTS s1, s2, o1, o2, f1, r1, r2

MCOwn == {o1, o2}
MCRun == {r1, r2}

\* No run or object of the campaign is special, and no property is about liveness.
MCSymmetry == Permutations(MCOwn) \cup Permutations(MCRun)
=============================================================================
