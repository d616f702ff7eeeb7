----------------------------- MODULE MC_AutoTest -----------------------------
EXTENDS AutoTest

\* Both scripts, with a size on the command line and without.
MC_Scripts == {"initial", "home"} \X BOOLEAN

\* Screens within the reach of the resets' sweeps (520 and 600 units;
\* common.py's header puts a full screen at about 400): a square one, whose
\* icon lies on the scan's diagonal, and a tall one, whose icon the diagonal misses once
\* the pointer is held at the right edge.
MC_Screens == {<<200, 200>>, <<400, 500>>}

\* A portrait screen of 3:4.
MC_PortraitScreens == {<<300, 400>>}

MC_IconHalf == 15
=============================================================================
