----------------------------- MODULE MCUpgrade -----------------------------
(* Upgrade on small instances: releases with each defect, each command     *)
(* line, and a download left behind that someone has made executable.      *)
EXTENDS Upgrade

Release(tag, image) ==
    [tag |-> tag, image |-> image, assetSig |-> image # Forged,
     sumsSig |-> TRUE, sums |-> TRUE]

GoodRelease == Release("new", "new")

AllReleases ==
    {GoodRelease,
     Release("old", "old"),
     Release("new", "old"),       \* a signed asset of another version
     Release("new", Forged),
     [GoodRelease EXCEPT !.assetSig = FALSE],
     [GoodRelease EXCEPT !.sumsSig = FALSE],
     [GoodRelease EXCEPT !.sums = FALSE]}

Line(requested, check, restart) ==
    [requested |-> requested, check |-> check, restart |-> restart]

AllOptions ==
    {Line(FALSE, FALSE, TRUE), Line(TRUE, FALSE, TRUE),
     Line(FALSE, FALSE, FALSE), Line(FALSE, TRUE, TRUE)}

PlainOption == {Line(FALSE, FALSE, TRUE)}

NothingLeft == {NoFile}
Leftover == {NoFile, [image |-> Partial, exec |-> TRUE]}
============================================================================
