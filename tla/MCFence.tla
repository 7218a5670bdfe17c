------------------------------ MODULE MCFence ------------------------------
(* Fence on small trees: /in is the fence, directly or through a link, or  *)
(* a file in it is; /out is not.  At six places a file, a directory,       *)
(* nothing or links that lead in, out, round in circles, or to nothing;    *)
(* some paths have more links than the system follows, and some more than  *)
(* EvalSymlinks does.                                                      *)
EXTENDS Fence, TLC

AllNames == {"in", "out", "d", "x", "tmp"}

AllPlaces ==
    {<<>>, <<"x">>, <<"in">>, <<"out">>, <<"in", "d">>, <<"in", "x">>,
     <<"in", "d", "x">>, <<"out", "d">>, <<"out", "x">>, <<"out", "d", "x">>,
     <<"in", "tmp">>, <<"in", "d", "tmp">>}

Link(abs, to) == [kind |-> "link", abs |-> abs, to |-> to]

ToIn == Link(TRUE, <<"in">>)
ToX == Link(TRUE, <<"x">>)
ToOut == Link(FALSE, <<Up, "out">>)
ToOutD == Link(TRUE, <<"out", "d">>)
ToInD == Link(TRUE, <<"in", "d">>)
ToOutX == Link(TRUE, <<"out", "x">>)
ToRoot == Link(TRUE, <<>>)
ToUpX == Link(FALSE, <<Up, "x">>)
ToDX == Link(FALSE, <<"d", "x">>)

\* the two roots, and what is at their places
Tree(rx, d, x, dx, od, ox) ==
    (<<>> :> Dir) @@ (<<"x">> :> rx) @@ (<<"in">> :> Dir) @@ (<<"out">> :> Dir)
      @@ (<<"in", "d">> :> d) @@ (<<"in", "x">> :> x)
      @@ (<<"in", "d", "x">> :> dx) @@ (<<"out", "d">> :> od)
      @@ (<<"out", "x">> :> ox) @@ (<<"out", "d", "x">> :> Absent)
      @@ (<<"in", "tmp">> :> Absent) @@ (<<"in", "d", "tmp">> :> Absent)

AllTrees ==
    {Tree(Absent, d, x, dx, od, ox) :
        d \in {Absent, Dir, ToX, ToOut, ToOutD},
        x \in {Absent, File, ToOutX, ToDX}, dx \in {Absent, File, ToUpX},
        od \in {Absent, ToInD, ToRoot}, ox \in {Absent, File, ToUpX}}

\* with one more link on the way from /out/x to /in
LinkTrees ==
    {Tree(ToIn, d, x, dx, ToRoot, ToUpX) :
        d \in {Dir, ToX, ToOutD}, x \in {Absent, File, ToDX},
        dx \in {Absent, ToUpX}}

SomeTrees == {t \in AllTrees \cup LinkTrees : IsTree(t)}

Abs(p) == [abs |-> TRUE, to |-> p]

AllRequests ==
    {Abs(<<"in", "x">>), Abs(<<"in", "d", "x">>), Abs(<<"in", "d">>),
     Abs(<<"out", Up, "in", "d", Up, "x">>), Abs(<<"out", "d", "x">>),
     Abs(<<"in", "x", "d">>), Abs(<<"out", "x", "d", "out">>),
     [abs |-> FALSE, to |-> <<"in", "x">>]}

AllFences == {<<"in">>, <<"in", "d">>, <<"in", "x">>, <<>>, NoFence}

SomeEdits ==
    {<<<<"in", "d">>, ToOut>>, <<<<"in", "d">>, Dir>>,
     <<<<"in", "x">>, ToOutX>>, <<<<"in", "x">>, Absent>>,
     <<<<"out", "d">>, Dir>>, <<<<"out", "x">>, File>>,
     <<<<"in", "tmp">>, ToOutX>>}
============================================================================
