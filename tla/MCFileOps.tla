---------------------------- MODULE MCFileOps ----------------------------
(* FileOps on small instances: mixes of operations over three tokens.      *)
EXTENDS FileOps, TLC

CONSTANTS a, b, c

ABA == <<a, b, a>>

Download == [kind |-> "download"]
EditOp(old, new, all) == [kind |-> "edit", old |-> old, new |-> new, all |-> all]
UploadOp(body) == [kind |-> "upload", body |-> body]

(* edits that fit once, fit twice, fit only after another, or not at all   *)
EditMix ==
    {Download, EditOp(a, c, FALSE), EditOp(a, b, TRUE), EditOp(b, c, FALSE),
     EditOp(c, a, FALSE), EditOp("", a, FALSE)}

(* uploads longer and shorter than the file and than one another           *)
UploadMix ==
    {Download, UploadOp(<<c, c, c>>), UploadOp(<<b, a>>), UploadOp(<<b>>),
     EditOp(a, b, FALSE), EditOp(c, a, TRUE)}

WriteMix == {Download, UploadOp(<<c, c>>)}

EditsAndUploads == {EditMix, UploadMix}
WritesOnly == {WriteMix}

Symmetry == Permutations(Reqs)
===========================================================================
