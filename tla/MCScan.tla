------------------------------- MODULE MCScan -------------------------------
(* A tree for TLC: a file in the root, two directories with a file each, a     *)
(* hidden name, and a directory that is too deep for the request.              *)
EXTENDS Scan, TLC

CONSTANTS top, f0, d1, f1, hidden, deep, f3, d2, f2

Tree == {top, f0, d1, f1, hidden, deep, f3, d2, f2}
TreeDirs == {top, d1, deep, d2}
TreeParent == (f0 :> top) @@ (d1 :> top) @@ (d2 :> top) @@ (f1 :> d1)
                @@ (hidden :> d1) @@ (deep :> d1) @@ (f3 :> deep) @@ (f2 :> d2)
=============================================================================
