---------------------------- MODULE MCDiskLayout ----------------------------
(***************************************************************************)
(* Small instances of DiskLayout for TLC: every way to cut a download of   *)
(* six bytes into at most three files, empty files included.  A slice of   *)
(* up to three bytes can then begin in one file, fill a second and end in  *)
(* a third.                                                                *)
(***************************************************************************)
EXTENDS DiskLayout

MCFileLength == 6

MCLayouts ==
    {<<MCFileLength>>}
    \cup {<<a, MCFileLength - a>> : a \in 0 .. MCFileLength}
    \cup {<<ab[1], ab[2], MCFileLength - ab[1] - ab[2]>> :
             ab \in {x \in (0 .. MCFileLength) \X (0 .. MCFileLength) :
                         x[1] + x[2] <= MCFileLength}}

=============================================================================
