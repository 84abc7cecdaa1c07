------------------------------ MODULE MCPathQueue ------------------------------
(* Small instances of PathQueue for TLC: an upload into /a, the deletion   *)
(* of /a, and a copy of /b to /a/b from another tab of the same host.      *)
EXTENDS PathQueue, TLC

CONSTANTS upload, delete, copy, tab1, tab2

MCOp    == {upload, delete, copy}
MCOwner == {tab1, tab2}
MCKind  == upload :> "batch" @@ delete :> "delete" @@ copy :> "copy"
MCOwnerOf == upload :> tab1 @@ delete :> tab1 @@ copy :> tab2
MCDropped == {upload}
MCScope ==
  upload :> {<<"host", "a", "x">>} @@ delete :> {<<"host", "a">>}
    @@ copy :> {<<"host", "b">>, <<"host", "a", "b">>}

=============================================================================
