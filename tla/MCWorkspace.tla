----------------------------- MODULE MCWorkspace -----------------------------
(* Workspace with pointers of 4 bytes and a vrt_blob of 8: a string and a    *)
(* blob buffer, a slice of 2-byte items and one whose items are aligned more *)
(* strictly than the workspace.                                              *)
EXTENDS Workspace

MCBlob == [size |-> 8, align |-> 4]

MCKinds ==
  { [name |-> "str",  item |-> 1, ialign |-> 1, suffix |-> 1, salign |-> 1],
    [name |-> "blob", item |-> 1, ialign |-> 1, suffix |-> 8, salign |-> 4],
    [name |-> "temp", item |-> 2, ialign |-> 2, suffix |-> 0, salign |-> 1],
    [name |-> "temp", item |-> 8, ialign |-> 8, suffix |-> 0, salign |-> 1] }
=============================================================================
