------------------------------ MODULE MCVmodPriv ------------------------------
(* Two vmods: one whose functions use the RefCell form, one that mutates.    *)
EXTENDS VmodPriv, TLC
CONSTANTS cell, mutating

MCForms == (cell :> {"ref", "refcell"}) @@ (mutating :> {"ref", "mut"})
=============================================================================
