------------------------- MODULE MCBuilderReconcile -------------------------
(* One object of an owner with two wants that need it and one that does not. *)
EXTENDS BuilderReconcileInv

MCManifest ==
    [ plain |-> [note |-> NoValue, data |-> "one", key |-> NoValue],
      noted |-> [note |-> "one", data |-> "two", key |-> NoValue],
      without |-> [note |-> NoValue, data |-> NoValue, key |-> NoValue] ]
=============================================================================
