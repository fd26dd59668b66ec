------------------------- MODULE BuilderReconcileInv -------------------------
(***************************************************************************)
(* The inductive invariant behind the promise of reconcile_builder.        *)
(***************************************************************************)
EXTENDS BuilderReconcile

(* The owner has asked to do without the object, or is gone. *)
MayGo == asked \cap (Off \cup {Gone}) # {}

(* A write holds all that build() sets for its want. *)
Complete(c) ==
    c.verb \in {"create", "patch"} => c.want \notin Off /\ Promise!Holds(c.body, c.want)

(* A patch under way holds the carried value and the annotations of the    *)
(* object it will meet, although it was built from an earlier read.         *)
Preserves(c, o) ==
    c.verb = "patch" /\ o # NoObject =>
        /\ o.data[Carried] # NoValue => c.body[Carried] = o.data[Carried]
        /\ \A f \in Annotation : o.data[f] # NoValue => c.body[f] # NoValue

(* What only holds while nobody else touches the object. *)
Undisturbed ==
    /\ object # NoObject => object.fixed /\ (object.dying => MayGo)
    /\ call # NoCall => (call.verb = "delete" => MayGo) /\ Preserves(call, object)

(* The call that the reconciler is about to make stays right although the  *)
(* object and the owner were read before: what it writes was asked for and *)
(* is complete, it deletes what may go, and it overwrites nothing that it  *)
(* should keep (builder.rs, reconcile_builder).                            *)
BuilderInv ==
    /\ TypeOK
    /\ {spec, seen} \subseteq asked
    /\ call # NoCall => call.want \in asked /\ Complete(call)
    /\ ~disturbed => Undisturbed
=============================================================================
