---------------------------- MODULE ManagedObject ----------------------------
(***************************************************************************)
(* What the generic builder promises of one Kubernetes object, seen from   *)
(* the API server: how the object may change while nobody but the operator *)
(* touches it.  An object is what its fields hold; NoValue is a field that *)
(* is not set.                                                             *)
(***************************************************************************)
CONSTANTS
    Want,        \* what an owner can ask for
    Off,         \* the wants that do not need the object
    Gone,        \* the owner does not exist any more
    Field, Annotation, Carried,
    NoValue,
    Manifest,    \* what a want sets: Manifest[w][f]
    NoObject

VARIABLES
    spec,        \* what the owner asks for
    asked,       \* all it has asked for so far
    content,     \* the fields of the object, or NoObject
    disturbed    \* somebody else changed the object, or an old call did

vars == <<spec, asked, content, disturbed>>

Holds(c, w) ==
    \A f \in Field \ {Carried} : Manifest[w][f] # NoValue => c[f] = Manifest[w][f]

Init ==
    /\ spec \in Want
    /\ asked = {spec}
    /\ content = NoObject
    /\ disturbed = FALSE

(* The user edits or deletes the owner. *)
Ask(w) ==
    /\ spec # Gone
    /\ spec' = w
    /\ asked' = asked \cup {w}
    /\ UNCHANGED <<content, disturbed>>

(* The object appears, complete, for something the owner has asked for. *)
Appear ==
    /\ content = NoObject
    /\ content' # NoObject
    /\ \E w \in asked \ (Off \cup {Gone}) : Holds(content', w)
    /\ UNCHANGED <<spec, asked, disturbed>>

(* The object changes to what the owner has asked for.  Its carried value *)
(* stays, and no annotation is lost.                                      *)
Change ==
    /\ content # NoObject
    /\ content' # NoObject
    /\ \E w \in asked \ (Off \cup {Gone}) : Holds(content', w)
    /\ content[Carried] # NoValue => content'[Carried] = content[Carried]
    /\ \A f \in Annotation : content[f] # NoValue => content'[f] # NoValue
    /\ UNCHANGED <<spec, asked, disturbed>>

(* The object goes only if the owner has asked to do without it. *)
Disappear ==
    /\ content # NoObject
    /\ content' = NoObject
    /\ asked \cap (Off \cup {Gone}) # {}
    /\ UNCHANGED <<spec, asked, disturbed>>

Disturb ==
    /\ disturbed'
    /\ UNCHANGED <<spec, asked>>

Next ==
    \/ \E w \in Want \cup {Gone} : Ask(w)
    \/ Appear
    \/ Change
    \/ Disappear
    \/ Disturb

Spec == Init /\ [][Next]_vars

=============================================================================
