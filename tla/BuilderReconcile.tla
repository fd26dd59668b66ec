--------------------------- MODULE BuilderReconcile ---------------------------
(***************************************************************************)
(* One object that the operator keeps for one owner: reconcile_builder of  *)
(* shulker-kube-utils/src/reconcilers/builder.rs, run again and again by   *)
(* the controller of the owner.  Every call to the API server is a step;   *)
(* users, other controllers and the garbage collector act in between.      *)
(***************************************************************************)
EXTENDS Naturals

CONSTANTS
    Want, Off, Gone,
    Field, Annotation, Carried,
    Value, NoValue,
    Manifest,           \* what build() sets for a want, except the carried field
    FreshValue,         \* what build() may generate for the carried field
    NoObject, NoCall,
    MaxEdits, MaxFailures, MaxInterference    \* bounds of the instances

Content == [Field -> Value \cup {NoValue}]

ASSUME ConstantsAssumption ==
    /\ Gone \notin Want
    /\ Off \subseteq Want
    /\ Annotation \subseteq Field \ {Carried}
    /\ Carried \in Field
    /\ NoValue \notin Value
    /\ Manifest \in [Want -> Content]
    /\ FreshValue \subseteq Value
    /\ FreshValue # {}
    /\ {MaxEdits, MaxFailures, MaxInterference} \subseteq Nat

VARIABLES
    spec,        \* the owner in the API server: what it asks for, or Gone
    asked,       \* all it has asked for (history)
    seen,        \* the owner as the controller knows it
    object,      \* the object in the API server, or NoObject
    call,        \* the call reconcile_builder is about to make, or NoCall
    late,        \* a call given up by the operator that may still arrive
    edits, failures, interference,  \* how often these happened
    disturbed,   \* somebody else or a late call changed the object (history)
    strayed      \* the object was made without an owner reference (history)

faults == <<edits, failures, interference>>
history == <<asked, disturbed, strayed>>
vars == <<spec, asked, seen, object, call, late, edits, failures, interference,
          disturbed, strayed>>

-----------------------------------------------------------------------------
(* Objects and calls.  ours are the fields owned by the server-side apply of  *)
(* the operator, theirs those owned by another manager; the POST that creates *)
(* an object is such another manager, although the operator sends it.         *)

Object ==
    [ data : Content,
      ours : SUBSET Field,
      theirs : SUBSET Field,
      owned : BOOLEAN,       \* has the controller reference of the owner
      fixed : BOOLEAN,       \* its immutable part is what build() sets
      dying : BOOLEAN ]      \* has a deletion timestamp

Call ==
    [ verb : {"get", "delete", "create", "patch"},
      want : Want,           \* the owner as the reconciler was handed it
      body : Content ]       \* what build() returned

ASSUME NothingAssumption ==
    /\ NoObject \notin Object \cup Content
    /\ NoCall \notin Call

TypeOK ==
    /\ spec \in Want \cup {Gone}
    /\ asked \subseteq Want \cup {Gone}
    /\ seen \in Want \cup {Gone}
    /\ object \in Object \cup {NoObject}
    /\ call \in Call \cup {NoCall}
    /\ late \in Call \cup {NoCall}
    /\ edits \in Nat /\ failures \in Nat /\ interference \in Nat
    /\ disturbed \in BOOLEAN
    /\ strayed \in BOOLEAN

Empty == [f \in Field |-> NoValue]

Set(body) == {f \in Field : body[f] # NoValue}

is_needed(w) == w \notin Off

(* Mutant: a resource that cannot be patched is never deleted. *)
NeverRecreated(existing) == FALSE

(* Of RoleBindingBuilder: role_ref cannot be changed in place. *)
is_recreation_needed(existing) == ~existing.fixed

(* Mutant: the existing object is not asked for the carried value. *)
Regenerated(w, existing, v) == [Manifest[w] EXCEPT ![Carried] = v]

(* The carried field is the forwarding key, or the replicas of a fleet that is *)
(* scaled by an autoscaler: build() takes it from the existing object.         *)
build(w, existing, v) ==
    [Manifest[w] EXCEPT
        ![Carried] = IF existing # NoObject /\ existing.data[Carried] # NoValue
                     THEN existing.data[Carried] ELSE v]

(* Mutant: the patch holds the annotations only. *)
OnlyAnnotations(body, existing) ==
    [f \in Annotation |-> IF body[f] = NoValue THEN existing.data[f] ELSE body[f]]

keep_annotations(body, existing) ==
    [f \in Field |->
        IF f \in Annotation /\ body[f] = NoValue THEN existing.data[f] ELSE body[f]]

-----------------------------------------------------------------------------
(* The API server. *)

(* A forced server-side apply: it takes over the fields whose value it changes, *)
(* and removes a field it does not name any more, unless another manager owns it *)
(* too.  Without an object it makes one.                                         *)
Applied(o, body) ==
    IF o = NoObject
    THEN [data |-> body, ours |-> Set(body), theirs |-> {},
          owned |-> FALSE, fixed |-> TRUE, dying |-> FALSE]
    ELSE [o EXCEPT
        !.data = [f \in Field |->
                    IF f \in Set(body) THEN body[f]
                    ELSE IF f \in o.ours \ o.theirs THEN NoValue ELSE o.data[f]],
        !.ours = Set(body),
        !.theirs = o.theirs \ {f \in Set(body) : body[f] # o.data[f]}]

(* Mutant: the controller reference is not set. *)
Unowned(body) ==
    [data |-> body, ours |-> {}, theirs |-> Set(body),
     owned |-> FALSE, fixed |-> TRUE, dying |-> FALSE]

Created(body) ==
    [data |-> body, ours |-> {}, theirs |-> Set(body),
     owned |-> TRUE, fixed |-> TRUE, dying |-> FALSE]

(* A create meets no object (409 otherwise), a patch does not change what is *)
(* immutable (422), a delete meets an object (404).                          *)
Accepted(c) ==
    CASE c.verb = "create" -> object = NoObject
      [] c.verb = "patch" -> object # NoObject => object.fixed
      [] c.verb = "delete" -> object # NoObject
      [] OTHER -> FALSE

(* A deleted object goes at once, or stays for a while if it has finalizers. *)
Result(c) ==
    CASE c.verb = "create" -> {Created(c.body)}
      [] c.verb = "patch" -> {Applied(object, c.body)}
      [] OTHER -> {NoObject, [object EXCEPT !.dying = TRUE]}

Takes(c) ==
    /\ object' \in Result(c)
    /\ strayed' = (strayed \/ (c.verb = "patch" /\ object = NoObject))

-----------------------------------------------------------------------------
(* reconcile_builder. *)

(* The watch of the controller catches up with the API server. *)
Observe ==
    /\ seen # spec
    /\ seen' = spec
    /\ UNCHANGED <<spec, object, call, late, faults, history>>

(* The controller runs the reconciler on every change of the owner or of an  *)
(* owned object, 5 s after an error and 5 min after a success: at any time.  *)
StartReconcile ==
    /\ call = NoCall
    /\ seen # Gone
    /\ call' = [verb |-> "get", want |-> seen, body |-> Empty]
    /\ UNCHANGED <<spec, seen, object, late, faults, history>>

(* The get, then everything up to the next call. *)
Plan(existing, w) ==
    IF existing # NoObject /\ (~is_needed(w) \/ is_recreation_needed(existing))
    THEN {[verb |-> "delete", want |-> w, body |-> Empty]}
    ELSE IF ~is_needed(w) THEN {NoCall}
    ELSE {IF existing = NoObject
          THEN [verb |-> "create", want |-> w, body |-> build(w, existing, v)]
          ELSE [verb |-> "patch", want |-> w,
                body |-> keep_annotations(build(w, existing, v), existing)]
            : v \in FreshValue}

Get ==
    /\ call # NoCall
    /\ call.verb = "get"
    /\ call' \in Plan(object, call.want)
    /\ UNCHANGED <<spec, seen, object, late, faults, history>>

DeleteExisting ==
    /\ call # NoCall
    /\ call.verb = "delete"
    /\ Accepted(call)
    /\ Takes(call)
    /\ call' \in Plan(NoObject, call.want)
    /\ UNCHANGED <<spec, seen, late, faults, asked, disturbed>>

Write ==
    /\ call # NoCall
    /\ call.verb \in {"create", "patch"}
    /\ Accepted(call)
    /\ Takes(call)
    /\ call' = NoCall
    /\ UNCHANGED <<spec, seen, late, faults, asked, disturbed>>

(* The API server refuses the call: the reconciler returns the error. *)
Refused ==
    /\ call # NoCall
    /\ call.verb # "get"
    /\ ~Accepted(call)
    /\ call' = NoCall
    /\ UNCHANGED <<spec, seen, object, late, faults, history>>

(* The call fails or times out, or the operator ends: nothing more of this *)
(* reconciliation happens, but the call may have been sent.                *)
Fail ==
    /\ call # NoCall
    /\ failures < MaxFailures
    /\ call' = NoCall
    /\ late' \in {late, call}
    /\ failures' = failures + 1
    /\ UNCHANGED <<spec, seen, object, edits, interference, history>>

LateCall ==
    /\ late # NoCall
    /\ late' = NoCall
    /\ IF Accepted(late)
       THEN Takes(late) /\ disturbed' = TRUE
       ELSE UNCHANGED <<object, disturbed, strayed>>
    /\ UNCHANGED <<spec, asked, seen, call, faults>>

-----------------------------------------------------------------------------
(* The rest of the world. *)

EditOwner ==
    /\ spec # Gone
    /\ edits < MaxEdits
    /\ \E w \in (Want \cup {Gone}) \ {spec} : spec' = w /\ asked' = asked \cup {w}
    /\ edits' = edits + 1
    /\ UNCHANGED <<seen, object, call, late, failures, interference, disturbed, strayed>>

(* Another client sets or removes a field, deletes the object, or makes one *)
(* of that name, possibly with another immutable part.                      *)
Interfere ==
    /\ interference < MaxInterference
    /\ interference' = interference + 1
    /\ disturbed' = TRUE
    /\ \/ /\ object # NoObject
          /\ \E f \in Field, v \in Value \cup {NoValue} :
                /\ v # object.data[f]
                /\ object' = [object EXCEPT
                      !.data[f] = v,
                      !.ours = @ \ {f},
                      !.theirs = IF v = NoValue THEN @ \ {f} ELSE @ \cup {f}]
          /\ UNCHANGED strayed
       \/ /\ object # NoObject
          /\ object' \in {NoObject, [object EXCEPT !.dying = TRUE]}
          /\ UNCHANGED strayed
       \/ /\ object = NoObject
          /\ \E f \in Field, v \in Value, ok \in BOOLEAN :
                object' = [data |-> [Empty EXCEPT ![f] = v], ours |-> {},
                           theirs |-> {f}, owned |-> FALSE, fixed |-> ok,
                           dying |-> FALSE]
          /\ strayed' = TRUE
    /\ UNCHANGED <<spec, asked, seen, call, late, edits, failures>>

(* The garbage collector removes an object that is being deleted, and one *)
(* whose owner is gone.                                                   *)
Collect ==
    /\ object # NoObject
    /\ object.dying \/ (object.owned /\ spec = Gone)
    /\ object' = NoObject
    /\ UNCHANGED <<spec, seen, call, late, faults, history>>

-----------------------------------------------------------------------------

Init ==
    /\ spec \in Want
    /\ asked = {spec}
    /\ seen = spec
    /\ object = NoObject
    /\ call = NoCall
    /\ late = NoCall
    /\ edits = 0 /\ failures = 0 /\ interference = 0
    /\ disturbed = FALSE
    /\ strayed = FALSE

Reconcile == StartReconcile \/ Get \/ DeleteExisting \/ Write \/ Refused

Next ==
    \/ Observe
    \/ Reconcile
    \/ Fail
    \/ LateCall
    \/ EditOwner
    \/ Interfere
    \/ Collect

(* The controller keeps reconciling (every run schedules the next one), a call *)
(* that was sent arrives or is lost for good, the garbage collector works.     *)
Fairness ==
    /\ WF_vars(Observe)
    /\ WF_vars(Reconcile)
    /\ WF_vars(LateCall)
    /\ WF_vars(Collect)

Spec == Init /\ [][Next]_vars /\ Fairness

-----------------------------------------------------------------------------
(* Properties. *)

Promise == INSTANCE ManagedObject WITH
    content <- IF object = NoObject THEN NoObject ELSE object.data

(* While nobody else touches the object and no call is late, the reconciler,  *)
(* whose get and write are separate calls, changes the object as the abstract *)
(* specification says: it never writes over the carried value (the forwarding *)
(* key, the replicas an autoscaler chose), loses no annotation, deletes only  *)
(* what the owner asked to do without, whatever fails half-way.               *)
ManagedSpec == Promise!Spec

(* Once the owner, the other clients and the failures calm down, the object is *)
(* there and holds what the owner asks for, or is not there if it is not       *)
(* needed: also after a foreign object, a failed recreation, a late call.      *)
Converges ==
    <>[](spec # Gone =>
            IF spec \in Off THEN object = NoObject
            ELSE object # NoObject /\ Promise!Holds(object.data, spec))

(* The object of an owner that is gone goes too, unless it was made without an *)
(* owner reference: by another client, or by a patch that came after a delete. *)
CollectedWithOwner == <>[](spec = Gone => object = NoObject \/ strayed)
=============================================================================
