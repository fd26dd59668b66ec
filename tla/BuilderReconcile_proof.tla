----------------------- MODULE BuilderReconcile_proof -----------------------
(***************************************************************************)
(* Proofs about BuilderReconcile, for every owner, manifest and number of  *)
(* edits, failures and interferences: what reconcile_builder promises.     *)
(***************************************************************************)
EXTENDS BuilderReconcileInv, TLAPS

USE DEF Content

(***************************************************************************)
(* What build() and the plan of a reconciliation return.                   *)
(***************************************************************************)
LEMMA NothingFacts ==
    /\ \A o \in Object : o # NoObject /\ o.data \in Content /\ o.data # NoObject
    /\ \A c \in Call : c # NoCall
    /\ \A w \in Want : w # Gone
    /\ Gone \notin Want
  BY ConstantsAssumption, NothingAssumption DEF Object

LEMMA BuildFacts ==
    ASSUME NEW w \in Want, NEW e \in Object \cup {NoObject}, NEW v \in FreshValue
    PROVE  /\ build(w, e, v) \in Content
           /\ Promise!Holds(build(w, e, v), w)
           /\ e # NoObject /\ e.data[Carried] # NoValue =>
                  build(w, e, v)[Carried] = e.data[Carried]
<1>1. Manifest[w] \in Content /\ Carried \in Field /\ v \in Value
  BY ConstantsAssumption
<1>2. e # NoObject => e.data \in Content
  BY DEF Object
<1>. QED BY <1>1, <1>2 DEF build, Promise!Holds

LEMMA KeepFacts ==
    ASSUME NEW b \in Content, NEW w \in Want, NEW e \in Object, Promise!Holds(b, w)
    PROVE  /\ keep_annotations(b, e) \in Content
           /\ Promise!Holds(keep_annotations(b, e), w)
           /\ keep_annotations(b, e)[Carried] = b[Carried]
           /\ \A f \in Annotation : e.data[f] # NoValue => keep_annotations(b, e)[f] # NoValue
<1>1. /\ e.data \in Content /\ Annotation \subseteq Field \ {Carried} /\ Carried \in Field
  BY ConstantsAssumption DEF Object
<1>. QED BY <1>1 DEF keep_annotations, Promise!Holds

\* A planned call is typed and complete, and keeps what it should of the object
\* it was planned for; a deletion is planned only of what is not needed, or
\* cannot be patched.
LEMMA PlanFacts ==
    ASSUME NEW w \in Want, NEW e \in Object \cup {NoObject}, NEW c \in Plan(e, w)
    PROVE  /\ c \in Call \cup {NoCall}
           /\ c # NoCall => c.want = w /\ Complete(c) /\ Preserves(c, e)
           /\ c # NoCall /\ c.verb = "delete" => w \in Off \/ (e # NoObject /\ ~e.fixed)
           /\ e = NoObject => c = NoCall \/ c.verb = "create"
<1>1. Empty \in Content
  BY DEF Empty
<1>2. CASE e # NoObject /\ (~is_needed(w) \/ is_recreation_needed(e))
  <2>1. c = [verb |-> "delete", want |-> w, body |-> Empty]
    BY <1>2 DEF Plan
  <2>. QED BY <2>1, <1>1, <1>2 DEF Call, Complete, Preserves, is_needed, is_recreation_needed
<1>3. CASE ~(e # NoObject /\ (~is_needed(w) \/ is_recreation_needed(e))) /\ ~is_needed(w)
  <2>1. c = NoCall
    BY <1>3 DEF Plan
  <2>. QED BY <2>1
<1>4. CASE is_needed(w) /\ e = NoObject
  <2>1. PICK v \in FreshValue :
            c = [verb |-> "create", want |-> w, body |-> build(w, e, v)]
    BY <1>4 DEF Plan
  <2>2. build(w, e, v) \in Content /\ Promise!Holds(build(w, e, v), w)
    BY BuildFacts
  <2>. QED BY <2>1, <2>2, <1>4 DEF Call, Complete, Preserves, is_needed
<1>5. CASE is_needed(w) /\ e # NoObject /\ ~is_recreation_needed(e)
  <2>1. PICK v \in FreshValue :
            c = [verb |-> "patch", want |-> w,
                 body |-> keep_annotations(build(w, e, v), e)]
    BY <1>5 DEF Plan
  <2> DEFINE b == build(w, e, v)
  <2>2. /\ b \in Content /\ Promise!Holds(b, w)
        /\ e.data[Carried] # NoValue => b[Carried] = e.data[Carried]
    BY BuildFacts, <1>5
  <2> HIDE DEF b
  <2>3. /\ keep_annotations(b, e) \in Content
        /\ Promise!Holds(keep_annotations(b, e), w)
        /\ keep_annotations(b, e)[Carried] = b[Carried]
        /\ \A f \in Annotation : e.data[f] # NoValue => keep_annotations(b, e)[f] # NoValue
    BY KeepFacts, <2>2, <1>5
  <2>4. c.body = keep_annotations(b, e) /\ c.want = w /\ c.verb = "patch" /\ c \in Call
    BY <2>1, <2>3 DEF Call, b
  <2>. QED BY <2>2, <2>3, <2>4, <1>5 DEF Complete, Preserves, is_needed
<1>. QED BY <1>2, <1>3, <1>4, <1>5

(***************************************************************************)
(* What the API server makes of a call.                                    *)
(***************************************************************************)
LEMMA AppliedType ==
    ASSUME NEW o \in Object \cup {NoObject}, NEW b \in Content
    PROVE  Applied(o, b) \in Object
<1>1. Set(b) \subseteq Field
  BY DEF Set
<1>2. CASE o = NoObject
  BY <1>1, <1>2 DEF Applied, Object
<1>3. CASE o # NoObject
  <2>1. o.data \in Content /\ o.theirs \subseteq Field /\ NoValue \in Value \cup {NoValue}
    BY <1>3 DEF Object
  <2>2. [f \in Field |-> IF f \in Set(b) THEN b[f]
                         ELSE IF f \in o.ours \ o.theirs THEN NoValue ELSE o.data[f]] \in Content
    BY <2>1
  <2>. QED BY <1>1, <1>3, <2>1, <2>2 DEF Applied, Object
<1>. QED BY <1>2, <1>3

LEMMA TakesType ==
    ASSUME TypeOK, NEW c \in Call, Accepted(c), Takes(c)
    PROVE  object' \in Object \cup {NoObject} /\ strayed' \in BOOLEAN
<1>1. c.body \in Content /\ Set(c.body) \subseteq Field
  BY DEF Call, Set
<1>2. CASE c.verb = "create"
  <2>1. object' = Created(c.body)
    BY <1>2 DEF Takes, Result
  <2>2. Created(c.body) \in Object
    BY <1>1 DEF Created, Object
  <2>. QED BY <2>1, <2>2 DEF Takes, TypeOK
<1>3. CASE c.verb = "patch"
  <2>1. object' = Applied(object, c.body)
    BY <1>3 DEF Takes, Result
  <2>. QED BY <1>1, <2>1, AppliedType DEF Takes, TypeOK
<1>4. CASE c.verb = "delete"
  <2>1. object \in Object /\ object' \in {NoObject, [object EXCEPT !.dying = TRUE]}
    BY <1>4 DEF Takes, Result, Accepted, TypeOK
  <2>2. [object EXCEPT !.dying = TRUE] \in Object
    BY <2>1 DEF Object
  <2>. QED BY <2>1, <2>2 DEF Takes, TypeOK
<1>. QED BY <1>2, <1>3, <1>4 DEF Accepted

\* A complete write of an owner's want holds that want, and a patch that keeps
\* the carried value and the annotations of the object leaves them there.
LEMMA AppliedFacts ==
    ASSUME NEW c \in Call, c.verb = "patch", NEW o \in Object, Complete(c), Preserves(c, o)
    PROVE  /\ Promise!Holds(Applied(o, c.body).data, c.want)
           /\ o.data[Carried] # NoValue => Applied(o, c.body).data[Carried] = o.data[Carried]
           /\ \A f \in Annotation :
                  o.data[f] # NoValue => Applied(o, c.body).data[f] # NoValue
           /\ Applied(o, c.body).fixed = o.fixed /\ Applied(o, c.body).dying = o.dying
<1>1. /\ o # NoObject /\ o.data \in Content /\ c.body \in Content
      /\ Carried \in Field /\ Annotation \subseteq Field
  BY NothingFacts, ConstantsAssumption DEF Call
<1>2. Applied(o, c.body).data =
        [f \in Field |-> IF f \in Set(c.body) THEN c.body[f]
                         ELSE IF f \in o.ours \ o.theirs THEN NoValue ELSE o.data[f]]
  BY <1>1 DEF Applied, Object
<1>3. \A f \in Field : c.body[f] # NoValue => Applied(o, c.body).data[f] = c.body[f]
  BY <1>2 DEF Set
<1>4. Promise!Holds(c.body, c.want)
  BY DEF Complete
<1>5. Promise!Holds(Applied(o, c.body).data, c.want)
  BY <1>3, <1>4 DEF Promise!Holds
<1>6. Applied(o, c.body).fixed = o.fixed /\ Applied(o, c.body).dying = o.dying
  BY <1>1 DEF Applied, Object
<1>. QED BY <1>1, <1>3, <1>5, <1>6 DEF Preserves

(***************************************************************************)
(* Every step keeps the invariant.                                         *)
(***************************************************************************)
LEMMA InitInv == Init => BuilderInv
<1> SUFFICES ASSUME Init PROVE BuilderInv
  OBVIOUS
<1>1. TypeOK
  BY ConstantsAssumption DEF Init, TypeOK
<1>. QED BY <1>1 DEF Init, BuilderInv, Undisturbed

\* What the owner has asked for is never taken back.
LEMMA MayGoStays == asked \subseteq asked' /\ MayGo => MayGo'
  BY DEF MayGo

LEMMA ObserveInv == BuilderInv /\ Observe => BuilderInv'
  BY DEF BuilderInv, Observe, TypeOK, Undisturbed, MayGo, faults, history

LEMMA StartInv == BuilderInv /\ StartReconcile => BuilderInv'
<1> SUFFICES ASSUME BuilderInv, StartReconcile PROVE BuilderInv'
  OBVIOUS
<1>1. Empty \in Content
  BY DEF Empty
<1>2. call' \in Call /\ call'.verb = "get" /\ call'.want = seen
  BY <1>1 DEF StartReconcile, BuilderInv, TypeOK, Call
<1>3. TypeOK'
  BY <1>2 DEF BuilderInv, TypeOK, StartReconcile, faults, history
<1>4. call'.want \in asked' /\ Complete(call')
  BY <1>2 DEF BuilderInv, StartReconcile, history, Complete
<1>5. (~disturbed => Undisturbed)'
  BY <1>2 DEF BuilderInv, StartReconcile, history, Undisturbed, Preserves, MayGo
<1>. QED BY <1>3, <1>4, <1>5 DEF BuilderInv, StartReconcile, history

LEMMA GetInv == BuilderInv /\ Get => BuilderInv'
<1> SUFFICES ASSUME BuilderInv, Get PROVE BuilderInv'
  OBVIOUS
<1>1. /\ call.want \in Want /\ call.want \in asked /\ object \in Object \cup {NoObject}
      /\ call' \in Plan(object, call.want)
  BY DEF BuilderInv, Get, TypeOK, Call
<1>2. /\ call' \in Call \cup {NoCall}
      /\ call' # NoCall => call'.want = call.want /\ Complete(call') /\ Preserves(call', object)
      /\ call' # NoCall /\ call'.verb = "delete" =>
             call.want \in Off \/ (object # NoObject /\ ~object.fixed)
  BY <1>1, PlanFacts
<1>3. TypeOK'
  BY <1>2 DEF BuilderInv, TypeOK, Get, faults, history
<1>4. (~disturbed => Undisturbed)'
  BY <1>1, <1>2 DEF BuilderInv, Get, history, Undisturbed, MayGo
<1>. QED BY <1>1, <1>2, <1>3, <1>4 DEF BuilderInv, Get, history

LEMMA DeleteInv == BuilderInv /\ DeleteExisting => BuilderInv'
<1> SUFFICES ASSUME BuilderInv, DeleteExisting PROVE BuilderInv'
  OBVIOUS
<1>1. /\ call \in Call /\ call.want \in Want /\ call.want \in asked
      /\ call' \in Plan(NoObject, call.want)
  BY DEF BuilderInv, DeleteExisting, TypeOK, Call
<1>2. /\ call' \in Call \cup {NoCall}
      /\ call' # NoCall => call'.want = call.want /\ Complete(call') /\ call'.verb = "create"
  BY <1>1, PlanFacts
<1>3. object' \in Object \cup {NoObject} /\ strayed' \in BOOLEAN
  BY <1>1, TakesType DEF BuilderInv, DeleteExisting
<1>4. TypeOK'
  BY <1>2, <1>3 DEF BuilderInv, TypeOK, DeleteExisting, faults
<1>5. object' # NoObject => object # NoObject /\ object'.fixed = object.fixed
  BY DEF DeleteExisting, Takes, Result, Accepted, BuilderInv, TypeOK, Object
<1>6. (~disturbed => Undisturbed)'
  BY <1>2, <1>5 DEF BuilderInv, DeleteExisting, Undisturbed, Preserves, MayGo
<1>. QED BY <1>1, <1>2, <1>4, <1>6 DEF BuilderInv, DeleteExisting

LEMMA WriteInv == BuilderInv /\ Write => BuilderInv'
<1> SUFFICES ASSUME BuilderInv, Write PROVE BuilderInv'
  OBVIOUS
<1>1. call \in Call /\ Complete(call) /\ call.body \in Content
  BY DEF BuilderInv, Write, TypeOK, Call
<1>2. object' \in Object \cup {NoObject} /\ strayed' \in BOOLEAN
  BY <1>1, TakesType DEF BuilderInv, Write
<1>3. TypeOK'
  BY <1>2 DEF BuilderInv, TypeOK, Write, faults
<1>4. ASSUME ~disturbed PROVE object' # NoObject => object'.fixed /\ (object'.dying => MayGo)
  <2>1. CASE call.verb = "create"
    BY <2>1 DEF Write, Takes, Result, Created
  <2>2. CASE call.verb = "patch" /\ object = NoObject
    BY <2>2 DEF Write, Takes, Result, Applied
  <2>3. CASE call.verb = "patch" /\ object # NoObject
    <3>1. object' = Applied(object, call.body) /\ object \in Object
      BY <2>3 DEF Write, Takes, Result, BuilderInv, TypeOK
    <3>2. Preserves(call, object)
      BY <1>4 DEF BuilderInv, Undisturbed, Write
    <3>. QED BY <1>1, <1>4, <2>3, <3>1, <3>2, AppliedFacts DEF BuilderInv, Undisturbed
  <2>. QED BY <2>1, <2>2, <2>3 DEF Write
<1>5. (~disturbed => Undisturbed)'
  BY <1>4 DEF Write, Undisturbed, MayGo
<1>. QED BY <1>3, <1>5 DEF BuilderInv, Write

LEMMA EndOfCallInv == BuilderInv /\ (Refused \/ Fail) => BuilderInv'
  BY DEF BuilderInv, TypeOK, Refused, Fail, Undisturbed, MayGo, faults, history

LEMMA LateInv == BuilderInv /\ LateCall => BuilderInv'
<1> SUFFICES ASSUME BuilderInv, LateCall PROVE BuilderInv'
  OBVIOUS
<1>1. CASE Accepted(late)
  <2>1. late \in Call /\ object' \in Object \cup {NoObject} /\ strayed' \in BOOLEAN
    BY <1>1, TakesType DEF BuilderInv, LateCall, TypeOK
  <2>. QED BY <1>1, <2>1 DEF BuilderInv, LateCall, TypeOK, faults
<1>2. CASE ~Accepted(late)
  BY <1>2 DEF BuilderInv, LateCall, TypeOK, Undisturbed, MayGo, faults
<1>. QED BY <1>1, <1>2

LEMMA EditInv == BuilderInv /\ EditOwner => BuilderInv'
<1> SUFFICES ASSUME BuilderInv, EditOwner PROVE BuilderInv'
  OBVIOUS
<1>1. asked \subseteq asked' /\ spec' \in asked'
  BY DEF EditOwner
<1>2. TypeOK'
  BY DEF BuilderInv, TypeOK, EditOwner
<1>3. (~disturbed => Undisturbed)'
  BY <1>1, MayGoStays DEF BuilderInv, EditOwner, Undisturbed
<1>. QED BY <1>1, <1>2, <1>3 DEF BuilderInv, EditOwner

LEMMA InterfereInv == BuilderInv /\ Interfere => BuilderInv'
<1> SUFFICES ASSUME BuilderInv, Interfere PROVE BuilderInv'
  OBVIOUS
<1>1. object' \in Object \cup {NoObject}
  <2>1. CASE object # NoObject /\ \E f \in Field, v \in Value \cup {NoValue} :
                 object' = [object EXCEPT
                      !.data[f] = v,
                      !.ours = @ \ {f},
                      !.theirs = IF v = NoValue THEN @ \ {f} ELSE @ \cup {f}]
    <3>1. PICK f \in Field, v \in Value \cup {NoValue} :
             object' = [object EXCEPT
                      !.data[f] = v,
                      !.ours = @ \ {f},
                      !.theirs = IF v = NoValue THEN @ \ {f} ELSE @ \cup {f}]
      BY <2>1
    <3>2. object \in Object /\ object.data \in Content
      BY <2>1 DEF BuilderInv, TypeOK, Object
    <3>3. [object.data EXCEPT ![f] = v] \in Content
      BY <3>2
    <3>4. object.ours \ {f} \in SUBSET Field
          /\ (IF v = NoValue THEN object.theirs \ {f} ELSE object.theirs \cup {f}) \in SUBSET Field
      BY <3>2 DEF Object
    <3>. QED BY <3>1, <3>2, <3>3, <3>4 DEF Object
  <2>2. CASE object # NoObject /\ object' \in {NoObject, [object EXCEPT !.dying = TRUE]}
    BY <2>2 DEF BuilderInv, TypeOK, Object
  <2>3. CASE \E f \in Field, v \in Value, ok \in BOOLEAN :
                 object' = [data |-> [Empty EXCEPT ![f] = v], ours |-> {},
                            theirs |-> {f}, owned |-> FALSE, fixed |-> ok,
                            dying |-> FALSE]
    BY <2>3 DEF Empty, Object
  <2>. QED BY <2>1, <2>2, <2>3 DEF Interfere
<1>2. strayed' \in BOOLEAN
  BY Zenon DEF Interfere, BuilderInv, TypeOK
<1>3. interference' \in Nat
  <2>1. interference' = interference + 1
    BY Zenon DEF Interfere
  <2>. QED BY <2>1 DEF BuilderInv, TypeOK
<1>4. TypeOK'
  BY <1>1, <1>2, <1>3 DEF BuilderInv, TypeOK, Interfere
<1>. QED BY <1>4 DEF BuilderInv, Interfere

LEMMA CollectInv == BuilderInv /\ Collect => BuilderInv'
  BY DEF BuilderInv, TypeOK, Collect, Undisturbed, Preserves, MayGo, faults, history

LEMMA StutterInv == BuilderInv /\ UNCHANGED vars => BuilderInv'
  BY DEF BuilderInv, TypeOK, Undisturbed, MayGo, vars

(* What reconcile_builder is about to do stays right, whatever happened     *)
(* between its get and its write.                                           *)
THEOREM BuilderAlways == Spec => []BuilderInv
<1>1. BuilderInv /\ [Next]_vars => BuilderInv'
  BY ObserveInv, StartInv, GetInv, DeleteInv, WriteInv, EndOfCallInv, LateInv, EditInv,
     InterfereInv, CollectInv, StutterInv DEF Next, Reconcile
<1>. QED BY <1>1, InitInv, PTL DEF Spec

(* The variables have their types.                                          *)
THEOREM BuilderTypeCorrect == Spec => []TypeOK
<1>1. BuilderInv => TypeOK
  BY DEF BuilderInv
<1>. QED BY <1>1, BuilderAlways, PTL

(***************************************************************************)
(* Every step is one that ManagedObject allows, or changes nothing of it.   *)
(***************************************************************************)
LEMMA DisturbedStep ==
    disturbed' /\ UNCHANGED <<spec, asked>> => [Promise!Next]_(Promise!vars)
  BY DEF Promise!Next, Promise!Disturb

LEMMA SameObjectStep ==
    UNCHANGED <<spec, asked, disturbed>> /\ UNCHANGED object => [Promise!Next]_(Promise!vars)
  BY DEF Promise!vars

LEMMA EditStep == BuilderInv /\ EditOwner => [Promise!Next]_(Promise!vars)
  BY DEF EditOwner, Promise!Next, Promise!Ask

\* The object goes, or is only marked as being deleted.
LEMMA GoesStep ==
    ASSUME BuilderInv, object # NoObject, MayGo, UNCHANGED <<spec, asked, disturbed>>,
           object' \in {NoObject, [object EXCEPT !.dying = TRUE]}
    PROVE  [Promise!Next]_(Promise!vars)
<1>1. object \in Object /\ object.data # NoObject
  BY NothingFacts DEF BuilderInv, TypeOK
<1>2. CASE object' = NoObject
  BY <1>1, <1>2 DEF Promise!Next, Promise!Disappear, MayGo
<1>3. CASE object' = [object EXCEPT !.dying = TRUE]
  <2>1. object'.data = object.data /\ object' \in Object
    BY <1>1, <1>3 DEF Object
  <2>2. object' # NoObject
    BY <2>1, NothingFacts
  <2>. QED BY <2>1, <2>2 DEF Promise!vars
<1>. QED BY <1>2, <1>3

LEMMA WriteStep ==
    ASSUME BuilderInv, Write, ~disturbed
    PROVE  [Promise!Next]_(Promise!vars)
<1>1. /\ call \in Call /\ call.body \in Content /\ Complete(call)
      /\ call.want \in asked \ (Off \cup {Gone}) /\ Promise!Holds(call.body, call.want)
  BY NothingFacts DEF BuilderInv, Write, TypeOK, Call, Complete
<1>2. UNCHANGED <<spec, asked, disturbed>>
  BY DEF Write
<1>3. CASE object = NoObject
  <2>1. object'.data = call.body /\ object' \in Object
    <3>1. CASE call.verb = "create"
      <4>1. object' = Created(call.body)
        BY <3>1 DEF Write, Takes, Result
      <4>. QED BY <1>1, <4>1 DEF Created, Object, Set
    <3>2. CASE call.verb = "patch"
      <4>1. object' = Applied(object, call.body)
        BY <3>2 DEF Write, Takes, Result
      <4>. QED BY <1>1, <1>3, <4>1, AppliedType DEF Applied
    <3>. QED BY <3>1, <3>2 DEF Write
  <2>2. object' # NoObject /\ object'.data # NoObject
    BY <2>1, NothingFacts
  <2>. QED BY <1>1, <1>2, <1>3, <2>1, <2>2 DEF Promise!Next, Promise!Appear
<1>4. CASE object # NoObject
  <2>1. call.verb = "patch" /\ object' = Applied(object, call.body) /\ object \in Object
    BY <1>4 DEF Write, Accepted, Takes, Result, BuilderInv, TypeOK
  <2>2. Preserves(call, object)
    BY DEF BuilderInv, Undisturbed, Write
  <2>3. /\ Promise!Holds(object'.data, call.want)
        /\ object.data[Carried] # NoValue => object'.data[Carried] = object.data[Carried]
        /\ \A f \in Annotation : object.data[f] # NoValue => object'.data[f] # NoValue
    BY <1>1, <2>1, <2>2, AppliedFacts
  <2>4. /\ object' # NoObject /\ object'.data # NoObject /\ object.data # NoObject
    BY <1>1, <2>1, AppliedType, NothingFacts
  <2>. QED BY <1>1, <1>2, <1>4, <2>3, <2>4 DEF Promise!Next, Promise!Change
<1>. QED BY <1>3, <1>4

LEMMA Step ==
    ASSUME BuilderInv, [Next]_vars
    PROVE  [Promise!Next]_(Promise!vars)
<1>1. CASE Observe \/ StartReconcile \/ Get \/ Refused \/ Fail \/ UNCHANGED vars
  BY <1>1, SameObjectStep DEF Observe, StartReconcile, Get, Refused, Fail, faults, history, vars
<1>2. CASE DeleteExisting
  <2>1. CASE disturbed
    BY <1>2, <2>1, DisturbedStep DEF DeleteExisting, BuilderInv, TypeOK
  <2>2. CASE ~disturbed
    <3>1. MayGo /\ object # NoObject /\ object' \in {NoObject, [object EXCEPT !.dying = TRUE]}
      BY <1>2, <2>2 DEF DeleteExisting, BuilderInv, Undisturbed, Accepted, Takes, Result
    <3>2. UNCHANGED <<spec, asked, disturbed>>
      BY <1>2 DEF DeleteExisting
    <3>. QED BY <3>1, <3>2, GoesStep
  <2>. QED BY <2>1, <2>2
<1>3. CASE Write
  <2>1. CASE disturbed
    BY <1>3, <2>1, DisturbedStep DEF Write, BuilderInv, TypeOK
  <2>. QED BY <1>3, <2>1, WriteStep
<1>4. CASE LateCall
  <2>1. CASE Accepted(late)
    BY <1>4, <2>1, DisturbedStep DEF LateCall
  <2>2. CASE ~Accepted(late)
    BY <1>4, <2>2, SameObjectStep DEF LateCall
  <2>. QED BY <2>1, <2>2
<1>5. CASE EditOwner
  BY <1>5, EditStep
<1>6. CASE Interfere
  BY <1>6, DisturbedStep DEF Interfere
<1>7. CASE Collect
  <2>1. CASE disturbed
    BY <1>7, <2>1, DisturbedStep DEF Collect, history
  <2>2. CASE ~disturbed
    <3>1. MayGo /\ object # NoObject /\ object' = NoObject
      BY <1>7, <2>2 DEF Collect, BuilderInv, Undisturbed, MayGo
    <3>2. UNCHANGED <<spec, asked, disturbed>>
      BY <1>7 DEF Collect, history
    <3>. QED BY <3>1, <3>2, GoesStep
  <2>. QED BY <2>1, <2>2
<1>. QED BY <1>1, <1>2, <1>3, <1>4, <1>5, <1>6, <1>7 DEF Next, Reconcile

(* The reconciler keeps its promise: while nobody else touches the object,  *)
(* what its separate calls do to the object is what ManagedObject allows.   *)
THEOREM PromiseKept == Spec => ManagedSpec
<1>1. Init => Promise!Init
  BY DEF Init, Promise!Init
<1>2. BuilderInv /\ [Next]_vars => [Promise!Next]_(Promise!vars)
  BY Step
<1>. QED BY <1>1, <1>2, BuilderAlways, PTL DEF Spec, ManagedSpec, Promise!Spec

=============================================================================
