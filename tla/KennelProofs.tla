---------------------------- MODULE KennelProofs ----------------------------
(***************************************************************************)
(* What holds of dogs and labels for every catalogue, every pair of dogs,  *)
(* every number of clerks and every length of a behaviour: the domain      *)
(* rules about a meeting, the brackets, the patches that keep a row        *)
(* loadable; that edits of a dog compose, and that a label in use stays.   *)
(***************************************************************************)
EXTENDS Kennel, TLAPS

-----------------------------------------------------------------------------
(* The domain rules                                                        *)

(* Dog.ConflictsWith (dog.go:279-287): the trait and trigger conflicts of  *)
(* a pair are the same set whichever of the two is being registered.       *)
THEOREM ConflictsSymmetric ==
  \A a, b : ConflictsWith(a, b) = ConflictsWith(b, a)
BY DEF ConflictsWith

(* SexNeuteredConflict (dog.go:345-383): two intact males block each       *)
(* other's registration, never one only the other's.                       *)
THEOREM BlockersSymmetric ==
  ASSUME None # <<"intact", "intact">>
  PROVE  \A a, b : IsBlocker(a, b) <=> IsBlocker(b, a)
BY DEF IsBlocker, Reason, SexNeuteredConflictsWith

Refusals == {"sex_neutered_incompatibility", "dog_incompatible"}

(* register.go:270-303: a dog that is refused because of some of the dogs  *)
(* booked is refused whoever else is booked; another booking never makes a *)
(* refused registration possible.                                          *)
THEOREM RefusalIsMonotone ==
  ASSUME NEW dog, NEW some, NEW all, some \subseteq all,
         Verdict(dog, some) \in Refusals
  PROVE  Verdict(dog, all) \in Refusals
<1>1. HasBlockingSexConflict(dog, some) => HasBlockingSexConflict(dog, all)
  BY DEF HasBlockingSexConflict
<1>2. Conflicts(dog, some) \subseteq Conflicts(dog, all)
  BY DEF Conflicts
<1>3. HasAbsoluteConflict(Conflicts(dog, some)) => HasAbsoluteConflict(Conflicts(dog, all))
  BY <1>2 DEF HasAbsoluteConflict
<1>4. HasBlockingSexConflict(dog, some) \/ HasAbsoluteConflict(Conflicts(dog, some))
  BY DEF Verdict, Refusals
<1> QED
  BY <1>1, <1>3, <1>4 DEF Verdict, Refusals

(* dog.go:386-417 and the generated columns of the table dogs: the bracket *)
(* a list filters by is the bracket the domain answers, for every age and  *)
(* every weight.                                                           *)
THEOREM BracketsAgree ==
  /\ \A months \in Int : AgeBracket(months) = AgeColumn(months)
  /\ \A weight \in Int : SizeBracket(weight) = SizeColumn(weight)
<1>1. ASSUME NEW months \in Int PROVE AgeBracket(months) = AgeColumn(months)
  BY DEF AgeBracket, AgeColumn
<1>2. ASSUME NEW weight \in Int PROVE SizeBracket(weight) = SizeColumn(weight)
  <2> DEFINE tiny == weight <= 0
             mini == weight \in 1..500
             medium == weight \in 501..2000
             large == weight > 2000
  <2>1. /\ mini <=> ~tiny /\ weight <= 500
        /\ medium <=> ~tiny /\ ~(weight <= 500) /\ weight <= 2000
        /\ large <=> ~tiny /\ ~(weight <= 500) /\ ~(weight <= 2000)
    BY <1>2
  <2>2. SizeBracket(weight) =
          CASE tiny -> "UNKNOWN" [] mini -> "MINI" [] medium -> "MEDIUM" [] large -> "LARGE"
    BY DEF SizeBracket
  <2> HIDE DEF mini, medium, large
  <2>3. CASE tiny
    BY <2>1, <2>2, <2>3 DEF SizeColumn
  <2>4. CASE mini
    BY <2>1, <2>2, <2>4 DEF SizeColumn
  <2>5. CASE medium
    BY <2>1, <2>2, <2>5 DEF SizeColumn
  <2>6. CASE large
    BY <2>1, <2>2, <2>6 DEF SizeColumn
  <2> QED
    BY <2>1, <2>3, <2>4, <2>5, <2>6
<1> QED
  BY <1>1, <1>2

(* dog.go:570-573 and 607-610: of the patches ApplyPatch accepts, those    *)
(* that leave the sex alone and those that name heat keep the rule that    *)
(* only a female is in heat. What is left, a patch of the sex alone, is    *)
(* the one that breaks it.                                                 *)
THEOREM HeatRuleKept ==
  ASSUME NEW row, NEW patch, {"heat", "sex"} \subseteq DOMAIN row,
         SetHeat(row, row["heat"]), PatchAccepted(row, patch),
         "heat" \in DOMAIN patch \/ "sex" \notin DOMAIN patch
  PROVE  SetHeat(Patched(row, patch), Patched(row, patch)["heat"])
<1>1. CASE "heat" \in DOMAIN patch
  BY <1>1 DEF PatchAccepted, Patched
<1>2. CASE "heat" \notin DOMAIN patch
  BY <1>2 DEF SetHeat, Patched
<1> QED
  BY <1>1, <1>2
-----------------------------------------------------------------------------
(* Edits that interleave                                                   *)

DogEdits == {"patch", "addTrait", "addTrigger", "removeLabel"}
Requests == DogRequests \cup LabelRequests

(* Rows of dogs are records with links, and a record is what EXCEPT keeps. *)
DogsTyped ==
  /\ dogs = [d \in Dogs |-> dogs[d]]
  /\ \A d \in Dogs : dogs[d] # None =>
       /\ dogs[d] = [f \in DOMAIN dogs[d] |-> dogs[d][f]]
       /\ "links" \in DOMAIN dogs[d] /\ dogs[d].links \subseteq LabelIds

ClerksTyped ==
  clerk = [c \in Clerks |-> [at |-> clerk[c].at, req |-> clerk[c].req, mem |-> clerk[c].mem]]

(* What a statement relies on: the request it serves, a typed row to       *)
(* write, and at the end of an edit the lock and the row read under it.    *)
Serving(c) == clerk[c].at # "idle" => clerk[c].req \in Requests

Locking(c) ==
  clerk[c].at \in {"lockDog", "storeDog"} => clerk[c].req.op \in DogEdits

Deleting(c) == clerk[c].at = "deleteDog" => clerk[c].req.op = "deleteDog"

WritingLabel(c) ==
  clerk[c].at \in {"checkTarget", "insertLabel", "updateLabel"} => clerk[c].mem \in Label

EditingDog(c) ==
  clerk[c].at = "storeDog" =>
    LET d == clerk[c].req.dog
        mem == clerk[c].mem
    IN  /\ holder[d] = c
        /\ dogs[d] # None
        /\ mem = [row |-> dogs[d], traits |-> mem.traits, triggers |-> mem.triggers]
        /\ mem.traits \cup mem.triggers = dogs[d].links

KennelInv ==
  /\ DogsTyped /\ ClerksTyped
  /\ labels \in [LabelIds -> Label \cup {None}]
  /\ holder = [d \in Dogs |-> holder[d]]
  /\ \A c \in Clerks : Serving(c) /\ Locking(c) /\ Deleting(c) /\ WritingLabel(c) /\ EditingDog(c)
  /\ LabelsInUseStay

(* The fields of a request, by what it asks.                               *)
LEMMA RequestShape ==
  ASSUME NEW q \in Requests
  PROVE  /\ q.op \in DogEdits \cup {"deleteDog", "registerLabel", "modifyLabel", "deleteLabel"}
         /\ q.op \in DogEdits \cup {"deleteDog"} => q.dog \in Dogs
         /\ q.op \in DogEdits \ {"patch"} => q.label \in LabelIds
         /\ q.op = "registerLabel" => q.row \in Label
         /\ q.op = "modifyLabel" => q.label \in LabelIds /\ q.patch \in LabelPatches
BY DEF Requests, DogRequests, LabelRequests, NewLabels, DogEdits

LEMMA LoadedIsLabel ==
  ASSUME NEW row \in Label PROVE Loaded(row) \in Label
BY DEF Loaded, IsTrait, Label

(* The clerk that acts is at its next statement, with the same request.    *)
LEMMA Proceeding ==
  ASSUME NEW c \in Clerks, NEW at, NEW mem, ClerksTyped, Proceed(c, at, mem)
  PROVE  /\ ClerksTyped'
         /\ clerk'[c].at = at /\ clerk'[c].mem = mem /\ clerk'[c].req = clerk[c].req
         /\ \A x \in Clerks \ {c} : clerk'[x] = clerk[x]
BY DEF Proceed, ClerksTyped

LEMMA Finishing ==
  ASSUME NEW c \in Clerks, ClerksTyped, Finish(c)
  PROVE  /\ ClerksTyped' /\ clerk'[c].at = "idle"
         /\ \A x \in Clerks \ {c} : clerk'[x] = clerk[x]
BY DEF Finish, Idle, ClerksTyped

LEMMA KennelStarts == KennelInit => KennelInv
<1> SUFFICES ASSUME KennelInit PROVE KennelInv
  OBVIOUS
<1>1. DogsTyped
  BY KennelAssumption DEF KennelInit, DogsTyped
<1>2. ClerksTyped /\ \A c \in Clerks : clerk[c].at = "idle"
  BY DEF KennelInit, ClerksTyped, Idle
<1>3. LabelsInUseStay
  BY KennelAssumption DEF KennelInit, LabelsInUseStay
<1> QED
  BY <1>1, <1>2, <1>3, KennelAssumption
  DEF KennelInit, KennelInv, Serving, Locking, Deleting, WritingLabel, EditingDog
(* What a clerk holds is left alone, so what the others rely on stays.     *)
LEMMA OthersUndisturbed ==
  ASSUME NEW c \in Clerks, KennelInv,
         \A x \in Clerks \ {c} : clerk'[x] = clerk[x],
         \A d \in Dogs : holder[d] \in Clerks \ {c}
                          => holder'[d] = holder[d] /\ dogs'[d] = dogs[d]
  PROVE  \A x \in Clerks \ {c} :
           (Serving(x) /\ Locking(x) /\ Deleting(x) /\ WritingLabel(x) /\ EditingDog(x))'
<1> SUFFICES ASSUME NEW x \in Clerks \ {c}
             PROVE  (Serving(x) /\ Locking(x) /\ Deleting(x) /\ WritingLabel(x) /\ EditingDog(x))'
  OBVIOUS
<1>1. clerk'[x] = clerk[x]
  OBVIOUS
<1>2. (Serving(x) /\ Locking(x) /\ Deleting(x) /\ WritingLabel(x))'
  BY <1>1 DEF KennelInv, Serving, Locking, Deleting, WritingLabel
<1>3. CASE clerk[x].at = "storeDog"
  <2> DEFINE d == clerk[x].req.dog
  <2>1. d \in Dogs /\ holder[d] = x
    BY <1>3, RequestShape DEF KennelInv, Serving, Locking, EditingDog
  <2>2. holder'[d] = x /\ dogs'[d] = dogs[d]
    BY <2>1
  <2>3. clerk[x].mem = [row |-> dogs[d], traits |-> clerk[x].mem.traits, triggers |-> clerk[x].mem.triggers]
        /\ clerk[x].mem.traits \cup clerk[x].mem.triggers = dogs[d].links
        /\ dogs[d] # None
    BY <1>3 DEF KennelInv, EditingDog
  <2> QED
    BY <1>1, <1>2, <2>2, <2>3 DEF EditingDog
<1>4. CASE clerk[x].at # "storeDog"
  BY <1>1, <1>2, <1>4 DEF EditingDog
<1> QED
  BY <1>3, <1>4

(* A step that writes nothing but the clerk's own place and its lock.      *)
LEMMA ReadingStep ==
  ASSUME NEW c \in Clerks, KennelInv, ClerksTyped', UNCHANGED <<dogs, labels>>,
         \A x \in Clerks \ {c} : clerk'[x] = clerk[x],
         holder' = [d \in Dogs |-> holder'[d]],
         \A d \in Dogs : holder[d] \in Clerks \ {c} => holder'[d] = holder[d],
         (Serving(c) /\ Locking(c) /\ Deleting(c) /\ WritingLabel(c) /\ EditingDog(c))'
  PROVE  KennelInv'
<1>1. \A x \in Clerks \ {c} :
        (Serving(x) /\ Locking(x) /\ Deleting(x) /\ WritingLabel(x) /\ EditingDog(x))'
  BY OthersUndisturbed
<1>2. DogsTyped' /\ LabelsInUseStay' /\ (labels \in [LabelIds -> Label \cup {None}])'
  BY DEF KennelInv, DogsTyped, LabelsInUseStay
<1>3. (holder = [d \in Dogs |-> holder[d]])'
  OBVIOUS
<1> QED
  BY <1>1, <1>2, <1>3 DEF KennelInv

(* A clerk without a request relies on nothing.                            *)
LEMMA IdleIsSafe ==
  ASSUME NEW c \in Clerks, clerk'[c].at = "idle"
  PROVE  (Serving(c) /\ Locking(c) /\ Deleting(c) /\ WritingLabel(c) /\ EditingDog(c))'
BY DEF Serving, Locking, Deleting, WritingLabel, EditingDog

LEMMA TakingUp ==
  ASSUME NEW c \in Clerks, KennelInv, TakeUp(c) PROVE KennelInv'
<1>1. PICK q \in Requests :
        clerk' = [clerk EXCEPT ![c] = [at |-> FirstStatement(q), req |-> q,
                    mem |-> IF q.op = "registerLabel" THEN q.row ELSE None]]
  BY DEF TakeUp, Requests
<1> DEFINE at == FirstStatement(q)
           mem == IF q.op = "registerLabel" THEN q.row ELSE None
<1>2. clerk'[c].at = at /\ clerk'[c].req = q /\ clerk'[c].mem = mem
  BY <1>1 DEF KennelInv, ClerksTyped
<1>3. ClerksTyped' /\ \A x \in Clerks \ {c} : clerk'[x] = clerk[x]
  BY <1>1 DEF KennelInv, ClerksTyped
<1>4. /\ at # "storeDog" /\ at # "updateLabel"
      /\ at = "lockDog" => q.op \in DogEdits
      /\ at = "deleteDog" => q.op = "deleteDog"
      /\ at \in {"checkTarget", "insertLabel"} => q.op = "registerLabel"
  BY RequestShape DEF FirstStatement, DogEdits
<1>5. at \in {"checkTarget", "insertLabel"} => mem \in Label
  BY <1>4, RequestShape
<1> HIDE DEF at, mem
<1>6. (Serving(c) /\ Locking(c) /\ Deleting(c) /\ WritingLabel(c) /\ EditingDog(c))'
  BY <1>2, <1>4, <1>5 DEF Serving, Locking, Deleting, WritingLabel, EditingDog
<1> QED
  BY <1>3, <1>6, ReadingStep DEF TakeUp, KennelInv

LEMMA LockingDog ==
  ASSUME NEW c \in Clerks, KennelInv, LockDog(c) PROVE KennelInv'
<1> DEFINE d == clerk[c].req.dog
           mem == [row |-> dogs[d], traits |-> Traits(labels, dogs[d].links),
                   triggers |-> Triggers(labels, dogs[d].links)]
<1>0. clerk[c].req \in Requests /\ clerk[c].req.op \in DogEdits /\ d \in Dogs
  BY RequestShape DEF LockDog, KennelInv, Serving, Locking
<1>1. CASE /\ dogs[d] # None /\ holder[d] = None
           /\ holder' = [holder EXCEPT ![d] = c]
           /\ Proceed(c, "storeDog", mem)
  <2>1. /\ ClerksTyped' /\ clerk'[c].at = "storeDog" /\ clerk'[c].mem = mem
        /\ clerk'[c].req = clerk[c].req
        /\ \A x \in Clerks \ {c} : clerk'[x] = clerk[x]
    <3> HIDE DEF mem
    <3> QED
      BY <1>1, Proceeding DEF KennelInv
  <2>2. /\ holder' = [e \in Dogs |-> holder'[e]] /\ holder'[d] = c
        /\ \A e \in Dogs : holder[e] \in Clerks \ {c} => holder'[e] = holder[e]
    BY <1>0, <1>1, KennelAssumption DEF KennelInv
  <2>3. mem.traits \cup mem.triggers = dogs[d].links
    BY DEF Traits, Triggers
  <2>4. UNCHANGED <<dogs, labels>>
    BY DEF LockDog
  <2>5. EditingDog(c)'
    <3>1. clerk'[c].req.dog = d
      BY <2>1
    <3>2. dogs'[d] # None /\ mem.traits \cup mem.triggers = dogs'[d].links
      BY <1>1, <2>3, <2>4
    <3>3. mem = [row |-> dogs'[d], traits |-> mem.traits, triggers |-> mem.triggers]
      BY <2>4
    <3> HIDE DEF d, mem
    <3> QED
      BY <2>1, <2>2, <3>1, <3>2, <3>3 DEF EditingDog
  <2>6. (Serving(c) /\ Locking(c) /\ Deleting(c) /\ WritingLabel(c))'
    BY <1>0, <2>1 DEF Serving, Locking, Deleting, WritingLabel
  <2> HIDE DEF d, mem
  <2> QED
    BY <2>1, <2>2, <2>4, <2>5, <2>6, ReadingStep
<1>2. CASE Finish(c) /\ UNCHANGED holder
  BY <1>2, Finishing, IdleIsSafe, ReadingStep DEF LockDog, KennelInv
<1> QED
  BY <1>1, <1>2 DEF LockDog

LEMMA ReadingLabel ==
  ASSUME NEW c \in Clerks, KennelInv, ReadLabel(c) PROVE KennelInv'
<1> DEFINE q == clerk[c].req
           row == IF labels[q.label] = None THEN None ELSE Loaded(labels[q.label])
<1>0. q \in Requests /\ UNCHANGED <<dogs, labels, holder>>
  BY DEF ReadLabel, KennelInv, Serving
<1>1. CASE Finish(c)
  BY <1>0, <1>1, Finishing, IdleIsSafe, ReadingStep DEF KennelInv
<1>2. CASE q.op \in {"addTrait", "addTrigger"} /\ Proceed(c, "lockDog", None)
  <2>1. (Serving(c) /\ Locking(c) /\ Deleting(c) /\ WritingLabel(c) /\ EditingDog(c))'
    BY <1>0, <1>2, Proceeding
    DEF KennelInv, Serving, Locking, Deleting, WritingLabel, EditingDog, DogEdits
  <2> QED
    BY <1>0, <1>2, <2>1, Proceeding, ReadingStep DEF KennelInv
<1>3. CASE /\ q.op = "modifyLabel" /\ row # None
           /\ \E at \in {"checkTarget", "updateLabel"} : Proceed(c, at, Patched(row, q.patch))
  <2>1. Patched(row, q.patch) \in Label
    <3>1. q.patch \in LabelPatches
      BY <1>0, <1>3, RequestShape
    <3>2. row \in Label
      <4>1. q.label \in LabelIds /\ labels[q.label] # None
        BY <1>0, <1>3, RequestShape
      <4>2. labels[q.label] \in Label
        BY <4>1 DEF KennelInv
      <4> QED
        BY <4>1, <4>2, LoadedIsLabel
    <3> QED
      BY <3>1, <3>2, KennelAssumption
  <2> DEFINE new == Patched(row, q.patch)
  <2> HIDE DEF new
  <2>2. PICK at \in {"checkTarget", "updateLabel"} : Proceed(c, at, new)
    BY <1>3 DEF new
  <2>3. new \in Label
    BY <2>1 DEF new
  <2>4. (Serving(c) /\ Locking(c) /\ Deleting(c) /\ WritingLabel(c) /\ EditingDog(c))'
    BY <1>0, <2>2, <2>3, Proceeding
    DEF KennelInv, Serving, Locking, Deleting, WritingLabel, EditingDog
  <2> QED
    BY <1>0, <2>2, <2>4, Proceeding, ReadingStep DEF KennelInv
<1>4. CASE \E at \in {"countTriggers", "deleteLabel"} : Proceed(c, at, row)
  <2> DEFINE mem == row
  <2> HIDE DEF row
  <2>1. PICK at \in {"countTriggers", "deleteLabel"} : Proceed(c, at, mem)
    BY <1>4
  <2> HIDE DEF mem
  <2>2. (Serving(c) /\ Locking(c) /\ Deleting(c) /\ WritingLabel(c) /\ EditingDog(c))'
    BY <1>0, <2>1, Proceeding
    DEF KennelInv, Serving, Locking, Deleting, WritingLabel, EditingDog
  <2> QED
    BY <1>0, <2>1, <2>2, Proceeding, ReadingStep DEF KennelInv
<1> QED
  BY <1>1, <1>2, <1>3, <1>4 DEF ReadLabel

LEMMA CheckingTarget ==
  ASSUME NEW c \in Clerks, KennelInv, CheckTarget(c) PROVE KennelInv'
<1>0. /\ clerk[c].req \in Requests /\ clerk[c].mem \in Label
      /\ UNCHANGED <<dogs, labels, holder>>
  BY DEF CheckTarget, KennelInv, Serving, WritingLabel
<1>1. CASE Finish(c)
  BY <1>0, <1>1, Finishing, IdleIsSafe, ReadingStep DEF KennelInv
<1>2. CASE \E at \in {"insertLabel", "updateLabel"} : Proceed(c, at, clerk[c].mem)
  <2>1. PICK at \in {"insertLabel", "updateLabel"} : Proceed(c, at, clerk[c].mem)
    BY <1>2
  <2>2. (Serving(c) /\ Locking(c) /\ Deleting(c) /\ WritingLabel(c) /\ EditingDog(c))'
    BY <1>0, <2>1, Proceeding
    DEF KennelInv, Serving, Locking, Deleting, WritingLabel, EditingDog
  <2> QED
    BY <1>0, <2>1, <2>2, Proceeding, ReadingStep DEF KennelInv
<1> QED
  BY <1>1, <1>2 DEF CheckTarget

LEMMA CountingTriggers ==
  ASSUME NEW c \in Clerks, KennelInv, CountTriggers(c) PROVE KennelInv'
<1>0. clerk[c].req \in Requests /\ UNCHANGED <<dogs, labels, holder>>
  BY DEF CountTriggers, KennelInv, Serving
<1>1. CASE Finish(c)
  BY <1>0, <1>1, Finishing, IdleIsSafe, ReadingStep DEF KennelInv
<1>2. CASE Proceed(c, "deleteLabel", clerk[c].mem)
  <2>1. (Serving(c) /\ Locking(c) /\ Deleting(c) /\ WritingLabel(c) /\ EditingDog(c))'
    BY <1>0, <1>2, Proceeding
    DEF KennelInv, Serving, Locking, Deleting, WritingLabel, EditingDog
  <2> QED
    BY <1>0, <1>2, <2>1, Proceeding, ReadingStep DEF KennelInv
<1> QED
  BY <1>1, <1>2 DEF CountTriggers

(* A write to the catalogue that takes no label from under a dog.          *)
LEMMA CatalogueStep ==
  ASSUME NEW c \in Clerks, KennelInv, Finish(c), UNCHANGED <<dogs, holder>>,
         labels' \in [LabelIds -> Label \cup {None}],
         \A l \in LabelIds : labels'[l] = None => labels[l] = None \/ Unreferenced(l)
  PROVE  KennelInv'
<1>1. ClerksTyped' /\ clerk'[c].at = "idle" /\ \A x \in Clerks \ {c} : clerk'[x] = clerk[x]
  BY Finishing DEF KennelInv
<1>2. \A x \in Clerks :
        (Serving(x) /\ Locking(x) /\ Deleting(x) /\ WritingLabel(x) /\ EditingDog(x))'
  BY <1>1, OthersUndisturbed, IdleIsSafe
<1>3. LabelsInUseStay'
  BY DEF KennelInv, LabelsInUseStay, Unreferenced, DogsTyped
<1>4. DogsTyped' /\ (holder = [d \in Dogs |-> holder[d]])'
  BY DEF KennelInv, DogsTyped
<1> QED
  BY <1>1, <1>2, <1>3, <1>4 DEF KennelInv

LEMMA WritingCatalogue ==
  ASSUME NEW c \in Clerks, KennelInv, InsertLabel(c) \/ UpdateLabel(c) \/ DeleteLabel(c)
  PROVE  KennelInv'
<1> USE KennelAssumption
<1>0. /\ Finish(c) /\ UNCHANGED <<dogs, holder>>
      /\ labels \in [LabelIds -> Label \cup {None}]
  BY DEF InsertLabel, UpdateLabel, DeleteLabel, KennelInv
<1>1. CASE \E l : clerk[c].mem \in Label /\ labels' = [labels EXCEPT ![l] = clerk[c].mem]
  <2>1. PICK l : clerk[c].mem \in Label /\ labels' = [labels EXCEPT ![l] = clerk[c].mem]
    BY <1>1
  <2>2. /\ labels' \in [LabelIds -> Label \cup {None}]
        /\ \A x \in LabelIds : labels'[x] = None => labels[x] = None
    BY <1>0, <2>1
  <2> QED
    BY <1>0, <2>2, CatalogueStep
<1>2. CASE UNCHANGED labels
  BY <1>0, <1>2, CatalogueStep
<1>3. CASE \E l : Unreferenced(l) /\ labels' = [labels EXCEPT ![l] = None]
  BY <1>0, <1>3, CatalogueStep
<1>4. clerk[c].at \in {"insertLabel", "updateLabel"} => clerk[c].mem \in Label
  BY DEF KennelInv, WritingLabel
<1> QED
  BY <1>1, <1>2, <1>3, <1>4 DEF InsertLabel, UpdateLabel, DeleteLabel
LEMMA DeletingDog ==
  ASSUME NEW c \in Clerks, KennelInv, DeleteDog(c) PROVE KennelInv'
<1> DEFINE d == clerk[c].req.dog
<1> USE KennelAssumption
<1>1. d \in Dogs /\ holder[d] = None
  BY RequestShape DEF DeleteDog, KennelInv, Serving, Deleting
<1>2. dogs' = [dogs EXCEPT ![d] = None] /\ UNCHANGED <<labels, holder>>
  BY DEF DeleteDog
<1>3. \A e \in Dogs : dogs'[e] = IF e = d THEN None ELSE dogs[e]
  BY <1>2 DEF KennelInv, DogsTyped
<1>4. dogs' = [e \in Dogs |-> dogs'[e]]
  BY <1>2 DEF KennelInv, DogsTyped
<1>5. \A e \in Dogs : holder[e] \in Clerks \ {c} => holder'[e] = holder[e] /\ dogs'[e] = dogs[e]
  BY <1>1, <1>2, <1>3
<1>6. ClerksTyped' /\ clerk'[c].at = "idle" /\ \A x \in Clerks \ {c} : clerk'[x] = clerk[x]
  BY Finishing DEF DeleteDog, KennelInv
<1>7. \A x \in Clerks :
        (Serving(x) /\ Locking(x) /\ Deleting(x) /\ WritingLabel(x) /\ EditingDog(x))'
  BY <1>5, <1>6, OthersUndisturbed, IdleIsSafe
<1>8. DogsTyped'
  BY <1>3, <1>4 DEF KennelInv, DogsTyped
<1>9. LabelsInUseStay'
  BY <1>2, <1>3 DEF KennelInv, LabelsInUseStay
<1> QED
  BY <1>2, <1>6, <1>7, <1>8, <1>9 DEF KennelInv

(* What an edit makes of the row and the links it read under the lock.     *)
LEMMA EditedLinks ==
  ASSUME NEW q \in Requests, q.op \in DogEdits,
         NEW row, NEW traits, NEW triggers,
         NEW mem, mem = [row |-> row, traits |-> traits, triggers |-> triggers]
  PROVE  LET new == EditedDog(q, mem) IN
         /\ new.row = IF q.op = "patch" THEN Patched(row, q.patch) ELSE row
         /\ new.traits \cup new.triggers \subseteq (traits \cup triggers) \cup LabelIds
         /\ q.op = "patch" => new.traits = traits /\ new.triggers = triggers
         /\ q.op # "patch" =>
              \A l : l # q.label =>
                (l \in new.traits \cup new.triggers <=> l \in traits \cup triggers)
<1>1. q.op # "patch" => q.label \in LabelIds
  BY RequestShape
<1>2. CASE q.op = "patch"
  BY <1>2 DEF EditedDog
<1>3. CASE q.op = "addTrait"
  BY <1>1, <1>3 DEF EditedDog, AddTrait
<1>4. CASE q.op = "addTrigger"
  BY <1>1, <1>4 DEF EditedDog, AddIncompatibility
<1>5. CASE q.op = "removeLabel"
  BY <1>1, <1>5 DEF EditedDog, RemoveIncompatibility
<1> QED
  BY <1>2, <1>3, <1>4, <1>5 DEF DogEdits
(* The row an edit stores: the one it locked, but for what it names.       *)
LEMMA StoredDog ==
  ASSUME NEW c \in Clerks, KennelInv, StoreDog(c)
  PROVE  LET q == clerk[c].req IN
         /\ q \in Requests /\ q.dog \in Dogs /\ holder[q.dog] = c /\ dogs[q.dog] # None
         /\ \A d \in Dogs \ {q.dog} : dogs'[d] = dogs[d]
         /\ dogs' = [d \in Dogs |-> dogs'[d]]
         /\ \/ dogs' = dogs
            \/ LET mem == EditedDog(q, clerk[c].mem)
                   old == dogs[q.dog]
                   new == dogs'[q.dog]
               IN  /\ LinksAccepted(mem)
                   /\ new.links = mem.traits \cup mem.triggers
                   /\ mem.traits \cup mem.triggers \subseteq LabelIds
                   /\ new = [f \in DOMAIN old |-> new[f]]
                   /\ \A f \in DOMAIN old : f # "links" =>
                        \/ new[f] = old[f]
                        \/ /\ q.op = "patch" /\ f \in DOMAIN q.patch
                           /\ new[f] = q.patch[f] /\ ValidField(f, new[f])
                   /\ q.op = "patch" => new.links = old.links
                   /\ q.op # "patch" =>
                        \A l : l # q.label => (l \in new.links <=> l \in old.links)
<1> DEFINE q == clerk[c].req
           d == q.dog
           old == dogs[d]
           traits == clerk[c].mem.traits
           triggers == clerk[c].mem.triggers
           mem == EditedDog(q, clerk[c].mem)
<1>1. q \in Requests /\ q.op \in DogEdits
  BY DEF StoreDog, KennelInv, Serving, Locking
<1>2. d \in Dogs
  BY <1>1, RequestShape
<1>3. /\ holder[d] = c /\ old # None
      /\ clerk[c].mem = [row |-> old, traits |-> traits, triggers |-> triggers]
      /\ traits \cup triggers = old.links
  BY DEF StoreDog, KennelInv, EditingDog
<1>4. /\ old = [f \in DOMAIN old |-> old[f]] /\ "links" \in DOMAIN old
      /\ old.links \subseteq LabelIds
  BY <1>2, <1>3 DEF KennelInv, DogsTyped
<1>5. CASE dogs' = dogs
  <2>1. dogs' = [e \in Dogs |-> dogs'[e]]
    BY <1>5 DEF KennelInv, DogsTyped
  <2> HIDE DEF old, mem, traits, triggers
  <2> QED
    BY <1>1, <1>2, <1>3, <1>5, <2>1 DEF old
<1>6. CASE /\ LinksAccepted(mem)
           /\ q.op = "patch" => PatchAccepted(clerk[c].mem.row, q.patch)
           /\ dogs' = [dogs EXCEPT ![d] = [mem.row EXCEPT !.links = mem.traits \cup mem.triggers]]
  <2>1. /\ mem.row = IF q.op = "patch" THEN Patched(old, q.patch) ELSE old
        /\ mem.traits \cup mem.triggers \subseteq (traits \cup triggers) \cup LabelIds
        /\ q.op = "patch" => mem.traits = traits /\ mem.triggers = triggers
        /\ q.op # "patch" =>
             \A l : l # q.label =>
               (l \in mem.traits \cup mem.triggers <=> l \in traits \cup triggers)
    <3> HIDE DEF q, old, traits, triggers
    <3> QED
      BY <1>1, <1>3, EditedLinks
  <2> DEFINE row == mem.row
             links == mem.traits \cup mem.triggers
             new == [row EXCEPT !.links = links]
  <2>2. /\ row = [f \in DOMAIN old |-> row[f]]
        /\ \A f \in DOMAIN old :
             \/ row[f] = old[f]
             \/ /\ q.op = "patch" /\ f \in DOMAIN q.patch
                /\ row[f] = q.patch[f] /\ ValidField(f, row[f])
    <3>0. q.op = "patch" => \A f \in DOMAIN q.patch : ValidField(f, q.patch[f])
      BY <1>6 DEF PatchAccepted
    <3> HIDE DEF q, old, mem
    <3>1. CASE q.op = "patch"
      BY <2>1, <3>0, <3>1 DEF Patched
    <3>2. CASE q.op # "patch"
      BY <1>4, <2>1, <3>2
    <3> QED
      BY <3>1, <3>2
  <2>3. links \subseteq LabelIds
    BY <1>3, <1>4, <2>1
  <2>4. /\ new = [f \in DOMAIN old |-> new[f]]
        /\ new.links = links
        /\ \A f \in DOMAIN old : f # "links" => new[f] = row[f]
    <3> HIDE DEF row, links, old
    <3> QED
      BY <1>4, <2>2
  <2>5. dogs'[d] = new /\ dogs' = [e \in Dogs |-> dogs'[e]]
        /\ \A e \in Dogs \ {d} : dogs'[e] = dogs[e]
    <3> HIDE DEF new, d
    <3> QED
      BY <1>2, <1>6 DEF KennelInv, DogsTyped, new
  <2>6. /\ q.op = "patch" => links = old.links
        /\ q.op # "patch" => \A l : l # q.label => (l \in links <=> l \in old.links)
    BY <1>3, <2>1
  <2>7. /\ dogs'[d].links = links /\ dogs'[d] = [f \in DOMAIN old |-> dogs'[d][f]]
        /\ \A f \in DOMAIN old : f # "links" =>
             \/ dogs'[d][f] = old[f]
             \/ /\ q.op = "patch" /\ f \in DOMAIN q.patch
                /\ dogs'[d][f] = q.patch[f] /\ ValidField(f, dogs'[d][f])
        /\ q.op = "patch" => dogs'[d].links = old.links
        /\ q.op # "patch" => \A l : l # q.label => (l \in dogs'[d].links <=> l \in old.links)
    <3> HIDE DEF new, row, links, old, d, q
    <3> QED
      BY <2>2, <2>4, <2>5, <2>6
  <2> HIDE DEF new, row, mem, traits, triggers, old, d
  <2> QED
    BY <1>1, <1>2, <1>3, <1>6, <2>3, <2>5, <2>7, ZenonT(30) DEF links, mem, old, d
<1> QED
  BY <1>5, <1>6 DEF StoreDog

LEMMA StoringDog ==
  ASSUME NEW c \in Clerks, KennelInv, StoreDog(c) PROVE KennelInv'
<1> DEFINE q == clerk[c].req
<1>1. /\ q.dog \in Dogs /\ holder[q.dog] = c /\ dogs[q.dog] # None
      /\ \A d \in Dogs \ {q.dog} : dogs'[d] = dogs[d]
      /\ dogs' = [d \in Dogs |-> dogs'[d]]
  BY StoredDog
<1>2. holder' = [holder EXCEPT ![q.dog] = None] /\ UNCHANGED labels
  BY DEF StoreDog
<1>3. /\ holder' = [d \in Dogs |-> holder'[d]]
      /\ \A d \in Dogs : holder[d] \in Clerks \ {c} => holder'[d] = holder[d] /\ dogs'[d] = dogs[d]
  BY <1>1, <1>2 DEF KennelInv
<1>4. ClerksTyped' /\ clerk'[c].at = "idle" /\ \A x \in Clerks \ {c} : clerk'[x] = clerk[x]
  BY Finishing DEF StoreDog, KennelInv
<1>5. \A x \in Clerks :
        (Serving(x) /\ Locking(x) /\ Deleting(x) /\ WritingLabel(x) /\ EditingDog(x))'
  BY <1>3, <1>4, OthersUndisturbed, IdleIsSafe
<1>6. \/ dogs'[q.dog] = dogs[q.dog]
      \/ /\ dogs'[q.dog] = [f \in DOMAIN dogs[q.dog] |-> dogs'[q.dog][f]]
         /\ dogs'[q.dog].links \subseteq LabelIds
         /\ \A l \in dogs'[q.dog].links : labels[l] # None
  <2> DEFINE mem == EditedDog(q, clerk[c].mem)
             new == dogs'[q.dog]
  <2>1. CASE dogs' = dogs
    BY <2>1
  <2>2. CASE dogs' # dogs
    <3>1. /\ LinksAccepted(mem) /\ new.links = mem.traits \cup mem.triggers
          /\ mem.traits \cup mem.triggers \subseteq LabelIds
          /\ new = [f \in DOMAIN dogs[q.dog] |-> new[f]]
      BY <2>2, StoredDog
    <3>2. \A l \in mem.traits \cup mem.triggers : labels[l] # None
      <4> HIDE DEF mem
      <4> QED
        BY <3>1 DEF LinksAccepted
    <3> HIDE DEF mem
    <3> QED
      BY <3>1, <3>2
  <2> QED
    BY <2>1, <2>2
<1>7. DogsTyped'
  <2>1. \A d \in Dogs : dogs[d] # None =>
          /\ dogs[d] = [f \in DOMAIN dogs[d] |-> dogs[d][f]]
          /\ "links" \in DOMAIN dogs[d] /\ dogs[d].links \subseteq LabelIds
    BY DEF KennelInv, DogsTyped
  <2> DEFINE new == dogs'[q.dog]
  <2>2. /\ new = [f \in DOMAIN new |-> new[f]]
        /\ "links" \in DOMAIN new /\ new.links \subseteq LabelIds
    <3>1. CASE new = dogs[q.dog]
      BY <1>1, <2>1, <3>1
    <3>2. CASE new # dogs[q.dog]
      <4>1. new = [f \in DOMAIN dogs[q.dog] |-> new[f]] /\ new.links \subseteq LabelIds
        BY <1>6, <3>2
      <4>2. "links" \in DOMAIN dogs[q.dog]
        BY <1>1, <2>1
      <4> HIDE DEF new
      <4> QED
        BY <4>1, <4>2
    <3> QED
      BY <3>1, <3>2
  <2> HIDE DEF q
  <2> QED
    BY <1>1, <2>1, <2>2 DEF DogsTyped
<1>8. LabelsInUseStay'
  <2>1. \A d \in Dogs : dogs[d] # None => \A l \in dogs[d].links : labels[l] # None
    BY DEF KennelInv, LabelsInUseStay
  <2>2. \A l \in dogs'[q.dog].links : labels[l] # None
    <3>1. CASE dogs'[q.dog] = dogs[q.dog]
      BY <1>1, <2>1, <3>1
    <3>2. CASE dogs'[q.dog] # dogs[q.dog]
      BY <1>6, <3>2
    <3> QED
      BY <3>1, <3>2
  <2> HIDE DEF q
  <2>3. \A d \in Dogs : dogs'[d] # None => \A l \in dogs'[d].links : labels[l] # None
    BY <1>1, <2>1, <2>2
  <2> QED
    BY <1>2, <2>3 DEF LabelsInUseStay
<1> QED
  BY <1>2, <1>3, <1>4, <1>5, <1>7, <1>8 DEF KennelInv

-----------------------------------------------------------------------------
LEMMA KennelSteps == KennelInv /\ [KennelNext]_kennelVars => KennelInv'
<1> SUFFICES ASSUME KennelInv, [KennelNext]_kennelVars PROVE KennelInv'
  OBVIOUS
<1>1. CASE UNCHANGED kennelVars
  <2>1. dogs' = dogs /\ labels' = labels /\ holder' = holder /\ clerk' = clerk
    BY <1>1 DEF kennelVars
  <2>2. DogsTyped' /\ ClerksTyped' /\ LabelsInUseStay'
    BY <2>1 DEF KennelInv, DogsTyped, ClerksTyped, LabelsInUseStay
  <2>3. ASSUME NEW c \in Clerks
        PROVE  (Serving(c) /\ Locking(c) /\ Deleting(c) /\ WritingLabel(c) /\ EditingDog(c))'
    <3>1. (Serving(c) /\ Locking(c) /\ Deleting(c))'
      BY <2>1 DEF KennelInv, Serving, Locking, Deleting
    <3>2. (WritingLabel(c) /\ EditingDog(c))'
      BY <2>1 DEF KennelInv, WritingLabel, EditingDog
    <3> QED
      BY <3>1, <3>2
  <2> QED
    BY <2>1, <2>2, <2>3 DEF KennelInv
<1>2. ASSUME NEW c \in Clerks, TakeUp(c) \/ Statement(c) PROVE KennelInv'
  BY <1>2, TakingUp, LockingDog, StoringDog, DeletingDog, ReadingLabel, CheckingTarget,
     CountingTriggers, WritingCatalogue DEF Statement
<1> QED
  BY <1>1, <1>2 DEF KennelNext

LEMMA KennelInvariant == KennelSpec => []KennelInv
BY KennelStarts, KennelSteps, PTL DEF KennelSpec

(* 000002_incompatibility_protect_fk.up.sql:4-8: however many clerks link, *)
(* count and delete at once, no label that a dog carries is ever deleted.  *)
THEOREM LabelsStay == KennelSpec => []LabelsInUseStay
<1>1. KennelInv => LabelsInUseStay
  BY DEF KennelInv
<1> QED
  BY <1>1, KennelInvariant, PTL
(* What EditsCompose asks of one step.                                     *)
DogEdited(d, c) ==
  LET q == clerk[c].req IN
  /\ clerk[c].at = "storeDog" /\ clerk'[c].at = "idle" /\ q.dog = d
  /\ \A f \in DOMAIN dogs[d] : Differs(d, f) => f \in NamedFields(q)
  /\ (dogs[d].links \cup dogs'[d].links) \ (dogs[d].links \cap dogs'[d].links)
       \subseteq NamedLabels(q)

LEMMA EditingSteps ==
  ASSUME KennelInv, KennelNext, NEW d \in Dogs,
         dogs[d] # None, dogs'[d] \notin {None, dogs[d]}
  PROVE  \E c \in Clerks : DogEdited(d, c)
<1>1. PICK c \in Clerks : TakeUp(c) \/ Statement(c)
  BY DEF KennelNext
<1>2. ASSUME DeleteDog(c) PROVE FALSE
  BY <1>2 DEF DeleteDog, KennelInv, DogsTyped
<1>3. StoreDog(c)
  BY <1>1, <1>2 DEF TakeUp, Statement, LockDog, ReadLabel, CheckTarget, InsertLabel,
                    UpdateLabel, CountTriggers, DeleteLabel
<1> DEFINE q == clerk[c].req
           old == dogs[d]
           new == dogs'[d]
<1>4. q.dog = d
  <2>1. \A e \in Dogs \ {q.dog} : dogs'[e] = dogs[e]
    BY <1>3, StoredDog
  <2> QED
    BY <2>1
<1>5. /\ \A f \in DOMAIN old : f # "links" =>
           new[f] = old[f] \/ (q.op = "patch" /\ f \in DOMAIN q.patch)
      /\ q.op = "patch" => new.links = old.links
      /\ q.op # "patch" => \A l : l # q.label => (l \in new.links <=> l \in old.links)
  BY <1>3, <1>4, StoredDog
<1>6. clerk[c].at = "storeDog" /\ clerk'[c].at = "idle"
  BY <1>3, Finishing DEF StoreDog, KennelInv
<1>7. ASSUME NEW f \in DOMAIN old, Differs(d, f) PROVE f \in NamedFields(q)
  <2> HIDE DEF q
  <2>1. CASE q.op = "patch"
    BY <1>5, <1>7, <2>1 DEF Differs, NamedFields
  <2>2. CASE q.op # "patch"
    BY <1>5, <1>7, <2>2 DEF Differs, NamedFields
  <2> QED
    BY <2>1, <2>2
<1>8. (old.links \cup new.links) \ (old.links \cap new.links) \subseteq NamedLabels(q)
  <2> HIDE DEF q, old, new
  <2> QED
    BY <1>5 DEF NamedLabels
<1> QED
  BY <1>4, <1>6, <1>7, <1>8 DEF DogEdited

(* modify.go:49-50 and dog_repository.go:103, "preventing lost updates":   *)
(* no two edits of a dog undo one another, for any number of them.         *)
THEOREM DogEditsCompose == KennelSpec => EditsCompose
<1>1. KennelInv /\ [KennelNext]_kennelVars =>
        [\A d \in Dogs : dogs[d] # None /\ dogs'[d] \notin {None, dogs[d]} =>
           \E c \in Clerks :
             LET q == clerk[c].req IN
             /\ clerk[c].at = "storeDog" /\ clerk'[c].at = "idle" /\ q.dog = d
             /\ \A f \in DOMAIN dogs[d] : Differs(d, f) => f \in NamedFields(q)
             /\ (dogs[d].links \cup dogs'[d].links) \ (dogs[d].links \cap dogs'[d].links)
                  \subseteq NamedLabels(q)]_kennelVars
  BY EditingSteps DEF DogEdited
<1> QED
  BY <1>1, KennelInvariant, PTL DEF EditsCompose, KennelSpec
-----------------------------------------------------------------------------
(* Types: what the loader and the generated columns of a dog rely on.      *)

RowsTyped ==
  \A d \in Dogs : dogs[d] # None =>
    /\ Flags \cup {"sex"} \subseteq DOMAIN dogs[d]
    /\ dogs[d].sex \in Sexes
    /\ \A f \in Flags : dogs[d][f] \in BOOLEAN

KennelTypes ==
  /\ RowsTyped
  /\ lastLabel \in LabelIds \cup {0}
  /\ holder \in [Dogs -> Clerks \cup {None}]
  /\ \A c \in Clerks : clerk[c].req \in Requests \cup {None}
  /\ edits \in 0..MaxEdits

LEMMA TypesStart == KennelInit => KennelTypes
<1> SUFFICES ASSUME KennelInit PROVE KennelTypes
  OBVIOUS
<1>1. RowsTyped
  BY KennelTyping DEF KennelInit, RowsTyped
<1>2. \A c \in Clerks : clerk[c].req = None
  BY DEF KennelInit, Idle
<1>3. edits \in 0..MaxEdits
  BY KennelTyping DEF KennelInit
<1> QED
  BY <1>1, <1>2, <1>3, KennelTyping DEF KennelInit, KennelTypes

(* A column that an edit writes keeps its type: the sex is checked with    *)
(* the patch, the flags come typed from the client's JSON.                 *)
LEMMA StoredTypes ==
  ASSUME NEW c \in Clerks, KennelInv, RowsTyped, StoreDog(c) PROVE RowsTyped'
<1> DEFINE q == clerk[c].req
           old == dogs[q.dog]
           new == dogs'[q.dog]
<1>1. /\ q \in Requests /\ q.dog \in Dogs /\ old # None
      /\ \A d \in Dogs \ {q.dog} : dogs'[d] = dogs[d]
  BY StoredDog
<1>2. CASE dogs' = dogs
  BY <1>2 DEF RowsTyped
<1>3. CASE dogs' # dogs
  <2>1. /\ new = [f \in DOMAIN old |-> new[f]]
        /\ \A f \in DOMAIN old : f # "links" =>
             \/ new[f] = old[f]
             \/ /\ q.op = "patch" /\ f \in DOMAIN q.patch
                /\ new[f] = q.patch[f] /\ ValidField(f, new[f])
    BY <1>3, StoredDog
  <2>2. Flags \cup {"sex"} \subseteq DOMAIN old /\ old.sex \in Sexes
        /\ \A f \in Flags : old[f] \in BOOLEAN
    BY <1>1 DEF RowsTyped
  <2>3. q.op = "patch" => q.patch \in DogPatches
    BY <1>1 DEF Requests, DogRequests, LabelRequests
  <2> HIDE DEF q, old, new
  <2>4. Flags \cup {"sex"} \subseteq DOMAIN new
    BY <2>1, <2>2
  <2>5. new.sex \in Sexes
    BY <2>1, <2>2 DEF ValidField
  <2>6. \A f \in Flags : new[f] \in BOOLEAN
    BY <2>1, <2>2, <2>3, KennelTyping DEF Flags
  <2> QED
    BY <1>1, <2>4, <2>5, <2>6 DEF RowsTyped, new
<1> QED
  BY <1>2, <1>3

LEMMA TypesKept ==
  KennelInv /\ KennelTypes /\ [KennelNext]_kennelVars => KennelTypes'
<1> SUFFICES ASSUME KennelInv, KennelTypes, [KennelNext]_kennelVars PROVE KennelTypes'
  OBVIOUS
<1>1. CASE UNCHANGED kennelVars
  BY <1>1 DEF kennelVars, KennelTypes, RowsTyped
<1>2. CASE KennelNext
  <2>1. PICK c \in Clerks : TakeUp(c) \/ Statement(c)
    BY <1>2 DEF KennelNext
  <2>2. \A x \in Clerks : clerk'[x].req \in Requests \cup {None}
    <3>1. CASE TakeUp(c)
      <4>1. PICK q \in Requests :
              clerk' = [clerk EXCEPT ![c] =
                [at |-> FirstStatement(q), req |-> q,
                 mem |-> IF q.op = "registerLabel" THEN q.row ELSE None]]
        BY <3>1 DEF TakeUp, Requests
      <4> QED
        BY <4>1 DEF KennelTypes, KennelInv, ClerksTyped
    <3>2. CASE Finish(c)
      BY <3>2 DEF Finish, Idle, KennelTypes, KennelInv, ClerksTyped
    <3>3. CASE \E at, mem : Proceed(c, at, mem)
      BY <3>3, Proceeding DEF KennelTypes, KennelInv
    <3> QED
      BY <2>1, <3>1, <3>2, <3>3
      DEF Statement, LockDog, StoreDog, DeleteDog, ReadLabel, CheckTarget, InsertLabel,
          UpdateLabel, CountTriggers, DeleteLabel
  <2>3. RowsTyped'
    <3>1. CASE StoreDog(c)
      BY <3>1, StoredTypes DEF KennelTypes
    <3>2. CASE DeleteDog(c)
      <4>1. dogs' = [dogs EXCEPT ![clerk[c].req.dog] = None]
        BY <3>2 DEF DeleteDog
      <4>2. \A d \in Dogs : dogs'[d] \in {None, dogs[d]}
        BY <4>1 DEF KennelInv, DogsTyped
      <4> QED
        BY <4>2 DEF KennelTypes, RowsTyped
    <3>3. CASE UNCHANGED dogs
      BY <3>3 DEF KennelTypes, RowsTyped
    <3> QED
      BY <2>1, <3>1, <3>2, <3>3
      DEF TakeUp, Statement, LockDog, ReadLabel, CheckTarget, InsertLabel, UpdateLabel,
          CountTriggers, DeleteLabel
  <2>4. holder' \in [Dogs -> Clerks \cup {None}]
    BY <2>1
    DEF KennelTypes, TakeUp, Statement, LockDog, StoreDog, DeleteDog, ReadLabel, CheckTarget,
        InsertLabel, UpdateLabel, CountTriggers, DeleteLabel
  <2>5. lastLabel' \in LabelIds \cup {0}
    BY <2>1
    DEF KennelTypes, TakeUp, Statement, LockDog, StoreDog, DeleteDog, ReadLabel, CheckTarget,
        InsertLabel, UpdateLabel, CountTriggers, DeleteLabel
  <2>6. edits' \in 0..MaxEdits
    <3>1. edits' = edits \/ (edits < MaxEdits /\ edits' = edits + 1)
      BY <2>1
      DEF TakeUp, Statement, LockDog, StoreDog, DeleteDog, ReadLabel, CheckTarget,
          InsertLabel, UpdateLabel, CountTriggers, DeleteLabel
    <3> QED
      BY <3>1, KennelTyping DEF KennelTypes
  <2> QED
    BY <2>2, <2>3, <2>4, <2>5, <2>6 DEF KennelTypes
<1> QED
  BY <1>1, <1>2

(* Dogs, labels, locks and requests keep their types, for every catalogue  *)
(* and every number of clerks.                                             *)
THEOREM KennelTyped == KennelSpec => []KennelTypeOK
<1>1. KennelInv /\ KennelTypes => KennelTypeOK
  BY DEF KennelInv, KennelTypes, RowsTyped, DogsTyped, KennelTypeOK, Requests
<1> QED
  BY <1>1, TypesStart, TypesKept, KennelInvariant, PTL DEF KennelSpec
=============================================================================
