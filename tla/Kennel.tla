------------------------------- MODULE Kennel -------------------------------
(* Edits of dogs and of the label catalogue, statement by statement. A dog *)
(* is edited under its row lock; the catalogue is read, checked and        *)
(* written without one, so only constraints stand between its handlers.    *)
EXTENDS Compatibility

CONSTANTS Clerks,              \* goroutines serving an admin's request
          FirstDogs,           \* id -> row
          FirstLabels,         \* id -> row or None
          MaxEdits             \* bound: requests taken up in a behaviour

VARIABLES dogs,      \* id -> committed row or None
          labels,    \* id -> committed row or None
          lastLabel, \* the identity column of the catalogue
          holder,    \* id of a dog -> the clerk with its row lock, or None
          clerk,     \* clerk -> the statement it is at, its request, what it read
          edits      \* how many requests were taken up

kennelVars == <<dogs, labels, lastLabel, holder, clerk, edits>>

Flags == {"neutered", "heat", "special", "active"}

(* The tables start as their types and foreign keys allow, and a patch of  *)
(* a catalogue row names columns of it.                                    *)
ASSUME KennelAssumption ==
  /\ None \notin Label /\ None \notin Clerks
  /\ FirstLabels \in [LabelIds -> Label \cup {None}]
  /\ \A patch \in LabelPatches, row \in Label : Patched(row, patch) \in Label
  /\ DOMAIN FirstDogs = Dogs /\ FirstDogs = [d \in Dogs |-> FirstDogs[d]]
  /\ \A d \in Dogs : FirstDogs[d] # None =>
       /\ FirstDogs[d] = [f \in DOMAIN FirstDogs[d] |-> FirstDogs[d][f]]
       /\ "links" \in DOMAIN FirstDogs[d] /\ FirstDogs[d].links \subseteq LabelIds
       /\ \A l \in FirstDogs[d].links : FirstLabels[l] # None

(* Their columns are typed, as the fields of a patch are; the identity has *)
(* numbered the labels there are.                                          *)
ASSUME KennelTyping ==
  /\ MaxEdits \in Nat
  /\ Cardinality({l \in LabelIds : FirstLabels[l] # None}) \in LabelIds \cup {0}
  /\ \A d \in Dogs : FirstDogs[d] # None =>
       /\ FirstDogs[d].sex \in Sexes
       /\ \A f \in Flags : FirstDogs[d][f] \in BOOLEAN
       /\ Flags \cup {"sex"} \subseteq DOMAIN FirstDogs[d]
  /\ \A patch \in DogPatches : \A f \in Flags \cap DOMAIN patch : patch[f] \in BOOLEAN

Idle == [at |-> "idle", req |-> None, mem |-> None]

DogRequests ==
  [op : {"patch"}, dog : Dogs, patch : DogPatches]
    \cup [op : {"addTrait", "addTrigger", "removeLabel"}, dog : Dogs, label : LabelIds]
    \cup [op : {"deleteDog"}, dog : Dogs]

NewLabels == {l \in Label : (l.code = None) # (l.target = None)}

LabelRequests ==
  [op : {"registerLabel"}, row : NewLabels]
    \cup [op : {"modifyLabel"}, label : LabelIds, patch : LabelPatches]
    \cup [op : {"deleteLabel"}, label : LabelIds]

FirstStatement(q) ==
  CASE q.op = "patch"         -> IF EmptyPatch(q.patch) THEN "idle" ELSE "lockDog"
    [] q.op = "removeLabel"   -> "lockDog"
    [] q.op = "deleteDog"     -> "deleteDog"
    [] q.op = "registerLabel" -> IF q.row.target = None THEN "insertLabel" ELSE "checkTarget"
    [] OTHER                  -> "readLabel"

TakeUp(c) ==
  /\ clerk[c].at = "idle" /\ edits < MaxEdits
  /\ \E q \in DogRequests \cup LabelRequests :
       /\ FirstStatement(q) # "idle"
       /\ clerk' = [clerk EXCEPT ![c] =
            [at |-> FirstStatement(q), req |-> q,
             mem |-> IF q.op = "registerLabel" THEN q.row ELSE None]]
  /\ edits' = edits + 1
  /\ UNCHANGED <<dogs, labels, lastLabel, holder>>

Finish(c) == clerk' = [clerk EXCEPT ![c] = Idle]

Proceed(c, at, mem) ==
  clerk' = [clerk EXCEPT ![c] = [at |-> at, req |-> @.req, mem |-> mem]]
-----------------------------------------------------------------------------
(* The row of a dog                                                        *)

(* The dog is read without FOR UPDATE (mutant).                            *)
ReadDogUnlocked(c) ==
  LET d == clerk[c].req.dog IN
  /\ clerk[c].at = "lockDog" /\ dogs[d] # None /\ Readable(dogs[d])
  /\ Proceed(c, "storeDog",
       [row |-> dogs[d], traits |-> Traits(labels, dogs[d].links),
        triggers |-> Triggers(labels, dogs[d].links)])
  /\ UNCHANGED <<dogs, labels, lastLabel, holder, edits>>

(* GetByIDForUpdate: the lock, the row, and its labels by what they are.   *)
LockDog(c) ==
  LET d == clerk[c].req.dog
      readable == dogs[d] # None /\ Readable(dogs[d]) IN
  /\ clerk[c].at = "lockDog" /\ holder[d] = None
  /\ \/ /\ readable
        /\ holder' = [holder EXCEPT ![d] = c]
        /\ Proceed(c, "storeDog",
             [row |-> dogs[d], traits |-> Traits(labels, dogs[d].links),
              triggers |-> Triggers(labels, dogs[d].links)])
     \/ ~readable /\ Finish(c) /\ UNCHANGED holder
  /\ UNCHANGED <<dogs, labels, lastLabel, edits>>

(* The links after the edit: AddTrait and AddIncompatibility look for the  *)
(* label only among its own kind, the removal among both.                  *)
AddTrait(mem, l)            == [mem EXCEPT !.traits = @ \cup {l}]
AddIncompatibility(mem, l)  == [mem EXCEPT !.triggers = @ \cup {l}]
RemoveIncompatibility(mem, l) ==
  IF l \in mem.traits THEN [mem EXCEPT !.traits = @ \ {l}]
                      ELSE [mem EXCEPT !.triggers = @ \ {l}]

EditedDog(q, mem) ==
  CASE q.op = "patch"       -> [mem EXCEPT !.row = Patched(@, q.patch)]
    [] q.op = "addTrait"    -> AddTrait(mem, q.label)
    [] q.op = "addTrigger"  -> AddIncompatibility(mem, q.label)
    [] q.op = "removeLabel" -> RemoveIncompatibility(mem, q.label)

(* The join table: a primary key on the pair, a foreign key to the         *)
(* catalogue.                                                              *)
LinksAccepted(mem) ==
  /\ mem.traits \cap mem.triggers = {}
  /\ \A l \in mem.traits \cup mem.triggers : labels[l] # None

(* The edit in memory, Update if it changed anything, and the COMMIT.      *)
StoreDog(c) ==
  LET q == clerk[c].req
      mem == EditedDog(q, clerk[c].mem)
      writes == /\ q.op = "patch" \/ mem # clerk[c].mem
                /\ q.op = "patch" => PatchAccepted(clerk[c].mem.row, q.patch)
                /\ LinksAccepted(mem) /\ PassportFree(dogs, mem.row, q.dog) IN
  /\ clerk[c].at = "storeDog"
  /\ \/ /\ writes
        /\ dogs' = [dogs EXCEPT ![q.dog] =
             [mem.row EXCEPT !.links = mem.traits \cup mem.triggers]]
     \/ ~writes /\ UNCHANGED dogs
  /\ holder' = [holder EXCEPT ![q.dog] = None]
  /\ Finish(c)
  /\ UNCHANGED <<labels, lastLabel, edits>>

(* One DELETE; the links go with the row.                                  *)
DeleteDog(c) ==
  LET d == clerk[c].req.dog IN
  /\ clerk[c].at = "deleteDog" /\ holder[d] = None
  /\ dogs' = [dogs EXCEPT ![d] = None]
  /\ Finish(c)
  /\ UNCHANGED <<labels, lastLabel, holder, edits>>
-----------------------------------------------------------------------------
(* The catalogue                                                           *)

IsCodeOf(code, l) == labels[l] # None /\ labels[l].code = code

(* validateTriggerTarget                                                   *)
TargetExists(code) == \E l \in LabelIds : IsCodeOf(code, l)

(* GetIncompatibilityByID, and what each handler makes of the row.         *)
ReadLabel(c) ==
  LET q == clerk[c].req
      row == IF labels[q.label] = None THEN None ELSE Loaded(labels[q.label])
      usable == /\ row # None
                /\ q.op = "addTrait" => IsTrait(row)
                /\ q.op = "addTrigger" => row.target # None IN
  /\ clerk[c].at = "readLabel"
  /\ \/ /\ usable /\ q.op \in {"addTrait", "addTrigger"}
        /\ Proceed(c, "lockDog", None)
     \/ /\ usable /\ q.op = "modifyLabel"
        /\ LET retargets == "target" \in DOMAIN q.patch /\ row.target # None
           IN  Proceed(c, IF retargets THEN "checkTarget" ELSE "updateLabel",
                       Patched(row, q.patch))
     \/ /\ usable /\ q.op = "deleteLabel"
        /\ Proceed(c, IF IsTrait(row) THEN "countTriggers" ELSE "deleteLabel", row)
     \/ ~usable /\ Finish(c)
  /\ UNCHANGED <<dogs, labels, lastLabel, holder, edits>>

CheckTarget(c) ==
  /\ clerk[c].at = "checkTarget"
  /\ \/ /\ TargetExists(clerk[c].mem.target)
        /\ Proceed(c, IF clerk[c].req.op = "registerLabel" THEN "insertLabel"
                                                           ELSE "updateLabel", clerk[c].mem)
     \/ /\ ~TargetExists(clerk[c].mem.target)
        /\ Finish(c)
  /\ UNCHANGED <<dogs, labels, lastLabel, holder, edits>>

(* The unique index over the codes.                                        *)
CodeFree(row, self) ==
  row.code = None \/ ~\E l \in LabelIds \ {self} : IsCodeOf(row.code, l)

(* Create. The identity is spent even if the index refuses the row.        *)
InsertLabel(c) ==
  LET l == lastLabel + 1 IN
  /\ clerk[c].at = "insertLabel" /\ l \in LabelIds
  /\ lastLabel' = l
  /\ labels' = IF CodeFree(clerk[c].mem, l)
                 THEN [labels EXCEPT ![l] = clerk[c].mem] ELSE labels
  /\ Finish(c)
  /\ UNCHANGED <<dogs, holder, edits>>

(* Update writes every column from what was read; no row, no update.       *)
UpdateLabel(c) ==
  LET l == clerk[c].req.label IN
  /\ clerk[c].at = "updateLabel"
  /\ \/ /\ labels[l] # None /\ CodeFree(clerk[c].mem, l)
        /\ labels' = [labels EXCEPT ![l] = clerk[c].mem]
     \/ (labels[l] = None \/ ~CodeFree(clerk[c].mem, l)) /\ UNCHANGED labels
  /\ Finish(c)
  /\ UNCHANGED <<dogs, lastLabel, holder, edits>>

CountTriggers(c) ==
  LET code == clerk[c].mem.code
      count == Cardinality({l \in LabelIds : labels[l] # None /\ labels[l].target = code}) IN
  /\ clerk[c].at = "countTriggers"
  /\ \/ count = 0 /\ Proceed(c, "deleteLabel", clerk[c].mem)
     \/ count > 0 /\ Finish(c)
  /\ UNCHANGED <<dogs, labels, lastLabel, holder, edits>>

(* The foreign key cascades (mutant).                                      *)
NotReferenced(l) == TRUE

(* The foreign key of the join table restricts.                            *)
Unreferenced(l) == \A d \in Dogs : dogs[d] # None => l \notin dogs[d].links

DeleteLabel(c) ==
  LET l == clerk[c].req.label IN
  /\ clerk[c].at = "deleteLabel"
  /\ labels' = IF Unreferenced(l) THEN [labels EXCEPT ![l] = None] ELSE labels
  /\ Finish(c)
  /\ UNCHANGED <<dogs, lastLabel, holder, edits>>
-----------------------------------------------------------------------------
KennelInit ==
  /\ dogs = FirstDogs /\ labels = FirstLabels
  /\ lastLabel = Cardinality({l \in LabelIds : FirstLabels[l] # None})
  /\ holder = [d \in Dogs |-> None]
  /\ clerk = [c \in Clerks |-> Idle]
  /\ edits = 0

Statement(c) ==
  \/ LockDog(c) \/ StoreDog(c) \/ DeleteDog(c)
  \/ ReadLabel(c) \/ CheckTarget(c) \/ InsertLabel(c) \/ UpdateLabel(c)
  \/ CountTriggers(c) \/ DeleteLabel(c)

KennelNext == \E c \in Clerks : TakeUp(c) \/ Statement(c)

KennelSpec == KennelInit /\ [][KennelNext]_kennelVars
-----------------------------------------------------------------------------
(* What the edits of dogs and of the catalogue promise.                    *)

(* Type invariant of the kennel: the columns of the rows, the clerks.      *)
KennelTypeOK ==
  /\ \A d \in Dogs : dogs[d] # None =>
       /\ dogs[d].sex \in Sexes /\ dogs[d].links \subseteq LabelIds
       /\ \A f \in Flags : dogs[d][f] \in BOOLEAN
  /\ labels \in [LabelIds -> Label \cup {None}]
  /\ lastLabel \in LabelIds \cup {0}
  /\ holder \in [Dogs -> Clerks \cup {None}]
  /\ \A c \in Clerks : clerk[c].req \in DogRequests \cup LabelRequests \cup {None}
  /\ edits \in 0..MaxEdits

(* What a request is about: the fields of its patch, or its label.         *)
NamedFields(q) == IF q.op = "patch" THEN DOMAIN q.patch ELSE {"links"}
NamedLabels(q) == IF q.op = "patch" THEN {} ELSE {q.label}

Differs(d, f) == dogs'[d][f] # dogs[d][f]

(* modify.go:49-50 and dog_repository.go:103, "preventing lost updates":   *)
(* whatever is edited at the same time, a dog changes only in the fields   *)
(* and the labels named by the request that writes it, although the row    *)
(* and its links are written whole.                                        *)
EditsCompose ==
  [][\A d \in Dogs : dogs[d] # None /\ dogs'[d] \notin {None, dogs[d]} =>
       \E c \in Clerks :
         LET q == clerk[c].req IN
         /\ clerk[c].at = "storeDog" /\ clerk'[c].at = "idle" /\ q.dog = d
         /\ \A f \in DOMAIN dogs[d] : Differs(d, f) => f \in NamedFields(q)
         /\ (dogs[d].links \cup dogs'[d].links) \ (dogs[d].links \cap dogs'[d].links)
              \subseteq NamedLabels(q)]_kennelVars

(* 000002_incompatibility_protect_fk.up.sql:4-8: a label that is "still    *)
(* referenced by at least one dog" is not deleted, although the handler    *)
(* looks only for triggers and reads without a lock.                       *)
LabelsInUseStay ==
  \A d \in Dogs : dogs[d] # None => \A l \in dogs[d].links : labels[l] # None

(* dog.go:607-610: the rule that only a female is in heat is centralised   *)
(* in SetHeat, which "guarantees every write path (SetHeat, ApplyPatch)    *)
(* enforces it". A row that breaks it cannot be loaded again.              *)
HeatIsFemale ==
  \A d \in Dogs : dogs[d] # None /\ dogs[d].heat => dogs[d].sex = "FEMALE"
=============================================================================
