--------------------------- MODULE Compatibility ----------------------------
(* The domain rules about dogs: what a row may hold, what the labels of    *)
(* two dogs (traits and triggers of the catalogue) make of their meeting,  *)
(* and what the registration of a booking concludes from it.               *)
EXTENDS Integers, FiniteSets

CONSTANTS Codes,       \* codes of traits
          LabelIds,    \* ids of catalogue rows
          Dogs,        \* ids of dogs
          DogPatches,  \* the patches clients send, of dogs
          LabelPatches, \* and of catalogue rows
          None         \* no row, NULL, a field that is not there

Sexes  == {"MALE", "FEMALE"}
Levels == {"ABSOLUTA", "MEDIA", "BAJA"}

(* A catalogue row with a code is a trait, one with a target a trigger.    *)
Label == [code : Codes \cup {None}, target : Codes \cup {None}, level : Levels]

IsTrait(label) == label.code # None

(* scanIncompatibility: a row with a code is loaded without its target.    *)
Loaded(label) == IF IsTrait(label) THEN [label EXCEPT !.target = None] ELSE label

(* A loaded dog: its id, its row, and its labels split by what they are.   *)
Traits(catalogue, links)   == {l \in links : IsTrait(catalogue[l])}
Triggers(catalogue, links) == links \ Traits(catalogue, links)

LoadDog(id, row, catalogue) ==
  [id |-> id, row |-> row,
   traits   |-> {<<l, Loaded(catalogue[l])>> : l \in Traits(catalogue, row.links)},
   triggers |-> {<<l, Loaded(catalogue[l])>> : l \in Triggers(catalogue, row.links)}]

HasTraitCode(dog, code) == \E t \in dog.traits : t[2].code = code

FiresOn(label, dog) == label.target # None /\ HasTraitCode(dog, label.target)

ConflictsFrom(source, target) ==
  {[trigger |-> t[1], level |-> t[2].level, from |-> source.id, to |-> target.id] :
     t \in {t \in source.triggers : FiresOn(t[2], target)}}

ConflictsWith(dog, other) ==
  IF dog.id = other.id THEN {}
  ELSE ConflictsFrom(dog, other) \cup ConflictsFrom(other, dog)

(* The pair rule: two males, whoever comes first.                          *)
SexNeuteredConflictsWith(dog, other) ==
  /\ dog.id # other.id
  /\ dog.row.sex = "MALE" /\ other.row.sex = "MALE"

Reason(dog, other) ==
  LET state(d) == IF d.row.neutered THEN "castrated" ELSE "intact"
  IN  IF SexNeuteredConflictsWith(dog, other) THEN <<state(dog), state(other)>> ELSE None

IsBlocker(dog, other) == Reason(dog, other) = <<"intact", "intact">>

HasBlockingSexConflict(dog, others) == \E o \in others : IsBlocker(dog, o)

Conflicts(dog, others) == UNION {ConflictsWith(dog, o) : o \in others}

HasAbsoluteConflict(conflicts) == \E c \in conflicts : c.level = "ABSOLUTA"

(* Steps 3b.i to 3b.iii of the registration, in this order.                *)
Verdict(dog, others) ==
  CASE HasBlockingSexConflict(dog, others) -> "sex_neutered_incompatibility"
    [] HasAbsoluteConflict(Conflicts(dog, others)) /\ ~HasBlockingSexConflict(dog, others)
         -> "dog_incompatible"
    [] OTHER ->
         IF \/ \E o \in others : Reason(dog, o) # None
            \/ Conflicts(dog, others) # {}
            \/ dog.row.special
         THEN "PENDING_TO_CONFIRM" ELSE "CONFIRMED"

-----------------------------------------------------------------------------
(* The row itself. Weights are in hundredths of a kilo, as the column is.  *)

AgeBracket(months) ==
  CASE months < 0   -> "UNKNOWN"
    [] months \in 0..6   -> "CHILDREN"
    [] months \in 7..18  -> "TEENAGER"
    [] months \in 19..36 -> "SEMI_ADULT"
    [] months > 36  -> "ADULT"

SizeBracket(weight) ==
  CASE weight <= 0           -> "UNKNOWN"
    [] weight \in 1..500     -> "MINI"
    [] weight \in 501..2000  -> "MEDIUM"
    [] weight > 2000         -> "LARGE"

(* The generated columns of the table dogs, which the lists filter by.     *)
AgeColumn(months) ==
  IF months < 0 THEN "UNKNOWN" ELSE IF months <= 6 THEN "CHILDREN"
  ELSE IF months <= 18 THEN "TEENAGER" ELSE IF months <= 36 THEN "SEMI_ADULT"
  ELSE "ADULT"

SizeColumn(weight) ==
  IF weight <= 0 THEN "UNKNOWN" ELSE IF weight <= 500 THEN "MINI"
  ELSE IF weight <= 2000 THEN "MEDIUM" ELSE "LARGE"

AgeBrackets  == {"CHILDREN", "TEENAGER", "SEMI_ADULT", "ADULT", "UNKNOWN"}
SizeBrackets == {"MINI", "MEDIUM", "LARGE", "UNKNOWN"}

(* What ApplyPatch and NewDog accept of a field on its own.                *)
ValidField(field, value) ==
  CASE field \in {"age", "weight"}     -> value > 0
    [] field = "sex"                   -> value \in Sexes
    [] field \in {"breed", "passport"} -> value # None
    [] field = "photo"                 -> value # "unsafe"
    [] OTHER                           -> TRUE

(* A patch maps the fields it names to their values.                       *)
Patched(row, patch) ==
  [f \in DOMAIN row |-> IF f \in DOMAIN patch THEN patch[f] ELSE row[f]]

(* SetHeat, also as ApplyPatch calls it: after the sex is patched.         *)
SetHeat(row, heat) == heat => row.sex = "FEMALE"

(* ApplyPatch looks at heat only when the patch names it.                  *)
PatchAccepted(row, patch) ==
  /\ \A f \in DOMAIN patch : ValidField(f, patch[f])
  /\ "heat" \in DOMAIN patch => SetHeat(Patched(row, patch), patch["heat"])

(* NewDog, with the fields NewRegisterDogInput lets through.               *)
NewDog(body) ==
  [owner |-> body.owner, sex |-> body.sex, age |-> body.age, weight |-> body.weight,
   special |-> body.special, breed |-> body.breed, passport |-> body.passport,
   photo |-> None, neutered |-> FALSE, heat |-> FALSE, active |-> TRUE, links |-> {}]

(* isEmptyPatch leaves has_special_condition out: a patch of that field    *)
(* alone reads the dog and writes nothing.                                 *)
EmptyPatch(patch) == DOMAIN patch \subseteq {"special"}

(* The unique index over the passports.                                    *)
PassportFree(table, row, self) ==
  \A d \in DOMAIN table \ {self} : table[d] # None => table[d].passport # row.passport

(* scanDog rebuilds the dog with NewDog and a patch that names heat.       *)
Readable(row) ==
  /\ ValidField("age", row.age) /\ ValidField("weight", row.weight)
  /\ SetHeat(row, row.heat)
=============================================================================
