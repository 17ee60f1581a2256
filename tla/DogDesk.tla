------------------------------- MODULE DogDesk -------------------------------
(* Requests about dogs: the queries of the repository, the use cases on    *)
(* top of them, and the handlers, which check ids and ownership.           *)
EXTENDS Desk

CONSTANT DogBodies     \* what POST /dogs may carry

DogIds == Ids("dogs")

(* The queries. Those that load a dog fail on the first row they cannot    *)
(* rebuild, whatever the other rows of the page.                           *)
ScanDogs(ids) ==
  IF \A d \in ids : Readable(db.dogs[d]) THEN Ok(Shown("dog", ids)) ELSE Fail("internal")

ReadDog(d) ==
  IF d \notin Stored("dogs") THEN Fail("not_found") ELSE ScanDogs({d})

DogsWith(Test(_)) == {d \in Stored("dogs") : Test(db.dogs[d])}

AllDogs              == Stored("dogs")
DogsByOwner(owner)   == DogsWith(LAMBDA row : row.owner = owner)
DogsByLink(label)    == DogsWith(LAMBDA row : label \in row.links)
DogsByBreed(breed)   == DogsWith(LAMBDA row : row.breed = breed)
DogsBySex(sex)       == DogsWith(LAMBDA row : row.sex = sex)
DogsByNeutered(flag) == DogsWith(LAMBDA row : row.neutered = flag)
DogsByHeat(flag)     == DogsWith(LAMBDA row : row.heat = flag)
DogsByActive(flag)   == DogsWith(LAMBDA row : row.active = flag)
DogsByAge(bracket)   == DogsWith(LAMBDA row : AgeColumn(row.age) = bracket)
DogsBySize(bracket)  == DogsWith(LAMBDA row : SizeColumn(row.weight) = bracket)

(* ListActiveWithOwnerRaw takes LIMIT and OFFSET as the client wrote them. *)
ActiveWithOwner(page) ==
  IF page[1] < 0 \/ page[2] < 0 THEN Fail("internal")
  ELSE ScanDogs(OldestFirst(DogsByActive(TRUE), [limit |-> page[1], offset |-> page[2]]))

(* Create and Update, and the constraints they may trip over.              *)
CreateDog(row) ==
  IF row.owner \notin Users THEN Fail("invalid_user_id")
  ELSE IF ~PassportFree(db.dogs, row, NextId("dogs")) THEN Fail("duplicate_passport")
  ELSE LET then == Insert(db, "dogs", row)
       IN  Saved(Shown("dog", {NextId("dogs")}), then)

UpdateDog(d, row) ==
  IF ~PassportFree(db.dogs, row, d) THEN Fail("duplicate_passport")
  ELSE Saved(Shown("dog", {d}), [db EXCEPT !.dogs[d] = row])

(* The foreign key of the bookings does not cascade (mutant).              *)
EraseRowAlone(d) ==
  IF d \in Stored("dogs") THEN Saved({}, [db EXCEPT !.dogs[d] = None]) ELSE Fail("not_found")

(* DELETE FROM dogs takes the bookings along and sets the dog of a class   *)
(* to NULL, which an individual class may not have: then nothing goes.     *)
EraseDog(d) ==
  LET bookings == {r \in Stored("bookings") : db.bookings[r].dog = d}
      classes  == {a \in Stored("activities") : db.activities[a].dog = d} IN
  IF d \notin Stored("dogs") THEN Fail("not_found")
  ELSE IF \E a \in classes : db.activities[a].kind = "INDIVIDUAL_CLASS" THEN Fail("internal")
  ELSE Saved({}, [db EXCEPT
         !.dogs[d]    = None,
         !.bookings   = [r \in DOMAIN @ |-> IF r \in bookings THEN None ELSE @[r]],
         !.activities = [a \in DOMAIN @ |->
                           IF a \in classes THEN [@[a] EXCEPT !.dog = None] ELSE @[a]]])

-----------------------------------------------------------------------------
(* The use cases                                                           *)

ListDogs(ids, page) == ScanDogs(NewestFirst(ids, NormalizePagination(page)))

RegisterDog(body) ==
  IF \/ \E f \in {"breed", "passport", "age", "weight", "sex"} : ~ValidField(f, body[f])
     \/ body.owner = 0
  THEN Fail("validation") ELSE CreateDog(NewDog(body))

GetDog(d) == IF d = 0 THEN Fail("validation") ELSE ReadDog(d)

DeleteDogRow(d) == IF d = 0 THEN Fail("validation") ELSE EraseDog(d)

(* The dog under its lock; what is written is what Edit makes of its row.  *)
EditDog(d, Edit(_)) ==
  IF d = 0 THEN Fail("validation")
  ELSE IF ReadDog(d).error # None THEN ReadDog(d) ELSE Edit(db.dogs[d])

ModifyDog(d, patch) ==
  EditDog(d, LAMBDA row :
    IF EmptyPatch(patch) THEN Ok(Shown("dog", {d}))
    ELSE IF ~PatchAccepted(row, patch) THEN Fail("validation")
    ELSE UpdateDog(d, Patched(row, patch)))

SetDogNeutered(d, flag) ==
  EditDog(d, LAMBDA row : UpdateDog(d, [row EXCEPT !.neutered = flag]))

SetDogHeat(d, flag) ==
  EditDog(d, LAMBDA row :
    IF SetHeat(row, flag) THEN UpdateDog(d, [row EXCEPT !.heat = flag])
    ELSE Fail("invalid_heat_for_sex"))

(* The error of the domain reaches writeError as it is, and falls through. *)
SetDogPhoto(d, url) ==
  EditDog(d, LAMBDA row :
    IF ValidField("photo", url) THEN UpdateDog(d, [row EXCEPT !.photo = url])
    ELSE Fail("photo_url"))

(* A label of the right kind, looked up before the dog is.                 *)
LinkLabel(d, l, kind) ==
  IF d = 0 \/ l = 0 THEN Fail("validation")
  ELSE IF l \notin Stored("labels") THEN Fail("not_found")
  ELSE IF l \notin kind THEN Fail("invalid_incompatibility_kind")
  ELSE EditDog(d, LAMBDA row :
         IF l \in row.links THEN Ok(Shown("dog", {d}))
         ELSE UpdateDog(d, [row EXCEPT !.links = @ \cup {l}]))

AddDogTrait(d, l) ==
  LinkLabel(d, l, {t \in Stored("labels") : IsTrait(Loaded(db.labels[t]))})
AddDogTrigger(d, l) ==
  LinkLabel(d, l, {t \in Stored("labels") : Loaded(db.labels[t]).target # None})

RemoveDogLabel(d, l) ==
  IF l = 0 THEN Fail("validation")
  ELSE EditDog(d, LAMBDA row :
         IF l \in row.links THEN UpdateDog(d, [row EXCEPT !.links = @ \ {l}])
         ELSE Ok(Shown("dog", {d})))

ListAllDogs(page)         == ListDogs(AllDogs, page)
ListActiveDogs(page)      == ActiveWithOwner(page)
ListDogsByActive(v, page) == ListDogs(DogsByActive(v), page)
ListDogsByNeutered(v, page) == ListDogs(DogsByNeutered(v), page)
ListDogsByHeat(v, page)   == ListDogs(DogsByHeat(v), page)

ListDogsByOwner(owner, page) ==
  IF owner = 0 THEN Fail("validation") ELSE ListDogs(DogsByOwner(owner), page)

ListDogsByLabel(l, page) ==
  IF l = 0 THEN Fail("validation") ELSE ListDogs(DogsByLink(l), page)

ListDogsByBreed(breed, page) ==
  IF breed = None THEN Fail("validation") ELSE ListDogs(DogsByBreed(breed), page)

ListDogsBySex(sex, page) ==
  IF sex \notin Sexes THEN Fail("validation") ELSE ListDogs(DogsBySex(sex), page)

ListDogsByAge(bracket, page) ==
  IF bracket \notin AgeBrackets THEN Fail("validation") ELSE ListDogs(DogsByAge(bracket), page)

ListDogsBySize(bracket, page) ==
  IF bracket \notin SizeBrackets THEN Fail("validation") ELSE ListDogs(DogsBySize(bracket), page)

-----------------------------------------------------------------------------
(* The handlers                                                            *)

DogHandler_Register(who) ==
  /\ HasRoom("dogs")
  /\ \E body \in DogBodies : Answer(who, 201, RegisterDog(body))

(* The dog is read first, whoever asks: a stranger learns that it exists.  *)
DogHandler_GetByID(who) ==
  \E d \in DogIds :
    Answer(who, 200,
      IF GetDog(d).error # None THEN GetDog(d)
      ELSE Owned(who, db.dogs[d].owner, GetDog(d)))

DogHandler_ListByOwner(who) ==
  \E owner \in Users \cup {0}, page \in Pages :
    Answer(who, 200, Owned(who, owner, ListDogsByOwner(owner, page)))

DogHandler_Modify(who) ==
  \E d \in DogIds, patch \in DogPatches : Answer(who, 200, ModifyDog(d, patch))

DogHandler_AddTrait(who) ==
  \E d \in DogIds, l \in Ids("labels") :
    LET out == AddDogTrait(d, l) IN Answer(who, IF out.db = db THEN 200 ELSE 201, out)

DogHandler_AddTrigger(who) ==
  \E d \in DogIds, l \in Ids("labels") :
    LET out == AddDogTrigger(d, l) IN Answer(who, IF out.db = db THEN 200 ELSE 201, out)

DogHandler_RemoveIncompatibility(who) ==
  \E d \in DogIds, l \in Ids("labels") : Answer(who, 200, RemoveDogLabel(d, l))

DogHandler_Delete(who) == \E d \in DogIds : Answer(who, 204, DeleteDogRow(d))

DogHandler_SetNeutered(who) ==
  \E d \in DogIds, flag \in BOOLEAN : Answer(who, 200, SetDogNeutered(d, flag))

DogHandler_SetHeat(who) ==
  \E d \in DogIds, flag \in BOOLEAN : Answer(who, 200, SetDogHeat(d, flag))

DogHandler_SetPhoto(who) ==
  \E d \in DogIds, url \in {None, "web", "unsafe"} : Answer(who, 200, SetDogPhoto(d, url))

DogHandler_List(who) == \E page \in Pages : Answer(who, 200, ListAllDogs(page))

DogHandler_ListActiveWithOwner(who) ==
  \E page \in Pages : Answer(who, 200, ListActiveDogs(page))

(* ParseBool of the path: anything else is a malformed request.            *)
DogHandler_ListByIsActive(who) ==
  \E flag \in BOOLEAN, page \in Pages : Answer(who, 200, ListDogsByActive(flag, page))

DogHandler_ListByNeutered(who) ==
  \E flag \in BOOLEAN, page \in Pages : Answer(who, 200, ListDogsByNeutered(flag, page))

DogHandler_ListByHeat(who) ==
  \E flag \in BOOLEAN, page \in Pages : Answer(who, 200, ListDogsByHeat(flag, page))

DogHandler_ListByIncompatibility(who) ==
  \E l \in Ids("labels"), page \in Pages : Answer(who, 200, ListDogsByLabel(l, page))

DogHandler_ListByBreed(who) ==
  \E breed \in {body.breed : body \in DogBodies}, page \in Pages :
    Answer(who, 200, ListDogsByBreed(breed, page))

DogHandler_ListBySex(who) ==
  \E sex \in Sexes \cup {None}, page \in Pages : Answer(who, 200, ListDogsBySex(sex, page))

DogHandler_ListByAgeBracket(who) ==
  \E bracket \in AgeBrackets \cup {None}, page \in Pages :
    Answer(who, 200, ListDogsByAge(bracket, page))

DogHandler_ListBySizeBracket(who) ==
  \E bracket \in SizeBrackets \cup {None}, page \in Pages :
    Answer(who, 200, ListDogsBySize(bracket, page))
=============================================================================
