SPECIFICATION MCSpec
CONSTANTS
  None = None
  Codes = {"shy", "loud"}
  LabelIds = {1, 2, 3}
  Clerks = {c1, c2}
  Dogs = {1}
  FirstDogs <- TheDogs
  FirstLabels <- TheLabels
  DogPatches <- TheDogPatches
  LabelPatches <- TheLabelPatches
  MaxEdits = 3
  UserRoles <- TheRoles
  FirstTables <- TheTables
  Pages <- ThePages
  MaxAsked = 2
  DogBodies <- TheDogBodies
  PassBodies <- ThePassBodies
  PassPatches <- ThePassPatches
  ActivityBodies <- TheActivityBodies
  ActivityPatches <- TheActivityPatches
  Filters <- TheFilters
PROPERTY ClassesStayPrivate
INVARIANTS ViewsReadable ActivitiesReadable
CHECK_DEADLOCK FALSE
