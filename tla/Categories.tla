----------------------------- MODULE Categories -----------------------------
(***************************************************************************)
(* Categories and the labels of vehicles: mutateCategory and               *)
(* vehicleCategories (src/src/features/categories/service.ts), the dialog  *)
(* and the picker that ask for them (src/src/components).  Everything runs *)
(* under one advisory lock per organisation, taken before any row lock.    *)
(* One type of category: brands and providers are handled alike, but for   *)
(* owned vehicles having no provider.  Names differ in more than case.     *)
(***************************************************************************)
EXTENDS Values, Naturals

CONSTANTS
    CategoryIds, Names, Trucks, Clerks,
    MaxRenames      \* bound: a category at this version is left alone

VARIABLES
    category,       \* Category: name, active, version; Nil before it exists
    label,          \* what a vehicle says of its brand: text and category
    work            \* what a clerk asked for, whether it holds the lock, and
                    \* what the transaction found

labels == <<category, label, work>>

CategoryRow == [name : Names, active : BOOLEAN, version : Nat]

ASSUME CategoriesAssumption == Nil \notin CategoryIds \cup CategoryRow

Made(c)     == category[c] # Nil
Taken(n, c) == \E d \in CategoryIds \ {c} : Made(d) /\ category[d].name = n
Rest        == [op |-> "none"]

Ask(s, r) ==
    /\ work[s] = Rest
    /\ work' = [work EXCEPT ![s] = r]
    /\ UNCHANGED <<category, label>>

(* The dialog sends the version it was opened with.                        *)
AskCategory(s) ==
    \/ \E n \in Names : Ask(s, [op |-> "create", locked |-> FALSE, name |-> n])
    \/ \E c \in CategoryIds, what \in {"archive", "reactivate"} :
         /\ Made(c) /\ category[c].version < MaxRenames
         /\ Ask(s, [op |-> what, locked |-> FALSE, id |-> c, name |-> category[c].name,
                    version |-> category[c].version])
    \/ \E c \in CategoryIds, n \in Names :
         /\ Made(c) /\ category[c].version < MaxRenames /\ n # category[c].name
         /\ Ask(s, [op |-> "update", locked |-> FALSE, id |-> c, name |-> n,
                    version |-> category[c].version])

(* The picker sends a text, and the category if one of the active ones was *)
(* picked, or the one the vehicle had, while its text is untouched.        *)
AskLabel(s) ==
    \E v \in Trucks, n \in Names, c \in CategoryIds \cup {Nil} :
        /\ c # Nil => /\ Made(c) /\ category[c].name = n
                      /\ category[c].active \/ label[v].id = c
        /\ Ask(s, [op |-> "label", locked |-> FALSE, vehicle |-> v, name |-> n, id |-> c])

(* vehicleCategories: the category named, else the one the vehicle has if  *)
(* its text stays, else the one of that name.                              *)
Kept(r) ==
    IF r.id # Nil THEN r.id
    ELSE IF label[r.vehicle].name = r.name THEN label[r.vehicle].id ELSE Nil
Found(r) ==
    IF Kept(r) # Nil THEN Kept(r)
    ELSE IF Taken(r.name, Nil) THEN CHOOSE c \in CategoryIds : Made(c) /\ category[c].name = r.name
    ELSE Nil

Allowed(r) ==
    CASE r.op = "create" -> ~ Taken(r.name, Nil)
      [] r.op = "label" ->
           Found(r) # Nil => category[Found(r)].active \/ Found(r) = label[r.vehicle].id
      [] OTHER ->
           /\ category[r.id].version = r.version /\ ~ Taken(r.name, r.id)
           /\ r.op = "archive" => category[r.id].active
           /\ r.op = "reactivate" => ~ category[r.id].active
           /\ r.op = "update" => category[r.id].name # r.name

(* Mutant: the vehicle form does not take the lock.                        *)
MayRun_VehiclesToo(s) ==
    work[s].op = "label" \/ \A t \in Clerks : work[t] # Rest => ~ work[t].locked

MayRun(s) == \A t \in Clerks : work[t] # Rest => ~ work[t].locked

(* lockCategories, the reads, and for a vehicle the label they give it.    *)
Prepare(s) ==
    /\ work[s] # Rest /\ ~ work[s].locked /\ MayRun(s) /\ Allowed(work[s])
    /\ work' = [work EXCEPT ![s] =
         IF work[s].op # "label" THEN [@ EXCEPT !.locked = TRUE]
         ELSE [op |-> "label", locked |-> TRUE, vehicle |-> @.vehicle, id |-> Found(@),
               name |-> IF Found(@) = Nil THEN @.name ELSE category[Found(@)].name]]
    /\ UNCHANGED <<category, label>>

Reject(s) ==
    /\ work[s] # Rest
    /\ ~ work[s].locked => MayRun(s) /\ ~ Allowed(work[s])
    /\ work' = [work EXCEPT ![s] = Rest]
    /\ UNCHANGED <<category, label>>

(* A new category takes the vehicles with that text and no category, a new *)
(* name goes to the vehicles of the category.                              *)
Relabelled(c, n, members) ==
    label' = [v \in Trucks |-> IF v \in members THEN [name |-> n, id |-> c] ELSE label[v]]

SaveCategory(s) ==
    LET r == work[s]
    IN  /\ work[s] # Rest /\ work[s].locked
        /\ \/ /\ r.op = "create"
              /\ \E c \in CategoryIds :
                   /\ ~ Made(c)
                   /\ category' = [category EXCEPT ![c] =
                                     [name |-> r.name, active |-> TRUE, version |-> 1]]
                   /\ Relabelled(c, r.name, {v \in Trucks : label[v].id = Nil
                                                            /\ label[v].name = r.name})
           \/ /\ r.op = "update"
              /\ category' = [category EXCEPT ![r.id].name = r.name, ![r.id].version = @ + 1]
              /\ Relabelled(r.id, r.name, {v \in Trucks : label[v].id = r.id})
           \/ /\ r.op \in {"archive", "reactivate"}
              /\ category' = [category EXCEPT ![r.id].active = r.op = "reactivate",
                                              ![r.id].version = @ + 1]
              /\ UNCHANGED label
           \/ /\ r.op = "label"
              /\ label' = [label EXCEPT ![r.vehicle] = [name |-> r.name, id |-> r.id]]
              /\ UNCHANGED category
        /\ work' = [work EXCEPT ![s] = Rest]

CategoriesInit ==
    /\ category = [c \in CategoryIds |-> Nil]
    /\ label \in [Trucks -> [name : Names, id : {Nil}]]
    /\ work = [s \in Clerks |-> Rest]

CategoriesNext ==
    \E s \in Clerks : AskCategory(s) \/ AskLabel(s) \/ Prepare(s) \/ Reject(s) \/ SaveCategory(s)

CategoriesSpec == CategoriesInit /\ [][CategoriesNext]_labels

(* A vehicle of a category carries its name through every rename, names    *)
(* are unique, and a vehicle comes to a category only while it is active;  *)
(* archiving and renaming race the vehicle form (service.ts:8 "Category    *)
(* lifecycle and vehicle writes take this lock").                          *)
Follows ==
    /\ \A v \in Trucks : label'[v].id # Nil =>
         /\ label'[v].name = category'[label'[v].id].name
         /\ label'[v].id # label[v].id => category'[label'[v].id].active
    /\ \A c, d \in CategoryIds : category'[c] # Nil /\ category'[d] # Nil
         /\ category'[c].name = category'[d].name => c = d
=============================================================================
