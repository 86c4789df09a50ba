------------------------------- MODULE Catalog -------------------------------
(***************************************************************************)
(* The structured data of the platform in MySQL: entity types, attributes, *)
(* vehicles with their system profiles, components, evidence.  A request   *)
(* that writes is one transaction and then a second read of the row it has *)
(* written; those on types are taken apart where others may come between.  *)
(* The asset tree and the evidence are built from several transactions,    *)
(* and other requests commit in between.                                   *)
(***************************************************************************)
EXTENDS Integers, FiniteSets, Sequences, SequencesExt, TLC

CONSTANTS
    Systems,        \* ids of active rows of system_catalog
    Retired,        \* ids of the others
    TypeCodes, VehicleCodes, PartCodes, AttributeCodes,
    Orders,         \* values of sort_order
    Updatable,      \* ids of the types that are updated
    MaxTypes, MaxAttributes, MaxComponents,     \* bounds of the rows
    MaxUpdates      \* bound on the updates of a type that are under way

ASSUME CatalogAssumption ==
    /\ Systems \cup Retired \subseteq Nat \ {0} /\ Systems \cap Retired = {} /\ Systems # {}
    /\ Orders \subseteq Nat /\ {MaxTypes, MaxAttributes, MaxComponents, MaxUpdates} \subseteq Nat

VARIABLES
    types,      \* rows of entity_type; the id is the index (AUTO_INCREMENT);
                \* "pending" is inserted and not committed, "lost" rolled back
    updating,   \* type -> the updates that have found it there
    attributes, \* rows of entity_attribute
    vehicles,   \* rows of vehicle_instance with their vehicle_system_profile
    components, \* rows of component_instance
    counted,    \* Redis: the vehicles counted per source, or -1
    reading     \* a build_tree or a _projected_items that is under way

catalogvars == <<types, updating, attributes, vehicles, components, counted, reading>>

NoSystem == 0
NoReading == [of |-> "none", at |-> "idle", vehicles |-> {}, profiles |-> {}, components |-> {}, before |-> {}]
TypeRow(category, code, order, sys) ==
    [category |-> category, code |-> code, order |-> order, system |-> sys, status |-> "active"]
SeededTypes == <<TypeRow("vehicle", "vehicle", 1, NoSystem), TypeRow("component", "arm", 2, CHOOSE s \in Systems : TRUE)>>

CatalogInit ==
    /\ types = SeededTypes /\ updating = [i \in Updatable |-> 0] /\ attributes = <<>> /\ vehicles = <<>> /\ components = <<>>
    /\ counted = -1 /\ reading = NoReading

-----------------------------------------------------------------------------
Live(table) == {i \in DOMAIN table : table[i].status \notin {"pending", "lost", "deleted"}}
Active(table) == {i \in DOMAIN table : table[i].status = "active"}
ListEntityTypes(category) == {i \in Live(types) : types[i].category = category}

(* A request that is refused (ValueError) rolls back and is no step.       *)
(* create_entity_type: the INSERT takes the next id, and others see the row *)
(* once it is committed.  The code of a deleted row is free for the check   *)
(* and taken for the UNIQUE key, so it is never used again; that of a       *)
(* pending row is waited for.                                               *)
InsertEntityType(code, order, sys) ==
    /\ Len(types) < MaxTypes
    /\ \A i \in DOMAIN types : types[i].code # code \/ types[i].status = "lost"
    /\ sys \in Systems \cup {NoSystem}
    /\ types' = Append(types, [TypeRow("component", code, order, sys) EXCEPT !.status = "pending"])
    /\ UNCHANGED <<updating, attributes, vehicles, components, counted, reading>>

\* With its system and its group of attributes; or the driver fails.
EndInsertion(i, status) ==
    /\ types[i].status = "pending" /\ types' = [types EXCEPT ![i].status = status]
    /\ UNCHANGED <<updating, attributes, vehicles, components, counted, reading>>

\* update_entity_type finds the type there, by a read that takes no lock ...
CheckEntityType(i) ==
    /\ i \in Live(types) /\ updating[i] < MaxUpdates
    /\ updating' = [updating EXCEPT ![i] = @ + 1]
    /\ UNCHANGED <<types, attributes, vehicles, components, counted, reading>>

\* ... and changes it, deleted or not by now, or fails and is rolled back.
\* Committed before the row is read again among those that are not deleted:
\* who deletes a type is told that it does not exist.
UpdateEntityType(i, status, sys) ==
    /\ updating[i] > 0 /\ sys \in Systems \cup {NoSystem}
    /\ updating' = [updating EXCEPT ![i] = @ - 1]
    /\ types' \in {types, [types EXCEPT ![i].status = status, ![i].system = sys]}
    /\ UNCHANGED <<attributes, vehicles, components, counted, reading>>

CreateAttribute(i, code) ==
    /\ Len(attributes) < MaxAttributes
    /\ i \in Live(types)
    /\ \A a \in DOMAIN attributes : attributes[a].type # i \/ attributes[a].code # code
    /\ attributes' = Append(attributes, [type |-> i, code |-> code, status |-> "active"])
    /\ UNCHANGED <<types, updating, vehicles, components, counted, reading>>

\* Read again among the active rows: anything but activation is told an error.
UpdateAttribute(a, status) ==
    /\ a \in Live(attributes) /\ attributes' = [attributes EXCEPT ![a].status = status]
    /\ UNCHANGED <<types, updating, vehicles, components, counted, reading>>

-----------------------------------------------------------------------------
VehicleTypes == {i \in Active(types) : types[i].category = "vehicle"}

\* The vehicle, a profile for every active system and the values, in one
\* transaction.  An attribute of a value only has to be there.
CreateVehicle(code, values) ==
    /\ VehicleTypes # {}
    /\ \A v \in DOMAIN vehicles : vehicles[v].code # code
    /\ values \subseteq DOMAIN attributes
    /\ vehicles' = Append(vehicles, [code |-> code, values |-> values, profiles |-> Systems])
    /\ UNCHANGED <<types, updating, attributes, components, counted, reading>>

\* A bug: the system is not asked to be active, nor to be the type's.
MayPlaceAnywhere(v, sys, i) == v \in DOMAIN vehicles /\ i \in Active(types) /\ types[i].category = "component"

\* A type may be placed in the system component_entity_system has for it.
MayPlace(v, sys, i) ==
    /\ v \in DOMAIN vehicles /\ sys \in Systems
    /\ i \in Active(types) /\ types[i].category = "component" /\ types[i].system = sys

CreateComponent(v, sys, i, code) ==
    /\ Len(components) < MaxComponents
    /\ MayPlace(v, sys, i)
    /\ \A c \in DOMAIN components : components[c].vehicle # v \/ components[c].code # code
    /\ components' = Append(components, [vehicle |-> v, system |-> sys, type |-> i, code |-> code])
    /\ UNCHANGED <<types, updating, attributes, vehicles, counted, reading>>

-----------------------------------------------------------------------------
\* search_vehicles counts the sources once a minute.
SearchVehicles ==
    /\ counted' = IF counted = -1 THEN Len(vehicles) ELSE counted
    /\ UNCHANGED <<types, updating, attributes, vehicles, components, reading>>
ExpireCounts == counted' = -1 /\ UNCHANGED <<types, updating, attributes, vehicles, components, reading>>

Profiles == {p \in (DOMAIN vehicles) \X (Systems \cup Retired) : p[2] \in vehicles[p[1]].profiles}

(* build_tree reads the vehicles, then the profiles, then the components;  *)
(* _projected_items reads the vehicles and then the components.  Each is a *)
(* transaction of its own.                                                 *)
ReadVehicles(of) ==
    /\ reading.at \in {"idle", "done"}
    /\ reading' = [NoReading EXCEPT !.of = of, !.at = IF of = "tree" THEN "profiles" ELSE "components",
                                    !.vehicles = DOMAIN vehicles, !.before = DOMAIN components]
    /\ UNCHANGED <<types, updating, attributes, vehicles, components, counted>>
ReadProfiles ==
    /\ reading.at = "profiles" /\ reading' = [reading EXCEPT !.at = "components", !.profiles = Profiles]
    /\ UNCHANGED <<types, updating, attributes, vehicles, components, counted>>
ReadComponents ==
    /\ reading.at = "components" /\ reading' = [reading EXCEPT !.at = "done", !.components = DOMAIN components]
    /\ UNCHANGED <<types, updating, attributes, vehicles, components, counted>>

TreeProfiles == {p \in reading.profiles : p[1] \in reading.vehicles}
TreeComponents == {c \in reading.components : <<components[c].vehicle, components[c].system>> \in TreeProfiles}

\* build_lazy_tree reads a profile and its components in one transaction.
LazySystemChildren(v, s) ==
    IF <<v, s>> \in Profiles THEN {c \in DOMAIN components : components[c].vehicle = v /\ components[c].system = s} ELSE {}

\* A component whose vehicle was not read is shown in the evidence without it.
Unattached == {c \in reading.components : components[c].vehicle \notin reading.vehicles}

-----------------------------------------------------------------------------
CatalogNext ==
    \/ \E code \in TypeCodes, order \in Orders, sys \in Systems \cup {NoSystem} : InsertEntityType(code, order, sys)
    \/ \E i \in DOMAIN types, status \in {"active", "lost"} : EndInsertion(i, status)
    \/ \E i \in Updatable : CheckEntityType(i)
    \/ \E i \in Updatable, status \in {"active", "inactive", "deleted"}, sys \in Systems \cup {NoSystem} :
         UpdateEntityType(i, status, sys)
    \/ \E i \in DOMAIN types, code \in AttributeCodes : CreateAttribute(i, code)
    \/ \E a \in DOMAIN attributes, status \in {"active", "inactive", "deleted"} : UpdateAttribute(a, status)
    \/ \E code \in VehicleCodes, values \in SUBSET {1} : CreateVehicle(code, values)
    \/ \E v \in DOMAIN vehicles, sys \in Systems \cup Retired, i \in DOMAIN types, code \in PartCodes : CreateComponent(v, sys, i, code)
    \/ SearchVehicles \/ ExpireCounts
    \/ \E of \in {"tree", "evidence"} : ReadVehicles(of)
    \/ ReadProfiles \/ ReadComponents

CatalogSpec == CatalogInit /\ [][CatalogNext]_catalogvars

-----------------------------------------------------------------------------
CatalogTypeOK ==
    /\ \A i \in DOMAIN types : types[i] \in [category : {"vehicle", "component"}, code : TypeCodes \cup {"vehicle", "arm"}, order : Nat,
        system : Systems \cup {NoSystem}, status : {"pending", "lost", "active", "inactive", "deleted"}]
    /\ updating \in [Updatable -> 0 .. MaxUpdates]
    /\ \A a \in DOMAIN attributes : attributes[a].type \in DOMAIN types
    /\ \A v \in DOMAIN vehicles : vehicles[v].values \subseteq DOMAIN attributes
    /\ \A c \in DOMAIN components : components[c].vehicle \in DOMAIN vehicles /\ components[c].type \in DOMAIN types
    /\ counted \in -1 .. Len(vehicles)
    /\ reading.at \in {"idle", "profiles", "components", "done"}

\* What is read in several transactions is whole: a tree shows no vehicle
\* without its systems, and every component that was there when its reading
\* began; evidence shows such a component with its vehicle.
ReadingsWhole ==
    reading.at = "done" =>
        /\ reading.of = "tree" =>
             /\ \A v \in reading.vehicles, s \in Systems : <<v, s>> \in TreeProfiles
             /\ reading.before \subseteq TreeComponents
             /\ \A c \in reading.before : c \in LazySystemChildren(components[c].vehicle, components[c].system)
        /\ reading.of = "evidence" => Unattached \cap reading.before = {}
=============================================================================
