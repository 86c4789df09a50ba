------------------------------ MODULE Datasets ------------------------------
(***************************************************************************)
(* The pool of images, their annotations and the training archives, in     *)
(* MySQL.  The row locks are those of InnoDB: an INSERT shares the lock of *)
(* the rows its foreign keys name, an UPDATE wants it alone.               *)
(***************************************************************************)
EXTENDS Catalog, Ordering

CONSTANTS
    Annotators,     \* requests that annotate
    Uploads,        \* whether an uploaded image can be decoded
    MaxImages, MaxAnnotations, MaxArchives      \* bounds

VARIABLES
    images,         \* rows of dataset_image
    annotations,    \* rows of dataset_annotation
    labelling,      \* annotator -> its transaction
    exporting,      \* an export that is under way
    archives        \* the exports that were built (history)

datasetvars == <<images, annotations, labelling, exporting, archives>>

NoLabelling == [at |-> "idle", image |-> 0, type |-> 0, count |-> 0]
NoExport == [format |-> "none", at |-> "idle", classes |-> <<>>, unlisted |-> {}, images |-> {}]

DatasetInit ==
    /\ images = <<[status |-> "unlabeled", count |-> 0, split |-> "val", opens |-> TRUE]>>
    /\ annotations = <<>>
    /\ labelling = [c \in Annotators |-> NoLabelling]
    /\ exporting = NoExport /\ archives = <<>>

-----------------------------------------------------------------------------
CreateImage(opens) ==
    /\ Len(images) < MaxImages
    /\ images' = Append(images, [status |-> "unlabeled", count |-> 0, split |-> "unassigned", opens |-> opens])
    /\ UNCHANGED <<annotations, labelling, exporting, archives>>

AnnotationsOf(m) == {a \in DOMAIN annotations : annotations[a].image = m}
Holders(m, ats) == {c \in Annotators : labelling[c].image = m /\ labelling[c].at \in ats}

\* create_annotation of a valid geometry, up to its INSERT.
InsertAnnotation(c, m, i) ==
    /\ labelling[c].at = "idle" /\ Len(annotations) + Cardinality(Holders(m, {"inserted"})) < MaxAnnotations
    /\ m \in DOMAIN images
    /\ i \in Active(types) /\ types[i].category = "component"
    /\ Holders(m, {"counted"}) = {}
    /\ labelling' = [labelling EXCEPT ![c] = [at |-> "inserted", image |-> m, type |-> i, count |-> 0]]
    /\ UNCHANGED <<images, annotations, exporting, archives>>

\* A bug: the number is read and written by two statements.
RecountUnlocked(c) ==
    /\ labelling[c].at = "inserted"
    /\ labelling' = [labelling EXCEPT ![c].at = "counted", ![c].count = Cardinality(AnnotationsOf(labelling[c].image)) + 1]
    /\ UNCHANGED <<images, annotations, exporting, archives>>

\* The UPDATE with its subselect waits until it has the image alone.
Recount(c) ==
    /\ labelling[c].at = "inserted"
    /\ Holders(labelling[c].image, {"inserted", "counted"}) = {c}
    /\ labelling' = [labelling EXCEPT ![c].at = "counted", ![c].count = Cardinality(AnnotationsOf(labelling[c].image)) + 1]
    /\ UNCHANGED <<images, annotations, exporting, archives>>

\* Two that have inserted wait for each other: InnoDB rolls one back.
Deadlocked(c) ==
    /\ labelling[c].at = "inserted"
    /\ Holders(labelling[c].image, {"inserted"}) # {c}
    /\ labelling' = [labelling EXCEPT ![c] = NoLabelling]
    /\ UNCHANGED <<images, annotations, exporting, archives>>

CommitAnnotation(c) ==
    LET l == labelling[c] IN
    /\ l.at = "counted"
    /\ annotations' = Append(annotations, [image |-> l.image, type |-> l.type])
    /\ images' = [images EXCEPT ![l.image].count = l.count,
                                ![l.image].status = IF @ = "unlabeled" THEN "labeling" ELSE @]
    /\ labelling' = [labelling EXCEPT ![c] = NoLabelling]
    /\ UNCHANGED <<exporting, archives>>

-----------------------------------------------------------------------------
\* export_plan lists the classes as list_entity_types does.
InListOrder(i, j) == types[i].order < types[j].order \/ (types[i].order = types[j].order /\ i < j)
PlannedClasses == SetToSortSeq(ListEntityTypes("component"), InListOrder)

\* A bug: the archive takes the order of the plan.
ExportClassesAsPlanned == PlannedClasses

\* The class ids of an archive are positions in the order of the type ids.
ExportClasses == InOrder(ListEntityTypes("component"))

\* Types that may be listed later: not committed yet, or deleted (a history).
Unlisted == {i \in DOMAIN types : types[i].status \in {"pending", "deleted"}}

SplitOf(m) == IF images[m].split \in {"train", "val", "test"} THEN images[m].split ELSE "train"

ReadClasses(format) ==
    /\ exporting.at = "idle" /\ Len(archives) < MaxArchives
    /\ exporting' = [format |-> format, at |-> "images", classes |-> ExportClasses,
                     unlisted |-> Unlisted, images |-> {}]
    /\ UNCHANGED <<images, annotations, labelling, archives>>
ReadImages ==
    /\ exporting.at = "images"
    /\ exporting' = [exporting EXCEPT !.at = "annotations", !.images = DOMAIN images]
    /\ UNCHANGED <<images, annotations, labelling, archives>>

ClassId(i) == (CHOOSE k \in DOMAIN exporting.classes : exporting.classes[k] = i) - 1
Labels(m) == {<<m, ClassId(annotations[a].type)>> :
                a \in {b \in AnnotationsOf(m) : annotations[b].type \in ToSet(exporting.classes)}}

\* An image is in a YOLO archive as soon as it opens and has an annotation, and
\* its label file only if one of the annotations has a class; a COCO archive
\* has every image that opens.
YoloTakes(m) == images[m].opens /\ AnnotationsOf(m) # {}
CocoTakes(m) == images[m].opens

BuildArchive ==
    LET taken == {m \in exporting.images : IF exporting.format = "yolo" THEN YoloTakes(m) ELSE CocoTakes(m)} IN
    /\ exporting.at = "annotations"
    /\ archives' = Append(archives, [format |-> exporting.format, classes |-> exporting.classes,
                                     unlisted |-> exporting.unlisted,
                                     images |-> {<<m, SplitOf(m)>> : m \in taken},
                                     labels |-> UNION {Labels(m) : m \in taken}])
    /\ exporting' = NoExport
    /\ UNCHANGED <<images, annotations, labelling>>

-----------------------------------------------------------------------------
DatasetNext ==
    \/ /\ \/ \E opens \in Uploads : CreateImage(opens)
          \/ \E c \in Annotators, m \in DOMAIN images, i \in DOMAIN types : InsertAnnotation(c, m, i)
          \/ \E c \in Annotators : Recount(c) \/ Deadlocked(c) \/ CommitAnnotation(c)
          \/ \E format \in {"yolo", "coco"} : ReadClasses(format)
          \/ ReadImages \/ BuildArchive
       /\ UNCHANGED catalogvars
    \/ /\ \/ \E code \in TypeCodes, order \in Orders : InsertEntityType(code, order, NoSystem)
          \/ \E i \in DOMAIN types, status \in {"active", "lost"} : EndInsertion(i, status)
          \/ \E i \in Updatable : CheckEntityType(i)
          \/ \E i \in Updatable, status \in {"active", "deleted"} : UpdateEntityType(i, status, types[i].system)
       /\ UNCHANGED datasetvars

DatasetSpec == CatalogInit /\ DatasetInit /\ [][DatasetNext]_<<catalogvars, datasetvars>>

-----------------------------------------------------------------------------
DatasetTypeOK ==
    /\ \A m \in DOMAIN images : images[m].status \in {"unlabeled", "labeling"} /\ images[m].count \in 0 .. MaxAnnotations
    /\ \A a \in DOMAIN annotations : annotations[a].image \in DOMAIN images /\ annotations[a].type \in DOMAIN types
    /\ \A c \in Annotators : labelling[c].at \in {"idle", "inserted", "counted"}
    /\ exporting.at \in {"idle", "images", "annotations"} /\ Len(archives) <= MaxArchives

\* However the requests of annotators interleave, an image has as many objects
\* as annotations, and it is unlabeled exactly as long as it has none.
CountsExact ==
    \A m \in DOMAIN images :
        /\ images[m].count = Cardinality(AnnotationsOf(m))
        /\ images[m].status = "unlabeled" <=> AnnotationsOf(m) = {}

\* Between two exports the class ids move only if a type of the first was
\* deleted, or one came up that had been deleted or was not committed at the
\* first: an insertion that took its id before and was committed after it, or
\* an overlapping update that brought the type back.  If none did, labels of
\* both can train one model.
KeepsAll(archive, classes) == ToSet(classes) \subseteq ToSet(archive.classes)
NoneCameUp(archive, unlisted) == ToSet(archive.classes) \cap unlisted = {}
ClassIdsFrozen ==
    \A e, f \in DOMAIN archives :
        e < f /\ KeepsAll(archives[f], archives[e].classes) /\ NoneCameUp(archives[f], archives[e].unlisted)
          => \A k \in DOMAIN archives[e].classes : archives[f].classes[k] = archives[e].classes[k]
=============================================================================
