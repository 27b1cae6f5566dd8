--------------------------- MODULE MCConversion ---------------------------
(***************************************************************************)
(* Five parts of the conversion of a document side by side.  They share no *)
(* state, so a behaviour follows one of them, its focus, and the others    *)
(* stay at their initial states.                                           *)
(***************************************************************************)
EXTENDS Reflow, Sections, Tables, Pictures, Charts

VARIABLE focus

conversionVars == <<focus, reflowVars, sectionVars, tableVars, picVars, chartVars>>

\* A figure between two images, the first of which is shown again.
MCReferences == <<[path |-> "p1"], [figure |-> "f1"], [path |-> "p2"], [path |-> "p1"]>>
MCTenths == {-26, 0, 5, 70}

ConversionInit ==
    /\ focus \in {"reflow", "sections", "tables", "pictures", "charts"}
    /\ ReflowInit /\ SectionsInit /\ TablesInit /\ PicturesInit /\ ChartsInit
    /\ focus # "reflow" => indent = 0
    /\ focus # "sections" => front = ""
    /\ focus # "pictures" => inbox = Unprocessed

ConversionNext ==
    \/ /\ focus = "reflow" /\ ReflowNext
       /\ UNCHANGED <<focus, sectionVars, tableVars, picVars, chartVars>>
    \/ /\ focus = "sections" /\ SectionsNext
       /\ UNCHANGED <<focus, reflowVars, tableVars, picVars, chartVars>>
    \/ /\ focus = "tables" /\ TablesNext
       /\ UNCHANGED <<focus, reflowVars, sectionVars, picVars, chartVars>>
    \/ /\ focus = "pictures" /\ PicturesNext
       /\ UNCHANGED <<focus, reflowVars, sectionVars, tableVars, chartVars>>
    \/ /\ focus = "charts" /\ ChartsNext
       /\ UNCHANGED <<focus, reflowVars, sectionVars, tableVars, picVars>>

ConversionSpec == ConversionInit /\ [][ConversionNext]_conversionVars

(* Every part keeps to its types. *)
ConversionTypeOK ==
    ReflowTypeOK /\ SectionsTypeOK /\ TablesTypeOK /\ PicturesTypeOK /\ ChartsTypeOK
=============================================================================
