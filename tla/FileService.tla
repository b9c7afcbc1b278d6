------------------------------ MODULE FileService ------------------------------
(***************************************************************************)
(* What the FileWriter half of the driver promises to controlTask, and     *)
(* nothing about how: a request names the files of one acquisition and     *)
(* what has to be done with each; the obligations are discharged in any    *)
(* order; the service reports once, and what it leaves open when it        *)
(* reports is the tail of the list that never appeared on the detector.    *)
(***************************************************************************)
EXTENDS Naturals

CONSTANT MaxData        \* largest number of data files of one acquisition

VARIABLES phase,        \* where the request stands
          asked,        \* obligations of the request: <<file, "parse" | "save">>
          todo,         \* the obligations still open
          complete      \* the report: was the whole list found?

serviceVars == <<phase, asked, todo, complete>>

Files == 0 .. MaxData           \* 0 is the master file, n the n-th data file
Obligations == Files \X {"parse", "save"}

(* The obligations of file c and of every later file. *)
From(c) == {o \in asked : o[1] >= c}

ServiceInit ==
    /\ phase = "idle"
    /\ asked = {}
    /\ todo = {}
    /\ complete = FALSE

Request ==
    /\ phase = "idle"
    /\ asked' \in SUBSET Obligations
    /\ todo' = asked'
    /\ UNCHANGED complete
    /\ phase' = "busy"

Stop ==
    /\ phase = "busy"
    /\ phase' = "stopping"
    /\ UNCHANGED <<asked, todo, complete>>

Discharge ==
    /\ phase \in {"busy", "stopping"}
    /\ todo' \in SUBSET todo
    /\ todo' # todo
    /\ UNCHANGED <<phase, asked, complete>>

Report ==
    /\ phase \in {"busy", "stopping"}
    /\ phase' = "done"
    /\ \E c \in 0 .. MaxData + 1 : todo = From(c)
    /\ complete' \in BOOLEAN
    /\ complete' => todo = {}
    /\ UNCHANGED <<asked, todo>>

(* The report is collected and the request forgotten. *)
Collect ==
    /\ phase = "done"
    /\ phase' = "idle"
    /\ asked' = {} /\ todo' = {} /\ complete' = FALSE

ServiceNext == Request \/ Stop \/ Discharge \/ Report \/ Collect

(* Once asked to stop, the service does not sit still. *)
ServiceProgress == phase = "stopping" /\ (Discharge \/ Report)

ServiceSpec ==
    /\ ServiceInit
    /\ [][ServiceNext]_serviceVars
    /\ WF_serviceVars(ServiceProgress)
=============================================================================
