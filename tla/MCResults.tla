------------------------------- MODULE MCResults -------------------------------
(***************************************************************************)
(* What is left of a run when it is over: the rows and the summary the     *)
(* processor makes of the packets, what the functions without a state      *)
(* compute, and the files in the run folder.  These share no variable, so  *)
(* a behaviour is one of one of them, and their states add up.             *)
(*                                                                         *)
(* Command lines and files set a few members, numbers beyond their width   *)
(* and names that are not known among them.  Of two receivers and a sender *)
(* the second receiver writes less than the others.                        *)
(***************************************************************************)
EXTENDS ProcessorSummary, PureFunctions, RunFolder, TLC

CONSTANT Second   \* the second receiver

VARIABLE part     \* whose behaviour it is

resultsVars == <<part, vars, callVars, folderVars>>

ResultsInit ==
  /\ part \in {"processor", "functions", "folder"}
  /\ Init /\ NoCall /\ FolderInit

Processing == part = "processor" /\ Next /\ UNCHANGED <<part, callVars, folderVars>>
Calling == part = "functions" /\ CallFunction /\ UNCHANGED <<part, vars, folderVars>>
Filing == part = "folder" /\ FolderNext /\ UNCHANGED <<part, vars, callVars>>

ResultsSpec == ResultsInit /\ [][Processing \/ Calling \/ Filing]_resultsVars

-----------------------------------------------------------------------------
MCNumbers == {-4, 3, 4}   \* the ends of the signed range and one beyond

MCKeys == <<"a", "b", "c">>

MCSettings ==
  {a @@ b @@ m :
     a \in {Unset} \cup {"port" :> v : v \in {0, 1, PortRange, PortRange + 1}}
             \cup {"duration_s" :> v : v \in {0, 1, CountRange + 2}},
     b \in {Unset} \cup {"serializer" :> s : s \in {"none", "cbor", "xml"}}
             \cup {"zmq_topic" :> "t"} \cup {"payload_format" :> "yaml"},
     m \in {Unset} \cup {"metadata" :> (k :> "v") : k \in {"x", "y"}}}

MCBlocks == [p \in Processes |-> IF p = Second THEN 1 ELSE 2]
MCSummaryBlocks == [r \in Receivers |-> IF r = Second THEN 1 ELSE 2]
===============================================================================
