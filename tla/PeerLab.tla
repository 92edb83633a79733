------------------------------ MODULE PeerLab ------------------------------
(***************************************************************************)
(* A lab works with one of the tool chains of the peer mesh at a time: the *)
(* round simulator, the file-drop tools, the report pipeline or the chain  *)
(* around private evidence.  The chains share no file, so while one runs   *)
(* the files of the others stay as they are.                               *)
(***************************************************************************)
EXTENDS PeerRound, PeerFileDrop, PeerReports, PeerPrivateChain

VARIABLE session

labVars == <<session, roundVars, dropVars, reportVars, chainVars>>

\* The chains that are not worked with, in some initial state.
RoundAtRest == scenario = (CHOOSE s \in Scenarios : TRUE) /\ RoundInit
DropAtRest == /\ plan = CHOOSE p \in InitialPlans : TRUE
              /\ routes = CHOOSE r \in InitialRoutes : TRUE
              /\ DropInit
ReportsAtRest == /\ lab = CHOOSE l \in Labs : TRUE
                 /\ route_status = CHOOSE r \in FirstRoutes : TRUE
                 /\ ReportsInit
ChainAtRest == review = "blocked" /\ package = "blocked" /\ ChainInit

PeerLabInit ==
  \/ session = "round" /\ RoundInit /\ DropAtRest /\ ReportsAtRest /\ ChainAtRest
  \/ session = "file drop" /\ RoundAtRest /\ DropInit /\ ReportsAtRest /\ ChainAtRest
  \/ session = "reports" /\ RoundAtRest /\ DropAtRest /\ ReportsInit /\ ChainAtRest
  \/ session = "private run" /\ RoundAtRest /\ DropAtRest /\ ReportsAtRest /\ ChainInit

PeerLabNext ==
  /\ UNCHANGED session
  /\ \/ session = "round" /\ RoundNext /\ UNCHANGED <<dropVars, reportVars, chainVars>>
     \/ session = "file drop" /\ DropNext /\ UNCHANGED <<roundVars, reportVars, chainVars>>
     \/ session = "reports" /\ ReportsNext /\ UNCHANGED <<roundVars, dropVars, chainVars>>
     \/ session = "private run" /\ ChainNext /\ UNCHANGED <<roundVars, dropVars, reportVars>>

PeerLabSpec == PeerLabInit /\ [][PeerLabNext]_labVars
=============================================================================
