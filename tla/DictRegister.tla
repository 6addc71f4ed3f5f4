---------------------------- MODULE DictRegister ----------------------------
(***************************************************************************)
(* What the adaptive dictionary manager promises to the engine, without    *)
(* its locks, tasks and trainings: a register whose value is replaced by   *)
(* numbered versions, 1, 2, 3, ..., of which the last Keep stay readable   *)
(* and never change while they are.                                        *)
(***************************************************************************)
EXTENDS Integers

CONSTANTS Dicts,    \* contents of trained dictionaries
          Keep      \* how many versions stay readable

VARIABLES latest,   \* number of the newest version, 0 before the first
          archive   \* the readable versions: number -> contents

regVars == <<latest, archive>>

\* The numbers of the versions that are readable once n versions exist.
Window(n) == {v \in 1..n : v > n - Keep}

RegInit == latest = 0 /\ archive = [v \in {} |-> v]

\* A new version is published, and the one that leaves the window is gone.
Publish(d) ==
  /\ latest' = latest + 1
  /\ archive' = [v \in Window(latest + 1) |->
                   IF v = latest + 1 THEN d ELSE archive[v]]

RegNext == \E d \in Dicts : Publish(d)

RegSpec == RegInit /\ [][RegNext]_regVars
=============================================================================
