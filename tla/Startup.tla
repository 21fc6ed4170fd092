-------------------------------- MODULE Startup --------------------------------
(***************************************************************************)
(* What a start reads, side by side: the database schema (Migrations, whose *)
(* names stand for themselves) and the configuration. They share no state,  *)
(* so one moves while the other rests where it starts.                      *)
(***************************************************************************)
EXTENDS Migrations

CONSTANTS N, Texts, Bad, Empty, Absent, Removals, AllDirs, MaxWrites   \* ConfigManager

VARIABLES
  moving,    \* "schema" or "config", the one that does
  dirs, disk, filling, writes, note, token, pc, got, inForce, untold, watched

Conf == INSTANCE ConfigManager

ASSUME StartupAssumption == Conf!ConfigAssumption

schemaVars == vars
confVars == <<dirs, disk, filling, writes, note, token, pc, got, inForce, untold, watched>>
allVars == <<moving, schemaVars, confVars>>

AllInit ==
  /\ moving \in {"schema", "config"}
  /\ Init /\ Conf!Init
  /\ moving = "config" \/ (dirs = Conf!Paths /\ disk = Conf!Defaults)

AllNext ==
  \/ moving = "schema" /\ Next /\ UNCHANGED <<moving, confVars>>
  \/ moving = "config" /\ Conf!Next /\ UNCHANGED <<moving, schemaVars>>

(* The fairness of ConfigManager!FairSpec; no property of the schema needs *)
(* any.                                                                    *)
Fairness ==
  /\ WF_confVars(moving = "config" /\ Conf!Manager)
  /\ WF_confVars(moving = "config" /\ Conf!Deliver)
  /\ \A p \in Conf!Paths : WF_confVars(moving = "config" /\ Conf!Fill(p))

AllSpec == AllInit /\ [][AllNext]_allVars /\ Fairness

-----------------------------------------------------------------------------
(* Both parts' state has its type; what is in force of the configuration   *)
(* is one whole successful load.                                           *)
AllTyped == TypeOK /\ Conf!TypeOK

(* No notified change of a configuration file is lost.                     *)
QuietIsCurrent == Conf!QuietIsCurrent

(* Files left alone come into force.                                       *)
ChangesTakeEffect == Conf!ChangesTakeEffect

=============================================================================
