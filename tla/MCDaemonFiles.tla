---------------------------- MODULE MCDaemonFiles ----------------------------
(***************************************************************************)
(* Settings and DaemonStart for TLC, side by side: a behaviour is one of   *)
(* the one or of the other, as part says.                                  *)
(***************************************************************************)
EXTENDS Settings, DaemonStart, TLC

VARIABLE part

ThreeValues == {"usual", "other", "refused"}
OneRefused == {"refused"}
TwoStarts == 1..2
Versions == <<1, 2>>
OneKey == {"font"}
UsualOne == [k \in OneKey |-> "usual"]

MCInit ==
    /\ Unloaded /\ Init
    /\ \/ part = "settings" /\ daemon = "off"
       \/ part = "start" /\ daemon = "absent"

MCNext ==
    \/ part = "settings" /\ SettingsNext /\ UNCHANGED vars /\ UNCHANGED part
    \/ part = "start" /\ Next /\ UNCHANGED settingsVars /\ UNCHANGED part

MCSpec == MCInit /\ [][MCNext]_<<settingsVars, vars, part>> /\ SettingsFairness /\ Fairness
=============================================================================
