--------------------------- MODULE MCEmailWorker ----------------------------
(* Small instances of EmailWorker for TLC, with the delays of the code.    *)
EXTENDS EmailWorker

CONSTANTS j1, s1

Delays == <<5, 15, 45>>

\* The settings of the code are ones that OnlyStallsCutOff is proved for.
ASSUME SettingsAssumption == SettingsFit

=============================================================================
