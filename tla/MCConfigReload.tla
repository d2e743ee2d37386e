--------------------------- MODULE MCConfigReload ---------------------------
(* ConfigReload for TLC: two sessions, two keys, a control that is short   *)
(* and one that runs an application.                                       *)
EXTENDS ConfigReload
CONSTANTS c1, c2
MCDigits == {1, 2}
MCQuick == {<<1, 2>>}
MCApps == {<<2, 2>>}
=============================================================================
