------------------------- MODULE MCSecurityMonitoring -------------------------
(***************************************************************************)
(* A process of the timer and one without a limit of time, a configuration *)
(* of one asset or of two, and rows of an earlier configuration.  An hour  *)
(* has three ticks, the timer's run lasts at most one, and a lock is stale *)
(* after more than one.                                                    *)
(***************************************************************************)
EXTENDS SecurityMonitoring

CONSTANTS p1, p2, a1, a2, old

MCProc == {p1, p2}
MCAsset == {a1, a2, old}
MCLeftover == {a1, old}
MCInventory == <<a1>>
MCTwoAssets == <<a1, a2>>
MCPeriod == <<"daily">>
MCWindowStart == <<1, 0, 0>>
MCTimed == {p1}
================================================================================
