--------------------------- MODULE MCVenueFaults ---------------------------
(***************************************************************************)
(* The coordinator against two kinds of venues: as hostile as the          *)
(* constants make them, or calm, with accounts that show an execution at   *)
(* once and reports only on orders that have ended.                        *)
(***************************************************************************)
EXTENDS PairCoordinator, TLC

VARIABLE calm

Calm == INSTANCE PairCoordinator WITH AccountsLag <- FALSE, LateFills <- FALSE

MCInit == calm \in BOOLEAN /\ Init
HostileStep == ~calm /\ Next /\ UNCHANGED calm
CalmStep    == calm /\ Calm!Next /\ UNCHANGED calm
MCNext == HostileStep \/ CalmStep
MCSpec == MCInit /\ [][MCNext]_<<vars, calm>>

\* With calm venues a finished unwind of a filled CCF leg puts both brokers
\* back where they were (_leg_moved_at_broker, _handle_exposure_breach).
CalmUnwindRestoresPair == calm => UnwindRestoresPair
=============================================================================
