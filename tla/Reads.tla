-------------------------------- MODULE Reads ---------------------------------
(***************************************************************************)
(* What the workers do around a tool's read: the read itself (ReadPath)    *)
(* and its count (UsageRecorder).  They share no state.                    *)
(***************************************************************************)
EXTENDS ReadPath

CONSTANTS Recorders, Users, FlushEvery, RetentionDays, EndTick, EndDay, MaxCount

VARIABLES tick, day, users, stored, stage, stopping, wake, counts, pending, lastPurge,
          oldest, carried, recorded, lost, removed, purges, lossAge

Usage == INSTANCE UsageRecorder
            WITH Workers <- Recorders, LastTick <- EndTick, LastDay <- EndDay, pc <- stage

ASSUME UsageAssumption == Usage!Parameters

\* The types of both; of the memo also its bound, of the archive its rows.
ReadTypeOK == TypeOK /\ Usage!TypeOK

\* UsageRecorder: no order of flushes, failures and restarts loses a count for no cause
\* or counts one twice.
EveryCountIsSomewhere == Usage!EveryCountIsSomewhere
=============================================================================
