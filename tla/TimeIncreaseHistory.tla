------------------------ MODULE TimeIncreaseHistory ------------------------
(***************************************************************************)
(* TimeManager with a history of the evm_increaseTime calls that no        *)
(* committed block has taken into account yet.  The behaviours are those   *)
(* of TimeManager in which nobody resets the clock.                        *)
(***************************************************************************)
EXTENDS TimeManager

VARIABLES
    owed,      \* seconds of evm_increaseTime not yet in a committed block
    captured   \* the part of owed that the candidate was prepared with

historyVars == <<vars, owed, captured>>

HistoryInit == Init /\ owed = 0 /\ captured = 0

HistoryNext ==
    \/ \E s \in Increments :
          IncreaseTime(s) /\ owed' = owed + s /\ UNCHANGED captured
    \/ \E m \in Miners : Prepare(m) /\ captured' = owed /\ UNCHANGED owed
    \/ \E m \in Miners :
          Commit(m) /\ owed' = owed - captured /\ captured' = 0
    \/ \E m \in Miners :
          /\ \/ \E s \in Increments \cup {None} : BeginMine(m, s)
             \/ RevertIncrease(m)
          /\ UNCHANGED <<owed, captured>>
    \/ \E m \in Miners : Fail(m) /\ captured' = 0 /\ UNCHANGED owed

HistorySpec == HistoryInit /\ [][HistoryNext]_historyVars

(* "Explicit increases not yet committed, separate from the wall-clock     *)
(* offset." (time.rs:18, of time_increase): while no candidate is in       *)
(* flight, an evm_increaseTime that no block has consumed is in it.        *)
IncreaseNotLost == mining = None => timeIncrease >= owed
=============================================================================
