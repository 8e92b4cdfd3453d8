---------------------------- MODULE MCActiveWindow ----------------------------
(***************************************************************************)
(* Instances of ActiveWindow for TLC: schedules that fire periodically, as *)
(* a daily or weekly cron schedule does, listed far enough past the clock's*)
(* bound that each fires again.                                            *)
(***************************************************************************)
EXTENDS ActiveWindow

Horizon == MaxTime + 4
Every(period, offset) == {t \in 0..Horizon : t % period = offset}

(* Two windows that open and close at different times of the same cycle;   *)
(* on a cluster older than one cycle Night's closings exceed MaxMissed = 1 *)
(* before its openings do.  Halfway closes by a schedule that does not     *)
(* parse.                                                                  *)
Night   == [from |-> "at0", to |-> "at1"]
Morning == [from |-> "at2", to |-> "at3"]
Halfway == [from |-> "at2", to |-> "unparseable"]
MCActivations == [s \in {"at0", "at1", "at2", "at3"} |->
                    CASE s = "at0" -> Every(4, 0) [] s = "at1" -> Every(4, 1)
                      [] s = "at2" -> Every(4, 2) [] s = "at3" -> Every(4, 3)]
AllWindows == {Night, Morning, Halfway}

OneWindow == {Morning}
===============================================================================
