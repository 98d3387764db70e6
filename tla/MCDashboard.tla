---------------------------- MODULE MCDashboard ----------------------------
(* Instances of Dashboard for TLC. The pool, the page and the alarms share *)
(* nothing but the clock, the source and the bus in front of them: one of  *)
(* them runs, the threads of the others stand still and their queues fill. *)
(* Each meets what it reads: the pool a wall clock that moves and is set   *)
(* back, the alarms samples that are fast.                                 *)
EXTENDS Dashboard

VARIABLE side

sideVars == <<vars, side>>

SourcesOf == [pool  |-> {"openShm", "openCan"},
              page  |-> {"openCan"},
              alarm |-> {"generator"}]

SideInit ==
  /\ Init
  /\ side \in {"pool", "page", "alarm"}
  /\ source \in SourcesOf[side]
  /\ wall = IF side = "pool" THEN FirstStamp ELSE FirstStamp + MaxWall

SideSource == Source /\ (side = "alarm" \/ \A k \in DOMAIN samples' : ~samples'[k].fast)

SideNext ==
  /\ UNCHANGED side
  /\ \/ Tick
     \/ SideSource
     \/ side = "pool" /\ (SetClockBack \/ Consumer \/ HttpGet)
     \/ side # "pool" /\ Dispatch
     \/ side = "page" /\ PageStep
     \/ side = "alarm" /\ AlarmConsume

SideFairness ==
  /\ WF_sideVars(Tick /\ UNCHANGED side)
  /\ WF_sideVars(Publish /\ UNCHANGED side)
  /\ WF_sideVars(side = "pool" /\ Consumer /\ UNCHANGED side)
  /\ WF_sideVars(side # "pool" /\ Dispatch /\ UNCHANGED side)
  /\ WF_sideVars(side = "page" /\ (WsConsume \/ WsTimeout \/ WsCheck) /\ UNCHANGED side)
  /\ WF_sideVars(side = "page" /\ Broadcast /\ UNCHANGED side)
  /\ WF_sideVars(side = "alarm" /\ AlarmConsume /\ UNCHANGED side)

SideSpec == SideInit /\ [][SideNext]_sideVars /\ SideFairness

----------------------------------------------------------------------------
(* Once the source falls silent the views settle on what was taken last    *)
(* (data_pool.hpp:50, main.cpp:311) and stay there, and alarm_q empties:   *)
(* see PoolSettled and PageSettled.                                        *)
ViewsCatchUp ==
  <>[]CASE side = "pool"  -> PoolSettled
        [] side = "page"  -> PageSettled
        [] side = "alarm" -> alarmQueue = <<>>
=============================================================================
