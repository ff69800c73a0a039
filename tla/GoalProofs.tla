----------------------------- MODULE GoalProofs -----------------------------
(***************************************************************************)
(* GoalFollowsIndex holds for every plan, whatever the levels overtake.    *)
(* What a level that was not overtaken has set so far of a waypoint, and   *)
(* what it still holds in its registers, is one waypoint; and a goal that  *)
(* is good stays so while no level sets it.                                *)
(***************************************************************************)
EXTENDS MissionsProofs

(* Levels that leave the goal alone.                                       *)
Calm(l) == pc[l] \in {"idle", "output", "count", "item"}

OnGoal ==
  /\ navgoal.course = navgoal.point
  /\ behaviour = current_waypoint
  /\ current_waypoint = At(waypointIndex) \/ IsLive(current_waypoint)
  /\ navgoal.point \in {At(waypointIndex), current_waypoint}
  /\ waypointIndex < numPoints

(* No command is half way through, and the goal is good.                   *)
Undisturbed == ~spoiled /\ (Calm("cmd") \/ pc["cmd"] = "check")

(* What a level that was not overtaken has set so far.                     *)
UnderWay(l) ==
  /\ pc[l] = "live" => (Undisturbed => OnGoal)
  /\ pc[l] = "check" /\ l = "nav" /\ ~spoiled => reg[l].index < numPoints
  /\ pc[l] = "assign" => reg[l].index < numPoints
  /\ pc[l] = "fetch" => waypointIndex < numPoints
  /\ pc[l] \in {"point", "course", "flags"} =>
       \/ /\ reg[l].flags \in {"first", "current"}
          /\ reg[l].flags = "first" => waypointIndex = 0
          /\ waypointIndex < numPoints
          /\ current_waypoint = At(waypointIndex) /\ reg[l].to = At(waypointIndex)
       \/ /\ reg[l].flags = "live"
          /\ Undisturbed => waypointIndex < numPoints
          /\ IsLive(current_waypoint) /\ reg[l].to = current_waypoint
       \/ /\ reg[l].flags = "none" /\ pc[l] # "flags"
          /\ reg[l].to = At(waypointIndex)
          /\ Undisturbed =>
               /\ waypointIndex < numPoints /\ behaviour = current_waypoint
               /\ current_waypoint = At(waypointIndex) \/ IsLive(current_waypoint)
  /\ pc[l] \in {"course", "flags"} => navgoal.point = reg[l].to
  /\ pc[l] = "flags" => navgoal.course = reg[l].to

(* Which steps the levels take, and a command that was overtaken knows it. *)
StepsInv ==
  /\ pc["nav"] # "count" /\ pc["cmd"] \notin {"output", "live", "wrap"}
  /\ pc["cmd"] \in {"point", "course", "flags"} =>
       reg["cmd"].flags \in {"first", "current"}
  /\ ~Calm("nav") /\ ~Calm("cmd") => reg["cmd"].cut
  /\ GPS_steering \/ pc["nav"] = "live" => begun # "none"
  /\ numPoints = 0 => spoiled

GoalInv ==
  /\ begun # "none" /\ Undisturbed =>
       /\ Calm("nav") => OnGoal
       /\ pc["nav"] \in {"live", "wrap", "check"} /\ reg["nav"].cut => OnGoal
  /\ ~Calm("nav") /\ ~reg["nav"].cut => UnderWay("nav")
  /\ Calm("nav") /\ ~Calm("cmd") /\ ~reg["cmd"].cut => UnderWay("cmd")
-----------------------------------------------------------------------------

(* A step that moves no level half way through and leaves the goal alone.  *)
LEMMA GoalKept ==
  ASSUME GoalInv,
         UNCHANGED <<waypointIndex, goalVars, planVars, begun, spoiled, pc, reg>>
  PROVE  GoalInv'
BY DEF GoalInv, OnGoal, UnderWay, Undisturbed, Calm, At, goalVars, planVars

-----------------------------------------------------------------------------
(* A level goes on half way through: only what it has set so far counts.   *)
LEMMA GoesOn ==
  ASSUME NEW l \in Levels,
         pc'[l] \in {"assign", "fetch", "point", "course", "flags"},
         l = "cmd" => pc'["nav"] = "idle",
         ~reg'[l].cut => UnderWay(l)'
  PROVE  GoalInv'
BY DEF GoalInv, Undisturbed, Calm, Levels

(* What holds of a level that goes on.                                     *)
LEMMA Uncut ==
  ASSUME GoalInv, NEW l \in Levels, pc[l] \notin {"idle", "output", "count", "item"},
         l = "cmd" => pc["nav"] = "idle", ~reg[l].cut
  PROVE  UnderWay(l)
BY DEF GoalInv, Calm, Levels

(* A level that ends leaves a good goal or has spoiled it.                 *)
LEMMA Finished ==
  ASSUME PlanTypeOK, StepsInv, NEW l \in Levels, Ends(l),
         pc[l] \notin {"idle", "output", "count", "item"},
         l = "cmd" => pc["nav"] = "idle",
         UNCHANGED begun, \A m \in Levels \ {l} : reg'[m] = reg[m],
         begun # "none" /\ ~spoiled' /\ (l = "nav" => Calm("cmd") \/ pc["cmd"] = "check")
           => OnGoal'
  PROVE  GoalInv'
<1>1. CASE l = "nav"
  <2>1. pc'["nav"] = "output" /\ pc'["cmd"] = pc["cmd"]
    BY <1>1 DEF Ends, Goes, PlanTypeOK, Levels
  <2>2. ~Calm("cmd") => reg'["cmd"].cut
    BY <1>1 DEF StepsInv, Calm, Levels
  <2> QED BY <1>1, <2>1, <2>2 DEF GoalInv, Undisturbed, Calm
<1>2. CASE l = "cmd"
  <2>1. pc'["cmd"] = "idle" /\ pc'["nav"] = "idle"
    BY <1>2 DEF Ends, Goes, PlanTypeOK, Levels
  <2> QED BY <1>2, <2>1 DEF GoalInv, Undisturbed, Calm
<1> QED BY <1>1, <1>2 DEF Levels

LEMMA StepsSetSteps ==
  ASSUME PlanTypeOK, StepsInv, GoalInv, NEW l \in Levels, SetSteps(l)
  PROVE  StepsInv'
<1> USE DEF PlanTypeOK, Levels
<1>1. /\ pc[l] \notin {"idle", "output", "count", "item"}
      /\ l = "cmd" => pc["nav"] = "idle"
      /\ pc'[l] \in {"idle", "output", "assign", "fetch", "point", "course", "flags"}
      /\ pc'[l] = "output" <=> (l = "nav" /\ pc'[l] \in {"idle", "output"})
      /\ \A m \in Levels \ {l} : pc'[m] = pc[m] /\ reg'[m] = reg[m]
  BY DEF SetSteps, set_waypoint_check, set_waypoint_assign, set_waypoint_fetch,
         navigate_set_goal_point, navigate_set_goal_course, setBehavior,
         Turn, Goes, Ends, Sets
<1>2. UNCHANGED <<GPS_steering, begun, numPoints>>
  BY DEF SetSteps, set_waypoint_check, set_waypoint_assign, set_waypoint_fetch,
         navigate_set_goal_point, navigate_set_goal_course, setBehavior,
         modeVars, planVars
<1>3. pc'[l] \in {"point", "course", "flags"} /\ l = "cmd" =>
        reg'[l].flags \in {"first", "current"}
  <2>1. CASE set_waypoint_fetch(l)
    BY <2>1 DEF set_waypoint_fetch, Registers
  <2>2. CASE set_waypoint_check(l) \/ set_waypoint_assign(l)
    BY <2>2 DEF set_waypoint_check, set_waypoint_assign, Goes, Ends
  <2>3. CASE navigate_set_goal_point(l) \/ navigate_set_goal_course(l)
    BY <2>3 DEF navigate_set_goal_point, navigate_set_goal_course, Turn, Goes, Sets, Ends,
                StepsInv
  <2>4. CASE setBehavior(l)
    BY <2>4 DEF setBehavior, Sets, Goes, Ends
  <2> QED BY <2>1, <2>2, <2>3, <2>4 DEF SetSteps
<1>4. numPoints = 0 => spoiled'
  <2>1. CASE spoiled' = spoiled
    BY <2>1 DEF StepsInv
  <2>2. CASE Sets(l) /\ pc[l] \in {"course", "flags"}
    BY <2>2 DEF Sets
  <2> QED BY <2>1, <2>2
          DEF SetSteps, set_waypoint_check, set_waypoint_assign, set_waypoint_fetch,
              navigate_set_goal_point, navigate_set_goal_course, setBehavior, Turn
<1>5. CASE l = "nav"
  BY <1>1, <1>2, <1>4, <1>5 DEF StepsInv, Calm
<1>6. CASE l = "cmd"
  BY <1>1, <1>2, <1>3, <1>4, <1>6 DEF StepsInv, Calm
<1> QED BY <1>5, <1>6

LEMMA SetStepsGoal ==
  ASSUME PlanTypeOK, StepsInv, GoalInv, NEW l \in Levels, SetSteps(l)
  PROVE  GoalInv'
<1> USE DEF PlanTypeOK, Turn, Goes, planVars, goalVars, modeVars
<1>1. CASE set_waypoint_check(l)
  <2>1. CASE reg[l].index < numPoints
    <3>1. pc'[l] = "assign" /\ (l = "cmd" => pc'["nav"] = "idle") /\ reg' = reg
      BY <1>1, <2>1 DEF set_waypoint_check, Levels
    <3>2. UnderWay(l)'
      BY <1>1, <2>1, <3>1 DEF set_waypoint_check, UnderWay
    <3> QED BY <3>1, <3>2, GoesOn
  <2>2. CASE ~(reg[l].index < numPoints)
    <3>1. /\ Ends(l) /\ reg' = [reg EXCEPT ![l] = NoReg] /\ pc[l] = "check"
          /\ UNCHANGED <<waypoints, numPoints, waypointIndex, current_waypoint,
                         navgoal, behaviour, begun, spoiled>>
          /\ l = "cmd" => pc["nav"] = "idle"
      BY <1>1, <2>2 DEF set_waypoint_check
    <3>2. begun # "none" /\ ~spoiled /\ (l = "nav" => Calm("cmd") \/ pc["cmd"] = "check")
            => OnGoal
      BY <2>2, <3>1, Uncut DEF GoalInv, UnderWay, Undisturbed, Calm, Levels
    <3>3. OnGoal => OnGoal'
      BY <3>1 DEF OnGoal, At
    <3>4. \A m \in Levels \ {l} : reg'[m] = reg[m]
      BY <3>1
    <3> QED BY <3>1, <3>2, <3>3, <3>4, Finished
  <2> QED BY <2>1, <2>2
<1>2. CASE set_waypoint_assign(l)
  <2>1. pc'[l] = "fetch" /\ (l = "cmd" => pc'["nav"] = "idle") /\ reg' = reg
    BY <1>2 DEF set_waypoint_assign, Levels
  <2>2. ~reg[l].cut => UnderWay(l)'
    BY <1>2, <2>1, Uncut DEF set_waypoint_assign, UnderWay
  <2> QED BY <2>1, <2>2, GoesOn
<1>3. CASE set_waypoint_fetch(l)
  <2>1. /\ pc'[l] = "point" /\ (l = "cmd" => pc'["nav"] = "idle")
        /\ reg'[l].cut = reg[l].cut /\ reg'[l].to = At(waypointIndex)
        /\ reg'[l].flags = IF waypointIndex = 0 THEN "first" ELSE "current"
    BY <1>3 DEF set_waypoint_fetch, Levels, Registers
  <2>2. ~reg[l].cut => waypointIndex < numPoints
    BY <1>3, Uncut DEF set_waypoint_fetch, UnderWay
  <2>3. At(waypointIndex)' = At(waypointIndex) /\ current_waypoint' = At(waypointIndex)
    BY <1>3 DEF set_waypoint_fetch, At
  <2>4. ~reg[l].cut => UnderWay(l)'
    BY <1>3, <2>1, <2>2, <2>3 DEF set_waypoint_fetch, UnderWay
  <2> QED BY <2>1, <2>4, GoesOn
<1>4. CASE navigate_set_goal_point(l)
  <2>1. /\ pc'[l] = "course" /\ (l = "cmd" => pc'["nav"] = "idle") /\ reg' = reg
        /\ navgoal'.point = reg[l].to
    BY <1>4 DEF navigate_set_goal_point, Levels
  <2>2. Undisturbed' = Undisturbed
    BY <1>4 DEF navigate_set_goal_point, Undisturbed, Calm, Levels
  <2>3. ~reg[l].cut => UnderWay(l)'
    BY <1>4, <2>1, <2>2, Uncut DEF navigate_set_goal_point, UnderWay, At
  <2> QED BY <2>1, <2>3, GoesOn
<1>5. CASE navigate_set_goal_course(l)
  <2>1. navgoal'.course = reg[l].to /\ navgoal'.point = navgoal.point
    BY <1>5 DEF navigate_set_goal_course
  <2>2. CASE reg[l].flags = "none"
    <3>1. OnGoal' <=> /\ reg[l].to = navgoal.point
                      /\ behaviour = current_waypoint
                      /\ current_waypoint = At(waypointIndex) \/ IsLive(current_waypoint)
                      /\ navgoal.point \in {At(waypointIndex), current_waypoint}
                      /\ waypointIndex < numPoints
      BY <1>5, <2>1 DEF navigate_set_goal_course, OnGoal, At
    <3>2. /\ Ends(l) /\ reg' = [reg EXCEPT ![l] = NoReg] /\ pc[l] = "course"
          /\ l = "cmd" => pc["nav"] = "idle"
          /\ spoiled' = (reg[l].cut \/ numPoints = 0 \/ spoiled) /\ UNCHANGED begun
      BY <1>5, <2>2 DEF navigate_set_goal_course, Sets
    <3>3. ~spoiled' /\ (l = "nav" => Calm("cmd") \/ pc["cmd"] = "check") => OnGoal'
            <4>1. SUFFICES ASSUME ~spoiled',
                            l = "nav" => Calm("cmd") \/ pc["cmd"] = "check"
                     PROVE  OnGoal'
        OBVIOUS
      <4>2. UnderWay(l) /\ ~spoiled
        BY <3>2, <4>1, Uncut
      <4>3. l = "nav"
        BY <2>2, <3>2 DEF StepsInv, Levels
      <4> QED BY <2>2, <3>1, <3>2, <4>1, <4>2, <4>3 DEF UnderWay, Undisturbed
    <3>4. \A m \in Levels \ {l} : reg'[m] = reg[m]
      BY <3>2
    <3> QED BY <3>2, <3>3, <3>4, Finished
  <2>3. CASE reg[l].flags # "none"
    <3>1. pc'[l] = "flags" /\ (l = "cmd" => pc'["nav"] = "idle") /\ reg' = reg
      BY <1>5, <2>3 DEF navigate_set_goal_course, Levels
    <3>2. Undisturbed' = Undisturbed
      BY <1>5, <2>3 DEF navigate_set_goal_course, Undisturbed, Calm, Levels
    <3>3. ~reg[l].cut => UnderWay(l)'
      BY <1>5, <2>1, <2>3, <3>1, <3>2, Uncut DEF navigate_set_goal_course, UnderWay, At
    <3> QED BY <3>1, <3>3, GoesOn
  <2> QED BY <2>2, <2>3
<1>6. CASE setBehavior(l)
  <2>1. /\ Ends(l) /\ reg' = [reg EXCEPT ![l] = NoReg] /\ pc[l] = "flags"
        /\ l = "cmd" => pc["nav"] = "idle"
        /\ spoiled' = (reg[l].cut \/ numPoints = 0
                         \/ (reg[l].flags \in {"none", "live"} /\ spoiled))
        /\ UNCHANGED <<waypoints, numPoints, waypointIndex, current_waypoint,
                       navgoal, begun>>
        /\ behaviour' = IF reg[l].flags = "first" THEN At(0) ELSE current_waypoint
    BY <1>6 DEF setBehavior, Sets
  <2>2. ~spoiled' => UnderWay(l)
    BY <2>1, Uncut
  <2>3. ~spoiled' /\ (l = "nav" => Calm("cmd") \/ pc["cmd"] = "check") => OnGoal'
        <3>1. SUFFICES ASSUME ~spoiled',
                          l = "nav" => Calm("cmd") \/ pc["cmd"] = "check"
                   PROVE  OnGoal'
      OBVIOUS
    <3>2. At(waypointIndex)' = At(waypointIndex)
      BY <2>1 DEF At
    <3>3. CASE reg[l].flags \in {"first", "current"}
      <4>1. /\ waypointIndex < numPoints
            /\ current_waypoint = At(waypointIndex) /\ behaviour' = current_waypoint
            /\ navgoal.point = At(waypointIndex) /\ navgoal.course = At(waypointIndex)
        BY <2>1, <2>2, <3>1, <3>3 DEF UnderWay
      <4> QED BY <2>1, <3>2, <4>1 DEF OnGoal
    <3>4. CASE reg[l].flags = "live"
      <4>1. l = "nav" /\ Undisturbed
        BY <2>1, <3>1, <3>4 DEF StepsInv, Levels, Undisturbed
      <4>2. /\ waypointIndex < numPoints
            /\ IsLive(current_waypoint) /\ behaviour' = current_waypoint
            /\ navgoal.point = current_waypoint /\ navgoal.course = current_waypoint
        BY <2>1, <2>2, <3>1, <3>4, <4>1 DEF UnderWay
      <4> QED BY <2>1, <4>2 DEF OnGoal
    <3> QED BY <2>1, <2>2, <3>1, <3>3, <3>4 DEF UnderWay
  <2>4. \A m \in Levels \ {l} : reg'[m] = reg[m]
    BY <2>1
  <2> QED BY <2>1, <2>3, <2>4, Finished
<1> QED BY <1>1, <1>2, <1>3, <1>4, <1>5, <1>6 DEF SetSteps

-----------------------------------------------------------------------------
LEMMA UpdateGoal ==
  ASSUME PlanTypeOK, StepsInv, GoalInv, Update
  PROVE  GoalInv'
<1> USE DEF PlanTypeOK, Turn, Goes, planVars, goalVars, modeVars, liveVars
<1>1. CASE LiveReady
  <2>1. /\ pc["nav"] = "idle" /\ pc'["nav"] = "live" /\ pc'["cmd"] = pc["cmd"]
        /\ begun # "none" /\ ~reg'["nav"].cut
        /\ UNCHANGED <<waypointIndex, waypoints, numPoints, current_waypoint, behaviour,
                       navgoal, begun, spoiled>>
    BY <1>1 DEF LiveReady, UpdateStarts, NoReg, Levels, StepsInv
  <2>2. Undisturbed' => OnGoal'
    BY <2>1 DEF Undisturbed, Calm, GoalInv, OnGoal, At
  <2> QED BY <2>1, <2>2 DEF GoalInv, UnderWay, Calm
<1>7. CASE FlyLive
  <2>1. IsLive(Received)
    BY DEF Received, IsLive, Waypoint, Torn
  <2>2. /\ pc["nav"] = "live" /\ pc'["nav"] = "point" /\ pc'["cmd"] = pc["cmd"]
        /\ begun # "none" /\ spoiled' = spoiled
        /\ reg'["nav"].flags = "live" /\ reg'["nav"].to = Received
        /\ reg'["nav"].cut = reg["nav"].cut
        /\ current_waypoint' = Received /\ UNCHANGED <<waypointIndex, numPoints>>
    BY <1>7 DEF FlyLive, Levels, StepsInv, Registers
  <2>3. ~reg["nav"].cut /\ Undisturbed' => waypointIndex < numPoints
    BY <2>2 DEF Undisturbed, Calm, GoalInv, UnderWay, OnGoal
  <2>4. ~reg["nav"].cut => UnderWay("nav")'
    BY <2>1, <2>2, <2>3 DEF UnderWay
  <2> QED BY <2>2, <2>4, GoesOn DEF Levels
<1>2. CASE Loiter
  <2>1. /\ pc["nav"] = "idle" /\ pc'["nav"] = "point" /\ pc'["cmd"] = pc["cmd"]
        /\ begun # "none" /\ spoiled' = spoiled
        /\ reg'["nav"].flags = "none" /\ reg'["nav"].to = At(waypointIndex)
        /\ UNCHANGED <<waypointIndex, waypoints, numPoints, current_waypoint, behaviour>>
    BY <1>2 DEF Loiter, UpdateStarts, NoReg, Levels, StepsInv
  <2>2. Undisturbed' =>
          /\ waypointIndex < numPoints /\ behaviour = current_waypoint
          /\ current_waypoint = At(waypointIndex) \/ IsLive(current_waypoint)
    BY <2>1 DEF Undisturbed, Calm, GoalInv, OnGoal
  <2>3. UnderWay("nav")'
    BY <2>1, <2>2 DEF UnderWay, At
  <2> QED BY <2>1, <2>3, GoesOn DEF Levels
<1>3. CASE next_waypoint
  <2>1. pc'["nav"] = "wrap" /\ ~reg'["nav"].cut
    BY <1>3 DEF next_waypoint, UpdateStarts, NoReg, Levels
  <2> QED BY <2>1 DEF GoalInv, UnderWay, Calm
<1>4. CASE WrapAround
  <2>1. /\ pc["nav"] = "wrap" /\ pc'["nav"] = "check" /\ pc'["cmd"] = pc["cmd"]
        /\ reg'["nav"].cut = reg["nav"].cut /\ reg'["nav"].index = Wrapped
        /\ UNCHANGED <<waypoints, numPoints, navgoal, current_waypoint, behaviour,
                       begun, spoiled>>
        /\ waypointIndex' = Wrapped
    BY <1>4 DEF WrapAround, Levels, Registers
  <2>5. waypointIndex \in Int
    BY Numbers
  <2>2. ~spoiled => Wrapped < numPoints
    BY <2>5 DEF StepsInv, Wrapped
  <2>3. OnGoal => OnGoal'
    BY <2>1, <2>5 DEF OnGoal, Wrapped, At
  <2>4. UnderWay("nav")'
    BY <2>1, <2>2 DEF UnderWay
  <2> QED BY <2>1, <2>3, <2>4 DEF GoalInv, Undisturbed, Calm
<1>5. CASE NothingToUpdate
  <2>1. /\ pc["nav"] = "idle" /\ pc'["nav"] = "output" /\ pc'["cmd"] = pc["cmd"]
        /\ UNCHANGED <<waypoints, numPoints, waypointIndex, navgoal, current_waypoint,
                       behaviour, begun, spoiled, reg>>
    BY <1>5 DEF NothingToUpdate, Levels
  <2> QED BY <2>1 DEF GoalInv, OnGoal, UnderWay, Undisturbed, Calm, At
<1>6. CASE SetSteps("nav")
  BY <1>6, SetStepsGoal DEF Levels
<1> QED BY <1>1, <1>2, <1>3, <1>4, <1>5, <1>6, <1>7 DEF Update, Arrival

LEMMA ModeChangesGoal ==
  ASSUME PlanTypeOK, StepsInv, GoalInv, ModeChanges
  PROVE  GoalInv'
<1>1. CASE StopSteering
  BY <1>1, GoalKept DEF StopSteering, runVars
<1>2. ASSUME NEW p \in Plans, flightplan_begin(p)
      PROVE  GoalInv'
  <2>1. \A l \in Levels : ~Calm(l) => reg'[l].cut /\ ~Calm(l)'
        BY <1>2 DEF flightplan_begin, Overtakes, Calm, PlanTypeOK, StepsInv, Levels
  <2>2. OnGoal'
        <3>1. 0 \in Places /\ Points[p] \in 1 .. MAX_WAYPOINTS
      BY FlightPlanAssumption DEF Places, Plans
    <3>2. At(0)' = Waypoint(p, 0)
      BY <1>2, <3>1 DEF flightplan_begin, load_flightplan, At
    <3> QED BY <1>2, <3>1, <3>2 DEF flightplan_begin, OnGoal
  <2>3. "nav" \in Levels /\ "cmd" \in Levels /\ pc' = pc
    BY <1>2 DEF Levels, flightplan_begin
  <2> QED BY <2>1, <2>2, <2>3 DEF GoalInv, Calm
<1> QED BY <1>1, <1>2 DEF ModeChanges

LEMMA ModeChangesSteps ==
  ASSUME PlanTypeOK, StepsInv, ModeChanges
  PROVE  StepsInv'
<1>1. CASE StopSteering
  BY <1>1 DEF StopSteering, StepsInv, Calm, runVars, planVars
<1>2. ASSUME NEW p \in Plans, flightplan_begin(p)
      PROVE  StepsInv'
  <2>1. pc' = pc /\ begun' # "none" /\ numPoints' # 0
    BY <1>2, FlightPlanAssumption DEF flightplan_begin, Plans
  <2>2. /\ reg'["cmd"].flags = reg["cmd"].flags
        /\ ~Calm("cmd") => reg'["cmd"].cut
    BY <1>2 DEF flightplan_begin, Overtakes, PlanTypeOK, Registers, Levels, Calm
  <2> QED BY <2>1, <2>2 DEF StepsInv, Calm
<1> QED BY <1>1, <1>2 DEF ModeChanges

LEMMA UpdateSteps ==
  ASSUME PlanTypeOK, StepsInv, GoalInv, Update
  PROVE  StepsInv'
<1> USE DEF PlanTypeOK, Levels, Turn, Goes, planVars, modeVars
<1>1. CASE LiveReady \/ Loiter \/ next_waypoint
  <2>1. /\ pc["nav"] = "idle" /\ pc'["nav"] \in {"live", "wrap", "point"}
        /\ pc'["cmd"] = pc["cmd"]
        /\ reg'["cmd"].flags = reg["cmd"].flags
        /\ reg'["cmd"].cut = (pc["cmd"] # "idle")
        /\ UNCHANGED <<GPS_steering, begun, numPoints, spoiled>>
    BY <1>1 DEF LiveReady, Loiter, next_waypoint, UpdateStarts, Registers
  <2>2. GPS_steering
    BY <1>1 DEF LiveReady, Loiter, next_waypoint, UpdateStarts
  <2> QED BY <2>1, <2>2 DEF StepsInv, Calm
<1>2. CASE FlyLive \/ WrapAround \/ NothingToUpdate
  <2>1. /\ pc["nav"] \in {"idle", "live", "wrap"}
        /\ pc'["nav"] \in {"check", "point", "output"}
        /\ pc["nav"] = "idle" => pc'["nav"] = "output"
        /\ pc'["cmd"] = pc["cmd"] /\ reg'["cmd"] = reg["cmd"]
        /\ UNCHANGED <<GPS_steering, begun, numPoints, spoiled>>
    BY <1>2 DEF FlyLive, WrapAround, NothingToUpdate
  <2> QED BY <2>1 DEF StepsInv, Calm
<1>3. CASE SetSteps("nav")
  BY <1>3, StepsSetSteps
<1> QED BY <1>1, <1>2, <1>3 DEF Update, Arrival

-----------------------------------------------------------------------------
(* Messages are handled while no update is under way and no command.       *)
LEMMA MessageGoal ==
  ASSUME PlanTypeOK, StepsInv, GoalInv, handleMessage
  PROVE  StepsInv' /\ GoalInv'
<1> USE DEF PlanTypeOK, Levels, GoalUnchanged, planVars, goalVars, modeVars
<1>1. pc["nav"] = "idle" /\ pc["cmd"] = "idle"
  BY DEF handleMessage, MissionRequestList, MissionRequest, MissionAck,
         MissionClearAll, MissionSetCurrent, MissionItem, MissionCount,
         Handles, Turn
<1>2. CASE MissionRequestList \/ MissionRequest \/ MissionAck
  <2>1. UNCHANGED planAll
    BY <1>2 DEF MissionRequestList, MissionRequest, MissionAck, PlanUnchanged
  <2>2. GoalInv'
    BY <2>1, GoalKept DEF planAll, runVars
  <2>3. StepsInv'
    BY <2>1 DEF StepsInv, Calm, planAll, runVars
  <2> QED BY <2>2, <2>3
<1>3. CASE MissionClearAll
  <2>1. spoiled' /\ UNCHANGED <<pc, reg, begun, GPS_steering>>
    BY <1>3 DEF MissionClearAll, clear_flightplan
  <2> QED BY <1>1, <2>1 DEF StepsInv, GoalInv, Calm, Undisturbed
<1>4. ASSUME NEW seq \in Seqs, MissionSetCurrent(seq)
      PROVE  StepsInv' /\ GoalInv'
  <2>1. /\ pc'["cmd"] = "check" /\ pc'["nav"] = "idle"
        /\ UNCHANGED <<waypoints, numPoints, waypointIndex, current_waypoint, navgoal,
                       behaviour, begun, GPS_steering, spoiled>>
    BY <1>1, <1>4 DEF MissionSetCurrent, Goes
  <2>2. OnGoal' <=> OnGoal
    BY <2>1 DEF OnGoal, At
  <2> QED BY <1>1, <2>1, <2>2 DEF StepsInv, GoalInv, Calm, Undisturbed, UnderWay
<1>5. ASSUME NEW i \in Items, MissionItem(i)
      PROVE  StepsInv' /\ GoalInv'
  <2>1. /\ pc'["cmd"] = "item" /\ pc'["nav"] = "idle"
        /\ UNCHANGED <<waypoints, numPoints, waypointIndex, current_waypoint, navgoal,
                       behaviour, begun, GPS_steering, spoiled>>
    BY <1>1, <1>5 DEF MissionItem, Goes
  <2>2. OnGoal' <=> OnGoal
    BY <2>1 DEF OnGoal, At
  <2> QED BY <1>1, <2>1, <2>2 DEF StepsInv, GoalInv, Calm, Undisturbed
<1>6. ASSUME NEW count \in Counts, MissionCount(count)
      PROVE  StepsInv' /\ GoalInv'
  <2>1. /\ pc'["cmd"] = "count" /\ pc'["nav"] = "idle"
        /\ UNCHANGED <<waypoints, numPoints, waypointIndex, current_waypoint, navgoal,
                       behaviour, begun, GPS_steering, spoiled>>
    BY <1>1, <1>6 DEF MissionCount, Goes
  <2>2. OnGoal' <=> OnGoal
    BY <2>1 DEF OnGoal, At
  <2> QED BY <1>1, <2>1, <2>2 DEF StepsInv, GoalInv, Calm, Undisturbed
<1> QED BY <1>2, <1>3, <1>4, <1>5, <1>6 DEF handleMessage

(* The ends of the handler of a count and of the pulse.                    *)
LEMMA EndsGoal ==
  ASSUME PlanTypeOK, StepsInv, GoalInv, MissionCountEnds \/ MAVMissionOutput_40hz
  PROVE  StepsInv' /\ GoalInv'
<1>1. /\ \A l \in Levels : pc'[l] = pc[l] \/ (Calm(l) /\ pc'[l] = "idle")
      /\ UNCHANGED <<waypoints, numPoints, waypointIndex, current_waypoint, navgoal,
                     behaviour, begun, GPS_steering, spoiled, reg>>
  BY DEF MissionCountEnds, MAVMissionOutput_40hz, PlanTypeOK, Levels, Turn, Goes, Calm,
         GoalUnchanged, planVars, goalVars, modeVars
<1>2. OnGoal' <=> OnGoal
  BY <1>1 DEF OnGoal, At
<1>3. \A l \in Levels : Calm(l)' <=> Calm(l)
  BY <1>1 DEF Calm
<1>4. Undisturbed' <=> Undisturbed
  BY <1>1, <1>3 DEF Undisturbed, Levels, Calm
<1>5. \A l \in Levels : ~Calm(l) => (UnderWay(l)' <=> UnderWay(l))
  BY <1>1, <1>2, <1>3, <1>4 DEF UnderWay, Calm, At
<1> QED BY <1>1, <1>2, <1>3, <1>4, <1>5 DEF StepsInv, GoalInv, Calm, Levels

(* An item is added behind the waypoints that are flown.                   *)
LEMMA StoredGoal ==
  ASSUME PlanTypeOK, StepsInv, GoalInv, MissionItemStored
  PROVE  StepsInv' /\ GoalInv'
<1> USE DEF PlanTypeOK, Levels, GoalUnchanged, goalVars, modeVars
<1>1. /\ add_waypoint(Waypoint("item", reg["cmd"].index))
      /\ pc["nav"] = "idle" /\ pc["cmd"] = "item"
      /\ pc'["nav"] = "idle" /\ pc'["cmd"] = "idle"
      /\ UNCHANGED <<waypointIndex, current_waypoint, navgoal, behaviour, begun,
                     GPS_steering, spoiled>>
  BY DEF MissionItemStored, Turn, Goes
<1>2. /\ numPoints' >= numPoints
      /\ waypointIndex < numPoints =>
           waypointIndex < numPoints' /\ At(waypointIndex)' = At(waypointIndex)
  <2>1. waypointIndex \in Int
    BY Numbers
  <2> QED BY <1>1, <2>1, FlightPlanAssumption DEF add_waypoint, At, Places, planVars
<1>3. OnGoal => OnGoal'
  BY <1>1, <1>2 DEF OnGoal
<1>4. numPoints' = 0 => numPoints = 0
  BY <1>2
<1> QED BY <1>1, <1>3, <1>4 DEF StepsInv, GoalInv, Calm, Undisturbed

LEMMA GoalStep ==
  ASSUME TypeOK, StepsInv, GoalInv, [Next]_vars
  PROVE  StepsInv' /\ GoalInv'
<1>1. PlanTypeOK
  BY DEF TypeOK
<1>2. CASE handleMessage \/ MissionCountEnds \/ MissionItemStored
             \/ MAVMissionOutput_40hz
  BY <1>1, <1>2, MessageGoal, StoredGoal, EndsGoal
<1>3. CASE SetSteps("cmd") \/ Update \/ ModeChanges
  BY <1>1, <1>3, SetStepsGoal, StepsSetSteps, UpdateGoal, UpdateSteps,
     ModeChangesGoal, ModeChangesSteps DEF Levels
<1>4. CASE UartByte \/ UNCHANGED vars
  <2>1. UNCHANGED <<planVars, waypointIndex, goalVars, modeVars, runVars>>
    BY <1>4 DEF UartByte, flightplan_live_begin, flightplan_live_received_byte,
                flightplan_live_commit, BadByte, UartOnly, vars, planAll
  <2>2. GoalInv'
    BY <2>1, GoalKept DEF modeVars, runVars
  <2>3. StepsInv'
    BY <2>1 DEF StepsInv, Calm, planVars, modeVars, runVars
  <2> QED BY <2>2, <2>3
<1> QED BY <1>2, <1>3, <1>4 DEF Next, Command, Pulse

(***************************************************************************)
(* The goal, the course to it and the flags in force are those of one      *)
(* waypoint, that of the index or a live one, unless a higher level        *)
(* overtook the one that set them (flightplan-waypoints.c:224, 264, 391):  *)
(* for all plans, and however often messages, live waypoints and changes   *)
(* of mode come.                                                           *)
(***************************************************************************)
THEOREM GoalsFollowTheIndex == Spec => []GoalFollowsIndex
<1>1. Init => StepsInv /\ GoalInv
  <2>1. SUFFICES ASSUME Init
                 PROVE  StepsInv /\ GoalInv
    OBVIOUS
  <2>2. /\ pc["nav"] = "idle" /\ pc["cmd"] = "idle" /\ begun = "none"
        /\ GPS_steering = FALSE /\ numPoints # 0
    BY <2>1, FlightPlanAssumption DEF Init, PlanInit, Levels
  <2> QED BY <2>2 DEF StepsInv, GoalInv, Calm
<1>2. TypeOK /\ StepsInv /\ GoalInv /\ [Next]_vars => StepsInv' /\ GoalInv'
  BY GoalStep
<1>3. GoalInv => GoalFollowsIndex
  BY DEF GoalInv, GoalFollowsIndex, OnGoal, Undisturbed, Calm, Levels
<1> QED BY <1>1, <1>2, <1>3, TypeCorrect, PTL DEF Spec
=============================================================================
