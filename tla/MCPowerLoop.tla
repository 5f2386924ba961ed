------------------------------ MODULE MCPowerLoop ------------------------------
(* Small instances of PowerLoop.  The suns and loads are chosen so that the   *)
(* limits, the ramps and the timers all come into play.                       *)
EXTENDS PowerLoopProps

\* By day: a load that calls for peak shaving, one that shaving overshoots, a
\* sun beyond the ramp's dead band.
DaySurpluses == {-3000, -1500, 3500}

\* Unbalanced with an average above one half; depleted.
DaySOCs == {<<10, 90, 90, 94>>, <<15, 15, 15, 15>>}

\* By night: heavy load, base load, balance, early sun.
NightSurpluses == {-3000, -700, 100}

NightSOCs == {<<60, 60, 60, 60>>, <<15, 15, 15, 15>>}

===============================================================================
