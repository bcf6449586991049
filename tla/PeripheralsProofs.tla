-------------------------- MODULE PeripheralsProofs --------------------------
(***************************************************************************)
(* The proofs about MCPeripherals.  Each peripheral has an invariant of    *)
(* its own, with the lemmas that it holds initially (...InitHolds), is     *)
(* kept by every step of the peripheral (...Keeps), and shows the          *)
(* properties of the peripheral: here, in PartsProofs and in TimerProofs.  *)
(* A part has one peripheral, so that the invariant of a part is that of   *)
(* its peripheral.                                                         *)
(***************************************************************************)
EXTENDS PartsProofs

-----------------------------------------------------------------------------
(* Pin routing *)

\* A function has claimed the pin that it is routed to while it is active
\* (portmux_apply).
ClaimsFollowRoutes ==
    \A f \in Functions : claimed[f] = IF active[f] THEN PinOf[f][route[f]] ELSE NoPin

PortmuxInv == PM!TypeOK /\ ClaimsFollowRoutes /\ PM!PinsFollowFunctions

LEMMA PortmuxInitHolds ==
    ASSUME PM!WellFormed, PM!Init
    PROVE  PortmuxInv
<1>1. PM!TypeOK
  BY DEF PM!WellFormed, PM!Init, PM!TypeOK
<1>2. ClaimsFollowRoutes
  BY DEF PM!Init, ClaimsFollowRoutes
<1>3. ASSUME NEW p \in PM!Pins
      PROVE  PM!Routed(p) = {} /\ PM!Level(p) = latch[p] /\ p \notin ovrEn
  BY DEF PM!Init, PM!Routed, PM!Level
<1>4. PM!PinsFollowFunctions
  BY <1>3 DEF PM!PinsFollowFunctions
<1>5. QED  BY <1>1, <1>2, <1>4 DEF PortmuxInv

\* The last of the functions that take a pin over is one of them.
LEMMA LastTakerTakes ==
    ASSUME PM!WellFormed, NEW p, PM!Takers(p) # {}
    PROVE  PM!LastTaker(p) \in PM!Takers(p)
<1>1. PM!Takers(p) \in SUBSET Functions
  BY DEF PM!Takers
<1>2. PM!Takers(p) \in SUBSET Nat /\ IsFiniteSet(PM!Takers(p))
  <2>1. Functions \in SUBSET Nat /\ IsFiniteSet(Functions)
    BY DEF PM!WellFormed, PM!IsFiniteSet, IsFiniteSet
  <2>2. QED  BY <1>1, <2>1, FS_Subset
<1>3. \E h \in PM!Takers(p) : \A k \in PM!Takers(p) : k <= h
  BY <1>2, GreatestExists
<1>4. QED  BY <1>3, Zenon DEF PM!LastTaker

\* The claims of all functions are made anew, and the pins show them
\* (portmux_apply).
LEMMA ApplyFollows ==
    ASSUME PM!WellFormed, PortmuxInv, PM!Apply,
           route' \in [Functions -> Fields], active' \in [Functions -> BOOLEAN],
           driven' \in [Functions -> {0, 1}], latch' \in [PM!Pins -> {0, 1}]
    PROVE  PortmuxInv'
<1> DEFINE lost == {claimed[f] : f \in {h \in Functions : claimed[h] # PM!Target(h)}} \ {NoPin}
           taken == {PM!Target(f) : f \in Functions} \ {NoPin}
<1>1. /\ claimed' = [f \in Functions |-> PM!Target(f)]
      /\ ovrEn' = (ovrEn \ lost) \cup taken
      /\ ovrVal' = (ovrVal \ (lost \cup taken)) \cup {p \in taken : driven'[PM!LastTaker(p)] = 1}
  BY DEF PM!Apply, PM!Overridden
<1>2. \A f \in Functions : PM!Target(f) = IF active'[f] THEN PinOf[f][route'[f]] ELSE NoPin
  BY DEF PM!Target
<1>3. \A f \in Functions : PM!Target(f) \in PM!Pins \cup {NoPin}
  BY <1>2 DEF PM!Pins
<1>4. taken \subseteq PM!Pins /\ NoPin \notin PM!Pins
  BY <1>3 DEF PM!Pins
<1>5. /\ PM!TypeOK /\ ClaimsFollowRoutes /\ PM!PinsFollowFunctions
  BY DEF PortmuxInv
<1>6. ASSUME NEW p \in PM!Pins
      PROVE  /\ PM!Routed(p)' = PM!Takers(p)
             /\ PM!Routed(p)' # {} <=> p \in taken
  <2>1. p # NoPin
    BY <1>4
  <2>2. PM!Routed(p)' = {f \in Functions : active'[f] /\ PinOf[f][route'[f]] = p}
    BY DEF PM!Routed
  <2>3. PM!Takers(p) = {f \in Functions : PM!Target(f) = p}
    BY DEF PM!Takers
  <2>4. QED  BY <1>2, <2>1, <2>2, <2>3
<1>7. ASSUME NEW p \in PM!Pins, p \in ovrEn, p \notin lost
      PROVE  p \in taken
  <2>1. PM!Routed(p) # {}
    BY <1>5, <1>7 DEF PM!PinsFollowFunctions
  <2>2. PICK f \in Functions : active[f] /\ PinOf[f][route[f]] = p
    BY <2>1 DEF PM!Routed
  <2>3. claimed[f] = p /\ p # NoPin
    BY <2>2, <1>4, <1>5 DEF ClaimsFollowRoutes
  <2>4. PM!Target(f) = p
    BY <2>3, <1>7
  <2>5. QED  BY <2>3, <2>4
<1>8. ovrEn' = taken
  <2>1. ovrEn \subseteq PM!Pins
    BY <1>5 DEF PM!TypeOK
  <2>2. QED  BY <1>1, <1>7, <2>1
<1>9. ovrVal' = {p \in taken : driven'[PM!LastTaker(p)] = 1}
  <2>1. ovrVal \subseteq ovrEn /\ ovrEn \subseteq PM!Pins
    BY <1>5 DEF PM!TypeOK
  <2>2. QED  BY <1>1, <1>7, <2>1
<1>10. PM!TypeOK'
  <2>1. claimed' \in [Functions -> PM!Pins \cup {NoPin}]
    BY <1>1, <1>3
  <2>2. ovrEn' \subseteq PM!Pins /\ ovrVal' \subseteq ovrEn'
    BY <1>4, <1>8, <1>9
  <2>3. QED  BY <2>1, <2>2 DEF PM!TypeOK
<1>11. ClaimsFollowRoutes'
  BY <1>1, <1>2 DEF ClaimsFollowRoutes
<1>12. ASSUME NEW p \in PM!Pins
       PROVE  LET shown == IF PM!Routed(p)' = {} THEN {latch'[p]}
                           ELSE {driven'[f] : f \in PM!Routed(p)'}
              IN  PM!Level(p)' \in shown /\ (p \in ovrEn' <=> PM!Routed(p)' # {})
  <2>1. p \in ovrEn' <=> PM!Routed(p)' # {}
    BY <1>6, <1>8
  <2>2. PM!Level(p)' = IF p \in ovrEn' THEN (IF p \in ovrVal' THEN 1 ELSE 0) ELSE latch'[p]
    BY DEF PM!Level
  <2>3. CASE PM!Routed(p)' = {}
    BY <2>1, <2>2, <2>3
  <2>4. CASE PM!Routed(p)' # {}
    <3>1. PM!LastTaker(p) \in PM!Routed(p)'
      BY <1>6, <2>4, LastTakerTakes
    <3>2. PM!LastTaker(p) \in Functions
      BY <3>1 DEF PM!Routed
    <3>3. driven'[PM!LastTaker(p)] \in {0, 1}
      BY <3>2
    <3>4. p \in ovrEn' /\ (p \in ovrVal' <=> driven'[PM!LastTaker(p)] = 1)
      BY <1>6, <1>8, <1>9, <2>4
    <3>5. PM!Level(p)' = driven'[PM!LastTaker(p)]
      BY <2>2, <3>3, <3>4
    <3>6. QED  BY <2>1, <2>4, <3>1, <3>5
  <2>5. QED  BY <2>3, <2>4
<1>13. PM!PinsFollowFunctions'
  BY <1>12 DEF PM!PinsFollowFunctions
<1>14. QED  BY <1>10, <1>11, <1>13 DEF PortmuxInv

\* A pin without a function shows what is written to OUT.
LEMMA WriteOutShows ==
    ASSUME PortmuxInv, NEW p \in PM!Pins, NEW n \in {0, 1}, PM!WriteOut(p, n)
    PROVE  PortmuxInv'
<1>1. /\ latch' = [latch EXCEPT ![p] = n]
      /\ UNCHANGED <<route, active, driven, claimed, ovrEn, ovrVal>>
  BY DEF PM!WriteOut, PM!functions, PM!overrides
<1>2. PM!TypeOK /\ ClaimsFollowRoutes /\ PM!PinsFollowFunctions
  BY DEF PortmuxInv
<1>3. PM!TypeOK' /\ ClaimsFollowRoutes'
  BY <1>1, <1>2 DEF PM!TypeOK, ClaimsFollowRoutes, PM!Pins
<1>4. ASSUME NEW q \in PM!Pins
      PROVE  LET shown == IF PM!Routed(q)' = {} THEN {latch'[q]}
                          ELSE {driven'[f] : f \in PM!Routed(q)'}
             IN  PM!Level(q)' \in shown /\ (q \in ovrEn' <=> PM!Routed(q)' # {})
  <2>1. PM!Routed(q)' = PM!Routed(q)
    BY <1>1 DEF PM!Routed
  <2>2. LET shown == IF PM!Routed(q) = {} THEN {latch[q]} ELSE {driven[f] : f \in PM!Routed(q)}
        IN  PM!Level(q) \in shown /\ (q \in ovrEn <=> PM!Routed(q) # {})
    BY <1>2 DEF PM!PinsFollowFunctions
  <2>3. PM!Level(q)' = IF q \in ovrEn THEN PM!Level(q) ELSE latch'[q]
    BY <1>1 DEF PM!Level
  <2>4. QED  BY <1>1, <2>1, <2>2, <2>3
<1>5. PM!PinsFollowFunctions'
  BY <1>4 DEF PM!PinsFollowFunctions
<1>6. QED  BY <1>3, <1>5 DEF PortmuxInv

LEMMA PortmuxKeeps ==
    ASSUME PM!WellFormed, PortmuxInv, PM!Next
    PROVE  PortmuxInv'
<1>1. PM!TypeOK
  BY DEF PortmuxInv
<1>2. ASSUME NEW f \in Functions, NEW b \in BOOLEAN, NEW n \in {0, 1}, PM!FuncSet(f, b, n)
      PROVE  PortmuxInv'
  BY <1>1, <1>2, ApplyFollows DEF PM!FuncSet, PM!TypeOK
<1>3. ASSUME NEW fs \in SUBSET Functions, NEW n \in Fields, PM!WriteRoute(fs, n)
      PROVE  PortmuxInv'
  BY <1>1, <1>3, ApplyFollows DEF PM!WriteRoute, PM!TypeOK
<1>4. ASSUME PM!Reset
      PROVE  PortmuxInv'
  <2>1. PM!TypeOK'
    BY <1>4 DEF PM!WellFormed, PM!Reset, PM!TypeOK, PM!Pins
  <2>2. ClaimsFollowRoutes'
    BY <1>4 DEF PM!Reset, ClaimsFollowRoutes
  <2>3. ASSUME NEW p \in PM!Pins
        PROVE  PM!Routed(p)' = {} /\ PM!Level(p)' = latch'[p] /\ p \notin ovrEn'
    BY <1>4 DEF PM!Reset, PM!Routed, PM!Level
  <2>4. PM!PinsFollowFunctions'
    BY <2>3 DEF PM!PinsFollowFunctions
  <2>5. QED  BY <2>1, <2>2, <2>4 DEF PortmuxInv
<1>5. QED  BY <1>2, <1>3, <1>4, WriteOutShows DEF PM!Next

-----------------------------------------------------------------------------
(* The GDB server *)

ServerTypes ==
    [state : GD!States, pc : Address, breaks : [Address -> SUBSET GD!BreakKinds],
     connected : BOOLEAN, burst : 0 .. Burst, resumed : BOOLEAN, resetDue : BOOLEAN,
     told : {"running", "stopped"}, behind : {"nothing", "reset", "crash"}]

\* What gdb takes the CPU for agrees with avr->state.
GdbAgrees(q) ==
    /\ q.connected /\ q.told = "stopped" /\ q.behind # "reset" =>
            q.state \in {"Stopped", "StepDone", "Done"}
    /\ q.connected /\ q.told = "running" /\ q.behind # "crash" => q.state # "Stopped"

\* A CPU that is let run has reported its step, and is at a breakpoint only
\* when it was resumed from there.
MayRun(q) ==
    /\ q.state # "StepDone"
    /\ GD!AtBreak(q) /\ q.behind # "reset" => q.resumed

GdbInv ==
    /\ g \in ServerTypes /\ GdbAgrees(g)
    /\ phase \in {"poll", "run", "sleep"} /\ stepping \in BOOLEAN
    /\ phase = "run" => g.state \in {"Running", "Sleeping", "Step"} /\ MayRun(g)

LEMMA GdbInitHolds ==
    ASSUME GD!WellFormed, GD!Init
    PROVE  GdbInv
<1>1. GD!NoBreaks \in [Address -> SUBSET GD!BreakKinds] /\ 0 \in 0 .. Burst
  BY DEF GD!WellFormed, GD!NoBreaks
<1>2. g \in ServerTypes
  BY <1>1 DEF GD!WellFormed, GD!Init, GD!States, ServerTypes
<1>3. GdbAgrees(g) /\ phase = "poll" /\ stepping = FALSE
  BY DEF GD!Init, GdbAgrees
<1>4. QED  BY <1>2, <1>3 DEF GdbInv

\* Telling gdb of a stop, or being told to go on.
LEMMA StopAgrees ==
    ASSUME NEW q \in ServerTypes
    PROVE  GD!Stop(q) \in ServerTypes /\ GdbAgrees(GD!Stop(q)) /\ MayRun(GD!Stop(q))
BY DEF GD!Stop, GD!States, GD!AtBreak, ServerTypes, GdbAgrees, MayRun

LEMMA ResumeAgrees ==
    ASSUME NEW q \in ServerTypes, NEW state \in {"Running", "Step"}
    PROVE  /\ GD!Resume(q, state) \in ServerTypes
           /\ GdbAgrees(GD!Resume(q, state)) /\ MayRun(GD!Resume(q, state))
BY DEF GD!Resume, GD!States, GD!AtBreak, ServerTypes, GdbAgrees, MayRun

LEMMA ClosedAgrees ==
    ASSUME NEW q \in ServerTypes
    PROVE  GD!Closed(q) \in ServerTypes /\ GdbAgrees(GD!Closed(q)) /\ MayRun(GD!Closed(q))
BY DEF GD!Closed, GD!Resume, GD!States, GD!BreakKinds, GD!NoBreaks, GD!AtBreak, ServerTypes,
       GdbAgrees, MayRun

\* Commands come from a gdb that takes the CPU for stopped, so that those that
\* move the PC or a breakpoint find it stopped.
LEMMA CommandsAgree ==
    ASSUME GD!WellFormed, NEW q \in ServerTypes, GdbAgrees(q), MayRun(q), q.connected,
           q.told = "stopped", NEW r \in GD!Commands(q)
    PROVE  r \in ServerTypes /\ GdbAgrees(r) /\ MayRun(r)
<1>1. ASSUME NEW a \in Address, NEW b \in SUBSET GD!BreakKinds, r = [q EXCEPT !.breaks[a] = b]
      PROVE  r \in ServerTypes /\ GdbAgrees(r) /\ MayRun(r)
  <2>1. r \in ServerTypes
    BY <1>1 DEF ServerTypes
  <2>2. /\ r.state = q.state /\ r.connected = q.connected /\ r.told = q.told
        /\ r.behind = q.behind
    BY <1>1 DEF ServerTypes
  <2>3. QED  BY <2>1, <2>2 DEF GdbAgrees, MayRun, GD!AtBreak
<1>2. ASSUME NEW a \in Address, r = [q EXCEPT !.pc = a]
      PROVE  r \in ServerTypes /\ GdbAgrees(r) /\ MayRun(r)
  <2>1. r \in ServerTypes
    BY <1>2 DEF ServerTypes
  <2>2. /\ r.state = q.state /\ r.connected = q.connected /\ r.told = q.told
        /\ r.behind = q.behind
    BY <1>2 DEF ServerTypes
  <2>3. QED  BY <2>1, <2>2 DEF GdbAgrees, MayRun, GD!AtBreak
<1>3. ASSUME r = [GD!Stop(q) EXCEPT !.pc = GD!ResetVector, !.resetDue = FALSE]
      PROVE  r \in ServerTypes /\ GdbAgrees(r) /\ MayRun(r)
  BY <1>3 DEF GD!WellFormed, GD!Stop, GD!States, GD!AtBreak, ServerTypes, GdbAgrees, MayRun
<1>4. ASSUME NEW state \in {"Stopped", "Done"}, r = [q EXCEPT !.state = state]
      PROVE  r \in ServerTypes /\ GdbAgrees(r) /\ MayRun(r)
  BY <1>4 DEF GD!States, GD!AtBreak, ServerTypes, GdbAgrees, MayRun
<1>5. ASSUME NEW a \in Address, NEW k \in GD!BreakKinds
      PROVE  q.breaks[a] \cup {k} \in SUBSET GD!BreakKinds
             /\ q.breaks[a] \ {k} \in SUBSET GD!BreakKinds
  BY DEF ServerTypes
<1>6. \/ r = GD!Resume(q, "Running") \/ r = GD!Resume(q, "Step")
      \/ \E a \in Address, k \in GD!BreakKinds :
            r = [q EXCEPT !.breaks[a] = q.breaks[a] \cup {k}]
      \/ \E a \in Address, k \in GD!BreakKinds :
            r = [q EXCEPT !.breaks[a] = q.breaks[a] \ {k}]
      \/ \E a \in Address : r = [q EXCEPT !.pc = a]
      \/ r = [GD!Stop(q) EXCEPT !.pc = GD!ResetVector, !.resetDue = FALSE]
      \/ r = [q EXCEPT !.state = "Stopped"] \/ r = [q EXCEPT !.state = "Done"]
  BY DEF GD!Commands
<1>7. QED  BY <1>1, <1>2, <1>3, <1>4, <1>5, <1>6, ResumeAgrees

LEMMA ArrivalsAgree ==
    ASSUME GD!WellFormed, NEW q \in ServerTypes, GdbAgrees(q), MayRun(q), NEW r \in GD!Arrivals(q)
    PROVE  r \in ServerTypes /\ GdbAgrees(r) /\ MayRun(r)
<1>1. CASE r = [GD!Stop(q) EXCEPT !.connected = TRUE]
  BY <1>1 DEF GD!Stop, GD!States, GD!AtBreak, ServerTypes, GdbAgrees, MayRun
<1>2. CASE r \in {GD!Closed(q), GD!Stop(q)}
  BY <1>2, ClosedAgrees, StopAgrees
<1>3. CASE q.connected /\ q.told = "stopped" /\ r \in GD!Commands(q)
  BY <1>3, CommandsAgree
<1>4. QED  BY <1>1, <1>2, <1>3 DEF GD!Arrivals

\* Whatever the server does, a CPU that it lets run has reported, and stops at
\* its breakpoint (avr_gdb_processor).
LEMMA ProcessedAgrees ==
    ASSUME GD!WellFormed, NEW q \in ServerTypes, GdbAgrees(q), NEW wait \in BOOLEAN,
           NEW r \in GD!Processed(q, wait)
    PROVE  r.g \in ServerTypes /\ GdbAgrees(r.g) /\ MayRun(r.g)
<1> DEFINE reports == GD!AtBreak(q) \/ q.state = "StepDone"
           p == [(IF reports THEN GD!Stop(q) ELSE q) EXCEPT !.burst = 0]
<1>1. CASE ~reports /\ q.burst < Burst /\ r.g = [q EXCEPT !.burst = @ + 1]
  <2>1. r.g \in ServerTypes
    BY <1>1 DEF GD!WellFormed, ServerTypes
  <2>2. /\ r.g.state = q.state /\ r.g.connected = q.connected /\ r.g.told = q.told
        /\ r.g.behind = q.behind /\ r.g.breaks = q.breaks /\ r.g.pc = q.pc
    BY <1>1 DEF ServerTypes
  <2>3. QED  BY <1>1, <2>1, <2>2 DEF GdbAgrees, MayRun, GD!AtBreak
<1>2. p \in ServerTypes /\ GdbAgrees(p) /\ MayRun(p)
  <2>1. CASE reports
    <3>1. p = [GD!Stop(q) EXCEPT !.burst = 0] /\ 0 \in 0 .. Burst
      BY <2>1 DEF GD!WellFormed
    <3>2. QED
      BY <3>1 DEF GD!Stop, GD!States, GD!AtBreak, ServerTypes, GdbAgrees, MayRun
  <2>2. CASE ~reports
    <3>1. p = [q EXCEPT !.burst = 0] /\ 0 \in 0 .. Burst
      BY <2>2 DEF GD!WellFormed
    <3>2. p \in ServerTypes
      BY <3>1 DEF ServerTypes
    <3>3. /\ p.state = q.state /\ p.connected = q.connected /\ p.told = q.told
          /\ p.behind = q.behind /\ p.breaks = q.breaks /\ p.pc = q.pc
      BY <3>1 DEF ServerTypes
    <3>4. QED  BY <2>2, <3>2, <3>3 DEF GdbAgrees, MayRun, GD!AtBreak
  <2>3. QED  BY <2>1, <2>2
<1>3. ASSUME NEW a \in GD!Arrivals(p), r.g = a
      PROVE  r.g \in ServerTypes /\ GdbAgrees(r.g) /\ MayRun(r.g)
  BY <1>2, <1>3, ArrivalsAgree
<1>4. \/ ~reports /\ q.burst < Burst /\ r.g = [q EXCEPT !.burst = @ + 1]
      \/ r.g = p
      \/ \E a \in GD!Arrivals(p) : r.g = a
  BY DEF GD!Processed
<1>5. QED  BY <1>1, <1>2, <1>3, <1>4

LEMMA PollKeeps ==
    ASSUME GD!WellFormed, GdbInv, GD!Poll
    PROVE  GdbInv'
<1> DEFINE q == [g EXCEPT !.resumed = FALSE]
<1>1. q \in ServerTypes /\ GdbAgrees(q)
  BY DEF GdbInv, ServerTypes, GdbAgrees
<1>2. PICK r \in GD!Processed(q, g.state = "Stopped") :
          /\ g' = r.g
          /\ phase' = IF r.g.state \in {"Stopped", "Done"} THEN "poll" ELSE "run"
  BY DEF GD!Poll
<1>3. g' \in ServerTypes /\ GdbAgrees(g') /\ MayRun(g')
  <2> HIDE DEF q
  <2>1. QED
    BY <1>1, <1>2, ProcessedAgrees
<1>4. g'.state \in GD!States
  BY <1>3 DEF ServerTypes
<1>5. stepping' \in BOOLEAN
  BY DEF GD!Poll, GdbInv
<1>6. phase' = "run" => g'.state \in {"Running", "Sleeping", "Step"}
  BY <1>2, <1>3, <1>4 DEF GD!States, MayRun
<1>7. phase' \in {"poll", "run", "sleep"}
  BY <1>2
<1>8. QED  BY <1>3, <1>5, <1>6, <1>7 DEF GdbInv

LEMMA GdbResetKeeps ==
    ASSUME GD!WellFormed, GdbInv, GD!Reset
    PROVE  GdbInv'
<1>1. /\ g' = [g EXCEPT !.state = "Running", !.pc = GD!ResetVector, !.resetDue = FALSE,
                        !.behind = "reset"]
      /\ phase' = "poll" /\ stepping' = stepping
  BY DEF GD!Reset
<1>2. g' \in ServerTypes /\ GdbAgrees(g')
  BY <1>1 DEF GD!WellFormed, GD!States, GdbInv, ServerTypes, GdbAgrees
<1>3. QED  BY <1>1, <1>2 DEF GdbInv

\* The end of a pass: a new PC, and a step that is done.
LEMMA FinishAgrees ==
    ASSUME NEW q \in ServerTypes, GdbAgrees(q), NEW step \in BOOLEAN, GD!Finish(q, step),
           step => ~(q.connected /\ q.told = "running" /\ q.behind # "crash" /\ q.state = "Stopped")
    PROVE  g' \in ServerTypes /\ GdbAgrees(g') /\ phase' = "poll"
<1>1. PICK a \in Address : g' = [q EXCEPT !.pc = IF q.state = "Running" THEN a ELSE @,
                                         !.state = IF step THEN "StepDone" ELSE @]
  BY Zenon DEF GD!Finish
<1>2. g' \in ServerTypes
  BY <1>1 DEF GD!States, ServerTypes
<1>3. /\ g'.connected = q.connected /\ g'.told = q.told /\ g'.behind = q.behind
      /\ g'.state = IF step THEN "StepDone" ELSE q.state
  BY <1>1 DEF ServerTypes
<1>4. QED  BY <1>2, <1>3 DEF GdbAgrees, GD!Finish

\* What an instruction and the timers leave agrees: a CPU that stops has told
\* so, or has crashed (avr_run_one).
LEMMA RunAgrees ==
    ASSUME NEW q \in ServerTypes, GdbAgrees(q), q.state \in {"Running", "Sleeping", "Step"},
           NEW p \in IF q.state = "Sleeping" THEN {q} ELSE GD!Executed(q),
           NEW late \in BOOLEAN, NEW a \in Address,
           NEW r \in GD!Woken([p EXCEPT !.resetDue = late,
                                        !.pc = IF q.state = "Sleeping" THEN @ ELSE a])
    PROVE  r \in ServerTypes /\ GdbAgrees(r)
<1>1. ~(q.connected /\ q.told = "stopped" /\ q.behind # "reset")
  BY DEF GdbAgrees
<1>2. p \in ServerTypes /\ GdbAgrees(p) /\ (p.state # "Stopped" => 
            ~(p.connected /\ p.told = "stopped" /\ p.behind # "reset"))
  <2>1. CASE p = q
    BY <1>1, <2>1
  <2>2. CASE p = GD!Stop(q)
    BY <2>2, StopAgrees, Zenon DEF GD!Stop, ServerTypes
  <2>3. CASE p \in {[q EXCEPT !.state = "Running"], [q EXCEPT !.state = "Sleeping"],
                    [q EXCEPT !.state = "Stopped", !.behind = "crash"]}
    BY <1>1, <2>3 DEF GD!States, ServerTypes, GdbAgrees
  <2>4. QED  BY <2>1, <2>2, <2>3 DEF GD!Executed
<1> DEFINE n == [p EXCEPT !.resetDue = late, !.pc = IF q.state = "Sleeping" THEN @ ELSE a]
<1>3. /\ n \in ServerTypes
      /\ n.connected = p.connected /\ n.told = p.told /\ n.behind = p.behind /\ n.state = p.state
  BY <1>2 DEF ServerTypes
<1>4. CASE r = n
  BY <1>2, <1>3, <1>4 DEF GdbAgrees
<1>5. CASE n.state = "Sleeping" /\ r = [n EXCEPT !.state = "Running"]
  <2>1. /\ r \in ServerTypes /\ r.state = "Running"
        /\ r.connected = n.connected /\ r.told = n.told /\ r.behind = n.behind
    BY <1>3, <1>5 DEF GD!States, ServerTypes
  <2>2. QED  BY <1>2, <1>3, <1>5, <2>1 DEF GdbAgrees
<1>6. r = n \/ (n.state = "Sleeping" /\ r = [n EXCEPT !.state = "Running"])
  BY DEF GD!Woken
<1>7. QED  BY <1>4, <1>5, <1>6

LEMMA RunKeeps ==
    ASSUME GD!WellFormed, GdbInv, GD!Run
    PROVE  GdbInv'
<1>1. /\ g \in ServerTypes /\ GdbAgrees(g) /\ g.state \in {"Running", "Sleeping", "Step"}
      /\ stepping' \in BOOLEAN
  BY DEF GdbInv, GD!Run
<1>2. PICK a \in Address, late \in BOOLEAN,
           p \in IF g.state = "Sleeping" THEN {g} ELSE GD!Executed(g) :
          \E q \in GD!Woken([p EXCEPT !.resetDue = late,
                                     !.pc = IF g.state = "Sleeping" THEN @ ELSE a]) :
             \/ q.state = "Sleeping" /\ g' = q /\ phase' = "sleep"
             \/ q.state = "Sleeping" /\ g' = [q EXCEPT !.state = "Done"] /\ phase' = "poll"
             \/ q.state # "Sleeping" /\ GD!Finish(q, g.state = "Step")
  BY Zenon DEF GD!Run
<1>3. PICK q \in GD!Woken([p EXCEPT !.resetDue = late,
                                    !.pc = IF g.state = "Sleeping" THEN @ ELSE a]) :
             \/ q.state = "Sleeping" /\ g' = q /\ phase' = "sleep"
             \/ q.state = "Sleeping" /\ g' = [q EXCEPT !.state = "Done"] /\ phase' = "poll"
             \/ q.state # "Sleeping" /\ GD!Finish(q, g.state = "Step")
  BY <1>2
<1>4. q \in ServerTypes /\ GdbAgrees(q)
  BY <1>1, RunAgrees, Zenon
<1>5. CASE q.state = "Sleeping" /\ g' = q /\ phase' = "sleep"
  BY <1>1, <1>4, <1>5 DEF GdbInv
<1>6. CASE q.state = "Sleeping" /\ g' = [q EXCEPT !.state = "Done"] /\ phase' = "poll"
  <2>1. g' \in ServerTypes /\ GdbAgrees(g')
    BY <1>4, <1>6 DEF GD!States, ServerTypes, GdbAgrees
  <2>2. QED  BY <1>1, <1>6, <2>1 DEF GdbInv
<1>7. CASE q.state # "Sleeping" /\ GD!Finish(q, g.state = "Step")
  <2>1. g' \in ServerTypes /\ GdbAgrees(g') /\ phase' = "poll"
    BY <1>4, <1>7, FinishAgrees DEF GdbAgrees
  <2>2. QED  BY <1>1, <2>1 DEF GdbInv
<1>8. QED  BY <1>3, <1>5, <1>6, <1>7

LEMMA SleepKeeps ==
    ASSUME GD!WellFormed, GdbInv, GD!Sleep
    PROVE  GdbInv'
<1>1. PICK wait \in BOOLEAN : \E r \in GD!Processed(g, wait) :
          \/ r.again /\ g' = r.g /\ UNCHANGED phase
          \/ ~r.again /\ GD!Finish(r.g, stepping)
  BY DEF GD!Sleep
<1>2. PICK r \in GD!Processed(g, wait) :
          \/ r.again /\ g' = r.g /\ UNCHANGED phase
          \/ ~r.again /\ GD!Finish(r.g, stepping)
  BY <1>1
<1>3. r.g \in ServerTypes /\ GdbAgrees(r.g)
  BY <1>2, ProcessedAgrees DEF GdbInv
<1>4. stepping' = stepping /\ stepping \in BOOLEAN /\ phase = "sleep"
  BY DEF GD!Sleep, GdbInv
<1>5. g' \in ServerTypes /\ GdbAgrees(g') /\ phase' \in {"sleep", "poll"}
  BY <1>2, <1>3, <1>4, FinishAgrees DEF GdbAgrees
<1>6. QED  BY <1>4, <1>5 DEF GdbInv

LEMMA GdbKeeps ==
    ASSUME GD!WellFormed, GdbInv, GD!Next
    PROVE  GdbInv'
BY PollKeeps, GdbResetKeeps, RunKeeps, SleepKeeps DEF GD!Next

LEMMA GdbShows ==
    ASSUME GdbInv
    PROVE  GD!TypeOK /\ GD!GdbKnows
<1>1. GD!TypeOK
  BY DEF GdbInv, ServerTypes, GD!TypeOK
<1>2. GD!GdbKnows
  BY DEF GdbInv, GdbAgrees, MayRun, GD!GdbKnows
<1>3. QED  BY <1>1, <1>2

-----------------------------------------------------------------------------
(* Lists *)

\* What is left of a list without its last entry, and that entry.
LEMMA FrontProperties ==
    ASSUME NEW S, NEW q \in Seq(S), q # << >>
    PROVE  /\ Len(q) \in Nat \ {0} /\ q[Len(q)] \in S
           /\ SubSeq(q, 1, Len(q) - 1) \in Seq(S)
           /\ Len(SubSeq(q, 1, Len(q) - 1)) = Len(q) - 1
           /\ \A i \in 1 .. Len(q) - 1 : SubSeq(q, 1, Len(q) - 1)[i] = q[i]
<1>1. Len(q) \in Nat \ {0}
  BY EmptySeq
<1>2. \A i \in 1 .. Len(q) : q[i] \in S
  BY ElementOfSeq
<1>3. \A i \in 1 .. Len(q) - 1 : q[i] \in S
  BY <1>1, <1>2
<1>4. /\ SubSeq(q, 1, Len(q) - 1) \in Seq(S)
      /\ Len(SubSeq(q, 1, Len(q) - 1)) = IF 1 <= Len(q) - 1 THEN Len(q) - 1 - 1 + 1 ELSE 0
      /\ \A i \in 1 .. Len(q) - 1 - 1 + 1 : SubSeq(q, 1, Len(q) - 1)[i] = q[1 + i - 1]
  BY <1>1, <1>3, SubSeqProperties
<1> DEFINE n == Len(q)
           front == SubSeq(q, 1, n - 1)
<1>5. n \in Nat \ {0} /\ front \in Seq(S)
  BY <1>1, <1>4
<1>6. Len(front) = IF 1 <= n - 1 THEN n - 1 - 1 + 1 ELSE 0
  BY <1>4
<1>7. \A i \in 1 .. n - 1 - 1 + 1 : front[i] = q[1 + i - 1]
  BY <1>4
<1> HIDE DEF n, front
<1>8. Len(front) = n - 1
  BY <1>5, <1>6
<1>9. \A i \in 1 .. n - 1 : front[i] = q[i]
  <2>1. SUFFICES ASSUME NEW i \in 1 .. n - 1 PROVE front[i] = q[i]
    OBVIOUS
  <2>2. i \in 1 .. n - 1 - 1 + 1 /\ 1 + i - 1 = i
    BY <1>5
  <2>3. QED  BY <1>7, <2>2
<1>10. q[n] \in S
  BY <1>2, <1>5 DEF n
<1>11. QED  BY <1>5, <1>8, <1>9, <1>10 DEF n, front

\* The elements of a finite set of numbers have ranks from one to its size.
LEMMA RankExists ==
    ASSUME NEW S \in SUBSET Nat, IsFiniteSet(S), NEW i \in 1 .. Cardinality(S)
    PROVE  \E c \in S : Cardinality({d \in S : d <= c}) = i
<1> DEFINE Upto(c) == {d \in S : d <= c}
           rank == [c \in S |-> Cardinality(Upto(c))]
           n == Cardinality(S)
<1>1. n \in Nat
  BY FS_CardinalityType
<1>2. ASSUME NEW c \in S
      PROVE  IsFiniteSet(Upto(c)) /\ Cardinality(Upto(c)) \in 1 .. n
  <2>1. Upto(c) \in SUBSET S
    OBVIOUS
  <2>2. c \in Upto(c)
    OBVIOUS
  <2> HIDE DEF Upto, n
  <2>3. IsFiniteSet(Upto(c)) /\ Cardinality(Upto(c)) <= n
    BY <2>1, FS_Subset DEF n
  <2>4. Cardinality(Upto(c)) \in Nat /\ Cardinality(Upto(c)) # 0
    BY <2>2, <2>3, FS_CardinalityType, FS_EmptySet
  <2>5. QED  BY <1>1, <2>3, <2>4
<1>3. ASSUME NEW c \in S, NEW d \in S, c < d
      PROVE  Cardinality(Upto(c)) # Cardinality(Upto(d))
  <2>1. Upto(c) \in SUBSET Upto(d) /\ d \in Upto(d) /\ d \notin Upto(c)
    <3>1. c \in Nat /\ d \in Nat /\ S \subseteq Nat
      OBVIOUS
    <3>2. d \in Upto(d) /\ d \notin Upto(c)
      BY <1>3, <3>1
    <3>3. \A x \in S : x <= c => x <= d
      BY <1>3, <3>1
    <3>4. Upto(c) \subseteq Upto(d)
      BY <3>3
    <3>5. QED  BY <3>2, <3>4
  <2> HIDE DEF Upto
  <2>2. QED  BY <1>2, <2>1, FS_Subset
<1>4. rank \in Injection(S, 1 .. n)
  <2>1. rank \in [S -> 1 .. n]
    BY <1>2
  <2>2. \A c, d \in S : rank[c] = rank[d] => c = d
    <3> HIDE DEF Upto
    <3>1. SUFFICES ASSUME NEW c \in S, NEW d \in S, c # d PROVE rank[c] # rank[d]
      OBVIOUS
    <3>2. c < d \/ d < c
      BY <3>1
    <3>3. QED  BY <1>3, <3>2
  <2> HIDE DEF rank, n
  <2>3. DOMAIN rank = S
    BY <2>1
  <2>4. QED  BY <2>1, <2>2, <2>3 DEF Injection, IsInjective
<1>5. IsFiniteSet(1 .. n) /\ Cardinality(1 .. n) = n
  BY <1>1, UpTo
<1> HIDE DEF rank
<1>6. rank \in Surjection(S, 1 .. n)
  BY <1>4, <1>5, FS_Injection DEF n
<1>7. PICK c \in S : rank[c] = i
  BY <1>6 DEF Surjection
<1>8. QED  BY <1>7 DEF rank

-----------------------------------------------------------------------------
(* The event system *)

Emissions == [chan : Channels, level : EV!Level, strobe : BOOLEAN]
CallTypes ==
    [chan : EV!Routes, level : EV!Level, user : Users \cup {0}, only : SUBSET Users,
     hook : Users \cup {0}, rest : Seq(Emissions)]
EvTypes ==
    [chan : [Channels -> EV!Level], gen : [Channels -> Generators \cup {0}],
     route : [Users -> EV!Routes], told : [Users -> EV!Level],
     calls : Seq(CallTypes), crossed : SUBSET Channels]

\* All calls but the last wait for the hook of a user, and no two for the same.
HooksHold(q) ==
    /\ \A i \in 1 .. Len(q.calls) - 1 : q.calls[i].hook # 0
    /\ \A i, j \in 1 .. Len(q.calls) :
           i # j /\ q.calls[i].hook = q.calls[j].hook => q.calls[i].hook = 0

\* A call tells users that are routed to its channel, and all of them when it
\* has more to emit.
Owns(call, q) ==
    /\ call.hook # 0 => q.route[call.hook] = call.chan
    /\ call.user # 0 => q.route[call.user] = call.chan /\ call.user \in call.only
    /\ call.rest # << >> => call.only = Users
OwnChannel(q) == \A i \in 1 .. Len(q.calls) : Owns(q.calls[i], q)

\* One call emits on a channel that is not crossed, and its level is the
\* channel's.
OneEmission(q) ==
    \A i \in 1 .. Len(q.calls) :
        EV!Emits(q.calls[i]) /\ q.calls[i].chan \notin q.crossed /\ q.calls[i].chan # 0 =>
            /\ q.calls[i].level = q.chan[q.calls[i].chan]
            /\ \A j \in 1 .. Len(q.calls) :
                   EV!Emits(q.calls[j]) /\ q.calls[j].chan = q.calls[i].chan => j = i

\* A call has still to tell the user.
WillTell(call, u, c) == call.chan = c /\ call.user # 0 /\ call.user <= u /\ u \in call.only
Pends(q, u) == \E i \in 1 .. Len(q.calls) : WillTell(q.calls[i], u, q.route[u])

ToldOrPends(q) ==
    \A u \in Users :
        q.route[u] # 0 /\ q.route[u] \notin q.crossed =>
            q.told[u] = q.chan[q.route[u]] \/ Pends(q, u)

EvInv(q) ==
    q \in EvTypes /\ HooksHold(q) /\ OwnChannel(q) /\ OneEmission(q) /\ ToldOrPends(q)

LEMMA EvInitHolds ==
    ASSUME EV!WellFormed, EV!Init
    PROVE  EvInv(evsys)
<1>1. << >> \in Seq(CallTypes) /\ Len(<< >>) = 0
  BY EmptySeq
<1>2. evsys \in EvTypes
  BY <1>1 DEF EV!Init, EV!Level, EV!Routes, EvTypes
<1>3. evsys.calls = << >> /\ evsys.route = [u \in Users |-> 0]
  BY DEF EV!Init
<1>4. HooksHold(evsys) /\ OwnChannel(evsys) /\ OneEmission(evsys)
  BY <1>1, <1>3 DEF HooksHold, OwnChannel, OneEmission
<1>5. ToldOrPends(evsys)
  BY <1>3 DEF ToldOrPends
<1>6. QED  BY <1>2, <1>4, <1>5 DEF EvInv

\* A call that has returned is taken off the stack.
LEMMA WithProperties ==
    ASSUME NEW below \in Seq(CallTypes), NEW call \in CallTypes
    PROVE  /\ EV!With(below, call) \in Seq(CallTypes) /\ Len(below) \in Nat
           /\ Len(EV!With(below, call)) \in {Len(below), Len(below) + 1}
           /\ \A i \in 1 .. Len(below) : EV!With(below, call)[i] = below[i]
           /\ Len(EV!With(below, call)) = Len(below) + 1 =>
                  EV!With(below, call)[Len(below) + 1] = call
           /\ EV!Emits(call) => Len(EV!With(below, call)) = Len(below) + 1
<1>1. Len(below) \in Nat
  BY LenProperties
<1>2. CASE EV!Emits(call) \/ call.rest # << >>
  <2>1. EV!With(below, call) = Append(below, call)
    BY <1>2 DEF EV!With
  <2>2. QED  BY <1>1, <2>1, AppendProperties
<1>3. CASE ~(EV!Emits(call) \/ call.rest # << >>)
  <2>1. EV!With(below, call) = below
    BY <1>3 DEF EV!With
  <2>2. QED  BY <1>1, <1>3, <2>1
<1>4. QED  BY <1>2, <1>3

\* The call on top, and those below it.
LEMMA TopProperties ==
    ASSUME evsys \in EvTypes, ~EV!Idle
    PROVE  /\ Len(evsys.calls) \in Nat \ {0} /\ EV!Top \in CallTypes
           /\ EV!Top = evsys.calls[Len(evsys.calls)]
           /\ EV!Others \in Seq(CallTypes) /\ Len(EV!Others) = Len(evsys.calls) - 1
           /\ \A i \in 1 .. Len(evsys.calls) - 1 : EV!Others[i] = evsys.calls[i]
<1>1. evsys.calls \in Seq(CallTypes) /\ evsys.calls # << >>
  BY DEF EvTypes, EV!Idle
<1>2. EV!Top = evsys.calls[Len(evsys.calls)]
  BY DEF EV!Top
<1>3. EV!Others = SubSeq(evsys.calls, 1, Len(evsys.calls) - 1)
  BY DEF EV!Others
<1> DEFINE q == evsys.calls
<1>4. q \in Seq(CallTypes) /\ q # << >>
  BY <1>1
<1> HIDE DEF q
<1>5. /\ Len(q) \in Nat \ {0} /\ q[Len(q)] \in CallTypes
      /\ SubSeq(q, 1, Len(q) - 1) \in Seq(CallTypes)
      /\ Len(SubSeq(q, 1, Len(q) - 1)) = Len(q) - 1
      /\ \A i \in 1 .. Len(q) - 1 : SubSeq(q, 1, Len(q) - 1)[i] = q[i]
  BY <1>4, FrontProperties
<1>6. EV!Top = q[Len(q)] /\ EV!Others = SubSeq(q, 1, Len(q) - 1)
  BY <1>2, <1>3 DEF q
<1>7. /\ Len(q) \in Nat \ {0} /\ EV!Top \in CallTypes /\ EV!Top = q[Len(q)]
      /\ EV!Others \in Seq(CallTypes) /\ Len(EV!Others) = Len(q) - 1
      /\ \A i \in 1 .. Len(q) - 1 : EV!Others[i] = q[i]
  BY <1>5, <1>6
<1>8. QED  BY <1>7 DEF q

\* The users are gone through in their order.
LEMMA NextUserProperties ==
    ASSUME EV!WellFormed, NEW u \in Nat, NEW users \in SUBSET Users
    PROVE  \/ EV!NextUser(u, users) = 0 /\ \A w \in users : ~(w > u)
           \/ /\ EV!NextUser(u, users) \in users /\ EV!NextUser(u, users) # 0
              /\ EV!NextUser(u, users) > u
              /\ \A w \in users : w > u => EV!NextUser(u, users) <= w
<1> DEFINE later == {w \in users : w > u}
<1>1. users \in SUBSET Nat /\ later \in SUBSET Nat /\ 0 \notin users
  BY DEF EV!WellFormed
<1>2. EV!NextUser(u, users) =
          IF later = {} THEN 0 ELSE CHOOSE w \in later : \A x \in later : w <= x
  BY DEF EV!NextUser
<1>3. CASE later = {}
  BY <1>2, <1>3
<1>4. CASE later # {}
  <2> DEFINE least == CHOOSE w \in later : \A x \in later : w <= x
  <2>1. \E w \in later : \A x \in later : w <= x
    <3> HIDE DEF later
    <3>1. QED
      BY <1>1, <1>4, LeastExists
  <2>2. least \in later /\ \A x \in later : least <= x
    <3> HIDE DEF later
    <3>1. QED
      BY <2>1, Zenon
  <2>3. EV!NextUser(u, users) = least
    BY <1>2, <1>4
  <2> HIDE DEF least
  <2>4. QED  BY <1>1, <2>2, <2>3
<1>5. QED  BY <1>3, <1>4

\* The call on top goes on: it still tells what it was to tell, or has told it.
LEMMA TopGoesOn ==
    ASSUME EvInv(evsys), ~EV!Idle, NEW t \in CallTypes, NEW told \in [Users -> EV!Level],
           evsys' = [evsys EXCEPT !.told = told, !.calls = EV!With(EV!Others, t)],
           t.chan = EV!Top.chan, t.level = EV!Top.level, Owns(t, evsys),
           EV!Emits(t) => EV!Emits(EV!Top),
           t.hook # 0 => \A i \in 1 .. Len(evsys.calls) - 1 : evsys.calls[i].hook # t.hook,
           \A u \in Users :
               evsys.route[u] # 0 /\ evsys.route[u] \notin evsys.crossed =>
                   (WillTell(EV!Top, u, evsys.route[u]) =>
                        WillTell(t, u, evsys.route[u]) \/ told[u] = EV!Top.level),
           \A u \in Users :
               told[u] # evsys.told[u] =>
                   /\ evsys.route[u] = EV!Top.chan /\ told[u] = EV!Top.level
                   /\ EV!Emits(EV!Top)
    PROVE  EvInv(evsys')
<1> DEFINE n == Len(evsys.calls)
           calls == EV!With(EV!Others, t)
           m == Len(calls)
<1>1. /\ evsys \in EvTypes /\ HooksHold(evsys) /\ OwnChannel(evsys) /\ OneEmission(evsys)
      /\ ToldOrPends(evsys)
  BY DEF EvInv
<1>2. /\ n \in Nat \ {0} /\ EV!Top \in CallTypes /\ EV!Top = evsys.calls[n]
      /\ EV!Others \in Seq(CallTypes) /\ Len(EV!Others) = n - 1
      /\ \A i \in 1 .. n - 1 : EV!Others[i] = evsys.calls[i]
  BY <1>1, TopProperties
<1>3. /\ calls \in Seq(CallTypes) /\ m \in {n - 1, n}
      /\ \A i \in 1 .. n - 1 : calls[i] = EV!Others[i]
      /\ m = n => calls[n] = t
      /\ EV!Emits(t) => m = n
  <2> HIDE DEF n
  <2>1. /\ calls \in Seq(CallTypes) /\ m \in {Len(EV!Others), Len(EV!Others) + 1}
        /\ \A i \in 1 .. Len(EV!Others) : calls[i] = EV!Others[i]
        /\ m = Len(EV!Others) + 1 => calls[Len(EV!Others) + 1] = t
        /\ EV!Emits(t) => m = Len(EV!Others) + 1
    BY <1>2, WithProperties
  <2>2. Len(EV!Others) = n - 1 /\ Len(EV!Others) + 1 = n
    BY <1>2
  <2> HIDE DEF calls, m
  <2>3. QED  BY <2>1, <2>2
<1>4. \A i \in 1 .. n - 1 : calls[i] = evsys.calls[i]
  BY <1>2, <1>3
<1>5. /\ evsys'.calls = calls /\ evsys'.told = told
      /\ evsys'.chan = evsys.chan /\ evsys'.gen = evsys.gen /\ evsys'.route = evsys.route
      /\ evsys'.crossed = evsys.crossed
  BY <1>1 DEF EvTypes
<1>6. evsys' \in EvTypes
  <2>1. evsys' = [evsys EXCEPT !.told = told, !.calls = calls]
    OBVIOUS
  <2> HIDE DEF calls
  <2>2. QED  BY <1>1, <1>3, <2>1 DEF EvTypes
<1> HIDE DEF n, calls, m
<1>7. n = Len(evsys.calls) /\ m = Len(evsys'.calls) /\ evsys'.calls = calls
  BY <1>5 DEF n, m, calls
<1>8. HooksHold(evsys')
  <2>1. \A i \in 1 .. n - 1 : evsys.calls[i].hook # 0
    BY <1>1, <1>7 DEF HooksHold
  <2>2. \A i \in 1 .. m - 1 : calls[i].hook # 0
    BY <1>2, <1>3, <1>4, <2>1
  <2>3. \A i, j \in 1 .. n - 1 : i # j => calls[i].hook # calls[j].hook
    <3>1. \A i, j \in 1 .. n : i # j /\ evsys.calls[i].hook = evsys.calls[j].hook =>
                evsys.calls[i].hook = 0
      BY <1>1, <1>7 DEF HooksHold
    <3>2. \A i, j \in 1 .. n - 1 : i # j => evsys.calls[i].hook # evsys.calls[j].hook
      <4>1. 1 .. n - 1 \subseteq 1 .. n
        BY <1>2
      <4>2. QED  BY <2>1, <3>1, <4>1
    <3>3. QED  BY <1>4, <3>2
  <2>4. m = n /\ t.hook # 0 => \A i \in 1 .. n - 1 : calls[i].hook # t.hook
    BY <1>4, <1>7
  <2>5. ASSUME NEW i \in 1 .. m, NEW j \in 1 .. m, i # j, calls[i].hook = calls[j].hook
        PROVE  calls[i].hook = 0
    <3>1. CASE i \in 1 .. n - 1 /\ j \in 1 .. n - 1
      BY <2>3, <2>5, <3>1
    <3>2. CASE i = n
      <4>1. m = n /\ j \in 1 .. n - 1
        BY <1>2, <1>3, <2>5, <3>2
      <4>2. QED  BY <1>3, <2>4, <2>5, <3>2, <4>1
    <3>3. CASE j = n
      <4>1. m = n /\ i \in 1 .. n - 1
        BY <1>2, <1>3, <2>5, <3>3
      <4>2. QED  BY <1>3, <2>4, <2>5, <3>3, <4>1
    <3>4. QED  BY <1>2, <1>3, <3>1, <3>2, <3>3
  <2>6. QED  BY <1>7, <2>2, <2>5 DEF HooksHold
<1>9. OwnChannel(evsys')
  <2>1. ASSUME NEW i \in 1 .. m
        PROVE  Owns(calls[i], evsys')
    <3>1. CASE i \in 1 .. n - 1
      <4>1. Owns(evsys.calls[i], evsys)
        BY <1>1, <1>2, <1>7, <3>1 DEF OwnChannel
      <4>2. QED  BY <1>4, <1>5, <3>1, <4>1 DEF Owns
    <3>2. CASE i = n
      <4>1. calls[i] = t
        BY <1>2, <1>3, <2>1, <3>2
      <4>2. QED  BY <1>5, <4>1 DEF Owns
    <3>3. QED  BY <1>2, <1>3, <3>1, <3>2
  <2>2. QED  BY <1>7, <2>1 DEF OwnChannel
<1>10. \A i \in 1 .. m : /\ i \in 1 .. n /\ calls[i].chan = evsys.calls[i].chan
                         /\ calls[i].level = evsys.calls[i].level
                         /\ EV!Emits(calls[i]) => EV!Emits(evsys.calls[i])
  <2>1. ASSUME NEW i \in 1 .. m
        PROVE  /\ i \in 1 .. n /\ calls[i].chan = evsys.calls[i].chan
               /\ calls[i].level = evsys.calls[i].level
               /\ EV!Emits(calls[i]) => EV!Emits(evsys.calls[i])
    <3>1. i \in 1 .. n /\ (i \in 1 .. n - 1 \/ (i = n /\ m = n))
      BY <1>2, <1>3
    <3>2. QED  BY <1>2, <1>3, <1>4, <3>1
  <2>2. QED  BY <2>1
<1>11. OneEmission(evsys')
  <2>1. \A i \in 1 .. n :
            EV!Emits(evsys.calls[i]) /\ evsys.calls[i].chan \notin evsys.crossed /\ evsys.calls[i].chan # 0 =>
              /\ evsys.calls[i].level = evsys.chan[evsys.calls[i].chan]
              /\ \A j \in 1 .. n :
                    EV!Emits(evsys.calls[j]) /\ evsys.calls[j].chan = evsys.calls[i].chan => j = i
    BY <1>1, <1>7 DEF OneEmission
  <2>2. \A i \in 1 .. m :
            EV!Emits(calls[i]) /\ calls[i].chan \notin evsys.crossed /\ calls[i].chan # 0 =>
              /\ calls[i].level = evsys.chan[calls[i].chan]
              /\ \A j \in 1 .. m : EV!Emits(calls[j]) /\ calls[j].chan = calls[i].chan => j = i
    <3>1. SUFFICES ASSUME NEW i \in 1 .. m, EV!Emits(calls[i]),
                          calls[i].chan \notin evsys.crossed, calls[i].chan # 0
                   PROVE  /\ calls[i].level = evsys.chan[calls[i].chan]
                          /\ \A j \in 1 .. m :
                                EV!Emits(calls[j]) /\ calls[j].chan = calls[i].chan => j = i
      BY Zenon
    <3>2. QED  BY <1>10, <2>1, <3>1
  <2>3. QED  BY <1>5, <1>7, <2>2 DEF OneEmission
<1>12. ToldOrPends(evsys')
  <2>1. SUFFICES ASSUME NEW u \in Users, evsys.route[u] # 0, evsys.route[u] \notin evsys.crossed
                 PROVE  told[u] = evsys.chan[evsys.route[u]] \/ Pends(evsys', u)
    BY <1>5 DEF ToldOrPends
  <2>2. EV!Emits(EV!Top) /\ EV!Top.chan = evsys.route[u] => EV!Top.level = evsys.chan[evsys.route[u]]
    <3>1. n \in 1 .. n
      BY <1>2
    <3>2. QED  BY <1>1, <1>2, <1>7, <2>1, <3>1 DEF OneEmission
  <2>3. ASSUME NEW i \in 1 .. n, WillTell(evsys.calls[i], u, evsys.route[u])
        PROVE  told[u] = evsys.chan[evsys.route[u]] \/ Pends(evsys', u)
    <3>1. CASE i \in 1 .. n - 1
      <4>1. i \in 1 .. m /\ WillTell(calls[i], u, evsys.route[u])
        BY <1>2, <1>3, <1>4, <2>3, <3>1
      <4>2. QED  BY <1>5, <1>7, <4>1 DEF Pends
    <3>2. CASE i = n
      <4>1. WillTell(EV!Top, u, evsys.route[u])
        BY <1>2, <2>3, <3>2
      <4>2. EV!Emits(EV!Top) /\ EV!Top.chan = evsys.route[u]
        BY <4>1 DEF WillTell, EV!Emits
      <4>3. CASE WillTell(t, u, evsys.route[u])
        <5>1. EV!Emits(t)
          BY <4>3 DEF WillTell, EV!Emits
        <5>2. n \in 1 .. m /\ calls[n] = t
          BY <1>2, <1>3, <5>1
        <5>3. QED  BY <1>5, <1>7, <4>3, <5>2 DEF Pends
      <4>4. CASE told[u] = EV!Top.level
        BY <2>2, <4>2, <4>4
      <4>5. QED  BY <2>1, <4>1, <4>3, <4>4
    <3>3. QED  BY <1>2, <3>1, <3>2
  <2>4. CASE told[u] # evsys.told[u]
    BY <2>2, <2>4
  <2>5. CASE told[u] = evsys.told[u]
    <3>1. told[u] = evsys.chan[evsys.route[u]] \/ Pends(evsys, u)
      BY <1>1, <2>1, <2>5 DEF ToldOrPends
    <3>2. QED  BY <1>7, <2>3, <3>1 DEF Pends
  <2>6. QED  BY <2>4, <2>5
<1>13. QED  BY <1>6, <1>8, <1>9, <1>11, <1>12 DEF EvInv

\* The emission that a call begins is the only one of its channel that counts,
\* and the users it will tell are the channel's.
LEMMA EmissionBegins ==
    ASSUME EV!WellFormed, EvInv(evsys), ~EV!Idle, EV!Top.hook = 0, EV!Top.user = 0,
           EV!Top.rest # << >>, NEW it \in Emissions, NEW rest \in Seq(Emissions),
           NEW t, NEW chan, NEW crossed,
           t = [EV!Top EXCEPT !.rest = rest, !.chan = it.chan, !.level = it.level,
                              !.user = EV!NextUser(0, EV!Routed(it.chan, Users))],
           chan = [evsys.chan EXCEPT ![it.chan] = IF it.strobe THEN @ ELSE it.level],
           crossed = IF it.strobe \/ \E i \in DOMAIN EV!Others :
                                        EV!Emits(EV!Others[i]) /\ EV!Others[i].chan = it.chan
                     THEN evsys.crossed \cup {it.chan} ELSE evsys.crossed \ {it.chan},
           evsys' = [evsys EXCEPT !.chan = chan, !.crossed = crossed,
                                  !.calls = EV!With(EV!Others, t)]
    PROVE  EvInv(evsys')
<1> DEFINE n == Len(evsys.calls)
           c == it.chan
           users == EV!Routed(c, Users)
           calls == EV!With(EV!Others, t)
           m == Len(calls)
<1>1. /\ evsys \in EvTypes /\ HooksHold(evsys) /\ OwnChannel(evsys) /\ OneEmission(evsys)
      /\ ToldOrPends(evsys)
  BY DEF EvInv
<1>2. /\ n \in Nat \ {0} /\ EV!Top \in CallTypes /\ EV!Top = evsys.calls[n]
      /\ EV!Others \in Seq(CallTypes) /\ Len(EV!Others) = n - 1
      /\ \A i \in 1 .. n - 1 : EV!Others[i] = evsys.calls[i]
  BY <1>1, TopProperties
<1>3. c \in Channels /\ it.level \in EV!Level /\ it.strobe \in BOOLEAN /\ c # 0 /\ c \in EV!Routes
  BY DEF Emissions, EV!WellFormed, EV!Routes
<1>4. users = {u \in Users : evsys.route[u] = c} /\ Users \in SUBSET (Nat \ {0})
  BY DEF EV!Routed, EV!WellFormed
<1>5. \/ EV!NextUser(0, users) = 0 /\ \A w \in users : ~(w > 0)
      \/ /\ EV!NextUser(0, users) \in users /\ EV!NextUser(0, users) # 0
         /\ \A w \in users : w > 0 => EV!NextUser(0, users) <= w
  <2>1. users \in SUBSET Users /\ 0 \in Nat
    BY <1>4
  <2> HIDE DEF users
  <2>2. QED  BY <2>1, NextUserProperties
<1> DEFINE user == EV!NextUser(0, users)
<1>6. t = [EV!Top EXCEPT !.rest = rest, !.chan = c, !.level = it.level, !.user = user]
  OBVIOUS
<1> HIDE DEF user
<1>7. user \in Users \cup {0}
  BY <1>4, <1>5 DEF user
<1>8. /\ t \in CallTypes /\ t.chan = c /\ t.level = it.level /\ t.user = user /\ t.hook = 0
      /\ t.only = EV!Top.only /\ t.rest = rest
  <2> HIDE DEF c
  <2>1. QED  BY <1>2, <1>3, <1>6, <1>7 DEF CallTypes
<1>9. t.only = Users
  <2>1. n \in 1 .. n
    BY <1>2
  <2>2. QED  BY <1>1, <1>2, <1>8, <2>1 DEF OwnChannel, Owns
<1>10. /\ calls \in Seq(CallTypes) /\ m \in {n - 1, n}
       /\ \A i \in 1 .. n - 1 : calls[i] = EV!Others[i]
       /\ m = n => calls[n] = t
       /\ EV!Emits(t) => m = n
  <2> HIDE DEF n
  <2>1. /\ calls \in Seq(CallTypes) /\ m \in {Len(EV!Others), Len(EV!Others) + 1}
        /\ \A i \in 1 .. Len(EV!Others) : calls[i] = EV!Others[i]
        /\ m = Len(EV!Others) + 1 => calls[Len(EV!Others) + 1] = t
        /\ EV!Emits(t) => m = Len(EV!Others) + 1
    BY <1>2, <1>8, WithProperties
  <2>2. Len(EV!Others) = n - 1 /\ Len(EV!Others) + 1 = n
    BY <1>2
  <2> HIDE DEF calls, m
  <2>3. QED  BY <2>1, <2>2
<1>11. \A i \in 1 .. n - 1 : calls[i] = evsys.calls[i]
  BY <1>2, <1>10
<1>12. evsys' = [evsys EXCEPT !.chan = chan, !.crossed = crossed, !.calls = calls]
  OBVIOUS
<1> HIDE DEF calls
<1>13. /\ evsys'.calls = calls /\ evsys'.chan = chan /\ evsys'.crossed = crossed
       /\ evsys'.gen = evsys.gen /\ evsys'.route = evsys.route /\ evsys'.told = evsys.told
  BY <1>1, <1>12 DEF EvTypes
<1>14. /\ chan \in [Channels -> EV!Level] /\ \A d \in Channels \ {c} : chan[d] = evsys.chan[d]
       /\ ~it.strobe => chan[c] = it.level
  BY <1>1, <1>3 DEF EvTypes
<1> DEFINE inside == \E i \in DOMAIN EV!Others : EV!Emits(EV!Others[i]) /\ EV!Others[i].chan = c
<1>15. inside <=> \E i \in 1 .. n - 1 : EV!Emits(evsys.calls[i]) /\ evsys.calls[i].chan = c
  <2>1. DOMAIN EV!Others = 1 .. n - 1
    BY <1>2, LenProperties
  <2>2. QED  BY <1>2, <2>1
<1>16. /\ crossed \in SUBSET Channels /\ \A d \in Channels \ {c} : d \in crossed <=> d \in evsys.crossed
       /\ c \in crossed <=> it.strobe \/ inside
  <2>1. crossed = IF it.strobe \/ inside THEN evsys.crossed \cup {c} ELSE evsys.crossed \ {c}
    OBVIOUS
  <2>2. evsys.crossed \in SUBSET Channels
    BY <1>1, Zenon DEF EvTypes
  <2> HIDE DEF inside, c
  <2>3. QED  BY <1>3, <2>1, <2>2
<1> HIDE DEF inside, n, m, c, users
<1>17. evsys' \in EvTypes
  BY <1>1, <1>10, <1>12, <1>14, <1>16, ZenonT(30) DEF EvTypes
<1>18. n = Len(evsys.calls) /\ m = Len(evsys'.calls)
  BY <1>13 DEF n, m
<1>19. HooksHold(evsys')
  <2>1. \A i \in 1 .. n - 1 : evsys.calls[i].hook # 0
    BY <1>1, <1>18 DEF HooksHold
  <2>2. \A i \in 1 .. m - 1 : calls[i].hook # 0
    BY <1>2, <1>10, <1>11, <2>1
  <2>3. \A i, j \in 1 .. n : i # j /\ evsys.calls[i].hook = evsys.calls[j].hook =>
            evsys.calls[i].hook = 0
    BY <1>1, <1>18 DEF HooksHold
  <2>4. ASSUME NEW i \in 1 .. m, NEW j \in 1 .. m, i # j, calls[i].hook = calls[j].hook
        PROVE  calls[i].hook = 0
    <3>1. CASE i \in 1 .. n - 1 /\ j \in 1 .. n - 1
      <4>1. i \in 1 .. n /\ j \in 1 .. n
        BY <1>2, <3>1
      <4>2. QED  BY <1>11, <2>3, <2>4, <3>1, <4>1
    <3>2. CASE i = n
      <4>1. m = n
        BY <1>2, <1>10, <2>4, <3>2
      <4>2. QED  BY <1>8, <1>10, <3>2, <4>1
    <3>3. CASE j = n
      <4>1. m = n
        BY <1>2, <1>10, <2>4, <3>3
      <4>2. QED  BY <1>8, <1>10, <2>4, <3>3, <4>1
    <3>4. QED  BY <1>2, <1>10, <3>1, <3>2, <3>3
  <2>5. QED  BY <1>13, <1>18, <2>2, <2>4 DEF HooksHold
<1>20. OwnChannel(evsys')
  <2>1. ASSUME NEW i \in 1 .. m
        PROVE  Owns(calls[i], evsys')
    <3>1. CASE i \in 1 .. n - 1
      <4>1. i \in 1 .. n
        BY <1>2, <3>1
      <4>2. Owns(evsys.calls[i], evsys)
        BY <1>1, <1>18, <4>1 DEF OwnChannel
      <4>3. QED  BY <1>11, <1>13, <3>1, <4>2 DEF Owns
    <3>2. CASE i = n
      <4>1. calls[i] = t
        BY <1>2, <1>10, <2>1, <3>2
      <4>2. user # 0 => user \in Users /\ evsys.route[user] = c
        BY <1>4, <1>5 DEF user, users
      <4>3. QED  BY <1>8, <1>9, <1>13, <4>1, <4>2 DEF Owns
    <3>3. QED  BY <1>2, <1>10, <3>1, <3>2
  <2>2. QED  BY <1>13, <1>18, <2>1, Zenon DEF OwnChannel
<1>21. \A i \in 1 .. m : i \in 1 .. n - 1 \/ (i = n /\ m = n)
  BY <1>2, <1>10
<1>22. OneEmission(evsys')
  <2>1. ASSUME NEW i \in 1 .. m, EV!Emits(calls[i]), calls[i].chan \notin crossed,
               calls[i].chan # 0
        PROVE  /\ calls[i].level = chan[calls[i].chan]
               /\ \A j \in 1 .. m :
                     EV!Emits(calls[j]) /\ calls[j].chan = calls[i].chan => j = i
    <3> DEFINE d == calls[i].chan
    <3>1. d \in Channels
      <4>1. calls[i] \in CallTypes
        BY <1>10, ElementOfSeq DEF m
      <4>2. QED  BY <2>1, <4>1 DEF CallTypes, EV!Routes
    <3>2. CASE i \in 1 .. n - 1
      <4>1. i \in 1 .. n /\ calls[i] = evsys.calls[i]
        BY <1>2, <1>11, <3>2
      <4>2. d # c
        BY <1>15, <1>16, <2>1, <3>2, <4>1
      <4>3. d \notin evsys.crossed /\ chan[d] = evsys.chan[d]
        BY <1>14, <1>16, <2>1, <3>1, <4>2
      <4>4. /\ evsys.calls[i].level = evsys.chan[d]
            /\ \A j \in 1 .. n : EV!Emits(evsys.calls[j]) /\ evsys.calls[j].chan = d => j = i
        BY <1>1, <1>18, <2>1, <4>1, <4>3 DEF OneEmission
      <4>5. ASSUME NEW j \in 1 .. m, EV!Emits(calls[j]), calls[j].chan = d
            PROVE  j = i
        <5>1. j # n \/ m # n
          BY <1>8, <1>10, <4>2, <4>5
        <5>2. j \in 1 .. n - 1 /\ j \in 1 .. n
          BY <1>2, <1>21, <5>1
        <5>3. QED  BY <1>11, <4>4, <4>5, <5>2
      <4>6. QED  BY <4>1, <4>3, <4>4, <4>5
    <3>3. CASE i = n /\ m = n
      <4>1. calls[i] = t /\ d = c
        BY <1>8, <1>10, <3>3
      <4>2. ~it.strobe /\ ~inside
        BY <1>16, <2>1, <4>1
      <4>3. calls[i].level = chan[d]
        BY <1>8, <1>14, <4>1, <4>2
      <4>4. ASSUME NEW j \in 1 .. m, EV!Emits(calls[j]), calls[j].chan = d
            PROVE  j = i
        BY <1>11, <1>15, <1>21, <3>3, <4>1, <4>2, <4>4
      <4>5. QED  BY <4>3, <4>4
    <3>4. QED  BY <1>21, <3>2, <3>3
  <2>2. QED  BY <1>13, <1>18, <2>1 DEF OneEmission
<1>23. ToldOrPends(evsys')
  <2>1. SUFFICES ASSUME NEW u \in Users, evsys.route[u] # 0, evsys.route[u] \notin crossed
                 PROVE  evsys.told[u] = chan[evsys.route[u]] \/ Pends(evsys', u)
    BY <1>13, Zenon DEF ToldOrPends
  <2>2. evsys.route[u] \in Channels
    BY <1>1, <2>1 DEF EvTypes, EV!Routes
  <2>3. CASE evsys.route[u] = c
    <3>1. u \in users /\ u > 0 /\ 0 \notin users
      BY <1>4, <2>3 DEF users
    <3>2. user # 0 /\ user <= u
      BY <1>5, <3>1 DEF user
    <3>3. WillTell(t, u, c)
      BY <1>8, <1>9, <3>2 DEF WillTell
    <3>4. EV!Emits(t)
      BY <1>8, <3>2 DEF EV!Emits
    <3>5. n \in 1 .. m /\ calls[n] = t
      BY <1>2, <1>10, <3>4
    <3>6. QED  BY <1>13, <1>18, <2>3, <3>3, <3>5 DEF Pends
  <2>4. CASE evsys.route[u] # c
    <3>1. evsys.route[u] \notin evsys.crossed /\ chan[evsys.route[u]] = evsys.chan[evsys.route[u]]
      BY <1>14, <1>16, <2>1, <2>2, <2>4
    <3>2. evsys.told[u] = evsys.chan[evsys.route[u]] \/ Pends(evsys, u)
      BY <1>1, <2>1, <3>1 DEF ToldOrPends
    <3>3. ASSUME NEW i \in 1 .. n, WillTell(evsys.calls[i], u, evsys.route[u])
          PROVE  Pends(evsys', u)
      <4>1. i # n
        BY <1>2, <3>3 DEF WillTell
      <4>2. i \in 1 .. n - 1 /\ i \in 1 .. m
        BY <1>2, <1>10, <4>1
      <4>3. QED  BY <1>11, <1>13, <1>18, <3>3, <4>2 DEF Pends
    <3>4. QED  BY <1>18, <3>1, <3>2, <3>3 DEF Pends
  <2>5. QED  BY <2>3, <2>4
<1>24. QED  BY <1>17, <1>19, <1>20, <1>22, <1>23 DEF EvInv

LEMMA BeginKeeps ==
    ASSUME EV!WellFormed, EvInv(evsys), EV!Begin
    PROVE  EvInv(evsys')
<1> DEFINE it == Head(EV!Top.rest)
           top == [EV!Top EXCEPT !.rest = Tail(@)]
<1>1. /\ evsys \in EvTypes /\ ~EV!Idle /\ EV!Top.hook = 0 /\ EV!Top.user = 0
      /\ EV!Top.rest # << >>
  BY DEF EvInv, EV!Begin, EV!NoUser
<1>2. EV!Top \in CallTypes /\ EV!Top = evsys.calls[Len(evsys.calls)]
      /\ Len(evsys.calls) \in 1 .. Len(evsys.calls)
  BY <1>1, TopProperties
<1>3. it \in Emissions /\ Tail(EV!Top.rest) \in Seq(Emissions)
  <2>1. EV!Top.rest \in Seq(Emissions)
    BY <1>2 DEF CallTypes
  <2>2. QED  BY <1>1, <2>1, HeadTailProperties
<1>4. CASE EV!Repeated(it)
  <2>1. evsys' = [evsys EXCEPT !.calls = EV!With(EV!Others, top)]
    BY <1>4 DEF EV!Begin
  <2>2. /\ top \in CallTypes /\ top.chan = EV!Top.chan /\ top.level = EV!Top.level
        /\ top.user = 0 /\ top.hook = 0 /\ top.only = EV!Top.only
    BY <1>1, <1>2, <1>3 DEF CallTypes
  <2> HIDE DEF top
  <2>3. ~EV!Emits(top)
    BY <2>2 DEF EV!Emits, EV!NoUser
  <2>4. EV!Top.only = Users
    BY <1>1, <1>2 DEF EvInv, OwnChannel, Owns
  <2>5. Owns(top, evsys)
    BY <2>2, <2>4 DEF Owns
  <2>6. evsys.told \in [Users -> EV!Level]
    BY <1>1 DEF EvTypes
  <2>7. evsys' = [evsys EXCEPT !.told = evsys.told, !.calls = EV!With(EV!Others, top)]
    <3>1. evsys = [evsys EXCEPT !.told = evsys.told]
      BY <1>1 DEF EvTypes
    <3>2. QED  BY <2>1, <3>1, Zenon
  <2>8. \A u \in Users : ~WillTell(EV!Top, u, evsys.route[u])
    BY <1>1, Zenon DEF WillTell
  <2>9. QED
    BY <1>1, <2>2, <2>3, <2>5, <2>6, <2>7, <2>8, TopGoesOn, Zenon
<1>5. CASE ~EV!Repeated(it)
  <2> DEFINE t == [EV!Top EXCEPT !.rest = Tail(EV!Top.rest), !.chan = it.chan, !.level = it.level,
                                 !.user = EV!NextUser(0, EV!Routed(it.chan, Users))]
             inside == \E i \in DOMAIN EV!Others :
                           EV!Emits(EV!Others[i]) /\ EV!Others[i].chan = it.chan
             chan == [evsys.chan EXCEPT ![it.chan] = IF it.strobe THEN @ ELSE it.level]
             crossed == IF it.strobe \/ inside
                        THEN evsys.crossed \cup {it.chan} ELSE evsys.crossed \ {it.chan}
  <2>1. evsys' = [evsys EXCEPT !.chan = chan, !.crossed = crossed,
                               !.calls = EV!With(EV!Others, t)]
    BY <1>5, Zenon DEF EV!Begin
  <2>2. QED
    BY <1>1, <1>3, <2>1, EmissionBegins, Zenon
<1>6. QED  BY <1>4, <1>5

LEMMA TellKeeps ==
    ASSUME EV!WellFormed, EvInv(evsys), EV!Tell
    PROVE  EvInv(evsys')
<1> DEFINE u == EV!Top.user
           n == Len(evsys.calls)
           users == EV!Routed(EV!Top.chan, EV!Top.only)
           next == EV!NextUser(u, users)
<1>1. /\ evsys \in EvTypes /\ ~EV!Idle /\ EV!Top.hook = 0 /\ u # 0
      /\ HooksHold(evsys) /\ OwnChannel(evsys) /\ OneEmission(evsys)
  BY DEF EvInv, EV!Tell, EV!NoUser
<1>2. EV!Top \in CallTypes /\ EV!Top = evsys.calls[n] /\ n \in 1 .. n /\ n \in Nat \ {0}
  BY <1>1, TopProperties
<1>3. /\ u \in Users /\ evsys.route[u] = EV!Top.chan /\ u \in EV!Top.only
      /\ EV!Top.rest # << >> => EV!Top.only = Users
      /\ Users \in SUBSET (Nat \ {0}) /\ EV!Top.only \in SUBSET Users
  <2>1. Owns(EV!Top, evsys)
    BY <1>1, <1>2 DEF OwnChannel
  <2>2. QED  BY <1>1, <1>2, <2>1 DEF Owns, CallTypes, EV!WellFormed
<1>4. users = {v \in EV!Top.only : evsys.route[v] = EV!Top.chan}
  BY DEF EV!Routed
<1>5. \/ next = 0 /\ \A w \in users : ~(w > u)
      \/ next \in users /\ next # 0 /\ \A w \in users : w > u => next <= w
  <2>1. users \in SUBSET Users /\ u \in Nat
    BY <1>3, <1>4
  <2> HIDE DEF users, u
  <2>2. QED  BY <2>1, NextUserProperties
<1>6. next \in Users \cup {0}
  BY <1>3, <1>4, <1>5
<1>7. EV!Emits(EV!Top)
  BY <1>1 DEF EV!Emits
<1>8. ASSUME NEW v \in Users, WillTell(EV!Top, v, evsys.route[v]), v # u
      PROVE  next # 0 /\ next <= v /\ v \in EV!Top.only /\ EV!Top.chan = evsys.route[v]
  <2>1. v \in users /\ v >= u
    BY <1>3, <1>4, <1>8 DEF WillTell
  <2>2. u \in Nat /\ v \in Nat
    BY <1>3
  <2>3. v > u
    <3> HIDE DEF u, users, next
    <3>1. QED  BY <1>8, <2>1, <2>2
  <2> HIDE DEF next, users, u
  <2>4. QED  BY <1>5, <1>8, <2>1, <2>2, <2>3 DEF WillTell
<1> HIDE DEF next
<1>9. CASE u \in EV!Running
  <2> DEFINE t == [EV!Top EXCEPT !.user = next]
  <2>1. evsys' = [evsys EXCEPT !.calls = EV!With(EV!Others, t)]
    BY <1>9, Zenon DEF EV!Tell, next, users
  <2>2. /\ t \in CallTypes /\ t.chan = EV!Top.chan /\ t.level = EV!Top.level
        /\ t.user = next /\ t.hook = 0 /\ t.only = EV!Top.only /\ t.rest = EV!Top.rest
    BY <1>1, <1>2, <1>6 DEF CallTypes
  <2> HIDE DEF t
  <2>3. next # 0 => evsys.route[next] = EV!Top.chan /\ next \in EV!Top.only
    BY <1>4, <1>5
  <2>4. Owns(t, evsys)
    BY <1>3, <2>2, <2>3 DEF Owns
  <2>5. evsys.told \in [Users -> EV!Level]
    BY <1>1 DEF EvTypes
  <2>6. evsys' = [evsys EXCEPT !.told = evsys.told, !.calls = EV!With(EV!Others, t)]
    <3>1. evsys = [evsys EXCEPT !.told = evsys.told]
      BY <1>1 DEF EvTypes
    <3>2. QED  BY <2>1, <3>1, Zenon
  <2>7. EV!Top.chan \in evsys.crossed \/ EV!Top.chan = 0
    <3>1. PICK i \in DOMAIN evsys.calls : evsys.calls[i].hook = u
      BY <1>9 DEF EV!Running
    <3>2. i \in 1 .. n /\ i # n
      <4>1. evsys.calls \in Seq(CallTypes)
        BY <1>1 DEF EvTypes
      <4>2. DOMAIN evsys.calls = 1 .. n
        BY <4>1, LenProperties
      <4>3. QED  BY <1>1, <1>2, <3>1, <4>2
    <3>3. evsys.calls[i].chan = EV!Top.chan
      <4>1. Owns(evsys.calls[i], evsys)
        BY <1>1, <3>2 DEF OwnChannel
      <4>2. QED  BY <1>1, <1>3, <3>1, <4>1 DEF Owns
    <3>4. EV!Emits(evsys.calls[i])
      BY <1>1, <3>1 DEF EV!Emits, EV!NoUser
    <3> HIDE DEF n
    <3>5. QED  BY <1>1, <1>2, <1>7, <3>2, <3>3, <3>4 DEF OneEmission, n
  <2>8. \A v \in Users :
            evsys.route[v] # 0 /\ evsys.route[v] \notin evsys.crossed =>
                (WillTell(EV!Top, v, evsys.route[v]) =>
                     WillTell(t, v, evsys.route[v]) \/ evsys.told[v] = EV!Top.level)
    <3>1. SUFFICES ASSUME NEW v \in Users, EV!Top.chan # 0, EV!Top.chan \notin evsys.crossed,
                          WillTell(EV!Top, v, evsys.route[v])
                   PROVE  WillTell(t, v, evsys.route[v])
      BY Zenon DEF WillTell
    <3>2. v # u
      BY <1>3, <2>7, <3>1
    <3>3. QED  BY <1>8, <2>2, <3>1, <3>2 DEF WillTell
  <2>9. QED
    BY <1>1, <1>7, <2>2, <2>4, <2>5, <2>6, <2>8, TopGoesOn, Zenon
<1>10. CASE u \notin EV!Running
  <2> DEFINE t == [EV!Top EXCEPT !.user = next, !.hook = u]
             told == [evsys.told EXCEPT ![u] = EV!Top.level]
  <2>1. evsys' = [evsys EXCEPT !.told = told, !.calls = Append(EV!Others, t)]
    BY <1>10, Zenon DEF EV!Tell, next, users
  <2>2. /\ t \in CallTypes /\ t.chan = EV!Top.chan /\ t.level = EV!Top.level
        /\ t.user = next /\ t.hook = u /\ t.only = EV!Top.only /\ t.rest = EV!Top.rest
    BY <1>1, <1>2, <1>3, <1>6 DEF CallTypes
  <2> HIDE DEF t
  <2>3. EV!With(EV!Others, t) = Append(EV!Others, t)
    BY <1>1, <2>2 DEF EV!With, EV!Emits, EV!NoUser
  <2>4. evsys' = [evsys EXCEPT !.told = told, !.calls = EV!With(EV!Others, t)]
    BY <2>1, <2>3, Zenon
  <2>5. /\ told \in [Users -> EV!Level] /\ told[u] = EV!Top.level
        /\ \A v \in Users \ {u} : told[v] = evsys.told[v]
    BY <1>1, <1>2, <1>3 DEF EvTypes, CallTypes
  <2> HIDE DEF told
  <2>6. next # 0 => evsys.route[next] = EV!Top.chan /\ next \in EV!Top.only
    BY <1>4, <1>5
  <2>7. Owns(t, evsys)
    BY <1>3, <2>2, <2>6 DEF Owns
  <2>8. \A i \in 1 .. n - 1 : evsys.calls[i].hook # u
    <3>1. evsys.calls \in Seq(CallTypes)
      BY <1>1 DEF EvTypes
    <3>2. DOMAIN evsys.calls = 1 .. n
      BY <3>1, LenProperties
    <3>3. \A i \in 1 .. n : evsys.calls[i].hook # u
      BY <1>1, <1>10, <3>2 DEF EV!Running, EV!NoUser
    <3>4. QED  BY <1>2, <3>3
  <2>9. \A v \in Users :
            evsys.route[v] # 0 /\ evsys.route[v] \notin evsys.crossed =>
                (WillTell(EV!Top, v, evsys.route[v]) =>
                     WillTell(t, v, evsys.route[v]) \/ told[v] = EV!Top.level)
    <3>1. SUFFICES ASSUME NEW v \in Users, WillTell(EV!Top, v, evsys.route[v]), v # u
                   PROVE  WillTell(t, v, evsys.route[v])
      BY <2>5
    <3>2. QED  BY <1>8, <2>2, <3>1 DEF WillTell
  <2>10. \A v \in Users :
            told[v] # evsys.told[v] =>
                /\ evsys.route[v] = EV!Top.chan /\ told[v] = EV!Top.level
                /\ EV!Emits(EV!Top)
    BY <1>3, <1>7, <2>5
  <2>11. \A i \in 1 .. Len(evsys.calls) - 1 : evsys.calls[i].hook # t.hook
    BY <2>2, <2>8
  <2>12. t.chan = EV!Top.chan /\ t.level = EV!Top.level
    BY <2>2
  <2> HIDE DEF u, n, users
  <2>13. QED
    BY <1>1, <1>7, <2>2, <2>4, <2>5, <2>7, <2>9, <2>10, <2>11, <2>12, TopGoesOn, Zenon
<1>11. QED  BY <1>9, <1>10

LEMMA HookReturnsKeeps ==
    ASSUME EvInv(evsys), EV!HookReturns
    PROVE  EvInv(evsys')
<1> DEFINE t == [EV!Top EXCEPT !.hook = 0]
<1>1. evsys \in EvTypes /\ ~EV!Idle /\ EV!Top.hook # 0 /\ OwnChannel(evsys)
  BY DEF EvInv, EV!HookReturns, EV!NoUser
<1>2. EV!Top \in CallTypes /\ EV!Top = evsys.calls[Len(evsys.calls)]
      /\ Len(evsys.calls) \in 1 .. Len(evsys.calls)
  BY <1>1, TopProperties
<1>3. evsys' = [evsys EXCEPT !.calls = EV!With(EV!Others, t)]
  BY Zenon DEF EV!HookReturns, EV!NoUser
<1>4. /\ t \in CallTypes /\ t.chan = EV!Top.chan /\ t.level = EV!Top.level
      /\ t.user = EV!Top.user /\ t.hook = 0 /\ t.only = EV!Top.only /\ t.rest = EV!Top.rest
  BY <1>2 DEF CallTypes
<1> HIDE DEF t
<1>5. Owns(EV!Top, evsys)
  BY <1>1, <1>2 DEF OwnChannel
<1>6. Owns(t, evsys)
  BY <1>4, <1>5 DEF Owns
<1>7. EV!Emits(EV!Top)
  BY <1>1 DEF EV!Emits, EV!NoUser
<1>8. evsys.told \in [Users -> EV!Level]
  BY <1>1 DEF EvTypes
<1>9. evsys' = [evsys EXCEPT !.told = evsys.told, !.calls = EV!With(EV!Others, t)]
  <2>1. evsys = [evsys EXCEPT !.told = evsys.told]
    BY <1>1 DEF EvTypes
  <2>2. QED  BY <1>3, <2>1, Zenon
<1>10. \A v \in Users : WillTell(EV!Top, v, evsys.route[v]) => WillTell(t, v, evsys.route[v])
  BY <1>4 DEF WillTell
<1>11. QED
  BY <1>1, <1>4, <1>6, <1>7, <1>8, <1>9, <1>10, TopGoesOn, Zenon

\* A call that has yet to emit changes nothing of those below it.
LEMMA CallBegins ==
    ASSUME EvInv(evsys), EV!InControl, NEW rest \in Seq(Emissions),
           evsys' = [evsys EXCEPT !.calls = EV!With(evsys.calls, EV!Call(rest))]
    PROVE  EvInv(evsys')
<1> DEFINE n == Len(evsys.calls)
           call == EV!Call(rest)
           calls == EV!With(evsys.calls, call)
           m == Len(calls)
<1>1. /\ evsys \in EvTypes /\ HooksHold(evsys) /\ OwnChannel(evsys) /\ OneEmission(evsys)
      /\ ToldOrPends(evsys)
  BY DEF EvInv
<1>2. /\ call \in CallTypes /\ call.chan = 0 /\ call.hook = 0 /\ call.user = 0
      /\ call.only = Users
  BY DEF EV!Call, EV!Routes, EV!Level, EV!NoUser, CallTypes
<1> HIDE DEF call
<1>3. ~EV!Emits(call)
  BY <1>2 DEF EV!Emits, EV!NoUser
<1>4. evsys.calls \in Seq(CallTypes) /\ n \in Nat
  BY <1>1, LenProperties DEF EvTypes
<1>5. /\ calls \in Seq(CallTypes) /\ m \in {n, n + 1}
      /\ \A i \in 1 .. n : calls[i] = evsys.calls[i]
      /\ m = n + 1 => calls[n + 1] = call
  BY <1>2, <1>4, WithProperties
<1>6. evsys' = [evsys EXCEPT !.calls = calls]
  BY DEF call
<1> HIDE DEF calls
<1>7. /\ evsys'.calls = calls /\ evsys'.chan = evsys.chan /\ evsys'.crossed = evsys.crossed
      /\ evsys'.gen = evsys.gen /\ evsys'.route = evsys.route /\ evsys'.told = evsys.told
  BY <1>1, <1>6 DEF EvTypes
<1>8. evsys' \in EvTypes
  BY <1>1, <1>5, <1>6 DEF EvTypes
<1> HIDE DEF n, m
<1>9. n = Len(evsys.calls) /\ m = Len(evsys'.calls)
  BY <1>7 DEF n, m
<1>10. \A i \in 1 .. m : i \in 1 .. n \/ (i = n + 1 /\ m = n + 1)
  BY <1>4, <1>5
<1>11. \A i \in 1 .. n : evsys.calls[i].hook # 0
  <2>1. \A i \in 1 .. n - 1 : evsys.calls[i].hook # 0
    BY <1>1, <1>9 DEF HooksHold
  <2>2. n # 0 => evsys.calls[n].hook # 0
    <3>1. n # 0 => ~EV!Idle
      BY <1>4, <1>9, EmptySeq DEF EV!Idle
    <3>2. QED  BY <1>9, <3>1 DEF EV!InControl, EV!NoUser
  <2>3. QED  BY <1>4, <2>1, <2>2
<1>12. HooksHold(evsys')
  <2>1. \A i \in 1 .. m - 1 : calls[i].hook # 0
    <3>1. \A i \in 1 .. m - 1 : i \in 1 .. n
      BY <1>4, <1>5
    <3>2. QED  BY <1>5, <1>11, <3>1
  <2>2. ASSUME NEW i \in 1 .. m, NEW j \in 1 .. m, i # j, calls[i].hook = calls[j].hook
        PROVE  calls[i].hook = 0
    <3>1. CASE i \in 1 .. n /\ j \in 1 .. n
      BY <1>1, <1>5, <1>9, <2>2, <3>1 DEF HooksHold
    <3>2. CASE i = n + 1 /\ m = n + 1
      BY <1>2, <1>5, <3>2
    <3>3. CASE j = n + 1 /\ m = n + 1
      BY <1>2, <1>5, <2>2, <3>3
    <3>4. QED  BY <1>10, <3>1, <3>2, <3>3
  <2>3. QED  BY <1>7, <1>9, <2>1, <2>2 DEF HooksHold
<1>13. OwnChannel(evsys')
  <2>1. ASSUME NEW i \in 1 .. m
        PROVE  Owns(calls[i], evsys')
    <3>1. CASE i \in 1 .. n
      <4>1. Owns(evsys.calls[i], evsys)
        BY <1>1, <1>9, <3>1 DEF OwnChannel
      <4>2. QED  BY <1>5, <1>7, <3>1, <4>1 DEF Owns
    <3>2. CASE i = n + 1 /\ m = n + 1
      BY <1>2, <1>5, <3>2 DEF Owns
    <3>3. QED  BY <1>10, <3>1, <3>2
  <2>2. QED  BY <1>7, <1>9, <2>1 DEF OwnChannel
<1>14. \A i \in 1 .. m : EV!Emits(calls[i]) => i \in 1 .. n
  BY <1>3, <1>5, <1>10
<1>15. OneEmission(evsys')
  <2>1. \A i \in 1 .. n :
            EV!Emits(evsys.calls[i]) /\ evsys.calls[i].chan \notin evsys.crossed /\ evsys.calls[i].chan # 0 =>
              /\ evsys.calls[i].level = evsys.chan[evsys.calls[i].chan]
              /\ \A j \in 1 .. n :
                    EV!Emits(evsys.calls[j]) /\ evsys.calls[j].chan = evsys.calls[i].chan => j = i
    BY <1>1, <1>9 DEF OneEmission
  <2>2. ASSUME NEW i \in 1 .. m, EV!Emits(calls[i]), calls[i].chan \notin evsys.crossed,
               calls[i].chan # 0
        PROVE  /\ calls[i].level = evsys.chan[calls[i].chan]
               /\ \A j \in 1 .. m :
                     EV!Emits(calls[j]) /\ calls[j].chan = calls[i].chan => j = i
    BY <1>5, <1>14, <2>1, <2>2
  <2>3. QED  BY <1>7, <1>9, <2>2 DEF OneEmission
<1>16. ToldOrPends(evsys')
  <2>1. \A i \in 1 .. n : i \in 1 .. m
    BY <1>4, <1>5
  <2>2. \A u \in Users : Pends(evsys, u) => Pends(evsys', u)
    BY <1>5, <1>7, <1>9, <2>1 DEF Pends
  <2>3. QED  BY <1>1, <1>7, <2>2 DEF ToldOrPends
<1>17. QED  BY <1>8, <1>12, <1>13, <1>15, <1>16 DEF EvInv

\* A list of channels has only those, and as many as there are.
LEMMA InOrderProperties ==
    ASSUME EV!WellFormed, NEW channels \in SUBSET Channels
    PROVE  EV!InOrder(channels) \in Seq(Channels)
<1> DEFINE n == Cardinality(channels)
           list == EV!InOrder(channels)
<1>1. channels \in SUBSET Nat /\ IsFiniteSet(channels)
  <2>1. Channels \in SUBSET Nat
    BY DEF EV!WellFormed
  <2>2. IsFiniteSet(Channels)
    BY Zenon DEF EV!WellFormed, EV!IsFiniteSet, IsFiniteSet
  <2>3. QED  BY <2>1, <2>2, FS_Subset
<1>2. n \in Nat
  BY <1>1, FS_CardinalityType
<1>3. \A S : EV!Cardinality(S) = Cardinality(S)
  BY Zenon DEF EV!Cardinality, Cardinality, EV!IsFiniteSet, IsFiniteSet
<1>4. EV!Cardinality(channels) = n
  BY <1>3
<1>5. ASSUME NEW i \in 1 .. n
      PROVE  (CHOOSE c \in channels : EV!Cardinality({d \in channels : d <= c}) = i) \in Channels
  <2>1. \E c \in channels : Cardinality({d \in channels : d <= c}) = i
    BY <1>1, RankExists
  <2>2. \E c \in channels : EV!Cardinality({d \in channels : d <= c}) = i
    BY <1>3, <2>1, Zenon
  <2>3. QED  BY <2>2, Zenon
<1>6. list \in [1 .. n -> Channels]
  BY <1>4, <1>5 DEF EV!InOrder
<1>7. QED  BY <1>2, <1>6, SeqDef

LEMMA InputKeeps ==
    ASSUME EvInv(evsys), NEW c \in Channels, NEW n \in EV!Level, EV!Input(c, n)
    PROVE  EvInv(evsys')
<1>1. EV!Drive(c, n) \in Emissions
  BY DEF EV!Drive, Emissions
<1>2. <<EV!Drive(c, n)>> \in Seq(Emissions)
  BY <1>1
<1>3. EV!InControl /\ evsys' = [evsys EXCEPT !.calls = EV!With(evsys.calls, EV!Call(<<EV!Drive(c, n)>>))]
  BY Zenon DEF EV!Input
<1>4. QED  BY <1>2, <1>3, CallBegins

LEMMA GenerateKeeps ==
    ASSUME EV!WellFormed, EvInv(evsys), NEW k \in Generators, NEW n \in EV!Level,
           EV!Generate(k, n)
    PROVE  EvInv(evsys')
<1> DEFINE channels == EV!InOrder({c \in Channels : evsys.gen[c] = k})
           drives == [i \in DOMAIN channels |-> EV!Drive(channels[i], n)]
<1>1. channels \in Seq(Channels)
  BY InOrderProperties
<1> HIDE DEF channels
<1>2. Len(channels) \in Nat /\ DOMAIN channels = 1 .. Len(channels)
      /\ \A i \in 1 .. Len(channels) : channels[i] \in Channels
  BY <1>1, LenProperties, ElementOfSeq
<1>3. drives \in [1 .. Len(channels) -> Emissions]
  BY <1>2 DEF EV!Drive, Emissions
<1>4. drives \in Seq(Emissions)
  BY <1>2, <1>3, SeqDef
<1>5. EV!InControl /\ evsys' = [evsys EXCEPT !.calls = EV!With(evsys.calls, EV!Call(drives))]
  BY Zenon DEF EV!Generate, channels
<1> HIDE DEF drives
<1>6. QED  BY <1>4, <1>5, CallBegins

LEMMA StrobeKeeps ==
    ASSUME EV!WellFormed, EvInv(evsys), NEW channels \in SUBSET Channels,
           EV!WriteStrobe(channels)
    PROVE  EvInv(evsys')
<1> DEFINE list == EV!InOrder(channels)
           pulses == EV!Pulses(list)
<1>1. list \in Seq(Channels)
  BY InOrderProperties
<1> HIDE DEF list
<1>2. Len(list) \in Nat /\ \A i \in 1 .. Len(list) : list[i] \in Channels
  BY <1>1, LenProperties, ElementOfSeq
<1>3. pulses \in [1 .. 2 * Len(list) -> Emissions]
  <2>1. ASSUME NEW i \in 1 .. 2 * Len(list)
        PROVE  (i + 1) \div 2 \in 1 .. Len(list) /\ i % 2 \in {0, 1}
    BY <1>2
  <2>2. \A i \in 1 .. 2 * Len(list) : list[(i + 1) \div 2] \in Channels
    BY <1>2, <2>1
  <2>3. QED  BY <2>1, <2>2 DEF EV!Pulses, Emissions, EV!Level
<1>4. pulses \in Seq(Emissions)
  <2>1. 2 * Len(list) \in Nat
    BY <1>2
  <2>2. QED  BY <1>3, <2>1, SeqDef
<1> HIDE DEF pulses
<1>5. EV!Idle /\ evsys.calls = << >>
  BY DEF EV!WriteStrobe, EV!Idle
<1>6. evsys' = [evsys EXCEPT !.calls = EV!With(evsys.calls, EV!Call(pulses))]
  BY <1>5, Zenon DEF EV!WriteStrobe, pulses, list
<1>7. QED  BY <1>4, <1>5, <1>6, CallBegins DEF EV!InControl

\* With no call under way, what a call says is said of none.
LEMMA IdleProperties ==
    ASSUME NEW q, q.calls = << >>
    PROVE  HooksHold(q) /\ OwnChannel(q) /\ OneEmission(q) /\ \A u : ~Pends(q, u)
<1>1. Len(q.calls) = 0
  BY EmptySeq
<1>2. QED  BY <1>1 DEF HooksHold, OwnChannel, OneEmission, Pends

LEMMA WriteChannelKeeps ==
    ASSUME EvInv(evsys), NEW c \in Channels, NEW k \in Generators \cup {0},
           EV!WriteChannel(c, k)
    PROVE  EvInv(evsys')
<1>1. evsys \in EvTypes /\ ToldOrPends(evsys) /\ evsys.calls = << >>
  BY DEF EvInv, EV!WriteChannel, EV!Idle
<1>2. /\ evsys' \in EvTypes
      /\ evsys'.calls = << >> /\ evsys'.chan = evsys.chan /\ evsys'.crossed = evsys.crossed
      /\ evsys'.route = evsys.route /\ evsys'.told = evsys.told
  BY <1>1 DEF EvTypes, EV!WriteChannel
<1>3. ToldOrPends(evsys')
  BY <1>1, <1>2, IdleProperties DEF ToldOrPends
<1>4. QED  BY <1>2, <1>3, IdleProperties DEF EvInv

LEMMA WriteUserKeeps ==
    ASSUME EV!WellFormed, EvInv(evsys), NEW u \in Users, NEW c \in EV!Routes,
           EV!WriteUser(u, c)
    PROVE  EvInv(evsys')
<1> DEFINE call == [EV!Call(<< >>) EXCEPT !.chan = c, !.level = evsys.chan[c], !.user = u,
                                         !.only = {u}]
           route1 == [evsys.route EXCEPT ![u] = c]
<1>1. evsys \in EvTypes /\ ToldOrPends(evsys) /\ evsys.calls = << >>
  BY DEF EvInv, EV!WriteUser, EV!Idle
<1>2. route1 \in [Users -> EV!Routes] /\ route1[u] = c
      /\ \A v \in Users \ {u} : route1[v] = evsys.route[v]
  BY <1>1 DEF EvTypes
<1>3. u # 0 /\ u \in Nat
  BY DEF EV!WellFormed
<1>4. CASE c = 0
  <2>1. evsys' = [evsys EXCEPT !.route = route1]
    BY <1>1, <1>4 DEF EV!WriteUser, EvTypes
  <2> HIDE DEF route1
  <2>2. /\ evsys' \in EvTypes
        /\ evsys'.calls = << >> /\ evsys'.chan = evsys.chan /\ evsys'.crossed = evsys.crossed
        /\ evsys'.route = route1 /\ evsys'.told = evsys.told
    BY <1>1, <1>2, <2>1 DEF EvTypes
  <2>3. ToldOrPends(evsys')
    BY <1>1, <1>2, <1>4, <2>2, IdleProperties DEF ToldOrPends
  <2>4. QED  BY <2>2, <2>3, IdleProperties DEF EvInv
<1>5. CASE c # 0
  <2>1. c \in Channels /\ evsys.chan[c] \in EV!Level
    BY <1>1, <1>5 DEF EvTypes, EV!Routes
  <2>2. /\ EV!Call(<< >>) \in CallTypes
        /\ EV!Call(<< >>).hook = 0 /\ EV!Call(<< >>).rest = << >>
    BY DEF EV!Call, EV!NoUser, EV!Routes, EV!Level, CallTypes
  <2>3. evsys' = [evsys EXCEPT !.route = route1, !.calls = <<call>>]
    BY <1>5, Zenon DEF EV!WriteUser
  <2>4. call \in CallTypes
    BY <2>1, <2>2 DEF CallTypes
  <2>5. /\ call.chan = c /\ call.level = evsys.chan[c] /\ call.user = u
        /\ call.only = {u} /\ call.hook = 0 /\ call.rest = << >>
    BY <2>2 DEF CallTypes
  <2>6. EV!Emits(call)
    BY <1>3, <2>5 DEF EV!Emits
  <2> HIDE DEF call, route1
  <2>7. /\ <<call>> \in Seq(CallTypes) /\ Len(<<call>>) = 1 /\ <<call>>[1] = call
    BY <2>4
  <2>8. /\ evsys' \in EvTypes
        /\ evsys'.calls = <<call>> /\ evsys'.chan = evsys.chan /\ evsys'.crossed = evsys.crossed
        /\ evsys'.route = route1 /\ evsys'.told = evsys.told
    BY <1>1, <1>2, <2>3, <2>7 DEF EvTypes
  <2>9. \A i \in 1 .. Len(evsys'.calls) : i = 1 /\ evsys'.calls[i] = call
    BY <2>7, <2>8
  <2>10. HooksHold(evsys')
    BY <2>5, <2>7, <2>8, <2>9 DEF HooksHold
  <2>11. OwnChannel(evsys')
    <3>1. Owns(call, evsys')
      BY <1>2, <2>5, <2>8 DEF Owns
    <3>2. QED  BY <2>9, <3>1 DEF OwnChannel
  <2>12. OneEmission(evsys')
    BY <2>5, <2>8, <2>9 DEF OneEmission
  <2>13. ToldOrPends(evsys')
    <3>1. SUFFICES ASSUME NEW v \in Users, route1[v] # 0, route1[v] \notin evsys.crossed
                   PROVE  evsys.told[v] = evsys.chan[route1[v]] \/ Pends(evsys', v)
      BY <2>8 DEF ToldOrPends
    <3>2. CASE v = u
      <4>1. WillTell(call, u, c)
        BY <1>3, <2>5 DEF WillTell
      <4>2. 1 \in 1 .. Len(evsys'.calls)
        BY <2>7, <2>8
      <4>3. QED  BY <1>2, <2>8, <2>9, <3>2, <4>1, <4>2 DEF Pends
    <3>3. CASE v # u
      BY <1>1, <1>2, <3>1, <3>3, IdleProperties DEF ToldOrPends
    <3>4. QED  BY <3>2, <3>3
  <2>14. QED  BY <2>8, <2>10, <2>11, <2>12, <2>13 DEF EvInv
<1>6. QED  BY <1>4, <1>5

LEMMA EvResetKeeps ==
    ASSUME EvInv(evsys), EV!Reset
    PROVE  EvInv(evsys')
<1>1. evsys \in EvTypes /\ evsys.calls = << >>
  BY DEF EvInv, EV!Reset, EV!Idle
<1>2. /\ evsys' \in EvTypes /\ evsys'.calls = << >> /\ evsys'.route = [v \in Users |-> 0]
  BY <1>1 DEF EvTypes, EV!Reset, EV!Level, EV!Routes
<1>3. ToldOrPends(evsys')
  BY <1>2 DEF ToldOrPends
<1>4. QED  BY <1>2, <1>3, IdleProperties DEF EvInv

LEMMA EvKeeps ==
    ASSUME EV!WellFormed, EvInv(evsys), EV!Next
    PROVE  EvInv(evsys')
BY BeginKeeps, TellKeeps, HookReturnsKeeps, InputKeeps, GenerateKeeps, WriteChannelKeeps,
   WriteUserKeeps, StrobeKeeps, EvResetKeeps DEF EV!Next

\* All calls but the last wait for hooks of different users.
LEMMA CallsAreBounded ==
    ASSUME EV!WellFormed, EvInv(evsys)
    PROVE  EV!CallsEnd
<1> DEFINE n == Len(evsys.calls)
           waits == 1 .. n - 1
           user == [i \in waits |-> evsys.calls[i].hook]
<1>1. evsys \in EvTypes /\ HooksHold(evsys)
  BY DEF EvInv
<1>2. evsys.calls \in Seq(CallTypes)
  BY <1>1 DEF EvTypes
<1>3. n \in Nat /\ \A i \in 1 .. n : evsys.calls[i] \in CallTypes
  BY <1>2, LenProperties, ElementOfSeq
<1>4. Cardinality(Users) \in Nat /\ IsFiniteSet(Users)
  BY FS_CardinalityType DEF EV!WellFormed, EV!IsFiniteSet, IsFiniteSet
<1>5. EV!Cardinality(Users) = Cardinality(Users)
  BY Zenon DEF EV!Cardinality, Cardinality, EV!IsFiniteSet, IsFiniteSet
<1>6. CASE n = 0
  BY <1>4, <1>5, <1>6 DEF EV!CallsEnd
<1>7. CASE n # 0
  <2>1. ASSUME NEW i \in waits
        PROVE  i \in 1 .. n /\ evsys.calls[i].hook \in Users
    <3>1. i \in 1 .. n
      BY <1>3
    <3>2. QED  BY <1>1, <1>3, <3>1 DEF HooksHold, CallTypes
  <2>2. user \in [waits -> Users]
    BY <2>1
  <2>3. \A i, j \in waits : user[i] = user[j] => i = j
    <3>1. \A i, j \in waits : i # j => evsys.calls[i].hook # evsys.calls[j].hook
      BY <1>1, <2>1 DEF HooksHold
    <3>2. QED  BY <3>1
  <2>4. user \in Injection(waits, Users)
    <3> HIDE DEF user, waits
    <3>1. DOMAIN user = waits
      BY <2>2
    <3>2. QED  BY <2>2, <2>3, <3>1 DEF Injection, IsInjective
  <2>5. IsFiniteSet(waits) /\ Cardinality(waits) = n - 1
    <3>1. n - 1 \in Nat
      BY <1>3, <1>7
    <3> HIDE DEF n
    <3>2. QED  BY <3>1, UpTo
  <2> HIDE DEF user, waits
  <2>6. Cardinality(waits) <= Cardinality(Users)
    BY <1>4, <2>4, <2>5, FS_Injection
  <2>7. QED  BY <1>3, <1>4, <1>5, <2>5, <2>6 DEF EV!CallsEnd
<1>8. QED  BY <1>6, <1>7

LEMMA EvShows ==
    ASSUME EV!WellFormed, EvInv(evsys)
    PROVE  EV!TypeOK /\ EV!UsersInStep /\ EV!CallsEnd
<1>1. EV!TypeOK
  <2>1. evsys \in EvTypes /\ evsys.calls \in Seq(CallTypes)
    BY DEF EvInv, EvTypes
  <2>2. \A i \in DOMAIN evsys.calls : evsys.calls[i] \in CallTypes
    BY <2>1, LenProperties, ElementOfSeq
  <2>3. QED  BY <2>1, <2>2 DEF EvTypes, CallTypes, EV!TypeOK, EV!NoUser
<1>2. EV!UsersInStep
  BY IdleProperties DEF EvInv, ToldOrPends, EV!UsersInStep, EV!Idle
<1>3. QED  BY <1>1, <1>2, CallsAreBounded

-----------------------------------------------------------------------------
(* The IRQ network *)

\* The place of a hook in a list that has it once.
Place(list, h) == CHOOSE n \in DOMAIN list : list[n] = h

LEMMA PlaceIs ==
    ASSUME NEW S, NEW list \in Seq(S), IR!IsInjective(list), NEW n \in 1 .. Len(list)
    PROVE  Place(list, list[n]) = n
<1>1. DOMAIN list = 1 .. Len(list)
  BY LenProperties
<1> DEFINE m == CHOOSE k \in DOMAIN list : list[k] = list[n]
<1>2. m \in DOMAIN list /\ list[m] = list[n]
  BY <1>1, Zenon
<1>3. m = n
  BY <1>1, <1>2, Zenon DEF IR!IsInjective
<1>4. QED  BY <1>3 DEF Place

\* A list without one of its entries.
LEMMA RemoveAtProperties ==
    ASSUME NEW S, NEW list \in Seq(S), NEW p \in 1 .. Len(list)
    PROVE  /\ IR!RemoveAt(list, p) \in Seq(S)
           /\ Len(IR!RemoveAt(list, p)) = Len(list) - 1
           /\ \A i \in 1 .. Len(list) - 1 :
                  IR!RemoveAt(list, p)[i] = IF i < p THEN list[i] ELSE list[i + 1]
<1> DEFINE n == Len(list)
           front == SubSeq(list, 1, p - 1)
           back == SubSeq(list, p + 1, n)
<1>1. n \in Nat /\ \A i \in 1 .. n : list[i] \in S
  BY LenProperties, ElementOfSeq
<1> HIDE DEF n
<1>2. p \in Nat /\ p >= 1 /\ p <= n
  BY <1>1 DEF n
<1>3. /\ front \in Seq(S) /\ Len(front) = p - 1
      /\ \A i \in 1 .. p - 1 : front[i] = list[i]
  <2>1. \A i \in 1 .. p - 1 : list[i] \in S
    BY <1>1, <1>2
  <2>2. /\ front \in Seq(S) /\ Len(front) = IF 1 <= p - 1 THEN (p - 1) - 1 + 1 ELSE 0
        /\ \A i \in 1 .. (p - 1) - 1 + 1 : front[i] = list[1 + i - 1]
    BY <1>2, <2>1, SubSeqProperties
  <2> HIDE DEF front
  <2>3. \A i \in 1 .. p - 1 : i \in 1 .. (p - 1) - 1 + 1 /\ 1 + i - 1 = i
    BY <1>2
  <2>4. QED  BY <1>2, <2>2, <2>3
<1>4. /\ back \in Seq(S) /\ Len(back) = n - p
      /\ \A i \in 1 .. n - p : back[i] = list[p + i]
  <2>1. \A i \in p + 1 .. n : list[i] \in S
    BY <1>1, <1>2
  <2>2. /\ back \in Seq(S) /\ Len(back) = IF p + 1 <= n THEN n - (p + 1) + 1 ELSE 0
        /\ \A i \in 1 .. n - (p + 1) + 1 : back[i] = list[p + 1 + i - 1]
    BY <1>1, <1>2, <2>1, SubSeqProperties
  <2> HIDE DEF back
  <2>3. \A i \in 1 .. n - p : i \in 1 .. n - (p + 1) + 1 /\ p + 1 + i - 1 = p + i
    BY <1>1, <1>2
  <2>4. QED  BY <1>1, <1>2, <2>2, <2>3
<1>5. IR!RemoveAt(list, p) = front \o back
  BY DEF IR!RemoveAt, n
<1> HIDE DEF front, back
<1>6. /\ front \o back \in Seq(S) /\ Len(front \o back) = Len(front) + Len(back)
      /\ \A i \in 1 .. Len(front) + Len(back) :
             (front \o back)[i] = IF i <= Len(front) THEN front[i] ELSE back[i - Len(front)]
  BY <1>3, <1>4, ConcatProperties
<1>7. Len(front) + Len(back) = n - 1
  BY <1>1, <1>2, <1>3, <1>4
<1>8. ASSUME NEW i \in 1 .. n - 1
      PROVE  (front \o back)[i] = IF i < p THEN list[i] ELSE list[i + 1]
  <2>1. CASE i < p
    <3>1. i \in 1 .. p - 1 /\ i <= Len(front)
      BY <1>1, <1>2, <1>3, <2>1
    <3>2. QED  BY <1>3, <1>6, <1>7, <2>1, <3>1
  <2>2. CASE ~(i < p)
    <3>1. /\ i - Len(front) \in 1 .. n - p /\ ~(i <= Len(front))
          /\ p + (i - Len(front)) = i + 1
      BY <1>1, <1>2, <1>3, <2>2
    <3>2. QED  BY <1>4, <1>6, <1>7, <2>2, <3>1
  <2>3. QED  BY <2>1, <2>2
<1>9. QED  BY <1>5, <1>6, <1>7, <1>8 DEF n

\* Those that stay keep their order, and are there once.
LEMMA RemovalKeepsOrder ==
    ASSUME NEW S, NEW list \in Seq(S), IR!IsInjective(list), NEW p \in 1 .. Len(list)
    PROVE  LET less == IR!RemoveAt(list, p)
           IN  /\ less \in Seq(S) /\ IR!IsInjective(less)
               /\ \A h : IR!Contains(less, h) <=> IR!Contains(list, h) /\ h # list[p]
               /\ \A h, k : IR!Contains(less, h) /\ IR!Contains(less, k)
                                /\ Place(list, h) >= Place(list, k) =>
                                Place(less, h) >= Place(less, k)
<1> DEFINE n == Len(list)
           less == IR!RemoveAt(list, p)
           of(i) == IF i < p THEN i ELSE i + 1
<1>1. n \in Nat /\ p \in 1 .. n /\ DOMAIN list = 1 .. n
  BY LenProperties
<1>2. /\ less \in Seq(S) /\ Len(less) = n - 1 /\ DOMAIN less = 1 .. n - 1
      /\ \A i \in 1 .. n - 1 : less[i] = IF i < p THEN list[i] ELSE list[i + 1]
  BY RemoveAtProperties, LenProperties
<1> HIDE DEF less, n
<1>3. \A i \in 1 .. n - 1 : of(i) \in 1 .. n /\ of(i) # p /\ less[i] = list[of(i)]
  BY <1>1, <1>2
<1>4. \A i, j \in 1 .. n - 1 : of(i) = of(j) => i = j
  BY <1>1
<1>5. \A i, j \in 1 .. n - 1 : of(i) >= of(j) => i >= j
  BY <1>1
<1>6. \A i \in 1 .. n : i # p => \E j \in 1 .. n - 1 : of(j) = i
  <2>1. SUFFICES ASSUME NEW i \in 1 .. n, i # p
                 PROVE  \E j \in 1 .. n - 1 : of(j) = i
    OBVIOUS
  <2>2. CASE i < p
    <3>1. i \in 1 .. n - 1 /\ of(i) = i
      BY <1>1, <2>2
    <3>2. QED  BY <3>1
  <2>3. CASE i > p
    <3>1. i - 1 \in 1 .. n - 1 /\ of(i - 1) = i
      BY <1>1, <2>3
    <3>2. QED  BY <3>1
  <2>4. QED  BY <1>1, <2>1, <2>2, <2>3
<1>7. \A i, j \in 1 .. n : list[i] = list[j] => i = j
  BY <1>1 DEF IR!IsInjective
<1> HIDE DEF of
<1>8. IR!IsInjective(less)
  <2>1. \A i, j \in 1 .. n - 1 : less[i] = less[j] => i = j
    BY <1>3, <1>4, <1>7
  <2>2. QED  BY <1>2, <2>1 DEF IR!IsInjective
<1>9. ASSUME NEW h
      PROVE  IR!Contains(less, h) <=> IR!Contains(list, h) /\ h # list[p]
  <2>1. IR!Contains(less, h) <=> \E j \in 1 .. n - 1 : less[j] = h
    BY <1>2 DEF IR!Contains
  <2>2. IR!Contains(list, h) <=> \E j \in 1 .. n : list[j] = h
    BY DEF IR!Contains, n
  <2>3. ASSUME NEW j \in 1 .. n - 1, less[j] = h
        PROVE  IR!Contains(list, h) /\ h # list[p]
    BY <1>1, <1>3, <1>7, <2>2, <2>3
  <2>4. ASSUME NEW j \in 1 .. n, list[j] = h, h # list[p]
        PROVE  IR!Contains(less, h)
    BY <1>3, <1>6, <2>1, <2>4
  <2>5. QED  BY <2>1, <2>2, <2>3, <2>4
<1>10. ASSUME NEW h, NEW k, IR!Contains(less, h), IR!Contains(less, k),
              Place(list, h) >= Place(list, k)
       PROVE  Place(less, h) >= Place(less, k)
  <2>1. PICK i \in 1 .. n - 1 : less[i] = h
    BY <1>2, <1>10 DEF IR!Contains
  <2>2. PICK j \in 1 .. n - 1 : less[j] = k
    BY <1>2, <1>10 DEF IR!Contains
  <2>3. Place(less, h) = i /\ Place(less, k) = j
    BY <1>2, <1>8, <2>1, <2>2, PlaceIs
  <2>4. Place(list, h) = of(i) /\ Place(list, k) = of(j)
    <3>1. list[of(i)] = h /\ list[of(j)] = k /\ of(i) \in 1 .. n /\ of(j) \in 1 .. n
      BY <1>3, <2>1, <2>2
    <3>2. QED  BY <3>1, PlaceIs DEF n
  <2>5. QED  BY <1>5, <1>10, <2>3, <2>4
<1>11. QED  BY <1>2, <1>8, <1>9, <1>10 DEF less

\* A hook that joins is the last.
LEMMA AdditionKeepsOrder ==
    ASSUME NEW S, NEW list \in Seq(S), IR!IsInjective(list), NEW h \in S, ~IR!Contains(list, h)
    PROVE  /\ Append(list, h) \in Seq(S) /\ IR!IsInjective(Append(list, h))
           /\ \A k : IR!Contains(Append(list, h), k) <=> IR!Contains(list, k) \/ k = h
           /\ \A k : IR!Contains(list, k) => Place(Append(list, h), k) = Place(list, k)
<1> DEFINE n == Len(list)
           more == Append(list, h)
<1>1. /\ n \in Nat /\ more \in Seq(S) /\ Len(more) = n + 1 /\ DOMAIN more = 1 .. n + 1
      /\ (\A i \in 1 .. n : more[i] = list[i]) /\ more[n + 1] = h
      /\ DOMAIN list = 1 .. n
  <2>1. n \in Nat /\ DOMAIN list = 1 .. n
    BY LenProperties
  <2>2. /\ more \in Seq(S) /\ Len(more) = n + 1
        /\ (\A i \in 1 .. n : more[i] = list[i]) /\ more[n + 1] = h
    BY AppendProperties
  <2>3. DOMAIN more = 1 .. n + 1
    BY <2>2, LenProperties
  <2>4. QED  BY <2>1, <2>2, <2>3
<1> HIDE DEF more
<1>2. \A i \in 1 .. n : list[i] # h
  BY DEF IR!Contains
<1>3. \A i, j \in 1 .. n : list[i] = list[j] => i = j
  BY <1>1 DEF IR!IsInjective
<1>4. \A i \in 1 .. n + 1 : i \in 1 .. n \/ i = n + 1
  BY <1>1
<1>5. \A i \in 1 .. n : i \in 1 .. n + 1
  BY <1>1
<1>6. n + 1 \in 1 .. n + 1
  BY <1>1
<1> HIDE DEF n
<1>7. IR!IsInjective(more)
  <2>1. \A i, j \in 1 .. n + 1 : more[i] = more[j] => i = j
    BY <1>1, <1>2, <1>3, <1>4
  <2>2. QED  BY <1>1, <2>1 DEF IR!IsInjective
<1>8. ASSUME NEW k
      PROVE  IR!Contains(more, k) <=> IR!Contains(list, k) \/ k = h
  <2>1. IR!Contains(more, k) <=> \E i \in 1 .. n + 1 : more[i] = k
    BY <1>1 DEF IR!Contains
  <2>2. IR!Contains(list, k) <=> \E i \in 1 .. n : list[i] = k
    BY DEF IR!Contains, n
  <2>3. QED  BY <1>1, <1>4, <1>5, <1>6, <2>1, <2>2
<1>9. ASSUME NEW k, IR!Contains(list, k)
      PROVE  Place(more, k) = Place(list, k)
  <2>1. PICK i \in 1 .. n : list[i] = k
    BY <1>9 DEF IR!Contains, n
  <2>2. Place(list, k) = i
    BY <2>1, PlaceIs DEF n
  <2>3. i \in 1 .. Len(more) /\ more[i] = k
    BY <1>1, <1>5, <2>1
  <2>4. Place(more, k) = i
    BY <1>1, <1>7, <2>3, PlaceIs
  <2>5. QED  BY <2>2, <2>4
<1>10. QED  BY <1>1, <1>7, <1>8, <1>9 DEF more

Frames ==
    [irq : Irqs, out : IR!Bits, at : IR!Hooks \cup {None}, next : IR!Hooks \cup {None},
     acted : BOOLEAN]

\* A raise goes on with a hook of its IRQ, and unless it is disturbed it has
\* told the others.
RaiseHolds(f, lists, told, calm) ==
    /\ f.next # None => IR!Contains(lists[f.irq], f.next)
    /\ f.irq \in calm =>
           \A h \in IR!Hooks :
               IR!Contains(lists[f.irq], h) =>
                   \/ told[<<f.irq, h>>] \in {IR!Unseen, f.out}
                   \/ f.next # None /\ Place(lists[f.irq], h) >= Place(lists[f.irq], f.next)

\* A hook that is busy runs for a raise, and one raise at most is of an IRQ
\* whose raise is not disturbed.
RaisesHold(raises, calls, lists, told, calm) ==
    /\ \A k \in 1 .. Len(raises) : RaiseHolds(raises[k], lists, told, calm)
    /\ \A p \in calls : \E k \in 1 .. Len(raises) : p = <<raises[k].irq, raises[k].at>>
    /\ \A k, m \in 1 .. Len(raises) :
           raises[k].irq = raises[m].irq /\ raises[k].irq \in calm => k = m

\* The IRQ has no raise in progress.
Rests(i, raises) == \A k \in 1 .. Len(raises) : raises[k].irq # i

InStep(raises, lists, told, calm, values) ==
    \A i \in calm : Rests(i, raises) =>
        \A h \in IR!Hooks : IR!Contains(lists[i], h) => told[<<i, h>>] \in {IR!Unseen, values[i]}

IrqTypes ==
    /\ hooks \in [Irqs -> Seq(IR!Hooks)] /\ \A i \in Irqs : IR!IsInjective(hooks[i])
    /\ busy \subseteq Irqs \X IR!Hooks
    /\ value \in [Irqs -> IR!Bits] /\ initbit \subseteq Irqs /\ strong \subseteq Irqs
    /\ stack \in Seq(Frames)
    /\ seen \in [Irqs \X IR!Hooks -> IR!Bits \cup {IR!Unseen}] /\ quiet \subseteq Irqs

\* A hook that is not connected has been told nothing.
NothingTold ==
    \A i \in Irqs, h \in IR!Hooks : ~IR!Contains(hooks[i], h) => seen[<<i, h>>] = IR!Unseen

IrqInv ==
    /\ IrqTypes /\ NothingTold
    /\ RaisesHold(stack, busy, hooks, seen, quiet)
    /\ InStep(stack, hooks, seen, quiet, value)

LEMMA IrqInitHolds ==
    ASSUME IR!Init
    PROVE  IrqInv
<1>1. Len(<< >>) = 0 /\ << >> \in Seq(Frames) /\ << >> \in Seq(IR!Hooks)
  BY EmptySeq
<1>2. IR!IsInjective(<< >>)
  BY DEF IR!IsInjective
<1>3. IrqTypes
  BY <1>1, <1>2 DEF IR!Init, IrqTypes, IR!Bits, IR!Unseen
<1>4. \A i \in Irqs, h \in IR!Hooks : seen[<<i, h>>] = IR!Unseen
  BY DEF IR!Init
<1>5. NothingTold /\ InStep(stack, hooks, seen, quiet, value)
  BY <1>3, <1>4 DEF NothingTold, InStep, IrqTypes
<1>6. stack = << >> /\ busy = {}
  BY DEF IR!Init
<1>7. RaisesHold(stack, busy, hooks, seen, quiet)
  BY <1>1, <1>6 DEF RaisesHold
<1>8. QED  BY <1>3, <1>5, <1>7 DEF IrqInv

\* The raise on top, and those below it.
LEMMA RaiseOnTop ==
    ASSUME stack \in Seq(Frames), stack # << >>
    PROVE  /\ Len(stack) \in Nat \ {0} /\ IR!Top \in Frames /\ IR!Top = stack[Len(stack)]
           /\ IR!Below \in Seq(Frames) /\ Len(IR!Below) = Len(stack) - 1
           /\ \A k \in 1 .. Len(stack) - 1 : IR!Below[k] = stack[k]
<1>1. IR!Top = stack[Len(stack)] /\ IR!Below = SubSeq(stack, 1, Len(stack) - 1)
  BY DEF IR!Top, IR!Last, IR!Below, IR!Front
<1>2. QED  BY <1>1, FrontProperties

\* The raise on top goes on as t.
LEMMA TopReplaced ==
    ASSUME stack \in Seq(Frames), stack # << >>, NEW t \in Frames
    PROVE  /\ Append(IR!Below, t) \in Seq(Frames) /\ Len(Append(IR!Below, t)) = Len(stack)
           /\ Append(IR!Below, t)[Len(stack)] = t
           /\ \A k \in 1 .. Len(stack) - 1 : Append(IR!Below, t)[k] = stack[k]
<1> DEFINE n == Len(stack)
<1>1. /\ n \in Nat \ {0} /\ IR!Below \in Seq(Frames) /\ Len(IR!Below) = n - 1
      /\ \A k \in 1 .. n - 1 : IR!Below[k] = stack[k]
  BY RaiseOnTop
<1>2. /\ Append(IR!Below, t) \in Seq(Frames) /\ Len(Append(IR!Below, t)) = Len(IR!Below) + 1
      /\ \A k \in 1 .. Len(IR!Below) : Append(IR!Below, t)[k] = IR!Below[k]
      /\ Append(IR!Below, t)[Len(IR!Below) + 1] = t
  BY <1>1, AppendProperties
<1> HIDE DEF n
<1>3. Len(IR!Below) + 1 = n
  BY <1>1
<1>4. /\ Append(IR!Below, t) \in Seq(Frames) /\ Len(Append(IR!Below, t)) = n
      /\ Append(IR!Below, t)[n] = t
      /\ \A k \in 1 .. n - 1 : Append(IR!Below, t)[k] = stack[k]
  BY <1>1, <1>2, <1>3
<1>5. QED  BY <1>4 DEF n

\* The raise on top goes on: what changes is its hooks'.
LEMMA GoingOnHolds ==
    ASSUME stack \in Seq(Frames), stack # << >>, RaisesHold(stack, busy, hooks, seen, quiet),
           InStep(stack, hooks, seen, quiet, value),
           NEW t \in Frames, t.irq = IR!Top.irq, NEW calls, NEW told,
           \A p \in calls :
               p = <<t.irq, t.at>> \/ (p \in busy /\ p # <<IR!Top.irq, IR!Top.at>>),
           \A i \in Irqs, h \in IR!Hooks : i # t.irq => told[<<i, h>>] = seen[<<i, h>>],
           quiet \subseteq Irqs, RaiseHolds(t, hooks, told, quiet)
    PROVE  /\ RaisesHold(Append(IR!Below, t), calls, hooks, told, quiet)
           /\ InStep(Append(IR!Below, t), hooks, told, quiet, value)
<1> DEFINE n == Len(stack)
           raises == Append(IR!Below, t)
<1>1. /\ n \in Nat \ {0} /\ IR!Top = stack[n] /\ n \in 1 .. n
      /\ Len(raises) = n /\ raises[n] = t
      /\ \A k \in 1 .. n - 1 : raises[k] = stack[k]
  BY RaiseOnTop, TopReplaced
<1>2. \A k \in 1 .. n : stack[k] \in Frames
  BY ElementOfSeq
<1>3. /\ \A k \in 1 .. n : RaiseHolds(stack[k], hooks, seen, quiet)
      /\ \A p \in busy : \E k \in 1 .. n : p = <<stack[k].irq, stack[k].at>>
      /\ \A k, m \in 1 .. n :
             stack[k].irq = stack[m].irq /\ stack[k].irq \in quiet => k = m
  BY Zenon DEF RaisesHold
<1> HIDE DEF n, raises
<1>4. \A k \in 1 .. n : k \in 1 .. n - 1 \/ k = n
  BY <1>1
<1>5. \A k \in 1 .. n : raises[k].irq = stack[k].irq
  BY <1>1, <1>4
<1>6. \A k, m \in 1 .. n :
          raises[k].irq = raises[m].irq /\ raises[k].irq \in quiet => k = m
  BY <1>3, <1>5
<1>7. ASSUME NEW k \in 1 .. n
      PROVE  RaiseHolds(raises[k], hooks, told, quiet)
  <2>1. CASE k = n
    BY <1>1, <2>1
  <2>2. CASE k \in 1 .. n - 1
    <3>1. /\ raises[k] = stack[k] /\ k # n
          /\ RaiseHolds(stack[k], hooks, seen, quiet) /\ stack[k].irq \in Irqs
      BY <1>1, <1>2, <1>3, <2>2 DEF Frames
    <3>2. stack[k].irq \in quiet => stack[k].irq # t.irq
      BY <1>1, <1>3, <3>1
    <3>3. stack[k].irq \in quiet =>
              \A h \in IR!Hooks : told[<<stack[k].irq, h>>] = seen[<<stack[k].irq, h>>]
      BY <3>1, <3>2
    <3>4. QED  BY <3>1, <3>3 DEF RaiseHolds
  <2>3. QED  BY <1>4, <2>1, <2>2
<1>8. ASSUME NEW p \in calls
      PROVE  \E k \in 1 .. n : p = <<raises[k].irq, raises[k].at>>
  <2>1. CASE p = <<t.irq, t.at>>
    BY <1>1, <2>1
  <2>2. CASE p \in busy /\ p # <<IR!Top.irq, IR!Top.at>>
    <3>1. PICK k \in 1 .. n : p = <<stack[k].irq, stack[k].at>>
      BY <1>3, <2>2
    <3>2. k \in 1 .. n - 1
      BY <1>1, <1>4, <2>2, <3>1
    <3>3. QED  BY <1>1, <3>1, <3>2
  <2>3. QED  BY <1>8, <2>1, <2>2
<1>9. RaisesHold(raises, calls, hooks, told, quiet)
  BY <1>1, <1>6, <1>7, <1>8 DEF RaisesHold
<1>10. InStep(raises, hooks, told, quiet, value)
  <2>1. SUFFICES ASSUME NEW i \in quiet, Rests(i, raises), NEW h \in IR!Hooks,
                        IR!Contains(hooks[i], h)
                 PROVE  told[<<i, h>>] \in {IR!Unseen, value[i]}
    BY Zenon DEF InStep
  <2>2. Rests(i, stack) /\ i # t.irq
    BY <1>1, <1>5, <2>1 DEF Rests, n
  <2>3. i \in Irqs /\ told[<<i, h>>] = seen[<<i, h>>]
    BY <2>1, <2>2
  <2>4. QED  BY <2>1, <2>2, <2>3 DEF InStep
<1>11. QED  BY <1>9, <1>10 DEF raises

\* A raise that returns without its value leaves the others as they are.
LEMMA ReturnHolds ==
    ASSUME stack \in Seq(Frames), stack # << >>, RaisesHold(stack, busy, hooks, seen, quiet),
           NEW calls, \A p \in calls : p \in busy /\ p # <<IR!Top.irq, IR!Top.at>>,
           NEW calm \in SUBSET quiet
    PROVE  RaisesHold(IR!Below, calls, hooks, seen, calm)
<1> DEFINE n == Len(stack)
<1>1. /\ n \in Nat \ {0} /\ IR!Top = stack[n] /\ Len(IR!Below) = n - 1
      /\ \A k \in 1 .. n - 1 : IR!Below[k] = stack[k]
  BY RaiseOnTop
<1>2. /\ \A k \in 1 .. n : RaiseHolds(stack[k], hooks, seen, quiet)
      /\ \A p \in busy : \E k \in 1 .. n : p = <<stack[k].irq, stack[k].at>>
      /\ \A k, m \in 1 .. n :
             stack[k].irq = stack[m].irq /\ stack[k].irq \in quiet => k = m
  BY Zenon DEF RaisesHold
<1> HIDE DEF n
<1>3. \A k \in 1 .. n - 1 : k \in 1 .. n
  BY <1>1
<1>4. ASSUME NEW p \in calls
      PROVE  \E k \in 1 .. n - 1 : p = <<IR!Below[k].irq, IR!Below[k].at>>
  <2>1. PICK k \in 1 .. n : p = <<stack[k].irq, stack[k].at>>
    BY <1>2, <1>4
  <2>2. k \in 1 .. n - 1
    BY <1>1, <1>4, <2>1
  <2>3. QED  BY <1>1, <2>1, <2>2
<1>5. \A k \in 1 .. n - 1 : RaiseHolds(IR!Below[k], hooks, seen, calm)
  <2>1. \A f : RaiseHolds(f, hooks, seen, quiet) => RaiseHolds(f, hooks, seen, calm)
    BY DEF RaiseHolds
  <2>2. QED  BY <1>1, <1>2, <1>3, <2>1
<1>6. \A k, m \in 1 .. n - 1 :
          IR!Below[k].irq = IR!Below[m].irq /\ IR!Below[k].irq \in calm => k = m
  BY <1>1, <1>2, <1>3
<1>7. QED  BY <1>1, <1>4, <1>5, <1>6 DEF RaisesHold

\* An IRQ that rests after the raise on top has returned is its own, or rested.
LEMMA RestsAfterReturn ==
    ASSUME stack \in Seq(Frames), stack # << >>, NEW i, Rests(i, IR!Below), i # IR!Top.irq
    PROVE  Rests(i, stack)
<1> DEFINE n == Len(stack)
<1>1. /\ n \in Nat \ {0} /\ IR!Top = stack[n] /\ Len(IR!Below) = n - 1
      /\ \A k \in 1 .. n - 1 : IR!Below[k] = stack[k]
  BY RaiseOnTop
<1> HIDE DEF n
<1>2. \A k \in 1 .. n - 1 : stack[k].irq # i
  BY <1>1 DEF Rests
<1>3. \A k \in 1 .. n : stack[k].irq # i
  BY <1>1, <1>2
<1>4. QED  BY <1>3 DEF Rests, n

\* A raise that begins goes through all hooks of its IRQ, and is undisturbed
\* unless there is one already.
LEMMA EntryHolds ==
    ASSUME IrqTypes, NEW raises \in Seq(Frames),
           RaisesHold(raises, busy, hooks, seen, quiet), InStep(raises, hooks, seen, quiet, value),
           NEW f \in Frames, f.next = IR!First(f.irq), NEW calm,
           calm = IF Rests(f.irq, raises) THEN quiet \cup {f.irq} ELSE quiet \ {f.irq}
    PROVE  /\ Append(raises, f) \in Seq(Frames)
           /\ RaisesHold(Append(raises, f), busy, hooks, seen, calm)
           /\ InStep(Append(raises, f), hooks, seen, calm, value)
<1> DEFINE n == Len(raises)
           more == Append(raises, f)
           i == f.irq
<1>1. /\ n \in Nat /\ more \in Seq(Frames) /\ Len(more) = n + 1 /\ more[n + 1] = f
      /\ \A k \in 1 .. n : more[k] = raises[k]
  BY LenProperties, AppendProperties
<1>2. /\ \A k \in 1 .. n : RaiseHolds(raises[k], hooks, seen, quiet)
      /\ \A p \in busy : \E k \in 1 .. n : p = <<raises[k].irq, raises[k].at>>
      /\ \A k, m \in 1 .. n :
             raises[k].irq = raises[m].irq /\ raises[k].irq \in quiet => k = m
  BY Zenon DEF RaisesHold
<1>3. i \in Irqs /\ hooks[i] \in Seq(IR!Hooks) /\ IR!IsInjective(hooks[i])
  BY DEF Frames, IrqTypes
<1>4. Rests(i, raises) <=> \A k \in 1 .. n : raises[k].irq # i
  BY DEF Rests
<1> HIDE DEF n, more, i
<1>5. \A j \in calm : j # i => j \in quiet
  BY DEF i
<1>6. i \in calm => \A k \in 1 .. n : raises[k].irq # i
  BY <1>4 DEF i
<1>7. \A k \in 1 .. n + 1 : k \in 1 .. n \/ k = n + 1
  BY <1>1
<1>8. \A k \in 1 .. n : k \in 1 .. n + 1
  BY <1>1
<1>9. RaiseHolds(f, hooks, seen, calm)
  <2>1. ASSUME NEW h, IR!Contains(hooks[i], h)
        PROVE  f.next # None /\ IR!Contains(hooks[i], f.next) /\ Place(hooks[i], h) >= Place(hooks[i], f.next)
    <3>1. PICK k \in 1 .. Len(hooks[i]) : hooks[i][k] = h
      BY <2>1 DEF IR!Contains
    <3>2. hooks[i] # << >> /\ 1 \in 1 .. Len(hooks[i])
      BY <1>3, <3>1, LenProperties, EmptySeq
    <3>3. f.next = hooks[i][1]
      BY <1>3, <3>2 DEF IR!First, i
    <3>4. Place(hooks[i], h) = k /\ Place(hooks[i], f.next) = 1
      BY <1>3, <3>1, <3>2, <3>3, PlaceIs
    <3>5. f.next \in IR!Hooks
      BY <1>3, <3>2, <3>3, ElementOfSeq
    <3>6. f.next # None
      BY <3>5, PeripheralsAssumption DEF IR!WellFormed
    <3>7. k >= 1
      BY <3>1
    <3>8. QED  BY <3>2, <3>3, <3>4, <3>6, <3>7 DEF IR!Contains
  <2>2. f.next # None => IR!Contains(hooks[i], f.next)
    <3>1. CASE hooks[i] = << >>
      BY <3>1 DEF IR!First, i
    <3>2. CASE hooks[i] # << >>
      <4>1. 1 \in 1 .. Len(hooks[i])
        BY <1>3, <3>2, EmptySeq, LenProperties
      <4>2. f.next = hooks[i][1]
        BY <1>3, <3>2 DEF IR!First, i
      <4>3. QED  BY <4>1, <4>2 DEF IR!Contains
    <3>3. QED  BY <3>1, <3>2
  <2>3. QED  BY <2>1, <2>2 DEF RaiseHolds, i
<1>10. ASSUME NEW k \in 1 .. n + 1
       PROVE  RaiseHolds(more[k], hooks, seen, calm)
  <2>1. CASE k = n + 1
    BY <1>1, <1>9, <2>1
  <2>2. CASE k \in 1 .. n
    <3>1. more[k] = raises[k] /\ RaiseHolds(raises[k], hooks, seen, quiet)
      BY <1>1, <1>2, <2>2
    <3>2. raises[k].irq \in calm => raises[k].irq \in quiet
      BY <1>5, <1>6, <2>2
    <3>3. QED  BY <3>1, <3>2 DEF RaiseHolds
  <2>3. QED  BY <1>7, <2>1, <2>2
<1>11. \A p \in busy : \E k \in 1 .. n + 1 : p = <<more[k].irq, more[k].at>>
  <2>1. ASSUME NEW p \in busy
        PROVE  \E k \in 1 .. n + 1 : p = <<more[k].irq, more[k].at>>
    <3>1. PICK k \in 1 .. n : p = <<raises[k].irq, raises[k].at>>
      BY <1>2
    <3>2. QED  BY <1>1, <1>8, <3>1
  <2>2. QED  BY <2>1
<1>12. ASSUME NEW k \in 1 .. n + 1, NEW m \in 1 .. n + 1, more[k].irq = more[m].irq,
              more[k].irq \in calm
       PROVE  k = m
  <2>1. CASE k \in 1 .. n /\ m \in 1 .. n
    <3>1. more[k].irq \in quiet
      BY <1>1, <1>5, <1>6, <1>12, <2>1
    <3>2. QED  BY <1>1, <1>2, <1>12, <2>1, <3>1
  <2>2. CASE k = n + 1
    BY <1>1, <1>6, <1>7, <1>12, <2>2 DEF i
  <2>3. CASE m = n + 1
    BY <1>1, <1>6, <1>7, <1>12, <2>3 DEF i
  <2>4. QED  BY <1>7, <2>1, <2>2, <2>3
<1>13. RaisesHold(more, busy, hooks, seen, calm)
  BY <1>1, <1>10, <1>11, <1>12 DEF RaisesHold
<1>14. InStep(more, hooks, seen, calm, value)
  <2>1. SUFFICES ASSUME NEW j \in calm, Rests(j, more), NEW h \in IR!Hooks,
                        IR!Contains(hooks[j], h)
                 PROVE  seen[<<j, h>>] \in {IR!Unseen, value[j]}
    BY Zenon DEF InStep
  <2>2. \A k \in 1 .. n + 1 : more[k].irq # j
    BY <1>1, <2>1 DEF Rests
  <2>3. j # i
    <3>1. n + 1 \in 1 .. n + 1
      BY <1>1
    <3>2. QED  BY <1>1, <2>2, <3>1 DEF i
  <2>4. Rests(j, raises) /\ j \in quiet
    BY <1>1, <1>5, <1>8, <2>1, <2>2, <2>3 DEF Rests, n
  <2>5. QED  BY <2>1, <2>4 DEF InStep
<1>15. QED  BY <1>1, <1>13, <1>14 DEF more

LEMMA RestsOffStack ==
    ASSUME stack \in Seq(Frames), NEW i
    PROVE  Rests(i, stack) <=> ~IR!OnStack(i)
BY LenProperties DEF Rests, IR!OnStack

\* The hook that runs has done what it does.
LEMMA ActedHolds ==
    ASSUME IrqInv, stack # << >>
    PROVE  LET raises == Append(IR!Below, IR!Acted)
           IN  /\ raises \in Seq(Frames) /\ RaisesHold(raises, busy, hooks, seen, quiet)
               /\ InStep(raises, hooks, seen, quiet, value)
               /\ \A i : Rests(i, raises) <=> Rests(i, stack)
<1> DEFINE raises == Append(IR!Below, IR!Acted)
           n == Len(stack)
<1>1. /\ stack \in Seq(Frames) /\ RaisesHold(stack, busy, hooks, seen, quiet)
      /\ InStep(stack, hooks, seen, quiet, value) /\ quiet \subseteq Irqs
  BY DEF IrqInv, IrqTypes
<1>2. IR!Top \in Frames /\ IR!Top = stack[n] /\ n \in Nat \ {0}
  BY <1>1, RaiseOnTop
<1>3. /\ IR!Acted \in Frames /\ IR!Acted.irq = IR!Top.irq /\ IR!Acted.at = IR!Top.at
      /\ IR!Acted.out = IR!Top.out /\ IR!Acted.next = IR!Top.next
  BY <1>2 DEF Frames, IR!Acted
<1>4. /\ raises \in Seq(Frames) /\ Len(raises) = n /\ raises[n] = IR!Acted
      /\ \A k \in 1 .. n - 1 : raises[k] = stack[k]
  BY <1>1, <1>3, TopReplaced
<1>5. RaiseHolds(IR!Acted, hooks, seen, quiet)
  <2>1. n \in 1 .. n
    BY <1>2
  <2>2. RaiseHolds(IR!Top, hooks, seen, quiet)
    BY <1>1, <1>2, <2>1 DEF RaisesHold
  <2>3. QED  BY <1>3, <2>2 DEF RaiseHolds
<1>6. \A p \in busy :
          p = <<IR!Acted.irq, IR!Acted.at>> \/ (p \in busy /\ p # <<IR!Top.irq, IR!Top.at>>)
  BY <1>3
<1>7. /\ RaisesHold(raises, busy, hooks, seen, quiet)
      /\ InStep(raises, hooks, seen, quiet, value)
  BY <1>1, <1>3, <1>5, <1>6, GoingOnHolds
<1>8. ASSUME NEW i
      PROVE  Rests(i, raises) <=> Rests(i, stack)
  <2> HIDE DEF raises, n
  <2>1. \A k \in 1 .. n : k \in 1 .. n - 1 \/ k = n
    BY <1>2
  <2>2. \A k \in 1 .. n : raises[k].irq = stack[k].irq
    BY <1>2, <1>3, <1>4, <2>1
  <2>3. QED  BY <1>4, <2>2 DEF Rests, n
<1>9. QED  BY <1>4, <1>7, <1>8

\* A raise begins, or is ignored.
LEMMA EnterKeeps ==
    ASSUME IrqInv, NEW i \in Irqs, NEW v \in IR!Bits, NEW below \in Seq(Frames),
           RaisesHold(below, busy, hooks, seen, quiet), InStep(below, hooks, seen, quiet, value),
           \A j : Rests(j, below) <=> Rests(j, stack),
           IR!Enter(i, v, below), UNCHANGED <<hooks, busy, value, strong, seen>>
    PROVE  IrqInv'
<1>1. IrqTypes /\ NothingTold
  BY DEF IrqInv
<1>2. CASE stack' = below /\ UNCHANGED <<initbit, quiet>>
  <2>1. IrqTypes'
    BY <1>1, <1>2 DEF IrqTypes
  <2>2. NothingTold'
    BY <1>1 DEF NothingTold
  <2>3. RaisesHold(stack', busy', hooks', seen', quiet')
        /\ InStep(stack', hooks', seen', quiet', value')
    BY <1>2
  <2>4. QED  BY <2>1, <2>2, <2>3 DEF IrqInv
<1>3. CASE ~IR!Ignores(i, v)
  <2> DEFINE f == [irq |-> i, out |-> IR!Output(i, v), at |-> None, next |-> IR!First(i),
                   acted |-> FALSE]
  <2>1. IR!Output(i, v) \in IR!Bits
    BY DEF IR!Output, IR!Bits
  <2>2. IR!First(i) \in IR!Hooks \cup {None}
    <3>1. hooks[i] \in Seq(IR!Hooks)
      BY <1>1 DEF IrqTypes
    <3>2. hooks[i] # << >> => Head(hooks[i]) \in IR!Hooks
      BY <3>1, HeadTailProperties
    <3>3. QED  BY <3>2 DEF IR!First
  <2>3. f \in Frames /\ f.irq = i /\ f.next = IR!First(f.irq)
    BY <2>1, <2>2 DEF Frames
  <2>4. stack' = Append(below, f) /\ initbit' = initbit \ {i}
        /\ quiet' = IF IR!OnStack(i) THEN quiet \ {i} ELSE quiet \cup {i}
    BY <1>3, Zenon DEF IR!Enter
  <2>5. Rests(i, below) <=> ~IR!OnStack(i)
    BY <1>1, RestsOffStack DEF IrqTypes
  <2> HIDE DEF f
  <2>6. quiet' = IF Rests(f.irq, below) THEN quiet \cup {f.irq} ELSE quiet \ {f.irq}
    BY <2>3, <2>4, <2>5
  <2>7. /\ Append(below, f) \in Seq(Frames)
        /\ RaisesHold(Append(below, f), busy, hooks, seen, quiet')
        /\ InStep(Append(below, f), hooks, seen, quiet', value)
    BY <1>1, <2>3, <2>6, EntryHolds
  <2>8. IrqTypes'
    BY <1>1, <2>4, <2>7 DEF IrqTypes
  <2>9. NothingTold'
    BY <1>1 DEF NothingTold
  <2>10. RaisesHold(stack', busy', hooks', seen', quiet')
         /\ InStep(stack', hooks', seen', quiet', value')
    BY <2>4, <2>7
  <2>11. QED  BY <2>8, <2>9, <2>10 DEF IrqInv
<1>4. QED  BY <1>2, <1>3 DEF IR!Enter

\* Between two of its hooks, an undisturbed raise has none that is busy.
LEMMA CalmIsFree ==
    ASSUME IrqInv, IR!Between, IR!Top.irq \in quiet, NEW x
    PROVE  <<IR!Top.irq, x>> \notin busy
<1> DEFINE n == Len(stack)
<1>1. /\ stack \in Seq(Frames) /\ stack # << >> /\ IR!Top.at = None
      /\ busy \subseteq Irqs \X IR!Hooks /\ RaisesHold(stack, busy, hooks, seen, quiet)
  BY DEF IrqInv, IrqTypes, IR!Between
<1>2. IR!Top = stack[n] /\ n \in 1 .. n
  BY <1>1, RaiseOnTop
<1>3. SUFFICES ASSUME <<IR!Top.irq, x>> \in busy PROVE FALSE
  OBVIOUS
<1>4. PICK k \in 1 .. n : <<IR!Top.irq, x>> = <<stack[k].irq, stack[k].at>>
  BY <1>1, <1>3 DEF RaisesHold
<1>5. k = n
  BY <1>1, <1>2, <1>4 DEF RaisesHold
<1>6. x = None /\ x \in IR!Hooks
  BY <1>1, <1>2, <1>3, <1>4, <1>5
<1>7. QED  BY <1>6, PeripheralsAssumption DEF IR!WellFormed

LEMMA CallHookKeeps ==
    ASSUME IrqInv, IR!CallHook
    PROVE  IrqInv'
<1> DEFINE i == IR!Top.irq
           list == hooks[i]
           w == CHOOSE m \in IR!Waiting : \A k \in IR!Waiting : m <= k
           h == list[w]
           t == [IR!Top EXCEPT !.at = h, !.next = IR!FollowedBy(i, h), !.acted = FALSE]
<1>1. /\ IrqTypes /\ NothingTold /\ stack # << >> /\ IR!Top.at = None /\ IR!Waiting # {}
      /\ RaisesHold(stack, busy, hooks, seen, quiet)
      /\ InStep(stack, hooks, seen, quiet, value)
  BY DEF IrqInv, IR!CallHook, IR!Between
<1>2. /\ stack \in Seq(Frames) /\ IR!Top \in Frames /\ IR!Top = stack[Len(stack)]
      /\ Len(stack) \in 1 .. Len(stack)
  BY <1>1, RaiseOnTop DEF IrqTypes
<1>3. i \in Irqs /\ list \in Seq(IR!Hooks) /\ IR!IsInjective(list) /\ Len(list) \in Nat
      /\ DOMAIN list = 1 .. Len(list)
  BY <1>1, <1>2, LenProperties DEF Frames, IrqTypes
<1>4. /\ busy' = busy \cup {<<i, h>>} /\ stack' = Append(IR!Below, t)
      /\ seen' = [seen EXCEPT ![<<i, h>>] = IR!Top.out]
      /\ UNCHANGED <<hooks, value, initbit, strong, quiet>>
  BY Zenon DEF IR!CallHook
<1>5. IR!Waiting \in SUBSET (1 .. Len(list))
  BY <1>3 DEF IR!Waiting, IR!From
<1>6. w \in IR!Waiting /\ \A k \in IR!Waiting : w <= k
  <2>1. IR!Waiting \in SUBSET Nat
    BY <1>5
  <2>2. \E m \in IR!Waiting : \A k \in IR!Waiting : m <= k
    BY <1>1, <2>1, LeastExists
  <2>3. QED  BY <2>2, Zenon
<1> HIDE DEF w
<1>7. w \in 1 .. Len(list) /\ h \in IR!Hooks
  BY <1>3, <1>5, <1>6, ElementOfSeq
<1>8. IR!PlaceOf(i, h) = w
  <2>1. IR!PlaceOf(i, h) = Place(list, h)
    BY Zenon DEF IR!PlaceOf, Place
  <2>2. QED  BY <1>3, <1>7, <2>1, PlaceIs
<1>9. IR!FollowedBy(i, h) = IF w < Len(list) THEN list[w + 1] ELSE None
  BY <1>8 DEF IR!FollowedBy
<1>10. w < Len(list) => w + 1 \in 1 .. Len(list) /\ list[w + 1] \in IR!Hooks
  <2>1. w < Len(list) => w + 1 \in 1 .. Len(list)
    BY <1>3, <1>7
  <2>2. QED  BY <1>3, <2>1, ElementOfSeq
<1>11. None \notin IR!Hooks
  BY PeripheralsAssumption DEF IR!WellFormed
<1>12. /\ t \in Frames /\ t.irq = i /\ t.at = h /\ t.next = IR!FollowedBy(i, h)
       /\ t.out = IR!Top.out
  BY <1>2, <1>7, <1>9, <1>10 DEF Frames
<1> HIDE DEF t, h
<1>13. RaiseHolds(t, hooks, seen', quiet)
  <2>1. t.next # None => IR!Contains(hooks[t.irq], t.next)
    BY <1>9, <1>10, <1>12 DEF IR!Contains
  <2>2. ASSUME i \in quiet, NEW x \in IR!Hooks, IR!Contains(list, x)
        PROVE  \/ seen'[<<i, x>>] \in {IR!Unseen, t.out}
               \/ t.next # None /\ Place(list, x) >= Place(list, t.next)
    <3>1. CASE x = h
      <4>1. <<i, h>> \in Irqs \X IR!Hooks
        BY <1>3, <1>7
      <4>2. QED  BY <1>1, <1>4, <1>12, <3>1, <4>1 DEF IrqTypes
    <3>2. CASE x # h /\ seen[<<i, x>>] \in {IR!Unseen, IR!Top.out}
      <4>1. seen'[<<i, x>>] = seen[<<i, x>>]
        BY <1>1, <1>3, <1>4, <2>2, <3>2 DEF IrqTypes
      <4>2. QED  BY <1>12, <3>2, <4>1
    <3>3. CASE x # h /\ seen[<<i, x>>] \notin {IR!Unseen, IR!Top.out}
      <4>1. RaiseHolds(IR!Top, hooks, seen, quiet)
        BY <1>1, <1>2 DEF RaisesHold
      <4>2. /\ IR!Top.next # None /\ Place(list, x) >= Place(list, IR!Top.next)
            /\ IR!Contains(list, IR!Top.next)
        BY <2>2, <3>3, <4>1 DEF RaiseHolds
      <4>3. PICK p \in 1 .. Len(list) : list[p] = IR!Top.next
        BY <4>2 DEF IR!Contains
      <4>4. Place(list, IR!Top.next) = p
        BY <1>3, <4>3, PlaceIs
      <4>5. PICK m \in 1 .. Len(list) : list[m] = x
        BY <2>2 DEF IR!Contains
      <4>6. Place(list, x) = m
        BY <1>3, <4>5, PlaceIs
      <4>7. IR!From(i, IR!Top.next) = {k \in 1 .. Len(list) : k >= p}
        <5>1. IR!PlaceOf(i, IR!Top.next) = p
          BY <4>4, Zenon DEF IR!PlaceOf, Place
        <5>2. QED  BY <1>3, <4>2, <5>1 DEF IR!From
      <4>8. p \in IR!Waiting
        <5>1. IR!Between
          BY <1>1 DEF IR!Between
        <5>2. <<i, list[p]>> \notin busy
          BY <2>2, <5>1, CalmIsFree
        <5>3. p \in IR!From(i, IR!Top.next)
          BY <4>7
        <5>4. QED  BY <5>2, <5>3 DEF IR!Waiting, IR!MayCall
      <4>9. w \in IR!From(i, IR!Top.next)
        BY <1>6 DEF IR!Waiting
      <4>10. w = p
        BY <1>6, <1>7, <4>7, <4>8, <4>9
      <4>11. m # w
        BY <3>3, <4>5 DEF h
      <4>12. m >= w + 1 /\ w < Len(list)
        BY <1>3, <1>7, <4>2, <4>4, <4>6, <4>10, <4>11
      <4>13. t.next = list[w + 1] /\ t.next # None
        BY <1>9, <1>10, <1>11, <1>12, <4>12
      <4>14. Place(list, t.next) = w + 1
        BY <1>3, <1>10, <4>12, <4>13, PlaceIs
      <4>15. QED  BY <4>6, <4>12, <4>13, <4>14
    <3>4. QED  BY <3>1, <3>2, <3>3
  <2>3. QED  BY <1>12, <2>1, <2>2 DEF RaiseHolds
<1>14. \A p \in busy' : p = <<t.irq, t.at>> \/ (p \in busy /\ p # <<i, IR!Top.at>>)
  <2>1. busy \subseteq Irqs \X IR!Hooks
    BY <1>1 DEF IrqTypes
  <2>2. \A p \in busy : p # <<i, None>>
    BY <1>11, <2>1
  <2>3. QED  BY <1>1, <1>4, <1>12, <2>2
<1>15. \A j \in Irqs, x \in IR!Hooks : j # t.irq => seen'[<<j, x>>] = seen[<<j, x>>]
  BY <1>1, <1>4, <1>12 DEF IrqTypes
<1>16. quiet \subseteq Irqs
  BY <1>1 DEF IrqTypes
<1>17. /\ RaisesHold(Append(IR!Below, t), busy', hooks, seen', quiet)
       /\ InStep(Append(IR!Below, t), hooks, seen', quiet, value)
  BY <1>1, <1>2, <1>12, <1>13, <1>14, <1>15, <1>16, GoingOnHolds
<1>18. IrqTypes'
  <2>1. Append(IR!Below, t) \in Seq(Frames)
    BY <1>1, <1>2, <1>12, TopReplaced
  <2>2. busy' \subseteq Irqs \X IR!Hooks
    BY <1>1, <1>3, <1>4, <1>7 DEF IrqTypes
  <2>3. seen' \in [Irqs \X IR!Hooks -> IR!Bits \cup {IR!Unseen}]
    BY <1>1, <1>2, <1>4 DEF IrqTypes, Frames
  <2>4. QED  BY <1>1, <1>4, <2>1, <2>2, <2>3 DEF IrqTypes
<1>19. NothingTold'
  <2>1. IR!Contains(list, h)
    BY <1>7 DEF IR!Contains, h
  <2>2. ASSUME NEW j \in Irqs, NEW x \in IR!Hooks, ~IR!Contains(hooks[j], x)
        PROVE  seen'[<<j, x>>] = IR!Unseen
    <3>1. <<j, x>> # <<i, h>>
      BY <2>1, <2>2
    <3>2. seen'[<<j, x>>] = seen[<<j, x>>]
      BY <1>1, <1>4, <3>1 DEF IrqTypes
    <3>3. QED  BY <1>1, <2>2, <3>2 DEF NothingTold
  <2>3. QED  BY <1>4, <2>2 DEF NothingTold
<1>20. RaisesHold(stack', busy', hooks', seen', quiet') /\ InStep(stack', hooks', seen', quiet', value')
  BY <1>4, <1>17
<1>21. QED  BY <1>18, <1>19, <1>20 DEF IrqInv

LEMMA FinishRaiseKeeps ==
    ASSUME IrqInv, IR!FinishRaise
    PROVE  IrqInv'
<1> DEFINE i == IR!Top.irq
<1>1. /\ IrqTypes /\ NothingTold /\ stack # << >> /\ IR!Top.at = None /\ IR!Waiting = {}
      /\ IR!Between /\ RaisesHold(stack, busy, hooks, seen, quiet)
      /\ InStep(stack, hooks, seen, quiet, value)
  BY DEF IrqInv, IR!FinishRaise, IR!Between
<1>2. /\ stack \in Seq(Frames) /\ IR!Top \in Frames /\ IR!Top = stack[Len(stack)]
      /\ Len(stack) \in 1 .. Len(stack) /\ IR!Below \in Seq(Frames)
  BY <1>1, RaiseOnTop DEF IrqTypes
<1>3. i \in Irqs /\ hooks[i] \in Seq(IR!Hooks) /\ IR!IsInjective(hooks[i])
      /\ DOMAIN hooks[i] = 1 .. Len(hooks[i])
  BY <1>1, <1>2, LenProperties DEF Frames, IrqTypes
<1>4. /\ value' = [value EXCEPT ![i] = IR!Top.out] /\ stack' = IR!Below
      /\ UNCHANGED <<hooks, busy, initbit, strong, seen, quiet>>
  BY DEF IR!FinishRaise
<1>5. \A p \in busy : p \in busy /\ p # <<i, IR!Top.at>>
  <2>1. None \notin IR!Hooks
    BY PeripheralsAssumption DEF IR!WellFormed
  <2>2. QED  BY <1>1, <2>1 DEF IrqTypes
<1>6. RaisesHold(IR!Below, busy, hooks, seen, quiet)
  BY <1>1, <1>2, <1>5, ReturnHolds
<1>7. ASSUME i \in quiet, NEW h \in IR!Hooks, IR!Contains(hooks[i], h)
      PROVE  seen[<<i, h>>] \in {IR!Unseen, IR!Top.out}
  <2>1. RaiseHolds(IR!Top, hooks, seen, quiet)
    BY <1>1, <1>2 DEF RaisesHold
  <2>2. SUFFICES ASSUME IR!Top.next # None PROVE FALSE
    BY <1>7, <2>1 DEF RaiseHolds
  <2>3. IR!Contains(hooks[i], IR!Top.next)
    BY <2>1, <2>2 DEF RaiseHolds
  <2>4. PICK p \in 1 .. Len(hooks[i]) : hooks[i][p] = IR!Top.next
    BY <2>3 DEF IR!Contains
  <2>5. IR!PlaceOf(i, IR!Top.next) = p
    <3>1. IR!PlaceOf(i, IR!Top.next) = Place(hooks[i], IR!Top.next)
      BY Zenon DEF IR!PlaceOf, Place
    <3>2. QED  BY <1>3, <2>4, <3>1, PlaceIs
  <2>6. p \in IR!From(i, IR!Top.next)
    BY <1>3, <2>2, <2>5 DEF IR!From
  <2>7. <<i, hooks[i][p]>> \notin busy
    BY <1>1, <1>7, CalmIsFree
  <2>8. p \in IR!Waiting
    BY <2>6, <2>7 DEF IR!Waiting, IR!MayCall
  <2>9. QED  BY <1>1, <2>8
<1>8. InStep(IR!Below, hooks, seen, quiet, value')
  <2>1. SUFFICES ASSUME NEW j \in quiet, Rests(j, IR!Below), NEW h \in IR!Hooks,
                        IR!Contains(hooks[j], h)
                 PROVE  seen[<<j, h>>] \in {IR!Unseen, value'[j]}
    BY Zenon DEF InStep
  <2>2. CASE j = i
    <3>1. value'[j] = IR!Top.out
      BY <1>1, <1>3, <1>4, <2>2 DEF IrqTypes
    <3>2. QED  BY <1>7, <2>1, <2>2, <3>1
  <2>3. CASE j # i
    <3>1. Rests(j, stack)
      BY <1>1, <1>2, <2>1, <2>3, RestsAfterReturn
    <3>2. seen[<<j, h>>] \in {IR!Unseen, value[j]}
      BY <1>1, <2>1, <3>1 DEF InStep
    <3>3. value'[j] = value[j]
      BY <1>1, <1>4, <2>1, <2>3 DEF IrqTypes
    <3>4. QED  BY <3>2, <3>3
  <2>4. QED  BY <2>2, <2>3
<1>9. IrqTypes'
  <2>1. value' \in [Irqs -> IR!Bits]
    BY <1>1, <1>2, <1>4 DEF IrqTypes, Frames
  <2>2. QED  BY <1>1, <1>2, <1>4, <2>1 DEF IrqTypes
<1>10. NothingTold'
  BY <1>1, <1>4 DEF NothingTold
<1>11. RaisesHold(stack', busy', hooks', seen', quiet') /\ InStep(stack', hooks', seen', quiet', value')
  BY <1>4, <1>6, <1>8
<1>12. QED  BY <1>9, <1>10, <1>11 DEF IrqInv

LEMMA ChainKeeps ==
    ASSUME IrqInv, IR!Chain
    PROVE  IrqInv'
<1>1. /\ stack # << >> /\ IR!Top.at \in Irqs /\ UNCHANGED <<hooks, busy, value, strong, seen>>
      /\ IR!Enter(IR!Top.at, IR!Top.out, Append(IR!Below, IR!Acted))
  BY DEF IR!Chain
<1>2. IR!Top.out \in IR!Bits
  BY <1>1, RaiseOnTop DEF IrqInv, IrqTypes, Frames
<1>3. QED  BY <1>1, <1>2, ActedHolds, EnterKeeps

\* A hook returns to the raise that called it.
LEMMA HookReturnKeeps ==
    ASSUME IrqInv, stack # << >>, busy' = busy \ {<<IR!Top.irq, IR!Top.at>>},
           stack' = Append(IR!Below, [IR!Top EXCEPT !.at = None]),
           UNCHANGED <<hooks, value, initbit, strong, seen, quiet>>
    PROVE  IrqInv'
<1> DEFINE t == [IR!Top EXCEPT !.at = None]
<1>1. /\ IrqTypes /\ NothingTold /\ RaisesHold(stack, busy, hooks, seen, quiet)
      /\ InStep(stack, hooks, seen, quiet, value)
  BY DEF IrqInv
<1>2. /\ stack \in Seq(Frames) /\ IR!Top \in Frames /\ IR!Top = stack[Len(stack)]
      /\ Len(stack) \in 1 .. Len(stack)
  BY <1>1, RaiseOnTop DEF IrqTypes
<1>3. /\ t \in Frames /\ t.irq = IR!Top.irq /\ t.out = IR!Top.out /\ t.next = IR!Top.next
  BY <1>2 DEF Frames
<1>4. stack' = Append(IR!Below, t)
  OBVIOUS
<1> HIDE DEF t
<1>5. RaiseHolds(t, hooks, seen, quiet)
  <2>1. RaiseHolds(IR!Top, hooks, seen, quiet)
    BY <1>1, <1>2 DEF RaisesHold
  <2>2. QED  BY <1>3, <2>1 DEF RaiseHolds
<1>6. quiet \subseteq Irqs
  BY <1>1 DEF IrqTypes
<1>7. \A p \in busy' : p = <<t.irq, t.at>> \/ (p \in busy /\ p # <<IR!Top.irq, IR!Top.at>>)
  OBVIOUS
<1>8. /\ RaisesHold(Append(IR!Below, t), busy', hooks, seen, quiet)
      /\ InStep(Append(IR!Below, t), hooks, seen, quiet, value)
  BY <1>1, <1>2, <1>3, <1>5, <1>6, <1>7, GoingOnHolds
<1>9. IrqTypes'
  <2>1. Append(IR!Below, t) \in Seq(Frames)
    BY <1>1, <1>2, <1>3, TopReplaced
  <2>2. QED  BY <1>1, <1>4, <2>1 DEF IrqTypes
<1>10. NothingTold'
  BY <1>1 DEF NothingTold
<1>11. RaisesHold(stack', busy', hooks', seen', quiet') /\ InStep(stack', hooks', seen', quiet', value')
  BY <1>4, <1>8
<1>12. QED  BY <1>9, <1>10, <1>11 DEF IrqInv

LEMMA ReturnsKeep ==
    ASSUME IrqInv, IR!ChainReturns \/ IR!NotifyReturns
    PROVE  IrqInv'
BY HookReturnKeeps DEF IR!ChainReturns, IR!NotifyReturns, IR!Notified

LEMMA StoppedReturnKeeps ==
    ASSUME IrqInv, IR!StoppedReturn
    PROVE  IrqInv'
<1>1. /\ IrqTypes /\ NothingTold /\ stack # << >>
      /\ RaisesHold(stack, busy, hooks, seen, quiet)
      /\ InStep(stack, hooks, seen, quiet, value)
  BY DEF IrqInv, IR!StoppedReturn, IR!Notified
<1>2. stack \in Seq(Frames) /\ IR!Below \in Seq(Frames)
  BY <1>1, RaiseOnTop DEF IrqTypes
<1>3. /\ busy' = busy \ {<<IR!Top.irq, IR!Top.at>>} /\ stack' = IR!Below
      /\ quiet' = quiet \ {IR!Top.irq} /\ initbit' = initbit \ {IR!Top.irq}
      /\ UNCHANGED <<hooks, value, strong, seen>>
  BY DEF IR!StoppedReturn, IR!Released
<1>4. RaisesHold(IR!Below, busy', hooks, seen, quiet')
  BY <1>1, <1>2, <1>3, ReturnHolds
<1>5. InStep(IR!Below, hooks, seen, quiet', value)
  BY <1>1, <1>2, <1>3, RestsAfterReturn DEF InStep
<1>6. IrqTypes'
  BY <1>1, <1>2, <1>3 DEF IrqTypes
<1>7. NothingTold'
  BY <1>1, <1>3 DEF NothingTold
<1>8. RaisesHold(stack', busy', hooks', seen', quiet') /\ InStep(stack', hooks', seen', quiet', value')
  BY <1>3, <1>4, <1>5
<1>9. QED  BY <1>6, <1>7, <1>8 DEF IrqInv

\* What a hook, or the code between raises, does leaves the raises as they are.
LEMMA ResumeHolds ==
    ASSUME IrqInv
    PROVE  /\ IR!Resume \in Seq(Frames) /\ RaisesHold(IR!Resume, busy, hooks, seen, quiet)
           /\ InStep(IR!Resume, hooks, seen, quiet, value)
           /\ \A i : Rests(i, IR!Resume) <=> Rests(i, stack)
<1>1. CASE stack = << >>
  <2>1. IR!Resume = stack
    BY <1>1 DEF IR!Resume
  <2>2. QED  BY <2>1 DEF IrqInv, IrqTypes
<1>2. CASE stack # << >>
  <2>1. IR!Resume = Append(IR!Below, IR!Acted)
    BY <1>2 DEF IR!Resume
  <2>2. QED  BY <1>2, <2>1, ActedHolds
<1>3. QED  BY <1>1, <1>2

LEMMA IrqRaiseKeeps ==
    ASSUME IrqInv, NEW i \in Irqs, NEW v \in IR!Bits, IR!Raise(i, v)
    PROVE  IrqInv'
BY ResumeHolds, EnterKeeps DEF IR!Raise

LEMMA IrqOthersKeep ==
    ASSUME IrqInv, \/ IR!Stop
                   \/ \E i \in Irqs : IR!Rearm(i) \/ IR!SetStrong(i)
    PROVE  IrqInv'
<1>1. /\ IrqTypes /\ NothingTold /\ RaisesHold(stack, busy, hooks, seen, quiet)
      /\ InStep(stack, hooks, seen, quiet, value)
  BY DEF IrqInv
<1>2. CASE IR!Stop
  <2>1. /\ initbit' = initbit \cup {IR!Top.irq} /\ stack' = IR!Resume /\ stack # << >>
        /\ UNCHANGED <<hooks, busy, value, strong, seen, quiet>>
    BY <1>2 DEF IR!Stop, IR!Notified
  <2>2. IR!Top.irq \in Irqs
    BY <1>1, <2>1, RaiseOnTop DEF IrqTypes, Frames
  <2>3. IrqTypes'
    BY <1>1, <2>1, <2>2, ResumeHolds DEF IrqTypes
  <2>4. NothingTold'
    BY <1>1, <2>1 DEF NothingTold
  <2>5. RaisesHold(stack', busy', hooks', seen', quiet') /\ InStep(stack', hooks', seen', quiet', value')
    BY <2>1, ResumeHolds
  <2>6. QED  BY <2>3, <2>4, <2>5 DEF IrqInv
<1>3. ASSUME NEW i \in Irqs, IR!Rearm(i)
      PROVE  IrqInv'
  <2>1. /\ value' = [value EXCEPT ![i] = 0] /\ initbit' = initbit \cup {i}
        /\ quiet' = quiet \ {i} /\ UNCHANGED <<hooks, busy, strong, stack, seen>>
    BY <1>3 DEF IR!Rearm
  <2>2. IrqTypes'
    BY <1>1, <2>1 DEF IrqTypes, IR!Bits
  <2>3. NothingTold'
    BY <1>1, <2>1 DEF NothingTold
  <2>4. RaisesHold(stack, busy, hooks, seen, quiet')
    BY <1>1, <2>1 DEF RaisesHold, RaiseHolds
  <2>5. InStep(stack, hooks, seen, quiet', value')
    <3>1. \A j \in quiet' : j \in quiet /\ value'[j] = value[j]
      BY <1>1, <2>1 DEF IrqTypes
    <3>2. QED  BY <1>1, <3>1 DEF InStep
  <2>6. RaisesHold(stack', busy', hooks', seen', quiet') /\ InStep(stack', hooks', seen', quiet', value')
    BY <2>1, <2>4, <2>5
  <2>7. QED  BY <2>2, <2>3, <2>6 DEF IrqInv
<1>4. ASSUME NEW i \in Irqs, IR!SetStrong(i)
      PROVE  IrqInv'
  <2>1. /\ strong' \subseteq strong \cup {i}
        /\ UNCHANGED <<hooks, busy, value, initbit, stack, seen, quiet>>
    BY <1>4 DEF IR!SetStrong
  <2>2. IrqTypes' /\ NothingTold'
    BY <1>1, <2>1 DEF IrqTypes, NothingTold
  <2>3. RaisesHold(stack', busy', hooks', seen', quiet') /\ InStep(stack', hooks', seen', quiet', value')
    BY <1>1, <2>1
  <2>4. QED  BY <2>2, <2>3 DEF IrqInv
<1>5. QED  BY <1>2, <1>3, <1>4

LEMMA AddHookKeeps ==
    ASSUME IrqInv, NEW i \in Irqs, NEW h \in IR!Hooks, IR!AddHook(i, h)
    PROVE  IrqInv'
<1> DEFINE list == hooks[i]
           more == Append(list, h)
<1>1. /\ IrqTypes /\ NothingTold /\ quiet \subseteq Irqs
  BY DEF IrqInv, IrqTypes
<1>2. /\ ~IR!Contains(list, h) /\ hooks' = [hooks EXCEPT ![i] = more] /\ stack' = IR!Resume
      /\ UNCHANGED <<busy, value, initbit, strong, seen, quiet>>
  BY DEF IR!AddHook
<1>3. list \in Seq(IR!Hooks) /\ IR!IsInjective(list)
  BY <1>1 DEF IrqTypes
<1>4. /\ more \in Seq(IR!Hooks) /\ IR!IsInjective(more)
      /\ \A k : IR!Contains(more, k) <=> IR!Contains(list, k) \/ k = h
      /\ \A k : IR!Contains(list, k) => Place(more, k) = Place(list, k)
  BY <1>2, <1>3, AdditionKeepsOrder
<1> HIDE DEF more
<1>5. hooks'[i] = more /\ \A j \in Irqs \ {i} : hooks'[j] = hooks[j]
  BY <1>1, <1>2 DEF IrqTypes
<1>6. \A k : IR!Contains(hooks'[i], k) <=> IR!Contains(hooks[i], k) \/ k = h
  BY <1>4, <1>5
<1>7. seen[<<i, h>>] = IR!Unseen
  BY <1>1, <1>2 DEF NothingTold
<1>8. IrqTypes'
  <2>1. hooks' \in [Irqs -> Seq(IR!Hooks)]
    BY <1>1, <1>2, <1>4 DEF IrqTypes
  <2>2. \A j \in Irqs : IR!IsInjective(hooks'[j])
    BY <1>1, <1>4, <1>5 DEF IrqTypes
  <2>3. stack' \in Seq(Frames)
    BY <1>2, ResumeHolds
  <2>4. QED  BY <1>1, <1>2, <2>1, <2>2, <2>3 DEF IrqTypes
<1>9. NothingTold'
  <2>1. \A j \in Irqs, k \in IR!Hooks : ~IR!Contains(hooks'[j], k) => ~IR!Contains(hooks[j], k)
    BY <1>5, <1>6
  <2>2. QED  BY <1>1, <1>2, <2>1 DEF NothingTold
<1>10. ASSUME NEW f \in Frames, RaiseHolds(f, hooks, seen, quiet)
       PROVE  RaiseHolds(f, hooks', seen, quiet)
  <2>1. f.irq \in Irqs
    BY DEF Frames
  <2>2. CASE f.irq # i
    BY <1>5, <1>10, <2>1, <2>2 DEF RaiseHolds
  <2>3. CASE f.irq = i
    <3>1. f.next # None => IR!Contains(list, f.next) /\ Place(more, f.next) = Place(list, f.next)
      BY <1>4, <1>10, <2>3 DEF RaiseHolds
    <3>2. ASSUME f.irq \in quiet, NEW k \in IR!Hooks, IR!Contains(more, k)
          PROVE  \/ seen[<<i, k>>] \in {IR!Unseen, f.out}
                 \/ f.next # None /\ Place(more, k) >= Place(more, f.next)
      <4>1. CASE k = h
        BY <1>7, <4>1
      <4>2. CASE IR!Contains(list, k)
        <5>1. Place(more, k) = Place(list, k)
          BY <1>4, <4>2
        <5>2. QED  BY <1>10, <2>3, <3>1, <3>2, <4>2, <5>1 DEF RaiseHolds
      <4>3. QED  BY <1>4, <3>2, <4>1, <4>2
    <3>3. f.next # None => IR!Contains(more, f.next)
      BY <1>4, <3>1
    <3>4. QED  BY <1>5, <2>3, <3>2, <3>3 DEF RaiseHolds
  <2>4. QED  BY <2>2, <2>3
<1>11. RaisesHold(IR!Resume, busy, hooks', seen, quiet)
  <2>1. IR!Resume \in Seq(Frames) /\ RaisesHold(IR!Resume, busy, hooks, seen, quiet)
    BY ResumeHolds
  <2>2. \A k \in 1 .. Len(IR!Resume) : IR!Resume[k] \in Frames
    BY <2>1, ElementOfSeq
  <2>3. QED  BY <1>10, <2>1, <2>2 DEF RaisesHold
<1>12. InStep(IR!Resume, hooks', seen, quiet, value)
  <2>1. SUFFICES ASSUME NEW j \in quiet, Rests(j, IR!Resume), NEW k \in IR!Hooks,
                        IR!Contains(hooks'[j], k)
                 PROVE  seen[<<j, k>>] \in {IR!Unseen, value[j]}
    BY Zenon DEF InStep
  <2>2. IR!Contains(hooks[j], k) \/ (j = i /\ k = h)
    BY <1>1, <1>5, <1>6, <2>1
  <2>3. QED  BY <1>7, <2>1, <2>2, ResumeHolds DEF InStep
<1>13. RaisesHold(stack', busy', hooks', seen', quiet') /\ InStep(stack', hooks', seen', quiet', value')
  BY <1>2, <1>11, <1>12
<1>14. QED  BY <1>8, <1>9, <1>13 DEF IrqInv

\* No raise goes on with a hook that may be removed.
LEMMA RemovableIsNotNext ==
    ASSUME IrqInv, NEW i, NEW h, IR!Removable(i, h), NEW k \in 1 .. Len(IR!Resume),
           IR!Resume[k].irq = i
    PROVE  IR!Resume[k].next # h
<1> DEFINE n == Len(stack)
<1>1. stack \in Seq(Frames) /\ DOMAIN stack = 1 .. n
  BY LenProperties DEF IrqInv, IrqTypes
<1>2. \A m \in 1 .. n : stack[m].irq = i => stack[m].next # h
  BY <1>1 DEF IR!Removable
<1>3. CASE stack = << >>
  BY <1>2, <1>3 DEF IR!Resume
<1>4. CASE stack # << >>
  <2>1. /\ IR!Top \in Frames /\ IR!Top = stack[n] /\ n \in Nat \ {0}
    BY <1>1, <1>4, RaiseOnTop
  <2>2. IR!Acted \in Frames /\ IR!Acted.irq = IR!Top.irq /\ IR!Acted.next = IR!Top.next
    BY <2>1 DEF IR!Acted, Frames
  <2>3. IR!Resume = Append(IR!Below, IR!Acted)
    BY <1>4 DEF IR!Resume
  <2>4. /\ Len(IR!Resume) = n /\ IR!Resume[n] = IR!Acted
        /\ \A m \in 1 .. n - 1 : IR!Resume[m] = stack[m]
    BY <1>1, <1>4, <2>2, <2>3, TopReplaced, Zenon
  <2> HIDE DEF n
  <2>5. k \in 1 .. n /\ (k \in 1 .. n - 1 \/ k = n)
    BY <2>1, <2>4
  <2>6. QED  BY <1>2, <2>1, <2>2, <2>4, <2>5
<1>5. QED  BY <1>3, <1>4

LEMMA RemoveHookKeeps ==
    ASSUME IrqInv, NEW i \in Irqs, NEW h \in IR!Hooks, IR!RemoveHook(i, h)
    PROVE  IrqInv'
<1> DEFINE list == hooks[i]
           p == IR!PlaceOf(i, h)
           less == IR!RemoveAt(list, p)
<1>1. /\ IrqTypes /\ NothingTold /\ quiet \subseteq Irqs
  BY DEF IrqInv, IrqTypes
<1>2. /\ IR!Contains(list, h) /\ IR!Removable(i, h)
      /\ hooks' = [hooks EXCEPT ![i] = less] /\ stack' = IR!Resume
      /\ seen' = [seen EXCEPT ![<<i, h>>] = IR!Unseen]
      /\ UNCHANGED <<busy, value, initbit, strong, quiet>>
  BY Zenon DEF IR!RemoveHook
<1>3. list \in Seq(IR!Hooks) /\ IR!IsInjective(list)
  BY <1>1 DEF IrqTypes
<1>4. p \in 1 .. Len(list) /\ list[p] = h
  <2>1. PICK m \in 1 .. Len(list) : list[m] = h
    BY <1>2 DEF IR!Contains
  <2>2. p = Place(list, h)
    BY Zenon DEF IR!PlaceOf, Place
  <2>3. QED  BY <1>3, <2>1, <2>2, PlaceIs
<1> HIDE DEF p
<1>5. /\ less \in Seq(IR!Hooks) /\ IR!IsInjective(less)
      /\ \A k : IR!Contains(less, k) <=> IR!Contains(list, k) /\ k # h
      /\ \A k, m : IR!Contains(less, k) /\ IR!Contains(less, m)
                       /\ Place(list, k) >= Place(list, m) =>
                       Place(less, k) >= Place(less, m)
  BY <1>3, <1>4, RemovalKeepsOrder
<1> HIDE DEF less
<1>6. hooks'[i] = less /\ \A j \in Irqs \ {i} : hooks'[j] = hooks[j]
  BY <1>1, <1>2 DEF IrqTypes
<1>7. /\ \A j \in Irqs, k \in IR!Hooks : <<j, k>> # <<i, h>> => seen'[<<j, k>>] = seen[<<j, k>>]
      /\ seen'[<<i, h>>] = IR!Unseen
  BY <1>1, <1>2 DEF IrqTypes
<1>8. IrqTypes'
  <2>1. hooks' \in [Irqs -> Seq(IR!Hooks)]
    BY <1>1, <1>2, <1>5 DEF IrqTypes
  <2>2. \A j \in Irqs : IR!IsInjective(hooks'[j])
    BY <1>1, <1>5, <1>6 DEF IrqTypes
  <2>3. stack' \in Seq(Frames)
    BY <1>2, ResumeHolds
  <2>4. seen' \in [Irqs \X IR!Hooks -> IR!Bits \cup {IR!Unseen}]
    BY <1>1, <1>2 DEF IrqTypes
  <2>5. QED  BY <1>1, <1>2, <2>1, <2>2, <2>3, <2>4 DEF IrqTypes
<1>9. NothingTold'
  <2>1. ASSUME NEW j \in Irqs, NEW k \in IR!Hooks, ~IR!Contains(hooks'[j], k)
        PROVE  seen'[<<j, k>>] = IR!Unseen
    <3>1. CASE <<j, k>> = <<i, h>>
      BY <1>7, <3>1
    <3>2. CASE <<j, k>> # <<i, h>>
      <4>1. ~IR!Contains(hooks[j], k)
        BY <1>5, <1>6, <2>1, <3>2
      <4>2. QED  BY <1>1, <1>7, <3>2, <4>1 DEF NothingTold
    <3>3. QED  BY <3>1, <3>2
  <2>2. QED  BY <2>1 DEF NothingTold
<1>10. ASSUME NEW f \in Frames, RaiseHolds(f, hooks, seen, quiet), f.irq = i => f.next # h
       PROVE  RaiseHolds(f, hooks', seen', quiet)
  <2>1. f.irq \in Irqs
    BY DEF Frames
  <2>2. CASE f.irq # i
    <3>1. \A k \in IR!Hooks : seen'[<<f.irq, k>>] = seen[<<f.irq, k>>]
      BY <1>7, <2>1, <2>2
    <3>2. QED  BY <1>6, <1>10, <2>1, <2>2, <3>1 DEF RaiseHolds
  <2>3. CASE f.irq = i
    <3>1. f.next # None => IR!Contains(list, f.next) /\ IR!Contains(less, f.next)
      BY <1>5, <1>10, <2>3 DEF RaiseHolds
    <3>2. ASSUME f.irq \in quiet, NEW k \in IR!Hooks, IR!Contains(less, k)
          PROVE  \/ seen'[<<i, k>>] \in {IR!Unseen, f.out}
                 \/ f.next # None /\ Place(less, k) >= Place(less, f.next)
      <4>1. IR!Contains(list, k) /\ k # h /\ seen'[<<i, k>>] = seen[<<i, k>>]
        BY <1>5, <1>7, <3>2
      <4>2. \/ seen[<<i, k>>] \in {IR!Unseen, f.out}
            \/ f.next # None /\ Place(list, k) >= Place(list, f.next)
        BY <1>10, <2>3, <3>2, <4>1 DEF RaiseHolds
      <4>3. QED  BY <1>5, <3>1, <3>2, <4>1, <4>2
    <3>3. QED  BY <1>6, <2>3, <3>1, <3>2 DEF RaiseHolds
  <2>4. QED  BY <2>2, <2>3
<1>11. RaisesHold(IR!Resume, busy, hooks', seen', quiet)
  <2>1. IR!Resume \in Seq(Frames) /\ RaisesHold(IR!Resume, busy, hooks, seen, quiet)
    BY ResumeHolds
  <2>2. \A k \in 1 .. Len(IR!Resume) : IR!Resume[k] \in Frames
    BY <2>1, ElementOfSeq
  <2>3. \A k \in 1 .. Len(IR!Resume) : IR!Resume[k].irq = i => IR!Resume[k].next # h
    BY <1>2, RemovableIsNotNext
  <2>4. QED  BY <1>10, <2>1, <2>2, <2>3 DEF RaisesHold
<1>12. InStep(IR!Resume, hooks', seen', quiet, value)
  <2>1. SUFFICES ASSUME NEW j \in quiet, Rests(j, IR!Resume), NEW k \in IR!Hooks,
                        IR!Contains(hooks'[j], k)
                 PROVE  seen'[<<j, k>>] \in {IR!Unseen, value[j]}
    BY Zenon DEF InStep
  <2>2. IR!Contains(hooks[j], k) /\ <<j, k>> # <<i, h>>
    BY <1>1, <1>5, <1>6, <2>1
  <2>3. seen'[<<j, k>>] = seen[<<j, k>>]
    BY <1>1, <1>7, <2>1, <2>2
  <2>4. QED  BY <2>1, <2>2, <2>3, ResumeHolds DEF InStep
<1>13. RaisesHold(stack', busy', hooks', seen', quiet') /\ InStep(stack', hooks', seen', quiet', value')
  BY <1>2, <1>11, <1>12
<1>14. QED  BY <1>8, <1>9, <1>13 DEF IrqInv

LEMMA IrqKeeps ==
    ASSUME IrqInv, IR!Next
    PROVE  IrqInv'
BY CallHookKeeps, FinishRaiseKeeps, ChainKeeps, ReturnsKeep, StoppedReturnKeeps,
   IrqRaiseKeeps, AddHookKeeps, RemoveHookKeeps, IrqOthersKeep DEF IR!Next, IR!Delivers

LEMMA IrqShows ==
    ASSUME IrqInv
    PROVE  IR!TypeOK /\ IR!HooksInStep
<1>1. IrqTypes /\ InStep(stack, hooks, seen, quiet, value)
  BY DEF IrqInv
<1>2. \A k \in DOMAIN stack : stack[k] \in Frames
  BY <1>1, LenProperties, ElementOfSeq DEF IrqTypes
<1>3. IR!TypeOK
  BY <1>1, <1>2 DEF IrqTypes, Frames, IR!TypeOK
<1>4. IR!HooksInStep
  <2>1. SUFFICES ASSUME NEW i \in quiet, ~IR!OnStack(i), NEW h \in IR!ToSet(hooks[i])
                 PROVE  seen[<<i, h>>] \in {IR!Unseen, value[i]}
    BY Zenon DEF IR!HooksInStep
  <2>2. i \in Irqs /\ hooks[i] \in Seq(IR!Hooks)
    BY <1>1 DEF IrqTypes
  <2>3. h \in IR!Hooks /\ IR!Contains(hooks[i], h)
    BY <2>2, LenProperties, ElementOfSeq DEF IR!ToSet, IR!Contains
  <2>4. Rests(i, stack)
    BY <1>1, <2>1, RestsOffStack DEF IrqTypes
  <2>5. QED  BY <1>1, <2>3, <2>4 DEF InStep
<1>5. QED  BY <1>3, <1>4

-----------------------------------------------------------------------------
(* The player of value changes *)

PlayerLine == [stamp : Nat, changes : Nat]
PlayerEntry == [when : Nat, n : Nat]
PlayerTold == [n : Nat, when : Nat, at : Nat]
PlayerRecord ==
    [file : Seq(PlayerLine), stamp : Nat, read : Nat, log : Seq(PlayerEntry), due : Int,
     cycle : 0 .. MaxCycle, raised : Seq(PlayerTold), reset : BOOLEAN]

\* What is known of a file after one more line.
FileStep(w, line) ==
    [stamp |-> IF line.stamp = NoStamp THEN w.stamp ELSE line.stamp,
     log |-> w.log \o VI!Entries(IF line.stamp = NoStamp THEN w.stamp ELSE line.stamp,
                                 Len(w.log), line.changes)]

LEMMA WholeIs ==
    ASSUME NEW file, Len(file) \in Nat
    PROVE  /\ VI!Whole(file)[0] = [stamp |-> NoStamp, log |-> <<>>]
           /\ \A k \in 1 .. Len(file) : VI!Whole(file)[k] = FileStep(VI!Whole(file)[k - 1], file[k])
<1> DEFINE N == Len(file)
           none == [stamp |-> NoStamp, log |-> <<>>]
           Rec(f, n) == [k \in 0 .. n |-> IF k = 0 THEN none ELSE FileStep(f[k - 1], file[k])]
           upto == CHOOSE f : f = Rec(f, N)
           Without == {n \in Nat : ~\E f : f = Rec(f, n)}
<1>1. N \in Nat
  OBVIOUS
<1>2. VI!Whole(file) = upto
  BY DEF VI!Whole, FileStep
<1> HIDE DEF N, none, upto
<1>3. ASSUME Without # {}
      PROVE  FALSE
  <2>1. PICK n \in Without : \A m \in Without : n <= m
    BY <1>3, LeastExists
  <2>2. n \in Nat /\ ~\E f : f = Rec(f, n)
    BY <2>1
  <2>3. n # 0
    <3> DEFINE z == [k \in 0 .. 0 |-> none]
    <3>1. \A k \in 0 .. 0 : k = 0
      OBVIOUS
    <3>2. z = Rec(z, 0)
      BY <3>1
    <3>3. QED  BY <2>2, <3>2
  <2>4. n - 1 \in Nat /\ n - 1 \notin Without
    <3>1. n - 1 \in Nat /\ ~(n <= n - 1)
      BY <2>2, <2>3
    <3>2. QED  BY <2>1, <3>1
  <2>5. PICK f : f = Rec(f, n - 1)
    BY <2>4
  <2> DEFINE h == [k \in 0 .. n |-> IF k = n THEN FileStep(f[n - 1], file[n]) ELSE f[k]]
  <2>6. \A k \in 0 .. n : h[k] = IF k = 0 THEN none ELSE FileStep(h[k - 1], file[k])
    <3>1. SUFFICES ASSUME NEW k \in 0 .. n
                   PROVE  h[k] = IF k = 0 THEN none ELSE FileStep(h[k - 1], file[k])
      OBVIOUS
    <3>2. 0 \in 0 .. n - 1 /\ 0 \in 0 .. n
      BY <2>2, <2>3
    <3>3. CASE k = 0
      BY <2>3, <2>5, <3>2, <3>3
    <3>4. CASE k = n
      <4>1. n - 1 \in 0 .. n /\ n - 1 # n
        BY <2>2, <2>3
      <4>2. h[n - 1] = f[n - 1]
        BY <4>1
      <4>3. QED  BY <2>3, <3>1, <3>4, <4>2
    <3>5. CASE k # 0 /\ k # n
      <4>1. k \in 0 .. n - 1 /\ k - 1 \in 0 .. n - 1 /\ k - 1 # n /\ k - 1 \in 0 .. n
        BY <2>2, <3>1, <3>5
      <4>2. f[k] = FileStep(f[k - 1], file[k])
        BY <2>5, <3>5, <4>1
      <4>3. h[k] = f[k] /\ h[k - 1] = f[k - 1]
        BY <3>1, <3>5, <4>1
      <4>4. QED  BY <3>5, <4>2, <4>3
    <3>6. QED  BY <3>3, <3>4, <3>5
  <2>7. h = [k \in 0 .. n |-> h[k]]
    OBVIOUS
  <2> HIDE DEF h
  <2>8. h = Rec(h, n)
    BY <2>6, <2>7
  <2>9. QED  BY <2>2, <2>8
<1>4. \E f : f = Rec(f, N)
  BY <1>1, <1>3
<1>5. upto = Rec(upto, N)
  BY <1>4 DEF upto
<1>6. upto[0] = none
  BY <1>1, <1>5
<1>7. \A k \in 1 .. N : upto[k] = FileStep(upto[k - 1], file[k])
  BY <1>1, <1>5
<1>8. QED  BY <1>2, <1>6, <1>7 DEF N, none

\* c lines of the file were read, all is what they hold.
PlayerAt(t, file, c, all) ==
    /\ t \in PlayerRecord /\ all \in Seq(PlayerEntry)
    /\ Len(t.file) = Len(file) - c /\ \A k \in 1 .. Len(file) - c : t.file[k] = file[c + k]
    /\ t.read = Len(all) /\ Len(t.raised) + Len(t.log) = Len(all) /\ Len(t.log) <= PlayRoom
    /\ \A i \in 1 .. Len(t.log) :
           t.log[i] = all[Len(t.raised) + i] /\ t.log[i].n = Len(t.raised) + i

PlayerRead(t, file, c) ==
    /\ PlayerAt(t, file, c, VI!Whole(file)[c].log) /\ t.stamp = VI!Whole(file)[c].stamp

\* The entries of a line, numbered from the one behind first.
Numbered(e, first, changes) ==
    /\ e \in Seq(PlayerEntry) /\ Len(e) = changes
    /\ \A i \in 1 .. changes : e[i].n = first + i

LEMMA EntriesAre ==
    ASSUME NEW stamp \in Nat, NEW first \in Nat, NEW changes \in Nat,
           NEW e, e = VI!Entries(stamp, first, changes)
    PROVE  Numbered(e, first, changes)
<1>1. e = [i \in 1 .. changes |-> [when |-> stamp, n |-> first + i]]
  BY DEF VI!Entries
<1>2. \A i \in 1 .. changes : [when |-> stamp, n |-> first + i] \in PlayerEntry
  BY DEF PlayerEntry
<1>3. e \in [1 .. changes -> PlayerEntry]
  BY <1>1, <1>2
<1>4. \A S : \A n \in Nat : [1 .. n -> S] \subseteq Seq(S)
  OBVIOUS
<1>5. e \in Seq(PlayerEntry)
  BY <1>3, <1>4
<1>6. Len(e) = changes
  BY <1>3, <1>5, LenProperties
<1>7. \A i \in 1 .. changes : e[i].n = first + i
  BY <1>1
<1>8. QED  BY <1>5, <1>6, <1>7 DEF Numbered

\* x is the m elements of s and then the n of e.
Joins(x, s, e, m, n) ==
    Len(x) = m + n /\ (\A i \in 1 .. m : x[i] = s[i]) /\ (\A i \in 1 .. n : x[m + i] = e[i])

LEMMA ConcatIs ==
    ASSUME NEW S, NEW s \in Seq(S), NEW e \in Seq(S), NEW m \in Nat, NEW n \in Nat,
           Len(s) = m, Len(e) = n
    PROVE  s \o e \in Seq(S) /\ Joins(s \o e, s, e, m, n)
<1>1. /\ s \o e \in Seq(S) /\ Len(s \o e) = Len(s) + Len(e)
      /\ \A i \in 1 .. Len(s) + Len(e) : (s \o e)[i] = IF i <= Len(s) THEN s[i] ELSE e[i - Len(s)]
  BY ConcatProperties
<1>2. \A i \in 1 .. m : i \in 1 .. m + n /\ i <= m
  OBVIOUS
<1>3. \A i \in 1 .. n : m + i \in 1 .. m + n /\ ~(m + i <= m) /\ (m + i) - m = i
  OBVIOUS
<1>4. QED  BY <1>1, <1>2, <1>3 DEF Joins

\* What reading leaves alone.
SamePlay(u, t) ==
    /\ u.due = t.due /\ u.cycle = t.cycle /\ u.raised = t.raised /\ (u.reset <=> t.reset)
    /\ Len(t.log) <= Len(u.log) /\ \A i \in 1 .. Len(t.log) : u.log[i] = t.log[i]

\* avr_vcd_input_parse_line
LEMMA ParsedHolds ==
    ASSUME VI!WellFormed, NEW file \in Seq(PlayerLine), NEW c \in 1 .. Len(file), NEW t,
           PlayerRead(t, file, c - 1), Len(t.log) + file[c].changes <= PlayRoom,
           NEW u, u = [VI!Parsed(t, file[c]) EXCEPT !.file = Tail(@)]
    PROVE  PlayerRead(u, file, c) /\ SamePlay(u, t)
<1> DEFINE line == file[c]
           stamp == IF line.stamp = NoStamp THEN t.stamp ELSE line.stamp
           new == VI!Entries(stamp, t.read, line.changes)
           log == t.log \o new
           w == VI!Whole(file)[c - 1]
           all == w.log
           more == all \o new
<1>1. PICK L \in Nat : L = Len(file)
  OBVIOUS
<1>2. c \in Nat /\ c >= 1 /\ c <= L /\ c - 1 \in Nat
  BY <1>1
<1>3. line \in PlayerLine /\ line.stamp \in Nat /\ line.changes \in Nat
  <2>1. line \in PlayerLine
    BY ElementOfSeq
  <2>2. QED  BY <2>1 DEF PlayerLine
<1>4. PlayerAt(t, file, c - 1, all) /\ t.stamp = w.stamp
  BY Zenon DEF PlayerRead
<1>5. /\ t \in PlayerRecord /\ all \in Seq(PlayerEntry)
      /\ Len(t.file) = L - (c - 1) /\ \A k \in 1 .. L - (c - 1) : t.file[k] = file[c - 1 + k]
      /\ t.read = Len(all) /\ Len(t.raised) + Len(t.log) = Len(all) /\ Len(t.log) <= PlayRoom
      /\ \A i \in 1 .. Len(t.log) :
             t.log[i] = all[Len(t.raised) + i] /\ t.log[i].n = Len(t.raised) + i
  BY <1>1, <1>4, Zenon DEF PlayerAt
<1>6. /\ t.file \in Seq(PlayerLine) /\ t.stamp \in Nat /\ t.read \in Nat
      /\ t.log \in Seq(PlayerEntry) /\ t.raised \in Seq(PlayerTold)
      /\ Len(t.log) \in Nat /\ Len(t.raised) \in Nat
  <2>1. /\ t.file \in Seq(PlayerLine) /\ t.stamp \in Nat /\ t.read \in Nat
        /\ t.log \in Seq(PlayerEntry) /\ t.raised \in Seq(PlayerTold)
    BY <1>5 DEF PlayerRecord
  <2>2. QED  BY <2>1, LenProperties, Zenon
<1>7. stamp \in Nat
  BY <1>3, <1>6
<1>8. /\ new \in Seq(PlayerEntry) /\ Len(new) = line.changes
      /\ \A i \in 1 .. line.changes : new[i].n = t.read + i
  <2>1. PICK s, f, n \in Nat : s = stamp /\ f = t.read /\ n = line.changes
    BY <1>3, <1>6, <1>7, Zenon
  <2>2. new = VI!Entries(s, f, n)
    BY <2>1
  <2> HIDE DEF new, stamp, line
  <2>3. new \in Seq(PlayerEntry) /\ Len(new) = n /\ \A i \in 1 .. n : new[i].n = f + i
    <3>1. Numbered(new, f, n)
      BY <2>2, EntriesAre, Zenon
    <3>2. QED  BY <3>1, Zenon DEF Numbered
  <2>4. QED  BY <2>1, <2>3
<1>9. VI!Whole(file)[c] = [stamp |-> stamp, log |-> more]
  <2>1. Len(file) \in Nat
    OBVIOUS
  <2>2. VI!Whole(file)[c] = FileStep(VI!Whole(file)[c - 1], file[c])
    BY <2>1, WholeIs
  <2>3. t.read = Len(w.log) /\ t.stamp = w.stamp
    BY <1>4, <1>5
  <2>4. QED  BY <2>2, <2>3 DEF FileStep
<1> HIDE DEF new, stamp, line, w
<1>a. PICK m, r, n \in Nat : m = Len(t.log) /\ r = Len(t.raised) /\ n = line.changes
  BY <1>3, <1>6
<1>b. PICK d \in Nat : d = r + m
  OBVIOUS
<1>c. Len(all) = d /\ t.read = d /\ Len(new) = n
  BY <1>5, <1>8, <1>a, <1>b, Zenon
<1>d. new \in Seq(PlayerEntry) /\ Len(new) = n
  BY <1>8, <1>c, Zenon
<1>e. log = t.log \o new /\ more = all \o new
  OBVIOUS
<1> HIDE DEF all, log, more
<1>10. /\ log \in Seq(PlayerEntry) /\ Len(log) = m + n
       /\ \A i \in 1 .. m : log[i] = t.log[i]
       /\ \A i \in 1 .. n : log[m + i] = new[i]
  <2>1. t.log \in Seq(PlayerEntry) /\ Len(t.log) = m
    BY <1>6, <1>a, Zenon
  <2>2. t.log \o new \in Seq(PlayerEntry)
    BY <1>d, <2>1, ConcatIs, Zenon
  <2>3. Joins(t.log \o new, t.log, new, m, n)
    BY <1>d, <2>1, ConcatIs, Zenon
  <2>4. QED  BY <1>e, <2>2, <2>3, Zenon DEF Joins
<1>11. /\ more \in Seq(PlayerEntry) /\ Len(more) = d + n
       /\ \A i \in 1 .. d : more[i] = all[i]
       /\ \A i \in 1 .. n : more[d + i] = new[i]
  <2>1. all \in Seq(PlayerEntry) /\ Len(all) = d
    BY <1>5, <1>c, Zenon
  <2>2. all \o new \in Seq(PlayerEntry)
    BY <1>d, <2>1, ConcatIs, Zenon
  <2>3. Joins(all \o new, all, new, d, n)
    BY <1>d, <2>1, ConcatIs, Zenon
  <2>4. QED  BY <1>e, <2>2, <2>3, Zenon DEF Joins
<1>12. ~(Len(log) > PlayRoom) /\ Len(log) <= PlayRoom
  <2>1. m + n <= PlayRoom /\ PlayRoom \in Nat
    BY <1>a DEF VI!WellFormed, line
  <2>2. QED  BY <1>10, <2>1
<1>13. u = [t EXCEPT !.stamp = stamp, !.read = t.read + line.changes, !.log = log,
                     !.file = Tail(t.file)]
  <2>1. VI!Parsed(t, line) = [t EXCEPT !.stamp = stamp, !.read = t.read + line.changes,
              !.log = SubSeq(log, 1, IF Len(log) > PlayRoom THEN PlayRoom ELSE Len(log))]
    BY Zenon DEF VI!Parsed, stamp, new, log
  <2>2. SubSeq(log, 1, Len(log)) = log
    BY <1>10, SubSeqFull
  <2>3. VI!Parsed(t, line) = [t EXCEPT !.stamp = stamp, !.read = t.read + line.changes, !.log = log]
    BY <1>12, <2>1, <2>2
  <2>4. u = [VI!Parsed(t, line) EXCEPT !.file = Tail(@)]
    BY DEF line
  <2>5. QED  BY <1>5, <2>3, <2>4 DEF PlayerRecord
<1>14. /\ Tail(t.file) \in Seq(PlayerLine) /\ Len(Tail(t.file)) = L - c
       /\ \A k \in 1 .. L - c : Tail(t.file)[k] = file[c + k]
  <2> DEFINE f == t.file
  <2>1. f \in Seq(PlayerLine) /\ Len(f) = L - (c - 1) /\ \A k \in 1 .. L - (c - 1) : f[k] = file[c - 1 + k]
    BY <1>5, <1>6
  <2> HIDE DEF f
  <2>2. f # <<>>
    <3>1. L - (c - 1) # 0 /\ Len(<<>>) = 0
      BY <1>1, <1>2
    <3>2. QED  BY <2>1, <3>1
  <2>3. /\ Tail(f) \in Seq(PlayerLine) /\ Len(Tail(f)) = Len(f) - 1
        /\ \A i \in 1 .. Len(Tail(f)) : Tail(f)[i] = f[i + 1]
    BY <2>1, <2>2, HeadTailProperties
  <2>4. Len(Tail(f)) = L - c
    BY <1>1, <1>2, <2>1, <2>3
  <2>5. \A k \in 1 .. L - c : k + 1 \in 1 .. L - (c - 1) /\ c - 1 + (k + 1) = c + k
    BY <1>1, <1>2
  <2>6. QED  BY <2>1, <2>3, <2>4, <2>5, Zenon DEF f
<1>15. u \in PlayerRecord
  <2>0. t.read + line.changes = d + n
    BY <1>a, <1>c, Zenon
  <2>1. t.read + line.changes \in Nat
    BY <2>0
  <2>2. QED  BY <1>5, <1>7, <1>10, <1>13, <1>14, <2>1 DEF PlayerRecord
<1>16. /\ u.stamp = stamp /\ u.read = t.read + line.changes /\ u.log = log
       /\ u.file = Tail(t.file) /\ u.raised = t.raised /\ u.due = t.due /\ u.cycle = t.cycle
       /\ (u.reset <=> t.reset)
  BY <1>5, <1>13 DEF PlayerRecord
<1>17. u.read = Len(more) /\ Len(u.raised) + Len(u.log) = Len(more) /\ Len(t.log) <= Len(u.log)
  <2>1. Len(u.raised) = r /\ Len(u.log) = m + n /\ Len(more) = d + n /\ u.read = d + n
    BY <1>a, <1>c, <1>10, <1>11, <1>16, Zenon
  <2>2. r + (m + n) = d + n /\ m <= m + n
    BY <1>b
  <2>3. QED  BY <1>a, <2>1, <2>2, Zenon
<1>18. \A i \in 1 .. Len(u.log) :
          u.log[i] = more[Len(u.raised) + i] /\ u.log[i].n = Len(u.raised) + i
  <2>0. u.log = log /\ Len(log) = m + n /\ Len(u.raised) = r
    BY <1>a, <1>10, <1>16
  <2>1. SUFFICES ASSUME NEW i \in 1 .. m + n
                 PROVE  log[i] = more[r + i] /\ log[i].n = r + i
    BY <2>0, Zenon
  <2>2. CASE i <= m
    <3>1. i \in 1 .. m /\ r + i \in 1 .. d
      BY <1>b, <2>2
    <3>2. log[i] = t.log[i] /\ more[r + i] = all[r + i]
      BY <1>10, <1>11, <3>1
    <3>3. t.log[i] = all[r + i] /\ t.log[i].n = r + i
      BY <1>5, <1>a, <3>1, Zenon
    <3>4. QED  BY <3>2, <3>3
  <2>3. CASE ~(i <= m)
    <3>1. PICK j \in 1 .. n : i = m + j /\ r + i = d + j
      <4>1. ~(i <= m) /\ i \in 1 .. m + n /\ d = r + m
        BY <1>b, <2>1, <2>3, Zenon
      <4>2. PICK j \in 1 .. n : i = m + j /\ r + i = r + m + j
        BY <4>1, PlaceBehind
      <4>3. QED  BY <4>1, <4>2, Zenon
    <3>2. log[m + j] = new[j] /\ more[d + j] = new[j]
      BY <1>10, <1>11
    <3>3. new[j].n = d + j
      BY <1>8, <1>a, <1>c, Zenon
    <3>4. QED  BY <3>1, <3>2, <3>3
  <2>4. QED  BY <2>2, <2>3
<1>19. PlayerAt(u, file, c, more)
  <2>1. Len(u.file) = Len(file) - c /\ \A k \in 1 .. Len(file) - c : u.file[k] = file[c + k]
    BY <1>1, <1>14, <1>16
  <2>2. Len(u.log) <= PlayRoom
    BY <1>12, <1>16
  <2>3. QED  BY <1>11, <1>15, <1>17, <1>18, <2>1, <2>2, Zenon DEF PlayerAt
<1>20. PlayerRead(u, file, c)
  <2>1. VI!Whole(file)[c].log = more /\ VI!Whole(file)[c].stamp = stamp
    BY <1>9
  <2>2. QED  BY <1>16, <1>19, <2>1, Zenon DEF PlayerRead
<1>21. SamePlay(u, t)
  <2>1. \A i \in 1 .. Len(t.log) : u.log[i] = t.log[i]
    BY <1>a, <1>10, <1>16
  <2>2. QED  BY <1>16, <1>17, <2>1, Zenon DEF SamePlay
<1>22. QED  BY <1>20, <1>21

\* avr_vcd_input_read, one line.
LineStep(x, line) == [VI!Parsed(x, line) EXCEPT !.file = Tail(@)]

\* f[k] is the player after k lines more.
IsReading(f, t) ==
    f[0] = t /\ \A k \in 1 .. Len(t.file) : f[k] = LineStep(f[k - 1], t.file[k])

FullIn(f, n) == {k \in 1 .. n : Len(f[k].log) >= Enough}
LastLine(f, n) ==
    IF FullIn(f, n) = {} THEN n ELSE CHOOSE k \in FullIn(f, n) : \A j \in FullIn(f, n) : k <= j

LEMMA ReadsIs ==
    ASSUME NEW t, Len(t.file) \in Nat
    PROVE  \E f : IsReading(f, t) /\ VI!Reads(t) = f[LastLine(f, Len(t.file))]
<1> DEFINE N == Len(t.file)
           Rec(f, n) == [k \in 0 .. n |-> IF k = 0 THEN t ELSE LineStep(f[k - 1], t.file[k])]
           after == CHOOSE f : f = Rec(f, N)
           Without == {n \in Nat : ~\E f : f = Rec(f, n)}
<1>1. N \in Nat
  OBVIOUS
<1>2. VI!Reads(t) = after[LastLine(after, N)]
  BY DEF VI!Reads, LineStep, LastLine, FullIn
<1> HIDE DEF N, after
<1>3. ASSUME Without # {}
      PROVE  FALSE
  <2>1. PICK n \in Without : \A m \in Without : n <= m
    BY <1>3, LeastExists
  <2>2. n \in Nat /\ ~\E f : f = Rec(f, n)
    BY <2>1
  <2>3. n # 0
    <3> DEFINE z == [k \in 0 .. 0 |-> t]
    <3>1. \A k \in 0 .. 0 : k = 0
      OBVIOUS
    <3>2. z = Rec(z, 0)
      BY <3>1
    <3>3. QED  BY <2>2, <3>2
  <2>4. n - 1 \in Nat /\ n - 1 \notin Without
    <3>1. n - 1 \in Nat /\ ~(n <= n - 1)
      BY <2>2, <2>3
    <3>2. QED  BY <2>1, <3>1
  <2>5. PICK f : f = Rec(f, n - 1)
    BY <2>4
  <2> DEFINE h == [k \in 0 .. n |-> IF k = n THEN LineStep(f[n - 1], t.file[n]) ELSE f[k]]
  <2>6. \A k \in 0 .. n : h[k] = IF k = 0 THEN t ELSE LineStep(h[k - 1], t.file[k])
    <3>1. SUFFICES ASSUME NEW k \in 0 .. n
                   PROVE  h[k] = IF k = 0 THEN t ELSE LineStep(h[k - 1], t.file[k])
      OBVIOUS
    <3>2. 0 \in 0 .. n - 1 /\ 0 \in 0 .. n
      BY <2>2, <2>3
    <3>3. CASE k = 0
      BY <2>3, <2>5, <3>2, <3>3
    <3>4. CASE k = n
      <4>1. n - 1 \in 0 .. n /\ n - 1 # n
        BY <2>2, <2>3
      <4>2. h[n - 1] = f[n - 1]
        BY <4>1
      <4>3. QED  BY <2>3, <3>1, <3>4, <4>2
    <3>5. CASE k # 0 /\ k # n
      <4>1. k \in 0 .. n - 1 /\ k - 1 \in 0 .. n - 1 /\ k - 1 # n /\ k - 1 \in 0 .. n
        BY <2>2, <3>1, <3>5
      <4>2. f[k] = LineStep(f[k - 1], t.file[k])
        BY <2>5, <3>5, <4>1
      <4>3. h[k] = f[k] /\ h[k - 1] = f[k - 1]
        BY <3>1, <3>5, <4>1
      <4>4. QED  BY <3>5, <4>2, <4>3
    <3>6. QED  BY <3>3, <3>4, <3>5
  <2>7. h = [k \in 0 .. n |-> h[k]]
    OBVIOUS
  <2> HIDE DEF h
  <2>8. h = Rec(h, n)
    BY <2>6, <2>7
  <2>9. QED  BY <2>2, <2>8
<1>4. \E f : f = Rec(f, N)
  BY <1>1, <1>3
<1>5. after = Rec(after, N)
  BY <1>4 DEF after
<1>6. after[0] = t
  BY <1>1, <1>5
<1>7. \A k \in 1 .. N : after[k] = LineStep(after[k - 1], t.file[k])
  BY <1>1, <1>5
<1>8. IsReading(after, t)
  BY <1>6, <1>7 DEF IsReading, N
<1>9. QED  BY <1>2, <1>8 DEF N

LEMMA LastLineIs ==
    ASSUME NEW f, NEW n \in Nat, NEW k, k = LastLine(f, n)
    PROVE  /\ k \in 0 .. n
           /\ \A j \in 1 .. n : j < k => ~(Len(f[j].log) >= Enough)
           /\ k = n \/ Len(f[k].log) >= Enough
<1> DEFINE full == FullIn(f, n)
<1>1. full \in SUBSET Nat /\ \A j \in full : j \in 1 .. n /\ Len(f[j].log) >= Enough
  BY DEF FullIn
<1>2. CASE full = {}
  <2>1. k = n
    BY <1>2 DEF LastLine
  <2>2. \A j \in 1 .. n : ~(Len(f[j].log) >= Enough)
    BY <1>2 DEF FullIn
  <2>3. QED  BY <2>1, <2>2
<1>3. CASE full # {}
  <2>1. \E j \in full : \A i \in full : j <= i
    BY <1>1, <1>3, LeastExists
  <2>2. k \in full /\ \A i \in full : k <= i
    BY <1>3, <2>1 DEF LastLine
  <2>3. \A j \in 1 .. n : j < k => ~(k <= j)
    BY <1>1, <2>2
  <2>4. \A j \in 1 .. n : j < k => ~(Len(f[j].log) >= Enough)
    BY <2>2, <2>3 DEF FullIn
  <2>5. k \in 0 .. n /\ Len(f[k].log) >= Enough
    BY <1>1, <2>2
  <2>6. QED  BY <2>4, <2>5
<1>4. QED  BY <1>2, <1>3

LEMMA FileFits ==
    ASSUME VI!WellFormed, NEW file \in Files
    PROVE  /\ file \in Seq(PlayerLine) /\ Len(file) \in Nat /\ Len(file) >= 1 /\ 1 \in 1 .. Len(file)
           /\ Head(file) = file[1] /\ file[1].changes <= PlayRoom
           /\ \A k \in 2 .. Len(file) : file[k].changes + Low <= PlayRoom + 1
           /\ \A k \in 2 .. Len(file) : file[k].changes + Enough <= PlayRoom + 1
<1>1. VI!Fits(file)
  BY DEF VI!WellFormed
<1>2. file \in Seq(PlayerLine) /\ file # <<>> /\ Head(file).changes <= PlayRoom
  BY <1>1, Zenon DEF VI!Fits, PlayerLine
<1>3. Len(file) \in Nat \ {0}
  BY <1>2, EmptySeq
<1>4. Head(file) = file[1]
  BY <1>2
<1>5. \A k \in 2 .. Len(file) : \A n \in {Low, Enough} : file[k].changes + n <= PlayRoom + 1
  BY <1>1, Zenon DEF VI!Fits
<1>6. Len(file) >= 1 /\ 1 \in 1 .. Len(file)
  BY <1>3
<1>7. Low \in {Low, Enough} /\ Enough \in {Low, Enough}
  OBVIOUS
<1>8. QED  BY <1>2, <1>3, <1>4, <1>5, <1>6, <1>7, Zenon

\* avr_vcd_input_read
LEMMA ReadsHolds ==
    ASSUME VI!WellFormed, NEW file \in Files, NEW c \in 1 .. Len(file), NEW t,
           PlayerRead(t, file, c), Len(t.log) < Low, NEW u, u = VI!Reads(t)
    PROVE  \E e \in c .. Len(file) :
              /\ PlayerRead(u, file, e) /\ SamePlay(u, t)
              /\ Len(u.log) >= Enough \/ e = Len(file)
<1>1. /\ file \in Seq(PlayerLine) /\ Len(file) \in Nat
      /\ \A k \in 2 .. Len(file) : file[k].changes + Low <= PlayRoom + 1
      /\ \A k \in 2 .. Len(file) : file[k].changes + Enough <= PlayRoom + 1
  BY FileFits
<1>2. PICK N \in Nat : N = Len(file) - c
  BY <1>1
<1>3. Len(t.file) = N /\ \A k \in 1 .. N : t.file[k] = file[c + k]
  BY <1>2, Zenon DEF PlayerRead, PlayerAt
<1>4. PICK f : IsReading(f, t) /\ u = f[LastLine(f, N)]
  BY <1>3, ReadsIs
<1>5. PICK K : K = LastLine(f, N)
  OBVIOUS
<1>6. /\ K \in 0 .. N /\ \A j \in 1 .. N : j < K => ~(Len(f[j].log) >= Enough)
      /\ K = N \/ Len(f[K].log) >= Enough
  BY <1>5, LastLineIs
<1> DEFINE Reached(k) == PlayerRead(f[k], file, c + k) /\ SamePlay(f[k], t)
           Failed == {k \in 0 .. K : ~Reached(k)}
<1>7. ASSUME Failed # {}
      PROVE  FALSE
  <2>1. PICK k \in Failed : \A m \in Failed : k <= m
    <3>1. Failed \in SUBSET Nat
      BY <1>6
    <3>2. QED  BY <1>7, <3>1, LeastExists
  <2>2. k \in Nat /\ k <= K /\ ~Reached(k)
    BY <2>1
  <2>3. k # 0
    <3>1. f[0] = t /\ c + 0 = c
      BY <1>4 DEF IsReading
    <3>2. Len(t.log) \in Nat
      <4>1. t.log \in Seq(PlayerEntry)
        BY DEF PlayerRead, PlayerAt, PlayerRecord
      <4>2. QED  BY <4>1, LenProperties, Zenon
    <3>3. Len(t.log) <= Len(t.log)
      BY <3>2
    <3>4. SamePlay(f[0], t)
      BY <3>1, <3>3, Zenon DEF SamePlay
    <3>5. PlayerRead(f[0], file, c + 0)
      BY <3>1
    <3>6. QED  BY <2>2, <3>4, <3>5
  <2>4. PICK j \in Nat : k = j + 1 /\ j < K /\ c + k \in 2 .. Len(file) /\ (c + k) - 1 = c + j
                         /\ j \in 0 .. K /\ k \in 1 .. N /\ k - 1 = j
    <3>1. k - 1 \in Nat
      BY <2>2, <2>3
    <3>2. QED  BY <1>1, <1>2, <1>6, <2>2, <2>3, <3>1
  <2>5. Reached(j)
    <3>1. ~(k <= j)
      BY <2>4
    <3>2. QED  BY <2>1, <2>4, <3>1
  <2>6. PlayerRead(f[j], file, (c + k) - 1) /\ SamePlay(f[j], t)
    BY <2>4, <2>5
  <2>7. Len(f[j].log) \in Nat
    <3>1. f[j].log \in Seq(PlayerEntry)
      BY <2>6 DEF PlayerRead, PlayerAt, PlayerRecord
    <3>2. QED  BY <3>1, LenProperties, Zenon
  <2>8. file[c + k].changes \in Nat /\ c + k \in 1 .. Len(file)
    <3>1. c + k \in 1 .. Len(file)
      BY <1>1, <2>4
    <3>2. file[c + k] \in PlayerLine
      BY <1>1, <3>1, ElementOfSeq
    <3>3. QED  BY <3>1, <3>2 DEF PlayerLine
  <2>9. Len(f[j].log) + file[c + k].changes <= PlayRoom
    <3>1. Len(f[j].log) < Low \/ Len(f[j].log) < Enough
      <4>1. CASE j = 0
        BY <1>4, <4>1 DEF IsReading
      <4>2. CASE j # 0
        <5>1. j \in 1 .. N
          BY <1>6, <2>4, <4>2
        <5>2. ~(Len(f[j].log) >= Enough)
          BY <1>6, <2>4, <5>1
        <5>3. QED  BY <2>7, <5>2 DEF VI!WellFormed
      <4>3. QED  BY <4>1, <4>2
    <3>2. file[c + k].changes + Low <= PlayRoom + 1 /\ file[c + k].changes + Enough <= PlayRoom + 1
      BY <1>1, <2>4
    <3>3. Low \in Nat /\ Enough \in Nat /\ PlayRoom \in Nat
      BY DEF VI!WellFormed
    <3>4. \A a, b, n, r \in Nat : a < n /\ b + n <= r + 1 => a + b <= r
      OBVIOUS
    <3>5. QED  BY <2>7, <2>8, <3>1, <3>2, <3>3, <3>4, Zenon
  <2>10. f[k] = [VI!Parsed(f[j], file[c + k]) EXCEPT !.file = Tail(@)]
    <3>1. f[k] = LineStep(f[k - 1], t.file[k])
      BY <1>3, <1>4, <2>4 DEF IsReading
    <3>2. QED  BY <1>3, <2>4, <3>1 DEF LineStep
  <2>11. PlayerRead(f[k], file, c + k)
    BY <1>1, <2>6, <2>8, <2>9, <2>10, ParsedHolds, Zenon
  <2>12. SamePlay(f[k], f[j])
    BY <1>1, <2>6, <2>8, <2>9, <2>10, ParsedHolds, Zenon
  <2>15. SamePlay(f[k], t)
    <3>1. Len(f[k].log) \in Nat /\ Len(t.log) \in Nat
      <4>1. f[k].log \in Seq(PlayerEntry) /\ t.log \in Seq(PlayerEntry)
        BY <2>11 DEF PlayerRead, PlayerAt, PlayerRecord
      <4>2. QED  BY <4>1, LenProperties, Zenon
    <3>2. Len(t.log) <= Len(f[k].log)
      <4>1. Len(t.log) <= Len(f[j].log)
        BY <2>6 DEF SamePlay
      <4>2. \A x, y, z \in Nat : x <= y /\ y <= z => x <= z
        OBVIOUS
      <4>3. Len(f[j].log) <= Len(f[k].log)
        BY <2>12 DEF SamePlay
      <4>4. QED  BY <2>7, <3>1, <4>1, <4>2, <4>3, Zenon
    <3>3. \A i \in 1 .. Len(t.log) : f[k].log[i] = t.log[i]
      <4>1. \A i \in 1 .. Len(t.log) : f[j].log[i] = t.log[i] /\ Len(t.log) <= Len(f[j].log)
        BY <2>6, Zenon DEF SamePlay
      <4>2. \A i \in 1 .. Len(f[j].log) : f[k].log[i] = f[j].log[i]
        BY <2>12, Zenon DEF SamePlay
      <4>3. \A x, y \in Nat : x <= y => \A i \in 1 .. x : i \in 1 .. y
        OBVIOUS
      <4>4. QED  BY <2>7, <3>1, <4>1, <4>2, <4>3, Zenon
    <3>4. QED  BY <2>6, <2>12, <3>2, <3>3, Zenon DEF SamePlay
  <2>16. QED  BY <2>2, <2>11, <2>15
<1>8. Reached(K)
  <2>1. K \in 0 .. K
    BY <1>6
  <2>2. QED  BY <1>7, <2>1
<1>9. c + K \in c .. Len(file) /\ (K = N => c + K = Len(file))
  BY <1>1, <1>2, <1>6
<1>10. u = f[K]
  BY <1>4, <1>5
<1>11. QED  BY <1>6, <1>8, <1>9, <1>10, Zenon

PlayerOrder(t) ==
    \A i \in 1 .. Len(t.raised) : t.raised[i].n = i /\ t.raised[i].at >= t.raised[i].when

\* The timer is at the first entry of the log.
PlayerTimed(t, file, c) ==
    /\ t.due # VI!Never /\ t.log # <<>> => t.due = t.log[1].when
    /\ t.due # VI!Never /\ t.log = <<>> => t.raised = <<>> /\ t.due = Head(file).stamp
    /\ t.due = VI!Never /\ ~t.reset => t.log = <<>> /\ c = Len(file)

PlayerHolds(t, file, c) == PlayerRead(t, file, c) /\ PlayerOrder(t) /\ PlayerTimed(t, file, c)

PlayerInv(t) == \E file \in Files : \E c \in 1 .. Len(file) : PlayerHolds(t, file, c)

LEMMA PlayerTypes ==
    ASSUME NEW t \in PlayerRecord
    PROVE  /\ t.file \in Seq(PlayerLine) /\ t.stamp \in Nat /\ t.read \in Nat
           /\ t.log \in Seq(PlayerEntry) /\ t.due \in Int /\ t.cycle \in 0 .. MaxCycle
           /\ t.raised \in Seq(PlayerTold) /\ t.reset \in BOOLEAN
           /\ Len(t.log) \in Nat /\ Len(t.raised) \in Nat /\ Len(t.file) \in Nat
<1>1. /\ t.file \in Seq(PlayerLine) /\ t.stamp \in Nat /\ t.read \in Nat
      /\ t.log \in Seq(PlayerEntry) /\ t.due \in Int /\ t.cycle \in 0 .. MaxCycle
      /\ t.raised \in Seq(PlayerTold) /\ t.reset \in BOOLEAN
  BY DEF PlayerRecord
<1>2. QED  BY <1>1, LenProperties, Zenon

LEMMA SameRead ==
    ASSUME NEW file, NEW c, NEW t, PlayerRead(t, file, c), NEW u \in PlayerRecord,
           u.file = t.file, u.stamp = t.stamp, u.read = t.read, u.log = t.log, u.raised = t.raised
    PROVE  PlayerRead(u, file, c)
BY Zenon DEF PlayerRead, PlayerAt

\* avr_vcd_init_input
LEMMA OpenedHolds ==
    ASSUME VI!WellFormed, NEW file \in Files
    PROVE  PlayerInv(VI!Opened(file))
<1> DEFINE t0 == [file |-> file, stamp |-> NoStamp, read |-> 0, log |-> <<>>,
                  due |-> Head(file).stamp, cycle |-> 0, raised |-> <<>>, reset |-> FALSE]
           line == file[1]
           u == [VI!Parsed(t0, line) EXCEPT !.file = Tail(@)]
<1>1. /\ file \in Seq(PlayerLine) /\ Len(file) \in Nat /\ Len(file) >= 1 /\ 1 \in 1 .. Len(file)
      /\ Head(file) = file[1] /\ file[1].changes <= PlayRoom
  BY FileFits
<1>2. line \in PlayerLine /\ line.stamp \in Nat /\ line.changes \in Nat
  <2>1. line \in PlayerLine
    BY <1>1, ElementOfSeq
  <2>2. QED  BY <2>1 DEF PlayerLine
<1>3. NoStamp \in Nat /\ MaxCycle \in Nat /\ PlayRoom \in Nat
  BY DEF VI!WellFormed
<1>4. t0 \in PlayerRecord
  <2>1. Head(file).stamp \in Int
    BY <1>1, <1>2
  <2>2. <<>> \in Seq(PlayerEntry) /\ <<>> \in Seq(PlayerTold)
    OBVIOUS
  <2>3. 0 \in 0 .. MaxCycle /\ FALSE \in BOOLEAN /\ 0 \in Nat
    BY <1>3
  <2>4. QED  BY <1>1, <1>3, <2>1, <2>2, <2>3 DEF PlayerRecord
<1>5. VI!Opened(file) = u
  BY <1>1, Zenon DEF VI!Opened
<1>6. /\ t0.file = file /\ t0.stamp = NoStamp /\ t0.read = 0 /\ t0.log = <<>> /\ t0.raised = <<>>
      /\ t0.due = Head(file).stamp /\ t0.cycle = 0 /\ ~t0.reset
  OBVIOUS
<1> HIDE DEF t0, line, u
<1>7. 1 - 1 = 0 /\ Len(file) - 0 = Len(file) /\ \A k \in 1 .. Len(file) : 0 + k = k
  BY <1>1
<1>8. PlayerRead(t0, file, 1 - 1)
  <2>1. VI!Whole(file)[0].stamp = NoStamp /\ VI!Whole(file)[0].log = <<>>
    BY <1>1, WholeIs
  <2>2. PlayerAt(t0, file, 0, <<>>)
    <3>1. <<>> \in Seq(PlayerEntry) /\ Len(<<>>) = 0 /\ 0 + 0 = 0 /\ 1 .. 0 = {} /\ 0 <= PlayRoom
      BY <1>3
    <3>2. QED  BY <1>4, <1>6, <1>7, <3>1, Zenon DEF PlayerAt
  <2>3. QED  BY <1>6, <1>7, <2>1, <2>2, Zenon DEF PlayerRead
<1>9. Len(t0.log) + file[1].changes <= PlayRoom
  <2>1. 0 + file[1].changes = file[1].changes
    BY <1>2 DEF line
  <2>2. Len(<<>>) = 0
    OBVIOUS
  <2>3. QED  BY <1>1, <1>6, <2>1, <2>2, Zenon
<1>10. u = [VI!Parsed(t0, file[1]) EXCEPT !.file = Tail(@)]
  BY DEF u, line
<1>11. PlayerRead(u, file, 1)
  BY <1>1, <1>8, <1>9, <1>10, ParsedHolds, Zenon
<1>12. SamePlay(u, t0)
  BY <1>1, <1>8, <1>9, <1>10, ParsedHolds, Zenon
<1>13. u.due = Head(file).stamp /\ u.raised = <<>> /\ u.due # VI!Never
  <2>1. Head(file).stamp # VI!Never
    BY <1>1, <1>2 DEF VI!Never, line
  <2>2. QED  BY <1>6, <1>12, <2>1, Zenon DEF SamePlay
<1>14. u.log # <<>> => u.due = u.log[1].when
  <2>1. SUFFICES ASSUME u.log # <<>>
                 PROVE  u.due = u.log[1].when
    OBVIOUS
  <2>2. PICK w : w = VI!Whole(file)[1].log
    OBVIOUS
  <2>3. PlayerAt(u, file, 1, w)
    BY <1>11, <2>2, Zenon DEF PlayerRead
  <2>4. u.log \in Seq(PlayerEntry)
    BY <2>3 DEF PlayerAt, PlayerRecord
  <2>5. 1 \in 1 .. Len(u.log)
    <3>1. Len(u.log) \in Nat \ {0}
      BY <2>1, <2>4, EmptySeq, Zenon
    <3>2. QED  BY <3>1
  <2>6. u.log[1] = w[1] /\ Len(w) # 0
    <3>1. u.log[1] = w[Len(u.raised) + 1] /\ Len(u.raised) + Len(u.log) = Len(w)
      BY <2>3, <2>5, Zenon DEF PlayerAt
    <3>2. Len(u.raised) = 0 /\ 0 + 1 = 1
      BY <1>13
    <3>3. Len(u.log) \in Nat \ {0}
      BY <2>1, <2>4, EmptySeq, Zenon
    <3>4. QED  BY <3>1, <3>2, <3>3
  <2>7. w # <<>> => w[1].when = Head(file).stamp
    BY <1>1, <2>2, Zenon DEF VI!WellFormed, VI!Fits
  <2>8. w # <<>>
    BY <2>6
  <2>9. QED  BY <1>13, <2>6, <2>7, <2>8
<1>15. PlayerTimed(u, file, 1)
  BY <1>13, <1>14, Zenon DEF PlayerTimed
<1>16. PlayerOrder(u)
  <2>1. Len(<<>>) = 0 /\ 1 .. 0 = {}
    OBVIOUS
  <2>2. QED  BY <1>13, <2>1, Zenon DEF PlayerOrder
<1>17. PlayerHolds(u, file, 1)
  BY <1>11, <1>15, <1>16 DEF PlayerHolds
<1>18. QED  BY <1>1, <1>5, <1>17 DEF PlayerInv

LEMMA PlayerInitHolds ==
    ASSUME VI!WellFormed, VI!Init
    PROVE  PlayerInv(player)
<1>1. PICK file \in Files : player = VI!Opened(file)
  BY DEF VI!Init
<1>2. QED  BY <1>1, OpenedHolds

\* Reset drops the timer; time passes.
LEMMA PlayerClockHolds ==
    ASSUME VI!WellFormed, PlayerInv(player), VI!Pass \/ VI!Reset
    PROVE  PlayerInv(player')
<1>0. PICK file \in Files : \E c \in 1 .. Len(file) : PlayerHolds(player, file, c)
  BY DEF PlayerInv
<1>1. PICK c \in 1 .. Len(file) : PlayerHolds(player, file, c)
  BY <1>0
<1>2. PlayerRead(player, file, c) /\ PlayerOrder(player) /\ PlayerTimed(player, file, c)
      /\ player \in PlayerRecord
  BY <1>1 DEF PlayerHolds, PlayerRead, PlayerAt
<1>3. MaxCycle \in Nat /\ player.cycle \in 0 .. MaxCycle
  BY <1>2, PlayerTypes DEF VI!WellFormed
<1>4. CASE VI!Pass
  <2>1. player' = [player EXCEPT !.cycle = player.cycle + 1] /\ player.cycle + 1 \in 0 .. MaxCycle
    BY <1>3, <1>4 DEF VI!Pass
  <2>2. player' \in PlayerRecord
    BY <1>2, <2>1 DEF PlayerRecord
  <2>3. /\ player'.file = player.file /\ player'.stamp = player.stamp /\ player'.read = player.read
        /\ player'.log = player.log /\ player'.raised = player.raised /\ player'.due = player.due
        /\ (player'.reset <=> player.reset)
    BY <1>2, <2>1 DEF PlayerRecord
  <2>4. PlayerRead(player', file, c)
    BY <1>2, <2>2, <2>3, SameRead, Zenon
  <2>5. PlayerOrder(player') /\ PlayerTimed(player', file, c)
    BY <1>2, <2>3, Zenon DEF PlayerOrder, PlayerTimed
  <2>6. QED  BY <2>4, <2>5 DEF PlayerInv, PlayerHolds
<1>5. CASE VI!Reset
  <2>1. player' = [player EXCEPT !.due = VI!Never, !.cycle = 0, !.reset = TRUE]
        /\ VI!Never \in Int /\ 0 \in 0 .. MaxCycle
    BY <1>3, <1>5 DEF VI!Reset, VI!Never
  <2>2. player' \in PlayerRecord
    BY <1>2, <2>1 DEF PlayerRecord
  <2>3. /\ player'.file = player.file /\ player'.stamp = player.stamp /\ player'.read = player.read
        /\ player'.log = player.log /\ player'.raised = player.raised /\ player'.due = VI!Never
        /\ player'.reset
    BY <1>2, <2>1 DEF PlayerRecord
  <2>4. PlayerRead(player', file, c)
    BY <1>2, <2>2, <2>3, SameRead, Zenon
  <2>5. PlayerOrder(player') /\ PlayerTimed(player', file, c)
    BY <1>2, <2>3, Zenon DEF PlayerOrder, PlayerTimed
  <2>6. QED  BY <2>4, <2>5 DEF PlayerInv, PlayerHolds
<1>6. QED  BY <1>4, <1>5

\* What is raised of the first k entries of the log.
ToldOf(t, k) == [i \in 1 .. k |-> [n |-> t.log[i].n, when |-> t.log[i].when, at |-> t.cycle]]

LEMMA RaisedIs ==
    ASSUME NEW t \in PlayerRecord, t.log # <<>>
    PROVE  \E k \in 1 .. Len(t.log) :
              /\ \A i \in 1 .. k : t.log[i].when = t.log[1].when
              /\ VI!Raised(t) =
                    [t EXCEPT !.log = SubSeq(t.log, k + 1, Len(t.log)), !.raised = t.raised \o ToldOf(t, k),
                              !.due = IF k = Len(t.log) THEN VI!Never ELSE t.log[k + 1].when]
<1> DEFINE rest == {k \in DOMAIN t.log : ~(t.log[k].when = Head(t.log).when)}
           K == IF rest = {} THEN Len(t.log) ELSE (CHOOSE j \in rest : \A i \in rest : j <= i) - 1
<1>1. t.log \in Seq(PlayerEntry)
  BY PlayerTypes
<1>2. DOMAIN t.log = 1 .. Len(t.log) /\ Head(t.log) = t.log[1] /\ Len(t.log) \in Nat \ {0}
  <2>1. DOMAIN t.log = 1 .. Len(t.log)
    BY <1>1, LenProperties, Zenon
  <2>2. Len(t.log) \in Nat \ {0}
    BY <1>1, EmptySeq, Zenon
  <2>3. Head(t.log) = t.log[1]
    BY <1>1
  <2>4. QED  BY <2>1, <2>2, <2>3
<1>3. VI!Raised(t) =
         [t EXCEPT !.log = SubSeq(t.log, K + 1, Len(t.log)), !.raised = t.raised \o ToldOf(t, K),
                   !.due = IF K = Len(t.log) THEN VI!Never ELSE t.log[K + 1].when]
  BY Zenon DEF VI!Raised, ToldOf
<1> HIDE DEF K
<1>4. K \in 1 .. Len(t.log) /\ \A i \in 1 .. K : t.log[i].when = t.log[1].when
  <2>1. CASE rest = {}
    <3>1. K = Len(t.log)
      BY <2>1 DEF K
    <3>2. \A i \in 1 .. Len(t.log) : t.log[i].when = t.log[1].when
      BY <1>2, <2>1
    <3>3. QED  BY <1>2, <3>1, <3>2
  <2>2. CASE rest # {}
    <3>1. rest \in SUBSET Nat
      BY <1>2
    <3>2. \E j \in rest : \A i \in rest : j <= i
      BY <2>2, <3>1, LeastExists
    <3>3. PICK m : m \in rest /\ (\A i \in rest : m <= i) /\ K = m - 1
      BY <2>2, <3>2 DEF K
    <3>4. m \in 1 .. Len(t.log) /\ m # 1
      BY <1>2, <3>3
    <3>5. K \in 1 .. Len(t.log) /\ \A i \in 1 .. K : i \in 1 .. Len(t.log) /\ ~(m <= i)
      BY <3>3, <3>4
    <3>6. \A i \in 1 .. K : i \notin rest
      BY <3>3, <3>5
    <3>7. \A i \in 1 .. K : t.log[i].when = t.log[1].when
      BY <1>2, <3>5, <3>6
    <3>8. QED  BY <3>5, <3>7
  <2>3. QED  BY <2>1, <2>2
<1>5. QED  BY <1>3, <1>4, Zenon

LEMMA ToldIs ==
    ASSUME NEW t \in PlayerRecord, NEW k \in 1 .. Len(t.log), MaxCycle \in Nat
    PROVE  ToldOf(t, k) \in Seq(PlayerTold) /\ Len(ToldOf(t, k)) = k
<1>1. t.log \in Seq(PlayerEntry) /\ t.cycle \in Nat /\ k \in Nat /\ Len(t.log) \in Nat
  BY PlayerTypes
<1>2. \A i \in 1 .. k : [n |-> t.log[i].n, when |-> t.log[i].when, at |-> t.cycle] \in PlayerTold
  <2>1. SUFFICES ASSUME NEW i \in 1 .. k
                 PROVE  [n |-> t.log[i].n, when |-> t.log[i].when, at |-> t.cycle] \in PlayerTold
    OBVIOUS
  <2>2. i \in 1 .. Len(t.log)
    BY <1>1
  <2>3. t.log[i] \in PlayerEntry
    BY <1>1, <2>2, ElementOfSeq, Zenon
  <2>4. QED  BY <1>1, <2>3 DEF PlayerEntry, PlayerTold
<1>3. ToldOf(t, k) \in [1 .. k -> PlayerTold]
  BY <1>2 DEF ToldOf
<1>4. \A S : \A n \in Nat : [1 .. n -> S] \subseteq Seq(S)
  OBVIOUS
<1>5. ToldOf(t, k) \in Seq(PlayerTold)
  BY <1>1, <1>3, <1>4
<1>6. DOMAIN ToldOf(t, k) = 1 .. k
  BY <1>3
<1>7. DOMAIN ToldOf(t, k) = 1 .. Len(ToldOf(t, k)) /\ Len(ToldOf(t, k)) \in Nat
  BY <1>5, LenProperties, Zenon
<1>8. QED  BY <1>1, <1>5, <1>6, <1>7

\* _avr_vcd_input_timer, a pass with something to raise.
LEMMA RaisedHolds ==
    ASSUME VI!WellFormed, NEW file \in Files, NEW c \in 1 .. Len(file), NEW t,
           PlayerRead(t, file, c), PlayerOrder(t), t.log # <<>>, t.log[1].when <= t.cycle,
           Len(t.log) >= Low \/ Len(t.log) >= Enough \/ c = Len(file),
           NEW u, u = VI!Raised(t)
    PROVE  PlayerHolds(u, file, c)
<1>1. PICK all : all = VI!Whole(file)[c].log
  OBVIOUS
<1>2. PlayerAt(t, file, c, all) /\ t \in PlayerRecord /\ t.stamp = VI!Whole(file)[c].stamp
  BY <1>1, Zenon DEF PlayerRead, PlayerAt
<1>3. /\ t.file \in Seq(PlayerLine) /\ t.stamp \in Nat /\ t.read \in Nat
      /\ t.log \in Seq(PlayerEntry) /\ t.due \in Int /\ t.cycle \in 0 .. MaxCycle
      /\ t.raised \in Seq(PlayerTold) /\ t.reset \in BOOLEAN
  BY <1>2, PlayerTypes
<1>4. PICK L, b \in Nat : L = Len(t.log) /\ b = Len(t.raised)
  BY <1>2, PlayerTypes
<1>a. PICK k \in 1 .. Len(t.log) :
         /\ \A i \in 1 .. k : t.log[i].when = t.log[1].when
         /\ VI!Raised(t) =
               [t EXCEPT !.log = SubSeq(t.log, k + 1, Len(t.log)), !.raised = t.raised \o ToldOf(t, k),
                         !.due = IF k = Len(t.log) THEN VI!Never ELSE t.log[k + 1].when]
  BY <1>2, RaisedIs, Zenon
<1>5. /\ k \in 1 .. L /\ \A i \in 1 .. k : t.log[i].when = t.log[1].when
      /\ u = [t EXCEPT !.log = SubSeq(t.log, k + 1, L), !.raised = t.raised \o ToldOf(t, k),
                       !.due = IF k = L THEN VI!Never ELSE t.log[k + 1].when]
  BY <1>4, <1>a, Zenon
<1>6. /\ all \in Seq(PlayerEntry) /\ Len(all) = b + L /\ L <= PlayRoom
      /\ \A i \in 1 .. L : t.log[i] = all[b + i] /\ t.log[i].n = b + i
  BY <1>2, <1>4, Zenon DEF PlayerAt
<1>7. PICK rest \in Nat : rest = L - k
  BY <1>5
<1>8. k \in Nat /\ k >= 1 /\ k + rest = L /\ 1 \in 1 .. L /\ MaxCycle \in Nat
  BY <1>5, <1>7 DEF VI!WellFormed
<1> DEFINE log == SubSeq(t.log, k + 1, L)
           told == ToldOf(t, k)
           raised == t.raised \o told
           at == IF k = L THEN VI!Never ELSE t.log[k + 1].when
<1>9. log \in Seq(PlayerEntry) /\ Len(log) = rest /\ \A i \in 1 .. rest : log[i] = t.log[k + i]
  <2> DEFINE s == t.log
  <2>1. s \in Seq(PlayerEntry) /\ Len(s) = L
    BY <1>3, <1>4
  <2> HIDE DEF s
  <2>2. \A i \in k + 1 .. L : s[i] \in PlayerEntry
    <3>1. \A i \in k + 1 .. L : i \in 1 .. L
      BY <1>8
    <3>2. QED  BY <2>1, <3>1, ElementOfSeq
  <2>3. k + 1 \in Int /\ L \in Int
    BY <1>8
  <2>4. /\ SubSeq(s, k + 1, L) \in Seq(PlayerEntry)
        /\ Len(SubSeq(s, k + 1, L)) = IF k + 1 <= L THEN L - (k + 1) + 1 ELSE 0
        /\ \A i \in 1 .. L - (k + 1) + 1 : SubSeq(s, k + 1, L)[i] = s[(k + 1) + i - 1]
    BY <2>2, <2>3, SubSeqProperties
  <2>5. L - (k + 1) + 1 = rest /\ (~(k + 1 <= L) => rest = 0)
    BY <1>7, <1>8
  <2>6. \A i \in 1 .. rest : (k + 1) + i - 1 = k + i
    BY <1>8
  <2>7. QED  BY <2>4, <2>5, <2>6, Zenon DEF s
<1>10. told \in Seq(PlayerTold) /\ Len(told) = k
  <2>1. k \in 1 .. Len(t.log)
    BY <1>4
  <2>2. QED  BY <1>2, <1>8, <2>1, ToldIs
<1>11. \A i \in 1 .. k : told[i].n = b + i /\ told[i].when = t.log[1].when /\ told[i].at = t.cycle
  <2>1. SUFFICES ASSUME NEW i \in 1 .. k
                 PROVE  told[i].n = b + i /\ told[i].when = t.log[1].when /\ told[i].at = t.cycle
    OBVIOUS
  <2>2. told[i] = [n |-> t.log[i].n, when |-> t.log[i].when, at |-> t.cycle]
    BY DEF ToldOf
  <2>3. i \in 1 .. L /\ t.log[i].when = t.log[1].when
    BY <1>5, <1>8
  <2>4. t.log[i].n = b + i
    BY <1>6, <2>3
  <2> HIDE DEF told
  <2>5. QED  BY <2>2, <2>3, <2>4
<1> HIDE DEF told
<1>12. raised \in Seq(PlayerTold) /\ Joins(raised, t.raised, told, b, k)
  <2>1. t.raised \o told \in Seq(PlayerTold)
    BY <1>3, <1>4, <1>8, <1>10, ConcatIs, Zenon
  <2>2. Joins(t.raised \o told, t.raised, told, b, k)
    BY <1>3, <1>4, <1>8, <1>10, ConcatIs, Zenon
  <2>3. QED  BY <2>1, <2>2
<1>13. u = [t EXCEPT !.log = log, !.raised = raised, !.due = at]
  BY <1>5 DEF told
<1>14. at \in Int
  <2>1. CASE k = L
    BY <2>1 DEF VI!Never
  <2>2. CASE k # L
    <3>1. k + 1 \in 1 .. L
      BY <1>8, <2>2
    <3>2. t.log[k + 1] \in PlayerEntry
      BY <1>3, <1>4, <3>1, ElementOfSeq, Zenon
    <3>3. QED  BY <2>2, <3>2 DEF PlayerEntry
  <2>3. QED  BY <2>1, <2>2
<1> HIDE DEF log, raised, at
<1>15. u \in PlayerRecord
  BY <1>2, <1>9, <1>12, <1>13, <1>14 DEF PlayerRecord
<1>16. /\ u.log = log /\ u.raised = raised /\ u.due = at /\ u.file = t.file /\ u.stamp = t.stamp
       /\ u.read = t.read /\ u.cycle = t.cycle /\ (u.reset <=> t.reset)
  BY <1>2, <1>13 DEF PlayerRecord
<1>17. /\ Len(raised) = b + k /\ \A i \in 1 .. b : raised[i] = t.raised[i]
       /\ \A i \in 1 .. k : raised[b + i] = told[i]
  BY <1>12, Zenon DEF Joins
<1>18. PlayerRead(u, file, c)
  <2>1. Len(u.raised) + Len(u.log) = Len(all) /\ Len(u.log) <= PlayRoom
    <3>1. (b + k) + rest = b + L /\ rest <= PlayRoom
      BY <1>6, <1>8 DEF VI!WellFormed
    <3>2. QED  BY <1>6, <1>9, <1>16, <1>17, <3>1, Zenon
  <2>2. \A i \in 1 .. Len(u.log) :
           u.log[i] = all[Len(u.raised) + i] /\ u.log[i].n = Len(u.raised) + i
    <3>0. u.log = log /\ Len(log) = rest /\ Len(u.raised) = b + k
      BY <1>9, <1>16, <1>17
    <3>1. SUFFICES ASSUME NEW i \in 1 .. rest
                   PROVE  log[i] = all[(b + k) + i] /\ log[i].n = (b + k) + i
      BY <3>0, Zenon
    <3>2. k + i \in 1 .. L /\ b + (k + i) = (b + k) + i
      BY <1>8
    <3>3. t.log[k + i] = all[b + (k + i)] /\ t.log[k + i].n = b + (k + i)
      BY <1>6, <3>2
    <3>4. log[i] = t.log[k + i]
      BY <1>9
    <3>5. QED  BY <3>2, <3>3, <3>4, Zenon
  <2>3. PlayerAt(u, file, c, all)
    BY <1>2, <1>15, <1>16, <2>1, <2>2, Zenon DEF PlayerAt
  <2>4. QED  BY <1>1, <1>2, <1>16, <2>3, Zenon DEF PlayerRead
<1>19. PlayerOrder(u)
  <2>1. SUFFICES ASSUME NEW i \in 1 .. b + k
                 PROVE  raised[i].n = i /\ raised[i].at >= raised[i].when
    BY <1>16, <1>17, Zenon DEF PlayerOrder
  <2>2. CASE i <= b
    <3>1. i \in 1 .. b
      BY <2>2
    <3>2. t.raised[i].n = i /\ t.raised[i].at >= t.raised[i].when
      BY <1>4, <3>1, Zenon DEF PlayerOrder
    <3>3. QED  BY <1>17, <3>1, <3>2, Zenon
  <2>3. CASE ~(i <= b)
    <3>1. PICK j \in 1 .. k : i = b + j
      <4>1. i - b \in 1 .. k /\ i = b + (i - b)
        BY <1>8, <2>3
      <4>2. QED  BY <4>1
    <3>2. raised[i] = told[j] /\ told[j].n = b + j /\ told[j].when = t.log[1].when /\ told[j].at = t.cycle
      BY <1>11, <1>17, <3>1
    <3>3. t.log[1].when \in Nat /\ t.cycle \in Nat
      <4>1. t.log[1] \in PlayerEntry
        BY <1>3, <1>4, <1>8, ElementOfSeq, Zenon
      <4>2. \A m \in Nat : \A x \in 0 .. m : x \in Nat
        OBVIOUS
      <4>3. t.cycle \in Nat
        BY <1>3, <1>8, <4>2, Zenon
      <4>4. t.log[1].when \in Nat
        BY <4>1 DEF PlayerEntry
      <4>5. QED  BY <4>3, <4>4
    <3>4. t.cycle >= t.log[1].when
      BY <3>3
    <3>5. QED  BY <3>1, <3>2, <3>4, Zenon
  <2>4. QED  BY <2>2, <2>3
<1>20. PlayerTimed(u, file, c)
  <2>1. CASE k = L
    <3>1. at = VI!Never /\ rest = 0
      BY <1>7, <1>8, <2>1 DEF at
    <3>2. log = <<>>
      BY <1>9, <3>1, EmptySeq
    <3>3. c = Len(file)
      <4>1. PICK i, j \in Nat : i = b + 1 /\ j = b + L /\ i <= j /\ j - i + 1 = L
                                /\ i \in 1 .. b + L /\ j \in 1 .. b + L
        BY <1>8
      <4>2. i \in DOMAIN all /\ j \in DOMAIN all
        <5>1. DOMAIN all = 1 .. b + L
          BY <1>6, LenProperties
        <5>2. QED  BY <4>1, <5>1
      <4>3. all[i].when = all[j].when
        <5>1. L \in 1 .. k
          BY <1>8, <2>1
        <5>2. t.log[L].when = t.log[1].when
          BY <1>5, <5>1
        <5>3. t.log[1] = all[i] /\ t.log[L] = all[j]
          BY <1>6, <1>8, <2>1, <4>1, <5>1
        <5>4. QED  BY <5>2, <5>3
      <4>a. VI!Sparse(all)
        BY <1>1, Zenon DEF VI!WellFormed, VI!Fits
      <4>b. j - i + 1 < Low /\ j - i + 1 < Enough
        BY <4>1, <4>2, <4>3, <4>a, Zenon DEF VI!Sparse
      <4>4. L < Low /\ L < Enough
        BY <4>1, <4>b
      <4>5. QED  BY <1>4, <4>4 DEF VI!WellFormed
    <3>4. QED  BY <1>16, <3>1, <3>2, <3>3, Zenon DEF PlayerTimed
  <2>2. CASE k # L
    <3>1. k + 1 \in 1 .. L /\ 1 \in 1 .. rest
      BY <1>8, <2>2
    <3>2. at = t.log[k + 1].when /\ log[1] = t.log[k + 1]
      BY <1>9, <2>2, <3>1 DEF at
    <3>3. log # <<>>
      <4>1. Len(log) # 0 /\ Len(<<>>) = 0
        BY <1>9, <3>1
      <4>2. QED  BY <4>1
    <3>4. at # VI!Never
      <4>1. t.log[k + 1] \in PlayerEntry
        BY <1>3, <1>4, <3>1, ElementOfSeq, Zenon
      <4>2. QED  BY <3>2, <4>1 DEF PlayerEntry, VI!Never
    <3>5. QED  BY <1>16, <3>2, <3>3, <3>4, Zenon DEF PlayerTimed
  <2>3. QED  BY <2>1, <2>2
<1>21. QED  BY <1>18, <1>19, <1>20 DEF PlayerHolds

\* _avr_vcd_input_timer, after what was read.
LEMMA PassHolds ==
    ASSUME VI!WellFormed, NEW file \in Files, NEW c \in 1 .. Len(file), NEW t,
           PlayerRead(t, file, c), PlayerOrder(t), t.log # <<>> => t.log[1].when <= t.cycle,
           Len(t.log) >= Low \/ Len(t.log) >= Enough \/ c = Len(file),
           NEW u, u = IF t.log = <<>> THEN [t EXCEPT !.due = VI!Never] ELSE VI!Raised(t)
    PROVE  PlayerHolds(u, file, c)
<1>1. CASE t.log # <<>>
  BY <1>1, RaisedHolds
<1>2. CASE t.log = <<>>
  <2>1. t \in PlayerRecord
    BY DEF PlayerRead, PlayerAt
  <2>2. u = [t EXCEPT !.due = VI!Never] /\ VI!Never \in Int
    BY <1>2 DEF VI!Never
  <2>3. u \in PlayerRecord
    BY <2>1, <2>2 DEF PlayerRecord
  <2>4. /\ u.file = t.file /\ u.stamp = t.stamp /\ u.read = t.read
        /\ u.log = t.log /\ u.raised = t.raised /\ u.due = VI!Never
    BY <2>1, <2>2 DEF PlayerRecord
  <2>5. c = Len(file)
    <3>1. Len(t.log) = 0
      BY <1>2
    <3>2. QED  BY <3>1 DEF VI!WellFormed
  <2>6. PlayerRead(u, file, c)
    BY <2>3, <2>4, SameRead, Zenon
  <2>7. PlayerOrder(u) /\ PlayerTimed(u, file, c)
    BY <1>2, <2>4, <2>5, Zenon DEF PlayerOrder, PlayerTimed
  <2>8. QED  BY <2>6, <2>7 DEF PlayerHolds
<1>3. QED  BY <1>1, <1>2

LEMMA PlayerTimerHolds ==
    ASSUME VI!WellFormed, PlayerInv(player), VI!Timer
    PROVE  PlayerInv(player')
<1>0. PICK file \in Files : \E c \in 1 .. Len(file) : PlayerHolds(player, file, c)
  BY DEF PlayerInv
<1>1. PICK c \in 1 .. Len(file) : PlayerHolds(player, file, c)
  BY <1>0
<1>2. PlayerRead(player, file, c) /\ PlayerOrder(player) /\ PlayerTimed(player, file, c)
      /\ player \in PlayerRecord
  BY <1>1 DEF PlayerHolds, PlayerRead, PlayerAt
<1>3. Len(file) \in Nat /\ Len(player.log) \in Nat /\ Low \in Nat \ {0}
  BY <1>2, FileFits, PlayerTypes DEF VI!WellFormed
<1>4. player.due # VI!Never /\ player.due <= player.cycle
  BY DEF VI!Timer
<1>5. CASE ~VI!Lacks(player)
  <2>1. Len(player.log) >= Low
    BY <1>3, <1>5 DEF VI!Lacks
  <2>2. player.log # <<>> => player.log[1].when <= player.cycle
    BY <1>2, <1>4 DEF PlayerTimed
  <2>3. player' = IF player.log = <<>> THEN [player EXCEPT !.due = VI!Never] ELSE VI!Raised(player)
    BY <1>5 DEF VI!Timer
  <2>4. PlayerHolds(player', file, c)
    BY <1>2, <2>1, <2>2, <2>3, PassHolds, Zenon
  <2>5. QED  BY <2>4 DEF PlayerInv
<1>6. CASE VI!Lacks(player)
  <2>1. PICK t : t = VI!Reads(player)
    OBVIOUS
  <2>2. Len(player.log) < Low
    BY <1>6 DEF VI!Lacks
  <2>3. PICK e \in c .. Len(file) :
           /\ PlayerRead(t, file, e) /\ SamePlay(t, player)
           /\ Len(t.log) >= Enough \/ e = Len(file)
    BY <1>2, <2>1, <2>2, ReadsHolds
  <2>4. e \in 1 .. Len(file)
    BY <1>3
  <2>5. PlayerOrder(t)
    BY <1>2, <2>3, Zenon DEF PlayerOrder, SamePlay
  <2>6. ASSUME t.log # <<>>
        PROVE  t.log[1].when <= t.cycle
    <3>1. t.log \in Seq(PlayerEntry) /\ player.log \in Seq(PlayerEntry)
      BY <1>2, <2>3 DEF PlayerRead, PlayerAt, PlayerRecord
    <3>2. 1 \in 1 .. Len(t.log)
      <4>1. Len(t.log) \in Nat \ {0}
        BY <2>6, <3>1, EmptySeq, Zenon
      <4>2. QED  BY <4>1
    <3>3. t.cycle = player.cycle
      BY <2>3 DEF SamePlay
    <3>4. CASE player.log # <<>>
      <4>1. 1 \in 1 .. Len(player.log)
        <5>1. Len(player.log) \in Nat \ {0}
          BY <3>1, <3>4, EmptySeq, Zenon
        <5>2. QED  BY <5>1
      <4>2. t.log[1] = player.log[1]
        BY <2>3, <4>1, Zenon DEF SamePlay
      <4>3. QED  BY <1>2, <1>4, <3>3, <3>4, <4>2 DEF PlayerTimed
    <3>5. CASE player.log = <<>>
      <4>1. player.raised = <<>> /\ player.due = Head(file).stamp
        BY <1>2, <1>4, <3>5 DEF PlayerTimed
      <4>2. PICK w : w = VI!Whole(file)[e].log
        OBVIOUS
      <4>3. PlayerAt(t, file, e, w)
        BY <2>3, <4>2, Zenon DEF PlayerRead
      <4>4. t.raised = <<>>
        BY <2>3, <4>1 DEF SamePlay
      <4>5. t.log[1] = w[Len(t.raised) + 1] /\ Len(t.raised) + Len(t.log) = Len(w)
        BY <3>2, <4>3, Zenon DEF PlayerAt
      <4>6. Len(t.raised) = 0 /\ 0 + 1 = 1 /\ Len(t.log) # 0 /\ 0 + Len(t.log) = Len(t.log)
        <5>1. Len(<<>>) = 0
          OBVIOUS
        <5>2. Len(t.log) \in Nat \ {0}
          BY <2>6, <3>1, EmptySeq, Zenon
        <5>3. QED  BY <4>4, <5>1, <5>2
      <4>7. w # <<>>
        <5>1. Len(<<>>) = 0
          OBVIOUS
        <5>2. QED  BY <4>5, <4>6, <5>1, Zenon
      <4>8. w # <<>> => w[1].when = Head(file).stamp
        BY <2>4, <4>2, Zenon DEF VI!WellFormed, VI!Fits
      <4>9. t.log[1].when = player.due
        BY <4>1, <4>5, <4>6, <4>7, <4>8, Zenon
      <4>10. QED  BY <1>4, <3>3, <4>9
    <3>6. QED  BY <3>4, <3>5
  <2>7. player' = IF t.log = <<>> THEN [t EXCEPT !.due = VI!Never] ELSE VI!Raised(t)
    BY <1>6, <2>1 DEF VI!Timer
  <2>8. PlayerHolds(player', file, e)
    BY <2>3, <2>4, <2>5, <2>6, <2>7, PassHolds, Zenon
  <2>9. QED  BY <2>4, <2>8 DEF PlayerInv
<1>7. QED  BY <1>5, <1>6

LEMMA PlayerKeeps ==
    ASSUME VI!WellFormed, PlayerInv(player), VI!Next
    PROVE  PlayerInv(player')
BY PlayerTimerHolds, PlayerClockHolds DEF VI!Next

LEMMA PlayerShows ==
    ASSUME PlayerInv(player)
    PROVE  VI!TypeOK /\ VI!ReplaysInOrder /\ VI!WorkIsTimed
<1>0. PICK file \in Files : \E c \in 1 .. Len(file) : PlayerHolds(player, file, c)
  BY DEF PlayerInv
<1>1. PICK c \in 1 .. Len(file) : PlayerHolds(player, file, c)
  BY <1>0
<1>2. PlayerRead(player, file, c) /\ PlayerOrder(player) /\ PlayerTimed(player, file, c)
      /\ player \in PlayerRecord
  BY <1>1 DEF PlayerHolds, PlayerRead, PlayerAt
<1>3. VI!TypeOK
  <2>1. Len(player.log) <= PlayRoom
    BY <1>2 DEF PlayerRead, PlayerAt
  <2>2. QED  BY <1>2, <2>1, PlayerTypes DEF VI!TypeOK
<1>4. VI!ReplaysInOrder
  <2>1. DOMAIN player.raised = 1 .. Len(player.raised)
    BY <1>2, PlayerTypes, LenProperties, Zenon
  <2>2. QED  BY <1>2, <2>1, Zenon DEF VI!ReplaysInOrder, PlayerOrder
<1>5. VI!WorkIsTimed
  <2>1. SUFFICES ASSUME player.due = VI!Never, ~player.reset
                 PROVE  player.log = <<>> /\ \A k \in DOMAIN player.file : player.file[k].changes = 0
    BY DEF VI!WorkIsTimed
  <2>2. player.log = <<>> /\ c = Len(file)
    BY <1>2, <2>1 DEF PlayerTimed
  <2>3. Len(player.file) = Len(file) - c /\ player.file \in Seq(PlayerLine)
    BY <1>2 DEF PlayerRead, PlayerAt, PlayerRecord
  <2>4. DOMAIN player.file = {}
    <3>1. DOMAIN player.file = 1 .. Len(player.file)
      BY <2>3, LenProperties, Zenon
    <3>2. c \in Int /\ c - c = 0 /\ 1 .. 0 = {}
      OBVIOUS
    <3>3. QED  BY <2>2, <2>3, <3>1, <3>2, Zenon
  <2>5. QED  BY <2>2, <2>4
<1>6. QED  BY <1>3, <1>4, <1>5

-----------------------------------------------------------------------------
(* All parts *)

\* A part stays the part it is.
LEMMA PartStays ==
    ASSUME Next
    PROVE  part' = part
<1>1. ASSUME IR!Next
      PROVE  part' = part
  BY <1>1 DEF IR!Next, IR!Delivers, IR!CallHook, IR!FinishRaise, IR!Chain, IR!ChainReturns,
              IR!StoppedReturn, IR!NotifyReturns, IR!Raise, IR!AddHook, IR!RemoveHook, IR!Stop,
              IR!Rearm, IR!SetStrong
<1>2. ASSUME GD!Next
      PROVE  part' = part
  BY <1>2, Zenon DEF GD!Next, GD!Poll, GD!Reset, GD!Run, GD!Sleep
<1>3. ASSUME UA!Next
      PROVE  part' = part
  BY <1>3 DEF UA!Next, UA!Receive, UA!RxPumps, UA!ReadStatus, UA!ReadData, UA!WriteData,
              UA!TxPumps, UA!ServeTxc, UA!WriteStatus, UA!WriteControl, UA!Reset
<1>4. ASSUME AD!Next
      PROVE  part' = part
  BY <1>4 DEF AD!Next, AD!Write, AD!WriteAdcsrb, AD!SourceRaised, AD!Trigger, AD!Convert,
              AD!EndConversion, AD!ServeAdc, AD!ReadL, AD!ReadH, AD!Reset
<1>5. ASSUME EX!Next
      PROVE  part' = part
  BY <1>5 DEF EX!Next, EX!PinIs, EX!WriteSense, EX!Poll, EX!Serve, EX!SetI, EX!Reset
<1>6. ASSUME RT!Next
      PROVE  part' = part
  BY <1>6 DEF RT!Next, RT!WriteClock, RT!WriteLimits, RT!WriteCount, RT!ReadCount,
              RT!WriteInten, RT!WriteFlags, RT!Serve, RT!ChangeClock, RT!Reset, RT!Pass, RT!Event
<1>7. ASSUME PM!Next
      PROVE  part' = part
  BY <1>7 DEF PM!Next, PM!FuncSet, PM!WriteRoute, PM!WriteOut, PM!Reset
<1>8. ASSUME US!Next
      PROVE  part' = part
  BY <1>8 DEF US!Next, US!Input, US!ReadData, US!PinTick, US!WriteData, US!TxDone, US!ClearTxc,
              US!WriteCtrla, US!WriteCtrlb, US!ServeRxc, US!ServeTxc, US!Reset
<1>9. ASSUME TM!Next
      PROVE  part' = part
  BY <1>9, Zenon DEF TM!Next, TM!WriteTccr, TM!WriteOcr, TM!WriteTcnt, TM!Hold, TM!Release,
              TM!ResetPrescaler, TM!ClearFlags, TM!Reset, TM!Pass, TM!Overflow, TM!Match,
              TM!Instruction, TM!Firmware
<1>10. ASSUME UNCHANGED others
       PROVE  part' = part
  BY <1>10 DEF others
<1>11. QED
  BY <1>1, <1>2, <1>3, <1>4, <1>5, <1>6, <1>7, <1>8, <1>9, <1>10
     DEF Next, IrqStep, GdbStep, UartStep, AdcStep, ExtintStep, TimerStep, RtcStep, PortmuxStep,
         UsartStep, SpiStep, AdcModernStep, EvSysStep, VcdStep, PlayerStep

\* A part is one of the parts, and what its peripheral keeps holds.
PeripheralsInv ==
    /\ part \in Parts
    /\ part.kind = "portmux" => PortmuxInv
    /\ part.kind = "gdb" => GdbInv
    /\ part.kind = "evsys" => EvInv(evsys)
    /\ part.kind = "irq" => IrqInv
    /\ part.kind = "uart" => UartInv
    /\ part.kind = "adc" => AdcInv
    /\ part.kind = "extint" => ExtintInv
    /\ part.kind = "rtc" => RtcInv
    /\ part.kind = "usart" => UsartInv
    /\ part.kind = "spi" => SpiInv(spi)
    /\ part.kind = "adcm" => AdcmInv(adcm)
    /\ part.kind = "vcd" => VcdInv(vcd)
    /\ part.kind = "player" => PlayerInv(player)
    /\ part.kind = "timer" => TimerInv(timer)

\* The files that are played are whatever the assumptions allow, and one.
LEMMA PeripheralsInitHolds ==
    ASSUME Init
    PROVE  PeripheralsInv
<1>1. part \in Parts
  BY DEF Init
<1>2. part.kind = "portmux" => PortmuxInv
  BY PeripheralsAssumption, PortmuxInitHolds DEF Init
<1>3. part.kind = "gdb" => GdbInv
  BY PeripheralsAssumption, GdbInitHolds DEF Init
<1>4. part.kind = "evsys" => EvInv(evsys)
  BY PeripheralsAssumption, EvInitHolds DEF Init
<1>5. part.kind = "irq" => IrqInv
  BY PeripheralsAssumption, IrqInitHolds DEF Init
<1>6. part.kind = "uart" => UartInv
  BY PeripheralsAssumption, UartInitHolds DEF Init
<1>7. part.kind = "adc" => AdcInv
  BY PeripheralsAssumption, AdcInitHolds DEF Init
<1>8. part.kind = "extint" => ExtintInv
  BY PeripheralsAssumption, ExtintInitHolds DEF Init
<1>9. part.kind = "rtc" => RtcInv
  BY PeripheralsAssumption, RtcInitHolds DEF Init
<1>10. part.kind = "usart" => UsartInv
  BY PeripheralsAssumption, UsartInitHolds DEF Init
<1>11. part.kind = "spi" => SpiInv(spi)
  BY PeripheralsAssumption, SpiInitHolds DEF Init
<1>12. part.kind = "adcm" => AdcmInv(adcm)
  BY PeripheralsAssumption, AdcmInitHolds DEF Init
<1>13. part.kind = "vcd" => VcdInv(vcd)
  BY PeripheralsAssumption, VcdInitHolds DEF Init
<1>14. part.kind = "player" => PlayerInv(player)
  BY PeripheralsAssumption, PlayerInitHolds DEF Init
<1>15. part.kind = "timer" => TimerInv(timer)
  BY PeripheralsAssumption, TimerInitHolds DEF Init
<1>16. QED
  BY <1>1, <1>2, <1>3, <1>4, <1>5, <1>6, <1>7, <1>8, <1>9, <1>10, <1>11, <1>12, <1>13, <1>14,
     <1>15 DEF PeripheralsInv

\* A step of a part is one of its peripheral.
LEMMA PeripheralsStep ==
    ASSUME PeripheralsInv, Next
    PROVE  PeripheralsInv'
<1>1. part' = part /\ part \in Parts
  BY PartStays DEF PeripheralsInv
<1>2. ASSUME part.kind = "portmux"
      PROVE  PortmuxInv'
  <2>1. PM!Next
    BY <1>2 DEF Next, IrqStep, GdbStep, UartStep, AdcStep, ExtintStep, TimerStep, RtcStep,
       PortmuxStep, UsartStep, SpiStep, AdcModernStep, EvSysStep, VcdStep, PlayerStep
  <2>2. QED  BY <1>2, <2>1, PeripheralsAssumption, PortmuxKeeps DEF PeripheralsInv
<1>3. ASSUME part.kind = "gdb"
      PROVE  GdbInv'
  <2>1. GD!Next
    BY <1>3 DEF Next, IrqStep, GdbStep, UartStep, AdcStep, ExtintStep, TimerStep, RtcStep,
       PortmuxStep, UsartStep, SpiStep, AdcModernStep, EvSysStep, VcdStep, PlayerStep
  <2>2. QED  BY <1>3, <2>1, PeripheralsAssumption, GdbKeeps DEF PeripheralsInv
<1>4. ASSUME part.kind = "evsys"
      PROVE  EvInv(evsys')
  <2>1. EV!Next
    BY <1>4 DEF Next, IrqStep, GdbStep, UartStep, AdcStep, ExtintStep, TimerStep, RtcStep,
       PortmuxStep, UsartStep, SpiStep, AdcModernStep, EvSysStep, VcdStep, PlayerStep
  <2>2. QED  BY <1>4, <2>1, PeripheralsAssumption, EvKeeps DEF PeripheralsInv
<1>5. ASSUME part.kind = "irq"
      PROVE  IrqInv'
  <2>1. IR!Next
    BY <1>5 DEF Next, IrqStep, GdbStep, UartStep, AdcStep, ExtintStep, TimerStep, RtcStep,
       PortmuxStep, UsartStep, SpiStep, AdcModernStep, EvSysStep, VcdStep, PlayerStep
  <2>2. QED  BY <1>5, <2>1, PeripheralsAssumption, IrqKeeps DEF PeripheralsInv
<1>6. ASSUME part.kind = "uart"
      PROVE  UartInv'
  <2>1. UA!Next
    BY <1>6 DEF Next, IrqStep, GdbStep, UartStep, AdcStep, ExtintStep, TimerStep, RtcStep,
       PortmuxStep, UsartStep, SpiStep, AdcModernStep, EvSysStep, VcdStep, PlayerStep
  <2>2. QED  BY <1>6, <2>1, PeripheralsAssumption, UartKeeps DEF PeripheralsInv
<1>7. ASSUME part.kind = "adc"
      PROVE  AdcInv'
  <2>1. AD!Next
    BY <1>7 DEF Next, IrqStep, GdbStep, UartStep, AdcStep, ExtintStep, TimerStep, RtcStep,
       PortmuxStep, UsartStep, SpiStep, AdcModernStep, EvSysStep, VcdStep, PlayerStep
  <2>2. QED  BY <1>7, <2>1, PeripheralsAssumption, AdcKeeps DEF PeripheralsInv
<1>8. ASSUME part.kind = "extint"
      PROVE  ExtintInv'
  <2>1. EX!Next
    BY <1>8 DEF Next, IrqStep, GdbStep, UartStep, AdcStep, ExtintStep, TimerStep, RtcStep,
       PortmuxStep, UsartStep, SpiStep, AdcModernStep, EvSysStep, VcdStep, PlayerStep
  <2>2. QED  BY <1>8, <2>1, PeripheralsAssumption, ExtintKeeps DEF PeripheralsInv
<1>9. ASSUME part.kind = "rtc"
      PROVE  RtcInv'
  <2>1. RT!Next
    BY <1>9 DEF Next, IrqStep, GdbStep, UartStep, AdcStep, ExtintStep, TimerStep, RtcStep,
       PortmuxStep, UsartStep, SpiStep, AdcModernStep, EvSysStep, VcdStep, PlayerStep
  <2>2. QED  BY <1>9, <2>1, PeripheralsAssumption, RtcKeeps DEF PeripheralsInv
<1>10. ASSUME part.kind = "usart"
      PROVE  UsartInv'
  <2>1. US!Next
    BY <1>10 DEF Next, IrqStep, GdbStep, UartStep, AdcStep, ExtintStep, TimerStep, RtcStep,
       PortmuxStep, UsartStep, SpiStep, AdcModernStep, EvSysStep, VcdStep, PlayerStep
  <2>2. QED  BY <1>10, <2>1, PeripheralsAssumption, UsartKeeps DEF PeripheralsInv
<1>11. ASSUME part.kind = "spi"
      PROVE  SpiInv(spi')
  <2>1. SP!Next
    BY <1>11 DEF Next, IrqStep, GdbStep, UartStep, AdcStep, ExtintStep, TimerStep, RtcStep,
       PortmuxStep, UsartStep, SpiStep, AdcModernStep, EvSysStep, VcdStep, PlayerStep
  <2>2. QED  BY <1>11, <2>1, PeripheralsAssumption, SpiKeeps DEF PeripheralsInv
<1>12. ASSUME part.kind = "adcm"
      PROVE  AdcmInv(adcm')
  <2>1. AM!Next
    BY <1>12 DEF Next, IrqStep, GdbStep, UartStep, AdcStep, ExtintStep, TimerStep, RtcStep,
       PortmuxStep, UsartStep, SpiStep, AdcModernStep, EvSysStep, VcdStep, PlayerStep
  <2>2. QED  BY <1>12, <2>1, PeripheralsAssumption, AdcmKeeps DEF PeripheralsInv
<1>13. ASSUME part.kind = "vcd"
      PROVE  VcdInv(vcd')
  <2>1. VO!Next
    BY <1>13 DEF Next, IrqStep, GdbStep, UartStep, AdcStep, ExtintStep, TimerStep, RtcStep,
       PortmuxStep, UsartStep, SpiStep, AdcModernStep, EvSysStep, VcdStep, PlayerStep
  <2>2. QED  BY <1>13, <2>1, PeripheralsAssumption, VcdKeeps DEF PeripheralsInv
<1>14. ASSUME part.kind = "player"
      PROVE  PlayerInv(player')
  <2>1. VI!Next
    BY <1>14 DEF Next, IrqStep, GdbStep, UartStep, AdcStep, ExtintStep, TimerStep, RtcStep,
       PortmuxStep, UsartStep, SpiStep, AdcModernStep, EvSysStep, VcdStep, PlayerStep
  <2>2. QED  BY <1>14, <2>1, PeripheralsAssumption, PlayerKeeps DEF PeripheralsInv
<1>15. ASSUME part.kind = "timer"
      PROVE  TimerInv(timer')
  <2>1. TM!Next
    BY <1>15 DEF Next, IrqStep, GdbStep, UartStep, AdcStep, ExtintStep, TimerStep, RtcStep,
       PortmuxStep, UsartStep, SpiStep, AdcModernStep, EvSysStep, VcdStep, PlayerStep
  <2>2. QED  BY <1>15, <2>1, PeripheralsAssumption, TimerKeeps DEF PeripheralsInv
<1>16. QED
  BY <1>1, <1>2, <1>3, <1>4, <1>5, <1>6, <1>7, <1>8, <1>9, <1>10, <1>11, <1>12, <1>13, <1>14,
     <1>15 DEF PeripheralsInv

LEMMA PeripheralsStutter ==
    ASSUME PeripheralsInv, UNCHANGED vars
    PROVE  PeripheralsInv'
<1>1. part' = part /\ UNCHANGED sim /\ UNCHANGED classic /\ UNCHANGED modern
  BY DEF vars
<1>2. UNCHANGED ofPortmux /\ UNCHANGED ofRtc /\ UNCHANGED ofUsart /\ UNCHANGED records
  BY <1>1 DEF modern
<1>3. UNCHANGED ofGdb /\ UNCHANGED ofIrq /\ vcd' = vcd /\ player' = player
  BY <1>1 DEF sim
<1>4. UNCHANGED ofUart /\ UNCHANGED ofAdc /\ UNCHANGED ofExtint /\ timer' = timer
  BY <1>1 DEF classic
<1>5. spi' = spi /\ adcm' = adcm /\ evsys' = evsys
  BY <1>2 DEF records
<1>6. PortmuxInv => PortmuxInv'
  BY <1>2 DEF ofPortmux, PortmuxInv, ClaimsFollowRoutes, PM!TypeOK, PM!PinsFollowFunctions,
              PM!Routed, PM!Level
<1>7. GdbInv => GdbInv'
  BY <1>3 DEF ofGdb, GdbInv
<1>8. IrqInv => IrqInv'
  BY <1>3 DEF ofIrq, IrqInv, IrqTypes, NothingTold
<1>9. UartInv => UartInv'
  BY <1>1, <1>4 DEF ofUart, UartInv, UA!TypeOK, FifoKept, NothingRejected, TransmitterTimed
<1>10. AdcInv => AdcInv'
  BY <1>4 DEF ofAdc, AdcInv, AD!TypeOK, AD!WorkIsTimed, AD!PairIsOneConversion
<1>11. ExtintInv => ExtintInv'
  BY <1>4 DEF ofExtint, ExtintInv, EX!TypeOK, EX!WorkIsTimed
<1>12. RtcInv => RtcInv'
  BY <1>2 DEF ofRtc, RtcInv, RtcTiming, RtcRegisters, RtcRequest
<1>13. UsartInv => UsartInv'
  BY <1>2 DEF ofUsart, UsartInv, UsartFlags, UsartReceives, Shifting
<1>14. QED
  BY <1>1, <1>3, <1>4, <1>5, <1>6, <1>7, <1>8, <1>9, <1>10, <1>11, <1>12, <1>13
     DEF PeripheralsInv

LEMMA PeripheralsHold == Spec => []PeripheralsInv
<1>1. Init => PeripheralsInv
  BY PeripheralsInitHolds
<1>2. PeripheralsInv /\ [Next]_vars => PeripheralsInv'
  BY PeripheralsStep, PeripheralsStutter
<1>3. QED  BY <1>1, <1>2, PTL DEF Spec

\* A pin shows what an active function that is routed to it drives, and the
\* port's OUT bit when there is none, whatever functions and routes a device has
\* (portmux_apply).
THEOREM PinsFollow == Spec => []PinsFollowFunctions
<1>1. PeripheralsInv => PinsFollowFunctions
  BY DEF PeripheralsInv, PortmuxInv, PinsFollowFunctions
<1>2. QED  BY <1>1, PeripheralsHold, PTL

\* Every hook of an IRQ has been told the value that the IRQ has between raises,
\* and every user of an event channel its level, in networks of every shape and
\* size; the users of channels that drive each other call each other a bounded
\* number of times; and gdb is told of every stop (avr_raise_irq_float,
\* evsys_propagate, avr_gdb_processor).
THEOREM PartiesTold == Spec => []PartiesAreTold
<1>1. ASSUME PeripheralsInv
      PROVE  PartiesAreTold
  <2>1. part.kind = "irq" => IR!HooksInStep
    BY <1>1, IrqShows DEF PeripheralsInv
  <2>2. part.kind = "evsys" => EV!UsersInStep /\ EV!CallsEnd
    BY <1>1, PeripheralsAssumption, EvShows DEF PeripheralsInv
  <2>3. part.kind = "gdb" => GD!GdbKnows
    BY <1>1, GdbShows DEF PeripheralsInv
  <2>4. QED  BY <2>1, <2>2, <2>3 DEF PartiesAreTold
<1>2. QED  BY <1>1, PeripheralsHold, PTL

\* Every variable of a part's peripheral has its type, whatever its size, its
\* rates, its files and its firmware: no counter, queue, deadline or register
\* leaves its range (the handlers of all peripherals).
THEOREM TypesOfParts == Spec => []TypeOK
<1>1. ASSUME PeripheralsInv
      PROVE  TypeOK
  <2>1. CASE part.kind = "irq"
    <3>1. IR!TypeOK
      BY <1>1, <2>1, PeripheralsAssumption, IrqShows DEF PeripheralsInv
    <3>2. QED  BY <2>1, <3>1 DEF TypeOK
  <2>2. CASE part.kind = "gdb"
    <3>1. GD!TypeOK
      BY <1>1, <2>2, PeripheralsAssumption, GdbShows DEF PeripheralsInv
    <3>2. QED  BY <2>2, <3>1 DEF TypeOK
  <2>3. CASE part.kind = "uart"
    <3>1. UA!TypeOK
      BY <1>1, <2>3 DEF PeripheralsInv, UartInv
    <3>2. QED  BY <2>3, <3>1 DEF TypeOK
  <2>4. CASE part.kind = "adc"
    <3>1. AD!TypeOK
      BY <1>1, <2>4 DEF PeripheralsInv, AdcInv
    <3>2. QED  BY <2>4, <3>1 DEF TypeOK
  <2>5. CASE part.kind = "extint"
    <3>1. EX!TypeOK
      BY <1>1, <2>5 DEF PeripheralsInv, ExtintInv
    <3>2. QED  BY <2>5, <3>1 DEF TypeOK
  <2>6. CASE part.kind = "timer"
    <3>1. TM!TypeOK
      BY <1>1, <2>6, PeripheralsAssumption, TimerShows DEF PeripheralsInv
    <3>2. QED  BY <2>6, <3>1 DEF TypeOK
  <2>7. CASE part.kind = "rtc"
    <3>1. RT!TypeOK
      BY <1>1, <2>7, PeripheralsAssumption, RtcShows DEF PeripheralsInv
    <3>2. QED  BY <2>7, <3>1 DEF TypeOK
  <2>8. CASE part.kind = "portmux"
    <3>1. PM!TypeOK
      BY <1>1, <2>8 DEF PeripheralsInv, PortmuxInv
    <3>2. QED  BY <2>8, <3>1 DEF TypeOK
  <2>9. CASE part.kind = "usart"
    <3>1. US!TypeOK
      BY <1>1, <2>9, PeripheralsAssumption, UsartShows DEF PeripheralsInv
    <3>2. QED  BY <2>9, <3>1 DEF TypeOK
  <2>10. CASE part.kind = "spi"
    <3>1. SP!TypeOK
      BY <1>1, <2>10, PeripheralsAssumption, SpiShows DEF PeripheralsInv
    <3>2. QED  BY <2>10, <3>1 DEF TypeOK
  <2>11. CASE part.kind = "adcm"
    <3>1. AM!TypeOK
      BY <1>1, <2>11, PeripheralsAssumption, AdcmShows DEF PeripheralsInv
    <3>2. QED  BY <2>11, <3>1 DEF TypeOK
  <2>12. CASE part.kind = "evsys"
    <3>1. EV!TypeOK
      BY <1>1, <2>12, PeripheralsAssumption, EvShows DEF PeripheralsInv
    <3>2. QED  BY <2>12, <3>1 DEF TypeOK
  <2>13. CASE part.kind = "vcd"
    <3>1. VO!TypeOK
      BY <1>1, <2>13, PeripheralsAssumption, VcdShows DEF PeripheralsInv
    <3>2. QED  BY <2>13, <3>1 DEF TypeOK
  <2>14. CASE part.kind = "player"
    <3>1. VI!TypeOK
      BY <1>1, <2>14, PeripheralsAssumption, PlayerShows DEF PeripheralsInv
    <3>2. QED  BY <2>14, <3>1 DEF TypeOK
  <2>15. part.kind \in Kinds
    BY <1>1, PeripheralsAssumption DEF PeripheralsInv
  <2>16. QED
    BY <2>1, <2>2, <2>3, <2>4, <2>5, <2>6, <2>7, <2>8, <2>9, <2>10, <2>11, <2>12, <2>13, <2>14,
       <2>15 DEF Kinds
<1>2. QED  BY <1>1, PeripheralsHold, PTL

\* A peripheral that owes work has exactly the cycle timer for it, for every
\* size, rate and file and however the timers come late: no pump, transfer,
\* conversion, poll, event, match, frame, flush or replay is forgotten or runs
\* twice (avr_uart_rxc_raise, avr_spi_modern_xfer, avr_adc_raise, avr_extint_poll_level_trig,
\* avr_rtc_reschedule, avr_timer_configure, avr_vcd_flush_log).
THEOREM WorkTimed == Spec => []WorkIsTimed
<1>1. ASSUME PeripheralsInv
      PROVE  WorkIsTimed
  <2>1. part.kind = "uart" => UA!WorkIsTimed
    BY <1>1, PeripheralsAssumption, UartShows DEF PeripheralsInv
  <2>2. part.kind = "adc" => AD!WorkIsTimed
    BY <1>1 DEF PeripheralsInv, AdcInv
  <2>3. part.kind = "extint" => EX!WorkIsTimed
    BY <1>1 DEF PeripheralsInv, ExtintInv
  <2>4. part.kind = "timer" => TM!WorkIsTimed
    BY <1>1, PeripheralsAssumption, TimerShows DEF PeripheralsInv
  <2>5. part.kind = "rtc" => RT!WorkIsTimed
    BY <1>1, PeripheralsAssumption, RtcShows DEF PeripheralsInv
  <2>6. part.kind = "usart" => US!WorkIsTimed
    BY <1>1, PeripheralsAssumption, UsartShows DEF PeripheralsInv
  <2>7. part.kind = "spi" => SP!WorkIsTimed
    BY <1>1, PeripheralsAssumption, SpiShows DEF PeripheralsInv
  <2>8. part.kind = "adcm" => AM!WorkIsTimed
    BY <1>1, PeripheralsAssumption, AdcmShows DEF PeripheralsInv
  <2>9. part.kind = "vcd" => VO!WorkIsTimed
    BY <1>1, PeripheralsAssumption, VcdShows DEF PeripheralsInv
  <2>10. part.kind = "player" => VI!WorkIsTimed
    BY <1>1, PeripheralsAssumption, PlayerShows DEF PeripheralsInv
  <2>11. QED
    BY <2>1, <2>2, <2>3, <2>4, <2>5, <2>6, <2>7, <2>8, <2>9, <2>10 DEF WorkIsTimed
<1>2. QED  BY <1>1, PeripheralsHold, PTL

\* No byte, sample or change that a peripheral took is lost, taken twice or
\* given out of order, for every sender, burst, trace and file the assumptions
\* allow (avr_uart_read, avr_adc_int_raise, avr_spi_modern_xfer, avr_adc_modern_complete,
\* avr_vcd_flush_log, _avr_vcd_input_timer).
THEOREM DataWhole == Spec => []DataIsWhole
<1>1. ASSUME PeripheralsInv
      PROVE  DataIsWhole
  <2>1. part.kind = "uart" => UA!SenderLosesNothing
    BY <1>1, PeripheralsAssumption, UartShows DEF PeripheralsInv
  <2>2. part.kind = "adc" => AD!PairIsOneConversion
    BY <1>1 DEF PeripheralsInv, AdcInv
  <2>3. part.kind = "spi" => SP!BytesInOrder
    BY <1>1, PeripheralsAssumption, SpiShows DEF PeripheralsInv
  <2>4. part.kind = "adcm" => AM!ResultIsBurst
    BY <1>1, PeripheralsAssumption, AdcmShows DEF PeripheralsInv
  <2>5. part.kind = "vcd" => VO!EveryChangeWritten /\ VO!PulsesShow
    BY <1>1, PeripheralsAssumption, VcdShows DEF PeripheralsInv
  <2>6. part.kind = "player" => VI!ReplaysInOrder
    BY <1>1, PeripheralsAssumption, PlayerShows DEF PeripheralsInv
  <2>7. QED
    BY <2>1, <2>2, <2>3, <2>4, <2>5, <2>6 DEF DataIsWhole
<1>2. QED  BY <1>1, PeripheralsHold, PTL

-----------------------------------------------------------------------------
(* The counters of a part count in every cycle *)

\* What the two counters wait for is what their periods have next.
CountingInv ==
    /\ PeripheralsInv
    /\ part.kind = "rtc" => RtcCounting
    /\ part.kind = "timer" => TimerCounting

LEMMA CountersHold == Spec => []CountingInv
<1>1. ASSUME Init
      PROVE  CountingInv
  <2>1. PeripheralsInv /\ RtcCounting /\ TimerCounting
    BY <1>1, PeripheralsAssumption, PeripheralsInitHolds, RtcStartsCounting, TimerStartsCounting
       DEF Init
  <2>2. QED  BY <2>1 DEF CountingInv
<1>2. ASSUME CountingInv, Next
      PROVE  CountingInv'
  <2>1. PeripheralsInv' /\ part' = part
    BY <1>2, PeripheralsStep, PartStays DEF CountingInv
  <2>2. ASSUME part.kind = "rtc"
        PROVE  RtcCounting'
    <3>1. RT!Next /\ RtcInv /\ RtcCounting
      BY <1>2, <2>2 DEF CountingInv, PeripheralsInv, Next, IrqStep, GdbStep, UartStep, AdcStep,
         ExtintStep, TimerStep, RtcStep, PortmuxStep, UsartStep, SpiStep, AdcModernStep, EvSysStep,
         VcdStep, PlayerStep
    <3>2. QED  BY <3>1, RtcRefines
  <2>3. ASSUME part.kind = "timer"
        PROVE  TimerCounting'
    <3>1. TM!Next /\ TimerInv(timer) /\ TimerCounting
      BY <1>2, <2>3 DEF CountingInv, PeripheralsInv, Next, IrqStep, GdbStep, UartStep, AdcStep,
         ExtintStep, TimerStep, RtcStep, PortmuxStep, UsartStep, SpiStep, AdcModernStep, EvSysStep,
         VcdStep, PlayerStep
    <3>2. QED  BY <3>1, PeripheralsAssumption, TimerRefines
  <2>4. QED  BY <2>1, <2>2, <2>3 DEF CountingInv
<1>3. ASSUME CountingInv, UNCHANGED vars
      PROVE  CountingInv'
  <2>1. PeripheralsInv' /\ part' = part
    BY <1>3, PeripheralsStutter DEF CountingInv, vars
  <2>2. RtcCounting => RtcCounting'
    <3>1. UNCHANGED ofRtc
      BY <1>3 DEF vars, modern
    <3>2. QED  BY <3>1, RtcStays DEF ofRtc
  <2>3. part.kind = "timer" => TimerCounting'
    <3>1. timer' = timer
      BY <1>3 DEF vars, classic
    <3>2. part.kind = "timer" => TimerOk /\ TimerInv(timer)'
      BY <1>3, <2>1, PeripheralsAssumption DEF CountingInv, PeripheralsInv, TimerOk
    <3>3. QED  BY <2>1, <3>1, <3>2, TimerStays
  <2>4. QED  BY <1>3, <2>1, <2>2, <2>3 DEF CountingInv
<1>4. QED  BY <1>1, <1>2, <1>3, PTL DEF Spec

\* What the RTC shows is what the counter of its specification has.
LEMMA RtcSeenStays ==
    ASSUME RtcShow' = RtcShow
    PROVE  UNCHANGED RT!Counter!vars
BY DEF RtcShow, RtcCount, RtcInto, RtcFlags, RtcAsked, RT!Counter!vars, RT!Counter!settings,
       RT!Counter!counter, RT!Counter!interrupt

\* Nothing of the RTC changes.
LEMMA RtcUntouched ==
    ASSUME UNCHANGED ofRtc
    PROVE  UNCHANGED RT!Counter!vars
BY DEF ofRtc, RT!Counter!vars, RT!Counter!settings, RT!Counter!counter, RT!Counter!interrupt,
       RT!Position, RT!Owed, RT!Wrapped, RT!HasWrapped, RT!HasMatched

\* The counters of the RTC and of the classic timer, their flags and the request
\* of the RTC are at every instant those of counters that count in every cycle,
\* though CNT and TCNT are computed from the cycle they were set in and one cycle
\* timer stands for a whole period: at all rates, dividers, modes and sizes, and
\* whatever the firmware writes.  A cycle timer of the RTC is called however late,
\* one of the classic timer late by a count at most
\* (rtc_cnt_now, rtc_next_target, avr_rtc_cnt_event, avr_timer_tov,
\* avr_timer_configure, avr_timer_tcnt_write).
THEOREM EveryCycleCounts == Spec => CountsEveryCycle
<1>1. ASSUME Init
      PROVE  RT!Counter!Init /\ TM!Counter!Init
  BY <1>1, PeripheralsAssumption, RtcStartsCounting, TimerStartsCounting DEF Init
<1>2. ASSUME CountingInv, [Next]_vars
      PROVE  [part.kind = "rtc" => RT!Counter!Next]_(RT!Counter!vars)
  <2>1. CASE UNCHANGED vars
    <3>1. UNCHANGED ofRtc
      BY <2>1 DEF vars, modern
    <3>2. QED  BY <3>1, RtcUntouched
  <2>2. ASSUME Next, part.kind = "rtc"
        PROVE  RT!Counter!Next \/ UNCHANGED RT!Counter!vars
    <3>1. RT!Next /\ RtcInv /\ RtcCounting
      BY <1>2, <2>2 DEF CountingInv, PeripheralsInv, Next, IrqStep, GdbStep, UartStep, AdcStep,
         ExtintStep, TimerStep, RtcStep, PortmuxStep, UsartStep, SpiStep, AdcModernStep, EvSysStep,
         VcdStep, PlayerStep
    <3>2. QED  BY <3>1, RtcRefines, RtcSeenStays
  <2>3. QED  BY <1>2, <2>1, <2>2
<1>3. ASSUME CountingInv, [Next]_vars
      PROVE  [part.kind = "timer" => TM!Counter!Next]_(TM!Seen)
  <2>1. ASSUME UNCHANGED vars, part.kind = "timer"
        PROVE  TM!Seen' = TM!Seen
    <3>1. timer' = timer /\ part' = part /\ PeripheralsInv'
      BY <1>3, <2>1, PeripheralsStutter DEF vars, classic, CountingInv
    <3>2. TimerOk /\ TimerInv(timer)'
      BY <1>3, <2>1, <3>1, PeripheralsAssumption DEF CountingInv, PeripheralsInv, TimerOk
    <3>3. QED  BY <3>1, <3>2, TimerStays
  <2>2. ASSUME Next, part.kind = "timer"
        PROVE  TM!Counter!Next \/ TM!Seen' = TM!Seen
    <3>1. TM!Next /\ TimerInv(timer) /\ TimerCounting
      BY <1>3, <2>2 DEF CountingInv, PeripheralsInv, Next, IrqStep, GdbStep, UartStep, AdcStep,
         ExtintStep, TimerStep, RtcStep, PortmuxStep, UsartStep, SpiStep, AdcModernStep, EvSysStep,
         VcdStep, PlayerStep
    <3>2. QED  BY <3>1, PeripheralsAssumption, TimerRefines
  <2>3. QED  BY <1>3, <2>1, <2>2
<1>4. QED  BY <1>1, <1>2, <1>3, CountersHold, PTL DEF Spec, CountsEveryCycle

=============================================================================
