-------------------------------- MODULE Gdb ---------------------------------
(***************************************************************************)
(* The GDB server (sim_gdb.c) and the run function that serves it          *)
(* (avr_callback_run_gdb, avr_callback_sleep_gdb).  One pass polls the     *)
(* socket, executes one instruction, runs the timers and sleeps; the       *)
(* socket is polled in the sleep as well.  The text of the packets, memory *)
(* and registers other than the PC are left out, as are the table of the   *)
(* watchpoints (an instruction may hit one) and tables of 32 breakpoints,  *)
(* where the insertion writes past the array.                              *)
(*                                                                         *)
(* gdb sends commands only while it takes the CPU for stopped, and ^C at   *)
(* any time.  g.told and g.behind are history: what gdb was told last, and *)
(* what happened since without a word to it.                               *)
(***************************************************************************)
EXTENDS Naturals

CONSTANTS
    Address,    \* word addresses of the program
    Burst       \* GDB_BURST, passes without a look at the socket

VARIABLES
    part,
    g,          \* avr_gdb_t with avr->state, avr->pc
    phase,      \* where in the pass: "poll", "run" or "sleep"
    stepping    \* step of avr_callback_run_gdb

vars == <<part, g, phase, stepping>>

ResetVector == 0

\* What the constants have to satisfy.
WellFormed == ResetVector \in Address /\ Burst \in Nat

States == {"Running", "Sleeping", "Stopped", "Step", "StepDone", "Done"}
BreakKinds == {"soft", "hard"}
NoBreaks == [a \in Address |-> {}]

Init ==
    /\ g = [state |-> "Running", pc |-> ResetVector, breaks |-> NoBreaks,
            connected |-> FALSE, burst |-> 0, resumed |-> FALSE, resetDue |-> FALSE,
            told |-> "running", behind |-> "nothing"]
    /\ phase = "poll" /\ stepping = FALSE

-----------------------------------------------------------------------------
(* The socket *)

\* gdb_send_stop_status, and the state that goes with it
Stop(q) == [q EXCEPT !.state = "Stopped", !.told = "stopped", !.behind = "nothing"]
Resume(q, state) ==
    [q EXCEPT !.state = state, !.told = "running", !.behind = "nothing", !.resumed = TRUE]

Closed(q) ==
    [Resume(q, "Running") EXCEPT !.connected = FALSE, !.breaks = NoBreaks]

\* gdb_handle_command.  A reset drops one that is pending (avr_rstctrl_reset).
Commands(q) ==
    {Resume(q, "Running"), Resume(q, "Step")}
        \cup {[q EXCEPT !.breaks[a] = @ \cup {k}] : a \in Address, k \in BreakKinds}
        \cup {[q EXCEPT !.breaks[a] = @ \ {k}] : a \in Address, k \in BreakKinds}
        \cup {[q EXCEPT !.pc = a] : a \in Address}
        \cup {[Stop(q) EXCEPT !.pc = ResetVector, !.resetDue = FALSE]}
        \cup {[q EXCEPT !.state = "Stopped"], [q EXCEPT !.state = "Done"]}

\* gdb_network_handler when something has arrived
Arrivals(q) ==
    IF ~q.connected THEN {[Stop(q) EXCEPT !.connected = TRUE]}
    ELSE {Closed(q), Stop(q)} \cup (IF q.told = "stopped" THEN Commands(q) ELSE {})

\* avr_gdb_processor: what it leaves and whether it asks to be called again
AtBreak(q) == q.state = "Running" /\ q.breaks[q.pc] # {}
Processed(q, wait) ==
    LET reports == AtBreak(q) \/ q.state = "StepDone"
        r == [(IF reports THEN Stop(q) ELSE q) EXCEPT !.burst = 0]
    IN IF ~reports /\ ~wait /\ q.burst < Burst
       THEN {[g |-> [q EXCEPT !.burst = @ + 1], again |-> FALSE]}
       ELSE {[g |-> r, again |-> FALSE]} \cup {[g |-> a, again |-> TRUE] : a \in Arrivals(r)}

-----------------------------------------------------------------------------
(* The pass *)

Poll ==
    /\ phase = "poll" /\ ~g.resetDue /\ g.state # "Done"
    /\ \E r \in Processed([g EXCEPT !.resumed = FALSE], g.state = "Stopped") :
          /\ g' = r.g
          /\ phase' = IF r.g.state \in {"Stopped", "Done"} THEN "poll" ELSE "run"
    /\ UNCHANGED <<part, stepping>>

\* rstctrl_do_reset instead of the run function, or avr_reset by the application
Reset ==
    /\ phase = "poll" /\ (g.resetDue \/ g.state = "Done")
    /\ g' = [g EXCEPT !.state = "Running", !.pc = ResetVector, !.resetDue = FALSE,
                      !.behind = "reset"]
    /\ UNCHANGED <<part, phase, stepping>>

\* Mutant: a watchpoint stops the CPU, and gdb is not told.
ExecutedInSilence(q) ==
    {[q EXCEPT !.state = "Running"], [q EXCEPT !.state = "Sleeping"],
     [q EXCEPT !.state = "Stopped"]}

\* avr_run_one in the states it leaves the CPU in: a watchpoint and BREAK stop
\* it with a word to gdb, a crash without (avr_sadly_crashed).
Executed(q) ==
    {[q EXCEPT !.state = "Running"], [q EXCEPT !.state = "Sleeping"], Stop(q),
     [q EXCEPT !.state = "Stopped", !.behind = "crash"]}

\* The timers may raise an interrupt, which wakes the CPU.
Woken(q) ==
    {q} \cup (IF q.state = "Sleeping" THEN {[q EXCEPT !.state = "Running"]} ELSE {})

\* The service of an interrupt, and the report that a step is done
Finish(q, step) ==
    /\ \E a \in Address : g' = [q EXCEPT !.pc = IF q.state = "Running" THEN a ELSE @,
                                         !.state = IF step THEN "StepDone" ELSE @]
    /\ phase' = "poll"

Run ==
    /\ phase = "run"
    /\ stepping' = (g.state = "Step")
    /\ \E a \in Address, due \in BOOLEAN,
          e \in IF g.state = "Sleeping" THEN {g} ELSE Executed(g) :
          \E q \in Woken([e EXCEPT !.resetDue = due,
                                  !.pc = IF g.state = "Sleeping" THEN @ ELSE a]) :
             \/ q.state = "Sleeping" /\ g' = q /\ phase' = "sleep"
             \/ q.state = "Sleeping" /\ g' = [q EXCEPT !.state = "Done"] /\ phase' = "poll"
             \/ q.state # "Sleeping" /\ Finish(q, g.state = "Step")
    /\ UNCHANGED part

\* avr_callback_sleep_gdb, and the rest of the pass
Sleep ==
    /\ phase = "sleep"
    /\ \E wait \in BOOLEAN : \E r \in Processed(g, wait) :
          \/ r.again /\ g' = r.g /\ UNCHANGED phase
          \/ ~r.again /\ Finish(r.g, stepping)
    /\ UNCHANGED <<part, stepping>>

Next == Poll \/ Reset \/ Run \/ Sleep

Spec == Init /\ [][Next]_vars

-----------------------------------------------------------------------------
(* Properties *)

TypeOK ==
    /\ g.state \in States /\ g.pc \in Address /\ g.breaks \in [Address -> SUBSET BreakKinds]
    /\ g.connected \in BOOLEAN /\ g.burst \in 0 .. Burst
    /\ g.resumed \in BOOLEAN /\ g.resetDue \in BOOLEAN /\ g.told \in {"running", "stopped"}
    /\ g.behind \in {"nothing", "reset", "crash"}
    /\ phase \in {"poll", "run", "sleep"} /\ stepping \in BOOLEAN

\* A CPU that gdb takes for stopped executes nothing, unless it was reset
\* behind gdb's back; one that stops says so, unless it crashed; and one that
\* comes to a breakpoint stops there before the instruction, unless it is
\* resumed from there or was reset (avr_gdb_processor, avr_callback_run_gdb).
GdbKnows ==
    /\ g.connected /\ g.told = "stopped" /\ g.behind # "reset" =>
            g.state \in {"Stopped", "StepDone", "Done"}
    /\ g.connected /\ g.told = "running" /\ g.behind # "crash" => g.state # "Stopped"
    /\ phase = "run" /\ AtBreak(g) /\ g.behind # "reset" => g.resumed

=============================================================================
