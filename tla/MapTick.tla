------------------------------ MODULE MapTick -------------------------------
(***************************************************************************)
(* What the world tick promises to the code that runs in it.  A tick is a  *)
(* parallel phase followed by a serial one.  In the parallel phase every   *)
(* base map, and every instance its base map does not skip or destroy, is  *)
(* updated exactly once, and no two updates of the same map overlap.  Maps *)
(* are created, and critical operations performed, in the serial phase     *)
(* only, when no update is running or still to run.                        *)
(***************************************************************************)
EXTENDS Naturals

CONSTANTS BaseMaps, Instances, Players, Operations

VARIABLES
  phase,    \* "serial" or "parallel"
  maps,     \* the base maps that exist
  live,     \* the instances that exist
  ready,    \* the maps and players whose update is still to start in this tick
  running,  \* those being updated
  started,  \* those whose update was started in this tick
  asked     \* the critical operations waiting to succeed

tickVars == <<phase, maps, live, ready, running, started, asked>>

Init ==
  /\ phase = "serial"
  /\ maps = {} /\ live = {} /\ ready = {} /\ running = {} /\ started = {} /\ asked = {}

CreateMap(b) ==
  /\ phase = "serial"
  /\ maps' = maps \cup {b}
  /\ UNCHANGED <<phase, live, ready, running, started, asked>>

CreateCopy(i) ==
  /\ phase = "serial"
  /\ live' = live \cup {i}
  /\ UNCHANGED <<phase, maps, ready, running, started, asked>>

\* All base maps, and the players with criteria to run, are due.
Begin ==
  /\ phase = "serial" /\ phase' = "parallel"
  /\ \E due \in SUBSET Players : ready' = maps \cup due
  /\ started' = {}
  /\ UNCHANGED <<maps, live, running, asked>>

Start(u) ==
  /\ u \in ready \ started
  /\ ready' = ready \ {u}
  /\ running' = running \cup {u}
  /\ started' = started \cup {u}
  /\ UNCHANGED <<phase, maps, live, asked>>

\* The update of a base map makes one of its instances due.
Fork(i) ==
  /\ running # {} /\ i \in live \ (ready \cup started)
  /\ ready' = ready \cup {i}
  /\ UNCHANGED <<phase, maps, live, running, started, asked>>

\* The update of a base map destroys an instance no update is due for.
Destroy(i) ==
  /\ running # {} /\ i \in live \ (ready \cup started)
  /\ live' = live \ {i}
  /\ UNCHANGED <<phase, maps, ready, running, started, asked>>

Finish(u) ==
  /\ u \in running
  /\ running' = running \ {u}
  /\ UNCHANGED <<phase, maps, live, ready, started, asked>>

\* Without worker threads an update, with the instances it updates and
\* destroys, is one step.
UpdateInPlace(u) ==
  /\ u \in ready \ started
  /\ ready' = ready \ {u}
  /\ \E gone \in SUBSET (live \ started) :
       \E copies \in SUBSET (live \ (gone \cup started)) :
         /\ live' = live \ gone
         /\ started' = started \cup {u} \cup copies
  /\ UNCHANGED <<phase, maps, running, asked>>

\* The barrier.
End ==
  /\ phase = "parallel" /\ ready = {} /\ running = {}
  /\ phase' = "serial"
  /\ UNCHANGED <<maps, live, ready, running, started, asked>>

Ask(op) ==
  /\ asked' = asked \cup {op}
  /\ UNCHANGED <<phase, maps, live, ready, running, started>>

Perform(op) ==
  /\ phase = "serial" /\ op \in asked
  /\ asked' = asked \ {op}
  /\ UNCHANGED <<phase, maps, live, ready, running, started>>

Unload ==
  /\ phase = "serial"
  /\ maps' = {} /\ live' = {}
  /\ UNCHANGED <<phase, ready, running, started, asked>>

Next ==
  \/ \E b \in BaseMaps : CreateMap(b)
  \/ \E i \in Instances : CreateCopy(i) \/ Fork(i) \/ Destroy(i)
  \/ \E u \in BaseMaps \cup Instances \cup Players :
       Start(u) \/ Finish(u) \/ UpdateInPlace(u)
  \/ Begin \/ End \/ Unload
  \/ \E op \in Operations : Ask(op) \/ Perform(op)

Spec == Init /\ [][Next]_tickVars
=============================================================================
