----------------------------- MODULE PermitPool -----------------------------
(***************************************************************************)
(* What the render route promises about its permits, without saying how.   *)
(* At most MaxConcurrent requests hold one.  The others stand in line in   *)
(* the order they came; a permit that comes free goes to the head of the   *)
(* line, and one that is free while somebody waits is eventually given.    *)
(* A waiting request may quit the line at any time: it was shed, or its    *)
(* caller hung up.  Nobody is served twice.                                *)
(*                                                                         *)
(* RenderSlots implements this module: see RenderSlots!Pool.               *)
(***************************************************************************)
EXTENDS Integers, FiniteSets

CONSTANTS Request,        \* the render requests
          MaxConcurrent   \* permits, PRELUM_MAX_CONCURRENT_RENDERS

VARIABLES waiting,        \* the requests in the line
          before,         \* the line: who stands before whom, in pairs
          holding,        \* the requests that hold a permit
          gone            \* the requests that are through with the pool

vars == <<waiting, before, holding, gone>>

Fresh(r) == r \notin waiting \cup holding \cup gone

Init == waiting = {} /\ before = {} /\ holding = {} /\ gone = {}

\* Only those in S are left in the line; they keep their order.
Remain(S) == /\ waiting' = S
             /\ before' = {p \in before : p[1] \in S /\ p[2] \in S}

-----------------------------------------------------------------------------
\* A request is turned away at the door, before it stands in line.
Refuse(r) == /\ Fresh(r)
             /\ gone' = gone \cup {r}
             /\ UNCHANGED <<waiting, before, holding>>

\* It takes a free permit at once, which it may only do past an empty line.
Enter(r) == /\ Fresh(r)
            /\ waiting = {}
            /\ Cardinality(holding) < MaxConcurrent
            /\ holding' = holding \cup {r}
            /\ UNCHANGED <<waiting, before, gone>>

\* It joins the end of the line.
Join(r) == /\ Fresh(r)
           /\ waiting' = waiting \cup {r}
           /\ before' = before \cup (waiting \X {r})
           /\ UNCHANGED <<holding, gone>>

\* It quits the line.
Quit(r) == /\ r \in waiting
           /\ Remain(waiting \ {r})
           /\ gone' = gone \cup {r}
           /\ UNCHANGED holding

\* The requests in leavers give their permits back, and those in served, who
\* stand before everybody else in the line, are handed one.
Serve(leavers, served) ==
  /\ \A r \in served, s \in waiting \ served : <<r, s>> \in before
  /\ holding' = (holding \ leavers) \cup served
  /\ Cardinality(holding') <= MaxConcurrent
  /\ Remain(waiting \ served)
  /\ gone' = gone \cup leavers

Leave(r) == r \in holding /\ \E S \in SUBSET waiting : Serve({r}, S)

HandOver == \E S \in (SUBSET waiting) \ {{}} : Serve({}, S)

Next == \/ \E r \in Request : \/ Refuse(r) \/ Enter(r) \/ Join(r)
                              \/ Quit(r)   \/ Leave(r)
        \/ HandOver

\* What may happen, whatever must.
Safely == Init /\ [][Next]_vars

\* A permit that is free while somebody waits is not kept forever.
Spec == Safely /\ WF_vars(HandOver)

=============================================================================
