---------------------------- MODULE TaskContract ----------------------------
(***************************************************************************)
(* What CommonUtilitiesLib/Task.h promises of one task, threads, queues    *)
(* and heaps apart: Run is never re-entered, every Signal is followed by a *)
(* Run that can see the event, and a task ends inside its own Run.         *)
(***************************************************************************)
CONSTANTS Tasks,
          EventFlags,   \* the event bits, without kAlive
          kIdleEvent    \* the one a timer brings

VARIABLES status,       \* idle, due to be run, running, or gone (deleted)
          pending,      \* the events signalled and not yet taken
          seen          \* the events the present Run has looked at

contractVars == <<status, pending, seen>>

Init == /\ status = [t \in Tasks |-> "idle"]
        /\ pending = [t \in Tasks |-> {}]
        /\ seen = [t \in Tasks |-> {}]

Move(t, s) == status' = [status EXCEPT ![t] = s]

\* Signal makes an idle task due; it only adds its event to any other.
Signal(t, e) ==
  /\ status[t] # "gone"
  /\ pending' = [pending EXCEPT ![t] = @ \cup {e}]
  /\ IF status[t] = "idle" THEN Move(t, "due") ELSE UNCHANGED status
  /\ UNCHANGED seen

Start(t) == status[t] = "due" /\ Move(t, "running") /\ UNCHANGED <<pending, seen>>

\* GetEvents in two parts: what is signalled after the look is not taken.
Look(t) == /\ status[t] = "running"
           /\ seen' = [seen EXCEPT ![t] = pending[t]]
           /\ UNCHANGED <<status, pending>>
Take(t) == /\ status[t] = "running"
           /\ pending' = [pending EXCEPT ![t] = @ \ seen[t]]
           /\ seen' = [seen EXCEPT ![t] = {}]
           /\ UNCHANGED status

\* Run returned 0: the task rests only if no event came in, else it runs again.
Rest(t) == /\ status[t] = "running" /\ pending[t] = {}
           /\ Move(t, "idle") /\ UNCHANGED <<pending, seen>>
Rerun(t) == /\ status[t] = "running" /\ pending[t] # {}
            /\ Move(t, "due") /\ UNCHANGED <<pending, seen>>

\* Run returned a time: the task is due then, with kIdleEvent.
Sleep(t) == /\ status[t] = "running"
            /\ Move(t, "due")
            /\ pending' = [pending EXCEPT ![t] = @ \cup {kIdleEvent}]
            /\ UNCHANGED seen

\* Run returned a negative number.
Delete(t) == status[t] = "running" /\ Move(t, "gone") /\ UNCHANGED <<pending, seen>>

Next == \E t \in Tasks :
          \/ \E e \in EventFlags : Signal(t, e)
          \/ Start(t) \/ Look(t) \/ Take(t) \/ Rest(t) \/ Rerun(t) \/ Sleep(t) \/ Delete(t)

Spec == Init /\ [][Next]_contractVars
=============================================================================
