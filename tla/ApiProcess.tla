------------------------------ MODULE ApiProcess ------------------------------
(***************************************************************************)
(* The process that serves the API (app/main.py, api/deps.py,              *)
(* core/database.py): one event loop, a limited number of slots in which   *)
(* handlers run on threads, a pool of database connections, and two tasks  *)
(* in the background, from startup to shutdown.                            *)
(*                                                                         *)
(* A request needs a slot to find out who calls (get_current_actor), and   *)
(* another one for its handler; its session keeps the connection of the    *)
(* first query until a commit or until it is closed.  A login runs in the  *)
(* event loop: while it waits for a connection nothing else there goes on, *)
(* and the cleanup of every day does the same.  The notification sender    *)
(* runs its batches on a thread that takes no slot.  Opening and closing a *)
(* session takes no connection, and is not held up by a lack of slots.     *)
(*                                                                         *)
(* The loop, the slots and the pool belong to asyncio, anyio and           *)
(* SQLAlchemy, which this module models as far as the code relies on them: *)
(* who waits for a connection longer than the timeout of the pool fails.   *)
(***************************************************************************)
EXTENDS Naturals, FiniteSets

CONSTANTS
    Requests,      \* clients whose handlers are plain functions
    LoginClients,  \* clients that sign in
    Sender, Cleanup,  \* the tasks of lifespan
    Free,          \* the loop serves whoever is ready
    Slots,         \* threads for handlers: 40
    Connections    \* pool_size and max_overflow: 5 + 10

Clients == Requests \union LoginClients

ASSUME ProcessAssumption ==
    /\ Slots \in Nat \ {0} /\ Connections \in Nat \ {0}
    /\ Requests \intersect LoginClients = {} /\ Sender # Cleanup
    /\ {Sender, Cleanup, Free} \intersect Clients = {} /\ Free \notin {Sender, Cleanup}

VARIABLES
    phase,     \* "down", "serving", "draining" or "stopping" (stop_event is set)
    turn,      \* who runs in the event loop without giving way
    stage,     \* what each client's request is at
    task,      \* what each task is at
    out        \* who has a connection of the pool

processVars == <<phase, turn, stage, task, out>>

Waiting == {"connecting", "refreshing"}           \* for a connection
InSlot == Waiting \union {"connected", "handling", "ran"}
States == InSlot \union {"away", "arrived", "authorized", "exchanging", "closing"}

(* A batch of the sender is one session.  The cleanup opens two, one after *)
(* the other: for the logins, then for the change log.                     *)
InSession == {"working", "pruning"}                  \* in the first, in the second
TaskStates == InSession \union {"waiting", "connecting", "reconnecting", "ran", "ended"}

ProcessTypeOK ==
    /\ phase \in {"down", "serving", "draining", "stopping"}
    /\ turn \in LoginClients \union {Cleanup, Free}
    /\ stage \in [Clients -> States]
    /\ task \in [{Sender, Cleanup} -> TaskStates]
    /\ out \subseteq Clients \union {Sender, Cleanup}
    /\ Cardinality(out) <= Connections
    /\ Cardinality({r \in Requests : stage[r] \in InSlot}) <= Slots

ProcessInit == /\ phase = "down" /\ turn = Free
               /\ stage = [c \in Clients |-> "away"]
               /\ task = [k \in {Sender, Cleanup} |-> "ended"]
               /\ out = {}

Goes(c, from, to) == stage[c] = from /\ stage' = [stage EXCEPT ![c] = to]
Steps(k, from, to) == task[k] = from /\ task' = [task EXCEPT ![k] = to]

(* Variant: one slot too many. *)
SlotFreeLoose == Cardinality({r \in Requests : stage[r] \in InSlot}) <= Slots

CanTake == Cardinality(out) < Connections
SlotFree == Cardinality({r \in Requests : stage[r] \in InSlot}) < Slots

-----------------------------------------------------------------------------
(* A request with a plain handler. *)

Arrive(c) == /\ turn = Free /\ phase = "serving"
             /\ Goes(c, "away", IF c \in LoginClients THEN "exchanging" ELSE "arrived")
             /\ UNCHANGED <<phase, turn, task, out>>

(* The loop sends get_current_actor, later the handler, to a thread. *)
Authenticate(r) == /\ turn = Free /\ SlotFree /\ Goes(r, "arrived", "connecting")
                   /\ UNCHANGED <<phase, turn, task, out>>

Handle(r) == /\ turn = Free /\ SlotFree /\ Goes(r, "authorized", "handling")
             /\ UNCHANGED <<phase, turn, task, out>>

(* The first query, or the refresh after a commit, takes a connection. *)
TakeConnection(c) ==
    /\ CanTake /\ out' = out \union {c}
    /\ \/ Goes(c, "connecting", IF c \in LoginClients THEN "handling" ELSE "connected")
       \/ Goes(c, "refreshing", "ran")
    /\ UNCHANGED <<phase, turn, task>>

(* Without a token it is answered before the first query. *)
Deny(r) == /\ r \in Requests /\ Goes(r, "connecting", "ran")
           /\ UNCHANGED <<phase, turn, task, out>>

(* Variant: who waits for a connection waits for ever. *)
WaitForEver(c) == FALSE /\ UNCHANGED processVars

(* pool_timeout: the TimeoutError ends the function. *)
PoolTimeout(c) == /\ ~CanTake
                  /\ \E w \in Waiting : Goes(c, w, "ran")
                  /\ UNCHANGED <<phase, turn, task, out>>

(* The loop takes up what the thread returned: the slot is free again.     *)
(* Without a live session or a role the request is over.                   *)
Authenticated(r) == /\ turn = Free /\ \E to \in {"authorized", "closing"} : Goes(r, "connected", to)
                    /\ UNCHANGED <<phase, turn, task, out>>

(* The handler reads, or raises; or commits, which gives the connection    *)
(* back, and may read again.                                               *)
RunHandler(c) ==
    /\ \/ Goes(c, "handling", "ran") /\ out' \in {out, out \ {c}}
       \/ Goes(c, "handling", "refreshing") /\ out' = out \ {c}
    /\ UNCHANGED <<phase, turn, task>>

Return(r) == /\ r \in Requests /\ turn = Free /\ Goes(r, "ran", "closing")
             /\ UNCHANGED <<phase, turn, task, out>>

(* Variant: a session is closed only if nothing was raised before. *)
CloseKeeping(c) == /\ turn = Free /\ Goes(c, "closing", "away")
                   /\ UNCHANGED <<phase, turn, task, out>>

(* get_db's finally, whatever happened before. *)
Close(c) == /\ turn = Free /\ Goes(c, "closing", "away")
            /\ out' = out \ {c}
            /\ UNCHANGED <<phase, turn, task>>

-----------------------------------------------------------------------------
(* login_with_microsoft: Microsoft's answers are awaited; the rest, with   *)
(* its commits and refreshes, runs in the loop.                            *)
SignIn(l) == /\ turn = Free /\ l \in LoginClients
             /\ \/ Goes(l, "exchanging", "connecting") /\ turn' = l
                \/ Goes(l, "exchanging", "closing") /\ UNCHANGED turn
             /\ UNCHANGED <<phase, task, out>>

SignedIn(l) == /\ turn = l /\ Goes(l, "ran", "closing")
               /\ turn' = Free
               /\ UNCHANGED <<phase, task, out>>

-----------------------------------------------------------------------------
(* The two loops of main.py: each waits for the stop event or for its      *)
(* interval, and looks at the event before it works again.                 *)
Stopped == phase = "stopping"

(* Variant: the event wakes the task, which does not look at it. *)
WakeBlindly(k) == /\ turn = Free /\ phase # "down" /\ Steps(k, "waiting", "connecting")
                  /\ turn' = IF k = Cleanup THEN Cleanup ELSE turn
                  /\ UNCHANGED <<phase, stage, out>>

Wake(k) == /\ turn = Free
           /\ IF Stopped THEN Steps(k, "waiting", "ended") /\ UNCHANGED turn
              ELSE /\ Steps(k, "waiting", "connecting")
                   /\ turn' = IF k = Cleanup THEN Cleanup ELSE turn
           /\ UNCHANGED <<phase, stage, out>>

TaskConnects(k) == /\ CanTake
                   /\ \/ Steps(k, "connecting", "working")
                      \/ Steps(k, "reconnecting", "pruning")
                   /\ out' = out \union {k}
                   /\ UNCHANGED <<phase, turn, stage>>

(* What follows the first session, however it ended. *)
AfterFirst(k) == IF k = Cleanup THEN "reconnecting" ELSE "ran"

TaskTimesOut(k) == /\ ~CanTake
                   /\ \/ Steps(k, "connecting", AfterFirst(k))
                      \/ Steps(k, "reconnecting", "ran")
                   /\ UNCHANGED <<phase, turn, stage, out>>

(* The batch or one cleanup, to its commit or its exception. *)
Work(k) == /\ Steps(k, "working", AfterFirst(k)) \/ Steps(k, "pruning", "ran")
           /\ out' = out \ {k}
           /\ UNCHANGED <<phase, turn, stage>>

(* Exceptions are swallowed. *)
Sleep(k) == /\ turn = (IF k = Cleanup THEN Cleanup ELSE Free)
            /\ Steps(k, "ran", "waiting")
            /\ turn' = Free
            /\ UNCHANGED <<phase, stage, out>>

-----------------------------------------------------------------------------
(* lifespan up to its yield: database, schema, one cleanup of each kind;   *)
(* the process ends if it gets neither of the first two.  The sender has   *)
(* nothing to do where FCM is not configured.                              *)
Startup == \E configured \in BOOLEAN :
    /\ phase = "down" /\ phase' = "serving"
    /\ task' = [k \in {Sender, Cleanup} |-> IF k = Sender /\ ~configured THEN "ended"
                                            ELSE "waiting"]
    /\ UNCHANGED <<turn, stage, out>>

(* A signal: the server takes no more requests and lets those it has end.  *)
Signal == /\ phase = "serving" /\ phase' = "draining"
          /\ UNCHANGED <<turn, stage, task, out>>

(* lifespan after its yield. *)
SetStopEvent == /\ phase = "draining" /\ turn = Free
                /\ \A c \in Clients : stage[c] = "away"
                /\ phase' = "stopping"
                /\ UNCHANGED <<turn, stage, task, out>>

(* asyncio.gather waits for both tasks. *)
Exit == /\ Stopped /\ turn = Free
        /\ \A k \in {Sender, Cleanup} : task[k] = "ended"
        /\ phase' = "down"
        /\ UNCHANGED <<turn, stage, task, out>>

(* Everything in memory is gone, and PostgreSQL ends the sessions. *)
Crash == /\ phase # "down"
         /\ phase' = "down" /\ turn' = Free
         /\ stage' = [c \in Clients |-> "away"]
         /\ task' = [k \in {Sender, Cleanup} |-> "ended"]
         /\ out' = {}

(* What a client's request does in the loop, and what it does on a thread  *)
(* or in a loop it does not give away.                                     *)
LoopStep(c) == Authenticate(c) \/ Handle(c) \/ Authenticated(c) \/ Return(c)
               \/ Close(c) \/ SignIn(c)
OwnStep(c) == TakeConnection(c) \/ Deny(c) \/ PoolTimeout(c) \/ RunHandler(c) \/ SignedIn(c)
TaskStep(k) == TaskConnects(k) \/ TaskTimesOut(k) \/ Work(k)

ProcessNext == \/ Startup \/ Signal \/ SetStopEvent \/ Exit \/ Crash
               \/ \E c \in Clients : Arrive(c) \/ LoopStep(c) \/ OwnStep(c)
               \/ \E k \in {Sender, Cleanup} : Wake(k) \/ TaskStep(k) \/ Sleep(k)

ProcessSpec == ProcessInit /\ [][ProcessNext]_processVars

(* Whatever is ready runs in the loop in its turn, slots are given in the  *)
(* order they were asked for, and statements and batches end.  What the    *)
(* loop does again and again meanwhile cannot keep a request, or the end   *)
(* of the last one, from its turn: hence the strong fairness.              *)
Fairness == /\ \A c \in Clients : SF_processVars(LoopStep(c)) /\ WF_processVars(OwnStep(c))
            /\ \A k \in {Sender, Cleanup} : WF_processVars(Wake(k) \/ TaskStep(k) \/ Sleep(k))
            /\ SF_processVars(SetStopEvent) /\ WF_processVars(Exit)

FairSpec == ProcessSpec /\ Fairness

-----------------------------------------------------------------------------
(* Who is done holds no connection, on whatever path the request, the      *)
(* batch or the cleanup ended; and a process that has gone down in order   *)
(* left nothing behind, so that the next one starts alone.                 *)
NothingLeaks ==
    /\ \A c \in Clients : stage[c] \in {"away", "arrived", "exchanging"} => c \notin out
    /\ \A k \in {Sender, Cleanup} : task[k] \notin InSession => k \notin out
    /\ phase = "down" => /\ turn = Free
                         /\ \A c \in Clients : stage[c] = "away"
                         /\ \A k \in {Sender, Cleanup} : task[k] = "ended"

(* Requests with connections may wait for slots whose requests wait for    *)
(* connections, and all of them for a loop in which a login or the cleanup *)
(* waits for one: still every request comes to its end.                    *)
RequestsConclude == \A c \in Clients : stage[c] # "away" ~> stage[c] = "away"

(* A shutdown that has begun ends, whatever the tasks are at: lifespan     *)
(* waits for both of them.                                                 *)
ShutdownCompletes == phase = "draining" ~> phase = "down"

=============================================================================
