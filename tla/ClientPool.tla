----------------------------- MODULE ClientPool -----------------------------
(***************************************************************************)
(* The client_pool example: tasks share sessions through a pool, which     *)
(* asks Connection::valid of a connection before it hands it out and, with *)
(* r2d2, when it comes back.  The pool itself, r2d2 or mobc, is external:  *)
(* it opens at most Capacity connections and keeps at most maxIdle.  The   *)
(* TA has an instance per session, so a panic kills one connection.        *)
(***************************************************************************)
EXTENDS Integers, FiniteSets

CONSTANTS Tasks, Conns,
          Capacity,  \* pool_capacity
          MaxPanics     \* how often the TA panics at most

(* What the theorems assume of the constants. *)
NoneAssumption == "none" \notin Conns

VARIABLES conn,      \* every connection: where it is, its TA, last_err
          task,      \* every task: where it is, its connection
          finish,    \* finish_counter
          panics,    \* panics so far
          wasted,    \* connections given up although their TA was alive
          maxIdle    \* Capacity with r2d2, 0 with mobc

poolVars == <<conn, task, finish, panics, wasted, maxIdle>>

NoErr == [kind |-> "none", origin |-> "none"]
Closed == [at |-> "closed", ta |-> "alive", last_err |-> NoErr]

PoolInit ==
  /\ conn = [c \in Conns |-> Closed]
  /\ task = [t \in Tasks |-> [pc |-> "get", conn |-> "none"]]
  /\ finish = 0 /\ panics = 0 /\ wasted = {} /\ maxIdle \in {0, Capacity}

OpenConns == {c \in Conns : conn[c].at # "closed"}
IdleConns == {c \in Conns : conn[c].at = "idle"}

(* Connection::valid.                                                      *)
Valid(k) == ~(k.last_err.kind = "TargetDead" /\ k.last_err.origin # "TA")

Close(c) == /\ conn' = [conn EXCEPT ![c] = Closed]
            /\ wasted' = IF conn[c].ta = "dead" THEN wasted ELSE wasted \union {c}

(* Manager::connect, for tasks that wait; it may fail and is tried again.  *)
Connect(c) == /\ conn[c].at = "closed" /\ Cardinality(OpenConns) < Capacity
              /\ IdleConns = {} /\ \E t \in Tasks : task[t].pc = "get"
              /\ conn' = [conn EXCEPT ![c] = [Closed EXCEPT !.at = "idle"]]
              /\ UNCHANGED <<task, finish, panics, wasted, maxIdle>>

(* pool.get: is_valid (check with mobc) decides; an invalid one is dropped.*)
Get(t, c) ==
  /\ task[t].pc = "get" /\ conn[c].at = "idle"
  /\ IF Valid(conn[c])
     THEN /\ conn' = [conn EXCEPT ![c].at = "used"]
          /\ task' = [task EXCEPT ![t] = [pc |-> "invoke", conn |-> c]]
          /\ wasted' = wasted
     ELSE Close(c) /\ task' = task
  /\ UNCHANGED <<finish, panics, maxIdle>>

(* The pool gives up after its timeout: the task ends with an error.       *)
GetTimesOut(t) == /\ task[t].pc = "get" /\ IdleConns = {} /\ Cardinality(OpenConns) = Capacity
                  /\ task' = [task EXCEPT ![t].pc = "failed"]
                  /\ UNCHANGED <<conn, finish, panics, wasted, maxIdle>>

(* What the TEE answers to a command: an instance that has panicked stays  *)
(* dead.                                                                   *)
Answers(c) ==
  IF conn[c].ta = "dead" THEN {[kind |-> "TargetDead", origin |-> "TEE"]}
  ELSE {NoErr, [kind |-> "BadParameters", origin |-> "TA"], [kind |-> "TargetDead", origin |-> "TA"]}
       \union (IF panics < MaxPanics THEN {[kind |-> "TargetDead", origin |-> "TEE"]} ELSE {})

(* tee_wait through Connection::invoke_command, which keeps the error of   *)
(* the last command; only success counts.                                  *)
Invoke(t) ==
  /\ task[t].pc = "invoke"
  /\ \E err \in Answers(task[t].conn) :
       LET died == err.kind = "TargetDead" /\ err.origin = "TEE"
       IN  /\ conn' = [conn EXCEPT ![task[t].conn].last_err = err,
                                   ![task[t].conn].ta = IF died THEN "dead" ELSE @]
           /\ panics' = IF died /\ conn[task[t].conn].ta = "alive" THEN panics + 1 ELSE panics
           /\ finish' = IF err = NoErr THEN finish + 1 ELSE finish
           /\ task' = [task EXCEPT ![t].pc = IF err = NoErr THEN "done" ELSE "failed"]
  /\ UNCHANGED <<wasted, maxIdle>>

(* The task ends and gives its connection back: has_broken decides, and    *)
(* the pool keeps no more than maxIdle.                                    *)
PutBack(t) ==
  /\ task[t].pc \in {"done", "failed"} /\ task[t].conn # "none"
  /\ LET c == task[t].conn
     IN  IF Valid(conn[c]) /\ Cardinality(IdleConns) < maxIdle
         THEN conn' = [conn EXCEPT ![c].at = "idle"] /\ wasted' = wasted
         ELSE IF Valid(conn[c])
         THEN conn' = [conn EXCEPT ![c] = Closed] /\ wasted' = wasted
         ELSE Close(c)
  /\ task' = [task EXCEPT ![t].conn = "none"]
  /\ UNCHANGED <<finish, panics, maxIdle>>

PoolNext ==
  \/ \E c \in Conns : Connect(c) \/ \E t \in Tasks : Get(t, c)
  \/ \E t \in Tasks : GetTimesOut(t) \/ Invoke(t) \/ PutBack(t)

PoolSpec == PoolInit /\ [][PoolNext]_poolVars

(* A task never works with a connection that died before it got it: what   *)
(* valid reads of the last command is enough.                              *)
HandedOutAlive == \A t \in Tasks : task[t].pc = "invoke" => conn[task[t].conn].ta = "alive"

(* The pool gives up no connection whose TA is alive: an error the TA      *)
(* returns itself, TargetDead included, does not cost the session.         *)
NoneWasted == wasted = {}
=============================================================================
