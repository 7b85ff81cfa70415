--------------------------- MODULE ModelWorkerPool ----------------------------
(* The pool of model worker processes (src/model-worker-pool.ts).  A call    *)
(* names a configuration, its key; a session is a process that serves one    *)
(* key, one call at a time.  pump, cancel and stop run without an await      *)
(* until their first one, so each is part of the step that calls it.         *)
EXTENDS Naturals, Sequences, FiniteSets, SequencesExt

CONSTANTS Calls,       \* calls that may be made
          ModelKeys,   \* configurations
          MaxWorkers,  \* options.maxWorkers
          MaxQueue     \* 64 in the source

ASSUME PoolAssumption == MaxWorkers \in Nat \ {0} /\ MaxQueue \in Nat \ {0}

VARIABLES call,        \* per call: its key and what became of it
          queue,       \* this.queue
          sessions,    \* this.sessions, in insertion order
          poolClosed   \* this.closed

poolVars == <<call, queue, sessions, poolClosed>>

CallStates == {"new", "queued", "assigned", "stopping", "resolved", "rejected"}
Settled    == {"resolved", "rejected"}
Done       == Settled \cup {"stopping"}
NoCall     == <<>>

(* phase: mkdtemp and fork go on; the child runs; there is no child.         *)
Session(k, c) == [key |-> k, job |-> <<c>>, phase |-> "starting", sent |-> FALSE, closing |-> FALSE]

PoolInit ==
  /\ call \in [Calls -> [key : ModelKeys, state : {"new"}]]
  /\ queue = <<>> /\ sessions = <<>> /\ poolClosed = FALSE

Serving(ss, k) == {i \in DOMAIN ss : ss[i].key = k}
Idle(ss)       == {i \in DOMAIN ss : ss[i].job = NoCall /\ ~ss[i].closing}
First(S)       == CHOOSE i \in S : \A j \in S : i <= j
Mark(cs, c, s) == [cs EXCEPT ![c].state = s]

--------------------------------------------------------------------------------
(* pump: one pass over a copy of the queue.  A call is assigned to the idle  *)
(* session of its key or to a new one; with no room, an idle session of      *)
(* another key is stopped and the call waits for the pump that follows.      *)
MutantRoom(ss) == Cardinality(Idle(ss)) <= MaxWorkers
Room(ss) == Len(ss) < MaxWorkers

Consider(p, c) ==
  LET k == p.call[c].key
      own == Serving(p.sessions, k) IN
  CASE own # {} /\ own \subseteq Idle(p.sessions) ->
         [p EXCEPT !.queue = RemoveFirst(@, c), !.call = Mark(@, c, "assigned"),
                   !.sessions[First(own)].job = <<c>>, !.sessions[First(own)].sent = FALSE]
    [] own # {} /\ ~(own \subseteq Idle(p.sessions)) -> p
    [] own = {} /\ Room(p.sessions) ->
         [p EXCEPT !.queue = RemoveFirst(@, c), !.call = Mark(@, c, "assigned"),
                   !.sessions = Append(@, Session(k, c))]
    [] own = {} /\ ~Room(p.sessions) ->
         IF Idle(p.sessions) = {} THEN p
         ELSE [p EXCEPT !.sessions[First(Idle(p.sessions))].closing = TRUE]

Pass(p, q) ==
  LET after[n \in 0..Len(q)] == IF n = 0 THEN p ELSE Consider(after[n - 1], q[n]) IN after

Pumped(cs, q, ss) ==
  LET p == [call |-> cs, queue |-> q, sessions |-> ss] IN
  IF poolClosed THEN p ELSE Pass(p, q)[Len(q)]

Becomes(p) == call' = p.call /\ queue' = p.queue /\ sessions' = p.sessions

(* cancel: nothing for a call that is done.  A queued call is rejected at    *)
(* once; an assigned one when the stop of its session has ended.             *)
MutantTimerKept(c) == call[c].state \in {"queued", "assigned", "resolved"}
Cancellable(c) == call[c].state \in {"queued", "assigned"}

SessionOf(c) == {i \in DOMAIN sessions : sessions[i].job = <<c>>}

CancelledState(c) == IF SessionOf(c) = {} THEN "rejected" ELSE "stopping"

Cancelled(c) ==
  /\ Cancellable(c)
  /\ IF SessionOf(c) = {}
       THEN Becomes(Pumped(Mark(call, c, CancelledState(c)), RemoveFirst(queue, c), sessions))
       ELSE /\ call' = Mark(call, c, CancelledState(c))
            /\ sessions' = [i \in DOMAIN sessions |->
                              [sessions[i] EXCEPT !.closing = @ \/ i \in SessionOf(c)]]
            /\ UNCHANGED queue
  /\ UNCHANGED poolClosed

--------------------------------------------------------------------------------
(* request: refused when closed or full, else queued and pumped.             *)
QueueFull == Len(queue) >= MaxQueue

Request(c) ==
  /\ call[c].state = "new"
  /\ IF poolClosed \/ QueueFull
       THEN call' = Mark(call, c, "rejected") /\ UNCHANGED <<queue, sessions>>
       ELSE Becomes(Pumped(Mark(call, c, "queued"), Append(queue, c), sessions))
  /\ UNCHANGED poolClosed

(* The timer of the call, or the caller's abort signal.                      *)
TimeOut(c) == Cancelled(c)

(* start: the child is forked unless the session was closed meanwhile.       *)
Start(i) ==
  /\ sessions[i].phase = "starting"
  /\ sessions' = [sessions EXCEPT ![i].phase = IF sessions[i].closing THEN "gone" ELSE "running"]
  /\ UNCHANGED <<call, queue, poolClosed>>

StartFails(i) ==
  /\ sessions[i].phase = "starting"
  /\ LET c == sessions[i].job[1]
         failed == [sessions EXCEPT ![i].phase = "gone", ![i].closing = TRUE] IN
     /\ sessions' = failed
     /\ call' = IF Cancellable(c) THEN Mark(call, c, "stopping") ELSE call
  /\ UNCHANGED <<queue, poolClosed>>

(* dispatch, after initialized: nothing for a closing session.               *)
Dispatch(i) ==
  /\ sessions[i].phase = "running" /\ ~sessions[i].closing
  /\ sessions[i].job # NoCall /\ ~sessions[i].sent
  /\ sessions' = [sessions EXCEPT ![i].sent = TRUE]
  /\ UNCHANGED <<call, queue, poolClosed>>

Answering(i) ==
  /\ sessions[i].phase = "running" /\ ~sessions[i].closing
  /\ sessions[i].job # NoCall /\ sessions[i].sent

(* receive: a valid answer settles the call, frees the session and pumps.    *)
MutantNoPump(cs, q, ss) == [call |-> cs, queue |-> q, sessions |-> ss]
AfterAnswer(cs, q, ss) == Pumped(cs, q, ss)

Receive(i) ==
  /\ Answering(i)
  /\ Becomes(AfterAnswer(Mark(call, sessions[i].job[1], "resolved"), queue,
                         [sessions EXCEPT ![i].job = NoCall, ![i].sent = FALSE]))
  /\ UNCHANGED poolClosed

(* A refusal, an invalid answer, or a message that could not be sent.        *)
Refuse(i) == Answering(i) /\ Cancelled(sessions[i].job[1])

(* The child exits by itself: its call is cancelled, or the session stops.   *)
Exit(i) ==
  /\ sessions[i].phase = "running"
  /\ sessions' = [sessions EXCEPT ![i].phase = "gone", ![i].closing = TRUE]
  /\ call' = IF ~sessions[i].closing /\ sessions[i].job # NoCall
               THEN Mark(call, sessions[i].job[1], "stopping") ELSE call
  /\ UNCHANGED <<queue, poolClosed>>

(* The idle timer, which an assignment clears.                               *)
IdleTimer(i) ==
  /\ i \in Idle(sessions)
  /\ sessions' = [sessions EXCEPT ![i].closing = TRUE]
  /\ UNCHANGED <<call, queue, poolClosed>>

(* stop: kill, wait for the exit, drop the session, pump; then the call that *)
(* was cancelled is rejected.                                                *)
Kill(i) ==
  /\ sessions[i].closing /\ sessions[i].phase = "running"
  /\ sessions' = [sessions EXCEPT ![i].phase = "gone"]
  /\ UNCHANGED <<call, queue, poolClosed>>

AwaitsStop(c) == c # NoCall /\ call[c[1]].state = "stopping"

Stopped(i) ==
  /\ sessions[i].closing /\ sessions[i].phase = "gone"
  /\ LET c == sessions[i].job
         settled == IF AwaitsStop(c) THEN Mark(call, c[1], "rejected") ELSE call IN
     Becomes(Pumped(settled, queue, RemoveAt(sessions, i)))
  /\ UNCHANGED poolClosed

(* close: every queued call is rejected, every session stopped.              *)
ClosePool ==
  /\ ~poolClosed
  /\ poolClosed' = TRUE
  /\ queue' = <<>>
  /\ sessions' = [i \in DOMAIN sessions |-> [sessions[i] EXCEPT !.closing = TRUE]]
  /\ call' = [c \in Calls |-> [call[c] EXCEPT !.state =
                CASE @ = "queued" -> "rejected" [] @ = "assigned" -> "stopping" [] OTHER -> @]]

SessionStep(i) ==
  \/ Start(i) \/ StartFails(i) \/ Dispatch(i) \/ Receive(i) \/ Refuse(i)
  \/ Exit(i) \/ IdleTimer(i) \/ Kill(i) \/ Stopped(i)

PoolNext ==
  \/ \E c \in Calls : Request(c) \/ TimeOut(c)
  \/ \E i \in DOMAIN sessions : SessionStep(i)
  \/ ClosePool

PoolSpec == PoolInit /\ [][PoolNext]_poolVars

(* The timer of each call fires, and the operating system starts, kills and  *)
(* reaps each process.                                                       *)
OfKey(k, Step(_)) == \E i \in Serving(sessions, k) : Step(i)
PoolFairness ==
  /\ \A c \in Calls : WF_poolVars(TimeOut(c))
  /\ \A k \in ModelKeys : WF_poolVars(OfKey(k, Start)) /\ WF_poolVars(OfKey(k, Kill))
                          /\ WF_poolVars(OfKey(k, Stopped))

--------------------------------------------------------------------------------
(* At most MaxWorkers sessions, the ones that are stopping included, no two  *)
(* of them for one configuration, and at most MaxQueue waiting calls.        *)
PoolTypeOK ==
  /\ call \in [Calls -> [key : ModelKeys, state : CallStates]]
  /\ queue \in Seq(Calls)
  /\ sessions \in Seq([key : ModelKeys, job : {NoCall} \cup {<<c>> : c \in Calls},
                       phase : {"starting", "running", "gone"}, sent : BOOLEAN, closing : BOOLEAN])
  /\ poolClosed \in BOOLEAN
  /\ Len(sessions) <= MaxWorkers /\ Len(queue) <= MaxQueue
  /\ \A i, j \in DOMAIN sessions : sessions[i].key = sessions[j].key => i = j

(* No wake-up is lost: a call waits only while a session of its own          *)
(* configuration is busy or stopping, or, with no room, while some session   *)
(* stops or none is idle.  Each of these ends in a pump.                     *)
NoLostWakeup ==
  ~poolClosed => \A q \in DOMAIN queue :
    LET own == Serving(sessions, call[queue[q]].key) IN
    \/ own # {} /\ own \cap Idle(sessions) = {}
    \/ /\ own = {} /\ ~Room(sessions)
       /\ Idle(sessions) = {} \/ \E i \in DOMAIN sessions : sessions[i].closing

(* A call is answered once: a late answer, timer or exit changes nothing.    *)
SettledOnce ==
  [][\A c \in Calls : call[c].state \in Settled => call'[c] = call[c]]_poolVars

(* When a call is rejected nothing works on it any more: its process has     *)
(* gone, and no queue entry or session names it.                             *)
RejectedIsStopped ==
  \A c \in Calls : call[c].state = "rejected" =>
    SessionOf(c) = {} /\ \A q \in DOMAIN queue : queue[q] # c

(* Each session serves the call that was assigned to it and no other one.    *)
AssignedIsServed ==
  \A c \in Calls : call[c].state \in {"assigned", "stopping"} =>
    \E i \in DOMAIN sessions : sessions[i].job = <<c>> /\ sessions[i].key = call[c].key

(* Every call that was made ends, under the timers of the calls and of the   *)
(* sessions: the operating system starts, kills and reaps processes.         *)
CallsSettle == \A c \in Calls : call[c].state # "new" ~> call[c].state \in Settled

(* Whoever waits will be served, by one session, and nobody works for a call *)
(* that was rejected.                                                        *)
PoolServes == NoLostWakeup /\ RejectedIsStopped /\ AssignedIsServed

(* Each call is answered once: in the end, and not again.                    *)
AnsweredOnce == SettledOnce /\ CallsSettle
================================================================================
