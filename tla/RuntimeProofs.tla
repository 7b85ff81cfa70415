----------------------------- MODULE RuntimeProofs ------------------------------
(***************************************************************************)
(* Proofs about the pool of model processes, the work on artifacts and the *)
(* handlers of the queue, for any number of calls, configurations, workers *)
(* and artifacts, and about the suite in which they run side by side.      *)
(***************************************************************************)
EXTENDS RuntimeSuite, JobQueueProofs, FiniteSetTheorems, SequenceTheorems, WellFoundedInduction

---------------------------------------------------------------------------
(* Sequences and numbers                                                   *)

(* Numbers have a first one.                                               *)
LEMMA LeastIs ==
  ASSUME NEW S \in SUBSET Nat, S # {}
  PROVE  \E m \in S : \A n \in S : m <= n
<1>1. PICK m \in S : \A n \in S : ~(<<n, m>> \in OpToRel(<, Nat))
  BY NatLessThanWellFounded, WFMin
<1>2. \A n \in S : ~(n < m)
  BY <1>1 DEF OpToRel
<1> QED
  BY <1>2

LEMMA FirstIs ==
  ASSUME NEW S \in SUBSET Nat, S # {}
  PROVE  First(S) \in S /\ \A n \in S : First(S) <= n
BY LeastIs DEF First

LEMMA Removing ==
  ASSUME NEW T, NEW s \in Seq(T), NEW i \in DOMAIN s, NEW t, t = RemoveAt(s, i)
  PROVE  /\ t \in Seq(T) /\ Len(t) = Len(s) - 1
         /\ \A j \in DOMAIN t : t[j] = s[IF j < i THEN j ELSE j + 1]
<1>1. i \in Nat /\ 1 <= i /\ i <= Len(s) /\ Len(s) \in Nat
  OBVIOUS
<1>2. PICK a : a = SubSeq(s, 1, i - 1)
  OBVIOUS
<1>3. PICK b : b = SubSeq(s, i + 1, Len(s))
  OBVIOUS
<1>4. a \in Seq(T) /\ Len(a) = i - 1 /\ \A j \in 1..(i - 1) : a[j] = s[j]
  BY <1>1, <1>2, SubSeqProperties
<1>5. b \in Seq(T) /\ Len(b) = Len(s) - i /\ \A j \in 1..(Len(s) - i) : b[j] = s[i + j]
  BY <1>1, <1>3, SubSeqProperties
<1>6. t = a \o b
  BY <1>2, <1>3 DEF RemoveAt
<1>7. t \in Seq(T) /\ Len(t) = Len(a) + Len(b)
      /\ \A j \in 1..(Len(a) + Len(b)) : t[j] = IF j <= Len(a) THEN a[j] ELSE b[j - Len(a)]
  <2>1. a \in Seq(T) /\ b \in Seq(T)
    BY <1>4, <1>5
  <2>2. /\ a \o b \in Seq(T) /\ Len(a \o b) = Len(a) + Len(b)
        /\ \A j \in 1..(Len(a) + Len(b)) : (a \o b)[j] = IF j <= Len(a) THEN a[j] ELSE b[j - Len(a)]
    BY <2>1, ConcatProperties
  <2> QED
    BY <1>6, <2>2
<1>8. Len(t) = Len(s) - 1 /\ DOMAIN t = 1..(Len(s) - 1)
  BY <1>1, <1>4, <1>5, <1>7
<1>9. ASSUME NEW j \in DOMAIN t PROVE t[j] = s[IF j < i THEN j ELSE j + 1]
  <2>1. j \in 1..(Len(s) - 1)
    BY <1>8, <1>9
  <2>2. CASE j < i
    BY <1>1, <1>4, <1>5, <1>7, <2>1, <2>2
  <2>3. CASE ~(j < i)
    <3>0. i - 1 < j /\ j \in 1..(Len(a) + Len(b)) /\ Len(a) = i - 1
      BY <1>1, <1>4, <1>5, <2>1, <2>3
    <3>1. j - (i - 1) \in 1..(Len(s) - i) /\ t[j] = b[j - (i - 1)]
      <4>1. t[j] = IF j <= Len(a) THEN a[j] ELSE b[j - Len(a)]
        BY <1>7, <3>0
      <4>2. ~(j <= Len(a)) /\ j - (i - 1) \in 1..(Len(s) - i)
        BY <1>1, <2>1, <3>0
      <4> QED
        BY <3>0, <4>1, <4>2
    <3>2. b[j - (i - 1)] = s[i + (j - (i - 1))]
      BY <1>5, <3>1
    <3>3. i + (j - (i - 1)) = j + 1
      BY <1>1, <2>1
    <3> QED
      BY <2>3, <3>1, <3>2, <3>3
  <2> QED
    BY <2>2, <2>3
<1> QED
  BY <1>7, <1>8, <1>9

LEMMA Changing ==
  ASSUME NEW T, NEW s \in Seq(T), NEW i \in DOMAIN s, NEW x \in T, NEW t, t = [s EXCEPT ![i] = x]
  PROVE  /\ t \in Seq(T) /\ Len(t) = Len(s) /\ DOMAIN t = DOMAIN s /\ t[i] = x
         /\ \A j \in DOMAIN s : j # i => t[j] = s[j]
<1>1. i \in 1..Len(s)
  OBVIOUS
<1> QED
  BY <1>1, ExceptSeq

LEMMA SomeCall == \A c : <<c>> # NoCall
BY DEF NoCall

InQueue(q, c) == \E n \in DOMAIN q : q[n] = c
Distinct(q) == \A m, n \in DOMAIN q : q[m] = q[n] => m = n

(* A queued call is taken out of the queue, the others stay.               *)
LEMMA Unqueueing ==
  ASSUME NEW q \in Seq(Calls), Distinct(q), NEW c, InQueue(q, c), NEW r, r = RemoveFirst(q, c)
  PROVE  /\ r \in Seq(Calls) /\ Distinct(r) /\ Len(r) <= Len(q)
         /\ \A d : InQueue(r, d) <=> InQueue(q, d) /\ d # c
<1>1. PICK i \in DOMAIN q : q[i] = c
  BY DEF InQueue
<1>2. {n \in 1..Len(q) : q[n] = c} = {i}
  BY <1>1 DEF Distinct
<1>3. Min({i}) = i
  BY DEF Min
<1>4. SelectInSeq(q, LAMBDA v : v = c) = i
  BY <1>2, <1>3 DEF SelectInSeq
<1>5. r = RemoveAt(q, i)
  BY <1>1, <1>4 DEF RemoveFirst
<1>6. r \in Seq(Calls) /\ Len(r) = Len(q) - 1 /\ \A j \in DOMAIN r : r[j] = q[IF j < i THEN j ELSE j + 1]
  BY <1>5, Removing
<1>7. Distinct(r)
  <2> SUFFICES ASSUME NEW m \in DOMAIN r, NEW n \in DOMAIN r, r[m] = r[n] PROVE m = n
    BY DEF Distinct
  <2>1. m \in 1..(Len(q) - 1) /\ n \in 1..(Len(q) - 1) /\ i \in 1..Len(q) /\ Len(q) \in Nat
    BY <1>6
  <2>2. q[IF m < i THEN m ELSE m + 1] = q[IF n < i THEN n ELSE n + 1]
    BY <1>6
  <2>3. (IF m < i THEN m ELSE m + 1) = (IF n < i THEN n ELSE n + 1)
    <3>1. (IF m < i THEN m ELSE m + 1) \in DOMAIN q /\ (IF n < i THEN n ELSE n + 1) \in DOMAIN q
      BY <2>1
    <3> QED
      BY <2>2, <3>1 DEF Distinct
  <2> QED
    BY <2>1, <2>3
<1>8. ASSUME NEW d, InQueue(r, d) PROVE InQueue(q, d) /\ d # c
  BY <1>1, <1>6, <1>8 DEF Distinct, InQueue
<1>9. ASSUME NEW d, InQueue(q, d), d # c PROVE InQueue(r, d)
  <2>1. PICK n \in DOMAIN q : q[n] = d
    BY <1>9 DEF InQueue
  <2>2. n # i
    BY <1>1, <1>9, <2>1
  <2>3. PICK j : j = IF n < i THEN n ELSE n - 1
    OBVIOUS
  <2>4. j \in DOMAIN r /\ r[j] = d
    BY <1>6, <2>1, <2>2, <2>3
  <2> QED
    BY <2>4 DEF InQueue
<1> QED
  BY <1>6, <1>7, <1>8, <1>9

---------------------------------------------------------------------------
(* The pool of model processes                                             *)

CallRows == [key : ModelKeys, state : CallStates]
SessionRows == [key : ModelKeys, job : {NoCall} \cup {<<c>> : c \in Calls},
                phase : {"starting", "running", "gone"}, sent : BOOLEAN, closing : BOOLEAN]

(* The queue holds each call that waits, once.                             *)
QueueFits(cs, q) ==
  /\ q \in Seq(Calls) /\ Distinct(q)
  /\ \A c \in Calls : InQueue(q, c) <=> cs[c].state = "queued"

(* A session is the only one of its key, and the call that it serves is    *)
(* assigned until the session is stopped, and stopping from then on.       *)
Serves(cs, s, c) ==
  /\ s.key = cs[c].key
  /\ s.closing => cs[c].state = "stopping"
  /\ ~s.closing => cs[c].state = "assigned"

OneEach(ss) == \A i, j \in DOMAIN ss : ss[i].key = ss[j].key => i = j
PhaseFits(s) == (s.phase = "gone" => s.closing) /\ (s.phase = "starting" => s.job # NoCall)
JobsServed(cs, ss) == \A i \in DOMAIN ss, c \in Calls : ss[i].job = <<c>> => Serves(cs, ss[i], c)
CallsServed(cs, ss) ==
  \A c \in Calls : cs[c].state \in {"assigned", "stopping"} => \E i \in DOMAIN ss : ss[i].job = <<c>>

SessionsFit(cs, ss) ==
  /\ ss \in Seq(SessionRows) /\ Len(ss) <= MaxWorkers
  /\ OneEach(ss) /\ \A i \in DOMAIN ss : PhaseFits(ss[i])
  /\ JobsServed(cs, ss) /\ CallsServed(cs, ss)

PoolFits(cs, q, ss) == cs \in [Calls -> CallRows] /\ QueueFits(cs, q) /\ SessionsFit(cs, ss)

(* What a call waits for: its own session to be free or gone, or room.     *)
Waits(k, ss) ==
  \/ Serving(ss, k) # {} /\ Serving(ss, k) \cap Idle(ss) = {}
  \/ /\ Serving(ss, k) = {} /\ ~Room(ss)
     /\ Idle(ss) = {} \/ \E i \in DOMAIN ss : ss[i].closing

(* The pass looks at one call: it takes it out of the queue or leaves it   *)
(* waiting, and whoever waits already goes on waiting.                     *)
LEMMA ConsiderStep ==
  ASSUME NEW cs, NEW q, NEW ss, PoolFits(cs, q, ss), NEW c \in Calls, cs[c].state = "queued",
         NEW r, r = Consider([call |-> cs, queue |-> q, sessions |-> ss], c)
  PROVE  /\ r = [call |-> r.call, queue |-> r.queue, sessions |-> r.sessions]
         /\ PoolFits(r.call, r.queue, r.sessions)
         /\ Len(r.queue) <= Len(q)
         /\ \A d \in Calls : r.call[d].key = cs[d].key /\ (d # c => r.call[d] = cs[d])
         /\ r.call[c].state = "queued" => Waits(cs[c].key, r.sessions)
         /\ \A k \in ModelKeys : Waits(k, ss) => Waits(k, r.sessions)
<1> DEFINE k == cs[c].key
           own == Serving(ss, k)
<1>1. /\ cs \in [Calls -> CallRows] /\ k \in ModelKeys /\ ss \in Seq(SessionRows) /\ Len(ss) \in Nat
      /\ DOMAIN ss = 1..Len(ss) /\ q \in Seq(Calls) /\ Distinct(q) /\ InQueue(q, c) /\ Len(q) \in Nat
  BY DEF PoolFits, QueueFits, SessionsFit, CallRows
<1>2. \A i, j \in DOMAIN ss : ss[i].key = ss[j].key => i = j
  BY DEF PoolFits, SessionsFit, OneEach
<1>0. /\ \A i \in DOMAIN ss : PhaseFits(ss[i])
      /\ \A i \in DOMAIN ss, d \in Calls : ss[i].job = <<d>> => Serves(cs, ss[i], d)
      /\ \A d \in Calls : cs[d].state \in {"assigned", "stopping"} => \E i \in DOMAIN ss : ss[i].job = <<d>>
      /\ Len(ss) <= MaxWorkers
  BY DEF PoolFits, SessionsFit, JobsServed, CallsServed
<1>3. \A i \in DOMAIN ss : ss[i] \in SessionRows
  BY <1>1
<1>4. own \subseteq DOMAIN ss /\ Idle(ss) \subseteq DOMAIN ss /\ \A i, j \in own : i = j
  BY <1>2 DEF Serving, Idle
(* The call is taken: it leaves the queue and a session has it.            *)
<1>5. ASSUME NEW n, n = [cs EXCEPT ![c].state = "assigned"], NEW p, p = RemoveFirst(q, c)
      PROVE  /\ n \in [Calls -> CallRows] /\ QueueFits(n, p) /\ Len(p) <= Len(q)
             /\ \A d \in Calls : n[d].key = cs[d].key /\ (d # c => n[d] = cs[d])
             /\ n[c].state = "assigned"
  <2>1. n \in [Calls -> CallRows]
    BY <1>1, <1>5 DEF CallRows, CallStates
  <2>2. n[c].state = "assigned" /\ \A d \in Calls : n[d].key = cs[d].key /\ (d # c => n[d] = cs[d])
    BY <1>1, <1>5 DEF CallRows
  <2>3. p \in Seq(Calls) /\ Distinct(p) /\ Len(p) <= Len(q)
        /\ \A d : InQueue(p, d) <=> InQueue(q, d) /\ d # c
    BY <1>1, <1>5, Unqueueing
  <2> QED
    BY <2>1, <2>2, <2>3 DEF PoolFits, QueueFits
<1>6. CASE own # {} /\ own \subseteq Idle(ss)
  <2>1. PICK i : i = First(own)
    OBVIOUS
  <2>2. i \in own /\ own = {i} /\ i \in DOMAIN ss
    <3>1. own \in SUBSET Nat
      BY <1>1, <1>4
    <3> QED
      BY <1>4, <1>6, <2>1, <3>1, FirstIs
  <2>3. r = [call |-> [cs EXCEPT ![c].state = "assigned"], queue |-> RemoveFirst(q, c),
             sessions |-> [ss EXCEPT ![i].job = <<c>>, ![i].sent = FALSE]]
    BY <1>6, <2>1 DEF Consider, Mark
  <2>4. PICK t : t = [ss EXCEPT ![i].job = <<c>>, ![i].sent = FALSE]
    OBVIOUS
  <2>5. /\ t \in Seq(SessionRows) /\ Len(t) = Len(ss) /\ DOMAIN t = DOMAIN ss
        /\ \A j \in DOMAIN ss : j # i => t[j] = ss[j]
        /\ t[i].key = k /\ t[i].job = <<c>> /\ t[i].phase = ss[i].phase /\ t[i].closing = ss[i].closing
        /\ ~ss[i].closing /\ ss[i].job = NoCall /\ ss[i].key = k
    <3>1. t[i] = [ss[i] EXCEPT !.job = <<c>>, !.sent = FALSE]
      BY <1>1, <1>3, <2>2, <2>4 DEF SessionRows
    <3>2. t[i] \in SessionRows
      BY <1>3, <2>2, <3>1 DEF SessionRows
    <3>3. DOMAIN t = DOMAIN ss /\ \A j \in DOMAIN ss : j # i => t[j] = ss[j]
      BY <1>1, <2>4
    <3>4. t \in Seq(SessionRows) /\ Len(t) = Len(ss)
      <4>1. t = [ss EXCEPT ![i] = t[i]]
        BY <1>1, <2>2, <2>4
      <4> QED
        BY <2>2, <1>1, <3>2, <4>1, Changing
    <3>5. ss[i].key = k /\ ~ss[i].closing /\ ss[i].job = NoCall
      BY <1>6, <2>2 DEF Serving, Idle
    <3> QED
      BY <1>3, <2>2, <3>1, <3>3, <3>4, <3>5 DEF SessionRows
  <2>6. PICK n : n = [cs EXCEPT ![c].state = "assigned"]
    OBVIOUS
  <2>7. PICK p : p = RemoveFirst(q, c)
    OBVIOUS
  <2>8. r = [call |-> n, queue |-> p, sessions |-> t]
    BY <2>3, <2>4, <2>6, <2>7
  <2>9. /\ n \in [Calls -> CallRows] /\ QueueFits(n, p) /\ Len(p) <= Len(q)
        /\ \A d \in Calls : n[d].key = cs[d].key /\ (d # c => n[d] = cs[d])
        /\ n[c].state = "assigned"
    BY <1>5, <2>6, <2>7
  <2>10. SessionsFit(n, t)
    <3>2. n[c].state = "assigned" /\ n[c].key = k
          /\ \A d \in Calls : n[d].key = cs[d].key /\ (d # c => n[d] = cs[d])
      BY <2>9
    <3>3. OneEach(t)
      BY <1>2, <2>2, <2>5 DEF OneEach
    <3>4. \A j \in DOMAIN t : PhaseFits(t[j])
      BY <1>0, <2>2, <2>5, SomeCall DEF PhaseFits
    <3>5. ASSUME NEW j \in DOMAIN t, NEW d \in Calls, t[j].job = <<d>>
          PROVE  Serves(n, t[j], d)
      <4> USE DEF Serves
      <4>1. CASE j = i
        <5>1. d = c
          BY <2>5, <3>5, <4>1
        <5> QED
          BY <2>5, <3>2, <4>1, <5>1
      <4>2. CASE j # i
        <5>1. /\ ss[j].key = cs[d].key
              /\ ss[j].closing => cs[d].state = "stopping"
              /\ ~ss[j].closing => cs[d].state = "assigned"
          BY <1>0, <2>5, <3>5, <4>2
        <5>2. d # c
          BY <5>1
        <5> QED
          BY <2>5, <3>2, <4>2, <5>1, <5>2
      <4> QED
        BY <4>1, <4>2
    <3>6. ASSUME NEW d \in Calls, n[d].state \in {"assigned", "stopping"}
          PROVE  \E j \in DOMAIN t : t[j].job = <<d>>
      <4>1. CASE d = c
        BY <2>2, <2>5, <4>1
      <4>2. CASE d # c
        <5>1. PICK j \in DOMAIN ss : ss[j].job = <<d>>
          BY <1>0, <3>2, <3>6, <4>2
        <5>2. j # i
          BY <2>5, <5>1, SomeCall
        <5> QED
          BY <2>5, <5>1, <5>2
      <4> QED
        BY <4>1, <4>2
    <3>7. Len(t) <= MaxWorkers
      BY <1>0, <2>5
    <3>8. JobsServed(n, t)
      BY <3>5 DEF JobsServed
    <3>9. CallsServed(n, t)
      BY <3>6 DEF CallsServed
    <3> QED
      BY <2>5, <3>3, <3>4, <3>7, <3>8, <3>9 DEF SessionsFit
  <2>11. \A l \in ModelKeys : Waits(l, ss) => Waits(l, t)
    <3>1. \A l : Serving(t, l) = Serving(ss, l)
      BY <2>2, <2>5 DEF Serving
    <3>2. Idle(t) \subseteq Idle(ss) /\ Idle(ss) # {}
      BY <1>6, <2>2, <2>5 DEF Idle
    <3>3. Room(t) = Room(ss) /\ ((\E j \in DOMAIN ss : ss[j].closing) => \E j \in DOMAIN t : t[j].closing)
      BY <2>2, <2>5 DEF Room
    <3> QED
      BY <3>1, <3>2, <3>3 DEF Waits
  <2>12. r.call = n /\ r.queue = p /\ r.sessions = t
    BY <2>8
  <2>13. PoolFits(n, p, t)
    BY <2>9, <2>10 DEF PoolFits
  <2> QED
    BY <2>8, <2>9, <2>11, <2>12, <2>13
<1>7. CASE own # {} /\ ~(own \subseteq Idle(ss))
  <2>1. r = [call |-> cs, queue |-> q, sessions |-> ss]
    BY <1>7 DEF Consider
  <2>2. Waits(k, ss)
    BY <1>4, <1>7 DEF Waits
  <2> QED
    BY <1>1, <2>1, <2>2
<1>8. CASE own = {} /\ Room(ss)
  <2>1. r = [call |-> [cs EXCEPT ![c].state = "assigned"], queue |-> RemoveFirst(q, c),
             sessions |-> Append(ss, Session(k, c))]
    BY <1>8 DEF Consider, Mark
  <2>2. PICK t : t = Append(ss, Session(k, c))
    OBVIOUS
  <2>3. Session(k, c) \in SessionRows /\ Session(k, c).key = k /\ Session(k, c).job = <<c>>
        /\ Session(k, c).phase = "starting" /\ Session(k, c).closing = FALSE
    BY <1>1 DEF Session, SessionRows
  <2>4. /\ t \in Seq(SessionRows) /\ Len(t) = Len(ss) + 1 /\ DOMAIN t = 1..(Len(ss) + 1)
        /\ \A j \in DOMAIN ss : t[j] = ss[j]
        /\ t[Len(ss) + 1] = Session(k, c)
    BY <1>1, <2>2, <2>3
  <2>5. PICK n : n = [cs EXCEPT ![c].state = "assigned"]
    OBVIOUS
  <2>6. PICK p : p = RemoveFirst(q, c)
    OBVIOUS
  <2>7. r = [call |-> n, queue |-> p, sessions |-> t]
    BY <2>1, <2>2, <2>5, <2>6
  <2>8. /\ n \in [Calls -> CallRows] /\ QueueFits(n, p) /\ Len(p) <= Len(q)
        /\ \A d \in Calls : n[d].key = cs[d].key /\ (d # c => n[d] = cs[d])
        /\ n[c].state = "assigned"
    BY <1>5, <2>5, <2>6
  <2>9. SessionsFit(n, t)
    <3>2. n[c].state = "assigned" /\ n[c].key = k
          /\ \A d \in Calls : n[d].key = cs[d].key /\ (d # c => n[d] = cs[d])
      BY <2>8
    <3>3. \A j \in DOMAIN ss : ss[j].key # k
      BY <1>8 DEF Serving
    <3>4. OneEach(t)
      <4> SUFFICES ASSUME NEW j \in DOMAIN t, NEW l \in DOMAIN t, t[j].key = t[l].key PROVE j = l
        BY DEF OneEach
      <4>1. \A m \in DOMAIN t : (m \in DOMAIN ss /\ t[m].key = ss[m].key) \/ (m = Len(ss) + 1 /\ t[m].key = k)
        BY <1>1, <2>3, <2>4
      <4> QED
        BY <1>2, <3>3, <4>1
    <3>5. \A j \in DOMAIN t : PhaseFits(t[j])
      <4> SUFFICES ASSUME NEW j \in DOMAIN t PROVE PhaseFits(t[j])
        OBVIOUS
      <4>1. CASE j \in DOMAIN ss
        BY <1>0, <2>4, <4>1
      <4>2. CASE j = Len(ss) + 1
        BY <2>3, <2>4, <4>2, SomeCall DEF PhaseFits
      <4> QED
        BY <1>1, <2>4, <4>1, <4>2
    <3>6. ASSUME NEW j \in DOMAIN t, NEW d \in Calls, t[j].job = <<d>>
          PROVE  Serves(n, t[j], d)
      <4> USE DEF Serves
      <4>1. CASE j = Len(ss) + 1
        <5>1. d = c
          BY <2>3, <2>4, <3>6, <4>1
        <5> QED
          BY <2>3, <2>4, <3>2, <4>1, <5>1
      <4>2. CASE j \in DOMAIN ss
        <5>1. /\ ss[j].key = cs[d].key
              /\ ss[j].closing => cs[d].state = "stopping"
              /\ ~ss[j].closing => cs[d].state = "assigned"
          BY <1>0, <2>4, <3>6, <4>2
        <5>2. d # c
          BY <5>1
        <5> QED
          BY <2>4, <3>2, <4>2, <5>1, <5>2
      <4> QED
        BY <1>1, <2>4, <4>1, <4>2
    <3>7. ASSUME NEW d \in Calls, n[d].state \in {"assigned", "stopping"}
          PROVE  \E j \in DOMAIN t : t[j].job = <<d>>
      <4>1. CASE d = c
        BY <1>1, <2>3, <2>4, <4>1
      <4>2. CASE d # c
        <5>1. PICK j \in DOMAIN ss : ss[j].job = <<d>>
          BY <1>0, <3>2, <3>7, <4>2
        <5> QED
          BY <1>1, <2>4, <5>1
      <4> QED
        BY <4>1, <4>2
    <3>8. Len(t) <= MaxWorkers
      BY <1>1, <1>8, <2>4, PoolAssumption DEF Room
    <3>9. JobsServed(n, t)
      BY <3>6 DEF JobsServed
    <3>10. CallsServed(n, t)
      BY <3>7 DEF CallsServed
    <3> QED
      BY <2>4, <3>4, <3>5, <3>8, <3>9, <3>10 DEF SessionsFit
  <2>10. \A l \in ModelKeys : Waits(l, ss) => Waits(l, t)
    <3> SUFFICES ASSUME NEW l \in ModelKeys, Waits(l, ss) PROVE Waits(l, t)
      OBVIOUS
    <3>1. Serving(ss, l) # {} /\ Serving(ss, l) \cap Idle(ss) = {} /\ l # k
      BY <1>8 DEF Waits
    <3>2. Serving(t, l) = Serving(ss, l)
      BY <1>1, <2>3, <2>4, <3>1 DEF Serving
    <3>3. Idle(t) = Idle(ss)
      <4>1. Len(ss) + 1 \notin Idle(t)
        BY <2>3, <2>4, SomeCall DEF Idle
      <4> QED
        BY <1>1, <2>4, <4>1 DEF Idle
    <3> QED
      BY <3>1, <3>2, <3>3 DEF Waits
  <2>11. r.call = n /\ r.queue = p /\ r.sessions = t
    BY <2>7
  <2>12. PoolFits(n, p, t)
    BY <2>8, <2>9 DEF PoolFits
  <2> QED
    BY <2>7, <2>8, <2>10, <2>11, <2>12
<1>9. CASE own = {} /\ ~Room(ss) /\ Idle(ss) = {}
  <2>1. r = [call |-> cs, queue |-> q, sessions |-> ss]
    BY <1>9 DEF Consider
  <2>2. Waits(k, ss)
    BY <1>9 DEF Waits
  <2> QED
    BY <1>1, <2>1, <2>2
<1>10. CASE own = {} /\ ~Room(ss) /\ Idle(ss) # {}
  <2>1. PICK i : i = First(Idle(ss))
    OBVIOUS
  <2>2. i \in Idle(ss) /\ i \in DOMAIN ss
    <3>1. Idle(ss) \in SUBSET Nat
      BY <1>1, <1>4
    <3> QED
      BY <1>4, <1>10, <2>1, <3>1, FirstIs
  <2>3. r = [call |-> cs, queue |-> q, sessions |-> [ss EXCEPT ![i].closing = TRUE]]
    BY <1>10, <2>1 DEF Consider
  <2>4. PICK t : t = [ss EXCEPT ![i].closing = TRUE]
    OBVIOUS
  <2>5. /\ t \in Seq(SessionRows) /\ Len(t) = Len(ss) /\ DOMAIN t = DOMAIN ss
        /\ \A j \in DOMAIN ss : /\ t[j].key = ss[j].key /\ t[j].job = ss[j].job /\ t[j].phase = ss[j].phase
                                /\ j # i => t[j] = ss[j]
        /\ t[i].closing = TRUE /\ ss[i].job = NoCall
    <3>1. t[i] = [ss[i] EXCEPT !.closing = TRUE] /\ DOMAIN t = DOMAIN ss
          /\ \A j \in DOMAIN ss : j # i => t[j] = ss[j]
      BY <1>1, <2>2, <2>4
    <3>2. t[i] \in SessionRows /\ t[i].key = ss[i].key /\ t[i].job = ss[i].job /\ t[i].phase = ss[i].phase
          /\ t[i].closing = TRUE
      BY <1>3, <2>2, <3>1 DEF SessionRows
    <3>3. t = [ss EXCEPT ![i] = t[i]]
      BY <1>1, <2>2, <2>4
    <3>4. t \in Seq(SessionRows) /\ Len(t) = Len(ss)
      <4>1. PICK x \in SessionRows : x = t[i]
        BY <3>2
      <4>2. t = [ss EXCEPT ![i] = x]
        BY <3>3, <4>1
      <4> QED
        BY <1>1, <2>2, <4>1, <4>2, Changing
    <3>5. ss[i].job = NoCall
      BY <2>2 DEF Idle
    <3> QED
      BY <3>1, <3>2, <3>4, <3>5
  <2>6. SessionsFit(cs, t)
    <3>1. OneEach(t)
      BY <1>2, <2>5 DEF OneEach
    <3>2. \A j \in DOMAIN t : PhaseFits(t[j])
      <4> SUFFICES ASSUME NEW j \in DOMAIN t PROVE PhaseFits(t[j])
        OBVIOUS
      <4>1. PhaseFits(ss[j])
        BY <1>0, <2>5
      <4>2. CASE j = i
        BY <2>5, <4>1, <4>2 DEF PhaseFits
      <4>3. CASE j # i
        BY <2>5, <4>1, <4>3
      <4> QED
        BY <4>2, <4>3
    <3>3. JobsServed(cs, t)
      <4> SUFFICES ASSUME NEW j \in DOMAIN t, NEW d \in Calls, t[j].job = <<d>>
                   PROVE  Serves(cs, t[j], d)
        BY DEF JobsServed
      <4>1. j # i
        BY <2>5, SomeCall
      <4> QED
        BY <1>0, <2>5, <4>1
    <3>4. CallsServed(cs, t)
      <4> SUFFICES ASSUME NEW d \in Calls, cs[d].state \in {"assigned", "stopping"}
                   PROVE  \E j \in DOMAIN t : t[j].job = <<d>>
        BY DEF CallsServed
      <4>1. PICK j \in DOMAIN ss : ss[j].job = <<d>>
        BY <1>0
      <4> QED
        BY <2>5, <4>1
    <3> QED
      BY <1>0, <2>5, <3>1, <3>2, <3>3, <3>4 DEF SessionsFit
  <2>7. Waits(k, t) /\ \A l \in ModelKeys : Waits(l, ss) => Waits(l, t)
    <3>1. \A l : Serving(t, l) = Serving(ss, l)
      BY <2>5 DEF Serving
    <3>2. Idle(t) \subseteq Idle(ss)
      BY <2>2, <2>5 DEF Idle
    <3>3. Room(t) = Room(ss) /\ \E j \in DOMAIN t : t[j].closing
      BY <2>2, <2>5 DEF Room
    <3> QED
      BY <1>10, <3>1, <3>2, <3>3 DEF Waits
  <2>8. r = [call |-> cs, queue |-> q, sessions |-> t]
    BY <2>3, <2>4
  <2>9. r.call = cs /\ r.queue = q /\ r.sessions = t
    BY <2>8
  <2>10. PoolFits(cs, q, t)
    BY <2>6 DEF PoolFits
  <2> QED
    BY <1>1, <2>7, <2>8, <2>9, <2>10
<1> QED
  BY <1>6, <1>7, <1>8, <1>9, <1>10

(* The pass exists: it is defined from its value for the call before.      *)
LEMMA PassIs ==
  ASSUME NEW p, NEW q \in Seq(Calls), NEW f, f = Pass(p, q)
  PROVE  f[0] = p /\ \A n \in 1..Len(q) : f[n] = Consider(f[n - 1], q[n])
<1> DEFINE Upto(m, g) == g = [n \in 0..m |-> IF n = 0 THEN p ELSE Consider(g[n - 1], q[n])]
           Missing == {m \in Nat : ~\E g : Upto(m, g)}
<1>1. Missing = {}
  <2> SUFFICES ASSUME Missing # {} PROVE FALSE
    OBVIOUS
  <2>1. PICK m \in Missing : \A n \in Missing : m <= n
    <3>1. Missing \in SUBSET Nat
      OBVIOUS
    <3> HIDE DEF Missing
    <3> QED
      BY <3>1, LeastIs
  <2>2. CASE m = 0
    <3>1. PICK g : g = [n \in 0..0 |-> p]
      OBVIOUS
    <3>2. \A n \in 0..0 : n = 0
      OBVIOUS
    <3>3. Upto(0, g)
      BY <3>1, <3>2
    <3> QED
      BY <2>2, <3>3
  <2>3. CASE m # 0
    <3>1. m - 1 \in Nat /\ m \in Nat /\ m - 1 \notin Missing
      <4>1. m \in Nat
        OBVIOUS
      <4> HIDE DEF Missing
      <4>2. m - 1 \in Nat /\ ~(m <= m - 1)
        BY <2>3, <4>1
      <4> QED
        BY <2>1, <4>1, <4>2
    <3>2. PICK g : Upto(m - 1, g)
      BY <3>1
    <3>3. PICK h : h = [n \in 0..m |-> IF n = m THEN Consider(g[m - 1], q[m]) ELSE g[n]]
      OBVIOUS
    <3>4. \A n \in 0..m : h[n] = IF n = 0 THEN p ELSE Consider(h[n - 1], q[n])
      <4> SUFFICES ASSUME NEW n \in 0..m
                   PROVE  h[n] = IF n = 0 THEN p ELSE Consider(h[n - 1], q[n])
        OBVIOUS
      <4>1. CASE n = m
        <5>1. h[n] = Consider(g[m - 1], q[m]) /\ h[m - 1] = g[m - 1]
          BY <3>1, <3>3, <4>1
        <5> QED
          BY <2>3, <4>1, <5>1
      <4>2. CASE n # m
        <5>1. n \in 0..(m - 1) /\ h[n] = g[n]
          BY <3>1, <3>3, <4>2
        <5>2. g[n] = IF n = 0 THEN p ELSE Consider(g[n - 1], q[n])
          BY <3>2, <5>1
        <5>3. n # 0 => h[n - 1] = g[n - 1]
          BY <3>1, <3>3, <5>1
        <5> QED
          BY <5>1, <5>2, <5>3
      <4> QED
        BY <4>1, <4>2
    <3>5. Upto(m, h)
      <4>1. h = [n \in 0..m |-> h[n]]
        BY <3>3
      <4> QED
        BY <3>4, <4>1
    <3> QED
      BY <2>1, <3>5
  <2> QED
    BY <2>2, <2>3
<1>2. Len(q) \in Nat
  OBVIOUS
<1>3. \E g : Upto(Len(q), g)
  BY <1>1, <1>2
<1>4. Upto(Len(q), f)
  BY <1>3 DEF Pass
<1>5. \A n \in 0..Len(q) : f[n] = IF n = 0 THEN p ELSE Consider(f[n - 1], q[n])
  BY <1>4
<1>6. 0 \in 0..Len(q) /\ \A n \in 1..Len(q) : n \in 0..Len(q) /\ n # 0
  BY <1>2
<1> QED
  BY <1>5, <1>6

(* After the pump every call that is still queued waits for something that *)
(* ends in another pump; the calls that were not queued are untouched.     *)
Pumps(cs, q, ss, r) ==
  /\ r = [call |-> r.call, queue |-> r.queue, sessions |-> r.sessions]
  /\ PoolFits(r.call, r.queue, r.sessions)
  /\ Len(r.queue) <= Len(q)
  /\ \A d \in Calls : r.call[d].key = cs[d].key /\ (cs[d].state # "queued" => r.call[d] = cs[d])

LEMMA Pumping ==
  ASSUME NEW cs, NEW q, NEW ss, PoolFits(cs, q, ss), NEW r, r = Pumped(cs, q, ss)
  PROVE  /\ Pumps(cs, q, ss, r)
         /\ ~poolClosed => \A c \in Calls : r.call[c].state = "queued" => Waits(r.call[c].key, r.sessions)
<1>1. PICK p : p = [call |-> cs, queue |-> q, sessions |-> ss]
  OBVIOUS
<1>2. q \in Seq(Calls) /\ Len(q) \in Nat /\ DOMAIN q = 1..Len(q) /\ Distinct(q)
      /\ \A c \in Calls : InQueue(q, c) <=> cs[c].state = "queued"
  BY DEF PoolFits, QueueFits
<1>3. Pumps(cs, q, ss, p)
  BY <1>1, <1>2 DEF Pumps
<1>4. CASE poolClosed
  BY <1>1, <1>3, <1>4 DEF Pumped
<1>5. CASE ~poolClosed
  <2>1. PICK f : f = Pass(p, q)
    OBVIOUS
  <2>2. f[0] = p /\ \A n \in 1..Len(q) : f[n] = Consider(f[n - 1], q[n])
    BY <1>2, <2>1, PassIs
  <2>3. r = f[Len(q)]
    BY <1>1, <1>5, <2>1 DEF Pumped
  <2> DEFINE Good(n) ==
               /\ Pumps(cs, q, ss, f[n])
               /\ \A j \in 1..Len(q) : j > n => f[n].call[q[j]].state = "queued"
               /\ \A j \in 1..n : f[n].call[q[j]].state = "queued"
                                   => Waits(f[n].call[q[j]].key, f[n].sessions)
             Bad == {n \in 0..Len(q) : ~Good(n)}
  <2>4. Good(0)
    <3>1. \A j \in 1..Len(q) : cs[q[j]].state = "queued"
      BY <1>2 DEF InQueue
    <3>2. f[0].call = cs
      BY <1>1, <2>2
    <3> QED
      BY <1>3, <2>2, <3>1, <3>2
  <2>5. ASSUME NEW n \in 1..Len(q), Good(n - 1) PROVE Good(n)
    <3>1. PICK a : a = f[n - 1]
      OBVIOUS
    <3>2. PICK c : c = q[n]
      OBVIOUS
    <3>3. PICK b : b = f[n]
      OBVIOUS
    <3>4. c \in Calls /\ n \in Nat /\ n \in DOMAIN q
      BY <1>2, <3>2
    <3>5. /\ Pumps(cs, q, ss, a)
          /\ \A j \in 1..Len(q) : j > n - 1 => a.call[q[j]].state = "queued"
          /\ \A j \in 1..(n - 1) : a.call[q[j]].state = "queued" => Waits(a.call[q[j]].key, a.sessions)
      BY <2>5, <3>1
    <3>6. a.call[c].state = "queued" /\ cs[c].state = "queued"
      BY <1>2, <3>2, <3>4, <3>5 DEF InQueue
    <3>7. b = Consider([call |-> a.call, queue |-> a.queue, sessions |-> a.sessions], c)
      BY <2>2, <3>1, <3>2, <3>3, <3>5 DEF Pumps
    <3>8. PoolFits(a.call, a.queue, a.sessions)
      BY <3>5 DEF Pumps
    <3>9. /\ b = [call |-> b.call, queue |-> b.queue, sessions |-> b.sessions]
          /\ PoolFits(b.call, b.queue, b.sessions)
          /\ Len(b.queue) <= Len(a.queue)
          /\ \A d \in Calls : b.call[d].key = a.call[d].key /\ (d # c => b.call[d] = a.call[d])
          /\ b.call[c].state = "queued" => Waits(a.call[c].key, b.sessions)
          /\ \A k \in ModelKeys : Waits(k, a.sessions) => Waits(k, b.sessions)
      BY <3>4, <3>6, <3>7, <3>8, ConsiderStep
    <3>10. Pumps(cs, q, ss, b)
      <4>1. Len(b.queue) <= Len(q)
        <5>1. Len(a.queue) <= Len(q) /\ a.queue \in Seq(Calls) /\ b.queue \in Seq(Calls)
          BY <3>5, <3>9 DEF Pumps, PoolFits, QueueFits
        <5> QED
          BY <1>2, <3>9, <5>1
      <4>2. \A d \in Calls : b.call[d].key = cs[d].key /\ (cs[d].state # "queued" => b.call[d] = cs[d])
        BY <3>5, <3>6, <3>9 DEF Pumps
      <4> QED
        BY <3>9, <4>1, <4>2 DEF Pumps
    <3>11. ASSUME NEW j \in 1..Len(q), j # n
           PROVE  q[j] \in Calls /\ q[j] # c /\ b.call[q[j]] = a.call[q[j]]
      <4>1. q[j] \in Calls /\ q[j] # c
        BY <1>2, <3>2, <3>4, <3>11 DEF Distinct
      <4> QED
        BY <3>9, <4>1
    <3>12. \A j \in 1..Len(q) : j > n => b.call[q[j]].state = "queued"
      <4> SUFFICES ASSUME NEW j \in 1..Len(q), j > n PROVE b.call[q[j]].state = "queued"
        OBVIOUS
      <4>1. j # n /\ j > n - 1
        BY <3>4
      <4> QED
        BY <3>5, <3>11, <4>1
    <3>13. \A j \in 1..n : b.call[q[j]].state = "queued" => Waits(b.call[q[j]].key, b.sessions)
      <4> SUFFICES ASSUME NEW j \in 1..n, b.call[q[j]].state = "queued"
                   PROVE  Waits(b.call[q[j]].key, b.sessions)
        OBVIOUS
      <4>1. CASE j = n
        BY <3>2, <3>4, <3>9, <4>1
      <4>2. CASE j # n
        <5>1. j \in 1..(n - 1) /\ j \in 1..Len(q)
          BY <1>2, <3>4, <4>2
        <5>2. q[j] \in Calls /\ b.call[q[j]] = a.call[q[j]]
          BY <3>11, <4>2, <5>1
        <5>3. Waits(a.call[q[j]].key, a.sessions)
          BY <3>5, <5>1, <5>2
        <5>4. a.call[q[j]].key \in ModelKeys
          BY <3>8, <5>2 DEF PoolFits, CallRows
        <5> QED
          BY <3>9, <5>2, <5>3, <5>4
      <4> QED
        BY <4>1, <4>2
    <3> QED
      BY <3>3, <3>10, <3>12, <3>13
  <2>6. Good(Len(q))
    <3> SUFFICES ASSUME ~Good(Len(q)) PROVE FALSE
      OBVIOUS
    <3> HIDE DEF Good
    <3>1. Bad \in SUBSET Nat /\ Len(q) \in Bad
      BY <1>2
    <3>2. PICK m \in Bad : \A n \in Bad : m <= n
      <4> HIDE DEF Bad
      <4> QED
        BY <3>1, LeastIs
    <3>3. m # 0
      BY <2>4, <3>2
    <3>4. m \in 1..Len(q) /\ m - 1 \in 0..Len(q) /\ m - 1 \notin Bad
      BY <1>2, <3>2, <3>3
    <3>5. Good(m - 1)
      BY <3>4
    <3> QED
      BY <2>5, <3>2, <3>4, <3>5
  <2>7. ASSUME NEW c \in Calls, r.call[c].state = "queued" PROVE Waits(r.call[c].key, r.sessions)
    <3>1. cs[c].state = "queued"
      BY <2>3, <2>6, <2>7 DEF Pumps
    <3>2. PICK j \in 1..Len(q) : q[j] = c
      BY <1>2, <3>1 DEF InQueue
    <3> QED
      BY <2>3, <2>6, <2>7, <3>2
  <2> QED
    BY <2>3, <2>6, <2>7
<1> QED
  BY <1>4, <1>5

(* The inductive invariant: the queue, the calls and the sessions say the  *)
(* same, and whoever is queued waits for what ends in a pump.              *)
Waiting(cs, ss) == \A c \in Calls : cs[c].state = "queued" => Waits(cs[c].key, ss)

PoolInv ==
  /\ PoolFits(call, queue, sessions)
  /\ poolClosed \in BOOLEAN /\ Len(queue) <= MaxQueue
  /\ ~poolClosed => Waiting(call, sessions)

SettledStay == \A c \in Calls : call[c].state \in Settled => call'[c] = call[c]

LEMMA FitsIs ==
  ASSUME NEW cs, NEW q, NEW ss, PoolFits(cs, q, ss)
  PROVE  /\ cs \in [Calls -> CallRows]
         /\ q \in Seq(Calls) /\ Distinct(q) /\ Len(q) \in Nat
         /\ \A c \in Calls : InQueue(q, c) <=> cs[c].state = "queued"
         /\ ss \in Seq(SessionRows) /\ Len(ss) \in Nat /\ DOMAIN ss = 1..Len(ss) /\ Len(ss) <= MaxWorkers
         /\ \A i \in DOMAIN ss : ss[i] \in SessionRows /\ PhaseFits(ss[i])
         /\ \A i, j \in DOMAIN ss : ss[i].key = ss[j].key => i = j
         /\ \A i \in DOMAIN ss, c \in Calls : ss[i].job = <<c>> => Serves(cs, ss[i], c)
         /\ \A c \in Calls : cs[c].state \in {"assigned", "stopping"} => \E i \in DOMAIN ss : ss[i].job = <<c>>
<1>1. QueueFits(cs, q) /\ SessionsFit(cs, ss) /\ cs \in [Calls -> CallRows]
  BY DEF PoolFits
<1>2. q \in Seq(Calls) /\ Distinct(q) /\ \A c \in Calls : InQueue(q, c) <=> cs[c].state = "queued"
  BY <1>1 DEF QueueFits
<1>3. ss \in Seq(SessionRows) /\ Len(ss) <= MaxWorkers /\ \A i \in DOMAIN ss : PhaseFits(ss[i])
  BY <1>1 DEF SessionsFit
<1>4. \A i, j \in DOMAIN ss : ss[i].key = ss[j].key => i = j
  BY <1>1 DEF SessionsFit, OneEach
<1>5. \A i \in DOMAIN ss, c \in Calls : ss[i].job = <<c>> => Serves(cs, ss[i], c)
  BY <1>1 DEF SessionsFit, JobsServed
<1>6. \A c \in Calls : cs[c].state \in {"assigned", "stopping"} => \E i \in DOMAIN ss : ss[i].job = <<c>>
  BY <1>1 DEF SessionsFit, CallsServed
<1>7. Len(q) \in Nat /\ Len(ss) \in Nat /\ DOMAIN ss = 1..Len(ss) /\ \A i \in DOMAIN ss : ss[i] \in SessionRows
  BY <1>2, <1>3
<1> QED
  BY <1>1, <1>2, <1>3, <1>4, <1>5, <1>6, <1>7

(* Every step that pumps keeps the invariant if what it pumps fits.        *)
LEMMA PumpKeeps ==
  ASSUME NEW cs, NEW q, NEW ss, PoolFits(cs, q, ss), Len(q) <= MaxQueue,
         poolClosed \in BOOLEAN, poolClosed' = poolClosed, Becomes(Pumped(cs, q, ss)),
         \A c \in Calls : call[c].state \in Settled => cs[c] = call[c]
  PROVE  PoolInv' /\ SettledStay
<1>1. PICK r : r = Pumped(cs, q, ss)
  OBVIOUS
<1>2. call' = r.call /\ queue' = r.queue /\ sessions' = r.sessions
  BY <1>1 DEF Becomes
<1>3. /\ Pumps(cs, q, ss, r)
      /\ ~poolClosed => \A c \in Calls : r.call[c].state = "queued" => Waits(r.call[c].key, r.sessions)
  BY <1>1, Pumping
<1>4. PoolFits(r.call, r.queue, r.sessions) /\ Len(r.queue) <= MaxQueue
  <2>1. PoolFits(r.call, r.queue, r.sessions) /\ Len(r.queue) <= Len(q)
    BY <1>3 DEF Pumps
  <2>2. Len(q) \in Nat /\ Len(r.queue) \in Nat /\ MaxQueue \in Nat
    BY <2>1, FitsIs, PoolAssumption
  <2> QED
    BY <2>1, <2>2
<1>5. PoolFits(call, queue, sessions)'
  BY <1>2, <1>4
<1>6. (~poolClosed => Waiting(call, sessions))'
  BY <1>2, <1>3 DEF Waiting
<1>7. PoolInv'
  BY <1>2, <1>4, <1>5, <1>6 DEF PoolInv
<1>8. SettledStay
  BY <1>2, <1>3 DEF Pumps, SettledStay, Settled
<1> QED
  BY <1>7, <1>8

(* A step that does not pump makes nobody's wait void: the sessions stay,  *)
(* none becomes idle and none stops closing.                               *)
LEMMA QuietWaits ==
  ASSUME NEW ss, NEW t, Len(t) = Len(ss), DOMAIN t = DOMAIN ss,
         \A i \in DOMAIN ss : /\ t[i].key = ss[i].key /\ t[i].job = ss[i].job
                              /\ ss[i].closing => t[i].closing,
         NEW k, Waits(k, ss)
  PROVE  Waits(k, t)
<1>1. Serving(t, k) = Serving(ss, k)
  BY DEF Serving
<1>2. Idle(t) \subseteq Idle(ss)
  BY DEF Idle
<1>3. Room(t) = Room(ss) /\ ((\E i \in DOMAIN ss : ss[i].closing) => \E i \in DOMAIN t : t[i].closing)
  BY DEF Room
<1> QED
  BY <1>1, <1>2, <1>3 DEF Waits

(* One session for one call.                                               *)
LEMMA OneServer ==
  ASSUME NEW cs, NEW q, NEW ss, PoolFits(cs, q, ss), NEW c \in Calls,
         NEW i \in DOMAIN ss, NEW j \in DOMAIN ss, ss[i].job = <<c>>, ss[j].job = <<c>>
  PROVE  i = j
<1>1. ss[i].key = cs[c].key /\ ss[j].key = cs[c].key
  BY FitsIs DEF Serves
<1> QED
  BY <1>1, FitsIs

(* A call that no session has changes its state to one without a session.  *)
Unserved(ss, c) == \A i \in DOMAIN ss : ss[i].job # <<c>>

LEMMA Marking ==
  ASSUME NEW cs, NEW q, NEW ss, PoolFits(cs, q, ss), NEW c \in Calls,
         Unserved(ss, c), NEW s \in {"queued", "rejected"}, NEW n, n = Mark(cs, c, s)
  PROVE  /\ n \in [Calls -> CallRows] /\ SessionsFit(n, ss)
         /\ n[c].state = s /\ n[c].key = cs[c].key /\ \A d \in Calls : d # c => n[d] = cs[d]
<1>1. n = [cs EXCEPT ![c].state = s] /\ cs \in [Calls -> CallRows]
  BY FitsIs DEF Mark
<1>2. n \in [Calls -> CallRows] /\ n[c].state = s /\ n[c].key = cs[c].key
      /\ \A d \in Calls : d # c => n[d] = cs[d]
  BY <1>1 DEF CallRows, CallStates
<1>3. JobsServed(n, ss)
  <2> SUFFICES ASSUME NEW i \in DOMAIN ss, NEW d \in Calls, ss[i].job = <<d>> PROVE Serves(n, ss[i], d)
    BY DEF JobsServed
  <2>1. d # c /\ Serves(cs, ss[i], d)
    BY FitsIs DEF Unserved
  <2> QED
    BY <1>2, <2>1 DEF Serves
<1>4. CallsServed(n, ss)
  <2> SUFFICES ASSUME NEW d \in Calls, n[d].state \in {"assigned", "stopping"}
               PROVE  \E i \in DOMAIN ss : ss[i].job = <<d>>
    BY DEF CallsServed
  <2>1. d # c
    BY <1>2
  <2>2. cs[d].state \in {"assigned", "stopping"}
    BY <1>2, <2>1
  <2> QED
    BY <2>2 DEF PoolFits, SessionsFit, CallsServed
<1>5. SessionsFit(n, ss)
  BY <1>3, <1>4 DEF PoolFits, SessionsFit
<1> QED
  BY <1>2, <1>5

(* Sessions and calls move on together.                                    *)
SessionsStay(ss, t) ==
  /\ t \in Seq(SessionRows) /\ DOMAIN t = DOMAIN ss /\ Len(t) = Len(ss)
  /\ \A i \in DOMAIN ss : /\ t[i].key = ss[i].key /\ t[i].job = ss[i].job /\ PhaseFits(t[i])
                          /\ ss[i].closing => t[i].closing
NoneAssigned(cs, n) ==
  \A c \in Calls : n[c].state \in {"assigned", "stopping"} => cs[c].state \in {"assigned", "stopping"}

LEMMA SessionsMove ==
  ASSUME NEW cs, NEW q, NEW ss, PoolFits(cs, q, ss), NEW n, NEW t,
         SessionsStay(ss, t), NoneAssigned(cs, n), JobsServed(n, t)
  PROVE  SessionsFit(n, t)
<1>1. OneEach(t)
  BY FitsIs DEF OneEach, SessionsStay
<1>2. CallsServed(n, t)
  <2> SUFFICES ASSUME NEW c \in Calls, n[c].state \in {"assigned", "stopping"}
               PROVE  \E i \in DOMAIN t : t[i].job = <<c>>
    BY DEF CallsServed
  <2>1. cs[c].state \in {"assigned", "stopping"}
    BY DEF NoneAssigned
  <2>2. PICK i \in DOMAIN ss : ss[i].job = <<c>>
    BY <2>1 DEF PoolFits, SessionsFit, CallsServed
  <2> QED
    BY <2>2 DEF SessionsStay
<1>3. Len(t) <= MaxWorkers /\ t \in Seq(SessionRows) /\ \A i \in DOMAIN t : PhaseFits(t[i])
  BY FitsIs DEF SessionsStay
<1> QED
  BY <1>1, <1>2, <1>3 DEF SessionsFit

(* A step that does not pump: calls only go from assigned to stopping, and *)
(* sessions only close.                                                    *)
CallsMove(cs, n) ==
  /\ n \in [Calls -> CallRows]
  /\ \A c \in Calls : /\ n[c].key = cs[c].key
                      /\ n[c] = cs[c] \/ (cs[c].state = "assigned" /\ n[c].state = "stopping")

LEMMA QuietStep ==
  ASSUME PoolInv, poolClosed' = poolClosed, queue' = queue, NEW n, NEW t, call' = n, sessions' = t,
         SessionsStay(sessions, t), CallsMove(call, n), JobsServed(n, t)
  PROVE  PoolInv' /\ SettledStay
<1>1. PoolFits(call, queue, sessions)
  BY DEF PoolInv
<1>2. \A c \in Calls : n[c].state = "queued" <=> call[c].state = "queued"
  BY DEF CallsMove
<1>3. NoneAssigned(call, n)
  BY DEF CallsMove, NoneAssigned
<1>4. SessionsFit(n, t)
  BY <1>1, <1>3, SessionsMove
<1>5. QueueFits(n, queue)
  BY <1>1, <1>2 DEF PoolFits, QueueFits
<1>6. PoolFits(n, queue, t)
  BY <1>4, <1>5 DEF PoolFits, CallsMove
<1>7. ~poolClosed => Waiting(n, t)
  <2> SUFFICES ASSUME ~poolClosed, NEW c \in Calls, n[c].state = "queued" PROVE Waits(n[c].key, t)
    BY DEF Waiting
  <2>1. Waits(call[c].key, sessions)
    BY <1>2 DEF PoolInv, Waiting
  <2>2. n[c].key = call[c].key
    BY DEF CallsMove
  <2>3. Waits(call[c].key, t)
    <3>1. /\ Len(t) = Len(sessions) /\ DOMAIN t = DOMAIN sessions
          /\ \A i \in DOMAIN sessions : /\ t[i].key = sessions[i].key /\ t[i].job = sessions[i].job
                                        /\ sessions[i].closing => t[i].closing
      BY DEF SessionsStay
    <3> QED
      BY <2>1, <3>1, QuietWaits
  <2> QED
    BY <2>2, <2>3
<1>8. PoolInv'
  BY <1>6, <1>7 DEF PoolInv
<1>9. SettledStay
  BY DEF SettledStay, Settled, CallsMove
<1> QED
  BY <1>8, <1>9

LEMMA PoolBegins == PoolInit => PoolInv
<1> SUFFICES ASSUME PoolInit PROVE PoolInv
  OBVIOUS
<1>1. queue = <<>> /\ sessions = <<>> /\ poolClosed = FALSE /\ call \in [Calls -> [key : ModelKeys, state : {"new"}]]
  BY DEF PoolInit
<1>2. \A c \in Calls : call[c].key \in ModelKeys /\ call[c].state = "new" /\ call[c] \in CallRows
  BY <1>1 DEF CallRows, CallStates
<1>3. call \in [Calls -> CallRows]
  BY <1>1, <1>2
<1>4. QueueFits(call, queue)
  BY <1>1, <1>2 DEF QueueFits, Distinct, InQueue
<1>5. SessionsFit(call, sessions)
  BY <1>1, <1>2, PoolAssumption DEF SessionsFit, OneEach, JobsServed, CallsServed
<1>6. Len(queue) <= MaxQueue
  BY <1>1, PoolAssumption
<1>7. Waiting(call, sessions)
  BY <1>2 DEF Waiting
<1> QED
  BY <1>1, <1>3, <1>4, <1>5, <1>6, <1>7 DEF PoolInv, PoolFits

LEMMA RequestKeeps == ASSUME PoolInv, NEW c \in Calls, Request(c) PROVE PoolInv' /\ SettledStay
<1>1. PoolFits(call, queue, sessions) /\ poolClosed \in BOOLEAN /\ Len(queue) <= MaxQueue
  BY DEF PoolInv
<1>2. call[c].state = "new" /\ poolClosed' = poolClosed
  BY DEF Request
<1>3. Unserved(sessions, c)
  BY <1>1, <1>2, FitsIs DEF Serves, Unserved
<1>4. CASE poolClosed \/ QueueFull
  <2>1. PICK n : n = Mark(call, c, "rejected")
    OBVIOUS
  <2>2. call' = n /\ queue' = queue /\ sessions' = sessions
    BY <1>4, <2>1 DEF Request
  <2>3. /\ n \in [Calls -> CallRows] /\ SessionsFit(n, sessions)
        /\ n[c].state = "rejected" /\ n[c].key = call[c].key /\ \A d \in Calls : d # c => n[d] = call[d]
    <3>1. PICK s \in {"queued", "rejected"} : s = "rejected"
      OBVIOUS
    <3>2. n = Mark(call, c, s)
      BY <2>1, <3>1
    <3>3. PoolFits(call, queue, sessions)
      BY <1>1
    <3>4. /\ n \in [Calls -> CallRows] /\ SessionsFit(n, sessions)
          /\ n[c].state = s /\ n[c].key = call[c].key /\ \A d \in Calls : d # c => n[d] = call[d]
      BY <1>3, <3>2, <3>3, Marking
    <3> QED
      BY <3>1, <3>4
  <2>4. QueueFits(n, queue)
    BY <1>1, <1>2, <2>3 DEF PoolFits, QueueFits
  <2>5. ~poolClosed => Waiting(n, sessions)
    BY <2>3 DEF PoolInv, Waiting
  <2>6. PoolInv'
    BY <1>1, <1>2, <2>2, <2>3, <2>4, <2>5 DEF PoolInv, PoolFits
  <2>7. SettledStay
    BY <1>2, <2>2, <2>3 DEF SettledStay, Settled
  <2> QED
    BY <2>6, <2>7
<1>5. CASE ~(poolClosed \/ QueueFull)
  <2>1. PICK n : n = Mark(call, c, "queued")
    OBVIOUS
  <2>4. /\ n \in [Calls -> CallRows] /\ SessionsFit(n, sessions)
        /\ n[c].state = "queued" /\ n[c].key = call[c].key /\ \A d \in Calls : d # c => n[d] = call[d]
    <3>1. PICK s \in {"queued", "rejected"} : s = "queued"
      OBVIOUS
    <3>2. n = Mark(call, c, s)
      BY <2>1, <3>1
    <3>3. PoolFits(call, queue, sessions)
      BY <1>1
    <3>4. /\ n \in [Calls -> CallRows] /\ SessionsFit(n, sessions)
          /\ n[c].state = s /\ n[c].key = call[c].key /\ \A d \in Calls : d # c => n[d] = call[d]
      BY <1>3, <3>2, <3>3, Marking
    <3> QED
      BY <3>1, <3>4
  <2>2. PICK q : q = Append(queue, c)
    OBVIOUS
  <2>3. Becomes(Pumped(n, q, sessions))
    BY <1>5, <2>1, <2>2 DEF Request
  <2>5. queue \in Seq(Calls) /\ Distinct(queue) /\ Len(queue) \in Nat /\ ~InQueue(queue, c)
        /\ \A d \in Calls : InQueue(queue, d) <=> call[d].state = "queued"
    BY <1>1, <1>2 DEF PoolFits, QueueFits
  <2>6. q \in Seq(Calls) /\ Len(q) = Len(queue) + 1 /\ DOMAIN q = 1..(Len(queue) + 1)
        /\ q[Len(queue) + 1] = c /\ \A j \in DOMAIN queue : q[j] = queue[j]
    BY <2>2, <2>5
  <2>7. QueueFits(n, q)
    <3>1. Distinct(q)
      <4> SUFFICES ASSUME NEW i \in DOMAIN q, NEW j \in DOMAIN q, q[i] = q[j] PROVE i = j
        BY DEF Distinct
      <4>1. \A m \in DOMAIN q : m = Len(queue) + 1 \/ (m \in DOMAIN queue /\ q[m] # c)
        BY <2>5, <2>6 DEF InQueue
      <4> QED
        BY <2>5, <2>6, <4>1 DEF Distinct
    <3>2. \A d \in Calls : InQueue(q, d) <=> InQueue(queue, d) \/ d = c
      <4>1. \A d \in Calls : InQueue(queue, d) => InQueue(q, d)
        BY <2>5, <2>6 DEF InQueue
      <4>2. InQueue(q, c)
        BY <2>5, <2>6 DEF InQueue
      <4>3. \A d \in Calls : InQueue(q, d) => InQueue(queue, d) \/ d = c
        BY <2>5, <2>6 DEF InQueue
      <4> QED
        BY <4>1, <4>2, <4>3
    <3> QED
      BY <2>4, <2>5, <2>6, <3>1, <3>2 DEF QueueFits
  <2>8. PoolFits(n, q, sessions)
    BY <2>4, <2>7 DEF PoolFits
  <2>9. Len(q) <= MaxQueue
    BY <1>5, <2>5, <2>6, PoolAssumption DEF QueueFull
  <2>10. \A d \in Calls : call[d].state \in Settled => n[d] = call[d]
    BY <1>2, <2>4 DEF Settled
  <2> QED
    BY <1>1, <1>2, <2>3, <2>8, <2>9, <2>10, PumpKeeps
<1> QED
  BY <1>4, <1>5

(* A cancelled call leaves the queue, or its session begins to stop.       *)
LEMMA CancelKeeps == ASSUME PoolInv, NEW c \in Calls, Cancelled(c) PROVE PoolInv' /\ SettledStay
<1>1. PoolFits(call, queue, sessions) /\ poolClosed \in BOOLEAN /\ Len(queue) <= MaxQueue
  BY DEF PoolInv
<1>2. call[c].state \in {"queued", "assigned"} /\ poolClosed' = poolClosed
  BY DEF Cancelled, Cancellable
<1>3. CASE SessionOf(c) = {}
  <2>1. Unserved(sessions, c)
    BY <1>3 DEF SessionOf, Unserved
  <2>2. call[c].state = "queued"
    <3>1. call[c].state # "assigned"
      BY <1>1, <2>1 DEF PoolFits, SessionsFit, CallsServed, Unserved
    <3> QED
      BY <1>2, <3>1
  <2>3. PICK n : n = Mark(call, c, "rejected")
    OBVIOUS
  <2>4. PICK q : q = RemoveFirst(queue, c)
    OBVIOUS
  <2>5. Becomes(Pumped(n, q, sessions))
    BY <1>3, <2>3, <2>4 DEF Cancelled, CancelledState
  <2>6. /\ n \in [Calls -> CallRows] /\ SessionsFit(n, sessions)
        /\ n[c].state = "rejected" /\ n[c].key = call[c].key /\ \A d \in Calls : d # c => n[d] = call[d]
    BY <1>1, <2>1, <2>3, Marking
  <2>7. queue \in Seq(Calls) /\ Distinct(queue) /\ Len(queue) \in Nat /\ InQueue(queue, c)
        /\ \A d \in Calls : InQueue(queue, d) <=> call[d].state = "queued"
    BY <1>1, <2>2, FitsIs
  <2>8. q \in Seq(Calls) /\ Distinct(q) /\ Len(q) <= Len(queue) /\ \A d : InQueue(q, d) <=> InQueue(queue, d) /\ d # c
    BY <2>4, <2>7, Unqueueing
  <2>9. QueueFits(n, q)
    BY <2>6, <2>7, <2>8 DEF QueueFits
  <2>10. PoolFits(n, q, sessions)
    BY <2>6, <2>9 DEF PoolFits
  <2>11. Len(q) <= MaxQueue
    BY <1>1, <2>7, <2>8, PoolAssumption
  <2>12. \A d \in Calls : call[d].state \in Settled => n[d] = call[d]
    BY <2>2, <2>6 DEF Settled
  <2> QED
    BY <1>1, <1>2, <2>5, <2>10, <2>11, <2>12, PumpKeeps
<1>4. CASE SessionOf(c) # {}
  <2>1. PICK i \in DOMAIN sessions : sessions[i].job = <<c>>
    BY <1>4 DEF SessionOf
  <2>2. call[c].state = "assigned"
    BY <1>1, <1>2, <2>1, FitsIs DEF Serves
  <2>3. PICK n : n = [call EXCEPT ![c].state = "stopping"]
    OBVIOUS
  <2>4. PICK t : t = [j \in DOMAIN sessions |-> [sessions[j] EXCEPT !.closing = @ \/ j \in SessionOf(c)]]
    OBVIOUS
  <2>5. call' = n /\ sessions' = t /\ queue' = queue
    BY <1>4, <2>3, <2>4 DEF Cancelled, CancelledState, Mark
  <2>6. /\ n \in [Calls -> CallRows] /\ n[c].state = "stopping" /\ n[c].key = call[c].key
        /\ \A d \in Calls : d # c => n[d] = call[d]
    <3>1. call \in [Calls -> CallRows]
      BY <1>1, FitsIs
    <3> QED
      BY <2>3, <3>1 DEF CallRows, CallStates
  <2>7. sessions \in Seq(SessionRows) /\ Len(sessions) \in Nat /\ DOMAIN sessions = 1..Len(sessions)
        /\ \A j \in DOMAIN sessions : sessions[j] \in SessionRows /\ PhaseFits(sessions[j])
    BY <1>1, FitsIs
  <2>8. \A j \in DOMAIN sessions :
          /\ t[j] \in SessionRows
          /\ t[j].key = sessions[j].key /\ t[j].job = sessions[j].job /\ t[j].phase = sessions[j].phase
          /\ t[j].closing = (sessions[j].closing \/ j \in SessionOf(c))
    <3> SUFFICES ASSUME NEW j \in DOMAIN sessions
                 PROVE  /\ t[j] \in SessionRows
                        /\ t[j].key = sessions[j].key /\ t[j].job = sessions[j].job /\ t[j].phase = sessions[j].phase
                        /\ t[j].closing = (sessions[j].closing \/ j \in SessionOf(c))
      OBVIOUS
    <3>1. PICK b : b = (sessions[j].closing \/ j \in SessionOf(c))
      OBVIOUS
    <3>2. b \in BOOLEAN
      BY <3>1
    <3>3. t[j] = [sessions[j] EXCEPT !.closing = b]
      BY <2>4, <3>1
    <3> QED
      BY <2>7, <3>1, <3>2, <3>3 DEF SessionRows
  <2>9. SessionsStay(sessions, t)
    <3>1. DOMAIN t = 1..Len(sessions) /\ \A j \in 1..Len(sessions) : t[j] \in SessionRows
      BY <2>4, <2>7, <2>8
    <3>2. t = [j \in 1..Len(sessions) |-> t[j]]
      BY <2>4, <2>7
    <3>3. t \in Seq(SessionRows) /\ Len(t) = Len(sessions)
      BY <2>7, <3>1, <3>2
    <3> QED
      BY <2>7, <2>8, <3>1, <3>3 DEF PhaseFits, SessionsStay
  <2>10. CallsMove(call, n)
    BY <2>2, <2>6 DEF CallsMove
  <2>11. JobsServed(n, t)
    <3> SUFFICES ASSUME NEW j \in DOMAIN t, NEW d \in Calls, t[j].job = <<d>> PROVE Serves(n, t[j], d)
      BY DEF JobsServed
    <3>0. j \in DOMAIN sessions /\ sessions[j].job = <<d>> /\ Serves(call, sessions[j], d)
      BY <1>1, <2>4, <2>8, FitsIs
    <3>1. CASE d = c
      BY <2>6, <2>8, <3>0, <3>1 DEF SessionOf, Serves
    <3>2. CASE d # c
      <4>1. j \notin SessionOf(c)
        BY <3>0, <3>2 DEF SessionOf
      <4> QED
        BY <2>6, <2>8, <3>0, <3>2, <4>1 DEF Serves
    <3> QED
      BY <3>1, <3>2
  <2> QED
    BY <1>2, <2>5, <2>9, <2>10, <2>11, QuietStep
<1> QED
  BY <1>3, <1>4

(* One session changes its phase or begins to close; the call that it      *)
(* serves, if it begins to close, goes to stopping.                        *)
LEMMA SessionChanges ==
  ASSUME PoolInv, NEW i \in DOMAIN sessions, NEW x \in SessionRows, NEW t, t = [sessions EXCEPT ![i] = x],
         x.key = sessions[i].key, x.job = sessions[i].job, PhaseFits(x), sessions[i].closing => x.closing
  PROVE  /\ SessionsStay(sessions, t)
         /\ \A j \in DOMAIN sessions : t[j] = IF j = i THEN x ELSE sessions[j]
<1>1. /\ sessions \in Seq(SessionRows) /\ \A j \in DOMAIN sessions : PhaseFits(sessions[j])
  BY FitsIs DEF PoolInv
<1>2. /\ t \in Seq(SessionRows) /\ Len(t) = Len(sessions) /\ DOMAIN t = DOMAIN sessions /\ t[i] = x
      /\ \A j \in DOMAIN sessions : j # i => t[j] = sessions[j]
  BY <1>1, Changing
<1> QED
  BY <1>1, <1>2 DEF SessionsStay

LEMMA PhaseKeeps ==
  ASSUME PoolInv, poolClosed' = poolClosed, queue' = queue, call' = call,
         NEW i \in DOMAIN sessions, NEW x \in SessionRows, sessions' = [sessions EXCEPT ![i] = x],
         x.key = sessions[i].key, x.job = sessions[i].job, PhaseFits(x), sessions[i].closing => x.closing,
         x.closing /\ ~sessions[i].closing => x.job = NoCall
  PROVE  PoolInv' /\ SettledStay
<1>1. PICK t : t = [sessions EXCEPT ![i] = x]
  OBVIOUS
<1>2. SessionsStay(sessions, t) /\ \A j \in DOMAIN sessions : t[j] = IF j = i THEN x ELSE sessions[j]
  BY <1>1, SessionChanges
<1>3. PICK n : n = call
  OBVIOUS
<1>4. PoolFits(n, queue, sessions)
  BY <1>3 DEF PoolInv
<1>5. CallsMove(call, n)
  BY <1>3, <1>4, FitsIs DEF CallsMove
<1>6. JobsServed(n, t)
  <2> SUFFICES ASSUME NEW j \in DOMAIN t, NEW d \in Calls, t[j].job = <<d>> PROVE Serves(n, t[j], d)
    BY DEF JobsServed
  <2>1. j \in DOMAIN sessions /\ sessions[j].job = <<d>> /\ Serves(n, sessions[j], d)
    BY <1>2, <1>4, FitsIs DEF SessionsStay
  <2>2. CASE j = i
    <3>1. x.job # NoCall
      BY <2>1, <2>2, SomeCall
    <3>2. t[j] = x
      BY <1>2, <2>1, <2>2
    <3>3. sessions[i].closing \in BOOLEAN /\ x.closing \in BOOLEAN
      <4>1. sessions[i] \in SessionRows
        BY <1>4, FitsIs
      <4> QED
        BY <4>1 DEF SessionRows
    <3> QED
      BY <2>1, <2>2, <3>1, <3>2, <3>3 DEF Serves
  <2>3. CASE j # i
    BY <1>2, <2>1, <2>3
  <2> QED
    BY <2>2, <2>3
<1>7. call' = n /\ sessions' = t
  BY <1>1, <1>3
<1> QED
  BY <1>2, <1>5, <1>6, <1>7, QuietStep

(* A session that stops by itself takes its call to stopping.              *)
LEMMA ClosingKeeps ==
  ASSUME PoolInv, poolClosed' = poolClosed, queue' = queue, NEW i \in DOMAIN sessions, ~sessions[i].closing,
         NEW c \in Calls, sessions[i].job = <<c>>, call' = Mark(call, c, "stopping"),
         NEW x \in SessionRows, sessions' = [sessions EXCEPT ![i] = x],
         x.key = sessions[i].key, x.job = sessions[i].job, x.closing = TRUE
  PROVE  PoolInv' /\ SettledStay
<1>1. PICK t : t = [sessions EXCEPT ![i] = x]
  OBVIOUS
<1>2. PICK n : n = [call EXCEPT ![c].state = "stopping"]
  OBVIOUS
<1>3. call' = n /\ sessions' = t
  BY <1>1, <1>2 DEF Mark
<1>4. PoolFits(call, queue, sessions)
  BY DEF PoolInv
<1>5. PhaseFits(x)
  BY SomeCall DEF PhaseFits
<1>6. SessionsStay(sessions, t) /\ \A j \in DOMAIN sessions : t[j] = IF j = i THEN x ELSE sessions[j]
  BY <1>1, <1>5, SessionChanges
<1>7. call[c].state = "assigned"
  BY <1>4, FitsIs DEF Serves
<1>8. /\ n \in [Calls -> CallRows] /\ n[c].state = "stopping" /\ n[c].key = call[c].key
      /\ \A d \in Calls : d # c => n[d] = call[d]
  <2>1. call \in [Calls -> CallRows]
    BY <1>4, FitsIs
  <2> QED
    BY <1>2, <2>1 DEF CallRows, CallStates
<1>9. CallsMove(call, n)
  BY <1>7, <1>8 DEF CallsMove
<1>10. JobsServed(n, t)
  <2> SUFFICES ASSUME NEW j \in DOMAIN t, NEW d \in Calls, t[j].job = <<d>> PROVE Serves(n, t[j], d)
    BY DEF JobsServed
  <2>1. j \in DOMAIN sessions /\ sessions[j].job = <<d>> /\ Serves(call, sessions[j], d)
    BY <1>4, <1>6, FitsIs DEF SessionsStay
  <2>2. CASE j = i
    <3>1. d = c /\ t[j] = x
      BY <1>6, <2>1, <2>2
    <3> QED
      BY <1>8, <2>1, <2>2, <3>1 DEF Serves
  <2>3. CASE j # i
    <3>1. d # c
      BY <1>4, <2>1, <2>3, OneServer
    <3> QED
      BY <1>6, <1>8, <2>1, <2>3, <3>1 DEF Serves
  <2> QED
    BY <2>2, <2>3
<1> QED
  BY <1>3, <1>6, <1>9, <1>10, QuietStep

LEMMA SessionIs ==
  ASSUME PoolInv, NEW i \in DOMAIN sessions
  PROVE  /\ PoolFits(call, queue, sessions) /\ PhaseFits(sessions[i])
         /\ sessions[i] \in SessionRows /\ sessions[i].closing \in BOOLEAN
         /\ sessions[i].job # NoCall => \E c \in Calls : sessions[i].job = <<c>>
<1>1. PoolFits(call, queue, sessions)
  BY DEF PoolInv
<1>2. PhaseFits(sessions[i]) /\ sessions[i] \in SessionRows
  BY <1>1, FitsIs
<1> QED
  BY <1>1, <1>2 DEF SessionRows

LEMMA QuietActions ==
  ASSUME PoolInv, NEW i \in DOMAIN sessions,
         Start(i) \/ Dispatch(i) \/ IdleTimer(i) \/ Kill(i)
  PROVE  PoolInv' /\ SettledStay
<1>1. /\ PhaseFits(sessions[i]) /\ sessions[i] \in SessionRows /\ sessions[i].closing \in BOOLEAN
  BY SessionIs
<1>2. ASSUME Start(i) PROVE PoolInv' /\ SettledStay
  <2>1. PICK x : x = [sessions[i] EXCEPT !.phase = IF sessions[i].closing THEN "gone" ELSE "running"]
    OBVIOUS
  <2>2. x \in SessionRows /\ x.key = sessions[i].key /\ x.job = sessions[i].job
        /\ x.closing = sessions[i].closing /\ x.phase = IF sessions[i].closing THEN "gone" ELSE "running"
    BY <1>1, <2>1 DEF SessionRows
  <2>3. PhaseFits(x)
    BY <1>1, <2>2 DEF PhaseFits
  <2>4. sessions' = [sessions EXCEPT ![i] = x] /\ call' = call /\ queue' = queue /\ poolClosed' = poolClosed
    BY <1>2, <2>1 DEF Start
  <2> QED
    BY <2>2, <2>3, <2>4, PhaseKeeps
<1>3. ASSUME Dispatch(i) PROVE PoolInv' /\ SettledStay
  <2>1. PICK x : x = [sessions[i] EXCEPT !.sent = TRUE]
    OBVIOUS
  <2>2. x \in SessionRows /\ x.key = sessions[i].key /\ x.job = sessions[i].job
        /\ x.closing = sessions[i].closing /\ x.phase = sessions[i].phase
    BY <1>1, <2>1 DEF SessionRows
  <2>3. PhaseFits(x)
    BY <1>1, <2>2 DEF PhaseFits
  <2>4. sessions' = [sessions EXCEPT ![i] = x] /\ call' = call /\ queue' = queue /\ poolClosed' = poolClosed
    BY <1>3, <2>1 DEF Dispatch
  <2> QED
    BY <2>2, <2>3, <2>4, PhaseKeeps
<1>4. ASSUME IdleTimer(i) PROVE PoolInv' /\ SettledStay
  <2>1. PICK x : x = [sessions[i] EXCEPT !.closing = TRUE]
    OBVIOUS
  <2>2. x \in SessionRows /\ x.key = sessions[i].key /\ x.job = sessions[i].job
        /\ x.closing = TRUE /\ x.phase = sessions[i].phase
    BY <1>1, <2>1 DEF SessionRows
  <2>3. x.job = NoCall
    BY <1>4, <2>2 DEF IdleTimer, Idle
  <2>4. PhaseFits(x)
    BY <1>1, <2>2 DEF PhaseFits
  <2>5. sessions' = [sessions EXCEPT ![i] = x] /\ call' = call /\ queue' = queue /\ poolClosed' = poolClosed
    BY <1>4, <2>1 DEF IdleTimer
  <2> QED
    BY <2>2, <2>3, <2>4, <2>5, PhaseKeeps
<1>5. ASSUME Kill(i) PROVE PoolInv' /\ SettledStay
  <2>1. PICK x : x = [sessions[i] EXCEPT !.phase = "gone"]
    OBVIOUS
  <2>2. x \in SessionRows /\ x.key = sessions[i].key /\ x.job = sessions[i].job
        /\ x.closing = sessions[i].closing /\ x.phase = "gone"
    BY <1>1, <2>1 DEF SessionRows
  <2>3. PhaseFits(x)
    BY <1>5, <2>2 DEF PhaseFits, Kill
  <2>4. sessions' = [sessions EXCEPT ![i] = x] /\ call' = call /\ queue' = queue /\ poolClosed' = poolClosed
    BY <1>5, <2>1 DEF Kill
  <2> QED
    BY <2>2, <2>3, <2>4, PhaseKeeps
<1> QED
  BY <1>2, <1>3, <1>4, <1>5

(* A session whose child could not be started, or went away.               *)
LEMMA GoneKeeps ==
  ASSUME PoolInv, NEW i \in DOMAIN sessions, StartFails(i) \/ Exit(i)
  PROVE  PoolInv' /\ SettledStay
<1>1. /\ PhaseFits(sessions[i]) /\ sessions[i] \in SessionRows /\ sessions[i].closing \in BOOLEAN
      /\ PoolFits(call, queue, sessions)
      /\ sessions[i].job # NoCall => \E c \in Calls : sessions[i].job = <<c>>
  BY SessionIs
<1>2. PICK x : x = [sessions[i] EXCEPT !.phase = "gone", !.closing = TRUE]
  OBVIOUS
<1>3. x \in SessionRows /\ x.key = sessions[i].key /\ x.job = sessions[i].job
      /\ x.closing = TRUE /\ x.phase = "gone"
  BY <1>1, <1>2 DEF SessionRows
<1>4. sessions' = [sessions EXCEPT ![i] = x] /\ queue' = queue /\ poolClosed' = poolClosed
  BY <1>2 DEF StartFails, Exit
<1>5. PhaseFits(x)
  BY <1>3 DEF PhaseFits
<1>6. CASE sessions[i].closing \/ sessions[i].job = NoCall
  <2>1. call' = call
    <3>1. ASSUME StartFails(i) PROVE call' = call
      <4>1. PICK c \in Calls : sessions[i].job = <<c>>
        BY <1>1, <3>1 DEF StartFails, PhaseFits
      <4>2. call[c].state = "stopping"
        BY <1>1, <1>6, <4>1, SomeCall, FitsIs DEF Serves
      <4> QED
        BY <3>1, <4>1, <4>2 DEF StartFails, Cancellable
    <3>2. ASSUME Exit(i) PROVE call' = call
      BY <1>6, <3>2 DEF Exit
    <3> QED
      BY <3>1, <3>2
  <2> QED
    BY <1>3, <1>4, <1>5, <1>6, <2>1, PhaseKeeps
<1>7. CASE ~(sessions[i].closing \/ sessions[i].job = NoCall)
  <2>1. PICK c \in Calls : sessions[i].job = <<c>>
    BY <1>1, <1>7
  <2>2. call[c].state = "assigned"
    BY <1>1, <1>7, <2>1, FitsIs DEF Serves
  <2>3. call' = Mark(call, c, "stopping")
    BY <1>7, <2>1, <2>2 DEF StartFails, Exit, Cancellable
  <2> QED
    BY <1>3, <1>4, <1>7, <2>1, <2>3, ClosingKeeps
<1> QED
  BY <1>6, <1>7

(* An answer settles the call and frees the session.                       *)
LEMMA ReceiveKeeps == ASSUME PoolInv, NEW i \in DOMAIN sessions, Receive(i) PROVE PoolInv' /\ SettledStay
<1>1. /\ PhaseFits(sessions[i]) /\ sessions[i] \in SessionRows /\ PoolFits(call, queue, sessions)
      /\ sessions[i].job # NoCall => \E c \in Calls : sessions[i].job = <<c>>
  BY SessionIs
<1>2. sessions[i].phase = "running" /\ ~sessions[i].closing /\ sessions[i].job # NoCall /\ poolClosed' = poolClosed
  BY DEF Receive, Answering
<1>3. PICK c \in Calls : sessions[i].job = <<c>>
  BY <1>1, <1>2
<1>4. PICK x : x = [sessions[i] EXCEPT !.job = NoCall, !.sent = FALSE]
  OBVIOUS
<1>5. x \in SessionRows /\ x.key = sessions[i].key /\ x.job = NoCall /\ x.phase = "running"
      /\ x.closing = sessions[i].closing
  BY <1>1, <1>2, <1>4 DEF SessionRows
<1>6. PICK t : t = [sessions EXCEPT ![i] = x]
  OBVIOUS
<1>7. PICK n : n = [call EXCEPT ![c].state = "resolved"]
  OBVIOUS
<1>8. Becomes(Pumped(n, queue, t))
  <2>1. n = Mark(call, sessions[i].job[1], "resolved")
    BY <1>3, <1>7 DEF Mark
  <2>2. t = [sessions EXCEPT ![i].job = NoCall, ![i].sent = FALSE]
    BY <1>4, <1>6
  <2> QED
    BY <2>1, <2>2 DEF Receive, AfterAnswer
<1>9. /\ sessions \in Seq(SessionRows) /\ Len(sessions) <= MaxWorkers
      /\ \A j \in DOMAIN sessions : PhaseFits(sessions[j])
  BY <1>1, FitsIs
<1>10. /\ t \in Seq(SessionRows) /\ Len(t) = Len(sessions) /\ DOMAIN t = DOMAIN sessions /\ t[i] = x
       /\ \A j \in DOMAIN sessions : j # i => t[j] = sessions[j]
  BY <1>5, <1>6, <1>9, Changing
<1>11. call[c].state = "assigned"
  BY <1>1, <1>2, <1>3, FitsIs DEF Serves
<1>12. /\ n \in [Calls -> CallRows] /\ n[c].state = "resolved" /\ n[c].key = call[c].key
       /\ \A d \in Calls : d # c => n[d] = call[d]
  <2>1. call \in [Calls -> CallRows]
    BY <1>1, FitsIs
  <2> QED
    BY <1>7, <2>1 DEF CallRows, CallStates
<1>13. SessionsFit(n, t)
  <2>1. OneEach(t)
    <3>1. \A j, l \in DOMAIN sessions : sessions[j].key = sessions[l].key => j = l
      BY <1>1, FitsIs
    <3>2. \A j \in DOMAIN t : j \in DOMAIN sessions /\ t[j].key = sessions[j].key
      BY <1>5, <1>10
    <3> QED
      BY <3>1, <3>2 DEF OneEach
  <2>2. \A j \in DOMAIN t : PhaseFits(t[j])
    BY <1>5, <1>9, <1>10 DEF PhaseFits
  <2>3. JobsServed(n, t)
    <3> SUFFICES ASSUME NEW j \in DOMAIN t, NEW d \in Calls, t[j].job = <<d>> PROVE Serves(n, t[j], d)
      BY DEF JobsServed
    <3>1. j # i /\ j \in DOMAIN sessions /\ t[j] = sessions[j]
      BY <1>5, <1>10, SomeCall
    <3>2. d # c
      BY <1>1, <1>3, <3>1, OneServer
    <3>3. Serves(call, sessions[j], d)
      BY <1>1, <3>1, FitsIs
    <3> QED
      BY <1>12, <3>1, <3>2, <3>3 DEF Serves
  <2>4. CallsServed(n, t)
    <3> SUFFICES ASSUME NEW d \in Calls, n[d].state \in {"assigned", "stopping"}
                 PROVE  \E j \in DOMAIN t : t[j].job = <<d>>
      BY DEF CallsServed
    <3>1. d # c /\ call[d].state \in {"assigned", "stopping"}
      BY <1>12
    <3>2. PICK j \in DOMAIN sessions : sessions[j].job = <<d>>
      BY <1>1, <3>1 DEF PoolFits, SessionsFit, CallsServed
    <3>3. j # i
      BY <1>3, <3>1, <3>2
    <3> QED
      BY <1>10, <3>2, <3>3
  <2> QED
    BY <1>9, <1>10, <2>1, <2>2, <2>3, <2>4 DEF SessionsFit
<1>14. QueueFits(n, queue)
  BY <1>1, <1>11, <1>12 DEF PoolFits, QueueFits
<1>15. PoolFits(n, queue, t)
  BY <1>12, <1>13, <1>14 DEF PoolFits
<1>16. \A d \in Calls : call[d].state \in Settled => n[d] = call[d]
  BY <1>11, <1>12 DEF Settled
<1> QED
  BY <1>2, <1>8, <1>15, <1>16, PumpKeeps DEF PoolInv

(* The session has stopped: it leaves, and its call is rejected.           *)
LEMMA StoppedKeeps == ASSUME PoolInv, NEW i \in DOMAIN sessions, Stopped(i) PROVE PoolInv' /\ SettledStay
<1>1. /\ sessions[i] \in SessionRows /\ PoolFits(call, queue, sessions)
      /\ sessions[i].job # NoCall => \E c \in Calls : sessions[i].job = <<c>>
  BY SessionIs
<1>2. sessions[i].closing /\ poolClosed' = poolClosed
  BY DEF Stopped
<1>3. PICK n : n = IF AwaitsStop(sessions[i].job) THEN Mark(call, sessions[i].job[1], "rejected") ELSE call
  OBVIOUS
<1>4. PICK t : t = RemoveAt(sessions, i)
  OBVIOUS
<1>5. Becomes(Pumped(n, queue, t))
  BY <1>3, <1>4 DEF Stopped
<1>6. /\ sessions \in Seq(SessionRows) /\ Len(sessions) <= MaxWorkers /\ Len(sessions) \in Nat
      /\ DOMAIN sessions = 1..Len(sessions)
      /\ \A j \in DOMAIN sessions : PhaseFits(sessions[j])
      /\ \A j, l \in DOMAIN sessions : sessions[j].key = sessions[l].key => j = l
      /\ call \in [Calls -> CallRows]
  BY <1>1, FitsIs
<1>7. /\ t \in Seq(SessionRows) /\ Len(t) = Len(sessions) - 1
      /\ \A j \in DOMAIN t : t[j] = sessions[IF j < i THEN j ELSE j + 1]
  <2>1. sessions \in Seq(SessionRows)
    BY <1>6
  <2> QED
    BY <1>4, <2>1, Removing
(* What is left: every other session, under another number.                *)
<1>8. \A j \in DOMAIN t : \E l \in DOMAIN sessions : l # i /\ t[j] = sessions[l]
  <2> SUFFICES ASSUME NEW j \in DOMAIN t PROVE \E l \in DOMAIN sessions : l # i /\ t[j] = sessions[l]
    OBVIOUS
  <2>1. j \in 1..(Len(sessions) - 1)
    BY <1>7
  <2>2. (IF j < i THEN j ELSE j + 1) \in DOMAIN sessions /\ (IF j < i THEN j ELSE j + 1) # i
    BY <1>6, <2>1
  <2> QED
    BY <1>7, <2>2
<1>9. \A l \in DOMAIN sessions : l # i => \E j \in DOMAIN t : t[j] = sessions[l]
  <2> SUFFICES ASSUME NEW l \in DOMAIN sessions, l # i PROVE \E j \in DOMAIN t : t[j] = sessions[l]
    OBVIOUS
  <2>1. PICK j : j = IF l < i THEN l ELSE l - 1
    OBVIOUS
  <2>2. j \in 1..(Len(sessions) - 1) /\ (IF j < i THEN j ELSE j + 1) = l
    BY <1>6, <2>1
  <2>3. j \in DOMAIN t
    BY <1>7, <2>2
  <2> QED
    BY <1>7, <2>2, <2>3
<1>10. /\ n \in [Calls -> CallRows]
       /\ \A d \in Calls : \/ sessions[i].job # <<d>> /\ n[d] = call[d]
                           \/ /\ sessions[i].job = <<d>> /\ call[d].state = "stopping"
                              /\ n[d].state = "rejected" /\ n[d].key = call[d].key
  <2>1. CASE sessions[i].job = NoCall
    <3>1. n = call
      BY <1>3, <2>1 DEF AwaitsStop
    <3> QED
      BY <1>6, <2>1, <3>1, SomeCall
  <2>2. CASE sessions[i].job # NoCall
    <3>1. PICK c \in Calls : sessions[i].job = <<c>>
      BY <1>1, <2>2
    <3>2. call[c].state = "stopping"
      BY <1>1, <1>2, <3>1, FitsIs DEF Serves
    <3>3. n = [call EXCEPT ![c].state = "rejected"]
      BY <1>3, <2>2, <3>1, <3>2 DEF AwaitsStop, Mark
    <3>4. n \in [Calls -> CallRows] /\ n[c].state = "rejected" /\ n[c].key = call[c].key
          /\ \A d \in Calls : d # c => n[d] = call[d]
      BY <1>6, <3>3 DEF CallRows, CallStates
    <3>5. \A d \in Calls : d # c => sessions[i].job # <<d>>
      BY <3>1
    <3> QED
      BY <3>1, <3>2, <3>4, <3>5
  <2> QED
    BY <2>1, <2>2
<1>11. SessionsFit(n, t)
  <2>1. OneEach(t)
    <3> SUFFICES ASSUME NEW j \in DOMAIN t, NEW l \in DOMAIN t, t[j].key = t[l].key PROVE j = l
      BY DEF OneEach
    <3>1. j \in 1..(Len(sessions) - 1) /\ l \in 1..(Len(sessions) - 1)
      BY <1>7
    <3>2. PICK u : u = IF j < i THEN j ELSE j + 1
      OBVIOUS
    <3>3. PICK v : v = IF l < i THEN l ELSE l + 1
      OBVIOUS
    <3>4. u \in DOMAIN sessions /\ v \in DOMAIN sessions
      BY <1>6, <3>1, <3>2, <3>3
    <3>5. t[j] = sessions[u] /\ t[l] = sessions[v]
      BY <1>7, <3>2, <3>3
    <3>6. u = v
      BY <1>6, <3>4, <3>5
    <3> QED
      BY <1>6, <3>1, <3>2, <3>3, <3>6
  <2>2. \A j \in DOMAIN t : PhaseFits(t[j])
    BY <1>6, <1>8
  <2>3. JobsServed(n, t)
    <3> SUFFICES ASSUME NEW j \in DOMAIN t, NEW d \in Calls, t[j].job = <<d>> PROVE Serves(n, t[j], d)
      BY DEF JobsServed
    <3>1. PICK l \in DOMAIN sessions : l # i /\ t[j] = sessions[l]
      BY <1>8
    <3>2. sessions[i].job # <<d>>
      BY <1>1, <3>1, OneServer
    <3>3. Serves(call, sessions[l], d)
      BY <1>1, <3>1, FitsIs
    <3> QED
      BY <1>10, <3>1, <3>2, <3>3 DEF Serves
  <2>4. CallsServed(n, t)
    <3> SUFFICES ASSUME NEW d \in Calls, n[d].state \in {"assigned", "stopping"}
                 PROVE  \E j \in DOMAIN t : t[j].job = <<d>>
      BY DEF CallsServed
    <3>1. sessions[i].job # <<d>> /\ call[d].state \in {"assigned", "stopping"}
      BY <1>10
    <3>2. PICK l \in DOMAIN sessions : sessions[l].job = <<d>>
      BY <1>1, <3>1 DEF PoolFits, SessionsFit, CallsServed
    <3>3. l # i
      BY <3>1, <3>2
    <3> QED
      BY <1>9, <3>2, <3>3
  <2>5. Len(t) <= MaxWorkers
    BY <1>6, <1>7, PoolAssumption
  <2> QED
    BY <1>7, <2>1, <2>2, <2>3, <2>4, <2>5 DEF SessionsFit
<1>12. \A d \in Calls : n[d].state = "queued" <=> call[d].state = "queued"
  BY <1>10
<1>13. QueueFits(n, queue)
  BY <1>1, <1>12 DEF PoolFits, QueueFits
<1>14. PoolFits(n, queue, t)
  BY <1>10, <1>11, <1>13 DEF PoolFits
<1>15. \A d \in Calls : call[d].state \in Settled => n[d] = call[d]
  BY <1>10 DEF Settled
<1> QED
  BY <1>2, <1>5, <1>14, <1>15, PumpKeeps DEF PoolInv

(* close empties the queue, and every session begins to close.             *)
LEMMA CloseKeeps == ASSUME PoolInv, ClosePool PROVE PoolInv' /\ SettledStay
<1>1. PoolFits(call, queue, sessions)
  BY DEF PoolInv
<1>2. poolClosed' = TRUE /\ queue' = <<>>
  BY DEF ClosePool
<1>3. PICK t : t = [i \in DOMAIN sessions |-> [sessions[i] EXCEPT !.closing = TRUE]]
  OBVIOUS
<1>4. PICK n : n = [c \in Calls |-> [call[c] EXCEPT !.state =
                      CASE @ = "queued" -> "rejected" [] @ = "assigned" -> "stopping" [] OTHER -> @]]
  OBVIOUS
<1>5. call' = n /\ sessions' = t
  BY <1>3, <1>4 DEF ClosePool
<1>6. sessions \in Seq(SessionRows) /\ Len(sessions) \in Nat /\ DOMAIN sessions = 1..Len(sessions)
      /\ \A i \in DOMAIN sessions : sessions[i] \in SessionRows
  BY <1>1, FitsIs
<1>7. \A i \in DOMAIN sessions :
        /\ t[i] \in SessionRows
        /\ t[i].key = sessions[i].key /\ t[i].job = sessions[i].job /\ t[i].closing = TRUE
        /\ t[i].phase = sessions[i].phase
  BY <1>3, <1>6 DEF SessionRows
<1>8. SessionsStay(sessions, t)
  <2>1. DOMAIN t = 1..Len(sessions) /\ \A i \in 1..Len(sessions) : t[i] \in SessionRows
    BY <1>3, <1>6, <1>7
  <2>2. t = [i \in 1..Len(sessions) |-> t[i]]
    BY <1>3, <1>6
  <2>3. t \in Seq(SessionRows) /\ Len(t) = Len(sessions)
    BY <1>6, <2>1, <2>2
  <2>4. \A i \in DOMAIN sessions : PhaseFits(sessions[i])
    BY <1>1, FitsIs
  <2> QED
    BY <1>6, <1>7, <2>1, <2>3, <2>4 DEF PhaseFits, SessionsStay
<1>9. \A c \in Calls :
        /\ call[c] \in CallRows
        /\ n[c] = [call[c] EXCEPT !.state = IF call[c].state = "queued" THEN "rejected"
                                            ELSE IF call[c].state = "assigned" THEN "stopping" ELSE call[c].state]
  <2>1. call \in [Calls -> CallRows]
    BY <1>1, FitsIs
  <2> QED
    BY <1>4, <2>1
<1>10. \A c \in Calls :
         /\ n[c] \in CallRows /\ n[c].key = call[c].key
         /\ n[c].state = IF call[c].state = "queued" THEN "rejected"
                         ELSE IF call[c].state = "assigned" THEN "stopping" ELSE call[c].state
  BY <1>9 DEF CallRows, CallStates
<1>11. n \in [Calls -> CallRows]
  BY <1>4, <1>10
<1>12. NoneAssigned(call, n)
  BY <1>10 DEF NoneAssigned
<1>13. JobsServed(n, t)
  <2> SUFFICES ASSUME NEW j \in DOMAIN t, NEW d \in Calls, t[j].job = <<d>> PROVE Serves(n, t[j], d)
    BY DEF JobsServed
  <2>1. j \in DOMAIN sessions /\ sessions[j].job = <<d>> /\ Serves(call, sessions[j], d)
    BY <1>1, <1>3, <1>7, FitsIs
  <2>2. call[d].state \in {"assigned", "stopping"} /\ sessions[j].key = call[d].key
    BY <2>1 DEF Serves
  <2> QED
    BY <1>7, <1>10, <2>1, <2>2 DEF Serves
<1>14. SessionsFit(n, t)
  BY <1>1, <1>8, <1>12, <1>13, SessionsMove
<1>15. QueueFits(n, <<>>)
  <2>1. \A c \in Calls : n[c].state # "queued"
    BY <1>10
  <2> QED
    BY <2>1 DEF QueueFits, Distinct, InQueue
<1>16. PoolFits(n, <<>>, t)
  BY <1>11, <1>14, <1>15 DEF PoolFits
<1>17. Len(<<>>) <= MaxQueue
  BY PoolAssumption
<1>18. PoolInv'
  BY <1>2, <1>5, <1>16, <1>17 DEF PoolInv
<1>19. SettledStay
  BY <1>5, <1>9 DEF SettledStay, Settled, CallRows
<1> QED
  BY <1>18, <1>19

LEMMA PoolSteps == ASSUME PoolInv, [PoolNext]_poolVars PROVE PoolInv' /\ SettledStay
<1>1. ASSUME NEW c \in Calls, Request(c) \/ TimeOut(c) PROVE PoolInv' /\ SettledStay
  BY <1>1, RequestKeeps, CancelKeeps DEF TimeOut
<1>2. ASSUME NEW i \in DOMAIN sessions, SessionStep(i) PROVE PoolInv' /\ SettledStay
  <2>1. CASE Start(i) \/ Dispatch(i) \/ IdleTimer(i) \/ Kill(i)
    BY <2>1, QuietActions
  <2>2. CASE StartFails(i) \/ Exit(i)
    BY <2>2, GoneKeeps
  <2>3. CASE Receive(i)
    BY <2>3, ReceiveKeeps
  <2>4. CASE Refuse(i)
    <3>1. sessions[i].job # NoCall /\ Cancelled(sessions[i].job[1])
      BY <2>4 DEF Refuse, Answering
    <3>2. PICK c \in Calls : sessions[i].job = <<c>>
      BY <3>1, SessionIs
    <3>3. Cancelled(c)
      BY <3>1, <3>2
    <3> QED
      BY <3>3, CancelKeeps
  <2>5. CASE Stopped(i)
    BY <2>5, StoppedKeeps
  <2> QED
    BY <1>2, <2>1, <2>2, <2>3, <2>4, <2>5 DEF SessionStep
<1>3. ASSUME UNCHANGED poolVars PROVE PoolInv' /\ SettledStay
  <2>1. call' = call /\ queue' = queue /\ sessions' = sessions /\ poolClosed' = poolClosed
    BY <1>3 DEF poolVars
  <2> QED
    BY <2>1 DEF PoolInv, SettledStay
<1> QED
  BY <1>1, <1>2, <1>3, CloseKeeps DEF PoolNext

LEMMA PoolInvariant == PoolSpec => []PoolInv
<1>1. PoolInv /\ [PoolNext]_poolVars => PoolInv'
  BY PoolSteps
<1> QED
  BY <1>1, PoolBegins, PTL DEF PoolSpec

LEMMA PoolIsTyped == PoolInv => PoolTypeOK
<1> SUFFICES ASSUME PoolInv PROVE PoolTypeOK
  OBVIOUS
<1>1. PoolFits(call, queue, sessions) /\ poolClosed \in BOOLEAN /\ Len(queue) <= MaxQueue
  BY DEF PoolInv
<1>2. /\ call \in [Calls -> CallRows] /\ queue \in Seq(Calls) /\ sessions \in Seq(SessionRows)
      /\ Len(sessions) <= MaxWorkers
      /\ \A i, j \in DOMAIN sessions : sessions[i].key = sessions[j].key => i = j
  BY <1>1, FitsIs
<1> QED
  BY <1>1, <1>2 DEF PoolTypeOK, CallRows, SessionRows

LEMMA PoolIsServing == PoolInv => PoolServes
<1> SUFFICES ASSUME PoolInv PROVE PoolServes
  OBVIOUS
<1>1. PoolFits(call, queue, sessions)
  BY DEF PoolInv
<1>2. NoLostWakeup
  <2> SUFFICES ASSUME ~poolClosed, NEW q \in DOMAIN queue
               PROVE  Waits(call[queue[q]].key, sessions)
    BY DEF NoLostWakeup, Waits
  <2>1. queue[q] \in Calls /\ InQueue(queue, queue[q])
    BY <1>1, FitsIs DEF InQueue
  <2>2. call[queue[q]].state = "queued"
    BY <1>1, <2>1 DEF PoolFits, QueueFits
  <2> QED
    BY <2>1, <2>2 DEF PoolInv, Waiting
<1>3. RejectedIsStopped
  <2> SUFFICES ASSUME NEW c \in Calls, call[c].state = "rejected"
               PROVE  SessionOf(c) = {} /\ \A q \in DOMAIN queue : queue[q] # c
    BY DEF RejectedIsStopped
  <2>1. SessionOf(c) = {}
    BY <1>1, FitsIs DEF SessionOf, Serves
  <2>2. ~InQueue(queue, c)
    BY <1>1 DEF PoolFits, QueueFits
  <2> QED
    BY <2>1, <2>2 DEF InQueue
<1>4. AssignedIsServed
  <2> SUFFICES ASSUME NEW c \in Calls, call[c].state \in {"assigned", "stopping"}
               PROVE  \E i \in DOMAIN sessions : sessions[i].job = <<c>> /\ sessions[i].key = call[c].key
    BY DEF AssignedIsServed
  <2>1. PICK i \in DOMAIN sessions : sessions[i].job = <<c>>
    BY <1>1 DEF PoolFits, SessionsFit, CallsServed
  <2>2. sessions[i].key = call[c].key
    BY <1>1, <2>1, FitsIs DEF Serves
  <2> QED
    BY <2>1, <2>2
<1> QED
  BY <1>2, <1>3, <1>4 DEF PoolServes

(* The pool keeps its tables in shape and loses no wake-up: a call waits   *)
(* only for its own busy or stopping session or for room, a rejected call  *)
(* has no process any more, and an assigned one has its own (pump, cancel, *)
(* stop and close of model-worker-pool.ts).                                *)
THEOREM PoolServing == PoolSpec => [](PoolTypeOK /\ PoolServes)
<1>1. PoolInv => PoolTypeOK /\ PoolServes
  BY PoolIsTyped, PoolIsServing
<1> QED
  BY <1>1, PoolInvariant, PTL

(* Nothing that comes late, an answer, a timer, an exit or a close, changes*)
(* a call that was answered or rejected.                                   *)
THEOREM AnswersAreFinal == PoolSpec => SettledOnce
<1>1. PoolInv /\ [PoolNext]_poolVars
      => [\A c \in Calls : call[c].state \in Settled => call'[c] = call[c]]_poolVars
  BY PoolSteps DEF SettledStay
<1> QED
  BY <1>1, PoolInvariant, PTL DEF PoolSpec, SettledOnce

---------------------------------------------------------------------------
(* The work on artifacts                                                   *)

ViewRows == [status : {"none", "pending", "working", "ready", "error"},
             owner : {0} \cup Owners, lapsed : BOOLEAN]
TaskRows == [id : TaskIds, owner : Owners, completing : BOOLEAN]

(* An owner has one view, was handed out, and is not among the ended ones. *)
OwnersFit(v, m, e) ==
  /\ v \in [Artifacts -> ViewRows] /\ m \in 0..MaxWork /\ e \subseteq 0..m
  /\ \A a \in Artifacts : (v[a].owner # 0) <=> (v[a].status = "working")
  /\ \A a \in Artifacts : v[a].owner \in 0..m /\ v[a].owner \notin e \ {0}
  /\ \A a, b \in Artifacts : v[a].owner # 0 /\ v[a].owner = v[b].owner => a = b

TasksFit(t) ==
  /\ t \in [Artifacts -> {NoTask} \cup TaskRows]
  /\ \A a, b \in Artifacts : a # b /\ t[a] # NoTask /\ t[b] # NoTask => t[a].id # t[b].id

ArtTablesFit ==
  /\ exists \subseteq Artifacts /\ failed \subseteq Artifacts /\ unwinding \subseteq Artifacts
  /\ writes \in Seq(Writes) /\ Len(writes) <= MaxWrites

ArtInv == OwnersFit(views, lastOwner, ended) /\ TasksFit(task) /\ ArtTablesFit

LEMMA FreeIs ==
  /\ NoView \in ViewRows /\ NoView.owner = 0 /\ NoView.status = "none"
  /\ \A s \in {"none", "pending", "ready", "error"} :
       Free(s) \in ViewRows /\ Free(s).owner = 0 /\ Free(s).status = s
<1>1. NoView \in ViewRows /\ NoView.owner = 0 /\ NoView.status = "none"
  BY DEF NoView, ViewRows
<1>2. ASSUME NEW s \in {"none", "pending", "ready", "error"}
      PROVE  Free(s) \in ViewRows /\ Free(s).owner = 0 /\ Free(s).status = s
  BY <1>1 DEF Free, ViewRows
<1> QED
  BY <1>1, <1>2

(* Views that give owners up.                                              *)
LEMMA OwnersEnd ==
  ASSUME OwnersFit(views, lastOwner, ended), NEW v \in [Artifacts -> ViewRows],
         \A a \in Artifacts : v[a].owner \in {0, views[a].owner} /\ ((v[a].owner # 0) <=> (v[a].status = "working")),
         SetViews(v), lastOwner' = lastOwner
  PROVE  OwnersFit(views, lastOwner, ended)'
<1>1. views' = v /\ ended' = ended \cup {views[a].owner : a \in {b \in Artifacts : views[b].owner # v[b].owner}}
  BY DEF SetViews
<1>2. /\ lastOwner \in 0..MaxWork /\ ended \subseteq 0..lastOwner
      /\ \A a \in Artifacts : views[a].owner \in 0..lastOwner /\ views[a].owner \notin ended \ {0}
      /\ \A a, b \in Artifacts : views[a].owner # 0 /\ views[a].owner = views[b].owner => a = b
  BY DEF OwnersFit
<1>3. ended' \subseteq 0..lastOwner
  BY <1>1, <1>2
<1>4. \A a \in Artifacts : v[a].owner \in 0..lastOwner
  BY <1>2, ArtAssumption
<1>5. ASSUME NEW a \in Artifacts, v[a].owner # 0 PROVE v[a].owner \notin ended'
  <2>1. v[a].owner = views[a].owner /\ views[a].owner \notin ended
    BY <1>2, <1>5
  <2>2. \A b \in Artifacts : views[b].owner # v[b].owner => views[b].owner # views[a].owner
    BY <1>2, <1>5, <2>1
  <2> QED
    BY <1>1, <2>1, <2>2
<1>6. \A a, b \in Artifacts : v[a].owner # 0 /\ v[a].owner = v[b].owner => a = b
  BY <1>2
<1> QED
  BY <1>1, <1>2, <1>3, <1>4, <1>5, <1>6 DEF OwnersFit

LEMMA OwnerEnds ==
  ASSUME OwnersFit(views, lastOwner, ended), NEW a \in Artifacts, NEW w \in ViewRows,
         w.owner \in {0, views[a].owner}, (w.owner # 0) <=> (w.status = "working"),
         SetView(a, w), lastOwner' = lastOwner
  PROVE  OwnersFit(views, lastOwner, ended)'
<1>1. PICK v : v = [views EXCEPT ![a] = w]
  OBVIOUS
<1>2. views \in [Artifacts -> ViewRows]
  BY DEF OwnersFit
<1>3. v \in [Artifacts -> ViewRows] /\ v[a] = w /\ \A b \in Artifacts : b # a => v[b] = views[b]
  BY <1>1, <1>2
<1>4. \A b \in Artifacts : v[b].owner \in {0, views[b].owner} /\ ((v[b].owner # 0) <=> (v[b].status = "working"))
  BY <1>3 DEF OwnersFit
<1>5. SetViews(v)
  BY <1>1 DEF SetView
<1> QED
  BY <1>3, <1>4, <1>5, OwnersEnd

(* begin hands out an owner that nobody had.                               *)
LEMMA OwnerBegins ==
  ASSUME OwnersFit(views, lastOwner, ended), NEW a \in Artifacts, Begin(a)
  PROVE  OwnersFit(views, lastOwner, ended)'
<1>1. PICK m : m = lastOwner + 1
  OBVIOUS
<1>2. PICK v : v = [views EXCEPT ![a] = [status |-> "working", owner |-> m, lapsed |-> FALSE]]
  OBVIOUS
<1>3. /\ views' = v /\ lastOwner' = m /\ lastOwner < MaxWork /\ views[a].owner = 0
      /\ ended' = ended \cup {views[b].owner : b \in {c \in Artifacts : views[c].owner # v[c].owner}}
  BY <1>1, <1>2 DEF Begin, Busy, SetView, SetViews, FreshOwner
<1>4. /\ lastOwner \in 0..MaxWork /\ ended \subseteq 0..lastOwner /\ views \in [Artifacts -> ViewRows]
      /\ \A b \in Artifacts : (views[b].owner # 0) <=> (views[b].status = "working")
      /\ \A b \in Artifacts : views[b].owner \in 0..lastOwner /\ views[b].owner \notin ended \ {0}
      /\ \A b, c \in Artifacts : views[b].owner # 0 /\ views[b].owner = views[c].owner => b = c
  BY DEF OwnersFit
<1>5. MaxWork \in Nat /\ m \in 0..MaxWork /\ m \in Owners /\ 0..lastOwner \subseteq 0..m /\ m \notin 0..lastOwner /\ m # 0
  BY <1>1, <1>3, <1>4, ArtAssumption DEF Owners
<1>6. /\ v \in [Artifacts -> ViewRows] /\ v[a].owner = m /\ v[a].status = "working"
      /\ \A b \in Artifacts : b # a => v[b] = views[b]
  BY <1>2, <1>4, <1>5 DEF ViewRows
<1>7. ended' \subseteq ended \cup {0}
  BY <1>3, <1>6
<1>8. ended' \subseteq 0..m
  BY <1>4, <1>5, <1>7
<1>9. \A b \in Artifacts : (v[b].owner # 0) <=> (v[b].status = "working")
  BY <1>4, <1>5, <1>6
<1>10. \A b \in Artifacts : v[b].owner \in 0..m /\ v[b].owner \notin ended' \ {0}
  <2> SUFFICES ASSUME NEW b \in Artifacts PROVE v[b].owner \in 0..m /\ v[b].owner \notin ended' \ {0}
    OBVIOUS
  <2>1. CASE b = a
    BY <1>4, <1>5, <1>6, <1>7, <2>1
  <2>2. CASE b # a
    BY <1>4, <1>5, <1>6, <1>7, <2>2
  <2> QED
    BY <2>1, <2>2
<1>11. \A b, c \in Artifacts : v[b].owner # 0 /\ v[b].owner = v[c].owner => b = c
  BY <1>4, <1>5, <1>6
<1> QED
  BY <1>3, <1>5, <1>6, <1>8, <1>9, <1>10, <1>11 DEF OwnersFit

LEMMA ViewLapses ==
  ASSUME OwnersFit(views, lastOwner, ended), NEW a \in Artifacts, LapseView(a)
  PROVE  OwnersFit(views, lastOwner, ended)'
<1>1. PICK v : v = [views EXCEPT ![a].lapsed = TRUE]
  OBVIOUS
<1>2. views' = v /\ lastOwner' = lastOwner /\ ended' = ended
  BY <1>1 DEF LapseView
<1>3. views \in [Artifacts -> ViewRows]
  BY DEF OwnersFit
<1>4. v \in [Artifacts -> ViewRows]
      /\ \A b \in Artifacts : v[b].owner = views[b].owner /\ v[b].status = views[b].status
  BY <1>1, <1>3 DEF ViewRows
<1> QED
  BY <1>2, <1>4 DEF OwnersFit

LEMMA Recovering ==
  ASSUME OwnersFit(views, lastOwner, ended), NEW S, Recover(S)
  PROVE  OwnersFit(views, lastOwner, ended)'
<1>1. PICK v : v = [b \in Artifacts |-> IF b \in S /\ views[b].status = "none" THEN Free("ready") ELSE views[b]]
  OBVIOUS
<1>2. SetViews(v) /\ lastOwner' = lastOwner
  BY <1>1 DEF Recover
<1>3. v \in [Artifacts -> ViewRows]
  BY <1>1, FreeIs DEF OwnersFit
<1>4. \A b \in Artifacts : v[b].owner \in {0, views[b].owner} /\ ((v[b].owner # 0) <=> (v[b].status = "working"))
  BY <1>1, FreeIs DEF OwnersFit
<1> QED
  BY <1>2, <1>3, <1>4, OwnersEnd

(* Which steps touch the views, and how.                                   *)
LEMMA ViewSteps ==
  ASSUME ArtInv, NEW a \in Artifacts, ArtStep(a)
  PROVE  OwnersFit(views, lastOwner, ended)'
<1>1. OwnersFit(views, lastOwner, ended)
  BY DEF ArtInv
<1>2. views \in [Artifacts -> ViewRows] /\ \A b \in Artifacts : views[b] \in ViewRows
  BY <1>1 DEF OwnersFit
<1>3. ASSUME views' = views, lastOwner' = lastOwner, ended' = ended PROVE OwnersFit(views, lastOwner, ended)'
  BY <1>1, <1>3
<1>4. ASSUME NEW s \in {"none", "pending", "ready", "error"}, SetView(a, Free(s)), lastOwner' = lastOwner
      PROVE  OwnersFit(views, lastOwner, ended)'
  <2>1. Free(s) \in ViewRows /\ Free(s).owner = 0 /\ Free(s).status = s
    BY FreeIs
  <2>2. PICK w \in ViewRows : w = Free(s)
    BY <2>1
  <2>3. w.owner \in {0, views[a].owner} /\ ((w.owner # 0) <=> (w.status = "working")) /\ SetView(a, w)
    BY <1>4, <2>1, <2>2
  <2> QED
    BY <1>1, <1>4, <2>3, OwnerEnds
<1>5. ASSUME NEW o \in Owners, OwnerStep(a, o) PROVE OwnersFit(views, lastOwner, ended)'
  <2>1. CASE CompleteWork(a, o)
    <3>1. SetView(a, Free("ready")) /\ lastOwner' = lastOwner
      BY <2>1 DEF CompleteWork
    <3> QED
      BY <1>4, <3>1
  <2>2. CASE RenewWork(a, o)
    <3>1. PICK w : w = [views[a] EXCEPT !.lapsed = FALSE]
      OBVIOUS
    <3>2. w \in ViewRows /\ w.owner = views[a].owner /\ w.status = views[a].status
      BY <1>2, <3>1 DEF ViewRows
    <3>3. SetView(a, w) /\ lastOwner' = lastOwner
      BY <2>2, <3>1 DEF RenewWork
    <3>4. (w.owner # 0) <=> (w.status = "working")
      BY <1>1, <3>2 DEF OwnersFit
    <3>5. w.owner \in {0, views[a].owner}
      BY <3>2
    <3> QED
      BY <1>1, <3>2, <3>3, <3>4, <3>5, OwnerEnds
  <2>3. CASE FailWork(a, o)
    BY <1>3, <2>3 DEF FailWork
  <2> QED
    BY <1>5, <2>1, <2>2, <2>3 DEF OwnerStep
<1>6. ASSUME TaskStep(a) PROVE OwnersFit(views, lastOwner, ended)'
  <2>1. views' = views /\ lastOwner' = lastOwner /\ ended' = ended
    BY <1>6 DEF TaskStep, WriteTask, DeleteTask, FailPending, UpdateCompleting, DropTask
  <2> QED
    BY <1>3, <2>1
<1>7. ASSUME WriteFailure(a) \/ ClearFailure(a) \/ DeleteArtifact(a) PROVE OwnersFit(views, lastOwner, ended)'
  BY <1>3, <1>7 DEF WriteFailure, ClearFailure, DeleteArtifact
<1>8. ASSUME EnqueuedView(a) \/ MarkWorkspaceReady(a) \/ ResetArtifactRuntime(a)
      PROVE  OwnersFit(views, lastOwner, ended)'
  <2>1. \E s \in {"none", "pending", "ready", "error"} : SetView(a, Free(s)) /\ lastOwner' = lastOwner
    BY <1>8 DEF EnqueuedView, MarkWorkspaceReady, ResetArtifactRuntime
  <2> QED
    BY <1>4, <2>1
<1>9. ASSUME NEW s \in {"ready", "error"}, SettledView(a, s) PROVE OwnersFit(views, lastOwner, ended)'
  <2>1. lastOwner' = lastOwner /\ SetView(a, Updated(a, Free(s)))
    BY <1>9 DEF SettledView
  <2>2. CASE views[a].status # "none"
    BY <1>4, <2>1, <2>2 DEF Updated
  <2>3. CASE views[a].status = "none"
    <3>1. PICK w : w = views[a]
      OBVIOUS
    <3>2. w \in ViewRows /\ w.owner \in {0, views[a].owner} /\ ((w.owner # 0) <=> (w.status = "working"))
      BY <1>1, <1>2, <3>1 DEF OwnersFit
    <3>3. SetView(a, w)
      BY <2>1, <2>3, <3>1 DEF Updated
    <3> QED
      BY <1>1, <2>1, <3>2, <3>3, OwnerEnds
  <2> QED
    BY <2>2, <2>3
<1> QED
  BY <1>1, <1>5, <1>6, <1>7, <1>8, <1>9, Recovering, OwnerBegins, ViewLapses DEF ArtStep

LEMMA ViewStepsOfAll ==
  ASSUME ArtInv, Recover(exists) \/ ReapViews \/ RunWrite
  PROVE  OwnersFit(views, lastOwner, ended)'
<1>1. OwnersFit(views, lastOwner, ended) /\ ArtTablesFit
  BY DEF ArtInv
<1>2. views \in [Artifacts -> ViewRows] /\ \A b \in Artifacts : views[b] \in ViewRows
  BY <1>1 DEF OwnersFit
<1>4. CASE ReapViews
  <2>1. PICK v : v = [b \in Artifacts |-> IF Reapable(b) THEN Reaped(views[b]) ELSE views[b]]
    OBVIOUS
  <2>2. SetViews(v) /\ lastOwner' = lastOwner
    BY <1>4, <2>1 DEF ReapViews
  <2>3. \A b \in Artifacts : v[b] = IF Reapable(b) THEN Free("error") ELSE views[b]
    BY <2>1 DEF Reaped
  <2>4. v \in [Artifacts -> ViewRows]
    BY <1>2, <2>1, FreeIs DEF Reaped
  <2>5. \A b \in Artifacts : v[b].owner \in {0, views[b].owner} /\ ((v[b].owner # 0) <=> (v[b].status = "working"))
    BY <1>1, <2>3, FreeIs DEF OwnersFit
  <2> QED
    BY <1>1, <2>2, <2>4, <2>5, OwnersEnd
<1>5. CASE RunWrite
  <2>1. PICK w \in Writes : w = Head(writes)
    BY <1>1, <1>5 DEF RunWrite, ArtTablesFit
  <2>2. w.art \in Artifacts
    BY <2>1 DEF Writes
  <2>3. PICK a \in Artifacts : a = w.art
    BY <2>2
  <2>4. lastOwner' = lastOwner
    BY <1>5 DEF RunWrite
  <2>5. \E x \in {NoView, Free("error"), Free("ready"), views[a]} : SetView(a, x)
    <3>1. RunFail(w) \/ RunClear(w) \/ RunDelete(w)
      BY <1>5, <2>1 DEF RunWrite
    <3> QED
      BY <2>3, <3>1 DEF RunFail, RunClear, RunDelete, Updated
  <2>6. PICK x \in {NoView, Free("error"), Free("ready"), views[a]} : SetView(a, x)
    BY <2>5
  <2>7. x \in ViewRows /\ x.owner \in {0, views[a].owner} /\ ((x.owner # 0) <=> (x.status = "working"))
    <3>1. CASE x = views[a]
      BY <1>1, <1>2, <3>1 DEF OwnersFit
    <3>2. CASE x = NoView
      BY <3>2, FreeIs
    <3>3. CASE x = Free("error") \/ x = Free("ready")
      BY <3>3, FreeIs
    <3> QED
      BY <2>6, <3>1, <3>2, <3>3
  <2> QED
    BY <1>1, <2>4, <2>6, <2>7, OwnerEnds
<1> QED
  BY <1>1, <1>4, <1>5, Recovering

(* A task is written, deleted or marked; it has its owner until it is gone.*)
TaskOwnersKept == \A a \in Artifacts : task[a] # NoTask /\ task'[a] # NoTask => task'[a].owner = task[a].owner

LEMMA TaskDropped ==
  ASSUME TasksFit(task), NEW a \in Artifacts, task' = [task EXCEPT ![a] = NoTask]
  PROVE  TasksFit(task') /\ TaskOwnersKept
<1>1. PICK t : t = [task EXCEPT ![a] = NoTask]
  OBVIOUS
<1>2. t \in [Artifacts -> {NoTask} \cup TaskRows] /\ t[a] = NoTask /\ \A b \in Artifacts : b # a => t[b] = task[b]
  BY <1>1 DEF TasksFit
<1>3. TasksFit(t)
  BY <1>2 DEF TasksFit
<1> QED
  BY <1>1, <1>2, <1>3 DEF TaskOwnersKept

LEMMA TaskStays == ASSUME TasksFit(task), task' = task PROVE TasksFit(task') /\ TaskOwnersKept
BY DEF TaskOwnersKept

LEMMA TaskSteps == ASSUME ArtInv, ArtNext PROVE TasksFit(task') /\ TaskOwnersKept
<1>1. TasksFit(task) /\ ArtTablesFit
  BY DEF ArtInv
<1>2. ASSUME NEW a \in Artifacts, TaskStep(a) PROVE TasksFit(task') /\ TaskOwnersKept
  <2>1. ASSUME NEW t \in TaskIds, NEW o \in Owners, WriteTask(a, t, o) PROVE TasksFit(task') /\ TaskOwnersKept
    <3>1. PICK n : n = [task EXCEPT ![a] = [id |-> t, owner |-> o, completing |-> FALSE]]
      OBVIOUS
    <3>2. task' = n /\ MayWrite(a, o) /\ ~Taken(a, t)
      BY <2>1, <3>1 DEF WriteTask
    <3>3. PICK x : x = [id |-> t, owner |-> o, completing |-> FALSE]
      OBVIOUS
    <3>4. x \in TaskRows /\ x.id = t /\ x.owner = o
      BY <3>3 DEF TaskRows
    <3>5. /\ n \in [Artifacts -> {NoTask} \cup TaskRows] /\ n[a] = x
          /\ \A b \in Artifacts : b # a => n[b] = task[b]
      BY <1>1, <3>1, <3>3, <3>4 DEF TasksFit
    <3>6. \A b \in Artifacts : b # a /\ task[b] # NoTask => task[b].id # t
      BY <3>2 DEF Taken
    <3>7. \A b, c \in Artifacts : b # c /\ n[b] # NoTask /\ n[c] # NoTask => n[b].id # n[c].id
      <4> SUFFICES ASSUME NEW b \in Artifacts, NEW c \in Artifacts, b # c, n[b] # NoTask, n[c] # NoTask
                   PROVE  n[b].id # n[c].id
        OBVIOUS
      <4>1. CASE b = a
        BY <3>4, <3>5, <3>6, <4>1
      <4>2. CASE c = a
        BY <3>4, <3>5, <3>6, <4>2
      <4>3. CASE b # a /\ c # a
        BY <1>1, <3>5, <4>3 DEF TasksFit
      <4> QED
        BY <4>1, <4>2, <4>3
    <3>8. task[a] # NoTask => task[a].owner = o
      <4> SUFFICES ASSUME task[a] # NoTask PROVE task[a].owner = o
        OBVIOUS
      <4>1. task[a] \in TaskRows
        BY <1>1 DEF TasksFit
      <4>2. task[a].owner # 0
        BY <4>1 DEF TaskRows, Owners
      <4> QED
        BY <3>2, <4>2 DEF MayWrite
    <3> QED
      BY <3>2, <3>4, <3>5, <3>7, <3>8 DEF TasksFit, TaskOwnersKept
  <2>2. ASSUME NEW b \in BOOLEAN, UpdateCompleting(a, b) PROVE TasksFit(task') /\ TaskOwnersKept
    <3>1. PICK n : n = [task EXCEPT ![a].completing = b]
      OBVIOUS
    <3>2. task' = n /\ task[a] # NoTask
      BY <2>2, <3>1 DEF UpdateCompleting
    <3>3. task[a] \in TaskRows
      BY <1>1, <3>2 DEF TasksFit
    <3>4. n[a] \in TaskRows /\ n[a].id = task[a].id /\ n[a].owner = task[a].owner
      <4>1. n[a] = [task[a] EXCEPT !.completing = b]
        BY <1>1, <3>1 DEF TasksFit
      <4> QED
        BY <3>3, <4>1 DEF TaskRows
    <3>5. n \in [Artifacts -> {NoTask} \cup TaskRows] /\ \A c \in Artifacts : c # a => n[c] = task[c]
      BY <1>1, <3>1, <3>4 DEF TasksFit
    <3>6. \A c, d \in Artifacts : c # d /\ n[c] # NoTask /\ n[d] # NoTask => n[c].id # n[d].id
      <4>1. \A c \in Artifacts : n[c] # NoTask => task[c] # NoTask /\ n[c].id = task[c].id
        BY <3>2, <3>4, <3>5
      <4> QED
        BY <1>1, <4>1 DEF TasksFit
    <3> QED
      BY <3>2, <3>4, <3>5, <3>6 DEF TasksFit, TaskOwnersKept
  <2>3. ASSUME NEW ids, DeleteTask(a, ids) PROVE TasksFit(task') /\ TaskOwnersKept
    BY <1>1, <2>3, TaskDropped DEF DeleteTask
  <2>4. ASSUME NEW ids, NEW force, FailPending(a, ids, force) PROVE TasksFit(task') /\ TaskOwnersKept
    BY <1>1, <2>4, TaskStays DEF FailPending
  <2>5. ASSUME DropTask(a) PROVE TasksFit(task') /\ TaskOwnersKept
    BY <1>1, <2>5, TaskDropped DEF DropTask
  <2> QED
    BY <1>2, <2>1, <2>2, <2>3, <2>4, <2>5 DEF TaskStep
<1>3. ASSUME NEW a \in Artifacts, ArtStep(a) PROVE TasksFit(task') /\ TaskOwnersKept
  <2>1. CASE TaskStep(a)
    BY <1>2, <2>1
  <2>2. CASE ResetArtifactRuntime(a)
    BY <1>1, <2>2, TaskDropped DEF ResetArtifactRuntime
  <2>3. CASE ~TaskStep(a) /\ ~ResetArtifactRuntime(a)
    <3>1. task' = task
      BY <1>3, <2>3 DEF ArtStep, Begin, OwnerStep, CompleteWork, RenewWork, FailWork, WriteFailure, ClearFailure,
                        DeleteArtifact, EnqueuedView, SettledView, MarkWorkspaceReady, Recover, LapseView
    <3> QED
      BY <1>1, <3>1, TaskStays
  <2> QED
    BY <2>1, <2>2, <2>3
<1>4. CASE RunWrite
  <2>1. PICK w \in Writes : w = Head(writes)
    BY <1>1, <1>4 DEF RunWrite, ArtTablesFit
  <2>2. w.art \in Artifacts
    BY <2>1 DEF Writes
  <2>3. task' = task \/ task' = [task EXCEPT ![w.art] = NoTask]
    BY <1>4, <2>1 DEF RunWrite, RunFail, RunClear, RunDelete
  <2> QED
    BY <1>1, <2>2, <2>3, TaskDropped, TaskStays
<1>5. CASE Recover(exists) \/ ReapViews
  BY <1>1, <1>5, TaskStays DEF Recover, ReapViews
<1> QED
  BY <1>3, <1>4, <1>5 DEF ArtNext

(* The other tables: the queue of mutations and the sets of artifacts.     *)
LEMMA Submitting ==
  ASSUME ArtTablesFit, NEW kind \in {"fail", "clear", "delete"}, NEW a \in Artifacts, NEW drops \in BOOLEAN,
         Submit(kind, a, drops)
  PROVE  writes' \in Seq(Writes) /\ Len(writes') <= MaxWrites
<1>1. PICK w : w = [kind |-> kind, art |-> a, drops |-> drops]
  OBVIOUS
<1>2. w \in Writes
  BY <1>1 DEF Writes
<1>3. writes' = Append(writes, w) /\ Len(writes) < MaxWrites
  BY <1>1 DEF Submit
<1>4. writes \in Seq(Writes) /\ Len(writes) \in Nat /\ MaxWrites \in Nat
  BY ArtAssumption DEF ArtTablesFit
<1> QED
  BY <1>2, <1>3, <1>4

LEMMA TableSteps == ASSUME ArtInv, ArtNext PROVE ArtTablesFit'
<1>1. ArtTablesFit
  BY DEF ArtInv
<1>2. ASSUME writes' = writes \/ (writes' \in Seq(Writes) /\ Len(writes') <= MaxWrites),
             exists' \subseteq Artifacts, failed' \subseteq Artifacts, unwinding' \subseteq Artifacts
      PROVE  ArtTablesFit'
  BY <1>1, <1>2 DEF ArtTablesFit
<1>3. ASSUME NEW a \in Artifacts, ArtStep(a) PROVE ArtTablesFit'
  <2>1. exists' \subseteq Artifacts /\ failed' \subseteq Artifacts /\ unwinding' \subseteq Artifacts
    BY <1>1, <1>3 DEF ArtTablesFit, ArtStep, Begin, OwnerStep, CompleteWork, RenewWork, FailWork, TaskStep, WriteTask,
                      DeleteTask, FailPending, UpdateCompleting, DropTask, WriteFailure, ClearFailure,
                      DeleteArtifact, EnqueuedView, SettledView, MarkWorkspaceReady, ResetArtifactRuntime,
                      Recover, LapseView
  <2>2. \/ writes' = writes
        \/ \E kind \in {"fail", "clear", "delete"}, drops \in BOOLEAN : Submit(kind, a, drops)
    BY <1>3 DEF ArtStep, Begin, OwnerStep, CompleteWork, RenewWork, FailWork, TaskStep, WriteTask,
                      DeleteTask, FailPending, UpdateCompleting, DropTask, WriteFailure, ClearFailure,
                      DeleteArtifact, EnqueuedView, SettledView, MarkWorkspaceReady, ResetArtifactRuntime,
                      Recover, LapseView
  <2> QED
    BY <1>1, <1>2, <2>1, <2>2, Submitting
<1>4. CASE Recover(exists) \/ ReapViews
  BY <1>1, <1>2, <1>4 DEF Recover, ReapViews, ArtTablesFit
<1>5. CASE RunWrite
  <2>1. writes \in Seq(Writes) /\ writes # <<>> /\ writes' = Tail(writes) /\ Len(writes) <= MaxWrites
    BY <1>1, <1>5 DEF RunWrite, ArtTablesFit
  <2>2. writes' \in Seq(Writes) /\ Len(writes') = Len(writes) - 1 /\ Len(writes) \in Nat
    BY <2>1
  <2>3. Len(writes') <= MaxWrites
    BY <2>1, <2>2, ArtAssumption
  <2>4. PICK w \in Writes : w = Head(writes)
    BY <2>1
  <2>5. w.art \in Artifacts
    BY <2>4 DEF Writes
  <2>6. exists' \subseteq Artifacts /\ failed' \subseteq Artifacts /\ unwinding' \subseteq Artifacts
    BY <1>1, <1>5, <2>4, <2>5 DEF RunWrite, RunFail, RunClear, RunDelete, ArtTablesFit
  <2> QED
    BY <1>2, <2>2, <2>3, <2>6
<1> QED
  BY <1>3, <1>4, <1>5 DEF ArtNext

LEMMA ArtBegins == ArtInit => ArtInv
<1> SUFFICES ASSUME ArtInit PROVE ArtInv
  OBVIOUS
<1>1. /\ exists = Artifacts /\ failed = {} /\ lastOwner = 0 /\ writes = <<>> /\ unwinding = {} /\ ended = {}
      /\ views = [a \in Artifacts |-> Free("pending")] /\ task = [a \in Artifacts |-> NoTask]
  BY DEF ArtInit
<1>2. OwnersFit(views, lastOwner, ended)
  <2>1. views \in [Artifacts -> ViewRows]
        /\ \A a \in Artifacts : views[a].owner = 0 /\ views[a].status = "pending"
    BY <1>1, FreeIs
  <2> QED
    BY <1>1, <2>1, ArtAssumption DEF OwnersFit
<1>3. TasksFit(task)
  BY <1>1 DEF TasksFit
<1>4. ArtTablesFit
  BY <1>1, ArtAssumption DEF ArtTablesFit
<1> QED
  BY <1>2, <1>3, <1>4 DEF ArtInv

LEMMA ArtSteps == ASSUME ArtInv, [ArtNext]_artVars PROVE ArtInv' /\ TaskOwnersKept
<1>1. CASE ArtNext
  <2>1. OwnersFit(views, lastOwner, ended)'
    BY <1>1, ViewSteps, ViewStepsOfAll DEF ArtNext
  <2>2. TasksFit(task') /\ TaskOwnersKept /\ ArtTablesFit'
    BY <1>1, TaskSteps, TableSteps
  <2> QED
    BY <2>1, <2>2 DEF ArtInv
<1>2. CASE UNCHANGED artVars
  <2>1. /\ exists' = exists /\ views' = views /\ task' = task /\ failed' = failed /\ lastOwner' = lastOwner
        /\ writes' = writes /\ unwinding' = unwinding /\ ended' = ended
    BY <1>2 DEF artVars
  <2> QED
    BY <2>1 DEF ArtInv, ArtTablesFit, TaskOwnersKept
<1> QED
  BY <1>1, <1>2

LEMMA ArtInvariant == ArtSpec => []ArtInv
<1>1. ArtInv /\ [ArtNext]_artVars => ArtInv'
  BY ArtSteps
<1> QED
  BY <1>1, ArtBegins, PTL DEF ArtSpec

LEMMA ArtIsTyped == ArtInv => ArtTypeOK
<1> SUFFICES ASSUME ArtInv PROVE ArtTypeOK
  OBVIOUS
<1>1. /\ views \in [Artifacts -> ViewRows] /\ lastOwner \in 0..MaxWork
      /\ \A a \in Artifacts : (views[a].owner # 0) <=> (views[a].status = "working")
  BY DEF ArtInv, OwnersFit
<1>2. /\ task \in [Artifacts -> {NoTask} \cup TaskRows]
      /\ \A a, b \in Artifacts : a # b /\ task[a] # NoTask /\ task[b] # NoTask => task[a].id # task[b].id
  BY DEF ArtInv, TasksFit
<1>3. ArtTablesFit
  BY DEF ArtInv
<1> QED
  BY <1>1, <1>2, <1>3 DEF ArtTypeOK, ViewRows, TaskRows, ArtTablesFit

(* The runtime rows of an artifact are well formed, and an owner whose work*)
(* has ended, whoever ended it, is in no view again (artifactWork,         *)
(* startReaper and the other writers of runtime-services.ts).              *)
THEOREM EndedOwnersStayOut == ArtSpec => [](ArtTypeOK /\ EndedStayOut)
<1>1. ArtInv => ArtTypeOK /\ EndedStayOut
  BY ArtIsTyped DEF ArtInv, OwnersFit, EndedStayOut
<1> QED
  BY <1>1, ArtInvariant, PTL

(* A pending task never passes from one owner to another: only a deletion  *)
(* makes room for the next (pending.write).                                *)
THEOREM TasksKeepOwners == ArtSpec => TaskKeepsOwner
<1>1. ArtInv /\ [ArtNext]_artVars
      => [\A a \in Artifacts : task[a] # NoTask /\ task'[a] # NoTask => task'[a].owner = task[a].owner]_artVars
  BY ArtSteps DEF TaskOwnersKept
<1> QED
  BY <1>1, ArtInvariant, PTL DEF ArtSpec, TaskKeepsOwner

---------------------------------------------------------------------------
(* The handlers of the runner                                              *)

(* The handler of an untouched job works on a row of its own, which is     *)
(* running under its fence, or has ended, but never queued again: that     *)
(* takes an expired lease, or an outcome that the handler itself reports.  *)
HandlerFits(r, e) ==
  /\ r.state \notin {"queued", "absent", "completing"}
  /\ r.state = "running" => r.fence = e[2] /\ r.lease # "expired"

HandlersApart(ex, ac, tj) ==
  /\ IsFiniteSet(ac) /\ Cardinality(ac) <= Concurrency
  /\ \A j \in ac : \E e \in ex : e[1] = j
  /\ \A e \in ex : e[1] \notin tj => e[1] \in ac /\ \A d \in ex : d[1] = e[1] => d = e

HandlersFit(rows, ex, tj) == \A e \in ex : e[1] \notin tj => HandlerFits(rows[e[1]], e)

HandlerInv == HandlersApart(executions, active, touched) /\ HandlersFit(job, executions, touched)

(* A job stays untouched only if the others leave it alone.                *)
Spared(e) == e[1] \notin touched /\ ~MarkCompleting(e[1]) /\ ~External(e[1])

(* A handler that ends leaves, and its job leaves the active map.          *)
LEMMA HandlerLeaves ==
  ASSUME NEW ex, NEW ac, NEW tj, NEW tn, HandlersApart(ex, ac, tj), NEW e \in ex,
         \A d \in ex \ {e} : d[1] \notin tn => d[1] \notin tj
  PROVE  HandlersApart(ex \ {e}, ac \ {e[1]}, tn)
<1>1. /\ IsFiniteSet(ac) /\ Cardinality(ac) <= Concurrency
      /\ \A j \in ac : \E d \in ex : d[1] = j
      /\ \A d \in ex : d[1] \notin tj => d[1] \in ac /\ \A f \in ex : f[1] = d[1] => f = d
  BY DEF HandlersApart
<1>2. IsFiniteSet(ac \ {e[1]}) /\ Cardinality(ac \ {e[1]}) <= Cardinality(ac)
  BY <1>1, FS_Subset
<1>3. Cardinality(ac \ {e[1]}) <= Concurrency
  BY <1>1, <1>2, FS_CardinalityType, QueueAssumption
<1>4. \A j \in ac \ {e[1]} : \E d \in ex \ {e} : d[1] = j
  BY <1>1
<1>5. \A d \in ex \ {e} : d[1] \notin tn => d[1] \in ac \ {e[1]} /\ \A f \in ex \ {e} : f[1] = d[1] => f = d
  BY <1>1
<1> QED
  BY <1>2, <1>3, <1>4, <1>5 DEF HandlersApart

LEMMA HandlerComes ==
  ASSUME NEW ex, NEW ac, NEW tj, NEW tn, HandlersApart(ex, ac, tj), NEW j, NEW f,
         \A e \in ex : e[1] \notin tj => e[1] # j, Cardinality(ac) < Concurrency,
         \A e \in ex \cup {<<j, f>>} : e[1] \notin tn => e[1] \notin tj
  PROVE  HandlersApart(ex \cup {<<j, f>>}, ac \cup {j}, tn)
<1>1. /\ IsFiniteSet(ac)
      /\ \A i \in ac : \E e \in ex : e[1] = i
      /\ \A e \in ex : e[1] \notin tj => e[1] \in ac /\ \A d \in ex : d[1] = e[1] => d = e
  BY DEF HandlersApart
<1>2. IsFiniteSet(ac \cup {j}) /\ Cardinality(ac \cup {j}) <= Cardinality(ac) + 1
  <2>1. /\ IsFiniteSet(ac \cup {j})
        /\ Cardinality(ac \cup {j}) = Cardinality(ac) \/ Cardinality(ac \cup {j}) = Cardinality(ac) + 1
    BY <1>1, FS_AddElement
  <2>2. Cardinality(ac) \in Nat
    BY <1>1, FS_CardinalityType
  <2> QED
    BY <2>1, <2>2
<1>3. Cardinality(ac \cup {j}) <= Concurrency
  BY <1>1, <1>2, FS_CardinalityType, QueueAssumption
<1>4. <<j, f>>[1] = j
  OBVIOUS
<1>5. \A i \in ac \cup {j} : \E e \in ex \cup {<<j, f>>} : e[1] = i
  BY <1>1, <1>4
<1>6. \A e \in ex \cup {<<j, f>>} :
        e[1] \notin tn => e[1] \in ac \cup {j} /\ \A d \in ex \cup {<<j, f>>} : d[1] = e[1] => d = e
  BY <1>1, <1>4
<1> QED
  BY <1>2, <1>3, <1>5, <1>6 DEF HandlersApart

(* A handler reports: its job ends, goes back to the queue, or stays; in   *)
(* the last two cases the handler has left.                                *)
LEMMA ReportFits ==
  ASSUME TypeOK, HandlerInv, NEW e \in executions,
         \/ Complete(e[1], e[2])
         \/ \E preserve \in BOOLEAN : Fail(e[1], e[2], TRUE, preserve)
  PROVE  /\ HandlersFit(job', executions \ {e}, touched)
         /\ toRecord' # toRecord => HandlersFit(job', executions, touched)
<1>1. /\ e[1] \in Jobs /\ job \in [Jobs -> JobRows] /\ \A d \in executions : d[1] \in Jobs
      /\ \A d \in executions : d[1] \notin touched => HandlerFits(job[d[1]], d)
      /\ \A d \in executions \ {e} : d[1] \notin touched => d[1] # e[1]
  BY DEF TypeOK, HandlerInv, HandlersFit, HandlersApart
<1>2. ASSUME job' = job PROVE HandlersFit(job', executions, touched)
  BY <1>1, <1>2 DEF HandlersFit
<1>3. ASSUME NEW s \in {"done", "failed"}, job' = [job EXCEPT ![e[1]].state = s, ![e[1]].lease = "none"]
      PROVE  HandlersFit(job', executions, touched)
  <2>1. job'[e[1]].state = s /\ \A j \in Jobs : j # e[1] => job'[j] = job[j]
    BY <1>1, <1>3 DEF JobRows
  <2> QED
    BY <1>1, <2>1 DEF HandlersFit, HandlerFits
<1>4. ASSUME job' = [job EXCEPT ![e[1]].state = "queued", ![e[1]].lease = "none"]
      PROVE  HandlersFit(job', executions \ {e}, touched)
  <2>1. \A j \in Jobs : j # e[1] => job'[j] = job[j]
    BY <1>1, <1>4 DEF JobRows
  <2> QED
    BY <1>1, <2>1 DEF HandlersFit
<1>5. HandlersFit(job', executions, touched) => HandlersFit(job', executions \ {e}, touched)
  BY DEF HandlersFit
<1>6. CASE Complete(e[1], e[2])
  BY <1>2, <1>3, <1>5, <1>6 DEF Complete
<1>7. ASSUME NEW preserve \in BOOLEAN, Fail(e[1], e[2], TRUE, preserve)
      PROVE  /\ HandlersFit(job', executions \ {e}, touched)
             /\ toRecord' # toRecord => HandlersFit(job', executions, touched)
  <2>1. CASE Accepts(e[1], e[2]) /\ MayRetry(e[1])
    <3>1. job' = [job EXCEPT ![e[1]].state = "queued", ![e[1]].lease = "none"] /\ toRecord' = toRecord
      BY <1>7, <2>1 DEF Fail
    <3> QED
      BY <1>4, <3>1
  <2>2. CASE Accepts(e[1], e[2]) /\ ~MayRetry(e[1])
    <3>1. job' = [job EXCEPT ![e[1]].state = "failed", ![e[1]].lease = "none"]
      BY <1>7, <2>2 DEF Fail
    <3> QED
      BY <1>3, <1>5, <3>1
  <2>3. CASE ~Accepts(e[1], e[2])
    BY <1>2, <1>5, <1>7, <2>3 DEF Fail
  <2> QED
    BY <2>1, <2>2, <2>3
<1> QED
  BY <1>6, <1>7

(* Every step of a queue whose heartbeats are on time, whoever calls it.   *)
LEMMA HandlerSteps ==
  ASSUME TypeOK, TypeOK', HandlerInv, PunctualNext
  PROVE  HandlerInv'
<1>1. /\ job \in [Jobs -> JobRows] /\ \A j \in Jobs : job[j] \in JobRows
      /\ \A e \in executions : e[1] \in Jobs /\ e[2] \in Nat
      /\ HandlersApart(executions, active, touched)
      /\ \A e \in executions : e[1] \notin touched => HandlerFits(job[e[1]], e)
  BY DEF TypeOK, HandlerInv, HandlersFit
<1>2. \A e \in executions' : e[1] \notin touched' => Spared(e)
  BY DEF PunctualNext, Touch, Spared, TypeOK
<1>3. ASSUME executions' = executions, active' = active,
             \A e \in executions : Spared(e) => HandlerFits(job'[e[1]], e)
      PROVE  HandlerInv'
  <2>1. HandlersApart(executions', active', touched')
    BY <1>1, <1>2, <1>3 DEF HandlersApart, Spared
  <2> QED
    BY <1>2, <1>3, <2>1 DEF HandlerInv, HandlersFit
<1>4. ASSUME executions' = executions, active' = active, job' = job PROVE HandlerInv'
  BY <1>1, <1>3, <1>4 DEF Spared
<1>5. CASE EnqueueSome
  <2>1. PICK k \in Keys \cup {NoValue}, x \in ExternalIDs \cup {NoValue}, limit \in AttemptLimits,
             initial \in {"queued", "running"}, showsWork \in BOOLEAN : Enqueue(k, x, limit, initial, showsWork)
    BY <1>5 DEF EnqueueSome
  <2>2. executions' = executions /\ active' = active
    BY <2>1 DEF Enqueue, runner
  <2>3. CASE job' = job
    BY <1>4, <2>2, <2>3
  <2>4. CASE Insert(k, x, limit, initial)
    <3>1. PICK j \in Jobs : /\ job[j].state = "absent"
                           /\ job' = [job EXCEPT ![j] =
                                [state |-> initial, attempts |-> IF initial = "running" THEN 1 ELSE 0,
                                 maxAttempts |-> limit, fence |-> 0, lease |-> "none", key |-> k, externalId |-> x]]
      BY <2>4 DEF Insert
    <3>2. \A i \in Jobs : i # j => job'[i] = job[i]
      BY <1>1, <3>1
    <3>3. \A e \in executions : e[1] \notin touched => e[1] # j
      BY <1>1, <3>1 DEF HandlerFits
    <3> QED
      BY <1>1, <1>3, <2>2, <3>2, <3>3 DEF Spared
  <2> QED
    BY <2>1, <2>3, <2>4 DEF Enqueue
<1>6. CASE Dequeue
  <2>1. PICK j \in Jobs : /\ job[j].state = "queued"
                         /\ job' = [job EXCEPT ![j].state = "running", ![j].lease = "live",
                                               ![j].attempts = @ + 1, ![j].fence = NextFence(@)]
                         /\ executions' = executions \cup {<<j, job'[j].fence>>} /\ active' = active \cup {j}
    BY <1>6 DEF Dequeue, NextQueued
  <2>2. /\ job'[j].state = "running" /\ job'[j].lease = "live"
        /\ \A i \in Jobs : i # j => job'[i] = job[i]
    BY <1>1, <2>1 DEF JobRows, NextFence
  <2>3. \A e \in executions : e[1] \notin touched => e[1] # j
    BY <1>1, <2>1 DEF HandlerFits
  <2>4. Cardinality(active) < Concurrency
    BY <1>6 DEF Dequeue, HasRoom
  <2>5. PICK f : f = job'[j].fence
    OBVIOUS
  <2>6. \A e \in executions \cup {<<j, f>>} : e[1] \notin touched' => e[1] \notin touched
    BY <1>2, <2>1, <2>5 DEF Spared
  <2>7. HandlersApart(executions \cup {<<j, f>>}, active \cup {j}, touched')
    BY <1>1, <2>3, <2>4, <2>6, HandlerComes
  <2>8. HandlersFit(job', executions \cup {<<j, f>>}, touched')
    BY <1>1, <2>2, <2>3, <2>5, <2>6 DEF HandlersFit, HandlerFits
  <2> QED
    BY <2>1, <2>5, <2>7, <2>8 DEF HandlerInv
<1>7. CASE Reap
  <2>1. /\ executions' = executions /\ active' = active
        /\ job' = [j \in Jobs |-> IF j \notin Expired THEN job[j]
                     ELSE [job[j] EXCEPT !.state = IF MayRetry(j) THEN "queued" ELSE "failed",
                                         !.lease = "none", !.fence = NextFence(@)]]
    BY <1>7 DEF Reap, runner
  <2>2. \A e \in executions : e[1] \notin touched => e[1] \notin Expired
    BY <1>1 DEF HandlerFits, Expired, Leased
  <2>3. \A e \in executions : e[1] \notin touched => job'[e[1]] = job[e[1]]
    BY <1>1, <2>1, <2>2
  <2> QED
    BY <1>1, <1>3, <2>1, <2>3 DEF Spared
<1>8. ASSUME NEW j \in Jobs, Expire(j) PROVE HandlerInv'
  <2>1. executions' = executions /\ active' = active /\ job' = [job EXCEPT ![j].lease = "expired"]
    BY <1>8 DEF Expire, runner
  <2>2. \A i \in Jobs : job'[i].state = job[i].state /\ job'[i].fence = job[i].fence
    BY <1>1, <2>1 DEF JobRows
  <2>3. \A e \in executions : Spared(e) => HandlerFits(job'[e[1]], e)
    <3> SUFFICES ASSUME NEW e \in executions, Spared(e) PROVE HandlerFits(job'[e[1]], e)
      OBVIOUS
    <3>1. HandlerFits(job[e[1]], e) /\ e[1] \in Jobs
      BY <1>1 DEF Spared
    <3>2. job[e[1]].state = "running" => job'[e[1]].lease # "expired"
      BY <3>1 DEF PunctualNext, OnTime, Holds, HandlerFits
    <3> QED
      BY <2>2, <3>1, <3>2 DEF HandlerFits
  <2> QED
    BY <1>3, <2>1, <2>3
<1>9. ASSUME NEW e \in executions, Heartbeat(e) PROVE HandlerInv'
  <2>1. executions' = executions /\ active' = active /\ (job' = job \/ job' = [job EXCEPT ![e[1]].lease = "live"])
    BY <1>9 DEF Heartbeat
  <2>2. CASE job' = [job EXCEPT ![e[1]].lease = "live"]
    <3>1. \A i \in Jobs : job'[i].state = job[i].state /\ job'[i].fence = job[i].fence
                         /\ (job'[i].lease = job[i].lease \/ job'[i].lease = "live")
      BY <1>1, <2>2 DEF JobRows
    <3>2. \A d \in executions : Spared(d) => HandlerFits(job'[d[1]], d)
      BY <1>1, <3>1 DEF HandlerFits, Spared
    <3> QED
      BY <1>3, <2>1, <3>2
  <2> QED
    BY <1>4, <2>1, <2>2
<1>10. ASSUME NEW e \in executions, Settle(e) PROVE HandlerInv'
  <2>1. /\ HandlersFit(job', executions \ {e}, touched)
        /\ toRecord' # toRecord => HandlersFit(job', executions, touched)
    BY <1>10, ReportFits DEF Settle
  <2>2. CASE toRecord' # toRecord
    <3>1. executions' = executions /\ active' = active
      BY <1>10, <2>2 DEF Settle
    <3> QED
      BY <1>3, <2>1, <2>2, <3>1 DEF HandlersFit, Spared
  <2>3. CASE toRecord' = toRecord
    <3>1. executions' = executions \ {e} /\ active' = active \ {e[1]}
      BY <1>10, <2>3 DEF Settle, Retire
    <3>2. \A d \in executions \ {e} : d[1] \notin touched' => d[1] \notin touched
      BY <1>2, <3>1 DEF Spared
    <3>3. HandlersApart(executions \ {e}, active \ {e[1]}, touched')
      BY <1>1, <3>2, HandlerLeaves
    <3> QED
      BY <2>1, <3>1, <3>2, <3>3 DEF HandlerInv, HandlersFit
  <2> QED
    BY <2>2, <2>3
<1>11. ASSUME NEW e \in executions, Release(e) PROVE HandlerInv'
  <2>1. executions' = executions \ {e} /\ active' = active \ {e[1]} /\ job' = job
    BY <1>11 DEF Release, Retire
  <2>2. \A d \in executions \ {e} : d[1] \notin touched' => d[1] \notin touched
    BY <1>2, <2>1 DEF Spared
  <2>3. HandlersApart(executions \ {e}, active \ {e[1]}, touched')
    BY <1>1, <2>2, HandlerLeaves
  <2> QED
    BY <1>1, <2>1, <2>2, <2>3 DEF HandlerInv, HandlersFit
<1>12. ASSUME NEW ids, \A j \in Jobs : job'[j] = job[j] \/ job'[j].state = "aborted",
              executions' = executions, active' = active
       PROVE  HandlerInv'
  <2>1. \A e \in executions : e[1] \notin touched => HandlerFits(job'[e[1]], e)
    BY <1>1, <1>12 DEF HandlerFits
  <2> QED
    BY <1>3, <1>12, <2>1 DEF Spared
<1>13. ASSUME NEW j \in Jobs, Abort(j) PROVE HandlerInv'
  <2>1. /\ executions' = executions /\ active' = active
        /\ job' = [job EXCEPT ![j].state = "aborted", ![j].lease = "none", ![j].fence = NextFence(@)]
    BY <1>13 DEF Abort
  <2>2. \A i \in Jobs : job'[i] = job[i] \/ job'[i].state = "aborted"
    BY <1>1, <2>1 DEF JobRows
  <2> QED
    BY <1>12, <2>1, <2>2
<1>14. CASE DeleteCommit \/ RestoreBook
  <2>1. executions' = executions /\ active' = active /\ \E ids : AbortAll(ids)
    BY <1>14 DEF DeleteCommit, RestoreBook, runner
  <2>2. \A i \in Jobs : job'[i] = job[i] \/ job'[i].state = "aborted"
    BY <1>1, <2>1 DEF AbortAll, JobRows
  <2> QED
    BY <1>12, <2>1, <2>2
<1>15. CASE Crash
  <2>1. executions' = {} /\ active' = {}
    BY <1>15 DEF Crash
  <2>2. HandlersApart({}, {}, touched')
    BY FS_EmptySet, QueueAssumption DEF HandlersApart
  <2> QED
    BY <2>1, <2>2 DEF HandlerInv, HandlersFit
<1>16. CASE Open \/ DeleteBegin \/ \E r \in toRecord : RecordTerminal(r)
  BY <1>4, <1>16 DEF Open, DeleteBegin, RecordTerminal, runner
<1>17. ASSUME NEW j \in Jobs, External(j) \/ MarkCompleting(j) PROVE HandlerInv'
  <2>1. executions' = executions /\ active' = active /\ \A i \in Jobs : i # j => job'[i] = job[i]
    BY <1>1, <1>17 DEF External, MarkCompleting, Complete, Fail, runner
  <2>2. \A e \in executions : Spared(e) => e[1] # j
    BY <1>17 DEF Spared
  <2> QED
    BY <1>1, <1>3, <2>1, <2>2 DEF Spared
<1> QED
  BY <1>5, <1>6, <1>7, <1>8, <1>9, <1>10, <1>11, <1>13, <1>14, <1>15, <1>16, <1>17
  DEF PunctualNext, Next, Progress

LEMMA HandlersAtStart == Init /\ touched = {} => HandlerInv
<1> SUFFICES ASSUME Init PROVE HandlerInv
  OBVIOUS
<1>1. executions = {} /\ active = {}
  BY DEF Init
<1>2. HandlersApart({}, {}, touched)
  BY FS_EmptySet, QueueAssumption DEF HandlersApart
<1> QED
  BY <1>1, <1>2 DEF HandlerInv, HandlersFit

(* The handlers of untouched jobs are as many as their jobs, which are in  *)
(* the active map.                                                         *)
LEMMA HandlersAreOne ==
  ASSUME TypeOK, HandlerInv PROVE OneHandlerPerJob(Jobs \ touched)
<1> DEFINE Own == {e \in executions : e[1] \in Jobs \ touched}
           f == [e \in Own |-> e[1]]
<1>1. /\ IsFiniteSet(active) /\ Cardinality(active) <= Concurrency
      /\ \A j \in active : \E e \in executions : e[1] = j
      /\ \A e \in executions : e[1] \notin touched =>
           e[1] \in active /\ \A d \in executions : d[1] = e[1] => d = e
      /\ \A e \in executions : e[1] \in Jobs
  BY DEF HandlerInv, HandlersApart, TypeOK
<1>2. f \in Injection(Own, active)
  BY <1>1 DEF Injection, IsInjective
<1>3. IsFiniteSet(Own) /\ Cardinality(Own) <= Cardinality(active)
  <2> HIDE DEF Own, f
  <2> QED
    BY <1>1, <1>2, FS_Injection
<1>4. Cardinality(Own) <= Concurrency
  BY <1>1, <1>3, FS_CardinalityType, QueueAssumption
<1>5. active \cap (Jobs \ touched) = {e[1] : e \in executions} \cap (Jobs \ touched)
  BY <1>1
<1>6. \A d, e \in executions : d[1] = e[1] /\ e[1] \in Jobs \ touched => d = e
  BY <1>1
<1> QED
  BY <1>4, <1>5, <1>6 DEF OneHandlerPerJob

---------------------------------------------------------------------------
(* The suite                                                               *)

(* One part of the suite runs, the others stand still: a behaviour of the  *)
(* suite is one of each part.                                              *)
LEMMA RuntimeParts == RuntimeSpec => Spec /\ PoolSpec /\ ArtSpec
<1>1. RuntimeInit => Init /\ PoolInit /\ ArtInit
  BY DEF RuntimeInit
<1>2. [RuntimeNext]_<<part, touched, vars, poolVars, artVars>>
      => [Next]_vars /\ [PoolNext]_poolVars /\ [ArtNext]_artVars
  BY DEF RuntimeNext, PunctualNext
<1> QED
  BY <1>1, <1>2, PTL DEF RuntimeSpec, Spec, PoolSpec, ArtSpec

(* Every part keeps its tables in shape, for any number of jobs, calls,    *)
(* workers and artifacts, whoever calls the queue.                         *)
THEOREM RuntimeTypes == RuntimeSpec => []RuntimeTypeOK
<1>1. TypeOK /\ PoolTypeOK /\ ArtTypeOK => RuntimeTypeOK
  BY DEF RuntimeTypeOK
<1>2. Spec => []TypeOK
  BY TypeCorrect
<1>3. PoolSpec => [](PoolTypeOK /\ PoolServes)
  BY PoolServing
<1>4. ArtSpec => [](ArtTypeOK /\ EndedStayOut)
  BY EndedOwnersStayOut
<1> QED
  BY <1>1, <1>2, <1>3, <1>4, RuntimeParts, PTL

(* While heartbeats are on time, the jobs that only the runner has changed *)
(* under a running handler have one handler each, there are at most        *)
(* config.concurrency of these, and the active map has exactly their jobs  *)
(* (QueueRunner of job-queue.ts): whatever is marked, failed from outside, *)
(* aborted, deleted, restored or killed meanwhile.                         *)
THEOREM OneHandlerWhileOnTime ==
  /\ PunctualSpec => []OneHandlerPerJob(Jobs \ touched)
  /\ RuntimeSpec => []OneHandlerOnTime
<1> DEFINE Inv == part = "punctual jobs" => HandlerInv
<1>1. UNCHANGED <<touched, vars>> /\ HandlerInv => HandlerInv'
  BY DEF vars, HandlerInv, HandlersApart, HandlersFit
<1>2. TypeOK /\ TypeOK' /\ HandlerInv /\ [PunctualNext]_<<touched, vars>> => HandlerInv'
  BY <1>1, HandlerSteps
<1>3. RuntimeInit => Inv
  BY HandlersAtStart DEF RuntimeInit
<1>4. TypeOK /\ TypeOK' /\ Inv /\ [RuntimeNext]_<<part, touched, vars, poolVars, artVars>> => Inv'
  <2> SUFFICES ASSUME TypeOK, TypeOK', Inv, [RuntimeNext]_<<part, touched, vars, poolVars, artVars>>,
                      part' = "punctual jobs"
               PROVE  HandlerInv'
    OBVIOUS
  <2>1. part = "punctual jobs" /\ (PunctualNext \/ UNCHANGED <<touched, vars>>)
    BY DEF RuntimeNext
  <2> QED
    BY <1>2, <2>1
<1>5. TypeOK /\ HandlerInv => OneHandlerPerJob(Jobs \ touched)
  BY HandlersAreOne
<1>6. TypeOK /\ Inv => OneHandlerOnTime
  BY HandlersAreOne DEF OneHandlerOnTime
<1>7. PunctualSpec => Spec
  <2>1. [PunctualNext]_<<touched, vars>> => [Next]_vars
    BY DEF PunctualNext
  <2> QED
    BY <2>1, PTL DEF PunctualSpec, Spec
<1>8. Spec => []TypeOK
  BY TypeCorrect
<1>9. RuntimeSpec => RuntimeInit /\ [][RuntimeNext]_<<part, touched, vars, poolVars, artVars>>
  BY DEF RuntimeSpec
<1>10. PunctualSpec => []OneHandlerPerJob(Jobs \ touched)
  BY <1>2, <1>5, <1>7, <1>8, HandlersAtStart, PTL DEF PunctualSpec
<1>11. RuntimeSpec => []OneHandlerOnTime
  BY <1>3, <1>4, <1>6, <1>8, <1>9, RuntimeParts, PTL
<1> QED
  BY <1>10, <1>11

(* What the parts promise holds where they run side by side.               *)
THEOREM RuntimeSafety == RuntimeSpec => [](PoolServes /\ EndedStayOut) /\ SettledOnce /\ TaskKeepsOwner
<1>1. PoolSpec => [](PoolTypeOK /\ PoolServes)
  BY PoolServing
<1>2. ArtSpec => [](ArtTypeOK /\ EndedStayOut)
  BY EndedOwnersStayOut
<1> QED
  BY <1>1, <1>2, RuntimeParts, AnswersAreFinal, TasksKeepOwners, PTL
================================================================================
