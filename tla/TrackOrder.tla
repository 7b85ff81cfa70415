------------------------------ MODULE TrackOrder --------------------------------
(* The order of the tracks of one kind (src/order-keys.ts, and addTrack and    *)
(* moveTrack of src/sequences.ts): a track lies where its key sorts, ties go   *)
(* by ID, and a moved track gets a key between its neighbours.  A key is its   *)
(* integer part, a number, and the digits of its fraction.  Both calls read    *)
(* the siblings, and write keys made of what they read after an await.         *)
EXTENDS Integers, Sequences, FiniteSets, FiniteSetsExt, Functions

CONSTANTS StartOrder, SpareOrder,  \* IDs of the tracks at first, and of later ones
          Movers,                  \* callers
          DigitBase,               \* digits of a fraction
          IntegerLimit,            \* the largest integer part; the least is its negative
                                   \* (62^26 in the code: more than MaxMoves can use up)
          MaxMoves                 \* bound: tracks added and moved

ASSUME TrackOrderAssumption ==
  /\ DigitBase \in Nat \ {0, 1} /\ IntegerLimit \in Nat /\ MaxMoves \in Nat
  /\ StartOrder \cup SpareOrder \subseteq Nat /\ IsFiniteSet(StartOrder \cup SpareOrder)
  /\ Cardinality(StartOrder) <= IntegerLimit /\ 2 * MaxMoves < IntegerLimit

VARIABLES keys,      \* the key of each track
          movers,    \* the call of each caller in flight
          moves      \* calls so far
orderVars == <<keys, movers, moves>>

Key(int, frac) == [int |-> int, frac |-> frac]
NoKey  == [none |-> TRUE]
NoRoom == -1                       \* stands for the digits of a key that cannot be made
NoMove == [phase |-> "idle"]

FracLess(a, b) ==
  \E i \in DOMAIN b : /\ \A j \in 1..(i - 1) : j \in DOMAIN a /\ a[j] = b[j]
                      /\ i \notin DOMAIN a \/ a[i] < b[i]
KeyLess(k, l) == k.int < l.int \/ (k.int = l.int /\ FracLess(k.frac, l.frac))
ValidKey(k) ==
  /\ k.int \in -IntegerLimit..IntegerLimit
  /\ \A i \in DOMAIN k.frac : k.frac[i] \in 0..(DigitBase - 1)
  /\ k.frac # <<>> => k.frac[Len(k.frac)] # 0

(* A fraction goes on with zeros.                                              *)
Digit(s, i)  == IF i \in DOMAIN s THEN s[i] ELSE 0
Digits(s, n) == [i \in 1..n |-> Digit(s, i)]

(* A fraction above a: from digit n on, the first that can be raised is, and   *)
(* what follows is dropped; if none can, there is a digit more.                *)
Above(a, n) ==
  LET roomy == {i \in n..Len(a) : a[i] # DigitBase - 1} IN
  IF roomy # {} THEN Append(Digits(a, Min(roomy) - 1), a[Min(roomy)] + 1)
  ELSE Append(Digits(a, IF Len(a) < n - 1 THEN n - 1 ELSE Len(a)), DigitBase \div 2)

(* A fraction between a and b, where a is less than b: it differs from both at *)
(* the first digit in which they differ, or above a after it.                  *)
Midpoint(a, b) ==
  LET apart == {i \in DOMAIN b : Digit(a, i) # b[i]}
      first == Min(apart) IN
  IF apart = {} THEN <<NoRoom>>
  ELSE IF b[first] - Digit(a, first) > 1
       THEN Append(Digits(a, first - 1), (Digit(a, first) + b[first] + 1) \div 2)
       ELSE Above(a, first + 1)

(* A key strictly between two keys, each of which may be missing.              *)
KeyBetween(before, after) ==
  CASE before = NoKey /\ after = NoKey -> Key(0, <<>>)
    [] before = NoKey /\ after # NoKey ->
         IF after.int > -IntegerLimit THEN Key(after.int - 1, <<>>)
                                      ELSE Key(after.int, Midpoint(<<>>, after.frac))
    [] before # NoKey /\ after = NoKey ->
         IF before.int < IntegerLimit THEN Key(before.int + 1, <<>>)
                                      ELSE Key(before.int, Above(before.frac, 1))
    [] OTHER ->
         CASE ~KeyLess(before, after)   -> Key(before.int, <<NoRoom>>)
           [] before.int = after.int    -> Key(before.int, Midpoint(before.frac, after.frac))
           [] before.int < after.int /\ KeyLess(Key(before.int + 1, <<>>), after) ->
                Key(before.int + 1, <<>>)
           [] OTHER                     -> Key(before.int, Above(before.frac, 1))

(* Tracks as they lie: by key, and by ID where they share one.                 *)
LiesBelow(k, t, u) == KeyLess(k[t], k[u]) \/ (k[t] = k[u] /\ t < u)
InOrder(list, k) ==
  Range(list) = DOMAIN k /\ \A i, j \in DOMAIN list : i < j => LiesBelow(k, list[i], list[j])
Listed(k) == CHOOSE list \in [1..Cardinality(DOMAIN k) -> DOMAIN k] : InOrder(list, k)
PlaceOf(list, t) == CHOOSE i \in DOMAIN list : list[i] = t
KeyAt(list, k, i) == IF i \in DOMAIN list THEN k[list[i]] ELSE NoKey

(* Of the tracks that share a key the last one keeps it (the increasing        *)
(* subsequence that the code finds in a sorted list), each of the others gets  *)
(* a key between its predecessor and the next key that is kept.                *)
KeptAt(list, k, i) == k[list[i]] # KeyAt(list, k, i + 1)
ReconciledKey(list, k, i, before) ==
  LET later == {j \in (i + 1)..Len(list) :
                  KeptAt(list, k, j) /\ (before = NoKey \/ KeyLess(before, k[list[j]]))} IN
  IF KeptAt(list, k, i) THEN k[list[i]]
  ELSE KeyBetween(before, IF later = {} THEN NoKey ELSE k[list[Min(later)]])
ReconciledKeys(list, k) ==
  LET made[i \in 0..Len(list)] ==
        IF i = 0 THEN NoKey ELSE ReconciledKey(list, k, i, made[i - 1])
  IN made
RepairedKeys(k) ==
  IF IsInjective(k) THEN k
  ELSE [t \in DOMAIN k |-> ReconciledKeys(Listed(k), k)[PlaceOf(Listed(k), t)]]

--------------------------------------------------------------------------------
OrderInit ==
  /\ keys = [t \in StartOrder |-> Key(Cardinality({u \in StartOrder : u < t}), <<>>)]
  /\ movers = [c \in Movers |-> NoMove] /\ moves = 0

AppendedKey == LET list == Listed(keys) IN KeyBetween(KeyAt(list, keys, Len(list)), NoKey)
BeginAdd(c, t) ==
  /\ movers[c] = NoMove /\ t \in SpareOrder \ DOMAIN keys /\ moves < MaxMoves
  /\ \A d \in Movers : movers[d].phase = "add" => movers[d].track # t      \* a new ID
  /\ movers' = [movers EXCEPT ![c] = [phase |-> "add", track |-> t, key |-> AppendedKey]]
  /\ moves' = moves + 1 /\ UNCHANGED keys
CommitAdd(c) ==
  /\ movers[c].phase = "add"
  /\ keys' = [u \in DOMAIN keys \cup {movers[c].track} |->
                IF u = movers[c].track THEN movers[c].key ELSE keys[u]]
  /\ movers' = [movers EXCEPT ![c] = NoMove] /\ UNCHANGED moves

Others(list, t) ==
  [i \in 1..(Len(list) - 1) |-> IF i < PlaceOf(list, t) THEN list[i] ELSE list[i + 1]]
MovedKey(repaired, others, to) ==
  KeyBetween(KeyAt(others, repaired, to), KeyAt(others, repaired, to + 1))
(* to: how many tracks lie below the moved one.  A caller that finds the track *)
(* there, and no key shared, returns.                                          *)
BeginMove(c, t, to) ==
  LET list == Listed(keys)
      others == Others(list, t)
      repaired == RepairedKeys(keys) IN
  /\ movers[c] = NoMove /\ t \in DOMAIN keys /\ to \in 0..Len(others) /\ moves < MaxMoves
  /\ repaired # keys \/ list[to + 1] # t
  /\ movers' = [movers EXCEPT ![c] =
       [phase |-> "move", track |-> t, to |-> to, seen |-> keys, repaired |-> repaired,
        key |-> MovedKey(repaired, others, to)]]
  /\ moves' = moves + 1 /\ UNCHANGED keys
Makeable(m) ==
  /\ NoRoom \notin Range(m.key.frac)
  /\ \A t \in DOMAIN m.repaired : NoRoom \notin Range(m.repaired[t].frac)
CommitMove(c) ==
  LET m == movers[c] IN
  /\ m.phase = "move" /\ Makeable(m)
  /\ keys' = [u \in DOMAIN keys |->
                IF u = m.track THEN m.key
                ELSE IF u \in DOMAIN m.seen /\ m.repaired[u] # m.seen[u] THEN m.repaired[u] ELSE keys[u]]
  /\ movers' = [movers EXCEPT ![c] = NoMove] /\ UNCHANGED moves
RemoveFromOrder(t) ==
  /\ t \in DOMAIN keys /\ Cardinality(DOMAIN keys) > 1
  /\ keys' = [u \in DOMAIN keys \ {t} |-> keys[u]]
  /\ UNCHANGED <<movers, moves>>

OrderNext ==
  \/ \E c \in Movers :
       \/ \E t \in SpareOrder : BeginAdd(c, t)
       \/ CommitAdd(c)
       \/ \E t \in DOMAIN keys, to \in 0..Cardinality(DOMAIN keys) : BeginMove(c, t, to)
       \/ CommitMove(c)
  \/ \E t \in DOMAIN keys : RemoveFromOrder(t)

OrderSpec == OrderInit /\ [][OrderNext]_orderVars

--------------------------------------------------------------------------------
(* Keys keep the form that isOrderKey asks for.                                *)
OrderTypeOK ==
  /\ DOMAIN keys \subseteq StartOrder \cup SpareOrder
  /\ \A t \in DOMAIN keys : ValidKey(keys[t])
  /\ moves \in 0..MaxMoves

(* There is always room: moveTrack never fails with "No room between order     *)
(* keys" or "Order keys out of order" (src/order-keys.ts:106, 121), also when  *)
(* overlapping calls have given several tracks one key.                        *)
RoomIsFound == \A c \in Movers : movers[c].phase = "move" => Makeable(movers[c])

(* A move that nothing else overlapped puts the track where it was asked to,   *)
(* leaves the others in their order, and leaves no two tracks on one key.      *)
MovesWhereAsked ==
  [][\A c \in Movers :
       (movers[c].phase = "move" /\ movers[c].seen = keys /\ movers'[c] # movers[c]) =>
         LET now == Listed(keys') IN
         /\ now[movers[c].to + 1] = movers[c].track
         /\ Others(now, movers[c].track) = Others(Listed(keys), movers[c].track)
         /\ \A t, u \in DOMAIN keys' : t # u => keys'[t] # keys'[u]]_orderVars

(* Tracks can always be moved, and go where they were asked to.                *)
TracksKeepOrder == []RoomIsFound /\ MovesWhereAsked
================================================================================
