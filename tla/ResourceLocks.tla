----------------------------- MODULE ResourceLocks ------------------------------
(* The leases of named resources (createLocksApi in src/runtime-services.ts).  *)
(* Each grant is a row with a fence; a row is active until it is revoked, by   *)
(* its release, by a call that finds it past its end, by the reaper, or by a   *)
(* change of its artifact.  Every call is one transaction.                     *)
EXTENDS Naturals, FiniteSets, FiniteSetsExt

CONSTANTS Resources,
          LockOwners,  \* the ownerId options of the callers
          MaxLeases    \* bound: rows

ASSUME LockAssumption == MaxLeases \in Nat

VARIABLES leases,      \* runtime_resource_leases
          granted      \* history: the lease of each grant and its fence

lockVars == <<leases, granted>>

Leases == [id : 1..MaxLeases, key : Resources, owner : LockOwners, fence : Nat,
           past : BOOLEAN, revoked : BOOLEAN]

LockInit == leases = {} /\ granted = {}

OfResource(k)    == {l \in leases : l.key = k}
Unrevoked(k)     == {l \in OfResource(k) : ~l.revoked}
Holding(k)       == {l \in Unrevoked(k) : ~l.past}       \* isLocked, get

(* revoked_at is set and the fence of the row is moved on.                     *)
MutantFenceStays(l) == [l EXCEPT !.revoked = TRUE]
Revoked(l) == [l EXCEPT !.revoked = TRUE, !.fence = @ + 1]
Revoke(S) == (leases \ S) \cup {Revoked(l) : l \in S}

(* acquire: the lapsed lease of the resource is revoked in the transaction     *)
(* that a lease which is still active makes fail.                              *)
MutantSeesActive(k) == Holding(k) # {} /\ \E l \in Holding(k) : l.fence > 1
Locked(k) == Holding(k) # {}

NextLeaseFence(rows) == IF rows = {} THEN 1 ELSE Max({l.fence : l \in rows}) + 1

Acquire(k, o) ==
  /\ ~Locked(k) /\ Cardinality(leases) < MaxLeases
  /\ LET rows == Revoke({l \in Unrevoked(k) : l.past})
         l == [id |-> Cardinality(leases) + 1, key |-> k, owner |-> o, past |-> FALSE,
               revoked |-> FALSE,
               fence |-> NextLeaseFence({r \in rows : r.key = k})] IN
     /\ leases' = rows \cup {l}
     /\ granted' = granted \cup {[id |-> l.id, key |-> k, fence |-> l.fence]}

(* release: by the owner, whichever grant the caller holds, or of anybody.     *)
ReleaseBy(k, owners) ==
  /\ leases' = Revoke({l \in Unrevoked(k) : l.owner \in owners})
  /\ UNCHANGED granted

CleanStale(k) ==
  /\ leases' = Revoke({l \in Unrevoked(k) : l.past})
  /\ UNCHANGED granted

(* The reaper of the leases, and the deletion, restore or archive of the       *)
(* artifact that a lease names, which revoke it held or not.                   *)
ReapLeases ==
  /\ \E l \in leases : l.past /\ ~l.revoked
  /\ leases' = Revoke({l \in leases : l.past /\ ~l.revoked})
  /\ UNCHANGED granted

RevokeArtifact(S) ==
  /\ leases' = Revoke({l \in leases : l.key \in S /\ ~l.revoked})
  /\ UNCHANGED granted

PassEnd(l) ==
  /\ l \in leases /\ ~l.past /\ ~l.revoked
  /\ leases' = (leases \ {l}) \cup {[l EXCEPT !.past = TRUE]}
  /\ UNCHANGED granted

LockNext ==
  \/ \E k \in Resources : \/ \E o \in LockOwners : Acquire(k, o) \/ ReleaseBy(k, {o})
                          \/ ReleaseBy(k, LockOwners) \/ CleanStale(k)
  \/ ReapLeases \/ (\E S \in SUBSET Resources : RevokeArtifact(S))
  \/ \E l \in leases : PassEnd(l)

LockSpec == LockInit /\ [][LockNext]_lockVars

(* Rows are well formed and the partial index holds: one active row for each   *)
(* resource.                                                                   *)
LockTypeOK ==
  /\ leases \subseteq Leases /\ IsFiniteSet(leases)
  /\ granted \subseteq [id : 1..MaxLeases, key : Resources, fence : Nat]
  /\ \A k \in Resources : Cardinality(Unrevoked(k)) <= 1

(* A later grant of a resource has a higher fence than each earlier one had:   *)
(* a service that compares fences never takes a former holder for the present  *)
(* one.                                                                        *)
FencesIncrease ==
  \A g, h \in granted : g.key = h.key /\ g.id < h.id => g.fence < h.fence

(* A revoked row carries a fence that no holder was ever given, its own former *)
(* holder included.                                                            *)
RevokedIsFenced ==
  \A l \in leases, h \in granted : l.revoked /\ h.key = l.key => h.fence # l.fence

(* No service that compares fences takes a former holder for the present one.  *)
LocksAreFenced == FencesIncrease /\ RevokedIsFenced
================================================================================
