------------------------------ MODULE MediaProofs -------------------------------
(***************************************************************************)
(* Proofs about the model files and about the leases of resources, for any *)
(* number of workers, resources and owners and for every bound, and about  *)
(* the suite in which all that lies around the catalog runs side by side.  *)
(***************************************************************************)
EXTENDS MediaSuite, CatalogProofs, IndexProofs, WellFoundedInduction

---------------------------------------------------------------------------
(* Model files                                                             *)

DigestIsKnown == setup.model \in {"pinned", "etag"}
IsRemote      == setup.model \in {"pinned", "etag", "plain"}
CacheFiles    == [file : Bytes \cup {None}, receipt : Bytes \cup {None}]

(* Where a digest of the revision is known, a worker that has one has that *)
(* one; only bytes of a local directory go without, and only where the     *)
(* inventory does not pin the file; the bytes to publish are those that    *)
(* matched; and a worker seals only at the end of a request.               *)
ReadsLocal == setup.looksLocal /\ setup.model \notin {"pinned", "unlisted"}
IsHonest(r) ==
  /\ DigestIsKnown => r.digest \in {None, "good"}
  /\ r.phase \notin {"idle", "look"} => setup.model # "unlisted"
  /\ r.phase \in {"receipt", "read", "fetch", "verifyFetched", "publish", "publishReceipt"} => IsRemote
  /\ r.phase = "local" => setup.looksLocal
  /\ r.phase \in {"read", "verifyFetched", "publish", "publishReceipt"} => r.digest # None
  /\ r.phase = "verify" => IF r.digest = None THEN ReadsLocal ELSE IsRemote
  /\ r.phase \in {"publish", "publishReceipt"} => r.got = r.digest
  /\ r.sealed # None => /\ r.phase = "idle"
                        /\ IF r.digest = None THEN ReadsLocal ELSE IsRemote /\ r.sealed = r.digest

(* So the receipt of the cache is the known digest, whoever wrote it, and  *)
(* the file is there before its receipt.                                   *)
IsPlaced(r, c) == r.phase = "publishReceipt" /\ DigestIsKnown /\ damage = 0 => c.file = "good"
FilesInv ==
  /\ FilesTypeOK
  /\ \A w \in Workers : IsHonest(worker[w]) /\ IsPlaced(worker[w], cached)
  /\ DigestIsKnown => cached.receipt \in {None, "good"}
  /\ CorruptIsNotPublished

(* A step of one worker keeps the invariant when the record it leaves is   *)
(* honest and what it leaves in the cache is.                              *)
Follows(c) ==
  /\ c \in CacheFiles
  /\ ~IsRemote => c = cached
  /\ DigestIsKnown => c.receipt \in {None, "good"} /\ (c = cached \/ damage # 0 \/ c.file = "good")

LEMMA WorkerStep ==
  ASSUME FilesInv, NEW w \in Workers, NEW r \in Requests, IsHonest(r), IsPlaced(r, cached'),
         worker' = [worker EXCEPT ![w] = r], UNCHANGED <<setup, local, damage>>, Follows(cached')
  PROVE  FilesInv'
<1>1. FilesTypeOK'
  BY DEF FilesInv, FilesTypeOK, Follows, CacheFiles
<1>2. \A v \in Workers : worker'[v] = IF v = w THEN r ELSE worker[v]
  BY DEF FilesInv, FilesTypeOK
<1>3. \A v \in Workers : IsHonest(worker[v])'
  BY <1>2 DEF FilesInv, IsHonest, DigestIsKnown, IsRemote, ReadsLocal
<1>4. \A v \in Workers : IsPlaced(worker[v], cached)'
  BY <1>2 DEF FilesInv, IsPlaced, Follows, DigestIsKnown
<1>5. (DigestIsKnown => cached.receipt \in {None, "good"})'
  BY DEF FilesInv, DigestIsKnown, Follows
<1>6. CorruptIsNotPublished'
  BY DEF FilesInv, DigestIsKnown, CorruptIsNotPublished, Follows, IsRemote
<1> QED
  BY <1>1, <1>3, <1>4, <1>5, <1>6 DEF FilesInv

LEMMA FilesStep == FilesInv /\ [FilesNext]_fileVars => FilesInv'
<1> SUFFICES ASSUME FilesInv, [FilesNext]_fileVars PROVE FilesInv'
  OBVIOUS
<1>a. ASSUME NEW w \in Workers
      PROVE  worker[w] \in Requests /\ IsHonest(worker[w]) /\ IsPlaced(worker[w], cached)
  BY DEF FilesInv, FilesTypeOK
<1>b. None \notin Bytes /\ setup.model \in Models
  BY DEF Bytes, None, FilesInv, FilesTypeOK, Setups
<1>c. cached \in CacheFiles /\ local \in Bytes \cup {None} /\ Follows(cached)
  BY DEF FilesInv, FilesTypeOK, Follows, CacheFiles
(* A worker that leaves the cache alone and does not begin to publish.     *)
<1>d. ASSUME NEW w \in Workers, NEW r \in Requests, IsHonest(r), r.phase # "publishReceipt",
             worker' = [worker EXCEPT ![w] = r], UNCHANGED cached, Keep
      PROVE  FilesInv'
  <2>1. IsPlaced(r, cached') /\ Follows(cached')
    BY <1>d, <1>c DEF IsPlaced
  <2> QED
    BY <1>d, <2>1, WorkerStep DEF Keep
(* What each of the small steps of a worker leaves in its record.          *)
<1>1. ASSUME NEW w \in Workers, NEW p \in {"look", "idle", "receipt", "elsewhere", "local", "fetch"},
             Goto(w, p), worker[w].sealed = None, UNCHANGED cached, Keep,
             p \in {"look", "idle"} \/ setup.model # "unlisted", p \in {"receipt", "fetch"} => IsRemote,
             p = "local" => setup.looksLocal
      PROVE  FilesInv'
  <2> DEFINE r == [worker[w] EXCEPT !.phase = p]
  <2>1. r \in Requests /\ r.phase = p /\ r.sealed = None
    BY <1>1, <1>a DEF Requests
  <2>2. r.digest = worker[w].digest
    BY <1>a DEF Requests
  <2>3. worker' = [worker EXCEPT ![w] = r]
    BY <1>1 DEF Goto
  <2> HIDE DEF r
  <2>4. IsHonest(r)
    BY <1>1, <1>a, <2>1, <2>2 DEF IsHonest
  <2> QED
    BY <2>1, <2>3, <2>4, <1>1, <1>d
<1>2. ASSUME NEW w \in Workers, Get(w) \/ Look(w) \/ Elsewhere(w) PROVE FilesInv'
  <2>1. worker[w].sealed = None
    BY <1>2, <1>a DEF Get, Look, Elsewhere, IsHonest
  <2>2. Elsewhere(w) => setup.model # "unlisted"
    BY <1>a DEF Elsewhere, IsHonest
  <2>3. CASE Get(w)
    BY <2>1, <2>3, <1>1 DEF Get
  <2>4. CASE Look(w)
    <3>1. CASE setup.model # "directory" /\ cached.file # None
      BY <2>1, <2>4, <3>1, <1>1, <1>b DEF Look, IsRemote, Models
    <3>2. CASE ~(setup.model # "directory" /\ cached.file # None)
      BY <2>1, <2>4, <3>2, <1>1 DEF Look
    <3> QED
      BY <3>1, <3>2
  <2>5. CASE Elsewhere(w)
    <3>1. CASE setup.looksLocal /\ local # None
      <4>1. Goto(w, "local")
        BY <2>5, <3>1 DEF Elsewhere
      <4> QED
        BY <2>1, <2>2, <2>5, <3>1, <4>1, <1>1 DEF Elsewhere
    <3>2. CASE ~(setup.looksLocal /\ local # None) /\ setup.online /\ setup.model # "directory"
      <4>1. Goto(w, "fetch") /\ IsRemote
        BY <2>2, <2>5, <3>2, <1>b DEF Elsewhere, IsRemote, Models
      <4> QED
        BY <2>1, <2>2, <2>5, <4>1, <1>1 DEF Elsewhere
    <3>3. CASE ~(setup.looksLocal /\ local # None) /\ ~(setup.online /\ setup.model # "directory")
      <4>1. Goto(w, "idle")
        BY <2>5, <3>3 DEF Elsewhere
      <4> QED
        BY <2>1, <2>5, <4>1, <1>1 DEF Elsewhere
    <3> QED
      BY <3>1, <3>2, <3>3
  <2> QED
    BY <1>2, <2>3, <2>4, <2>5
<1>3. ASSUME NEW w \in Workers, Receipt(w) PROVE FilesInv'
  <2>1. PICK digest : digest = IF setup.model = "pinned" THEN "good" ELSE cached.receipt
    OBVIOUS
  <2>2. PICK phase : phase = CASE digest # None                  -> "read"
                               [] digest = None /\ setup.online  -> "elsewhere"
                               [] digest = None /\ ~setup.online -> "idle"
    OBVIOUS
  <2>3. digest \in Bytes \cup {None} /\ (DigestIsKnown => digest \in {None, "good"})
    BY <2>1, <1>c DEF Bytes, CacheFiles, Follows
  <2>4. phase \in {"read", "elsewhere", "idle"} /\ (phase = "read" <=> digest # None)
    BY <2>2
  <2>5. PICK r : r = [worker[w] EXCEPT !.digest = digest, !.phase = phase]
    OBVIOUS
  <2>6. worker' = [worker EXCEPT ![w] = r] /\ worker[w].phase = "receipt"
    BY <1>3, <2>1, <2>2, <2>5 DEF Receipt, Moves
  <2>7. r \in Requests /\ r.digest = digest /\ r.phase = phase /\ r.sealed = worker[w].sealed
    BY <1>a, <2>3, <2>4, <2>5 DEF Requests
  <2>8. IsHonest(r)
    BY <1>a, <2>3, <2>4, <2>6, <2>7 DEF IsHonest, IsRemote
  <2> QED
    BY <2>4, <2>6, <2>7, <2>8, <1>3, <1>d DEF Receipt
(* Bytes are read, to be verified.                                         *)
<1>4. ASSUME NEW w \in Workers, NEW b \in Bytes \cup {None}, NEW d \in Bytes \cup {None},
             NEW p \in {"verify", "verifyFetched"}, UNCHANGED cached, Keep,
             worker' = [worker EXCEPT ![w] = [worker[w] EXCEPT !.got = b, !.phase = p, !.digest = d]],
             worker[w].sealed = None, DigestIsKnown => d \in {None, "good"}, setup.model # "unlisted",
             p = "verify" => IF d = None THEN ReadsLocal ELSE IsRemote,
             p = "verifyFetched" => IsRemote /\ d # None
      PROVE  FilesInv'
  <2>1. PICK r : r = [worker[w] EXCEPT !.got = b, !.phase = p, !.digest = d]
    OBVIOUS
  <2>2. r \in Requests /\ r.digest = d /\ r.phase = p /\ r.sealed = None
    BY <1>a, <1>4, <2>1 DEF Requests
  <2>3. IsHonest(r)
    BY <1>4, <2>2 DEF IsHonest
  <2>4. worker' = [worker EXCEPT ![w] = r]
    BY <1>4, <2>1
  <2>5. r.phase # "publishReceipt"
    BY <2>2
  <2> QED
    BY <2>2, <2>3, <2>4, <2>5, <1>4, <1>d
<1>5. ASSUME NEW w \in Workers, ReadCached(w) PROVE FilesInv'
  <2>1. worker[w].sealed = None /\ worker[w].digest # None /\ IsRemote
        /\ (DigestIsKnown => worker[w].digest \in {None, "good"})
    BY <1>5, <1>a DEF ReadCached, IsHonest
  <2>2. worker[w] \in Requests /\ cached.file \in Bytes \cup {None} /\ worker[w].digest \in Bytes \cup {None}
    BY <1>a, <1>c DEF CacheFiles, Requests
  <2>3. [worker[w] EXCEPT !.got = cached.file, !.phase = "verify"]
          = [worker[w] EXCEPT !.got = cached.file, !.phase = "verify", !.digest = worker[w].digest]
    BY <2>2 DEF Requests
  <2> QED
    BY <2>1, <2>2, <2>3, <1>4, <1>5 DEF ReadCached, Moves, IsRemote
<1>6. ASSUME NEW w \in Workers, ReadLocal(w) PROVE FilesInv'
  <2>1. worker[w].sealed = None /\ setup.model # "unlisted"
    BY <1>6, <1>a DEF ReadLocal, IsHonest
  <2>2. CASE local = None
    BY <2>1, <2>2, <1>1, <1>6 DEF ReadLocal
  <2>3. CASE local # None
    <3>1. PICK d : d = IF setup.model = "pinned" THEN "good" ELSE None
      OBVIOUS
    <3>2. worker' = [worker EXCEPT ![w] = [worker[w] EXCEPT !.got = local, !.phase = "verify", !.digest = d]]
      BY <1>6, <2>3, <3>1 DEF ReadLocal, Moves
    <3>3. d \in Bytes \cup {None} /\ (DigestIsKnown => d \in {None, "good"})
          /\ IF d = None THEN setup.model # "pinned" ELSE IsRemote
      BY <3>1 DEF Bytes, None, IsRemote
    <3>4. setup.looksLocal
      BY <1>6, <1>a DEF ReadLocal, IsHonest
    <3>5. d = None => ReadsLocal
      BY <2>1, <3>3, <3>4 DEF ReadsLocal
    <3> QED
      BY <2>1, <3>2, <3>3, <3>5, <1>c, <1>4, <1>6 DEF ReadLocal
  <2> QED
    BY <2>2, <2>3
<1>7. ASSUME NEW w \in Workers, Fetch(w) PROVE FilesInv'
  <2>1. PICK b \in Bytes :
          Moves(w, [worker[w] EXCEPT !.got = b, !.phase = "verifyFetched",
                      !.digest = IF setup.model \in {"pinned", "etag"} THEN "good" ELSE b])
    BY <1>7 DEF Fetch
  <2>2. PICK d : d = IF setup.model \in {"pinned", "etag"} THEN "good" ELSE b
    OBVIOUS
  <2>3. d \in Bytes \cup {None} /\ d # None /\ (DigestIsKnown => d \in {None, "good"})
    BY <2>2, <1>b DEF Bytes, None, DigestIsKnown
  <2>4. worker[w].sealed = None /\ IsRemote /\ setup.model # "unlisted"
    BY <1>7, <1>a DEF Fetch, IsHonest, IsRemote
  <2> QED
    BY <2>1, <2>2, <2>3, <2>4, <1>4, <1>7 DEF Fetch, Moves
<1>8. ASSUME NEW w \in Workers, Fails(w), worker[w].sealed = None, UNCHANGED cached, Keep
      PROVE  FilesInv'
  <2> DEFINE r == [worker[w] EXCEPT !.phase = "idle", !.stopped = TRUE]
  <2>1. r \in Requests /\ r.phase = "idle" /\ r.sealed = None /\ r.digest = worker[w].digest
    BY <1>8, <1>a DEF Requests
  <2>2. worker' = [worker EXCEPT ![w] = r]
    BY <1>8 DEF Fails, Moves
  <2> HIDE DEF r
  <2>3. IsHonest(r)
    BY <1>a, <2>1 DEF IsHonest
  <2> QED
    BY <2>1, <2>2, <2>3, <1>8, <1>d
<1>9. ASSUME NEW w \in Workers, LookUnlisted(w) \/ NoFetch(w) PROVE FilesInv'
  <2>1. worker[w].sealed = None
    BY <1>9, <1>a DEF LookUnlisted, NoFetch, IsHonest
  <2>2. Fails(w) \/ Goto(w, "idle")
    BY <1>9 DEF LookUnlisted, NoFetch
  <2>3. UNCHANGED cached /\ Keep
    BY <1>9 DEF LookUnlisted, NoFetch
  <2> QED
    BY <2>1, <2>2, <2>3, <1>1, <1>8
<1>10. ASSUME NEW w \in Workers, Seals(w), worker[w].sealed = None,
              IF worker[w].digest = None THEN ReadsLocal ELSE IsRemote /\ worker[w].got = worker[w].digest
       PROVE  \E r \in Requests : /\ IsHonest(r) /\ r.phase = "idle"
                                  /\ worker' = [worker EXCEPT ![w] = r]
  <2> DEFINE r == [worker[w] EXCEPT !.phase = "idle", !.sealed = worker[w].got]
  <2>1. r \in Requests /\ r.phase = "idle" /\ r.sealed = worker[w].got /\ r.digest = worker[w].digest
    BY <1>a DEF Requests
  <2>2. worker' = [worker EXCEPT ![w] = r]
    BY <1>10 DEF Seals, Moves
  <2> HIDE DEF r
  <2>3. IsHonest(r)
    BY <1>a, <1>10, <2>1 DEF IsHonest
  <2> QED
    BY <2>1, <2>2, <2>3
<1>11. ASSUME NEW w \in Workers, Verify(w) PROVE FilesInv'
  <2>1. worker[w].sealed = None /\ IF worker[w].digest = None THEN ReadsLocal ELSE IsRemote
    BY <1>11, <1>a DEF Verify, IsHonest
  <2>2. CASE DigestMatches(w)
    <3>1. PICK r \in Requests : IsHonest(r) /\ r.phase = "idle" /\ worker' = [worker EXCEPT ![w] = r]
      BY <2>1, <2>2, <1>10, <1>11 DEF Verify, DigestMatches
    <3> QED
      BY <3>1, <1>11, <1>d DEF Verify
  <2>3. CASE ~DigestMatches(w)
    BY <2>1, <2>3, <1>8, <1>11 DEF Verify
  <2> QED
    BY <2>2, <2>3
<1>12. ASSUME NEW w \in Workers, VerifyFetched(w) PROVE FilesInv'
  <2>1. worker[w].sealed = None /\ IsRemote /\ worker[w].digest # None
        /\ (DigestIsKnown => worker[w].digest \in {None, "good"})
    BY <1>12, <1>a DEF VerifyFetched, IsHonest
  <2>2. CASE DigestMatches(w)
    <3> DEFINE r == [worker[w] EXCEPT !.phase = "publish"]
    <3>1. r \in Requests /\ r.phase = "publish" /\ r.sealed = None /\ r.digest = worker[w].digest
          /\ r.got = worker[w].got
      BY <2>1, <1>a DEF Requests
    <3>2. worker' = [worker EXCEPT ![w] = r]
      BY <2>2, <1>12 DEF VerifyFetched, AfterFetch, Goto
    <3> HIDE DEF r
    <3>3. IsHonest(r)
      BY <2>1, <2>2, <3>1 DEF IsHonest, DigestMatches, IsRemote
    <3> QED
      BY <3>1, <3>2, <3>3, <1>12, <1>d DEF VerifyFetched
  <2>3. CASE ~DigestMatches(w)
    BY <2>1, <2>3, <1>8, <1>12 DEF VerifyFetched, AfterFetch
  <2> QED
    BY <2>2, <2>3
<1>13. ASSUME NEW w \in Workers, PublishFile(w) PROVE FilesInv'
  <2> DEFINE r == [worker[w] EXCEPT !.phase = "publishReceipt"]
  <2>1. /\ worker[w].got = worker[w].digest /\ worker[w].sealed = None /\ worker[w].digest # None /\ IsRemote
        /\ DigestIsKnown => worker[w].digest = "good"
    BY <1>13, <1>a DEF PublishFile, IsHonest
  <2>2. r \in Requests /\ r.phase = "publishReceipt" /\ r.sealed = None /\ r.digest = worker[w].digest
        /\ r.got = worker[w].got
    BY <2>1, <1>a DEF Requests
  <2>3. worker' = [worker EXCEPT ![w] = r]
    BY <1>13 DEF PublishFile, Goto
  <2>4. cached' \in CacheFiles /\ cached'.receipt = cached.receipt /\ cached'.file = worker[w].got
    BY <1>13, <1>a, <1>c DEF PublishFile, Requests, CacheFiles
  <2> HIDE DEF r
  <2>5. IsHonest(r) /\ IsPlaced(r, cached')
    BY <2>1, <2>2, <2>4 DEF IsHonest, IsPlaced, IsRemote
  <2>6. Follows(cached')
    BY <2>1, <2>4, <1>c DEF Follows
  <2> QED
    BY <2>2, <2>3, <2>5, <2>6, <1>13, WorkerStep DEF PublishFile, Keep
<1>14. ASSUME NEW w \in Workers, PublishReceipt(w) PROVE FilesInv'
  <2>1. /\ worker[w].got = worker[w].digest /\ worker[w].sealed = None /\ worker[w].digest # None /\ IsRemote
        /\ DigestIsKnown => worker[w].digest = "good"
        /\ DigestIsKnown /\ damage = 0 => cached.file = "good"
    BY <1>14, <1>a DEF PublishReceipt, IsHonest, IsPlaced
  <2>2. cached' \in CacheFiles /\ cached'.receipt = worker[w].digest /\ cached'.file = cached.file
    BY <1>14, <1>a, <1>c DEF PublishReceipt, Requests, CacheFiles
  <2>3. PICK r \in Requests : IsHonest(r) /\ r.phase = "idle" /\ worker' = [worker EXCEPT ![w] = r]
    BY <2>1, <1>10, <1>14 DEF PublishReceipt
  <2>4. Follows(cached') /\ IsPlaced(r, cached')
    BY <2>1, <2>2, <2>3 DEF Follows, IsPlaced
  <2> QED
    BY <2>3, <2>4, <1>14, WorkerStep DEF PublishReceipt, Keep
<1>15. ASSUME NEW w \in Workers, PublishFails(w) PROVE FilesInv'
  <2>1. worker[w].sealed = None
    BY <1>15, <1>a DEF PublishFails, IsHonest
  <2> QED
    BY <1>1, <1>15, <2>1 DEF PublishFails
<1>16. ASSUME NEW w \in Workers, Replace(w) PROVE FilesInv'
  <2>1. Fresh \in Requests /\ IsHonest(Fresh) /\ Fresh.phase = "idle"
    BY DEF Fresh, Requests, IsHonest, None
  <2> QED
    BY <2>1, <1>16, <1>d DEF Replace, Moves
<1>17. ASSUME DamageCache \/ ChangeLocal PROVE FilesInv'
  <2>1. /\ UNCHANGED <<setup, worker>> /\ damage' = damage + 1 /\ damage' \in 0..MaxDamage /\ damage' # 0
        /\ local' \in Bytes \cup {None} /\ cached' \in CacheFiles /\ cached'.receipt = cached.receipt
    BY <1>17, <1>c, FileAssumption DEF DamageCache, ChangeLocal, FilesInv, FilesTypeOK, CacheFiles, Bytes
  <2>2. FilesTypeOK'
    BY <2>1 DEF FilesInv, FilesTypeOK, CacheFiles
  <2> QED
    BY <2>1, <2>2 DEF FilesInv, IsHonest, IsPlaced, DigestIsKnown, IsRemote, ReadsLocal,
       CorruptIsNotPublished
<1>18. CASE UNCHANGED fileVars
  BY <1>18 DEF fileVars, FilesInv, FilesTypeOK, IsHonest, IsPlaced, DigestIsKnown, IsRemote, ReadsLocal,
     CorruptIsNotPublished
<1> QED
  BY <1>2, <1>3, <1>5, <1>6, <1>7, <1>9, <1>11, <1>12, <1>13, <1>14, <1>15, <1>16, <1>17, <1>18
     DEF FilesNext

(* Bytes that nobody verified reach a loader only from a local directory   *)
(* that no inventory pins, and never the shared cache: the resolver of     *)
(* model-file-resolver.ts hands out a copy that matched the digest of the  *)
(* file, and publishes only what matched, however the downloads, reads and *)
(* renames of the workers interleave and whatever happens to the cache and *)
(* to the directory in between.                                            *)
THEOREM CacheVerification == FilesSpec => [](FilesTypeOK /\ CacheIsVerified)
<1>1. FilesInit => FilesInv
  <2> SUFFICES ASSUME FilesInit PROVE FilesInv
    OBVIOUS
  <2>1. cached.receipt = None /\ cached.file \in {None, "bad"} /\ (cached.file = "bad" => setup.foreign)
    BY DEF FilesInit, None
  <2>2. FilesTypeOK
    BY FileAssumption DEF FilesInit, FilesTypeOK, Requests, Bytes, None, Fresh
  <2>3. \A w \in Workers : IsHonest(worker[w]) /\ IsPlaced(worker[w], cached)
    BY DEF FilesInit, IsHonest, IsPlaced, None, Fresh
  <2> QED
    BY <2>1, <2>2, <2>3 DEF FilesInv, CorruptIsNotPublished
<1>2. ASSUME FilesInv PROVE FilesTypeOK /\ CacheIsVerified
  <2>1. ASSUME NEW w \in Workers, worker[w].sealed # None
        PROVE  /\ setup.model # "unlisted"
               /\ LocalUnverified(w) \/ (setup.model # "directory" /\ worker[w].sealed = worker[w].digest)
               /\ setup.model \in {"pinned", "etag"} => LocalUnverified(w) \/ worker[w].sealed = "good"
    <3>1. IsHonest(worker[w])
      BY <1>2 DEF FilesInv
    <3> QED
      BY <2>1, <3>1 DEF IsHonest, LocalUnverified, ReadsLocal, IsRemote, DigestIsKnown
  <2> QED
    BY <1>2, <2>1 DEF FilesInv, CacheIsVerified, SealedIsVerified
<1> QED
  BY <1>1, <1>2, FilesStep, PTL DEF FilesSpec
---------------------------------------------------------------------------
(* Resource leases                                                         *)

(* A finite set of natural numbers that is not empty has a maximum: among  *)
(* the sets of numbers above each of its members one is minimal.           *)
LEMMA FiniteMax ==
  ASSUME NEW S \in SUBSET Nat, IsFiniteSet(S), S # {}
  PROVE  Max(S) \in S /\ \A y \in S : y <= Max(S)
<1> DEFINE Above(x) == {y \in S : y > x}
           T == {Above(x) : x \in S}
<1>1. IsWellFoundedOn(StrictSubsetOrdering(S), FiniteSubsetsOf(S))
  BY FS_StrictSubsetOrderingWellFounded
<1>2. T \subseteq FiniteSubsetsOf(S) /\ T # {}
  <2>1. FiniteSubsetsOf(S) = SUBSET S
    BY FS_FiniteSubsetsOfFinite
  <2>2. \A x \in S : Above(x) \in SUBSET S
    OBVIOUS
  <2>3. \A U \in T : U \in SUBSET S
    BY <2>2
  <2>4. T # {}
    OBVIOUS
  <2> QED
    BY <2>1, <2>3, <2>4
<1> HIDE DEF T
<1>3. PICK m \in T : \A U \in T : ~(<<U, m>> \in StrictSubsetOrdering(S))
  BY <1>1, <1>2, WFMin
<1>4. PICK x \in S : m = Above(x)
  BY DEF T
<1>5. ASSUME NEW y \in S, y > x PROVE FALSE
  <2>1. Above(y) \subseteq Above(x) /\ y \in Above(x) /\ y \notin Above(y)
    <3>1. \A z \in S : z \in Nat
      OBVIOUS
    <3>2. \A z \in Above(y) : z > x
      BY <1>5, <3>1
    <3>3. Above(y) \subseteq Above(x)
      BY <3>2
    <3>4. y \in Above(x) /\ y \notin Above(y)
      BY <1>5, <3>1
    <3> QED
      BY <3>3, <3>4
  <2>2. <<Above(y), Above(x)>> \in StrictSubsetOrdering(S)
    BY <2>1 DEF StrictSubsetOrdering
  <2> QED
    BY <2>2, <1>3, <1>4 DEF T
<1>6. \A y \in S : x >= y
  BY <1>5
<1> QED
  BY <1>6 DEF Max

(* The fence that the holder of a row was given.                           *)
Given(l) == IF l.revoked THEN l.fence - 1 ELSE l.fence

(* The rows are numbered by their grants.  Each earlier row of a resource  *)
(* is revoked, and its moved fence is still below what any later holder    *)
(* was given.                                                              *)
LeasesInOrder(table) ==
  /\ table \subseteq Leases /\ IsFiniteSet(table)
  /\ Cardinality(table) <= MaxLeases
  /\ \A l \in table : l.id <= Cardinality(table)
  /\ \A l, m \in table : l.id = m.id => l = m
  /\ \A l, m \in table : l.key = m.key /\ l.id < m.id => l.revoked /\ l.fence < Given(m)

GrantsHaveRows(table) ==
  /\ granted \subseteq [id : 1..MaxLeases, key : Resources, fence : Nat]
  /\ \A h \in granted : \E l \in table : l.id = h.id /\ l.key = h.key /\ Given(l) = h.fence

LockInv == LeasesInOrder(leases) /\ GrantsHaveRows(leases)

(* A call that marks rows as past or revoked keeps the order: it rewrites  *)
(* no revoked row and no id, resource or granted fence.                    *)
LEMMA RewritingKeepsOrder ==
  ASSUME LockInv, NEW f \in [leases -> Leases], NEW table, table = {f[l] : l \in leases},
         \A l \in leases : /\ f[l].id = l.id /\ f[l].key = l.key /\ Given(f[l]) = Given(l)
                           /\ l.revoked => f[l] = l
  PROVE  LeasesInOrder(table) /\ GrantsHaveRows(table) /\ Cardinality(table) = Cardinality(leases)
<1>1. \A l, m \in leases : f[l] = f[m] => l = m
  BY DEF LockInv, LeasesInOrder
<1>2. ExistsBijection(leases, table)
  <2>1. f \in Bijection(leases, table)
    <3>1. f \in [leases -> table]
      OBVIOUS
    <3>2. f \in Surjection(leases, table)
      <4>1. \A r \in table : \E l \in leases : f[l] = r
        OBVIOUS
      <4> QED
        BY <3>1, <4>1 DEF Surjection
    <3>3. f \in Injection(leases, table)
      BY <1>1, <3>1 DEF Injection, IsInjective
    <3> QED
      BY <3>2, <3>3 DEF Bijection
  <2> QED
    BY <2>1 DEF ExistsBijection
<1>3. IsFiniteSet(table) /\ Cardinality(table) = Cardinality(leases)
  BY <1>2, FS_Bijection DEF LockInv, LeasesInOrder
<1>4. Cardinality(leases) \in Nat
  BY FS_CardinalityType DEF LockInv, LeasesInOrder
<1>5. \A l, m \in table : l.id = m.id => l = m
  BY <1>1 DEF LockInv, LeasesInOrder
<1>6. \A l, m \in table : l.key = m.key /\ l.id < m.id => l.revoked /\ l.fence < Given(m)
  <2> SUFFICES ASSUME NEW l \in leases, NEW m \in leases,
                      f[l].key = f[m].key, f[l].id < f[m].id
               PROVE  f[l].revoked /\ f[l].fence < Given(f[m])
    OBVIOUS
  <2>1. l.revoked /\ l.fence < Given(m)
    BY DEF LockInv, LeasesInOrder
  <2> QED
    BY <2>1
<1>7. LeasesInOrder(table)
  <2>1. table \subseteq Leases
    OBVIOUS
  <2>2. Cardinality(table) <= MaxLeases /\ \A l \in table : l.id <= Cardinality(table)
    <3>1. Cardinality(table) <= MaxLeases
      BY <1>3 DEF LockInv, LeasesInOrder
    <3>2. ASSUME NEW r \in table PROVE r.id <= Cardinality(table)
      <4>1. PICK l \in leases : r = f[l]
        OBVIOUS
      <4> QED
        BY <1>3, <4>1 DEF LockInv, LeasesInOrder
    <3> QED
      BY <3>1, <3>2
  <2> QED
    BY <1>3, <1>5, <1>6, <2>1, <2>2 DEF LeasesInOrder
<1>8. GrantsHaveRows(table)
  BY DEF LockInv, GrantsHaveRows
<1> QED
  BY <1>3, <1>7, <1>8

(* Revoke is such a rewriting of rows that are not revoked.                *)
LEMMA RevokeKeepsOrder ==
  ASSUME LockInv, NEW S \in SUBSET leases, \A l \in S : ~l.revoked
  PROVE  /\ LeasesInOrder(Revoke(S)) /\ GrantsHaveRows(Revoke(S))
         /\ Cardinality(Revoke(S)) = Cardinality(leases)
<1> DEFINE f == [l \in leases |-> IF l \in S THEN Revoked(l) ELSE l]
<1>1. f \in [leases -> Leases]
  <2>1. \A l \in leases : l \in Leases
    BY DEF LockInv, LeasesInOrder
  <2>2. \A l \in Leases : Revoked(l) \in Leases
    <3> SUFFICES ASSUME NEW l \in Leases PROVE Revoked(l) \in Leases
      OBVIOUS
    <3>1. l.fence + 1 \in Nat
      BY DEF Leases
    <3> QED
      BY <3>1 DEF Revoked, Leases
  <2> QED
    BY <2>1, <2>2
<1>2. \A l \in leases : /\ f[l].id = l.id /\ f[l].key = l.key /\ Given(f[l]) = Given(l)
                        /\ l.revoked => f[l] = l
  BY DEF LockInv, LeasesInOrder, Revoked, Leases, Given
<1>3. Revoke(S) = {f[l] : l \in leases}
  BY DEF Revoke
<1> QED
  BY <1>1, <1>2, <1>3, RewritingKeepsOrder

LEMMA LockStep == LockInv /\ [LockNext]_lockVars => LockInv'
<1> SUFFICES ASSUME LockInv, [LockNext]_lockVars PROVE LockInv'
  OBVIOUS
<1>1. ASSUME NEW S \in SUBSET leases, \A l \in S : ~l.revoked,
             leases' = Revoke(S), UNCHANGED granted
      PROVE  LockInv'
  BY <1>1, RevokeKeepsOrder DEF LockInv, LeasesInOrder, GrantsHaveRows
<1>2. ASSUME NEW k \in Resources, NEW o \in LockOwners, Acquire(k, o) PROVE LockInv'
  <2> DEFINE S == {l \in Unrevoked(k) : l.past}
             table == Revoke(S)
             fences == {r.fence : r \in {x \in table : x.key = k}}
             new == [id |-> Cardinality(leases) + 1, key |-> k, owner |-> o, past |-> FALSE,
                     revoked |-> FALSE, fence |-> NextLeaseFence({r \in table : r.key = k})]
  <2>1. /\ LeasesInOrder(table) /\ GrantsHaveRows(table)
        /\ Cardinality(table) = Cardinality(leases)
    BY RevokeKeepsOrder DEF Unrevoked, OfResource
  <2>2. Cardinality(leases) \in Nat /\ Cardinality(leases) < MaxLeases
    BY <1>2, FS_CardinalityType DEF LockInv, LeasesInOrder, Acquire
  <2>3. leases' = table \cup {new} /\ granted' = granted \cup {[id |-> new.id, key |-> k, fence |-> new.fence]}
    BY <1>2 DEF Acquire
  <2>4. ASSUME NEW r \in table, r.key = k PROVE r.revoked
    BY <1>2, <2>4 DEF Acquire, Locked, Holding, Unrevoked, OfResource, Revoke, Revoked,
       LockInv, LeasesInOrder, Leases
  <2>5. new.fence \in Nat /\ \A r \in table : r.key = k => r.fence < new.fence
    <3>1. CASE {r \in table : r.key = k} = {}
      BY <3>1 DEF NextLeaseFence
    <3>2. CASE {r \in table : r.key = k} # {}
      <4> DEFINE R == {r \in table : r.key = k}
      <4>1. IsFiniteSet(R)
        BY <2>1, FS_Subset DEF LeasesInOrder
      <4>2. IsFiniteSet(fences)
        <5> DEFINE g == [r \in R |-> r.fence]
        <5>1. g \in Surjection(R, fences)
          BY DEF Surjection
        <5> QED
          BY <5>1, <4>1, FS_Surjection
      <4>3. fences \in SUBSET Nat /\ fences # {}
        BY <2>1, <3>2 DEF LeasesInOrder, Leases
      <4>4. Max(fences) \in fences /\ \A y \in fences : y <= Max(fences)
        BY <4>2, <4>3, FiniteMax
      <4>5. new.fence = Max(fences) + 1
        BY <3>2 DEF NextLeaseFence
      <4>6. \A r \in table : r.key = k => r.fence \in fences
        OBVIOUS
      <4> HIDE DEF fences, new, table
      <4>7. Max(fences) \in Nat /\ \A y \in fences : y \in Nat
        BY <4>3, <4>4
      <4> QED
        BY <4>4, <4>5, <4>6, <4>7
    <3> QED
      BY <3>1, <3>2
  <2>6. new \in Leases
    BY <2>2, <2>5, LockAssumption DEF Leases
  <2>a. new.id = Cardinality(leases) + 1 /\ new.key = k /\ ~new.revoked
    OBVIOUS
  <2>b. \A r \in table : r \in Leases /\ r.id \in Nat /\ r.fence \in Nat
    BY <2>1 DEF LeasesInOrder, Leases
  <2> HIDE DEF table, new
  <2>7. new \notin table
    BY <2>1, <2>2, <2>a DEF LeasesInOrder
  <2>8. IsFiniteSet(table \cup {new}) /\ Cardinality(table \cup {new}) = Cardinality(leases) + 1
    BY <2>1, <2>7, FS_AddElement DEF LeasesInOrder
  <2>9. \A l, m \in leases' : l.id = m.id => l = m
    BY <2>1, <2>2, <2>3, <2>a, <2>b DEF LeasesInOrder
  <2>10. \A l, m \in leases' : l.key = m.key /\ l.id < m.id => l.revoked /\ l.fence < Given(m)
    <3> SUFFICES ASSUME NEW l \in table \cup {new}, NEW m \in table \cup {new},
                        l.key = m.key, l.id < m.id
                 PROVE  l.revoked /\ l.fence < Given(m)
      BY <2>3
    <3>1. l # new
      BY <2>1, <2>2, <2>a, <2>b DEF LeasesInOrder
    <3>2. CASE m = new
      BY <2>4, <2>5, <2>a, <3>1, <3>2 DEF Given
    <3>3. CASE m \in table
      BY <2>1, <3>1, <3>3 DEF LeasesInOrder
    <3> QED
      BY <3>2, <3>3
  <2>11. LeasesInOrder(leases)'
    <3>1. Cardinality(leases') <= MaxLeases /\ \A l \in leases' : l.id <= Cardinality(leases')
      <4>1. Cardinality(leases') = Cardinality(leases) + 1
        BY <2>3, <2>8
      <4>2. \A l \in table : l.id <= Cardinality(leases)
        BY <2>1 DEF LeasesInOrder
      <4> QED
        BY <4>1, <4>2, <2>2, <2>3, <2>a, <2>b, LockAssumption
    <3>2. leases' \subseteq Leases /\ IsFiniteSet(leases')
      BY <2>3, <2>6, <2>8, <2>b
    <3> QED
      BY <2>9, <2>10, <3>1, <3>2 DEF LeasesInOrder
  <2>12. GrantsHaveRows(leases)'
    <3>1. new.id \in 1..MaxLeases /\ Given(new) = new.fence
      BY <2>6, <2>a DEF Leases, Given
    <3> QED
      BY <2>1, <2>3, <2>5, <2>a, <3>1 DEF GrantsHaveRows
  <2> QED
    BY <2>11, <2>12 DEF LockInv
<1>3. ASSUME NEW k \in Resources, NEW owners, ReleaseBy(k, owners) PROVE LockInv'
  BY <1>1, <1>3 DEF ReleaseBy, Unrevoked, OfResource
<1>4. ASSUME NEW k \in Resources, CleanStale(k) PROVE LockInv'
  BY <1>1, <1>4 DEF CleanStale, Unrevoked, OfResource
<1>5. CASE ReapLeases
  BY <1>1, <1>5 DEF ReapLeases
<1>6. ASSUME NEW S \in SUBSET Resources, RevokeArtifact(S) PROVE LockInv'
  BY <1>1, <1>6 DEF RevokeArtifact
<1>7. ASSUME NEW l \in leases, PassEnd(l) PROVE LockInv'
  <2> DEFINE f == [x \in leases |-> IF x = l THEN [x EXCEPT !.past = TRUE] ELSE x]
  <2>1. f \in [leases -> Leases]
    BY DEF LockInv, LeasesInOrder, Leases
  <2>2. \A x \in leases : /\ f[x].id = x.id /\ f[x].key = x.key /\ Given(f[x]) = Given(x)
                          /\ x.revoked => f[x] = x
    BY <1>7 DEF LockInv, LeasesInOrder, Leases, Given, PassEnd
  <2>3. leases' = {f[x] : x \in leases} /\ UNCHANGED granted
    <3>1. f[l] = [l EXCEPT !.past = TRUE] /\ \A x \in leases \ {l} : f[x] = x
      OBVIOUS
    <3> QED
      BY <1>7, <3>1 DEF PassEnd
  <2> DEFINE table == {f[x] : x \in leases}
  <2>4. LeasesInOrder(table) /\ GrantsHaveRows(table)
    <3> HIDE DEF f
    <3> QED
      BY <2>1, <2>2, RewritingKeepsOrder
  <2> HIDE DEF f, table
  <2>5. leases' = table
    BY <2>3 DEF table
  <2> QED
    BY <2>3, <2>4, <2>5 DEF LockInv, LeasesInOrder, GrantsHaveRows
<1>8. CASE UNCHANGED lockVars
  BY <1>8 DEF lockVars, LockInv, LeasesInOrder, GrantsHaveRows
<1> QED
  BY <1>2, <1>3, <1>4, <1>5, <1>6, <1>7, <1>8 DEF LockNext

(* No two holders of a resource were ever given the same fence, a later    *)
(* one always has a higher one, and a revoked row carries one that nobody  *)
(* was given: createLocksApi in runtime-services.ts, with any interleaving *)
(* of grants, releases, lapses, reaping and changes of artifacts.          *)
THEOREM LeaseFencing == LockSpec => []LocksAreFenced
<1>1. LockInit => LockInv
  BY FS_EmptySet, LockAssumption DEF LockInit, LockInv, LeasesInOrder, GrantsHaveRows
<1>2. ASSUME LockInv PROVE LocksAreFenced
  <2>1. Cardinality(leases) \in Nat
    BY <1>2, FS_CardinalityType DEF LockInv, LeasesInOrder
  <2>2. FencesIncrease
    <3> SUFFICES ASSUME NEW g \in granted, NEW h \in granted, g.key = h.key, g.id < h.id
                 PROVE  g.fence < h.fence
      BY DEF FencesIncrease
    <3>1. PICK l \in leases : l.id = g.id /\ l.key = g.key /\ Given(l) = g.fence
      BY <1>2 DEF LockInv, GrantsHaveRows
    <3>2. PICK m \in leases : m.id = h.id /\ m.key = h.key /\ Given(m) = h.fence
      BY <1>2 DEF LockInv, GrantsHaveRows
    <3>3. l.revoked /\ l.fence < Given(m)
      BY <1>2, <3>1, <3>2 DEF LockInv, LeasesInOrder
    <3>4. l.fence \in Nat /\ m.fence \in Nat
      BY <1>2 DEF LockInv, LeasesInOrder, Leases
    <3> QED
      BY <3>1, <3>2, <3>3, <3>4 DEF Given
  <2>3. RevokedIsFenced
    <3> SUFFICES ASSUME NEW l \in leases, NEW h \in granted, l.revoked, h.key = l.key
                 PROVE  h.fence # l.fence
      BY DEF RevokedIsFenced
    <3>1. PICK m \in leases : m.id = h.id /\ m.key = h.key /\ Given(m) = h.fence
      BY <1>2 DEF LockInv, GrantsHaveRows
    <3>2. /\ l.fence \in Nat /\ m.fence \in Nat /\ l.id \in Nat /\ m.id \in Nat
          /\ Given(m) <= m.fence
      BY <1>2 DEF LockInv, LeasesInOrder, Leases, Given
    <3>3. CASE l.id = m.id
      BY <1>2, <3>1, <3>2, <3>3 DEF LockInv, LeasesInOrder, Given
    <3>4. CASE l.id < m.id
      BY <1>2, <3>1, <3>2, <3>4 DEF LockInv, LeasesInOrder, Given
    <3>5. CASE m.id < l.id
      BY <1>2, <3>1, <3>2, <3>5 DEF LockInv, LeasesInOrder, Given
    <3> QED
      BY <3>2, <3>3, <3>4, <3>5
  <2> QED
    BY <2>2, <2>3 DEF LocksAreFenced
<1> QED
  BY <1>1, <1>2, LockStep, PTL DEF LockSpec

(* The rows stay well formed and the partial index over active rows holds: *)
(* there is at most one unrevoked lease of a resource.                     *)
THEOREM OneActiveLease == LockSpec => []LockTypeOK
<1>1. LockInit => LockInv
  BY FS_EmptySet, LockAssumption DEF LockInit, LockInv, LeasesInOrder, GrantsHaveRows
<1>2. ASSUME LockInv PROVE LockTypeOK
  <2>1. ASSUME NEW k \in Resources PROVE Cardinality(Unrevoked(k)) <= 1
    <3>1. \A l, m \in Unrevoked(k) : l = m
      BY <1>2 DEF LockInv, LeasesInOrder, Leases, Unrevoked, OfResource
    <3>2. CASE Unrevoked(k) = {}
      BY <3>2, FS_EmptySet
    <3>3. CASE Unrevoked(k) # {}
      <4>1. PICK l \in Unrevoked(k) : Unrevoked(k) = {l}
        BY <3>1, <3>3
      <4> QED
        BY <4>1, FS_Singleton
    <3> QED
      BY <3>2, <3>3
  <2> QED
    BY <1>2, <2>1 DEF LockInv, LeasesInOrder, GrantsHaveRows, LockTypeOK
<1> QED
  BY <1>1, <1>2, LockStep, PTL DEF LockSpec

---------------------------------------------------------------------------
(* The suite                                                               *)

(* A step of the suite is a step of the part that runs, and leaves the     *)
(* others as they are: the behaviours of each part are its own.            *)
LEMMA SuiteStep ==
  ASSUME [MediaNext]_<<part, wsVars, archiveVars, closeVars, searchVars, similarityVars,
                       vectorVars, fileVars, lockVars>>
  PROVE  /\ [WsNext]_wsVars /\ [ArchiveNext]_archiveVars /\ [CloseNext]_closeVars
         /\ [SearchNext]_searchVars /\ [SimilarityNext]_similarityVars
         /\ [VectorNext]_vectorVars /\ [FilesNext]_fileVars /\ [LockNext]_lockVars
BY DEF MediaNext

LEMMA SuiteParts ==
  MediaSpec => WsSpec /\ ArchiveSpec /\ CloseSpec /\ SearchSpec /\ VectorSpec /\ FilesSpec /\ LockSpec
<1>1. MediaInit => WsInit /\ ArchiveInit /\ CloseInit /\ SearchInit /\ VectorInit /\ FilesInit /\ LockInit
  BY DEF MediaInit
<1> QED
  BY <1>1, SuiteStep, PTL DEF MediaSpec, WsSpec, ArchiveSpec, CloseSpec, SearchSpec, VectorSpec,
     FilesSpec, LockSpec

LEMMA SuiteSimilarity == MediaSpec => [](SimilarityTypeOK /\ SimilarityIsExact)
<1>1. MediaInit => SimilarityInv
  <2> SUFFICES ASSUME MediaInit PROVE SimilarityInv
    OBVIOUS
  <2>1. originals \in [Items -> Originals \cup {"gone"}]
    BY DEF MediaInit, SimilarityInit, RestingSimilarity
  <2> QED
    BY <2>1, SimilarityStarts DEF MediaInit, SimilarityInit, RestingSimilarity, IndexKinds
<1> QED
  BY <1>1, SuiteStep, SimilarityStep, SimilarityHolds, PTL DEF MediaSpec

(* The types and keys of every part of the suite, for all its constants.   *)
THEOREM SuiteTypes == MediaSpec => []MediaTypeOK
<1>1. WsTypeOK /\ ArchiveTypeOK /\ CloseTypeOK /\ SearchTypeOK /\ SimilarityTypeOK /\ VectorTypeOK
        /\ FilesTypeOK /\ LockTypeOK => MediaTypeOK
  BY DEF MediaTypeOK
<1> QED
  BY <1>1, SuiteParts, SuiteSimilarity, WorkspaceTypes, ArchiveWholeness, CloseTyped, SearchServing,
     VectorServing, CacheVerification, OneActiveLease, PTL

(* What the parts promise holds in the suite in which TLC runs them.       *)
THEOREM SuiteSafety ==
  MediaSpec => /\ [](ArchiveIsWhole /\ SimilarityIsExact /\ VectorsAreServed /\ CacheIsVerified
                       /\ LocksAreFenced /\ WorkspacesAgree)
               /\ CloseIsTruthful
BY SuiteParts, SuiteSimilarity, ArchiveWholeness, VectorServing, CacheVerification, LeaseFencing,
   WorkspaceAgreement, CloseTruth, PTL
================================================================================
