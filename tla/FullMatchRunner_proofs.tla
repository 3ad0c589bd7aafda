----------------------- MODULE FullMatchRunner_proofs -----------------------
(***************************************************************************)
(* Proofs about FullMatchRunner for any number of chunks and crashes.      *)
(***************************************************************************)
EXTENDS FullMatchRunner, FiniteSetTheorems, WellFoundedInduction, TLAPS

(* The completed chunks of a manifest come first and continue one another. *)
Prefix(manifest) ==
    \A k \in Completed(manifest) :
        /\ manifest.take[k].proxy = manifest.proxy
        /\ manifest.take[k].after = IF k = 1 THEN 0 ELSE manifest.take[k - 1].id
        /\ \A i \in 1..k : i \in Completed(manifest)

(* One whole rendering, from one of the first n proxies, if there is any. *)
Whole(artifact, n) ==
    artifact # NoArtifact => \E version \in 1..n : Continuous(artifact, Last, version)

AtChunks ==
    {"loop", "process", "checkpoint", "persist", "report", "final", "seal",
     "commit", "promote", "publish", "discard", "discarded"}
Loaded == {"tidy", "repair"} \union AtChunks

(* What a run knows of the manifest it loaded. *)
ManifestFits ==
    /\ Prefix(disk)
    /\ Prefix(copy)
    /\ disk.proxy <= made /\ copy.proxy <= made /\ proxy <= made
    /\ pc \in (Preparing \union Loaded) \ {"promote"} => copy = disk
    /\ pc = "promote" => disk \in {copy, Promoted(copy)}
    /\ pc \in Loaded => Exists(copy) /\ proxy = copy.proxy
    /\ pc \in {"localize", "encode"} => (Exists(copy) => proxy # copy.proxy)
    /\ pc = "create" => ~Exists(copy) /\ proxy > 0
    /\ pc = "rebuilt" => proxy > 0 /\ proxy # copy.proxy

(* What it knows of the chunks. *)
ChunksFit ==
    /\ pc \in AtChunks => \A k \in Completed(copy) : clip[k] = copy.take[k]
    /\ pc \in {"process", "checkpoint"} => Open(copy) # {}
    /\ pc \in {"loop", "process", "persist", "report"} => scores = LastState(copy)
    /\ pc = "checkpoint" =>
           clip[Current] = [id |-> scores, proxy |-> copy.proxy, after |-> LastState(copy)]
    /\ pc = "final" => Open(copy) = {}

(* What it knows of the artifact and of the decision. *)
EndFits ==
    /\ Whole(disk.prepared, made) /\ Whole(disk.final, made)
    /\ Whole(copy.prepared, made) /\ Whole(copy.final, made)
    /\ pc = "seal" => output # NoArtifact /\ Whole(output, made)
    /\ pc \in {"commit", "promote"} => copy.prepared # NoArtifact
    /\ disk.final # NoArtifact \/ copy.final # NoArtifact => row = "completed"
    /\ pc \in {"promote", "publish"} => row = "completed"
    /\ pc = "publish" => disk.final # NoArtifact
    /\ row = "completed" =>
           /\ pc \in {"idle", "promote", "publish", "handle", "late"}
           /\ disk.prepared # NoArtifact \/ disk.final # NoArtifact
           /\ ~source
    /\ pc \in {"repair"} \union AtChunks => ~source

IInv == TypeOK /\ ManifestFits /\ ChunksFit /\ EndFits

-----------------------------------------------------------------------------
(* Minima and maxima. *)

LEMMA MinOf ==
  ASSUME NEW S \in SUBSET Nat, S # {}
  PROVE  Min(S) \in S /\ \A x \in S : Min(S) <= x
  <1> DEFINE Less == OpToRel(<, Nat)
  <1>1. IsWellFoundedOn(Less, Nat)
    BY NatLessThanWellFounded
  <1>2. \A x, y \in Nat : x < y => <<x, y>> \in Less
    BY DEF OpToRel
  <1> HIDE DEF Less
  <1>3. \E x \in S : \A y \in S : <<y, x>> \notin Less
    BY <1>1, WFMin
  <1>4. \E x \in S : \A y \in S : x <= y
    <2>1. PICK x \in S : \A y \in S : <<y, x>> \notin Less
      BY <1>3
    <2>2. \A y \in S : ~(y < x)
      BY <1>2, <2>1
    <2>3. x \in Nat /\ \A y \in S : y \in Nat
      OBVIOUS
    <2>4. \A y \in S : x <= y
      BY <2>2, <2>3
    <2> QED
      BY <2>1, <2>4
  <1> QED
    BY <1>4 DEF Min

LEMMA MaxOfInterval ==
  ASSUME NEW n \in Nat \ {0}
  PROVE  Max(1..n) = n
  <1>1. n \in 1..n /\ \A y \in 1..n : n >= y
    OBVIOUS
  <1>2. Max(1..n) \in 1..n /\ \A y \in 1..n : Max(1..n) >= y
    BY <1>1 DEF Max
  <1> QED
    BY <1>1, <1>2

LEMMA MaxOfTwo ==
  ASSUME NEW a \in 0..100, NEW b \in 0..100
  PROVE  Max({a, b}) \in 0..100
  <1>1. \E x \in {a, b} : \A y \in {a, b} : x >= y
    OBVIOUS
  <1>2. Max({a, b}) \in {a, b}
    BY <1>1 DEF Max
  <1> QED
    BY <1>2

-----------------------------------------------------------------------------
(* Manifests. *)

LEMMA CompletedOf ==
  ASSUME NEW m \in Manifest
  PROVE  /\ Completed(m) \in SUBSET Nat
         /\ Completed(m) \subseteq Chunks
         /\ Open(m) \in SUBSET Nat
         /\ IsFiniteSet(Completed(m))
         /\ Cardinality(Completed(m)) \in 0..Last
  <1>1. IsFiniteSet(1..Last) /\ Cardinality(1..Last) = Last
    BY FS_Interval, RunnerAssumption
  <1>2. Completed(m) \subseteq 1..Last /\ Open(m) \subseteq 1..Last
    BY DEF Completed, Open, Chunks
  <1>3. IsFiniteSet(Completed(m)) /\ Cardinality(Completed(m)) <= Last
    BY <1>1, <1>2, FS_Subset
  <1>4. Cardinality(Completed(m)) \in Nat
    BY <1>3, FS_CardinalityType
  <1> QED
    BY <1>2, <1>3, <1>4, RunnerAssumption DEF Chunks

LEMMA PercentType ==
  ASSUME NEW m \in Manifest
  PROVE  Percent(m) \in 0..100
  <1> DEFINE x == (Cardinality(Completed(m)) * 95) \div Last
  <1>1. Cardinality(Completed(m)) \in Nat
    BY CompletedOf
  <1>2. x \in Nat
    BY <1>1, RunnerAssumption
  <1>3. Min({99, x}) \in {99, x} /\ Min({99, x}) <= 99
    <2>1. {99, x} \in SUBSET Nat /\ {99, x} # {}
      BY <1>2
    <2> QED
      BY <2>1, MinOf
  <1>4. Min({99, x}) \in 0..99
    BY <1>2, <1>3
  <1> QED
    BY <1>4 DEF Percent

LEMMA NewManifestType ==
  ASSUME NEW version \in Nat
  PROVE  /\ NewManifest(version) \in Manifest
         /\ Completed(NewManifest(version)) = {}
         /\ Prefix(NewManifest(version))
  BY DEF NewManifest, Manifest, Take, NoTake, Artifact, Completed, Prefix

(* The first chunk that is open: exactly those before it are completed. *)
LEMMA FirstOpen ==
  ASSUME NEW m \in Manifest, Prefix(m), Open(m) # {}
  PROVE  /\ Min(Open(m)) \in Chunks
         /\ Min(Open(m)) \notin Completed(m)
         /\ Completed(m) = 1..(Min(Open(m)) - 1)
  <1> DEFINE c == Min(Open(m))
  <1>1. c \in Open(m) /\ \A x \in Open(m) : c <= x
    BY CompletedOf, MinOf
  <1>2. c \in Chunks /\ c \notin Completed(m)
    BY <1>1 DEF Open
  <1>3. ASSUME NEW k \in Completed(m) PROVE k \in 1..(c - 1)
    <2>1. k \in 1..Last
      BY CompletedOf DEF Chunks
    <2>2. k >= c => c \in Completed(m)
      BY <1>2, <2>1 DEF Prefix, Chunks
    <2> QED
      BY <1>2, <2>1, <2>2 DEF Chunks
  <1>4. ASSUME NEW k \in 1..(c - 1) PROVE k \in Completed(m)
    <2>1. k \in Chunks /\ k < c
      BY <1>2, RunnerAssumption DEF Chunks
    <2>2. k \notin Open(m)
      BY <1>1, <1>2, <2>1, RunnerAssumption DEF Chunks
    <2> QED
      BY <2>1, <2>2 DEF Open
  <1> QED
    BY <1>2, <1>3, <1>4

(* Where the scoreboard stands after n completed chunks. *)
LEMMA LastStateOf ==
  ASSUME NEW m \in Manifest, NEW n \in 0..Last, Completed(m) = 1..n
  PROVE  LastState(m) = IF n = 0 THEN 0 ELSE m.take[n].id
  <1>1. CASE n = 0
    BY <1>1 DEF LastState
  <1>2. CASE n # 0
    <2>1. Max(Completed(m)) = n
      BY <1>2, MaxOfInterval, RunnerAssumption
    <2>2. Completed(m) # {}
      BY <1>2, RunnerAssumption
    <2> QED
      BY <1>2, <2>1, <2>2 DEF LastState
  <1> QED
    BY <1>1, <1>2

(* Some number of completed chunks, the first ones. *)
LEMMA PrefixLength ==
  ASSUME NEW m \in Manifest, Prefix(m)
  PROVE  \E n \in 0..Last : Completed(m) = 1..n
  <1>1. CASE Open(m) = {}
    <2>1. Completed(m) = 1..Last
      BY <1>1, CompletedOf DEF Open, Chunks
    <2> QED
      BY <2>1, RunnerAssumption
  <1>2. CASE Open(m) # {}
    <2>1. Min(Open(m)) - 1 \in 0..Last
      BY <1>2, FirstOpen, RunnerAssumption DEF Chunks
    <2> QED
      BY <1>2, <2>1, FirstOpen
  <1> QED
    BY <1>1, <1>2

LEMMA WholeStays ==
  ASSUME NEW artifact, NEW m \in Nat, NEW n \in Nat, m <= n, Whole(artifact, m)
  PROVE  Whole(artifact, n)
  <1>1. 1..m \subseteq 1..n
    OBVIOUS
  <1> QED
    BY <1>1 DEF Whole

-----------------------------------------------------------------------------
(* What the steps of a run make of a manifest. *)

LEMMA SameChunks ==
  ASSUME NEW m \in Manifest, NEW r \in Manifest,
         r.status = m.status, r.take = m.take, r.proxy = m.proxy
  PROVE  /\ Completed(r) = Completed(m)
         /\ Open(r) = Open(m)
         /\ LastState(r) = LastState(m)
         /\ Prefix(m) => Prefix(r)
  <1>1. Completed(r) = Completed(m)
    BY DEF Completed
  <1> QED
    BY <1>1 DEF Open, LastState, Prefix

LEMMA StartingChunk ==
  ASSUME NEW m \in Manifest, NEW k \in Chunks, k \notin Completed(m)
  PROVE  LET r == [m EXCEPT !.status[k] = "running"] IN
         /\ r \in Manifest
         /\ r.take = m.take /\ r.proxy = m.proxy
         /\ r.prepared = m.prepared /\ r.final = m.final
         /\ Completed(r) = Completed(m)
         /\ Open(r) = Open(m)
         /\ LastState(r) = LastState(m)
         /\ Prefix(m) => Prefix(r)
  <1> DEFINE r == [m EXCEPT !.status[k] = "running"]
  <1>1. /\ r \in Manifest
        /\ r.take = m.take /\ r.proxy = m.proxy
        /\ r.prepared = m.prepared /\ r.final = m.final
        /\ \A i \in Chunks : r.status[i] = IF i = k THEN "running" ELSE m.status[i]
    BY DEF Manifest
  <1>2. Completed(r) = Completed(m)
    BY <1>1 DEF Completed
  <1> HIDE DEF r
  <1>3. Open(r) = Open(m) /\ LastState(r) = LastState(m) /\ (Prefix(m) => Prefix(r))
    BY <1>1, <1>2 DEF Open, LastState, Prefix
  <1> QED
    BY <1>1, <1>2, <1>3 DEF r

LEMMA CompletingChunk ==
  ASSUME NEW m \in Manifest, Prefix(m), Open(m) # {}, NEW t \in Take,
         t.proxy = m.proxy, t.after = LastState(m),
         NEW r \in Manifest, r.proxy = m.proxy,
         \A k \in Chunks :
             /\ r.status[k] = IF k = Min(Open(m)) THEN "completed" ELSE m.status[k]
             /\ r.take[k] = IF k = Min(Open(m)) THEN t ELSE m.take[k]
  PROVE  /\ Completed(r) = Completed(m) \union {Min(Open(m))}
         /\ LastState(r) = t.id
         /\ Prefix(r)
  <1> DEFINE c == Min(Open(m))
  <1>1. c \in Chunks /\ c \notin Completed(m) /\ Completed(m) = 1..(c - 1)
    BY FirstOpen
  <1>2. c \in 1..Last /\ Last \in Nat
    BY <1>1, RunnerAssumption DEF Chunks
  <1> HIDE DEF c
  <1>3. /\ \A k \in Chunks : r.status[k] = IF k = c THEN "completed" ELSE m.status[k]
        /\ \A k \in Chunks : r.take[k] = IF k = c THEN t ELSE m.take[k]
    BY DEF c
  <1>4. Completed(r) = Completed(m) \union {c}
    BY <1>1, <1>3 DEF Completed
  <1>5. Completed(r) = 1..c
    BY <1>1, <1>2, <1>4
  <1>6. LastState(r) = t.id
    BY <1>1, <1>2, <1>3, <1>5, LastStateOf
  <1>7. t.after = IF c = 1 THEN 0 ELSE m.take[c - 1].id
    BY <1>1, <1>2, LastStateOf
  <1>8. Prefix(r)
    <2> SUFFICES ASSUME NEW k \in 1..c
                 PROVE  /\ r.take[k].proxy = r.proxy
                        /\ r.take[k].after = IF k = 1 THEN 0 ELSE r.take[k - 1].id
                        /\ \A i \in 1..k : i \in 1..c
      BY <1>5 DEF Prefix
    <2>1. k \in Chunks /\ (k # 1 => k - 1 \in Chunks /\ k - 1 # c)
      BY <1>2 DEF Chunks
    <2>2. CASE k = c
      BY <1>1, <1>3, <1>7, <2>1, <2>2
    <2>3. CASE k # c
      <3>1. k \in Completed(m)
        BY <1>1, <1>2, <2>3
      <3>2. /\ m.take[k].proxy = m.proxy
            /\ m.take[k].after = IF k = 1 THEN 0 ELSE m.take[k - 1].id
        BY <3>1 DEF Prefix
      <3>3. \A i \in 1..k : i \in 1..c
        BY <1>2
      <3> QED
        BY <1>3, <2>1, <2>3, <3>2, <3>3
    <2> QED
      BY <2>2, <2>3
  <1> QED
    BY <1>4, <1>6, <1>8 DEF c

LEMMA LostIsCompleted ==
  ASSUME NEW m \in Manifest, Lost(m) # {}
  PROVE  /\ Min(Lost(m)) \in Lost(m)
         /\ Min(Lost(m)) \in Chunks
         /\ \A k \in Lost(m) : Min(Lost(m)) <= k
  <1>1. Lost(m) \subseteq Completed(m)
    BY DEF Lost
  <1>2. Lost(m) \in SUBSET Nat /\ Lost(m) \subseteq Chunks
    BY <1>1, CompletedOf
  <1> QED
    BY <1>2, MinOf

(* A repaired manifest keeps the completed chunks before the first lost one. *)
LEMMA RepairingChunks ==
  ASSUME NEW m \in Manifest, Prefix(m)
  PROVE  LET r == Repaired(m) IN
         /\ r \in Manifest
         /\ r.proxy = m.proxy /\ r.prepared = m.prepared /\ r.final = m.final
         /\ Completed(r) =
                {k \in Completed(m) : \A i \in Lost(m) : k < i}
         /\ \A k \in Completed(r) : r.take[k] = m.take[k] /\ clip[k] = r.take[k]
         /\ Prefix(r)
  <1> DEFINE r == Repaired(m)
  <1>1. CASE Lost(m) = {}
    <2>1. r = m
      BY <1>1 DEF Repaired
    <2> QED
      BY <1>1, <2>1 DEF Lost
  <1>2. CASE Lost(m) # {}
    <2> DEFINE s == Min(Lost(m))
    <2>1. s \in Lost(m) /\ s \in Chunks /\ \A k \in Lost(m) : s <= k
      BY <1>2, LostIsCompleted
    <2>2. r = InvalidateFrom(m, s)
      BY <1>2 DEF Repaired
    <2> HIDE DEF s, r
    <2>3. \A k \in Chunks : k \in Int
      BY RunnerAssumption DEF Chunks
    <2>4. /\ r \in Manifest
          /\ r.proxy = m.proxy /\ r.prepared = m.prepared /\ r.final = m.final
          /\ \A k \in Chunks : r.status[k] = IF k < s THEN m.status[k] ELSE "pending"
          /\ \A k \in Chunks : r.take[k] = IF k < s THEN m.take[k] ELSE NoTake
      BY <2>2 DEF InvalidateFrom, Manifest, Take, NoTake
    <2>5. Completed(r) = {k \in Completed(m) : k < s}
      BY <2>4 DEF Completed
    <2>6. \A k \in Completed(m) : (k < s) <=> \A i \in Lost(m) : k < i
      <3>1. \A i \in Lost(m) : i \in Completed(m)
        BY DEF Lost
      <3> QED
        BY <2>1, <2>3, <3>1, CompletedOf
    <2>7. \A k \in Completed(r) : r.take[k] = m.take[k] /\ clip[k] = r.take[k]
      <3> TAKE k \in Completed(r)
      <3>1. k \in Completed(m) /\ k < s /\ k \in Chunks
        BY <2>5, CompletedOf
      <3>2. k \notin Lost(m)
        BY <2>1, <2>3, <3>1
      <3> QED
        BY <2>4, <3>1, <3>2 DEF Lost
    <2>8. Prefix(r)
      <3> SUFFICES ASSUME NEW k \in Completed(r)
                   PROVE  /\ r.take[k].proxy = r.proxy
                          /\ r.take[k].after = IF k = 1 THEN 0 ELSE r.take[k - 1].id
                          /\ \A i \in 1..k : i \in Completed(r)
        BY DEF Prefix
      <3>1. k \in Completed(m) /\ k < s /\ k \in 1..Last
        BY <2>5, CompletedOf DEF Chunks
      <3>2. \A i \in 1..k : i \in Completed(r)
        BY <2>1, <2>3, <2>5, <3>1, RunnerAssumption DEF Prefix
      <3>3. k # 1 => r.take[k - 1] = m.take[k - 1]
        BY <2>7, <3>1, <3>2, RunnerAssumption
      <3> QED
        BY <2>4, <2>7, <3>1, <3>2, <3>3 DEF Prefix
    <2> QED
      BY <2>4, <2>5, <2>6, <2>7, <2>8 DEF r
  <1> QED
    BY <1>1, <1>2

-----------------------------------------------------------------------------
(* Every step keeps what a run knows. *)

LEMMA EventsType ==
  ASSUME NEW m \in Manifest
  PROVE  EventsOf(m) \subseteq Nat
  BY CompletedOf DEF EventsOf, Manifest, Take

LEMMA LastStateType ==
  ASSUME NEW m \in Manifest, Prefix(m)
  PROVE  LastState(m) \in Nat
  <1>1. PICK n \in 0..Last : Completed(m) = 1..n
    BY PrefixLength
  <1>2. n # 0 => n \in Chunks
    BY RunnerAssumption DEF Chunks
  <1> QED
    BY <1>1, <1>2, LastStateOf DEF Manifest, Take

(* The files of a finished manifest are one whole rendering. *)
LEMMA FilesAreWhole ==
  ASSUME IInv, Open(copy) = {}, pc \in AtChunks
  PROVE  clip # NoArtifact /\ Whole(clip, made)
  <1>1. Completed(copy) = Chunks
    BY CompletedOf DEF IInv, TypeOK, Open
  <1>2. \A k \in 1..Last : clip[k] = copy.take[k]
    BY <1>1 DEF IInv, ChunksFit, Chunks
  <1>3. Continuous(clip, Last, copy.proxy)
    <2> SUFFICES ASSUME NEW k \in 1..Last
                 PROVE  /\ clip[k].proxy = copy.proxy
                        /\ clip[k].after = IF k = 1 THEN 0 ELSE clip[k - 1].id
      BY DEF Continuous
    <2>1. k # 1 => k - 1 \in 1..Last
      BY RunnerAssumption
    <2> QED
      BY <1>1, <1>2, <2>1 DEF IInv, ManifestFits, Prefix, Chunks
  <1>4. copy.proxy \in 1..made
    BY DEF IInv, TypeOK, ManifestFits, Manifest, Exists, Missing, Loaded
  <1>5. clip # NoArtifact
    BY RunnerAssumption DEF IInv, TypeOK, NoArtifact, Chunks
  <1> QED
    BY <1>3, <1>4, <1>5 DEF Whole

LEMMA RequestStep ==
  ASSUME IInv, Request
  PROVE  IInv'
  <1>1. TypeOK'
    BY DEF IInv, TypeOK, Request, Steps, JobStatus, Terminal
  <1>2. ManifestFits'
    BY DEF IInv, ManifestFits, Request, Loaded, AtChunks, Preparing, Exists
  <1>3. ChunksFit'
    BY DEF ChunksFit, Request, AtChunks
  <1>4. EndFits'
    BY DEF IInv, EndFits, Request, stored, Loaded, AtChunks, Preparing, Handling,
           Whole, Continuous
  <1> QED
    BY <1>1, <1>2, <1>3, <1>4 DEF IInv

LEMMA EnterStep ==
  ASSUME IInv, Enter
  PROVE  IInv'
  <1>1. TypeOK'
    BY DEF IInv, TypeOK, Enter, stored, Steps, JobStatus, Terminal
  <1>2. ManifestFits'
    BY DEF IInv, ManifestFits, Enter, stored, Loaded, AtChunks, Preparing, Exists
  <1>3. ChunksFit'
    BY DEF ChunksFit, Enter, AtChunks
  <1>4. EndFits'
    BY DEF IInv, EndFits, Enter, stored, Loaded, AtChunks, Preparing, Handling,
           Whole, Continuous
  <1> QED
    BY <1>1, <1>2, <1>3, <1>4 DEF IInv

LEMMA LoadStep ==
  ASSUME IInv, Load
  PROVE  IInv'
  <1>1. TypeOK'
    BY DEF IInv, TypeOK, Load, Steps, Preparing, Exists
  <1>2. ManifestFits'
    BY DEF IInv, ManifestFits, Load, Loaded, AtChunks, Handling
  <1>3. ChunksFit'
    BY DEF ChunksFit, Load, AtChunks
  <1>4. EndFits'
    BY DEF IInv, EndFits, Load, stored, Loaded, AtChunks, Preparing, Handling,
           Whole, Continuous
  <1> QED
    BY <1>1, <1>2, <1>3, <1>4 DEF IInv

LEMMA LocalizeStep ==
  ASSUME IInv, Localize
  PROVE  IInv'
  <1>1. TypeOK'
    BY DEF IInv, TypeOK, Localize, Steps, Preparing, JobStatus, Terminal
  <1>2. ManifestFits'
    BY DEF IInv, ManifestFits, Localize, Loaded, AtChunks, Preparing, Exists
  <1>3. ChunksFit'
    BY DEF ChunksFit, Localize, AtChunks
  <1>4. EndFits'
    BY DEF IInv, EndFits, Localize, stored, Loaded, AtChunks, Preparing, Handling,
           Whole, Continuous
  <1> QED
    BY <1>1, <1>2, <1>3, <1>4 DEF IInv

LEMMA EncodeStep ==
  ASSUME IInv, Encode
  PROVE  IInv'
  <1>1. TypeOK'
    BY DEF IInv, TypeOK, Encode, Steps, Preparing
  <1>2. ManifestFits'
    BY DEF IInv, TypeOK, ManifestFits, Encode, Loaded, AtChunks, Preparing, Missing,
           Manifest
  <1>3. ChunksFit'
    BY DEF ChunksFit, Encode, AtChunks
  <1>4. EndFits'
    BY DEF IInv, TypeOK, EndFits, Encode, stored, Loaded, AtChunks, Preparing,
           Handling, Whole, Continuous
  <1> QED
    BY <1>1, <1>2, <1>3, <1>4 DEF IInv

LEMMA CreateStep ==
  ASSUME IInv, Create
  PROVE  IInv'
  <1> DEFINE m == NewManifest(proxy)
  <1>a. /\ proxy \in Nat /\ proxy # Missing
        /\ m \in Manifest /\ Completed(m) = {} /\ Prefix(m)
    BY NewManifestType DEF IInv, TypeOK, ManifestFits, Create, Damaged, Missing
  <1>b. m.proxy = proxy /\ m.prepared = NoArtifact /\ m.final = NoArtifact
    BY DEF NewManifest
  <1> HIDE DEF m
  <1>c. disk' = m /\ copy' = m
    BY DEF Create, Save, m
  <1>1. TypeOK'
    BY <1>a, <1>c DEF IInv, TypeOK, Create, Steps, Preparing, JobStatus, Terminal
  <1>2. ManifestFits'
    BY <1>a, <1>b, <1>c DEF IInv, ManifestFits, Create, Exists
  <1>3. ChunksFit'
    BY <1>a, <1>c DEF ChunksFit, Create
  <1>4. EndFits'
    BY <1>b, <1>c
    DEF IInv, EndFits, Create, stored, Loaded, AtChunks, Preparing, Handling, Whole,
        Continuous
  <1> QED
    BY <1>1, <1>2, <1>3, <1>4 DEF IInv

LEMMA RebuiltStep ==
  ASSUME IInv, Rebuilt
  PROVE  IInv'
  <1> DEFINE m == NewManifest(proxy)
  <1>a. /\ proxy \in Nat /\ proxy # Missing
        /\ m \in Manifest /\ Completed(m) = {} /\ Prefix(m)
    BY NewManifestType DEF IInv, TypeOK, ManifestFits, Rebuilt, Damaged, Missing
  <1>b. m.proxy = proxy /\ m.prepared = NoArtifact /\ m.final = NoArtifact
    BY DEF NewManifest
  <1> HIDE DEF m
  <1>c. disk' = m /\ copy' = m
    BY DEF Rebuilt, Save, m
  <1>1. TypeOK'
    BY <1>a, <1>c DEF IInv, TypeOK, Rebuilt, Steps, Preparing, JobStatus, Terminal
  <1>2. ManifestFits'
    BY <1>a, <1>b, <1>c DEF IInv, ManifestFits, Rebuilt, Exists
  <1>3. ChunksFit'
    BY <1>a, <1>c DEF ChunksFit, Rebuilt
  <1>4. EndFits'
    BY <1>b, <1>c
    DEF IInv, EndFits, Rebuilt, stored, Loaded, AtChunks, Preparing, Handling,
        Whole, Continuous
  <1> QED
    BY <1>1, <1>2, <1>3, <1>4 DEF IInv

LEMMA TidyStep ==
  ASSUME IInv, Tidy
  PROVE  IInv'
  <1>1. TypeOK'
    BY DEF IInv, TypeOK, Tidy, Steps, JobStatus, Terminal
  <1>2. ManifestFits'
    BY DEF IInv, ManifestFits, Tidy, Loaded
  <1>3. ChunksFit'
    BY DEF ChunksFit, Tidy, AtChunks
  <1>4. EndFits'
    BY DEF IInv, EndFits, Tidy, stored, Loaded
  <1> QED
    BY <1>1, <1>2, <1>3, <1>4 DEF IInv

LEMMA RepairStep ==
  ASSUME IInv, Repair
  PROVE  IInv'
  <1> DEFINE r == Repaired(copy)
  <1>a. /\ r \in Manifest
        /\ Prefix(r)
        /\ \A k \in Completed(r) : clip[k] = r.take[k]
        /\ LastState(r) \in Nat
    BY RepairingChunks, LastStateType DEF IInv, TypeOK, ManifestFits
  <1>b. r.proxy = copy.proxy /\ r.prepared = copy.prepared /\ r.final = copy.final
    BY RepairingChunks DEF IInv, TypeOK, ManifestFits
  <1> HIDE DEF r
  <1>c. disk' = r /\ copy' = r /\ scores' = LastState(r)
    BY DEF Repair, Save, r
  <1>1. TypeOK'
    BY <1>a, <1>c DEF IInv, TypeOK, Repair, Steps, JobStatus, Terminal
  <1>2. ManifestFits'
    BY <1>a, <1>b, <1>c DEF IInv, ManifestFits, Repair, Loaded, Exists
  <1>3. ChunksFit'
    BY <1>a, <1>c DEF ChunksFit, Repair
  <1>4. EndFits'
    BY <1>b, <1>c DEF IInv, EndFits, Repair, stored, Loaded
  <1> QED
    BY <1>1, <1>2, <1>3, <1>4 DEF IInv

LEMMA NextChunkStep ==
  ASSUME IInv, NextChunk
  PROVE  IInv'
  <1> DEFINE m == [copy EXCEPT !.status[Current] = "running"]
  <1>a. Open(copy) # {} => Current \in Chunks /\ Current \notin Completed(copy)
    BY FirstOpen DEF IInv, TypeOK, ManifestFits, Current
  <1>b. Open(copy) # {} =>
            /\ m \in Manifest
            /\ m.take = copy.take /\ m.proxy = copy.proxy
            /\ m.prepared = copy.prepared /\ m.final = copy.final
            /\ Completed(m) = Completed(copy) /\ Open(m) = Open(copy)
            /\ LastState(m) = LastState(copy)
            /\ Prefix(m)
    BY <1>a, StartingChunk DEF IInv, TypeOK, ManifestFits
  <1> HIDE DEF m
  <1>c. \/ disk' = disk /\ copy' = copy /\ (pc' = "final" => Open(copy) = {})
           /\ pc' \in {"final", "stop"}
        \/ disk' = m /\ copy' = m /\ pc' = "process" /\ Open(copy) # {}
    BY DEF NextChunk, Save, m
  <1>1. TypeOK'
    BY <1>b, <1>c DEF IInv, TypeOK, NextChunk, Steps, Handling, JobStatus, Terminal
  <1>2. ManifestFits'
    BY <1>b, <1>c DEF IInv, ManifestFits, NextChunk, stored, Loaded, AtChunks, Exists
  <1>3. ChunksFit'
    BY <1>b, <1>c DEF IInv, ChunksFit, NextChunk, AtChunks
  <1>4. EndFits'
    BY <1>b, <1>c
    DEF IInv, EndFits, NextChunk, stored, Loaded, AtChunks, Preparing, Handling,
        Whole, Continuous
  <1> QED
    BY <1>1, <1>2, <1>3, <1>4 DEF IInv

LEMMA ProcessStep ==
  ASSUME IInv, Process
  PROVE  IInv'
  <1>a. Current \in Chunks /\ Current \notin Completed(copy)
    BY FirstOpen DEF IInv, TypeOK, ManifestFits, ChunksFit, Current, Process
  <1>b. Current' = Current
    BY DEF Process, Current, Open, Completed
  <1>c. \A artifact : Whole(artifact, made) => Whole(artifact, made')
    BY WholeStays DEF IInv, TypeOK, Process
  <1>d. clip' \in [Chunks -> Take] /\ made' \in Nat
    <2>1. proxy \in Nat
      BY DEF IInv, TypeOK, ManifestFits, Process, Manifest, Loaded, AtChunks
    <2>2. [id |-> made + 1, proxy |-> proxy, after |-> scores] \in Take
      BY <2>1 DEF IInv, TypeOK, Take
    <2> QED
      BY <1>a, <2>2 DEF IInv, TypeOK, Process
  <1>1. TypeOK'
    BY <1>d DEF IInv, TypeOK, Process, Steps, JobStatus, Terminal
  <1>2. ManifestFits'
    BY DEF IInv, TypeOK, ManifestFits, Process, Loaded, AtChunks
  <1>3. ChunksFit'
    BY <1>a, <1>b DEF IInv, TypeOK, ManifestFits, ChunksFit, Process, Loaded, AtChunks
  <1>4. EndFits'
    BY <1>c
    DEF IInv, EndFits, Process, stored, Loaded, AtChunks, Preparing, Handling,
        Whole, Continuous
  <1> QED
    BY <1>1, <1>2, <1>3, <1>4 DEF IInv

LEMMA CheckpointStep ==
  ASSUME IInv, Checkpoint
  PROVE  IInv'
  <1> DEFINE t == clip[Current]
             r == [copy EXCEPT !.status[Current] = "completed", !.take[Current] = t]
  <1>a. /\ Open(copy) # {} /\ Current \in Chunks
        /\ t \in Take
        /\ t = [id |-> scores, proxy |-> copy.proxy, after |-> LastState(copy)]
    BY FirstOpen DEF IInv, TypeOK, ManifestFits, ChunksFit, Current, Checkpoint
  <1> HIDE DEF t
  <1>b. t.id = scores /\ t.proxy = copy.proxy /\ t.after = LastState(copy)
    BY <1>a
  <1>c. /\ r \in Manifest
        /\ r.proxy = copy.proxy /\ r.prepared = copy.prepared /\ r.final = copy.final
        /\ \A k \in Chunks : r.status[k] = IF k = Current THEN "completed" ELSE copy.status[k]
        /\ \A k \in Chunks : r.take[k] = IF k = Current THEN t ELSE copy.take[k]
    BY <1>a DEF IInv, TypeOK, Manifest
  <1>d. disk' = r /\ copy' = r
    BY DEF Checkpoint, Save, t
  <1> HIDE DEF r
  <1>e. /\ Completed(r) = Completed(copy) \union {Current}
        /\ LastState(r) = scores
        /\ Prefix(r)
    BY <1>a, <1>c, CompletingChunk DEF IInv, TypeOK, ManifestFits, Current
  <1>1. TypeOK'
    BY <1>c, <1>d DEF IInv, TypeOK, Checkpoint, Steps, JobStatus, Terminal
  <1>2. ManifestFits'
    BY <1>c, <1>d, <1>e
    DEF IInv, ManifestFits, Checkpoint, stored, Loaded, AtChunks, Exists
  <1>3. ChunksFit'
    BY <1>a, <1>c, <1>d, <1>e DEF IInv, ChunksFit, Checkpoint, AtChunks, Completed
  <1>4. EndFits'
    BY <1>c, <1>d
    DEF IInv, EndFits, Checkpoint, stored, Loaded, AtChunks, Preparing, Handling,
        Whole, Continuous
  <1> QED
    BY <1>1, <1>2, <1>3, <1>4 DEF IInv

LEMMA PersistStep ==
  ASSUME IInv, Persist
  PROVE  IInv'
  <1>1. TypeOK'
    BY EventsType DEF IInv, TypeOK, Persist, Steps, JobStatus, Terminal
  <1>2. ManifestFits'
    BY DEF IInv, ManifestFits, Persist, stored, Loaded, AtChunks
  <1>3. ChunksFit'
    BY DEF IInv, ChunksFit, Persist, AtChunks
  <1>4. EndFits'
    BY DEF IInv, EndFits, Persist, stored, Loaded, AtChunks, Preparing, Handling,
           Whole, Continuous
  <1> QED
    BY <1>1, <1>2, <1>3, <1>4 DEF IInv

LEMMA ReportStep ==
  ASSUME IInv, Report
  PROVE  IInv'
  <1>1. TypeOK'
    BY PercentType, MaxOfTwo DEF IInv, TypeOK, Report, Steps, JobStatus, Terminal
  <1>2. ManifestFits'
    BY DEF IInv, ManifestFits, Report, stored, Loaded, AtChunks
  <1>3. ChunksFit'
    BY DEF IInv, ChunksFit, Report, AtChunks
  <1>4. EndFits'
    BY DEF IInv, EndFits, Report, stored, Loaded, AtChunks, Preparing, Handling,
           Whole, Continuous
  <1> QED
    BY <1>1, <1>2, <1>3, <1>4 DEF IInv

LEMMA FinalizeStep ==
  ASSUME IInv, Finalize
  PROVE  IInv'
  <1>a. clip # NoArtifact /\ Whole(clip, made)
    BY FilesAreWhole DEF IInv, ChunksFit, Finalize, AtChunks
  <1>1. TypeOK'
    BY DEF IInv, TypeOK, Finalize, stored, Steps, Artifact
  <1>2. ManifestFits'
    BY DEF IInv, ManifestFits, Finalize, stored, Loaded, AtChunks
  <1>3. ChunksFit'
    BY DEF IInv, ChunksFit, Finalize, AtChunks
  <1>4. EndFits'
    BY <1>a
    DEF IInv, EndFits, Finalize, stored, Loaded, AtChunks, Preparing, Handling,
        Whole, Continuous
  <1> QED
    BY <1>1, <1>2, <1>3, <1>4 DEF IInv

LEMMA SealStep ==
  ASSUME IInv, Seal
  PROVE  IInv'
  <1> DEFINE r == [copy EXCEPT !.prepared = output]
  <1>a. /\ r \in Manifest
        /\ r.status = copy.status /\ r.take = copy.take /\ r.proxy = copy.proxy
        /\ r.prepared = output /\ r.final = copy.final
    BY DEF IInv, TypeOK, Manifest
  <1> HIDE DEF r
  <1>b. disk' = r /\ copy' = r
    BY DEF Seal, Save, r
  <1>1. TypeOK'
    BY <1>a, <1>b DEF IInv, TypeOK, Seal, Steps, JobStatus, Terminal
  <1>2. ManifestFits'
    BY <1>a, <1>b
    DEF IInv, ManifestFits, Seal, stored, Loaded, AtChunks, Prefix, Completed,
        Exists
  <1>3. ChunksFit'
    BY <1>a, <1>b DEF IInv, ChunksFit, Seal, AtChunks, Completed
  <1>4. EndFits'
    BY <1>a, <1>b
    DEF IInv, EndFits, Seal, stored, Loaded, AtChunks, Preparing, Handling, Whole,
        Continuous
  <1> QED
    BY <1>1, <1>2, <1>3, <1>4 DEF IInv

LEMMA CommitStep ==
  ASSUME IInv, Commit
  PROVE  IInv'
  <1>1. TypeOK'
    BY DEF IInv, TypeOK, Commit, Steps, JobStatus, Terminal, CompleteOrStop
  <1>2. ManifestFits'
    BY DEF IInv, ManifestFits, Commit, stored, Loaded, AtChunks
  <1>3. ChunksFit'
    BY DEF IInv, ChunksFit, Commit, AtChunks
  <1>4. EndFits'
    BY DEF IInv, EndFits, Commit, Loaded, AtChunks, Handling, ManifestFits
  <1> QED
    BY <1>1, <1>2, <1>3, <1>4 DEF IInv

LEMMA PromoteStep ==
  ASSUME IInv, Promote
  PROVE  IInv'
  <1> DEFINE r == Promoted(copy)
  <1>a. /\ r \in Manifest
        /\ r.status = copy.status /\ r.take = copy.take /\ r.proxy = copy.proxy
        /\ r.prepared = NoArtifact /\ r.final = copy.prepared
    BY DEF IInv, TypeOK, Manifest, Promoted, Artifact
  <1> HIDE DEF r
  <1>b. disk' = r /\ copy' = r
    BY DEF Promote, Save, r
  <1>1. TypeOK'
    BY <1>a, <1>b DEF IInv, TypeOK, Promote, Steps, JobStatus, Terminal
  <1>2. ManifestFits'
    BY <1>a, <1>b
    DEF IInv, ManifestFits, Promote, stored, Loaded, AtChunks, Prefix, Completed,
        Exists
  <1>3. ChunksFit'
    BY <1>a, <1>b DEF IInv, ChunksFit, Promote, AtChunks, Completed
  <1>4. EndFits'
    BY <1>a, <1>b DEF IInv, EndFits, Promote, stored, Loaded, Whole
  <1> QED
    BY <1>1, <1>2, <1>3, <1>4 DEF IInv

LEMMA PublishStep ==
  ASSUME IInv, Publish
  PROVE  IInv'
  <1>1. TypeOK'
    BY EventsType DEF IInv, TypeOK, Publish, Steps, JobStatus, Terminal
  <1>2. ManifestFits'
    BY DEF IInv, ManifestFits, Publish, stored, Loaded, AtChunks
  <1>3. ChunksFit'
    BY DEF ChunksFit, Publish, AtChunks
  <1>4. EndFits'
    BY DEF IInv, EndFits, Publish, stored, Loaded
  <1> QED
    BY <1>1, <1>2, <1>3, <1>4 DEF IInv

LEMMA DiscardStep ==
  ASSUME IInv, Discard
  PROVE  IInv'
  <1>1. TypeOK'
    BY DEF IInv, TypeOK, Discard, stored, Steps, Artifact
  <1>2. ManifestFits'
    BY DEF IInv, ManifestFits, Discard, stored, Loaded, AtChunks
  <1>3. ChunksFit'
    BY DEF IInv, ChunksFit, Discard, AtChunks
  <1>4. EndFits'
    BY DEF IInv, EndFits, Discard, stored, Loaded, AtChunks, Preparing, Handling,
           Whole, Continuous
  <1> QED
    BY <1>1, <1>2, <1>3, <1>4 DEF IInv

LEMMA DiscardedStep ==
  ASSUME IInv, Discarded
  PROVE  IInv'
  <1> DEFINE r == [copy EXCEPT !.prepared = NoArtifact]
  <1>a. /\ r \in Manifest
        /\ r.status = copy.status /\ r.take = copy.take /\ r.proxy = copy.proxy
        /\ r.prepared = NoArtifact /\ r.final = copy.final
    BY DEF IInv, TypeOK, Manifest, Artifact
  <1> HIDE DEF r
  <1>b. disk' = r /\ copy' = r
    BY DEF Discarded, Save, r
  <1>1. TypeOK'
    BY <1>a, <1>b DEF IInv, TypeOK, Discarded, Steps, JobStatus, Terminal
  <1>2. ManifestFits'
    BY <1>a, <1>b
    DEF IInv, ManifestFits, Discarded, stored, Loaded, AtChunks, Prefix, Completed
  <1>3. ChunksFit'
    BY DEF ChunksFit, Discarded, AtChunks
  <1>4. EndFits'
    BY <1>a, <1>b
    DEF IInv, EndFits, Discarded, stored, Loaded, AtChunks, Preparing, Handling,
        Whole, Continuous
  <1> QED
    BY <1>1, <1>2, <1>3, <1>4 DEF IInv

LEMMA ReplayStep ==
  ASSUME IInv, Replay
  PROVE  IInv'
  <1> DEFINE r == Promoted(disk)
  <1>a. /\ r \in Manifest
        /\ r.status = disk.status /\ r.take = disk.take /\ r.proxy = disk.proxy
        /\ r.prepared = NoArtifact /\ r.final = disk.prepared
    BY DEF IInv, TypeOK, Manifest, Promoted, Artifact
  <1> HIDE DEF r
  <1>b. disk' = r
    BY DEF Replay, r
  <1>1. TypeOK'
    BY <1>a, <1>b DEF IInv, TypeOK, Replay, stored
  <1>c. UNCHANGED <<pc, copy, row, proxy, clip, scores, made>>
    BY DEF Replay
  <1>d. pc \in {"idle", "promote", "handle", "late"}
    BY DEF IInv, EndFits, Replay
  <1>e. ASSUME pc = "promote" PROVE disk' = Promoted(copy)
    <2>1. Promoted(copy).final = copy.prepared /\ copy.prepared # NoArtifact
      BY <1>e DEF IInv, TypeOK, Manifest, EndFits, Promoted
    <2>2. disk = copy
      BY <1>e, <2>1 DEF IInv, ManifestFits, Replay
    <2> QED
      BY <1>b, <2>2 DEF r
  <1>f. Prefix(disk')
    BY <1>a, <1>b DEF IInv, ManifestFits, Prefix, Completed
  <1>2. ManifestFits'
    BY <1>a, <1>b, <1>c, <1>d, <1>e, <1>f
    DEF IInv, ManifestFits, Loaded, AtChunks, Preparing, Handling, Exists, Prefix, Completed,
        Promoted
  <1>3. ChunksFit'
    BY <1>c, <1>d DEF IInv, ChunksFit, AtChunks
  <1>4. EndFits'
    BY <1>a, <1>b DEF IInv, EndFits, Replay, stored, Loaded
  <1> QED
    BY <1>1, <1>2, <1>3, <1>4 DEF IInv

LEMMA RaiseStep ==
  ASSUME IInv, Raise
  PROVE  IInv'
  <1>1. TypeOK'
    BY DEF IInv, TypeOK, Raise, Outside, Steps, Handling, JobStatus, Terminal
  <1>2. ManifestFits'
    BY DEF IInv, ManifestFits, Raise, Outside, Loaded, AtChunks, Preparing, Exists
  <1>3. ChunksFit'
    BY DEF ChunksFit, Raise, Outside, Preparing, AtChunks
  <1>4. EndFits'
    BY DEF IInv, TypeOK, EndFits, Raise, Outside, Preparing, AtChunks, Whole, Continuous
  <1> QED
    BY <1>1, <1>2, <1>3, <1>4 DEF IInv

LEMMA HandleStep ==
  ASSUME IInv, Handle
  PROVE  IInv'
  <1>1. TypeOK'
    BY DEF IInv, TypeOK, Handle, stored, Steps, Handling, JobStatus, Terminal
  <1>2. ManifestFits'
    BY DEF IInv, ManifestFits, Handle, stored, Loaded, AtChunks, Preparing, Exists
  <1>3. ChunksFit'
    BY DEF ChunksFit, Handle, AtChunks
  <1>4. EndFits'
    BY DEF IInv, EndFits, Handle, stored, Loaded, AtChunks, Preparing, Handling,
           Whole, Continuous
  <1> QED
    BY <1>1, <1>2, <1>3, <1>4 DEF IInv

LEMMA HandleLateStep ==
  ASSUME IInv, HandleLate
  PROVE  IInv'
  <1>1. TypeOK'
    BY DEF IInv, TypeOK, HandleLate, stored, Steps, Handling, JobStatus, Terminal
  <1>2. ManifestFits'
    BY DEF IInv, ManifestFits, HandleLate, stored, Loaded, AtChunks, Preparing, Exists
  <1>3. ChunksFit'
    BY DEF ChunksFit, HandleLate, AtChunks
  <1>4. EndFits'
    BY DEF IInv, EndFits, HandleLate, stored, Loaded, AtChunks, Preparing, Handling,
           Whole, Continuous
  <1> QED
    BY <1>1, <1>2, <1>3, <1>4 DEF IInv

LEMMA WriteStep ==
  ASSUME IInv, Write
  PROVE  IInv'
  <1>1. TypeOK'
    BY DEF IInv, TypeOK, Write, Steps, Handling, JobStatus, Terminal, Transition,
           CanTransition, AllowedTransitions
  <1>2. ManifestFits'
    BY DEF IInv, ManifestFits, Write, Loaded, AtChunks, Preparing, Exists
  <1>3. ChunksFit'
    BY DEF ChunksFit, Write, AtChunks
  <1>4. EndFits'
    BY DEF IInv, EndFits, Write, stored, Loaded, AtChunks, Preparing, Handling,
           Transition
  <1> QED
    BY <1>1, <1>2, <1>3, <1>4 DEF IInv

LEMMA StopStep ==
  ASSUME IInv, Stop
  PROVE  IInv'
  <1>1. TypeOK'
    BY DEF IInv, TypeOK, Stop, stored, JobStatus, Terminal
  <1>2. ManifestFits'
    BY DEF IInv, ManifestFits, Stop
  <1>3. ChunksFit'
    BY DEF IInv, ChunksFit, Stop, Current
  <1>4. EndFits'
    BY DEF IInv, EndFits, Stop, stored, Loaded
  <1> QED
    BY <1>1, <1>2, <1>3, <1>4 DEF IInv

LEMMA CrashStep ==
  ASSUME IInv, Crash
  PROVE  IInv'
  <1>a. /\ copy' \in Manifest /\ Completed(copy') = {} /\ Prefix(copy')
        /\ copy'.prepared = NoArtifact /\ copy'.final = NoArtifact /\ copy'.proxy = 0
    BY NewManifestType DEF Crash, NoManifest, NewManifest, Missing
  <1>b. /\ clip' \in [Chunks -> Take]
        /\ proxy' \in {proxy, Missing, Damaged}
        /\ output' \in Artifact
    BY DEF IInv, TypeOK, Crash, Take, NoTake, Artifact
  <1>1. TypeOK'
    BY <1>a, <1>b, RunnerAssumption DEF IInv, TypeOK, Crash, Steps, Missing
  <1>2. ManifestFits'
    BY <1>a
    DEF IInv, TypeOK, ManifestFits, Crash, Loaded, AtChunks, Preparing, Missing,
        Damaged
  <1>3. ChunksFit'
    BY DEF ChunksFit, Crash, AtChunks
  <1>4. EndFits'
    BY <1>a
    DEF IInv, EndFits, Crash, stored, Loaded, AtChunks, Preparing, Handling, Whole,
        Continuous
  <1> QED
    BY <1>1, <1>2, <1>3, <1>4 DEF IInv

LEMMA InitKnows == Init => IInv
  <1> SUFFICES ASSUME Init PROVE IInv
    OBVIOUS
  <1>1. /\ NoManifest \in Manifest /\ Completed(NoManifest) = {} /\ Prefix(NoManifest)
        /\ NoManifest.proxy = 0
        /\ NoManifest.prepared = NoArtifact /\ NoManifest.final = NoArtifact
    BY NewManifestType DEF NoManifest, NewManifest, Missing
  <1>2. TypeOK
    <2>1. NoTake \in Take
      BY DEF NoTake, Take
    <2>2. 0 \in 0..MaxCrashes /\ 0 \in 0..100
      BY RunnerAssumption
    <2> QED
      BY <1>1, <2>1, <2>2 DEF Init, TypeOK, JobStatus, Steps, Missing, Artifact
  <1>3. ManifestFits
    BY <1>1 DEF Init, ManifestFits, Preparing, Loaded, AtChunks, Missing
  <1>4. ChunksFit
    BY DEF Init, ChunksFit, AtChunks
  <1>5. EndFits
    BY <1>1 DEF Init, EndFits, Whole, AtChunks
  <1> QED
    BY <1>2, <1>3, <1>4, <1>5 DEF IInv

LEMMA StutterKnows ==
  ASSUME IInv, UNCHANGED vars
  PROVE  IInv'
  BY DEF IInv, TypeOK, ManifestFits, ChunksFit, EndFits, vars, stored, Whole, Prefix,
         Continuous, Completed, Open, Current, LastState, Exists

LEMMA NextKnows ==
  ASSUME IInv, [Next]_vars
  PROVE  IInv'
  <1>1. CASE Runner
    BY <1>1, EnterStep, LoadStep, LocalizeStep, EncodeStep, CreateStep, RebuiltStep,
       TidyStep, RepairStep, NextChunkStep, ProcessStep, CheckpointStep, PersistStep,
       ReportStep, FinalizeStep, SealStep, CommitStep, PromoteStep, PublishStep,
       DiscardStep, DiscardedStep, RaiseStep, HandleStep,
       HandleLateStep, WriteStep
    DEF Runner
  <1>2. CASE Request \/ Replay \/ Stop \/ Crash
    BY <1>2, RequestStep, ReplayStep, StopStep, CrashStep
  <1>3. CASE UNCHANGED vars
    BY <1>3, StutterKnows
  <1> QED
    BY <1>1, <1>2, <1>3 DEF Next

(* What a run knows of the manifest, the chunks and the artifact holds at every
   step of runner.py, whatever raises and wherever the process dies. *)
THEOREM RunnerInductive == Spec => []IInv
  BY InitKnows, NextKnows, PTL DEF Spec

(* Every variable of the run keeps its type: no manifest that
   fullmatch/manifest.py writes is malformed, and progress stays a percentage. *)
THEOREM RunnerTypeCorrect == Spec => []TypeOK
  <1>1. IInv => TypeOK
    BY DEF IInv
  <1> QED
    BY <1>1, RunnerInductive, PTL

(* The completed chunks of the manifest on disk are the first ones, on its
   proxy, each going on from the scoreboard of the one before, whatever was lost
   and redone (runner.py, _invalidate_chunks_from). *)
THEOREM RunnerChunksContinue == Spec => []ChunksContinue
  <1>1. IInv => ChunksContinue
    <2> SUFFICES ASSUME IInv PROVE ChunksContinue
      OBVIOUS
    <2>1. disk \in Manifest /\ Prefix(disk)
      BY DEF IInv, TypeOK, ManifestFits
    <2>2. PICK n \in 0..Last : Completed(disk) = 1..n
      BY <2>1, PrefixLength
    <2>3. Cardinality(1..n) = n
      BY <2>2, FS_Interval, RunnerAssumption
    <2>4. Continuous(disk.take, n, disk.proxy)
      BY <2>1, <2>2 DEF Prefix, Continuous
    <2> QED
      BY <2>2, <2>3, <2>4 DEF ChunksContinue
  <1> QED
    BY <1>1, RunnerInductive, PTL

(* The video of a completed job is one whole, continuous rendering of one proxy
   (runner.py, _finalize and _validate_completed_artifacts). *)
THEOREM RunnerVideoIsWhole == Spec => []VideoIsWhole
  <1>1. IInv => VideoIsWhole
    BY DEF IInv, EndFits, VideoIsWhole, Whole
  <1> QED
    BY <1>1, RunnerInductive, PTL

(* A manifest names a final artifact only when the jobs table says completed,
   although the two are written one after the other. *)
THEOREM RunnerFinalIsCompleted == Spec => []FinalIsCompleted
  <1>1. IInv => FinalIsCompleted
    BY DEF IInv, EndFits, FinalIsCompleted
  <1> QED
    BY <1>1, RunnerInductive, PTL

(* A completed job leaves no copy of its source (runner.py, _prepare_media). *)
THEOREM RunnerSourceRemoved == Spec => []SourceRemoved
  <1>1. IInv => SourceRemoved
    BY DEF IInv, EndFits, SourceRemoved
  <1> QED
    BY <1>1, RunnerInductive, PTL

-----------------------------------------------------------------------------
(* What is intact stays. *)

Kept == \A k \in Chunks : Intact(k) => /\ disk'.take[k] = disk.take[k]
                                       /\ disk'.status[k] = "completed"

LEMMA SameKept ==
  ASSUME IInv, disk'.take = disk.take, disk'.status = disk.status
  PROVE  Kept
  BY RunnerAssumption DEF Kept, Intact, Chunks

LEMMA NewProxyKept ==
  ASSUME IInv, Create \/ Rebuilt
  PROVE  Kept
  <1>1. proxy # disk.proxy
    BY DEF IInv, TypeOK, ManifestFits, Create, Rebuilt, Preparing, Exists, Missing
  <1> QED
    BY <1>1 DEF Kept, Intact

LEMMA RepairKept ==
  ASSUME IInv, Repair
  PROVE  Kept
  <1> DEFINE r == Repaired(copy)
  <1>1. copy = disk /\ copy \in Manifest /\ Prefix(copy) /\ disk' = r
    BY DEF IInv, TypeOK, ManifestFits, Loaded, Repair, Save
  <1>2. /\ Completed(r) = {k \in Completed(copy) : \A i \in Lost(copy) : k < i}
        /\ \A k \in Completed(r) : r.take[k] = copy.take[k]
    BY <1>1, RepairingChunks
  <1> HIDE DEF r
  <1>3. ASSUME NEW k \in Chunks, Intact(k) PROVE k \in Completed(r)
    <2>1. \A i \in 1..k : disk.status[i] = "completed" /\ clip[i] = disk.take[i]
      BY <1>3 DEF Intact
    <2>2. \A i \in Lost(copy) : i \in 1..Last /\ i \notin 1..k
      BY <1>1, <2>1 DEF Lost, Completed, Chunks
    <2>3. \A i \in Lost(copy) : k < i
      BY <2>2, RunnerAssumption DEF Chunks
    <2>4. k \in Completed(copy)
      BY <1>1, <2>1, RunnerAssumption DEF Completed, Chunks
    <2> QED
      BY <1>2, <2>3, <2>4
  <1> QED
    BY <1>1, <1>2, <1>3 DEF Kept, Completed

LEMMA NextChunkKept ==
  ASSUME IInv, NextChunk
  PROVE  Kept
  <1>1. copy = disk /\ copy \in Manifest
    BY DEF IInv, TypeOK, ManifestFits, Loaded, AtChunks, NextChunk
  <1>2. CASE disk' = disk
    BY <1>2, SameKept
  <1>3. CASE disk' # disk
    <2>1. Open(copy) # {} /\ disk' = [copy EXCEPT !.status[Current] = "running"]
      BY <1>3 DEF NextChunk, Save
    <2>2. Current \in Chunks /\ Current \notin Completed(copy)
      BY <2>1, FirstOpen DEF IInv, TypeOK, ManifestFits, Current
    <2>3. \A k \in Chunks : Intact(k) => k # Current
      BY <1>1, <2>2, RunnerAssumption DEF Intact, Completed, Chunks
    <2> QED
      BY <1>1, <2>1, <2>2, <2>3, RunnerAssumption DEF Kept, Intact, Manifest, Chunks
  <1> QED
    BY <1>2, <1>3

LEMMA CheckpointKept ==
  ASSUME IInv, Checkpoint
  PROVE  Kept
  <1>1. copy = disk /\ copy \in Manifest
    BY DEF IInv, TypeOK, ManifestFits, Loaded, AtChunks, Checkpoint
  <1>2. disk' = [copy EXCEPT !.status[Current] = "completed", !.take[Current] = clip[Current]]
    BY DEF Checkpoint, Save
  <1>3. Current \in Chunks /\ Current \notin Completed(copy)
    BY FirstOpen DEF IInv, TypeOK, ManifestFits, ChunksFit, Checkpoint, Current
  <1>4. \A k \in Chunks : Intact(k) => k # Current
    BY <1>1, <1>3, RunnerAssumption DEF Intact, Completed, Chunks
  <1> QED
    BY <1>1, <1>2, <1>3, <1>4, RunnerAssumption DEF Kept, Intact, Manifest, Chunks

LEMMA SealedKept ==
  ASSUME IInv, Seal \/ Promote \/ Discarded \/ Replay
  PROVE  Kept
  <1>1. copy \in Manifest /\ disk \in Manifest
    BY DEF IInv, TypeOK
  <1>2. Seal \/ Promote \/ Discarded => copy.take = disk.take /\ copy.status = disk.status
    BY <1>1
    DEF IInv, ManifestFits, Loaded, AtChunks, Seal, Promote, Discarded, Promoted, Manifest
  <1>3. Seal \/ Promote \/ Discarded
            => disk'.take = copy.take /\ disk'.status = copy.status
    BY <1>1 DEF Seal, Promote, Discarded, Save, Promoted, Manifest
  <1>4. Replay => disk'.take = disk.take /\ disk'.status = disk.status
    BY <1>1 DEF Replay, Promoted, Manifest
  <1> QED
    BY <1>2, <1>3, <1>4, SameKept

(* A chunk that is intact with all that it rests on is never redone
   (docs/ARCHITECTURE.md:55). *)
THEOREM RunnerNothingRedone == Spec => NothingRedone
  <1>1. ASSUME IInv, [Next]_vars PROVE Kept
    <2>1. CASE Create \/ Rebuilt
      BY <1>1, <2>1, NewProxyKept
    <2>2. CASE Repair
      BY <1>1, <2>2, RepairKept
    <2>3. CASE NextChunk
      BY <1>1, <2>3, NextChunkKept
    <2>4. CASE Checkpoint
      BY <1>1, <2>4, CheckpointKept
    <2>5. CASE Seal \/ Promote \/ Discarded \/ Replay
      BY <1>1, <2>5, SealedKept
    <2>6. CASE disk' = disk
      BY <1>1, <2>6, SameKept
    <2>7. \/ Create \/ Rebuilt \/ Repair \/ NextChunk \/ Checkpoint
          \/ Seal \/ Promote \/ Discarded \/ Replay
          \/ disk' = disk
      BY <1>1
      DEF Next, Runner, vars, stored, Request, Enter, Load, Localize, Encode, Tidy, Process,
          Persist, Report, Finalize, Commit, Publish, Discard, Raise, Handle, HandleLate,
          Write, Stop, Crash
    <2> QED
      BY <2>1, <2>2, <2>3, <2>4, <2>5, <2>6, <2>7
  <1>2. IInv /\ [Next]_vars
            => [\A k \in Chunks : Intact(k) => disk'.take[k] = disk.take[k]
                                               /\ disk'.status[k] = "completed"]_vars
    BY <1>1 DEF Kept
  <1> QED
    BY <1>2, RunnerInductive, PTL DEF Spec, NothingRedone
=============================================================================
