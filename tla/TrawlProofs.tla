------------------------------- MODULE TrawlProofs -------------------------------
(* strings and dictionaries: their types, their accounting, what a footer  *)
(* vouches for, and what the exit code says of it, for every length of the *)
(* capture, any number of edits and every place of the headers.            *)
EXTENDS Trawl, CaptureContentProofs

Walking == {"walk", "visit", "decode"}
Walked  == {"recheck", "reopen", "rehash", "footer", "complete"}
Started == Walking \cup Walked
Dated   == {"reopen", "rehash", "footer", "complete"}
Found   == Met(Klass[command])

(* The descriptors in use are of files that exist.                         *)
FdInv ==
  /\ pc \in Started => fd \in 1 .. clock
  /\ pc \in Started \cup {"open"} => file \in 1 .. clock
  /\ pc = "rehash" => rfd \in 1 .. clock

(* The hash covers the chunks up to `pos' and nothing else, and of each of *)
(* them but the first, and of the next one, the beginning was seen before. *)
HashInv ==
  /\ pc \in {"begin", "open"} => pos = 0
  /\ pc \in {"visit", "decode"} => pos > 0
  /\ pc \in Walked => pos = size
  /\ \A c \in Chunks : hash[c] <= clock /\ (c <= pos <=> hash[c] # Absent)
  /\ \A c \in 2 .. size : c <= pos + 1 => overlap[c] # Absent

(* The rehash covers the chunks up to `rpos'.                              *)
SumInv ==
  /\ pc \in {"begin", "open", "recheck", "reopen"} \cup Walking => rpos = 0
  /\ \A c \in Chunks : c > rpos => rsum[c] = Absent

(* Of the headers met those that are not ahead any more have been counted. *)
MetInv ==
  /\ pc \notin {"visit", "decode", "failed"} => ahead = {}
  /\ ahead \subseteq Found /\ \A p \in ahead : ChunkOf[p] = pos
  /\ count + Cardinality(ahead) = Cardinality(Found)

(* The candidate in hand is the one that is not counted yet.               *)
CountInv ==
  /\ pc \in {"begin", "open"} =>
       count = 0 /\ rejected = 0 /\ skipped = 0 /\ emitted = 0 /\ rows = {}
  /\ pc # "failed" =>
       count = rejected + skipped + emitted + (IF pc = "decode" THEN 1 ELSE 0)
  /\ pc \notin {"decode", "failed"} => cand = {} /\ step = 0

(* What was read of a chunk after it was hashed is not what was hashed.    *)
Spoiled(c) ==
  \E fact \in rows \cup cand : fact.chunk = c /\ fact.hashed /\ fact.ver # hash[c]

(* If the walk and the reads use one file, a chunk in which it differs from *)
(* the hash is one the path will never have again as it was hashed.        *)
SpoilInv ==
  /\ \A fact \in rows \cup cand : fact.hashed => fact.chunk \in 1 .. pos
  /\ pc \in Walking \cup {"recheck", "reopen"} /\ file = fd =>
       \A c \in 1 .. pos :
         Spoiled(c) \/ store[fd][c] # hash[c] => Current[c] # hash[c]

(* The rehash finds a chunk that was spoiled or was not as hashed when the *)
(* recheck took the length.                                                *)
Lost(c) == final[c] # hash[c] \/ (file = fd /\ Spoiled(c))
RehashInv ==
  /\ pc \in Dated => Size(final) = size
  /\ pc = "reopen" => \A c \in 1 .. size : Lost(c) => Current[c] # hash[c]
  /\ pc = "rehash" =>
       \A c \in 1 .. size :
         Lost(c) => /\ store[rfd][c] # hash[c]
                    /\ c <= rpos => rsum[c] # hash[c]
  /\ pc \in {"footer", "complete"} => \A c \in 1 .. size : ~ Lost(c)

(* A success without a footer is a pipe that broke.                        *)
ExitInv ==
  exit = "success" => pc = "complete" \/ (pc = "failed" /\ output = "stdout")

IInv ==
  /\ TypeOK
  /\ FileInv
  /\ FdInv
  /\ HashInv
  /\ SumInv
  /\ MetInv
  /\ CountInv
  /\ SpoilInv
  /\ RehashInv
  /\ ExitInv

(* -- the headers a walk meets ------------------------------------------- *)

LEMMA PlaceSets ==
  ASSUME NEW set \in SUBSET Places
  PROVE  /\ IsFiniteSet(set) /\ Cardinality(set) \in Nat
         /\ Cardinality(set) <= Cardinality(Places)
BY FS_Subset, FS_CardinalityType, PlacesAssumption

LEMMA ChunksOf ==
  ASSUME NEW p \in Places
  PROVE  /\ ChunkOf[p] \in Chunks /\ ChunkOf[p] \in Nat /\ ChunkOf[p] > 0
         /\ p \in Split => ChunkOf[p] + 1 \in Chunks
         /\ ChunkOf[p] \in Touched(p)
         /\ \A c \in Touched(p) : c \in Chunks /\ (c = ChunkOf[p] \/ c = ChunkOf[p] + 1)
         /\ p \in Split => ChunkOf[p] + 1 \in Touched(p)
BY PlacesAssumption DEF Chunks, Touched

(* Before the first window nothing has been met.                           *)
LEMMA NothingMet ==
  ASSUME NEW k, pos = 0
  PROVE  Met(k) = {}
BY ChunksOf DEF Met

(* A window adds the headers of its main part to those met before it.      *)
LEMMA MetGrows ==
  ASSUME NEW k \in Bound, WalkTypeOK, WalkWindow("walk", "visit")
  PROVE  /\ Met(k)' = Met(k) \cup InMain(k)'
         /\ Met(k) \cap InMain(k)' = {}
<1>. DEFINE Old(p) == Fits(p) /\ ChunkOf[p] <= pos /\ View(p) \in IsHeader[k][p]
            New(p) == Fits(p) /\ ChunkOf[p] = pos + 1 /\ View(p)' \in IsHeader[k][p]
<1>1. /\ pos \in Nat /\ size' = size /\ pos' = pos + 1
      /\ hash \in Contents /\ overlap \in Contents
      /\ hash' = [hash EXCEPT ![pos + 1] = store[fd][pos + 1]]
      /\ overlap' = Overlapped
  BY DEF WalkTypeOK, WalkWindow
<1>2. ASSUME NEW p \in Places, ChunkOf[p] <= pos
      PROVE  View(p)' = View(p)
  <2>1. hash'[ChunkOf[p]] = hash[ChunkOf[p]]
    BY <1>1, <1>2, ChunksOf DEF Contents
  <2>2. p \in Split => overlap'[ChunkOf[p] + 1] = overlap[ChunkOf[p] + 1]
    BY <1>1, <1>2, ChunksOf DEF Overlapped, Contents
  <2>. QED  BY <2>1, <2>2 DEF View
<1>3. \A p \in Places : Fits(p)' = Fits(p)
  BY <1>1 DEF Fits, Touched
<1>4. Met(k) = {p \in Places : Old(p)}
  BY DEF Met
<1>5. Met(k)' = {p \in Places : Old(p) \/ New(p)}
  <2>1. Met(k)' = {p \in Places : Fits(p)' /\ ChunkOf[p] <= pos' /\ View(p)' \in IsHeader[k][p]}
    BY DEF Met
  <2>2. \A p \in Places : ChunkOf[p] <= pos + 1 <=> (ChunkOf[p] <= pos \/ ChunkOf[p] = pos + 1)
    BY <1>1, ChunksOf
  <2>. QED  BY <1>1, <1>2, <1>3, <2>1, <2>2
<1>6. InMain(k)' = {p \in Places : New(p)}
  <2>1. InMain(k)' = {p \in Met(k)' : ChunkOf[p] = pos'}
    BY DEF InMain
  <2>2. \A p \in Places : ChunkOf[p] = pos + 1 => ~ (ChunkOf[p] <= pos)
    BY <1>1, ChunksOf
  <2>. QED  BY <1>1, <1>5, <2>1, <2>2
<1>7. Met(k) \cap InMain(k)' = {}
  BY <1>1, <1>4, <1>6, ChunksOf
<1>. QED  BY <1>4, <1>5, <1>6, <1>7

(* The walk is over and the overlaps were hashed as seen: what it met are  *)
(* the headers of the digest.                                              *)
LEMMA MetAll ==
  ASSUME NEW k \in Bound, TypeOK, HashInv, pos = size, OverlapsHashed
  PROVE  Met(k) = Headers(k, hash)
<1>1. ASSUME NEW p \in Places, Fits(p)
      PROVE  ChunkOf[p] <= pos /\ View(p) = Bytes(hash, p)
  <2>1. ChunkOf[p] \in 1 .. size
    BY <1>1, ChunksOf DEF Fits
  <2>2. ASSUME p \in Split
        PROVE  overlap[ChunkOf[p] + 1] = hash[ChunkOf[p] + 1]
    <3>1. ChunkOf[p] + 1 \in 2 .. size /\ ChunkOf[p] + 1 \in Chunks
      BY <1>1, <2>1, <2>2, ChunksOf DEF Fits
    <3>. QED  BY <3>1 DEF HashInv, OverlapsHashed, TypeOK, WalkTypeOK
  <2>. QED  BY <2>1, <2>2 DEF View, Bytes, TypeOK, WalkTypeOK
<1>. QED  BY <1>1 DEF Met, Headers

(* While the walk stands still so does what was met.                       *)
LEMMA SameFound ==
  ASSUME UNCHANGED <<walkVars, callVars>>
  PROVE  Found' = Found
BY DEF Found, Met, Fits, View, Touched, walkVars, callVars

LEMMA KlassBound == command \in Commands => Klass[command] \in Bound
BY DEF Commands, Klass, Bound

LEMMA InitIInv == Init => IInv
<1>. SUFFICES ASSUME Init PROVE IInv
  OBVIOUS
<1>. USE CaptureFileAssumption DEF Init, WalkInit, KlassInit
<1>1. FileTypeOK /\ FileInv
  BY FirstFile DEF FileInit, FileInv, FileTypeOK, WellFormed, Files
<1>0. Cardinality(Places) \in Nat /\ Cardinality({}) = 0 /\ Found = {}
  BY PlaceSets, FS_EmptySet, NothingMet DEF Found
<1>2. TypeOK
  BY <1>0, <1>1 DEF FileInv, WellFormed, TypeOK, WalkTypeOK, KlassTypeOK, PCs, Facts, Contents, Chunks, Versions,
              Absent, NoFile, Reads, Commands
<1>3. FdInv /\ HashInv /\ SumInv
  BY <1>1 DEF FdInv, HashInv, SumInv, FileInv, WellFormed, FileTypeOK, Files, Chunks, Absent,
              Started, Walking, Walked
<1>5. MetInv
  BY <1>0 DEF MetInv
<1>4. CountInv /\ SpoilInv /\ RehashInv /\ ExitInv
  BY DEF CountInv, SpoilInv, RehashInv, ExitInv, Walking, Dated
<1>. QED  BY <1>1, <1>2, <1>3, <1>4, <1>5 DEF IInv

(* Steps that only move the command on: none of what the invariant relates *)
(* changes but the control point and the exit code.                        *)
LEMMA MoveIInv ==
  IInv /\ (NoMoreCandidates \/ WalkDone \/ Footer \/ Fail \/ BrokenPipe) => IInv'
<1>. SUFFICES ASSUME IInv, NoMoreCandidates \/ WalkDone \/ Footer \/ Fail \/ BrokenPipe
              PROVE  IInv'
  OBVIOUS
<1>1. /\ UNCHANGED <<fileVars, walkVars, recheckVars, klassVars, callVars, trawlVars>>
      /\ \/ pc = "visit" /\ pc' = "walk" /\ exit' = exit /\ ahead = {}
         \/ pc = "walk" /\ pos = size /\ pc' = "recheck" /\ exit' = exit
         \/ pc = "footer" /\ pc' = "complete" /\ exit' \in {"success", "failure"}
         \/ pc # "complete" /\ pc' = "failed" /\ exit' = "failure"
         \/ output = "stdout" /\ pc' = "failed" /\ exit' = "success"
  BY DEF NoMoreCandidates, WindowDone, WalkDone, WalkEnd, Footer, Fail, Abort, Ended, BrokenPipe
<1>5. Found' = Found
  BY <1>1, SameFound
<1>. USE DEF IInv, fileVars, walkVars, recheckVars, klassVars, callVars, trawlVars
<1>2. TypeOK' /\ ExitInv' /\ MetInv'
  BY <1>1, <1>5 DEF TypeOK, FileTypeOK, WalkTypeOK, KlassTypeOK, PCs, ExitInv, MetInv
<1>3. FileInv' /\ FdInv' /\ HashInv' /\ SumInv' /\ CountInv'
  BY <1>1 DEF FileInv, FdInv, HashInv, SumInv, CountInv, Started, Walking, Walked
<1>4. SpoilInv' /\ RehashInv'
  BY <1>1 DEF SpoilInv, RehashInv, Spoiled, Lost, Current, Walking, Started, Walked, Dated
<1>. QED  BY <1>2, <1>3, <1>4

LEMMA BeginIInv == IInv /\ Begin => IInv'
<1>. SUFFICES ASSUME IInv, Begin PROVE IInv'
  OBVIOUS
<1>. USE DEF Begin, IInv
<1>4. Found' = Found
  BY SameFound
<1>. USE DEF fileVars, walkVars, recheckVars, klassVars, callVars
<1>1. TypeOK' /\ ExitInv' /\ MetInv'
  BY <1>4 DEF TypeOK, FileTypeOK, WalkTypeOK, KlassTypeOK, PCs, ExitInv, MetInv
<1>2. FileInv' /\ FdInv' /\ HashInv' /\ SumInv' /\ CountInv'
  BY DEF FileInv, FdInv, HashInv, SumInv, CountInv, Started, Walking, Walked,
         TypeOK, FileTypeOK, Files, WellFormed
<1>3. SpoilInv' /\ RehashInv'
  BY DEF SpoilInv, RehashInv, Walking, Dated
<1>. QED  BY <1>1, <1>2, <1>3

LEMMA OpenIInv == IInv /\ Open => IInv'
<1>. SUFFICES ASSUME IInv, Open PROVE IInv'
  OBVIOUS
<1>. USE CaptureFileAssumption
     DEF Open, WalkOpen, IInv, fileVars, recheckVars, klassVars, callVars, trawlVars
<1>1. Size(Current) \in 0 .. MaxChunks
  BY SizeType DEF TypeOK, FileTypeOK, Current
<1>5. pos = 0 /\ pos' = 0 /\ Found = {} /\ Found' = {}
  <2>1. pos = 0 /\ pos' = 0
    BY DEF HashInv
  <2>. QED  BY <2>1, ChunksOf DEF Found, Met
<1>2. TypeOK' /\ ExitInv' /\ MetInv'
  BY <1>1, <1>5 DEF TypeOK, FileTypeOK, WalkTypeOK, KlassTypeOK, PCs, ExitInv, MetInv
<1>3. FileInv' /\ FdInv' /\ HashInv' /\ SumInv' /\ CountInv'
  BY <1>5 DEF FileInv, FdInv, HashInv, SumInv, CountInv, Started, Walking, Walked,
         TypeOK, FileTypeOK, Files, WellFormed
<1>4. SpoilInv' /\ RehashInv'
  BY <1>5 DEF SpoilInv, RehashInv, HashInv, CountInv, Walking, Walked, Dated
<1>. QED  BY <1>2, <1>3, <1>4

LEMMA WindowIInv == IInv /\ Window => IInv'
<1>. SUFFICES ASSUME IInv, Window PROVE IInv'
  OBVIOUS
<1>. USE CaptureFileAssumption DEF IInv
<1>0. /\ WalkWindow("walk", "visit") /\ WalkTypeOK
      /\ pc = "walk" /\ pc' = "visit"
      /\ ahead' = InMain(Klass[command])'
      /\ UNCHANGED <<count, callVars, exit, trawlVars, fileVars, recheckVars, fd, size>>
  BY DEF Window, KlassWindow, WalkWindow, TypeOK, fileVars, recheckVars
<1>. USE DEF recheckVars, fileVars, callVars, trawlVars
<1>1. /\ fd \in Files
      /\ pos \in Nat /\ pos + 1 \in Chunks /\ pos' = pos + 1 /\ pos < size
      /\ store[fd][pos + 1] \in Versions
      /\ store[fd][pos + 1] <= clock
      /\ store[fd][pos + 1] # Absent
      /\ hash' = [hash EXCEPT ![pos + 1] = store[fd][pos + 1]]
      /\ store[fd] \in Contents
  BY <1>0 DEF WalkWindow, TypeOK, FileTypeOK, WalkTypeOK, FileInv, WellFormed, FdInv, Files,
         Chunks, Contents, InWindow, Started, Walking
<1>2. /\ overlap' \in Contents
      /\ \A c \in 2 .. size : c <= pos + 2 => overlap'[c] # Absent
  <2>1. /\ overlap \in Contents /\ size \in 0 .. MaxChunks
        /\ \A c \in 2 .. size : c <= pos + 1 => overlap[c] # Absent
    BY DEF HashInv, TypeOK, WalkTypeOK
  <2>2. CASE pos + 2 <= size
    <3>1. /\ pos + 2 \in Chunks /\ store[fd][pos + 2] # Absent
          /\ overlap' = [overlap EXCEPT ![pos + 2] = store[fd][pos + 2]]
      BY <1>0, <1>1, <2>1, <2>2 DEF WalkWindow, InWindow, Overlapped, Chunks
    <3>2. overlap' \in Contents
      BY <1>1, <2>1, <3>1 DEF Contents
    <3>3. ASSUME NEW c \in 2 .. size, c <= pos + 2
          PROVE  overlap'[c] # Absent
      <4>1. c \in Chunks
        BY <2>1, <3>3 DEF Chunks
      <4>2. CASE c = pos + 2
        BY <2>1, <3>1, <4>1, <4>2 DEF Contents
      <4>3. CASE c # pos + 2
        BY <1>1, <2>1, <3>1, <3>3, <4>1, <4>3 DEF Contents
      <4>. QED  BY <4>2, <4>3
    <3>. QED  BY <3>2, <3>3
  <2>3. CASE ~ (pos + 2 <= size)
    <3>1. overlap' = overlap
      BY <1>0, <2>3 DEF WalkWindow, Overlapped
    <3>2. \A c \in 2 .. size : c <= pos + 2 => c <= pos + 1
      BY <1>1, <2>1, <2>3
    <3>. QED  BY <2>1, <3>1, <3>2
  <2>. QED  BY <2>2, <2>3
<1>3. HashInv'
  <2>1. \A c \in Chunks : hash'[c] <= clock /\ (c <= pos + 1 <=> hash'[c] # Absent)
    BY <1>1 DEF HashInv, TypeOK, WalkTypeOK, Contents, Chunks
  <2>. QED  BY <1>0, <1>1, <1>2, <2>1 DEF HashInv, Walked
<1>4. FileInv' /\ FdInv' /\ SumInv' /\ CountInv' /\ ExitInv'
  BY <1>0 DEF FileInv, FdInv, SumInv, CountInv, ExitInv, Started, Walking, Walked
<1>5. /\ Found' = Found \cup ahead' /\ Found \cap ahead' = {}
      /\ ahead' \subseteq Places /\ Found \subseteq Places
      /\ \A p \in ahead' : ChunkOf[p] = pos'
  <2>1. Klass[command] \in Bound /\ command' = command
    BY <1>0, KlassBound DEF TypeOK
  <2>2. /\ Found' = Found \cup ahead' /\ Found \cap ahead' = {}
    BY <1>0, <2>1, MetGrows DEF Found
  <2>3. Found' \subseteq Places /\ ahead' \subseteq Found'
    BY <2>2 DEF Found, Met
  <2>. QED  BY <1>0, <2>2, <2>3 DEF InMain
<1>6. TypeOK'
  <2>1. WalkTypeOK'
    <3>1. hash' \in Contents /\ pos' \in 0 .. size
      BY <1>1 DEF TypeOK, WalkTypeOK, Contents
    <3>. QED  BY <1>0, <1>2, <3>1 DEF TypeOK, WalkTypeOK
  <2>. QED  BY <1>0, <1>5, <2>1 DEF TypeOK, FileTypeOK, KlassTypeOK, PCs
<1>7. MetInv'
  <2>1. ahead = {} /\ count = Cardinality(Found)
    BY <1>0, FS_EmptySet, PlaceSets, <1>5 DEF MetInv, TypeOK, KlassTypeOK
  <2>2. /\ IsFiniteSet(Found) /\ Cardinality(Found) \in Nat
        /\ IsFiniteSet(ahead') /\ Cardinality(ahead') \in Nat
        /\ Cardinality(Found \cap ahead') = 0
    BY <1>5, PlaceSets, FS_EmptySet
  <2>3. Cardinality(Found \cup ahead') = Cardinality(Found) + Cardinality(ahead')
    <3>1. Cardinality(Found \cup ahead')
            = Cardinality(Found) + Cardinality(ahead') - Cardinality(Found \cap ahead')
      BY <2>2, FS_Union
    <3>. QED  BY <2>2, <3>1
  <2>. QED  BY <1>0, <1>5, <2>1, <2>2, <2>3 DEF MetInv
<1>8. SpoilInv'
  <2>1. /\ \A c \in 1 .. pos : hash'[c] = hash[c]
        /\ hash'[pos + 1] = store[fd][pos + 1]
    BY <1>1 DEF TypeOK, WalkTypeOK, Contents, Chunks
  <2>. QED  BY <1>0, <1>1, <2>1 DEF SpoilInv, Spoiled, Current, Walking
<1>9. RehashInv'
  BY <1>0 DEF RehashInv, Dated
<1>. QED  BY <1>3, <1>4, <1>6, <1>7, <1>8, <1>9

LEMMA CandidateIInv == IInv /\ Candidate => IInv'
<1>. SUFFICES ASSUME IInv, Candidate PROVE IInv'
  OBVIOUS
<1>. USE CaptureFileAssumption DEF IInv
<1>0. PICK p \in ahead :
        /\ Visit(p, "visit", "decode")
        /\ cand' = IF p \in Split THEN {Here, Ahead} ELSE {Here}
        /\ UNCHANGED <<file, step, rejected, skipped, emitted, rows, final, callVars, exit>>
  BY DEF Candidate
<1>1. /\ pc = "visit" /\ pc' = "decode"
      /\ ahead' = ahead \ {p} /\ count' = count + 1
      /\ UNCHANGED <<walkVars, recheckVars, fileVars>>
      /\ Found' = Found
  BY <1>0, SameFound DEF Visit
<1>. USE DEF fileVars, walkVars, recheckVars, callVars
<1>2. /\ ahead \subseteq Found /\ Found \subseteq Places /\ p \in Places /\ ChunkOf[p] = pos
      /\ count \in Nat
  BY DEF MetInv, TypeOK, KlassTypeOK, Found, Met
<1>3. /\ pos \in Chunks /\ pos \in Nat
      /\ p \in Split => pos + 1 \in Chunks
      /\ hash[pos] \in Versions
  BY <1>2, ChunksOf DEF TypeOK, WalkTypeOK, Contents
<1>4. cand' \subseteq Facts
  <2>1. Here \in Facts
    BY <1>3 DEF Here, Facts
  <2>2. p \in Split => Ahead \in Facts
    BY <1>3 DEF Ahead, Facts, TypeOK, WalkTypeOK, Contents
  <2>. QED  BY <1>0, <2>1, <2>2
<1>5. /\ count' \in 0 .. Cardinality(Places)
      /\ count' + Cardinality(ahead') = Cardinality(Found)
  <2>1. /\ IsFiniteSet(ahead) /\ Cardinality(ahead) \in Nat
        /\ Cardinality(Found) \in Nat /\ Cardinality(Found) <= Cardinality(Places)
        /\ Cardinality(ahead') \in Nat /\ Cardinality(Places) \in Nat
    BY <1>1, <1>2, PlaceSets
  <2>2. Cardinality(ahead') = Cardinality(ahead) - 1
    BY <1>0, <1>1, <2>1, FS_RemoveElement
  <2>. QED  BY <1>1, <1>2, <2>1, <2>2 DEF MetInv
<1>6. TypeOK' /\ ExitInv' /\ MetInv'
  <2>1. /\ rejected \in 0 .. count' /\ skipped \in 0 .. count' /\ emitted \in 0 .. count'
    BY <1>1, <1>2 DEF TypeOK
  <2>2. TypeOK'
    BY <1>0, <1>1, <1>2, <1>4, <1>5, <2>1
       DEF TypeOK, FileTypeOK, WalkTypeOK, KlassTypeOK, PCs
  <2>. QED  BY <1>0, <1>1, <1>5, <2>2 DEF MetInv, ExitInv
<1>7. FileInv' /\ FdInv' /\ HashInv' /\ SumInv'
  BY <1>0, <1>1 DEF FileInv, FdInv, HashInv, SumInv, Started, Walking, Walked
<1>8. CountInv'
  BY <1>0, <1>1, <1>2 DEF CountInv, TypeOK
<1>9. SpoilInv'
  <2>1. \A fact \in cand' : fact.hashed => fact.chunk = pos /\ fact.ver = hash[pos]
    BY <1>0 DEF Here, Ahead
  <2>2. \A fact \in rows \cup cand' : fact.hashed => fact.chunk \in 1 .. pos
    BY <1>3, <2>1 DEF SpoilInv, Chunks
  <2>3. \A c \in 1 .. pos : Spoiled(c)' => Spoiled(c)
    BY <1>0, <1>1, <2>1 DEF Spoiled
  <2>. QED  BY <1>0, <1>1, <2>2, <2>3 DEF SpoilInv, Walking, Current
<1>10. RehashInv'
  BY <1>1 DEF RehashInv, Dated
<1>. QED  BY <1>6, <1>7, <1>8, <1>9, <1>10

(* What a random read adds is what the file has now.                       *)
Fetched(fact) ==
  /\ fact.chunk \in 1 .. size
  /\ fact.ver = store[file][fact.chunk]
  /\ fact.hashed => fact.chunk <= pos

(* What is counted of a candidate is at most the candidates.               *)
LEMMA SumsBound ==
  ASSUME NEW n \in Nat, NEW a \in Nat, NEW b \in Nat, NEW d \in Nat,
         n = a + b + d + 1 \/ n = a + b + d
  PROVE  a \in 0 .. n /\ b \in 0 .. n /\ d \in 0 .. n
OBVIOUS

(* A step of the decoding, whichever it is: it reads through `file', and    *)
(* may settle the candidate.                                               *)
LEMMA DecodeIInv ==
  ASSUME IInv,
         pc = "decode",
         UNCHANGED <<file, klassVars, final, callVars, exit, walkVars, recheckVars, fileVars>>,
         rows' \cup cand' \subseteq Facts,
         \A fact \in rows' \cup cand' : fact \in rows \cup cand \/ Fetched(fact),
         step' \in 0 .. Reads[command],
         rejected' \in Nat, skipped' \in Nat, emitted' \in Nat,
         \/ /\ pc' = "decode"
            /\ count = rejected' + skipped' + emitted' + 1
         \/ /\ pc' = "visit" /\ cand' = {} /\ step' = 0
            /\ count = rejected' + skipped' + emitted'
  PROVE  IInv'
<1>0. rejected' \in 0 .. count' /\ skipped' \in 0 .. count' /\ emitted' \in 0 .. count'
  <2>1. count' = count
    BY DEF klassVars
  <2>2. count \in Nat
    BY DEF IInv, TypeOK, KlassTypeOK
  <2>3. count = rejected' + skipped' + emitted' + 1 \/ count = rejected' + skipped' + emitted'
    OBVIOUS
  <2>. QED  BY <2>1, <2>2, <2>3, SumsBound
<1>6. Found' = Found
  BY SameFound
<1>. USE CaptureFileAssumption
     DEF IInv, fileVars, walkVars, recheckVars, klassVars, callVars
<1>1. TypeOK' /\ ExitInv' /\ MetInv'
  BY <1>0, <1>6 DEF TypeOK, FileTypeOK, WalkTypeOK, KlassTypeOK, PCs, ExitInv, MetInv
<1>2. FileInv' /\ FdInv' /\ HashInv' /\ SumInv'
  BY DEF FileInv, FdInv, HashInv, SumInv, Started, Walking, Walked
<1>3. CountInv'
  BY DEF CountInv
<1>4. SpoilInv'
  <2>1. pos \in Nat /\ size \in Nat
    BY DEF TypeOK, WalkTypeOK
  <2>2. \A fact \in rows' \cup cand' : fact.hashed => fact.chunk \in 1 .. pos
    BY <2>1 DEF SpoilInv, Fetched
  <2>3. \A c \in 1 .. pos : file = fd /\ Spoiled(c)' => Spoiled(c) \/ store[fd][c] # hash[c]
    BY DEF Spoiled, Fetched
  <2>. QED  BY <2>2, <2>3 DEF SpoilInv, Walking, Current
<1>5. RehashInv'
  BY DEF RehashInv, Dated
<1>. QED  BY <1>1, <1>2, <1>3, <1>4, <1>5

LEMMA CandidateStepIInv == IInv /\ (Reject \/ ReadAt \/ Skip \/ Emit) => IInv'
<1>. SUFFICES ASSUME IInv, Reject \/ ReadAt \/ Skip \/ Emit PROVE IInv'
  OBVIOUS
<1>. USE CaptureFileAssumption
<1>1. /\ pc = "decode"
      /\ rejected \in Nat /\ skipped \in Nat /\ emitted \in Nat /\ count \in Nat
      /\ count = rejected + skipped + emitted + 1
      /\ rows \subseteq Facts /\ cand \subseteq Facts
      /\ Reads[command] \in Nat /\ step \in 0 .. Reads[command]
  BY DEF Reject, ReadAt, Skip, Emit, Dealt, IInv, CountInv, TypeOK, KlassTypeOK, Reads, Commands
<1>2. CASE Reject
  BY <1>1, <1>2, DecodeIInv DEF Reject, Dealt
<1>3. CASE Skip
  BY <1>1, <1>3, DecodeIInv DEF Skip, Dealt
<1>4. CASE Emit
  BY <1>1, <1>4, DecodeIInv DEF Emit, Dealt
<1>5. CASE ReadAt
  <2>1. PICK span \in SUBSET (1 .. size) :
          /\ \A d \in span : store[file][d] # Absent
          /\ cand' = cand \cup {[chunk |-> d, ver |-> store[file][d],
                                 hashed |-> d <= pos] : d \in span}
    BY <1>5 DEF ReadAt
  <2>2. /\ 1 .. size \subseteq Chunks
        /\ file \in Files
        /\ store[file] \in Contents
    BY <1>1 DEF IInv, TypeOK, FileTypeOK, WalkTypeOK, FdInv, Started, Walking, Chunks, Files
  <2> DEFINE Read(d) == [chunk |-> d, ver |-> store[file][d], hashed |-> d <= pos]
  <2>3. ASSUME NEW d \in span PROVE Read(d) \in Facts /\ Fetched(Read(d))
    <3>1. d \in Chunks /\ store[file][d] \in Versions /\ (d <= pos) \in BOOLEAN
      BY <2>1, <2>2 DEF Contents
    <3>2. Read(d) \in Facts
      BY <3>1 DEF Facts
    <3>3. Fetched(Read(d))
      BY <2>1 DEF Fetched
    <3>. QED  BY <3>2, <3>3
  <2>4. cand' = cand \cup {Read(d) : d \in span}
    BY <2>1
  <2>5. cand' \subseteq Facts /\ \A fact \in cand' : fact \in cand \/ Fetched(fact)
    <3>. HIDE DEF Read
    <3>. QED  BY <1>1, <2>3, <2>4
  <2>6. step' \in 0 .. Reads[command]
    BY <1>1, <1>5 DEF ReadAt
  <2>. QED  BY <1>1, <1>5, <2>5, <2>6, DecodeIInv DEF ReadAt
<1>. QED  BY <1>2, <1>3, <1>4, <1>5

LEMMA RecheckIInv == IInv /\ Recheck => IInv'
<1>. SUFFICES ASSUME IInv, Recheck PROVE IInv'
  OBVIOUS
<1>0. /\ UNCHANGED <<walkVars, fileVars, klassVars, callVars, exit>>
      /\ UNCHANGED <<file, step, cand, rejected, skipped, emitted, rows>>
      /\ pc \in {"recheck", "reopen", "rehash"}
      /\ pc' \in {"reopen", "rehash", "footer", "failed"}
  BY DEF Recheck, TakeLength, RecheckSize, RecheckOpen, RehashChunk, RecheckVerdict,
         trawlVars
<1>. USE CaptureFileAssumption DEF IInv
<1>5. MetInv' /\ KlassTypeOK' /\ ExitInv'
  <2>1. Found' = Found
    BY <1>0, SameFound
  <2>. QED  BY <1>0, <2>1 DEF MetInv, ExitInv, klassVars, callVars, KlassTypeOK, TypeOK
<1>6. CountInv'
  BY <1>0 DEF CountInv, klassVars
<1>. USE DEF walkVars, callVars, fileVars, klassVars
<1>1. CASE RecheckOpen /\ UNCHANGED trawlVars
  <2>. USE <1>1 DEF RecheckOpen, trawlVars
  <2>1. TypeOK'
    BY <1>0, <1>5 DEF TypeOK, FileTypeOK, WalkTypeOK, PCs
  <2>2. FileInv' /\ FdInv' /\ HashInv' /\ SumInv'
    BY <1>0 DEF FileInv, FdInv, HashInv, SumInv, Started, Walking, Walked,
           TypeOK, FileTypeOK, Files, WellFormed
  <2>3. SpoilInv'
    BY <1>0 DEF SpoilInv, Walking, Spoiled, Current
  <2>4. RehashInv'
    BY <1>0 DEF SumInv, RehashInv, Spoiled, Lost, Current, Dated, TypeOK, WalkTypeOK
  <2>. QED  BY <1>5, <1>6, <2>1, <2>2, <2>3, <2>4
<1>2. CASE TakeLength
  <2>. USE <1>2 DEF TakeLength, RecheckSize, recheckVars
  <2>1. TypeOK'
    BY <1>0, <1>5 DEF TypeOK, FileTypeOK, WalkTypeOK, PCs, Current
  <2>2. FileInv' /\ FdInv' /\ HashInv' /\ SumInv'
    BY <1>0 DEF FileInv, FdInv, HashInv, SumInv, Started, Walking, Walked
  <2>3. SpoilInv'
    BY <1>0 DEF SpoilInv, Walking, Spoiled, Current
  <2>4. RehashInv'
    BY <1>0 DEF RehashInv, SpoilInv, HashInv, Walking, Walked, Spoiled, Lost, Current, Dated,
                SizeMatches
  <2>. QED  BY <1>5, <1>6, <2>1, <2>2, <2>3, <2>4
<1>3. CASE RehashChunk /\ UNCHANGED trawlVars
  <2>. USE <1>3 DEF RehashChunk, trawlVars
  <2>1. /\ rfd \in Files
        /\ rpos + 1 \in Chunks
        /\ store[rfd] \in Contents
    <3>1. rfd \in Files /\ store[rfd] \in Contents
      BY DEF FdInv, TypeOK, FileTypeOK, Files
    <3>2. rpos \in 0 .. MaxChunks /\ rpos # MaxChunks
      BY DEF EndOfFile, TypeOK, WalkTypeOK
    <3>. QED  BY <3>1, <3>2 DEF Chunks
  <2>2. TypeOK'
    <3>1. rsum' \in Contents /\ rpos' \in 0 .. MaxChunks
      BY <2>1 DEF TypeOK, WalkTypeOK, Contents, Chunks
    <3>2. WalkTypeOK'
      BY <3>1 DEF TypeOK, WalkTypeOK
    <3>. QED  BY <1>0, <1>5, <3>2 DEF TypeOK, FileTypeOK, PCs
  <2>3. FileInv' /\ FdInv' /\ HashInv'
    BY <2>1 DEF FileInv, FdInv, HashInv, Started, Walking, Walked
  <2>4. SumInv'
    BY <2>1 DEF SumInv, TypeOK, WalkTypeOK, Contents, Chunks, Walking
  <2>5. SpoilInv'
    BY <1>0 DEF SpoilInv, Walking, Spoiled, Current
  <2>6. \A c \in 1 .. size : Lost(c) /\ c <= rpos + 1 => rsum'[c] # hash[c]
    BY <2>1 DEF RehashInv, TypeOK, WalkTypeOK, Contents, Chunks
  <2>7. RehashInv'
    BY <2>6 DEF RehashInv, Spoiled, Lost, Dated
  <2>. QED  BY <1>5, <1>6, <2>2, <2>3, <2>4, <2>5, <2>7
<1>4. CASE RecheckVerdict("footer") /\ UNCHANGED trawlVars
  <2>. USE <1>4 DEF RecheckVerdict, recheckVars, trawlVars
  <2>1. TypeOK'
    BY <1>0, <1>5 DEF TypeOK, FileTypeOK, WalkTypeOK, PCs
  <2>2. FileInv' /\ FdInv' /\ HashInv' /\ SumInv'
    BY DEF FileInv, FdInv, HashInv, SumInv, Started, Walking, Walked
  <2>3. SpoilInv'
    BY <1>0 DEF SpoilInv, Walking, Spoiled, Current
  <2>4. ASSUME DigestMatches, NEW c \in 1 .. size
        PROVE  ~ Lost(c)
    <3>1. c \in Chunks /\ c <= pos /\ c \in Nat /\ rpos \in Nat
      BY DEF HashInv, Walked, TypeOK, WalkTypeOK, Chunks
    <3>2. hash[c] # Absent /\ rsum[c] = hash[c]
      BY <2>4, <3>1 DEF HashInv, DigestMatches
    <3>3. c <= rpos
      BY <3>1, <3>2 DEF SumInv
    <3>. QED  BY <3>2, <3>3 DEF RehashInv
  <2>5. RehashInv'
    BY <2>4 DEF RehashInv, Spoiled, Lost, Dated
  <2>. QED  BY <1>5, <1>6, <2>1, <2>2, <2>3, <2>5
<1>. QED  BY <1>1, <1>2, <1>3, <1>4 DEF Recheck

(* A writer cannot make an old version come back, so a spoiled chunk stays *)
(* one the recheck will find.                                              *)
LEMMA WritersIInv == IInv /\ Writers => IInv'
<1>. SUFFICES ASSUME IInv, Writers PROVE IInv'
  OBVIOUS
<1>0. Found' = Found
  BY SameFound DEF Writers
<1>. USE DEF Writers, walkVars, recheckVars, klassVars, callVars, trawlVars
<1>1. /\ FileTypeOK /\ WellFormed(path, store, clock)
      /\ clock <= MaxEdits /\ clock' = clock + 1
      /\ clock \in Files /\ clock \in Nat
      /\ Writes(path, store, clock, path', store')
  BY DEF IInv, TypeOK, FileTypeOK, FileInv, Files, Edit, Rewrite, Replace, Writes, Current
<1>2. /\ WellFormed(path', store', clock + 1) /\ clock + 1 \in Files
      /\ \A f \in Files : f # path' => store'[f] = store[f]
  BY <1>1, WriteChanges
<1>3. FileTypeOK' /\ FileInv'
  BY <1>1, <1>2 DEF FileTypeOK, FileInv, WellFormed
<1>4. TypeOK' /\ ExitInv'
  BY <1>3 DEF IInv, TypeOK, WalkTypeOK, KlassTypeOK, PCs, ExitInv
<1>5. FdInv' /\ SumInv' /\ CountInv' /\ MetInv'
  BY <1>0, <1>1 DEF IInv, FdInv, SumInv, CountInv, MetInv, TypeOK, WalkTypeOK, Files
<1>6. HashInv'
  BY <1>1, <1>4 DEF IInv, HashInv, TypeOK, WalkTypeOK, Contents, Versions
<1>7. ASSUME NEW c \in 1 .. pos
      PROVE  /\ Current[c] # hash[c] => (Current[c] # hash[c])'
             /\ \A f \in 1 .. clock : store[f][c] # hash[c] => (store[f][c] # hash[c])'
  <2>1. c \in Chunks /\ hash[c] \in 1 .. clock
    <3>1. c \in Chunks /\ c <= pos
      BY <1>7, CaptureFileAssumption DEF IInv, TypeOK, WalkTypeOK, Chunks
    <3>2. hash[c] \in Nat /\ hash[c] # 0 /\ hash[c] <= clock
      BY <3>1 DEF IInv, HashInv, TypeOK, WalkTypeOK, Contents, Versions, Absent
    <3>. QED  BY <1>1, <3>1, <3>2
  <2>. QED  BY <1>1, <2>1, WriteNeverRestores DEF Current
<1>8. SpoilInv'
  <2>1. SUFFICES ASSUME pc \in Walking \cup {"recheck", "reopen"}, file = fd,
                        NEW c \in 1 .. pos,
                        Spoiled(c) \/ store'[fd][c] # hash[c]
                 PROVE  store'[path'][c] # hash[c]
    BY DEF IInv, SpoilInv, Spoiled, Current
  <2>2. fd \in 1 .. clock
    BY <2>1 DEF IInv, FdInv, Started, Walked
  <2>3. Spoiled(c) \/ store[fd][c] # hash[c] => Current[c] # hash[c]
    BY <2>1 DEF IInv, SpoilInv
  <2>4. CASE Current[c] # hash[c]
    BY <1>7, <2>4 DEF Current
  <2>5. CASE Current[c] = hash[c]
    <3>1. store[fd][c] = hash[c] /\ store'[fd][c] # hash[c]
      BY <2>1, <2>3, <2>5
    <3>2. fd \in Files => fd = path'
      BY <1>2, <3>1
    <3>. QED  BY <2>2, <3>1, <3>2, CaptureFileAssumption
              DEF IInv, TypeOK, FileTypeOK, Files
  <2>. QED  BY <2>4, <2>5
<1>9. RehashInv'
  <2>1. CASE pc = "rehash"
    <3>1. pos = size /\ rfd \in 1 .. clock
      BY <2>1 DEF IInv, HashInv, FdInv, Walked
    <3>. QED  BY <1>7, <2>1, <3>1 DEF IInv, RehashInv, Spoiled, Lost, Dated
  <2>2. CASE pc = "reopen"
    <3>1. pos = size
      BY <2>2 DEF IInv, HashInv, Walked
    <3>. QED  BY <1>7, <2>2, <3>1 DEF IInv, RehashInv, Spoiled, Lost, Dated
  <2>3. CASE pc \notin {"rehash", "reopen"}
    BY <2>3 DEF IInv, RehashInv, Spoiled, Lost, Dated
  <2>. QED  BY <2>1, <2>2, <2>3
<1>. QED  BY <1>3, <1>4, <1>5, <1>6, <1>8, <1>9 DEF IInv

LEMMA NextIInv == IInv /\ [Next]_vars => IInv'
<1>. SUFFICES ASSUME IInv, [Next]_vars PROVE IInv'
  OBVIOUS
<1>1. CASE Command
  BY <1>1, BeginIInv, OpenIInv, WindowIInv, CandidateIInv, CandidateStepIInv, MoveIInv,
     RecheckIInv DEF Command
<1>2. CASE Writers
  BY <1>2, WritersIInv
<1>3. CASE UNCHANGED vars
  <2>0. Found' = Found
    BY <1>3, SameFound DEF vars
  <2>. USE <1>3 DEF vars, fileVars, walkVars, recheckVars, klassVars, callVars, trawlVars, IInv
  <2>1. TypeOK' /\ FileInv' /\ ExitInv' /\ MetInv'
    BY <2>0 DEF TypeOK, FileTypeOK, WalkTypeOK, KlassTypeOK, FileInv, WellFormed, ExitInv, MetInv
  <2>2. FdInv' /\ HashInv' /\ SumInv' /\ CountInv'
    BY DEF FdInv, HashInv, SumInv, CountInv
  <2>3. SpoilInv' /\ RehashInv'
    BY DEF SpoilInv, RehashInv, Spoiled, Lost, Current
  <2>. QED  BY <2>1, <2>2, <2>3
<1>. QED  BY <1>1, <1>2, <1>3 DEF Next

LEMMA TrawlIInv == Spec => []IInv
BY InitIInv, NextIInv, PTL DEF Spec

(* Counters, positions and descriptors stay in range (raw_strings.rs:      *)
(* strings_with_pack; dictionaries.rs: dictionaries).                      *)
THEOREM TrawlTypes == Spec => []TypeOK
<1>1. IInv => TypeOK
  BY DEF IInv
<1>. QED  BY <1>1, TrawlIInv, PTL

(* The digest in a footer is that of the capture as it was when the recheck *)
(* took its length: of all of it, though the file may be longer while it   *)
(* is rehashed (raw_strings.rs: walk_klass, recheck).                      *)
THEOREM TrawlFooterReal == Spec => []FooterDigestWasReal
<1>1. IInv => FooterDigestWasReal
  <2>1. SUFFICES ASSUME IInv, pc = "complete" PROVE hash = final
    BY DEF FooterDigestWasReal
  <2>2. /\ hash \in Contents /\ final \in Contents /\ size \in 0 .. MaxChunks
        /\ Size(final) = size /\ pos = size
    BY <2>1 DEF IInv, TypeOK, WalkTypeOK, RehashInv, Dated, HashInv, Walked
  <2>3. \A c \in 1 .. size : c \in Chunks /\ final[c] = hash[c] /\ hash[c] # Absent
    BY <2>1, <2>2, CaptureFileAssumption DEF IInv, RehashInv, Lost, HashInv, Chunks
  <2>4. \A c \in Chunks : final[c] # Absent <=> c \in 1 .. size
    BY <2>2, <2>3, WholeContent
  <2>5. \A c \in Chunks : hash[c] # Absent <=> c \in 1 .. size
    BY <2>1, <2>2 DEF IInv, HashInv, Chunks
  <2>6. \A c \in Chunks : hash[c] = final[c]
    BY <2>3, <2>4, <2>5
  <2>. QED  BY <2>2, <2>6 DEF Contents
<1>. QED  BY <1>1, TrawlIInv, PTL

(* With one file throughout, a footer covers every row's reads from chunks *)
(* that had been hashed (raw_strings.rs: strings_with_pack; dictionaries.rs: *)
(* dictionaries).                                                          *)
THEOREM TrawlBackward == Spec => []BackwardReadsCovered
<1>1. IInv => BackwardReadsCovered
  <2>1. SUFFICES ASSUME IInv, pc = "complete", file = fd, NEW fact \in rows, fact.hashed
                 PROVE  hash[fact.chunk] = fact.ver
    BY DEF BackwardReadsCovered
  <2>2. fact.chunk \in 1 .. size
    BY <2>1 DEF IInv, SpoilInv, HashInv, Walked
  <2>3. ~ Spoiled(fact.chunk)
    BY <2>1, <2>2 DEF IInv, RehashInv, Lost
  <2>. QED  BY <2>1, <2>3 DEF Spoiled
<1>. QED  BY <1>1, TrawlIInv, PTL

(* No header that a window shows is lost or met twice, wherever the chunks  *)
(* meet, and each is counted once, whatever becomes of it (walk_klass, the  *)
(* closures of strings_with_pack and dictionaries).                        *)
THEOREM TrawlAccounts == Spec => []CandidatesAccountedFor
<1>1. IInv => CandidatesAccountedFor
  <2>1. SUFFICES ASSUME IInv, pc \in {"walk"} \cup Walked
                 PROVE  /\ count = Cardinality(Found)
                        /\ count = rejected + skipped + emitted
                        /\ pc # "walk" /\ OverlapsHashed =>
                             count = Cardinality(Headers(Klass[command], hash))
    BY DEF CandidatesAccountedFor, Walked, Found
  <2>2. count = Cardinality(Found)
    <3>1. ahead = {} /\ Cardinality({}) = 0 /\ count \in Nat
      BY <2>1, FS_EmptySet, PlaceSets DEF IInv, MetInv, TypeOK, KlassTypeOK, Walked
    <3>. QED  BY <2>1, <3>1 DEF IInv, MetInv
  <2>3. count = rejected + skipped + emitted
    BY <2>1 DEF IInv, CountInv, TypeOK, Walked
  <2>4. pc # "walk" /\ OverlapsHashed => Found = Headers(Klass[command], hash)
    BY <2>1, MetAll, KlassBound DEF IInv, HashInv, Found, TypeOK
  <2>. QED  BY <2>2, <2>3, <2>4
<1>. QED  BY <1>1, TrawlIInv, PTL

(* With --output, a success means that the footer was written (main.rs:    *)
(* main, string_command).                                                  *)
THEOREM TrawlSuccess == Spec => []SuccessMeansFooter
<1>1. IInv => SuccessMeansFooter
  BY DEF IInv, ExitInv, TypeOK, SuccessMeansFooter
<1>. QED  BY <1>1, TrawlIInv, PTL
================================================================================
