--------------------------- MODULE VerifyBindingsProofs ---------------------------
(* verify-bindings: its types, its accounting, and that a completed report *)
(* describes one instant of the capture, for every length of the capture,  *)
(* every number of edits, every reservoir and every place of the headers.  *)
EXTENDS VerifyBindings, CaptureContentProofs

Reading   == {"next", "header", "array", "payload", "recheck", "reopen", "rehash"}
Judged    == {"recheck", "reopen", "rehash", "complete"}
Decoding  == {"header", "array", "payload"}
Dated     == {"reopen", "rehash", "complete"}
Found     == Met("String")

(* The descriptors in use are of files that exist.                         *)
FdInv ==
  /\ pc \notin {"open", "failed"} => fd \in 1 .. clock
  /\ pc \in Reading => file \in 1 .. clock
  /\ pc = "rehash" => rfd \in 1 .. clock

(* The hash covers the chunks up to `pos' and nothing else, and of each of *)
(* them but the first, and of the next one, the beginning was seen before. *)
HashInv ==
  /\ pc = "open" => pos = 0
  /\ pc = "visit" => pos > 0
  /\ pc \in {"openFile", "complete"} \cup Reading => pos = size
  /\ \A c \in Chunks : hash[c] <= clock /\ (c <= pos <=> hash[c] # Absent)
  /\ \A c \in 2 .. size : c <= pos + 1 => overlap[c] # Absent

(* The rehash covers the chunks up to `rpos'.                              *)
SumInv ==
  /\ pc \notin {"rehash", "complete", "failed"} => rpos = 0
  /\ \A c \in Chunks : c > rpos => rsum[c] = Absent

(* Of the headers met those that are not ahead any more have been counted. *)
MetInv ==
  /\ pc \notin {"visit", "failed"} => ahead = {}
  /\ ahead \subseteq Found
  /\ count + Cardinality(ahead) = Cardinality(Found)

(* The reservoir is full, or has all of these; it has none of them twice.  *)
KeptInv ==
  /\ Len(selected) = IF count < Samples THEN count ELSE Samples
  /\ \A s \in Slots : selected[s] \in Found \ ahead
  /\ \A s, t \in Slots : selected[s] = selected[t] => s = t

(* The samples still to be judged and those judged are all the samples.    *)
SlotInv ==
  /\ pc \notin Reading \cup {"complete", "failed"} =>
       evidence = {} /\ todo = {} /\ pairs = {} /\ rejected = {}
  /\ pc \in Reading \cup {"complete"} =>
       /\ todo \cup pairs \cup rejected = Slots
       /\ pairs \cap rejected = {} /\ todo \cap (pairs \cup rejected) = {}
  /\ pc \in Judged => todo = {}
  /\ pc \in Decoding => todo # {}

(* The evidence shows a header at a place.                                 *)
Witnessed(p) ==
  /\ Fits(p)
  /\ \E content \in Contents :
       /\ Bytes(content, p) \in IsHeader["String"][p]
       /\ \A c \in Touched(p) : [chunk |-> c, ver |-> content[c]] \in evidence

PairInv ==
  /\ \A s \in pairs : Witnessed(selected[s])
  /\ pc \in {"array", "payload"} =>
       \A s \in todo : Lowest(s) => Witnessed(selected[s])

(* The instant of the report: before it is set, and after.                 *)
DateInv ==
  /\ pc \notin Dated \cup {"failed"} => snapshot = [c \in Chunks |-> Absent]
  /\ pc \in Dated => Size(snapshot) = size

(* A chunk about which something read is not what was hashed.              *)
Spoiled(c) ==
  \/ pc \in Dated /\ snapshot[c] # hash[c]
  \/ \E fact \in evidence : fact.chunk = c /\ fact.ver # hash[c]

(* Once a chunk is spoiled the path no longer holds what was hashed of it: *)
(* this is what the recheck relies on.                                     *)
SpoilInv ==
  /\ \A fact \in evidence : fact.chunk \in 1 .. size
  /\ pc \in Reading =>
       \A c \in 1 .. size :
         Spoiled(c) \/ store[file][c] # hash[c] => Current[c] # hash[c]

(* ... and the file the recheck opened never will.                         *)
RehashInv ==
  /\ pc = "rehash" =>
       \A c \in 1 .. size :
         Spoiled(c) => /\ store[rfd][c] # hash[c]
                       /\ c <= rpos => rsum[c] # hash[c]
  /\ pc = "complete" => \A c \in 1 .. size : ~ Spoiled(c)

IInv ==
  /\ TypeOK
  /\ FileInv
  /\ FdInv
  /\ HashInv
  /\ SumInv
  /\ MetInv
  /\ KeptInv
  /\ SlotInv
  /\ PairInv
  /\ DateInv
  /\ SpoilInv
  /\ RehashInv

(* -- the headers a walk meets ------------------------------------------- *)

LEMMA PlaceSets ==
  ASSUME NEW set \in SUBSET Places
  PROVE  /\ IsFiniteSet(set) /\ Cardinality(set) \in Nat
         /\ Cardinality(set) <= Cardinality(Places)
BY FS_Subset, FS_CardinalityType, PlacesAssumption

LEMMA ChunksOf ==
  ASSUME NEW p \in Places
  PROVE  /\ ChunkOf[p] \in Chunks /\ ChunkOf[p] \in Nat /\ ChunkOf[p] > 0
         /\ p \in Split => ChunkOf[p] + 1 \in Chunks
         /\ ChunkOf[p] \in Touched(p)
         /\ \A c \in Touched(p) : c \in Chunks /\ (c = ChunkOf[p] \/ c = ChunkOf[p] + 1)
         /\ p \in Split => ChunkOf[p] + 1 \in Touched(p)
BY PlacesAssumption DEF Chunks, Touched

(* Before the first window nothing has been met.                           *)
LEMMA NothingMet == pos = 0 => Found = {}
BY ChunksOf DEF Found, Met

(* A window adds the headers of its main part to those met before it.      *)
LEMMA MetGrows ==
  ASSUME WalkTypeOK, WalkWindow("walk", "visit")
  PROVE  /\ Found' = Found \cup InMain("String")'
         /\ Found \cap InMain("String")' = {}
<1>. DEFINE Old(p) == Fits(p) /\ ChunkOf[p] <= pos /\ View(p) \in IsHeader["String"][p]
            New(p) == Fits(p) /\ ChunkOf[p] = pos + 1 /\ View(p)' \in IsHeader["String"][p]
<1>1. /\ pos \in Nat /\ size' = size /\ pos' = pos + 1
      /\ hash \in Contents /\ overlap \in Contents
      /\ hash' = [hash EXCEPT ![pos + 1] = store[fd][pos + 1]]
      /\ overlap' = Overlapped
  BY DEF WalkTypeOK, WalkWindow
<1>2. ASSUME NEW p \in Places, ChunkOf[p] <= pos
      PROVE  View(p)' = View(p)
  <2>1. hash'[ChunkOf[p]] = hash[ChunkOf[p]]
    BY <1>1, <1>2, ChunksOf DEF Contents
  <2>2. p \in Split => overlap'[ChunkOf[p] + 1] = overlap[ChunkOf[p] + 1]
    BY <1>1, <1>2, ChunksOf DEF Overlapped, Contents
  <2>. QED  BY <2>1, <2>2 DEF View
<1>3. \A p \in Places : Fits(p)' = Fits(p)
  BY <1>1 DEF Fits, Touched
<1>4. Found = {p \in Places : Old(p)}
  BY DEF Found, Met
<1>5. Found' = {p \in Places : Old(p) \/ New(p)}
  <2>1. Found' = {p \in Places : Fits(p)' /\ ChunkOf[p] <= pos' /\ View(p)' \in IsHeader["String"][p]}
    BY DEF Found, Met
  <2>2. \A p \in Places : ChunkOf[p] <= pos + 1 <=> (ChunkOf[p] <= pos \/ ChunkOf[p] = pos + 1)
    BY <1>1, ChunksOf
  <2>. QED  BY <1>1, <1>2, <1>3, <2>1, <2>2
<1>6. InMain("String")' = {p \in Places : New(p)}
  <2>1. InMain("String")' = {p \in Found' : ChunkOf[p] = pos'}
    BY DEF InMain, Found
  <2>2. \A p \in Places : ChunkOf[p] = pos + 1 => ~ (ChunkOf[p] <= pos)
    BY <1>1, ChunksOf
  <2>. QED  BY <1>1, <1>5, <2>1, <2>2
<1>7. Found \cap InMain("String")' = {}
  BY <1>1, <1>4, <1>6, ChunksOf
<1>. QED  BY <1>4, <1>5, <1>6, <1>7

(* The walk is over and the overlaps were hashed as seen: what it met are  *)
(* the headers of the digest.                                              *)
LEMMA MetAll ==
  ASSUME TypeOK, HashInv, pos = size, OverlapsHashed
  PROVE  Found = Headers("String", hash)
<1>1. ASSUME NEW p \in Places, Fits(p)
      PROVE  ChunkOf[p] <= pos /\ View(p) = Bytes(hash, p)
  <2>1. ChunkOf[p] \in 1 .. size
    BY <1>1, ChunksOf DEF Fits
  <2>2. ASSUME p \in Split
        PROVE  overlap[ChunkOf[p] + 1] = hash[ChunkOf[p] + 1]
    <3>1. ChunkOf[p] + 1 \in 2 .. size /\ ChunkOf[p] + 1 \in Chunks
      BY <1>1, <2>1, <2>2, ChunksOf DEF Fits
    <3>. QED  BY <3>1 DEF HashInv, OverlapsHashed, TypeOK, WalkTypeOK
  <2>. QED  BY <2>1, <2>2 DEF View, Bytes, TypeOK, WalkTypeOK
<1>. QED  BY <1>1 DEF Found, Met, Headers

LEMMA InitIInv == Init => IInv
<1>. SUFFICES ASSUME Init PROVE IInv
  OBVIOUS
<1>. USE CaptureFileAssumption, VerifyAssumption DEF Init, WalkInit, KlassInit
<1>1. FileTypeOK /\ FileInv
  BY FirstFile DEF FileInit, FileInv, FileTypeOK, WellFormed, Files
<1>2. Cardinality(Places) \in Nat /\ Cardinality({}) = 0
  BY PlaceSets, FS_EmptySet
<1>3. TypeOK
  BY <1>1, <1>2 DEF TypeOK, WalkTypeOK, KlassTypeOK, PCs, Slots, Facts, Contents,
              Chunks, Versions, Absent, NoFile
<1>4. FdInv /\ HashInv /\ SumInv /\ SpoilInv /\ RehashInv /\ DateInv
  BY <1>1 DEF FdInv, HashInv, SumInv, SpoilInv, RehashInv, DateInv, Reading, Dated, FileInv,
              FileTypeOK, Files, Chunks, Absent
<1>5. MetInv
  <2>1. Found = {}
    BY NothingMet
  <2>. QED  BY <1>2, <2>1 DEF MetInv
<1>6. KeptInv /\ SlotInv /\ PairInv
  BY DEF KeptInv, SlotInv, PairInv, Slots, Reading, Judged, Decoding
<1>. QED  BY <1>1, <1>3, <1>4, <1>5, <1>6 DEF IInv

LEMMA OpenIInv == IInv /\ Open => IInv'
<1>. SUFFICES ASSUME IInv, Open PROVE IInv'
  OBVIOUS
<1>. USE CaptureFileAssumption, VerifyAssumption
     DEF Open, WalkOpen, sampleVars, klassVars, readVars, recheckVars, fileVars, IInv
<1>1. Size(Current) \in 0 .. MaxChunks
  BY SizeType DEF TypeOK, FileTypeOK, Current
<1>2. pos = 0 /\ pos' = 0 /\ UNCHANGED <<ahead, count, selected>>
  BY DEF HashInv
<1>3. TypeOK'
  BY <1>1, <1>2 DEF TypeOK, FileTypeOK, WalkTypeOK, KlassTypeOK, PCs, Slots
<1>4. FileInv' /\ FdInv' /\ HashInv' /\ SumInv'
  BY <1>2 DEF FileInv, FdInv, HashInv, SumInv, TypeOK, FileTypeOK, Files, WellFormed, Reading
<1>5. Found = {} /\ Found' = {}
  BY <1>2, ChunksOf DEF Found, Met
<1>6. MetInv' /\ KeptInv'
  BY <1>2, <1>5 DEF MetInv, KeptInv, Slots
<1>7. SlotInv' /\ PairInv' /\ DateInv'
  BY DEF SlotInv, PairInv, DateInv, Reading, Judged, Decoding, Dated, Slots
<1>8. SpoilInv' /\ RehashInv'
  BY DEF SpoilInv, RehashInv, SlotInv, Reading
<1>. QED  BY <1>3, <1>4, <1>6, <1>7, <1>8

LEMMA WindowIInv == IInv /\ Window => IInv'
<1>. SUFFICES ASSUME IInv, Window PROVE IInv'
  OBVIOUS
<1>. USE CaptureFileAssumption, VerifyAssumption
     DEF Window, KlassWindow, readVars, IInv
<1>0. /\ WalkWindow("walk", "visit") /\ WalkTypeOK
      /\ pc = "walk" /\ pc' = "visit"
      /\ ahead' = InMain("String")'
      /\ UNCHANGED <<count, selected, readVars, fileVars, recheckVars, fd, size>>
  BY DEF WalkWindow, TypeOK, fileVars, recheckVars
<1>. USE DEF recheckVars, fileVars
<1>1. /\ fd \in Files
      /\ pos \in Nat /\ pos + 1 \in Chunks /\ pos' = pos + 1 /\ pos < size
      /\ store[fd][pos + 1] \in Versions
      /\ store[fd][pos + 1] <= clock
      /\ store[fd][pos + 1] # Absent
      /\ hash' = [hash EXCEPT ![pos + 1] = store[fd][pos + 1]]
      /\ store[fd] \in Contents
  BY <1>0 DEF WalkWindow, TypeOK, FileTypeOK, WalkTypeOK, FileInv, WellFormed, FdInv, Files,
         Chunks, Contents, InWindow
<1>2. /\ overlap' \in Contents
      /\ \A c \in 2 .. size : c <= pos + 2 => overlap'[c] # Absent
  <2>1. /\ overlap \in Contents /\ size \in 0 .. MaxChunks
        /\ \A c \in 2 .. size : c <= pos + 1 => overlap[c] # Absent
    BY DEF HashInv, TypeOK, WalkTypeOK
  <2>2. CASE pos + 2 <= size
    <3>1. /\ pos + 2 \in Chunks /\ store[fd][pos + 2] # Absent
          /\ overlap' = [overlap EXCEPT ![pos + 2] = store[fd][pos + 2]]
      BY <1>0, <1>1, <2>1, <2>2 DEF WalkWindow, InWindow, Overlapped, Chunks
    <3>2. overlap' \in Contents
      BY <1>1, <2>1, <3>1 DEF Contents
    <3>3. ASSUME NEW c \in 2 .. size, c <= pos + 2
          PROVE  overlap'[c] # Absent
      <4>1. c \in Chunks
        BY <2>1, <3>3 DEF Chunks
      <4>2. CASE c = pos + 2
        BY <2>1, <3>1, <4>1, <4>2 DEF Contents
      <4>3. CASE c # pos + 2
        BY <1>1, <2>1, <3>1, <3>3, <4>1, <4>3 DEF Contents
      <4>. QED  BY <4>2, <4>3
    <3>. QED  BY <3>2, <3>3
  <2>3. CASE ~ (pos + 2 <= size)
    <3>1. overlap' = overlap
      BY <1>0, <2>3 DEF WalkWindow, Overlapped
    <3>2. \A c \in 2 .. size : c <= pos + 2 => c <= pos + 1
      BY <1>1, <2>1, <2>3
    <3>. QED  BY <2>1, <3>1, <3>2
  <2>. QED  BY <2>2, <2>3
<1>3. HashInv'
  <2>1. \A c \in Chunks : hash'[c] <= clock /\ (c <= pos + 1 <=> hash'[c] # Absent)
    BY <1>1 DEF HashInv, TypeOK, WalkTypeOK, Contents, Chunks
  <2>. QED  BY <1>0, <1>1, <1>2, <2>1 DEF HashInv, Reading
<1>4. FileInv' /\ FdInv' /\ SumInv'
  BY <1>0 DEF FileInv, FdInv, SumInv, Reading
<1>5. /\ Found' = Found \cup ahead' /\ Found \cap ahead' = {}
      /\ ahead' \subseteq Places /\ Found \subseteq Places
  BY <1>0, MetGrows DEF Found, Met
<1>6. TypeOK'
  <2>1. WalkTypeOK'
    <3>1. hash' \in Contents /\ pos' \in 0 .. size
      BY <1>1 DEF TypeOK, WalkTypeOK, Contents
    <3>. QED  BY <1>0, <1>2, <3>1 DEF TypeOK, WalkTypeOK
  <2>. QED  BY <1>0, <1>5, <2>1 DEF TypeOK, FileTypeOK, KlassTypeOK, PCs, Slots
<1>7. MetInv' /\ ahead = {}
  <2>1. ahead = {} /\ count = Cardinality(Found)
    BY <1>0, FS_EmptySet, PlaceSets, <1>5 DEF MetInv, TypeOK, KlassTypeOK
  <2>2. /\ IsFiniteSet(Found) /\ Cardinality(Found) \in Nat
        /\ IsFiniteSet(ahead') /\ Cardinality(ahead') \in Nat
        /\ Cardinality(Found \cap ahead') = 0
    BY <1>5, PlaceSets, FS_EmptySet
  <2>3. Cardinality(Found \cup ahead') = Cardinality(Found) + Cardinality(ahead')
    <3>1. Cardinality(Found \cup ahead')
            = Cardinality(Found) + Cardinality(ahead') - Cardinality(Found \cap ahead')
      BY <2>2, FS_Union
    <3>. QED  BY <2>2, <3>1
  <2>. QED  BY <1>0, <1>5, <2>1, <2>2, <2>3 DEF MetInv
<1>8. KeptInv'
  BY <1>0, <1>5, <1>7 DEF KeptInv, Slots
<1>9. SlotInv' /\ PairInv' /\ DateInv' /\ SpoilInv' /\ RehashInv'
  BY <1>0 DEF SlotInv, PairInv, DateInv, SpoilInv, RehashInv, Reading, Judged, Decoding,
              Dated, Slots
<1>. QED  BY <1>3, <1>4, <1>6, <1>7, <1>8, <1>9

(* A place that takes a slot of the reservoir was not in it before.        *)
LEMMA SelectIInv == IInv /\ Select => IInv'
<1>. SUFFICES ASSUME IInv, Select PROVE IInv'
  OBVIOUS
<1>. USE CaptureFileAssumption, VerifyAssumption DEF IInv
<1>1. PICK p \in ahead :
        /\ Visit(p, "visit", "visit")
        /\ IF Len(selected) < Samples THEN selected' = Append(selected, p)
           ELSE Keep(count + 1, p)
        /\ UNCHANGED readVars
  BY DEF Select
<1>2. /\ pc = "visit" /\ pc' = "visit"
      /\ ahead' = ahead \ {p} /\ count' = count + 1
      /\ UNCHANGED <<walkVars, recheckVars, fileVars, readVars>>
      /\ Found' = Found
  BY <1>1 DEF Visit, Found, Met, Fits, View, Touched, walkVars
<1>. USE DEF walkVars, recheckVars, fileVars, readVars
<1>3. /\ ahead \subseteq Found /\ Found \subseteq Places /\ p \in Found \ ahead'
      /\ p \in Places /\ count \in Nat /\ Samples \in Nat
  BY <1>2 DEF MetInv, TypeOK, KlassTypeOK, Found, Met
<1>4. /\ count' \in 0 .. Cardinality(Places)
      /\ count' + Cardinality(ahead') = Cardinality(Found)
  <2>1. /\ IsFiniteSet(ahead) /\ Cardinality(ahead) \in Nat
        /\ Cardinality(Found) \in Nat /\ Cardinality(Found) <= Cardinality(Places)
        /\ Cardinality(ahead') \in Nat /\ Cardinality(Places) \in Nat
    BY <1>2, <1>3, PlaceSets
  <2>2. Cardinality(ahead') = Cardinality(ahead) - 1
    BY <1>1, <1>2, <2>1, FS_RemoveElement
  <2>. QED  BY <1>2, <1>3, <2>1, <2>2 DEF MetInv
<1>5. /\ selected \in Seq(Places) /\ Slots = 1 .. Len(selected) /\ Len(selected) \in Nat
      /\ Len(selected) <= Samples
      /\ \A s \in Slots : selected[s] \in Found \ ahead
      /\ \A s, t \in Slots : selected[s] = selected[t] => s = t
      /\ Len(selected) = IF count < Samples THEN count ELSE Samples
  BY DEF TypeOK, KeptInv, Slots
<1>6. /\ selected' \in Seq(Places) /\ Slots' = 1 .. Len(selected')
      /\ Len(selected') = IF count' < Samples THEN count' ELSE Samples
      /\ \A s \in Slots' : selected'[s] \in Found \ ahead'
      /\ \A s, t \in Slots' : selected'[s] = selected'[t] => s = t
  <2>1. CASE Len(selected) < Samples
    <3>1. selected' = Append(selected, p)
      BY <1>1, <2>1
    <3>2. /\ selected' \in Seq(Places) /\ Len(selected') = Len(selected) + 1
          /\ Slots' = 1 .. Len(selected')
          /\ \A s \in Slots : selected'[s] = selected[s]
          /\ selected'[Len(selected) + 1] = p
      BY <1>3, <1>5, <3>1 DEF Slots
    <3>3. \A s \in Slots' : s \in Slots \/ s = Len(selected) + 1
      BY <1>5, <3>2
    <3>4. \A s \in Slots : selected[s] # p
      BY <1>5
    <3>5. Len(selected') = IF count' < Samples THEN count' ELSE Samples
      BY <1>2, <1>3, <1>5, <2>1, <3>2
    <3>6. \A s \in Slots' : selected'[s] \in Found \ ahead'
      BY <1>2, <1>3, <1>5, <3>2, <3>3
    <3>7. ASSUME NEW s \in Slots', NEW t \in Slots', selected'[s] = selected'[t]
          PROVE  s = t
      <4>1. s \in Slots /\ t \in Slots => s = t
        BY <1>5, <3>2, <3>7
      <4>2. s \in Slots <=> t \in Slots
        BY <3>2, <3>3, <3>4, <3>7
      <4>. QED  BY <3>3, <4>1, <4>2
    <3>. QED  BY <3>2, <3>5, <3>6, <3>7
  <2>2. CASE ~ (Len(selected) < Samples)
    <3>1. PICK slot \in 1 .. count + 1 :
            selected' = IF slot \in Slots THEN [selected EXCEPT ![slot] = p] ELSE selected
      BY <1>1, <2>2 DEF Keep
    <3>2. /\ selected' \in Seq(Places) /\ Len(selected') = Len(selected)
          /\ Slots' = Slots
      BY <1>3, <1>5, <3>1 DEF Slots
    <3>3. \A s \in Slots : selected'[s] = selected[s] \/ (s = slot /\ selected'[s] = p)
      BY <1>5, <3>1
    <3>4. \A s \in Slots : selected[s] # p
      BY <1>5
    <3>5. \A s \in Slots' : selected'[s] \in Found \ ahead'
      BY <1>2, <1>3, <1>5, <3>2, <3>3
    <3>6. ASSUME NEW s \in Slots, NEW t \in Slots, selected'[s] = selected'[t]
          PROVE  s = t
      BY <1>5, <3>3, <3>4, <3>6
    <3>7. Len(selected') = IF count' < Samples THEN count' ELSE Samples
      BY <1>2, <1>3, <1>5, <2>2, <3>2
    <3>. QED  BY <1>5, <3>2, <3>5, <3>6, <3>7
  <2>. QED  BY <2>1, <2>2
<1>7. /\ evidence = {} /\ todo = {} /\ pairs = {} /\ rejected = {}
      /\ UNCHANGED <<evidence, todo, pairs, rejected, snapshot, file>>
  BY <1>2 DEF SlotInv, Reading
<1>8. TypeOK'
  <2>1. Len(selected') <= Samples
    BY <1>2, <1>3, <1>6
  <2>. QED  BY <1>2, <1>4, <1>6, <1>7, <2>1 DEF TypeOK, FileTypeOK, WalkTypeOK, KlassTypeOK, PCs
<1>9. MetInv' /\ KeptInv'
  BY <1>2, <1>3, <1>4, <1>6 DEF MetInv, KeptInv
<1>10. SlotInv' /\ PairInv' /\ DateInv' /\ SpoilInv' /\ RehashInv'
  BY <1>2, <1>7 DEF SlotInv, PairInv, DateInv, SpoilInv, RehashInv, Reading, Judged, Decoding, Dated
<1>11. FileInv' /\ FdInv' /\ HashInv' /\ SumInv'
  BY <1>2 DEF FileInv, FdInv, HashInv, SumInv, Reading
<1>. QED  BY <1>8, <1>9, <1>10, <1>11

(* The walk and the reservoir are as they were: so is what was met.        *)
LEMMA SameFound ==
  ASSUME UNCHANGED <<walkVars, sampleVars>>
  PROVE  /\ Found' = Found /\ Slots' = Slots /\ UNCHANGED <<ahead, count, selected>>
         /\ KeptInv => KeptInv'
         /\ MetInv /\ pc \notin {"visit", "failed"} => MetInv'
         /\ \A p : Fits(p)' = Fits(p)
BY DEF Found, Met, Fits, View, Touched, walkVars, sampleVars, klassVars, Slots, KeptInv, MetInv

(* Steps of the command that only move it on.                              *)
LEMMA MoveIInv ==
  IInv /\ (NoMoreHeaders \/ WalkDone \/ StartSample \/ SamplesDone \/ Fail) => IInv'
<1>. SUFFICES ASSUME IInv,
                     NoMoreHeaders \/ WalkDone \/ StartSample \/ SamplesDone \/ Fail
              PROVE  IInv'
  OBVIOUS
<1>. USE DEF IInv
<1>1. /\ UNCHANGED <<walkVars, sampleVars, readVars, recheckVars, fileVars>>
      /\ \/ pc = "visit" /\ pc' = "walk" /\ ahead = {}
         \/ pc = "walk" /\ pos = size /\ pc' = "openFile"
         \/ pc = "next" /\ todo # {} /\ pc' = "header"
         \/ pc = "next" /\ todo = {} /\ pc' = "recheck"
         \/ pc # "complete" /\ pc' = "failed"
  BY DEF NoMoreHeaders, WindowDone, WalkDone, WalkEnd, StartSample, SamplesDone, Fail,
         Abort, Ended, sampleVars
<1>2. /\ Found' = Found /\ Slots' = Slots /\ UNCHANGED <<ahead, count, selected>>
      /\ KeptInv'
  BY <1>1, SameFound
<1>. USE DEF walkVars, readVars, recheckVars, fileVars
<1>3. TypeOK'
  BY <1>1, <1>2 DEF TypeOK, FileTypeOK, WalkTypeOK, KlassTypeOK, PCs
<1>4. FileInv' /\ FdInv' /\ HashInv' /\ SumInv'
  BY <1>1 DEF FileInv, FdInv, HashInv, SumInv, Reading
<1>5. MetInv'
  BY <1>1, <1>2 DEF MetInv
<1>6. SlotInv' /\ DateInv'
  BY <1>1, <1>2 DEF SlotInv, DateInv, Reading, Judged, Decoding, Dated
<1>7. PairInv'
  BY <1>1, <1>2 DEF PairInv, Witnessed, Fits, Touched, Lowest
<1>8. SpoilInv' /\ RehashInv'
  BY <1>1 DEF SpoilInv, RehashInv, Reading, Dated, Spoiled, Current
<1>. QED  BY <1>2, <1>3, <1>4, <1>5, <1>6, <1>7, <1>8

LEMMA OpenFileIInv == IInv /\ OpenFile => IInv'
<1>. SUFFICES ASSUME IInv, OpenFile PROVE IInv'
  OBVIOUS
<1>. USE DEF OpenFile, IInv
<1>1. /\ Found' = Found /\ Slots' = Slots /\ UNCHANGED <<ahead, count, selected>>
      /\ KeptInv' /\ MetInv'
  BY SameFound
<1>. USE DEF walkVars, recheckVars, fileVars
<1>2. TypeOK'
  BY <1>1 DEF TypeOK, FileTypeOK, WalkTypeOK, KlassTypeOK, PCs, Current
<1>3. FileInv' /\ FdInv' /\ HashInv' /\ SumInv'
  BY DEF FileInv, FdInv, HashInv, SumInv, Reading, TypeOK, FileTypeOK, Files, WellFormed
<1>4. evidence = {} /\ todo = {} /\ pairs = {} /\ rejected = {}
  BY DEF SlotInv, Reading
<1>5. SlotInv' /\ PairInv' /\ DateInv'
  BY <1>1, <1>4 DEF SlotInv, PairInv, DateInv, Reading, Judged, Decoding, Dated
<1>6. SpoilInv' /\ RehashInv'
  BY <1>4 DEF SpoilInv, RehashInv, Reading, Spoiled, Current, Dated
<1>. QED  BY <1>1, <1>2, <1>3, <1>5, <1>6

(* -- the random reads --------------------------------------------------- *)

(* What a random read adds is what the file has now.                       *)
Fetched(fact) ==
  fact.chunk \in 1 .. size /\ fact.ver = store[file][fact.chunk]

LEMMA ReadFetches ==
  ASSUME IInv, pc \in Decoding, NEW span, Read(span)
  PROVE  /\ evidence' \subseteq Facts
         /\ evidence \subseteq evidence'
         /\ \A fact \in evidence' : fact \in evidence \/ Fetched(fact)
         /\ \A d \in span : [chunk |-> d, ver |-> store[file][d]] \in evidence'
         /\ span \subseteq 1 .. size
         /\ store[file] \in Contents
<1>1. /\ span \subseteq 1 .. size
      /\ evidence' = evidence \cup
                     {[chunk |-> d, ver |-> store[file][d]] : d \in span}
  BY DEF Read
<1>2. /\ 1 .. size \subseteq Chunks
      /\ file \in Files
      /\ store[file] \in Contents
      /\ evidence \subseteq Facts
  BY CaptureFileAssumption
     DEF IInv, TypeOK, FileTypeOK, WalkTypeOK, FdInv, Decoding, Reading, Chunks, Files
<1>3. \A d \in span : [chunk |-> d, ver |-> store[file][d]] \in Facts
  BY <1>1, <1>2 DEF Facts, Contents
<1>. QED  BY <1>1, <1>2, <1>3 DEF Fetched

(* What the evidence shows it goes on showing.                             *)
LEMMA WitnessKept ==
  ASSUME UNCHANGED walkVars, evidence \subseteq evidence', NEW p, Witnessed(p)
  PROVE  Witnessed(p)'
<1>1. Fits(p)'
  BY DEF Witnessed, Fits, Touched, walkVars
<1>2. PICK content \in Contents :
        /\ Bytes(content, p) \in IsHeader["String"][p]
        /\ \A c \in Touched(p) : [chunk |-> c, ver |-> content[c]] \in evidence
  BY DEF Witnessed
<1>. QED  BY <1>1, <1>2 DEF Witnessed

(* A step of decode_at, whichever it is: it reads through `file', and may  *)
(* settle the sample.                                                      *)
LEMMA DecodeIInv ==
  ASSUME IInv,
         pc \in Decoding,
         UNCHANGED <<file, snapshot, walkVars, recheckVars, sampleVars, fileVars>>,
         evidence' \subseteq Facts,
         evidence \subseteq evidence',
         \A fact \in evidence' : fact \in evidence \/ Fetched(fact),
         \/ pc' \in Decoding /\ UNCHANGED <<todo, pairs, rejected>>
         \/ \E slot \in todo : \E ok \in BOOLEAN : FinishSample(slot, ok),
         PairInv'
  PROVE  IInv'
<1>. USE CaptureFileAssumption, VerifyAssumption DEF IInv
<1>1. /\ Slots' = Slots /\ UNCHANGED <<ahead, count, selected>>
      /\ MetInv' /\ KeptInv'
  BY SameFound DEF Decoding
<1>. USE DEF walkVars, recheckVars, fileVars
<1>2. /\ pc' \in Decoding \cup {"next"}
      /\ todo \subseteq Slots /\ pairs \subseteq Slots /\ rejected \subseteq Slots
      /\ todo \cup pairs \cup rejected = Slots /\ todo # {}
      /\ pairs \cap rejected = {} /\ todo \cap (pairs \cup rejected) = {}
  BY DEF SlotInv, FinishSample, Decoding, Reading, TypeOK
<1>3. /\ todo' \subseteq Slots /\ pairs' \subseteq Slots /\ rejected' \subseteq Slots
      /\ todo' \cup pairs' \cup rejected' = Slots
      /\ pairs' \cap rejected' = {} /\ todo' \cap (pairs' \cup rejected') = {}
      /\ pc' \in Decoding => todo' # {}
  <2>1. CASE pc' \in Decoding /\ UNCHANGED <<todo, pairs, rejected>>
    BY <1>2, <2>1
  <2>2. CASE \E slot \in todo : \E ok \in BOOLEAN : FinishSample(slot, ok)
    <3>1. PICK slot \in todo, ok \in BOOLEAN : FinishSample(slot, ok)
      BY <2>2
    <3>2. /\ todo' = todo \ {slot} /\ pc' = "next"
          /\ \/ pairs' = pairs \cup {slot} /\ rejected' = rejected
             \/ pairs' = pairs /\ rejected' = rejected \cup {slot}
      BY <3>1 DEF FinishSample
    <3>. QED  BY <1>2, <3>2 DEF Decoding
  <2>. QED  BY <2>1, <2>2
<1>4. TypeOK'
  BY <1>1, <1>2, <1>3 DEF TypeOK, FileTypeOK, WalkTypeOK, KlassTypeOK, PCs, Decoding
<1>5. FileInv' /\ FdInv' /\ HashInv' /\ SumInv'
  BY <1>2 DEF FileInv, FdInv, HashInv, SumInv, Decoding, Reading
<1>6. SlotInv' /\ DateInv'
  BY <1>1, <1>2, <1>3 DEF SlotInv, DateInv, Decoding, Reading, Judged, Dated
<1>7. SpoilInv'
  BY <1>2 DEF SpoilInv, Spoiled, Fetched, Decoding, Reading, Dated, Current
<1>8. RehashInv'
  BY <1>2 DEF RehashInv, Decoding
<1>. QED  BY <1>1, <1>4, <1>5, <1>6, <1>7, <1>8

LEMMA SampleIInv ==
  IInv /\ (ReadHeader \/ ReadArray \/ ReadPayload \/ RejectUnread) => IInv'
<1>. SUFFICES ASSUME IInv, ReadHeader \/ ReadArray \/ ReadPayload \/ RejectUnread
              PROVE  IInv'
  OBVIOUS
<1>0. /\ pc \in Decoding /\ evidence \subseteq Facts
      /\ UNCHANGED <<file, snapshot, walkVars, recheckVars, sampleVars, fileVars>>
      /\ UNCHANGED selected
  BY DEF ReadHeader, ReadArray, ReadPayload, RejectUnread, Decoding, sampleVars, IInv, TypeOK
(* A sample that is not a pair leaves the pairs as they are.               *)
<1>1. ASSUME evidence \subseteq evidence', NEW slot \in todo, FinishSample(slot, FALSE)
      PROVE  PairInv'
  BY <1>0, <1>1, WitnessKept DEF IInv, PairInv, FinishSample
<1>2. CASE ReadHeader
  <2>1. PICK slot \in todo :
          /\ pc = "header"
          /\ Lowest(slot)
          /\ Read(Touched(selected[slot]))
          /\ \/ /\ Bytes(store[file], selected[slot]) \in IsHeader["String"][selected[slot]]
                /\ pc' = "array"
                /\ UNCHANGED <<todo, pairs, rejected>>
             \/ FinishSample(slot, FALSE)
    BY <1>2 DEF ReadHeader
  <2>. DEFINE p == selected[slot]
  <2>2. /\ evidence' \subseteq Facts
        /\ evidence \subseteq evidence'
        /\ \A fact \in evidence' : fact \in evidence \/ Fetched(fact)
        /\ \A d \in Touched(p) : [chunk |-> d, ver |-> store[file][d]] \in evidence'
        /\ Touched(p) \subseteq 1 .. size
        /\ store[file] \in Contents
    BY <1>0, <2>1, ReadFetches
  <2>3. CASE /\ Bytes(store[file], p) \in IsHeader["String"][p]
             /\ pc' = "array"
             /\ UNCHANGED <<todo, pairs, rejected>>
    <3>1. Witnessed(p)'
      <4>1. Fits(p)'
        BY <1>0, <2>2 DEF Fits, Touched, walkVars
      <4>2. \E content \in Contents :
              /\ Bytes(content, p) \in IsHeader["String"][p]
              /\ \A c \in Touched(p) : [chunk |-> c, ver |-> content[c]] \in evidence'
        BY <2>2, <2>3
      <4>3. selected' = selected
        BY <1>0
      <4>. QED  BY <4>1, <4>2, <4>3 DEF Witnessed
    <3>2. ASSUME NEW s \in todo', Lowest(s)'
          PROVE  selected'[s] = p
      <4>1. /\ s \in todo /\ todo \subseteq Slots
            /\ selected[s] <= selected[slot] /\ selected[slot] <= selected[s]
        BY <1>0, <2>1, <2>3, <3>2 DEF Lowest, IInv, TypeOK
      <4>2. selected[s] \in Nat /\ selected[slot] \in Nat
        <5>1. selected \in Seq(Places) /\ s \in DOMAIN selected /\ slot \in DOMAIN selected
          BY <2>1, <4>1 DEF IInv, TypeOK, Slots
        <5>2. selected[s] \in Places /\ selected[slot] \in Places
          BY <5>1
        <5>. QED  BY <5>2, PlacesAssumption
      <4>. QED  BY <1>0, <4>1, <4>2
    <3>3. \A s \in pairs' : Witnessed(selected[s])'
      BY <1>0, <2>2, <2>3, WitnessKept DEF IInv, PairInv
    <3>4. PairInv'
      BY <1>0, <3>1, <3>2, <3>3 DEF PairInv
    <3>. QED  BY <1>0, <2>2, <2>3, <3>4, DecodeIInv DEF Decoding
  <2>4. CASE FinishSample(slot, FALSE)
    BY <1>0, <1>1, <2>2, <2>4, DecodeIInv
  <2>. QED  BY <2>1, <2>3, <2>4
<1>3. ASSUME ReadAnywhere
      PROVE  /\ evidence' \subseteq Facts
             /\ evidence \subseteq evidence'
             /\ \A fact \in evidence' : fact \in evidence \/ Fetched(fact)
  BY <1>0, <1>3, ReadFetches DEF ReadAnywhere
<1>4. CASE ReadArray
  <2>1. CASE pc' = "payload" /\ UNCHANGED <<todo, pairs, rejected>>
    <3>1. PairInv'
      BY <1>0, <1>3, <1>4, <2>1, WitnessKept DEF ReadArray, IInv, PairInv, Lowest
    <3>. QED  BY <1>0, <1>3, <1>4, <2>1, <3>1, DecodeIInv DEF ReadArray, Decoding
  <2>2. CASE \E slot \in todo : Lowest(slot) /\ FinishSample(slot, FALSE)
    BY <1>0, <1>1, <1>3, <1>4, <2>2, DecodeIInv DEF ReadArray
  <2>. QED  BY <1>4, <2>1, <2>2 DEF ReadArray
<1>5. CASE ReadPayload
  <2>1. PICK slot \in todo : Lowest(slot) /\ FinishSample(slot, TRUE)
    BY <1>5 DEF ReadPayload
  <2>2. Witnessed(selected[slot])
    BY <1>5, <2>1 DEF ReadPayload, IInv, PairInv
  <2>3. PairInv'
    BY <1>0, <1>3, <1>5, <2>1, <2>2, WitnessKept DEF ReadPayload, IInv, PairInv, FinishSample
  <2>. QED  BY <1>0, <1>3, <1>5, <2>1, <2>3, DecodeIInv DEF ReadPayload
<1>6. CASE RejectUnread
  <2>1. PICK slot \in todo : FinishSample(slot, FALSE) /\ UNCHANGED evidence
    BY <1>6 DEF RejectUnread
  <2>. QED  BY <1>0, <1>1, <2>1, DecodeIInv
<1>. QED  BY <1>2, <1>4, <1>5, <1>6

(* -- the recheck -------------------------------------------------------- *)

LEMMA RecheckIInv == IInv /\ Recheck => IInv'
<1>. SUFFICES ASSUME IInv, Recheck PROVE IInv'
  OBVIOUS
<1>. USE CaptureFileAssumption, VerifyAssumption DEF IInv
<1>1. /\ UNCHANGED <<walkVars, sampleVars, fileVars>>
      /\ UNCHANGED <<todo, file, pairs, rejected, evidence>>
      /\ pc \in {"recheck", "reopen", "rehash"}
      /\ pc' \in {"reopen", "rehash", "complete", "failed"}
  BY DEF Recheck, TakeLength, RecheckSize, RecheckOpen, RehashChunk, RecheckVerdict,
         sampleVars, readVars
<1>2. /\ Found' = Found /\ Slots' = Slots /\ UNCHANGED <<ahead, count, selected>>
      /\ MetInv' /\ KeptInv'
  BY <1>1, SameFound
<1>. USE DEF walkVars, fileVars
<1>3. SlotInv' /\ PairInv'
  BY <1>1, <1>2, WitnessKept DEF SlotInv, PairInv, Reading, Judged, Decoding
<1>4. CASE TakeLength
  <2>. USE <1>4 DEF TakeLength, RecheckSize, recheckVars
  <2>1. Current \in Contents
    BY DEF TypeOK, FileTypeOK, Current
  <2>2. TypeOK'
    BY <1>1, <1>2, <2>1 DEF TypeOK, FileTypeOK, WalkTypeOK, KlassTypeOK, PCs
  <2>3. FileInv' /\ FdInv' /\ HashInv' /\ SumInv'
    BY <1>1 DEF FileInv, FdInv, HashInv, SumInv, Reading
  <2>4. DateInv'
    BY <1>1 DEF DateInv, Dated, SizeMatches
  <2>5. SpoilInv' /\ RehashInv'
    BY <1>1 DEF SpoilInv, RehashInv, Reading, Spoiled, Dated, Current
  <2>. QED  BY <1>2, <1>3, <2>2, <2>3, <2>4, <2>5
<1>5. CASE RecheckOpen /\ UNCHANGED readVars
  <2>. USE <1>5 DEF RecheckOpen, readVars
  <2>1. TypeOK'
    BY <1>1, <1>2 DEF TypeOK, FileTypeOK, WalkTypeOK, KlassTypeOK, PCs
  <2>2. FileInv' /\ FdInv' /\ HashInv' /\ SumInv'
    BY <1>1 DEF FileInv, FdInv, HashInv, SumInv, Reading, TypeOK, FileTypeOK, Files, WellFormed
  <2>3. SpoilInv' /\ DateInv'
    BY <1>1 DEF SpoilInv, DateInv, Reading, Spoiled, Current, Dated
  <2>4. RehashInv'
    BY <1>1 DEF SpoilInv, SumInv, RehashInv, Reading, Spoiled, Current, Dated, TypeOK, WalkTypeOK
  <2>. QED  BY <1>2, <1>3, <2>1, <2>2, <2>3, <2>4
<1>6. CASE RehashChunk /\ UNCHANGED readVars
  <2>. USE <1>6 DEF RehashChunk, readVars
  <2>1. /\ rfd \in Files
        /\ rpos + 1 \in Chunks
        /\ store[rfd] \in Contents
    <3>1. rfd \in Files /\ store[rfd] \in Contents
      BY DEF FdInv, TypeOK, FileTypeOK, Files
    <3>2. rpos \in 0 .. MaxChunks /\ rpos # MaxChunks
      BY DEF EndOfFile, TypeOK, WalkTypeOK
    <3>. QED  BY <3>1, <3>2 DEF Chunks
  <2>2. TypeOK'
    <3>1. WalkTypeOK'
      <4>1. rsum' \in Contents
        BY <2>1 DEF TypeOK, WalkTypeOK, Contents
      <4>2. rpos' \in 0 .. MaxChunks
        BY <2>1 DEF Chunks
      <4>. QED  BY <4>1, <4>2 DEF TypeOK, WalkTypeOK
    <3>. QED  BY <1>1, <1>2, <3>1 DEF TypeOK, FileTypeOK, KlassTypeOK, PCs
  <2>3. FileInv' /\ FdInv' /\ HashInv' /\ SumInv'
    <3>1. FileInv' /\ FdInv' /\ HashInv'
      BY <2>1 DEF FileInv, FdInv, HashInv, Reading
    <3>2. SumInv'
      BY <2>1 DEF SumInv, TypeOK, WalkTypeOK, Contents, Chunks
    <3>. QED  BY <3>1, <3>2
  <2>4. SpoilInv' /\ DateInv'
    BY DEF SpoilInv, DateInv, Reading, Spoiled, Current, Dated
  <2>5. \A c \in 1 .. size :
          Spoiled(c) /\ c <= rpos + 1 => rsum'[c] # hash[c]
    BY <2>1 DEF RehashInv, TypeOK, WalkTypeOK, Contents, Chunks
  <2>6. RehashInv'
    BY <2>5 DEF RehashInv, Spoiled
  <2>. QED  BY <1>2, <1>3, <2>2, <2>3, <2>4, <2>6
<1>7. CASE RecheckVerdict("complete") /\ UNCHANGED readVars
  <2>. USE <1>7 DEF RecheckVerdict, recheckVars, readVars
  <2>1. TypeOK'
    BY <1>1, <1>2 DEF TypeOK, FileTypeOK, WalkTypeOK, KlassTypeOK, PCs
  <2>2. FileInv' /\ FdInv' /\ HashInv' /\ SumInv'
    BY DEF FileInv, FdInv, HashInv, SumInv, Reading
  <2>3. SpoilInv' /\ DateInv'
    BY DEF SpoilInv, DateInv, Reading, Dated
  <2>4. ASSUME DigestMatches, NEW c \in 1 .. size
        PROVE  ~ Spoiled(c)
    <3>1. c \in Chunks /\ c <= pos /\ c \in Nat /\ rpos \in Nat
      BY DEF HashInv, Reading, TypeOK, WalkTypeOK, Chunks
    <3>2. hash[c] # Absent /\ rsum[c] = hash[c]
      BY <2>4, <3>1 DEF HashInv, DigestMatches
    <3>3. c <= rpos
      BY <3>1, <3>2 DEF SumInv
    <3>. QED  BY <3>2, <3>3 DEF RehashInv
  <2>5. RehashInv'
    BY <2>4 DEF RehashInv, Spoiled, Dated
  <2>. QED  BY <1>2, <1>3, <2>1, <2>2, <2>3, <2>5
<1>. QED  BY <1>4, <1>5, <1>6, <1>7 DEF Recheck

(* A writer cannot make an old version come back, so a spoiled chunk stays *)
(* one the recheck will find.                                              *)
LEMMA WritersIInv == IInv /\ Writers => IInv'
<1>. SUFFICES ASSUME IInv, Writers PROVE IInv'
  OBVIOUS
<1>0. /\ Found' = Found /\ Slots' = Slots /\ UNCHANGED <<ahead, count, selected>>
      /\ KeptInv'
  BY SameFound DEF Writers, IInv
<1>. USE DEF Writers, walkVars, recheckVars, readVars
<1>1. /\ FileTypeOK /\ WellFormed(path, store, clock)
      /\ clock <= MaxEdits /\ clock' = clock + 1
      /\ clock \in Files /\ clock \in Nat
      /\ Writes(path, store, clock, path', store')
  BY DEF IInv, TypeOK, FileTypeOK, FileInv, Files, Edit, Rewrite, Replace, Writes, Current
<1>2. /\ WellFormed(path', store', clock + 1) /\ clock + 1 \in Files
      /\ \A f \in Files : f # path' => store'[f] = store[f]
  BY <1>1, WriteChanges
<1>3. FileTypeOK' /\ FileInv'
  BY <1>1, <1>2 DEF FileTypeOK, FileInv, WellFormed
<1>4. TypeOK'
  BY <1>0, <1>3 DEF IInv, TypeOK, WalkTypeOK, KlassTypeOK, PCs
<1>5. FdInv' /\ SumInv' /\ MetInv' /\ SlotInv' /\ DateInv'
  BY <1>0, <1>1 DEF IInv, FdInv, SumInv, MetInv, SlotInv, DateInv, TypeOK, WalkTypeOK, Files
<1>10. PairInv'
  BY <1>0, WitnessKept DEF IInv, PairInv, Lowest
<1>6. HashInv'
  BY <1>1, <1>4
     DEF IInv, HashInv, TypeOK, WalkTypeOK, Contents, Versions
<1>7. \A c \in 1 .. size : c <= pos =>
        /\ Current[c] # hash[c] => (Current[c] # hash[c])'
        /\ \A f \in 1 .. clock : store[f][c] # hash[c] => (store[f][c] # hash[c])'
  <2>1. SUFFICES ASSUME NEW c \in 1 .. size, c <= pos
                 PROVE  /\ Current[c] # hash[c] => (Current[c] # hash[c])'
                        /\ \A f \in 1 .. clock :
                             store[f][c] # hash[c] => (store[f][c] # hash[c])'
    OBVIOUS
  <2>2. c \in Chunks /\ hash[c] \in 1 .. clock
    <3>1. c \in Chunks
      BY <2>1, CaptureFileAssumption DEF IInv, TypeOK, WalkTypeOK, Chunks
    <3>2. hash[c] \in Nat /\ hash[c] # 0 /\ hash[c] <= clock
      BY <2>1, <3>1 DEF IInv, HashInv, TypeOK, WalkTypeOK, Contents, Versions, Absent
    <3>. QED  BY <1>1, <3>1, <3>2
  <2>. QED  BY <1>1, <2>2, WriteNeverRestores DEF Current
<1>8. SpoilInv'
  <2>1. SUFFICES ASSUME pc \in Reading, NEW c \in 1 .. size,
                        Spoiled(c) \/ store'[file][c] # hash[c]
                 PROVE  store'[path'][c] # hash[c]
    BY DEF IInv, SpoilInv, Spoiled, Current
  <2>2. file \in 1 .. clock /\ c <= pos
    BY <2>1 DEF IInv, FdInv, HashInv, TypeOK, WalkTypeOK
  <2>3. Spoiled(c) \/ store[file][c] # hash[c] => Current[c] # hash[c]
    BY <2>1 DEF IInv, SpoilInv
  <2>4. CASE Current[c] # hash[c]
    BY <1>7, <2>2, <2>4 DEF Current
  <2>5. CASE Current[c] = hash[c]
    <3>1. store[file][c] = hash[c] /\ store'[file][c] # hash[c]
      BY <2>1, <2>3, <2>5
    <3>2. file \in Files => file = path'
      BY <1>2, <3>1
    <3>. QED  BY <2>2, <3>1, <3>2, CaptureFileAssumption
              DEF IInv, TypeOK, FileTypeOK, Files
  <2>. QED  BY <2>4, <2>5
<1>9. RehashInv'
  <2>1. CASE pc = "rehash"
    <3>1. \A c \in 1 .. size : c <= pos
      BY <2>1 DEF IInv, HashInv, Reading, TypeOK, WalkTypeOK
    <3>2. rfd \in 1 .. clock
      BY <2>1 DEF IInv, FdInv
    <3>. QED  BY <1>7, <2>1, <3>1, <3>2 DEF IInv, RehashInv, Spoiled
  <2>2. CASE pc # "rehash"
    BY <2>2 DEF IInv, RehashInv, Spoiled
  <2>. QED  BY <2>1, <2>2
<1>. QED  BY <1>0, <1>3, <1>4, <1>5, <1>6, <1>8, <1>9, <1>10 DEF IInv

LEMMA NextIInv == IInv /\ [Next]_vars => IInv'
<1>. SUFFICES ASSUME IInv, [Next]_vars PROVE IInv'
  OBVIOUS
<1>1. CASE Command
  BY <1>1, OpenIInv, WindowIInv, SelectIInv, MoveIInv, OpenFileIInv, SampleIInv,
     RecheckIInv DEF Command
<1>2. CASE Writers
  BY <1>2, WritersIInv
<1>3. CASE UNCHANGED vars
  <2>0. /\ Found' = Found /\ Slots' = Slots /\ UNCHANGED <<ahead, count, selected>>
        /\ KeptInv' /\ UNCHANGED vars
    BY <1>3, SameFound DEF vars, IInv
  <2>. USE <1>3 DEF vars, fileVars, walkVars, recheckVars, readVars, IInv
  <2>1. TypeOK' /\ FileInv'
    BY <2>0 DEF TypeOK, FileTypeOK, WalkTypeOK, KlassTypeOK, FileInv
  <2>2. FdInv' /\ HashInv' /\ SumInv' /\ MetInv' /\ SlotInv' /\ DateInv'
    BY <2>0 DEF FdInv, HashInv, SumInv, MetInv, SlotInv, DateInv
  <2>3. SpoilInv' /\ RehashInv' /\ PairInv'
    BY <2>0, WitnessKept DEF SpoilInv, RehashInv, Spoiled, Current, PairInv, Lowest
  <2>. QED  BY <2>0, <2>1, <2>2, <2>3
<1>. QED  BY <1>1, <1>2, <1>3 DEF Next

LEMMA VerifyIInv == Spec => []IInv
BY InitIInv, NextIInv, PTL DEF Spec

(* Indexes, counters and descriptors stay in range (raw_strings.rs:        *)
(* verify, walk_klass, recheck).                                           *)
THEOREM VerifyTypes == Spec => []TypeOK
<1>1. IInv => TypeOK
  BY DEF IInv
<1>. QED  BY <1>1, VerifyIInv, PTL

(* A report is only completed if the capture of its instant is the one the *)
(* digest is of, from beginning to end.                                    *)
LEMMA WholeDigest == IInv /\ pc = "complete" => hash = snapshot
<1>. SUFFICES ASSUME IInv, pc = "complete" PROVE hash = snapshot
  OBVIOUS
<1>1. /\ hash \in Contents /\ snapshot \in Contents /\ size \in 0 .. MaxChunks
      /\ Size(snapshot) = size /\ pos = size
  BY DEF IInv, TypeOK, WalkTypeOK, DateInv, Dated, HashInv
<1>2. \A c \in 1 .. size : c \in Chunks /\ snapshot[c] = hash[c] /\ hash[c] # Absent
  BY <1>1, CaptureFileAssumption DEF IInv, RehashInv, Spoiled, Dated, HashInv, Chunks
<1>3. \A c \in Chunks : snapshot[c] # Absent <=> c \in 1 .. size
  BY <1>1, <1>2, WholeContent
<1>4. \A c \in Chunks : hash[c] # Absent <=> c \in 1 .. size
  BY <1>1 DEF IInv, HashInv, Chunks
<1>5. \A c \in Chunks : hash[c] = snapshot[c]
  BY <1>2, <1>3, <1>4
<1>. QED  BY <1>1, <1>5 DEF Contents

(* ... and a pair was a String header in it.                               *)
LEMMA PairsAreHeaders ==
  ASSUME IInv, pc = "complete", NEW s \in pairs
  PROVE  selected[s] \in Headers("String", hash)
<1>. DEFINE p == selected[s]
<1>1. p \in Places
  BY DEF IInv, TypeOK, Slots
<1>2. Fits(p)
  BY DEF IInv, PairInv, Witnessed
<1>3. PICK content \in Contents :
        /\ Bytes(content, p) \in IsHeader["String"][p]
        /\ \A c \in Touched(p) : [chunk |-> c, ver |-> content[c]] \in evidence
  BY DEF IInv, PairInv, Witnessed
<1>4. \A c \in Touched(p) : content[c] = hash[c]
  BY <1>2, <1>3 DEF IInv, RehashInv, Spoiled, Fits
<1>5. Bytes(content, p) = Bytes(hash, p)
  BY <1>1, <1>4, ChunksOf DEF Bytes
<1>. QED  BY <1>1, <1>2, <1>3, <1>5 DEF Headers

(* A completed verify-bindings report describes one instant of the capture, *)
(* whatever the writers do meanwhile; and its population is that of this    *)
(* instant unless a window judged a header by bytes that were others when   *)
(* they were hashed (raw_strings.rs: walk_klass, verify, recheck).         *)
THEOREM VerifySnapshot == Spec => []ReportIsOneSnapshot
<1>1. IInv => ReportIsOneSnapshot
  <2>1. SUFFICES ASSUME IInv, pc = "complete"
                 PROVE  /\ hash = snapshot
                        /\ \A fact \in evidence : hash[fact.chunk] = fact.ver
                        /\ \A s \in pairs : selected[s] \in Headers("String", hash)
                        /\ OverlapsHashed => count = Cardinality(Headers("String", hash))
    BY DEF ReportIsOneSnapshot
  <2>2. \A fact \in evidence : hash[fact.chunk] = fact.ver
    BY <2>1 DEF IInv, RehashInv, SpoilInv, Spoiled
  <2>3. count = Cardinality(Found)
    BY <2>1, FS_EmptySet, PlaceSets DEF IInv, MetInv, TypeOK, KlassTypeOK
  <2>4. OverlapsHashed => Found = Headers("String", hash)
    BY <2>1, MetAll DEF IInv, HashInv
  <2>. QED  BY <2>1, <2>2, <2>3, <2>4, WholeDigest, PairsAreHeaders
<1>. QED  BY <1>1, VerifyIInv, PTL

(* No header that a window shows is lost or met twice, wherever the chunks  *)
(* meet; the reservoir keeps different ones of them, as many as it may; and *)
(* each of these is counted once (raw_strings.rs: walk_klass, verify).     *)
THEOREM VerifyAccounts == Spec => []SamplesAccountedFor
<1>1. IInv => SamplesAccountedFor
  <2>1. SUFFICES ASSUME IInv, pc \in Judged
                 PROVE  /\ count = Cardinality(Found)
                        /\ Len(selected) = IF count < Samples THEN count ELSE Samples
                        /\ \A s \in Slots : selected[s] \in Found
                        /\ \A s, t \in Slots : selected[s] = selected[t] => s = t
                        /\ pairs \cup rejected = Slots /\ pairs \cap rejected = {}
    BY DEF SamplesAccountedFor, Judged, Found
  <2>2. count = Cardinality(Found)
    BY <2>1, FS_EmptySet, PlaceSets DEF IInv, MetInv, TypeOK, KlassTypeOK, Judged
  <2>. QED  BY <2>1, <2>2 DEF IInv, KeptInv, SlotInv, Judged, Reading
<1>. QED  BY <1>1, VerifyIInv, PTL

(* -- refinement --------------------------------------------------------- *)

LEMMA SameEdit == Edit => Report!Edit
<1>1. /\ Report!Current = Current
      /\ Report!Chunks = Chunks
      /\ Report!Absent = Absent
      /\ Report!Present(Current) = Present(Current)
      /\ Report!Size(Current) = Size(Current)
  <2>1. /\ Report!Current = Current
        /\ Report!Chunks = Chunks
        /\ Report!Absent = Absent
    BY DEF Report!Current, Current, Report!Chunks, Chunks, Report!Absent, Absent
  <2>2. Report!Present(Current) = Present(Current)
    BY <2>1 DEF Report!Present, Present
  <2>3. Report!Size(Current) = Size(Current)
    BY <2>2 DEF Report!Size, Size, Cardinality, Report!Cardinality
  <2>. QED  BY <2>1, <2>2, <2>3
<1>2. Report!InPlace(Current, clock + 1) = InPlace(Current, clock + 1)
  <2>1. /\ Report!Overwrites(Current, clock + 1) = Overwrites(Current, clock + 1)
        /\ Report!Truncations(Current) = Truncations(Current)
        /\ Report!Appends(Current, clock + 1) = Appends(Current, clock + 1)
    BY <1>1 DEF Overwrites, Report!Overwrites, Truncations, Report!Truncations,
                Appends, Report!Appends, Prefix, Report!Prefix
  <2>. QED  BY <2>1 DEF InPlace, Report!InPlace
<1>3. Report!Copies(Current, clock + 1) = Copies(Current, clock + 1)
  BY <1>1 DEF Copies, Report!Copies, Copy, Report!Copy
<1>4. Rewrite => Report!Rewrite
  BY <1>1, <1>2 DEF Rewrite, Report!Rewrite
<1>5. Replace => Report!Replace
  BY <1>1, <1>3 DEF Replace, Report!Replace
<1>. QED  BY <1>4, <1>5 DEF Edit, Report!Edit

LEMMA RefinesInit == Init => Report!Init
BY DEF Init, Report!Init, FileInit, Report!FileInit, Ended, Report!Nothing,
       Files, Report!Files, Chunks, Report!Chunks, Absent, Report!Absent,
       Original, Report!Original

(* What the report publishes is true of the snapshot.                      *)
Truthful ==
  /\ hash \in Report!Contents
  /\ Report!DigestOf(hash, snapshot)
  /\ evidence \in SUBSET {f \in Report!Facts : Report!True(f, snapshot)}

LEMMA CompleteIsTrue == IInv /\ pc = "complete" => Truthful
<1>. SUFFICES ASSUME IInv, pc = "complete" PROVE Truthful
  OBVIOUS
<1>1. \A c \in 1 .. size : ~ Spoiled(c)
  BY DEF IInv, RehashInv
<1>2. hash = snapshot
  BY WholeDigest
<1>3. \A f \in evidence : f \in Facts /\ f.chunk \in 1 .. size
  BY DEF IInv, SpoilInv, TypeOK
<1>4. Report!DigestOf(hash, snapshot)
  BY <1>2 DEF Report!DigestOf
<1>5. \A f \in evidence : f \in Report!Facts /\ Report!True(f, snapshot)
  <2>1. \A f \in evidence : snapshot[f.chunk] = f.ver
    BY <1>1, <1>2, <1>3 DEF Spoiled
  <2>. QED  BY <1>3, <2>1 DEF Report!True, Facts, Report!Facts, Chunks, Report!Chunks,
                    Versions, Report!Versions
<1>. QED  BY <1>4, <1>5 DEF Truthful, IInv, TypeOK, WalkTypeOK, Contents, Report!Contents,
             Chunks, Report!Chunks, Versions, Report!Versions

LEMMA RefinesNext ==
  IInv /\ [Next]_vars => [Report!Next]_<<Report!fileVars, Report!reportVars>>
<1>. SUFFICES ASSUME IInv, [Next]_vars
              PROVE  [Report!Next]_<<Report!fileVars, Report!reportVars>>
  OBVIOUS
<1>0. IInv'
  BY NextIInv
<1>. USE DEF Report!fileVars, Report!reportVars, fileVars, Ended
(* A step that neither takes the length, nor ends, nor edits is a stutter. *)
<1>1. ASSUME UNCHANGED <<fileVars, snapshot>>, ~ Ended, ~ Ended'
      PROVE  UNCHANGED <<Report!fileVars, Report!reportVars>>
  BY <1>1
<1>2. ASSUME UNCHANGED <<fileVars, snapshot>>, ~ Ended, pc' = "failed"
      PROVE  Report!Abandon
  BY <1>2 DEF Report!Abandon
<1>3. CASE Open \/ Window \/ Select \/ NoMoreHeaders \/ WalkDone \/ OpenFile
           \/ StartSample \/ SamplesDone
  BY <1>1, <1>3 DEF Open, WalkOpen, Window, KlassWindow, WalkWindow, Select, Visit,
       NoMoreHeaders, WindowDone, WalkDone, WalkEnd, OpenFile, StartSample, SamplesDone,
       readVars
<1>4. CASE ReadHeader \/ ReadArray \/ ReadPayload \/ RejectUnread
  BY <1>1, <1>4 DEF ReadHeader, ReadArray, ReadPayload, RejectUnread, FinishSample
<1>5. CASE TakeLength
  <2>1. /\ pc = "recheck" /\ UNCHANGED <<fileVars, evidence>>
        /\ \/ pc' = "reopen" /\ snapshot' = Current
           \/ pc' = "failed" /\ snapshot' = snapshot
    BY <1>5 DEF TakeLength, RecheckSize
  <2>2. snapshot = Report!Nothing
    BY <2>1 DEF IInv, DateInv, Dated, Report!Nothing, Chunks, Report!Chunks,
                Absent, Report!Absent
  <2>3. pc' = "reopen" /\ snapshot' = Current => Report!Snap
    BY <2>1, <2>2 DEF Report!Snap, Current, Report!Current
  <2>. QED  BY <1>2, <2>1, <2>3 DEF Report!Next
<1>6. CASE Fail
  BY <1>2, <1>6 DEF Fail, Abort, readVars, Report!Next
<1>7. CASE (RecheckOpen \/ RehashChunk \/ RecheckVerdict("complete")) /\ UNCHANGED readVars
  <2>1. UNCHANGED <<fileVars, snapshot, evidence, hash>> /\ ~ Ended
    BY <1>7 DEF RecheckOpen, RehashChunk, RecheckVerdict, readVars, walkVars
  <2>2. CASE pc' = "complete"
    <3>1. (IInv /\ pc = "complete" => Truthful)'
      BY CompleteIsTrue, PTL
    <3>2. Report!Publish
      BY <1>0, <2>1, <2>2, <3>1 DEF Report!Publish, Truthful, Report!DigestOf, Report!True,
         Report!Contents, Report!Facts, Report!Chunks, Report!Versions, Report!Absent
    <3>. QED  BY <3>2 DEF Report!Next
  <2>3. CASE pc' = "failed"
    BY <1>2, <2>1, <2>3 DEF Report!Next
  <2>4. CASE pc' \notin {"complete", "failed"}
    BY <1>1, <2>1, <2>4
  <2>. QED  BY <2>2, <2>3, <2>4
<1>8. CASE Writers
  <2>1. Report!Edit /\ UNCHANGED Report!reportVars
    BY <1>8, SameEdit DEF Writers, walkVars, readVars
  <2>. QED  BY <2>1 DEF Report!Next
<1>9. CASE UNCHANGED vars
  BY <1>9 DEF vars, readVars, walkVars
<1>. QED  BY <1>3, <1>4, <1>5, <1>6, <1>7, <1>8, <1>9 DEF Next, Command, Recheck

(* verify-bindings is a correct checksummed report: whatever it completes  *)
(* with was read from one state the capture was in (raw_strings.rs: verify, *)
(* walk_klass, recheck).                                                   *)
THEOREM VerifyImplementsReport == Spec => ImplementsSnapshotReport
BY VerifyIInv, RefinesInit, RefinesNext, PTL DEF Spec, Report!Spec, ImplementsSnapshotReport
================================================================================
