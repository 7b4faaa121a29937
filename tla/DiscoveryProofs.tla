----------------------------- MODULE DiscoveryProofs -----------------------------
(* The discovery of bindings: its types, that what it publishes was read   *)
(* from the capture the scan hashed, and that it is what the samples of    *)
(* that capture support, for every capture, every layout of places, every  *)
(* choice of samples, every set of hypotheses and every limit.  And the    *)
(* references it follows: that they are decoded, and lead where they are   *)
(* mapped, for every maps.txt and every word.                              *)
EXTENDS Discovery, References, CaptureContentProofs, FunctionTheorems, WellFoundedInduction

Walking   == {"open", "walk", "discover"}
Sampling  == {"sample", "array", "payload"}
InStrings == {"model"} \cup Sampling
InNodes   == {"nodeGroup", "node", "string", "nodeArray", "nodePayload", "next"}
Searching == {"group", "anchor"} \cup InStrings \cup InNodes
Reading   == Searching \cup {"reopen", "rehash"}

(* -- what the invariant says of the capture ------------------------------------ *)

(* The descriptors in use are of files that exist.                         *)
FdInv ==
  /\ file \in Files \cup {NoFile}
  /\ pc \notin {"open", "failed"} => fd \in 1 .. clock
  /\ pc \in Reading => file \in 1 .. clock
  /\ pc = "rehash" => rfd \in 1 .. clock

(* The hash covers the chunks up to `pos' and nothing else; the gaps that  *)
(* are listed end at places.                                               *)
HashInv ==
  /\ pc = "open" => pos = 0
  /\ pc \in {"discover", "complete"} \cup Reading => pos = size
  /\ \A c \in Chunks : hash[c] <= clock /\ (c <= pos <=> hash[c] # Absent)
  /\ examples \subseteq Places

(* The rehash covers the chunks up to `rpos'.                              *)
SumInv ==
  /\ pc \notin {"rehash", "complete", "failed"} => rpos = 0
  /\ \A c \in Chunks : c > rpos => rsum[c] = Absent

(* Something was read of the chunk that is not what the scan hashed.       *)
Spoiled(c) == \E fact \in facts : fact.chunk = c /\ fact.ver # hash[c]

(* Once a chunk is spoiled the path no longer has what was hashed of it.   *)
SpoilInv ==
  /\ facts \subseteq Facts
  /\ pc \in Walking => facts = {}
  /\ \A fact \in facts : fact.chunk \in 1 .. size
  /\ pc \in Reading =>
       \A c \in 1 .. size :
         Spoiled(c) \/ store[file][c] # hash[c] => Current[c] # hash[c]

(* ... and the file that the rehash opened never will.                     *)
RehashInv ==
  /\ pc = "rehash" =>
       \A c \in 1 .. size :
         Spoiled(c) => /\ store[rfd][c] # hash[c]
                       /\ c <= rpos => rsum[c] # hash[c]
  /\ pc = "complete" => \A c \in 1 .. size : ~ Spoiled(c)

CaptureInv ==
  /\ FileTypeOK /\ WalkTypeOK /\ pc \in PCs
  /\ FileInv
  /\ FdInv
  /\ HashInv
  /\ SumInv
  /\ SpoilInv
  /\ RehashInv

(* -- what it says of the search -------------------------------------------------- *)

(* What the scan leaves behind, and no step after it changes.               *)
scanVars == <<size, hash, overlap, examples>>

(* The places of the capture that was scanned.                             *)
Here == {p \in Places : InFile(p)}

SearchTypes ==
  /\ todo \subseteq Klasses /\ klass \in Klasses \cup {NoKlass}
  /\ model \in 1 .. NumModels + 1
  /\ left \subseteq Here
  /\ hand \in Hands
  /\ eligible \in 0 .. Cardinality(Places)
  /\ IsFiniteSet(evidence)
  /\ proposals \subseteq Proposals /\ IsFiniteSet(proposals)
  /\ anchors \subseteq proposals
  /\ anchor \in Proposals \cup {NoAnchor}

(* What is in hand at each control point.                                  *)
PhaseInv ==
  /\ pc \in Walking => left = {} /\ proposals = {}
  /\ pc \in InStrings => klass \in Klasses /\ klass \notin todo
  /\ pc \in Sampling => model <= NumModels /\ eligible + Cardinality(left) <= Cardinality(Places)
  /\ pc \in {"array", "payload", "nodeArray", "nodePayload"} => hand.array \in Here
  /\ pc \in {"string", "nodeArray", "nodePayload"} => hand.string \in Here
  /\ pc \in InNodes => anchor \in Proposals

(* A binding is proposed once: groups and hypotheses come in turn.  So the *)
(* order of the report never leaves open which of two comes first.         *)
Once(set) ==
  \A p, q \in set :
    p.string = q.string /\ p.array = q.array /\ p.model = q.model => p = q
OnceInv ==
  /\ Once(proposals)
  /\ pc \in {"group"} \cup InStrings => \A p \in proposals : p.string \notin todo
  /\ pc \in InStrings => \A p \in proposals : p.string = klass => p.model < model

IInv == CaptureInv /\ SearchTypes /\ PhaseInv /\ OnceInv

(* -- what comes first ------------------------------------------------------------ *)

LEMMA NatLeast ==
  ASSUME NEW S \in SUBSET Nat, S # {}
  PROVE  \E x \in S : \A y \in S : x <= y
<1>1. PICK x \in S : \A y \in S : ~ (<<y, x>> \in OpToRel(<, Nat))
  BY WFMin, NatLessThanWellFounded
<1>2. \A y \in S : ~ (y < x)
  BY <1>1 DEF OpToRel
<1>. QED  BY <1>2

(* A finite set that is ordered has an element before all the others: the  *)
(* one with the fewest before it.                                          *)
LEMMA FirstOf ==
  ASSUME NEW S, IsFiniteSet(S), S # {}, NEW R,
         \A p \in S : <<p, p>> \notin R,
         \A p, q, r \in S : <<p, q>> \in R /\ <<q, r>> \in R => <<p, r>> \in R,
         \A p, q \in S : p # q => <<p, q>> \in R \/ <<q, p>> \in R
  PROVE  \E p \in S : \A q \in S \ {p} : <<p, q>> \in R
<1>. DEFINE Pred(p) == {q \in S : <<q, p>> \in R}
            Counts == {Cardinality(Pred(p)) : p \in S}
<1>1. \A p \in S : IsFiniteSet(Pred(p)) /\ Cardinality(Pred(p)) \in Nat
  BY FS_Subset, FS_CardinalityType
<1>2. PICK p \in S : \A q \in S : Cardinality(Pred(p)) <= Cardinality(Pred(q))
  <2>. HIDE DEF Pred
  <2>1. Counts \in SUBSET Nat /\ Counts # {}
    BY <1>1
  <2>2. PICK n \in Counts : \A m \in Counts : n <= m
    BY <2>1, NatLeast
  <2>. QED  BY <2>2
<1>3. ASSUME NEW q \in S, <<q, p>> \in R
      PROVE  FALSE
  <2>1. q \in Pred(p) /\ Pred(q) \subseteq Pred(p) \ {q}
    BY <1>3
  <2>2. /\ IsFiniteSet(Pred(p) \ {q})
        /\ Cardinality(Pred(p) \ {q}) = Cardinality(Pred(p)) - 1
    BY <1>1, <2>1, FS_RemoveElement
  <2>3. Cardinality(Pred(q)) <= Cardinality(Pred(p) \ {q})
    BY <2>1, <2>2, FS_Subset
  <2>4. Cardinality(Pred(p)) \in Nat /\ Cardinality(Pred(q)) \in Nat
    BY <1>1
  <2>. HIDE DEF Pred
  <2>. QED  BY <1>2, <2>2, <2>3, <2>4
<1>. QED  BY <1>3

(* The places of the capture, the members of a group, its hits and those   *)
(* that are followed.                                                      *)
LEMMA PlacesFinite ==
  /\ Places \subseteq Nat /\ IsFiniteSet(Places) /\ Cardinality(Places) \in Nat
  /\ IsFiniteSet(Here) /\ IsFiniteSet(Klasses)
  /\ \A k \in Klasses : Group(k) \subseteq Places /\ Hits(k) \in Nat
  /\ \A k \in Klasses : Sampled(k) \subseteq Here /\ Sampled(k) \subseteq Group(k)
<1>1. Places \subseteq Nat /\ IsFiniteSet(Places) /\ IsFiniteSet(Klasses)
  BY PlacesAssumption, DiscoveryAssumption
<1>2. Here \subseteq Places
  BY DEF Here
<1>3. \A k \in Klasses : Group(k) \subseteq Places
  BY DEF Group
<1>4. \A k \in Klasses : IsFiniteSet(Group(k))
  BY <1>1, <1>3, FS_Subset
<1>5. \A k \in Klasses : Sampled(k) \subseteq Group(k) /\ Sampled(k) \subseteq Here
  BY <1>3 DEF Sampled, Sample, Here
<1>. QED  BY <1>1, <1>2, <1>3, <1>4, <1>5, FS_Subset, FS_CardinalityType DEF Hits

LEMMA FirstGroupType ==
  ASSUME todo \subseteq Klasses, todo # {}
  PROVE  FirstGroup \in todo
<1>. DEFINE R == {p \in Klasses \X Klasses : GroupBefore(p[1], p[2])}
<1>1. IsFiniteSet(todo) /\ \A k \in todo : k \in Nat /\ Hits(k) \in Nat
  BY PlacesFinite, DiscoveryAssumption, FS_Subset
<1>2. \A j, k \in todo : <<j, k>> \in R <=> GroupBefore(j, k)
  OBVIOUS
<1>. HIDE DEF R
<1>3. \E k \in todo : \A j \in todo \ {k} : <<k, j>> \in R
  <2>1. \A p \in todo : <<p, p>> \notin R
    BY <1>1, <1>2 DEF GroupBefore
  <2>2. \A p, q, r \in todo : <<p, q>> \in R /\ <<q, r>> \in R => <<p, r>> \in R
    BY <1>1, <1>2 DEF GroupBefore
  <2>3. \A p, q \in todo : p # q => <<p, q>> \in R \/ <<q, p>> \in R
    BY <1>1, <1>2 DEF GroupBefore
  <2>. QED  BY <1>1, <2>1, <2>2, <2>3, FirstOf
<1>4. \E k \in todo : \A j \in todo \ {k} : GroupBefore(k, j)
  BY <1>2, <1>3
<1>. QED  BY <1>4 DEF FirstGroup

LEMMA LowestType ==
  ASSUME left \subseteq Here, left # {}
  PROVE  Lowest \in left
<1>1. \E p \in left : \A q \in left : p <= q
  BY NatLeast, PlacesFinite DEF Here
<1>. QED  BY <1>1 DEF Lowest

(* The order of the report is one, if no binding was proposed twice.       *)
LEMMA FirstAhead ==
  ASSUME NEW S, S \subseteq Proposals, IsFiniteSet(S), S # {}, Once(S)
  PROVE  \E p \in S : \A q \in S \ {p} : Ahead(p, q)
<1>. DEFINE R == {p \in S \X S : Ahead(p[1], p[2])}
<1>1. \A p \in S :
        /\ p.matches \in Nat /\ p.model \in Nat /\ p.array \in Nat /\ p.string \in Nat
        /\ Hits(p.string) \in Nat
  <2>1. ASSUME NEW p \in S
        PROVE  p.matches \in Nat /\ p.model \in Models /\ p.array \in Klasses /\ p.string \in Klasses
    BY DEF Proposals
  <2>2. Klasses \subseteq Nat /\ Models \subseteq Nat /\ \A k \in Klasses : Hits(k) \in Nat
    BY PlacesFinite, DiscoveryAssumption DEF Models
  <2>. QED  BY <2>1, <2>2
<1>2. \A j, k \in S : <<j, k>> \in R <=> Ahead(j, k)
  OBVIOUS
<1>. HIDE DEF R
<1>3. \A p \in S : <<p, p>> \notin R
  BY <1>1, <1>2 DEF Ahead, GroupBefore
<1>4. \A p, q, r \in S : <<p, q>> \in R /\ <<q, r>> \in R => <<p, r>> \in R
  BY <1>1, <1>2 DEF Ahead, GroupBefore
<1>5. \A p, q \in S : p # q => <<p, q>> \in R \/ <<q, p>> \in R
  BY <1>1, <1>2 DEF Ahead, GroupBefore, Once
<1>6. \E p \in S : \A q \in S \ {p} : <<p, q>> \in R
  BY <1>3, <1>4, <1>5, FirstOf
<1>. QED  BY <1>2, <1>6

LEMMA NextAnchorType ==
  ASSUME anchors \subseteq proposals, proposals \subseteq Proposals, IsFiniteSet(proposals),
         anchors # {}, Once(proposals)
  PROVE  (CHOOSE p \in anchors : \A q \in anchors \ {p} : Ahead(p, q)) \in anchors
<1>1. IsFiniteSet(anchors) /\ anchors \subseteq Proposals /\ Once(anchors)
  BY FS_Subset DEF Once
<1>2. \E p \in anchors : \A q \in anchors \ {p} : Ahead(p, q)
  BY <1>1, FirstAhead
<1>. QED  BY <1>2

(* -- the steps outside the search -------------------------------------------------- *)

SearchInv == SearchTypes /\ PhaseInv /\ OnceInv

LEMMA InitIInv == Init => IInv
<1>. SUFFICES ASSUME Init PROVE IInv
  OBVIOUS
<1>. USE CaptureFileAssumption, DiscoveryAssumption DEF Init, WalkInit
<1>1. FileTypeOK /\ FileInv
  BY FirstFile DEF FileInit, FileInv, FileTypeOK, WellFormed, Files
<1>2. WalkTypeOK /\ pc \in PCs
  BY DEF WalkTypeOK, PCs, NoFile, Contents, Chunks, Versions, Absent
<1>3. FdInv /\ HashInv /\ SumInv /\ SpoilInv /\ RehashInv
  BY <1>1 DEF FdInv, HashInv, SumInv, SpoilInv, RehashInv, Spoiled, Reading, Searching, InStrings,
              InNodes, Sampling, Walking, FileInv, FileTypeOK, Files, Chunks, Absent
<1>4. SearchTypes
  <2>1. NoHand \in Hands
    BY DEF NoHand, Hands, Nowhere, NoKlass
  <2>2. 0 \in 0 .. Cardinality(Places) /\ 1 \in 1 .. NumModels + 1
    BY PlacesFinite
  <2>. QED  BY <2>1, <2>2, FS_EmptySet DEF SearchTypes, NoKlass, NoAnchor
<1>5. PhaseInv /\ OnceInv
  BY DEF PhaseInv, OnceInv, Once, InStrings, InNodes, Sampling, Walking
<1>. QED  BY <1>1, <1>2, <1>3, <1>4, <1>5 DEF IInv, CaptureInv

(* A step that leaves the search alone, at the same control point, before  *)
(* it or after it.                                                          *)
LEMMA SearchRests ==
  ASSUME SearchInv, UNCHANGED <<searchVars, reportVars>>,
         \/ pc' = pc /\ UNCHANGED size
         \/ pc' \in {"reopen", "rehash", "complete", "failed"} /\ UNCHANGED size
         \/ pc \in Walking /\ pc' \in Walking
  PROVE  SearchInv'
<1>. USE DEF SearchInv, searchVars, reportVars
<1>1. SearchTypes'
  BY DEF SearchTypes, PhaseInv, Here, InFile, Fits, Hands, Proposals
<1>2. PhaseInv' /\ OnceInv'
  BY DEF PhaseInv, OnceInv, Once, InStrings, InNodes, Sampling, Walking, Here, InFile, Fits
<1>. QED  BY <1>1, <1>2

LEMMA ScanIInv == IInv /\ Scan => IInv'
<1>. SUFFICES ASSUME IInv, Scan PROVE IInv'
  OBVIOUS
<1>. USE CaptureFileAssumption DEF Scan, readVars, fileVars, CaptureInv
<1>1. CaptureInv /\ SearchInv /\ pc \in Walking /\ pc' \in Walking
  BY DEF IInv, SearchInv, WalkOpen, WalkWindow, WalkEnd, Walking
<1>2. SearchInv'
  BY <1>1, SearchRests
<1>3. CASE WalkOpen("open", "walk") /\ UNCHANGED examples
  <2>. USE <1>1, <1>3 DEF WalkOpen, recheckVars
  <2>1. Size(Current) \in 0 .. MaxChunks
    BY SizeType DEF FileTypeOK, Current
  <2>2. FileTypeOK' /\ WalkTypeOK' /\ pc' \in PCs
    BY <2>1 DEF FileTypeOK, WalkTypeOK, HashInv, PCs
  <2>3. FileInv' /\ FdInv' /\ HashInv' /\ SumInv'
    BY DEF FileInv, WellFormed, FdInv, HashInv, SumInv, FileTypeOK, Files, Reading, Searching, InStrings,
           InNodes, Sampling
  <2>4. SpoilInv' /\ RehashInv'
    BY DEF SpoilInv, RehashInv, Walking, Reading, Searching, InStrings, InNodes, Sampling
  <2>. QED  BY <1>2, <2>2, <2>3, <2>4 DEF IInv, SearchInv
<1>4. CASE WalkWindow("walk", "walk") /\ UNCHANGED examples
  <2>. USE <1>1, <1>4 DEF WalkWindow, recheckVars
  <2>1. /\ fd \in Files
        /\ pos + 1 \in Chunks
        /\ store[fd][pos + 1] \in Versions
        /\ store[fd][pos + 1] <= clock
        /\ store[fd][pos + 1] # Absent
        /\ store[fd] \in Contents
    BY DEF FileTypeOK, WalkTypeOK, FileInv, WellFormed, FdInv, Files, Chunks, Contents, InWindow
  <2>2. FileTypeOK' /\ WalkTypeOK' /\ pc' \in PCs
    <3>1. hash' \in Contents /\ overlap' \in Contents
      BY <2>1 DEF WalkTypeOK, Contents, Chunks, Overlapped
    <3>2. pos' \in 0 .. size
      BY DEF WalkTypeOK
    <3>. QED  BY <3>1, <3>2 DEF FileTypeOK, WalkTypeOK, PCs
  <2>3. HashInv'
    <3>1. \A c \in Chunks : hash'[c] = IF c = pos + 1 THEN store[fd][pos + 1] ELSE hash[c]
      BY <2>1 DEF WalkTypeOK, Contents
    <3>2. /\ pos \in Nat /\ clock \in Nat
          /\ \A c \in Chunks : hash[c] <= clock /\ (c <= pos <=> hash[c] # Absent)
      BY DEF WalkTypeOK, HashInv, FileTypeOK, Files
    <3>3. \A c \in Chunks : hash'[c] <= clock /\ (c <= pos + 1 <=> hash'[c] # Absent)
      BY <2>1, <3>1, <3>2 DEF Chunks
    <3>. QED  BY <3>3 DEF HashInv, Reading, Searching, InStrings, InNodes, Sampling
  <2>4. FileInv' /\ FdInv' /\ SumInv'
    BY DEF FileInv, FdInv, SumInv, Reading, Searching, InStrings, InNodes, Sampling
  <2>5. SpoilInv' /\ RehashInv'
    BY DEF SpoilInv, RehashInv, Walking, Reading, Searching, InStrings, InNodes, Sampling
  <2>. QED  BY <1>2, <2>2, <2>3, <2>4, <2>5 DEF IInv, SearchInv
<1>5. CASE WalkEnd("walk", "discover") /\ examples' \in SUBSET UNION {Ends(k) : k \in Groups}
  <2>. USE <1>1, <1>5 DEF WalkEnd, walkVars, recheckVars
  <2>1. FileTypeOK' /\ WalkTypeOK' /\ pc' \in PCs
    BY DEF FileTypeOK, WalkTypeOK, PCs
  <2>2. examples' \subseteq Places
    BY DEF Ends, Group
  <2>3. FileInv' /\ FdInv' /\ HashInv' /\ SumInv'
    BY <2>2 DEF FileInv, FdInv, HashInv, SumInv, Reading, Searching, InStrings, InNodes, Sampling
  <2>4. SpoilInv' /\ RehashInv'
    BY DEF SpoilInv, RehashInv, Walking, Reading, Searching, InStrings, InNodes, Sampling
  <2>. QED  BY <1>2, <2>1, <2>3, <2>4 DEF IInv, SearchInv
<1>. QED  BY <1>3, <1>4, <1>5

LEMMA OpenFileIInv == IInv /\ OpenFile => IInv'
<1>. SUFFICES ASSUME IInv, OpenFile PROVE IInv'
  OBVIOUS
<1>. USE CaptureFileAssumption
     DEF OpenFile, captureVars, indexVars, walkVars, recheckVars, fileVars, reportVars, IInv, CaptureInv
<1>1. FileTypeOK' /\ WalkTypeOK' /\ pc' \in PCs
  BY DEF FileTypeOK, WalkTypeOK, PCs
<1>2. FileInv' /\ FdInv' /\ HashInv' /\ SumInv'
  BY DEF FileInv, WellFormed, FdInv, HashInv, SumInv, Reading, Searching, FileTypeOK, Files, InStrings,
         InNodes, Sampling
<1>3. SpoilInv' /\ RehashInv'
  BY DEF SpoilInv, RehashInv, Spoiled, Current, Walking
<1>4. SearchTypes'
  BY DEF SearchTypes, TopGroups, Searchable, Groups, Here, InFile, Fits
<1>5. PhaseInv' /\ OnceInv'
  BY DEF PhaseInv, OnceInv, Once, InStrings, InNodes, Sampling, Walking
<1>. QED  BY <1>1, <1>2, <1>3, <1>4, <1>5


LEMMA RehashIInv == IInv /\ Rehash => IInv'
<1>. SUFFICES ASSUME IInv, Rehash PROVE IInv'
  OBVIOUS
<1>. USE CaptureFileAssumption
     DEF Rehash, walkVars, fileVars, readVars, IInv, CaptureInv
<1>1. SearchInv'
  <2>1. /\ SearchInv /\ UNCHANGED <<searchVars, reportVars, size>>
        /\ pc' \in {"reopen", "rehash", "complete", "failed"}
    BY DEF RecheckOpen, RehashChunk, RecheckVerdict, SearchInv
  <2>. QED  BY <2>1, SearchRests
<1>2. CASE RecheckOpen
  <2>. USE <1>2 DEF RecheckOpen
  <2>1. FileTypeOK' /\ WalkTypeOK' /\ pc' \in PCs
    BY DEF FileTypeOK, WalkTypeOK, PCs
  <2>2. FileInv' /\ FdInv' /\ HashInv' /\ SumInv'
    BY DEF FileInv, WellFormed, FdInv, HashInv, SumInv, Reading, FileTypeOK, Files
  <2>3. SpoilInv'
    BY DEF SpoilInv, Reading, Searching, InStrings, InNodes, Sampling, Spoiled, Current, Walking
  <2>4. RehashInv'
    BY DEF SpoilInv, SumInv, RehashInv, Reading, Spoiled, Current, WalkTypeOK
  <2>. QED  BY <1>1, <2>1, <2>2, <2>3, <2>4 DEF SearchInv
<1>3. CASE RehashChunk
  <2>. USE <1>3 DEF RehashChunk
  <2>1. /\ rfd \in Files
        /\ rpos + 1 \in Chunks
        /\ store[rfd] \in Contents
    <3>1. rfd \in Files /\ store[rfd] \in Contents
      BY DEF FdInv, FileTypeOK, Files
    <3>2. rpos \in 0 .. MaxChunks /\ rpos # MaxChunks
      BY DEF EndOfFile, WalkTypeOK
    <3>. QED  BY <3>1, <3>2 DEF Chunks
  <2>2. FileTypeOK' /\ WalkTypeOK' /\ pc' \in PCs
    BY <2>1 DEF FileTypeOK, WalkTypeOK, PCs, Contents, Chunks
  <2>3. FileInv' /\ FdInv' /\ HashInv'
    BY <2>1 DEF FileInv, FdInv, HashInv, Reading
  <2>4. SumInv'
    BY <2>1 DEF SumInv, WalkTypeOK, Contents, Chunks
  <2>5. SpoilInv'
    BY DEF SpoilInv, Reading, Spoiled, Current, Walking
  <2>6. \A c \in 1 .. size :
          Spoiled(c) /\ c <= rpos + 1 => rsum'[c] # hash[c]
    BY <2>1 DEF RehashInv, WalkTypeOK, Contents, Chunks
  <2>7. RehashInv'
    BY <2>6 DEF RehashInv, Spoiled
  <2>. QED  BY <1>1, <2>2, <2>3, <2>4, <2>5, <2>7 DEF SearchInv
<1>4. CASE RecheckVerdict("complete")
  <2>. USE <1>4 DEF RecheckVerdict, recheckVars
  <2>1. FileTypeOK' /\ WalkTypeOK' /\ pc' \in PCs
    BY DEF FileTypeOK, WalkTypeOK, PCs
  <2>2. FileInv' /\ FdInv' /\ HashInv' /\ SumInv'
    BY DEF FileInv, FdInv, HashInv, SumInv, Reading, Searching, InStrings, InNodes, Sampling
  <2>3. SpoilInv'
    BY DEF SpoilInv, Reading, Searching, InStrings, InNodes, Sampling, Spoiled, Walking
  <2>4. ASSUME DigestMatches, NEW c \in 1 .. size
        PROVE  ~ Spoiled(c)
    <3>1. c \in Chunks /\ c <= pos /\ c \in Nat /\ rpos \in Nat
      BY DEF HashInv, Reading, WalkTypeOK, Chunks
    <3>2. hash[c] # Absent /\ rsum[c] = hash[c]
      BY <2>4, <3>1 DEF HashInv, DigestMatches
    <3>3. c <= rpos
      BY <3>1, <3>2 DEF SumInv
    <3>. QED  BY <3>2, <3>3 DEF RehashInv
  <2>5. RehashInv'
    BY <2>4 DEF RehashInv, Spoiled
  <2>. QED  BY <1>1, <2>1, <2>2, <2>3, <2>5 DEF SearchInv
<1>. QED  BY <1>2, <1>3, <1>4

LEMMA FailIInv == IInv /\ Fail => IInv'
<1>. SUFFICES ASSUME IInv, Fail PROVE IInv'
  OBVIOUS
<1>. USE DEF Fail, Abort, Ended, walkVars, recheckVars, fileVars, readVars, IInv, CaptureInv
<1>1. SearchInv'
  BY SearchRests DEF SearchInv
<1>2. FileTypeOK' /\ WalkTypeOK' /\ pc' \in PCs
  BY DEF FileTypeOK, WalkTypeOK, PCs
<1>3. FileInv' /\ FdInv' /\ HashInv' /\ SumInv'
  BY DEF FileInv, FdInv, HashInv, SumInv, Reading, Searching, InStrings, InNodes, Sampling
<1>4. SpoilInv' /\ RehashInv'
  BY DEF SpoilInv, RehashInv, Reading, Searching, InStrings, InNodes, Sampling, Walking
<1>. QED  BY <1>1, <1>2, <1>3, <1>4 DEF SearchInv

(* A writer cannot make an old version come back, so a spoiled chunk stays *)
(* one the rehash will find.                                               *)
LEMMA WritersIInv == IInv /\ Writers => IInv'
<1>. SUFFICES ASSUME IInv, Writers PROVE IInv'
  OBVIOUS
<1>. USE DEF Writers, indexVars, walkVars, recheckVars, readVars
<1>1. /\ FileTypeOK /\ WellFormed(path, store, clock)
      /\ clock <= MaxEdits /\ clock' = clock + 1
      /\ clock \in Files /\ clock \in Nat
      /\ Writes(path, store, clock, path', store')
  BY DEF IInv, CaptureInv, FileTypeOK, FileInv, Files, Edit, Rewrite, Replace, Writes, Current
<1>2. /\ WellFormed(path', store', clock + 1) /\ clock + 1 \in Files
      /\ \A f \in Files : f # path' => store'[f] = store[f]
  BY <1>1, WriteChanges
<1>3. FileTypeOK' /\ FileInv'
  BY <1>1, <1>2 DEF FileTypeOK, FileInv, WellFormed
<1>4. WalkTypeOK' /\ pc' \in PCs /\ SearchInv'
  BY SearchRests DEF IInv, CaptureInv, SearchInv, WalkTypeOK
<1>5. FdInv' /\ SumInv'
  BY <1>1 DEF IInv, CaptureInv, FdInv, SumInv, WalkTypeOK, Files
<1>6. HashInv'
  BY <1>1, <1>4
     DEF IInv, CaptureInv, HashInv, WalkTypeOK, Contents, Versions
<1>7. \A c \in 1 .. size : c <= pos =>
        /\ Current[c] # hash[c] => (Current[c] # hash[c])'
        /\ \A f \in 1 .. clock : store[f][c] # hash[c] => (store[f][c] # hash[c])'
  <2>1. SUFFICES ASSUME NEW c \in 1 .. size, c <= pos
                 PROVE  /\ Current[c] # hash[c] => (Current[c] # hash[c])'
                        /\ \A f \in 1 .. clock :
                             store[f][c] # hash[c] => (store[f][c] # hash[c])'
    OBVIOUS
  <2>2. c \in Chunks /\ hash[c] \in 1 .. clock
    <3>1. c \in Chunks
      BY <2>1, CaptureFileAssumption DEF IInv, CaptureInv, WalkTypeOK, Chunks
    <3>2. hash[c] \in Nat /\ hash[c] # 0 /\ hash[c] <= clock
      BY <2>1, <3>1 DEF IInv, CaptureInv, HashInv, WalkTypeOK, Contents, Versions, Absent
    <3>. QED  BY <1>1, <3>1, <3>2
  <2>. QED  BY <1>1, <2>2, WriteNeverRestores DEF Current
<1>8. SpoilInv'
  <2>1. SUFFICES ASSUME pc \in Reading, NEW c \in 1 .. size,
                        Spoiled(c) \/ store'[file][c] # hash[c]
                 PROVE  store'[path'][c] # hash[c]
    BY DEF IInv, CaptureInv, SpoilInv, Spoiled, Current
  <2>2. file \in 1 .. clock /\ c <= pos
    BY <2>1 DEF IInv, CaptureInv, FdInv, HashInv, WalkTypeOK
  <2>3. Spoiled(c) \/ store[file][c] # hash[c] => Current[c] # hash[c]
    BY <2>1 DEF IInv, CaptureInv, SpoilInv
  <2>4. CASE Current[c] # hash[c]
    BY <1>7, <2>2, <2>4 DEF Current
  <2>5. CASE Current[c] = hash[c]
    <3>1. store[file][c] = hash[c] /\ store'[file][c] # hash[c]
      BY <2>1, <2>3, <2>5
    <3>2. file \in Files => file = path'
      BY <1>2, <3>1
    <3>. QED  BY <1>1, <2>2, <3>1, <3>2, CaptureFileAssumption DEF Files
  <2>. QED  BY <2>4, <2>5
<1>9. RehashInv'
  <2>1. CASE pc = "rehash"
    <3>1. \A c \in 1 .. size : c <= pos
      BY <2>1 DEF IInv, CaptureInv, HashInv, Reading, WalkTypeOK
    <3>2. rfd \in 1 .. clock
      BY <2>1 DEF IInv, CaptureInv, FdInv
    <3>. QED  BY <1>7, <2>1, <3>1, <3>2 DEF IInv, CaptureInv, RehashInv, Spoiled
  <2>2. CASE pc # "rehash"
    BY <2>2 DEF IInv, CaptureInv, RehashInv, Spoiled
  <2>. QED  BY <2>1, <2>2
<1>. QED  BY <1>3, <1>4, <1>5, <1>6, <1>8, <1>9 DEF IInv, CaptureInv, SearchInv

(* -- the steps of the search ------------------------------------------------------- *)

(* What a random read adds is what the file that was opened has now.       *)
Fetched(fact) ==
  fact \in Facts /\ fact.chunk \in 1 .. size /\ fact.ver = store[file][fact.chunk]

(* A step of the search, whichever it is, as far as the capture goes.      *)
LEMMA SearchKeeps ==
  ASSUME CaptureInv, pc \in Searching, pc' \in Searching \cup {"reopen"},
         UNCHANGED <<file, captureVars>>,
         facts \subseteq facts', \A fact \in facts' : fact \in facts \/ Fetched(fact)
  PROVE  CaptureInv'
<1>. USE DEF CaptureInv, captureVars, indexVars, walkVars, recheckVars, fileVars
<1>1. FileTypeOK' /\ WalkTypeOK' /\ pc' \in PCs
  BY DEF FileTypeOK, WalkTypeOK, PCs, Searching, InStrings, InNodes, Sampling
<1>2. FileInv' /\ FdInv' /\ HashInv' /\ SumInv'
  BY DEF FileInv, FdInv, HashInv, SumInv, Reading, Searching, InStrings, InNodes, Sampling
<1>3. SpoilInv'
  <2>1. facts' \subseteq Facts /\ \A fact \in facts' : fact.chunk \in 1 .. size
    BY DEF SpoilInv, Fetched
  <2>2. pc' \notin Walking /\ pc \in Reading
    BY DEF Walking, Searching, InStrings, InNodes, Sampling, Reading
  <2>3. ASSUME NEW c \in 1 .. size, Spoiled(c)' \/ store[file][c] # hash[c]
        PROVE  Current[c] # hash[c]
    BY <2>2, <2>3 DEF SpoilInv, Spoiled, Fetched
  <2>. QED  BY <2>1, <2>2, <2>3 DEF SpoilInv, Spoiled, Current
<1>4. RehashInv'
  BY DEF RehashInv, Searching, InStrings, InNodes, Sampling
<1>. QED  BY <1>1, <1>2, <1>3, <1>4

LEMMA QuietKeeps ==
  ASSUME CaptureInv, pc \in Searching, pc' \in Searching \cup {"reopen"}, ReadNothing
  PROVE  CaptureInv'
BY SearchKeeps DEF ReadNothing

LEMMA FileOpen ==
  ASSUME CaptureInv, pc \in Reading
  PROVE  file \in Files /\ store[file] \in Contents
<1>1. file \in 1 .. clock /\ clock \in Files
  BY DEF CaptureInv, FdInv, FileTypeOK
<1>2. file \in Files
  BY <1>1, CaptureFileAssumption DEF Files
<1>. QED  BY <1>2 DEF CaptureInv, FileTypeOK

LEMMA ReadKeeps ==
  ASSUME CaptureInv, pc \in Searching, pc' \in Searching, NEW p \in Here, ReadAt(p)
  PROVE  CaptureInv'
<1>1. pc \in Reading /\ file \in Files /\ store[file] \in Contents
  BY FileOpen DEF Reading
<1>2. \A c \in Touched(p) : c \in Chunks /\ c \in 1 .. size
  BY CaptureFileAssumption DEF Here, InFile, Fits, CaptureInv, WalkTypeOK, Chunks
<1>. DEFINE New(c) == [chunk |-> c, ver |-> store[file][c]]
<1>3. \A c \in Touched(p) : Fetched(New(c))
  BY <1>1, <1>2 DEF Fetched, Facts, Contents
<1>4. facts' = facts \cup {New(c) : c \in Touched(p)} /\ UNCHANGED <<file, captureVars>>
  BY DEF ReadAt
<1>. HIDE DEF New
<1>. QED  BY <1>3, <1>4, SearchKeeps

(* What a place holds is a thing, in the scan and when it is read.         *)
LEMMA ThingTypes ==
  ASSUME CaptureInv, NEW p \in Places
  PROVE  /\ Scanned(p) \in Things
         /\ pc \in Reading => Seen(p) \in Things
<1>1. Holds[p] \in [Versions \X Versions -> Things]
  BY DiscoveryAssumption
<1>2. \A content \in Contents : Bytes(content, p) \in Versions \X Versions
  <2>1. /\ ChunkOf[p] \in Chunks /\ (p \in Split => ChunkOf[p] + 1 \in Chunks)
        /\ Absent \in Versions
    BY PlacesAssumption, CaptureFileAssumption DEF Versions, Absent
  <2>. QED  BY <2>1 DEF Bytes, Contents
<1>3. hash \in Contents
  BY DEF CaptureInv, WalkTypeOK
<1>4. pc \in Reading => store[file] \in Contents
  BY FileOpen
<1>. QED  BY <1>1, <1>2, <1>3, <1>4 DEF Scanned, Seen

(* A reference leads to a place or nowhere.                                *)
LEMMA TargetType ==
  ASSUME NEW m \in Models, NEW r \in Refs
  PROVE  Target[m][r] \in Places \cup {Nowhere}
BY DiscoveryAssumption

(* The places stay the same during the search.                             *)
LEMMA SameHere ==
  ASSUME UNCHANGED captureVars
  PROVE  Here' = Here
<1>1. UNCHANGED scanVars
  BY DEF captureVars, indexVars, walkVars, scanVars
<1>2. Here' = Here
  BY <1>1 DEF scanVars, Here, InFile, Fits
<1>. QED  BY <1>2


LEMMA NextGroupIInv == IInv /\ NextGroup => IInv'
<1>. SUFFICES ASSUME IInv, NextGroup PROVE IInv'
  OBVIOUS
<1>. USE DEF NextGroup, reportVars
<1>1. CaptureInv'
  BY QuietKeeps DEF IInv, Searching, InStrings
<1>2. /\ FirstGroup \in todo /\ FirstGroup \in Klasses
      /\ Here' = Here
  BY FirstGroupType, SameHere DEF IInv, SearchTypes, ReadNothing
<1>3. 1 \in 1 .. NumModels + 1
  BY DiscoveryAssumption
<1>4. SearchTypes'
  BY <1>2, <1>3 DEF IInv, SearchTypes, Hands, Proposals
<1>5. PhaseInv'
  BY <1>2 DEF PhaseInv, Walking, Sampling, InStrings, InNodes
<1>6. OnceInv'
  BY <1>2 DEF IInv, OnceInv, InStrings, Sampling
<1>. QED  BY <1>1, <1>4, <1>5, <1>6 DEF IInv

LEMMA StartModelIInv == IInv /\ StartModel => IInv'
<1>. SUFFICES ASSUME IInv, StartModel PROVE IInv'
  OBVIOUS
<1>. USE DEF StartModel, reportVars
<1>1. CaptureInv'
  BY QuietKeeps DEF IInv, Searching, InStrings, Sampling
<1>2. /\ klass \in Klasses /\ Here' = Here
      /\ Sampled(klass) \subseteq Here
      /\ Cardinality(Sampled(klass)) <= Cardinality(Places)
      /\ Cardinality(Sampled(klass)) \in Nat
      /\ 0 \in 0 .. Cardinality(Places)
  <2>1. klass \in Klasses /\ Here' = Here
    BY SameHere DEF IInv, PhaseInv, InStrings, ReadNothing
  <2>2. Sampled(klass) \subseteq Here /\ Sampled(klass) \subseteq Places
    BY <2>1, PlacesFinite DEF Here
  <2>. QED  BY <2>1, <2>2, PlacesFinite, FS_Subset, FS_CardinalityType
<1>3. SearchTypes'
  BY <1>2, FS_EmptySet DEF IInv, SearchTypes, Hands, Proposals
<1>4. PhaseInv'
  BY <1>2 DEF IInv, SearchTypes, PhaseInv, Walking, Sampling, InStrings, InNodes
<1>5. OnceInv'
  BY DEF IInv, OnceInv, InStrings, Sampling
<1>. QED  BY <1>1, <1>3, <1>4, <1>5 DEF IInv

(* A step within a sample of a String.                                     *)
LEMMA SampleStep ==
  ASSUME SearchInv, pc \in Sampling, pc' \in Sampling, UNCHANGED captureVars,
         UNCHANGED <<todo, klass, model, reportVars>>,
         hand' \in Hands, IsFiniteSet(evidence'),
         pc' # "sample" => hand'.array \in Here,
         left' \subseteq left, eligible' \in Nat,
         eligible' + Cardinality(left') <= Cardinality(Places)
  PROVE  SearchInv'
<1>. USE DEF reportVars, SearchInv
<1>1. Here' = Here
  BY SameHere
<1>2. eligible' \in 0 .. Cardinality(Places)
  <2>1. left' \subseteq Places
    BY DEF SearchTypes, Here
  <2>2. Cardinality(left') \in Nat /\ Cardinality(Places) \in Nat
    BY <2>1, PlacesFinite, FS_Subset, FS_CardinalityType
  <2>. QED  BY <2>2
<1>3. SearchTypes'
  BY <1>1, <1>2 DEF SearchTypes
<1>4. PhaseInv'
  BY <1>1 DEF PhaseInv, Walking, Sampling, InStrings, InNodes
<1>5. OnceInv'
  BY DEF OnceInv, InStrings, Sampling
<1>. QED  BY <1>3, <1>4, <1>5

LEMMA ReadSampleIInv == IInv /\ ReadSample => IInv'
<1>. SUFFICES ASSUME IInv, ReadSample PROVE IInv'
  OBVIOUS
<1>. USE DEF ReadSample
<1>1. /\ Lowest \in left /\ Lowest \in Here /\ Lowest \in Places
      /\ pc \in Sampling /\ pc' \in Sampling /\ pc \in Reading
      /\ pc \in Searching /\ pc' \in Searching
      /\ model \in Models
  BY LowestType DEF IInv, SearchTypes, PhaseInv, Here, Sampling, InStrings, Searching, Reading, Models
<1>2. CaptureInv' /\ UNCHANGED captureVars
  BY <1>1, ReadKeeps DEF IInv, ReadAt
<1>3. Seen(Lowest) \in Things
  BY <1>1, ThingTypes DEF IInv
<1>4. /\ eligible' \in Nat
      /\ eligible' + Cardinality(left') <= Cardinality(Places)
  <2>1. /\ IsFiniteSet(left) /\ Cardinality(left) \in Nat /\ Cardinality(left \ {Lowest}) = Cardinality(left) - 1
        /\ Cardinality(Places) \in Nat
    <3>1. left \subseteq Here
      BY DEF IInv, SearchTypes
    <3>2. IsFiniteSet(left)
      BY <3>1, PlacesFinite, FS_Subset
    <3>. QED  BY <1>1, <3>2, PlacesFinite, FS_CardinalityType, FS_RemoveElement
  <2>2. eligible \in Nat /\ eligible + Cardinality(left) <= Cardinality(Places)
    BY <1>1, <2>1 DEF IInv, SearchTypes, PhaseInv
  <2>3. eligible' \in {eligible, eligible + 1} /\ left' = left \ {Lowest}
    OBVIOUS
  <2>. QED  BY <2>1, <2>2, <2>3
<1>5. hand' \in Hands /\ (pc' # "sample" => hand'.array \in Here)
  <2>. DEFINE s == Seen(Lowest)
              t == Target[model][s.ref]
  <2>1. CASE UNCHANGED <<pc, hand>>
    BY <2>1 DEF IInv, SearchTypes
  <2>2. CASE /\ InFile(t)
             /\ hand' = [NoHand EXCEPT !.at = Lowest, !.text = s.text, !.array = t]
    <3>1. s.text \in Texts \cup {NoText} /\ t \in Places \cup {Nowhere}
      BY <1>1, <1>3, TargetType DEF Things
    <3>2. t \in Here /\ t \in Places
      BY <2>2, <3>1 DEF InFile, Here
    <3>. HIDE DEF t, s
    <3>. QED  BY <1>1, <2>2, <3>1, <3>2, DiscoveryAssumption DEF NoHand, Hands
  <2>. QED  BY <2>1, <2>2
<1>6. SearchInv'
  BY <1>1, <1>2, <1>4, <1>5, SampleStep DEF IInv, SearchInv, SearchTypes
<1>. QED  BY <1>2, <1>6 DEF IInv, SearchInv

LEMMA ReadArrayIInv == IInv /\ (ReadArray \/ ReadPayload) => IInv'
<1>. SUFFICES ASSUME IInv, ReadArray \/ ReadPayload PROVE IInv'
  OBVIOUS
<1>. USE DEF ReadArray, ReadPayload
<1>1. /\ pc \in Sampling /\ pc' \in Sampling /\ pc \in Reading
      /\ pc \in Searching /\ pc' \in Searching
      /\ hand.array \in Here /\ hand.array \in Places /\ hand \in Hands
      /\ ReadAt(hand.array)
  BY DEF IInv, SearchTypes, PhaseInv, Here, Sampling, InStrings, Searching, Reading
<1>2. CaptureInv' /\ UNCHANGED captureVars
  BY <1>1, ReadKeeps DEF IInv, ReadAt
<1>3. Seen(hand.array) \in Things
  BY <1>1, ThingTypes DEF IInv
<1>4. hand' \in Hands /\ hand'.array = hand.array
  BY <1>1, <1>3 DEF Hands, Things
<1>5. IsFiniteSet(evidence')
  <2>1. \E x : evidence' \in {evidence, evidence \cup {x}}
    OBVIOUS
  <2>. QED  BY <2>1, FS_AddElement DEF IInv, SearchTypes
<1>6. /\ eligible \in Nat /\ eligible + Cardinality(left) <= Cardinality(Places)
      /\ UNCHANGED <<left, eligible, todo, klass, model, reportVars>>
  BY <1>1 DEF IInv, SearchTypes, PhaseInv
<1>7. SearchInv'
  BY <1>1, <1>2, <1>4, <1>5, <1>6, SampleStep DEF IInv, SearchInv
<1>. QED  BY <1>2, <1>7 DEF IInv, SearchInv


(* The values of a function on a finite set are finite in number.          *)
LEMMA ImageFinite ==
  ASSUME NEW S, IsFiniteSet(S), NEW f
  PROVE  /\ IsFiniteSet({f[x] : x \in S})
         /\ Cardinality({f[x] : x \in S}) <= Cardinality(S)
<1>. DEFINE T == {f[x] : x \in S}
            g == [x \in S |-> f[x]]
<1>1. g \in Surjection(S, T)
  BY DEF Surjection
<1>. QED  BY <1>1, FS_Surjection

(* What the evidence of a group under a hypothesis proposes.               *)
With(a)     == {e \in evidence : e.aklass = a}
Proposal(a) == [string |-> klass, array |-> a, model |-> model,
                matches |-> Cardinality(With(a)), eligible |-> eligible]
Proposed    == {Proposal(a) : a \in {b \in Klasses : Supported(With(b))}}

LEMMA ProposesProposed ==
  Propose => proposals' = proposals \cup Proposed
BY DEF Propose, Proposed, Proposal, With

LEMMA ProposedTypes ==
  ASSUME IInv, pc = "sample"
  PROVE  /\ Proposed \subseteq Proposals /\ IsFiniteSet(Proposed)
         /\ \A p \in Proposed : p.string = klass /\ p.model = model
         /\ Once(Proposed)
<1>1. /\ klass \in Klasses /\ model \in Models /\ eligible \in Nat
      /\ IsFiniteSet(evidence) /\ IsFiniteSet(Klasses)
  BY PlacesFinite, DiscoveryAssumption DEF IInv, SearchTypes, PhaseInv, InStrings, Sampling, Models
<1>2. \A a \in Klasses : Cardinality(With(a)) \in Nat
  BY <1>1, FS_Subset, FS_CardinalityType DEF With
<1>3. \A a \in Klasses : Proposal(a) \in Proposals
  BY <1>1, <1>2 DEF Proposal, Proposals
<1>. DEFINE B == {b \in Klasses : Supported(With(b))}
            f == [a \in B |-> Proposal(a)]
<1>4. IsFiniteSet(B)
  BY <1>1, FS_Subset
<1>5. Proposed = {f[a] : a \in B}
  BY DEF Proposed
<1>6. IsFiniteSet(Proposed)
  <2>. HIDE DEF B, f
  <2>. QED  BY <1>4, <1>5, ImageFinite
<1>. QED  BY <1>3, <1>6 DEF Proposed, Proposal, Once

LEMMA ProposeIInv == IInv /\ Propose => IInv'
<1>. SUFFICES ASSUME IInv, Propose PROVE IInv'
  OBVIOUS
<1>1. /\ pc = "sample" /\ pc' = "model" /\ model' = model + 1 /\ ReadNothing
      /\ UNCHANGED <<todo, klass, left, hand, evidence, eligible, anchors, anchor>>
  BY DEF Propose
<1>2. CaptureInv'
  BY <1>1, QuietKeeps DEF IInv, Searching, InStrings, Sampling
<1>3. /\ Here' = Here
      /\ klass \in Klasses /\ klass \notin todo /\ model \in Nat /\ NumModels \in Nat /\ model <= NumModels
      /\ \A p \in proposals : p.string \notin todo /\ (p.string = klass => p.model < model)
      /\ \A p \in proposals : p.model \in Nat
  <2>1. \A p \in proposals : p.model \in Nat
    BY DEF IInv, SearchTypes, Proposals, Models
  <2>. QED  BY <1>1, <2>1, SameHere, DiscoveryAssumption
            DEF IInv, SearchTypes, PhaseInv, OnceInv, InStrings, Sampling, ReadNothing
<1>4. /\ Proposed \subseteq Proposals /\ IsFiniteSet(Proposed)
      /\ \A p \in Proposed : p.string = klass /\ p.model = model
      /\ Once(Proposed)
      /\ proposals' = proposals \cup Proposed
  BY <1>1, ProposedTypes, ProposesProposed
<1>5. IsFiniteSet(proposals')
  BY <1>4, FS_Union DEF IInv, SearchTypes
<1>6. SearchTypes'
  <2>1. model' \in 1 .. NumModels + 1
    BY <1>1, <1>3
  <2>. QED  BY <1>1, <1>3, <1>4, <1>5, <2>1 DEF IInv, SearchTypes
<1>7. PhaseInv'
  BY <1>1, <1>3 DEF PhaseInv, Walking, Sampling, InStrings, InNodes
<1>8. OnceInv'
  <2>1. Once(proposals')
    BY <1>3, <1>4 DEF IInv, OnceInv, Once
  <2>2. \A p \in proposals' : p.string \notin todo /\ (p.string = klass => p.model < model + 1)
    BY <1>3, <1>4
  <2>. QED  BY <1>1, <2>1, <2>2 DEF OnceInv
<1>. QED  BY <1>2, <1>6, <1>7, <1>8 DEF IInv

LEMMA StringsDoneIInv == IInv /\ StringsDone => IInv'
<1>. SUFFICES ASSUME IInv, StringsDone PROVE IInv'
  OBVIOUS
<1>. USE DEF StringsDone, searchVars
<1>1. CaptureInv' /\ Here' = Here
  BY QuietKeeps, SameHere DEF IInv, Searching, ReadNothing
<1>2. proposals' \subseteq proposals /\ anchors' \subseteq proposals'
  BY DEF Best
<1>3. IsFiniteSet(proposals')
  BY <1>2, FS_Subset DEF IInv, SearchTypes
<1>4. SearchTypes'
  BY <1>1, <1>2, <1>3 DEF IInv, SearchTypes
<1>5. PhaseInv'
  BY DEF PhaseInv, Walking, Sampling, InStrings, InNodes
<1>6. OnceInv'
  BY <1>2 DEF IInv, OnceInv, Once, InStrings, Sampling
<1>. QED  BY <1>1, <1>4, <1>5, <1>6 DEF IInv

LEMMA TopGroupsType ==
  ASSUME NEW n
  PROVE  TopGroups(n) \subseteq Klasses
BY DEF TopGroups, Searchable, Groups

LEMMA NextAnchorIInv == IInv /\ NextAnchor => IInv'
<1>. SUFFICES ASSUME IInv, NextAnchor PROVE IInv'
  OBVIOUS
<1>. USE DEF NextAnchor
<1>1. CaptureInv' /\ Here' = Here
  BY QuietKeeps, SameHere DEF IInv, Searching, InNodes, ReadNothing
<1>2. anchor' \in anchors /\ anchor' \in Proposals
  BY NextAnchorType DEF IInv, SearchTypes, OnceInv
<1>3. todo' \subseteq Klasses
  BY TopGroupsType
<1>4. SearchTypes'
  BY <1>1, <1>2, <1>3 DEF IInv, SearchTypes
<1>5. PhaseInv'
  BY <1>2 DEF PhaseInv, Walking, Sampling, InStrings, InNodes
<1>6. OnceInv'
  BY DEF IInv, OnceInv, InStrings, Sampling
<1>. QED  BY <1>1, <1>4, <1>5, <1>6 DEF IInv

LEMMA NextNodeGroupIInv == IInv /\ NextNodeGroup => IInv'
<1>. SUFFICES ASSUME IInv, NextNodeGroup PROVE IInv'
  OBVIOUS
<1>. USE DEF NextNodeGroup, reportVars
<1>1. CaptureInv' /\ Here' = Here
  BY QuietKeeps, SameHere DEF IInv, Searching, InNodes, ReadNothing
<1>2. todo # {} => FirstGroup \in Klasses /\ Sampled(FirstGroup) \subseteq Here
  BY FirstGroupType, PlacesFinite DEF IInv, SearchTypes
<1>3. SearchTypes'
  BY <1>1, <1>2, FS_EmptySet DEF IInv, SearchTypes
<1>4. PhaseInv'
  BY DEF IInv, PhaseInv, Walking, Sampling, InStrings, InNodes
<1>5. OnceInv'
  BY DEF IInv, OnceInv, InStrings, Sampling
<1>. QED  BY <1>1, <1>3, <1>4, <1>5 DEF IInv


(* A step within a node.                                                   *)
Decoding == {"string", "nodeArray", "nodePayload"}

LEMMA NodeStep ==
  ASSUME SearchInv, pc \in InNodes, pc' \in InNodes, UNCHANGED captureVars,
         UNCHANGED <<todo, klass, model, eligible, reportVars>>,
         hand' \in Hands, IsFiniteSet(evidence'), left' \subseteq left,
         pc' \in Decoding => hand'.string \in Here,
         pc' \in Decoding \ {"string"} => hand'.array \in Here
  PROVE  SearchInv'
<1>. USE DEF reportVars, SearchInv
<1>1. Here' = Here
  BY SameHere
<1>2. SearchTypes'
  BY <1>1 DEF SearchTypes
<1>3. PhaseInv'
  BY <1>1 DEF PhaseInv, Walking, Sampling, InStrings, InNodes, Decoding
<1>4. OnceInv'
  BY DEF OnceInv, InStrings, Sampling, InNodes
<1>. QED  BY <1>2, <1>3, <1>4

(* Where the hypothesis of the anchor leads, if it leads into the file.    *)
LEMMA FollowType ==
  ASSUME IInv, pc \in InNodes, NEW r \in Refs, InFile(Follow(r))
  PROVE  Follow(r) \in Here /\ Follow(r) \in Places
<1>1. anchor.model \in Models
  BY DEF IInv, PhaseInv, Proposals
<1>2. Follow(r) \in Places \cup {Nowhere}
  BY <1>1, TargetType DEF Follow
<1>. QED  BY <1>2 DEF InFile, Here

LEMMA RecordFinite ==
  ASSUME IInv, NEW valued, Record(valued)
  PROVE  IsFiniteSet(evidence')
<1>1. \E x : evidence' = evidence \cup {x}
  BY DEF Record
<1>. QED  BY <1>1, FS_AddElement DEF IInv, SearchTypes

(* A part of a node cannot be decoded.                                     *)
LEMMA DecodeFailsTypes ==
  ASSUME IInv, DecodeFails
  PROVE  hand' \in Hands /\ IsFiniteSet(evidence') /\ pc' = "node"
<1>1. CASE UNCHANGED evidence
  BY <1>1 DEF DecodeFails, IInv, SearchTypes
<1>2. CASE Record(FALSE)
  BY <1>2, RecordFinite DEF DecodeFails, IInv, SearchTypes
<1>. QED  BY <1>1, <1>2 DEF DecodeFails

LEMMA ReadNodeIInv == IInv /\ ReadNode => IInv'
<1>. SUFFICES ASSUME IInv, ReadNode PROVE IInv'
  OBVIOUS
<1>. USE DEF ReadNode
<1>1. /\ Lowest \in Here /\ Lowest \in Places
      /\ pc \in InNodes /\ pc' \in InNodes /\ pc \in Reading
      /\ pc \in Searching /\ pc' \in Searching
  BY LowestType DEF IInv, SearchTypes, Here, InNodes, Searching, Reading
<1>2. CaptureInv' /\ UNCHANGED captureVars
  BY <1>1, ReadKeeps DEF IInv, ReadAt
<1>3. Seen(Lowest) \in Things
  BY <1>1, ThingTypes DEF IInv
<1>4. /\ hand' \in Hands
      /\ pc' \in Decoding => pc' = "string" /\ hand'.string \in Here
  <2>. DEFINE n == Seen(Lowest)
              t == Follow(n.ref)
  <2>1. CASE UNCHANGED <<pc, hand>>
    BY <2>1 DEF IInv, SearchTypes, Decoding
  <2>2. CASE /\ pc' = "string" /\ InFile(t)
             /\ hand' = [NoHand EXCEPT !.at = Lowest, !.role = "key", !.text = n.text,
                            !.value = n.value, !.next = n.next, !.string = t]
    <3>1. n.text \in Texts \cup {NoText} /\ n.value \in Refs /\ n.next \in Refs /\ n.ref \in Refs
      BY <1>3 DEF Things
    <3>2. t \in Here /\ t \in Places
      BY <1>1, <2>2, <3>1, FollowType
    <3>. HIDE DEF t, n
    <3>. QED  BY <1>1, <2>2, <3>1, <3>2, DiscoveryAssumption DEF NoHand, Hands
  <2>. QED  BY <2>1, <2>2
<1>5. /\ IsFiniteSet(evidence') /\ left' \subseteq left
      /\ UNCHANGED <<todo, klass, model, eligible, reportVars>>
  BY DEF IInv, SearchTypes
<1>6. SearchInv'
  BY <1>1, <1>2, <1>4, <1>5, NodeStep DEF IInv, SearchInv, Decoding
<1>. QED  BY <1>2, <1>6 DEF IInv, SearchInv

LEMMA ReadStringIInv == IInv /\ ReadString => IInv'
<1>. SUFFICES ASSUME IInv, ReadString PROVE IInv'
  OBVIOUS
<1>. USE DEF ReadString
<1>1. /\ hand.string \in Here /\ hand.string \in Places /\ hand \in Hands
      /\ pc \in InNodes /\ pc' \in InNodes /\ pc \in Reading
      /\ pc \in Searching /\ pc' \in Searching
  BY DEF IInv, SearchTypes, PhaseInv, Here, InNodes, Searching, Reading, DecodeFails
<1>2. CaptureInv' /\ UNCHANGED captureVars
  BY <1>1, ReadKeeps DEF IInv, ReadAt
<1>3. Seen(hand.string) \in Things
  BY <1>1, ThingTypes DEF IInv
<1>4. /\ hand' \in Hands /\ IsFiniteSet(evidence')
      /\ pc' \in Decoding => hand'.string \in Here /\ hand'.array \in Here
  <2>. DEFINE s == Seen(hand.string)
              t == Follow(s.ref)
  <2>1. CASE DecodeFails
    BY <2>1, DecodeFailsTypes DEF Decoding
  <2>2. CASE /\ pc' = "nodeArray" /\ InFile(t) /\ UNCHANGED evidence
             /\ hand' = [hand EXCEPT !.cached = s.text, !.array = t]
    <3>1. s.text \in Texts \cup {NoText} /\ s.ref \in Refs
      BY <1>3 DEF Things
    <3>2. t \in Here /\ t \in Places
      BY <1>1, <2>2, <3>1, FollowType
    <3>. HIDE DEF t, s
    <3>3. hand' \in Hands /\ hand'.string = hand.string /\ hand'.array = t
      BY <1>1, <2>2, <3>1, <3>2 DEF Hands
    <3>. QED  BY <1>1, <2>2, <3>2, <3>3 DEF IInv, SearchTypes
  <2>. QED  BY <2>1, <2>2
<1>5. UNCHANGED <<todo, klass, model, left, eligible, reportVars>>
  OBVIOUS
<1>6. SearchInv'
  BY <1>1, <1>2, <1>4, <1>5, NodeStep DEF IInv, SearchInv
<1>. QED  BY <1>2, <1>6 DEF IInv, SearchInv

LEMMA ReadNodeArrayIInv == IInv /\ (ReadNodeArray \/ ReadNodePayload) => IInv'
<1>. SUFFICES ASSUME IInv, ReadNodeArray \/ ReadNodePayload PROVE IInv'
  OBVIOUS
<1>1. /\ hand.string \in Here /\ hand.array \in Here /\ hand.array \in Places /\ hand \in Hands
      /\ pc \in InNodes /\ pc' \in InNodes
      /\ pc \in Searching /\ pc' \in Searching
      /\ ReadAt(hand.array)
      /\ UNCHANGED <<todo, klass, model, left, eligible, reportVars>>
  BY DEF IInv, SearchTypes, PhaseInv, Here, InNodes, Searching, DecodeFails,
         ReadNodeArray, ReadNodePayload
<1>2. CaptureInv' /\ UNCHANGED captureVars
  BY <1>1, ReadKeeps DEF IInv, ReadAt
<1>3. /\ hand' \in Hands /\ IsFiniteSet(evidence')
      /\ pc' \in Decoding => UNCHANGED hand
  <2>1. CASE DecodeFails
    BY <2>1, DecodeFailsTypes DEF Decoding
  <2>2. CASE pc' = "nodePayload" /\ UNCHANGED <<hand, evidence>>
    BY <1>1, <2>2 DEF IInv, SearchTypes
  <2>3. CASE ReadNodePayload
    <3>1. CASE UNCHANGED evidence
      BY <1>1, <2>3, <3>1 DEF ReadNodePayload, Hands, Decoding, IInv, SearchTypes
    <3>2. CASE \E valued \in BOOLEAN : Record(valued) /\ UNCHANGED hand /\ pc' = "node"
      BY <1>1, <3>2, RecordFinite DEF Decoding
    <3>. QED  BY <2>3, <3>1, <3>2 DEF ReadNodePayload, ValueAccepted
  <2>. QED  BY <2>1, <2>2, <2>3 DEF ReadNodeArray
<1>4. SearchInv'
  BY <1>1, <1>2, <1>3, NodeStep DEF IInv, SearchInv, Decoding
<1>. QED  BY <1>2, <1>4 DEF IInv, SearchInv

LEMMA OnwardTypes ==
  ASSUME IInv, pc \in InNodes, Onward
  PROVE  /\ hand' \in Hands /\ IsFiniteSet(evidence')
         /\ pc' \in {"string", "node"}
         /\ pc' = "string" => hand'.string \in Here
<1>1. hand \in Hands /\ hand.value \in Refs
  BY DEF IInv, SearchTypes, Hands
<1>2. CASE InFile(Follow(hand.value))
  <2>1. Follow(hand.value) \in Here /\ Follow(hand.value) \in Places
    BY <1>1, <1>2, FollowType
  <2>2. hand' = [hand EXCEPT !.role = "value", !.string = Follow(hand.value)]
    BY <1>2 DEF Onward
  <2>. QED  BY <1>1, <1>2, <2>1, <2>2 DEF Onward, Hands, IInv, SearchTypes
<1>3. CASE ~ InFile(Follow(hand.value))
  BY <1>1, <1>3, RecordFinite DEF Onward
<1>. QED  BY <1>2, <1>3

LEMMA NextIsReadIInv == IInv /\ (NoNext \/ ReadNext) => IInv'
<1>. SUFFICES ASSUME IInv, NoNext \/ ReadNext PROVE IInv'
  OBVIOUS
<1>1. /\ pc = "next" /\ pc \in InNodes /\ pc \in Searching /\ hand \in Hands /\ hand.next \in Refs
      /\ UNCHANGED <<todo, klass, model, left, eligible, reportVars>>
  BY DEF IInv, SearchTypes, Hands, InNodes, Searching, NoNext, ReadNext
<1>2. /\ hand' \in Hands /\ IsFiniteSet(evidence')
      /\ pc' \in {"string", "node"}
      /\ pc' = "string" => hand'.string \in Here
  <2>1. CASE Onward
    BY <1>1, <2>1, OnwardTypes
  <2>2. CASE pc' = "node" /\ UNCHANGED <<hand, evidence>>
    BY <1>1, <2>2 DEF IInv, SearchTypes
  <2>. QED  BY <2>1, <2>2 DEF NoNext, ReadNext
<1>3. pc' \in InNodes /\ pc' \in Searching
  BY <1>2 DEF InNodes, Searching
<1>4. CaptureInv' /\ UNCHANGED captureVars
  <2>1. CASE ReadNothing
    BY <1>1, <1>3, <2>1, QuietKeeps DEF IInv, ReadNothing
  <2>2. CASE InFile(Follow(hand.next)) /\ ReadAt(Follow(hand.next))
    BY <1>1, <1>3, <2>2, FollowType, ReadKeeps DEF IInv, ReadAt
  <2>. QED  BY <2>1, <2>2 DEF NoNext, ReadNext
<1>5. SearchInv'
  BY <1>1, <1>2, <1>3, <1>4, NodeStep DEF IInv, SearchInv, Decoding
<1>. QED  BY <1>4, <1>5 DEF IInv, SearchInv

LEMMA ProposeNodeIInv == IInv /\ (ProposeNode \/ NodesDone) => IInv'
<1>. SUFFICES ASSUME IInv, ProposeNode \/ NodesDone PROVE IInv'
  OBVIOUS
<1>1. /\ pc \in Searching /\ pc' \in Searching \cup {"reopen"} /\ ReadNothing
      /\ UNCHANGED <<searchVars, proposals, anchors, anchor>>
      /\ pc' \in {"nodeGroup", "reopen"}
      /\ pc' = "nodeGroup" => pc = "node"
  BY DEF Searching, InNodes, ProposeNode, NodesDone
<1>2. CaptureInv' /\ Here' = Here
  BY <1>1, QuietKeeps, SameHere DEF IInv, ReadNothing
<1>. USE DEF searchVars
<1>3. SearchTypes'
  BY <1>1, <1>2 DEF IInv, SearchTypes
<1>4. PhaseInv'
  BY <1>1 DEF IInv, PhaseInv, Walking, Sampling, InStrings, InNodes
<1>5. OnceInv'
  BY <1>1 DEF IInv, OnceInv, InStrings, Sampling
<1>. QED  BY <1>2, <1>3, <1>4, <1>5 DEF IInv

LEMMA NextIInv == IInv /\ [Next]_vars => IInv'
<1>. SUFFICES ASSUME IInv, [Next]_vars PROVE IInv'
  OBVIOUS
<1>1. CASE Strings
  BY <1>1, NextGroupIInv, StartModelIInv, ReadSampleIInv, ReadArrayIInv, ProposeIInv DEF Strings
<1>2. CASE Nodes
  BY <1>2, NextAnchorIInv, NextNodeGroupIInv, ReadNodeIInv, ReadStringIInv, ReadNodeArrayIInv,
     NextIsReadIInv, ProposeNodeIInv DEF Nodes
<1>3. CASE UNCHANGED vars
  <2>1. SearchInv'
    BY <1>3, SearchRests DEF IInv, SearchInv, vars, readVars, indexVars, walkVars
  <2>2. CaptureInv'
    <3>. USE <1>3 DEF vars, readVars, indexVars, walkVars, recheckVars, fileVars, IInv, CaptureInv
    <3>1. FileTypeOK' /\ WalkTypeOK' /\ pc' \in PCs
      BY DEF FileTypeOK, WalkTypeOK
    <3>2. FileInv' /\ FdInv' /\ HashInv' /\ SumInv'
      BY DEF FileInv, FdInv, HashInv, SumInv
    <3>3. SpoilInv' /\ RehashInv'
      BY DEF SpoilInv, RehashInv, Spoiled, Current
    <3>. QED  BY <3>1, <3>2, <3>3
  <2>. QED  BY <2>1, <2>2 DEF IInv, SearchInv
<1>. QED  BY <1>1, <1>2, <1>3, ScanIInv, OpenFileIInv, StringsDoneIInv, ProposeNodeIInv,
             RehashIInv, FailIInv, WritersIInv DEF Next, Command

LEMMA DiscoveryIInv == Spec => []IInv
BY InitIInv, NextIInv, PTL DEF Spec

(* Every state of the scan and of the search is well typed: an offset is    *)
(* followed into the file only, and no more samples are eligible than a     *)
(* group has (discovery.rs, discover; discovery/nodes.rs).                 *)
THEOREM DiscoveryTypes == Spec => []TypeOK
<1>1. IInv => TypeOK
  <2>. SUFFICES ASSUME IInv PROVE TypeOK
    OBVIOUS
  <2>1. file \in Files \cup {NoFile} /\ facts \subseteq Facts
    BY DEF IInv, CaptureInv, FdInv, SpoilInv
  <2>2. left \subseteq Places
    BY DEF IInv, SearchTypes, Here
  <2>. QED  BY <2>1, <2>2 DEF IInv, CaptureInv, HashInv, SearchTypes, TypeOK
<1>. QED  BY <1>1, DiscoveryIInv, PTL

(* What a published report was drawn from is the capture the scan hashed,   *)
(* chunk by chunk, whatever the writers do and whatever the bytes lead to   *)
(* (discovery.rs, "bind their evidence to the same immutable capture").    *)
THEOREM DiscoveryEvidence == Spec => []EvidenceIsOfTheScan
<1>1. IInv => EvidenceIsOfTheScan
  BY DEF IInv, CaptureInv, SpoilInv, RehashInv, Spoiled, EvidenceIsOfTheScan
<1>. QED  BY <1>1, DiscoveryIInv, PTL

(* -- what it says of the proposals ----------------------------------------------- *)

(* As long as every read was of what the scan hashed, the search is one of  *)
(* the scanned capture.                                                    *)
Faithful == \A fact \in facts : fact.ver = hash[fact.chunk]

(* The Strings of a group that match under a hypothesis, and the record of *)
(* each.                                                                    *)
Match(k, m) ==
  {p \in Cached(k) :
     LET t == Leads(p, m)
     IN  /\ InFile(t) /\ t # p
         /\ Scanned(t).kind = "array" /\ Scanned(t).klass # k
         /\ Scanned(t).klass \in Groups \ Periodic
         /\ Scanned(t).text = Scanned(p).text}
MatchOf(p, m) ==
  [string |-> p, target |-> Leads(p, m), text |-> Scanned(p).text,
   aklass |-> Scanned(Leads(p, m)).klass]

(* The samples of a group are followed, but for those left and the one in  *)
(* hand.                                                                    *)
SampleInv ==
  /\ left \subseteq Sampled(klass)
  /\ eligible = Cardinality(Cached(klass) \ left)
  /\ pc = "sample" => evidence = {MatchOf(p, model) : p \in Match(klass, model) \ left}
  /\ pc \in {"array", "payload"} =>
       /\ evidence = {MatchOf(p, model) : p \in Match(klass, model) \ (left \cup {hand.at})}
       /\ hand.at \in Cached(klass) \ left
       /\ hand.text = Scanned(hand.at).text
       /\ hand.array = Leads(hand.at, model) /\ hand.array # hand.at
  /\ pc = "payload" =>
       /\ Scanned(hand.array).kind = "array" /\ Scanned(hand.array).klass = hand.aklass
       /\ hand.aklass # klass /\ hand.aklass \in Groups \ Periodic

(* The groups and hypotheses that are searched have their proposals.       *)
ProposedInv ==
  /\ pc \in {"group"} \cup InStrings => todo \subseteq TopGroups(GroupsPerWidth)
  /\ pc = "group" => proposals = {p \in TrueProposals : p.string \notin todo}
  /\ pc \in InStrings =>
       /\ klass \in TopGroups(GroupsPerWidth)
       /\ proposals = {p \in TrueProposals :
                         p.string \notin todo /\ (p.string = klass => p.model < model)}
  /\ pc \in {"anchor", "reopen", "rehash", "complete"} \cup InNodes =>
       proposals = Best(TrueProposals, MaxProposals)

(* The same of a node: the record of one that counts, ...                   *)
NodeOf(p, a) ==
  [node |-> p, key |-> Target[a.model][Scanned(p).ref], text |-> Scanned(p).text,
   linked |-> Scanned(p).next # Null, valued |-> Valued(p, a)]

(* ... what is in hand of it at each of the reads, ...                      *)
HandInv ==
  LET n == Scanned(hand.at)
  IN  /\ hand.at \in Sampled(klass) \ left
      /\ n.kind = "node" /\ n.klass = klass
      /\ hand.text = n.text /\ hand.value = n.value /\ hand.next = n.next
      /\ pc \in Decoding =>
           /\ hand.role \in {"key", "value"}
           /\ hand.role = "key" => hand.string = Follow(n.ref)
           /\ hand.role = "value" =>
                /\ hand.string = Follow(n.value)
                /\ hand.at \in KeyedNodes(klass, anchor) /\ hand.key = Follow(n.ref)
      /\ pc \in {"nodeArray", "nodePayload"} =>
           /\ Scanned(hand.string).kind = "string" /\ Scanned(hand.string).klass = anchor.string
           /\ hand.cached = Scanned(hand.string).text
           /\ hand.array = Follow(Scanned(hand.string).ref)
      /\ pc = "nodePayload" =>
           Scanned(hand.array).kind = "array" /\ Scanned(hand.array).klass = anchor.array
      /\ pc = "next" =>
           /\ StringAt(Follow(n.ref), anchor) /\ n.text \in Texts
           /\ Scanned(Follow(n.ref)).text = n.text /\ Payload(Follow(n.ref), anchor) = n.text
           /\ hand.key = Follow(n.ref)

(* ... and the records of those that are done.                              *)
FollowInv ==
  /\ left \subseteq Sampled(klass)
  /\ pc = "node" => evidence = {NodeOf(p, anchor) : p \in KeyedNodes(klass, anchor) \ left}
  /\ pc # "node" =>
       /\ HandInv
       /\ evidence = {NodeOf(p, anchor) : p \in KeyedNodes(klass, anchor) \ (left \cup {hand.at})}

(* A Node binding that is proposed has the counts of its nodes.            *)
Rests(p) ==
  LET found == KeyedNodes(p.node, p.anchor)
  IN  /\ p.matches = Cardinality(found)
      /\ p.values = Cardinality({n \in found : Valued(n, p.anchor)})
      /\ p.linked = Cardinality({n \in found : Scanned(n).next # Null})
      /\ Cardinality({Target[p.anchor.model][Scanned(n).ref] : n \in found}) >= Support
NodesInv ==
  /\ pc \in Walking \cup {"group"} \cup InStrings => nodeProposals = {}
  /\ pc \in {"anchor"} \cup InNodes => anchors \subseteq Best(proposals, MaxAnchors)
  /\ pc \in InNodes => anchor \in Best(proposals, MaxAnchors)
  /\ pc # "failed" => \A p \in nodeProposals : p.anchor \in Best(proposals, MaxAnchors) /\ Rests(p)

SoundInv ==
  /\ pc \in Sampling => SampleInv
  /\ ProposedInv
  /\ pc \in InNodes \ {"nodeGroup"} => FollowInv
  /\ NodesInv
Sound == Faithful => SoundInv

(* The scan is over: what is said of the scanned capture stays true.        *)
LEMMA SamePlaces ==
  ASSUME UNCHANGED scanVars
  PROVE  /\ \A p : Scanned(p)' = Scanned(p) /\ (InFile(p)' <=> InFile(p))
         /\ \A k : Hits(k)' = Hits(k) /\ Sampled(k)' = Sampled(k)
         /\ Groups' = Groups
<1>. USE DEF scanVars
<1>1. \A p : Scanned(p)' = Scanned(p) /\ (InFile(p)' <=> InFile(p))
  BY DEF Scanned, Bytes, InFile, Fits
<1>2. \A k : Group(k)' = Group(k)
  BY DEF Group, View
<1>3. \A k : Hits(k)' = Hits(k)
  BY <1>2 DEF Hits
<1>4. Groups' = Groups
  BY <1>2 DEF Groups
<1>5. \A k : Sample(k)' = Sample(k)
  BY <1>2 DEF Sample, Follows
<1>6. \A k : Sampled(k)' = Sampled(k)
  BY <1>1, <1>5 DEF Sampled
<1>. QED  BY <1>1, <1>3, <1>4, <1>6

LEMMA SameOrder ==
  ASSUME UNCHANGED scanVars
  PROVE  /\ \A n : TopGroups(n)' = TopGroups(n)
         /\ \A p, q : Ahead(p, q)' <=> Ahead(p, q)
         /\ \A S, n : Best(S, n)' = Best(S, n)
<1>1. \A j, k : GroupBefore(j, k)' <=> GroupBefore(j, k)
  BY SamePlaces DEF GroupBefore
<1>2. Searchable' = Searchable
  BY SamePlaces DEF Searchable
<1>3. \A n : TopGroups(n)' = TopGroups(n)
  BY <1>1, <1>2 DEF TopGroups
<1>4. \A p, q : Ahead(p, q)' <=> Ahead(p, q)
  BY <1>1 DEF Ahead
<1>5. \A S, n : Best(S, n)' = Best(S, n)
  BY <1>4 DEF Best
<1>. QED  BY <1>3, <1>4, <1>5

LEMMA SameStrings ==
  ASSUME UNCHANGED scanVars
  PROVE  /\ \A k : Cached(k)' = Cached(k)
         /\ \A p, m : Leads(p, m)' = Leads(p, m) /\ MatchOf(p, m)' = MatchOf(p, m)
         /\ \A k, m : Match(k, m)' = Match(k, m)
         /\ TrueProposals' = TrueProposals
<1>1. \A k : Cached(k)' = Cached(k)
  BY SamePlaces DEF Cached
<1>2. \A p, m : Leads(p, m)' = Leads(p, m)
  BY SamePlaces DEF Leads
<1>3. \A p, m : MatchOf(p, m)' = MatchOf(p, m)
  BY <1>2, SamePlaces DEF MatchOf
<1>4. \A k, m : Match(k, m)' = Match(k, m)
  BY <1>1, <1>2, SamePlaces DEF Match
<1>5. \A k, a, m : Matching(k, a, m)' = Matching(k, a, m)
  BY <1>1, <1>2, SamePlaces DEF Matching
<1>6. \A found, m : Enough(found, m)' <=> Enough(found, m)
  BY <1>2, SamePlaces DEF Enough
<1>7. \A k, a, m : Binding(k, a, m)' = Binding(k, a, m)
  BY <1>1, <1>5 DEF Binding
<1>8. TrueProposals' = TrueProposals
  BY <1>5, <1>6, <1>7, SamePlaces, SameOrder DEF TrueProposals
<1>. QED  BY <1>1, <1>2, <1>3, <1>4, <1>8

LEMMA SameNodes ==
  ASSUME UNCHANGED scanVars
  PROVE  /\ \A p, a : StringAt(p, a)' <=> StringAt(p, a)
         /\ \A p, a : Payload(p, a)' = Payload(p, a) /\ NodeOf(p, a)' = NodeOf(p, a)
         /\ \A k, a : KeyedNodes(k, a)' = KeyedNodes(k, a)
         /\ \A p : Rests(p)' <=> Rests(p)
<1>1. \A p, a : StringAt(p, a)' <=> StringAt(p, a)
  BY SamePlaces DEF StringAt
<1>2. \A p, a : Payload(p, a)' = Payload(p, a)
  BY SamePlaces DEF Payload
<1>3. \A p, a : Valued(p, a)' <=> Valued(p, a)
  BY <1>1, <1>2, SamePlaces DEF Valued
<1>4. \A p, a : NodeOf(p, a)' = NodeOf(p, a)
  BY <1>3, SamePlaces DEF NodeOf
<1>5. \A k, a : KeyedNodes(k, a)' = KeyedNodes(k, a)
  BY <1>1, <1>2, SamePlaces DEF KeyedNodes
<1>6. ASSUME NEW p
      PROVE  Rests(p)' <=> Rests(p)
  <2>. DEFINE found == KeyedNodes(p.node, p.anchor)
  <2>1. found' = found
    BY <1>5
  <2>. HIDE DEF found
  <2>2. /\ {n \in found : Valued(n, p.anchor)}' = {n \in found : Valued(n, p.anchor)}
        /\ {n \in found : Scanned(n).next # Null}' = {n \in found : Scanned(n).next # Null}
        /\ {Target[p.anchor.model][Scanned(n).ref] : n \in found}'
             = {Target[p.anchor.model][Scanned(n).ref] : n \in found}
    BY <1>3, <2>1, SamePlaces
  <2>3. Rests(p) <=> /\ p.matches = Cardinality(found)
                     /\ p.values = Cardinality({n \in found : Valued(n, p.anchor)})
                     /\ p.linked = Cardinality({n \in found : Scanned(n).next # Null})
                     /\ Cardinality({Target[p.anchor.model][Scanned(n).ref] : n \in found}) >= Support
    BY DEF Rests, found
  <2>4. Rests(p)' <=> /\ p.matches = Cardinality(found')
                      /\ p.values = Cardinality({n \in found : Valued(n, p.anchor)}')
                      /\ p.linked = Cardinality({n \in found : Scanned(n).next # Null}')
                      /\ Cardinality({Target[p.anchor.model][Scanned(n).ref] : n \in found}') >= Support
    BY DEF Rests, found
  <2>. QED  BY <2>1, <2>2, <2>3, <2>4
<1>. QED  BY <1>1, <1>2, <1>4, <1>5, <1>6

(* -- the steps outside the search ------------------------------------------------- *)

LEMMA FaithfulRead ==
  ASSUME Faithful', NEW p, ReadAt(p)
  PROVE  Faithful /\ Seen(p) = Scanned(p) /\ UNCHANGED scanVars
<1>1. UNCHANGED scanVars /\ facts \subseteq facts'
      /\ \A c \in Touched(p) : [chunk |-> c, ver |-> store[file][c]] \in facts'
  BY DEF ReadAt, captureVars, indexVars, walkVars, scanVars
<1>2. \A c \in Touched(p) : store[file][c] = hash[c]
  BY <1>1 DEF Faithful, scanVars
<1>3. ChunkOf[p] \in Touched(p) /\ (p \in Split => ChunkOf[p] + 1 \in Touched(p))
  BY PlacesAssumption DEF Touched
<1>4. Bytes(store[file], p) = Bytes(hash, p)
  BY <1>2, <1>3 DEF Bytes
<1>. QED  BY <1>1, <1>4 DEF Faithful, Seen, Scanned, scanVars

LEMMA FaithfulQuiet ==
  ASSUME Faithful', ReadNothing
  PROVE  Faithful /\ UNCHANGED scanVars
BY DEF Faithful, ReadNothing, captureVars, indexVars, walkVars, scanVars

Ending == {"reopen", "rehash", "complete"}

LEMMA SoundRests ==
  ASSUME SoundInv, UNCHANGED <<searchVars, reportVars, scanVars>>,
         pc' = pc \/ pc' = "failed" \/ (pc \in Ending /\ pc' \in Ending)
  PROVE  SoundInv'
<1>. USE DEF searchVars, reportVars
<1>1. (pc \in Sampling => SampleInv)'
  <2>. SUFFICES ASSUME pc \in Sampling, pc' = pc PROVE SampleInv'
    BY DEF Sampling, Ending
  <2>1. SampleInv
    BY DEF SoundInv
  <2>2. /\ Sampled(klass)' = Sampled(klass) /\ Cached(klass)' = Cached(klass) /\ Groups' = Groups
        /\ Match(klass, model)' = Match(klass, model)
        /\ \A p : Scanned(p)' = Scanned(p)
        /\ \A p, m : Leads(p, m)' = Leads(p, m) /\ MatchOf(p, m)' = MatchOf(p, m)
    BY SamePlaces, SameStrings
  <2>. QED  BY <2>1, <2>2 DEF SampleInv
<1>2. ProposedInv'
  <2>1. /\ TopGroups(GroupsPerWidth)' = TopGroups(GroupsPerWidth)
        /\ TrueProposals' = TrueProposals
        /\ Best(TrueProposals, MaxProposals)' = Best(TrueProposals, MaxProposals)
    BY SameOrder, SameStrings
  <2>. QED  BY <2>1 DEF SoundInv, ProposedInv, InStrings, Sampling, InNodes, Ending
<1>3. (pc \in InNodes \ {"nodeGroup"} => FollowInv)'
  <2>. SUFFICES ASSUME pc \in InNodes \ {"nodeGroup"}, pc' = pc PROVE FollowInv'
    BY DEF InNodes, Ending
  <2>1. FollowInv
    BY DEF SoundInv
  <2>2. /\ Sampled(klass)' = Sampled(klass) /\ KeyedNodes(klass, anchor)' = KeyedNodes(klass, anchor)
        /\ \A p : Scanned(p)' = Scanned(p)
        /\ \A p, a : /\ StringAt(p, a)' <=> StringAt(p, a)
                     /\ Payload(p, a)' = Payload(p, a) /\ NodeOf(p, a)' = NodeOf(p, a)
        /\ \A r : Follow(r)' = Follow(r)
    BY SamePlaces, SameNodes DEF Follow
  <2>3. HandInv => HandInv'
    BY <2>2 DEF HandInv
  <2>. QED  BY <2>1, <2>2, <2>3 DEF FollowInv
<1>4. NodesInv'
  <2>1. Best(proposals, MaxAnchors)' = Best(proposals, MaxAnchors) /\ \A p : Rests(p)' <=> Rests(p)
    BY SameOrder, SameNodes
  <2>. QED  BY <2>1 DEF SoundInv, NodesInv, Walking, InStrings, Sampling, InNodes, Ending
<1>. QED  BY <1>1, <1>2, <1>3, <1>4 DEF SoundInv

(* Before the search nothing was read, and nothing is proposed.             *)
LEMMA SoundScan ==
  ASSUME IInv, Sound, pc \in Walking, pc' \in Walking, UNCHANGED readVars
  PROVE  Sound'
<1>1. Faithful
  BY DEF IInv, CaptureInv, SpoilInv, Faithful
<1>2. nodeProposals = {}
  BY <1>1 DEF Sound, SoundInv, NodesInv
<1>. QED  BY <1>2 DEF readVars, reportVars, Sound, SoundInv, ProposedInv, NodesInv, Walking, InStrings,
                      Sampling, InNodes

LEMMA SoundOpen ==
  ASSUME IInv, Sound, OpenFile, Faithful'
  PROVE  SoundInv'
<1>1. /\ pc = "discover" /\ Faithful /\ UNCHANGED scanVars /\ UNCHANGED reportVars
      /\ \/ pc' = "group" /\ todo' = TopGroups(GroupsPerWidth)
         \/ pc' = "failed"
  BY DEF OpenFile, Faithful, captureVars, indexVars, walkVars, scanVars
<1>2. proposals = {} /\ nodeProposals = {}
  BY <1>1 DEF IInv, PhaseInv, Sound, SoundInv, NodesInv, Walking
<1>3. ProposedInv'
  <2>1. TrueProposals' = TrueProposals /\ TopGroups(GroupsPerWidth)' = TopGroups(GroupsPerWidth)
    BY <1>1, SameStrings, SameOrder
  <2>2. \A p \in TrueProposals : p.string \in TopGroups(GroupsPerWidth)
    BY DEF TrueProposals, Binding
  <2>. QED  BY <1>1, <1>2, <2>1, <2>2 DEF ProposedInv, reportVars, InStrings, Sampling, InNodes
<1>. QED  BY <1>1, <1>2, <1>3 DEF SoundInv, NodesInv, reportVars, Walking, InStrings, Sampling, InNodes

(* -- Strings and byte arrays -------------------------------------------------------- *)

LEMMA TrueTypes ==
  \A p \in TrueProposals : p.string \in TopGroups(GroupsPerWidth) /\ p.model \in 1 .. NumModels
BY DEF TrueProposals, Binding, Models

LEMMA CachedFinite ==
  ASSUME NEW k \in Klasses
  PROVE  /\ Cached(k) \subseteq Sampled(k) /\ IsFiniteSet(Cached(k)) /\ Cardinality(Cached(k)) \in Nat
         /\ \A m : Match(k, m) \subseteq Cached(k)
<1>1. Cached(k) \subseteq Sampled(k) /\ Sampled(k) \subseteq Here /\ IsFiniteSet(Here)
  BY PlacesFinite DEF Cached
<1>2. IsFiniteSet(Cached(k))
  BY <1>1, FS_Subset
<1>. QED  BY <1>1, <1>2, FS_CardinalityType DEF Match

LEMMA SoundNextGroup ==
  ASSUME IInv, Sound, NextGroup, Faithful'
  PROVE  SoundInv'
<1>1. /\ pc = "group" /\ pc' = "model" /\ klass' = FirstGroup /\ todo' = todo \ {FirstGroup}
      /\ model' = 1 /\ UNCHANGED <<proposals, nodeProposals>> /\ FirstGroup \in todo
      /\ Faithful /\ UNCHANGED scanVars
  BY FirstGroupType, FaithfulQuiet DEF NextGroup, reportVars, IInv, SearchTypes
<1>2. /\ todo \subseteq TopGroups(GroupsPerWidth)
      /\ proposals = {p \in TrueProposals : p.string \notin todo}
      /\ nodeProposals = {}
  BY <1>1 DEF Sound, SoundInv, ProposedInv, NodesInv
<1>3. proposals = {p \in TrueProposals :
                     p.string \notin todo' /\ (p.string = klass' => p.model < model')}
  BY <1>1, <1>2, TrueTypes
<1>4. ProposedInv'
  <2>1. TrueProposals' = TrueProposals /\ TopGroups(GroupsPerWidth)' = TopGroups(GroupsPerWidth)
    BY <1>1, SameStrings, SameOrder
  <2>. QED  BY <1>1, <1>2, <1>3, <2>1 DEF ProposedInv, InStrings, InNodes
<1>. QED  BY <1>1, <1>2, <1>4 DEF SoundInv, NodesInv, InStrings, Sampling, InNodes

LEMMA SoundStartModel ==
  ASSUME IInv, Sound, StartModel, Faithful'
  PROVE  SoundInv'
<1>1. /\ pc = "model" /\ UNCHANGED <<todo, klass, model, proposals, nodeProposals>>
      /\ Faithful /\ UNCHANGED scanVars /\ klass \in Klasses
      /\ \/ pc' = "sample" /\ left' = Sampled(klass) /\ evidence' = {} /\ eligible' = 0
         \/ pc' = "group" /\ model > NumModels
  <2>1. model \in Nat /\ NumModels \in Nat /\ klass \in Klasses
    BY DiscoveryAssumption DEF IInv, SearchTypes, PhaseInv, InStrings, StartModel
  <2>. QED  BY <2>1, FaithfulQuiet DEF StartModel, reportVars
<1>2. /\ todo \subseteq TopGroups(GroupsPerWidth) /\ klass \in TopGroups(GroupsPerWidth)
      /\ proposals = {p \in TrueProposals :
                        p.string \notin todo /\ (p.string = klass => p.model < model)}
      /\ nodeProposals = {}
  BY <1>1 DEF Sound, SoundInv, ProposedInv, NodesInv, InStrings
<1>3. ProposedInv'
  <2>1. TrueProposals' = TrueProposals /\ TopGroups(GroupsPerWidth)' = TopGroups(GroupsPerWidth)
    BY <1>1, SameStrings, SameOrder
  <2>2. CASE pc' = "sample"
    BY <1>1, <1>2, <2>1, <2>2 DEF ProposedInv, InStrings, Sampling, InNodes
  <2>3. CASE pc' = "group" /\ model > NumModels
    <3>1. model \in Nat /\ NumModels \in Nat
      BY DiscoveryAssumption DEF IInv, SearchTypes
    <3>2. proposals = {p \in TrueProposals : p.string \notin todo}
      BY <1>2, <2>3, <3>1, TrueTypes
    <3>. QED  BY <1>1, <1>2, <2>1, <2>3, <3>2 DEF ProposedInv, InStrings, Sampling, InNodes
  <2>. QED  BY <1>1, <2>2, <2>3
<1>4. (pc \in Sampling => SampleInv)'
  <2>. SUFFICES ASSUME pc' = "sample" PROVE SampleInv'
    BY <1>1 DEF Sampling
  <2>1. /\ Sampled(klass)' = Sampled(klass) /\ Cached(klass)' = Cached(klass)
        /\ Match(klass, model)' = Match(klass, model)
    BY <1>1, SamePlaces, SameStrings
  <2>2. Cached(klass) \ left' = {} /\ Match(klass, model) \ left' = {}
    BY <1>1, CachedFinite
  <2>. QED  BY <1>1, <2>1, <2>2, FS_EmptySet DEF SampleInv
<1>. QED  BY <1>1, <1>2, <1>3, <1>4 DEF SoundInv, NodesInv, InStrings, Sampling, InNodes

(* A step within a sample leaves the proposals alone.                       *)
LEMMA SoundSample ==
  ASSUME SoundInv, pc \in Sampling, pc' \in Sampling, UNCHANGED scanVars,
         UNCHANGED <<todo, klass, model, reportVars>>, SampleInv'
  PROVE  SoundInv'
<1>1. TrueProposals' = TrueProposals /\ TopGroups(GroupsPerWidth)' = TopGroups(GroupsPerWidth)
  BY SameStrings, SameOrder
<1>2. ProposedInv'
  BY <1>1 DEF SoundInv, ProposedInv, reportVars, InStrings, Sampling, InNodes
<1>3. NodesInv'
  BY DEF SoundInv, NodesInv, reportVars, InStrings, Sampling, InNodes
<1>. QED  BY <1>2, <1>3 DEF SoundInv, Sampling, InNodes

LEMMA SoundReadSample ==
  ASSUME IInv, Sound, ReadSample, Faithful'
  PROVE  SoundInv'
<1>. DEFINE p == Lowest
<1>1. /\ pc = "sample" /\ p \in left /\ p \in Places /\ klass \in Klasses
      /\ ReadAt(p) /\ left' = left \ {p}
      /\ UNCHANGED <<todo, klass, model, evidence, reportVars>>
  BY LowestType DEF IInv, SearchTypes, PhaseInv, Here, Sampling, InStrings, ReadSample
<1>2. Faithful /\ Seen(p) = Scanned(p) /\ UNCHANGED scanVars
  BY <1>1, FaithfulRead
<1>3. /\ left \subseteq Sampled(klass) /\ eligible = Cardinality(Cached(klass) \ left)
      /\ evidence = {MatchOf(q, model) : q \in Match(klass, model) \ left}
  BY <1>1, <1>2 DEF Sound, SoundInv, SampleInv, Sampling
<1>. DEFINE t == Leads(p, model)
            ok == p \in Cached(klass)
<1>4. /\ eligible' = IF ok THEN eligible + 1 ELSE eligible
      /\ IF ok /\ InFile(t) /\ t # p
         THEN pc' = "array" /\ hand' = [NoHand EXCEPT !.at = p, !.text = Scanned(p).text, !.array = t]
         ELSE UNCHANGED <<pc, hand>>
  <2>1. p \in Sampled(klass)
    BY <1>1, <1>3
  <2>2. ok <=> Scanned(p).kind = "string" /\ Scanned(p).klass = klass /\ Scanned(p).text # NoText
    BY <2>1 DEF Cached
  <2>3. t = Target[model][Scanned(p).ref]
    BY DEF Leads
  <2>. QED  BY <1>2, <2>2, <2>3 DEF ReadSample
<1>5. eligible' = Cardinality(Cached(klass) \ left')
  <2>1. IsFiniteSet(Cached(klass) \ left)
    BY <1>1, CachedFinite, FS_Subset
  <2>2. CASE ok
    <3>1. Cached(klass) \ left' = (Cached(klass) \ left) \cup {p} /\ p \notin Cached(klass) \ left
      BY <1>1, <2>2
    <3>. QED  BY <1>3, <1>4, <2>1, <2>2, <3>1, FS_AddElement
  <2>3. CASE ~ ok
    <3>1. Cached(klass) \ left' = Cached(klass) \ left
      BY <1>1, <2>3
    <3>. QED  BY <1>3, <1>4, <2>3, <3>1
  <2>. QED  BY <2>2, <2>3
<1>6. /\ Sampled(klass)' = Sampled(klass) /\ Cached(klass)' = Cached(klass)
      /\ Match(klass, model)' = Match(klass, model)
      /\ \A q : Scanned(q)' = Scanned(q)
      /\ \A q, m : Leads(q, m)' = Leads(q, m) /\ MatchOf(q, m)' = MatchOf(q, m)
  BY <1>1, <1>2, SamePlaces, SameStrings
<1>7. CASE ok /\ InFile(t) /\ t # p
  <2>1. /\ hand'.at = p /\ hand'.text = Scanned(p).text /\ hand'.array = t
        /\ pc' = "array" /\ p \in Cached(klass) \ left'
    BY <1>1, <1>4, <1>7 DEF NoHand
  <2>2. Match(klass, model) \ (left' \cup {p}) = Match(klass, model) \ left
    BY <1>1
  <2>3. left' \subseteq Sampled(klass)
    BY <1>1, <1>3
  <2>. HIDE DEF p, t, ok
  <2>4. SampleInv'
    BY <1>1, <1>3, <1>5, <1>6, <1>7, <2>1, <2>2, <2>3 DEF SampleInv, t
  <2>. QED  BY <1>1, <1>2, <2>1, <2>4, SoundSample DEF Sound, Sampling
<1>8. CASE ~ (ok /\ InFile(t) /\ t # p)
  <2>1. p \notin Match(klass, model)
    BY <1>8 DEF Match
  <2>2. /\ pc' = "sample" /\ left' \subseteq Sampled(klass)
        /\ Match(klass, model) \ left' = Match(klass, model) \ left
    BY <1>1, <1>3, <1>4, <1>8, <2>1
  <2>3. SampleInv'
    BY <1>1, <1>3, <1>5, <1>6, <2>2 DEF SampleInv
  <2>. QED  BY <1>1, <1>2, <2>2, <2>3, SoundSample DEF Sound, Sampling
<1>. QED  BY <1>7, <1>8

LEMMA SoundReadArray ==
  ASSUME IInv, Sound, ReadArray \/ ReadPayload, Faithful'
  PROVE  SoundInv'
<1>. DEFINE p == hand.at
            t == hand.array
<1>1. /\ pc \in {"array", "payload"} /\ pc' \in Sampling
      /\ ReadAt(t) /\ UNCHANGED <<todo, klass, model, left, eligible, reportVars>>
  BY DEF ReadArray, ReadPayload, Sampling
<1>2. Faithful /\ Seen(t) = Scanned(t) /\ UNCHANGED scanVars
  BY <1>1, FaithfulRead
<1>3. /\ left \subseteq Sampled(klass) /\ eligible = Cardinality(Cached(klass) \ left)
      /\ evidence = {MatchOf(q, model) : q \in Match(klass, model) \ (left \cup {p})}
      /\ p \in Cached(klass) \ left
      /\ hand.text = Scanned(p).text
      /\ t = Leads(p, model) /\ t # p
      /\ pc = "payload" =>
           /\ Scanned(t).kind = "array" /\ Scanned(t).klass = hand.aklass
           /\ hand.aklass # klass /\ hand.aklass \in Groups \ Periodic
  BY <1>1, <1>2 DEF Sound, SoundInv, SampleInv, Sampling
<1>4. /\ Sampled(klass)' = Sampled(klass) /\ Cached(klass)' = Cached(klass) /\ Groups' = Groups
      /\ Match(klass, model)' = Match(klass, model)
      /\ \A q : Scanned(q)' = Scanned(q)
      /\ \A q, m : Leads(q, m)' = Leads(q, m) /\ MatchOf(q, m)' = MatchOf(q, m)
  BY <1>1, <1>2, SamePlaces, SameStrings
<1>5. hand \in Hands /\ InFile(t)
  BY <1>1 DEF IInv, SearchTypes, PhaseInv, Here
<1>6. p \in Match(klass, model) <=>
        /\ Scanned(t).kind = "array" /\ Scanned(t).klass # klass
        /\ Scanned(t).klass \in Groups \ Periodic /\ Scanned(t).text = hand.text
  BY <1>3, <1>5 DEF Match
(* The sample is done, and a match if it is one. *)
<1>7. ASSUME pc' = "sample",
             evidence' = {MatchOf(q, model) : q \in Match(klass, model) \ left}
      PROVE  SoundInv'
  <2>1. SampleInv'
    BY <1>1, <1>3, <1>4, <1>7 DEF SampleInv
  <2>. QED  BY <1>1, <1>2, <2>1, SoundSample DEF Sound, Sampling
<1>8. CASE ReadArray
  <2>1. CASE /\ pc' = "payload" /\ hand' = [hand EXCEPT !.aklass = Scanned(t).klass]
             /\ Scanned(t).kind = "array" /\ Scanned(t).klass # klass
             /\ Scanned(t).klass \in Groups \ Periodic
    <3>1. /\ hand'.at = p /\ hand'.text = hand.text /\ hand'.array = t
          /\ hand'.aklass = Scanned(t).klass
      BY <1>5, <2>1 DEF Hands
    <3>2. evidence' = evidence
      BY <1>8 DEF ReadArray
    <3>. HIDE DEF p, t
    <3>3. SampleInv'
      BY <1>1, <1>3, <1>4, <2>1, <3>1, <3>2 DEF SampleInv
    <3>. QED  BY <1>1, <1>2, <2>1, <3>3, SoundSample DEF Sound, Sampling
  <2>2. CASE /\ pc' = "sample"
             /\ ~ (/\ Scanned(t).kind = "array" /\ Scanned(t).klass # klass
                   /\ Scanned(t).klass \in Groups \ Periodic)
    <3>1. Match(klass, model) \ (left \cup {p}) = Match(klass, model) \ left
      BY <1>6, <2>2
    <3>2. evidence' = evidence
      BY <1>8 DEF ReadArray
    <3>. QED  BY <1>3, <1>7, <2>2, <3>1, <3>2
  <2>. QED  BY <1>2, <1>8, <2>1, <2>2 DEF ReadArray
<1>9. CASE ReadPayload
  <2>1. /\ pc = "payload" /\ pc' = "sample"
        /\ evidence' = IF Scanned(t).text = hand.text
                       THEN evidence \cup {[string |-> p, target |-> t, text |-> hand.text,
                                            aklass |-> hand.aklass]}
                       ELSE evidence
    BY <1>2, <1>9 DEF ReadPayload
  <2>2. MatchOf(p, model) =
          [string |-> p, target |-> t, text |-> hand.text, aklass |-> hand.aklass]
    BY <1>3, <2>1 DEF MatchOf
  <2>3. CASE Scanned(t).text = hand.text
    <3>1. Match(klass, model) \ left = (Match(klass, model) \ (left \cup {p})) \cup {p}
      BY <1>3, <1>6, <2>1, <2>3
    <3>2. evidence' = evidence \cup {MatchOf(p, model)}
      BY <2>1, <2>2, <2>3
    <3>. HIDE DEF p, t
    <3>3. evidence' = {MatchOf(q, model) : q \in Match(klass, model) \ left}
      BY <1>3, <3>1, <3>2
    <3>. QED  BY <1>7, <2>1, <3>3
  <2>4. CASE Scanned(t).text # hand.text
    <3>1. Match(klass, model) \ (left \cup {p}) = Match(klass, model) \ left
      BY <1>6, <2>4
    <3>. QED  BY <1>3, <1>7, <2>1, <2>4, <3>1
  <2>. QED  BY <2>3, <2>4
<1>. QED  BY <1>8, <1>9

(* A finite set has as many members as records that name them.              *)
LEMMA OneEach ==
  ASSUME NEW S, IsFiniteSet(S), NEW f, \A x, y \in S : f[x] = f[y] => x = y
  PROVE  Cardinality({f[x] : x \in S}) = Cardinality(S)
<1>. DEFINE T == {f[x] : x \in S}
            g == [x \in S |-> f[x]]
<1>1. g \in Surjection(S, T)
  BY DEF Surjection
<1>2. g \in Injection(S, T)
  <2>1. g \in [S -> T] /\ \A x, y \in S : g[x] = g[y] => x = y
    OBVIOUS
  <2>. QED  BY <2>1 DEF Injection, IsInjective
<1>3. ExistsBijection(S, T)
  BY <1>1, <1>2 DEF ExistsBijection, Bijection
<1>. QED  BY <1>3, FS_Bijection

(* When all samples are followed, the evidence for a class is that of the   *)
(* scan.                                                                    *)
LEMMA WithMatching ==
  ASSUME IInv, SampleInv, pc = "sample", left = {}, NEW a \in Groups \ Periodic
  PROVE  /\ With(a) = {MatchOf(p, model) : p \in Matching(klass, a, model)}
         /\ Cardinality(With(a)) = Cardinality(Matching(klass, a, model))
         /\ Supported(With(a)) <=> Enough(Matching(klass, a, model), model)
<1>. DEFINE M == Matching(klass, a, model)
<1>1. /\ klass \in Klasses /\ IsFiniteSet(Match(klass, model)) /\ Support \in Nat
      /\ evidence = {MatchOf(p, model) : p \in Match(klass, model)}
  <2>1. klass \in Klasses /\ Support \in Nat
    BY DiscoveryAssumption DEF IInv, PhaseInv, InStrings, Sampling
  <2>. QED  BY <2>1, CachedFinite, FS_Subset DEF SampleInv
<1>2. M = {p \in Match(klass, model) : Scanned(Leads(p, model)).klass = a}
  BY DEF Matching, Match
<1>3. With(a) = {MatchOf(p, model) : p \in M}
  BY <1>1, <1>2 DEF With, MatchOf
<1>4. IsFiniteSet(M)
  BY <1>1, <1>2, FS_Subset
<1>. DEFINE f == [p \in M |-> MatchOf(p, model)]
            g == [p \in M |-> Leads(p, model)]
<1>5. Cardinality(With(a)) = Cardinality(M)
  <2>1. \A p, q \in M : f[p] = f[q] => p = q
    BY DEF MatchOf
  <2>2. With(a) = {f[p] : p \in M}
    BY <1>3
  <2>. HIDE DEF f, M
  <2>. QED  BY <1>4, <2>1, <2>2, OneEach
<1>6. /\ {e.string : e \in With(a)} = M
      /\ {e.target : e \in With(a)} = {Leads(p, model) : p \in M}
      /\ {e.text : e \in With(a)} = {Scanned(p).text : p \in M}
  <2>1. \A p : /\ MatchOf(p, model).string = p /\ MatchOf(p, model).target = Leads(p, model)
              /\ MatchOf(p, model).text = Scanned(p).text
    BY DEF MatchOf
  <2>. HIDE DEF M
  <2>2. {e.string : e \in With(a)} = M
    BY <1>3, <2>1
  <2>3. {e.target : e \in With(a)} = {Leads(p, model) : p \in M}
    BY <1>3, <2>1
  <2>4. {e.text : e \in With(a)} = {Scanned(p).text : p \in M}
    BY <1>3, <2>1
  <2>. QED  BY <2>2, <2>3, <2>4
<1>7. Cardinality({Leads(p, model) : p \in M}) <= Cardinality(M)
  <2>1. {Leads(p, model) : p \in M} = {g[p] : p \in M}
    OBVIOUS
  <2>. HIDE DEF M, g
  <2>. QED  BY <1>4, <2>1, ImageFinite
<1>8. /\ Cardinality(M) \in Nat
      /\ Cardinality({Leads(p, model) : p \in M}) \in Nat
  <2>1. {Leads(p, model) : p \in M} = {g[p] : p \in M}
    OBVIOUS
  <2>. HIDE DEF M, g
  <2>. QED  BY <1>4, <2>1, ImageFinite, FS_CardinalityType
<1>9. Supported(With(a)) <=> Enough(M, model)
  <2>1. Supported(With(a)) <=>
          /\ Cardinality(M) >= Support
          /\ Cardinality({Leads(p, model) : p \in M}) >= Support
          /\ Cardinality({Scanned(p).text : p \in M}) >= Support
    BY <1>6 DEF Supported
  <2>2. Enough(M, model) <=>
          /\ Cardinality({Leads(p, model) : p \in M}) >= Support
          /\ Cardinality({Scanned(p).text : p \in M}) >= Support
    BY DEF Enough
  <2>3. Cardinality({Leads(p, model) : p \in M}) >= Support => Cardinality(M) >= Support
    <3>. DEFINE x == Cardinality({Leads(p, model) : p \in M})
                y == Cardinality(M)
    <3>1. x \in Nat /\ y \in Nat /\ x <= y /\ Support \in Nat
      BY <1>1, <1>7, <1>8
    <3>. HIDE DEF x, y
    <3>2. x >= Support => y >= Support
      BY <3>1
    <3>. QED  BY <3>2 DEF x, y
  <2>. HIDE DEF M
  <2>. QED  BY <2>1, <2>2, <2>3
<1>. QED  BY <1>3, <1>5, <1>9

LEMMA ProposedTrue ==
  ASSUME IInv, SampleInv, pc = "sample", left = {}, klass \in TopGroups(GroupsPerWidth)
  PROVE  Proposed = {p \in TrueProposals : p.string = klass /\ p.model = model}
<1>1. /\ model \in Models /\ Support \in Nat \ {0} /\ eligible = Cardinality(Cached(klass))
      /\ Groups \subseteq Klasses
  <2>1. eligible = Cardinality(Cached(klass) \ {})
    BY DEF SampleInv
  <2>. QED  BY <2>1, DiscoveryAssumption
            DEF IInv, SearchTypes, PhaseInv, Sampling, Models, Groups
<1>2. \A a \in Groups \ Periodic :
        /\ Proposal(a) = Binding(klass, a, model)
        /\ Supported(With(a)) <=> Enough(Matching(klass, a, model), model)
  <2>1. ASSUME NEW a \in Groups \ Periodic
        PROVE  /\ Cardinality(With(a)) = Cardinality(Matching(klass, a, model))
               /\ Supported(With(a)) <=> Enough(Matching(klass, a, model), model)
    BY WithMatching
  <2>. QED  BY <1>1, <2>1 DEF Proposal, Binding
<1>3. ASSUME NEW a, a \notin Groups \ Periodic
      PROVE  ~ Supported(With(a))
  <2>1. evidence = {MatchOf(p, model) : p \in Match(klass, model) \ {}}
    BY DEF SampleInv
  <2>2. \A e \in evidence : e.aklass \in Groups \ Periodic
    BY <2>1 DEF MatchOf, Match
  <2>3. With(a) = {}
    BY <1>3, <2>2 DEF With
  <2>4. {e.string : e \in With(a)} = {}
    BY <2>3
  <2>5. Cardinality({e.string : e \in With(a)}) = 0
    BY <2>4, FS_EmptySet
  <2>6. ~ (0 >= Support)
    BY <1>1
  <2>. QED  BY <2>5, <2>6 DEF Supported
<1>4. ASSUME NEW p \in Proposed
      PROVE  p \in TrueProposals /\ p.string = klass /\ p.model = model
  <2>1. PICK a \in Klasses : p = Proposal(a) /\ Supported(With(a))
    BY DEF Proposed
  <2>2. a \in Groups \ Periodic
    BY <1>3, <2>1
  <2>3. p = Binding(klass, a, model) /\ Enough(Matching(klass, a, model), model)
    BY <1>2, <2>1, <2>2
  <2>. DEFINE b == <<klass, a, model>>
  <2>4. /\ b \in TopGroups(GroupsPerWidth) \X (Groups \ Periodic) \X Models
        /\ b[1] = klass /\ b[2] = a /\ b[3] = model
    BY <1>1, <2>2
  <2>. HIDE DEF b
  <2>5. p \in TrueProposals
    BY <2>3, <2>4 DEF TrueProposals
  <2>. QED  BY <2>3, <2>5 DEF Binding
<1>5. ASSUME NEW p \in TrueProposals, p.string = klass, p.model = model
      PROVE  p \in Proposed
  <2>1. PICK b \in TopGroups(GroupsPerWidth) \X (Groups \ Periodic) \X Models :
          p = Binding(b[1], b[2], b[3]) /\ Enough(Matching(b[1], b[2], b[3]), b[3])
    BY DEF TrueProposals
  <2>2. b[1] = klass /\ b[3] = model /\ b[2] \in Groups \ Periodic
    BY <1>5, <2>1 DEF Binding
  <2>3. p = Proposal(b[2]) /\ Supported(With(b[2])) /\ b[2] \in Klasses
    BY <1>1, <1>2, <2>1, <2>2
  <2>. QED  BY <2>3 DEF Proposed
<1>. QED  BY <1>4, <1>5

LEMMA SoundPropose ==
  ASSUME IInv, Sound, Propose, Faithful'
  PROVE  SoundInv'
<1>1. /\ pc = "sample" /\ pc' = "model" /\ left = {} /\ model' = model + 1
      /\ UNCHANGED <<todo, klass, anchors, anchor, nodeProposals>>
      /\ proposals' = proposals \cup Proposed
      /\ Faithful /\ UNCHANGED scanVars
  BY ProposesProposed, FaithfulQuiet DEF Propose
<1>2. /\ todo \subseteq TopGroups(GroupsPerWidth) /\ klass \in TopGroups(GroupsPerWidth)
      /\ proposals = {p \in TrueProposals :
                        p.string \notin todo /\ (p.string = klass => p.model < model)}
      /\ nodeProposals = {} /\ SampleInv
  BY <1>1 DEF Sound, SoundInv, ProposedInv, NodesInv, InStrings, Sampling
<1>3. Proposed = {p \in TrueProposals : p.string = klass /\ p.model = model}
  BY <1>1, <1>2, ProposedTrue
<1>4. klass \notin todo /\ model \in Nat
  BY <1>1 DEF IInv, SearchTypes, PhaseInv, InStrings, Sampling
<1>5. proposals' = {p \in TrueProposals :
                      p.string \notin todo /\ (p.string = klass => p.model < model + 1)}
  <2>1. \A p \in TrueProposals : p.model \in Nat
    BY TrueTypes
  <2>2. \A p \in TrueProposals : p.model < model + 1 <=> p.model < model \/ p.model = model
    BY <1>4, <2>1
  <2>. QED  BY <1>1, <1>2, <1>3, <1>4, <2>2
<1>6. ProposedInv'
  <2>1. TrueProposals' = TrueProposals /\ TopGroups(GroupsPerWidth)' = TopGroups(GroupsPerWidth)
    BY <1>1, SameStrings, SameOrder
  <2>. QED  BY <1>1, <1>2, <1>5, <2>1 DEF ProposedInv, InStrings, InNodes
<1>. QED  BY <1>1, <1>2, <1>6 DEF SoundInv, NodesInv, InStrings, Sampling, InNodes

(* All groups are searched: the proposals are those of the scan, and the     *)
(* best of them are kept.                                                    *)
LEMMA SoundStringsDone ==
  ASSUME IInv, Sound, StringsDone, Faithful'
  PROVE  SoundInv'
<1>1. /\ pc = "group" /\ pc' = "anchor" /\ todo = {} /\ UNCHANGED nodeProposals
      /\ proposals' = Best(proposals, MaxProposals) /\ anchors' = Best(proposals', MaxAnchors)
      /\ Faithful /\ UNCHANGED scanVars
  BY FaithfulQuiet DEF StringsDone
<1>2. proposals = {p \in TrueProposals : p.string \notin {}} /\ nodeProposals = {}
  BY <1>1 DEF Sound, SoundInv, ProposedInv, NodesInv
<1>3. proposals = TrueProposals
  BY <1>2
<1>4. /\ Best(TrueProposals, MaxProposals)' = Best(TrueProposals, MaxProposals)
      /\ Best(proposals, MaxAnchors)' = Best(proposals', MaxAnchors)
  BY <1>1, SameStrings, SameOrder
<1>5. ProposedInv' /\ NodesInv'
  BY <1>1, <1>2, <1>3, <1>4 DEF ProposedInv, NodesInv, InStrings, Sampling, InNodes
<1>. QED  BY <1>1, <1>5 DEF SoundInv, Sampling, InNodes

(* -- nodes -------------------------------------------------------------------------- *)

LEMMA SoundNextAnchor ==
  ASSUME IInv, Sound, NextAnchor, Faithful'
  PROVE  SoundInv'
<1>1. /\ pc = "anchor" /\ pc' = "nodeGroup" /\ UNCHANGED <<proposals, nodeProposals>>
      /\ anchor' \in anchors /\ anchors' \subseteq anchors
      /\ Faithful /\ UNCHANGED scanVars
  BY NextAnchorType, FaithfulQuiet DEF NextAnchor, IInv, SearchTypes, OnceInv
<1>2. /\ Best(TrueProposals, MaxProposals)' = Best(TrueProposals, MaxProposals)
      /\ Best(proposals, MaxAnchors)' = Best(proposals, MaxAnchors)
      /\ \A p : Rests(p)' <=> Rests(p)
  BY <1>1, SameStrings, SameOrder, SameNodes
<1>3. SoundInv
  BY <1>1 DEF Sound
<1>4. ProposedInv' /\ NodesInv'
  BY <1>1, <1>2, <1>3 DEF SoundInv, ProposedInv, NodesInv, Walking, InStrings, Sampling, InNodes
<1>. QED  BY <1>1, <1>4 DEF SoundInv, Sampling, InNodes

(* A step of the nodes leaves the proposals and the anchors alone.          *)
LEMMA SoundNode ==
  ASSUME SoundInv, pc \in InNodes, pc' \in InNodes \cup {"anchor"}, UNCHANGED scanVars,
         UNCHANGED reportVars, pc' \in InNodes \ {"nodeGroup"} => FollowInv'
  PROVE  SoundInv'
<1>. USE DEF reportVars
<1>1. /\ Best(TrueProposals, MaxProposals)' = Best(TrueProposals, MaxProposals)
      /\ Best(proposals, MaxAnchors)' = Best(proposals, MaxAnchors)
      /\ \A p : Rests(p)' <=> Rests(p)
  BY SameStrings, SameOrder, SameNodes
<1>2. ProposedInv' /\ NodesInv'
  BY <1>1 DEF SoundInv, ProposedInv, NodesInv, Walking, InStrings, Sampling, InNodes
<1>. QED  BY <1>2 DEF SoundInv, Sampling, InNodes

LEMMA SoundNextNodeGroup ==
  ASSUME IInv, Sound, NextNodeGroup, Faithful'
  PROVE  SoundInv'
<1>1. /\ pc = "nodeGroup" /\ UNCHANGED reportVars /\ Faithful /\ UNCHANGED scanVars
      /\ \/ pc' = "anchor"
         \/ pc' = "node" /\ klass' = FirstGroup /\ left' = Sampled(FirstGroup) /\ evidence' = {}
  BY FaithfulQuiet DEF NextNodeGroup
<1>2. ASSUME pc' = "node" PROVE FollowInv'
  <2>1. /\ klass' = FirstGroup /\ left' = Sampled(FirstGroup) /\ evidence' = {}
        /\ anchor' = anchor
    BY <1>1, <1>2 DEF reportVars
  <2>. DEFINE k == klass'
  <2>2. Sampled(klass)' = Sampled(k) /\ KeyedNodes(klass, anchor)' = KeyedNodes(k, anchor)
    BY <1>1, <2>1, SamePlaces, SameNodes
  <2>3. KeyedNodes(k, anchor) \ left' = {} /\ left' = Sampled(k)
    BY <2>1 DEF KeyedNodes
  <2>. HIDE DEF k
  <2>. QED  BY <1>2, <2>1, <2>2, <2>3 DEF FollowInv
<1>. QED  BY <1>1, <1>2, SoundNode DEF Sound, InNodes

(* What a place is as a node is the same in the step.                       *)
LEMMA SameFollow ==
  ASSUME UNCHANGED <<scanVars, klass, anchor>>
  PROVE  /\ Sampled(klass)' = Sampled(klass) /\ KeyedNodes(klass, anchor)' = KeyedNodes(klass, anchor)
         /\ \A p : Scanned(p)' = Scanned(p)
         /\ \A p : /\ StringAt(p, anchor)' <=> StringAt(p, anchor)
                   /\ Payload(p, anchor)' = Payload(p, anchor)
                   /\ NodeOf(p, anchor)' = NodeOf(p, anchor)
         /\ \A r : Follow(r)' = Follow(r)
BY SamePlaces, SameNodes DEF Follow

(* The node in hand is no node of the kind looked for, and is dropped.      *)
LEMMA NodeDropped ==
  ASSUME FollowInv, pc # "node", pc' = "node", hand.at \notin KeyedNodes(klass, anchor),
         UNCHANGED <<scanVars, klass, anchor, left, evidence>>
  PROVE  FollowInv'
<1>1. KeyedNodes(klass, anchor) \ (left \cup {hand.at}) = KeyedNodes(klass, anchor) \ left
  OBVIOUS
<1>. QED  BY <1>1, SameFollow DEF FollowInv

(* It is one, and is recorded.                                              *)
LEMMA NodeCounted ==
  ASSUME FollowInv, pc # "node", pc' = "node", hand.at \in KeyedNodes(klass, anchor),
         UNCHANGED <<scanVars, klass, anchor, left>>,
         hand.key = Follow(Scanned(hand.at).ref),
         NEW valued, Record(valued), valued = Valued(hand.at, anchor)
  PROVE  FollowInv'
<1>1. /\ hand.at \notin left
      /\ hand.text = Scanned(hand.at).text /\ hand.next = Scanned(hand.at).next
  BY DEF FollowInv, HandInv
<1>2. [node |-> hand.at, key |-> hand.key, text |-> hand.text,
       linked |-> hand.next # Null, valued |-> valued] = NodeOf(hand.at, anchor)
  BY <1>1 DEF NodeOf, Follow
<1>3. evidence' = evidence \cup {NodeOf(hand.at, anchor)}
  BY <1>2 DEF Record
<1>4. KeyedNodes(klass, anchor) \ left
        = (KeyedNodes(klass, anchor) \ (left \cup {hand.at})) \cup {hand.at}
  BY <1>1
<1>5. evidence = {NodeOf(p, anchor) : p \in KeyedNodes(klass, anchor) \ (left \cup {hand.at})}
  BY DEF FollowInv
<1>6. evidence' = {NodeOf(p, anchor) : p \in KeyedNodes(klass, anchor) \ left}
  BY <1>3, <1>4, <1>5
<1>. QED  BY <1>6, SameFollow DEF FollowInv

LEMMA SoundReadNode ==
  ASSUME IInv, Sound, ReadNode, Faithful'
  PROVE  SoundInv'
<1>. DEFINE p == Lowest
            n == Scanned(p)
<1>1. /\ pc = "node" /\ p \in left /\ ReadAt(p) /\ left' = left \ {p}
      /\ UNCHANGED <<todo, klass, model, evidence, eligible, reportVars>>
  BY LowestType DEF IInv, SearchTypes, ReadNode
<1>2. Faithful /\ Seen(p) = n /\ UNCHANGED scanVars
  BY <1>1, FaithfulRead
<1>3. SoundInv /\ FollowInv
  BY <1>1, <1>2 DEF Sound, SoundInv, InNodes
<1>4. /\ left \subseteq Sampled(klass)
      /\ evidence = {NodeOf(q, anchor) : q \in KeyedNodes(klass, anchor) \ left}
  BY <1>1, <1>3 DEF FollowInv
<1>5. UNCHANGED anchor
  BY <1>1 DEF reportVars
<1>6. CASE n.kind = "node" /\ n.klass = klass /\ InFile(Follow(n.ref))
  <2>1. /\ pc' = "string" /\ hand'.at = p /\ hand'.role = "key" /\ hand'.text = n.text
        /\ hand'.value = n.value /\ hand'.next = n.next /\ hand'.string = Follow(n.ref)
    <3>1. /\ pc' = "string"
          /\ hand' = [NoHand EXCEPT !.at = p, !.role = "key", !.text = n.text,
                        !.value = n.value, !.next = n.next, !.string = Follow(n.ref)]
      BY <1>2, <1>4, <1>6 DEF ReadNode
    <3>. HIDE DEF p, n
    <3>. QED  BY <3>1 DEF NoHand
  <2>2. /\ KeyedNodes(klass, anchor) \ (left' \cup {p}) = KeyedNodes(klass, anchor) \ left
        /\ p \in Sampled(klass) \ left' /\ left' \subseteq Sampled(klass)
    BY <1>1, <1>4
  <2>3. HandInv'
    <3>. HIDE DEF p
    <3>. QED  BY <1>1, <1>2, <1>5, <1>6, <2>1, <2>2, SameFollow DEF HandInv, Decoding
  <2>4. FollowInv'
    <3>1. {NodeOf(q, anchor) : q \in KeyedNodes(klass, anchor) \ (left \cup {hand.at})}'
            = {NodeOf(q, anchor) : q \in KeyedNodes(klass, anchor) \ (left' \cup {hand'.at})}
      BY <1>1, <1>2, <1>5, SameFollow
    <3>. HIDE DEF p
    <3>. QED  BY <1>1, <1>2, <1>4, <1>5, <2>1, <2>2, <2>3, <3>1, SameFollow DEF FollowInv
  <2>. QED  BY <1>1, <1>2, <1>3, <2>1, <2>4, SoundNode DEF InNodes
<1>7. CASE ~ (n.kind = "node" /\ n.klass = klass /\ InFile(Follow(n.ref)))
  <2>1. pc' = "node"
    BY <1>1, <1>2, <1>7 DEF ReadNode
  <2>2. p \notin KeyedNodes(klass, anchor)
    BY <1>7 DEF KeyedNodes, StringAt, Follow
  <2>3. KeyedNodes(klass, anchor) \ left' = KeyedNodes(klass, anchor) \ left /\ left' \subseteq Sampled(klass)
    BY <1>1, <1>4, <2>2
  <2>4. FollowInv'
    BY <1>1, <1>2, <1>4, <1>5, <2>1, <2>3, SameFollow DEF FollowInv
  <2>. QED  BY <1>1, <1>2, <1>3, <2>1, <2>4, SoundNode DEF InNodes
<1>. QED  BY <1>6, <1>7

(* The String in hand is none: without a key the node is dropped, without a *)
(* value it is recorded so.                                                  *)
LEMMA NotAString ==
  ASSUME FollowInv, pc \in Decoding, DecodeFails, ~ StringAt(hand.string, anchor),
         UNCHANGED <<scanVars, klass, anchor, left>>
  PROVE  FollowInv' /\ pc' = "node"
<1>1. HandInv /\ pc # "node" /\ pc' = "node"
  BY DEF FollowInv, Decoding, DecodeFails
<1>2. CASE hand.role = "key"
  <2>1. hand.string = Target[anchor.model][Scanned(hand.at).ref]
    BY <1>1, <1>2 DEF HandInv, Follow
  <2>2. hand.at \notin KeyedNodes(klass, anchor)
    BY <2>1 DEF KeyedNodes
  <2>. QED  BY <1>1, <1>2, <2>2, NodeDropped DEF DecodeFails
<1>3. CASE hand.role = "value"
  <2>1. /\ hand.string = Target[anchor.model][Scanned(hand.at).value]
        /\ hand.at \in KeyedNodes(klass, anchor) /\ hand.key = Follow(Scanned(hand.at).ref)
    BY <1>1, <1>3 DEF HandInv, Follow
  <2>2. FALSE = Valued(hand.at, anchor)
    BY <2>1 DEF Valued
  <2>3. Record(FALSE)
    BY <1>3 DEF DecodeFails
  <2>. QED  BY <1>1, <2>1, <2>2, <2>3, NodeCounted
<1>. QED  BY <1>1, <1>2, <1>3 DEF HandInv

LEMMA SoundReadString ==
  ASSUME IInv, Sound, ReadString, Faithful'
  PROVE  SoundInv'
<1>. DEFINE s == Scanned(hand.string)
            t == Follow(s.ref)
<1>1. /\ pc = "string" /\ ReadAt(hand.string) /\ hand \in Hands /\ InFile(hand.string)
      /\ UNCHANGED <<todo, klass, model, left, eligible, reportVars>> /\ UNCHANGED anchor
  BY DEF IInv, SearchTypes, PhaseInv, Here, ReadString, reportVars
<1>2. Faithful /\ Seen(hand.string) = s /\ UNCHANGED scanVars
  BY <1>1, FaithfulRead
<1>3. SoundInv /\ FollowInv /\ HandInv
  BY <1>1, <1>2 DEF Sound, SoundInv, FollowInv, InNodes
<1>4. \/ /\ s.kind = "string" /\ s.klass = anchor.string /\ InFile(t)
         /\ pc' = "nodeArray" /\ hand' = [hand EXCEPT !.cached = s.text, !.array = t]
         /\ UNCHANGED evidence
      \/ ~ (s.kind = "string" /\ s.klass = anchor.string /\ InFile(t)) /\ DecodeFails
  BY <1>2 DEF ReadString
<1>5. CASE /\ s.kind = "string" /\ s.klass = anchor.string
           /\ pc' = "nodeArray" /\ hand' = [hand EXCEPT !.cached = s.text, !.array = t]
           /\ UNCHANGED evidence
  <2>1. /\ hand'.at = hand.at /\ hand'.role = hand.role /\ hand'.text = hand.text
        /\ hand'.value = hand.value /\ hand'.next = hand.next /\ hand'.string = hand.string
        /\ hand'.key = hand.key /\ hand'.cached = s.text /\ hand'.array = t
    <3>. HIDE DEF s, t
    <3>. QED  BY <1>1, <1>5 DEF Hands
  <2>2. HandInv'
    BY <1>1, <1>2, <1>3, <1>5, <2>1, SameFollow DEF HandInv, Decoding
  <2>3. FollowInv'
    BY <1>1, <1>2, <1>3, <1>5, <2>1, <2>2, SameFollow DEF FollowInv
  <2>. QED  BY <1>1, <1>2, <1>3, <1>5, <2>3, SoundNode DEF InNodes
<1>6. CASE ~ (s.kind = "string" /\ s.klass = anchor.string /\ InFile(t)) /\ DecodeFails
  <2>1. ~ StringAt(hand.string, anchor)
    BY <1>6 DEF StringAt, Follow
  <2>2. FollowInv' /\ pc' = "node"
    BY <1>1, <1>2, <1>3, <1>6, <2>1, NotAString DEF Decoding
  <2>. QED  BY <1>1, <1>2, <1>3, <2>2, SoundNode DEF InNodes
<1>. QED  BY <1>4, <1>5, <1>6

LEMMA SoundReadNodeArray ==
  ASSUME IInv, Sound, ReadNodeArray, Faithful'
  PROVE  SoundInv'
<1>. DEFINE a == Scanned(hand.array)
<1>1. /\ pc = "nodeArray" /\ ReadAt(hand.array)
      /\ UNCHANGED <<todo, klass, model, left, eligible, reportVars>> /\ UNCHANGED anchor
  BY DEF ReadNodeArray, reportVars
<1>2. Faithful /\ Seen(hand.array) = a /\ UNCHANGED scanVars
  BY <1>1, FaithfulRead
<1>3. SoundInv /\ FollowInv /\ HandInv
  BY <1>1, <1>2 DEF Sound, SoundInv, FollowInv, InNodes
<1>4. CASE /\ a.kind = "array" /\ a.klass = anchor.array
           /\ pc' = "nodePayload" /\ UNCHANGED <<hand, evidence>>
  <2>1. HandInv'
    BY <1>1, <1>2, <1>3, <1>4, SameFollow DEF HandInv, Decoding
  <2>2. FollowInv'
    BY <1>1, <1>2, <1>3, <1>4, <2>1, SameFollow DEF FollowInv
  <2>. QED  BY <1>1, <1>2, <1>3, <1>4, <2>2, SoundNode DEF InNodes
<1>5. CASE /\ ~ (a.kind = "array" /\ a.klass = anchor.array /\ hand.array # hand.string)
           /\ DecodeFails
  <2>1. /\ Scanned(hand.string).kind = "string"
        /\ hand.array = Target[anchor.model][Scanned(hand.string).ref]
    BY <1>1, <1>3 DEF HandInv, Follow
  <2>2. ~ StringAt(hand.string, anchor)
    BY <1>5, <2>1 DEF StringAt
  <2>3. FollowInv' /\ pc' = "node"
    BY <1>1, <1>2, <1>3, <1>5, <2>2, NotAString DEF Decoding
  <2>. QED  BY <1>1, <1>2, <1>3, <2>3, SoundNode DEF InNodes
<1>. QED  BY <1>2, <1>4, <1>5 DEF ReadNodeArray

LEMMA SoundReadNodePayload ==
  ASSUME IInv, Sound, ReadNodePayload, Faithful'
  PROVE  SoundInv'
<1>. DEFINE text == Scanned(hand.array).text
            n == Scanned(hand.at)
<1>1. /\ pc = "nodePayload" /\ ReadAt(hand.array) /\ hand \in Hands
      /\ InFile(hand.string) /\ InFile(hand.array)
      /\ UNCHANGED <<todo, klass, model, left, eligible, reportVars>> /\ UNCHANGED anchor
  BY DEF IInv, SearchTypes, PhaseInv, Here, ReadNodePayload, reportVars
<1>2. Faithful /\ Seen(hand.array).text = text /\ UNCHANGED scanVars
  BY <1>1, FaithfulRead
<1>3. SoundInv /\ FollowInv /\ HandInv
  BY <1>1, <1>2 DEF Sound, SoundInv, FollowInv, InNodes
<1>4. /\ hand.at \in Sampled(klass) /\ n.kind = "node" /\ n.klass = klass /\ hand.text = n.text
      /\ hand.cached = Scanned(hand.string).text
      /\ Payload(hand.string, anchor) = text
      /\ StringAt(hand.string, anchor)
      /\ Apart
  <2>1. /\ hand.at \in Sampled(klass) /\ n.kind = "node" /\ n.klass = klass /\ hand.text = n.text
        /\ hand.cached = Scanned(hand.string).text
        /\ Scanned(hand.string).kind = "string" /\ Scanned(hand.string).klass = anchor.string
        /\ hand.array = Target[anchor.model][Scanned(hand.string).ref]
        /\ Scanned(hand.array).kind = "array" /\ Scanned(hand.array).klass = anchor.array
    BY <1>1, <1>3 DEF HandInv, Follow
  <2>. HIDE DEF n
  <2>2. StringAt(hand.string, anchor) /\ Payload(hand.string, anchor) = text
    BY <1>1, <2>1 DEF StringAt, Payload
  <2>3. Apart
    BY <2>1 DEF Apart, n
  <2>. QED  BY <2>1, <2>2, <2>3
<1>5. CASE hand.role = "key"
  <2>1. hand.string = Follow(n.ref) /\ hand.string = Target[anchor.model][n.ref]
    BY <1>1, <1>3, <1>5 DEF HandInv, Follow, Decoding
  <2>2. hand.text \in Texts \cup {NoText} /\ NoText \notin Texts
    BY <1>1, DiscoveryAssumption DEF Hands
  <2>3. CASE KeyAccepted(text)
    <3>1. /\ n.text \in Texts /\ Scanned(hand.string).text = n.text
          /\ Payload(hand.string, anchor) = n.text
      BY <1>4, <2>2, <2>3 DEF KeyAccepted
    <3>2. /\ pc' = "next" /\ UNCHANGED evidence
          /\ hand' = [hand EXCEPT !.key = hand.string]
      BY <1>2, <1>5, <2>3 DEF ReadNodePayload
    <3>3. /\ hand'.at = hand.at /\ hand'.text = hand.text
          /\ hand'.value = hand.value /\ hand'.next = hand.next /\ hand'.key = hand.string
      BY <1>1, <3>2 DEF Hands
    <3>4. HandInv'
      <4>1. /\ hand.at \in Sampled(klass) \ left /\ n.kind = "node" /\ n.klass = klass
            /\ hand.text = n.text /\ hand.value = n.value /\ hand.next = n.next
        BY <1>3 DEF HandInv
      <4>. HIDE DEF text
      <4>. QED  BY <1>1, <1>2, <1>4, <2>1, <3>1, <3>2, <3>3, <4>1, SameFollow DEF HandInv, Decoding
    <3>5. FollowInv'
      BY <1>1, <1>2, <1>3, <3>2, <3>3, <3>4, SameFollow DEF FollowInv
    <3>. QED  BY <1>1, <1>2, <1>3, <3>2, <3>5, SoundNode DEF InNodes
  <2>4. CASE ~ KeyAccepted(text)
    <3>1. hand.at \notin KeyedNodes(klass, anchor)
      <4>1. ASSUME hand.at \in KeyedNodes(klass, anchor)
            PROVE  /\ n.text \in Texts /\ Scanned(hand.string).text = n.text
                   /\ Payload(hand.string, anchor) = n.text
        BY <2>1, <4>1 DEF KeyedNodes
      <4>. QED  BY <1>4, <2>2, <2>4, <4>1 DEF KeyAccepted
    <3>2. pc' = "node" /\ UNCHANGED evidence
      BY <1>2, <1>5, <2>4 DEF ReadNodePayload
    <3>3. FollowInv'
      BY <1>1, <1>2, <1>3, <3>1, <3>2, NodeDropped
    <3>. QED  BY <1>1, <1>2, <1>3, <3>2, <3>3, SoundNode DEF InNodes
  <2>. QED  BY <2>3, <2>4
<1>6. CASE hand.role = "value"
  <2>1. /\ hand.string = Target[anchor.model][n.value]
        /\ hand.at \in KeyedNodes(klass, anchor) /\ hand.key = Follow(n.ref)
    BY <1>1, <1>3, <1>6 DEF HandInv, Follow, Decoding
  <2>2. ValueAccepted(text) = Valued(hand.at, anchor)
    <3>1. ValueAccepted(text) <=> hand.cached \in {NoText, text}
      BY <1>4 DEF ValueAccepted
    <3>2. Valued(hand.at, anchor) <=> hand.cached \in {text, NoText}
      <4>. HIDE DEF text
      <4>. QED  BY <1>4, <2>1 DEF Valued
    <3>3. ValueAccepted(text) \in BOOLEAN /\ Valued(hand.at, anchor) \in BOOLEAN
      BY DEF ValueAccepted, Valued
    <3>. QED  BY <3>1, <3>2, <3>3
  <2>3. Record(ValueAccepted(text)) /\ pc' = "node"
    BY <1>2, <1>6 DEF ReadNodePayload
  <2>4. FollowInv'
    <3>. DEFINE valued == ValueAccepted(text)
    <3>1. Record(valued) /\ valued = Valued(hand.at, anchor)
      BY <2>2, <2>3
    <3>. HIDE DEF valued
    <3>. QED  BY <1>1, <1>2, <1>3, <2>1, <2>3, <3>1, NodeCounted
  <2>. QED  BY <1>1, <1>2, <1>3, <2>3, <2>4, SoundNode DEF InNodes
<1>. QED  BY <1>1, <1>3, <1>5, <1>6 DEF HandInv, Decoding

(* The node counts; its value is decoded if there is one.                   *)
LEMMA OnwardSound ==
  ASSUME FollowInv, pc = "next", hand \in Hands, hand.at \in KeyedNodes(klass, anchor), Onward,
         UNCHANGED <<scanVars, klass, anchor, left>>
  PROVE  FollowInv' /\ pc' \in {"string", "node"}
<1>. DEFINE n == Scanned(hand.at)
<1>1. HandInv /\ hand.value = n.value /\ hand.key = Follow(n.ref)
  BY DEF FollowInv, HandInv
<1>2. CASE InFile(Follow(hand.value))
  <2>1. /\ pc' = "string" /\ UNCHANGED evidence
        /\ hand' = [hand EXCEPT !.role = "value", !.string = Follow(hand.value)]
    BY <1>2 DEF Onward
  <2>2. /\ hand'.at = hand.at /\ hand'.role = "value" /\ hand'.text = hand.text
        /\ hand'.value = hand.value /\ hand'.next = hand.next /\ hand'.key = hand.key
        /\ hand'.string = Follow(hand.value)
    BY <2>1 DEF Hands
  <2>3. HandInv'
    BY <1>1, <2>1, <2>2, SameFollow DEF HandInv, Decoding
  <2>. QED  BY <2>1, <2>2, <2>3, SameFollow DEF FollowInv
<1>3. CASE ~ InFile(Follow(hand.value))
  <2>1. pc' = "node" /\ Record(FALSE)
    BY <1>3 DEF Onward
  <2>2. FALSE = Valued(hand.at, anchor)
    BY <1>1, <1>3 DEF Valued, StringAt, Follow
  <2>. QED  BY <1>1, <2>1, <2>2, NodeCounted
<1>. QED  BY <1>2, <1>3

LEMMA SoundNext ==
  ASSUME IInv, Sound, NoNext \/ ReadNext, Faithful'
  PROVE  SoundInv'
<1>. DEFINE n == Scanned(hand.at)
            m == Follow(hand.next)
<1>1. /\ pc = "next" /\ hand \in Hands
      /\ UNCHANGED <<todo, klass, model, left, eligible, reportVars>> /\ UNCHANGED anchor
      /\ \/ hand.next = Null /\ Onward /\ ReadNothing
         \/ hand.next # Null /\ InFile(m) /\ m # hand.at /\ ReadAt(m)
            /\ Seen(m).klass = klass /\ Onward
         \/ hand.next # Null /\ InFile(m) /\ m # hand.at /\ ReadAt(m)
            /\ Seen(m).klass # klass /\ pc' = "node" /\ UNCHANGED <<hand, evidence>>
         \/ hand.next # Null /\ ~ (InFile(m) /\ m # hand.at)
            /\ ReadNothing /\ pc' = "node" /\ UNCHANGED <<hand, evidence>>
  BY DEF IInv, SearchTypes, NoNext, ReadNext, reportVars
<1>2. /\ Faithful /\ UNCHANGED scanVars
      /\ ReadAt(m) => Seen(m) = Scanned(m)
  BY <1>1, FaithfulRead, FaithfulQuiet
<1>3. SoundInv /\ FollowInv /\ HandInv
  BY <1>1, <1>2 DEF Sound, SoundInv, FollowInv, InNodes
<1>4. /\ hand.at \in Sampled(klass) /\ n.kind = "node" /\ n.klass = klass /\ hand.next = n.next
      /\ m = Target[anchor.model][n.next]
      /\ StringAt(Target[anchor.model][n.ref], anchor) /\ n.text \in Texts
      /\ Scanned(Target[anchor.model][n.ref]).text = n.text
      /\ Payload(Target[anchor.model][n.ref], anchor) = n.text
  BY <1>1, <1>3 DEF HandInv, Follow
<1>5. hand.at \in KeyedNodes(klass, anchor) <=>
        hand.next = Null \/ (m # hand.at /\ InFile(m) /\ Scanned(m).klass = klass)
  <2>. HIDE DEF m
  <2>. QED  BY <1>4 DEF KeyedNodes
<1>6. CASE hand.at \in KeyedNodes(klass, anchor)
  <2>1. Onward
    BY <1>1, <1>2, <1>5, <1>6
  <2>2. FollowInv' /\ pc' \in {"string", "node"}
    BY <1>1, <1>2, <1>3, <1>6, <2>1, OnwardSound
  <2>. QED  BY <1>1, <1>2, <1>3, <2>2, SoundNode DEF InNodes
<1>7. CASE hand.at \notin KeyedNodes(klass, anchor)
  <2>1. pc' = "node" /\ UNCHANGED <<hand, evidence>>
    BY <1>1, <1>2, <1>5, <1>7
  <2>2. FollowInv'
    BY <1>1, <1>2, <1>3, <1>7, <2>1, NodeDropped
  <2>. QED  BY <1>1, <1>2, <1>3, <2>1, <2>2, SoundNode DEF InNodes
<1>. QED  BY <1>6, <1>7

(* What is proposed of a group of nodes has their counts.                    *)
NodeProposal ==
  [anchor |-> anchor, node |-> klass, matches |-> Cardinality(evidence),
   values |-> Cardinality({e \in evidence : e.valued}),
   linked |-> Cardinality({e \in evidence : e.linked})]

LEMMA NodeProposalRests ==
  ASSUME IInv, FollowInv, pc = "node", left = {}, NodesSupported(evidence)
  PROVE  Rests(NodeProposal)
<1>. DEFINE found == KeyedNodes(klass, anchor)
            V     == {n \in found : Valued(n, anchor)}
            L     == {n \in found : Scanned(n).next # Null}
            f     == [p \in found |-> NodeOf(p, anchor)]
<1>1. evidence = {NodeOf(p, anchor) : p \in found}
  BY DEF FollowInv
<1>2. \A p : /\ NodeOf(p, anchor).node = p
             /\ NodeOf(p, anchor).key = Target[anchor.model][Scanned(p).ref]
             /\ NodeOf(p, anchor).valued = Valued(p, anchor)
             /\ NodeOf(p, anchor).linked = (Scanned(p).next # Null)
  BY DEF NodeOf
<1>3. IsFiniteSet(found)
  <2>1. found \subseteq Here
    BY DEF KeyedNodes, Sampled, Sample, Group, Here
  <2>. QED  BY <2>1, PlacesFinite, FS_Subset
<1>4. \A S \in SUBSET found : Cardinality({NodeOf(p, anchor) : p \in S}) = Cardinality(S)
  <2>1. SUFFICES ASSUME NEW S \in SUBSET found
                 PROVE  Cardinality({NodeOf(p, anchor) : p \in S}) = Cardinality(S)
    OBVIOUS
  <2>2. IsFiniteSet(S)
    BY <1>3, <2>1, FS_Subset
  <2>3. \A p \in S : f[p].node = p
    BY <1>2, <2>1
  <2>4. {NodeOf(p, anchor) : p \in S} = {f[p] : p \in S}
    BY <2>1
  <2>. HIDE DEF f, found
  <2>5. \A p, q \in S : f[p] = f[q] => p = q
    BY <2>3
  <2>6. Cardinality({f[p] : p \in S}) = Cardinality(S)
    BY <2>2, <2>5, OneEach
  <2>. QED  BY <2>4, <2>6
<1>. HIDE DEF f
<1>5. {e \in evidence : e.valued} = {NodeOf(p, anchor) : p \in V}
  <2>1. \A p : NodeOf(p, anchor).valued <=> Valued(p, anchor)
    BY <1>2
  <2>. HIDE DEF found
  <2>. QED  BY <1>1, <2>1
<1>6. {e \in evidence : e.linked} = {NodeOf(p, anchor) : p \in L}
  <2>1. \A p : NodeOf(p, anchor).linked <=> Scanned(p).next # Null
    BY <1>2
  <2>. HIDE DEF found
  <2>. QED  BY <1>1, <2>1
<1>7. {e.key : e \in evidence} = {Target[anchor.model][Scanned(n).ref] : n \in found}
  <2>. HIDE DEF found
  <2>. QED  BY <1>1, <1>2
<1>8. /\ Cardinality(evidence) = Cardinality(found)
      /\ Cardinality({e \in evidence : e.valued}) = Cardinality(V)
      /\ Cardinality({e \in evidence : e.linked}) = Cardinality(L)
  <2>1. found \in SUBSET found /\ V \in SUBSET found /\ L \in SUBSET found
    OBVIOUS
  <2>. HIDE DEF found, V, L
  <2>. QED  BY <1>1, <1>4, <1>5, <1>6, <2>1
<1>9. Cardinality({Target[anchor.model][Scanned(n).ref] : n \in found}) >= Support
  BY <1>7 DEF NodesSupported
<1>. QED  BY <1>8, <1>9 DEF Rests, NodeProposal

LEMMA SoundProposeNode ==
  ASSUME IInv, Sound, ProposeNode \/ NodesDone, Faithful'
  PROVE  SoundInv'
<1>1. /\ UNCHANGED <<searchVars, proposals, anchors, anchor>> /\ Faithful
      /\ UNCHANGED scanVars
      /\ \/ pc = "node" /\ pc' = "nodeGroup" /\ left = {}
         \/ pc = "anchor" /\ pc' = "reopen"
      /\ \A p \in nodeProposals' :
           p \in nodeProposals
             \/ (pc = "node" /\ left = {} /\ NodesSupported(evidence) /\ p = NodeProposal)
  BY FaithfulQuiet DEF ProposeNode, NodesDone, NodeProposal, BestNodes
<1>2. SoundInv
  BY <1>1 DEF Sound
<1>3. /\ Best(TrueProposals, MaxProposals)' = Best(TrueProposals, MaxProposals)
      /\ Best(proposals, MaxAnchors)' = Best(proposals, MaxAnchors)
      /\ \A p : Rests(p)' <=> Rests(p)
  BY <1>1, SameStrings, SameOrder, SameNodes
<1>4. \A p \in nodeProposals' : p.anchor \in Best(proposals, MaxAnchors) /\ Rests(p)
  <2>1. ASSUME pc = "node", left = {}, NodesSupported(evidence)
        PROVE  NodeProposal.anchor \in Best(proposals, MaxAnchors) /\ Rests(NodeProposal)
    <3>1. FollowInv /\ anchor \in Best(proposals, MaxAnchors)
      BY <1>2, <2>1 DEF SoundInv, NodesInv, InNodes
    <3>. QED  BY <2>1, <3>1, NodeProposalRests DEF NodeProposal
  <2>2. \A p \in nodeProposals : p.anchor \in Best(proposals, MaxAnchors) /\ Rests(p)
    BY <1>1, <1>2 DEF SoundInv, NodesInv
  <2>. QED  BY <1>1, <2>1, <2>2
<1>5. ProposedInv'
  BY <1>1, <1>2, <1>3 DEF SoundInv, ProposedInv, InStrings, Sampling, InNodes
<1>6. NodesInv'
  BY <1>1, <1>2, <1>3, <1>4 DEF SoundInv, NodesInv, Walking, InStrings, Sampling, InNodes
<1>. QED  BY <1>1, <1>5, <1>6 DEF SoundInv, Sampling, InNodes

(* -- what is published ------------------------------------------------------------ *)

LEMMA InitSound == Init => Sound
<1>. SUFFICES ASSUME Init PROVE Sound
  OBVIOUS
<1>1. pc = "open" /\ nodeProposals = {}
  BY DEF Init
<1>. QED  BY <1>1 DEF Sound, SoundInv, ProposedInv, NodesInv, Walking, InStrings, Sampling, InNodes

LEMMA NextSound == IInv /\ Sound /\ [Next]_vars => Sound'
<1>. SUFFICES ASSUME IInv, Sound, [Next]_vars, Faithful' PROVE SoundInv'
  BY DEF Sound
<1>1. CASE Scan
  <2>1. pc \in Walking /\ pc' \in Walking /\ UNCHANGED readVars
    BY <1>1 DEF Scan, WalkOpen, WalkWindow, WalkEnd, Walking
  <2>. QED  BY <2>1, SoundScan DEF Sound
<1>2. CASE Strings
  BY <1>2, SoundNextGroup, SoundStartModel, SoundReadSample, SoundReadArray, SoundPropose DEF Strings
<1>3. CASE Nodes
  BY <1>3, SoundNextAnchor, SoundNextNodeGroup, SoundReadNode, SoundReadString, SoundReadNodeArray,
     SoundReadNodePayload, SoundNext, SoundProposeNode DEF Nodes
<1>4. CASE Rehash \/ Fail \/ Writers \/ UNCHANGED vars
  <2>1. /\ UNCHANGED <<searchVars, reportVars, facts>> /\ UNCHANGED scanVars
        /\ pc' = pc \/ pc' = "failed" \/ (pc \in Ending /\ pc' \in Ending)
    BY <1>4 DEF Rehash, RecheckOpen, RehashChunk, RecheckVerdict, Fail, Abort, Writers, Ending, vars,
                readVars, indexVars, walkVars, scanVars
  <2>2. SoundInv
    BY <2>1 DEF Sound, Faithful, scanVars
  <2>. QED  BY <2>1, <2>2, SoundRests
<1>. QED  BY <1>1, <1>2, <1>3, <1>4, SoundOpen, SoundStringsDone, SoundProposeNode DEF Next, Command

LEMMA DiscoverySound == Spec => [](IInv /\ Sound)
BY InitIInv, NextIInv, InitSound, NextSound, PTL DEF Spec

LEMMA PublishedIsSound ==
  ASSUME IInv, Sound, pc = "complete"
  PROVE  SoundInv
<1>1. Faithful
  BY DEF IInv, CaptureInv, SpoilInv, RehashInv, Spoiled, Faithful
<1>. QED  BY <1>1 DEF Sound

(* The String and byte[] bindings of a published report are those that the  *)
(* sampled offsets of the groups support in the scanned capture, counted    *)
(* over the samples, and the best of them if there are more than the limit: *)
(* whichever gaps are listed and whatever the writers do, no sample is left *)
(* out, none is read as what it is not, and no evidence is carried from one *)
(* group or hypothesis over to another (discovery.rs, discover).  Of the    *)
(* offsets that are no samples it says nothing, as the code does not.       *)
THEOREM DiscoveryProposals == Spec => []ProposalsAreSupported
<1>1. IInv /\ Sound => ProposalsAreSupported
  BY PublishedIsSound DEF SoundInv, ProposedInv, ProposalsAreSupported
<1>. QED  BY <1>1, DiscoverySound, PTL

(* A Node binding of a published report belongs to a String binding of the  *)
(* report, and its counts are those of the sampled offsets that the scanned *)
(* capture has a keyed node at, whichever of the reads of a node, its key,  *)
(* its next node and its value ended early (discovery/nodes.rs, discover).  *)
THEOREM DiscoveryNodes == Spec => []NodesRestOnProposals
<1>1. IInv /\ Sound => NodesRestOnProposals
  <2>. SUFFICES ASSUME IInv, Sound, pc = "complete", NEW p \in nodeProposals
                PROVE  p.anchor \in Best(proposals, MaxAnchors) /\ Rests(p)
    BY DEF NodesRestOnProposals, Rests
  <2>. QED  BY PublishedIsSound DEF SoundInv, NodesInv
<1>. QED  BY <1>1, DiscoverySound, PTL

(* -- references: the mappings ------------------------------------------------------ *)

MapRec == [start : Nat, end : Nat, offset : Nat]

LEMMA UpTo == \A n \in Nat : IsFiniteSet(1 .. n) /\ Cardinality(1 .. n) = n
BY FS_Interval

LEMMA MapStarts ==
  ASSUME NEW ms \in Seq(MapRec)
  PROVE  /\ DOMAIN ms = 1 .. Len(ms) /\ Len(ms) \in Nat /\ DOMAIN ms \subseteq Nat
         /\ \A i \in DOMAIN ms : ms[i] \in MapRec /\ ms[i].start \in Nat
<1>1. DOMAIN ms = 1 .. Len(ms) /\ Len(ms) \in Nat
  OBVIOUS
<1>2. \A i \in DOMAIN ms : ms[i] \in MapRec
  OBVIOUS
<1>3. \A m \in MapRec : m.start \in Nat
  BY DEF MapRec
<1>. QED  BY <1>1, <1>2, <1>3

(* The sort permutes: a rank is the position of one mapping.               *)
LEMMA RankIsPosition ==
  ASSUME NEW ms \in Seq(MapRec)
  PROVE  LET r == [i \in DOMAIN ms |-> Rank(ms, i)]
         IN  /\ r \in Bijection(DOMAIN ms, DOMAIN ms)
             /\ \A i, j \in DOMAIN ms : ms[j].start < ms[i].start => r[j] < r[i]
<1>. DEFINE D         == DOMAIN ms
            Ahd(j, i) == ms[j].start < ms[i].start \/ (ms[j].start = ms[i].start /\ j <= i)
            B(i)      == {j \in D : Ahd(j, i)}
            r         == [i \in D |-> Rank(ms, i)]
<1>1. D = 1 .. Len(ms) /\ Len(ms) \in Nat /\ \A i \in D : ms[i].start \in Nat
  BY MapStarts
<1>2. IsFiniteSet(D) /\ Cardinality(D) = Len(ms) /\ D \subseteq Nat
  BY <1>1, UpTo
<1>3. \A i \in D : r[i] = Cardinality(B(i))
  BY DEF Rank
<1>4. /\ \A i \in D : Ahd(i, i)
      /\ \A i, j \in D : i # j => (Ahd(j, i) <=> ~ Ahd(i, j))
      /\ \A i, j, k \in D : Ahd(i, j) /\ Ahd(j, k) => Ahd(i, k)
      /\ \A i, j \in D : ms[j].start < ms[i].start => Ahd(j, i) /\ i # j
  BY <1>1, <1>2
<1>. HIDE DEF Ahd, r
<1>5. \A i \in D : IsFiniteSet(B(i)) /\ r[i] \in Nat /\ r[i] <= Len(ms)
  <2>1. \A i \in D : B(i) \in SUBSET D
    OBVIOUS
  <2>. HIDE DEF B, D
  <2>. QED  BY <1>2, <1>3, <2>1, FS_Subset, FS_CardinalityType
<1>6. ASSUME NEW i \in D, NEW j \in D, i # j, Ahd(j, i)
      PROVE  r[j] < r[i]
  <2>1. B(j) \subseteq B(i) \ {i} /\ i \in B(i)
    BY <1>4, <1>6
  <2>2. Cardinality(B(i) \ {i}) = Cardinality(B(i)) - 1 /\ IsFiniteSet(B(i) \ {i})
    BY <1>5, <2>1, FS_RemoveElement
  <2>3. Cardinality(B(j)) <= Cardinality(B(i) \ {i})
    BY <2>1, <2>2, FS_Subset
  <2>. HIDE DEF B, D
  <2>. QED  BY <1>3, <1>5, <2>2, <2>3
<1>7. \A i \in D : r[i] >= 1
  <2>1. \A i \in D : i \in B(i)
    BY <1>4
  <2>. HIDE DEF B, D
  <2>2. \A i \in D : r[i] # 0
    BY <1>3, <1>5, <2>1, FS_EmptySet
  <2>. QED  BY <1>5, <2>2
<1>8. r \in [D -> D]
  <2>1. \A i \in D : r[i] \in 1 .. Len(ms)
    <3>. HIDE DEF B, D
    <3>. QED  BY <1>5, <1>7
  <2>. QED  BY <1>1, <2>1 DEF r
<1>9. \A i, j \in D : r[i] = r[j] => i = j
  <2>. SUFFICES ASSUME NEW i \in D, NEW j \in D, i # j PROVE r[i] # r[j]
    OBVIOUS
  <2>1. r[j] < r[i] \/ r[i] < r[j]
    BY <1>4, <1>6
  <2>2. r[i] \in Nat /\ r[j] \in Nat
    BY <1>5
  <2>. QED  BY <2>1, <2>2
<1>10. r \in Injection(D, D)
  BY <1>8, <1>9 DEF Injection, IsInjective
<1>11. r \in Surjection(D, D)
  BY <1>2, <1>10, FS_Injection
<1>12. \A i, j \in D : ms[j].start < ms[i].start => r[j] < r[i]
  BY <1>4, <1>6
<1>. QED  BY <1>10, <1>11, <1>12 DEF Bijection, r

LEMMA SortPermutes ==
  ASSUME NEW ms \in Seq(MapRec)
  PROVE  \E p \in Bijection(DOMAIN ms, DOMAIN ms) :
           /\ Sorted(ms) = [n \in DOMAIN ms |-> ms[p[n]]]
           /\ \A i, j \in DOMAIN ms : i < j => ms[p[i]].start <= ms[p[j]].start
<1>. DEFINE D == DOMAIN ms
            r == [i \in D |-> Rank(ms, i)]
            p == [n \in D |-> CHOOSE i \in D : Rank(ms, i) = n]
<1>1. r \in Bijection(D, D) /\ \A i, j \in D : ms[j].start < ms[i].start => r[j] < r[i]
  BY RankIsPosition
<1>2. /\ D \subseteq Nat /\ \A i \in D : ms[i].start \in Nat
      /\ \A i \in D : r[i] \in D
  <2>1. r \in [D -> D]
    BY <1>1 DEF Bijection, Surjection
  <2>. QED  BY <2>1, MapStarts
<1>3. \A n \in D : p[n] \in D /\ r[p[n]] = n
  BY <1>1 DEF Bijection, Surjection
<1>4. \A i, j \in D : r[i] = r[j] => i = j
  BY <1>1 DEF Bijection, Injection, IsInjective
<1>5. Sorted(ms) = [n \in D |-> ms[p[n]]]
  BY DEF Sorted
<1>. HIDE DEF r
<1>6. p \in Bijection(D, D)
  <2>1. p \in [D -> D]
    BY <1>3
  <2>. HIDE DEF p, D
  <2>2. \A i, j \in D : p[i] = p[j] => i = j
    BY <1>3
  <2>3. \A i \in D : r[i] \in D /\ p[r[i]] = i
    BY <1>2, <1>3, <1>4
  <2>. QED  BY <2>1, <2>2, <2>3 DEF Bijection, Injection, Surjection, IsInjective
<1>7. \A i, j \in D : i < j => ms[p[i]].start <= ms[p[j]].start
  <2>0. \A i \in D : p[i] \in D /\ ms[p[i]].start \in Nat
    BY <1>2, <1>3
  <2>. HIDE DEF p, D
  <2>. SUFFICES ASSUME NEW i \in D, NEW j \in D, i < j, ms[p[j]].start < ms[p[i]].start PROVE FALSE
    BY <2>0
  <2>1. /\ r[p[j]] < r[p[i]] /\ r[p[j]] = j /\ r[p[i]] = i
        /\ i \in Nat /\ j \in Nat
    BY <1>1, <1>2, <1>3
  <2>. QED  BY <2>1
<1>. QED  BY <1>5, <1>6, <1>7

(* The mappings are those of the lines, one for one, in some order; each   *)
(* lies in the file; and once sorted they come one after the other.        *)
Parsed(ms) == \E f \in Bijection(DOMAIN ms, HeapLines) :
                \A i \in DOMAIN ms : ms[i] = Mapping(lines[f[i]])
MapsFit(ms) == \A i \in DOMAIN ms : /\ ms[i].start < ms[i].end
                                   /\ ms[i].offset + (ms[i].end - ms[i].start) <= HeapBytes
InTurn(ms) == \A i, j \in DOMAIN ms : i < j => ms[i].end <= ms[j].start

Refusable == \/ HeapLines = {}
             \/ Cardinality(HeapLines) > MaxMappings
             \/ \E i \in HeapLines : OutsideHeap(lines[i])
             \/ ~ Disjoint

MapsInv ==
  /\ stage \in {"parse", "opened", "resolved", "refused"}
  /\ layout \in Layouts
  /\ lines \in Seq(Lines) /\ maps \in Seq(MapRec)
  /\ MapsFit(maps)
  /\ stage \in {"parse", "opened"} => Parsed(maps)
  /\ stage \in {"opened", "resolved"} => InTurn(maps)
  /\ stage = "refused" => Refusable
  /\ stage = "resolved" => raw \in Nat /\ target = ReferenceTarget(raw) /\ guess = Hypothesis(raw)

LEMMA LineTypes ==
  ASSUME NEW l \in Lines
  PROVE  /\ l.start \in Nat /\ l.end \in Nat /\ l.offset \in Nat /\ l.heap \in BOOLEAN
         /\ Mapping(l) \in MapRec
         /\ Mapping(l).start = l.start /\ Mapping(l).end = l.end /\ Mapping(l).offset = l.offset
BY ReferencesAssumption DEF Mapping, MapRec

LEMMA HeapLinesType ==
  ASSUME lines \in Seq(Lines)
  PROVE  /\ HeapLines \subseteq Nat /\ IsFiniteSet(HeapLines) /\ Cardinality(HeapLines) \in Nat
         /\ \A i \in HeapLines : i \in DOMAIN lines /\ lines[i] \in Lines /\ lines[i].heap
<1>1. DOMAIN lines = 1 .. Len(lines) /\ Len(lines) \in Nat /\ \A i \in DOMAIN lines : lines[i] \in Lines
  OBVIOUS
<1>2. HeapLines \subseteq 1 .. Len(lines) /\ \A i \in HeapLines : lines[i].heap
  BY <1>1 DEF HeapLines
<1>3. IsFiniteSet(1 .. Len(lines))
  BY <1>1, FS_Interval
<1>4. IsFiniteSet(HeapLines) /\ Cardinality(HeapLines) \in Nat
  BY <1>2, <1>3, FS_Subset, FS_CardinalityType
<1>5. \A i \in HeapLines : i \in DOMAIN lines
  BY <1>1, <1>2
<1>. QED  BY <1>1, <1>2, <1>4, <1>5

(* There are as many mappings as lines, and they are the same.             *)
LEMMA ParsedCounts ==
  ASSUME lines \in Seq(Lines), NEW ms \in Seq(MapRec), Parsed(ms)
  PROVE  /\ Len(ms) = Cardinality(HeapLines)
         /\ {Mapping(lines[i]) : i \in HeapLines} = {ms[i] : i \in DOMAIN ms}
         /\ ms = <<>> => HeapLines = {}
<1>1. PICK f \in Bijection(DOMAIN ms, HeapLines) : \A i \in DOMAIN ms : ms[i] = Mapping(lines[f[i]])
  BY DEF Parsed
<1>2. /\ \A i \in DOMAIN ms : f[i] \in HeapLines
      /\ \A k \in HeapLines : \E i \in DOMAIN ms : f[i] = k
  BY <1>1 DEF Bijection, Surjection
<1>3. {Mapping(lines[i]) : i \in HeapLines} = {ms[i] : i \in DOMAIN ms}
  BY <1>1, <1>2
<1>4. DOMAIN ms = 1 .. Len(ms) /\ Len(ms) \in Nat
  OBVIOUS
<1>5. IsFiniteSet(DOMAIN ms) /\ Cardinality(DOMAIN ms) = Len(ms)
  <2>1. IsFiniteSet(1 .. Len(ms)) /\ Cardinality(1 .. Len(ms)) = Len(ms)
    BY <1>4, UpTo
  <2>. QED  BY <1>4, <2>1
<1>6. ExistsBijection(DOMAIN ms, HeapLines)
  BY <1>1 DEF ExistsBijection
<1>7. Cardinality(HeapLines) = Cardinality(DOMAIN ms)
  BY <1>5, <1>6, FS_Bijection
<1>8. ms = <<>> => HeapLines = {}
  BY <1>2, <1>4
<1>. QED  BY <1>3, <1>5, <1>7, <1>8

(* Sorting keeps the mappings of the lines; neighbours that do not overlap *)
(* make all of them disjoint, and neighbours that do are two lines.        *)
LEMMA SortedMaps ==
  ASSUME lines \in Seq(Lines), NEW ms \in Seq(MapRec), MapsFit(ms), Parsed(ms)
  PROVE  LET s == Sorted(ms)
         IN  /\ s \in Seq(MapRec) /\ Len(s) = Len(ms) /\ MapsFit(s) /\ Parsed(s)
             /\ (\A i \in 1 .. Len(ms) - 1 : s[i].end <= s[i + 1].start) => InTurn(s)
             /\ (\E i \in 1 .. Len(ms) - 1 : s[i].end > s[i + 1].start) => ~ Disjoint
<1>. DEFINE D == DOMAIN ms
            s == Sorted(ms)
<1>1. /\ D = 1 .. Len(ms) /\ Len(ms) \in Nat /\ D \subseteq Nat
      /\ \A i \in D : ms[i] \in MapRec
  BY MapStarts
<1>2. PICK p \in Bijection(D, D) :
        /\ s = [n \in D |-> ms[p[n]]]
        /\ \A i, j \in D : i < j => ms[p[i]].start <= ms[p[j]].start
  BY SortPermutes
<1>. HIDE DEF s
<1>3. p \in [D -> D] /\ \A i, j \in D : p[i] = p[j] => i = j
  BY <1>2 DEF Bijection, Injection, IsInjective
<1>4. s \in Seq(MapRec) /\ Len(s) = Len(ms) /\ DOMAIN s = D
  <2>1. s \in [1 .. Len(ms) -> MapRec]
    BY <1>1, <1>2, <1>3
  <2>. QED  BY <1>1, <2>1
<1>5. MapsFit(s)
  BY <1>2, <1>3, <1>4 DEF MapsFit
<1>6. PICK f \in Bijection(D, HeapLines) : \A i \in D : ms[i] = Mapping(lines[f[i]])
  BY DEF Parsed
<1>. DEFINE g == [i \in D |-> f[p[i]]]
<1>7. g \in Bijection(D, HeapLines) /\ \A i \in D : s[i] = Mapping(lines[g[i]])
  BY <1>2, <1>3, <1>6, Fun_BijTransitive
<1>8. Parsed(s)
  BY <1>4, <1>7 DEF Parsed
<1>9. \A i \in D : /\ s[i].start \in Nat /\ s[i].end \in Nat /\ s[i].start < s[i].end
  <2>1. \A i \in D : s[i] \in MapRec
    BY <1>4
  <2>2. \A m \in MapRec : m.start \in Nat /\ m.end \in Nat
    BY DEF MapRec
  <2>. QED  BY <1>4, <1>5, <2>1, <2>2 DEF MapsFit
<1>10. \A i, j \in D : i < j => s[i].start <= s[j].start
  BY <1>2
<1>11. ASSUME \A i \in 1 .. Len(ms) - 1 : s[i].end <= s[i + 1].start
       PROVE  InTurn(s)
  <2>. SUFFICES ASSUME NEW i \in D, NEW j \in D, i < j PROVE s[i].end <= s[j].start
    BY <1>4 DEF InTurn
  <2>1. i \in 1 .. Len(ms) - 1 /\ i + 1 \in D /\ (i + 1 < j \/ i + 1 = j)
    BY <1>1
  <2>2. s[i].end <= s[i + 1].start
    BY <1>11, <2>1
  <2>3. s[i + 1].start <= s[j].start
    BY <1>9, <1>10, <2>1
  <2>. QED  BY <1>9, <2>1, <2>2, <2>3
<1>12. ASSUME NEW i \in 1 .. Len(ms) - 1, s[i].end > s[i + 1].start
       PROVE  ~ Disjoint
  <2>1. i \in D /\ i + 1 \in D /\ i < i + 1 /\ i # i + 1
    BY <1>1
  <2>2. /\ g[i] \in HeapLines /\ g[i + 1] \in HeapLines /\ g[i] # g[i + 1]
    BY <1>7, <2>1 DEF Bijection, Injection, IsInjective
  <2>3. /\ s[i].start = lines[g[i]].start /\ s[i].end = lines[g[i]].end
        /\ s[i + 1].start = lines[g[i + 1]].start /\ s[i + 1].end = lines[g[i + 1]].end
    <3>1. \A k \in HeapLines : /\ Mapping(lines[k]).start = lines[k].start
                                /\ Mapping(lines[k]).end = lines[k].end
      BY DEF Mapping
    <3>. QED  BY <1>7, <2>1, <2>2, <3>1
  <2>4. ~ (s[i].end <= s[i + 1].start) /\ ~ (s[i + 1].end <= s[i].start)
    BY <1>9, <1>10, <1>12, <2>1
  <2>. QED  BY <2>2, <2>3, <2>4 DEF Disjoint
<1>. QED  BY <1>4, <1>5, <1>8, <1>11, <1>12 DEF s

(* A set of positions with all that lie before each of them is a prefix.   *)
LEMMA InitialSegment ==
  ASSUME NEW n \in Nat, NEW S \in SUBSET (1 .. n),
         \A i \in S, j \in 1 .. n : j < i => j \in S
  PROVE  Cardinality(S) \in 0 .. n /\ S = 1 .. Cardinality(S)
<1>1. {k \in Nat : k + 1 \notin S} \in SUBSET Nat /\ n \in {k \in Nat : k + 1 \notin S}
  OBVIOUS
<1>2. PICK k \in {i \in Nat : i + 1 \notin S} : \A i \in {j \in Nat : j + 1 \notin S} : k <= i
  BY <1>1, NatLeast
<1>3. k \in Nat /\ k + 1 \notin S /\ k <= n
  BY <1>1, <1>2
<1>4. S = 1 .. k
  <2>1. ASSUME NEW i \in S PROVE i \in 1 .. k
    <3>1. i \in Nat /\ i >= 1 /\ i <= n
      OBVIOUS
    <3>2. CASE i > k
      <4>1. i = k + 1 \/ (k + 1 < i /\ k + 1 \in 1 .. n)
        BY <1>3, <3>1, <3>2
      <4>. QED  BY <1>3, <4>1
    <3>. QED  BY <1>3, <3>1, <3>2
  <2>2. ASSUME NEW i \in 1 .. k PROVE i \in S
    <3>1. i - 1 \in Nat /\ i - 1 < k /\ (i - 1) + 1 = i
      BY <1>3
    <3>. QED  BY <1>2, <1>3, <3>1
  <2>. QED  BY <2>1, <2>2
<1>5. Cardinality(S) = k
  BY <1>3, <1>4, UpTo
<1>. QED  BY <1>3, <1>4, <1>5

(* The binary search finds the mapping that has the address, if one has.   *)
LEMMA TranslateFinds ==
  ASSUME NEW ms \in Seq(MapRec), MapsFit(ms), InTurn(ms), NEW a \in Nat
  PROVE  /\ \A i \in DOMAIN ms : a \in ms[i].start .. ms[i].end - 1 =>
              Translate(ms, a) = ms[i].offset + (a - ms[i].start)
         /\ Translate(ms, a) # None =>
              /\ Translate(ms, a) \in 0 .. HeapBytes - 1
              /\ \E i \in DOMAIN ms : a \in ms[i].start .. ms[i].end - 1
<1>. DEFINE D == DOMAIN ms
            S == {i \in D : ms[i].start <= a}
            c == StartsUpTo(ms, a)
<1>1. /\ D = 1 .. Len(ms) /\ Len(ms) \in Nat
      /\ \A i \in D : /\ ms[i].start \in Nat /\ ms[i].end \in Nat /\ ms[i].offset \in Nat
                      /\ ms[i].start < ms[i].end
                      /\ ms[i].offset + (ms[i].end - ms[i].start) <= HeapBytes
  <2>1. \A m \in MapRec : m.start \in Nat /\ m.end \in Nat /\ m.offset \in Nat
    BY DEF MapRec
  <2>2. D = 1 .. Len(ms) /\ Len(ms) \in Nat /\ \A i \in D : ms[i] \in MapRec
    BY MapStarts
  <2>. QED  BY <2>1, <2>2 DEF MapsFit
<1>2. HeapBytes \in Nat
  BY ReferencesAssumption
<1>3. \A i, j \in D : i < j => ms[i].end <= ms[j].start
  BY DEF InTurn
<1>. HIDE DEF D
<1>4. \A i \in S, j \in 1 .. Len(ms) : j < i => j \in S
  <2>. SUFFICES ASSUME NEW i \in S, NEW j \in D, j < i PROVE ms[j].start <= a
    BY <1>1
  <2>1. ms[j].end <= ms[i].start /\ ms[i].start <= a
    BY <1>3
  <2>. QED  BY <1>1, <2>1
<1>5. c = Cardinality(S)
  BY DEF StartsUpTo, D
<1>6. c \in 0 .. Len(ms) /\ S = 1 .. c
  <2>1. S \in SUBSET (1 .. Len(ms))
    BY <1>1
  <2>. HIDE DEF S, c
  <2>. QED  BY <1>1, <1>4, <1>5, <2>1, InitialSegment
<1>7. Translate(ms, a) = IF c = 0 THEN None
                         ELSE IF a >= ms[c].end THEN None ELSE ms[c].offset + a - ms[c].start
  BY DEF Translate
<1>. HIDE DEF c
<1>8. ASSUME NEW i \in D, a \in ms[i].start .. ms[i].end - 1
      PROVE  i = c /\ c # 0
  <2>1. i \in Nat /\ ms[i].start <= a /\ a < ms[i].end
    BY <1>1, <1>8
  <2>2. i \in 1 .. c
    BY <1>6, <2>1
  <2>3. CASE i < c
    <3>1. c \in D /\ ms[c].start <= a
      BY <1>6, <2>2
    <3>2. ms[i].end <= ms[c].start
      BY <1>3, <2>3, <3>1
    <3>. QED  BY <1>1, <2>1, <3>1, <3>2
  <2>. QED  BY <1>6, <2>2, <2>3
<1>9. ASSUME NEW i \in D, a \in ms[i].start .. ms[i].end - 1
      PROVE  Translate(ms, a) = ms[i].offset + (a - ms[i].start)
  <2>1. i = c /\ c # 0 /\ a < ms[i].end
    BY <1>1, <1>8, <1>9
  <2>. QED  BY <1>1, <1>7, <2>1
<1>10. ASSUME Translate(ms, a) # None
       PROVE  /\ Translate(ms, a) \in 0 .. HeapBytes - 1
              /\ \E i \in D : a \in ms[i].start .. ms[i].end - 1
  <2>1. c # 0 /\ ~ (a >= ms[c].end) /\ Translate(ms, a) = ms[c].offset + a - ms[c].start
    BY <1>7, <1>10
  <2>2. c \in D /\ ms[c].start <= a
    <3>1. c \in 1 .. c
      BY <1>6, <2>1
    <3>. QED  BY <1>6, <3>1
  <2>. DEFINE m == ms[c]
  <2>3. /\ m.start \in Nat /\ m.end \in Nat /\ m.offset \in Nat
        /\ m.offset + (m.end - m.start) <= HeapBytes
    BY <1>1, <2>2
  <2>4. m.start <= a /\ a < m.end /\ Translate(ms, a) = m.offset + a - m.start
    BY <2>1, <2>2, <2>3
  <2>5. a \in m.start .. m.end - 1
    BY <2>3, <2>4
  <2>6. Translate(ms, a) \in 0 .. HeapBytes - 1
    <3>. HIDE DEF m
    <3>. QED  BY <1>2, <2>3, <2>4
  <2>. QED  BY <2>2, <2>5, <2>6
<1>. QED  BY <1>9, <1>10 DEF D

(* -- references: parsing ------------------------------------------------------------ *)

LEMMA ParseLineMaps == MapsInv /\ ParseLine => MapsInv'
<1>. SUFFICES ASSUME MapsInv, ParseLine PROVE MapsInv'
  OBVIOUS
<1>. DEFINE n == Len(lines) + 1
<1>1. PICK l \in Lines :
        /\ lines' = Append(lines, l)
        /\ \/ ~ l.heap /\ UNCHANGED <<stage, maps>>
           \/ l.heap /\ OutsideHeap(l) /\ stage' = "refused" /\ UNCHANGED maps
           \/ /\ l.heap /\ ~ OutsideHeap(l)
              /\ maps' = Append(maps, Mapping(l))
              /\ stage' = IF Len(maps') > MaxMappings THEN "refused" ELSE stage
  BY DEF ParseLine
<1>2. /\ stage = "parse" /\ layout' = layout /\ lines \in Seq(Lines) /\ maps \in Seq(MapRec)
      /\ layout \in Layouts /\ MapsFit(maps) /\ Parsed(maps)
  BY DEF ParseLine, MapsInv
<1>3. /\ lines' \in Seq(Lines) /\ Len(lines) \in Nat /\ DOMAIN lines = 1 .. Len(lines)
      /\ DOMAIN lines' = 1 .. n /\ lines'[n] = l
      /\ \A i \in DOMAIN lines : lines'[i] = lines[i]
  BY <1>1, <1>2
<1>4. /\ l.start \in Nat /\ l.end \in Nat /\ l.offset \in Nat
      /\ Mapping(l) \in MapRec
      /\ Mapping(l).start = l.start /\ Mapping(l).end = l.end /\ Mapping(l).offset = l.offset
  BY LineTypes
<1>5. PICK f \in Bijection(DOMAIN maps, HeapLines) :
        \A i \in DOMAIN maps : maps[i] = Mapping(lines[f[i]])
  BY <1>2 DEF Parsed
<1>6. /\ f \in [DOMAIN maps -> HeapLines] /\ HeapLines \subseteq DOMAIN lines /\ n \notin HeapLines
      /\ \A i, j \in DOMAIN maps : f[i] = f[j] => i = j
      /\ \A k \in HeapLines : \E i \in DOMAIN maps : f[i] = k
  <2>1. HeapLines \subseteq DOMAIN lines
    BY DEF HeapLines
  <2>. QED  BY <1>3, <1>5, <2>1 DEF Bijection, Injection, Surjection, IsInjective
<1>7. CASE ~ l.heap /\ UNCHANGED <<stage, maps>>
  <2>1. HeapLines' = HeapLines
    BY <1>3, <1>7 DEF HeapLines
  <2>2. Parsed(maps)'
    BY <1>3, <1>5, <1>6, <1>7, <2>1 DEF Parsed
  <2>. QED  BY <1>2, <1>3, <1>7, <2>2 DEF MapsInv, MapsFit
<1>8. CASE l.heap /\ OutsideHeap(l) /\ stage' = "refused" /\ UNCHANGED maps
  <2>1. n \in HeapLines' /\ OutsideHeap(lines'[n])
    BY <1>3, <1>8 DEF HeapLines
  <2>2. Refusable'
    BY <2>1 DEF Refusable, OutsideHeap
  <2>. QED  BY <1>2, <1>3, <1>8, <2>2 DEF MapsInv, MapsFit
<1>9. CASE /\ l.heap /\ ~ OutsideHeap(l)
           /\ maps' = Append(maps, Mapping(l))
           /\ stage' = IF Len(maps') > MaxMappings THEN "refused" ELSE stage
  <2>. DEFINE m == Len(maps) + 1
              g == [i \in 1 .. m |-> IF i = m THEN n ELSE f[i]]
  <2>1. /\ maps' \in Seq(MapRec) /\ Len(maps) \in Nat /\ DOMAIN maps = 1 .. Len(maps)
        /\ DOMAIN maps' = 1 .. m /\ maps'[m] = Mapping(l) /\ Len(maps') = m
        /\ \A i \in DOMAIN maps : maps'[i] = maps[i]
    BY <1>2, <1>4, <1>9
  <2>2. HeapLines' = HeapLines \cup {n}
    BY <1>3, <1>9 DEF HeapLines
  <2>3. MapsFit(maps)'
    <3>1. l.start < l.end /\ l.offset + (l.end - l.start) <= HeapBytes
      BY <1>4, <1>9, ReferencesAssumption DEF OutsideHeap
    <3>. QED  BY <1>2, <1>4, <2>1, <3>1 DEF MapsFit
  <2>4. g \in Bijection(1 .. m, HeapLines \cup {n})
    <3>1. /\ g \in [1 .. m -> HeapLines \cup {n}] /\ g[m] = n /\ m \in 1 .. m
          /\ \A i \in DOMAIN maps : g[i] = f[i] /\ i \in 1 .. m
          /\ \A i \in 1 .. m : i = m \/ i \in DOMAIN maps
      BY <1>6, <2>1
    <3>. HIDE DEF g, m, n
    <3>2. \A i, j \in 1 .. m : g[i] = g[j] => i = j
      BY <1>6, <3>1
    <3>3. \A k \in HeapLines \cup {n} : \E i \in 1 .. m : g[i] = k
      BY <1>6, <2>1, <3>1
    <3>. QED  BY <3>1, <3>2, <3>3 DEF Bijection, Injection, Surjection, IsInjective
  <2>5. \A i \in 1 .. m : maps'[i] = Mapping(lines'[g[i]])
    <3>1. maps'[m] = Mapping(lines'[g[m]])
      BY <1>3, <2>1
    <3>2. /\ \A i \in DOMAIN maps : g[i] = f[i] /\ f[i] \in DOMAIN lines
          /\ \A i \in 1 .. m : i = m \/ i \in DOMAIN maps
      BY <1>6, <2>1
    <3>. HIDE DEF g, m
    <3>3. \A i \in DOMAIN maps : maps'[i] = Mapping(lines'[g[i]])
      BY <1>3, <1>5, <2>1, <3>2
    <3>. QED  BY <3>1, <3>2, <3>3
  <2>6. Parsed(maps)'
    <3>. HIDE DEF g, m
    <3>1. Parsed(maps)' <=> \E h \in Bijection(DOMAIN maps', HeapLines') :
                              \A i \in DOMAIN maps' : maps'[i] = Mapping(lines'[h[i]])
      BY DEF Parsed, Mapping
    <3>. QED  BY <2>1, <2>2, <2>4, <2>5, <3>1
  <2>7. Len(maps') > MaxMappings => Refusable'
    <3>1. ExistsBijection(1 .. m, HeapLines') /\ m \in Nat
      BY <2>1, <2>2, <2>4 DEF ExistsBijection
    <3>. HIDE DEF m
    <3>2. Cardinality(HeapLines') = m
      BY <3>1, UpTo, FS_Bijection
    <3>. QED  BY <2>1, <3>2 DEF Refusable
  <2>. QED  BY <1>2, <1>3, <1>9, <2>1, <2>3, <2>6, <2>7 DEF MapsInv
<1>. QED  BY <1>1, <1>7, <1>8, <1>9

LEMMA EndOfMapsMaps == MapsInv /\ EndOfMaps => MapsInv'
<1>. SUFFICES ASSUME MapsInv, EndOfMaps PROVE MapsInv'
  OBVIOUS
<1>1. /\ stage = "parse" /\ layout \in Layouts /\ lines \in Seq(Lines) /\ maps \in Seq(MapRec)
      /\ MapsFit(maps) /\ Parsed(maps)
      /\ maps' = Sorted(maps) /\ UNCHANGED <<lines, layout>>
      /\ stage' = IF \/ maps = <<>>
                     \/ \E i \in 1 .. Len(maps) - 1 : Sorted(maps)[i].end > Sorted(maps)[i + 1].start
                  THEN "refused" ELSE "opened"
  BY DEF EndOfMaps, MapsInv
<1>2. /\ maps' \in Seq(MapRec) /\ MapsFit(maps') /\ Parsed(maps')
      /\ (\A i \in 1 .. Len(maps) - 1 : maps'[i].end <= maps'[i + 1].start) => InTurn(maps')
      /\ (\E i \in 1 .. Len(maps) - 1 : maps'[i].end > maps'[i + 1].start) => ~ Disjoint
      /\ Len(maps') = Len(maps)
  BY <1>1, SortedMaps
<1>3. /\ HeapLines' = HeapLines /\ (Disjoint' <=> Disjoint)
  BY <1>1 DEF HeapLines, Disjoint
<1>4. MapsFit(maps)' /\ Parsed(maps)' /\ (InTurn(maps') => InTurn(maps)')
  BY <1>1, <1>2, <1>3 DEF MapsFit, Parsed, InTurn
<1>5. CASE maps = <<>>
  <2>1. Refusable'
    BY <1>1, <1>3, <1>5, ParsedCounts DEF Refusable
  <2>. QED  BY <1>1, <1>2, <1>4, <1>5, <2>1 DEF MapsInv
<1>6. CASE \E i \in 1 .. Len(maps) - 1 : maps'[i].end > maps'[i + 1].start
  <2>1. Refusable'
    BY <1>2, <1>3, <1>6 DEF Refusable
  <2>. QED  BY <1>1, <1>2, <1>4, <1>6, <2>1 DEF MapsInv
<1>7. CASE maps # <<>> /\ ~ \E i \in 1 .. Len(maps) - 1 : maps'[i].end > maps'[i + 1].start
  <2>1. \A i \in DOMAIN maps' : maps'[i].start \in Nat /\ maps'[i].end \in Nat
    <3>1. \A i \in DOMAIN maps' : maps'[i] \in MapRec
      BY <1>2
    <3>2. \A r \in MapRec : r.start \in Nat /\ r.end \in Nat
      BY DEF MapRec
    <3>. QED  BY <3>1, <3>2
  <2>2. \A i \in 1 .. Len(maps) - 1 : i \in DOMAIN maps' /\ i + 1 \in DOMAIN maps'
    <3>1. DOMAIN maps' = 1 .. Len(maps) /\ Len(maps) \in Nat
      BY <1>1, <1>2
    <3>. QED  BY <3>1
  <2>3. \A i \in 1 .. Len(maps) - 1 : maps'[i].end <= maps'[i + 1].start
    BY <1>7, <2>1, <2>2
  <2>. QED  BY <1>1, <1>2, <1>4, <1>7, <2>3 DEF MapsInv
<1>. QED  BY <1>5, <1>6, <1>7

LEMMA NextMaps == MapsInv /\ [ReferencesNext]_referencesVars => MapsInv'
<1>. SUFFICES ASSUME MapsInv, [ReferencesNext]_referencesVars PROVE MapsInv'
  OBVIOUS
<1>1. CASE Resolve
  <2>1. PICK w \in Raws[layout] :
          raw' = w /\ target' = ReferenceTarget(w) /\ guess' = Hypothesis(w)
    BY <1>1 DEF Resolve
  <2>2. /\ stage = "opened" /\ stage' = "resolved" /\ lines' = <<>> /\ UNCHANGED <<maps, layout>>
        /\ layout \in Layouts /\ w \in Nat /\ maps \in Seq(MapRec) /\ MapsFit(maps) /\ InTurn(maps)
    BY <1>1, ReferencesAssumption DEF Resolve, MapsInv
  <2>3. (\A x : ReferenceTarget(x)' = ReferenceTarget(x)) /\ \A x : Hypothesis(x)' = Hypothesis(x)
    BY <2>2 DEF ReferenceTarget, Hypothesis, Address
  <2>4. ReferenceTarget(raw)' = ReferenceTarget(w) /\ Hypothesis(raw)' = Hypothesis(w)
    BY <2>1, <2>2 DEF ReferenceTarget, Hypothesis, Address
  <2>. QED  BY <2>1, <2>2, <2>4 DEF MapsInv, MapsFit, InTurn
<1>2. CASE UNCHANGED referencesVars
  <2>. USE <1>2 DEF referencesVars
  <2>1. Parsed(maps)' <=> Parsed(maps)
    BY DEF Parsed, HeapLines
  <2>2. Refusable' <=> Refusable
    BY DEF Refusable, HeapLines, Disjoint
  <2>3. ReferenceTarget(raw)' = ReferenceTarget(raw) /\ Hypothesis(raw)' = Hypothesis(raw)
    BY DEF ReferenceTarget, Hypothesis, Address
  <2>. QED  BY <2>1, <2>2, <2>3 DEF MapsInv, MapsFit, InTurn
<1>. QED  BY <1>1, <1>2, ParseLineMaps, EndOfMapsMaps DEF ReferencesNext

LEMMA ReferencesMaps == ReferencesSpec => []MapsInv
<1>1. ReferencesInit => MapsInv
  <2>. SUFFICES ASSUME ReferencesInit PROVE MapsInv
    OBVIOUS
  <2>1. /\ stage = "parse" /\ layout \in Layouts /\ lines = <<>> /\ maps = <<>>
        /\ <<>> \in Seq(Lines) /\ <<>> \in Seq(MapRec) /\ DOMAIN <<>> = {}
    BY DEF ReferencesInit
  <2>2. HeapLines = {} /\ MapsFit(maps)
    BY <2>1 DEF HeapLines, MapsFit
  <2>3. <<>> \in Bijection({}, {})
    BY <2>1 DEF Bijection, Injection, Surjection, IsInjective
  <2>4. Parsed(maps)
    BY <2>1, <2>2, <2>3 DEF Parsed
  <2>. QED  BY <2>1, <2>2, <2>4 DEF MapsInv
<1>. QED  BY <1>1, NextMaps, PTL DEF ReferencesSpec

(* The mappings of an index are the heap mappings of maps.txt, each once,   *)
(* whatever the order of the lines; and a maps.txt that is refused has      *)
(* none, too many, one outside the file, or two that overlap (lib.rs,      *)
(* parse_maps).                                                            *)
THEOREM ReferencesParse == ReferencesSpec => []MapsAreTheReadableLines
<1>1. MapsInv => MapsAreTheReadableLines
  <2>. SUFFICES ASSUME MapsInv PROVE MapsAreTheReadableLines
    OBVIOUS
  <2>1. ASSUME stage = "opened"
        PROVE  /\ Disjoint
               /\ Len(maps) = Cardinality(HeapLines)
               /\ {Mapping(lines[i]) : i \in HeapLines} = {maps[i] : i \in DOMAIN maps}
    <3>1. lines \in Seq(Lines) /\ maps \in Seq(MapRec) /\ Parsed(maps) /\ InTurn(maps)
      BY <2>1 DEF MapsInv
    <3>2. PICK f \in Bijection(DOMAIN maps, HeapLines) :
            \A i \in DOMAIN maps : maps[i] = Mapping(lines[f[i]])
      BY <3>1 DEF Parsed
    <3>3. \A k \in HeapLines : \E i \in DOMAIN maps : f[i] = k
      BY <3>2 DEF Bijection, Surjection
    <3>4. DOMAIN maps \subseteq Nat
      BY <3>1, MapStarts
    <3>5. ASSUME NEW k \in HeapLines, NEW h \in HeapLines, k # h
          PROVE  lines[k].end <= lines[h].start \/ lines[h].end <= lines[k].start
      <4>1. PICK i \in DOMAIN maps : f[i] = k
        BY <3>3
      <4>2. PICK j \in DOMAIN maps : f[j] = h
        BY <3>3
      <4>3. /\ maps[i].start = lines[k].start /\ maps[i].end = lines[k].end
            /\ maps[j].start = lines[h].start /\ maps[j].end = lines[h].end
        BY <3>2, <4>1, <4>2 DEF Mapping
      <4>4. i < j \/ j < i
        BY <3>4, <3>5, <4>1, <4>2
      <4>. QED  BY <3>1, <4>3, <4>4 DEF InTurn
    <3>. QED  BY <3>1, <3>5, ParsedCounts DEF Disjoint
  <2>2. stage = "refused" => Refusable
    BY DEF MapsInv
  <2>. QED  BY <2>1, <2>2 DEF MapsAreTheReadableLines, Refusable
<1>. QED  BY <1>1, ReferencesMaps, PTL

(* -- references: the colours -------------------------------------------------------- *)

LEMMA Powers ==
  /\ Pow2(0) = 1 /\ Pow2(1) = 2 /\ Pow2(2) = 4 /\ Pow2(3) = 8 /\ Pow2(4) = 16
  /\ Pow2(12) = 4096 /\ Pow2(13) = 8192 /\ Pow2(14) = 16384 /\ Pow2(15) = 32768
  /\ Pow2(16) = 65536 /\ Pow2(17) = 131072
BY DEF Pow2

LEMMA OneBit ==
  /\ \A k \in 0 .. 3 : \/ k = 0 /\ Pow2(k) = 1 /\ Pow2(k + 1) = 2
                       \/ k = 1 /\ Pow2(k) = 2 /\ Pow2(k + 1) = 4
                       \/ k = 2 /\ Pow2(k) = 4 /\ Pow2(k + 1) = 8
                       \/ k = 3 /\ Pow2(k) = 8 /\ Pow2(k + 1) = 16
  /\ BitOf(1) = 0 /\ BitOf(2) = 1 /\ BitOf(4) = 2 /\ BitOf(8) = 3
<1>1. ASSUME NEW k \in 0 .. 3
      PROVE  \/ k = 0 /\ Pow2(k) = 1 /\ Pow2(k + 1) = 2
             \/ k = 1 /\ Pow2(k) = 2 /\ Pow2(k + 1) = 4
             \/ k = 2 /\ Pow2(k) = 4 /\ Pow2(k + 1) = 8
             \/ k = 3 /\ Pow2(k) = 8 /\ Pow2(k + 1) = 16
  <2>1. (k = 0 /\ k + 1 = 1) \/ (k = 1 /\ k + 1 = 2) \/ (k = 2 /\ k + 1 = 3) \/ (k = 3 /\ k + 1 = 4)
    OBVIOUS
  <2>. QED  BY <2>1, Powers
<1>2. \A n : (\E k \in 0 .. 3 : Pow2(k) = n) => BitOf(n) \in 0 .. 3 /\ Pow2(BitOf(n)) = n
  BY DEF BitOf
<1>3. /\ \E k \in 0 .. 3 : Pow2(k) = 1
      /\ \E k \in 0 .. 3 : Pow2(k) = 2
      /\ \E k \in 0 .. 3 : Pow2(k) = 4
      /\ \E k \in 0 .. 3 : Pow2(k) = 8
  <2>1. 0 \in 0 .. 3 /\ 1 \in 0 .. 3 /\ 2 \in 0 .. 3 /\ 3 \in 0 .. 3
    OBVIOUS
  <2>. QED  BY <2>1, Powers
<1>. QED  BY <1>1, <1>2, <1>3

(* What gen_address makes of a word, by its remap nibble.                  *)
LEMMA AddressOnX86 ==
  ASSUME NEW w \in Nat
  PROVE  LET address == GenAddress("gen-amd64", w)
         IN  /\ w < 65536 => address = 0
             /\ w >= 65536 /\ w % 16 # 0 => address = None
             /\ w >= 65536 /\ w % 16 = 0 =>
                  /\ Nibble(w) = 1 => address = Aligned(w \div 8192)
                  /\ Nibble(w) = 2 => address = Aligned(w \div 16384)
                  /\ Nibble(w) = 4 => address = Aligned(w \div 32768)
                  /\ Nibble(w) = 8 => address = Aligned(w \div 65536)
                  /\ Nibble(w) \notin OneHot => address = None
<1>1. w \div Pow2(16) = 0 <=> w < 65536
  BY Powers
<1>2. /\ Nibble(w) = 1 => Shift("gen-amd64", w) = 13
      /\ Nibble(w) = 2 => Shift("gen-amd64", w) = 14
      /\ Nibble(w) = 4 => Shift("gen-amd64", w) = 15
      /\ Nibble(w) = 8 => Shift("gen-amd64", w) = 16
      /\ Nibble(w) \notin OneHot => Shift("gen-amd64", w) = None
  BY OneBit DEF Shift, OneHot
<1>3. 13 # None /\ 14 # None /\ 15 # None /\ 16 # None
  BY DEF None
<1>. QED  BY <1>1, <1>2, <1>3, Powers DEF GenAddress

LEMMA AddressOnArm ==
  ASSUME NEW w \in Nat
  PROVE  LET address == GenAddress("gen-aarch64", w)
         IN  /\ w < 65536 => address = 0
             /\ w >= 65536 /\ w % 16 # 0 => address = None
             /\ w >= 65536 /\ w % 16 = 0 =>
                  /\ 15 - Nibble(w) \in OneHot => address = Aligned(w \div 65536)
                  /\ 15 - Nibble(w) \notin OneHot => address = None
<1>1. w \div Pow2(16) = 0 <=> w < 65536
  BY Powers
<1>2. /\ 15 - Nibble(w) \in OneHot => Shift("gen-aarch64", w) = 16
      /\ 15 - Nibble(w) \notin OneHot => Shift("gen-aarch64", w) = None
  BY DEF Shift
<1>3. 16 # None
  BY DEF None
<1>. QED  BY <1>1, <1>2, <1>3, Powers DEF GenAddress

LEMMA Divided ==
  ASSUME NEW w \in Nat
  PROVE  /\ w \div 4096 \in Nat /\ (w \div 4096 < 16 <=> w < 65536)
         /\ w \div 8192 = (w \div 4096) \div 2
         /\ w \div 16384 = (w \div 4096) \div 4
         /\ w \div 32768 = (w \div 4096) \div 8
         /\ w \div 65536 = (w \div 4096) \div 16
         /\ Nibble(w) = (w \div 4096) % 16
BY DEF Nibble

LEMMA Eights ==
  ASSUME NEW a \in Nat, a % 8 = 0
  PROVE  \E b \in Nat : a = 8 * b
<1>1. a = 8 * (a \div 8) /\ a \div 8 \in Nat
  OBVIOUS
<1>. QED  BY <1>1

LEMMA DecodesX86 ==
  ASSUME NEW w \in Nat, NEW a \in Nat, IsColoured("gen-amd64", a, w)
  PROVE  GenAddress("gen-amd64", w) = a
<1>. DEFINE h == w \div 4096
<1>1. /\ a % 8 = 0 /\ a > 0 /\ w % 16 = 0
      /\ \E k \in 0 .. 3 : h = a * Pow2(k + 1) + Pow2(k)
  BY DEF IsColoured
<1>2. h = 2 * a + 1 \/ h = 4 * a + 2 \/ h = 8 * a + 4 \/ h = 16 * a + 8
  <2>1. PICK k \in 0 .. 3 : h = a * Pow2(k + 1) + Pow2(k)
    BY <1>1
  <2>. HIDE DEF h
  <2>. QED  BY <2>1, OneBit
<1>3. PICK b \in Nat : a = 8 * b
  BY <1>1, Eights
<1>4. /\ h \in Nat /\ (h < 16 <=> w < 65536)
      /\ w \div 8192 = h \div 2 /\ w \div 16384 = h \div 4
      /\ w \div 32768 = h \div 8 /\ w \div 65536 = h \div 16
      /\ Nibble(w) = h % 16
  BY Divided
<1>5. Aligned(a) = a
  BY <1>1 DEF Aligned
<1>. HIDE DEF h
<1>6. CASE h = 2 * a + 1
  <2>1. h % 16 = 1 /\ h \div 2 = a /\ h >= 16
    BY <1>1, <1>3, <1>6
  <2>. QED  BY <1>1, <1>4, <1>5, <2>1, AddressOnX86
<1>7. CASE h = 4 * a + 2
  <2>1. h % 16 = 2 /\ h \div 4 = a /\ h >= 16
    BY <1>1, <1>3, <1>7
  <2>. QED  BY <1>1, <1>4, <1>5, <2>1, AddressOnX86
<1>8. CASE h = 8 * a + 4
  <2>1. h % 16 = 4 /\ h \div 8 = a /\ h >= 16
    BY <1>1, <1>3, <1>8
  <2>. QED  BY <1>1, <1>4, <1>5, <2>1, AddressOnX86
<1>9. CASE h = 16 * a + 8
  <2>1. h % 16 = 8 /\ h \div 16 = a /\ h >= 16
    BY <1>1, <1>3, <1>9
  <2>. QED  BY <1>1, <1>4, <1>5, <2>1, AddressOnX86
<1>. QED  BY <1>2, <1>6, <1>7, <1>8, <1>9

LEMMA DecodesArm ==
  ASSUME NEW w \in Nat, NEW a \in Nat, IsColoured("gen-aarch64", a, w)
  PROVE  GenAddress("gen-aarch64", w) = a
<1>. DEFINE h == w \div 4096
<1>1. /\ a % 8 = 0 /\ a > 0 /\ w % 16 = 0
      /\ \E k \in 0 .. 3 : h = a * 16 + 15 - Pow2(k)
  BY DEF IsColoured
<1>2. \E m \in OneHot : h = a * 16 + 15 - m
  <2>1. PICK k \in 0 .. 3 : h = a * 16 + 15 - Pow2(k)
    BY <1>1
  <2>2. Pow2(k) \in OneHot
    BY OneBit DEF OneHot
  <2>. QED  BY <2>1, <2>2
<1>3. PICK m \in OneHot : h = a * 16 + 15 - m
  BY <1>2
<1>4. h \in Nat /\ (h < 16 <=> w < 65536) /\ w \div 65536 = h \div 16 /\ Nibble(w) = h % 16
  BY Divided
<1>5. Aligned(a) = a
  BY <1>1 DEF Aligned
<1>. HIDE DEF h
<1>6. m \in 1 .. 8
  BY DEF OneHot
<1>7. h % 16 = 15 - m /\ h \div 16 = a /\ h >= 16
  BY <1>1, <1>3, <1>6
<1>8. 15 - Nibble(w) = m
  BY <1>4, <1>6, <1>7
<1>. QED  BY <1>1, <1>3, <1>4, <1>5, <1>7, <1>8, AddressOnArm

(* An address that is found is one the word is the colouring of.           *)
LEMMA FoundX86 ==
  ASSUME NEW w \in Nat, GenAddress("gen-amd64", w) \notin {None, 0}
  PROVE  /\ GenAddress("gen-amd64", w) \in Nat
         /\ IsColoured("gen-amd64", GenAddress("gen-amd64", w), w)
<1>. DEFINE h == w \div 4096
            a == GenAddress("gen-amd64", w)
<1>1. /\ h \in Nat /\ (h < 16 <=> w < 65536)
      /\ w \div 8192 = h \div 2 /\ w \div 16384 = h \div 4
      /\ w \div 32768 = h \div 8 /\ w \div 65536 = h \div 16
      /\ Nibble(w) = h % 16
  BY Divided
<1>2. /\ w % 16 = 0
      /\ \/ h % 16 = 1 /\ a = Aligned(h \div 2)
         \/ h % 16 = 2 /\ a = Aligned(h \div 4)
         \/ h % 16 = 4 /\ a = Aligned(h \div 8)
         \/ h % 16 = 8 /\ a = Aligned(h \div 16)
  BY <1>1, AddressOnX86 DEF OneHot
<1>. HIDE DEF h, a
<1>3. a # None /\ a # 0
  BY DEF a
<1>4. \A x \in Nat : Aligned(x) = None \/ (Aligned(x) = x /\ x % 8 = 0)
  BY DEF Aligned
<1>5. /\ h \div 2 \in Nat /\ h \div 4 \in Nat /\ h \div 8 \in Nat /\ h \div 16 \in Nat
  BY <1>1
<1>6. /\ a \in Nat /\ a % 8 = 0 /\ a > 0
      /\ h = 2 * a + 1 \/ h = 4 * a + 2 \/ h = 8 * a + 4 \/ h = 16 * a + 8
  <2>1. /\ a \in Nat /\ a % 8 = 0
        /\ \/ h % 16 = 1 /\ a = h \div 2
           \/ h % 16 = 2 /\ a = h \div 4
           \/ h % 16 = 4 /\ a = h \div 8
           \/ h % 16 = 8 /\ a = h \div 16
    BY <1>2, <1>3, <1>4, <1>5
  <2>. QED  BY <1>1, <1>3, <2>1
<1>7. \E k \in 0 .. 3 : h = a * Pow2(k + 1) + Pow2(k)
  <2>1. /\ 0 \in 0 .. 3 /\ Pow2(0 + 1) = 2 /\ Pow2(0) = 1
        /\ 1 \in 0 .. 3 /\ Pow2(1 + 1) = 4 /\ Pow2(1) = 2
        /\ 2 \in 0 .. 3 /\ Pow2(2 + 1) = 8 /\ Pow2(2) = 4
        /\ 3 \in 0 .. 3 /\ Pow2(3 + 1) = 16 /\ Pow2(3) = 8
    BY DEF Pow2
  <2>2. h = a * 2 + 1 \/ h = a * 4 + 2 \/ h = a * 8 + 4 \/ h = a * 16 + 8
    BY <1>6
  <2>. QED  BY <2>1, <2>2
<1>8. IsColoured("gen-amd64", a, w)
  BY <1>2, <1>6, <1>7 DEF IsColoured, h
<1>. QED  BY <1>6, <1>8 DEF a

LEMMA FoundArm ==
  ASSUME NEW w \in Nat, GenAddress("gen-aarch64", w) \notin {None, 0}
  PROVE  /\ GenAddress("gen-aarch64", w) \in Nat
         /\ IsColoured("gen-aarch64", GenAddress("gen-aarch64", w), w)
<1>. DEFINE h == w \div 4096
            a == GenAddress("gen-aarch64", w)
<1>1. h \in Nat /\ (h < 16 <=> w < 65536) /\ w \div 65536 = h \div 16 /\ Nibble(w) = h % 16
  BY Divided
<1>2. w % 16 = 0 /\ 15 - (h % 16) \in OneHot /\ a = Aligned(h \div 16)
  BY <1>1, AddressOnArm
<1>. HIDE DEF h, a
<1>3. a # None /\ a # 0
  BY DEF a
<1>4. \A x \in Nat : Aligned(x) = None \/ (Aligned(x) = x /\ x % 8 = 0)
  BY DEF Aligned
<1>5. h \div 16 \in Nat
  BY <1>1
<1>6. a \in Nat /\ a % 8 = 0 /\ a > 0 /\ a = h \div 16
  BY <1>2, <1>3, <1>4, <1>5
<1>7. \E k \in 0 .. 3 : h = a * 16 + 15 - Pow2(k)
  <2>1. /\ 0 \in 0 .. 3 /\ 1 \in 0 .. 3 /\ 2 \in 0 .. 3 /\ 3 \in 0 .. 3
    OBVIOUS
  <2>2. \/ h = a * 16 + 15 - 1 \/ h = a * 16 + 15 - 2
        \/ h = a * 16 + 15 - 4 \/ h = a * 16 + 15 - 8
    BY <1>1, <1>2, <1>6 DEF OneHot
  <2>. QED  BY <2>1, <2>2, Powers
<1>8. IsColoured("gen-aarch64", a, w)
  BY <1>2, <1>6, <1>7 DEF IsColoured, h
<1>. QED  BY <1>6, <1>8 DEF a

LEMMA AddressType ==
  ASSUME layout \in Layouts, NEW w \in Nat
  PROVE  /\ Address(w) \in Nat \cup {None}
         /\ layout # "nongen" /\ Address(w) \notin {None, 0} => IsColoured(layout, Address(w), w)
<1>1. 0 \in Nat
  OBVIOUS
<1>2. CASE layout = "nongen"
  BY <1>2 DEF Address
<1>3. CASE layout = "gen-amd64"
  BY <1>1, <1>3, FoundX86 DEF Address
<1>4. CASE layout = "gen-aarch64"
  BY <1>1, <1>4, FoundArm DEF Address
<1>. QED  BY <1>2, <1>3, <1>4 DEF Layouts

(* gen_address takes from a word of the heap the address the JVM coloured   *)
(* it for, and from no other word an address: for every word, whichever of *)
(* its remap bits is set and whatever its marks are (lib.rs, gen_address). *)
THEOREM ReferencesDecode == ReferencesSpec => []DecodesTheColouring
<1>1. MapsInv => DecodesTheColouring
  <2>. SUFFICES ASSUME MapsInv, stage = "resolved", layout # "nongen"
                PROVE  /\ Address(raw) \notin {None, 0} => IsColoured(layout, Address(raw), raw)
                       /\ \A k \in 12 .. 17 : IsColoured(layout, raw \div Pow2(k), raw) =>
                                                Address(raw) = raw \div Pow2(k)
    BY DEF DecodesTheColouring
  <2>1. raw \in Nat /\ layout \in Layouts
    BY DEF MapsInv
  <2>2. Address(raw) \notin {None, 0} => IsColoured(layout, Address(raw), raw)
    BY <2>1, AddressType
  <2>3. ASSUME NEW k \in 12 .. 17, IsColoured(layout, raw \div Pow2(k), raw)
        PROVE  Address(raw) = raw \div Pow2(k)
    <3>1. \A z \in Nat \ {0} : raw \div z \in Nat
      BY <2>1
    <3>2. Pow2(k) \in Nat \ {0}
      <4>1. k = 12 \/ k = 13 \/ k = 14 \/ k = 15 \/ k = 16 \/ k = 17
        OBVIOUS
      <4>. QED  BY <4>1, Powers
    <3>3. raw \div Pow2(k) \in Nat
      BY <3>1, <3>2
    <3>. HIDE DEF Pow2
    <3>4. CASE layout = "gen-amd64"
      BY <2>1, <2>3, <3>3, <3>4, DecodesX86 DEF Address
    <3>5. CASE layout = "gen-aarch64"
      BY <2>1, <2>3, <3>3, <3>5, DecodesArm DEF Address
    <3>. QED  BY <2>1, <3>4, <3>5 DEF Layouts
  <2>. QED  BY <2>2, <2>3
<1>. QED  BY <1>1, ReferencesMaps, PTL

(* -- references: the offsets --------------------------------------------------------- *)

LEMMA TargetFinds ==
  ASSUME MapsInv, stage = "resolved"
  PROVE  /\ \A i \in DOMAIN maps : Address(raw) \in maps[i].start .. maps[i].end - 1 =>
              target = maps[i].offset + (Address(raw) - maps[i].start)
         /\ target # None =>
              /\ target \in 0 .. HeapBytes - 1
              /\ \E i \in DOMAIN maps : Address(raw) \in maps[i].start .. maps[i].end - 1
<1>1. /\ raw \in Nat /\ layout \in Layouts /\ target = ReferenceTarget(raw)
      /\ maps \in Seq(MapRec) /\ MapsFit(maps) /\ InTurn(maps)
  BY DEF MapsInv
<1>2. Address(raw) \in Nat \cup {None}
  BY <1>1, AddressType
<1>3. CASE Address(raw) \in Nat
  <2>1. target = Translate(maps, Address(raw))
    BY <1>1, <1>3 DEF ReferenceTarget, None
  <2>. QED  BY <1>1, <1>3, <2>1, TranslateFinds
<1>4. CASE Address(raw) = None
  <2>1. target = None
    BY <1>1, <1>4 DEF ReferenceTarget
  <2>2. \A i \in DOMAIN maps : maps[i].start \in Nat
    BY <1>1, MapStarts
  <2>3. \A i \in DOMAIN maps : Address(raw) \notin maps[i].start .. maps[i].end - 1
    BY <1>4, <2>2 DEF None
  <2>. QED  BY <2>1, <2>3
<1>. QED  BY <1>2, <1>3, <1>4

(* A reference resolves to the offset in the file where its address is      *)
(* mapped, and to none if it is not, for every maps.txt that is accepted   *)
(* (lib.rs, translate and reference_target).                               *)
THEOREM ReferencesResolve == ReferencesSpec => []TargetIsWhereItIsMapped
<1>1. MapsInv => TargetIsWhereItIsMapped
  BY TargetFinds DEF TargetIsWhereItIsMapped
<1>. QED  BY <1>1, ReferencesMaps, PTL

LEMMA LowBits ==
  ASSUME NEW z \in Nat \ {0}, NEW w \in Nat, NEW k \in 0 .. 2,
         z * Pow2(k) <= w, w < z * Pow2(k) + z
  PROVE  /\ w \div (z * 16) = 0 /\ w % z = w - z * Pow2(k)
         /\ \A j \in 0 .. 2 : (w \div (z * Pow2(j))) % 2 = 1 <=> j = k
<1>1. /\ Pow2(0) = 1 /\ Pow2(1) = 2 /\ Pow2(2) = 4
  BY Powers
<1>2. \A a, q, r \in Nat, d \in Nat \ {0} : a = q * d + r /\ r < d => a \div d = q /\ a % d = r
  OBVIOUS
<1>3. CASE k = 0
  <2>1. w - z \in Nat /\ w - z < z /\ w = 1 * z + (w - z)
    BY <1>1, <1>3
  <2>2. w \div z = 1 /\ w % z = w - z
    <3>. DEFINE r == w - z
    <3>1. 1 \in Nat /\ r \in Nat /\ w = 1 * z + r /\ r < z
      BY <2>1
    <3>. HIDE DEF r
    <3>2. w \div z = 1 /\ w % z = r
      BY <1>2, <3>1
    <3>. QED  BY <3>2 DEF r
  <2>3. /\ w = 0 * (2 * z) + w /\ w < 2 * z /\ 2 * z \in Nat \ {0}
        /\ w = 0 * (4 * z) + w /\ w < 4 * z /\ 4 * z \in Nat \ {0}
        /\ w = 0 * (16 * z) + w /\ w < 16 * z /\ 16 * z \in Nat \ {0}
    BY <2>1
  <2>4. w \div (2 * z) = 0 /\ w \div (4 * z) = 0 /\ w \div (16 * z) = 0
    BY <1>2, <2>3
  <2>5. z * 1 = z /\ z * 2 = 2 * z /\ z * 4 = 4 * z /\ z * 16 = 16 * z
    OBVIOUS
  <2>. QED  BY <1>1, <1>3, <2>2, <2>4, <2>5
<1>4. CASE k = 1
  <2>1. w - 2 * z \in Nat /\ w - 2 * z < z /\ w = 2 * z + (w - 2 * z) /\ w = 1 * (2 * z) + (w - 2 * z)
    BY <1>1, <1>4
  <2>2. w \div z = 2 /\ w % z = w - 2 * z
    <3>. DEFINE r == w - 2 * z
    <3>1. 2 \in Nat /\ r \in Nat /\ w = 2 * z + r /\ r < z
      BY <2>1
    <3>. HIDE DEF r
    <3>2. w \div z = 2 /\ w % z = r
      BY <1>2, <3>1
    <3>. QED  BY <3>2 DEF r
  <2>3. /\ w - 2 * z < 2 * z /\ 2 * z \in Nat \ {0}
        /\ w = 0 * (4 * z) + w /\ w < 4 * z /\ 4 * z \in Nat \ {0}
        /\ w = 0 * (16 * z) + w /\ w < 16 * z /\ 16 * z \in Nat \ {0}
    BY <2>1
  <2>4. w \div (2 * z) = 1 /\ w \div (4 * z) = 0 /\ w \div (16 * z) = 0
    BY <1>2, <2>1, <2>3
  <2>5. z * 1 = z /\ z * 2 = 2 * z /\ z * 4 = 4 * z /\ z * 16 = 16 * z
    OBVIOUS
  <2>. QED  BY <1>1, <1>4, <2>2, <2>4, <2>5
<1>5. CASE k = 2
  <2>1. w - 4 * z \in Nat /\ w - 4 * z < z /\ w = 4 * z + (w - 4 * z)
    BY <1>1, <1>5
  <2>2. w \div z = 4 /\ w % z = w - 4 * z
    <3>. DEFINE r == w - 4 * z
    <3>1. 4 \in Nat /\ r \in Nat /\ w = 4 * z + r /\ r < z
      BY <2>1
    <3>. HIDE DEF r
    <3>2. w \div z = 4 /\ w % z = r
      BY <1>2, <3>1
    <3>. QED  BY <3>2 DEF r
  <2>3. /\ w = 2 * (2 * z) + (w - 4 * z) /\ w - 4 * z < 2 * z /\ 2 * z \in Nat \ {0}
        /\ w = 1 * (4 * z) + (w - 4 * z) /\ w - 4 * z < 4 * z /\ 4 * z \in Nat \ {0}
        /\ w = 0 * (16 * z) + w /\ w < 16 * z /\ 16 * z \in Nat \ {0}
    BY <2>1
  <2>4. w \div (2 * z) = 2 /\ w \div (4 * z) = 1 /\ w \div (16 * z) = 0
    BY <1>2, <2>1, <2>3
  <2>5. z * 1 = z /\ z * 2 = 2 * z /\ z * 4 = 4 * z /\ z * 16 = 16 * z
    OBVIOUS
  <2>. QED  BY <1>1, <1>5, <2>2, <2>4, <2>5
<1>. QED  BY <1>3, <1>4, <1>5

(* Where the mappings are as the hypothesis has it, what the commands that  *)
(* guess make of a reference is what the ones that look it up find         *)
(* (discovery.rs, ReferenceModel::target).                                 *)
THEOREM ReferencesGuess == ReferencesSpec => []GuessesWhatIsMapped
<1>1. MapsInv => GuessesWhatIsMapped
  <2>. SUFFICES ASSUME MapsInv, stage = "resolved", HypothesisHolds, target # None
                PROVE  guess = target
    BY DEF GuessesWhatIsMapped
  <2>1. /\ raw \in Nat /\ layout \in Layouts /\ guess = Hypothesis(raw) /\ maps \in Seq(MapRec)
        /\ OffsetSpan \in Nat \ {0}
    BY ReferencesAssumption DEF MapsInv
  <2>2. PICK i \in DOMAIN maps : /\ Address(raw) \in maps[i].start .. maps[i].end - 1
                                 /\ target = maps[i].offset + (Address(raw) - maps[i].start)
    BY TargetFinds
  <2>3. maps[i].start \in Nat /\ maps[i].end \in Nat /\ maps[i].offset \in Nat
    <3>1. \A m \in MapRec : m.start \in Nat /\ m.end \in Nat /\ m.offset \in Nat
      BY DEF MapRec
    <3>. QED  BY <2>1, <3>1, MapStarts
  <2>4. /\ Address(raw) \in Nat /\ maps[i].start <= Address(raw) /\ Address(raw) < maps[i].end
    BY <2>2, <2>3
  <2>5. CASE layout = "nongen"
    <3>1. Address(raw) = raw
      BY <2>5 DEF Address
    <3>2. PICK k \in 0 .. 2 : LET base == OffsetSpan * Pow2(k)
                              IN  /\ base <= maps[i].start /\ maps[i].end <= base + OffsetSpan
                                  /\ maps[i].offset = maps[i].start - base
      BY <2>5 DEF HypothesisHolds
    <3>. DEFINE base == OffsetSpan * Pow2(k)
    <3>3. base \in Nat
      BY <2>1, OneBit
    <3>4. base <= raw /\ raw < base + OffsetSpan /\ target = raw - base
      <4>1. base <= maps[i].start /\ maps[i].end <= base + OffsetSpan
            /\ maps[i].offset = maps[i].start - base
        BY <3>2
      <4>. HIDE DEF base
      <4>. QED  BY <2>1, <2>2, <2>3, <2>4, <3>1, <3>3, <4>1
    <3>5. /\ raw \div (OffsetSpan * 16) = 0 /\ raw % OffsetSpan = raw - base
          /\ Views(raw) = {k}
      <4>1. /\ raw \div (OffsetSpan * 16) = 0 /\ raw % OffsetSpan = raw - OffsetSpan * Pow2(k)
            /\ \A j \in 0 .. 2 : (raw \div (OffsetSpan * Pow2(j))) % 2 = 1 <=> j = k
        <5>1. OffsetSpan * Pow2(k) <= raw /\ raw < OffsetSpan * Pow2(k) + OffsetSpan
          BY <3>4
        <5>. QED  BY <2>1, <5>1, LowBits
      <4>2. Views(raw) = {j \in 0 .. 2 : j = k}
        BY <4>1 DEF Views
      <4>. QED  BY <4>1, <4>2
    <3>6. Cardinality(Views(raw)) = 1
      BY <3>5, FS_Singleton
    <3>. QED  BY <2>1, <2>5, <3>4, <3>5, <3>6 DEF Hypothesis
  <2>6. CASE layout # "nongen"
    <3>. DEFINE a == GenAddress(layout, raw)
    <3>1. Address(raw) = a
      BY <2>6 DEF Address
    <3>2. PICK b \in BitValues : /\ b <= maps[i].start /\ maps[i].end <= 2 * b
                                 /\ maps[i].offset = maps[i].start - b
      BY <2>6 DEF HypothesisHolds
    <3>3. b \in Nat \ {0} /\ \A c \in BitValues : c \in Nat \ {0} /\ (b < c => 2 * b <= c) /\ (c < b => 2 * c <= b)
      BY ReferencesAssumption
    <3>. HIDE DEF a
    <3>4. a \in Nat /\ b <= a /\ a < 2 * b /\ target = a - b /\ a # 0 /\ a # None
      BY <2>2, <2>3, <2>4, <3>1, <3>2, <3>3 DEF None
    <3>5. TopBit(a) = b
      <4>1. \A c \in BitValues : c <= a /\ a < 2 * c => c = b
        BY <3>3, <3>4
      <4>. QED  BY <3>4, <4>1 DEF TopBit
    <3>. QED  BY <2>1, <2>6, <3>4, <3>5 DEF Hypothesis, HeapRelative, a
  <2>. QED  BY <2>5, <2>6
<1>. QED  BY <1>1, ReferencesMaps, PTL
================================================================================
