-------------------------- MODULE CaptureContentProofs --------------------------
(* What the writers of a capture can do to its content and to its files,   *)
(* and what they cannot.                                                   *)
EXTENDS CaptureContent, FiniteSetTheorems, TLAPS

(* A content's size is a number of chunks.                                 *)
LEMMA SizeType ==
  ASSUME NEW content \in Contents
  PROVE  Size(content) \in 0 .. MaxChunks
<1>1. /\ IsFiniteSet(Chunks)
      /\ Cardinality(Chunks) = MaxChunks
  BY FS_Interval, CaptureFileAssumption DEF Chunks
<1>2. Present(content) \subseteq Chunks
  BY DEF Present
<1>3. /\ IsFiniteSet(Present(content))
      /\ Cardinality(Present(content)) <= Cardinality(Chunks)
  BY <1>1, <1>2, FS_Subset
<1>4. Cardinality(Present(content)) \in Nat
  BY <1>3, FS_CardinalityType
<1>. QED  BY <1>1, <1>3, <1>4, CaptureFileAssumption DEF Size

(* A content that has the first n chunks and the size n has no other.      *)
LEMMA WholeContent ==
  ASSUME NEW content, NEW n \in 0 .. MaxChunks, Size(content) = n,
         \A c \in 1 .. n : content[c] # Absent
  PROVE  \A c \in Chunks : content[c] # Absent <=> c \in 1 .. n
<1>1. /\ IsFiniteSet(Chunks) /\ n \in Nat /\ Cardinality(1 .. n) = n
  BY FS_Interval, CaptureFileAssumption DEF Chunks
<1>2. 1 .. n \subseteq Present(content) /\ Present(content) \subseteq Chunks
  BY CaptureFileAssumption DEF Present, Chunks
<1>3. IsFiniteSet(Present(content)) /\ Cardinality(Present(content)) = n
  BY <1>1, <1>2, FS_Subset DEF Size
<1>4. Present(content) = 1 .. n
  BY <1>1, <1>2, <1>3, FS_Subset
<1>. QED  BY <1>4 DEF Present

(* A capture of n chunks as it was written is n chunks long.               *)
LEMMA SizeOriginal ==
  ASSUME NEW n \in Chunks
  PROVE  /\ Original(n) \in Contents
         /\ Size(Original(n)) = n
         /\ \A c \in 1 .. n : c \in Chunks /\ Original(n)[c] = 1
<1>. USE CaptureFileAssumption
<1>1. n \in Nat /\ 1 .. n \subseteq Chunks
  BY DEF Chunks
<1>2. Present(Original(n)) = 1 .. n
  BY <1>1 DEF Present, Original, Absent, Chunks
<1>3. Cardinality(1 .. n) = n
  BY <1>1, FS_Interval
<1>. QED  BY <1>1, <1>2, <1>3 DEF Size, Original, Contents, Versions, Absent, Chunks

(* In what a change makes of a content each chunk has the version it had,  *)
(* none, or the new one.                                                   *)
ChangedBy(old, new, at) ==
  \A c \in Chunks : new[c] \in {old[c], Absent, at}

LEMMA ContentChanges ==
  ASSUME NEW old \in Contents, NEW v \in Versions,
         NEW new \in InPlace(old, v) \cup Copies(old, v)
  PROVE  new \in Contents /\ ChangedBy(old, new, v)
<1>. USE CaptureFileAssumption DEF Contents, ChangedBy
<1>1. Absent \in Versions
  BY DEF Absent, Versions
<1>2. CASE new \in Overwrites(old, v)
  BY <1>2 DEF Overwrites, Present
<1>3. CASE new \in Truncations(old)
  BY <1>1, <1>3 DEF Truncations, Prefix
<1>4. CASE new \in Appends(old, v)
  BY <1>4 DEF Appends
<1>5. CASE new \in Copies(old, v)
  BY <1>1, <1>5 DEF Copies, Copy
<1>. QED  BY <1>2, <1>3, <1>4, <1>5 DEF InPlace

(* One change by a writer of a capture: the path p names a file of st, and *)
(* names one of st2 after it.  CaptureFile and CaptureReader have this as   *)
(* their Rewrite and Replace.                                              *)
Writes(p, st, ck, p2, st2) ==
  \/ /\ p2 = p
     /\ \E new \in InPlace(st[p], ck + 1) : st2 = [st EXCEPT ![p] = new]
  \/ /\ p2 = ck + 1
     /\ \E new \in Copies(st[p], ck + 1) : st2 = [st EXCEPT ![ck + 1] = new]

(* The files of a capture stay well formed, every file but the one the path *)
(* names afterwards stays as it is, and that one is changed as above.      *)
LEMMA WriteChanges ==
  ASSUME NEW ck \in Files, ck <= MaxEdits, NEW p, NEW st, WellFormed(p, st, ck),
         NEW p2, NEW st2, Writes(p, st, ck, p2, st2)
  PROVE  /\ ck + 1 \in Files
         /\ WellFormed(p2, st2, ck + 1)
         /\ p2 \in {p, ck + 1}
         /\ \A f \in Files : f # p2 => st2[f] = st[f]
         /\ ChangedBy(st[p], st2[p2], ck + 1)
<1>. USE CaptureFileAssumption
<1>1. /\ ck \in Nat /\ ck + 1 \in Files /\ ck + 1 \in Versions
      /\ p \in Files /\ p <= ck /\ st[p] \in Contents
      /\ st \in [Files -> Contents]
  BY DEF WellFormed, Files, Versions
<1>2. PICK new \in Contents :
        /\ p2 \in {p, ck + 1}
        /\ st2 = [st EXCEPT ![p2] = new]
        /\ ChangedBy(st[p], new, ck + 1)
  <2>1. CASE p2 = p /\ \E new \in InPlace(st[p], ck + 1) : st2 = [st EXCEPT ![p] = new]
    BY <1>1, <2>1, ContentChanges
  <2>2. CASE p2 = ck + 1 /\ \E new \in Copies(st[p], ck + 1) : st2 = [st EXCEPT ![ck + 1] = new]
    BY <1>1, <2>2, ContentChanges
  <2>. QED  BY <2>1, <2>2 DEF Writes
<1>3. /\ p2 \in Files /\ st2[p2] = new
      /\ st2 \in [Files -> Contents]
      /\ \A f \in Files : f # p2 => st2[f] = st[f]
  BY <1>1, <1>2
<1>4. ASSUME NEW f \in Files, NEW c \in Chunks
      PROVE  st2[f][c] <= ck + 1
  <2>1. /\ st[f][c] \in Nat /\ st[f][c] <= ck
        /\ st[p][c] \in Nat /\ st[p][c] <= ck
    BY <1>1 DEF WellFormed, Contents, Versions
  <2>2. CASE f = p2
    BY <1>1, <1>2, <1>3, <2>1, <2>2 DEF ChangedBy, Absent
  <2>3. CASE f # p2
    BY <1>1, <1>3, <2>1, <2>3
  <2>. QED  BY <2>2, <2>3
<1>5. p2 <= ck + 1
  BY <1>1, <1>2 DEF Files
<1>. QED  BY <1>1, <1>2, <1>3, <1>4, <1>5 DEF WellFormed

(* What the assumption on the writers comes to: a version that a chunk no  *)
(* longer has never comes back, neither in an open file nor behind the path. *)
LEMMA WriteNeverRestores ==
  ASSUME NEW ck \in Files, ck <= MaxEdits, NEW p, NEW st, WellFormed(p, st, ck),
         NEW p2, NEW st2, Writes(p, st, ck, p2, st2),
         NEW c \in Chunks, NEW v \in 1 .. ck
  PROVE  /\ st[p][c] # v => st2[p2][c] # v
         /\ \A f \in 1 .. ck : st[f][c] # v => st2[f][c] # v
<1>. USE CaptureFileAssumption
<1>1. /\ ck \in Nat
      /\ v # Absent /\ v # ck + 1
      /\ 1 .. ck \subseteq Files
      /\ p \in 1 .. ck /\ ck + 1 \notin 1 .. ck
  BY DEF WellFormed, Files, Absent
<1>2. /\ p2 \in {p, ck + 1}
      /\ \A f \in Files : f # p2 => st2[f] = st[f]
      /\ ChangedBy(st[p], st2[p2], ck + 1)
  BY WriteChanges
<1>3. st[p][c] # v => st2[p2][c] # v
  BY <1>1, <1>2 DEF ChangedBy
<1>4. ASSUME NEW f \in 1 .. ck, st[f][c] # v
      PROVE  st2[f][c] # v
  <2>1. CASE f = p2
    BY <1>1, <1>2, <1>3, <1>4, <2>1
  <2>2. CASE f # p2
    BY <1>1, <1>2, <1>4, <2>2
  <2>. QED  BY <2>1, <2>2
<1>. QED  BY <1>3, <1>4

(* A capture as it was written is well formed, before any change.          *)
LEMMA FirstFile ==
  ASSUME NEW n \in Chunks
  PROVE  WellFormed(1, [f \in Files |-> IF f = 1 THEN Original(n) ELSE Original(0)], 1)
<1>. USE CaptureFileAssumption
<1>1. \A m \in Nat : Original(m) \in Contents /\ \A c \in Chunks : Original(m)[c] <= 1
  BY DEF Original, Contents, Versions, Absent
<1>2. 1 \in Files /\ n \in Nat
  BY DEF Files, Chunks
<1>. QED  BY <1>1, <1>2 DEF WellFormed
================================================================================
