------------------------------- MODULE ScanProofs -------------------------------
(* scan, its index and the collector of header spacings.  The scan: its     *)
(* types, that no index is ever replaced, that a scan that passes its       *)
(* checksum found the objects of the heap the checksum names and nothing    *)
(* else, wherever its windows meet, and that what is written loads, for     *)
(* every heap, window, limit and number of edits.  The collector: its types *)
(* and bounds, that a group is tracked whole or not at all, that a          *)
(* reservoir holds gaps between hits that follow one another, that          *)
(* load_index accepts what it reports, and that its votes add up, for every *)
(* heap, every number of classes and every limit.                           *)
EXTENDS ScanIndex, Spacing, FiniteSetTheorems, TLAPS

Scanning == {"window", "header"}
Passed   == {"footer", "create", "write", "complete"}
Running  == Scanning \cup {"end"} \cup Passed

(* The records of the two files.                                           *)
FilesOK ==
  /\ stream \in [owner : 0 .. MaxRuns, rows : Seq(ObjectRec), complete : BOOLEAN]
  /\ index \in [state : IndexStates, streamed : BOOLEAN, objects : Seq(ObjectRec),
                counts : [Classes -> 0 .. HeapWords]]

(* How far the windows have come, and how much of the heap is hashed.      *)
WindowInv ==
  /\ pc = "window" => Len(hash) = base
  /\ pc = "header" =>
       /\ base < HeapWords
       /\ Len(buffer) = WindowLen
       /\ Len(hash) = base + Main
       /\ pos <= Main
  /\ pc \in {"end"} \cup Passed => base = HeapWords /\ Len(hash) = HeapWords

(* The word after the last one that was tried for a header.                *)
Position == IF pc = "header" THEN base + pos ELSE base

(* What this run found so far.                                             *)
FoundSoFar == IF streamed THEN stream.rows ELSE objects

OrderedBelow(found, n) ==
  /\ \A i \in DOMAIN found : found[i].offset < n /\ found[i].offset + found[i].size <= HeapWords
  /\ \A i, j \in DOMAIN found : i < j => found[i].offset < found[j].offset

FoundInv ==
  pc \in Running =>
    /\ OrderedBelow(FoundSoFar, Position)
    /\ counts = CountIn(FoundSoFar)
    /\ TotalOf(counts) + rejected <= Position
    /\ streamed => objects = <<>>

(* What was hashed is what the checksum names, and so is what is still to  *)
(* be hashed.  No edit makes it so again once it is not.                   *)
Clean ==
  \A w \in Words : IF w < Len(hash) THEN hash[w + 1] = expected[w] ELSE heap[w] = expected[w]

(* If the checksum still can agree, then all that was read is of the heap  *)
(* it names, the words of the overlap that are not yet hashed as well.     *)
CleanInv ==
  /\ edits = 0 => heap = expected /\ Clean
  /\ pc = "header" /\ Clean => \A i \in 1 .. Len(buffer) : buffer[i] = expected[base + i - 1]
  /\ pc \in Running /\ Clean =>
       Range(FoundSoFar) = {o \in ObjectsOf(expected) : o.offset < Position}
  /\ pc \in Passed => (Bundle => Clean)

(* The checksum is compared, or there is nothing to compare.               *)
Certain == Bundle \/ MaxEdits = 0

OutputInv ==
  /\ stream.owner = 0 => stream.rows = <<>> /\ ~ stream.complete
  /\ streamed /\ pc \in Running => stream.owner # 0
  /\ streamed /\ pc \in Scanning \cup {"end", "footer"} => ~ stream.complete
  /\ pc = "footer" => streamed
  /\ pc = "write" => index.state = "partial"
  /\ index.state = "whole" => Loadable
  /\ loaded # "refused"
  /\ loaded = "loaded" => index.state = "whole"
  /\ Certain => /\ stream.complete => Range(stream.rows) = ObjectsOf(expected)
                /\ index.state = "whole" /\ ~ index.streamed =>
                     Range(index.objects) = ObjectsOf(expected)

IInv ==
  /\ TypeOK
  /\ FilesOK
  /\ WindowInv
  /\ FoundInv
  /\ CleanInv
  /\ OutputInv

LEMMA Sizes0 ==
  /\ HeapWords \in Nat /\ HeapWords >= 3
  /\ ChunkWords \in Nat /\ ChunkWords >= 1
  /\ MaxObjects \in Nat /\ MaxLength \in Nat /\ MaxEdits \in Nat /\ MaxRuns \in Nat
BY ScanAssumption

(* -- the objects found -------------------------------------------------------- *)

(* A scan that starts has found nothing.                                   *)
LEMMA NothingFound ==
  /\ <<>> \in Seq(ObjectRec) /\ Len(<<>>) = 0
  /\ CountIn(<<>>) = [c \in Classes |-> 0]
  /\ Range(<<>>) = {}
  /\ OrderedBelow(<<>>, 0)
<1>1. DOMAIN <<>> = {}
  OBVIOUS
<1>2. \A c : {i \in DOMAIN <<>> : <<>>[i].class = c} = {}
  BY <1>1
<1>3. CountIn(<<>>) = [c \in Classes |-> 0]
  BY <1>2, FS_EmptySet DEF CountIn
<1>. QED  BY <1>1, <1>3 DEF Range, OrderedBelow

(* One more object is found after all the others.                          *)
LEMMA OneMoreFound ==
  ASSUME NEW found \in Seq(ObjectRec), NEW o \in ObjectRec, NEW n \in Nat,
         OrderedBelow(found, n), o.offset = n, o.offset + o.size <= HeapWords
  PROVE  /\ Append(found, o) \in Seq(ObjectRec)
         /\ Len(Append(found, o)) = Len(found) + 1
         /\ CountIn(Append(found, o)) = [CountIn(found) EXCEPT ![o.class] = @ + 1]
         /\ Range(Append(found, o)) = Range(found) \cup {o}
         /\ OrderedBelow(Append(found, o), n + 1)
<1>. DEFINE new == Append(found, o)
<1>1. /\ Len(found) \in Nat
      /\ new \in Seq(ObjectRec) /\ Len(new) = Len(found) + 1
      /\ DOMAIN found = 1 .. Len(found) /\ DOMAIN new = 1 .. Len(found) + 1
      /\ \A i \in 1 .. Len(found) : new[i] = found[i]
      /\ new[Len(found) + 1] = o
  OBVIOUS
<1>. HIDE DEF new
<1>2. \A i \in DOMAIN new : i \in DOMAIN found \/ i = Len(found) + 1
  BY <1>1
<1>3. Range(new) = Range(found) \cup {o}
  BY <1>1, <1>2 DEF Range
<1>4. OrderedBelow(new, n + 1)
  <2>1. \A i \in DOMAIN found : found[i].offset \in Nat
    <3>1. \A i \in DOMAIN found : found[i].offset \in Words
      <4>1. \A i \in DOMAIN found : found[i] \in ObjectRec
        BY <1>1
      <4>. QED  BY <4>1 DEF ObjectRec
    <3>. QED  BY <3>1, Sizes0 DEF Words
  <2>2. \A i \in DOMAIN new : new[i].offset < n + 1 /\ new[i].offset + new[i].size <= HeapWords
    BY <1>1, <1>2, <2>1 DEF OrderedBelow
  <2>3. ASSUME NEW i \in DOMAIN new, NEW j \in DOMAIN new, i < j
        PROVE  new[i].offset < new[j].offset
    <3>1. CASE j = Len(found) + 1
      BY <1>1, <2>3, <3>1 DEF OrderedBelow
    <3>2. CASE j \in DOMAIN found
      BY <1>1, <1>2, <2>3, <3>2 DEF OrderedBelow
    <3>. QED  BY <1>2, <3>1, <3>2
  <2>. QED  BY <2>2, <2>3 DEF OrderedBelow
<1>5. CountIn(new) = [CountIn(found) EXCEPT ![o.class] = @ + 1]
  <2>1. ASSUME NEW c \in Classes
        PROVE  Cardinality({i \in DOMAIN new : new[i].class = c}) =
                 IF c = o.class THEN Cardinality({i \in DOMAIN found : found[i].class = c}) + 1
                 ELSE Cardinality({i \in DOMAIN found : found[i].class = c})
    <3>. DEFINE old == {i \in DOMAIN found : found[i].class = c}
    <3>1. IsFiniteSet(old) /\ Len(found) + 1 \notin old
      <4>1. IsFiniteSet(DOMAIN found)
        BY <1>1, FS_Interval
      <4>. QED  BY <1>1, <4>1, FS_Subset
    <3>2. CASE c = o.class
      <4>1. {i \in DOMAIN new : new[i].class = c} = old \cup {Len(found) + 1}
        BY <1>1, <3>2
      <4>. QED  BY <3>1, <3>2, <4>1, FS_AddElement
    <3>3. CASE c # o.class
      <4>1. {i \in DOMAIN new : new[i].class = c} = old
        BY <1>1, <3>3
      <4>. QED  BY <3>3, <4>1
    <3>. QED  BY <3>2, <3>3
  <2>. QED  BY <2>1 DEF CountIn
<1>. QED  BY <1>1, <1>3, <1>4, <1>5 DEF new

(* -- the header in hand ------------------------------------------------------- *)

(* The numbers of a window.                                                *)
LEMMA WindowNumbers ==
  ASSUME IInv, pc = "header"
  PROVE  /\ base \in Nat /\ pos \in Nat /\ base < HeapWords
         /\ Len(buffer) = WindowLen
         /\ Main \in Nat /\ Main >= 1 /\ Main <= ChunkWords /\ pos <= Main
         /\ base + Main <= HeapWords /\ base + Len(buffer) <= HeapWords
         /\ Main <= Len(buffer)
         /\ Len(buffer) = HeapWords - base \/ Len(buffer) = ChunkWords + 3
         /\ Len(buffer) = ChunkWords + 3 => Main = ChunkWords
BY Sizes0 DEF IInv, TypeOK, WindowInv, WindowLen, Main, Least, Overlap

(* An object takes two words, an array three; its words are in the heap.   *)
LEMMA ObjectWords ==
  ASSUME NEW h, NEW o \in ObjectsOf(h)
  PROVE  /\ o.offset \in Nat /\ o.size \in Nat /\ o.size >= 2 /\ o.offset + o.size <= HeapWords
         /\ o.class \in Only /\ h[o.offset] = Mark /\ h[o.offset + 1] = o.class
         /\ o.class = Array => /\ o.size >= 3 /\ o.size = 3 + h[o.offset + 2]
                               /\ h[o.offset + 2] <= MaxLength
         /\ o.class = Instance => o.size = 2
         /\ o = [offset |-> o.offset, size |-> o.size, class |-> o.class]
BY ScanAssumption, Sizes0 DEF ObjectsOf, ObjectRec, Words, Classes, Instance, Array

(* Array and instance classes are two, and neither is a length.            *)
LEMMA ClassesApart ==
  /\ Array # Instance /\ Mark # Array /\ Mark # Instance
  /\ \A c \in Only : c = Array \/ c = Instance
  /\ Only \subseteq Classes
BY ScanAssumption, Sizes0 DEF Classes, Array, Instance, Mark

(* What fits in the header in hand is the object of the heap at that place: *)
(* the words that a window has of the next one are enough to tell.         *)
LEMMA HeaderObjects ==
  ASSUME IInv, AtHeader, Clean
  PROVE  /\ ClassWord \notin Only => \A o \in ObjectsOf(expected) : o.offset # base + pos
         /\ ClassWord \in Only =>
              /\ \A o \in ObjectsOf(expected) :
                   o.offset = base + pos => o.size \in Fitting /\ o.class = ClassWord
              /\ \A n \in Fitting :
                   [offset |-> base + pos, size |-> n, class |-> ClassWord] \in ObjectsOf(expected)
<1>. DEFINE at == base + pos
<1>1. /\ base \in Nat /\ pos \in Nat /\ pos < Main /\ pos + 2 <= Len(buffer)
      /\ base + Len(buffer) <= HeapWords
      /\ Len(buffer) = HeapWords - base \/ pos + 3 <= Len(buffer)
      /\ Len(buffer) \in Nat
  <2>1. pc = "header" /\ pos < Main /\ pos + 2 <= Len(buffer) /\ Len(buffer) \in Nat
    BY DEF AtHeader, IInv, TypeOK
  <2>. QED  BY <2>1, WindowNumbers, Sizes0
<1>2. \A i \in 1 .. Len(buffer) : buffer[i] = expected[base + i - 1]
  BY DEF IInv, CleanInv, AtHeader
<1>3. /\ HeaderWord = expected[at] /\ ClassWord = expected[at + 1]
      /\ LengthSeen => LengthWord = expected[at + 2]
  <2>1. /\ pos + 1 \in 1 .. Len(buffer) /\ pos + 2 \in 1 .. Len(buffer)
        /\ LengthSeen => pos + 3 \in 1 .. Len(buffer)
    BY <1>1 DEF LengthSeen
  <2>2. /\ base + (pos + 1) - 1 = at /\ base + (pos + 2) - 1 = at + 1
        /\ base + (pos + 3) - 1 = at + 2
    BY <1>1
  <2>3. /\ buffer[pos + 1] = expected[at] /\ buffer[pos + 2] = expected[at + 1]
        /\ LengthSeen => buffer[pos + 3] = expected[at + 2]
    BY <1>2, <2>1, <2>2
  <2>. QED  BY <2>3 DEF HeaderWord, ClassWord, LengthWord
<1>4. expected \in Heaps /\ at \in Words /\ at + 1 \in Words
  BY <1>1, Sizes0 DEF IInv, TypeOK, Words
<1>5. LengthSeen <=> at + 3 <= HeapWords
  BY <1>1, Sizes0 DEF LengthSeen
<1>6. ASSUME NEW o \in ObjectsOf(expected), o.offset = at
      PROVE  o.class = ClassWord /\ ClassWord \in Only /\ o.size \in Fitting
  <2>1. /\ HeaderWord = Mark /\ o.class = ClassWord /\ ClassWord \in Only
        /\ at + o.size <= HeapWords /\ o.size \in Nat
    BY <1>3, <1>6, ObjectWords
  <2>2. CASE ClassWord = Instance
    BY <2>1, <2>2, <1>1, <1>6, ObjectWords, ClassesApart, Sizes0 DEF Fitting, Sizes
  <2>3. CASE ClassWord = Array
    <3>1. o.size >= 3 /\ o.size = 3 + expected[at + 2] /\ expected[at + 2] <= MaxLength
      BY <1>6, <2>1, <2>3, ObjectWords
    <3>2. LengthSeen /\ LengthWord = expected[at + 2]
      BY <1>1, <1>3, <1>5, <2>1, <3>1, Sizes0
    <3>3. expected[at + 2] \in Nat
      BY <1>1, <1>4, <1>5, <3>2, Sizes0 DEF Heaps, Words, Word, Array
    <3>4. o.size \in Sizes(Array, LengthWord)
      BY <3>1, <3>2, <3>3, ClassesApart, Sizes0 DEF Sizes
    <3>. QED  BY <1>1, <2>1, <2>3, <3>2, <3>4 DEF Fitting
  <2>. QED  BY <2>1, <2>2, <2>3, ClassesApart
<1>7. ASSUME NEW n \in Fitting, ClassWord \in Only
      PROVE  [offset |-> at, size |-> n, class |-> ClassWord] \in ObjectsOf(expected)
  <2>1. /\ HeaderWord = Mark /\ at + n <= HeapWords
        /\ ClassWord = Array => LengthSeen
        /\ n \in Sizes(ClassWord, IF ClassWord = Array THEN LengthWord ELSE 0)
    BY <1>7 DEF Fitting
  <2>2. n \in Nat /\ n >= 2 /\ n <= HeapWords /\ (ClassWord = Instance => n = 2)
        /\ (ClassWord = Array => n > 2 /\ n = 3 + expected[at + 2] /\ expected[at + 2] <= MaxLength)
    <3>1. CASE ClassWord = Instance
      BY <1>1, <2>1, <3>1, ClassesApart, Sizes0 DEF Sizes
    <3>2. CASE ClassWord = Array
      <4>1. n \in {3 + LengthWord : l \in {LengthWord} \cap 0 .. MaxLength}
        BY <2>1, <3>2, ClassesApart DEF Sizes
      <4>2. LengthWord \in 0 .. MaxLength /\ n = 3 + LengthWord /\ LengthWord = expected[at + 2]
        BY <1>3, <2>1, <3>2, <4>1
      <4>3. ClassWord # Instance
        BY <3>2, ClassesApart
      <4>4. /\ at + 3 <= HeapWords /\ at \in Nat
        BY <1>1, <1>5, <2>1, <3>2
      <4>. HIDE DEF at
      <4>5. LengthWord \in Nat /\ LengthWord <= MaxLength
        BY <4>2, Sizes0
      <4>6. n \in Nat /\ n > 2 /\ n <= HeapWords
        BY <2>1, <4>2, <4>4, <4>5, Sizes0
      <4>. QED  BY <4>2, <4>3, <4>5, <4>6
    <3>. QED  BY <1>7, <3>1, <3>2, ClassesApart
  <2>. DEFINE o == [offset |-> at, size |-> n, class |-> ClassWord]
  <2>3. o \in ObjectRec
    BY <1>4, <1>7, <2>2, ClassesApart, Sizes0 DEF ObjectRec
  <2>. QED  BY <1>3, <1>7, <2>1, <2>2, <2>3, ClassesApart DEF ObjectsOf
<1>. QED  BY <1>6, <1>7

(* -- the steps ----------------------------------------------------------------- *)

LEMMA InitIInv == Init => IInv
<1>. SUFFICES ASSUME Init PROVE IInv
  OBVIOUS
<1>. USE DEF Init
<1>1. TypeOK
  <2>1. /\ 0 \in 0 .. MaxEdits /\ 0 \in 0 .. MaxRuns /\ 0 \in 0 .. HeapWords /\ 0 \in 0 .. ChunkWords
        /\ 0 <= HeapWords /\ 0 <= MaxObjects
    BY Sizes0
  <2>2. <<>> \in Seq(Word) /\ <<>> \in Seq(ObjectRec) /\ Len(<<>>) = 0
    BY NothingFound
  <2>3. heap \in Heaps /\ expected \in Heaps
    OBVIOUS
  <2>4. counts \in [Classes -> 0 .. HeapWords]
    BY <2>1
  <2>5. stream.owner = 0 /\ stream.rows = <<>> /\ index.state = "none"
    BY DEF NoStream, NoIndex
  <2>. QED  BY <2>1, <2>2, <2>3, <2>4, <2>5 DEF TypeOK, PCs, IndexStates
<1>2. FilesOK
  BY NothingFound, Sizes0 DEF FilesOK, NoStream, NoIndex, IndexStates
<1>3. WindowInv /\ FoundInv
  BY DEF WindowInv, FoundInv, Passed, Running, Scanning
<1>4. Len(hash) = 0
  BY NothingFound
<1>5. Clean
  BY <1>4, Sizes0 DEF Clean, Words
<1>6. CleanInv
  BY <1>5 DEF CleanInv, Passed, Running, Scanning
<1>7. OutputInv
  BY DEF OutputInv, NoStream, NoIndex, Passed, Running, Scanning
<1>. QED  BY <1>1, <1>2, <1>3, <1>6, <1>7 DEF IInv

(* What the index file says is a matter of the index file alone.           *)
LEMMA SameIndex ==
  ASSUME UNCHANGED <<stream, index, loaded, expected>>, OutputInv, IInv,
         /\ pc' = "write" => pc = "write"
         /\ pc' = "footer" => streamed'
         /\ streamed' /\ pc' \in Running => stream.owner # 0
         /\ streamed' /\ pc' \in Scanning \cup {"end", "footer"} => ~ stream.complete
  PROVE  OutputInv'
<1>1. Loadable' <=> Loadable
  BY DEF Loadable
<1>. QED  BY <1>1 DEF OutputInv, Certain

LEMMA StartIInv == IInv /\ Start => IInv'
<1>. SUFFICES ASSUME IInv, Start PROVE IInv'
  OBVIOUS
<1>0. /\ runs \in 0 .. MaxRuns /\ runs' = runs + 1 /\ runs + 1 \in 1 .. MaxRuns
      /\ UNCHANGED <<heapVars, index, loaded>>
      /\ pc \in {"start", "failed"}
  <2>1. /\ runs < MaxRuns /\ runs' = runs + 1
        /\ UNCHANGED <<heapVars, index, loaded>>
        /\ pc \in {"start", "failed"}
    BY DEF Start
  <2>2. runs \in 0 .. MaxRuns /\ MaxRuns \in Nat
    BY Sizes0 DEF IInv, TypeOK
  <2>. QED  BY <2>1, <2>2
<1>1. PICK mode \in Modes :
        \/ /\ index.state = "none" /\ (mode => stream.owner = 0)
           /\ pc' = "window"
           /\ stream' = IF mode THEN [stream EXCEPT !.owner = runs + 1] ELSE stream
           /\ FreshScan(mode)
        \/ pc' = "failed" /\ UNCHANGED <<stream, scanVars>>
  BY DEF Start
<1>2. CASE pc' = "failed" /\ UNCHANGED <<stream, scanVars>>
  <2>. USE <1>0, <1>2 DEF scanVars, heapVars, IInv
  <2>1. TypeOK' /\ FilesOK'
    BY DEF TypeOK, FilesOK, PCs
  <2>2. WindowInv' /\ FoundInv'
    BY DEF WindowInv, FoundInv, Passed, Running, Scanning
  <2>3. CleanInv'
    BY DEF CleanInv, Passed, Running, Scanning, Clean
  <2>4. OutputInv'
    BY SameIndex DEF Passed, Running, Scanning
  <2>. QED  BY <2>1, <2>2, <2>3, <2>4
<1>3. CASE /\ index.state = "none" /\ (mode => stream.owner = 0)
           /\ pc' = "window"
           /\ stream' = IF mode THEN [stream EXCEPT !.owner = runs + 1] ELSE stream
           /\ FreshScan(mode)
  <2>1. /\ streamed' = mode /\ base' = 0 /\ buffer' = <<>> /\ pos' = 0 /\ hash' = <<>>
        /\ objects' = <<>> /\ counts' = [c \in Classes |-> 0] /\ rejected' = 0
        /\ mode \in BOOLEAN
    BY <1>3, ScanAssumption DEF FreshScan
  <2>2. /\ stream \in [owner : 0 .. MaxRuns, rows : Seq(ObjectRec), complete : BOOLEAN]
        /\ stream.rows \in Seq(ObjectRec)
    BY DEF IInv, FilesOK
  <2>3. /\ stream' \in [owner : 0 .. MaxRuns, rows : Seq(ObjectRec), complete : BOOLEAN]
        /\ stream'.rows = stream.rows /\ stream'.complete = stream.complete
        /\ mode => stream'.owner = runs + 1
        /\ ~ mode => stream' = stream
    BY <1>0, <1>3, <2>2, Sizes0
  <2>4. mode => stream.rows = <<>> /\ ~ stream.complete
    BY <1>3 DEF IInv, OutputInv
  <2>5. TypeOK' /\ FilesOK'
    <3>1. FilesOK'
      BY <1>0, <2>3 DEF IInv, FilesOK
    <3>2. runs' \in 0 .. MaxRuns /\ stream'.owner \in 0 .. MaxRuns /\ stream'.rows \in Seq(ObjectRec)
      BY <1>0, <2>3, Sizes0
    <3>3. 0 \in 0 .. HeapWords /\ 0 \in 0 .. ChunkWords /\ 0 <= HeapWords /\ 0 <= MaxObjects
      BY Sizes0
    <3>4. <<>> \in Seq(Word) /\ <<>> \in Seq(ObjectRec) /\ Len(<<>>) = 0
      BY NothingFound
    <3>5. counts' \in [Classes -> 0 .. HeapWords]
      BY <2>1, <3>3
    <3>6. heap' \in Heaps /\ expected' \in Heaps /\ edits' \in 0 .. MaxEdits
          /\ index'.state \in IndexStates /\ loaded' \in {"never", "malformed", "refused", "loaded"}
      BY <1>0 DEF IInv, TypeOK, heapVars
    <3>. QED  BY <1>3, <2>1, <3>1, <3>2, <3>3, <3>4, <3>5, <3>6 DEF TypeOK, PCs
  <2>6. FoundSoFar' = <<>> /\ Position' = 0
    BY <1>3, <2>1, <2>3, <2>4 DEF FoundSoFar, Position
  <2>7. WindowInv'
    BY <1>3, <2>1, NothingFound DEF WindowInv, Passed
  <2>8. FoundInv'
    <3>1. TotalOf(counts') + rejected' <= 0
      BY <2>1 DEF TotalOf, Classes
    <3>. QED  BY <2>1, <2>6, <3>1, NothingFound DEF FoundInv
  <2>9. CleanInv'
    <3>1. Clean' <=> heap = expected
      <4>1. Len(hash') = 0
        BY <2>1, NothingFound
      <4>2. heap \in Heaps /\ expected \in Heaps
        BY DEF IInv, TypeOK
      <4>3. Clean' <=> \A w \in Words : heap[w] = expected[w]
        BY <1>0, <4>1, Sizes0 DEF Clean, Words, heapVars
      <4>. QED  BY <4>2, <4>3 DEF Heaps
    <3>2. {o \in ObjectsOf(expected) : o.offset < 0} = {}
      BY ObjectWords
    <3>3. Range(<<>>) = {o \in ObjectsOf(expected') : o.offset < 0}
      BY <1>0, <3>2, NothingFound DEF heapVars
    <3>. QED  BY <1>0, <1>3, <2>6, <3>1, <3>3 DEF IInv, CleanInv, heapVars, Passed
  <2>10. OutputInv'
    <3>1. /\ stream'.owner = 0 => stream'.rows = <<>> /\ ~ stream'.complete
          /\ mode => stream'.owner # 0 /\ ~ stream'.complete
      BY <1>0, <2>3, <2>4 DEF IInv, OutputInv
    <3>2. loaded # "refused" /\ loaded # "loaded"
      BY <1>3 DEF IInv, OutputInv
    <3>3. Certain /\ stream'.complete => Range(stream'.rows) = ObjectsOf(expected')
      BY <1>0, <2>3 DEF IInv, OutputInv, heapVars
    <3>. QED  BY <1>0, <1>3, <2>1, <3>1, <3>2, <3>3 DEF OutputInv, heapVars, Certain
  <2>. QED  BY <2>5, <2>7, <2>8, <2>9, <2>10 DEF IInv
<1>. QED  BY <1>1, <1>2, <1>3

(* Two facts about sequences of words.                                     *)
LEMMA TupleIsSequence ==
  ASSUME NEW S, NEW n \in Nat, NEW f \in [1 .. n -> S]
  PROVE  f \in Seq(S) /\ Len(f) = n
OBVIOUS

LEMMA Appended ==
  ASSUME NEW s \in Seq(Word), NEW u \in Seq(Word)
  PROVE  /\ s \o u \in Seq(Word) /\ Len(s \o u) = Len(s) + Len(u)
         /\ \A i \in 1 .. Len(s) : (s \o u)[i] = s[i]
         /\ \A i \in 1 .. Len(u) : (s \o u)[Len(s) + i] = u[i]
OBVIOUS

(* -- the windows -------------------------------------------------------------- *)

(* What was found below a place is below a later one.                      *)
LEMMA BelowLater ==
  ASSUME NEW found \in Seq(ObjectRec), NEW n \in Nat, NEW m \in Nat, n <= m,
         OrderedBelow(found, n)
  PROVE  OrderedBelow(found, m)
<1>1. \A i \in DOMAIN found : found[i] \in ObjectRec
  OBVIOUS
<1>2. \A i \in DOMAIN found : found[i].offset \in Nat
  BY <1>1, Sizes0 DEF ObjectRec, Words
<1>. QED  BY <1>2 DEF OrderedBelow

(* The types of what a scan has found.                                     *)
LEMMA FoundTypes ==
  ASSUME IInv
  PROVE  /\ FoundSoFar \in Seq(ObjectRec)
         /\ Position \in Nat /\ Position <= HeapWords
         /\ TotalOf(counts) \in Nat /\ rejected \in Nat
         /\ \A c \in Classes : counts[c] \in Nat
<1>1. FoundSoFar \in Seq(ObjectRec)
  BY DEF IInv, TypeOK, FoundSoFar
<1>2. Position \in Nat /\ Position <= HeapWords
  <2>1. CASE pc = "header"
    BY <2>1, WindowNumbers, Sizes0 DEF Position
  <2>2. CASE pc # "header"
    BY <2>2, Sizes0 DEF Position, IInv, TypeOK
  <2>. QED  BY <2>1, <2>2
<1>3. rejected \in Nat /\ \A c \in Classes : counts[c] \in 0 .. HeapWords
  BY Sizes0 DEF IInv, TypeOK
<1>. QED  BY <1>1, <1>2, <1>3, Sizes0 DEF TotalOf, Classes

(* A step that goes on to another place and finds nothing is one at which  *)
(* no object of the heap is.                                               *)
LEMMA Onward ==
  ASSUME IInv, pc \in Running, UNCHANGED <<expected, stream, objects, streamed, counts>>,
         Position' \in Nat, Position <= Position', rejected' \in Nat,
         TotalOf(counts) + rejected' <= Position',
         Clean' => Clean,
         Clean => \A o \in ObjectsOf(expected) : o.offset >= Position => o.offset >= Position'
  PROVE  /\ FoundInv'
         /\ Clean' => Range(FoundSoFar') = {o \in ObjectsOf(expected') : o.offset < Position'}
<1>1. FoundSoFar' = FoundSoFar /\ FoundSoFar \in Seq(ObjectRec) /\ Position \in Nat
  BY FoundTypes DEF FoundSoFar
<1>2. /\ OrderedBelow(FoundSoFar, Position) /\ counts = CountIn(FoundSoFar)
      /\ streamed => objects = <<>>
  BY DEF IInv, FoundInv
<1>3. OrderedBelow(FoundSoFar, Position')
  BY <1>1, <1>2, BelowLater
<1>4. FoundInv'
  BY <1>1, <1>2, <1>3 DEF FoundInv
<1>5. ASSUME Clean'
      PROVE  Range(FoundSoFar) = {o \in ObjectsOf(expected) : o.offset < Position'}
  <2>1. Range(FoundSoFar) = {o \in ObjectsOf(expected) : o.offset < Position}
    BY <1>5 DEF IInv, CleanInv
  <2>2. \A o \in ObjectsOf(expected) : o.offset < Position <=> o.offset < Position'
    BY <1>1, <1>5, ObjectWords
  <2>. QED  BY <2>1, <2>2
<1>. QED  BY <1>1, <1>4, <1>5

LEMMA ReadWindowIInv == IInv /\ ReadWindow => IInv'
<1>. SUFFICES ASSUME IInv, ReadWindow PROVE IInv'
  OBVIOUS
<1>. DEFINE m == Least(WindowLen, ChunkWords)
<1>0. /\ pc = "window" /\ pc' = "header" /\ base < HeapWords /\ pos' = 0
      /\ buffer' = [i \in 1 .. WindowLen |-> heap[base + i - 1]]
      /\ hash' = hash \o SubSeq(buffer', 1, m)
      /\ UNCHANGED <<heap, expected, edits, runs, streamed, base, objects, counts, rejected,
                     stream, index, loaded>>
  BY DEF ReadWindow, heapVars, fileVars
<1>1. /\ base \in Nat /\ WindowLen \in Nat /\ m \in Nat /\ m <= WindowLen /\ m >= 1
      /\ m <= ChunkWords /\ base + WindowLen <= HeapWords /\ WindowLen <= HeapWords
  BY <1>0, Sizes0 DEF IInv, TypeOK, WindowLen, Least, Overlap
<1>2. heap \in Heaps /\ expected \in Heaps /\ hash \in Seq(Word) /\ Len(hash) = base
  BY <1>0 DEF IInv, TypeOK, WindowInv
<1>3. \A i \in 1 .. WindowLen : base + i - 1 \in Words /\ heap[base + i - 1] \in Word
  BY <1>1, <1>2, Sizes0 DEF Heaps, Words
<1>4. buffer' \in Seq(Word) /\ Len(buffer') = WindowLen
  <2>1. buffer' \in [1 .. WindowLen -> Word]
    BY <1>0, <1>3
  <2>. QED  BY <1>1, <2>1, TupleIsSequence
<1>5. m = Main' /\ WindowLen' = WindowLen
  BY <1>0, <1>4 DEF Main, WindowLen
<1>. HIDE DEF m
<1>6. /\ SubSeq(buffer', 1, m) \in Seq(Word) /\ Len(SubSeq(buffer', 1, m)) = m
      /\ \A i \in 1 .. m : SubSeq(buffer', 1, m)[i] = buffer'[i]
  BY <1>1, <1>4
<1>7. /\ hash' \in Seq(Word) /\ Len(hash') = base + m
      /\ \A i \in 1 .. base : hash'[i] = hash[i]
      /\ \A i \in 1 .. m : hash'[base + i] = heap[base + i - 1]
  <2>. DEFINE s == SubSeq(buffer', 1, m)
  <2>1. s \in Seq(Word) /\ Len(s) = m /\ hash' = hash \o s
    BY <1>0, <1>6
  <2>2. \A i \in 1 .. m : i \in 1 .. WindowLen /\ s[i] = buffer'[i]
    BY <1>1, <1>6
  <2>3. \A i \in 1 .. m : s[i] = heap[base + i - 1]
    BY <1>0, <2>2
  <2>. HIDE DEF s
  <2>4. /\ hash' \in Seq(Word) /\ Len(hash') = Len(hash) + Len(s)
        /\ \A i \in 1 .. Len(hash) : hash'[i] = hash[i]
        /\ \A i \in 1 .. Len(s) : hash'[Len(hash) + i] = s[i]
    BY <1>2, <2>1, Appended
  <2>5. \A i \in 1 .. m : hash'[base + i] = s[i]
    BY <1>2, <2>1, <2>4
  <2>. QED  BY <1>2, <2>1, <2>3, <2>4, <2>5
<1>8. TypeOK'
  <2>1. pos' \in 0 .. ChunkWords /\ Len(hash') <= HeapWords /\ Len(buffer') <= HeapWords
    BY <1>0, <1>1, <1>4, <1>7, Sizes0
  <2>. QED  BY <1>0, <1>4, <1>7, <2>1 DEF IInv, TypeOK, PCs
<1>9. FilesOK'
  BY <1>0 DEF IInv, FilesOK
<1>10. WindowInv'
  BY <1>0, <1>1, <1>4, <1>5, <1>7 DEF WindowInv, Passed
<1>11. Clean' <=> Clean
  <2>1. ASSUME NEW w \in Words
        PROVE  (IF w < Len(hash') THEN hash'[w + 1] = expected[w] ELSE heap[w] = expected[w])
                 <=> (IF w < Len(hash) THEN hash[w + 1] = expected[w] ELSE heap[w] = expected[w])
    <3>1. w \in Nat
      BY Sizes0 DEF Words
    <3>2. CASE w < base
      BY <1>1, <1>2, <1>7, <3>1, <3>2
    <3>3. CASE w >= base /\ w < base + m
      <4>1. w - base + 1 \in 1 .. m /\ base + (w - base + 1) = w + 1
            /\ base + (w - base + 1) - 1 = w
        BY <1>1, <3>1, <3>3
      <4>2. hash'[base + (w - base + 1)] = heap[base + (w - base + 1) - 1]
        BY <1>7, <4>1
      <4>3. hash'[w + 1] = heap[w]
        BY <4>1, <4>2
      <4>. QED  BY <1>1, <1>2, <1>7, <3>1, <3>3, <4>3
    <3>4. CASE w >= base + m
      BY <1>1, <1>2, <1>7, <3>1, <3>4
    <3>. QED  BY <1>1, <3>1, <3>2, <3>3, <3>4
  <2>. QED  BY <1>0, <2>1 DEF Clean
<1>12. Position' = base /\ Position = base
  BY <1>0, <1>1 DEF Position
<1>13. FoundInv' /\ (Clean' => Range(FoundSoFar') = {o \in ObjectsOf(expected') : o.offset < Position'})
  <2>1. TotalOf(counts) + rejected <= Position /\ rejected \in Nat
    BY <1>0, FoundTypes DEF IInv, FoundInv, Running, Scanning
  <2>. QED  BY <1>0, <1>1, <1>11, <1>12, <2>1, Onward DEF Running, Scanning
<1>14. CleanInv'
  <2>1. ASSUME Clean
        PROVE  \A i \in 1 .. WindowLen : heap[base + i - 1] = expected[base + i - 1]
    <3>1. \A i \in 1 .. WindowLen : ~ (base + i - 1 < base)
      BY <1>1
    <3>. QED  BY <1>2, <1>3, <2>1, <3>1 DEF Clean
  <2>2. Clean' => \A i \in 1 .. Len(buffer') : buffer'[i] = expected'[base' + i - 1]
    BY <1>0, <1>4, <1>11, <2>1
  <2>3. edits' = 0 => heap' = expected' /\ Clean'
    BY <1>0, <1>11 DEF IInv, CleanInv
  <2>. QED  BY <1>0, <1>13, <2>2, <2>3 DEF CleanInv, Passed
<1>15. OutputInv'
  BY <1>0, SameIndex DEF IInv, OutputInv, Running, Scanning
<1>. QED  BY <1>8, <1>9, <1>10, <1>13, <1>14, <1>15 DEF IInv

LEMMA NextWindowIInv == IInv /\ NextWindow => IInv'
<1>. SUFFICES ASSUME IInv, NextWindow PROVE IInv'
  OBVIOUS
<1>0. /\ pc = "header" /\ pc' = "window" /\ base' = base + Main
      /\ pos = Main \/ pos + 2 > Len(buffer)
      /\ UNCHANGED <<heap, expected, edits, runs, streamed, buffer, pos, hash, objects, counts,
                     rejected, stream, index, loaded>>
  BY DEF NextWindow, heapVars, fileVars
<1>1. /\ base \in Nat /\ pos \in Nat /\ Main \in Nat /\ pos <= Main /\ base + Main <= HeapWords
      /\ Len(hash) = base + Main
  BY <1>0, WindowNumbers DEF IInv, WindowInv
<1>2. Position = base + pos /\ Position' = base + Main
  BY <1>0 DEF Position
<1>3. Clean' <=> Clean
  BY <1>0 DEF Clean
<1>4. \A o \in ObjectsOf(expected) : o.offset >= Position => o.offset >= Position'
  <2>1. CASE pos = Main
    BY <1>2, <2>1
  <2>2. CASE pos # Main
    <3>1. pos < Main /\ pos + 2 > Len(buffer) /\ Main <= Len(buffer) /\ Len(buffer) \in Nat
      BY <1>0, <1>1, <2>2, WindowNumbers DEF IInv, TypeOK
    <3>2. base + pos + 2 > HeapWords
      BY <1>0, <1>1, <3>1, WindowNumbers, Sizes0
    <3>3. \A o \in ObjectsOf(expected) :
            o.offset \in Nat /\ o.size \in Nat /\ o.size >= 2 /\ o.offset + o.size <= HeapWords
      BY ObjectWords
    <3>. QED  BY <1>1, <1>2, <3>2, <3>3, Sizes0
  <2>. QED  BY <2>1, <2>2
<1>5. FoundInv' /\ (Clean' => Range(FoundSoFar') = {o \in ObjectsOf(expected') : o.offset < Position'})
  <2>1. TotalOf(counts) + rejected <= Position /\ rejected \in Nat /\ TotalOf(counts) \in Nat
    BY <1>0, FoundTypes DEF IInv, FoundInv, Running, Scanning
  <2>. QED  BY <1>0, <1>1, <1>2, <1>3, <1>4, <2>1, Onward DEF Running, Scanning
<1>6. TypeOK'
  <2>1. base' \in 0 .. HeapWords
    BY <1>0, <1>1, Sizes0
  <2>. QED  BY <1>0, <2>1 DEF IInv, TypeOK, PCs
<1>7. FilesOK' /\ WindowInv'
  BY <1>0, <1>1 DEF IInv, FilesOK, WindowInv, Passed
<1>8. CleanInv'
  BY <1>0, <1>3, <1>5 DEF IInv, CleanInv, Passed
<1>9. OutputInv'
  BY <1>0, SameIndex DEF IInv, OutputInv, Running, Scanning
<1>. QED  BY <1>5, <1>6, <1>7, <1>8, <1>9 DEF IInv

LEMMA ScanEndIInv == IInv /\ ScanEnd => IInv'
<1>. SUFFICES ASSUME IInv, ScanEnd PROVE IInv'
  OBVIOUS
<1>0. /\ pc = "window" /\ pc' = "end" /\ base = HeapWords
      /\ UNCHANGED <<heap, expected, edits, runs, streamed, base, buffer, pos, hash, objects,
                     counts, rejected, stream, index, loaded>>
  BY DEF ScanEnd, heapVars, scanVars, fileVars
<1>1. Position' = Position /\ Position \in Nat /\ (Clean' <=> Clean)
  BY <1>0, FoundTypes DEF Position, Clean
<1>2. FoundInv' /\ (Clean' => Range(FoundSoFar') = {o \in ObjectsOf(expected') : o.offset < Position'})
  <2>1. TotalOf(counts) + rejected <= Position /\ rejected \in Nat
    BY <1>0, FoundTypes DEF IInv, FoundInv, Running, Scanning
  <2>. QED  BY <1>0, <1>1, <2>1, Onward DEF Running, Scanning
<1>3. TypeOK' /\ FilesOK' /\ WindowInv'
  BY <1>0 DEF IInv, TypeOK, FilesOK, WindowInv, PCs, Passed
<1>4. CleanInv'
  BY <1>0, <1>1, <1>2 DEF IInv, CleanInv, Passed
<1>5. OutputInv'
  BY <1>0, SameIndex DEF IInv, OutputInv, Running, Scanning
<1>. QED  BY <1>2, <1>3, <1>4, <1>5 DEF IInv

(* -- the headers -------------------------------------------------------------- *)

(* The numbers of the header in hand, and of the next.                     *)
LEMMA HeaderNumbers ==
  ASSUME IInv, AtHeader
  PROVE  /\ pc = "header" /\ base \in Nat /\ pos \in Nat /\ pos < Main /\ Main <= ChunkWords
         /\ Main \in Nat /\ base + Main <= HeapWords
         /\ Position = base + pos /\ Position < HeapWords /\ base + pos \in Words
         /\ TotalOf(counts) + rejected <= Position
         /\ TotalOf(counts) \in Nat /\ rejected \in Nat
<1>1. pc = "header" /\ pos < Main
  BY DEF AtHeader
<1>2. TotalOf(counts) + rejected <= Position
  BY <1>1 DEF IInv, FoundInv, Running, Scanning
<1>3. /\ base \in Nat /\ pos \in Nat /\ Main \in Nat /\ Main <= ChunkWords
      /\ base + Main <= HeapWords
  BY <1>1, WindowNumbers
<1>4. Position = base + pos /\ Position < HeapWords
  BY <1>1, <1>3, Sizes0 DEF Position
<1>5. base + pos \in Words
  BY <1>3, <1>4, Sizes0 DEF Words
<1>. QED  BY <1>1, <1>2, <1>3, <1>4, <1>5, FoundTypes

(* A step to the next header that changes neither window nor heap.         *)
LEMMA NextHeader ==
  ASSUME IInv, AtHeader, pc' = pc, pos' = pos + 1,
         UNCHANGED <<heap, expected, edits, base, buffer, hash>>
  PROVE  /\ Position' = Position + 1
         /\ Clean' <=> Clean
         /\ pos' \in 0 .. ChunkWords
         /\ WindowInv'
<1>1. Position' = Position + 1
  BY HeaderNumbers DEF Position
<1>2. Clean' <=> Clean
  BY DEF Clean
<1>3. pos' \in 0 .. ChunkWords /\ pos' <= Main
  BY HeaderNumbers, Sizes0
<1>4. Main' = Main /\ WindowLen' = WindowLen
  BY DEF Main, WindowLen
<1>5. WindowInv'
  BY <1>3, <1>4, HeaderNumbers DEF IInv, WindowInv, Passed
<1>. QED  BY <1>1, <1>2, <1>3, <1>5

(* No object is at the header in hand: the scan goes on without one.       *)
LEMMA NothingHere ==
  ASSUME IInv, AtHeader, pc' = pc, pos' = pos + 1, rejected' \in rejected .. rejected + 1,
         UNCHANGED <<heap, expected, edits, runs, streamed, base, buffer, hash, objects, counts,
                     stream, index, loaded>>,
         Clean => \A o \in ObjectsOf(expected) : o.offset # base + pos
  PROVE  IInv'
<1>1. /\ Position' = Position + 1 /\ (Clean' <=> Clean) /\ pos' \in 0 .. ChunkWords /\ WindowInv'
      /\ pc = "header"
  BY NextHeader DEF AtHeader
<1>2. Clean => \A o \in ObjectsOf(expected) : o.offset >= Position => o.offset >= Position'
  BY <1>1, HeaderNumbers, ObjectWords
<1>3. /\ TotalOf(counts) + rejected' <= Position' /\ rejected' \in 0 .. HeapWords
      /\ Position' \in Nat /\ Position <= Position'
  BY <1>1, HeaderNumbers, Sizes0
<1>4. FoundInv' /\ (Clean' => Range(FoundSoFar') = {o \in ObjectsOf(expected') : o.offset < Position'})
  <2>1. pc \in Running /\ rejected' \in Nat
    BY <1>1, <1>3, Sizes0 DEF Running, Scanning
  <2>. QED  BY <1>1, <1>2, <1>3, <2>1, Onward
<1>5. TypeOK' /\ FilesOK'
  BY <1>1, <1>3 DEF IInv, TypeOK, FilesOK
<1>6. CleanInv'
  BY <1>1, <1>4 DEF IInv, CleanInv, Passed
<1>7. OutputInv'
  BY <1>1, SameIndex DEF IInv, OutputInv, Running, Scanning
<1>. QED  BY <1>1, <1>4, <1>5, <1>6, <1>7 DEF IInv

LEMMA NoHeaderIInv == IInv /\ NoHeader => IInv'
<1>. SUFFICES ASSUME IInv, NoHeader PROVE IInv'
  OBVIOUS
<1>1. AtHeader /\ rejected' \in rejected .. rejected + 1
  BY HeaderNumbers DEF NoHeader
<1>. QED  BY <1>1, NothingHere, HeaderObjects DEF NoHeader, heapVars, fileVars

LEMMA RejectHeaderIInv == IInv /\ RejectHeader => IInv'
<1>. SUFFICES ASSUME IInv, RejectHeader PROVE IInv'
  OBVIOUS
<1>1. AtHeader /\ rejected' \in rejected .. rejected + 1
  BY HeaderNumbers DEF RejectHeader
<1>2. Clean => \A o \in ObjectsOf(expected) : o.offset # base + pos
  BY <1>1, HeaderObjects DEF RejectHeader
<1>. QED  BY <1>1, <1>2, NothingHere DEF RejectHeader, heapVars, fileVars

LEMMA AcceptHeaderIInv == IInv /\ AcceptHeader => IInv'
<1>. SUFFICES ASSUME IInv, AcceptHeader PROVE IInv'
  OBVIOUS
<1>. DEFINE o(n) == [offset |-> base + pos, size |-> n, class |-> ClassWord]
<1>0. /\ AtHeader /\ pc' = pc /\ pos' = pos + 1 /\ ClassWord \in Only /\ ~ Full
      /\ counts' = [counts EXCEPT ![ClassWord] = @ + 1]
      /\ UNCHANGED <<heap, expected, edits, runs, streamed, base, buffer, hash, rejected, index,
                     loaded>>
  BY DEF AcceptHeader, heapVars
<1>1. PICK n \in Fitting :
        IF streamed
        THEN stream' = [stream EXCEPT !.rows = Append(@, o(n))] /\ UNCHANGED objects
        ELSE objects' = Append(objects, o(n)) /\ UNCHANGED stream
  BY DEF AcceptHeader
<1>. DEFINE object == o(n)
<1>2. /\ object \in ObjectRec /\ object.offset = Position
      /\ object.offset + object.size <= HeapWords /\ object.class = ClassWord
      /\ ClassWord \in Classes
  <2>1. base + pos + n <= HeapWords /\ (ClassWord = Array \/ ClassWord = Instance)
    BY <1>0, ClassesApart DEF Fitting
  <2>2. n \in Nat /\ n >= 2
    <3>1. n \in Sizes(ClassWord, IF ClassWord = Array THEN LengthWord ELSE 0)
      BY DEF Fitting
    <3>2. CASE ClassWord = Instance
      BY <3>1, <3>2 DEF Sizes
    <3>3. CASE ClassWord = Array
      <4>1. n \in {3 + LengthWord : l \in {LengthWord} \cap 0 .. MaxLength}
        BY <3>1, <3>3, ClassesApart DEF Sizes
      <4>2. LengthWord \in 0 .. MaxLength /\ n = 3 + LengthWord
        BY <4>1
      <4>. QED  BY <4>2, Sizes0
    <3>. QED  BY <2>1, <3>2, <3>3
  <2>3. n \in 2 .. HeapWords
    BY <1>0, <2>1, <2>2, HeaderNumbers, Sizes0
  <2>4. base + pos \in Words /\ Position = base + pos /\ ClassWord \in Classes
    BY <1>0, <2>1, HeaderNumbers DEF Classes
  <2>5. object \in ObjectRec
    BY <2>3, <2>4 DEF ObjectRec
  <2>. QED  BY <2>1, <2>4, <2>5
<1>3. /\ FoundSoFar \in Seq(ObjectRec) /\ Position \in Nat /\ OrderedBelow(FoundSoFar, Position)
      /\ counts = CountIn(FoundSoFar) /\ (streamed => objects = <<>>)
      /\ stream \in [owner : 0 .. MaxRuns, rows : Seq(ObjectRec), complete : BOOLEAN]
  BY <1>0, FoundTypes, HeaderNumbers DEF IInv, FoundInv, FilesOK, Running, Scanning
<1>. HIDE DEF o
<1>4. /\ FoundSoFar' = Append(FoundSoFar, object)
      /\ stream' \in [owner : 0 .. MaxRuns, rows : Seq(ObjectRec), complete : BOOLEAN]
      /\ stream'.owner = stream.owner /\ stream'.complete = stream.complete
      /\ ~ streamed => stream' = stream
      /\ streamed => objects' = objects
      /\ ~ streamed => objects' = Append(objects, object)
  <2>1. Append(FoundSoFar, object) \in Seq(ObjectRec)
    BY <1>2, <1>3, OneMoreFound
  <2>2. CASE streamed
    BY <1>0, <1>1, <1>3, <2>1, <2>2 DEF FoundSoFar
  <2>3. CASE ~ streamed
    BY <1>0, <1>1, <1>3, <2>1, <2>3 DEF FoundSoFar
  <2>. QED  BY <2>2, <2>3
<1>5. /\ FoundSoFar' \in Seq(ObjectRec) /\ Len(FoundSoFar') = Len(FoundSoFar) + 1
      /\ CountIn(FoundSoFar') = counts'
      /\ Range(FoundSoFar') = Range(FoundSoFar) \cup {object}
      /\ OrderedBelow(FoundSoFar', Position + 1)
  BY <1>0, <1>2, <1>3, <1>4, OneMoreFound
<1>6. /\ Position' = Position + 1 /\ (Clean' <=> Clean) /\ pos' \in 0 .. ChunkWords /\ WindowInv'
      /\ pc = "header"
  BY <1>0, NextHeader, HeaderNumbers
<1>7. /\ counts' \in [Classes -> 0 .. HeapWords]
      /\ TotalOf(counts') + rejected <= Position'
  <2>1. counts \in [Classes -> 0 .. HeapWords] /\ \A c \in Classes : counts[c] \in Nat
    BY FoundTypes DEF IInv, TypeOK
  <2>2. /\ TotalOf(counts) + rejected < HeapWords /\ TotalOf(counts) + rejected <= Position
        /\ rejected \in Nat /\ Position \in Nat
    BY <1>0, HeaderNumbers, Sizes0, FoundTypes
  <2>3. counts[Instance] \in Nat /\ counts[Array] \in Nat /\ Array # Instance
    BY <2>1, ClassesApart DEF Classes
  <2>4. counts[Instance] + 1 <= HeapWords /\ counts[Array] + 1 <= HeapWords
    BY <2>2, <2>3, Sizes0 DEF TotalOf
  <2>5. counts[ClassWord] + 1 \in 0 .. HeapWords
    BY <1>2, <2>3, <2>4, Sizes0 DEF Classes
  <2>6. counts' \in [Classes -> 0 .. HeapWords]
    BY <1>0, <2>1, <2>5
  <2>7. TotalOf(counts') = TotalOf(counts) + 1
    <3>1. CASE ClassWord = Instance
      BY <1>0, <2>1, <2>3, <3>1 DEF TotalOf, Classes
    <3>2. CASE ClassWord = Array
      BY <1>0, <2>1, <2>3, <3>2 DEF TotalOf, Classes
    <3>. QED  BY <1>2, <3>1, <3>2 DEF Classes
  <2>. QED  BY <1>6, <2>2, <2>6, <2>7, FoundTypes
<1>8. TypeOK'
  <2>1. objects' \in Seq(ObjectRec) /\ Len(objects') <= MaxObjects
    <3>1. CASE streamed
      BY <1>4, <3>1 DEF IInv, TypeOK
    <3>2. CASE ~ streamed
      <4>1. objects = FoundSoFar /\ objects' = FoundSoFar' /\ Len(objects) < MaxObjects
        BY <1>0, <3>2, Sizes0 DEF Full, FoundSoFar, IInv, TypeOK
      <4>. QED  BY <1>5, <4>1, Sizes0 DEF IInv, TypeOK
    <3>. QED  BY <3>1, <3>2
  <2>2. stream'.owner \in 0 .. MaxRuns /\ stream'.rows \in Seq(ObjectRec)
    BY <1>4
  <2>. QED  BY <1>0, <1>6, <1>7, <2>1, <2>2 DEF IInv, TypeOK, PCs
<1>9. FilesOK'
  BY <1>0, <1>4 DEF IInv, FilesOK
<1>10. FoundInv'
  <2>1. streamed' => objects' = <<>>
    BY <1>0, <1>3, <1>4
  <2>. QED  BY <1>0, <1>5, <1>6, <1>7, <2>1 DEF FoundInv
<1>11. CleanInv'
  <2>1. ASSUME Clean
        PROVE  Range(FoundSoFar') = {x \in ObjectsOf(expected) : x.offset < Position + 1}
    <3>1. Range(FoundSoFar) = {x \in ObjectsOf(expected) : x.offset < Position}
      BY <1>6, <2>1 DEF IInv, CleanInv, Running, Scanning
    <3>2. object \in ObjectsOf(expected)
      BY <1>0, <2>1, HeaderObjects DEF o
    <3>3. \A x \in ObjectsOf(expected) : x.offset = Position => x = object
      <4>1. ASSUME NEW x \in ObjectsOf(expected), x.offset = Position
            PROVE  x.size = n /\ x.class = ClassWord
        <5>1. x.size \in Fitting /\ x.class = ClassWord
          BY <1>0, <2>1, <4>1, HeaderObjects, HeaderNumbers
        <5>2. \A a, b \in Fitting : a = b
          <6>1. \A a, b \in Sizes(ClassWord, IF ClassWord = Array THEN LengthWord ELSE 0) : a = b
            BY DEF Sizes
          <6>. QED  BY <6>1 DEF Fitting
        <5>. QED  BY <5>1, <5>2
      <4>. QED  BY <1>0, <4>1, ObjectWords, HeaderNumbers DEF o
    <3>4. \A x \in ObjectsOf(expected) :
            x.offset \in Nat /\ (x.offset < Position + 1 <=> x.offset < Position \/ x.offset = Position)
      BY <1>3, ObjectWords
    <3>. QED  BY <1>2, <1>5, <3>1, <3>2, <3>3, <3>4
  <2>. QED  BY <1>0, <1>6, <2>1 DEF IInv, CleanInv, Passed
<1>12. OutputInv'
  <2>1. Loadable' <=> Loadable
    BY <1>0 DEF Loadable
  <2>2. streamed => stream.owner # 0 /\ ~ stream.complete
    BY <1>6 DEF IInv, OutputInv, Running, Scanning
  <2>3. stream'.owner = 0 => stream'.rows = <<>> /\ ~ stream'.complete
    BY <1>4, <2>2 DEF IInv, OutputInv
  <2>4. stream'.complete => ~ streamed /\ stream' = stream
    BY <1>4, <2>2
  <2>. QED  BY <1>0, <1>4, <1>6, <2>1, <2>2, <2>3, <2>4 DEF IInv, OutputInv, Certain
<1>. QED  BY <1>6, <1>8, <1>9, <1>10, <1>11, <1>12 DEF IInv

(* -- the end, and the others ---------------------------------------------------- *)

(* A command that fails leaves everything as it is.                        *)
LEMMA Failing ==
  ASSUME IInv, pc' = "failed", UNCHANGED <<heapVars, runs, scanVars, fileVars>>
  PROVE  IInv'
<1>. USE DEF heapVars, scanVars, fileVars
<1>1. TypeOK' /\ FilesOK' /\ WindowInv' /\ FoundInv'
  BY DEF IInv, TypeOK, FilesOK, WindowInv, FoundInv, PCs, Passed, Running, Scanning
<1>2. Clean' <=> Clean
  BY DEF Clean
<1>3. CleanInv'
  BY <1>2 DEF IInv, CleanInv, Passed, Running, Scanning
<1>4. OutputInv'
  BY SameIndex DEF IInv, Passed, Running, Scanning
<1>. QED  BY <1>1, <1>3, <1>4 DEF IInv

(* Once the scan is over, another control point changes no finding.        *)
LEMMA AfterScan ==
  ASSUME IInv, pc \in {"end"} \cup Passed, pc' \in Passed, pc = "end" => DigestAgrees,
         UNCHANGED <<heapVars, runs, scanVars>>, stream'.rows = stream.rows
  PROVE  WindowInv' /\ FoundInv' /\ CleanInv'
<1>. USE DEF heapVars, scanVars
<1>1. Position' = Position /\ FoundSoFar' = FoundSoFar /\ (Clean' <=> Clean)
  BY DEF Position, FoundSoFar, Clean, Passed
<1>2. WindowInv' /\ FoundInv'
  BY <1>1 DEF IInv, WindowInv, FoundInv, Passed, Running, Scanning
<1>3. Bundle => Clean
  <2>1. CASE pc = "end" /\ Bundle
    <3>1. \A w \in Words : w < Len(hash) /\ hash[w + 1] = expected[w]
      BY <2>1, Sizes0 DEF DigestAgrees, Words, IInv, WindowInv
    <3>. QED  BY <3>1 DEF Clean
  <2>2. CASE pc \in Passed
    BY <2>2 DEF IInv, CleanInv
  <2>. QED  BY <2>1, <2>2
<1>4. CleanInv'
  BY <1>1, <1>3 DEF IInv, CleanInv, Passed, Running, Scanning
<1>. QED  BY <1>2, <1>4

(* What was found once the scan has passed.                                *)
LEMMA PassedFound ==
  ASSUME IInv, pc \in Passed
  PROVE  /\ counts = CountIn(FoundSoFar)
         /\ OrderedBelow(FoundSoFar, HeapWords)
         /\ TotalOf(counts) <= HeapWords
         /\ Certain => Range(FoundSoFar) = ObjectsOf(expected)
<1>1. Position = HeapWords
  BY DEF Position, IInv, WindowInv, Passed
<1>2. /\ counts = CountIn(FoundSoFar) /\ OrderedBelow(FoundSoFar, HeapWords)
      /\ TotalOf(counts) + rejected <= HeapWords
  BY <1>1 DEF IInv, FoundInv, Running
<1>3. Certain => Clean
  BY Sizes0 DEF Certain, IInv, CleanInv, TypeOK
<1>4. \A o \in ObjectsOf(expected) : o.offset < HeapWords
  BY ObjectWords, Sizes0
<1>5. TotalOf(counts) <= HeapWords
  BY <1>2, FoundTypes, Sizes0
<1>6. Clean => Range(FoundSoFar) = {o \in ObjectsOf(expected) : o.offset < HeapWords}
  BY <1>1 DEF IInv, CleanInv, Running
<1>. QED  BY <1>2, <1>3, <1>4, <1>5, <1>6

LEMMA VerifyIInv == IInv /\ Verify => IInv'
<1>. SUFFICES ASSUME IInv, Verify PROVE IInv'
  OBVIOUS
<1>0. /\ pc = "end" /\ UNCHANGED <<heapVars, runs, scanVars, fileVars>>
      /\ pc' = IF ~ DigestAgrees THEN "failed" ELSE IF streamed THEN "footer" ELSE "create"
  BY DEF Verify
<1>1. CASE ~ DigestAgrees
  BY <1>0, <1>1, Failing
<1>2. CASE DigestAgrees
  <2>1. pc' \in Passed /\ (pc' = "footer" => streamed) /\ pc' \in {"footer", "create"}
    BY <1>0, <1>2 DEF Passed
  <2>2. WindowInv' /\ FoundInv' /\ CleanInv'
    BY <1>0, <1>2, <2>1, AfterScan DEF fileVars
  <2>3. TypeOK' /\ FilesOK'
    BY <1>0, <2>1 DEF IInv, TypeOK, FilesOK, PCs, heapVars, scanVars, fileVars
  <2>4. OutputInv'
    <3>1. streamed => stream.owner # 0 /\ ~ stream.complete
      BY <1>0 DEF IInv, OutputInv, Running
    <3>. QED  BY <1>0, <2>1, <3>1, SameIndex DEF IInv, heapVars, scanVars, fileVars
  <2>. QED  BY <2>2, <2>3, <2>4 DEF IInv
<1>. QED  BY <1>1, <1>2

LEMMA FooterIInv == IInv /\ Footer => IInv'
<1>. SUFFICES ASSUME IInv, Footer PROVE IInv'
  OBVIOUS
<1>0. /\ pc = "footer" /\ pc' = "create" /\ stream' = [stream EXCEPT !.complete = TRUE]
      /\ UNCHANGED <<heapVars, runs, scanVars, index, loaded>>
  BY DEF Footer
<1>1. /\ stream' \in [owner : 0 .. MaxRuns, rows : Seq(ObjectRec), complete : BOOLEAN]
      /\ stream'.owner = stream.owner /\ stream'.rows = stream.rows
  BY <1>0 DEF IInv, FilesOK
<1>2. WindowInv' /\ FoundInv' /\ CleanInv'
  BY <1>0, <1>1, AfterScan DEF Passed
<1>3. TypeOK' /\ FilesOK'
  BY <1>0, <1>1 DEF IInv, TypeOK, FilesOK, PCs, heapVars, scanVars
<1>4. streamed /\ stream.owner # 0
  BY <1>0 DEF IInv, OutputInv, Passed, Running
<1>5. Certain => Range(stream'.rows) = ObjectsOf(expected)
  BY <1>0, <1>1, <1>4, PassedFound DEF FoundSoFar, Passed
<1>6. Loadable' <=> Loadable
  BY <1>0 DEF Loadable
<1>7. OutputInv'
  BY <1>0, <1>1, <1>4, <1>5, <1>6
     DEF IInv, OutputInv, Certain, heapVars, scanVars, Scanning
<1>. QED  BY <1>2, <1>3, <1>7 DEF IInv

LEMMA CreateIndexIInv == IInv /\ CreateIndex => IInv'
<1>. SUFFICES ASSUME IInv, CreateIndex PROVE IInv'
  OBVIOUS
<1>0. /\ pc = "create" /\ UNCHANGED <<heapVars, runs, scanVars, stream, loaded>>
      /\ IF index.state = "none"
         THEN index' = [index EXCEPT !.state = "partial"] /\ pc' = "write"
         ELSE pc' = "failed" /\ UNCHANGED index
  BY DEF CreateIndex
<1>1. CASE index.state # "none"
  BY <1>0, <1>1, Failing DEF fileVars
<1>2. CASE index.state = "none"
  <2>1. /\ index' \in [state : IndexStates, streamed : BOOLEAN, objects : Seq(ObjectRec),
                       counts : [Classes -> 0 .. HeapWords]]
        /\ index'.state = "partial"
    BY <1>0, <1>2 DEF IInv, FilesOK, IndexStates
  <2>2. WindowInv' /\ FoundInv' /\ CleanInv'
    BY <1>0, <1>2, AfterScan DEF Passed
  <2>3. TypeOK' /\ FilesOK'
    BY <1>0, <1>2, <2>1 DEF IInv, TypeOK, FilesOK, PCs, heapVars, scanVars
  <2>4. OutputInv'
    BY <1>0, <1>2, <2>1 DEF IInv, OutputInv, Certain, heapVars, scanVars, Scanning, Passed, Running
  <2>. QED  BY <2>2, <2>3, <2>4 DEF IInv
<1>. QED  BY <1>1, <1>2

(* What write_index writes is what load_index asks for.                    *)
LEMMA WriteIndexIInv == IInv /\ WriteIndex => IInv'
<1>. SUFFICES ASSUME IInv, WriteIndex PROVE IInv'
  OBVIOUS
<1>0. /\ pc = "write" /\ pc' = "complete" /\ UNCHANGED <<heapVars, runs, scanVars, stream, loaded>>
      /\ index' = [state |-> "whole", streamed |-> streamed, objects |-> objects, counts |-> counts]
  BY DEF WriteIndex
<1>1. WindowInv' /\ FoundInv' /\ CleanInv'
  BY <1>0, AfterScan DEF Passed
<1>2. /\ index' \in [state : IndexStates, streamed : BOOLEAN, objects : Seq(ObjectRec),
                     counts : [Classes -> 0 .. HeapWords]]
      /\ index'.state = "whole" /\ index'.streamed = streamed /\ index'.objects = objects
      /\ index'.counts = counts
  BY <1>0 DEF IInv, TypeOK, IndexStates
<1>3. TypeOK' /\ FilesOK'
  BY <1>0, <1>2 DEF IInv, TypeOK, FilesOK, PCs, heapVars, scanVars
<1>4. /\ counts = CountIn(FoundSoFar) /\ OrderedBelow(FoundSoFar, HeapWords)
      /\ TotalOf(counts) <= HeapWords
      /\ Certain => Range(FoundSoFar) = ObjectsOf(expected)
      /\ streamed => objects = <<>>
      /\ ~ streamed => FoundSoFar = objects
  BY <1>0, PassedFound DEF Passed, Running, FoundSoFar, IInv, FoundInv
<1>5. Loadable'
  <2>1. /\ \A i \in 1 .. Len(objects) - 1 : objects[i].offset < objects[i + 1].offset
        /\ \A i \in DOMAIN objects : objects[i].offset + objects[i].size <= HeapWords
        /\ ~ streamed => CountIn(objects) = counts
    <3>1. CASE streamed
      BY <1>4, <3>1
    <3>2. CASE ~ streamed
      <4>1. objects \in Seq(ObjectRec) /\ Len(objects) \in Nat /\ DOMAIN objects = 1 .. Len(objects)
        BY DEF IInv, TypeOK
      <4>2. \A i \in 1 .. Len(objects) - 1 :
              i \in DOMAIN objects /\ i + 1 \in DOMAIN objects /\ i < i + 1
        BY <4>1
      <4>. QED  BY <1>4, <3>2, <4>2 DEF OrderedBelow
    <3>. QED  BY <3>1, <3>2
  <2>2. Len(objects) <= MaxObjects
    BY DEF IInv, TypeOK
  <2>3. /\ Len(index'.objects) <= MaxObjects /\ TotalOf(index'.counts) <= HeapWords
        /\ index'.streamed => index'.objects = <<>>
        /\ ~ index'.streamed => CountIn(index'.objects) = index'.counts
    BY <1>2, <1>4, <2>1, <2>2
  <2>4. /\ \A i \in 1 .. Len(index'.objects) - 1 :
              index'.objects[i].offset < index'.objects[i + 1].offset
        /\ \A i \in DOMAIN index'.objects :
              index'.objects[i].offset + index'.objects[i].size <= HeapWords
    BY <1>2, <2>1
  <2>. QED  BY <2>3, <2>4 DEF Loadable
<1>6. OutputInv'
  <2>1. /\ stream.owner = 0 => stream.rows = <<>> /\ ~ stream.complete
        /\ streamed => stream.owner # 0
        /\ loaded # "refused"
        /\ Certain /\ stream.complete => Range(stream.rows) = ObjectsOf(expected)
    BY <1>0 DEF IInv, OutputInv, Passed, Running
  <2>2. Certain /\ ~ index'.streamed => Range(index'.objects) = ObjectsOf(expected)
    BY <1>2, <1>4
  <2>. QED  BY <1>0, <1>2, <1>5, <2>1, <2>2 DEF OutputInv, Certain, heapVars, scanVars, Scanning
<1>. QED  BY <1>1, <1>3, <1>6 DEF IInv

(* A change of a word never makes what was read what the checksum names.   *)
LEMMA EditIInv == IInv /\ Edit => IInv'
<1>. SUFFICES ASSUME IInv, Edit PROVE IInv'
  OBVIOUS
<1>0. /\ edits < MaxEdits /\ edits' = edits + 1
      /\ UNCHANGED <<expected, pc, runs, scanVars, fileVars>>
  BY DEF Edit
<1>1. PICK w \in Words, v \in Word : v # expected[w] /\ heap' = [heap EXCEPT ![w] = v]
  BY DEF Edit
<1>2. heap \in Heaps /\ heap' \in Heaps /\ edits' \in 1 .. MaxEdits
  BY <1>0, <1>1, Sizes0 DEF IInv, TypeOK, Heaps
<1>3. Clean' => Clean
  BY <1>0, <1>1, <1>2 DEF Clean, scanVars, Heaps
<1>4. FoundSoFar' = FoundSoFar /\ Position' = Position
  BY <1>0 DEF FoundSoFar, Position, scanVars, fileVars
<1>5. TypeOK'
  BY <1>0, <1>2, Sizes0 DEF IInv, TypeOK, scanVars, fileVars
<1>6. FilesOK' /\ WindowInv' /\ FoundInv'
  <2>1. Main' = Main /\ WindowLen' = WindowLen
    BY <1>0 DEF Main, WindowLen, scanVars
  <2>. QED  BY <1>0, <1>4, <2>1 DEF IInv, FilesOK, WindowInv, FoundInv, scanVars, fileVars
<1>7. pc \in Passed => (Bundle => Clean')
  <2>1. ASSUME pc \in Passed
        PROVE  Clean' <=> Clean
    <3>1. Len(hash) = HeapWords /\ \A x \in Words : x < HeapWords
      BY <2>1, Sizes0 DEF IInv, WindowInv, Words
    <3>. QED  BY <1>0, <3>1 DEF Clean, scanVars
  <2>. QED  BY <2>1 DEF IInv, CleanInv
<1>8. CleanInv'
  BY <1>0, <1>2, <1>3, <1>4, <1>7, Sizes0 DEF IInv, CleanInv, scanVars, fileVars
<1>9. OutputInv'
  BY <1>0, SameIndex DEF IInv, OutputInv, scanVars, fileVars
<1>. QED  BY <1>5, <1>6, <1>8, <1>9 DEF IInv

LEMMA RivalIInv == IInv /\ Rival => IInv'
<1>. SUFFICES ASSUME IInv, Rival PROVE IInv'
  OBVIOUS
<1>0. /\ index.state = "none" /\ index' = [index EXCEPT !.state = "rival"]
      /\ UNCHANGED <<heapVars, pc, runs, scanVars, stream, loaded>>
  BY DEF Rival
<1>. USE <1>0 DEF heapVars, scanVars
<1>1. /\ index' \in [state : IndexStates, streamed : BOOLEAN, objects : Seq(ObjectRec),
                     counts : [Classes -> 0 .. HeapWords]]
      /\ index'.state = "rival"
  BY DEF IInv, FilesOK, IndexStates
<1>2. TypeOK' /\ FilesOK' /\ WindowInv'
  <2>1. Main' = Main /\ WindowLen' = WindowLen
    BY DEF Main, WindowLen
  <2>. QED  BY <1>1, <2>1 DEF IInv, TypeOK, FilesOK, WindowInv
<1>3. FoundSoFar' = FoundSoFar /\ Position' = Position /\ (Clean' <=> Clean)
  BY DEF FoundSoFar, Position, Clean
<1>4. FoundInv' /\ CleanInv'
  BY <1>3 DEF IInv, FoundInv, CleanInv
<1>5. OutputInv'
  BY <1>1 DEF IInv, OutputInv, Certain
<1>. QED  BY <1>1, <1>2, <1>4, <1>5 DEF IInv

LEMMA LoadIInv == IInv /\ Load => IInv'
<1>. SUFFICES ASSUME IInv, Load PROVE IInv'
  OBVIOUS
<1>0. /\ index.state \in {"partial", "whole"}
      /\ loaded' = IF index.state = "partial" THEN "malformed"
                   ELSE IF Loadable THEN "loaded" ELSE "refused"
      /\ UNCHANGED <<heapVars, pc, runs, scanVars, stream, index>>
  BY DEF Load
<1>1. /\ loaded' \in {"malformed", "loaded"}
      /\ loaded' = "loaded" => index.state = "whole"
  BY <1>0 DEF IInv, OutputInv
<1>. USE <1>0 DEF heapVars, scanVars
<1>2. TypeOK' /\ FilesOK' /\ WindowInv'
  <2>1. Main' = Main /\ WindowLen' = WindowLen
    BY DEF Main, WindowLen
  <2>. QED  BY <1>1, <2>1 DEF IInv, TypeOK, FilesOK, WindowInv
<1>3. FoundSoFar' = FoundSoFar /\ Position' = Position /\ (Clean' <=> Clean)
  BY DEF FoundSoFar, Position, Clean
<1>4. FoundInv' /\ CleanInv'
  BY <1>3 DEF IInv, FoundInv, CleanInv
<1>5. OutputInv'
  <2>1. Loadable' <=> Loadable
    BY DEF Loadable
  <2>. QED  BY <1>1, <2>1 DEF IInv, OutputInv, Certain
<1>. QED  BY <1>2, <1>4, <1>5 DEF IInv

LEMMA StutterIInv == IInv /\ UNCHANGED vars => IInv'
<1>. SUFFICES ASSUME IInv, UNCHANGED vars PROVE IInv'
  OBVIOUS
<1>. USE DEF vars, heapVars, scanVars, fileVars
<1>1. TypeOK' /\ FilesOK' /\ WindowInv'
  <2>1. Main' = Main /\ WindowLen' = WindowLen
    BY DEF Main, WindowLen
  <2>. QED  BY <2>1 DEF IInv, TypeOK, FilesOK, WindowInv
<1>2. FoundSoFar' = FoundSoFar /\ Position' = Position /\ (Clean' <=> Clean)
  BY DEF FoundSoFar, Position, Clean
<1>3. FoundInv' /\ CleanInv'
  BY <1>2 DEF IInv, FoundInv, CleanInv
<1>4. OutputInv'
  BY SameIndex DEF IInv, OutputInv
<1>. QED  BY <1>1, <1>3, <1>4 DEF IInv

LEMMA NextIInv == IInv /\ [Next]_vars => IInv'
<1>. SUFFICES ASSUME IInv, [Next]_vars PROVE IInv'
  OBVIOUS
<1>1. CASE Start \/ ReadWindow \/ NextWindow \/ ScanEnd
  BY <1>1, StartIInv, ReadWindowIInv, NextWindowIInv, ScanEndIInv
<1>2. CASE NoHeader \/ RejectHeader \/ AcceptHeader
  BY <1>2, NoHeaderIInv, RejectHeaderIInv, AcceptHeaderIInv
<1>3. CASE IndexFull \/ Fail
  BY <1>3, Failing DEF IndexFull, Fail
<1>4. CASE Verify \/ Footer \/ CreateIndex \/ WriteIndex
  BY <1>4, VerifyIInv, FooterIInv, CreateIndexIInv, WriteIndexIInv
<1>5. CASE Edit \/ Rival \/ Load
  BY <1>5, EditIInv, RivalIInv, LoadIInv
<1>6. CASE UNCHANGED vars
  BY <1>6, StutterIInv
<1>. QED  BY <1>1, <1>2, <1>3, <1>4, <1>5, <1>6 DEF Next, Scan

LEMMA ScanInductive == Spec => []IInv
BY InitIInv, NextIInv, PTL DEF Spec

(* -- the theorems ----------------------------------------------------------------- *)

(* The types of the scan and of its two files, in every state of every      *)
(* scan: no count, offset or size is past the length of the heap, and no     *)
(* index has more objects than MAX_OBJECTS (lib.rs, scan_with).            *)
THEOREM ScanTypes == Spec => []TypeOK
<1>1. IInv => TypeOK
  BY DEF IInv
<1>. QED  BY <1>1, ScanInductive, PTL

(* A scan with a checksum to meet, or of a file that nothing changes, that  *)
(* comes to its output found every object of the heap its checksum names,   *)
(* in order and once, wherever the windows meet (lib.rs, scan_with).       *)
THEOREM PassedScanFindsTheObjects ==
  ASSUME Bundle \/ MaxEdits = 0
  PROVE  Spec => []ScanFindsTheObjects
<1>1. IInv => ScanFindsTheObjects
  <2>1. ASSUME IInv, pc \in Passed
        PROVE  /\ Range(FoundSoFar) = ObjectsOf(expected)
               /\ \A i, j \in DOMAIN FoundSoFar : i < j => FoundSoFar[i].offset < FoundSoFar[j].offset
               /\ counts = CountIn(FoundSoFar)
    BY <2>1, PassedFound DEF OrderedBelow, Certain
  <2>. QED  BY <2>1 DEF ScanFindsTheObjects, FoundSoFar, Passed
<1>. QED  BY <1>1, ScanInductive, PTL

(* A stream with its footer and an index that loads are each the whole      *)
(* scan of one run, whatever run failed or crashed before (lib.rs,          *)
(* write_index and load_index).                                            *)
THEOREM OutputsAreWholeScans ==
  ASSUME Bundle \/ MaxEdits = 0
  PROVE  Spec => []OnlyWholeScansPass
<1>1. IInv => OnlyWholeScansPass
  BY DEF IInv, OutputInv, OnlyWholeScansPass, Certain
<1>. QED  BY <1>1, ScanInductive, PTL

(* Whatever write_index completed, load_index takes: the order, the counts, *)
(* the limit and the end of every object are as it asks, and of a raw heap  *)
(* that changes as well (lib.rs, load_index).                              *)
THEOREM CompletedIndexLoads == Spec => []WrittenIndexLoads
<1>1. IInv => WrittenIndexLoads
  BY DEF IInv, OutputInv, WrittenIndexLoads
<1>. QED  BY <1>1, ScanInductive, PTL

(* No step replaces an index that is there, and only the command that       *)
(* created one completes it (lib.rs, write_index, which creates the file    *)
(* exclusively).                                                           *)
THEOREM NoIndexReplaced == Spec => IndexNeverReplaced
<1>1. IInv /\ [Next]_vars =>
        [/\ index.state \in {"rival", "whole"} => UNCHANGED index
         /\ index.state = "partial" /\ index'.state = "whole" => pc = "write"]_vars
  <2>. SUFFICES ASSUME IInv, Next
                PROVE  /\ index.state \in {"rival", "whole"} => UNCHANGED index
                       /\ index.state = "partial" /\ index'.state = "whole" => pc = "write"
    OBVIOUS
  <2>1. pc = "write" => index.state = "partial"
    BY DEF IInv, OutputInv
  <2>2. CASE UNCHANGED index
    BY <2>2
  <2>3. CASE CreateIndex
    BY <2>3 DEF CreateIndex, IInv, FilesOK
  <2>4. CASE WriteIndex
    BY <2>1, <2>4 DEF WriteIndex
  <2>5. CASE Rival
    BY <2>5 DEF Rival, IInv, FilesOK
  <2>. QED  BY <2>2, <2>3, <2>4, <2>5
            DEF Next, Scan, Start, ReadWindow, NextWindow, ScanEnd, NoHeader, RejectHeader,
                IndexFull, AcceptHeader, Verify, Footer, Fail, Edit, Load, fileVars
<1>. QED  BY <1>1, ScanInductive, PTL DEF Spec, IndexNeverReplaced

(* -- the collector ----------------------------------------------------------- *)

(* The number of gaps that are kept of a group.                            *)
Kept(hits) == IF hits - 1 < SampleGaps THEN hits - 1 ELSE SampleGaps

(* A sample is the gap before one of the hits, from the hit before that.   *)
GapOf(s, hits) ==
  /\ s \in Sample
  /\ s.to \in hits /\ s.to - s.gap \in hits
  /\ \A h \in hits : h <= s.to - s.gap \/ h >= s.to

(* What a group is when it has been shown every one of the hits.           *)
Whole(g, hits) ==
  /\ g \in Group
  /\ g.hits = Cardinality(hits) /\ g.hits > 0 /\ g.votes <= g.hits
  /\ g.first \in hits /\ g.last \in hits
  /\ \A h \in hits : g.first <= h /\ h <= g.last
  /\ Len(g.samples) = Kept(g.hits)
  /\ \A i \in 1 .. Len(g.samples) : GapOf(g.samples[i], hits)
  /\ \A i, j \in 1 .. Len(g.samples) : g.samples[i].to = g.samples[j].to => i = j

(* The words come in their order, and each is tried as wide first.         *)
OrderInv ==
  /\ hypothesis \in Kinds \cup {"finished"}
  /\ offset \in 0 .. HeapWords
  /\ hypothesis = "narrow" => offset + 2 <= HeapWords
  /\ seen \in [Keys -> SUBSET Words]
  /\ \A k \in Keys : \A h \in seen[k] :
       h < offset \/ (h = offset /\ hypothesis = "narrow" /\ k[1] = "wide")

VotesInv ==
  /\ rawVotes \in [Kinds -> Nat]
  /\ untrackedVotes \in [Kinds -> Nat]
  /\ untrackedHits \in [Kinds -> Nat]

(* A class that was hit without a group came when there was no more room:  *)
(* as no group is ever dropped, it will not get one later.                 *)
GroupsInv ==
  /\ DOMAIN groups \subseteq Keys
  /\ IsFiniteSet(DOMAIN groups) /\ Cardinality(DOMAIN groups) <= MaxGroups
  /\ \A k \in DOMAIN groups : Whole(groups[k], seen[k])
  /\ \A k \in Keys \ DOMAIN groups :
       seen[k] # {} => Cardinality(DOMAIN groups) = MaxGroups

CollectorInv == OrderInv /\ VotesInv /\ GroupsInv

LEMMA CollectorInitially == SpacingInit => CollectorInv
<1>. SUFFICES ASSUME SpacingInit PROVE CollectorInv
  OBVIOUS
<1>. USE SpacingAssumption DEF SpacingInit
<1>1. IsFiniteSet({}) /\ Cardinality({}) = 0
  BY FS_EmptySet
<1>2. DOMAIN groups = {}
  OBVIOUS
<1>3. OrderInv
  BY DEF OrderInv, Kinds
<1>4. VotesInv
  BY DEF VotesInv
<1>5. GroupsInv
  BY <1>1, <1>2 DEF GroupsInv
<1>. QED  BY <1>3, <1>4, <1>5 DEF CollectorInv

(* -- a hit ---------------------------------------------------------------------- *)

(* A group that has been shown some hits, or none yet.                     *)
Known(g, hits) == (g = NewGroup /\ hits = {}) \/ Whole(g, hits)

LEMMA WordIsNumber ==
  ASSUME NEW w \in Words
  PROVE  w \in Int /\ w >= 0 /\ w < HeapWords /\ HeapWords \in Int
BY SpacingAssumption DEF Words

(* A hit after all others is one more hit.                                 *)
LEMMA OneMoreHit ==
  ASSUME NEW hits \in SUBSET Words, offset \in Words, \A h \in hits : h < offset
  PROVE  /\ Cardinality(hits) \in Nat
         /\ Cardinality(hits \cup {offset}) = Cardinality(hits) + 1
         /\ Cardinality(hits) + 1 <= HeapWords
<1>1. IsFiniteSet(Words) /\ Cardinality(Words) = HeapWords
  BY FS_Interval, SpacingAssumption DEF Words
<1>2. IsFiniteSet(hits) /\ offset \notin hits
  <2>1. ~ (offset < offset)
    BY WordIsNumber
  <2>. QED  BY <1>1, <2>1, FS_Subset
<1>3. /\ Cardinality(hits) \in Nat
      /\ Cardinality(hits \cup {offset}) = Cardinality(hits) + 1
  BY <1>2, FS_CardinalityType, FS_AddElement
<1>4. Cardinality(hits \cup {offset}) <= HeapWords
  BY <1>1, FS_Subset
<1>. QED  BY <1>3, <1>4

(* A gap between two of the hits is one still when there is a later hit.   *)
LEMMA GapStays ==
  ASSUME NEW hits \in SUBSET Words, offset \in Words, \A h \in hits : h < offset,
         NEW s, GapOf(s, hits)
  PROVE  GapOf(s, hits \cup {offset}) /\ s.to # offset
<1>1. s.to \in hits /\ s.to < offset /\ s.to \in Int
  BY WordIsNumber DEF GapOf
<1>2. offset \in Int
  BY WordIsNumber
<1>. QED  BY <1>1, <1>2 DEF GapOf

(* The new gap is from the last hit to this one.                           *)
LEMMA GapMade ==
  ASSUME NEW hits \in SUBSET Words, offset \in Words, \A h \in hits : h < offset,
         NEW g, Whole(g, hits)
  PROVE  GapOf(GapFrom(g), hits \cup {offset}) /\ GapFrom(g).to = offset
<1>1. /\ g.last \in hits /\ \A h \in hits : h <= g.last
      /\ g.last \in Int /\ g.last < offset /\ g.last >= 0
      /\ offset \in Int /\ offset < HeapWords /\ HeapWords \in Int
      /\ \A h \in hits : h \in Int
  BY WordIsNumber DEF Whole
<1>2. GapFrom(g).gap = offset - g.last /\ GapFrom(g).to = offset
  BY DEF GapFrom
<1>3. offset - g.last \in 1 .. HeapWords /\ offset - (offset - g.last) = g.last
  BY <1>1
<1>4. GapFrom(g) \in Sample
  BY <1>3 DEF GapFrom, Sample
<1>. QED  BY <1>1, <1>2, <1>3, <1>4 DEF GapOf

(* The reservoir after a hit: as long as it should be, of gaps, each of    *)
(* them of another hit.                                                    *)
LEMMA SampledGapsStay ==
  ASSUME NEW hits \in SUBSET Words, offset \in Words, \A h \in hits : h < offset,
         NEW g, Known(g, hits), NEW samples \in Sampled(g)
  PROVE  /\ samples \in Seq(Sample)
         /\ Len(samples) = Kept(Cardinality(hits) + 1)
         /\ \A i \in 1 .. Len(samples) : GapOf(samples[i], hits \cup {offset})
         /\ \A i, j \in 1 .. Len(samples) : samples[i].to = samples[j].to => i = j
<1>. USE SpacingAssumption
<1>1. CASE g = NewGroup /\ hits = {}
  <2>1. samples = <<>> /\ Cardinality(hits) = 0
    BY <1>1, FS_EmptySet DEF Sampled, NewGroup
  <2>. QED  BY <2>1 DEF Kept
<1>2. CASE Whole(g, hits)
  <2>. DEFINE old == g.samples
              new == GapFrom(g)
  <2>1. /\ old \in Seq(Sample) /\ Len(old) \in Nat
        /\ Len(old) = Kept(g.hits)
        /\ g.hits = Cardinality(hits) /\ g.hits \in Nat /\ g.hits > 0
    BY <1>2, OneMoreHit DEF Whole, Group
  <2>2. \A i \in 1 .. Len(old) : GapOf(old[i], hits \cup {offset}) /\ old[i].to # offset
    BY <1>2, GapStays DEF Whole
  <2>3. GapOf(new, hits \cup {offset}) /\ new.to = offset /\ new \in Sample
    BY <1>2, GapMade DEF GapOf
  <2>4. \A i, j \in 1 .. Len(old) : old[i].to = old[j].to => i = j
    BY <1>2 DEF Whole
  <2>. HIDE DEF old, new
  <2>5. CASE Len(old) < SampleGaps
    <3>1. samples = Append(old, new)
      BY <2>1, <2>5 DEF Sampled, old, new
    <3>2. /\ samples \in Seq(Sample) /\ Len(samples) = Len(old) + 1
          /\ \A i \in 1 .. Len(old) : samples[i] = old[i]
          /\ samples[Len(old) + 1] = new
      BY <2>1, <2>3, <3>1
    <3>3. Len(old) + 1 = Kept(g.hits + 1)
      BY <2>1, <2>5 DEF Kept
    <3>4. \A i \in 1 .. Len(samples) : i \in 1 .. Len(old) \/ i = Len(old) + 1
      BY <2>1, <3>2
    <3>5. \A i \in 1 .. Len(samples) : GapOf(samples[i], hits \cup {offset})
      BY <2>2, <2>3, <3>2, <3>4
    <3>6. \A i, j \in 1 .. Len(samples) : samples[i].to = samples[j].to => i = j
      BY <2>2, <2>3, <2>4, <3>2, <3>4
    <3>. QED  BY <2>1, <3>2, <3>3, <3>5, <3>6
  <2>6. CASE ~ (Len(old) < SampleGaps)
    <3>1. PICK slot \in 1 .. g.hits :
            samples = IF slot <= SampleGaps THEN [old EXCEPT ![slot] = new] ELSE old
      BY <2>1, <2>6 DEF Sampled, old, new
    <3>2. Len(old) = SampleGaps /\ Len(old) = Kept(g.hits + 1)
      BY <2>1, <2>6 DEF Kept
    <3>3. slot <= SampleGaps => slot \in 1 .. Len(old)
      BY <2>1, <3>1, <3>2
    <3>4. /\ samples \in Seq(Sample) /\ Len(samples) = Len(old)
          /\ \A i \in 1 .. Len(old) :
               samples[i] = old[i] \/ (samples[i] = new /\ i = slot)
      BY <2>1, <2>3, <3>1, <3>3
    <3>. QED  BY <2>1, <2>2, <2>3, <2>4, <3>2, <3>4
  <2>. QED  BY <2>5, <2>6
<1>. QED  BY <1>1, <1>2 DEF Known

(* A group that is shown its next hit is whole.                            *)
LEMMA HitWhole ==
  ASSUME NEW hits \in SUBSET Words, offset \in Words, \A h \in hits : h < offset,
         NEW g, Known(g, hits), NEW vote \in BOOLEAN, NEW new \in Hit(g, vote)
  PROVE  Whole(new, hits \cup {offset})
<1>1. PICK samples \in Sampled(g) :
        new = [hits    |-> g.hits + 1,
               votes   |-> g.votes + Bit(vote),
               first   |-> IF g.hits = 0 THEN offset ELSE g.first,
               last    |-> offset,
               samples |-> samples]
  BY DEF Hit
<1>2. /\ samples \in Seq(Sample)
      /\ Len(samples) = Kept(Cardinality(hits) + 1)
      /\ \A i \in 1 .. Len(samples) : GapOf(samples[i], hits \cup {offset})
      /\ \A i, j \in 1 .. Len(samples) : samples[i].to = samples[j].to => i = j
  BY SampledGapsStay
<1>3. /\ Cardinality(hits) \in Nat
      /\ Cardinality(hits \cup {offset}) = Cardinality(hits) + 1
      /\ Cardinality(hits) + 1 <= HeapWords
  BY OneMoreHit
<1>4. g.hits = Cardinality(hits) /\ g.votes \in Nat /\ g.votes <= g.hits
  <2>1. CASE g = NewGroup /\ hits = {}
    BY <2>1, FS_EmptySet DEF NewGroup
  <2>2. CASE Whole(g, hits)
    BY <2>2 DEF Whole, Group
  <2>. QED  BY <2>1, <2>2 DEF Known
<1>5. new.votes \in 0 .. HeapWords /\ new.votes <= new.hits /\ new.hits \in 1 .. HeapWords
  BY <1>1, <1>3, <1>4, SpacingAssumption DEF Bit
<1>6. /\ new.first \in hits \cup {offset}
      /\ \A h \in hits \cup {offset} : new.first <= h /\ h <= new.last
  <2>1. CASE g = NewGroup /\ hits = {}
    BY <1>1, <2>1, WordIsNumber DEF NewGroup
  <2>2. CASE Whole(g, hits)
    <3>1. g.hits # 0 /\ new.first = g.first /\ new.last = offset
      BY <1>1, <2>2 DEF Whole, Group
    <3>2. /\ g.first \in hits /\ g.first < offset /\ g.first \in Int /\ offset \in Int
          /\ \A h \in hits : g.first <= h /\ h < offset /\ h \in Int
      BY <2>2, WordIsNumber DEF Whole
    <3>. QED  BY <3>1, <3>2
  <2>. QED  BY <2>1, <2>2 DEF Known
<1>7. new \in Group
  BY <1>1, <1>2, <1>5, <1>6 DEF Group
<1>8. new.samples = samples /\ new.hits = Cardinality(hits) + 1 /\ new.last = offset
  BY <1>1, <1>4
<1>9. /\ Len(new.samples) = Kept(new.hits)
      /\ \A i \in 1 .. Len(new.samples) : GapOf(new.samples[i], hits \cup {offset})
      /\ \A i, j \in 1 .. Len(new.samples) : new.samples[i].to = new.samples[j].to => i = j
  BY <1>2, <1>8
<1>10. new.hits = Cardinality(hits \cup {offset}) /\ new.hits > 0 /\ new.last \in hits \cup {offset}
  BY <1>3, <1>8
<1>. QED  BY <1>5, <1>6, <1>7, <1>9, <1>10 DEF Whole

(* -- the steps ------------------------------------------------------------------ *)

(* One word is shown to the collector; it comes after all that its class   *)
(* was hit at.                                                             *)
LEMMA ObserveIInv ==
  ASSUME CollectorInv, offset \in Words, NEW kind \in Kinds, NEW klass \in Klasses, NEW vote \in BOOLEAN,
         \A h \in seen[<<kind, klass>>] : h < offset,
         Observe(kind, klass, vote)
  PROVE  /\ VotesInv' /\ GroupsInv'
         /\ seen' = [seen EXCEPT ![<<kind, klass>>] = @ \cup {offset}]
<1>. DEFINE key == <<kind, klass>>
            full == Cardinality(DOMAIN groups) = MaxGroups
<1>. USE SpacingAssumption DEF CollectorInv
<1>1. /\ key \in Keys
      /\ seen \in [Keys -> SUBSET Words]
      /\ seen' = [seen EXCEPT ![key] = @ \cup {offset}]
      /\ seen'[key] = seen[key] \cup {offset}
      /\ \A k \in Keys \ {key} : seen'[k] = seen[k]
  BY DEF Observe, Keys, OrderInv
<1>2. Bit(vote) \in Nat
  BY DEF Bit
<1>3. VotesInv'
  BY <1>2 DEF Observe, VotesInv
<1>4. IsFiniteSet(DOMAIN groups) /\ Cardinality(DOMAIN groups) \in Nat
  BY FS_CardinalityType DEF GroupsInv
<1>. HIDE DEF key
<1>5. ASSUME Untracked(key) PROVE GroupsInv'
  <2>1. groups' = groups /\ full /\ key \notin DOMAIN groups
    BY <1>5 DEF Observe, Untracked, key
  <2>2. \A k \in DOMAIN groups : k \in Keys /\ k # key
    BY <2>1 DEF GroupsInv
  <2>3. \A k \in DOMAIN groups : Whole(groups[k], seen'[k])
    BY <1>1, <2>2 DEF GroupsInv
  <2>. QED  BY <1>4, <2>1, <2>3 DEF GroupsInv
<1>6. ASSUME ~ Untracked(key) PROVE GroupsInv'
  <2>. DEFINE g == IF key \in DOMAIN groups THEN groups[key] ELSE NewGroup
  <2>1. PICK new \in Hit(g, vote) :
          groups' = [k \in DOMAIN groups \cup {key} |-> IF k = key THEN new ELSE groups[k]]
    BY <1>6 DEF Observe, key
  <2>2. Known(g, seen[key])
    BY <1>1, <1>6 DEF GroupsInv, Untracked, Known
  <2>. HIDE DEF g
  <2>3. \A h \in seen[key] : h < offset
    BY DEF key
  <2>4. Whole(new, seen'[key])
    BY <1>1, <2>1, <2>2, <2>3, HitWhole
  <2>5. /\ DOMAIN groups' = DOMAIN groups \cup {key}
        /\ groups'[key] = new
        /\ \A k \in DOMAIN groups \ {key} : groups'[k] = groups[k]
    BY <2>1
  <2>6. IsFiniteSet(DOMAIN groups') /\ Cardinality(DOMAIN groups') <= MaxGroups
    <3>1. CASE key \in DOMAIN groups
      <4>1. DOMAIN groups' = DOMAIN groups
        BY <2>5, <3>1
      <4>. QED  BY <4>1 DEF GroupsInv
    <3>2. CASE key \notin DOMAIN groups
      <4>1. /\ Cardinality(DOMAIN groups \cup {key}) = Cardinality(DOMAIN groups) + 1
            /\ IsFiniteSet(DOMAIN groups \cup {key})
        BY <1>4, <3>2, FS_AddElement
      <4>2. Cardinality(DOMAIN groups) < MaxGroups
        BY <1>4, <1>6, <3>2 DEF GroupsInv, Untracked
      <4>. QED  BY <1>4, <2>5, <4>1, <4>2
    <3>. QED  BY <3>1, <3>2
  <2>7. \A k \in DOMAIN groups' : Whole(groups'[k], seen'[k])
    BY <1>1, <2>4, <2>5 DEF GroupsInv
  <2>8. ASSUME NEW k \in Keys \ DOMAIN groups', seen'[k] # {}
        PROVE  Cardinality(DOMAIN groups') = MaxGroups
    <3>1. k # key /\ k \in Keys \ DOMAIN groups /\ seen[k] # {}
      BY <1>1, <2>5, <2>8
    <3>2. full
      BY <3>1 DEF GroupsInv
    <3>3. key \in DOMAIN groups
      BY <1>6, <3>2 DEF Untracked
    <3>4. DOMAIN groups' = DOMAIN groups
      BY <2>5, <3>3
    <3>. QED  BY <3>2, <3>4
  <2>9. DOMAIN groups' \subseteq Keys
    BY <1>1, <2>5 DEF GroupsInv
  <2>. QED  BY <2>6, <2>7, <2>8, <2>9 DEF GroupsInv
<1>. QED  BY <1>1, <1>3, <1>5, <1>6 DEF key

LEMMA WideIInv == CollectorInv /\ Wide => CollectorInv'
<1>. SUFFICES ASSUME CollectorInv, Wide PROVE CollectorInv'
  OBVIOUS
<1>1. offset \in Words /\ offset' = offset /\ hypothesis = "wide" /\ hypothesis' = "narrow" /\ offset + 2 <= HeapWords
  BY SpacingAssumption DEF CollectorInv, OrderInv, Wide, InHeap, Words
<1>2. \A k \in Keys : \A h \in seen[k] : h < offset
  BY <1>1 DEF CollectorInv, OrderInv
<1>3. CASE UNCHANGED collectorVars
  BY <1>1, <1>3 DEF CollectorInv, OrderInv, VotesInv, GroupsInv, collectorVars, Kinds
<1>4. CASE \E klass \in Klasses, vote \in BOOLEAN : Observe("wide", klass, vote)
  <2>1. PICK klass \in Klasses, vote \in BOOLEAN : Observe("wide", klass, vote)
    BY <1>4
  <2>2. "wide" \in Kinds /\ <<"wide", klass>> \in Keys
    BY DEF Kinds, Keys
  <2>3. /\ VotesInv' /\ GroupsInv'
        /\ seen' = [seen EXCEPT ![<<"wide", klass>>] = @ \cup {offset}]
    BY <1>1, <1>2, <2>1, <2>2, ObserveIInv
  <2>4. OrderInv'
    BY <1>1, <1>2, <2>2, <2>3 DEF CollectorInv, OrderInv, Kinds
  <2>. QED  BY <2>3, <2>4 DEF CollectorInv
<1>. QED  BY <1>3, <1>4 DEF Wide

LEMMA NarrowIInv == CollectorInv /\ Narrow => CollectorInv'
<1>. SUFFICES ASSUME CollectorInv, Narrow PROVE CollectorInv'
  OBVIOUS
<1>1. /\ offset \in Words /\ offset' = offset + 1 /\ hypothesis = "narrow" /\ hypothesis' = "wide"
      /\ offset + 2 <= HeapWords
  BY SpacingAssumption DEF CollectorInv, OrderInv, Narrow, Words
<1>2. /\ offset \in Int /\ offset' \in 0 .. HeapWords /\ offset < offset'
      /\ \A w \in Words : w \in Int
  BY <1>1, WordIsNumber
<1>3. CASE UNCHANGED collectorVars
  <2>1. seen' = seen /\ VotesInv' /\ GroupsInv'
    BY <1>3 DEF CollectorInv, VotesInv, GroupsInv, collectorVars
  <2>2. \A k \in Keys : \A h \in seen[k] : h < offset'
    <3>1. ASSUME NEW k \in Keys, NEW h \in seen[k] PROVE h < offset'
      <4>1. h \in Words /\ h <= offset
        BY <1>2, <3>1 DEF CollectorInv, OrderInv
      <4>. QED  BY <1>1, <1>2, <4>1
    <3>. QED  BY <3>1
  <2>. QED  BY <1>1, <1>2, <2>1, <2>2 DEF CollectorInv, OrderInv, Kinds
<1>4. CASE \E klass \in Klasses, vote \in BOOLEAN : Observe("narrow", klass, vote)
  <2>1. PICK klass \in Klasses, vote \in BOOLEAN : Observe("narrow", klass, vote)
    BY <1>4
  <2>2. "narrow" \in Kinds /\ <<"narrow", klass>> \in Keys /\ <<"narrow", klass>>[1] # "wide"
    BY DEF Kinds, Keys
  <2>3. \A h \in seen[<<"narrow", klass>>] : h < offset
    BY <2>2 DEF CollectorInv, OrderInv
  <2>4. /\ VotesInv' /\ GroupsInv'
        /\ seen' = [seen EXCEPT ![<<"narrow", klass>>] = @ \cup {offset}]
    BY <1>1, <2>1, <2>2, <2>3, ObserveIInv
  <2>5. \A k \in Keys : \A h \in seen'[k] : h < offset'
    <3>1. ASSUME NEW k \in Keys, NEW h \in seen'[k] PROVE h < offset'
      <4>1. h \in seen[k] \/ h = offset
        BY <2>2, <2>4, <3>1 DEF CollectorInv, OrderInv
      <4>2. h \in Words /\ h <= offset
        <5>1. CASE h = offset
          BY <1>1, <1>2, <5>1
        <5>2. CASE h \in seen[k]
          <6>1. /\ seen[k] \in SUBSET Words
                /\ h < offset \/ h = offset
            BY <5>2 DEF CollectorInv, OrderInv
          <6>2. h \in Words /\ h \in Int
            BY <5>2, <6>1 DEF Words
          <6>. QED  BY <1>1, <1>2, <6>1, <6>2
        <5>. QED  BY <4>1, <5>1, <5>2
      <4>. QED  BY <1>1, <1>2, <4>2
    <3>. QED  BY <3>1
  <2>6. seen' \in [Keys -> SUBSET Words]
    BY <1>1, <2>2, <2>4 DEF CollectorInv, OrderInv
  <2>. QED  BY <1>1, <1>2, <2>4, <2>5, <2>6 DEF CollectorInv, OrderInv, Kinds
<1>. QED  BY <1>3, <1>4 DEF Narrow

LEMMA CollectorNext == CollectorInv /\ [SpacingNext]_spacingVars => CollectorInv'
<1>. SUFFICES ASSUME CollectorInv, [SpacingNext]_spacingVars PROVE CollectorInv'
  OBVIOUS
<1>1. CASE Finish
  <2>1. OrderInv'
    BY <1>1 DEF Finish, collectorVars, CollectorInv, OrderInv
  <2>. QED  BY <1>1, <2>1 DEF Finish, collectorVars, CollectorInv, VotesInv, GroupsInv
<1>2. CASE UNCHANGED spacingVars
  BY <1>2 DEF spacingVars, collectorVars, CollectorInv, OrderInv, VotesInv, GroupsInv
<1>. QED  BY <1>1, <1>2, WideIInv, NarrowIInv DEF SpacingNext

LEMMA CollectorInductive == SpacingSpec => []CollectorInv
BY CollectorInitially, CollectorNext, PTL DEF SpacingSpec

(* The collector stays within its limits: no more groups than MAX_GROUPS,  *)
(* no more gaps of one than SAMPLE_GAPS, no count or offset beyond the heap *)
(* (spacing.rs, Collector::observe and Group::observe).                    *)
THEOREM SpacingTypes == SpacingSpec => []SpacingTypeOK
<1>1. CollectorInv => SpacingTypeOK
  <2>1. ASSUME CollectorInv, NEW k \in DOMAIN groups
        PROVE  groups[k] \in Group /\ Len(groups[k].samples) <= SampleGaps
    <3>1. Whole(groups[k], seen[k])
      BY <2>1 DEF CollectorInv, GroupsInv
    <3>2. groups[k].hits \in Int
      BY <3>1 DEF Whole, Group
    <3>. QED  BY <3>1, <3>2, SpacingAssumption DEF Whole, Kept
  <2>. QED  BY <2>1 DEF CollectorInv, OrderInv, VotesInv, GroupsInv, SpacingTypeOK
<1>. QED  BY <1>1, CollectorInductive, PTL

(* A group is tracked from its first hit or never, so that its periodicity *)
(* is never decided on a part of its hits, whatever order the classes come *)
(* in (spacing.rs, Collector::observe).                                    *)
THEOREM SpacingTracksWhole == SpacingSpec => []TrackedGroupsAreWhole
<1>1. CollectorInv => TrackedGroupsAreWhole
  BY DEF CollectorInv, GroupsInv, Whole, TrackedGroupsAreWhole
<1>. QED  BY <1>1, CollectorInductive, PTL

(* A reservoir holds gaps between hits that follow one another, and no hit *)
(* twice, wherever the generator of Algorithm R lands (spacing.rs:60).     *)
THEOREM SpacingSamplesGaps == SpacingSpec => []SamplesAreGaps
<1>1. CollectorInv => SamplesAreGaps
  <2>1. SUFFICES ASSUME CollectorInv, NEW k \in DOMAIN groups
                 PROVE  /\ \A i \in DOMAIN groups[k].samples : GapOf(groups[k].samples[i], seen[k])
                        /\ \A i, j \in DOMAIN groups[k].samples :
                             groups[k].samples[i].to = groups[k].samples[j].to => i = j
    BY DEF SamplesAreGaps, GapOf
  <2>2. Whole(groups[k], seen[k]) /\ groups[k].samples \in Seq(Sample)
    BY <2>1 DEF CollectorInv, GroupsInv, Whole, Group
  <2>3. DOMAIN groups[k].samples = 1 .. Len(groups[k].samples)
    BY <2>2
  <2>. QED  BY <2>2, <2>3 DEF Whole
<1>. QED  BY <1>1, CollectorInductive, PTL

(* load_index accepts the statistics of every group a scan reports, for    *)
(* every heap and all limits (spacing.rs, Group::finish and validate).     *)
THEOREM SpacingValidates == SpacingSpec => []StatsValidate
<1>1. CollectorInv => StatsValidate
  <2>1. SUFFICES ASSUME CollectorInv, NEW k \in DOMAIN groups PROVE Validate(groups[k])
    BY DEF StatsValidate
  <2>. DEFINE g == groups[k]
  <2>2. Whole(g, seen[k]) /\ g \in Group /\ seen[k] \subseteq Words
    BY <2>1 DEF CollectorInv, GroupsInv, Whole, OrderInv
  <2>. HIDE DEF g
  <2>3. /\ g.hits > 0 /\ g.hits \in 0 .. HeapWords /\ g.votes <= g.hits
        /\ g.samples \in Seq(Sample)
        /\ Len(g.samples) = Kept(g.hits)
    BY <2>2 DEF Whole, Group
  <2>4. g.first <= g.last /\ g.last \in Words
    BY <2>2 DEF Whole
  <2>5. ASSUME NEW i \in DOMAIN g.samples
        PROVE  /\ g.samples[i].to - g.samples[i].gap >= g.first
               /\ g.samples[i].to <= g.last
               /\ g.samples[i].gap > 0
    <3>1. GapOf(g.samples[i], seen[k])
      BY <2>2, <2>3 DEF Whole
    <3>2. /\ g.samples[i].to \in seen[k]
          /\ g.samples[i].to - g.samples[i].gap \in seen[k]
          /\ g.samples[i].gap \in 1 .. HeapWords
      BY <3>1 DEF GapOf, Sample
    <3>3. \A h \in seen[k] : g.first <= h /\ h <= g.last
      BY <2>2 DEF Whole
    <3>4. g.first \in Int /\ g.samples[i].to - g.samples[i].gap \in Int
      BY <2>2, <3>2, WordIsNumber DEF Whole
    <3>. QED  BY <3>2, <3>3, <3>4, SpacingAssumption
  <2>. QED  BY <2>3, <2>4, <2>5, WordIsNumber, SpacingAssumption DEF Validate, Kept, TotalGaps, g
<1>. QED  BY <1>1, CollectorInductive, PTL

(* -- the votes -------------------------------------------------------------------- *)

(* The votes that the groups of a kind have been given, one by one.        *)
Cast(gs, kind) == UNION {{k} \X (1 .. gs[k].votes) : k \in {k \in DOMAIN gs : k[1] = kind}}

(* Before a vote is retained or excluded it is with a group, or untracked. *)
TallyInv ==
  \A kind \in Kinds : /\ IsFiniteSet(Cast(groups, kind))
                      /\ rawVotes[kind] = Cardinality(Cast(groups, kind)) + untrackedVotes[kind]

LEMMA InCast ==
  ASSUME NEW gs, NEW kind
  PROVE  /\ \A b \in Cast(gs, kind) : \E k \in DOMAIN gs : \E n \in 1 .. gs[k].votes : b = <<k, n>>
         /\ \A k, n : <<k, n>> \in Cast(gs, kind) <=>
                        k \in DOMAIN gs /\ k[1] = kind /\ n \in 1 .. gs[k].votes
<1>1. \A b : b \in Cast(gs, kind) <=>
               \E k \in DOMAIN gs : k[1] = kind /\ b \in {k} \X (1 .. gs[k].votes)
  BY DEF Cast
<1>2. \A k, b : b \in {k} \X (1 .. gs[k].votes) <=> \E n \in 1 .. gs[k].votes : b = <<k, n>>
  OBVIOUS
<1>3. \A k, j, n, m : <<k, n>> = <<j, m>> => k = j /\ n = m
  OBVIOUS
<1>4. ASSUME NEW b \in Cast(gs, kind)
      PROVE  \E k \in DOMAIN gs : \E n \in 1 .. gs[k].votes : b = <<k, n>>
  BY <1>1, <1>2
<1>5. ASSUME NEW k, NEW n
      PROVE  <<k, n>> \in Cast(gs, kind) <=> k \in DOMAIN gs /\ k[1] = kind /\ n \in 1 .. gs[k].votes
  BY <1>1, <1>2, <1>3
<1>. QED  BY <1>4, <1>5

(* One hit of a group, with a vote or without one.                         *)
LEMMA HitCasts ==
  ASSUME NEW gs, NEW hs, NEW key, NEW v \in Nat, NEW bit \in {0, 1},
         DOMAIN hs = DOMAIN gs \cup {key}, hs[key].votes = v + bit,
         key \in DOMAIN gs => gs[key].votes = v, key \notin DOMAIN gs => v = 0,
         \A k \in DOMAIN gs \ {key} : hs[k] = gs[k]
  PROVE  /\ \A kind : kind # key[1] => Cast(hs, kind) = Cast(gs, kind)
         /\ bit = 0 => Cast(hs, key[1]) = Cast(gs, key[1])
         /\ bit = 1 => /\ Cast(hs, key[1]) = Cast(gs, key[1]) \cup {<<key, v + 1>>}
                       /\ <<key, v + 1>> \notin Cast(gs, key[1])
<1>1. ASSUME NEW k, NEW n
      PROVE  k \in DOMAIN hs /\ n \in 1 .. hs[k].votes <=>
               \/ k \in DOMAIN gs /\ n \in 1 .. gs[k].votes
               \/ bit = 1 /\ k = key /\ n = v + 1
  <2>1. CASE k = key
    <3>1. n \in 1 .. v + bit <=> n \in 1 .. v \/ (bit = 1 /\ n = v + 1)
      OBVIOUS
    <3>2. k \in DOMAIN gs /\ n \in 1 .. gs[k].votes <=> n \in 1 .. v
      BY <2>1
    <3>. QED  BY <2>1, <3>1, <3>2
  <2>2. CASE k # key
    BY <2>2
  <2>. QED  BY <2>1, <2>2
<1>2. ASSUME NEW kind
      PROVE  \A k, n : <<k, n>> \in Cast(hs, kind) <=>
               \/ <<k, n>> \in Cast(gs, kind)
               \/ bit = 1 /\ k = key /\ n = v + 1 /\ kind = key[1]
  <2>. SUFFICES ASSUME NEW k, NEW n
                PROVE  <<k, n>> \in Cast(hs, kind) <=>
                         <<k, n>> \in Cast(gs, kind) \/ (bit = 1 /\ k = key /\ n = v + 1 /\ kind = key[1])
    OBVIOUS
  <2>1. <<k, n>> \in Cast(hs, kind) <=> k \in DOMAIN hs /\ k[1] = kind /\ n \in 1 .. hs[k].votes
    BY InCast
  <2>2. <<k, n>> \in Cast(gs, kind) <=> k \in DOMAIN gs /\ k[1] = kind /\ n \in 1 .. gs[k].votes
    BY InCast
  <2>3. k = key => k[1] = key[1]
    OBVIOUS
  <2>. QED  BY ONLY <1>1, <2>1, <2>2, <2>3
<1>3. \A kind : \A b \in Cast(hs, kind) \cup Cast(gs, kind) : \E k, n : b = <<k, n>>
  BY InCast
<1>4. ASSUME NEW kind, bit = 0 \/ kind # key[1] PROVE Cast(hs, kind) = Cast(gs, kind)
  <2>1. \A k, n : <<k, n>> \in Cast(hs, kind) <=> <<k, n>> \in Cast(gs, kind)
    <3>. SUFFICES ASSUME NEW k, NEW n PROVE <<k, n>> \in Cast(hs, kind) <=> <<k, n>> \in Cast(gs, kind)
      OBVIOUS
    <3>1. ~ (bit = 1 /\ kind = key[1])
      BY <1>4
    <3>. QED  BY ONLY <1>2, <3>1
  <2>2. \A b : b \in Cast(hs, kind) <=> b \in Cast(gs, kind)
    <3>. SUFFICES ASSUME NEW b, b \in Cast(hs, kind) \cup Cast(gs, kind)
                  PROVE  b \in Cast(hs, kind) <=> b \in Cast(gs, kind)
      OBVIOUS
    <3>1. PICK k, n : b = <<k, n>>
      BY <1>3
    <3>. QED  BY <2>1, <3>1
  <2>. QED  BY <2>2
<1>5. ASSUME bit = 1
      PROVE  Cast(hs, key[1]) = Cast(gs, key[1]) \cup {<<key, v + 1>>}
  BY <1>2, <1>3, <1>5
<1>6. <<key, v + 1>> \notin Cast(gs, key[1])
  <2>1. \A k : k = key /\ k \in DOMAIN gs => v + 1 \notin 1 .. gs[k].votes
    OBVIOUS
  <2>. QED  BY <2>1, InCast
<1>. QED  BY <1>4, <1>5, <1>6

(* A word adds its vote to a group of its kind, or to the untracked.       *)
LEMMA ObserveTally ==
  ASSUME CollectorInv, TallyInv, NEW kind \in Kinds, NEW klass \in Klasses, NEW vote \in BOOLEAN,
         Observe(kind, klass, vote)
  PROVE  TallyInv'
<1>. DEFINE key == <<kind, klass>>
<1>1. /\ rawVotes'[kind] = rawVotes[kind] + Bit(vote) /\ rawVotes[kind] \in Nat
      /\ \A other \in Kinds \ {kind} : rawVotes'[other] = rawVotes[other]
  BY DEF Observe, CollectorInv, VotesInv
<1>2. /\ untrackedVotes[kind] \in Nat
      /\ Untracked(key) => untrackedVotes'[kind] = untrackedVotes[kind] + Bit(vote)
      /\ ~ Untracked(key) => untrackedVotes'[kind] = untrackedVotes[kind]
      /\ \A other \in Kinds \ {kind} : untrackedVotes'[other] = untrackedVotes[other]
  BY DEF Observe, CollectorInv, VotesInv
<1>3. Bit(vote) \in {0, 1}
  BY DEF Bit
<1>4. \A other \in Kinds : /\ IsFiniteSet(Cast(groups, other))
                           /\ rawVotes[other] = Cardinality(Cast(groups, other)) + untrackedVotes[other]
                           /\ Cardinality(Cast(groups, other)) \in Nat
  BY FS_CardinalityType DEF TallyInv
<1>5. ASSUME Untracked(key) PROVE TallyInv'
  <2>1. groups' = groups
    BY <1>5 DEF Observe
  <2>2. ASSUME NEW other \in Kinds
        PROVE  /\ IsFiniteSet(Cast(groups', other))
               /\ rawVotes'[other] = Cardinality(Cast(groups', other)) + untrackedVotes'[other]
    <3>1. CASE other = kind
      BY <1>1, <1>2, <1>3, <1>4, <1>5, <2>1, <3>1
    <3>2. CASE other # kind
      BY <1>1, <1>2, <1>4, <2>1, <3>2
    <3>. QED  BY <3>1, <3>2
  <2>. QED  BY <2>2 DEF TallyInv
<1>6. ASSUME ~ Untracked(key) PROVE TallyInv'
  <2>. DEFINE g == IF key \in DOMAIN groups THEN groups[key] ELSE NewGroup
              v == g.votes
  <2>1. PICK new \in Hit(g, vote) :
          groups' = [k \in DOMAIN groups \cup {key} |-> IF k = key THEN new ELSE groups[k]]
    BY <1>6 DEF Observe
  <2>2. new.votes = v + Bit(vote)
    BY <2>1 DEF Hit
  <2>3. v \in Nat /\ (key \in DOMAIN groups => groups[key].votes = v) /\ (key \notin DOMAIN groups => v = 0)
    <3>1. key \in DOMAIN groups => groups[key].votes \in Nat
      BY SpacingAssumption DEF CollectorInv, GroupsInv, Whole, Group
    <3>. QED  BY <3>1 DEF NewGroup
  <2>. HIDE DEF g, v
  <2>4. /\ DOMAIN groups' = DOMAIN groups \cup {key} /\ groups'[key].votes = v + Bit(vote)
        /\ \A k \in DOMAIN groups \ {key} : groups'[k] = groups[k]
    BY <2>1, <2>2
  <2>5. key[1] = kind
    OBVIOUS
  <2>. HIDE DEF key
  <2>6. /\ \A other : other # kind => Cast(groups', other) = Cast(groups, other)
        /\ Bit(vote) = 0 => Cast(groups', kind) = Cast(groups, kind)
        /\ Bit(vote) = 1 => /\ Cast(groups', kind) = Cast(groups, kind) \cup {<<key, v + 1>>}
                            /\ <<key, v + 1>> \notin Cast(groups, kind)
    BY <1>3, <2>3, <2>4, <2>5, HitCasts
  <2>7. ASSUME Bit(vote) = 1
        PROVE  /\ IsFiniteSet(Cast(groups', kind))
               /\ Cardinality(Cast(groups', kind)) = Cardinality(Cast(groups, kind)) + 1
    BY <1>4, <2>6, <2>7, FS_AddElement
  <2>8. ASSUME NEW other \in Kinds
        PROVE  /\ IsFiniteSet(Cast(groups', other))
               /\ rawVotes'[other] = Cardinality(Cast(groups', other)) + untrackedVotes'[other]
    <3>1. CASE other = kind /\ Bit(vote) = 1
      BY <1>1, <1>2, <1>4, <1>6, <2>7, <3>1
    <3>2. CASE other = kind /\ Bit(vote) = 0
      BY <1>1, <1>2, <1>4, <1>6, <2>6, <3>2
    <3>3. CASE other # kind
      BY <1>1, <1>2, <1>4, <2>6, <3>3
    <3>. QED  BY <1>3, <3>1, <3>2, <3>3
  <2>. QED  BY <2>8 DEF TallyInv
<1>. QED  BY <1>5, <1>6

LEMMA TallyInductive == SpacingSpec => []TallyInv
<1>1. SpacingInit => TallyInv
  <2>. SUFFICES ASSUME SpacingInit, NEW kind \in Kinds
                PROVE  /\ IsFiniteSet(Cast(groups, kind))
                       /\ rawVotes[kind] = Cardinality(Cast(groups, kind)) + untrackedVotes[kind]
    BY DEF TallyInv
  <2>1. DOMAIN groups = {} /\ rawVotes[kind] = 0 /\ untrackedVotes[kind] = 0
    BY DEF SpacingInit
  <2>2. Cast(groups, kind) = {}
    BY <2>1, InCast
  <2>. QED  BY <2>1, <2>2, FS_EmptySet
<1>2. TallyInv /\ CollectorInv /\ [SpacingNext]_spacingVars => TallyInv'
  <2>. SUFFICES ASSUME TallyInv, CollectorInv, [SpacingNext]_spacingVars PROVE TallyInv'
    OBVIOUS
  <2>1. CASE UNCHANGED collectorVars
    BY <2>1 DEF collectorVars, TallyInv
  <2>2. ASSUME NEW kind \in Kinds, NEW klass \in Klasses, NEW vote \in BOOLEAN, Observe(kind, klass, vote)
        PROVE  TallyInv'
    BY <2>2, ObserveTally
  <2>3. CASE Wide
    BY <2>1, <2>2, <2>3 DEF Wide, Kinds
  <2>4. CASE Narrow
    BY <2>1, <2>2, <2>4 DEF Narrow, Kinds
  <2>5. CASE Finish
    BY <2>1, <2>5 DEF Finish
  <2>6. CASE UNCHANGED spacingVars
    BY <2>1, <2>6 DEF spacingVars
  <2>. QED  BY <2>3, <2>4, <2>5, <2>6 DEF SpacingNext
<1>. QED  BY <1>1, <1>2, CollectorInductive, PTL DEF SpacingSpec

(* The votes of a report add up: none is lost at the limit of groups or     *)
(* between the periodic and the others, and none is counted twice; and the *)
(* limit never decides a suggestion (spacing.rs, Collector::finish).       *)
THEOREM SpacingAccounts == SpacingSpec => []VotesAccounted
<1>1. TallyInv /\ CollectorInv => VotesAccounted
  <2>. SUFFICES ASSUME TallyInv, CollectorInv PROVE VotesAccounted
    OBVIOUS
  <2>1. ASSUME NEW kind \in Kinds
        PROVE  /\ rawVotes[kind] = Retained(kind) + Excluded(kind) + untrackedVotes[kind]
               /\ Retained(kind) \in Nat /\ Excluded(kind) \in Nat
    <3>. DEFINE R == {k \in DOMAIN groups : k[1] = kind /\ ~ Periodic(groups[k])}
                P == {k \in DOMAIN groups : k[1] = kind /\ Periodic(groups[k])}
                D == {k \in DOMAIN groups : k[1] = kind}
                U(K) == UNION {{k} \X (1 .. groups[k].votes) : k \in K}
    <3>1. Cast(groups, kind) = U(D) /\ Retained(kind) = Cardinality(U(R)) /\ Excluded(kind) = Cardinality(U(P))
      BY DEF Cast, Retained, Excluded, Tally
    <3>2. D = R \cup P /\ R \cap P = {}
      OBVIOUS
    <3>. HIDE DEF R, P, D
    <3>3. U(D) = U(R) \cup U(P)
      BY <3>2
    <3>4. U(R) \cap U(P) = {}
      <4>. SUFFICES ASSUME NEW b, b \in U(R), b \in U(P) PROVE FALSE
        OBVIOUS
      <4>1. PICK k \in R : b \in {k} \X (1 .. groups[k].votes)
        OBVIOUS
      <4>2. PICK j \in P : b \in {j} \X (1 .. groups[j].votes)
        OBVIOUS
      <4>3. b[1] = k /\ b[1] = j
        BY <4>1, <4>2
      <4>. QED  BY <3>2, <4>3
    <3>. HIDE DEF U
    <3>5. IsFiniteSet(U(D)) /\ rawVotes[kind] = Cardinality(U(D)) + untrackedVotes[kind]
      BY <3>1 DEF TallyInv
    <3>6. IsFiniteSet(U(R)) /\ IsFiniteSet(U(P))
      BY <3>3, <3>5, FS_Subset
    <3>7. Cardinality(U(D)) = Cardinality(U(R)) + Cardinality(U(P)) - Cardinality({})
      BY <3>3, <3>4, <3>6, FS_Union
    <3>8. Cardinality({}) = 0 /\ Cardinality(U(R)) \in Nat /\ Cardinality(U(P)) \in Nat
      BY <3>6, FS_EmptySet, FS_CardinalityType
    <3>. QED  BY <3>1, <3>5, <3>7, <3>8 DEF CollectorInv, VotesInv
  <2>2. ASSUME Suggestion # "inconclusive", NEW kind \in Kinds
        PROVE  untrackedVotes[kind] = 0
    BY <2>2 DEF Suggestion, CollectorInv, VotesInv
  <2>. QED  BY <2>1, <2>2 DEF VotesAccounted
<1>. QED  BY <1>1, TallyInductive, CollectorInductive, PTL
================================================================================
