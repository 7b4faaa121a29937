--------------------------- MODULE CaptureBundleProofs ---------------------------
(* docker/capture.sh: its types, when a bundle is of one instant and that  *)
(* its checksums are of its files, for any number of runs under whatever   *)
(* names, any length of the heap, of the polling and of what the JVM does. *)
EXTENDS CaptureBundle, TLAPS

(* Runs that have made their directory and may still write to it, or have  *)
(* written all of it.                                                      *)
Before == {"stop", "poll", "maps", "layout", "open"}
Moved  == {"resume", "consistency", "sums", "done"}
Owning == Before \cup {"heap", "rename", "exiting"} \cup Moved

Bundle(r) == bundle[Dest(r)]

(* What a run counts, and what it has open, is of the line it is at.       *)
LineInv ==
  /\ \A p \in Parts : memory[p] <= writes
  /\ \A r \in Runs :
       /\ pc[r] \in {"check", "mkdir", "stop"} => polls[r] = 0
       /\ pc[r] = "poll" => polls[r] < MaxPolls
       /\ pc[r] # "heap" => copied[r] = 0 /\ out[r] = None
       /\ pc[r] = "heap" => out[r] # None

(* A file belongs to the directory of the run whose cp created it, whoever *)
(* moves it or writes to it.                                               *)
FileInv ==
  /\ \A n \in Names :
       /\ bundle[n].partial \in Runs => Dest(bundle[n].partial) = n
       /\ ~ bundle[n].exists => bundle[n] = NoBundle
  /\ \A r \in Runs : out[r] \in Runs => Dest(out[r]) = Dest(r)
  /\ \A r \in Runs : pc[r] \in Owning => Bundle(r).exists

(* Two runs share a directory only if both were past the check when one of *)
(* them made it.                                                           *)
OwnerInv ==
  \A r, o \in Runs :
    /\ r # o /\ Dest(r) = Dest(o)
    /\ pc[r] \in Owning \cup {"mkdir"} /\ pc[o] \in Owning \cup {"mkdir"}
    /\ pc[r] \in Owning \/ pc[o] \in Owning
    => r \in crossed

(* What is in the directory of a run that has it to itself.                *)
Own(r) ==
  /\ pc[r] = "mkdir" => Bundle(r) = NoBundle
  /\ pc[r] \in Before => Bundle(r).partial = None /\ Bundle(r).heap = None
  /\ pc[r] \in {"heap", "rename"} => Bundle(r).partial = r /\ Bundle(r).heap = None
  /\ pc[r] = "heap" => out[r] = r
  /\ pc[r] \in Moved => Bundle(r).heap = r /\ Bundle(r).partial = None
  /\ pc[r] \in {"sums", "done"} => Bundle(r).consistency
  /\ pc[r] = "done" => Bundle(r).sums = InBundle(Bundle(r))
OwnInv == \A r \in Runs \ crossed : Own(r)

(* A run that no other resumed copies from a JVM that stands still.        *)
StillInv ==
  \A r \in Runs \ resumed :
    pc[r] \in Copying => jvm = "stopped" /\ frozen[r] = ToCopy

(* ... and what it has copied is what it saw.                              *)
Instant(r) ==
  /\ pc[r] \in {"layout", "open", "heap", "rename"} \cup Moved =>
       Bundle(r).maps = frozen[r].maps
  /\ pc[r] \in {"open", "heap", "rename"} \cup Moved =>
       Bundle(r).layout = frozen[r].layout
  /\ pc[r] = "heap" => \A c \in 1 .. copied[r] : disk[r][c] = frozen[r].heap[c]
  /\ pc[r] \in {"rename"} \cup Moved =>
       \A c \in 1 .. Chunks : disk[r][c] = frozen[r].heap[c]
InstantInv == \A r \in Runs \ (resumed \cup crossed) : Instant(r)

IInv ==
  /\ TypeOK
  /\ LineInv
  /\ FileInv
  /\ OwnerInv
  /\ OwnInv
  /\ StillInv
  /\ InstantInv

LEMMA InitIInv == Init => IInv
<1>. SUFFICES ASSUME Init PROVE IInv
  OBVIOUS
<1>. USE BundleAssumption DEF Init
<1>1. NoBundle \in Bundles /\ Nothing \in Contents /\ Blank \in [1 .. Chunks -> Copied]
  BY DEF NoBundle, Nothing, Blank, Bundles, Contents, Copied, Missing
<1>2. TypeOK
  BY <1>1 DEF TypeOK, PCs, Layouts
<1>3. LineInv /\ FileInv
  BY DEF LineInv, FileInv, NoBundle, Owning, Before, Moved, Bundle, None
<1>4. OwnerInv /\ OwnInv /\ StillInv /\ InstantInv
  BY DEF OwnerInv, OwnInv, StillInv, InstantInv, Own, Instant, Owning, Before, Moved, Copying
<1>. QED  BY <1>2, <1>3, <1>4 DEF IInv
(* -- types ----------------------------------------------------------------- *)

(* What a directory holds, and what there is to copy, are contents.        *)
LEMMA ContentTypes ==
  ASSUME TypeOK
  PROVE  /\ ToCopy \in Contents
         /\ Nothing \in Contents
         /\ Blank \in [1 .. Chunks -> Copied]
         /\ \A b \in Bundles : InBundle(b) \in Contents
<1>1. memory \in [Parts -> Copied] /\ Missing \in Copied
  BY BundleAssumption DEF TypeOK, Copied, Missing
<1>2. Blank \in [1 .. Chunks -> Copied] /\ Nothing \in Contents
  BY <1>1 DEF Blank, Nothing, Contents
<1>3. [c \in 1 .. Chunks |-> memory[c]] \in [1 .. Chunks -> Copied] /\ memory[Maps] \in Copied
  BY <1>1 DEF Parts
<1>4. ToCopy \in Contents
  BY <1>3 DEF ToCopy, Contents, TypeOK
<1>5. ASSUME NEW b \in Bundles PROVE InBundle(b) \in Contents
  <2>1. b.maps \in Copied /\ b.layout \in Layouts \cup {None} /\ b.heap \in Runs \cup {None}
    BY DEF Bundles
  <2>2. (IF b.heap = None THEN Blank ELSE disk[b.heap]) \in [1 .. Chunks -> Copied]
    BY <1>2, <2>1 DEF TypeOK
  <2>. QED  BY <2>1, <2>2 DEF InBundle, Contents
<1>. QED  BY <1>2, <1>4, <1>5

LEMMA BundleTypes ==
  ASSUME TypeOK, NEW r \in Runs
  PROVE  Dest(r) \in Names /\ Bundle(r) \in Bundles
BY BundleAssumption DEF TypeOK, Dest, Bundle

(* A change of one file of a directory leaves a directory.                 *)
LEMMA NewBundles ==
  ASSUME TypeOK, NEW r \in Runs, NEW new \in Bundles,
         bundle' = [bundle EXCEPT ![Dest(r)] = new]
  PROVE  /\ bundle' \in [Names -> Bundles]
         /\ bundle'[Dest(r)] = new
         /\ \A n \in Names \ {Dest(r)} : bundle'[n] = bundle[n]
BY BundleTypes DEF TypeOK

LEMMA ScriptTypes ==
  ASSUME TypeOK, LineInv, NEW r \in Runs, Script(r)
  PROVE  TypeOK'
<1>. USE DEF Goto, jvmVars, runVars, history
<1>1. pc' \in [Runs -> PCs]
  BY DEF Script, Check, MakeDir, Stop, Poll, Seen, NotSeen, CopyMaps, CopyLayout, OpenPartial,
         CopyHeap, NoCopy, Rename, Resume, Consistency, Sums, Fail, ExitTrap, SendCont,
         TypeOK, PCs
<1>2. /\ jvm' \in {"running", "stopping", "stopped"}
      /\ memory' = memory /\ writes' = writes /\ layout' = layout /\ name' = name
  BY DEF Script, Check, MakeDir, Stop, Poll, Seen, NotSeen, CopyMaps, CopyLayout, OpenPartial,
         CopyHeap, NoCopy, Rename, Resume, Consistency, Sums, Fail, ExitTrap, SendCont,
         TypeOK
<1>3. polls' \in [Runs -> 0 .. MaxPolls]
  <2>1. CASE Poll(r)
    <3>1. polls[r] \in 0 .. MaxPolls /\ polls[r] < MaxPolls
      BY <2>1 DEF Poll, TypeOK, LineInv
    <3>2. 0 \in 0 .. MaxPolls /\ polls[r] + 1 \in 0 .. MaxPolls
      BY <3>1, BundleAssumption
    <3>3. polls' \in {[polls EXCEPT ![r] = 0], [polls EXCEPT ![r] = @ + 1]}
      BY <2>1 DEF Poll, Seen, NotSeen
    <3>. QED  BY <3>2, <3>3 DEF TypeOK
  <2>2. CASE Fail(r)
    BY <2>2, BundleAssumption DEF Fail, TypeOK
  <2>3. CASE ~ Poll(r) /\ ~ Fail(r)
    <3>1. polls' = polls
      BY <2>3 DEF Script, Check, MakeDir, Stop, Poll, Seen, NotSeen, CopyMaps, CopyLayout, OpenPartial,
         CopyHeap, NoCopy, Rename, Resume, Consistency, Sums, Fail, ExitTrap, SendCont
    <3>. QED  BY <3>1 DEF TypeOK
  <2>. QED  BY <2>1, <2>2, <2>3
<1>4. copied' \in [Runs -> 0 .. Chunks - 1] /\ out' \in [Runs -> Runs \cup {None}]
  <2>1. CASE OpenPartial(r)
    <3>1. Bundle(r).partial \in Runs \cup {None}
      BY BundleTypes DEF Bundles
    <3>. QED  BY <2>1, <3>1 DEF OpenPartial, TypeOK, Bundle
  <2>2. CASE CopyHeap(r)
    <3>1. /\ copied[r] \in 0 .. Chunks - 1 /\ Chunks \in Nat \ {0}
          /\ out' \in [Runs -> Runs \cup {None}]
      BY <2>2, BundleAssumption DEF CopyHeap, NoCopy, TypeOK
    <3>2. CASE copied[r] + 1 < Chunks
      <4>1. copied' = [copied EXCEPT ![r] = @ + 1] /\ copied[r] + 1 \in 0 .. Chunks - 1
        BY <2>2, <3>1, <3>2 DEF CopyHeap
      <4>. QED  BY <3>1, <4>1 DEF TypeOK
    <3>3. CASE ~ (copied[r] + 1 < Chunks)
      <4>1. copied' = [copied EXCEPT ![r] = 0] /\ 0 \in 0 .. Chunks - 1
        BY <2>2, <3>1, <3>3 DEF CopyHeap, NoCopy
      <4>. QED  BY <3>1, <4>1 DEF TypeOK
    <3>. QED  BY <3>2, <3>3
  <2>3. CASE Fail(r)
    BY <2>3, BundleAssumption DEF Fail, NoCopy, TypeOK
  <2>4. CASE ~ OpenPartial(r) /\ ~ CopyHeap(r) /\ ~ Fail(r)
    <3>1. copied' = copied /\ out' = out
      BY <2>4 DEF Script, Check, MakeDir, Stop, Poll, Seen, NotSeen, CopyMaps, CopyLayout, OpenPartial,
         CopyHeap, NoCopy, Rename, Resume, Consistency, Sums, Fail, ExitTrap, SendCont
    <3>. QED  BY <3>1 DEF TypeOK
  <2>. QED  BY <2>1, <2>2, <2>3, <2>4
<1>5. disk' \in [Runs -> [1 .. Chunks -> Copied]]
  <2>1. CASE OpenPartial(r)
    <3>1. Bundle(r).partial \in Runs \cup {None}
      BY BundleTypes DEF Bundles
    <3>. QED  BY <2>1, <3>1, ContentTypes DEF OpenPartial, TypeOK, Bundle
  <2>2. CASE CopyHeap(r)
    <3>1. out[r] \in Runs
      BY <2>2 DEF CopyHeap, TypeOK, LineInv
    <3>2. memory[copied[r] + 1] \in Copied
      BY BundleAssumption DEF TypeOK, Parts, Copied, Missing
    <3>3. copied[r] + 1 \in 1 .. Chunks
      BY BundleAssumption DEF TypeOK
    <3>. QED  BY <2>2, <3>1, <3>2, <3>3 DEF CopyHeap, TypeOK
  <2>3. CASE ~ OpenPartial(r) /\ ~ CopyHeap(r)
    <3>1. disk' = disk
      BY <2>3 DEF Script, Check, MakeDir, Stop, Poll, Seen, NotSeen, CopyMaps, CopyLayout, OpenPartial,
         CopyHeap, NoCopy, Rename, Resume, Consistency, Sums, Fail, ExitTrap, SendCont
    <3>. QED  BY <3>1 DEF TypeOK
  <2>. QED  BY <2>1, <2>2, <2>3
<1>6. bundle' \in [Names -> Bundles]
  <2>. DEFINE b == bundle[Dest(r)]
  <2>1. b \in Bundles
    BY BundleTypes DEF Bundle
  <2>2. ASSUME NEW new \in Bundles, bundle' = [bundle EXCEPT ![Dest(r)] = new]
        PROVE  bundle' \in [Names -> Bundles]
    BY <2>2, NewBundles
  <2>3. CASE MakeDir(r)
    <3>1. [b EXCEPT !.exists = TRUE] \in Bundles
      BY <2>1 DEF Bundles
    <3>. QED  BY <2>2, <2>3, <3>1 DEF MakeDir
  <2>4. CASE CopyMaps(r)
    <3>1. memory[Maps] \in Copied
      BY BundleAssumption DEF TypeOK, Parts, Copied, Missing
    <3>2. [b EXCEPT !.maps = memory[Maps]] \in Bundles
      BY <2>1, <3>1 DEF Bundles
    <3>. QED  BY <2>2, <2>4, <3>2 DEF CopyMaps
  <2>5. CASE CopyLayout(r)
    <3>1. [b EXCEPT !.layout = layout] \in Bundles
      BY <2>1 DEF Bundles, TypeOK
    <3>. QED  BY <2>2, <2>5, <3>1 DEF CopyLayout
  <2>6. CASE OpenPartial(r)
    <3>1. \A f \in Runs \cup {None} : [b EXCEPT !.partial = f] \in Bundles
      BY <2>1 DEF Bundles
    <3>2. (IF b.partial = None THEN r ELSE b.partial) \in Runs \cup {None}
      BY <2>1 DEF Bundles
    <3>. QED  BY <2>2, <2>6, <3>1, <3>2 DEF OpenPartial
  <2>7. CASE Rename(r)
    <3>1. [b EXCEPT !.heap = b.partial, !.partial = None] \in Bundles
      BY <2>1 DEF Bundles
    <3>2. bundle' = bundle \/ bundle' = [bundle EXCEPT ![Dest(r)] = [b EXCEPT !.heap = b.partial, !.partial = None]]
      BY <2>7, BundleTypes DEF Rename, TypeOK
    <3>. QED  BY <2>2, <3>1, <3>2 DEF TypeOK
  <2>8. CASE Consistency(r)
    <3>1. [b EXCEPT !.consistency = TRUE] \in Bundles
      BY <2>1 DEF Bundles
    <3>. QED  BY <2>2, <2>8, <3>1 DEF Consistency
  <2>9. CASE Sums(r)
    <3>1. InBundle(b) \in Contents
      BY <2>1, ContentTypes
    <3>2. [b EXCEPT !.sums = InBundle(b)] \in Bundles
      BY <2>1, <3>1 DEF Bundles
    <3>. QED  BY <2>2, <2>9, <3>2 DEF Sums
  <2>10. CASE bundle' = bundle
    BY <2>10 DEF TypeOK
  <2>. QED  BY <2>3, <2>4, <2>5, <2>6, <2>7, <2>8, <2>9, <2>10
            DEF Script, Check, Stop, Poll, CopyHeap, Resume, Fail, ExitTrap
<1>7. frozen' \in [Runs -> Contents] /\ resumed' \subseteq Runs /\ crossed' \subseteq Runs
  <2>1. frozen' \in {frozen, [frozen EXCEPT ![r] = ToCopy], [frozen EXCEPT ![r] = Nothing]}
    BY DEF Script, Check, MakeDir, Stop, Poll, Seen, NotSeen, CopyMaps, CopyLayout, OpenPartial,
         CopyHeap, NoCopy, Rename, Resume, Consistency, Sums, Fail, ExitTrap, SendCont
  <2>2. frozen' \in [Runs -> Contents]
    BY <2>1, ContentTypes DEF TypeOK
  <2>3. resumed' \subseteq Runs /\ crossed' \subseteq Runs
    BY DEF Script, Check, MakeDir, Stop, Poll, Seen, NotSeen, CopyMaps, CopyLayout, OpenPartial,
         CopyHeap, NoCopy, Rename, Resume, Consistency, Sums, Fail, ExitTrap, SendCont,
           TypeOK
  <2>. QED  BY <2>2, <2>3
<1>. QED  BY <1>1, <1>2, <1>3, <1>4, <1>5, <1>6, <1>7 DEF TypeOK
(* -- the steps of a run ----------------------------------------------------- *)

(* What a step of one run leaves to the others.                            *)
LEMMA ScriptFrame ==
  ASSUME TypeOK, NEW r \in Runs, Script(r)
  PROVE  /\ UNCHANGED <<memory, layout, writes, name>>
         /\ \A o \in Runs \ {r} :
              /\ pc'[o] = pc[o] /\ polls'[o] = polls[o] /\ copied'[o] = copied[o]
              /\ out'[o] = out[o] /\ frozen'[o] = frozen[o]
         /\ crossed \subseteq crossed' /\ resumed \subseteq resumed'
         /\ \A n \in Names \ {Dest(r)} : bundle'[n] = bundle[n]
<1>. USE DEF Goto, jvmVars, runVars, history
<1>1. UNCHANGED <<memory, layout, writes, name>>
  BY DEF Script, Check, MakeDir, Stop, Poll, Seen, NotSeen, CopyMaps, CopyLayout, OpenPartial,
         CopyHeap, NoCopy, Rename, Resume, Consistency, Sums, Fail, ExitTrap, SendCont
<1>2. \A o \in Runs \ {r} : pc'[o] = pc[o]
  BY DEF Script, Check, MakeDir, Stop, Poll, Seen, NotSeen, CopyMaps, CopyLayout, OpenPartial,
         CopyHeap, NoCopy, Rename, Resume, Consistency, Sums, Fail, ExitTrap, SendCont,
         TypeOK
<1>3. \A o \in Runs \ {r} : polls'[o] = polls[o] /\ copied'[o] = copied[o]
  BY DEF Script, Check, MakeDir, Stop, Poll, Seen, NotSeen, CopyMaps, CopyLayout, OpenPartial,
         CopyHeap, NoCopy, Rename, Resume, Consistency, Sums, Fail, ExitTrap, SendCont,
         TypeOK
<1>4. \A o \in Runs \ {r} : out'[o] = out[o] /\ frozen'[o] = frozen[o]
  BY DEF Script, Check, MakeDir, Stop, Poll, Seen, NotSeen, CopyMaps, CopyLayout, OpenPartial,
         CopyHeap, NoCopy, Rename, Resume, Consistency, Sums, Fail, ExitTrap, SendCont,
         TypeOK
<1>5. crossed \subseteq crossed' /\ resumed \subseteq resumed'
  BY DEF Script, Check, MakeDir, Stop, Poll, Seen, NotSeen, CopyMaps, CopyLayout, OpenPartial,
         CopyHeap, NoCopy, Rename, Resume, Consistency, Sums, Fail, ExitTrap, SendCont
<1>6. \A n \in Names \ {Dest(r)} : bundle'[n] = bundle[n]
  BY DEF Script, Check, MakeDir, Stop, Poll, Seen, NotSeen, CopyMaps, CopyLayout, OpenPartial,
         CopyHeap, NoCopy, Rename, Resume, Consistency, Sums, Fail, ExitTrap, SendCont,
         TypeOK
<1>. QED  BY <1>1, <1>2, <1>3, <1>4, <1>5, <1>6

(* What becomes of the directory of the run.                               *)
LEMMA ScriptFiles ==
  ASSUME TypeOK, NEW r \in Runs, Script(r)
  PROVE  LET old == bundle[Dest(r)]
             new == bundle'[Dest(r)]
         IN  /\ old.exists => new.exists
             /\ new.partial \in {old.partial, r, None}
             /\ new # old => pc[r] \in Owning \/ new.exists
             /\ pc[r] = "mkdir" /\ pc'[r] \in Owning => MakeDir(r) /\ new.exists
             /\ pc'[r] \in Owning => pc[r] \in Owning \cup {"mkdir"}
             /\ pc'[r] = "mkdir" => Check(r) /\ ~ old.exists
             /\ out'[r] \in {out[r], None, r, old.partial}
<1>. DEFINE old == bundle[Dest(r)]
            new == bundle'[Dest(r)]
<1>. USE DEF Goto, jvmVars, runVars, history
<1>1. Dest(r) \in Names /\ old \in Bundles /\ bundle \in [Names -> Bundles]
  BY BundleTypes DEF Bundle, TypeOK
<1>2. CASE MakeDir(r)
  BY <1>1, <1>2 DEF MakeDir, TypeOK, Bundles, Owning, Before, Moved
<1>3. CASE OpenPartial(r)
  <2>1. LET file == IF old.partial = None THEN r ELSE old.partial
        IN  new = [old EXCEPT !.partial = file] /\ out'[r] = file
    BY <1>1, <1>3 DEF OpenPartial, TypeOK
  <2>2. pc[r] = "open" /\ pc'[r] = "heap"
    BY <1>3 DEF OpenPartial, TypeOK
  <2>. QED  BY <1>1, <2>1, <2>2 DEF Bundles, Owning, Before, Moved
<1>4. CASE Rename(r)
  <2>1. new = old \/ new = [old EXCEPT !.heap = old.partial, !.partial = None]
    BY <1>1, <1>4 DEF Rename
  <2>2. pc[r] = "rename" /\ pc'[r] \in {"exiting", "resume"} /\ out' = out
    BY <1>4 DEF Rename, TypeOK
  <2>. QED  BY <1>1, <2>1, <2>2 DEF Bundles, Owning, Before, Moved
<1>5. CASE CopyMaps(r) \/ CopyLayout(r) \/ Consistency(r) \/ Sums(r)
  <2>1. /\ new.exists = old.exists /\ new.partial = old.partial
        /\ pc[r] \in {"maps", "layout", "consistency", "sums"}
        /\ pc'[r] \in Owning /\ pc'[r] # "mkdir"
        /\ out' = out
    BY <1>1, <1>5 DEF CopyMaps, CopyLayout, Consistency, Sums, TypeOK, Bundles, Owning, Before, Moved
  <2>. QED  BY <2>1 DEF Owning, Before, Moved
<1>6. CASE Check(r)
  BY <1>1, <1>6 DEF Check, TypeOK, Owning, Before, Moved
<1>7. CASE Stop(r) \/ Poll(r) \/ CopyHeap(r) \/ Resume(r) \/ Fail(r) \/ ExitTrap(r)
  BY <1>1, <1>7 DEF Stop, Poll, Seen, NotSeen, CopyHeap, NoCopy, Resume, Fail, ExitTrap, SendCont,
         Trapped, Untrapped, Copying, TypeOK, Owning, Before, Moved
<1>. QED  BY <1>2, <1>3, <1>4, <1>5, <1>6, <1>7 DEF Script

LEMMA ScriptFileInv ==
  ASSUME TypeOK, FileInv, NEW r \in Runs, Script(r)
  PROVE  FileInv'
<1>1. name' = name /\ Dest(r) \in Names /\ \A o \in Runs : Dest(o)' = Dest(o) /\ Dest(o) \in Names
  BY ScriptFrame, BundleTypes DEF Dest
<1>2. \A n \in Names : bundle'[n].partial \in Runs => Dest(bundle'[n].partial) = n
  BY <1>1, ScriptFrame, ScriptFiles, BundleAssumption DEF FileInv, None
<1>3. \A n \in Names : ~ bundle'[n].exists => bundle'[n] = NoBundle
  BY <1>1, ScriptFrame, ScriptFiles DEF FileInv, Bundle
<1>4. \A o \in Runs : out'[o] \in Runs => Dest(out'[o]) = Dest(o)
  BY <1>1, ScriptFrame, ScriptFiles, BundleAssumption DEF FileInv, None
<1>5. \A o \in Runs : pc'[o] \in Owning => bundle'[Dest(o)].exists
  BY <1>1, ScriptFrame, ScriptFiles DEF FileInv, Bundle
<1>. QED  BY <1>1, <1>2, <1>3, <1>4, <1>5 DEF FileInv, Bundle, Dest

LEMMA ScriptOwnerInv ==
  ASSUME TypeOK, FileInv, OwnerInv, NEW r \in Runs, Script(r)
  PROVE  OwnerInv'
<1>1. \A o \in Runs : Dest(o)' = Dest(o)
  BY ScriptFrame DEF Dest
<1>2. ASSUME NEW o \in Runs \ {r}, Dest(r) = Dest(o),
             pc'[r] \in Owning \cup {"mkdir"}, pc[o] \in Owning \cup {"mkdir"},
             pc'[r] \in Owning \/ pc[o] \in Owning
      PROVE  r \in crossed' /\ o \in crossed'
  <2>1. CASE pc'[r] = "mkdir"
    <3>1. pc[o] \in Owning /\ ~ Bundle(o).exists
      BY <1>2, <2>1, ScriptFiles DEF Bundle, Owning, Before, Moved
    <3>. QED  BY <3>1 DEF FileInv
  <2>2. CASE pc'[r] \in Owning /\ pc[r] \in Owning
    BY <1>2, <2>2, ScriptFrame DEF OwnerInv
  <2>3. CASE pc'[r] \in Owning /\ pc[r] = "mkdir"
    <3>1. CASE pc[o] \in Owning
      BY <1>2, <2>3, <3>1, ScriptFrame DEF OwnerInv
    <3>2. CASE pc[o] = "mkdir"
      <4>1. MakeDir(r)
        BY <2>3, ScriptFiles
      <4> DEFINE others == {p \in Runs \ {r} : Dest(p) = Dest(r) /\ pc[p] = "mkdir"}
      <4>2. o \in others
        BY <1>2, <3>2
      <4>3. crossed' = crossed \cup others \cup {r}
        BY <4>1, <4>2 DEF MakeDir
      <4>. QED  BY <4>2, <4>3
    <3>. QED  BY <1>2, <3>1, <3>2
  <2>. QED  BY <1>2, <2>1, <2>2, <2>3, ScriptFiles
<1>. QED  BY <1>1, <1>2, ScriptFrame DEF OwnerInv

LEMMA ScriptLineInv ==
  ASSUME TypeOK, LineInv, NEW r \in Runs, Script(r)
  PROVE  LineInv'
<1>. USE DEF Goto, jvmVars, runVars, history
<1>1. /\ pc'[r] \in {"check", "mkdir", "stop"} => polls'[r] = 0
      /\ pc'[r] = "poll" => polls'[r] < MaxPolls
      /\ pc'[r] # "heap" => copied'[r] = 0 /\ out'[r] = None
      /\ pc'[r] = "heap" => out'[r] # None
  <2>1. CASE Poll(r)
    <3>1. pc[r] = "poll" /\ polls[r] \in Nat /\ polls[r] < MaxPolls /\ MaxPolls \in Nat
      BY <2>1, BundleAssumption DEF Poll, TypeOK, LineInv
    <3>2. copied[r] = 0 /\ out[r] = None /\ copied' = copied /\ out' = out
      BY <2>1, <3>1 DEF Poll, LineInv
    <3>3. CASE jvm = "stopped"
      BY <2>1, <3>2, <3>3 DEF Poll, Seen, TypeOK
    <3>4. CASE jvm # "stopped"
      <4>1. polls'[r] = polls[r] + 1 /\ pc'[r] = (IF polls[r] + 1 = MaxPolls THEN "exiting" ELSE "poll")
        BY <2>1, <3>4 DEF Poll, NotSeen, TypeOK
      <4>. QED  BY <3>1, <3>2, <4>1
    <3>. QED  BY <3>3, <3>4
  <2>2. CASE OpenPartial(r)
    <3>1. pc'[r] = "heap"
      BY <2>2 DEF OpenPartial, TypeOK
    <3>2. CASE bundle[Dest(r)].partial = None
      BY <2>2, <3>1, <3>2, BundleAssumption DEF OpenPartial, TypeOK, None
    <3>3. CASE bundle[Dest(r)].partial # None
      BY <2>2, <3>1, <3>3, BundleTypes DEF OpenPartial, TypeOK
    <3>. QED  BY <3>2, <3>3
  <2>3. CASE CopyHeap(r)
    BY <2>3 DEF CopyHeap, NoCopy, TypeOK, LineInv
  <2>4. CASE Fail(r) \/ ExitTrap(r)
    BY <2>4 DEF Fail, ExitTrap, SendCont, NoCopy, TypeOK, LineInv
  <2>5. CASE Check(r) \/ MakeDir(r) \/ Stop(r)
    BY <2>5, BundleAssumption DEF Check, MakeDir, Stop, TypeOK, LineInv
  <2>6. CASE CopyMaps(r) \/ CopyLayout(r) \/ Rename(r) \/ Resume(r) \/ Consistency(r) \/ Sums(r)
    BY <2>6 DEF CopyMaps, CopyLayout, Rename, Resume, SendCont, Consistency, Sums, TypeOK, LineInv
  <2>. QED  BY <2>1, <2>2, <2>3, <2>4, <2>5, <2>6 DEF Script
<1>. QED  BY <1>1, ScriptFrame DEF LineInv

(* Only the run whose directory it is writes to a file.                    *)
LEMMA ScriptDisk ==
  ASSUME TypeOK, LineInv, FileInv, NEW r \in Runs, Script(r), NEW f \in Runs, disk'[f] # disk[f]
  PROVE  pc[r] \in Owning /\ Dest(f) = Dest(r)
<1>. USE DEF Goto, jvmVars, runVars, history
<1>1. CASE OpenPartial(r)
  <2>1. f = (IF bundle[Dest(r)].partial = None THEN r ELSE bundle[Dest(r)].partial)
    BY <1>1 DEF OpenPartial, TypeOK
  <2>. QED  BY <1>1, <2>1, BundleTypes DEF OpenPartial, FileInv, Owning, Before
<1>2. CASE CopyHeap(r)
  <2>1. f = out[r]
    BY <1>2 DEF CopyHeap, TypeOK
  <2>. QED  BY <1>2, <2>1 DEF CopyHeap, FileInv, Owning
<1>3. CASE ~ OpenPartial(r) /\ ~ CopyHeap(r)
  <2>1. disk' = disk
    BY <1>3 DEF Script, Check, MakeDir, Stop, Poll, CopyMaps, CopyLayout, Rename, Resume,
                Consistency, Sums, Fail, ExitTrap
  <2>. QED  BY <2>1
<1>. QED  BY <1>1, <1>2, <1>3

(* A run that has its directory to itself is not disturbed in it.          *)
LEMMA Undisturbed ==
  ASSUME TypeOK, LineInv, FileInv, OwnerInv, NEW r \in Runs, Script(r),
         NEW o \in Runs \ {r}, o \notin crossed', pc[o] \in Owning \cup {"mkdir"}
  PROVE  Bundle(o)' = Bundle(o) /\ disk'[o] = disk[o]
<1>. USE DEF Goto, jvmVars, runVars, history
<1>1. o \notin crossed /\ Bundle(o)' = bundle'[Dest(o)] /\ Dest(o) \in Names
  BY ScriptFrame, BundleTypes DEF Bundle, Dest
<1>2. CASE Dest(o) # Dest(r)
  BY <1>1, <1>2, ScriptFrame, ScriptDisk DEF Bundle
<1>3. CASE Dest(o) = Dest(r)
  <2>1. /\ pc[r] \notin Owning
        /\ pc[r] = "mkdir" => pc[o] = "mkdir"
    BY <1>1, <1>3 DEF OwnerInv
  <2>2. disk'[o] = disk[o]
    BY <2>1, ScriptDisk
  <2>3. Check(r) \/ MakeDir(r) \/ Fail(r)
    BY <2>1 DEF Script, Stop, Poll, CopyMaps, CopyLayout, OpenPartial, CopyHeap, Rename, Resume,
                Consistency, Sums, ExitTrap, Owning, Before, Moved
  <2>4. ~ MakeDir(r)
    <3>1. SUFFICES ASSUME MakeDir(r) PROVE FALSE
      OBVIOUS
    <3> DEFINE others == {p \in Runs \ {r} : Dest(p) = Dest(r) /\ pc[p] = "mkdir"}
    <3>2. o \in others
      BY <1>3, <2>1, <3>1 DEF MakeDir
    <3>3. crossed' = crossed \cup others \cup {r}
      BY <3>1, <3>2 DEF MakeDir
    <3>. QED  BY <3>2, <3>3
  <2>. QED  BY <1>1, <2>2, <2>3, <2>4 DEF Check, Fail, Bundle
<1>. QED  BY <1>2, <1>3

LEMMA OthersOwn ==
  ASSUME TypeOK, LineInv, FileInv, OwnerInv, OwnInv, NEW r \in Runs, Script(r),
         NEW o \in Runs \ {r}, o \notin crossed'
  PROVE  Own(o)'
<1>1. /\ Own(o) /\ pc'[o] = pc[o] /\ out'[o] = out[o]
  BY ScriptFrame DEF OwnInv
<1>2. CASE pc[o] \in Owning \cup {"mkdir"}
  <2>1. Bundle(o)' = Bundle(o) /\ disk'[o] = disk[o]
    BY <1>2, Undisturbed
  <2>2. pc[o] = "done" => Bundle(o).sums = InBundle(Bundle(o))'
    BY <1>1, <2>1, BundleAssumption DEF Own, Moved, InBundle, None
  <2>. QED  BY <1>1, <2>1, <2>2 DEF Own
<1>3. CASE pc[o] \notin Owning \cup {"mkdir"}
  BY <1>1, <1>3 DEF Own, Owning, Before, Moved
<1>. QED  BY <1>2, <1>3

LEMMA OthersInstant ==
  ASSUME TypeOK, LineInv, FileInv, OwnerInv, InstantInv, NEW r \in Runs, Script(r),
         NEW o \in Runs \ {r}, o \notin crossed' \cup resumed'
  PROVE  Instant(o)'
<1>1. /\ Instant(o) /\ pc'[o] = pc[o] /\ copied'[o] = copied[o] /\ frozen'[o] = frozen[o]
  BY ScriptFrame DEF InstantInv
<1>2. CASE pc[o] \in Owning \cup {"mkdir"}
  <2>1. Bundle(o)' = Bundle(o) /\ disk'[o] = disk[o]
    BY <1>2, Undisturbed
  <2>. QED  BY <1>1, <2>1 DEF Instant
<1>3. CASE pc[o] \notin Owning \cup {"mkdir"}
  BY <1>1, <1>3 DEF Instant, Owning, Before, Moved
<1>. QED  BY <1>2, <1>3

LEMMA SelfOwn ==
  ASSUME TypeOK, LineInv, FileInv, OwnInv, NEW r \in Runs, Script(r), r \notin crossed'
  PROVE  Own(r)'
<1>. DEFINE old == bundle[Dest(r)]
            new == bundle'[Dest(r)]
<1>. USE BundleAssumption DEF Goto, jvmVars, runVars, history
<1>1. /\ Dest(r) \in Names /\ old \in Bundles /\ bundle \in [Names -> Bundles]
      /\ Own(r) /\ Bundle(r)' = new
  BY BundleTypes, ScriptFrame DEF Bundle, Dest, OwnInv, TypeOK
<1>2. CASE Check(r)
  BY <1>1, <1>2 DEF Check, FileInv, Own, Bundle, TypeOK, Before, Moved
<1>3. CASE MakeDir(r)
  <2>1. pc'[r] = "stop" /\ new = [old EXCEPT !.exists = TRUE] /\ old = NoBundle
    BY <1>1, <1>3 DEF MakeDir, Own, Bundle, TypeOK
  <2>. QED  BY <1>1, <2>1 DEF Own, NoBundle, Before, Moved
<1>4. CASE Stop(r) \/ Poll(r)
  BY <1>1, <1>4 DEF Stop, Poll, Seen, NotSeen, Own, Bundle, TypeOK, Before, Moved
<1>5. CASE CopyMaps(r) \/ CopyLayout(r)
  <2>1. /\ pc[r] \in Before /\ pc'[r] \in {"layout", "open"}
        /\ new.partial = old.partial /\ new.heap = old.heap
    BY <1>1, <1>5 DEF CopyMaps, CopyLayout, Bundles, TypeOK, Before
  <2>. QED  BY <1>1, <2>1 DEF Own, Bundle, Before, Moved
<1>6. CASE OpenPartial(r)
  <2>1. pc[r] = "open" /\ pc'[r] = "heap" /\ old.partial = None /\ old.heap = None
    BY <1>1, <1>6 DEF OpenPartial, Own, Bundle, TypeOK, Before
  <2>2. new = [old EXCEPT !.partial = r] /\ out'[r] = r
    BY <1>1, <1>6, <2>1 DEF OpenPartial, TypeOK
  <2>. QED  BY <1>1, <2>1, <2>2 DEF Own, Bundles, Before, Moved
<1>7. CASE CopyHeap(r)
  <2>1. /\ pc[r] = "heap" /\ pc'[r] \in {"heap", "rename"} /\ new = old
        /\ pc'[r] = "heap" => out'[r] = out[r]
    BY <1>7 DEF CopyHeap, NoCopy, TypeOK
  <2>. QED  BY <1>1, <2>1 DEF Own, Bundle, Before, Moved
<1>8. CASE Rename(r)
  <2>1. pc[r] = "rename" /\ old.partial = r /\ r # None
    BY <1>1, <1>8 DEF Rename, Own, Bundle, None
  <2>2. pc'[r] = "resume"
    BY <1>8, <2>1 DEF Rename, TypeOK
  <2>3. new = [old EXCEPT !.heap = r, !.partial = None]
    BY <1>1, <1>8, <2>1 DEF Rename
  <2>. QED  BY <1>1, <2>1, <2>2, <2>3 DEF Own, Bundles, Before, Moved
<1>9. CASE Resume(r)
  BY <1>1, <1>9 DEF Resume, SendCont, Own, Bundle, TypeOK, Before, Moved
<1>10. CASE Consistency(r)
  <2>1. /\ pc[r] = "consistency" /\ pc'[r] = "sums"
        /\ new = [old EXCEPT !.consistency = TRUE]
    BY <1>1, <1>10 DEF Consistency, TypeOK
  <2>. QED  BY <1>1, <2>1 DEF Own, Bundle, Bundles, Before, Moved
<1>11. CASE Sums(r)
  <2>1. /\ pc[r] = "sums" /\ pc'[r] = "done" /\ disk' = disk
        /\ new = [old EXCEPT !.sums = InBundle(old)]
    BY <1>1, <1>11 DEF Sums, TypeOK
  <2>2. /\ new.sums = InBundle(old) /\ new.consistency = old.consistency
        /\ new.heap = old.heap /\ new.partial = old.partial
        /\ new.maps = old.maps /\ new.layout = old.layout
    BY <1>1, <2>1 DEF Bundles
  <2>3. old.heap = r /\ old.partial = None /\ old.consistency /\ r # None
    BY <1>1, <2>1 DEF Own, Bundle, Moved, None
  <2>4. InBundle(Bundle(r))' = InBundle(old)
    BY <1>1, <2>1, <2>2, <2>3 DEF InBundle
  <2>. QED  BY <1>1, <2>1, <2>2, <2>3, <2>4 DEF Own, Before, Moved
<1>12. CASE Fail(r) \/ ExitTrap(r)
  BY <1>12 DEF Fail, ExitTrap, Own, TypeOK, Before, Moved
<1>. QED  BY <1>2, <1>3, <1>4, <1>5, <1>6, <1>7, <1>8, <1>9, <1>10, <1>11, <1>12 DEF Script

LEMMA ScriptStillInv ==
  ASSUME TypeOK, StillInv, NEW r \in Runs, Script(r)
  PROVE  StillInv'
<1>. USE DEF Goto, jvmVars, runVars, history
<1>1. ToCopy' = ToCopy
  BY ScriptFrame DEF ToCopy
<1>2. ASSUME NEW o \in Runs \ {r}, o \notin resumed', pc'[o] \in Copying
      PROVE  jvm' = "stopped" /\ frozen'[o] = ToCopy
  <2>1. pc[o] \in Copying /\ frozen'[o] = frozen[o] /\ o \notin resumed
    BY <1>2, ScriptFrame
  <2>2. jvm = "stopped" /\ frozen[o] = ToCopy
    BY <2>1 DEF StillInv
  <2>3. ~ SendCont(r)
    BY <1>2, <2>1 DEF SendCont
  <2>4. jvm' = jvm
    BY <2>2, <2>3 DEF Script, Check, MakeDir, Stop, Poll, CopyMaps, CopyLayout, OpenPartial,
                      CopyHeap, Rename, Resume, Consistency, Sums, Fail, ExitTrap
  <2>. QED  BY <2>1, <2>2, <2>4
<1>3. ASSUME r \notin resumed', pc'[r] \in Copying
      PROVE  jvm' = "stopped" /\ frozen'[r] = ToCopy
  <2>1. r \notin resumed
    BY <1>3, ScriptFrame
  <2>2. CASE Poll(r)
    BY <1>3, <2>2 DEF Poll, Seen, NotSeen, TypeOK, Copying
  <2>3. CASE ~ Poll(r)
    <3>1. pc[r] \in Copying /\ jvm' = jvm /\ frozen' = frozen
      BY <1>3, <2>3 DEF Script, Check, MakeDir, Stop, CopyMaps, CopyLayout, OpenPartial,
                        CopyHeap, Rename, Resume, Consistency, Sums, Fail, ExitTrap, TypeOK, Copying
    <3>. QED  BY <2>1, <3>1 DEF StillInv
  <2>. QED  BY <2>2, <2>3
<1>. QED  BY <1>1, <1>2, <1>3 DEF StillInv

LEMMA SelfInstant ==
  ASSUME TypeOK, LineInv, FileInv, OwnInv, StillInv, InstantInv, NEW r \in Runs, Script(r),
         r \notin crossed' \cup resumed'
  PROVE  Instant(r)'
<1>. DEFINE old == bundle[Dest(r)]
            new == bundle'[Dest(r)]
<1>. USE BundleAssumption DEF Goto, jvmVars, runVars, history
<1>1. /\ Dest(r) \in Names /\ old \in Bundles /\ bundle \in [Names -> Bundles]
      /\ Own(r) /\ Instant(r) /\ Bundle(r)' = new /\ Bundle(r) = old
      /\ pc[r] \in Copying => frozen[r] = ToCopy
  BY BundleTypes, ScriptFrame DEF Bundle, Dest, OwnInv, InstantInv, StillInv, TypeOK
<1>2. CASE Check(r) \/ MakeDir(r) \/ Stop(r) \/ Poll(r) \/ Fail(r) \/ ExitTrap(r)
  BY <1>2 DEF Check, MakeDir, Stop, Poll, Seen, NotSeen, Fail, ExitTrap, Instant, TypeOK, Moved
<1>3. CASE CopyMaps(r)
  <2>1. /\ pc[r] = "maps" /\ pc'[r] = "layout" /\ frozen' = frozen
        /\ new = [old EXCEPT !.maps = memory[Maps]]
    BY <1>1, <1>3 DEF CopyMaps, TypeOK
  <2>2. new.maps = frozen[r].maps
    BY <1>1, <2>1 DEF Bundles, ToCopy, Copying
  <2>. QED  BY <1>1, <2>1, <2>2 DEF Instant, Moved
<1>4. CASE CopyLayout(r)
  <2>1. /\ pc[r] = "layout" /\ pc'[r] = "open" /\ frozen' = frozen
        /\ new = [old EXCEPT !.layout = layout]
    BY <1>1, <1>4 DEF CopyLayout, TypeOK
  <2>2. new.layout = frozen[r].layout /\ new.maps = old.maps
    BY <1>1, <2>1 DEF Bundles, ToCopy, Copying
  <2>. QED  BY <1>1, <2>1, <2>2 DEF Instant, Moved
<1>5. CASE OpenPartial(r)
  <2>1. /\ pc[r] = "open" /\ pc'[r] = "heap" /\ frozen' = frozen /\ copied'[r] = 0
        /\ new.maps = old.maps /\ new.layout = old.layout
    BY <1>1, <1>5 DEF OpenPartial, LineInv, Bundles, TypeOK
  <2>. QED  BY <1>1, <2>1 DEF Instant, Moved
<1>6. CASE CopyHeap(r)
  <2>1. /\ pc[r] = "heap" /\ out[r] = r /\ new = old /\ frozen' = frozen
        /\ copied[r] \in 0 .. Chunks - 1 /\ Chunks \in Nat
    BY <1>1, <1>6 DEF CopyHeap, Own, TypeOK
  <2>2. \A c \in 1 .. Chunks : frozen[r].heap[c] = memory[c]
    BY <1>1, <2>1 DEF Copying, ToCopy
  <2>3. disk' = [disk EXCEPT ![r][copied[r] + 1] = memory[copied[r] + 1]]
    BY <1>6, <2>1 DEF CopyHeap
  <2>4. \A c \in 1 .. copied[r] : disk[r][c] = frozen[r].heap[c]
    BY <1>1, <2>1 DEF Instant
  <2>5. \A c \in 1 .. copied[r] + 1 : disk'[r][c] = frozen[r].heap[c]
    <3>1. copied[r] + 1 \in 1 .. Chunks /\ disk \in [Runs -> [1 .. Chunks -> Copied]]
      BY <2>1 DEF TypeOK
    <3>. QED  BY <2>1, <2>2, <2>3, <2>4, <3>1
  <2>6. CASE copied[r] + 1 < Chunks
    <3>1. pc'[r] = "heap" /\ copied'[r] = copied[r] + 1
      BY <1>6, <2>1, <2>6 DEF CopyHeap, TypeOK
    <3>. QED  BY <1>1, <2>1, <2>5, <3>1 DEF Instant, Moved
  <2>7. CASE ~ (copied[r] + 1 < Chunks)
    <3>1. pc'[r] = "rename" /\ copied[r] + 1 = Chunks
      BY <1>6, <2>1, <2>7 DEF CopyHeap, TypeOK
    <3>. QED  BY <1>1, <2>1, <2>5, <3>1 DEF Instant, Moved
  <2>. QED  BY <2>6, <2>7
<1>7. CASE Rename(r)
  <2>1. /\ pc[r] = "rename" /\ frozen' = frozen /\ disk' = disk
        /\ new.maps = old.maps /\ new.layout = old.layout
        /\ pc'[r] \in {"exiting", "resume"}
    BY <1>1, <1>7 DEF Rename, Bundles, TypeOK
  <2>. QED  BY <1>1, <2>1 DEF Instant, Moved
<1>8. CASE Resume(r)
  BY <1>1, <1>8 DEF Resume, SendCont, Instant, TypeOK, Moved
<1>9. CASE Consistency(r) \/ Sums(r)
  <2>1. /\ pc[r] \in Moved /\ pc'[r] \in Moved /\ frozen' = frozen /\ disk' = disk
        /\ new.maps = old.maps /\ new.layout = old.layout
    BY <1>1, <1>9 DEF Consistency, Sums, Bundles, TypeOK, Moved
  <2>. QED  BY <1>1, <2>1 DEF Instant, Moved
<1>. QED  BY <1>2, <1>3, <1>4, <1>5, <1>6, <1>7, <1>8, <1>9 DEF Script

LEMMA ScriptIInv == ASSUME IInv, NEW r \in Runs, Script(r) PROVE IInv'
<1>1. TypeOK' /\ LineInv' /\ FileInv' /\ OwnerInv' /\ StillInv'
  BY ScriptTypes, ScriptLineInv, ScriptFileInv, ScriptOwnerInv, ScriptStillInv DEF IInv
<1>2. OwnInv'
  BY <1>1, OthersOwn, SelfOwn DEF IInv, OwnInv
<1>3. InstantInv'
  BY <1>1, OthersInstant, SelfInstant DEF IInv, InstantInv
<1>. QED  BY <1>1, <1>2, <1>3 DEF IInv

(* -- the steps of the JVM ---------------------------------------------------- *)

LEMMA JvmIInv == IInv /\ (Mutate \/ Prepare \/ TakeStop) => IInv'
<1>. SUFFICES ASSUME IInv, Mutate \/ Prepare \/ TakeStop PROVE IInv'
  OBVIOUS
<1>. USE BundleAssumption DEF IInv, runVars, history
<1>1. /\ UNCHANGED <<name, pc, polls, copied, out, disk, bundle, frozen, resumed, crossed>>
      /\ jvm' \in {jvm, "stopped"}
  BY DEF Mutate, Prepare, TakeStop
<1>2. memory' \in [Parts -> 0 .. MaxWrites] /\ writes' \in 0 .. MaxWrites
      /\ \A p \in Parts : memory'[p] <= writes'
  <2>1. CASE Mutate
    <3>1. PICK p \in Parts : memory' = [memory EXCEPT ![p] = @ + 1]
      BY <2>1 DEF Mutate
    <3>2. writes' = writes + 1 /\ writes + 1 \in 0 .. MaxWrites
      BY <2>1 DEF Mutate, TypeOK
    <3>3. \A q \in Parts : memory[q] \in 0 .. MaxWrites /\ memory[q] <= writes
      BY DEF TypeOK, LineInv
    <3>4. \A q \in Parts : memory'[q] \in 0 .. MaxWrites /\ memory'[q] <= writes + 1
      BY <3>1, <3>2, <3>3 DEF TypeOK
    <3>. QED  BY <3>1, <3>2, <3>4 DEF TypeOK
  <2>2. CASE ~ Mutate
    BY <2>2 DEF Prepare, TakeStop, TypeOK, LineInv
  <2>. QED  BY <2>1, <2>2
<1>3. layout' \in Layouts
  BY DEF Mutate, Prepare, TakeStop, TypeOK, Layouts
<1>4. TypeOK'
  BY <1>1, <1>2, <1>3 DEF TypeOK
<1>5. LineInv' /\ FileInv' /\ OwnerInv' /\ OwnInv' /\ InstantInv'
  BY <1>1, <1>2 DEF LineInv, FileInv, OwnerInv, OwnInv, InstantInv, Own, Instant, Bundle, Dest, InBundle
<1>6. StillInv'
  <2>1. SUFFICES ASSUME NEW r \in Runs \ resumed, pc[r] \in Copying
                 PROVE  jvm' = "stopped" /\ frozen[r] = ToCopy'
    BY <1>1 DEF StillInv
  <2>2. jvm = "stopped" /\ frozen[r] = ToCopy
    BY <2>1 DEF StillInv
  <2>. QED  BY <2>2 DEF Mutate, Prepare, TakeStop
<1>. QED  BY <1>4, <1>5, <1>6

LEMMA NextIInv == IInv /\ [Next]_vars => IInv'
<1>. SUFFICES ASSUME IInv, [Next]_vars PROVE IInv'
  OBVIOUS
<1>1. CASE \E r \in Runs : Script(r)
  BY <1>1, ScriptIInv
<1>2. CASE Mutate \/ Prepare \/ TakeStop
  BY <1>2, JvmIInv
<1>3. CASE UNCHANGED vars
  <2>. USE <1>3 DEF vars, jvmVars, runVars, history, IInv
  <2>1. TypeOK' /\ LineInv' /\ FileInv' /\ OwnerInv'
    BY DEF TypeOK, LineInv, FileInv, OwnerInv, Bundle, Dest
  <2>2. OwnInv' /\ StillInv' /\ InstantInv'
    BY DEF OwnInv, StillInv, InstantInv, Own, Instant, Bundle, Dest, InBundle, ToCopy
  <2>. QED  BY <2>1, <2>2
<1>. QED  BY <1>1, <1>2, <1>3 DEF Next

LEMMA BundleIInv == Spec => []IInv
BY InitIInv, NextIInv, PTL DEF Spec

(* Heaps that agree in every chunk are the same.                           *)
LEMMA SameHeap ==
  ASSUME NEW f \in [1 .. Chunks -> Copied], NEW g \in [1 .. Chunks -> Copied],
         \A c \in 1 .. Chunks : f[c] = g[c]
  PROVE  f = g
<1>1. f = [c \in 1 .. Chunks |-> f[c]] /\ g = [c \in 1 .. Chunks |-> g[c]]
  OBVIOUS
<1>2. [c \in 1 .. Chunks |-> f[c]] = [c \in 1 .. Chunks |-> g[c]]
  OBVIOUS
<1>. QED  BY <1>1, <1>2, Zenon

(* Every run, its files and its bundle are well typed (capture.sh).        *)
THEOREM BundleTyping == Spec => []TypeOK
<1>1. IInv => TypeOK
  BY DEF IInv
<1>. QED  BY <1>1, BundleIInv, PTL

(* However many runs are at work, a finished bundle is of the instant at   *)
(* which its run saw the JVM stopped, unless another run resumed the JVM   *)
(* during its copying or shared its directory (capture.sh, lines 7 to 38). *)
THEOREM BundleInstant == Spec => []UndisturbedBundleIsOneInstant
<1>1. IInv => UndisturbedBundleIsOneInstant
  <2>1. SUFFICES ASSUME IInv, NEW r \in Runs, pc[r] = "done", r \notin resumed \cup crossed
                 PROVE  InBundle(Bundle(r)) = frozen[r]
    BY DEF UndisturbedBundleIsOneInstant, Bundle
  <2>2. Own(r) /\ Instant(r) /\ frozen[r] \in Contents /\ disk[r] \in [1 .. Chunks -> Copied]
    BY <2>1 DEF IInv, OwnInv, InstantInv, TypeOK
  <2>3. Bundle(r).heap = r /\ r # None
    BY <2>1, <2>2, BundleAssumption DEF Own, Moved, None
  <2>4. /\ Bundle(r).maps = frozen[r].maps /\ Bundle(r).layout = frozen[r].layout
        /\ \A c \in 1 .. Chunks : disk[r][c] = frozen[r].heap[c]
    BY <2>1, <2>2 DEF Instant, Moved
  <2>5. disk[r] = frozen[r].heap
    <3>1. frozen[r].heap \in [1 .. Chunks -> Copied]
      BY <2>2 DEF Contents
    <3>. QED  BY <2>2, <2>4, <3>1, SameHeap
  <2>. QED  BY <2>2, <2>3, <2>4, <2>5 DEF InBundle, Contents
<1>. QED  BY <1>1, BundleIInv, PTL

(* The checksums of a finished bundle stay those of its files, all of which *)
(* are its own run's, whatever other runs do in other directories          *)
(* (capture.sh, the last lines).                                           *)
THEOREM BundleSums == Spec => []SumsMatchFiles
<1>1. IInv => SumsMatchFiles
  BY DEF IInv, OwnInv, Own, Moved, Bundle, SumsMatchFiles
<1>. QED  BY <1>1, BundleIInv, PTL
================================================================================
