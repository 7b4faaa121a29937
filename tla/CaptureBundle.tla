----------------------------- MODULE CaptureBundle -----------------------------
(***************************************************************************)
(* docker/capture.sh: stop the fixture JVM, copy its maps, its layout and  *)
(* the memfd of its heap, resume it, write the checksums.  Several runs of *)
(* the script may be at work in the container at a time, under names of    *)
(* their own or under the same one.                                        *)
(*                                                                         *)
(* The JVM is outside the script: while it is not stopped it changes its   *)
(* heap and its mappings, and Fixture.prepare rewrites layout.json.        *)
(* SIGSTOP takes effect some time after it was sent and SIGCONT at once,   *)
(* whoever sent the signal before.                                         *)
(***************************************************************************)
EXTENDS Naturals, FiniteSets

CONSTANTS
  Runs,       (* the runs of capture.sh                                     *)
  Names,      (* the names of captures                                      *)
  Namings,    (* how the runs may be named: run -> name                     *)
  Chunks,     (* the heap is copied in chunks 1 .. Chunks                   *)
  MaxPolls,   (* how often the state is polled (100 in the script)          *)
  MaxWrites   (* bound of the model: what the JVM changes                   *)

ASSUME BundleAssumption ==
  /\ "none" \notin Runs
  /\ Namings \subseteq [Runs -> Names]
  /\ Chunks \in Nat \ {0}
  /\ MaxPolls \in Nat \ {0}
  /\ MaxWrites \in Nat

VARIABLES
  jvm,       (* "running", "stopping" (SIGSTOP is pending) or "stopped"     *)
  memory,    (* part of the JVM's memory -> how often it changed            *)
  layout,    (* /tmp/fixture/layout.json: "whole", "empty" or "torn"        *)
  writes,    (* changes the JVM has made                                    *)
  name,      (* run -> the capture name it was given                        *)
  pc,        (* run -> line of the script                                   *)
  polls,     (* run -> polls made                                           *)
  copied,    (* run -> chunks its cp has copied                             *)
  out,       (* run -> the file its cp has open                             *)
  disk,      (* run -> the chunks in the file that its cp has created       *)
  bundle,    (* name -> the files of the directory                          *)
  frozen,    (* history: run -> what it was to copy when it saw the stop    *)
  resumed,   (* history: runs in whose copying another one sent SIGCONT     *)
  crossed    (* history: runs past the check when their directory was made  *)

jvmVars == <<jvm, memory, layout, writes>>
runVars == <<polls, copied, out, disk>>
history == <<frozen, resumed, crossed>>
vars    == <<jvmVars, name, pc, runVars, bundle, history>>

Maps    == 0                              (* the mappings, beside the chunks *)
Parts   == {Maps} \cup 1 .. Chunks
Missing == MaxWrites + 1                  (* a part of a file not written yet *)
Copied  == 0 .. Missing
None    == "none"
Blank   == [c \in 1 .. Chunks |-> Missing]
Layouts == {"whole", "empty", "torn"}

(* What a bundle holds of the JVM.                                         *)
Contents == [maps : Copied, layout : Layouts \cup {None}, heap : [1 .. Chunks -> Copied]]
Nothing  == [maps |-> Missing, layout |-> None, heap |-> Blank]

(* A directory.  `partial' and `heap' are heap.raw.partial and heap.raw:    *)
(* the run whose cp created the file.  `sums' is what SHA256SUMS was        *)
(* computed from.                                                          *)
Bundles == [exists : BOOLEAN, maps : Copied, layout : Layouts \cup {None},
            partial : Runs \cup {None}, heap : Runs \cup {None},
            consistency : BOOLEAN, sums : Contents]
NoBundle == [exists |-> FALSE, maps |-> Missing, layout |-> None, partial |-> None,
             heap |-> None, consistency |-> FALSE, sums |-> Nothing]

PCs == {"check", "mkdir", "stop", "poll", "maps", "layout", "open", "heap", "rename",
        "resume", "consistency", "sums", "exiting", "done", "refused", "failed"}

(* One type invariant of the runs and their directories.                   *)
TypeOK ==
  /\ jvm \in {"running", "stopping", "stopped"}
  /\ memory \in [Parts -> 0 .. MaxWrites] /\ writes \in 0 .. MaxWrites
  /\ layout \in Layouts
  /\ name \in Namings
  /\ pc \in [Runs -> PCs]
  /\ polls \in [Runs -> 0 .. MaxPolls]
  /\ copied \in [Runs -> 0 .. Chunks - 1]
  /\ out \in [Runs -> Runs \cup {None}]
  /\ disk \in [Runs -> [1 .. Chunks -> Copied]]
  /\ bundle \in [Names -> Bundles]
  /\ frozen \in [Runs -> Contents]
  /\ resumed \subseteq Runs /\ crossed \subseteq Runs

Init ==
  /\ jvm = "running"
  /\ memory = [p \in Parts |-> 0]
  /\ layout = "whole"
  /\ writes = 0
  /\ name \in Namings
  /\ pc = [r \in Runs |-> "check"]
  /\ polls = [r \in Runs |-> 0]
  /\ copied = [r \in Runs |-> 0]
  /\ out = [r \in Runs |-> None]
  /\ disk = [r \in Runs |-> Blank]
  /\ bundle = [n \in Names |-> NoBundle]
  /\ frozen = [r \in Runs |-> Nothing]
  /\ resumed = {}
  /\ crossed = {}

Dest(r) == name[r]

Goto(r, line) == pc' = [pc EXCEPT ![r] = line]

(* The steps between seeing the JVM stopped and resuming it.                *)
Copying == {"maps", "layout", "open", "heap", "rename"}

(* resume: SIGCONT, which also takes back a SIGSTOP that is pending.        *)
SendCont(r) ==
  /\ jvm' = "running"
  /\ resumed' = resumed \cup {other \in Runs \ {r} : pc[other] \in Copying}
  /\ UNCHANGED <<memory, layout, writes, frozen, crossed>>

(* What there is to copy.                                                  *)
ToCopy == [maps |-> memory[Maps], layout |-> layout, heap |-> [c \in 1 .. Chunks |-> memory[c]]]

(* What there is in the directory of a bundle.                             *)
InBundle(b) == [maps |-> b.maps, layout |-> b.layout,
                heap |-> IF b.heap = None THEN Blank ELSE disk[b.heap]]

(* -- the script ----------------------------------------------------------- *)

(* mutant: any directory will do.                                          *)
CheckLayout(r) ==
  /\ pc[r] = "check"
  /\ Goto(r, IF layout = "empty" THEN "refused" ELSE "mkdir")
  /\ UNCHANGED <<jvmVars, name, runVars, bundle, history>>

(* The destination must not exist, and the layout not be empty.            *)
Check(r) ==
  /\ pc[r] = "check"
  /\ Goto(r, IF bundle[Dest(r)].exists \/ layout = "empty" THEN "refused" ELSE "mkdir")
  /\ UNCHANGED <<jvmVars, name, runVars, bundle, history>>

(* mkdir -p, which does not mind a directory that is there.  Runs of the   *)
(* same name that are past the check by now will share it.                 *)
MakeDir(r) ==
  /\ pc[r] = "mkdir"
  /\ bundle' = [bundle EXCEPT ![Dest(r)].exists = TRUE]
  /\ LET others == {o \in Runs \ {r} : Dest(o) = Dest(r) /\ pc[o] = "mkdir"}
     IN  crossed' = IF others = {} THEN crossed ELSE crossed \cup others \cup {r}
  /\ Goto(r, "stop")
  /\ UNCHANGED <<jvmVars, name, runVars, frozen, resumed>>

(* The trap is set, and SIGSTOP sent.                                      *)
Stop(r) ==
  /\ pc[r] = "stop"
  /\ jvm' = IF jvm = "running" THEN "stopping" ELSE jvm
  /\ Goto(r, "poll")
  /\ UNCHANGED <<memory, layout, writes, name, runVars, bundle, history>>

(* The JVM was seen stopped, or seen to run once more.                      *)
Seen(r) ==
  /\ Goto(r, "maps")
  /\ frozen' = [frozen EXCEPT ![r] = ToCopy]
  /\ polls' = [polls EXCEPT ![r] = 0]

NotSeen(r, bound) ==
  /\ polls' = [polls EXCEPT ![r] = @ + 1]
  /\ Goto(r, IF polls[r] + 1 = bound THEN "exiting" ELSE "poll")
  /\ UNCHANGED frozen

(* mutant: the state is not waited for.                                    *)
PollNothing(r) ==
  /\ pc[r] = "poll"
  /\ Seen(r)
  /\ UNCHANGED <<jvmVars, name, copied, out, disk, bundle, resumed, crossed>>

(* mutant: one poll too many.                                              *)
PollLonger(r) ==
  /\ pc[r] = "poll"
  /\ IF jvm = "stopped" THEN Seen(r) ELSE NotSeen(r, MaxPolls + 1)
  /\ UNCHANGED <<jvmVars, name, copied, out, disk, bundle, resumed, crossed>>

(* The state of the process, polled until it is stopped.                   *)
Poll(r) ==
  /\ pc[r] = "poll"
  /\ IF jvm = "stopped" THEN Seen(r) ELSE NotSeen(r, MaxPolls)
  /\ UNCHANGED <<jvmVars, name, copied, out, disk, bundle, resumed, crossed>>

CopyMaps(r) ==
  /\ pc[r] = "maps"
  /\ bundle' = [bundle EXCEPT ![Dest(r)].maps = memory[Maps]]
  /\ Goto(r, "layout")
  /\ UNCHANGED <<jvmVars, name, runVars, history>>

(* The layout and, the same way, the other small files.                    *)
CopyLayout(r) ==
  /\ pc[r] = "layout"
  /\ bundle' = [bundle EXCEPT ![Dest(r)].layout = layout]
  /\ Goto(r, "open")
  /\ UNCHANGED <<jvmVars, name, runVars, history>>

(* cp is at an end.                                                        *)
NoCopy(r) ==
  /\ copied' = [copied EXCEPT ![r] = 0]
  /\ out' = [out EXCEPT ![r] = None]

(* cp of the memfd to heap.raw.partial: it creates the file, or empties the *)
(* one that is there, and has it open from then on under whatever name.    *)
OpenPartial(r) ==
  /\ pc[r] = "open"
  /\ LET file == IF bundle[Dest(r)].partial = None THEN r ELSE bundle[Dest(r)].partial
     IN  /\ bundle' = [bundle EXCEPT ![Dest(r)].partial = file]
         /\ disk' = [disk EXCEPT ![file] = Blank]
         /\ out' = [out EXCEPT ![r] = file]
  /\ Goto(r, "heap")
  /\ UNCHANGED <<jvmVars, name, polls, copied, history>>

CopyHeap(r) ==
  /\ pc[r] = "heap"
  /\ disk' = [disk EXCEPT ![out[r]][copied[r] + 1] = memory[copied[r] + 1]]
  /\ IF copied[r] + 1 < Chunks
     THEN copied' = [copied EXCEPT ![r] = @ + 1] /\ UNCHANGED <<pc, out>>
     ELSE Goto(r, "rename") /\ NoCopy(r)
  /\ UNCHANGED <<jvmVars, name, polls, bundle, history>>

(* mv to heap.raw: it fails if another run has moved the file away.        *)
Rename(r) ==
  /\ pc[r] = "rename"
  /\ LET b == bundle[Dest(r)]
     IN  IF b.partial = None THEN Goto(r, "exiting") /\ UNCHANGED bundle
         ELSE /\ bundle' = [bundle EXCEPT ![Dest(r)].heap = b.partial,
                                          ![Dest(r)].partial = None]
              /\ Goto(r, "resume")
  /\ UNCHANGED <<jvmVars, name, runVars, history>>

Resume(r) ==
  /\ pc[r] = "resume"
  /\ SendCont(r)
  /\ Goto(r, "consistency")
  /\ UNCHANGED <<name, runVars, bundle>>

Consistency(r) ==
  /\ pc[r] = "consistency"
  /\ bundle' = [bundle EXCEPT ![Dest(r)].consistency = TRUE]
  /\ Goto(r, "sums")
  /\ UNCHANGED <<jvmVars, name, runVars, history>>

Sums(r) ==
  /\ pc[r] = "sums"
  /\ bundle' = [bundle EXCEPT ![Dest(r)].sums = InBundle(bundle[Dest(r)])]
  /\ Goto(r, "done")
  /\ UNCHANGED <<jvmVars, name, runVars, history>>

(* The trap is set from before the SIGSTOP until after the SIGCONT.        *)
Trapped   == {"stop", "poll", "resume", "consistency"} \cup Copying
Untrapped == {"mkdir", "consistency", "sums"}

(* mutant: a failed command ends the script with no trap set.              *)
FailUntrapped(r) ==
  /\ pc[r] \in Trapped \cup Untrapped
  /\ Goto(r, "failed")
  /\ UNCHANGED <<jvmVars, name, runVars, bundle, history>>

(* A command fails, or the run is interrupted: with the trap set it exits  *)
(* through it.  What was to be copied no longer matters.                   *)
Fail(r) ==
  /\ \/ pc[r] \in Trapped   /\ Goto(r, "exiting")
     \/ pc[r] \in Untrapped /\ Goto(r, "failed")
  /\ NoCopy(r)
  /\ polls' = [polls EXCEPT ![r] = 0]
  /\ frozen' = [frozen EXCEPT ![r] = Nothing]
  /\ UNCHANGED <<jvmVars, name, disk, bundle, resumed, crossed>>

(* The EXIT trap.                                                          *)
ExitTrap(r) ==
  /\ pc[r] = "exiting"
  /\ SendCont(r)
  /\ Goto(r, "failed")
  /\ UNCHANGED <<name, runVars, bundle>>

Script(r) ==
  \/ Check(r) \/ MakeDir(r) \/ Stop(r) \/ Poll(r) \/ CopyMaps(r) \/ CopyLayout(r)
  \/ OpenPartial(r) \/ CopyHeap(r) \/ Rename(r) \/ Resume(r) \/ Consistency(r)
  \/ Sums(r) \/ Fail(r) \/ ExitTrap(r)

(* -- the JVM -------------------------------------------------------------- *)

Mutate ==
  /\ jvm # "stopped"
  /\ writes < MaxWrites
  /\ writes' = writes + 1
  /\ \E p \in Parts : memory' = [memory EXCEPT ![p] = @ + 1]
  /\ UNCHANGED <<jvm, layout, name, pc, runVars, bundle, history>>

(* prepare, which is synchronized, rewrites layout.json in place: it is    *)
(* emptied, has a part of its text, and is whole again.                    *)
Prepare ==
  /\ jvm # "stopped"
  /\ layout' = CASE layout = "whole" -> "empty"
                 [] layout = "empty" -> "torn"
                 [] layout = "torn"  -> "whole"
  /\ UNCHANGED <<jvm, memory, writes, name, pc, runVars, bundle, history>>

TakeStop ==
  /\ jvm = "stopping"
  /\ jvm' = "stopped"
  /\ UNCHANGED <<memory, layout, writes, name, pc, runVars, bundle, history>>

Next == (\E r \in Runs : Script(r)) \/ Mutate \/ Prepare \/ TakeStop

Spec == Init /\ [][Next]_vars
(* Each shell keeps running: only the JVM is stopped.                      *)
FairSpec == Spec /\ \A r \in Runs : WF_vars(Script(r))

(***************************************************************************)
(* Properties.                                                             *)
(***************************************************************************)

(* README.md:405 the script "checks that the process stopped, then copies  *)
(* the raw file and memory mappings", and consistency.txt says             *)
(* process-stopped: in a finished bundle the mappings and every chunk of   *)
(* the heap are of one instant, the one at which the JVM was seen stopped. *)
BundleIsOneInstant ==
  \A r \in Runs : pc[r] = "done" /\ r \notin crossed =>
    InBundle(bundle[Dest(r)]) = frozen[r]

(* A bundle is of one instant unless another run interfered, and only two  *)
(* things can spoil it: a SIGCONT that another run sent while it was being *)
(* copied, and a run of the same name that was past the check when the     *)
(* directory was made.  A failure of another run, a SIGSTOP of its own, or *)
(* a run of the same name that comes later cannot; and the layout is torn  *)
(* only if prepare was writing it when the JVM was seen stopped            *)
(* (capture.sh, lines 7 to 38).                                            *)
UndisturbedBundleIsOneInstant ==
  \A r \in Runs :
    pc[r] = "done" /\ r \notin resumed \cup crossed =>
      InBundle(bundle[Dest(r)]) = frozen[r]

(* The checksums of a finished bundle are of the files in it, all of which *)
(* are there, and stay so (capture.sh, the last line; lib.rs,              *)
(* scan_bundle_with relies on it): also when another run resumed the JVM   *)
(* in between, so that a torn bundle passes for a whole one.               *)
SumsMatchFiles ==
  \A r \in Runs :
    pc[r] = "done" /\ r \notin crossed =>
      LET b == bundle[Dest(r)]
      IN  b.sums = InBundle(b) /\ b.heap = r /\ b.partial = None /\ b.consistency

(* README.md:406 an exit trap sends SIGCONT after errors and interruption: *)
(* however the runs end, short of a kill that no trap can catch, the JVM   *)
(* goes on running.                                                        *)
JvmGoesOn == []<>(jvm = "running")
================================================================================
