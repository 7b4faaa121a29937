------------------------------ MODULE CaptureFile ------------------------------
(***************************************************************************)
(* The capture file a command of zgcmaster reads, and the writers that may *)
(* change it while the command runs.                                       *)
(*                                                                         *)
(* The program opens the capture by its path several times in one command  *)
(* (File::open in walk_klass, in hash_file, for the random reads) and keeps *)
(* the descriptors, so the path is modelled apart from the files: `path' is *)
(* the file the path names now and `store' the content of every file the   *)
(* path has ever named.                                                    *)
(*                                                                         *)
(* Two assumptions on the writers are built in.  Every write makes a new   *)
(* version: no writer puts back, in a chunk, bytes that a command has       *)
(* already seen replaced.  And a writer goes through the path: a file that *)
(* a rename has replaced is never written again.                           *)
(***************************************************************************)
EXTENDS CaptureContent

VARIABLES
  path,    (* the file the capture's path names                             *)
  store,   (* file -> chunk -> version                                      *)
  clock    (* the last version made                                         *)

fileVars == <<path, store, clock>>

(* What a read of the path sees now.                                       *)
Current == store[path]

FileTypeOK ==
  /\ path \in Files
  /\ store \in [Files -> Contents]
  /\ clock \in Files

(* The path and the files are well formed at all times.                    *)
FileInv == WellFormed(path, store, clock)

(* The capture exists, is regular and holds at least one chunk.            *)
FileInit ==
  /\ path = 1
  /\ clock = 1
  /\ \E n \in Chunks :
       store = [f \in Files |-> IF f = 1 THEN Original(n) ELSE Original(0)]

Rewrite ==
  /\ \E new \in InPlace(Current, clock + 1) : store' = [store EXCEPT ![path] = new]
  /\ UNCHANGED path

(* A new file is renamed over the path.                                    *)
Replace ==
  /\ "replace" \in EditKinds
  /\ path' = clock + 1
  /\ \E new \in Copies(Current, clock + 1) :
       store' = [store EXCEPT ![clock + 1] = new]

(* One change by a writer.                                                 *)
Edit ==
  /\ clock <= MaxEdits
  /\ clock' = clock + 1
  /\ Rewrite \/ Replace
================================================================================
