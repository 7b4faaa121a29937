------------------------------ MODULE CaptureReader ------------------------------
(***************************************************************************)
(* Commands that read a capture through an index: Reader::open, which      *)
(* hashes the file against the index and opens it again for random reads,  *)
(* the reads, and recheck, which stats the path and hashes it once more.   *)
(*                                                                         *)
(* A command may read several captures, one after the other; each has its  *)
(* own path, files and writers (as in CaptureFile).  The index of a capture *)
(* was built from the file as it was before the command started.           *)
(***************************************************************************)
EXTENDS CaptureContent

CONSTANT Captures      (* the captures of the command                       *)

VARIABLES
  path,      (* capture -> the file its path names now                      *)
  store,     (* capture -> file -> chunk -> version                         *)
  clock,     (* capture -> the last version made                            *)
  digest,    (* capture -> the content its index has the SHA-256 of         *)
  pc,        (* control point of the command                                *)
  file,      (* capture -> the descriptor of its Reader                     *)
  rfd,       (* the file hash_file has open                                 *)
  rpos,      (* chunks it has hashed                                        *)
  rsum       (* chunk -> version hashed                                     *)

captureVars == <<path, store, clock, digest>>
hashVars    == <<rfd, rpos, rsum>>

NoFile  == 0
Nothing == Original(0)

Content(s)   == store[s][path[s]]
HeapBytes(s) == Size(digest[s])

ReaderTypeOK ==
  /\ path \in [Captures -> Files]
  /\ store \in [Captures -> [Files -> Contents]]
  /\ clock \in [Captures -> Files]
  /\ digest \in [Captures -> Contents]
  /\ file \in [Captures -> Files \cup {NoFile}]
  /\ rfd \in Files \cup {NoFile}
  /\ rpos \in 0 .. MaxChunks
  /\ rsum \in Contents

(* Every capture is well formed at all times, and its index is of a capture *)
(* as it was written.                                                      *)
ReaderBound ==
  \A s \in Captures :
    /\ WellFormed(path[s], store[s], clock[s])
    /\ \E n \in Chunks : digest[s] = Original(n)
ReaderInv == ReaderTypeOK /\ ReaderBound

ReaderInit ==
  /\ path = [s \in Captures |-> 1]
  /\ clock = [s \in Captures |-> 1]
  /\ digest \in [Captures -> {Original(n) : n \in Chunks}]
  /\ store = [s \in Captures |-> [f \in Files |-> IF f = 1 THEN digest[s] ELSE Nothing]]
  /\ file = [s \in Captures |-> NoFile]
  /\ rfd = NoFile
  /\ rpos = 0
  /\ rsum = Nothing

(* -- hash_file ----------------------------------------------------------- *)

HashOpen(s, from, to) ==
  /\ pc = from
  /\ rfd' = path[s]
  /\ rpos' = 0
  /\ rsum' = Nothing
  /\ pc' = to
  /\ UNCHANGED <<captureVars, file>>

EndOfFile(s) == IF rpos = MaxChunks THEN TRUE ELSE store[s][rfd][rpos + 1] = Absent

HashChunk(s, at) ==
  /\ pc = at
  /\ ~ EndOfFile(s)
  /\ rsum' = [rsum EXCEPT ![rpos + 1] = store[s][rfd][rpos + 1]]
  /\ rpos' = rpos + 1
  /\ UNCHANGED <<captureVars, file, rfd, pc>>

(* mutant: only the lengths are compared.                                  *)
HashVerdictLength(s, at, to) ==
  /\ pc = at
  /\ EndOfFile(s)
  /\ pc' = IF Size(rsum) = HeapBytes(s) THEN to ELSE "failed"
  /\ UNCHANGED <<captureVars, file, hashVars>>

(* verify_digest                                                           *)
HashVerdict(s, at, to) ==
  /\ pc = at
  /\ EndOfFile(s)
  /\ pc' = IF rsum = digest[s] THEN to ELSE "failed"
  /\ UNCHANGED <<captureVars, file, hashVars>>

(* -- the reads ----------------------------------------------------------- *)

(* The end of Reader::open: the path is opened again, and must still have  *)
(* the indexed length.                                                     *)
OpenReads(s, from, to) ==
  /\ pc = from
  /\ file' = [file EXCEPT ![s] = path[s]]
  /\ pc' = IF Size(Content(s)) = HeapBytes(s) THEN to ELSE "failed"
  /\ UNCHANGED <<captureVars, hashVars>>

(* What a read of a chunk returns; a read past the end of the file fails.  *)
CanRead(s, c) == c \in 1 .. HeapBytes(s) /\ store[s][file[s]][c] # Absent
Read(s, c)    == store[s][file[s]][c]

(* recheck, before hash_file: the length of whatever the path names.       *)
RecheckSize(s, from, to) ==
  /\ pc = from
  /\ pc' = IF Size(Content(s)) = HeapBytes(s) THEN to ELSE "failed"
  /\ UNCHANGED <<captureVars, file, hashVars>>

Ended == pc \in {"complete", "failed"}

(* Every `?' of the command: an I/O error, a short read, a refused format,  *)
(* sidecars that disagree with the index, a failed write.                  *)
Abort ==
  /\ ~ Ended
  /\ pc' = "failed"
  /\ UNCHANGED <<captureVars, file, hashVars>>

(* -- the writers of a capture -------------------------------------------- *)

Rewrite(s) ==
  /\ \E new \in InPlace(Content(s), clock[s] + 1) :
       store' = [store EXCEPT ![s][path[s]] = new]
  /\ UNCHANGED path

Replace(s) ==
  /\ "replace" \in EditKinds
  /\ path' = [path EXCEPT ![s] = clock[s] + 1]
  /\ \E new \in Copies(Content(s), clock[s] + 1) :
       store' = [store EXCEPT ![s][clock[s] + 1] = new]

Edit(s) ==
  /\ clock[s] <= MaxEdits
  /\ clock' = [clock EXCEPT ![s] = clock[s] + 1]
  /\ Rewrite(s) \/ Replace(s)
  /\ UNCHANGED <<digest, pc, file, hashVars>>
================================================================================
