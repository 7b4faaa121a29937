------------------------------- MODULE HashedWalk -------------------------------
(***************************************************************************)
(* The two passes every command over a raw capture makes: walk_klass, which *)
(* reads the file window by window and hashes it as it goes, and recheck,  *)
(* which stats the path again, opens it again and hashes it again.         *)
(*                                                                         *)
(* What a command does between windows and between the passes is its own:  *)
(* the actions below take the control point they lead to, and the module   *)
(* of the command says when the walk is over and what a visit does.        *)
(*                                                                         *)
(* A place is an offset at which an object can be.  Some places lie across *)
(* the end of a chunk, and the window in which such a header is met judges *)
(* it by bytes of the next chunk, which are hashed with the next window    *)
(* only: by then they may be others.                                       *)
(***************************************************************************)
EXTENDS CaptureFile

CONSTANTS
  Places,      (* offsets, in their order                                   *)
  ChunkOf,     (* place -> the chunk its bytes begin in                     *)
  Split        (* the places whose bytes go on in the next chunk            *)

ASSUME PlacesAssumption ==
  /\ Places \subseteq Nat \ {0} /\ IsFiniteSet(Places)
  /\ ChunkOf \in [Places -> Chunks]
  /\ \A p, q \in Places : p < q => ChunkOf[p] <= ChunkOf[q]
  /\ Split \subseteq Places /\ \A p \in Split : ChunkOf[p] + 1 \in Chunks

VARIABLES
  pc,      (* control point of the command                                  *)
  fd,      (* the file walk_klass opened                                    *)
  size,    (* its length in chunks, read once after the open                *)
  pos,     (* chunks hashed so far                                          *)
  hash,    (* chunk -> version hashed (SHA-256: equal only if all are equal) *)
  overlap, (* chunk -> version the window before it read of its beginning   *)
  rfd,     (* the file hash_file opened for the recheck                     *)
  rpos,    (* chunks rehashed so far                                        *)
  rsum     (* chunk -> version rehashed                                     *)

walkVars    == <<fd, size, pos, hash, overlap>>
recheckVars == <<rfd, rpos, rsum>>

NoFile == 0

(* The bytes at a place: what the chunks they lie in have.                 *)
Touched(p)        == {ChunkOf[p]} \cup {c \in Chunks : p \in Split /\ c = ChunkOf[p] + 1}
Bytes(content, p) == <<content[ChunkOf[p]],
                       IF p \in Split THEN content[ChunkOf[p] + 1] ELSE Absent>>
Fits(p)           == Touched(p) \subseteq 1 .. size

(* The bytes by which the walk judges a place; those behind the end of the *)
(* chunk come from the overlap of its window.                              *)
View(p) == <<hash[ChunkOf[p]], IF p \in Split THEN overlap[ChunkOf[p] + 1] ELSE Absent>>

(* The overlaps were hashed as they had been seen.                         *)
OverlapsHashed == \A c \in Chunks : overlap[c] \in {Absent, hash[c]}

WalkTypeOK ==
  /\ fd \in Files \cup {NoFile}
  /\ size \in 0 .. MaxChunks
  /\ pos \in 0 .. size
  /\ hash \in Contents
  /\ overlap \in Contents
  /\ rfd \in Files \cup {NoFile}
  /\ rpos \in 0 .. MaxChunks
  /\ rsum \in Contents

WalkInit ==
  /\ fd = NoFile
  /\ size = 0
  /\ pos = 0
  /\ hash = [c \in Chunks |-> Absent]
  /\ overlap = [c \in Chunks |-> Absent]
  /\ rfd = NoFile
  /\ rpos = 0
  /\ rsum = [c \in Chunks |-> Absent]

(* File::open and the size: a file below 32 bytes is refused, and never   *)
(* gets here.                                                              *)
WalkOpen(from, to) ==
  /\ pc = from
  /\ Size(Current) > 0
  /\ fd' = path
  /\ size' = Size(Current)
  /\ pc' = to
  /\ UNCHANGED <<pos, hash, overlap, recheckVars, fileVars>>

(* A window is its main part and the header_bytes of the next chunk.       *)
InWindow(c) == c \in {pos + 1, pos + 2} /\ c <= size
Overlapped  == IF pos + 2 <= size THEN [overlap EXCEPT ![pos + 2] = store[fd][pos + 2]]
               ELSE overlap

(* mutant: the walk goes on to the end of the file, not to `size'.         *)
WalkWindowToEnd(from, to) ==
  /\ pc = from
  /\ pos < MaxChunks
  /\ store[fd][pos + 1] # Absent
  /\ hash' = [hash EXCEPT ![pos + 1] = store[fd][pos + 1]]
  /\ overlap' = Overlapped
  /\ pos' = pos + 1
  /\ pc' = to
  /\ UNCHANGED <<fd, size, recheckVars, fileVars>>

(* One window: read_exact, and hash.update of its main part.  A file that  *)
(* has become shorter than `size' ends the command (Abort).                *)
WalkWindow(from, to) ==
  /\ pc = from
  /\ pos < size
  /\ \A c \in Chunks : InWindow(c) => store[fd][c] # Absent
  /\ hash' = [hash EXCEPT ![pos + 1] = store[fd][pos + 1]]
  /\ overlap' = Overlapped
  /\ pos' = pos + 1
  /\ pc' = to
  /\ UNCHANGED <<fd, size, recheckVars, fileVars>>

(* `while base < size' is over: what was hashed is the digest.             *)
WalkEnd(from, to) ==
  /\ pc = from
  /\ pos = size
  /\ pc' = to
  /\ UNCHANGED <<walkVars, recheckVars, fileVars>>

(* mutant: only the digest is compared.                                    *)
SizeIgnored == TRUE
(* recheck, first half: the path must still have the length that was read. *)
SizeMatches == Size(Current) = size
RecheckSize(from) ==
  /\ pc = from
  /\ pc' = IF SizeMatches THEN "reopen" ELSE "failed"
  /\ UNCHANGED <<walkVars, recheckVars, fileVars>>

(* mutant: the recheck rewinds the descriptor of the walk.                 *)
RecheckRewind ==
  /\ pc = "reopen"
  /\ rfd' = fd
  /\ pc' = "rehash"
  /\ UNCHANGED <<rpos, rsum, walkVars, fileVars>>

(* hash_file opens the path afresh ...                                     *)
RecheckOpen ==
  /\ pc = "reopen"
  /\ rfd' = path
  /\ pc' = "rehash"
  /\ UNCHANGED <<rpos, rsum, walkVars, fileVars>>

EndOfFile == IF rpos = MaxChunks THEN TRUE ELSE store[rfd][rpos + 1] = Absent

(* ... reads on to the end of the file, wherever that is by now ...        *)
RehashChunk ==
  /\ pc = "rehash"
  /\ ~ EndOfFile
  /\ rsum' = [rsum EXCEPT ![rpos + 1] = store[rfd][rpos + 1]]
  /\ rpos' = rpos + 1
  /\ UNCHANGED <<pc, rfd, walkVars, fileVars>>

(* mutant: only the lengths are compared.                                  *)
LengthMatches == Size(rsum) = size
(* mutant: a changed capture is hashed again until it agrees.              *)
RecheckRetry(to) ==
  /\ pc = "rehash"
  /\ EndOfFile
  /\ pc' = IF rsum = hash THEN to ELSE "reopen"
  /\ UNCHANGED <<walkVars, recheckVars, fileVars>>

(* ... and the digests are compared.                                       *)
DigestMatches == rsum = hash
RecheckVerdict(to) ==
  /\ pc = "rehash"
  /\ EndOfFile
  /\ pc' = IF DigestMatches THEN to ELSE "failed"
  /\ UNCHANGED <<walkVars, recheckVars, fileVars>>

Ended == pc \in {"complete", "failed"}

(* Every `?' of the command: an I/O error, a short read, a refused format,  *)
(* a failed write.  Nothing the command still does depends on which.        *)
Abort ==
  /\ ~ Ended
  /\ pc' = "failed"
  /\ UNCHANGED <<walkVars, recheckVars, fileVars>>
================================================================================
