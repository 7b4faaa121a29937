--------------------------------- MODULE Trawl ---------------------------------
(***************************************************************************)
(* strings (raw_strings::strings_with_pack) and dictionaries               *)
(* (dictionaries::dictionaries), with what main.rs makes of their output   *)
(* and their errors.  One walk decodes and writes out every candidate as   *)
(* it meets its header: a String, or a map's node with its key, its value  *)
(* and the header of the next node.  The random reads happen inside the    *)
(* walk, through a descriptor of their own that was opened before it, so    *)
(* they may reach a chunk that the walk has hashed already or one that it  *)
(* has yet to hash.  A footer with the digest follows only if the recheck  *)
(* agrees.                                                                 *)
(***************************************************************************)
EXTENDS KlassWalk

Commands == {"strings", "dictionaries"}

(* The class whose headers a command looks for.                            *)
Klass == [strings |-> "String", dictionaries |-> "Node"]

VARIABLES
  command,   (* which of the two commands runs                              *)
  output,    (* where its rows go: a new file, or stdout                    *)
  exit,      (* "running", or the exit code of main                         *)
  file,      (* the file the random reads go to                             *)
  step,      (* reads made for the candidate in hand                        *)
  cand,      (* what the candidate in hand was read from                    *)
  rejected,  (* counted under a rejection reason                            *)
  skipped,   (* decoded, but mismatched, unhashed or short                  *)
  emitted,   (* written as a row                                            *)
  rows,      (* what the rows written so far were read from                 *)
  final      (* history: the capture when the recheck took its length       *)

callVars  == <<command, output>>
trawlVars == <<file, step, cand, rejected, skipped, emitted, rows, final>>
vars      == <<fileVars, pc, walkVars, recheckVars, klassVars, callVars, exit, trawlVars>>

(* decode_header reads the byte[] and its payload.  A node is decoded by   *)
(* decode_at, which also reads the String, for the key and the value, and  *)
(* one more read for the next node.                                        *)
Reads == [strings |-> 2, dictionaries |-> 7]

(* How far a candidate must be to be given up, passed over or written.     *)
RejectAt == [strings |-> 0 .. 1, dictionaries |-> 0 .. 6]
SkipAt   == [strings |-> {2}, dictionaries |-> {6}]
EmitAt   == [strings |-> {2}, dictionaries |-> {6, 7}]

(* A version read of a chunk, and whether the walk had hashed the chunk.   *)
Facts == [chunk : Chunks, ver : Versions, hashed : BOOLEAN]
PCs   == {"begin", "open", "walk", "visit", "decode", "recheck", "reopen",
          "rehash", "footer", "complete", "failed"}

(* One type invariant: counts stay within the candidates found.            *)
TypeOK ==
  /\ FileTypeOK
  /\ WalkTypeOK
  /\ KlassTypeOK
  /\ pc \in PCs
  /\ command \in Commands
  /\ output \in {"file", "stdout"}
  /\ exit \in {"running", "success", "failure"}
  /\ file \in Files \cup {NoFile}
  /\ step \in 0 .. Reads[command]
  /\ cand \subseteq Facts
  /\ rejected \in 0 .. count /\ skipped \in 0 .. count /\ emitted \in 0 .. count
  /\ rows \subseteq Facts
  /\ final \in Contents

Init ==
  /\ FileInit
  /\ WalkInit
  /\ KlassInit
  /\ pc = "begin"
  /\ command \in Commands
  /\ output \in {"file", "stdout"}
  /\ exit = "running"
  /\ file = NoFile
  /\ step = 0
  /\ cand = {}
  /\ rejected = 0
  /\ skipped = 0
  /\ emitted = 0
  /\ rows = {}
  /\ final = [c \in Chunks |-> Absent]

(* The capture is opened for the random reads, the metadata row written.   *)
Begin ==
  /\ pc = "begin"
  /\ file' = path
  /\ pc' = "open"
  /\ UNCHANGED <<step, cand, rejected, skipped, emitted, rows, final,
                 callVars, exit, klassVars, walkVars, recheckVars, fileVars>>

(* walk_klass opens the path again.                                        *)
Open == WalkOpen("open", "walk") /\ UNCHANGED <<klassVars, callVars, exit, trawlVars>>

Window ==
  /\ UNCHANGED <<callVars, exit, trawlVars>>
  /\ KlassWindow(Klass[command], "walk", "visit")

(* What a header was read from: the window, which may end in its overlap.  *)
Here  == [chunk |-> pos, ver |-> hash[pos], hashed |-> TRUE]
Ahead == [chunk |-> pos + 1, ver |-> overlap[pos + 1], hashed |-> FALSE]

(* A bound header of the window is a candidate.                            *)
Candidate ==
  /\ \E p \in ahead :
       /\ Visit(p, "visit", "decode")
       /\ cand' = IF p \in Split THEN {Here, Ahead} ELSE {Here}
  /\ UNCHANGED <<file, step, rejected, skipped, emitted, rows, final, callVars, exit>>

(* The candidate in hand is dealt with: on to the next header.             *)
Dealt == pc = "decode" /\ pc' = "visit" /\ cand' = {} /\ step' = 0

(* decode_header or decode_at gives up, or a pair is refused for its       *)
(* hashes, an overlap or a null value: the reason is counted, no row       *)
(* written.                                                                *)
Reject ==
  /\ Dealt
  /\ step \in RejectAt[command]
  /\ rejected' = rejected + 1
  /\ UNCHANGED <<file, skipped, emitted, rows, final,
                 callVars, exit, klassVars, walkVars, recheckVars, fileVars>>

(* read_at inside the walk: one chunk, or two neighbours.                  *)
ReadAt ==
  /\ pc = "decode"
  /\ step < Reads[command]
  /\ \E c \in 1 .. size : \E span \in {{c}, {c, c + 1}} :
       /\ span \subseteq 1 .. size
       /\ \A d \in span : store[file][d] # Absent
       /\ cand' = cand \cup {[chunk |-> d, ver |-> store[file][d],
                              hashed |-> d <= pos] : d \in span}
  /\ step' = step + 1
  /\ UNCHANGED <<pc, file, rejected, skipped, emitted, rows, final,
                 callVars, exit, klassVars, walkVars, recheckVars, fileVars>>

(* mutant: an early return of the closure that counts nothing.             *)
SkipSilently ==
  /\ Dealt
  /\ step \in SkipAt[command]
  /\ UNCHANGED <<file, rejected, skipped, emitted, rows, final,
                 callVars, exit, klassVars, walkVars, recheckVars, fileVars>>

(* A decoded String or pair is passed over ...                             *)
Skip ==
  /\ Dealt
  /\ step \in SkipAt[command]
  /\ skipped' = skipped + 1
  /\ UNCHANGED <<file, rejected, emitted, rows, final,
                 callVars, exit, klassVars, walkVars, recheckVars, fileVars>>

(* ... or written out at once.                                             *)
Emit ==
  /\ Dealt
  /\ step \in EmitAt[command]
  /\ rows' = rows \cup cand
  /\ emitted' = emitted + 1
  /\ UNCHANGED <<file, rejected, skipped, final,
                 callVars, exit, klassVars, walkVars, recheckVars, fileVars>>

NoMoreCandidates ==
  WindowDone("visit", "walk") /\ UNCHANGED <<callVars, exit, trawlVars>>

(* mutant: the footer follows the walk.                                    *)
WalkDoneUnchecked ==
  WalkEnd("walk", "footer") /\ UNCHANGED <<klassVars, callVars, exit, trawlVars>>

WalkDone ==
  WalkEnd("walk", "recheck") /\ UNCHANGED <<klassVars, callVars, exit, trawlVars>>

(* The recheck; the footer may be written when it succeeds.                *)
TakeLength ==
  /\ RecheckSize("recheck")
  /\ final' = Current
  /\ UNCHANGED <<file, step, cand, rejected, skipped, emitted, rows>>

Recheck ==
  /\ \/ TakeLength
     \/ RecheckOpen /\ UNCHANGED trawlVars
     \/ RehashChunk /\ UNCHANGED trawlVars
     \/ RecheckVerdict("footer") /\ UNCHANGED trawlVars
  /\ UNCHANGED <<klassVars, callVars, exit>>

(* The footer is written and flushed.  If that went to a file, the report   *)
(* is printed as well, and that may fail when the file is whole.           *)
Footer ==
  /\ pc = "footer"
  /\ pc' = "complete"
  /\ exit' \in IF output = "file" THEN {"success", "failure"} ELSE {"success"}
  /\ UNCHANGED <<klassVars, callVars, trawlVars, walkVars, recheckVars, fileVars>>

(* Any error but one makes the exit code a failure.                        *)
Fail == Abort /\ exit' = "failure" /\ UNCHANGED <<klassVars, callVars, trawlVars>>

(* The metadata row, a row and the footer are written here.                *)
Writing ==
  \/ pc \in {"begin", "footer"}
  \/ pc = "decode" /\ step \in EmitAt[command]

(* mutant: main takes every I/O error for a broken pipe.                   *)
BrokenOutput ==
  /\ Writing
  /\ pc' = "failed"
  /\ exit' = "success"
  /\ UNCHANGED <<klassVars, callVars, trawlVars, walkVars, recheckVars, fileVars>>

(* A row, or the footer, is written to a pipe that nobody reads any more:  *)
(* the command ends where it is, and main calls that a success.            *)
BrokenPipe ==
  /\ Writing
  /\ output = "stdout"
  /\ pc' = "failed"
  /\ exit' = "success"
  /\ UNCHANGED <<klassVars, callVars, trawlVars, walkVars, recheckVars, fileVars>>

Command ==
  \/ Begin \/ Open \/ Window \/ Candidate \/ Reject \/ ReadAt
  \/ Skip \/ Emit \/ NoMoreCandidates \/ WalkDone
  \/ Recheck \/ Footer
  \/ Fail \/ BrokenPipe

Writers ==
  Edit /\ UNCHANGED <<pc, walkVars, recheckVars, klassVars, callVars, exit, trawlVars>>

Next == Command \/ Writers

Spec == Init /\ [][Next]_vars

(***************************************************************************)
(* Properties.                                                             *)
(***************************************************************************)

(* The digest in a footer is of a state the capture was really in: the one *)
(* it had, from beginning to end, when the recheck took its length, though *)
(* the walk hashed each chunk at another instant, and the file may have    *)
(* grown and shrunk again while it was rehashed (raw_strings.rs,           *)
(* walk_klass and recheck).                                                *)
FooterDigestWasReal ==
  pc = "complete" => hash = final

(* If the reads and the walk opened one file, what a row took from a chunk *)
(* the walk had already hashed is covered by the footer's digest: however  *)
(* the writers interfere after that, a reference that points back is read  *)
(* safely (strings_with_pack, the reads at decode_header).                 *)
BackwardReadsCovered ==
  pc = "complete" /\ file = fd =>
    \A fact \in rows : fact.hashed => hash[fact.chunk] = fact.ver

(* Every header is a candidate once: none is lost, or met again, where two *)
(* windows meet, and what the windows showed is what the digest has unless *)
(* an overlap was other bytes when it was hashed.  And every candidate is   *)
(* counted once, rejected, skipped or emitted: none is lost in one of the   *)
(* early returns (walk_klass, the closures of strings_with_pack and of     *)
(* dictionaries).                                                          *)
CandidatesAccountedFor ==
  pc \in {"walk", "recheck", "reopen", "rehash", "footer", "complete"} =>
    /\ count = Cardinality(Met(Klass[command]))
    /\ count = rejected + skipped + emitted
    /\ pc # "walk" /\ OverlapsHashed =>
         count = Cardinality(Headers(Klass[command], hash))

(* The exit code can be relied on for an output file, though not for a     *)
(* pipe: with --output, a success means a footer, and a file without one   *)
(* was left by a failure (main.rs, main and string_command; README.md:347  *)
(* "Interrupted output must not be treated as complete").                  *)
SuccessMeansFooter ==
  output = "file" /\ exit = "success" => pc = "complete"

(* README.md:344 "Both commands hash the scan and rehash after random      *)
(* reads; a changed capture causes failure without a completion footer":   *)
(* with a footer, everything in the rows is what the digest covers.        *)
FooterCoversRows ==
  pc = "complete" =>
    \A fact \in rows : hash[fact.chunk] = fact.ver
================================================================================
