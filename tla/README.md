# A TLA+ model of zgcmaster

zgcmaster reads the backing file of a ZGC heap after the fact: it looks for object headers
in raw bytes, indexes them, decodes Strings and byte arrays, and reports what it found
together with the SHA-256 of what it read.  None of it is concurrent in itself.  What is
hard is the world around it: a capture that changes while a command makes several passes
over it through several descriptors, a command that dies between two writes, two runs of
the capture script that stop and resume one JVM, and bounded collections (a reservoir, a
group table, an index, a set of unique texts) at the moment they are full.  This directory
models those parts, checks them with TLC, and proves the reports, the reads through an index,
the scan, the discovery of bindings and the capture script correct with TLAPS.

Paths and line numbers are those of the repository (`src/raw_strings.rs` is the file of
that name in the crate; the top directory of the repository is `src/` in PROJECT.json).

## The system

| component | state it keeps | operations | hard behaviour | what makes it correct |
|---|---|---|---|---|
| `verify-bindings` (raw_strings.rs `verify`) | digest under way, reservoir, counts, three descriptors of one path | walk, sample, sort, decode each sample, recheck, report | a writer between any two reads; a rename between two opens; a header that ends in bytes the next window hashes; a reservoir at capacity | digest and samples are of one instant of the capture, and every sample is accounted for |
| `strings` (`strings_with_pack`) | the same, and rows already written | walk that decodes and writes as it goes, recheck, footer | reads inside the walk, ahead of or behind the hash | a footer's digest is of a real state; what it covers; every header counted once |
| `Reader`, `show`, `dump`, `extract` (lib.rs) | an index, a descriptor | open = hash + reopen + length check, bounded reads, one or two per object | changes after the hash; a copy that ends early | what is read is as indexed or newer than the opening |
| `census` (census.rs) | tallies | `Reader::open`, one pass over the indexed arrays, recheck | as above | the report is of the state the index names |
| `diff-captures` (corpus.rs) | two snapshots, rows | snapshot, snapshot, compare, two rechecks, footer | the first capture is unattended while the second is read; the unique-text limit | the rows are the difference of the two digests' contents |
| `dictionaries` (dictionaries.rs) | tallies, rows | a walk with up to seven dependent reads per candidate and early returns, recheck | like `strings`; a candidate lost or counted twice | like `strings` |
| `scan`, `scan-raw` (lib.rs `scan_with`) | window, digest, objects, counts, spacing collector, stream | read window, judge each word, accept / reject / fail at the limit, verify, footer | headers across two windows, the 2,000,000 object limit | every object found once, and only those |
| index files (`write_index`, `load_index`) | a JSON file | create exclusively, write, load and validate | crash between creation and the end of the write; retry; a rival | never replaced; only whole ones load; every written one loads |
| spacing statistics (spacing.rs) | groups, reservoirs, vote counters | observe, finish, validate | more groups than `MAX_GROUPS`, more gaps than `SAMPLE_GAPS` | votes add up; a sample is a gap between consecutive hits |
| binding discovery (discovery.rs, discovery/nodes.rs) | evidence per group and hypothesis, proposals, anchors | follow the sampled headers of each group, propose, search nodes under the first proposals, rehash | the index is of the scan, the reads come after it; limits that cut sorted lists | evidence only of the scanned digest; the proposals are what the samples of that capture support |
| addresses (`parse_maps`, `gen_address`, `translate`, `ReferenceModel`) | the mappings | parse maps.txt, decode coloured references, map them to offsets, or guess the offset without mappings | shifts, half-open ranges, lines in any order | agrees with what the JVM means by a word, and with itself |
| command line (main.rs) | which outputs exist, the exit code | dispatch, exclusive outputs | a failure after an output was created; a reader that closes the pipe | no output replaced; success means a footer |
| `docker/capture.sh` | the fixture JVM's run state, a bundle directory per name | check, mkdir, STOP, poll, copies, rename, CONT, checksums, exit trap | two runs at a time, under one name or two; failures with the JVM stopped | a bundle is of one instant; its checksums are of its files; the JVM goes on |
| fixture JVM (Java) | the heap that is captured, layout.json | prepare, gcCycles, recordTrace | a layout half written when the JVM is stopped; unsynchronised requests | as far as a bundle shows it |
| carve (analysis.rs) | a directory, files, lines on stdout | make the directory, sniff, extract, write a line | a failure between the file and its line | a line names a whole file |
| profiles, layouts, patterns, index diff | none between calls | parsing, matching, arithmetic on one input | none | unit tests |

They interact through files.  `capture.sh` makes a bundle (heap, maps, layout,
`SHA256SUMS`); `scan` reads one and writes an index; `Reader`, `census` and
`diff-captures` read a bundle and an index that must agree by digest; `verify-bindings`,
`strings` and `dictionaries` read the raw file alone.  There are no callbacks but the
closures that `walk_klass` calls for each header, and no shared memory.

## The modules

### The capture and its writers: CaptureContent, CaptureFile

A capture is cut in the 1 MiB chunks the program reads; of a chunk only its *version* is
known.  A file is a function from chunks to versions (0: past the end).  `CaptureFile` has
the path (which file it names now), every file the path has ever named, and the writers:
`Edit` overwrites or appends a chunk, truncates, or renames another file over the path.
That environment is not in the repository; it is what the hashing and rehashing is there
for.  Two assumptions are built in and are necessary:

* every write makes a version that was never seen before.  A writer that restored, within
  one command, the exact bytes that were hashed would defeat any scheme that compares
  digests;
* writers go through the path.  A file that a rename has replaced is not written again.

SHA-256 is the content itself: two digests agree only if every chunk does.

### The two passes: HashedWalk, KlassWalk

`HashedWalk` has `walk_klass` as a pass over the file (open, length, windows, hash) and `recheck` (length of the path,
reopen, hash to the end of the file, compare), with the control points as parameters, so that each command
composes them with its own steps.  `Abort` stands for every `?` of a command.  A *place* is an offset where an object can be.
Places are in one chunk or (`Split`) go on in the next, as a header does that begins in the last bytes of a window.  The walk judges such a header by
`header_bytes` of the next chunk, which it reads with this window and hashes with the next (`overlap`); so the bytes
it judged by (`View`) and the bytes of the digest (`Bytes` of `hash`) may be different ones.

`KlassWalk` is `walk_klass` with its search: in a window (`KlassWindow`) the headers of a class that begin in its main part
(`InMain`) are found, and each is handed to the command in ascending order (`Visit`).  What the bytes
at a place are is data (`IsHeader`), so a header comes and goes with the versions of its chunks.

### Commands over a raw capture: VerifyBindings, Trawl

`VerifyBindings` is `verify`: `Select` is the closure with the reservoir (a sequence of places; the generator may land on
any slot, or past the last), `OpenFile` the second open, `Lowest` the sort, `ReadHeader`, `ReadArray` and
`ReadPayload` the three reads of `decode_at`, the last two anywhere in the file and each of up to two chunks, `FinishSample`
the count under a reason or a status.  `ReadHeader` judges the place again, by what is there now.

`Trawl` is `strings_with_pack` and `dictionaries`, the two commands whose closure decodes inside the
walk, through a descriptor that was opened before it.  Their candidates are the headers the windows show, Strings or nodes (`Klass`); `hashed` in a fact says
whether the walk had passed the chunk when it was read.  They differ in how many reads a candidate takes
(`Reads`: two for a String whose header the window holds, seven for a node with its key, its value and the next
node's header) and after which of them the closure may reject it, pass it over or write it
(`RejectAt`, `SkipAt`, `EmitAt`, read off the early returns).  Which node or key a read is of is left
open: any chunk may be read next.  `Footer`, `Fail` and `BrokenPipe` are the end
of the command in main.rs, for an output file or a pipe, with the exit code.

### Commands over an index: CaptureReader, ReaderCommands, CorpusDiff

`CaptureReader` has the captures of a command (one or two), the digest their index was built
with, `hash_file`, the reopening with its length check, and reads.  `ReaderCommands` composes it into the
commands that pass over the objects of an index: `census` (`Classify`, then the recheck), `dump`
(`ShowScalar`; `show` is a dump of one object) and `carve` (`MakeDir`, `Sniff`,
`StartCopy`, `CopyChunk`, `Extracted`; `extract` is a carve of one).  Each first validates
an object's header (`ValidateObject`).  An object is the chunk of its header and the chunks its payload starts and ends in.

`CorpusDiff` composes the snapshot of two captures.  In it the content of a chunk decides what is decoded from it
(`Target`, `Text`), so that the rows can be compared with the difference of the two contents.
`MaxUnique` stands for both limits, `--max-unique` and `--max-text-bytes`: either
ends the command in the same place.  `Reader::open`'s checks of a bundle's sidecars end the
command or leave no trace, and are part of `Abort`.

### The promise: SnapshotReport

What all checksummed reports promise of their rows: at some instant while the command runs the capture is
as the digest says, and every row was read from that state.  (Counts that are made while the hash is, as the
population of `verify-bindings`, are not rows; see below.)  `VerifyBindings` and the census of
`ReaderCommands` are shown to implement it, with `outcome`, `digest` and `evidence` mapped from the control point, the
hash and the facts, and `snapshot` from a history variable; `dump` and `carve`, which have no
recheck, are mapped to a report that never ends.  `Trawl` does not implement it (below).

### References: References

From maps.txt and a word of the heap to an offset.  `ParseLine` and `EndOfMaps` are `parse_maps` with its refusals and its sort,
`GenAddress` is `gen_address`, `Sorted` the stable sort of the mappings (each goes to its `Rank`), `Translate` the binary search,
`Hypothesis` discovery's `ReferenceModel::target`.  Words are integers; `OffsetSpan`, the size of a
view, is 2^42 in the code and 16 in the run, and `BitValues` are the powers of two an address is made of.  The properties are stated
against definitions that share nothing with the code's: what it means that the JVM coloured an address (`IsColoured`), which
mappings the text has, and where an address lies.

### Scans: ScanIndex, Spacing

`ScanIndex` works on 8-byte words: a window of `ChunkWords` and an overlap of three words (the
24 bytes), one action per way a header can go (`NoHeader`, `RejectHeader`, `IndexFull`, `AcceptHeader`), the digest
check, the stream's footer, exclusive creation of the index and its completion, `Load`, a
crash at any step, a second run in either mode, a writer and a rival at the index path.  A
file whose length is not a multiple of 8 is left out: its last bytes can only belong to no header.
`Spacing` is the collector of spacing.rs with its limits as constants; the random slot of
Algorithm R is any slot the generator could give; `Validate` is what `load_index` asks.
Both read the same words (`Heap`).

### Proposals: Discovery

`Discovery` composes the scan's pass over the capture with discovery.rs, nodes.rs and the rehash (`HashedWalk`).
The versions of the chunks a place lies in decide what the bytes there look like (`Holds`:
a String, an array, a node or nothing of these, with class, references, and the text a hash is of).  The groups come from
the windows of the scan (`Group`, by `View`), the samples are read later, and the digest has a third version of what is where
(`Scanned`), so all three may disagree.  As in the code, only the first and the last member of a group and the ends of its
listed gaps are followed (`Sample`).  Which gaps the index lists is left open: any, as many as the limit lets (`examples`, `IsListed`);
the code lists up to sixteen, evenly spaced in its reservoir.  `ReadSample`, `ReadArray` and `ReadPayload` are
the three reads of a String sample, `Propose` the end of a group under a hypothesis, `StringsDone` the sort and the cut; `ReadNode` to
`ReadNext` are the reads of a node, its key and its value, `ProposeNode` and `NodesDone` the same for nodes.  Sorted and truncated lists are
sets with an order (`Ahead`, `NodeAhead`).  Left out: the second header width, which is searched after the first in the
same way; partial overlaps of objects (places are apart or equal); a cached hash of zero.

### Captures: CaptureBundle

`docker/capture.sh` line by line, for any number of runs and any naming of them, and the JVM.  SIGSTOP is pending until the JVM
takes it; SIGCONT works at once and takes a pending stop back.  That the JVM has stopped
is one step for all its threads.  A bundle belongs to a name, not to a run: two runs of one name that both pass the check write in
one directory.  The file a `cp` has created stays its own (`out`, `disk`) when the other run's `cp` truncates
the same file, and the rename moves whatever the name `heap.partial` then stands for.  `Fixture.prepare` opens (and empties)
layout.json, then writes it; `layout` is whole, empty or torn when the stop comes.  The small files besides are one part, `Maps`.

### Proofs

`CaptureContentProofs` has the lemmas on what a writer can do to a capture;
`VerifyBindingsProofs`, `TrawlProofs`, `ReaderCommandsProofs`, `CorpusDiffProofs`,
`CaptureBundleProofs` and `DiscoveryProofs` the theorems of the modules they are named for.  `ScanProofs` has those of
`ScanIndex` and `Spacing`, and the second half of `DiscoveryProofs` those of `References`, by which a search follows a reference.  See "What is proved".

## The runs

| run | constants | states | what it asks |
|---|---|---|---|
| verify | 2 chunks, 2 edits of any kind, 3 places of Strings, one of them across the chunks, 2 samples | 96,102 | `ReportIsOneSnapshot`, `SamplesAccountedFor`, `ImplementsSnapshotReport`, `Terminates` |
| trawl | `strings` and `dictionaries`, to a file or a pipe, 2 chunks, 2 edits of any kind, 2 Strings and a node, a String and the node across the chunks | 273,357 | `FooterDigestWasReal`, `BackwardReadsCovered`, `CandidatesAccountedFor`, `SuccessMeansFooter` |
| trawl_forward | 2 chunks, 1 edit in place, 1 String | violated | `FooterCoversRows` |
| reader | census, dump and carve, every index of up to 2 objects, 2 chunks, 2 edits of any kind | 760,198 | `DriftIsRecent`, `LinesNameWholeFiles`, `ImplementsSnapshotReport` |
| references | every maps.txt of up to 3 lines of 19, a heap of 32 bytes, three layouts, words with every remap nibble | 185,052 | `DecodesTheColouring`, `MapsAreTheReadableLines`, `TargetIsWhereItIsMapped`, `GuessesWhatIsMapped` |
| corpus_diff | 3 chunks, 1 edit per capture, 2 unique texts of 3 | 306,999 | `DiffOfDigests`, `BothStillTheDigests` |
| scan_windows | every heap of 5 words, windows of 2, at most 1 object | 177,615 | `ScanFindsTheObjects`, `WrittenIndexLoads` |
| scan_retry | every heap of 4 words, 1 edit, 2 runs of either mode, a rival | 1,672,640 | `ScanFindsTheObjects`, `OnlyWholeScansPass`, `IndexNeverReplaced` |
| spacing | 4 header positions, 2 of 4 groups, reservoirs of 2 | 410,302 | `TrackedGroupsAreWhole`, `VotesAccounted`, `SamplesAreGaps`, `StatsValidate` |
| discovery | 2 chunks, 2 edits of any kind, 10 places, one of them across the chunks, 1 listed gap per group, 3 hypotheses, support 2 | 330,341 | `EvidenceIsOfTheScan`, `ProposalsAreSupported`, `NodesRestOnProposals` |
| capture | 2 runs, under one name or two, 2 heap chunks, 2 polls, 1 change by the JVM | 388,380 | `UndisturbedBundleIsOneInstant`, `SumsMatchFiles`, `JvmGoesOn` |
| capture_two_instants | the same | violated | `BundleIsOneInstant` |

Each module also has one type invariant (`TypeOK`; `SpacingTypeOK`), checked where its name appears in a cfg.

Why the bounds are enough.  Two chunks make a chunk behind and a chunk ahead of the walk, a
window that overlaps and a last one that does not, and a reference to either side.  Two edits
make every pair of interferences: a change and the change that would hide it, a rename and
a write to what was renamed.  A header across the two chunks can be seen as one thing, hashed as another and read again as a third.  A third header replaces one of two in the reservoir, or does not.  In the
scan five words hold an array across three windows and two objects, one over the limit; in
spacing, four hits make a reservoir of two replace, and more groups than it tracks are
asked for.  In discovery one listed gap leaves a member of a group of four unfollowed, and a header across the chunks belongs to another group when its end is rewritten; the support is two where the code asks for three, the fourth group is over the limit
of the String search, the fourth proposal, the third anchor and the second node proposal are over theirs, two Strings share an
array, and a rewritten chunk has nodes that share a key.  In the reader's run an object may straddle two chunks, and two objects
may lie in one.  The lines of maps.txt have mappings that touch, that overlap, that leave gaps, that share offsets
and that reach past the file; three lines are one more than may be mapped.  The words have every remap nibble, right and wrong, next
to every address of the mappings and to the ones past them.  A dictionaries candidate takes seven reads, which makes every position of a pair's parts before,
in and after the walk's window; one node across the chunks does that, and the two Strings are one after the other, in the counts and at the boundary.  Two runs of the
script are the smallest number that can interfere, and one change by the JVM is enough to tell two instants apart.

`CHECK_DEADLOCK FALSE` is in every cfg because every command ends and then the system may stop.

Fairness.  `FairSpec` of `VerifyBindings` has weak fairness of the command's steps, a single thread the operating
system keeps running, and none of the writers'.  `Terminates` leans on `MaxEdits`: `hash_file` reads on
while the file grows, and against a file that grows for ever it would not end.  `FairSpec` of
`CaptureBundle` has weak fairness of each run of the script, whose shell is never stopped, and none of the JVM's:
the script must come to an end even if the JVM never takes the stop.

## What the runs show

* The digest of `verify-bindings` and of `census` is of one instant, and so is everything their samples and tallies were read from, under every
  interference the two assumptions allow.  `diff-captures` is the exact difference of
  the two contents its digests name, and both captures still were those
  contents together after the last row.
* The population of `verify-bindings` is counted during the walk, once for each header the windows show, and the reservoir keeps
  min(population, `--samples`) different ones.  It is the population **of the digest** only if the overlaps were
  hashed as they had been seen.  A header across two chunks is judged by the overlap, and if that is overwritten before the next window hashes it, the report counts a header its
  digest does not have, or the other way round, and the report's caveat that the population "includes every aligned, plausible" header (raw_strings.rs:399) is to be
  read with that in mind; hence the condition in `ReportIsOneSnapshot`.  A sample of such a place does no harm: it is judged again by random reads, which the recheck covers.
* `show`, `dump`, `extract` and `carve` promise less, since they look at the capture once, when they open it: what they print is as
  indexed or was written after `Reader::open` had opened the file to hash it (`DriftIsRecent`).  Nothing older is
  ever read, although the hash is of one descriptor and the reads are of another.  A line of `carve` names a whole file; a
  file without a line may be half a payload.
* A footer of `strings` or `dictionaries` always has the digest of a state the capture was in, from beginning to end, when the
  recheck took its length; a file that grows after that, and is cut off again while it is rehashed, does not get past it as something else.  It does **not**
  always cover the rows: README.md:344 says that "a changed capture causes failure without a
  completion footer", and a forward reference that is followed before its chunk is
  overwritten, hashed and rehashed is in the rows and not in the digest (run trawl_forward).
  The same can happen through a rename between the two opens at raw_strings.rs:287 and :213, which is why
  `BackwardReadsCovered` only speaks of reads in the file that was walked.  The README's next
  sentence asks for an immutable file, and under that no writer exists.
* Every header is a candidate of both once, none lost or met twice where two windows meet, and is counted once, through all early returns.  With `--output`, exit code 0 means a footer; to a
  pipe it does not, because main takes a closed pipe for a success.
* References: the address taken from a word is the one the JVM coloured; maps.txt is accepted if and only if its heap
  mappings are disjoint, in the file and not too many, in whatever order; an address resolves to where it is mapped; and where a capture is mapped as a
  reference hypothesis of discovery has it, the hypothesis gives the offset the mappings give.
* A scan of a bundle finds the objects of the heap its checksum names and no others, across all
  window boundaries; crashes, retries and rivals neither replace an index nor leave one that
  loads without being whole.
* Discovery publishes only what was read from the capture its index names, and of that capture the proposals that the
  sampled offsets support, with the counts of the samples.  About the offsets it does not follow it says nothing, and nothing is shown.
* The spacing statistics add up at their limits and always pass the validation.
* A bundle of `capture.sh` is of one instant unless another run sends SIGCONT during the
  copying, or a run of the same name had passed the check when the directory was made; that another run can is a disagreement with README.md:405 and with the
  `process-stopped` of consistency.txt (run capture_two_instants).  Such a bundle still has checksums that fit its files, so the scan accepts it
  (`SumsMatchFiles`).  Part of the instant may be a layout.json that `prepare` was writing when the JVM was stopped.

## What is proved

For every number of chunks, places, words, edits, samples, headers, objects, classes, groups, hypotheses, runs, names and polls,
and every limit:

| module | theorems | property |
|---|---|---|
| VerifyBindingsProofs | `VerifyTypes`, `VerifyAccounts`, `VerifySnapshot`, `VerifyImplementsReport` | `TypeOK`, `SamplesAccountedFor`, `ReportIsOneSnapshot`, refinement of `SnapshotReport` |
| TrawlProofs | `TrawlTypes`, `TrawlFooterReal`, `TrawlBackward`, `TrawlAccounts`, `TrawlSuccess` | all five invariants of the run trawl |
| ReaderCommandsProofs | `ReaderTypes`, `ReaderDrift`, `ReaderLines`, `CensusImplementsReport` | all three invariants of the run reader, refinement of `SnapshotReport` |
| CorpusDiffProofs | `DiffTypes`, `DiffIsOfDigests`, `DiffStillTheDigests` | all three invariants of the run corpus_diff, for every `Target` and `Text` |
| CaptureBundleProofs | `BundleTyping`, `BundleInstant`, `BundleSums` | all three invariants of the run capture |
| ScanProofs | `ScanTypes`, `PassedScanFindsTheObjects`, `OutputsAreWholeScans`, `CompletedIndexLoads`, `NoIndexReplaced` | all four invariants and the action property of the runs scan_windows and scan_retry |
| ScanProofs | `SpacingTypes`, `SpacingTracksWhole`, `SpacingSamplesGaps`, `SpacingValidates`, `SpacingAccounts` | all five invariants of the run spacing |
| DiscoveryProofs | `DiscoveryTypes`, `DiscoveryEvidence`, `DiscoveryProposals`, `DiscoveryNodes` | all four invariants of the run discovery, for every `Holds` and `Target` and whichever gaps are listed |
| DiscoveryProofs | `ReferencesParse`, `ReferencesDecode`, `ReferencesResolve`, `ReferencesGuess` | all four invariants of the run references |

They rest on the named assumptions of the modules (`CaptureFileAssumption`, `PlacesAssumption`, `HeaderAssumption`, `VerifyAssumption`,
`ReaderAssumption`, `CorpusAssumption`, `BundleAssumption`, `ScanAssumption`, `SpacingAssumption`, `DiscoveryAssumption`,
`ReferencesAssumption`: the constants are numbers and
functions of the right kind, there is at least one chunk, places are in the order of their chunks and a place across two chunks has a next one, a window is longer than the overlap, a proposal needs support,
for which the code asks three, and of two bits of an address the higher is worth at least twice the lower) and on one condition, written in the theorems it is for:
`PassedScanFindsTheObjects` and `OutputsAreWholeScans` ask that the scan has a checksum to meet or that nothing changes the
file (`Bundle \/ MaxEdits = 0`).  scan-raw of a changing file is promised nothing.  That every write makes a new version is part of the model.

The arguments.

*Reports.*  `ReportIsOneSnapshot` is not inductive: in the middle of the command nothing has been compared
yet.  `IInv` therefore says what a change *spoils*.  Its first part: if, for
a chunk, the walk hashed (or a sample read) a version that the path does not have now,
then, because no version comes back, the path will never have it again (`SpoilInv`).  Its second
part follows the rehash: once the recheck has opened the path, what it has read of a chunk is either
what the walk hashed, and then the path had that version when the file was opened, or it is a
difference that the verdict will find (`RehashInv`).  So if the
verdict finds none, no chunk was spoilt when the recheck took the length of the path, hence none was when the random
reads began, nor at any read.  What the walk hashed are the chunks up to that length, so a capture of that length that has them has nothing
else (`WholeContent`): it is the digest's from beginning to end.

That every header is counted once is an invariant of the walk: the headers counted and those still to visit in the window (`ahead`)
are the ones the windows have shown so far (`Met`), and none of them twice (`MetInv`).  In a report the headers the windows
showed are compared with those of the digest, which are the same if each overlap was hashed as it had been seen (`OverlapsHashed`).  For `SamplesAccountedFor`
the reservoir has different places of those visited (`KeptInv`), the slots still to do and the counts make up the sample (`SlotInv`), and a pair
was judged a header by versions that are in the evidence (`PairInv`).

*Trawl* has the same parts, but a chunk is only spoilt by what was read of it after it had been hashed, in the file that was
hashed: that is what makes backward reads safe, and there is no such part for forward ones.

*Readers.*  The hash of `Reader::open` is against the index.  `DriftInv` follows it as `RehashInv` follows the rehash: a chunk of the path has the indexed
version, or none, or one newer than the opening, or else the hash will find it; after the verdict the last case is gone and
no writer brings it back.  For census `SpoilInv` says that a chunk of which something else than the indexed version was read is lost at the path,
so the recheck fails.

*The diff.*  `Lost` is a capture whose path no longer has the indexed content; it stays so.  As long as a capture is not lost every read is of
the indexed content, so its texts are those of the part passed (`TextsUpTo`).  A snapshot is right so far, or lost,
or will differ in the hash; the verdict leaves only the first.  The same three cases, once more, for the capture as it was after the last row.

*The capture script.*  `StillInv`: a run that no other has resumed copies from a JVM that stands still, whose state is `frozen`.  `InstantInv`:
what it has copied so far, file by file, is what was frozen.  `OwnerInv`: two runs share a directory only if both were past the check when it was
made (`crossed`), and `OwnInv` says what the directory of any other run holds at each line of the script, which gives the checksums.

*The scan.*  `FoundInv`: the objects found are those of the words read that start below the position in hand, in order, and the counts are
theirs.  That no object is missed or found twice where two windows meet comes from the geometry (`WindowInv`, and the lemma on what a header of
three words needs of the window): every word is the first of a header in exactly one window, and the overlap of three words is enough to judge it.
What is read may change under the scan; `CleanInv` says when it matters: what has been hashed, followed by what the file still has,
is what the checksum names, or it is not and, since no edit restores a word, never will be, and the verification fails.  `OutputInv` carries this into the files: a
footer or a completed index is of a scan that passed, until another run starts, which leaves both as they are.

*Spacing.*  A tracked group is `Whole`: its counts, ends and samples are those of all hits its key ever had.  This is inductive only
with its counterpart, that a key which was hit and has no group came when there was no more room (`GroupsInv`), and with the order in which the words come
(`OrderInv`), so that a new hit lies after all others and its gap is to the last of them.  `StatsValidate` follows from the arithmetic of a whole group.
For `VotesAccounted` the votes of the groups are taken one by one, as pairs of a group and a number (`Cast`), so that their sum is the
size of a set: a hit adds one pair or none (`TallyInv`), and the groups that are periodic and those that are not part the set in two.
No induction over the groups is needed.

*Discovery.*  `EvidenceIsOfTheScan` is the argument of the reports.  What was found needs an invariant of the whole search, `Sound`: as long
as every read was of what the scan hashed (`Faithful`), the evidence in hand is exactly the matches, in the scanned
capture, of the places passed (`SampleInv`, `FollowInv`), and the proposals are exactly those of the groups and hypotheses
passed (`ProposedInv`).  The samples are those of the windows from the beginning on, and what is at them is judged by the digest.  `HandInv` carries what the early reads of a node found to the later ones.  A step that reads
anything else ends `Faithful`, and then nothing is published.  That "the first" of a sorted list is well defined needs two facts: a finite
set with a strict order has a first (`FirstOf`), and no binding is proposed twice, so that the report's order is total (`OnceInv`).

*References.*  `MapsInv`: the mappings are the heap lines passed, one for one (`Parsed`, a bijection), each inside the file (`MapsFit`), and
once opened they are in turn (`InTurn`).  That the sort loses none is `RankIsPosition`: ranks are distinct, so they are a permutation.
parse_maps only compares neighbours; that then any two are disjoint, and that it refuses none that are, follows
from the order and from none being empty.  In `Translate` the mappings that start up to the address are an initial segment, so only the last of them
can have it (`TranslateFinds`).  The colours are arithmetic: one lemma for each architecture in each direction, by
cases over the four one-hot nibbles, with the word split at bit 12 (`Divided`).

Each action has a lemma of its own.  The refinement proofs map the opening for the reads to
`Snap`, a verdict that agrees to `Publish`, a failure to `Abandon`,
the writers to `Edit`, and all else to a stutter.

Only model-checked: the liveness properties (`Terminates`, `JvmGoesOn`), which are beyond the prover.  The properties of
the runs trawl_forward and capture_two_instants are false.

## What is not modelled

PROJECT.json lists every component.  Left out on purpose: parsing and printing, regular expressions, the formats a
payload is classified in, the layout tables and `validate_layout`, Docker and CI, and `diff`, which compares the class
counts of two loaded indexes in one expression.
Also outside: a kill that no trap can catch (the JVM stays stopped, as README.md:408 says), the time between the stop of a process's leader
thread and of its other threads, the answers of the fixture's HTTP handlers (of which only layout.json reaches a bundle), and
a raw scan of a file that changes (nothing is promised of it).

## Plan

1. done: `CaptureFile`, `HashedWalk`, `KlassWalk`, `VerifyBindings`, `SnapshotReport`, with proofs.
2. done: `Trawl`, `CaptureReader`, `ReaderCommands`, `CorpusDiff`, `CaptureBundle`, with runs and proofs.
3. done: `ScanIndex`, `Spacing`, `Discovery`, `References`, with runs and proofs.
4. left: nothing that the prover reaches; the liveness properties stay with TLC.
