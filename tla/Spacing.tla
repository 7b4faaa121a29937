-------------------------------- MODULE Spacing --------------------------------
(***************************************************************************)
(* spacing.rs: the collector that scan_with feeds every plausible class    *)
(* word, in a bounded number of groups, each with a bounded reservoir of   *)
(* the gaps between its consecutive hits; what it reports at the end, and  *)
(* what load_index asks of the statistics in an index (validate).          *)
(***************************************************************************)
EXTENDS Heap, Integers, Sequences, FiniteSets

CONSTANTS
  Klasses,      (* the class words the heap holds                           *)
  MaxGroups,    (* MAX_GROUPS                                               *)
  SampleGaps,   (* SAMPLE_GAPS                                              *)
  MinGaps,      (* MIN_GAPS                                                 *)
  MinVotes      (* the 32 votes a suggestion needs                          *)

ASSUME SpacingAssumption ==
  /\ HeapWords \in Nat
  /\ MaxGroups \in Nat
  /\ SampleGaps \in Nat \ {0}
  /\ MinGaps \in Nat
  /\ MinVotes \in Nat

VARIABLES
  hypothesis,     (* "wide" or "narrow" hypothesis in turn, or "finished"    *)
  offset,         (* the word in hand                                       *)
  groups,         (* key -> group, for the groups that are tracked          *)
  rawVotes,       (* kind -> votes                                          *)
  untrackedVotes, (* kind -> votes of hits whose group is not tracked       *)
  untrackedHits,  (* kind -> such hits                                      *)
  seen            (* history: key -> the words it was hit at                *)

collectorVars == <<groups, rawVotes, untrackedVotes, untrackedHits, seen>>
spacingVars   == <<hypothesis, offset, collectorVars>>

Kinds    == {"wide", "narrow"}
Keys     == Kinds \X Klasses
Sample   == [gap : 1 .. HeapWords, to : Words]
Group    == [hits : 0 .. HeapWords, votes : 0 .. HeapWords, first : Words, last : Words,
             samples : Seq(Sample)]

(* One type invariant; the collector is bounded by its constants.          *)
SpacingTypeOK ==
  /\ hypothesis \in Kinds \cup {"finished"}
  /\ offset \in 0 .. HeapWords
  /\ DOMAIN groups \subseteq Keys
  /\ Cardinality(DOMAIN groups) <= MaxGroups
  /\ \A k \in DOMAIN groups : groups[k] \in Group /\ Len(groups[k].samples) <= SampleGaps
  /\ rawVotes \in [Kinds -> Nat]
  /\ untrackedVotes \in [Kinds -> Nat]
  /\ untrackedHits \in [Kinds -> Nat]
  /\ seen \in [Keys -> SUBSET Words]

SpacingInit ==
  /\ hypothesis = "wide"
  /\ offset = 0
  /\ groups = [k \in {} |-> 0]
  /\ rawVotes = [kind \in Kinds |-> 0]
  /\ untrackedVotes = [kind \in Kinds |-> 0]
  /\ untrackedHits = [kind \in Kinds |-> 0]
  /\ seen = [k \in Keys |-> {}]

(* -- observe -------------------------------------------------------------- *)

Bit(vote) == IF vote THEN 1 ELSE 0

NewGroup == [hits |-> 0, votes |-> 0, first |-> 0, last |-> 0, samples |-> <<>>]

GapFrom(group) == [gap |-> offset - group.last, to |-> offset]

(* mutant: the first hit of a group is taken for a gap as well.            *)
SampledFirst(group) ==
  IF Len(group.samples) < SampleGaps THEN {Append(group.samples, GapFrom(group))}
  ELSE {group.samples}

(* The reservoirs after a hit: Algorithm R, wherever its generator lands.  *)
Sampled(group) ==
  IF group.hits = 0 THEN {group.samples}
  ELSE IF Len(group.samples) < SampleGaps THEN {Append(group.samples, GapFrom(group))}
  ELSE {IF slot <= SampleGaps THEN [group.samples EXCEPT ![slot] = GapFrom(group)]
        ELSE group.samples : slot \in 1 .. group.hits}

(* mutant: only a hit that votes is the one the next gap is taken from.    *)
HitOfVotes(group, vote) ==
  {[hits    |-> group.hits + 1,
    votes   |-> group.votes + Bit(vote),
    first   |-> IF group.hits = 0 THEN offset ELSE group.first,
    last    |-> IF group.hits = 0 \/ vote THEN offset ELSE group.last,
    samples |-> s] : s \in Sampled(group)}
Hit(group, vote) ==
  {[hits    |-> group.hits + 1,
    votes   |-> group.votes + Bit(vote),
    first   |-> IF group.hits = 0 THEN offset ELSE group.first,
    last    |-> offset,
    samples |-> s] : s \in Sampled(group)}

(* mutant: the limit is compared with, not reached.                        *)
UntrackedLate(key) == Cardinality(DOMAIN groups) > MaxGroups /\ key \notin DOMAIN groups
(* mutant: the limit is looked at before the group is looked up.           *)
UntrackedWhenFull(key) == Cardinality(DOMAIN groups) = MaxGroups
(* A hit of a group for which there is no more room.                       *)
Untracked(key) == Cardinality(DOMAIN groups) = MaxGroups /\ key \notin DOMAIN groups

(* mutant: a vote that is not tracked is not counted at all.               *)
ObserveDropping(kind, klass, vote) ==
  /\ rawVotes' = [rawVotes EXCEPT ![kind] = @ + Bit(vote)]
  /\ UNCHANGED <<untrackedVotes, untrackedHits, seen>>
  /\ IF Untracked(<<kind, klass>>) THEN UNCHANGED groups
     ELSE \E g \in Hit(IF <<kind, klass>> \in DOMAIN groups THEN groups[<<kind, klass>>]
                       ELSE NewGroup, vote) :
            groups' = [k \in DOMAIN groups \cup {<<kind, klass>>} |->
                         IF k = <<kind, klass>> THEN g ELSE groups[k]]

Observe(kind, klass, vote) ==
  LET key == <<kind, klass>>
  IN  /\ rawVotes' = [rawVotes EXCEPT ![kind] = @ + Bit(vote)]
      /\ seen' = [seen EXCEPT ![key] = @ \cup {offset}]
      /\ IF Untracked(key)
         THEN /\ untrackedVotes' = [untrackedVotes EXCEPT ![kind] = @ + Bit(vote)]
              /\ untrackedHits' = [untrackedHits EXCEPT ![kind] = @ + 1]
              /\ UNCHANGED groups
         ELSE /\ \E g \in Hit(IF key \in DOMAIN groups THEN groups[key] ELSE NewGroup, vote) :
                   groups' = [k \in DOMAIN groups \cup {key} |-> IF k = key THEN g ELSE groups[k]]
              /\ UNCHANGED <<untrackedVotes, untrackedHits>>

(* -- the words of the heap, as scan_with passes them ----------------------- *)

(* A header is a mark word and this class word: two words must be left.    *)
InHeap == offset + 2 <= HeapWords

(* The word is plausible under a hypothesis, or is not; the wide           *)
(* hypothesis is tried first, and both may hold of one word.               *)
Wide ==
  /\ hypothesis = "wide"
  /\ InHeap
  /\ \/ \E klass \in Klasses, vote \in BOOLEAN : Observe("wide", klass, vote)
     \/ UNCHANGED collectorVars
  /\ hypothesis' = "narrow"
  /\ UNCHANGED offset

Narrow ==
  /\ hypothesis = "narrow"
  /\ \/ \E klass \in Klasses, vote \in BOOLEAN : Observe("narrow", klass, vote)
     \/ UNCHANGED collectorVars
  /\ hypothesis' = "wide"
  /\ offset' = offset + 1

Finish ==
  /\ hypothesis = "wide"
  /\ ~ InHeap
  /\ hypothesis' = "finished"
  /\ UNCHANGED <<offset, collectorVars>>

SpacingNext == Wide \/ Narrow \/ Finish

SpacingSpec == SpacingInit /\ [][SpacingNext]_spacingVars

(* -- finish --------------------------------------------------------------- *)

Times(group, gap)  == Cardinality({i \in DOMAIN group.samples : group.samples[i].gap = gap})
SampledGaps(group) == {group.samples[i].gap : i \in DOMAIN group.samples}
Better(m, n)       == IF m > n THEN m ELSE n

(* The sample is periodic: more than nine in ten of its gaps are the mode. *)
Periodic(group) ==
  /\ Len(group.samples) >= MinGaps
  /\ \E gap \in SampledGaps(group) : Times(group, gap) * 10 > Len(group.samples) * 9

(* The sum of the votes of groups, as the number of them all.              *)
Tally(keys) == Cardinality(UNION {{k} \X (1 .. groups[k].votes) : k \in keys})

Retained(kind) == Tally({k \in DOMAIN groups : k[1] = kind /\ ~ Periodic(groups[k])})
Excluded(kind) == Tally({k \in DOMAIN groups : k[1] = kind /\ Periodic(groups[k])})

(* analysis.rs, detection, and what finish makes of it.                    *)
Suggestion ==
  LET wide == Retained("wide")
      narrow == Retained("narrow")
      total == wide + narrow
  IN  IF \/ \E kind \in Kinds : untrackedVotes[kind] > 0
         \/ total < MinVotes \/ 5 * Better(wide, narrow) < 4 * total \/ total = 0
      THEN "inconclusive"
      ELSE IF wide > narrow THEN "uncompressed-klass" ELSE "compressed-klass"

(* load_index: what is asked of the statistics of a group.                 *)
TotalGaps(group) == group.hits - 1
Validate(group) ==
  /\ group.hits > 0
  /\ group.hits <= HeapWords
  /\ group.votes <= group.hits
  /\ Len(group.samples) = IF TotalGaps(group) < SampleGaps THEN TotalGaps(group) ELSE SampleGaps
  /\ group.first <= group.last
  /\ group.last < HeapWords
  /\ \A i \in DOMAIN group.samples :
       LET s == group.samples[i]
       IN  s.to - s.gap >= group.first /\ s.to <= group.last /\ s.gap > 0

(***************************************************************************)
(* Properties.                                                             *)
(***************************************************************************)

(* A group is tracked from its first hit or never: whatever order the      *)
(* classes come in, no group's periodicity is decided on a part of its     *)
(* hits, those before or after the collector was full (spacing.rs,         *)
(* Collector::observe).                                                    *)
TrackedGroupsAreWhole ==
  \A k \in DOMAIN groups :
    /\ groups[k].hits = Cardinality(seen[k])
    /\ groups[k].first \in seen[k] /\ groups[k].last \in seen[k]
    /\ \A hit \in seen[k] : hit >= groups[k].first /\ hit <= groups[k].last

(* The votes of the report add up: every vote is retained, excluded as     *)
(* periodic or untracked, and a suggestion is only made when none is       *)
(* untracked, so that the group limit never decides it (spacing.rs,        *)
(* Collector::observe and finish).                                         *)
VotesAccounted ==
  hypothesis = "finished" =>
    /\ \A kind \in Kinds :
         rawVotes[kind] = Retained(kind) + Excluded(kind) + untrackedVotes[kind]
    /\ Suggestion # "inconclusive" =>
         \A kind \in Kinds : rawVotes[kind] = Retained(kind) + Excluded(kind)

(* A reservoir holds gaps between hits that follow one another, never      *)
(* between hits that were sampled, and no hit twice (spacing.rs:60).       *)
SamplesAreGaps ==
  \A k \in DOMAIN groups :
    /\ \A i \in DOMAIN groups[k].samples :
         LET s == groups[k].samples[i]
         IN  /\ s.to \in seen[k] /\ s.to - s.gap \in seen[k]
             /\ \A hit \in seen[k] : hit <= s.to - s.gap \/ hit >= s.to
    /\ \A i, j \in DOMAIN groups[k].samples :
         groups[k].samples[i].to = groups[k].samples[j].to => i = j

(* Whatever the heap and the limits, load_index accepts the statistics     *)
(* that a scan has written to an index (spacing.rs, validate).             *)
StatsValidate == \A k \in DOMAIN groups : Validate(groups[k])
================================================================================
