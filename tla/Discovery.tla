------------------------------- MODULE Discovery -------------------------------
(***************************************************************************)
(* scan-raw --discover-bindings: the scan hashes the capture and groups    *)
(* its headers by class pointer; then discovery.rs (and discovery/nodes.rs) *)
(* opens the capture again, follows the sampled headers under every        *)
(* reference hypothesis, and proposes the class pointers that three        *)
(* distinct matches support; a rehash ties what was read to the scan.      *)
(*                                                                         *)
(* An object's header, fields and payload lie in the chunk of its place, or *)
(* go on in the next one.  The versions of these chunks decide what shape  *)
(* the bytes of the place have (`Holds').  A hash is known by the text it  *)
(* is of.  One header width is modelled: the other is searched after it in *)
(* the same way, with limits of its own.                                   *)
(***************************************************************************)
EXTENDS HashedWalk

CONSTANTS
  Klasses,        (* class pointers, in the order of their printed form     *)
  Periodic,       (* those of them whose group the scan called periodic     *)
  Texts, NoText,  (* payload texts; none: a hash that is not cached         *)
  Refs, Null,     (* raw references; the one every hypothesis takes for null *)
  NumModels,      (* how many reference hypotheses, in order of their names *)
  Target,         (* hypothesis -> raw reference -> place, or Nowhere       *)
  Holds,          (* place -> versions of its chunks -> what is there       *)
  Examples,       (* EXAMPLES: the gaps of a group that the index lists     *)
  MinGaps,        (* a group with fewer sampled gaps is not searched        *)
  Support,        (* distinct strings, arrays and payloads a proposal needs *)
  GroupsPerWidth, MaxProposals, MaxAnchors, MaxGroups, MaxNodes

Models  == 1 .. NumModels
Nowhere == 0
NoKlass == 0
Kinds   == {"string", "array", "node", "other"}
Things  == [kind : Kinds, klass : Klasses \cup {NoKlass}, text : Texts \cup {NoText},
            ref : Refs, value : Refs, next : Refs]

ASSUME DiscoveryAssumption ==
  /\ Klasses \subseteq Nat \ {NoKlass} /\ IsFiniteSet(Klasses) /\ Periodic \subseteq Klasses
  /\ NoText \notin Texts /\ Null \in Refs
  /\ NumModels \in Nat
  /\ Target \in [Models -> [Refs -> Places \cup {Nowhere}]]
  /\ \A m \in Models : Target[m][Null] = Nowhere
  /\ Holds \in [Places -> [Versions \X Versions -> Things]]
  /\ Support \in Nat \ {0}
  /\ {MinGaps, Examples, GroupsPerWidth, MaxProposals, MaxAnchors, MaxGroups, MaxNodes} \subseteq Nat

VARIABLES
  examples,       (* places that end a gap which the index lists            *)
  file,           (* the file the random reads go to                        *)
  todo,           (* groups not yet searched                                *)
  klass,          (* the group in hand                                      *)
  model,          (* the hypothesis in hand                                 *)
  left,           (* its sampled places still to follow                     *)
  hand,           (* what has been read for the sample in hand              *)
  evidence,       (* matches of the group in hand                           *)
  eligible,       (* samples that look like a String with a cached hash     *)
  proposals,      (* String and byte[] bindings proposed                    *)
  anchors,        (* those of them that nodes are still searched for        *)
  anchor,         (* the one in hand                                        *)
  nodeProposals,  (* Node bindings proposed                                 *)
  facts           (* every version read of a chunk after the scan           *)

searchVars  == <<todo, klass, model, left, hand, evidence, eligible>>
reportVars  == <<proposals, anchors, anchor, nodeProposals>>
indexVars   == <<walkVars, examples>>
readVars    == <<file, searchVars, reportVars, facts>>
captureVars == <<indexVars, recheckVars, fileVars>>
vars        == <<fileVars, pc, indexVars, recheckVars, readVars>>

Facts     == [chunk : Chunks, ver : Versions]
NoAnchor  == [string |-> NoKlass]
Proposals == [string : Klasses, array : Klasses, model : Models, matches : Nat, eligible : Nat]
Hands     == [at : Places \cup {Nowhere}, role : {"sample", "key", "value"},
              text : Texts \cup {NoText}, value : Refs, next : Refs, key : Places \cup {Nowhere},
              string : Places \cup {Nowhere}, cached : Texts \cup {NoText},
              array : Places \cup {Nowhere}, aklass : Klasses \cup {NoKlass}]
NoHand    == [at |-> Nowhere, role |-> "sample", text |-> NoText, value |-> Null, next |-> Null,
              key |-> Nowhere, string |-> Nowhere, cached |-> NoText, array |-> Nowhere,
              aklass |-> NoKlass]
PCs       == {"open", "walk", "discover", "group", "model", "sample", "array", "payload",
              "anchor", "nodeGroup", "node", "string", "nodeArray", "nodePayload", "next",
              "value", "reopen", "rehash", "complete", "failed"}

(* One type invariant of the scan, the search and its report.              *)
TypeOK ==
  /\ FileTypeOK
  /\ WalkTypeOK
  /\ pc \in PCs
  /\ examples \subseteq Places
  /\ file \in Files \cup {NoFile}
  /\ todo \subseteq Klasses /\ klass \in Klasses \cup {NoKlass}
  /\ model \in 1 .. NumModels + 1
  /\ left \subseteq Places
  /\ hand \in Hands
  /\ eligible \in 0 .. Cardinality(Places)
  /\ proposals \subseteq Proposals /\ anchors \subseteq proposals
  /\ anchor \in Proposals \cup {NoAnchor}
  /\ facts \subseteq Facts

Init ==
  /\ FileInit
  /\ WalkInit
  /\ pc = "open"
  /\ examples = {}
  /\ file = NoFile
  /\ todo = {}
  /\ klass = NoKlass
  /\ model = 1
  /\ left = {}
  /\ hand = NoHand
  /\ evidence = {}
  /\ eligible = 0
  /\ proposals = {}
  /\ anchors = {}
  /\ anchor = NoAnchor
  /\ nodeProposals = {}
  /\ facts = {}

(* -- the index of the scan ------------------------------------------------ *)

(* What is at a place in the scanned capture, the one the digest is of.    *)
Scanned(p) == Holds[p][Bytes(hash, p)]
InFile(p)  == p # Nowhere /\ Fits(p)

(* The header groups of the index, by the bytes the windows of the scan    *)
(* showed: the end of a header may have been hashed as other bytes since.  *)
Group(k)   == {p \in Places : ChunkOf[p] <= size /\ Holds[p][View(p)].klass = k}
Groups     == {k \in Klasses : Group(k) # {}}

Hits(k)          == Cardinality(Group(k))
GroupBefore(j, k) == Hits(j) > Hits(k) \/ (Hits(j) = Hits(k) /\ j < k)
Searchable       == {k \in Groups \ Periodic : Hits(k) > MinGaps}
TopGroups(n)     == {k \in Searchable : Cardinality({j \in Searchable : GroupBefore(j, k)}) < n}

(* The members of a group that discovery follows are the first, the last   *)
(* and both ends of its listed gaps: any gaps, as many as the limit lets.  *)
Follows(p, q, k) == p < q /\ \A r \in Group(k) : r <= p \/ q <= r
Ends(k)          == {q \in Group(k) : \E p \in Group(k) : p < q}
IsListed(set)    ==
  \A k \in Groups :
    LET n == Cardinality(Ends(k))
    IN  Cardinality(set \cap Ends(k)) = IF n < Examples THEN n ELSE Examples
Sample(k) ==
  {p \in Group(k) :
     \/ \A q \in Group(k) : p <= q
     \/ \A q \in Group(k) : q <= p
     \/ p \in examples
     \/ \E q \in examples \cap Group(k) : Follows(p, q, k)}
(* One that reaches past the end of the file is not read.                  *)
Sampled(k) == {p \in Sample(k) : InFile(p)}

FirstGroup       == CHOOSE k \in todo : \A j \in todo \ {k} : GroupBefore(k, j)
Lowest           == CHOOSE p \in left : \A q \in left : p <= q

(* The order of the report: more matches first, then the name of the       *)
(* hypothesis, then the order in which they were found.                    *)
Ahead(p, q) ==
  \/ p.matches > q.matches
  \/ p.matches = q.matches /\ p.model < q.model
  \/ /\ p.matches = q.matches /\ p.model = q.model
     /\ GroupBefore(p.string, q.string) \/ (p.string = q.string /\ p.array < q.array)
Best(set, n) == {p \in set : Cardinality({q \in set : Ahead(q, p)}) < n}

(* The same for nodes, where the bindings decide between equal matches.    *)
NodeAhead(p, q) ==
  LET bindings(x) == <<x.anchor.array, x.anchor.string, x.node>>
      before == \E i \in 1 .. 3 : /\ \A j \in 1 .. i - 1 : bindings(p)[j] = bindings(q)[j]
                                 /\ bindings(p)[i] < bindings(q)[i]
  IN  \/ p.matches > q.matches
      \/ p.matches = q.matches /\ before
      \/ p.matches = q.matches /\ bindings(p) = bindings(q) /\ Ahead(p.anchor, q.anchor)
BestNodes(set, n) == {p \in set : Cardinality({q \in set : NodeAhead(q, p)}) < n}

(* -- the scan, and what discovery begins with ----------------------------- *)

Scan ==
  /\ \/ WalkOpen("open", "walk") /\ UNCHANGED examples
     \/ WalkWindow("walk", "walk") /\ UNCHANGED examples
     \/ /\ WalkEnd("walk", "discover")
        /\ examples' \in {set \in SUBSET UNION {Ends(k) : k \in Groups} : IsListed(set)}
  /\ UNCHANGED readVars

(* The capture is opened again; it must have the length the scan saw.      *)
OpenFile ==
  /\ pc = "discover"
  /\ file' = path
  /\ IF SizeMatches
     THEN pc' = "group" /\ todo' = TopGroups(GroupsPerWidth)
     ELSE pc' = "failed" /\ UNCHANGED todo
  /\ UNCHANGED <<klass, model, left, hand, evidence, eligible, reportVars, facts, captureVars>>

(* What is at a place now, in the file that was opened, and that it is read. *)
Seen(p) == Holds[p][Bytes(store[file], p)]
ReadAt(p) ==
  /\ \A c \in Touched(p) : store[file][c] # Absent
  /\ facts' = facts \cup {[chunk |-> c, ver |-> store[file][c]] : c \in Touched(p)}
  /\ UNCHANGED <<file, captureVars>>

(* A step that reads nothing.                                              *)
ReadNothing == UNCHANGED <<file, facts, captureVars>>

(* -- Strings and byte arrays ---------------------------------------------- *)

NextGroup ==
  /\ pc = "group"
  /\ todo # {}
  /\ klass' = FirstGroup
  /\ todo' = todo \ {FirstGroup}
  /\ model' = 1
  /\ pc' = "model"
  /\ ReadNothing /\ UNCHANGED <<left, hand, evidence, eligible, reportVars>>

(* mutant: the evidence of one hypothesis is added to that of the last.    *)
StartModelKept ==
  /\ pc = "model"
  /\ IF model <= NumModels
     THEN pc' = "sample" /\ left' = Sampled(klass) /\ eligible' = 0
     ELSE pc' = "group" /\ UNCHANGED <<left, eligible>>
  /\ ReadNothing /\ UNCHANGED <<todo, klass, model, hand, evidence, reportVars>>

(* Each hypothesis has evidence of its own, from the same samples.         *)
StartModel ==
  /\ pc = "model"
  /\ IF model <= NumModels
     THEN pc' = "sample" /\ left' = Sampled(klass) /\ evidence' = {} /\ eligible' = 0
     ELSE pc' = "group" /\ UNCHANGED <<left, evidence, eligible>>
  /\ ReadNothing /\ UNCHANGED <<todo, klass, model, hand, reportVars>>

(* A String with a cached hash is eligible; its reference leads somewhere  *)
(* else in the file, or the sample is dropped.                             *)
ReadSample ==
  /\ pc = "sample"
  /\ left # {}
  /\ ReadAt(Lowest)
  /\ left' = left \ {Lowest}
  /\ LET s  == Seen(Lowest)
         ok == s.kind = "string" /\ s.klass = klass /\ s.text # NoText
         t  == Target[model][s.ref]
     IN  /\ eligible' = IF ok THEN eligible + 1 ELSE eligible
         /\ IF ok /\ InFile(t) /\ t # Lowest
            THEN /\ pc' = "array"
                 /\ hand' = [NoHand EXCEPT !.at = Lowest, !.text = s.text, !.array = t]
            ELSE UNCHANGED <<pc, hand>>
  /\ UNCHANGED <<todo, klass, model, evidence, reportVars>>

(* An array's class is another one, of a group that is not periodic.       *)
ReadArray ==
  /\ pc = "array"
  /\ ReadAt(hand.array)
  /\ LET a == Seen(hand.array)
     IN  IF a.kind = "array" /\ a.klass # klass /\ a.klass \in Groups \ Periodic
         THEN pc' = "payload" /\ hand' = [hand EXCEPT !.aklass = a.klass]
         ELSE pc' = "sample" /\ UNCHANGED hand
  /\ UNCHANGED <<todo, klass, model, left, evidence, eligible, reportVars>>

(* The hash of the payload is the cached one.                              *)
ReadPayload ==
  /\ pc = "payload"
  /\ ReadAt(hand.array)
  /\ evidence' =
       IF Seen(hand.array).text = hand.text
       THEN evidence \cup {[string |-> hand.at, target |-> hand.array, text |-> hand.text,
                            aklass |-> hand.aklass]}
       ELSE evidence
  /\ pc' = "sample"
  /\ UNCHANGED <<todo, klass, model, left, hand, eligible, reportVars>>

(* mutant: three Strings are enough, though they share one array.          *)
SupportedByStrings(found) == Cardinality(found) >= Support
(* Three distinct Strings, arrays and payloads.                            *)
Supported(found) ==
  /\ Cardinality({e.string : e \in found}) >= Support
  /\ Cardinality({e.target : e \in found}) >= Support
  /\ Cardinality({e.text : e \in found}) >= Support

Propose ==
  /\ pc = "sample"
  /\ left = {}
  /\ LET with(a) == {e \in evidence : e.aklass = a}
     IN  proposals' = proposals \cup
           {[string |-> klass, array |-> a, model |-> model,
             matches |-> Cardinality(with(a)), eligible |-> eligible] :
              a \in {b \in Klasses : Supported(with(b))}}
  /\ model' = model + 1
  /\ pc' = "model"
  /\ ReadNothing /\ UNCHANGED <<todo, klass, left, hand, evidence, eligible, anchors, anchor, nodeProposals>>

(* The proposals are sorted and cut off; the first are anchors for nodes.  *)
StringsDone ==
  /\ pc = "group"
  /\ todo = {}
  /\ proposals' = Best(proposals, MaxProposals)
  /\ anchors' = Best(proposals', MaxAnchors)
  /\ pc' = "anchor"
  /\ ReadNothing /\ UNCHANGED <<searchVars, anchor, nodeProposals>>

(* -- Nodes ---------------------------------------------------------------- *)

NextAnchor ==
  /\ pc = "anchor"
  /\ anchors # {}
  /\ anchor' = CHOOSE p \in anchors : \A q \in anchors \ {p} : Ahead(p, q)
  /\ anchors' = anchors \ {anchor'}
  /\ todo' = TopGroups(MaxGroups) \ {anchor'.string, anchor'.array}
  /\ pc' = "nodeGroup"
  /\ ReadNothing /\ UNCHANGED <<klass, model, left, hand, evidence, eligible, proposals, nodeProposals>>

NextNodeGroup ==
  /\ pc = "nodeGroup"
  /\ IF todo = {}
     THEN pc' = "anchor" /\ UNCHANGED <<todo, klass, left, evidence>>
     ELSE /\ klass' = FirstGroup
          /\ todo' = todo \ {FirstGroup}
          /\ left' = Sampled(FirstGroup)
          /\ evidence' = {}
          /\ pc' = "node"
  /\ ReadNothing /\ UNCHANGED <<model, hand, eligible, reportVars>>

(* Where a reference leads under the hypothesis of the anchor.             *)
Follow(raw) == Target[anchor.model][raw]

(* A sampled node: its key is decoded first.                               *)
ReadNode ==
  /\ pc = "node"
  /\ left # {}
  /\ ReadAt(Lowest)
  /\ left' = left \ {Lowest}
  /\ LET n == Seen(Lowest)
     IN  IF n.kind = "node" /\ n.klass = klass /\ InFile(Follow(n.ref))
         THEN /\ pc' = "string"
              /\ hand' = [NoHand EXCEPT !.at = Lowest, !.role = "key", !.text = n.text,
                            !.value = n.value, !.next = n.next, !.string = Follow(n.ref)]
         ELSE UNCHANGED <<pc, hand>>
  /\ UNCHANGED <<todo, klass, model, evidence, eligible, reportVars>>

(* The match is recorded, with or without a String as its value.           *)
Record(valued) ==
  evidence' = evidence \cup {[node |-> hand.at, key |-> hand.key, text |-> hand.text,
                               linked |-> hand.next # Null, valued |-> valued]}

(* decode_at gives up: a node needs its key, but not its value.            *)
DecodeFails ==
  /\ pc' = "node"
  /\ IF hand.role = "key" THEN UNCHANGED evidence ELSE Record(FALSE)
  /\ UNCHANGED hand

ReadString ==
  /\ pc = "string"
  /\ ReadAt(hand.string)
  /\ LET s == Seen(hand.string)
     IN  IF s.kind = "string" /\ s.klass = anchor.string /\ InFile(Follow(s.ref))
         THEN /\ pc' = "nodeArray"
              /\ hand' = [hand EXCEPT !.cached = s.text, !.array = Follow(s.ref)]
              /\ UNCHANGED evidence
         ELSE DecodeFails
  /\ UNCHANGED <<todo, klass, model, left, eligible, reportVars>>

ReadNodeArray ==
  /\ pc = "nodeArray"
  /\ ReadAt(hand.array)
  /\ LET a == Seen(hand.array)
     IN  IF a.kind = "array" /\ a.klass = anchor.array /\ hand.array # hand.string
         THEN pc' = "nodePayload" /\ UNCHANGED <<hand, evidence>>
         ELSE DecodeFails
  /\ UNCHANGED <<todo, klass, model, left, eligible, reportVars>>

Apart == hand.at \notin {hand.string, hand.array}

(* A key has a cached hash that matches, and the node has the spread of it. *)
KeyAccepted(text)   == text # NoText /\ hand.cached = text /\ hand.text = text /\ Apart
(* A value may have none.                                                  *)
ValueAccepted(text) == hand.cached \in {NoText, text} /\ Apart

ReadNodePayload ==
  /\ pc = "nodePayload"
  /\ ReadAt(hand.array)
  /\ LET text == Seen(hand.array).text
     IN  IF hand.role = "key"
         THEN /\ IF KeyAccepted(text)
                 THEN pc' = "next" /\ hand' = [hand EXCEPT !.key = hand.string]
                 ELSE pc' = "node" /\ UNCHANGED hand
              /\ UNCHANGED evidence
         ELSE /\ Record(ValueAccepted(text))
              /\ pc' = "node"
              /\ UNCHANGED hand
  /\ UNCHANGED <<todo, klass, model, left, eligible, reportVars>>

(* The next node is null, or has a header of the same class elsewhere; then *)
(* the value is decoded if its reference leads anywhere.                   *)
Onward ==
  IF InFile(Follow(hand.value))
  THEN /\ pc' = "string"
       /\ hand' = [hand EXCEPT !.role = "value", !.string = Follow(hand.value)]
       /\ UNCHANGED evidence
  ELSE pc' = "node" /\ Record(FALSE) /\ UNCHANGED hand

NoNext ==
  /\ pc = "next"
  /\ hand.next = Null
  /\ Onward
  /\ ReadNothing /\ UNCHANGED <<todo, klass, model, left, eligible, reportVars>>

ReadNext ==
  /\ pc = "next"
  /\ hand.next # Null
  /\ LET n == Follow(hand.next)
     IN  IF InFile(n) /\ n # hand.at
         THEN /\ ReadAt(n)
              /\ IF Seen(n).klass = klass
                 THEN Onward
                 ELSE pc' = "node" /\ UNCHANGED <<hand, evidence>>
         ELSE /\ pc' = "node"
              /\ ReadNothing /\ UNCHANGED <<hand, evidence>>
  /\ UNCHANGED <<todo, klass, model, left, eligible, reportVars>>

(* mutant: nodes that share their key count apart.                         *)
NodesEnough(found) == Cardinality(found) >= Support
(* Enough nodes, with distinct keys and payloads.                          *)
NodesSupported(found) ==
  /\ Cardinality(found) >= Support
  /\ Cardinality({e.key : e \in found}) >= Support
  /\ Cardinality({e.text : e \in found}) >= Support

ProposeNode ==
  /\ pc = "node"
  /\ left = {}
  /\ nodeProposals' =
       IF NodesSupported(evidence)
       THEN nodeProposals \cup
              {[anchor |-> anchor, node |-> klass, matches |-> Cardinality(evidence),
                values |-> Cardinality({e \in evidence : e.valued}),
                linked |-> Cardinality({e \in evidence : e.linked})]}
       ELSE nodeProposals
  /\ pc' = "nodeGroup"
  /\ ReadNothing /\ UNCHANGED <<searchVars, proposals, anchors, anchor>>

(* -- the end -------------------------------------------------------------- *)

NodesDone ==
  /\ pc = "anchor"
  /\ anchors = {}
  /\ nodeProposals' = BestNodes(nodeProposals, MaxNodes)
  /\ pc' = "reopen"
  /\ ReadNothing /\ UNCHANGED <<searchVars, proposals, anchors, anchor>>

(* hash_file on the path, compared with the digest of the scan.            *)
Rehash ==
  /\ RecheckOpen \/ RehashChunk \/ RecheckVerdict("complete")
  /\ UNCHANGED <<examples, readVars>>

Fail == Abort /\ UNCHANGED <<examples, readVars>>

Strings == NextGroup \/ StartModel \/ ReadSample \/ ReadArray \/ ReadPayload \/ Propose
Nodes   == \/ NextAnchor \/ NextNodeGroup \/ ReadNode \/ ReadString \/ ReadNodeArray
           \/ ReadNodePayload \/ NoNext \/ ReadNext \/ ProposeNode

Command == Scan \/ OpenFile \/ Strings \/ StringsDone \/ Nodes \/ NodesDone \/ Rehash \/ Fail

Writers == Edit /\ UNCHANGED <<pc, indexVars, recheckVars, readVars>>

Next == Command \/ Writers

Spec == Init /\ [][Next]_vars

(***************************************************************************)
(* Properties.                                                             *)
(***************************************************************************)

(* A report that is published was drawn from the capture the index names:  *)
(* every chunk that any of the random reads saw is as the scan hashed it   *)
(* (discovery.rs, "bind their evidence to the same immutable capture").    *)
EvidenceIsOfTheScan ==
  pc = "complete" => \A fact \in facts : hash[fact.chunk] = fact.ver

(* The sampled Strings of a group whose cached hash is that of an array of *)
(* class a in the scanned capture, by definition, under a hypothesis.      *)
Cached(k) ==
  {p \in Sampled(k) : LET s == Scanned(p)
                      IN  s.kind = "string" /\ s.klass = k /\ s.text # NoText}
Leads(p, m)       == Target[m][Scanned(p).ref]
Matching(k, a, m) ==
  {p \in Cached(k) :
     /\ InFile(Leads(p, m)) /\ Leads(p, m) # p /\ a # k
     /\ Scanned(Leads(p, m)).kind = "array" /\ Scanned(Leads(p, m)).klass = a
     /\ Scanned(Leads(p, m)).text = Scanned(p).text}
Enough(found, m) ==
  /\ Cardinality({Leads(p, m) : p \in found}) >= Support
  /\ Cardinality({Scanned(p).text : p \in found}) >= Support
Binding(k, a, m) ==
  [string |-> k, array |-> a, model |-> m,
   matches |-> Cardinality(Matching(k, a, m)), eligible |-> Cardinality(Cached(k))]
TrueProposals ==
  {Binding(b[1], b[2], b[3]) :
     b \in {c \in TopGroups(GroupsPerWidth) \X (Groups \ Periodic) \X Models :
             Enough(Matching(c[1], c[2], c[3]), c[3])}}

(* The proposals published are those that the sampled offsets support in   *)
(* the scanned capture, with the counts of the samples and none carried    *)
(* over from another hypothesis, and of these the best if there are more   *)
(* than the limit.  Of what lies at other offsets of a group nothing is    *)
(* said: "failure to find proposals proves nothing" (discovery.rs,         *)
(* discover).                                                              *)
ProposalsAreSupported ==
  pc = "complete" => proposals = Best(TrueProposals, MaxProposals)

(* The sampled places of a Node class that a reader would call a node of   *)
(* String keys under an anchor, and those of them with a String as value.  *)
StringAt(p, a) ==
  /\ InFile(p)
  /\ Scanned(p).kind = "string" /\ Scanned(p).klass = a.string
  /\ LET t == Target[a.model][Scanned(p).ref]
     IN  InFile(t) /\ Scanned(t).kind = "array" /\ Scanned(t).klass = a.array
Payload(p, a) == Scanned(Target[a.model][Scanned(p).ref]).text
KeyedNodes(k, a) ==
  {p \in Sampled(k) :
     LET n    == Scanned(p)
         key  == Target[a.model][n.ref]
         next == Target[a.model][n.next]
     IN  /\ n.kind = "node" /\ n.klass = k
         /\ StringAt(key, a) /\ n.text \in Texts
         /\ Scanned(key).text = n.text /\ Payload(key, a) = n.text
         /\ n.next = Null \/ (next # p /\ InFile(next) /\ Scanned(next).klass = k)}
Valued(p, a) ==
  LET value == Target[a.model][Scanned(p).value]
  IN  StringAt(value, a) /\ Scanned(value).text \in {Payload(value, a), NoText}

(* A Node binding published rests on a String binding that is published    *)
(* too, and on enough sampled nodes of distinct keys in the scanned        *)
(* capture; its counts are those of the samples ("No map owner, map size,  *)
(* liveness, retained size or complete population is inferred";            *)
(* discovery/nodes.rs, discover).                                          *)
NodesRestOnProposals ==
  pc = "complete" => \A p \in nodeProposals :
    LET found == KeyedNodes(p.node, p.anchor)
    IN  /\ p.anchor \in Best(proposals, MaxAnchors)
        /\ p.matches = Cardinality(found)
        /\ p.values = Cardinality({n \in found : Valued(n, p.anchor)})
        /\ p.linked = Cardinality({n \in found : Scanned(n).next # Null})
        /\ Cardinality({Target[p.anchor.model][Scanned(n).ref] : n \in found}) >= Support
================================================================================
