------------------------------- MODULE References -------------------------------
(***************************************************************************)
(* From a reference in the heap to an offset in the backing file.          *)
(* Reader::open parses maps.txt (parse_maps); Reader::reference_target      *)
(* takes the colour off a reference (gen_address) and looks the address up  *)
(* (translate).  Commands that have no mappings guess instead: discovery's *)
(* ReferenceModel takes the offset for part of the address.                *)
(*                                                                         *)
(* Words are integers of any width.                                        *)
(***************************************************************************)
EXTENDS Integers, Sequences, FiniteSets

CONSTANTS
  Lines,         (* what the lines of maps.txt may say                      *)
  MaxLines,      (* bound of the model: lines of maps.txt                   *)
  MaxMappings,   (* 65,536 in parse_maps                                    *)
  HeapBytes,     (* the length of the backing file                          *)
  OffsetSpan,    (* 2^42 in the code: non-generational offsets lie below,   *)
                 (* colour bits above                                       *)
  BitValues,     (* the powers of two that are the bits of an address       *)
  Raws           (* layout -> the words that are resolved                   *)

Layouts == {"nongen", "gen-amd64", "gen-aarch64"}

ASSUME ReferencesAssumption ==
  /\ \A l \in Lines : {l.start, l.end, l.offset} \subseteq Nat /\ l.heap \in BOOLEAN
  /\ {MaxLines, MaxMappings, HeapBytes} \subseteq Nat
  /\ OffsetSpan \in Nat \ {0}
  /\ BitValues \subseteq Nat \ {0}
  /\ \A b, c \in BitValues : b < c => 2 * b <= c
  /\ \A layout \in Layouts : Raws[layout] \subseteq Nat

VARIABLES
  stage,    (* "parse", "opened", "resolved" or "refused"                   *)
  lines,    (* the lines of maps.txt read so far                            *)
  maps,     (* the mappings parsed                                          *)
  layout,   (* the generation and architecture of the index's layout        *)
  raw,      (* the reference in hand                                        *)
  target,   (* the offset it is resolved to                                 *)
  guess     (* the offset ReferenceModel takes it for                       *)

referencesVars == <<stage, lines, maps, layout, raw, target, guess>>

None == -1

(* -- gen_address ---------------------------------------------------------- *)

Pow2(n)  == 2 ^ n
OneHot   == {1, 2, 4, 8}
Nibble(w)     == (w \div 4096) % 16
BitOf(nibble) == CHOOSE k \in 0 .. 3 : Pow2(k) = nibble

(* mutant: the fixed shift of AArch64 for both.                            *)
ShiftFixed(arch, w) ==
  IF arch = "gen-aarch64" /\ 15 - Nibble(w) \in OneHot THEN 16
  ELSE IF arch = "gen-amd64" /\ Nibble(w) \in OneHot THEN 16
  ELSE None

(* On x86 the shift follows the one-hot remap nibble; AArch64 has it       *)
(* complemented and a fixed shift.                                         *)
Shift(arch, w) ==
  IF arch = "gen-aarch64" /\ 15 - Nibble(w) \in OneHot THEN 16
  ELSE IF arch = "gen-amd64" /\ Nibble(w) \in OneHot THEN 13 + BitOf(Nibble(w))
  ELSE None

Aligned(address) == IF address % 8 = 0 THEN address ELSE None

GenAddress(arch, w) ==
  IF w \div Pow2(16) = 0 THEN 0
  ELSE IF w % 16 # 0 \/ Shift(arch, w) = None THEN None
  ELSE Aligned(w \div Pow2(Shift(arch, w)))

(* -- translate ------------------------------------------------------------ *)

(* mutant: the last mapping that starts below the address.                 *)
StartsBelow(ms, address) == Cardinality({i \in DOMAIN ms : ms[i].start < address})
(* partition_point over the sorted mappings.                               *)
StartsUpTo(ms, address) == Cardinality({i \in DOMAIN ms : ms[i].start <= address})

Translate(ms, address) ==
  LET i == StartsUpTo(ms, address)
  IN  IF i = 0 THEN None
      ELSE IF address >= ms[i].end THEN None
      ELSE ms[i].offset + address - ms[i].start

(* reference_target, of an index without --identity-mapping.               *)
Address(w) == IF layout = "nongen" THEN w ELSE GenAddress(layout, w)
ReferenceTarget(w) == IF Address(w) = None THEN None ELSE Translate(maps, Address(w))

(* -- ReferenceModel::target ------------------------------------------------ *)

(* mutant: the bit of the heap base is left in.                            *)
HeapRelativeNot(address) == address
(* The highest bit of an address is that of the heap base.                 *)
TopBit(address) == CHOOSE b \in BitValues : b <= address /\ address < 2 * b
HeapRelative(address) == address - TopBit(address)

Views(w) == {k \in 0 .. 2 : (w \div (OffsetSpan * Pow2(k))) % 2 = 1}

Hypothesis(w) ==
  IF layout = "nongen"
  THEN IF w \div (OffsetSpan * 16) # 0 \/ Cardinality(Views(w)) # 1 THEN None
       ELSE w % OffsetSpan
  ELSE IF GenAddress(layout, w) \in {None, 0} THEN None
       ELSE HeapRelative(GenAddress(layout, w))

(* ------------------------------------------------------------------------- *)

ReferencesInit ==
  /\ stage = "parse"
  /\ lines = <<>>
  /\ maps = <<>>
  /\ layout \in Layouts
  /\ raw = 0
  /\ target = None
  /\ guess = None

Mapping(l) == [start |-> l.start, end |-> l.end, offset |-> l.offset]

OutsideHeap(l) == l.end <= l.start \/ l.offset + (l.end - l.start) > HeapBytes

(* One line: not a readable mapping of the heap's memfd, a mapping that    *)
(* lies outside the file, one too many, or one more.                       *)
ParseLine ==
  /\ stage = "parse"
  /\ Len(lines) < MaxLines
  /\ \E l \in Lines :
       /\ lines' = Append(lines, l)
       /\ \/ ~ l.heap /\ UNCHANGED <<stage, maps>>
          \/ l.heap /\ OutsideHeap(l) /\ stage' = "refused" /\ UNCHANGED maps
          \/ /\ l.heap /\ ~ OutsideHeap(l)
             /\ maps' = Append(maps, Mapping(l))
             /\ stage' = IF Len(maps') > MaxMappings THEN "refused" ELSE stage
  /\ UNCHANGED <<layout, raw, target, guess>>

(* mutant: the lines are taken to be in order.                             *)
InOrder(ms) == ms
(* A mapping goes behind those that start before it, and behind those that *)
(* start where it does and came first: the sort is stable.                 *)
Rank(ms, i) == Cardinality({j \in DOMAIN ms : \/ ms[j].start < ms[i].start
                                              \/ ms[j].start = ms[i].start /\ j <= i})
Sorted(ms)  == [n \in DOMAIN ms |-> ms[CHOOSE i \in DOMAIN ms : Rank(ms, i) = n]]

(* The end of the text: no mappings, overlapping mappings, or sorted ones. *)
EndOfMaps ==
  /\ stage = "parse"
  /\ maps' = Sorted(maps)
  /\ stage' = IF \/ maps = <<>>
                 \/ \E i \in 1 .. Len(maps) - 1 : maps'[i].end > maps'[i + 1].start
              THEN "refused" ELSE "opened"
  /\ UNCHANGED <<lines, layout, raw, target, guess>>

(* A reference is resolved, and guessed at.  The text of the maps is gone.  *)
Resolve ==
  /\ stage = "opened"
  /\ \E w \in Raws[layout] :
       /\ raw' = w
       /\ target' = ReferenceTarget(w)
       /\ guess' = Hypothesis(w)
  /\ lines' = <<>>
  /\ stage' = "resolved"
  /\ UNCHANGED <<maps, layout>>

ReferencesNext == ParseLine \/ EndOfMaps \/ Resolve

ReferencesSpec == ReferencesInit /\ [][ReferencesNext]_referencesVars

(***************************************************************************)
(* Properties.                                                             *)
(***************************************************************************)

(* What the JVM means by a word: JDK 21 colours an address by shifting it   *)
(* up until its three zero bits lie on the remap bits above the one that   *)
(* is set (x86) or past all of them (AArch64); the low four bits are       *)
(* zero, the marks between are arbitrary.                                  *)
IsColoured(arch, address, w) ==
  /\ address % 8 = 0 /\ address > 0
  /\ w % 16 = 0
  /\ IF arch = "gen-aarch64"
     THEN \E k \in 0 .. 3 : w \div 4096 = address * 16 + 15 - Pow2(k)
     ELSE \E k \in 0 .. 3 : w \div 4096 = address * Pow2(k + 1) + Pow2(k)

(* The address the code takes from a reference is the one the JVM coloured: *)
(* no other word yields an address, and none that is coloured is refused    *)
(* or taken for null (lib.rs, gen_address; the boundary cases are an        *)
(* address of 8 and a remap bit next to the address).  A word can only be   *)
(* the colouring of one of its own shifts.                                 *)
DecodesTheColouring ==
  stage = "resolved" /\ layout # "nongen" =>
    LET found == Address(raw)
    IN  /\ found \notin {None, 0} => IsColoured(layout, found, raw)
        /\ \A k \in 12 .. 17 :
             IsColoured(layout, raw \div Pow2(k), raw) => found = raw \div Pow2(k)

(* parse_maps accepts the readable heap mappings if, and only if, they lie *)
(* in the file, are disjoint and are not too many; and whatever the order  *)
(* of the lines it has each of them once (lib.rs, parse_maps).             *)
HeapLines == {i \in DOMAIN lines : lines[i].heap}
Disjoint  == \A i, j \in HeapLines :
               i # j => lines[i].end <= lines[j].start \/ lines[j].end <= lines[i].start
MapsAreTheReadableLines ==
  /\ stage = "opened" => /\ Disjoint
                         /\ Len(maps) = Cardinality(HeapLines)
                         /\ {Mapping(lines[i]) : i \in HeapLines} = {maps[i] : i \in DOMAIN maps}
  /\ stage = "refused" => \/ HeapLines = {}
                          \/ Cardinality(HeapLines) > MaxMappings
                          \/ \E i \in HeapLines : OutsideHeap(lines[i])
                          \/ ~ Disjoint

(* A reference resolves to the offset at which its address is mapped, in    *)
(* the file, and to nothing if no mapping has the address; the ends of     *)
(* neighbouring mappings are not mixed up (lib.rs, translate).             *)
TargetIsWhereItIsMapped ==
  stage = "resolved" =>
    LET Has(m) == Address(raw) \in m.start .. m.end - 1
    IN  /\ \A i \in DOMAIN maps :
             Has(maps[i]) => target = maps[i].offset + (Address(raw) - maps[i].start)
        /\ target # None => /\ target \in 0 .. HeapBytes - 1
                            /\ \E i \in DOMAIN maps : Has(maps[i])

(* Where the mappings are as a reference hypothesis has it, the commands   *)
(* that guess and the commands that look the address up agree on every     *)
(* reference that resolves (discovery.rs, ReferenceModel; its names say    *)
(* "equals-file-offset").                                                  *)
HypothesisHolds ==
  IF layout = "nongen"
  THEN \A i \in DOMAIN maps : \E k \in 0 .. 2 :
         LET base == OffsetSpan * Pow2(k)
         IN  /\ base <= maps[i].start /\ maps[i].end <= base + OffsetSpan
             /\ maps[i].offset = maps[i].start - base
  ELSE \E b \in BitValues : \A i \in DOMAIN maps :
         /\ b <= maps[i].start /\ maps[i].end <= 2 * b
         /\ maps[i].offset = maps[i].start - b
GuessesWhatIsMapped ==
  stage = "resolved" /\ HypothesisHolds /\ target # None => guess = target
================================================================================
