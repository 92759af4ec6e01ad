------------------------------- MODULE Tokenizer -------------------------------
(***************************************************************************)
(* rcpp_tokenizer_encode() of src/tokenizer.cpp: the text is cut at the    *)
(* special tokens, what is between them into chunks (the pre-tokenizer),   *)
(* and each chunk is merged, the pair of the lowest rank first.            *)
(*                                                                         *)
(* A character has one class (in the code some, like U+00A0, are letters   *)
(* and blanks both) and is one piece.  A token is the characters it stands *)
(* for: id_to_bytes and bytes_to_id are taken as inverse to each other,    *)
(* and the id that a merge makes as that of the two tokens put together.   *)
(***************************************************************************)
EXTENDS Naturals, SequencesExt, FiniteSetsExt

CONSTANTS
  Letters, Numbers, Others,   \* classes of characters
  Newlines, Tabs, Space,      \* the blanks: line ends, the other ones, and ' '
  Apostrophe,                 \* '\'', one of Others
  Contractions,               \* what follows it in "'s", "'ll", ...
  Inputs,                     \* the texts and vocabularies to look at
  Bos                         \* bos_id

Blanks == Newlines \cup Tabs \cup {Space}
Chars == Letters \cup Numbers \cup Others \cup Blanks

ASSUME ClassesAssumption ==
  /\ Letters \cap Numbers = {} /\ (Letters \cup Numbers) \cap (Others \cup Blanks) = {}
  /\ Others \cap Blanks = {}
  /\ Contractions \subseteq Seq(Chars)
\* The code skips special tokens without a character.
ASSUME InputsAssumption ==
  Inputs \subseteq [text : Seq(Chars), merges : Seq(Seq(Chars) \X Seq(Chars)),
                   special : Seq(Seq(Chars) \ {<<>>}), spm : BOOLEAN, known : SUBSET Chars]

VARIABLES
  input,    \* [text, merges, special, spm, known]: merges and special are in file order,
            \* known are the characters with a piece in the vocabulary
  tkAt,     \* "cut", "chunk", "merge", then "done" or "failed"
  from,     \* pos: the text before it is cut
  segs,     \* the segments: [special, chars]
  at,       \* the place in the first segment that is left
  ids,      \* the tokens of the current chunk
  iters,    \* iterations that are left for the current chunk
  allIds    \* all_ids

tokenizerVars == <<input, tkAt, from, segs, at, ids, iters, allIds>>

TokenizerInit ==
  /\ input \in Inputs
  /\ tkAt = IF input.text = <<>> THEN "done" ELSE "cut"
  /\ from = 1 /\ segs = <<>> /\ at = 1 /\ ids = <<>> /\ iters = 0
  /\ allIds = IF input.text = <<>> THEN <<>> ELSE <<Bos>>

(***************************************************************************)
(* Special tokens.                                                         *)
(***************************************************************************)
Normal(chars) == [special |-> FALSE, chars |-> chars]
Special(chars) == [special |-> TRUE, chars |-> chars]

StartsAt(s, p, t) == p + Len(s) - 1 <= Len(t) /\ SubSeq(t, p, p + Len(s) - 1) = s

\* The places where special token k starts, from p on.
Hits(k, p) == {q \in p .. Len(input.text) : StartsAt(input.special[k], q, input.text)}
Found(p) == {k \in DOMAIN input.special : Hits(k, p) # {}}

\* Error: the first special token of the list, wherever it is.
BestListed(p) == Min(Found(p))

\* The special token that starts first; of those that start there, the first of the list.
BestSpecial(p) ==
  CHOOSE k \in Found(p) : \A j \in Found(p) :
    \/ Min(Hits(k, p)) < Min(Hits(j, p))
    \/ Min(Hits(k, p)) = Min(Hits(j, p)) /\ k <= j

CutSpecial ==
  /\ tkAt = "cut" /\ from <= Len(input.text) /\ Found(from) # {}
  /\ LET best == BestSpecial(from)
         hit == Min(Hits(best, from))
     IN  /\ segs' = segs
                    \o (IF hit > from THEN <<Normal(SubSeq(input.text, from, hit - 1))>> ELSE <<>>)
                    \o <<Special(input.special[best])>>
         /\ from' = hit + Len(input.special[best])
  /\ UNCHANGED <<input, tkAt, at, ids, iters, allIds>>

CutRest ==
  /\ tkAt = "cut" /\ (from > Len(input.text) \/ Found(from) = {})
  /\ segs' = IF from > Len(input.text) THEN segs
             ELSE Append(segs, Normal(SubSeq(input.text, from, Len(input.text))))
  /\ from' = Len(input.text) + 1
  /\ tkAt' = "chunk"
  /\ UNCHANGED <<input, at, ids, iters, allIds>>

(***************************************************************************)
(* The pre-tokenizer: where the chunk of t that starts at p ends (one past *)
(* its last character).  Each pattern gives the end, if it matches.        *)
(***************************************************************************)
IsAt(t, p, C) == p <= Len(t) /\ t[p] \in C

\* scan_while()
RunEnd(t, p, C) ==
  CHOOSE q \in p .. Len(t) + 1 : (\A i \in p .. q - 1 : t[i] \in C) /\ ~IsAt(t, q, C)

\* Pattern 1.
ContractionEnds(t, p) ==
  {p + 1 + Len(c) : c \in {d \in Contractions : t[p] = Apostrophe /\ StartsAt(d, p + 1, t)}}

\* Pattern 2: letters, or one character that is no letter, number or line end before them.
LetterEnds(t, p) ==
  LET q == IF t[p] \in Letters THEN p ELSE p + 1
  IN  IF t[p] \notin Newlines \cup Numbers /\ IsAt(t, q, Letters) THEN {RunEnd(t, q, Letters)} ELSE {}

\* Error: numbers are not cut.
UncutNumberEnds(t, p) == IF t[p] \in Numbers THEN {RunEnd(t, p, Numbers)} ELSE {}

\* Pattern 3: at most three.
NumberEnds(t, p) == IF t[p] \in Numbers THEN {Min({p + 3, RunEnd(t, p, Numbers)})} ELSE {}

\* Pattern 4: others, perhaps with a space before and line ends behind them.
OtherEnds(t, p) ==
  LET q == IF t[p] = Space THEN p + 1 ELSE p
  IN  IF t[p] \in Others \cup {Space} /\ IsAt(t, q, Others)
      THEN {RunEnd(t, RunEnd(t, q, Others), Newlines)} ELSE {}

\* Pattern 5: all blanks, then line ends (which are blanks, so none are left).
LineEnds(t, p) ==
  LET q == RunEnd(t, p, Blanks)
  IN  IF t[p] \in Blanks /\ IsAt(t, q, Newlines) THEN {RunEnd(t, q, Newlines)} ELSE {}

\* Pattern 6: blanks at the end of the text, or before a line end.
TrailingEnds(t, p) ==
  LET q == RunEnd(t, p, Blanks)
  IN  IF t[p] \in Blanks /\ (q > Len(t) \/ IsAt(t, q, Newlines)) THEN {q} ELSE {}

\* The first pattern that matches, or one character.
Llama3End(t, p) ==
  LET tries == <<ContractionEnds(t, p), LetterEnds(t, p), NumberEnds(t, p), OtherEnds(t, p),
                 LineEnds(t, p), TrailingEnds(t, p), {p + 1}>>
  IN  Max(tries[Min({i \in DOMAIN tries : tries[i] # {}})])

\* spm_pre_tokenize(): runs of others and runs of the rest.
SpmEnd(t, p) ==
  RunEnd(t, p, IF t[p] \in Others THEN Others ELSE Letters \cup Numbers \cup Blanks)

ChunkEnd(t, p) == IF input.spm THEN SpmEnd(t, p) ELSE Llama3End(t, p)

(***************************************************************************)
(* A segment, chunk by chunk; a special one is a token.                    *)
(***************************************************************************)
NextChunk ==
  /\ tkAt = "chunk" /\ segs # <<>> /\ ~Head(segs).special
  /\ LET t == Head(segs).chars
         end == ChunkEnd(t, at)
         pieces == [i \in 1 .. end - at |-> <<t[at + i - 1]>>]
     IN  IF \A i \in DOMAIN pieces : pieces[i][1] \in input.known
         THEN /\ ids' = pieces /\ iters' = Len(pieces) /\ tkAt' = "merge"
              /\ IF end > Len(t) THEN segs' = Tail(segs) /\ at' = 1
                 ELSE at' = end /\ UNCHANGED segs
              /\ UNCHANGED allIds
         ELSE /\ tkAt' = "failed" /\ allIds' = <<>>   \* RCPP_INTERNAL, *out_count is 0
              /\ UNCHANGED <<ids, iters, segs, at>>
  /\ UNCHANGED <<input, from>>

EmitSpecial ==
  /\ tkAt = "chunk" /\ segs # <<>> /\ Head(segs).special
  /\ allIds' = Append(allIds, Head(segs).chars)
  /\ segs' = Tail(segs)
  /\ UNCHANGED <<input, tkAt, from, at, ids, iters>>

EncodeEnds ==
  /\ tkAt = "chunk" /\ segs = <<>>
  /\ tkAt' = "done"
  /\ UNCHANGED <<input, from, segs, at, ids, iters, allIds>>

(***************************************************************************)
(* bpe_chunk().                                                            *)
(***************************************************************************)
Mergeable == {i \in 1 .. Len(ids) - 1 : <<ids[i], ids[i + 1]>> \in ToSet(input.merges)}

\* Of a pair that is listed twice the first place counts (emplace() keeps it).
Rank(i) == Min({k \in DOMAIN input.merges : input.merges[k] = <<ids[i], ids[i + 1]>>})

\* Error: the first pair that can be merged.
FirstMergeable == Min(Mergeable)

\* The pair of the lowest rank; of its occurrences the first.
BestPair ==
  CHOOSE i \in Mergeable : \A j \in Mergeable : Rank(i) < Rank(j) \/ (Rank(i) = Rank(j) /\ i <= j)

\* max_iters, the number of pieces, bounds the merges.
MayMerge == Mergeable # {} /\ iters > 0

Merge ==
  /\ tkAt = "merge" /\ MayMerge
  /\ LET i == BestPair
     IN  ids' = SubSeq(ids, 1, i - 1) \o <<ids[i] \o ids[i + 1]>> \o SubSeq(ids, i + 2, Len(ids))
  /\ iters' = iters - 1
  /\ UNCHANGED <<input, tkAt, from, segs, at, allIds>>

EndChunk ==
  /\ tkAt = "merge" /\ ~MayMerge
  /\ allIds' = allIds \o ids
  /\ ids' = <<>> /\ iters' = 0 /\ tkAt' = "chunk"
  /\ UNCHANGED <<input, from, segs, at>>

TokenizerNext ==
  \/ CutSpecial \/ CutRest
  \/ NextChunk \/ EmitSpecial \/ EncodeEnds
  \/ Merge \/ EndChunk

TokenizerSpec == TokenizerInit /\ [][TokenizerNext]_tokenizerVars

(***************************************************************************)
(* Properties.                                                             *)
(***************************************************************************)
All(u, C) == \A i \in DOMAIN u : u[i] \in C

\* The alternatives of the cl100k_base expression, each for the characters u of a match
\* and what follows them:
\* (?i:'s|'t|'re|'ve|'m|'ll|'d)|[^\r\n\p{L}\p{N}]?\p{L}+|\p{N}{1,3}|
\*  ?[^\s\p{L}\p{N}]+[\r\n]*|\s*[\r\n]+|\s+(?!\S)|\s+
Alternatives(u, blankFollows) ==
  << u[1] = Apostrophe /\ Tail(u) \in Contractions,
     \E w \in {u, Tail(u)} :
       w # <<>> /\ All(w, Letters) /\ (w # u => u[1] \notin Newlines \cup Letters \cup Numbers),
     All(u, Numbers) /\ Len(u) <= 3,
     \E w \in {u, Tail(u)} : \E n \in 1 .. Len(w) :
       /\ w # u => u[1] = Space
       /\ All(SubSeq(w, 1, n), Others) /\ All(SubSeq(w, n + 1, Len(w)), Newlines),
     All(u, Blanks) /\ Last(u) \in Newlines,
     All(u, Blanks) /\ blankFollows,
     All(u, Blanks) >>

\* Where a match of alternative k that starts at p may end.
MatchEnds(t, p, k) ==
  {q \in p + 1 .. Len(t) + 1 :
     Alternatives(SubSeq(t, p, q - 1), q > Len(t) \/ IsAt(t, q, Blanks))[k]}

\* The first alternative that matches takes as much as it can.
RegexEnd(t, p) == Max(MatchEnds(t, p, Min({k \in 1 .. 7 : MatchEnds(t, p, k) # {}})))

AtChunk == tkAt = "chunk" /\ segs # <<>> /\ ~Head(segs).special /\ ~input.spm

\* "Splits input text into chunks matching the tiktoken cl100k_base regex"
\* (tokenizer.cpp:417).
ChunksMatchRegex == AtChunk => ChunkEnd(Head(segs).chars, at) = RegexEnd(Head(segs).chars, at)

\* They do wherever not two blanks stand one after another: the six patterns with their
\* fall-throughs and the fallback come to what the expression says of the rest of the text.
SingleBlanksMatchRegex ==
  AtChunk /\ ~(\A i \in at .. at + 1 : IsAt(Head(segs).chars, i, Blanks)) =>
    ChunkEnd(Head(segs).chars, at) = RegexEnd(Head(segs).chars, at)

\* Every occurrence of a pair is replaced, from left to right.
ReplacePair(tokens, pair) ==
  FoldLeft(LAMBDA done, x : IF done # <<>> /\ <<Last(done), x>> = pair
                            THEN Append(Front(done), Last(done) \o x) ELSE Append(done, x),
           <<>>, tokens)

\* A merge stands in the list before each merge that its result is a part of.
MadeBefore(merges) ==
  \A j, k \in DOMAIN merges :
    merges[j][1] \o merges[j][2] \in {merges[k][1], merges[k][2]} =>
      \E i \in 1 .. k - 1 : merges[i] = merges[j]

\* "Byte-level BPE identical to tiktoken / LLaMA-3 at the merge level" (tokenizer.cpp:7):
\* merging the lowest rank at its first place, again and again, with a bound on the number
\* of merges, ends with what the merges of the vocabulary make of the pieces one after
\* another.  It does for every list with MadeBefore; with four merges or more, two of which
\* make the same token, one before and one after a merge of it, a merge can get possible
\* after its turn.
MergesInRankOrder ==
  tkAt = "merge" /\ ~MayMerge =>
    ids = FoldLeft(ReplacePair, [i \in 1 .. Len(FlattenSeq(ids)) |-> <<FlattenSeq(ids)[i]>>],
                   input.merges)

\* The characters of the segments from the current place on.
LeftInSegments ==
  IF segs = <<>> THEN <<>>
  ELSE LET first == Head(segs).chars
       IN  FlattenSeq(<<SubSeq(first, at, Len(first))>>
                      \o [i \in 1 .. Len(segs) - 1 |-> segs[i + 1].chars])

\* Nothing of the text is lost, doubled or moved by cutting, splitting and merging: the
\* tokens so far and what is still to be encoded are the text (behind the BOS); and a
\* special token is never left inside a segment that is split.
TextIsKept ==
  input.text # <<>> /\ tkAt # "failed" =>
    /\ FlattenSeq(Tail(allIds)) \o FlattenSeq(ids) \o LeftInSegments
         \o SubSeq(input.text, from, Len(input.text)) = input.text
    /\ \A i \in DOMAIN segs : ~segs[i].special =>
         \A k \in DOMAIN input.special : \A p \in DOMAIN segs[i].chars :
           ~StartsAt(input.special[k], p, segs[i].chars)
===============================================================================
