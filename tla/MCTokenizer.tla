------------------------------ MODULE MCTokenizer ------------------------------
(***************************************************************************)
(* Short texts over one character of each class, each with its vocabulary: *)
(* no merges for the chunks, three merges over two letters for the merging *)
(* loop, and special tokens that overlap for the cutting.                  *)
(***************************************************************************)
EXTENDS Tokenizer

MCContractions == {<<"s">>, <<"l", "l">>}

TextsOver(C, n) == UNION {[1 .. k -> C] : k \in 0 .. n}

Plain == [text : TextsOver(Chars, 4), merges : {<<>>}, special : {<<>>},
          spm : {FALSE}, known : {Chars}]
         \cup [text : TextsOver(Chars, 2), merges : {<<>>}, special : {<<>>},
               spm : {TRUE}, known : {Chars, Letters}]

\* What is made of the letters by the merges before merge k.
Operands(merges, k) == {<<c>> : c \in Letters} \cup {merges[j][1] \o merges[j][2] : j \in 1 .. k - 1}

SomeLetter == CHOOSE c \in Letters : TRUE

\* Lists of three merges, some listed twice, each of operands that there are; the first one
\* starts with SomeLetter (the letters are alike for the merges).
MergeLists ==
  LET one == {<< <<<<SomeLetter>>, <<c>>>> >> : c \in Letters}
      More(lists) == UNION {{Append(l, m) : m \in Operands(l, Len(l) + 1) \X Operands(l, Len(l) + 1)}
                                  : l \in lists}
  IN  More(More(one))

Merged == [text : TextsOver(Letters, 4), merges : MergeLists, special : {<<>>},
           spm : {FALSE}, known : {Chars}]

\* One special token starts like another; the last one overlaps both.
Marks ==
  LET short == <<Apostrophe, SomeLetter>>
      long == <<Apostrophe, SomeLetter, Apostrophe>>
      other == <<SomeLetter, SomeLetter>>
  IN  {<<short, long, other>>, <<other, long, short>>}

Marked == [text : TextsOver(Letters \cup {Apostrophe}, 5), merges : {<<>>}, special : Marks,
           spm : {FALSE}, known : {Chars}]

MCInputs == Plain \cup Merged \cup Marked

\* What the theorem about the merges asks of a list holds of all of them.
ASSUME ListsAssumption == \A merges \in MergeLists : MadeBefore(merges)
===============================================================================
