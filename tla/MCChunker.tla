------------------------------ MODULE MCChunker -----------------------------
EXTENDS Chunker, TLC

MCLength == 4

\* Node 1 is the root, 2 to 4 its children, 5 and 6 the children of one of
\* those.  Only where children start matters: each ends where the next starts,
\* the empty ones are tree-sitter's MISSING nodes.
MCStarts ==
  {<<>>} \cup {<<a>> : a \in {0, 1}}
         \cup {<<0, a>> : a \in 0..MCLength}
         \cup {<<0, a, b>> : a \in 0..MCLength, b \in 0..MCLength}

MCSorted(s) == \A i \in 1..(Len(s) - 1) : s[i] <= s[i + 1]

MCEnd(s, i) == IF i = Len(s) THEN MCLength ELSE s[i + 1]

\* Which child is split further, and where; 0: none.
MCInner(s) == {<<0, 0>>} \cup UNION {{<<i, m>> : m \in s[i]..MCEnd(s, i)} : i \in 1..Len(s)}

MCBytes ==
  [0..(MCLength - 1) -> {"ink", "eol"}]
  \cup {[k \in 0..(MCLength - 1) |-> IF k \in S THEN "blank" ELSE "ink"] :
          S \in {{0}, {1}, {2}, {0, 3}}}

MCTree(s, inner, bytes, bad, defines) ==
  [length  |-> MCLength,
   bytes   |-> bytes,
   nodes   |-> 1..6,
   root    |-> 1,
   kids    |-> [n \in 1..6 |-> IF n = 1 THEN [i \in 1..Len(s) |-> i + 1]
                               ELSE IF n = inner[1] + 1 THEN <<5, 6>> ELSE <<>>],
   start   |-> [n \in 1..6 |-> IF n \in 2..(Len(s) + 1) THEN s[n - 1]
                               ELSE IF n = 5 /\ inner[1] > 0 THEN s[inner[1]]
                               ELSE IF n = 6 THEN inner[2] ELSE 0],
   fin     |-> [n \in 1..6 |-> IF n = 1 THEN MCLength
                               ELSE IF n \in 2..(Len(s) + 1) THEN MCEnd(s, n - 1)
                               ELSE IF n = 5 THEN inner[2]
                               ELSE IF n = 6 /\ inner[1] > 0 THEN MCEnd(s, inner[1]) ELSE 0],
   bad     |-> [n \in 1..6 |-> n \in bad],
   defines |-> [n \in 1..6 |-> n \in defines]]

MCEmpty == [MCTree(<<>>, <<0, 0>>, <<>>, {}, {}) EXCEPT
              !.length = 0, !.bytes = [k \in {} |-> "ink"], !.start = [n \in 1..6 |-> 0],
              !.fin = [n \in 1..6 |-> 0]]

\* bad = {}: it parses; otherwise the root is among the bad ones.
MCShapes ==
  {x \in MCStarts \X ((0..3) \X (0..MCLength)) \X SUBSET (1..4) :
     /\ MCSorted(x[1])
     /\ x[2] \in MCInner(x[1])
     /\ x[3] \subseteq 1..(Len(x[1]) + 1)
     /\ x[3] = {} \/ 1 \in x[3]}

\* Three lines, whose overlapping windows are cut for their size.
MCLong ==
  [length |-> 12, bytes |-> [k \in 0..11 |-> IF k \in {4, 6} THEN "eol" ELSE "ink"],
   nodes |-> {1}, root |-> 1, kids |-> [n \in {1} |-> <<>>],
   start |-> [n \in {1} |-> 0], fin |-> [n \in {1} |-> 12],
   bad |-> [n \in {1} |-> FALSE], defines |-> [n \in {1} |-> FALSE]]

MCBlobs ==
  {MCEmpty, MCLong} \cup {MCTree(x[1], x[2], bytes, x[3], 2..3) :
                  x \in MCShapes, bytes \in MCBytes}

=============================================================================
