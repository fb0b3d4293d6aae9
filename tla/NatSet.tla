------------------------------- MODULE NatSet -------------------------------
(***************************************************************************)
(* What a bit set promises: it is a finite set of naturals below a         *)
(* capacity that grows when it must, by whole words.  BitSet implements    *)
(* this specification.                                                     *)
(***************************************************************************)
EXTENDS Naturals, Sequences

CONSTANTS
    Word,       \* the capacity grows by multiples of a word
    ByteBits,   \* the bits of a byte
    Indexes,    \* the numbers the set is asked about
    Slices,     \* byte slices a set is read from: sequences of sets of bits
    Others      \* the operands: records of members and capacity

VARIABLES members, capacity

vars == <<members, capacity>>

\* The numbers a byte slice stands for: bit b of byte k is k * ByteBits + b.
BitsOf(bytes) ==
    UNION {{(k - 1) * ByteBits + b : b \in bytes[k]} : k \in DOMAIN bytes}

\* The least whole number of words that holds n bits.
Words(n) == Word * ((n + Word - 1) \div Word)

Larger(m, n) == IF m < n THEN n ELSE m
Smaller(m, n) == IF m < n THEN m ELSE n

Init ==
    \/ \E n \in Indexes : members = {} /\ capacity = Words(n)
    \/ \E o \in Others : members = o.members /\ capacity = o.capacity
    \/ \E bytes \in Slices :
        /\ members = BitsOf(bytes)
        /\ capacity = Words(ByteBits * Len(bytes))

\* Only an index at or above the capacity makes the set grow, to hold the index
\* and to at most one word or twice the index.
Room(i) ==
    IF i < capacity
    THEN capacity' = capacity
    ELSE /\ capacity' \in (i + 1) .. Larger(Word, 2 * i)
         /\ capacity' % Word = 0

Insert(i) == members' = members \cup {i} /\ Room(i)

Toggle(i) ==
    /\ members' = IF i \in members THEN members \ {i} ELSE members \cup {i}
    /\ Room(i)

Remove(i) == members' = members \ {i} /\ UNCHANGED capacity
Fill == members' = 0 .. capacity - 1 /\ UNCHANGED capacity
Clear == members' = {} /\ UNCHANGED capacity
Complement == members' = (0 .. capacity - 1) \ members /\ UNCHANGED capacity

Intersect(o) ==
    /\ members' = members \cap o.members
    /\ capacity' = Smaller(capacity, o.capacity)

Unite(o) ==
    /\ members' = members \cup o.members
    /\ capacity' = Larger(capacity, o.capacity)

Differ(o) ==
    /\ members' = (members \ o.members) \cup (o.members \ members)
    /\ capacity' = Larger(capacity, o.capacity)

Next ==
    \/ \E i \in Indexes : Insert(i) \/ Remove(i) \/ Toggle(i)
    \/ Fill \/ Clear \/ Complement
    \/ \E o \in Others : Intersect(o) \/ Unite(o) \/ Differ(o)

Spec == Init /\ [][Next]_vars
=============================================================================
