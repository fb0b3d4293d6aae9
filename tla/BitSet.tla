------------------------------- MODULE BitSet -------------------------------
(***************************************************************************)
(* collections/bitset.rs: a set of naturals packed into words, with a      *)
(* cached count of its bits.  A word is the set of its bits that are 1.    *)
(* The bit operators allocate by doubling, the binary operators recount,   *)
(* and the iterators are lazy: they keep a word and the index of the next. *)
(***************************************************************************)
EXTENDS Naturals, Sequences, FiniteSets, FiniteSetsExt

CONSTANTS
    W,          \* bits of a word: 64
    ByteBits,   \* bits of a byte: 8
    CountMod,   \* 2^64: release builds wrap usize
    Indexes,    \* the indices the operations are called with
    Slices,     \* the byte slices a set is read from
    Operands    \* the words of the right operands

ASSUME WAssumption == W \in Nat \ {0} /\ ByteBits \in Nat \ {0} /\ W % ByteBits = 0
ASSUME CountAssumption == CountMod \in Nat \ {0, 1}
ASSUME IndexesAssumption == Indexes \subseteq Nat
ASSUME SlicesAssumption == Slices \subseteq Seq(SUBSET (0 .. ByteBits - 1))
ASSUME OperandsAssumption == Operands \subseteq Seq(SUBSET (0 .. W - 1))

VARIABLES
    bit_blocks,     \* the words, the lowest first
    active_count,   \* the cached number of members
    miscounted      \* history: a reset counted wrongly since the last recount

vars == <<bit_blocks, active_count, miscounted>>

Capacity(blocks) == W * Len(blocks)

\* test: an index beyond the words is not a member.
Test(blocks, i) == i < Capacity(blocks) /\ (i % W) \in blocks[i \div W + 1]

Members(blocks) == {i \in 0 .. Capacity(blocks) - 1 : Test(blocks, i)}

\* The sum of count_ones over the words.
CountOnes(blocks) == Cardinality(Members(blocks)) % CountMod

TypeOK ==
    /\ bit_blocks \in Seq(SUBSET (0 .. W - 1))
    /\ active_count \in 0 .. CountMod - 1
    /\ miscounted \in BOOLEAN

-----------------------------------------------------------------------------
\* Construction

Zeros(n) == [k \in 1 .. n |-> {}]

FromBytes(bytes) ==
    LET perWord == W \div ByteBits
        word(k) == UNION {{ByteBits * j + b : b \in bytes[(k - 1) * perWord + j + 1]} :
                             j \in {j \in 0 .. perWord - 1 :
                                      (k - 1) * perWord + j < Len(bytes)}}
    IN  [k \in 1 .. (Len(bytes) + perWord - 1) \div perWord |-> word(k)]

Init ==
    /\ \/ \E n \in Indexes : bit_blocks = Zeros((n + W - 1) \div W)
       \/ bit_blocks \in Operands
       \/ \E bytes \in Slices : bit_blocks = FromBytes(bytes)
    /\ active_count = CountOnes(bit_blocks)
    /\ miscounted = FALSE

-----------------------------------------------------------------------------
\* Single bits

\* The powers of two up to n have no odd divisor but 1.
PowersOfTwo(n) == {p \in 1 .. n : \A d \in 1 .. p : p % d = 0 /\ d % 2 = 1 => d = 1}

\* ensure_block: the number of words doubles until there is a word for i.
Ensured(i) ==
    LET len == IF bit_blocks = <<>> THEN 1 ELSE Len(bit_blocks)
        doubled == {len * p : p \in PowersOfTwo(2 * (i \div W) + 1)}
        new == Min({n \in doubled : n > i \div W})
    IN  IF i < Capacity(bit_blocks)
        THEN bit_blocks
        ELSE bit_blocks \o Zeros(new - Len(bit_blocks))

More == (active_count + 1) % CountMod

\* Faulty variant: the subtraction does not wrap.
LessUnwrapped == active_count - 1

Less == (active_count + CountMod - 1) % CountMod

Set(i) ==
    LET blocks == Ensured(i)
        word == blocks[i \div W + 1]
    IN  /\ active_count' = IF (i % W) \in word THEN active_count ELSE More
        /\ bit_blocks' = [blocks EXCEPT ![i \div W + 1] = @ \cup {i % W}]
        /\ UNCHANGED miscounted

Flip(i) ==
    LET blocks == Ensured(i)
        word == blocks[i \div W + 1]
        bit == i % W
    IN  /\ active_count' = IF bit \notin word THEN More ELSE Less
        /\ bit_blocks' =
              [blocks EXCEPT ![i \div W + 1] = IF bit \in @ THEN @ \ {bit} ELSE @ \cup {bit}]
        /\ UNCHANGED miscounted

\* The mask that clears the bit also decides whether the bit was set, so the
\* count goes down when another bit of the word is 1.
WasSet(word, bit) == word \ {bit} # {}

Reset(i) ==
    /\ i < Capacity(bit_blocks)
    /\ LET word == bit_blocks[i \div W + 1]
           bit == i % W
       IN  /\ active_count' = IF WasSet(word, bit) THEN Less ELSE active_count
           /\ bit_blocks' = [bit_blocks EXCEPT ![i \div W + 1] = @ \ {bit}]
           /\ miscounted' = (miscounted \/ WasSet(word, bit) # (bit \in word))

-----------------------------------------------------------------------------
\* The whole set

\* Faulty variant: the count keeps its value.
SetAllUncounted ==
    /\ bit_blocks' = [k \in DOMAIN bit_blocks |-> 0 .. W - 1]
    /\ miscounted' = FALSE
    /\ UNCHANGED active_count

SetAll ==
    /\ bit_blocks' = [k \in DOMAIN bit_blocks |-> 0 .. W - 1]
    /\ active_count' = Capacity(bit_blocks) % CountMod
    /\ miscounted' = FALSE

ResetAll ==
    /\ bit_blocks' = [k \in DOMAIN bit_blocks |-> {}]
    /\ active_count' = 0
    /\ miscounted' = FALSE

\* flip_all and both forms of !: the count is derived from the old count.
FlipAll ==
    /\ bit_blocks' = [k \in DOMAIN bit_blocks |-> (0 .. W - 1) \ bit_blocks[k]]
    /\ active_count' = (Capacity(bit_blocks) + CountMod - active_count) % CountMod
    /\ UNCHANGED miscounted

Recounted(blocks) ==
    /\ bit_blocks' = blocks
    /\ active_count' = CountOnes(blocks)
    /\ miscounted' = FALSE

\* Faulty variant: words beyond the right operand are not truncated.
AndUntruncated(rhs) ==
    Recounted([k \in DOMAIN bit_blocks |->
                 IF k \in DOMAIN rhs THEN bit_blocks[k] \cap rhs[k] ELSE bit_blocks[k]])

And(rhs) ==
    Recounted([k \in DOMAIN bit_blocks \cap DOMAIN rhs |-> bit_blocks[k] \cap rhs[k]])

Xored(a, b) == (a \ b) \cup (b \ a)

Shorter(l, r) == IF Len(l) < Len(r) THEN l ELSE r
Longer(l, r) == IF Len(l) < Len(r) THEN r ELSE l

\* Faulty variant: the longer set is merged into the shorter one.
OrIntoShorter(rhs) ==
    LET min == Shorter(bit_blocks, rhs)
        max == Longer(bit_blocks, rhs)
    IN  Recounted([k \in DOMAIN min |-> max[k] \cup min[k]])

Or(rhs) ==
    LET min == Shorter(bit_blocks, rhs)
        max == Longer(bit_blocks, rhs)
    IN  Recounted([k \in DOMAIN max |->
                     IF k \in DOMAIN min THEN max[k] \cup min[k] ELSE max[k]])

Xor(rhs) ==
    LET min == Shorter(bit_blocks, rhs)
        max == Longer(bit_blocks, rhs)
    IN  Recounted([k \in DOMAIN max |->
                     IF k \in DOMAIN min THEN Xored(max[k], min[k]) ELSE max[k]])

Next ==
    \/ \E i \in Indexes : Set(i) \/ Flip(i) \/ Reset(i)
    \/ SetAll \/ ResetAll \/ FlipAll
    \/ \E rhs \in Operands : And(rhs) \/ Or(rhs) \/ Xor(rhs)

Spec == Init /\ [][Next]_vars

-----------------------------------------------------------------------------
\* The iterators: iter, iter_and, iter_or, iter_xor and iter_without

IterKinds == {"iter", "and", "or", "xor", "without"}

\* get(k).copied().unwrap_or(0)
WordAt(blocks, k) == IF k < Len(blocks) THEN blocks[k + 1] ELSE {}

Combined(kind, l, r, k) ==
    LET a == WordAt(l, k)
        b == WordAt(r, k)
    IN  CASE kind = "iter" -> a
          [] kind = "and" -> a \cap b
          [] kind = "or" -> a \cup b
          [] kind = "xor" -> Xored(a, b)
          [] kind = "without" -> a \ b

\* Faulty variant: the difference stops with the shorter set.
StopsShort(kind, l, r) ==
    CASE kind = "iter" -> Len(l)
      [] kind \in {"and", "without"} -> Len(Shorter(l, r))
      [] kind \in {"or", "xor"} -> Len(Longer(l, r))

\* The number of words an iterator looks at.
StopsAt(kind, l, r) ==
    CASE kind \in {"iter", "without"} -> Len(l)
      [] kind = "and" -> Len(Shorter(l, r))
      [] kind \in {"or", "xor"} -> Len(Longer(l, r))

\* iter() loads its first word at once; the others start before it.
Start(kind, l) ==
    [word |-> IF kind = "iter" THEN WordAt(l, 0) ELSE {}, idx |-> 0]

\* The loop of next(): on to the first word that is not 0.  The index of iter()
\* is that of its word, the index of the others is already one further.
Loaded(kind, l, r, it) ==
    LET ahead == IF kind = "iter" THEN 1 ELSE 0
        end == Max({StopsAt(kind, l, r), it.idx + ahead})
        found == {k \in it.idx + ahead .. end - 1 : Combined(kind, l, r, k) # {}}
    IN  IF it.word # {} THEN it
        ELSE IF found = {} THEN [word |-> {}, idx |-> end]
        ELSE [word |-> Combined(kind, l, r, Min(found)), idx |-> Min(found) + 1 - ahead]

\* One call of next() on an iterator that has yielded out so far.
NextCall(kind, l, r, s) ==
    LET it == Loaded(kind, l, r, s.it)
        bit == Min(it.word)
        base == IF kind = "iter" THEN it.idx ELSE it.idx - 1
    IN  IF it.word = {}
        THEN [s EXCEPT !.it = it]
        ELSE [it |-> [it EXCEPT !.word = @ \ {bit}], out |-> Append(s.out, W * base + bit)]

\* What an iterator has yielded after n calls.
Yielded(kind, l, r, n) ==
    LET call[k \in 0 .. n] ==
          IF k = 0
          THEN [it |-> Start(kind, l), out |-> <<>>]
          ELSE NextCall(kind, l, r, call[k - 1])
    IN  call[n].out

Chosen(kind, l, r) ==
    CASE kind = "iter" -> l
      [] kind = "and" -> l \cap r
      [] kind = "or" -> l \cup r
      [] kind = "xor" -> (l \ r) \cup (r \ l)
      [] kind = "without" -> l \ r

-----------------------------------------------------------------------------
\* Properties

\* count() is the number of members until a reset counts wrongly, and again from
\* the next operation that counts afresh.
CountExact == ~miscounted => active_count = Cardinality(Members(bit_blocks))

\* "Returns number of bits set to `1`" (the doc of count).
CountIsMembers == active_count = Cardinality(Members(bit_blocks))

\* Called until it is exhausted, and twice more, every iterator yields the
\* members of its set operation, each once, in ascending order, whatever the
\* lengths of the two sets.
IteratorsExact ==
    \A rhs \in Operands, kind \in IterKinds :
        LET wanted == Chosen(kind, Members(bit_blocks), Members(rhs))
            out == Yielded(kind, bit_blocks, rhs, Cardinality(wanted) + 2)
        IN  /\ Len(out) = Cardinality(wanted)
            /\ {out[n] : n \in DOMAIN out} = wanted
            /\ \A n \in 1 .. Len(out) - 1 : out[n] < out[n + 1]

Operand(rhs) == [members |-> Members(rhs), capacity |-> Capacity(rhs)]

Numbers == INSTANCE NatSet WITH
    Word <- W,
    Others <- {Operand(rhs) : rhs \in Operands},
    members <- Members(bit_blocks),
    capacity <- Capacity(bit_blocks)

\* Seen as the numbers it holds and its capacity, a BitSet is a set of naturals:
\* growing, truncating and padding never lose, move or invent a member.
ImplementsNatSet == Numbers!Spec

\* And each operation is the one of its name, for each index and each operand,
\* whichever of two sets is the longer.
OperationsExact ==
    [][/\ \A i \in Indexes : /\ Set(i) => Numbers!Insert(i)
                             /\ Flip(i) => Numbers!Toggle(i)
                             /\ Reset(i) => Numbers!Remove(i)
       /\ SetAll => Numbers!Fill
       /\ ResetAll => Numbers!Clear
       /\ FlipAll => Numbers!Complement
       /\ \A rhs \in Operands : /\ And(rhs) => Numbers!Intersect(Operand(rhs))
                                /\ Or(rhs) => Numbers!Unite(Operand(rhs))
                                /\ Xor(rhs) => Numbers!Differ(Operand(rhs))]_vars
=============================================================================
