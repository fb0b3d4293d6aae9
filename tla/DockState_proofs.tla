--------------------------- MODULE DockState_proofs ---------------------------
(* Proofs about DockState, for any classes, windows, files and bounds. *)
EXTENDS DockState, SequenceFacts, TLAPS

-----------------------------------------------------------------------------
(* The lists and the map agree.  Occupied is kept apart, because RemoveApp   *)
(* passes through a dock with an empty free bucket before it removes it.     *)

WellFormed(d) == d \in Dock /\ Distinct(d) /\ Indexed(d) /\ Found(d)

\* What Occupied asks of one bucket in list l
Kept(l, b) ==
    /\ b.isRunning <=> b.wins # {}
    /\ l = "free" => b.wins # {}
    /\ b.active \subseteq b.wins

LEMMA ListTyped ==
    ASSUME NEW d \in Dock, NEW l \in Lists
    PROVE  /\ d.list[l] \in Seq(Bucket)
           /\ Len(d.list[l]) \in Nat
           /\ DOMAIN d.list[l] = 1 .. Len(d.list[l])
           /\ \A i \in DOMAIN d.list[l] : d.list[l][i] \in Bucket
<1>1. d.list[l] \in Seq(Bucket)
  BY DEF Dock
<1> QED BY <1>1, LenProperties, ElementOfSeq

\* In a well-formed dock the bucket found for a class is its only bucket.
LEMMA IndexUnique ==
    ASSUME NEW d, WellFormed(d), NEW l \in Lists, NEW i \in DOMAIN d.list[l],
           NEW c, d.list[l][i].class = c
    PROVE  /\ c \in Classes /\ d.map[c] = l
           /\ Located(d, c) /\ Index(d, c) = i /\ FindBucket(d, c) = d.list[l][i]
<1>1. /\ c \in Classes
      /\ Len(d.list[l]) \in Nat /\ i \in 1 .. Len(d.list[l])
      /\ DOMAIN d.list[l] = 1 .. Len(d.list[l])
  BY ListTyped DEF WellFormed, Bucket
<1>2. d.map[c] = l
  BY DEF WellFormed, Indexed
<1>3. Located(d, c)
  BY <1>2 DEF Located, HasClass, ListOf, Lists
<1>4. \A j \in DOMAIN d.list[l] : d.list[l][j].class = c => j = i
  BY DEF WellFormed, Distinct
<1>5. Index(d, c) = i
  <2>1. \A j \in 1 .. (i - 1) : d.list[l][j].class # c
    <3>1. \A j \in 1 .. (i - 1) : j \in DOMAIN d.list[l] /\ j # i
      BY <1>1
    <3> QED BY <1>4, <3>1
  <2>2. \A j \in DOMAIN d.list[l] :
           (/\ d.list[l][j].class = c
            /\ \A k \in 1 .. (j - 1) : d.list[l][k].class # c) <=> j = i
    BY <1>1, <1>4, <2>1
  <2>3. FirstOf(d.list[l], c) = i
    BY <2>2 DEF FirstOf
  <2> QED BY <1>2, <2>3 DEF Index, ListOf
<1> QED BY <1>1, <1>2, <1>3, <1>5 DEF FindBucket, ListOf

\* find_bucket returns the bucket of the class.
LEMMA FindsBucket ==
    ASSUME NEW d, WellFormed(d), NEW c \in Classes, d.map[c] # "none"
    PROVE  /\ Located(d, c)
           /\ d.map[c] \in Lists
           /\ Index(d, c) \in DOMAIN d.list[d.map[c]]
           /\ FindBucket(d, c) = d.list[d.map[c]][Index(d, c)]
           /\ FindBucket(d, c) \in Bucket
           /\ FindBucket(d, c).class = c
<1>1. d.map[c] \in Lists
  BY DEF WellFormed, Dock
<1>2. PICK i \in DOMAIN d.list[d.map[c]] : d.list[d.map[c]][i].class = c
  BY DEF WellFormed, Found, HasClass, ListOf
<1> QED BY <1>1, <1>2, IndexUnique, ListTyped DEF WellFormed

LEMMA LocatedIffMapped ==
    ASSUME NEW d, WellFormed(d), NEW c \in Classes
    PROVE  Located(d, c) <=> d.map[c] # "none"
BY FindsBucket DEF Located

\* Occupied, read class by class
LEMMA OccupiedByClass ==
    ASSUME NEW d, WellFormed(d)
    PROVE  Occupied(d) <=>
              \A c \in Classes : d.map[c] # "none" => Kept(d.map[c], FindBucket(d, c))
<1>1. ASSUME Occupied(d), NEW c \in Classes, d.map[c] # "none"
      PROVE  Kept(d.map[c], FindBucket(d, c))
  BY <1>1, FindsBucket DEF Occupied, Kept
<1>2. ASSUME \A c \in Classes : d.map[c] # "none" => Kept(d.map[c], FindBucket(d, c)),
             NEW l \in Lists, NEW i \in DOMAIN d.list[l]
      PROVE  Kept(l, d.list[l][i])
  <2> DEFINE c == d.list[l][i].class
  <2>1. c \in Classes /\ d.map[c] = l /\ FindBucket(d, c) = d.list[l][i]
    BY IndexUnique
  <2>2. l # "none"
    BY DEF Lists
  <2> QED BY <1>2, <2>1, <2>2
<1>3. "free" \in Lists
  BY DEF Lists
<1> QED BY <1>1, <1>2, <1>3 DEF Occupied, Kept

-----------------------------------------------------------------------------
(* What the three primitive changes do to the map and to each bucket.        *)

\* A class that has a bucket in d has the same one in e.
SameClass(d, e, x) == d.map[x] # "none" => FindBucket(e, x) = FindBucket(d, x)

\* The buckets of d but that of c keep their order in e.
SameOrder(d, e, c) ==
    \A x, y \in Classes \ {c} :
        d.map[x] # "none" /\ d.map[y] = d.map[x] =>
            (Index(e, x) < Index(e, y) <=> Index(d, x) < Index(d, y))

LEMMA SetBucketLemma ==
    ASSUME NEW d, WellFormed(d), NEW c \in Classes, d.map[c] # "none",
           NEW b \in Bucket, b.class = c
    PROVE  /\ WellFormed(SetBucket(d, c, b))
           /\ SetBucket(d, c, b).map = d.map
           /\ SetBucket(d, c, b).focus = d.focus
           /\ FindBucket(SetBucket(d, c, b), c) = b
           /\ \A x \in Classes \ {c} : SameClass(d, SetBucket(d, c, b), x)
<1> DEFINE l == d.map[c]
           k == Index(d, c)
           s == d.list[l]
           t == [s EXCEPT ![k] = b]
           e == SetBucket(d, c, b)
<1>1. l \in Lists /\ k \in DOMAIN s /\ s[k].class = c
  BY FindsBucket
<1>2. s \in Seq(Bucket) /\ Len(s) \in Nat /\ DOMAIN s = 1 .. Len(s)
  BY <1>1, ListTyped DEF WellFormed
<1>3. /\ t \in Seq(Bucket) /\ DOMAIN t = DOMAIN s
      /\ \A i \in DOMAIN t : t[i] = IF i = k THEN b ELSE s[i]
  <2>1. t \in Seq(Bucket) /\ Len(t) = Len(s)
    BY <1>1, <1>2, ExceptSeq
  <2> QED BY <1>2, <2>1
<1>4. /\ e = [d EXCEPT !.list = [d.list EXCEPT ![l] = t]]
      /\ e.map = d.map /\ e.focus = d.focus
      /\ e.list = [d.list EXCEPT ![l] = t]
      /\ e \in Dock
  BY <1>1, <1>3 DEF SetBucket, WellFormed, Dock
<1>5. \A m \in Lists : e.list[m] = IF m = l THEN t ELSE d.list[m]
  BY <1>1, <1>4 DEF WellFormed, Dock
<1> HIDE DEF e, t
<1>6. \A m \in Lists : /\ DOMAIN e.list[m] = DOMAIN d.list[m]
                       /\ \A i \in DOMAIN d.list[m] :
                             e.list[m][i].class = d.list[m][i].class
  BY <1>1, <1>3, <1>5
<1>7. WellFormed(e)
  <2>1. Distinct(e)
    BY <1>6 DEF Distinct, WellFormed
  <2>2. Indexed(e)
    BY <1>4, <1>6 DEF Indexed, WellFormed
  <2>3. Found(e)
    <3>1. SUFFICES ASSUME NEW x \in Classes, d.map[x] # "none"
                   PROVE  \E i \in DOMAIN e.list[d.map[x]] : e.list[d.map[x]][i].class = x
      BY <1>4 DEF Found, HasClass, ListOf
    <3>2. d.map[x] \in Lists /\ Index(d, x) \in DOMAIN d.list[d.map[x]]
          /\ d.list[d.map[x]][Index(d, x)].class = x
      BY <3>1, FindsBucket
    <3> QED BY <1>6, <3>2
  <2> QED BY <1>4, <2>1, <2>2, <2>3 DEF WellFormed
<1>8. FindBucket(e, c) = b
  BY <1>1, <1>3, <1>5, <1>7, IndexUnique
<1>9. ASSUME NEW x \in Classes \ {c}, d.map[x] # "none"
      PROVE  FindBucket(e, x) = FindBucket(d, x)
  <2> DEFINE m == d.map[x]
             j == Index(d, x)
  <2>1. m \in Lists /\ j \in DOMAIN d.list[m] /\ d.list[m][j].class = x
        /\ FindBucket(d, x) = d.list[m][j]
    BY <1>9, FindsBucket
  <2>2. j \in DOMAIN e.list[m] /\ e.list[m][j] = d.list[m][j]
    BY <1>1, <1>3, <1>5, <1>6, <2>1
  <2> QED BY <1>7, <2>1, <2>2, IndexUnique
<1> QED BY <1>4, <1>7, <1>8, <1>9 DEF e, SameClass

LEMMA RemoveBucketLemma ==
    ASSUME NEW d, WellFormed(d), NEW c \in Classes, d.map[c] # "none"
    PROVE  /\ WellFormed(RemoveBucket(d, c))
           /\ RemoveBucket(d, c).map = [d.map EXCEPT ![c] = "none"]
           /\ RemoveBucket(d, c).focus = IF FindBucket(d, c).isFocused THEN NoClass ELSE d.focus
           /\ \A x \in Classes \ {c} : SameClass(d, RemoveBucket(d, c), x)
           /\ SameOrder(d, RemoveBucket(d, c), c)
           /\ \A m \in Lists : Len(RemoveBucket(d, c).list[m]) =
                  IF m = d.map[c] THEN Len(d.list[m]) - 1 ELSE Len(d.list[m])
<1> DEFINE l == d.map[c]
           k == Index(d, c)
           s == d.list[l]
           t == RemoveAt(s, k)
           f == IF FindBucket(d, c).isFocused THEN NoClass ELSE d.focus
           e == RemoveBucket(d, c)
           old(i) == IF i < k THEN i ELSE i + 1
<1>1. Located(d, c) /\ l \in Lists /\ k \in DOMAIN s /\ s[k].class = c
  BY FindsBucket
<1>2. s \in Seq(Bucket) /\ Len(s) \in Nat /\ DOMAIN s = 1 .. Len(s)
  BY <1>1, ListTyped DEF WellFormed
<1>3. /\ t \in Seq(Bucket) /\ Len(t) = Len(s) - 1
      /\ \A i \in 1 .. (Len(s) - 1) : t[i] = IF i < k THEN s[i] ELSE s[i + 1]
  BY <1>1, <1>2, RemoveAtProperties
<1>4. /\ DOMAIN t = 1 .. (Len(s) - 1)
      /\ \A i \in DOMAIN t : old(i) \in DOMAIN s /\ old(i) # k /\ t[i] = s[old(i)]
      /\ \A i, j \in DOMAIN t : old(i) = old(j) => i = j
      /\ \A i, j \in DOMAIN t : i < j <=> old(i) < old(j)
      /\ \A j \in DOMAIN s : j # k => \E i \in DOMAIN t : old(i) = j
  <2>1. DOMAIN t = 1 .. (Len(s) - 1)
    BY <1>2, <1>3, LenProperties
  <2>2. \A i \in DOMAIN t : old(i) \in DOMAIN s /\ old(i) # k /\ t[i] = s[old(i)]
    <3> SUFFICES ASSUME NEW i \in DOMAIN t
                 PROVE  old(i) \in DOMAIN s /\ old(i) # k /\ t[i] = s[old(i)]
      OBVIOUS
    <3>1. i \in 1 .. (Len(s) - 1) /\ k \in 1 .. Len(s)
      BY <1>1, <1>2, <2>1
    <3>2. old(i) \in 1 .. Len(s) /\ old(i) # k
      BY <1>2, <3>1
    <3>3. t[i] = s[old(i)]
      BY <1>3, <3>1
    <3> QED BY <1>2, <3>2, <3>3
  <2>3. \A i, j \in DOMAIN t : old(i) = old(j) => i = j
    BY <1>1, <1>2, <2>1
  <2>4. ASSUME NEW j \in DOMAIN s, j # k
        PROVE  \E i \in DOMAIN t : old(i) = j
    <3>1. CASE j < k
      BY <3>1, <1>1, <1>2, <2>1
    <3>2. CASE ~(j < k)
      <4>1. j - 1 \in DOMAIN t /\ old(j - 1) = j
        BY <2>4, <3>2, <1>1, <1>2, <2>1
      <4> QED BY <4>1
    <3> QED BY <3>1, <3>2
  <2>5. \A i, j \in DOMAIN t : i < j <=> old(i) < old(j)
    BY <1>1, <1>2, <2>1
  <2> QED BY <2>1, <2>2, <2>3, <2>4, <2>5
<1>5. e = [d EXCEPT !.focus = f, !.list = [d.list EXCEPT ![l] = t],
                    !.map = [d.map EXCEPT ![c] = "none"]]
  BY <1>1 DEF RemoveBucket
<1>6. /\ e.map = [d.map EXCEPT ![c] = "none"] /\ e.focus = f
      /\ e.list = [d.list EXCEPT ![l] = t]
      /\ e \in Dock
  <2>1. f \in Classes \cup {NoClass}
    BY DEF WellFormed, Dock
  <2>2. /\ [d.list EXCEPT ![l] = t] \in [Lists -> Seq(Bucket)]
        /\ [d.map EXCEPT ![c] = "none"] \in [Classes -> Lists \cup {"none"}]
    BY <1>1, <1>3 DEF WellFormed, Dock
  <2> HIDE DEF f, t
  <2>3. /\ e.map = [d.map EXCEPT ![c] = "none"] /\ e.focus = f
        /\ e.list = [d.list EXCEPT ![l] = t]
        /\ e = [list |-> e.list, map |-> e.map, focus |-> e.focus]
    BY <1>5 DEF WellFormed, Dock
  <2> QED BY <2>1, <2>2, <2>3 DEF Dock
<1>7. /\ \A m \in Lists : e.list[m] = IF m = l THEN t ELSE d.list[m]
      /\ \A x \in Classes : e.map[x] = IF x = c THEN "none" ELSE d.map[x]
  BY <1>1, <1>6 DEF WellFormed, Dock
<1> HIDE DEF e, t, old, f
\* Every bucket left stood in the same list before, and is not the one of c.
<1>8. ASSUME NEW m \in Lists, NEW i \in DOMAIN e.list[m]
      PROVE  /\ (IF m = l THEN old(i) ELSE i) \in DOMAIN d.list[m]
             /\ e.list[m][i] = d.list[m][IF m = l THEN old(i) ELSE i]
             /\ e.list[m][i].class # c
             /\ e.list[m][i].class \in Classes
  <2>1. /\ (IF m = l THEN old(i) ELSE i) \in DOMAIN d.list[m]
        /\ e.list[m][i] = d.list[m][IF m = l THEN old(i) ELSE i]
    BY <1>4, <1>7
  <2>2. e.list[m][i].class # c
    <3>1. CASE m = l
      BY <3>1, <2>1, <1>1, <1>4, <1>7 DEF WellFormed, Distinct
    <3>2. CASE m # l
      BY <3>2, <2>1, IndexUnique
    <3> QED BY <3>1, <3>2
  <2> QED BY <2>1, <2>2, IndexUnique
<1>9. WellFormed(e)
  <2>1. Distinct(e)
    <3>1. SUFFICES ASSUME NEW m \in Lists, NEW i \in DOMAIN e.list[m],
                          NEW j \in DOMAIN e.list[m],
                          e.list[m][i].class = e.list[m][j].class
                   PROVE  i = j
      BY DEF Distinct
    <3>2. (IF m = l THEN old(i) ELSE i) = (IF m = l THEN old(j) ELSE j)
      BY <1>8, <3>1 DEF WellFormed, Distinct
    <3> QED BY <1>4, <1>7, <3>2
  <2>2. Indexed(e)
    BY <1>7, <1>8 DEF Indexed, WellFormed
  <2>3. Found(e)
    <3>1. SUFFICES ASSUME NEW x \in Classes, e.map[x] # "none"
                   PROVE  \E i \in DOMAIN e.list[e.map[x]] : e.list[e.map[x]][i].class = x
      BY DEF Found, HasClass, ListOf
    <3>2. x # c /\ e.map[x] = d.map[x] /\ d.map[x] # "none"
      BY <1>7, <3>1
    <3>3. d.map[x] \in Lists /\ Index(d, x) \in DOMAIN d.list[d.map[x]]
          /\ d.list[d.map[x]][Index(d, x)].class = x
      BY <3>2, FindsBucket
    <3> QED BY <1>1, <1>4, <1>7, <3>2, <3>3
  <2> QED BY <1>6, <2>1, <2>2, <2>3 DEF WellFormed
<1>10. ASSUME NEW x \in Classes \ {c}, d.map[x] # "none"
       PROVE  FindBucket(e, x) = FindBucket(d, x)
  <2> DEFINE m == d.map[x]
             j == Index(d, x)
  <2>1. m \in Lists /\ j \in DOMAIN d.list[m] /\ d.list[m][j].class = x
        /\ FindBucket(d, x) = d.list[m][j]
    BY <1>10, FindsBucket
  <2>2. \E i \in DOMAIN e.list[m] : e.list[m][i] = d.list[m][j]
    BY <1>1, <1>4, <1>7, <2>1
  <2> QED BY <1>9, <2>1, <2>2, IndexUnique
<1>11. \A m \in Lists : Len(e.list[m]) = IF m = l THEN Len(d.list[m]) - 1 ELSE Len(d.list[m])
  BY <1>3, <1>7
<1>12. SameOrder(d, e, c)
  <2>1. SUFFICES ASSUME NEW x \in Classes \ {c}, NEW y \in Classes \ {c},
                        d.map[x] # "none", d.map[y] = d.map[x]
                 PROVE  Index(e, x) < Index(e, y) <=> Index(d, x) < Index(d, y)
    BY DEF SameOrder
  <2> DEFINE m == d.map[x]
  <2>2. ASSUME NEW z \in {x, y}
        PROVE  /\ Index(e, z) \in DOMAIN e.list[m]
               /\ Index(d, z) = IF m = l THEN old(Index(e, z)) ELSE Index(e, z)
    <3>1. m \in Lists /\ e.map[z] = m /\ m # "none"
      BY <1>7, <2>1, FindsBucket
    <3>2. Index(e, z) \in DOMAIN e.list[m] /\ e.list[m][Index(e, z)].class = z
      BY <1>9, <2>1, <3>1, FindsBucket
    <3> PICK j : j = Index(e, z)
      OBVIOUS
    <3>3. /\ (IF m = l THEN old(j) ELSE j) \in DOMAIN d.list[m]
          /\ d.list[m][IF m = l THEN old(j) ELSE j].class = z
      BY <1>8, <3>1, <3>2
    <3>4. Index(d, z) = IF m = l THEN old(j) ELSE j
      BY <3>1, <3>3, IndexUnique
    <3> QED BY <3>2, <3>4
  <2>3. m \in Lists
    BY <2>1, FindsBucket
  <2>4. m = l => Index(e, x) \in DOMAIN t /\ Index(e, y) \in DOMAIN t
    BY <1>7, <2>2, <2>3
  <2> QED BY <1>4, <2>2, <2>4
<1> QED BY <1>6, <1>9, <1>10, <1>11, <1>12 DEF e, f, SameClass

LEMMA InsertBucketLemma ==
    ASSUME NEW d, WellFormed(d), NEW b \in Bucket, d.map[b.class] = "none",
           NEW l \in Lists, NEW i \in 0 .. Len(d.list[l]) + 1,
           l = "free" => b.wins # {}
    PROVE  /\ WellFormed(InsertBucket(d, b, i, l))
           /\ InsertBucket(d, b, i, l).map = [d.map EXCEPT ![b.class] = l]
           /\ InsertBucket(d, b, i, l).focus = d.focus
           /\ FindBucket(InsertBucket(d, b, i, l), b.class) = b
           /\ \A x \in Classes \ {b.class} : SameClass(d, InsertBucket(d, b, i, l), x)
           /\ SameOrder(d, InsertBucket(d, b, i, l), b.class)
           /\ i # AtEnd => Index(InsertBucket(d, b, i, l), b.class) = i
<1> DEFINE c == b.class
           s == d.list[l]
           k == IF i = AtEnd THEN Len(s) + 1 ELSE i
           t == InsertAtPosition(s, i, b)
           e == InsertBucket(d, b, i, l)
           new(j) == IF j < k THEN j ELSE j + 1
<1>1. c \in Classes
  BY DEF Bucket
<1>2. s \in Seq(Bucket) /\ Len(s) \in Nat /\ DOMAIN s = 1 .. Len(s) /\ k \in 1 .. (Len(s) + 1)
  BY ListTyped DEF WellFormed, AtEnd
<1>3. /\ t \in Seq(Bucket) /\ Len(t) = Len(s) + 1
      /\ \A j \in 1 .. (Len(s) + 1) :
            t[j] = IF j < k THEN s[j] ELSE IF j = k THEN b ELSE s[j - 1]
  <2>1. CASE i = AtEnd
    <3>1. t = Append(s, b)
      BY <2>1 DEF InsertAtPosition
    <3> QED BY <2>1, <3>1, <1>2, AppendProperties
  <2>2. CASE i # AtEnd
    <3>1. t = InsertAt(s, k, b)
      BY <2>2, <1>2 DEF InsertAtPosition
    <3> HIDE DEF k, t, s
    <3>2. /\ InsertAt(s, k, b) \in Seq(Bucket) /\ Len(InsertAt(s, k, b)) = Len(s) + 1
          /\ \A j \in 1 .. (Len(s) + 1) :
                InsertAt(s, k, b)[j] = IF j < k THEN s[j] ELSE IF j = k THEN b ELSE s[j - 1]
      BY ONLY <1>2, b \in Bucket, InsertAtProperties
    <3> QED BY <3>1, <3>2
  <2> QED BY <2>1, <2>2
<1>k. i # AtEnd => k = i
  OBVIOUS
<1> HIDE DEF k, t
<1>4. /\ DOMAIN t = 1 .. (Len(s) + 1)
      /\ k \in DOMAIN t /\ t[k] = b
      /\ \A j \in DOMAIN s : new(j) \in DOMAIN t /\ new(j) # k /\ t[new(j)] = s[j]
      /\ \A j \in DOMAIN t : j # k => \E m \in DOMAIN s : new(m) = j
      /\ \A j, m \in DOMAIN s : j < m <=> new(j) < new(m)
  <2>1. DOMAIN t = 1 .. (Len(s) + 1) /\ k \in DOMAIN t /\ t[k] = b
    BY <1>2, <1>3, LenProperties
  <2>2. ASSUME NEW j \in DOMAIN s
        PROVE  new(j) \in DOMAIN t /\ new(j) # k /\ t[new(j)] = s[j]
    <3>1. new(j) \in 1 .. (Len(s) + 1) /\ new(j) # k
      BY <1>2
    <3>2. t[new(j)] = s[j]
      BY <1>2, <1>3, <3>1
    <3> QED BY <2>1, <3>1, <3>2
  <2>3. ASSUME NEW j \in DOMAIN t, j # k
        PROVE  \E m \in DOMAIN s : new(m) = j
    <3>1. CASE j < k
      <4>1. j \in DOMAIN s /\ new(j) = j
        BY <3>1, <1>2, <2>1
      <4> QED BY <4>1
    <3>2. CASE ~(j < k)
      <4>1. j - 1 \in DOMAIN s /\ new(j - 1) = j
        BY <3>2, <1>2, <2>1, <2>3
      <4> QED BY <4>1
    <3> QED BY <3>1, <3>2
  <2>4. \A j, m \in DOMAIN s : j < m <=> new(j) < new(m)
    BY <1>2
  <2> QED BY <2>1, <2>2, <2>3, <2>4
<1>5. e = [d EXCEPT !.map[c] = l, !.list[l] = t]
  BY DEF InsertBucket, t
<1>6. /\ e.map = [d.map EXCEPT ![c] = l] /\ e.focus = d.focus
      /\ e.list = [d.list EXCEPT ![l] = t]
      /\ e \in Dock
  <2>1. /\ [d.list EXCEPT ![l] = t] \in [Lists -> Seq(Bucket)]
        /\ [d.map EXCEPT ![c] = l] \in [Classes -> Lists \cup {"none"}]
    BY <1>1, <1>3 DEF WellFormed, Dock
  <2>2. /\ e.map = [d.map EXCEPT ![c] = l] /\ e.focus = d.focus
        /\ e.list = [d.list EXCEPT ![l] = t]
        /\ e = [list |-> e.list, map |-> e.map, focus |-> e.focus]
    BY <1>5 DEF WellFormed, Dock
  <2> QED BY <2>1, <2>2 DEF Dock, WellFormed
<1>7. /\ \A m \in Lists : e.list[m] = IF m = l THEN t ELSE d.list[m]
      /\ \A x \in Classes : e.map[x] = IF x = c THEN l ELSE d.map[x]
  BY <1>1, <1>6 DEF WellFormed, Dock
<1> HIDE DEF e, new
\* Every bucket but the new one stood in the same list before.
<1>8. ASSUME NEW m \in Lists, NEW j \in DOMAIN e.list[m], ~(m = l /\ j = k)
      PROVE  \E n \in DOMAIN d.list[m] :
                /\ j = (IF m = l THEN new(n) ELSE n)
                /\ e.list[m][j] = d.list[m][n]
                /\ e.list[m][j].class # c
                /\ e.list[m][j].class \in Classes
                /\ d.map[e.list[m][j].class] = m
  <2>1. PICK n \in DOMAIN d.list[m] : /\ j = (IF m = l THEN new(n) ELSE n)
                                      /\ e.list[m][j] = d.list[m][n]
    <3>1. CASE m = l
      <4>1. e.list[m] = t /\ j \in DOMAIN t /\ j # k
        BY <3>1, <1>7, <1>8
      <4>2. PICK n \in DOMAIN s : new(n) = j
        BY <4>1, <1>4
      <4> QED BY <3>1, <4>1, <4>2, <1>4
    <3>2. CASE m # l
      BY <3>2, <1>7
    <3> QED BY <3>1, <3>2
  <2>2. d.list[m][n].class \in Classes /\ d.map[d.list[m][n].class] = m /\ m # "none"
    BY IndexUnique DEF Lists
  <2> QED BY <2>1, <2>2
<1>9. WellFormed(e)
  <2>1. Distinct(e)
    <3>1. SUFFICES ASSUME NEW m \in Lists, NEW i1 \in DOMAIN e.list[m],
                          NEW i2 \in DOMAIN e.list[m],
                          e.list[m][i1].class = e.list[m][i2].class
                   PROVE  i1 = i2
      BY DEF Distinct
    <3>2. CASE m = l /\ (i1 = k \/ i2 = k)
      BY <3>1, <3>2, <1>4, <1>7, <1>8
    <3>3. CASE ~(m = l /\ (i1 = k \/ i2 = k))
      <4>1. PICK n1 \in DOMAIN d.list[m] : /\ i1 = (IF m = l THEN new(n1) ELSE n1)
                                           /\ e.list[m][i1] = d.list[m][n1]
        BY <3>3, <1>8
      <4>2. PICK n2 \in DOMAIN d.list[m] : /\ i2 = (IF m = l THEN new(n2) ELSE n2)
                                           /\ e.list[m][i2] = d.list[m][n2]
        BY <3>3, <1>8
      <4>3. n1 = n2
        BY <3>1, <4>1, <4>2 DEF WellFormed, Distinct
      <4> QED BY <4>1, <4>2, <4>3
    <3> QED BY <3>2, <3>3
  <2>2. Indexed(e)
    <3>1. SUFFICES ASSUME NEW m \in Lists, NEW j \in DOMAIN e.list[m]
                   PROVE  e.map[e.list[m][j].class] = m
      BY DEF Indexed
    <3>2. CASE m = l /\ j = k
      BY <3>2, <1>1, <1>4, <1>7
    <3>3. CASE ~(m = l /\ j = k)
      BY <3>3, <1>7, <1>8
    <3> QED BY <3>2, <3>3
  <2>3. Found(e)
    <3>1. SUFFICES ASSUME NEW x \in Classes, e.map[x] # "none"
                   PROVE  \E j \in DOMAIN e.list[e.map[x]] : e.list[e.map[x]][j].class = x
      BY DEF Found, HasClass, ListOf
    <3>2. CASE x = c
      BY <3>2, <1>1, <1>4, <1>7
    <3>3. CASE x # c
      <4>1. e.map[x] = d.map[x] /\ d.map[x] # "none"
        BY <1>7, <3>1, <3>3
      <4>2. d.map[x] \in Lists /\ Index(d, x) \in DOMAIN d.list[d.map[x]]
            /\ d.list[d.map[x]][Index(d, x)].class = x
        BY <4>1, FindsBucket
      <4> QED BY <1>4, <1>7, <4>1, <4>2
    <3> QED BY <3>2, <3>3
  <2> QED BY <1>6, <2>1, <2>2, <2>3 DEF WellFormed
<1>10. FindBucket(e, c) = b
  BY <1>4, <1>7, <1>9, IndexUnique
<1>11. ASSUME NEW x \in Classes \ {c}, d.map[x] # "none"
       PROVE  FindBucket(e, x) = FindBucket(d, x)
  <2> DEFINE m == d.map[x]
             j == Index(d, x)
  <2>1. m \in Lists /\ j \in DOMAIN d.list[m] /\ d.list[m][j].class = x
        /\ FindBucket(d, x) = d.list[m][j]
    BY <1>11, FindsBucket
  <2>2. \E n \in DOMAIN e.list[m] : e.list[m][n] = d.list[m][j]
    BY <1>4, <1>7, <2>1
  <2> QED BY <1>9, <2>1, <2>2, IndexUnique
<1>12. SameOrder(d, e, c)
  <2>1. SUFFICES ASSUME NEW x \in Classes \ {c}, NEW y \in Classes \ {c},
                        d.map[x] # "none", d.map[y] = d.map[x]
                 PROVE  Index(e, x) < Index(e, y) <=> Index(d, x) < Index(d, y)
    BY DEF SameOrder
  <2> DEFINE m == d.map[x]
  <2>2. ASSUME NEW z \in {x, y}
        PROVE  /\ Index(d, z) \in DOMAIN d.list[m]
               /\ Index(e, z) = IF m = l THEN new(Index(d, z)) ELSE Index(d, z)
    <3>1. m \in Lists /\ Index(d, z) \in DOMAIN d.list[m] /\ d.list[m][Index(d, z)].class = z
      BY <2>1, FindsBucket
    <3> PICK j : j = Index(d, z)
      OBVIOUS
    <3>2. /\ (IF m = l THEN new(j) ELSE j) \in DOMAIN e.list[m]
          /\ e.list[m][IF m = l THEN new(j) ELSE j].class = z
      BY <1>4, <1>7, <3>1
    <3>3. Index(e, z) = IF m = l THEN new(j) ELSE j
      BY <1>9, <3>1, <3>2, IndexUnique
    <3> QED BY <3>1, <3>3
  <2> QED BY <1>4, <2>2
<1>13. Index(e, c) = k
  BY <1>4, <1>7, <1>9, IndexUnique
<1> QED BY <1>6, <1>9, <1>10, <1>11, <1>12, <1>13, <1>k DEF e, SameClass

-----------------------------------------------------------------------------
(* The methods keep a good dock good.                                        *)

Sound(d) == WellFormed(d) /\ Occupied(d)

GoodDock(d) == Sound(d) /\ PointedBucketIsFocused(d)

\* The windows of a class that the dock takes for active
ActiveOf(d, c) == IF Located(d, c) THEN FindBucket(d, c).active ELSE {}

\* No window enters or leaves the bucket of any class, nor becomes active in it
\* or ceases to be.
SameWins(d, e) ==
    \A x \in Classes : WinsOf(e, x) = WinsOf(d, x) /\ ActiveOf(e, x) = ActiveOf(d, x)

\* The focus stays or is forgotten.
FocusKept(d, e) == e.focus \in {d.focus, NoClass}

\* A setter that does not touch the windows of a bucket keeps the dock sound.
LEMMA SetterSound ==
    ASSUME NEW d, Sound(d), NEW c \in Classes, d.map[c] # "none",
           NEW b \in Bucket, b.class = c, Kept(d.map[c], b)
    PROVE  Sound(SetBucket(d, c, b))
<1> DEFINE e == SetBucket(d, c, b)
<1>1. /\ WellFormed(e) /\ e.map = d.map /\ FindBucket(e, c) = b
      /\ \A x \in Classes \ {c} : SameClass(d, e, x)
  BY SetBucketLemma DEF Sound
<1>2. \A x \in Classes : d.map[x] # "none" => Kept(d.map[x], FindBucket(d, x))
  BY OccupiedByClass DEF Sound
<1> HIDE DEF e
<1>3. \A x \in Classes : e.map[x] # "none" => Kept(e.map[x], FindBucket(e, x))
  BY <1>1, <1>2 DEF SameClass
<1> QED BY <1>1, <1>3, OccupiedByClass DEF Sound, e

LEMMA SetFocusedLemma ==
    ASSUME NEW d, Sound(d), NEW c \in Classes, d.map[c] # "none", NEW flag \in BOOLEAN
    PROVE  /\ Sound(SetFocused(d, c, flag))
           /\ SetFocused(d, c, flag).map = d.map
           /\ SetFocused(d, c, flag).focus = d.focus
           /\ FindBucket(SetFocused(d, c, flag), c).isFocused = flag
           /\ SameWins(d, SetFocused(d, c, flag))
<1> DEFINE b == [FindBucket(d, c) EXCEPT !.isFocused = flag]
           e == SetFocused(d, c, flag)
<1>1. FindBucket(d, c) \in Bucket /\ FindBucket(d, c).class = c
  BY FindsBucket DEF Sound
<1>2. /\ b \in Bucket /\ b.class = c /\ b.isFocused = flag
      /\ b.wins = FindBucket(d, c).wins /\ b.isRunning = FindBucket(d, c).isRunning
      /\ b.active = FindBucket(d, c).active
  BY <1>1 DEF Bucket
<1>3. Kept(d.map[c], b)
  BY <1>2, OccupiedByClass DEF Sound, Kept
<1>e. e = SetBucket(d, c, b)
  BY DEF SetFocused
<1> HIDE DEF b, e
<1>4. /\ e.map = d.map /\ e.focus = d.focus /\ FindBucket(e, c) = b
      /\ \A x \in Classes \ {c} : SameClass(d, e, x)
  BY <1>e, <1>2, SetBucketLemma DEF Sound
<1>5. Sound(e)
  BY <1>e, <1>2, <1>3, SetterSound
<1>6. SameWins(d, e)
  <2>1. \A x \in Classes : /\ Located(e, x) <=> e.map[x] # "none"
                           /\ Located(d, x) <=> d.map[x] # "none"
    BY <1>5, LocatedIffMapped DEF Sound
  <2> QED BY <1>2, <1>4, <2>1 DEF SameWins, WinsOf, ActiveOf, SameClass
<1> QED BY <1>2, <1>4, <1>5, <1>6 DEF e

LEMMA RefocusSound ==
    ASSUME NEW d, Sound(d), NEW f \in Classes \cup {NoClass}
    PROVE  /\ Sound([d EXCEPT !.focus = f])
           /\ [d EXCEPT !.focus = f].map = d.map
           /\ [d EXCEPT !.focus = f].focus = f
           /\ \A x : /\ FindBucket([d EXCEPT !.focus = f], x) = FindBucket(d, x)
                     /\ Index([d EXCEPT !.focus = f], x) = Index(d, x)
                     /\ Located([d EXCEPT !.focus = f], x) = Located(d, x)
           /\ [d EXCEPT !.focus = f].list = d.list
           /\ SameWins(d, [d EXCEPT !.focus = f])
<1> DEFINE e == [d EXCEPT !.focus = f]
<1>1. e.map = d.map /\ e.list = d.list /\ e.focus = f /\ e \in Dock
  BY DEF Sound, WellFormed, Dock
<1> HIDE DEF e
<1>2. \A x : ListOf(e, x) = ListOf(d, x)
  BY <1>1 DEF ListOf
<1>3. \A x : /\ Index(e, x) = Index(d, x)
             /\ FindBucket(e, x) = FindBucket(d, x)
             /\ Located(e, x) = Located(d, x)
  BY <1>1, <1>2 DEF Index, FindBucket, Located
<1>4. Sound(e)
  BY <1>1, <1>2 DEF Sound, WellFormed, Distinct, Indexed, Found, Occupied
<1>5. SameWins(d, e)
  BY <1>3 DEF SameWins, WinsOf, ActiveOf
<1> QED BY <1>1, <1>3, <1>4, <1>5 DEF e

\* change_focus leaves one pointer and it is right, whatever it was before.
LEMMA ChangeFocusLemma ==
    ASSUME NEW d, Sound(d), NEW c \in Classes
    PROVE  /\ GoodDock(ChangeFocus(d, c))
           /\ ChangeFocus(d, c).map = d.map
           /\ ChangeFocus(d, c).focus = IF d.map[c] # "none" THEN c ELSE NoClass
           /\ SameWins(d, ChangeFocus(d, c))
<1> DEFINE cl == ClearOldFocus(d)
           e == ChangeFocus(d, c)
<1>1. Sound(cl) /\ cl.map = d.map /\ SameWins(d, cl)
  <2>1. CASE d.focus # NoClass /\ Located(d, d.focus)
    <3>1. d.focus \in Classes /\ d.map[d.focus] # "none"
      BY <2>1 DEF Sound, WellFormed, Dock, Located
    <3> QED BY <2>1, <3>1, SetFocusedLemma DEF ClearOldFocus
  <2>2. CASE ~(d.focus # NoClass /\ Located(d, d.focus))
    BY <2>2 DEF ClearOldFocus, SameWins
  <2> QED BY <2>1, <2>2
<1> HIDE DEF cl
<1>2. CASE Located(cl, c)
  <2> DEFINE m == SetFocused(cl, c, TRUE)
  <2>1. cl.map[c] # "none"
    BY <1>2 DEF Located
  <2>2. /\ Sound(m) /\ m.map = cl.map
        /\ FindBucket(m, c).isFocused = TRUE /\ SameWins(cl, m)
    BY <1>1, <2>1, SetFocusedLemma
  <2>3. e = [m EXCEPT !.focus = c]
    BY <1>2 DEF ChangeFocus, cl
  <2> HIDE DEF m, e
  <2>4. /\ Sound(e) /\ e.map = m.map /\ e.focus = c
        /\ FindBucket(e, c) = FindBucket(m, c) /\ SameWins(m, e)
    BY <2>2, <2>3, RefocusSound
  <2>5. Located(e, c)
    BY <1>1, <2>1, <2>2, <2>4, LocatedIffMapped DEF Sound
  <2> QED BY <1>1, <2>1, <2>2, <2>4, <2>5 DEF GoodDock, PointedBucketIsFocused, SameWins, e
<1>3. CASE ~Located(cl, c)
  <2>1. e = [cl EXCEPT !.focus = NoClass]
    BY <1>3 DEF ChangeFocus, cl
  <2>2. Sound(e) /\ e.map = cl.map /\ e.focus = NoClass /\ SameWins(cl, e)
    BY <1>1, <2>1, RefocusSound
  <2>3. d.map[c] = "none"
    BY <1>1, <1>3, LocatedIffMapped DEF Sound
  <2> QED BY <1>1, <2>2, <2>3 DEF GoodDock, PointedBucketIsFocused, SameWins
<1> QED BY <1>2, <1>3

LEMMA NewBucketTyped ==
    ASSUME NEW c \in Classes
    PROVE  /\ NewBucket(c) \in Bucket /\ NewBucket(c).class = c
           /\ NewBucket(c).wins = {} /\ NewBucket(c).active = {} /\ ~NewBucket(c).isRunning
BY DEF NewBucket, Bucket

LEMMA InsertedTyped ==
    ASSUME NEW b \in Bucket, b.active \subseteq b.wins,
           NEW w \in Windows, NEW focused \in BOOLEAN
    PROVE  /\ Inserted(b, w, focused) \in Bucket
           /\ Inserted(b, w, focused).class = b.class
           /\ Inserted(b, w, focused).wins = b.wins \cup {w}
           /\ Inserted(b, w, focused).active = WithActive(b.active, w, focused)
           /\ Inserted(b, w, focused).isFocused = b.isFocused
           /\ \A l : Kept(l, Inserted(b, w, focused))
<1>1. WithActive(b.active, w, focused) \in SUBSET Windows
  BY DEF WithActive, Bucket
<1>2. WithActive(b.active, w, focused) \subseteq b.wins \cup {w}
  BY DEF WithActive
<1> QED BY <1>1, <1>2 DEF Inserted, Bucket, Kept

\* insert_bucket of a bucket that had no place, at a position within the list
LEMMA InsertSound ==
    ASSUME NEW d, Sound(d), NEW b \in Bucket, d.map[b.class] = "none",
           NEW l \in Lists, NEW i \in 0 .. Len(d.list[l]) + 1, Kept(l, b)
    PROVE  /\ Sound(InsertBucket(d, b, i, l))
           /\ InsertBucket(d, b, i, l).map = [d.map EXCEPT ![b.class] = l]
           /\ InsertBucket(d, b, i, l).focus = d.focus
           /\ FindBucket(InsertBucket(d, b, i, l), b.class) = b
           /\ \A x \in Classes \ {b.class} : SameClass(d, InsertBucket(d, b, i, l), x)
<1> DEFINE e == InsertBucket(d, b, i, l)
<1>1. /\ WellFormed(e) /\ e.map = [d.map EXCEPT ![b.class] = l] /\ e.focus = d.focus
      /\ FindBucket(e, b.class) = b
      /\ \A x \in Classes \ {b.class} : SameClass(d, e, x)
  BY InsertBucketLemma DEF Sound, Kept
<1> HIDE DEF e
<1>2. d.map \in [Classes -> Lists \cup {"none"}] /\ b.class \in Classes
  BY DEF Sound, WellFormed, Dock, Bucket
<1>3. \A x \in Classes : d.map[x] # "none" => Kept(d.map[x], FindBucket(d, x))
  BY OccupiedByClass DEF Sound
<1>4. \A x \in Classes : e.map[x] # "none" => Kept(e.map[x], FindBucket(e, x))
  BY <1>1, <1>2, <1>3 DEF SameClass
<1> QED BY <1>1, <1>4, OccupiedByClass DEF Sound, e

\* What add_app changes: the window joins its class and the class the dock, and a
\* focused window takes the focus.
GainsWindow(d, e, c, w, focused) ==
    /\ e.focus = IF focused THEN c ELSE d.focus
    /\ \A x \in Classes :
          /\ WinsOf(e, x) = IF x = c THEN WinsOf(d, x) \cup {w} ELSE WinsOf(d, x)
          /\ ActiveOf(e, x) = IF x = c THEN WithActive(ActiveOf(d, x), w, focused)
                                       ELSE ActiveOf(d, x)

LEMMA AddAppLemma ==
    ASSUME NEW d, GoodDock(d), NEW c \in Classes, NEW w \in Windows, NEW focused \in BOOLEAN
    PROVE  /\ GoodDock(AddApp(d, c, w, focused))
           /\ AddApp(d, c, w, focused).map =
                 IF d.map[c] = "none" THEN [d.map EXCEPT ![c] = "free"] ELSE d.map
           /\ GainsWindow(d, AddApp(d, c, w, focused), c, w, focused)
<1> DEFINE p == PlaceApp(d, c, w, focused)
           map == IF d.map[c] = "none" THEN [d.map EXCEPT ![c] = "free"] ELSE d.map
           WinsAdded(e) == \A x \in Classes :
               /\ WinsOf(e, x) = IF x = c THEN WinsOf(d, x) \cup {w} ELSE WinsOf(d, x)
               /\ ActiveOf(e, x) = IF x = c THEN WithActive(ActiveOf(d, x), w, focused)
                                            ELSE ActiveOf(d, x)
<1>0. d.map \in [Classes -> Lists \cup {"none"}] /\ Sound(d) /\ WellFormed(d)
  BY DEF GoodDock, Sound, WellFormed, Dock
<1>1. /\ GoodDock(p) /\ p.map = map /\ p.focus = d.focus /\ WinsAdded(p)
  <2>1. CASE d.map[c] # "none"
    <3> DEFINE b == Inserted(FindBucket(d, c), w, focused)
    <3>1. /\ Located(d, c) /\ FindBucket(d, c) \in Bucket /\ FindBucket(d, c).class = c
          /\ FindBucket(d, c).active \subseteq FindBucket(d, c).wins
      BY <2>1, <1>0, FindsBucket, OccupiedByClass DEF Located, Sound, Kept
    <3>2. /\ b \in Bucket /\ b.class = c /\ b.wins = FindBucket(d, c).wins \cup {w}
          /\ b.active = WithActive(FindBucket(d, c).active, w, focused)
          /\ b.isFocused = FindBucket(d, c).isFocused /\ Kept(d.map[c], b)
      BY <3>1, InsertedTyped
    <3>3. p = SetBucket(d, c, b)
      BY <3>1 DEF PlaceApp
    <3> HIDE DEF b, p
    <3>4. Sound(p)
      BY <1>0, <2>1, <3>2, <3>3, SetterSound
    <3>5. /\ p.map = d.map /\ p.focus = d.focus /\ FindBucket(p, c) = b
          /\ \A x \in Classes \ {c} : SameClass(d, p, x)
      BY <1>0, <2>1, <3>2, <3>3, SetBucketLemma
    <3>6. \A x \in Classes : /\ Located(p, x) <=> p.map[x] # "none"
                             /\ Located(d, x) <=> d.map[x] # "none"
      BY <1>0, <3>4, LocatedIffMapped DEF Sound
    <3>7. WinsAdded(p)
      BY <2>1, <3>2, <3>5, <3>6 DEF WinsOf, ActiveOf, SameClass
    <3>8. PointedBucketIsFocused(p)
      <4>1. d.focus \in Classes \cup {NoClass}
        BY <1>0 DEF WellFormed, Dock
      <4> QED BY <4>1, <3>2, <3>5, <3>6 
              DEF PointedBucketIsFocused, GoodDock, SameClass
    <3> QED BY <2>1, <3>4, <3>5, <3>7, <3>8 DEF GoodDock
  <2>2. CASE d.map[c] = "none"
    <3> DEFINE b == Inserted(NewBucket(c), w, focused)
    <3>1. /\ b \in Bucket /\ b.class = c /\ b.wins = {w} /\ Kept("free", b)
          /\ b.active = WithActive({}, w, focused)
      BY NewBucketTyped, InsertedTyped
    <3>2. p = InsertBucket(d, b, AtEnd, "free")
      <4>1. ~Located(d, c)
        BY <2>2 DEF Located
      <4>2. b.wins # {}
        BY <3>1
      <4> HIDE DEF b
      <4>3. InsertBucket(d, b, AtEnd, "free") =
               [d EXCEPT !.map[c] = "free", !.list["free"] = Append(@, b)]
        BY <3>1, <4>2 DEF InsertBucket, InsertAtPosition
      <4> QED BY <4>1, <4>3 DEF PlaceApp, b
    <3> HIDE DEF b, p
    <3>3. /\ "free" \in Lists /\ AtEnd \in 0 .. Len(d.list["free"]) + 1
      BY <1>0, ListTyped DEF Lists, AtEnd, WellFormed
    <3>4. /\ Sound(p) /\ p.map = [d.map EXCEPT ![c] = "free"] /\ p.focus = d.focus
          /\ FindBucket(p, c) = b
          /\ \A x \in Classes \ {c} : SameClass(d, p, x)
      BY <1>0, <2>2, <3>1, <3>2, <3>3, InsertSound
    <3>5. \A x \in Classes : /\ Located(p, x) <=> p.map[x] # "none"
                             /\ Located(d, x) <=> d.map[x] # "none"
      BY <1>0, <3>4, LocatedIffMapped DEF Sound
    <3>6. WinsAdded(p)
      BY <1>0, <2>2, <3>1, <3>4, <3>5 DEF WinsOf, ActiveOf, SameClass
    <3>7. PointedBucketIsFocused(p)
      <4>1. d.focus \in Classes \cup {NoClass}
        BY <1>0 DEF WellFormed, Dock
      <4> QED BY <1>0, <2>2, <4>1, <3>4, <3>5
              DEF PointedBucketIsFocused, GoodDock, SameClass
    <3> QED BY <2>2, <3>4, <3>6, <3>7 DEF GoodDock
  <2> QED BY <2>1, <2>2
<1>2. CASE focused
  <2>1. AddApp(d, c, w, focused) = ChangeFocus(p, c)
    BY <1>2 DEF AddApp
  <2>2. /\ GoodDock(ChangeFocus(p, c)) /\ ChangeFocus(p, c).map = p.map
        /\ ChangeFocus(p, c).focus = IF p.map[c] # "none" THEN c ELSE NoClass
        /\ SameWins(p, ChangeFocus(p, c))
    BY <1>1, ChangeFocusLemma DEF GoodDock
  <2>3. p.map[c] # "none"
    BY <1>0, <1>1
  <2> HIDE DEF p
  <2> QED BY <1>1, <1>2, <2>1, <2>2, <2>3 DEF SameWins, GainsWindow
<1>3. CASE ~focused
  <2>1. AddApp(d, c, w, focused) = p
    BY <1>3 DEF AddApp
  <2> HIDE DEF p
  <2> QED BY <1>1, <1>3, <2>1 DEF GainsWindow
<1> QED BY <1>2, <1>3

\* A dock in which the bucket of c may be empty although it is not pinned: what
\* remove_app hands to remove_bucket.
SoundBut(d, c) ==
    /\ WellFormed(d)
    /\ \A x \in Classes \ {c} : d.map[x] # "none" => Kept(d.map[x], FindBucket(d, x))

\* Taking the bucket of c out leaves a good dock, if only that bucket was not
\* and if the pointer was right for the buckets that stay.
LEMMA RemoveBucketGood ==
    ASSUME NEW d, NEW c \in Classes, SoundBut(d, c), d.map[c] # "none",
           d.focus \in Classes \cup {NoClass},
           d.focus # NoClass => d.map[d.focus] # "none" /\ FindBucket(d, d.focus).isFocused
    PROVE  /\ GoodDock(RemoveBucket(d, c))
           /\ RemoveBucket(d, c).map = [d.map EXCEPT ![c] = "none"]
           /\ FocusKept(d, RemoveBucket(d, c))
           /\ \A x \in Classes :
                 /\ WinsOf(RemoveBucket(d, c), x) = IF x = c THEN {} ELSE WinsOf(d, x)
                 /\ ActiveOf(RemoveBucket(d, c), x) = IF x = c THEN {} ELSE ActiveOf(d, x)
           /\ \A m \in Lists : Len(RemoveBucket(d, c).list[m]) =
                 IF m = d.map[c] THEN Len(d.list[m]) - 1 ELSE Len(d.list[m])
<1> DEFINE e == RemoveBucket(d, c)
<1>1. /\ WellFormed(e)
      /\ e.map = [d.map EXCEPT ![c] = "none"]
      /\ e.focus = IF FindBucket(d, c).isFocused THEN NoClass ELSE d.focus
      /\ \A x \in Classes \ {c} : SameClass(d, e, x)
      /\ \A m \in Lists : Len(e.list[m]) =
            IF m = d.map[c] THEN Len(d.list[m]) - 1 ELSE Len(d.list[m])
  BY RemoveBucketLemma DEF SoundBut
<1> HIDE DEF e
<1>2. \A x \in Classes : e.map[x] = IF x = c THEN "none" ELSE d.map[x]
  BY <1>1 DEF SoundBut, WellFormed, Dock
<1>3. Sound(e)
  <2>1. \A x \in Classes : e.map[x] # "none" => Kept(e.map[x], FindBucket(e, x))
    BY <1>1, <1>2 DEF SoundBut, SameClass
  <2> QED BY <1>1, <2>1, OccupiedByClass DEF Sound
<1>4. \A x \in Classes : /\ Located(e, x) <=> e.map[x] # "none"
                         /\ Located(d, x) <=> d.map[x] # "none"
  BY <1>1, LocatedIffMapped DEF SoundBut
<1>5. PointedBucketIsFocused(e)
  <2>1. SUFFICES ASSUME e.focus # NoClass
                 PROVE  Located(e, e.focus) /\ FindBucket(e, e.focus).isFocused
    BY DEF PointedBucketIsFocused
  <2>2. ~FindBucket(d, c).isFocused /\ e.focus = d.focus
    BY <1>1, <2>1
  <2>3. d.focus \in Classes \ {c} /\ d.map[d.focus] # "none" /\ FindBucket(d, d.focus).isFocused
    BY <2>1, <2>2
  <2> QED BY <1>1, <1>2, <1>4, <2>2, <2>3 DEF SameClass
<1>6. \A x \in Classes : /\ WinsOf(e, x) = IF x = c THEN {} ELSE WinsOf(d, x)
                         /\ ActiveOf(e, x) = IF x = c THEN {} ELSE ActiveOf(d, x)
  BY <1>1, <1>2, <1>4 DEF WinsOf, ActiveOf, SameClass
<1> QED BY <1>1, <1>3, <1>5, <1>6 DEF GoodDock, FocusKept, e

LEMMA GoodParts ==
    ASSUME NEW d, GoodDock(d)
    PROVE  /\ Sound(d) /\ WellFormed(d) /\ d \in Dock
           /\ d.map \in [Classes -> Lists \cup {"none"}]
           /\ d.focus \in Classes \cup {NoClass}
           /\ d.focus # NoClass => d.map[d.focus] # "none" /\ FindBucket(d, d.focus).isFocused
           /\ \A x \in Classes : SoundBut(d, x)
           /\ \A x \in Classes : Located(d, x) <=> d.map[x] # "none"
           /\ \A x \in Classes : d.map[x] # "none" => Kept(d.map[x], FindBucket(d, x))
<1>1. Sound(d) /\ WellFormed(d) /\ d \in Dock
  BY DEF GoodDock, Sound, WellFormed
<1>2. d.map \in [Classes -> Lists \cup {"none"}] /\ d.focus \in Classes \cup {NoClass}
  BY <1>1 DEF Dock
<1>3. \A x \in Classes : Located(d, x) <=> d.map[x] # "none"
  BY <1>1, LocatedIffMapped
<1>4. \A x \in Classes : d.map[x] # "none" => Kept(d.map[x], FindBucket(d, x))
  BY <1>1, OccupiedByClass DEF Sound
<1> QED BY <1>1, <1>2, <1>3, <1>4 DEF SoundBut, GoodDock, PointedBucketIsFocused

\* What remove_app may change: the window leaves its class, an unpinned class may
\* leave the dock, and the class loses the focus.
LosesWindow(d, e, c, w) ==
    /\ e.map = d.map \/ (d.map[c] = "free" /\ e.map = [d.map EXCEPT ![c] = "none"])
    /\ FocusKept(d, e) /\ (d.focus = c => e.focus = NoClass)
    /\ \A x \in Classes :
          /\ WinsOf(e, x) = IF x = c THEN WinsOf(d, x) \ {w} ELSE WinsOf(d, x)
          /\ ActiveOf(e, x) = IF x = c THEN ActiveOf(d, x) \ {w} ELSE ActiveOf(d, x)

LEMMA RemoveAppLemma ==
    ASSUME NEW d, GoodDock(d), NEW c \in Classes, NEW w \in Windows,
           NEW f, Located(d, c) => f \in NextFocus(FindBucket(d, c), w)
    PROVE  /\ GoodDock(RemoveApp(d, c, w, f))
           /\ LosesWindow(d, RemoveApp(d, c, w, f), c, w)
<1> DEFINE r == RemoveApp(d, c, w, f)
           b == FindBucket(d, c)
           un == [d EXCEPT !.focus = IF b.isFocused THEN NoClass ELSE @]
           left == Removed(b, w, f)
           up == SetBucket(un, c, left)
<1>1. CASE ~Located(d, c)
  BY <1>1, GoodParts DEF RemoveApp, WinsOf, ActiveOf, LosesWindow, FocusKept
<1>2. CASE Located(d, c)
  <2>1. /\ d.map[c] # "none" /\ b \in Bucket /\ b.class = c /\ Kept(d.map[c], b)
    BY <1>2, GoodParts, FindsBucket
  <2>2. /\ left \in Bucket /\ left.class = c /\ left.wins = b.wins \ {w}
        /\ left.active = b.active \ {w} /\ left.active \subseteq left.wins
        /\ left.isFocused = b.isFocused
        /\ left.wins # {} \/ d.map[c] = "pinned" => Kept(d.map[c], left)
    <3>1. f \in Windows \cup {NoWindow}
      BY <1>2, <2>1 DEF NextFocus, Bucket
    <3> QED BY <2>1, <3>1 DEF Removed, Bucket, Kept
  <2> HIDE DEF left
  <2> DEFINE fo == IF b.isFocused THEN NoClass ELSE d.focus
  <2>3. fo \in Classes \cup {NoClass} /\ un = [d EXCEPT !.focus = fo]
    BY GoodParts
  <2>4. /\ Sound(un) /\ un.map = d.map /\ un.focus = fo
        /\ \A x : FindBucket(un, x) = FindBucket(d, x)
        /\ \A x : Index(un, x) = Index(d, x)
        /\ SameWins(d, un)
    BY <2>3, GoodParts, RefocusSound
  <2> HIDE DEF un
  <2>5. /\ WellFormed(up) /\ up.map = d.map /\ up.focus = fo
        /\ FindBucket(up, c) = left
        /\ \A x \in Classes \ {c} : d.map[x] # "none" => FindBucket(up, x) = FindBucket(d, x)
    BY <2>1, <2>2, <2>4, SetBucketLemma DEF Sound, SameClass
  <2> HIDE DEF up
  <2>6. \A x \in Classes : Located(up, x) <=> d.map[x] # "none"
    BY <2>5, LocatedIffMapped
  <2>7. \A x \in Classes :
          /\ WinsOf(up, x) = IF x = c THEN WinsOf(d, x) \ {w} ELSE WinsOf(d, x)
          /\ ActiveOf(up, x) = IF x = c THEN ActiveOf(d, x) \ {w} ELSE ActiveOf(d, x)
    BY <1>2, <2>2, <2>5, <2>6, GoodParts DEF WinsOf, ActiveOf
  <2>8. SoundBut(up, c)
    BY <2>5, GoodParts DEF SoundBut
  <2>9. fo # NoClass => up.map[fo] # "none" /\ FindBucket(up, fo).isFocused
    <3>1. SUFFICES ASSUME fo # NoClass
                   PROVE  up.map[fo] # "none" /\ FindBucket(up, fo).isFocused
      OBVIOUS
    <3>2. ~b.isFocused /\ fo = d.focus
      BY <3>1
    <3>3. d.focus \in Classes \ {c} /\ d.map[d.focus] # "none"
          /\ FindBucket(d, d.focus).isFocused
      BY <3>1, <3>2, GoodParts
    <3> QED BY <2>5, <3>2, <3>3
  <2>f. fo \in {d.focus, NoClass} /\ (d.focus = c => fo = NoClass)
    BY <1>2, GoodParts
  <2> HIDE DEF fo
  <2>10. CASE left.wins = {} /\ ~IsPinned(d, c)
    <3>1. r = RemoveBucket(up, c)
      BY <1>2, <2>10 DEF RemoveApp, up, un, left
    <3>2. /\ GoodDock(RemoveBucket(up, c))
          /\ RemoveBucket(up, c).map = [up.map EXCEPT ![c] = "none"]
          /\ FocusKept(up, RemoveBucket(up, c))
          /\ \A x \in Classes :
                /\ WinsOf(RemoveBucket(up, c), x) = IF x = c THEN {} ELSE WinsOf(up, x)
                /\ ActiveOf(RemoveBucket(up, c), x) = IF x = c THEN {} ELSE ActiveOf(up, x)
      BY <2>1, <2>3, <2>5, <2>8, <2>9, RemoveBucketGood
    <3>3. WinsOf(d, c) \ {w} = {} /\ ActiveOf(d, c) \ {w} = {}
      BY <1>2, <2>2, <2>10 DEF WinsOf, ActiveOf
    <3>4. d.map[c] = "free"
      BY <2>1, <2>10, GoodParts DEF IsPinned, Lists
    <3> HIDE DEF r
    <3>5. FocusKept(d, r) /\ (d.focus = c => r.focus = NoClass)
      BY <2>5, <2>f, <3>1, <3>2 DEF FocusKept
    <3> QED BY <2>5, <2>7, <3>1, <3>2, <3>3, <3>4, <3>5 DEF r, LosesWindow
  <2>11. CASE ~(left.wins = {} /\ ~IsPinned(d, c))
    <3>1. r = up
      BY <1>2, <2>11 DEF RemoveApp, up, un, left
    <3>2. Kept(d.map[c], left)
      BY <2>2, <2>11 DEF IsPinned
    <3>3. Sound(up)
      BY <2>5, <2>8, <3>2, OccupiedByClass DEF SoundBut, Sound
    <3>4. PointedBucketIsFocused(up)
      BY <2>3, <2>5, <2>6, <2>9 DEF PointedBucketIsFocused
    <3> HIDE DEF r
    <3> QED BY <2>5, <2>7, <2>f, <3>1, <3>3, <3>4 DEF GoodDock, r, LosesWindow, FocusKept
  <2> QED BY <2>10, <2>11
<1> QED BY <1>1, <1>2

\* Where move_bucket leaves a bucket: an empty one is not kept unpinned.
Target(d, c, l) == IF l = "free" /\ WinsOf(d, c) = {} THEN "none" ELSE l

\* move_bucket loses no window, if the position is within the list the bucket
\* goes to once it has left its own: gio::ListStore::insert ignores any other.
LEMMA MoveBucketLemma ==
    ASSUME NEW d, GoodDock(d), NEW c \in Classes, NEW l \in Lists,
           NEW i \in 0 .. Len(d.list[l]) + (IF l = d.map[c] THEN 0 ELSE 1)
    PROVE  /\ GoodDock(MoveBucket(d, c, i, l))
           /\ MoveBucket(d, c, i, l).map =
                 IF Located(d, c) THEN [d.map EXCEPT ![c] = Target(d, c, l)] ELSE d.map
           /\ SameWins(d, MoveBucket(d, c, i, l)) /\ FocusKept(d, MoveBucket(d, c, i, l))
<1> DEFINE e == MoveBucket(d, c, i, l)
           r == RemoveBucket(d, c)
           b == FindBucket(d, c)
<1>1. CASE ~Located(d, c)
  BY <1>1 DEF MoveBucket, SameWins, FocusKept
<1>2. CASE Located(d, c)
  <2>1. /\ d.map[c] # "none" /\ b \in Bucket /\ b.class = c
        /\ b.isRunning <=> b.wins # {}
        /\ b.active \subseteq b.wins
    BY <1>2, GoodParts, FindsBucket DEF Kept
  <2>2. /\ GoodDock(r) /\ r.map = [d.map EXCEPT ![c] = "none"]
        /\ FocusKept(d, r)
        /\ \A x \in Classes : /\ WinsOf(r, x) = IF x = c THEN {} ELSE WinsOf(d, x)
                              /\ ActiveOf(r, x) = IF x = c THEN {} ELSE ActiveOf(d, x)
        /\ \A m \in Lists : Len(r.list[m]) =
              IF m = d.map[c] THEN Len(d.list[m]) - 1 ELSE Len(d.list[m])
    BY <2>1, GoodParts, RemoveBucketGood
  <2>3. WinsOf(d, c) = b.wins /\ ActiveOf(d, c) = b.active
    BY <1>2 DEF WinsOf, ActiveOf
  <2>4. e = InsertBucket(r, b, i, l)
    BY <1>2 DEF MoveBucket
  <2> HIDE DEF e, r, b
  <2>5. CASE l = "free" /\ b.wins = {}
    <3>1. e = r
      BY <2>4, <2>5 DEF InsertBucket
    <3>2. ActiveOf(d, c) = {}
      BY <2>1, <2>3, <2>5
    <3> QED BY <1>2, <2>2, <2>3, <2>5, <3>1, <3>2 DEF Target, SameWins, e
  <2>6. CASE ~(l = "free" /\ b.wins = {})
    <3>1. i \in 0 .. Len(r.list[l]) + 1
      <4>0. Len(r.list[l]) = IF l = d.map[c] THEN Len(d.list[l]) - 1 ELSE Len(d.list[l])
        BY <2>2
      <4>1. Len(d.list[l]) \in Nat
        BY ListTyped, GoodParts
      <4>2. CASE l = d.map[c]
        <5>1. Len(r.list[l]) = Len(d.list[l]) - 1 /\ i \in 0 .. Len(d.list[l])
          BY <4>0, <4>1, <4>2
        <5> QED BY <4>1, <5>1
      <4>3. CASE l # d.map[c]
        <5>1. Len(r.list[l]) = Len(d.list[l]) /\ i \in 0 .. Len(d.list[l]) + 1
          BY <4>0, <4>1, <4>3
        <5> QED BY <5>1
      <4> QED BY <4>2, <4>3
    <3>2. Kept(l, b) /\ r.map[b.class] = "none"
      BY <2>1, <2>2, <2>6, GoodParts DEF Kept
    <3>3. /\ Sound(e) /\ e.map = [r.map EXCEPT ![c] = l] /\ e.focus = r.focus
          /\ FindBucket(e, c) = b
          /\ \A x \in Classes \ {c} : SameClass(r, e, x)
      BY <2>1, <2>2, <2>4, <3>1, <3>2, GoodParts, InsertSound
    <3>4. e.map = [d.map EXCEPT ![c] = Target(d, c, l)]
      BY <2>2, <2>3, <2>6, <3>3, GoodParts DEF Target
    <3>5. \A x \in Classes : Located(e, x) <=> e.map[x] # "none"
      BY <3>3, LocatedIffMapped DEF Sound
    <3>6. \A x \in Classes : e.map[x] = IF x = c THEN l ELSE d.map[x]
      BY <2>2, <3>3, GoodParts
    <3>7. l # "none"
      BY DEF Lists
    <3>8. \A x \in Classes \ {c} : d.map[x] # "none" => FindBucket(e, x) = FindBucket(r, x)
      BY <2>2, <3>3, GoodParts DEF SameClass
    <3>9. SameWins(d, e)
      <4>1. \A x \in Classes \ {c} : WinsOf(e, x) = WinsOf(r, x) /\ ActiveOf(e, x) = ActiveOf(r, x)
        <5>1. \A x \in Classes \ {c} : Located(r, x) <=> d.map[x] # "none"
          BY <2>2, GoodParts
        <5> QED BY <3>5, <3>6, <3>8, <5>1 DEF WinsOf, ActiveOf
      <4>2. WinsOf(e, c) = b.wins /\ ActiveOf(e, c) = b.active
        BY <3>3, <3>5, <3>6, <3>7 DEF WinsOf, ActiveOf
      <4> QED BY <2>2, <2>3, <4>1, <4>2 DEF SameWins
    <3>10. PointedBucketIsFocused(e)
      <4>1. SUFFICES ASSUME e.focus # NoClass
                     PROVE  Located(e, e.focus) /\ FindBucket(e, e.focus).isFocused
        BY DEF PointedBucketIsFocused
      <4>2. r.focus \in Classes /\ r.map[r.focus] # "none" /\ FindBucket(r, r.focus).isFocused
        BY <2>2, <3>3, <4>1, GoodParts
      <4>3. r.focus \in Classes \ {c} /\ d.map[r.focus] # "none"
        BY <2>2, <4>2, GoodParts
      <4> QED BY <3>3, <3>5, <3>6, <3>8, <4>2, <4>3
    <3> QED BY <1>2, <2>2, <3>3, <3>4, <3>9, <3>10 DEF GoodDock, FocusKept, e
  <2> QED BY <2>5, <2>6
<1> QED BY <1>1, <1>2

LEMMA PinInRamLemma ==
    ASSUME NEW d, GoodDock(d), NEW c \in Classes
    PROVE  /\ GoodDock(PinInRam(d, c))
           /\ PinInRam(d, c).map = [d.map EXCEPT ![c] = "pinned"]
           /\ SameWins(d, PinInRam(d, c)) /\ FocusKept(d, PinInRam(d, c))
<1>1. /\ d.map \in [Classes -> {"pinned", "free", "none"}]
      /\ "pinned" \in Lists /\ Len(d.list["pinned"]) \in Nat
  BY GoodParts, ListTyped DEF Lists
<1>2. CASE d.map[c] = "free"
  <2>1. PinInRam(d, c) = MoveBucket(d, c, AtEnd, "pinned")
    BY <1>2 DEF PinInRam
  <2>2. /\ GoodDock(MoveBucket(d, c, AtEnd, "pinned"))
        /\ MoveBucket(d, c, AtEnd, "pinned").map = [d.map EXCEPT ![c] = Target(d, c, "pinned")]
        /\ SameWins(d, MoveBucket(d, c, AtEnd, "pinned"))
        /\ FocusKept(d, MoveBucket(d, c, AtEnd, "pinned"))
    <3>1. AtEnd \in 0 .. Len(d.list["pinned"]) + (IF "pinned" = d.map[c] THEN 0 ELSE 1)
      BY <1>1, <1>2 DEF AtEnd
    <3>2. Located(d, c)
      BY <1>2, GoodParts
    <3> QED BY <1>1, <3>1, <3>2, MoveBucketLemma
  <2> QED BY <2>1, <2>2 DEF Target
<1>3. CASE d.map[c] = "none"
  <2> DEFINE b == NewBucket(c)
             e == InsertBucket(d, b, AtEnd, "pinned")
  <2>1. PinInRam(d, c) = e
    BY <1>3 DEF PinInRam
  <2>2. b \in Bucket /\ b.class = c /\ b.wins = {} /\ b.active = {} /\ Kept("pinned", b)
    BY NewBucketTyped DEF Kept
  <2> HIDE DEF b
  <2>3. /\ Sound(e) /\ e.map = [d.map EXCEPT ![c] = "pinned"] /\ e.focus = d.focus
        /\ FindBucket(e, c) = b
        /\ \A x \in Classes \ {c} : SameClass(d, e, x)
    <3>1. AtEnd \in 0 .. Len(d.list["pinned"]) + 1
      BY <1>1 DEF AtEnd
    <3> QED BY <1>1, <1>3, <2>2, <3>1, GoodParts, InsertSound
  <2> HIDE DEF e
  <2>4. /\ \A x \in Classes : e.map[x] = IF x = c THEN "pinned" ELSE d.map[x]
        /\ \A x \in Classes : Located(e, x) <=> e.map[x] # "none"
        /\ \A x \in Classes : Located(d, x) <=> d.map[x] # "none"
    BY <1>1, <2>3, LocatedIffMapped, GoodParts DEF Sound
  <2>5. SameWins(d, e)
    BY <1>3, <2>2, <2>3, <2>4 DEF SameWins, WinsOf, ActiveOf, SameClass
  <2>6. PointedBucketIsFocused(e)
    BY <1>3, <2>3, <2>4, GoodParts DEF PointedBucketIsFocused, SameClass
  <2> QED BY <2>1, <2>3, <2>5, <2>6 DEF GoodDock, FocusKept
<1>4. CASE d.map[c] = "pinned"
  BY <1>1, <1>4 DEF PinInRam, SameWins, FocusKept
<1> QED BY <1>1, <1>2, <1>3, <1>4

LEMMA UnpinLemma ==
    ASSUME NEW d, GoodDock(d), NEW c \in Classes
    PROVE  /\ GoodDock(Unpin(d, c))
           /\ Unpin(d, c).map =
                 IF IsPinned(d, c) THEN [d.map EXCEPT ![c] = Target(d, c, "free")] ELSE d.map
           /\ SameWins(d, Unpin(d, c)) /\ FocusKept(d, Unpin(d, c))
<1>1. CASE IsPinned(d, c)
  <2>1. /\ "free" \in Lists /\ Located(d, c)
        /\ AtEnd \in 0 .. Len(d.list["free"]) + (IF "free" = d.map[c] THEN 0 ELSE 1)
    BY <1>1, GoodParts, ListTyped DEF Lists, IsPinned, AtEnd
  <2> QED BY <1>1, <2>1, MoveBucketLemma DEF Unpin
<1>2. CASE ~IsPinned(d, c)
  BY <1>2 DEF Unpin, SameWins, FocusKept
<1> QED BY <1>1, <1>2

\* What process_state_changed may change: whether the window is active, and the
\* focus, which follows it or is lost.
ChangesState(d, e, c, w, focused) ==
    /\ \A x \in Classes :
          /\ WinsOf(e, x) = WinsOf(d, x)
          /\ ActiveOf(e, x) = IF x = c /\ w \in WinsOf(d, x)
                               THEN WithActive(ActiveOf(d, x), w, focused) ELSE ActiveOf(d, x)
    /\ e.focus = IF d.map[c] = "none" THEN d.focus
                 ELSE IF focused THEN c
                 ELSE IF d.focus = c THEN NoClass ELSE d.focus

LEMMA ProcessStateChangedLemma ==
    ASSUME NEW d, GoodDock(d), NEW c \in Classes, NEW w \in Windows, NEW focused \in BOOLEAN
    PROVE  /\ GoodDock(ProcessStateChanged(d, c, w, focused))
           /\ ProcessStateChanged(d, c, w, focused).map = d.map
           /\ ChangesState(d, ProcessStateChanged(d, c, w, focused), c, w, focused)
<1> DEFINE b == Updated(FindBucket(d, c), w, focused)
           u == SetBucket(d, c, b)
           e == ProcessStateChanged(d, c, w, focused)
<1>1. CASE ~Located(d, c)
  BY <1>1, GoodParts DEF ProcessStateChanged, ChangesState, WinsOf
<1>2. CASE Located(d, c)
  <2>1. /\ d.map[c] # "none" /\ FindBucket(d, c) \in Bucket /\ FindBucket(d, c).class = c
        /\ Kept(d.map[c], FindBucket(d, c))
    BY <1>2, GoodParts, FindsBucket
  <2>2. /\ b \in Bucket /\ b.class = c /\ b.wins = FindBucket(d, c).wins
        /\ b.isFocused = FindBucket(d, c).isFocused /\ Kept(d.map[c], b)
        /\ b.active = IF w \in b.wins THEN WithActive(FindBucket(d, c).active, w, focused)
                                      ELSE FindBucket(d, c).active
    <3> PICK act : act = IF w \in FindBucket(d, c).wins
                         THEN WithActive(FindBucket(d, c).active, w, focused)
                         ELSE FindBucket(d, c).active
      OBVIOUS
    <3>1. act \in SUBSET Windows /\ act \subseteq FindBucket(d, c).wins
      BY <2>1 DEF WithActive, Bucket, Kept
    <3>2. b = [FindBucket(d, c) EXCEPT !.active = act,
                                       !.lastFocus = IF focused THEN w ELSE @]
      BY DEF Updated
    <3> HIDE DEF b
    <3> QED BY <2>1, <3>1, <3>2 DEF Bucket, Kept
  <2> HIDE DEF b
  <2>3. Sound(u)
    BY <2>1, <2>2, GoodParts, SetterSound
  <2>4. /\ u.map = d.map /\ u.focus = d.focus /\ FindBucket(u, c) = b
        /\ \A x \in Classes \ {c} : SameClass(d, u, x)
    BY <2>1, <2>2, GoodParts, SetBucketLemma
  <2>5. e = CASE ~Located(d, c)            -> d
          [] Located(d, c) /\ focused /\ d.focus # c  -> ChangeFocus(u, c)
          [] Located(d, c) /\ ~focused /\ d.focus = c ->
                 [SetFocused(u, c, FALSE) EXCEPT !.focus = NoClass]
          [] Located(d, c) /\ (focused <=> d.focus = c) -> u
    BY DEF ProcessStateChanged, b
  <2> HIDE DEF u, e
  <2>l. \A x \in Classes : /\ Located(u, x) <=> d.map[x] # "none"
                           /\ Located(d, x) <=> d.map[x] # "none"
    BY <2>3, <2>4, GoodParts, LocatedIffMapped DEF Sound
  <2>6. \A x \in Classes :
          /\ WinsOf(u, x) = WinsOf(d, x)
          /\ ActiveOf(u, x) = IF x = c /\ w \in WinsOf(d, x)
                               THEN WithActive(ActiveOf(d, x), w, focused) ELSE ActiveOf(d, x)
    BY <2>2, <2>4, <2>l DEF WinsOf, ActiveOf, SameClass
  <2>7. CASE focused /\ d.focus # c
    <3>1. e = ChangeFocus(u, c)
      BY <1>2, <2>5, <2>7
    <3>2. /\ GoodDock(e) /\ e.map = u.map /\ SameWins(u, e)
          /\ e.focus = IF u.map[c] # "none" THEN c ELSE NoClass
      BY <2>3, <3>1, ChangeFocusLemma
    <3> QED BY <2>1, <2>4, <2>6, <2>7, <3>2 DEF SameWins, ChangesState, e
  <2>8. CASE ~focused /\ d.focus = c
    <3> DEFINE m == SetFocused(u, c, FALSE)
    <3>1. e = [m EXCEPT !.focus = NoClass]
      BY <1>2, <2>5, <2>8
    <3>2. Sound(m) /\ m.map = u.map /\ SameWins(u, m)
      BY <2>1, <2>3, <2>4, SetFocusedLemma
    <3> HIDE DEF m
    <3>3. Sound(e) /\ e.map = m.map /\ e.focus = NoClass /\ SameWins(m, e)
      BY <3>1, <3>2, RefocusSound
    <3>4. ChangesState(d, e, c, w, focused)
      BY <2>1, <2>4, <2>6, <2>8, <3>2, <3>3 DEF SameWins, ChangesState
    <3> QED BY <2>4, <3>2, <3>3, <3>4 DEF GoodDock, PointedBucketIsFocused, e
  <2>9. CASE focused <=> d.focus = c
    <3>1. e = u
      BY <1>2, <2>5, <2>9
    <3>2. PointedBucketIsFocused(u)
      BY <2>2, <2>4, <2>l, GoodParts DEF PointedBucketIsFocused, SameClass
    <3>3. ChangesState(d, u, c, w, focused)
      BY <2>1, <2>4, <2>6, <2>9 DEF ChangesState
    <3> QED BY <2>3, <2>4, <3>1, <3>2, <3>3 DEF GoodDock, e
  <2> QED BY <2>7, <2>8, <2>9
<1> QED BY <1>1, <1>2

LEMMA ActiveAreShown ==
    ASSUME NEW d, GoodDock(d), NEW c \in Classes
    PROVE  ActiveOf(d, c) \subseteq WinsOf(d, c)
<1>1. d.map[c] # "none" => FindBucket(d, c).active \subseteq FindBucket(d, c).wins
  BY GoodParts DEF Kept
<1> QED BY <1>1 DEF ActiveOf, WinsOf, Located

-----------------------------------------------------------------------------
(* The invariant *)

LEMMA GoodDockMeans ==
    ASSUME NEW d
    PROVE  GoodDock(d) <=> d \in Dock /\ ConsistentDock(d) /\ PointedBucketIsFocused(d)
BY DEF GoodDock, Sound, WellFormed, ConsistentDock

LEMMA NewDockGood == GoodDock(NewDock)
<1>1. /\ NewDock \in Dock /\ NewDock.focus = NoClass
      /\ \A l \in Lists : NewDock.list[l] = <<>> /\ DOMAIN NewDock.list[l] = {}
      /\ \A c \in Classes : NewDock.map[c] = "none"
  <2>1. <<>> \in Seq(Bucket) /\ DOMAIN <<>> = {}
    OBVIOUS
  <2> QED BY <2>1 DEF NewDock, Dock
<1>2. "free" \in Lists
  BY DEF Lists
<1> QED BY <1>1, <1>2 DEF GoodDock, Sound, WellFormed, Distinct, Indexed, Found,
                          Occupied, PointedBucketIsFocused

LEMMA PinnedClassesTyped ==
    ASSUME NEW d \in Dock
    PROVE  PinnedClasses(d) \in Seq(Classes)
<1>1. /\ Len(d.list["pinned"]) \in Nat
      /\ DOMAIN d.list["pinned"] = 1 .. Len(d.list["pinned"])
      /\ \A i \in DOMAIN d.list["pinned"] : d.list["pinned"][i].class \in Classes
  BY ListTyped DEF Lists, Bucket
<1> QED BY <1>1 DEF PinnedClasses

\* Removing or adding a pending save keeps the queue of saves typed.
LEMMA SavesTyped ==
    ASSUME NEW s \in Seq(Seq(Classes))
    PROVE  /\ \A i \in DOMAIN s : s[i] \in Seq(Classes) /\ RemoveAt(s, i) \in Seq(Seq(Classes))
           /\ \A p \in Seq(Classes) : Append(s, p) \in Seq(Seq(Classes))
<1>1. DOMAIN s = 1 .. Len(s)
  BY LenProperties
<1> QED BY <1>1, RemoveAtProperties, ElementOfSeq, AppendProperties

LEMMA InitIInv == Init => IInv
<1> SUFFICES ASSUME Init PROVE IInv
  OBVIOUS
<1>1. GoodDock(dock)
  BY NewDockGood DEF Init
<1>2. file \in Seq(Classes) /\ saves \in Seq(Seq(Classes))
  BY FilesAssumption DEF Init
<1>3. TypeOK
  BY <1>1, <1>2, GoodDockMeans DEF Init, TypeOK, Menu
<1> QED BY <1>1, <1>3, GoodDockMeans DEF Init, IInv, Consistent, FocusPointerValid,
                                         MenuMatchesDock, OneGesture

\* The position of a drop target lies within the list the source goes to, also
\* when the source leaves that list first.
LEMMA TargetInRange ==
    ASSUME NEW d, GoodDock(d), NEW t \in Classes, d.map[t] \in Lists, NEW c
    PROVE  Index(d, t) \in 0 .. Len(d.list[d.map[t]]) + (IF d.map[t] = d.map[c] THEN 0 ELSE 1)
<1>1. Index(d, t) \in DOMAIN d.list[d.map[t]]
  BY FindsBucket, GoodParts DEF Lists
<1>2. /\ Len(d.list[d.map[t]]) \in Nat
      /\ DOMAIN d.list[d.map[t]] = 1 .. Len(d.list[d.map[t]])
  BY ListTyped, GoodParts
<1>3. /\ Index(d, t) \in 0 .. Len(d.list[d.map[t]]) + 1
      /\ Index(d, t) \in 0 .. Len(d.list[d.map[t]]) + 0
  BY <1>1, <1>2
<1> QED BY <1>3

\* A menu that shows what the map says
LEMMA MenuByMap ==
    ASSUME NEW d, GoodDock(d), NEW c \in Classes
    PROVE  /\ Located(d, c) <=> d.map[c] # "none"
           /\ d.map[c] \in {"pinned", "free", "none"}
BY GoodParts DEF Lists

LEMMA StepIInv == IInv /\ [Next]_vars => IInv'
<1> SUFFICES ASSUME IInv, [Next]_vars PROVE IInv'
  OBVIOUS
<1> USE DEF IInv
<1>0. /\ GoodDock(dock) /\ announced \in SUBSET Windows /\ toLoad \in Seq(Classes)
      /\ menu \in Menu /\ drag \in Classes \cup {NoClass}
      /\ file \in Seq(Classes) /\ saves \in Seq(Seq(Classes))
      /\ menu # NoMenu => menu.class \in Classes
  BY GoodDockMeans DEF TypeOK, Consistent, FocusPointerValid, Menu
<1>a. ASSUME GoodDock(dock'),
             announced' \in SUBSET Windows, toLoad' \in Seq(Classes),
             menu' \in Menu, drag' \in Classes \cup {NoClass},
             file' \in Seq(Classes), saves' \in Seq(Seq(Classes)),
             MenuMatchesDock', OneGesture'
      PROVE  IInv'
  BY <1>a, GoodDockMeans DEF TypeOK, Consistent, FocusPointerValid
<1>1. CASE LoadNext
  <2>1. Head(toLoad) \in Classes /\ Tail(toLoad) \in Seq(Classes)
    BY <1>0, <1>1, HeadTailProperties DEF LoadNext
  <2>2. GoodDock(dock')
    BY <1>0, <1>1, <2>1, PinInRamLemma DEF LoadNext
  <2>3. menu = NoMenu /\ drag = NoClass
    BY <1>1 DEF LoadNext, OneGesture, Running
  <2> QED BY <1>0, <1>1, <1>a, <2>1, <2>2, <2>3 DEF LoadNext, MenuMatchesDock, OneGesture
<1>2. ASSUME NEW c \in Classes, NEW w \in Windows, NEW focused \in BOOLEAN,
             Opened(c, w, focused)
      PROVE  IInv'
  <2>1. /\ GoodDock(dock')
        /\ dock'.map = IF dock.map[c] = "none" THEN [dock.map EXCEPT ![c] = "free"]
                                               ELSE dock.map
    BY <1>0, <1>2, AddAppLemma DEF Opened
  <2>2. \A x \in Classes : dock.map[x] # "none" => dock'.map[x] = dock.map[x]
    BY <1>0, <2>1, GoodParts
  <2>3. MenuMatchesDock'
    BY <1>0, <1>2, <2>1, <2>2, MenuByMap DEF Opened, MenuMatchesDock, IsPinned
  <2> QED BY <1>0, <1>2, <1>a, <2>1, <2>3 DEF Opened, OneGesture, Running
<1>3. ASSUME NEW c \in Classes, NEW w \in Windows, NEW focused \in BOOLEAN,
             StateChanged(c, w, focused)
      PROVE  IInv'
  <2>1. GoodDock(dock') /\ dock'.map = dock.map
    BY <1>0, <1>3, ProcessStateChangedLemma DEF StateChanged
  <2>2. MenuMatchesDock'
    BY <1>0, <1>3, <2>1, MenuByMap DEF StateChanged, MenuMatchesDock, IsPinned
  <2> QED BY <1>0, <1>3, <1>a, <2>1, <2>2 DEF StateChanged, OneGesture, Running
<1>4. ASSUME NEW c \in Classes, NEW w \in Windows, Closed(c, w)
      PROVE  IInv'
  <2>1. PICK f \in IF Located(dock, c) THEN NextFocus(FindBucket(dock, c), w) ELSE {NoWindow} :
             dock' = RemoveApp(dock, c, w, f)
    BY <1>4 DEF Closed
  <2>2. /\ GoodDock(dock')
        /\ \/ dock'.map = dock.map
           \/ dock'.map = [dock.map EXCEPT ![c] = "none"]
    <3>1. Located(dock, c) => f \in NextFocus(FindBucket(dock, c), w)
      OBVIOUS
    <3>2. GoodDock(dock') /\ LosesWindow(dock, dock', c, w)
      BY <1>0, <2>1, <3>1, RemoveAppLemma
    <3> QED BY <3>2 DEF LosesWindow
  <2>3. \A x \in Classes : dock'.map[x] # "none" => dock'.map[x] = dock.map[x]
    BY <1>0, <2>2, GoodParts
  <2>4. menu' \in Menu /\ MenuMatchesDock'
    BY <1>0, <1>4, <2>2, <2>3, MenuByMap DEF Closed, DismissedWith, MenuMatchesDock, IsPinned, Menu
  <2>5. OneGesture'
    BY <1>4 DEF Closed, DismissedWith, OneGesture, Running
  <2> QED BY <1>0, <1>4, <1>a, <2>2, <2>4, <2>5 DEF Closed
<1>5. ASSUME NEW c \in Classes, RightClick(c)
      PROVE  IInv'
  <2>1. menu' \in Menu /\ IsPinned(dock, c) \in BOOLEAN
    BY <1>5 DEF RightClick, Menu, IsPinned
  <2> QED BY <1>0, <1>5, <1>a, <2>1 DEF RightClick, MenuMatchesDock, OneGesture, Running
<1>6. CASE DismissMenu
  BY <1>0, <1>6, <1>a DEF DismissMenu, MenuMatchesDock, OneGesture, Running, Menu
<1>7. CASE ClickPin
  <2>1. GoodDock(dock')
    BY <1>0, <1>7, PinInRamLemma DEF ClickPin
  <2>2. saves' \in Seq(Seq(Classes))
    BY <1>0, <1>7, <2>1, GoodDockMeans, PinnedClassesTyped, SavesTyped DEF ClickPin, SavePinned
  <2> QED BY <1>0, <1>7, <1>a, <2>1, <2>2 
          DEF ClickPin, MenuMatchesDock, OneGesture, Running, Menu
<1>8. CASE ClickUnpin
  <2>1. GoodDock(dock')
    BY <1>0, <1>8, UnpinLemma DEF ClickUnpin
  <2>2. saves' \in Seq(Seq(Classes))
    BY <1>0, <1>8, <2>1, GoodDockMeans, PinnedClassesTyped, SavesTyped DEF ClickUnpin, SavePinned
  <2> QED BY <1>0, <1>8, <1>a, <2>1, <2>2 
          DEF ClickUnpin, MenuMatchesDock, OneGesture, Running, Menu
<1>9. ASSUME NEW c \in Classes, PrepareDrag(c)
      PROVE  IInv'
  BY <1>0, <1>9, <1>a DEF PrepareDrag, MenuMatchesDock, OneGesture, Running
<1>10. CASE CancelDrag
  BY <1>0, <1>10, <1>a DEF CancelDrag, MenuMatchesDock, OneGesture, Running
<1>11. ASSUME NEW t \in Classes, Drop(t)
       PROVE  IInv'
  <2>1. drag \in Classes /\ dock.map[t] \in Lists
    BY <1>0, <1>11, FindsBucket, GoodParts DEF Drop
  <2>2. Index(dock, t) \in 0 .. Len(dock.list[dock.map[t]])
                                + (IF dock.map[t] = dock.map[drag] THEN 0 ELSE 1)
    BY <1>0, <2>1, TargetInRange
  <2>3. GoodDock(dock')
    BY <1>0, <1>11, <2>1, <2>2, MoveBucketLemma DEF Drop
  <2>4. menu = NoMenu /\ Running
    BY <1>11 DEF Drop, OneGesture
  <2> QED BY <1>0, <1>11, <1>a, <2>3, <2>4 DEF Drop, MenuMatchesDock, OneGesture
<1>12. ASSUME NEW i \in DOMAIN saves, CompleteSave(i) \/ FailSave(i)
       PROVE  IInv'
  <2>1. saves' \in Seq(Seq(Classes)) /\ file' \in Seq(Classes)
    BY <1>0, <1>12, SavesTyped DEF CompleteSave, FailSave, WithoutSave
  <2> QED BY <1>0, <1>12, <1>a, <2>1 
          DEF CompleteSave, FailSave, MenuMatchesDock, OneGesture, Running
<1>13. CASE Restart
  <2>1. GoodDock(dock') /\ saves' \in Seq(Seq(Classes))
    BY <1>13, NewDockGood DEF Restart
  <2> QED BY <1>0, <1>13, <1>a, <2>1 DEF Restart, MenuMatchesDock, OneGesture, Menu
<1>14. CASE UNCHANGED vars
  BY <1>14 DEF vars, TypeOK, Consistent, FocusPointerValid, MenuMatchesDock, OneGesture, Running
<1> QED BY <1>1, <1>2, <1>3, <1>4, <1>5, <1>6, <1>7, <1>8, <1>9, <1>10, <1>11, <1>12,
           <1>13, <1>14 DEF Next, WindowEvent, UseMenu, UseDrag

\* The inductive invariant holds in every state of the dock, whatever the order
\* of window events, clicks, drags, completed or failed saves and crashes.
THEOREM DockInvariant == Spec => []IInv
BY InitIInv, StepIInv, PTL DEF Spec

\* Every variable of the dock stays in its type.
THEOREM TypeCorrect == Spec => []TypeOK
<1>1. IInv => TypeOK
  BY DEF IInv
<1> QED BY <1>1, DockInvariant, PTL

\* The map, the lists and the running flags agree (manager.rs:125-416).
THEOREM AlwaysConsistent == Spec => []Consistent
<1>1. IInv => Consistent
  BY DEF IInv
<1> QED BY <1>1, DockInvariant, PTL

\* bucket_focused names a bucket that exists and is flagged (manager.rs:677-692).
THEOREM AlwaysFocusPointerValid == Spec => []FocusPointerValid
<1>1. IInv => FocusPointerValid
  BY DEF IInv
<1> QED BY <1>1, DockInvariant, PTL

\* The pin button never acts on a stale flag (popover_menu.rs:138-152).
THEOREM AlwaysMenuMatchesDock == Spec => []MenuMatchesDock
<1>1. IInv => MenuMatchesDock
  BY DEF IInv
<1> QED BY <1>1, DockInvariant, PTL

\* What a move does to the places of the buckets
LEMMA MovePlaces ==
    ASSUME NEW d, GoodDock(d), NEW c \in Classes, Located(d, c), NEW l \in Lists,
           NEW i \in 1 .. Len(d.list[l]) + (IF l = d.map[c] THEN 0 ELSE 1),
           l = "free" => FindBucket(d, c).wins # {}
    PROVE  /\ MoveBucket(d, c, i, l).map[c] = l
           /\ Index(MoveBucket(d, c, i, l), c) = i
           /\ FindBucket(MoveBucket(d, c, i, l), c) = FindBucket(d, c)
           /\ SameOthers(d, MoveBucket(d, c, i, l), c)
<1> DEFINE e == MoveBucket(d, c, i, l)
           r == RemoveBucket(d, c)
           b == FindBucket(d, c)
<1>1. e = InsertBucket(r, b, i, l)
  BY DEF MoveBucket
<1> HIDE DEF e, r
<1>2. /\ WellFormed(d) /\ d.map[c] # "none" /\ b \in Bucket /\ b.class = c
      /\ d.map \in [Classes -> Lists \cup {"none"}]
  BY GoodParts, FindsBucket
<1>3. /\ WellFormed(r) /\ r.map = [d.map EXCEPT ![c] = "none"]
      /\ \A x \in Classes \ {c} : SameClass(d, r, x)
      /\ SameOrder(d, r, c)
      /\ \A m \in Lists : Len(r.list[m]) =
            IF m = d.map[c] THEN Len(d.list[m]) - 1 ELSE Len(d.list[m])
  BY <1>2, RemoveBucketLemma DEF r
<1>4. i \in 0 .. Len(r.list[l]) + 1 /\ i # AtEnd
  <2>1. Len(d.list[l]) \in Nat
    BY <1>2, ListTyped DEF WellFormed
  <2>2. CASE l = d.map[c]
    <3>1. Len(r.list[l]) = Len(d.list[l]) - 1
      BY <1>3, <2>2
    <3>2. i \in 1 .. Len(d.list[l]) + 0
      BY <2>2
    <3> QED BY <2>1, <3>1, <3>2 DEF AtEnd
  <2>3. CASE l # d.map[c]
    <3>1. Len(r.list[l]) = Len(d.list[l]) /\ i \in 1 .. Len(d.list[l]) + 1
      BY <1>3, <2>1, <2>3
    <3> QED BY <2>1, <3>1 DEF AtEnd
  <2> QED BY <2>2, <2>3
<1>5. /\ WellFormed(e) /\ e.map = [r.map EXCEPT ![c] = l]
      /\ FindBucket(e, c) = b /\ Index(e, c) = i
      /\ \A x \in Classes \ {c} : SameClass(r, e, x)
      /\ SameOrder(r, e, c)
  <2>1. r.map[b.class] = "none"
    BY <1>2, <1>3
  <2> HIDE DEF b
  <2> QED BY <1>1, <1>2, <1>3, <1>4, <2>1, InsertBucketLemma DEF b
<1>6. \A x \in Classes : /\ r.map[x] = IF x = c THEN "none" ELSE d.map[x]
                         /\ e.map[x] = IF x = c THEN l ELSE d.map[x]
  BY <1>2, <1>3, <1>5
<1>7. \A x \in Classes : Located(d, x) <=> d.map[x] # "none"
  BY <1>2, LocatedIffMapped
<1>8. SameOthers(d, e, c)
  <2>1. ASSUME NEW x \in Classes \ {c}
        PROVE  e.map[x] = d.map[x] /\ (Located(d, x) => FindBucket(e, x) = FindBucket(d, x))
    BY <1>3, <1>5, <1>6, <1>7 DEF SameClass
  <2>2. ASSUME NEW x \in Classes \ {c}, NEW y \in Classes \ {c},
               Located(d, x), d.map[x] = d.map[y]
        PROVE  Index(e, x) < Index(e, y) <=> Index(d, x) < Index(d, y)
    <3>1. d.map[x] # "none" /\ r.map[x] # "none" /\ r.map[y] = r.map[x]
      BY <1>6, <1>7, <2>2
    <3> QED BY <1>3, <1>5, <2>2, <3>1 DEF SameOrder
  <2> QED BY <2>1, <2>2 DEF SameOthers
<1> QED BY <1>5, <1>6, <1>8 DEF e

\* A drop puts the source exactly where the target stood, although the removal of
\* the source may have shifted the target, and the order of all other buckets is
\* as before (manager.rs:255-259, drag_and_drop.rs:94-103).
THEOREM AlwaysDropTakesTargetPlace == Spec => DropTakesTargetPlace
<1>1. ASSUME IInv, NEW t \in Classes, Drop(t), Located(dock, drag),
             WinsOf(dock, drag) # {} \/ IsPinned(dock, t)
      PROVE  TakesPlace(dock, dock', drag, t) /\ SameOthers(dock, dock', drag)
  <2>1. GoodDock(dock) /\ drag \in Classes
    BY <1>1, GoodDockMeans DEF IInv, TypeOK, Consistent, FocusPointerValid, Drop
  <2>2. /\ dock.map[t] \in Lists
        /\ Index(dock, t) \in DOMAIN dock.list[dock.map[t]]
        /\ Len(dock.list[dock.map[t]]) \in Nat
        /\ DOMAIN dock.list[dock.map[t]] = 1 .. Len(dock.list[dock.map[t]])
    <3>1. dock.map[t] # "none"
      BY <1>1, <2>1, GoodParts, LocatedIffMapped DEF Drop
    <3>2. dock.map[t] \in Lists /\ Index(dock, t) \in DOMAIN dock.list[dock.map[t]]
      BY <2>1, <3>1, GoodParts, FindsBucket
    <3> QED BY <2>1, <3>2, GoodParts, ListTyped
  <2>3. Index(dock, t) \in 1 .. Len(dock.list[dock.map[t]])
                                + (IF dock.map[t] = dock.map[drag] THEN 0 ELSE 1)
    <3>1. /\ Index(dock, t) \in 1 .. Len(dock.list[dock.map[t]]) + 1
          /\ Index(dock, t) \in 1 .. Len(dock.list[dock.map[t]]) + 0
      BY <2>2
    <3> QED BY <3>1
  <2>4. dock.map[t] = "free" => FindBucket(dock, drag).wins # {}
    BY <1>1 DEF WinsOf, IsPinned
  <2> PICK i, l : i = Index(dock, t) /\ l = dock.map[t]
    OBVIOUS
  <2>5. dock' = MoveBucket(dock, drag, i, l)
    BY <1>1 DEF Drop
  <2>6. /\ MoveBucket(dock, drag, i, l).map[drag] = l
        /\ Index(MoveBucket(dock, drag, i, l), drag) = i
        /\ FindBucket(MoveBucket(dock, drag, i, l), drag) = FindBucket(dock, drag)
        /\ SameOthers(dock, MoveBucket(dock, drag, i, l), drag)
    <3>1. /\ l \in Lists
          /\ l = "free" => FindBucket(dock, drag).wins # {}
          /\ i \in 1 .. Len(dock.list[l]) + (IF l = dock.map[drag] THEN 0 ELSE 1)
      BY <2>2, <2>3, <2>4
    <3> QED BY ONLY <1>1, <2>1, <3>1, MovePlaces
  <2> QED BY <2>5, <2>6 DEF TakesPlace
<1>2. IInv => DropMoves
  BY <1>1 DEF DropMoves
<1> QED BY <1>2, DockInvariant, PTL DEF DropTakesTargetPlace

-----------------------------------------------------------------------------
(* The dock implements the taskbar. *)

\* The state of the taskbar that a state of the dock stands for.
Pins == PinnedSet(dock) \cup ToSet(toLoad)
Open == [c \in Classes |-> WinsOf(dock, c)]
Writing == {ToSet(saves[i]) : i \in DOMAIN saves}

\* What save_pinned_buckets snapshots is the set of classes the map calls pinned.
LEMMA SnapshotIsPinnedSet ==
    ASSUME NEW d, GoodDock(d)
    PROVE  ToSet(PinnedClasses(d)) = PinnedSet(d)
<1> DEFINE s == d.list["pinned"]
<1>1. "pinned" \in Lists /\ "pinned" # "none"
  BY DEF Lists
<1>2. DOMAIN PinnedClasses(d) = DOMAIN s /\ \A i \in DOMAIN s : PinnedClasses(d)[i] = s[i].class
  BY DEF PinnedClasses
<1>3. ASSUME NEW i \in DOMAIN s
      PROVE  s[i].class \in PinnedSet(d)
  BY <1>1, GoodParts, IndexUnique DEF PinnedSet, IsPinned
<1>4. ASSUME NEW c \in PinnedSet(d)
      PROVE  \E i \in DOMAIN s : s[i].class = c
  <2>1. c \in Classes /\ d.map[c] = "pinned"
    BY DEF PinnedSet, IsPinned
  <2> QED BY <1>1, <2>1, GoodParts, FindsBucket
<1> QED BY <1>2, <1>3, <1>4 DEF ToSet

\* The pins in flight after one more snapshot, and after one save has ended.
LEMMA WritingAppend ==
    ASSUME NEW s \in Seq(Seq(Classes)), NEW p \in Seq(Classes)
    PROVE  {ToSet(Append(s, p)[i]) : i \in DOMAIN Append(s, p)} =
              {ToSet(s[i]) : i \in DOMAIN s} \cup {ToSet(p)}
<1>1. /\ Len(s) \in Nat /\ DOMAIN s = 1 .. Len(s)
      /\ DOMAIN Append(s, p) = 1 .. (Len(s) + 1)
      /\ \A i \in 1 .. Len(s) : Append(s, p)[i] = s[i]
      /\ Append(s, p)[Len(s) + 1] = p
  BY LenProperties, AppendProperties
<1>2. DOMAIN Append(s, p) = DOMAIN s \cup {Len(s) + 1}
  BY <1>1
<1> QED BY <1>1, <1>2

LEMMA WritingRemove ==
    ASSUME NEW s \in Seq(Seq(Classes)), NEW i \in DOMAIN s
    PROVE  {ToSet(RemoveAt(s, i)[j]) : j \in DOMAIN RemoveAt(s, i)} \in
              {{ToSet(s[j]) : j \in DOMAIN s},
               {ToSet(s[j]) : j \in DOMAIN s} \ {ToSet(s[i])}}
<1> DEFINE t == RemoveAt(s, i)
           before == {ToSet(s[j]) : j \in DOMAIN s}
           after == {ToSet(t[j]) : j \in DOMAIN t}
<1>1. Len(s) \in Nat /\ DOMAIN s = 1 .. Len(s) /\ i \in 1 .. Len(s)
  BY LenProperties
<1>2. /\ DOMAIN t = 1 .. (Len(s) - 1)
      /\ \A j \in 1 .. (Len(s) - 1) : t[j] = IF j < i THEN s[j] ELSE s[j + 1]
  <2>1. /\ t \in Seq(Seq(Classes)) /\ Len(t) = Len(s) - 1
        /\ \A j \in 1 .. (Len(s) - 1) : t[j] = IF j < i THEN s[j] ELSE s[j + 1]
    BY <1>1, RemoveAtProperties
  <2> HIDE DEF t
  <2> QED BY <2>1, LenProperties
<1> HIDE DEF t
<1>3. \A j \in DOMAIN t : ToSet(t[j]) \in before
  <2>1. \A j \in DOMAIN t : (j < i => j \in DOMAIN s) /\ (~(j < i) => j + 1 \in DOMAIN s)
    BY <1>1, <1>2
  <2> QED BY <1>2, <2>1
<1>4. ASSUME NEW j \in DOMAIN s, j # i
      PROVE  ToSet(s[j]) \in after
  <2>1. CASE j < i
    <3>1. j \in DOMAIN t /\ t[j] = s[j]
      BY <2>1, <1>1, <1>2
    <3> QED BY <3>1
  <2>2. CASE ~(j < i)
    <3>1. j - 1 \in DOMAIN t /\ ~(j - 1 < i) /\ (j - 1) + 1 = j
      BY <1>4, <2>2, <1>1, <1>2
    <3>2. t[j - 1] = s[j]
      BY <3>1, <1>2
    <3> QED BY <3>1, <3>2
  <2> QED BY <2>1, <2>2
<1>5. after \subseteq before /\ \A x \in before : x # ToSet(s[i]) => x \in after
  BY <1>3, <1>4
<1>6. after = before \/ after = before \ {ToSet(s[i])}
  BY <1>5
<1> QED BY <1>6 DEF t

LEMMA PinnedSetByMap ==
    ASSUME NEW d, NEW e, NEW c \in Classes, NEW v,
           d.map \in [Classes -> Lists \cup {"none"}],
           e.map = [d.map EXCEPT ![c] = v]
    PROVE  PinnedSet(e) = IF v = "pinned" THEN PinnedSet(d) \cup {c} ELSE PinnedSet(d) \ {c}
<1>1. \A x \in Classes : e.map[x] = IF x = c THEN v ELSE d.map[x]
  OBVIOUS
<1> QED BY <1>1 DEF PinnedSet, IsPinned

LEMMA BoardParts ==
    /\ Board!Init <=> /\ ToSet(file) \in {ToSet(f) : f \in InitFiles}
                      /\ Pins = ToSet(file)
                      /\ Open = [c \in Classes |-> {}]
                      /\ Writing = {}
    /\ UNCHANGED <<Pins, Open, ToSet(file), Writing>> <=> UNCHANGED Board!vars
BY DEF Board!Init, Board!vars, Pins, Open, Writing

LEMMA InitRefines == Init => Board!Init
<1> SUFFICES ASSUME Init PROVE Board!Init
  OBVIOUS
<1>1. /\ PinnedSet(dock) = {}
      /\ \A c \in Classes : WinsOf(dock, c) = {}
  BY DEF Init, NewDock, PinnedSet, IsPinned, WinsOf, Located
<1>2. Writing = {}
  BY DEF Init, Writing
<1> QED BY <1>1, <1>2, BoardParts DEF Init, Pins, Open

\* Every step of the dock is a step of the taskbar or leaves it as it is.
LEMMA StepRefines == IInv /\ [Next]_vars => [Board!Next]_(Board!vars)
<1> SUFFICES ASSUME IInv, [Next]_vars PROVE [Board!Next]_(Board!vars)
  OBVIOUS
<1>0. /\ GoodDock(dock) /\ dock.map \in [Classes -> Lists \cup {"none"}]
      /\ toLoad \in Seq(Classes) /\ drag \in Classes \cup {NoClass}
      /\ file \in Seq(Classes) /\ saves \in Seq(Seq(Classes))
      /\ menu # NoMenu => menu.class \in Classes
  BY GoodDockMeans, GoodParts DEF IInv, TypeOK, Consistent, FocusPointerValid, Menu
<1>s. ASSUME Pins' = Pins, Open' = Open, ToSet(file)' = ToSet(file), Writing' = Writing
      PROVE  [Board!Next]_(Board!vars)
  BY <1>s DEF Board!vars, Pins, Open, Writing
<1>o. ASSUME SameWins(dock, dock')
      PROVE  Open' = Open
  BY <1>o DEF SameWins, Open
<1>l. Running => ToSet(toLoad) = {}
  BY DEF Running, ToSet
<1>1. CASE LoadNext
  <2>1. /\ Head(toLoad) \in Classes
        /\ ToSet(toLoad) = {Head(toLoad)} \cup ToSet(Tail(toLoad))
    <3>1. /\ toLoad # <<>> /\ Len(toLoad) \in Nat \ {0} /\ DOMAIN toLoad = 1 .. Len(toLoad)
          /\ Head(toLoad) = toLoad[1]
      BY <1>0, <1>1, LenProperties, EmptySeq DEF LoadNext
    <3>2. /\ Head(toLoad) \in Classes
          /\ DOMAIN Tail(toLoad) = 1 .. (Len(toLoad) - 1)
          /\ \A i \in 1 .. (Len(toLoad) - 1) : Tail(toLoad)[i] = toLoad[i + 1]
      BY <1>0, <3>1, HeadTailProperties, LenProperties
    <3>3. \A j \in DOMAIN toLoad : j = 1 \/ (j - 1 \in DOMAIN Tail(toLoad) /\ (j - 1) + 1 = j)
      BY <3>1, <3>2
    <3>4. \A j \in DOMAIN toLoad : j = 1 \/ \E i \in DOMAIN Tail(toLoad) : Tail(toLoad)[i] = toLoad[j]
      BY <3>2, <3>3
    <3>5. \A i \in DOMAIN Tail(toLoad) : i + 1 \in DOMAIN toLoad /\ 1 \in DOMAIN toLoad
      BY <3>1, <3>2
    <3>6. 1 \in DOMAIN toLoad
      BY <3>1
    <3> QED BY <3>1, <3>2, <3>4, <3>5, <3>6 DEF ToSet
  <2>2. /\ dock'.map = [dock.map EXCEPT ![Head(toLoad)] = "pinned"]
        /\ SameWins(dock, dock')
    BY <1>0, <1>1, <2>1, PinInRamLemma DEF LoadNext
  <2>3. PinnedSet(dock') = PinnedSet(dock) \cup {Head(toLoad)}
    BY <1>0, <2>1, <2>2, PinnedSetByMap
  <2>4. Pins' = Pins
    BY <1>1, <2>1, <2>3 DEF LoadNext, Pins
  <2> QED BY <1>1, <1>s, <1>o, <2>2, <2>4 DEF LoadNext, Writing
<1>2. ASSUME NEW c \in Classes, NEW w \in Windows, NEW focused \in BOOLEAN,
             Opened(c, w, focused)
      PROVE  [Board!Next]_(Board!vars)
  <2>1. /\ dock'.map = IF dock.map[c] = "none" THEN [dock.map EXCEPT ![c] = "free"]
                                               ELSE dock.map
        /\ GainsWindow(dock, dock', c, w, focused)
    BY <1>0, <1>2, AddAppLemma DEF Opened
  <2>2. \A x \in Classes : dock'.map[x] = "pinned" <=> dock.map[x] = "pinned"
    BY <1>0, <2>1
  <2>3. Pins' = Pins
    BY <1>2, <2>2 DEF Opened, Pins, PinnedSet, IsPinned
  <2>4. Open' = [Open EXCEPT ![c] = @ \cup {w}]
    BY <2>1 DEF GainsWindow, Open
  <2>5. Board!OpenWindow(c, w)
    BY <1>2, <2>3, <2>4 DEF Opened, Board!OpenWindow, Pins, Open
  <2> QED BY <2>5 DEF Board!Next
<1>3. ASSUME NEW c \in Classes, NEW w \in Windows, NEW focused \in BOOLEAN,
             StateChanged(c, w, focused)
      PROVE  [Board!Next]_(Board!vars)
  <2>1. dock'.map = dock.map /\ ChangesState(dock, dock', c, w, focused)
    BY <1>0, <1>3, ProcessStateChangedLemma DEF StateChanged
  <2>3. Open' = Open
    BY <2>1 DEF ChangesState, Open
  <2>2. Pins' = Pins
    BY <1>3, <2>1 DEF StateChanged, Pins, PinnedSet, IsPinned
  <2> QED BY <1>3, <1>s, <2>2, <2>3 DEF StateChanged, Writing
<1>4. ASSUME NEW c \in Classes, NEW w \in Windows, Closed(c, w)
      PROVE  [Board!Next]_(Board!vars)
  <2>1. PICK f \in IF Located(dock, c) THEN NextFocus(FindBucket(dock, c), w) ELSE {NoWindow} :
             dock' = RemoveApp(dock, c, w, f)
    BY <1>4 DEF Closed
  <2>2. Located(dock, c) => f \in NextFocus(FindBucket(dock, c), w)
    OBVIOUS
  <2>3. /\ \A x \in Classes : dock'.map[x] = "pinned" <=> dock.map[x] = "pinned"
        /\ \A x \in Classes : WinsOf(dock', x) =
              IF x = c THEN WinsOf(dock, x) \ {w} ELSE WinsOf(dock, x)
    <3>1. LosesWindow(dock, dock', c, w)
      BY <1>0, <2>1, <2>2, RemoveAppLemma
    <3> QED BY <1>0, <3>1 DEF LosesWindow
  <2>4. Pins' = Pins
    BY <1>4, <2>3 DEF Closed, Pins, PinnedSet, IsPinned
  <2>5. Open' = [Open EXCEPT ![c] = @ \ {w}]
    BY <2>3 DEF Open
  <2>6. Board!CloseWindow(c, w)
    BY <1>4, <2>4, <2>5 DEF Closed, Board!CloseWindow, Pins, Open
  <2> QED BY <2>6 DEF Board!Next
<1>5. CASE UNCHANGED <<dock, toLoad, file, saves>>
  BY <1>5, <1>s DEF Pins, Open, Writing
<1>6. ASSUME NEW c \in Classes, NEW v, SameWins(dock, dock'), toLoad' = toLoad,
             dock'.map = [dock.map EXCEPT ![c] = v], Running
      PROVE  /\ Pins = PinnedSet(dock) /\ Pins' = PinnedSet(dock')
             /\ Pins' \in {Pins \cup {c}, Pins \ {c}}
             /\ Open' = Open
  <2>1. PinnedSet(dock') \in {PinnedSet(dock) \cup {c}, PinnedSet(dock) \ {c}}
    <3>1. \A x \in Classes : dock'.map[x] = IF x = c THEN v ELSE dock.map[x]
      BY <1>0, <1>6
    <3>2. CASE v = "pinned"
      BY <3>1, <3>2 DEF PinnedSet, IsPinned
    <3>3. CASE v # "pinned"
      BY <3>1, <3>3 DEF PinnedSet, IsPinned
    <3> QED BY <3>2, <3>3
  <2>2. Pins = PinnedSet(dock) /\ Pins' = PinnedSet(dock')
    BY <1>6, <1>l DEF Pins
  <2> QED BY <1>6, <1>o, <2>1, <2>2
<1>7. ASSUME NEW c \in Classes, Pins = PinnedSet(dock), Pins' = PinnedSet(dock'),
             Pins' \in {Pins \cup {c}, Pins \ {c}}, Open' = Open, GoodDock(dock'),
             file' = file, SavePinned(dock')
      PROVE  [Board!Next]_(Board!vars)
  <2>1. PinnedClasses(dock') \in Seq(Classes) /\ ToSet(PinnedClasses(dock')) = Pins'
    BY <1>7, GoodDockMeans, PinnedClassesTyped, SnapshotIsPinnedSet
  <2>2. Writing' = Writing \cup {Pins'}
    <3> DEFINE s == Append(saves, PinnedClasses(dock'))
    <3>1. {ToSet(s[i]) : i \in DOMAIN s} = Writing \cup {Pins'}
      BY <1>0, <2>1, WritingAppend DEF Writing
    <3>2. saves' = s
      BY <1>7 DEF SavePinned
    <3> HIDE DEF s
    <3> QED BY <3>1, <3>2 DEF Writing
  <2>3. Board!Choose(c)
    BY <1>7, <2>2 DEF Board!Choose, Pins, Open, Writing
  <2> QED BY <2>3 DEF Board!Next
<1>8. CASE ClickPin
  <2> DEFINE c == menu.class
  <2>1. /\ c \in Classes /\ Running /\ GoodDock(dock') /\ SameWins(dock, dock')
        /\ dock'.map = [dock.map EXCEPT ![c] = "pinned"]
    BY <1>0, <1>8, PinInRamLemma DEF ClickPin, IInv, OneGesture
  <2> QED BY <1>6, <1>7, <1>8, <2>1 DEF ClickPin
<1>9. CASE ClickUnpin
  <2> DEFINE c == menu.class
  <2>1. c \in Classes /\ Running /\ IsPinned(dock, c)
    BY <1>0, <1>9 DEF ClickUnpin, IInv, OneGesture, MenuMatchesDock
  <2>2. /\ GoodDock(dock') /\ SameWins(dock, dock')
        /\ dock'.map = [dock.map EXCEPT ![c] = Target(dock, c, "free")]
    BY <1>0, <1>9, <2>1, UnpinLemma DEF ClickUnpin
  <2> QED BY <1>6, <1>7, <1>9, <2>1, <2>2 DEF ClickUnpin
<1>10. ASSUME NEW t \in Classes, Drop(t)
       PROVE  [Board!Next]_(Board!vars)
  <2>1. drag \in Classes /\ dock.map[t] \in Lists /\ Running
    BY <1>0, <1>10, FindsBucket, GoodParts DEF Drop, IInv, OneGesture
  <2>2. Index(dock, t) \in 0 .. Len(dock.list[dock.map[t]])
                                + (IF dock.map[t] = dock.map[drag] THEN 0 ELSE 1)
    BY <1>0, <2>1, TargetInRange
  <2>3. /\ SameWins(dock, dock')
        /\ dock'.map = IF Located(dock, drag)
                       THEN [dock.map EXCEPT ![drag] = Target(dock, drag, dock.map[t])]
                       ELSE dock.map
    <3> DEFINE l == dock.map[t]
               e == MoveBucket(dock, drag, Index(dock, t), l)
    <3>1. SameWins(dock, e)
      BY <1>0, <2>1, <2>2, MoveBucketLemma
    <3>2. e.map = IF Located(dock, drag) THEN [dock.map EXCEPT ![drag] = Target(dock, drag, l)]
                                         ELSE dock.map
      BY <1>0, <2>1, <2>2, MoveBucketLemma
    <3> QED BY <1>10, <3>1, <3>2 DEF Drop
  <2>4. CASE Located(dock, drag)
    <3>1. Pins' \in {Pins \cup {drag}, Pins \ {drag}} /\ Open' = Open
      BY <1>6, <1>10, <2>1, <2>3, <2>4 DEF Drop
    <3>2. Board!Arrange(drag)
      BY <1>10, <3>1 DEF Drop, Board!Arrange, Pins, Open, Writing
    <3> QED BY <2>1, <3>2 DEF Board!Next
  <2>5. CASE ~Located(dock, drag)
    <3>1. Pins' = Pins
      BY <1>10, <2>3, <2>5 DEF Drop, Pins, PinnedSet, IsPinned
    <3> QED BY <1>10, <1>s, <1>o, <2>3, <3>1 DEF Drop, Writing
  <2> QED BY <2>4, <2>5
<1>11. ASSUME NEW i \in DOMAIN saves, CompleteSave(i) \/ FailSave(i)
       PROVE  [Board!Next]_(Board!vars)
  <2> DEFINE p == ToSet(saves[i])
  <2>1. p \in Writing /\ Writing' \in {Writing, Writing \ {p}}
    BY <1>0, <1>11, WritingRemove DEF CompleteSave, FailSave, WithoutSave, Writing
  <2>2. Pins' = Pins /\ Open' = Open
    BY <1>11 DEF CompleteSave, FailSave, Pins, Open
  <2>3. CASE CompleteSave(i)
    <3>1. Board!WriteDone(p)
      BY <2>1, <2>2, <2>3 DEF CompleteSave, Board!WriteDone, Board!Forget, Pins, Open, Writing
    <3> QED BY <2>1, <3>1 DEF Board!Next, Writing
  <2>4. CASE FailSave(i)
    <3>1. Board!WriteFails(p)
      BY <2>1, <2>2, <2>4 DEF FailSave, Board!WriteFails, Board!Forget, Pins, Open, Writing
    <3> QED BY <2>1, <3>1 DEF Board!Next, Writing
  <2> QED BY <1>11, <2>3, <2>4
<1>12. CASE Restart
  <2>1. Pins' = ToSet(file)
    BY <1>12 DEF Restart, Pins, NewDock, PinnedSet, IsPinned
  <2>2. Open' = [c \in Classes |-> {}]
    BY <1>12 DEF Restart, Open, NewDock, WinsOf, Located
  <2>3. Writing' = {}
    BY <1>12 DEF Restart, Writing
  <2>4. Board!Restart
    BY <1>12, <2>1, <2>2, <2>3 DEF Restart, Board!Restart, Pins, Open, Writing
  <2> QED BY <2>4 DEF Board!Next
<1>13. ASSUME NEW c \in Classes, RightClick(c) \/ PrepareDrag(c)
       PROVE  UNCHANGED <<dock, toLoad, file, saves>>
  BY <1>13 DEF RightClick, PrepareDrag
<1>14. ASSUME DismissMenu \/ CancelDrag \/ UNCHANGED vars
       PROVE  UNCHANGED <<dock, toLoad, file, saves>>
  BY <1>14 DEF DismissMenu, CancelDrag, vars
<1> QED BY <1>1, <1>2, <1>3, <1>4, <1>5, <1>8, <1>9, <1>10, <1>11, <1>12, <1>13, <1>14
        DEF Next, WindowEvent, UseMenu, UseDrag

\* The dock implements the taskbar: no window and no pin is lost on the way
\* between the lists, and a restart brings back the pins of the last finished
\* write (manager.rs:229-338, 472-565).
THEOREM DockImplementsTaskbar == Spec => ImplementsTaskbar
<1>1. Spec => []IInv
  BY DockInvariant
<1> QED BY <1>1, InitRefines, StepRefines, PTL DEF Spec, ImplementsTaskbar, Board!Spec

=============================================================================
