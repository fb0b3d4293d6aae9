---------------------------- MODULE Toplevel_proofs ----------------------------
(***************************************************************************)
(* Proofs about Toplevel, for any windows, classes and bounds: whenever    *)
(* the wire is empty the module knows every open window as it is, and      *)
(* holds no other handle than those it could not name.                     *)
(*                                                                         *)
(* The properties speak of an empty wire; the invariant says what is true  *)
(* in between: the last message of each kind about a window is the truth,  *)
(* and if there is none the module knows it already; and a window the      *)
(* module can name but has not reported so has a done on its way.          *)
(***************************************************************************)
EXTENDS Toplevel, SequenceFacts

Message == [msg : {"toplevel", "title", "closed", "done"}, win : Windows]
           \cup [msg : {"app_id"}, win : Windows, class : Classes]
           \cup [msg : {"state"}, win : Windows, focused : BOOLEAN]

\* The messages s holds about window w, those of kind m, and the last of these.
Mentions(s, w) == \E k \in DOMAIN s : s[k].win = w
Has(s, m, w) == \E k \in DOMAIN s : s[k].msg = m /\ s[k].win = w
Latest(s, m, w) ==
    {s[k] : k \in {k \in DOMAIN s :
        /\ s[k].msg = m /\ s[k].win = w
        /\ \A j \in DOMAIN s : s[j].msg = m /\ s[j].win = w => j <= k}}

\* A window is introduced before all else that is said of it.
IntroducedFirst(s) ==
    \A k, j \in DOMAIN s : s[k].msg = "toplevel" /\ s[j].win = s[k].win => k <= j

\* Every batch ends in done.
EndsInDone(s) ==
    \A k \in DOMAIN s :
        \/ s[k].msg = "closed" /\ ~DoneAfterClosed
        \/ \E j \in DOMAIN s : k <= j /\ s[j].msg = "done" /\ s[j].win = s[k].win

Typed ==
    /\ TypeOK
    /\ wire \in Seq(Message)
    /\ IntroducedFirst(wire) /\ EndsInDone(wire)
    /\ active # NoWindow => screen[active].life = "open"

\* Nothing is said of a window before it is mapped.
BornFirst(w) ==
    IF screen[w].life = "unborn" THEN ~Known(w) /\ ~Mentions(wire, w)
    ELSE screen[w].appId \in Classes

\* A window that is still to be introduced will be told in full.
ToldInFull(w) ==
    Has(wire, "toplevel", w) => ~Known(w) /\ Has(wire, "app_id", w) /\ Has(wire, "state", w)

OpenIsKnown(w) ==
    screen[w].life = "open" =>
        /\ ~Has(wire, "closed", w)
        /\ Has(wire, "toplevel", w) \/ (Known(w) /\ pending[w].type # "Closed")

GoneIsClosed(w) ==
    screen[w].life = "gone" /\ (Known(w) \/ Has(wire, "toplevel", w)) =>
        Has(wire, "closed", w) \/ (Known(w) /\ pending[w].type = "Closed")

AppIdArrives(w) ==
    /\ \A x \in Latest(wire, "app_id", w) : x.class = screen[w].appId
    /\ Known(w) /\ ~Has(wire, "app_id", w) => pending[w].appId = screen[w].appId

TitleArrives(w) ==
    /\ Has(wire, "title", w) \/ (Known(w) /\ pending[w].titled) => screen[w].titled
    /\ screen[w].titled /\ (Known(w) \/ Has(wire, "toplevel", w)) =>
         Has(wire, "title", w) \/ (Known(w) /\ pending[w].titled)

FocusArrives(w) ==
    screen[w].life = "open" =>
        /\ \A x \in Latest(wire, "state", w) : x.focused = (w = active)
        /\ Known(w) /\ ~Has(wire, "state", w) => pending[w].focused = (w = active)

\* A window that has been reported can be named; one that can be named and is to
\* be reported as opened or closed has a done to come.
ReportFollows(w) ==
    Known(w) =>
        /\ pending[w].type = "StateChanged" => Described(w)
        /\ pending[w].type = "Opened" /\ Described(w) => Has(wire, "done", w)
        /\ pending[w].type = "Closed" /\ Described(w) /\ DoneAfterClosed => Has(wire, "done", w)

InStep(w) ==
    /\ BornFirst(w) /\ ToldInFull(w) /\ OpenIsKnown(w) /\ GoneIsClosed(w)
    /\ AppIdArrives(w) /\ TitleArrives(w) /\ FocusArrives(w) /\ ReportFollows(w)

\* Nothing has been said of a window that is still to be introduced.
Untold(w) == screen[w].appId \in Classes /\ ~Known(w) /\ ~Mentions(wire, w)

Placed(w) == IF w \in untold THEN Untold(w) ELSE InStep(w)

IInv == Typed /\ \A w \in Windows : Placed(w)

-----------------------------------------------------------------------------
(* Messages *)

LEMMA WireFacts ==
    ASSUME NEW s \in Seq(Message)
    PROVE  /\ Len(s) \in Nat /\ DOMAIN s = 1 .. Len(s)
           /\ \A k \in 1 .. Len(s) : s[k] \in Message /\ s[k].win \in Windows
<1>1. Len(s) \in Nat /\ DOMAIN s = 1 .. Len(s) /\ \A k \in 1 .. Len(s) : s[k] \in Message
  BY LenProperties, ElementOfSeq
<1>2. \A m \in Message : m.win \in Windows
  BY DEF Message
<1> QED BY <1>1, <1>2

LEMMA Joined ==
    ASSUME NEW s \in Seq(Message), NEW b \in Seq(Message)
    PROVE  /\ s \o b \in Seq(Message)
           /\ DOMAIN s = 1 .. Len(s) /\ DOMAIN b = 1 .. Len(b)
           /\ DOMAIN (s \o b) = 1 .. Len(s) + Len(b)
           /\ \A k \in DOMAIN s : k \in DOMAIN (s \o b) /\ (s \o b)[k] = s[k]
           /\ \A k \in DOMAIN b : Len(s) + k \in DOMAIN (s \o b) /\ (s \o b)[Len(s) + k] = b[k]
           /\ \A k \in DOMAIN (s \o b) : k \in DOMAIN s \/ k - Len(s) \in DOMAIN b
<1>1. Len(s) \in Nat /\ DOMAIN s = 1 .. Len(s) /\ Len(b) \in Nat /\ DOMAIN b = 1 .. Len(b)
  BY WireFacts
<1>2. /\ s \o b \in Seq(Message) /\ Len(s \o b) = Len(s) + Len(b)
      /\ \A k \in 1 .. Len(s) + Len(b) :
            (s \o b)[k] = IF k <= Len(s) THEN s[k] ELSE b[k - Len(s)]
  BY ConcatProperties
<1>3. DOMAIN (s \o b) = 1 .. Len(s) + Len(b)
  BY <1>2, LenProperties
<1> DEFINE c == s \o b
           n == Len(s)
           m == Len(b)
<1>4. n \in Nat /\ m \in Nat
  BY <1>1
<1>5. \A k \in 1 .. n + m : c[k] = IF k <= n THEN s[k] ELSE b[k - n]
  BY <1>2
<1> HIDE DEF c, n, m
<1>6. \A k \in 1 .. n : k \in 1 .. n + m /\ c[k] = s[k]
  BY <1>4, <1>5
<1>7. \A k \in 1 .. m : n + k \in 1 .. n + m /\ c[n + k] = b[k]
  <2> SUFFICES ASSUME NEW k \in 1 .. m PROVE n + k \in 1 .. n + m /\ c[n + k] = b[k]
    OBVIOUS
  <2>1. n + k \in 1 .. n + m /\ ~(n + k <= n) /\ (n + k) - n = k
    BY <1>4
  <2> QED BY <2>1, <1>5
<1>8. \A k \in 1 .. n + m : k \in 1 .. n \/ k - n \in 1 .. m
  BY <1>4
<1> QED BY <1>1, <1>2, <1>3, <1>6, <1>7, <1>8 DEF c, n, m

\* What a batch adds to the messages under way
LEMMA SentSays ==
    ASSUME NEW s \in Seq(Message), NEW b \in Seq(Message), NEW w
    PROVE  /\ Mentions(s \o b, w) <=> Mentions(s, w) \/ Mentions(b, w)
           /\ \A m : Has(s \o b, m, w) <=> Has(s, m, w) \/ Has(b, m, w)
           /\ \A m : Latest(s \o b, m, w) \subseteq
                       IF Has(b, m, w) THEN Latest(b, m, w) ELSE Latest(s, m, w)
<1> PICK c, n : c = s \o b /\ n = Len(s)
  OBVIOUS
<1>1. /\ n \in Nat /\ DOMAIN s = 1 .. n /\ DOMAIN b = 1 .. Len(b) /\ Len(b) \in Nat
      /\ \A k \in DOMAIN s : k \in DOMAIN c /\ c[k] = s[k]
      /\ \A k \in DOMAIN b : n + k \in DOMAIN c /\ c[n + k] = b[k]
      /\ \A k \in DOMAIN c : k \in DOMAIN s \/ k - n \in DOMAIN b
      /\ DOMAIN c \subseteq Int
  BY Joined, WireFacts
<1>2. \A k \in DOMAIN c : k \in DOMAIN s \/ \E j \in DOMAIN b : k = n + j
  <2> SUFFICES ASSUME NEW k \in DOMAIN c, k - n \in DOMAIN b PROVE \E j \in DOMAIN b : k = n + j
    BY <1>1
  <2>1. k = n + (k - n)
    BY <1>1
  <2> QED BY <2>1
<1>3. Mentions(c, w) <=> Mentions(s, w) \/ Mentions(b, w)
  <2>1. ASSUME Mentions(c, w) PROVE Mentions(s, w) \/ Mentions(b, w)
    <3>1. PICK k \in DOMAIN c : c[k].win = w
      BY <2>1 DEF Mentions
    <3>2. CASE k \in DOMAIN s
      BY <3>1, <3>2, <1>1 DEF Mentions
    <3>3. CASE \E j \in DOMAIN b : k = n + j
      BY <3>1, <3>3, <1>1 DEF Mentions
    <3> QED BY <3>2, <3>3, <1>2
  <2>2. ASSUME Mentions(s, w) PROVE Mentions(c, w)
    BY <2>2, <1>1 DEF Mentions
  <2>3. ASSUME Mentions(b, w) PROVE Mentions(c, w)
    BY <2>3, <1>1 DEF Mentions
  <2> QED BY <2>1, <2>2, <2>3
<1>4. ASSUME NEW m PROVE Has(c, m, w) <=> Has(s, m, w) \/ Has(b, m, w)
  <2>1. ASSUME Has(c, m, w) PROVE Has(s, m, w) \/ Has(b, m, w)
    <3>1. PICK k \in DOMAIN c : c[k].msg = m /\ c[k].win = w
      BY <2>1 DEF Has
    <3>2. CASE k \in DOMAIN s
      BY <3>1, <3>2, <1>1 DEF Has
    <3>3. CASE \E j \in DOMAIN b : k = n + j
      BY <3>1, <3>3, <1>1 DEF Has
    <3> QED BY <3>2, <3>3, <1>2
  <2>2. ASSUME Has(s, m, w) PROVE Has(c, m, w)
    BY <2>2, <1>1 DEF Has
  <2>3. ASSUME Has(b, m, w) PROVE Has(c, m, w)
    <3>1. PICK j \in DOMAIN b : b[j].msg = m /\ b[j].win = w
      BY <2>3 DEF Has
    <3>2. n + j \in DOMAIN c /\ c[n + j] = b[j]
      BY <1>1
    <3> QED BY <3>1, <3>2 DEF Has
  <2> QED BY <2>1, <2>2, <2>3
<1>5. ASSUME NEW m, NEW x \in Latest(c, m, w)
      PROVE  x \in IF Has(b, m, w) THEN Latest(b, m, w) ELSE Latest(s, m, w)
  <2>1. PICK k \in DOMAIN c : /\ x = c[k] /\ c[k].msg = m /\ c[k].win = w
                              /\ \A j \in DOMAIN c : c[j].msg = m /\ c[j].win = w => j <= k
    BY <1>5 DEF Latest
  <2>2. CASE Has(b, m, w)
    <3>1. PICK i \in DOMAIN b : b[i].msg = m /\ b[i].win = w
      BY <2>2 DEF Has
    <3>2. n + i <= k
      BY <3>1, <2>1, <1>1
    <3>3. k \notin DOMAIN s
      BY <3>2, <1>1
    <3>4. PICK j \in DOMAIN b : k = n + j
      BY <3>3, <1>2
    <3>5. x = b[j] /\ b[j].msg = m /\ b[j].win = w
      BY <3>4, <2>1, <1>1
    <3>6. \A l \in DOMAIN b : b[l].msg = m /\ b[l].win = w => l <= j
      <4> SUFFICES ASSUME NEW l \in DOMAIN b, b[l].msg = m, b[l].win = w PROVE l <= j
        OBVIOUS
      <4>1. n + l <= n + j
        BY <2>1, <3>4, <1>1
      <4> QED BY <4>1, <1>1
    <3>7. x \in Latest(b, m, w)
      BY <3>5, <3>6 DEF Latest
    <3> QED BY <3>7, <2>2
  <2>3. CASE ~Has(b, m, w)
    <3>1. k \in DOMAIN s
      BY <2>1, <2>3, <1>1, <1>2 DEF Has
    <3>2. x = s[k] /\ s[k].msg = m /\ s[k].win = w
      BY <3>1, <2>1, <1>1
    <3>3. \A j \in DOMAIN s : s[j].msg = m /\ s[j].win = w => j <= k
      BY <2>1, <1>1
    <3>4. x \in Latest(s, m, w)
      BY <3>1, <3>2, <3>3 DEF Latest
    <3> QED BY <3>4, <2>3
  <2> QED BY <2>2, <2>3
<1> QED BY <1>3, <1>4, <1>5

LEMMA SentInOrder ==
    ASSUME NEW s \in Seq(Message), NEW b \in Seq(Message),
           IntroducedFirst(s), IntroducedFirst(b), EndsInDone(s), EndsInDone(b),
           \A w : Has(b, "toplevel", w) => ~Mentions(s, w)
    PROVE  IntroducedFirst(s \o b) /\ EndsInDone(s \o b)
<1> PICK c, n : c = s \o b /\ n = Len(s)
  OBVIOUS
<1>1. /\ n \in Nat /\ DOMAIN s = 1 .. n /\ DOMAIN b = 1 .. Len(b) /\ Len(b) \in Nat
      /\ \A k \in DOMAIN s : k \in DOMAIN c /\ c[k] = s[k]
      /\ \A k \in DOMAIN b : n + k \in DOMAIN c /\ c[n + k] = b[k]
      /\ \A k \in DOMAIN c : k \in DOMAIN s \/ k - n \in DOMAIN b
      /\ DOMAIN c \subseteq Int
  BY Joined, WireFacts
<1>2. \A k \in DOMAIN c : k \in DOMAIN s \/ \E j \in DOMAIN b : k = n + j
  <2> SUFFICES ASSUME NEW k \in DOMAIN c, k - n \in DOMAIN b PROVE \E j \in DOMAIN b : k = n + j
    BY <1>1
  <2>1. k = n + (k - n)
    BY <1>1
  <2> QED BY <2>1
<1>3. ASSUME NEW k \in DOMAIN c, NEW j \in DOMAIN c, c[k].msg = "toplevel", c[j].win = c[k].win
      PROVE  k <= j
  <2>1. CASE k \in DOMAIN s /\ j \in DOMAIN s
    BY <2>1, <1>1, <1>3 DEF IntroducedFirst
  <2>2. CASE k \in DOMAIN s /\ j \notin DOMAIN s
    BY <2>2, <1>1
  <2>3. CASE k \notin DOMAIN s
    <3>1. PICK i \in DOMAIN b : k = n + i
      BY <2>3, <1>2
    <3>2. b[i].msg = "toplevel" /\ b[i].win = c[j].win
      BY <3>1, <1>1, <1>3
    <3>3. ~Mentions(s, c[j].win)
      BY <3>2 DEF Has
    <3>4. j \notin DOMAIN s
      BY <3>3, <1>1 DEF Mentions
    <3>5. PICK l \in DOMAIN b : j = n + l
      BY <3>4, <1>2
    <3>6. i <= l
      BY <3>2, <3>5, <1>1 DEF IntroducedFirst
    <3> QED BY <3>1, <3>5, <3>6, <1>1
  <2> QED BY <2>1, <2>2, <2>3
<1>4. ASSUME NEW k \in DOMAIN c
      PROVE  \/ c[k].msg = "closed" /\ ~DoneAfterClosed
             \/ \E j \in DOMAIN c : k <= j /\ c[j].msg = "done" /\ c[j].win = c[k].win
  <2>1. CASE k \in DOMAIN s
    BY <2>1, <1>1 DEF EndsInDone
  <2>2. CASE k \notin DOMAIN s
    <3>1. PICK i \in DOMAIN b : k = n + i
      BY <2>2, <1>2
    <3>2. CASE b[i].msg = "closed" /\ ~DoneAfterClosed
      BY <3>1, <3>2, <1>1
    <3>3. CASE \E l \in DOMAIN b : i <= l /\ b[l].msg = "done" /\ b[l].win = b[i].win
      <4>1. PICK l \in DOMAIN b : i <= l /\ b[l].msg = "done" /\ b[l].win = b[i].win
        BY <3>3
      <4>2. n + l \in DOMAIN c /\ c[n + l] = b[l] /\ c[k] = b[i] /\ k <= n + l
        BY <4>1, <3>1, <1>1
      <4> QED BY <4>1, <4>2
    <3> QED BY <3>2, <3>3 DEF EndsInDone
  <2> QED BY <2>1, <2>2
<1> QED BY <1>3, <1>4 DEF IntroducedFirst, EndsInDone

\* What the messages are when the first has been taken
LEMMA TakenSays ==
    ASSUME NEW s \in Seq(Message), s # <<>>, NEW h, h = Head(s), NEW t, t = Tail(s)
    PROVE  /\ h \in Message /\ t \in Seq(Message)
           /\ \A w : Mentions(t, w) => Mentions(s, w)
           /\ Mentions(s, h.win) /\ Has(s, h.msg, h.win)
           /\ \A m, w : Has(s, m, w) <=> (h.msg = m /\ h.win = w) \/ Has(t, m, w)
           /\ \A m, w : Latest(t, m, w) \subseteq Latest(s, m, w)
           /\ \A m, w : h.msg = m /\ h.win = w /\ ~Has(t, m, w) => h \in Latest(s, m, w)
           /\ IntroducedFirst(s) =>
                IntroducedFirst(t) /\ ~Has(t, "toplevel", h.win)
           /\ EndsInDone(s) =>
                /\ EndsInDone(t)
                /\ \/ h.msg = "done" \/ (h.msg = "closed" /\ ~DoneAfterClosed)
                   \/ Has(t, "done", h.win)
<1> PICK n : n = Len(s)
  OBVIOUS
<1>1. /\ n \in Nat \ {0} /\ DOMAIN s = 1 .. n
      /\ h = s[1] /\ h \in Message /\ t \in Seq(Message)
      /\ DOMAIN t = 1 .. n - 1 /\ \A k \in 1 .. n - 1 : t[k] = s[k + 1]
  BY TailFacts
<1>2. /\ 1 \in DOMAIN s /\ \A k \in DOMAIN t : k + 1 \in DOMAIN s /\ t[k] = s[k + 1]
      /\ DOMAIN s \subseteq Int /\ DOMAIN t \subseteq Int
  BY <1>1
<1>3. \A k \in DOMAIN s : k = 1 \/ (k - 1 \in DOMAIN t /\ t[k - 1] = s[k])
  <2> SUFFICES ASSUME NEW k \in DOMAIN s, k # 1 PROVE k - 1 \in DOMAIN t /\ t[k - 1] = s[k]
    OBVIOUS
  <2>1. k - 1 \in 1 .. n - 1 /\ (k - 1) + 1 = k
    BY <1>1
  <2> QED BY <2>1, <1>1
<1>4. \A w : Mentions(t, w) => Mentions(s, w)
  BY <1>2 DEF Mentions
<1>5. Mentions(s, h.win) /\ Has(s, h.msg, h.win)
  BY <1>1, <1>2 DEF Mentions, Has
<1>6. ASSUME NEW m, NEW w PROVE Has(s, m, w) <=> (h.msg = m /\ h.win = w) \/ Has(t, m, w)
  <2>1. ASSUME Has(s, m, w) PROVE (h.msg = m /\ h.win = w) \/ Has(t, m, w)
    <3>1. PICK k \in DOMAIN s : s[k].msg = m /\ s[k].win = w
      BY <2>1 DEF Has
    <3> QED BY <3>1, <1>1, <1>3 DEF Has
  <2>2. ASSUME Has(t, m, w) PROVE Has(s, m, w)
    BY <2>2, <1>2 DEF Has
  <2> QED BY <2>1, <2>2, <1>5
<1>7. ASSUME NEW m, NEW w, NEW x \in Latest(t, m, w) PROVE x \in Latest(s, m, w)
  <2>1. PICK k \in DOMAIN t : /\ x = t[k] /\ t[k].msg = m /\ t[k].win = w
                              /\ \A j \in DOMAIN t : t[j].msg = m /\ t[j].win = w => j <= k
    BY <1>7 DEF Latest
  <2>2. k + 1 \in DOMAIN s /\ x = s[k + 1] /\ s[k + 1].msg = m /\ s[k + 1].win = w
    BY <2>1, <1>2
  <2>3. ASSUME NEW j \in DOMAIN s, s[j].msg = m, s[j].win = w PROVE j <= k + 1
    <3>1. CASE j = 1
      BY <3>1, <1>1
    <3>2. CASE j - 1 \in DOMAIN t /\ t[j - 1] = s[j]
      <4>1. j - 1 <= k
        BY <3>2, <2>1, <2>3
      <4> QED BY <4>1, <1>2
    <3> QED BY <3>1, <3>2, <1>3
  <2> QED BY <2>2, <2>3 DEF Latest
<1>8. ASSUME NEW m, NEW w, h.msg = m, h.win = w, ~Has(t, m, w) PROVE h \in Latest(s, m, w)
  <2>1. \A j \in DOMAIN s : s[j].msg = m /\ s[j].win = w => j = 1
    BY <1>3, <1>8 DEF Has
  <2>2. \A j \in DOMAIN s : s[j].msg = m /\ s[j].win = w => j <= 1
    BY <2>1
  <2> QED BY <2>2, <1>1, <1>2, <1>8 DEF Latest
<1>9. ASSUME IntroducedFirst(s) PROVE IntroducedFirst(t) /\ ~Has(t, "toplevel", h.win)
  <2>1. ASSUME NEW k \in DOMAIN t, NEW j \in DOMAIN t, t[k].msg = "toplevel", t[j].win = t[k].win
        PROVE  k <= j
    <3>1. k + 1 <= j + 1
      BY <2>1, <1>2, <1>9 DEF IntroducedFirst
    <3> QED BY <3>1, <1>2
  <2>2. ASSUME NEW k \in DOMAIN t, t[k].msg = "toplevel", t[k].win = h.win PROVE FALSE
    <3>1. k + 1 <= 1
      BY <2>2, <1>1, <1>2, <1>9 DEF IntroducedFirst
    <3> QED BY <3>1, <1>1
  <2> QED BY <2>1, <2>2 DEF IntroducedFirst, Has
<1>10. ASSUME EndsInDone(s)
       PROVE  /\ EndsInDone(t)
              /\ \/ h.msg = "done" \/ (h.msg = "closed" /\ ~DoneAfterClosed)
                 \/ Has(t, "done", h.win)
  <2>1. ASSUME NEW k \in DOMAIN t
        PROVE  \/ t[k].msg = "closed" /\ ~DoneAfterClosed
               \/ \E j \in DOMAIN t : k <= j /\ t[j].msg = "done" /\ t[j].win = t[k].win
    <3>1. CASE t[k].msg # "closed" \/ DoneAfterClosed
      <4>1. PICK j \in DOMAIN s : k + 1 <= j /\ s[j].msg = "done" /\ s[j].win = t[k].win
        BY <3>1, <1>2, <1>10 DEF EndsInDone
      <4>2. j # 1
        BY <4>1, <1>1
      <4>3. j - 1 \in DOMAIN t /\ t[j - 1] = s[j]
        BY <4>2, <1>3
      <4>4. k <= j - 1
        BY <4>1, <1>2
      <4> QED BY <4>1, <4>3, <4>4
    <3> QED BY <3>1
  <2>2. ASSUME h.msg # "done", h.msg # "closed" \/ DoneAfterClosed PROVE Has(t, "done", h.win)
    <3>1. PICK j \in DOMAIN s : s[j].msg = "done" /\ s[j].win = h.win
      BY <2>2, <1>1, <1>2, <1>10 DEF EndsInDone
    <3>2. j - 1 \in DOMAIN t /\ t[j - 1] = s[j]
      BY <3>1, <2>2, <1>1, <1>3
    <3> QED BY <3>1, <3>2 DEF Has
  <2> QED BY <2>1, <2>2 DEF EndsInDone
<1> QED BY <1>1, <1>4, <1>5, <1>6, <1>7, <1>8, <1>9, <1>10

-----------------------------------------------------------------------------
(* The batches of the compositor *)

\* A message and the done that ends its batch
LEMMA PairSays ==
    ASSUME NEW x \in Message, NEW y \in Message, NEW b, b = <<x, y>>,
           x.msg \notin {"done", "toplevel"}, y.msg = "done", y.win = x.win
    PROVE  /\ b \in Seq(Message) /\ IntroducedFirst(b) /\ EndsInDone(b)
           /\ \A w : Mentions(b, w) <=> w = x.win
           /\ \A m, w : Has(b, m, w) <=> w = x.win /\ m \in {x.msg, "done"}
           /\ \A m, w : \A z \in Latest(b, m, w) : z \in {x, y} /\ z.msg = m /\ z.win = w
<1>1. b \in Seq(Message) /\ DOMAIN b = {1, 2} /\ b[1] = x /\ b[2] = y
  OBVIOUS
<1>2. IntroducedFirst(b)
  BY <1>1 DEF IntroducedFirst
<1>3. EndsInDone(b)
  BY <1>1 DEF EndsInDone
<1>4. \A w : Mentions(b, w) <=> w = x.win
  BY <1>1 DEF Mentions
<1>5. \A m, w : Has(b, m, w) <=> w = x.win /\ m \in {x.msg, "done"}
  BY <1>1 DEF Has
<1>6. \A m, w : \A z \in Latest(b, m, w) : z \in {x, y} /\ z.msg = m /\ z.win = w
  BY <1>1 DEF Latest
<1> QED BY <1>1, <1>2, <1>3, <1>4, <1>5, <1>6

LEMMA IntroductionSays ==
    ASSUME NEW w \in Windows, NEW c \in Classes, NEW titled \in BOOLEAN, NEW f \in BOOLEAN,
           NEW b, b = Introduction(w, c, titled, f)
    PROVE  /\ b \in Seq(Message) /\ IntroducedFirst(b) /\ EndsInDone(b)
           /\ \A v : Mentions(b, v) <=> v = w
           /\ \A m, v : Has(b, m, v) <=>
                v = w /\ (m \in {"toplevel", "app_id", "state", "done"} \/ (m = "title" /\ titled))
           /\ \A x \in Latest(b, "app_id", w) : x.class = c
           /\ \A x \in Latest(b, "state", w) : x.focused = f
           /\ \A k \in DOMAIN b : b[k].msg = "app_id" => b[k].class = c
<1> DEFINE top == Msg("toplevel", w)
           app == AppIdMsg(w, c)
           title == Msg("title", w)
           state == StateMsg(w, f)
           done == Msg("done", w)
<1>1. /\ top \in Message /\ app \in Message /\ title \in Message
      /\ state \in Message /\ done \in Message
      /\ top.msg = "toplevel" /\ app.msg = "app_id" /\ title.msg = "title"
      /\ state.msg = "state" /\ done.msg = "done"
      /\ top.win = w /\ app.win = w /\ title.win = w /\ state.win = w /\ done.win = w
      /\ app.class = c /\ state.focused = f
  BY DEF Msg, AppIdMsg, StateMsg, Message
<1> HIDE DEF top, app, title, state, done
<1> DEFINE start == <<top, app>>
           end == <<state, done>>
           middle == IF titled THEN <<title>> ELSE <<>>
<1>2. b = (start \o middle) \o end
  BY DEF Introduction, top, app, title, state, done
<1>5. /\ start \in Seq(Message) /\ Len(start) = 2 /\ start[1] = top /\ start[2] = app
      /\ end \in Seq(Message) /\ Len(end) = 2 /\ end[1] = state /\ end[2] = done
      /\ middle \in Seq(Message)
      /\ titled => Len(middle) = 1 /\ middle[1] = title
      /\ ~titled => Len(middle) = 0
  BY <1>1
<1> HIDE DEF start, end, middle
<1> PICK a, n : a = start \o middle /\ n = Len(middle)
  OBVIOUS
<1>6. /\ a \in Seq(Message) /\ Len(a) = 2 + n
      /\ \A k \in 1 .. 2 + n : a[k] = IF k <= 2 THEN start[k] ELSE middle[k - 2]
  <2>1. /\ a \in Seq(Message) /\ Len(a) = Len(start) + Len(middle)
        /\ \A k \in 1 .. Len(start) + Len(middle) :
             a[k] = IF k <= Len(start) THEN start[k] ELSE middle[k - Len(start)]
    BY <1>5, ConcatProperties
  <2> QED BY <2>1, <1>5
<1>7. n \in Nat
  BY <1>5, LenProperties
<1>8. /\ b \in Seq(Message) /\ DOMAIN b = 1 .. 4 + n
      /\ \A k \in 1 .. 4 + n : b[k] = IF k <= 2 + n THEN a[k] ELSE end[k - (2 + n)]
  <2>1. /\ b \in Seq(Message) /\ Len(b) = Len(a) + Len(end)
        /\ \A k \in 1 .. Len(a) + Len(end) :
             b[k] = IF k <= Len(a) THEN a[k] ELSE end[k - Len(a)]
    BY <1>2, <1>5, <1>6, ConcatProperties
  <2>2. DOMAIN b = 1 .. Len(b)
    BY <2>1, LenProperties
  <2>3. Len(a) + Len(end) = 4 + n
    BY <1>5, <1>6, <1>7
  <2> QED BY <2>1, <2>2, <2>3, <1>6
<1>3. CASE titled
  <2>1. /\ b \in Seq(Message) /\ DOMAIN b = {1, 2, 3, 4, 5}
        /\ b[1] = top /\ b[2] = app /\ b[3] = title /\ b[4] = state /\ b[5] = done
    <3>1. n = 1 /\ middle[1] = title
      BY <1>3, <1>5
    <3>2. a[1] = top /\ a[2] = app /\ a[3] = title
      BY <3>1, <1>5, <1>6
    <3>3. 4 + n = 5 /\ 2 + n = 3 /\ 1 .. 5 = {1, 2, 3, 4, 5}
      BY <3>1
    <3> QED BY <3>2, <3>3, <1>5, <1>8
  <2>2. IntroducedFirst(b) /\ EndsInDone(b)
    BY <1>1, <2>1 DEF IntroducedFirst, EndsInDone
  <2>3. \A v : Mentions(b, v) <=> v = w
    BY <1>1, <2>1 DEF Mentions
  <2>4. \A m, v : Has(b, m, v) <=>
          v = w /\ (m \in {"toplevel", "app_id", "state", "done"} \/ (m = "title" /\ titled))
    <3>1. ASSUME NEW m, NEW v, Has(b, m, v)
          PROVE  v = w /\ m \in {"toplevel", "app_id", "title", "state", "done"}
      <4>1. PICK k \in {1, 2, 3, 4, 5} : b[k].msg = m /\ b[k].win = v
        BY <3>1, <2>1 DEF Has
      <4> QED BY <4>1, <2>1, <1>1
    <3>2. ASSUME NEW m \in {"toplevel", "app_id", "title", "state", "done"} PROVE Has(b, m, w)
      BY <3>2, <2>1, <1>1 DEF Has
    <3>3. \A m, v : Has(b, m, v) <=>
            v = w /\ m \in {"toplevel", "app_id", "title", "state", "done"}
      BY ONLY <3>1, <3>2, Zenon
    <3> QED BY ONLY <3>3, <1>3
  <2>5. /\ \A x \in Latest(b, "app_id", w) : x.class = c
        /\ \A x \in Latest(b, "state", w) : x.focused = f
    BY <1>1, <2>1 DEF Latest
  <2>6. \A k \in DOMAIN b : b[k].msg = "app_id" => b[k].class = c
    BY <1>1, <2>1
  <2> QED BY <2>1, <2>2, <2>3, <2>4, <2>5, <2>6
<1>4. CASE ~titled
  <2>1. /\ b \in Seq(Message) /\ DOMAIN b = {1, 2, 3, 4}
        /\ b[1] = top /\ b[2] = app /\ b[3] = state /\ b[4] = done
    <3>1. n = 0
      BY <1>4, <1>5
    <3>2. a[1] = top /\ a[2] = app
      BY <3>1, <1>5, <1>6
    <3>3. /\ 4 + n = 4 /\ 1 .. 4 = {1, 2, 3, 4}
          /\ 1 <= 2 + n /\ 2 <= 2 + n /\ ~(3 <= 2 + n) /\ ~(4 <= 2 + n)
          /\ 3 - (2 + n) = 1 /\ 4 - (2 + n) = 2
      BY <3>1
    <3>4. b[1] = a[1] /\ b[2] = a[2] /\ b[3] = end[1] /\ b[4] = end[2]
      BY ONLY <3>3, <1>8
    <3> QED BY <3>2, <3>3, <3>4, <1>5, <1>8
  <2>2. IntroducedFirst(b) /\ EndsInDone(b)
    BY <1>1, <2>1 DEF IntroducedFirst, EndsInDone
  <2>3. \A v : Mentions(b, v) <=> v = w
    BY <1>1, <2>1 DEF Mentions
  <2>4. \A m, v : Has(b, m, v) <=>
          v = w /\ (m \in {"toplevel", "app_id", "state", "done"} \/ (m = "title" /\ titled))
    BY <1>1, <1>4, <2>1 DEF Has
  <2>5. /\ \A x \in Latest(b, "app_id", w) : x.class = c
        /\ \A x \in Latest(b, "state", w) : x.focused = f
    BY <1>1, <2>1 DEF Latest
  <2>6. \A k \in DOMAIN b : b[k].msg = "app_id" => b[k].class = c
    BY <1>1, <2>1
  <2> QED BY <2>1, <2>2, <2>3, <2>4, <2>5, <2>6
<1> QED BY <1>3, <1>4

-----------------------------------------------------------------------------
(* Steps of the compositor *)

LEMMA NotMentioned ==
    ASSUME NEW s, NEW w, ~Mentions(s, w)
    PROVE  \A m : ~Has(s, m, w) /\ Latest(s, m, w) = {}
BY DEF Mentions, Has, Latest

\* What a step neither speaks of nor changes stays in step.
LEMMA Undisturbed ==
    ASSUME NEW w \in Windows, Placed(w), w \in untold' <=> w \in untold,
           screen'[w] = screen[w], w = active' <=> w = active,
           Known(w)' <=> Known(w), Known(w) => pending'[w] = pending[w],
           Mentions(wire', w) => Mentions(wire, w),
           \A m : Has(wire', m, w) <=> Has(wire, m, w),
           \A m : Latest(wire', m, w) \subseteq Latest(wire, m, w)
    PROVE  Placed(w)'
<1>1. CASE w \in untold
  <2>1. Untold(w)'
    BY <1>1 DEF Placed, Untold
  <2> QED BY <1>1, <2>1 DEF Placed
<1>2. CASE w \notin untold
  <2>1. BornFirst(w)' /\ ToldInFull(w)'
    BY <1>2 DEF Placed, InStep, BornFirst, ToldInFull
  <2>2. OpenIsKnown(w)' /\ GoneIsClosed(w)'
    BY <1>2 DEF Placed, InStep, OpenIsKnown, GoneIsClosed
  <2>3. AppIdArrives(w)' /\ TitleArrives(w)'
    BY <1>2 DEF Placed, InStep, AppIdArrives, TitleArrives
  <2>4. FocusArrives(w)'
    BY <1>2 DEF Placed, InStep, FocusArrives
  <2>5. ReportFollows(w)'
    BY <1>2 DEF Placed, InStep, ReportFollows, Described
  <2> QED BY <1>2, <2>1, <2>2, <2>3, <2>4, <2>5 DEF Placed, InStep
<1> QED BY <1>1, <1>2

LEMMA Sent ==
    ASSUME IInv, NEW b \in Seq(Message), wire' = wire \o b, pending' = pending, chan' = chan,
           IntroducedFirst(b), EndsInDone(b),
           \A w : Has(b, "toplevel", w) => ~Mentions(wire, w),
           screen' \in [Windows -> Screen], active' \in Windows \cup {NoWindow},
           active' # NoWindow => screen'[active'].life = "open",
           \A w \in untold' : w \in Windows /\ screen'[w].life = "open"
    PROVE  /\ Typed'
           /\ \A w : Mentions(wire', w) <=> Mentions(wire, w) \/ Mentions(b, w)
           /\ \A m, w : Has(wire', m, w) <=> Has(wire, m, w) \/ Has(b, m, w)
           /\ \A m, w : Latest(wire', m, w) \subseteq
                          IF Has(b, m, w) THEN Latest(b, m, w) ELSE Latest(wire, m, w)
           /\ \A w : Known(w)' <=> Known(w)
           /\ \A w \in Windows :
                /\ ~Mentions(b, w) /\ (w \in untold' <=> w \in untold)
                /\ screen'[w] = screen[w] /\ (w = active' <=> w = active)
                => Placed(w)'
<1>1. wire \in Seq(Message) /\ IntroducedFirst(wire) /\ EndsInDone(wire) /\ TypeOK
  BY DEF IInv, Typed
<1>2. /\ wire' \in Seq(Message)
      /\ \A w : Mentions(wire', w) <=> Mentions(wire, w) \/ Mentions(b, w)
      /\ \A m, w : Has(wire', m, w) <=> Has(wire, m, w) \/ Has(b, m, w)
      /\ \A m, w : Latest(wire', m, w) \subseteq
                     IF Has(b, m, w) THEN Latest(b, m, w) ELSE Latest(wire, m, w)
  BY <1>1, SentSays, Joined
<1>3. IntroducedFirst(wire') /\ EndsInDone(wire')
  BY <1>1, SentInOrder
<1>4. TypeOK'
  BY <1>1 DEF TypeOK, OpenWindows
<1>5. Typed'
  BY <1>2, <1>3, <1>4 DEF Typed
<1>6. \A w : Known(w)' <=> Known(w)
  BY DEF Known
<1>7. ASSUME NEW w \in Windows, ~Mentions(b, w), w \in untold' <=> w \in untold,
             screen'[w] = screen[w], w = active' <=> w = active
      PROVE  Placed(w)'
  <2>1. \A m : ~Has(b, m, w)
    BY <1>7, NotMentioned
  <2>2. Placed(w)
    BY DEF IInv
  <2> QED BY <1>2, <1>6, <1>7, <2>1, <2>2, Undisturbed
<1> QED BY <1>2, <1>5, <1>6, <1>7

LEMMA IntroducedStep ==
    ASSUME IInv, NEW w \in Windows, NEW c \in Classes, NEW titled \in BOOLEAN, NEW f \in BOOLEAN,
           ~Known(w), ~Mentions(wire, w),
           wire' = wire \o Introduction(w, c, titled, f), pending' = pending, chan' = chan,
           screen' \in [Windows -> Screen], active' \in Windows \cup {NoWindow},
           active' # NoWindow => screen'[active'].life = "open",
           screen'[w].life = "open", screen'[w].appId = c, screen'[w].titled = titled,
           f = (w = active'), w \notin untold',
           \A v \in untold' : v \in Windows /\ screen'[v].life = "open",
           \A v \in Windows \ {w} : /\ screen'[v] = screen[v]
                                    /\ v = active' <=> v = active
                                    /\ v \in untold' <=> v \in untold
    PROVE  IInv'
<1> PICK b : b = Introduction(w, c, titled, f)
  OBVIOUS
<1>1. wire' = wire \o b
  OBVIOUS
<1>2. /\ b \in Seq(Message) /\ IntroducedFirst(b) /\ EndsInDone(b)
      /\ \A v : Mentions(b, v) <=> v = w
      /\ \A m, v : Has(b, m, v) <=>
           v = w /\ (m \in {"toplevel", "app_id", "state", "done"} \/ (m = "title" /\ titled))
      /\ \A x \in Latest(b, "app_id", w) : x.class = c
      /\ \A x \in Latest(b, "state", w) : x.focused = f
  <2>1. /\ w \in Windows /\ c \in Classes /\ titled \in BOOLEAN /\ f \in BOOLEAN
        /\ b = Introduction(w, c, titled, f)
    OBVIOUS
  <2> QED BY ONLY <2>1, IntroductionSays
<1>5. \A m : ~Has(wire, m, w)
  BY NotMentioned
<1>8. /\ Typed'
      /\ \A m : Has(wire', m, w) <=> Has(b, m, w)
      /\ \A m : Has(b, m, w) => Latest(wire', m, w) \subseteq Latest(b, m, w)
      /\ ~Known(w)'
      /\ \A v \in Windows \ {w} : Placed(v)'
  <2>1. \A v : Has(b, "toplevel", v) => ~Mentions(wire, v)
    BY <1>2
  <2>3. /\ Typed'
        /\ \A m, v : Has(wire', m, v) <=> Has(wire, m, v) \/ Has(b, m, v)
        /\ \A m, v : Latest(wire', m, v) \subseteq
                       IF Has(b, m, v) THEN Latest(b, m, v) ELSE Latest(wire, m, v)
        /\ \A v : Known(v)' <=> Known(v)
        /\ \A v \in Windows :
             /\ ~Mentions(b, v) /\ (v \in untold' <=> v \in untold)
             /\ screen'[v] = screen[v] /\ (v = active' <=> v = active)
             => Placed(v)'
    BY <1>1, <1>2, <2>1, Sent
  <2> QED BY <2>3, <1>2, <1>5
<1>9. InStep(w)'
  <2>1. /\ \A m : Has(wire', m, w) <=>
             m \in {"toplevel", "app_id", "state", "done"} \/ (m = "title" /\ titled)
        /\ Latest(wire', "app_id", w) \subseteq Latest(b, "app_id", w)
        /\ Latest(wire', "state", w) \subseteq Latest(b, "state", w)
    BY <1>2, <1>8
  <2>2. BornFirst(w)'
    BY DEF BornFirst
  <2>3. ToldInFull(w)' /\ OpenIsKnown(w)'
    BY <2>1, <1>8 DEF ToldInFull, OpenIsKnown
  <2>4. GoneIsClosed(w)'
    BY DEF GoneIsClosed
  <2>5. AppIdArrives(w)'
    BY <2>1, <1>2, <1>8 DEF AppIdArrives
  <2>6. TitleArrives(w)'
    BY <2>1, <1>8 DEF TitleArrives
  <2>7. FocusArrives(w)' /\ ReportFollows(w)'
    BY <2>1, <1>2, <1>8 DEF FocusArrives, ReportFollows
  <2> QED BY <2>2, <2>3, <2>4, <2>5, <2>6, <2>7 DEF InStep
<1> QED BY <1>8, <1>9 DEF IInv, Placed

LEMMA MapStep ==
    ASSUME IInv, untold = {}, untold' = {}, NEW w \in Windows, NEW c \in Classes,
           NEW titled \in BOOLEAN, Map(w, c, titled), UNCHANGED <<pending, chan>>
    PROVE  IInv'
<1> PICK f \in BOOLEAN : f = FALSE
  OBVIOUS
<1>1. /\ screen[w].life = "unborn" /\ wire' = wire \o Introduction(w, c, titled, f)
      /\ active' = active /\ pending' = pending /\ chan' = chan
      /\ screen' = [screen EXCEPT ![w] = [life |-> "open", appId |-> c, titled |-> titled]]
  BY DEF Map, Sends
<1>2. InStep(w) /\ Typed /\ screen \in [Windows -> Screen] /\ active \in Windows \cup {NoWindow}
  BY DEF IInv, Placed, Typed, TypeOK
<1>3. ~Known(w) /\ ~Mentions(wire, w) /\ w # active
  BY <1>1, <1>2, NullAssumption DEF InStep, BornFirst, Typed
<1>4. /\ screen' \in [Windows -> Screen]
      /\ screen'[w].life = "open" /\ screen'[w].appId = c /\ screen'[w].titled = titled
      /\ \A v \in Windows \ {w} : screen'[v] = screen[v]
  BY <1>1, <1>2 DEF Screen, Life
<1>5. /\ active' \in Windows \cup {NoWindow} /\ \A v : v = active' <=> v = active
      /\ active' # NoWindow => screen'[active'].life = "open"
  BY <1>1, <1>2, <1>4 DEF Typed
<1>6. f = (w = active')
  BY <1>3, <1>5
<1> QED BY <1>1, <1>3, <1>4, <1>5, <1>6, IntroducedStep

LEMMA IntroduceStep ==
    ASSUME IInv, NEW w \in Windows, Introduce(w), UNCHANGED <<pending, chan>>
    PROVE  IInv'
<1> PICK c, titled, f : c = screen[w].appId /\ titled = screen[w].titled /\ f = (w = active)
  OBVIOUS
<1>1. /\ w \in untold /\ untold' = untold \ {w} /\ wire' = wire \o Introduction(w, c, titled, f)
      /\ screen' = screen /\ active' = active /\ pending' = pending /\ chan' = chan
  BY DEF Introduce, Sends
<1>2. /\ Typed /\ screen \in [Windows -> Screen] /\ active \in Windows \cup {NoWindow}
      /\ untold \subseteq OpenWindows
  BY DEF IInv, Typed, TypeOK
<1>3. ~Known(w) /\ ~Mentions(wire, w) /\ c \in Classes
  BY <1>1 DEF IInv, Placed, Untold
<1>4. titled \in BOOLEAN
  BY <1>2 DEF Screen
<1>5. f \in BOOLEAN
  OBVIOUS
<1>6. /\ \A v \in untold : v \in Windows /\ screen[v].life = "open"
      /\ active # NoWindow => screen[active].life = "open"
  BY <1>2 DEF OpenWindows, Typed
<1>7. /\ \A v \in untold' : v \in Windows /\ screen'[v].life = "open"
      /\ active' # NoWindow => screen'[active'].life = "open"
      /\ screen'[w].life = "open"
  BY <1>1, <1>6
<1>8. /\ screen'[w].appId = c /\ screen'[w].titled = titled /\ w \notin untold'
      /\ active' \in Windows \cup {NoWindow} /\ screen' \in [Windows -> Screen]
      /\ \A v \in Windows \ {w} : /\ screen'[v] = screen[v]
                                  /\ v = active' <=> v = active
                                  /\ v \in untold' <=> v \in untold
  BY <1>1, <1>2
<1>9. f = (w = active')
  BY <1>1
<1> QED BY <1>1, <1>3, <1>4, <1>5, <1>7, <1>8, <1>9, IntroducedStep

\* What an open window is told: its title, its app_id or its focus
LEMMA Told ==
    ASSUME NEW w \in Windows, NEW told \in SUBSET {"title", "app_id", "state"},
           InStep(w), screen[w].life = "open", screen'[w].life = "open",
           screen'[w].appId \in Classes,
           Known(w)' <=> Known(w), pending' = pending,
           \A m : Has(wire', m, w) <=> Has(wire, m, w) \/ m \in told \cup {"done"},
           IF "title" \in told THEN screen'[w].titled ELSE screen'[w].titled = screen[w].titled,
           IF "app_id" \in told
           THEN \A z \in Latest(wire', "app_id", w) : z.class = screen'[w].appId
           ELSE /\ screen'[w].appId = screen[w].appId
                /\ Latest(wire', "app_id", w) \subseteq Latest(wire, "app_id", w),
           IF "state" \in told
           THEN \A z \in Latest(wire', "state", w) : z.focused = (w = active')
           ELSE /\ w = active' <=> w = active
                /\ Latest(wire', "state", w) \subseteq Latest(wire, "state", w)
    PROVE  InStep(w)'
<1>1. /\ \A m \in {"toplevel", "closed"} : Has(wire', m, w) <=> Has(wire, m, w)
      /\ \A m : Has(wire, m, w) => Has(wire', m, w)
      /\ Has(wire', "done", w)
      /\ Has(wire', "title", w) <=> Has(wire, "title", w) \/ "title" \in told
      /\ Has(wire', "app_id", w) <=> Has(wire, "app_id", w) \/ "app_id" \in told
      /\ Has(wire', "state", w) <=> Has(wire, "state", w) \/ "state" \in told
  OBVIOUS
<1>2. BornFirst(w)' /\ ToldInFull(w)'
  BY <1>1 DEF InStep, BornFirst, ToldInFull
<1>3. OpenIsKnown(w)' /\ GoneIsClosed(w)'
  BY <1>1 DEF InStep, OpenIsKnown, GoneIsClosed
<1>4. AppIdArrives(w)'
  BY <1>1 DEF InStep, AppIdArrives
<1>5. TitleArrives(w)'
  BY <1>1 DEF InStep, TitleArrives
<1>6. FocusArrives(w)'
  BY <1>1 DEF InStep, FocusArrives
<1>7. ReportFollows(w)'
  BY <1>1 DEF InStep, ReportFollows, Described
<1> QED BY <1>2, <1>3, <1>4, <1>5, <1>6, <1>7 DEF InStep

\* A batch of one message and its done, about a window that has been introduced
LEMMA SentPair ==
    ASSUME IInv, untold = {}, untold' = {},
           NEW w \in Windows, NEW x \in Message, x.win = w,
           NEW kind, x.msg = kind, kind \notin {"done", "toplevel"},
           wire' = wire \o <<x, Msg("done", w)>>, pending' = pending, chan' = chan,
           screen' \in [Windows -> Screen], active' \in Windows \cup {NoWindow},
           active' # NoWindow => screen'[active'].life = "open",
           \A v \in Windows \ {w} : screen'[v] = screen[v] /\ (v = active' <=> v = active)
    PROVE  /\ Typed'
           /\ \A v \in Windows \ {w} : Placed(v)'
           /\ InStep(w) /\ (Known(w)' <=> Known(w))
           /\ \A m : Has(wire', m, w) <=> Has(wire, m, w) \/ m \in {kind, "done"}
           /\ \A m : m \notin {kind, "done"} => Latest(wire', m, w) \subseteq Latest(wire, m, w)
           /\ Latest(wire', kind, w) \subseteq {x}
<1> PICK y, b : y = Msg("done", w) /\ b = <<x, y>>
  OBVIOUS
<1>1. y \in Message /\ y.msg = "done" /\ y.win = w
  BY DEF Msg, Message
<1>2. /\ b \in Seq(Message) /\ IntroducedFirst(b) /\ EndsInDone(b)
      /\ \A v : Mentions(b, v) <=> v = w
      /\ \A m, v : Has(b, m, v) <=> v = w /\ m \in {kind, "done"}
      /\ \A m, v : \A z \in Latest(b, m, v) : z \in {x, y} /\ z.msg = m /\ z.win = v
  BY <1>1, PairSays
<1>3. \A v : Has(b, "toplevel", v) => ~Mentions(wire, v)
  BY <1>2
<1>4. InStep(w)
  BY DEF IInv, Placed
<1>5. /\ Typed'
      /\ \A m, v : Has(wire', m, v) <=> Has(wire, m, v) \/ Has(b, m, v)
      /\ \A m, v : Latest(wire', m, v) \subseteq
                     IF Has(b, m, v) THEN Latest(b, m, v) ELSE Latest(wire, m, v)
      /\ \A v : Known(v)' <=> Known(v)
      /\ \A v \in Windows :
           /\ ~Mentions(b, v) /\ (v \in untold' <=> v \in untold)
             /\ screen'[v] = screen[v] /\ (v = active' <=> v = active)
             => Placed(v)'
  <2>1. wire' = wire \o b
    OBVIOUS
  <2> QED BY <2>1, <1>2, <1>3, Sent
<1>6. \A v \in Windows \ {w} : Placed(v)'
  BY <1>2, <1>5
<1>7. Latest(wire', kind, w) \subseteq {x}
  <2>1. Latest(wire', kind, w) \subseteq Latest(b, kind, w)
    BY <1>2, <1>5
  <2>2. \A z \in Latest(b, kind, w) : z = x
    BY <1>1, <1>2
  <2> QED BY <2>1, <2>2
<1> QED BY <1>2, <1>4, <1>5, <1>6, <1>7

LEMMA SetTitleStep ==
    ASSUME IInv, untold = {}, untold' = {},
           NEW w \in Windows, SetTitle(w), UNCHANGED <<pending, chan>>
    PROVE  IInv'
<1> PICK x : x = Msg("title", w)
  OBVIOUS
<1>1. /\ screen[w].life = "open" /\ wire' = wire \o <<x, Msg("done", w)>>
      /\ active' = active /\ pending' = pending /\ chan' = chan
      /\ screen' = [screen EXCEPT ![w].titled = TRUE]
  BY DEF SetTitle, Sends
<1>2. x \in Message /\ x.win = w /\ x.msg = "title"
  BY DEF Msg, Message
<1>3. Typed /\ screen \in [Windows -> Screen] /\ active \in Windows \cup {NoWindow}
  BY DEF IInv, Typed, TypeOK
<1>4. /\ screen' \in [Windows -> Screen]
      /\ screen'[w].life = screen[w].life /\ screen'[w].appId = screen[w].appId
      /\ \A v \in Windows \ {w} : screen'[v] = screen[v]
  BY <1>1, <1>3 DEF Screen
<1>10. screen'[w].titled
  BY <1>1, <1>3
<1>5. active' # NoWindow => screen'[active'].life = "open"
  BY <1>1, <1>3, <1>4 DEF Typed
<1>6. active' \in Windows \cup {NoWindow} /\ \A v : v = active' <=> v = active
  BY <1>1, <1>3
<1>7. /\ Typed' /\ \A v \in Windows \ {w} : Placed(v)'
      /\ InStep(w) /\ (Known(w)' <=> Known(w))
      /\ \A m : Has(wire', m, w) <=> Has(wire, m, w) \/ m \in {"title", "done"}
      /\ \A m : m \notin {"title", "done"} => Latest(wire', m, w) \subseteq Latest(wire, m, w)
      /\ Latest(wire', "title", w) \subseteq {x}
  <2>1. /\ wire' = wire \o <<x, Msg("done", w)>> /\ pending' = pending /\ chan' = chan
    BY <1>1
  <2> QED BY <2>1, <1>2, <1>4, <1>5, <1>6, SentPair, ZenonT(60)
<1>8. screen[w].appId \in Classes
  BY <1>1, <1>7 DEF InStep, BornFirst
<1>9. InStep(w)'
  <2>1. \A m : Has(wire', m, w) <=> Has(wire, m, w) \/ m \in {"title"} \cup {"done"}
    BY <1>7
  <2>2. pending' = pending /\ screen[w].life = "open" /\ screen'[w].life = "open"
    BY <1>1, <1>4
  <2>3. /\ Latest(wire', "app_id", w) \subseteq Latest(wire, "app_id", w)
        /\ Latest(wire', "state", w) \subseteq Latest(wire, "state", w)
    BY <1>7
  <2> QED BY ONLY <2>1, <2>2, <2>3, <1>4, <1>6, <1>7, <1>8, <1>10, Told
<1> QED BY <1>7, <1>9 DEF IInv, Placed

LEMMA SetAppIdStep ==
    ASSUME IInv, untold = {}, untold' = {},
           NEW w \in Windows, NEW c \in Classes, SetAppId(w, c), UNCHANGED <<pending, chan>>
    PROVE  IInv'
<1> PICK x : x = AppIdMsg(w, c)
  OBVIOUS
<1>1. /\ screen[w].life = "open" /\ wire' = wire \o <<x, Msg("done", w)>>
      /\ active' = active /\ pending' = pending /\ chan' = chan
      /\ screen' = [screen EXCEPT ![w].appId = c]
  BY DEF SetAppId, Sends
<1>2. x \in Message /\ x.win = w /\ x.msg = "app_id" /\ x.class = c
  BY DEF AppIdMsg, Message
<1>3. Typed /\ screen \in [Windows -> Screen] /\ active \in Windows \cup {NoWindow}
  BY DEF IInv, Typed, TypeOK
<1>4. /\ screen' \in [Windows -> Screen] /\ screen'[w].appId = c
      /\ screen'[w].life = screen[w].life /\ screen'[w].titled = screen[w].titled
      /\ \A v \in Windows \ {w} : screen'[v] = screen[v]
  BY <1>1, <1>3 DEF Screen
<1>5. active' # NoWindow => screen'[active'].life = "open"
  BY <1>1, <1>3, <1>4 DEF Typed
<1>6. active' \in Windows \cup {NoWindow} /\ \A v : v = active' <=> v = active
  BY <1>1, <1>3
<1>7. /\ Typed' /\ \A v \in Windows \ {w} : Placed(v)'
      /\ InStep(w) /\ (Known(w)' <=> Known(w))
      /\ \A m : Has(wire', m, w) <=> Has(wire, m, w) \/ m \in {"app_id", "done"}
      /\ \A m : m \notin {"app_id", "done"} => Latest(wire', m, w) \subseteq Latest(wire, m, w)
      /\ Latest(wire', "app_id", w) \subseteq {x}
  BY <1>1, <1>2, <1>4, <1>5, <1>6, SentPair, ZenonT(60)
<1>8. InStep(w)'
  <2>1. \A m : Has(wire', m, w) <=> Has(wire, m, w) \/ m \in {"app_id"} \cup {"done"}
    BY <1>7
  <2>2. \A z \in Latest(wire', "app_id", w) : z.class = screen'[w].appId
    BY <1>2, <1>4, <1>7
  <2> QED BY <2>1, <2>2, <1>1, <1>4, <1>6, <1>7, Told
<1> QED BY <1>7, <1>8 DEF IInv, Placed

LEMMA RefocusOne ==
    ASSUME IInv, untold = {}, untold' = {},
           NEW w \in Windows, screen[w].life = "open", NEW f \in BOOLEAN,
           wire' = wire \o Focus(w, f), screen' = screen, pending' = pending, chan' = chan,
           active' \in Windows \cup {NoWindow}, active' # NoWindow => screen[active'].life = "open",
           f = (w = active'), \A v \in Windows \ {w} : v = active' <=> v = active
    PROVE  IInv'
<1> PICK x : x = StateMsg(w, f)
  OBVIOUS
<1>1. wire' = wire \o <<x, Msg("done", w)>>
  BY DEF Focus
<1>2. x \in Message /\ x.win = w /\ x.msg = "state" /\ x.focused = f
  BY DEF StateMsg, Message
<1>3. screen' \in [Windows -> Screen]
  BY DEF IInv, Typed, TypeOK
<1>4. /\ Typed' /\ \A v \in Windows \ {w} : Placed(v)'
      /\ InStep(w) /\ (Known(w)' <=> Known(w))
      /\ \A m : Has(wire', m, w) <=> Has(wire, m, w) \/ m \in {"state", "done"}
      /\ \A m : m \notin {"state", "done"} => Latest(wire', m, w) \subseteq Latest(wire, m, w)
      /\ Latest(wire', "state", w) \subseteq {x}
  <2>1. /\ \A v \in Windows \ {w} : screen'[v] = screen[v] /\ (v = active' <=> v = active)
        /\ active' # NoWindow => screen'[active'].life = "open"
        /\ "state" \notin {"done", "toplevel"}
    OBVIOUS
  <2> QED BY <2>1, <1>1, <1>2, <1>3, SentPair, ZenonT(60)
<1>5. InStep(w)'
  <2>1. \A m : Has(wire', m, w) <=> Has(wire, m, w) \/ m \in {"state"} \cup {"done"}
    BY <1>4
  <2>2. \A z \in Latest(wire', "state", w) : z.focused = (w = active')
    BY <1>2, <1>4
  <2>3. screen[w].appId \in Classes
    BY <1>4 DEF InStep, BornFirst
  <2>4. /\ screen'[w].life = "open" /\ screen'[w].appId = screen[w].appId
        /\ screen'[w].titled = screen[w].titled
        /\ Latest(wire', "app_id", w) \subseteq Latest(wire, "app_id", w)
        /\ {"state"} \in SUBSET {"title", "app_id", "state"}
    BY <1>4
  <2>5. \A told \in SUBSET {"title", "app_id", "state"} : told = {"state"} => InStep(w)'
    BY <2>1, <2>2, <2>3, <2>4, <1>4, Told
  <2> QED BY <2>4, <2>5
<1> QED BY <1>4, <1>5 DEF IInv, Placed

LEMMA RefocusTwo ==
    ASSUME IInv, untold = {}, untold' = {},
           NEW v \in Windows, NEW w \in Windows, v # w,
           screen[v].life = "open", screen[w].life = "open", NEW f \in BOOLEAN, NEW g \in BOOLEAN,
           wire' = wire \o (Focus(v, f) \o Focus(w, g)),
           screen' = screen, pending' = pending, chan' = chan,
           active' \in Windows \cup {NoWindow}, active' # NoWindow => screen[active'].life = "open",
           f = (v = active'), g = (w = active'),
           \A u \in Windows \ {v, w} : u = active' <=> u = active
    PROVE  IInv'
<1> PICK x, y, a, b : /\ x = StateMsg(v, f) /\ y = StateMsg(w, g)
                      /\ a = Focus(v, f) /\ b = Focus(w, g)
  OBVIOUS
<1> PICK xd, yd : xd = Msg("done", v) /\ yd = Msg("done", w)
  OBVIOUS
<1>1. /\ x \in Message /\ x.win = v /\ x.msg = "state" /\ x.focused = f
      /\ y \in Message /\ y.win = w /\ y.msg = "state" /\ y.focused = g
      /\ xd \in Message /\ xd.win = v /\ xd.msg = "done"
      /\ yd \in Message /\ yd.win = w /\ yd.msg = "done"
  BY DEF StateMsg, Msg, Message
<1>2. a = <<x, xd>> /\ b = <<y, yd>>
  BY DEF Focus
<1>3. /\ a \in Seq(Message) /\ IntroducedFirst(a) /\ EndsInDone(a)
      /\ \A u : Mentions(a, u) <=> u = v
      /\ \A m, u : Has(a, m, u) <=> u = v /\ m \in {"state", "done"}
      /\ \A m, u : \A z \in Latest(a, m, u) : z \in {x, xd} /\ z.msg = m /\ z.win = u
  BY <1>1, <1>2, PairSays
<1>4. /\ b \in Seq(Message) /\ IntroducedFirst(b) /\ EndsInDone(b)
      /\ \A u : Mentions(b, u) <=> u = w
      /\ \A m, u : Has(b, m, u) <=> u = w /\ m \in {"state", "done"}
      /\ \A m, u : \A z \in Latest(b, m, u) : z \in {y, yd} /\ z.msg = m /\ z.win = u
  BY <1>1, <1>2, PairSays
<1> PICK c : c = a \o b
  OBVIOUS
<1>5. /\ c \in Seq(Message)
      /\ \A u : Mentions(c, u) <=> u = v \/ u = w
      /\ \A m, u : Has(c, m, u) <=> u \in {v, w} /\ m \in {"state", "done"}
      /\ \A m, u : Latest(c, m, u) \subseteq IF Has(b, m, u) THEN Latest(b, m, u) ELSE Latest(a, m, u)
  <2>1. c \in Seq(Message)
    BY <1>3, <1>4, Joined
  <2>2. ASSUME NEW u
        PROVE  /\ Mentions(c, u) <=> Mentions(a, u) \/ Mentions(b, u)
               /\ \A m : Has(c, m, u) <=> Has(a, m, u) \/ Has(b, m, u)
               /\ \A m : Latest(c, m, u) \subseteq
                           IF Has(b, m, u) THEN Latest(b, m, u) ELSE Latest(a, m, u)
    <3>1. a \in Seq(Message) /\ b \in Seq(Message)
      BY <1>3, <1>4
    <3>2. /\ Mentions(a \o b, u) <=> Mentions(a, u) \/ Mentions(b, u)
          /\ \A m : Has(a \o b, m, u) <=> Has(a, m, u) \/ Has(b, m, u)
          /\ \A m : Latest(a \o b, m, u) \subseteq
                       IF Has(b, m, u) THEN Latest(b, m, u) ELSE Latest(a, m, u)
      BY ONLY <3>1, SentSays
    <3>3. c = a \o b
      OBVIOUS
    <3> QED BY ONLY <3>2, <3>3
  <2>3. \A u : Mentions(c, u) <=> u = v \/ u = w
    BY <2>2, <1>3, <1>4
  <2>4. ASSUME NEW m, NEW u PROVE Has(c, m, u) <=> u \in {v, w} /\ m \in {"state", "done"}
    <3>1. Has(c, m, u) <=> Has(a, m, u) \/ Has(b, m, u)
      BY <2>2
    <3>2. Has(a, m, u) <=> u = v /\ m \in {"state", "done"}
      BY <1>3
    <3>3. Has(b, m, u) <=> u = w /\ m \in {"state", "done"}
      BY <1>4
    <3> QED BY ONLY <3>1, <3>2, <3>3
  <2> QED BY <2>1, <2>2, <2>3, <2>4
<1>6. IntroducedFirst(c) /\ EndsInDone(c)
  BY <1>3, <1>4, SentInOrder
<1>7. /\ \A z \in Latest(c, "state", v) : z = x
      /\ \A z \in Latest(c, "state", w) : z = y
  <2>2. Latest(c, "state", v) \subseteq Latest(a, "state", v)
    BY <1>4, <1>5
  <2>3. Latest(c, "state", w) \subseteq Latest(b, "state", w)
    BY <1>4, <1>5
  <2>4. /\ \A z \in Latest(a, "state", v) : z = x
        /\ \A z \in Latest(b, "state", w) : z = y
    BY <1>1, <1>3, <1>4
  <2> QED BY <2>2, <2>3, <2>4
<1>8. /\ Typed'
      /\ \A m, u : Has(wire', m, u) <=> Has(wire, m, u) \/ Has(c, m, u)
      /\ \A m, u : Latest(wire', m, u) \subseteq
                     IF Has(c, m, u) THEN Latest(c, m, u) ELSE Latest(wire, m, u)
      /\ \A u : Known(u)' <=> Known(u)
      /\ \A u \in Windows :
           /\ ~Mentions(c, u) /\ (u \in untold' <=> u \in untold)
             /\ screen'[u] = screen[u] /\ (u = active' <=> u = active)
             => Placed(u)'
  <2>1. wire' = wire \o c
    OBVIOUS
  <2>2. screen' \in [Windows -> Screen]
    BY DEF IInv, Typed, TypeOK
  <2>3. \A u : Has(c, "toplevel", u) => ~Mentions(wire, u)
    <3>1. "toplevel" \notin {"state", "done"}
      OBVIOUS
    <3> QED BY ONLY <3>1, <1>5, Zenon
  <2> QED BY <2>1, <2>2, <2>3, <1>5, <1>6, Sent
<1>9. ASSUME NEW u \in {v, w} PROVE InStep(u)'
  <2>1. \A m : Has(wire', m, u) <=> Has(wire, m, u) \/ m \in {"state"} \cup {"done"}
    BY <1>5, <1>8
  <2>7. Has(c, "state", u) /\ ~Has(c, "app_id", u)
    BY <1>5
  <2>2. /\ Latest(wire', "state", u) \subseteq Latest(c, "state", u)
        /\ Latest(wire', "app_id", u) \subseteq Latest(wire, "app_id", u)
    <3>1. \A m : Latest(wire', m, u) \subseteq
                    IF Has(c, m, u) THEN Latest(c, m, u) ELSE Latest(wire, m, u)
      BY <1>8
    <3> QED BY ONLY <2>7, <3>1
  <2>3. \A z \in Latest(wire', "state", u) : z.focused = (u = active')
    BY <2>2, <1>1, <1>7
  <2>4. InStep(u) /\ u \in Windows /\ screen[u].life = "open"
    BY DEF IInv, Placed
  <2>5. screen[u].appId \in Classes
    BY <2>4 DEF InStep, BornFirst
  <2>6. (Known(u)' <=> Known(u)) /\ {"state"} \in SUBSET {"title", "app_id", "state"}
    BY <1>8
  <2> QED BY <2>1, <2>2, <2>3, <2>4, <2>5, <2>6, Told
<1>10. ASSUME NEW u \in Windows PROVE Placed(u)'
  <2>1. CASE u \in {v, w}
    BY <2>1, <1>9 DEF Placed
  <2>2. CASE u \notin {v, w}
    <3>1. ~Mentions(c, u) /\ (u \in untold' <=> u \in untold)
      BY <2>2, <1>5
    <3>2. screen'[u] = screen[u] /\ (u = active' <=> u = active)
      BY <2>2
    <3> QED BY <3>1, <3>2, <1>8
  <2> QED BY <2>1, <2>2
<1> QED BY <1>8, <1>10 DEF IInv, Placed

LEMMA ActivateStep ==
    ASSUME IInv, untold = {}, untold' = {},
           NEW w \in Windows, Activate(w), UNCHANGED <<pending, chan>>
    PROVE  IInv'
<1>1. /\ screen[w].life = "open" /\ active # w /\ active' = w
      /\ screen' = screen /\ pending' = pending /\ chan' = chan
  BY DEF Activate
<1>2. active \in Windows \cup {NoWindow} /\ (active # NoWindow => screen[active].life = "open")
  BY DEF IInv, Typed, TypeOK
<1>3. active' # NoWindow /\ active' \in Windows \cup {NoWindow} /\ screen[active'].life = "open"
  BY <1>1, NullAssumption
<1>4. CASE active = NoWindow
  <2>1. wire' = wire \o Focus(w, TRUE)
    BY <1>4 DEF Activate, Sends
  <2>2. TRUE = (w = active') /\ \A v \in Windows \ {w} : v = active' <=> v = active
    BY <1>1, <1>4, NullAssumption
  <2> QED BY <2>1, <2>2, <1>1, <1>3, RefocusOne
<1>5. CASE active # NoWindow
  <2> PICK v \in Windows : v = active
    BY <1>2, <1>5
  <2>1. \/ wire' = wire \o (Focus(v, FALSE) \o Focus(w, TRUE))
        \/ wire' = wire \o (Focus(w, TRUE) \o Focus(v, FALSE))
    BY <1>5 DEF Activate, Sends
  <2>2. /\ v # w /\ screen[v].life = "open"
        /\ FALSE = (v = active') /\ TRUE = (w = active')
        /\ \A u \in Windows \ {v, w} : u = active' <=> u = active
    BY <1>1, <1>2, <1>5
  <2>3. CASE wire' = wire \o (Focus(v, FALSE) \o Focus(w, TRUE))
    BY <2>2, <2>3, <1>1, <1>3, RefocusTwo
  <2>4. CASE wire' = wire \o (Focus(w, TRUE) \o Focus(v, FALSE))
    BY <2>2, <2>4, <1>1, <1>3, RefocusTwo
  <2> QED BY <2>1, <2>3, <2>4
<1> QED BY <1>4, <1>5

LEMMA DeactivateStep ==
    ASSUME IInv, untold = {}, untold' = {},
           Deactivate, UNCHANGED <<pending, chan>>
    PROVE  IInv'
<1>1. /\ active # NoWindow /\ active' = NoWindow /\ wire' = wire \o Focus(active, FALSE)
      /\ screen' = screen /\ pending' = pending /\ chan' = chan
  BY DEF Deactivate, Sends
<1>2. active \in Windows \cup {NoWindow} /\ (active # NoWindow => screen[active].life = "open")
  BY DEF IInv, Typed, TypeOK
<1> PICK w \in Windows : w = active
  BY <1>1, <1>2
<1>3. FALSE = (w = active') /\ \A v \in Windows \ {w} : v = active' <=> v = active
  BY <1>1, NullAssumption
<1> QED BY <1>1, <1>2, <1>3, RefocusOne

\* The batch that ends a window, in which done may be missing
Closing(w) == <<Msg("closed", w)>> \o (IF DoneAfterClosed THEN <<Msg("done", w)>> ELSE <<>>)

LEMMA ClosingSays ==
    ASSUME NEW w \in Windows, NEW b, b = Closing(w)
    PROVE  /\ b \in Seq(Message) /\ IntroducedFirst(b) /\ EndsInDone(b)
           /\ \A v : Mentions(b, v) <=> v = w
           /\ \A m, v : Has(b, m, v) <=> v = w /\ (m = "closed" \/ (m = "done" /\ DoneAfterClosed))
           /\ \A k \in DOMAIN b : b[k].msg = IF k = 1 THEN "closed" ELSE "done"
           /\ DOMAIN b \subseteq {1, 2}
<1> PICK x, y : x = Msg("closed", w) /\ y = Msg("done", w)
  OBVIOUS
<1> PICK a, r : a = <<x>> /\ r = IF DoneAfterClosed THEN <<y>> ELSE <<>>
  OBVIOUS
<1>1. /\ x \in Message /\ x.msg = "closed" /\ x.win = w
      /\ y \in Message /\ y.msg = "done" /\ y.win = w
  BY DEF Msg, Message
<1>2. /\ a \in Seq(Message) /\ Len(a) = 1 /\ a[1] = x
      /\ r \in Seq(Message)
      /\ DoneAfterClosed => Len(r) = 1 /\ r[1] = y
      /\ ~DoneAfterClosed => Len(r) = 0
  BY <1>1
<1>3. b = a \o r
  BY DEF Closing
<1>4. /\ b \in Seq(Message) /\ Len(b) = 1 + Len(r) /\ DOMAIN b = 1 .. Len(b)
      /\ \A k \in 1 .. 1 + Len(r) : b[k] = IF k <= 1 THEN x ELSE r[k - 1]
  <2>1. /\ b \in Seq(Message) /\ Len(b) = Len(a) + Len(r)
        /\ \A k \in 1 .. Len(a) + Len(r) : b[k] = IF k <= Len(a) THEN a[k] ELSE r[k - Len(a)]
    BY ONLY <1>2, <1>3, ConcatProperties
  <2>2. DOMAIN b = 1 .. Len(b)
    BY ONLY <2>1, LenProperties
  <2>3. \A k \in 1 .. 1 + Len(r) : k <= 1 => k = 1
    BY ONLY <1>2, LenProperties
  <2>4. Len(a) = 1 /\ a[1] = x
    BY ONLY <1>2
  <2> QED BY ONLY <2>1, <2>2, <2>3, <2>4
<1>5. CASE DoneAfterClosed
  <2>1. b \in Seq(Message) /\ DOMAIN b = {1, 2} /\ b[1] = x /\ b[2] = y
    <3>1. Len(r) = 1 /\ r[1] = y
      BY ONLY <1>2, <1>5
    <3>2. 1 + 1 = 2 /\ 1 .. 2 = {1, 2} /\ 1 <= 1 /\ ~(2 <= 1) /\ 2 - 1 = 1
      OBVIOUS
    <3> QED BY ONLY <3>1, <3>2, <1>4
  <2>2. IntroducedFirst(b) /\ EndsInDone(b)
    BY <1>1, <2>1 DEF IntroducedFirst, EndsInDone
  <2>3. \A v : Mentions(b, v) <=> v = w
    BY <1>1, <2>1 DEF Mentions
  <2>4. \A m, v : Has(b, m, v) <=> v = w /\ m \in {"closed", "done"}
    BY <1>1, <2>1 DEF Has
  <2>5. \A k \in DOMAIN b : b[k].msg = IF k = 1 THEN "closed" ELSE "done"
    BY <1>1, <2>1
  <2> QED BY <2>1, <2>2, <2>3, <2>4, <2>5, <1>5
<1>6. CASE ~DoneAfterClosed
  <2>1. b \in Seq(Message) /\ DOMAIN b = {1} /\ b[1] = x
    BY ONLY <1>2, <1>4, <1>6
  <2>2. IntroducedFirst(b) /\ EndsInDone(b)
    BY <1>1, <1>6, <2>1 DEF IntroducedFirst, EndsInDone
  <2>3. \A v : Mentions(b, v) <=> v = w
    BY <1>1, <2>1 DEF Mentions
  <2>4. \A m, v : Has(b, m, v) <=> v = w /\ m = "closed"
    BY <1>1, <2>1 DEF Has
  <2>5. \A k \in DOMAIN b : b[k].msg = IF k = 1 THEN "closed" ELSE "done"
    BY <1>1, <2>1
  <2> QED BY <2>1, <2>2, <2>3, <2>4, <2>5, <1>6
<1> QED BY <1>5, <1>6

LEMMA UnmapStep ==
    ASSUME IInv, untold = {}, untold' = {},
           NEW w \in Windows, Unmap(w), UNCHANGED <<pending, chan>>
    PROVE  IInv'
<1> PICK b : b = Closing(w)
  OBVIOUS
<1>1. /\ screen[w].life = "open" /\ wire' = wire \o b
      /\ active' = IF active = w THEN NoWindow ELSE active
      /\ pending' = pending /\ chan' = chan
      /\ screen' = [screen EXCEPT ![w].life = "gone"]
  BY DEF Unmap, Sends, Closing
<1>2. /\ b \in Seq(Message) /\ IntroducedFirst(b) /\ EndsInDone(b)
      /\ \A v : Mentions(b, v) <=> v = w
      /\ \A m, v : Has(b, m, v) <=> v = w /\ (m = "closed" \/ (m = "done" /\ DoneAfterClosed))
  BY ClosingSays
<1>3. /\ InStep(w) /\ screen \in [Windows -> Screen] /\ active \in Windows \cup {NoWindow}
      /\ active # NoWindow => screen[active].life = "open"
  BY DEF IInv, Placed, Typed, TypeOK
<1>4. /\ screen' \in [Windows -> Screen] /\ screen'[w].life = "gone"
      /\ screen'[w].appId = screen[w].appId
      /\ \A v \in Windows \ {w} : screen'[v] = screen[v]
  BY <1>1, <1>3 DEF Screen, Life
<1>5. screen'[w].titled <=> screen[w].titled
  BY <1>1, <1>3 DEF Screen
<1>6. /\ active' \in Windows \cup {NoWindow} /\ active' # w
      /\ active' # NoWindow => screen'[active'].life = "open"
      /\ \A v \in Windows \ {w} : v = active' <=> v = active
  BY <1>1, <1>3, <1>4, NullAssumption
<1>7. \A v : Has(b, "toplevel", v) => ~Mentions(wire, v)
  BY <1>2
<1>8. /\ Typed'
      /\ \A m, v : Has(wire', m, v) <=> Has(wire, m, v) \/ Has(b, m, v)
      /\ \A m, v : Latest(wire', m, v) \subseteq
                     IF Has(b, m, v) THEN Latest(b, m, v) ELSE Latest(wire, m, v)
      /\ \A v : Known(v)' <=> Known(v)
      /\ \A v \in Windows :
           /\ ~Mentions(b, v) /\ (v \in untold' <=> v \in untold)
             /\ screen'[v] = screen[v] /\ (v = active' <=> v = active)
             => Placed(v)'
  BY <1>1, <1>2, <1>4, <1>6, <1>7, Sent
<1>9. \A v \in Windows \ {w} : Placed(v)'
  BY <1>2, <1>4, <1>6, <1>8
<1>10. InStep(w)'
  <2>1. /\ \A m \in {"toplevel", "title", "app_id", "state"} : Has(wire', m, w) <=> Has(wire, m, w)
        /\ Has(wire', "closed", w)
        /\ Has(wire, "done", w) => Has(wire', "done", w)
        /\ DoneAfterClosed => Has(wire', "done", w)
    BY <1>2, <1>8
  <2>2. Latest(wire', "app_id", w) \subseteq Latest(wire, "app_id", w)
    <3>1. ~Has(b, "app_id", w)
      BY <1>2
    <3> QED BY ONLY <3>1, <1>8
  <2>3. (Known(w)' <=> Known(w)) /\ pending' = pending
    BY <1>1, <1>8
  <2>4. BornFirst(w)' /\ ToldInFull(w)'
    BY <2>1, <2>3, <1>1, <1>3, <1>4 DEF InStep, BornFirst, ToldInFull
  <2>5. OpenIsKnown(w)' /\ GoneIsClosed(w)'
    BY <2>1, <1>4 DEF OpenIsKnown, GoneIsClosed
  <2>6. AppIdArrives(w)'
    BY <2>1, <2>2, <2>3, <1>3, <1>4 DEF InStep, AppIdArrives
  <2>7. TitleArrives(w)'
    BY <2>1, <2>3, <1>3, <1>5 DEF InStep, TitleArrives
  <2>8. FocusArrives(w)'
    BY <1>4 DEF FocusArrives
  <2>9. ReportFollows(w)'
    BY <2>1, <2>3, <1>3 DEF InStep, ReportFollows, Described
  <2> QED BY <2>4, <2>5, <2>6, <2>7, <2>8, <2>9 DEF InStep
<1> QED BY <1>8, <1>9, <1>10 DEF IInv, Placed

-----------------------------------------------------------------------------
(* Steps of the module *)

LEMMA Updated ==
    ASSUME TypeOK, NEW w \in Windows, NEW p, Known(w) => p \in Pending, Update(w, p)
    PROVE  /\ DOMAIN pending' = DOMAIN pending /\ (Known(w)' <=> Known(w))
           /\ Known(w) => pending'[w] = p
           /\ ~Known(w) => pending' = pending
           /\ \A v \in Windows \ {w} :
                (Known(v)' <=> Known(v)) /\ (Known(v) => pending'[v] = pending[v])
           /\ \A v \in DOMAIN pending' : pending'[v] \in Pending
<1>1. DOMAIN pending' = DOMAIN pending
  BY DEF Update
<1>2. \A v : Known(v)' <=> Known(v)
  BY <1>1 DEF Known
<1>3. /\ Known(w) => pending'[w] = p
      /\ ~Known(w) => pending' = pending
      /\ \A v \in Windows \ {w} : Known(v) => pending'[v] = pending[v]
  BY DEF Update, Known
<1>4. ASSUME NEW v \in DOMAIN pending' PROVE pending'[v] \in Pending
  BY <1>1, <1>3 DEF TypeOK, Known
<1> QED BY <1>1, <1>2, <1>3, <1>4

\* What holds of the window a message is about once the message has been taken,
\* whatever the module makes of it; the other windows stay in step.
LEMMA Taken ==
    ASSUME IInv, wire # <<>>, NEW m, m = Head(wire), NEW w, w = m.win,
           wire' = Tail(wire), screen' = screen, active' = active,
           untold' = untold, TypeOK',
           \A v \in Windows \ {w} :
             (Known(v)' <=> Known(v)) /\ (Known(v) => pending'[v] = pending[v])
    PROVE  /\ Typed' /\ \A v \in Windows \ {w} : Placed(v)'
           /\ w \in Windows \ untold /\ InStep(w) /\ BornFirst(w)' /\ screen[w].life # "unborn"
           /\ \A k : Has(wire, k, w) <=> m.msg = k \/ Has(wire', k, w)
           /\ \A k : Latest(wire', k, w) \subseteq Latest(wire, k, w)
           /\ \A k : m.msg = k /\ ~Has(wire', k, w) => m \in Latest(wire, k, w)
           /\ ~Has(wire', "toplevel", w)
           /\ \/ m.msg = "done" \/ (m.msg = "closed" /\ ~DoneAfterClosed)
              \/ Has(wire', "done", w)
<1>1. /\ wire \in Seq(Message) /\ IntroducedFirst(wire) /\ EndsInDone(wire)
      /\ active # NoWindow => screen[active].life = "open"
  BY DEF IInv, Typed
<1>2. /\ m \in Message /\ wire' \in Seq(Message)
      /\ \A v : Mentions(wire', v) => Mentions(wire, v)
      /\ Mentions(wire, w)
      /\ \A k, v : Has(wire, k, v) <=> (m.msg = k /\ w = v) \/ Has(wire', k, v)
      /\ \A k, v : Latest(wire', k, v) \subseteq Latest(wire, k, v)
      /\ \A k, v : m.msg = k /\ w = v /\ ~Has(wire', k, v) => m \in Latest(wire, k, v)
      /\ IntroducedFirst(wire') /\ ~Has(wire', "toplevel", w)
      /\ EndsInDone(wire')
      /\ \/ m.msg = "done" \/ (m.msg = "closed" /\ ~DoneAfterClosed)
         \/ Has(wire', "done", w)
  BY <1>1, TakenSays
<1>3. w \in Windows
  BY <1>2 DEF Message
<1>4. Typed'
  BY <1>1, <1>2 DEF Typed
<1>5. ASSUME NEW v \in Windows \ {w} PROVE Placed(v)'
  <2>1. Placed(v)
    BY DEF IInv
  <2>2. \A k : Has(wire', k, v) <=> Has(wire, k, v)
    BY <1>2
  <2>3. \A k : Latest(wire', k, v) \subseteq Latest(wire, k, v)
    BY <1>2
  <2> QED BY <1>2, <2>1, <2>2, <2>3, Undisturbed
<1>8. w \notin untold /\ InStep(w)
  BY <1>2, <1>3 DEF IInv, Placed, Untold
<1>6. screen[w].life # "unborn"
  BY <1>2, <1>8 DEF InStep, BornFirst
<1>7. BornFirst(w)'
  BY <1>6, <1>8 DEF InStep, BornFirst
<1> QED BY <1>2, <1>3, <1>4, <1>5, <1>6, <1>7, <1>8

\* A message the module makes nothing of
LEMMA Ignored ==
    ASSUME IInv, wire # <<>>, NEW m, m = Head(wire),
           wire' = Tail(wire), screen' = screen, active' = active, untold' = untold,
           pending' = pending, chan' = chan,
           m.msg # "toplevel",
           ~Known(m.win) \/ (m.msg = "done" /\ ~Described(m.win))
    PROVE  IInv'
<1> PICK w : w = m.win
  OBVIOUS
<1>1. TypeOK'
  BY DEF IInv, Typed, TypeOK, OpenWindows
<1>2. \A v : (Known(v)' <=> Known(v)) /\ pending'[v] = pending[v]
  BY DEF Known
<1>3. /\ Typed' /\ \A v \in Windows \ {w} : Placed(v)'
      /\ w \in Windows \ untold /\ InStep(w) /\ BornFirst(w)' /\ screen[w].life # "unborn"
      /\ \A k : Has(wire, k, w) <=> m.msg = k \/ Has(wire', k, w)
      /\ \A k : Latest(wire', k, w) \subseteq Latest(wire, k, w)
      /\ \A k : m.msg = k /\ ~Has(wire', k, w) => m \in Latest(wire, k, w)
      /\ ~Has(wire', "toplevel", w)
      /\ \/ m.msg = "done" \/ (m.msg = "closed" /\ ~DoneAfterClosed)
         \/ Has(wire', "done", w)
  BY <1>1, <1>2, Taken
<1>4. \A k \in {"toplevel", "title", "app_id", "state", "closed"} \ {m.msg} :
        Has(wire', k, w) <=> Has(wire, k, w)
  BY <1>3
<1>5. InStep(w)'
  <2>1. ~Has(wire, "toplevel", w)
    BY <1>3
  <2>2. ToldInFull(w)'
    BY <1>3 DEF ToldInFull
  <2>3. CASE ~Known(w)
    <3>1. screen[w].life = "gone"
      BY <1>3, <2>1, <2>3 DEF IInv, Typed, TypeOK, OpenWindows, Screen, Life, InStep, OpenIsKnown
    <3>2. OpenIsKnown(w)' /\ FocusArrives(w)'
      BY <3>1 DEF OpenIsKnown, FocusArrives
    <3>3. GoneIsClosed(w)' /\ ReportFollows(w)'
      BY <1>2, <1>3, <2>3 DEF GoneIsClosed, ReportFollows
    <3>4. AppIdArrives(w)'
      BY <1>2, <1>3, <2>3 DEF InStep, AppIdArrives
    <3>5. TitleArrives(w)'
      BY <1>2, <1>3, <2>3 DEF InStep, TitleArrives
    <3> QED BY <1>3, <2>2, <3>2, <3>3, <3>4, <3>5 DEF InStep
  <2>4. CASE m.msg = "done" /\ ~Described(w)
    <3>1. \A k \in {"toplevel", "title", "app_id", "state", "closed"} :
            Has(wire', k, w) <=> Has(wire, k, w)
      BY <1>4, <2>4
    <3>2. OpenIsKnown(w)' /\ GoneIsClosed(w)'
      BY <1>2, <1>3, <3>1 DEF InStep, OpenIsKnown, GoneIsClosed
    <3>3. FocusArrives(w)'
      BY <1>2, <1>3, <3>1 DEF InStep, FocusArrives
    <3>4. AppIdArrives(w)' /\ TitleArrives(w)'
      BY <1>2, <1>3, <3>1 DEF InStep, AppIdArrives, TitleArrives
    <3>5. ReportFollows(w)'
      BY <1>2, <1>3, <2>4 DEF InStep, ReportFollows, Described
    <3> QED BY <1>3, <2>2, <3>2, <3>3, <3>4, <3>5 DEF InStep
  <2> QED BY <2>3, <2>4
<1> QED BY <1>3, <1>5 DEF IInv, Placed

LEMMA HandleToplevelStep ==
    ASSUME IInv, wire # <<>>, NEW m, m = Head(wire),
           wire' = Tail(wire), screen' = screen, active' = active, untold' = untold,
           HandleToplevel(m)
    PROVE  IInv'
<1> PICK w : w = m.win
  OBVIOUS
<1>1. /\ m.msg = "toplevel" /\ chan' = chan /\ w \in Windows
      /\ pending' = [v \in DOMAIN pending \cup {w} |-> IF v = w THEN NewPending ELSE pending[v]]
  <2>1. m \in Message
    BY TailFacts DEF IInv, Typed
  <2> QED BY <2>1 DEF HandleToplevel, Message
<1>2. /\ DOMAIN pending' = DOMAIN pending \cup {w} /\ pending'[w] = NewPending
      /\ \A v \in DOMAIN pending \ {w} : pending'[v] = pending[v]
  BY <1>1
<1>3. NewPending \in Pending
  BY DEF NewPending, Pending
<1>4. TypeOK'
  BY <1>1, <1>2, <1>3 DEF IInv, Typed, TypeOK, OpenWindows
<1>5. /\ Known(w)'
      /\ \A v \in Windows \ {w} :
           (Known(v)' <=> Known(v)) /\ (Known(v) => pending'[v] = pending[v])
  BY <1>2 DEF Known
<1>6. /\ Typed' /\ \A v \in Windows \ {w} : Placed(v)'
      /\ w \in Windows \ untold /\ InStep(w) /\ BornFirst(w)' /\ screen[w].life # "unborn"
      /\ \A k : Has(wire, k, w) <=> m.msg = k \/ Has(wire', k, w)
      /\ \A k : Latest(wire', k, w) \subseteq Latest(wire, k, w)
      /\ \A k : m.msg = k /\ ~Has(wire', k, w) => m \in Latest(wire, k, w)
      /\ ~Has(wire', "toplevel", w)
      /\ \/ m.msg = "done" \/ (m.msg = "closed" /\ ~DoneAfterClosed)
         \/ Has(wire', "done", w)
  BY <1>4, <1>5, Taken
<1>7. ~Known(w) /\ Has(wire, "toplevel", w) /\ Has(wire, "app_id", w) /\ Has(wire, "state", w)
  BY <1>1, <1>6 DEF InStep, ToldInFull
<1>8. \A k \in {"title", "app_id", "state", "closed", "done"} :
        Has(wire', k, w) <=> Has(wire, k, w)
  BY <1>1, <1>6
<1>9. /\ pending'[w].type = "Opened" /\ pending'[w].appId = NoClass
      /\ ~pending'[w].titled
  BY <1>2 DEF NewPending
<1>10. InStep(w)'
  <2>1. ToldInFull(w)'
    BY <1>6 DEF ToldInFull
  <2>2. OpenIsKnown(w)'
    BY <1>5, <1>6, <1>8, <1>9 DEF InStep, OpenIsKnown
  <2>3. GoneIsClosed(w)'
    BY <1>6, <1>7, <1>8 DEF InStep, GoneIsClosed
  <2>4. AppIdArrives(w)'
    BY <1>6, <1>7, <1>8 DEF InStep, AppIdArrives
  <2>5. TitleArrives(w)'
    BY <1>6, <1>7, <1>8, <1>9 DEF InStep, TitleArrives
  <2>6. FocusArrives(w)'
    BY <1>6, <1>7, <1>8 DEF InStep, FocusArrives
  <2>7. ReportFollows(w)'
    BY <1>9 DEF ReportFollows, Described
  <2> QED BY <1>6, <2>1, <2>2, <2>3, <2>4, <2>5, <2>6, <2>7 DEF InStep
<1> QED BY <1>6, <1>10 DEF IInv, Placed

LEMMA HandleTitleStep ==
    ASSUME IInv, wire # <<>>, NEW m, m = Head(wire),
           wire' = Tail(wire), screen' = screen, active' = active, untold' = untold,
           HandleTitle(m)
    PROVE  IInv'
<1> PICK w : w = m.win
  OBVIOUS
<1> PICK p : p = [pending[m.win] EXCEPT !.titled = TRUE]
  OBVIOUS
<1>1. /\ m.msg = "title" /\ chan' = chan /\ Update(w, p)
      /\ w \in Windows
  <2>1. m \in Message
    BY TailFacts DEF IInv, Typed
  <2> QED BY <2>1 DEF HandleTitle, Message
<1>2. CASE ~Known(w)
  <2>1. pending' = pending
    BY <1>1, <1>2 DEF Update
  <2> QED BY <1>1, <1>2, <2>1, Ignored
<1>3. CASE Known(w)
  <2> PICK q : q = pending[w]
    OBVIOUS
  <2>1. q \in Pending /\ p \in Pending
    BY <1>1, <1>3 DEF IInv, Typed, TypeOK, OpenWindows, Pending, Known
  <2>2. p.type = q.type /\ p.appId = q.appId /\ p.focused = q.focused /\ p.titled
    BY <1>1, <2>1 DEF Pending
  <2>3. /\ DOMAIN pending' = DOMAIN pending /\ Known(w)' /\ pending'[w] = p
        /\ \A v \in Windows \ {w} :
             (Known(v)' <=> Known(v)) /\ (Known(v) => pending'[v] = pending[v])
        /\ \A v \in DOMAIN pending' : pending'[v] \in Pending
    BY <1>1, <1>3, <2>1, Updated DEF IInv, Typed
  <2>4. TypeOK'
    BY <1>1, <2>3 DEF IInv, Typed, TypeOK, OpenWindows
  <2>5. /\ Typed' /\ \A v \in Windows \ {w} : Placed(v)'
        /\ w \in Windows \ untold /\ InStep(w) /\ BornFirst(w)' /\ screen[w].life # "unborn"
        /\ \A k : Has(wire, k, w) <=> m.msg = k \/ Has(wire', k, w)
        /\ \A k : Latest(wire', k, w) \subseteq Latest(wire, k, w)
        /\ \A k : m.msg = k /\ ~Has(wire', k, w) => m \in Latest(wire, k, w)
        /\ ~Has(wire', "toplevel", w)
        /\ \/ m.msg = "done" \/ (m.msg = "closed" /\ ~DoneAfterClosed)
           \/ Has(wire', "done", w)
    BY <2>3, <2>4, Taken
  <2>6. \A k \in {"toplevel", "app_id", "state", "closed", "done"} :
          Has(wire', k, w) <=> Has(wire, k, w)
    BY <1>1, <2>5
  <2>7. Has(wire, "title", w) /\ Has(wire', "done", w)
    BY <1>1, <2>5
  <2>10. InStep(w)'
    <3>0. ToldInFull(w)'
      BY <2>5 DEF ToldInFull
    <3>1. OpenIsKnown(w)' /\ GoneIsClosed(w)'
      BY <1>3, <2>2, <2>3, <2>5, <2>6 DEF InStep, OpenIsKnown, GoneIsClosed
    <3>2. AppIdArrives(w)'
      BY <1>3, <2>2, <2>3, <2>5, <2>6 DEF InStep, AppIdArrives
    <3>3. TitleArrives(w)'
      BY <2>2, <2>3, <2>5, <2>7 DEF InStep, TitleArrives
    <3>4. FocusArrives(w)'
      BY <1>3, <2>2, <2>3, <2>5, <2>6 DEF InStep, FocusArrives
    <3>5. ReportFollows(w)'
      BY <1>3, <2>2, <2>3, <2>5, <2>7 DEF InStep, ReportFollows, Described
    <3> QED BY <2>5, <3>0, <3>1, <3>2, <3>3, <3>4, <3>5 DEF InStep
  <2> QED BY <2>5, <2>10 DEF IInv, Placed
<1> QED BY <1>2, <1>3

LEMMA HandleAppIdStep ==
    ASSUME IInv, wire # <<>>, NEW m, m = Head(wire),
           wire' = Tail(wire), screen' = screen, active' = active, untold' = untold,
           HandleAppId(m)
    PROVE  IInv'
<1> PICK w : w = m.win
  OBVIOUS
<1> PICK p : p = [pending[m.win] EXCEPT !.appId = m.class]
  OBVIOUS
<1>1. /\ m.msg = "app_id" /\ chan' = chan /\ Update(w, p)
      /\ w \in Windows /\ m.class \in Classes
  <2>1. m \in Message
    BY TailFacts DEF IInv, Typed
  <2> QED BY <2>1 DEF HandleAppId, Message
<1>2. CASE ~Known(w)
  <2>1. pending' = pending
    BY <1>1, <1>2 DEF Update
  <2> QED BY <1>1, <1>2, <2>1, Ignored
<1>3. CASE Known(w)
  <2> PICK q : q = pending[w]
    OBVIOUS
  <2>1. q \in Pending /\ p \in Pending
    BY <1>1, <1>3 DEF IInv, Typed, TypeOK, OpenWindows, Pending, Known
  <2>2. p.type = q.type /\ p.appId = m.class /\ p.focused = q.focused /\ (p.titled <=> q.titled)
    BY <1>1, <2>1 DEF Pending
  <2>3. /\ DOMAIN pending' = DOMAIN pending /\ Known(w)' /\ pending'[w] = p
        /\ \A v \in Windows \ {w} :
             (Known(v)' <=> Known(v)) /\ (Known(v) => pending'[v] = pending[v])
        /\ \A v \in DOMAIN pending' : pending'[v] \in Pending
    BY <1>1, <1>3, <2>1, Updated DEF IInv, Typed
  <2>4. TypeOK'
    BY <1>1, <2>3 DEF IInv, Typed, TypeOK, OpenWindows
  <2>5. /\ Typed' /\ \A v \in Windows \ {w} : Placed(v)'
        /\ w \in Windows \ untold /\ InStep(w) /\ BornFirst(w)' /\ screen[w].life # "unborn"
        /\ \A k : Has(wire, k, w) <=> m.msg = k \/ Has(wire', k, w)
        /\ \A k : Latest(wire', k, w) \subseteq Latest(wire, k, w)
        /\ \A k : m.msg = k /\ ~Has(wire', k, w) => m \in Latest(wire, k, w)
        /\ ~Has(wire', "toplevel", w)
        /\ \/ m.msg = "done" \/ (m.msg = "closed" /\ ~DoneAfterClosed)
           \/ Has(wire', "done", w)
    BY <2>3, <2>4, Taken
  <2>6. \A k \in {"toplevel", "title", "state", "closed", "done"} :
          Has(wire', k, w) <=> Has(wire, k, w)
    BY <1>1, <2>5
  <2>7. Has(wire', "done", w) /\ m.class # NoClass
    BY <1>1, <2>5, NullAssumption
  <2>10. InStep(w)'
    <3>0. ToldInFull(w)'
      BY <2>5 DEF ToldInFull
    <3>1. OpenIsKnown(w)' /\ GoneIsClosed(w)'
      BY <1>3, <2>2, <2>3, <2>5, <2>6 DEF InStep, OpenIsKnown, GoneIsClosed
    <3>2. AppIdArrives(w)'
      BY <1>1, <2>2, <2>3, <2>5 DEF InStep, AppIdArrives
    <3>3. TitleArrives(w)'
      BY <1>3, <2>2, <2>3, <2>5, <2>6 DEF InStep, TitleArrives
    <3>4. FocusArrives(w)'
      BY <1>3, <2>2, <2>3, <2>5, <2>6 DEF InStep, FocusArrives
    <3>5. ReportFollows(w)'
      BY <1>3, <2>2, <2>3, <2>5, <2>7 DEF InStep, ReportFollows, Described
    <3> QED BY <2>5, <3>0, <3>1, <3>2, <3>3, <3>4, <3>5 DEF InStep
  <2> QED BY <2>5, <2>10 DEF IInv, Placed
<1> QED BY <1>2, <1>3

LEMMA HandleStateStep ==
    ASSUME IInv, wire # <<>>, NEW m, m = Head(wire),
           wire' = Tail(wire), screen' = screen, active' = active, untold' = untold,
           HandleState(m)
    PROVE  IInv'
<1> PICK w : w = m.win
  OBVIOUS
<1> PICK p : p = [pending[m.win] EXCEPT !.focused = m.focused]
  OBVIOUS
<1>1. /\ m.msg = "state" /\ chan' = chan /\ Update(w, p)
      /\ w \in Windows /\ m.focused \in BOOLEAN
  <2>1. m \in Message
    BY TailFacts DEF IInv, Typed
  <2> QED BY <2>1 DEF HandleState, Message
<1>2. CASE ~Known(w)
  <2>1. pending' = pending
    BY <1>1, <1>2 DEF Update
  <2> QED BY <1>1, <1>2, <2>1, Ignored
<1>3. CASE Known(w)
  <2> PICK q : q = pending[w]
    OBVIOUS
  <2>1. q \in Pending /\ p \in Pending
    BY <1>1, <1>3 DEF IInv, Typed, TypeOK, OpenWindows, Pending, Known
  <2>2. p.type = q.type /\ p.appId = q.appId /\ p.focused = m.focused /\ (p.titled <=> q.titled)
    BY <1>1, <2>1 DEF Pending
  <2>3. /\ DOMAIN pending' = DOMAIN pending /\ Known(w)' /\ pending'[w] = p
        /\ \A v \in Windows \ {w} :
             (Known(v)' <=> Known(v)) /\ (Known(v) => pending'[v] = pending[v])
        /\ \A v \in DOMAIN pending' : pending'[v] \in Pending
    BY <1>1, <1>3, <2>1, Updated DEF IInv, Typed
  <2>4. TypeOK'
    BY <1>1, <2>3 DEF IInv, Typed, TypeOK, OpenWindows
  <2>5. /\ Typed' /\ \A v \in Windows \ {w} : Placed(v)'
        /\ w \in Windows \ untold /\ InStep(w) /\ BornFirst(w)' /\ screen[w].life # "unborn"
        /\ \A k : Has(wire, k, w) <=> m.msg = k \/ Has(wire', k, w)
        /\ \A k : Latest(wire', k, w) \subseteq Latest(wire, k, w)
        /\ \A k : m.msg = k /\ ~Has(wire', k, w) => m \in Latest(wire, k, w)
        /\ ~Has(wire', "toplevel", w)
        /\ \/ m.msg = "done" \/ (m.msg = "closed" /\ ~DoneAfterClosed)
           \/ Has(wire', "done", w)
    BY <2>3, <2>4, Taken
  <2>6. \A k \in {"toplevel", "title", "app_id", "closed", "done"} :
          Has(wire', k, w) <=> Has(wire, k, w)
    BY <1>1, <2>5
  <2>7. Has(wire', "done", w)
    BY <1>1, <2>5
  <2>10. InStep(w)'
    <3>0. ToldInFull(w)'
      BY <2>5 DEF ToldInFull
    <3>1. OpenIsKnown(w)' /\ GoneIsClosed(w)'
      BY <1>3, <2>2, <2>3, <2>5, <2>6 DEF InStep, OpenIsKnown, GoneIsClosed
    <3>2. AppIdArrives(w)'
      BY <1>3, <2>2, <2>3, <2>5, <2>6 DEF InStep, AppIdArrives
    <3>3. TitleArrives(w)'
      BY <1>3, <2>2, <2>3, <2>5, <2>6 DEF InStep, TitleArrives
    <3>4. FocusArrives(w)'
      BY <1>1, <2>2, <2>3, <2>5 DEF InStep, FocusArrives
    <3>5. ReportFollows(w)'
      BY <1>3, <2>2, <2>3, <2>5, <2>7 DEF InStep, ReportFollows, Described
    <3> QED BY <2>5, <3>0, <3>1, <3>2, <3>3, <3>4, <3>5 DEF InStep
  <2> QED BY <2>5, <2>10 DEF IInv, Placed
<1> QED BY <1>2, <1>3

LEMMA HandleClosedStep ==
    ASSUME IInv, wire # <<>>, NEW m, m = Head(wire),
           wire' = Tail(wire), screen' = screen, active' = active, untold' = untold,
           HandleClosed(m)
    PROVE  IInv'
<1> PICK w : w = m.win
  OBVIOUS
<1> PICK p : p = [pending[m.win] EXCEPT !.type = "Closed"]
  OBVIOUS
<1>1. /\ m.msg = "closed" /\ chan' = chan /\ Update(w, p)
      /\ w \in Windows
  <2>1. m \in Message
    BY TailFacts DEF IInv, Typed
  <2> QED BY <2>1 DEF HandleClosed, Message
<1>2. CASE ~Known(w)
  <2>1. pending' = pending
    BY <1>1, <1>2 DEF Update
  <2> QED BY <1>1, <1>2, <2>1, Ignored
<1>3. CASE Known(w)
  <2> PICK q : q = pending[w]
    OBVIOUS
  <2>1. q \in Pending /\ p \in Pending
    BY <1>1, <1>3 DEF IInv, Typed, TypeOK, OpenWindows, Pending, Known
  <2>2. p.type = "Closed" /\ p.appId = q.appId /\ p.focused = q.focused /\ (p.titled <=> q.titled)
    BY <1>1, <2>1 DEF Pending
  <2>3. /\ DOMAIN pending' = DOMAIN pending /\ Known(w)' /\ pending'[w] = p
        /\ \A v \in Windows \ {w} :
             (Known(v)' <=> Known(v)) /\ (Known(v) => pending'[v] = pending[v])
        /\ \A v \in DOMAIN pending' : pending'[v] \in Pending
    BY <1>1, <1>3, <2>1, Updated DEF IInv, Typed
  <2>4. TypeOK'
    BY <1>1, <2>3 DEF IInv, Typed, TypeOK, OpenWindows
  <2>5. /\ Typed' /\ \A v \in Windows \ {w} : Placed(v)'
        /\ w \in Windows \ untold /\ InStep(w) /\ BornFirst(w)' /\ screen[w].life # "unborn"
        /\ \A k : Has(wire, k, w) <=> m.msg = k \/ Has(wire', k, w)
        /\ \A k : Latest(wire', k, w) \subseteq Latest(wire, k, w)
        /\ \A k : m.msg = k /\ ~Has(wire', k, w) => m \in Latest(wire, k, w)
        /\ ~Has(wire', "toplevel", w)
        /\ \/ m.msg = "done" \/ (m.msg = "closed" /\ ~DoneAfterClosed)
           \/ Has(wire', "done", w)
    BY <2>3, <2>4, Taken
  <2>6. \A k \in {"toplevel", "title", "app_id", "state", "done"} :
          Has(wire', k, w) <=> Has(wire, k, w)
    BY <1>1, <2>5
  <2>7. screen[w].life # "open" /\ (DoneAfterClosed => Has(wire', "done", w))
    BY <1>1, <2>5 DEF InStep, OpenIsKnown
  <2>10. InStep(w)'
    <3>0. ToldInFull(w)'
      BY <2>5 DEF ToldInFull
    <3>1. OpenIsKnown(w)' /\ GoneIsClosed(w)'
      BY <2>2, <2>3, <2>7 DEF OpenIsKnown, GoneIsClosed
    <3>2. AppIdArrives(w)'
      BY <1>3, <2>2, <2>3, <2>5, <2>6 DEF InStep, AppIdArrives
    <3>3. TitleArrives(w)'
      BY <1>3, <2>2, <2>3, <2>5, <2>6 DEF InStep, TitleArrives
    <3>4. FocusArrives(w)'
      BY <2>7 DEF FocusArrives
    <3>5. ReportFollows(w)'
      BY <2>2, <2>3, <2>7 DEF ReportFollows
    <3> QED BY <2>5, <3>0, <3>1, <3>2, <3>3, <3>4, <3>5 DEF InStep
  <2> QED BY <2>5, <2>10 DEF IInv, Placed
<1> QED BY <1>2, <1>3

LEMMA HandleDoneStep ==
    ASSUME IInv, wire # <<>>, NEW m, m = Head(wire),
           wire' = Tail(wire), screen' = screen, active' = active, untold' = untold,
           HandleDone(m)
    PROVE  IInv'
<1> PICK w : w = m.win
  OBVIOUS
<1>1. m.msg = "done" /\ w \in Windows
  <2>1. m \in Message
    BY TailFacts DEF IInv, Typed
  <2> QED BY <2>1 DEF HandleDone, Message
<1>2. CASE ~Described(w)
  BY <1>1, <1>2, Ignored DEF HandleDone
<1>3. CASE Described(w)
  <2> PICK p : p = pending[w]
    OBVIOUS
  <2>1. /\ HasRoom /\ chan' = Append(chan, Report(w)) /\ pending' = AfterReport(w)
        /\ Known(w) /\ p \in Pending /\ p.appId \in Classes
    BY <1>1, <1>3 DEF HandleDone, Described, IInv, Typed, TypeOK, OpenWindows, Known, Pending
  <2>2. chan' \in Seq(Event) /\ Len(chan') <= Cap
    <3>1. Report(w) \in Event
      BY <1>1, <2>1 DEF Report, Event, Pending
    <3>2. chan \in Seq(Event)
      BY DEF IInv, Typed, TypeOK, OpenWindows
    <3>3. chan' \in Seq(Event) /\ Len(chan') = Len(chan) + 1 /\ Len(chan) \in Nat
      BY <2>1, <3>1, <3>2, AppendFacts
    <3> QED BY <2>1, <3>3, CapAssumption DEF HasRoom
  <2>3. CASE p.type \in {"Opened", "StateChanged"}
    <3> PICK q : q = [p EXCEPT !.type = "StateChanged"]
      OBVIOUS
    <3>1. /\ q \in Pending /\ q.type = "StateChanged" /\ q.appId = p.appId
          /\ q.focused = p.focused
      BY <2>1 DEF Pending
    <3>2. q.titled <=> p.titled
      BY <2>1 DEF Pending
    <3>3. /\ DOMAIN pending' = DOMAIN pending /\ pending'[w] = q
          /\ \A v \in DOMAIN pending \ {w} : pending'[v] = pending[v]
      <4>1. CASE p.type = "Opened"
        <5>1. pending' = [pending EXCEPT ![w].type = "StateChanged"]
          BY <2>1, <4>1 DEF AfterReport
        <5> QED BY <5>1, <2>1 DEF Known
      <4>2. CASE p.type = "StateChanged"
        <5>1. pending' = pending
          BY <2>1, <4>2 DEF AfterReport
        <5>2. q = p
          BY <2>1, <4>2 DEF Pending
        <5> QED BY <5>1, <5>2
      <4> QED BY <2>3, <4>1, <4>2
    <3>4. TypeOK'
      BY <2>2, <3>1, <3>3 DEF IInv, Typed, TypeOK, OpenWindows
    <3>5. /\ Known(w)'
          /\ \A v \in Windows \ {w} :
               (Known(v)' <=> Known(v)) /\ (Known(v) => pending'[v] = pending[v])
      BY <2>1, <3>3 DEF Known
    <3>6. /\ Typed' /\ \A v \in Windows \ {w} : Placed(v)'
          /\ w \in Windows \ untold /\ InStep(w) /\ BornFirst(w)' /\ screen[w].life # "unborn"
          /\ \A k : Has(wire, k, w) <=> m.msg = k \/ Has(wire', k, w)
          /\ \A k : Latest(wire', k, w) \subseteq Latest(wire, k, w)
          /\ \A k : m.msg = k /\ ~Has(wire', k, w) => m \in Latest(wire, k, w)
          /\ ~Has(wire', "toplevel", w)
          /\ \/ m.msg = "done" \/ (m.msg = "closed" /\ ~DoneAfterClosed)
             \/ Has(wire', "done", w)
      BY <3>4, <3>5, Taken
    <3>7. \A k \in {"toplevel", "title", "app_id", "state", "closed"} :
            Has(wire', k, w) <=> Has(wire, k, w)
      BY <1>1, <3>6
    <3>8. InStep(w)'
      <4>1. ToldInFull(w)' /\ OpenIsKnown(w)'
        BY <3>1, <3>3, <3>5, <3>6, <3>7 DEF InStep, ToldInFull, OpenIsKnown
      <4>2. GoneIsClosed(w)'
        BY <2>1, <2>3, <3>6, <3>7 DEF InStep, GoneIsClosed
      <4>3. AppIdArrives(w)'
        BY <2>1, <3>1, <3>3, <3>6, <3>7 DEF InStep, AppIdArrives
      <4>4. TitleArrives(w)'
        BY <2>1, <3>2, <3>3, <3>6, <3>7 DEF InStep, TitleArrives
      <4>5. FocusArrives(w)'
        BY <2>1, <3>1, <3>3, <3>6, <3>7 DEF InStep, FocusArrives
      <4>6. ReportFollows(w)'
        BY <1>3, <2>1, <3>1, <3>2, <3>3, <3>5 DEF ReportFollows, Described
      <4> QED BY <3>6, <4>1, <4>2, <4>3, <4>4, <4>5, <4>6 DEF InStep
    <3> QED BY <3>6, <3>8 DEF IInv, Placed
  <2>4. CASE p.type = "Closed"
    <3>1. pending' = Forgotten(w)
      BY <2>1, <2>4 DEF AfterReport
    <3>2. /\ DOMAIN pending' = DOMAIN pending \ {w}
          /\ \A v \in DOMAIN pending \ {w} : pending'[v] = pending[v]
      BY <3>1 DEF Forgotten, Restrict
    <3>3. TypeOK'
      BY <2>2, <3>2 DEF IInv, Typed, TypeOK, OpenWindows
    <3>4. /\ ~Known(w)'
          /\ \A v \in Windows \ {w} :
               (Known(v)' <=> Known(v)) /\ (Known(v) => pending'[v] = pending[v])
      BY <3>2 DEF Known
    <3>5. /\ Typed' /\ \A v \in Windows \ {w} : Placed(v)'
          /\ w \in Windows \ untold /\ InStep(w) /\ BornFirst(w)' /\ screen[w].life # "unborn"
          /\ \A k : Has(wire, k, w) <=> m.msg = k \/ Has(wire', k, w)
          /\ \A k : Latest(wire', k, w) \subseteq Latest(wire, k, w)
          /\ \A k : m.msg = k /\ ~Has(wire', k, w) => m \in Latest(wire, k, w)
          /\ ~Has(wire', "toplevel", w)
          /\ \/ m.msg = "done" \/ (m.msg = "closed" /\ ~DoneAfterClosed)
             \/ Has(wire', "done", w)
      BY <3>3, <3>4, Taken
    <3>6. \A k \in {"toplevel", "title", "app_id", "state", "closed"} :
            Has(wire', k, w) <=> Has(wire, k, w)
      BY <1>1, <3>5
    <3>7. screen[w].life # "open"
      BY <2>4, <3>5, <3>6 DEF InStep, OpenIsKnown
    <3>8. InStep(w)'
      <4>1. ToldInFull(w)' /\ OpenIsKnown(w)' /\ GoneIsClosed(w)' /\ FocusArrives(w)'
        BY <3>4, <3>5, <3>7 DEF ToldInFull, OpenIsKnown, GoneIsClosed, FocusArrives
      <4>2. AppIdArrives(w)'
        BY <3>4, <3>5 DEF InStep, AppIdArrives
      <4>3. TitleArrives(w)'
        BY <3>4, <3>5, <3>6 DEF InStep, TitleArrives
      <4>4. ReportFollows(w)'
        BY <3>4 DEF ReportFollows
      <4> QED BY <3>5, <4>1, <4>2, <4>3, <4>4 DEF InStep
    <3> QED BY <3>5, <3>8 DEF IInv, Placed
  <2> QED BY <2>1, <2>3, <2>4 DEF Pending
<1> QED BY <1>2, <1>3

LEMMA DispatchStep ==
    ASSUME IInv, Dispatch
    PROVE  IInv'
<1> PICK m : m = Head(wire)
  OBVIOUS
<1>1. /\ wire # <<>> /\ wire' = Tail(wire)
      /\ screen' = screen /\ active' = active /\ untold' = untold
      /\ \/ HandleToplevel(m) \/ HandleTitle(m) \/ HandleAppId(m)
         \/ HandleState(m) \/ HandleClosed(m) \/ HandleDone(m)
  BY DEF Dispatch
<1>2. CASE HandleToplevel(m)
  BY <1>1, <1>2, HandleToplevelStep
<1>3. CASE HandleTitle(m)
  BY <1>1, <1>3, HandleTitleStep
<1>4. CASE HandleAppId(m)
  BY <1>1, <1>4, HandleAppIdStep
<1>5. CASE HandleState(m)
  BY <1>1, <1>5, HandleStateStep
<1>6. CASE HandleClosed(m)
  BY <1>1, <1>6, HandleClosedStep
<1>7. CASE HandleDone(m)
  BY <1>1, <1>7, HandleDoneStep
<1> QED BY <1>1, <1>2, <1>3, <1>4, <1>5, <1>6, <1>7

\* A step only the channel sees
LEMMA Elsewhere ==
    ASSUME IInv, screen' = screen, active' = active, untold' = untold, wire' = wire, pending' = pending,
           chan' \in Seq(Event), Len(chan') <= Cap
    PROVE  IInv'
<1>1. TypeOK'
  BY DEF IInv, Typed, TypeOK, OpenWindows
<1>2. Typed'
  BY <1>1 DEF IInv, Typed
<1>3. \A v : Known(v)' <=> Known(v)
  BY DEF Known
<1>4. ASSUME NEW v \in Windows PROVE Placed(v)'
  <2>1. Placed(v)
    BY DEF IInv
  <2> QED BY <1>3, <2>1, Undisturbed
<1> QED BY <1>2, <1>4 DEF IInv

LEMMA ReceiveStep ==
    ASSUME IInv, Receive
    PROVE  IInv'
<1>1. chan \in Seq(Event) /\ Len(chan) <= Cap /\ chan # <<>> /\ chan' = Tail(chan)
  BY DEF Receive, IInv, Typed, TypeOK
<1>2. Tail(chan) \in Seq(Event) /\ Len(Tail(chan)) = Len(chan) - 1 /\ Len(chan) \in Nat \ {0}
  BY <1>1, TailFacts
<1>3. chan' \in Seq(Event) /\ Len(chan') <= Cap
  BY <1>1, <1>2, CapAssumption
<1> QED BY <1>3, Elsewhere DEF Receive

\* A new client: what is gone needs no word, what is open is yet to be told.
LEMMA ReconnectStep ==
    ASSUME IInv, Reconnect
    PROVE  IInv'
<1>1. /\ untold' = OpenWindows /\ wire' = <<>> /\ pending' = <<>> /\ chan' = <<>>
      /\ screen' = screen /\ active' = active
  BY DEF Reconnect
<1>2. DOMAIN wire' = {} /\ wire' \in Seq(Message) /\ DOMAIN pending' = {}
  BY <1>1
<1>3. TypeOK /\ (active # NoWindow => screen[active].life = "open")
  BY DEF IInv, Typed
<1>4. TypeOK'
  <2>1. chan' \in Seq(Event) /\ Len(chan') = 0
    BY <1>1
  <2>2. Len(chan') <= Cap
    BY <2>1, CapAssumption
  <2>3. DOMAIN pending' \subseteq Windows /\ \A w \in DOMAIN pending' : pending'[w] \in Pending
    BY ONLY <1>2
  <2>4. /\ screen' \in [Windows -> Screen] /\ active' \in Windows \cup {NoWindow}
        /\ untold' \subseteq OpenWindows'
    BY <1>1, <1>3 DEF TypeOK, OpenWindows
  <2> QED BY ONLY <2>1, <2>2, <2>3, <2>4 DEF TypeOK
<1>5. Typed'
  BY <1>1, <1>2, <1>3, <1>4 DEF Typed, IntroducedFirst, EndsInDone
<1>6. ASSUME NEW w \in Windows PROVE Placed(w)'
  <2>1. ~Known(w)' /\ ~Mentions(wire', w)
    BY <1>2 DEF Known, Mentions
  <2>2. \A m : ~Has(wire', m, w) /\ Latest(wire', m, w) = {}
    BY <2>1, NotMentioned
  <2>3. Placed(w) /\ screen[w] \in Screen
    BY <1>3 DEF IInv, TypeOK
  <2>4. screen[w].life # "unborn" => screen[w].appId \in Classes
    BY <2>3 DEF Placed, Untold, InStep, BornFirst
  <2>5. CASE w \in untold'
    <3>1. screen[w].life = "open"
      BY <1>1, <2>5 DEF OpenWindows
    <3> QED BY <1>1, <2>1, <2>4, <2>5, <3>1 DEF Placed, Untold
  <2>6. CASE w \notin untold'
    <3>1. screen'[w].life # "open"
      BY <1>1, <2>6 DEF OpenWindows
    <3>2. BornFirst(w)'
      BY <1>1, <2>1, <2>4 DEF BornFirst
    <3> QED
      BY <1>1, <2>1, <2>2, <2>6, <3>1, <3>2 DEF Placed, InStep, ToldInFull, OpenIsKnown,
         GoneIsClosed, AppIdArrives, TitleArrives, FocusArrives, ReportFollows
  <2> QED BY <2>5, <2>6
<1> QED BY <1>5, <1>6 DEF IInv

-----------------------------------------------------------------------------
(* The invariant *)

LEMMA InitIInv ==
    ASSUME Init
    PROVE  IInv
<1>1. /\ screen = [w \in Windows |-> [life |-> "unborn", appId |-> NoClass, titled |-> FALSE]]
      /\ active = NoWindow /\ untold = {}
      /\ wire = <<>> /\ pending = <<>> /\ chan = <<>>
  BY DEF Init
<1>2. DOMAIN wire = {} /\ wire \in Seq(Message) /\ DOMAIN pending = {}
  BY <1>1
<1>3. TypeOK
  <2>1. screen \in [Windows -> Screen]
    BY <1>1 DEF Screen, Life
  <2>2. chan \in Seq(Event) /\ Len(chan) = 0
    BY <1>1
  <2>3. Len(chan) <= Cap
    BY <2>2, CapAssumption
  <2>4. active \in Windows \cup {NoWindow} /\ untold \subseteq OpenWindows
    BY <1>1
  <2>5. DOMAIN pending \subseteq Windows /\ \A w \in DOMAIN pending : pending[w] \in Pending
    BY ONLY <1>2
  <2> QED BY ONLY <2>1, <2>2, <2>3, <2>4, <2>5 DEF TypeOK
<1>4. Typed
  BY <1>1, <1>2, <1>3 DEF Typed, IntroducedFirst, EndsInDone
<1>5. ASSUME NEW w \in Windows PROVE InStep(w)
  <2>1. ~Known(w) /\ ~Mentions(wire, w) /\ screen[w].life = "unborn"
    BY <1>1, <1>2 DEF Known, Mentions
  <2>2. ~screen[w].titled
    BY <1>1
  <2>3. \A m : ~Has(wire, m, w) /\ Latest(wire, m, w) = {}
    BY <2>1, NotMentioned
  <2> QED
    BY <2>1, <2>2, <2>3 DEF InStep, BornFirst, ToldInFull, OpenIsKnown, GoneIsClosed,
       AppIdArrives, TitleArrives, FocusArrives, ReportFollows
<1> QED BY <1>1, <1>4, <1>5 DEF IInv, Placed

LEMMA StepIInv ==
    ASSUME IInv, [Next]_tvars
    PROVE  IInv'
<1>1. CASE Change /\ UNCHANGED <<pending, chan>>
  <2>1. untold = {} /\ untold' = {} /\ UNCHANGED <<pending, chan>>
    BY <1>1 DEF Change
  <2>2. ASSUME NEW w \in Windows, NEW c \in Classes, NEW titled \in BOOLEAN, Map(w, c, titled)
        PROVE  IInv'
    BY <2>1, <2>2, MapStep
  <2>3. ASSUME NEW w \in Windows, NEW c \in Classes, SetAppId(w, c) PROVE IInv'
    BY <2>1, <2>3, SetAppIdStep
  <2>4. ASSUME NEW w \in Windows, SetTitle(w) PROVE IInv'
    BY <2>1, <2>4, SetTitleStep
  <2>5. ASSUME NEW w \in Windows, Activate(w) PROVE IInv'
    BY <2>1, <2>5, ActivateStep
  <2>6. ASSUME NEW w \in Windows, Unmap(w) PROVE IInv'
    BY <2>1, <2>6, UnmapStep
  <2>7. ASSUME Deactivate PROVE IInv'
    BY <2>1, <2>7, DeactivateStep
  <2> QED BY <1>1, <2>2, <2>3, <2>4, <2>5, <2>6, <2>7 DEF Change, WindowChange
<1>5. CASE (\E w \in Windows : Introduce(w)) /\ UNCHANGED <<pending, chan>>
  BY <1>5, IntroduceStep
<1>6. CASE Reconnect
  BY <1>6, ReconnectStep
<1>2. CASE Dispatch
  BY <1>2, DispatchStep
<1>3. CASE Receive
  BY <1>3, ReceiveStep
<1>4. CASE UNCHANGED tvars
  <2>1. chan \in Seq(Event) /\ Len(chan) <= Cap
    BY DEF IInv, Typed, TypeOK
  <2> QED BY <1>4, <2>1, Elsewhere DEF tvars
<1> QED BY <1>1, <1>2, <1>3, <1>4, <1>5, <1>6 DEF Next, Compositor

\* Whatever batches the compositor sends, and however far behind the module is,
\* nothing the compositor has said of a window is lost or overtaken: it is known
\* already or the last word on it is under way.
THEOREM ToplevelInvariant == Spec => []IInv
<1>1. Init => IInv
  BY InitIInv
<1>2. IInv /\ [Next]_tvars => IInv'
  BY StepIInv
<1> QED BY <1>1, <1>2, PTL DEF Spec

\* The module and its channel keep to their types and the channel to its capacity.
THEOREM TypeCorrect == Spec => []TypeOK
<1>1. IInv => TypeOK
  BY DEF IInv, Typed
<1> QED BY <1>1, ToplevelInvariant, PTL

\* The module, having taken all the compositor sent, knows every open window as it is.
THEOREM AlwaysKnowsOpenWindows == Spec => []KnowsOpenWindows
<1>1. ASSUME IInv, untold = {}, wire = <<>>, NEW w \in OpenWindows
      PROVE  /\ Known(w)
             /\ pending[w].appId = screen[w].appId
             /\ pending[w].titled = screen[w].titled
             /\ pending[w].focused = (w = active)
             /\ pending[w].type = (IF screen[w].titled THEN "StateChanged" ELSE "Opened")
  <2>1. w \in Windows /\ screen[w].life = "open" /\ InStep(w)
    BY <1>1 DEF OpenWindows, IInv, Placed
  <2>2. \A m : ~Has(wire, m, w)
    <3>1. DOMAIN wire = {}
      BY <1>1
    <3> QED BY <3>1 DEF Has
  <2>3. /\ Known(w) /\ pending[w].type # "Closed"
        /\ pending[w].appId = screen[w].appId /\ screen[w].appId \in Classes
        /\ pending[w].focused = (w = active)
    BY <2>1, <2>2 DEF InStep, OpenIsKnown, AppIdArrives, FocusArrives, BornFirst
  <2>4. pending[w].titled <=> screen[w].titled
    BY <2>1, <2>2, <2>3 DEF InStep, TitleArrives
  <2>5. pending[w] \in Pending /\ screen[w] \in Screen
    BY <1>1, <2>1, <2>3 DEF IInv, Typed, TypeOK, Known
  <2>6. pending[w].titled = screen[w].titled
    <3>1. pending[w].titled \in BOOLEAN /\ screen[w].titled \in BOOLEAN
      BY <2>5 DEF Pending, Screen
    <3> QED BY <2>4, <3>1
  <2>7. pending[w].appId # NoClass
    BY <2>3, NullAssumption
  <2>8. CASE screen[w].titled
    <3>1. Described(w)
      BY <2>3, <2>4, <2>7, <2>8 DEF Described
    <3>2. pending[w].type # "Opened"
      BY <2>1, <2>2, <2>3, <3>1 DEF InStep, ReportFollows
    <3> QED BY <2>3, <2>5, <2>6, <2>8, <3>2 DEF Pending
  <2>9. CASE ~screen[w].titled
    <3>1. pending[w].type # "StateChanged"
      BY <2>1, <2>3, <2>4, <2>9 DEF InStep, ReportFollows, Described
    <3> QED BY <2>3, <2>5, <2>6, <2>9, <3>1 DEF Pending
  <2> QED BY <2>8, <2>9
<1>2. IInv => KnowsOpenWindows
  BY <1>1 DEF KnowsOpenWindows, CaughtUp
<1> QED BY <1>2, ToplevelInvariant, PTL

\* With a done after every closed, the module lets go of every window that is gone
\* unless the window never had a title.
THEOREM OnlyUnnamedStay == Spec => [](DoneAfterClosed => OnlyUnnamedHandlesStay)
<1>1. ASSUME IInv, DoneAfterClosed, wire = <<>>,
             NEW w \in DOMAIN pending, screen[w].life = "gone", screen[w].titled
      PROVE  FALSE
  <2>1. w \in Windows /\ InStep(w) /\ Known(w)
    BY <1>1 DEF IInv, Typed, TypeOK, Known, Placed, Untold
  <2>2. \A m : ~Has(wire, m, w)
    <3>1. DOMAIN wire = {}
      BY <1>1
    <3> QED BY <3>1 DEF Has
  <2>3. /\ pending[w].type = "Closed" /\ pending[w].titled
        /\ pending[w].appId = screen[w].appId /\ screen[w].appId \in Classes
    BY <1>1, <2>1, <2>2 DEF InStep, GoneIsClosed, TitleArrives, AppIdArrives, BornFirst
  <2>4. Described(w)
    BY <2>1, <2>3, NullAssumption DEF Described
  <2> QED BY <1>1, <2>1, <2>2, <2>3, <2>4 DEF InStep, ReportFollows
<1>2. IInv => (DoneAfterClosed => OnlyUnnamedHandlesStay)
  BY <1>1 DEF OnlyUnnamedHandlesStay
<1> QED BY <1>2, ToplevelInvariant, PTL

-----------------------------------------------------------------------------
(* What is said last of a window, and what the dock hears of it.  IInv says   *)
(* what the messages come to; these say in which order they come, which is    *)
(* what the order of the events depends on.                                   *)

\* After closed nothing but done is said of a window, ...
ClosedLast(s) ==
    \A k, j \in DOMAIN s :
        s[k].msg = "closed" /\ s[j].win = s[k].win /\ k < j => s[j].msg = "done"

\* ... and what is said before it is complete when closed comes.
DoneBeforeClosed(s) ==
    \A k \in DOMAIN s : s[k].msg = "closed" =>
        \A j \in 1 .. k - 1 : s[j].win = s[k].win =>
            \E i \in j .. k - 1 : s[i].msg = "done" /\ s[i].win = s[k].win

\* The same for what the module has taken: a window it knows to be closed is not
\* spoken of, and one it can name but has not reported has a done before closed.
Leaves(w) ==
    Known(w) =>
        /\ pending[w].type = "Closed" =>
             \A k \in DOMAIN wire : wire[k].win = w => wire[k].msg = "done"
        /\ pending[w].type = "Opened" /\ Described(w) =>
             \A k \in DOMAIN wire : wire[k].msg = "closed" /\ wire[k].win = w =>
                \E i \in 1 .. k - 1 : wire[i].msg = "done" /\ wire[i].win = w

\* The app_ids messages s speak of are those of screen sc.
AppIdsTrue(s, sc) == \A k \in DOMAIN s : s[k].msg = "app_id" => s[k].class = sc[s[k].win].appId

\* When app_ids do not change, none but the true one is ever spoken of.
ClassesTrue ==
    ~AppIdChanges =>
        /\ AppIdsTrue(wire, screen)
        /\ \A w \in DOMAIN pending : pending[w].appId \in {NoClass, screen[w].appId}
        /\ \A k \in DOMAIN chan : /\ screen[chan[k].win].life # "unborn"
                                  /\ chan[k].class = screen[chan[k].win].appId

InOrder ==
    /\ ClosedLast(wire) /\ DoneBeforeClosed(wire)
    /\ \A w \in Windows : Leaves(w)

\* The module has yet to report w; it has, and has not reported that it closed.
Unreported(w) ==
    \/ w \in untold \/ screen[w].life = "unborn" \/ Has(wire, "toplevel", w)
    \/ Known(w) /\ pending[w].type = "Opened"
Reported(w) ==
    /\ Known(w)
    /\ pending[w].type = "StateChanged" \/ (pending[w].type = "Closed" /\ Described(w))

\* What the compositor adds to the wire: a batch b about windows that are not
\* closed, which introduces none twice and speaks of the app_ids there are.
Adds(b) ==
    /\ b \in Seq(Message) /\ wire' = wire \o b /\ pending' = pending /\ chan' = chan
    /\ \A w \in Windows : Mentions(b, w) =>
         ~Has(wire, "closed", w) /\ (Known(w) => pending[w].type # "Closed")
    /\ (\A w : ~Has(b, "closed", w)) \/ (\E w \in Windows : b = Closing(w))
    /\ \A w \in Windows : Has(b, "toplevel", w) => w \in untold \/ screen[w].life = "unborn"
    /\ untold' \subseteq untold
    /\ \A w \in Windows : screen'[w].life = "unborn" => screen[w].life = "unborn"
    /\ AppIdsTrue(b, screen')
    /\ \A w \in Windows : ~AppIdChanges /\ screen[w].life # "unborn" =>
         screen'[w].appId = screen[w].appId

\* An open window may be spoken of, as may one that has not been.
LEMMA MayBeMentioned ==
    ASSUME IInv, NEW w \in Windows
    PROVE  /\ screen[w].life = "open" /\ w \notin untold =>
                ~Has(wire, "closed", w) /\ (Known(w) => pending[w].type # "Closed")
           /\ w \in untold \/ screen[w].life = "unborn" => ~Has(wire, "closed", w) /\ ~Known(w)
<1>1. ASSUME screen[w].life = "open", w \notin untold
      PROVE  ~Has(wire, "closed", w) /\ (Known(w) => pending[w].type # "Closed")
  <2>1. InStep(w)
    BY <1>1 DEF IInv, Placed
  <2>2. CASE Has(wire, "toplevel", w)
    BY <2>1, <2>2, <1>1 DEF InStep, OpenIsKnown, ToldInFull
  <2>3. CASE ~Has(wire, "toplevel", w)
    BY <2>1, <2>3, <1>1 DEF InStep, OpenIsKnown
  <2> QED BY <2>2, <2>3
<1>2. ASSUME w \in untold \/ screen[w].life = "unborn"
      PROVE  ~Has(wire, "closed", w) /\ ~Known(w)
  <2>1. ~Known(w) /\ ~Mentions(wire, w)
    BY <1>2 DEF IInv, Placed, Untold, InStep, BornFirst
  <2> QED BY <2>1, NotMentioned
<1> QED BY <1>1, <1>2

\* A batch of one message and done about an open window
LEMMA AddsPair ==
    ASSUME IInv, NEW w \in Windows, screen[w].life = "open", untold = {}, untold' = {},
           NEW x \in Message, x.win = w, x.msg \in {"title", "app_id", "state"},
           x.msg = "app_id" => x.class = screen'[w].appId,
           wire' = wire \o <<x, Msg("done", w)>>, pending' = pending, chan' = chan,
           \A v \in Windows : screen'[v].life = screen[v].life,
           \A v \in Windows : ~AppIdChanges => screen'[v].appId = screen[v].appId
    PROVE  \E b : Adds(b)
<1> PICK y, b : y = Msg("done", w) /\ b = <<x, y>>
  OBVIOUS
<1>1. y \in Message /\ y.msg = "done" /\ y.win = w
  BY DEF Msg, Message
<1>2. /\ b \in Seq(Message)
      /\ \A v : Mentions(b, v) <=> v = w
      /\ \A m, v : Has(b, m, v) <=> v = w /\ m \in {x.msg, "done"}
  <2>1. x.msg \notin {"done", "toplevel"}
    OBVIOUS
  <2> QED BY <1>1, <2>1, PairSays
<1>3. AppIdsTrue(b, screen')
  <2>1. DOMAIN b = {1, 2} /\ b[1] = x /\ b[2] = y
    OBVIOUS
  <2> QED BY <2>1, <1>1 DEF AppIdsTrue
<1>4. \A v : ~Has(b, "closed", v) /\ ~Has(b, "toplevel", v)
  <2>1. "closed" \notin {x.msg, "done"} /\ "toplevel" \notin {x.msg, "done"}
    OBVIOUS
  <2> QED BY ONLY <2>1, <1>2, Zenon
<1>5. wire' = wire \o b
  BY <1>1
<1>6. \A v \in Windows : Mentions(b, v) =>
         ~Has(wire, "closed", v) /\ (Known(v) => pending[v].type # "Closed")
  BY <1>2, MayBeMentioned
<1> QED BY <1>2, <1>3, <1>4, <1>5, <1>6 DEF Adds

\* A batch that introduces a window
LEMMA AddsIntroduction ==
    ASSUME IInv, NEW w \in Windows, NEW c \in Classes, NEW titled \in BOOLEAN, NEW f \in BOOLEAN,
           w \in untold \/ screen[w].life = "unborn", untold' \subseteq untold,
           wire' = wire \o Introduction(w, c, titled, f), pending' = pending, chan' = chan,
           screen'[w].appId = c, screen'[w].life = "open",
           screen[w].life # "unborn" => screen[w].appId = c,
           \A v \in Windows \ {w} : screen'[v] = screen[v]
    PROVE  \E b : Adds(b)
<1> PICK b : b = Introduction(w, c, titled, f)
  OBVIOUS
<1>1. wire' = wire \o b
  OBVIOUS
<1>2. /\ b \in Seq(Message)
      /\ \A v : Mentions(b, v) <=> v = w
      /\ \A m, v : Has(b, m, v) <=>
           v = w /\ (m \in {"toplevel", "app_id", "state", "done"} \/ (m = "title" /\ titled))
      /\ \A k \in DOMAIN b : b[k].msg = "app_id" => b[k].class = c
  <2>1. /\ w \in Windows /\ c \in Classes /\ titled \in BOOLEAN /\ f \in BOOLEAN
        /\ b = Introduction(w, c, titled, f)
    OBVIOUS
  <2> QED BY ONLY <2>1, IntroductionSays
<1>3. AppIdsTrue(b, screen')
  <2> SUFFICES ASSUME NEW k \in DOMAIN b, b[k].msg = "app_id"
               PROVE  b[k].class = screen'[b[k].win].appId
    BY DEF AppIdsTrue
  <2>1. Mentions(b, b[k].win)
    BY DEF Mentions
  <2> QED BY <2>1, <1>2
<1>4. \A v : ~Has(b, "closed", v)
  BY <1>2
<1>5. \A v \in Windows : Has(b, "toplevel", v) => v \in untold \/ screen[v].life = "unborn"
  BY <1>2
<1>6. \A v \in Windows : Mentions(b, v) =>
         ~Has(wire, "closed", v) /\ (Known(v) => pending[v].type # "Closed")
  BY <1>2, MayBeMentioned
<1>7. \A v \in Windows : /\ screen'[v].life = "unborn" => screen[v].life = "unborn"
                         /\ screen[v].life # "unborn" => screen'[v].appId = screen[v].appId
  <2> TAKE v \in Windows
  <2>1. CASE v = w
    BY <2>1
  <2>2. CASE v # w
    BY <2>2
  <2> QED BY <2>1, <2>2
<1> QED BY <1>1, <1>2, <1>3, <1>4, <1>5, <1>6, <1>7 DEF Adds

\* A batch that moves the focus: it speaks of state only.
LEMMA AddsFocus ==
    ASSUME IInv, untold = {}, untold' = {}, screen' = screen, pending' = pending, chan' = chan,
           NEW v \in Windows, NEW w \in Windows, v # w, NEW f \in BOOLEAN, NEW g \in BOOLEAN,
           screen[v].life = "open", screen[w].life = "open",
           wire' = wire \o (Focus(v, f) \o Focus(w, g))
    PROVE  \E b : Adds(b)
<1> PICK x, y, xd, yd : /\ x = StateMsg(v, f) /\ y = StateMsg(w, g)
                        /\ xd = Msg("done", v) /\ yd = Msg("done", w)
  OBVIOUS
<1> PICK p, q, b : p = <<x, xd>> /\ q = <<y, yd>> /\ b = p \o q
  OBVIOUS
<1>0. p = <<x, xd>> /\ q = <<y, yd>>
  OBVIOUS
<1>1. /\ x \in Message /\ x.win = v /\ x.msg = "state" /\ y \in Message /\ y.win = w /\ y.msg = "state"
      /\ xd \in Message /\ xd.win = v /\ xd.msg = "done"
      /\ yd \in Message /\ yd.win = w /\ yd.msg = "done"
  BY DEF StateMsg, Msg, Message
<1>2. /\ p \in Seq(Message) /\ q \in Seq(Message)
      /\ \A m, u : Has(p, m, u) <=> u = v /\ m \in {"state", "done"}
      /\ \A m, u : Has(q, m, u) <=> u = w /\ m \in {"state", "done"}
      /\ \A u : Mentions(p, u) <=> u = v
      /\ \A u : Mentions(q, u) <=> u = w
  <2>1. /\ p \in Seq(Message) /\ \A u : Mentions(p, u) <=> u = v
        /\ \A m, u : Has(p, m, u) <=> u = v /\ m \in {"state", "done"}
    <3>1. /\ p = <<x, xd>> /\ x \in Message /\ xd \in Message
          /\ x.msg \notin {"done", "toplevel"} /\ xd.msg = "done" /\ xd.win = x.win
      BY <1>0, <1>1
    <3>2. /\ p \in Seq(Message) /\ \A u : Mentions(p, u) <=> u = x.win
          /\ \A m, u : Has(p, m, u) <=> u = x.win /\ m \in {x.msg, "done"}
      BY ONLY <3>1, PairSays
    <3> QED BY ONLY <3>2, <1>1
  <2>2. /\ q \in Seq(Message) /\ \A u : Mentions(q, u) <=> u = w
        /\ \A m, u : Has(q, m, u) <=> u = w /\ m \in {"state", "done"}
    <3>1. /\ q = <<y, yd>> /\ y \in Message /\ yd \in Message
          /\ y.msg \notin {"done", "toplevel"} /\ yd.msg = "done" /\ yd.win = y.win
      BY <1>0, <1>1
    <3>2. /\ q \in Seq(Message) /\ \A u : Mentions(q, u) <=> u = y.win
          /\ \A m, u : Has(q, m, u) <=> u = y.win /\ m \in {y.msg, "done"}
      BY ONLY <3>1, PairSays
    <3> QED BY ONLY <3>2, <1>1
  <2> QED BY ONLY <2>1, <2>2
<1>3. b \in Seq(Message)
  BY <1>2, Joined
<1>4. \A u : /\ Mentions(b, u) <=> Mentions(p, u) \/ Mentions(q, u)
             /\ \A m : Has(b, m, u) <=> Has(p, m, u) \/ Has(q, m, u)
  BY <1>2, SentSays
<1>5. \A m, u : Has(b, m, u) => u \in {v, w} /\ m \in {"state", "done"}
  BY ONLY <1>2, <1>4
<1>6. \A u : ~Has(b, "closed", u) /\ ~Has(b, "toplevel", u) /\ ~Has(b, "app_id", u)
  <2>1. \A m \in {"closed", "toplevel", "app_id"} : m \notin {"state", "done"}
    OBVIOUS
  <2> QED BY ONLY <2>1, <1>5
<1>7. AppIdsTrue(b, screen')
  BY <1>6 DEF AppIdsTrue, Has
<1>8. wire' = wire \o b
  BY DEF Focus
<1>9. \A u \in Windows : Mentions(b, u) =>
         ~Has(wire, "closed", u) /\ (Known(u) => pending[u].type # "Closed")
  BY <1>2, <1>4, MayBeMentioned
<1> QED BY <1>3, <1>6, <1>7, <1>8, <1>9 DEF Adds

LEMMA CompositorSays ==
    ASSUME IInv, Compositor
    PROVE  \E b : Adds(b)
<1>1. /\ pending' = pending /\ chan' = chan /\ screen \in [Windows -> Screen]
      /\ active \in Windows \cup {NoWindow} /\ (active # NoWindow => screen[active].life = "open")
  BY DEF Compositor, IInv, Typed, TypeOK
<1>2. ASSUME NEW w \in Windows, Introduce(w) PROVE \E b : Adds(b)
  <2> PICK c, titled, f : c = screen[w].appId /\ titled = screen[w].titled /\ f = (w = active)
    OBVIOUS
  <2>1. /\ w \in untold /\ untold' \subseteq untold /\ wire' = wire \o Introduction(w, c, titled, f)
        /\ screen' = screen
    BY <1>2 DEF Introduce, Sends
  <2>2. c \in Classes
    BY <2>1 DEF IInv, Placed, Untold
  <2>3. screen[w].life = "open"
    BY <2>1 DEF IInv, Typed, TypeOK, OpenWindows
  <2>4. titled \in BOOLEAN
    BY <1>1 DEF Screen
  <2>5. f \in BOOLEAN
    OBVIOUS
  <2>6. screen'[w].appId = c /\ screen'[w].life = "open" /\ \A v \in Windows \ {w} : screen'[v] = screen[v]
    BY <2>1, <2>3
  <2> QED BY <1>1, <2>1, <2>2, <2>4, <2>5, <2>6, AddsIntroduction
<1>3. ASSUME Change PROVE \E b : Adds(b)
  <2>1. untold = {} /\ untold' = {}
    BY <1>3 DEF Change
  <2>2. ASSUME NEW w \in Windows, NEW c \in Classes, NEW titled \in BOOLEAN, Map(w, c, titled)
        PROVE  \E b : Adds(b)
    <3> PICK f \in BOOLEAN : f = FALSE
      OBVIOUS
    <3>1. /\ screen[w].life = "unborn" /\ wire' = wire \o Introduction(w, c, titled, f)
          /\ screen' = [screen EXCEPT ![w] = [life |-> "open", appId |-> c, titled |-> titled]]
      BY <2>2 DEF Map, Sends
    <3>2. /\ screen'[w].appId = c /\ screen'[w].life = "open"
          /\ \A v \in Windows \ {w} : screen'[v] = screen[v]
      BY <1>1, <3>1
    <3> QED BY <1>1, <2>1, <3>1, <3>2, AddsIntroduction
  <2>3. ASSUME NEW w \in Windows, NEW c \in Classes, SetAppId(w, c) PROVE \E b : Adds(b)
    <3> PICK x : x = AppIdMsg(w, c)
      OBVIOUS
    <3>1. /\ screen[w].life = "open" /\ AppIdChanges /\ wire' = wire \o <<x, Msg("done", w)>>
          /\ screen' = [screen EXCEPT ![w].appId = c]
      BY <2>3 DEF SetAppId, Sends
    <3>2. x \in Message /\ x.win = w /\ x.msg = "app_id" /\ x.class = c
      BY DEF AppIdMsg, Message
    <3>3. screen'[w].appId = c /\ \A v \in Windows : screen'[v].life = screen[v].life
      BY <1>1, <3>1 DEF Screen
    <3> QED BY <1>1, <2>1, <3>1, <3>2, <3>3, AddsPair
  <2>4. ASSUME NEW w \in Windows, SetTitle(w) PROVE \E b : Adds(b)
    <3> PICK x : x = Msg("title", w)
      OBVIOUS
    <3>1. /\ screen[w].life = "open" /\ wire' = wire \o <<x, Msg("done", w)>>
          /\ screen' = [screen EXCEPT ![w].titled = TRUE]
      BY <2>4 DEF SetTitle, Sends
    <3>2. x \in Message /\ x.win = w /\ x.msg = "title"
      BY DEF Msg, Message
    <3>3. \A v \in Windows : screen'[v].life = screen[v].life /\ screen'[v].appId = screen[v].appId
      BY <1>1, <3>1 DEF Screen
    <3> QED BY <1>1, <2>1, <3>1, <3>2, <3>3, AddsPair
  <2>5. ASSUME NEW w \in Windows, NEW f \in BOOLEAN, screen[w].life = "open",
               screen' = screen, wire' = wire \o Focus(w, f)
        PROVE  \E b : Adds(b)
    <3> PICK x : x = StateMsg(w, f)
      OBVIOUS
    <3>1. wire' = wire \o <<x, Msg("done", w)>>
      BY <2>5 DEF Focus
    <3>2. x \in Message /\ x.win = w /\ x.msg = "state"
      BY DEF StateMsg, Message
    <3> QED BY <1>1, <2>1, <2>5, <3>1, <3>2, AddsPair
  <2>6. ASSUME NEW w \in Windows, Activate(w) PROVE \E b : Adds(b)
    <3>1. screen[w].life = "open" /\ active # w /\ screen' = screen
      BY <2>6 DEF Activate
    <3>2. CASE active = NoWindow
      <4>1. wire' = wire \o Focus(w, TRUE)
        BY <2>6, <3>2 DEF Activate, Sends
      <4> QED BY <3>1, <4>1, <2>5
    <3>3. CASE active # NoWindow
      <4> PICK v \in Windows : v = active
        BY <1>1, <3>3
      <4>1. \/ wire' = wire \o (Focus(v, FALSE) \o Focus(w, TRUE))
            \/ wire' = wire \o (Focus(w, TRUE) \o Focus(v, FALSE))
        BY <2>6, <3>3 DEF Activate, Sends
      <4>2. v # w /\ screen[v].life = "open"
        BY <1>1, <3>1, <3>3
      <4>3. TRUE \in BOOLEAN /\ FALSE \in BOOLEAN
        OBVIOUS
      <4> QED BY <1>1, <2>1, <3>1, <4>1, <4>2, <4>3, AddsFocus
    <3> QED BY <3>2, <3>3
  <2>7. ASSUME Deactivate PROVE \E b : Adds(b)
    <3>1. active # NoWindow /\ screen' = screen /\ wire' = wire \o Focus(active, FALSE)
      BY <2>7 DEF Deactivate, Sends
    <3> QED BY <1>1, <3>1, <2>5
  <2>8. ASSUME NEW w \in Windows, Unmap(w) PROVE \E b : Adds(b)
    <3> PICK b : b = Closing(w)
      OBVIOUS
    <3>1. /\ screen[w].life = "open" /\ wire' = wire \o b
          /\ screen' = [screen EXCEPT ![w].life = "gone"]
      BY <2>8 DEF Unmap, Sends, Closing
    <3>2. /\ b \in Seq(Message)
          /\ \A v : Mentions(b, v) <=> v = w
          /\ \A m, v : Has(b, m, v) <=> v = w /\ (m = "closed" \/ (m = "done" /\ DoneAfterClosed))
          /\ \A k \in DOMAIN b : b[k].msg = IF k = 1 THEN "closed" ELSE "done"
      BY ClosingSays
    <3>3. \A v \in Windows : /\ screen'[v].life = "unborn" => screen[v].life = "unborn"
                             /\ screen'[v].appId = screen[v].appId
      BY <1>1, <3>1 DEF Screen
    <3>4. AppIdsTrue(b, screen')
      BY <3>2 DEF AppIdsTrue
    <3>5. \A v : ~Has(b, "toplevel", v)
      BY <3>2
    <3>6. \A v \in Windows : Mentions(b, v) =>
             ~Has(wire, "closed", v) /\ (Known(v) => pending[v].type # "Closed")
      BY <2>1, <3>1, <3>2, MayBeMentioned
    <3> QED BY <1>1, <2>1, <3>1, <3>2, <3>3, <3>4, <3>5, <3>6 DEF Adds
  <2> QED BY <1>3, <2>2, <2>3, <2>4, <2>6, <2>7, <2>8 DEF Change, WindowChange
<1> QED BY <1>2, <1>3 DEF Compositor

LEMMA InOrderSent ==
    ASSUME IInv, InOrder, NEW b, Adds(b)
    PROVE  InOrder'
<1> PICK s, n : s = wire /\ n = Len(wire)
  OBVIOUS
<1>1. /\ s \in Seq(Message) /\ b \in Seq(Message) /\ wire' = s \o b /\ pending' = pending
      /\ \A w \in Windows : Mentions(b, w) =>
           ~Has(s, "closed", w) /\ (Known(w) => pending[w].type # "Closed")
      /\ EndsInDone(s) /\ ClosedLast(s) /\ DoneBeforeClosed(s)
  BY DEF IInv, Typed, Adds, InOrder
<1> PICK t : t = wire'
  OBVIOUS
<1>2. /\ n \in Nat /\ DOMAIN s = 1 .. n /\ DOMAIN b \subseteq Nat \ {0}
      /\ \A k \in DOMAIN b : b[k].win \in Windows
  BY <1>1, WireFacts
<1>3. /\ DOMAIN t \subseteq Nat
      /\ \A k \in DOMAIN t : k <= n => k \in DOMAIN s /\ t[k] = s[k]
      /\ \A k \in DOMAIN t : k > n => k - n \in DOMAIN b /\ t[k] = b[k - n]
      /\ \A k \in DOMAIN s : t[k] = s[k]
  <2>1. /\ DOMAIN t = 1 .. n + Len(b) /\ DOMAIN b = 1 .. Len(b) /\ Len(b) \in Nat
        /\ \A k \in DOMAIN s : t[k] = s[k]
        /\ \A k \in DOMAIN b : t[n + k] = b[k]
    BY <1>1, Joined, WireFacts
  <2>2. ASSUME NEW k \in DOMAIN t, k > n PROVE k - n \in DOMAIN b /\ t[k] = b[k - n]
    <3>1. k - n \in 1 .. Len(b) /\ n + (k - n) = k
      BY <1>2, <2>1, <2>2
    <3> QED BY <2>1, <3>1
  <2> QED BY <1>2, <2>1, <2>2
\* Only an open window is closed: in position n + 1, with done after it.
<1>4. ASSUME NEW k \in DOMAIN t, k > n, t[k].msg = "closed"
      PROVE  k = n + 1 /\ \A j \in DOMAIN t : j > k => t[j].msg = "done"
  <2>1. k - n \in DOMAIN b /\ b[k - n].msg = "closed"
    BY <1>3, <1>4
  <2>2. Has(b, "closed", b[k - n].win)
    BY <2>1 DEF Has
  <2>3. PICK v \in Windows : b = Closing(v)
    BY <2>2 DEF Adds
  <2>4. \A i \in DOMAIN b : b[i].msg = IF i = 1 THEN "closed" ELSE "done"
    BY <2>3, ClosingSays
  <2>5. k - n = 1
    BY <2>1, <2>4
  <2>6. k = n + 1
    BY <1>2, <1>3, <2>5
  <2>7. ASSUME NEW j \in DOMAIN t, j > k PROVE t[j].msg = "done"
    <3>1. j > n /\ j - n # 1
      BY <1>2, <1>3, <2>6, <2>7
    <3> QED BY <1>3, <2>4, <3>1
  <2> QED BY <2>6, <2>7
<1>5. ClosedLast(t)
  <2> SUFFICES ASSUME NEW k \in DOMAIN t, NEW j \in DOMAIN t,
                      t[k].msg = "closed", t[j].win = t[k].win, k < j
               PROVE  t[j].msg = "done"
    BY DEF ClosedLast
  <2>1. CASE k > n
    BY <1>4, <2>1
  <2>2. CASE k <= n /\ j <= n
    BY <1>1, <1>3, <2>2 DEF ClosedLast
  <2>3. CASE k <= n /\ j > n
    <3>1. Has(s, "closed", t[k].win)
      BY <1>3, <2>3 DEF Has
    <3>2. Mentions(b, t[j].win) /\ t[j].win \in Windows
      BY <1>2, <1>3, <2>3 DEF Mentions
    <3> QED BY <1>1, <3>1, <3>2
  <2> QED BY <1>2, <1>3, <2>1, <2>2, <2>3
<1>6. DoneBeforeClosed(t)
  <2> SUFFICES ASSUME NEW k \in DOMAIN t, t[k].msg = "closed",
                      NEW j \in 1 .. k - 1, t[j].win = t[k].win
               PROVE  \E i \in j .. k - 1 : t[i].msg = "done" /\ t[i].win = t[k].win
    BY DEF DoneBeforeClosed
  <2>1. CASE k <= n
    <3>1. k \in DOMAIN s /\ t[k] = s[k] /\ \A i \in 1 .. k - 1 : t[i] = s[i]
      BY <1>2, <1>3, <2>1
    <3>2. PICK i \in j .. k - 1 : s[i].msg = "done" /\ s[i].win = s[k].win
      BY <1>1, <3>1 DEF DoneBeforeClosed
    <3>3. i \in 1 .. k - 1
      BY <1>3, <3>2
    <3> QED BY <3>1, <3>2, <3>3
  <2>2. CASE k > n
    <3>1. k = n + 1 /\ j \in DOMAIN s
      BY <1>2, <1>4, <2>2
    <3>2. Mentions(b, t[k].win) /\ t[k].win \in Windows
      BY <1>2, <1>3, <2>2 DEF Mentions
    <3>3. s[j] = t[j] /\ ~Has(s, "closed", t[k].win)
      BY <1>1, <1>3, <3>1, <3>2
    <3>4. s[j].msg # "closed"
      BY <3>1, <3>3 DEF Has
    <3>5. PICK i \in DOMAIN s : j <= i /\ s[i].msg = "done" /\ s[i].win = s[j].win
      BY <1>1, <3>1, <3>4 DEF EndsInDone
    <3>6. i \in j .. k - 1 /\ t[i] = s[i]
      BY <1>2, <1>3, <3>1, <3>5
    <3> QED BY <3>3, <3>5, <3>6
  <2> QED BY <1>2, <1>3, <2>1, <2>2
<1>7. ASSUME NEW w \in Windows PROVE Leaves(w)'
  <2> SUFFICES ASSUME Known(w) PROVE Leaves(w)'
    BY <1>1 DEF Leaves, Known
  <2>1. Leaves(w) /\ InStep(w) /\ (Described(w)' <=> Described(w))
    BY <1>1 DEF InOrder, IInv, Placed, Untold, Described, Known
  <2>2. ASSUME pending[w].type = "Closed", NEW k \in DOMAIN t, t[k].win = w
        PROVE  t[k].msg = "done"
    <3>1. CASE k <= n
      BY <1>3, <2>1, <2>2, <3>1 DEF Leaves
    <3>2. CASE k > n
      <4>1. Mentions(b, w)
        BY <1>3, <2>2, <3>2 DEF Mentions
      <4> QED BY <1>1, <2>2, <4>1
    <3> QED BY <1>2, <1>3, <3>1, <3>2
  <2>3. ASSUME pending[w].type = "Opened", Described(w),
               NEW k \in DOMAIN t, t[k].msg = "closed", t[k].win = w
        PROVE  \E i \in 1 .. k - 1 : t[i].msg = "done" /\ t[i].win = w
    <3>1. CASE k <= n
      <4>1. k \in DOMAIN s /\ t[k] = s[k] /\ \A i \in 1 .. k - 1 : t[i] = s[i]
        BY <1>2, <1>3, <3>1
      <4>2. PICK i \in 1 .. k - 1 : s[i].msg = "done" /\ s[i].win = w
        BY <2>1, <2>3, <4>1 DEF Leaves
      <4> QED BY <4>1, <4>2
    <3>2. CASE k > n
      <4>1. k = n + 1
        BY <1>4, <2>3, <3>2
      <4>2. PICK i \in DOMAIN s : s[i].msg = "done" /\ s[i].win = w
        BY <2>1, <2>3 DEF InStep, ReportFollows, Has
      <4>3. i \in 1 .. k - 1 /\ t[i] = s[i]
        BY <1>2, <1>3, <4>1
      <4> QED BY <4>2, <4>3
    <3> QED BY <1>2, <1>3, <3>1, <3>2
  <2> QED BY <1>1, <2>1, <2>2, <2>3 DEF Leaves
<1> QED BY <1>5, <1>6, <1>7 DEF InOrder

\* What the order says of the message that is taken, and keeps saying of the rest
LEMMA InOrderTaken ==
    ASSUME IInv, InOrder, wire # <<>>, NEW m, m = Head(wire), NEW w, w = m.win, wire' = Tail(wire),
           \A v \in Windows \ {w} :
             (Known(v)' <=> Known(v)) /\ (Known(v) => pending'[v] = pending[v])
    PROVE  /\ m \in Message /\ w \in Windows
           /\ ClosedLast(wire') /\ DoneBeforeClosed(wire')
           /\ \A v \in Windows \ {w} : Leaves(v)'
           /\ Known(w) /\ pending[w].type = "Closed" => m.msg = "done"
           /\ m.msg = "closed" \/ (Known(w) /\ pending[w].type = "Closed") =>
                \A k \in DOMAIN wire' : wire'[k].win = w => wire'[k].msg = "done"
           /\ m.msg = "closed" => ~(Known(w) /\ pending[w].type = "Opened" /\ Described(w))
           /\ m.msg \notin {"done", "closed"} =>
                \A k \in DOMAIN wire' : wire'[k].msg = "closed" /\ wire'[k].win = w =>
                   \E i \in 1 .. k - 1 : wire'[i].msg = "done" /\ wire'[i].win = w
<1> PICK s, t, n : s = wire /\ t = wire' /\ n = Len(wire)
  OBVIOUS
<1>1. /\ s \in Seq(Message) /\ ClosedLast(s) /\ DoneBeforeClosed(s) /\ \A v \in Windows : Leaves(v)
  BY DEF IInv, Typed, InOrder
<1>2. /\ n \in Nat \ {0} /\ DOMAIN s = 1 .. n /\ m = s[1] /\ m \in Message
      /\ DOMAIN t = 1 .. n - 1 /\ \A k \in 1 .. n - 1 : t[k] = s[k + 1]
  BY <1>1, TailFacts
<1>3. w \in Windows
  BY <1>2 DEF Message
<1>4. /\ 1 \in DOMAIN s /\ \A k \in DOMAIN t : k + 1 \in DOMAIN s /\ t[k] = s[k + 1]
      /\ DOMAIN s \subseteq Nat /\ DOMAIN t \subseteq Nat \ {0}
  BY <1>2
<1>5. ASSUME NEW k \in DOMAIN t, NEW i \in 2 .. k
      PROVE  i - 1 \in 1 .. k - 1 /\ i - 1 \in DOMAIN t /\ t[i - 1] = s[i]
  <2>1. i - 1 \in 1 .. k - 1 /\ i - 1 \in 1 .. n - 1 /\ (i - 1) + 1 = i
    BY <1>2, <1>4
  <2> QED BY <1>2, <2>1
<1>6. ClosedLast(t)
  BY <1>1, <1>4 DEF ClosedLast
<1>7. DoneBeforeClosed(t)
  <2> SUFFICES ASSUME NEW k \in DOMAIN t, t[k].msg = "closed",
                      NEW j \in 1 .. k - 1, t[j].win = t[k].win
               PROVE  \E i \in j .. k - 1 : t[i].msg = "done" /\ t[i].win = t[k].win
    BY DEF DoneBeforeClosed
  <2>1. k + 1 \in DOMAIN s /\ j + 1 \in 1 .. (k + 1) - 1 /\ s[j + 1] = t[j] /\ s[k + 1] = t[k]
    BY <1>2, <1>4
  <2>2. PICK i \in j + 1 .. (k + 1) - 1 : s[i].msg = "done" /\ s[i].win = s[k + 1].win
    BY <1>1, <2>1 DEF DoneBeforeClosed
  <2>3. i \in 2 .. k /\ i - 1 \in j .. k - 1
    BY <1>4, <2>2
  <2> QED BY <1>5, <2>1, <2>2, <2>3
<1>8. ASSUME NEW v \in Windows \ {w} PROVE Leaves(v)'
  <2> SUFFICES ASSUME Known(v) PROVE Leaves(v)'
    BY DEF Leaves
  <2>1. Leaves(v) /\ pending'[v] = pending[v] /\ (Described(v)' <=> Described(v))
    BY <1>1 DEF Described
  <2>2. ASSUME pending[v].type = "Closed", NEW k \in DOMAIN t, t[k].win = v
        PROVE  t[k].msg = "done"
    BY <1>4, <2>1, <2>2 DEF Leaves
  <2>3. ASSUME pending[v].type = "Opened", Described(v),
               NEW k \in DOMAIN t, t[k].msg = "closed", t[k].win = v
        PROVE  \E i \in 1 .. k - 1 : t[i].msg = "done" /\ t[i].win = v
    <3>1. PICK i \in 1 .. (k + 1) - 1 : s[i].msg = "done" /\ s[i].win = v
      BY <1>4, <2>1, <2>3 DEF Leaves
    <3>2. i # 1
      BY <1>2, <3>1
    <3>3. i \in 2 .. k
      BY <1>4, <3>1, <3>2
    <3> QED BY <1>5, <3>1, <3>3
  <2> QED BY <2>1, <2>2, <2>3 DEF Leaves
<1>9. Known(w) /\ pending[w].type = "Closed" => m.msg = "done"
  BY <1>1, <1>2, <1>3, <1>4 DEF Leaves
<1>10. ASSUME m.msg = "closed" \/ (Known(w) /\ pending[w].type = "Closed"),
              NEW k \in DOMAIN t, t[k].win = w
       PROVE  t[k].msg = "done"
  <2>1. k + 1 \in DOMAIN s /\ t[k] = s[k + 1] /\ 1 < k + 1
    BY <1>4
  <2>2. CASE m.msg = "closed"
    BY <1>1, <1>2, <1>4, <1>10, <2>1, <2>2 DEF ClosedLast
  <2>3. CASE Known(w) /\ pending[w].type = "Closed"
    BY <1>1, <1>3, <1>10, <2>1, <2>3 DEF Leaves
  <2> QED BY <1>10, <2>2, <2>3
<1>11. ASSUME m.msg = "closed", Known(w), pending[w].type = "Opened", Described(w)
       PROVE  FALSE
  <2>1. \E i \in 1 .. 1 - 1 : s[i].msg = "done" /\ s[i].win = w
    BY <1>1, <1>2, <1>3, <1>4, <1>11 DEF Leaves
  <2> QED BY <2>1
<1>12. ASSUME m.msg \notin {"done", "closed"},
              NEW k \in DOMAIN t, t[k].msg = "closed", t[k].win = w
       PROVE  \E i \in 1 .. k - 1 : t[i].msg = "done" /\ t[i].win = w
  <2>1. k + 1 \in DOMAIN s /\ t[k] = s[k + 1] /\ 1 \in 1 .. (k + 1) - 1
    BY <1>4
  <2>2. PICK i \in 1 .. (k + 1) - 1 : s[i].msg = "done" /\ s[i].win = w
    BY <1>1, <1>2, <1>12, <2>1 DEF DoneBeforeClosed
  <2>3. i # 1
    BY <1>2, <1>12, <2>2
  <2>4. i \in 2 .. k
    BY <1>4, <2>2, <2>3
  <2> QED BY <1>5, <2>2, <2>4
<1> QED BY <1>2, <1>3, <1>6, <1>7, <1>8, <1>9, <1>10, <1>11, <1>12

\* What a handler makes of window w, which its message m is about
Handled(m, w) ==
    \* introduced
    \/ /\ m.msg = "toplevel" /\ chan' = chan /\ ~Known(w) /\ Known(w)'
       /\ pending'[w].type = "Opened" /\ pending'[w].appId = NoClass
    \* described
    \/ /\ m.msg \in {"title", "app_id", "state"} /\ chan' = chan /\ Known(w) /\ Known(w)'
       /\ pending'[w].type = pending[w].type
       /\ pending'[w].appId = IF m.msg = "app_id" THEN m.class ELSE pending[w].appId
    \* closed
    \/ /\ m.msg = "closed" /\ chan' = chan /\ Known(w) /\ Known(w)'
       /\ pending'[w].type = "Closed" /\ pending'[w].appId = pending[w].appId
       /\ Described(w)' <=> Described(w)
    \* not known, or not to be named yet
    \/ /\ m.msg # "toplevel" /\ chan' = chan /\ pending' = pending
       /\ Known(w) => m.msg = "done" /\ ~Described(w)
    \* reported
    \/ /\ m.msg = "done" /\ Described(w) /\ chan' = Append(chan, Report(w))
       /\ pending[w].type # "Closed"
       /\ Known(w)' /\ pending'[w].type = "StateChanged"
       /\ pending'[w].appId = pending[w].appId
    \* reported as closed
    \/ /\ m.msg = "done" /\ Described(w) /\ chan' = Append(chan, Report(w))
       /\ pending[w].type = "Closed" /\ ~Known(w)'

LEMMA HandledWindow ==
    ASSUME IInv, wire # <<>>, NEW m, m = Head(wire), NEW w, w = m.win, Dispatch
    PROVE  /\ m \in Message /\ w \in Windows
           /\ \A v \in Windows \ {w} :
                (Known(v)' <=> Known(v)) /\ (Known(v) => pending'[v] = pending[v])
           /\ Handled(m, w)
<1>1. /\ m \in Message /\ TypeOK
      /\ \/ HandleToplevel(m) \/ HandleTitle(m) \/ HandleAppId(m)
         \/ HandleState(m) \/ HandleClosed(m) \/ HandleDone(m)
  <2>1. wire \in Seq(Message) /\ TypeOK
    BY DEF IInv, Typed
  <2> QED BY <2>1, TailFacts DEF Dispatch
<1>2. w \in Windows
  BY <1>1 DEF Message
<1>3. ASSUME Known(w) PROVE pending[w] \in Pending
  BY <1>1, <1>3 DEF TypeOK, Known
<1>4. CASE HandleToplevel(m)
  <2>1. /\ m.msg = "toplevel" /\ chan' = chan
        /\ pending' = [v \in DOMAIN pending \cup {w} |-> IF v = w THEN NewPending ELSE pending[v]]
    BY <1>4 DEF HandleToplevel
  <2>2. InStep(w) /\ Has(wire, "toplevel", w)
    <3>1. Has(wire, "toplevel", w)
      <4>1. wire \in Seq(Message)
        BY DEF IInv, Typed
      <4> QED BY <4>1, <2>1, TakenSays
    <3>2. Mentions(wire, w)
      BY <3>1, NotMentioned
    <3> QED BY <1>2, <3>1, <3>2 DEF IInv, Placed, Untold
  <2>3. ~Known(w)
    BY <2>2 DEF InStep, ToldInFull
  <2>4. /\ Known(w)' /\ pending'[w].type = "Opened" /\ pending'[w].appId = NoClass
        /\ \A v \in Windows \ {w} :
             (Known(v)' <=> Known(v)) /\ (Known(v) => pending'[v] = pending[v])
    BY <2>1 DEF Known, NewPending
  <2> QED BY <1>1, <1>2, <2>1, <2>3, <2>4 DEF Handled
<1>5. ASSUME NEW p, Update(w, p), Known(w) => p \in Pending, chan' = chan,
             m.msg \in {"title", "app_id", "state", "closed"},
             Known(w) => p.type = IF m.msg = "closed" THEN "Closed" ELSE pending[w].type,
             Known(w) => p.appId = IF m.msg = "app_id" THEN m.class ELSE pending[w].appId,
             Known(w) => m.msg = "title" \/ (p.titled <=> pending[w].titled)
      PROVE  /\ \A v \in Windows \ {w} :
                  (Known(v)' <=> Known(v)) /\ (Known(v) => pending'[v] = pending[v])
             /\ Handled(m, w)
  <2>1. /\ Known(w)' <=> Known(w)
        /\ Known(w) => pending'[w] = p
        /\ ~Known(w) => pending' = pending
        /\ \A v \in Windows \ {w} :
             (Known(v)' <=> Known(v)) /\ (Known(v) => pending'[v] = pending[v])
    BY <1>1, <1>2, <1>5, Updated
  <2>2. CASE ~Known(w)
    BY <2>1, <2>2, <1>5 DEF Handled
  <2>3. CASE Known(w) /\ m.msg # "closed"
    BY <2>1, <2>3, <1>5 DEF Handled
  <2>4. CASE Known(w) /\ m.msg = "closed"
    <3>1. pending'[w] = p /\ p.appId = pending[w].appId /\ p.type = "Closed" /\ Known(w)'
      BY <2>1, <2>4, <1>5
    <3>2. p.titled <=> pending[w].titled
      BY <2>4, <1>5
    <3>3. Described(w)' <=> Described(w)
      BY <2>4, <3>1, <3>2 DEF Described
    <3> QED BY <2>1, <2>4, <3>1, <3>3, <1>5 DEF Handled
  <2> QED BY <2>2, <2>3, <2>4
<1>6. CASE HandleTitle(m)
  <2> PICK p : p = [pending[m.win] EXCEPT !.titled = TRUE]
    OBVIOUS
  <2>1. m.msg = "title" /\ chan' = chan /\ Update(w, p)
    BY <1>6 DEF HandleTitle
  <2>2. Known(w) => p \in Pending /\ p.type = pending[w].type /\ p.appId = pending[w].appId
    BY <1>3 DEF Pending
  <2> QED BY <1>1, <1>2, <1>5, <2>1, <2>2
<1>7. CASE HandleAppId(m)
  <2> PICK p : p = [pending[m.win] EXCEPT !.appId = m.class]
    OBVIOUS
  <2>1. m.msg = "app_id" /\ chan' = chan /\ Update(w, p)
    BY <1>7 DEF HandleAppId
  <2>2. m.class \in Classes
    BY <1>1, <2>1 DEF Message
  <2>3. Known(w) => p \in Pending /\ p.type = pending[w].type /\ p.appId = m.class
    BY <1>3, <2>2 DEF Pending
  <2>4. Known(w) => (p.titled <=> pending[w].titled)
    BY <1>3, <2>2 DEF Pending
  <2> QED BY <1>1, <1>2, <1>5, <2>1, <2>3, <2>4
<1>8. CASE HandleState(m)
  <2> PICK p : p = [pending[m.win] EXCEPT !.focused = m.focused]
    OBVIOUS
  <2>1. m.msg = "state" /\ chan' = chan /\ Update(w, p)
    BY <1>8 DEF HandleState
  <2>2. m.focused \in BOOLEAN
    BY <1>1, <2>1 DEF Message
  <2>3. Known(w) => p \in Pending /\ p.type = pending[w].type /\ p.appId = pending[w].appId
    BY <1>3, <2>2 DEF Pending
  <2>4. Known(w) => (p.titled <=> pending[w].titled)
    BY <1>3, <2>2 DEF Pending
  <2> QED BY <1>1, <1>2, <1>5, <2>1, <2>3, <2>4
<1>9. CASE HandleClosed(m)
  <2> PICK p : p = [pending[m.win] EXCEPT !.type = "Closed"]
    OBVIOUS
  <2>1. m.msg = "closed" /\ chan' = chan /\ Update(w, p)
    BY <1>9 DEF HandleClosed
  <2>3. Known(w) => p \in Pending /\ p.type = "Closed" /\ p.appId = pending[w].appId
    BY <1>3 DEF Pending
  <2>4. Known(w) => (p.titled <=> pending[w].titled)
    BY <1>3 DEF Pending
  <2> QED BY <1>1, <1>2, <1>5, <2>1, <2>3, <2>4
<1>10. CASE HandleDone(m)
  <2>1. m.msg = "done"
    BY <1>10 DEF HandleDone
  <2>2. CASE ~Described(w)
    <3>1. pending' = pending /\ chan' = chan
      BY <1>10, <2>2 DEF HandleDone
    <3> QED BY <1>1, <1>2, <2>1, <2>2, <3>1 DEF Known, Handled
  <2>3. CASE Described(w)
    <3>1. chan' = Append(chan, Report(w)) /\ pending' = AfterReport(w) /\ Known(w) /\ pending[w] \in Pending
      BY <1>3, <1>10, <2>3 DEF HandleDone, Described
    <3>2. CASE pending[w].type = "Opened"
      <4>1. pending' = [pending EXCEPT ![w].type = "StateChanged"]
        BY <3>1, <3>2 DEF AfterReport
      <4>2. DOMAIN pending' = DOMAIN pending /\ \A v \in DOMAIN pending \ {w} : pending'[v] = pending[v]
        BY <4>1
      <4>3. pending'[w].type = "StateChanged" /\ pending'[w].appId = pending[w].appId
        BY <3>1, <4>1 DEF Known, Pending
      <4>4. /\ Known(w)' /\ \A v \in Windows \ {w} :
                 (Known(v)' <=> Known(v)) /\ (Known(v) => pending'[v] = pending[v])
        BY <3>1, <4>2 DEF Known
      <4> QED BY <1>1, <1>2, <2>1, <2>3, <3>1, <3>2, <4>3, <4>4 DEF Handled
    <3>3. CASE pending[w].type = "StateChanged"
      <4>1. pending' = pending
        BY <3>1, <3>3 DEF AfterReport
      <4>2. /\ Known(w)' /\ \A v \in Windows \ {w} :
                 (Known(v)' <=> Known(v)) /\ (Known(v) => pending'[v] = pending[v])
        BY <3>1, <4>1 DEF Known
      <4> QED BY <1>1, <1>2, <2>1, <2>3, <3>1, <3>3, <4>1, <4>2 DEF Handled
    <3>4. CASE pending[w].type = "Closed"
      <4>1. pending' = Forgotten(w)
        BY <3>1, <3>4 DEF AfterReport
      <4>2. DOMAIN pending' = DOMAIN pending \ {w} /\ \A v \in DOMAIN pending \ {w} : pending'[v] = pending[v]
        BY <4>1 DEF Forgotten, Restrict
      <4>3. ~Known(w)' /\ \A v \in Windows \ {w} :
                 (Known(v)' <=> Known(v)) /\ (Known(v) => pending'[v] = pending[v])
        BY <4>2 DEF Known
      <4> QED BY <1>1, <1>2, <2>1, <2>3, <3>1, <3>4, <4>3 DEF Handled
    <3> QED BY <3>1, <3>2, <3>3, <3>4 DEF Pending
  <2> QED BY <2>2, <2>3
<1> QED BY <1>1, <1>4, <1>6, <1>7, <1>8, <1>9, <1>10

LEMMA InOrderDispatch ==
    ASSUME IInv, InOrder, Dispatch
    PROVE  InOrder'
<1> PICK m, w : m = Head(wire) /\ w = m.win
  OBVIOUS
<1>1. wire # <<>> /\ wire' = Tail(wire)
  BY DEF Dispatch
<1>2. /\ m \in Message /\ w \in Windows /\ Handled(m, w)
      /\ \A v \in Windows \ {w} :
           (Known(v)' <=> Known(v)) /\ (Known(v) => pending'[v] = pending[v])
  BY <1>1, HandledWindow
<1>3. /\ ClosedLast(wire') /\ DoneBeforeClosed(wire')
      /\ \A v \in Windows \ {w} : Leaves(v)'
      /\ Known(w) /\ pending[w].type = "Closed" => m.msg = "done"
      /\ m.msg = "closed" \/ (Known(w) /\ pending[w].type = "Closed") =>
           \A k \in DOMAIN wire' : wire'[k].win = w => wire'[k].msg = "done"
      /\ m.msg \notin {"done", "closed"} =>
           \A k \in DOMAIN wire' : wire'[k].msg = "closed" /\ wire'[k].win = w =>
              \E i \in 1 .. k - 1 : wire'[i].msg = "done" /\ wire'[i].win = w
  <2>1. /\ IInv /\ InOrder /\ wire # <<>> /\ m = Head(wire) /\ w = m.win /\ wire' = Tail(wire)
        /\ \A v \in Windows \ {w} :
             (Known(v)' <=> Known(v)) /\ (Known(v) => pending'[v] = pending[v])
    BY <1>1, <1>2
  <2> QED BY ONLY <2>1, InOrderTaken
<1>4. Leaves(w)'
  <2>1. CASE m.msg = "toplevel"
    BY <1>2, <2>1 DEF Handled, Leaves, Described
  <2>2. CASE m.msg \in {"title", "app_id", "state"}
    BY <1>2, <1>3, <2>2 DEF Handled, Leaves, Known
  <2>3. CASE m.msg = "closed"
    BY <1>2, <1>3, <2>3 DEF Handled, Leaves, Known
  <2>4. CASE m.msg = "done" /\ pending' = pending /\ ~Described(w)
    BY <1>3, <2>4 DEF Leaves, Described, Known
  <2>5. CASE m.msg = "done" /\ ~(pending' = pending /\ ~Described(w))
    BY <1>2, <2>5 DEF Handled, Leaves, Described
  <2> QED BY <1>2, <2>1, <2>2, <2>3, <2>4, <2>5 DEF Message
<1> QED BY <1>3, <1>4 DEF InOrder

LEMMA StepInOrder ==
    ASSUME IInv, InOrder, [Next]_tvars
    PROVE  InOrder'
<1>1. CASE Compositor
  BY <1>1, CompositorSays, InOrderSent
<1>2. CASE Dispatch
  BY <1>2, InOrderDispatch
<1>3. CASE Receive \/ UNCHANGED tvars
  <2>1. wire' = wire /\ pending' = pending
    BY <1>3 DEF Receive, tvars
  <2>2. ASSUME NEW w \in Windows PROVE Leaves(w)'
    BY <2>1, <2>2 DEF InOrder, Leaves, Described, Known
  <2> QED BY <2>1, <2>2 DEF InOrder
<1>4. CASE Reconnect
  <2>1. wire' = <<>> /\ DOMAIN wire' = {} /\ DOMAIN pending' = {}
    BY <1>4 DEF Reconnect
  <2> QED BY <2>1 DEF InOrder, ClosedLast, DoneBeforeClosed, Leaves, Known
<1> QED BY <1>1, <1>2, <1>3, <1>4 DEF Next

LEMMA InitInOrder == Init => InOrder
<1> SUFFICES ASSUME Init PROVE InOrder
  OBVIOUS
<1>1. wire = <<>> /\ DOMAIN wire = {} /\ DOMAIN pending = {}
  BY DEF Init
<1> QED BY <1>1 DEF InOrder, ClosedLast, DoneBeforeClosed, Leaves, Known

LEMMA AppendIsNew ==
    ASSUME NEW S, NEW s \in Seq(S), NEW e
    PROVE  Append(s, e) # s
<1>1. Len(Append(s, e)) = Len(s) + 1 /\ Len(s) \in Nat
  BY SMT
<1> QED BY <1>1

\* What a dispatched message makes the dock hear: nothing, or one event that is
\* Opened if the window was unreported, and is not if it was reported.
LEMMA DispatchReports ==
    ASSUME IInv, InOrder, Dispatch
    PROVE  /\ \A v \in Windows : Unreported(v)' => Unreported(v)
           /\ \/ chan' = chan /\ \A v \in Windows : Reported(v)' <=> Reported(v)
              \/ \E w \in Windows :
                   /\ chan' = Append(chan, Report(w)) /\ Known(w) /\ Described(w)
                   /\ ~Unreported(w)'
                   /\ IF Report(w).type = "Opened" THEN Unreported(w) ELSE Reported(w)
                   /\ IF Report(w).type = "Closed" THEN ~Reported(w)' ELSE Reported(w)'
                   /\ \A v \in Windows \ {w} : Reported(v)' <=> Reported(v)
<1> PICK m, w : m = Head(wire) /\ w = m.win
  OBVIOUS
<1>1. /\ wire # <<>> /\ wire' = Tail(wire) /\ wire \in Seq(Message)
      /\ screen' = screen /\ untold' = untold
  BY DEF Dispatch, IInv, Typed
<1>2. /\ m \in Message /\ w \in Windows /\ Handled(m, w)
      /\ \A v \in Windows \ {w} :
           (Known(v)' <=> Known(v)) /\ (Known(v) => pending'[v] = pending[v])
  BY <1>1, HandledWindow
<1>3. /\ \A k, v : Has(wire, k, v) <=> (m.msg = k /\ w = v) \/ Has(wire', k, v)
      /\ Mentions(wire, w) /\ ~Has(wire', "toplevel", w)
  <2>1. IntroducedFirst(wire)
    BY DEF IInv, Typed
  <2> QED BY ONLY <1>1, <2>1, m = Head(wire), w = m.win, TakenSays
<1>4. /\ m.msg = "closed" => ~(Known(w) /\ pending[w].type = "Opened" /\ Described(w))
      /\ Known(w) /\ pending[w].type = "Closed" => m.msg = "done"
  BY <1>1, <1>2, InOrderTaken
<1>5. InStep(w) /\ w \notin untold /\ screen[w].life # "unborn" /\ ~Has(wire', "toplevel", w)
  <2>1. Placed(w)
    BY <1>2 DEF IInv
  <2> QED BY <1>3, <2>1 DEF Placed, Untold, InStep, BornFirst
<1>6. ASSUME NEW v \in Windows, Unreported(v)' PROVE Unreported(v)
  <2>1. CASE v # w
    BY <1>1, <1>2, <1>3, <1>6, <2>1 DEF Unreported
  <2>2. CASE v = w
    BY <1>1, <1>2, <1>3, <1>5, <1>6, <2>2 DEF Unreported, Handled, Known
  <2> QED BY <2>1, <2>2
<1>7. \A v \in Windows \ {w} : Reported(v)' <=> Reported(v)
  BY <1>2 DEF Reported, Described
<1>8. CASE chan' = chan
  <2>1. ~Described(w) /\ Known(w) => pending[w].type # "StateChanged"
    BY <1>5 DEF InStep, ReportFollows
  <2>2. ~(chan' = Append(chan, Report(w)))
    <3>1. chan \in Seq(Event)
      BY DEF IInv, Typed, TypeOK
    <3> QED BY <3>1, <1>8, AppendIsNew
  <2>3. Reported(w)' <=> Reported(w)
    <3>1. CASE m.msg = "toplevel"
      <4>1. ~Known(w) /\ pending'[w].type = "Opened"
        BY <1>2, <3>1 DEF Handled
      <4>2. ~Reported(w)
        BY ONLY <4>1 DEF Reported
      <4>3. ~Reported(w)'
        BY ONLY <4>1 DEF Reported
      <4> QED BY ONLY <4>2, <4>3
    <3>2. CASE m.msg \in {"title", "app_id", "state"}
      <4>1. CASE Known(w)
        <5>1. Known(w)' /\ pending'[w].type = pending[w].type /\ pending[w].type # "Closed"
          BY <1>2, <1>4, <3>2, <4>1 DEF Handled
        <5> QED BY ONLY <4>1, <5>1 DEF Reported
      <4>2. CASE ~Known(w)
        <5>1. ~Known(w)'
          BY <1>2, <3>2, <4>2 DEF Handled, Known
        <5> QED BY ONLY <4>2, <5>1 DEF Reported
      <4> QED BY <4>1, <4>2
    <3>3. CASE m.msg = "closed"
      <4>1. CASE Known(w)
        <5>1. /\ Known(w)' /\ pending'[w].type = "Closed" /\ (Described(w)' <=> Described(w))
              /\ pending[w].type \in {"Opened", "StateChanged", "Closed"}
          BY <1>2, <3>3, <4>1 DEF Handled, IInv, Typed, TypeOK, Known, Pending
        <5> QED BY <1>4, <2>1, <3>3, <4>1, <5>1 DEF Reported
      <4>2. CASE ~Known(w)
        <5>1. ~Known(w)'
          BY <1>2, <3>3, <4>2 DEF Handled, Known
        <5> QED BY <4>2, <5>1 DEF Reported
      <4> QED BY <4>1, <4>2
    <3>4. CASE m.msg = "done"
      <4>1. pending' = pending
        BY <1>2, <2>2, <3>4 DEF Handled
      <4> QED BY <4>1 DEF Reported, Known, Described
    <3> QED BY <1>2, <3>1, <3>2, <3>3, <3>4 DEF Message
  <2> QED BY <1>6, <1>7, <1>8, <2>3
<1>9. CASE m.msg = "done" /\ Described(w) /\ chan' = Append(chan, Report(w))
  <2>1. /\ Known(w) /\ pending[w].type \in {"Opened", "StateChanged", "Closed"}
        /\ Report(w).type = pending[w].type
    BY <1>2, <1>9 DEF Described, Report, IInv, Typed, TypeOK, Known, Pending
  <2>2. IF pending[w].type = "Opened" THEN Unreported(w) ELSE Reported(w)
    BY <1>9, <2>1 DEF Unreported, Reported
  <2>3. /\ IF pending[w].type = "Closed" THEN ~Known(w)'
           ELSE Known(w)' /\ pending'[w].type = "StateChanged"
    <3>1. ~(chan' = chan)
      <4>1. chan \in Seq(Event)
        BY DEF IInv, Typed, TypeOK
      <4> QED BY <4>1, <1>9, AppendIsNew
    <3> QED BY <1>2, <1>9, <3>1 DEF Handled
  <2>4. IF pending[w].type = "Closed" THEN ~Reported(w)' ELSE Reported(w)'
    BY <2>3 DEF Reported
  <2>5. ~Unreported(w)'
    BY <1>1, <1>5, <2>3 DEF Unreported
  <2> QED BY <1>2, <1>6, <1>7, <1>9, <2>1, <2>2, <2>4, <2>5
<1> QED BY <1>2, <1>8, <1>9 DEF Handled

\* What a dispatched message makes the dock hear of the focus of a reported window
\* of which no batch is left on the wire: nothing if nothing has changed, else an
\* event with the focus the module now knows.
LEMMA DispatchTells ==
    ASSUME IInv, Dispatch, NEW v \in Windows,
           Known(v)', pending'[v].type = "StateChanged", ~Has(wire', "done", v)
    PROVE  \/ /\ chan' = chan \/ \E e \in Event : chan' = Append(chan, e) /\ e.win # v
              /\ Known(v) /\ pending[v].type = "StateChanged" /\ ~Has(wire, "done", v)
              /\ pending'[v].focused = pending[v].focused
           \/ \E e \in Event :
                chan' = Append(chan, e) /\ e.win = v /\ e.focused = pending'[v].focused
<1> PICK m, w : m = Head(wire) /\ w = m.win
  OBVIOUS
<1>1. /\ wire # <<>> /\ wire' = Tail(wire) /\ wire \in Seq(Message) /\ EndsInDone(wire)
      /\ TypeOK
      /\ \/ HandleToplevel(m) \/ HandleTitle(m) \/ HandleAppId(m)
         \/ HandleState(m) \/ HandleClosed(m) \/ HandleDone(m)
  BY DEF Dispatch, IInv, Typed
<1>2. /\ m \in Message /\ w \in Windows /\ Handled(m, w)
      /\ \A u \in Windows \ {w} :
           (Known(u)' <=> Known(u)) /\ (Known(u) => pending'[u] = pending[u])
  BY <1>1, HandledWindow
<1>3. /\ \A k, u : Has(wire, k, u) <=> (m.msg = k /\ w = u) \/ Has(wire', k, u)
      /\ Mentions(wire, w)
      /\ m.msg = "done" \/ (m.msg = "closed" /\ ~DoneAfterClosed) \/ Has(wire', "done", w)
  BY ONLY <1>1, m = Head(wire), w = m.win, TakenSays
<1>4. ASSUME Described(w) PROVE Report(w) \in Event /\ Report(w).win = w
  <2>1. w \in DOMAIN pending /\ pending[w] \in Pending /\ pending[w].appId # NoClass
    BY <1>1, <1>4 DEF Known, Described, TypeOK
  <2>2. /\ pending[w].type \in {"Opened", "StateChanged", "Closed"}
        /\ pending[w].appId \in Classes /\ pending[w].focused \in BOOLEAN
    BY <2>1 DEF Pending
  <2> QED BY <1>2, <2>2 DEF Report, Event
<1>5. chan' = chan \/ (Described(w) /\ chan' = Append(chan, Report(w)))
  BY <1>2 DEF Handled
<1>6. CASE v # w
  BY <1>2, <1>3, <1>4, <1>5, <1>6
<1>7. CASE v = w
  <2>1. m.msg \in {"done", "closed"}
    BY <1>3, <1>7
  <2>2. m.msg # "closed"
    <3>1. SUFFICES ASSUME m.msg = "closed" PROVE FALSE
      OBVIOUS
    <3>2. pending' = IF Known(w) THEN [pending EXCEPT ![w] = [pending[w] EXCEPT !.type = "Closed"]]
                     ELSE pending
      BY <1>1, <3>1 DEF HandleToplevel, HandleTitle, HandleAppId, HandleState, HandleClosed,
                        HandleDone, Update
    <3>3. CASE Known(w)
      <4>1. pending[w] \in Pending
        BY <1>1, <3>3 DEF TypeOK, Known
      <4> QED BY <1>7, <3>2, <3>3, <4>1 DEF Known, Pending
    <3>4. CASE ~Known(w)
      BY <1>7, <3>2, <3>4 DEF Known
    <3> QED BY <3>3, <3>4
  <2>3. HandleDone(m)
    BY <1>1, <2>1, <2>2 DEF HandleToplevel, HandleTitle, HandleAppId, HandleState, HandleClosed
  <2>4. CASE Described(w)
    <3>1. chan' = Append(chan, Report(w)) /\ pending' = AfterReport(w)
      BY <2>3, <2>4 DEF HandleDone
    <3>2. Report(w).focused = pending[w].focused /\ pending[w] \in Pending /\ Known(w)
      BY <1>1, <2>4 DEF Report, Described, TypeOK, Known
    <3>3. pending'[w].focused = pending[w].focused
      <4>1. CASE pending[w].type = "Opened"
        BY <3>1, <3>2, <4>1 DEF AfterReport, Known, Pending
      <4>2. CASE pending[w].type = "StateChanged"
        BY <3>1, <4>2 DEF AfterReport
      <4>3. CASE pending[w].type = "Closed"
        BY <1>7, <3>1, <4>3 DEF AfterReport, Forgotten, Restrict, Known
      <4> QED BY <3>2, <4>1, <4>2, <4>3 DEF Pending
    <3> QED BY <1>4, <1>7, <2>4, <3>1, <3>2, <3>3
  <2>5. CASE ~Described(w)
    <3>1. pending' = pending
      BY <2>3, <2>5 DEF HandleDone
    <3>2. InStep(w)
      <4>1. Placed(w)
        BY <1>2 DEF IInv
      <4> QED BY <1>3, <4>1 DEF Placed, Untold
    <3> QED BY <1>7, <2>5, <3>1, <3>2 DEF InStep, ReportFollows, Known
  <2> QED BY <2>4, <2>5
<1> QED BY <1>6, <1>7

\* What the compositor says makes no window unreported, and is heard by no dock.
LEMMA SentReports ==
    ASSUME IInv, Compositor
    PROVE  /\ chan' = chan
           /\ \A v \in Windows : Unreported(v)' => Unreported(v)
           /\ \A v \in Windows : Reported(v)' <=> Reported(v)
<1> PICK b : Adds(b)
  BY CompositorSays
<1>1. /\ b \in Seq(Message) /\ wire \in Seq(Message) /\ wire' = wire \o b
      /\ pending' = pending /\ chan' = chan /\ untold' \subseteq untold
      /\ \A w \in Windows : Has(b, "toplevel", w) => w \in untold \/ screen[w].life = "unborn"
      /\ \A w \in Windows : screen'[w].life = "unborn" => screen[w].life = "unborn"
  BY DEF IInv, Typed, Adds
<1>2. ASSUME NEW v \in Windows, Unreported(v)' PROVE Unreported(v)
  <2>1. Has(wire', "toplevel", v) <=> Has(wire, "toplevel", v) \/ Has(b, "toplevel", v)
    BY <1>1, SentSays
  <2> QED BY <1>1, <1>2, <2>1 DEF Unreported, Known
<1>3. \A v \in Windows : Reported(v)' <=> Reported(v)
  <2> TAKE v \in Windows
  <2>1. Reported(v) = Reported(v)'
    BY <1>1 DEF Reported, Known, Described
  <2> QED BY <2>1
<1> QED BY <1>1, <1>2, <1>3

LEMMA ClassesSent ==
    ASSUME IInv, ClassesTrue, Compositor
    PROVE  ClassesTrue'
<1> SUFFICES ASSUME ~AppIdChanges PROVE ClassesTrue'
  BY DEF ClassesTrue
<1> PICK b : Adds(b)
  BY CompositorSays
<1>1. /\ b \in Seq(Message) /\ wire \in Seq(Message) /\ wire' = wire \o b
      /\ pending' = pending /\ chan' = chan /\ AppIdsTrue(b, screen')
      /\ \A w \in Windows : screen'[w].life = "unborn" => screen[w].life = "unborn"
      /\ \A w \in Windows : screen[w].life # "unborn" => screen'[w].appId = screen[w].appId
  BY DEF IInv, Typed, Adds
<1>2. /\ AppIdsTrue(wire, screen)
      /\ \A w \in DOMAIN pending : pending[w].appId \in {NoClass, screen[w].appId}
      /\ \A k \in DOMAIN chan : /\ screen[chan[k].win].life # "unborn"
                                /\ chan[k].class = screen[chan[k].win].appId
  BY DEF ClassesTrue
<1>3. ASSUME NEW w \in Windows, Known(w) \/ Mentions(wire, w)
      PROVE  screen[w].life # "unborn"
  BY <1>3 DEF IInv, Placed, Untold, InStep, BornFirst
<1>4. AppIdsTrue(wire', screen')
  <2> SUFFICES ASSUME NEW k \in DOMAIN wire', wire'[k].msg = "app_id"
               PROVE  wire'[k].class = screen'[wire'[k].win].appId
    BY DEF AppIdsTrue
  <2>1. /\ DOMAIN wire = 1 .. Len(wire)
        /\ \A j \in DOMAIN wire : (wire \o b)[j] = wire[j]
        /\ \A j \in DOMAIN b : (wire \o b)[Len(wire) + j] = b[j]
        /\ k \in DOMAIN wire \/ k - Len(wire) \in DOMAIN b
    BY <1>1, Joined
  <2>2. CASE k \in DOMAIN wire
    <3>1. wire'[k] = wire[k] /\ wire[k].win \in Windows /\ Mentions(wire, wire[k].win)
      BY <1>1, <2>1, <2>2, WireFacts DEF Mentions
    <3> QED BY <1>1, <1>2, <1>3, <2>2, <3>1 DEF AppIdsTrue
  <2>3. CASE k - Len(wire) \in DOMAIN b
    <3>1. k \in Int /\ Len(wire) \in Nat
      <4>1. DOMAIN wire' = 1 .. Len(wire) + Len(b)
        BY <1>1, Joined
      <4> QED BY <1>1, <4>1, LenProperties
    <3>2. Len(wire) + (k - Len(wire)) = k
      BY <3>1
    <3>3. wire'[k] = b[k - Len(wire)]
      BY <1>1, <2>1, <2>3, <3>2
    <3> QED BY <1>1, <2>3, <3>3 DEF AppIdsTrue
  <2> QED BY <2>1, <2>2, <2>3
<1>5. \A w \in DOMAIN pending' : pending'[w].appId \in {NoClass, screen'[w].appId}
  <2> TAKE w \in DOMAIN pending'
  <2>1. w \in Windows /\ Known(w) /\ pending'[w] = pending[w]
    BY <1>1 DEF IInv, Typed, TypeOK, Known
  <2> QED BY <1>1, <1>2, <1>3, <2>1 DEF Known
<1>6. \A k \in DOMAIN chan' : /\ screen'[chan'[k].win].life # "unborn"
                              /\ chan'[k].class = screen'[chan'[k].win].appId
  <2> TAKE k \in DOMAIN chan'
  <2>1. chan'[k] = chan[k] /\ chan[k].win \in Windows
    <3>1. chan \in Seq(Event) /\ k \in 1 .. Len(chan) /\ chan' = chan
      BY <1>1, LenProperties DEF IInv, Typed, TypeOK
    <3>2. chan[k] \in Event
      BY <3>1, ElementOfSeq
    <3> QED BY <3>1, <3>2 DEF Event
  <2> QED BY <1>1, <1>2, <2>1
<1> QED BY <1>4, <1>5, <1>6 DEF ClassesTrue

LEMMA ClassesDispatch ==
    ASSUME IInv, ClassesTrue, Dispatch
    PROVE  ClassesTrue'
<1> SUFFICES ASSUME ~AppIdChanges PROVE ClassesTrue'
  BY DEF ClassesTrue
<1> PICK m, w : m = Head(wire) /\ w = m.win
  OBVIOUS
<1>1. /\ wire # <<>> /\ wire' = Tail(wire) /\ wire \in Seq(Message) /\ screen' = screen
      /\ chan \in Seq(Event)
  BY DEF Dispatch, IInv, Typed, TypeOK
<1>2. /\ m \in Message /\ w \in Windows /\ Handled(m, w)
      /\ \A v \in Windows \ {w} :
           (Known(v)' <=> Known(v)) /\ (Known(v) => pending'[v] = pending[v])
  BY <1>1, HandledWindow
<1>3. /\ AppIdsTrue(wire, screen)
      /\ \A v \in DOMAIN pending : pending[v].appId \in {NoClass, screen[v].appId}
      /\ \A k \in DOMAIN chan : /\ screen[chan[k].win].life # "unborn"
                                /\ chan[k].class = screen[chan[k].win].appId
  BY DEF ClassesTrue
<1>4. /\ 1 \in DOMAIN wire /\ wire[1] = m
      /\ \A k \in DOMAIN wire' : k + 1 \in DOMAIN wire /\ wire'[k] = wire[k + 1]
  <2>1. /\ Len(wire) \in Nat \ {0} /\ DOMAIN wire = 1 .. Len(wire) /\ m = wire[1]
        /\ DOMAIN wire' = 1 .. Len(wire) - 1
        /\ \A k \in 1 .. Len(wire) - 1 : wire'[k] = wire[k + 1]
    BY <1>1, TailFacts
  <2> QED BY <2>1
<1>5. screen[w].life # "unborn"
  <2>1. Mentions(wire, w)
    BY <1>4 DEF Mentions
  <2> QED BY <1>2, <2>1 DEF IInv, Placed, Untold, InStep, BornFirst
<1>6. AppIdsTrue(wire', screen')
  BY <1>1, <1>3, <1>4 DEF AppIdsTrue
<1>7. m.msg = "app_id" => m.class = screen[w].appId
  BY <1>3, <1>4 DEF AppIdsTrue
<1>8. ASSUME NEW v \in DOMAIN pending' PROVE pending'[v].appId \in {NoClass, screen'[v].appId}
  <2>0. v \in Windows
    <3>1. IInv'
      BY DispatchStep
    <3> QED BY <3>1 DEF IInv, Typed, TypeOK
  <2>1. CASE v # w
    BY <1>1, <1>2, <1>3, <2>0, <2>1 DEF Known
  <2>2. CASE v = w
    <3>1. Known(w)'
      BY <2>2 DEF Known
    <3>2. pending'[w].appId \in {NoClass, IF m.msg = "app_id" THEN m.class ELSE pending[w].appId}
      BY <1>2, <3>1 DEF Handled, Known
    <3>3. pending'[w].appId # NoClass /\ m.msg # "app_id" => Known(w)
      BY <1>2, <3>1 DEF Handled, Known, Described
    <3> QED BY <1>1, <1>3, <1>7, <2>2, <3>2, <3>3 DEF Known
  <2> QED BY <2>1, <2>2
<1>9. ASSUME NEW k \in DOMAIN chan'
      PROVE  screen'[chan'[k].win].life # "unborn" /\ chan'[k].class = screen'[chan'[k].win].appId
  <2>1. CASE chan' = chan
    BY <1>1, <1>3, <2>1
  <2>2. CASE Described(w) /\ chan' = Append(chan, Report(w))
    <3>1. Report(w).win = w /\ Report(w).class = screen[w].appId
      BY <1>3, <2>2 DEF Described, Known, Report
    <3>2. chan'[k] = Report(w) \/ (k \in DOMAIN chan /\ chan'[k] = chan[k])
      <4>1. /\ Len(chan) \in Nat /\ DOMAIN chan = 1 .. Len(chan)
            /\ DOMAIN Append(chan, Report(w)) = 1 .. Len(chan) + 1
            /\ \A i \in 1 .. Len(chan) : Append(chan, Report(w))[i] = chan[i]
            /\ Append(chan, Report(w))[Len(chan) + 1] = Report(w)
        BY <1>1, AppendFacts
      <4> QED BY <2>2, <4>1
    <3> QED BY <1>1, <1>3, <1>5, <3>1, <3>2
  <2> QED BY <1>2, <2>1, <2>2 DEF Handled
<1> QED BY <1>6, <1>8, <1>9 DEF ClassesTrue

LEMMA StepClasses ==
    ASSUME IInv, ClassesTrue, [Next]_tvars
    PROVE  ClassesTrue'
<1>1. CASE Receive
  <2> SUFFICES ASSUME ~AppIdChanges PROVE ClassesTrue'
    BY DEF ClassesTrue
  <2>1. /\ wire' = wire /\ pending' = pending /\ screen' = screen
        /\ chan # <<>> /\ chan' = Tail(chan) /\ chan \in Seq(Event)
    BY <1>1 DEF Receive, IInv, Typed, TypeOK
  <2>2. \A k \in DOMAIN chan' : k + 1 \in DOMAIN chan /\ chan'[k] = chan[k + 1]
    <3>1. /\ Len(chan) \in Nat \ {0} /\ DOMAIN chan = 1 .. Len(chan)
          /\ DOMAIN chan' = 1 .. Len(chan) - 1
          /\ \A k \in 1 .. Len(chan) - 1 : chan'[k] = chan[k + 1]
      BY <2>1, TailFacts
    <3> QED BY <3>1
  <2> QED BY <2>1, <2>2 DEF ClassesTrue
<1>2. CASE Reconnect
  <2>1. /\ wire' = <<>> /\ DOMAIN wire' = {} /\ pending' = <<>> /\ DOMAIN pending' = {}
        /\ chan' = <<>> /\ DOMAIN chan' = {}
    BY <1>2 DEF Reconnect
  <2> QED BY <2>1 DEF ClassesTrue, AppIdsTrue
<1>3. CASE UNCHANGED tvars
  BY <1>3 DEF tvars, ClassesTrue
<1> QED BY <1>1, <1>2, <1>3, ClassesSent, ClassesDispatch DEF Next

LEMMA InitClasses == Init => ClassesTrue
<1> SUFFICES ASSUME Init PROVE ClassesTrue
  OBVIOUS
<1>1. DOMAIN wire = {} /\ DOMAIN pending = {} /\ DOMAIN chan = {}
  BY DEF Init
<1> QED BY <1>1 DEF ClassesTrue, AppIdsTrue

\* Together with IInv, what an observer of the channel may rely on
Orderly == IInv /\ InOrder /\ ClassesTrue

THEOREM AlwaysOrderly == Spec => []Orderly
<1>1. Init => Orderly
  BY InitIInv, InitInOrder, InitClasses DEF Orderly
<1>2. Orderly /\ [Next]_tvars => Orderly'
  BY StepIInv, StepInOrder, StepClasses DEF Orderly
<1> QED BY <1>1, <1>2, PTL DEF Spec
=============================================================================
