--------------------------- MODULE WindowsProofs ---------------------------
(***************************************************************************)
(* What TLAPS proves of Windows, for any bounds and any layouts at the     *)
(* start: its types, the ownership of panes, that the app outlives the     *)
(* windows, that the quit timer settles and that the end without windows   *)
(* is on its way.                                                          *)
(*                                                                         *)
(* The state is one record, and the handlers are compositions of functions *)
(* on it.  So the proof goes by kinds of change: each function is shown to *)
(* make one of a few (Closing, Removing, Adding, Moving, Making, Taking,   *)
(* Leaving...), and each of these is shown once to keep the invariant.     *)
(***************************************************************************)
EXTENDS Windows, FiniteSetTheorems, SequenceTheorems, WellFoundedInduction, TLAPS

-----------------------------------------------------------------------------
(* Sequences and induction.                                                *)

\* Induction up to a number, with a set for the predicate: a least number that
\* is not in T cannot be.
LEMMA Induct ==
    ASSUME NEW N \in Nat, NEW T, 0 \in T, \A n \in 1..N : n - 1 \in T => n \in T
    PROVE  0..N \subseteq T
  <1> SUFFICES ASSUME (0..N) \ T # {} PROVE FALSE
    OBVIOUS
  <1> DEFINE L == {p \in Nat \X Nat : p[1] < p[2]}
             U == (0..N) \ T
  <1>1. IsWellFoundedOn(L, Nat)
    BY Zenon, NatLessThanWellFounded DEF OpToRel
  <1>2. PICK x \in U : \A y \in U : ~(<<y, x>> \in L)
    <2>1. U \subseteq Nat /\ U # {}
      OBVIOUS
    <2> HIDE DEF L, U
    <2> QED BY WFMin, <1>1, <2>1
  <1>3. \A y \in U : ~(y < x)
    <2> TAKE y \in U
    <2>1. y \in Nat /\ x \in Nat
      OBVIOUS
    <2>2. ~(<<y, x>> \in L)
      BY <1>2
    <2> QED BY <2>1, <2>2
  <1> QED BY <1>3

\* A set of numbers that is not empty has a least one.
LEMMA LeastOf ==
    ASSUME NEW S, S \subseteq Nat, S # {}
    PROVE  Min(S) \in S /\ \A x \in S : Min(S) <= x
  <1> DEFINE L == {p \in Nat \X Nat : p[1] < p[2]}
  <1>1. IsWellFoundedOn(L, Nat)
    BY Zenon, NatLessThanWellFounded DEF OpToRel
  <1>2. PICK x \in S : \A y \in S : ~(<<y, x>> \in L)
    <2> HIDE DEF L
    <2> QED BY WFMin, <1>1
  <1>3. \A y \in S : x <= y
    <2> TAKE y \in S
    <2>1. y \in Nat /\ x \in Nat
      OBVIOUS
    <2>2. ~(<<y, x>> \in L)
      BY <1>2
    <2> QED BY <2>1, <2>2
  <1> QED BY <1>2, <1>3 DEF Min

\* A set of numbers up to a bound has a greatest one.
LEMMA GreatestOf ==
    ASSUME NEW N \in Nat, NEW S, S \subseteq 1..N, S # {}
    PROVE  Max(S) \in S /\ \A x \in S : x <= Max(S)
  <1> DEFINE R == {N - x : x \in S}
  <1>1. R \subseteq Nat /\ R # {}
    <2>1. \A x \in S : N - x \in Nat
      OBVIOUS
    <2> QED BY <2>1
  <1>2. Min(R) \in R /\ \A y \in R : Min(R) <= y
    <2> HIDE DEF R
    <2> QED BY <1>1, LeastOf
  <1>3. PICK x \in S : Min(R) = N - x
    BY <1>2
  <1>4. \A y \in S : y <= x
    <2> TAKE y \in S
    <2>0. x \in Int /\ y \in Int /\ N \in Int
      OBVIOUS
    <2>1. N - y \in R
      OBVIOUS
    <2>2. N - x <= N - y
      BY <1>2, <1>3, <2>1
    <2> HIDE DEF R
    <2> QED BY <2>0, <2>2
  <1>5. \E m \in S : \A y \in S : y <= m
    BY <1>3, <1>4
  <1> HIDE DEF R
  <1>6. Max(S) \in S /\ \A y \in S : y <= Max(S)
    <2> DEFINE P(m) == \A y \in S : y <= m
    <2>1. \A m \in S : P(m) <=> \A y \in S : m >= y
      OBVIOUS
    <2> QED BY <1>3, <1>4 DEF Max
  <1> QED BY <1>6

\* r holds the elements of q at the places I, in their order.
Picks(r, q, I) ==
    \E m \in [1..Len(r) -> 1..Len(q)] :
        /\ \A k \in 1..Len(r) : r[k] = q[m[k]]
        /\ \A k, l \in 1..Len(r) : k < l => m[k] < m[l]
        /\ \A i \in 1..Len(q) : i \in I <=> \E k \in 1..Len(r) : m[k] = i

\* A sequence without one element.
LEMMA RemoveAtPicks ==
    ASSUME NEW S, NEW q \in Seq(S), NEW d \in 1..Len(q)
    PROVE  /\ RemoveAt(q, d) \in Seq(S)
           /\ Len(RemoveAt(q, d)) = Len(q) - 1
           /\ \A k \in 1..(Len(q) - 1) : RemoveAt(q, d)[k] = IF k < d THEN q[k] ELSE q[k + 1]
           /\ Picks(RemoveAt(q, d), q, (1..Len(q)) \ {d})
  <1> DEFINE a == SubSeq(q, 1, d - 1)
             b == SubSeq(q, d + 1, Len(q))
             r == RemoveAt(q, d)
             m == [k \in 1..(Len(q) - 1) |-> IF k < d THEN k ELSE k + 1]
  <1>0. Len(q) \in Nat /\ d \in Nat /\ d >= 1 /\ d <= Len(q) /\ \A k \in 1..Len(q) : q[k] \in S
    OBVIOUS
  <1>a. a \in Seq(S) /\ Len(a) = d - 1 /\ \A k \in 1..(d - 1) : a[k] = q[k]
    <2>1. \A k \in 1..(d - 1) : q[k] \in S
      BY <1>0
    <2> QED BY <1>0, <2>1, SubSeqProperties
  <1>b. b \in Seq(S) /\ Len(b) = Len(q) - d /\ \A k \in 1..(Len(q) - d) : b[k] = q[d + k]
    <2>1. \A k \in (d + 1)..Len(q) : q[k] \in S
      BY <1>0
    <2>2. /\ b \in Seq(S) /\ Len(b) = IF d + 1 <= Len(q) THEN Len(q) - (d + 1) + 1 ELSE 0
          /\ \A k \in 1..(Len(q) - (d + 1) + 1) : b[k] = q[(d + 1) + k - 1]
      BY <1>0, <2>1, SubSeqProperties
    <2> QED BY <1>0, <2>2
  <1>2. r = a \o b
    BY DEF RemoveAt
  <1> HIDE DEF a, b, r
  <1>1. /\ r \in Seq(S) /\ Len(r) = Len(a) + Len(b)
        /\ \A k \in 1..(Len(a) + Len(b)) : r[k] = IF k <= Len(a) THEN a[k] ELSE b[k - Len(a)]
    BY <1>a, <1>b, <1>2, ConcatProperties
  <1>3. r \in Seq(S) /\ Len(r) = Len(q) - 1
    BY <1>0, <1>1, <1>a, <1>b
  <1>4. \A k \in 1..(Len(q) - 1) : r[k] = IF k < d THEN q[k] ELSE q[k + 1]
    <2> TAKE k \in 1..(Len(q) - 1)
    <2>0. /\ k \in 1..(Len(a) + Len(b)) /\ Len(a) = d - 1
          /\ r[k] = IF k <= Len(a) THEN a[k] ELSE b[k - Len(a)]
      <3>1. k \in 1..(Len(a) + Len(b)) /\ Len(a) = d - 1
        BY <1>0, <1>a, <1>b
      <3> QED BY <1>1, <3>1
    <2>1. CASE k < d
      <3>1. k <= Len(a) /\ k \in 1..(d - 1)
        BY <1>0, <2>0, <2>1
      <3> QED BY <2>0, <2>1, <3>1, <1>a
    <2>2. CASE k >= d
      <3>1. r[k] = b[k - (d - 1)]
        <4>1. ~(k <= Len(a))
          BY <1>0, <2>0, <2>2
        <4> QED BY <2>0, <4>1
      <3>2. k - (d - 1) \in 1..(Len(q) - d)
        BY <2>2
      <3>3. b[k - (d - 1)] = q[d + (k - (d - 1))] /\ d + (k - (d - 1)) = k + 1
        BY <1>0, <1>b, <3>2
      <3> QED BY <2>2, <3>1, <3>3
    <2> QED BY <1>0, <2>1, <2>2
  <1>5. Picks(r, q, (1..Len(q)) \ {d})
    <2>1. /\ m \in [1..Len(r) -> 1..Len(q)]
          /\ \A k \in 1..Len(r) : r[k] = q[m[k]]
          /\ \A k, l \in 1..Len(r) : k < l => m[k] < m[l]
      BY <1>3, <1>4
    <2>2. \A k \in 1..Len(r) : m[k] = IF k < d THEN k ELSE k + 1
      BY <1>3
    <2> HIDE DEF m
    <2>3. ASSUME NEW i \in 1..Len(q)
          PROVE  i \in (1..Len(q)) \ {d} <=> \E k \in 1..Len(r) : m[k] = i
      <3>1. CASE i < d
        <4>1. i \in 1..Len(r) /\ m[i] = i
          BY <1>0, <1>3, <3>1, <2>2
        <4> QED BY <3>1, <4>1
      <3>2. CASE i > d
        <4>1. i - 1 \in 1..Len(r) /\ m[i - 1] = i
          BY <1>0, <1>3, <3>2, <2>2
        <4>2. i # d
          BY <1>0, <3>2
        <4> QED BY <4>1, <4>2
      <3>3. CASE i = d
        BY <1>0, <1>3, <3>3, <2>2
      <3> QED BY <1>0, <3>1, <3>2, <3>3
    <2> QED BY <2>1, <2>3 DEF Picks
  <1> QED BY <1>3, <1>4, <1>5 DEF r

\* Kept keeps what is in K, in its order.
LEMMA KeptPicks ==
    ASSUME NEW S, NEW q \in Seq(S), NEW K
    PROVE  /\ Kept(q, K) \in Seq(S)
           /\ Picks(Kept(q, K), q, {i \in 1..Len(q) : q[i] \in K})
  <1> DEFINE N == Len(q)
             Step(f, n) == IF n = 0 THEN <<>>
                           ELSE IF q[n] \in K THEN Append(f[n - 1], q[n]) ELSE f[n - 1]
             T == {n \in 0..N : \E f : f = [k \in 0..n |-> Step(f, k)]}
  <1>0. N \in Nat
    OBVIOUS
  <1>1. 0..N \subseteq T
    <2>1. 0 \in T
      <3> DEFINE f == [k \in 0..0 |-> <<>>]
      <3>1. f = [k \in 0..0 |-> Step(f, k)]
        OBVIOUS
      <3> HIDE DEF f, Step
      <3> QED BY <3>1, <1>0
    <2>2. ASSUME NEW n \in 1..N, n - 1 \in T PROVE n \in T
      <3>1. PICK f : f = [k \in 0..(n - 1) |-> Step(f, k)]
        BY <2>2
      <3> DEFINE h == [k \in 0..n |-> IF k = n THEN Step(f, n) ELSE f[k]]
      <3>2. \A k \in 0..n : h[k] = Step(h, k)
        <4> TAKE k \in 0..n
        <4>1. CASE k = 0
          <5>1. f[0] = Step(f, 0)
            BY <3>1
          <5>2. 0 # n
            OBVIOUS
          <5> QED BY <4>1, <5>1, <5>2
        <4>2. CASE k # 0
          <5>1. k - 1 \in 0..(n - 1) /\ h[k - 1] = f[k - 1]
            BY <4>2
          <5>2. Step(h, k) = Step(f, k)
            BY <5>1, <4>2
          <5>3. k # n => f[k] = Step(f, k)
            <6> HIDE DEF Step
            <6> QED BY <3>1
          <5> QED BY <5>2, <5>3
        <4> QED BY <4>1, <4>2
      <3>3. h = [k \in 0..n |-> Step(h, k)]
        <4> HIDE DEF Step
        <4>1. DOMAIN h = 0..n /\ h = [k \in 0..n |-> h[k]]
          OBVIOUS
        <4> HIDE DEF h
        <4> QED BY <3>2, <4>1
      <3> HIDE DEF h, Step
      <3> QED BY <3>3
    <2> HIDE DEF T
    <2> QED BY <1>0, <2>1, <2>2, Induct
  <1>2. PICK g : g = [k \in 0..N |-> Step(g, k)]
    <2> HIDE DEF Step
    <2>1. N \in T
      BY <1>0, <1>1
    <2> QED BY <2>1
  <1> DEFINE kept == CHOOSE f : f = [n \in 0..N |-> Step(f, n)]
  <1>3. kept = [n \in 0..N |-> Step(kept, n)]
    BY <1>2
  <1>4. Kept(q, K) = kept[N]
    BY DEF Kept
  <1> HIDE DEF kept
  <1> DEFINE Prefix(n) == {i \in 1..n : q[i] \in K}
             Good(n) == /\ kept[n] \in Seq(S)
                        /\ \E m \in [1..Len(kept[n]) -> 1..n] :
                              /\ \A k \in 1..Len(kept[n]) : kept[n][k] = q[m[k]]
                              /\ \A k, l \in 1..Len(kept[n]) : k < l => m[k] < m[l]
                              /\ \A i \in 1..n : q[i] \in K <=> \E k \in 1..Len(kept[n]) : m[k] = i
             U == {n \in 0..N : Good(n)}
  <1>5. 0..N \subseteq U
    <2>1. 0 \in U
      <3>1. kept[0] = <<>>
        BY <1>3
      <3> DEFINE m == [k \in 1..0 |-> 0]
      <3>2. /\ m \in [1..Len(<<>>) -> 1..0]
            /\ \A k \in 1..Len(<<>>) : <<>>[k] = q[m[k]]
            /\ \A k, l \in 1..Len(<<>>) : k < l => m[k] < m[l]
            /\ \A i \in 1..0 : q[i] \in K <=> \E k \in 1..Len(<<>>) : m[k] = i
            /\ <<>> \in Seq(S)
        OBVIOUS
      <3> HIDE DEF m
      <3>3. Good(0)
        <4>1. /\ kept[0] \in Seq(S)
              /\ m \in [1..Len(kept[0]) -> 1..0]
              /\ \A k \in 1..Len(kept[0]) : kept[0][k] = q[m[k]]
              /\ \A k, l \in 1..Len(kept[0]) : k < l => m[k] < m[l]
              /\ \A i \in 1..0 : q[i] \in K <=> \E k \in 1..Len(kept[0]) : m[k] = i
          <5> HIDE DEF kept
          <5> QED BY Zenon, <3>1, <3>2
        <4> QED BY Zenon, <4>1
      <3> QED BY <3>3, <1>0
    <2>2. ASSUME NEW n \in 1..N, n - 1 \in U PROVE n \in U
      <3> DEFINE s == kept[n - 1]
                 t == kept[n]
      <3>1. s \in Seq(S) /\ Len(s) \in Nat /\ n \in Nat /\ q[n] \in S
        BY <2>2
      <3>2. PICK m \in [1..Len(s) -> 1..(n - 1)] :
               /\ \A k \in 1..Len(s) : s[k] = q[m[k]]
               /\ \A k, l \in 1..Len(s) : k < l => m[k] < m[l]
               /\ \A i \in 1..(n - 1) : q[i] \in K <=> \E k \in 1..Len(s) : m[k] = i
        BY <2>2
      <3>3. t = IF q[n] \in K THEN Append(s, q[n]) ELSE s
        <4>1. n \in 0..N /\ n # 0
          OBVIOUS
        <4>2. kept[n] = Step(kept, n)
          <5> HIDE DEF Step
          <5> QED BY <1>3, <4>1
        <4> QED BY <4>1, <4>2
      <3> HIDE DEF s, t
      <3>4. CASE q[n] \notin K
        <4>1. t = s
          BY <3>3, <3>4
        <4>2. m \in [1..Len(s) -> 1..n]
          BY <3>1, <3>2
        <4>3. \A i \in 1..n : q[i] \in K <=> \E k \in 1..Len(s) : m[k] = i
          <5> TAKE i \in 1..n
          <5>1. CASE i = n
            BY <3>1, <3>2, <3>4, <5>1
          <5>2. CASE i # n
            <6>1. i \in 1..(n - 1)
              BY <5>2, <3>1
            <6> QED BY <6>1, <3>2
          <5> QED BY <5>1, <5>2
        <4>4. Good(n)
          BY <3>1, <3>2, <4>1, <4>2, <4>3 DEF t
        <4> HIDE DEF Good
        <4> QED BY <4>4, <3>1
      <3>5. CASE q[n] \in K
        <4> DEFINE e == [k \in 1..(Len(s) + 1) |-> IF k = Len(s) + 1 THEN n ELSE m[k]]
        <4>1. /\ t \in Seq(S) /\ Len(t) = Len(s) + 1 /\ t[Len(s) + 1] = q[n]
              /\ \A k \in 1..Len(s) : t[k] = s[k]
          BY <3>1, <3>3, <3>5
        <4>2. e \in [1..Len(t) -> 1..n]
          BY <3>1, <3>2, <4>1
        <4>3. /\ \A k \in 1..Len(s) : e[k] = m[k] /\ m[k] \in 1..(n - 1)
              /\ e[Len(s) + 1] = n
          BY <3>1, <3>2
        <4> HIDE DEF e
        <4>4. \A k \in 1..Len(t) : t[k] = q[e[k]]
          <5> TAKE k \in 1..Len(t)
          <5>1. CASE k = Len(s) + 1
            BY <4>1, <4>3, <5>1
          <5>2. CASE k # Len(s) + 1
            <6>1. k \in 1..Len(s)
              BY <3>1, <4>1, <5>2
            <6> QED BY <6>1, <4>1, <4>3, <3>2
          <5> QED BY <5>1, <5>2
        <4>5. ASSUME NEW k \in 1..Len(t), NEW l \in 1..Len(t), k < l PROVE e[k] < e[l]
          <5>1. k \in 1..Len(s)
            BY <3>1, <4>1, <4>5
          <5>2. CASE l = Len(s) + 1
            BY <3>1, <4>3, <5>1, <5>2
          <5>3. CASE l # Len(s) + 1
            <6>1. l \in 1..Len(s)
              BY <3>1, <4>1, <5>3
            <6>2. m[k] < m[l]
              BY <3>2, <5>1, <6>1, <4>5
            <6> QED BY <6>1, <6>2, <5>1, <4>3
          <5> QED BY <5>2, <5>3
        <4>6. ASSUME NEW i \in 1..n PROVE q[i] \in K <=> \E k \in 1..Len(t) : e[k] = i
          <5>1. CASE i = n
            <6>1. Len(s) + 1 \in 1..Len(t)
              BY <3>1, <4>1
            <6> QED BY <6>1, <4>3, <5>1, <3>5
          <5>2. CASE i # n
            <6>1. i \in 1..(n - 1)
              BY <5>2, <3>1
            <6>2. \A k \in 1..Len(s) : k \in 1..Len(t)
              BY <3>1, <4>1
            <6>3. \A k \in 1..Len(t) : e[k] = i => k \in 1..Len(s)
              BY <3>1, <4>1, <4>3, <5>2
            <6> QED BY <6>1, <6>2, <6>3, <3>2, <4>3
          <5> QED BY <5>1, <5>2
        <4>7. Good(n)
          BY <4>1, <4>2, <4>4, <4>5, <4>6 DEF t
        <4> HIDE DEF Good
        <4> QED BY <4>7, <3>1
      <3> QED BY <3>4, <3>5
    <2> HIDE DEF U
    <2> QED BY <1>0, <2>1, <2>2, Induct
  <1>6. Good(N)
    BY <1>0, <1>5
  <1> DEFINE r == kept[N]
             I == {i \in 1..N : q[i] \in K}
  <1>7. \A i \in 1..N : i \in I <=> q[i] \in K
    OBVIOUS
  <1>8. r \in Seq(S)
    BY <1>6
  <1>9. PICK m \in [1..Len(r) -> 1..N] :
           /\ \A k \in 1..Len(r) : r[k] = q[m[k]]
           /\ \A k, l \in 1..Len(r) : k < l => m[k] < m[l]
           /\ \A i \in 1..N : q[i] \in K <=> \E k \in 1..Len(r) : m[k] = i
    BY <1>6
  <1>10. Picks(r, q, I)
    <2> HIDE DEF r, I, Good, U, T, Prefix, Step
    <2>1. \A i \in 1..N : i \in I <=> \E k \in 1..Len(r) : m[k] = i
      BY Zenon, <1>7, <1>9
    <2> QED BY Zenon, <1>9, <2>1 DEF Picks
  <1> QED BY Zenon, <1>4, <1>8, <1>10

-----------------------------------------------------------------------------
(* The invariant.                                                          *)

\* The fields of gui.
Fields ==
    {"app", "windows", "open", "tabs", "registered", "owner", "closing", "skip",
     "pending", "hidden", "quick", "core", "running", "queue", "stack", "timer", "undo",
     "redo", "phase", "mode", "born", "made", "inputs"}

\* The kinds of events, as their windows or the application receive them.
WindowEvents ==
    {"new tab", "new split", "close window", "close tab", "close surface", "delete window"}
Kinds == AppEvents \cup WindowEvents \cup {"delete page"}
Args == {"", "quit", "start", "stop", "this", "other", "right"}

\* The events of the queue, and the frames of the nested event loops.
Events == [kind : Kinds, window : Nat, panes : SUBSET Surface, arg : Args, level : Nat]
FrameKinds == {"split", "tab", "tabs", "window", "all", "quit all", "drag"}
Frames == [kind : FrameKinds, window : Window, panes : SUBSET Surface, arg : Seq(Nat)]
Page == (SUBSET Surface) \ {{}}

\* The windows that are.
Live(g) == ToSet(g.windows)

\* The fields of a state and their types.
Typed(g) ==
    /\ DOMAIN g = Fields
    /\ g.windows \in Seq(Window) /\ g.open \subseteq Window
    /\ g.closing \subseteq Window /\ g.skip \subseteq Window /\ g.pending \subseteq Window
    /\ g.hidden \subseteq Window /\ (Hides \/ g.hidden = {})
    /\ g.tabs \in [Window -> Seq(Page)]
    /\ g.registered \in [Window -> SUBSET Surface]
    /\ DOMAIN g.owner = Surface
    /\ g.core \subseteq Surface /\ g.running \subseteq Surface
    /\ g.queue \in Seq(Events) /\ g.stack \in Seq(Frames)
    /\ g.undo \in Seq(Nat) /\ Len(g.undo) <= Cap
    /\ g.redo \in Seq(Nat) /\ Len(g.redo) <= Cap
    /\ g.timer \in BOOLEAN /\ g.app \in BOOLEAN
    /\ g.phase \in {"running", "quit", "undefined"}
    /\ g.mode \in {"now", "delay", "never"} /\ g.mode \in Modes
    /\ g.born \in 0..MaxWindows /\ g.made \in 0..MaxSurfaces

\* What a window lists is what is in its tabs.
Owning(g) ==
    \A w \in Window :
        /\ g.registered[w] = UNION ToSet(g.tabs[w])
        /\ \A i, j \in DOMAIN g.tabs[w] : g.tabs[w][i] \cap g.tabs[w][j] # {} => i = j
        /\ \A s \in g.registered[w] : g.owner[s] = w /\ s \in g.core /\ s <= g.made

\* The windows that are.
Living(g) ==
    /\ \A i, j \in DOMAIN g.windows : g.windows[i] = g.windows[j] => i = j
    /\ \A w \in Live(g) : w <= g.born
    /\ g.open \subseteq Live(g)
    /\ \A w \in Window \ Live(g) : g.tabs[w] = <<>>
    /\ g.windows # <<>> => g.app

\* What an event is about.
Fine(g, e) ==
    /\ \/ e.kind \in AppEvents \cup {"delete page"} /\ e.window = 0
       \/ e.kind \in WindowEvents /\ e.window \in Live(g)
    /\ e.kind = "close tab" => e.arg \in {"this", "other", "right"}
    /\ e.kind = "quit timer" => e.arg \in {"start", "stop"}
    /\ e.kind = "delete page" =>
          \A s \in e.panes : s <= g.made /\ \A w \in Window : s \notin g.registered[w]
    /\ e.kind = "delete window" => e.window \notin g.open

\* Every event is Fine, and each window is deleted once.
Posted(g) ==
    /\ \A i \in DOMAIN g.queue : Fine(g, g.queue[i])
    /\ \A i, j \in DOMAIN g.queue :
          /\ g.queue[i].kind = "delete window" /\ g.queue[j].kind = "delete window"
          /\ g.queue[i].window = g.queue[j].window
          => i = j

\* A deletion of w is behind the place i of the queue.
DeletedAfter(g, i, w) ==
    \E j \in DOMAIN g.queue : j > i /\ g.queue[j].kind = "delete window" /\ g.queue[j].window = w

\* A closed window will be deleted.
Deleted(g) == \A w \in Live(g) \ g.open : DeletedAfter(g, 0, w)

\* A window in closeEvent is open.
Framed(g) ==
    /\ \A i \in DOMAIN g.stack : g.stack[i].kind = "window" =>
          g.stack[i].window \in g.open \cap g.closing
    /\ \A i, j \in DOMAIN g.stack :
          /\ g.stack[i].kind = "window" /\ g.stack[j].kind = "window"
          /\ g.stack[i].window = g.stack[j].window
          => i = j

Openings == {"new window", "quick terminal", "undo"}

\* What opens a window is posted while one is open or has its deletion behind the event:
\* so no such event is left to the teardown with the last window.
Opened(g) ==
    \A i \in DOMAIN g.queue : g.queue[i].kind \in Openings =>
        \E w \in Live(g) : w \in g.open \/ DeletedAfter(g, i, w)

\* Every surface is in the list of a window or on its way to be deleted.
Accounted(g) ==
    \A s \in g.core :
        \/ \E w \in Window : s \in g.registered[w]
        \/ \E i \in DOMAIN g.queue : g.queue[i].kind = "delete page" /\ s \in g.queue[i].panes

\* The last start or stop of the quit timer in the queue, or that there is none.
IsLastRequest(g, i) ==
    /\ g.queue[i].kind = "quit timer"
    /\ \A j \in DOMAIN g.queue : j > i => g.queue[j].kind # "quit timer"
NoRequest(g) == \A i \in DOMAIN g.queue : g.queue[i].kind # "quit timer"

\* The last request says stop while a pane is listed, start once the core has none.
Timed(g) ==
    /\ g.timer => g.mode = "delay"
    /\ \A i \in DOMAIN g.queue : IsLastRequest(g, i) =>
          /\ Registered(g) # {} => g.queue[i].arg = "stop"
          /\ g.core = {} => g.queue[i].arg = "start"
    /\ Registered(g) # {} /\ NoRequest(g) => ~g.timer

\* Without windows, surfaces and requests, the timer runs already.
Armed(g) ==
    g.windows = <<>> /\ g.phase = "running" /\ g.mode = "delay" /\ g.core = {} /\ NoRequest(g)
    => g.timer

\* With quit-after-last-window-closed at once, the last close has posted the end,
\* unless the window was hidden.
Quitting(g) ==
    ~Hides /\ g.mode = "now" /\ g.phase = "running" /\ g.open = {} =>
        \E i \in DOMAIN g.queue : g.queue[i].kind = "quit"

\* All of it; Armed is kept apart because it fails between the two halves of a destructor.
Inv0(g) ==
    /\ Typed(g) /\ Owning(g) /\ Living(g) /\ Posted(g) /\ Deleted(g)
    /\ Framed(g) /\ Opened(g) /\ Accounted(g) /\ Timed(g) /\ Quitting(g)

\* The inductive invariant.
Inv(g) == Inv0(g) /\ Armed(g)

\* r is g but for the fields in F.
Keeps(r, g, F) == DOMAIN r = DOMAIN g /\ \A f \in Fields \ F : r[f] = g[f]

\* Fields that only the type and the frames of the stack are about.
Aside == {"closing", "skip", "pending", "hidden", "quick", "running", "stack", "undo", "redo", "phase", "inputs"}

\* Fields beside the invariant may change.
LEMMA AsideKept ==
    ASSUME NEW g, NEW r, Inv0(g), Keeps(r, g, Aside), Typed(r), Framed(r),
           r.phase = "running" => g.phase = "running"
    PROVE  Inv0(r) /\ (Armed(g) => Armed(r))
  <1>1. /\ r.app = g.app /\ r.windows = g.windows /\ r.open = g.open /\ r.tabs = g.tabs
        /\ r.registered = g.registered /\ r.owner = g.owner /\ r.core = g.core
        /\ r.queue = g.queue /\ r.timer = g.timer /\ r.mode = g.mode
        /\ r.born = g.born /\ r.made = g.made
    BY DEF Keeps, Aside, Fields
  <1>2. Owning(r)
    BY <1>1 DEF Inv0, Owning
  <1>3. Living(r)
    BY <1>1 DEF Inv0, Living, Live
  <1>4. Posted(r)
    BY <1>1 DEF Inv0, Posted, Fine, Live
  <1>a. Live(r) = Live(g)
    BY <1>1 DEF Live
  <1>b. \A w, i : DeletedAfter(r, i, w) <=> DeletedAfter(g, i, w)
    BY <1>1 DEF DeletedAfter
  <1>5. Deleted(r)
    BY <1>1, <1>a, <1>b DEF Inv0, Deleted
  <1>6. Opened(r)
    BY <1>1 DEF Inv0, Opened, DeletedAfter, Live
  <1>7. Accounted(r)
    BY <1>1 DEF Inv0, Accounted
  <1>8. Timed(r)
    <2>1. Registered(r) = Registered(g)
      BY <1>1 DEF Registered
    <2>2. NoRequest(r) <=> NoRequest(g)
      BY <1>1 DEF NoRequest
    <2>3. \A i : IsLastRequest(r, i) <=> IsLastRequest(g, i)
      BY <1>1 DEF IsLastRequest
    <2>4. Timed(g)
      BY DEF Inv0
    <2> QED BY <1>1, <2>1, <2>2, <2>3, <2>4 DEF Timed
  <1>9. Quitting(r)
    BY <1>1 DEF Inv0, Quitting
  <1>10. Armed(g) => Armed(r)
    BY <1>1 DEF Armed, NoRequest
  <1> QED BY <1>2, <1>3, <1>4, <1>5, <1>6, <1>7, <1>8, <1>9, <1>10 DEF Inv0

-----------------------------------------------------------------------------
(* Events are posted.                                                      *)

\* q is p and more events behind; the places of these.
Extends(q, p) ==
    /\ q \in Seq(Events) /\ p \in Seq(Events) /\ Len(p) <= Len(q)
    /\ \A k \in 1..Len(p) : q[k] = p[k]
New(q, p) == (Len(p) + 1)..Len(q)

\* What a queue with more events behind is.
LEMMA Longer ==
    ASSUME NEW q, NEW p, Extends(q, p)
    PROVE  /\ DOMAIN q = 1..Len(q) /\ DOMAIN p = 1..Len(p) /\ Len(q) \in Nat /\ Len(p) \in Nat
           /\ DOMAIN p \subseteq DOMAIN q
           /\ \A i \in DOMAIN q : i \in DOMAIN p \/ i \in New(q, p)
           /\ \A i \in DOMAIN p : q[i] = p[i] /\ i \in Nat
           /\ \A i \in DOMAIN p, j \in New(q, p) : i < j
           /\ \A j \in New(q, p) : j \in DOMAIN q /\ j \notin DOMAIN p /\ j \in Nat /\ j > 0
  <1>1. DOMAIN q = 1..Len(q) /\ DOMAIN p = 1..Len(p) /\ Len(q) \in Nat /\ Len(p) \in Nat
    BY DEF Extends
  <1>2. Len(p) <= Len(q) /\ \A k \in 1..Len(p) : q[k] = p[k]
    BY DEF Extends
  <1> QED BY <1>1, <1>2 DEF New

\* One event more.
LEMMA Appended ==
    ASSUME NEW p \in Seq(Events), NEW e \in Events, NEW q, q = Append(p, e)
    PROVE  Extends(q, p) /\ New(q, p) = {Len(p) + 1} /\ q[Len(p) + 1] = e
  <1>1. q \in Seq(Events) /\ Len(q) = Len(p) + 1 /\ Len(p) \in Nat /\ q[Len(p) + 1] = e
        /\ \A k \in 1..Len(p) : q[k] = p[k]
    OBVIOUS
  <1> QED BY <1>1 DEF Extends, New

\* A deletion that is posted stays posted.
LEMMA StillDeleted ==
    ASSUME NEW g, NEW r, Extends(r.queue, g.queue), NEW i, NEW w, DeletedAfter(g, i, w)
    PROVE  DeletedAfter(r, i, w)
  <1>1. PICK j \in DOMAIN g.queue :
           j > i /\ g.queue[j].kind = "delete window" /\ g.queue[j].window = w
    BY DEF DeletedAfter
  <1>2. j \in DOMAIN r.queue /\ r.queue[j] = g.queue[j]
    <2> DEFINE q == r.queue
               p == g.queue
    <2>1. DOMAIN p \subseteq DOMAIN q /\ \A k \in DOMAIN p : q[k] = p[k]
      <3>1. Extends(q, p)
        OBVIOUS
      <3> HIDE DEF q, p
      <3> QED BY <3>1, Longer
    <2> QED BY <2>1
  <1> QED BY <1>1, <1>2 DEF DeletedAfter

\* Events that no invariant but Posted is about.
Harmless(g, e) ==
    /\ Fine(g, e)
    /\ e.kind \notin {"quit timer", "delete window"}
    /\ e.kind \in Openings => g.open # {}

\* Harmless events may be posted.
LEMMA Queued ==
    ASSUME NEW g, NEW r, Inv0(g), Keeps(r, g, {"queue"}), Extends(r.queue, g.queue),
           \A k \in New(r.queue, g.queue) : Harmless(g, r.queue[k])
    PROVE  Inv0(r) /\ (Armed(g) => Armed(r))
  <1>1. /\ r.app = g.app /\ r.windows = g.windows /\ r.open = g.open /\ r.tabs = g.tabs
        /\ r.registered = g.registered /\ r.owner = g.owner /\ r.core = g.core
        /\ r.timer = g.timer /\ r.mode = g.mode /\ r.phase = g.phase
        /\ r.born = g.born /\ r.made = g.made /\ r.stack = g.stack /\ r.closing = g.closing
    BY DEF Keeps, Fields
  <1>2. /\ r.skip = g.skip /\ r.pending = g.pending /\ r.hidden = g.hidden /\ r.running = g.running /\ r.undo = g.undo
        /\ r.redo = g.redo
        /\ r.quick = g.quick /\ DOMAIN r = DOMAIN g
    BY DEF Keeps, Fields
  <1> DEFINE Q == r.queue
             P == g.queue
  <1>3. /\ DOMAIN Q = 1..Len(Q) /\ DOMAIN P = 1..Len(P) /\ Len(Q) \in Nat /\ Len(P) \in Nat
        /\ DOMAIN P \subseteq DOMAIN Q
        /\ \A i \in DOMAIN Q : i \in DOMAIN P \/ i \in New(Q, P)
        /\ \A i \in DOMAIN P : Q[i] = P[i] /\ i \in Nat
        /\ \A i \in DOMAIN P, j \in New(Q, P) : i < j
        /\ \A j \in New(Q, P) : j \in DOMAIN Q /\ j \notin DOMAIN P /\ j \in Nat /\ j > 0
    BY Longer
  <1>a. Live(r) = Live(g) /\ Registered(r) = Registered(g)
    BY <1>1 DEF Live, Registered
  <1>b. \A w, i : DeletedAfter(g, i, w) => DeletedAfter(r, i, w)
    BY StillDeleted
  <1>c. Typed(g) /\ Owning(g) /\ Living(g) /\ Posted(g) /\ Deleted(g)
        /\ Framed(g) /\ Opened(g) /\ Accounted(g) /\ Timed(g) /\ Quitting(g)
    BY DEF Inv0
  <1>d. \A e : Fine(r, e) <=> Fine(g, e)
    BY <1>1, <1>a DEF Fine
  <1>e. \A k \in New(Q, P) : /\ Fine(g, Q[k]) /\ Q[k].kind \notin {"quit timer", "delete window"}
                             /\ Q[k].kind \in Openings => g.open # {}
    BY DEF Harmless
  <1>4. Typed(r)
    BY <1>1, <1>2, <1>c DEF Typed, Extends
  <1>5. Owning(r)
    BY <1>1, <1>c DEF Owning
  <1>6. Living(r)
    BY <1>1, <1>a, <1>c DEF Living
  <1>7. Posted(r)
    <2>1. \A i \in DOMAIN Q : Fine(r, Q[i])
      BY <1>3, <1>c, <1>d, <1>e DEF Posted
    <2>2. \A i \in DOMAIN Q : Q[i].kind = "delete window" => i \in DOMAIN P /\ Q[i] = P[i]
      BY <1>3, <1>e
    <2> QED BY <1>c, <2>1, <2>2 DEF Posted
  <1>8. Deleted(r)
    BY <1>1, <1>a, <1>b, <1>c DEF Deleted
  <1>9. Framed(r)
    BY <1>1, <1>c DEF Framed
  <1>10. Opened(r)
    <2> SUFFICES ASSUME NEW i \in DOMAIN Q, Q[i].kind \in Openings
                 PROVE  \E w \in Live(g) : w \in g.open \/ DeletedAfter(r, i, w)
      BY <1>1, <1>a DEF Opened
    <2>1. CASE i \in DOMAIN P
      BY <1>3, <1>b, <1>c, <2>1 DEF Opened
    <2>2. CASE i \in New(Q, P)
      BY <1>c, <1>e, <2>2 DEF Living
    <2> QED BY <1>3, <2>1, <2>2
  <1>11. Accounted(r)
    <2> SUFFICES ASSUME NEW s \in g.core
                 PROVE  \/ \E w \in Window : s \in g.registered[w]
                        \/ \E i \in DOMAIN Q : Q[i].kind = "delete page" /\ s \in Q[i].panes
      BY <1>1 DEF Accounted
    <2>1. \/ \E w \in Window : s \in g.registered[w]
          \/ \E i \in DOMAIN P : P[i].kind = "delete page" /\ s \in P[i].panes
      BY <1>c DEF Accounted
    <2>2. \A i \in DOMAIN P : i \in DOMAIN Q /\ Q[i] = P[i]
      BY <1>3
    <2> QED BY <2>1, <2>2
  <1>f. \A i \in DOMAIN Q : Q[i].kind = "quit timer" => i \in DOMAIN P /\ Q[i] = P[i]
    BY <1>3, <1>e
  <1>g. NoRequest(r) <=> NoRequest(g)
    BY <1>3, <1>f DEF NoRequest
  <1>12. Timed(r)
    <2>1. \A i \in DOMAIN Q : IsLastRequest(r, i) => i \in DOMAIN P /\ Q[i] = P[i] /\ IsLastRequest(g, i)
      BY <1>3, <1>f DEF IsLastRequest
    <2> QED BY <1>1, <1>a, <1>g, <1>c, <2>1 DEF Timed
  <1>13. Quitting(r)
    BY <1>1, <1>3, <1>c DEF Quitting
  <1>14. Armed(g) => Armed(r)
    BY <1>1, <1>g DEF Armed
  <1> QED BY <1>4, <1>5, <1>6, <1>7, <1>8, <1>9, <1>10, <1>11, <1>12, <1>13, <1>14 DEF Inv0

-----------------------------------------------------------------------------
(* A window is closed.                                                     *)

\* An open window is closed: it will be deleted, and Qt may quit.
Closing(r, g, w) ==
    /\ w \in g.open
    /\ \A k \in DOMAIN g.stack : g.stack[k].kind = "window" => g.stack[k].window # w
    /\ Keeps(r, g, {"open", "queue"})
    /\ r.open = g.open \ {w}
    /\ Extends(r.queue, g.queue)
    /\ Len(g.queue) + 1 \in New(r.queue, g.queue)
    /\ r.queue[Len(g.queue) + 1].kind = "delete window"
    /\ r.queue[Len(g.queue) + 1].window = w
    /\ \A k \in New(r.queue, g.queue) : k # Len(g.queue) + 1 =>
          r.queue[k].kind = "quit" /\ r.queue[k].window = 0
    /\ ~Hides /\ g.mode = "now" /\ r.open = {} => \E k \in DOMAIN r.queue : r.queue[k].kind = "quit"

\* A window that closes leaves the open ones, and its deletion is posted.
LEMMA Closes ==
    ASSUME NEW g, NEW r, NEW w, Inv0(g), Closing(r, g, w)
    PROVE  Inv0(r) /\ Armed(r)
  <1>1. /\ r.app = g.app /\ r.windows = g.windows /\ r.tabs = g.tabs
        /\ r.registered = g.registered /\ r.owner = g.owner /\ r.core = g.core
        /\ r.timer = g.timer /\ r.mode = g.mode /\ r.phase = g.phase
        /\ r.born = g.born /\ r.made = g.made /\ r.stack = g.stack /\ r.closing = g.closing
    BY DEF Closing, Keeps, Fields
  <1>2. /\ r.skip = g.skip /\ r.pending = g.pending /\ r.hidden = g.hidden /\ r.running = g.running /\ r.undo = g.undo
        /\ r.redo = g.redo
        /\ r.quick = g.quick /\ DOMAIN r = DOMAIN g
    BY DEF Closing, Keeps, Fields
  <1> DEFINE Q == r.queue
             P == g.queue
             n == Len(P) + 1
  <1>3. /\ DOMAIN Q = 1..Len(Q) /\ DOMAIN P = 1..Len(P) /\ Len(Q) \in Nat /\ Len(P) \in Nat
        /\ DOMAIN P \subseteq DOMAIN Q
        /\ \A i \in DOMAIN Q : i \in DOMAIN P \/ i \in New(Q, P)
        /\ \A i \in DOMAIN P : Q[i] = P[i] /\ i \in Nat
        /\ \A i \in DOMAIN P, j \in New(Q, P) : i < j
        /\ \A j \in New(Q, P) : j \in DOMAIN Q /\ j \notin DOMAIN P /\ j \in Nat /\ j > 0
    BY Longer DEF Closing
  <1>a. Live(r) = Live(g) /\ Registered(r) = Registered(g)
    BY <1>1 DEF Live, Registered
  <1>b. \A v, i : DeletedAfter(g, i, v) => DeletedAfter(r, i, v)
    BY StillDeleted DEF Closing
  <1>c. Typed(g) /\ Owning(g) /\ Living(g) /\ Posted(g) /\ Deleted(g)
        /\ Framed(g) /\ Opened(g) /\ Accounted(g) /\ Timed(g) /\ Quitting(g)
    BY DEF Inv0
  <1>h. /\ w \in g.open /\ r.open = g.open \ {w} /\ Q \in Seq(Events)
        /\ \A k \in DOMAIN g.stack : g.stack[k].kind = "window" => g.stack[k].window # w
        /\ ~Hides /\ g.mode = "now" /\ r.open = {} => \E k \in DOMAIN Q : Q[k].kind = "quit"
    BY DEF Closing, Extends
  <1>d. w \in Live(g) /\ w \in Window /\ w \in Nat /\ w # 0 /\ g.windows # <<>>
    <2>1. g.windows \in Seq(Window) /\ MaxWindows \in Nat /\ w \in ToSet(g.windows)
      BY <1>c, <1>h, WindowsAssumption DEF Living, Typed, Live
    <2>2. PICK i \in DOMAIN g.windows : w = g.windows[i]
      BY <2>1 DEF ToSet
    <2>3. w \in Window /\ g.windows # <<>>
      BY <2>1, <2>2
    <2> QED BY <2>1, <2>3 DEF Window, Live
  <1>e. /\ n \in New(Q, P) /\ Q[n].kind = "delete window" /\ Q[n].window = w
        /\ \A k \in New(Q, P) : k # n => Q[k].kind = "quit" /\ Q[k].window = 0
    BY DEF Closing
  <1> HIDE DEF Q, P, n
  <1>k. \A k \in New(Q, P) : Q[k].kind \notin {"quit timer", "delete page"} /\ Q[k].kind \notin Openings
    BY <1>e DEF Openings
  <1>f. \A i \in DOMAIN Q : Q[i].kind = "quit timer" => i \in DOMAIN P /\ Q[i] = P[i]
    BY <1>3, <1>k
  <1>g. NoRequest(r) <=> NoRequest(g)
    BY <1>3, <1>f DEF NoRequest, Q, P
  <1>4. Typed(r)
    BY <1>1, <1>2, <1>c, <1>h DEF Typed, Q
  <1>5. Owning(r)
    BY <1>1, <1>c DEF Owning
  <1>6. Living(r)
    BY <1>1, <1>a, <1>c, <1>h DEF Living
  <1>7. Posted(r)
    <2>1. \A i \in DOMAIN P : Fine(g, P[i])
      BY <1>c DEF Posted, P
    <2>2. \A i \in DOMAIN P : Fine(r, P[i])
      BY <2>1, <1>1, <1>a, <1>h DEF Fine
    <2>3. Fine(r, Q[n])
      BY <1>e, <1>a, <1>d, <1>h DEF Fine, WindowEvents
    <2>4. \A k \in New(Q, P) : k # n => Fine(r, Q[k])
      BY <1>e DEF Fine, AppEvents
    <2>5. \A i \in DOMAIN Q : Fine(r, Q[i])
      BY <1>3, <2>2, <2>3, <2>4
    <2>6. \A i \in DOMAIN P : P[i].kind = "delete window" => P[i].window # w
      BY <2>1, <1>h DEF Fine
    <2>7. \A i, j \in DOMAIN P :
             P[i].kind = "delete window" /\ P[j].kind = "delete window" /\ P[i].window = P[j].window => i = j
      BY <1>c DEF Posted, P
    <2>8. \A i \in DOMAIN Q : Q[i].kind = "delete window" => i = n \/ (i \in DOMAIN P /\ Q[i] = P[i])
      <3> TAKE i \in DOMAIN Q
      <3>1. CASE i \in DOMAIN P
        BY <1>3, <3>1
      <3>2. CASE i \in New(Q, P)
        BY <1>e, <3>2
      <3> QED BY <1>3, <3>1, <3>2
    <2>9. \A i, j \in DOMAIN Q :
             Q[i].kind = "delete window" /\ Q[j].kind = "delete window" /\ Q[i].window = Q[j].window => i = j
      <3> SUFFICES ASSUME NEW i \in DOMAIN Q, NEW j \in DOMAIN Q, Q[i].kind = "delete window",
                          Q[j].kind = "delete window", Q[i].window = Q[j].window
                   PROVE  i = j
        OBVIOUS
      <3>1. i = n \/ (i \in DOMAIN P /\ Q[i] = P[i])
        BY <2>8
      <3>2. j = n \/ (j \in DOMAIN P /\ Q[j] = P[j])
        BY <2>8
      <3> QED BY <3>1, <3>2, <1>e, <2>6, <2>7
    <2> QED BY <2>5, <2>9 DEF Posted, Q
  <1>8. Deleted(r)
    <2>1. DeletedAfter(r, 0, w)
      BY <1>3, <1>e DEF DeletedAfter, Q
    <2> QED BY <1>a, <1>b, <1>c, <1>h, <2>1 DEF Deleted
  <1>9. Framed(r)
    BY <1>1, <1>c, <1>h DEF Framed
  <1>10. Opened(r)
    <2> SUFFICES ASSUME NEW i \in DOMAIN Q, Q[i].kind \in Openings
                 PROVE  \E v \in Live(g) : v \in r.open \/ DeletedAfter(r, i, v)
      BY <1>1, <1>a DEF Opened, Q
    <2>1. i \in DOMAIN P /\ P[i].kind \in Openings
      BY <1>3, <1>k
    <2>2. PICK v \in Live(g) : v \in g.open \/ DeletedAfter(g, i, v)
      BY <1>c, <2>1 DEF Opened, P
    <2>3. DeletedAfter(r, i, w)
      BY <1>3, <1>e, <2>1 DEF DeletedAfter, Q
    <2> QED BY <2>2, <2>3, <1>b, <1>d, <1>h
  <1>11. Accounted(r)
    <2> SUFFICES ASSUME NEW s \in g.core
                 PROVE  \/ \E v \in Window : s \in g.registered[v]
                        \/ \E i \in DOMAIN Q : Q[i].kind = "delete page" /\ s \in Q[i].panes
      BY <1>1 DEF Accounted, Q
    <2>1. \/ \E v \in Window : s \in g.registered[v]
          \/ \E i \in DOMAIN P : P[i].kind = "delete page" /\ s \in P[i].panes
      BY <1>c DEF Accounted, P
    <2>2. \A i \in DOMAIN P : i \in DOMAIN Q /\ Q[i] = P[i]
      BY <1>3
    <2> QED BY <2>1, <2>2
  <1>12. Timed(r)
    <2>1. \A i \in DOMAIN Q : IsLastRequest(r, i) => i \in DOMAIN P /\ Q[i] = P[i] /\ IsLastRequest(g, i)
      BY <1>3, <1>f DEF IsLastRequest, Q, P
    <2> QED BY <1>1, <1>a, <1>g, <1>c, <2>1 DEF Timed, Q, P
  <1>13. Quitting(r)
    BY <1>1, <1>h DEF Quitting, Q
  <1>14. Armed(r)
    BY <1>1, <1>d DEF Armed
  <1> QED BY <1>4, <1>5, <1>6, <1>7, <1>8, <1>9, <1>10, <1>11, <1>12, <1>13, <1>14 DEF Inv0

-----------------------------------------------------------------------------
(* Pages of a window are removed.                                          *)

\* A live window is a number, and not 0.
LEMMA LiveWindow ==
    ASSUME NEW g, Typed(g), NEW w \in Live(g)
    PROVE  w \in Window /\ w \in Nat /\ w # 0 /\ g.windows # <<>>
  <1>1. g.windows \in Seq(Window) /\ MaxWindows \in Nat /\ w \in ToSet(g.windows)
    BY WindowsAssumption DEF Typed, Live
  <1>2. PICK i \in DOMAIN g.windows : w = g.windows[i]
    BY <1>1 DEF ToSet
  <1>3. w \in Window /\ g.windows # <<>>
    BY <1>1, <1>2
  <1> QED BY <1>1, <1>3 DEF Window

\* The tabs and the list of one window change.
Repaged(r, g, w) ==
    /\ w \in Live(g)
    /\ r.tabs \in [Window -> Seq(Page)] /\ r.registered \in [Window -> SUBSET Surface]
    /\ \A v \in Window \ {w} : r.tabs[v] = g.tabs[v] /\ r.registered[v] = g.registered[v]
    /\ r.registered[w] = UNION ToSet(r.tabs[w])
    /\ \A i, j \in DOMAIN r.tabs[w] : r.tabs[w][i] \cap r.tabs[w][j] # {} => i = j

\* Panes leave their window: they will be deleted.
Removing(r, g, w, panes) ==
    /\ Keeps(r, g, {"registered", "tabs", "queue"})
    /\ Repaged(r, g, w)
    /\ panes \subseteq g.registered[w] /\ r.registered[w] = g.registered[w] \ panes
    /\ Extends(r.queue, g.queue) /\ New(r.queue, g.queue) = {Len(g.queue) + 1}
    /\ r.queue[Len(g.queue) + 1].kind = "delete page"
    /\ r.queue[Len(g.queue) + 1].window = 0
    /\ r.queue[Len(g.queue) + 1].panes = panes

\* Pages or panes leave their window, with the deletion of their surfaces posted.
LEMMA Removes ==
    ASSUME NEW g, NEW r, NEW w, NEW panes, Inv0(g), Removing(r, g, w, panes)
    PROVE  Inv0(r) /\ Armed(r)
  <1>1. /\ r.app = g.app /\ r.windows = g.windows /\ r.open = g.open
        /\ r.owner = g.owner /\ r.core = g.core
        /\ r.timer = g.timer /\ r.mode = g.mode /\ r.phase = g.phase
        /\ r.born = g.born /\ r.made = g.made /\ r.stack = g.stack /\ r.closing = g.closing
    BY DEF Removing, Keeps, Fields
  <1>2. /\ r.skip = g.skip /\ r.pending = g.pending /\ r.hidden = g.hidden /\ r.running = g.running /\ r.undo = g.undo
        /\ r.redo = g.redo
        /\ r.quick = g.quick /\ DOMAIN r = DOMAIN g
    BY DEF Removing, Keeps, Fields
  <1> DEFINE Q == r.queue
             P == g.queue
             n == Len(P) + 1
  <1>3. /\ DOMAIN Q = 1..Len(Q) /\ DOMAIN P = 1..Len(P) /\ Len(Q) \in Nat /\ Len(P) \in Nat
        /\ DOMAIN P \subseteq DOMAIN Q
        /\ \A i \in DOMAIN Q : i \in DOMAIN P \/ i \in New(Q, P)
        /\ \A i \in DOMAIN P : Q[i] = P[i] /\ i \in Nat
        /\ \A i \in DOMAIN P, j \in New(Q, P) : i < j
        /\ \A j \in New(Q, P) : j \in DOMAIN Q /\ j \notin DOMAIN P /\ j \in Nat /\ j > 0
    <2>1. Extends(Q, P)
      BY DEF Removing
    <2> HIDE DEF Q, P
    <2> QED BY <2>1, Longer
  <1>4. /\ New(Q, P) = {n} /\ Q[n].kind = "delete page" /\ Q[n].window = 0 /\ Q[n].panes = panes
        /\ panes \subseteq g.registered[w] /\ r.registered[w] = g.registered[w] \ panes
        /\ Q \in Seq(Events)
    BY DEF Removing, Extends
  <1>5. /\ w \in Live(g)
        /\ r.tabs \in [Window -> Seq(Page)] /\ r.registered \in [Window -> SUBSET Surface]
        /\ \A v \in Window \ {w} : r.tabs[v] = g.tabs[v] /\ r.registered[v] = g.registered[v]
        /\ r.registered[w] = UNION ToSet(r.tabs[w])
        /\ \A i, j \in DOMAIN r.tabs[w] : r.tabs[w][i] \cap r.tabs[w][j] # {} => i = j
    BY DEF Removing, Repaged
  <1>b. \A v, i : DeletedAfter(g, i, v) => DeletedAfter(r, i, v)
    BY StillDeleted DEF Removing
  <1> HIDE DEF Q, P, n
  <1>a. Live(r) = Live(g)
    BY <1>1 DEF Live
  <1>c. Typed(g) /\ Owning(g) /\ Living(g) /\ Posted(g) /\ Deleted(g)
        /\ Framed(g) /\ Opened(g) /\ Accounted(g) /\ Timed(g) /\ Quitting(g)
    BY DEF Inv0
  <1>d. w \in Window /\ g.windows # <<>>
    BY <1>c, <1>5, LiveWindow
  <1>e. \A v \in Window : r.registered[v] \subseteq g.registered[v]
    BY <1>4, <1>5
  <1>f. \A i \in DOMAIN Q : Q[i].kind # "delete page" => i \in DOMAIN P /\ Q[i] = P[i]
    BY <1>3, <1>4
  <1>g. NoRequest(r) <=> NoRequest(g)
    BY <1>3, <1>f DEF NoRequest, Q, P
  <1>6. Typed(r)
    BY <1>1, <1>2, <1>c, <1>4, <1>5 DEF Typed, Q
  <1>7. Owning(r)
    <2>1. \A v \in Window : /\ g.registered[v] = UNION ToSet(g.tabs[v])
                            /\ \A i, j \in DOMAIN g.tabs[v] : g.tabs[v][i] \cap g.tabs[v][j] # {} => i = j
                            /\ \A s \in g.registered[v] : g.owner[s] = v /\ s \in g.core /\ s <= g.made
      BY <1>c DEF Owning
    <2> SUFFICES ASSUME NEW v \in Window
                 PROVE  /\ r.registered[v] = UNION ToSet(r.tabs[v])
                        /\ \A i, j \in DOMAIN r.tabs[v] : r.tabs[v][i] \cap r.tabs[v][j] # {} => i = j
                        /\ \A s \in r.registered[v] : g.owner[s] = v /\ s \in g.core /\ s <= g.made
      BY <1>1 DEF Owning
    <2>2. \A s \in r.registered[v] : g.owner[s] = v /\ s \in g.core /\ s <= g.made
      BY <1>e, <2>1
    <2>3. CASE v = w
      BY <1>5, <2>2, <2>3
    <2>4. CASE v # w
      BY <1>5, <2>1, <2>2, <2>4
    <2> QED BY <2>3, <2>4
  <1>8. Living(r)
    <2>1. \A v \in Window \ Live(g) : r.tabs[v] = <<>>
      BY <1>c, <1>5 DEF Living
    <2> QED BY <1>1, <1>a, <1>c, <2>1 DEF Living
  <1>9. Posted(r)
    <2>1. \A i \in DOMAIN P : Fine(g, P[i])
      BY <1>c DEF Posted, P
    <2>2. \A i \in DOMAIN P : Fine(r, P[i])
      BY <2>1, <1>1, <1>a, <1>e DEF Fine
    <2>3. Fine(r, Q[n])
      <3>1. \A s \in panes : s <= g.made /\ g.owner[s] = w /\ s \notin r.registered[w]
        BY <1>4, <1>c, <1>d DEF Owning
      <3>2. \A v \in Window : \A s \in g.registered[v] : g.owner[s] = v
        BY <1>c DEF Owning
      <3>3. \A s \in panes : \A v \in Window : s \notin r.registered[v]
        BY <3>1, <3>2, <1>e
      <3> QED BY <1>1, <1>4, <3>1, <3>3 DEF Fine
    <2>4. \A i \in DOMAIN Q : Fine(r, Q[i])
      BY <1>3, <1>4, <2>2, <2>3
    <2>5. \A i, j \in DOMAIN P :
             P[i].kind = "delete window" /\ P[j].kind = "delete window" /\ P[i].window = P[j].window => i = j
      BY <1>c DEF Posted, P
    <2> QED BY <1>f, <2>4, <2>5 DEF Posted, Q
  <1>10. Deleted(r)
    BY <1>1, <1>a, <1>b, <1>c DEF Deleted
  <1>11. Framed(r)
    BY <1>1, <1>c DEF Framed
  <1>12. Opened(r)
    <2> SUFFICES ASSUME NEW i \in DOMAIN Q, Q[i].kind \in Openings
                 PROVE  \E v \in Live(g) : v \in g.open \/ DeletedAfter(r, i, v)
      BY <1>1, <1>a DEF Opened, Q
    <2>1. i \in DOMAIN P /\ P[i].kind \in Openings
      BY <1>f DEF Openings
    <2> QED BY <1>b, <1>c, <2>1 DEF Opened, P
  <1>13. Accounted(r)
    <2> SUFFICES ASSUME NEW s \in g.core
                 PROVE  \/ \E v \in Window : s \in r.registered[v]
                        \/ \E i \in DOMAIN Q : Q[i].kind = "delete page" /\ s \in Q[i].panes
      BY <1>1 DEF Accounted, Q
    <2>1. \/ \E v \in Window : s \in g.registered[v]
          \/ \E i \in DOMAIN P : P[i].kind = "delete page" /\ s \in P[i].panes
      BY <1>c DEF Accounted, P
    <2>2. \A i \in DOMAIN P : i \in DOMAIN Q /\ Q[i] = P[i]
      BY <1>3
    <2>3. n \in DOMAIN Q
      BY <1>3, <1>4
    <2> QED BY <1>4, <1>5, <2>1, <2>2, <2>3
  <1>14. Timed(r)
    <2>1. \A i \in DOMAIN Q : IsLastRequest(r, i) => i \in DOMAIN P /\ Q[i] = P[i] /\ IsLastRequest(g, i)
      BY <1>3, <1>f DEF IsLastRequest, Q, P
    <2>2. Registered(r) # {} => Registered(g) # {}
      BY <1>e DEF Registered
    <2> QED BY <1>1, <1>g, <1>c, <2>1, <2>2 DEF Timed, Q, P
  <1>15. Quitting(r)
    BY <1>1, <1>3, <1>c DEF Quitting, Q, P
  <1>16. Armed(r)
    BY <1>1, <1>d DEF Armed
  <1> QED BY <1>6, <1>7, <1>8, <1>9, <1>10, <1>11, <1>12, <1>13, <1>14, <1>15, <1>16 DEF Inv0

-----------------------------------------------------------------------------
(* A pane is added.                                                        *)

\* A window gets a new pane, and the core asks to stop the quit timer.
Adding(r, g, w) ==
    LET s == g.made + 1
    IN  /\ g.made # MaxSurfaces
        /\ Keeps(r, g, {"made", "core", "running", "registered", "owner", "tabs", "queue"})
        /\ Repaged(r, g, w)
        /\ r.made = s /\ r.core = g.core \cup {s} /\ r.running = g.running \cup {s}
        /\ DOMAIN r.owner = Surface
        /\ \A t \in Surface : r.owner[t] = IF t = s THEN w ELSE g.owner[t]
        /\ r.registered[w] = g.registered[w] \cup {s}
        /\ Extends(r.queue, g.queue) /\ New(r.queue, g.queue) = {Len(g.queue) + 1}
        /\ r.queue[Len(g.queue) + 1].kind = "quit timer"
        /\ r.queue[Len(g.queue) + 1].window = 0
        /\ r.queue[Len(g.queue) + 1].arg = "stop"

\* A window lists one pane more, the core counts it, and the stop of the timer is posted.
LEMMA Adds ==
    ASSUME NEW g, NEW r, NEW w, Inv0(g), Adding(r, g, w)
    PROVE  Inv0(r) /\ Armed(r)
  <1>1. /\ r.app = g.app /\ r.windows = g.windows /\ r.open = g.open
        /\ r.timer = g.timer /\ r.mode = g.mode /\ r.phase = g.phase
        /\ r.born = g.born /\ r.stack = g.stack /\ r.closing = g.closing
    BY DEF Adding, Keeps, Fields
  <1>2. r.skip = g.skip /\ r.pending = g.pending /\ r.hidden = g.hidden /\ r.undo = g.undo /\ r.redo = g.redo
        /\ r.quick = g.quick /\ DOMAIN r = DOMAIN g
    BY DEF Adding, Keeps, Fields
  <1> DEFINE Q == r.queue
             P == g.queue
             n == Len(P) + 1
  <1>3. /\ DOMAIN Q = 1..Len(Q) /\ DOMAIN P = 1..Len(P) /\ Len(Q) \in Nat /\ Len(P) \in Nat
        /\ DOMAIN P \subseteq DOMAIN Q
        /\ \A i \in DOMAIN Q : i \in DOMAIN P \/ i \in New(Q, P)
        /\ \A i \in DOMAIN P : Q[i] = P[i] /\ i \in Nat
        /\ \A i \in DOMAIN P, j \in New(Q, P) : i < j
        /\ \A j \in New(Q, P) : j \in DOMAIN Q /\ j \notin DOMAIN P /\ j \in Nat /\ j > 0
    <2>1. Extends(Q, P)
      BY DEF Adding
    <2> HIDE DEF Q, P
    <2> QED BY <2>1, Longer
  <1> DEFINE new == g.made + 1
  <1>4. /\ New(Q, P) = {n} /\ Q[n].kind = "quit timer" /\ Q[n].window = 0 /\ Q[n].arg = "stop"
        /\ g.made # MaxSurfaces /\ r.made = new /\ r.core = g.core \cup {new}
        /\ r.running = g.running \cup {new} /\ DOMAIN r.owner = Surface
        /\ \A t \in Surface : r.owner[t] = IF t = new THEN w ELSE g.owner[t]
        /\ r.registered[w] = g.registered[w] \cup {new}
        /\ Q \in Seq(Events)
    BY DEF Adding, Extends
  <1>5. /\ w \in Live(g)
        /\ r.tabs \in [Window -> Seq(Page)] /\ r.registered \in [Window -> SUBSET Surface]
        /\ \A v \in Window \ {w} : r.tabs[v] = g.tabs[v] /\ r.registered[v] = g.registered[v]
        /\ r.registered[w] = UNION ToSet(r.tabs[w])
        /\ \A i, j \in DOMAIN r.tabs[w] : r.tabs[w][i] \cap r.tabs[w][j] # {} => i = j
    BY DEF Adding, Repaged
  <1>b. \A v, i : DeletedAfter(g, i, v) => DeletedAfter(r, i, v)
    BY StillDeleted DEF Adding
  <1> HIDE DEF Q, P, n, new
  <1>a. Live(r) = Live(g)
    BY <1>1 DEF Live
  <1>c. Typed(g) /\ Owning(g) /\ Living(g) /\ Posted(g) /\ Deleted(g)
        /\ Framed(g) /\ Opened(g) /\ Accounted(g) /\ Timed(g) /\ Quitting(g)
    BY DEF Inv0
  <1>d. w \in Window /\ g.windows # <<>>
    BY <1>c, <1>5, LiveWindow
  <1>t. /\ g.made \in Nat /\ new \in Surface /\ new \in Nat /\ new > g.made /\ new <= MaxSurfaces
        /\ \A v \in Window : g.registered[v] \subseteq Surface
    <2>1. /\ g.made \in 0..MaxSurfaces /\ MaxSurfaces \in Nat
          /\ \A v \in Window : g.registered[v] \subseteq Surface
      BY <1>c, WindowsAssumption DEF Typed
    <2>2. g.made # MaxSurfaces
      BY <1>4
    <2> QED BY <2>1, <2>2 DEF Surface, new
  <1>u. r.made = new /\ r.core = g.core \cup {new} /\ r.running = g.running \cup {new}
    BY <1>4
  <1>v. \A t \in Surface : r.owner[t] = IF t = new THEN w ELSE g.owner[t]
    BY <1>4
  <1>e. \A v \in Window : r.registered[v] \ {new} \subseteq g.registered[v]
    BY <1>4, <1>5
  <1>f. \A i \in DOMAIN Q : Q[i].kind # "quit timer" => i \in DOMAIN P /\ Q[i] = P[i]
    BY <1>3, <1>4
  <1>6. Typed(r)
    <2>1. r.core \subseteq Surface /\ r.running \subseteq Surface /\ r.made \in 0..MaxSurfaces
      BY <1>u, <1>t, <1>c DEF Typed
    <2> QED BY <1>1, <1>2, <1>c, <1>4, <1>5, <2>1 DEF Typed, Q
  <1>7. Owning(r)
    <2>1. \A v \in Window : /\ g.registered[v] = UNION ToSet(g.tabs[v])
                            /\ \A i, j \in DOMAIN g.tabs[v] : g.tabs[v][i] \cap g.tabs[v][j] # {} => i = j
                            /\ \A s \in g.registered[v] : g.owner[s] = v /\ s \in g.core /\ s <= g.made
      BY <1>c DEF Owning
    <2> SUFFICES ASSUME NEW v \in Window
                 PROVE  /\ r.registered[v] = UNION ToSet(r.tabs[v])
                        /\ \A i, j \in DOMAIN r.tabs[v] : r.tabs[v][i] \cap r.tabs[v][j] # {} => i = j
                        /\ \A s \in r.registered[v] : r.owner[s] = v /\ s \in r.core /\ s <= r.made
      BY DEF Owning
    <2>2. \A s \in g.registered[v] : r.owner[s] = v /\ s \in r.core /\ s <= r.made
      <3> TAKE s \in g.registered[v]
      <3>1. s \in Surface /\ s <= g.made /\ g.owner[s] = v /\ s \in g.core /\ s \in Nat
        BY <2>1, <1>t DEF Surface
      <3>2. s # new /\ s <= new
        BY <3>1, <1>t
      <3> QED BY <3>1, <3>2, <1>u, <1>v
    <2>3. CASE v = w
      <3>1. r.owner[new] = w /\ new \in r.core /\ new <= r.made
        BY <1>u, <1>v, <1>t
      <3>2. r.registered[w] = g.registered[w] \cup {new}
        BY <1>4
      <3>3. \A s \in r.registered[v] : s \in g.registered[v] \/ s = new
        BY <3>2, <2>3
      <3> QED BY <1>5, <2>2, <2>3, <3>1, <3>3
    <2>4. CASE v # w
      BY <1>5, <2>1, <2>2, <2>4
    <2> QED BY <2>3, <2>4
  <1>8. Living(r)
    <2>1. \A v \in Window \ Live(g) : r.tabs[v] = <<>>
      BY <1>c, <1>5 DEF Living
    <2> QED BY <1>1, <1>a, <1>c, <2>1 DEF Living
  <1>9. Posted(r)
    <2>1. \A i \in DOMAIN P : Fine(g, P[i])
      BY <1>c DEF Posted, P
    <2>2. ASSUME NEW i \in DOMAIN P PROVE Fine(r, P[i])
      <3>1. ASSUME P[i].kind = "delete page", NEW s \in P[i].panes
            PROVE  s <= r.made /\ \A v \in Window : s \notin r.registered[v]
        <4>1. s <= g.made /\ \A v \in Window : s \notin g.registered[v]
          BY <2>1, <3>1 DEF Fine
        <4>2. s \in Nat
          <5>1. P \in Seq(Events)
            BY <1>c DEF Typed, P
          <5>2. P[i] \in Events
            BY <5>1
          <5>3. P[i].panes \subseteq Surface
            BY <5>2 DEF Events
          <5> QED BY <5>3 DEF Surface
        <4>3. s # new /\ s <= r.made
          BY <4>1, <4>2, <1>t, <1>u
        <4> QED BY <4>1, <4>3, <1>e
      <3>2. Fine(g, P[i])
        BY <2>1
      <3> QED BY <1>1, <1>a, <3>1, <3>2 DEF Fine
    <2>3. Fine(r, Q[n])
      BY <1>4 DEF Fine, AppEvents
    <2>4. \A i \in DOMAIN Q : Fine(r, Q[i])
      BY <1>3, <1>4, <2>2, <2>3
    <2>5. \A i, j \in DOMAIN P :
             P[i].kind = "delete window" /\ P[j].kind = "delete window" /\ P[i].window = P[j].window => i = j
      BY <1>c DEF Posted, P
    <2> QED BY <1>f, <2>4, <2>5 DEF Posted, Q
  <1>10. Deleted(r)
    BY <1>1, <1>a, <1>b, <1>c DEF Deleted
  <1>11. Framed(r)
    BY <1>1, <1>c DEF Framed
  <1>12. Opened(r)
    <2> SUFFICES ASSUME NEW i \in DOMAIN Q, Q[i].kind \in Openings
                 PROVE  \E v \in Live(g) : v \in g.open \/ DeletedAfter(r, i, v)
      BY <1>1, <1>a DEF Opened, Q
    <2>1. i \in DOMAIN P /\ P[i].kind \in Openings
      BY <1>f DEF Openings
    <2> QED BY <1>b, <1>c, <2>1 DEF Opened, P
  <1>13. Accounted(r)
    <2> SUFFICES ASSUME NEW s \in r.core
                 PROVE  \/ \E v \in Window : s \in r.registered[v]
                        \/ \E i \in DOMAIN Q : Q[i].kind = "delete page" /\ s \in Q[i].panes
      BY DEF Accounted, Q
    <2>1. CASE s = new
      BY <2>1, <1>4, <1>d
    <2>2. CASE s # new
      <3>1. \/ \E v \in Window : s \in g.registered[v]
            \/ \E i \in DOMAIN P : P[i].kind = "delete page" /\ s \in P[i].panes
        BY <1>c, <1>4, <2>2 DEF Accounted, P
      <3>2. \A i \in DOMAIN P : i \in DOMAIN Q /\ Q[i] = P[i]
        BY <1>3
      <3> QED BY <1>4, <1>5, <3>1, <3>2
    <2> QED BY <2>1, <2>2
  <1>14. Timed(r)
    <2>1. n \in DOMAIN Q
      BY <1>3, <1>4
    <2>2. \A i \in DOMAIN Q : IsLastRequest(r, i) => i = n
      <3> SUFFICES ASSUME NEW i \in DOMAIN Q, IsLastRequest(r, i), i # n PROVE FALSE
        OBVIOUS
      <3>1. i < n
        BY <1>3, <1>4
      <3> QED BY <3>1, <1>4, <2>1, <1>3 DEF IsLastRequest, Q
    <2>3. ~NoRequest(r)
      BY <2>1, <1>4 DEF NoRequest, Q
    <2>4. r.core # {} /\ Q[n].arg = "stop"
      BY <1>4
    <2> QED BY <1>1, <1>c, <2>2, <2>3, <2>4 DEF Timed, Q
  <1>15. Quitting(r)
    BY <1>1, <1>3, <1>c DEF Quitting, Q, P
  <1>16. Armed(r)
    BY <1>1, <1>d DEF Armed
  <1> QED BY <1>6, <1>7, <1>8, <1>9, <1>10, <1>11, <1>12, <1>13, <1>14, <1>15, <1>16 DEF Inv0

-----------------------------------------------------------------------------
(* A page moves to another window.                                         *)

\* A page of one window goes to another.
Moving(r, g, src, w, page) ==
    /\ Keeps(r, g, {"registered", "owner", "tabs"})
    /\ src \in Window /\ w \in Live(g) /\ src # w
    /\ page \subseteq g.registered[src]
    /\ r.tabs \in [Window -> Seq(Page)] /\ r.registered \in [Window -> SUBSET Surface]
    /\ \A v \in Window \ {src, w} : r.tabs[v] = g.tabs[v] /\ r.registered[v] = g.registered[v]
    /\ r.registered[src] = g.registered[src] \ page
    /\ r.registered[w] = g.registered[w] \cup page
    /\ \A v \in {src, w} :
          /\ r.registered[v] = UNION ToSet(r.tabs[v])
          /\ \A i, j \in DOMAIN r.tabs[v] : r.tabs[v][i] \cap r.tabs[v][j] # {} => i = j
    /\ DOMAIN r.owner = Surface
    /\ \A s \in Surface : r.owner[s] = IF s \in page THEN w ELSE g.owner[s]
    /\ src \notin Live(g) => r.tabs[src] = <<>>

\* A page goes from one window to another, with its panes.
LEMMA Moves ==
    ASSUME NEW g, NEW r, NEW src, NEW w, NEW page, Inv0(g), Moving(r, g, src, w, page)
    PROVE  Inv0(r) /\ Armed(r)
  <1>1. /\ r.app = g.app /\ r.windows = g.windows /\ r.open = g.open
        /\ r.core = g.core /\ r.queue = g.queue
        /\ r.timer = g.timer /\ r.mode = g.mode /\ r.phase = g.phase
        /\ r.born = g.born /\ r.made = g.made /\ r.stack = g.stack /\ r.closing = g.closing
    BY DEF Moving, Keeps, Fields
  <1>2. /\ r.skip = g.skip /\ r.pending = g.pending /\ r.hidden = g.hidden /\ r.running = g.running /\ r.undo = g.undo
        /\ r.redo = g.redo
        /\ r.quick = g.quick /\ DOMAIN r = DOMAIN g
    BY DEF Moving, Keeps, Fields
  <1>3. /\ src \in Window /\ w \in Live(g) /\ src # w
        /\ page \subseteq g.registered[src]
        /\ r.tabs \in [Window -> Seq(Page)] /\ r.registered \in [Window -> SUBSET Surface]
        /\ r.registered[src] = g.registered[src] \ page
        /\ r.registered[w] = g.registered[w] \cup page
        /\ DOMAIN r.owner = Surface
        /\ src \notin Live(g) => r.tabs[src] = <<>>
    BY DEF Moving
  <1>4. \A v \in Window \ {src, w} : r.tabs[v] = g.tabs[v] /\ r.registered[v] = g.registered[v]
    BY DEF Moving
  <1>5. \A v \in {src, w} :
          /\ r.registered[v] = UNION ToSet(r.tabs[v])
          /\ \A i, j \in DOMAIN r.tabs[v] : r.tabs[v][i] \cap r.tabs[v][j] # {} => i = j
    BY DEF Moving
  <1>6. \A s \in Surface : r.owner[s] = IF s \in page THEN w ELSE g.owner[s]
    BY DEF Moving
  <1>a. Live(r) = Live(g)
    BY <1>1 DEF Live
  <1>c. Typed(g) /\ Owning(g) /\ Living(g) /\ Posted(g) /\ Deleted(g)
        /\ Framed(g) /\ Opened(g) /\ Accounted(g) /\ Timed(g) /\ Quitting(g)
    BY DEF Inv0
  <1>d. w \in Window /\ g.windows # <<>>
    BY <1>c, <1>3, LiveWindow
  <1>e. \A s : (\E v \in Window : s \in r.registered[v]) <=> (\E v \in Window : s \in g.registered[v])
    <2> TAKE s
    <2>1. ASSUME NEW v \in Window, s \in r.registered[v] PROVE \E u \in Window : s \in g.registered[u]
      <3>1. CASE v = src
        BY <1>3, <2>1, <3>1
      <3>2. CASE v = w
        BY <1>3, <2>1, <3>2
      <3>3. CASE v \notin {src, w}
        BY <1>4, <2>1, <3>3
      <3> QED BY <3>1, <3>2, <3>3
    <2>2. ASSUME NEW v \in Window, s \in g.registered[v] PROVE \E u \in Window : s \in r.registered[u]
      <3>1. CASE v = src
        BY <1>3, <1>d, <2>2, <3>1
      <3>2. CASE v = w
        BY <1>3, <2>2, <3>2
      <3>3. CASE v \notin {src, w}
        BY <1>4, <2>2, <3>3
      <3> QED BY <3>1, <3>2, <3>3
    <2> QED BY <2>1, <2>2
  <1>f. \A i, v : DeletedAfter(r, i, v) <=> DeletedAfter(g, i, v)
    BY <1>1 DEF DeletedAfter
  <1>7. Typed(r)
    BY <1>1, <1>2, <1>3, <1>c DEF Typed
  <1>8. Owning(r)
    <2>1. \A v \in Window : /\ g.registered[v] = UNION ToSet(g.tabs[v])
                            /\ \A i, j \in DOMAIN g.tabs[v] : g.tabs[v][i] \cap g.tabs[v][j] # {} => i = j
                            /\ \A s \in g.registered[v] : g.owner[s] = v /\ s \in g.core /\ s <= g.made
      BY <1>c DEF Owning
    <2>2. \A v \in Window : g.registered[v] \subseteq Surface
      BY <1>c DEF Typed
    <2> SUFFICES ASSUME NEW v \in Window
                 PROVE  /\ r.registered[v] = UNION ToSet(r.tabs[v])
                        /\ \A i, j \in DOMAIN r.tabs[v] : r.tabs[v][i] \cap r.tabs[v][j] # {} => i = j
                        /\ \A s \in r.registered[v] : r.owner[s] = v /\ s \in g.core /\ s <= g.made
      BY <1>1 DEF Owning
    <2>3. \A s \in page : r.owner[s] = w /\ s \in g.core /\ s <= g.made /\ g.owner[s] = src
      BY <1>3, <1>6, <2>1, <2>2
    <2>4. ASSUME NEW s \in g.registered[v], s \notin page PROVE r.owner[s] = v /\ s \in g.core /\ s <= g.made
      BY <1>6, <2>1, <2>2, <2>4
    <2>5. CASE v = src
      BY <1>3, <1>5, <2>4, <2>5
    <2>6. CASE v = w
      BY <1>3, <1>5, <2>3, <2>4, <2>6
    <2>7. CASE v \notin {src, w}
      <3>1. \A s \in g.registered[v] : s \notin page
        BY <2>1, <2>3, <2>7
      <3> QED BY <1>4, <2>1, <2>4, <2>7, <3>1
    <2> QED BY <2>5, <2>6, <2>7
  <1>9. Living(r)
    <2>1. \A v \in Window \ Live(g) : r.tabs[v] = <<>>
      BY <1>c, <1>3, <1>4 DEF Living
    <2> QED BY <1>1, <1>a, <1>c, <2>1 DEF Living
  <1>10. Posted(r)
    <2>1. \A i \in DOMAIN g.queue : Fine(g, g.queue[i])
      BY <1>c DEF Posted
    <2>2. \A i \in DOMAIN g.queue : Fine(r, g.queue[i])
      BY <2>1, <1>1, <1>a, <1>e DEF Fine
    <2> QED BY <1>1, <1>c, <2>2 DEF Posted
  <1>11. Deleted(r)
    BY <1>1, <1>a, <1>f, <1>c DEF Deleted
  <1>12. Framed(r)
    BY <1>1, <1>c DEF Framed
  <1>13. Opened(r)
    BY <1>1, <1>a, <1>f, <1>c DEF Opened
  <1>14. Accounted(r)
    BY <1>1, <1>e, <1>c DEF Accounted
  <1>15. Timed(r)
    <2>1. Registered(r) # {} => Registered(g) # {}
      BY <1>e DEF Registered
    <2>2. NoRequest(r) <=> NoRequest(g)
      BY <1>1 DEF NoRequest
    <2>3. \A i : IsLastRequest(r, i) <=> IsLastRequest(g, i)
      BY <1>1 DEF IsLastRequest
    <2> QED BY <1>1, <1>c, <2>1, <2>2, <2>3 DEF Timed
  <1>16. Quitting(r)
    BY <1>1, <1>c DEF Quitting
  <1>17. Armed(r)
    BY <1>1, <1>d DEF Armed
  <1> QED BY <1>7, <1>8, <1>9, <1>10, <1>11, <1>12, <1>13, <1>14, <1>15, <1>16, <1>17 DEF Inv0

-----------------------------------------------------------------------------
(* A window is made, and an event is taken.                                *)

\* A window is made.
Making(r, g) ==
    /\ g.born < MaxWindows
    /\ Keeps(r, g, {"born", "app", "windows", "open", "pending"})
    /\ r.born = g.born + 1 /\ r.app = TRUE /\ r.windows = Append(g.windows, g.born + 1)
    /\ r.open = g.open \cup {g.born + 1}
    /\ r.pending \subseteq g.pending \cup {g.born + 1}

\* A new window is live and open, and keeps the app.
LEMMA Makes ==
    ASSUME NEW g, NEW r, Inv0(g), Making(r, g)
    PROVE  Inv0(r) /\ Armed(r) /\ g.born + 1 \in Live(r) /\ Live(g) \subseteq Live(r)
           /\ g.born + 1 \in Window /\ g.born + 1 \notin Live(g) /\ r.tabs[g.born + 1] = <<>>
  <1>1. /\ r.tabs = g.tabs /\ r.registered = g.registered /\ r.owner = g.owner
        /\ r.core = g.core /\ r.queue = g.queue
        /\ r.timer = g.timer /\ r.mode = g.mode /\ r.phase = g.phase
        /\ r.made = g.made /\ r.stack = g.stack /\ r.closing = g.closing
    BY DEF Making, Keeps, Fields
  <1>2. r.skip = g.skip /\ r.hidden = g.hidden /\ r.running = g.running /\ r.undo = g.undo
        /\ r.redo = g.redo /\ r.quick = g.quick /\ DOMAIN r = DOMAIN g
    BY DEF Making, Keeps, Fields
  <1> DEFINE w == g.born + 1
  <1>3. /\ g.born < MaxWindows /\ r.born = w /\ r.app = TRUE /\ r.windows = Append(g.windows, w)
        /\ r.open = g.open \cup {w} /\ r.pending \subseteq g.pending \cup {w}
    BY DEF Making
  <1>c. Typed(g) /\ Owning(g) /\ Living(g) /\ Posted(g) /\ Deleted(g)
        /\ Framed(g) /\ Opened(g) /\ Accounted(g) /\ Timed(g) /\ Quitting(g)
    BY DEF Inv0
  <1>4. /\ g.windows \in Seq(Window) /\ g.born \in Nat /\ w \in Window /\ w \in Nat /\ w > g.born
        /\ w \in 0..MaxWindows /\ w # 0
    <2>1. g.windows \in Seq(Window) /\ g.born \in 0..MaxWindows /\ MaxWindows \in Nat
      BY <1>c, WindowsAssumption DEF Typed
    <2> QED BY <1>3, <2>1 DEF Window
  <1> HIDE DEF w
  <1>5. /\ r.windows \in Seq(Window) /\ Len(r.windows) = Len(g.windows) + 1 /\ Len(g.windows) \in Nat
        /\ r.windows[Len(g.windows) + 1] = w
        /\ \A i \in 1..Len(g.windows) : r.windows[i] = g.windows[i]
        /\ DOMAIN r.windows = 1..(Len(g.windows) + 1) /\ DOMAIN g.windows = 1..Len(g.windows)
        /\ r.windows # <<>>
    BY <1>3, <1>4
  <1>a. Live(r) = Live(g) \cup {w}
    <2>1. \A v : v \in Live(r) <=> \E i \in 1..(Len(g.windows) + 1) : r.windows[i] = v
      BY <1>5 DEF Live, ToSet
    <2>2. \A v : v \in Live(g) <=> \E i \in 1..Len(g.windows) : g.windows[i] = v
      BY <1>5 DEF Live, ToSet
    <2>3. \A i : i \in 1..(Len(g.windows) + 1) <=> i \in 1..Len(g.windows) \/ i = Len(g.windows) + 1
      BY <1>5
    <2> QED BY <1>5, <2>1, <2>2, <2>3
  <1>b. \A i, v : DeletedAfter(r, i, v) <=> DeletedAfter(g, i, v)
    BY <1>1 DEF DeletedAfter
  <1>d. \A v \in Live(g) : v <= g.born /\ v # w /\ v \in Nat
    <2> TAKE v \in Live(g)
    <2>1. v <= g.born /\ v \in Nat
      BY <1>c, LiveWindow DEF Living
    <2> QED BY <2>1, <1>4
  <1>6. Typed(r)
    <2>1. /\ r.open \subseteq Window /\ r.pending \subseteq Window /\ r.app \in BOOLEAN
          /\ r.born \in 0..MaxWindows
      BY <1>3, <1>4, <1>c DEF Typed
    <2> QED BY <1>1, <1>2, <1>c, <1>5, <2>1 DEF Typed
  <1>7. Owning(r)
    BY <1>1, <1>c DEF Owning
  <1>8. Living(r)
    <2>1. \A i, j \in DOMAIN r.windows : r.windows[i] = r.windows[j] => i = j
      <3>1. \A i \in 1..Len(g.windows) : g.windows[i] \in Live(g)
        BY <1>5 DEF Live, ToSet
      <3>2. \A i \in DOMAIN r.windows : i = Len(g.windows) + 1 \/ i \in 1..Len(g.windows)
        BY <1>5
      <3>3. \A i, j \in 1..Len(g.windows) : g.windows[i] = g.windows[j] => i = j
        BY <1>c, <1>5 DEF Living
      <3> SUFFICES ASSUME NEW i \in DOMAIN r.windows, NEW j \in DOMAIN r.windows, r.windows[i] = r.windows[j]
                   PROVE  i = j
        OBVIOUS
      <3>4. CASE i \in 1..Len(g.windows) /\ j \in 1..Len(g.windows)
        BY <1>5, <3>3, <3>4
      <3>5. CASE i = Len(g.windows) + 1
        BY <1>5, <1>d, <3>1, <3>2, <3>5
      <3>6. CASE j = Len(g.windows) + 1
        BY <1>5, <1>d, <3>1, <3>2, <3>6
      <3> QED BY <3>2, <3>4, <3>5, <3>6
    <2>2. \A v \in Live(r) : v <= r.born
      BY <1>3, <1>4, <1>a, <1>d
    <2>3. r.open \subseteq Live(r)
      BY <1>3, <1>a, <1>c DEF Living
    <2>4. \A v \in Window \ Live(r) : r.tabs[v] = <<>>
      BY <1>1, <1>a, <1>c DEF Living
    <2> QED BY <1>3, <2>1, <2>2, <2>3, <2>4 DEF Living
  <1>9. Posted(r)
    <2>1. \A i \in DOMAIN g.queue : Fine(g, g.queue[i])
      BY <1>c DEF Posted
    <2>2. ASSUME NEW i \in DOMAIN g.queue PROVE Fine(r, g.queue[i])
      <3>1. Fine(g, g.queue[i])
        BY <2>1
      <3>2. g.queue[i].kind = "delete window" => g.queue[i].window \in Live(g)
        BY <3>1 DEF Fine, AppEvents
      <3>3. g.queue[i].kind = "delete window" => g.queue[i].window \notin r.open
        BY <3>1, <3>2, <1>3, <1>d DEF Fine
      <3> QED BY <3>1, <3>3, <1>1, <1>a DEF Fine
    <2> QED BY <1>1, <1>c, <2>2 DEF Posted
  <1>10. Deleted(r)
    BY <1>3, <1>a, <1>b, <1>c DEF Deleted
  <1>11. Framed(r)
    BY <1>1, <1>3, <1>c DEF Framed
  <1>12. Opened(r)
    BY <1>1, <1>3, <1>a, <1>b, <1>c DEF Opened
  <1>13. Accounted(r)
    BY <1>1, <1>c DEF Accounted
  <1>14. Timed(r)
    <2>1. Registered(r) = Registered(g)
      BY <1>1 DEF Registered
    <2>2. NoRequest(r) <=> NoRequest(g)
      BY <1>1 DEF NoRequest
    <2>3. \A i : IsLastRequest(r, i) <=> IsLastRequest(g, i)
      BY <1>1 DEF IsLastRequest
    <2> QED BY <1>1, <1>c, <2>1, <2>2, <2>3 DEF Timed
  <1>15. Quitting(r)
    BY <1>1, <1>3 DEF Quitting
  <1>16. Armed(r)
    BY <1>5 DEF Armed
  <1>17. w \notin Live(g) /\ r.tabs[w] = <<>>
    BY <1>1, <1>4, <1>d, <1>c DEF Living
  <1> QED BY <1>4, <1>6, <1>7, <1>8, <1>9, <1>10, <1>11, <1>12, <1>13, <1>14, <1>15, <1>16, <1>17, <1>a
          DEF Inv0, w

\* One event is taken from the queue, and only events of the kinds that any
\* invariant counts on have their absence felt.
Taking(r, g, d) ==
    /\ Keeps(r, g, {"queue"})
    /\ d \in DOMAIN g.queue
    /\ r.queue = RemoveAt(g.queue, d)

\* What still holds of the state without the event.
Taken(r, g, d) ==
    /\ Typed(r) /\ Owning(r) /\ Living(r) /\ Posted(r) /\ Framed(r)
    /\ \A w \in Live(r) \ r.open :
          ~(g.queue[d].kind = "delete window" /\ g.queue[d].window = w) => DeletedAfter(r, 0, w)
    /\ g.queue[d].kind = "delete window" =>
          \A k \in DOMAIN r.queue : ~(r.queue[k].kind = "delete window"
                                       /\ r.queue[k].window = g.queue[d].window)
    /\ (\/ g.queue[d].kind # "delete window"
        \/ \A i \in DOMAIN g.queue : i < d => g.queue[i].kind \notin Openings)
       => Opened(r)
    /\ \A s \in r.core :
          \/ \E w \in Window : s \in r.registered[w]
          \/ \E i \in DOMAIN r.queue : r.queue[i].kind = "delete page" /\ s \in r.queue[i].panes
          \/ g.queue[d].kind = "delete page" /\ s \in g.queue[d].panes
    /\ g.queue[d].kind # "quit timer" => Timed(r) /\ (Armed(g) => Armed(r))
    /\ g.queue[d].kind # "quit" => Quitting(r)

\* What is left of the invariant once the event at d is taken.
LEMMA Takes ==
    ASSUME NEW g, NEW r, NEW d, Inv0(g), Taking(r, g, d)
    PROVE  Taken(r, g, d)
  <1>1. /\ r.app = g.app /\ r.windows = g.windows /\ r.open = g.open /\ r.tabs = g.tabs
        /\ r.registered = g.registered /\ r.owner = g.owner /\ r.core = g.core
        /\ r.timer = g.timer /\ r.mode = g.mode /\ r.phase = g.phase
        /\ r.born = g.born /\ r.made = g.made /\ r.stack = g.stack /\ r.closing = g.closing
    BY DEF Taking, Keeps, Fields
  <1>2. /\ r.skip = g.skip /\ r.pending = g.pending /\ r.hidden = g.hidden /\ r.running = g.running /\ r.undo = g.undo
        /\ r.redo = g.redo
        /\ r.quick = g.quick /\ DOMAIN r = DOMAIN g
    BY DEF Taking, Keeps, Fields
  <1>c. Typed(g) /\ Owning(g) /\ Living(g) /\ Posted(g) /\ Deleted(g)
        /\ Framed(g) /\ Opened(g) /\ Accounted(g) /\ Timed(g) /\ Quitting(g)
    BY DEF Inv0
  <1> DEFINE Q == r.queue
             P == g.queue
             m(k) == IF k < d THEN k ELSE k + 1
  <1>3. P \in Seq(Events) /\ d \in 1..Len(P) /\ d \in Nat /\ d >= 1 /\ d <= Len(P) /\ Len(P) \in Nat
        /\ DOMAIN P = 1..Len(P) /\ Q = RemoveAt(P, d)
    BY <1>c DEF Taking, Typed
  <1> HIDE DEF P, Q
  <1>4. Q \in Seq(Events) /\ Len(Q) = Len(P) - 1
        /\ \A k \in 1..(Len(P) - 1) : Q[k] = IF k < d THEN P[k] ELSE P[k + 1]
    BY <1>3, RemoveAtPicks
  <1>5. DOMAIN Q = 1..(Len(P) - 1)
    BY <1>4
  <1>6. ASSUME NEW k \in DOMAIN Q
        PROVE  k \in Nat /\ k > 0 /\ m(k) \in DOMAIN P /\ m(k) # d /\ Q[k] = P[m(k)] /\ m(k) \in Nat
    BY <1>3, <1>4, <1>5
  <1>7. \A k, l \in DOMAIN Q : k < l <=> m(k) < m(l)
    BY <1>3, <1>5
  <1>8. ASSUME NEW i \in DOMAIN P, i # d
        PROVE  \E k \in DOMAIN Q : m(k) = i /\ Q[k] = P[i]
    <2>1. CASE i < d
      <3>1. i \in DOMAIN Q /\ m(i) = i
        BY <1>3, <1>5, <2>1
      <3> QED BY <3>1, <1>6
    <2>2. CASE i > d
      <3>1. i - 1 \in DOMAIN Q /\ m(i - 1) = i
        BY <1>3, <1>5, <2>2
      <3>2. Q[i - 1] = P[i]
        BY <3>1, <1>6
      <3> QED BY <3>1, <3>2
    <2> QED BY <1>3, <1>8, <2>1, <2>2
  <1>a. Live(r) = Live(g) /\ Registered(r) = Registered(g)
    BY <1>1 DEF Live, Registered
  <1>b. \A e : Fine(r, e) <=> Fine(g, e)
    BY <1>1, <1>a DEF Fine
  <1>k. \A k \in DOMAIN Q : m(k) \in DOMAIN P /\ m(k) # d /\ Q[k] = P[m(k)] /\ k \in Nat /\ k > 0 /\ m(k) \in Nat
    BY <1>6
  <1>i. \A i \in DOMAIN P : i # d => \E k \in DOMAIN Q : m(k) = i /\ Q[k] = P[i]
    BY <1>8
  <1>m. \A k \in DOMAIN Q : m(k) < d <=> k < d
    BY <1>3, <1>5
  <1> HIDE DEF m
  <1>10. Typed(r)
    BY <1>1, <1>2, <1>c, <1>4 DEF Typed, Q
  <1>11. Owning(r)
    BY <1>1, <1>c DEF Owning
  <1>12. Living(r)
    BY <1>1, <1>a, <1>c DEF Living
  <1>p. /\ \A i \in DOMAIN P : Fine(g, P[i])
        /\ \A i, j \in DOMAIN P :
             P[i].kind = "delete window" /\ P[j].kind = "delete window" /\ P[i].window = P[j].window => i = j
    BY <1>c DEF Posted, P
  <1>13. Posted(r)
    <2>1. \A k \in DOMAIN Q : Fine(r, Q[k])
      BY <1>k, <1>p, <1>b
    <2>2. ASSUME NEW k \in DOMAIN Q, NEW l \in DOMAIN Q, Q[k].kind = "delete window",
                 Q[l].kind = "delete window", Q[k].window = Q[l].window
          PROVE  k = l
      <3>1. m(k) = m(l)
        BY <1>k, <1>p, <2>2
      <3>2. ~(k < l) /\ ~(l < k)
        BY <3>1, <1>k, <1>7
      <3> QED BY <3>2, <1>k
    <2> QED BY <2>1, <2>2 DEF Posted, Q
  <1>14. Framed(r)
    BY <1>1, <1>c DEF Framed
  <1>15. ASSUME NEW i \in Nat, NEW k \in Nat, NEW w, DeletedAfter(g, i, w),
                \A j \in DOMAIN Q : i < m(j) => k < j,
                ~(P[d].kind = "delete window" /\ P[d].window = w) \/ ~(d > i)
         PROVE  DeletedAfter(r, k, w)
    <2>1. PICK j \in DOMAIN P : j > i /\ P[j].kind = "delete window" /\ P[j].window = w
      BY <1>15 DEF DeletedAfter, P
    <2>2. j # d
      BY <1>15, <2>1
    <2>3. PICK l \in DOMAIN Q : m(l) = j /\ Q[l] = P[j]
      BY <1>i, <2>1, <2>2
    <2>4. l > k
      BY <1>15, <2>1, <2>3, <1>k
    <2> QED BY <2>1, <2>3, <2>4 DEF DeletedAfter, Q
  <1>16. ASSUME NEW w \in Live(r) \ r.open, ~(P[d].kind = "delete window" /\ P[d].window = w)
         PROVE  DeletedAfter(r, 0, w)
    <2>1. DeletedAfter(g, 0, w)
      BY <1>1, <1>a, <1>c DEF Deleted
    <2>2. \A j \in DOMAIN Q : 0 < m(j) => 0 < j
      BY <1>k
    <2> QED BY <1>15, <1>16, <2>1, <2>2
  <1>17. ASSUME P[d].kind = "delete window", NEW k \in DOMAIN Q, Q[k].kind = "delete window"
         PROVE  Q[k].window # P[d].window
    BY <1>3, <1>k, <1>p, <1>17
  <1>18. ASSUME \/ P[d].kind # "delete window"
                \/ \A i \in DOMAIN P : i < d => P[i].kind \notin Openings
         PROVE  Opened(r)
    <2> SUFFICES ASSUME NEW k \in DOMAIN Q, Q[k].kind \in Openings
                 PROVE  \E w \in Live(g) : w \in g.open \/ DeletedAfter(r, k, w)
      BY <1>1, <1>a DEF Opened, Q
    <2>1. m(k) \in DOMAIN P /\ P[m(k)].kind \in Openings /\ m(k) # d /\ k \in Nat /\ m(k) \in Nat
      BY <1>k
    <2>2. PICK w \in Live(g) : w \in g.open \/ DeletedAfter(g, m(k), w)
      BY <1>c, <2>1 DEF Opened, P
    <2>3. CASE w \in g.open
      BY <2>3
    <2>4. CASE DeletedAfter(g, m(k), w)
      <3>1. \A j \in DOMAIN Q : m(k) < m(j) => k < j
        BY <1>7
      <3>2. ~(P[d].kind = "delete window" /\ P[d].window = w) \/ ~(d > m(k))
        BY <1>18, <2>1
      <3>3. DeletedAfter(r, k, w)
        BY <1>15, <2>1, <2>4, <3>1, <3>2
      <3> QED BY <3>3
    <2> QED BY <2>2, <2>3, <2>4
  <1>19. ASSUME NEW s \in r.core
         PROVE  \/ \E w \in Window : s \in r.registered[w]
                \/ \E i \in DOMAIN Q : Q[i].kind = "delete page" /\ s \in Q[i].panes
                \/ P[d].kind = "delete page" /\ s \in P[d].panes
    <2>1. \/ \E w \in Window : s \in g.registered[w]
          \/ \E i \in DOMAIN P : P[i].kind = "delete page" /\ s \in P[i].panes
      BY <1>1, <1>c DEF Accounted, P
    <2>2. ASSUME NEW i \in DOMAIN P, P[i].kind = "delete page", s \in P[i].panes
          PROVE  \/ \E k \in DOMAIN Q : Q[k].kind = "delete page" /\ s \in Q[k].panes
                 \/ P[d].kind = "delete page" /\ s \in P[d].panes
      <3>1. CASE i = d
        BY <2>2, <3>1
      <3>2. CASE i # d
        <4>1. PICK k \in DOMAIN Q : Q[k] = P[i]
          BY <1>i, <3>2
        <4> QED BY <2>2, <4>1
      <3> QED BY <3>1, <3>2
    <2> QED BY <1>1, <2>1, <2>2
  <1>20. ASSUME P[d].kind # "quit timer" PROVE Timed(r) /\ (Armed(g) => Armed(r))
    <2>1. NoRequest(r) <=> NoRequest(g)
      BY <1>i, <1>k, <1>20 DEF NoRequest, P, Q
    <2>2. ASSUME NEW k \in DOMAIN Q, IsLastRequest(r, k) PROVE IsLastRequest(g, m(k)) /\ Q[k] = P[m(k)]
      <3>1. m(k) \in DOMAIN P /\ Q[k] = P[m(k)] /\ P[m(k)].kind = "quit timer"
        BY <1>k, <2>2 DEF IsLastRequest, Q
      <3>2. ASSUME NEW j \in DOMAIN P, j > m(k) PROVE P[j].kind # "quit timer"
        <4>1. CASE j = d
          BY <1>20, <4>1
        <4>2. CASE j # d
          <5>1. PICK l \in DOMAIN Q : m(l) = j /\ Q[l] = P[j]
            BY <1>i, <4>2
          <5>2. l > k
            BY <5>1, <3>2, <1>7
          <5> QED BY <5>1, <5>2, <2>2 DEF IsLastRequest, Q
        <4> QED BY <4>1, <4>2
      <3> QED BY <3>1, <3>2 DEF IsLastRequest, P
    <2>3. Timed(r)
      BY <1>1, <1>a, <1>c, <1>k, <2>1, <2>2 DEF Timed, P, Q
    <2>4. Armed(g) => Armed(r)
      BY <1>1, <2>1 DEF Armed
    <2> QED BY <2>3, <2>4
  <1>21. ASSUME P[d].kind # "quit" PROVE Quitting(r)
    <2> SUFFICES ASSUME ~Hides, g.mode = "now", g.phase = "running", g.open = {}
                 PROVE  \E k \in DOMAIN Q : Q[k].kind = "quit"
      BY <1>1 DEF Quitting, Q
    <2>1. PICK i \in DOMAIN P : P[i].kind = "quit"
      BY <1>c DEF Quitting, P
    <2>2. i # d
      BY <2>1, <1>21
    <2> QED BY <1>i, <2>1, <2>2
  <1> QED BY <1>10, <1>11, <1>12, <1>13, <1>14, <1>16, <1>17, <1>18, <1>19, <1>20, <1>21 DEF P, Q, Taken

-----------------------------------------------------------------------------
(* Surfaces are freed, and the quit timer is set.                          *)

\* All but Accounted and Timed; all but Accounted.
Calm(g) ==
    /\ Typed(g) /\ Owning(g) /\ Living(g) /\ Posted(g) /\ Deleted(g)
    /\ Framed(g) /\ Opened(g) /\ Quitting(g)

\* Calm, and the requests of the quit timer are right.
Rough(g) == Calm(g) /\ Timed(g)

\* Panes that no window lists are deleted, and with the last the quit timer starts.
Freeing(r, g, panes) ==
    /\ Keeps(r, g, {"core", "running", "owner", "queue"})
    /\ \A v \in Window : panes \cap g.registered[v] = {}
    /\ \A s \in g.core :
          \/ s \in panes
          \/ \E v \in Window : s \in g.registered[v]
          \/ \E i \in DOMAIN g.queue : g.queue[i].kind = "delete page" /\ s \in g.queue[i].panes
    /\ r.core = g.core \ panes /\ r.running = g.running \ panes
    /\ DOMAIN r.owner = Surface
    /\ \A s \in Surface : s \notin panes => r.owner[s] = g.owner[s]
    /\ Extends(r.queue, g.queue)
    /\ \A k \in New(r.queue, g.queue) :
          r.queue[k].kind = "quit timer" /\ r.queue[k].window = 0 /\ r.queue[k].arg = "start"
    /\ New(r.queue, g.queue) # {} => r.core = {}
    /\ New(r.queue, g.queue) = {} => panes \cap g.core = {} \/ r.core # {}

\* Surfaces that no window lists are freed; with the last, the start of the timer is posted.
LEMMA Frees ==
    ASSUME NEW g, NEW r, NEW panes, Rough(g), Freeing(r, g, panes)
    PROVE  Inv0(r) /\ (Armed(g) => Armed(r))
  <1>1. /\ r.app = g.app /\ r.windows = g.windows /\ r.open = g.open /\ r.tabs = g.tabs
        /\ r.registered = g.registered
        /\ r.timer = g.timer /\ r.mode = g.mode /\ r.phase = g.phase
        /\ r.born = g.born /\ r.made = g.made /\ r.stack = g.stack /\ r.closing = g.closing
    BY DEF Freeing, Keeps, Fields
  <1>2. r.skip = g.skip /\ r.pending = g.pending /\ r.hidden = g.hidden /\ r.undo = g.undo /\ r.redo = g.redo
        /\ r.quick = g.quick /\ DOMAIN r = DOMAIN g
    BY DEF Freeing, Keeps, Fields
  <1> DEFINE Q == r.queue
             P == g.queue
  <1>3. /\ DOMAIN Q = 1..Len(Q) /\ DOMAIN P = 1..Len(P) /\ Len(Q) \in Nat /\ Len(P) \in Nat
        /\ DOMAIN P \subseteq DOMAIN Q
        /\ \A i \in DOMAIN Q : i \in DOMAIN P \/ i \in New(Q, P)
        /\ \A i \in DOMAIN P : Q[i] = P[i] /\ i \in Nat
        /\ \A i \in DOMAIN P, j \in New(Q, P) : i < j
        /\ \A j \in New(Q, P) : j \in DOMAIN Q /\ j \notin DOMAIN P /\ j \in Nat /\ j > 0
    <2>1. Extends(Q, P)
      BY DEF Freeing
    <2> HIDE DEF Q, P
    <2> QED BY <2>1, Longer
  <1>4. /\ r.core = g.core \ panes /\ r.running = g.running \ panes /\ DOMAIN r.owner = Surface
        /\ New(Q, P) # {} => r.core = {}
        /\ New(Q, P) = {} => panes \cap g.core = {} \/ r.core # {}
        /\ Q \in Seq(Events)
    BY DEF Freeing, Extends
  <1>5. \A k \in New(Q, P) : Q[k].kind = "quit timer" /\ Q[k].window = 0 /\ Q[k].arg = "start"
    BY DEF Freeing
  <1>6. \A v \in Window : panes \cap g.registered[v] = {}
    BY DEF Freeing
  <1>7. \A s \in g.core :
          \/ s \in panes
          \/ \E v \in Window : s \in g.registered[v]
          \/ \E i \in DOMAIN P : P[i].kind = "delete page" /\ s \in P[i].panes
    BY DEF Freeing
  <1>8. \A s \in Surface : s \notin panes => r.owner[s] = g.owner[s]
    BY DEF Freeing
  <1>b. \A v, i : DeletedAfter(g, i, v) => DeletedAfter(r, i, v)
    BY StillDeleted DEF Freeing
  <1> HIDE DEF Q, P
  <1>a. Live(r) = Live(g) /\ Registered(r) = Registered(g)
    BY <1>1 DEF Live, Registered
  <1>c. Typed(g) /\ Owning(g) /\ Living(g) /\ Posted(g) /\ Deleted(g)
        /\ Framed(g) /\ Opened(g) /\ Timed(g) /\ Quitting(g)
    BY DEF Rough, Calm
  <1>d. \A e : Fine(r, e) <=> Fine(g, e)
    BY <1>1, <1>a DEF Fine
  <1>f. \A i \in DOMAIN Q : Q[i].kind # "quit timer" => i \in DOMAIN P /\ Q[i] = P[i]
    BY <1>3, <1>5
  <1>10. Typed(r)
    <2>1. r.core \subseteq Surface /\ r.running \subseteq Surface
      BY <1>4, <1>c DEF Typed
    <2> QED BY <1>1, <1>2, <1>c, <1>4, <2>1 DEF Typed, Q
  <1>11. Owning(r)
    <2>1. \A v \in Window : \A s \in g.registered[v] : s \notin panes /\ s \in Surface
      BY <1>6, <1>c DEF Typed
    <2> QED BY <1>1, <1>4, <1>8, <1>c, <2>1 DEF Owning
  <1>12. Living(r)
    BY <1>1, <1>a, <1>c DEF Living
  <1>13. Posted(r)
    <2>1. \A i \in DOMAIN P : Fine(r, P[i])
      BY <1>c, <1>d DEF Posted, P
    <2>2. \A k \in New(Q, P) : Fine(r, Q[k])
      BY <1>5 DEF Fine, AppEvents
    <2>3. \A i \in DOMAIN Q : Fine(r, Q[i])
      BY <1>3, <2>1, <2>2
    <2>4. \A i, j \in DOMAIN P :
             P[i].kind = "delete window" /\ P[j].kind = "delete window" /\ P[i].window = P[j].window => i = j
      BY <1>c DEF Posted, P
    <2> QED BY <1>f, <2>3, <2>4 DEF Posted, Q
  <1>14. Deleted(r)
    BY <1>1, <1>a, <1>b, <1>c DEF Deleted
  <1>15. Framed(r)
    BY <1>1, <1>c DEF Framed
  <1>16. Opened(r)
    <2> SUFFICES ASSUME NEW i \in DOMAIN Q, Q[i].kind \in Openings
                 PROVE  \E v \in Live(g) : v \in g.open \/ DeletedAfter(r, i, v)
      BY <1>1, <1>a DEF Opened, Q
    <2>1. i \in DOMAIN P /\ P[i].kind \in Openings
      BY <1>f DEF Openings
    <2> QED BY <1>b, <1>c, <2>1 DEF Opened, P
  <1>17. Accounted(r)
    <2> SUFFICES ASSUME NEW s \in r.core
                 PROVE  \/ \E v \in Window : s \in g.registered[v]
                        \/ \E i \in DOMAIN Q : Q[i].kind = "delete page" /\ s \in Q[i].panes
      BY <1>1 DEF Accounted, Q
    <2>1. \/ \E v \in Window : s \in g.registered[v]
          \/ \E i \in DOMAIN P : P[i].kind = "delete page" /\ s \in P[i].panes
      BY <1>4, <1>7
    <2>2. \A i \in DOMAIN P : i \in DOMAIN Q /\ Q[i] = P[i]
      BY <1>3
    <2> QED BY <2>1, <2>2
  <1>18. ASSUME New(Q, P) = {} PROVE Timed(r) /\ (Armed(g) => Armed(r))
    <2>1. \A i \in DOMAIN Q : i \in DOMAIN P
      BY <1>3, <1>18
    <2>2. NoRequest(r) <=> NoRequest(g)
      BY <1>3, <2>1 DEF NoRequest, Q, P
    <2>3. \A i \in DOMAIN Q : IsLastRequest(r, i) => i \in DOMAIN P /\ Q[i] = P[i] /\ IsLastRequest(g, i)
      BY <1>3, <2>1 DEF IsLastRequest, Q, P
    <2>4. r.core = {} => g.core = {}
      BY <1>4, <1>18
    <2>5. Timed(r)
      BY <1>1, <1>a, <1>c, <2>2, <2>3, <2>4 DEF Timed, Q, P
    <2>6. Armed(g) => Armed(r)
      BY <1>1, <2>2, <2>4 DEF Armed
    <2> QED BY <2>5, <2>6
  <1>19. ASSUME New(Q, P) # {} PROVE Timed(r) /\ (Armed(g) => Armed(r))
    <2>0. PICK n \in New(Q, P) : TRUE
      BY <1>19
    <2>1. n \in DOMAIN Q /\ Q[n].kind = "quit timer"
      BY <1>3, <1>5, <2>0
    <2>2. \A i \in DOMAIN Q : IsLastRequest(r, i) => i \in New(Q, P)
      <3> SUFFICES ASSUME NEW i \in DOMAIN P, i \in DOMAIN Q, IsLastRequest(r, i) PROVE FALSE
        BY <1>3
      <3>1. n > i
        BY <1>3, <2>0
      <3> QED BY <3>1, <2>1 DEF IsLastRequest, Q
    <2>3. ~NoRequest(r)
      BY <2>1 DEF NoRequest, Q
    <2>4. r.core = {} /\ Registered(r) = {}
      <3>1. \A v \in Window : g.registered[v] = {}
        BY <1>4, <1>6, <1>19, <1>c DEF Owning
      <3> QED BY <3>1, <1>1, <1>4, <1>19 DEF Registered
    <2>5. Timed(r)
      BY <1>1, <1>c, <1>5, <2>2, <2>3, <2>4 DEF Timed, Q
    <2> QED BY <2>3, <2>5 DEF Armed
  <1>20. Quitting(r)
    BY <1>1, <1>3, <1>c DEF Quitting, Q, P
  <1> QED BY <1>10, <1>11, <1>12, <1>13, <1>14, <1>15, <1>16, <1>17, <1>18, <1>19, <1>20 DEF Inv0

\* The quit timer is started or stopped; only its own invariants are about it.
Timing(r, g) == Keeps(r, g, {"timer"}) /\ r.timer \in BOOLEAN

\* The timer may change where the queue holds a request.
LEMMA Times ==
    ASSUME NEW g, NEW r, Calm(g), Timing(r, g), Timed(r)
    PROVE  Rough(r) /\ (Accounted(g) => Inv0(r))
  <1>1. /\ r.app = g.app /\ r.windows = g.windows /\ r.open = g.open /\ r.tabs = g.tabs
        /\ r.registered = g.registered /\ r.owner = g.owner /\ r.core = g.core
        /\ r.queue = g.queue /\ r.timer \in BOOLEAN /\ r.mode = g.mode /\ r.phase = g.phase
        /\ r.born = g.born /\ r.made = g.made /\ r.stack = g.stack /\ r.closing = g.closing
    BY DEF Timing, Keeps, Fields
  <1>2. /\ r.skip = g.skip /\ r.pending = g.pending /\ r.hidden = g.hidden /\ r.running = g.running /\ r.undo = g.undo
        /\ r.redo = g.redo
        /\ r.quick = g.quick /\ DOMAIN r = DOMAIN g
    BY DEF Timing, Keeps, Fields
  <1>c. Typed(g) /\ Owning(g) /\ Living(g) /\ Posted(g) /\ Deleted(g)
        /\ Framed(g) /\ Opened(g) /\ Quitting(g)
    BY DEF Calm
  <1>a. Live(r) = Live(g)
    BY <1>1 DEF Live
  <1>b. \A w, i : DeletedAfter(r, i, w) <=> DeletedAfter(g, i, w)
    BY <1>1 DEF DeletedAfter
  <1>3. Typed(r)
    BY <1>1, <1>2, <1>c DEF Typed
  <1>4. Owning(r)
    BY <1>1, <1>c DEF Owning
  <1>5. Living(r)
    BY <1>1, <1>a, <1>c DEF Living
  <1>6. Posted(r)
    BY <1>1, <1>a, <1>c DEF Posted, Fine
  <1>7. Deleted(r)
    BY <1>1, <1>a, <1>b, <1>c DEF Deleted
  <1>8. Framed(r)
    BY <1>1, <1>c DEF Framed
  <1>9. Opened(r)
    BY <1>1, <1>a, <1>b, <1>c DEF Opened
  <1>10. Accounted(g) => Accounted(r)
    BY <1>1 DEF Accounted
  <1>11. Quitting(r)
    BY <1>1, <1>c DEF Quitting
  <1> QED BY <1>3, <1>4, <1>5, <1>6, <1>7, <1>8, <1>9, <1>10, <1>11 DEF Inv0, Rough, Calm

-----------------------------------------------------------------------------
(* A window leaves the application.                                        *)

\* A window is on its way out: it is closed, and its deletion is taken.
Doomed(g, w) ==
    /\ Typed(g) /\ Owning(g) /\ Living(g) /\ Posted(g)
    /\ Framed(g) /\ Opened(g) /\ Accounted(g) /\ Timed(g) /\ Quitting(g)
    /\ w \in Live(g) /\ w \notin g.open
    /\ \A v \in Live(g) \ g.open : v # w => DeletedAfter(g, 0, v)
    /\ \A k \in DOMAIN g.queue : ~(g.queue[k].kind = "delete window" /\ g.queue[k].window = w)

\* A window is no more, nor its events.
Leaving(r, g, w) ==
    /\ Keeps(r, g, {"windows", "pending", "skip", "quick", "registered", "tabs", "queue"})
    /\ r.windows = Kept(g.windows, ToSet(g.windows) \ {w})
    /\ r.pending = g.pending \ {w} /\ r.skip = g.skip \ {w}
    /\ r.tabs \in [Window -> Seq(Page)] /\ r.registered \in [Window -> SUBSET Surface]
    /\ \A v \in Window \ {w} : r.tabs[v] = g.tabs[v] /\ r.registered[v] = g.registered[v]
    /\ r.tabs[w] = <<>> /\ r.registered[w] = {}
    /\ r.queue = Kept(g.queue, {e \in ToSet(g.queue) : e.window # w})

\* What holds of the state without the window.
Left(r, g, w) ==
    /\ Rough(r)
    /\ Live(r) = Live(g) \ {w}
    /\ NoRequest(r) <=> NoRequest(g)
    /\ \A v \in Window : g.registered[w] \cap r.registered[v] = {}
    /\ \A s \in r.core :
          \/ s \in g.registered[w]
          \/ \E v \in Window : s \in r.registered[v]
          \/ \E i \in DOMAIN r.queue : r.queue[i].kind = "delete page" /\ s \in r.queue[i].panes

\* What is left of the invariant without a doomed window.
LEMMA Leaves ==
    ASSUME NEW g, NEW r, NEW w, Doomed(g, w), Leaving(r, g, w)
    PROVE  Left(r, g, w)
  <1>1. /\ r.app = g.app /\ r.open = g.open /\ r.owner = g.owner /\ r.core = g.core
        /\ r.timer = g.timer /\ r.mode = g.mode /\ r.phase = g.phase
        /\ r.born = g.born /\ r.made = g.made /\ r.stack = g.stack /\ r.closing = g.closing
    BY DEF Leaving, Keeps, Fields
  <1>2. /\ r.hidden = g.hidden /\ r.running = g.running /\ r.undo = g.undo /\ r.redo = g.redo
        /\ DOMAIN r = DOMAIN g
    BY DEF Leaving, Keeps, Fields
  <1>c. Typed(g) /\ Owning(g) /\ Living(g) /\ Posted(g)
        /\ Framed(g) /\ Opened(g) /\ Accounted(g) /\ Timed(g) /\ Quitting(g)
    BY DEF Doomed
  <1>d. /\ w \in Live(g) /\ w \notin g.open
        /\ \A v \in Live(g) \ g.open : v # w => DeletedAfter(g, 0, v)
        /\ \A k \in DOMAIN g.queue : ~(g.queue[k].kind = "delete window" /\ g.queue[k].window = w)
    BY DEF Doomed
  <1>w. w \in Window /\ w # 0
    BY <1>c, <1>d, LiveWindow
  <1>3. /\ r.pending = g.pending \ {w} /\ r.skip = g.skip \ {w}
        /\ r.tabs \in [Window -> Seq(Page)] /\ r.registered \in [Window -> SUBSET Surface]
        /\ r.tabs[w] = <<>> /\ r.registered[w] = {}
    BY DEF Leaving
  <1>4. \A v \in Window \ {w} : r.tabs[v] = g.tabs[v] /\ r.registered[v] = g.registered[v]
    BY DEF Leaving
  <1> DEFINE Q == r.queue
             P == g.queue
             W == r.windows
             V == g.windows
             E == {e \in ToSet(P) : e.window # w}
  <1>t. P \in Seq(Events) /\ V \in Seq(Window)
    BY <1>c DEF Typed
  <1>5. Q = Kept(P, E) /\ W = Kept(V, ToSet(V) \ {w})
    BY DEF Leaving
  <1> HIDE DEF P, Q, V, W
  <1>6. /\ Q \in Seq(Events) /\ W \in Seq(Window)
        /\ Picks(Q, P, {i \in 1..Len(P) : P[i] \in E})
        /\ Picks(W, V, {i \in 1..Len(V) : V[i] \in ToSet(V) \ {w}})
    <2> HIDE DEF E
    <2> QED BY <1>5, <1>t, KeptPicks
  <1>7. PICK m \in [1..Len(Q) -> 1..Len(P)] :
           /\ \A k \in 1..Len(Q) : Q[k] = P[m[k]]
           /\ \A k, l \in 1..Len(Q) : k < l => m[k] < m[l]
           /\ \A i \in 1..Len(P) : i \in {j \in 1..Len(P) : P[j] \in E} <=> \E k \in 1..Len(Q) : m[k] = i
    BY <1>6 DEF Picks
  <1>8. PICK f \in [1..Len(W) -> 1..Len(V)] :
           /\ \A k \in 1..Len(W) : W[k] = V[f[k]]
           /\ \A k, l \in 1..Len(W) : k < l => f[k] < f[l]
           /\ \A i \in 1..Len(V) :
                 i \in {j \in 1..Len(V) : V[j] \in ToSet(V) \ {w}} <=> \E k \in 1..Len(W) : f[k] = i
    BY <1>6 DEF Picks
  <1>9. /\ DOMAIN P = 1..Len(P) /\ DOMAIN Q = 1..Len(Q) /\ Len(P) \in Nat /\ Len(Q) \in Nat
        /\ DOMAIN V = 1..Len(V) /\ DOMAIN W = 1..Len(W) /\ Len(V) \in Nat /\ Len(W) \in Nat
    BY <1>6, <1>t
  <1>10. /\ \A k \in DOMAIN Q : m[k] \in DOMAIN P /\ Q[k] = P[m[k]] /\ P[m[k]].window # w
                                /\ k \in Nat /\ m[k] \in Nat /\ k > 0 /\ m[k] > 0
         /\ \A i \in DOMAIN P : P[i].window # w => \E k \in DOMAIN Q : m[k] = i /\ Q[k] = P[i]
    <2>1. \A i \in DOMAIN P : P[i] \in ToSet(P)
      BY DEF ToSet
    <2>2. ASSUME NEW k \in DOMAIN Q
          PROVE  m[k] \in DOMAIN P /\ Q[k] = P[m[k]] /\ P[m[k]].window # w
                 /\ k \in Nat /\ m[k] \in Nat /\ k > 0 /\ m[k] > 0
      <3>1. m[k] \in 1..Len(P) /\ Q[k] = P[m[k]]
        BY <1>7, <1>9
      <3>2. m[k] \in {j \in 1..Len(P) : P[j] \in E}
        BY <1>7, <1>9, <3>1
      <3> QED BY <1>9, <3>1, <3>2
    <2>3. ASSUME NEW i \in DOMAIN P, P[i].window # w PROVE \E k \in DOMAIN Q : m[k] = i /\ Q[k] = P[i]
      <3>1. i \in {j \in 1..Len(P) : P[j] \in E}
        BY <1>9, <2>1, <2>3
      <3>2. PICK k \in 1..Len(Q) : m[k] = i
        BY <1>7, <1>9, <3>1
      <3> QED BY <1>7, <1>9, <3>2
    <2> QED BY <2>2, <2>3
  <1>11. \A k, l \in DOMAIN Q : m[k] < m[l] => k < l
    <2> SUFFICES ASSUME NEW k \in DOMAIN Q, NEW l \in DOMAIN Q, m[k] < m[l], ~(k < l) PROVE FALSE
      OBVIOUS
    <2>1. k = l \/ l < k
      BY <1>9
    <2>2. m[l] = m[k] \/ m[l] < m[k]
      BY <1>7, <1>9, <2>1
    <2> QED BY <1>10, <2>2
  <1>12. \A k, l \in DOMAIN Q : m[k] = m[l] => k = l
    <2> SUFFICES ASSUME NEW k \in DOMAIN Q, NEW l \in DOMAIN Q, m[k] = m[l], k # l PROVE FALSE
      OBVIOUS
    <2>1. k < l \/ l < k
      BY <1>9
    <2>2. m[k] < m[l] \/ m[l] < m[k]
      BY <1>7, <1>9, <2>1
    <2> QED BY <1>10, <2>2
  <1> HIDE DEF E
  <1>p. /\ \A i \in DOMAIN P : Fine(g, P[i])
        /\ \A i, j \in DOMAIN P :
             P[i].kind = "delete window" /\ P[j].kind = "delete window" /\ P[i].window = P[j].window => i = j
    BY <1>c DEF Posted, P
  <1>k. \A i \in DOMAIN P : P[i].kind \in AppEvents \cup {"delete page"} =>
           P[i].window # w /\ \E k \in DOMAIN Q : m[k] = i /\ Q[k] = P[i]
    <2> TAKE i \in DOMAIN P
    <2>1. P[i].kind \in AppEvents \cup {"delete page"} => P[i].window = 0
      BY <1>p DEF Fine, WindowEvents, AppEvents
    <2> QED BY <2>1, <1>10, <1>w
  <1>a. Live(r) = Live(g) \ {w}
    <2>1. ASSUME NEW v \in Live(r) PROVE v \in Live(g) \ {w}
      <3>1. PICK k \in DOMAIN W : W[k] = v
        BY DEF Live, ToSet, W
      <3>2. f[k] \in {j \in 1..Len(V) : V[j] \in ToSet(V) \ {w}} /\ V[f[k]] = v
        BY <3>1, <1>8, <1>9
      <3> QED BY <3>2 DEF Live, V
    <2>2. ASSUME NEW v \in Live(g) \ {w} PROVE v \in Live(r)
      <3>1. PICK i \in 1..Len(V) : V[i] = v
        BY <1>9 DEF Live, ToSet, V
      <3>2. v \in ToSet(V) \ {w}
        BY DEF Live, V
      <3>3. PICK k \in 1..Len(W) : f[k] = i
        BY <1>8, <3>1, <3>2
      <3> QED BY <1>8, <1>9, <3>1, <3>3 DEF Live, ToSet, W
    <2> QED BY <2>1, <2>2
  <1>b. ASSUME NEW v, v # w, NEW i \in Nat, NEW k \in Nat, DeletedAfter(g, i, v),
               \A j \in DOMAIN Q : i < m[j] => k < j
        PROVE  DeletedAfter(r, k, v)
    <2>1. PICK j \in DOMAIN P : j > i /\ P[j].kind = "delete window" /\ P[j].window = v
      BY <1>b DEF DeletedAfter, P
    <2>2. PICK l \in DOMAIN Q : m[l] = j /\ Q[l] = P[j]
      BY <1>10, <1>b, <2>1
    <2>3. l > k
      BY <1>b, <2>1, <2>2, <1>10
    <2> QED BY <2>1, <2>2, <2>3 DEF DeletedAfter, Q
  <1>20. Typed(r)
    <2>1. r.pending \subseteq Window /\ r.skip \subseteq Window
      BY <1>3, <1>c DEF Typed
    <2> QED BY <1>1, <1>2, <1>3, <1>6, <1>c, <2>1 DEF Typed, Q, W
  <1>21. Owning(r)
    <2> SUFFICES ASSUME NEW v \in Window
                 PROVE  /\ r.registered[v] = UNION ToSet(r.tabs[v])
                        /\ \A i, j \in DOMAIN r.tabs[v] : r.tabs[v][i] \cap r.tabs[v][j] # {} => i = j
                        /\ \A s \in r.registered[v] : g.owner[s] = v /\ s \in g.core /\ s <= g.made
      BY <1>1 DEF Owning
    <2>1. CASE v = w
      <3>1. ToSet(<<>>) = {} /\ DOMAIN <<>> = {}
        BY DEF ToSet
      <3> QED BY <1>3, <2>1, <3>1
    <2>2. CASE v # w
      BY <1>4, <1>c, <2>2 DEF Owning
    <2> QED BY <2>1, <2>2
  <1>22. Living(r)
    <2>1. \A i, j \in DOMAIN W : W[i] = W[j] => i = j
      <3> SUFFICES ASSUME NEW i \in DOMAIN W, NEW j \in DOMAIN W, W[i] = W[j], i # j PROVE FALSE
        OBVIOUS
      <3>1. f[i] \in DOMAIN V /\ f[j] \in DOMAIN V /\ V[f[i]] = V[f[j]]
        BY <1>8, <1>9
      <3>2. f[i] = f[j]
        BY <1>c, <3>1 DEF Living, V
      <3>3. i < j \/ j < i
        BY <1>9
      <3>4. f[i] < f[j] \/ f[j] < f[i]
        BY <1>8, <1>9, <3>3
      <3> QED BY <1>9, <3>1, <3>2, <3>4
    <2>2. \A v \in Live(r) : v <= r.born
      BY <1>1, <1>a, <1>c DEF Living
    <2>3. r.open \subseteq Live(r)
      BY <1>1, <1>a, <1>c, <1>d DEF Living
    <2>4. \A v \in Window \ Live(r) : r.tabs[v] = <<>>
      BY <1>3, <1>4, <1>a, <1>c DEF Living
    <2>5. r.app
      <3>1. g.windows # <<>>
        BY <1>c, <1>d, LiveWindow
      <3> QED BY <3>1, <1>1, <1>c DEF Living
    <2> QED BY <2>1, <2>2, <2>3, <2>4, <2>5 DEF Living, W
  <1>23. Posted(r)
    <2>1. \A v \in Window : r.registered[v] \subseteq g.registered[v]
      BY <1>3, <1>4
    <2>2. ASSUME NEW k \in DOMAIN Q PROVE Fine(r, Q[k])
      <3>1. Fine(g, Q[k]) /\ Q[k].window # w
        BY <1>10, <1>p
      <3> QED BY <1>1, <1>a, <2>1, <3>1 DEF Fine
    <2>3. \A i, j \in DOMAIN Q :
             Q[i].kind = "delete window" /\ Q[j].kind = "delete window" /\ Q[i].window = Q[j].window => i = j
      <3> SUFFICES ASSUME NEW i \in DOMAIN Q, NEW j \in DOMAIN Q, Q[i].kind = "delete window",
                          Q[j].kind = "delete window", Q[i].window = Q[j].window
                   PROVE  i = j
        OBVIOUS
      <3>1. m[i] = m[j]
        <4>1. m[i] \in DOMAIN P /\ m[j] \in DOMAIN P /\ Q[i] = P[m[i]] /\ Q[j] = P[m[j]]
          BY <1>10
        <4> QED BY <4>1, <1>p
      <3> QED BY <3>1, <1>12
    <2> QED BY <2>2, <2>3 DEF Posted, Q
  <1>24. Deleted(r)
    <2> SUFFICES ASSUME NEW v \in Live(r) \ r.open PROVE DeletedAfter(r, 0, v)
      BY DEF Deleted
    <2>1. v # w /\ DeletedAfter(g, 0, v)
      BY <1>1, <1>a, <1>d
    <2>2. \A j \in DOMAIN Q : 0 < m[j] => 0 < j
      BY <1>10
    <2> QED BY <1>b, <2>1, <2>2
  <1>25. Framed(r)
    BY <1>1, <1>c DEF Framed
  <1>26. Opened(r)
    <2> SUFFICES ASSUME NEW k \in DOMAIN Q, Q[k].kind \in Openings
                 PROVE  \E v \in Live(r) : v \in r.open \/ DeletedAfter(r, k, v)
      BY DEF Opened, Q
    <2>1. m[k] \in DOMAIN P /\ P[m[k]].kind \in Openings /\ k \in Nat /\ m[k] \in Nat
      BY <1>10
    <2>2. PICK v \in Live(g) : v \in g.open \/ DeletedAfter(g, m[k], v)
      BY <1>c, <2>1 DEF Opened, P
    <2>3. v # w
      BY <2>2, <1>d DEF DeletedAfter
    <2>4. \A j \in DOMAIN Q : m[k] < m[j] => k < j
      BY <1>11
    <2>5. v \in r.open \/ DeletedAfter(r, k, v)
      BY <2>1, <2>2, <2>3, <2>4, <1>1, <1>b
    <2> QED BY <2>3, <2>5, <1>a
  <1>27. NoRequest(r) <=> NoRequest(g)
    <2>1. \A i \in DOMAIN P : P[i].kind = "quit timer" => \E k \in DOMAIN Q : Q[k] = P[i]
      BY <1>k DEF AppEvents
    <2>2. \A k \in DOMAIN Q : \E i \in DOMAIN P : Q[k] = P[i]
      BY <1>10
    <2> QED BY <2>1, <2>2 DEF NoRequest, P, Q
  <1>28. Timed(r)
    <2>1. ASSUME NEW k \in DOMAIN Q, IsLastRequest(r, k) PROVE IsLastRequest(g, m[k]) /\ Q[k] = P[m[k]]
      <3>1. m[k] \in DOMAIN P /\ Q[k] = P[m[k]] /\ P[m[k]].kind = "quit timer"
        BY <1>10, <2>1 DEF IsLastRequest, Q
      <3>2. ASSUME NEW j \in DOMAIN P, j > m[k], P[j].kind = "quit timer" PROVE FALSE
        <4>1. PICK l \in DOMAIN Q : m[l] = j /\ Q[l] = P[j]
          BY <1>k, <3>2 DEF AppEvents
        <4>2. l > k
          BY <4>1, <3>2, <1>11
        <4> QED BY <4>1, <4>2, <3>2, <2>1 DEF IsLastRequest, Q
      <3> QED BY <3>1, <3>2 DEF IsLastRequest, P
    <2>2. Registered(r) # {} => Registered(g) # {}
      <3>1. \A v \in Window : r.registered[v] \subseteq g.registered[v]
        BY <1>3, <1>4
      <3> QED BY <3>1 DEF Registered
    <2> QED BY <1>1, <1>10, <1>27, <1>c, <2>1, <2>2 DEF Timed, P, Q
  <1>29. Quitting(r)
    BY <1>1, <1>k, <1>c DEF Quitting, P, Q, AppEvents
  <1>30. \A v \in Window : g.registered[w] \cap r.registered[v] = {}
    BY <1>3, <1>4, <1>w, <1>c DEF Owning
  <1>31. ASSUME NEW s \in r.core
         PROVE  \/ s \in g.registered[w]
                \/ \E v \in Window : s \in r.registered[v]
                \/ \E i \in DOMAIN Q : Q[i].kind = "delete page" /\ s \in Q[i].panes
    <2>1. \/ \E v \in Window : s \in g.registered[v]
          \/ \E i \in DOMAIN P : P[i].kind = "delete page" /\ s \in P[i].panes
      BY <1>1, <1>c DEF Accounted, P
    <2>2. \A i \in DOMAIN P : P[i].kind = "delete page" => \E k \in DOMAIN Q : Q[k] = P[i]
      BY <1>k
    <2>3. \A v \in Window : v = w \/ r.registered[v] = g.registered[v]
      BY <1>4
    <2> QED BY <2>1, <2>2, <2>3
  <1> QED BY <1>20, <1>21, <1>22, <1>23, <1>24, <1>25, <1>26, <1>27, <1>28, <1>29, <1>30, <1>31, <1>a
          DEF Rough, Calm, Q, Left

-----------------------------------------------------------------------------
(* Posting one event, or two.                                              *)

\* Changes of two steps.
LEMMA KeepsTrans ==
    ASSUME NEW g, NEW h, NEW r, NEW F, NEW G, Keeps(h, g, F), Keeps(r, h, G)
    PROVE  Keeps(r, g, F \cup G)
  BY DEF Keeps

\* Fewer fields change.
LEMMA KeepsMore ==
    ASSUME NEW g, NEW r, NEW F, NEW G, F \subseteq G, Keeps(r, g, F)
    PROVE  Keeps(r, g, G)
  BY DEF Keeps

\* The level an event is posted with.
Level(g, kind) == IF kind \in Deletions THEN Len(g.stack) ELSE 0

\* One event is posted.
Posting(r, g, kind, w, panes, arg) ==
    /\ Keeps(r, g, {"queue"})
    /\ Event(kind, w, panes, arg, Level(g, kind)) \in Events
    /\ r.queue = Append(g.queue, Event(kind, w, panes, arg, Level(g, kind)))
    /\ Extends(r.queue, g.queue) /\ New(r.queue, g.queue) = {Len(g.queue) + 1}
    /\ r.queue[Len(g.queue) + 1] = Event(kind, w, panes, arg, Level(g, kind))

\* What Post does.
LEMMA Posts ==
    ASSUME NEW g, DOMAIN g = Fields, g.queue \in Seq(Events), g.stack \in Seq(Frames),
           NEW kind \in Kinds, NEW w \in Nat, NEW panes \in SUBSET Surface, NEW arg \in Args
    PROVE  Posting(Post(g, kind, w, panes, arg), g, kind, w, panes, arg)
  <1> DEFINE e == Event(kind, w, panes, arg, Level(g, kind))
             r == Post(g, kind, w, panes, arg)
  <1>1. Keeps(r, g, {"queue"})
    BY Zenon DEF Post, Keeps, Fields
  <1>2. r.queue = Append(g.queue, e)
    BY Zenon DEF Post, Level, Fields
  <1> HIDE DEF r
  <1>3. e \in Events
    BY DEF Event, Events, Level
  <1> HIDE DEF e
  <1>4. /\ Extends(r.queue, g.queue) /\ New(r.queue, g.queue) = {Len(g.queue) + 1}
        /\ r.queue[Len(g.queue) + 1] = e
    <2> DEFINE q == r.queue
               p == g.queue
    <2>1. p \in Seq(Events) /\ q = Append(p, e)
      BY <1>2
    <2> HIDE DEF p, q
    <2>2. Extends(q, p) /\ New(q, p) = {Len(p) + 1} /\ q[Len(p) + 1] = e
      BY <1>3, <2>1, Appended
    <2> QED BY <2>2 DEF p, q
  <1> QED BY <1>1, <1>2, <1>3, <1>4 DEF Posting, e, r

\* Two events more.
LEMMA Twice ==
    ASSUME NEW p \in Seq(Events), NEW d \in Events, NEW e \in Events
    PROVE  LET q == Append(Append(p, d), e)
           IN  /\ Extends(q, p) /\ New(q, p) = {Len(p) + 1, Len(p) + 2} /\ DOMAIN q = 1..(Len(p) + 2)
               /\ q[Len(p) + 1] = d /\ q[Len(p) + 2] = e
  <1> DEFINE h == Append(p, d)
             q == Append(h, e)
  <1>1. /\ h \in Seq(Events) /\ Len(h) = Len(p) + 1 /\ Len(p) \in Nat /\ h[Len(p) + 1] = d
        /\ \A k \in 1..Len(p) : h[k] = p[k]
    OBVIOUS
  <1> HIDE DEF h
  <1>2. /\ q \in Seq(Events) /\ Len(q) = Len(h) + 1 /\ q[Len(h) + 1] = e
        /\ \A k \in 1..Len(h) : q[k] = h[k]
    BY <1>1
  <1> HIDE DEF q
  <1>3. Extends(q, p)
    BY <1>1, <1>2 DEF Extends
  <1>4. New(q, p) = {Len(p) + 1, Len(p) + 2}
    BY <1>1, <1>2 DEF New
  <1>5. DOMAIN q = 1..(Len(p) + 2) /\ q[Len(p) + 1] = d /\ q[Len(p) + 2] = e
    BY <1>1, <1>2
  <1> QED BY <1>3, <1>4, <1>5 DEF q, h

-----------------------------------------------------------------------------
(* Fields at the side, and the undo stacks.                                *)

\* Fields that are in no part of the invariant but Typed.
Free == {"skip", "pending", "quick", "running", "undo", "redo", "inputs"}

\* r differs from g in fields of Free only, and these have their types.
Beside(r, g) ==
    /\ Keeps(r, g, Free)
    /\ r.skip \subseteq Window /\ r.pending \subseteq Window /\ r.running \subseteq Surface
    /\ r.undo \in Seq(Nat) /\ Len(r.undo) <= Cap
    /\ r.redo \in Seq(Nat) /\ Len(r.redo) <= Cap

\* Such a change keeps the invariant.
LEMMA Besides ==
    ASSUME NEW g, NEW r, Inv0(g), Beside(r, g)
    PROVE  Inv0(r) /\ (Armed(g) => Armed(r)) /\ Live(r) = Live(g)
  <1>1. /\ r.app = g.app /\ r.windows = g.windows /\ r.open = g.open /\ r.tabs = g.tabs
        /\ r.registered = g.registered /\ r.owner = g.owner /\ r.core = g.core
        /\ r.queue = g.queue /\ r.timer = g.timer /\ r.mode = g.mode /\ r.phase = g.phase
        /\ r.born = g.born /\ r.made = g.made /\ r.stack = g.stack /\ r.closing = g.closing
        /\ r.hidden = g.hidden /\ DOMAIN r = DOMAIN g
    BY DEF Beside, Keeps, Fields, Free
  <1>2. /\ r.skip \subseteq Window /\ r.pending \subseteq Window /\ r.running \subseteq Surface
        /\ r.undo \in Seq(Nat) /\ Len(r.undo) <= Cap
        /\ r.redo \in Seq(Nat) /\ Len(r.redo) <= Cap
    BY DEF Beside
  <1>3. Typed(g) /\ Framed(g)
    BY DEF Inv0
  <1>4. Typed(r)
    BY <1>1, <1>2, <1>3 DEF Typed
  <1>5. Framed(r)
    BY <1>1, <1>3 DEF Framed
  <1>6. Keeps(r, g, Aside)
    <2>1. Free \subseteq Aside
      BY DEF Free, Aside
    <2> QED BY <2>1, KeepsMore DEF Beside
  <1> QED BY <1>1, <1>4, <1>5, <1>6, AsideKept DEF Live

\* An undo stack stays within kCap.
LEMMA CappedFine ==
    ASSUME NEW p \in Seq(Nat), Len(p) <= Cap, NEW e \in Nat
    PROVE  Capped(Append(p, e)) \in Seq(Nat) /\ Len(Capped(Append(p, e))) <= Cap
  <1>1. Cap \in Nat \ {0}
    BY WindowsAssumption
  <1>2. Append(p, e) \in Seq(Nat) /\ Len(Append(p, e)) = Len(p) + 1 /\ Len(p) \in Nat
    OBVIOUS
  <1>3. CASE Len(p) + 1 > Cap
    <2>1. Append(p, e) # <<>>
      BY <1>2
    <2>2. Tail(Append(p, e)) \in Seq(Nat) /\ Len(Tail(Append(p, e))) = Len(p)
      BY <1>2, <2>1
    <2> QED BY <1>2, <1>3, <2>2 DEF Capped
  <1>4. CASE Len(p) + 1 <= Cap
    BY <1>1, <1>2, <1>4 DEF Capped
  <1> QED BY <1>1, <1>2, <1>3, <1>4

\* What PushUndo changes, and within which bounds.
LEMMA PushUndoFields ==
    ASSUME NEW g, Typed(g), NEW e \in Nat, NEW redoing
    PROVE  LET r == PushUndo(g, e, redoing)
           IN  /\ Keeps(r, g, {"undo", "redo"})
               /\ r.undo \in Seq(Nat) /\ Len(r.undo) <= Cap
               /\ r.redo \in Seq(Nat) /\ Len(r.redo) <= Cap
  <1> DEFINE r == PushUndo(g, e, redoing)
  <1>1. /\ DOMAIN g = Fields /\ g.undo \in Seq(Nat) /\ Len(g.undo) <= Cap /\ g.redo \in Seq(Nat)
        /\ Len(g.redo) <= Cap
    BY DEF Typed
  <1>2. CASE redoing
    <2>1. r = g
      BY Zenon, <1>2 DEF PushUndo
    <2> HIDE DEF r
    <2> QED BY <1>1, <2>1 DEF Keeps, r
  <1>3. CASE ~redoing
    <2>1. Keeps(r, g, {"undo", "redo"})
      BY Zenon, <1>1, <1>3 DEF PushUndo, Keeps, Fields
    <2>2. r.undo = Capped(Append(g.undo, e)) /\ r.redo = <<>>
      BY Zenon, <1>1, <1>3 DEF PushUndo, Fields
    <2> HIDE DEF r
    <2>3. Cap >= 0 /\ <<>> \in Seq(Nat) /\ Len(<<>>) = 0
      BY WindowsAssumption
    <2> QED BY <1>1, <2>1, <2>2, <2>3, CappedFine DEF r
  <1> QED BY <1>2, <1>3

\* It is a change at the side.
LEMMA PushUndoBeside ==
    ASSUME NEW g, Typed(g), NEW e \in Nat, NEW redoing
    PROVE  Beside(PushUndo(g, e, redoing), g)
  <1> DEFINE r == PushUndo(g, e, redoing)
  <1>1. /\ Keeps(r, g, {"undo", "redo"})
        /\ r.undo \in Seq(Nat) /\ Len(r.undo) <= Cap
        /\ r.redo \in Seq(Nat) /\ Len(r.redo) <= Cap
    BY PushUndoFields
  <1> HIDE DEF r
  <1>2. r.skip = g.skip /\ r.pending = g.pending /\ r.hidden = g.hidden /\ r.running = g.running
    BY <1>1 DEF Keeps, Fields
  <1>3. Keeps(r, g, Free)
    BY <1>1 DEF Keeps, Free
  <1> QED BY <1>1, <1>2, <1>3 DEF Beside, Typed, r

-----------------------------------------------------------------------------
(* AcceptClose.                                                            *)

\* The fields that a close changes.
Shut == {"undo", "redo", "open", "queue"}

\* No dialog about the closing of w is open.
NoFrame(g, w) == \A k \in DOMAIN g.stack : g.stack[k].kind = "window" => g.stack[k].window # w

\* AcceptClose of an open window keeps the invariant: its deletion is posted, and the end
\* with the last open window.
LEMMA AcceptCloseFine ==
    ASSUME NEW g, Inv0(g), NEW w \in g.open, NoFrame(g, w), NEW redoing
    PROVE  LET r == AcceptClose(g, w, redoing)
           IN  Inv0(r) /\ Armed(r) /\ Keeps(r, g, Shut)
  <1> DEFINE undone == IF g.tabs[w] = <<>> \/ IsQuick(g, w) THEN g
                       ELSE PushUndo(g, Len(g.tabs[w]), redoing)
             shut == [undone EXCEPT !.open = @ \ {w}]
             closed == Post(shut, "delete window", w, {}, "")
             r == AcceptClose(g, w, redoing)
  <1>1. Typed(g) /\ Living(g) /\ DOMAIN g = Fields
    BY DEF Inv0, Typed
  <1>2. w \in Live(g) /\ w \in Window /\ w \in Nat
    BY <1>1, LiveWindow DEF Living
  <1>3. Keeps(undone, g, {"undo", "redo"}) /\ Inv0(undone)
    <2>1. Len(g.tabs[w]) \in Nat
      BY <1>1, <1>2 DEF Typed
    <2>2. CASE undone = g
      BY <1>1, <2>2 DEF Keeps
    <2>3. CASE undone = PushUndo(g, Len(g.tabs[w]), redoing)
      <3> HIDE DEF undone
      <3> QED BY <1>1, <2>1, <2>3, PushUndoFields, PushUndoBeside, Besides
    <2> QED BY <2>2, <2>3
  <1>4. r = IF g.mode = "now" /\ w \notin g.hidden /\ Seen(closed) = {}
               THEN Post(closed, "quit", App, {}, "") ELSE closed
    BY Zenon DEF AcceptClose
  <1> HIDE DEF undone
  <1>5. /\ DOMAIN undone = Fields /\ undone.open = g.open /\ undone.queue = g.queue
        /\ undone.stack = g.stack
        /\ undone.mode = g.mode
    BY <1>1, <1>3 DEF Keeps, Fields
  <1>6. Keeps(shut, undone, {"open"})
    BY Zenon, <1>5 DEF Keeps, Fields
  <1>7. shut.open = undone.open \ {w}
    BY Zenon, <1>5 DEF Fields
  <1> HIDE DEF shut
  <1>8. DOMAIN shut = Fields /\ shut.queue = g.queue /\ shut.stack = g.stack /\ shut.mode = g.mode
    BY <1>5, <1>6 DEF Keeps, Fields
  <1>9. Posting(closed, shut, "delete window", w, {}, "")
    <2>1. shut.queue \in Seq(Events) /\ shut.stack \in Seq(Frames)
      BY <1>1, <1>8 DEF Typed
    <2>2. "delete window" \in Kinds /\ "" \in Args /\ {} \in SUBSET Surface
      BY DEF Kinds, WindowEvents, Args
    <2> QED BY Zenon, <1>2, <1>8, <2>1, <2>2, Posts
  <1> HIDE DEF closed
  <1>10. /\ DOMAIN closed = Fields /\ closed.open = g.open \ {w} /\ closed.mode = g.mode /\ closed.stack = g.stack
         /\ Keeps(closed, undone, {"open", "queue"})
         /\ Extends(closed.queue, g.queue) /\ New(closed.queue, g.queue) = {Len(g.queue) + 1}
         /\ closed.queue[Len(g.queue) + 1].kind = "delete window"
         /\ closed.queue[Len(g.queue) + 1].window = w
    <2>1. Keeps(closed, shut, {"queue"})
      BY <1>9 DEF Posting
    <2>2. Keeps(closed, undone, {"open", "queue"})
      BY <1>6, <2>1 DEF Keeps
    <2>3. /\ DOMAIN closed = Fields /\ closed.open = g.open \ {w} /\ closed.mode = g.mode
          /\ closed.stack = g.stack
      BY <1>5, <1>7, <1>8, <2>1 DEF Keeps, Fields
    <2>4. /\ closed.queue = Append(g.queue, Event("delete window", w, {}, "", Level(shut, "delete window")))
          /\ Event("delete window", w, {}, "", Level(shut, "delete window")) \in Events
          /\ Extends(closed.queue, g.queue) /\ New(closed.queue, g.queue) = {Len(g.queue) + 1}
          /\ closed.queue[Len(g.queue) + 1] = Event("delete window", w, {}, "", Level(shut, "delete window"))
      BY <1>8, <1>9 DEF Posting
    <2>5. /\ closed.queue[Len(g.queue) + 1].kind = "delete window"
          /\ closed.queue[Len(g.queue) + 1].window = w
      <3> DEFINE e == Event("delete window", w, {}, "", Level(shut, "delete window"))
      <3>1. e.kind = "delete window" /\ e.window = w
        BY DEF Event
      <3>2. closed.queue[Len(g.queue) + 1] = e
        BY <2>4
      <3> HIDE DEF e
      <3> QED BY <3>1, <3>2
    <2> QED BY <2>2, <2>3, <2>4, <2>5
  <1>11. \A k \in DOMAIN undone.stack : undone.stack[k].kind = "window" => undone.stack[k].window # w
    BY <1>5 DEF NoFrame
  <1>12. ASSUME r = closed, ~(g.mode = "now" /\ w \notin g.hidden /\ Seen(closed) = {})
         PROVE  Closing(r, undone, w)
    <2>1. closed.hidden = g.hidden /\ (Hides \/ g.hidden = {})
      BY <1>1, <1>3, <1>10 DEF Keeps, Fields, Typed
    <2>2. Hides \/ ~(g.mode = "now" /\ closed.open = {})
      BY <1>12, <2>1 DEF Seen
    <2> HIDE DEF r
    <2> QED BY <1>5, <1>10, <1>11, <1>12, <2>2 DEF Closing
  <1>13. ASSUME r = Post(closed, "quit", App, {}, "") PROVE Closing(r, undone, w)
    <2>1. Posting(r, closed, "quit", App, {}, "")
      <3> HIDE DEF r
      <3>1. closed.queue \in Seq(Events) /\ closed.stack \in Seq(Frames)
        BY <1>1, <1>10 DEF Extends, Typed
      <3>2. "quit" \in Kinds /\ "" \in Args /\ {} \in SUBSET Surface /\ App \in Nat
        BY DEF App, Kinds, AppEvents, Args
      <3> QED BY Zenon, <1>10, <1>13, <3>1, <3>2, Posts
    <2> HIDE DEF r
    <2> DEFINE d == Event("delete window", w, {}, "", Level(shut, "delete window"))
               e == Event("quit", App, {}, "", Level(closed, "quit"))
               q == r.queue
               p == g.queue
    <2>2. /\ d.kind = "delete window" /\ d.window = w /\ e.kind = "quit" /\ e.window = 0
      BY DEF App, Event
    <2>3. d \in Events /\ e \in Events /\ q = Append(Append(p, d), e)
      BY <1>8, <1>9, <2>1 DEF Posting
    <2> HIDE DEF d, e, q, p
    <2>4. p \in Seq(Events) /\ Len(p) \in Nat
      BY <1>1 DEF Typed, p
    <2>5. /\ Extends(q, p) /\ New(q, p) = {Len(p) + 1, Len(p) + 2} /\ DOMAIN q = 1..(Len(p) + 2)
          /\ q[Len(p) + 1] = d /\ q[Len(p) + 2] = e
      BY <2>3, <2>4, Twice
    <2>7. /\ Len(p) + 1 \in New(q, p)
          /\ q[Len(p) + 1].kind = "delete window" /\ q[Len(p) + 1].window = w
          /\ \A k \in New(q, p) : k # Len(p) + 1 => q[k].kind = "quit" /\ q[k].window = 0
          /\ \E k \in DOMAIN q : q[k].kind = "quit"
      <3>1. Len(p) + 1 \in New(q, p) /\ Len(p) + 2 \in DOMAIN q
        BY <2>4, <2>5
      <3>2. q[Len(p) + 1].kind = "delete window" /\ q[Len(p) + 1].window = w
        BY <2>2, <2>5
      <3>3. q[Len(p) + 2].kind = "quit" /\ q[Len(p) + 2].window = 0
        BY <2>2, <2>5
      <3> QED BY <3>1, <3>2, <3>3, <2>5
    <2>6. Keeps(r, undone, {"open", "queue"}) /\ r.open = g.open \ {w}
      <3>1. Keeps(r, closed, {"queue"})
        BY <2>1 DEF Posting
      <3> QED BY <3>1, <1>10 DEF Keeps, Fields
    <2> QED BY <1>5, <1>11, <2>5, <2>7, <2>6 DEF Closing, q, p
  <1>14. Closing(r, undone, w)
    <2> HIDE DEF r
    <2> QED BY <1>4, <1>12, <1>13
  <1> HIDE DEF r
  <1>15. Keeps(r, g, Shut)
    BY <1>3, <1>14 DEF Closing, Keeps, Shut
  <1> QED BY <1>3, <1>14, <1>15, Closes DEF r

-----------------------------------------------------------------------------
(* SkipClose, Open, Close and the phase.                                   *)

\* A step keeps the invariant.
Fit(r, g) == Inv0(r) /\ (Armed(g) => Armed(r))

\* Steps that keep the invariant: none, two after each other, and one at the side.
LEMMA FitSelf == ASSUME NEW g, Inv0(g) PROVE Fit(g, g)
  BY DEF Fit

\* Two after each other.
LEMMA FitTrans == ASSUME NEW g, NEW h, NEW r, Fit(h, g), Fit(r, h) PROVE Fit(r, g)
  BY DEF Fit

\* One at the side.
LEMMA FitBeside == ASSUME NEW g, NEW r, Inv0(g), Beside(r, g) PROVE Fit(r, g)
  BY Besides DEF Fit

\* The windows that skip their dialog are at the side.
LEMMA SkipChange ==
    ASSUME NEW g, Inv0(g), NEW S, S \subseteq Window, NEW r, r = [g EXCEPT !.skip = S]
    PROVE  Fit(r, g) /\ Keeps(r, g, {"skip"})
  <1>1. DOMAIN g = Fields
    BY DEF Inv0, Typed
  <1>2. Keeps(r, g, {"skip"})
    BY Zenon, <1>1 DEF Keeps, Fields
  <1>3. r.skip = S
    BY Zenon, <1>1 DEF Fields
  <1> DEFINE x == r
  <1>4. Beside(r, g)
    <2>1. Keeps(r, g, Free)
      BY Zenon, <1>2, KeepsMore DEF Free
    <2>2. r.pending = g.pending /\ r.hidden = g.hidden /\ r.running = g.running /\ r.undo = g.undo /\ r.redo = g.redo
      BY Zenon, <1>2 DEF Keeps, Fields
    <2>3. Typed(g)
      BY Zenon DEF Inv0
    <2> QED BY Zenon, <1>3, <2>1, <2>2, <2>3 DEF Beside, Typed
  <1> QED BY Zenon, <1>2, <1>4, FitBeside

\* SkipClose keeps the invariant.
LEMMA SkipCloseFine ==
    ASSUME NEW g, Inv0(g), NEW w, NEW redoing
    PROVE  LET r == SkipClose(g, w, redoing)
           IN  Fit(r, g) /\ Keeps(r, g, Shut \cup {"skip"})
  <1> DEFINE r == SkipClose(g, w, redoing)
             more == [g EXCEPT !.skip = @ \cup {w}]
             less == [g EXCEPT !.skip = @ \ {w}]
  <1>1. Typed(g) /\ Living(g) /\ Framed(g)
    BY DEF Inv0
  <1>2. CASE w \notin g.open
    <2>1. r = g
      BY Zenon, <1>2 DEF SkipClose
    <2> HIDE DEF r
    <2> QED BY <2>1, FitSelf DEF Keeps, r
  <1>3. CASE w \in g.open /\ w \in g.closing
    <2>1. r = more
      BY Zenon, <1>3 DEF SkipClose
    <2>2. more = [g EXCEPT !.skip = g.skip \cup {w}]
      BY Zenon
    <2>3. g.skip \cup {w} \subseteq Window
      BY <1>1, <1>3, LiveWindow DEF Living, Typed
    <2> HIDE DEF r, more
    <2>4. Fit(more, g) /\ Keeps(more, g, {"skip"})
      BY Zenon, <2>2, <2>3, SkipChange
    <2> QED BY <2>1, <2>4 DEF Keeps, r
  <1>4. CASE w \in g.open /\ w \notin g.closing
    <2>1. r = AcceptClose(less, w, redoing)
      BY Zenon, <1>4 DEF SkipClose
    <2>2. less = [g EXCEPT !.skip = g.skip \ {w}]
      BY Zenon
    <2>3. g.skip \ {w} \subseteq Window
      BY <1>1 DEF Typed
    <2> HIDE DEF r, less
    <2>4. Fit(less, g) /\ Keeps(less, g, {"skip"})
      BY Zenon, <2>2, <2>3, SkipChange
    <2>5. less.open = g.open /\ less.stack = g.stack /\ less.closing = g.closing
      BY <2>4 DEF Keeps, Fields
    <2>6. NoFrame(less, w)
      BY <1>1, <1>4, <2>5 DEF NoFrame, Framed
    <2>7. Inv0(r) /\ Armed(r) /\ Keeps(r, less, Shut)
      BY <1>4, <2>1, <2>4, <2>5, <2>6, AcceptCloseFine DEF Fit
    <2>8. Keeps(r, g, Shut \cup {"skip"})
      BY <2>4, <2>7 DEF Keeps
    <2> QED BY <2>7, <2>8 DEF Fit, r
  <1> QED BY <1>2, <1>3, <1>4

\* What Open changes.
LEMMA OpenFields ==
    ASSUME NEW g, DOMAIN g = Fields, NEW kind, NEW w, NEW panes, NEW arg,
           NEW r, r = Open(g, kind, w, panes, arg),
           NEW e, e = [kind |-> kind, window |-> w, panes |-> panes, arg |-> arg]
    PROVE  Keeps(r, g, {"stack"}) /\ r.stack = Append(g.stack, e)
  <1>1. Keeps(r, g, {"stack"})
    BY Zenon DEF Open, Keeps, Fields
  <1>2. r.stack = Append(g.stack, e)
    BY Zenon DEF Open, Fields
  <1> QED BY Zenon, <1>1, <1>2

\* The fields that a nested event loop is about.
LEMMA Stacked ==
    ASSUME NEW g, NEW r, Inv0(g), Keeps(r, g, {"stack", "closing"}),
           r.stack \in Seq(Frames), r.closing \subseteq Window, Framed(r)
    PROVE  Fit(r, g)
  <1>1. /\ r.app = g.app /\ r.windows = g.windows /\ r.open = g.open /\ r.tabs = g.tabs
        /\ r.registered = g.registered /\ r.owner = g.owner /\ r.core = g.core
        /\ r.queue = g.queue /\ r.timer = g.timer /\ r.mode = g.mode /\ r.phase = g.phase
        /\ r.born = g.born /\ r.made = g.made
        /\ r.skip = g.skip /\ r.pending = g.pending /\ r.hidden = g.hidden /\ r.running = g.running /\ r.undo = g.undo
        /\ r.redo = g.redo /\ DOMAIN r = DOMAIN g
    BY DEF Keeps, Fields
  <1>2. Typed(g)
    BY DEF Inv0
  <1>3. Typed(r)
    BY <1>1, <1>2 DEF Typed
  <1>4. Keeps(r, g, Aside)
    <2>1. {"stack", "closing"} \subseteq Aside
      BY DEF Aside
    <2> QED BY <2>1, KeepsMore
  <1> QED BY <1>1, <1>3, <1>4, AsideKept DEF Fit

\* Loops that no closing window waits in may be opened.
LEMMA OpenFine ==
    ASSUME NEW g, Inv0(g), NEW kind \in FrameKinds \ {"window"}, NEW w \in Window,
           NEW panes \in SUBSET Surface, NEW arg \in Seq(Nat)
    PROVE  Fit(Open(g, kind, w, panes, arg), g)
  <1> DEFINE r == Open(g, kind, w, panes, arg)
             e == [kind |-> kind, window |-> w, panes |-> panes, arg |-> arg]
  <1>1. Typed(g) /\ Framed(g) /\ DOMAIN g = Fields
    BY DEF Inv0, Typed
  <1>2. Keeps(r, g, {"stack"}) /\ r.stack = Append(g.stack, e)
    <2>1. /\ r = Open(g, kind, w, panes, arg)
          /\ e = [kind |-> kind, window |-> w, panes |-> panes, arg |-> arg]
      OBVIOUS
    <2> HIDE DEF r, e
    <2> QED BY <1>1, <2>1, OpenFields
  <1> HIDE DEF r
  <1>3. e \in Frames /\ e.kind # "window"
    BY DEF Frames
  <1> HIDE DEF e
  <1>4. r.open = g.open /\ r.closing = g.closing
    BY <1>2 DEF Keeps, Fields
  <1>5. /\ g.stack \in Seq(Frames) /\ r.stack \in Seq(Frames)
        /\ \A i \in DOMAIN r.stack : r.stack[i].kind = "window" =>
              i \in DOMAIN g.stack /\ r.stack[i] = g.stack[i]
    <2>1. g.stack \in Seq(Frames)
      BY <1>1 DEF Typed
    <2> QED BY <1>2, <1>3, <2>1
  <1>6. Framed(r)
    BY <1>1, <1>4, <1>5 DEF Framed
  <1>7. Keeps(r, g, {"stack", "closing"})
    BY <1>2 DEF Keeps
  <1>8. g.closing \subseteq Window
    BY <1>1 DEF Typed
  <1> QED BY <1>4, <1>5, <1>6, <1>7, <1>8, Stacked DEF r

\* A window asks before it closes: it is in closeEvent, and no other dialog is about its closing.
LEMMA AskFine ==
    ASSUME NEW g, Inv0(g), NEW w \in g.open, w \notin g.closing, NEW asked,
           Keeps(asked, g, {"closing"}), asked.closing = g.closing \cup {w},
           NEW r, r = Open(asked, "window", w, {}, <<>>)
    PROVE  Fit(r, g)
  <1> DEFINE e == [kind |-> "window", window |-> w, panes |-> {}, arg |-> <<>>]
  <1>a. Typed(g) /\ Framed(g) /\ Living(g) /\ DOMAIN g = Fields
    BY DEF Inv0, Typed
  <1>b. w \in g.open /\ w \notin g.closing
    OBVIOUS
  <1>c. NoFrame(g, w)
    BY <1>a, <1>b DEF NoFrame, Framed
  <1>d. w \in Window
    BY <1>a, <1>b DEF Typed
  <1>1. asked.stack = g.stack /\ DOMAIN asked = Fields
    BY <1>a DEF Keeps, Fields
  <1>2. Keeps(r, asked, {"stack"}) /\ r.stack = Append(asked.stack, e)
    <2> DEFINE p == {}
               a == <<>>
    <2>1. /\ e = [kind |-> "window", window |-> w, panes |-> p, arg |-> a]
          /\ r = Open(asked, "window", w, p, a)
      OBVIOUS
    <2> HIDE DEF e, p, a
    <2> QED BY <1>1, <2>1, OpenFields
  <1> HIDE DEF e
  <1>5. e \in Frames /\ e.kind = "window" /\ e.window = w
    BY <1>d DEF Frames, FrameKinds, e
  <1>6. Keeps(r, g, {"stack", "closing"})
    BY <1>2 DEF Keeps
  <1>7. r.open = g.open /\ r.closing = g.closing \cup {w} /\ r.stack = Append(g.stack, e)
    BY <1>1, <1>2 DEF Keeps, Fields
  <1>8. /\ g.stack \in Seq(Frames) /\ r.stack \in Seq(Frames)
        /\ \A i \in DOMAIN r.stack : \/ i \in DOMAIN g.stack /\ r.stack[i] = g.stack[i]
                                     \/ i = Len(g.stack) + 1 /\ r.stack[i] = e
    <2>1. g.stack \in Seq(Frames)
      BY <1>a DEF Typed
    <2> QED BY <1>5, <1>7, <2>1
  <1>9. Framed(r)
    <2>1. \A i \in DOMAIN r.stack : r.stack[i].kind = "window" =>
             r.stack[i].window \in r.open \cap r.closing
      BY <1>a, <1>b, <1>5, <1>7, <1>8 DEF Framed
    <2>2. ASSUME NEW i \in DOMAIN r.stack, NEW j \in DOMAIN r.stack,
                 r.stack[i].kind = "window", r.stack[j].kind = "window",
                 r.stack[i].window = r.stack[j].window
          PROVE  i = j
      <3>1. CASE i \in DOMAIN g.stack /\ j \in DOMAIN g.stack
        BY <1>a, <1>7, <1>8, <2>2, <3>1 DEF Framed
      <3>2. CASE i \notin DOMAIN g.stack \/ j \notin DOMAIN g.stack
        <4>1. r.stack[i].window = w
          BY <1>5, <1>8, <2>2, <3>2
        <4>2. i = Len(g.stack) + 1 /\ j = Len(g.stack) + 1
          BY <1>c, <1>8, <2>2, <4>1 DEF NoFrame
        <4> QED BY <4>2
      <3> QED BY <3>1, <3>2
    <2> QED BY <2>1, <2>2 DEF Framed
  <1>10. r.closing \subseteq Window
    BY <1>a, <1>d, <1>7 DEF Typed
  <1> QED BY <1>6, <1>8, <1>9, <1>10, Stacked

\* Close keeps the invariant, whichever way it goes.
LEMMA CloseFine ==
    ASSUME NEW g, Inv0(g), NEW w, NEW r \in Close(g, w)
    PROVE  Fit(r, g)
  <1> DEFINE asked == [g EXCEPT !.closing = @ \cup {w}]
             asking == Open(asked, "window", w, {}, <<>>)
  <1>1. Typed(g) /\ Framed(g) /\ Living(g) /\ DOMAIN g = Fields
    BY DEF Inv0, Typed
  <1>2. CASE w \notin g.open \/ w \in g.closing
    <2>1. r = g
      BY Zenon, <1>2 DEF Close
    <2> QED BY <2>1, FitSelf
  <1>3. CASE w \in g.open /\ w \notin g.closing /\ w \in g.skip
    <2>1. r = SkipClose(g, w, FALSE)
      BY Zenon, <1>3 DEF Close
    <2> QED BY <2>1, SkipCloseFine
  <1>4. CASE w \in g.open /\ w \notin g.closing /\ w \notin g.skip
    <2>1. r \in {AcceptClose(g, w, FALSE), asking}
      BY Zenon, <1>4 DEF Close, Confirmed
    <2>2. NoFrame(g, w)
      BY <1>1, <1>4 DEF NoFrame, Framed
    <2>3. w \in Window
      BY <1>1, <1>4 DEF Typed
    <2>4. CASE r = AcceptClose(g, w, FALSE)
      <3> HIDE DEF asked, asking
      <3> QED BY <1>4, <2>2, <2>4, AcceptCloseFine DEF Fit
    <2>5. CASE r = asking
      <3>1. Keeps(asked, g, {"closing"})
        BY Zenon, <1>1 DEF Keeps, Fields
      <3>2. asked.closing = g.closing \cup {w}
        BY Zenon, <1>1 DEF Fields
      <3>3. r = Open(asked, "window", w, {}, <<>>)
        BY <2>5
      <3> HIDE DEF asked, asking
      <3> QED BY <1>4, <3>1, <3>2, <3>3, AskFine
    <2> QED BY <2>1, <2>4, <2>5
  <1> QED BY <1>2, <1>3, <1>4

\* The phase alone changes.
LEMMA PhaseFields ==
    ASSUME NEW g, DOMAIN g = Fields, NEW p
    PROVE  Keeps([g EXCEPT !.phase = p], g, {"phase"}) /\ [g EXCEPT !.phase = p].phase = p
  <1>1. Keeps([g EXCEPT !.phase = p], g, {"phase"})
    BY Zenon DEF Keeps, Fields
  <1>2. [g EXCEPT !.phase = p].phase = p
    BY Zenon DEF Fields
  <1> QED BY Zenon, <1>1, <1>2

\* An end of the process keeps the invariant.
LEMMA PhaseFine ==
    ASSUME NEW g, Inv0(g), NEW r, Keeps(r, g, {"phase"}), r.phase \in {"quit", "undefined"}
    PROVE  Fit(r, g)
  <1>1. Typed(g) /\ Framed(g)
    BY DEF Inv0
  <1>3. /\ r.app = g.app /\ r.windows = g.windows /\ r.open = g.open /\ r.tabs = g.tabs
        /\ r.registered = g.registered /\ r.owner = g.owner /\ r.core = g.core
        /\ r.queue = g.queue /\ r.timer = g.timer /\ r.mode = g.mode
        /\ r.born = g.born /\ r.made = g.made /\ r.stack = g.stack /\ r.closing = g.closing
        /\ r.skip = g.skip /\ r.pending = g.pending /\ r.hidden = g.hidden /\ r.running = g.running /\ r.undo = g.undo
        /\ r.redo = g.redo /\ DOMAIN r = DOMAIN g
    BY DEF Keeps, Fields
  <1>4. Typed(r)
    BY <1>1, <1>3 DEF Typed
  <1>5. Framed(r)
    BY <1>1, <1>3 DEF Framed
  <1>6. Keeps(r, g, Aside)
    <2>1. {"phase"} \subseteq Aside
      BY DEF Aside
    <2> QED BY <2>1, KeepsMore
  <1> QED BY <1>4, <1>5, <1>6, AsideKept DEF Fit

-----------------------------------------------------------------------------
(* The pages of a window, as sequences.                                    *)

\* Tabs have no pane in common.
Apart(p) == \A i, j \in DOMAIN p : p[i] \cap p[j] # {} => i = j

\* All panes of a sequence of pages.
All(p) == UNION ToSet(p)

\* A pane is in a page, or it is in none.
LEMMA InAll ==
    ASSUME NEW p
    PROVE  \A s : s \in All(p) <=> \E i \in DOMAIN p : s \in p[i]
  <1>1. \A x : x \in ToSet(p) <=> \E i \in DOMAIN p : x = p[i]
    BY DEF ToSet
  <1>2. ASSUME NEW s, s \in All(p) PROVE \E i \in DOMAIN p : s \in p[i]
    BY <1>1, <1>2 DEF All
  <1>3. ASSUME NEW s, NEW i \in DOMAIN p, s \in p[i] PROVE s \in All(p)
    BY <1>1, <1>3 DEF All
  <1> QED BY <1>2, <1>3

\* A sequence of pages without one: the others stay apart.
LEMMA PageGone ==
    ASSUME NEW p \in Seq(Page), Apart(p), NEW i \in DOMAIN p
    PROVE  LET r == RemoveAt(p, i)
           IN  /\ r \in Seq(Page) /\ Apart(r) /\ All(r) = All(p) \ p[i]
               /\ Len(r) = Len(p) - 1
  <1> DEFINE r == RemoveAt(p, i)
  <1>1. i \in 1..Len(p) /\ Len(p) \in Nat /\ DOMAIN p = 1..Len(p) /\ i \in Nat
    OBVIOUS
  <1>2. /\ r \in Seq(Page) /\ Len(r) = Len(p) - 1
        /\ \A k \in 1..(Len(p) - 1) : r[k] = IF k < i THEN p[k] ELSE p[k + 1]
    BY <1>1, RemoveAtPicks
  <1> HIDE DEF r
  <1>3. DOMAIN r = 1..(Len(p) - 1)
    BY <1>1, <1>2
  <1>4. \A k \in DOMAIN r : \/ k < i /\ k \in DOMAIN p /\ r[k] = p[k]
                            \/ k >= i /\ k + 1 \in DOMAIN p /\ r[k] = p[k + 1]
    BY <1>1, <1>2, <1>3
  <1>5. \A k, l \in DOMAIN r : r[k] \cap r[l] # {} => k = l
    <2> SUFFICES ASSUME NEW k \in DOMAIN r, NEW l \in DOMAIN r, r[k] \cap r[l] # {} PROVE k = l
      OBVIOUS
    <2>1. k \in Nat /\ l \in Nat /\ i \in Nat
      BY <1>1, <1>3
    <2>2. CASE k < i /\ k \in DOMAIN p /\ r[k] = p[k] /\ l < i /\ l \in DOMAIN p /\ r[l] = p[l]
      BY <2>2 DEF Apart
    <2>3. CASE k < i /\ k \in DOMAIN p /\ r[k] = p[k] /\ l >= i /\ l + 1 \in DOMAIN p /\ r[l] = p[l + 1]
      <3>1. k = l + 1
        BY <2>3 DEF Apart
      <3> QED BY <2>1, <2>3, <3>1
    <2>4. CASE k >= i /\ k + 1 \in DOMAIN p /\ r[k] = p[k + 1] /\ l < i /\ l \in DOMAIN p /\ r[l] = p[l]
      <3>1. k + 1 = l
        BY <2>4 DEF Apart
      <3> QED BY <2>1, <2>4, <3>1
    <2>5. CASE k >= i /\ k + 1 \in DOMAIN p /\ r[k] = p[k + 1] /\ l >= i /\ l + 1 \in DOMAIN p /\ r[l] = p[l + 1]
      <3>1. k + 1 = l + 1
        BY <2>5 DEF Apart
      <3> QED BY <2>1, <3>1
    <2> QED BY <1>4, <2>2, <2>3, <2>4, <2>5
  <1>6. ASSUME NEW s PROVE s \in All(r) <=> s \in All(p) \ p[i]
    <2>1. ASSUME s \in All(r) PROVE s \in All(p) /\ s \notin p[i]
      <3>1. PICK k \in DOMAIN r : s \in r[k]
        BY <2>1, InAll
      <3>2. PICK m \in DOMAIN p : m # i /\ s \in p[m]
        BY <1>1, <1>3, <1>4, <3>1
      <3>3. s \in p[i] => m = i
        BY <3>2 DEF Apart
      <3> QED BY <3>2, <3>3, InAll
    <2>2. ASSUME s \in All(p), s \notin p[i] PROVE s \in All(r)
      <3>1. PICK m \in DOMAIN p : s \in p[m]
        BY <2>2, InAll
      <3>2. m # i /\ m \in Nat
        BY <2>2, <3>1, <1>1
      <3>3. CASE m < i
        <4>1. m \in DOMAIN r /\ r[m] = p[m]
          BY <1>1, <1>2, <1>3, <3>3
        <4> QED BY <4>1, <3>1, InAll
      <3>4. CASE m > i
        <4>1. m - 1 \in DOMAIN r /\ r[m - 1] = p[m]
          <5>1. m - 1 \in 1..(Len(p) - 1) /\ ~(m - 1 < i) /\ (m - 1) + 1 = m
            BY <1>1, <3>1, <3>4
          <5> QED BY <1>2, <1>3, <5>1
        <4> QED BY <4>1, <3>1, InAll
      <3> QED BY <1>1, <3>2, <3>3, <3>4
    <2> QED BY <2>1, <2>2
  <1> QED BY <1>2, <1>5, <1>6 DEF Apart, r

\* One page more that shares no pane with them.
LEMMA PageComes ==
    ASSUME NEW p \in Seq(Page), Apart(p), NEW page \in Page, page \cap All(p) = {}
    PROVE  LET r == Append(p, page)
           IN  r \in Seq(Page) /\ Apart(r) /\ All(r) = All(p) \cup page
  <1> DEFINE r == Append(p, page)
             n == Len(p) + 1
  <1>1. /\ r \in Seq(Page) /\ DOMAIN r = 1..n /\ DOMAIN p = 1..Len(p) /\ Len(p) \in Nat /\ r[n] = page
        /\ \A k \in DOMAIN p : r[k] = p[k]
    OBVIOUS
  <1>2. \A k \in DOMAIN r : k = n \/ k \in DOMAIN p
    BY <1>1
  <1>3. n \in DOMAIN r /\ DOMAIN p \subseteq DOMAIN r
    BY <1>1
  <1> HIDE DEF r, n
  <1>4. \A k \in DOMAIN p : p[k] \subseteq All(p)
    BY InAll
  <1>5. Apart(r)
    <2> SUFFICES ASSUME NEW k \in DOMAIN r, NEW l \in DOMAIN r, r[k] \cap r[l] # {} PROVE k = l
      BY DEF Apart
    <2>1. CASE k \in DOMAIN p /\ l \in DOMAIN p
      BY <1>1, <2>1 DEF Apart
    <2>2. CASE k = n /\ l \in DOMAIN p
      BY <1>1, <1>4, <2>2
    <2>3. CASE l = n /\ k \in DOMAIN p
      BY <1>1, <1>4, <2>3
    <2> QED BY <1>2, <2>1, <2>2, <2>3
  <1>6. ASSUME NEW s PROVE s \in All(r) <=> s \in All(p) \cup page
    <2>1. s \in All(r) <=> \E k \in DOMAIN r : s \in r[k]
      BY InAll
    <2>2. s \in All(p) <=> \E k \in DOMAIN p : s \in p[k]
      BY InAll
    <2> QED BY <1>1, <1>2, <1>3, <2>1, <2>2
  <1> QED BY <1>1, <1>5, <1>6 DEF r

\* A page is replaced by one that shares no pane with the others.
LEMMA PageChanges ==
    ASSUME NEW p \in Seq(Page), Apart(p), NEW i \in DOMAIN p, NEW page \in Page,
           \A s \in page : s \in p[i] \/ s \notin All(p)
    PROVE  LET r == [p EXCEPT ![i] = page]
           IN  r \in Seq(Page) /\ Apart(r) /\ All(r) = (All(p) \ p[i]) \cup page
  <1> DEFINE r == [p EXCEPT ![i] = page]
  <1>1. /\ r \in Seq(Page) /\ DOMAIN r = DOMAIN p /\ r[i] = page
        /\ \A k \in DOMAIN p : k # i => r[k] = p[k]
    OBVIOUS
  <1> HIDE DEF r
  <1>2. \A k \in DOMAIN p : k # i => page \cap p[k] = {}
    <2> SUFFICES ASSUME NEW k \in DOMAIN p, k # i, NEW s \in page, s \in p[k] PROVE FALSE
      OBVIOUS
    <2>1. s \in All(p)
      BY InAll
    <2>2. s \in p[i]
      BY <2>1
    <2> QED BY <2>2 DEF Apart
  <1>3. Apart(r)
    <2> SUFFICES ASSUME NEW k \in DOMAIN p, NEW l \in DOMAIN p, r[k] \cap r[l] # {}, k # l PROVE FALSE
      BY <1>1 DEF Apart
    <2>1. CASE k = i
      BY <1>1, <1>2, <2>1
    <2>2. CASE l = i
      BY <1>1, <1>2, <2>2
    <2>3. CASE k # i /\ l # i
      BY <1>1, <2>3 DEF Apart
    <2> QED BY <2>1, <2>2, <2>3
  <1>4. ASSUME NEW s PROVE s \in All(r) <=> s \in (All(p) \ p[i]) \cup page
    <2>1. s \in All(r) <=> \E k \in DOMAIN p : s \in r[k]
      BY <1>1, InAll
    <2>2. s \in All(p) <=> \E k \in DOMAIN p : s \in p[k]
      BY InAll
    <2>3. \A k \in DOMAIN p : s \in p[k] /\ s \in p[i] => k = i
      BY DEF Apart
    <2> QED BY <1>1, <2>1, <2>2, <2>3
  <1> QED BY <1>1, <1>3, <1>4 DEF r

-----------------------------------------------------------------------------
(* Pages are trimmed.                                                      *)

\* The fields a removal may change.
Trim == Shut \cup {"skip", "registered", "tabs"}

\* The pages of a window are sets of panes, apart, and all it lists.
LEMMA PagesOf ==
    ASSUME NEW g, Inv0(g), NEW w \in Window
    PROVE  /\ g.tabs[w] \in Seq(Page) /\ Apart(g.tabs[w]) /\ g.registered[w] = All(g.tabs[w])
           /\ g.registered[w] \subseteq Surface
           /\ g.tabs[w] # <<>> => w \in Live(g)
           /\ \A i \in DOMAIN g.tabs[w] : /\ g.tabs[w] # <<>> /\ g.tabs[w][i] \subseteq g.registered[w]
                                          /\ g.tabs[w][i] \in Page
  <1>1. Typed(g) /\ Owning(g) /\ Living(g)
    BY DEF Inv0
  <1>2. g.tabs[w] \in Seq(Page) /\ Apart(g.tabs[w]) /\ g.registered[w] = All(g.tabs[w])
    BY <1>1 DEF Typed, Owning, Apart, All
  <1>3. g.tabs[w] # <<>> => w \in Live(g)
    BY <1>1 DEF Living
  <1>4. g.registered[w] \subseteq Surface
    BY <1>1 DEF Typed
  <1>5. ASSUME NEW i \in DOMAIN g.tabs[w]
        PROVE  g.tabs[w] # <<>> /\ g.tabs[w][i] \subseteq g.registered[w] /\ g.tabs[w][i] \in Page
    <2>1. g.tabs[w] # <<>> /\ g.tabs[w][i] \in Page
      BY <1>2
    <2> QED BY <1>2, <2>1, InAll
  <1> QED BY <1>2, <1>3, <1>4, <1>5

\* No window and the application are the number 0.
LEMMA ZeroNat == 0 \in Nat /\ 0 = NoWindow /\ 0 = App
  BY DEF NoWindow, App

\* A function but for one value.
Swap(f, x, y) == [f EXCEPT ![x] = y]

\* Panes go, and what is left of their window's tabs is p.
LEMMA TrimStep ==
    ASSUME NEW g, Inv0(g), NEW w \in Window, g.tabs[w] # <<>>,
           NEW panes, panes \subseteq g.registered[w],
           NEW p \in Seq(Page), Apart(p), All(p) = g.registered[w] \ panes,
           NEW h, Keeps(h, g, {"registered", "tabs"}),
           h.registered = Swap(g.registered, w, g.registered[w] \ panes),
           h.tabs = Swap(g.tabs, w, p),
           NEW r, Posting(r, h, "delete page", NoWindow, panes, "")
    PROVE  /\ Inv0(r) /\ Armed(r) /\ Keeps(r, g, {"registered", "tabs", "queue"})
           /\ r.tabs = Swap(g.tabs, w, p)
  <1>1. /\ g.tabs \in [Window -> Seq(Page)] /\ g.registered \in [Window -> SUBSET Surface]
        /\ w \in Live(g)
    BY DEF Inv0, Typed, Living
  <1>2. Keeps(r, h, {"queue"}) /\ h.queue = g.queue
    BY DEF Posting, Keeps, Fields
  <1>3. r.tabs = Swap(g.tabs, w, p) /\ r.registered = Swap(g.registered, w, g.registered[w] \ panes)
    BY <1>2 DEF Keeps, Fields
  <1>s. /\ r.tabs = [g.tabs EXCEPT ![w] = p]
        /\ r.registered = [g.registered EXCEPT ![w] = g.registered[w] \ panes]
    BY <1>3 DEF Swap
  <1>4. Keeps(r, g, {"registered", "tabs", "queue"})
    BY <1>2 DEF Keeps
  <1>5. Repaged(r, g, w)
    <2>1. r.tabs \in [Window -> Seq(Page)] /\ r.registered \in [Window -> SUBSET Surface]
      BY <1>1, <1>s
    <2>2. \A v \in Window \ {w} : r.tabs[v] = g.tabs[v] /\ r.registered[v] = g.registered[v]
      BY <1>1, <1>s
    <2>3. r.tabs[w] = p /\ r.registered[w] = All(p)
      BY <1>1, <1>s
    <2> QED BY <1>1, <2>1, <2>2, <2>3 DEF Repaged, All, Apart
  <1>6. r.registered[w] = g.registered[w] \ panes
    BY <1>1, <1>s
  <1>7. /\ Extends(r.queue, g.queue) /\ New(r.queue, g.queue) = {Len(g.queue) + 1}
        /\ r.queue[Len(g.queue) + 1] = Event("delete page", NoWindow, panes, "", Level(h, "delete page"))
    BY <1>2 DEF Posting
  <1>8. /\ r.queue[Len(g.queue) + 1].kind = "delete page" /\ r.queue[Len(g.queue) + 1].window = 0
        /\ r.queue[Len(g.queue) + 1].panes = panes
    <2> DEFINE e == Event("delete page", NoWindow, panes, "", Level(h, "delete page"))
    <2>1. e.kind = "delete page" /\ e.window = 0 /\ e.panes = panes
      BY DEF Event, NoWindow
    <2> HIDE DEF e
    <2> QED BY <1>7, <2>1 DEF e
  <1>9. Removing(r, g, w, panes)
    BY <1>4, <1>5, <1>6, <1>7, <1>8 DEF Removing
  <1> QED BY <1>3, <1>4, <1>9, Removes

\* A window lists less, and its tabs are p.
Trimmed(g, w, panes, p) == [g EXCEPT !.registered[w] = @ \ panes, !.tabs[w] = p]

\* A window is trimmed and the deletion of the panes posted: the invariant stays.
LEMMA TrimFine ==
    ASSUME NEW g, Inv0(g), NEW w \in Window, g.tabs[w] # <<>>,
           NEW panes, panes \subseteq g.registered[w],
           NEW p \in Seq(Page), Apart(p), All(p) = g.registered[w] \ panes,
           NEW h, h = Trimmed(g, w, panes, p),
           NEW r, r = Post(h, "delete page", NoWindow, panes, "")
    PROVE  /\ Inv0(r) /\ Armed(r) /\ Keeps(r, g, {"registered", "tabs", "queue"})
           /\ r.tabs = Swap(g.tabs, w, p)
  <1>1. Typed(g) /\ DOMAIN g = Fields /\ g.queue \in Seq(Events) /\ g.stack \in Seq(Frames)
    BY DEF Inv0, Typed
  <1>2. Keeps(h, g, {"registered", "tabs"})
    BY Zenon, <1>1 DEF Keeps, Fields, Trimmed
  <1>3. h.registered = Swap(g.registered, w, g.registered[w] \ panes)
    BY Zenon, <1>1 DEF Fields, Trimmed, Swap
  <1>4. h.tabs = Swap(g.tabs, w, p)
    BY Zenon, <1>1 DEF Fields, Trimmed, Swap
  <1>5. DOMAIN h = Fields /\ h.queue = g.queue /\ h.stack = g.stack
    BY <1>1, <1>2 DEF Keeps, Fields
  <1>6. panes \in SUBSET Surface
    BY PagesOf
  <1>7. Posting(r, h, "delete page", NoWindow, panes, "")
    <2>1. "delete page" \in Kinds /\ "" \in Args
      BY Zenon DEF Kinds, Args
    <2>2. NoWindow \in Nat
      BY Zenon, ZeroNat
    <2> QED BY <1>1, <1>5, <1>6, <2>1, <2>2, Posts
  <1>8. Inv0(r) /\ Armed(r)
    BY <1>2, <1>3, <1>4, <1>7, TrimStep
  <1>9. Keeps(r, g, {"registered", "tabs", "queue"})
    BY <1>2, <1>3, <1>4, <1>7, TrimStep
  <1>10. r.tabs = Swap(g.tabs, w, p)
    BY <1>4, <1>7 DEF Posting, Keeps, Fields
  <1> QED BY <1>8, <1>9, <1>10

-----------------------------------------------------------------------------
(* RemoveTab, CloseTab and RemoveSurface.                                  *)

\* TabOf finds the page of a pane that the window lists.
LEMMA TabOfFine ==
    ASSUME NEW g, Inv0(g), NEW w \in Window, NEW s
    PROVE  LET i == TabOf(g, w, s)
           IN  /\ s \in g.registered[w] => i \in DOMAIN g.tabs[w] /\ s \in g.tabs[w][i]
               /\ i # 0 => i \in DOMAIN g.tabs[w] /\ s \in g.tabs[w][i]
               /\ i \in Nat
  <1> DEFINE p == g.tabs[w]
             I == {i \in 1..Len(p) : s \in p[i]}
  <1>1. p \in Seq(Page) /\ g.registered[w] = All(p) /\ DOMAIN p = 1..Len(p) /\ Len(p) \in Nat
    BY PagesOf
  <1>2. TabOf(g, w, s) = IF I # {} THEN Min(I) ELSE 0
    BY DEF TabOf, SelectInSeq
  <1> HIDE DEF p
  <1>3. I # {} => Min(I) \in I
    <2>1. I \subseteq Nat
      OBVIOUS
    <2> HIDE DEF I
    <2> QED BY <2>1, LeastOf
  <1>4. s \in All(p) => I # {}
    BY <1>1, InAll
  <1>5. I \subseteq 1..Len(p) /\ \A i \in I : s \in p[i] /\ i # 0 /\ i \in Nat
    BY <1>1
  <1> HIDE DEF I
  <1>6. CASE I = {}
    BY <1>1, <1>2, <1>4, <1>6 DEF p
  <1>7. CASE I # {}
    BY <1>1, <1>2, <1>3, <1>5, <1>7 DEF p
  <1> QED BY <1>6, <1>7

\* RemoveTab keeps the invariant, the close of the window with its last tab included.
LEMMA RemoveTabFine ==
    ASSUME NEW g, Inv0(g), NEW w \in Window, NEW i \in DOMAIN g.tabs[w], NEW redoing
    PROVE  LET r == RemoveTab(g, w, i, g.tabs[w][i], redoing)
           IN  Fit(r, g) /\ Keeps(r, g, Trim)
  <1> DEFINE panes == g.tabs[w][i]
             undone == IF Len(g.tabs[w]) > 1 /\ ~IsQuick(g, w) THEN PushUndo(g, 0, redoing) ELSE g
             p == RemoveAt(undone.tabs[w], i)
             trimmed == Trimmed(undone, w, panes, p)
             gone == Post(trimmed, "delete page", NoWindow, panes, "")
             r == RemoveTab(g, w, i, g.tabs[w][i], redoing)
  <1>1. r = IF gone.tabs[w] = <<>> THEN SkipClose(gone, w, redoing) ELSE gone
    BY Zenon DEF RemoveTab, Trimmed
  <1>2. Inv0(undone) /\ Keeps(undone, g, {"undo", "redo"})
    <2>1. Typed(g)
      BY DEF Inv0
    <2>2. CASE undone = g
      BY <2>2 DEF Keeps
    <2>3. CASE undone = PushUndo(g, 0, redoing)
      <3> HIDE DEF undone
      <3> QED BY <2>1, <2>3, ZeroNat, PushUndoFields, PushUndoBeside, Besides
    <2> QED BY <2>2, <2>3
  <1> HIDE DEF undone, r
  <1>3. undone.tabs = g.tabs /\ undone.registered = g.registered
    BY <1>2 DEF Keeps, Fields
  <1>4. g.tabs[w] \in Seq(Page) /\ Apart(g.tabs[w]) /\ g.registered[w] = All(g.tabs[w])
        /\ g.tabs[w] # <<>> /\ panes \subseteq g.registered[w]
    BY PagesOf
  <1>5. p \in Seq(Page) /\ Apart(p) /\ All(p) = g.registered[w] \ panes
    BY <1>3, <1>4, PageGone
  <1>6. Inv0(gone) /\ Armed(gone) /\ Keeps(gone, undone, {"registered", "tabs", "queue"})
    <2> HIDE DEF p, panes
    <2> QED BY <1>2, <1>3, <1>4, <1>5, TrimFine
  <1> HIDE DEF gone
  <1>7. Keeps(gone, g, Trim)
    BY <1>2, <1>6 DEF Keeps, Trim, Shut
  <1>8. CASE r = gone
    BY <1>6, <1>7, <1>8 DEF Fit, r
  <1>9. CASE r = SkipClose(gone, w, redoing)
    <2>1. Fit(r, gone) /\ Keeps(r, gone, Shut \cup {"skip"})
      BY <1>6, <1>9, SkipCloseFine
    <2>2. Keeps(r, g, Trim)
      BY <2>1, <1>7 DEF Keeps, Trim
    <2> QED BY <1>6, <2>1, <2>2 DEF Fit, r
  <1> QED BY <1>1, <1>8, <1>9

\* CloseTab does.
LEMMA CloseTabFine ==
    ASSUME NEW g, Inv0(g), NEW w \in Window, NEW i, NEW redoing
    PROVE  LET r == CloseTab(g, w, i, redoing) IN Fit(r, g) /\ Keeps(r, g, Trim)
  <1>1. CASE i \in DOMAIN g.tabs[w]
    <2>1. CloseTab(g, w, i, redoing) = RemoveTab(g, w, i, g.tabs[w][i], redoing)
      BY <1>1 DEF CloseTab
    <2> QED BY <1>1, <2>1, RemoveTabFine
  <1>2. CASE i \notin DOMAIN g.tabs[w]
    <2>1. CloseTab(g, w, i, redoing) = g
      BY <1>2 DEF CloseTab
    <2> QED BY <2>1, FitSelf DEF Keeps
  <1> QED BY <1>1, <1>2

\* RemoveSurface does: the rest of the page stays, or the tab goes.
LEMMA RemoveSurfaceFine ==
    ASSUME NEW g, Inv0(g), NEW w \in Window, NEW s
    PROVE  Fit(RemoveSurface(g, w, s), g)
  <1> DEFINE i == TabOf(g, w, s)
             page == g.tabs[w][i] \ {s}
             p == [g.tabs[w] EXCEPT ![i] = page]
             trimmed == Trimmed(g, w, {s}, p)
             gone == Post(trimmed, "delete page", NoWindow, {s}, "")
             r == RemoveSurface(g, w, s)
  <1>1. CASE s \notin g.registered[w]
    <2>1. r = g
      BY Zenon, <1>1 DEF RemoveSurface
    <2> QED BY <2>1, FitSelf
  <1>2. CASE s \in g.registered[w] /\ g.tabs[w][i] = {s}
    <2>1. r = RemoveTab(g, w, i, g.tabs[w][i], FALSE)
      BY Zenon, <1>2 DEF RemoveSurface
    <2>2. i \in DOMAIN g.tabs[w]
      BY <1>2, TabOfFine
    <2> HIDE DEF r, i
    <2> QED BY <2>1, <2>2, RemoveTabFine DEF r
  <1>3. CASE s \in g.registered[w] /\ g.tabs[w][i] # {s}
    <2>1. DOMAIN g = Fields
      BY DEF Inv0, Typed
    <2>2. g.tabs[w] \in Seq(Page) /\ Apart(g.tabs[w]) /\ g.registered[w] = All(g.tabs[w])
      BY PagesOf
    <2>3. i \in DOMAIN g.tabs[w] /\ s \in g.tabs[w][i] /\ g.tabs[w] # <<>>
      BY <1>3, <2>2, TabOfFine
    <2>4. r = gone
      BY Zenon, <1>3, <2>1 DEF RemoveSurface, Trimmed, Fields
    <2> HIDE DEF i, r
    <2>5. page \in Page /\ \A t \in page : t \in g.tabs[w][i]
      <3>1. g.tabs[w][i] \in Page
        BY <2>2, <2>3
      <3> QED BY <1>3, <2>3, <3>1 DEF Page
    <2>6. p \in Seq(Page) /\ Apart(p) /\ All(p) = (All(g.tabs[w]) \ g.tabs[w][i]) \cup page
      <3> HIDE DEF page
      <3> QED BY <2>2, <2>3, <2>5, PageChanges
    <2>7. All(p) = g.registered[w] \ {s}
      <3>1. g.tabs[w][i] \subseteq All(g.tabs[w])
        BY <2>3, InAll
      <3> HIDE DEF p
      <3> QED BY <2>2, <2>3, <2>6, <3>1
    <2>8. {s} \subseteq g.registered[w]
      BY <1>3
    <2>9. Inv0(gone) /\ Armed(gone)
      <3> DEFINE panes == {s}
      <3>1. /\ trimmed = Trimmed(g, w, panes, p)
            /\ gone = Post(trimmed, "delete page", NoWindow, panes, "")
            /\ panes \subseteq g.registered[w] /\ All(p) = g.registered[w] \ panes
        BY <2>7, <2>8
      <3> HIDE DEF panes, p, trimmed, gone
      <3> QED BY <2>3, <2>6, <3>1, TrimFine
    <2> HIDE DEF gone
    <2> QED BY <2>4, <2>9 DEF Fit, r
  <1> QED BY <1>1, <1>2, <1>3

-----------------------------------------------------------------------------
(* CloseTabs, CloseAll and their dialogs.                                  *)

\* With or without a dialog.
LEMMA ConfirmedFine ==
    ASSUME NEW g, NEW a, NEW b, NEW r \in Confirmed(g, a, b)
    PROVE  r = a \/ r = b
  BY DEF Confirmed

\* The function that CloseTabs is the last value of, from its values.
TabsRun(f, g, w, indices) ==
    [n \in 0..Len(indices) |->
        IF n = 0 THEN g ELSE CloseTab(f[n - 1], w, indices[n], FALSE)]

\* There is one.
LEMMA CloseTabsRuns ==
    ASSUME NEW g, NEW w, NEW indices \in Seq(Nat)
    PROVE  \E f : f = TabsRun(f, g, w, indices)
  <1> DEFINE N == Len(indices)
             More(x, n) == CloseTab(x, w, indices[n], FALSE)
             Step(f, n) == IF n = 0 THEN g ELSE More(f[n - 1], n)
             T == {n \in 0..N : \E f : f = [k \in 0..n |-> Step(f, k)]}
  <1>0. N \in Nat
    OBVIOUS
  <1> HIDE DEF N, More
  <1>1. 0..N \subseteq T
    <2>1. 0 \in T
      <3> DEFINE f == [k \in 0..0 |-> g]
      <3>1. f = [k \in 0..0 |-> Step(f, k)]
        OBVIOUS
      <3> HIDE DEF f, Step
      <3> QED BY <3>1, <1>0
    <2>2. ASSUME NEW n \in 1..N, n - 1 \in T PROVE n \in T
      <3>1. PICK f : f = [k \in 0..(n - 1) |-> Step(f, k)]
        BY <2>2
      <3> DEFINE h == [k \in 0..n |-> IF k = n THEN Step(f, n) ELSE f[k]]
      <3>2. \A k \in 0..n : h[k] = Step(h, k)
        <4> TAKE k \in 0..n
        <4>1. CASE k = 0
          <5>1. f[0] = Step(f, 0)
            BY <3>1
          <5>2. 0 # n
            OBVIOUS
          <5> QED BY <4>1, <5>1, <5>2
        <4>2. CASE k # 0
          <5>1. k - 1 \in 0..(n - 1) /\ h[k - 1] = f[k - 1]
            BY <4>2
          <5>2. Step(h, k) = Step(f, k)
            BY <5>1, <4>2
          <5>3. k # n => f[k] = Step(f, k)
            BY <3>1
          <5> QED BY <5>2, <5>3
        <4> QED BY <4>1, <4>2
      <3>3. h = [k \in 0..n |-> Step(h, k)]
        <4> HIDE DEF Step
        <4>1. DOMAIN h = 0..n /\ h = [k \in 0..n |-> h[k]]
          OBVIOUS
        <4> HIDE DEF h
        <4> QED BY <3>2, <4>1
      <3> HIDE DEF h, Step
      <3> QED BY <3>3
    <2> HIDE DEF T
    <2> QED BY <1>0, <2>1, <2>2, Induct
  <1>2. \E f : f = [n \in 0..N |-> Step(f, n)]
    <2> HIDE DEF Step
    <2>1. N \in T
      BY <1>0, <1>1
    <2> QED BY <2>1
  <1> QED BY <1>2 DEF N, More, TabsRun

\* CloseTabs keeps the invariant, one tab after another.
LEMMA CloseTabsFine ==
    ASSUME NEW g, Inv0(g), NEW w \in Window, NEW indices \in Seq(Nat)
    PROVE  Fit(CloseTabs(g, w, indices), g)
  <1> DEFINE N == Len(indices)
             More(x, n) == CloseTab(x, w, indices[n], FALSE)
             after == CHOOSE f : f = [n \in 0..N |-> IF n = 0 THEN g ELSE More(f[n - 1], n)]
             U == {n \in 0..N : Fit(after[n], g)}
  <1>1. N \in Nat
    OBVIOUS
  <1>2. \E f : f = [n \in 0..N |-> IF n = 0 THEN g ELSE More(f[n - 1], n)]
    <2>1. \E f : f = TabsRun(f, g, w, indices)
      BY CloseTabsRuns
    <2> QED BY <2>1 DEF TabsRun
  <1>3. CloseTabs(g, w, indices) = after[N]
    BY DEF CloseTabs
  <1>4. \A x, n : Inv0(x) => Fit(More(x, n), x)
    BY CloseTabFine
  <1> HIDE DEF More, N
  <1>5. after = [n \in 0..N |-> IF n = 0 THEN g ELSE More(after[n - 1], n)]
    BY <1>2
  <1> HIDE DEF after
  <1>6. 0..N \subseteq U
    <2>1. 0 \in U
      <3>1. after[0] = g
        BY <1>1, <1>5
      <3> QED BY <1>1, <3>1, FitSelf
    <2>2. ASSUME NEW n \in 1..N, n - 1 \in U PROVE n \in U
      <3>1. n \in 0..N /\ n # 0
        BY <1>1
      <3>2. after[n] = More(after[n - 1], n)
        BY <1>5, <3>1
      <3>3. Inv0(after[n - 1]) /\ Fit(after[n - 1], g)
        BY <2>2 DEF Fit
      <3>4. Fit(after[n], g)
        BY <1>4, <3>2, <3>3, FitTrans
      <3> QED BY <3>1, <3>4
    <2> HIDE DEF U
    <2> QED BY <1>1, <2>1, <2>2, Induct
  <1> QED BY <1>1, <1>3, <1>6

\* So is CloseAll.
LEMMA CloseAllRuns ==
    ASSUME NEW g, g.windows \in Seq(Window)
    PROVE  \E f : f = [n \in 0..Len(g.windows) |-> IF n = 0 THEN g ELSE SkipClose(f[n - 1], g.windows[n], FALSE)]
  <1> DEFINE N == Len(g.windows)
             More(x, n) == SkipClose(x, g.windows[n], FALSE)
             Step(f, n) == IF n = 0 THEN g ELSE More(f[n - 1], n)
             T == {n \in 0..N : \E f : f = [k \in 0..n |-> Step(f, k)]}
  <1>0. N \in Nat
    OBVIOUS
  <1> HIDE DEF N, More
  <1>1. 0..N \subseteq T
    <2>1. 0 \in T
      <3> DEFINE f == [k \in 0..0 |-> g]
      <3>1. f = [k \in 0..0 |-> Step(f, k)]
        OBVIOUS
      <3> HIDE DEF f, Step
      <3> QED BY <3>1, <1>0
    <2>2. ASSUME NEW n \in 1..N, n - 1 \in T PROVE n \in T
      <3>1. PICK f : f = [k \in 0..(n - 1) |-> Step(f, k)]
        BY <2>2
      <3> DEFINE h == [k \in 0..n |-> IF k = n THEN Step(f, n) ELSE f[k]]
      <3>2. \A k \in 0..n : h[k] = Step(h, k)
        <4> TAKE k \in 0..n
        <4>1. CASE k = 0
          <5>1. f[0] = Step(f, 0)
            BY <3>1
          <5>2. 0 # n
            OBVIOUS
          <5> QED BY <4>1, <5>1, <5>2
        <4>2. CASE k # 0
          <5>1. k - 1 \in 0..(n - 1) /\ h[k - 1] = f[k - 1]
            BY <4>2
          <5>2. Step(h, k) = Step(f, k)
            BY <5>1, <4>2
          <5>3. k # n => f[k] = Step(f, k)
            BY <3>1
          <5> QED BY <5>2, <5>3
        <4> QED BY <4>1, <4>2
      <3>3. h = [k \in 0..n |-> Step(h, k)]
        <4> HIDE DEF Step
        <4>1. DOMAIN h = 0..n /\ h = [k \in 0..n |-> h[k]]
          OBVIOUS
        <4> HIDE DEF h
        <4> QED BY <3>2, <4>1
      <3> HIDE DEF h, Step
      <3> QED BY <3>3
    <2> HIDE DEF T
    <2> QED BY <1>0, <2>1, <2>2, Induct
  <1>2. \E f : f = [n \in 0..N |-> Step(f, n)]
    <2> HIDE DEF Step
    <2>1. N \in T
      BY <1>0, <1>1
    <2> QED BY <2>1
  <1> QED BY <1>2 DEF N, More

\* CloseAll does, one window after another; without windows only the phase may change.
LEMMA CloseAllFine ==
    ASSUME NEW g, Inv0(g), NEW thenQuit
    PROVE  LET r == CloseAll(g, thenQuit)
           IN  /\ Fit(r, g)
               /\ g.windows = <<>> => Keeps(r, g, {"phase"}) /\ r.phase \in {g.phase, "quit"}
  <1> DEFINE N == Len(g.windows)
             More(x, n) == SkipClose(x, g.windows[n], FALSE)
             after == CHOOSE f : f = [n \in 0..N |-> IF n = 0 THEN g ELSE More(f[n - 1], n)]
             U == {n \in 0..N : Fit(after[n], g)}
             closed == after[N]
             quitting == [closed EXCEPT !.phase = "quit"]
             r == CloseAll(g, thenQuit)
  <1>1. N \in Nat /\ DOMAIN g = Fields /\ g.windows \in Seq(Window)
    BY DEF Inv0, Typed
  <1>2. \E f : f = [n \in 0..N |-> IF n = 0 THEN g ELSE More(f[n - 1], n)]
    BY <1>1, CloseAllRuns
  <1>3. r = IF thenQuit \/ g.mode = "now" THEN quitting ELSE closed
    BY Zenon DEF CloseAll
  <1>4. \A x, n : Inv0(x) => Fit(More(x, n), x)
    BY SkipCloseFine
  <1> HIDE DEF More, quitting, r
  <1>5. after = [n \in 0..N |-> IF n = 0 THEN g ELSE More(after[n - 1], n)]
    BY <1>2
  <1> HIDE DEF after
  <1>a. after[0] = g
    BY <1>1, <1>5
  <1>6. 0..N \subseteq U
    <2>1. 0 \in U
      BY <1>1, <1>a, FitSelf
    <2>2. ASSUME NEW n \in 1..N, n - 1 \in U PROVE n \in U
      <3>1. n \in 0..N /\ n # 0
        BY <1>1
      <3>2. after[n] = More(after[n - 1], n)
        BY <1>5, <3>1
      <3>3. Inv0(after[n - 1]) /\ Fit(after[n - 1], g)
        BY <2>2 DEF Fit
      <3>4. Fit(after[n], g)
        BY <1>4, <3>2, <3>3, FitTrans
      <3> QED BY <3>1, <3>4
    <2> HIDE DEF U
    <2> QED BY <1>1, <2>1, <2>2, Induct
  <1>7. g.windows = <<>> => closed = g
    BY <1>a
  <1>8. Fit(closed, g)
    BY <1>1, <1>6
  <1> HIDE DEF closed
  <1>9. Inv0(closed)
    BY <1>8 DEF Fit
  <1>10. DOMAIN closed = Fields
    BY <1>9 DEF Inv0, Typed
  <1>11. CASE r = closed
    BY <1>1, <1>7, <1>8, <1>11 DEF Keeps, r
  <1>12. CASE r = quitting
    <2>1. Keeps(quitting, closed, {"phase"}) /\ quitting.phase = "quit"
      BY Zenon, <1>10, PhaseFields DEF quitting
    <2>2. Fit(r, closed)
      BY <1>9, <1>12, <2>1, PhaseFine
    <2>3. g.windows = <<>> => Keeps(r, g, {"phase"}) /\ r.phase = "quit"
      BY <1>7, <1>12, <2>1
    <2> QED BY <1>8, <2>2, <2>3, FitTrans DEF r
  <1> QED BY <1>3, <1>11, <1>12

\* CloseAllWindows does.
LEMMA CloseAllWindowsFine ==
    ASSUME NEW g, Inv0(g), NEW thenQuit, NEW r \in CloseAllWindows(g, thenQuit)
    PROVE  /\ Fit(r, g)
           /\ g.windows = <<>> => Keeps(r, g, {"phase"}) /\ r.phase \in {g.phase, "quit"}
  <1>1. CASE g.windows = <<>>
    <2>1. r = CloseAll(g, thenQuit)
      BY Zenon, <1>1 DEF CloseAllWindows
    <2> QED BY <2>1, CloseAllFine
  <1>2. CASE g.windows # <<>>
    <2> DEFINE kind == IF thenQuit THEN "quit all" ELSE "all"
               asking == Open(g, kind, g.windows[1], {}, <<>>)
    <2>1. r = CloseAll(g, thenQuit) \/ r = asking
      BY Zenon, <1>2, ConfirmedFine DEF CloseAllWindows
    <2>2. Fit(asking, g)
      <3> DEFINE w == g.windows[1]
                 panes == {}
                 arg == <<>>
      <3>1. kind \in FrameKinds \ {"window"} /\ panes \in SUBSET Surface /\ arg \in Seq(Nat)
        BY DEF FrameKinds
      <3>2. w \in Window
        <4>1. g.windows \in Seq(Window)
          BY DEF Inv0, Typed
        <4> QED BY <1>2, <4>1
      <3>3. asking = Open(g, kind, w, panes, arg)
        OBVIOUS
      <3> HIDE DEF kind, w, panes, arg, asking
      <3> QED BY <3>1, <3>2, <3>3, OpenFine
    <2> HIDE DEF asking
    <2> QED BY <1>2, <2>1, <2>2, CloseAllFine
  <1> QED BY <1>1, <1>2

\* A descending sequence of indices.
LEMMA DownFine ==
    ASSUME NEW n \in Nat, NEW a \in 0..n, NEW b \in Nat \ {0}
    PROVE  [k \in 1..(IF a < b THEN 0 ELSE a - b + 1) |-> a + 1 - k] \in Seq(1..n)
  <1> DEFINE N == IF a < b THEN 0 ELSE a - b + 1
  <1>1. N \in Nat /\ N <= a
    OBVIOUS
  <1> HIDE DEF N
  <1>2. \A k \in 1..N : a + 1 - k \in 1..n
    BY <1>1
  <1> QED BY <1>1, <1>2 DEF N

\* Indices are places of tabs.
LEMMA IndicesFine ==
    ASSUME NEW g, NEW w, g.tabs[w] \in Seq(Page), NEW i \in DOMAIN g.tabs[w],
           NEW tabMode \in {"this", "other", "right"}
    PROVE  /\ Indices(g, w, i, tabMode) \in Seq(Nat)
           /\ \A k \in ToSet(Indices(g, w, i, tabMode)) : k \in DOMAIN g.tabs[w]
  <1> DEFINE n == Len(g.tabs[w])
             D == 1..n
             Down(a, b) == [k \in 1..(IF a < b THEN 0 ELSE a - b + 1) |-> a + 1 - k]
             one == <<i>>
  <1>1. n \in Nat /\ i \in 1..n /\ DOMAIN g.tabs[w] = D /\ D \subseteq Nat
    OBVIOUS
  <1>4. one \in Seq(D)
    BY <1>1
  <1>5. Indices(g, w, i, tabMode) \in {one, Down(n, i + 1), Down(n, i + 1) \o Down(i - 1, 1)}
    BY Zenon DEF Indices
  <1>6. /\ n \in 0..n /\ i - 1 \in 0..n /\ i + 1 \in Nat \ {0} /\ 1 \in Nat \ {0}
    BY <1>1
  <1> HIDE DEF n, one
  <1>2. Down(n, i + 1) \in Seq(D)
    BY <1>1, <1>6, DownFine
  <1>3. Down(i - 1, 1) \in Seq(D)
    BY <1>1, <1>6, DownFine
  <1> HIDE DEF Down
  <1>7. Down(n, i + 1) \o Down(i - 1, 1) \in Seq(D)
    BY <1>2, <1>3, ConcatProperties
  <1>8. Indices(g, w, i, tabMode) \in Seq(D)
    BY <1>2, <1>4, <1>5, <1>7
  <1> DEFINE x == Indices(g, w, i, tabMode)
  <1> HIDE DEF x, D
  <1>9. x \in Seq(Nat) /\ \A k \in ToSet(x) : k \in D
    <2>1. x \in Seq(D)
      BY <1>8 DEF x
    <2>2. x \in Seq(Nat)
      BY <1>1, <2>1
    <2> QED BY <2>1, <2>2 DEF ToSet
  <1> QED BY <1>1, <1>9 DEF x

\* CloseTabsByMode keeps the invariant.
LEMMA CloseTabsByModeFine ==
    ASSUME NEW g, Inv0(g), NEW w \in Window, NEW s, NEW tabMode \in {"this", "other", "right"},
           NEW r \in CloseTabsByMode(g, w, s, tabMode)
    PROVE  Fit(r, g)
  <1> DEFINE i == TabOf(g, w, s)
             indices == Indices(g, w, i, tabMode)
             panes == UNION {g.tabs[w][k] : k \in ToSet(indices)}
             asking == Open(g, "tabs", w, panes, indices)
  <1>1. r = g \/ (i # 0 /\ (r = CloseTabs(g, w, indices) \/ r = asking))
    BY Zenon, ConfirmedFine DEF CloseTabsByMode
  <1>2. CASE r = g
    BY <1>2, FitSelf
  <1>3. CASE i # 0 /\ (r = CloseTabs(g, w, indices) \/ r = asking)
    <2>1. i \in DOMAIN g.tabs[w]
      BY <1>3, TabOfFine
    <2>2. g.tabs[w] \in Seq(Page) /\ \A k \in DOMAIN g.tabs[w] : g.tabs[w][k] \in Page
      BY PagesOf
    <2> HIDE DEF i
    <2>3. indices \in Seq(Nat) /\ \A k \in ToSet(indices) : k \in DOMAIN g.tabs[w]
      BY <2>1, <2>2, IndicesFine
    <2> HIDE DEF indices
    <2>4. panes \in SUBSET Surface
      BY <2>2, <2>3 DEF Page
    <2> HIDE DEF panes
    <2>5. Fit(CloseTabs(g, w, indices), g)
      BY <2>3, CloseTabsFine
    <2>6. Fit(asking, g)
      <3>1. "tabs" \in FrameKinds \ {"window"}
        BY DEF FrameKinds
      <3> QED BY <2>3, <2>4, <3>1, OpenFine
    <2> HIDE DEF asking
    <2> QED BY <1>3, <2>5, <2>6
  <1> QED BY <1>1, <1>2, <1>3

-----------------------------------------------------------------------------
(* NewTab and SplitSurface.                                                *)

\* The fields that a new pane changes.
Growth == {"made", "core", "running", "registered", "owner"}

\* A pane s comes to window w.
Grown(g, w, s) ==
    [g EXCEPT !.made = s, !.core = @ \cup {s}, !.running = @ \cup {s},
              !.registered[w] = @ \cup {s}, !.owner[s] = w]

\* The fields of h, where a pane s came to window w of g.
Growing(h, g, w, s) ==
    /\ Keeps(h, g, Growth)
    /\ h.made = s /\ h.core = g.core \cup {s} /\ h.running = g.running \cup {s}
    /\ h.registered = Swap(g.registered, w, g.registered[w] \cup {s})
    /\ h.owner = Swap(g.owner, s, w)

\* What Grown changes.
LEMMA GrownFields ==
    ASSUME NEW g, DOMAIN g = Fields, NEW w, NEW s, NEW h, h = Grown(g, w, s)
    PROVE  Growing(h, g, w, s)
  <1>1. Keeps(h, g, Growth)
    BY Zenon DEF Grown, Keeps, Fields, Growth
  <1>2. h.made = s
    BY Zenon DEF Grown, Fields
  <1>3. h.core = g.core \cup {s}
    BY Zenon DEF Grown, Fields
  <1>4. h.running = g.running \cup {s}
    BY Zenon DEF Grown, Fields
  <1>5. h.registered = Swap(g.registered, w, g.registered[w] \cup {s})
    BY Zenon DEF Grown, Fields, Swap
  <1>6. h.owner = Swap(g.owner, s, w)
    BY Zenon DEF Grown, Fields, Swap
  <1> QED BY Zenon, <1>1, <1>2, <1>3, <1>4, <1>5, <1>6 DEF Growing

\* A new pane is in no tab yet.
LEMMA Unused ==
    ASSUME NEW g, Inv0(g), g.made # MaxSurfaces, NEW s, s = g.made + 1
    PROVE  s \in Surface /\ \A w \in Window : s \notin g.registered[w]
  <1>1. g.made \in 0..MaxSurfaces /\ Owning(g)
    BY DEF Inv0, Typed
  <1>2. MaxSurfaces \in Nat
    BY WindowsAssumption
  <1> QED BY <1>1, <1>2 DEF Surface, Owning

\* A pane comes, and its window's tabs are now p.
LEMMA GrowStep ==
    ASSUME NEW g, Inv0(g), NEW w \in Live(g), g.made # MaxSurfaces,
           NEW s, s = g.made + 1,
           NEW h, h = Grown(g, w, s),
           NEW q, q = Post(h, "quit timer", App, {}, "stop"),
           NEW p \in Seq(Page), Apart(p), All(p) = g.registered[w] \cup {s},
           NEW r, Keeps(r, q, {"tabs"}), r.tabs = Swap(g.tabs, w, p)
    PROVE  Inv0(r) /\ Armed(r)
  <1>1. /\ DOMAIN g = Fields /\ g.queue \in Seq(Events) /\ g.stack \in Seq(Frames)
        /\ g.tabs \in [Window -> Seq(Page)] /\ g.registered \in [Window -> SUBSET Surface]
        /\ DOMAIN g.owner = Surface /\ g.made \in 0..MaxSurfaces
    BY DEF Inv0, Typed
  <1>2. w \in Window
    BY LiveWindow DEF Inv0
  <1>3. s \in Surface
    BY Unused
  <1>4. /\ Keeps(h, g, Growth)
        /\ h.made = s /\ h.core = g.core \cup {s} /\ h.running = g.running \cup {s}
        /\ h.registered = Swap(g.registered, w, g.registered[w] \cup {s})
        /\ h.owner = Swap(g.owner, s, w)
    <2>1. Growing(h, g, w, s)
      BY <1>1, GrownFields
    <2> QED BY <2>1 DEF Growing
  <1>5. DOMAIN h = Fields /\ h.queue = g.queue /\ h.stack = g.stack
    BY <1>1, <1>4 DEF Keeps, Fields, Growth
  <1> DEFINE none == {}
  <1>6. Posting(q, h, "quit timer", App, none, "stop")
    <2>1. "quit timer" \in Kinds /\ "stop" \in Args /\ none \in SUBSET Surface
      BY DEF Kinds, Args, AppEvents
    <2>2. App \in Nat
      BY ZeroNat
    <2>3. q = Post(h, "quit timer", App, none, "stop")
      OBVIOUS
    <2> HIDE DEF none
    <2> QED BY <1>1, <1>5, <2>1, <2>2, <2>3, Posts
  <1> DEFINE e == Event("quit timer", App, none, "stop", Level(h, "quit timer"))
  <1>7. e.kind = "quit timer" /\ e.window = 0 /\ e.arg = "stop"
    BY DEF Event, App
  <1>8. /\ Keeps(q, h, {"queue"}) /\ Extends(q.queue, g.queue)
        /\ New(q.queue, g.queue) = {Len(g.queue) + 1} /\ q.queue[Len(g.queue) + 1] = e
    BY <1>5, <1>6 DEF Posting
  <1> HIDE DEF e
  <1>9. /\ r.queue = q.queue /\ r.made = s /\ r.core = g.core \cup {s}
        /\ r.running = g.running \cup {s} /\ r.registered = h.registered /\ r.owner = h.owner
    BY <1>4, <1>8 DEF Keeps, Fields
  <1>10. Keeps(r, g, {"made", "core", "running", "registered", "owner", "tabs", "queue"})
    BY <1>4, <1>8 DEF Keeps, Growth
  <1>11. /\ r.registered = [g.registered EXCEPT ![w] = g.registered[w] \cup {s}]
         /\ r.owner = [g.owner EXCEPT ![s] = w] /\ r.tabs = [g.tabs EXCEPT ![w] = p]
    BY <1>4, <1>9 DEF Swap
  <1>12. r.registered[w] = g.registered[w] \cup {s} /\ r.tabs[w] = p
    BY <1>1, <1>2, <1>11
  <1>13. DOMAIN r.owner = Surface /\ \A t \in Surface : r.owner[t] = IF t = s THEN w ELSE g.owner[t]
    BY <1>1, <1>3, <1>11
  <1>14. Repaged(r, g, w)
    <2>1. r.tabs \in [Window -> Seq(Page)]
      BY <1>1, <1>2, <1>11
    <2>2. r.registered \in [Window -> SUBSET Surface]
      BY <1>1, <1>2, <1>3, <1>11
    <2>3. \A v \in Window \ {w} : r.tabs[v] = g.tabs[v] /\ r.registered[v] = g.registered[v]
      BY <1>1, <1>11
    <2>4. r.registered[w] = UNION ToSet(r.tabs[w])
      BY <1>12 DEF All
    <2>5. \A i, j \in DOMAIN r.tabs[w] : r.tabs[w][i] \cap r.tabs[w][j] # {} => i = j
      BY <1>12 DEF Apart
    <2> QED BY <2>1, <2>2, <2>3, <2>4, <2>5 DEF Repaged
  <1>15. Adding(r, g, w)
    BY <1>7, <1>8, <1>9, <1>10, <1>12, <1>13, <1>14 DEF Adding
  <1> QED BY <1>15, Adds

\* NewTab keeps the invariant, and the windows.
LEMMA NewTabFine ==
    ASSUME NEW g, Inv0(g), NEW w \in Live(g)
    PROVE  Fit(NewTab(g, w), g) /\ NewTab(g, w).windows = g.windows
  <1> DEFINE s == g.made + 1
             h == Grown(g, w, s)
             q == AddSurface(g, w)
             r == [q EXCEPT !.tabs[w] = Append(@, {s})]
             p == Append(g.tabs[w], {s})
             page == {s}
  <1>1. NewTab(g, w) = IF g.made = MaxSurfaces THEN g ELSE r
    BY Zenon DEF NewTab
  <1>2. q = Post(h, "quit timer", App, {}, "stop")
    BY Zenon DEF AddSurface, Grown
  <1>3. w \in Window /\ DOMAIN g = Fields
    BY LiveWindow DEF Inv0, Typed
  <1>4. DOMAIN h = Fields /\ h.tabs = g.tabs /\ h.windows = g.windows
    <2> HIDE DEF h
    <2>1. Keeps(h, g, Growth)
      BY <1>3, GrownFields DEF h, Growing
    <2> QED BY <1>3, <2>1 DEF Keeps, Fields, Growth
  <1>5. DOMAIN q = Fields /\ q.tabs = g.tabs /\ q.windows = g.windows
    <2> HIDE DEF h, q
    <2> QED BY Zenon, <1>2, <1>4 DEF Post, Fields
  <1>6. Keeps(r, q, {"tabs"})
    <2> HIDE DEF h, q
    <2> QED BY Zenon, <1>5 DEF Keeps, Fields
  <1>7. r.tabs = Swap(g.tabs, w, p)
    <2> HIDE DEF h, q, s
    <2> QED BY Zenon, <1>5 DEF Fields, Swap
  <1> HIDE DEF h, q, r
  <1>8. CASE g.made = MaxSurfaces
    BY <1>1, <1>8, FitSelf
  <1>9. CASE g.made # MaxSurfaces
    <2>1. s \in Surface /\ s \notin g.registered[w]
      BY <1>3, <1>9, Unused
    <2>2. g.tabs[w] \in Seq(Page) /\ Apart(g.tabs[w]) /\ g.registered[w] = All(g.tabs[w])
      BY <1>3, PagesOf
    <2>3. page \in Page /\ page \cap All(g.tabs[w]) = {}
      BY <2>1, <2>2 DEF Page
    <2>4. p = Append(g.tabs[w], page)
      OBVIOUS
    <2> HIDE DEF page, p
    <2>5. p \in Seq(Page) /\ Apart(p) /\ All(p) = All(g.tabs[w]) \cup page
      BY <2>2, <2>3, <2>4, PageComes
    <2>6. All(p) = g.registered[w] \cup {s}
      BY <2>2, <2>5 DEF page
    <2>7. Inv0(r) /\ Armed(r)
      BY <1>2, <1>6, <1>7, <1>9, <2>5, <2>6, GrowStep DEF h
    <2>8. r.windows = g.windows
      BY <1>5, <1>6 DEF Keeps, Fields
    <2> QED BY <1>1, <1>9, <2>7, <2>8 DEF Fit
  <1> QED BY <1>8, <1>9

\* SplitSurface keeps the invariant.
LEMMA SplitSurfaceFine ==
    ASSUME NEW g, Inv0(g), NEW w \in Live(g), NEW t
    PROVE  Fit(SplitSurface(g, w, t), g)
  <1> DEFINE s == g.made + 1
             i == TabOf(g, w, t)
             page == g.tabs[w][i] \cup {s}
             h == Grown(g, w, s)
             q == AddSurface(g, w)
             r == [q EXCEPT !.tabs[w][i] = @ \cup {s}]
             p == [g.tabs[w] EXCEPT ![i] = page]
  <1>1. SplitSurface(g, w, t) = IF t \notin g.registered[w] \/ g.made = MaxSurfaces THEN g ELSE r
    BY Zenon DEF SplitSurface
  <1>2. q = Post(h, "quit timer", App, {}, "stop")
    BY Zenon DEF AddSurface, Grown
  <1>3. w \in Window /\ DOMAIN g = Fields
    BY LiveWindow DEF Inv0, Typed
  <1>4. DOMAIN h = Fields /\ h.tabs = g.tabs
    <2> HIDE DEF h
    <2>1. Keeps(h, g, Growth)
      BY <1>3, GrownFields DEF h, Growing
    <2> QED BY <1>3, <2>1 DEF Keeps, Fields, Growth
  <1>5. DOMAIN q = Fields /\ q.tabs = g.tabs
    <2> HIDE DEF h, q
    <2> QED BY Zenon, <1>2, <1>4 DEF Post, Fields
  <1>6. Keeps(r, q, {"tabs"})
    <2> HIDE DEF h, q, i
    <2> QED BY Zenon, <1>5 DEF Keeps, Fields
  <1>7. r.tabs = Swap(g.tabs, w, p)
    <2> HIDE DEF h, q, s, i
    <2> QED BY Zenon, <1>5 DEF Fields, Swap
  <1> HIDE DEF h, q, r
  <1>8. CASE t \notin g.registered[w] \/ g.made = MaxSurfaces
    BY <1>1, <1>8, FitSelf
  <1>9. CASE t \in g.registered[w] /\ g.made # MaxSurfaces
    <2>1. s \in Surface /\ s \notin g.registered[w]
      BY <1>3, <1>9, Unused
    <2>2. /\ g.tabs[w] \in Seq(Page) /\ Apart(g.tabs[w]) /\ g.registered[w] = All(g.tabs[w])
          /\ \A j \in DOMAIN g.tabs[w] : g.tabs[w][j] \subseteq g.registered[w] /\ g.tabs[w][j] \in Page
      BY <1>3, PagesOf
    <2>3. i \in DOMAIN g.tabs[w]
      BY <1>3, <1>9, TabOfFine
    <2> HIDE DEF i
    <2>4. page \in Page /\ \A x \in page : x \in g.tabs[w][i] \/ x \notin All(g.tabs[w])
      BY <2>1, <2>2, <2>3 DEF Page
    <2>5. p = [g.tabs[w] EXCEPT ![i] = page]
      OBVIOUS
    <2> HIDE DEF page, p
    <2>6. p \in Seq(Page) /\ Apart(p) /\ All(p) = (All(g.tabs[w]) \ g.tabs[w][i]) \cup page
      BY <2>2, <2>3, <2>4, <2>5, PageChanges
    <2>7. All(p) = g.registered[w] \cup {s}
      BY <2>2, <2>3, <2>6 DEF page
    <2>8. Inv0(r) /\ Armed(r)
      BY <1>2, <1>6, <1>7, <1>9, <2>6, <2>7, GrowStep DEF h
    <2> QED BY <1>1, <1>9, <2>8 DEF Fit
  <1> QED BY <1>8, <1>9

-----------------------------------------------------------------------------
(* NewWindow and ToggleQuickTerminal.                                      *)

\* Initialize makes a window.
LEMMA InitializeMakes ==
    ASSUME NEW g, Inv0(g), g.born < MaxWindows, NEW more, NEW r, r = Initialize(g, more)
    PROVE  Making(r, g)
  <1> DEFINE w == g.born + 1
  <1>1. DOMAIN g = Fields
    BY DEF Inv0, Typed
  <1>2. Keeps(r, g, {"born", "app", "windows", "open", "pending"})
    BY Zenon, <1>1 DEF Initialize, Keeps, Fields
  <1>3. r.born = w
    BY Zenon, <1>1 DEF Initialize, Fields
  <1>4. r.app = TRUE
    BY Zenon, <1>1 DEF Initialize, Fields
  <1>5. r.windows = Append(g.windows, w)
    BY Zenon, <1>1 DEF Initialize, Fields
  <1>6. r.open = g.open \cup {w}
    BY Zenon, <1>1 DEF Initialize, Fields
  <1>7. r.pending = IF more THEN g.pending \cup {w} ELSE g.pending
    BY Zenon, <1>1 DEF Initialize, Fields
  <1>8. r.pending \subseteq g.pending \cup {w}
    BY <1>7
  <1> QED BY <1>2, <1>3, <1>4, <1>5, <1>6, <1>8 DEF Making

\* It keeps the invariant, and the window is live, new and without tabs.
LEMMA InitializeFine ==
    ASSUME NEW g, Inv0(g), g.born < MaxWindows, NEW more
    PROVE  LET r == Initialize(g, more)
           IN  /\ Making(r, g) /\ Fit(r, g) /\ Armed(r)
               /\ g.born + 1 \in Live(r) /\ Live(g) \subseteq Live(r)
               /\ g.born + 1 \in Window /\ g.born + 1 \notin Live(g) /\ r.tabs[g.born + 1] = <<>>
  <1> DEFINE r == Initialize(g, more)
  <1> HIDE DEF r
  <1>1. Making(r, g)
    BY InitializeMakes DEF r
  <1> QED BY <1>1, Makes DEF Fit, r

\* A window that no longer waits for its scale.
LEMMA PendingChange ==
    ASSUME NEW g, Inv0(g), NEW w, NEW r, r = [g EXCEPT !.pending = @ \ {w}]
    PROVE  Beside(r, g)
  <1>1. DOMAIN g = Fields /\ Typed(g)
    BY DEF Inv0, Typed
  <1>2. Keeps(r, g, Free)
    BY Zenon, <1>1 DEF Keeps, Fields, Free
  <1>3. r.pending = g.pending \ {w}
    BY Zenon, <1>1 DEF Fields
  <1>4. r.skip = g.skip /\ r.running = g.running /\ r.undo = g.undo /\ r.redo = g.redo
    BY Zenon, <1>1 DEF Fields
  <1>5. g.pending \ {w} \subseteq Window
    BY Zenon, <1>1 DEF Typed
  <1> QED BY Zenon, <1>1, <1>2, <1>3, <1>4, <1>5 DEF Beside, Typed

\* CreateFirstTab keeps the invariant, and the windows.
LEMMA CreateFirstTabFine ==
    ASSUME NEW g, Inv0(g), NEW w \in Live(g)
    PROVE  LET r == CreateFirstTab(g, w) IN Fit(r, g) /\ Live(r) = Live(g)
  <1> DEFINE h == [g EXCEPT !.pending = @ \ {w}]
             r == CreateFirstTab(g, w)
  <1>1. r = IF w \in g.pending THEN NewTab(h, w) ELSE g
    BY Zenon DEF CreateFirstTab
  <1>2. Beside(h, g)
    BY Zenon, PendingChange
  <1> HIDE DEF h, r
  <1>3. Inv0(h) /\ Fit(h, g) /\ Live(h) = Live(g)
    BY <1>2, Besides, FitBeside
  <1>4. CASE w \in g.pending
    <2>1. Fit(NewTab(h, w), h) /\ Live(NewTab(h, w)) = Live(h)
      BY <1>3, NewTabFine DEF Live
    <2> QED BY <1>1, <1>3, <1>4, <2>1, FitTrans DEF r
  <1>5. CASE w \notin g.pending
    BY <1>1, <1>5, FitSelf DEF r
  <1> QED BY <1>4, <1>5

\* Shown does.
LEMMA ShownFine ==
    ASSUME NEW g, Inv0(g), NEW w \in Live(g), NEW r \in Shown(g, w)
    PROVE  Fit(r, g) /\ Live(r) = Live(g)
  BY CreateFirstTabFine, FitSelf DEF Shown

\* What HandleQuitTimer changes.
LEMMA HandleQuitTimerFields ==
    ASSUME NEW g, DOMAIN g = Fields, g.timer \in BOOLEAN, NEW start \in BOOLEAN,
           NEW r, r = HandleQuitTimer(g, start)
    PROVE  Timing(r, g) /\ r.timer = IF g.mode = "delay" THEN start ELSE g.timer
  <1> DEFINE set == [g EXCEPT !.timer = start]
  <1>1. r = IF g.mode = "delay" THEN set ELSE g
    BY Zenon DEF HandleQuitTimer
  <1>2. Keeps(set, g, {"timer"})
    BY Zenon DEF Keeps, Fields
  <1>3. set.timer = start
    BY Zenon DEF Fields
  <1>4. Keeps(g, g, {"timer"})
    BY Zenon DEF Keeps
  <1> HIDE DEF set
  <1>5. CASE g.mode = "delay"
    BY Zenon, <1>1, <1>2, <1>3, <1>5 DEF Timing
  <1>6. CASE g.mode # "delay"
    BY Zenon, <1>1, <1>4, <1>6 DEF Timing
  <1> QED BY <1>5, <1>6

\* A stop for a window to come keeps all but Armed.
LEMMA StopFine ==
    ASSUME NEW g, Inv0(g), NEW r, r = HandleQuitTimer(g, FALSE)
    PROVE  Inv0(r) /\ Keeps(r, g, {"timer"})
  <1>1. Typed(g) /\ DOMAIN g = Fields /\ g.timer \in BOOLEAN /\ FALSE \in BOOLEAN
    BY Zenon DEF Inv0, Typed
  <1>2. Timing(r, g) /\ r.timer = IF g.mode = "delay" THEN FALSE ELSE g.timer
    BY Zenon, <1>1, HandleQuitTimerFields
  <1>3. Calm(g) /\ Accounted(g) /\ Timed(g)
    BY DEF Inv0, Calm
  <1>4. /\ r.queue = g.queue /\ r.registered = g.registered /\ r.core = g.core /\ r.mode = g.mode
        /\ r.timer => g.timer
    BY <1>2 DEF Timing, Keeps, Fields
  <1>5. Timed(r)
    <2>1. Registered(r) = Registered(g)
      BY <1>4 DEF Registered
    <2>2. NoRequest(r) <=> NoRequest(g)
      BY <1>4 DEF NoRequest
    <2>3. \A i : IsLastRequest(r, i) <=> IsLastRequest(g, i)
      BY <1>4 DEF IsLastRequest
    <2> QED BY <1>3, <1>4, <2>1, <2>2, <2>3 DEF Timed
  <1> QED BY <1>2, <1>3, <1>5, Times DEF Timing

\* NewWindow keeps the invariant, and its window is live.
LEMMA NewWindowFine ==
    ASSUME NEW g, Inv0(g), NEW r \in NewWindow(g)
    PROVE  Fit(r, g) /\ (Room(g) => g.born + 1 \in Live(r))
  <1> DEFINE h == HandleQuitTimer(g, FALSE)
             made == Initialize(h, TRUE)
             w == g.born + 1
  <1>1. IF Room(g) THEN r \in Shown(made, w) ELSE r = g
    BY Zenon DEF NewWindow
  <1> HIDE DEF h, made
  <1>2. Inv0(h) /\ Keeps(h, g, {"timer"})
    BY StopFine DEF h
  <1>3. h.born = g.born
    BY <1>2 DEF Keeps, Fields
  <1>4. CASE ~Room(g)
    BY <1>1, <1>4, FitSelf
  <1>5. CASE Room(g)
    <2>1. h.born < MaxWindows
      BY <1>3, <1>5 DEF Room
    <2>2. Inv0(made) /\ Armed(made) /\ w \in Live(made)
      BY <1>2, <1>3, <2>1, InitializeFine DEF made, Fit
    <2>3. Fit(r, made) /\ Live(r) = Live(made)
      BY <1>1, <1>5, <2>2, ShownFine
    <2> QED BY <2>2, <2>3 DEF Fit
  <1> QED BY <1>4, <1>5

\* Which window is the quick terminal is at the side.
LEMMA QuickChange ==
    ASSUME NEW g, Inv0(g), NEW w, NEW r, r = [g EXCEPT !.quick = w]
    PROVE  Beside(r, g)
  <1>1. DOMAIN g = Fields /\ Typed(g)
    BY DEF Inv0, Typed
  <1>2. Keeps(r, g, Free)
    BY Zenon, <1>1 DEF Keeps, Fields, Free
  <1>4. /\ r.skip = g.skip /\ r.running = g.running /\ r.undo = g.undo /\ r.redo = g.redo
        /\ r.pending = g.pending /\ r.hidden = g.hidden
    BY Zenon, <1>1 DEF Fields
  <1> QED BY Zenon, <1>1, <1>2, <1>4 DEF Beside, Typed

\* Which windows are hidden is at the side.
LEMMA HiddenFine ==
    ASSUME NEW g, Inv0(g), NEW r, Keeps(r, g, {"hidden"}), r.hidden \subseteq Window,
           Hides \/ r.hidden = {}
    PROVE  Fit(r, g)
  <1>1. Keeps(r, g, Aside)
    BY DEF Keeps, Aside
  <1>2. /\ r.windows = g.windows /\ r.open = g.open /\ r.tabs = g.tabs /\ r.registered = g.registered
        /\ r.owner = g.owner /\ r.core = g.core /\ r.queue = g.queue /\ r.timer = g.timer
        /\ r.mode = g.mode /\ r.born = g.born /\ r.made = g.made /\ r.app = g.app
    BY DEF Keeps, Fields
  <1>3. /\ r.closing = g.closing /\ r.skip = g.skip /\ r.pending = g.pending /\ r.running = g.running
        /\ r.stack = g.stack /\ r.undo = g.undo /\ r.redo = g.redo /\ r.phase = g.phase
        /\ DOMAIN r = DOMAIN g
    BY DEF Keeps, Fields
  <1>4. Typed(r)
    BY <1>2, <1>3 DEF Inv0, Typed
  <1>5. Framed(r)
    BY <1>2, <1>3 DEF Inv0, Framed
  <1> QED BY <1>1, <1>3, <1>4, <1>5, AsideKept DEF Fit

\* The windows hidden change, and nothing else.
LEMMA HiddenChange ==
    ASSUME NEW g, DOMAIN g = Fields, NEW H, NEW r, r = [g EXCEPT !.hidden = H]
    PROVE  Keeps(r, g, {"hidden"}) /\ r.hidden = H
  <1>1. Keeps(r, g, {"hidden"})
    BY Zenon DEF Keeps, Fields
  <1>2. r.hidden = H
    BY Zenon DEF Fields
  <1> QED BY Zenon, <1>1, <1>2

\* What Toggled and ToggleVisibility do.
LEMMA ToggledFine ==
    ASSUME NEW g, Inv0(g), NEW w, NEW r, r = Toggled(g, w) \/ r = ToggleVisibility(g)
    PROVE  Fit(r, g) /\ Keeps(r, g, {"hidden"})
  <1>1. DOMAIN g = Fields /\ g.open \subseteq Window /\ g.hidden \subseteq Window
    BY DEF Inv0, Typed
  <1>2. CASE r = g
    BY <1>2, FitSelf DEF Keeps
  <1>3. CASE r # g
    <2> DEFINE H == IF r = ToggleVisibility(g) THEN IF Seen(g) # {} THEN g.open ELSE {}
                    ELSE IF w \in g.hidden THEN g.hidden \ {w} ELSE g.hidden \cup {w}
    <2>1. /\ Hides /\ r = [g EXCEPT !.hidden = H]
          /\ r # ToggleVisibility(g) => w \in g.open
      <3>1. CASE r = ToggleVisibility(g)
        BY Zenon, <1>3, <3>1 DEF ToggleVisibility
      <3>2. CASE r # ToggleVisibility(g)
        BY Zenon, <1>3, <3>2 DEF Toggled
      <3> QED BY Zenon, <3>1, <3>2
    <2>2. H \subseteq Window
      <3>1. CASE r = ToggleVisibility(g)
        BY Zenon, <1>1, <3>1
      <3>2. CASE r # ToggleVisibility(g)
        <4>1. w \in Window
          BY Zenon, <1>1, <2>1, <3>2
        <4> QED BY Zenon, <1>1, <3>2, <4>1
      <3> QED BY Zenon, <3>1, <3>2
    <2> HIDE DEF H
    <2>3. Keeps(r, g, {"hidden"}) /\ r.hidden = H
      BY Zenon, <1>1, <2>1, HiddenChange
    <2> QED BY <2>1, <2>2, <2>3, HiddenFine
  <1> QED BY <1>2, <1>3

\* ToggleQuickTerminal keeps the invariant.
LEMMA ToggleQuickTerminalFine ==
    ASSUME NEW g, Inv0(g), NEW r \in ToggleQuickTerminal(g)
    PROVE  Fit(r, g)
  <1> DEFINE w == g.born + 1
             made == Initialize(g, TRUE)
             quick == [made EXCEPT !.quick = w]
  <1>1. \/ g.quick # NoWindow /\ r = Toggled(g, g.quick)
        \/ ~Room(g) /\ r = g
        \/ g.quick = NoWindow /\ Room(g) /\ r \in Shown(quick, w)
    BY Zenon DEF ToggleQuickTerminal
  <1>2. Inv0(made) => Beside(quick, made)
    <2> HIDE DEF made
    <2> QED BY Zenon, QuickChange
  <1> HIDE DEF made, quick
  <1>3. CASE r = g
    BY <1>3, FitSelf
  <1>5. CASE r = Toggled(g, g.quick)
    BY Zenon, <1>5, ToggledFine
  <1>4. CASE g.quick = NoWindow /\ Room(g) /\ r \in Shown(quick, w)
    <2>1. g.born < MaxWindows
      BY <1>4 DEF Room
    <2>2. Inv0(made) /\ Armed(made) /\ w \in Live(made)
      BY <2>1, InitializeFine DEF made, Fit
    <2>3. Inv0(quick) /\ Armed(quick) /\ w \in Live(quick)
      BY <1>2, <2>2, Besides
    <2>4. Fit(r, quick)
      BY <1>4, <2>3, ShownFine
    <2> QED BY <2>3, <2>4 DEF Fit
  <1> QED BY <1>1, <1>3, <1>4, <1>5

-----------------------------------------------------------------------------
(* AdoptTab and DetachTab.                                                 *)

\* The lists, the owners and the tabs, after a page has changed its window.
ListsMoved(g, src, w, page) == [g.registered EXCEPT ![src] = @ \ page, ![w] = @ \cup page]
OwnersMoved(g, w, page) == [s \in Surface |-> IF s \in page THEN w ELSE g.owner[s]]
TabsMoved(g, src, w, i, page) == [g.tabs EXCEPT ![src] = RemoveAt(@, i), ![w] = Append(@, page)]
Moved(g, src, w, i, page) ==
    [g EXCEPT !.registered[src] = @ \ page, !.registered[w] = @ \cup page,
              !.owner = [s \in Surface |-> IF s \in page THEN w ELSE @[s]],
              !.tabs[src] = RemoveAt(@, i), !.tabs[w] = Append(@, page)]

\* The panes of a page that moves are listed and owned by its new window.
LEMMA MovedFine ==
    ASSUME NEW g, Inv0(g), NEW src \in Window, NEW w \in Live(g), src # w,
           NEW i \in DOMAIN g.tabs[src], NEW page, page = g.tabs[src][i],
           NEW r, r = Moved(g, src, w, i, page)
    PROVE  Inv0(r) /\ Armed(r)
  <1>1. /\ DOMAIN g = Fields
        /\ g.tabs \in [Window -> Seq(Page)] /\ g.registered \in [Window -> SUBSET Surface]
        /\ DOMAIN g.owner = Surface
    BY DEF Inv0, Typed
  <1>2. w \in Window
    BY LiveWindow DEF Inv0
  <1>3. Keeps(r, g, {"registered", "owner", "tabs"})
    BY Zenon, <1>1 DEF Moved, Keeps, Fields
  <1>4. r.registered = ListsMoved(g, src, w, page)
    BY Zenon, <1>1 DEF Moved, ListsMoved, Fields
  <1>5. r.owner = OwnersMoved(g, w, page)
    BY Zenon, <1>1 DEF Moved, OwnersMoved, Fields
  <1>6. r.tabs = TabsMoved(g, src, w, i, page)
    BY Zenon, <1>1 DEF Moved, TabsMoved, Fields
  <1> DEFINE from == RemoveAt(g.tabs[src], i)
             to == Append(g.tabs[w], page)
  <1>7. /\ g.tabs[src] \in Seq(Page) /\ Apart(g.tabs[src]) /\ g.registered[src] = All(g.tabs[src])
        /\ g.tabs[w] \in Seq(Page) /\ Apart(g.tabs[w]) /\ g.registered[w] = All(g.tabs[w])
        /\ page \subseteq g.registered[src] /\ page \in Page /\ page \subseteq Surface
        /\ src \in Live(g)
    <2>1. page \in Page /\ page \subseteq g.registered[src] /\ g.tabs[src] # <<>>
      BY PagesOf
    <2>2. page \subseteq Surface
      BY <2>1 DEF Page
    <2> QED BY <1>2, <2>1, <2>2, PagesOf
  <1>8. page \cap All(g.tabs[w]) = {}
    <2>1. \A s \in g.registered[src] : g.owner[s] = src
      BY DEF Inv0, Owning
    <2>2. \A s \in g.registered[w] : g.owner[s] = w
      BY <1>2 DEF Inv0, Owning
    <2> QED BY <1>7, <2>1, <2>2
  <1>9. from \in Seq(Page) /\ Apart(from) /\ All(from) = g.registered[src] \ page
    BY <1>7, PageGone
  <1>10. to \in Seq(Page) /\ Apart(to) /\ All(to) = g.registered[w] \cup page
    BY <1>7, <1>8, PageComes
  <1>11. /\ r.tabs[src] = from /\ r.tabs[w] = to
         /\ \A v \in Window \ {src, w} : r.tabs[v] = g.tabs[v]
         /\ r.tabs = [v \in Window |-> IF v = src THEN from ELSE IF v = w THEN to ELSE g.tabs[v]]
    <2>1. r.tabs = [v \in Window |-> IF v = src THEN from ELSE IF v = w THEN to ELSE g.tabs[v]]
      <3> HIDE DEF from, to
      <3>1. TabsMoved(g, src, w, i, page) = [[g.tabs EXCEPT ![src] = from] EXCEPT ![w] = to]
        BY <1>1, <1>2 DEF TabsMoved, from, to
      <3> QED BY <1>1, <1>2, <1>6, <3>1
    <2> HIDE DEF from, to
    <2> QED BY <1>2, <2>1
  <1> HIDE DEF from, to
  <1>12. r.tabs \in [Window -> Seq(Page)]
    BY <1>1, <1>9, <1>10, <1>11
  <1>13. /\ r.registered \in [Window -> SUBSET Surface]
         /\ r.registered[src] = g.registered[src] \ page /\ r.registered[w] = g.registered[w] \cup page
         /\ \A v \in Window \ {src, w} : r.registered[v] = g.registered[v]
    BY <1>1, <1>2, <1>4, <1>7 DEF ListsMoved
  <1>14. /\ DOMAIN r.owner = Surface
         /\ \A s \in Surface : r.owner[s] = IF s \in page THEN w ELSE g.owner[s]
    BY <1>5 DEF OwnersMoved
  <1>15. \A v \in {src, w} :
            /\ r.registered[v] = UNION ToSet(r.tabs[v])
            /\ \A j, k \in DOMAIN r.tabs[v] : r.tabs[v][j] \cap r.tabs[v][k] # {} => j = k
    <2>1. r.registered[src] = UNION ToSet(r.tabs[src]) /\ r.registered[w] = UNION ToSet(r.tabs[w])
      BY <1>9, <1>10, <1>11, <1>13 DEF All
    <2>2. /\ \A j, k \in DOMAIN r.tabs[src] : r.tabs[src][j] \cap r.tabs[src][k] # {} => j = k
          /\ \A j, k \in DOMAIN r.tabs[w] : r.tabs[w][j] \cap r.tabs[w][k] # {} => j = k
      BY <1>9, <1>10, <1>11 DEF Apart
    <2> QED BY <2>1, <2>2
  <1>16. Moving(r, g, src, w, page)
    BY <1>3, <1>7, <1>11, <1>12, <1>13, <1>14, <1>15 DEF Moving
  <1> QED BY <1>16, Moves

\* AdoptTab keeps the invariant, the close of a window without tabs included.
LEMMA AdoptTabFine ==
    ASSUME NEW g, Inv0(g), NEW src \in Window, NEW w \in Live(g), src # w,
           NEW i \in DOMAIN g.tabs[src]
    PROVE  Fit(AdoptTab(g, src, w, i), g)
  <1> DEFINE page == g.tabs[src][i]
             moved == Moved(g, src, w, i, page)
             r == AdoptTab(g, src, w, i)
  <1>1. r = moved \/ r = SkipClose(moved, src, FALSE)
    BY Zenon DEF AdoptTab, Moved
  <1> HIDE DEF moved, r
  <1>2. Inv0(moved) /\ Armed(moved)
    BY MovedFine DEF moved
  <1>3. Fit(SkipClose(moved, src, FALSE), moved)
    BY <1>2, SkipCloseFine
  <1> QED BY <1>1, <1>2, <1>3 DEF Fit, r

\* DetachTab does.
LEMMA DetachTabFine ==
    ASSUME NEW g, Inv0(g), NEW w \in Window, NEW i
    PROVE  Fit(DetachTab(g, w, i), g)
  <1> DEFINE h == Initialize(g, FALSE)
             v == g.born + 1
             r == DetachTab(g, w, i)
  <1>1. \/ r = g
        \/ i \in DOMAIN g.tabs[w] /\ g.born # MaxWindows /\ r = AdoptTab(h, w, v, i)
    BY Zenon DEF DetachTab
  <1> HIDE DEF h, r
  <1>2. CASE r = g
    BY <1>2, FitSelf DEF r
  <1>3. CASE i \in DOMAIN g.tabs[w] /\ g.born # MaxWindows /\ r = AdoptTab(h, w, v, i)
    <2>1. g.born < MaxWindows
      <3>1. g.born \in 0..MaxWindows /\ MaxWindows \in Nat
        BY WindowsAssumption DEF Inv0, Typed
      <3> QED BY <1>3, <3>1
    <2>2. Making(h, g) /\ Inv0(h) /\ Armed(h) /\ v \in Live(h) /\ v \notin Live(g)
      BY <2>1, InitializeFine DEF h, Fit
    <2>3. w \in Live(g)
      BY <1>3, PagesOf
    <2>4. h.tabs = g.tabs
      BY <2>2 DEF Making, Keeps, Fields
    <2>5. Fit(r, h)
      BY <1>3, <2>2, <2>3, <2>4, AdoptTabFine
    <2> QED BY <2>2, <2>5 DEF Fit, r
  <1> QED BY <1>1, <1>2, <1>3

-----------------------------------------------------------------------------
(* Undo and redo entries.                                                  *)

\* An entry goes from the undo stack, or from the redo stack, or comes to it.
Undone(g) == [g EXCEPT !.undo = Front(@)]
Redone(g) == [g EXCEPT !.redo = Front(@)]
Redoable(g, e) == [g EXCEPT !.redo = Capped(Append(@, e))]

\* The last entry and the ones before it.
LEMMA LastOf ==
    ASSUME NEW p \in Seq(Nat), p # <<>>
    PROVE  Last(p) \in Nat /\ Front(p) \in Seq(Nat) /\ Len(Front(p)) <= Len(p)
  <1>1. Len(p) \in Nat \ {0}
    OBVIOUS
  <1>2. Last(p) \in Nat
    BY <1>1 DEF Last
  <1>3. Front(p) \in Seq(Nat) /\ Len(Front(p)) = Len(p) - 1
    <2> DEFINE b == Len(p) - 1
    <2>1. 1 \in 1..(Len(p) + 1) /\ b \in 0..Len(p) /\ b \in Nat
      BY <1>1
    <2>2. Front(p) = SubSeq(p, 1, b)
      BY DEF Front
    <2> HIDE DEF b
    <2>3. SubSeq(p, 1, b) \in Seq(Nat) /\ Len(SubSeq(p, 1, b)) = IF 1 <= b THEN b - 1 + 1 ELSE 0
      BY <2>1, SubSeqProperties
    <2>4. Front(p) \in Seq(Nat) /\ Len(Front(p)) = b
      BY <2>1, <2>2, <2>3
    <2> QED BY <2>4 DEF b
  <1> QED BY <1>1, <1>2, <1>3

\* An undo entry is taken.
LEMMA UndoneBeside ==
    ASSUME NEW g, Inv0(g), g.undo # <<>>
    PROVE  Beside(Undone(g), g)
  <1> DEFINE r == Undone(g)
  <1>1. DOMAIN g = Fields /\ Typed(g)
    BY DEF Inv0, Typed
  <1>2. Keeps(r, g, Free)
    BY Zenon, <1>1 DEF Undone, Keeps, Fields, Free
  <1>3. r.undo = Front(g.undo)
    BY Zenon, <1>1 DEF Undone, Fields
  <1>4. r.skip = g.skip /\ r.pending = g.pending /\ r.hidden = g.hidden /\ r.running = g.running /\ r.redo = g.redo
    BY Zenon, <1>1 DEF Undone, Fields
  <1> HIDE DEF r
  <1>5. g.undo \in Seq(Nat) /\ Len(g.undo) <= Cap /\ Cap \in Nat
    BY <1>1, WindowsAssumption DEF Typed
  <1>6. r.undo \in Seq(Nat) /\ Len(r.undo) <= Cap
    <2>1. r.undo \in Seq(Nat) /\ Len(r.undo) <= Len(g.undo)
      BY <1>3, <1>5, LastOf
    <2>2. Len(r.undo) \in Nat /\ Len(g.undo) \in Nat
      BY <1>5, <2>1
    <2> QED BY <1>5, <2>1, <2>2
  <1> QED BY <1>1, <1>2, <1>4, <1>6 DEF Beside, Typed, r

\* A redo entry is taken.
LEMMA RedoneBeside ==
    ASSUME NEW g, Inv0(g), g.redo # <<>>
    PROVE  Beside(Redone(g), g)
  <1> DEFINE r == Redone(g)
  <1>1. DOMAIN g = Fields /\ Typed(g)
    BY DEF Inv0, Typed
  <1>2. Keeps(r, g, Free)
    BY Zenon, <1>1 DEF Redone, Keeps, Fields, Free
  <1>3. r.redo = Front(g.redo)
    BY Zenon, <1>1 DEF Redone, Fields
  <1>4. r.skip = g.skip /\ r.pending = g.pending /\ r.hidden = g.hidden /\ r.running = g.running /\ r.undo = g.undo
    BY Zenon, <1>1 DEF Redone, Fields
  <1> HIDE DEF r
  <1>5. g.redo \in Seq(Nat) /\ Len(g.redo) <= Cap /\ Cap \in Nat
    BY <1>1, WindowsAssumption DEF Typed
  <1>6. r.redo \in Seq(Nat) /\ Len(r.redo) <= Cap
    <2>1. r.redo \in Seq(Nat) /\ Len(r.redo) <= Len(g.redo)
      BY <1>3, <1>5, LastOf
    <2>2. Len(r.redo) \in Nat /\ Len(g.redo) \in Nat
      BY <1>5, <2>1
    <2> QED BY <1>5, <2>1, <2>2
  <1> QED BY <1>1, <1>2, <1>4, <1>6 DEF Beside, Typed, r

\* A redo entry is pushed.
LEMMA RedoableBeside ==
    ASSUME NEW g, Inv0(g), NEW e \in Nat
    PROVE  Beside(Redoable(g, e), g)
  <1> DEFINE r == Redoable(g, e)
  <1>1. DOMAIN g = Fields /\ Typed(g)
    BY DEF Inv0, Typed
  <1>2. Keeps(r, g, Free)
    BY Zenon, <1>1 DEF Redoable, Keeps, Fields, Free
  <1>3. r.redo = Capped(Append(g.redo, e))
    BY Zenon, <1>1 DEF Redoable, Fields
  <1>4. r.skip = g.skip /\ r.pending = g.pending /\ r.hidden = g.hidden /\ r.running = g.running /\ r.undo = g.undo
    BY Zenon, <1>1 DEF Redoable, Fields
  <1> HIDE DEF r
  <1>5. g.redo \in Seq(Nat) /\ Len(g.redo) <= Cap
    BY <1>1 DEF Typed
  <1>6. r.redo \in Seq(Nat) /\ Len(r.redo) <= Cap
    BY <1>3, <1>5, CappedFine
  <1> QED BY <1>1, <1>2, <1>4, <1>6 DEF Beside, Typed, r

\* Events for further tabs of a window.
TabEvents(w, n) == [k \in 1..n |-> Event("new tab", w, {}, "", 0)]
MoreTabs(g, w, n) == [g EXCEPT !.queue = @ \o TabEvents(w, n)]

\* Several events more.
LEMMA Concatenated ==
    ASSUME NEW p \in Seq(Events), NEW q \in Seq(Events)
    PROVE  /\ Extends(p \o q, p)
           /\ \A k \in New(p \o q, p) : \E i \in DOMAIN q : (p \o q)[k] = q[i]
  <1>1. /\ p \o q \in Seq(Events) /\ Len(p \o q) = Len(p) + Len(q)
        /\ Len(p) \in Nat /\ Len(q) \in Nat
    OBVIOUS
  <1>2. \A k \in 1..(Len(p) + Len(q)) : (p \o q)[k] = IF k <= Len(p) THEN p[k] ELSE q[k - Len(p)]
    OBVIOUS
  <1>3. Extends(p \o q, p)
    BY <1>1, <1>2 DEF Extends
  <1>4. ASSUME NEW k \in New(p \o q, p) PROVE \E i \in DOMAIN q : (p \o q)[k] = q[i]
    <2>1. k \in (Len(p) + 1)..(Len(p) + Len(q))
      BY <1>1 DEF New
    <2>2. k - Len(p) \in DOMAIN q /\ (p \o q)[k] = q[k - Len(p)]
      BY <1>1, <1>2, <2>1
    <2> QED BY <2>2
  <1> QED BY <1>3, <1>4

\* New tabs of a live window may be posted.
LEMMA MoreTabsFine ==
    ASSUME NEW g, Inv0(g), NEW w \in Live(g), NEW n \in Nat
    PROVE  Fit(MoreTabs(g, w, n), g)
  <1> DEFINE e == Event("new tab", w, {}, "", 0)
             q == TabEvents(w, n)
             r == MoreTabs(g, w, n)
  <1>1. DOMAIN g = Fields /\ g.queue \in Seq(Events) /\ Typed(g)
    BY DEF Inv0, Typed
  <1>2. Keeps(r, g, {"queue"})
    BY Zenon, <1>1 DEF MoreTabs, Keeps, Fields
  <1>3. r.queue = g.queue \o q
    BY Zenon, <1>1 DEF MoreTabs, Fields
  <1> HIDE DEF r
  <1>4. w \in Nat
    BY <1>1, LiveWindow
  <1>5. e \in Events /\ e.kind = "new tab" /\ e.window = w
    <2> DEFINE none == {}
    <2>1. "new tab" \in Kinds /\ "" \in Args /\ none \in SUBSET Surface /\ 0 \in Nat
      BY DEF Kinds, Args, WindowEvents
    <2>2. e = Event("new tab", w, none, "", 0)
      OBVIOUS
    <2> HIDE DEF none, e
    <2> QED BY <1>4, <2>1, <2>2 DEF Event, Events
  <1>6. q = [k \in 1..n |-> e]
    BY DEF TabEvents
  <1> HIDE DEF e, q
  <1>7. q \in Seq(Events) /\ \A i \in DOMAIN q : q[i] = e
    <2>1. \A x, S : x \in S => [k \in 1..n |-> x] \in Seq(S)
      OBVIOUS
    <2> QED BY <1>5, <1>6, <2>1
  <1>8. /\ Extends(r.queue, g.queue)
        /\ \A k \in New(r.queue, g.queue) : r.queue[k] = e
    <2>1. /\ Extends(g.queue \o q, g.queue)
          /\ \A k \in New(g.queue \o q, g.queue) : \E i \in DOMAIN q : (g.queue \o q)[k] = q[i]
      BY <1>1, <1>7, Concatenated
    <2> QED BY <1>3, <1>7, <2>1
  <1>9. Harmless(g, e)
    <2>1. "new tab" \in WindowEvents /\ "new tab" \notin Openings
      BY DEF WindowEvents, Openings
    <2> QED BY <1>5, <2>1 DEF Harmless, Fine
  <1> QED BY <1>2, <1>8, <1>9, Queued DEF Fit, r

-----------------------------------------------------------------------------
(* UndoLast, RedoLast and HandleApp.                                       *)

\* The elements that Kept keeps.
LEMMA KeptElements ==
    ASSUME NEW S, NEW q \in Seq(S), NEW K, NEW p, p = Kept(q, K)
    PROVE  /\ p \in Seq(S)
           /\ \A k \in DOMAIN p : \E i \in DOMAIN q : p[k] = q[i] /\ q[i] \in K
           /\ \A i \in DOMAIN q : q[i] \in K => \E k \in DOMAIN p : p[k] = q[i]
  <1>1. p \in Seq(S) /\ Picks(p, q, {i \in 1..Len(q) : q[i] \in K})
    BY KeptPicks
  <1>2. PICK m \in [1..Len(p) -> 1..Len(q)] :
           /\ \A k \in 1..Len(p) : p[k] = q[m[k]]
           /\ \A i \in 1..Len(q) : i \in {j \in 1..Len(q) : q[j] \in K} <=> \E k \in 1..Len(p) : m[k] = i
    BY <1>1 DEF Picks
  <1>3. DOMAIN p = 1..Len(p) /\ DOMAIN q = 1..Len(q)
    BY <1>1
  <1>4. ASSUME NEW k \in DOMAIN p PROVE \E i \in DOMAIN q : p[k] = q[i] /\ q[i] \in K
    <2>1. m[k] \in 1..Len(q) /\ p[k] = q[m[k]]
      BY <1>2, <1>3
    <2>2. m[k] \in {j \in 1..Len(q) : q[j] \in K}
      BY <1>2, <1>3, <2>1
    <2> QED BY <1>3, <2>1, <2>2
  <1>5. ASSUME NEW i \in DOMAIN q, q[i] \in K PROVE \E k \in DOMAIN p : p[k] = q[i]
    <2>1. i \in {j \in 1..Len(q) : q[j] \in K}
      BY <1>3, <1>5
    <2>2. PICK k \in 1..Len(p) : m[k] = i
      BY <1>2, <1>3, <2>1
    <2> QED BY <1>2, <1>3, <2>2
  <1> QED BY <1>1, <1>4, <1>5

\* What UndoLast may do.
LEMMA UndoLastCases ==
    ASSUME NEW g, g.windows \in Seq(Window), NEW r \in UndoLast(g)
    PROVE  \/ r = g
           \/ g.undo # <<>> /\ r = Undone(g)
           \/ g.undo # <<>> /\ \E w \in Live(g) : r = Redoable(NewTab(Undone(g), w), Last(g.undo))
           \/ /\ g.undo # <<>> /\ Last(g.undo) # 0 /\ Room(g)
              /\ \E h \in NewWindow(Undone(g)) :
                    r = Redoable(MoreTabs(h, g.born + 1, Last(g.undo) - 1), Last(g.undo))
  <1> DEFINE e == Last(g.undo)
             regular == Kept(g.windows, ToSet(g.windows) \ {g.quick})
             targets == {w \in ToSet(regular) : w \in Seen(g) \/ w = Last(regular)}
  <1>1. CASE g.undo = <<>>
    BY Zenon, <1>1 DEF UndoLast
  <1>2. CASE g.undo # <<>> /\ e = 0
    <2>1. r \in (IF targets = {} THEN {Undone(g)} ELSE {Redoable(NewTab(Undone(g), w), e) : w \in targets})
      BY Zenon, <1>2 DEF UndoLast, Undone, Redoable
    <2>2. targets \subseteq Live(g)
      <3> DEFINE q == g.windows
      <3>1. q \in Seq(Window) /\ regular = Kept(q, ToSet(q) \ {g.quick})
        OBVIOUS
      <3> HIDE DEF q, regular
      <3>2. \A i \in DOMAIN regular : regular[i] \in ToSet(q)
        BY <3>1, KeptElements
      <3>3. ToSet(regular) \subseteq ToSet(q)
        BY <3>2 DEF ToSet
      <3> QED BY <3>3 DEF Live, q
    <2> HIDE DEF targets, regular, e
    <2> QED BY Zenon, <1>2, <2>1, <2>2 DEF e
  <1>3. CASE g.undo # <<>> /\ e # 0
    <2>1. r \in (IF ~Room(g) THEN {Undone(g)}
                 ELSE {Redoable(MoreTabs(h, g.born + 1, e - 1), e) : h \in NewWindow(Undone(g))})
      BY Zenon, <1>3 DEF UndoLast, Undone, Redoable, MoreTabs, TabEvents
    <2> HIDE DEF e
    <2> QED BY Zenon, <1>3, <2>1 DEF e
  <1> QED BY <1>1, <1>2, <1>3

\* UndoLast keeps the invariant: it opens a tab in a live window, or a window.
LEMMA UndoLastFine ==
    ASSUME NEW g, Inv0(g), NEW r \in UndoLast(g)
    PROVE  Fit(r, g)
  <1> DEFINE e == Last(g.undo)
             undone == Undone(g)
  <1>0. Typed(g) /\ g.undo \in Seq(Nat)
    BY DEF Inv0, Typed
  <1>1. CASE r = g
    BY <1>1, FitSelf
  <1>2. ASSUME g.undo # <<>>
        PROVE  /\ Inv0(undone) /\ Fit(undone, g) /\ Live(undone) = Live(g) /\ e \in Nat
               /\ undone.born = g.born /\ undone.made = g.made
    <2>1. Beside(undone, g)
      BY <1>2, UndoneBeside
    <2> HIDE DEF undone
    <2>2. Inv0(undone) /\ Fit(undone, g) /\ Live(undone) = Live(g)
      BY <2>1, Besides DEF Fit
    <2>3. e \in Nat
      BY <1>0, <1>2, LastOf
    <2>4. undone.born = g.born /\ undone.made = g.made
      BY <2>1 DEF Beside, Keeps, Fields, Free
    <2> QED BY <2>2, <2>3, <2>4
  <1> HIDE DEF undone, e
  <1>3. CASE g.undo # <<>> /\ r = undone
    BY <1>2, <1>3
  <1>4. CASE g.undo # <<>> /\ \E w \in Live(g) : r = Redoable(NewTab(undone, w), e)
    <2>1. PICK w \in Live(g) : r = Redoable(NewTab(undone, w), e)
      BY <1>4
    <2>2. Fit(NewTab(undone, w), undone)
      BY <1>2, <1>4, NewTabFine
    <2>3. Inv0(NewTab(undone, w))
      BY <2>2 DEF Fit
    <2>4. Fit(r, NewTab(undone, w))
      BY <1>2, <1>4, <2>1, <2>3, RedoableBeside, FitBeside
    <2> QED BY <1>2, <1>4, <2>2, <2>4, FitTrans
  <1>5. CASE /\ g.undo # <<>> /\ e # 0 /\ Room(g)
             /\ \E h \in NewWindow(undone) : r = Redoable(MoreTabs(h, g.born + 1, e - 1), e)
    <2>1. PICK h \in NewWindow(undone) : r = Redoable(MoreTabs(h, g.born + 1, e - 1), e)
      BY <1>5
    <2>2. Fit(h, undone) /\ g.born + 1 \in Live(h)
      BY <1>2, <1>5, NewWindowFine DEF Room
    <2> DEFINE more == MoreTabs(h, g.born + 1, e - 1)
    <2>3. Inv0(h)
      BY <2>2 DEF Fit
    <2>4. e - 1 \in Nat
      BY <1>2, <1>5
    <2>5. Fit(more, h)
      BY <2>2, <2>3, <2>4, MoreTabsFine
    <2> HIDE DEF more
    <2>6. Inv0(more)
      BY <2>5 DEF Fit
    <2>7. Fit(r, more)
      BY <1>2, <1>5, <2>1, <2>6, RedoableBeside, FitBeside DEF more
    <2> QED BY <1>2, <1>5, <2>2, <2>5, <2>7, FitTrans
  <1>6. g.windows \in Seq(Window)
    BY <1>0 DEF Typed
  <1> QED BY <1>1, <1>3, <1>4, <1>5, <1>6, UndoLastCases DEF undone, e

\* What RedoLast may do.
LEMMA RedoLastCases ==
    ASSUME NEW g, NEW r \in RedoLast(g)
    PROVE  \/ r = g
           \/ /\ g.redo # <<>> /\ Live(g) # {}
              /\ \/ r = Redone(g)
                 \/ \E w \in Live(g) : \E i : r = CloseTab(Redone(g), w, i, TRUE)
                 \/ \E w \in Live(g) : r = SkipClose(Redone(g), w, TRUE)
  <1> DEFINE e == Last(g.redo)
             targets == {w \in ToSet(g.windows) : w \in Seen(g) \/ w = Last(g.windows)}
             redone == Redone(g)
  <1>0. targets \subseteq Live(g)
    BY DEF Live
  <1>1. CASE g.redo = <<>> \/ targets = {}
    BY Zenon, <1>1 DEF RedoLast
  <1>2. CASE g.redo # <<>> /\ targets # {} /\ e = 0
    <2>1. r \in UNION {IF redone.tabs[w] = <<>> THEN {redone}
                       ELSE {CloseTab(redone, w, i, TRUE) : i \in DOMAIN redone.tabs[w]} : w \in targets}
      BY Zenon, <1>2 DEF RedoLast, Redone
    <2> HIDE DEF targets, e, redone
    <2>2. r = redone \/ \E w \in targets : \E i : r = CloseTab(redone, w, i, TRUE)
      <3>1. PICK w \in targets :
               r \in (IF redone.tabs[w] = <<>> THEN {redone}
                      ELSE {CloseTab(redone, w, i, TRUE) : i \in DOMAIN redone.tabs[w]})
        BY Zenon, <2>1
      <3>2. r = redone \/ \E i : r = CloseTab(redone, w, i, TRUE)
        BY Zenon, <3>1
      <3> QED BY Zenon, <3>2
    <2> QED BY Zenon, <1>0, <1>2, <2>2 DEF redone
  <1>3. CASE g.redo # <<>> /\ targets # {} /\ e # 0
    <2>1. r \in {SkipClose(redone, w, TRUE) : w \in targets}
      BY Zenon, <1>3 DEF RedoLast, Redone
    <2> HIDE DEF targets, e, redone
    <2> QED BY Zenon, <1>0, <1>3, <2>1 DEF redone
  <1> QED BY <1>1, <1>2, <1>3

\* RedoLast keeps the invariant, and does nothing without windows.
LEMMA RedoLastFine ==
    ASSUME NEW g, Inv0(g), NEW r \in RedoLast(g)
    PROVE  Fit(r, g) /\ (g.windows = <<>> => r = g)
  <1> DEFINE redone == Redone(g)
  <1>1. CASE r = g
    BY <1>1, FitSelf
  <1>2. CASE r # g
    <2>1. /\ g.redo # <<>> /\ Live(g) # {}
          /\ \/ r = redone
             \/ \E w \in Live(g) : \E i : r = CloseTab(redone, w, i, TRUE)
             \/ \E w \in Live(g) : r = SkipClose(redone, w, TRUE)
      BY Zenon, <1>2, RedoLastCases
    <2>2. Beside(redone, g)
      BY <2>1, RedoneBeside
    <2> HIDE DEF redone
    <2>3. Inv0(redone) /\ Fit(redone, g)
      BY <2>2, Besides DEF Fit
    <2>4. \A w \in Live(g) : w \in Window
      BY LiveWindow DEF Inv0
    <2>8. g.windows # <<>>
      BY <2>1 DEF Live, ToSet
    <2>5. CASE r = redone
      BY <2>3, <2>5, <2>8
    <2>6. CASE \E w \in Live(g) : \E i : r = CloseTab(redone, w, i, TRUE)
      <3>0. PICK w \in Live(g) : \E i : r = CloseTab(redone, w, i, TRUE)
        BY Zenon, <2>6
      <3>1. PICK i : r = CloseTab(redone, w, i, TRUE)
        BY Zenon, <3>0
      <3>2. w \in Window
        BY <2>4
      <3>3. Fit(r, redone)
        BY <2>3, <3>1, <3>2, CloseTabFine
      <3> QED BY <2>3, <2>8, <3>3, FitTrans
    <2>7. CASE \E w \in Live(g) : r = SkipClose(redone, w, TRUE)
      <3>1. PICK w \in Live(g) : r = SkipClose(redone, w, TRUE)
        BY <2>7
      <3>2. Fit(r, redone)
        BY <2>3, <3>1, SkipCloseFine
      <3> QED BY <2>3, <2>8, <3>2, FitTrans
    <2> QED BY <2>1, <2>5, <2>6, <2>7, <2>8
  <1> QED BY <1>1, <1>2

\* What HandleApp may do.
LEMMA HandleAppCases ==
    ASSUME NEW g, NEW e, NEW r \in HandleApp(g, e), e.kind \in AppEvents
    PROVE  \/ e.kind = "new window" /\ r \in NewWindow(g)
           \/ e.kind = "quick terminal" /\ r \in ToggleQuickTerminal(g)
           \/ e.kind = "undo" /\ r \in UndoLast(g)
           \/ e.kind = "redo" /\ r \in RedoLast(g)
           \/ e.kind = "close all" /\ r \in CloseAllWindows(g, e.arg = "quit")
           \/ e.kind = "toggle visibility" /\ r = ToggleVisibility(g)
           \/ e.kind = "quit timer" /\ r = HandleQuitTimer(g, e.arg = "start")
           \/ e.kind = "quit" /\ r = [g EXCEPT !.phase = "quit"]
  BY Zenon DEF HandleApp, AppEvents

\* HandleApp keeps the invariant for every event but the requests of the timer.
LEMMA HandleAppFine ==
    ASSUME NEW g, Inv0(g), NEW e, NEW r \in HandleApp(g, e), e.kind \in AppEvents \ {"quit timer"}
    PROVE  Fit(r, g)
  <1>1. \/ e.kind = "new window" /\ r \in NewWindow(g)
        \/ e.kind = "quick terminal" /\ r \in ToggleQuickTerminal(g)
        \/ e.kind = "undo" /\ r \in UndoLast(g)
        \/ e.kind = "redo" /\ r \in RedoLast(g)
        \/ e.kind = "close all" /\ r \in CloseAllWindows(g, e.arg = "quit")
        \/ e.kind = "toggle visibility" /\ r = ToggleVisibility(g)
        \/ e.kind = "quit" /\ r = [g EXCEPT !.phase = "quit"]
    BY Zenon, HandleAppCases
  <1>2. CASE r \in NewWindow(g)
    BY <1>2, NewWindowFine
  <1>3. CASE r \in ToggleQuickTerminal(g)
    BY <1>3, ToggleQuickTerminalFine
  <1>4. CASE r \in UndoLast(g)
    BY <1>4, UndoLastFine
  <1>5. CASE r \in RedoLast(g)
    BY <1>5, RedoLastFine
  <1>6. CASE r \in CloseAllWindows(g, e.arg = "quit")
    BY Zenon, <1>6, CloseAllWindowsFine
  <1>7. CASE r = [g EXCEPT !.phase = "quit"]
    <2>1. DOMAIN g = Fields
      BY Zenon DEF Inv0, Typed
    <2>2. Keeps(r, g, {"phase"}) /\ r.phase = "quit"
      BY Zenon, <1>7, <2>1, PhaseFields
    <2>3. r.phase \in {"quit", "undefined"}
      BY Zenon, <2>2
    <2> QED BY Zenon, <2>2, <2>3, PhaseFine
  <1>8. CASE r = ToggleVisibility(g)
    BY Zenon, <1>8, ToggledFine
  <1> QED BY Zenon, <1>1, <1>2, <1>3, <1>4, <1>5, <1>6, <1>7, <1>8

-----------------------------------------------------------------------------
(* The event that is due is taken.                                         *)

\* The first event that is due; only deletions wait.
LEMMA DueFine ==
    ASSUME NEW g, g.queue \in Seq(Events), NEW d, d = Due(g), d # 0
    PROVE  /\ d \in DOMAIN g.queue /\ IsDue(g, g.queue[d])
           /\ \A i \in DOMAIN g.queue : i < d => g.queue[i].kind \in Deletions
  <1> DEFINE q == g.queue
             I == {i \in 1..Len(q) : IsDue(g, q[i])}
  <1>1. DOMAIN q = 1..Len(q) /\ Len(q) \in Nat
    OBVIOUS
  <1>2. d = IF I # {} THEN Min(I) ELSE 0
    BY DEF Due, SelectInSeq
  <1> HIDE DEF q
  <1>3. I # {} => Min(I) \in I /\ \A x \in I : Min(I) <= x
    <2>1. I \subseteq Nat
      OBVIOUS
    <2> HIDE DEF I
    <2> QED BY <2>1, LeastOf
  <1>4. d \in I /\ \A x \in I : d <= x
    BY <1>2, <1>3
  <1>5. \A i \in DOMAIN q : i < d => q[i].kind \in Deletions
    <2>1. \A i \in DOMAIN q : i < d => ~IsDue(g, q[i])
      BY <1>1, <1>4
    <2> QED BY <2>1 DEF IsDue
  <1> QED BY <1>1, <1>4, <1>5 DEF q

\* Numbers that differ are in one order.
LEMMA Ordered ==
    /\ \A i, j \in Nat : i # j /\ ~(i < j) => i > j
    /\ \A i, j \in Nat : i > j => i # j
    /\ \A i, j, k \in Nat : i > j /\ j > k => i > k
  OBVIOUS

\* Where an event was before another was taken.
Shift(d, k) == IF k < d THEN k ELSE k + 1

\* What the queue without the event at d is.
Shifting(r, g, d) ==
    /\ d \in Nat /\ \A i \in DOMAIN g.queue : i \in Nat
    /\ \A k \in DOMAIN r.queue : /\ Shift(d, k) \in DOMAIN g.queue /\ Shift(d, k) # d
                                  /\ r.queue[k] = g.queue[Shift(d, k)]
    /\ \A k, l \in DOMAIN r.queue : k < l <=> Shift(d, k) < Shift(d, l)
    /\ \A i \in DOMAIN g.queue : i # d => \E k \in DOMAIN r.queue : Shift(d, k) = i

\* A queue without one event.
LEMMA Shifted ==
    ASSUME NEW g, NEW r, NEW d, Typed(g), Taking(r, g, d)
    PROVE  Shifting(r, g, d)
  <1> DEFINE Q == r.queue
             P == g.queue
  <1>1. P \in Seq(Events) /\ d \in 1..Len(P) /\ d \in Nat /\ d >= 1 /\ d <= Len(P) /\ Len(P) \in Nat
        /\ DOMAIN P = 1..Len(P) /\ Q = RemoveAt(P, d)
    BY DEF Taking, Typed
  <1> HIDE DEF P, Q
  <1>2. Q \in Seq(Events) /\ Len(Q) = Len(P) - 1
        /\ \A k \in 1..(Len(P) - 1) : Q[k] = IF k < d THEN P[k] ELSE P[k + 1]
    BY <1>1, RemoveAtPicks
  <1>3. DOMAIN Q = 1..(Len(P) - 1)
    BY <1>2
  <1>4. ASSUME NEW k \in DOMAIN Q
        PROVE  Shift(d, k) \in DOMAIN P /\ Shift(d, k) # d /\ Q[k] = P[Shift(d, k)]
    BY <1>1, <1>2, <1>3 DEF Shift
  <1>5. \A k, l \in DOMAIN Q : k < l <=> Shift(d, k) < Shift(d, l)
    BY <1>1, <1>3 DEF Shift
  <1>6. ASSUME NEW i \in DOMAIN P, i # d
        PROVE  \E k \in DOMAIN Q : Shift(d, k) = i
    <2>1. CASE i < d
      <3>1. i \in DOMAIN Q /\ Shift(d, i) = i
        BY <1>1, <1>3, <2>1 DEF Shift
      <3> QED BY <3>1
    <2>2. CASE i > d
      <3>1. i - 1 \in DOMAIN Q /\ Shift(d, i - 1) = i
        BY <1>1, <1>3, <2>2 DEF Shift
      <3> QED BY <3>1
    <2> QED BY <1>1, <1>6, <2>1, <2>2
  <1>7. d \in Nat /\ \A i \in DOMAIN P : i \in Nat
    BY <1>1
  <1> QED BY <1>4, <1>5, <1>6, <1>7 DEF P, Q, Shifting

\* An event that no part but Posted is about.
LEMMA PlainTaken ==
    ASSUME NEW g, NEW r, NEW d, Inv0(g), Taking(r, g, d),
           g.queue[d].kind \notin {"quit timer", "quit", "delete page", "delete window"}
    PROVE  Fit(r, g)
  <1>1. Taken(r, g, d)
    BY Takes
  <1>2. /\ Typed(r) /\ Owning(r) /\ Living(r) /\ Posted(r) /\ Framed(r) /\ Opened(r)
        /\ Timed(r) /\ Quitting(r) /\ (Armed(g) => Armed(r))
    BY <1>1 DEF Taken
  <1>3. Deleted(r)
    BY <1>1 DEF Taken, Deleted
  <1>4. Accounted(r)
    BY <1>1 DEF Taken, Accounted
  <1> QED BY <1>2, <1>3, <1>4 DEF Fit, Inv0

\* The end of the process is taken from the queue.
LEMMA QuitTaken ==
    ASSUME NEW g, NEW r, NEW d, Inv0(g), Taking(r, g, d), g.queue[d].kind = "quit",
           NEW h, h = [r EXCEPT !.phase = "quit"]
    PROVE  Fit(h, g)
  <1> DEFINE quit == [g EXCEPT !.phase = "quit"]
  <1>1. DOMAIN g = Fields
    BY Zenon DEF Inv0, Typed
  <1>2. /\ Keeps(r, g, {"queue"}) /\ DOMAIN r = Fields /\ d \in DOMAIN g.queue
        /\ r.queue = RemoveAt(g.queue, d)
    BY Zenon, <1>1 DEF Taking, Keeps
  <1>3. Keeps(quit, g, {"phase"}) /\ quit.phase = "quit"
    BY Zenon, <1>1, PhaseFields
  <1>4. Keeps(h, r, {"phase"}) /\ h.phase = "quit"
    BY Zenon, <1>2, PhaseFields
  <1> DEFINE x == h
  <1>x. x = h
    OBVIOUS
  <1>5. Keeps(x, r, {"phase"}) /\ x.phase = "quit"
    BY Zenon, <1>4
  <1> HIDE DEF quit
  <1>6. Inv0(quit)
    <2>1. quit.phase \in {"quit", "undefined"}
      BY Zenon, <1>3
    <2> QED BY Zenon, <1>3, <2>1, PhaseFine DEF Fit
  <1> HIDE DEF x
  <1>7. quit.queue = g.queue
    BY Zenon, <1>3 DEF Keeps, Fields
  <1>8. Taking(x, quit, d)
    <2>1. x.queue = r.queue
      BY Zenon, <1>5 DEF Keeps, Fields
    <2>2. Keeps(x, quit, {"queue"})
      BY Zenon, <1>2, <1>3, <1>5 DEF Keeps, Fields
    <2> QED BY Zenon, <1>2, <1>7, <2>1, <2>2 DEF Taking
  <1>9. Taken(x, quit, d) /\ quit.queue[d].kind = "quit"
    BY Zenon, <1>6, <1>7, <1>8, Takes
  <1>10. Inv0(x) /\ Armed(x)
    <2>1. x.phase = "quit"
      BY <1>5
    <2> DEFINE y == x
               z == quit
    <2>2. Taken(y, z, d) /\ z.queue[d].kind = "quit" /\ y.phase = "quit"
      BY Zenon, <1>9, <2>1
    <2> HIDE DEF y, z
    <2>3. /\ Typed(y) /\ Owning(y) /\ Living(y) /\ Posted(y) /\ Framed(y) /\ Opened(y) /\ Timed(y)
      BY Zenon, <2>2 DEF Taken
    <2>4. Deleted(y)
      BY Zenon, <2>2 DEF Taken, Deleted
    <2>5. Accounted(y)
      BY Zenon, <2>2 DEF Taken, Accounted
    <2>6. Quitting(y) /\ Armed(y)
      BY Zenon, <2>2 DEF Quitting, Armed
    <2>7. Inv0(y) /\ Armed(y)
      BY Zenon, <2>3, <2>4, <2>5, <2>6 DEF Inv0
    <2> QED BY Zenon, <2>7 DEF y
  <1> QED BY Zenon, <1>10, <1>x DEF Fit

\* The quit timer follows a request.
Requested(h, r, arg) ==
    /\ Timing(h, r)
    /\ r.mode = "delay" => (h.timer <=> arg = "start")
    /\ r.mode # "delay" => h.timer = r.timer

\* HandleQuitTimer follows a request.
LEMMA HandleQuitTimerFine ==
    ASSUME NEW r, DOMAIN r = Fields, r.timer \in BOOLEAN, NEW arg,
           NEW h, h = HandleQuitTimer(r, arg = "start")
    PROVE  Requested(h, r, arg)
  <1>1. (arg = "start") \in BOOLEAN
    OBVIOUS
  <1>2. Timing(h, r) /\ h.timer = IF r.mode = "delay" THEN arg = "start" ELSE r.timer
    BY Zenon, <1>1, HandleQuitTimerFields
  <1>3. CASE r.mode = "delay"
    <2>1. h.timer = (arg = "start")
      BY Zenon, <1>2, <1>3
    <2> QED BY Zenon, <1>2, <1>3, <2>1 DEF Requested
  <1>4. CASE r.mode # "delay"
    BY Zenon, <1>2, <1>4 DEF Requested
  <1> QED BY <1>3, <1>4

\* No event of its kind is before an event.
Foremost(g, d) == \A i \in DOMAIN g.queue : i < d => g.queue[i].kind # g.queue[d].kind

\* The first request to the quit timer is taken and followed.
LEMMA QuitTimerTaken ==
    ASSUME NEW g, NEW r, NEW d, Inv0(g), Taking(r, g, d), g.queue[d].kind = "quit timer",
           Foremost(g, d), NEW h, Requested(h, r, g.queue[d].arg)
    PROVE  Inv0(h) /\ Armed(h)
  <1>1. Typed(g) /\ Timed(g) /\ Posted(g)
    BY DEF Inv0
  <1>2. Taken(r, g, d)
    BY Takes
  <1>3. /\ Typed(r) /\ Owning(r) /\ Living(r) /\ Posted(r) /\ Framed(r) /\ Opened(r) /\ Quitting(r)
        /\ Deleted(r) /\ Accounted(r)
    <2>1. Typed(r) /\ Owning(r) /\ Living(r) /\ Posted(r) /\ Framed(r) /\ Opened(r) /\ Quitting(r)
      BY <1>2 DEF Taken
    <2>2. Deleted(r)
      BY <1>2 DEF Taken, Deleted
    <2>3. Accounted(r)
      BY <1>2 DEF Taken, Accounted
    <2> QED BY <2>1, <2>2, <2>3
  <1>4. /\ Timing(h, r)
        /\ r.mode = "delay" => (h.timer <=> g.queue[d].arg = "start")
        /\ r.mode # "delay" => h.timer = r.timer
    BY DEF Requested
  <1>5. /\ h.queue = r.queue /\ h.registered = g.registered /\ h.core = g.core /\ h.mode = g.mode
        /\ r.mode = g.mode /\ r.timer = g.timer
    BY <1>4 DEF Timing, Taking, Keeps, Fields
  <1>6. d \in DOMAIN g.queue
    BY DEF Taking
  <1>s. Shifting(r, g, d)
    BY <1>1, Shifted
  <1>t. /\ d \in Nat /\ \A i \in DOMAIN g.queue : i \in Nat
        /\ \A k \in DOMAIN r.queue : /\ Shift(d, k) \in DOMAIN g.queue /\ Shift(d, k) # d
                                      /\ r.queue[k] = g.queue[Shift(d, k)]
        /\ \A k, l \in DOMAIN r.queue : k < l <=> Shift(d, k) < Shift(d, l)
        /\ \A i \in DOMAIN g.queue : i # d => \E k \in DOMAIN r.queue : Shift(d, k) = i
    BY <1>s DEF Shifting
  <1>u. \A i \in DOMAIN g.queue : i < d => g.queue[i].kind # "quit timer"
    BY DEF Foremost
  <1>7. Registered(h) = Registered(g)
    BY <1>5 DEF Registered
  <1>8. NoRequest(h) => IsLastRequest(g, d)
    <2> SUFFICES ASSUME NoRequest(h), NEW j \in DOMAIN g.queue, j > d
                 PROVE  g.queue[j].kind # "quit timer"
      BY DEF IsLastRequest
    <2>2. j # d
      BY Zenon, <1>t, Ordered
    <2>3. PICK k \in DOMAIN r.queue : Shift(d, k) = j
      BY <1>t, <2>2
    <2>4. r.queue[k] = g.queue[j]
      BY <1>t, <2>3
    <2> QED BY <1>5, <2>3, <2>4 DEF NoRequest
  <1>9. ASSUME NEW k \in DOMAIN h.queue, IsLastRequest(h, k)
        PROVE  /\ Shift(d, k) \in DOMAIN g.queue /\ h.queue[k] = g.queue[Shift(d, k)]
               /\ IsLastRequest(g, Shift(d, k))
    <2>1. k \in DOMAIN r.queue
      BY <1>5
    <2>i. PICK i : i = Shift(d, k)
      OBVIOUS
    <2>2. i \in DOMAIN g.queue /\ i # d /\ r.queue[k] = g.queue[i]
      BY <1>t, <2>1, <2>i
    <2>3. g.queue[i].kind = "quit timer"
      BY <1>5, <1>9, <2>2 DEF IsLastRequest
    <2>4. \A l \in DOMAIN r.queue : l > k <=> Shift(d, l) > i
      BY <1>t, <2>1, <2>i
    <2>5. d \in Nat /\ i \in Nat
      BY <1>t, <2>2
    <2>6. i > d
      <3>1. ~(i < d)
        BY <1>u, <2>2, <2>3
      <3> QED BY Zenon, <2>2, <2>5, <3>1, Ordered
    <2>7. ASSUME NEW j \in DOMAIN g.queue, j > i PROVE g.queue[j].kind # "quit timer"
      <3>1. j # d
        BY Zenon, <1>t, <2>5, <2>6, <2>7, Ordered
      <3>2. PICK l \in DOMAIN r.queue : Shift(d, l) = j
        BY <1>t, <3>1
      <3>3. r.queue[l] = g.queue[j] /\ l > k
        BY <1>t, <2>4, <2>7, <3>2
      <3> QED BY <1>5, <1>9, <3>3 DEF IsLastRequest
    <2> QED BY <1>5, <2>2, <2>3, <2>7, <2>i DEF IsLastRequest
  <1>10. Timed(h)
    <2>1. h.timer => h.mode = "delay"
      BY <1>1, <1>4, <1>5 DEF Timed
    <2>2. \A k \in DOMAIN h.queue : IsLastRequest(h, k) =>
             /\ Registered(h) # {} => h.queue[k].arg = "stop"
             /\ h.core = {} => h.queue[k].arg = "start"
      <3>1. \A i \in DOMAIN g.queue : IsLastRequest(g, i) =>
               /\ Registered(g) # {} => g.queue[i].arg = "stop"
               /\ g.core = {} => g.queue[i].arg = "start"
        BY Zenon, <1>1 DEF Timed
      <3> QED BY Zenon, <1>5, <1>7, <1>9, <3>1
    <2>3. Registered(h) # {} /\ NoRequest(h) => ~h.timer
      <3>1. Registered(h) # {} /\ NoRequest(h) => g.queue[d].arg = "stop"
        BY <1>1, <1>6, <1>7, <1>8 DEF Timed
      <3> QED BY <1>1, <1>4, <1>5, <3>1 DEF Timed
    <2> QED BY <2>1, <2>2, <2>3 DEF Timed
  <1>11. Armed(h)
    <2>1. h.core = {} /\ NoRequest(h) => g.queue[d].arg = "start"
      BY <1>1, <1>5, <1>6, <1>8 DEF Timed
    <2> QED BY <1>4, <1>5, <2>1 DEF Armed
  <1>12. Calm(r)
    BY <1>3 DEF Calm
  <1> QED BY <1>3, <1>4, <1>10, <1>11, <1>12, Times

-----------------------------------------------------------------------------
(* FreeSurfaces and the deletion of pages.                                 *)

\* The core without some surfaces.
Freed(g, panes) ==
    [g EXCEPT !.core = @ \ panes, !.running = @ \ panes,
              !.owner = [s \in Surface |-> IF s \in panes THEN NoWindow ELSE @[s]]]

\* Panes that no window lists, after which every pane is accounted for.
Freeable(g, panes) ==
    /\ \A v \in Window : panes \cap g.registered[v] = {}
    /\ \A s \in g.core :
          \/ s \in panes
          \/ \E v \in Window : s \in g.registered[v]
          \/ \E i \in DOMAIN g.queue : g.queue[i].kind = "delete page" /\ s \in g.queue[i].panes

\* The fields of h, where panes of g were freed.
FreedFields(h, g, panes) ==
    /\ Keeps(h, g, {"core", "running", "owner"})
    /\ h.core = g.core \ panes /\ h.running = g.running \ panes
    /\ DOMAIN h.owner = Surface
    /\ \A s \in Surface : s \notin panes => h.owner[s] = g.owner[s]

\* What Freed changes.
LEMMA FreedFine ==
    ASSUME NEW g, DOMAIN g = Fields, NEW panes, NEW h, h = Freed(g, panes)
    PROVE  FreedFields(h, g, panes)
  <1> DEFINE owner == [s \in Surface |-> IF s \in panes THEN NoWindow ELSE g.owner[s]]
  <1>1. Keeps(h, g, {"core", "running", "owner"})
    BY Zenon DEF Freed, Keeps, Fields
  <1>2. h.core = g.core \ panes
    BY Zenon DEF Freed, Fields
  <1>3. h.running = g.running \ panes
    BY Zenon DEF Freed, Fields
  <1>4. h.owner = owner
    BY Zenon DEF Freed, Fields
  <1>5. DOMAIN h.owner = Surface /\ \A s \in Surface : s \notin panes => h.owner[s] = g.owner[s]
    BY <1>4
  <1> QED BY <1>1, <1>2, <1>3, <1>5 DEF FreedFields

\* FreeSurfaces frees surfaces.
LEMMA FreeSurfacesFreeing ==
    ASSUME NEW g, Typed(g), NEW panes, Freeable(g, panes), NEW r, r = FreeSurfaces(g, panes)
    PROVE  Freeing(r, g, panes)
  <1> DEFINE h == Freed(g, panes)
             q == Post(h, "quit timer", App, {}, "start")
  <1>1. r = IF panes \cap g.core # {} /\ h.core = {} THEN q ELSE h
    BY Zenon DEF FreeSurfaces, Freed
  <1>2. /\ DOMAIN g = Fields /\ g.queue \in Seq(Events) /\ g.stack \in Seq(Frames)
    BY DEF Typed
  <1> HIDE DEF h
  <1>3. FreedFields(h, g, panes)
    BY <1>2, FreedFine DEF h
  <1>4. /\ Keeps(h, g, {"core", "running", "owner"})
        /\ h.core = g.core \ panes /\ h.running = g.running \ panes
        /\ DOMAIN h.owner = Surface
        /\ \A s \in Surface : s \notin panes => h.owner[s] = g.owner[s]
    BY <1>3 DEF FreedFields
  <1>5. DOMAIN h = Fields /\ h.queue = g.queue /\ h.stack = g.stack
    BY <1>2, <1>4 DEF Keeps, Fields
  <1>6. /\ \A v \in Window : panes \cap g.registered[v] = {}
        /\ \A s \in g.core :
              \/ s \in panes
              \/ \E v \in Window : s \in g.registered[v]
              \/ \E i \in DOMAIN g.queue : g.queue[i].kind = "delete page" /\ s \in g.queue[i].panes
    BY DEF Freeable
  <1>7. CASE r = h /\ ~(panes \cap g.core # {} /\ h.core = {})
    <2>1. /\ Extends(r.queue, g.queue) /\ New(r.queue, g.queue) = {}
      <3>1. Len(g.queue) \in Nat /\ r.queue = g.queue
        BY <1>2, <1>5, <1>7
      <3> QED BY <1>2, <3>1 DEF Extends, New
    <2>2. Keeps(r, g, {"core", "running", "owner", "queue"})
      BY <1>4, <1>7 DEF Keeps
    <2> QED BY <1>4, <1>6, <1>7, <2>1, <2>2 DEF Freeing
  <1>8. CASE r = q /\ panes \cap g.core # {} /\ h.core = {}
    <2> DEFINE none == {}
               e == Event("quit timer", App, none, "start", Level(h, "quit timer"))
    <2>1. Posting(q, h, "quit timer", App, none, "start")
      <3>1. "quit timer" \in Kinds /\ "start" \in Args /\ none \in SUBSET Surface
        BY DEF Kinds, Args, AppEvents
      <3>2. App \in Nat
        BY ZeroNat
      <3>3. q = Post(h, "quit timer", App, none, "start")
        OBVIOUS
      <3> HIDE DEF none, q
      <3> QED BY <1>2, <1>5, <3>1, <3>2, <3>3, Posts
    <2>2. e.kind = "quit timer" /\ e.window = 0 /\ e.arg = "start"
      BY DEF Event, App
    <2> HIDE DEF q
    <2>3. /\ Keeps(q, h, {"queue"}) /\ Extends(q.queue, g.queue)
          /\ New(q.queue, g.queue) = {Len(g.queue) + 1} /\ q.queue[Len(g.queue) + 1] = e
      BY <1>5, <2>1 DEF Posting
    <2> HIDE DEF e
    <2>4. r.core = h.core /\ r.running = h.running /\ r.owner = h.owner
      BY <1>8, <2>3 DEF Keeps, Fields
    <2>5. Keeps(r, g, {"core", "running", "owner", "queue"})
      BY <1>4, <1>8, <2>3 DEF Keeps
    <2>6. Extends(r.queue, g.queue) /\ New(r.queue, g.queue) # {}
      BY <1>8, <2>3
    <2>7. \A k \in New(r.queue, g.queue) :
             r.queue[k].kind = "quit timer" /\ r.queue[k].window = 0 /\ r.queue[k].arg = "start"
      BY <1>8, <2>2, <2>3
    <2> QED BY <1>4, <1>6, <1>8, <2>4, <2>5, <2>6, <2>7 DEF Freeing
  <1> QED BY <1>1, <1>7, <1>8

\* With Accounted and the timer right again, the invariant holds after FreeSurfaces.
LEMMA FreeSurfacesFine ==
    ASSUME NEW g, Rough(g), NEW panes, Freeable(g, panes), NEW r, r = FreeSurfaces(g, panes)
    PROVE  Inv0(r) /\ (Armed(g) => Armed(r)) /\ r.windows = g.windows /\ r.mode = g.mode
  <1>1. Freeing(r, g, panes)
    BY FreeSurfacesFreeing DEF Rough, Calm
  <1>2. r.windows = g.windows /\ r.mode = g.mode
    BY <1>1 DEF Freeing, Keeps, Fields
  <1> QED BY <1>1, <1>2, Frees

\* Pages that were removed are deleted.
LEMMA DeletePageTaken ==
    ASSUME NEW g, NEW r, NEW d, Inv0(g), Taking(r, g, d), g.queue[d].kind = "delete page",
           NEW h, h = FreeSurfaces(r, g.queue[d].panes)
    PROVE  Fit(h, g)
  <1>1. Taken(r, g, d)
    BY Takes
  <1>2. Rough(r) /\ (Armed(g) => Armed(r))
    <2>1. /\ Typed(r) /\ Owning(r) /\ Living(r) /\ Posted(r) /\ Framed(r) /\ Opened(r)
          /\ Timed(r) /\ Quitting(r) /\ (Armed(g) => Armed(r))
      BY <1>1 DEF Taken
    <2>2. Deleted(r)
      BY <1>1 DEF Taken, Deleted
    <2> QED BY <2>1, <2>2 DEF Rough, Calm
  <1>3. Freeable(r, g.queue[d].panes)
    <2>1. d \in DOMAIN g.queue /\ r.registered = g.registered
      BY DEF Taking, Keeps, Fields
    <2>2. Fine(g, g.queue[d])
      BY <2>1 DEF Inv0, Posted
    <2>3. \A v \in Window : g.queue[d].panes \cap r.registered[v] = {}
      BY <2>1, <2>2 DEF Fine
    <2>4. \A s \in r.core :
             \/ s \in g.queue[d].panes
             \/ \E v \in Window : s \in r.registered[v]
             \/ \E i \in DOMAIN r.queue : r.queue[i].kind = "delete page" /\ s \in r.queue[i].panes
      BY <1>1 DEF Taken
    <2> QED BY <2>3, <2>4 DEF Freeable
  <1>4. Inv0(h) /\ (Armed(r) => Armed(h))
    <2> DEFINE panes == g.queue[d].panes
    <2>1. h = FreeSurfaces(r, panes) /\ Freeable(r, panes) /\ Rough(r)
      BY <1>2, <1>3
    <2> HIDE DEF panes
    <2> QED BY <2>1, FreeSurfacesFine
  <1> QED BY <1>2, <1>4 DEF Fit

-----------------------------------------------------------------------------
(* The destructor of a window, until it was the last.                      *)

\* The application without a window, before the surfaces of this are freed.
Alone(g, w) ==
    [g EXCEPT !.windows = Kept(@, ToSet(@) \ {w}), !.pending = @ \ {w}, !.skip = @ \ {w},
              !.quick = IF @ = w THEN NoWindow ELSE @,
              !.registered[w] = {}, !.tabs[w] = <<>>,
              !.queue = Kept(@, {e \in ToSet(@) : e.window # w})]

\* Alone takes a window away.
LEMMA AloneLeaves ==
    ASSUME NEW g, Typed(g), NEW w \in Window, NEW r, r = Alone(g, w)
    PROVE  Leaving(r, g, w)
  <1>1. DOMAIN g = Fields
    BY DEF Typed
  <1>2. Keeps(r, g, {"windows", "pending", "skip", "quick", "registered", "tabs", "queue"})
    BY Zenon, <1>1 DEF Alone, Keeps, Fields
  <1>3. r.windows = Kept(g.windows, ToSet(g.windows) \ {w})
    BY Zenon, <1>1 DEF Alone, Fields
  <1>4. r.pending = g.pending \ {w}
    BY Zenon, <1>1 DEF Alone, Fields
  <1>5. r.skip = g.skip \ {w}
    BY Zenon, <1>1 DEF Alone, Fields
  <1>6. r.registered = Swap(g.registered, w, {})
    BY Zenon, <1>1 DEF Alone, Fields, Swap
  <1>7. r.tabs = Swap(g.tabs, w, <<>>)
    BY Zenon, <1>1 DEF Alone, Fields, Swap
  <1>8. r.queue = Kept(g.queue, {e \in ToSet(g.queue) : e.window # w})
    BY Zenon, <1>1 DEF Alone, Fields
  <1>9. /\ r.registered \in [Window -> SUBSET Surface] /\ r.registered[w] = {}
        /\ \A v \in Window \ {w} : r.registered[v] = g.registered[v]
    <2> DEFINE none == {}
    <2>1. none \in SUBSET Surface /\ none = {}
      OBVIOUS
    <2>2. g.registered \in [Window -> SUBSET Surface]
      BY DEF Typed
    <2>3. r.registered = [g.registered EXCEPT ![w] = none]
      BY <1>6 DEF Swap
    <2> HIDE DEF none
    <2> QED BY <2>1, <2>2, <2>3
  <1>10. /\ r.tabs \in [Window -> Seq(Page)] /\ r.tabs[w] = <<>>
         /\ \A v \in Window \ {w} : r.tabs[v] = g.tabs[v]
    <2> DEFINE none == <<>>
    <2>1. none \in Seq(Page) /\ none = <<>>
      OBVIOUS
    <2>2. g.tabs \in [Window -> Seq(Page)]
      BY DEF Typed
    <2>3. r.tabs = [g.tabs EXCEPT ![w] = none]
      BY <1>7 DEF Swap
    <2> HIDE DEF none
    <2> QED BY <2>1, <2>2, <2>3
  <1> QED BY Zenon, <1>2, <1>3, <1>4, <1>5, <1>8, <1>9, <1>10 DEF Leaving

\* The event that deletes a window is taken.
LEMMA DeletionTaken ==
    ASSUME NEW g, NEW r, NEW d, Inv0(g), Taking(r, g, d), g.queue[d].kind = "delete window",
           \A i \in DOMAIN g.queue : i < d => g.queue[i].kind \in Deletions
    PROVE  Doomed(r, g.queue[d].window) /\ g.queue[d].window \in Window
  <1> DEFINE w == g.queue[d].window
  <1>1. Taken(r, g, d)
    BY Takes
  <1>2. /\ Typed(r) /\ Owning(r) /\ Living(r) /\ Posted(r) /\ Framed(r) /\ Timed(r) /\ Quitting(r)
    BY <1>1 DEF Taken
  <1>3. Opened(r)
    <2>1. \A i \in DOMAIN g.queue : i < d => g.queue[i].kind \notin Openings
      <3>1. \A k \in Deletions : k \notin Openings
        BY DEF Deletions, Openings
      <3> QED BY Zenon, <3>1
    <2> QED BY <1>1, <2>1 DEF Taken
  <1>4. Accounted(r)
    BY <1>1 DEF Taken, Accounted
  <1>5. d \in DOMAIN g.queue /\ r.open = g.open /\ r.windows = g.windows
    BY DEF Taking, Keeps, Fields
  <1>6. Fine(g, g.queue[d])
    BY <1>5 DEF Inv0, Posted
  <1>7. w \in Live(g) /\ w \notin g.open
    BY <1>6 DEF Fine, AppEvents
  <1>8. w \in Live(r) /\ w \notin r.open /\ Live(r) = Live(g)
    BY <1>5, <1>7 DEF Live
  <1>9. w \in Window
    BY <1>2, <1>8, LiveWindow
  <1>10. \A v \in Live(r) \ r.open : v # w => DeletedAfter(r, 0, v)
    BY <1>1 DEF Taken
  <1>11. \A k \in DOMAIN r.queue : ~(r.queue[k].kind = "delete window" /\ r.queue[k].window = w)
    BY <1>1 DEF Taken
  <1> HIDE DEF w
  <1>12. Doomed(r, w)
    BY <1>2, <1>3, <1>4, <1>8, <1>10, <1>11 DEF Doomed
  <1> QED BY <1>9, <1>12 DEF w

\* The destructor, up to the end of the surfaces of its window.
LEMMA WindowFreed ==
    ASSUME NEW g, NEW w \in Window, Doomed(g, w),
           NEW alone, alone = Alone(g, w),
           NEW freed, freed = FreeSurfaces(alone, g.registered[w])
    PROVE  /\ Inv0(freed) /\ freed.mode = g.mode /\ freed.windows = alone.windows
  <1> DEFINE panes == g.registered[w]
  <1>1. Leaving(alone, g, w)
    <2>1. Typed(g)
      BY DEF Doomed
    <2> QED BY <2>1, AloneLeaves
  <1>2. Left(alone, g, w)
    BY <1>1, Leaves
  <1>3. Rough(alone)
    BY <1>2 DEF Left
  <1>4. Freeable(alone, panes)
    BY <1>2 DEF Left, Freeable
  <1>5. freed = FreeSurfaces(alone, panes)
    OBVIOUS
  <1>6. alone.mode = g.mode
    BY <1>1 DEF Leaving, Keeps, Fields
  <1> HIDE DEF panes
  <1>7. Inv0(freed) /\ freed.windows = alone.windows /\ freed.mode = alone.mode
    BY <1>3, <1>4, <1>5, FreeSurfacesFine
  <1> QED BY <1>6, <1>7

\* The last window is gone and the quit timer starts.
LEMMA ArmFine ==
    ASSUME NEW g, Inv0(g), g.windows = <<>>, g.mode = "delay", NEW r, r = ArmQuitTimer(g)
    PROVE  Inv0(r) /\ Armed(r)
  <1>1. Typed(g) /\ DOMAIN g = Fields /\ g.timer \in BOOLEAN /\ Timed(g) /\ Owning(g) /\ Living(g)
    BY DEF Inv0, Typed
  <1>2. r = HandleQuitTimer(g, TRUE)
    BY DEF ArmQuitTimer
  <1>3. Timing(r, g) /\ r.timer = TRUE
    <2>1. TRUE \in BOOLEAN
      OBVIOUS
    <2> QED BY Zenon, <1>1, <1>2, <2>1, HandleQuitTimerFields
  <1>4. /\ r.queue = g.queue /\ r.registered = g.registered /\ r.core = g.core /\ r.mode = g.mode
        /\ r.windows = g.windows
    BY <1>3 DEF Timing, Keeps, Fields
  <1>5. Registered(r) = {}
    <2>1. Live(g) = {} /\ ToSet(<<>>) = {}
      BY DEF Live, ToSet
    <2>2. ASSUME NEW w \in Window PROVE g.registered[w] = {}
      <3>1. g.tabs[w] = <<>>
        BY <1>1, <2>1 DEF Living
      <3>2. g.registered[w] = UNION ToSet(<<>>)
        BY <1>1, <3>1 DEF Owning
      <3> QED BY <2>1, <3>2
    <2> QED BY <1>4, <2>2 DEF Registered
  <1>6. Timed(r)
    <2>1. \A i : IsLastRequest(r, i) <=> IsLastRequest(g, i)
      BY <1>4 DEF IsLastRequest
    <2> QED BY <1>1, <1>4, <1>5, <2>1 DEF Timed
  <1>7. Armed(r)
    BY <1>3 DEF Armed
  <1>8. Calm(g) /\ Accounted(g)
    BY DEF Inv0, Calm
  <1> QED BY <1>3, <1>6, <1>7, <1>8, Times

-----------------------------------------------------------------------------
(* The teardown.                                                           *)

\* The events of qApp that a teardown handles, and the others.
Own(g) == {e \in ToSet(g.queue) : e.kind \in AppEvents \ {"quit"}}
Mine(g) == Kept(g.queue, Own(g))
Others(g) == Kept(g.queue, ToSet(g.queue) \ Own(g))

\* Without a window no event that opens one is left.
LEMMA MineKinds ==
    ASSUME NEW g, Inv0(g), g.windows = <<>>
    PROVE  /\ Mine(g) \in Seq(Events)
           /\ \A k \in DOMAIN Mine(g) : Mine(g)[k].kind \in {"redo", "close all", "toggle visibility", "quit timer"}
  <1> DEFINE p == Mine(g)
             q == g.queue
             K == Own(g)
  <1>1. q \in Seq(Events) /\ p = Kept(q, K)
    BY DEF Inv0, Typed, Mine
  <1>2. Live(g) = {}
    BY DEF Live, ToSet
  <1>3. \A i \in DOMAIN q : q[i].kind \notin Openings
    BY <1>2 DEF Inv0, Opened
  <1> HIDE DEF p, q, K
  <1>4. /\ p \in Seq(Events)
        /\ \A k \in DOMAIN p : \E i \in DOMAIN q : p[k] = q[i] /\ q[i] \in K
    BY <1>1, KeptElements
  <1>5. \A e \in K : e.kind \in AppEvents \ {"quit"}
    BY DEF K, Own
  <1>6. \A k \in DOMAIN p : p[k].kind \in AppEvents \ {"quit"} /\ p[k].kind \notin Openings
    BY <1>3, <1>4, <1>5
  <1>7. \A k \in DOMAIN p : p[k].kind \in {"redo", "close all", "toggle visibility", "quit timer"}
    BY <1>6 DEF AppEvents, Openings
  <1> QED BY <1>4, <1>7 DEF p

\* The timers are stopped and the events are taken.
Clearing(h, g) ==
    /\ Keeps(h, g, {"timer", "queue"})
    /\ h.timer = FALSE /\ h.queue = Others(g)

\* Without windows, the events of qApp and the timer may go.
LEMMA ClearingFine ==
    ASSUME NEW g, Inv0(g), g.windows = <<>>, NEW h, Clearing(h, g)
    PROVE  Inv0(h)
  <1>1. /\ h.app = g.app /\ h.windows = g.windows /\ h.open = g.open /\ h.tabs = g.tabs
        /\ h.registered = g.registered /\ h.owner = g.owner /\ h.core = g.core
        /\ h.mode = g.mode /\ h.phase = g.phase
        /\ h.born = g.born /\ h.made = g.made /\ h.stack = g.stack /\ h.closing = g.closing
    BY DEF Clearing, Keeps, Fields
  <1>2. /\ h.skip = g.skip /\ h.pending = g.pending /\ h.hidden = g.hidden /\ h.running = g.running /\ h.undo = g.undo
        /\ h.redo = g.redo
        /\ h.quick = g.quick /\ DOMAIN h = DOMAIN g
    BY DEF Clearing, Keeps, Fields
  <1>3. Typed(g) /\ Owning(g) /\ Living(g) /\ Posted(g)
        /\ Framed(g) /\ Opened(g) /\ Accounted(g) /\ Timed(g) /\ Quitting(g)
    BY DEF Inv0
  <1> DEFINE P == g.queue
             Q == h.queue
             K == ToSet(g.queue) \ Own(g)
  <1>4. P \in Seq(Events) /\ Q = Kept(P, K) /\ h.timer = FALSE
    BY <1>3 DEF Clearing, Others, Typed
  <1>5. Live(g) = {} /\ Live(h) = {} /\ g.open = {}
    <2>1. Live(g) = {} /\ Live(h) = {}
      BY <1>1 DEF Live, ToSet
    <2> QED BY <1>3, <2>1 DEF Living
  <1>6. \A i \in DOMAIN P : P[i].kind \in {"delete page", "quit"} => P[i] \in K
    <2>1. \A i \in DOMAIN P : P[i] \in ToSet(P)
      BY DEF ToSet
    <2> QED BY <2>1 DEF Own, AppEvents
  <1>7. \A i \in DOMAIN P : P[i] \in K => P[i].kind \notin AppEvents \ {"quit"}
    BY DEF Own
  <1>l. \A i \in DOMAIN P : Fine(g, P[i]) /\ P[i].kind \notin Openings
    BY <1>3, <1>5 DEF Posted, Opened
  <1> HIDE DEF P, Q, K
  <1>8. /\ Q \in Seq(Events)
        /\ \A k \in DOMAIN Q : \E i \in DOMAIN P : Q[k] = P[i] /\ P[i] \in K
        /\ \A i \in DOMAIN P : P[i] \in K => \E k \in DOMAIN Q : Q[k] = P[i]
    BY <1>4, KeptElements
  <1>9. \A k \in DOMAIN Q : Fine(g, Q[k]) /\ Q[k].kind \notin AppEvents \ {"quit"}
    BY <1>7, <1>8, <1>l
  <1>10. \A k \in DOMAIN Q : Q[k].kind \in AppEvents \cup {"delete page"}
    BY <1>5, <1>9 DEF Fine
  <1>11. Typed(h)
    <2>1. h.timer \in BOOLEAN
      BY <1>4
    <2> QED BY <1>1, <1>2, <1>3, <1>8, <2>1 DEF Typed, Q
  <1>12. Owning(h)
    BY <1>1, <1>3 DEF Owning
  <1>13. Living(h)
    BY <1>1, <1>3, <1>5 DEF Living
  <1>14. Posted(h)
    <2>1. \A e : Fine(h, e) <=> Fine(g, e)
      BY <1>1, <1>5 DEF Fine
    <2>2. \A k \in DOMAIN Q : Q[k].kind # "delete window"
      BY <1>10 DEF AppEvents
    <2> QED BY <1>9, <2>1, <2>2 DEF Posted, Q
  <1>15. Deleted(h)
    BY <1>5 DEF Deleted
  <1>16. Framed(h)
    BY <1>1, <1>3 DEF Framed
  <1>17. Opened(h)
    <2>1. \A k \in DOMAIN Q : Q[k].kind \notin Openings
      BY <1>8, <1>l
    <2> QED BY <2>1 DEF Opened, Q
  <1>18. Accounted(h)
    <2> SUFFICES ASSUME NEW s \in g.core
                 PROVE  \/ \E w \in Window : s \in g.registered[w]
                        \/ \E k \in DOMAIN Q : Q[k].kind = "delete page" /\ s \in Q[k].panes
      BY <1>1 DEF Accounted, Q
    <2>1. CASE \E w \in Window : s \in g.registered[w]
      BY <2>1
    <2>2. CASE \E i \in DOMAIN P : P[i].kind = "delete page" /\ s \in P[i].panes
      <3>1. PICK i \in DOMAIN P : P[i].kind = "delete page" /\ s \in P[i].panes
        BY <2>2
      <3>2. PICK k \in DOMAIN Q : Q[k] = P[i]
        BY <1>6, <1>8, <3>1
      <3> QED BY <3>1, <3>2
    <2> QED BY <1>3, <2>1, <2>2 DEF Accounted, P
  <1>19. Timed(h)
    <2>1. \A k \in DOMAIN Q : Q[k].kind # "quit timer"
      BY <1>9 DEF AppEvents
    <2> QED BY <1>4, <2>1 DEF Timed, IsLastRequest, Q
  <1>20. Quitting(h)
    <2> SUFFICES ASSUME ~Hides, g.mode = "now", g.phase = "running", g.open = {}
                 PROVE  \E k \in DOMAIN Q : Q[k].kind = "quit"
      BY <1>1 DEF Quitting, Q
    <2>1. PICK i \in DOMAIN P : P[i].kind = "quit"
      BY <1>3 DEF Quitting, P
    <2> QED BY <1>6, <1>8, <2>1
  <1> QED BY <1>11, <1>12, <1>13, <1>14, <1>15, <1>16, <1>17, <1>18, <1>19, <1>20 DEF Inv0

\* The function whose last value a teardown is, from its values.
TeardownRun(f, base, mine) ==
    [n \in 0..Len(mine) |->
        IF n = 0 THEN base ELSE UNION {HandleApp(h, mine[n]) : h \in f[n - 1]}]

\* There is one.
LEMMA TeardownRuns ==
    ASSUME NEW base, NEW mine \in Seq(Events)
    PROVE  \E f : f = TeardownRun(f, base, mine)
  <1> DEFINE N == Len(mine)
             More(x, n) == UNION {HandleApp(h, mine[n]) : h \in x}
             Step(f, n) == IF n = 0 THEN base ELSE More(f[n - 1], n)
             T == {n \in 0..N : \E f : f = [k \in 0..n |-> Step(f, k)]}
  <1>0. N \in Nat
    OBVIOUS
  <1> HIDE DEF N, More
  <1>1. 0..N \subseteq T
    <2>1. 0 \in T
      <3> DEFINE f == [k \in 0..0 |-> base]
      <3>1. f = [k \in 0..0 |-> Step(f, k)]
        OBVIOUS
      <3> HIDE DEF f, Step
      <3> QED BY <3>1, <1>0
    <2>2. ASSUME NEW n \in 1..N, n - 1 \in T PROVE n \in T
      <3>1. PICK f : f = [k \in 0..(n - 1) |-> Step(f, k)]
        BY <2>2
      <3> DEFINE h == [k \in 0..n |-> IF k = n THEN Step(f, n) ELSE f[k]]
      <3>2. \A k \in 0..n : h[k] = Step(h, k)
        <4> TAKE k \in 0..n
        <4>1. CASE k = 0
          <5>1. f[0] = Step(f, 0)
            BY <3>1
          <5>2. 0 # n
            OBVIOUS
          <5> QED BY <4>1, <5>1, <5>2
        <4>2. CASE k # 0
          <5>1. k - 1 \in 0..(n - 1) /\ h[k - 1] = f[k - 1]
            BY <4>2
          <5>2. Step(h, k) = Step(f, k)
            BY <5>1, <4>2
          <5>3. k # n => f[k] = Step(f, k)
            BY <3>1
          <5> QED BY <5>2, <5>3
        <4> QED BY <4>1, <4>2
      <3>3. h = [k \in 0..n |-> Step(h, k)]
        <4> HIDE DEF Step
        <4>1. DOMAIN h = 0..n /\ h = [k \in 0..n |-> h[k]]
          OBVIOUS
        <4> HIDE DEF h
        <4> QED BY <3>2, <4>1
      <3> HIDE DEF h, Step
      <3> QED BY <3>3
    <2> HIDE DEF T
    <2> QED BY <1>0, <2>1, <2>2, Induct
  <1>2. \E f : f = [n \in 0..N |-> Step(f, n)]
    <2> HIDE DEF Step
    <2>1. N \in T
      BY <1>0, <1>1
    <2> QED BY <2>1
  <1> QED BY <1>2 DEF N, More, TeardownRun

\* Without a window, and without a quit timer, the events open and arm nothing.
Headless(h) == Inv0(h) /\ h.windows = <<>> /\ h.mode # "delay"

\* What a teardown without windows may still handle.
Mild(e) == e.kind \in {"redo", "close all", "toggle visibility", "quit timer"}

\* What a teardown handles keeps it headless.
LEMMA HeadlessHandles ==
    ASSUME NEW g, Headless(g), NEW e, Mild(e), NEW r, r \in HandleApp(g, e)
    PROVE  Headless(r)
  <1>1. Inv0(g) /\ g.windows = <<>> /\ g.mode # "delay"
    BY DEF Headless
  <1>2. \/ r \in RedoLast(g)
        \/ r \in CloseAllWindows(g, e.arg = "quit")
        \/ r = ToggleVisibility(g)
        \/ r = HandleQuitTimer(g, e.arg = "start")
    BY Zenon DEF HandleApp, Mild
  <1>3. CASE r \in RedoLast(g)
    BY <1>1, <1>3, RedoLastFine DEF Headless
  <1>4. CASE r \in CloseAllWindows(g, e.arg = "quit")
    <2>1. Fit(r, g) /\ Keeps(r, g, {"phase"})
      BY Zenon, <1>1, <1>4, CloseAllWindowsFine
    <2> QED BY <1>1, <2>1 DEF Headless, Fit, Keeps, Fields
  <1>5. CASE r = HandleQuitTimer(g, e.arg = "start")
    <2>1. r = g
      BY Zenon, <1>1, <1>5 DEF HandleQuitTimer
    <2> QED BY <2>1
  <1>6. CASE r = ToggleVisibility(g)
    <2>1. Fit(r, g) /\ Keeps(r, g, {"hidden"})
      BY Zenon, <1>1, <1>6, ToggledFine
    <2> QED BY <1>1, <2>1 DEF Headless, Fit, Keeps, Fields
  <1> QED BY <1>2, <1>3, <1>4, <1>5, <1>6

\* The app goes, with no window left.
LEMMA AppChange ==
    ASSUME NEW g, Headless(g), NEW h, Keeps(h, g, {"app"}), h.app = FALSE
    PROVE  Inv0(h) /\ Armed(h)
  <1>1. /\ h.windows = g.windows /\ h.open = g.open /\ h.tabs = g.tabs
        /\ h.registered = g.registered /\ h.owner = g.owner /\ h.core = g.core /\ h.queue = g.queue
        /\ h.mode = g.mode /\ h.phase = g.phase /\ h.timer = g.timer
        /\ h.born = g.born /\ h.made = g.made /\ h.stack = g.stack /\ h.closing = g.closing
    BY DEF Keeps, Fields
  <1>2. /\ h.skip = g.skip /\ h.pending = g.pending /\ h.hidden = g.hidden /\ h.running = g.running /\ h.undo = g.undo
        /\ h.redo = g.redo
        /\ h.quick = g.quick /\ DOMAIN h = DOMAIN g
    BY DEF Keeps, Fields
  <1>3. Typed(g) /\ Owning(g) /\ Living(g) /\ Posted(g) /\ Deleted(g)
        /\ Framed(g) /\ Opened(g) /\ Accounted(g) /\ Timed(g) /\ Quitting(g)
        /\ g.windows = <<>> /\ g.mode # "delay"
    BY DEF Headless, Inv0
  <1>4. Live(h) = Live(g) /\ Registered(h) = Registered(g)
    BY <1>1 DEF Live, Registered
  <1>5. \A w, i : DeletedAfter(h, i, w) <=> DeletedAfter(g, i, w)
    BY <1>1 DEF DeletedAfter
  <1>6. Typed(h)
    BY <1>1, <1>2, <1>3 DEF Typed
  <1>7. Owning(h)
    BY <1>1, <1>3 DEF Owning
  <1>8. Living(h)
    BY <1>1, <1>3, <1>4 DEF Living
  <1>9. Posted(h)
    BY <1>1, <1>3, <1>4 DEF Posted, Fine
  <1>10. Deleted(h)
    BY <1>1, <1>3, <1>4, <1>5 DEF Deleted
  <1>11. Framed(h)
    BY <1>1, <1>3 DEF Framed
  <1>12. Opened(h)
    BY <1>1, <1>3, <1>4, <1>5 DEF Opened
  <1>13. Accounted(h)
    BY <1>1, <1>3 DEF Accounted
  <1>14. Timed(h)
    <2>1. NoRequest(h) <=> NoRequest(g)
      BY <1>1 DEF NoRequest
    <2>2. \A i : IsLastRequest(h, i) <=> IsLastRequest(g, i)
      BY <1>1 DEF IsLastRequest
    <2> QED BY <1>1, <1>3, <1>4, <2>1, <2>2 DEF Timed
  <1>15. Quitting(h)
    BY <1>1, <1>3 DEF Quitting
  <1>16. Armed(h)
    BY <1>1, <1>3 DEF Armed
  <1> QED BY <1>6, <1>7, <1>8, <1>9, <1>10, <1>11, <1>12, <1>13, <1>14, <1>15, <1>16 DEF Inv0

\* The app is freed without a window.
LEMMA AppGone ==
    ASSUME NEW g, Headless(g), NEW r, r = [g EXCEPT !.app = FALSE]
    PROVE  Inv0(r) /\ Armed(r)
  <1>0. DOMAIN g = Fields
    BY Zenon DEF Headless, Inv0, Typed
  <1>1. Keeps(r, g, {"app"})
    BY Zenon, <1>0 DEF Keeps, Fields
  <1>2. r.app = FALSE
    BY Zenon, <1>0 DEF Fields
  <1> DEFINE h == r
  <1>3. Keeps(h, g, {"app"}) /\ h.app = FALSE
    BY Zenon, <1>1, <1>2
  <1> HIDE DEF h
  <1>4. Inv0(h) /\ Armed(h)
    BY <1>3, AppChange
  <1> QED BY Zenon, <1>4 DEF h

\* From any of several states.
LEMMA AllHandle ==
    ASSUME NEW x, \A h \in x : Headless(h), NEW e, Mild(e),
           NEW k, \E h \in x : k \in HandleApp(h, e)
    PROVE  Headless(k)
  <1>1. PICK h \in x : k \in HandleApp(h, e)
    OBVIOUS
  <1>2. Headless(h)
    OBVIOUS
  <1> QED BY <1>1, <1>2, HeadlessHandles

\* Teardown keeps the invariant.
LEMMA TeardownFine ==
    ASSUME NEW g, Headless(g), NEW r \in Teardown(g)
    PROVE  Inv0(r) /\ Armed(r)
  <1> DEFINE mine == Mine(g)
             N == Len(mine)
             base == [g EXCEPT !.timer = FALSE, !.queue = Others(g)]
             start == {base}
             More(x, n) == UNION {HandleApp(h, mine[n]) : h \in x}
             after == CHOOSE f : f = [n \in 0..N |-> IF n = 0 THEN start ELSE More(f[n - 1], n)]
             U == {n \in 0..N : \A h \in after[n] : Headless(h)}
  <1>1. r \in {[h EXCEPT !.app = FALSE] : h \in after[N]}
    BY Zenon DEF Teardown, Mine, Others, Own
  <1>2. Inv0(g) /\ g.windows = <<>> /\ g.mode # "delay"
    BY DEF Headless
  <1>3. /\ mine \in Seq(Events)
        /\ \A k \in DOMAIN mine : mine[k].kind \in {"redo", "close all", "toggle visibility", "quit timer"}
    BY <1>2, MineKinds
  <1>b. Clearing(base, g)
    <2>1. DOMAIN g = Fields
      BY Zenon, <1>2 DEF Inv0, Typed
    <2>2. Keeps(base, g, {"timer", "queue"})
      BY Zenon, <2>1 DEF Keeps, Fields
    <2>3. base.timer = FALSE
      BY Zenon, <2>1 DEF Fields
    <2>4. base.queue = Others(g)
      BY Zenon, <2>1 DEF Fields
    <2> QED BY Zenon, <2>2, <2>3, <2>4 DEF Clearing
  <1> HIDE DEF mine, base
  <1>4. N \in Nat /\ DOMAIN mine = 1..N
    <2>1. mine \in Seq(Events)
      BY Zenon, <1>3
    <2> QED BY <2>1
  <1>5. \A h \in start : Headless(h)
    <2>1. Inv0(base)
      BY <1>2, <1>b, ClearingFine
    <2>2. base.windows = g.windows /\ base.mode = g.mode
      BY <1>b DEF Clearing, Keeps, Fields
    <2> QED BY <1>2, <2>1, <2>2 DEF Headless
  <1>6. \E f : f = [n \in 0..N |-> IF n = 0 THEN start ELSE More(f[n - 1], n)]
    <2> HIDE DEF start
    <2>1. \E f : f = TeardownRun(f, start, mine)
      BY <1>3, TeardownRuns
    <2> QED BY <2>1 DEF TeardownRun
  <1>7. \A x, n : (\A h \in x : Headless(h)) /\ n \in 1..N => \A h \in More(x, n) : Headless(h)
    <2> SUFFICES ASSUME NEW x, NEW n \in 1..N, \A h \in x : Headless(h), NEW k \in More(x, n)
                 PROVE  Headless(k)
      OBVIOUS
    <2> DEFINE e == mine[n]
    <2>1. \E h \in x : k \in HandleApp(h, e)
      BY Zenon
    <2>2. Mild(e)
      BY <1>3, <1>4 DEF Mild
    <2> HIDE DEF e, More
    <2> QED BY Zenon, <2>1, <2>2, AllHandle
  <1> HIDE DEF More, start, N
  <1>8. after = [n \in 0..N |-> IF n = 0 THEN start ELSE More(after[n - 1], n)]
    BY <1>6
  <1> HIDE DEF after
  <1>9. 0..N \subseteq U
    <2>1. 0 \in U
      <3>1. after[0] = start
        BY <1>4, <1>8
      <3> QED BY <1>4, <1>5, <3>1
    <2>2. ASSUME NEW n \in 1..N, n - 1 \in U PROVE n \in U
      <3>1. n \in 0..N /\ n # 0
        BY <1>4
      <3>2. after[n] = More(after[n - 1], n)
        BY <1>8, <3>1
      <3>3. \A h \in after[n - 1] : Headless(h)
        BY <2>2
      <3> QED BY <1>7, <3>1, <3>2, <3>3
    <2> HIDE DEF U
    <2> QED BY <1>4, <2>1, <2>2, Induct
  <1>10. \A h \in after[N] : Headless(h)
    BY <1>4, <1>9
  <1> HIDE DEF U
  <1>11. PICK h \in after[N] : r = [h EXCEPT !.app = FALSE]
    BY Zenon, <1>1
  <1>12. Headless(h)
    BY Zenon, <1>10
  <1> QED BY Zenon, <1>11, <1>12, AppGone

-----------------------------------------------------------------------------
(* Destroy, and the events users post.                                     *)

\* The destructor of a window that no event closes again.
LEMMA DestroyFine ==
    ASSUME NEW g, NEW w \in Window, Doomed(g, w), NEW r \in Destroy(g, w)
    PROVE  Inv0(r) /\ Armed(r)
  <1> DEFINE alone == Alone(g, w)
             freed == FreeSurfaces(alone, g.registered[w])
  <1>2. Inv0(freed) /\ freed.mode = g.mode
    <2> DEFINE a == alone
               f == freed
    <2>1. a = Alone(g, w) /\ f = FreeSurfaces(a, g.registered[w])
      BY Zenon
    <2> HIDE DEF a, f
    <2>2. Inv0(f) /\ f.mode = g.mode
      BY <2>1, WindowFreed
    <2> QED BY Zenon, <2>2 DEF a, f
  <1>1. \/ freed.windows # <<>> /\ r = freed
        \/ freed.windows = <<>> /\ g.mode = "delay" /\ r = ArmQuitTimer(freed)
        \/ freed.windows = <<>> /\ g.mode # "delay" /\ r \in Teardown(freed)
    <2>1. freed.mode = g.mode
      BY Zenon, <1>2
    <2>2. r \in IF WasLast(freed) THEN LastGone(freed) ELSE {freed}
      BY Zenon DEF Destroy, Alone
    <2> HIDE DEF freed
    <2> QED BY Zenon, <2>1, <2>2 DEF LastGone, WasLast
  <1> HIDE DEF freed
  <1>3. CASE freed.windows # <<>> /\ r = freed
    BY <1>2, <1>3 DEF Armed
  <1>4. CASE freed.windows = <<>> /\ g.mode = "delay" /\ r = ArmQuitTimer(freed)
    BY <1>2, <1>4, ArmFine
  <1>5. CASE freed.windows = <<>> /\ g.mode # "delay" /\ r \in Teardown(freed)
    <2>1. Headless(freed)
      BY <1>2, <1>5 DEF Headless
    <2> QED BY <1>5, <2>1, TeardownFine
  <1> QED BY Zenon, <1>1, <1>3, <1>4, <1>5

\* An event of the user, or of a shell, about a window that is.
Posable(g, kind, w, arg) ==
    /\ kind \in Kinds \ {"quit timer", "delete window", "delete page", "quit"}
    /\ kind \in AppEvents => w = 0
    /\ kind \in WindowEvents => w \in Live(g)
    /\ kind \in Openings => g.open # {}
    /\ kind = "close tab" => arg \in {"this", "other", "right"}

\* Such an event may be posted.
LEMMA PostFine ==
    ASSUME NEW g, Inv0(g), NEW kind, NEW w \in Nat, NEW panes \in SUBSET Surface, NEW arg \in Args,
           Posable(g, kind, w, arg), NEW r, r = Post(g, kind, w, panes, arg)
    PROVE  Fit(r, g)
  <1> DEFINE e == Event(kind, w, panes, arg, Level(g, kind))
  <1>1. DOMAIN g = Fields /\ g.queue \in Seq(Events) /\ g.stack \in Seq(Frames)
    BY DEF Inv0, Typed
  <1>2. kind \in Kinds
    BY DEF Posable
  <1>3. Posting(r, g, kind, w, panes, arg)
    BY <1>1, <1>2, Posts
  <1>4. e.kind = kind /\ e.window = w /\ e.panes = panes /\ e.arg = arg
    BY DEF Event
  <1>5. /\ Keeps(r, g, {"queue"}) /\ Extends(r.queue, g.queue)
        /\ New(r.queue, g.queue) = {Len(g.queue) + 1} /\ r.queue[Len(g.queue) + 1] = e
    BY <1>3 DEF Posting
  <1> HIDE DEF e
  <1>6. Harmless(g, e)
    BY <1>4 DEF Posable, Harmless, Fine, Kinds
  <1>7. \A k \in New(r.queue, g.queue) : Harmless(g, r.queue[k])
    BY <1>5, <1>6
  <1> QED BY <1>5, <1>7, Queued DEF Fit

-----------------------------------------------------------------------------
(* Key bindings.                                                           *)

\* An input is counted.
LEMMA AskedFine ==
    ASSUME Inv0(gui), NEW r, r = Asked
    PROVE  Fit(r, gui) /\ Keeps(r, gui, {"inputs"})
  <1>1. DOMAIN gui = Fields
    BY Zenon DEF Inv0, Typed
  <1>2. Keeps(r, gui, {"inputs"})
    BY Zenon, <1>1 DEF Asked, Keeps, Fields
  <1> DEFINE x == r
  <1>3. Keeps(x, gui, {"inputs"})
    BY Zenon, <1>2
  <1> HIDE DEF x
  <1>4. /\ x.skip = gui.skip /\ x.pending = gui.pending /\ x.hidden = gui.hidden /\ x.running = gui.running
        /\ x.undo = gui.undo /\ x.redo = gui.redo
    BY <1>3 DEF Keeps, Fields
  <1>5. Keeps(x, gui, Free)
    BY Zenon, <1>3, KeepsMore DEF Free
  <1>6. Beside(x, gui)
    BY <1>4, <1>5 DEF Beside, Inv0, Typed
  <1>7. Fit(x, gui)
    BY <1>6, FitBeside
  <1> QED BY Zenon, <1>2, <1>7 DEF x

\* What the user does, in a window that is visible.
LEMMA AskedInWindow ==
    ASSUME Inv0(gui), NEW w \in Visible, NEW r, r = Asked
    PROVE  /\ Fit(r, gui) /\ Inv0(r) /\ w \in Live(r) /\ w \in r.open /\ w \in Window /\ w \in Nat
           /\ r.tabs = gui.tabs /\ r.registered = gui.registered
  <1>1. Fit(r, gui) /\ Keeps(r, gui, {"inputs"})
    BY AskedFine
  <1>2. /\ r.windows = gui.windows /\ r.open = gui.open /\ r.tabs = gui.tabs
        /\ r.registered = gui.registered
    BY <1>1 DEF Keeps, Fields
  <1>3. w \in Window /\ w \in ToSet(gui.windows) /\ w \in gui.open
    BY DEF Visible, Alive, Seen
  <1>4. w \in Nat
    BY <1>3, WindowsAssumption DEF Window
  <1> QED BY <1>1, <1>2, <1>3, <1>4 DEF Fit, Live

\* PressNewWindow keeps the invariant: the window of the pane is open.
LEMMA PressNewWindowFine ==
    ASSUME Inv0(gui), NEW w \in Window, PressNewWindow(w)
    PROVE  Fit(gui', gui)
  <1> DEFINE g == Asked
  <1>1. PICK kind \in {"new window", "quick terminal", "undo", "redo", "toggle visibility"} :
           gui' = Post(g, kind, 0, {}, "")
    BY Zenon DEF PressNewWindow, App
  <1>2. w \in Visible
    BY Zenon DEF PressNewWindow
  <1>3. g = Asked
    OBVIOUS
  <1> HIDE DEF g
  <1>4. Fit(g, gui) /\ Inv0(g) /\ w \in g.open
    BY <1>2, <1>3, AskedInWindow
  <1>5. Posable(g, kind, 0, "")
    BY <1>4 DEF Posable, Kinds, AppEvents, WindowEvents
  <1>6. {} \in SUBSET Surface /\ "" \in Args /\ 0 \in Nat
    BY DEF Args
  <1> DEFINE none == {}
             nil == ""
  <1>7. /\ gui' = Post(g, kind, 0, none, nil) /\ none \in SUBSET Surface /\ nil \in Args
        /\ Posable(g, kind, 0, nil)
    BY Zenon, <1>1, <1>5, <1>6
  <1> HIDE DEF none, nil
  <1>8. Fit(gui', g)
    BY <1>4, <1>6, <1>7, PostFine
  <1> QED BY <1>4, <1>8, FitTrans

\* PressCloseAll does.
LEMMA PressCloseAllFine ==
    ASSUME Inv0(gui), NEW w \in Window, PressCloseAll(w)
    PROVE  Fit(gui', gui)
  <1> DEFINE g == Asked
  <1>1. PICK arg \in {"", "quit"} : gui' = Post(g, "close all", 0, {}, arg)
    BY Zenon DEF PressCloseAll, App
  <1>2. w \in Visible
    BY Zenon DEF PressCloseAll
  <1>3. g = Asked
    OBVIOUS
  <1> HIDE DEF g
  <1>4. Fit(g, gui) /\ Inv0(g) /\ w \in g.open
    BY <1>2, <1>3, AskedInWindow
  <1>5. Posable(g, "close all", 0, arg)
    BY <1>4 DEF Posable, Kinds, AppEvents, WindowEvents, Openings
  <1>6. {} \in SUBSET Surface /\ arg \in Args /\ 0 \in Nat
    BY DEF Args
  <1> DEFINE none == {}
             kind == "close all"
  <1>7. gui' = Post(g, kind, 0, none, arg) /\ none \in SUBSET Surface /\ Posable(g, kind, 0, arg)
    BY Zenon, <1>1, <1>5, <1>6
  <1> HIDE DEF none, kind
  <1>8. Fit(gui', g)
    BY <1>4, <1>6, <1>7, PostFine
  <1> QED BY <1>4, <1>8, FitTrans

\* PressInWindow does.
LEMMA PressInWindowFine ==
    ASSUME Inv0(gui), NEW w \in Window, PressInWindow(w)
    PROVE  Fit(gui', gui)
  <1> DEFINE g == Asked
  <1>1. PICK kind \in {"new tab", "close window"} : gui' = Post(g, kind, w, {}, "")
    BY Zenon DEF PressInWindow
  <1>2. w \in Visible
    BY Zenon DEF PressInWindow
  <1>3. g = Asked
    OBVIOUS
  <1> HIDE DEF g
  <1>4. Fit(g, gui) /\ Inv0(g) /\ w \in Live(g) /\ w \in Nat
    BY <1>2, <1>3, AskedInWindow
  <1>5. Posable(g, kind, w, "")
    BY <1>4 DEF Posable, Kinds, AppEvents, WindowEvents, Openings
  <1>6. {} \in SUBSET Surface /\ "" \in Args
    BY DEF Args
  <1> DEFINE none == {}
             nil == ""
  <1>7. /\ gui' = Post(g, kind, w, none, nil) /\ none \in SUBSET Surface /\ nil \in Args
        /\ Posable(g, kind, w, nil)
    BY Zenon, <1>1, <1>5, <1>6
  <1> HIDE DEF none, nil
  <1>8. Fit(gui', g)
    BY <1>4, <1>7, PostFine
  <1> QED BY <1>4, <1>8, FitTrans

\* What is asked about a pane.
PaneAsks(kind, arg) ==
    /\ kind \in {"new split", "close surface", "close tab"} /\ arg \in Args
    /\ kind = "close tab" => arg \in {"this", "other", "right"}

\* Events about a pane may be posted.
LEMMA PaneAsked ==
    ASSUME NEW g, Inv0(g), NEW w \in Live(g), w \in Nat, NEW one \in SUBSET Surface,
           NEW kind, NEW arg, PaneAsks(kind, arg), NEW r, r = Post(g, kind, w, one, arg)
    PROVE  Fit(r, g)
  <1>1. Posable(g, kind, w, arg)
    BY DEF PaneAsks, Posable, Kinds, AppEvents, WindowEvents, Openings
  <1>2. arg \in Args
    BY DEF PaneAsks
  <1> QED BY <1>1, <1>2, PostFine

\* PressInPane keeps the invariant.
LEMMA PressInPaneFine ==
    ASSUME Inv0(gui), NEW w \in Window, NEW s \in Surface, PressInPane(w, s)
    PROVE  Fit(gui', gui)
  <1> DEFINE g == Asked
             one == {s}
  <1>1. \/ gui' = Post(g, "new split", w, one, "")
        \/ gui' = Post(g, "close surface", w, one, "")
        \/ \E tabMode \in {"this", "other", "right"} : gui' = Post(g, "close tab", w, one, tabMode)
    BY Zenon DEF PressInPane
  <1>2. w \in Visible
    BY Zenon DEF PressInPane
  <1>3. g = Asked
    OBVIOUS
  <1> HIDE DEF g
  <1>4. Fit(g, gui) /\ Inv0(g) /\ w \in Live(g) /\ w \in Nat
    BY <1>2, <1>3, AskedInWindow
  <1>5. one \in SUBSET Surface
    OBVIOUS
  <1> HIDE DEF one
  <1> DEFINE r == gui'
  <1>6. Fit(r, g)
    <2>1. CASE r = Post(g, "new split", w, one, "")
      <3> DEFINE kind == "new split"
                 arg == ""
      <3>1. PaneAsks(kind, arg) /\ r = Post(g, kind, w, one, arg)
        BY Zenon, <2>1 DEF PaneAsks, Args
      <3> HIDE DEF kind, arg, r
      <3> QED BY <1>4, <1>5, <3>1, PaneAsked
    <2>2. CASE r = Post(g, "close surface", w, one, "")
      <3> DEFINE kind == "close surface"
                 arg == ""
      <3>1. PaneAsks(kind, arg) /\ r = Post(g, kind, w, one, arg)
        BY Zenon, <2>2 DEF PaneAsks, Args
      <3> HIDE DEF kind, arg, r
      <3> QED BY <1>4, <1>5, <3>1, PaneAsked
    <2>3. CASE \E tabMode \in {"this", "other", "right"} : r = Post(g, "close tab", w, one, tabMode)
      <3> DEFINE kind == "close tab"
      <3>1. PICK arg \in {"this", "other", "right"} : r = Post(g, kind, w, one, arg)
        BY Zenon, <2>3
      <3>2. PaneAsks(kind, arg)
        BY Zenon DEF PaneAsks, Args
      <3> HIDE DEF kind, r
      <3> QED BY <1>4, <1>5, <3>1, <3>2, PaneAsked
    <2> QED BY Zenon, <1>1, <2>1, <2>2, <2>3
  <1> QED BY <1>4, <1>6, FitTrans

-----------------------------------------------------------------------------
(* The mouse, the desktop and the timer.                                   *)

\* A tab that is clicked or dragged.
LEMMA TabPanes ==
    ASSUME Inv0(gui), NEW w \in Window, NEW i \in DOMAIN gui.tabs[w]
    PROVE  gui.tabs[w][i] \in SUBSET Surface /\ i \in Nat /\ <<i>> \in Seq(Nat)
  <1>1. gui.tabs[w] \in Seq(Page)
    BY DEF Inv0, Typed
  <1>2. gui.tabs[w][i] \in Page /\ i \in Nat
    BY <1>1
  <1>3. <<i>> \in Seq(Nat)
    BY <1>2
  <1>4. gui.tabs[w][i] \in SUBSET Surface
    BY <1>2 DEF Page
  <1> QED BY <1>2, <1>3, <1>4

\* ClickTabCross does.
LEMMA ClickTabCrossFine ==
    ASSUME Inv0(gui), NEW w \in Window, NEW i \in DOMAIN gui.tabs[w], ClickTabCross(w, i)
    PROVE  Fit(gui', gui)
  <1> DEFINE g == Asked
             r == gui'
             kind == "tab"
             panes == gui.tabs[w][i]
             arg == <<i>>
  <1>1. r \in Confirmed(g, CloseTab(g, w, i, FALSE), Open(g, kind, w, panes, arg))
    BY Zenon DEF ClickTabCross
  <1>2. w \in Visible
    BY Zenon DEF ClickTabCross
  <1>3. g = Asked
    OBVIOUS
  <1>4. kind \in FrameKinds \ {"window"} /\ panes \in SUBSET Surface /\ arg \in Seq(Nat)
    BY TabPanes DEF FrameKinds
  <1> HIDE DEF g, r, kind, panes, arg
  <1>5. Fit(g, gui) /\ Inv0(g)
    BY <1>2, <1>3, AskedInWindow
  <1>6. r = CloseTab(g, w, i, FALSE) \/ r = Open(g, kind, w, panes, arg)
    BY <1>1, ConfirmedFine
  <1>7. Fit(r, g)
    BY <1>4, <1>5, <1>6, CloseTabFine, OpenFine
  <1>8. Fit(r, gui)
    BY <1>5, <1>7, FitTrans
  <1> QED BY <1>8 DEF r

\* ClickWindowCross does.
LEMMA ClickWindowCrossFine ==
    ASSUME Inv0(gui), NEW w \in Window, ClickWindowCross(w)
    PROVE  Fit(gui', gui)
  <1> DEFINE g == Asked
             r == gui'
  <1>1. r \in Close(g, w) /\ w \in Visible
    BY Zenon DEF ClickWindowCross
  <1>2. g = Asked
    OBVIOUS
  <1> HIDE DEF g, r
  <1>3. Fit(g, gui) /\ Inv0(g)
    BY <1>1, <1>2, AskedInWindow
  <1>4. Fit(r, g)
    BY <1>1, <1>3, CloseFine
  <1>5. Fit(r, gui)
    BY <1>3, <1>4, FitTrans
  <1> QED BY <1>5 DEF r

\* StartDrag does.
LEMMA StartDragFine ==
    ASSUME Inv0(gui), NEW w \in Window, NEW i \in DOMAIN gui.tabs[w], StartDrag(w, i)
    PROVE  Fit(gui', gui)
  <1> DEFINE g == Asked
             r == gui'
             kind == "drag"
             panes == gui.tabs[w][i]
             arg == <<i>>
  <1>1. r = Open(g, kind, w, panes, arg) /\ w \in Visible
    BY Zenon DEF StartDrag
  <1>2. g = Asked
    OBVIOUS
  <1>3. kind \in FrameKinds \ {"window"} /\ panes \in SUBSET Surface /\ arg \in Seq(Nat)
    BY TabPanes DEF FrameKinds
  <1> HIDE DEF g, r, kind, panes, arg
  <1>4. Fit(g, gui) /\ Inv0(g)
    BY <1>1, <1>2, AskedInWindow
  <1>5. Fit(r, g)
    BY <1>1, <1>3, <1>4, OpenFine
  <1>6. Fit(r, gui)
    BY <1>4, <1>5, FitTrans
  <1> QED BY <1>6 DEF r

\* ScaleKnown does.
LEMMA ScaleKnownFine ==
    ASSUME Inv0(gui), NEW w \in Window, ScaleKnown(w)
    PROVE  Fit(gui', gui)
  <1>1. w \in Live(gui) /\ gui' = CreateFirstTab(gui, w)
    BY DEF ScaleKnown, Alive, Live
  <1> QED BY <1>1, CreateFirstTabFine

\* Hide does.
LEMMA HideFine ==
    ASSUME Inv0(gui), Hide
    PROVE  Fit(gui', gui)
  <1> DEFINE g == Asked
             r == gui'
             w == gui.quick
  <1>1. r = ToggleVisibility(g) \/ r = Toggled(g, w)
    BY Zenon DEF Hide
  <1>2. g = Asked
    OBVIOUS
  <1> HIDE DEF g, r, w
  <1>3. Fit(g, gui) /\ Inv0(g)
    BY <1>2, AskedFine DEF Fit
  <1>4. Fit(r, g)
    BY Zenon, <1>1, <1>3, ToggledFine
  <1>5. Fit(r, gui)
    BY <1>3, <1>4, FitTrans
  <1> QED BY <1>5 DEF r

\* A window whose app cannot be made leaves things as the last destructor does.
LEMMA UninitializedFine ==
    ASSUME NEW g, Inv0(g), NEW r \in UninitializedWindow(g)
    PROVE  Fit(r, g)
  <1> DEFINE h == HandleQuitTimer(g, FALSE)
  <1>1. ~g.app /\ r \in LastGone(h)
    BY Zenon DEF UninitializedWindow
  <1>2. Inv0(h) /\ Keeps(h, g, {"timer"})
    BY StopFine
  <1> HIDE DEF h
  <1>3. h.windows = <<>>
    BY <1>1, <1>2 DEF Inv0, Living, Keeps, Fields
  <1>4. CASE h.mode = "delay"
    <2>1. r = ArmQuitTimer(h)
      BY Zenon, <1>1, <1>4 DEF LastGone
    <2> QED BY <1>2, <1>3, <1>4, <2>1, ArmFine DEF Fit
  <1>5. CASE h.mode # "delay"
    <2>1. r \in Teardown(h)
      BY Zenon, <1>1, <1>5 DEF LastGone
    <2>2. Headless(h)
      BY <1>2, <1>3, <1>5 DEF Headless
    <2> QED BY <2>1, <2>2, TeardownFine DEF Fit
  <1> QED BY <1>4, <1>5

\* Activate does.
LEMMA ActivateFine ==
    ASSUME Inv0(gui), Activate
    PROVE  Fit(gui', gui)
  <1> DEFINE g == Asked
             r == gui'
  <1>1. r \in NewWindow(g) \/ r \in ToggleQuickTerminal(g) \/ r \in UninitializedWindow(g)
    BY Zenon DEF Activate
  <1>2. g = Asked
    OBVIOUS
  <1> HIDE DEF g, r
  <1>3. Fit(g, gui) /\ Inv0(g)
    BY <1>2, AskedFine DEF Fit
  <1>4. Fit(r, g)
    BY <1>1, <1>3, NewWindowFine, ToggleQuickTerminalFine, UninitializedFine
  <1>5. Fit(r, gui)
    BY <1>3, <1>4, FitTrans
  <1> QED BY <1>5 DEF r

\* The phase changes, and nothing else.
LEMMA PhaseEnds ==
    ASSUME NEW g, Inv0(g), NEW p \in {"quit", "undefined"}, NEW r, r = [g EXCEPT !.phase = p]
    PROVE  Fit(r, g)
  <1>1. DOMAIN g = Fields
    BY Zenon DEF Inv0, Typed
  <1> DEFINE h == r
  <1>2. Keeps(h, g, {"phase"}) /\ h.phase = p
    BY Zenon, <1>1, PhaseFields
  <1> HIDE DEF h
  <1>3. Fit(h, g)
    BY <1>2, PhaseFine
  <1> QED BY Zenon, <1>3 DEF h

\* TimerFires does.
LEMMA TimerFiresFine ==
    ASSUME Inv0(gui), TimerFires
    PROVE  Fit(gui', gui)
  <1> DEFINE r == gui'
             p == "quit"
  <1>1. r = [gui EXCEPT !.phase = p]
    BY Zenon DEF TimerFires
  <1>2. p \in {"quit", "undefined"}
    OBVIOUS
  <1> HIDE DEF r, p
  <1>3. Fit(r, gui)
    BY Zenon, <1>1, <1>2, PhaseEnds
  <1> QED BY Zenon, <1>3 DEF r

\* A shell ends.
LEMMA QuieterFine ==
    ASSUME Inv0(gui), NEW s, NEW r, r = [Asked EXCEPT !.running = @ \ {s}]
    PROVE  Fit(r, gui) /\ Keeps(r, gui, {"inputs", "running"})
  <1> DEFINE a == Asked
  <1>1. r = [a EXCEPT !.running = @ \ {s}] /\ a = Asked
    BY Zenon
  <1> HIDE DEF a
  <1>2. Fit(a, gui) /\ Keeps(a, gui, {"inputs"}) /\ Inv0(a)
    BY Zenon, <1>1, AskedFine DEF Fit
  <1>3. DOMAIN a = Fields
    BY Zenon, <1>2 DEF Inv0, Typed
  <1>4. Keeps(r, a, {"running"})
    BY Zenon, <1>1, <1>3 DEF Keeps, Fields
  <1>5. r.running = a.running \ {s}
    BY Zenon, <1>1, <1>3 DEF Fields
  <1> DEFINE x == r
  <1>6. Keeps(x, a, {"running"}) /\ x.running = a.running \ {s}
    BY Zenon, <1>4, <1>5
  <1> HIDE DEF x
  <1>7. /\ x.skip = a.skip /\ x.pending = a.pending /\ x.hidden = a.hidden /\ x.undo = a.undo /\ x.redo = a.redo
    BY <1>6 DEF Keeps, Fields
  <1>8. Keeps(x, a, Free)
    <2>1. {"running"} \subseteq Free
      BY DEF Free
    <2> QED BY Zenon, <1>6, <2>1, KeepsMore
  <1>9. Beside(x, a)
    BY <1>2, <1>6, <1>7, <1>8 DEF Beside, Inv0, Typed
  <1>10. Fit(x, gui)
    BY <1>2, <1>9, FitBeside, FitTrans
  <1>11. Keeps(x, gui, {"inputs"} \cup {"running"})
    BY Zenon, <1>2, <1>6, KeepsTrans
  <1>12. Keeps(x, gui, {"inputs", "running"})
    <2>1. {"inputs"} \cup {"running"} \subseteq {"inputs", "running"}
      OBVIOUS
    <2> QED BY Zenon, <1>11, <2>1, KeepsMore
  <1> QED BY Zenon, <1>10, <1>12 DEF x

-----------------------------------------------------------------------------
(* Shells that end, and loops that end.                                    *)

\* The owner of a pane that a window lists is a live window.
LEMMA OwnerLives ==
    ASSUME NEW g, Inv0(g), NEW s \in Registered(g)
    PROVE  g.owner[s] \in Live(g) /\ g.owner[s] \in Window
  <1>1. PICK w \in Window : s \in g.registered[w]
    BY DEF Registered
  <1>2. Owning(g) /\ Living(g)
    BY DEF Inv0
  <1>3. g.owner[s] = w /\ g.registered[w] = UNION ToSet(g.tabs[w])
    BY <1>1, <1>2 DEF Owning
  <1>4. w \in Live(g)
    <2> SUFFICES ASSUME w \notin Live(g) PROVE FALSE
      OBVIOUS
    <2>1. g.tabs[w] = <<>>
      BY <1>2 DEF Living
    <2>2. ToSet(g.tabs[w]) = {}
      BY <2>1 DEF ToSet
    <2> QED BY <1>1, <1>3, <2>2
  <1> QED BY <1>3, <1>4

\* ShellExits does: the request to close the pane goes to a live window.
LEMMA ShellExitsFine ==
    ASSUME Inv0(gui), NEW s \in Surface, ShellExits(s)
    PROVE  Fit(gui', gui)
  <1> DEFINE g == [Asked EXCEPT !.running = @ \ {s}]
             r == gui'
             w == gui.owner[s]
             one == {s}
             kind == "close surface"
             arg == ""
  <1>1. \/ s \in Registered(gui) /\ r = Post(g, kind, w, one, arg)
        \/ r = g
    BY Zenon DEF ShellExits
  <1>2. Fit(g, gui) /\ Keeps(g, gui, {"inputs", "running"})
    <2>1. g = [Asked EXCEPT !.running = @ \ {s}]
      BY Zenon
    <2> HIDE DEF g
    <2> QED BY Zenon, <2>1, QuieterFine
  <1>3. PaneAsks(kind, arg) /\ one \in SUBSET Surface
    <2>1. PaneAsks(kind, arg)
      BY Zenon DEF PaneAsks, Args
    <2>2. one \in SUBSET Surface
      BY Zenon
    <2> QED BY Zenon, <2>1, <2>2
  <1> HIDE DEF g, r, one, kind, arg
  <1>4. Inv0(g) /\ Live(g) = Live(gui)
    BY <1>2 DEF Fit, Keeps, Fields, Live
  <1>5. CASE s \in Registered(gui) /\ r = Post(g, kind, w, one, arg)
    <2>1. w \in Live(g) /\ w \in Nat
      <3>1. w \in Live(gui) /\ w \in Window
        BY <1>5, OwnerLives
      <3>2. w \in Nat
        BY <3>1, WindowsAssumption DEF Window
      <3> QED BY <1>4, <3>1, <3>2
    <2> HIDE DEF w
    <2>2. Fit(r, g)
      BY <1>3, <1>4, <1>5, <2>1, PaneAsked
    <2>3. Fit(r, gui)
      BY <1>2, <2>2, FitTrans
    <2> QED BY <2>3 DEF r
  <1>6. CASE r = g
    BY <1>2, <1>6 DEF r
  <1> QED BY Zenon, <1>1, <1>5, <1>6

\* The innermost loop ends.
Popped(back, g) ==
    /\ Keeps(back, g, {"stack", "closing"})
    /\ back.stack = Front(g.stack)
    /\ back.closing = IF Last(g.stack).kind = "window"
                          THEN g.closing \ {Last(g.stack).window} ELSE g.closing

\* A sequence without its last element.
LEMMA FrontLast ==
    ASSUME NEW S, NEW q \in Seq(S), Len(q) > 0
    PROVE  /\ Last(q) = q[Len(q)] /\ Last(q) \in S /\ Len(q) \in DOMAIN q
           /\ Front(q) \in Seq(S) /\ Len(Front(q)) = Len(q) - 1
           /\ \A k \in DOMAIN Front(q) : k \in DOMAIN q /\ Front(q)[k] = q[k] /\ k # Len(q)
  <1>1. Len(q) \in Nat /\ Len(q) \in 1..Len(q)
    OBVIOUS
  <1>2. Last(q) = q[Len(q)]
    BY DEF Last
  <1>3. /\ SubSeq(q, 1, Len(q) - 1) \in Seq(S)
        /\ Len(SubSeq(q, 1, Len(q) - 1)) = Len(q) - 1
        /\ \A k \in 1..(Len(q) - 1) : SubSeq(q, 1, Len(q) - 1)[k] = q[k]
    <2>1. Len(q) - 1 \in Nat /\ 1 \in Nat
      BY <1>1
    <2>2. \A k \in 1..(Len(q) - 1) : q[k] \in S
      BY <1>1
    <2>3. /\ SubSeq(q, 1, Len(q) - 1) \in Seq(S)
          /\ Len(SubSeq(q, 1, Len(q) - 1)) = IF 1 <= Len(q) - 1 THEN Len(q) - 1 - 1 + 1 ELSE 0
          /\ \A k \in 1..(Len(q) - 1 - 1 + 1) : SubSeq(q, 1, Len(q) - 1)[k] = q[1 + k - 1]
      BY <2>1, <2>2, SubSeqProperties
    <2>4. \A k \in 1..(Len(q) - 1) : k \in 1..(Len(q) - 1 - 1 + 1) /\ 1 + k - 1 = k
      BY <1>1
    <2>5. (IF 1 <= Len(q) - 1 THEN Len(q) - 1 - 1 + 1 ELSE 0) = Len(q) - 1
      <3> DEFINE n == Len(q)
      <3>1. n \in Nat /\ n > 0
        OBVIOUS
      <3> HIDE DEF n
      <3>2. (IF 1 <= n - 1 THEN n - 1 - 1 + 1 ELSE 0) = n - 1
        BY <3>1
      <3> QED BY <3>2 DEF n
    <2> DEFINE f == SubSeq(q, 1, Len(q) - 1)
    <2>6. f \in Seq(S) /\ Len(f) = Len(q) - 1
      BY <2>3, <2>5
    <2>7. \A k \in 1..(Len(q) - 1 - 1 + 1) : f[k] = q[1 + k - 1]
      BY <2>3
    <2> HIDE DEF f
    <2>8. ASSUME NEW k \in 1..(Len(q) - 1) PROVE f[k] = q[k]
      <3>1. k \in 1..(Len(q) - 1 - 1 + 1) /\ 1 + k - 1 = k
        BY <2>4
      <3>2. f[k] = q[1 + k - 1]
        BY <2>7, <3>1
      <3> QED BY <3>1, <3>2
    <2> QED BY <2>6, <2>8 DEF f
  <1>4. Front(q) = SubSeq(q, 1, Len(q) - 1)
    BY DEF Front
  <1> DEFINE f == Front(q)
  <1>5. f \in Seq(S) /\ Len(f) = Len(q) - 1 /\ \A k \in 1..(Len(q) - 1) : f[k] = q[k]
    BY <1>3, <1>4
  <1> HIDE DEF f
  <1>6. DOMAIN f = 1..(Len(q) - 1) /\ DOMAIN q = 1..Len(q)
    BY <1>5
  <1>7. \A k \in DOMAIN f : k \in DOMAIN q /\ f[k] = q[k] /\ k # Len(q)
    BY <1>1, <1>5, <1>6
  <1>8. Last(q) \in S
    BY <1>1, <1>2
  <1> QED BY <1>1, <1>2, <1>5, <1>6, <1>7, <1>8 DEF f

\* Once the loop of a closing window has ended, no other is about its closing.
LEMMA PoppedFine ==
    ASSUME NEW g, Inv0(g), Len(g.stack) > 0, NEW back, Popped(back, g)
    PROVE  LET top == Last(g.stack)
           IN  /\ Fit(back, g) /\ Inv0(back) /\ top \in Frames
               /\ top.kind = "window" => NoFrame(back, top.window) /\ top.window \in back.open
  <1> DEFINE top == Last(g.stack)
             f == Front(g.stack)
             q == g.stack
             N == Len(q)
  <1>1. /\ Typed(g) /\ Framed(g) /\ q \in Seq(Frames)
    BY DEF Inv0, Typed
  <1>2. /\ top = q[N] /\ top \in Frames /\ N \in DOMAIN q
        /\ f \in Seq(Frames)
        /\ \A k \in DOMAIN f : k \in DOMAIN q /\ f[k] = q[k] /\ k # N
    BY <1>1, FrontLast
  <1>3. /\ back.open = g.open /\ back.stack = f
        /\ back.closing = IF top.kind = "window" THEN g.closing \ {top.window} ELSE g.closing
        /\ Keeps(back, g, {"stack", "closing"})
    BY DEF Popped, Keeps, Fields
  <1>4. /\ \A i \in DOMAIN q : q[i].kind = "window" => q[i].window \in g.open /\ q[i].window \in g.closing
        /\ \A i, j \in DOMAIN q : q[i].kind = "window" /\ q[j].kind = "window"
                                  /\ q[i].window = q[j].window => i = j
    <2>1. \A i \in DOMAIN q : q[i].kind = "window" => q[i].window \in g.open \cap g.closing
      BY Zenon, <1>1 DEF Framed
    <2>2. \A i, j \in DOMAIN q : q[i].kind = "window" /\ q[j].kind = "window"
                                 /\ q[i].window = q[j].window => i = j
      BY Zenon, <1>1 DEF Framed
    <2> HIDE DEF q
    <2> QED BY <2>1, <2>2
  <1>5. g.closing \subseteq Window
    BY <1>1 DEF Typed
  <1> HIDE DEF top, f, q, N
  <1>6. top.kind = "window" => \A k \in DOMAIN f : f[k].kind = "window" => f[k].window # top.window
    BY <1>2, <1>4
  <1>7. Framed(back)
    <2>1. \A i \in DOMAIN f : f[i].kind = "window" => f[i].window \in back.open \cap back.closing
      BY <1>2, <1>3, <1>4, <1>6
    <2>2. \A i, j \in DOMAIN f : f[i].kind = "window" /\ f[j].kind = "window"
                                 /\ f[i].window = f[j].window => i = j
      BY <1>2, <1>4
    <2> QED BY <1>3, <2>1, <2>2 DEF Framed
  <1>8. back.closing \subseteq Window
    BY <1>3, <1>5
  <1>9. Fit(back, g)
    BY <1>2, <1>3, <1>7, <1>8, Stacked
  <1>10. top.kind = "window" => NoFrame(back, top.window) /\ top.window \in back.open
    BY <1>2, <1>3, <1>4, <1>6 DEF NoFrame
  <1> QED BY <1>2, <1>9, <1>10 DEF top, Fit

-----------------------------------------------------------------------------
(* Dialogs and drags that end.                                             *)

\* A dialog has ended.
LEMMA PoppedFields ==
    ASSUME NEW g, DOMAIN g = Fields, NEW back,
           back = [g EXCEPT !.stack = Front(@),
                            !.closing = @ \ (IF Last(g.stack).kind = "window" THEN {Last(g.stack).window} ELSE {})]
    PROVE  Popped(back, g)
  <1>1. Keeps(back, g, {"stack", "closing"})
    BY Zenon DEF Keeps, Fields
  <1>2. back.stack = Front(g.stack)
    BY Zenon DEF Fields
  <1>3. back.closing = g.closing \ (IF Last(g.stack).kind = "window" THEN {Last(g.stack).window} ELSE {})
    BY Zenon DEF Fields
  <1>4. back.closing = IF Last(g.stack).kind = "window" THEN g.closing \ {Last(g.stack).window} ELSE g.closing
    <2> DEFINE b == back.closing
               c == g.closing
               top == Last(g.stack)
    <2>1. b = c \ (IF top.kind = "window" THEN {top.window} ELSE {})
      BY Zenon, <1>3
    <2> HIDE DEF b, c, top
    <2>2. b = IF top.kind = "window" THEN c \ {top.window} ELSE c
      BY <2>1
    <2> QED BY Zenon, <2>2 DEF b, c, top
  <1> QED BY Zenon, <1>1, <1>2, <1>4 DEF Popped

\* A drag has ended.
LEMMA DragPopped ==
    ASSUME NEW g, DOMAIN g = Fields, Last(g.stack).kind = "drag", NEW back, back = [g EXCEPT !.stack = Front(@)]
    PROVE  Popped(back, g)
  <1>1. Keeps(back, g, {"stack"})
    BY Zenon DEF Keeps, Fields
  <1>2. back.stack = Front(g.stack)
    BY Zenon DEF Fields
  <1>3. back.closing = g.closing
    BY Zenon, <1>1 DEF Keeps, Fields
  <1>4. Keeps(back, g, {"stack", "closing"})
    <2>1. {"stack"} \subseteq {"stack", "closing"}
      OBVIOUS
    <2> QED BY Zenon, <1>1, <2>1, KeepsMore
  <1>5. Last(g.stack).kind # "window"
    BY Zenon
  <1> QED BY Zenon, <1>2, <1>3, <1>4, <1>5 DEF Popped

\* Reject keeps the invariant.
LEMMA RejectFine ==
    ASSUME Inv0(gui), Reject
    PROVE  Fit(gui', gui)
  <1> DEFINE r == gui'
  <1>1. DOMAIN gui = Fields
    BY Zenon DEF Inv0, Typed
  <1>2. r = [gui EXCEPT !.stack = Front(@),
                        !.closing = @ \ (IF Last(gui.stack).kind = "window" THEN {Last(gui.stack).window} ELSE {})]
    BY Zenon DEF Reject, Top
  <1>3. Len(gui.stack) > 0
    BY Zenon DEF Reject, Depth
  <1> HIDE DEF r
  <1>4. Popped(r, gui)
    BY Zenon, <1>1, <1>2, PoppedFields
  <1>5. Fit(r, gui)
    BY <1>3, <1>4, PoppedFine
  <1> QED BY Zenon, <1>5 DEF r

\* What a dialog that is answered with Close does.
LEMMA AcceptedFine ==
    ASSUME NEW g, Inv0(g), NEW top \in Frames, NEW r,
           top.kind = "window" => NoFrame(g, top.window) /\ top.window \in g.open,
           \/ r = RemoveSurface(g, top.window, CHOOSE s \in top.panes : TRUE)
           \/ r = CloseTab(g, top.window, top.arg[1], FALSE)
           \/ r = CloseTabs(g, top.window, top.arg)
           \/ top.kind = "window" /\ r = AcceptClose(g, top.window, FALSE)
           \/ r = CloseAll(g, top.kind = "quit all")
    PROVE  Fit(r, g)
  <1>1. top.window \in Window /\ top.arg \in Seq(Nat)
    BY DEF Frames
  <1>2. CASE r = RemoveSurface(g, top.window, CHOOSE s \in top.panes : TRUE)
    BY <1>1, <1>2, RemoveSurfaceFine
  <1>3. CASE r = CloseTab(g, top.window, top.arg[1], FALSE)
    BY <1>1, <1>3, CloseTabFine
  <1>4. CASE r = CloseTabs(g, top.window, top.arg)
    BY <1>1, <1>4, CloseTabsFine
  <1>5. CASE top.kind = "window" /\ r = AcceptClose(g, top.window, FALSE)
    BY <1>5, AcceptCloseFine DEF Fit
  <1>6. CASE r = CloseAll(g, top.kind = "quit all")
    BY Zenon, <1>6, CloseAllFine
  <1> QED BY <1>2, <1>3, <1>4, <1>5, <1>6

\* What Accept may do.
LEMMA AcceptCases ==
    ASSUME Accept, Last(gui.stack).kind \in FrameKinds
    PROVE  LET top == Last(gui.stack)
               back == [gui EXCEPT !.stack = Front(@),
                                   !.closing = @ \ (IF top.kind = "window" THEN {top.window} ELSE {})]
           IN  \/ gui' = RemoveSurface(back, top.window, CHOOSE s \in top.panes : TRUE)
               \/ gui' = CloseTab(back, top.window, top.arg[1], FALSE)
               \/ gui' = CloseTabs(back, top.window, top.arg)
               \/ top.kind = "window" /\ gui' = AcceptClose(back, top.window, FALSE)
               \/ gui' = CloseAll(back, top.kind = "quit all")
  BY Zenon DEF Accept, Top, FrameKinds

\* Accept keeps the invariant.
LEMMA AcceptFine ==
    ASSUME Inv0(gui), Accept
    PROVE  Fit(gui', gui)
  <1> DEFINE r == gui'
             top == Last(gui.stack)
             back == [gui EXCEPT !.stack = Front(@),
                                 !.closing = @ \ (IF top.kind = "window" THEN {top.window} ELSE {})]
  <1>1. DOMAIN gui = Fields /\ gui.stack \in Seq(Frames)
    BY Zenon DEF Inv0, Typed
  <1>2. Len(gui.stack) > 0
    BY Zenon DEF Accept, Depth
  <1>3. top \in Frames
    BY <1>1, <1>2, FrontLast
  <1>4. top.kind \in FrameKinds
    BY <1>3 DEF Frames
  <1>5. \/ r = RemoveSurface(back, top.window, CHOOSE s \in top.panes : TRUE)
        \/ r = CloseTab(back, top.window, top.arg[1], FALSE)
        \/ r = CloseTabs(back, top.window, top.arg)
        \/ top.kind = "window" /\ r = AcceptClose(back, top.window, FALSE)
        \/ r = CloseAll(back, top.kind = "quit all")
    BY Zenon, <1>4, AcceptCases
  <1>6. Popped(back, gui)
    BY Zenon, <1>1, PoppedFields
  <1> HIDE DEF r, back
  <1>7. /\ Fit(back, gui) /\ Inv0(back)
        /\ top.kind = "window" => NoFrame(back, top.window) /\ top.window \in back.open
    BY <1>2, <1>6, PoppedFine
  <1> HIDE DEF top
  <1>8. Fit(r, back)
    BY Zenon, <1>3, <1>5, <1>7, AcceptedFine
  <1>9. Fit(r, gui)
    BY <1>7, <1>8, FitTrans
  <1> QED BY Zenon, <1>9 DEF r

\* EndDrag does.
LEMMA EndDragFine ==
    ASSUME Inv0(gui), EndDrag
    PROVE  Fit(gui', gui)
  <1> DEFINE r == gui'
             top == Last(gui.stack)
             back == [gui EXCEPT !.stack = Front(@)]
  <1>1. DOMAIN gui = Fields
    BY Zenon DEF Inv0, Typed
  <1>2. Len(gui.stack) > 0 /\ top.kind = "drag"
    BY Zenon DEF EndDrag, Depth, Top
  <1>3. r = back \/ r = DetachTab(back, top.window, top.arg[1])
    BY Zenon DEF EndDrag, Top
  <1>4. Popped(back, gui)
    BY Zenon, <1>1, <1>2, DragPopped
  <1> HIDE DEF r, back
  <1>5. Fit(back, gui) /\ Inv0(back) /\ top \in Frames
    BY <1>2, <1>4, PoppedFine
  <1>6. top.window \in Window
    BY <1>5 DEF Frames
  <1> HIDE DEF top
  <1>7. Fit(r, back)
    BY Zenon, <1>3, <1>5, <1>6, DetachTabFine, FitSelf
  <1>8. Fit(r, gui)
    BY <1>5, <1>7, FitTrans
  <1> QED BY Zenon, <1>8 DEF r

\* Drop does.
LEMMA DropFine ==
    ASSUME Inv0(gui), NEW w \in Window, Drop(w)
    PROVE  Fit(gui', gui)
  <1> DEFINE r == gui'
             top == Last(gui.stack)
             back == [gui EXCEPT !.stack = Front(@)]
  <1>1. DOMAIN gui = Fields
    BY Zenon DEF Inv0, Typed
  <1>2. Len(gui.stack) > 0 /\ top.kind = "drag" /\ w \in Visible /\ w # top.window
    BY Zenon DEF Drop, Depth, Top
  <1>3. PICK i \in DOMAIN gui.tabs[top.window] : r = AdoptTab(back, top.window, w, i)
    BY Zenon DEF Drop, Top
  <1>4. Popped(back, gui)
    BY Zenon, <1>1, <1>2, DragPopped
  <1> HIDE DEF r, back
  <1>5. Fit(back, gui) /\ Inv0(back) /\ top \in Frames
    BY <1>2, <1>4, PoppedFine
  <1>6. back.tabs = gui.tabs /\ back.windows = gui.windows
    BY <1>4 DEF Popped, Keeps, Fields
  <1>7. top.window \in Window /\ w \in Live(back) /\ i \in DOMAIN back.tabs[top.window]
    BY <1>2, <1>5, <1>6 DEF Frames, Visible, Alive, Live
  <1> DEFINE src == top.window
  <1>8. src \in Window /\ w \in Live(back) /\ i \in DOMAIN back.tabs[src] /\ src # w
        /\ r = AdoptTab(back, src, w, i)
    BY Zenon, <1>2, <1>3, <1>7
  <1> HIDE DEF src, top
  <1>9. Fit(r, back)
    BY <1>5, <1>8, AdoptTabFine
  <1>10. Fit(r, gui)
    BY <1>5, <1>9, FitTrans
  <1> QED BY Zenon, <1>10 DEF r

-----------------------------------------------------------------------------
(* Events of windows.                                                      *)

\* Where an event of the queue was before the deletions ahead of d went behind.
Turn(n, d, k) == IF k <= n - d + 1 THEN k + d - 1 ELSE k - (n - d + 1)

\* What a queue is whose first d - 1 events went behind.
Turning(t, g, d) ==
    LET n == Len(g.queue)
    IN  /\ t.queue \in Seq(Events) /\ 1 \in DOMAIN t.queue /\ Turn(n, d, 1) = d
        /\ \A k \in DOMAIN t.queue : k \in Nat /\ k > 0
        /\ \A k \in DOMAIN t.queue : /\ Turn(n, d, k) \in DOMAIN g.queue
                                      /\ t.queue[k] = g.queue[Turn(n, d, k)]
        /\ \A i \in DOMAIN g.queue : \E k \in DOMAIN t.queue : Turn(n, d, k) = i
        /\ \A k, l \in DOMAIN t.queue : Turn(n, d, k) = Turn(n, d, l) => k = l
        /\ \A k, l \in DOMAIN t.queue : Turn(n, d, k) >= d /\ Turn(n, d, l) > Turn(n, d, k) => l > k

\* A sequence is turned so that what was at d comes first.
Round(P, n, d) == SubSeq(P, d, n) \o SubSeq(P, 1, d - 1)

\* Where its elements are then.
LEMMA SeqTurned ==
    ASSUME NEW P \in Seq(Events), NEW d \in 1..Len(P)
    PROVE  LET n == Len(P)
               Q == Round(P, n, d)
           IN  /\ Q \in Seq(Events) /\ DOMAIN Q = 1..n
               /\ \A k \in 1..n : Turn(n, d, k) \in 1..n /\ Q[k] = P[Turn(n, d, k)]
  <1> SUFFICES ASSUME NEW n, n = Len(P), NEW Q, Q = Round(P, n, d)
               PROVE  /\ Q \in Seq(Events) /\ DOMAIN Q = 1..n
                      /\ \A k \in 1..n : Turn(n, d, k) \in 1..n /\ Q[k] = P[Turn(n, d, k)]
    OBVIOUS
  <1>1. n \in Nat /\ d \in Nat /\ d >= 1 /\ d <= n /\ \A k \in 1..n : P[k] \in Events
    OBVIOUS
  <1>2. PICK a : a = SubSeq(P, d, n)
    OBVIOUS
  <1>3. PICK b : b = SubSeq(P, 1, d - 1)
    OBVIOUS
  <1>4. a \in Seq(Events) /\ Len(a) = n - d + 1 /\ \A k \in 1..(n - d + 1) : a[k] = P[d + k - 1]
    <2>1. \A k \in d..n : P[k] \in Events
      BY <1>1
    <2>2. /\ a \in Seq(Events) /\ Len(a) = IF d <= n THEN n - d + 1 ELSE 0
          /\ \A k \in 1..(n - d + 1) : a[k] = P[d + k - 1]
      BY <1>1, <1>2, <2>1, SubSeqProperties
    <2> QED BY <1>1, <2>2
  <1>5. b \in Seq(Events) /\ Len(b) = d - 1 /\ \A k \in 1..(d - 1) : b[k] = P[k]
    <2>1. \A k \in 1..(d - 1) : P[k] \in Events
      BY <1>1
    <2>2. /\ b \in Seq(Events) /\ Len(b) = IF 1 <= d - 1 THEN (d - 1) - 1 + 1 ELSE 0
          /\ \A k \in 1..((d - 1) - 1 + 1) : b[k] = P[1 + k - 1]
      BY <1>1, <1>3, <2>1, SubSeqProperties
    <2>3. (d - 1) - 1 + 1 = d - 1 /\ \A k \in 1..(d - 1) : 1 + k - 1 = k
      BY <1>1
    <2>4. Len(b) = d - 1
      BY <1>1, <2>2
    <2> QED BY <1>1, <2>2, <2>3, <2>4
  <1>6. Q = a \o b
    BY <1>2, <1>3 DEF Round
  <1>7. /\ Q \in Seq(Events) /\ DOMAIN Q = 1..n
        /\ \A k \in 1..n : Q[k] = IF k <= n - d + 1 THEN a[k] ELSE b[k - (n - d + 1)]
    <2>1. a \in Seq(Events) /\ b \in Seq(Events) /\ Len(a) = n - d + 1 /\ Len(a) + Len(b) = n
      BY <1>1, <1>4, <1>5
    <2>2. /\ a \o b \in Seq(Events) /\ Len(a \o b) = Len(a) + Len(b)
          /\ \A k \in 1..(Len(a) + Len(b)) :
                (a \o b)[k] = IF k <= Len(a) THEN a[k] ELSE b[k - Len(a)]
      BY <2>1, ConcatProperties
    <2>3. Q \in Seq(Events) /\ Len(Q) = n
      BY <1>6, <2>1, <2>2
    <2>4. \A k \in 1..n : Q[k] = IF k <= Len(a) THEN a[k] ELSE b[k - Len(a)]
      BY Zenon, <1>6, <2>1, <2>2
    <2>5. DOMAIN Q = 1..n
      BY <2>3
    <2>6. Len(a) = n - d + 1
      BY <2>1
    <2> QED BY Zenon, <2>3, <2>4, <2>5, <2>6
  <1>8. ASSUME NEW k \in 1..n PROVE Turn(n, d, k) \in 1..n /\ Q[k] = P[Turn(n, d, k)]
    <2>1. CASE k <= n - d + 1
      <3>1. k \in 1..(n - d + 1) /\ Turn(n, d, k) = d + k - 1 /\ d + k - 1 \in 1..n
        BY <1>1, <2>1 DEF Turn
      <3>2. Q[k] = a[k]
        BY <1>7, <2>1
      <3>3. a[k] = P[d + k - 1]
        BY <1>4, <3>1
      <3> QED BY Zenon, <3>1, <3>2, <3>3
    <2>2. CASE ~(k <= n - d + 1)
      <3>1. k - (n - d + 1) \in 1..(d - 1)
        BY <1>1, <2>2
      <3>2. Turn(n, d, k) = k - (n - d + 1)
        BY Zenon, <2>2 DEF Turn
      <3>3. Q[k] = b[k - (n - d + 1)]
        BY Zenon, <1>7, <2>2
      <3>4. b[k - (n - d + 1)] = P[k - (n - d + 1)]
        BY Zenon, <1>5, <3>1
      <3>5. k - (n - d + 1) \in 1..n
        BY <1>1, <3>1
      <3> QED BY Zenon, <3>2, <3>3, <3>4, <3>5
    <2> QED BY <2>1, <2>2
  <1> QED BY <1>7, <1>8

\* Turning is one to one, and what comes after d stays behind it.
LEMMA TurnsRound ==
    ASSUME NEW n \in Nat, NEW d \in 1..n
    PROVE  /\ \A i \in 1..n : \E k \in 1..n : Turn(n, d, k) = i
           /\ \A k, l \in 1..n : Turn(n, d, k) = Turn(n, d, l) => k = l
           /\ \A k, l \in 1..n : Turn(n, d, k) >= d /\ Turn(n, d, l) > Turn(n, d, k) => l > k
           /\ 1 \in 1..n /\ Turn(n, d, 1) = d
  <1>1. ASSUME NEW i \in 1..n PROVE \E k \in 1..n : Turn(n, d, k) = i
    <2>1. CASE i >= d
      <3>1. i - d + 1 \in 1..n /\ Turn(n, d, i - d + 1) = i
        BY <2>1 DEF Turn
      <3> QED BY <3>1
    <2>2. CASE i < d
      <3>1. i + (n - d + 1) \in 1..n /\ Turn(n, d, i + (n - d + 1)) = i
        BY <2>2 DEF Turn
      <3> QED BY <3>1
    <2> QED BY <2>1, <2>2
  <1>2. \A k, l \in 1..n : Turn(n, d, k) = Turn(n, d, l) => k = l
    BY DEF Turn
  <1>3. \A k, l \in 1..n : Turn(n, d, k) >= d /\ Turn(n, d, l) > Turn(n, d, k) => l > k
    BY DEF Turn
  <1>4. 1 \in 1..n /\ Turn(n, d, 1) = d
    BY DEF Turn
  <1> QED BY <1>1, <1>2, <1>3, <1>4

\* The queue is turned so that d comes first.
LEMMA Turned ==
    ASSUME NEW g, NEW t, NEW d, g.queue \in Seq(Events), d \in DOMAIN g.queue,
           t.queue = SubSeq(g.queue, d, Len(g.queue)) \o SubSeq(g.queue, 1, d - 1)
    PROVE  Turning(t, g, d)
  <1>1. PICK P : P = g.queue
    OBVIOUS
  <1>2. PICK Q : Q = t.queue
    OBVIOUS
  <1>3. PICK n : n = Len(P)
    OBVIOUS
  <1>4. P \in Seq(Events) /\ n \in Nat /\ DOMAIN P = 1..n /\ d \in 1..n
    <2>1. P \in Seq(Events) /\ d \in DOMAIN P
      BY Zenon, <1>1
    <2>2. n \in Nat /\ DOMAIN P = 1..n
      BY <1>3, <2>1
    <2> QED BY <2>1, <2>2
  <1>5. Q = Round(P, n, d)
    BY Zenon, <1>1, <1>2, <1>3 DEF Round
  <1>6. /\ Q \in Seq(Events) /\ DOMAIN Q = 1..n
        /\ \A k \in 1..n : Turn(n, d, k) \in 1..n /\ Q[k] = P[Turn(n, d, k)]
    <2>1. d \in 1..Len(P) /\ Q = Round(P, Len(P), d)
      BY Zenon, <1>3, <1>4, <1>5
    <2>2. LET N == Len(P)
              R == Round(P, N, d)
          IN  /\ R \in Seq(Events) /\ DOMAIN R = 1..N
              /\ \A k \in 1..N : Turn(N, d, k) \in 1..N /\ R[k] = P[Turn(N, d, k)]
      BY Zenon, <1>4, <2>1, SeqTurned
    <2> QED BY Zenon, <1>3, <2>1, <2>2
  <1>7. /\ \A i \in 1..n : \E k \in 1..n : Turn(n, d, k) = i
        /\ \A k, l \in 1..n : Turn(n, d, k) = Turn(n, d, l) => k = l
        /\ \A k, l \in 1..n : Turn(n, d, k) >= d /\ Turn(n, d, l) > Turn(n, d, k) => l > k
        /\ 1 \in 1..n /\ Turn(n, d, 1) = d
    BY <1>4, TurnsRound
  <1>8. \A k \in 1..n : k \in Nat /\ k > 0
    BY <1>4
  <1> QED BY <1>1, <1>2, <1>3, <1>4, <1>6, <1>7, <1>8 DEF Turning

\* Deletions that wait may go behind: the order of all other events stays, and no
\* deletion comes nearer.
LEMMA TurnedFine ==
    ASSUME NEW g, NEW t, NEW d, Inv0(g), Keeps(t, g, {"queue"}), Turning(t, g, d), d \in Nat,
           \A i \in DOMAIN g.queue : i < d => g.queue[i].kind \in Deletions
    PROVE  Fit(t, g)
  <1>1. /\ t.app = g.app /\ t.windows = g.windows /\ t.open = g.open /\ t.tabs = g.tabs
        /\ t.registered = g.registered /\ t.owner = g.owner /\ t.core = g.core
        /\ t.timer = g.timer /\ t.mode = g.mode /\ t.phase = g.phase
        /\ t.born = g.born /\ t.made = g.made /\ t.stack = g.stack /\ t.closing = g.closing
    BY DEF Keeps, Fields
  <1>2. /\ t.skip = g.skip /\ t.pending = g.pending /\ t.hidden = g.hidden /\ t.running = g.running
        /\ t.undo = g.undo /\ t.redo = g.redo /\ t.quick = g.quick /\ DOMAIN t = DOMAIN g
    BY DEF Keeps, Fields
  <1>c. Typed(g) /\ Owning(g) /\ Living(g) /\ Posted(g) /\ Deleted(g)
        /\ Framed(g) /\ Opened(g) /\ Accounted(g) /\ Timed(g) /\ Quitting(g)
    BY DEF Inv0
  <1> DEFINE Q == t.queue
             P == g.queue
             m(k) == Turn(Len(P), d, k)
  <1>t. /\ Q \in Seq(Events)
        /\ \A k \in DOMAIN Q : k \in Nat /\ k > 0
        /\ \A k \in DOMAIN Q : m(k) \in DOMAIN P /\ Q[k] = P[m(k)]
        /\ \A i \in DOMAIN P : \E k \in DOMAIN Q : m(k) = i
        /\ \A k, l \in DOMAIN Q : m(k) = m(l) => k = l
        /\ \A k, l \in DOMAIN Q : m(k) >= d /\ m(l) > m(k) => l > k
    BY DEF Turning
  <1>d. \A i \in DOMAIN P : i \in Nat /\ (i < d => P[i].kind \in Deletions)
    <2>1. P \in Seq(Events)
      BY <1>c DEF Typed
    <2> QED BY <2>1
  <1> HIDE DEF P, Q, m
  <1>i. \A i \in DOMAIN P : \E k \in DOMAIN Q : m(k) = i /\ Q[k] = P[i]
    BY <1>t
  <1>f. \A k \in DOMAIN Q : Q[k].kind \notin Deletions => m(k) >= d
    BY <1>t, <1>d
  <1>a. Live(t) = Live(g) /\ Registered(t) = Registered(g)
    BY <1>1 DEF Live, Registered
  <1>b. \A e : Fine(t, e) <=> Fine(g, e)
    BY <1>1, <1>a DEF Fine
  <1>10. Typed(t)
    BY <1>1, <1>2, <1>c, <1>t DEF Typed, Q
  <1>11. Owning(t)
    BY <1>1, <1>c DEF Owning
  <1>12. Living(t)
    BY <1>1, <1>a, <1>c DEF Living
  <1>13. Posted(t)
    <2>1. /\ \A i \in DOMAIN P : Fine(g, P[i])
          /\ \A i, j \in DOMAIN P : P[i].kind = "delete window" /\ P[j].kind = "delete window"
                                     /\ P[i].window = P[j].window => i = j
      BY <1>c DEF Posted, P
    <2>2. \A k \in DOMAIN Q : Fine(t, Q[k])
      BY <1>t, <1>b, <2>1
    <2>3. \A k, l \in DOMAIN Q : Q[k].kind = "delete window" /\ Q[l].kind = "delete window"
                                  /\ Q[k].window = Q[l].window => k = l
      BY <1>t, <2>1
    <2> QED BY <2>2, <2>3 DEF Posted, Q
  <1>14. Framed(t)
    BY <1>1, <1>c DEF Framed
  <1>15. Deleted(t)
    <2> SUFFICES ASSUME NEW w \in Live(g) \ g.open PROVE DeletedAfter(t, 0, w)
      BY <1>1, <1>a DEF Deleted
    <2>1. PICK j \in DOMAIN P : P[j].kind = "delete window" /\ P[j].window = w
      BY <1>c DEF Deleted, DeletedAfter, P
    <2>2. PICK k \in DOMAIN Q : Q[k] = P[j]
      BY <1>i
    <2> QED BY <1>t, <2>1, <2>2 DEF DeletedAfter, Q
  <1>16. Opened(t)
    <2> SUFFICES ASSUME NEW k \in DOMAIN Q, Q[k].kind \in Openings
                 PROVE  \E w \in Live(g) : w \in g.open \/ DeletedAfter(t, k, w)
      BY <1>1, <1>a DEF Opened, Q
    <2>1. m(k) \in DOMAIN P /\ P[m(k)].kind \in Openings /\ m(k) >= d
      BY <1>t, <1>f DEF Openings, Deletions
    <2>2. PICK w \in Live(g) : w \in g.open \/ DeletedAfter(g, m(k), w)
      BY <1>c, <2>1 DEF Opened, P
    <2>3. CASE w \in g.open
      BY <2>3
    <2>4. CASE DeletedAfter(g, m(k), w)
      <3>1. PICK j \in DOMAIN P : j > m(k) /\ P[j].kind = "delete window" /\ P[j].window = w
        BY <2>4 DEF DeletedAfter, P
      <3>2. PICK l \in DOMAIN Q : m(l) = j /\ Q[l] = P[j]
        BY <1>i
      <3>3. l > k
        BY <1>t, <2>1, <3>1, <3>2
      <3>4. DeletedAfter(t, k, w)
        BY <3>1, <3>2, <3>3 DEF DeletedAfter, Q
      <3> QED BY <3>4
    <2> QED BY <2>2, <2>3, <2>4
  <1>17. Accounted(t)
    <2> SUFFICES ASSUME NEW s \in g.core
                 PROVE  \/ \E w \in Window : s \in g.registered[w]
                        \/ \E k \in DOMAIN Q : Q[k].kind = "delete page" /\ s \in Q[k].panes
      BY <1>1 DEF Accounted, Q
    <2>1. \/ \E w \in Window : s \in g.registered[w]
          \/ \E i \in DOMAIN P : P[i].kind = "delete page" /\ s \in P[i].panes
      BY <1>c DEF Accounted, P
    <2>2. \A i \in DOMAIN P : \E k \in DOMAIN Q : Q[k] = P[i]
      BY <1>i
    <2> QED BY <2>1, <2>2
  <1>18. NoRequest(t) <=> NoRequest(g)
    <2>1. (\A k \in DOMAIN Q : Q[k].kind # "quit timer") <=> \A i \in DOMAIN P : P[i].kind # "quit timer"
      <3>1. ASSUME \A k \in DOMAIN Q : Q[k].kind # "quit timer", NEW i \in DOMAIN P
            PROVE  P[i].kind # "quit timer"
        BY <1>i, <3>1
      <3>2. ASSUME \A i \in DOMAIN P : P[i].kind # "quit timer", NEW k \in DOMAIN Q
            PROVE  Q[k].kind # "quit timer"
        BY <1>t, <3>2
      <3> QED BY <3>1, <3>2
    <2> QED BY <2>1 DEF NoRequest, P, Q
  <1>19. ASSUME NEW k \in DOMAIN Q, IsLastRequest(t, k)
         PROVE  m(k) \in DOMAIN P /\ IsLastRequest(g, m(k)) /\ Q[k] = P[m(k)]
    <2>1. Q[k].kind = "quit timer" /\ \A l \in DOMAIN Q : l > k => Q[l].kind # "quit timer"
      BY <1>19 DEF IsLastRequest, Q
    <2>2. m(k) \in DOMAIN P /\ Q[k] = P[m(k)] /\ m(k) >= d
      BY <1>t, <1>f, <2>1 DEF Deletions
    <2>3. ASSUME NEW j \in DOMAIN P, j > m(k) PROVE P[j].kind # "quit timer"
      <3>1. PICK l \in DOMAIN Q : m(l) = j /\ Q[l] = P[j]
        BY <1>i
      <3>2. l > k
        BY <1>t, <2>2, <2>3, <3>1
      <3> QED BY <2>1, <3>1, <3>2
    <2> QED BY <2>1, <2>2, <2>3 DEF IsLastRequest, P
  <1>20. Timed(t)
    BY <1>1, <1>a, <1>c, <1>18, <1>19 DEF Timed, P, Q
  <1>21. Armed(g) => Armed(t)
    BY <1>1, <1>18 DEF Armed
  <1>22. Quitting(t)
    <2> SUFFICES ASSUME ~Hides, g.mode = "now", g.phase = "running", g.open = {}
                 PROVE  \E k \in DOMAIN Q : Q[k].kind = "quit"
      BY <1>1 DEF Quitting, Q
    <2>1. PICK i \in DOMAIN P : P[i].kind = "quit"
      BY <1>c DEF Quitting, P
    <2> QED BY <1>i, <2>1
  <1> QED BY <1>10, <1>11, <1>12, <1>13, <1>14, <1>15, <1>16, <1>17, <1>20, <1>21, <1>22 DEF Fit, Inv0

\* The queue as the event that is due is reached.
LEMMA RequeuedFine ==
    ASSUME Inv0(gui), Due(gui) # 0
    PROVE  LET t == Requeued(gui)
           IN  /\ Fit(t, gui) /\ Keeps(t, gui, {"queue"})
               /\ 1 \in DOMAIN t.queue /\ t.queue[1] = gui.queue[Due(gui)] /\ t.queue \in Seq(Events)
  <1> SUFFICES ASSUME NEW d, d = Due(gui), d # 0, NEW t, t = Requeued(gui)
               PROVE  /\ Fit(t, gui) /\ Keeps(t, gui, {"queue"})
                      /\ 1 \in DOMAIN t.queue /\ t.queue[1] = gui.queue[d] /\ t.queue \in Seq(Events)
    OBVIOUS
  <1>1. gui.queue \in Seq(Events) /\ DOMAIN gui = Fields
    BY Zenon DEF Inv0, Typed
  <1>2. t = [gui EXCEPT !.queue = SubSeq(@, d, Len(@)) \o SubSeq(@, 1, d - 1)]
    BY Zenon DEF Requeued
  <1>3. Keeps(t, gui, {"queue"})
    BY Zenon, <1>1, <1>2 DEF Keeps, Fields
  <1>4. t.queue = SubSeq(gui.queue, d, Len(gui.queue)) \o SubSeq(gui.queue, 1, d - 1)
    BY Zenon, <1>1, <1>2 DEF Fields
  <1>5. d \in DOMAIN gui.queue /\ \A i \in DOMAIN gui.queue : i < d => gui.queue[i].kind \in Deletions
    BY Zenon, <1>1, DueFine
  <1>6. d \in Nat
    BY <1>1, <1>5
  <1> DEFINE g == gui
  <1>7. /\ g.queue \in Seq(Events) /\ d \in DOMAIN g.queue /\ Inv0(g) /\ Keeps(t, g, {"queue"})
        /\ t.queue = SubSeq(g.queue, d, Len(g.queue)) \o SubSeq(g.queue, 1, d - 1)
        /\ \A i \in DOMAIN g.queue : i < d => g.queue[i].kind \in Deletions
    BY Zenon, <1>1, <1>3, <1>4, <1>5
  <1> HIDE DEF g
  <1>8. Turning(t, g, d)
    BY <1>7, Turned
  <1>9. Fit(t, g)
    BY <1>6, <1>7, <1>8, TurnedFine
  <1>10. 1 \in DOMAIN t.queue /\ t.queue[1] = g.queue[d] /\ t.queue \in Seq(Events)
    <2>1. t.queue[1] = g.queue[Turn(Len(g.queue), d, 1)] /\ Turn(Len(g.queue), d, 1) = d
      BY <1>8 DEF Turning
    <2>2. 1 \in DOMAIN t.queue /\ t.queue \in Seq(Events)
      BY <1>8 DEF Turning
    <2> QED BY <2>1, <2>2
  <1> QED BY Zenon, <1>3, <1>9, <1>10 DEF g

\* The state without an event.
LEMMA WithoutIt ==
    ASSUME NEW g, DOMAIN g = Fields, NEW d \in DOMAIN g.queue, NEW r, r = [g EXCEPT !.queue = RemoveAt(@, d)]
    PROVE  Taking(r, g, d)
  <1>1. Keeps(r, g, {"queue"})
    BY Zenon DEF Keeps, Fields
  <1>2. r.queue = RemoveAt(g.queue, d)
    BY Zenon DEF Fields
  <1> QED BY Zenon, <1>1, <1>2 DEF Taking

\* An event is received from the front of a queue in which the deletions that
\* must wait are behind.
Receiving(r, t) ==
    /\ Fit(t, gui) /\ Inv0(t) /\ Keeps(t, gui, {"queue"})
    /\ Taking(r, t, 1) /\ t.queue[1] \in Events /\ Fine(t, t.queue[1])
    /\ \A i \in DOMAIN t.queue : ~(i < 1)

\* What is received is due.
LEMMA Receives ==
    ASSUME Inv0(gui), NEW kinds, Receive(kinds), NEW r, r = Rest, NEW e, e = Received
    PROVE  \E t : Receiving(r, t) /\ e = t.queue[1] /\ e.kind \in kinds
  <1>1. gui.queue \in Seq(Events) /\ DOMAIN gui = Fields
    BY Zenon DEF Inv0, Typed
  <1>d. PICK d : d = Due(gui)
    OBVIOUS
  <1>t. PICK t : t = Requeued(gui)
    OBVIOUS
  <1>2. d # 0 /\ gui.queue[d].kind \in kinds
    BY Zenon, <1>d DEF Receive
  <1>3. e = gui.queue[d] /\ r = [t EXCEPT !.queue = RemoveAt(@, 1)] /\ d = Due(gui) /\ t = Requeued(gui)
    BY Zenon, <1>d, <1>t DEF Received, Rest
  <1>4. /\ Fit(t, gui) /\ Keeps(t, gui, {"queue"})
        /\ 1 \in DOMAIN t.queue /\ t.queue[1] = gui.queue[d] /\ t.queue \in Seq(Events)
    <2>1. d # 0
      BY Zenon, <1>2
    <2>2. Fit(t, gui) /\ Keeps(t, gui, {"queue"})
      BY Zenon, <1>d, <1>t, <2>1, RequeuedFine
    <2>3. 1 \in DOMAIN t.queue /\ t.queue[1] = gui.queue[d] /\ t.queue \in Seq(Events)
      BY Zenon, <1>d, <1>t, <2>1, RequeuedFine
    <2> QED BY Zenon, <2>2, <2>3
  <1>5. Inv0(t)
    BY <1>4 DEF Fit
  <1>6. Taking(r, t, 1)
    <2>1. DOMAIN t = Fields
      BY <1>5 DEF Inv0, Typed
    <2> QED BY Zenon, <1>3, <1>4, <2>1, WithoutIt
  <1>7. t.queue[1] \in Events /\ \A i \in DOMAIN t.queue : ~(i < 1)
    BY <1>4
  <1>8. Fine(t, t.queue[1])
    BY <1>4, <1>5 DEF Inv0, Posted
  <1>9. Receiving(r, t)
    BY Zenon, <1>4, <1>5, <1>6, <1>7, <1>8 DEF Receiving
  <1>10. e = t.queue[1] /\ e.kind \in kinds
    BY Zenon, <1>2, <1>3, <1>4
  <1> QED BY Zenon, <1>9, <1>10

\* An event about a window that is, and that needs no more than the state without it.
LEMMA WindowEvent ==
    ASSUME Inv0(gui), NEW r, NEW t, Receiving(r, t),
           t.queue[1].kind \in WindowEvents \ {"delete window"}
    PROVE  LET w == t.queue[1].window
           IN  Fit(r, gui) /\ Inv0(r) /\ w \in Live(r) /\ w \in Window
  <1>1. Taking(r, t, 1) /\ Fine(t, t.queue[1]) /\ Fit(t, gui) /\ Inv0(t)
    BY DEF Receiving
  <1>2. t.queue[1].kind \notin {"quit timer", "quit", "delete page", "delete window"}
    BY DEF WindowEvents
  <1>3. Fit(r, gui)
    BY <1>1, <1>2, PlainTaken, FitTrans
  <1>4. t.queue[1].window \in Live(t)
    BY <1>1 DEF Fine, WindowEvents, AppEvents
  <1>5. r.windows = t.windows
    BY <1>1 DEF Taking, Keeps, Fields
  <1>6. Typed(t)
    BY <1>1 DEF Inv0
  <1>7. t.queue[1].window \in Window
    BY <1>4, <1>6, LiveWindow
  <1> QED BY <1>3, <1>4, <1>5, <1>7 DEF Fit, Live

\* OnNewTab keeps the invariant.
LEMMA OnNewTabFine ==
    ASSUME Inv0(gui), OnNewTab
    PROVE  Fit(gui', gui)
  <1> DEFINE r == Rest
             e == Received
             h == gui'
  <1>1. Receive({"new tab"}) /\ h = NewTab(r, e.window) /\ r = Rest /\ e = Received
    BY Zenon DEF OnNewTab
  <1> HIDE DEF r, e, h
  <1>2. PICK t : Receiving(r, t) /\ e = t.queue[1] /\ e.kind \in {"new tab"}
    BY <1>1, Receives
  <1>3. t.queue[1].kind \in WindowEvents \ {"delete window"}
    BY <1>2 DEF WindowEvents
  <1>4. Fit(r, gui) /\ Inv0(r) /\ e.window \in Live(r)
    BY <1>2, <1>3, WindowEvent
  <1>5. Fit(h, r)
    BY <1>1, <1>4, NewTabFine
  <1>6. Fit(h, gui)
    BY <1>4, <1>5, FitTrans
  <1> QED BY Zenon, <1>6 DEF h

\* OnNewSplit does.
LEMMA OnNewSplitFine ==
    ASSUME Inv0(gui), OnNewSplit
    PROVE  Fit(gui', gui)
  <1> DEFINE r == Rest
             e == Received
             h == gui'
  <1>1. Receive({"new split"}) /\ r = Rest /\ e = Received
    BY Zenon DEF OnNewSplit
  <1>2. PICK s : h = SplitSurface(r, e.window, s)
    BY Zenon DEF OnNewSplit
  <1> HIDE DEF r, e, h
  <1>3. PICK t : Receiving(r, t) /\ e = t.queue[1] /\ e.kind \in {"new split"}
    BY <1>1, Receives
  <1>4. t.queue[1].kind \in WindowEvents \ {"delete window"}
    BY <1>3 DEF WindowEvents
  <1>5. Fit(r, gui) /\ Inv0(r) /\ e.window \in Live(r)
    BY <1>3, <1>4, WindowEvent
  <1>6. Fit(h, r)
    BY <1>2, <1>5, SplitSurfaceFine
  <1>7. Fit(h, gui)
    BY <1>5, <1>6, FitTrans
  <1> QED BY Zenon, <1>7 DEF h

\* OnCloseWindow does.
LEMMA OnCloseWindowFine ==
    ASSUME Inv0(gui), OnCloseWindow
    PROVE  Fit(gui', gui)
  <1> DEFINE r == Rest
             e == Received
             h == gui'
  <1>1. Receive({"close window"}) /\ h \in Close(r, e.window) /\ r = Rest /\ e = Received
    BY Zenon DEF OnCloseWindow
  <1> HIDE DEF r, e, h
  <1>2. PICK t : Receiving(r, t) /\ e = t.queue[1] /\ e.kind \in {"close window"}
    BY <1>1, Receives
  <1>3. t.queue[1].kind \in WindowEvents \ {"delete window"}
    BY <1>2 DEF WindowEvents
  <1>4. Fit(r, gui) /\ Inv0(r)
    BY <1>2, <1>3, WindowEvent
  <1>5. Fit(h, r)
    BY <1>1, <1>4, CloseFine
  <1>6. Fit(h, gui)
    BY <1>4, <1>5, FitTrans
  <1> QED BY Zenon, <1>6 DEF h

\* OnCloseTab does.
LEMMA OnCloseTabFine ==
    ASSUME Inv0(gui), OnCloseTab
    PROVE  Fit(gui', gui)
  <1> DEFINE r == Rest
             e == Received
             h == gui'
  <1>1. Receive({"close tab"}) /\ r = Rest /\ e = Received
    BY Zenon DEF OnCloseTab
  <1>2. PICK s : h \in CloseTabsByMode(r, e.window, s, e.arg) \/ h = r
    BY Zenon DEF OnCloseTab
  <1> HIDE DEF r, e, h
  <1>3. PICK t : Receiving(r, t) /\ e = t.queue[1] /\ e.kind \in {"close tab"}
    BY <1>1, Receives
  <1>4. t.queue[1].kind \in WindowEvents \ {"delete window"}
    BY <1>3 DEF WindowEvents
  <1>5. Fit(r, gui) /\ Inv0(r) /\ e.window \in Window
    BY <1>3, <1>4, WindowEvent
  <1>6. e.arg \in {"this", "other", "right"}
    BY <1>3 DEF Receiving, Fine
  <1> DEFINE arg == e.arg
             w == e.window
  <1>7. /\ arg \in {"this", "other", "right"} /\ w \in Window
        /\ h \in CloseTabsByMode(r, w, s, arg) \/ h = r
    BY Zenon, <1>2, <1>5, <1>6
  <1> HIDE DEF arg, w
  <1>8. Fit(h, r)
    BY <1>5, <1>7, CloseTabsByModeFine, FitSelf
  <1>9. Fit(h, gui)
    BY <1>5, <1>8, FitTrans
  <1> QED BY Zenon, <1>9 DEF h

\* OnCloseSurface does.
LEMMA OnCloseSurfaceFine ==
    ASSUME Inv0(gui), OnCloseSurface
    PROVE  Fit(gui', gui)
  <1> DEFINE r == Rest
             e == Received
             h == gui'
  <1>1. Receive({"close surface"}) /\ r = Rest /\ e = Received
    BY Zenon DEF OnCloseSurface
  <1>2. PICK s \in e.panes :
            \/ h \in Confirmed(r, RemoveSurface(r, e.window, s), Open(r, "split", e.window, {s}, <<>>))
            \/ h = r
    BY Zenon DEF OnCloseSurface
  <1> DEFINE kind == "split"
             none == <<>>
             one == {s}
  <1>3. kind \in FrameKinds \ {"window"} /\ none \in Seq(Nat)
    BY DEF FrameKinds
  <1>4. \/ h \in Confirmed(r, RemoveSurface(r, e.window, s), Open(r, kind, e.window, one, none))
        \/ h = r
    BY Zenon, <1>2
  <1> HIDE DEF r, e, h, kind, none
  <1>5. PICK t : Receiving(r, t) /\ e = t.queue[1] /\ e.kind \in {"close surface"}
    BY <1>1, Receives
  <1>6. t.queue[1].kind \in WindowEvents \ {"delete window"}
    BY <1>5 DEF WindowEvents
  <1>7. Fit(r, gui) /\ Inv0(r) /\ e.window \in Window
    BY <1>5, <1>6, WindowEvent
  <1>8. one \in SUBSET Surface
    <2>1. e.panes \in SUBSET Surface
      BY <1>5 DEF Receiving, Events
    <2> QED BY <2>1
  <1> HIDE DEF one
  <1> DEFINE w == e.window
  <1>9. \/ h = RemoveSurface(r, w, s)
        \/ h = Open(r, kind, w, one, none)
        \/ h = r
    BY <1>4, ConfirmedFine
  <1>10. w \in Window
    BY <1>7
  <1> HIDE DEF w
  <1>11. Fit(h, r)
    BY <1>3, <1>7, <1>8, <1>9, <1>10, RemoveSurfaceFine, OpenFine, FitSelf
  <1>12. Fit(h, gui)
    BY <1>7, <1>11, FitTrans
  <1> QED BY Zenon, <1>12 DEF h

-----------------------------------------------------------------------------
(* Events of the application and deletions; every step.                    *)

\* OnApp does; the first request of the timer is taken, for only deletions wait.
LEMMA OnAppFine ==
    ASSUME Inv0(gui), OnApp
    PROVE  Fit(gui', gui)
  <1> DEFINE r == Rest
             e == Received
             h == gui'
  <1>1. Receive(AppEvents) /\ h \in HandleApp(r, e) /\ r = Rest /\ e = Received
    BY Zenon DEF OnApp
  <1> HIDE DEF r, e, h
  <1>2. PICK t : Receiving(r, t) /\ e = t.queue[1] /\ e.kind \in AppEvents
    BY <1>1, Receives
  <1>3. Taking(r, t, 1) /\ Fit(t, gui) /\ Inv0(t)
    BY <1>2 DEF Receiving
  <1>4. CASE e.kind = "quit timer"
    <2>1. h = HandleQuitTimer(r, e.arg = "start")
      BY Zenon, <1>1, <1>2, <1>4, HandleAppCases
    <2>2. DOMAIN r = Fields /\ r.timer \in BOOLEAN
      <3>1. Taken(r, t, 1)
        BY <1>3, Takes
      <3> QED BY <3>1 DEF Taken, Typed
    <2> DEFINE arg == e.arg
    <2>3. h = HandleQuitTimer(r, arg = "start")
      BY Zenon, <2>1
    <2>4. arg = t.queue[1].arg
      BY <1>2
    <2> HIDE DEF arg
    <2>5. Requested(h, r, arg)
      BY Zenon, <2>2, <2>3, HandleQuitTimerFine
    <2>6. Requested(h, r, t.queue[1].arg)
      BY Zenon, <2>4, <2>5
    <2>7. Foremost(t, 1)
      <3>1. \A i \in DOMAIN t.queue : ~(i < 1)
        BY Zenon, <1>2 DEF Receiving
      <3> QED BY Zenon, <3>1 DEF Foremost
    <2>8. t.queue[1].kind = "quit timer"
      BY <1>2, <1>4
    <2>9. Inv0(h) /\ Armed(h)
      BY Zenon, <1>3, <2>6, <2>7, <2>8, QuitTimerTaken
    <2> QED BY <2>9 DEF Fit, h
  <1>5. CASE e.kind = "quit"
    <2>1. h = [r EXCEPT !.phase = "quit"]
      BY Zenon, <1>1, <1>2, <1>5, HandleAppCases
    <2>2. t.queue[1].kind = "quit"
      BY <1>2, <1>5
    <2>3. Fit(h, gui)
      BY Zenon, <1>3, <2>1, <2>2, QuitTaken, FitTrans
    <2> QED BY Zenon, <2>3 DEF h
  <1>6. CASE e.kind \notin {"quit timer", "quit"}
    <2>1. t.queue[1].kind \notin {"quit timer", "quit", "delete page", "delete window"}
      BY <1>2, <1>6 DEF AppEvents
    <2>2. Fit(r, gui) /\ Inv0(r)
      BY <1>3, <2>1, PlainTaken, FitTrans DEF Fit
    <2>3. e.kind \in AppEvents \ {"quit timer"}
      BY <1>2, <1>6
    <2>4. Fit(h, r)
      BY <1>1, <2>2, <2>3, HandleAppFine
    <2>5. Fit(h, gui)
      BY <2>2, <2>4, FitTrans
    <2> QED BY Zenon, <2>5 DEF h
  <1> QED BY <1>4, <1>5, <1>6

\* DeletePage does.
LEMMA DeletePageFine ==
    ASSUME Inv0(gui), DeletePage
    PROVE  Fit(gui', gui)
  <1> DEFINE r == Rest
             e == Received
             h == gui'
             p == "undefined"
  <1>1. Receive({"delete page"}) /\ r = Rest /\ e = Received
    BY Zenon DEF DeletePage
  <1>2. h = [gui EXCEPT !.phase = p] \/ h = FreeSurfaces(r, e.panes)
    BY Zenon DEF DeletePage
  <1>3. p \in {"quit", "undefined"}
    OBVIOUS
  <1> HIDE DEF r, e, h, p
  <1>4. CASE h = [gui EXCEPT !.phase = p]
    <2>1. Fit(h, gui)
      BY Zenon, <1>3, <1>4, PhaseEnds
    <2> QED BY Zenon, <2>1 DEF h
  <1>5. CASE h = FreeSurfaces(r, e.panes)
    <2>1. PICK t : Receiving(r, t) /\ e = t.queue[1] /\ e.kind \in {"delete page"}
      BY <1>1, Receives
    <2>2. Taking(r, t, 1) /\ t.queue[1].kind = "delete page" /\ Fit(t, gui) /\ Inv0(t)
      BY <2>1 DEF Receiving
    <2>3. h = FreeSurfaces(r, t.queue[1].panes)
      BY <1>5, <2>1
    <2>4. Fit(h, gui)
      BY <2>2, <2>3, DeletePageTaken, FitTrans
    <2> QED BY Zenon, <2>4 DEF h
  <1> QED BY Zenon, <1>2, <1>4, <1>5

\* DeleteWindow does.
LEMMA DeleteWindowFine ==
    ASSUME Inv0(gui), DeleteWindow
    PROVE  Fit(gui', gui)
  <1> DEFINE r == Rest
             e == Received
             h == gui'
             p == "undefined"
  <1>1. Receive({"delete window"}) /\ r = Rest /\ e = Received
    BY Zenon DEF DeleteWindow
  <1>2. h = [gui EXCEPT !.phase = p] \/ h \in Destroy(r, e.window)
    BY Zenon DEF DeleteWindow
  <1>3. p \in {"quit", "undefined"}
    OBVIOUS
  <1> HIDE DEF r, e, h, p
  <1>4. CASE h = [gui EXCEPT !.phase = p]
    <2>1. Fit(h, gui)
      BY Zenon, <1>3, <1>4, PhaseEnds
    <2> QED BY Zenon, <2>1 DEF h
  <1>5. CASE h \in Destroy(r, e.window)
    <2>1. PICK t : Receiving(r, t) /\ e = t.queue[1] /\ e.kind \in {"delete window"}
      BY <1>1, Receives
    <2>2. Taking(r, t, 1) /\ t.queue[1].kind = "delete window" /\ Inv0(t)
          /\ \A i \in DOMAIN t.queue : ~(i < 1)
      BY Zenon, <2>1 DEF Receiving
    <2> DEFINE w == e.window
    <2>3. Doomed(r, t.queue[1].window) /\ t.queue[1].window \in Window
      BY <2>2, DeletionTaken
    <2>4. Doomed(r, w) /\ w \in Window /\ h \in Destroy(r, w)
      BY <1>5, <2>1, <2>3
    <2> HIDE DEF w
    <2>5. Inv0(h) /\ Armed(h)
      BY <2>4, DestroyFine
    <2> QED BY <2>5 DEF Fit, h
  <1> QED BY Zenon, <1>2, <1>4, <1>5

\* Every step keeps the invariant.
LEMMA StepFine ==
    ASSUME Inv(gui), Next
    PROVE  Inv(gui')
  <1>1. Inv0(gui) /\ Armed(gui)
    BY Zenon DEF Inv
  <1>2. Fit(gui', gui)
    <2>1. CASE OnEvent
      BY Zenon, <1>1, <2>1, OnAppFine, OnNewTabFine, OnNewSplitFine, OnCloseWindowFine, OnCloseTabFine,
         OnCloseSurfaceFine, DeletePageFine, DeleteWindowFine DEF OnEvent
    <2>2. CASE Answered
      BY Zenon, <1>1, <2>2, AcceptFine, RejectFine, EndDragFine, DropFine DEF Answered
    <2>3. CASE User
      <3>1. PICK w \in Window :
               \/ PressNewWindow(w) \/ PressCloseAll(w) \/ PressInWindow(w) \/ ClickWindowCross(w)
               \/ \E s \in Surface : PressInPane(w, s)
               \/ \E i \in DOMAIN gui.tabs[w] : ClickTabCross(w, i) \/ StartDrag(w, i)
        BY Zenon, <2>3 DEF User
      <3> QED BY Zenon, <1>1, <3>1, PressNewWindowFine, PressCloseAllFine, PressInWindowFine,
                 ClickWindowCrossFine, PressInPaneFine, ClickTabCrossFine, StartDragFine
    <2>4. CASE Outside
      BY Zenon, <1>1, <2>4, ActivateFine, HideFine, ShellExitsFine, ScaleKnownFine DEF Outside
    <2>5. CASE TimerFires
      BY Zenon, <1>1, <2>5, TimerFiresFine
    <2> QED BY Zenon, <2>1, <2>2, <2>3, <2>4, <2>5 DEF Next
  <1> QED BY Zenon, <1>1, <1>2 DEF Inv, Fit

-----------------------------------------------------------------------------
(* The start.                                                              *)

\* The tabs, the lists and the owners at the start.
LaidTabs(layout) == [w \in Window |-> IF w <= Len(layout) THEN layout[w] ELSE <<>>]
LaidLists(layout) == [w \in Window |-> UNION ToSet(LaidTabs(layout)[w])]
LaidOwners(layout) ==
    [s \in Surface |-> IF s \in Panes(layout)
                          THEN CHOOSE w \in Window : s \in LaidLists(layout)[w] ELSE NoWindow]
LaidOut(r, mode, layout) ==
    /\ DOMAIN r = Fields
    /\ r.app = TRUE /\ r.windows = [w \in 1..Len(layout) |-> w] /\ r.open = 1..Len(layout)
    /\ r.tabs = LaidTabs(layout) /\ r.registered = LaidLists(layout) /\ r.owner = LaidOwners(layout)
    /\ r.pending \subseteq 1..Len(layout) /\ r.closing = {} /\ r.skip = {} /\ r.hidden = {}
    /\ r.core = Panes(layout) /\ r.running = Panes(layout)
    /\ r.born = Len(layout) /\ r.made = Cardinality(Panes(layout))
    /\ r.queue = <<>> /\ r.stack = <<>> /\ r.undo = <<>> /\ r.redo = <<>>
    /\ r.timer = FALSE /\ r.phase = "running" /\ r.mode = mode

\* The fields of Fresh.
LEMMA FreshFields ==
    ASSUME NEW mode, NEW r, r = Fresh(mode)
    PROVE  /\ DOMAIN r = Fields /\ r.closing = {} /\ r.skip = {} /\ r.hidden = {}
           /\ r.queue = <<>> /\ r.stack = <<>> /\ r.undo = <<>> /\ r.redo = <<>>
           /\ r.timer = FALSE /\ r.phase = "running" /\ r.mode = mode
  <1>1. DOMAIN r = Fields
    BY DEF Fresh, Fields
  <1>2. /\ r.closing = {} /\ r.skip = {} /\ r.hidden = {}
        /\ r.queue = <<>> /\ r.stack = <<>> /\ r.undo = <<>> /\ r.redo = <<>>
        /\ r.timer = FALSE /\ r.phase = "running" /\ r.mode = mode
    BY DEF Fresh
  <1> QED BY <1>1, <1>2

\* The fields of Layout.
LEMMA LayoutFields ==
    ASSUME NEW mode, NEW layout, NEW r, r = Layout(mode, layout)
    PROVE  LaidOut(r, mode, layout)
  <1> DEFINE f == Fresh(mode)
             q == [f EXCEPT !.app = TRUE, !.windows = [w \in 1..Len(layout) |-> w], !.open = 1..Len(layout),
                     !.tabs = LaidTabs(layout), !.registered = LaidLists(layout), !.owner = LaidOwners(layout),
                     !.pending = {w \in 1..Len(layout) : LaidTabs(layout)[w] = <<>>},
                     !.core = Panes(layout), !.running = Panes(layout),
                     !.born = Len(layout), !.made = Cardinality(Panes(layout))]
  <1>1. r = q
    BY Zenon DEF Layout, LaidTabs, LaidLists, LaidOwners
  <1>2. f = Fresh(mode)
    BY Zenon
  <1> HIDE DEF f
  <1>3. /\ DOMAIN f = Fields /\ f.closing = {} /\ f.skip = {} /\ f.hidden = {}
        /\ f.queue = <<>> /\ f.stack = <<>> /\ f.undo = <<>> /\ f.redo = <<>>
        /\ f.timer = FALSE /\ f.phase = "running" /\ f.mode = mode
    BY Zenon, <1>2, FreshFields
  <1>4. DOMAIN q = Fields /\ q.closing = {} /\ q.skip = {} /\ q.hidden = {}
    BY Zenon, <1>3 DEF Fields
  <1>5. q.queue = <<>> /\ q.stack = <<>> /\ q.undo = <<>> /\ q.redo = <<>>
    BY Zenon, <1>3 DEF Fields
  <1>6. q.timer = FALSE /\ q.phase = "running" /\ q.mode = mode
    BY Zenon, <1>3 DEF Fields
  <1>7. q.app = TRUE /\ q.windows = [w \in 1..Len(layout) |-> w] /\ q.open = 1..Len(layout)
    BY Zenon, <1>3 DEF Fields
  <1>8. /\ q.tabs = LaidTabs(layout) /\ q.registered = LaidLists(layout)
        /\ q.owner = LaidOwners(layout)
    BY Zenon, <1>3 DEF Fields
  <1>9. q.core = Panes(layout) /\ q.running = Panes(layout)
    BY Zenon, <1>3 DEF Fields
  <1>10. q.born = Len(layout) /\ q.made = Cardinality(Panes(layout))
    BY Zenon, <1>3 DEF Fields
  <1>11. q.pending = {w \in 1..Len(layout) : LaidTabs(layout)[w] = <<>>}
    BY Zenon, <1>3 DEF Fields
  <1>12. q.pending \subseteq 1..Len(layout)
    BY Zenon, <1>11
  <1> QED BY Zenon, <1>1, <1>4, <1>5, <1>6, <1>7, <1>8, <1>9, <1>10, <1>12 DEF LaidOut

\* The invariant holds at the start.
LEMMA InitFine ==
    ASSUME NEW mode \in Modes, NEW layout \in Layouts, NEW r, LaidOut(r, mode, layout)
    PROVE  Inv(r)
  <1> DEFINE n == Len(layout)
             panes == Panes(layout)
             K == Cardinality(panes)
             tabs == LaidTabs(layout)
             lists == LaidLists(layout)
             owners == LaidOwners(layout)
  <1>1. /\ DOMAIN r = Fields
        /\ r.app = TRUE /\ r.windows = [w \in 1..n |-> w] /\ r.open = 1..n
        /\ r.tabs = tabs /\ r.registered = lists /\ r.owner = owners
        /\ r.pending \subseteq 1..n /\ r.closing = {} /\ r.skip = {} /\ r.hidden = {}
        /\ r.core = panes /\ r.running = panes /\ r.born = n /\ r.made = K
        /\ r.queue = <<>> /\ r.stack = <<>> /\ r.undo = <<>> /\ r.redo = <<>>
        /\ r.timer = FALSE /\ r.phase = "running" /\ r.mode = mode
    BY Zenon DEF LaidOut
  <1>2. /\ MaxWindows \in Nat /\ MaxSurfaces \in Nat /\ Cap \in Nat
        /\ mode \in {"now", "delay", "never"} /\ mode \in Modes /\ layout \in Seq(Seq(Page)) /\ n \in Window
        /\ panes = 1..K
        /\ \A v, w \in DOMAIN layout : \A i \in DOMAIN layout[v], j \in DOMAIN layout[w] :
              layout[v][i] \cap layout[w][j] # {} => v = w /\ i = j
    BY WindowsAssumption DEF Page
  <1>3. n \in Nat /\ n >= 1 /\ n <= MaxWindows /\ DOMAIN layout = 1..n /\ 1..n \subseteq Window
    BY <1>2 DEF Window
  <1>4. panes \subseteq Surface
    <2> SUFFICES ASSUME NEW w \in DOMAIN layout, NEW s \in UNION ToSet(layout[w]) PROVE s \in Surface
      BY DEF Panes
    <2>1. PICK i \in DOMAIN layout[w] : s \in layout[w][i]
      BY DEF ToSet
    <2>2. layout[w] \in Seq(Page)
      BY <1>2
    <2>3. layout[w][i] \in Page
      BY <2>2
    <2> QED BY <2>1, <2>3 DEF Page
  <1>5. K \in Nat
    <2>1. IsFiniteSet(Surface)
      BY <1>2, FS_Interval DEF Surface
    <2>2. IsFiniteSet(panes)
      BY <1>4, <2>1, FS_Subset
    <2> QED BY <2>2, FS_CardinalityType
  <1>6. \A w \in Window : tabs[w] = IF w <= n THEN layout[w] ELSE <<>>
    BY DEF LaidTabs
  <1>7. \A w \in Window : lists[w] = UNION ToSet(tabs[w])
    BY DEF LaidLists
  <1>8. tabs \in [Window -> Seq(Page)]
    <2>1. \A w \in Window : tabs[w] \in Seq(Page)
      <3> TAKE w \in Window
      <3>1. CASE w <= n
        <4>1. w \in DOMAIN layout
          BY <1>3, <3>1 DEF Window
        <4> QED BY <1>2, <1>6, <3>1, <4>1
      <3>2. CASE ~(w <= n)
        <4>1. tabs[w] = <<>> /\ <<>> \in Seq(Page)
          BY <1>6, <3>2
        <4> QED BY <4>1
      <3> QED BY <3>1, <3>2
    <2> QED BY <2>1 DEF LaidTabs
  <1>9. \A s \in panes : \E w \in 1..n : s \in lists[w]
    <2> TAKE s \in panes
    <2>1. PICK w \in DOMAIN layout : s \in UNION ToSet(layout[w])
      BY DEF Panes
    <2>2. w \in 1..n /\ w \in Window /\ w <= n
      BY <1>3, <2>1
    <2>3. lists[w] = UNION ToSet(layout[w])
      BY <1>6, <1>7, <2>2
    <2> QED BY <2>1, <2>2, <2>3
  <1>10. \A w \in Window : \A s \in lists[w] : w \in 1..n /\ s \in panes /\ \E i \in DOMAIN layout[w] : s \in layout[w][i]
    <2> TAKE w \in Window
    <2> TAKE s \in lists[w]
    <2>1. PICK i \in DOMAIN tabs[w] : s \in tabs[w][i]
      BY <1>7 DEF ToSet
    <2>2. w <= n
      <3> SUFFICES ASSUME ~(w <= n) PROVE FALSE
        OBVIOUS
      <3>1. tabs[w] = <<>>
        BY <1>6
      <3> QED BY <2>1, <3>1
    <2>3. tabs[w] = layout[w] /\ w \in DOMAIN layout
      BY <1>3, <1>6, <2>2 DEF Window
    <2>4. s \in UNION ToSet(layout[w])
      BY <2>1, <2>3 DEF ToSet
    <2>5. s \in panes
      BY <2>3, <2>4 DEF Panes
    <2> QED BY <1>3, <2>1, <2>3, <2>5
  <1>11. \A v, w \in Window : \A s : s \in lists[v] /\ s \in lists[w] => v = w
    BY <1>2, <1>3, <1>10
  <1>12. \A w \in Window : \A s \in lists[w] : owners[s] = w
    <2> TAKE w \in Window
    <2> TAKE s \in lists[w]
    <2>1. s \in panes /\ s \in Surface
      BY <1>4, <1>10
    <2>2. owners[s] = CHOOSE v \in Window : s \in lists[v]
      BY <2>1 DEF LaidOwners
    <2> HIDE DEF lists, owners
    <2>3. \A v \in Window : s \in lists[v] <=> v = w
      BY <1>11
    <2> QED BY <2>2, <2>3
  <1>13. DOMAIN owners = Surface /\ lists \in [Window -> SUBSET Surface]
    <2>1. \A w \in Window : lists[w] \subseteq Surface
      BY <1>4, <1>10
    <2> QED BY <2>1 DEF LaidOwners, LaidLists
  <1>14. Live(r) = 1..n /\ DOMAIN r.windows = 1..n /\ r.windows # <<>> /\ r.windows \in Seq(Window)
    <2> DEFINE q == [w \in 1..n |-> w]
    <2>1. q \in Seq(Window) /\ DOMAIN q = 1..n /\ q[1] = 1
      BY <1>3
    <2>2. q # <<>>
      BY <1>3, <2>1
    <2>3. ToSet(q) = 1..n
      BY DEF ToSet
    <2>4. r.windows = q
      BY <1>1
    <2> HIDE DEF q
    <2> QED BY <2>1, <2>2, <2>3, <2>4 DEF Live
  <1>15. K <= MaxSurfaces
    <2>1. CASE K = 0
      BY <1>2, <2>1
    <2>2. CASE K > 0
      <3>1. K \in Surface
        BY <1>2, <1>4, <1>5, <2>2
      <3> QED BY <1>2, <3>1 DEF Surface
    <2> QED BY <1>5, <2>1, <2>2
  <1>16. \A w \in Window : \A i, j \in DOMAIN tabs[w] : tabs[w][i] \cap tabs[w][j] # {} => i = j
    <2> TAKE w \in Window
    <2>1. CASE w <= n
      <3>1. tabs[w] = layout[w] /\ w \in DOMAIN layout
        BY <1>3, <1>6, <2>1 DEF Window
      <3> QED BY <1>2, <3>1
    <2>2. CASE ~(w <= n)
      <3>1. tabs[w] = <<>>
        BY <1>6, <2>2
      <3> QED BY <3>1
    <2> QED BY <2>1, <2>2
  <1>17. \A w \in Window : w \notin 1..n => tabs[w] = <<>>
    BY <1>3, <1>6 DEF Window
  <1>18. panes = 1..K
    BY <1>2
  <1>19. \A i \in DOMAIN r.windows : r.windows[i] = i
    BY <1>1, <1>14
  <1> HIDE DEF n, panes, K, tabs, lists, owners
  <1>a. Typed(r)
    <2>1. <<>> \in Seq(Events) /\ <<>> \in Seq(Frames) /\ <<>> \in Seq(Nat) /\ Len(<<>>) <= Cap
      BY <1>2
    <2>2. r.timer \in BOOLEAN /\ r.app \in BOOLEAN
      BY <1>1
    <2>3. r.born \in 0..MaxWindows /\ r.made \in 0..MaxSurfaces
      BY <1>1, <1>2, <1>3, <1>5, <1>15
    <2>4. /\ r.hidden = {} /\ r.pending \subseteq Window /\ r.open \subseteq Window /\ r.closing \subseteq Window
          /\ r.skip \subseteq Window
      BY <1>1, <1>3
    <2> QED BY <1>1, <1>2, <1>4, <1>8, <1>13, <1>14, <2>1, <2>2, <2>3, <2>4 DEF Typed
  <1>b. Owning(r)
    <2>1. \A w \in Window : \A s \in lists[w] : s <= K
      BY <1>5, <1>10, <1>18
    <2> QED BY <1>1, <1>7, <1>10, <1>12, <1>16, <2>1 DEF Owning
  <1>c. Living(r)
    <2>1. \A i, j \in DOMAIN r.windows : r.windows[i] = r.windows[j] => i = j
      BY <1>19
    <2>2. \A w \in Live(r) : w <= r.born
      BY <1>1, <1>3, <1>14
    <2> QED BY <1>1, <1>14, <1>17, <2>1, <2>2 DEF Living
  <1>d. DOMAIN r.queue = {} /\ DOMAIN r.stack = {}
    BY <1>1
  <1>e. Posted(r) /\ Opened(r)
    BY <1>d DEF Posted, Opened
  <1>f. Deleted(r)
    BY <1>1, <1>14 DEF Deleted
  <1>g. Framed(r)
    BY <1>d DEF Framed
  <1>h. Accounted(r)
    <2>1. \A s \in panes : \E w \in Window : s \in lists[w]
      BY <1>3, <1>9
    <2> QED BY <1>1, <2>1 DEF Accounted
  <1>i. Timed(r)
    BY <1>1, <1>d DEF Timed
  <1>j. Quitting(r)
    <2>1. 1 \in r.open
      BY <1>1, <1>3
    <2> QED BY <2>1 DEF Quitting
  <1>k. Armed(r)
    BY <1>14 DEF Armed
  <1> QED BY <1>a, <1>b, <1>c, <1>e, <1>f, <1>g, <1>h, <1>i, <1>j, <1>k DEF Inv, Inv0

-----------------------------------------------------------------------------
(* The theorems.                                                           *)

\* The place of the last start or stop in the queue.
LEMMA LastRequestFine ==
    ASSUME NEW g, g.queue \in Seq(Events), NEW d, d = LastRequest(g)
    PROVE  IF d = 0 THEN NoRequest(g) ELSE d \in DOMAIN g.queue /\ IsLastRequest(g, d)
  <1> DEFINE q == g.queue
             I == {i \in 1..Len(q) : q[i].kind = "quit timer"}
  <1>1. Len(q) \in Nat /\ DOMAIN q = 1..Len(q)
    OBVIOUS
  <1>2. d = IF I # {} THEN Max(I) ELSE 0
    BY DEF LastRequest, SelectLastInSeq
  <1>3. \A i \in DOMAIN q : i \in I <=> q[i].kind = "quit timer"
    BY <1>1
  <1>4. I \subseteq 1..Len(q)
    OBVIOUS
  <1> HIDE DEF I, q
  <1>5. CASE I = {}
    <2>1. d = 0 /\ \A i \in DOMAIN q : q[i].kind # "quit timer"
      BY <1>2, <1>3, <1>5
    <2> QED BY <2>1 DEF NoRequest, q
  <1>6. CASE I # {}
    <2>1. d \in I /\ \A x \in I : x <= d
      BY <1>1, <1>2, <1>4, <1>6, GreatestOf
    <2>2. d \in DOMAIN q /\ d # 0
      BY <1>1, <1>4, <2>1
    <2>3. q[d].kind = "quit timer"
      BY <1>3, <2>1, <2>2
    <2>4. \A j \in DOMAIN q : j > d => q[j].kind # "quit timer"
      <3> SUFFICES ASSUME NEW j \in DOMAIN q, j > d PROVE q[j].kind # "quit timer"
        OBVIOUS
      <3>1. j \in Nat /\ d \in Nat
        BY <1>1, <2>2
      <3>2. ~(j <= d)
        BY <3>1
      <3>3. j \notin I
        BY <2>1, <3>2
      <3> QED BY <1>3, <3>3
    <2> QED BY <2>2, <2>3, <2>4 DEF IsLastRequest, q
  <1> QED BY <1>5, <1>6

\* The properties follow from the invariant: the types.
LEMMA TypeFollows == Inv(gui) => TypeOK
  <1> SUFFICES ASSUME Inv(gui) PROVE TypeOK
    OBVIOUS
  <1>1. Typed(gui)
    BY DEF Inv, Inv0
  <1>2. ToSet(gui.windows) \subseteq Window
    BY <1>1 DEF Typed, ToSet
  <1>3. Registered(gui) \subseteq Surface
    BY <1>1 DEF Typed, Registered
  <1>4. \A w \in Window : ToSet(gui.tabs[w]) \subseteq (SUBSET Surface) \ {{}}
    <2> TAKE w \in Window
    <2>1. gui.tabs[w] \in Seq(Page)
      BY <1>1 DEF Typed
    <2> QED BY <2>1 DEF ToSet, Page
  <1>5. /\ gui.open \subseteq Window /\ gui.closing \subseteq Window /\ gui.skip \subseteq Window
        /\ gui.pending \subseteq Window /\ gui.core \subseteq Surface
        /\ gui.running \subseteq Surface
        /\ Len(gui.undo) <= Cap /\ Len(gui.redo) <= Cap
        /\ gui.phase \in {"running", "quit", "undefined"}
    BY <1>1 DEF Typed
  <1>6. {gui.open, gui.closing, gui.skip, gui.pending, ToSet(gui.windows)} \subseteq SUBSET Window
    BY Zenon, <1>2, <1>5
  <1>7. {gui.core, gui.running, Registered(gui)} \subseteq SUBSET Surface
    BY Zenon, <1>3, <1>5
  <1> QED BY Zenon, <1>4, <1>5, <1>6, <1>7 DEF TypeOK

\* The ownership.
LEMMA OwnedFollows == Inv(gui) => Owned
  <1> SUFFICES ASSUME Inv(gui) PROVE Owned
    OBVIOUS
  <1>1. Typed(gui) /\ Owning(gui)
    BY DEF Inv, Inv0
  <1>2. \A w \in ToSet(gui.windows) : w \in Window
    BY <1>1, LiveWindow DEF Live
  <1> QED BY <1>1, <1>2 DEF Owning, Owned

\* The life of the app.
LEMMA AppFollows == Inv(gui) => AppOutlivesWindows
  BY DEF Inv, Inv0, Living, AppOutlivesWindows

\* The quit timer.
LEMMA TimerFollows == Inv(gui) => QuitTimerSettles
  <1> SUFFICES ASSUME Inv(gui) PROVE QuitTimerSettles
    OBVIOUS
  <1> DEFINE d == LastRequest(gui)
  <1>1. Typed(gui) /\ Timed(gui) /\ gui.queue \in Seq(Events)
    BY DEF Inv, Inv0, Typed
  <1>2. IF d = 0 THEN NoRequest(gui) ELSE d \in DOMAIN gui.queue /\ IsLastRequest(gui, d)
    BY <1>1, LastRequestFine
  <1> HIDE DEF d
  <1>3. Registered(gui) # {} => IF d = 0 THEN ~gui.timer ELSE gui.queue[d].arg = "stop"
    BY <1>1, <1>2 DEF Timed
  <1> QED BY <1>3 DEF QuitTimerSettles, d

\* The end without windows.
LEMMA EndFollows ==
    ASSUME ~Hides \/ "now" \notin Modes, Inv(gui)
    PROVE  HeadlessEnds
  <1> SUFFICES ASSUME gui.phase = "running", gui.windows = <<>> PROVE HeadlessEnds
    BY DEF HeadlessEnds, Running
  <1> DEFINE d == LastRequest(gui)
  <1>1. /\ Typed(gui) /\ Owning(gui) /\ Living(gui) /\ Accounted(gui) /\ Timed(gui)
        /\ Quitting(gui) /\ Armed(gui) /\ gui.queue \in Seq(Events)
    BY DEF Inv, Inv0, Typed
  <1>2. IF d = 0 THEN NoRequest(gui) ELSE d \in DOMAIN gui.queue /\ IsLastRequest(gui, d)
    BY <1>1, LastRequestFine
  <1>3. Live(gui) = {} /\ gui.open = {}
    <2>1. Live(gui) = {}
      BY DEF Live, ToSet
    <2> QED BY <1>1, <2>1 DEF Living
  <1>4. \A i \in DOMAIN gui.queue : gui.queue[i] \in ToSet(gui.queue)
    BY DEF ToSet
  <1> HIDE DEF d
  <1>5. gui.mode = "now" => \E e \in ToSet(gui.queue) : e.kind = "quit"
    <2>1. gui.mode \in Modes
      BY Zenon, <1>1 DEF Typed
    <2> QED BY <1>1, <1>3, <1>4, <2>1 DEF Quitting
  <1>6. gui.core = {} /\ gui.mode = "delay" => IF d = 0 THEN gui.timer ELSE gui.queue[d].arg = "start"
    BY <1>1, <1>2 DEF Timed, Armed
  <1>7. gui.core # {} => \E e \in ToSet(gui.queue) : e.kind = "delete page" /\ e.panes \cap gui.core # {}
    <2> SUFFICES ASSUME NEW s \in gui.core
                 PROVE  \E e \in ToSet(gui.queue) : e.kind = "delete page" /\ e.panes \cap gui.core # {}
      OBVIOUS
    <2>1. \A w \in Window : s \notin gui.registered[w]
      <3> TAKE w \in Window
      <3>1. gui.tabs[w] = <<>> /\ gui.registered[w] = UNION ToSet(gui.tabs[w])
        BY <1>1, <1>3 DEF Living, Owning
      <3>2. ToSet(gui.tabs[w]) = {}
        BY <3>1 DEF ToSet
      <3> QED BY <3>1, <3>2
    <2>2. PICK i \in DOMAIN gui.queue : gui.queue[i].kind = "delete page" /\ s \in gui.queue[i].panes
      BY <1>1, <2>1 DEF Accounted
    <2> QED BY <1>4, <2>2
  <1> QED BY Zenon, <1>5, <1>6, <1>7 DEF HeadlessEnds, d

\* The inductive invariant holds of the windows, tabs and panes of the Qt front end, for any
\* layouts at the start and any bounds.
THEOREM WindowsInvariant == Spec => []Inv(gui)
  <1>1. Init => Inv(gui)
    <2> SUFFICES ASSUME Init PROVE Inv(gui)
      OBVIOUS
    <2>1. PICK mode \in Modes, layout \in Layouts : \E n \in 0..Len(layout) :
             (n = 0 \/ Hides) /\ gui = [Layout(mode, layout) EXCEPT !.hidden = 1..n]
      BY Zenon DEF Init
    <2> DEFINE g == Layout(mode, layout)
    <2>2. PICK n \in 0..Len(layout) : (n = 0 \/ Hides) /\ gui = [g EXCEPT !.hidden = 1..n]
      BY Zenon, <2>1
    <2>3. LaidOut(g, mode, layout)
      BY Zenon, LayoutFields
    <2>4. Inv(g)
      BY Zenon, <2>3, InitFine
    <2> HIDE DEF g
    <2>5. Keeps(gui, g, {"hidden"}) /\ gui.hidden = 1..n
      <3>1. DOMAIN g = Fields
        BY <2>4 DEF Inv, Inv0, Typed
      <3> QED BY Zenon, <2>2, <3>1, HiddenChange
    <2>6. 1..n \subseteq Window /\ (n = 0 => 1..n = {})
      <3>1. Len(layout) \in Window /\ MaxWindows \in Nat
        BY WindowsAssumption
      <3> QED BY <3>1 DEF Window
    <2>7. Fit(gui, g)
      BY <2>2, <2>4, <2>5, <2>6, HiddenFine DEF Inv
    <2> QED BY <2>4, <2>7 DEF Inv, Fit
  <1>2. Inv(gui) /\ [Next]_gui => Inv(gui)'
    <2> SUFFICES ASSUME Inv(gui), [Next]_gui PROVE Inv(gui')
      OBVIOUS
    <2>1. CASE Next
      BY Zenon, <2>1, StepFine
    <2>2. CASE gui' = gui
      BY Zenon, <2>2
    <2> QED BY Zenon, <2>1, <2>2
  <1> QED BY <1>1, <1>2, PTL DEF Spec

\* Every field keeps its type, and the undo stacks stay within kCap (UndoStack.cpp).
THEOREM WindowsTypeOK == Spec => []TypeOK
  BY WindowsInvariant, TypeFollows, PTL

\* Each live window lists exactly the panes of its tabs, and each of them knows it as its
\* owner (m_surfaces, GhosttySurface::owner), whatever is split, dragged, adopted or closed.
THEOREM WindowsOwned == Spec => []Owned
  BY WindowsInvariant, OwnedFollows, PTL

\* No window is without the libghostty app, which ~MainWindow of the last one frees after it
\* handled what was posted to qApp.
THEOREM WindowsAppOutlives == Spec => []AppOutlivesWindows
  BY WindowsInvariant, AppFollows, PTL

\* With a pane listed, the quit timer is off or the last request posted says stop.
THEOREM WindowsQuitTimerSettles == Spec => []QuitTimerSettles
  BY WindowsInvariant, TimerFollows, PTL

\* Once no window is left, the process is on its way to the end as
\* quit-after-last-window-closed tells it to; where it leaves the end to Qt, as
\* long as no window is hidden.
THEOREM WindowsHeadlessEnds ==
    ASSUME ~Hides \/ "now" \notin Modes
    PROVE  Spec => []HeadlessEnds
  <1>1. Inv(gui) => HeadlessEnds
    BY EndFollows
  <1> QED BY <1>1, WindowsInvariant, PTL
=============================================================================
