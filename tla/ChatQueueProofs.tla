-------------------------- MODULE ChatQueueProofs --------------------------
(***************************************************************************)
(* Proofs about ChatQueue for any messages, callers, sizes and bounds: of  *)
(* the queue first, then of what becomes of each message.                  *)
(***************************************************************************)
EXTENDS ChatQueue, FiniteSetTheorems, TLAPS

-----------------------------------------------------------------------------
(* The inductive invariant.                                                *)

CommandSteps == {"lock", "check", "execute", "close", "release"}
InCommand == {c \in Callers : at[c] \in CommandSteps}

\* Rows are numbered once; a row that was generated from stays one, or is what a
\* reset left of it.
InboxIsSound ==
  /\ \A i, k \in DOMAIN arrived : arrived[i] = arrived[k] => i = k
  /\ \A m \in Msgs : row[m] # "absent" <=> m \in Elems(arrived)
  /\ \A m \in Msgs :
       attempts[m] > 0 =>
         row[m] \in {"generating", "retryable", "failed", "answered", "ignored"}

\* Each caller holds a message of the kind its step is for, and users counts the
\* callers on the command path.
CallersAreSound ==
  /\ IsFiniteSet(InCommand) /\ users = Cardinality(InCommand)
  /\ \A c \in Callers :
       /\ at[c] # "idle" => msg[c] \in Elems(arrived)
       /\ c \in InCommand => msg[c] \in Commands
       /\ at[c] = "ignore" => msg[c] \in Unwanted
       /\ at[c] \in {"resume", "admit"} => msg[c] \in Wanted
  /\ Elems(page) \subseteq Elems(arrived)
  /\ page # <<>> \/ at[Recoverer] # "idle" => ~recovered

\* The flags of the queue, its length and its one goroutine.
FlagsAreSound ==
  /\ \A j, k \in jobs : j = k
  /\ running <=> jobs # {}
  /\ refilling <=> \E j \in jobs : j.step \in {"read", "append"}
  /\ refilling => pending = <<>>
  /\ timer => ~running /\ pending # <<>>
  /\ OverflowHasAReader /\ PendingWillRun /\ PendingBounded
  /\ running => Len(pending) <= MaxPending

\* What a goroutine holds at each of its steps.
Holds(j) ==
  \/ j.step = "claim" /\ j.rest = <<>> /\ j.redo = <<>> /\ ~j.failed
       /\ j.batch # <<>> /\ Len(j.batch) <= BurstCap
  \/ j.step \in {"prepare", "generate"} /\ j.redo = <<>> /\ ~j.failed
       /\ j.batch # <<>> /\ 1 + Len(j.rest) <= BurstCap
  \/ j.step = "end" /\ j.batch = <<>> /\ Len(j.redo) + Len(j.rest) <= BurstCap
       /\ (~j.failed => j.redo = <<>>)
  \/ j.step = "read" /\ j.batch = <<>> /\ j.rest = <<>> /\ j.redo = <<>> /\ ~j.failed
  \/ j.step = "append" /\ Len(j.batch) <= MaxPending /\ j.rest = <<>> /\ j.redo = <<>>
       /\ (j.failed => j.batch = <<>>)

\* The queue holds stored messages that are not commands.
Queueable == Elems(arrived) \ Commands
HoldsQueueable(j) ==
  /\ Elems(j.batch) \subseteq Elems(arrived)
  /\ j.step # "append" => Elems(j.batch) \subseteq Queueable
  /\ Elems(j.rest) \cup Elems(j.redo) \subseteq Queueable

\* In a claimed batch only the anchor may still need a reply, and while it is
\* generated its row says so, unless a reset cancelled it.
OnlyTheAnchorIsLeft(j) ==
  /\ j.step \in {"prepare", "generate"} =>
       \A m \in Elems(j.batch) : m = Last(j.batch) \/ row[m] \notin Unfinished
  /\ j.step = "generate" => row[Last(j.batch)] \in {"generating", "ignored"}

JobsAreSound ==
  /\ Elems(pending) \subseteq Queueable
  /\ \A j \in jobs : Holds(j) /\ HoldsQueueable(j) /\ OnlyTheAnchorIsLeft(j)

IInv ==
  TypeOK /\ InboxIsSound /\ CallersAreSound /\ FlagsAreSound /\ JobsAreSound

-----------------------------------------------------------------------------
(* Induction over the naturals, with a set for the property.               *)

\* The initial segments of the numbers in T are finite sets, and one of them has
\* no proper subset among them.
LEMMA LeastElement ==
  ASSUME NEW T, T \subseteq Nat, T # {}
  PROVE  \E x \in T : \A y \in T : x <= y
<1> DEFINE Segments == {0..n : n \in T}
<1>1. \A n \in T : 0..n \in FiniteSubsetsOf(Nat)
  <2> SUFFICES ASSUME NEW n \in T PROVE 0..n \in FiniteSubsetsOf(Nat) OBVIOUS
  <2>1. IsFiniteSet(0..n) BY FS_Interval
  <2>2. 0..n \subseteq Nat OBVIOUS
  <2>3. QED BY <2>1, <2>2 DEF FiniteSubsetsOf
<1>2. Segments \subseteq FiniteSubsetsOf(Nat) /\ Segments # {} BY <1>1
<1>3. IsWellFoundedOn(StrictSubsetOrdering(Nat), FiniteSubsetsOf(Nat))
  BY FS_StrictSubsetOrderingWellFounded
<1>4. PICK S \in Segments : \A U \in Segments : ~ (<<U, S>> \in StrictSubsetOrdering(Nat))
  BY <1>2, <1>3, WFMin
<1>5. PICK x \in T : S = 0..x OBVIOUS
<1>6. ASSUME NEW y \in T, ~(x <= y) PROVE FALSE
  <2>1. (0..y) \subseteq Nat /\ (0..x) \subseteq Nat /\ (0..y) \subseteq 0..x /\ 0..y # 0..x
    BY <1>6
  <2>2. <<0..y, S>> \in StrictSubsetOrdering(Nat)
    BY <2>1, <1>5 DEF StrictSubsetOrdering
  <2>3. QED BY <2>2, <1>4
<1>7. QED BY <1>6

LEMMA SetInduction ==
  ASSUME NEW S, 0 \in S, \A n \in Nat : n \in S => n + 1 \in S
  PROVE  Nat \subseteq S
<1> SUFFICES ASSUME Nat \ S # {} PROVE FALSE OBVIOUS
<1>1. PICK x \in Nat \ S : \A y \in Nat \ S : x <= y BY LeastElement
<1>2. x - 1 \in Nat /\ x - 1 \in S BY <1>1
<1>3. QED BY <1>1, <1>2

-----------------------------------------------------------------------------
(* What Filter returns.                                                    *)

Grow(s, T, g, i) == IF i = 0 THEN <<>>
        ELSE IF s[i] \in T THEN Append(g[i - 1], s[i]) ELSE g[i - 1]

LEMMA FilterExists ==
  ASSUME NEW s, NEW T, NEW n \in Nat
  PROVE  \E g : g = [i \in 0..n |-> Grow(s, T, g, i)]
<1> DEFINE S == {k \in Nat : \E g : g = [i \in 0..k |-> Grow(s, T, g, i)]}
<1>1. 0 \in S
  <2>1. [i \in 0..0 |-> <<>>] = [i \in 0..0 |-> Grow(s, T, [j \in 0..0 |-> <<>>], i)]
    BY DEF Grow
  <2>2. QED BY <2>1
<1>2. ASSUME NEW k \in Nat, k \in S PROVE k + 1 \in S
  <2>1. PICK g : g = [i \in 0..k |-> Grow(s, T, g, i)] BY <1>2
  <2> DEFINE h == [i \in 0..(k + 1) |-> IF i <= k THEN g[i] ELSE Grow(s, T, g, i)]
  <2>2. \A i \in 0..(k + 1) : h[i] = Grow(s, T, h, i)
    <3>1. ASSUME NEW i \in 0..(k + 1) PROVE h[i] = Grow(s, T, g, i)
      BY <2>1
    <3>2. ASSUME NEW i \in 0..(k + 1) PROVE Grow(s, T, g, i) = Grow(s, T, h, i)
      <4>1. i = 0 \/ h[i - 1] = g[i - 1] OBVIOUS
      <4>2. QED BY <4>1 DEF Grow
    <3>3. QED BY <3>1, <3>2
  <2>3. h = [i \in 0..(k + 1) |-> Grow(s, T, h, i)] BY <2>2
  <2> HIDE DEF h
  <2>4. QED BY <2>3
<1>3. QED BY <1>1, <1>2, SetInduction

LEMMA FilterIs == ASSUME NEW s, NEW T, Len(s) \in Nat
  PROVE \E g : /\ g = [i \in 0..Len(s) |-> Grow(s, T, g, i)]
               /\ Filter(s,T) = g[Len(s)]
<1>1. PICK g : g = [i \in 0..Len(s) |-> Grow(s, T, g, i)] BY FilterExists
<1>2. QED BY <1>1 DEF Filter, Grow

\* How Filter's result t of s: its elements are those of s that are in T, in the order of s.
Picks(s, T, n, t, h) ==
  /\ t \in Seq(T) /\ Len(t) <= n
  /\ h \in [1..Len(t) -> 1..n]
  /\ \A i \in 1..Len(t) : t[i] = s[h[i]]
  /\ \A i, j \in 1..Len(t) : i < j => h[i] < h[j]
  /\ \A k \in 1..n : s[k] \in T => \E i \in 1..Len(t) : h[i] = k

LEMMA FilterPicks ==
  ASSUME NEW s, NEW T, Len(s) \in Nat
  PROVE  \E h : Picks(s, T, Len(s), Filter(s, T), h)
<1>1. PICK g : g = [i \in 0..Len(s) |-> Grow(s, T, g, i)] /\ Filter(s, T) = g[Len(s)]
  BY FilterIs
<1> DEFINE S == {k \in Nat : k <= Len(s) => \E h : Picks(s, T, k, g[k], h)}
<1>2. 0 \in S
  <2>1. g[0] = <<>> BY <1>1 DEF Grow
  <2>2. Picks(s, T, 0, g[0], [i \in {} |-> 0])
    BY <2>1 DEF Picks
  <2>3. QED BY <2>2
<1>3. ASSUME NEW k \in Nat, k \in S PROVE k + 1 \in S
  <2> SUFFICES ASSUME k + 1 <= Len(s) PROVE \E h : Picks(s, T, k + 1, g[k + 1], h) OBVIOUS
  <2>1. PICK h : Picks(s, T, k, g[k], h) BY <1>3
  <2>2. g[k + 1] = IF s[k + 1] \in T THEN Append(g[k], s[k + 1]) ELSE g[k]
    <3>1. g[k + 1] = Grow(s, T, g, k + 1) BY <1>1
    <3>2. QED BY <3>1 DEF Grow
  <2> DEFINE t == g[k]
  <2>3. CASE s[k + 1] \in T
    <3> DEFINE hh == [i \in 1..(Len(t) + 1) |-> IF i <= Len(t) THEN h[i] ELSE k + 1]
               u == Append(t, s[k + 1])
    <3>1. t \in Seq(T) /\ Len(t) \in Nat /\ Len(t) <= k BY <2>1 DEF Picks
    <3>2. u \in Seq(T) /\ Len(u) = Len(t) + 1 /\ u[Len(t) + 1] = s[k + 1]
          /\ \A i \in 1..Len(t) : u[i] = t[i]
      BY <3>1, <2>3
    <3>3. Len(u) <= k + 1 BY <3>1, <3>2
    <3>4. hh \in [1..Len(u) -> 1..(k + 1)] BY <2>1, <3>1, <3>2 DEF Picks
    <3>5. \A i \in 1..Len(u) : u[i] = s[hh[i]] BY <2>1, <3>1, <3>2 DEF Picks
    <3>6. \A i, j \in 1..Len(u) : i < j => hh[i] < hh[j] BY <2>1, <3>1, <3>2 DEF Picks
    <3>7. \A n \in 1..(k + 1) : s[n] \in T => \E i \in 1..Len(u) : hh[i] = n
      <4> SUFFICES ASSUME NEW n \in 1..(k + 1), s[n] \in T
                   PROVE \E i \in 1..Len(u) : hh[i] = n OBVIOUS
      <4>1. CASE n = k + 1
        <5>1. Len(t) + 1 \in 1..Len(u) /\ hh[Len(t) + 1] = k + 1 BY <3>1, <3>2
        <5>2. QED BY <5>1, <4>1
      <4>2. CASE n \in 1..k
        <5>1. PICK i \in 1..Len(t) : h[i] = n BY <4>2, <2>1 DEF Picks
        <5>2. i \in 1..Len(u) /\ hh[i] = n BY <5>1, <3>1, <3>2
        <5>3. QED BY <5>2
      <4>3. QED BY <4>1, <4>2
    <3>8. g[k + 1] = u BY <2>2, <2>3
    <3> HIDE DEF hh, u
    <3>9. Picks(s, T, k + 1, g[k + 1], hh)
      BY <3>2, <3>3, <3>4, <3>5, <3>6, <3>7, <3>8 DEF Picks
    <3>10. QED BY <3>9
  <2>4. CASE s[k + 1] \notin T
    <3>1. g[k + 1] = g[k] BY <2>2, <2>4
    <3>2. Picks(s, T, k + 1, g[k], h)
      BY <2>1, <2>4 DEF Picks
    <3>3. QED BY <3>1, <3>2
  <2>5. QED BY <2>3, <2>4
<1>4. Len(s) \in S BY <1>2, <1>3, SetInduction
<1>5. QED BY <1>1, <1>4

-----------------------------------------------------------------------------
(* The elements of a sequence, under the operations the queue uses.        *)

LEMMA ElemsIn == ASSUME NEW S, NEW s \in Seq(S) PROVE Elems(s) \subseteq S BY DEF Elems

LEMMA ElemsEmpty == Elems(<<>>) = {} BY DEF Elems

LEMMA ElemsAppend ==
  ASSUME NEW S, NEW s \in Seq(S), NEW m \in S
  PROVE  Elems(Append(s, m)) = Elems(s) \cup {m}
<1>1. Append(s, m) \in Seq(S) /\ Len(Append(s, m)) = Len(s) + 1
      /\ Append(s, m)[Len(s) + 1] = m /\ \A i \in 1..Len(s) : Append(s, m)[i] = s[i]
  OBVIOUS
<1>2. Len(s) + 1 \in DOMAIN Append(s, m) /\ DOMAIN s \subseteq DOMAIN Append(s, m)
  BY <1>1
<1>3. QED BY <1>1, <1>2 DEF Elems

LEMMA ElemsConcat ==
  ASSUME NEW S, NEW s \in Seq(S), NEW t \in Seq(S)
  PROVE  /\ s \o t \in Seq(S) /\ Len(s \o t) = Len(s) + Len(t)
         /\ Elems(s \o t) = Elems(s) \cup Elems(t)
<1>1. s \o t \in Seq(S) /\ Len(s \o t) = Len(s) + Len(t) OBVIOUS
<1>2. \A i \in 1..Len(s) : (s \o t)[i] = s[i] OBVIOUS
<1>3. \A i \in 1..Len(t) : (s \o t)[Len(s) + i] = t[i] OBVIOUS
<1>4. Elems(s) \subseteq Elems(s \o t) BY <1>1, <1>2 DEF Elems
<1>5. Elems(t) \subseteq Elems(s \o t)
  <2> SUFFICES ASSUME NEW i \in 1..Len(t) PROVE t[i] \in Elems(s \o t) BY DEF Elems
  <2>1. Len(s) + i \in DOMAIN (s \o t) BY <1>1
  <2>2. QED BY <2>1, <1>3 DEF Elems
<1>6. ASSUME NEW i \in DOMAIN (s \o t) PROVE (s \o t)[i] \in Elems(s) \cup Elems(t)
  <2>1. CASE i <= Len(s) BY <2>1, <1>1, <1>2 DEF Elems
  <2>2. CASE i > Len(s)
    <3>1. i - Len(s) \in 1..Len(t) BY <2>2, <1>1
    <3>2. (s \o t)[i] = t[i - Len(s)] BY <3>1, <1>3
    <3>3. QED BY <3>1, <3>2 DEF Elems
  <2>3. QED BY <2>1, <2>2, <1>1
<1>7. QED BY <1>1, <1>4, <1>5, <1>6 DEF Elems

\* A sequence is cut in two.
LEMMA ElemsCut ==
  ASSUME NEW S, NEW s \in Seq(S), NEW k \in 0..Len(s)
  PROVE  /\ SubSeq(s, 1, k) \in Seq(S) /\ Len(SubSeq(s, 1, k)) = k
         /\ \A i \in 1..k : SubSeq(s, 1, k)[i] = s[i]
         /\ SubSeq(s, k + 1, Len(s)) \in Seq(S)
         /\ Len(SubSeq(s, k + 1, Len(s))) = Len(s) - k
         /\ \A i \in 1..(Len(s) - k) : SubSeq(s, k + 1, Len(s))[i] = s[k + i]
         /\ Elems(s) = Elems(SubSeq(s, 1, k)) \cup Elems(SubSeq(s, k + 1, Len(s)))
<1> DEFINE a == SubSeq(s, 1, k)
           b == SubSeq(s, k + 1, Len(s))
<1>1. a \in Seq(S) /\ Len(a) = k /\ \A i \in 1..k : a[i] = s[i] OBVIOUS
<1>2. b \in Seq(S) /\ Len(b) = Len(s) - k /\ \A i \in 1..(Len(s) - k) : b[i] = s[k + i]
  OBVIOUS
<1> HIDE DEF a, b
<1>3. Elems(a) \subseteq Elems(s) /\ Elems(b) \subseteq Elems(s)
  <2>1. Elems(a) \subseteq Elems(s) BY <1>1 DEF Elems
  <2>2. ASSUME NEW i \in 1..Len(b) PROVE b[i] \in Elems(s)
    <3>1. k + i \in DOMAIN s BY <1>2
    <3>2. QED BY <3>1, <1>2 DEF Elems
  <2>3. Elems(b) \subseteq Elems(s)
    <3>1. DOMAIN b = 1..Len(b) BY <1>2
    <3>2. QED BY <2>2, <3>1 DEF Elems
  <2>4. QED BY <2>1, <2>3
<1>4. ASSUME NEW i \in 1..Len(s) PROVE s[i] \in Elems(a) \cup Elems(b)
  <2>1. CASE i <= k BY <2>1, <1>1 DEF Elems
  <2>2. CASE i > k
    <3>1. i - k \in 1..Len(b) /\ b[i - k] = s[i] BY <2>2, <1>2
    <3>2. QED BY <3>1, <1>2 DEF Elems
  <2>3. QED BY <2>1, <2>2
<1>5. Elems(s) \subseteq Elems(a) \cup Elems(b)
  <2>1. DOMAIN s = 1..Len(s) OBVIOUS
  <2>2. QED BY <2>1, <1>4 DEF Elems
<1>6. QED BY <1>1, <1>2, <1>3, <1>5 DEF a, b

LEMMA ElemsTail ==
  ASSUME NEW S, NEW s \in Seq(S), s # <<>>
  PROVE  /\ Head(s) \in S /\ Tail(s) \in Seq(S)
         /\ Elems(s) = {Head(s)} \cup Elems(Tail(s))
<1>1. Len(s) \in Nat \ {0} /\ Head(s) = s[1] /\ Tail(s) \in Seq(S) /\ Head(s) \in S
      /\ Len(Tail(s)) = Len(s) - 1 /\ \A i \in 1..(Len(s) - 1) : Tail(s)[i] = s[i + 1]
  OBVIOUS
<1>2. {Head(s)} \cup Elems(Tail(s)) \subseteq Elems(s)
  <2>1. Head(s) \in Elems(s) BY <1>1 DEF Elems
  <2>2. ASSUME NEW i \in 1..(Len(s) - 1) PROVE Tail(s)[i] \in Elems(s)
    <3>1. i + 1 \in DOMAIN s BY <1>1
    <3>2. QED BY <3>1, <1>1 DEF Elems
  <2>3. QED BY <2>1, <2>2, <1>1 DEF Elems
<1>3. ASSUME NEW i \in 1..Len(s) PROVE s[i] \in {Head(s)} \cup Elems(Tail(s))
  <2>1. CASE i = 1 BY <2>1, <1>1
  <2>2. CASE i > 1
    <3>1. i - 1 \in 1..(Len(s) - 1) BY <2>2, <1>1
    <3>2. Tail(s)[i - 1] = s[(i - 1) + 1] BY <3>1, <1>1
    <3>3. (i - 1) + 1 = i OBVIOUS
    <3>4. i - 1 \in DOMAIN Tail(s) /\ s[i] = Tail(s)[i - 1] BY <3>1, <3>2, <3>3, <1>1
    <3>5. s[i] \in Elems(Tail(s)) BY <3>4, Zenon DEF Elems
    <3>6. QED BY <3>5
  <2>3. QED BY <2>1, <2>2
<1>4. QED BY <1>1, <1>2, <1>3 DEF Elems

LEMMA LastIn ==
  ASSUME NEW S, NEW s \in Seq(S), s # <<>>
  PROVE  Len(s) \in Nat \ {0} /\ Last(s) \in Elems(s) /\ Last(s) \in S
<1>1. Len(s) \in DOMAIN s OBVIOUS
<1>2. QED BY <1>1 DEF Last, Elems

LEMMA FilterElems ==
  ASSUME NEW S, NEW s \in Seq(S), NEW T, T \subseteq S
  PROVE  /\ Filter(s, T) \in Seq(S) /\ Len(Filter(s, T)) <= Len(s)
         /\ Elems(Filter(s, T)) = Elems(s) \cap T
<1> DEFINE t == Filter(s, T)
<1>1. Len(s) \in Nat OBVIOUS
<1>2. PICK h : Picks(s, T, Len(s), t, h) BY <1>1, FilterPicks
<1> HIDE DEF t
<1>3. t \in Seq(S) /\ Len(t) <= Len(s) /\ t \in Seq(T) BY <1>2 DEF Picks
<1>4. \A i \in 1..Len(t) : h[i] \in 1..Len(s) /\ t[i] = s[h[i]] BY <1>2 DEF Picks
<1>5. Elems(t) \subseteq Elems(s) \cap T BY <1>3, <1>4 DEF Elems
<1>6. ASSUME NEW k \in 1..Len(s), s[k] \in T PROVE s[k] \in Elems(t)
  <2>1. PICK i \in 1..Len(t) : h[i] = k BY <1>2, <1>6 DEF Picks
  <2>2. QED BY <2>1, <1>3, <1>4 DEF Elems
<1>7. Elems(s) \cap T \subseteq Elems(t) BY <1>6 DEF Elems
<1>8. QED BY <1>3, <1>5, <1>7 DEF t

-----------------------------------------------------------------------------
(* The inbox and its listing.                                              *)

LEMMA ArrivalIs ==
  ASSUME InboxIsSound, NEW m \in Elems(arrived)
  PROVE  Arrival(m) \in DOMAIN arrived /\ arrived[Arrival(m)] = m
<1>1. \E i \in DOMAIN arrived : arrived[i] = m BY DEF Elems
<1>2. QED BY <1>1 DEF Arrival

LEMMA ArrivalOf ==
  ASSUME InboxIsSound, NEW i \in DOMAIN arrived
  PROVE  Arrival(arrived[i]) = i
<1>1. arrived[i] \in Elems(arrived) BY DEF Elems
<1>2. QED BY <1>1, ArrivalIs DEF InboxIsSound

\* listUnfinished returns unfinished rows; an unfinished row it leaves out arrived
\* after the last one of a full page.
LEMMA ListedRows ==
  ASSUME TypeOK, InboxIsSound, NEW n \in Nat
  PROVE  LET found == UnfinishedAfter(n)
         IN  /\ found \in Seq(Msgs) /\ Len(found) <= MaxPending
             /\ Elems(found) \subseteq {m \in Elems(arrived) : row[m] \in Unfinished}
             /\ \A m \in Msgs : row[m] \in Unfinished /\ Arrival(m) > n =>
                  \/ m \in Elems(found)
                  \/ Len(found) = MaxPending /\ Arrival(m) > Arrival(Last(found))
             /\ Twice(found) = {}
<1> DEFINE T == {m \in Msgs : row[m] \in Unfinished /\ Arrival(m) > n}
           rows == Filter(arrived, T)
           found == UnfinishedAfter(n)
<1>1. arrived \in Seq(Msgs) /\ Len(arrived) \in Nat /\ MaxPending \in Nat \ {0}
  BY Sizes DEF TypeOK, InboxTypeOK
<1>2. PICK h : Picks(arrived, T, Len(arrived), rows, h) BY <1>1, FilterPicks
<1>3. rows \in Seq(Msgs) /\ Elems(rows) = Elems(arrived) \cap T
  BY <1>1, FilterElems
<1> HIDE DEF T, rows
<1>4. found = IF Len(rows) > MaxPending THEN SubSeq(rows, 1, MaxPending) ELSE rows
  BY DEF UnfinishedAfter, T, rows
<1> HIDE DEF found
<1>5. /\ found \in Seq(Msgs) /\ Len(found) <= Len(rows) /\ Len(found) <= MaxPending
      /\ \A i \in 1..Len(found) : found[i] = rows[i]
      /\ Len(found) = Len(rows) \/ Len(found) = MaxPending
  <2>1. CASE Len(rows) > MaxPending
    <3>1. MaxPending \in 0..Len(rows) BY <2>1, <1>1, <1>3
    <3>2. QED BY <3>1, <2>1, <1>3, <1>4, <1>1, ElemsCut
  <2>2. CASE ~(Len(rows) > MaxPending) BY <2>2, <1>1, <1>3, <1>4
  <2>3. QED BY <2>1, <2>2
<1>6. /\ \A i \in 1..Len(rows) : h[i] \in 1..Len(arrived) /\ rows[i] = arrived[h[i]]
      /\ \A i, j \in 1..Len(rows) : i < j => h[i] < h[j]
  BY <1>2 DEF Picks
<1>7. Elems(found) \subseteq Elems(rows)
  <2>1. DOMAIN found \subseteq DOMAIN rows BY <1>3, <1>5
  <2>2. QED BY <2>1, <1>5 DEF Elems
<1>8. Elems(found) \subseteq {m \in Elems(arrived) : row[m] \in Unfinished}
  BY <1>3, <1>7 DEF T
<1>9. \A i \in 1..Len(rows) : Arrival(rows[i]) = h[i]
  BY <1>1, <1>6, ArrivalOf
<1>10. ASSUME NEW m \in Msgs, row[m] \in Unfinished, Arrival(m) > n, m \notin Elems(found)
       PROVE  Len(found) = MaxPending /\ Arrival(m) > Arrival(Last(found))
  <2>1. m \in Elems(arrived) BY <1>10 DEF InboxIsSound, Unfinished
  <2>2. m \in Elems(rows) BY <2>1, <1>3, <1>10 DEF T
  <2>3. PICK i \in 1..Len(rows) : rows[i] = m BY <2>2, <1>3 DEF Elems
  <2>4. i > Len(found)
    <3>1. ~(i \in 1..Len(found)) BY <2>3, <1>5, <1>10 DEF Elems
    <3>2. QED BY <3>1, <1>3, <1>5
  <2>5. Len(found) = MaxPending /\ Len(found) \in 1..Len(rows) BY <2>4, <1>1, <1>3, <1>5
  <2>6. Last(found) = rows[Len(found)] BY <2>5, <1>5 DEF Last
  <2>7. h[Len(found)] < h[i] BY <2>4, <2>5, <1>6
  <2>8. QED BY <2>3, <2>5, <2>6, <2>7, <1>6, <1>9
<1>11. Twice(found) = {}
  <2> SUFFICES ASSUME NEW i \in DOMAIN found, NEW k \in DOMAIN found, i < k
               PROVE  found[i] # found[k]
    BY <1>5 DEF Twice
  <2>1. i \in 1..Len(rows) /\ k \in 1..Len(rows) BY <1>3, <1>5
  <2>2. h[i] < h[k] BY <2>1, <1>6
  <2>3. QED BY <2>1, <2>2, <1>5, <1>6, <1>9
<1>12. QED BY <1>5, <1>8, <1>10, <1>11 DEF found

-----------------------------------------------------------------------------
(* What ClaimBatch makes of a batch.                                       *)

Ordered(b) == \A i, k \in DOMAIN b : i < k => Arrival(b[i]) <= Arrival(b[k])

LEMMA SortedBatch ==
  ASSUME NEW S, NEW b \in Seq(S), NEW s \in Sortings(b)
  PROVE  LET c == [i \in DOMAIN b |-> b[s[i]]]
         IN  /\ c \in Seq(S) /\ Len(c) = Len(b) /\ Elems(c) = Elems(b)
             /\ Ordered(c) /\ Twice(c) \subseteq Twice(b)
<1> DEFINE c == [i \in DOMAIN b |-> b[s[i]]]
<1>1. /\ s \in [DOMAIN b -> DOMAIN b]
      /\ \A i, k \in DOMAIN b : s[i] = s[k] => i = k
      /\ \A k \in DOMAIN b : \E i \in DOMAIN b : s[i] = k
      /\ \A i, k \in DOMAIN b : i < k => Arrival(b[s[i]]) <= Arrival(b[s[k]])
  <2> DEFINE D == DOMAIN b
  <2>1. s \in Bijection(D, D) /\ \A i, k \in D : i < k => Arrival(b[s[i]]) <= Arrival(b[s[k]])
    BY DEF Sortings
  <2> HIDE DEF D
  <2>2. s \in [D -> D] /\ (\A i, k \in D : s[i] = s[k] => i = k)
        /\ \A k \in D : \E i \in D : s[i] = k
    BY <2>1 DEF Bijection, Injection, Surjection, IsInjective
  <2>3. QED BY <2>1, <2>2 DEF D
<1>2. DOMAIN b = 1..Len(b) /\ Len(b) \in Nat OBVIOUS
<1>3. c \in [1..Len(b) -> S] BY <1>1, <1>2
<1>4. c \in Seq(S) /\ Len(c) = Len(b) /\ DOMAIN c = DOMAIN b BY <1>2, <1>3
<1>5. Elems(c) = Elems(b)
  <2>1. Elems(c) \subseteq Elems(b) BY <1>1 DEF Elems
  <2>2. Elems(b) \subseteq Elems(c) BY <1>1 DEF Elems
  <2>3. QED BY <2>1, <2>2
<1>6. Ordered(c) BY <1>1, <1>4 DEF Ordered
<1>7. ASSUME NEW i \in DOMAIN c, NEW k \in DOMAIN c, i # k, c[i] = c[k]
      PROVE  c[i] \in Twice(b)
  <2>1. s[i] \in DOMAIN b /\ s[k] \in DOMAIN b /\ s[i] # s[k] /\ c[i] = b[s[i]] /\ c[k] = b[s[k]]
    BY <1>1, <1>4, <1>7
  <2>2. QED BY <2>1, <1>7 DEF Twice, Elems
<1>8. Twice(c) \subseteq Twice(b) BY <1>7 DEF Twice
<1>9. QED BY <1>4, <1>5, <1>6, <1>8

\* A turn takes a started message only alone, and never nothing of its batch.
LEMMA UsedPart ==
  ASSUME NEW b \in Seq(Msgs), b # <<>>
  PROVE  /\ Used(b) \in 1..Len(b)
         /\ \A j \in 1..Used(b) : Started(b[j]) =>
              j = Used(b) /\ \A k \in 1..(j - 1) : ~Fresh(b[k])
<1> DEFINE first == {i \in DOMAIN b : Started(b[i]) /\ \A j \in 1..(i - 1) : ~Started(b[j])}
<1>1. DOMAIN b = 1..Len(b) /\ Len(b) \in Nat \ {0} OBVIOUS
<1>2. CASE first = {}
  <2>1. ASSUME NEW j \in 1..Len(b), Started(b[j]) PROVE FALSE
    <3> DEFINE T == {i \in 1..Len(b) : Started(b[i])}
    <3>1. T \subseteq Nat /\ T # {} BY <1>1, <2>1
    <3> HIDE DEF T
    <3>2. PICK x \in T : \A y \in T : x <= y BY <3>1, LeastElement
    <3>3. x \in first BY <1>1, <3>2 DEF T
    <3>4. QED BY <3>3, <1>2
  <2>2. Used(b) = Len(b) BY <1>2 DEF Used
  <2> HIDE DEF first
  <2>3. Used(b) \in 1..Len(b) BY <1>1, <2>2
  <2>4. ASSUME NEW j \in 1..Used(b), Started(b[j]) PROVE FALSE
    <3>1. j \in 1..Len(b) BY <1>1, <2>2
    <3>2. QED BY <3>1, <2>1, <2>4
  <2>5. QED BY <2>3, <2>4
<1>3. CASE first # {}
  <2> DEFINE i == CHOOSE k \in first : TRUE
  <2>1. i \in first BY <1>3
  <2> HIDE DEF i
  <2>2. i \in 1..Len(b) /\ \A j \in 1..(i - 1) : ~Started(b[j]) BY <1>1, <2>1
  <2>3. Used(b) = IF \E j \in 1..(i - 1) : Fresh(b[j]) THEN i - 1 ELSE i
    BY <1>3 DEF Used, i
  <2>4. CASE \E j \in 1..(i - 1) : Fresh(b[j])
    <3>1. Used(b) = i - 1 /\ i - 1 \in 1..Len(b) BY <2>2, <2>3, <2>4
    <3>2. QED BY <3>1, <2>2
  <2>5. CASE ~ \E j \in 1..(i - 1) : Fresh(b[j])
    <3>1. Used(b) = i BY <2>3, <2>5
    <3>2. ASSUME NEW j \in 1..i, Started(b[j]) PROVE j = i BY <3>2, <2>2
    <3>3. QED BY <3>1, <3>2, <2>2, <2>5
  <2>6. QED BY <2>4, <2>5
<1>4. QED BY <1>2, <1>3

\* What is claimed was taken, and all of it but the anchor is fresh.
LEMMA ClaimedPart ==
  ASSUME NEW b \in Seq(Msgs), b # <<>>
  PROVE  LET claimed == Claimed(b)
         IN  /\ claimed \in Seq(Msgs) /\ Len(claimed) <= Used(b)
             /\ Elems(claimed) =
                  {m \in Elems(SubSeq(b, 1, Used(b))) : Fresh(m) \/ Started(m)}
             /\ \A i \in 1..(Len(claimed) - 1) : Fresh(claimed[i])
             /\ Ordered(b) => Ordered(claimed)
             /\ Twice(claimed) \subseteq Twice(b)
<1> DEFINE n == Used(b)
           taken == SubSeq(b, 1, n)
           T == {m \in Msgs : Fresh(m) \/ Started(m)}
           claimed == Claimed(b)
<1>1. n \in 1..Len(b) /\ Len(b) \in Nat
      /\ \A j \in 1..n : Started(b[j]) => j = n
  BY UsedPart
<1>2. taken \in Seq(Msgs) /\ Len(taken) = n /\ \A i \in 1..n : taken[i] = b[i]
  BY <1>1, ElemsCut
<1>3. claimed = Filter(taken, T) BY DEF Claimed
<1> T \subseteq Msgs OBVIOUS
<1> HIDE DEF n, taken, claimed, T
<1>4. claimed \in Seq(Msgs) /\ Len(claimed) <= n /\ Elems(claimed) = Elems(taken) \cap T
  BY <1>1, <1>2, <1>3, FilterElems
<1>5. Elems(claimed) = {m \in Elems(taken) : Fresh(m) \/ Started(m)}
  BY <1>2, <1>4, ElemsIn DEF T
<1>6. PICK h : Picks(taken, T, n, claimed, h) BY <1>1, <1>2, <1>3, FilterPicks
<1>7. /\ \A i \in 1..Len(claimed) : h[i] \in 1..n /\ claimed[i] = b[h[i]] /\ claimed[i] \in T
      /\ \A i, j \in 1..Len(claimed) : i < j => h[i] < h[j]
  <2>1. claimed \in Seq(T) /\ Len(claimed) \in Nat BY <1>6 DEF Picks
  <2>2. QED BY <2>1, <1>2, <1>6 DEF Picks
<1>8. ASSUME NEW i \in 1..(Len(claimed) - 1) PROVE Fresh(claimed[i])
  <2>1. i \in 1..Len(claimed) /\ Len(claimed) \in 1..Len(claimed) /\ i < Len(claimed)
    BY <1>4, <1>8
  <2>2. h[i] < h[Len(claimed)] /\ h[Len(claimed)] \in 1..n BY <2>1, <1>7
  <2>3. h[i] \in 1..n /\ h[i] # n BY <2>1, <2>2, <1>1, <1>7
  <2>4. ~Started(b[h[i]]) BY <2>3, <1>1
  <2>5. QED BY <2>1, <2>4, <1>7 DEF T
<1>9. DOMAIN b = 1..Len(b) /\ DOMAIN claimed = 1..Len(claimed) BY <1>4
<1>10. ASSUME Ordered(b) PROVE Ordered(claimed)
  <2> SUFFICES ASSUME NEW i \in DOMAIN claimed, NEW k \in DOMAIN claimed, i < k
               PROVE  Arrival(claimed[i]) <= Arrival(claimed[k])
    BY DEF Ordered
  <2>1. h[i] \in DOMAIN b /\ h[k] \in DOMAIN b /\ h[i] < h[k] BY <1>1, <1>7, <1>9
  <2>2. Arrival(b[h[i]]) <= Arrival(b[h[k]]) BY <2>1, <1>10 DEF Ordered
  <2>3. QED BY <2>2, <1>7, <1>9
<1>11. ASSUME NEW i \in DOMAIN claimed, NEW k \in DOMAIN claimed, i < k,
              claimed[i] = claimed[k]
       PROVE  claimed[i] \in Twice(b)
  <2>1. h[i] \in DOMAIN b /\ h[k] \in DOMAIN b /\ h[i] < h[k] BY <1>1, <1>7, <1>9, <1>11
  <2>2. b[h[i]] = claimed[i] /\ b[h[k]] = claimed[i] BY <1>7, <1>9, <1>11
  <2>3. h[i] # h[k] /\ claimed[i] \in Elems(b) BY <2>1, <2>2, <1>1, <1>9 DEF Elems
  <2>4. QED BY <2>1, <2>2, <2>3 DEF Twice
<1>12. Twice(claimed) \subseteq Twice(b)
  <2> SUFFICES ASSUME NEW m, NEW i \in DOMAIN claimed, NEW k \in DOMAIN claimed,
                      i # k, claimed[i] = m, claimed[k] = m
               PROVE  m \in Twice(b)
    BY DEF Twice
  <2>1. i < k \/ k < i BY <1>4, <1>9
  <2>2. QED BY <2>1, <1>11
<1>13. QED BY <1>4, <1>5, <1>8, <1>10, <1>12 DEF n, taken, claimed

-----------------------------------------------------------------------------
(* Each step preserves each part of the invariant.                         *)

\* What a message is never changes, and a stored row stays.
LEMMA KindStep ==
  ASSUME TypeOK, [Next]_vars
  PROVE  /\ kind' = kind /\ Commands' = Commands /\ Wanted' = Wanted /\ Unwanted' = Unwanted
         /\ arrived' = arrived \/ \E m \in Msgs : row[m] = "absent" /\ arrived' = Append(arrived, m)
         /\ Elems(arrived) \subseteq Elems(arrived')
<1> USE DEF inbox, queue, flags, lock, recovery, seen, counters
<1>1. kind' = kind
      /\ (arrived' = arrived \/ \E m \in Msgs : row[m] = "absent" /\ arrived' = Append(arrived, m))
  BY DEF Next, vars, Deliver, Redeliver, CallerStep, Route, Ignore, Resume, Admit, Acquire,
         Check, Execute, Close, Release, RecoverStep, RecoverList, RecoverNext, RecoverDone,
         StartTurn, JobStep, ClaimBatch, Prepare, Generate, EndTurn, ReadInbox, EndRefill,
         Failure, RecoverListFails, RouteFails, IgnoreFails, ResumeFails, CommandFails,
         ClaimBatchFails, PrepareFails, GenerateFails, ReadInboxFails, Crash
<1>2. Elems(arrived) \subseteq Elems(arrived')
  <2>1. ASSUME NEW m \in Msgs, arrived' = Append(arrived, m)
        PROVE  Elems(arrived) \subseteq Elems(arrived')
    BY <2>1, ElemsAppend DEF TypeOK, InboxTypeOK
  <2>2. QED BY <1>1, <2>1
<1>3. QED BY <1>1, <1>2 DEF Commands, Wanted, Unwanted

LEMMA InitHolds == Init => IInv
<1> SUFFICES ASSUME Init PROVE IInv OBVIOUS
<1> USE DEF Init
<1>1. TypeOK
  <2>1. {MaxPending, BurstCap, MaxAttempts, MaxRetries, MaxDups, MaxFaults, MaxCrashes} \subseteq Nat
    BY Sizes
  <2>2. InboxTypeOK BY <2>1 DEF InboxTypeOK, RowStates
  <2>3. QueueTypeOK BY <2>1 DEF QueueTypeOK
  <2>4. CallersTypeOK BY DEF CallersTypeOK, CallerSteps
  <2>5. SeenTypeOK BY <2>1 DEF SeenTypeOK
  <2>6. FlagsTypeOK BY DEF FlagsTypeOK
  <2>7. QED BY <2>2, <2>3, <2>4, <2>5, <2>6 DEF TypeOK
<1>2. InboxIsSound BY DEF InboxIsSound, Elems
<1>3. CallersAreSound
  <2>1. InCommand = {} BY DEF InCommand, CommandSteps
  <2>2. QED BY <2>1, FS_EmptySet DEF CallersAreSound, Elems, InCommand, CommandSteps, Callers
<1>4. FlagsAreSound
  BY Sizes DEF FlagsAreSound, OverflowHasAReader, PendingWillRun, PendingBounded
<1>5. JobsAreSound BY DEF JobsAreSound, Elems
<1>6. QED BY <1>1, <1>2, <1>3, <1>4, <1>5 DEF IInv

\* Every action of Next, on one level.
LEMMA StepCases ==
  ASSUME [Next]_vars
  PROVE  \/ UNCHANGED vars
         \/ \E c \in Workers, m \in Msgs : Deliver(c, m) \/ Redeliver(c, m)
         \/ \E c \in Callers :
              \/ Route(c) \/ Ignore(c) \/ Resume(c) \/ Admit(c)
              \/ Acquire(c) \/ Check(c) \/ Execute(c) \/ Close(c) \/ Release(c)
              \/ RouteFails(c) \/ IgnoreFails(c) \/ ResumeFails(c) \/ CommandFails(c)
         \/ RecoverList \/ RecoverNext \/ RecoverDone \/ RecoverListFails
         \/ StartTurn \/ Crash
         \/ \E j \in jobs :
              \/ ClaimBatch(j) \/ Prepare(j) \/ Generate(j) \/ EndTurn(j)
              \/ ReadInbox(j) \/ EndRefill(j)
              \/ ClaimBatchFails(j) \/ PrepareFails(j) \/ GenerateFails(j) \/ ReadInboxFails(j)
  BY DEF Next, CallerStep, RecoverStep, JobStep, Failure

\* A row that is stored gets another state.
LEMMA RowChange ==
  ASSUME TypeOK, InboxIsSound, NEW m \in Elems(arrived), NEW s \in RowStates \ {"absent"},
         attempts[m] > 0 => s \in {"generating", "retryable", "failed", "answered", "ignored"},
         row' = [row EXCEPT ![m] = s],
         UNCHANGED <<kind, attempts, arrived, resetAt>>
  PROVE  InboxTypeOK' /\ InboxIsSound'
<1>1. m \in Msgs BY ElemsIn DEF TypeOK, InboxTypeOK
<1>2. InboxTypeOK' BY <1>1 DEF TypeOK, InboxTypeOK
<1>3. Elems(arrived)' = Elems(arrived) BY DEF Elems
<1>4. InboxIsSound'
  <2>1. \A n \in Msgs : row'[n] = IF n = m THEN s ELSE row[n]
    BY <1>1 DEF TypeOK, InboxTypeOK
  <2>2. QED BY <1>3, <2>1, <1>1 DEF InboxIsSound
<1>5. QED BY <1>2, <1>4

\* The handler of a command writes no row, or resets the history.
LEMMA ExecuteRows ==
  ASSUME IInv, NEW c \in Callers, Execute(c)
  PROVE  /\ UNCHANGED <<kind, attempts, arrived, queue, lock, jobs, recovery, seen, counters>>
         /\ \/ UNCHANGED <<row, resetAt>>
            \/ /\ resetAt' = Len(arrived)
               /\ row' = [m \in Msgs |-> IF Started(m) THEN "ignored" ELSE row[m]]
         /\ row' \in [Msgs -> RowStates]
         /\ \A m \in Msgs :
              \/ row'[m] = row[m]
              \/ Started(m) /\ row'[m] = "ignored" /\ resetAt' = Len(arrived)
<1>1. row \in [Msgs -> RowStates] BY DEF IInv, TypeOK, InboxTypeOK
<1>2. "ignored" \in RowStates BY DEF RowStates, Settled
<1>3. CASE UNCHANGED <<row, resetAt>> BY <1>1, <1>3 DEF Execute
<1>4. CASE Reset
  <2>1. resetAt' = Len(arrived)
        /\ row' = [m \in Msgs |-> IF Started(m) THEN "ignored" ELSE row[m]]
    BY <1>4 DEF Reset
  <2>2. row' \in [Msgs -> RowStates] BY <2>1, <1>1, <1>2
  <2>3. \A m \in Msgs :
          row'[m] = row[m] \/ (Started(m) /\ row'[m] = "ignored" /\ resetAt' = Len(arrived))
    BY <2>1
  <2>4. QED BY <2>1, <2>2, <2>3 DEF Execute
<1>5. QED BY <1>3, <1>4 DEF Execute

\* The anchor of a batch is a stored message.
LEMMA AnchorIs ==
  ASSUME IInv, NEW j \in jobs, j.step \in {"prepare", "generate"}
  PROVE  /\ j.batch \in Seq(Msgs) /\ j.rest \in Seq(Msgs) /\ j.batch # <<>>
         /\ Last(j.batch) \in Msgs /\ Last(j.batch) \in Elems(j.batch)
         /\ Last(j.batch) \in Elems(arrived) \ Commands
<1>1. j \in Jobs /\ Holds(j) /\ HoldsQueueable(j)
  BY DEF IInv, TypeOK, QueueTypeOK, JobsAreSound
<1>2. j.batch \in Seq(Msgs) /\ j.rest \in Seq(Msgs) BY <1>1 DEF Jobs
<1>3. j.batch # <<>> BY <1>1 DEF Holds
<1>4. Elems(j.batch) \subseteq Elems(arrived) \ Commands
  BY <1>1 DEF HoldsQueueable, Queueable
<1>5. QED BY <1>2, <1>3, <1>4, LastIn

\* A caller in the middle of something holds a stored message.
LEMMA CallerHolds ==
  ASSUME IInv, NEW c \in Callers, at[c] # "idle"
  PROVE  msg[c] \in Elems(arrived) /\ msg[c] \in Msgs
<1>1. msg[c] \in Elems(arrived) BY DEF IInv, CallersAreSound
<1>2. QED BY <1>1, ElemsIn DEF IInv, TypeOK, InboxTypeOK

\* All a claim of a sorted batch may do: nothing and an error, or a part of the
\* batch taken and the claimed messages of that part.
ClaimTakes(j, taken, claimed, rest) ==
  /\ Elems(j.batch) = Elems(taken) \cup Elems(rest)
  /\ Len(taken) + Len(rest) = Len(j.batch) /\ Len(taken) >= 1 /\ Len(claimed) <= Len(taken)
  /\ Elems(claimed) = {m \in Elems(taken) : Fresh(m) \/ Started(m)}
  /\ \A m \in Elems(Absorbed(claimed)) : Fresh(m) /\ m \in Elems(claimed)
  /\ claimed # <<>> => Elems(claimed) = Elems(Absorbed(claimed)) \cup {Last(claimed)}
  /\ \A i \in DOMAIN claimed : Arrival(claimed[i]) <= Arrival(Last(claimed))
  /\ Ordered(claimed) /\ Ordered(rest)
  /\ \A m \in Elems(taken), n \in Elems(rest) : Arrival(m) <= Arrival(n)
  /\ Last(claimed) \in Elems(Absorbed(claimed)) => Last(claimed) \in Twice(j.batch)
  /\ row' = [m \in Msgs |->
               IF m \in Elems(Absorbed(claimed)) THEN "batched"
               ELSE IF m \in Elems(taken) /\ Stale(m) THEN "ignored" ELSE row[m]]
  /\ anchorOf' = [m \in Msgs |->
                    IF m \in Elems(Absorbed(claimed)) THEN Last(claimed) ELSE anchorOf[m]]
  /\ IF claimed = <<>>
     THEN End(j, rest, <<>>, FALSE)
     ELSE Replace(j, Job("prepare", claimed, rest, <<>>, FALSE))

LEMMA AbsorbedPart ==
  ASSUME NEW claimed \in Seq(Msgs), claimed # <<>>
  PROVE  /\ Elems(claimed) = Elems(Absorbed(claimed)) \cup {Last(claimed)}
         /\ Absorbed(claimed) \in Seq(Msgs) /\ Len(Absorbed(claimed)) = Len(claimed) - 1
         /\ \A i \in 1..(Len(claimed) - 1) : Absorbed(claimed)[i] = claimed[i]
<1>1. Len(claimed) \in Nat \ {0} /\ Len(claimed) - 1 \in 0..Len(claimed) OBVIOUS
<1>2. Absorbed(claimed) \in Seq(Msgs) /\ Len(Absorbed(claimed)) = Len(claimed) - 1
      /\ \A i \in 1..(Len(claimed) - 1) : Absorbed(claimed)[i] = claimed[i]
  <2> DEFINE k == Len(claimed) - 1
  <2>1. k \in 0..Len(claimed) BY <1>1
  <2> HIDE DEF k
  <2>2. SubSeq(claimed, 1, k) \in Seq(Msgs) /\ Len(SubSeq(claimed, 1, k)) = k
        /\ \A i \in 1..k : SubSeq(claimed, 1, k)[i] = claimed[i]
    BY <2>1, ElemsCut
  <2>3. QED BY <2>2 DEF Absorbed, k
<1>3. DOMAIN Absorbed(claimed) = 1..(Len(claimed) - 1) /\ DOMAIN claimed = 1..Len(claimed)
  BY <1>1, <1>2
<1>4. \A i \in DOMAIN claimed : i = Len(claimed) \/ i \in DOMAIN Absorbed(claimed)
  BY <1>1, <1>3
<1>5. Elems(claimed) \subseteq Elems(Absorbed(claimed)) \cup {Last(claimed)}
  BY <1>2, <1>3, <1>4 DEF Elems, Last
<1>6. Elems(Absorbed(claimed)) \cup {Last(claimed)} \subseteq Elems(claimed)
  BY <1>1, <1>2, <1>3 DEF Elems, Last
<1>7. QED BY <1>2, <1>5, <1>6

LEMMA ClaimOutcome ==
  ASSUME IInv, NEW j \in jobs, ClaimBatch(j)
  PROVE  \/ End(j, <<>>, j.batch, TRUE) /\ UNCHANGED <<row, anchorOf>>
         \/ \E taken, claimed, rest \in Seq(Msgs) : ClaimTakes(j, taken, claimed, rest)
<1>1. j \in Jobs /\ Holds(j) BY DEF IInv, TypeOK, QueueTypeOK, JobsAreSound
<1>2. j.batch \in Seq(Msgs) /\ j.batch # <<>> BY <1>1 DEF Jobs, Holds, ClaimBatch
<1>3. PICK s \in Sortings(j.batch) :
        LET b == [i \in DOMAIN j.batch |-> j.batch[s[i]]]
            taken == SubSeq(b, 1, Used(b))
            claimed == Claimed(b)
            rest == SubSeq(b, Used(b) + 1, Len(b))
            others == Elems(Absorbed(claimed))
        IN  \/ End(j, <<>>, j.batch, TRUE) /\ UNCHANGED <<row, anchorOf>>
            \/ /\ row' = [m \in Msgs |->
                           IF m \in others THEN "batched"
                           ELSE IF m \in Elems(taken) /\ Stale(m) THEN "ignored" ELSE row[m]]
               /\ anchorOf' = [m \in Msgs |->
                                IF m \in others THEN Last(claimed) ELSE anchorOf[m]]
               /\ IF claimed = <<>>
                  THEN End(j, rest, <<>>, FALSE)
                  ELSE Replace(j, Job("prepare", claimed, rest, <<>>, FALSE))
  BY DEF ClaimBatch
<1> DEFINE b == [i \in DOMAIN j.batch |-> j.batch[s[i]]]
           taken == SubSeq(b, 1, Used(b))
           claimed == Claimed(b)
           rest == SubSeq(b, Used(b) + 1, Len(b))
           others == Elems(Absorbed(claimed))
<1>4. /\ b \in Seq(Msgs) /\ Len(b) = Len(j.batch) /\ Elems(b) = Elems(j.batch)
      /\ Ordered(b) /\ Twice(b) \subseteq Twice(j.batch)
  BY <1>2, SortedBatch
<1>5. b # <<>> BY <1>2, <1>4
<1> HIDE DEF b
<1>6. Used(b) \in 1..Len(b) /\ Len(b) \in Nat BY <1>4, <1>5, UsedPart
<1>7. /\ taken \in Seq(Msgs) /\ Len(taken) = Used(b) /\ rest \in Seq(Msgs)
      /\ Len(rest) = Len(b) - Used(b) /\ Elems(b) = Elems(taken) \cup Elems(rest)
  BY <1>4, <1>6, ElemsCut
<1>8. /\ claimed \in Seq(Msgs) /\ Len(claimed) <= Used(b)
      /\ Elems(claimed) = {m \in Elems(taken) : Fresh(m) \/ Started(m)}
      /\ \A i \in 1..(Len(claimed) - 1) : Fresh(claimed[i])
      /\ Ordered(claimed) /\ Twice(claimed) \subseteq Twice(j.batch)
  BY <1>4, <1>5, ClaimedPart
<1>8b. Ordered(rest) /\ \A m \in Elems(taken), n \in Elems(rest) : Arrival(m) <= Arrival(n)
  <2> DEFINE u == Used(b)
  <2>1. u \in 0..Len(b) /\ u \in Nat /\ Len(b) \in Nat BY <1>6
  <2> HIDE DEF u
  <2>2. /\ Len(SubSeq(b, 1, u)) = u /\ Len(SubSeq(b, u + 1, Len(b))) = Len(b) - u
        /\ SubSeq(b, 1, u) \in Seq(Msgs) /\ SubSeq(b, u + 1, Len(b)) \in Seq(Msgs)
        /\ \A i \in 1..u : SubSeq(b, 1, u)[i] = b[i]
        /\ \A i \in 1..(Len(b) - u) : SubSeq(b, u + 1, Len(b))[i] = b[u + i]
    BY <1>4, <2>1, ElemsCut
  <2>3. /\ DOMAIN b = 1..Len(b) /\ DOMAIN taken = 1..u /\ DOMAIN rest = 1..(Len(b) - u)
        /\ \A i \in 1..u : taken[i] = b[i]
        /\ \A i \in 1..(Len(b) - u) : rest[i] = b[u + i]
    BY <1>4, <2>1, <2>2 DEF u, taken, rest
  <2>4. ASSUME NEW i \in 1..(Len(b) - u), NEW k \in 1..(Len(b) - u), i < k
        PROVE  Arrival(rest[i]) <= Arrival(rest[k])
    <3>1. u + i \in DOMAIN b /\ u + k \in DOMAIN b /\ u + i < u + k BY <2>1, <2>3, <2>4
    <3>2. Arrival(b[u + i]) <= Arrival(b[u + k]) BY <3>1, <1>4 DEF Ordered
    <3>3. QED BY <2>3, <3>2
  <2>5. ASSUME NEW i \in 1..u, NEW k \in 1..(Len(b) - u)
        PROVE  Arrival(taken[i]) <= Arrival(rest[k])
    <3>1. i \in DOMAIN b /\ u + k \in DOMAIN b /\ i < u + k BY <2>1, <2>3
    <3>2. Arrival(b[i]) <= Arrival(b[u + k]) BY <3>1, <1>4 DEF Ordered
    <3>3. QED BY <2>3, <3>2
  <2>6. QED BY <2>3, <2>4, <2>5 DEF Ordered, Elems
<1> HIDE DEF taken, claimed, rest
<1>9. /\ \A m \in others : Fresh(m) /\ m \in Elems(claimed)
      /\ claimed # <<>> => Elems(claimed) = others \cup {Last(claimed)}
      /\ Last(claimed) \in others => Last(claimed) \in Twice(claimed)
      /\ \A i \in DOMAIN claimed : Arrival(claimed[i]) <= Arrival(Last(claimed))
  <2>1. CASE claimed = <<>>
    <3>1. others = {} /\ DOMAIN claimed = {} BY <2>1 DEF Absorbed, Elems
    <3>2. QED BY <3>1, <2>1
  <2>2. CASE claimed # <<>>
    <3>1. /\ Elems(claimed) = others \cup {Last(claimed)}
          /\ Absorbed(claimed) \in Seq(Msgs) /\ Len(Absorbed(claimed)) = Len(claimed) - 1
          /\ \A i \in 1..(Len(claimed) - 1) : Absorbed(claimed)[i] = claimed[i]
      BY <2>2, <1>8, AbsorbedPart
    <3>2. DOMAIN Absorbed(claimed) = 1..(Len(claimed) - 1) /\ DOMAIN claimed = 1..Len(claimed)
          /\ Len(claimed) \in Nat \ {0}
      BY <3>1, <1>8, <2>2
    <3>3. \A m \in others : \E i \in 1..(Len(claimed) - 1) : m = claimed[i]
      BY <3>1, <3>2 DEF Elems
    <3>4. \A m \in others : Fresh(m) /\ m \in Elems(claimed) BY <3>1, <3>3, <1>8
    <3>5. ASSUME Last(claimed) \in others PROVE Last(claimed) \in Twice(claimed)
      <4>1. PICK i \in 1..(Len(claimed) - 1) : Last(claimed) = claimed[i] BY <3>3, <3>5
      <4> DEFINE n == Len(claimed)
      <4>a. n \in Nat \ {0} /\ DOMAIN claimed = 1..n /\ i \in 1..(n - 1) BY <3>2
      <4> HIDE DEF n
      <4>b. i \in 1..n /\ n \in 1..n /\ i # n BY <4>a
      <4>2. i \in DOMAIN claimed /\ Len(claimed) \in DOMAIN claimed /\ i # Len(claimed)
        BY <4>a, <4>b DEF n
      <4>3. claimed[Len(claimed)] = Last(claimed) BY DEF Last
      <4>4. QED BY <4>1, <4>2, <4>3 DEF Twice, Elems
    <3>6. ASSUME NEW i \in DOMAIN claimed PROVE Arrival(claimed[i]) <= Arrival(Last(claimed))
      <4>1. i < Len(claimed) \/ i = Len(claimed) BY <3>2
      <4>2. Len(claimed) \in DOMAIN claimed BY <3>2
      <4>3. CASE i < Len(claimed) BY <4>2, <4>3, <1>8 DEF Ordered, Last
      <4>4. CASE i = Len(claimed)
        <5>1. claimed[i] \in Elems(arrived)
          <6>1. Elems(j.batch) \subseteq Elems(arrived)
            BY DEF IInv, JobsAreSound, HoldsQueueable
          <6>2. Elems(claimed) \subseteq Elems(j.batch) BY <1>4, <1>7, <1>8
          <6>3. QED BY <6>1, <6>2 DEF Elems
        <5>2. Arrival(claimed[i]) \in DOMAIN arrived BY <5>1, ArrivalIs DEF IInv
        <5>3. Arrival(claimed[i]) \in Int BY <5>2 DEF IInv, TypeOK, InboxTypeOK
        <5>4. QED BY <4>4, <5>3 DEF Last
      <4>5. QED BY <4>1, <4>3, <4>4
    <3>7. QED BY <3>1, <3>4, <3>5, <3>6
  <2>3. QED BY <2>1, <2>2
<1>10. Len(taken) + Len(rest) = Len(j.batch) /\ Len(taken) >= 1 /\ Len(claimed) <= Len(taken)
       /\ Elems(j.batch) = Elems(taken) \cup Elems(rest)
  BY <1>4, <1>6, <1>7, <1>8
<1>11. Last(claimed) \in others => Last(claimed) \in Twice(j.batch) BY <1>8, <1>9
<1>12. CASE End(j, <<>>, j.batch, TRUE) /\ UNCHANGED <<row, anchorOf>> BY <1>12
<1>13. CASE /\ row' = [m \in Msgs |->
                        IF m \in others THEN "batched"
                        ELSE IF m \in Elems(taken) /\ Stale(m) THEN "ignored" ELSE row[m]]
            /\ anchorOf' = [m \in Msgs |->
                             IF m \in others THEN Last(claimed) ELSE anchorOf[m]]
            /\ IF claimed = <<>>
               THEN End(j, rest, <<>>, FALSE)
               ELSE Replace(j, Job("prepare", claimed, rest, <<>>, FALSE))
  <2>1. ClaimTakes(j, taken, claimed, rest)
    BY <1>8, <1>8b, <1>9, <1>10, <1>11, <1>13 DEF ClaimTakes
  <2>2. QED BY <2>1, <1>7, <1>8
<1>14. QED BY <1>3, <1>12, <1>13 DEF b, taken, claimed, rest

\* The rows: what writes them.
LEMMA InboxStep ==
  ASSUME IInv, [Next]_vars
  PROVE  InboxTypeOK' /\ InboxIsSound'
<1> USE DEF inbox, queue, flags, lock, recovery, seen, counters
<1>1. TypeOK /\ InboxIsSound /\ InboxTypeOK BY DEF IInv, TypeOK
<1>2. CASE UNCHANGED inbox
  <2>1. InboxTypeOK' BY <1>1, <1>2 DEF InboxTypeOK
  <2>2. Elems(arrived)' = Elems(arrived) BY <1>2 DEF Elems
  <2>3. QED BY <1>1, <1>2, <2>1, <2>2 DEF InboxIsSound
<1>3. ASSUME NEW c \in Workers, NEW m \in Msgs, Deliver(c, m)
      PROVE  InboxTypeOK' /\ InboxIsSound'
  <2>1. row[m] = "absent" /\ row' = [row EXCEPT ![m] = "received"]
        /\ arrived' = Append(arrived, m) /\ UNCHANGED <<kind, attempts, resetAt>>
    BY <1>3 DEF Deliver
  <2>2. arrived \in Seq(Msgs) /\ Len(arrived) \in Nat BY <1>1 DEF InboxTypeOK
  <2>3. arrived' \in Seq(Msgs) /\ Len(arrived') = Len(arrived) + 1
        /\ Elems(arrived') = Elems(arrived) \cup {m}
        /\ arrived'[Len(arrived) + 1] = m
        /\ \A i \in 1..Len(arrived) : arrived'[i] = arrived[i]
    BY <2>1, <2>2, ElemsAppend
  <2>4. row' \in [Msgs -> RowStates] BY <2>1, <1>1 DEF InboxTypeOK, RowStates, Unfinished
  <2>5. InboxTypeOK' BY <2>1, <2>2, <2>3, <2>4, <1>1 DEF InboxTypeOK
  <2>6. m \notin Elems(arrived) BY <2>1, <1>1 DEF InboxIsSound
  <2>7. ASSUME NEW i \in DOMAIN arrived', NEW k \in DOMAIN arrived', arrived'[i] = arrived'[k]
        PROVE  i = k
    <3>1. DOMAIN arrived' = 1..(Len(arrived) + 1) /\ DOMAIN arrived = 1..Len(arrived)
      BY <2>2, <2>3
    <3>2. \A x \in 1..Len(arrived) : arrived'[x] # m BY <3>1, <2>3, <2>6 DEF Elems
    <3>3. CASE i \in 1..Len(arrived) /\ k \in 1..Len(arrived)
      BY <3>1, <3>3, <2>3, <2>7, <1>1 DEF InboxIsSound
    <3>4. CASE ~(i \in 1..Len(arrived) /\ k \in 1..Len(arrived))
      BY <3>1, <3>2, <3>4, <2>2, <2>3, <2>7
    <3>5. QED BY <3>3, <3>4
  <2>8. \A n \in Msgs : row'[n] = IF n = m THEN "received" ELSE row[n]
    BY <2>1, <1>1 DEF InboxTypeOK
  <2>9. \A n \in Msgs : row'[n] # "absent" <=> n \in Elems(arrived')
    BY <2>3, <2>8, <1>1 DEF InboxIsSound
  <2>10. \A n \in Msgs :
           attempts'[n] > 0 =>
             row'[n] \in {"generating", "retryable", "failed", "answered", "ignored"}
    BY <2>1, <2>8, <1>1 DEF InboxIsSound
  <2>11. QED BY <2>5, <2>7, <2>9, <2>10 DEF InboxIsSound, Elems
<1>4. ASSUME NEW c \in Callers, Ignore(c) \/ Check(c) \/ Close(c)
      PROVE  InboxTypeOK' /\ InboxIsSound'
  <2>1. at[c] # "idle" BY <1>4 DEF Ignore, Check, Close
  <2>2. msg[c] \in Elems(arrived) /\ msg[c] \in Msgs BY <2>1, CallerHolds
  <2>3. \/ UNCHANGED inbox
        \/ /\ \/ row[msg[c]] = "received" /\ SetRow(msg[c], "ignored")
              \/ row[msg[c]] = "received" /\ SetRow(msg[c], "closed")
              \/ SetRow(msg[c], "answered")
           /\ UNCHANGED <<kind, attempts, arrived, resetAt>>
    BY <1>4 DEF Ignore, Check, Close
  <2>4. row[msg[c]] = "received" => ~(attempts[msg[c]] > 0)
    BY <2>2, <1>1 DEF InboxIsSound
  <2>5. {"ignored", "closed", "answered"} \subseteq RowStates \ {"absent"}
    BY DEF RowStates, Settled
  <2>6. QED BY <1>1, <1>2, <2>2, <2>3, <2>4, <2>5, RowChange DEF SetRow
<1>5. ASSUME NEW c \in Callers, Execute(c) PROVE InboxTypeOK' /\ InboxIsSound'
  <2>1. /\ UNCHANGED <<kind, attempts, arrived>> /\ resetAt' \in {resetAt, Len(arrived)}
        /\ row' \in [Msgs -> RowStates]
        /\ \A m \in Msgs : row'[m] = row[m] \/ (Started(m) /\ row'[m] = "ignored")
    BY <1>5, ExecuteRows
  <2>2. Elems(arrived)' = Elems(arrived) BY <2>1 DEF Elems
  <2>3. Len(arrived) \in 0..Len(arrived) BY <1>1 DEF InboxTypeOK
  <2>4. InboxTypeOK' BY <2>1, <2>3, <1>1 DEF InboxTypeOK
  <2>5. QED BY <2>1, <2>2, <2>4, <1>1 DEF InboxIsSound, Started
<1>6. ASSUME NEW j \in jobs, ClaimBatch(j) PROVE InboxTypeOK' /\ InboxIsSound'
  <2>1. UNCHANGED <<kind, attempts, arrived, resetAt>> BY <1>6 DEF ClaimBatch
  <2>2. CASE UNCHANGED row BY <1>2, <2>1, <2>2
  <2>3. ASSUME NEW taken \in Seq(Msgs), NEW claimed \in Seq(Msgs), NEW rest \in Seq(Msgs),
               ClaimTakes(j, taken, claimed, rest)
        PROVE  InboxTypeOK' /\ InboxIsSound'
    <3>1. \A m \in Elems(Absorbed(claimed)) : Fresh(m) BY <2>3 DEF ClaimTakes
    <3>2. \A m \in Msgs :
            \/ row'[m] = row[m]
            \/ row[m] = "received" /\ row'[m] \in {"batched", "ignored"}
      BY <2>3, <3>1 DEF ClaimTakes, Fresh, Stale
    <3>3. row' \in [Msgs -> RowStates]
      <4>1. row' = [m \in Msgs |-> row'[m]] BY <2>3 DEF ClaimTakes
      <4>2. \A m \in Msgs : row'[m] \in RowStates
        BY <3>2, <1>1 DEF InboxTypeOK, RowStates, Settled
      <4>3. QED BY <4>1, <4>2
    <3>4. Elems(arrived)' = Elems(arrived) BY <2>1 DEF Elems
    <3>5. InboxTypeOK' BY <2>1, <3>3, <1>1 DEF InboxTypeOK
    <3>6. QED BY <2>1, <3>2, <3>4, <3>5, <1>1 DEF InboxIsSound
  <2>4. QED BY <1>6, <2>2, <2>3, ClaimOutcome
<1>7. ASSUME NEW j \in jobs, Prepare(j) PROVE InboxTypeOK' /\ InboxIsSound'
  <2> DEFINE m == Last(j.batch)
  <2>1. j.step = "prepare" /\ UNCHANGED <<kind, arrived, resetAt>> BY <1>7 DEF Prepare
  <2>2. m \in Msgs /\ m \in Elems(arrived) BY <2>1, AnchorIs
  <2>3. \/ UNCHANGED <<row, attempts>>
        \/ SetRow(m, "failed") /\ UNCHANGED attempts
        \/ /\ row[m] \notin {"failed", "answered", "ignored"} /\ ~Exhausted(m)
           /\ SetRow(m, "generating") /\ attempts' = [attempts EXCEPT ![m] = @ + 1]
    BY <1>7 DEF Prepare, Blocked
  <2> HIDE DEF m
  <2>4. CASE UNCHANGED <<row, attempts>> BY <2>1, <2>4, <1>2
  <2>5. CASE SetRow(m, "failed") /\ UNCHANGED attempts
    <3>1. "failed" \in RowStates \ {"absent"} BY DEF RowStates, Settled
    <3>2. QED BY <3>1, <2>1, <2>2, <2>5, <1>1, RowChange DEF SetRow
  <2>6. CASE /\ row[m] \notin {"failed", "answered", "ignored"} /\ ~Exhausted(m)
             /\ SetRow(m, "generating") /\ attempts' = [attempts EXCEPT ![m] = @ + 1]
    <3>1. attempts[m] \in 0..MaxAttempts /\ MaxAttempts \in Nat \ {0}
      BY <2>2, <1>1, Sizes DEF InboxTypeOK
    <3>2. attempts[m] + 1 \in 0..MaxAttempts
      <4>1. CASE Started(m) BY <4>1, <3>1, <2>6 DEF Exhausted
      <4>2. CASE ~Started(m)
        <5>1. ~(attempts[m] > 0) BY <4>2, <2>2, <2>6, <1>1 DEF InboxIsSound, Started
        <5>2. QED BY <5>1, <3>1
      <4>3. QED BY <4>1, <4>2
    <3>3. attempts' \in [Msgs -> 0..MaxAttempts] BY <3>2, <2>6, <1>1 DEF InboxTypeOK
    <3>4. row' \in [Msgs -> RowStates]
      BY <2>6, <1>1 DEF InboxTypeOK, SetRow, RowStates, Unfinished
    <3>5. InboxTypeOK' BY <2>1, <3>3, <3>4, <1>1 DEF InboxTypeOK
    <3>6. Elems(arrived)' = Elems(arrived) BY <2>1 DEF Elems
    <3>7. \A n \in Msgs : n # m => row'[n] = row[n] /\ attempts'[n] = attempts[n]
      BY <2>6, <1>1 DEF InboxTypeOK, SetRow
    <3>8. row'[m] = "generating" BY <2>2, <2>6, <1>1 DEF InboxTypeOK, SetRow
    <3>9. QED BY <2>1, <2>2, <3>5, <3>6, <3>7, <3>8, <1>1 DEF InboxIsSound
  <2>7. QED BY <2>3, <2>4, <2>5, <2>6
<1>8. ASSUME NEW j \in jobs, Generate(j) \/ GenerateFails(j) PROVE InboxTypeOK' /\ InboxIsSound'
  <2> DEFINE m == Last(j.batch)
  <2>1. j.step = "generate" /\ UNCHANGED <<kind, attempts, arrived, resetAt>>
    BY <1>8 DEF Generate, GenerateFails
  <2>2. m \in Elems(arrived) BY <2>1, AnchorIs
  <2>3. \/ UNCHANGED row
        \/ \E s \in {"retryable", "failed", "generating", "answered"} : SetRow(m, s)
    BY <1>8 DEF Generate, GenerateFails
  <2> HIDE DEF m
  <2>4. CASE UNCHANGED row BY <2>1, <2>4, <1>2
  <2>5. ASSUME NEW s \in {"retryable", "failed", "generating", "answered"}, SetRow(m, s)
        PROVE  InboxTypeOK' /\ InboxIsSound'
    <3>1. s \in RowStates \ {"absent"} BY DEF RowStates, Settled, Unfinished
    <3>2. QED BY <3>1, <2>1, <2>2, <2>5, <1>1, RowChange DEF SetRow
  <2>6. QED BY <2>3, <2>4, <2>5
<1>9. QED
  BY StepCases, <1>2, <1>3, <1>4, <1>5, <1>6, <1>7, <1>8
     DEF vars, Redeliver, Route, Resume, Admit, Acquire, Release, RouteFails, IgnoreFails,
         ResumeFails, CommandFails, RecoverList, RecoverNext, RecoverDone, RecoverListFails,
         StartTurn, Crash, EndTurn, ReadInbox, EndRefill, ClaimBatchFails, PrepareFails,
         ReadInboxFails

\* A caller that is in the middle of a message goes on with it, inside the command
\* path or outside it, or leaves it.
LEMMA CallerMoves ==
  ASSUME IInv, [Next]_vars, NEW c \in Callers, NEW step \in CallerSteps,
         at[c] # "idle", at' = [at EXCEPT ![c] = step],
         step \in CommandSteps <=> at[c] \in CommandSteps,
         step = "idle" \/ UNCHANGED msg, step = "idle" => msg' = [msg EXCEPT ![c] = NoMsg],
         step = "ignore" => msg[c] \in Unwanted,
         step \in {"resume", "admit"} => msg[c] \in Wanted,
         UNCHANGED <<users, page, recovered>>
  PROVE  CallersAreSound'
<1>1. /\ at \in [Callers -> CallerSteps] /\ msg \in [Callers -> Msgs \cup {NoMsg}]
      /\ CallersAreSound
  BY DEF IInv, TypeOK, CallersTypeOK
<1>2. \A d \in Callers : at'[d] = IF d = c THEN step ELSE at[d] BY <1>1
<1>3. \A d \in Callers : d # c \/ step # "idle" => msg'[d] = msg[d] BY <1>1
<1>4. /\ Commands' = Commands /\ Wanted' = Wanted /\ Unwanted' = Unwanted
      /\ Elems(arrived) \subseteq Elems(arrived')
  BY KindStep DEF IInv
<1>5. InCommand' = InCommand BY <1>2 DEF InCommand
<1>6. ASSUME NEW d \in Callers
      PROVE  /\ at'[d] # "idle" => msg'[d] \in Elems(arrived')
             /\ d \in InCommand' => msg'[d] \in Commands'
             /\ at'[d] = "ignore" => msg'[d] \in Unwanted'
             /\ at'[d] \in {"resume", "admit"} => msg'[d] \in Wanted'
  <2>1. CASE d # c
    <3>1. at'[d] = at[d] /\ msg'[d] = msg[d] BY <2>1, <1>2, <1>3
    <3>2. QED BY <3>1, <1>1, <1>4, <1>5 DEF CallersAreSound
  <2>2. CASE d = c /\ step # "idle"
    <3>1. at'[d] = step /\ msg'[d] = msg[c] BY <2>2, <1>2, <1>3
    <3>2. QED BY <3>1, <2>2, <1>1, <1>4, <1>5 DEF CallersAreSound
  <2>3. CASE d = c /\ step = "idle"
    <3>1. at'[d] = "idle" BY <2>3, <1>2
    <3>2. d \notin InCommand' BY <3>1 DEF InCommand, CommandSteps
    <3>3. QED BY <3>1, <3>2
  <2>4. QED BY <2>1, <2>2, <2>3
<1>7. Elems(page)' \subseteq Elems(arrived)'
  <2>1. Elems(page)' = Elems(page) BY DEF Elems
  <2>2. QED BY <2>1, <1>1, <1>4 DEF CallersAreSound
<1>8. page' # <<>> \/ at'[Recoverer] # "idle" => ~recovered'
  <2>1. Recoverer \in Callers BY DEF Callers
  <2>2. QED BY <2>1, <1>1, <1>2 DEF CallersAreSound
<1>9. IsFiniteSet(InCommand') /\ users' = Cardinality(InCommand')
  BY <1>1, <1>5 DEF CallersAreSound
<1>10. QED BY <1>6, <1>7, <1>8, <1>9 DEF CallersAreSound

\* An idle caller takes up a stored message.
LEMMA CallerStarts ==
  ASSUME IInv, [Next]_vars, NEW c \in Callers, NEW m \in Msgs, at[c] = "idle",
         m \in Elems(arrived'),
         at' = [at EXCEPT ![c] = "route"], msg' = [msg EXCEPT ![c] = m],
         UNCHANGED <<users, recovered>>, Elems(page)' \subseteq Elems(page),
         c = Recoverer \/ page' # <<>> => ~recovered
  PROVE  CallersAreSound'
<1>1. /\ at \in [Callers -> CallerSteps] /\ msg \in [Callers -> Msgs \cup {NoMsg}]
      /\ CallersAreSound
  BY DEF IInv, TypeOK, CallersTypeOK
<1>2. \A d \in Callers : at'[d] = IF d = c THEN "route" ELSE at[d] BY <1>1
<1>3. \A d \in Callers : msg'[d] = IF d = c THEN m ELSE msg[d] BY <1>1
<1>4. /\ Commands' = Commands /\ Wanted' = Wanted /\ Unwanted' = Unwanted
      /\ Elems(arrived) \subseteq Elems(arrived')
  BY KindStep DEF IInv
<1>5. InCommand' = InCommand BY <1>2 DEF InCommand, CommandSteps
<1>6. c \notin InCommand' BY <1>2 DEF InCommand, CommandSteps
<1>7. \A d \in Callers :
        /\ at'[d] # "idle" => msg'[d] \in Elems(arrived')
        /\ d \in InCommand' => msg'[d] \in Commands'
        /\ at'[d] = "ignore" => msg'[d] \in Unwanted'
        /\ at'[d] \in {"resume", "admit"} => msg'[d] \in Wanted'
  BY <1>1, <1>2, <1>3, <1>4, <1>5, <1>6 DEF CallersAreSound
<1>8. page' # <<>> \/ at'[Recoverer] # "idle" => ~recovered'
  BY <1>1, <1>2 DEF CallersAreSound, Callers
<1>9. IsFiniteSet(InCommand') /\ users' = Cardinality(InCommand')
  BY <1>1, <1>5 DEF CallersAreSound
<1>10. Elems(page)' \subseteq Elems(arrived)' BY <1>1, <1>4 DEF CallersAreSound
<1>11. QED BY <1>7, <1>8, <1>9, <1>10 DEF CallersAreSound

\* Nobody moves.
LEMMA CallersStay ==
  ASSUME IInv, [Next]_vars, UNCHANGED <<at, msg, users>>,
         Elems(page)' \subseteq Elems(arrived),
         page' # <<>> \/ at[Recoverer] # "idle" => ~recovered'
  PROVE  CallersAreSound'
<1>1. CallersAreSound BY DEF IInv
<1>2. /\ Commands' = Commands /\ Wanted' = Wanted /\ Unwanted' = Unwanted
      /\ Elems(arrived) \subseteq Elems(arrived')
  BY KindStep DEF IInv
<1>3. InCommand' = InCommand BY DEF InCommand
<1>4. \A d \in Callers :
        /\ at'[d] # "idle" => msg'[d] \in Elems(arrived')
        /\ d \in InCommand' => msg'[d] \in Commands'
        /\ at'[d] = "ignore" => msg'[d] \in Unwanted'
        /\ at'[d] \in {"resume", "admit"} => msg'[d] \in Wanted'
  BY <1>1, <1>2, <1>3 DEF CallersAreSound
<1>5. QED BY <1>1, <1>2, <1>3, <1>4 DEF CallersAreSound

\* The callers: who routes what, and who waits for the commands lock.
LEMMA CallersStep == ASSUME IInv, [Next]_vars PROVE CallersAreSound'
<1> USE DEF inbox, queue, flags, lock, recovery, seen, counters
<1>1. /\ at \in [Callers -> CallerSteps] /\ CallersAreSound /\ TypeOK /\ InboxIsSound
      /\ msg \in [Callers -> Msgs \cup {NoMsg}] /\ page \in Seq(Msgs)
      /\ after \in Nat
  BY DEF IInv, TypeOK, CallersTypeOK, InboxTypeOK
<1>2. Recoverer \in Callers /\ Workers \subseteq Callers /\ Recoverer \notin Workers
  BY CallersDiffer DEF Callers
<1>3. CASE UNCHANGED <<at, msg, users, page, recovered>>
  <2>1. Elems(page)' = Elems(page) BY <1>3 DEF Elems
  <2>2. QED BY <2>1, <1>1, <1>3, CallersStay DEF CallersAreSound
<1>4. ASSUME NEW c \in Workers, NEW m \in Msgs, Deliver(c, m) \/ Redeliver(c, m)
      PROVE  CallersAreSound'
  <2>1. m \in Elems(arrived')
    <3>1. CASE Deliver(c, m)
      <4>1. arrived' = Append(arrived, m) BY <3>1 DEF Deliver
      <4>2. Elems(Append(arrived, m)) = Elems(arrived) \cup {m}
        BY <1>1, ElemsAppend DEF TypeOK, InboxTypeOK
      <4>3. QED BY <4>1, <4>2
    <3>2. CASE Redeliver(c, m)
      <4>1. row[m] # "absent" /\ arrived' = arrived BY <3>2 DEF Redeliver, Unfinished
      <4>2. QED BY <4>1, <1>1 DEF InboxIsSound
    <3>3. QED BY <1>4, <3>1, <3>2
  <2>2. at[c] = "idle" /\ at' = [at EXCEPT ![c] = "route"] /\ msg' = [msg EXCEPT ![c] = m]
        /\ UNCHANGED <<users, recovered, page>>
    BY <1>4 DEF Deliver, Redeliver
  <2>3. Elems(page)' = Elems(page) BY <2>2 DEF Elems
  <2>4. page' # <<>> => ~recovered BY <2>2, <1>1 DEF CallersAreSound
  <2>5. QED BY <2>1, <2>2, <2>3, <2>4, <1>2, CallerStarts
<1>5. CASE RecoverNext
  <2>1. at[Recoverer] = "idle" /\ page # <<>> /\ at' = [at EXCEPT ![Recoverer] = "route"]
        /\ msg' = [msg EXCEPT ![Recoverer] = Head(page)] /\ page' = Tail(page)
        /\ UNCHANGED <<users, recovered, arrived>>
    BY <1>5 DEF RecoverNext
  <2>2. Head(page) \in Msgs /\ Tail(page) \in Seq(Msgs)
        /\ Elems(page) = {Head(page)} \cup Elems(Tail(page))
    BY <2>1, <1>1, ElemsTail
  <2>3. Head(page) \in Elems(arrived') /\ Elems(page') \subseteq Elems(page) /\ ~recovered
    BY <2>1, <2>2, <1>1 DEF CallersAreSound
  <2>4. QED BY <2>1, <2>2, <2>3, <1>2, CallerStarts
<1>6. CASE RecoverList
  <2>1. page' = UnfinishedAfter(after) /\ ~recovered /\ UNCHANGED <<at, msg, users, recovered>>
    BY <1>6 DEF RecoverList
  <2>2. Elems(UnfinishedAfter(after)) \subseteq Elems(arrived) BY <1>1, ListedRows
  <2>3. QED BY <2>1, <2>2, CallersStay
<1>7. CASE RecoverDone
  <2>1. at[Recoverer] = "idle" /\ page = <<>> /\ UNCHANGED <<at, msg, users, page>>
    BY <1>7 DEF RecoverDone
  <2>2. Elems(page)' = {} BY <2>1 DEF Elems
  <2>3. QED BY <2>1, <2>2, CallersStay
<1>8. ASSUME NEW c \in Callers, Route(c) PROVE CallersAreSound'
  <2>1. at[c] = "route" /\ UNCHANGED <<msg, page, recovered, arrived>> /\ msg[c] \in Msgs
        /\ msg[c] \in Elems(arrived)
    BY <1>8, CallerHolds DEF Route, Move
  <2>2. CASE msg[c] \in Commands
    <3>1. at' = [at EXCEPT ![c] = "lock"] /\ users' = users + 1
      BY <1>8, <2>2 DEF Route, Move
    <3>2. \A d \in Callers : at'[d] = IF d = c THEN "lock" ELSE at[d] BY <3>1, <1>1
    <3>3. InCommand' = InCommand \cup {c} /\ c \notin InCommand
      BY <3>2, <2>1 DEF InCommand, CommandSteps
    <3>4. IsFiniteSet(InCommand) /\ users = Cardinality(InCommand)
      BY <1>1 DEF CallersAreSound
    <3>5. IsFiniteSet(InCommand \cup {c}) /\ Cardinality(InCommand \cup {c}) = Cardinality(InCommand) + 1
      BY <3>3, <3>4, FS_AddElement
    <3>6. Commands' = Commands /\ Wanted' = Wanted /\ Unwanted' = Unwanted
      BY <1>1, KindStep
    <3>7. Elems(page)' = Elems(page) /\ Elems(arrived)' = Elems(arrived) BY <2>1 DEF Elems
    <3>8. \A d \in Callers :
            /\ at'[d] # "idle" => msg'[d] \in Elems(arrived')
            /\ d \in InCommand' => msg'[d] \in Commands'
            /\ at'[d] = "ignore" => msg'[d] \in Unwanted'
            /\ at'[d] \in {"resume", "admit"} => msg'[d] \in Wanted'
      BY <3>2, <3>3, <3>6, <3>7, <2>1, <2>2, <1>1 DEF CallersAreSound
    <3>9. page' # <<>> \/ at'[Recoverer] # "idle" => ~recovered'
      BY <3>2, <2>1, <1>1, <1>2 DEF CallersAreSound
    <3>10. QED BY <3>1, <3>3, <3>4, <3>5, <3>7, <3>8, <3>9, <1>1 DEF CallersAreSound
  <2>3. CASE msg[c] \notin Commands
    <3> DEFINE step == IF msg[c] \in Unwanted THEN "ignore" ELSE "resume"
    <3>1. at' = [at EXCEPT ![c] = step] /\ users' = users BY <1>8, <2>3 DEF Route, Move
    <3>2. msg[c] \in Wanted \cup Unwanted
      <4>1. kind \in [Msgs -> MessageKinds]
        BY <1>1, KindsOfMessages DEF TypeOK, InboxTypeOK
      <4>2. kind[msg[c]] \in MessageKinds BY <4>1, <2>1
      <4>3. kind[msg[c]] # "command" BY <2>1, <2>3 DEF Commands
      <4>4. QED BY <4>2, <4>3, <2>1 DEF Wanted, Unwanted, MessageKinds
    <3>3. step \in CallerSteps /\ step \notin CommandSteps /\ at[c] \notin CommandSteps
          /\ step # "idle" /\ (step = "ignore" => msg[c] \in Unwanted)
          /\ (step \in {"resume", "admit"} => msg[c] \in Wanted)
      BY <3>2, <2>1 DEF CallerSteps, CommandSteps
    <3> HIDE DEF step
    <3>4. QED BY <3>1, <3>3, <2>1, CallerMoves
  <2>4. QED BY <2>2, <2>3
<1>9. ASSUME NEW c \in Callers,
             \/ Ignore(c) \/ Resume(c) \/ Admit(c)
             \/ RouteFails(c) \/ IgnoreFails(c) \/ ResumeFails(c)
      PROVE  CallersAreSound'
  <2>1. at[c] \in {"route", "ignore", "resume", "admit"} /\ UNCHANGED <<users, page, recovered>>
    BY <1>9 DEF Ignore, Resume, Admit, RouteFails, IgnoreFails, ResumeFails, Fails
  <2>2. \/ Leave(c)
        \/ at[c] = "resume" /\ Move(c, "admit")
    BY <1>9 DEF Ignore, Resume, Admit, RouteFails, IgnoreFails, ResumeFails, Fails
  <2>3. at[c] = "resume" => msg[c] \in Wanted BY <1>1 DEF CallersAreSound
  <2>4. QED BY <2>1, <2>2, <2>3, CallerMoves DEF Leave, Move, CallerSteps, CommandSteps
<1>10. ASSUME NEW c \in Callers,
              Acquire(c) \/ Check(c) \/ Execute(c) \/ Close(c) \/ CommandFails(c)
       PROVE  CallersAreSound'
  <2>1. at[c] \in {"lock", "check", "execute", "close"} /\ UNCHANGED <<msg, users, page, recovered>>
    BY <1>10 DEF Acquire, Check, Execute, Close, CommandFails, Move
  <2>2. \E step \in {"check", "execute", "close", "release"} : at' = [at EXCEPT ![c] = step]
    BY <1>10 DEF Acquire, Check, Execute, Close, CommandFails, Move
  <2>3. QED BY <2>1, <2>2, CallerMoves DEF CallerSteps, CommandSteps
<1>11. ASSUME NEW c \in Callers, Release(c) PROVE CallersAreSound'
  <2>1. at[c] = "release" /\ at' = [at EXCEPT ![c] = "idle"] /\ users' = users - 1
        /\ msg' = [msg EXCEPT ![c] = NoMsg] /\ UNCHANGED <<page, recovered, arrived>>
    BY <1>11 DEF Release, Leave
  <2>2. \A d \in Callers : at'[d] = IF d = c THEN "idle" ELSE at[d] BY <2>1, <1>1
  <2>3. \A d \in Callers : d # c => msg'[d] = msg[d] BY <2>1, <1>1
  <2>4. InCommand' = InCommand \ {c} /\ c \in InCommand
    BY <2>1, <2>2 DEF InCommand, CommandSteps
  <2>5. IsFiniteSet(InCommand) /\ users = Cardinality(InCommand) BY <1>1 DEF CallersAreSound
  <2>6. IsFiniteSet(InCommand \ {c}) /\ Cardinality(InCommand \ {c}) = Cardinality(InCommand) - 1
    BY <2>4, <2>5, FS_RemoveElement
  <2>7. Commands' = Commands /\ Wanted' = Wanted /\ Unwanted' = Unwanted BY <1>1, KindStep
  <2>8. Elems(page)' = Elems(page) /\ Elems(arrived)' = Elems(arrived) BY <2>1 DEF Elems
  <2>9. \A d \in Callers :
          /\ at'[d] # "idle" => msg'[d] \in Elems(arrived')
          /\ d \in InCommand' => msg'[d] \in Commands'
          /\ at'[d] = "ignore" => msg'[d] \in Unwanted'
          /\ at'[d] \in {"resume", "admit"} => msg'[d] \in Wanted'
    BY <2>2, <2>3, <2>4, <2>7, <2>8, <1>1 DEF CallersAreSound
  <2>10. page' # <<>> \/ at'[Recoverer] # "idle" => ~recovered'
    BY <2>1, <2>2, <1>1, <1>2 DEF CallersAreSound
  <2>11. QED BY <2>1, <2>4, <2>5, <2>6, <2>8, <2>9, <2>10, <1>1 DEF CallersAreSound
<1>12. CASE Crash
  <2>1. /\ users' = 0 /\ at' = [c \in Callers |-> "idle"] /\ recovered' = FALSE /\ page' = <<>>
    BY <1>12 DEF Crash
  <2>2. \A d \in Callers : at'[d] = "idle" BY <2>1
  <2>3. InCommand' = {} BY <2>2 DEF InCommand, CommandSteps
  <2>4. Elems(page)' = {} BY <2>1 DEF Elems
  <2>5. QED BY <2>1, <2>2, <2>3, <2>4, <1>2, FS_EmptySet DEF CallersAreSound
<1>13. QED
  BY StepCases, <1>3, <1>4, <1>5, <1>6, <1>7, <1>8, <1>9, <1>10, <1>11, <1>12
     DEF vars, RecoverListFails, StartTurn, ClaimBatch, Prepare, Generate, EndTurn, ReadInbox,
         EndRefill, ClaimBatchFails, PrepareFails, GenerateFails, ReadInboxFails

\* The chat's one goroutine.
LEMMA TheJob ==
  ASSUME IInv, NEW j \in jobs
  PROVE  /\ jobs = {j} /\ running /\ ~timer /\ j \in Jobs
         /\ j.batch \in Seq(Msgs) /\ j.rest \in Seq(Msgs) /\ j.redo \in Seq(Msgs)
         /\ j.failed \in BOOLEAN
         /\ Holds(j) /\ HoldsQueueable(j) /\ OnlyTheAnchorIsLeft(j)
         /\ Len(pending) <= MaxPending
         /\ refilling <=> j.step \in {"read", "append"}
         /\ j.step \in {"read", "append"} => pending = <<>>
<1>1. j \in Jobs /\ Holds(j) /\ HoldsQueueable(j) /\ OnlyTheAnchorIsLeft(j)
  BY DEF IInv, TypeOK, QueueTypeOK, JobsAreSound
<1>2. j.batch \in Seq(Msgs) /\ j.rest \in Seq(Msgs) /\ j.redo \in Seq(Msgs) /\ j.failed \in BOOLEAN
  BY <1>1 DEF Jobs
<1>3. jobs = {j} BY DEF IInv, FlagsAreSound
<1>4. running /\ ~timer /\ Len(pending) <= MaxPending BY <1>3 DEF IInv, FlagsAreSound
<1>5. refilling <=> j.step \in {"read", "append"} BY <1>3 DEF IInv, FlagsAreSound
<1>6. j.step \in {"read", "append"} => pending = <<>> BY <1>5 DEF IInv, FlagsAreSound
<1>7. QED BY <1>1, <1>2, <1>3, <1>4, <1>5, <1>6

QueueSound == QueueTypeOK /\ FlagsAreSound /\ JobsAreSound

\* The goroutine goes on and the queue stays.
LEMMA JobGoesOn ==
  ASSUME IInv, [Next]_vars, NEW j \in jobs, NEW k \in Jobs, Replace(j, k),
         UNCHANGED <<queue, lock>>, k.step \in {"read", "append"} <=> j.step \in {"read", "append"},
         Holds(k), HoldsQueueable(k), OnlyTheAnchorIsLeft(k)'
  PROVE  QueueSound'
<1> USE DEF queue, flags, lock
<1>1. jobs' = {k} BY TheJob DEF Replace
<1>2. QueueTypeOK /\ FlagsAreSound /\ JobsAreSound /\ TypeOK BY DEF IInv, TypeOK
<1>3. QueueTypeOK' BY <1>1, <1>2 DEF QueueTypeOK
<1>4. running /\ (refilling <=> k.step \in {"read", "append"}) BY TheJob
<1>5. FlagsAreSound'
  BY <1>1, <1>2, <1>4 DEF FlagsAreSound, OverflowHasAReader, PendingWillRun, PendingBounded
<1>6. Commands' = Commands /\ Elems(arrived) \subseteq Elems(arrived') BY <1>2, KindStep
<1>7. HoldsQueueable(k)' BY <1>6 DEF HoldsQueueable, Queueable, Elems
<1>8. Elems(pending)' \subseteq Queueable' BY <1>2, <1>6 DEF JobsAreSound, Queueable, Elems
<1>9. Holds(k)' BY DEF Holds
<1>10. JobsAreSound' BY <1>1, <1>7, <1>8, <1>9 DEF JobsAreSound
<1>11. QED BY <1>3, <1>5, <1>10 DEF QueueSound

\* The goroutine is over, or one starts, and the queue changes.
LEMMA QueueChanges ==
  ASSUME IInv, [Next]_vars, NEW left \in Seq(Msgs), NEW K, K \subseteq Jobs,
         pending' = left, jobs' = K, \A j, k \in K : j = k,
         Elems(left) \subseteq Queueable, retries' \in 0..MaxRetries,
         Len(left) <= MaxPending + BurstCap, K # {} => Len(left) <= MaxPending,
         running' <=> K # {},
         refilling' <=> \E j \in K : j.step \in {"read", "append"},
         refilling' => left = <<>>,
         timer' => ~running' /\ left # <<>>,
         overflow' => running' \/ timer' \/ users' > 0,
         left # <<>> => timer' \/ running',
         \A k \in K : Holds(k) /\ HoldsQueueable(k) /\ k.step \notin {"prepare", "generate"}
  PROVE  QueueSound'
<1>1. TypeOK BY DEF IInv
<1>2. QueueTypeOK' BY DEF QueueTypeOK
<1>3. FlagsAreSound'
  BY DEF FlagsAreSound, OverflowHasAReader, PendingWillRun, PendingBounded
<1>4. Commands' = Commands /\ Elems(arrived) \subseteq Elems(arrived') BY <1>1, KindStep
<1>5. Elems(pending)' \subseteq Queueable' BY <1>4 DEF Queueable, Elems
<1>6. \A k \in K : HoldsQueueable(k)' BY <1>4 DEF HoldsQueueable, Queueable, Elems
<1>7. \A k \in K : Holds(k)' BY DEF Holds
<1>8. \A k \in K : OnlyTheAnchorIsLeft(k)' BY DEF OnlyTheAnchorIsLeft
<1>9. JobsAreSound' BY <1>5, <1>6, <1>7, <1>8 DEF JobsAreSound
<1>10. QED BY <1>2, <1>3, <1>9 DEF QueueSound

\* A step of a caller or of Recover leaves the rows of a claimed batch alone, or
\* ignores one that was not settled.
RowsRest == \A m \in Queueable : row'[m] = row[m] \/ (row[m] \in Unfinished /\ row'[m] = "ignored")

LEMMA QueueRests ==
  ASSUME IInv, [Next]_vars, UNCHANGED <<queue, jobs>>, RowsRest,
         overflow /\ ~running /\ ~timer => users' > 0
  PROVE  QueueSound'
<1> USE DEF queue, flags
<1>1. QueueTypeOK /\ FlagsAreSound /\ JobsAreSound /\ TypeOK BY DEF IInv, TypeOK
<1>2. QueueTypeOK' BY <1>1 DEF QueueTypeOK
<1>3. FlagsAreSound'
  BY <1>1 DEF FlagsAreSound, OverflowHasAReader, PendingWillRun, PendingBounded
<1>4. Commands' = Commands /\ Elems(arrived) \subseteq Elems(arrived') BY <1>1, KindStep
<1>5. Elems(pending)' \subseteq Queueable' BY <1>1, <1>4 DEF JobsAreSound, Queueable, Elems
<1>6. ASSUME NEW j \in jobs
      PROVE  Holds(j)' /\ HoldsQueueable(j)' /\ OnlyTheAnchorIsLeft(j)'
  <2>1. Holds(j) /\ HoldsQueueable(j) /\ OnlyTheAnchorIsLeft(j) BY <1>1 DEF JobsAreSound
  <2>2. Holds(j)' BY <2>1 DEF Holds
  <2>3. HoldsQueueable(j)' BY <2>1, <1>4 DEF HoldsQueueable, Queueable, Elems
  <2>4. OnlyTheAnchorIsLeft(j)'
    <3>1. CASE j.step \in {"prepare", "generate"}
      <4>1. Elems(j.batch) \subseteq Queueable BY <2>1, <3>1 DEF HoldsQueueable
      <4>2. Last(j.batch) \in Elems(j.batch) BY <3>1, AnchorIs
      <4>3. \A m \in Elems(j.batch) : row[m] \notin Unfinished => row'[m] \notin Unfinished
        BY <4>1 DEF RowsRest, Unfinished
      <4>4. row[Last(j.batch)] \in {"generating", "ignored"} =>
              row'[Last(j.batch)] \in {"generating", "ignored"}
        BY <4>1, <4>2 DEF RowsRest
      <4>5. QED BY <2>1, <4>3, <4>4 DEF OnlyTheAnchorIsLeft, Elems, Last
    <3>2. CASE j.step \notin {"prepare", "generate"} BY <3>2 DEF OnlyTheAnchorIsLeft
    <3>3. QED BY <3>1, <3>2
  <2>5. QED BY <2>2, <2>3, <2>4
<1>7. JobsAreSound' BY <1>5, <1>6 DEF JobsAreSound
<1>8. QED BY <1>2, <1>3, <1>7 DEF QueueSound

\* The goroutine of a turn ends with what it could not do.
LEMMA TurnEnds ==
  ASSUME IInv, [Next]_vars, NEW j \in jobs, NEW rest \in Seq(Msgs), NEW redo \in Seq(Msgs),
         NEW failed \in BOOLEAN, End(j, rest, redo, failed), UNCHANGED <<queue, lock>>,
         j.step \in {"claim", "prepare", "generate"},
         Elems(rest) \cup Elems(redo) \subseteq Queueable,
         Len(redo) + Len(rest) <= BurstCap, ~failed => redo = <<>>
  PROVE  QueueSound'
<1> DEFINE k == Job("end", <<>>, rest, redo, failed)
<1>1. Replace(j, k) BY DEF End
<1>2. k \in Jobs /\ k.step = "end" /\ k.batch = <<>> /\ k.rest = rest /\ k.redo = redo
      /\ k.failed = failed
  <2>1. "end" \in JobSteps /\ <<>> \in Seq(Msgs) BY DEF JobSteps
  <2>2. QED BY <2>1 DEF Job, Jobs
<1> HIDE DEF k
<1>3. Holds(k) BY <1>2 DEF Holds
<1>4. HoldsQueueable(k) BY <1>2, ElemsEmpty DEF HoldsQueueable
<1>5. OnlyTheAnchorIsLeft(k)' BY <1>2 DEF OnlyTheAnchorIsLeft
<1>6. QED BY <1>1, <1>2, <1>3, <1>4, <1>5, JobGoesOn

\* One message is a batch of its own.
LEMMA OneMessage ==
  ASSUME NEW m \in Msgs
  PROVE  <<m>> \in Seq(Msgs) /\ Len(<<m>>) = 1 /\ Elems(<<m>>) = {m}
  BY DEF Elems

LEMMA ClaimStep ==
  ASSUME IInv, [Next]_vars, NEW j \in jobs, ClaimBatch(j) \/ ClaimBatchFails(j)
  PROVE  QueueSound'
<1> USE DEF inbox, queue, flags, lock, recovery, seen, counters
<1>1. /\ j.step = "claim" /\ UNCHANGED <<queue, lock, kind, attempts, arrived, resetAt>>
  BY DEF ClaimBatch, ClaimBatchFails
<1>2. /\ j.batch \in Seq(Msgs) /\ j.batch # <<>> /\ Len(j.batch) <= BurstCap /\ Len(j.batch) \in Nat
      /\ Elems(j.batch) \subseteq Queueable /\ <<>> \in Seq(Msgs) /\ BurstCap \in Nat
  <2>1. j.batch \in Seq(Msgs) /\ Holds(j) /\ HoldsQueueable(j) BY TheJob
  <2>2. j.batch # <<>> /\ Len(j.batch) <= BurstCap BY <1>1, <2>1 DEF Holds
  <2>3. Elems(j.batch) \subseteq Queueable BY <1>1, <2>1 DEF HoldsQueueable
  <2>4. QED BY <2>1, <2>2, <2>3, Sizes
<1>3. CASE End(j, <<>>, j.batch, TRUE)
  <2>1. Elems(<<>>) \cup Elems(j.batch) \subseteq Queueable BY <1>2, ElemsEmpty
  <2>2. Len(j.batch) + Len(<<>>) <= BurstCap BY <1>2
  <2>3. QED BY <1>1, <1>2, <1>3, <2>1, <2>2, TurnEnds
<1>4. ASSUME NEW taken \in Seq(Msgs), NEW claimed \in Seq(Msgs), NEW rest \in Seq(Msgs),
             ClaimTakes(j, taken, claimed, rest)
      PROVE  QueueSound'
  <2>1. /\ Elems(rest) \subseteq Queueable /\ Elems(taken) \subseteq Queueable
        /\ Elems(claimed) \subseteq Queueable
    BY <1>2, <1>4 DEF ClaimTakes
  <2>2. 1 + Len(rest) <= BurstCap /\ Len(rest) \in Nat BY <1>2, <1>4 DEF ClaimTakes
  <2>3. CASE claimed = <<>>
    <3>1. End(j, rest, <<>>, FALSE) BY <1>4, <2>3 DEF ClaimTakes
    <3>2. Elems(rest) \cup Elems(<<>>) \subseteq Queueable BY <2>1, ElemsEmpty
    <3>3. Len(<<>>) + Len(rest) <= BurstCap BY <1>2, <2>2
    <3>4. QED BY <1>1, <1>2, <3>1, <3>2, <3>3, TurnEnds
  <2>4. CASE claimed # <<>>
    <3> DEFINE k == Job("prepare", claimed, rest, <<>>, FALSE)
    <3>1. /\ k \in Jobs /\ k.step = "prepare" /\ k.batch = claimed /\ k.rest = rest
          /\ k.redo = <<>> /\ ~k.failed
      <4>1. "prepare" \in JobSteps /\ <<>> \in Seq(Msgs) /\ FALSE \in BOOLEAN BY DEF JobSteps
      <4>2. QED BY <4>1, <1>2 DEF Job, Jobs
    <3>2. Replace(j, k) BY <1>4, <2>4 DEF ClaimTakes
    <3> HIDE DEF k
    <3>3. Holds(k) BY <3>1, <2>2, <2>4 DEF Holds
    <3>4. HoldsQueueable(k) BY <3>1, <2>1, ElemsEmpty DEF HoldsQueueable, Queueable
    <3>5. \A m \in Elems(claimed) : m = Last(claimed) \/ row'[m] \notin Unfinished
      <4>1. ASSUME NEW m \in Elems(Absorbed(claimed)) PROVE row'[m] = "batched"
        <5>1. m \in Msgs
          BY <1>4, <4>1, ElemsIn DEF ClaimTakes
        <5>2. QED BY <1>4, <4>1, <5>1 DEF ClaimTakes
      <4>2. Elems(claimed) = Elems(Absorbed(claimed)) \cup {Last(claimed)}
        BY <1>4, <2>4 DEF ClaimTakes
      <4>3. QED BY <4>1, <4>2 DEF Unfinished
    <3>6. OnlyTheAnchorIsLeft(k)' BY <3>1, <3>5 DEF OnlyTheAnchorIsLeft, Elems, Last
    <3>7. QED BY <1>1, <3>1, <3>2, <3>3, <3>4, <3>6, JobGoesOn
  <2>5. QED BY <2>3, <2>4
<1>5. QED BY <1>3, <1>4, ClaimOutcome DEF ClaimBatchFails

LEMMA TurnStep ==
  ASSUME IInv, [Next]_vars, NEW j \in jobs,
         Prepare(j) \/ PrepareFails(j) \/ Generate(j) \/ GenerateFails(j)
  PROVE  QueueSound'
<1> USE DEF inbox, queue, flags, lock, recovery, seen, counters
<1> DEFINE m == Last(j.batch)
<1>1. j.step \in {"prepare", "generate"} /\ UNCHANGED <<queue, lock, kind, arrived>>
  BY DEF Prepare, PrepareFails, Generate, GenerateFails
<1>2. /\ j.batch \in Seq(Msgs) /\ j.batch # <<>> /\ j.rest \in Seq(Msgs) /\ j.redo = <<>>
      /\ 1 + Len(j.rest) <= BurstCap /\ Len(j.rest) \in Nat /\ BurstCap \in Nat
      /\ ~j.failed /\ j.step \in {"prepare", "generate"} /\ j \in Jobs
      /\ Elems(j.batch) \cup Elems(j.rest) \subseteq Queueable
  <2>1. j.batch \in Seq(Msgs) /\ j.rest \in Seq(Msgs) /\ Holds(j) /\ HoldsQueueable(j) /\ j \in Jobs
    BY TheJob
  <2>2. j.batch # <<>> /\ j.redo = <<>> /\ 1 + Len(j.rest) <= BurstCap /\ ~j.failed
    BY <1>1, <2>1 DEF Holds
  <2>3. Elems(j.batch) \cup Elems(j.rest) \subseteq Queueable BY <1>1, <2>1 DEF HoldsQueueable
  <2>4. QED BY <1>1, <2>1, <2>2, <2>3, Sizes
<1>3. m \in Msgs /\ m \in Queueable BY <1>1, AnchorIs DEF Queueable
<1>4. <<m>> \in Seq(Msgs) /\ Len(<<m>>) = 1 /\ Elems(<<m>>) = {m} BY <1>3, OneMessage
<1>5. \/ End(j, j.rest, <<m>>, TRUE) \/ End(j, j.rest, <<>>, FALSE)
      \/ /\ j.step = "prepare" /\ SetRow(m, "generating")
         /\ Replace(j, [j EXCEPT !.step = "generate"])
  BY DEF Prepare, PrepareFails, Generate, GenerateFails
<1> HIDE DEF m
<1>6. CASE End(j, j.rest, <<m>>, TRUE)
  <2>1. Elems(j.rest) \cup Elems(<<m>>) \subseteq Queueable BY <1>2, <1>3, <1>4
  <2>2. Len(<<m>>) + Len(j.rest) <= BurstCap BY <1>2, <1>4
  <2>3. QED BY <1>1, <1>2, <1>4, <1>6, <2>1, <2>2, TurnEnds
<1>7. CASE End(j, j.rest, <<>>, FALSE)
  <2>1. Elems(j.rest) \cup Elems(<<>>) \subseteq Queueable BY <1>2, ElemsEmpty
  <2>2. Len(<<>>) + Len(j.rest) <= BurstCap /\ <<>> \in Seq(Msgs) BY <1>2
  <2>3. QED BY <1>1, <1>2, <1>7, <2>1, <2>2, TurnEnds
<1>8. CASE /\ j.step = "prepare" /\ SetRow(m, "generating")
           /\ Replace(j, [j EXCEPT !.step = "generate"])
  <2> DEFINE k == [j EXCEPT !.step = "generate"]
  <2>1. /\ k \in Jobs /\ k.step = "generate" /\ k.batch = j.batch /\ k.rest = j.rest
        /\ k.redo = j.redo /\ k.failed = j.failed
    BY <1>2 DEF Jobs, JobSteps
  <2>2. Replace(j, k) BY <1>8
  <2> HIDE DEF k
  <2>3. Holds(k) BY <2>1, <1>2 DEF Holds
  <2>4. HoldsQueueable(k) BY <2>1, <1>2, ElemsEmpty DEF HoldsQueueable, Queueable
  <2>5. \A n \in Elems(j.batch) : n = m \/ row[n] \notin Unfinished
    BY <1>8, TheJob DEF OnlyTheAnchorIsLeft, m
  <2>6. row'[m] = "generating" /\ \A n \in Msgs : n # m => row'[n] = row[n]
    BY <1>3, <1>8 DEF SetRow, IInv, TypeOK, InboxTypeOK
  <2>7. Elems(j.batch) \subseteq Msgs BY <1>2, ElemsIn
  <2>8. OnlyTheAnchorIsLeft(k)'
    BY <2>1, <2>5, <2>6, <2>7 DEF OnlyTheAnchorIsLeft, Elems, Last, m
  <2>9. QED BY <1>1, <1>8, <2>1, <2>2, <2>3, <2>4, <2>8, JobGoesOn
<1>9. QED BY <1>5, <1>6, <1>7, <1>8

LEMMA ReadStep ==
  ASSUME IInv, [Next]_vars, NEW j \in jobs, ReadInbox(j) \/ ReadInboxFails(j)
  PROVE  QueueSound'
<1> USE DEF inbox, queue, flags, lock, recovery, seen, counters
<1>1. j.step = "read" /\ UNCHANGED <<queue, lock, arrived, kind>>
  BY DEF ReadInbox, ReadInboxFails
<1>2. MaxPending \in Nat \ {0} /\ TypeOK /\ InboxIsSound BY Sizes DEF IInv
<1>3. CASE ReadInbox(j)
  <2> DEFINE found == UnfinishedAfter(0)
  <2>1. found \in Seq(Msgs) /\ Len(found) <= MaxPending /\ Elems(found) \subseteq Elems(arrived)
    BY <1>2, ListedRows
  <2>2. PICK b \in Seq(Msgs) : b = found BY <2>1
  <2>3. Replace(j, NewJob("append", b)) BY <1>3, <2>2 DEF ReadInbox
  <2> DEFINE k == NewJob("append", b)
  <2>4. k \in Jobs /\ k.step = "append" /\ k.batch = b /\ k.rest = <<>> /\ k.redo = <<>>
        /\ k.failed = FALSE
    <3>1. "append" \in JobSteps /\ <<>> \in Seq(Msgs) /\ FALSE \in BOOLEAN BY DEF JobSteps
    <3>2. QED BY <3>1 DEF Job, NewJob, Jobs
  <2> HIDE DEF k, found
  <2>5. Holds(k) BY <2>1, <2>2, <2>4 DEF Holds
  <2>6. HoldsQueueable(k) BY <2>1, <2>2, <2>4, ElemsEmpty DEF HoldsQueueable
  <2>7. OnlyTheAnchorIsLeft(k)' BY <2>4 DEF OnlyTheAnchorIsLeft
  <2>8. QED BY <1>1, <2>3, <2>4, <2>5, <2>6, <2>7, JobGoesOn DEF k
<1>4. CASE ReadInboxFails(j)
  <2> DEFINE k == Job("append", <<>>, <<>>, <<>>, TRUE)
  <2>1. k \in Jobs /\ k.step = "append" /\ k.batch = <<>> /\ k.rest = <<>> /\ k.redo = <<>>
        /\ k.failed = TRUE
    <3>1. "append" \in JobSteps /\ <<>> \in Seq(Msgs) /\ TRUE \in BOOLEAN BY DEF JobSteps
    <3>2. QED BY <3>1 DEF Job, Jobs
  <2>2. Replace(j, k) BY <1>4 DEF ReadInboxFails
  <2> HIDE DEF k
  <2>3. Holds(k) BY <1>2, <2>1 DEF Holds
  <2>4. HoldsQueueable(k) BY <2>1, ElemsEmpty DEF HoldsQueueable
  <2>5. OnlyTheAnchorIsLeft(k)' BY <2>1 DEF OnlyTheAnchorIsLeft
  <2>6. QED BY <1>1, <2>1, <2>2, <2>3, <2>4, <2>5, JobGoesOn
<1>5. QED BY <1>3, <1>4

\* What goes back in front of the queue came out of one batch.
LEMMA RequeuedPart ==
  ASSUME IInv, NEW j \in jobs, j.step = "end", NEW retry
  PROVE  /\ Requeued(j, retry) \in Seq(Msgs) /\ Len(Requeued(j, retry)) <= BurstCap
         /\ Elems(Requeued(j, retry)) \subseteq Elems(j.redo) \cup Elems(j.rest)
         /\ Elems(j.rest) \subseteq Elems(Requeued(j, retry))
         /\ retry => Elems(j.redo) \subseteq Elems(Requeued(j, retry))
<1>1. /\ j.redo \in Seq(Msgs) /\ j.rest \in Seq(Msgs) /\ Len(j.redo) + Len(j.rest) <= BurstCap
      /\ Len(j.redo) \in Nat /\ Len(j.rest) \in Nat /\ BurstCap \in Nat
  <2>1. j.redo \in Seq(Msgs) /\ j.rest \in Seq(Msgs) /\ Holds(j) BY TheJob
  <2>2. Len(j.redo) + Len(j.rest) <= BurstCap BY <2>1 DEF Holds
  <2>3. BurstCap \in Nat BY Sizes
  <2>4. Len(j.redo) \in Nat /\ Len(j.rest) \in Nat BY <2>1
  <2>5. QED BY <2>1, <2>2, <2>3, <2>4
<1> DEFINE again == IF retry THEN j.redo ELSE <<>>
<1>2. again \in Seq(Msgs) /\ Len(again) <= Len(j.redo) /\ Len(again) \in Nat
      /\ Elems(again) \subseteq Elems(j.redo) /\ (retry => again = j.redo)
  <2>1. CASE retry BY <2>1, <1>1
  <2>2. CASE ~retry BY <2>2, <1>1, ElemsEmpty
  <2>3. QED BY <2>1, <2>2
<1>3. Requeued(j, retry) = again \o j.rest BY DEF Requeued
<1> HIDE DEF again
<1>4. /\ again \o j.rest \in Seq(Msgs) /\ Len(again \o j.rest) = Len(again) + Len(j.rest)
      /\ Elems(again \o j.rest) = Elems(again) \cup Elems(j.rest)
  BY <1>1, <1>2, ElemsConcat
<1>5. Len(Requeued(j, retry)) <= BurstCap
  <2>1. Len(Requeued(j, retry)) = Len(again) + Len(j.rest) BY <1>3, <1>4
  <2>2. \A a, b, c, d \in Nat : a + b <= d /\ c <= a => c + b <= d OBVIOUS
  <2>3. Len(again) + Len(j.rest) <= BurstCap BY <1>1, <1>2, <2>2
  <2>4. QED BY <2>1, <2>3
<1>6. QED BY <1>2, <1>3, <1>4, <1>5

\* A goroutine that reads the inbox holds nothing yet.
LEMMA ReaderIs ==
  /\ NewJob("read", <<>>) \in Jobs /\ Holds(NewJob("read", <<>>))
  /\ HoldsQueueable(NewJob("read", <<>>)) /\ NewJob("read", <<>>).step = "read"
<1> DEFINE k == NewJob("read", <<>>)
<1>1. /\ k \in Jobs /\ k.step = "read" /\ k.batch = <<>> /\ k.rest = <<>> /\ k.redo = <<>>
      /\ ~k.failed
  <2>1. "read" \in JobSteps /\ <<>> \in Seq(Msgs) /\ FALSE \in BOOLEAN BY DEF JobSteps
  <2>2. QED BY <2>1 DEF NewJob, Job, Jobs
<1> HIDE DEF k
<1>2. Holds(k) BY <1>1 DEF Holds
<1>3. HoldsQueueable(k) BY <1>1, ElemsEmpty DEF HoldsQueueable
<1>4. QED BY <1>1, <1>2, <1>3 DEF k

LEMMA EndTurnStep ==
  ASSUME IInv, [Next]_vars, NEW j \in jobs, EndTurn(j)
  PROVE  QueueSound'
<1> USE DEF inbox, queue, flags, lock, recovery, seen, counters
<1>1. PICK retry \in BOOLEAN : retry = (j.failed /\ j.redo # <<>> /\ retries < MaxRetries)
  OBVIOUS
<1> DEFINE left == Requeued(j, retry) \o pending
<1>2. /\ j.step = "end" /\ pending' = left
      /\ retries' = IF retry THEN retries + 1 ELSE 0
      /\ UNCHANGED <<lock, arrived, kind>>
      /\ IF TurnReads(left)
         THEN overflow' = FALSE /\ Refill(jobs \ {j}) /\ UNCHANGED timer
         ELSE /\ running' = FALSE /\ jobs' = jobs \ {j}
              /\ timer' = TurnSchedules(left)
              /\ UNCHANGED <<overflow, refilling>>
  BY <1>1 DEF EndTurn
<1>3. /\ jobs = {j} /\ ~timer /\ ~refilling /\ Len(pending) <= MaxPending
      /\ Elems(j.rest) \cup Elems(j.redo) \subseteq Queueable
  BY <1>2, TheJob DEF HoldsQueueable
<1>4. pending \in Seq(Msgs) /\ Elems(pending) \subseteq Queueable /\ retries \in 0..MaxRetries
      /\ MaxPending \in Nat /\ BurstCap \in Nat /\ MaxRetries \in Nat /\ Len(pending) \in Nat
  BY Sizes DEF IInv, TypeOK, QueueTypeOK, JobsAreSound
<1>5. /\ Requeued(j, retry) \in Seq(Msgs) /\ Len(Requeued(j, retry)) <= BurstCap
      /\ Elems(Requeued(j, retry)) \subseteq Queueable
  BY <1>2, <1>3, RequeuedPart
<1>6. left \in Seq(Msgs) /\ Len(left) <= MaxPending + BurstCap /\ Elems(left) \subseteq Queueable
  <2>1. Len(Requeued(j, retry)) \in Nat BY <1>5
  <2>2. /\ left \in Seq(Msgs) /\ Len(left) = Len(Requeued(j, retry)) + Len(pending)
        /\ Elems(left) = Elems(Requeued(j, retry)) \cup Elems(pending)
    BY <1>4, <1>5, ElemsConcat
  <2>3. QED BY <1>3, <1>4, <1>5, <2>1, <2>2
<1>7. retries' \in 0..MaxRetries
  <2>1. CASE retry
    <3>1. retries < MaxRetries BY <2>1, <1>1
    <3>2. retries' = retries + 1 BY <2>1, <1>2
    <3>3. QED BY <3>1, <3>2, <1>4
  <2>2. CASE ~retry BY <2>2, <1>2, <1>4
  <2>3. QED BY <2>1, <2>2
<1> HIDE DEF left
<1>8. PICK ll \in Seq(Msgs) : ll = left BY <1>6
<1>9. CASE TurnReads(left)
  <2>1. /\ jobs' = {NewJob("read", <<>>)} /\ running' /\ refilling' /\ ~timer' /\ ~overflow'
        /\ left = <<>>
    BY <1>2, <1>3, <1>9 DEF Refill, TurnReads
  <2>2. PICK K : K = {NewJob("read", <<>>)} OBVIOUS
  <2>3. Len(left) <= MaxPending BY <2>1, <1>4
  <2>4. K \subseteq Jobs /\ (\A i, k \in K : i = k) /\ K # {}
        /\ \A k \in K : Holds(k) /\ HoldsQueueable(k) /\ k.step = "read"
    BY <2>2, ReaderIs
  <2>5. QED BY <1>2, <1>6, <1>7, <1>8, <2>1, <2>2, <2>3, <2>4, QueueChanges
<1>10. CASE ~TurnReads(left)
  <2>1. jobs' = {} /\ ~running' /\ ~refilling' /\ overflow' = overflow
    BY <1>2, <1>3, <1>10
  <2>2. timer' <=> left # <<>> BY <1>2, <1>3, <1>10 DEF TurnSchedules
  <2>3. overflow' => timer' BY <2>1, <2>2, <1>10 DEF TurnReads
  <2>4. PICK K : K = {} OBVIOUS
  <2>5. QED BY <1>2, <1>6, <1>7, <1>8, <2>1, <2>2, <2>3, <2>4, QueueChanges
<1>11. QED BY <1>9, <1>10

LEMMA EndRefillStep ==
  ASSUME IInv, [Next]_vars, NEW j \in jobs, EndRefill(j)
  PROVE  QueueSound'
<1> USE DEF inbox, queue, flags, lock, recovery, seen, counters
<1> DEFINE left == pending \o Filter(j.batch, Msgs \ Commands)
           full == Len(j.batch) = MaxPending
<1>1. /\ j.step = "append" /\ pending' = left /\ UNCHANGED <<retries, lock, arrived, kind>>
      /\ IF left # <<>>
         THEN /\ overflow' = (full \/ overflow) /\ timer' = TRUE
              /\ running' = FALSE /\ refilling' = FALSE /\ jobs' = jobs \ {j}
         ELSE IF j.failed
         THEN /\ overflow' = FALSE /\ UNCHANGED timer
              /\ running' = FALSE /\ refilling' = FALSE /\ jobs' = jobs \ {j}
         ELSE IF ReadsAgain(full)
         THEN overflow' = full /\ Refill(jobs \ {j}) /\ UNCHANGED timer
         ELSE /\ overflow' = full /\ UNCHANGED timer
              /\ running' = FALSE /\ refilling' = FALSE /\ jobs' = jobs \ {j}
  BY DEF EndRefill
<1>2. /\ jobs = {j} /\ ~timer /\ pending = <<>> /\ j.batch \in Seq(Msgs)
      /\ Len(j.batch) <= MaxPending /\ Elems(j.batch) \subseteq Elems(arrived)
  BY <1>1, TheJob DEF Holds, HoldsQueueable
<1>3. /\ MaxPending \in Nat /\ BurstCap \in Nat /\ retries \in 0..MaxRetries
      /\ users \in Nat /\ Len(j.batch) \in Nat
  BY <1>2, Sizes DEF IInv, TypeOK, QueueTypeOK, CallersTypeOK
<1>4. /\ Filter(j.batch, Msgs \ Commands) \in Seq(Msgs)
      /\ Len(Filter(j.batch, Msgs \ Commands)) <= Len(j.batch)
      /\ Elems(Filter(j.batch, Msgs \ Commands)) = Elems(j.batch) \cap (Msgs \ Commands)
  BY <1>2, FilterElems
<1>5. left = Filter(j.batch, Msgs \ Commands) BY <1>2, <1>4
<1>6. /\ left \in Seq(Msgs) /\ Len(left) <= MaxPending /\ Len(left) <= MaxPending + BurstCap
      /\ Elems(left) \subseteq Queueable
  <2>1. Len(Filter(j.batch, Msgs \ Commands)) \in Nat BY <1>4
  <2>2. Elems(left) \subseteq Queueable BY <1>2, <1>4, <1>5 DEF Queueable
  <2>3. left \in Seq(Msgs) /\ Len(left) \in Nat /\ Len(left) <= Len(j.batch) BY <1>4, <1>5, <2>1
  <2> HIDE DEF left
  <2>4. QED BY <1>2, <1>3, <2>2, <2>3
<1> HIDE DEF left
<1>7. PICK ll \in Seq(Msgs) : ll = left BY <1>6
<1>8. CASE left = <<>> /\ ~j.failed /\ ReadsAgain(full)
  <2>1. jobs' = {NewJob("read", <<>>)} /\ running' /\ refilling' /\ ~timer'
    BY <1>1, <1>2, <1>8 DEF Refill
  <2>2. PICK K : K = {NewJob("read", <<>>)} OBVIOUS
  <2>3. K \subseteq Jobs /\ (\A i, k \in K : i = k) /\ K # {}
        /\ \A k \in K : Holds(k) /\ HoldsQueueable(k) /\ k.step = "read"
    BY <2>2, ReaderIs
  <2>4. QED BY <1>1, <1>3, <1>6, <1>7, <1>8, <2>1, <2>2, <2>3, QueueChanges
<1>9. CASE ~(left = <<>> /\ ~j.failed /\ ReadsAgain(full))
  <2>1. jobs' = {} /\ ~running' /\ ~refilling' BY <1>1, <1>2, <1>9
  <2>2. timer' <=> left # <<>> BY <1>1, <1>2, <1>9
  <2>3. overflow' => timer' \/ users' > 0
    <3>1. CASE left # <<>> BY <3>1, <2>2
    <3>2. CASE left = <<>> /\ j.failed BY <3>2, <1>1
    <3>3. CASE left = <<>> /\ ~j.failed
      <4>1. overflow' = full /\ ~ReadsAgain(full) /\ users' = users BY <3>3, <1>1, <1>9
      <4>2. full => users # 0 BY <4>1 DEF ReadsAgain
      <4>3. overflow' => full BY <4>1
      <4>4. users # 0 => users > 0 BY <1>3
      <4>5. QED BY <4>1, <4>2, <4>3, <4>4
    <3>4. QED BY <3>1, <3>2, <3>3
  <2>4. PICK K : K = {} OBVIOUS
  <2>5. pending' = ll /\ jobs' = K /\ retries' \in 0..MaxRetries
    BY <1>1, <1>3, <1>7, <2>1, <2>4
  <2>6. QED BY <1>6, <1>7, <2>1, <2>2, <2>3, <2>4, <2>5, QueueChanges
<1>10. QED BY <1>8, <1>9

LEMMA StartTurnStep ==
  ASSUME IInv, [Next]_vars, StartTurn
  PROVE  QueueSound'
<1> USE DEF inbox, queue, flags, lock, recovery, seen, counters
<1> DEFINE size == IF Len(pending) < BurstCap THEN Len(pending) ELSE BurstCap
           batch == SubSeq(pending, 1, size)
           left == SubSeq(pending, size + 1, Len(pending))
<1>1. /\ timer /\ ~timer' /\ UNCHANGED <<overflow, refilling, retries, lock, arrived, kind>>
      /\ running \/ pending = <<>> => UNCHANGED <<pending, running, jobs>>
      /\ ~(running \/ pending = <<>>) =>
           pending' = left /\ running' /\ jobs' = jobs \cup {NewJob("claim", batch)}
  BY DEF StartTurn
<1>2. ~running /\ pending # <<>> /\ jobs = {} /\ ~refilling /\ PendingBounded
  BY <1>1 DEF IInv, FlagsAreSound
<1>3. /\ pending \in Seq(Msgs) /\ Len(pending) \in Nat \ {0} /\ retries \in 0..MaxRetries
      /\ Elems(pending) \subseteq Queueable /\ Len(pending) <= MaxPending + BurstCap
      /\ MaxPending \in Nat \ {0} /\ BurstCap \in Nat \ {0}
  <2>1. pending \in Seq(Msgs) /\ retries \in 0..MaxRetries /\ Elems(pending) \subseteq Queueable
    BY DEF IInv, TypeOK, QueueTypeOK, JobsAreSound
  <2>2. Len(pending) \in Nat \ {0} BY <2>1, <1>2
  <2>3. QED BY <2>1, <2>2, <1>2, Sizes DEF PendingBounded
<1>4. size \in 1..Len(pending) /\ size <= BurstCap /\ Len(pending) - size <= MaxPending
  BY <1>3
<1> HIDE DEF size
<1>5. /\ batch \in Seq(Msgs) /\ Len(batch) = size
      /\ left \in Seq(Msgs) /\ Len(left) = Len(pending) - size
      /\ Elems(pending) = Elems(batch) \cup Elems(left)
  <2>1. size \in 0..Len(pending) BY <1>3, <1>4
  <2>2. QED BY <1>3, <2>1, ElemsCut
<1> HIDE DEF batch, left
<1> DEFINE k == NewJob("claim", batch)
<1>6. /\ k \in Jobs /\ k.step = "claim" /\ k.batch = batch /\ k.rest = <<>> /\ k.redo = <<>>
      /\ ~k.failed
  <2>1. "claim" \in JobSteps /\ <<>> \in Seq(Msgs) /\ FALSE \in BOOLEAN BY DEF JobSteps
  <2>2. QED BY <1>5, <2>1 DEF NewJob, Job, Jobs
<1> HIDE DEF k
<1>7. Holds(k)
  <2>1. batch # <<>> BY <1>4, <1>5
  <2>2. Len(batch) <= BurstCap BY <1>4, <1>5
  <2>3. QED BY <1>6, <2>1, <2>2 DEF Holds
<1>8. HoldsQueueable(k) BY <1>3, <1>5, <1>6, ElemsEmpty DEF HoldsQueueable, Queueable
<1>9. jobs' = {k} /\ running' /\ pending' = left /\ ~refilling' /\ retries' \in 0..MaxRetries
  BY <1>1, <1>2, <1>3 DEF k
<1>10. PICK K : K = {k} OBVIOUS
<1>11. PICK ll \in Seq(Msgs) : ll = left BY <1>5
<1>12. Len(left) <= MaxPending /\ Len(left) <= MaxPending + BurstCap
       /\ Elems(left) \subseteq Queueable
  BY <1>3, <1>4, <1>5
<1>13. K \subseteq Jobs /\ (\A i, n \in K : i = n) /\ K # {}
       /\ \A n \in K : Holds(n) /\ HoldsQueueable(n) /\ n.step = "claim"
  BY <1>6, <1>7, <1>8, <1>10
<1>14. QED BY <1>1, <1>9, <1>10, <1>11, <1>12, <1>13, QueueChanges

LEMMA AdmitStep ==
  ASSUME IInv, [Next]_vars, NEW c \in Callers, Admit(c)
  PROVE  QueueSound'
<1> USE DEF inbox, queue, flags, lock, recovery, seen, counters
<1>1. at[c] = "admit" /\ UNCHANGED <<jobs, row, users, arrived, kind>> BY DEF Admit
<1>2. RowsRest BY <1>1 DEF RowsRest
<1>3. CASE UNCHANGED queue
  <2>1. overflow /\ ~running /\ ~timer => users' > 0
    BY <1>1 DEF IInv, FlagsAreSound, OverflowHasAReader
  <2>2. QED BY <1>1, <1>2, <1>3, <2>1, QueueRests
<1>4. TypeOK /\ FlagsAreSound /\ JobsAreSound /\ QueueTypeOK BY DEF IInv, TypeOK
<1>5. /\ pending \in Seq(Msgs) /\ retries \in 0..MaxRetries /\ jobs \subseteq Jobs
      /\ \A j, k \in jobs : j = k
  BY <1>4 DEF QueueTypeOK, FlagsAreSound
<1>6. CASE /\ StaysInInbox /\ overflow' = TRUE
           /\ UNCHANGED <<pending, refilling, timer, running, retries>>
  <2>1. running \/ timer \/ users > 0
    <3>1. overflow \/ refilling \/ pending # <<>>
      <4>1. Len(pending) >= MaxPending => pending # <<>> BY <1>5, Sizes
      <4>2. QED BY <4>1, <1>6 DEF StaysInInbox
    <3>2. refilling => running BY <1>4 DEF FlagsAreSound
    <3>3. QED BY <3>1, <3>2, <1>4 DEF FlagsAreSound, OverflowHasAReader, PendingWillRun
  <2>2. QueueTypeOK' BY <1>1, <1>4, <1>6 DEF QueueTypeOK
  <2>3. OverflowHasAReader' BY <2>1, <1>1, <1>6 DEF OverflowHasAReader
  <2>4. FlagsAreSound'
    BY <2>3, <1>1, <1>4, <1>6 DEF FlagsAreSound, PendingWillRun, PendingBounded
  <2>5. JobsAreSound'
    <3>1. Queueable' = Queueable BY <1>1 DEF Queueable, Elems, Commands
    <3>2. Elems(pending)' = Elems(pending) BY <1>6 DEF Elems
    <3>3. \A j \in jobs : Holds(j)' /\ HoldsQueueable(j)' /\ OnlyTheAnchorIsLeft(j)'
      BY <3>1, <1>1, <1>4
      DEF JobsAreSound, Holds, HoldsQueueable, OnlyTheAnchorIsLeft, Elems, Last
    <3>4. QED BY <3>1, <3>2, <3>3, <1>1, <1>4 DEF JobsAreSound
  <2>6. QED BY <2>2, <2>4, <2>5 DEF QueueSound
<1>7. CASE /\ ~StaysInInbox /\ pending' = Append(pending, msg[c])
           /\ timer' = (timer \/ ~running)
           /\ UNCHANGED <<overflow, refilling, running, retries>>
  <2>1. msg[c] \in Elems(arrived) /\ msg[c] \in Msgs /\ msg[c] \in Wanted
    <3>1. msg[c] \in Wanted BY <1>1 DEF IInv, CallersAreSound
    <3>2. QED BY <3>1, <1>1, CallerHolds
  <2>2. msg[c] \in Queueable BY <2>1 DEF Queueable, Wanted, Commands
  <2>3. ~overflow /\ ~refilling /\ Len(pending) < MaxPending /\ Len(pending) \in Nat
        /\ MaxPending \in Nat /\ BurstCap \in Nat
    BY <1>5, <1>7, Sizes DEF StaysInInbox
  <2>4. /\ pending' \in Seq(Msgs) /\ Len(pending') = Len(pending) + 1
        /\ Elems(pending') = Elems(pending) \cup {msg[c]} /\ pending' # <<>>
    BY <1>5, <1>7, <2>1, ElemsAppend
  <2>5. Len(pending') <= MaxPending /\ Len(pending') <= MaxPending + BurstCap BY <2>3, <2>4
  <2>6. QueueTypeOK' BY <2>4, <1>1, <1>5, <1>7 DEF QueueTypeOK
  <2>7. timer' <=> ~running
    BY <1>4, <1>7 DEF FlagsAreSound
  <2>8. OverflowHasAReader' /\ PendingWillRun' /\ PendingBounded'
    BY <2>3, <2>5, <2>7, <1>7 DEF OverflowHasAReader, PendingWillRun, PendingBounded
  <2>9. FlagsAreSound'
    BY <2>3, <2>4, <2>5, <2>7, <2>8, <1>1, <1>4, <1>7 DEF FlagsAreSound
  <2>10. JobsAreSound'
    <3>1. Queueable' = Queueable BY <1>1 DEF Queueable, Elems, Commands
    <3>2. Elems(pending)' \subseteq Queueable BY <2>2, <2>4, <1>4 DEF JobsAreSound, Elems
    <3>3. \A j \in jobs : Holds(j)' /\ HoldsQueueable(j)' /\ OnlyTheAnchorIsLeft(j)'
      BY <3>1, <1>1, <1>4
      DEF JobsAreSound, Holds, HoldsQueueable, OnlyTheAnchorIsLeft, Elems, Last
    <3>4. QED BY <3>1, <3>2, <3>3, <1>1 DEF JobsAreSound
  <2>11. QED BY <2>6, <2>9, <2>10 DEF QueueSound
<1>8. QED BY <1>3, <1>6, <1>7 DEF Admit

LEMMA ReleaseStep ==
  ASSUME IInv, [Next]_vars, NEW c \in Callers, Release(c)
  PROVE  QueueSound'
<1> USE DEF inbox, queue, flags, lock, recovery, seen, counters
<1>1. at[c] = "release" /\ UNCHANGED <<row, arrived, kind>> /\ users' = users - 1 BY DEF Release
<1>2. TypeOK /\ FlagsAreSound /\ JobsAreSound /\ QueueTypeOK /\ users \in Nat
  BY DEF IInv, TypeOK, CallersTypeOK
<1>3. CASE LastCommandReads
  <2>1. /\ ~running /\ ~timer /\ pending = <<>> /\ jobs = {}
    BY <1>2, <1>3 DEF LastCommandReads, FlagsAreSound
  <2>2. /\ jobs' = {NewJob("read", <<>>)} /\ running' /\ refilling'
        /\ UNCHANGED <<pending, overflow, timer, retries>>
    BY <2>1, <1>3 DEF Release, Refill
  <2>3. PICK K : K = {NewJob("read", <<>>)} OBVIOUS
  <2>4. K \subseteq Jobs /\ (\A i, k \in K : i = k) /\ K # {}
        /\ \A k \in K : Holds(k) /\ HoldsQueueable(k) /\ k.step = "read"
    BY <2>3, ReaderIs
  <2>5. /\ <<>> \in Seq(Msgs) /\ Len(<<>>) <= MaxPending /\ Len(<<>>) <= MaxPending + BurstCap
        /\ Elems(<<>>) \subseteq Queueable
    BY Sizes, ElemsEmpty
  <2>6. retries' \in 0..MaxRetries BY <2>2, <1>2 DEF QueueTypeOK
  <2>7. QED BY <2>1, <2>2, <2>3, <2>4, <2>5, <2>6, QueueChanges
<1>4. CASE ~LastCommandReads
  <2>1. UNCHANGED <<queue, jobs>> BY <1>4 DEF Release
  <2>2. RowsRest BY <1>1 DEF RowsRest
  <2>3. ASSUME overflow, ~running, ~timer PROVE users' > 0
    <3>1. users > 0 BY <2>3, <1>2 DEF FlagsAreSound, OverflowHasAReader
    <3>2. pending = <<>> BY <2>3, <1>2 DEF FlagsAreSound, PendingWillRun
    <3>3. users # 1 BY <2>3, <3>2, <1>4 DEF LastCommandReads
    <3>4. QED BY <3>1, <3>3, <1>1, <1>2
  <2>4. QED BY <2>1, <2>2, <2>3, QueueRests
<1>5. QED BY <1>3, <1>4

LEMMA QueueStep == ASSUME IInv, [Next]_vars PROVE QueueSound'
<1> USE DEF inbox, queue, flags, lock, recovery, seen, counters
<1>1. ASSUME UNCHANGED <<queue, jobs, users>>, RowsRest PROVE QueueSound'
  <2>1. overflow /\ ~running /\ ~timer => users' > 0
    BY <1>1 DEF IInv, FlagsAreSound, OverflowHasAReader
  <2>2. QED BY <1>1, <2>1, QueueRests
<1>2. CASE UNCHANGED <<queue, jobs, users, row>>
  <2>1. RowsRest BY <1>2 DEF RowsRest
  <2>2. QED BY <1>1, <1>2, <2>1
<1>3. ASSUME NEW c \in Workers, NEW m \in Msgs, Deliver(c, m) PROVE QueueSound'
  <2>1. row[m] = "absent" /\ row' = [row EXCEPT ![m] = "received"] /\ UNCHANGED <<queue, jobs, users>>
    BY <1>3 DEF Deliver
  <2>2. m \notin Elems(arrived) BY <2>1 DEF IInv, InboxIsSound
  <2>3. RowsRest BY <2>1, <2>2 DEF RowsRest, Queueable, IInv, TypeOK, InboxTypeOK
  <2>4. QED BY <1>1, <2>1, <2>3
<1>4. ASSUME NEW c \in Callers, Ignore(c) PROVE QueueSound'
  <2>1. UNCHANGED <<queue, jobs, users>>
        /\ \/ row[msg[c]] = "received" /\ row' = [row EXCEPT ![msg[c]] = "ignored"]
           \/ row' = row
    BY <1>4 DEF Ignore, SetRow
  <2>2. \A m \in Queueable : m \in DOMAIN row
    BY ElemsIn DEF Queueable, IInv, TypeOK, InboxTypeOK
  <2>3. RowsRest BY <2>1, <2>2 DEF RowsRest, Unfinished
  <2>4. QED BY <1>1, <2>1, <2>3
<1>5. ASSUME NEW c \in Callers, Check(c) \/ Close(c) PROVE QueueSound'
  <2>1. at[c] \in {"check", "close"} /\ UNCHANGED <<queue, jobs, users>>
        /\ \A m \in Msgs : m # msg[c] => row'[m] = row[m]
    BY <1>5 DEF Check, Close, SetRow, IInv, TypeOK, InboxTypeOK
  <2>2. msg[c] \in Commands
    BY <2>1 DEF IInv, CallersAreSound, InCommand, CommandSteps
  <2>3. Queueable \subseteq Msgs
    <3>1. Elems(arrived) \subseteq Msgs BY ElemsIn DEF IInv, TypeOK, InboxTypeOK
    <3>2. QED BY <3>1 DEF Queueable
  <2>4. RowsRest BY <2>1, <2>2, <2>3 DEF RowsRest, Queueable
  <2>5. QED BY <1>1, <2>1, <2>4
<1>6. ASSUME NEW c \in Callers, Route(c) PROVE QueueSound'
  <2>1. UNCHANGED <<queue, jobs, row>> /\ (users' = users \/ users' = users + 1)
    BY <1>6 DEF Route, Move
  <2>2. RowsRest BY <2>1 DEF RowsRest
  <2>3. users \in Nat BY DEF IInv, TypeOK, CallersTypeOK
  <2>4. overflow /\ ~running /\ ~timer => users' > 0
    BY <2>1, <2>3 DEF IInv, FlagsAreSound, OverflowHasAReader
  <2>5. QED BY <2>1, <2>2, <2>4, QueueRests
<1>7. CASE Crash
  <2>1. /\ pending' = <<>> /\ retries' = 0 /\ ~overflow' /\ ~refilling' /\ ~timer' /\ ~running'
        /\ jobs' = {}
    BY <1>7 DEF Crash
  <2>2. retries' \in 0..MaxRetries BY <2>1, Sizes
  <2>3. /\ <<>> \in Seq(Msgs) /\ Len(<<>>) <= MaxPending + BurstCap /\ Elems(<<>>) \subseteq Queueable
    BY Sizes, ElemsEmpty
  <2>4. PICK K : K = {} OBVIOUS
  <2>5. K \subseteq Jobs /\ jobs' = K /\ \A j \in K : FALSE BY <2>1, <2>4
  <2>6. PICK left \in Seq(Msgs) : left = <<>> BY <2>3
  <2>7. pending' = left /\ Elems(left) \subseteq Queueable /\ Len(left) <= MaxPending + BurstCap
    BY <2>1, <2>3, <2>6
  <2>8. QED BY <2>1, <2>2, <2>5, <2>6, <2>7, QueueChanges
<1>8. ASSUME NEW c \in Callers, Execute(c) PROVE QueueSound'
  <2>1. UNCHANGED <<queue, jobs, users>>
        /\ \A m \in Msgs : row'[m] = row[m] \/ (Started(m) /\ row'[m] = "ignored")
    BY <1>8, ExecuteRows
  <2>2. Queueable \subseteq Msgs BY ElemsIn DEF Queueable, IInv, TypeOK, InboxTypeOK
  <2>3. RowsRest BY <2>1, <2>2 DEF RowsRest, Started, Unfinished
  <2>4. QED BY <1>1, <2>1, <2>3
<1>9. QED
  BY StepCases, <1>2, <1>3, <1>4, <1>5, <1>6, <1>7, <1>8, ClaimStep, TurnStep, ReadStep,
     EndTurnStep, EndRefillStep, StartTurnStep, AdmitStep, ReleaseStep
     DEF vars, Redeliver, Resume, Acquire, RouteFails, IgnoreFails, ResumeFails,
         CommandFails, RecoverList, RecoverNext, RecoverDone, RecoverListFails, Move, Fails, Leave

-----------------------------------------------------------------------------
(* The types of the rest.                                                  *)

LEMMA FlagsTypes == ASSUME IInv, [Next]_vars PROVE FlagsTypeOK'
<1> USE DEF inbox, queue, flags, lock, recovery, seen, counters
<1>1. /\ overflow \in BOOLEAN /\ refilling \in BOOLEAN /\ timer \in BOOLEAN /\ running \in BOOLEAN
      /\ recovered \in BOOLEAN /\ more \in BOOLEAN /\ passFailed \in BOOLEAN
  BY DEF IInv, TypeOK, FlagsTypeOK
<1>2. \A a, b : (a \/ b) \in BOOLEAN OBVIOUS
<1>3. CASE UNCHANGED <<flags, recovered, more, passFailed>> BY <1>1, <1>3 DEF FlagsTypeOK
<1>4. ASSUME NEW c \in Callers,
             \/ RouteFails(c) \/ IgnoreFails(c) \/ ResumeFails(c) \/ CommandFails(c)
      PROVE  FlagsTypeOK'
  <2>1. UNCHANGED <<flags, recovered, more>> /\ (passFailed' = TRUE \/ passFailed' = passFailed)
    BY <1>4 DEF RouteFails, IgnoreFails, ResumeFails, CommandFails, Fails
  <2>2. QED BY <1>1, <2>1 DEF FlagsTypeOK
<1>5. ASSUME NEW c \in Callers, Admit(c) PROVE FlagsTypeOK'
  <2>1. /\ UNCHANGED <<refilling, running, recovered, more, passFailed>>
        /\ overflow' = overflow \/ overflow' = TRUE
        /\ timer' = timer \/ timer' = (timer \/ ~running)
    BY <1>5 DEF Admit
  <2>2. overflow' \in BOOLEAN BY <1>1, <2>1
  <2>3. timer' \in BOOLEAN BY <1>1, <1>2, <2>1
  <2>4. QED BY <1>1, <2>1, <2>2, <2>3 DEF FlagsTypeOK
<1>6. ASSUME NEW c \in Callers, Release(c) PROVE FlagsTypeOK'
  <2>1. /\ UNCHANGED <<overflow, timer, recovered, more, passFailed>>
        /\ UNCHANGED <<running, refilling>> \/ (running' = TRUE /\ refilling' = TRUE)
    BY <1>6 DEF Release, Refill
  <2>2. QED BY <1>1, <2>1 DEF FlagsTypeOK
<1>7. CASE RecoverList
  <2>1. /\ UNCHANGED <<flags, recovered, passFailed>>
        /\ more' = (Len(UnfinishedAfter(after)) = MaxPending)
    BY <1>7 DEF RecoverList
  <2>2. QED BY <1>1, <2>1 DEF FlagsTypeOK
<1>8. CASE RecoverListFails \/ RecoverDone
  <2>1. /\ UNCHANGED flags /\ recovered' \in {recovered, TRUE}
        /\ more' \in {more, TRUE} /\ passFailed' \in {passFailed, FALSE}
    BY <1>8 DEF RecoverListFails, RecoverDone
  <2>2. QED BY <1>1, <2>1 DEF FlagsTypeOK
<1>9. CASE StartTurn
  <2>1. /\ UNCHANGED <<overflow, refilling, recovered, more, passFailed>>
        /\ timer' = FALSE /\ (running' = running \/ running' = TRUE)
    BY <1>9 DEF StartTurn
  <2>2. QED BY <1>1, <2>1 DEF FlagsTypeOK
<1>10. ASSUME NEW j \in jobs, EndTurn(j) PROVE FlagsTypeOK'
  <2>1. PICK left : UNCHANGED <<recovered, more, passFailed>> /\
                    IF TurnReads(left)
                    THEN overflow' = FALSE /\ Refill(jobs \ {j}) /\ UNCHANGED timer
                    ELSE /\ running' = FALSE /\ jobs' = jobs \ {j}
                         /\ timer' = TurnSchedules(left)
                         /\ UNCHANGED <<overflow, refilling>>
    BY <1>10 DEF EndTurn
  <2>2. timer' \in BOOLEAN
    <3>1. timer' = timer \/ timer' = (timer \/ left # <<>>) BY <2>1 DEF TurnSchedules
    <3>2. QED BY <1>1, <1>2, <3>1
  <2>3. /\ overflow' \in {overflow, FALSE} /\ running' \in {TRUE, FALSE}
        /\ refilling' \in {refilling, TRUE}
    BY <2>1 DEF Refill
  <2>4. QED BY <1>1, <2>1, <2>2, <2>3 DEF FlagsTypeOK
<1>11. ASSUME NEW j \in jobs, EndRefill(j) PROVE FlagsTypeOK'
  <2>1. /\ UNCHANGED <<recovered, more, passFailed>>
        /\ timer' \in {timer, TRUE} /\ running' \in {TRUE, FALSE} /\ refilling' \in {TRUE, FALSE}
    BY <1>11 DEF EndRefill, Refill
  <2>2. \/ overflow' = ((Len(j.batch) = MaxPending) \/ overflow) \/ overflow' = FALSE
        \/ overflow' = (Len(j.batch) = MaxPending)
    BY <1>11 DEF EndRefill
  <2>3. overflow' \in BOOLEAN BY <1>2, <2>2
  <2>4. QED BY <1>1, <2>1, <2>3 DEF FlagsTypeOK
<1>12. CASE Crash BY <1>12 DEF Crash, FlagsTypeOK
<1>13. QED
  BY StepCases, <1>3, <1>4, <1>5, <1>6, <1>7, <1>8, <1>9, <1>10, <1>11, <1>12
     DEF vars, Deliver, Redeliver, Route, Ignore, Resume, Acquire, Check, Execute, Close,
         RecoverNext, ClaimBatch, Prepare, Generate, ReadInbox, ClaimBatchFails, PrepareFails,
         GenerateFails, ReadInboxFails

LEMMA CallersTypes == ASSUME IInv, [Next]_vars PROVE CallersTypeOK'
<1> USE DEF inbox, queue, flags, lock, recovery, seen, counters
<1>1. /\ at \in [Callers -> CallerSteps] /\ msg \in [Callers -> Msgs \cup {NoMsg}]
      /\ holder \in Callers \cup {NoMsg} /\ page \in Seq(Msgs) /\ after \in 0..Len(arrived)
      /\ arrived \in Seq(Msgs) /\ TypeOK /\ InboxIsSound
  BY DEF IInv, TypeOK, CallersTypeOK, InboxTypeOK
<1>2. users' \in Nat
  <2>1. CallersAreSound' BY CallersStep
  <2>2. QED BY <2>1, FS_CardinalityType DEF CallersAreSound
<1>3. Len(arrived) <= Len(arrived') /\ Len(arrived') \in Nat /\ Len(arrived) \in Nat
  BY <1>1, KindStep
<1>4. /\ at' \in [Callers -> CallerSteps] /\ msg' \in [Callers -> Msgs \cup {NoMsg}]
      /\ holder' \in Callers \cup {NoMsg}
  <2>1. CASE UNCHANGED <<at, msg, holder>> BY <2>1, <1>1
  <2>2. ASSUME NEW c \in Workers, NEW m \in Msgs, Deliver(c, m) \/ Redeliver(c, m)
        PROVE  /\ at' \in [Callers -> CallerSteps] /\ msg' \in [Callers -> Msgs \cup {NoMsg}]
               /\ holder' \in Callers \cup {NoMsg}
    <3>1. /\ at' = [at EXCEPT ![c] = "route"] /\ msg' = [msg EXCEPT ![c] = m] /\ holder' = holder
      BY <2>2 DEF Deliver, Redeliver
    <3>2. QED BY <3>1, <1>1 DEF CallerSteps, Callers
  <2>3. CASE RecoverNext
    <3>1. /\ at' = [at EXCEPT ![Recoverer] = "route"] /\ holder' = holder
          /\ msg' = [msg EXCEPT ![Recoverer] = Head(page)] /\ page # <<>>
      BY <2>3 DEF RecoverNext
    <3>2. Head(page) \in Msgs BY <3>1, <1>1
    <3>3. QED BY <3>1, <3>2, <1>1 DEF CallerSteps, Callers
  <2>4. ASSUME NEW c \in Callers, Route(c)
        PROVE  /\ at' \in [Callers -> CallerSteps] /\ msg' \in [Callers -> Msgs \cup {NoMsg}]
               /\ holder' \in Callers \cup {NoMsg}
    <3>1. msg' = msg /\ holder' = holder
          /\ \E step \in {"lock", "ignore", "resume"} : at' = [at EXCEPT ![c] = step]
      BY <2>4 DEF Route, Move
    <3>2. QED BY <3>1, <1>1 DEF CallerSteps
  <2>5. ASSUME NEW c \in Callers,
               \/ Ignore(c) \/ Resume(c) \/ Admit(c) \/ Release(c)
               \/ RouteFails(c) \/ IgnoreFails(c) \/ ResumeFails(c)
        PROVE  /\ at' \in [Callers -> CallerSteps] /\ msg' \in [Callers -> Msgs \cup {NoMsg}]
               /\ holder' \in Callers \cup {NoMsg}
    <3>1. /\ holder' = holder \/ holder' = NoMsg
          /\ Leave(c) \/ Move(c, "admit")
      BY <2>5 DEF Ignore, Resume, Admit, Release, RouteFails, IgnoreFails, ResumeFails, Fails
    <3>2. QED BY <3>1, <1>1 DEF Leave, Move, CallerSteps
  <2>6. ASSUME NEW c \in Callers,
               Acquire(c) \/ Check(c) \/ Execute(c) \/ Close(c) \/ CommandFails(c)
        PROVE  /\ at' \in [Callers -> CallerSteps] /\ msg' \in [Callers -> Msgs \cup {NoMsg}]
               /\ holder' \in Callers \cup {NoMsg}
    <3>1. /\ holder' = holder \/ holder' = c
          /\ \E step \in {"check", "execute", "close", "release"} : Move(c, step)
      BY <2>6 DEF Acquire, Check, Execute, Close, CommandFails
    <3>2. QED BY <3>1, <1>1 DEF Move, CallerSteps
  <2>7. CASE Crash
    <3>1. /\ at' = [c \in Callers |-> "idle"] /\ msg' = [c \in Callers |-> NoMsg]
          /\ holder' = NoMsg
      BY <2>7 DEF Crash
    <3>2. QED BY <3>1 DEF CallerSteps
  <2>8. QED
    BY StepCases, <2>1, <2>2, <2>3, <2>4, <2>5, <2>6, <2>7
       DEF vars, RecoverList, RecoverDone, RecoverListFails, StartTurn, ClaimBatch, Prepare,
           Generate, EndTurn, ReadInbox, EndRefill, ClaimBatchFails, PrepareFails,
           GenerateFails, ReadInboxFails
<1>5. page' \in Seq(Msgs) /\ after' \in 0..Len(arrived')
  <2>1. CASE UNCHANGED <<page, after>> BY <2>1, <1>1, <1>3
  <2>2. CASE RecoverList
    <3> DEFINE found == UnfinishedAfter(after)
    <3>1. page' = found /\ after' = (IF found = <<>> THEN after ELSE Arrival(Last(found)))
      BY <2>2 DEF RecoverList
    <3>2. found \in Seq(Msgs) /\ Elems(found) \subseteq Elems(arrived)
      <4>1. after \in Nat BY <1>1
      <4>2. QED BY <4>1, <1>1, ListedRows
    <3> HIDE DEF found
    <3>3. ASSUME found # <<>> PROVE Arrival(Last(found)) \in 0..Len(arrived)
      <4>1. Last(found) \in Elems(arrived) BY <3>2, <3>3, LastIn
      <4>2. Arrival(Last(found)) \in DOMAIN arrived BY <4>1, <1>1, ArrivalIs
      <4>3. QED BY <4>2, <1>1
    <3>4. after' \in 0..Len(arrived) BY <3>1, <3>3, <1>1
    <3>5. QED BY <3>1, <3>2, <3>4, <1>3
  <2>3. CASE RecoverNext
    <3>1. page # <<>> /\ page' = Tail(page) /\ after' = after BY <2>3 DEF RecoverNext
    <3>2. Tail(page) \in Seq(Msgs) BY <3>1, <1>1, ElemsTail
    <3>3. QED BY <3>1, <3>2, <1>1, <1>3
  <2>4. CASE RecoverListFails \/ RecoverDone \/ Crash
    <3>1. (page' = page \/ page' = <<>>) /\ after' \in {after, 0}
      BY <2>4 DEF RecoverListFails, RecoverDone, Crash
    <3>2. page' \in Seq(Msgs)
      <4>1. <<>> \in Seq(Msgs) OBVIOUS
      <4>2. QED BY <3>1, <4>1, <1>1
    <3>3. after' \in 0..Len(arrived') BY <3>1, <1>1, <1>3
    <3>4. QED BY <3>2, <3>3
  <2>5. QED
    BY StepCases, <2>1, <2>2, <2>3, <2>4
       DEF vars, Deliver, Redeliver, Route, Ignore, Resume, Admit, Acquire, Check, Execute, Close,
           Release, RouteFails, IgnoreFails, ResumeFails, CommandFails, Fails,
           StartTurn, ClaimBatch, Prepare, Generate, EndTurn, ReadInbox, EndRefill,
           ClaimBatchFails, PrepareFails, GenerateFails, ReadInboxFails
<1>6. QED BY <1>2, <1>4, <1>5 DEF CallersTypeOK

LEMMA TwiceIn == ASSUME NEW s PROVE Twice(s) \subseteq Elems(s) BY DEF Twice

LEMMA SeenTypes == ASSUME IInv, [Next]_vars PROVE SeenTypeOK'
<1> USE DEF inbox, queue, flags, lock, recovery, seen, counters
<1>1. /\ dropped \subseteq Msgs /\ doubled \subseteq Msgs
      /\ anchorOf \in [Msgs -> Msgs \cup {NoMsg}]
      /\ dups \in 0..MaxDups /\ faults \in 0..MaxFaults /\ crashes \in 0..MaxCrashes
      /\ MaxDups \in Nat /\ MaxFaults \in Nat /\ MaxCrashes \in Nat
  BY Sizes DEF IInv, TypeOK, SeenTypeOK
<1>2. dups' \in 0..MaxDups /\ faults' \in 0..MaxFaults /\ crashes' \in 0..MaxCrashes
  <2>1. \/ UNCHANGED counters
        \/ dups < MaxDups /\ dups' = dups + 1 /\ UNCHANGED <<faults, crashes>>
        \/ faults < MaxFaults /\ faults' = faults + 1 /\ UNCHANGED <<dups, crashes>>
        \/ crashes < MaxCrashes /\ crashes' = crashes + 1 /\ UNCHANGED <<dups, faults>>
    <3>1. ASSUME NEW c \in Workers, NEW m \in Msgs, Deliver(c, m) \/ Redeliver(c, m)
          PROVE  UNCHANGED counters \/ (/\ dups < MaxDups /\ dups' = dups + 1
                                       /\ UNCHANGED <<faults, crashes>>)
      BY <3>1 DEF Deliver, Redeliver
    <3>2. ASSUME NEW c \in Callers,
                 RouteFails(c) \/ IgnoreFails(c) \/ ResumeFails(c) \/ CommandFails(c)
          PROVE  Fault
      BY <3>2 DEF RouteFails, IgnoreFails, ResumeFails, CommandFails
    <3>3. ASSUME NEW j \in jobs,
                 \/ ClaimBatchFails(j) \/ PrepareFails(j) \/ GenerateFails(j)
                 \/ ReadInboxFails(j)
          PROVE  Fault
      BY <3>3 DEF ClaimBatchFails, PrepareFails, GenerateFails, ReadInboxFails
    <3>4. RecoverListFails => Fault BY DEF RecoverListFails
    <3>5. Crash => /\ crashes < MaxCrashes /\ crashes' = crashes + 1
                   /\ UNCHANGED <<dups, faults>>
      BY DEF Crash
    <3>6. Fault => /\ faults < MaxFaults /\ faults' = faults + 1
                   /\ UNCHANGED <<dups, crashes>>
      BY DEF Fault
    <3>7. ASSUME NEW c \in Callers,
                 \/ Route(c) \/ Ignore(c) \/ Resume(c) \/ Admit(c)
                 \/ Acquire(c) \/ Check(c) \/ Execute(c) \/ Close(c) \/ Release(c)
          PROVE  UNCHANGED counters
      BY <3>7 DEF Route, Ignore, Resume, Admit, Acquire, Check, Execute, Close, Release
    <3>8. ASSUME NEW j \in jobs,
                 \/ ClaimBatch(j) \/ Prepare(j) \/ Generate(j) \/ EndTurn(j)
                 \/ ReadInbox(j) \/ EndRefill(j)
          PROVE  UNCHANGED counters
      BY <3>8 DEF ClaimBatch, Prepare, Generate, EndTurn, ReadInbox, EndRefill
    <3>9. RecoverList \/ RecoverNext \/ RecoverDone \/ StartTurn => UNCHANGED counters
      BY DEF RecoverList, RecoverNext, RecoverDone, StartTurn
    <3>10. UNCHANGED vars => UNCHANGED counters BY DEF vars
    <3> HIDE DEF counters
    <3>11. QED
      BY StepCases, <3>1, <3>2, <3>3, <3>4, <3>5, <3>6, <3>7, <3>8, <3>9, <3>10
  <2>2. QED BY <2>1, <1>1
<1>3. CASE UNCHANGED seen BY <1>1, <1>2, <1>3 DEF SeenTypeOK
<1>4. ASSUME NEW c \in Callers,
             RouteFails(c) \/ IgnoreFails(c) \/ ResumeFails(c) \/ CommandFails(c)
      PROVE  SeenTypeOK'
  <2>1. /\ at[c] # "idle" /\ UNCHANGED <<anchorOf, doubled>>
        /\ dropped' = dropped \/ dropped' = dropped \cup {msg[c]}
    BY <1>4 DEF RouteFails, IgnoreFails, ResumeFails, CommandFails, Fails
  <2>2. msg[c] \in Msgs BY <2>1, CallerHolds
  <2>3. QED BY <2>1, <2>2, <1>1, <1>2 DEF SeenTypeOK
<1>5. ASSUME NEW j \in jobs, ClaimBatch(j) PROVE SeenTypeOK'
  <2>1. UNCHANGED <<dropped, doubled>> BY <1>5 DEF ClaimBatch
  <2>2. CASE UNCHANGED anchorOf BY <1>3, <2>1, <2>2
  <2>3. ASSUME NEW taken \in Seq(Msgs), NEW claimed \in Seq(Msgs), NEW rest \in Seq(Msgs),
               ClaimTakes(j, taken, claimed, rest)
        PROVE  SeenTypeOK'
    <3>1. /\ anchorOf' = [m \in Msgs |-> IF m \in Elems(Absorbed(claimed)) THEN Last(claimed)
                                         ELSE anchorOf[m]]
          /\ \A m \in Elems(Absorbed(claimed)) : m \in Elems(claimed)
      BY <2>3 DEF ClaimTakes
    <3>2. ASSUME NEW m \in Elems(Absorbed(claimed)) PROVE Last(claimed) \in Msgs
      <4>1. claimed # <<>> BY <3>1, <3>2, ElemsEmpty
      <4>2. QED BY <4>1, LastIn
    <3>3. anchorOf' \in [Msgs -> Msgs \cup {NoMsg}] BY <3>1, <3>2, <1>1
    <3>4. QED BY <3>3, <2>1, <1>1, <1>2 DEF SeenTypeOK
  <2>4. QED BY <2>2, <2>3, <1>5, ClaimOutcome
<1>6. ASSUME NEW j \in jobs, EndTurn(j) PROVE SeenTypeOK'
  <2>1. pending' \in Seq(Msgs) BY EndTurnStep, <1>6 DEF QueueSound, QueueTypeOK
  <2>2. /\ anchorOf' = anchorOf /\ doubled' = doubled \cup Twice(pending')
        /\ dropped' = dropped \/ dropped' = dropped \cup Elems(j.redo)
    BY <1>6 DEF EndTurn
  <2>3. Elems(pending') \subseteq Msgs BY <2>1, ElemsIn
  <2>4. Twice(pending') \subseteq Msgs BY <2>3, TwiceIn
  <2>5. Elems(j.redo) \subseteq Msgs
    <3>1. j.redo \in Seq(Msgs) BY TheJob
    <3>2. QED BY <3>1, ElemsIn
  <2>6. QED BY <2>2, <2>4, <2>5, <1>1, <1>2 DEF SeenTypeOK
<1>7. ASSUME NEW j \in jobs, EndRefill(j) PROVE SeenTypeOK'
  <2>1. /\ UNCHANGED <<anchorOf, doubled>>
        /\ \/ dropped' = dropped
           \/ dropped' = dropped \cup {m \in Msgs : row[m] \in Unfinished}
    BY <1>7 DEF EndRefill
  <2>2. QED BY <2>1, <1>1, <1>2 DEF SeenTypeOK
<1>8. CASE Crash
  <2>1. dropped' = {} /\ UNCHANGED <<anchorOf, doubled>> BY <1>8 DEF Crash
  <2>2. QED BY <2>1, <1>1, <1>2 DEF SeenTypeOK
<1>9. QED
  BY StepCases, <1>3, <1>4, <1>5, <1>6, <1>7, <1>8
     DEF vars, Deliver, Redeliver, Route, Ignore, Resume, Admit, Acquire, Check, Execute, Close,
         Release, RecoverList, RecoverNext, RecoverDone, RecoverListFails, StartTurn, Prepare,
         Generate, ReadInbox, ClaimBatchFails, PrepareFails, GenerateFails, ReadInboxFails

-----------------------------------------------------------------------------
(* The invariant holds, and with it the type invariant and QueueIsSound.   *)

LEMMA NextHolds == ASSUME IInv, [Next]_vars PROVE IInv'
<1>1. InboxTypeOK' /\ InboxIsSound' BY InboxStep
<1>2. QueueSound' BY QueueStep
<1>3. CallersAreSound' BY CallersStep
<1>4. TypeOK'
  <2>1. QueueTypeOK' BY <1>2 DEF QueueSound
  <2>2. QED BY <1>1, <2>1, FlagsTypes, CallersTypes, SeenTypes DEF TypeOK
<1>5. QED BY <1>1, <1>2, <1>3, <1>4 DEF QueueSound, IInv

\* The strengthened invariant.
THEOREM InvariantHolds == Spec => []IInv
<1>1. Init => IInv BY InitHolds
<1>2. IInv /\ [Next]_vars => IInv' BY NextHolds
<1>3. QED BY <1>1, <1>2, PTL DEF Spec

\* The variables keep their types, whatever the callers, the goroutine and the
\* failures do.
THEOREM TypesHold == Spec => []TypeOK
<1>1. IInv => TypeOK BY DEF IInv
<1>2. QED BY <1>1, InvariantHolds, PTL

\* One turn at a time, a reader for what is left in the inbox, a timer or a turn
\* for what waits, and a bounded queue (Admit, StartTurn, EndTurn, EndRefill,
\* Release): dispatcher.go's promises about one chat.
THEOREM TheQueueIsSound == Spec => []QueueIsSound
<1>1. ASSUME IInv PROVE QueueIsSound
  <2>1. FlagsAreSound /\ TypeOK BY <1>1 DEF IInv
  <2>2. Cardinality(jobs) <= 1
    <3>1. CASE jobs = {} BY <3>1, FS_EmptySet
    <3>2. CASE jobs # {}
      <4>1. PICK j : jobs = {j} BY <3>2, <2>1 DEF FlagsAreSound
      <4>2. QED BY <4>1, FS_Singleton
    <3>3. QED BY <3>1, <3>2
  <2>3. SerialTurns BY <2>1, <2>2 DEF FlagsAreSound, SerialTurns
  <2>4. QED BY <2>1, <2>3 DEF FlagsAreSound, QueueIsSound
<1>2. QED BY <1>1, InvariantHolds, PTL

-----------------------------------------------------------------------------
(* How the rows change.                                                    *)

\* A message is of one kind.
LEMMA KindsDiffer == Commands \cap (Wanted \cup Unwanted) = {} /\ Wanted \cap Unwanted = {}
  BY DEF Commands, Wanted, Unwanted

\* A row of an AI message is stored once, leaves "received" for good, is batched
\* or discarded only from "received", unless a reset that covers it cancels its
\* turn, and is written by its own turn otherwise.
RowMoves(m) ==
  \/ row'[m] = row[m]
  \/ row[m] = "absent" /\ row'[m] = "received"
  \/ row[m] = "received" /\ row'[m] = "ignored" /\ (m \in Unwanted \/ Stale(m))
  \/ row[m] = "received" /\ row'[m] = "batched"
  \/ Started(m) /\ row'[m] = "ignored" /\ Arrival(m) <= resetAt'
  \/ \E j \in jobs :
       /\ j.step \in {"prepare", "generate"} /\ m = Last(j.batch)
       /\ row[m] \notin {"answered", "failed", "ignored"}
       /\ row'[m] \in {"generating", "retryable", "failed", "answered"}

LEMMA RowStep ==
  ASSUME IInv, [Next]_vars, NEW m \in Msgs \ Commands
  PROVE  RowMoves(m)
<1> USE DEF inbox, queue, flags, lock, recovery, seen, counters
<1>1. row \in [Msgs -> RowStates] BY DEF IInv, TypeOK, InboxTypeOK
<1>2. CASE row' = row BY <1>2 DEF RowMoves
<1>3. ASSUME NEW c \in Workers, NEW n \in Msgs, Deliver(c, n) PROVE RowMoves(m)
  BY <1>1, <1>3 DEF Deliver, RowMoves
<1>4. ASSUME NEW c \in Callers, Ignore(c) PROVE RowMoves(m)
  <2>1. at[c] = "ignore" BY <1>4 DEF Ignore
  <2>2. msg[c] \in Unwanted BY <2>1 DEF IInv, CallersAreSound
  <2>3. row' = row \/ (row[msg[c]] = "received" /\ row' = [row EXCEPT ![msg[c]] = "ignored"])
    BY <1>4 DEF Ignore, SetRow
  <2>4. QED BY <1>1, <2>2, <2>3 DEF RowMoves
<1>5. ASSUME NEW c \in Callers, Check(c) \/ Close(c) PROVE RowMoves(m)
  <2>1. at[c] \in {"check", "close"} BY <1>5 DEF Check, Close
  <2>2. msg[c] \in Commands BY <2>1 DEF IInv, CallersAreSound, InCommand, CommandSteps
  <2>3. m # msg[c] BY <2>2
  <2>4. row'[m] = row[m] BY <1>1, <1>5, <2>3 DEF Check, Close, SetRow
  <2>5. QED BY <2>4 DEF RowMoves
<1>6. ASSUME NEW j \in jobs, ClaimBatch(j) PROVE RowMoves(m)
  <2>1. ASSUME NEW taken \in Seq(Msgs), NEW claimed \in Seq(Msgs), NEW rest \in Seq(Msgs),
               ClaimTakes(j, taken, claimed, rest)
        PROVE  RowMoves(m)
    <3>1. /\ row' = [n \in Msgs |->
                       IF n \in Elems(Absorbed(claimed)) THEN "batched"
                       ELSE IF n \in Elems(taken) /\ Stale(n) THEN "ignored" ELSE row[n]]
          /\ \A n \in Elems(Absorbed(claimed)) : Fresh(n)
      BY <2>1 DEF ClaimTakes
    <3>2. QED BY <3>1 DEF RowMoves, Fresh, Stale
  <2>2. QED BY <1>2, <1>6, <2>1, ClaimOutcome
<1>7. ASSUME NEW j \in jobs, Prepare(j) \/ Generate(j) \/ GenerateFails(j) PROVE RowMoves(m)
  <2>1. /\ j.step \in {"prepare", "generate"}
        /\ \/ row' = row
           \/ \E s \in {"generating", "retryable", "failed", "answered"} :
                row' = [row EXCEPT ![Last(j.batch)] = s]
    BY <1>7 DEF Prepare, Generate, GenerateFails, SetRow
  <2>2. row' = row \/ row[Last(j.batch)] \notin {"answered", "failed", "ignored"}
    <3>1. CASE Prepare(j) BY <3>1 DEF Prepare, Blocked
    <3>2. CASE Generate(j) BY <3>2 DEF Generate
    <3>3. CASE GenerateFails(j) BY <3>3 DEF GenerateFails
    <3>4. QED BY <1>7, <3>1, <3>2, <3>3
  <2>3. QED BY <1>1, <2>1, <2>2 DEF RowMoves
<1>8. ASSUME NEW c \in Callers, Execute(c) PROVE RowMoves(m)
  <2>1. \/ row'[m] = row[m]
        \/ Started(m) /\ row'[m] = "ignored" /\ resetAt' = Len(arrived)
    BY <1>8, ExecuteRows
  <2>2. ASSUME Started(m) PROVE Arrival(m) <= Len(arrived)
    <3>1. m \in Elems(arrived) BY <2>2 DEF Started, IInv, InboxIsSound
    <3>2. Arrival(m) \in DOMAIN arrived BY <3>1, ArrivalIs DEF IInv
    <3>3. arrived \in Seq(Msgs) BY DEF IInv, TypeOK, InboxTypeOK
    <3>4. QED BY <3>2, <3>3
  <2>3. QED BY <2>1, <2>2 DEF RowMoves
<1>9. QED
  BY StepCases, <1>2, <1>3, <1>4, <1>5, <1>6, <1>7, <1>8
     DEF vars, Redeliver, Route, Resume, Admit, Acquire, Release, RouteFails,
         IgnoreFails, ResumeFails, CommandFails, RecoverList, RecoverNext, RecoverDone,
         RecoverListFails, StartTurn, Crash, EndTurn, ReadInbox, EndRefill, ClaimBatchFails,
         PrepareFails, ReadInboxFails

-----------------------------------------------------------------------------
(* No accepted message is forgotten.                                       *)

\* Somebody has the message in hand, or will list it, or gave it up.
Safe(m) == Held(m) \/ ToRecover(m) \/ ToReadBack \/ m \in dropped

\* What a goroutine holds of its batch.
JobHolds(j) == Elems(j.batch) \cup Elems(j.rest) \cup (IF j.failed THEN Elems(j.redo) ELSE {})
Reads(j) == j.step = "read" \/ (j.step = "append" /\ (j.failed \/ Len(j.batch) = MaxPending))

LEMMA SafeIs ==
  ASSUME NEW m
  PROVE  Safe(m) <=>
           \/ m \in Elems(pending) \/ m \in Elems(page)
           \/ \E c \in Callers : at[c] # "idle" /\ msg[c] = m
           \/ \E j \in jobs : m \in JobHolds(j) \/ Reads(j)
           \/ ToRecover(m) \/ overflow \/ m \in dropped
<1>1. Held(m) <=> \/ m \in Elems(pending) \/ m \in Elems(page)
                  \/ \E c \in Callers : at[c] # "idle" /\ msg[c] = m
                  \/ \E j \in jobs : m \in JobHolds(j)
  BY DEF Held, JobHolds
<1>2. ToReadBack <=> overflow \/ \E j \in jobs : Reads(j) BY DEF ToReadBack, Reads
<1>3. QED BY <1>1, <1>2 DEF Safe

LEMMA SafeNext ==
  ASSUME NEW m
  PROVE  Safe(m)' <=>
           \/ m \in Elems(pending') \/ m \in Elems(page')
           \/ \E c \in Callers : at'[c] # "idle" /\ msg'[c] = m
           \/ \E j \in jobs' : m \in JobHolds(j) \/ Reads(j)
           \/ ToRecover(m)' \/ overflow' \/ m \in dropped'
<1>1. Held(m)' <=> \/ m \in Elems(pending') \/ m \in Elems(page')
                   \/ \E c \in Callers : at'[c] # "idle" /\ msg'[c] = m
                   \/ \E j \in jobs' : m \in JobHolds(j)
  BY DEF Held, JobHolds, Elems
<1>2. ToReadBack' <=> overflow' \/ \E j \in jobs' : Reads(j) BY DEF ToReadBack, Reads
<1>3. QED BY <1>1, <1>2 DEF Safe

\* A stored message keeps its place.
LEMMA ArrivalStays ==
  ASSUME IInv, [Next]_vars, NEW m \in Elems(arrived)
  PROVE  Arrival(m)' = Arrival(m) /\ Arrival(m) \in 1..Len(arrived)
<1>1. InboxIsSound /\ InboxIsSound' /\ TypeOK BY InboxStep DEF IInv
<1>2. arrived \in Seq(Msgs) /\ Arrival(m) \in DOMAIN arrived /\ arrived[Arrival(m)] = m
  BY <1>1, ArrivalIs DEF TypeOK, InboxTypeOK
<1>3. PICK i \in DOMAIN arrived : i = Arrival(m) BY <1>2
<1>4. i \in DOMAIN arrived' /\ arrived'[i] = m BY <1>1, <1>2, <1>3, KindStep
<1>5. \A k \in DOMAIN arrived' : arrived'[k] = m => k = i BY <1>1, <1>4 DEF InboxIsSound
<1>6. Arrival(m)' = i BY <1>4, <1>5 DEF Arrival
<1>7. QED BY <1>2, <1>3, <1>6

\* What a step has to do for a message it does not lose.
LEMMA SafeStays ==
  ASSUME IInv, [Next]_vars, NEW m \in Elems(arrived), Safe(m),
         m \in Elems(pending) => m \in Elems(pending') \/ Safe(m)',
         UNCHANGED <<page, recovered, more, after>> \/
           (m \in Elems(page) \/ ToRecover(m) => Safe(m)'),
         passFailed => passFailed' \/ Safe(m)',
         \A c \in Callers :
           at[c] # "idle" /\ msg[c] = m => (at'[c] # "idle" /\ msg'[c] = m) \/ Safe(m)',
         jobs \subseteq jobs' \/ \A j \in jobs : m \in JobHolds(j) \/ Reads(j) => Safe(m)',
         overflow => overflow' \/ Safe(m)',
         m \in dropped => m \in dropped' \/ Safe(m)'
  PROVE  Safe(m)'
<1> SUFFICES ASSUME ~Safe(m)' PROVE FALSE OBVIOUS
<1>1. \/ m \in Elems(pending) \/ m \in Elems(page)
      \/ \E c \in Callers : at[c] # "idle" /\ msg[c] = m
      \/ \E j \in jobs : m \in JobHolds(j) \/ Reads(j)
      \/ ToRecover(m) \/ overflow \/ m \in dropped
  BY SafeIs
<1>2. /\ m \notin Elems(pending') /\ m \notin Elems(page')
      /\ \A c \in Callers : ~(at'[c] # "idle" /\ msg'[c] = m)
      /\ \A j \in jobs' : ~(m \in JobHolds(j) \/ Reads(j))
      /\ ~ToRecover(m)' /\ ~overflow' /\ m \notin dropped'
  BY SafeNext
<1>3. m \notin Elems(pending) /\ ~overflow /\ m \notin dropped BY <1>2
<1>4. \A c \in Callers : ~(at[c] # "idle" /\ msg[c] = m) BY <1>2
<1>5. \A j \in jobs : ~(m \in JobHolds(j) \/ Reads(j)) BY <1>2
<1>6. m \notin Elems(page) /\ ~ToRecover(m)
  <2>1. CASE UNCHANGED <<page, recovered, more, after>>
    <3>1. Elems(page)' = Elems(page) BY <2>1 DEF Elems
    <3>2. Arrival(m)' = Arrival(m) BY ArrivalStays
    <3>3. ToRecover(m) => ToRecover(m)' BY <2>1, <3>2 DEF ToRecover
    <3>4. QED BY <1>2, <3>1, <3>3
  <2>2. QED BY <2>1
<1>7. QED BY <1>1, <1>3, <1>4, <1>5, <1>6

\* The callers and Recover.
LEMMA CallersLoseNothing ==
  ASSUME IInv, [Next]_vars, NEW m \in Wanted, m \in Elems(arrived), Safe(m),
         row'[m] \in Unfinished,
         NEW c \in Callers,
         \/ Route(c) \/ Ignore(c) \/ Resume(c) \/ Admit(c)
         \/ Acquire(c) \/ Check(c) \/ Execute(c) \/ Close(c) \/ Release(c)
         \/ RouteFails(c) \/ IgnoreFails(c) \/ ResumeFails(c) \/ CommandFails(c)
  PROVE  Safe(m)'
<1> USE DEF inbox, queue, flags, lock, recovery, seen, counters
<1>1. /\ at \in [Callers -> CallerSteps] /\ msg \in [Callers -> Msgs \cup {NoMsg}]
      /\ CallersAreSound /\ m \notin Commands /\ m \notin Unwanted
  BY KindsDiffer DEF IInv, TypeOK, CallersTypeOK
<1>2. UNCHANGED <<page, recovered, more, after>> /\ jobs \subseteq jobs' /\ (overflow => overflow')
      /\ dropped \subseteq dropped' /\ (passFailed => passFailed')
  BY DEF Route, Ignore, Resume, Admit, Acquire, Check, Execute, Close, Release, RouteFails,
         IgnoreFails, ResumeFails, CommandFails, Fails, Refill
<1>3. m \in Elems(pending) => m \in Elems(pending')
  <2>1. CASE pending' = pending BY <2>1
  <2>2. CASE Admit(c) /\ pending' = Append(pending, msg[c])
    <3>1. msg[c] \in Msgs BY <2>2, CallerHolds DEF Admit
    <3>2. Elems(Append(pending, msg[c])) = Elems(pending) \cup {msg[c]}
      BY <3>1, ElemsAppend DEF IInv, TypeOK, QueueTypeOK
    <3>3. QED BY <2>2, <3>2
  <2>3. QED
    BY <2>1, <2>2 DEF Route, Ignore, Resume, Admit, Acquire, Check, Execute, Close, Release,
       RouteFails, IgnoreFails, ResumeFails, CommandFails
<1>4. ASSUME NEW d \in Callers, d # c, at[d] # "idle", msg[d] = m
      PROVE  at'[d] # "idle" /\ msg'[d] = m
  <2>1. \E step \in CallerSteps : at' = [at EXCEPT ![c] = step]
    BY DEF Route, Ignore, Resume, Admit, Acquire, Check, Execute, Close, Release, RouteFails,
           IgnoreFails, ResumeFails, CommandFails, Fails, Leave, Move, CallerSteps
  <2>2. msg' = msg \/ msg' = [msg EXCEPT ![c] = NoMsg]
    BY DEF Route, Ignore, Resume, Admit, Acquire, Check, Execute, Close, Release, RouteFails,
           IgnoreFails, ResumeFails, CommandFails, Fails, Leave, Move
  <2>3. QED BY <2>1, <2>2, <1>1, <1>4
<1>5. ASSUME at[c] # "idle", msg[c] = m
      PROVE  (at'[c] # "idle" /\ msg'[c] = m) \/ Safe(m)'
  <2>1. CASE \/ Route(c) \/ Acquire(c) \/ Check(c) \/ Execute(c) \/ Close(c) \/ CommandFails(c)
    <3>1. msg' = msg /\ \E step \in CallerSteps \ {"idle"} : at' = [at EXCEPT ![c] = step]
      BY <2>1 DEF Route, Acquire, Check, Execute, Close, CommandFails, Move, CallerSteps
    <3>2. QED BY <3>1, <1>1, <1>5
  <2>2. CASE Ignore(c)
    <3>1. msg[c] \in Unwanted BY <2>2, <1>1 DEF Ignore, CallersAreSound
    <3>2. QED BY <3>1, <1>1, <1>5
  <2>3. CASE Release(c)
    <3>1. msg[c] \in Commands
      BY <2>3, <1>1 DEF Release, CallersAreSound, InCommand, CommandSteps
    <3>2. QED BY <3>1, <1>1, <1>5
  <2>4. CASE Resume(c)
    <3>1. row[m] # "answered" BY <2>4 DEF Resume, Unfinished
    <3>2. msg' = msg /\ at' = [at EXCEPT ![c] = "admit"] BY <2>4, <3>1, <1>5 DEF Resume, Move
    <3>3. QED BY <3>2, <1>1, <1>5
  <2>5. CASE Admit(c)
    <3>1. \/ msg[c] \in Elems(pending) /\ pending' = pending
          \/ overflow'
          \/ pending' = Append(pending, msg[c])
      BY <2>5 DEF Admit
    <3>2. Elems(Append(pending, m)) = Elems(pending) \cup {m}
      BY ElemsAppend DEF IInv, TypeOK, QueueTypeOK, Wanted
    <3>3. m \in Elems(pending') \/ overflow' BY <3>1, <3>2, <1>5
    <3>4. QED BY <3>3, SafeNext
  <2>6. CASE RouteFails(c) \/ IgnoreFails(c) \/ ResumeFails(c)
    <3>1. m \in dropped' \/ (c = Recoverer /\ passFailed' /\ UNCHANGED recovered)
      BY <2>6, <1>5 DEF RouteFails, IgnoreFails, ResumeFails, Fails
    <3>2. c = Recoverer => ~recovered BY <1>1, <1>5 DEF CallersAreSound
    <3>3. m \in dropped' \/ ToRecover(m)' BY <3>1, <3>2 DEF ToRecover
    <3>4. QED BY <3>3, SafeNext
  <2>7. QED BY <2>1, <2>2, <2>3, <2>4, <2>5, <2>6
<1>6. QED BY <1>2, <1>3, <1>4, <1>5, SafeStays

LEMMA RecoverLosesNothing ==
  ASSUME IInv, [Next]_vars, NEW m \in Wanted, m \in Elems(arrived), Safe(m),
         row'[m] \in Unfinished,
         RecoverList \/ RecoverNext \/ RecoverDone \/ RecoverListFails
  PROVE  Safe(m)'
<1> USE DEF inbox, queue, flags, lock, recovery, seen, counters
<1>1. /\ UNCHANGED <<pending, overflow, jobs, dropped, row, arrived>>
      /\ at[Recoverer] = "idle"
  BY DEF RecoverList, RecoverNext, RecoverDone, RecoverListFails
<1>2. /\ at \in [Callers -> CallerSteps] /\ msg \in [Callers -> Msgs \cup {NoMsg}]
      /\ page \in Seq(Msgs) /\ after \in Nat /\ TypeOK /\ InboxIsSound /\ Recoverer \in Callers
      /\ MaxPending \in Nat \ {0}
  BY Sizes DEF IInv, TypeOK, CallersTypeOK, Callers
<1>3. \A c \in Callers :
        at[c] # "idle" /\ msg[c] = m => at'[c] # "idle" /\ msg'[c] = m
  <2>1. \/ UNCHANGED <<at, msg>>
        \/ \E n : at' = [at EXCEPT ![Recoverer] = "route"] /\ msg' = [msg EXCEPT ![Recoverer] = n]
    BY DEF RecoverList, RecoverNext, RecoverDone, RecoverListFails
  <2>2. QED BY <2>1, <1>1, <1>2
<1>4. Elems(pending)' = Elems(pending) BY <1>1 DEF Elems
<1>5. Arrival(m)' = Arrival(m) /\ Arrival(m) > 0 /\ Arrival(m) \in Nat
  <2>1. Arrival(m)' = Arrival(m) /\ Arrival(m) \in 1..Len(arrived) BY ArrivalStays
  <2>2. Len(arrived) \in Nat BY <1>2 DEF TypeOK, InboxTypeOK
  <2>3. QED BY <2>1, <2>2
<1>6. CASE RecoverList
  <2> DEFINE found == UnfinishedAfter(after)
  <2>1. /\ page = <<>> /\ page' = found /\ more' = (Len(found) = MaxPending)
        /\ after' = (IF found = <<>> THEN after ELSE Arrival(Last(found)))
        /\ UNCHANGED <<passFailed, recovered>> /\ ~recovered /\ more
    BY <1>6 DEF RecoverList
  <2>2. m \notin Elems(page) BY <2>1, ElemsEmpty
  <2>3. ASSUME ToRecover(m) PROVE Safe(m)'
    <3>1. CASE passFailed
      <4>1. ToRecover(m)' BY <2>1, <3>1 DEF ToRecover
      <4>2. QED BY <4>1, SafeNext
    <3>2. CASE ~passFailed
      <4>1. Arrival(m) > after BY <2>3, <3>2 DEF ToRecover
      <4>2. \/ m \in Elems(found)
            \/ Len(found) = MaxPending /\ Arrival(m) > Arrival(Last(found))
        BY <4>1, <1>1, <1>2, ListedRows DEF Wanted
      <4>3. CASE m \in Elems(found)
        <5>1. m \in Elems(page') BY <4>3, <2>1
        <5>2. QED BY <5>1, SafeNext
      <4>4. CASE Len(found) = MaxPending /\ Arrival(m) > Arrival(Last(found))
        <5>1. found # <<>> BY <4>4, <1>2
        <5>2. more' /\ after' = Arrival(Last(found)) BY <4>4, <5>1, <2>1
        <5> HIDE DEF found
        <5>3. Arrival(m)' > after' BY <5>2, <4>4, <1>5
        <5>4. ToRecover(m)' BY <5>2, <5>3, <2>1 DEF ToRecover
        <5>5. QED BY <5>4, SafeNext
      <4>5. QED BY <4>2, <4>3, <4>4
    <3>3. QED BY <3>1, <3>2
  <2>4. QED BY <2>1, <2>2, <2>3, <1>1, <1>3, <1>4, SafeStays
<1>7. CASE RecoverNext
  <2>1. /\ page # <<>> /\ at' = [at EXCEPT ![Recoverer] = "route"]
        /\ msg' = [msg EXCEPT ![Recoverer] = Head(page)] /\ page' = Tail(page)
        /\ UNCHANGED <<recovered, more, after, passFailed>>
    BY <1>7 DEF RecoverNext
  <2>2. Elems(page) = {Head(page)} \cup Elems(Tail(page)) BY <2>1, <1>2, ElemsTail
  <2>3. ASSUME m \in Elems(page) PROVE Safe(m)'
    <3>1. CASE m = Head(page)
      <4>1. at'[Recoverer] = "route" /\ msg'[Recoverer] = m BY <3>1, <2>1, <1>2
      <4>2. QED BY <4>1, <1>2, SafeNext
    <3>2. CASE m \in Elems(Tail(page))
      <4>1. m \in Elems(page') BY <3>2, <2>1
      <4>2. QED BY <4>1, SafeNext
    <3>3. QED BY <3>1, <3>2, <2>2, <2>3
  <2>4. ASSUME ToRecover(m) PROVE Safe(m)'
    <3>1. ToRecover(m)' BY <2>1, <2>4, <1>5 DEF ToRecover
    <3>2. QED BY <3>1, SafeNext
  <2>5. QED BY <2>1, <2>3, <2>4, <1>1, <1>3, <1>4, SafeStays
<1>8. CASE RecoverDone
  <2>1. /\ page = <<>> /\ ~more /\ UNCHANGED page
        /\ IF passFailed
           THEN more' = TRUE /\ after' = 0 /\ passFailed' = FALSE /\ UNCHANGED recovered
           ELSE recovered' = TRUE /\ UNCHANGED <<more, after, passFailed>>
        /\ ~recovered
    BY <1>8 DEF RecoverDone
  <2>2. m \notin Elems(page) BY <2>1, ElemsEmpty
  <2>3. ASSUME passFailed PROVE Safe(m)'
    <3>1. more' /\ after' = 0 /\ ~recovered' BY <2>1, <2>3
    <3>2. ToRecover(m)' BY <3>1, <1>5 DEF ToRecover
    <3>3. QED BY <3>2, SafeNext
  <2>4. ToRecover(m) => passFailed BY <2>1 DEF ToRecover
  <2>5. QED BY <2>2, <2>3, <2>4, <1>1, <1>3, <1>4, SafeStays
<1>9. CASE RecoverListFails
  <2>1. ~recovered /\ more' /\ after' = 0 /\ recovered' = recovered
    BY <1>9 DEF RecoverListFails
  <2>2. ToRecover(m)' BY <2>1, <1>5 DEF ToRecover
  <2>3. QED BY <2>2, SafeNext
<1>10. QED BY <1>6, <1>7, <1>8, <1>9

\* The goroutine's step: whoever it had in hand stays in a hand.
LEMMA OneJobGoesOn ==
  ASSUME IInv, [Next]_vars, NEW m \in Elems(arrived), Safe(m), NEW j \in jobs, NEW k,
         Replace(j, k), UNCHANGED <<queue, at, msg, recovery, dropped>>,
         m \in JobHolds(j) \/ Reads(j) => m \in JobHolds(k) \/ Reads(k)
  PROVE  Safe(m)'
<1> USE DEF queue, flags, recovery
<1>1. jobs = {j} /\ jobs' = {k} BY TheJob DEF Replace
<1>2. Elems(pending)' = Elems(pending) BY DEF Elems
<1>3. \A i \in jobs : m \in JobHolds(i) \/ Reads(i) => Safe(m)' BY <1>1, SafeNext
<1>4. QED BY <1>2, <1>3, SafeStays

LEMMA ClaimLosesNothing ==
  ASSUME IInv, [Next]_vars, NEW m \in Wanted, m \in Elems(arrived), Safe(m),
         row'[m] \in Unfinished, NEW j \in jobs, ClaimBatch(j) \/ ClaimBatchFails(j)
  PROVE  Safe(m)'
<1> USE DEF inbox, queue, flags, lock, recovery, seen, counters
<1>1. /\ j.step = "claim" /\ UNCHANGED <<queue, at, msg, recovery, dropped, arrived, resetAt>>
  BY DEF ClaimBatch, ClaimBatchFails
<1>2. j.rest = <<>> /\ j.redo = <<>> /\ ~j.failed BY <1>1, TheJob DEF Holds
<1>3. ~Reads(j) /\ JobHolds(j) = Elems(j.batch) BY <1>1, <1>2, ElemsEmpty DEF Reads, JobHolds
<1>4. CASE End(j, <<>>, j.batch, TRUE)
  <2> DEFINE k == Job("end", <<>>, <<>>, j.batch, TRUE)
  <2>1. JobHolds(k) = Elems(j.batch)
    <3>1. k.batch = <<>> /\ k.rest = <<>> /\ k.redo = j.batch /\ k.failed = TRUE BY DEF Job
    <3> HIDE DEF k
    <3>2. QED BY <3>1, ElemsEmpty DEF JobHolds
  <2>2. Replace(j, k) BY <1>4 DEF End
  <2> HIDE DEF k
  <2>3. QED BY <1>1, <1>3, <2>1, <2>2, OneJobGoesOn
<1>5. ASSUME NEW taken \in Seq(Msgs), NEW claimed \in Seq(Msgs), NEW rest \in Seq(Msgs),
             ClaimTakes(j, taken, claimed, rest)
      PROVE  Safe(m)'
  <2>1. /\ Elems(j.batch) = Elems(taken) \cup Elems(rest)
        /\ Elems(claimed) = {n \in Elems(taken) : Fresh(n) \/ Started(n)}
        /\ row' = [n \in Msgs |->
                     IF n \in Elems(Absorbed(claimed)) THEN "batched"
                     ELSE IF n \in Elems(taken) /\ Stale(n) THEN "ignored" ELSE row[n]]
        /\ IF claimed = <<>>
           THEN End(j, rest, <<>>, FALSE)
           ELSE Replace(j, Job("prepare", claimed, rest, <<>>, FALSE))
    BY <1>5 DEF ClaimTakes
  <2>2. m \in Elems(taken) => m \in Elems(claimed)
    <3> SUFFICES ASSUME m \in Elems(taken) PROVE Fresh(m) \/ Started(m) BY <2>1
    <3>1. ~Stale(m) /\ row'[m] = row[m] BY <2>1 DEF Unfinished, Wanted
    <3>2. Arrival(m) \in Int /\ resetAt \in Int
      <4>1. Arrival(m) \in 1..Len(arrived) /\ resetAt \in 0..Len(arrived)
        BY ArrivalStays DEF IInv, TypeOK, InboxTypeOK
      <4>2. QED BY <4>1
    <3>3. QED BY <3>1, <3>2 DEF Unfinished, Fresh, Stale, Started
  <2>3. CASE claimed = <<>>
    <3> DEFINE k == Job("end", <<>>, rest, <<>>, FALSE)
    <3>1. k.rest = rest BY DEF Job
    <3>2. Replace(j, k) BY <2>1, <2>3 DEF End
    <3> HIDE DEF k
    <3>3. Elems(rest) \subseteq JobHolds(k) BY <3>1 DEF JobHolds
    <3>4. m \notin Elems(taken) BY <2>2, <2>3, ElemsEmpty
    <3>5. m \in JobHolds(j) => m \in JobHolds(k) BY <1>3, <2>1, <3>3, <3>4
    <3>6. QED BY <1>1, <1>3, <3>2, <3>5, OneJobGoesOn
  <2>4. CASE claimed # <<>>
    <3> DEFINE k == Job("prepare", claimed, rest, <<>>, FALSE)
    <3>1. k.rest = rest /\ k.batch = claimed BY DEF Job
    <3>2. Replace(j, k) BY <2>1, <2>4
    <3> HIDE DEF k
    <3>3. Elems(rest) \cup Elems(claimed) \subseteq JobHolds(k) BY <3>1 DEF JobHolds
    <3>4. m \in JobHolds(j) => m \in JobHolds(k) BY <1>3, <2>1, <2>2, <3>3
    <3>5. QED BY <1>1, <1>3, <3>2, <3>4, OneJobGoesOn
  <2>5. QED BY <2>3, <2>4
<1>6. QED BY <1>4, <1>5, ClaimOutcome DEF ClaimBatchFails

LEMMA TurnLosesNothing ==
  ASSUME IInv, [Next]_vars, NEW m \in Wanted, m \in Elems(arrived), Safe(m),
         row'[m] \in Unfinished, NEW j \in jobs,
         Prepare(j) \/ PrepareFails(j) \/ Generate(j) \/ GenerateFails(j)
  PROVE  Safe(m)'
<1> USE DEF inbox, queue, flags, lock, recovery, seen, counters
<1> DEFINE a == Last(j.batch)
<1>1. /\ j.step \in {"prepare", "generate"}
      /\ UNCHANGED <<queue, at, msg, recovery, dropped, arrived, resetAt>>
  BY DEF Prepare, PrepareFails, Generate, GenerateFails
<1>2. j.redo = <<>> /\ ~j.failed /\ a \in Msgs /\ row \in [Msgs -> RowStates]
  BY <1>1, TheJob, AnchorIs DEF Holds, IInv, TypeOK, InboxTypeOK
<1>3. ~Reads(j) /\ JobHolds(j) = Elems(j.batch) \cup Elems(j.rest)
  BY <1>1, <1>2 DEF Reads, JobHolds
<1>4. m \in Elems(j.batch) => m = a
  <2>1. SUFFICES ASSUME m \in Elems(j.batch), m # a PROVE FALSE OBVIOUS
  <2>2. row[m] \notin Unfinished BY <1>1, <2>1, TheJob DEF OnlyTheAnchorIsLeft
  <2>3. row' = row \/ \E s : row' = [row EXCEPT ![a] = s]
    BY DEF Prepare, PrepareFails, Generate, GenerateFails, SetRow
  <2> HIDE DEF a
  <2>4. row'[m] = row[m] BY <1>2, <2>1, <2>3 DEF Wanted
  <2>5. QED BY <2>2, <2>4
<1>5. \/ End(j, j.rest, <<a>>, TRUE)
      \/ End(j, j.rest, <<>>, FALSE) /\ row'[a] = "answered"
      \/ Replace(j, [j EXCEPT !.step = "generate"])
  BY <1>2 DEF Prepare, PrepareFails, Generate, GenerateFails, SetRow
<1> HIDE DEF a
<1>6. CASE End(j, j.rest, <<a>>, TRUE)
  <2> DEFINE k == Job("end", <<>>, j.rest, <<a>>, TRUE)
  <2>1. k.rest = j.rest /\ k.redo = <<a>> /\ k.failed = TRUE BY DEF Job
  <2>2. Replace(j, k) BY <1>6 DEF End
  <2> HIDE DEF k
  <2>3. Elems(j.rest) \cup {a} \subseteq JobHolds(k)
    BY <2>1, <1>2, OneMessage DEF JobHolds
  <2>4. m \in JobHolds(j) => m \in JobHolds(k) BY <1>3, <1>4, <2>3
  <2>5. QED BY <1>1, <1>3, <2>2, <2>4, OneJobGoesOn
<1>7. CASE End(j, j.rest, <<>>, FALSE) /\ row'[a] = "answered"
  <2> DEFINE k == Job("end", <<>>, j.rest, <<>>, FALSE)
  <2>1. k.rest = j.rest BY DEF Job
  <2>2. Replace(j, k) BY <1>7 DEF End
  <2> HIDE DEF k
  <2>3. Elems(j.rest) \subseteq JobHolds(k) BY <2>1 DEF JobHolds
  <2>4. m # a BY <1>7 DEF Unfinished
  <2>5. m \in JobHolds(j) => m \in JobHolds(k) BY <1>3, <1>4, <2>3, <2>4
  <2>6. QED BY <1>1, <1>3, <2>2, <2>5, OneJobGoesOn
<1>8. CASE Replace(j, [j EXCEPT !.step = "generate"])
  <2> DEFINE k == [j EXCEPT !.step = "generate"]
  <2>1. k.rest = j.rest /\ k.batch = j.batch BY TheJob DEF Jobs
  <2>2. Replace(j, k) BY <1>8
  <2> HIDE DEF k
  <2>3. Elems(j.batch) \cup Elems(j.rest) \subseteq JobHolds(k) BY <2>1 DEF JobHolds
  <2>4. m \in JobHolds(j) => m \in JobHolds(k) BY <1>3, <2>3
  <2>5. QED BY <1>1, <1>3, <2>2, <2>4, OneJobGoesOn
<1>9. QED BY <1>5, <1>6, <1>7, <1>8

LEMMA ReadLosesNothing ==
  ASSUME IInv, [Next]_vars, NEW m \in Wanted, m \in Elems(arrived), Safe(m),
         row'[m] \in Unfinished, NEW j \in jobs, ReadInbox(j) \/ ReadInboxFails(j)
  PROVE  Safe(m)'
<1> USE DEF inbox, queue, flags, lock, recovery, seen, counters
<1>1. UNCHANGED <<queue, at, msg, recovery, dropped, row, arrived>>
  BY DEF ReadInbox, ReadInboxFails
<1>2. CASE ReadInbox(j)
  <2> DEFINE found == UnfinishedAfter(0)
             k == Job("append", found, <<>>, <<>>, FALSE)
  <2>1. Replace(j, k) BY <1>2 DEF ReadInbox, NewJob
  <2>2. k.step = "append" /\ k.batch = found BY DEF Job
  <2>3. m \in Elems(found) \/ Len(found) = MaxPending
    <3>1. Arrival(m) > 0
      <4>1. Arrival(m) \in 1..Len(arrived) BY ArrivalStays
      <4>2. QED BY <4>1
    <3>2. row[m] \in Unfinished /\ m \in Msgs BY <1>1 DEF Wanted
    <3>3. TypeOK /\ InboxIsSound /\ 0 \in Nat BY DEF IInv
    <3>4. QED BY <3>1, <3>2, <3>3, ListedRows
  <2> HIDE DEF found, k
  <2>4. m \in JobHolds(k) \/ Reads(k) BY <2>2, <2>3 DEF JobHolds, Reads
  <2>5. QED BY <1>1, <2>1, <2>4, OneJobGoesOn
<1>3. CASE ReadInboxFails(j)
  <2> DEFINE k == Job("append", <<>>, <<>>, <<>>, TRUE)
  <2>1. Replace(j, k) BY <1>3 DEF ReadInboxFails
  <2>2. k.step = "append" /\ k.failed = TRUE BY DEF Job
  <2> HIDE DEF k
  <2>3. Reads(k) BY <2>2 DEF Reads
  <2>4. QED BY <1>1, <2>1, <2>3, OneJobGoesOn
<1>4. QED BY <1>2, <1>3

LEMMA EndsLoseNothing ==
  ASSUME IInv, [Next]_vars, NEW m \in Wanted, m \in Elems(arrived), Safe(m),
         row'[m] \in Unfinished, NEW j \in jobs, EndTurn(j) \/ EndRefill(j)
  PROVE  Safe(m)'
<1> USE DEF inbox, queue, flags, lock, recovery, seen, counters
<1>1. UNCHANGED <<at, msg, recovery, row, arrived>> BY DEF EndTurn, EndRefill
<1>2. jobs = {j} /\ pending \in Seq(Msgs) /\ m \in Msgs \ Commands
  BY TheJob, KindsDiffer DEF IInv, TypeOK, QueueTypeOK, Wanted
<1>3. CASE EndTurn(j)
  <2>1. PICK retry \in BOOLEAN : retry = (j.failed /\ j.redo # <<>> /\ retries < MaxRetries)
    OBVIOUS
  <2> DEFINE left == Requeued(j, retry) \o pending
  <2>2. /\ j.step = "end" /\ pending' = left
        /\ dropped' = IF j.failed /\ ~retry THEN dropped \cup Elems(j.redo) ELSE dropped
        /\ IF TurnReads(left)
           THEN overflow' = FALSE /\ Refill(jobs \ {j}) /\ UNCHANGED timer
           ELSE /\ running' = FALSE /\ jobs' = jobs \ {j}
                /\ timer' = TurnSchedules(left)
                /\ UNCHANGED <<overflow, refilling>>
    BY <1>3, <2>1 DEF EndTurn
  <2>3. /\ Requeued(j, retry) \in Seq(Msgs) /\ Elems(j.rest) \subseteq Elems(Requeued(j, retry))
        /\ retry => Elems(j.redo) \subseteq Elems(Requeued(j, retry))
    BY <2>2, RequeuedPart
  <2>4. Elems(left) = Elems(Requeued(j, retry)) \cup Elems(pending)
    BY <1>2, <2>3, ElemsConcat
  <2> HIDE DEF left
  <2>5. j.batch = <<>> /\ ~Reads(j) BY <2>2, TheJob DEF Holds, Reads
  <2>6. ASSUME m \in JobHolds(j) PROVE Safe(m)'
    <3>1. m \in Elems(j.rest) \/ (j.failed /\ m \in Elems(j.redo))
      BY <2>5, <2>6, ElemsEmpty DEF JobHolds
    <3>2. m \in Elems(pending') \/ m \in dropped' BY <2>2, <2>3, <2>4, <3>1
    <3>3. QED BY <3>2, SafeNext
  <2>7. overflow => overflow' \/ Safe(m)'
    <3>1. CASE TurnReads(left)
      <4>1. NewJob("read", <<>>) \in jobs' BY <2>2, <3>1 DEF Refill
      <4>2. Reads(NewJob("read", <<>>)) BY ReaderIs DEF Reads
      <4>3. QED BY <4>1, <4>2, SafeNext
    <3>2. CASE ~TurnReads(left) BY <2>2, <3>2
    <3>3. QED BY <3>1, <3>2
  <2>8. m \in Elems(pending) => m \in Elems(pending') BY <2>2, <2>4
  <2>9. dropped \subseteq dropped' BY <2>2
  <2>10. \A i \in jobs : m \in JobHolds(i) \/ Reads(i) => Safe(m)' BY <1>2, <2>5, <2>6
  <2>11. QED BY <1>1, <2>7, <2>8, <2>9, <2>10, SafeStays
<1>4. CASE EndRefill(j)
  <2> DEFINE left == pending \o Filter(j.batch, Msgs \ Commands)
             full == Len(j.batch) = MaxPending
  <2>1. /\ j.step = "append" /\ pending' = left
        /\ dropped' = IF j.failed /\ left = <<>>
                      THEN dropped \cup {n \in Msgs : row[n] \in Unfinished} ELSE dropped
        /\ left # <<>> => overflow' = (full \/ overflow)
        /\ left = <<>> /\ ~j.failed =>
             /\ overflow' = full
             /\ ReadsAgain(full) => Refill(jobs \ {j})
    BY <1>4 DEF EndRefill
  <2>2. /\ pending = <<>> /\ j.batch \in Seq(Msgs) /\ j.rest = <<>> /\ j.redo = <<>>
        /\ j.failed => j.batch = <<>>
    BY <2>1, TheJob DEF Holds
  <2>3. /\ Filter(j.batch, Msgs \ Commands) \in Seq(Msgs)
        /\ Elems(Filter(j.batch, Msgs \ Commands)) = Elems(j.batch) \cap (Msgs \ Commands)
        /\ Len(Filter(j.batch, Msgs \ Commands)) <= Len(j.batch)
    BY <2>2, FilterElems
  <2>4. left = Filter(j.batch, Msgs \ Commands) BY <2>2, <2>3
  <2>5. j.failed => left = <<>>
    <3> SUFFICES ASSUME j.failed PROVE left = <<>> OBVIOUS
    <3>1. Elems(left) = {} BY <2>2, <2>3, <2>4, ElemsEmpty
    <3>2. left \in Seq(Msgs) BY <2>3, <2>4
    <3> HIDE DEF left
    <3>3. left # <<>> => Last(left) \in Elems(left) BY <3>2, LastIn
    <3>4. QED BY <3>1, <3>3
  <2> HIDE DEF left
  <2>6. ASSUME j.failed PROVE Safe(m)'
    <3>1. row[m] \in Unfinished BY <1>1
    <3>2. m \in dropped' BY <1>2, <2>1, <2>5, <2>6, <3>1
    <3>3. QED BY <3>2, SafeNext
  <2>7. ASSUME m \in JobHolds(j) PROVE Safe(m)'
    <3>1. m \in Elems(j.batch) BY <2>2, <2>7, ElemsEmpty DEF JobHolds
    <3>2. m \in Elems(pending') BY <1>2, <2>1, <2>3, <2>4, <3>1
    <3>3. QED BY <3>2, SafeNext
  <2>8. ASSUME full \/ overflow PROVE Safe(m)'
    <3>1. CASE j.failed BY <2>6, <3>1
    <3>2. CASE left # <<>>
      <4>1. overflow' BY <2>1, <2>8, <3>2
      <4>2. QED BY <4>1, SafeNext
    <3>3. CASE ~j.failed /\ left = <<>> /\ ReadsAgain(full)
      <4>1. NewJob("read", <<>>) \in jobs' BY <2>1, <3>3 DEF Refill
      <4>2. Reads(NewJob("read", <<>>)) BY ReaderIs DEF Reads
      <4>3. QED BY <4>1, <4>2, SafeNext
    <3>4. CASE ~j.failed /\ left = <<>> /\ ~ReadsAgain(full)
      <4>1. full BY <2>8, <3>4 DEF ReadsAgain
      <4>2. overflow' BY <2>1, <3>4, <4>1
      <4>3. QED BY <4>2, SafeNext
    <3>5. QED BY <3>1, <3>2, <3>3, <3>4
  <2>9. Reads(j) => Safe(m)' BY <2>1, <2>6, <2>8 DEF Reads
  <2>10. \A i \in jobs : m \in JobHolds(i) \/ Reads(i) => Safe(m)' BY <1>2, <2>7, <2>9
  <2>11. m \notin Elems(pending) BY <2>2, ElemsEmpty
  <2>12. dropped \subseteq dropped' BY <2>1
  <2>13. QED BY <1>1, <2>8, <2>10, <2>11, <2>12, SafeStays
<1>5. QED BY <1>3, <1>4

LEMMA StartLosesNothing ==
  ASSUME IInv, [Next]_vars, NEW m \in Wanted, m \in Elems(arrived), Safe(m), StartTurn
  PROVE  Safe(m)'
<1> USE DEF inbox, queue, flags, lock, recovery, seen, counters
<1> DEFINE size == IF Len(pending) < BurstCap THEN Len(pending) ELSE BurstCap
           batch == SubSeq(pending, 1, size)
           left == SubSeq(pending, size + 1, Len(pending))
<1>1. /\ UNCHANGED <<at, msg, recovery, overflow, dropped>>
      /\ \/ UNCHANGED <<pending, jobs>>
         \/ pending' = left /\ jobs' = jobs \cup {NewJob("claim", batch)}
  BY DEF StartTurn
<1>2. pending \in Seq(Msgs) /\ Len(pending) \in Nat /\ BurstCap \in Nat
  BY Sizes DEF IInv, TypeOK, QueueTypeOK
<1>3. size \in 0..Len(pending) BY <1>2
<1> HIDE DEF size
<1>4. Elems(pending) = Elems(batch) \cup Elems(left) BY <1>2, <1>3, ElemsCut
<1> HIDE DEF batch, left
<1>5. m \in Elems(pending) => m \in Elems(pending') \/ Safe(m)'
  <2>1. CASE UNCHANGED <<pending, jobs>> BY <2>1
  <2>2. CASE pending' = left /\ jobs' = jobs \cup {NewJob("claim", batch)}
    <3>1. NewJob("claim", batch).batch = batch BY DEF NewJob, Job
    <3>2. m \in Elems(batch) => m \in JobHolds(NewJob("claim", batch)) BY <3>1 DEF JobHolds
    <3>3. m \in Elems(batch) => Safe(m)' BY <2>2, <3>2, SafeNext
    <3>4. QED BY <1>4, <2>2, <3>3
  <2>3. QED BY <1>1, <2>1, <2>2
<1>6. jobs \subseteq jobs' BY <1>1
<1>7. QED BY <1>1, <1>5, <1>6, SafeStays

LEMMA SafeStep ==
  ASSUME IInv, [Next]_vars, NEW m \in Wanted, row'[m] \in Unfinished,
         row[m] \in Unfinished => Safe(m)
  PROVE  Safe(m)'
<1> USE DEF inbox, queue, flags, lock, recovery, seen, counters
<1>1. m \in Msgs \ Commands BY KindsDiffer DEF Wanted
<1>2. /\ at \in [Callers -> CallerSteps] /\ msg \in [Callers -> Msgs \cup {NoMsg}]
      /\ row \in [Msgs -> RowStates]
  BY DEF IInv, TypeOK, CallersTypeOK, InboxTypeOK
<1>3. CASE row[m] = "absent"
  <2>1. PICK c \in Workers, n \in Msgs : Deliver(c, n)
    <3>1. row' # row BY <1>3 DEF Unfinished
    <3>2. ASSUME NEW c \in Callers, Ignore(c) \/ Check(c) \/ Close(c) PROVE FALSE
      <4>1. at[c] # "idle" /\ \A n \in Msgs : n # msg[c] => row'[n] = row[n]
        BY <1>2, <3>2 DEF Ignore, Check, Close, SetRow
      <4>2. msg[c] \in Elems(arrived) BY <4>1, CallerHolds
      <4>3. m # msg[c] BY <4>2, <1>1, <1>3 DEF IInv, InboxIsSound
      <4>4. QED BY <4>1, <4>3, <1>1, <1>3 DEF Unfinished
    <3>3. ASSUME NEW j \in jobs, ClaimBatch(j) PROVE FALSE
      <4>1. RowMoves(m) /\ j.step = "claim" /\ jobs = {j} BY <1>1, <3>3, RowStep, TheJob DEF ClaimBatch
      <4>2. row'[m] = "received" BY <4>1, <1>3 DEF RowMoves, Unfinished
      <4>3. ASSUME NEW taken \in Seq(Msgs), NEW claimed \in Seq(Msgs), NEW rest \in Seq(Msgs),
                   ClaimTakes(j, taken, claimed, rest)
            PROVE  FALSE
        <5>1. row' = [n \in Msgs |->
                       IF n \in Elems(Absorbed(claimed)) THEN "batched"
                       ELSE IF n \in Elems(taken) /\ Stale(n) THEN "ignored" ELSE row[n]]
          BY <4>3 DEF ClaimTakes
        <5>2. QED BY <5>1, <4>2, <1>1, <1>3
      <4>4. QED BY <3>1, <3>3, <4>3, ClaimOutcome
    <3>4. ASSUME NEW j \in jobs, Prepare(j) \/ Generate(j) \/ GenerateFails(j) PROVE FALSE
      <4>1. j.step \in {"prepare", "generate"} BY <3>4 DEF Prepare, Generate, GenerateFails
      <4>2. Last(j.batch) \in Elems(arrived) BY <4>1, AnchorIs
      <4>3. m # Last(j.batch) BY <4>2, <1>1, <1>3 DEF IInv, InboxIsSound
      <4>4. row' = row \/ \E s : row' = [row EXCEPT ![Last(j.batch)] = s]
        BY <3>4 DEF Prepare, Generate, GenerateFails, SetRow
      <4>5. row'[m] = row[m] BY <4>3, <4>4, <1>1, <1>2
      <4>6. QED BY <4>5, <1>3 DEF Unfinished
    <3>5. ASSUME NEW c \in Callers, Execute(c) PROVE FALSE
      <4>1. row'[m] \in {row[m], "ignored"} BY <1>1, <3>5, ExecuteRows
      <4>2. QED BY <4>1, <1>3 DEF Unfinished
    <3>6. QED
      BY StepCases, <3>1, <3>2, <3>3, <3>4, <3>5
         DEF vars, Redeliver, Route, Resume, Admit, Acquire, Release, RouteFails,
             IgnoreFails, ResumeFails, CommandFails, RecoverList, RecoverNext, RecoverDone,
             RecoverListFails, StartTurn, Crash, EndTurn, ReadInbox, EndRefill, ClaimBatchFails,
             PrepareFails, ReadInboxFails
  <2>2. n = m BY <2>1, <1>1, <1>2, <1>3 DEF Deliver, Unfinished
  <2>3. at'[c] = "route" /\ msg'[c] = m /\ c \in Callers BY <2>1, <2>2, <1>2 DEF Deliver, Callers
  <2>4. QED BY <2>3, SafeNext
<1>4. CASE row[m] # "absent"
  <2>1. m \in Elems(arrived) BY <1>1, <1>4 DEF IInv, InboxIsSound
  <2>2. Safe(m)
    <3>1. RowMoves(m) BY <1>1, RowStep
    <3>2. CASE row[m] \in Unfinished BY <3>2
    <3>3. CASE \E j \in jobs : j.step \in {"prepare", "generate"} /\ m = Last(j.batch)
      <4>1. PICK j \in jobs : j.step \in {"prepare", "generate"} /\ m = Last(j.batch) BY <3>3
      <4>2. m \in Elems(j.batch) BY <4>1, AnchorIs
      <4>3. QED BY <4>2, SafeIs DEF JobHolds
    <3>4. QED BY <3>1, <3>2, <3>3, <1>4 DEF RowMoves, Unfinished
  <2>3. CASE UNCHANGED vars
    <3>1. Elems(pending)' = Elems(pending) BY <2>3 DEF vars, Elems
    <3>2. QED BY <2>1, <2>2, <2>3, <3>1, SafeStays DEF vars
  <2>4. ASSUME NEW c \in Workers, NEW n \in Msgs, Deliver(c, n) \/ Redeliver(c, n)
        PROVE  Safe(m)'
    <3>1. /\ at[c] = "idle" /\ at' = [at EXCEPT ![c] = "route"] /\ msg' = [msg EXCEPT ![c] = n]
          /\ UNCHANGED <<pending, overflow, jobs, recovery, dropped>>
      BY <2>4 DEF Deliver, Redeliver
    <3>2. \A d \in Callers : at[d] # "idle" => at'[d] = at[d] /\ msg'[d] = msg[d]
      BY <3>1, <1>2
    <3>3. Elems(pending)' = Elems(pending) BY <3>1 DEF Elems
    <3>4. QED BY <2>1, <2>2, <3>1, <3>2, <3>3, SafeStays
  <2>5. CASE Crash
    <3>1. ~recovered' /\ more' /\ after' = 0 BY <2>5 DEF Crash
    <3>2. Arrival(m)' > 0
      <4>1. Arrival(m)' = Arrival(m) /\ Arrival(m) \in 1..Len(arrived) BY <2>1, ArrivalStays
      <4>2. QED BY <4>1
    <3>3. ToRecover(m)' BY <3>1, <3>2 DEF ToRecover
    <3>4. QED BY <3>3, SafeNext
  <2>6. QED
    BY StepCases, <2>1, <2>2, <2>3, <2>4, <2>5, CallersLoseNothing, RecoverLosesNothing,
       ClaimLosesNothing, TurnLosesNothing, ReadLosesNothing, EndsLoseNothing, StartLosesNothing
<1>5. QED BY <1>3, <1>4

\* An accepted message that still needs a reply is never forgotten: it is in
\* somebody's hands, or waits in an inbox that will be read, or was given up with
\* an error, whatever fails and whenever the process dies (admitAI, startTurn,
\* refill, Recover).
THEOREM NothingIsLost == Spec => []NoMessageLost
<1>1. Init => NoMessageLost BY DEF Init, NoMessageLost, Wanted, Unfinished
<1>2. ASSUME IInv, NoMessageLost, [Next]_vars PROVE NoMessageLost'
  <2>1. Wanted' = Wanted BY <1>2, KindStep DEF IInv
  <2>2. ASSUME NEW m \in Wanted, row'[m] \in Unfinished PROVE Safe(m)'
    <3>1. row[m] \in Unfinished => Safe(m) BY <1>2 DEF NoMessageLost, Safe
    <3>2. QED BY <1>2, <2>2, <3>1, SafeStep
  <2>3. QED BY <2>1, <2>2 DEF NoMessageLost, Safe
<1>3. QED BY <1>1, <1>2, InvariantHolds, PTL DEF Spec

-----------------------------------------------------------------------------
(* Every batched message has an anchor.                                    *)

\* The queue and the batches taken from it hold a message twice only if that was
\* seen, and an anchor is a stored message of the queue's.
DoublesAreSeen ==
  /\ Twice(pending) \subseteq doubled
  /\ \A j \in jobs : j.step \in {"claim", "append"} => Twice(j.batch) \subseteq doubled
AnchorsAreStored == \A m \in Msgs : row[m] = "batched" => anchorOf[m] \in Queueable
BInv == DoublesAreSeen /\ AnchorsAreStored /\ BatchedHasAnAnchor

LEMMA TwiceAppend ==
  ASSUME NEW s \in Seq(Msgs), NEW m \in Msgs, m \notin Elems(s)
  PROVE  Twice(Append(s, m)) \subseteq Twice(s)
<1> DEFINE t == Append(s, m)
<1>1. /\ t \in Seq(Msgs) /\ Len(t) = Len(s) + 1 /\ t[Len(s) + 1] = m /\ Len(s) \in Nat
      /\ \A i \in 1..Len(s) : t[i] = s[i]
  OBVIOUS
<1> HIDE DEF t
<1>2. SUFFICES ASSUME NEW i \in DOMAIN t, NEW k \in DOMAIN t, i # k, t[i] = t[k]
               PROVE  t[i] \in Twice(s)
  BY DEF Twice, t
<1>3. DOMAIN t = 1..(Len(s) + 1) /\ DOMAIN s = 1..Len(s) BY <1>1
<1>4. \A x \in 1..Len(s) : t[x] # m BY <1>1, <1>3 DEF Elems
<1>5. i \in 1..Len(s) /\ k \in 1..Len(s) BY <1>1, <1>2, <1>3, <1>4
<1>6. QED BY <1>1, <1>2, <1>3, <1>5 DEF Twice, Elems

LEMMA TwiceCut ==
  ASSUME NEW s \in Seq(Msgs), NEW k \in 0..Len(s)
  PROVE  /\ Twice(SubSeq(s, 1, k)) \subseteq Twice(s)
         /\ Twice(SubSeq(s, k + 1, Len(s))) \subseteq Twice(s)
<1> DEFINE a == SubSeq(s, 1, k)
           b == SubSeq(s, k + 1, Len(s))
<1>1. /\ a \in Seq(Msgs) /\ Len(a) = k /\ \A i \in 1..k : a[i] = s[i]
      /\ b \in Seq(Msgs) /\ Len(b) = Len(s) - k /\ \A i \in 1..(Len(s) - k) : b[i] = s[k + i]
  BY ElemsCut
<1> HIDE DEF a, b
<1>2. DOMAIN a = 1..k /\ DOMAIN b = 1..(Len(s) - k) /\ DOMAIN s = 1..Len(s) /\ Len(s) \in Nat
  BY <1>1
<1>3. ASSUME NEW i \in DOMAIN a, NEW n \in DOMAIN a, i # n, a[i] = a[n] PROVE a[i] \in Twice(s)
  <2>1. i \in DOMAIN s /\ n \in DOMAIN s /\ s[i] = a[i] /\ s[n] = a[i] BY <1>1, <1>2, <1>3
  <2>2. QED BY <2>1, <1>3 DEF Twice, Elems
<1>4. ASSUME NEW i \in DOMAIN b, NEW n \in DOMAIN b, i # n, b[i] = b[n] PROVE b[i] \in Twice(s)
  <2>1. k + i \in DOMAIN s /\ k + n \in DOMAIN s /\ k + i # k + n BY <1>2, <1>4
  <2>2. s[k + i] = b[i] /\ s[k + n] = b[i] BY <1>1, <1>2, <1>4
  <2>3. QED BY <2>1, <2>2 DEF Twice, Elems
<1>5. QED BY <1>3, <1>4 DEF Twice, a, b

LEMMA TwiceFilter ==
  ASSUME NEW s \in Seq(Msgs), NEW T
  PROVE  Twice(Filter(s, T)) \subseteq Twice(s)
<1> DEFINE t == Filter(s, T)
<1>1. Len(s) \in Nat /\ DOMAIN s = 1..Len(s) OBVIOUS
<1>2. PICK h : Picks(s, T, Len(s), t, h) BY <1>1, FilterPicks
<1> HIDE DEF t
<1>3. /\ t \in Seq(T) /\ DOMAIN t = 1..Len(t) /\ Len(t) \in Nat
      /\ \A i \in 1..Len(t) : h[i] \in 1..Len(s) /\ t[i] = s[h[i]]
      /\ \A i, j \in 1..Len(t) : i < j => h[i] < h[j]
  BY <1>2 DEF Picks
<1>4. ASSUME NEW i \in DOMAIN t, NEW k \in DOMAIN t, i # k, t[i] = t[k] PROVE t[i] \in Twice(s)
  <2>1. h[i] \in DOMAIN s /\ h[k] \in DOMAIN s /\ s[h[i]] = t[i] /\ s[h[k]] = t[i]
    BY <1>1, <1>3, <1>4
  <2>2. i < k \/ k < i BY <1>3, <1>4
  <2>3. h[i] # h[k] BY <2>2, <1>1, <1>3
  <2>4. QED BY <2>1, <2>3 DEF Twice, Elems
<1>5. QED BY <1>4 DEF Twice, t

LEMMA DoublesStep ==
  ASSUME IInv, [Next]_vars, DoublesAreSeen
  PROVE  DoublesAreSeen' /\ doubled \subseteq doubled'
<1> USE DEF inbox, queue, flags, lock, recovery, seen, counters
<1>1. pending \in Seq(Msgs) /\ Len(pending) \in Nat /\ TypeOK /\ InboxIsSound
  BY DEF IInv, TypeOK, QueueTypeOK
<1>2. CASE UNCHANGED <<pending, jobs, doubled>>
  <2>1. Twice(pending)' = Twice(pending) BY <1>2 DEF Twice, Elems
  <2>2. QED BY <2>1, <1>2 DEF DoublesAreSeen
<1>3. ASSUME NEW j \in jobs, NEW k, Replace(j, k), k.step \notin {"claim", "append"},
             UNCHANGED <<pending, doubled>>
      PROVE  DoublesAreSeen' /\ doubled \subseteq doubled'
  <2>1. jobs' = {k} BY <1>3, TheJob DEF Replace
  <2>2. Twice(pending)' = Twice(pending) BY <1>3 DEF Twice, Elems
  <2>3. QED BY <2>1, <2>2, <1>3 DEF DoublesAreSeen
<1>4. ASSUME NEW c \in Callers, Admit(c)
      PROVE  DoublesAreSeen' /\ doubled \subseteq doubled'
  <2>1. /\ at[c] = "admit" /\ UNCHANGED <<jobs, doubled>>
        /\ \/ UNCHANGED pending
           \/ msg[c] \notin Elems(pending) /\ pending' = Append(pending, msg[c])
    BY <1>4 DEF Admit
  <2>2. msg[c] \in Msgs BY <2>1, CallerHolds
  <2>3. CASE UNCHANGED pending BY <1>2, <2>1, <2>3
  <2>4. CASE msg[c] \notin Elems(pending) /\ pending' = Append(pending, msg[c])
    <3>1. Twice(Append(pending, msg[c])) \subseteq Twice(pending)
      BY <1>1, <2>2, <2>4, TwiceAppend
    <3>2. Twice(pending)' \subseteq Twice(pending) BY <3>1, <2>4 DEF Twice, Elems
    <3>3. QED BY <3>2, <2>1 DEF DoublesAreSeen
  <2>5. QED BY <2>1, <2>3, <2>4
<1>5. ASSUME NEW c \in Callers, Release(c)
      PROVE  DoublesAreSeen' /\ doubled \subseteq doubled'
  <2>1. UNCHANGED <<pending, doubled>> /\ (jobs' = jobs \/ jobs' = jobs \cup {NewJob("read", <<>>)})
    BY <1>5 DEF Release, Refill
  <2>2. NewJob("read", <<>>).step = "read" BY ReaderIs
  <2>3. Twice(pending)' = Twice(pending) BY <2>1 DEF Twice, Elems
  <2>4. QED BY <2>1, <2>2, <2>3 DEF DoublesAreSeen
<1>6. CASE StartTurn
  <2> DEFINE size == IF Len(pending) < BurstCap THEN Len(pending) ELSE BurstCap
             batch == SubSeq(pending, 1, size)
             left == SubSeq(pending, size + 1, Len(pending))
  <2>1. /\ UNCHANGED doubled
        /\ \/ UNCHANGED <<pending, jobs>>
           \/ pending' = left /\ jobs' = jobs \cup {NewJob("claim", batch)}
    BY <1>6 DEF StartTurn
  <2>2. size \in 0..Len(pending) BY <1>1, Sizes
  <2> HIDE DEF size
  <2>3. Twice(batch) \subseteq Twice(pending) /\ Twice(left) \subseteq Twice(pending)
    BY <1>1, <2>2, TwiceCut
  <2>4. NewJob("claim", batch).batch = batch BY DEF NewJob, Job
  <2> HIDE DEF batch, left
  <2>5. CASE UNCHANGED <<pending, jobs>> BY <1>2, <2>1, <2>5
  <2>6. CASE pending' = left /\ jobs' = jobs \cup {NewJob("claim", batch)}
    <3>1. Twice(pending)' = Twice(left) BY <2>6 DEF Twice, Elems
    <3>2. Twice(NewJob("claim", batch).batch) \subseteq doubled
      BY <2>3, <2>4 DEF DoublesAreSeen
    <3>3. QED BY <3>1, <3>2, <2>1, <2>3, <2>6 DEF DoublesAreSeen
  <2>7. QED BY <2>1, <2>5, <2>6
<1>7. ASSUME NEW j \in jobs,
             \/ ClaimBatch(j) \/ ClaimBatchFails(j) \/ Prepare(j) \/ PrepareFails(j)
             \/ Generate(j) \/ GenerateFails(j)
      PROVE  DoublesAreSeen' /\ doubled \subseteq doubled'
  <2>1. UNCHANGED <<pending, doubled>>
    BY <1>7 DEF ClaimBatch, ClaimBatchFails, Prepare, PrepareFails, Generate, GenerateFails
  <2>2. \/ \E rest, redo, failed : End(j, rest, redo, failed)
        \/ \E b, rest : Replace(j, Job("prepare", b, rest, <<>>, FALSE))
        \/ Replace(j, [j EXCEPT !.step = "generate"])
    BY <1>7 DEF ClaimBatch, ClaimBatchFails, Prepare, PrepareFails, Generate, GenerateFails
  <2>3. \A rest, redo, failed : Job("end", <<>>, rest, redo, failed).step = "end" BY DEF Job
  <2>4. \A b, rest : Job("prepare", b, rest, <<>>, FALSE).step = "prepare" BY DEF Job
  <2>5. [j EXCEPT !.step = "generate"].step = "generate" BY TheJob DEF Jobs
  <2>6. QED BY <1>3, <2>1, <2>2, <2>3, <2>4, <2>5 DEF End
<1>8. ASSUME NEW j \in jobs, ReadInbox(j) \/ ReadInboxFails(j)
      PROVE  DoublesAreSeen' /\ doubled \subseteq doubled'
  <2> DEFINE found == UnfinishedAfter(0)
             k == Job("append", found, <<>>, <<>>, FALSE)
             e == Job("append", <<>>, <<>>, <<>>, TRUE)
  <2>1. UNCHANGED <<pending, doubled>> /\ (Replace(j, k) \/ Replace(j, e))
    BY <1>8 DEF ReadInbox, ReadInboxFails, NewJob
  <2>2. k.batch = found /\ e.batch = <<>> BY DEF Job
  <2>3. Twice(found) = {}
    <3>1. 0 \in Nat OBVIOUS
    <3>2. QED BY <1>1, <3>1, ListedRows
  <2>4. Twice(<<>>) = {} BY DEF Twice, Elems
  <2>5. Twice(pending)' = Twice(pending) BY <2>1 DEF Twice, Elems
  <2> HIDE DEF found, k, e
  <2>6. \A i \in jobs' : Twice(i.batch) = {} BY <2>1, <2>2, <2>3, <2>4, TheJob DEF Replace
  <2>7. QED BY <2>1, <2>5, <2>6 DEF DoublesAreSeen
<1>9. ASSUME NEW j \in jobs, EndTurn(j)
      PROVE  DoublesAreSeen' /\ doubled \subseteq doubled'
  <2>1. doubled' = doubled \cup Twice(pending') /\ (jobs' = jobs \ {j} \/ Refill(jobs \ {j}))
    BY <1>9 DEF EndTurn
  <2>2. \A i \in jobs' : i.step = "read" BY <2>1, TheJob, ReaderIs DEF Refill
  <2>3. Twice(pending)' = Twice(pending') BY DEF Twice, Elems
  <2>4. QED BY <2>1, <2>2, <2>3 DEF DoublesAreSeen
<1>10. ASSUME NEW j \in jobs, EndRefill(j)
       PROVE  DoublesAreSeen' /\ doubled \subseteq doubled'
  <2>1. /\ j.step = "append" /\ pending' = pending \o Filter(j.batch, Msgs \ Commands)
        /\ doubled' = doubled /\ (jobs' = jobs \ {j} \/ Refill(jobs \ {j}))
    BY <1>10 DEF EndRefill
  <2>2. \A i \in jobs' : i.step = "read" BY <2>1, TheJob, ReaderIs DEF Refill
  <2>3. pending = <<>> /\ j.batch \in Seq(Msgs) BY <2>1, TheJob
  <2>4. Filter(j.batch, Msgs \ Commands) \in Seq(Msgs) BY <2>3, FilterElems
  <2>5. pending' = Filter(j.batch, Msgs \ Commands) BY <2>1, <2>3, <2>4
  <2>6. Twice(Filter(j.batch, Msgs \ Commands)) \subseteq Twice(j.batch) BY <2>3, TwiceFilter
  <2>7. Twice(pending)' \subseteq Twice(j.batch) BY <2>5, <2>6 DEF Twice, Elems
  <2>8. QED BY <2>1, <2>2, <2>7 DEF DoublesAreSeen
<1>11. CASE Crash
  <2>1. pending' = <<>> /\ jobs' = {} /\ doubled' = doubled BY <1>11 DEF Crash
  <2>2. Twice(pending)' = {} BY <2>1 DEF Twice, Elems
  <2>3. QED BY <2>1, <2>2 DEF DoublesAreSeen
<1>12. QED
  BY StepCases, <1>2, <1>4, <1>5, <1>6, <1>7, <1>8, <1>9, <1>10, <1>11
     DEF vars, Deliver, Redeliver, Route, Ignore, Resume, Acquire, Check, Execute, Close,
         RouteFails, IgnoreFails, ResumeFails, CommandFails, Fails, RecoverList, RecoverNext,
         RecoverDone, RecoverListFails

\* A reset never covers fewer messages than before.
LEMMA ResetGrows == ASSUME IInv, [Next]_vars PROVE resetAt <= resetAt' /\ resetAt \in Nat
<1> USE DEF inbox, queue, flags, lock, recovery, seen, counters
<1>1. resetAt \in 0..Len(arrived) /\ Len(arrived) \in Nat BY DEF IInv, TypeOK, InboxTypeOK
<1>2. resetAt' \in {resetAt, Len(arrived)}
  BY StepCases, ExecuteRows
     DEF vars, Deliver, Redeliver, Route, Ignore, Resume, Admit, Acquire, Check, Close,
         Release, RouteFails, IgnoreFails, ResumeFails, CommandFails, RecoverList, RecoverNext,
         RecoverDone, RecoverListFails, StartTurn, Crash, ClaimBatch, Prepare, Generate, EndTurn,
         ReadInbox, EndRefill, ClaimBatchFails, PrepareFails, GenerateFails, ReadInboxFails
<1>3. QED BY <1>1, <1>2

\* What an anchor may be, for the message m that was batched into it.
Anchors(m, a) ==
  \/ a = m /\ m \in doubled
  \/ /\ Arrival(a) > Arrival(m)
     /\ \/ row[a] \in Unfinished \cup {"answered", "failed", "batched"}
        \/ row[a] = "ignored" /\ (a \in Unwanted \/ Arrival(a) <= resetAt)

LEMMA AnchorStays ==
  ASSUME IInv, [Next]_vars, NEW m \in Elems(arrived), NEW a \in Queueable, Anchors(m, a),
         doubled \subseteq doubled'
  PROVE  Anchors(m, a)'
<1>1. a \in Elems(arrived) /\ a \in Msgs \ Commands
  <2>1. Elems(arrived) \subseteq Msgs BY ElemsIn DEF IInv, TypeOK, InboxTypeOK
  <2>2. QED BY <2>1 DEF Queueable
<1>2. Arrival(m)' = Arrival(m) /\ Arrival(a)' = Arrival(a) BY <1>1, ArrivalStays
<1>3. Unwanted' = Unwanted BY KindStep DEF IInv
<1>4. CASE a = m /\ m \in doubled BY <1>4 DEF Anchors
<1>5. CASE /\ Arrival(a) > Arrival(m)
           /\ \/ row[a] \in Unfinished \cup {"answered", "failed", "batched"}
              \/ row[a] = "ignored" /\ (a \in Unwanted \/ Arrival(a) <= resetAt)
  <2>1. RowMoves(a) BY <1>1, RowStep
  <2>2. Arrival(a) <= resetAt => Arrival(a)' <= resetAt'
    <3>1. Arrival(a) \in Int /\ resetAt \in Int /\ resetAt' \in Int /\ resetAt <= resetAt'
      <4>1. resetAt' \in 0..Len(arrived') /\ Len(arrived') \in Nat
        BY InboxStep DEF InboxTypeOK
      <4>2. Arrival(a) \in 1..Len(arrived) BY <1>1, ArrivalStays
      <4>3. QED BY <4>1, <4>2, ResetGrows
    <3>2. QED BY <3>1, <1>2
  <2>3. \/ row'[a] \in Unfinished \cup {"answered", "failed", "batched"}
        \/ row'[a] = "ignored" /\ (a \in Unwanted \/ Arrival(a)' <= resetAt')
    BY <2>1, <2>2, <1>2, <1>5 DEF RowMoves, Unfinished, Stale
  <2>4. QED BY <1>2, <1>3, <1>5, <2>3 DEF Anchors
<1>6. QED BY <1>4, <1>5 DEF Anchors

LEMMA AnchorStep ==
  ASSUME IInv, [Next]_vars, BInv, NEW m \in Msgs, row'[m] = "batched"
  PROVE  anchorOf'[m] \in Queueable' /\ Anchors(m, anchorOf[m])'
<1> USE DEF inbox, queue, flags, lock, recovery, seen, counters
<1>1. Queueable \subseteq Queueable' BY KindStep DEF IInv, Queueable
<1>2. doubled \subseteq doubled' BY DoublesStep DEF BInv
<1>3. anchorOf \in [Msgs -> Msgs \cup {NoMsg}] /\ row \in [Msgs -> RowStates]
  BY DEF IInv, TypeOK, SeenTypeOK, InboxTypeOK
<1>4. ASSUME row[m] = "batched", anchorOf'[m] = anchorOf[m]
      PROVE  anchorOf'[m] \in Queueable' /\ Anchors(m, anchorOf[m])'
  <2>1. PICK a \in Queueable : a = anchorOf[m] BY <1>4 DEF BInv, AnchorsAreStored
  <2>2. Anchors(m, a) BY <1>4, <2>1 DEF BInv, BatchedHasAnAnchor, Anchors
  <2>3. m \in Elems(arrived) BY <1>4 DEF IInv, InboxIsSound
  <2>4. Anchors(m, a)' BY <2>2, <2>3, <1>2, AnchorStays
  <2>5. anchorOf'[m] = a BY <1>4, <2>1
  <2>6. Anchors(m, anchorOf[m])' BY <2>4, <2>5 DEF Anchors
  <2>7. QED BY <2>1, <2>5, <2>6, <1>1
<1>5. CASE \E j \in jobs : ClaimBatch(j)
  <2>1. PICK j \in jobs : ClaimBatch(j) BY <1>5
  <2>2. j.step = "claim" /\ UNCHANGED <<resetAt, arrived, kind>> BY <2>1 DEF ClaimBatch
  <2>3. CASE UNCHANGED <<row, anchorOf>> BY <1>4, <2>3
  <2>4. ASSUME NEW taken \in Seq(Msgs), NEW claimed \in Seq(Msgs), NEW rest \in Seq(Msgs),
               ClaimTakes(j, taken, claimed, rest)
        PROVE  anchorOf'[m] \in Queueable' /\ Anchors(m, anchorOf[m])'
    <3> DEFINE others == Elems(Absorbed(claimed))
               a == Last(claimed)
    <3>1. /\ row' = [n \in Msgs |->
                       IF n \in others THEN "batched"
                       ELSE IF n \in Elems(taken) /\ Stale(n) THEN "ignored" ELSE row[n]]
          /\ anchorOf' = [n \in Msgs |-> IF n \in others THEN a ELSE anchorOf[n]]
          /\ Elems(j.batch) = Elems(taken) \cup Elems(rest)
          /\ Elems(claimed) = {n \in Elems(taken) : Fresh(n) \/ Started(n)}
          /\ \A n \in others : Fresh(n) /\ n \in Elems(claimed)
          /\ \A i \in DOMAIN claimed : Arrival(claimed[i]) <= Arrival(a)
          /\ a \in others => a \in Twice(j.batch)
      BY <2>4 DEF ClaimTakes
    <3>2. CASE m \notin others
      <4>1. row[m] = "batched" /\ anchorOf'[m] = anchorOf[m] BY <3>1, <3>2
      <4>2. QED BY <4>1, <1>4
    <3>3. CASE m \in others
      <4>1. m \in Elems(claimed) /\ anchorOf'[m] = a BY <3>1, <3>3
      <4>2. claimed # <<>> BY <4>1, ElemsEmpty
      <4>3. a \in Elems(claimed) /\ a \in Msgs BY <4>2, LastIn
      <4>4. Elems(j.batch) \subseteq Queueable BY <2>2, TheJob DEF HoldsQueueable
      <4>5. a \in Queueable /\ m \in Queueable BY <3>1, <4>1, <4>3, <4>4
      <4> HIDE DEF a, others
      <4>6. a \in Elems(arrived) /\ m \in Elems(arrived) BY <4>5 DEF Queueable
      <4>7. Arrival(m)' = Arrival(m) /\ Arrival(a)' = Arrival(a) BY <4>6, ArrivalStays
      <4>8. CASE a = m
        <5>1. m \in Twice(j.batch) BY <3>1, <3>3, <4>8
        <5>2. m \in doubled BY <5>1, <2>2 DEF BInv, DoublesAreSeen
        <5>3. Anchors(m, anchorOf[m])' BY <5>2, <4>1, <4>8, <1>2 DEF Anchors
        <5>4. QED BY <5>3, <4>1, <4>5, <1>1
      <4>9. CASE a # m
        <5>1. Arrival(m) <= Arrival(a) BY <3>1, <4>1 DEF Elems
        <5>2. Arrival(m) # Arrival(a) /\ Arrival(m) \in Int /\ Arrival(a) \in Int
          <6>1. arrived[Arrival(m)] = m /\ arrived[Arrival(a)] = a
            BY <4>6, ArrivalIs DEF IInv
          <6>2. Arrival(m) \in 1..Len(arrived) /\ Arrival(a) \in 1..Len(arrived)
            BY <4>6, ArrivalStays
          <6>3. QED BY <6>1, <6>2, <4>9
        <5>3. Arrival(a)' > Arrival(m)' BY <5>1, <5>2, <4>7
        <5>4. row'[a] \in Unfinished \cup {"batched"}
          <6>1. Fresh(a) \/ Started(a) BY <3>1, <4>3
          <6>2. ~Stale(a)
            <7>1. resetAt \in Int BY ResetGrows
            <7>2. QED BY <6>1, <7>1, <5>2 DEF Fresh, Started, Stale
          <6>3. row[a] \in Unfinished BY <6>1 DEF Fresh, Started, Unfinished
          <6>4. QED BY <6>2, <6>3, <3>1, <4>3
        <5>5. Anchors(m, anchorOf[m])' BY <5>3, <5>4, <4>1 DEF Anchors
        <5>6. QED BY <5>5, <4>1, <4>5, <1>1
      <4>10. QED BY <4>8, <4>9
    <3>4. QED BY <3>2, <3>3
  <2>5. QED BY <2>1, <2>3, <2>4, ClaimOutcome
<1>6. CASE ~ \E j \in jobs : ClaimBatch(j)
  <2>1. anchorOf' = anchorOf
    BY StepCases, <1>6
       DEF vars, Deliver, Redeliver, Route, Ignore, Resume, Admit, Acquire, Check, Execute, Close,
           Release, RouteFails, IgnoreFails, ResumeFails, CommandFails, Fails, RecoverList,
           RecoverNext, RecoverDone, RecoverListFails, StartTurn, Crash, Prepare, Generate,
           EndTurn, ReadInbox, EndRefill, ClaimBatchFails, PrepareFails, GenerateFails,
           ReadInboxFails
  <2>2. row[m] = "batched"
    <3>1. ASSUME NEW n, NEW s, s # "batched", row' = [row EXCEPT ![n] = s] PROVE row[m] = "batched"
      BY <3>1, <1>3
    <3>2. ASSUME NEW c \in Workers, NEW n \in Msgs, Deliver(c, n)
          PROVE  \E i, s : s # "batched" /\ row' = [row EXCEPT ![i] = s]
      BY <3>2 DEF Deliver
    <3>3. ASSUME NEW c \in Callers, Ignore(c) \/ Check(c) \/ Close(c)
          PROVE  row' = row \/ \E i, s : s # "batched" /\ row' = [row EXCEPT ![i] = s]
      BY <3>3 DEF Ignore, Check, Close, SetRow
    <3>4. ASSUME NEW j \in jobs, Prepare(j) \/ Generate(j) \/ GenerateFails(j)
          PROVE  row' = row \/ \E i, s : s # "batched" /\ row' = [row EXCEPT ![i] = s]
      BY <3>4 DEF Prepare, Generate, GenerateFails, SetRow
    <3>5. ASSUME NEW c \in Callers, Execute(c) PROVE row[m] = "batched"
      <4>1. row'[m] = row[m] \/ row'[m] = "ignored" BY <3>5, ExecuteRows
      <4>2. QED BY <4>1
    <3>6. \/ row' = row \/ \E i, s : s # "batched" /\ row' = [row EXCEPT ![i] = s]
          \/ \E c \in Callers : Execute(c)
      BY StepCases, <1>6, <3>2, <3>3, <3>4
         DEF vars, Redeliver, Route, Resume, Admit, Acquire, Release, RouteFails,
             IgnoreFails, ResumeFails, CommandFails, RecoverList, RecoverNext, RecoverDone,
             RecoverListFails, StartTurn, Crash, EndTurn, ReadInbox, EndRefill, ClaimBatchFails,
             PrepareFails, ReadInboxFails
    <3>7. QED BY <3>1, <3>5, <3>6
  <2>3. QED BY <2>1, <2>2, <1>4
<1>7. QED BY <1>5, <1>6

\* Whoever is batched has an anchor that is itself answered, failed, still to be
\* answered, batched into a later one, or ignored because of a reset or because
\* the policy does not want it (ClaimBatch, dispatcher.go runTurn).
THEOREM AnchorsHold == Spec => []BatchedHasAnAnchor
<1>1. Init => BInv
  <2>1. SUFFICES ASSUME Init PROVE BInv OBVIOUS
  <2>2. DoublesAreSeen BY <2>1 DEF Init, DoublesAreSeen, Twice, Elems
  <2>3. \A m \in Msgs : row[m] # "batched" BY <2>1 DEF Init
  <2>4. QED BY <2>2, <2>3 DEF BInv, AnchorsAreStored, BatchedHasAnAnchor
<1>2. ASSUME IInv, BInv, [Next]_vars PROVE BInv'
  <2>1. DoublesAreSeen' BY <1>2, DoublesStep DEF BInv
  <2>2. AnchorsAreStored' BY <1>2, AnchorStep DEF AnchorsAreStored
  <2>3. BatchedHasAnAnchor' BY <1>2, AnchorStep DEF BatchedHasAnAnchor, Anchors
  <2>4. QED BY <2>1, <2>2, <2>3 DEF BInv
<1>3. BInv => BatchedHasAnAnchor BY DEF BInv
<1>4. QED BY <1>1, <1>2, <1>3, InvariantHolds, PTL DEF Spec
-----------------------------------------------------------------------------
(* Messages are taken up in the order they arrived.                        *)

\* Messages that are still to be taken up and were not given up, and those that
\* have been taken up.
Waiting == {m \in Wanted : row[m] = "received" /\ m \notin dropped}
Taken == {m \in Wanted : row[m] \notin {"absent", "received", "ignored"}}
\* Whoever waits and a later message that has not been taken up yet.
Ahead ==
  {p \in Msgs \X Msgs :
     /\ p[1] \in Waiting /\ p[2] \in Wanted /\ row[p[2]] = "received"
     /\ Arrival(p[1]) < Arrival(p[2])}

\* The first of a pair of P is in base, or before the second in s.
InOrder(s, base, P) ==
  \A i \in 1..Len(s), p \in P :
    p[2] = s[i] => p[1] \in base \/ \E k \in 1..(i - 1) : s[k] = p[1]

JobElems(j) == Elems(j.batch) \cup Elems(j.redo) \cup Elems(j.rest)
\* What the goroutine j holds goes before the queue q.
InTurn(j, q, P) ==
  /\ InOrder(j.batch, {}, P) /\ InOrder(j.redo, {}, P)
  /\ InOrder(j.rest, Elems(j.batch) \cup Elems(j.redo), P)
  /\ InOrder(q, JobElems(j), P)

NobodyOvertaken == \A m \in Waiting, n \in Taken : ~(Arrival(m) < Arrival(n))
QueueInOrder ==
  /\ \A j \in jobs : InTurn(j, pending, Ahead)
  /\ jobs = {} => InOrder(pending, {}, Ahead)

\* A worker has the newest message and has yet to hand it to the queue.
AtDoor(c) == at[c] \in {"route", "resume", "admit"}
AtTheDoor(m) ==
  /\ \A n \in Elems(arrived) : Arrival(n) <= Arrival(m)
  /\ \E c \in Workers : AtDoor(c) /\ msg[c] = m
\* The reader j will list m, or m is behind its page.
ToList(j, m) ==
  \/ j.step = "read"
  \/ j.step = "append" /\ j.failed
  \/ /\ j.step = "append" /\ Len(j.batch) = MaxPending
     /\ \A n \in Elems(j.batch) : Arrival(n) < Arrival(m)
Placed(m) ==
  \/ AtTheDoor(m) \/ m \in Elems(pending) \/ overflow
  \/ \E j \in jobs : m \in JobElems(j) \/ ToList(j, m)
WaitingArePlaced == \A m \in Waiting : Placed(m)

OrderInv == crashes = 0 => NobodyOvertaken /\ QueueInOrder /\ WaitingArePlaced

\* One message at a time is on its way from the workers to the queue: so it is
\* with one worker.
OneAtTheDoor == \A c, d \in Workers : AtDoor(c) /\ AtDoor(d) => c = d

\* Less to ask, or more in front.
LEMMA InOrderWeaken ==
  ASSUME NEW S, NEW s \in Seq(S), NEW base, NEW more2, NEW P, NEW Q, InOrder(s, base, P),
         \A p \in Q : p[2] \in Elems(s) => p \in P,
         \A p \in Q : p[1] \in base => p[1] \in more2
  PROVE  InOrder(s, more2, Q)
<1>1. \A i \in 1..Len(s) : s[i] \in Elems(s) BY DEF Elems
<1>2. QED BY <1>1 DEF InOrder

LEMMA InOrderEmpty == ASSUME NEW base, NEW P PROVE InOrder(<<>>, base, P)
  BY DEF InOrder

\* One sequence after another.
LEMMA InOrderConcat ==
  ASSUME NEW S, NEW s \in Seq(S), NEW t \in Seq(S), NEW base, NEW P,
         InOrder(s, base, P), InOrder(t, base \cup Elems(s), P)
  PROVE  InOrder(s \o t, base, P)
<1>1. /\ Len(s) \in Nat /\ Len(t) \in Nat /\ Len(s \o t) = Len(s) + Len(t)
      /\ \A i \in 1..Len(s) : (s \o t)[i] = s[i]
      /\ \A i \in 1..Len(t) : (s \o t)[Len(s) + i] = t[i]
  OBVIOUS
<1> DEFINE u == s \o t
<1> HIDE DEF u
<1>2. SUFFICES ASSUME NEW i \in 1..(Len(s) + Len(t)), NEW p \in P, p[2] = u[i], p[1] \notin base
               PROVE  \E k \in 1..(i - 1) : u[k] = p[1]
  <2>1. Len(u) = Len(s) + Len(t) BY <1>1 DEF u
  <2>2. QED BY <1>2, <2>1 DEF InOrder, u
<1>3. CASE i \in 1..Len(s)
  <2>1. p[2] = s[i] BY <1>1, <1>2, <1>3 DEF u
  <2>2. PICK k \in 1..(i - 1) : s[k] = p[1] BY <2>1, <1>2, <1>3 DEF InOrder
  <2>3. k \in 1..Len(s) BY <1>1, <1>3
  <2>4. u[k] = p[1] BY <1>1, <2>2, <2>3 DEF u
  <2>5. QED BY <2>2, <2>4
<1>4. CASE i \notin 1..Len(s)
  <2>1. PICK j \in 1..Len(t) : i = Len(s) + j
    <3>1. i - Len(s) \in 1..Len(t) /\ i = Len(s) + (i - Len(s)) BY <1>1, <1>4
    <3>2. QED BY <3>1
  <2>2. p[2] = t[j] BY <1>1, <1>2, <2>1 DEF u
  <2>3. p[1] \in Elems(s) \/ \E k \in 1..(j - 1) : t[k] = p[1] BY <1>2, <2>2 DEF InOrder
  <2>4. CASE p[1] \in Elems(s)
    <3>1. PICK k \in 1..Len(s) : s[k] = p[1] BY <1>1, <2>4 DEF Elems
    <3>2. k \in 1..(i - 1) BY <1>1, <2>1, <3>1
    <3>3. u[k] = p[1] BY <1>1, <3>1 DEF u
    <3>4. QED BY <3>2, <3>3
  <2>5. CASE \E k \in 1..(j - 1) : t[k] = p[1]
    <3>1. PICK k \in 1..(j - 1) : t[k] = p[1] BY <2>5
    <3>2. k \in 1..Len(t) /\ Len(s) + k \in 1..(i - 1) BY <1>1, <2>1, <3>1
    <3>3. u[Len(s) + k] = p[1] BY <1>1, <3>1, <3>2 DEF u
    <3>4. QED BY <3>2, <3>3
  <2>6. QED BY <2>3, <2>4, <2>5
<1>5. QED BY <1>3, <1>4

\* The front of a sequence goes before its back.
LEMMA InOrderCut ==
  ASSUME NEW S, NEW s \in Seq(S), NEW n \in 0..Len(s), NEW base, NEW P, InOrder(s, base, P)
  PROVE  /\ InOrder(SubSeq(s, 1, n), base, P)
         /\ InOrder(SubSeq(s, n + 1, Len(s)), base \cup Elems(SubSeq(s, 1, n)), P)
<1> DEFINE f == SubSeq(s, 1, n)
           b == SubSeq(s, n + 1, Len(s))
<1>1. /\ Len(s) \in Nat /\ Len(f) = n /\ Len(b) = Len(s) - n /\ f \in Seq(S)
      /\ \A i \in 1..n : f[i] = s[i]
      /\ \A i \in 1..(Len(s) - n) : b[i] = s[n + i]
  BY ElemsCut
<1> HIDE DEF f, b
<1>2. DOMAIN f = 1..n BY <1>1
<1>3. ASSUME NEW i \in 1..n, NEW p \in P, p[2] = f[i], p[1] \notin base
      PROVE  \E k \in 1..(i - 1) : f[k] = p[1]
  <2>1. i \in 1..Len(s) /\ p[2] = s[i] BY <1>1, <1>3
  <2>2. PICK k \in 1..(i - 1) : s[k] = p[1] BY <2>1, <1>3 DEF InOrder
  <2>3. k \in 1..n BY <1>1
  <2>4. QED BY <1>1, <2>2, <2>3
<1>4. ASSUME NEW i \in 1..(Len(s) - n), NEW p \in P, p[2] = b[i], p[1] \notin base,
             p[1] \notin Elems(f)
      PROVE  \E k \in 1..(i - 1) : b[k] = p[1]
  <2>1. n + i \in 1..Len(s) /\ p[2] = s[n + i] BY <1>1, <1>4
  <2>2. PICK k \in 1..(n + i - 1) : s[k] = p[1]
    <3>1. PICK x \in 1..Len(s) : x = n + i BY <2>1
    <3>2. \E k \in 1..(x - 1) : s[k] = p[1] BY <2>1, <3>1, <1>4 DEF InOrder
    <3>3. QED BY <3>1, <3>2
  <2>3. k \notin 1..n
    <3>1. \A l \in 1..n : s[l] \in Elems(f) BY <1>1, <1>2 DEF Elems
    <3>2. QED BY <3>1, <2>2, <1>4
  <2>4. k - n \in 1..(i - 1) /\ k - n \in 1..(Len(s) - n) /\ n + (k - n) = k BY <1>1, <2>3
  <2>5. b[k - n] = p[1] BY <1>1, <2>2, <2>4
  <2>6. QED BY <2>4, <2>5
<1>5. InOrder(f, base, P) BY <1>1, <1>3 DEF InOrder
<1>6. InOrder(b, base \cup Elems(f), P) BY <1>1, <1>4 DEF InOrder
<1>7. QED BY <1>5, <1>6 DEF f, b

\* Leaving out messages that wait for nothing and nobody waits for.
LEMMA InOrderFilter ==
  ASSUME NEW S, NEW s \in Seq(S), NEW T, NEW base, NEW P, InOrder(s, base, P),
         \A p \in P : p[1] \in T
  PROVE  InOrder(Filter(s, T), base, P)
<1> DEFINE t == Filter(s, T)
<1>1. Len(s) \in Nat OBVIOUS
<1>2. PICK h : Picks(s, T, Len(s), t, h) BY <1>1, FilterPicks
<1> HIDE DEF t
<1>3. /\ Len(t) \in Nat /\ \A i \in 1..Len(t) : h[i] \in 1..Len(s) /\ t[i] = s[h[i]]
      /\ \A i, j \in 1..Len(t) : i < j => h[i] < h[j]
      /\ \A k \in 1..Len(s) : s[k] \in T => \E i \in 1..Len(t) : h[i] = k
  BY <1>2 DEF Picks
<1>4. ASSUME NEW i \in 1..Len(t), NEW p \in P, p[2] = t[i], p[1] \notin base
      PROVE  \E k \in 1..(i - 1) : t[k] = p[1]
  <2>1. h[i] \in 1..Len(s) /\ p[2] = s[h[i]] BY <1>3, <1>4
  <2>2. PICK k \in 1..(h[i] - 1) : s[k] = p[1] BY <2>1, <1>4 DEF InOrder
  <2>3. k \in 1..Len(s) /\ k < h[i] BY <1>1, <2>1
  <2>4. PICK l \in 1..Len(t) : h[l] = k BY <1>3, <2>2, <2>3
  <2>5. ~(i < l) /\ i # l
    <3>1. i < l => h[i] < h[l] BY <1>3
    <3>2. QED BY <3>1, <2>1, <2>3, <2>4
  <2>6. l \in 1..(i - 1) BY <1>3, <2>5
  <2>7. QED BY <2>2, <2>4, <2>6, <1>3
<1>5. QED BY <1>4 DEF InOrder, t

\* Stored messages of which the first is unfinished and arrived before the second.
Pairs ==
  {p \in Elems(arrived) \X Elems(arrived) :
     row[p[1]] \in Unfinished /\ Arrival(p[1]) < Arrival(p[2])}

\* listUnfinished leaves out no unfinished row that arrived before one it returns.
LEMMA PageInOrder ==
  ASSUME TypeOK, InboxIsSound
  PROVE  InOrder(UnfinishedAfter(0), {}, Pairs)
<1> DEFINE T == {m \in Msgs : row[m] \in Unfinished /\ Arrival(m) > 0}
           rows == Filter(arrived, T)
<1>1. /\ arrived \in Seq(Msgs) /\ Len(arrived) \in Nat /\ DOMAIN arrived = 1..Len(arrived)
      /\ MaxPending \in Nat
  BY Sizes DEF TypeOK, InboxTypeOK
<1>2. ASSUME NEW p \in Pairs
      PROVE  /\ p[1] \in Msgs /\ row[p[1]] \in Unfinished
             /\ Arrival(p[1]) \in 1..Len(arrived) /\ arrived[Arrival(p[1])] = p[1]
             /\ Arrival(p[1]) < Arrival(p[2])
  BY <1>1, ArrivalIs, ElemsIn DEF Pairs
<1>3. InOrder(arrived, {}, Pairs)
  <2>1. ASSUME NEW i \in 1..Len(arrived), NEW p \in Pairs, p[2] = arrived[i]
        PROVE  \E k \in 1..(i - 1) : arrived[k] = p[1]
    <3>1. Arrival(p[2]) = i BY <1>1, <2>1, ArrivalOf
    <3>2. Arrival(p[1]) \in 1..(i - 1) BY <1>2, <3>1, <1>1
    <3>3. QED BY <1>2, <3>2
  <2>2. QED BY <2>1 DEF InOrder
<1>4. \A p \in Pairs : p[1] \in T BY <1>2
<1>5. T \subseteq Msgs OBVIOUS
<1> HIDE DEF T
<1>6. InOrder(rows, {}, Pairs) BY <1>1, <1>3, <1>4, InOrderFilter
<1>7. rows \in Seq(Msgs) BY <1>1, <1>5, FilterElems
<1>8. UnfinishedAfter(0) = IF Len(rows) > MaxPending THEN SubSeq(rows, 1, MaxPending) ELSE rows
  BY DEF UnfinishedAfter, T
<1> HIDE DEF rows
<1>9. CASE Len(rows) > MaxPending
  <2>1. MaxPending \in 0..Len(rows) BY <1>1, <1>7, <1>9
  <2>2. InOrder(SubSeq(rows, 1, MaxPending), {}, Pairs) BY <1>6, <1>7, <2>1, InOrderCut
  <2>3. QED BY <1>8, <1>9, <2>2
<1>10. QED BY <1>6, <1>8, <1>9

\* What Ahead is about.
LEMMA AheadIs ==
  ASSUME IInv, NEW p \in Ahead
  PROVE  /\ p[1] \in Waiting /\ p[1] \in Msgs /\ p[1] \in Elems(arrived) /\ row[p[1]] = "received"
         /\ p[2] \in Wanted /\ p[2] \in Msgs /\ p[2] \in Elems(arrived) /\ row[p[2]] = "received"
         /\ p[1] \notin Commands /\ p \in Pairs
         /\ Arrival(p[1]) < Arrival(p[2])
         /\ Arrival(p[1]) \in 1..Len(arrived) /\ Arrival(p[2]) \in 1..Len(arrived)
<1>1. /\ p \in Msgs \X Msgs /\ p[1] \in Waiting /\ p[2] \in Wanted /\ row[p[2]] = "received"
      /\ Arrival(p[1]) < Arrival(p[2])
  BY DEF Ahead
<1>2. p[1] \in Wanted /\ row[p[1]] = "received" BY <1>1 DEF Waiting
<1>3. p[1] \in Elems(arrived) /\ p[2] \in Elems(arrived)
  BY <1>1, <1>2 DEF IInv, InboxIsSound
<1>4. Arrival(p[1]) \in 1..Len(arrived) /\ Arrival(p[2]) \in 1..Len(arrived)
  BY <1>3, ArrivalIs DEF IInv, TypeOK, InboxTypeOK
<1>5. p \in Pairs BY <1>1, <1>2, <1>3 DEF Pairs, Unfinished
<1>6. QED BY <1>1, <1>2, <1>3, <1>4, <1>5, KindsDiffer

\* A stored message that waits has waited before, unless the process died.
LEMMA WaitingStep ==
  ASSUME IInv, [Next]_vars, crashes' = 0, NEW m \in Waiting', m \in Elems(arrived)
  PROVE  m \in Waiting
<1>1. m \in Wanted /\ row'[m] = "received" /\ m \notin dropped' /\ m \in Msgs \ Commands
  BY KindStep, KindsDiffer DEF Waiting, IInv, Wanted
<1>2. row[m] # "absent" BY <1>1 DEF IInv, InboxIsSound
<1>3. row[m] = "received"
  <2>1. RowMoves(m) BY <1>1, RowStep
  <2>2. QED BY <2>1, <1>1, <1>2 DEF RowMoves
<1>4. dropped \subseteq dropped'
  <2>1. ~Crash
    <3>1. crashes \in Nat BY DEF IInv, TypeOK, SeenTypeOK
    <3>2. QED BY <3>1 DEF Crash
  <2> USE DEF inbox, queue, flags, lock, recovery, seen, counters
  <2>2. QED
    BY <2>1, StepCases
       DEF vars, Deliver, Redeliver, Route, Ignore, Resume, Admit, Acquire, Check, Execute, Close,
           Release, RouteFails, IgnoreFails, ResumeFails, CommandFails, Fails, RecoverList,
           RecoverNext, RecoverDone, RecoverListFails, StartTurn, ClaimBatch, Prepare, Generate,
           EndTurn, ReadInbox, EndRefill, ClaimBatchFails, PrepareFails, GenerateFails,
           ReadInboxFails
<1>5. QED BY <1>1, <1>3, <1>4 DEF Waiting

\* So does whoever is ahead of a stored message.
LEMMA AheadStep ==
  ASSUME IInv, [Next]_vars, crashes' = 0, NEW p \in Ahead', p[2] \in Elems(arrived)
  PROVE  p \in Ahead
<1>1. IInv' BY NextHolds
<1>2. /\ p \in Msgs \X Msgs /\ p[1] \in Waiting' /\ p[2] \in Wanted /\ row'[p[2]] = "received"
      /\ Arrival(p[1])' < Arrival(p[2])'
  BY KindStep DEF Ahead, IInv
<1>3. p[1] \in Msgs /\ p[2] \in Msgs /\ row'[p[1]] = "received" BY <1>2 DEF Waiting
<1>4. p[1] \in Elems(arrived)'
  BY <1>1, <1>3 DEF IInv, InboxIsSound
<1>5. p[1] \in Elems(arrived)
  <2> SUFFICES ASSUME p[1] \notin Elems(arrived) PROVE FALSE OBVIOUS
  <2>1. PICK m \in Msgs : arrived' = Append(arrived, m)
    <3>1. arrived' # arrived BY <1>4 DEF Elems
    <3>2. QED BY <3>1, KindStep DEF IInv
  <2>2. arrived \in Seq(Msgs) /\ Len(arrived) \in Nat BY DEF IInv, TypeOK, InboxTypeOK
  <2>3. Elems(Append(arrived, m)) = Elems(arrived) \cup {m} BY <2>2, ElemsAppend
  <2>4. p[1] = m
    <3>1. Elems(arrived)' = Elems(arrived') BY DEF Elems
    <3>2. QED BY <1>4, <2>1, <2>3, <3>1
  <2>5. Len(arrived) + 1 \in DOMAIN arrived' /\ arrived'[Len(arrived) + 1] = m BY <2>1, <2>2
  <2>6. Arrival(m)' = Len(arrived) + 1
    <3>1. \A i, k \in DOMAIN arrived' : arrived'[i] = arrived'[k] => i = k
      BY <1>1 DEF IInv, InboxIsSound
    <3>2. QED BY <2>5, <3>1 DEF Arrival
  <2>7. Arrival(p[2])' \in 1..Len(arrived) BY ArrivalStays
  <2>8. QED BY <1>2, <2>2, <2>4, <2>6, <2>7
<1>6. p[1] \in Waiting BY <1>2, <1>5, WaitingStep
<1>7. Arrival(p[1])' = Arrival(p[1]) /\ Arrival(p[2])' = Arrival(p[2]) BY <1>5, ArrivalStays
<1>8. row[p[2]] = "received"
  <2>1. RowMoves(p[2]) BY <1>2, <1>3, KindsDiffer, RowStep
  <2>2. row[p[2]] # "absent" BY <1>3 DEF IInv, InboxIsSound
  <2>3. QED BY <2>1, <2>2, <1>2 DEF RowMoves
<1>9. QED BY <1>2, <1>6, <1>7, <1>8 DEF Ahead

\* An order that held holds for what still waits.
LEMMA OrderStays ==
  ASSUME IInv, [Next]_vars, crashes' = 0, NEW s \in Seq(Msgs), Elems(s) \subseteq Elems(arrived),
         NEW base, NEW more2, InOrder(s, base, Ahead),
         \A m \in Waiting' : m \in base => m \in more2
  PROVE  InOrder(s, more2, Ahead')
<1> DEFINE P == Ahead
           Q == Ahead'
<1>1. \A p \in Q : p[2] \in Elems(s) => p \in P BY AheadStep
<1>2. \A p \in Q : p[1] \in base => p[1] \in more2 BY DEF Ahead
<1>3. InOrder(s, base, P) OBVIOUS
<1> HIDE DEF P, Q
<1>4. InOrder(s, more2, Q) BY <1>1, <1>2, <1>3, InOrderWeaken
<1>5. QED BY <1>4 DEF Q

LEMMA InTurnStays ==
  ASSUME IInv, [Next]_vars, crashes' = 0, NEW j \in jobs, InTurn(j, pending, Ahead)
  PROVE  InTurn(j, pending, Ahead')
<1>1. /\ j.batch \in Seq(Msgs) /\ j.rest \in Seq(Msgs) /\ j.redo \in Seq(Msgs)
      /\ pending \in Seq(Msgs)
  BY TheJob DEF IInv, TypeOK, QueueTypeOK
<1>2. /\ Elems(j.batch) \subseteq Elems(arrived) /\ Elems(j.rest) \subseteq Elems(arrived)
      /\ Elems(j.redo) \subseteq Elems(arrived) /\ Elems(pending) \subseteq Elems(arrived)
  BY TheJob DEF HoldsQueueable, Queueable, IInv, JobsAreSound
<1>3. InOrder(j.batch, {}, Ahead') BY <1>1, <1>2, OrderStays DEF InTurn
<1>4. InOrder(j.redo, {}, Ahead') BY <1>1, <1>2, OrderStays DEF InTurn
<1>5. InOrder(j.rest, Elems(j.batch) \cup Elems(j.redo), Ahead')
  BY <1>1, <1>2, OrderStays DEF InTurn
<1>6. InOrder(pending, JobElems(j), Ahead') BY <1>1, <1>2, OrderStays DEF InTurn
<1>7. QED BY <1>3, <1>4, <1>5, <1>6 DEF InTurn

\* Only a turn writes the row of a stored message the policy wants, and a reset that
\* cancels one.
LEMMA QuietRows ==
  ASSUME IInv, [Next]_vars, NEW m \in Wanted, m \in Elems(arrived),
         \A j \in jobs : ~(ClaimBatch(j) \/ Prepare(j) \/ Generate(j) \/ GenerateFails(j))
  PROVE  row'[m] = row[m] \/ (Started(m) /\ row'[m] = "ignored")
<1> USE DEF inbox, queue, flags, lock, recovery, seen, counters
<1>1. row \in [Msgs -> RowStates] /\ m \in Msgs \ Commands /\ m \notin Unwanted /\ row[m] # "absent"
  BY KindsDiffer DEF IInv, TypeOK, InboxTypeOK, Wanted, InboxIsSound
<1>2. CASE row' = row BY <1>2
<1>3. ASSUME NEW c \in Workers, NEW n \in Msgs, Deliver(c, n) PROVE row'[m] = row[m]
  BY <1>1, <1>3 DEF Deliver
<1>4. ASSUME NEW c \in Callers, Ignore(c) PROVE row'[m] = row[m]
  <2>1. at[c] = "ignore" BY <1>4 DEF Ignore
  <2>2. msg[c] \in Unwanted BY <2>1 DEF IInv, CallersAreSound
  <2>3. QED BY <1>1, <1>4, <2>2 DEF Ignore, SetRow
<1>5. ASSUME NEW c \in Callers, Check(c) \/ Close(c) PROVE row'[m] = row[m]
  <2>1. at[c] \in {"check", "close"} BY <1>5 DEF Check, Close
  <2>2. msg[c] \in Commands BY <2>1 DEF IInv, CallersAreSound, InCommand, CommandSteps
  <2>3. m # msg[c] BY <1>1, <2>2
  <2>4. QED BY <1>1, <1>5, <2>3 DEF Check, Close, SetRow
<1>6. QED
  BY StepCases, <1>1, <1>2, <1>3, <1>4, <1>5, ExecuteRows
     DEF vars, Redeliver, Route, Resume, Admit, Acquire, Release, RouteFails,
         IgnoreFails, ResumeFails, CommandFails, RecoverList, RecoverNext, RecoverDone,
         RecoverListFails, StartTurn, Crash, EndTurn, ReadInbox, EndRefill, ClaimBatchFails,
         PrepareFails, ReadInboxFails

\* A message that was just stored is the newest, and a worker has it.
LEMMA NewAtTheDoor ==
  ASSUME IInv, [Next]_vars, NEW m \in Waiting', m \notin Elems(arrived)
  PROVE  AtTheDoor(m)'
<1>1. IInv' BY NextHolds
<1>2. m \in Msgs /\ row'[m] = "received" BY DEF Waiting, Wanted
<1>3. m \in Elems(arrived)' BY <1>1, <1>2 DEF IInv, InboxIsSound
<1>4. arrived' # arrived BY <1>3 DEF Elems
<1> USE DEF inbox, queue, flags, lock, recovery, seen, counters
<1>5. PICK c \in Workers, n \in Msgs : Deliver(c, n)
  BY StepCases, <1>4
     DEF vars, Redeliver, Route, Ignore, Resume, Admit, Acquire, Check, Execute, Close, Release,
         RouteFails, IgnoreFails, ResumeFails, CommandFails, RecoverList, RecoverNext,
         RecoverDone, RecoverListFails, StartTurn, Crash, ClaimBatch, Prepare, Generate, EndTurn,
         ReadInbox, EndRefill, ClaimBatchFails, PrepareFails, GenerateFails, ReadInboxFails
<1>6. arrived \in Seq(Msgs) /\ Len(arrived) \in Nat /\ arrived' = Append(arrived, n)
  BY <1>5 DEF Deliver, IInv, TypeOK, InboxTypeOK
<1>7. n = m
  <2>1. Elems(Append(arrived, n)) = Elems(arrived) \cup {n} BY <1>6, ElemsAppend
  <2>2. Elems(arrived)' = Elems(arrived') BY DEF Elems
  <2>3. QED BY <1>3, <1>6, <2>1, <2>2
<1>8. at'[c] = "route" /\ msg'[c] = m
  BY <1>5, <1>7 DEF Deliver, IInv, TypeOK, CallersTypeOK, Callers
<1>9. Arrival(m)' = Len(arrived) + 1
  <2>1. Len(arrived) + 1 \in DOMAIN arrived' /\ arrived'[Len(arrived) + 1] = m BY <1>6, <1>7
  <2>2. \A i, k \in DOMAIN arrived' : arrived'[i] = arrived'[k] => i = k
    BY <1>1 DEF IInv, InboxIsSound
  <2>3. QED BY <2>1, <2>2 DEF Arrival
<1>10. ASSUME NEW x \in Elems(arrived)' PROVE Arrival(x)' <= Arrival(m)'
  <2>1. Arrival(x)' \in DOMAIN arrived'
    <3>1. PICK i \in DOMAIN arrived' : arrived'[i] = x BY DEF Elems
    <3>2. Arrival(x)' = i
      <4>1. \A l, k \in DOMAIN arrived' : arrived'[l] = arrived'[k] => l = k
        BY <1>1 DEF IInv, InboxIsSound
      <4>2. QED BY <3>1, <4>1 DEF Arrival
    <3>3. QED BY <3>1, <3>2
  <2>2. DOMAIN arrived' = 1..(Len(arrived) + 1) BY <1>6
  <2>3. QED BY <1>6, <1>9, <2>1, <2>2
<1>11. QED BY <1>8, <1>10 DEF AtTheDoor, AtDoor

\* It stays there until it is handed over, and no later message is stored before.
LEMMA DoorStays ==
  ASSUME IInv, [Next]_vars, crashes' = 0, OneAtTheDoor', NEW m \in Waiting', m \in Elems(arrived),
         AtTheDoor(m)
  PROVE  AtTheDoor(m)' \/ m \in Elems(pending') \/ overflow'
<1> USE DEF inbox, queue, flags, lock, recovery, seen, counters
<1>1. /\ m \in Waiting /\ m \in Wanted /\ row[m] = "received" /\ m \notin dropped'
      /\ m \notin Commands /\ m \notin Unwanted /\ m \in Msgs
  BY WaitingStep, KindsDiffer DEF Waiting, Wanted
<1>2. PICK c \in Workers : AtDoor(c) /\ msg[c] = m BY DEF AtTheDoor
<1>3. /\ at \in [Callers -> CallerSteps] /\ msg \in [Callers -> Msgs \cup {NoMsg}] /\ c \in Callers
      /\ c # Recoverer /\ pending \in Seq(Msgs)
  BY CallersDiffer DEF IInv, TypeOK, CallersTypeOK, QueueTypeOK, Callers
<1>4. ~Crash
  <2>1. crashes \in Nat BY DEF IInv, TypeOK, SeenTypeOK
  <2>2. QED BY <2>1 DEF Crash
<1>5. CASE AtDoor(c)' /\ msg'[c] = m
  <2>1. arrived' = arrived
    <3>a. SUFFICES ASSUME arrived' # arrived PROVE FALSE OBVIOUS
    <3>1. PICK d \in Workers, n \in Msgs : Deliver(d, n)
      BY StepCases, <3>a
         DEF vars, Redeliver, Route, Ignore, Resume, Admit, Acquire, Check, Execute, Close,
             Release, RouteFails, IgnoreFails, ResumeFails, CommandFails, RecoverList,
             RecoverNext, RecoverDone, RecoverListFails, StartTurn, Crash, ClaimBatch, Prepare,
             Generate, EndTurn, ReadInbox, EndRefill, ClaimBatchFails, PrepareFails,
             GenerateFails, ReadInboxFails
    <3>2. at[d] = "idle" /\ at'[d] = "route" /\ d \in Callers
      BY <3>1, <1>3 DEF Deliver, Callers
    <3>3. d = c BY <3>2, <1>5 DEF OneAtTheDoor, AtDoor
    <3>4. QED BY <3>2, <3>3, <1>2 DEF AtDoor
  <2>2. ASSUME NEW n \in Elems(arrived)' PROVE Arrival(n)' <= Arrival(m)'
    <3>1. n \in Elems(arrived) BY <2>1 DEF Elems
    <3>2. Arrival(n) <= Arrival(m) BY <3>1 DEF AtTheDoor
    <3>3. QED BY <3>1, <3>2, ArrivalStays
  <2>3. QED BY <1>5, <2>2 DEF AtTheDoor
<1>6. CASE Admit(c)
  <2>1. \/ msg[c] \in Elems(pending) /\ pending' = pending
        \/ overflow'
        \/ pending' = Append(pending, msg[c])
    BY <1>6 DEF Admit
  <2>2. Elems(Append(pending, m)) = Elems(pending) \cup {m} BY <1>1, <1>3, ElemsAppend
  <2>3. QED BY <2>1, <2>2, <1>2
<1>7. ASSUME ~Admit(c) PROVE AtDoor(c)' /\ msg'[c] = m
  <2>1. ASSUME NEW d \in Callers, d # c,
               \/ Route(d) \/ Ignore(d) \/ Resume(d) \/ Admit(d)
               \/ Acquire(d) \/ Check(d) \/ Execute(d) \/ Close(d) \/ Release(d)
               \/ RouteFails(d) \/ IgnoreFails(d) \/ ResumeFails(d) \/ CommandFails(d)
        PROVE  at'[c] = at[c] /\ msg'[c] = msg[c]
    <3>1. \E step : at' = [at EXCEPT ![d] = step]
      BY <2>1 DEF Route, Ignore, Resume, Admit, Acquire, Check, Execute, Close, Release,
                  RouteFails, IgnoreFails, ResumeFails, CommandFails, Fails, Leave, Move
    <3>2. msg' = msg \/ msg' = [msg EXCEPT ![d] = NoMsg]
      BY <2>1 DEF Route, Ignore, Resume, Admit, Acquire, Check, Execute, Close, Release,
                  RouteFails, IgnoreFails, ResumeFails, CommandFails, Fails, Leave, Move
    <3>3. QED BY <3>1, <3>2, <2>1, <1>3
  <2>2. CASE Route(c)
    <3>1. at' = [at EXCEPT ![c] = "resume"] /\ msg' = msg BY <2>2, <1>1, <1>2 DEF Route, Move
    <3>2. QED BY <3>1, <1>2, <1>3 DEF AtDoor
  <2>3. CASE Resume(c)
    <3>1. at' = [at EXCEPT ![c] = "admit"] /\ msg' = msg BY <2>3, <1>1, <1>2 DEF Resume, Move
    <3>2. QED BY <3>1, <1>2, <1>3 DEF AtDoor
  <2>4. ~(RouteFails(c) \/ ResumeFails(c))
    BY <1>1, <1>2, <1>3 DEF RouteFails, ResumeFails, Fails
  <2>5. ~(Ignore(c) \/ Acquire(c) \/ Check(c) \/ Execute(c) \/ Close(c) \/ Release(c)
          \/ IgnoreFails(c) \/ CommandFails(c))
    BY <1>2 DEF AtDoor, Ignore, Acquire, Check, Execute, Close, Release, IgnoreFails, CommandFails
  <2>6. ASSUME NEW d \in Workers, NEW n \in Msgs, Deliver(d, n) \/ Redeliver(d, n)
        PROVE  at'[c] = at[c] /\ msg'[c] = msg[c]
    <3>1. at[d] = "idle" /\ at' = [at EXCEPT ![d] = "route"] /\ msg' = [msg EXCEPT ![d] = n]
      BY <2>6 DEF Deliver, Redeliver
    <3>2. d # c BY <3>1, <1>2 DEF AtDoor
    <3>3. QED BY <3>1, <3>2, <1>3
  <2>7. CASE RecoverNext
    <3>1. at'[c] = at[c] /\ msg'[c] = msg[c] BY <2>7, <1>3 DEF RecoverNext
    <3>2. QED BY <3>1, <1>2 DEF AtDoor
  <2>8. CASE at' = at /\ msg' = msg BY <2>8, <1>2 DEF AtDoor
  <2>9. CASE \E d \in Callers :
              \/ Route(d) \/ Ignore(d) \/ Resume(d) \/ Admit(d)
              \/ Acquire(d) \/ Check(d) \/ Execute(d) \/ Close(d) \/ Release(d)
              \/ RouteFails(d) \/ IgnoreFails(d) \/ ResumeFails(d) \/ CommandFails(d)
    <3>1. PICK d \in Callers :
              \/ Route(d) \/ Ignore(d) \/ Resume(d) \/ Admit(d)
              \/ Acquire(d) \/ Check(d) \/ Execute(d) \/ Close(d) \/ Release(d)
              \/ RouteFails(d) \/ IgnoreFails(d) \/ ResumeFails(d) \/ CommandFails(d)
      BY <2>9
    <3>2. CASE d = c BY <3>1, <3>2, <1>7, <2>2, <2>3, <2>4, <2>5
    <3>3. CASE d # c BY <3>1, <3>3, <2>1, <1>2 DEF AtDoor
    <3>4. QED BY <3>2, <3>3
  <2>10. CASE \E d \in Workers, n \in Msgs : Deliver(d, n) \/ Redeliver(d, n)
    BY <2>10, <2>6, <1>2 DEF AtDoor
  <2>11. QED
    BY StepCases, <1>4, <2>7, <2>8, <2>9, <2>10
       DEF vars, RecoverList, RecoverDone, RecoverListFails, StartTurn, ClaimBatch, Prepare,
           Generate, EndTurn, ReadInbox, EndRefill, ClaimBatchFails, PrepareFails,
           GenerateFails, ReadInboxFails
<1>8. QED BY <1>5, <1>6, <1>7

\* The reader that will list a message, or has it behind its page, still will.
LEMMA ToListStays ==
  ASSUME IInv, [Next]_vars, NEW m \in Elems(arrived), NEW j \in jobs, ToList(j, m)
  PROVE  ToList(j, m)'
<1>1. Elems(j.batch) \subseteq Elems(arrived) BY TheJob DEF HoldsQueueable
<1>2. \A n \in Elems(j.batch) : Arrival(n)' = Arrival(n) BY <1>1, ArrivalStays
<1>3. Arrival(m)' = Arrival(m) BY ArrivalStays
<1>4. QED BY <1>2, <1>3 DEF ToList, Elems

\* Where a message is once the step is done.
LEMMA PlacedNext ==
  ASSUME NEW m
  PROVE  Placed(m)' <=>
           \/ AtTheDoor(m)' \/ m \in Elems(pending') \/ overflow'
           \/ \E j \in jobs' : m \in JobElems(j) \/ ToList(j, m)'
<1>1. Elems(pending)' = Elems(pending') BY DEF Elems
<1>2. (\E j \in jobs : m \in JobElems(j) \/ ToList(j, m))'
        <=> \E j \in jobs' : m \in JobElems(j) \/ ToList(j, m)'
  BY DEF JobElems, Elems, ToList
<1>3. QED BY <1>1, <1>2 DEF Placed

\* What a step has to do for a message that waits.
LEMMA PlacedStays ==
  ASSUME IInv, [Next]_vars, crashes' = 0, OneAtTheDoor', NEW m \in Waiting', m \in Elems(arrived),
         Placed(m),
         m \in Elems(pending) => m \in Elems(pending') \/ Placed(m)',
         overflow => overflow' \/ Placed(m)',
         jobs \subseteq jobs' \/ \A j \in jobs : m \in JobElems(j) \/ ToList(j, m) => Placed(m)'
  PROVE  Placed(m)'
<1>1. CASE AtTheDoor(m)
  <2>1. AtTheDoor(m)' \/ m \in Elems(pending') \/ overflow' BY <1>1, DoorStays
  <2>2. QED BY <2>1, PlacedNext
<1>2. CASE m \in Elems(pending) BY <1>2, PlacedNext
<1>3. CASE overflow BY <1>3, PlacedNext
<1>4. CASE \E j \in jobs : m \in JobElems(j) \/ ToList(j, m)
  <2>1. PICK j \in jobs : m \in JobElems(j) \/ ToList(j, m) BY <1>4
  <2>2. CASE j \in jobs'
    <3>1. m \in JobElems(j) \/ ToList(j, m)' BY <2>1, ToListStays
    <3>2. QED BY <2>2, <3>1, PlacedNext
  <2>3. CASE \A i \in jobs : m \in JobElems(i) \/ ToList(i, m) => Placed(m)' BY <2>1, <2>3
  <2>4. QED BY <2>2, <2>3
<1>5. QED BY <1>1, <1>2, <1>3, <1>4 DEF Placed

\* A step that leaves the queue and its goroutine alone.
LEMMA QuietOrder ==
  ASSUME IInv, [Next]_vars, crashes' = 0, OneAtTheDoor', QueueInOrder, WaitingArePlaced,
         UNCHANGED <<pending, jobs>>, overflow => overflow'
  PROVE  QueueInOrder' /\ WaitingArePlaced'
<1>1. ASSUME NEW j \in jobs PROVE InTurn(j, pending, Ahead')
  BY InTurnStays DEF QueueInOrder
<1>2. jobs = {} => InOrder(pending, {}, Ahead')
  <2>1. pending \in Seq(Msgs) /\ Elems(pending) \subseteq Elems(arrived)
    BY DEF IInv, TypeOK, QueueTypeOK, JobsAreSound, Queueable
  <2>2. QED BY <2>1, OrderStays DEF QueueInOrder
<1>3. QueueInOrder'
  <2>1. \A j \in jobs' : InTurn(j, pending', Ahead') BY <1>1
  <2>2. jobs' = {} => InOrder(pending', {}, Ahead') BY <1>2
  <2>3. QED BY <2>1, <2>2 DEF QueueInOrder, InTurn, InOrder, JobElems, Elems
<1>4. ASSUME NEW m \in Waiting' PROVE Placed(m)'
  <2>1. CASE m \notin Elems(arrived)
    <3>1. AtTheDoor(m)' BY <2>1, NewAtTheDoor
    <3>2. QED BY <3>1, PlacedNext
  <2>2. CASE m \in Elems(arrived)
    <3>1. Placed(m) BY <2>2, WaitingStep DEF WaitingArePlaced
    <3>2. Elems(pending') = Elems(pending) OBVIOUS
    <3>3. QED BY <2>2, <3>1, <3>2, PlacedStays
  <2>3. QED BY <2>1, <2>2
<1>5. QED BY <1>3, <1>4 DEF WaitingArePlaced

LEMMA QueueInOrderNext ==
  ASSUME \A j \in jobs' : InTurn(j, pending', Ahead'),
         jobs' = {} => InOrder(pending', {}, Ahead')
  PROVE  QueueInOrder'
BY DEF QueueInOrder, InTurn, InOrder, JobElems, Elems

\* The goroutine goes on and the queue stays.
LEMMA OneJobInOrder ==
  ASSUME IInv, [Next]_vars, crashes' = 0, OneAtTheDoor', WaitingArePlaced,
         UNCHANGED <<arrived, pending, overflow>>, NEW j \in jobs, NEW k, Replace(j, k),
         InTurn(k, pending, Ahead'),
         \A m \in Waiting' :
           m \in Elems(arrived) /\ (m \in JobElems(j) \/ ToList(j, m)) =>
             m \in JobElems(k) \/ ToList(k, m)'
  PROVE  QueueInOrder' /\ WaitingArePlaced'
<1>1. jobs = {j} /\ jobs' = {k} BY TheJob DEF Replace
<1>2. QueueInOrder'
  <2>1. \A i \in jobs' : InTurn(i, pending', Ahead') BY <1>1
  <2>2. QED BY <1>1, <2>1, QueueInOrderNext
<1>3. ASSUME NEW m \in Waiting' PROVE Placed(m)'
  <2>1. CASE m \notin Elems(arrived)
    <3>1. AtTheDoor(m)' BY <2>1, NewAtTheDoor
    <3>2. QED BY <3>1, PlacedNext
  <2>2. CASE m \in Elems(arrived)
    <3>1. Placed(m) BY <2>2, WaitingStep DEF WaitingArePlaced
    <3>2. Elems(pending') = Elems(pending) OBVIOUS
    <3>3. ASSUME NEW i \in jobs, m \in JobElems(i) \/ ToList(i, m) PROVE Placed(m)'
      <4>1. i = j BY <1>1
      <4>2. m \in JobElems(k) \/ ToList(k, m)' BY <2>2, <3>3, <4>1
      <4>3. QED BY <1>1, <4>2, PlacedNext
    <3>4. QED BY <2>2, <3>1, <3>2, <3>3, PlacedStays
  <2>3. QED BY <2>1, <2>2
<1>4. QED BY <1>2, <1>3 DEF WaitingArePlaced

\* What a claim leaves of the order: whoever waits before a message of the batch
\* is in the batch, and is claimed if it is in the part that was taken.
LEMMA ClaimKeepsOrder ==
  ASSUME IInv, [Next]_vars, crashes' = 0, NEW j \in jobs, j.step = "claim",
         InTurn(j, pending, Ahead),
         NEW taken \in Seq(Msgs), NEW claimed \in Seq(Msgs), NEW rest \in Seq(Msgs),
         ClaimTakes(j, taken, claimed, rest), UNCHANGED <<arrived, resetAt>>
  PROVE  /\ \A m \in Waiting' : m \in Elems(taken) => m \in Elems(claimed)
         /\ InOrder(claimed, {}, Ahead') /\ InOrder(rest, Elems(claimed), Ahead')
         /\ \A m \in Waiting, n \in Wanted :
              n \in Elems(Absorbed(claimed)) /\ Arrival(m) < Arrival(n) => m \notin Waiting'
<1>1. /\ Elems(j.batch) = Elems(taken) \cup Elems(rest)
      /\ Elems(claimed) = {m \in Elems(taken) : Fresh(m) \/ Started(m)}
      /\ \A m \in Elems(Absorbed(claimed)) : Fresh(m) /\ m \in Elems(claimed)
      /\ claimed # <<>> => Elems(claimed) = Elems(Absorbed(claimed)) \cup {Last(claimed)}
      /\ \A i \in DOMAIN claimed : Arrival(claimed[i]) <= Arrival(Last(claimed))
      /\ Ordered(claimed) /\ Ordered(rest)
      /\ \A m \in Elems(taken), n \in Elems(rest) : Arrival(m) <= Arrival(n)
      /\ row' = [m \in Msgs |->
                   IF m \in Elems(Absorbed(claimed)) THEN "batched"
                   ELSE IF m \in Elems(taken) /\ Stale(m) THEN "ignored" ELSE row[m]]
  BY DEF ClaimTakes
<1>2. /\ Elems(j.batch) \subseteq Elems(arrived) /\ j.batch \in Seq(Msgs)
      /\ Elems(j.batch) \cap Commands = {} /\ Wanted' = Wanted
  BY TheJob, KindStep DEF HoldsQueueable, Queueable, IInv
<1>3. ASSUME NEW m \in Waiting', m \in Elems(taken) PROVE m \in Elems(claimed)
  <2>1. m \in Msgs /\ row'[m] = "received" BY DEF Waiting, Wanted
  <2>2. row[m] = "received" /\ ~Stale(m) BY <1>1, <1>3, <2>1
  <2>3. Arrival(m) \in Int /\ resetAt \in Int
    <3>1. m \in Elems(arrived) BY <1>1, <1>2, <1>3
    <3>2. Arrival(m) \in 1..Len(arrived) /\ resetAt \in 0..Len(arrived)
      BY <3>1, ArrivalStays DEF IInv, TypeOK, InboxTypeOK
    <3>3. QED BY <3>2
  <2>4. Fresh(m) BY <2>2, <2>3 DEF Fresh, Stale
  <2>5. QED BY <1>1, <1>3, <2>4
<1>4. ASSUME NEW p \in Ahead, p[2] \in Elems(j.batch) PROVE p[1] \in Elems(j.batch)
  <2>1. Len(j.batch) \in Nat /\ DOMAIN j.batch = 1..Len(j.batch) BY <1>2
  <2>2. PICK i \in 1..Len(j.batch) : p[2] = j.batch[i] BY <1>4, <2>1 DEF Elems
  <2>3. PICK k \in 1..(i - 1) : j.batch[k] = p[1] BY <2>2 DEF InTurn, InOrder
  <2>4. k \in DOMAIN j.batch BY <2>1
  <2>5. QED BY <2>3, <2>4 DEF Elems
<1>5. ASSUME NEW p \in Ahead, p[2] \in Elems(claimed), p[1] \in Waiting'
      PROVE  p[1] \in Elems(claimed)
  <2>1. p[2] \in Elems(taken) BY <1>1, <1>5
  <2>2. p[1] \in Elems(taken) \cup Elems(rest) BY <1>1, <1>4, <2>1
  <2>3. p[1] \notin Elems(rest)
    <3>1. Arrival(p[1]) \in Int /\ Arrival(p[2]) \in Int /\ Arrival(p[1]) < Arrival(p[2])
      <4>1. /\ Arrival(p[1]) \in 1..Len(arrived) /\ Arrival(p[2]) \in 1..Len(arrived)
            /\ Arrival(p[1]) < Arrival(p[2])
        BY AheadIs
      <4>2. QED BY <4>1
    <3>2. p[1] \in Elems(rest) => Arrival(p[2]) <= Arrival(p[1]) BY <1>1, <2>1
    <3>3. QED BY <3>1, <3>2
  <2>4. QED BY <1>3, <1>5, <2>2, <2>3
<1>6. ASSUME NEW s \in Seq(Msgs), Ordered(s), NEW i \in 1..Len(s), NEW p \in Ahead, p[2] = s[i],
             p[1] \in Elems(s)
      PROVE  \E k \in 1..(i - 1) : s[k] = p[1]
  <2>1. Len(s) \in Nat /\ DOMAIN s = 1..Len(s) OBVIOUS
  <2>2. PICK k \in 1..Len(s) : s[k] = p[1] BY <1>6, <2>1 DEF Elems
  <2>3. Arrival(p[1]) \in Int /\ Arrival(p[2]) \in Int /\ Arrival(p[1]) < Arrival(p[2])
    <3>1. /\ Arrival(p[1]) \in 1..Len(arrived) /\ Arrival(p[2]) \in 1..Len(arrived)
          /\ Arrival(p[1]) < Arrival(p[2])
      BY AheadIs
    <3>2. QED BY <3>1
  <2>4. ~(i < k)
    <3>1. i < k => Arrival(s[i]) <= Arrival(s[k]) BY <1>6, <2>1 DEF Ordered
    <3>2. QED BY <1>6, <2>2, <2>3, <3>1
  <2>5. i # k BY <1>6, <2>2, <2>3
  <2>6. k \in 1..(i - 1) BY <2>1, <2>4, <2>5
  <2>7. QED BY <2>2, <2>6
<1>7. ASSUME NEW s \in Seq(Msgs), NEW i \in 1..Len(s) PROVE s[i] \in Elems(s)
  BY DEF Elems
<1>8. InOrder(claimed, {}, Ahead')
  <2>1. ASSUME NEW i \in 1..Len(claimed), NEW p \in Ahead', p[2] = claimed[i]
        PROVE  \E k \in 1..(i - 1) : claimed[k] = p[1]
    <3>1. p[2] \in Elems(claimed) BY <2>1, <1>7
    <3>2. p[2] \in Elems(arrived) BY <3>1, <1>1, <1>2
    <3>3. p \in Ahead /\ p[1] \in Waiting' BY <3>2, AheadStep DEF Ahead
    <3>4. p[1] \in Elems(claimed) BY <3>1, <3>3, <1>5
    <3>5. Ordered(claimed) BY <1>1
    <3>6. QED BY <2>1, <3>3, <3>4, <3>5, <1>6
  <2>2. QED BY <2>1 DEF InOrder
<1>9. InOrder(rest, Elems(claimed), Ahead')
  <2>1. ASSUME NEW i \in 1..Len(rest), NEW p \in Ahead', p[2] = rest[i],
               p[1] \notin Elems(claimed)
        PROVE  \E k \in 1..(i - 1) : rest[k] = p[1]
    <3>1. p[2] \in Elems(rest) BY <2>1, <1>7
    <3>2. p[2] \in Elems(arrived) /\ p[2] \in Elems(j.batch) BY <3>1, <1>1, <1>2
    <3>3. p \in Ahead /\ p[1] \in Waiting' BY <3>2, AheadStep DEF Ahead
    <3>4. p[1] \in Elems(taken) \cup Elems(rest) BY <3>2, <3>3, <1>1, <1>4
    <3>5. p[1] \in Elems(rest) BY <3>3, <3>4, <2>1, <1>3
    <3>6. Ordered(rest) BY <1>1
    <3>7. QED BY <2>1, <3>3, <3>5, <3>6, <1>6
  <2>2. QED BY <2>1 DEF InOrder
<1>10. ASSUME NEW m \in Waiting, NEW n \in Wanted, n \in Elems(Absorbed(claimed)),
              Arrival(m) < Arrival(n), m \in Waiting'
       PROVE  FALSE
  <2>1. n \in Elems(claimed) /\ row[n] = "received" BY <1>1, <1>10 DEF Fresh
  <2>2. n \in Elems(j.batch) /\ n \in Elems(arrived) BY <2>1, <1>1, <1>2
  <2>3. m \in Msgs /\ n \in Msgs /\ m \in Wanted BY <2>2, <1>2, ElemsIn DEF Waiting, Wanted
  <2> DEFINE p == <<m, n>>
  <2>4. p \in Ahead /\ p[1] = m /\ p[2] = n BY <1>10, <2>1, <2>3 DEF Ahead
  <2> HIDE DEF p
  <2>5. m \in Elems(claimed) BY <2>4, <2>1, <1>5, <1>10
  <2>6. m \notin Elems(Absorbed(claimed))
    <3>1. row'[m] = "received" BY <1>10 DEF Waiting
    <3>2. QED BY <1>1, <2>3, <3>1
  <2>7. claimed # <<>> BY <2>1, ElemsEmpty
  <2>8. m = Last(claimed) BY <1>1, <2>5, <2>6, <2>7
  <2>9. Arrival(n) <= Arrival(m)
    <3>1. PICK i \in DOMAIN claimed : n = claimed[i] BY <2>1 DEF Elems
    <3>2. QED BY <1>1, <2>8, <3>1
  <2>10. Arrival(m) \in Int /\ Arrival(n) \in Int
    <3>1. Arrival(m) \in 1..Len(arrived) /\ Arrival(n) \in 1..Len(arrived) BY <2>4, AheadIs
    <3>2. QED BY <3>1
  <2>11. QED BY <1>10, <2>9, <2>10
<1>11. QED BY <1>3, <1>8, <1>9, <1>10

\* ClaimBatch, whether it claims or fails.
LEMMA ClaimInOrder ==
  ASSUME IInv, [Next]_vars, crashes' = 0, OneAtTheDoor', QueueInOrder, WaitingArePlaced,
         NEW j \in jobs, ClaimBatch(j) \/ ClaimBatchFails(j)
  PROVE  QueueInOrder' /\ WaitingArePlaced'
<1> USE DEF inbox, queue, flags, lock, recovery, seen, counters
<1>1. /\ j.step = "claim" /\ UNCHANGED <<arrived, resetAt, pending, overflow>>
      /\ InTurn(j, pending, Ahead)
  BY DEF ClaimBatch, ClaimBatchFails, QueueInOrder
<1>2. /\ j.rest = <<>> /\ j.redo = <<>> /\ j.batch \in Seq(Msgs) /\ pending \in Seq(Msgs)
      /\ Elems(j.batch) \subseteq Elems(arrived) /\ Elems(pending) \subseteq Elems(arrived)
  BY <1>1, TheJob DEF Holds, HoldsQueueable, IInv, TypeOK, QueueTypeOK, JobsAreSound, Queueable
<1>3. JobElems(j) = Elems(j.batch) /\ \A m : ~ToList(j, m)
  BY <1>1, <1>2, ElemsEmpty DEF JobElems, ToList
<1>4. InOrder(j.batch, {}, Ahead') BY <1>1, <1>2, OrderStays DEF InTurn
<1>5. ASSUME NEW more2, \A m \in Waiting' : m \in Elems(j.batch) => m \in more2
      PROVE  InOrder(pending, more2, Ahead')
  BY <1>1, <1>2, <1>3, <1>5, OrderStays DEF InTurn
<1>6. CASE End(j, <<>>, j.batch, TRUE)
  <2> DEFINE k == Job("end", <<>>, <<>>, j.batch, TRUE)
  <2>1. k.step = "end" /\ k.batch = <<>> /\ k.rest = <<>> /\ k.redo = j.batch BY DEF Job
  <2>2. Replace(j, k) BY <1>6 DEF End
  <2> HIDE DEF k
  <2>3. JobElems(k) = Elems(j.batch) BY <2>1, ElemsEmpty DEF JobElems
  <2>4. InTurn(k, pending, Ahead')
    <3>1. InOrder(<<>>, {}, Ahead') /\ InOrder(<<>>, Elems(<<>>) \cup Elems(j.batch), Ahead')
      BY InOrderEmpty
    <3>2. InOrder(pending, Elems(j.batch), Ahead') BY <1>5
    <3>3. QED BY <1>4, <2>1, <2>3, <3>1, <3>2 DEF InTurn
  <2>5. QED BY <1>1, <1>3, <2>2, <2>3, <2>4, OneJobInOrder
<1>7. ASSUME NEW taken \in Seq(Msgs), NEW claimed \in Seq(Msgs), NEW rest \in Seq(Msgs),
             ClaimTakes(j, taken, claimed, rest)
      PROVE  QueueInOrder' /\ WaitingArePlaced'
  <2>1. /\ \A m \in Waiting' : m \in Elems(taken) => m \in Elems(claimed)
        /\ InOrder(claimed, {}, Ahead') /\ InOrder(rest, Elems(claimed), Ahead')
    BY <1>1, <1>7, ClaimKeepsOrder
  <2>2. /\ Elems(j.batch) = Elems(taken) \cup Elems(rest)
        /\ Elems(claimed) = {m \in Elems(taken) : Fresh(m) \/ Started(m)}
        /\ row' = [m \in Msgs |->
                     IF m \in Elems(Absorbed(claimed)) THEN "batched"
                     ELSE IF m \in Elems(taken) /\ Stale(m) THEN "ignored" ELSE row[m]]
        /\ IF claimed = <<>>
           THEN End(j, rest, <<>>, FALSE)
           ELSE Replace(j, Job("prepare", claimed, rest, <<>>, FALSE))
    BY <1>7 DEF ClaimTakes
  <2>3. InOrder(pending, Elems(claimed) \cup Elems(rest), Ahead') BY <1>5, <2>1, <2>2
  <2>4. CASE claimed = <<>>
    <3> DEFINE k == Job("end", <<>>, rest, <<>>, FALSE)
    <3>1. k.step = "end" /\ k.batch = <<>> /\ k.rest = rest /\ k.redo = <<>> BY DEF Job
    <3>2. Replace(j, k) BY <2>2, <2>4 DEF End
    <3> HIDE DEF k
    <3>3. Elems(claimed) = {} /\ JobElems(k) = Elems(rest) /\ Elems(k.batch) \cup Elems(k.redo) = {}
      BY <2>4, <3>1, ElemsEmpty DEF JobElems
    <3>4. InTurn(k, pending, Ahead')
      <4>1. InOrder(<<>>, {}, Ahead') BY InOrderEmpty
      <4>2. InOrder(rest, {}, Ahead') /\ InOrder(pending, Elems(rest), Ahead') BY <2>1, <2>3, <3>3
      <4>3. QED BY <3>1, <3>3, <4>1, <4>2 DEF InTurn
    <3>5. \A m \in Waiting' : m \in JobElems(j) => m \in JobElems(k) BY <1>3, <2>1, <2>2, <3>3
    <3>6. QED BY <1>1, <1>3, <3>2, <3>4, <3>5, OneJobInOrder
  <2>5. CASE claimed # <<>>
    <3> DEFINE k == Job("prepare", claimed, rest, <<>>, FALSE)
    <3>1. k.step = "prepare" /\ k.batch = claimed /\ k.rest = rest /\ k.redo = <<>> BY DEF Job
    <3>2. Replace(j, k) BY <2>2, <2>5
    <3> HIDE DEF k
    <3>3. JobElems(k) = Elems(claimed) \cup Elems(rest)
          /\ Elems(k.batch) \cup Elems(k.redo) = Elems(claimed)
      BY <3>1, ElemsEmpty DEF JobElems
    <3>4. InTurn(k, pending, Ahead')
      <4>1. InOrder(<<>>, {}, Ahead') BY InOrderEmpty
      <4>2. QED BY <2>1, <2>3, <3>1, <3>3, <4>1 DEF InTurn
    <3>5. \A m \in Waiting' : m \in JobElems(j) => m \in JobElems(k) BY <1>3, <2>1, <2>2, <3>3
    <3>6. QED BY <1>1, <1>3, <3>2, <3>4, <3>5, OneJobInOrder
  <2>6. QED BY <2>4, <2>5
<1>8. QED BY <1>6, <1>7, ClaimOutcome DEF ClaimBatchFails

\* The turn of a claimed batch: only its anchor may wait, and nobody before it.
LEMMA TurnInOrder ==
  ASSUME IInv, [Next]_vars, crashes' = 0, OneAtTheDoor', QueueInOrder, WaitingArePlaced,
         NEW j \in jobs, Prepare(j) \/ PrepareFails(j) \/ Generate(j) \/ GenerateFails(j)
  PROVE  QueueInOrder' /\ WaitingArePlaced'
<1> USE DEF inbox, queue, flags, lock, recovery, seen, counters
<1> DEFINE a == Last(j.batch)
<1>1. /\ j.step \in {"prepare", "generate"} /\ UNCHANGED <<arrived, resetAt, pending, overflow>>
      /\ InTurn(j, pending, Ahead)
  BY DEF Prepare, PrepareFails, Generate, GenerateFails, QueueInOrder
<1>2. /\ j.redo = <<>> /\ a \in Msgs /\ a \in Elems(arrived) /\ row \in [Msgs -> RowStates]
      /\ j.batch \in Seq(Msgs) /\ j.rest \in Seq(Msgs) /\ pending \in Seq(Msgs)
  BY <1>1, TheJob, AnchorIs DEF Holds, IInv, TypeOK, InboxTypeOK, QueueTypeOK
<1>3. /\ Elems(j.batch) \subseteq Elems(arrived) /\ Elems(j.rest) \subseteq Elems(arrived)
      /\ Elems(pending) \subseteq Elems(arrived)
  BY <1>1, TheJob DEF HoldsQueueable, Queueable, IInv, JobsAreSound
<1>4. JobElems(j) = Elems(j.batch) \cup Elems(j.rest)
      /\ Elems(j.batch) \cup Elems(j.redo) = Elems(j.batch) /\ \A m : ~ToList(j, m)
  BY <1>1, <1>2, ElemsEmpty DEF JobElems, ToList
<1>5. ASSUME NEW m \in Waiting', m \in Elems(j.batch) PROVE m = a
  <2>1. m \in Waiting BY <1>3, <1>5, WaitingStep
  <2>2. row[m] \in Unfinished BY <2>1 DEF Waiting, Unfinished
  <2>3. QED BY <1>1, <1>5, <2>2, TheJob DEF OnlyTheAnchorIsLeft
<1>6. /\ InOrder(j.batch, {}, Ahead) /\ InOrder(j.rest, Elems(j.batch), Ahead)
      /\ InOrder(pending, Elems(j.batch) \cup Elems(j.rest), Ahead)
  BY <1>1, <1>4 DEF InTurn
<1>7. \/ End(j, j.rest, <<a>>, TRUE)
      \/ End(j, j.rest, <<>>, FALSE) /\ row'[a] = "answered"
      \/ Replace(j, [j EXCEPT !.step = "generate"]) /\ row'[a] = "generating"
  BY <1>2 DEF Prepare, PrepareFails, Generate, GenerateFails, SetRow
<1> HIDE DEF a
<1>8. InOrder(<<a>>, {}, Ahead')
  <2>1. ASSUME NEW p \in Ahead', p[2] = a PROVE FALSE
    <3>1. p \in Ahead /\ p[1] \in Waiting' BY <1>2, <2>1, AheadStep DEF Ahead
    <3>2. Len(j.batch) \in Nat \ {0} /\ DOMAIN j.batch = 1..Len(j.batch)
      BY <1>1, <1>2, AnchorIs
    <3>3. Len(j.batch) \in 1..Len(j.batch) /\ p[2] = j.batch[Len(j.batch)]
      BY <2>1, <3>2 DEF a, Last
    <3>4. PICK k \in 1..(Len(j.batch) - 1) : j.batch[k] = p[1]
      BY <1>6, <3>1, <3>3 DEF InOrder
    <3>5. k \in DOMAIN j.batch BY <3>2
    <3>6. p[1] = a BY <1>5, <3>1, <3>4, <3>5 DEF Elems
    <3>7. Arrival(p[1]) \in 1..Len(arrived) /\ Arrival(p[1]) < Arrival(p[2]) BY <3>1, AheadIs
    <3>8. QED BY <2>1, <3>6, <3>7
  <2>2. \A i \in 1..Len(<<a>>) : <<a>>[i] = a OBVIOUS
  <2>3. QED BY <2>1, <2>2 DEF InOrder
<1>9. ASSUME NEW some, \A m \in Waiting' : m = a => m \in some
      PROVE  /\ InOrder(j.rest, some, Ahead')
             /\ InOrder(pending, some \cup Elems(j.rest), Ahead')
  <2>1. \A m \in Waiting' : m \in Elems(j.batch) => m \in some BY <1>5, <1>9
  <2>2. InOrder(j.rest, some, Ahead') BY <1>2, <1>3, <1>6, <2>1, OrderStays
  <2>3. \A m \in Waiting' : m \in Elems(j.batch) \cup Elems(j.rest) => m \in some \cup Elems(j.rest)
    BY <2>1
  <2>4. InOrder(pending, some \cup Elems(j.rest), Ahead') BY <1>2, <1>3, <1>6, <2>3, OrderStays
  <2>5. QED BY <2>2, <2>4
<1>10. CASE End(j, j.rest, <<a>>, TRUE)
  <2> DEFINE k == Job("end", <<>>, j.rest, <<a>>, TRUE)
  <2>1. k.step = "end" /\ k.batch = <<>> /\ k.rest = j.rest /\ k.redo = <<a>> BY DEF Job
  <2>2. Replace(j, k) BY <1>10 DEF End
  <2> HIDE DEF k
  <2>3. JobElems(k) = {a} \cup Elems(j.rest) /\ Elems(k.batch) \cup Elems(k.redo) = {a}
    BY <1>2, <2>1, ElemsEmpty, OneMessage DEF JobElems
  <2>4. InTurn(k, pending, Ahead')
    <3>1. InOrder(<<>>, {}, Ahead') BY InOrderEmpty
    <3>2. InOrder(j.rest, {a}, Ahead') /\ InOrder(pending, {a} \cup Elems(j.rest), Ahead')
      BY <1>9
    <3>3. QED BY <1>8, <2>1, <2>3, <3>1, <3>2 DEF InTurn
  <2>5. \A m \in Waiting' : m \in JobElems(j) => m \in JobElems(k) BY <1>4, <1>5, <2>3
  <2>6. QED BY <1>1, <1>4, <2>2, <2>4, <2>5, OneJobInOrder
<1>11. CASE End(j, j.rest, <<>>, FALSE) /\ row'[a] = "answered"
  <2> DEFINE k == Job("end", <<>>, j.rest, <<>>, FALSE)
  <2>1. k.step = "end" /\ k.batch = <<>> /\ k.rest = j.rest /\ k.redo = <<>> BY DEF Job
  <2>2. Replace(j, k) BY <1>11 DEF End
  <2> HIDE DEF k
  <2>3. JobElems(k) = Elems(j.rest) /\ Elems(k.batch) \cup Elems(k.redo) = {}
    BY <2>1, ElemsEmpty DEF JobElems
  <2>4. a \notin Waiting' BY <1>11 DEF Waiting
  <2>5. InTurn(k, pending, Ahead')
    <3>1. InOrder(<<>>, {}, Ahead') BY InOrderEmpty
    <3>2. \A m \in Waiting' : m = a => m \in {} BY <2>4
    <3>3. InOrder(j.rest, {}, Ahead') /\ InOrder(pending, {} \cup Elems(j.rest), Ahead')
      BY <1>9, <3>2
    <3>4. {} \cup Elems(j.rest) = Elems(j.rest) OBVIOUS
    <3>5. QED BY <2>1, <2>3, <3>1, <3>3, <3>4 DEF InTurn
  <2>6. \A m \in Waiting' : m \in JobElems(j) => m \in JobElems(k) BY <1>4, <1>5, <2>3, <2>4
  <2>7. QED BY <1>1, <1>4, <2>2, <2>5, <2>6, OneJobInOrder
<1>12. CASE Replace(j, [j EXCEPT !.step = "generate"]) /\ row'[a] = "generating"
  <2> DEFINE k == [j EXCEPT !.step = "generate"]
  <2>1. k.step = "generate" /\ k.rest = j.rest /\ k.batch = j.batch /\ k.redo = j.redo
    BY TheJob DEF Jobs
  <2>2. Replace(j, k) BY <1>12
  <2> HIDE DEF k
  <2>3. JobElems(k) = JobElems(j) BY <2>1 DEF JobElems
  <2>4. InTurn(k, pending, Ahead')
    <3>1. InTurn(j, pending, Ahead') BY <1>1, InTurnStays
    <3>2. QED BY <2>1, <2>3, <3>1 DEF InTurn
  <2>5. QED BY <1>1, <1>4, <2>2, <2>3, <2>4, OneJobInOrder
<1>13. QED BY <1>7, <1>10, <1>11, <1>12

\* listUnfinished returns the oldest rows in order: whoever is not on the page is
\* behind it.
LEMMA ReadInOrder ==
  ASSUME IInv, [Next]_vars, crashes' = 0, OneAtTheDoor', QueueInOrder, WaitingArePlaced,
         NEW j \in jobs, ReadInbox(j) \/ ReadInboxFails(j)
  PROVE  QueueInOrder' /\ WaitingArePlaced'
<1> USE DEF inbox, queue, flags, lock, recovery, seen, counters
<1>1. j.step = "read" /\ UNCHANGED <<row, arrived, resetAt, pending, overflow, dropped>>
  BY DEF ReadInbox, ReadInboxFails
<1>2. pending = <<>> /\ TypeOK /\ InboxIsSound BY <1>1, TheJob DEF IInv
<1>3. ASSUME NEW base PROVE InOrder(pending, base, Ahead') BY <1>2, InOrderEmpty
<1>4. CASE ReadInbox(j)
  <2> DEFINE found == UnfinishedAfter(0)
  <2>1. /\ found \in Seq(Msgs)
        /\ Elems(found) \subseteq {m \in Elems(arrived) : row[m] \in Unfinished}
        /\ \A m \in Msgs : row[m] \in Unfinished /\ Arrival(m) > 0 =>
             m \in Elems(found) \/ Len(found) = MaxPending
    <3>1. 0 \in Nat OBVIOUS
    <3>2. QED BY <1>2, <3>1, ListedRows
  <2>2. InOrder(found, {}, Pairs) BY <1>2, PageInOrder
  <2>3. PICK f \in Seq(Msgs) : f = found BY <2>1
  <2> DEFINE k == Job("append", f, <<>>, <<>>, FALSE)
  <2>4. Replace(j, k) BY <1>4, <2>3 DEF ReadInbox, NewJob
  <2> HIDE DEF found
  <2>5. k.step = "append" /\ k.batch = f /\ k.rest = <<>> /\ k.redo = <<>> BY DEF Job
  <2> HIDE DEF k
  <2>6. InOrder(f, {}, Ahead')
    <3>1. InOrder(f, {}, Ahead)
      <4> DEFINE P == Pairs
                 Q == Ahead
      <4>1. \A p \in Q : p \in P BY AheadIs
      <4>2. InOrder(f, {}, P) BY <2>2, <2>3
      <4> HIDE DEF P, Q
      <4>3. InOrder(f, {}, Q) BY <4>1, <4>2, InOrderWeaken
      <4>4. QED BY <4>3 DEF Q
    <3>2. Elems(f) \subseteq Elems(arrived) BY <2>1, <2>3
    <3>3. QED BY <3>1, <3>2, OrderStays
  <2>7. InTurn(k, pending, Ahead')
    <3>1. InOrder(<<>>, {}, Ahead') /\ InOrder(<<>>, Elems(k.batch) \cup Elems(<<>>), Ahead')
      BY InOrderEmpty
    <3>2. InOrder(pending, JobElems(k), Ahead') BY <1>3
    <3>3. QED BY <2>5, <2>3, <2>6, <3>1, <3>2 DEF InTurn
  <2>8. ASSUME NEW m \in Waiting', m \in Elems(arrived)
        PROVE  m \in JobElems(k) \/ ToList(k, m)'
    <3>1. m \in Msgs /\ row[m] = "received" /\ row[m] \in Unfinished
      BY <1>1, <2>8 DEF Waiting, Wanted, Unfinished
    <3>2. Arrival(m) \in 1..Len(arrived) /\ Arrival(m)' = Arrival(m) BY <2>8, ArrivalStays
    <3>3. CASE m \in Elems(found) BY <2>5, <2>3, <3>3 DEF JobElems
    <3>4. CASE m \notin Elems(found)
      <4>1. Len(found) = MaxPending BY <2>1, <3>1, <3>2, <3>4
      <4>2. ASSUME NEW n \in Elems(found) PROVE Arrival(n)' < Arrival(m)'
        <5>1. n \in Elems(arrived) BY <2>1
        <5>2. Arrival(n) \in 1..Len(arrived) /\ Arrival(n)' = Arrival(n) BY <5>1, ArrivalStays
        <5>3. Arrival(n) # Arrival(m)
          <6>1. arrived[Arrival(n)] = n /\ arrived[Arrival(m)] = m
            BY <1>2, <2>8, <5>1, ArrivalIs
          <6>2. QED BY <3>4, <6>1
        <5>4. ~(Arrival(m) < Arrival(n))
          <6> SUFFICES ASSUME Arrival(m) < Arrival(n) PROVE FALSE OBVIOUS
          <6> DEFINE p == <<m, n>>
          <6>1. p \in Pairs /\ p[1] = m /\ p[2] = n BY <2>8, <3>1, <5>1 DEF Pairs
          <6> HIDE DEF p
          <6>2. Len(f) \in Nat /\ DOMAIN f = 1..Len(f) OBVIOUS
          <6>3. PICK i \in 1..Len(f) : n = f[i] BY <2>3, <6>2 DEF Elems
          <6>4. PICK l \in 1..(i - 1) : f[l] = m
            BY <2>2, <2>3, <6>1, <6>3 DEF InOrder
          <6>5. l \in DOMAIN f BY <6>2
          <6>6. QED BY <2>3, <3>4, <6>4, <6>5 DEF Elems
        <5>5. QED BY <3>2, <5>2, <5>3, <5>4
      <4>3. Len(f) = MaxPending /\ \A n \in Elems(f) : Arrival(n)' < Arrival(m)'
        BY <2>3, <4>1, <4>2
      <4>4. QED BY <2>5, <4>3 DEF ToList, Elems
    <3>5. QED BY <3>3, <3>4
  <2>9. QED BY <1>1, <2>4, <2>7, <2>8, OneJobInOrder
<1>5. CASE ReadInboxFails(j)
  <2> DEFINE k == Job("append", <<>>, <<>>, <<>>, TRUE)
  <2>1. Replace(j, k) BY <1>5 DEF ReadInboxFails
  <2>2. k.step = "append" /\ k.failed = TRUE /\ k.batch = <<>> /\ k.rest = <<>> /\ k.redo = <<>>
    BY DEF Job
  <2> HIDE DEF k
  <2>3. InTurn(k, pending, Ahead')
    <3>1. InOrder(<<>>, {}, Ahead') /\ InOrder(<<>>, Elems(<<>>) \cup Elems(<<>>), Ahead')
      BY InOrderEmpty
    <3>2. InOrder(pending, JobElems(k), Ahead') BY <1>3
    <3>3. QED BY <2>2, <3>1, <3>2 DEF InTurn
  <2>4. \A m : ToList(k, m)' BY <2>2 DEF ToList
  <2>5. QED BY <1>1, <2>1, <2>3, <2>4, OneJobInOrder
<1>6. QED BY <1>4, <1>5

\* A message that waits is where the step says: the part of WaitingArePlaced.
LEMMA PlacedByAll ==
  ASSUME IInv, [Next]_vars, crashes' = 0, OneAtTheDoor', WaitingArePlaced,
         \A m \in Waiting' : m \in Elems(arrived) /\ Placed(m) => Placed(m)'
  PROVE  WaitingArePlaced'
<1>1. ASSUME NEW m \in Waiting' PROVE Placed(m)'
  <2>1. CASE m \notin Elems(arrived)
    <3>1. AtTheDoor(m)' BY <2>1, NewAtTheDoor
    <3>2. QED BY <3>1, PlacedNext
  <2>2. CASE m \in Elems(arrived)
    <3>1. Placed(m) BY <2>2, WaitingStep DEF WaitingArePlaced
    <3>2. QED BY <2>2, <3>1
  <2>3. QED BY <2>1, <2>2
<1>2. QED BY <1>1 DEF WaitingArePlaced

\* A reader holds nothing, so the queue is all there is.
LEMMA ReaderInTurn ==
  ASSUME NEW q, NEW P, InOrder(q, {}, P)
  PROVE  /\ InTurn(NewJob("read", <<>>), q, P)
         /\ \A m : ToList(NewJob("read", <<>>), m)'
<1> DEFINE k == NewJob("read", <<>>)
<1>1. k.step = "read" /\ k.batch = <<>> /\ k.rest = <<>> /\ k.redo = <<>> BY DEF NewJob, Job
<1> HIDE DEF k
<1>2. JobElems(k) = {} BY <1>1, ElemsEmpty DEF JobElems
<1>3. InOrder(<<>>, {}, P) /\ InOrder(<<>>, Elems(<<>>) \cup Elems(<<>>), P) BY InOrderEmpty
<1>4. InTurn(k, q, P) BY <1>1, <1>2, <1>3 DEF InTurn
<1>5. \A m : ToList(k, m)' BY <1>1 DEF ToList
<1>6. QED BY <1>4, <1>5 DEF k

\* What goes back to the front of the queue goes before the queue.
LEMMA EndTurnInOrder ==
  ASSUME IInv, [Next]_vars, crashes' = 0, OneAtTheDoor', QueueInOrder, WaitingArePlaced,
         NEW j \in jobs, EndTurn(j)
  PROVE  QueueInOrder' /\ WaitingArePlaced'
<1> USE DEF inbox, queue, flags, lock, recovery, seen, counters
<1>1. PICK retry \in BOOLEAN : retry = (j.failed /\ j.redo # <<>> /\ retries < MaxRetries)
  OBVIOUS
<1>2. PICK left : left = Requeued(j, retry) \o pending OBVIOUS
<1>3. /\ j.step = "end" /\ pending' = left
      /\ dropped' = IF j.failed /\ ~retry THEN dropped \cup Elems(j.redo) ELSE dropped
      /\ IF TurnReads(left)
         THEN overflow' = FALSE /\ Refill(jobs \ {j}) /\ UNCHANGED timer
         ELSE /\ running' = FALSE /\ jobs' = jobs \ {j}
              /\ timer' = TurnSchedules(left)
              /\ UNCHANGED <<overflow, refilling>>
  BY <1>1, <1>2 DEF EndTurn
<1>4. /\ j.batch = <<>> /\ (~j.failed => j.redo = <<>>) /\ jobs = {j}
      /\ j.redo \in Seq(Msgs) /\ j.rest \in Seq(Msgs) /\ pending \in Seq(Msgs)
      /\ Elems(j.redo) \subseteq Elems(arrived) /\ Elems(j.rest) \subseteq Elems(arrived)
      /\ Elems(pending) \subseteq Elems(arrived) /\ InTurn(j, pending, Ahead)
  BY <1>3, TheJob DEF Holds, HoldsQueueable, Queueable, IInv, TypeOK, QueueTypeOK, JobsAreSound,
     QueueInOrder
<1>5. JobElems(j) = Elems(j.redo) \cup Elems(j.rest)
      /\ Elems(j.batch) \cup Elems(j.redo) = Elems(j.redo) /\ \A m : ~ToList(j, m)
  BY <1>3, <1>4, ElemsEmpty DEF JobElems, ToList
<1>6. PICK again : again = IF retry THEN j.redo ELSE <<>> OBVIOUS
<1>7. again \in Seq(Msgs) /\ Requeued(j, retry) = again \o j.rest BY <1>4, <1>6 DEF Requeued
<1>8. ASSUME NEW m \in Waiting', m \in Elems(j.redo) PROVE m \in Elems(again)
  <2>1. m \notin dropped' BY DEF Waiting
  <2>2. j.failed BY <1>4, <1>8, ElemsEmpty
  <2>3. retry BY <1>3, <1>8, <2>1, <2>2
  <2>4. QED BY <1>6, <1>8, <2>3
<1>9. InOrder(again, {}, Ahead')
  <2>1. InOrder(j.redo, {}, Ahead') BY <1>4, OrderStays DEF InTurn
  <2>2. CASE retry BY <1>6, <2>1, <2>2
  <2>3. CASE ~retry BY <1>6, <2>3, InOrderEmpty
  <2>4. QED BY <2>2, <2>3
<1>10. InOrder(j.rest, Elems(again), Ahead')
  <2>1. InOrder(j.rest, Elems(j.redo), Ahead) BY <1>4, <1>5 DEF InTurn
  <2>2. QED BY <1>4, <1>8, <2>1, OrderStays
<1>11. InOrder(pending, Elems(again \o j.rest), Ahead')
  <2>1. Elems(again \o j.rest) = Elems(again) \cup Elems(j.rest) BY <1>4, <1>7, ElemsConcat
  <2>2. InOrder(pending, Elems(j.redo) \cup Elems(j.rest), Ahead) BY <1>4, <1>5 DEF InTurn
  <2>3. \A m \in Waiting' : m \in Elems(j.redo) \cup Elems(j.rest) => m \in Elems(again \o j.rest)
    BY <1>8, <2>1
  <2>4. QED BY <1>4, <2>2, <2>3, OrderStays
<1>12. InOrder(left, {}, Ahead') /\ Elems(left) = Elems(again) \cup Elems(j.rest) \cup Elems(pending)
  <2>1. again \o j.rest \in Seq(Msgs) /\ Elems(again \o j.rest) = Elems(again) \cup Elems(j.rest)
    BY <1>4, <1>7, ElemsConcat
  <2>2. {} \cup Elems(again) = Elems(again)
        /\ {} \cup Elems(again \o j.rest) = Elems(again \o j.rest)
    OBVIOUS
  <2> DEFINE P == Ahead'
             r == again \o j.rest
  <2>3. InOrder(again, {}, P) /\ InOrder(j.rest, {} \cup Elems(again), P) BY <1>9, <1>10, <2>2
  <2>4. InOrder(pending, {} \cup Elems(r), P) BY <1>11, <2>2
  <2> HIDE DEF P
  <2>5. InOrder(r, {}, P) BY <1>4, <1>7, <2>3, InOrderConcat
  <2>6. r \in Seq(Msgs) BY <2>1
  <2>7. left = r \o pending BY <1>2, <1>7
  <2> HIDE DEF r
  <2>8. InOrder(r \o pending, {}, P) BY <1>4, <2>4, <2>5, <2>6, InOrderConcat
  <2>9. Elems(r \o pending) = Elems(r) \cup Elems(pending) BY <1>4, <2>6, ElemsConcat
  <2>10. QED BY <2>1, <2>7, <2>8, <2>9 DEF P, r
<1>13. jobs' = {} \/ (jobs' = {NewJob("read", <<>>)} /\ overflow' = FALSE)
       \/ (jobs' = {} /\ overflow' = overflow)
  BY <1>3, <1>4 DEF Refill
<1>14. QueueInOrder'
  <2>1. InOrder(pending', {}, Ahead') BY <1>3, <1>12
  <2>2. InTurn(NewJob("read", <<>>), pending', Ahead')
    <3> DEFINE P == Ahead'
               q == pending'
    <3>1. InOrder(q, {}, P) BY <2>1
    <3> HIDE DEF P, q
    <3>2. InTurn(NewJob("read", <<>>), q, P)
      BY <3>1, ReaderInTurn
    <3>3. QED BY <3>2 DEF P, q
  <2>3. \A i \in jobs' : InTurn(i, pending', Ahead') BY <1>13, <2>2
  <2>4. QED BY <2>1, <2>3, QueueInOrderNext
<1>15. ASSUME NEW m \in Waiting', m \in Elems(arrived), Placed(m) PROVE Placed(m)'
  <2>1. m \in Elems(pending) => m \in Elems(pending') BY <1>3, <1>12
  <2>2. m \in JobElems(j) => Placed(m)'
    <3>1. m \in JobElems(j) => m \in Elems(pending') BY <1>3, <1>5, <1>8, <1>12, <1>15
    <3>2. QED BY <3>1, PlacedNext
  <2>3. overflow => overflow' \/ Placed(m)'
    <3>1. CASE TurnReads(left)
      <4>1. NewJob("read", <<>>) \in jobs' BY <1>3, <3>1 DEF Refill
      <4>2. ToList(NewJob("read", <<>>), m)' BY ReaderIs DEF ToList
      <4>3. QED BY <4>1, <4>2, PlacedNext
    <3>2. CASE ~TurnReads(left) BY <1>3, <3>2
    <3>3. QED BY <3>1, <3>2
  <2>4. \A i \in jobs : m \in JobElems(i) \/ ToList(i, m) => Placed(m)' BY <1>4, <1>5, <2>2
  <2>5. QED BY <1>15, <2>1, <2>3, <2>4, PlacedStays
<1>16. QED BY <1>14, <1>15, PlacedByAll

\* The page becomes the queue; a message behind it is still to be read.
LEMMA EndRefillInOrder ==
  ASSUME IInv, [Next]_vars, crashes' = 0, OneAtTheDoor', QueueInOrder, WaitingArePlaced,
         NEW j \in jobs, EndRefill(j)
  PROVE  QueueInOrder' /\ WaitingArePlaced'
<1> USE DEF inbox, queue, flags, lock, recovery, seen, counters
<1> DEFINE full == Len(j.batch) = MaxPending
<1>1. PICK left : left = pending \o Filter(j.batch, Msgs \ Commands) OBVIOUS
<1>2. /\ j.step = "append" /\ pending' = left /\ UNCHANGED <<row, arrived>>
      /\ dropped' = IF j.failed /\ left = <<>>
                    THEN dropped \cup {n \in Msgs : row[n] \in Unfinished} ELSE dropped
      /\ left # <<>> => overflow' = (full \/ overflow)
      /\ left = <<>> /\ ~j.failed =>
           /\ overflow' = full
           /\ ReadsAgain(full) => Refill(jobs \ {j})
      /\ jobs' = jobs \ {j} \/ Refill(jobs \ {j})
  BY <1>1 DEF EndRefill
<1>3. /\ pending = <<>> /\ j.batch \in Seq(Msgs) /\ j.rest = <<>> /\ j.redo = <<>>
      /\ j.failed => j.batch = <<>>
  BY <1>2, TheJob DEF Holds
<1>4. /\ jobs = {j} /\ Elems(j.batch) \subseteq Elems(arrived) /\ InTurn(j, pending, Ahead)
  BY TheJob DEF HoldsQueueable, QueueInOrder
<1>5. /\ Filter(j.batch, Msgs \ Commands) \in Seq(Msgs)
      /\ Elems(Filter(j.batch, Msgs \ Commands)) = Elems(j.batch) \cap (Msgs \ Commands)
      /\ Len(Filter(j.batch, Msgs \ Commands)) <= Len(j.batch)
  BY <1>3, FilterElems
<1>6. left = Filter(j.batch, Msgs \ Commands) BY <1>1, <1>3, <1>5
<1>7. j.failed => left = <<>>
  <2> SUFFICES ASSUME j.failed PROVE left = <<>> OBVIOUS
  <2>1. Elems(left) = {} BY <1>3, <1>5, <1>6, ElemsEmpty
  <2>2. left \in Seq(Msgs) BY <1>5, <1>6
  <2>3. left # <<>> => Last(left) \in Elems(left) BY <2>2, LastIn
  <2>4. QED BY <2>1, <2>3
<1>8. InOrder(left, {}, Ahead')
  <2>1. InOrder(j.batch, {}, Ahead') BY <1>3, <1>4, OrderStays DEF InTurn
  <2>2. \A p \in Ahead' : p[1] \in Msgs \ Commands
    <3>1. ASSUME NEW p \in Ahead' PROVE p[1] \in Msgs \ Commands
      <4>1. p[1] \in Wanted BY KindStep DEF Ahead, Waiting, IInv
      <4>2. QED BY <4>1, KindsDiffer DEF Wanted
    <3>2. QED BY <3>1
  <2> DEFINE P == Ahead'
             T == Msgs \ Commands
  <2>3. InOrder(j.batch, {}, P) /\ \A p \in P : p[1] \in T BY <2>1, <2>2
  <2> HIDE DEF P, T
  <2>4. InOrder(Filter(j.batch, T), {}, P) BY <1>3, <2>3, InOrderFilter
  <2>5. QED BY <1>6, <2>4 DEF P, T
<1>9. QueueInOrder'
  <2>1. InOrder(pending', {}, Ahead') BY <1>2, <1>8
  <2>2. InTurn(NewJob("read", <<>>), pending', Ahead')
    <3> DEFINE P == Ahead'
               q == pending'
    <3>1. InOrder(q, {}, P) BY <2>1
    <3> HIDE DEF P, q
    <3>2. InTurn(NewJob("read", <<>>), q, P)
      BY <3>1, ReaderInTurn
    <3>3. QED BY <3>2 DEF P, q
  <2>3. jobs' = {} \/ jobs' = {NewJob("read", <<>>)} BY <1>2, <1>4 DEF Refill
  <2>4. \A i \in jobs' : InTurn(i, pending', Ahead') BY <2>2, <2>3
  <2>5. QED BY <2>1, <2>4, QueueInOrderNext
<1>10. ASSUME NEW m \in Waiting', m \in Elems(arrived), Placed(m) PROVE Placed(m)'
  <2>1. m \in Msgs \ Commands /\ m \in Wanted /\ row[m] \in Unfinished
    <3>1. m \in Waiting BY <1>10, WaitingStep
    <3>2. QED BY <3>1, KindsDiffer DEF Waiting, Unfinished, Wanted
  <2>2. ~j.failed
    <3> SUFFICES ASSUME j.failed PROVE FALSE OBVIOUS
    <3>1. m \in dropped' BY <1>2, <1>7, <2>1
    <3>2. QED BY <3>1, <1>10 DEF Waiting
  <2>3. m \in JobElems(j) => Placed(m)'
    <3>1. m \in JobElems(j) => m \in Elems(j.batch) BY <1>3, ElemsEmpty DEF JobElems
    <3>2. m \in Elems(j.batch) => m \in Elems(pending') BY <1>2, <1>5, <1>6, <2>1
    <3>3. QED BY <3>1, <3>2, PlacedNext
  <2>4. ASSUME full \/ overflow PROVE Placed(m)'
    <3>1. CASE left # <<>>
      <4>1. overflow' BY <1>2, <2>4, <3>1
      <4>2. QED BY <4>1, PlacedNext
    <3>2. CASE left = <<>> /\ ReadsAgain(full)
      <4>1. NewJob("read", <<>>) \in jobs' BY <1>2, <2>2, <3>2 DEF Refill
      <4>2. ToList(NewJob("read", <<>>), m)' BY ReaderIs DEF ToList
      <4>3. QED BY <4>1, <4>2, PlacedNext
    <3>3. CASE left = <<>> /\ ~ReadsAgain(full)
      <4>1. full BY <2>4, <3>3 DEF ReadsAgain
      <4>2. overflow' BY <1>2, <2>2, <3>3, <4>1
      <4>3. QED BY <4>2, PlacedNext
    <3>4. QED BY <3>1, <3>2, <3>3
  <2>5. ToList(j, m) => Placed(m)' BY <1>2, <2>2, <2>4 DEF ToList
  <2>6. \A i \in jobs : m \in JobElems(i) \/ ToList(i, m) => Placed(m)' BY <1>4, <2>3, <2>5
  <2>7. m \notin Elems(pending) BY <1>3, ElemsEmpty
  <2>8. QED BY <1>10, <2>4, <2>6, <2>7, PlacedStays
<1>11. QED BY <1>9, <1>10, PlacedByAll

\* The front of the queue becomes a turn.
LEMMA StartInOrder ==
  ASSUME IInv, [Next]_vars, crashes' = 0, OneAtTheDoor', QueueInOrder, WaitingArePlaced, StartTurn
  PROVE  QueueInOrder' /\ WaitingArePlaced'
<1> USE DEF inbox, queue, flags, lock, recovery, seen, counters
<1>1. CASE running \/ pending = <<>>
  <2>1. UNCHANGED <<pending, jobs, overflow>> BY <1>1 DEF StartTurn
  <2>2. ASSUME NEW j \in jobs PROVE FALSE BY TheJob DEF StartTurn
  <2>3. QED BY <2>1, <2>2, QuietOrder
<1>2. CASE ~(running \/ pending = <<>>)
  <2>1. PICK size : size = IF Len(pending) < BurstCap THEN Len(pending) ELSE BurstCap OBVIOUS
  <2>2. PICK batch : batch = SubSeq(pending, 1, size) OBVIOUS
  <2>3. PICK left : left = SubSeq(pending, size + 1, Len(pending)) OBVIOUS
  <2>4. /\ pending' = left /\ jobs' = jobs \cup {NewJob("claim", batch)} /\ overflow' = overflow
        /\ dropped' = dropped
    BY <1>2, <2>1, <2>2, <2>3 DEF StartTurn
  <2>5. jobs = {}
    <3>1. ASSUME NEW j \in jobs PROVE FALSE BY <1>2, TheJob
    <3>2. QED BY <3>1
  <2>6. /\ pending \in Seq(Msgs) /\ Len(pending) \in Nat /\ BurstCap \in Nat
        /\ Elems(pending) \subseteq Elems(arrived)
    BY Sizes DEF IInv, TypeOK, QueueTypeOK, JobsAreSound, Queueable
  <2>7. size \in 0..Len(pending) BY <2>1, <2>6
  <2>8. /\ batch \in Seq(Msgs) /\ left \in Seq(Msgs)
        /\ Elems(pending) = Elems(batch) \cup Elems(left)
    BY <2>2, <2>3, <2>6, <2>7, ElemsCut
  <2>9. InOrder(pending, {}, Ahead') BY <2>5, <2>6, OrderStays DEF QueueInOrder
  <2>10. InOrder(batch, {}, Ahead') /\ InOrder(left, Elems(batch), Ahead')
    <3> DEFINE P == Ahead'
    <3>1. InOrder(pending, {}, P) BY <2>9
    <3> HIDE DEF P
    <3>2. /\ InOrder(SubSeq(pending, 1, size), {}, P)
          /\ InOrder(SubSeq(pending, size + 1, Len(pending)),
                     {} \cup Elems(SubSeq(pending, 1, size)), P)
      BY <2>6, <2>7, <3>1, InOrderCut
    <3>3. {} \cup Elems(batch) = Elems(batch) OBVIOUS
    <3>4. QED BY <2>2, <2>3, <3>2, <3>3 DEF P
  <2> DEFINE k == NewJob("claim", batch)
  <2>11. k.step = "claim" /\ k.batch = batch /\ k.rest = <<>> /\ k.redo = <<>>
    BY DEF NewJob, Job
  <2>12. jobs' = {k} BY <2>4, <2>5
  <2> HIDE DEF k
  <2>13. JobElems(k) = Elems(batch) BY <2>11, ElemsEmpty DEF JobElems
  <2>14. InTurn(k, left, Ahead')
    <3>1. InOrder(<<>>, {}, Ahead') /\ InOrder(<<>>, Elems(batch) \cup Elems(<<>>), Ahead')
      BY InOrderEmpty
    <3>2. QED BY <2>10, <2>11, <2>13, <3>1 DEF InTurn
  <2>15. QueueInOrder'
    <3>1. \A i \in jobs' : InTurn(i, pending', Ahead')
      BY <2>4, <2>12, <2>14
    <3>2. QED BY <2>12, <3>1, QueueInOrderNext
  <2>16. ASSUME NEW m \in Waiting', m \in Elems(arrived), Placed(m) PROVE Placed(m)'
    <3>1. m \in Elems(pending) => m \in Elems(pending') \/ Placed(m)'
      <4>1. m \in Elems(batch) => Placed(m)' BY <2>12, <2>13, PlacedNext
      <4>2. QED BY <2>4, <2>8, <4>1
    <3>2. QED BY <2>4, <2>16, <3>1, PlacedStays
  <2>17. QED BY <2>15, <2>16, PlacedByAll
<1>3. QED BY <1>1, <1>2

\* A message joins the queue behind whoever is ahead of it.
LEMMA AdmitInOrder ==
  ASSUME IInv, [Next]_vars, crashes' = 0, OneAtTheDoor', QueueInOrder, WaitingArePlaced,
         NEW c \in Callers, Admit(c)
  PROVE  QueueInOrder' /\ WaitingArePlaced'
<1> USE DEF inbox, queue, flags, lock, recovery, seen, counters
<1>1. PICK n : n = msg[c] OBVIOUS
<1>2. /\ UNCHANGED <<jobs, row, arrived, dropped>> /\ at[c] = "admit" /\ (overflow => overflow')
      /\ \/ pending' = pending
         \/ /\ n \notin Elems(pending) /\ ~StaysInInbox /\ pending' = Append(pending, n)
            /\ overflow' = overflow
  BY <1>1 DEF Admit
<1>3. CASE pending' = pending BY <1>2, <1>3, QuietOrder
<1>4. CASE ~StaysInInbox /\ pending' = Append(pending, n) /\ overflow' = overflow
  <2>1. n \in Msgs /\ n \in Elems(arrived)
    <3>1. at[c] # "idle" BY <1>2
    <3>2. QED BY <1>1, <3>1, CallerHolds
  <2>2. pending \in Seq(Msgs) /\ Elems(pending) \subseteq Elems(arrived) /\ <<n>> \in Seq(Msgs)
        /\ Append(pending, n) = pending \o <<n>>
    BY <2>1 DEF IInv, TypeOK, QueueTypeOK, JobsAreSound, Queueable
  <2>3. /\ ~overflow /\ ~refilling
        /\ \A j \in jobs : JobElems(j) \subseteq Elems(arrived) /\ \A m : ~ToList(j, m)
    <3>1. ~overflow /\ ~refilling BY <1>4 DEF StaysInInbox
    <3>2. ASSUME NEW j \in jobs PROVE JobElems(j) \subseteq Elems(arrived) /\ \A m : ~ToList(j, m)
      <4>1. j.step \notin {"read", "append"} BY <3>1, TheJob
      <4>2. \A m : ~ToList(j, m) BY <4>1 DEF ToList
      <4>3. JobElems(j) \subseteq Elems(arrived)
        BY TheJob DEF HoldsQueueable, Queueable, JobElems
      <4>4. QED BY <4>2, <4>3
    <3>3. QED BY <3>1, <3>2
  \* Whoever is ahead of the message is in the queue or with its goroutine.
  <2>4. ASSUME NEW p \in Ahead', p[2] = n
        PROVE  p[1] \in Elems(pending) \/ \E j \in jobs : p[1] \in JobElems(j)
    <3>1. p \in Ahead BY <2>1, <2>4, AheadStep
    <3>2. p[1] \in Waiting /\ Placed(p[1]) BY <3>1, AheadIs DEF WaitingArePlaced
    <3>3. ~AtTheDoor(p[1])
      <4>1. Arrival(p[1]) < Arrival(n) /\ Arrival(p[1]) \in Int /\ Arrival(n) \in Int
        <5>1. /\ Arrival(p[1]) < Arrival(p[2]) /\ Arrival(p[1]) \in 1..Len(arrived)
              /\ Arrival(p[2]) \in 1..Len(arrived)
          BY <3>1, AheadIs
        <5>2. QED BY <5>1, <2>4
      <4>2. AtTheDoor(p[1]) => Arrival(n) <= Arrival(p[1]) BY <2>1 DEF AtTheDoor
      <4>3. QED BY <4>1, <4>2
    <3>4. QED BY <2>3, <3>2, <3>3 DEF Placed
  <2>5. ASSUME NEW base, InOrder(pending, base, Ahead'),
               \A j \in jobs : JobElems(j) \subseteq base
        PROVE  InOrder(pending', base, Ahead')
    <3> DEFINE P == Ahead'
    <3>1. InOrder(pending, base, P) BY <2>5
    <3>2. \A p \in P : p[2] = n => p[1] \in base \cup Elems(pending) BY <2>4, <2>5
    <3> HIDE DEF P
    <3>3. InOrder(<<n>>, base \cup Elems(pending), P)
      <4>1. Len(<<n>>) = 1 /\ <<n>>[1] = n OBVIOUS
      <4>2. QED BY <3>2, <4>1 DEF InOrder
    <3>4. InOrder(pending \o <<n>>, base, P) BY <2>2, <3>1, <3>3, InOrderConcat
    <3>5. QED BY <1>4, <2>2, <3>4 DEF P
  <2>6. QueueInOrder'
    <3>1. ASSUME NEW j \in jobs PROVE InTurn(j, pending', Ahead')
      <4>1. InTurn(j, pending, Ahead') BY InTurnStays DEF QueueInOrder
      <4>2. JobElems(j) \subseteq JobElems(j) /\ jobs = {j} BY TheJob
      <4>3. InOrder(pending', JobElems(j), Ahead') BY <2>5, <4>1, <4>2 DEF InTurn
      <4>4. QED BY <4>1, <4>3 DEF InTurn
    <3>2. jobs = {} => InOrder(pending', {}, Ahead')
      <4>1. jobs = {} => InOrder(pending, {}, Ahead') BY <2>2, OrderStays DEF QueueInOrder
      <4>2. QED BY <2>5, <4>1
    <3>3. QED BY <1>2, <3>1, <3>2, QueueInOrderNext
  <2>7. ASSUME NEW m \in Waiting', m \in Elems(arrived), Placed(m) PROVE Placed(m)'
    <3>1. Elems(Append(pending, n)) = Elems(pending) \cup {n}
      <4>1. pending \in Seq(Msgs) /\ n \in Msgs BY <2>1, <2>2
      <4>2. QED BY <4>1, ElemsAppend
    <3>2. Elems(pending) \subseteq Elems(pending') BY <1>4, <3>1
    <3>3. QED BY <1>2, <2>7, <3>2, PlacedStays
  <2>8. QED BY <2>6, <2>7, PlacedByAll
<1>5. QED BY <1>2, <1>3, <1>4

\* The last command's reader finds an empty queue.
LEMMA ReleaseInOrder ==
  ASSUME IInv, [Next]_vars, crashes' = 0, OneAtTheDoor', QueueInOrder, WaitingArePlaced,
         NEW c \in Callers, Release(c)
  PROVE  QueueInOrder' /\ WaitingArePlaced'
<1> USE DEF inbox, queue, flags, lock, recovery, seen, counters
<1>1. pending' = pending /\ overflow' = overflow BY DEF Release
<1>2. CASE ~LastCommandReads
  <2>1. jobs' = jobs BY <1>2 DEF Release
  <2>2. QED BY <1>1, <2>1, QuietOrder
<1>3. CASE LastCommandReads
  <2>1. ~running /\ pending = <<>> /\ jobs' = jobs \cup {NewJob("read", <<>>)}
    BY <1>3 DEF LastCommandReads, Release, Refill
  <2>2. jobs = {}
    <3>1. ASSUME NEW j \in jobs PROVE FALSE BY <2>1, TheJob
    <3>2. QED BY <3>1
  <2>3. QueueInOrder'
    <3>1. InOrder(pending', {}, Ahead') BY <1>1, <2>1, InOrderEmpty
    <3>2. InTurn(NewJob("read", <<>>), pending', Ahead')
      <4> DEFINE P == Ahead'
                 q == pending'
      <4>1. InOrder(q, {}, P) BY <3>1
      <4> HIDE DEF P, q
      <4>2. InTurn(NewJob("read", <<>>), q, P)
        BY <4>1, ReaderInTurn
      <4>3. QED BY <4>2 DEF P, q
    <3>3. jobs' = {NewJob("read", <<>>)} BY <2>1, <2>2
    <3>4. QED BY <3>2, <3>3, QueueInOrderNext
  <2>4. ASSUME NEW m \in Waiting', m \in Elems(arrived), Placed(m) PROVE Placed(m)'
    <3>1. Elems(pending') = Elems(pending) BY <1>1
    <3>2. QED BY <1>1, <2>1, <2>4, <3>1, PlacedStays
  <2>5. QED BY <2>3, <2>4, PlacedByAll
<1>4. QED BY <1>2, <1>3

LEMMA QueueOrderStep ==
  ASSUME IInv, [Next]_vars, crashes' = 0, OneAtTheDoor', QueueInOrder, WaitingArePlaced
  PROVE  QueueInOrder' /\ WaitingArePlaced'
<1> USE DEF inbox, queue, flags, lock, recovery, seen, counters
<1>1. CASE StartTurn BY <1>1, StartInOrder
<1>2. CASE \E c \in Callers : Admit(c) \/ Release(c) BY <1>2, AdmitInOrder, ReleaseInOrder
<1>3. CASE \E j \in jobs :
             \/ ClaimBatch(j) \/ Prepare(j) \/ Generate(j) \/ EndTurn(j)
             \/ ReadInbox(j) \/ EndRefill(j)
             \/ ClaimBatchFails(j) \/ PrepareFails(j) \/ GenerateFails(j) \/ ReadInboxFails(j)
  BY <1>3, ClaimInOrder, TurnInOrder, ReadInOrder, EndTurnInOrder, EndRefillInOrder
<1>4. CASE UNCHANGED <<pending, jobs, overflow>> BY <1>4, QuietOrder
<1>5. ~Crash
  <2>1. crashes \in Nat BY DEF IInv, TypeOK, SeenTypeOK
  <2>2. QED BY <2>1 DEF Crash
<1>6. QED
  BY StepCases, <1>1, <1>2, <1>3, <1>4, <1>5
     DEF vars, Deliver, Redeliver, Route, Ignore, Resume, Acquire, Check, Execute, Close,
         RouteFails, IgnoreFails, ResumeFails, CommandFails, RecoverList, RecoverNext,
         RecoverDone, RecoverListFails

\* Nobody is taken up before a message that waits: a claim takes the batch in
\* order, and only the last of a batch is taken up by its turn.
LEMMA OvertakenStep ==
  ASSUME IInv, [Next]_vars, crashes' = 0, NobodyOvertaken, QueueInOrder
  PROVE  NobodyOvertaken'
<1> USE DEF inbox, queue, flags, lock, recovery, seen, counters
<1>1. Wanted' = Wanted /\ row \in [Msgs -> RowStates] BY KindStep DEF IInv, TypeOK, InboxTypeOK
<1>2. SUFFICES ASSUME NEW m \in Waiting', NEW n \in Taken', Arrival(m)' < Arrival(n)'
               PROVE  FALSE
  BY DEF NobodyOvertaken
<1>3. /\ n \in Wanted /\ n \in Msgs \ Commands /\ n \notin Unwanted
      /\ row'[n] \notin {"absent", "received", "ignored"}
  BY <1>1, KindsDiffer DEF Taken, Wanted
<1>4. RowMoves(n) BY <1>3, RowStep
<1>5. n \in Elems(arrived) /\ row[n] # "absent"
  <2>1. row[n] # "absent" BY <1>3, <1>4, TheJob, AnchorIs DEF RowMoves, IInv, InboxIsSound
  <2>2. QED BY <2>1, <1>3 DEF IInv, InboxIsSound
<1>6. m \in Elems(arrived)
  <2>1. SUFFICES ASSUME m \notin Elems(arrived) PROVE FALSE OBVIOUS
  <2>2. AtTheDoor(m)' BY <2>1, NewAtTheDoor
  <2>3. n \in Elems(arrived)' BY <1>5, KindStep DEF IInv, Elems
  <2>4. Arrival(n)' <= Arrival(m)' BY <2>2, <2>3 DEF AtTheDoor
  <2>5. Arrival(n)' \in Nat /\ Arrival(m)' \in Nat
    <3>1. InboxIsSound' /\ TypeOK' BY NextHolds DEF IInv
    <3>2. ASSUME NEW x \in Elems(arrived)' PROVE Arrival(x)' \in DOMAIN arrived'
      <4>1. PICK i \in DOMAIN arrived' : arrived'[i] = x BY DEF Elems
      <4>2. Arrival(x)' = i
        <5>1. \A l, k \in DOMAIN arrived' : arrived'[l] = arrived'[k] => l = k
          BY <3>1 DEF InboxIsSound
        <5>2. QED BY <4>1, <5>1 DEF Arrival
      <4>3. QED BY <4>1, <4>2
    <3>3. m \in Elems(arrived)'
      <4>1. m \in Msgs /\ row'[m] = "received" BY DEF Waiting, Wanted
      <4>2. QED BY <3>1, <4>1 DEF InboxIsSound
    <3>4. DOMAIN arrived' \subseteq Nat BY <3>1 DEF TypeOK, InboxTypeOK
    <3>5. QED BY <2>3, <3>2, <3>3, <3>4
  <2>6. QED BY <1>2, <2>4, <2>5
<1>7. m \in Waiting /\ Arrival(m) < Arrival(n)
  BY <1>2, <1>5, <1>6, WaitingStep, ArrivalStays
<1>8. row[n] \in {"received", "ignored"} BY <1>3, <1>5, <1>7 DEF NobodyOvertaken, Taken
<1>9. CASE \E j \in jobs : ClaimBatch(j)
  <2>1. PICK j \in jobs : ClaimBatch(j) BY <1>9
  <2>2. row' # row BY <1>3, <1>8
  <2>3. PICK taken \in Seq(Msgs), claimed \in Seq(Msgs), rest \in Seq(Msgs) :
          ClaimTakes(j, taken, claimed, rest)
    BY <2>1, <2>2, ClaimOutcome
  <2>4. n \in Elems(Absorbed(claimed))
    <3>1. row' = [x \in Msgs |->
                   IF x \in Elems(Absorbed(claimed)) THEN "batched"
                   ELSE IF x \in Elems(taken) /\ Stale(x) THEN "ignored" ELSE row[x]]
      BY <2>3 DEF ClaimTakes
    <3>2. QED BY <3>1, <1>3, <1>8
  <2>5. j.step = "claim" /\ UNCHANGED <<arrived, resetAt>> BY <2>1 DEF ClaimBatch
  <2>6. InTurn(j, pending, Ahead) BY DEF QueueInOrder
  <2>7. \A x \in Waiting, y \in Wanted :
          y \in Elems(Absorbed(claimed)) /\ Arrival(x) < Arrival(y) => x \notin Waiting'
    BY <2>3, <2>5, <2>6, ClaimKeepsOrder
  <2>8. QED BY <2>4, <2>7, <1>3, <1>7
<1>10. CASE \E j \in jobs : Prepare(j) \/ Generate(j) \/ GenerateFails(j)
  <2>1. PICK j \in jobs : Prepare(j) \/ Generate(j) \/ GenerateFails(j) BY <1>10
  <2>2. j.step \in {"prepare", "generate"} BY <2>1 DEF Prepare, Generate, GenerateFails
  <2>3. n = Last(j.batch)
    <3>1. row' = row \/ \E s : row' = [row EXCEPT ![Last(j.batch)] = s]
      BY <2>1 DEF Prepare, Generate, GenerateFails, SetRow
    <3>2. QED BY <3>1, <1>1, <1>3, <1>8
  <2>4. row[n] = "received" BY <1>3, <1>4, <1>8 DEF RowMoves, Started
  <2>5. PICK p : p = <<m, n>> OBVIOUS
  <2>6. p \in Ahead /\ p[1] = m /\ p[2] = n
    <3>1. m \in Msgs BY <1>7 DEF Waiting, Wanted
    <3>2. QED BY <3>1, <1>3, <1>7, <2>4, <2>5 DEF Ahead
  <2>7. /\ j.batch \in Seq(Msgs) /\ j.batch # <<>> /\ InOrder(j.batch, {}, Ahead)
        /\ Len(j.batch) \in Nat /\ DOMAIN j.batch = 1..Len(j.batch)
    <3>1. j.batch \in Seq(Msgs) /\ j.batch # <<>> BY <2>2, AnchorIs
    <3>2. InOrder(j.batch, {}, Ahead) BY DEF QueueInOrder, InTurn
    <3>3. QED BY <3>1, <3>2
  <2>8. Len(j.batch) \in 1..Len(j.batch) /\ j.batch[Len(j.batch)] = n BY <2>3, <2>7 DEF Last
  <2>9. PICK i \in 1..Len(j.batch) : i = Len(j.batch) BY <2>8
  <2>10. PICK k \in 1..(i - 1) : j.batch[k] = m BY <2>6, <2>7, <2>8, <2>9 DEF InOrder
  <2>11. m \in Elems(j.batch)
    <3>1. k \in DOMAIN j.batch BY <2>7, <2>10
    <3>2. QED BY <3>1, <2>10 DEF Elems
  <2>12. row[m] \in Unfinished BY <1>7 DEF Waiting, Unfinished
  <2>13. m = n BY <2>2, <2>3, <2>11, <2>12, TheJob DEF OnlyTheAnchorIsLeft
  <2>14. Arrival(m) \in Nat
    <3>1. Arrival(m) \in 1..Len(arrived) BY <1>6, ArrivalStays
    <3>2. QED BY <3>1
  <2>15. QED BY <1>7, <2>13, <2>14
<1>11. CASE \A j \in jobs : ~(ClaimBatch(j) \/ Prepare(j) \/ Generate(j) \/ GenerateFails(j))
  <2>1. row'[n] = row[n] \/ row'[n] = "ignored" BY <1>3, <1>5, <1>11, QuietRows
  <2>2. QED BY <2>1, <1>3, <1>8
<1>12. QED BY <1>9, <1>10, <1>11

LEMMA OrderStep ==
  ASSUME IInv, OrderInv, OneAtTheDoor', [Next]_vars
  PROVE  OrderInv'
<1> USE DEF inbox, queue, flags, lock, recovery, seen, counters
<1>1. SUFFICES ASSUME crashes' = 0
               PROVE  NobodyOvertaken' /\ QueueInOrder' /\ WaitingArePlaced'
  BY DEF OrderInv
<1>2. crashes = 0
  <2>1. crashes \in Nat BY DEF IInv, TypeOK, SeenTypeOK
  <2>2. crashes' = crashes \/ crashes' = crashes + 1
    BY StepCases
       DEF vars, Deliver, Redeliver, Route, Ignore, Resume, Admit, Acquire, Check, Execute, Close,
           Release, RouteFails, IgnoreFails, ResumeFails, CommandFails, Fault, RecoverList,
           RecoverNext, RecoverDone, RecoverListFails, StartTurn, Crash, ClaimBatch, Prepare,
           Generate, EndTurn, ReadInbox, EndRefill, ClaimBatchFails, PrepareFails, GenerateFails,
           ReadInboxFails
  <2>3. QED BY <1>1, <2>1, <2>2
<1>3. NobodyOvertaken /\ QueueInOrder /\ WaitingArePlaced BY <1>2 DEF OrderInv
<1>4. NobodyOvertaken' BY <1>1, <1>3, OvertakenStep
<1>5. QueueInOrder' /\ WaitingArePlaced' BY <1>1, <1>3, QueueOrderStep
<1>6. QED BY <1>4, <1>5

LEMMA OrderMeans == ASSUME IInv, OrderInv PROVE TakenInOrder
<1>1. SUFFICES ASSUME crashes = 0, NEW i \in DOMAIN arrived, NEW k \in DOMAIN arrived, i < k,
                      {arrived[i], arrived[k]} \subseteq Wanted,
                      row[arrived[i]] = "received", arrived[i] \notin dropped
               PROVE  row[arrived[k]] \in {"received", "ignored"}
  BY DEF TakenInOrder
<1>2. Arrival(arrived[i]) = i /\ Arrival(arrived[k]) = k BY ArrivalOf DEF IInv
<1>3. arrived[i] \in Waiting BY <1>1 DEF Waiting
<1>4. arrived[k] \notin Taken BY <1>1, <1>2, <1>3 DEF OrderInv, NobodyOvertaken
<1>5. row[arrived[k]] # "absent"
  <2>1. arrived[k] \in Elems(arrived) BY DEF Elems
  <2>2. arrived[k] \in Msgs BY <1>1 DEF Wanted
  <2>3. QED BY <2>1, <2>2 DEF IInv, InboxIsSound
<1>6. QED BY <1>1, <1>4, <1>5 DEF Taken

LEMMA OrderInit == Init => OrderInv
<1>1. SUFFICES ASSUME Init PROVE OrderInv OBVIOUS
<1>2. Waiting = {} BY <1>1 DEF Init, Waiting, Wanted
<1>3. Ahead = {} BY <1>2 DEF Ahead
<1>4. jobs = {} BY <1>1 DEF Init
<1>5. NobodyOvertaken BY <1>2 DEF NobodyOvertaken
<1>6. QueueInOrder BY <1>3, <1>4 DEF QueueInOrder, InOrder
<1>7. WaitingArePlaced BY <1>2 DEF WaitingArePlaced
<1>8. QED BY <1>5, <1>6, <1>7 DEF OrderInv

\* Messages are taken up in the order they arrived, across overflows, refills,
\* retries and resets (admitAI, startTurn, runTurn, refill), as long as the
\* workers hand one message at a time to the chat's queue: two workers that
\* have stored a message each may reach admitAI in the other order.
THEOREM TakenUpInOrder == Spec /\ []OneAtTheDoor => []TakenInOrder
<1>1. Init => OrderInv BY OrderInit
<1>2. IInv /\ OrderInv /\ OneAtTheDoor' /\ [Next]_vars => OrderInv' BY OrderStep
<1>3. IInv /\ OrderInv => TakenInOrder BY OrderMeans
<1>4. QED BY <1>1, <1>2, <1>3, InvariantHolds, PTL DEF Spec

\* With one worker (WAZZAP_INBOUND_WORKERS = 1) nothing else is needed.
THEOREM OneWorkerKeepsOrder ==
  ASSUME \A c, d \in Workers : c = d
  PROVE  Spec => []TakenInOrder
<1>1. OneAtTheDoor BY DEF OneAtTheDoor
<1>2. QED BY <1>1, TakenUpInOrder, PTL

-----------------------------------------------------------------------------
(* The chat implements OneReply: every step is one of the promise's, or leaves *)
(* what the promise speaks of alone.                                       *)

\* The anchor of a turn has not joined another message; a reset may have cancelled it.
AnchorsMayRun ==
  \A j \in jobs :
    j.step \in {"prepare", "generate"} /\ Last(j.batch) \in Wanted =>
      \/ row[Last(j.batch)] \in Unfinished \cup {"ignored"}
      \/ row[Last(j.batch)] = "batched" /\ anchorOf[Last(j.batch)] = Last(j.batch)

PromiseStep == [Promise!Next]_(Promise!vars)

\* Only a claim says who answers for whom.
LEMMA AnchorsRest ==
  ASSUME IInv, [Next]_vars, ~ \E j \in jobs : ClaimBatch(j)
  PROVE  anchorOf' = anchorOf
<1> USE DEF inbox, queue, flags, lock, recovery, seen, counters
<1>1. QED
  BY StepCases
     DEF vars, Deliver, Redeliver, Route, Ignore, Resume, Admit, Acquire, Check, Execute, Close,
         Release, RouteFails, IgnoreFails, ResumeFails, CommandFails, Fails, RecoverList,
         RecoverNext, RecoverDone, RecoverListFails, StartTurn, Crash, Prepare, Generate,
         EndTurn, ReadInbox, EndRefill, ClaimBatchFails, PrepareFails, GenerateFails,
         ReadInboxFails

\* The last message of what a claim takes is fresh or was started before.
LEMMA ClaimedAnchor ==
  ASSUME IInv, NEW j \in jobs, j.step = "claim", NEW taken \in Seq(Msgs), NEW claimed \in Seq(Msgs),
         NEW rest \in Seq(Msgs), ClaimTakes(j, taken, claimed, rest), claimed # <<>>
  PROVE  /\ Last(claimed) \in Msgs \ Commands
         /\ row[Last(claimed)] \in Unfinished /\ ~Stale(Last(claimed))
         /\ Last(claimed) \in Elems(Absorbed(claimed)) => row[Last(claimed)] = "received"
<1> DEFINE a == Last(claimed)
<1>1. /\ Elems(j.batch) = Elems(taken) \cup Elems(rest)
      /\ Elems(claimed) = {m \in Elems(taken) : Fresh(m) \/ Started(m)}
      /\ \A m \in Elems(Absorbed(claimed)) : Fresh(m)
  BY DEF ClaimTakes
<1>2. a \in Elems(claimed) /\ a \in Msgs BY LastIn, ElemsIn
<1>3. Elems(j.batch) \subseteq Elems(arrived) \ Commands BY TheJob DEF HoldsQueueable, Queueable
<1>4. a \in Elems(arrived) \ Commands BY <1>1, <1>2, <1>3
<1>5. Arrival(a) \in Int /\ resetAt \in Int
  <2>1. Arrival(a) \in DOMAIN arrived BY <1>4, ArrivalIs DEF IInv
  <2>2. arrived \in Seq(Msgs) /\ resetAt \in 0..Len(arrived) BY DEF IInv, TypeOK, InboxTypeOK
  <2>3. QED BY <2>1, <2>2
<1> HIDE DEF a
<1>6. Fresh(a) \/ Started(a) BY <1>1, <1>2
<1>7. row[a] \in Unfinished BY <1>6 DEF Fresh, Started, Unfinished
<1>8. ~Stale(a) BY <1>5, <1>6 DEF Fresh, Started, Stale
<1>9. a \in Elems(Absorbed(claimed)) => row[a] = "received" BY <1>1 DEF Fresh
<1>10. QED BY <1>2, <1>4, <1>7, <1>8, <1>9 DEF a

LEMMA AnchorsStep ==
  ASSUME IInv, AnchorsMayRun, [Next]_vars
  PROVE  AnchorsMayRun'
<1> USE DEF inbox, queue, flags, lock, recovery, seen, counters
<1>1. /\ row \in [Msgs -> RowStates] /\ anchorOf \in [Msgs -> Msgs \cup {NoMsg}]
      /\ Wanted' = Wanted
  BY KindStep DEF IInv, TypeOK, InboxTypeOK, SeenTypeOK
<1>2. SUFFICES ASSUME NEW k \in jobs', k.step \in {"prepare", "generate"},
                      Last(k.batch) \in Wanted
               PROVE  \/ row'[Last(k.batch)] \in Unfinished \cup {"ignored"}
                      \/ row'[Last(k.batch)] = "batched" /\ anchorOf'[Last(k.batch)] = Last(k.batch)
  BY <1>1 DEF AnchorsMayRun, Last
<1>3. ASSUME NEW j \in jobs, NEW i, Replace(j, i) PROVE k = i
  BY <1>2, <1>3, TheJob DEF Replace
<1>4. ASSUME NEW j \in jobs, NEW rest, NEW redo, NEW failed, End(j, rest, redo, failed) PROVE FALSE
  <2>1. k = Job("end", <<>>, rest, redo, failed) BY <1>3, <1>4 DEF End
  <2>2. QED BY <2>1, <1>2 DEF Job
<1>5. CASE \E j \in jobs : ClaimBatch(j)
  <2>1. PICK j \in jobs : ClaimBatch(j) BY <1>5
  <2>2. j.step = "claim" BY <2>1 DEF ClaimBatch
  <2>3. PICK taken \in Seq(Msgs), claimed \in Seq(Msgs), rest \in Seq(Msgs) :
          ClaimTakes(j, taken, claimed, rest)
    BY <2>1, <1>4, ClaimOutcome
  <2>4. claimed # <<>> /\ Replace(j, Job("prepare", claimed, rest, <<>>, FALSE))
    BY <2>3, <1>4 DEF ClaimTakes
  <2>5. k.batch = claimed BY <2>4, <1>3 DEF Job
  <2>6. /\ Last(claimed) \in Msgs /\ row[Last(claimed)] \in Unfinished /\ ~Stale(Last(claimed))
    BY <2>2, <2>3, <2>4, ClaimedAnchor
  <2>7. /\ row' = [m \in Msgs |->
                     IF m \in Elems(Absorbed(claimed)) THEN "batched"
                     ELSE IF m \in Elems(taken) /\ Stale(m) THEN "ignored" ELSE row[m]]
        /\ anchorOf' = [m \in Msgs |->
                          IF m \in Elems(Absorbed(claimed)) THEN Last(claimed) ELSE anchorOf[m]]
    BY <2>3 DEF ClaimTakes
  <2>8. CASE Last(claimed) \in Elems(Absorbed(claimed)) BY <2>5, <2>6, <2>7, <2>8
  <2>9. CASE Last(claimed) \notin Elems(Absorbed(claimed)) BY <2>5, <2>6, <2>7, <2>9
  <2>10. QED BY <2>8, <2>9
<1>6. CASE \E j \in jobs : Prepare(j) \/ Generate(j) \/ GenerateFails(j)
  <2>1. PICK j \in jobs : Prepare(j) \/ Generate(j) \/ GenerateFails(j) BY <1>6
  <2>2. j.step = "prepare" /\ SetRow(Last(j.batch), "generating")
        /\ Replace(j, [j EXCEPT !.step = "generate"])
    BY <2>1, <1>4 DEF Prepare, Generate, GenerateFails
  <2>3. k.batch = j.batch
    <3>1. k = [j EXCEPT !.step = "generate"] BY <2>2, <1>3
    <3>2. QED BY <3>1, TheJob DEF Jobs
  <2>4. Last(j.batch) \in Msgs BY <2>2, AnchorIs
  <2>5. row'[Last(j.batch)] = "generating" BY <2>2, <2>4, <1>1 DEF SetRow
  <2>6. QED BY <2>3, <2>5 DEF Unfinished
<1>7. CASE \A j \in jobs : ~(ClaimBatch(j) \/ Prepare(j) \/ Generate(j) \/ GenerateFails(j))
  <2>1. k \in jobs
    <3>1. ASSUME NEW j \in jobs,
                 \/ EndTurn(j) \/ ReadInbox(j) \/ EndRefill(j)
                 \/ ClaimBatchFails(j) \/ PrepareFails(j) \/ ReadInboxFails(j)
          PROVE  k \in jobs
      <4>1. \/ \E rest, redo, failed : End(j, rest, redo, failed)
            \/ \E b, failed : Replace(j, Job("append", b, <<>>, <<>>, failed))
            \/ jobs' = jobs \ {j} \/ Refill(jobs \ {j})
        BY <3>1 DEF EndTurn, ReadInbox, EndRefill, ClaimBatchFails, PrepareFails, ReadInboxFails,
                    NewJob
      <4>2. ASSUME NEW b, NEW failed, Replace(j, Job("append", b, <<>>, <<>>, failed)) PROVE FALSE
        BY <4>2, <1>2, <1>3 DEF Job
      <4>3. ~ \E rest, redo, failed : End(j, rest, redo, failed) BY <1>4
      <4>4. ASSUME Refill(jobs \ {j}) PROVE k \in jobs
        BY <4>4, <1>2 DEF Refill, NewJob, Job
      <4>5. CASE jobs' = jobs \ {j} BY <4>5
      <4>6. QED BY <4>1, <4>2, <4>3, <4>4, <4>5
    <3>2. CASE StartTurn
      <4>1. jobs' = jobs \/ \E b : jobs' = jobs \cup {NewJob("claim", b)} BY <3>2 DEF StartTurn
      <4>2. QED BY <4>1, <1>2 DEF NewJob, Job
    <3>3. ASSUME NEW c \in Callers, Release(c) PROVE k \in jobs
      BY <3>3, <1>2 DEF Release, Refill, NewJob, Job
    <3>4. QED
      BY StepCases, <1>2, <1>7, <3>1, <3>2, <3>3
         DEF vars, Deliver, Redeliver, Route, Ignore, Resume, Admit, Acquire, Check, Execute,
             Close, RouteFails, IgnoreFails, ResumeFails, CommandFails, RecoverList, RecoverNext,
             RecoverDone, RecoverListFails, Crash
  <2>2. Last(k.batch) \in Elems(arrived) BY <2>1, <1>2, AnchorIs
  <2>3. row'[Last(k.batch)] \in {row[Last(k.batch)], "ignored"} BY <2>2, <1>2, <1>7, QuietRows
  <2>4. anchorOf' = anchorOf BY <1>7, AnchorsRest
  <2>5. QED BY <2>1, <2>3, <2>4, <1>2 DEF AnchorsMayRun
<1>8. QED BY <1>5, <1>6, <1>7

\* What the promise calls the state of a row.
LEMMA FatesAre ==
  ASSUME NEW s \in RowStates
  PROVE  /\ FateOf(s) = "unheard" <=> s = "absent"
         /\ FateOf(s) = "waiting" <=> s = "received"
         /\ FateOf(s) = "underway" <=> s \in {"generating", "retryable"}
         /\ FateOf(s) = "joined" <=> s = "batched"
         /\ FateOf(s) = "discarded" <=> s = "ignored"
         /\ s \in {"answered", "failed"} => FateOf(s) = s
  BY DEF FateOf, RowStates, Unfinished, Settled

LEMMA FateStays ==
  ASSUME Commands' = Commands, NEW m \in Msgs, m \in Commands \/ row'[m] = row[m]
  PROVE  Fate(m)' = Fate(m)
  BY DEF Fate

LEMMA PromiseRests ==
  ASSUME Commands' = Commands, anchorOf' = anchorOf, \A m \in Msgs \ Commands : row'[m] = row[m]
  PROVE  PromiseStep
<1>1. \A m \in Msgs : Fate(m)' = Fate(m) BY FateStays
<1>2. QED BY <1>1 DEF PromiseStep, Promise!vars

\* One AI message moves on.
LEMMA OneMoves ==
  ASSUME Commands' = Commands, anchorOf' = anchorOf, NEW n \in Msgs \ Commands, NEW s,
         row \in [Msgs -> RowStates], row' = [row EXCEPT ![n] = s]
  PROVE  Promise!Move(n, FateOf(s))
<1>1. \A m \in Msgs \ {n} : Fate(m)' = Fate(m) BY FateStays
<1>2. Fate(n)' = FateOf(s) BY DEF Fate
<1>3. QED BY <1>1, <1>2 DEF Promise!Move

\* A claim: each message keeps its fate, joins the last one or is discarded.
LEMMA ClaimIsPromised ==
  ASSUME IInv, [Next]_vars, NEW j \in jobs, ClaimBatch(j)
  PROVE  PromiseStep
<1>1. /\ Commands' = Commands /\ row \in [Msgs -> RowStates] /\ j.step = "claim"
  BY KindStep DEF IInv, TypeOK, InboxTypeOK, ClaimBatch
<1>2. CASE UNCHANGED <<row, anchorOf>> BY <1>1, <1>2, PromiseRests
<1>3. ASSUME NEW taken \in Seq(Msgs), NEW claimed \in Seq(Msgs), NEW rest \in Seq(Msgs),
             ClaimTakes(j, taken, claimed, rest)
      PROVE  PromiseStep
  <2> DEFINE a == Last(claimed)
  <2>1. /\ Elems(j.batch) = Elems(taken) \cup Elems(rest)
        /\ \A m \in Elems(Absorbed(claimed)) : row[m] = "received" /\ m \in Elems(claimed)
        /\ Elems(claimed) \subseteq Elems(taken)
        /\ row' = [m \in Msgs |->
                     IF m \in Elems(Absorbed(claimed)) THEN "batched"
                     ELSE IF m \in Elems(taken) /\ Stale(m) THEN "ignored" ELSE row[m]]
        /\ anchorOf' = [m \in Msgs |->
                          IF m \in Elems(Absorbed(claimed)) THEN a ELSE anchorOf[m]]
    BY <1>3 DEF ClaimTakes, Fresh
  <2>2. Elems(taken) \cap Commands = {} /\ Elems(Absorbed(claimed)) \cap Commands = {}
    <3>1. Elems(j.batch) \cap Commands = {} BY <1>1, TheJob DEF HoldsQueueable, Queueable
    <3>2. QED BY <2>1, <3>1
  <2>3. claimed # <<>> =>
          /\ a \in Msgs \ Commands /\ row[a] \in Unfinished /\ ~Stale(a)
          /\ a \in Elems(Absorbed(claimed)) => row[a] = "received"
    BY <1>1, <1>3, ClaimedAnchor
  <2> HIDE DEF a
  <2>4. ASSUME NEW m \in Msgs
        PROVE  \/ Promise!Keeps(m) /\ m \notin Elems(Absorbed(claimed))
               \/ Promise!Discards(m) /\ Stale(m)
               \/ Promise!Joins(m, a) /\ m \in Elems(Absorbed(claimed))
    <3>1. CASE m \in Elems(Absorbed(claimed))
      <4>1. row[m] = "received" /\ row'[m] = "batched" /\ anchorOf'[m] = a /\ m \notin Commands
        BY <2>1, <2>2, <3>1
      <4>2. Fate(m) = "waiting" /\ Fate(m)' = "joined" BY <1>1, <4>1 DEF Fate, FateOf
      <4>3. QED BY <3>1, <4>1, <4>2 DEF Promise!Joins
    <3>2. CASE m \notin Elems(Absorbed(claimed)) /\ m \in Elems(taken) /\ Stale(m)
      <4>1. /\ row[m] = "received" /\ row'[m] = "ignored" /\ anchorOf'[m] = anchorOf[m]
            /\ m \notin Commands
        BY <2>1, <2>2, <3>2 DEF Stale
      <4>2. Fate(m) = "waiting" /\ Fate(m)' = "discarded" BY <1>1, <4>1 DEF Fate, FateOf
      <4>3. QED BY <3>2, <4>1, <4>2 DEF Promise!Discards
    <3>3. CASE m \notin Elems(Absorbed(claimed)) /\ ~(m \in Elems(taken) /\ Stale(m))
      <4>1. row'[m] = row[m] /\ anchorOf'[m] = anchorOf[m] BY <2>1, <3>3
      <4>2. Fate(m)' = Fate(m) BY <1>1, <4>1, FateStays
      <4>3. QED BY <3>3, <4>1, <4>2 DEF Promise!Keeps
    <3>4. QED BY <3>1, <3>2, <3>3
  <2>5. CASE claimed = <<>>
    <3>1. Elems(Absorbed(claimed)) = {} BY <2>1, <2>5, ElemsEmpty
    <3>2. Promise!Discard BY <2>4, <3>1 DEF Promise!Discard
    <3>3. QED BY <3>2 DEF PromiseStep, Promise!Next
  <2>6. CASE claimed # <<>>
    <3>1. Fate(a) \in {"waiting", "underway"}
      <4>1. a \notin Commands /\ row[a] \in {"received", "generating", "retryable"}
        BY <2>3, <2>6 DEF Unfinished
      <4>2. QED BY <4>1 DEF Fate, FateOf
    <3>2. Promise!Keeps(a) \/ Promise!Joins(a, a) BY <2>3, <2>4, <2>6
    <3>3. Promise!TakeUp(a) BY <2>3, <2>4, <2>6, <3>1, <3>2 DEF Promise!TakeUp
    <3>4. QED BY <2>3, <2>6, <3>3 DEF PromiseStep, Promise!Next
  <2>7. QED BY <2>5, <2>6
<1>4. QED BY <1>2, <1>3, ClaimOutcome

\* A turn begins, begins again, is put off or ends.
LEMMA TurnIsPromised ==
  ASSUME IInv, AnchorsMayRun, [Next]_vars, NEW j \in jobs,
         Prepare(j) \/ Generate(j) \/ GenerateFails(j)
  PROVE  PromiseStep
<1>1. PICK a : a = Last(j.batch) OBVIOUS
<1>2. j.step \in {"prepare", "generate"} BY DEF Prepare, Generate, GenerateFails
<1>3. /\ Commands' = Commands /\ row \in [Msgs -> RowStates] /\ anchorOf' = anchorOf
      /\ a \in Msgs \ Commands
  <2>1. a \in Msgs \ Commands BY <1>1, <1>2, AnchorIs
  <2>2. anchorOf' = anchorOf BY DEF Prepare, Generate, GenerateFails, seen
  <2>3. QED BY <2>1, <2>2, KindStep DEF IInv, TypeOK, InboxTypeOK
<1>4. CASE row' = row BY <1>3, <1>4, PromiseRests
<1>5. CASE Started(a) /\ row' = [row EXCEPT ![a] = "failed"]
  <2>1. FateOf("failed") = "failed" BY DEF FateOf
  <2>2. Promise!Move(a, "failed") BY <1>3, <1>5, <2>1, OneMoves
  <2>3. Fate(a) = "underway" BY <1>3, <1>5 DEF Started, Fate, FateOf
  <2>4. Promise!Settle(a) BY <1>3, <2>2, <2>3 DEF Promise!Settle
  <2>5. QED BY <1>3, <2>4 DEF PromiseStep, Promise!Next
<1>6. CASE Started(a) /\ row' = [row EXCEPT ![a] = "answered"]
  <2>1. FateOf("answered") = "answered" BY DEF FateOf
  <2>2. Promise!Move(a, "answered") BY <1>3, <1>6, <2>1, OneMoves
  <2>3. Fate(a) = "underway" BY <1>3, <1>6 DEF Started, Fate, FateOf
  <2>4. Promise!Settle(a) BY <1>3, <2>2, <2>3 DEF Promise!Settle
  <2>5. QED BY <1>3, <2>4 DEF PromiseStep, Promise!Next
<1>7. ASSUME NEW s \in {"generating", "retryable"}, row' = [row EXCEPT ![a] = s],
             \/ row[a] \in Unfinished
             \/ row[a] = "batched" /\ anchorOf[a] = a
      PROVE  PromiseStep
  <2>1. FateOf(s) = "underway" BY DEF FateOf
  <2>2. Promise!Move(a, "underway") BY <1>3, <1>7, <2>1, OneMoves
  <2>3. Fate(a) \in {"waiting", "underway"} \/ (Fate(a) = "joined" /\ anchorOf[a] = a)
    BY <1>3, <1>7 DEF Unfinished, Fate, FateOf
  <2>4. Promise!Begin(a) BY <1>3, <2>2, <2>3 DEF Promise!Begin
  <2>5. QED BY <1>3, <2>4 DEF PromiseStep, Promise!Next
<1>8. CASE Prepare(j)
  <2>1. \/ row' = row
        \/ Exhausted(a) /\ row' = [row EXCEPT ![a] = "failed"]
        \/ /\ Elems(j.batch) \cap Unwanted = {} /\ row[a] # "ignored"
           /\ row' = [row EXCEPT ![a] = "generating"]
    BY <1>1, <1>8 DEF Prepare, Blocked, SetRow
  <2>2. ASSUME Elems(j.batch) \cap Unwanted = {}, row[a] # "ignored",
               row' = [row EXCEPT ![a] = "generating"]
        PROVE  PromiseStep
    <3>1. a \in Elems(j.batch) BY <1>1, <1>2, AnchorIs
    <3>2. a \in Wanted
      <4>1. kind \in [Msgs -> MessageKinds] BY KindsOfMessages DEF IInv, TypeOK, InboxTypeOK
      <4>2. QED BY <4>1, <3>1, <2>2, <1>3 DEF Wanted, Unwanted, Commands, MessageKinds
    <3>3. row[a] \in Unfinished \/ (row[a] = "batched" /\ anchorOf[a] = a)
      BY <1>1, <1>2, <2>2, <3>2 DEF AnchorsMayRun
    <3>4. QED BY <1>7, <2>2, <3>3
  <2>3. QED BY <2>1, <2>2, <1>4, <1>5 DEF Exhausted
<1>9. CASE Generate(j) \/ GenerateFails(j)
  <2>1. \/ row' = row
        \/ /\ row[a] = "generating"
           /\ \E s \in {"retryable", "failed", "generating", "answered"} :
                row' = [row EXCEPT ![a] = s]
    BY <1>1, <1>9 DEF Generate, GenerateFails, SetRow
  <2>2. row[a] = "generating" => Started(a) /\ row[a] \in Unfinished BY DEF Started, Unfinished
  <2>3. QED BY <2>1, <2>2, <1>4, <1>5, <1>6, <1>7
<1>10. QED BY <1>8, <1>9

LEMMA StepIsPromised ==
  ASSUME IInv, AnchorsMayRun, [Next]_vars
  PROVE  PromiseStep
<1> USE DEF inbox, queue, flags, lock, recovery, seen, counters
<1>1. CASE \E j \in jobs : ClaimBatch(j) BY <1>1, ClaimIsPromised
<1>2. CASE \E j \in jobs : Prepare(j) \/ Generate(j) \/ GenerateFails(j) BY <1>2, TurnIsPromised
<1>3. CASE \A j \in jobs : ~(ClaimBatch(j) \/ Prepare(j) \/ Generate(j) \/ GenerateFails(j))
  <2>1. /\ Commands' = Commands /\ row \in [Msgs -> RowStates] /\ anchorOf' = anchorOf
    BY <1>3, KindStep, AnchorsRest DEF IInv, TypeOK, InboxTypeOK
  <2>2. CASE row' = row BY <2>1, <2>2, PromiseRests
  <2>3. ASSUME NEW c \in Workers, NEW n \in Msgs, Deliver(c, n) PROVE PromiseStep
    <3>1. row[n] = "absent" /\ row' = [row EXCEPT ![n] = "received"] BY <2>3 DEF Deliver
    <3>2. CASE n \in Commands
      <4>1. \A m \in Msgs \ Commands : row'[m] = row[m] BY <2>1, <3>1, <3>2
      <4>2. QED BY <2>1, <4>1, PromiseRests
    <3>3. CASE n \notin Commands
      <4>1. FateOf("received") = "waiting" /\ Fate(n) = "unheard" BY <3>1, <3>3 DEF Fate, FateOf
      <4>2. Promise!Move(n, "waiting") BY <2>1, <3>1, <3>3, <4>1, OneMoves
      <4>3. Promise!Hear(n) BY <4>1, <4>2 DEF Promise!Hear
      <4>4. QED BY <4>3 DEF PromiseStep, Promise!Next
    <3>4. QED BY <3>2, <3>3
  <2>4. ASSUME NEW c \in Callers, Ignore(c), row' # row PROVE PromiseStep
    <3>1. at[c] = "ignore" /\ row[msg[c]] = "received" /\ row' = [row EXCEPT ![msg[c]] = "ignored"]
      BY <2>4 DEF Ignore, SetRow
    <3>2. PICK n \in Msgs \ Commands : n = msg[c]
      <4>1. msg[c] \in Unwanted BY <3>1 DEF IInv, CallersAreSound
      <4>2. QED BY <4>1, KindsDiffer DEF Unwanted
    <3>3. FateOf("ignored") = "discarded" /\ Fate(n) = "waiting" BY <3>1, <3>2 DEF Fate, FateOf
    <3>4. Promise!Move(n, "discarded") BY <2>1, <3>1, <3>2, <3>3, OneMoves
    <3>5. Promise!Discard
      <4>1. \A m \in Msgs \ {n} : Fate(m)' = Fate(m) BY <2>1, <3>1, <3>2, FateStays
      <4>2. Fate(n)' = "discarded" BY <2>1, <3>1, <3>2, <3>3 DEF Fate
      <4>3. ASSUME NEW m \in Msgs PROVE Promise!Keeps(m) \/ Promise!Discards(m)
        BY <2>1, <3>3, <4>1, <4>2 DEF Promise!Keeps, Promise!Discards
      <4>4. QED BY <4>3 DEF Promise!Discard
    <3>6. QED BY <3>5 DEF PromiseStep, Promise!Next
  <2>5. ASSUME NEW c \in Callers, Check(c) \/ Close(c) PROVE PromiseStep
    <3>1. at[c] \in {"check", "close"} BY <2>5 DEF Check, Close
    <3>2. msg[c] \in Commands BY <3>1 DEF IInv, CallersAreSound, InCommand, CommandSteps
    <3>3. row' = row \/ \E s : row' = [row EXCEPT ![msg[c]] = s] BY <2>5 DEF Check, Close, SetRow
    <3>4. \A m \in Msgs \ Commands : row'[m] = row[m] BY <2>1, <3>2, <3>3
    <3>5. QED BY <2>1, <3>4, PromiseRests
  <2>6. ASSUME NEW c \in Callers, Execute(c) PROVE PromiseStep
    <3>1. ASSUME NEW m \in Msgs PROVE Promise!Keeps(m) \/ Promise!Cancels(m)
      <4>1. row'[m] = row[m] \/ (Started(m) /\ row'[m] = "ignored") BY <2>6, ExecuteRows
      <4>2. CASE m \in Commands \/ row'[m] = row[m]
        <5>1. Fate(m)' = Fate(m) BY <2>1, <4>2, FateStays
        <5>2. QED BY <2>1, <5>1 DEF Promise!Keeps
      <4>3. CASE m \notin Commands /\ Started(m) /\ row'[m] = "ignored"
        <5>1. Fate(m) = "underway" /\ Fate(m)' = "discarded"
          BY <2>1, <4>3 DEF Started, Fate, FateOf
        <5>2. QED BY <2>1, <5>1 DEF Promise!Cancels
      <4>4. QED BY <4>1, <4>2, <4>3
    <3>2. Promise!Discard BY <3>1 DEF Promise!Discard
    <3>3. QED BY <3>2 DEF PromiseStep, Promise!Next
  <2>7. QED
    BY StepCases, <1>3, <2>2, <2>3, <2>4, <2>5, <2>6
       DEF vars, Redeliver, Route, Resume, Admit, Acquire, Release, RouteFails,
           IgnoreFails, ResumeFails, CommandFails, RecoverList, RecoverNext, RecoverDone,
           RecoverListFails, StartTurn, Crash, EndTurn, ReadInbox, EndRefill, ClaimBatchFails,
           PrepareFails, ReadInboxFails
<1>4. QED BY <1>1, <1>2, <1>3

\* A message is answered by one turn at most, its own or another's, whatever is
\* repeated, requeued, read back or started again after a crash, and not at all
\* once a reset has cancelled its turn, also one that is under way (ClaimBatch,
\* processBatch, the agent's claim of the anchor, ResetIfConfigVersion,
\* CommitPlan).
THEOREM EachIsAnsweredOnce == Spec => EachAnsweredOnce
<1>1. Init => AnchorsMayRun BY DEF Init, AnchorsMayRun
<1>2. IInv /\ AnchorsMayRun /\ [Next]_vars => AnchorsMayRun' BY AnchorsStep
<1>3. Init => Promise!Init
  <2>1. Init => \A m \in Msgs : Fate(m) = "unheard" BY DEF Init, Fate, FateOf
  <2>2. QED BY <2>1 DEF Init, Promise!Init
<1>4. IInv /\ AnchorsMayRun /\ [Next]_vars => [Promise!Next]_(Promise!vars)
  BY StepIsPromised DEF PromiseStep
<1>5. QED BY <1>1, <1>2, <1>3, <1>4, InvariantHolds, PTL DEF Spec, EachAnsweredOnce, Promise!Spec

\* What was answered, failed for good, discarded or joined to another message is
\* never given a turn again, also when the reset that discarded it came between
\* two steps of its turn (Prepare, Generate, ClaimBatch).
THEOREM SettledIsFinal == Spec => Promise!SettledForGood
<1>1. ASSUME [Promise!Next]_(Promise!vars)
      PROVE  [\A m \in Msgs : Promise!IsSettled(m) => Promise!Keeps(m)]_(Promise!vars)
  <2>1. CASE UNCHANGED Promise!vars BY <2>1
  <2>2. ASSUME Promise!Next, NEW m \in Msgs, Promise!IsSettled(m) PROVE Promise!Keeps(m)
    <3>1. ASSUME NEW n \in Msgs, NEW to, n # m, Promise!Move(n, to) PROVE Promise!Keeps(m)
      BY <3>1 DEF Promise!Move, Promise!Keeps
    <3>2. ~Promise!Hear(m) /\ ~Promise!Begin(m) /\ ~Promise!Settle(m)
      BY <2>2 DEF Promise!IsSettled, Promise!Hear, Promise!Begin, Promise!Settle
    <3>3. ASSUME NEW a PROVE ~Promise!Discards(m) /\ ~Promise!Cancels(m) /\ ~Promise!Joins(m, a)
      BY <2>2 DEF Promise!IsSettled, Promise!Discards, Promise!Cancels, Promise!Joins
    <3>4. ASSUME NEW n \in Msgs, Promise!Hear(n) \/ Promise!Begin(n) \/ Promise!Settle(n)
          PROVE  Promise!Keeps(m)
      <4>1. n # m BY <3>2, <3>4
      <4>2. \E to : Promise!Move(n, to)
        BY <3>4 DEF Promise!Hear, Promise!Begin, Promise!Settle
      <4>3. QED BY <3>1, <4>1, <4>2
    <3>5. ASSUME NEW n \in Msgs, Promise!TakeUp(n) PROVE Promise!Keeps(m)
      BY <3>3, <3>5 DEF Promise!TakeUp
    <3>6. CASE Promise!Discard BY <3>3, <3>6 DEF Promise!Discard
    <3>7. QED BY <2>2, <3>4, <3>5, <3>6 DEF Promise!Next
  <2>3. QED BY <1>1, <2>1, <2>2
<1>2. QED
  BY <1>1, EachIsAnsweredOnce, PTL DEF EachAnsweredOnce, Promise!Spec, Promise!SettledForGood
=============================================================================
