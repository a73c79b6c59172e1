---------------------------- MODULE QueueLemmas -----------------------------
(***************************************************************************)
(* Facts about the two containers the kernel keeps identifiers and tasks   *)
(* in: a Vec used as a stack (push, pop) and a VecDeque used as a FIFO     *)
(* queue (push_back, pop_front).  Each operation keeps the container free  *)
(* of repetitions and changes its elements by exactly the one it names.    *)
(***************************************************************************)
EXTENDS Integers, Sequences, Functions, TLAPS

\* A sequence is a function on an interval that starts at 1.
LEMMA SeqIsFunction ==
  ASSUME NEW S, NEW s \in Seq(S)
  PROVE  Len(s) \in Nat /\ DOMAIN s = 1..Len(s) /\ s \in [1..Len(s) -> S]
OBVIOUS

\* Only the empty sequence has no element.
LEMMA SeqIsEmpty ==
  ASSUME NEW S
  PROVE  <<>> \in Seq(S) /\ Len(<<>>) = 0 /\ \A s \in Seq(S) : s # <<>> => Len(s) \in Nat \ {0}
OBVIOUS

\* What Append, Tail, SubSeq and concatenation do to the elements.
LEMMA SeqAppend ==
  ASSUME NEW S, NEW s \in Seq(S), NEW e \in S
  PROVE  /\ Append(s, e) \in Seq(S) /\ Append(s, e) # <<>> /\ Len(Append(s, e)) = Len(s) + 1
         /\ Append(s, e)[Len(s) + 1] = e
         /\ \A k \in 1..Len(s) : Append(s, e)[k] = s[k]
OBVIOUS

LEMMA SeqTail ==
  ASSUME NEW S, NEW s \in Seq(S), s # <<>>
  PROVE  /\ Head(s) \in S /\ Tail(s) \in Seq(S) /\ Len(Tail(s)) = Len(s) - 1
         /\ \A k \in 1..Len(Tail(s)) : Tail(s)[k] = s[k + 1]
OBVIOUS

LEMMA SeqPart ==
  ASSUME NEW S, NEW s, NEW m \in Int, NEW n \in Int, \A k \in m..n : s[k] \in S
  PROVE  /\ SubSeq(s, m, n) \in Seq(S)
         /\ Len(SubSeq(s, m, n)) = IF m <= n THEN n - m + 1 ELSE 0
         /\ \A k \in 1..(n - m + 1) : SubSeq(s, m, n)[k] = s[m + k - 1]
OBVIOUS

LEMMA SeqConcat ==
  ASSUME NEW S, NEW s \in Seq(S), NEW r \in Seq(S)
  PROVE  /\ s \o r \in Seq(S) /\ Len(s \o r) = Len(s) + Len(r)
         /\ \A k \in 1..(Len(s) + Len(r)) :
              (s \o r)[k] = IF k <= Len(s) THEN s[k] ELSE r[k - Len(s)]
OBVIOUS

\* Vec::push and VecDeque::push_back: one element joins.
LEMMA PushElements ==
  ASSUME NEW S, NEW s \in Seq(S), NEW e \in S
  PROVE  /\ Append(s, e) \in Seq(S)
         /\ Range(Append(s, e)) = Range(s) \cup {e}
         /\ Append(s, e) # <<>>
<1>1. Append(s, e) \in Seq(S) /\ Len(Append(s, e)) = Len(s) + 1
  BY SeqAppend
<1>2. \A i \in 1..Len(s) : Append(s, e)[i] = s[i]
  BY SeqAppend
<1>3. Append(s, e)[Len(s) + 1] = e
  BY SeqAppend
<1>4. DOMAIN s = 1..Len(s) /\ DOMAIN Append(s, e) = 1..(Len(s) + 1)
  BY <1>1, SeqIsFunction
<1>5. Range(Append(s, e)) = Range(s) \cup {e}
  BY <1>1, <1>2, <1>3, <1>4, SeqIsFunction DEF Range
<1> QED
  BY <1>1, <1>5, SeqIsFunction

\* Pushing an element that is not there yet keeps the container free of
\* repetitions.
LEMMA PushInjective ==
  ASSUME NEW S, NEW s \in Seq(S), NEW e \in S, IsInjective(s), e \notin Range(s)
  PROVE  IsInjective(Append(s, e))
<1>1. Append(s, e) \in Seq(S) /\ Len(Append(s, e)) = Len(s) + 1
  BY SeqAppend
<1>2. \A i \in 1..Len(s) : Append(s, e)[i] = s[i]
  BY SeqAppend
<1>3. Append(s, e)[Len(s) + 1] = e
  BY SeqAppend
<1>4. DOMAIN s = 1..Len(s) /\ DOMAIN Append(s, e) = 1..(Len(s) + 1)
  BY <1>1, SeqIsFunction
<1>5. \A i \in 1..Len(s) : s[i] # e
  BY <1>4 DEF Range
<1>6. \A i, j \in 1..Len(s) : s[i] = s[j] => i = j
  BY <1>4 DEF IsInjective
<1>7. SUFFICES ASSUME NEW i \in 1..(Len(s) + 1), NEW j \in 1..(Len(s) + 1),
                      Append(s, e)[i] = Append(s, e)[j]
               PROVE  i = j
  BY <1>4 DEF IsInjective
<1>8. Len(s) \in Nat
  BY SeqIsFunction
<1>9. CASE i = Len(s) + 1 \/ j = Len(s) + 1
  BY <1>2, <1>3, <1>5, <1>7, <1>8, <1>9
<1>10. CASE i \in 1..Len(s) /\ j \in 1..Len(s)
  BY <1>2, <1>6, <1>7, <1>10
<1> QED
  BY <1>8, <1>9, <1>10

\* Vec::pop: the last element leaves.
LEMMA PopElements ==
  ASSUME NEW S, NEW s \in Seq(S), s # <<>>
  PROVE  LET front == SubSeq(s, 1, Len(s) - 1)
             last == s[Len(s)]
         IN  /\ front \in Seq(S) /\ last \in Range(s) /\ last \in S
             /\ Range(s) = Range(front) \cup {last}
             /\ IsInjective(s) => IsInjective(front) /\ last \notin Range(front)
<1> DEFINE front == SubSeq(s, 1, Len(s) - 1)
           last == s[Len(s)]
<1>1. Len(s) \in Nat \ {0} /\ DOMAIN s = 1..Len(s)
  BY SeqIsFunction, SeqIsEmpty
<1>2. /\ front \in Seq(S)
      /\ DOMAIN front = 1..(Len(s) - 1)
      /\ \A i \in 1..(Len(s) - 1) : front[i] = s[i]
  BY <1>1
<1>3. last = s[Len(s)] /\ Len(s) \in 1..Len(s)
  BY <1>1
<1> HIDE DEF front, last
<1>4. last \in Range(s) /\ last \in S
  BY <1>1, <1>3, SeqIsFunction DEF Range
<1>5. Range(s) = Range(front) \cup {last}
  BY <1>1, <1>2, <1>3 DEF Range
<1>6. ASSUME IsInjective(s)
      PROVE  IsInjective(front) /\ last \notin Range(front)
  BY <1>1, <1>2, <1>3, <1>6 DEF Range, IsInjective
<1> QED
  BY <1>2, <1>4, <1>5, <1>6 DEF front, last

\* VecDeque::pop_front: the first element leaves.
LEMMA PopFrontElements ==
  ASSUME NEW S, NEW s \in Seq(S), s # <<>>
  PROVE  /\ Tail(s) \in Seq(S)
         /\ Head(s) \in Range(s)
         /\ Head(s) \in S
         /\ Range(s) = Range(Tail(s)) \cup {Head(s)}
         /\ IsInjective(s) => IsInjective(Tail(s)) /\ Head(s) \notin Range(Tail(s))
<1>1. Len(s) \in Nat \ {0} /\ DOMAIN s = 1..Len(s)
  BY SeqIsFunction, SeqIsEmpty
<1>2. /\ Tail(s) \in Seq(S)
      /\ Len(Tail(s)) = Len(s) - 1
      /\ \A i \in 1..(Len(s) - 1) : Tail(s)[i] = s[i + 1]
  BY SeqTail
<1>3. DOMAIN Tail(s) = 1..(Len(s) - 1)
  BY <1>2, SeqIsFunction
<1>4. Head(s) = s[1] /\ 1 \in 1..Len(s)
  BY <1>1
<1>5. Head(s) \in Range(s) /\ Head(s) \in S
  BY <1>1, <1>4, SeqIsFunction DEF Range
<1>6. Range(s) = Range(Tail(s)) \cup {Head(s)}
  <2>1. ASSUME NEW i \in 1..Len(s)
        PROVE  s[i] \in Range(Tail(s)) \cup {Head(s)}
    <3>1. CASE i = 1
      BY <3>1, <1>4
    <3>2. CASE i # 1
      <4>1. i - 1 \in 1..(Len(s) - 1) /\ (i - 1) + 1 = i
        BY <1>1, <3>2
      <4> QED
        BY <4>1, <1>2, <1>3 DEF Range
    <3> QED
      BY <3>1, <3>2
  <2>2. ASSUME NEW i \in 1..(Len(s) - 1)
        PROVE  Tail(s)[i] \in Range(s)
    <3>1. i + 1 \in 1..Len(s)
      BY <1>1
    <3> QED
      BY <3>1, <1>1, <1>2 DEF Range
  <2> QED
    BY <1>1, <1>3, <1>5, <2>1, <2>2 DEF Range
<1>7. ASSUME IsInjective(s)
      PROVE  IsInjective(Tail(s)) /\ Head(s) \notin Range(Tail(s))
  <2>1. ASSUME NEW i \in 1..(Len(s) - 1)
        PROVE  i + 1 \in DOMAIN s /\ Tail(s)[i] = s[i + 1] /\ i + 1 # 1
    BY <1>1, <1>2
  <2> QED
    BY <1>1, <1>3, <1>4, <1>7, <2>1 DEF Range, IsInjective
<1> QED
  BY <1>2, <1>5, <1>6, <1>7

\* A new container holds nothing, hence nothing twice.
LEMMA EmptyElements ==
  Range(<<>>) = {} /\ IsInjective(<<>>)
BY DEF Range, IsInjective

\* Whatever a container of S holds is in S.
LEMMA ElementsIn ==
  ASSUME NEW S, NEW s \in Seq(S)
  PROVE  Range(s) \subseteq S
BY SeqIsFunction DEF Range
=============================================================================
