---------------------------- MODULE VvBufProofs ----------------------------
(***************************************************************************)
(* What the operations on a buffer queue do to its entries, for queues of  *)
(* any length.                                                             *)
(***************************************************************************)
EXTENDS VvBuf, TLAPS

\* A queue with no entry.
LEMMA NoEntry == Distinct(<<>>) /\ Entries(<<>>) = {} /\ \A c : ~OnList(<<>>, c)
BY DEF Distinct, OnList, Entries

\* The buffers of a queue are those on its list.
LEMMA EntriesFacts ==
    ASSUME NEW S, NEW q \in Seq(S)
    PROVE  /\ Entries(q) \subseteq S
           /\ \A c : c \in Entries(q) <=> OnList(q, c)
BY DEF Entries, OnList

\* vvbuf_push_buf adds one entry, and keeps entries distinct if it is new.
LEMMA PushBufFacts ==
    ASSUME NEW S, NEW q \in Seq(S), NEW b \in S
    PROVE  /\ PushBuf(q, b) \in Seq(S)
           /\ \A c : OnList(PushBuf(q, b), c) <=> OnList(q, c) \/ c = b
           /\ Distinct(q) /\ ~OnList(q, b) => Distinct(PushBuf(q, b))
<1>1. /\ PushBuf(q, b) \in Seq(S)
      /\ DOMAIN q = 1 .. Len(q) /\ Len(q) \in Nat
      /\ DOMAIN PushBuf(q, b) = 1 .. (Len(q) + 1)
      /\ \A k \in 1 .. Len(q) : PushBuf(q, b)[k] = q[k]
      /\ PushBuf(q, b)[Len(q) + 1] = b
  BY DEF PushBuf
<1>2. ASSUME NEW c PROVE OnList(PushBuf(q, b), c) <=> OnList(q, c) \/ c = b
  BY <1>1 DEF OnList
<1>3. ASSUME Distinct(q), ~OnList(q, b) PROVE Distinct(PushBuf(q, b))
  BY <1>1, <1>3 DEF Distinct, OnList
<1> QED
  BY <1>1, <1>2, <1>3

\* vvbuf_pull_buf takes the first entry, and only that one, off the list.
LEMMA PullBufFacts ==
    ASSUME NEW S, NEW q \in Seq(S), Pullable(q)
    PROVE  /\ PullBuf(q) \in Seq(S)
           /\ TryDqbuf(q) \in S
           /\ \A c : OnList(q, c) <=> OnList(PullBuf(q), c) \/ c = TryDqbuf(q)
           /\ Distinct(q) => /\ Distinct(PullBuf(q))
                             /\ ~OnList(PullBuf(q), TryDqbuf(q))
<1>1. /\ PullBuf(q) \in Seq(S)
      /\ Len(q) \in Nat \ {0}
      /\ DOMAIN q = 1 .. Len(q)
      /\ TryDqbuf(q) = q[1] /\ q[1] \in S
      /\ DOMAIN PullBuf(q) = 1 .. (Len(q) - 1)
      /\ \A k \in 1 .. (Len(q) - 1) : PullBuf(q)[k] = q[k + 1]
  BY DEF PullBuf, TryDqbuf, Pullable
<1>2. ASSUME NEW c
      PROVE  OnList(q, c) <=> OnList(PullBuf(q), c) \/ c = TryDqbuf(q)
  <2>1. ASSUME OnList(q, c), c # TryDqbuf(q) PROVE OnList(PullBuf(q), c)
    <3>1. PICK k \in DOMAIN q : q[k] = c
      BY <2>1 DEF OnList
    <3>2. k - 1 \in 1 .. (Len(q) - 1) /\ PullBuf(q)[k - 1] = c
      BY <1>1, <2>1, <3>1
    <3> QED
      BY <1>1, <3>2 DEF OnList
  <2>2. ASSUME OnList(PullBuf(q), c) PROVE OnList(q, c)
    <3>1. PICK k \in 1 .. (Len(q) - 1) : PullBuf(q)[k] = c
      BY <1>1, <2>2 DEF OnList
    <3>2. k + 1 \in DOMAIN q /\ q[k + 1] = c
      BY <1>1, <3>1
    <3> QED
      BY <3>2 DEF OnList
  <2>3. OnList(q, TryDqbuf(q))
    BY <1>1 DEF OnList
  <2> QED
    BY <2>1, <2>2, <2>3
<1>3. ASSUME Distinct(q)
      PROVE  Distinct(PullBuf(q)) /\ ~OnList(PullBuf(q), TryDqbuf(q))
  <2>1. ASSUME NEW j \in DOMAIN PullBuf(q), NEW k \in DOMAIN PullBuf(q),
               PullBuf(q)[j] = PullBuf(q)[k]
        PROVE  j = k
    <3>1. j + 1 \in DOMAIN q /\ k + 1 \in DOMAIN q /\ q[j + 1] = q[k + 1]
      BY <1>1, <2>1
    <3> QED
      BY <1>1, <1>3, <3>1 DEF Distinct
  <2>2. ASSUME NEW k \in DOMAIN PullBuf(q) PROVE PullBuf(q)[k] # q[1]
    <3>1. k + 1 \in DOMAIN q /\ k + 1 # 1 /\ 1 \in DOMAIN q
      BY <1>1
    <3> QED
      BY <1>1, <1>3, <3>1 DEF Distinct
  <2> QED
    BY <1>1, <2>1, <2>2 DEF Distinct, OnList
<1> QED
  BY <1>1, <1>2, <1>3
=============================================================================
