----------------------------- MODULE Child_proofs -----------------------------
(***************************************************************************)
(* The two ends of a child's pipes: the mail server, which is one such     *)
(* child, and the broker's client for any of them.                         *)
(*                                                                         *)
(* The mail server replies to every line that is owed a reply, in order    *)
(* and under its id, and what it reports of the mailbox is right when it   *)
(* is written, although others have used the mailbox since it was found.   *)
(* The inductive invariant says so of every intermediate result too: of    *)
(* the UIDs found while they wait to be fetched and of the reply while the *)
(* session is being closed.  It implements WellMeaningChild, which is what *)
(* ChildClient takes for granted of its child.                             *)
(*                                                                         *)
(* The client returns a request's own answer (ChildClient!AnswerIsOurs),   *)
(* for every pipe capacity, timeout and number of requests, and whatever   *)
(* the child prints.  The inductive invariant adds to TypeOK that every    *)
(* answer in the pipe or the channel was given by the child, and that a    *)
(* request in progress has an id and, while it is written, something left  *)
(* to write.                                                               *)
(***************************************************************************)
EXTENDS ChildClient, MailServer, FiniteSetTheorems, FunctionTheorems, SequenceTheorems,
        WellFoundedInduction, TLAPS

-----------------------------------------------------------------------------
(* Descending sorts.  An induction over the mailbox, as the absence of a     *)
(* least bound below which a set has no sorted sequence.                    *)

NatOrder == {ss \in Nat \X Nat : ss[1] < ss[2]}

LEMMA NatOrderWellFounded == IsWellFoundedOn(NatOrder, Nat)
  BY NatLessThanWellFounded DEF OpToRel, NatOrder

LEMMA Smallest ==
  ASSUME NEW T, T \subseteq Nat, T # {}
  PROVE  \E n \in T : \A m \in T : n <= m
  <1>0. \E n \in T : \A m \in T : ~(<<m, n>> \in NatOrder)
    BY NatOrderWellFounded, WFMin, Zenon
  <1>1. PICK n \in T : \A m \in T : ~(<<m, n>> \in NatOrder)
    BY <1>0, Zenon
  <1>2. \A m \in T : m \in Nat /\ n \in Nat /\ ~(m < n)
    BY <1>1 DEF NatOrder
  <1>. QED BY <1>2

\* s is the members of S, newest first.
Sorts(s, S) ==
  /\ s \in [1..Cardinality(S) -> S]
  /\ \A i, j \in DOMAIN s : i < j => s[i] > s[j]

LEMMA BoundedIsFinite ==
  ASSUME NEW n \in Nat, NEW S \in SUBSET (1..n)
  PROVE  IsFiniteSet(S) /\ Cardinality(S) \in Nat
  <1>1. IsFiniteSet(1..n)
    BY FS_Interval
  <1>2. IsFiniteSet(S)
    BY <1>1, FS_Subset
  <1>. QED BY <1>2, FS_CardinalityType

\* A member above all the others goes in front of them.
LEMMA PutInFront ==
  ASSUME NEW n \in Nat, NEW R \in SUBSET (1..n), NEW r, Sorts(r, R)
  PROVE  \E s : Sorts(s, R \union {n + 1})
  <1>. DEFINE S == R \union {n + 1}
              s == [i \in 1..Cardinality(S) |-> IF i = 1 THEN n + 1 ELSE r[i - 1]]
  <1>1. Cardinality(R) \in Nat /\ Cardinality(S) = Cardinality(R) + 1
    <2>1. IsFiniteSet(R) /\ Cardinality(R) \in Nat /\ n + 1 \notin R
      BY BoundedIsFinite
    <2>. QED BY <2>1, FS_AddElement
  <1>. HIDE DEF S
  <1>2. \A i \in 1..Cardinality(S) : i # 1 => i - 1 \in 1..Cardinality(R) /\ r[i - 1] \in R
    BY <1>1 DEF Sorts
  <1>3. s \in [1..Cardinality(S) -> S]
    BY <1>1, <1>2 DEF S
  <1>4. ASSUME NEW i \in 1..Cardinality(S), NEW j \in 1..Cardinality(S), i < j
        PROVE  s[i] > s[j]
    <2>1. j # 1 /\ j - 1 \in 1..Cardinality(R) /\ s[j] = r[j - 1] /\ s[j] \in R
      BY <1>2, <1>4
    <2>2. CASE i = 1
      <3>1. s[i] = n + 1 /\ s[j] \in 1..n
        BY <2>1, <2>2
      <3>. QED BY <3>1
    <2>3. CASE i # 1
      BY <1>1, <1>2, <1>4, <2>1, <2>3 DEF Sorts
    <2>. QED BY <2>2, <2>3
  <1>. HIDE DEF s
  <1>. QED BY <1>3, <1>4 DEF Sorts, S

LEMMA SortExists ==
  ASSUME NEW n \in Nat, NEW S \in SUBSET (1..n)
  PROVE  \E s : Sorts(s, S)
  <1>. DEFINE Sortable(m) == \A X \in SUBSET (1..m) : \E s : Sorts(s, X)
              Bad == {m \in Nat : ~Sortable(m)}
  <1>. SUFFICES ASSUME Bad # {} PROVE FALSE
    OBVIOUS
  <1>1. PICK m \in Bad : \A k \in Bad : m <= k
    BY Smallest
  <1>2. PICK X \in SUBSET (1..m) : ~ \E s : Sorts(s, X)
    BY <1>1
  <1>3. m # 0
    <2>1. SUFFICES ASSUME m = 0 PROVE FALSE
      OBVIOUS
    <2>2. X = {}
      BY <1>2, <2>1
    <2>3. Cardinality(X) = 0
      BY <2>2, FS_EmptySet
    <2>4. Sorts([i \in 1..0 |-> 0], X)
      BY <2>3 DEF Sorts
    <2>. QED BY <1>2, <2>4
  <1>4. m \in Nat /\ m - 1 \in Nat /\ m - 1 \notin Bad
    BY <1>1, <1>3
  <1>5. Sortable(m - 1)
    BY <1>4
  <1>. HIDE DEF Bad
  <1>6. CASE m \notin X
    <2>1. \A x \in X : x \in 1..(m - 1)
      BY <1>2, <1>4, <1>6
    <2>. QED BY <1>2, <1>5, <2>1
  <1>7. CASE m \in X
    <2>1. X \ {m} \in SUBSET (1..(m - 1)) /\ X = (X \ {m}) \union {(m - 1) + 1}
      BY <1>2, <1>4, <1>7
    <2>2. PICK r : Sorts(r, X \ {m})
      BY <1>5, <2>1
    <2>3. \E s : Sorts(s, (X \ {m}) \union {(m - 1) + 1})
      BY <1>4, <2>1, <2>2, PutInFront
    <2>. QED BY <1>2, <2>1, <2>3
  <1>. QED BY <1>6, <1>7

LEMMA DescendingSorts ==
  ASSUME NEW n \in Nat, NEW S \in SUBSET (1..n)
  PROVE  /\ Sorts(Descending(S), S)
         /\ \A u \in S : \E i \in 1..Cardinality(S) : Descending(S)[i] = u
  <1>. DEFINE d == Descending(S)
  <1>1. Sorts(d, S)
    BY SortExists DEF Sorts, Descending
  <1>. HIDE DEF d
  <1>2. IsFiniteSet(S) /\ Cardinality(S) \in Nat
    BY BoundedIsFinite
  <1>3. d \in [1..Cardinality(S) -> S]
    BY <1>1 DEF Sorts
  <1>4. \A i, j \in 1..Cardinality(S) : d[i] = d[j] => i = j
    <2>1. SUFFICES ASSUME NEW i \in 1..Cardinality(S), NEW j \in 1..Cardinality(S),
                          i < j
                   PROVE  d[i] # d[j]
      <3>1. \A i, j \in 1..Cardinality(S) : i # j => i < j \/ j < i
        BY <1>2
      <3>. QED BY <3>1
    <2>2. d[i] > d[j]
      BY <1>1, <1>3, <2>1 DEF Sorts
    <2>3. d[i] \in 1..n /\ d[j] \in 1..n
      BY <1>3
    <2>. QED BY <2>2, <2>3
  <1>5. d \in Injection(1..Cardinality(S), S)
    BY <1>3, <1>4, Fun_IsInj
  <1>6. Cardinality(1..Cardinality(S)) = Cardinality(S)
    BY <1>2, FS_Interval
  <1>7. d \in Surjection(1..Cardinality(S), S)
    BY ONLY <1>2, <1>5, <1>6, FS_Injection
  <1>8. \A u \in S : \E i \in 1..Cardinality(S) : d[i] = u
    BY <1>7 DEF Surjection
  <1>. QED BY <1>1, <1>8 DEF d

LEMMA DescendingTyped ==
  ASSUME NEW n \in Nat, NEW S \in SUBSET (1..n)
  PROVE  /\ Cardinality(S) \in Nat
         /\ Descending(S) \in Seq(S)
         /\ Len(Descending(S)) = Cardinality(S)
         /\ DOMAIN Descending(S) = 1..Cardinality(S)
         /\ ToSet(Descending(S)) = S
         /\ \A i, j \in DOMAIN Descending(S) : i < j => Descending(S)[i] > Descending(S)[j]
  <1>. DEFINE d == Descending(S)
  <1>1. /\ Cardinality(S) \in Nat /\ d \in [1..Cardinality(S) -> S]
        /\ \A u \in S : \E i \in 1..Cardinality(S) : d[i] = u
        /\ \A i, j \in DOMAIN d : i < j => d[i] > d[j]
    BY BoundedIsFinite, DescendingSorts DEF Sorts
  <1>. HIDE DEF d
  <1>2. d \in Seq(S) /\ Len(d) = Cardinality(S)
    BY <1>1
  <1>3. ToSet(d) = S
    BY <1>1 DEF ToSet
  <1>. QED BY <1>1, <1>2, <1>3 DEF d

\* s is the newest of C, as many as the limit lets through: a member that is left
\* out has as many newer ones.
NewestFew(s, C, limit) ==
  /\ s \in Seq(C) /\ Len(s) <= limit
  /\ ToSet(s) \subseteq C
  /\ \A i, j \in DOMAIN s : i < j => s[i] > s[j]
  /\ \A u \in C \ ToSet(s) : Cardinality({v \in C : v > u}) >= limit
  /\ C # {} => s # <<>>

LEMMA TruncateKeepsNewest ==
  ASSUME NEW n \in Nat, NEW C \in SUBSET (1..n), NEW limit \in Nat \ {0},
         NEW s, s = Truncate(Descending(C), limit)
  PROVE  NewestFew(s, C, limit)
  <1>. DEFINE d == Descending(C)
              c == Cardinality(C)
  <1>1. /\ c \in Nat /\ d \in Seq(C) /\ Len(d) = c /\ DOMAIN d = 1..c /\ ToSet(d) = C
        /\ \A i, j \in DOMAIN d : i < j => d[i] > d[j]
    BY DescendingTyped
  <1>2. s = IF c <= limit THEN d ELSE SubSeq(d, 1, limit)
    BY <1>1 DEF Truncate
  <1>. HIDE DEF d, c
  <1>3. CASE c <= limit
    <2>1. s = d
      BY <1>2, <1>3
    <2>2. C # {} => s # <<>>
      <3>1. \A i \in DOMAIN <<>> : FALSE
        OBVIOUS
      <3>. QED BY <1>1, <2>1, <3>1 DEF ToSet
    <2>. QED BY <1>1, <1>3, <2>1, <2>2 DEF NewestFew
  <1>4. CASE ~(c <= limit)
    <2>1. /\ s \in Seq(C) /\ Len(s) = limit /\ DOMAIN s = 1..limit
          /\ \A i \in 1..limit : s[i] = d[i] /\ i \in 1..c /\ d[i] \in C
      BY <1>1, <1>2, <1>4
    <2>2. ToSet(s) \subseteq C
      BY <2>1 DEF ToSet
    <2>3. ASSUME NEW u \in C \ ToSet(s)
          PROVE  Cardinality({v \in C : v > u}) >= limit
      <3>. DEFINE newer == {v \in C : v > u}
      <3>1. PICK k \in 1..c : d[k] = u
        BY <1>1 DEF ToSet
      <3>2. \A i \in 1..limit : i < k
        <4>1. k \notin 1..limit
          BY <2>1, <2>3, <3>1 DEF ToSet
        <4>. QED BY <1>1, <4>1
      <3>3. \A i \in 1..limit : s[i] \in newer
        BY <1>1, <2>1, <3>1, <3>2
      <3>4. \A i, j \in 1..limit : s[i] = s[j] => i = j
        <4>1. ASSUME NEW i \in 1..limit, NEW j \in 1..limit, i < j PROVE s[i] # s[j]
          <5>1. d[i] > d[j] /\ d[i] \in 1..n /\ d[j] \in 1..n
            BY <1>1, <2>1, <4>1
          <5>. QED BY <2>1, <5>1
        <4>2. \A i, j \in 1..limit : i # j => i < j \/ j < i
          OBVIOUS
        <4>. QED BY <4>1, <4>2
      <3>5. newer \in SUBSET (1..n)
        OBVIOUS
      <3>. HIDE DEF newer
      <3>6. s \in [1..limit -> newer]
        BY <2>1, <3>3
      <3>7. s \in Injection(1..limit, newer)
        BY <3>4, <3>6, Fun_IsInj
      <3>8. IsFiniteSet(newer) /\ Cardinality(newer) \in Nat
        BY <3>5, BoundedIsFinite
      <3>9. Cardinality(1..limit) <= Cardinality(newer)
        BY ONLY <3>7, <3>8, FS_Injection
      <3>10. Cardinality(1..limit) = limit
        BY FS_Interval
      <3>. QED BY <3>8, <3>9, <3>10 DEF newer
    <2>4. \A i, j \in DOMAIN s : i < j => s[i] > s[j]
      BY <1>1, <2>1
    <2>5. s # <<>>
      BY <2>1
    <2>. QED BY <2>1, <2>2, <2>3, <2>4, <2>5 DEF NewestFew
  <1>. QED BY <1>3, <1>4

-----------------------------------------------------------------------------
(* What is right to report of a mailbox that changes: `all` has been in it   *)
(* since the line was read, `since` has been in it all along.               *)

IsListing(line) ==
  line \in ToolCalls /\ line.kind # "fetch_message" /\ ~BadArguments(line)

Wanted(line) == IF line.kind = "search" THEN MatchingUids ELSE 1..MaxUid

NewestOf(line, uids, all, since) ==
  /\ uids \in Seq(1..MaxUid)
  /\ Len(uids) <= Limit(line)
  /\ ToSet(uids) \subseteq all \intersect Wanted(line)
  /\ \A i, j \in DOMAIN uids : i < j => uids[i] > uids[j]
  /\ \A u \in (since \intersect Wanted(line)) \ ToSet(uids) :
       Cardinality({v \in all \intersect Wanted(line) : v > u}) >= Limit(line)

LEMMA LimitTyped ==
  ASSUME NEW line, IsListing(line)
  PROVE  /\ Limit(line) \in 1..MaxListLimit
         /\ Limit(line) = IF line.limit \in 1..MaxListLimit THEN line.limit
                          ELSE IF line.limit = NoLimit /\ line.kind = "list_messages"
                            THEN DefaultListLimit ELSE MaxListLimit
  <1>1. /\ DefaultListLimit \in Nat /\ MaxListLimit \in Nat
        /\ 1 <= DefaultListLimit /\ DefaultListLimit <= MaxListLimit
        /\ NoLimit \notin Nat
    BY MailAssumption
  <1>2. /\ line.kind \in {"list_messages", "search"}
        /\ line.limit \in Nat \union {NoLimit} /\ line.limit # 0
    BY MailAssumption DEF IsListing, ToolCalls, BadArguments
  <1>. QED BY <1>1, <1>2 DEF Limit, DefaultLimit

LEMMA NewerCounted ==
  ASSUME NEW C, NEW D \in SUBSET (1..MaxUid), C \subseteq D, NEW u
  PROVE  /\ Cardinality({v \in C : v > u}) \in Nat
         /\ Cardinality({v \in D : v > u}) \in Nat
         /\ Cardinality({v \in C : v > u}) <= Cardinality({v \in D : v > u})
  <1>. DEFINE c == {v \in C : v > u}
              d == {v \in D : v > u}
  <1>1. c \in SUBSET d /\ c \in SUBSET (1..MaxUid) /\ d \in SUBSET (1..MaxUid)
    OBVIOUS
  <1>2. MaxUid \in Nat
    BY MailAssumption
  <1>. HIDE DEF c, d
  <1>3. IsFiniteSet(d) /\ Cardinality(d) \in Nat /\ Cardinality(c) \in Nat
    BY <1>1, <1>2, BoundedIsFinite
  <1>4. Cardinality(c) <= Cardinality(d)
    BY ONLY <1>1, <1>3, FS_Subset
  <1>. QED BY <1>3, <1>4 DEF c, d

LEMMA KeptIsNewest ==
  ASSUME NEW line, IsListing(line),
         NEW all \in SUBSET (1..MaxUid), NEW since,
         inbox \subseteq all, since \subseteq inbox
  PROVE  /\ NewestOf(line, Kept(line), all, since)
         /\ Kept(line) = <<>> => Candidates(line) = {}
  <1>. DEFINE C == Candidates(line)
              n == Limit(line)
              s == Kept(line)
              W == Wanted(line)
  <1>1. C \in SUBSET (1..MaxUid) /\ C = inbox \intersect W /\ MaxUid \in Nat
    BY MailAssumption DEF Candidates, Wanted
  <1>2. n \in Nat \ {0}
    BY LimitTyped, MailAssumption
  <1>3. s = Truncate(Descending(C), n)
    BY DEF Kept
  <1>. HIDE DEF C, n, s, W
  <1>4. /\ s \in Seq(C) /\ Len(s) <= n
        /\ ToSet(s) \subseteq C
        /\ \A i, j \in DOMAIN s : i < j => s[i] > s[j]
        /\ \A u \in C \ ToSet(s) : Cardinality({v \in C : v > u}) >= n
        /\ C # {} => s # <<>>
    <2>1. NewestFew(s, C, n)
      BY ONLY <1>1, <1>2, <1>3, TruncateKeepsNewest
    <2>. QED BY <2>1 DEF NewestFew
  <1>5. s \in Seq(1..MaxUid)
    BY <1>1, <1>4, SeqMonotonic
  <1>6. ASSUME NEW u \in (since \intersect W) \ ToSet(s)
        PROVE  Cardinality({v \in all \intersect W : v > u}) >= n
    <2>1. u \in C \ ToSet(s)
      BY <1>1, <1>6
    <2>2. Cardinality({v \in C : v > u}) >= n
      BY <1>4, <2>1
    <2>3. C \subseteq all \intersect W /\ all \intersect W \in SUBSET (1..MaxUid)
      BY <1>1
    <2>4. /\ Cardinality({v \in C : v > u}) \in Nat
          /\ Cardinality({v \in all \intersect W : v > u}) \in Nat
          /\ Cardinality({v \in C : v > u}) <= Cardinality({v \in all \intersect W : v > u})
      BY <2>3, NewerCounted
    <2>. QED BY <1>2, <2>2, <2>4
  <1>7. ToSet(s) \subseteq all \intersect W
    BY <1>1, <1>4
  <1>. QED BY <1>2, <1>4, <1>5, <1>6, <1>7 DEF NewestOf, C, n, s, W

\* What is fetched of a right list, and sorted again, is a right list: no message
\* that was there all along is lost on the way.
LEMMA FetchedIsNewest ==
  ASSUME NEW line, IsListing(line), NEW uids,
         NEW all \in SUBSET (1..MaxUid), NEW since,
         inbox \subseteq all, since \subseteq inbox,
         NewestOf(line, uids, all, since)
  PROVE  NewestOf(line, Descending(ToSet(uids) \intersect inbox), all, since)
  <1>. DEFINE S == ToSet(uids) \intersect inbox
              s == Descending(S)
  <1>1. S \in SUBSET (1..MaxUid) /\ MaxUid \in Nat
    BY MailAssumption
  <1>2. /\ s \in Seq(S) /\ Len(s) = Cardinality(S) /\ Cardinality(S) \in Nat
        /\ ToSet(s) = S
        /\ \A i, j \in DOMAIN s : i < j => s[i] > s[j]
    BY <1>1, DescendingTyped
  <1>3. Cardinality(S) <= Len(uids)
    <2>1. uids \in [1..Len(uids) -> ToSet(uids)] /\ Len(uids) \in Nat
      BY DEF NewestOf, ToSet
    <2>2. \A t \in ToSet(uids) : \E i \in 1..Len(uids) : uids[i] = t
      BY DEF NewestOf, ToSet
    <2>3. uids \in Surjection(1..Len(uids), ToSet(uids))
      BY <2>1, <2>2, Fun_IsSurj
    <2>4. IsFiniteSet(1..Len(uids)) /\ Cardinality(1..Len(uids)) = Len(uids)
      BY <2>1, FS_Interval
    <2>5. IsFiniteSet(ToSet(uids)) /\ Cardinality(ToSet(uids)) <= Len(uids)
      BY ONLY <2>3, <2>4, FS_Surjection
    <2>6. S \in SUBSET ToSet(uids)
      OBVIOUS
    <2>7. Cardinality(S) <= Cardinality(ToSet(uids)) /\ Cardinality(ToSet(uids)) \in Nat
      BY ONLY <2>5, <2>6, FS_Subset, FS_CardinalityType
    <2>. QED BY <1>2, <2>1, <2>5, <2>7
  <1>4. Limit(line) \in Nat /\ Len(uids) \in Nat
    <2>1. Limit(line) \in Nat
      BY LimitTyped, MailAssumption
    <2>2. uids \in Seq(1..MaxUid)
      BY Zenon DEF NewestOf
    <2>. QED BY <2>1, <2>2
  <1>5. Len(s) <= Limit(line)
    <2>1. Len(uids) <= Limit(line)
      BY DEF NewestOf
    <2>. HIDE DEF s, S
    <2>. QED BY <1>2, <1>3, <1>4, <2>1
  <1>6. s \in Seq(1..MaxUid)
    BY <1>1, <1>2, SeqMonotonic
  <1>7. ToSet(s) \subseteq all \intersect Wanted(line)
    BY <1>2 DEF NewestOf
  <1>8. \A u \in since : u \notin ToSet(s) => u \notin ToSet(uids)
    BY <1>2
  <1>. HIDE DEF s, S
  <1>. QED BY <1>2, <1>5, <1>6, <1>7, <1>8 DEF NewestOf, s, S

\* And it stays right while messages come and go.
LEMMA NewestStays ==
  ASSUME NEW line, IsListing(line), NEW uids,
         NEW all, NEW since, NEW all2 \in SUBSET (1..MaxUid), NEW since2,
         all \subseteq all2, since2 \subseteq since,
         NewestOf(line, uids, all, since)
  PROVE  NewestOf(line, uids, all2, since2)
  <1>. DEFINE W == Wanted(line)
              n == Limit(line)
  <1>1. n \in Nat
    BY LimitTyped, MailAssumption
  <1>. HIDE DEF W, n
  <1>2. ASSUME NEW u \in (since2 \intersect W) \ ToSet(uids)
        PROVE  Cardinality({v \in all2 \intersect W : v > u}) >= n
    <2>1. Cardinality({v \in all \intersect W : v > u}) >= n
      BY <1>2 DEF NewestOf, W, n
    <2>2. /\ Cardinality({v \in all \intersect W : v > u}) \in Nat
          /\ Cardinality({v \in all2 \intersect W : v > u}) \in Nat
          /\ Cardinality({v \in all \intersect W : v > u})
               <= Cardinality({v \in all2 \intersect W : v > u})
      BY NewerCounted
    <2>. QED BY <1>1, <2>1, <2>2
  <1>. QED BY <1>2 DEF NewestOf, W, n

-----------------------------------------------------------------------------
(* The inductive invariant.                                                 *)

NeedNone == {"blank", "notification", "not_utf8"}

Talking == {"connect", "examine", "search", "fetch", "logout"}

\* Of the first k lines, those that are owed a reply, and which reply each is owed.
Owing(ls, k) == {i \in 1..k : ls[i].kind \notin NeedNone}
Rank(O, i) == Cardinality({j \in O : j <= i})
IdOf(ls, i) == IF ls[i].kind = "garbage" THEN NullId ELSE i

\* While a line is served it is one that is owed a reply.
Serving ==
  step \in Talking \union {"write"} =>
    next > 1 /\ CurrentLine.kind \notin NeedNone

\* A session is for a call that passed its checks.
Calling ==
  step \in Talking =>
    /\ CurrentLine \in ToolCalls /\ ~BadArguments(CurrentLine)
    /\ step = "search" => CurrentLine.kind # "fetch_message"

\* The numbers found, and later the numbers to report, are right at every moment.
Listing ==
  /\ step = "fetch" /\ CurrentLine.kind # "fetch_message" =>
       NewestOf(CurrentLine, found, seen, steady)
  /\ step \in {"logout", "write"} /\ reply.kind = "summaries" =>
       IsListing(CurrentLine) /\ NewestOf(CurrentLine, reply.uids, seen, steady)

Missing ==
  step \in {"logout", "write"} /\ reply.kind = "not_found" => CurrentLine.uid \notin steady

Written == [id : Nat \union {NullId}, kind : {r.kind : r \in Replies}]

\* These replies are to the lines that are owed one, in their order.
Ordered(O, ls, replies) ==
  /\ replies \in Seq(Written)
  /\ \A i \in O : Rank(O, i) <= Len(replies) => replies[Rank(O, i)].id = IdOf(ls, i)

InOrder ==
  LET O == Owing(lines, Served)
  IN  /\ Ordered(O, lines, output)
      /\ \/ Len(output) = Cardinality(O)
         \/ step = "exited" /\ eof /\ Len(output) = Cardinality(O) - 1

Mailbox == seen \subseteq 1..MaxUid /\ uidNext \in Nat \ {0}

MailInv == MailTypeOK /\ Serving /\ Calling /\ Listing /\ Missing /\ InOrder /\ Mailbox

\* The invariant says what RepliesInOrder, ListingIsNewest and MissingWasMissing say.
LEMMA Implied ==
  ASSUME MailInv
  PROVE  RepliesInOrder /\ ListingIsNewest /\ MissingWasMissing
  <1>1. RepliesInOrder
    BY DEF MailInv, InOrder, Ordered, RepliesInOrder, Owing, Rank, IdOf, NeedNone
  <1>2. ASSUME step = "write", reply.kind = "summaries"
        PROVE  ListingIsNewest
    <2>1. IsListing(CurrentLine) /\ NewestOf(CurrentLine, reply.uids, seen, steady)
      BY <1>2 DEF MailInv, Listing
    <2>2. Limit(CurrentLine) = IF CurrentLine.limit \in 1..MaxListLimit THEN CurrentLine.limit
                           ELSE IF CurrentLine.limit = NoLimit /\ CurrentLine.kind = "list_messages"
                             THEN DefaultListLimit ELSE MaxListLimit
      BY <2>1, LimitTyped
    <2>3. \A i \in 1..Len(reply.uids) - 1 : reply.uids[i] > reply.uids[i + 1]
      <3>1. reply.uids \in Seq(1..MaxUid)
        BY <2>1, Zenon DEF NewestOf
      <3>2. \A i, j \in DOMAIN reply.uids : i < j => reply.uids[i] > reply.uids[j]
        BY <2>1, Zenon DEF NewestOf
      <3>. QED BY <3>1, <3>2
    <2>. QED BY <2>1, <2>2, <2>3 DEF ListingIsNewest, NewestOf, Wanted
  <1>3. ListingIsNewest
    BY <1>2 DEF ListingIsNewest
  <1>4. MissingWasMissing
    BY DEF MailInv, Missing, MissingWasMissing
  <1>. QED BY <1>1, <1>3, <1>4

\* Another line that is owed a reply is owed the next one.
LEMMA RankOfNext ==
  ASSUME NEW n \in Nat, NEW O \in SUBSET (1..n)
  PROVE  /\ Cardinality(O) \in Nat
         /\ Cardinality(O \union {n + 1}) = Cardinality(O) + 1
         /\ \A i \in O : /\ Rank(O, i) \in 1..Cardinality(O)
                         /\ Rank(O \union {n + 1}, i) = Rank(O, i)
         /\ Rank(O \union {n + 1}, n + 1) = Cardinality(O) + 1
  <1>1. IsFiniteSet(O) /\ Cardinality(O) \in Nat /\ n + 1 \notin O
    BY BoundedIsFinite
  <1>2. Cardinality(O \union {n + 1}) = Cardinality(O) + 1
    BY <1>1, FS_AddElement
  <1>3. ASSUME NEW i \in O
        PROVE  /\ Rank(O, i) \in 1..Cardinality(O)
               /\ Rank(O \union {n + 1}, i) = Rank(O, i)
    <2>. DEFINE below == {j \in O : j <= i}
    <2>1. below \in SUBSET O /\ i \in below
      OBVIOUS
    <2>2. {j \in O \union {n + 1} : j <= i} = below
      OBVIOUS
    <2>. HIDE DEF below
    <2>3. IsFiniteSet(below) /\ Cardinality(below) <= Cardinality(O)
      BY ONLY <1>1, <2>1, FS_Subset
    <2>4. Cardinality(below) \in Nat /\ Cardinality(below) # 0
      BY ONLY <2>1, <2>3, FS_CardinalityType, FS_EmptySet
    <2>. QED BY <1>1, <2>2, <2>3, <2>4 DEF Rank, below
  <1>4. {j \in O \union {n + 1} : j <= n + 1} = O \union {n + 1}
    <2>1. \A j \in O \union {n + 1} : j <= n + 1
      OBVIOUS
    <2>. QED BY <2>1
  <1>. QED BY <1>1, <1>2, <1>3, <1>4 DEF Rank

LEMMA ReplyKinds ==
  /\ \A r \in Replies : r # NoReply /\ r.kind \in {x.kind : x \in Replies}
  /\ \A k \in {"result", "error", "unknown_tool", "unavailable", "not_found", "backend"} :
       Plain(k) \in Replies /\ Plain(k).kind = k
  /\ \A u \in 1..MaxUid : Message(u) \in Replies /\ Message(u).kind = "message"
  /\ \A uids : Summaries(uids).kind = "summaries" /\ Summaries(uids).uids = uids
  /\ NoReply.kind = "none"
  <1>1. \A r \in Replies : r.kind # "none"
    BY DEF Replies, Plain, Message, Summaries
  <1>2. \A r \in Replies : r # NoReply /\ r.kind \in {x.kind : x \in Replies}
    BY <1>1 DEF NoReply
  <1>3. /\ \A k \in {"result", "error", "unknown_tool", "unavailable", "not_found", "backend"} :
             Plain(k) \in Replies /\ Plain(k).kind = k
        /\ \A u \in 1..MaxUid : Message(u) \in Replies /\ Message(u).kind = "message"
    BY DEF Replies, Plain, Message
  <1>. QED BY <1>2, <1>3 DEF Summaries, NoReply

LEMMA SummariesTyped ==
  ASSUME NEW line, IsListing(line), NEW uids, NEW all, NEW since,
         NewestOf(line, uids, all, since)
  PROVE  Summaries(uids) \in Replies
  <1>1. uids \in Seq(1..MaxUid) /\ Len(uids) <= Limit(line)
    BY Zenon DEF NewestOf
  <1>2. MaxListLimit \in Nat /\ Limit(line) \in 1..MaxListLimit
    BY LimitTyped, MailAssumption
  <1>3. Len(uids) \in 0..MaxListLimit /\ uids \in [1..Len(uids) -> 1..MaxUid]
    <2>1. Len(uids) \in Nat /\ uids \in [1..Len(uids) -> 1..MaxUid]
      BY <1>1, LenProperties, Zenon
    <2>. QED BY <1>1, <1>2, <2>1
  <1>4. uids \in UNION {[1..n -> 1..MaxUid] : n \in 0..MaxListLimit}
    BY <1>3
  <1>. QED BY <1>4 DEF Replies

\* What a line can lead to: nothing, the end, a reply that is right when it is
\* decided on, or a session for a call that passed its checks.
RightReply(line, r) ==
  /\ r \in Replies
  /\ r.kind = "summaries" => IsListing(line) /\ NewestOf(line, r.uids, inbox, inbox)
  /\ r.kind = "not_found" => line.uid \notin inbox

Handled(line) ==
  \/ /\ line.kind \in NeedNone
     /\ step' \in {"reading", "exited"}
     /\ UNCHANGED <<session, found, reply>>
  \/ /\ line.kind \notin NeedNone
     /\ step' = "write" /\ RightReply(line, reply')
     /\ UNCHANGED <<session, found>>
  \/ /\ line \in ToolCalls /\ ~BadArguments(line) /\ line.kind \notin NeedNone
     /\ step' = "connect"
     /\ UNCHANGED <<session, found, reply>>

LEMMA CallKinds ==
  /\ \A line \in ToolCalls :
       /\ line.kind \in {"list_messages", "search", "fetch_message"}
       /\ line.kind = "fetch_message" => line.uid \in 0..MaxUid
  /\ \A line \in OtherLines :
       line.kind \in {"blank", "notification", "not_utf8", "garbage", "plain", "rejected",
                      "unknown_tool"}
  BY DEF ToolCalls, OtherLines

LEMMA PlainIsRight ==
  ASSUME NEW line, NEW k \in {"result", "error", "unknown_tool", "unavailable", "backend"}
  PROVE  RightReply(line, Plain(k))
  <1>1. Plain(k) \in Replies /\ Plain(k).kind = k
    BY ReplyKinds
  <1>. QED BY <1>1 DEF RightReply

LEMMA FakeIsRight ==
  ASSUME NEW line \in ToolCalls, ~BadArguments(line), inbox \subseteq 1..MaxUid
  PROVE  RightReply(line, FakeReply(line))
  <1>1. CASE line.mailbox # "inbox"
    BY <1>1, PlainIsRight DEF FakeReply
  <1>2. CASE line.mailbox = "inbox" /\ line.kind = "fetch_message"
    <2>1. CASE line.uid \in inbox
      <3>1. Message(line.uid) \in Replies /\ Message(line.uid).kind = "message"
        BY <2>1, ReplyKinds
      <3>. QED BY <1>2, <2>1, <3>1 DEF FakeReply, RightReply
    <2>2. CASE line.uid \notin inbox
      <3>1. Plain("not_found") \in Replies /\ Plain("not_found").kind = "not_found"
        BY ReplyKinds
      <3>. QED BY <1>2, <2>2, <3>1 DEF FakeReply, RightReply
    <2>. QED BY <2>1, <2>2
  <1>3. CASE line.mailbox = "inbox" /\ line.kind # "fetch_message"
    <2>1. IsListing(line)
      BY <1>3 DEF IsListing
    <2>2. NewestOf(line, Kept(line), inbox, inbox)
      BY <2>1, KeptIsNewest
    <2>3. Summaries(Kept(line)) \in Replies
      BY <2>1, <2>2, SummariesTyped
    <2>4. /\ Summaries(Kept(line)).kind = "summaries"
          /\ Summaries(Kept(line)).uids = Kept(line)
      BY ReplyKinds
    <2>5. FakeReply(line) = Summaries(Kept(line))
      BY <1>3 DEF FakeReply
    <2>. QED BY <2>1, <2>2, <2>3, <2>4, <2>5 DEF RightReply
  <1>. QED BY <1>1, <1>2, <1>3

LEMMA ProcessHandles ==
  ASSUME NEW line \in Lines, Process(line), inbox \subseteq 1..MaxUid,
         backend \in {"imap", "fake"}
  PROVE  Handled(line)
  <1>1. CASE line \in OtherLines
    <2>1. /\ line.kind \in {"blank", "notification", "not_utf8", "garbage", "plain", "rejected",
                            "unknown_tool"}
          /\ line \notin ToolCalls
      BY <1>1, CallKinds
    <2>2. CASE IsSilent(line)
      BY <2>1, <2>2 DEF Process, Handled, IsSilent, NeedNone
    <2>3. CASE line.kind = "not_utf8"
      BY <2>1, <2>3 DEF Process, Handled, IsSilent, NeedNone
    <2>4. CASE line.kind \in {"garbage", "rejected"}
      <3>1. Replying(Plain("error"))
        BY <2>1, <2>4 DEF Process, IsSilent
      <3>. QED BY <2>4, <3>1, PlainIsRight DEF Handled, Replying, NeedNone
    <2>5. CASE line.kind = "plain"
      <3>1. Replying(Plain("result"))
        BY <2>1, <2>5 DEF Process, IsSilent
      <3>. QED BY <2>5, <3>1, PlainIsRight DEF Handled, Replying, NeedNone
    <2>6. CASE line.kind = "unknown_tool"
      <3>1. Replying(Plain("unknown_tool"))
        BY <2>1, <2>6 DEF Process, IsSilent
      <3>. QED BY <2>6, <3>1, PlainIsRight DEF Handled, Replying, NeedNone
    <2>. QED BY <2>1, <2>2, <2>3, <2>4, <2>5, <2>6 DEF IsSilent
  <1>2. CASE line \in ToolCalls
    <2>1. line.kind \in {"list_messages", "search", "fetch_message"}
      BY <1>2, CallKinds
    <2>2. CASE BadArguments(line)
      <3>1. Replying(Plain("error"))
        BY <1>2, <2>1, <2>2 DEF Process, IsSilent
      <3>. QED BY <2>1, <3>1, PlainIsRight DEF Handled, Replying, NeedNone
    <2>3. CASE ~BadArguments(line) /\ backend = "fake"
      <3>1. Replying(FakeReply(line))
        BY <1>2, <2>1, <2>3 DEF Process, IsSilent
      <3>. QED BY <1>2, <2>1, <2>3, <3>1, FakeIsRight DEF Handled, Replying, NeedNone
    <2>4. CASE ~BadArguments(line) /\ backend = "imap"
      <3>1. IF line.mailbox = "malformed"
              THEN Replying(Plain("unavailable"))
              ELSE step' = "connect" /\ UNCHANGED <<session, found, reply>>
        BY <1>2, <2>1, <2>4 DEF Process, IsSilent
      <3>. QED BY <1>2, <2>1, <2>4, <3>1, PlainIsRight DEF Handled, Replying, NeedNone
    <2>. QED BY <2>2, <2>3, <2>4
  <1>. QED BY <1>1, <1>2 DEF Lines

-----------------------------------------------------------------------------
(* Every step keeps the invariant.                                          *)

\* A reply that may be written for the line being served.
Fitting(r) ==
  /\ r \in Replies
  /\ r.kind = "summaries" => IsListing(CurrentLine) /\ NewestOf(CurrentLine, r.uids, seen, steady)
  /\ r.kind = "not_found" => CurrentLine.uid \notin steady

LEMMA PlainFits ==
  ASSUME NEW k \in {"result", "error", "unknown_tool", "unavailable", "backend"}
  PROVE  Fitting(Plain(k))
  <1>1. Plain(k) \in Replies /\ Plain(k).kind = k
    BY ReplyKinds
  <1>. QED BY <1>1 DEF Fitting

LEMMA ReplyFits ==
  ASSUME MailInv, step \in {"logout", "write"}
  PROVE  Fitting(reply)
  BY DEF MailInv, MailTypeOK, Listing, Missing, Fitting

\* The replies in their order depend on the lines served and the output alone.
LEMMA OrderKept ==
  ASSUME MailInv, UNCHANGED <<lines, output>>, Served' = Served,
         eof => eof', step = "exited" <=> step' = "exited"
  PROVE  InOrder'
  BY DEF MailInv, InOrder

LEMMA SessionKeeps ==
  ASSUME MailInv, NEW from \in Talking, NEW to \in Talking \union {"write"}, Session(from, to),
         to = "search" => CurrentLine.kind # "fetch_message",
         (session' = "open") <=> (to \in {"examine", "search", "fetch", "logout"}),
         found' \in Seq(1..MaxUid),
         IF to \in {"write", "logout"} THEN Fitting(reply') ELSE reply' = NoReply,
         to = "fetch" /\ CurrentLine.kind # "fetch_message" =>
           NewestOf(CurrentLine, found', seen, steady)
  PROVE  MailInv'
  <1>1. /\ step = from /\ step' = to
        /\ UNCHANGED <<backend, lines, eof, next, output, inbox, uidNext, steady, seen>>
        /\ step \in Talking /\ step' \in Talking \union {"write"}
    BY DEF Session, mailVars
  <1>2. CurrentLine' = CurrentLine /\ Served' = Served
    BY <1>1 DEF CurrentLine, Served, Talking
  <1>3. Fitting(reply') => /\ reply' \in Replies /\ reply' # NoReply
                           /\ reply'.kind = "summaries" => IsListing(CurrentLine) /\
                                NewestOf(CurrentLine, reply'.uids, seen, steady)
                           /\ reply'.kind = "not_found" => CurrentLine.uid \notin steady
    BY ReplyKinds, Zenon DEF Fitting
  <1>4. MailTypeOK'
    BY <1>1, <1>3 DEF MailInv, MailTypeOK, Talking
  <1>5. Serving' /\ Calling'
    BY <1>1, <1>2 DEF MailInv, Serving, Calling, Talking, BadArguments
  <1>6. step' \in {"logout", "write"} => Fitting(reply')
    BY <1>1
  <1>7. Listing'
    <2>1. step' = "fetch" /\ CurrentLine.kind # "fetch_message" =>
            NewestOf(CurrentLine, found', seen, steady)
      BY <1>1
    <2>2. step' \in {"logout", "write"} /\ reply'.kind = "summaries" =>
            IsListing(CurrentLine) /\ NewestOf(CurrentLine, reply'.uids, seen, steady)
      BY <1>3, <1>6
    <2>. QED BY <1>1, <1>2, <2>1, <2>2
           DEF Listing, IsListing, NewestOf, BadArguments, Limit, DefaultLimit, Wanted
  <1>8. Missing'
    <2>1. step' \in {"logout", "write"} /\ reply'.kind = "not_found" =>
            CurrentLine.uid \notin steady
      BY <1>3, <1>6
    <2>. QED BY <1>1, <1>2, <2>1 DEF Missing
  <1>9. InOrder'
    BY <1>1, <1>2, OrderKept DEF Talking
  <1>10. Mailbox'
    BY <1>1 DEF MailInv, Mailbox
  <1>. QED BY <1>4, <1>5, <1>7, <1>8, <1>9, <1>10 DEF MailInv

LEMMA Searching ==
  ASSUME MailInv, step \in {"search", "fetch"}, CurrentLine.kind # "fetch_message"
  PROVE  /\ IsListing(CurrentLine)
         /\ seen \in SUBSET (1..MaxUid) /\ inbox \subseteq seen /\ steady \subseteq inbox
  BY DEF MailInv, MailTypeOK, Calling, Talking, IsListing, Mailbox

LEMMA ImapKeeps ==
  ASSUME MailInv, Imap
  PROVE  MailInv'
  <1>1. /\ step \in Talking => (reply # NoReply <=> step = "logout")
        /\ (session = "open") <=> (step \in {"examine", "search", "fetch", "logout"})
        /\ found \in Seq(1..MaxUid)
        /\ reply \in Replies \union {NoReply}
    BY DEF MailInv, MailTypeOK, Talking
  <1>2. CASE Connect
    <2>1. CASE Session("connect", "examine") /\ session' = "open" /\ UNCHANGED <<found, reply>>
      <3>1. step = "connect"
        BY <2>1 DEF Session
      <3>. QED BY <1>1, <2>1, <3>1, SessionKeeps DEF Talking
    <2>2. CASE Session("connect", "write") /\ reply' = Plain("backend")
                 /\ UNCHANGED <<session, found>>
      <3>1. step = "connect"
        BY <2>2 DEF Session
      <3>. QED BY <1>1, <2>2, <3>1, PlainFits, SessionKeeps DEF Talking
    <2>. QED BY <1>2, <2>1, <2>2 DEF Connect
  <1>3. CASE Examine
    <2>1. step = "examine"
      BY <1>3 DEF Examine, Session
    <2>2. CASE Session("examine", IF CurrentLine.kind = "fetch_message" THEN "fetch" ELSE "search")
                 /\ UNCHANGED <<session, found, reply>>
      <3>1. CASE CurrentLine.kind = "fetch_message"
        BY <1>1, <2>1, <2>2, <3>1, SessionKeeps DEF Talking
      <3>2. CASE CurrentLine.kind # "fetch_message"
        BY <1>1, <2>1, <2>2, <3>2, SessionKeeps DEF Talking
      <3>. QED BY <3>1, <3>2
    <2>3. CASE Session("examine", "logout") /\ reply' = Plain("unavailable")
                 /\ UNCHANGED <<session, found>>
      BY <1>1, <2>1, <2>3, PlainFits, SessionKeeps DEF Talking
    <2>. QED BY <1>3, <2>2, <2>3 DEF Examine
  <1>4. ASSUME NEW from \in {"search", "fetch"}, NEW r, Fitting(r), Concludes(from, r)
        PROVE  MailInv'
    <2>1. step = from /\ session' = session /\ reply' = r /\ found' = <<>>
          /\ Session(from, "logout")
      BY <1>4 DEF Concludes, Session
    <2>2. Fitting(reply') /\ found' \in Seq(1..MaxUid)
      BY <1>4, <2>1
    <2>3. from \in Talking /\ "logout" \in Talking \union {"write"}
      BY DEF Talking
    <2>4. session' = "open"
      BY <1>1, <2>1
    <2>. QED BY <2>1, <2>2, <2>3, <2>4, SessionKeeps
  <1>5. CASE Search
    <2>1. step = "search" /\ CurrentLine.kind # "fetch_message"
      BY <1>5 DEF Search, Concludes, Session, MailInv, Calling, Talking
    <2>2. IsListing(CurrentLine) /\ NewestOf(CurrentLine, Kept(CurrentLine), seen, steady)
      BY <2>1, Searching, KeptIsNewest
    <2>3. Kept(CurrentLine) \in Seq(1..MaxUid)
      BY <2>2, Zenon DEF NewestOf
    <2>4. CASE /\ Session("search", "fetch")
               /\ found' = Kept(CurrentLine) /\ UNCHANGED <<session, reply>>
      BY <1>1, <2>1, <2>2, <2>3, <2>4, SessionKeeps DEF Talking
    <2>5. CASE Kept(CurrentLine) = <<>> /\ Concludes("search", Summaries(<<>>))
      <3>1. Summaries(<<>>) \in Replies
        BY <2>2, <2>5, SummariesTyped
      <3>2. Summaries(<<>>).kind = "summaries" /\ Summaries(<<>>).uids = <<>>
        BY ReplyKinds
      <3>3. Fitting(Summaries(<<>>))
        BY <2>2, <2>5, <3>1, <3>2 DEF Fitting
      <3>. QED BY <1>4, <2>5, <3>3
    <2>6. CASE Concludes("search", Plain("backend"))
      BY <1>4, <2>6, PlainFits
    <2>. QED BY <1>5, <2>4, <2>5, <2>6 DEF Search
  <1>6. CASE FetchSummaries
    <2>1. step = "fetch" /\ CurrentLine.kind # "fetch_message"
      BY <1>6 DEF FetchSummaries
    <2>. DEFINE uids == Descending(ToSet(found) \intersect inbox)
    <2>2. IsListing(CurrentLine) /\ NewestOf(CurrentLine, uids, seen, steady)
      <3>1. NewestOf(CurrentLine, found, seen, steady)
        BY <2>1 DEF MailInv, Listing
      <3>. QED BY <2>1, <3>1, Searching, FetchedIsNewest
    <2>. HIDE DEF uids
    <2>3. Fitting(Summaries(uids))
      <3>1. Summaries(uids) \in Replies
        BY <2>2, SummariesTyped
      <3>2. Summaries(uids).kind = "summaries" /\ Summaries(uids).uids = uids
        BY ReplyKinds
      <3>. QED BY <2>2, <3>1, <3>2 DEF Fitting
    <2>4. \/ Concludes("fetch", Summaries(uids))
          \/ Concludes("fetch", Plain("backend"))
      BY <1>6 DEF FetchSummaries, uids
    <2>. QED BY <1>4, <2>3, <2>4, PlainFits
  <1>7. CASE FetchMessage
    <2>1. step = "fetch" /\ CurrentLine.kind = "fetch_message"
      BY <1>7 DEF FetchMessage
    <2>2. CASE Concludes("fetch", Message(CurrentLine.uid)) /\ CurrentLine.uid \in inbox
      <3>1. Message(CurrentLine.uid) \in Replies /\ Message(CurrentLine.uid).kind = "message"
        BY <2>2, ReplyKinds DEF MailInv, MailTypeOK
      <3>2. Fitting(Message(CurrentLine.uid))
        BY <3>1 DEF Fitting
      <3>. QED BY <1>4, <2>2, <3>2
    <2>3. CASE Concludes("fetch", Plain("not_found")) /\ CurrentLine.uid \notin inbox
      <3>1. Plain("not_found") \in Replies /\ Plain("not_found").kind = "not_found"
        BY ReplyKinds
      <3>2. Fitting(Plain("not_found"))
        BY <2>3, <3>1 DEF Fitting, MailInv, MailTypeOK
      <3>. QED BY <1>4, <2>3, <3>2
    <2>4. CASE Concludes("fetch", Plain("backend"))
      BY <1>4, <2>4, PlainFits
    <2>. QED BY <1>7, <2>2, <2>3, <2>4 DEF FetchMessage
  <1>8. CASE Logout
    <2>1. step = "logout" /\ Fitting(reply)
      BY <1>8, ReplyFits DEF Logout, Session
    <2>2. Session("logout", "write") /\ session' = "closed" /\ UNCHANGED <<found, reply>>
      BY <1>8 DEF Logout
    <2>3. Fitting(reply')
      BY <2>1, <2>2
    <2>. QED BY <1>1, <2>2, <2>3, SessionKeeps DEF Talking
  <1>. QED BY <1>2, <1>3, <1>5, <1>6, <1>7, <1>8 DEF Imap

LEMMA ReadKeeps ==
  ASSUME MailInv, NextLine
  PROVE  MailInv'
  <1>. DEFINE line == lines[next]
  <1>1. /\ step = "reading" /\ next <= Len(lines) /\ next' = next + 1
        /\ steady' = inbox /\ seen' = inbox
        /\ UNCHANGED <<backend, lines, eof, output, inbox, uidNext>>
        /\ Process(line)
    BY DEF NextLine
  <1>2. /\ next \in Nat \ {0} /\ next \in 1..Len(lines) /\ Len(lines) \in Nat
        /\ line \in Lines
        /\ inbox \subseteq 1..MaxUid /\ backend \in {"imap", "fake"}
        /\ reply = NoReply /\ session # "open"
    BY <1>1 DEF MailInv, MailTypeOK
  <1>3. CurrentLine' = line
    BY <1>1, <1>2 DEF CurrentLine
  <1>. HIDE DEF line
  <1>4. Handled(line)
    BY <1>1, <1>2, ProcessHandles
  <1>5. CASE line.kind \in NeedNone /\ step' \in {"reading", "exited"}
               /\ UNCHANGED <<session, found, reply>>
    <2>1. MailTypeOK'
      BY <1>1, <1>2, <1>5 DEF MailInv, MailTypeOK
    <2>2. Served' = Served + 1 /\ Served = next - 1
      BY <1>1, <1>2, <1>5 DEF Served
    <2>3. Owing(lines, Served + 1) = Owing(lines, Served)
      <3>1. \A i : i \in 1..next <=> i \in 1..next - 1 \/ i = next
        BY <1>2
      <3>2. lines[next].kind \in NeedNone
        BY <1>5 DEF line
      <3>3. Served + 1 = next
        BY <1>2, <2>2
      <3>. QED BY <2>2, <3>1, <3>2, <3>3 DEF Owing
    <2>4. InOrder'
      <3>1. output' = output /\ lines' = lines /\ ~(step = "exited" /\ eof)
        BY <1>1
      <3>. QED BY <2>2, <2>3, <3>1 DEF MailInv, InOrder
    <2>. QED BY <1>1, <1>2, <1>5, <2>1, <2>4
           DEF MailInv, Serving, Calling, Listing, Missing, Mailbox, Talking
  <1>6. ASSUME step' \in {"connect", "write"}
        PROVE  InOrder' /\ Mailbox'
    <2>1. Served' = Served
      BY <1>1, <1>2, <1>6 DEF Served
    <2>2. InOrder'
      BY <1>1, <1>6, <2>1, OrderKept
    <2>. QED BY <1>1, <1>2, <2>2 DEF MailInv, Mailbox
  <1>7. CASE line.kind \notin NeedNone /\ step' = "write" /\ RightReply(line, reply')
               /\ UNCHANGED <<session, found>>
    <2>1. reply' \in Replies /\ reply' # NoReply
      BY <1>7, ReplyKinds DEF RightReply
    <2>2. MailTypeOK'
      BY <1>1, <1>2, <1>7, <2>1 DEF MailInv, MailTypeOK
    <2>3. Serving' /\ Calling'
      BY <1>1, <1>2, <1>3, <1>7 DEF Serving, Calling, Talking
    <2>4. Listing'
      <3>1. CASE reply'.kind = "summaries"
        <4>1. IsListing(line) /\ NewestOf(line, reply'.uids, seen', steady')
          BY <1>1, <1>7, <3>1 DEF RightReply
        <4>. QED BY <1>3, <1>7, <4>1
               DEF Listing, IsListing, NewestOf, BadArguments, Limit, DefaultLimit, Wanted
      <3>2. CASE reply'.kind # "summaries"
        BY <1>7, <3>2 DEF Listing
      <3>. QED BY <3>1, <3>2
    <2>5. Missing'
      BY <1>1, <1>3, <1>7 DEF Missing, RightReply
    <2>. QED BY <1>6, <1>7, <2>2, <2>3, <2>4, <2>5 DEF MailInv
  <1>8. CASE line \in ToolCalls /\ ~BadArguments(line) /\ line.kind \notin NeedNone
               /\ step' = "connect" /\ UNCHANGED <<session, found, reply>>
    <2>1. MailTypeOK'
      BY <1>1, <1>2, <1>8 DEF MailInv, MailTypeOK
    <2>2. Serving' /\ Calling' /\ Listing' /\ Missing'
      BY <1>1, <1>2, <1>3, <1>8 DEF Serving, Calling, Listing, Missing, Talking, BadArguments
    <2>. QED BY <1>6, <1>8, <2>1, <2>2 DEF MailInv
  <1>. QED BY <1>4, <1>5, <1>7, <1>8 DEF Handled

\* The reply goes where the next one that is owed belongs, under the id it is owed.
LEMMA WriteKeeps ==
  ASSUME MailInv, WriteReply
  PROVE  MailInv'
  <1>1. /\ step = "write" /\ reply' = NoReply /\ step' \in {"reading", "exited"}
        /\ UNCHANGED <<backend, lines, eof, next, session, found, inbox, uidNext, steady, seen>>
        /\ \/ /\ output' = Append(output, [id |-> ReplyId, kind |-> reply.kind])
              /\ step' = "reading"
           \/ eof /\ step' = "exited" /\ output' = output
    BY DEF WriteReply, mailVars
  <1>2. /\ next \in Nat \ {0, 1} /\ next - 1 \in 1..Len(lines) /\ Len(lines) \in Nat
        /\ CurrentLine.kind \notin NeedNone
        /\ reply \in Replies /\ session # "open"
    BY <1>1 DEF MailInv, MailTypeOK, Serving
  <1>3. MailTypeOK'
    BY <1>1, <1>2 DEF MailInv, MailTypeOK
  <1>4. Serving' /\ Calling' /\ Listing' /\ Missing' /\ Mailbox'
    BY <1>1 DEF MailInv, Serving, Calling, Listing, Missing, Mailbox, Talking
  <1>. DEFINE n == next - 2
              O == Owing(lines, n)
  <1>5. Served = n /\ Served' = n + 1 /\ n \in Nat /\ n + 1 = next - 1
    BY <1>1, <1>2 DEF Served
  <1>. HIDE DEF n
  <1>6. O \in SUBSET (1..n)
    BY DEF Owing
  <1>7. Owing(lines, n + 1) = O \union {n + 1}
    <2>1. \A i : i \in 1..n + 1 <=> i \in 1..n \/ i = n + 1
      BY <1>5
    <2>2. lines[n + 1].kind \notin NeedNone
      BY <1>2, <1>5 DEF CurrentLine
    <2>. QED BY <2>1, <2>2 DEF Owing
  <1>8. /\ output \in Seq(Written) /\ Len(output) = Cardinality(O)
        /\ \A i \in O : Rank(O, i) <= Len(output) => output[Rank(O, i)].id = IdOf(lines, i)
    BY <1>1, <1>5 DEF MailInv, InOrder, Ordered
  <1>9. /\ Cardinality(O) \in Nat
        /\ Cardinality(O \union {n + 1}) = Cardinality(O) + 1
        /\ \A i \in O : /\ Rank(O, i) \in 1..Cardinality(O)
                        /\ Rank(O \union {n + 1}, i) = Rank(O, i)
        /\ Rank(O \union {n + 1}, n + 1) = Cardinality(O) + 1
    BY <1>5, <1>6, RankOfNext
  <1>. HIDE DEF O
  <1>10. ASSUME NEW i \in O
         PROVE  /\ Rank(O \union {n + 1}, i) = Rank(O, i)
                /\ Rank(O, i) \in 1..Cardinality(O)
                /\ output[Rank(O, i)].id = IdOf(lines, i)
    <2>1. Rank(O, i) \in 1..Cardinality(O) /\ Rank(O \union {n + 1}, i) = Rank(O, i)
      BY <1>9
    <2>2. Rank(O, i) <= Len(output)
      <3>1. Len(output) = Cardinality(O) /\ Cardinality(O) \in Nat
        BY <1>8, <1>9
      <3>. QED BY <2>1, <3>1
    <2>. QED BY <1>8, <2>1, <2>2
  <1>11. ASSUME Ordered(O \union {n + 1}, lines, output'),
                \/ Len(output') = Cardinality(O) + 1
                \/ step' = "exited" /\ eof /\ Len(output') = Cardinality(O)
         PROVE  InOrder'
    <2>1. Cardinality(O \union {n + 1}) - 1 = Cardinality(O)
      BY <1>9
    <2>2. Ordered(Owing(lines', Served'), lines', output')
      BY <1>1, <1>5, <1>7, <1>11
    <2>3. Cardinality(Owing(lines', Served')) = Cardinality(O \union {n + 1})
      BY <1>1, <1>5, <1>7
    <2>. QED BY <1>1, <1>9, <1>11, <2>1, <2>2, <2>3 DEF InOrder
  <1>12. ASSUME output' = Append(output, [id |-> ReplyId, kind |-> reply.kind])
         PROVE  InOrder'
    <2>. DEFINE written == [id |-> ReplyId, kind |-> reply.kind]
    <2>1. written \in Written /\ written.id = IdOf(lines, n + 1)
      <3>1. ReplyId \in Nat \union {NullId} /\ ReplyId = IdOf(lines, n + 1)
        BY <1>2, <1>5 DEF ReplyId, IdOf, CurrentLine
      <3>2. reply.kind \in {r.kind : r \in Replies}
        BY <1>2
      <3>. QED BY <3>1, <3>2 DEF Written
    <2>. HIDE DEF written
    <2>2. /\ output' \in Seq(Written) /\ Len(output') = Cardinality(O) + 1
          /\ \A k \in 1..Cardinality(O) : output'[k] = output[k]
          /\ output'[Cardinality(O) + 1] = written
      <3>1. output' = Append(output, written)
        BY <1>12 DEF written
      <3>. QED BY <1>8, <1>9, <2>1, <3>1, AppendProperties
    <2>3. ASSUME NEW i \in O \union {n + 1}
          PROVE  output'[Rank(O \union {n + 1}, i)].id = IdOf(lines, i)
      <3>1. CASE i = n + 1
        BY <1>9, <2>1, <2>2, <3>1
      <3>2. CASE i # n + 1
        <4>1. i \in O
          BY <2>3, <3>2
        <4>. QED BY <1>10, <2>2, <4>1
      <3>. QED BY <3>1, <3>2
    <2>4. Ordered(O \union {n + 1}, lines, output')
      BY <2>2, <2>3 DEF Ordered
    <2>. QED BY <1>11, <2>2, <2>4
  <1>13. ASSUME eof, step' = "exited", output' = output
         PROVE  InOrder'
    <2>1. ASSUME NEW i \in O \union {n + 1}, Rank(O \union {n + 1}, i) <= Len(output)
          PROVE  output[Rank(O \union {n + 1}, i)].id = IdOf(lines, i)
      <3>1. i # n + 1
        <4>1. Rank(O \union {n + 1}, n + 1) > Len(output)
          BY <1>8, <1>9
        <4>2. Len(output) \in Nat
          BY <1>8
        <4>. QED BY <1>9, <2>1, <4>1, <4>2
      <3>. QED BY <1>10, <2>1, <3>1
    <2>2. Ordered(O \union {n + 1}, lines, output)
      BY <1>8, <2>1 DEF Ordered
    <2>. QED BY <1>8, <1>11, <1>13, <2>2
  <1>14. InOrder'
    BY <1>1, <1>12, <1>13
  <1>. QED BY <1>3, <1>4, <1>14 DEF MailInv

LEMMA SendKeeps ==
  ASSUME MailInv, Send
  PROVE  MailInv'
  <1>1. PICK line \in Lines : lines' = Append(lines, line)
    BY DEF Send
  <1>2. /\ Len(lines) < MaxLines
        /\ UNCHANGED <<backend, eof, next, step, session, found, reply, output,
                       inbox, uidNext, steady, seen>>
    BY DEF Send, loopVars, mailVars
  <1>3. lines \in Seq(Lines) /\ Len(lines) \in Nat /\ MaxLines \in Nat /\ next \in 1..Len(lines) + 1
    BY MailAssumption DEF MailInv, MailTypeOK
  <1>4. /\ lines' \in Seq(Lines) /\ Len(lines') = Len(lines) + 1
        /\ \A i \in 1..Len(lines) : lines'[i] = lines[i]
    BY <1>1, <1>3, AppendProperties
  <1>5. MailTypeOK'
    BY <1>2, <1>3, <1>4 DEF MailInv, MailTypeOK
  <1>6. next > 1 => CurrentLine' = CurrentLine
    <2>1. next > 1 => next - 1 \in 1..Len(lines)
      BY <1>3
    <2>. QED BY <1>2, <1>4, <2>1 DEF CurrentLine
  <1>7. step \in Talking \union {"write"} => CurrentLine' = CurrentLine
    BY <1>6 DEF MailInv, Serving
  <1>8. Serving' /\ Calling' /\ Missing' /\ Mailbox'
    BY <1>2, <1>7 DEF MailInv, Serving, Calling, Missing, Mailbox, Talking, BadArguments
  <1>9. Listing'
    BY <1>2, <1>7 DEF MailInv, Listing, Talking, IsListing, NewestOf, BadArguments, Limit,
                      DefaultLimit, Wanted
  <1>10. InOrder'
    <2>1. Served' = Served /\ \A i \in 1..Served : i \in 1..Len(lines)
      <3>1. step \notin {"reading", "exited", "starting"} => step \in Talking \union {"write"}
        BY DEF MailInv, MailTypeOK, Talking
      <3>. QED BY <1>2, <1>3, <3>1 DEF Served
    <2>2. Owing(lines', Served) = Owing(lines, Served)
      BY <1>4, <2>1 DEF Owing
    <2>3. \A i \in Owing(lines, Served) : IdOf(lines', i) = IdOf(lines, i)
      BY <1>4, <2>1 DEF Owing, IdOf
    <2>4. Ordered(Owing(lines, Served), lines, output)
      BY DEF MailInv, InOrder
    <2>5. Ordered(Owing(lines, Served), lines', output)
      BY <2>3, <2>4 DEF Ordered
    <2>. QED BY <1>2, <2>1, <2>2, <2>5 DEF MailInv, InOrder
  <1>. QED BY <1>5, <1>8, <1>9, <1>10 DEF MailInv

\* Messages come and go during a session: what was right to report still is.
LEMMA MailKeeps ==
  ASSUME MailInv, Arrive \/ Expunge
  PROVE  MailInv'
  <1>1. /\ UNCHANGED <<backend, lines, eof, next, step, session, found, reply, output>>
        /\ seen \subseteq seen' /\ steady' \subseteq steady
        /\ seen' \subseteq 1..MaxUid /\ uidNext' \in Nat \ {0}
        /\ inbox' \subseteq 1..MaxUid /\ steady' \subseteq inbox' /\ inbox' \subseteq seen'
    <2>1. /\ MaxUid \in Nat /\ uidNext \in Nat \ {0} /\ seen \subseteq 1..MaxUid
          /\ inbox \subseteq 1..MaxUid /\ steady \subseteq inbox /\ inbox \subseteq seen
      BY MailAssumption DEF MailInv, MailTypeOK, Mailbox
    <2>2. CASE Arrive
      <3>1. uidNext \in 1..MaxUid
        BY <2>1, <2>2 DEF Arrive
      <3>. QED BY <2>1, <2>2, <3>1 DEF Arrive, loopVars
    <2>3. CASE Expunge
      BY <2>1, <2>3 DEF Expunge, loopVars
    <2>. QED BY <2>2, <2>3
  <1>2. MailTypeOK' /\ Serving' /\ Calling' /\ Missing' /\ Mailbox'
    BY <1>1 DEF MailInv, MailTypeOK, Serving, Calling, Missing, Mailbox, CurrentLine, BadArguments
  <1>3. Listing'
    <2>1. ASSUME NEW uids, IsListing(CurrentLine), NewestOf(CurrentLine, uids, seen, steady)
          PROVE  NewestOf(CurrentLine, uids, seen', steady')
      BY <1>1, <2>1, NewestStays
    <2>2. step = "fetch" /\ CurrentLine.kind # "fetch_message" => IsListing(CurrentLine)
      BY Searching
    <2>3. CurrentLine' = CurrentLine /\ IsListing(CurrentLine)' = IsListing(CurrentLine)
      BY <1>1 DEF CurrentLine, IsListing, BadArguments
    <2>4. step = "fetch" /\ CurrentLine.kind # "fetch_message" =>
            NewestOf(CurrentLine, found, seen', steady')
      BY <2>1, <2>2 DEF MailInv, Listing
    <2>5. step \in {"logout", "write"} /\ reply.kind = "summaries" =>
            IsListing(CurrentLine) /\ NewestOf(CurrentLine, reply.uids, seen', steady')
      BY <2>1 DEF MailInv, Listing
    <2>. QED BY <1>1, <2>3, <2>4, <2>5 DEF Listing, NewestOf, Limit, DefaultLimit, Wanted
  <1>4. InOrder'
    BY <1>1, OrderKept DEF Served
  <1>. QED BY <1>2, <1>3, <1>4 DEF MailInv

LEMMA StillKeeps ==
  ASSUME MailInv, Start \/ InputEnds \/ Close \/ UNCHANGED mailServerVars
  PROVE  MailInv'
  <1>1. /\ UNCHANGED <<backend, lines, next, session, found, reply, output,
                       inbox, uidNext, steady, seen>>
        /\ eof => eof'
        /\ \/ step' = step
           \/ step \in {"starting", "reading"} /\ step' \in {"reading", "exited"}
    <2>1. CASE Start
      BY <2>1 DEF Start, mailVars
    <2>2. CASE InputEnds
      BY <2>2 DEF InputEnds, mailVars
    <2>3. CASE Close
      BY <2>3 DEF Close, loopVars, mailVars
    <2>4. CASE UNCHANGED mailServerVars
      BY <2>4 DEF mailServerVars, loopVars, mailVars
    <2>. QED BY <2>1, <2>2, <2>3, <2>4
  <1>2. MailTypeOK' /\ Serving' /\ Calling' /\ Listing' /\ Missing' /\ Mailbox'
    BY <1>1 DEF MailInv, MailTypeOK, Serving, Calling, Listing, Missing, Mailbox, Talking,
                CurrentLine, BadArguments, IsListing, NewestOf, Limit, DefaultLimit, Wanted
  <1>3. Served' = Served
    BY <1>1 DEF Served
  <1>4. InOrder'
    BY <1>1, <1>3 DEF MailInv, InOrder
  <1>. QED BY <1>2, <1>4 DEF MailInv

LEMMA InitHolds ==
  ASSUME MailInit
  PROVE  MailInv
  <1>1. PICK n \in 0..MaxUid : inbox = 1..n /\ uidNext = n + 1
    BY DEF MailInit
  <1>2. MaxUid \in Nat /\ n \in Nat /\ inbox \subseteq 1..MaxUid
    BY <1>1, MailAssumption
  <1>3. MailTypeOK /\ Mailbox
    BY <1>1, <1>2, MailAssumption DEF MailInit, MailTypeOK, Mailbox
  <1>4. Serving /\ Calling /\ Listing /\ Missing
    BY DEF MailInit, Serving, Calling, Listing, Missing, Talking
  <1>5. InOrder
    <2>1. Owing(lines, Served) = {}
      BY DEF MailInit, Owing, Served
    <2>2. Cardinality(Owing(lines, Served)) = 0
      BY <2>1, FS_EmptySet
    <2>3. output \in Seq(Written) /\ Len(output) = 0
      BY DEF MailInit
    <2>. QED BY <2>1, <2>2, <2>3 DEF InOrder, Ordered
  <1>. QED BY <1>3, <1>4, <1>5 DEF MailInv

LEMMA MailInvariant == MailSpec => []MailInv
  <1>1. MailInv /\ [MailNext]_mailServerVars => MailInv'
    BY ReadKeeps, WriteKeeps, ImapKeeps, SendKeeps, MailKeeps, StillKeeps DEF MailNext, Loop
  <1>. QED BY <1>1, InitHolds, PTL DEF MailSpec

\* The types of the loop's, the session's and the mailbox's state (MailServer!MailTypeOK).
THEOREM MailTypeCorrect == MailSpec => []MailTypeOK
  BY MailInvariant, PTL DEF MailInv

\* Every line that is owed a reply gets one, in their order, each under the id of
\* its request (MailServer!RepliesInOrder, Server::run), however long the input.
THEOREM RepliesCorrect == MailSpec => []RepliesInOrder
  BY MailInvariant, Implied, PTL

\* A listing reports messages that were there, newest first and within the limit, and
\* leaves out one that was there all along only for as many newer ones
\* (MailServer!ListingIsNewest, uid_search and fetch_summaries).
THEOREM ListingCorrect == MailSpec => []ListingIsNewest
  BY MailInvariant, Implied, PTL

\* A message reported missing was not there all along (MailServer!MissingWasMissing).
THEOREM MissingCorrect == MailSpec => []MissingWasMissing
  BY MailInvariant, Implied, PTL

-----------------------------------------------------------------------------
(* The mail server is a well-meaning child.                                 *)

\* The id of a reply is that of a line served, or none.
Numbered == \A k \in DOMAIN output : output[k].id \in (1..Served) \union {NullId}

\* What the refinement reads of the state.
Seen == <<lines, next, output>>

LEMMA OthersKeepSeen ==
  ASSUME MailInv,
         \/ Start \/ InputEnds \/ Imap \/ Close \/ Arrive \/ Expunge
         \/ UNCHANGED mailServerVars
  PROVE  UNCHANGED Seen /\ Served' = Served
  <1>1. CASE Start
    BY <1>1 DEF Start, Seen, Served
  <1>2. CASE InputEnds
    BY <1>2 DEF InputEnds, Seen, Served
  <1>3. CASE Imap
    <2>1. UNCHANGED Seen
      BY <1>3 DEF Imap, Connect, Examine, Search, FetchSummaries, FetchMessage, Logout,
                  Concludes, Session, Seen
    <2>2. /\ step \notin {"starting", "reading", "exited"}
          /\ step' \notin {"starting", "reading", "exited"}
      BY <1>3 DEF Imap, Connect, Examine, Search, FetchSummaries, FetchMessage, Logout,
                  Concludes, Session
    <2>. QED BY <2>1, <2>2 DEF Seen, Served
  <1>4. CASE Close
    BY <1>4 DEF Close, loopVars, Seen, Served
  <1>5. CASE Arrive
    BY <1>5 DEF Arrive, loopVars, Seen, Served
  <1>6. CASE Expunge
    BY <1>6 DEF Expunge, loopVars, Seen, Served
  <1>7. CASE UNCHANGED mailServerVars
    BY <1>7 DEF mailServerVars, loopVars, Seen, Served
  <1>. QED BY <1>1, <1>2, <1>3, <1>4, <1>5, <1>6, <1>7

LEMMA SeenStutters ==
  ASSUME UNCHANGED Seen
  PROVE  UNCHANGED <<RequestsRead, RepliesTo>>
  BY DEF Seen, RequestsRead, RepliesTo

\* More lines do not change which of those read are requests.
LEMMA SendStutters ==
  ASSUME MailInv, Send
  PROVE  UNCHANGED <<RequestsRead, RepliesTo, output, Served>>
  <1>1. PICK line \in Lines : lines' = Append(lines, line)
    BY DEF Send
  <1>2. UNCHANGED <<next, step, output>>
    BY DEF Send, loopVars
  <1>3. /\ lines \in Seq(Lines) /\ Len(lines) \in Nat /\ next \in 1..Len(lines) + 1
        /\ \A i \in 1..Len(lines) : lines'[i] = lines[i]
    BY <1>1, AppendProperties DEF MailInv, MailTypeOK
  <1>4. RequestsRead' = RequestsRead
    BY <1>2, <1>3 DEF RequestsRead
  <1>. QED BY <1>2, <1>4 DEF RepliesTo, Served

\* A line that is a request is received; any other changes nothing.
LEMMA ReadIsRead ==
  ASSUME MailInv, NextLine
  PROVE  /\ Child!Next \/ UNCHANGED <<RequestsRead, RepliesTo>>
         /\ output' = output /\ Served \in Nat /\ Served' \in {Served, Served + 1}
  <1>1. /\ step = "reading" /\ next <= Len(lines) /\ next' = next + 1
        /\ UNCHANGED <<lines, output>>
    BY DEF NextLine
  <1>2. next \in 1..MaxLines /\ MaxLines \in Nat
    BY <1>1, MailAssumption DEF MailInv, MailTypeOK
  <1>3. \A i : i \in 1..next' - 1 <=> i \in 1..next - 1 \/ i = next
    BY <1>1, <1>2
  <1>4. RepliesTo' = RepliesTo
    BY <1>1 DEF RepliesTo
  <1>5. RequestsRead' = RequestsRead \union {next} \/ RequestsRead' = RequestsRead
    BY <1>1, <1>3 DEF RequestsRead
  <1>6. Served \in Nat /\ Served' \in {Served, Served + 1}
    BY <1>1, <1>2 DEF Served
  <1>. QED BY <1>1, <1>2, <1>4, <1>5, <1>6 DEF Child!Next, Child!Read

\* A reply answers the request it was made for, which had no answer; a reply to what
\* could not be parsed answers none.
LEMMA WriteAnswers ==
  ASSUME MailInv, Numbered, WriteReply
  PROVE  (Child!Next \/ UNCHANGED <<RequestsRead, RepliesTo>>) /\ Numbered'
  <1>. DEFINE id == next - 1
              written == [id |-> ReplyId, kind |-> reply.kind]
  <1>1. /\ step = "write" /\ UNCHANGED <<lines, next>>
        /\ \/ output' = Append(output, written) /\ step' = "reading"
           \/ step' = "exited" /\ output' = output
    BY DEF WriteReply
  <1>2. /\ id \in 1..Len(lines) /\ Len(lines) \in Nat /\ id \in 1..MaxLines
        /\ lines[id].kind \notin NeedNone
        /\ output \in Seq(Written) /\ reply \in Replies
    <2>1. next > 1 /\ lines[id].kind \notin NeedNone
      BY <1>1 DEF MailInv, Serving, CurrentLine
    <2>2. id \in 1..Len(lines) /\ Len(lines) \in Nat /\ id \in 1..MaxLines
      BY <2>1, MailAssumption DEF MailInv, MailTypeOK
    <2>3. output \in Seq(Written)
      BY DEF MailInv, InOrder, Ordered
    <2>4. reply \in Replies
      BY <1>1 DEF MailInv, MailTypeOK
    <2>. QED BY <2>1, <2>2, <2>3, <2>4
  <1>3. Served = id - 1 /\ Served' = id
    <2>1. next \in Nat
      BY DEF MailInv, MailTypeOK
    <2>. QED BY <1>1, <2>1 DEF Served
  <1>4. RequestsRead' = RequestsRead
    BY <1>1 DEF RequestsRead
  <1>5. /\ ReplyId = (IF lines[id].kind = "garbage" THEN NullId ELSE id)
        /\ ReplyId \in Nat \union {NullId}
    BY <1>2 DEF ReplyId, CurrentLine
  <1>. HIDE DEF id
  <1>6. CASE output' = output
    <2>1. RepliesTo' = RepliesTo
      BY <1>6 DEF RepliesTo
    <2>2. Numbered'
      BY <1>2, <1>3, <1>6 DEF Numbered
    <2>. QED BY <1>4, <2>1, <2>2
  <1>7. CASE output' = Append(output, written)
    <2>1. written \in Written /\ written.id = ReplyId
      BY <1>2, <1>5 DEF Written
    <2>. HIDE DEF written
    <2>. DEFINE n == Len(output)
    <2>2. /\ n \in Nat /\ DOMAIN output = 1..n /\ DOMAIN output' = 1..n + 1
          /\ output'[n + 1].id = ReplyId
          /\ \A k \in 1..n : output'[k] = output[k]
      <3>1. /\ output' \in Seq(Written) /\ Len(output') = n + 1
            /\ \A k \in 1..n : output'[k] = output[k]
            /\ output'[n + 1] = written
        BY <1>2, <1>7, <2>1, AppendProperties
      <3>2. n \in Nat /\ DOMAIN output = 1..n /\ DOMAIN output' = 1..n + 1
        BY <1>2, <3>1, LenProperties
      <3>. QED BY <2>1, <3>1, <3>2
    <2>. HIDE DEF n
    <2>3. \A k : k \in 1..n + 1 <=> k \in 1..n \/ k = n + 1
      BY <2>2
    <2>4. \A k \in 1..n : output[k].id \in (1..id - 1) \union {NullId}
      BY <1>3, <2>2 DEF Numbered
    <2>5. Numbered'
      <3>1. \A k \in 1..n + 1 : output'[k].id \in (1..id) \union {NullId}
        BY <1>2, <1>5, <2>2, <2>3, <2>4
      <3>. QED BY <1>3, <2>2, <3>1 DEF Numbered
    <2>6. ASSUME NEW i \in 1..MaxLines, i # ReplyId
          PROVE  RepliesTo'[i] = RepliesTo[i]
      <3>1. {k \in DOMAIN output' : output'[k].id = i} = {k \in DOMAIN output : output[k].id = i}
        BY <2>2, <2>3, <2>6
      <3>. QED BY <3>1 DEF RepliesTo
    <2>7. CASE lines[id].kind = "garbage"
      <3>1. \A i \in 1..MaxLines : i # ReplyId
        BY <1>5, <2>7, MailAssumption
      <3>2. RepliesTo' = RepliesTo
        BY <2>6, <3>1 DEF RepliesTo
      <3>. QED BY <1>4, <2>5, <3>2
    <2>8. CASE lines[id].kind # "garbage"
      <3>1. ReplyId = id
        BY <1>5, <2>8
      <3>2. id \in RequestsRead
        BY <1>1, <1>2, <2>8 DEF RequestsRead, NeedNone, id
      <3>3. RepliesTo[id] = 0
        <4>1. {k \in DOMAIN output : output[k].id = id} = {}
          BY <1>2, <2>2, <2>4, MailAssumption
        <4>. QED BY <1>2, <4>1, FS_EmptySet DEF RepliesTo
      <3>4. RepliesTo'[id] = 1
        <4>1. {k \in DOMAIN output' : output'[k].id = id} = {n + 1}
          BY <1>2, <2>2, <2>3, <2>4, <3>1, MailAssumption
        <4>. QED BY <1>2, <4>1, FS_Singleton DEF RepliesTo
      <3>5. RepliesTo' = [RepliesTo EXCEPT ![id] = 1]
        BY <1>2, <2>6, <3>1, <3>4 DEF RepliesTo
      <3>6. Child!Answer(id)
        BY <1>4, <3>2, <3>3, <3>5 DEF Child!Answer
      <3>. QED BY <1>2, <2>5, <3>6 DEF Child!Next
    <2>. QED BY <2>7, <2>8
  <1>. QED BY <1>1, <1>6, <1>7

\* The loop answers every request after it has read it, and at most once
\* (MailServer!WellMeaning, Server::run): what the client takes for granted of its
\* child.
THEOREM MailIsWellMeaning == MailSpec => WellMeaning
  <1>1. MailInit => Numbered /\ Child!Init
    <2>. SUFFICES ASSUME MailInit PROVE Numbered /\ Child!Init
      OBVIOUS
    <2>1. output = <<>> /\ DOMAIN output = {} /\ next = 1
      BY DEF MailInit
    <2>2. Numbered /\ RequestsRead = {}
      BY <2>1 DEF Numbered, RequestsRead
    <2>3. \A i : {k \in DOMAIN output : output[k].id = i} = {}
      BY <2>1
    <2>4. RepliesTo = [i \in 1..MaxLines |-> 0]
      BY <2>3, FS_EmptySet DEF RepliesTo
    <2>. QED BY <2>2, <2>4 DEF Child!Init
  <1>2. ASSUME MailInv, Numbered, [MailNext]_mailServerVars
        PROVE  Numbered' /\ [Child!Next]_<<RequestsRead, RepliesTo>>
    <2>1. CASE NextLine
      <3>1. Numbered'
        BY <1>2, <2>1, ReadIsRead DEF Numbered
      <3>. QED BY <1>2, <2>1, <3>1, ReadIsRead
    <2>2. CASE WriteReply
      BY <1>2, <2>2, WriteAnswers
    <2>3. CASE Send
      BY <1>2, <2>3, SendStutters DEF Numbered
    <2>4. CASE \/ Start \/ InputEnds \/ Imap \/ Close \/ Arrive \/ Expunge
               \/ UNCHANGED mailServerVars
      <3>1. UNCHANGED Seen /\ Served' = Served
        BY <1>2, <2>4, OthersKeepSeen
      <3>. QED BY <1>2, <3>1, SeenStutters DEF Numbered, Seen
    <2>. QED BY <1>2, <2>1, <2>2, <2>3, <2>4 DEF MailNext, Loop
  <1>. QED BY <1>1, <1>2, MailInvariant, PTL DEF MailSpec, WellMeaning, Child!Spec

-----------------------------------------------------------------------------
(* The client.                                                              *)

\* The lines a child that has answered `ids` can have printed.
GivenLines(ids) == {line \in Line : line.kind \in {"answer", "error"} => line.id \in ids}

InProgress ==
  /\ client \in {"writing", "waiting"} => next_id > 1
  /\ client = "writing" => unsent > 0

Inv ==
  /\ TypeOK
  /\ InProgress
  /\ stdout \in Seq(GivenLines(answered))
  /\ channel \in Seq(GivenLines(answered))
  /\ AnswerIsOurs

USE ChildClientAssumption

\* What may be printed stays what may be printed when more is answered.
LEMMA GivenGrows ==
  ASSUME NEW ids, NEW more, NEW queue \in Seq(GivenLines(ids))
  PROVE  queue \in Seq(GivenLines(ids \union more))
  <1>1. GivenLines(ids) \subseteq GivenLines(ids \union more)
    BY DEF GivenLines
  <1>. QED BY <1>1, SeqMonotonic

\* Taking the first line of a queue leaves a queue of such lines, and the line
\* is one of them.
LEMMA TakeLine ==
  ASSUME NEW S, NEW q \in Seq(S), q # <<>>
  PROVE  /\ Head(q) \in S
         /\ Tail(q) \in Seq(S)
         /\ Len(Tail(q)) = Len(q) - 1
         /\ Len(q) \in Nat \ {0}
  OBVIOUS

LEMMA PutLine ==
  ASSUME NEW S, NEW q \in Seq(S), NEW x \in S
  PROVE  Append(q, x) \in Seq(S) /\ Len(Append(q, x)) = Len(q) + 1
  OBVIOUS

\* A step of Return, with an answer that is the child's to the current request
\* or with none, keeps what the invariant says of the requesting thread.
LEMMA ReturnStep ==
  ASSUME Inv, client \in {"writing", "waiting"},
         NEW outcome \in Outcomes, NEW of \in Ids \union {NoId},
         outcome \in {"Ok", "Rpc"} => of = Current /\ of \in answered,
         Return(outcome, of)
  PROVE  /\ phase' \in {"initialize", "initialized", "serving"}
         /\ client' \in {"idle", "writing", "dropped"}
         /\ next_id' = next_id /\ next_id > 1
         /\ unsent' \in 0..MaxSize
         /\ client' = "writing" => unsent' > 0
         /\ budget' = 0
         /\ child' \in {"running", "exited"}
         /\ results' \subseteq [id : Ids, outcome : Outcomes, of : Ids \union {NoId}]
         /\ \A r \in results' :
              r.outcome \in {"Ok", "Rpc"} => r.of = r.id /\ r.id \in answered
  <1>1. Current \in Ids
    BY DEF Inv, TypeOK, InProgress, Current, Ids
  <1>2. CASE phase = "serving"
    BY <1>1, <1>2 DEF Inv, TypeOK, InProgress, AnswerIsOurs, Return
  <1>3. CASE phase # "serving" /\ outcome = "Ok"
    BY <1>1, <1>3 DEF Inv, TypeOK, InProgress, AnswerIsOurs, Return
  <1>4. CASE phase # "serving" /\ outcome # "Ok"
    BY <1>1, <1>4 DEF Inv, TypeOK, InProgress, AnswerIsOurs, Return
  <1>. QED BY <1>2, <1>3, <1>4

LEMMA Inductive ==
  ASSUME Inv, [Next]_vars
  PROVE  Inv'
  <1>. USE DEF Inv
  <1>1. ASSUME NEW size \in 1..MaxSize, Request(size)
        PROVE  Inv'
    BY <1>1 DEF TypeOK, InProgress, AnswerIsOurs, Request, server
  <1>2. CASE Write
    <2>. DEFINE id == IF phase = "initialized" THEN NoId ELSE Current
                chunk == [id |-> id, last |-> unsent = 1]
    <2>1. chunk \in Chunk
      BY <1>2 DEF TypeOK, InProgress, Write, Chunk, Current, Ids
    <2>2. stdin' \in Seq(Chunk) /\ Len(stdin') <= StdinCapacity
      BY <1>2, <2>1, PutLine DEF TypeOK, Write
    <2>. HIDE DEF id, chunk
    <2>3. CASE unsent > 1
      BY <1>2, <2>2, <2>3 DEF TypeOK, InProgress, AnswerIsOurs, Write, server
    <2>4. CASE ~(unsent > 1)
      BY SMTT(30), <1>2, <2>2, <2>4 DEF TypeOK, InProgress, AnswerIsOurs, Write, server
    <2>. QED BY <2>3, <2>4
  <1>3. CASE WriteFails
    <2>1. client \in {"writing", "waiting"} /\ Return("Io", NoId)
      BY <1>3 DEF WriteFails
    <2>. QED BY <1>3, <2>1, ReturnStep
           DEF TypeOK, InProgress, AnswerIsOurs, WriteFails, server, Outcomes
  <1>4. CASE Receive
    <2>. DEFINE line == Head(channel)
    <2>1. /\ line \in GivenLines(answered)
          /\ channel' \in Seq(GivenLines(answered))
          /\ channel' \in Seq(Line) /\ Len(channel') <= MaxChannel
      BY <1>4, TakeLine DEF TypeOK, Receive
    <2>2. UNCHANGED <<stdin, stdout, reader, server>> /\ client = "waiting"
      BY <1>4 DEF Receive
    <2>. HIDE DEF line
    <2>3. ASSUME NEW outcome \in Outcomes, NEW of \in Ids \union {NoId},
                 outcome \in {"Ok", "Rpc"} => of = Current /\ of \in answered,
                 Return(outcome, of)
          PROVE  Inv'
      BY <2>1, <2>2, <2>3, ReturnStep DEF TypeOK, InProgress, AnswerIsOurs, server
    <2>4. CASE UNCHANGED <<requester, child>>
      BY <2>1, <2>2, <2>4 DEF TypeOK, InProgress, AnswerIsOurs, server, requester
    <2>5. CASE line.kind = "overlong" /\ Return("Io", NoId)
      BY <2>3, <2>5 DEF Outcomes
    <2>6. CASE line.kind = "garbage" /\ Return("Protocol", NoId)
      BY <2>3, <2>6 DEF Outcomes
    <2>7. CASE line.kind = "answer" /\ line.id = Current /\ Return("Ok", line.id)
      <3>1. line.id \in Ids /\ line.id \in answered
        BY <2>1, <2>7 DEF GivenLines, TypeOK
      <3>. QED BY <2>3, <2>7, <3>1 DEF Outcomes
    <2>8. CASE line.kind = "error" /\ line.id = Current /\ Return("Rpc", line.id)
      <3>1. line.id \in Ids /\ line.id \in answered
        BY <2>1, <2>8 DEF GivenLines, TypeOK
      <3>. QED BY <2>3, <2>8, <3>1 DEF Outcomes
    <2>. QED BY <1>4, <2>4, <2>5, <2>6, <2>7, <2>8 DEF Receive, line
  <1>5. CASE TimesOut
    <2>1. client \in {"writing", "waiting"} /\ Return("Timeout", NoId)
      BY <1>5 DEF TimesOut
    <2>. QED BY <1>5, <2>1, ReturnStep
           DEF TypeOK, InProgress, AnswerIsOurs, TimesOut, server, Outcomes
  <1>6. CASE Disconnected
    <2>1. client \in {"writing", "waiting"} /\ Return("Exited", NoId)
      BY <1>6 DEF Disconnected
    <2>. QED BY SMTT(30), <1>6, <2>1, ReturnStep
           DEF TypeOK, InProgress, AnswerIsOurs, Disconnected, server, Outcomes
  <1>7. CASE Drop
    BY <1>7 DEF TypeOK, InProgress, AnswerIsOurs, Drop, server
  <1>8. CASE Tick
    BY <1>8 DEF TypeOK, InProgress, AnswerIsOurs, Tick, server
  <1>9. CASE ReadLine
    <2>1. /\ Head(stdout) \in GivenLines(answered) /\ Head(stdout) \in Line
          /\ stdout' \in Seq(GivenLines(answered)) /\ stdout' \in Seq(Line)
          /\ Len(stdout') <= StdoutCapacity
      BY <1>9, TakeLine DEF TypeOK, ReadLine
    <2>2. UNCHANGED <<requester, child, stdin, server>> /\ reader' \in {"running", "ended"}
      BY <1>9 DEF ReadLine
    <2>3. /\ channel' \in Seq(GivenLines(answered)) /\ channel' \in Seq(Line)
          /\ Len(channel') <= MaxChannel
      <3>1. CASE client = "dropped"
        BY <1>9, <3>1 DEF TypeOK, ReadLine
      <3>2. CASE client # "dropped"
        <4>1. channel' = Append(channel, Head(stdout)) /\ Len(channel) < MaxChannel
          BY <1>9, <3>2 DEF ReadLine
        <4>2. Len(channel) \in Nat
          BY DEF TypeOK
        <4>. QED BY <2>1, <4>1, <4>2, PutLine DEF TypeOK
      <3>. QED BY <3>1, <3>2
    <2>. QED BY <2>1, <2>2, <2>3 DEF TypeOK, InProgress, AnswerIsOurs, requester, server
  <1>10. CASE ReadEof
    BY <1>10 DEF TypeOK, InProgress, AnswerIsOurs, ReadEof, requester, server
  <1>11. CASE ChildReads
    <2>1. Head(stdin) \in Chunk /\ stdin' \in Seq(Chunk) /\ Len(stdin') <= StdinCapacity
      BY <1>11, TakeLine DEF TypeOK, ChildReads
    <2>2. received \subseteq received' /\ received' \subseteq Ids
      BY <1>11, <2>1 DEF TypeOK, ChildReads, Chunk
    <2>. QED BY <1>11, <2>1, <2>2 DEF TypeOK, InProgress, AnswerIsOurs, ChildReads, requester
  <1>12. CASE ChildAnswers
    <2>1. PICK id \in received \ answered, kind \in {"answer", "error"} :
            /\ ChildPrints([kind |-> kind, id |-> id])
            /\ answered' = answered \union {id}
            /\ UNCHANGED chatter
      BY <1>12 DEF ChildAnswers
    <2>2. [kind |-> kind, id |-> id] \in GivenLines(answered')
      BY <2>1 DEF TypeOK, GivenLines, Line
    <2>3. stdout \in Seq(GivenLines(answered')) /\ channel \in Seq(GivenLines(answered'))
      BY <2>1, GivenGrows
    <2>4. /\ stdout' \in Seq(GivenLines(answered'))
          /\ stdout' \in Seq(Line) /\ Len(stdout') <= StdoutCapacity
      BY <2>1, <2>2, <2>3, PutLine DEF TypeOK, ChildPrints, GivenLines
    <2>. QED BY <2>1, <2>3, <2>4 DEF TypeOK, InProgress, AnswerIsOurs, ChildPrints, requester
  <1>13. CASE ChildChatters
    <2>1. PICK kind \in ChatterKinds : ChildPrints([kind |-> kind, id |-> NoId])
      BY <1>13 DEF ChildChatters
    <2>2. [kind |-> kind, id |-> NoId] \in GivenLines(answered)
      BY DEF GivenLines, Line
    <2>3. /\ stdout' \in Seq(GivenLines(answered))
          /\ stdout' \in Seq(Line) /\ Len(stdout') <= StdoutCapacity
      BY <2>1, <2>2, PutLine DEF TypeOK, ChildPrints, GivenLines
    <2>4. answered' = answered /\ chatter' \in 0..MaxChatter
      BY <1>13 DEF TypeOK, ChildChatters
    <2>. QED BY <2>1, <2>3, <2>4 DEF TypeOK, InProgress, AnswerIsOurs, ChildPrints, requester
  <1>14. CASE ChildExits
    BY <1>14 DEF TypeOK, InProgress, AnswerIsOurs, ChildExits, requester, server
  <1>15. CASE UNCHANGED vars
    BY <1>15 DEF TypeOK, InProgress, AnswerIsOurs, vars, requester, server
  <1>. QED BY <1>1, <1>2, <1>3, <1>4, <1>5, <1>6, <1>7, <1>8, <1>9, <1>10,
              <1>11, <1>12, <1>13, <1>14, <1>15 DEF Next, Requesting, Reading

LEMMA Invariant == Spec => []Inv
  <1>1. Init => Inv
    BY DEF Init, Inv, TypeOK, InProgress, AnswerIsOurs, Ids
  <1>. QED BY <1>1, Inductive, PTL DEF Spec

\* The types of the client's and the child's state (ChildClient!TypeOK).
THEOREM TypeCorrect == Spec => []TypeOK
  BY Invariant, PTL DEF Inv

\* No request ever returns another request's answer (ChildClient!AnswerIsOurs,
\* the id check of StdioMcpClient::request).
THEOREM AnswersAreOurs == Spec => []AnswerIsOurs
  BY Invariant, PTL DEF Inv
=============================================================================
