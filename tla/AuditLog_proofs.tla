--------------------------- MODULE AuditLog_proofs ---------------------------
(***************************************************************************)
(* The ring follows the file, for any number of threads, events, crashes   *)
(* and failing writes, and any capacity.                                   *)
(*                                                                         *)
(* The inductive invariant adds to TypeOK that the threads inside record   *)
(* have events of their own (Own), that a thread past its first write has  *)
(* put its event in the file, unless the write failed (Written), and that  *)
(* the ring holds returned events, once each (Ring).                       *)
(*                                                                         *)
(* That only crashes and failed writes lose an event needs to know what    *)
(* the file looks like: every event has one place in it (OnePlace), a line *)
(* whose newline is outstanding is the last piece (InHand), a returned     *)
(* event is there whole, with its newline, if no write of it failed        *)
(* (KeptWhole), and there are at most as many lines without a newline as   *)
(* there were crashes (Torn). An event that a reader loses can then be     *)
(* blamed on the piece before it, and no two on the same piece.            *)
(***************************************************************************)
EXTENDS AuditLog, FiniteSetTheorems, FunctionTheorems, SequenceTheorems, TLAPS

OnFile(e) == e \in failed \/ \E j \in DOMAIN file : file[j].event = e

OneWriter == \A t, u \in Thread : pc[t] = "newline" /\ pc[u] = "newline" => t = u

Own ==
  /\ returned \subseteq 1..events
  /\ \A t \in Thread : pc[t] # "idle" => event[t] \in (1..events) \ returned
  /\ \A t, u \in Thread : pc[t] # "idle" /\ pc[u] # "idle" /\ event[t] = event[u] => t = u

Written == \A t \in Thread : pc[t] \in {"newline", "ring"} => OnFile(event[t])

Ring ==
  /\ \A i \in DOMAIN recent : recent[i] \in returned /\ OnFile(recent[i])
  /\ \A i, j \in DOMAIN recent : recent[i] = recent[j] => i = j

Full ==
  /\ IsFiniteSet(returned)
  /\ crashes = 0 => Len(recent) = IF Cardinality(returned) <= RecentCap
                                    THEN Cardinality(returned) ELSE RecentCap

Typed ==
  /\ file \in Seq(Piece)
  /\ recent \in Seq(Event) /\ Len(recent) <= RecentCap
  /\ pc \in [Thread -> {"idle", "entered", "newline", "ring"}]
  /\ event \in [Thread -> Event \union {NoEvent}]
  /\ events \in 0..MaxEvents
  /\ returned \subseteq Event /\ failed \subseteq Event
  /\ crashes \in 0..MaxCrashes

Inv == Typed /\ OneWriter /\ Own /\ Written /\ Ring /\ Full

USE AuditAssumption DEF Event, NoEvent

-----------------------------------------------------------------------------

\* The file only grows: what is on it stays on it.
LEMMA FileGrows ==
  ASSUME file \in Seq(Piece), failed \subseteq failed',
         file' = file \/ \E p \in Piece : file' = Append(file, p)
  PROVE  file' \in Seq(Piece) /\ \A e : OnFile(e) => OnFile(e)'
  <1>1. CASE file' = file
    BY <1>1 DEF OnFile
  <1>2. ASSUME NEW p \in Piece, file' = Append(file, p)
        PROVE  file' \in Seq(Piece) /\ \A e : OnFile(e) => OnFile(e)'
    <2>1. /\ file' \in Seq(Piece)
          /\ \A j \in DOMAIN file : j \in DOMAIN file' /\ file'[j] = file[j]
      BY <1>2
    <2>. QED BY <2>1 DEF OnFile
  <1>. QED BY <1>1, <1>2

\* A write of a thread's line puts its event on the file, or has failed.
LEMMA WriteEffect ==
  ASSUME Typed, NEW t \in Thread, NEW e \in Event, e = event[t],
         NEW piece, piece = [event |-> e, whole |-> TRUE] \/ piece = Newline,
         Write(t, piece)
  PROVE  /\ failed \subseteq failed' /\ failed' \subseteq Event
         /\ file' = file \/ \E p \in Piece : file' = Append(file, p)
         /\ piece # Newline => OnFile(e)'
  <1>. DEFINE text == [event |-> e, whole |-> TRUE]
              torn == [event |-> e, whole |-> FALSE]
  <1>1. text \in Piece /\ torn \in Piece /\ Newline \in Piece
    BY DEF Piece
  <1>2. text.event = e /\ torn.event = e /\ torn = [event |-> event[t], whole |-> FALSE]
    OBVIOUS
  <1>3. piece = text \/ piece = Newline
    OBVIOUS
  <1>4. \/ file' = Append(file, piece) /\ UNCHANGED failed
        \/ /\ failed' = failed \union {event[t]}
           /\ \/ UNCHANGED file
              \/ piece # Newline /\ file' = Append(file, torn)
    BY <1>2 DEF Write
  <1>. HIDE DEF text, torn
  <1>5. \A p \in Piece : file' = Append(file, p) /\ p.event = e => OnFile(e)'
    <2>. SUFFICES ASSUME NEW p \in Piece, file' = Append(file, p), p.event = e
                  PROVE  OnFile(e)'
      OBVIOUS
    <2>1. Len(file) + 1 \in DOMAIN file' /\ file'[Len(file) + 1] = p
      BY DEF Typed
    <2>. QED BY <2>1 DEF OnFile
  <1>6. CASE file' = Append(file, piece) /\ UNCHANGED failed
    BY <1>1, <1>2, <1>3, <1>5, <1>6 DEF Typed
  <1>7. CASE /\ failed' = failed \union {event[t]}
             /\ \/ UNCHANGED file
                \/ piece # Newline /\ file' = Append(file, torn)
    <2>1. failed' \subseteq Event /\ failed \subseteq failed' /\ OnFile(e)'
      BY <1>7 DEF Typed, OnFile
    <2>. QED BY <1>1, <1>7, <2>1
  <1>. QED BY <1>4, <1>6, <1>7

LEMMA InitInv == Init => Inv
  <1>. SUFFICES ASSUME Init PROVE Inv
    OBVIOUS
  <1>1. Typed
    BY DEF Init, Typed
  <1>2. Full
    <2>1. IsFiniteSet({}) /\ Cardinality({}) = 0
      BY FS_EmptySet
    <2>. QED BY <2>1 DEF Init, Full
  <1>3. OneWriter /\ Own /\ Written /\ Ring
    BY DEF Init, OneWriter, Own, Written, Ring
  <1>. QED BY <1>1, <1>2, <1>3 DEF Inv

-----------------------------------------------------------------------------
(* The steps.                                                               *)

\* What is on the file or has failed is so in the next state too, so that a step
\* which leaves the ring and its events alone keeps Ring.
LEMMA RingStays ==
  ASSUME Ring, UNCHANGED <<recent, returned>>, \A e : OnFile(e) => OnFile(e)'
  PROVE  Ring'
  BY DEF Ring

LEMMA StepEnter ==
  ASSUME Inv, NEW t \in Thread, Enter(t)
  PROVE  Inv'
  <1>. USE DEF Inv, Enter
  <1>1. events \in Nat /\ events + 1 \in Event /\ events' = events + 1
    BY DEF Typed
  <1>2. Typed'
    BY <1>1 DEF Typed
  <1>3. OneWriter'
    BY DEF Typed, OneWriter
  <1>4. Own'
    BY <1>1 DEF Typed, Own
  <1>5. Written' /\ Ring' /\ Full'
    BY DEF Typed, Written, Ring, Full, OnFile
  <1>. QED BY <1>2, <1>3, <1>4, <1>5

LEMMA StepWriteText ==
  ASSUME Inv, NEW t \in Thread, WriteText(t)
  PROVE  Inv'
  <1>. USE DEF Inv, WriteText
  <1>. DEFINE text == [event |-> event[t], whole |-> TRUE]
  <1>1. event[t] \in Event
    BY DEF Typed, Own
  <1>2. text # Newline
    BY <1>1 DEF Newline
  <1>3. /\ failed \subseteq failed' /\ failed' \subseteq Event /\ OnFile(event[t])'
        /\ file' = file \/ \E p \in Piece : file' = Append(file, p)
    <2>1. \A e \in Event : e = event[t] => OnFile(e)'
      BY <1>2, WriteEffect
    <2>2. /\ failed \subseteq failed' /\ failed' \subseteq Event
          /\ file' = file \/ \E p \in Piece : file' = Append(file, p)
      BY <1>1, <1>2, WriteEffect
    <2>. QED BY <1>1, <2>1, <2>2 DEF OnFile
  <1>4. file' \in Seq(Piece) /\ \A e : OnFile(e) => OnFile(e)'
    BY <1>3, FileGrows DEF Typed
  <1>5. Typed' /\ OneWriter' /\ Own' /\ Full'
    BY <1>3, <1>4 DEF Typed, OneWriter, FileFree, Own, Full
  <1>6. Written'
    BY <1>3, <1>4 DEF Typed, Written
  <1>. QED BY <1>4, <1>5, <1>6, RingStays

LEMMA StepWriteNewline ==
  ASSUME Inv, NEW t \in Thread, WriteNewline(t)
  PROVE  Inv'
  <1>. USE DEF Inv, WriteNewline
  <1>1. event[t] \in Event
    BY DEF Typed, Own
  <1>2. /\ failed \subseteq failed' /\ failed' \subseteq Event
        /\ file' = file \/ \E p \in Piece : file' = Append(file, p)
    BY <1>1, WriteEffect
  <1>3. file' \in Seq(Piece) /\ \A e : OnFile(e) => OnFile(e)'
    BY <1>2, FileGrows DEF Typed
  <1>4. Typed' /\ OneWriter' /\ Own' /\ Full'
    BY <1>2, <1>3 DEF Typed, OneWriter, Own, Full
  <1>5. Written'
    BY <1>3 DEF Typed, Written
  <1>. QED BY <1>3, <1>4, <1>5, RingStays

\* r is s with e appended, less the first n elements.
Shifted(r, s, e, n) ==
  /\ Len(r) = Len(s) + 1 - n
  /\ \A i \in 1..Len(r) : r[i] = Append(s, e)[i + n]

\* r holds e and elements of s, each once if s holds them once and not e.
OldAndNew(r, s, e) ==
  /\ \A i \in DOMAIN r : r[i] = e \/ \E k \in DOMAIN s : r[i] = s[k]
  /\ (\A k \in DOMAIN s : s[k] # e) /\ (\A i, j \in DOMAIN s : s[i] = s[j] => i = j)
       => \A i, j \in DOMAIN r : r[i] = r[j] => i = j

\* An append to a sequence that is cut to its last elements: what was there is
\* moved by one place, or by none.
LEMMA AppendAndTrim ==
  ASSUME NEW S, NEW s \in Seq(S), NEW e \in S, NEW r \in Seq(S), NEW n \in {0, 1},
         Shifted(r, s, e, n)
  PROVE  OldAndNew(r, s, e)
  <1>. USE DEF Shifted
  <1>1. \A i \in DOMAIN r : /\ i \in Int
                            /\ \/ i + n \in DOMAIN s /\ r[i] = s[i + n]
                               \/ i + n = Len(s) + 1 /\ r[i] = e
    BY AppendProperties
  <1>2. ASSUME \A k \in DOMAIN s : s[k] # e, \A i, j \in DOMAIN s : s[i] = s[j] => i = j,
               NEW i \in DOMAIN r, NEW j \in DOMAIN r, r[i] = r[j]
        PROVE  i = j
    <2>1. i + n = j + n
      BY <1>1, <1>2
    <2>. QED BY <1>1, <2>1
  <1>. QED BY <1>1, <1>2 DEF OldAndNew

LEMMA StepPush ==
  ASSUME Inv, NEW t \in Thread, Push(t)
  PROVE  Inv'
  <1>. DEFINE new == event[t]
  <1>1. new \in Event /\ new \in (1..events) \ returned /\ OnFile(new)
    BY DEF Inv, Typed, Own, Written, Push
  <1>2. recent \in Seq(Event) /\ Len(recent) \in Nat /\ Len(recent) <= RecentCap
    BY DEF Inv, Typed
  <1>3. /\ recent' = IF Len(Append(recent, new)) > RecentCap
                       THEN Tail(Append(recent, new)) ELSE Append(recent, new)
        /\ returned' = returned \union {new}
    BY DEF Push
  <1>. HIDE DEF new
  <1>. DEFINE pushed == Append(recent, new)
              Lands(n) == /\ recent' \in Seq(Event)
                          /\ Len(recent') = Len(recent) + 1 - n
                          /\ \A i \in 1..Len(recent') : recent'[i] = pushed[i + n]
  <1>4. Lands(IF Len(recent) < RecentCap THEN 0 ELSE 1)
    <2>1. /\ pushed \in Seq(Event) /\ pushed # <<>> /\ Len(pushed) = Len(recent) + 1
      BY <1>1, <1>2, AppendProperties
    <2>2. CASE Len(recent) < RecentCap
      <3>1. recent' = pushed
        BY <1>2, <1>3, <2>1, <2>2
      <3>. QED BY <1>2, <2>1, <2>2, <3>1
    <2>3. CASE ~(Len(recent) < RecentCap)
      <3>1. recent' = Tail(pushed)
        BY <1>2, <1>3, <2>1, <2>3
      <3>2. /\ Tail(pushed) \in Seq(Event) /\ Len(Tail(pushed)) = Len(pushed) - 1
            /\ \A i \in 1..Len(Tail(pushed)) : Tail(pushed)[i] = pushed[i + 1]
        BY <2>1, HeadTailProperties
      <3>. HIDE DEF pushed
      <3>. QED BY <1>2, <2>1, <2>3, <3>1, <3>2
    <2>. QED BY <2>2, <2>3
  <1>5. /\ Len(recent') = IF Len(recent) < RecentCap THEN Len(recent) + 1 ELSE RecentCap
        /\ recent' \in Seq(Event)
    BY <1>2, <1>4
  <1>6. /\ \A i \in DOMAIN recent' :
             recent'[i] = new \/ \E k \in DOMAIN recent : recent'[i] = recent[k]
        /\ (\A k \in DOMAIN recent : recent[k] # new)
              /\ (\A i, j \in DOMAIN recent : recent[i] = recent[j] => i = j)
              => \A i, j \in DOMAIN recent' : recent'[i] = recent'[j] => i = j
    <2>1. PICK n \in {0, 1} : Lands(n)
      BY <1>4
    <2>2. PICK r : r = recent'
      OBVIOUS
    <2>3. /\ r \in Seq(Event) /\ Len(r) = Len(recent) + 1 - n
          /\ \A i \in 1..Len(r) : r[i] = Append(recent, new)[i + n]
      BY <2>1, <2>2
    <2>4. /\ \A i \in DOMAIN r : r[i] = new \/ \E k \in DOMAIN recent : r[i] = recent[k]
          /\ (\A k \in DOMAIN recent : recent[k] # new)
                /\ (\A i, j \in DOMAIN recent : recent[i] = recent[j] => i = j)
                => \A i, j \in DOMAIN r : r[i] = r[j] => i = j
      <3>1. Shifted(r, recent, new, n)
        BY <2>3 DEF Shifted
      <3>2. recent \in Seq(Event) /\ new \in Event /\ r \in Seq(Event)
        BY <1>1, <1>2, <2>3
      <3>. HIDE DEF Event
      <3>3. OldAndNew(r, recent, new)
        BY <3>1, <3>2, AppendAndTrim, Zenon
      <3>. QED BY <3>3 DEF OldAndNew
    <2>. QED BY <2>2, <2>4, Zenon
  <1>7. \A e : OnFile(e) => OnFile(e)'
    BY DEF OnFile, Push
  <1>8. Ring'
    <2>1. /\ \A k \in DOMAIN recent : recent[k] \in returned /\ OnFile(recent[k])
          /\ \A i, j \in DOMAIN recent : recent[i] = recent[j] => i = j
      BY DEF Inv, Ring
    <2>2. ASSUME NEW i \in DOMAIN recent'
          PROVE  recent'[i] \in returned' /\ OnFile(recent[i])'
      <3>1. PICK e : e = recent'[i] /\ (e = new \/ \E k \in DOMAIN recent : e = recent[k])
        BY <1>6
      <3>2. e \in returned' /\ OnFile(e)
        BY <1>1, <1>3, <2>1, <3>1
      <3>3. OnFile(e)'
        BY <1>7, <3>2
      <3>. QED BY <3>1, <3>2, <3>3 DEF OnFile
    <2>3. \A i, j \in DOMAIN recent' : recent'[i] = recent'[j] => i = j
      BY <1>1, <1>6, <2>1
    <2>. QED BY <2>2, <2>3 DEF Ring
  <1>9. Typed'
    <2>1. Len(recent') <= RecentCap
      BY <1>2, <1>5
    <2>. QED BY <1>1, <1>3, <1>5, <2>1 DEF Inv, Typed, Push
  <1>10. OneWriter' /\ Own'
    BY <1>1, <1>3 DEF Inv, Typed, OneWriter, Own, Push, new
  <1>11. Written'
    BY <1>7 DEF Inv, Typed, Written, Push
  <1>12. Full'
    <2>1. /\ IsFiniteSet(returned') /\ Cardinality(returned') = Cardinality(returned) + 1
          /\ Cardinality(returned) \in Nat
      BY <1>1, <1>3, FS_AddElement, FS_CardinalityType DEF Inv, Full
    <2>. QED BY <1>2, <1>5, <2>1 DEF Inv, Full, Push
  <1>. QED BY <1>8, <1>9, <1>10, <1>11, <1>12 DEF Inv

LEMMA StepCrash ==
  ASSUME Inv, Crash
  PROVE  Inv'
  <1>. USE DEF Inv, Crash
  <1>1. file' = file \/ \E p \in Piece : file' = Append(file, p)
    <2>1. CASE UNCHANGED file
      BY <2>1
    <2>2. ASSUME NEW t \in Thread, pc[t] = "entered",
                 file' = Append(file, [event |-> event[t], whole |-> FALSE])
          PROVE  \E p \in Piece : file' = Append(file, p)
      <3>1. event[t] \in Event
        BY <2>2 DEF Typed, Own
      <3>2. [event |-> event[t], whole |-> FALSE] \in Piece
        BY <3>1 DEF Piece
      <3>. QED BY <2>2, <3>2
    <2>. QED BY <2>1, <2>2
  <1>2. file' \in Seq(Piece)
    BY <1>1, FileGrows DEF Typed
  <1>3. Typed' /\ OneWriter' /\ Own' /\ Written' /\ Ring'
    BY <1>2 DEF Typed, OneWriter, Own, Written, Ring
  <1>4. Full'
    BY DEF Typed, Full
  <1>. QED BY <1>3, <1>4

THEOREM Invariant == Spec => []Inv
  <1>1. Inv /\ [Next]_vars => Inv'
    <2>. SUFFICES ASSUME Inv, [Next]_vars PROVE Inv'
      OBVIOUS
    <2>1. CASE UNCHANGED vars
      BY <2>1 DEF vars, Inv, Typed, OneWriter, Own, Written, OnFile, Ring, Full
    <2>. QED BY <2>1, StepEnter, StepWriteText, StepWriteNewline, StepPush, StepCrash
             DEF Next, Finished
  <1>. QED BY <1>1, InitInv, PTL DEF Spec

\* The state keeps its types, the ring its capacity, and a line and its newline
\* are written by one thread at a time.
THEOREM TypeCorrect == Spec => []TypeOK
  <1>1. Inv => TypeOK
    <2>. SUFFICES ASSUME Inv PROVE TypeOK
      OBVIOUS
    <2>. DEFINE writers == {t \in Thread : pc[t] = "newline"}
    <2>1. \A t, u \in writers : t = u
      BY DEF Inv, OneWriter
    <2>. HIDE DEF writers
    <2>2. Cardinality(writers) <= 1
      <3>1. CASE writers = {}
        <4>1. Cardinality(writers) = 0
          BY <3>1, FS_EmptySet
        <4>. QED BY <4>1
      <3>2. CASE \E t : writers = {t}
        <4>1. Cardinality(writers) = 1
          BY <3>2, FS_Singleton
        <4>. QED BY <4>1
      <3>. QED BY <2>1, <3>1, <3>2
    <2>. QED BY <2>2 DEF Inv, Typed, TypeOK, writers
  <1>. QED BY <1>1, Invariant, PTL

\* The ring holds events of the file, once each, and as many as it has room for.
THEOREM RingIsRecent == Spec => []RingFollowsFile
  <1>1. Inv => RingFollowsFile
    BY DEF Inv, Ring, Full, OnFile, RingFollowsFile
  <1>. QED BY <1>1, Invariant, PTL
-----------------------------------------------------------------------------
(* What a crash or a failed write can take: the lines of the file.          *)

Ended(i)   == i + 1 \in DOMAIN file /\ file[i + 1] = Newline
Writing(e) == \E t \in Thread : pc[t] = "newline" /\ event[t] = e

\* The pieces that a crash left without their newline.
Torn == {i \in DOMAIN file : /\ file[i].event # NoEvent /\ file[i].event \notin failed
                             /\ ~Ended(i) /\ ~Writing(file[i].event)}

\* An event is written to one place, once its thread has entered.
OnePlace ==
  /\ \A i, j \in DOMAIN file :
       file[i].event # NoEvent /\ file[i].event = file[j].event => i = j
  /\ \A i \in DOMAIN file : file[i].event \in 0..events
  /\ \A t \in Thread : pc[t] = "entered" => \A i \in DOMAIN file : file[i].event # event[t]

\* The piece that a write of an event's line puts in the file.
Whole(e) == [event |-> e, whole |-> TRUE]

\* Until its newline is written, a line is the last piece of the file.
InHand ==
  \A t \in Thread : pc[t] = "newline" =>
    \/ event[t] \in failed
    \/ Len(file) > 0 /\ file[Len(file)] = Whole(event[t])

\* What was recorded without a failure is whole, and its newline follows.
Kept(e) == e \in failed \/ \E i \in DOMAIN file : file[i] = Whole(e) /\ Ended(i)

KeptWhole ==
  /\ \A t \in Thread : pc[t] = "ring" => Kept(event[t])
  /\ \A e \in returned : Kept(e)

LossInv == OnePlace /\ InHand /\ KeptWhole /\ Cardinality(Torn) <= crashes

LEMMA Appended ==
  ASSUME file \in Seq(Piece), NEW p, file' = Append(file, p)
  PROVE  /\ Len(file) \in Nat /\ DOMAIN file = 1..Len(file)
         /\ Len(file') = Len(file) + 1 /\ DOMAIN file' = 1..(Len(file) + 1)
         /\ file'[Len(file) + 1] = p
         /\ \A i \in 1..Len(file) : file'[i] = file[i]
  OBVIOUS

LEMMA WholeEvent == \A e : Whole(e).event = e /\ (e # NoEvent => Whole(e) # Newline)
  BY DEF Whole, Newline

LEMMA PlacesTyped ==
  ASSUME Typed
  PROVE  /\ Len(file) \in Nat /\ DOMAIN file = 1..Len(file)
         /\ \A i \in DOMAIN file : file[i] = Newline \/ file[i].event \in Event
         /\ Newline.event = NoEvent /\ NoEvent \notin Event
  BY DEF Typed, Piece, Newline

\* Pieces that stay and failures that stay keep what was kept whole.
LEMMA KeptStays ==
  ASSUME file \in Seq(Piece), failed \subseteq failed',
         file' = file \/ \E p : file' = Append(file, p), NEW e, Kept(e)
  PROVE  Kept(e)'
  <1>1. CASE file' = file
    BY <1>1 DEF Kept, Ended
  <1>2. ASSUME NEW p, file' = Append(file, p) PROVE Kept(e)'
    <2>1. /\ Len(file) \in Nat /\ DOMAIN file = 1..Len(file) /\ DOMAIN file' = 1..(Len(file) + 1)
          /\ \A i \in 1..Len(file) : file'[i] = file[i]
      BY <1>2, Appended
    <2>2. ASSUME NEW i \in DOMAIN file, Ended(i) PROVE i \in DOMAIN file' /\ Ended(i)'
      BY <2>1, <2>2 DEF Ended
    <2>. QED BY <2>1, <2>2 DEF Kept
  <1>. QED BY <1>1, <1>2

LEMMA TornFinite ==
  ASSUME Typed
  PROVE  IsFiniteSet(Torn) /\ Cardinality(Torn) \in Nat
  <1>1. IsFiniteSet(1..Len(file)) /\ Torn \subseteq 1..Len(file)
    BY PlacesTyped, FS_Interval DEF Torn
  <1>. QED BY <1>1, FS_Subset, FS_CardinalityType

LEMMA TornShrinks ==
  ASSUME Typed, LossInv, crashes' = crashes, Torn' \subseteq Torn
  PROVE  Cardinality(Torn)' <= crashes'
  <1>1. IsFiniteSet(Torn') /\ Cardinality(Torn') <= Cardinality(Torn)
    BY TornFinite, FS_Subset
  <1>2. Cardinality(Torn') \in Nat /\ Cardinality(Torn) \in Nat
    BY <1>1, TornFinite, FS_CardinalityType
  <1>. QED BY <1>1, <1>2 DEF LossInv, Typed

LEMMA LossEnter ==
  ASSUME Inv, LossInv, NEW t \in Thread, Enter(t)
  PROVE  LossInv'
  <1>. USE DEF Inv, LossInv, Enter
  <1>1. /\ \A u \in Thread :
             pc'[u] \notin {"idle", "entered"} => pc'[u] = pc[u] /\ event'[u] = event[u]
        /\ \A u \in Thread : pc[u] = "newline" => pc'[u] = "newline" /\ event'[u] = event[u]
        /\ UNCHANGED <<file, failed, returned, crashes>>
    BY DEF Typed
  <1>2. Torn' \subseteq Torn
    BY <1>1 DEF Torn, Ended, Writing
  <1>3. OnePlace'
    BY DEF OnePlace, Typed, Own
  <1>4. InHand' /\ KeptWhole'
    BY <1>1 DEF InHand, KeptWhole, Kept, Ended
  <1>. QED BY <1>1, <1>2, <1>3, <1>4, TornShrinks

LEMMA LossWriteText ==
  ASSUME Inv, LossInv, NEW t \in Thread, WriteText(t)
  PROVE  LossInv'
  <1>. USE DEF Inv, LossInv
  <1>. DEFINE e == event[t]
  <1>1. /\ pc[t] = "entered" /\ \A u \in Thread : pc[u] # "newline"
        /\ pc'[t] = "newline" /\ \A u \in Thread \ {t} : pc'[u] = pc[u]
        /\ UNCHANGED <<event, events, returned, crashes>>
    BY DEF WriteText, FileFree, Typed
  <1>2. e \in Event /\ e \in 1..events /\ \A u \in Thread \ {t} : pc[u] # "idle" => event[u] # e
    BY <1>1 DEF Typed, Own
  <1>3. \/ file' = file /\ failed' = failed \union {e}
        \/ \E p : /\ p.event = e /\ p # Newline /\ file' = Append(file, p)
                  /\ failed' = failed \union {e} \/ (failed' = failed /\ p = Whole(e))
    <2>. DEFINE torn == [event |-> e, whole |-> FALSE]
    <2>1. torn.event = e /\ torn # Newline /\ Whole(e).event = e /\ Whole(e) # Newline
      BY <1>2, WholeEvent DEF Newline
    <2>2. \/ file' = Append(file, Whole(e)) /\ failed' = failed
          \/ file' = file /\ failed' = failed \union {e}
          \/ file' = Append(file, torn) /\ failed' = failed \union {e}
      BY DEF WriteText, Write, Whole
    <2>. HIDE DEF torn
    <2>. QED BY <2>1, <2>2
  <1>4. CASE file' = file /\ failed' = failed \union {e}
    <2>1. Torn' \subseteq Torn
      BY <1>1, <1>4 DEF Torn, Ended, Writing
    <2>2. OnePlace' /\ InHand'
      BY <1>1, <1>4 DEF OnePlace, InHand
    <2>3. KeptWhole'
      BY <1>1, <1>4 DEF KeptWhole, Kept, Ended
    <2>. QED BY <1>1, <2>1, <2>2, <2>3, TornShrinks
  <1>5. ASSUME NEW p, p.event = e, p # Newline, file' = Append(file, p),
               failed' = failed \union {e} \/ (failed' = failed /\ p = Whole(e))
        PROVE  LossInv'
    <2>1. /\ Len(file) \in Nat /\ DOMAIN file = 1..Len(file)
          /\ Len(file') = Len(file) + 1 /\ DOMAIN file' = 1..(Len(file) + 1)
          /\ file'[Len(file) + 1] = p
          /\ \A i \in 1..Len(file) : file'[i] = file[i]
      BY <1>5, Appended DEF Typed
    <2>2. Torn' \subseteq Torn
      BY <1>1, <1>5, <2>1 DEF Torn, Ended, Writing
    <2>3. OnePlace'
      BY <1>1, <1>2, <1>5, <2>1 DEF OnePlace
    <2>4. InHand'
      BY <1>1, <1>5, <2>1 DEF InHand
    <2>5. failed \subseteq failed' /\ \A d : Kept(d) => Kept(d)'
      BY <1>5, KeptStays DEF Typed
    <2>6. KeptWhole'
      BY <1>1, <2>5 DEF KeptWhole
    <2>. QED BY <1>1, <2>2, <2>3, <2>4, <2>6, TornShrinks
  <1>. QED BY <1>3, <1>4, <1>5

LEMMA LossWriteNewline ==
  ASSUME Inv, LossInv, NEW t \in Thread, WriteNewline(t)
  PROVE  LossInv'
  <1>. USE DEF Inv, LossInv
  <1>. DEFINE e == event[t]
  <1>1. /\ pc[t] = "newline" /\ \A u \in Thread \ {t} : pc[u] # "newline"
        /\ pc'[t] = "ring" /\ \A u \in Thread \ {t} : pc'[u] = pc[u]
        /\ UNCHANGED <<event, events, returned, crashes>>
    BY DEF WriteNewline, OneWriter, Typed
  <1>2. \/ file' = Append(file, Newline) /\ failed' = failed
        \/ file' = file /\ failed' = failed \union {e}
    BY DEF WriteNewline, Write
  <1>3. e \in Event
    BY <1>1 DEF Typed, Own
  <1>4. failed \subseteq failed' /\ \A d : Kept(d) => Kept(d)'
    BY <1>2, KeptStays DEF Typed
  <1>5. CASE file' = file /\ failed' = failed \union {e}
    <2>1. Torn' \subseteq Torn
      BY <1>1, <1>5 DEF Torn, Ended, Writing
    <2>2. OnePlace' /\ InHand'
      BY <1>1, <1>5 DEF OnePlace, InHand
    <2>3. KeptWhole'
      BY <1>1, <1>4, <1>5 DEF KeptWhole, Kept
    <2>. QED BY <1>1, <2>1, <2>2, <2>3, TornShrinks
  <1>6. CASE file' = Append(file, Newline) /\ failed' = failed
    <2>1. /\ Len(file) \in Nat /\ DOMAIN file = 1..Len(file)
          /\ Len(file') = Len(file) + 1 /\ DOMAIN file' = 1..(Len(file) + 1)
          /\ file'[Len(file) + 1] = Newline
          /\ \A i \in 1..Len(file) : file'[i] = file[i]
      BY <1>6, Appended DEF Typed
    <2>2. /\ Newline.event = NoEvent /\ e # NoEvent
      BY <1>3 DEF Newline
    <2>3. \/ e \in failed
          \/ Len(file) \in DOMAIN file /\ file[Len(file)] = Whole(e)
      BY <1>1, <2>1 DEF InHand
    <2>4. \A i \in DOMAIN file : file[i].event = e => e \in failed \/ i = Len(file)
      BY <2>2, <2>3, WholeEvent DEF OnePlace
    <2>5. Torn' \subseteq Torn
      BY <1>1, <1>6, <2>1, <2>2, <2>4 DEF Torn, Ended, Writing
    <2>6. OnePlace'
      <3>1. \A i, j \in DOMAIN file' :
              file'[i].event # NoEvent /\ file'[i].event = file'[j].event => i = j
        BY <2>1, <2>2 DEF OnePlace
      <3>2. \A i \in DOMAIN file' : file'[i].event \in 0..events
        BY <2>1, <2>2 DEF OnePlace, Typed
      <3>3. \A u \in Thread : pc'[u] = "entered" => pc[u] = "entered" /\ event[u] # NoEvent
        BY <1>1 DEF Own, Typed
      <3>4. \A u \in Thread : pc'[u] = "entered" =>
              \A i \in DOMAIN file' : file'[i].event # event[u]
        BY <2>1, <2>2, <3>3 DEF OnePlace
      <3>. QED BY <1>1, <3>1, <3>2, <3>4 DEF OnePlace
    <2>7. InHand'
      BY <1>1 DEF InHand
    <2>8. Kept(e)'
      <3>1. CASE e \in failed
        BY <1>1, <1>6, <3>1 DEF Kept
      <3>2. ASSUME NEW k \in DOMAIN file, k = Len(file), file[k] = Whole(e)
            PROVE  Kept(e)'
        <4>1. /\ k \in DOMAIN file' /\ file'[k] = Whole(e)
              /\ k + 1 \in DOMAIN file' /\ file'[k + 1] = Newline
          BY <2>1, <3>2
        <4>2. event'[t] = event[t]
          BY <1>1
        <4>. QED BY <4>1, <4>2 DEF Kept, Ended
      <3>. QED BY <2>3, <3>1, <3>2
    <2>9. KeptWhole'
      BY <1>1, <1>4, <2>8 DEF KeptWhole
    <2>. QED BY <1>1, <2>5, <2>6, <2>7, <2>9, TornShrinks
  <1>. QED BY <1>2, <1>5, <1>6

LEMMA LossPush ==
  ASSUME Inv, LossInv, NEW t \in Thread, Push(t)
  PROVE  LossInv'
  <1>. USE DEF Inv, LossInv
  <1>1. /\ pc[t] = "ring" /\ pc'[t] = "idle"
        /\ \A u \in Thread \ {t} : pc'[u] = pc[u] /\ event'[u] = event[u]
        /\ returned' = returned \union {event[t]}
        /\ UNCHANGED <<file, failed, events, crashes>>
    BY DEF Push, Typed
  <1>2. Torn' \subseteq Torn
    BY <1>1 DEF Torn, Ended, Writing
  <1>3. OnePlace' /\ InHand'
    BY <1>1 DEF OnePlace, InHand
  <1>4. KeptWhole'
    BY <1>1 DEF KeptWhole, Kept, Ended
  <1>. QED BY <1>1, <1>2, <1>3, <1>4, TornShrinks

\* A crash tears one line: the one that was in hand.
LEMMA LossCrash ==
  ASSUME Inv, LossInv, Crash
  PROVE  LossInv'
  <1>. USE DEF Inv, LossInv
  <1>1. /\ pc' = [t \in Thread |-> "idle"] /\ crashes' = crashes + 1
        /\ UNCHANGED <<events, returned, failed>>
    BY DEF Crash
  <1>2. InHand'
    BY <1>1 DEF InHand
  <1>3. ASSUME file' = file
        PROVE  OnePlace' /\ KeptWhole' /\ Torn' \subseteq Torn \union {Len(file)}
    <2>1. OnePlace' /\ KeptWhole'
      BY <1>1, <1>3 DEF OnePlace, KeptWhole, Kept, Ended
    <2>2. ASSUME NEW i \in Torn', i \notin Torn PROVE i = Len(file)
      <3>1. /\ i \in DOMAIN file /\ file[i].event # NoEvent /\ file[i].event \notin failed
            /\ Writing(file[i].event)
        BY <1>1, <1>3, <2>2 DEF Torn, Ended
      <3>2. PICK t \in Thread : pc[t] = "newline" /\ event[t] = file[i].event
        BY <3>1 DEF Writing
      <3>3. Len(file) \in DOMAIN file /\ file[Len(file)].event = file[i].event
        BY <3>1, <3>2, PlacesTyped, WholeEvent DEF InHand
      <3>. QED BY <3>1, <3>3 DEF OnePlace
    <2>. QED BY <2>1, <2>2
  <1>4. ASSUME NEW t \in Thread, pc[t] = "entered", FileFree,
               file' = Append(file, [event |-> event[t], whole |-> FALSE])
        PROVE  OnePlace' /\ KeptWhole' /\ Torn' \subseteq Torn \union {Len(file) + 1}
    <2>. DEFINE p == [event |-> event[t], whole |-> FALSE]
    <2>1. /\ Len(file) \in Nat /\ DOMAIN file = 1..Len(file)
          /\ Len(file') = Len(file) + 1 /\ DOMAIN file' = 1..(Len(file) + 1)
          /\ file'[Len(file) + 1] = p
          /\ \A i \in 1..Len(file) : file'[i] = file[i]
      BY <1>4, Appended DEF Typed
    <2>2. p.event = event[t] /\ event[t] \in 1..events /\ p # Newline
      BY <1>4 DEF Own, Newline, Typed
    <2>. HIDE DEF p
    <2>3. OnePlace'
      BY <1>1, <1>4, <2>1, <2>2 DEF OnePlace, Typed
    <2>4. KeptWhole'
      BY <1>1, <1>4, KeptStays DEF KeptWhole, Typed
    <2>5. Torn' \subseteq Torn \union {Len(file) + 1}
      BY <1>1, <1>4, <2>1, <2>2 DEF Torn, Ended, Writing, FileFree
    <2>. QED BY <2>3, <2>4, <2>5
  <1>5. PICK k : OnePlace' /\ KeptWhole' /\ Torn' \subseteq Torn \union {k}
    BY <1>3, <1>4 DEF Crash
  <1>6. Cardinality(Torn)' <= crashes'
    <2>1. /\ IsFiniteSet(Torn \union {k}) /\ Cardinality(Torn \union {k}) <= Cardinality(Torn) + 1
          /\ Cardinality(Torn) \in Nat /\ Cardinality(Torn \union {k}) \in Nat
      BY TornFinite, FS_AddElement, FS_CardinalityType
    <2>2. IsFiniteSet(Torn') /\ Cardinality(Torn') <= Cardinality(Torn \union {k})
      BY <1>5, <2>1, FS_Subset
    <2>3. Cardinality(Torn') \in Nat
      BY <2>2, FS_CardinalityType
    <2>. QED BY <1>1, <2>1, <2>2, <2>3 DEF Typed
  <1>. QED BY <1>2, <1>5, <1>6

LEMMA LossInductive == Spec => []LossInv
  <1>1. Init => LossInv
    <2>. SUFFICES ASSUME Init PROVE LossInv
      OBVIOUS
    <2>1. Torn = {} /\ Cardinality(Torn) = 0 /\ crashes = 0
      BY FS_EmptySet DEF Init, Torn
    <2>. QED BY <2>1 DEF Init, LossInv, OnePlace, InHand, KeptWhole
  <1>2. Inv /\ LossInv /\ [Next]_vars => LossInv'
    <2>. SUFFICES ASSUME Inv, LossInv, [Next]_vars PROVE LossInv'
      OBVIOUS
    <2>1. CASE UNCHANGED vars
      <3>1. Torn' = Torn
        BY <2>1 DEF vars, Torn, Ended, Writing
      <3>. QED BY <2>1, <3>1 DEF vars, LossInv, OnePlace, InHand, KeptWhole, Kept, Ended
    <2>. QED BY <2>1, LossEnter, LossWriteText, LossWriteNewline, LossPush, LossCrash
             DEF Next, Finished
  <1>. QED BY <1>1, <1>2, Invariant, PTL DEF Spec

-----------------------------------------------------------------------------
(* Who is to blame for a line that cannot be read.                          *)

\* The place of an event that was recorded without a failure.
Place(e) == CHOOSE i \in DOMAIN file : file[i] = Whole(e) /\ Ended(i)

\* It cannot be read only because the piece before it has no newline.
LEMMA Blame ==
  ASSUME Inv, LossInv, NEW e \in Unreadable, e \notin failed
  PROVE  LET i == Place(e)
         IN  /\ i \in DOMAIN file /\ i - 1 \in DOMAIN file /\ file[i].event = e
             /\ file[i - 1].event \in failed \/ i - 1 \in Torn
  <1>. DEFINE i == Place(e)
  <1>1. e \in returned /\ ~Readable(e) /\ e \in Event
    BY DEF Unreadable, Inv, Typed
  <1>2. i \in DOMAIN file /\ file[i] = Whole(e) /\ Ended(i)
    BY <1>1 DEF LossInv, KeptWhole, Kept, Place
  <1>. HIDE DEF i
  <1>3. i \in 1..Len(file) /\ i + 1 <= Len(file) /\ file[i + 1] = Newline /\ Len(file) \in Nat
    BY <1>2, PlacesTyped DEF Inv, Ended
  <1>4. i # 1 /\ file[i - 1] # Newline
    BY <1>1, <1>2, <1>3 DEF Readable, Starts, Whole
  <1>5. i - 1 \in DOMAIN file /\ file[i - 1].event \in Event /\ file[i].event = e
        /\ file[i] # Newline
    BY <1>1, <1>2, <1>3, <1>4, PlacesTyped, WholeEvent DEF Inv
  <1>6. ~Ended(i - 1)
    BY <1>3, <1>5 DEF Ended
  <1>7. ASSUME file[i - 1].event \notin failed, NEW t \in Thread, pc[t] = "newline",
               event[t] = file[i - 1].event
        PROVE  FALSE
    <2>1. Len(file) \in DOMAIN file /\ file[Len(file)].event = file[i - 1].event
      BY <1>3, <1>7, PlacesTyped, WholeEvent DEF Inv, LossInv, InHand
    <2>2. Len(file) = i - 1
      BY <1>5, <2>1 DEF LossInv, OnePlace
    <2>. QED BY <1>3, <2>2
  <1>. QED BY <1>2, <1>5, <1>6, <1>7 DEF Torn, Writing, i

\* Crashes and failed writes are all that a recorded event is lost to, however
\* threads interleave and the broker restarts: one event for each crash, and two
\* for each event a write of which failed.
THEOREM LossCorrect == Spec => []LossIsBounded
  <1>1. Inv /\ LossInv => LossIsBounded
    <2>. SUFFICES ASSUME Inv, LossInv PROVE LossIsBounded
      OBVIOUS
    <2>. DEFINE Before(e) == file[Place(e) - 1].event
                byFailure == {e \in Unreadable \ failed : Before(e) \in failed}
                byCrash   == {e \in Unreadable \ failed : Place(e) - 1 \in Torn}
    <2>0. Unreadable \subseteq failed \union byFailure \union byCrash
      BY Blame
    <2>1. /\ IsFiniteSet(failed) /\ Cardinality(failed) \in Nat
          /\ IsFiniteSet(Torn) /\ Cardinality(Torn) \in Nat /\ Cardinality(Torn) <= crashes
          /\ crashes \in Nat
      <3>1. IsFiniteSet(1..MaxEvents) /\ failed \subseteq 1..MaxEvents
        BY FS_Interval DEF Inv, Typed
      <3>2. IsFiniteSet(failed) /\ Cardinality(failed) \in Nat
        BY <3>1, FS_Subset, FS_CardinalityType
      <3>. QED BY <3>2, TornFinite DEF Inv, LossInv, Typed
    <2>2. \A e \in Unreadable \ failed : /\ Place(e) \in Int /\ Place(e) - 1 \in DOMAIN file
                                         /\ file[Place(e)].event = e
      BY Blame, PlacesTyped DEF Inv
    <2>3. IsFiniteSet(byFailure) /\ Cardinality(byFailure) <= Cardinality(failed)
      <3>. DEFINE f == [e \in byFailure |-> Before(e)]
      <3>1. f \in [byFailure -> failed]
        OBVIOUS
      <3>2. ASSUME NEW d \in byFailure, NEW e \in byFailure, Before(d) = Before(e) PROVE d = e
        <4>1. Before(d) # NoEvent
          BY DEF Inv, Typed
        <4>2. Place(d) - 1 = Place(e) - 1
          BY <2>2, <3>2, <4>1 DEF LossInv, OnePlace
        <4>3. Place(d) = Place(e)
          BY <2>2, <4>2
        <4>. QED BY <2>2, <4>3
      <3>3. \A d, e \in byFailure : f[d] = f[e] => d = e
        BY <3>2
      <3>. HIDE DEF f, byFailure
      <3>4. f \in Injection(byFailure, failed)
        BY <3>1, <3>3, Fun_IsInj
      <3>. QED BY <2>1, <3>4, FS_Injection
    <2>4. IsFiniteSet(byCrash) /\ Cardinality(byCrash) <= Cardinality(Torn)
      <3>. DEFINE f == [e \in byCrash |-> Place(e) - 1]
      <3>1. f \in [byCrash -> Torn]
        OBVIOUS
      <3>2. ASSUME NEW d \in byCrash, NEW e \in byCrash, Place(d) - 1 = Place(e) - 1
            PROVE  d = e
        <4>1. Place(d) = Place(e)
          BY <2>2, <3>2
        <4>. QED BY <2>2, <4>1
      <3>3. \A d, e \in byCrash : f[d] = f[e] => d = e
        BY <3>2
      <3>. HIDE DEF f, byCrash
      <3>4. f \in Injection(byCrash, Torn)
        BY <3>1, <3>3, Fun_IsInj
      <3>. QED BY <2>1, <3>4, FS_Injection
    <2>. HIDE DEF byFailure, byCrash
    <2>5. /\ Cardinality(byFailure) \in Nat /\ Cardinality(byCrash) \in Nat
          /\ IsFiniteSet(failed \union byFailure)
          /\ Cardinality(failed \union byFailure) <= 2 * Cardinality(failed)
      <3>1. /\ Cardinality(byFailure) \in Nat /\ Cardinality(byCrash) \in Nat
            /\ Cardinality(failed \cap byFailure) \in Nat
        <4>1. IsFiniteSet(failed \cap byFailure)
          BY <2>1, FS_Subset
        <4>. QED BY <2>3, <2>4, <4>1, FS_CardinalityType
      <3>2. /\ IsFiniteSet(failed \union byFailure)
            /\ Cardinality(failed \union byFailure)
                 = Cardinality(failed) + Cardinality(byFailure) - Cardinality(failed \cap byFailure)
        BY <2>1, <2>3, FS_Union
      <3>. QED BY <2>1, <2>3, <3>1, <3>2
    <2>6. /\ IsFiniteSet(failed \union byFailure \union byCrash)
          /\ Cardinality(failed \union byFailure \union byCrash)
               <= 2 * Cardinality(failed) + crashes
      <3>1. Cardinality((failed \union byFailure) \cap byCrash) \in Nat
        <4>1. IsFiniteSet((failed \union byFailure) \cap byCrash)
          BY <2>5, FS_Subset
        <4>. QED BY <4>1, FS_CardinalityType
      <3>2. Cardinality(failed \union byFailure) \in Nat
        BY <2>5, FS_CardinalityType
      <3>3. /\ IsFiniteSet((failed \union byFailure) \union byCrash)
            /\ Cardinality((failed \union byFailure) \union byCrash)
                 = Cardinality(failed \union byFailure) + Cardinality(byCrash)
                     - Cardinality((failed \union byFailure) \cap byCrash)
        BY <2>4, <2>5, FS_Union
      <3>. QED BY <2>1, <2>4, <2>5, <3>1, <3>2, <3>3
    <2>7. /\ Cardinality(Unreadable) \in Nat
          /\ Cardinality(Unreadable) <= Cardinality(failed \union byFailure \union byCrash)
          /\ Cardinality(failed \union byFailure \union byCrash) \in Nat
      BY <2>0, <2>6, FS_Subset, FS_CardinalityType
    <2>. QED BY <2>1, <2>6, <2>7 DEF LossIsBounded
  <1>. QED BY <1>1, Invariant, LossInductive, PTL
=============================================================================
