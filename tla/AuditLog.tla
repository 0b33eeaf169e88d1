------------------------------ MODULE AuditLog ------------------------------
(***************************************************************************)
(* The audit tape (crates/core/src/audit.rs): threads append one line per  *)
(* event to a file and to a bounded ring of recent lines.  A line and its  *)
(* newline are two writes, made under the file's mutex; the ring has a     *)
(* mutex of its own.  The file outlives the broker, the ring does not.     *)
(***************************************************************************)
EXTENDS Naturals, Sequences, FiniteSets

CONSTANTS
  Thread,     \* threads that record
  RecentCap,  \* RECENT_CAP
  MaxEvents,  \* model bound: events recorded
  MaxCrashes, \* model bound: crashes of the broker
  MaxFailed   \* model bound: events a write of which fails

ASSUME AuditAssumption ==
  /\ RecentCap \in Nat \ {0}
  /\ MaxEvents \in Nat
  /\ MaxCrashes \in Nat
  /\ MaxFailed \in Nat

VARIABLES
  file,      \* what was written, piece by piece
  recent,    \* the ring of recent lines
  pc,        \* where each thread is in record
  event,     \* the event it records
  events,    \* history: events recorded or being recorded; they are numbered
  returned,  \* history: events whose record returned
  failed,    \* history: events a write of which failed
  crashes    \* crashes so far

vars == <<file, recent, pc, event, events, returned, failed, crashes>>

NoEvent == 0
Event   == 1..MaxEvents
Newline == [event |-> NoEvent, whole |-> TRUE]
Piece   == [event : Event, whole : BOOLEAN] \union {Newline}

TypeOK ==
  /\ file \in Seq(Piece)
  /\ recent \in Seq(Event) /\ Len(recent) <= RecentCap
  /\ pc \in [Thread -> {"idle", "entered", "newline", "ring"}]
  /\ event \in [Thread -> Event \union {NoEvent}]
  /\ events \in 0..MaxEvents
  /\ returned \subseteq Event /\ failed \subseteq Event
  /\ crashes \in 0..MaxCrashes
  /\ Cardinality({t \in Thread : pc[t] = "newline"}) <= 1

Init ==
  /\ file = <<>>
  /\ recent = <<>>
  /\ pc = [t \in Thread |-> "idle"]
  /\ event = [t \in Thread |-> NoEvent]
  /\ events = 0
  /\ returned = {}
  /\ failed = {}
  /\ crashes = 0

-----------------------------------------------------------------------------
(* AuditLog::record.                                                        *)

FileFree == \A t \in Thread : pc[t] # "newline"

Enter(t) ==
  /\ pc[t] = "idle"
  /\ events < MaxEvents
  /\ events' = events + 1
  /\ event' = [event EXCEPT ![t] = events']
  /\ pc' = [pc EXCEPT ![t] = "entered"]
  /\ UNCHANGED <<file, recent, returned, failed, crashes>>

\* A write puts its piece in the file; or it fails, the failure is ignored, and
\* what little it wrote stays.
Write(t, piece) ==
  \/ file' = Append(file, piece) /\ UNCHANGED failed
  \/ /\ Cardinality(failed \union {event[t]}) <= MaxFailed
     /\ failed' = failed \union {event[t]}
     /\ \/ UNCHANGED file
        \/ piece # Newline /\ file' = Append(file, [event |-> event[t], whole |-> FALSE])

WriteTextUnlocked(t) ==   \* mutant: the mutex is taken for one write at a time
  /\ pc[t] = "entered"
  /\ Write(t, [event |-> event[t], whole |-> TRUE])
  /\ pc' = [pc EXCEPT ![t] = "newline"]
  /\ UNCHANGED <<recent, event, events, returned, crashes>>

WriteText(t) ==
  /\ pc[t] = "entered"
  /\ FileFree
  /\ Write(t, [event |-> event[t], whole |-> TRUE])
  /\ pc' = [pc EXCEPT ![t] = "newline"]
  /\ UNCHANGED <<recent, event, events, returned, crashes>>

WriteNewline(t) ==
  /\ pc[t] = "newline"
  /\ Write(t, Newline)
  /\ pc' = [pc EXCEPT ![t] = "ring"]
  /\ UNCHANGED <<recent, event, events, returned, crashes>>

PushOverfull(t) ==   \* mutant: the ring is trimmed before the push
  /\ pc[t] = "ring"
  /\ recent' = Append(IF Len(recent) > RecentCap THEN Tail(recent) ELSE recent, event[t])
  /\ returned' = returned \union {event[t]}
  /\ pc' = [pc EXCEPT ![t] = "idle"]
  /\ event' = [event EXCEPT ![t] = NoEvent]
  /\ UNCHANGED <<file, events, failed, crashes>>

PushTrimmingEarly(t) ==   \* mutant: the ring is trimmed when it is full, not past it
  /\ pc[t] = "ring"
  /\ LET pushed == Append(recent, event[t])
     IN  recent' = IF Len(pushed) >= RecentCap THEN Tail(pushed) ELSE pushed
  /\ returned' = returned \union {event[t]}
  /\ pc' = [pc EXCEPT ![t] = "idle"]
  /\ event' = [event EXCEPT ![t] = NoEvent]
  /\ UNCHANGED <<file, events, failed, crashes>>

Push(t) ==
  /\ pc[t] = "ring"
  /\ LET pushed == Append(recent, event[t])
     IN  recent' = IF Len(pushed) > RecentCap THEN Tail(pushed) ELSE pushed
  /\ returned' = returned \union {event[t]}
  /\ pc' = [pc EXCEPT ![t] = "idle"]
  /\ event' = [event EXCEPT ![t] = NoEvent]
  /\ UNCHANGED <<file, events, failed, crashes>>

\* The broker dies.  A line that was being written may be torn.  The next run
\* opens the file for appending, as it is.
Crash ==
  /\ crashes < MaxCrashes
  /\ crashes' = crashes + 1
  /\ \/ UNCHANGED file
     \/ \E t \in Thread :
          /\ pc[t] = "entered"
          /\ FileFree
          /\ file' = Append(file, [event |-> event[t], whole |-> FALSE])
  /\ recent' = <<>>
  /\ pc' = [t \in Thread |-> "idle"]
  /\ event' = [t \in Thread |-> NoEvent]
  /\ UNCHANGED <<events, returned, failed>>

Finished ==
  /\ events = MaxEvents
  /\ \A t \in Thread : pc[t] = "idle"
  /\ UNCHANGED vars

Next ==
  \/ \E t \in Thread : Enter(t) \/ WriteText(t) \/ WriteNewline(t) \/ Push(t)
  \/ Crash
  \/ Finished

Spec == Init /\ [][Next]_vars

-----------------------------------------------------------------------------
(* Properties.                                                              *)

\* An event can be read back if a line of the file holds it, whole and alone.
Starts(i)   == i = 1 \/ file[i - 1] = Newline
Readable(e) ==
  \E i \in DOMAIN file : /\ file[i] = [event |-> e, whole |-> TRUE]
                         /\ Starts(i)
                         /\ i < Len(file) /\ file[i + 1] = Newline

Unreadable == {e \in returned : ~Readable(e)}

\* Whatever the threads do at the same time, an event that was recorded is lost
\* to a reader only by a crash just before it, or by a failed write, its own or
\* that of the event before it: a torn line can be joined to the next one.
LossIsBounded == Cardinality(Unreadable) <= crashes + 2 * Cardinality(failed)

\* The ring holds events of the file, once each, and as many as it has room for.
RingFollowsFile ==
  /\ \A i \in DOMAIN recent :
       recent[i] \in failed \/ \E j \in DOMAIN file : file[j].event = recent[i]
  /\ \A i, j \in DOMAIN recent : recent[i] = recent[j] => i = j
  /\ crashes = 0 => Len(recent) = IF Cardinality(returned) <= RecentCap
                                    THEN Cardinality(returned) ELSE RecentCap
=============================================================================
