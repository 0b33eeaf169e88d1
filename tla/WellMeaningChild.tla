-------------------------- MODULE WellMeaningChild --------------------------
(***************************************************************************)
(* What the broker's client takes for granted of a child server: it        *)
(* answers a request only after it has read it, and at most once.  No      *)
(* order is promised, and no answer.  The child of ChildClient is any such *)
(* child; MailServer implements this module (MailServer!WellMeaning).      *)
(***************************************************************************)
EXTENDS Naturals

CONSTANT Requests   \* their ids

VARIABLES
  received,   \* the requests read
  answers     \* how many answers each has had

Init ==
  /\ received = {}
  /\ answers = [id \in Requests |-> 0]

Read(id) ==
  /\ received' = received \union {id}
  /\ UNCHANGED answers

Answer(id) ==
  /\ id \in received
  /\ answers[id] = 0
  /\ answers' = [answers EXCEPT ![id] = 1]
  /\ UNCHANGED received

Next == \E id \in Requests : Read(id) \/ Answer(id)

Spec == Init /\ [][Next]_<<received, answers>>
=============================================================================
