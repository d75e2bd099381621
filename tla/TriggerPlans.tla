----------------------------- MODULE TriggerPlans -----------------------------
(***************************************************************************)
(* Which action triggers (trigger_engine.rs) a transition of a document      *)
(* fires, and the steps it takes to execute them: the constant Plans of       *)
(* Triggers.                                                                *)
(***************************************************************************)
EXTENDS Integers, SequencesExt

CONSTANTS
  Statuses,   \* values of the status column
  ActionTriggers, \* sequence of [event, when, actions]; actions carry a `when` too
  Lines       \* the detail rows a document may have: version -> sequence of
              \* [key, product, qty], key being the place of the text of the row's id

Gone == "gone"
NoItem == [key |-> 0]

MatchesEvent(event, asked) ==
  \/ asked \in {event, "any"}
  \/ event = "update" /\ asked = "status_change"

\* evaluate_condition: an update must change the field; `from` and `to` admit
\* the values they list, all of them and a missing field when they are absent.
\* `when` has the condition, or none.
Holds(when, event, before, after) ==
  \A cond \in when :
    /\ event = "update" => before # after \/ before = Gone
    /\ before \in cond.from /\ after \in cond.to

\* execute_action: an action whose own condition fails is passed over, which is
\* asked as of an update whatever the event.  iterate_detail takes each detail
\* row, in the order of the text of their ids, through all its sub-actions.
Steps(rows, act, before, after) ==
  LET Guarded(actions) == SelectSeq(actions, LAMBDA a : Holds(a.when, "update", before, after))
      sorted == SortSeq(rows, LAMBDA a, b : a.key < b.key)
      Each(item) == LET subs == Guarded(act.actions) IN [k \in DOMAIN subs |-> [act |-> subs[k], item |-> item]] IN
  IF Guarded(<<act>>) = <<>> THEN <<>>
  ELSE <<[act |-> act, item |-> NoItem]>> \o
         IF act.type # "iterate_detail" THEN <<>> ELSE FlattenSeq([i \in DOMAIN sorted |-> Each(sorted[i])])

\* execute_triggers: the matching triggers in order, each with its own runtime.
Fired(rows, event, before, after) ==
  FlattenSeq([i \in DOMAIN ActionTriggers |->
    LET t == ActionTriggers[i] IN
    IF MatchesEvent(event, t.event) /\ Holds(t.when, event, before, after)
      THEN <<[act |-> [type |-> "start"], item |-> NoItem]>>
             \o FlattenSeq([n \in DOMAIN t.actions |-> Steps(rows, t.actions[n], before, after)])
      ELSE <<>>])

\* The steps of every transition over every detail rows, deletions included.
AllPlans ==
  [v \in DOMAIN Lines |-> [before \in Statuses \cup {Gone} |-> [after \in Statuses \cup {Gone} |->
     Fired(Lines[v], IF after = Gone THEN "delete" ELSE "update", before, after)]]]

===============================================================================
