---------------------------- MODULE PoolRegister ----------------------------
(***************************************************************************)
(* What the optimizer's authority promises, free of revisions, snapshots   *)
(* and storage keys: one live pool with one level of undo beneath an       *)
(* administrator's override, and an answer to every reader that is always  *)
(* a function of the three.  PoolAuthority implements it.                  *)
(***************************************************************************)
CONSTANTS Pool, AddText, FormatAddTxt(_), Blank, Null

VARIABLES
  live,       \* the pool in force, Null before the first and after a reset
  undo,       \* the pool a rollback brings back
  override,   \* the administrator's text
  claimed,    \* the administrator's text, or its absence, is authoritative
  published,  \* some pool has been published
  answer      \* what a reader is told

vars == <<live, undo, override, claimed, published, answer>>

AnswerFor(l, o, c, p) ==
  [initialized |-> c \/ p,
   source |-> IF o # Null THEN "manual" ELSE IF p THEN "optimizer" ELSE "none",
   add_txt |-> IF o # Null THEN o
               ELSE IF l # Null THEN FormatAddTxt(l)
               ELSE IF p THEN Blank ELSE Null]

Answers == answer' = AnswerFor(live', override', claimed', published')

Init ==
  /\ live = Null
  /\ undo = Null
  /\ override = Null
  /\ claimed = FALSE
  /\ published = FALSE
  /\ answer = AnswerFor(Null, Null, FALSE, FALSE)

\* A publish installs p; the first one may adopt a text saved before.
Publish(p, legacy) ==
  /\ live' = p
  /\ undo' = live
  /\ published' = TRUE
  /\ \/ UNCHANGED <<override, claimed>>
     \/ /\ live = Null /\ ~claimed /\ legacy \in AddText
        /\ override' = legacy
        /\ claimed' = TRUE
  /\ Answers

Rollback ==
  /\ live # Null /\ undo # Null
  /\ live' = undo
  /\ undo' = live
  /\ UNCHANGED <<override, claimed, published>>
  /\ Answers

ResetToEmpty ==
  /\ live # Null /\ undo = Null
  /\ live' = Null
  /\ UNCHANGED <<undo, override, claimed, published>>
  /\ Answers

SetOverride(text) ==
  /\ override' = IF text = Blank THEN Null ELSE text
  /\ claimed' = TRUE
  /\ UNCHANGED <<live, undo, published>>
  /\ Answers

Next ==
  \/ \E p \in Pool, legacy \in AddText \cup {Blank, Null} : Publish(p, legacy)
  \/ Rollback
  \/ ResetToEmpty
  \/ \E text \in AddText \cup {Blank} : SetOverride(text)

Spec == Init /\ [][Next]_vars
=============================================================================
