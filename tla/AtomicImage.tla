----------------------------- MODULE AtomicImage -----------------------------
(***************************************************************************)
(* What the coordinator relies on when it persists its state: one durable  *)
(* image that a save replaces as a whole or leaves as it was.  The header  *)
(* persistence.hpp promises this, and module Coordinator uses it when it   *)
(* writes its image in one step.  Module Persistence shows that the files  *)
(* on disk implement it.                                                   *)
(*                                                                         *)
(* An image that storage damaged, or that a loss of power left incomplete, *)
(* is Unreadable: it is never served.                                      *)
(***************************************************************************)
CONSTANTS
  Values,       \* the coordinator states that may have to be saved
  Fresh,        \* the state of a coordinator that found no image
  Unloadable,   \* states whose image is refused at load although it is intact
  None, Unreadable, Down

VARIABLES
  image,        \* what a load would find: a value, None or Unreadable
  memory,       \* the state the process serves, or Down
  pending,      \* the save of memory: "no", "yes", or "done" but not answered
  answer,       \* how the last save was answered: "none", "ok" or "failed"
  replaced      \* the images that a save has replaced

vars == <<image, memory, pending, answer, replaced>>

Init ==
  /\ image = None /\ memory = Down
  /\ pending = "no" /\ answer = "none" /\ replaced = {}

\* A handler changes the state and has to make it durable.
Change(v) ==
  /\ memory # Down /\ pending = "no"
  /\ memory' = v /\ pending' = "yes" /\ answer' = "none"
  /\ UNCHANGED <<image, replaced>>

\* The new image takes the place of the old one in one step.
Replace ==
  /\ pending = "yes"
  /\ image' = memory /\ replaced' = replaced \cup {image}
  /\ pending' = "done"
  /\ UNCHANGED <<memory, answer>>

\* Success is answered only for an image that is in place.
Accept ==
  /\ pending = "done"
  /\ pending' = "no" /\ answer' = "ok"
  /\ UNCHANGED <<image, memory, replaced>>

\* A save that fails has changed nothing.
Refuse ==
  /\ pending = "yes"
  /\ pending' = "no" /\ answer' = "failed"
  /\ UNCHANGED <<image, memory, replaced>>

\* The process ends at any moment, also after it replaced the image and before it
\* could say so.
Stop ==
  /\ memory' = Down /\ pending' = "no" /\ answer' = "none"
  /\ UNCHANGED <<image, replaced>>

\* A start serves what the image holds.
Start ==
  /\ memory = Down /\ image # Unreadable /\ image \notin Unloadable
  /\ memory' = IF image = None THEN Fresh ELSE image
  /\ UNCHANGED <<image, pending, answer, replaced>>

\* Storage damages the image.
Damage ==
  /\ image # None /\ image' = Unreadable
  /\ UNCHANGED <<memory, pending, answer, replaced>>

\* The machine loses power: what was never forced to the medium may be gone.
PowerLoss ==
  /\ image' \in {image, Unreadable} \cup replaced
  /\ memory' = Down /\ pending' = "no" /\ answer' = "none"
  /\ UNCHANGED replaced

Next ==
  \/ \E v \in Values : Change(v)
  \/ Replace \/ Accept \/ Refuse \/ Stop \/ Start \/ Damage \/ PowerLoss

Spec == Init /\ [][Next]_vars
=============================================================================
