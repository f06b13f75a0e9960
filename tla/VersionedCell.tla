--------------------------- MODULE VersionedCell ---------------------------
(***************************************************************************)
(* What optimistic locking on a neuron's content promises to its clients,  *)
(* whatever else the server does: a cell holding a content and a version.  *)
(* A client that knows version v may replace the content of version v, and *)
(* every replacement moves the version on by exactly one.  Restoring a     *)
(* revision is a replacement that needs no version from the client.  A     *)
(* PATCH that carries a content is the exception: it overwrites the        *)
(* content under the version that is there.  A version names one content   *)
(* for ever only as far as no PATCH carries one.                           *)
(*                                                                         *)
(* NeuronStore is shown to implement this specification, and NeuronEditor  *)
(* is built on it.                                                         *)
(***************************************************************************)
EXTENDS Naturals

CONSTANTS
  Contents,             \* the contents a neuron may have
  PatchContents         \* those that PATCH requests carry

VARIABLES
  content,              \* contentJson / contentText of the neuron
  version,              \* Neuron.version
  present               \* FALSE once the row is permanently deleted

cell == <<content, version, present>>

Init ==
  /\ content \in Contents
  /\ version = 1
  /\ present = TRUE

Replace(c) ==
  /\ present
  /\ content' = c
  /\ version' = version + 1
  /\ UNCHANGED present

(* A client that has seen version v replaces the content. *)
Save(v, c) == v = version /\ Replace(c)

(* A revision's content becomes the neuron's content. *)
RestoreContent(c) == Replace(c)

(* A PATCH carries a content, and leaves the version where it is. *)
Overwrite(c) ==
  /\ present
  /\ content' = c
  /\ UNCHANGED <<version, present>>

(* The neuron leaves the trash for good. *)
Remove ==
  /\ present
  /\ present' = FALSE
  /\ UNCHANGED <<content, version>>

Next ==
  \/ \E c \in Contents : Save(version, c)
  \/ \E c \in Contents : RestoreContent(c)
  \/ \E c \in PatchContents : Overwrite(c)
  \/ Remove

Spec == Init /\ [][Next]_cell

=============================================================================
