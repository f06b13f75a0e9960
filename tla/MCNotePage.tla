----------------------------- MODULE MCNotePage -----------------------------
(* NotePage for TLC. *)
EXTENDS NotePage, TLC, Sequences

At(n, kind, locked) ==
    [id |-> n, kind |-> kind, order |-> n - 1, locked |-> locked,
     file |-> IF kind = "image" THEN 1 ELSE 0, text |-> 1]

\* A locked text, an image, and a locked block as a note made from a template has them.
MCFirstDocument == <<At(1, "rich-text", TRUE), At(2, "image", FALSE), At(3, "block", TRUE)>>

\* A note that is reviewed with settings that are not the default ones.
MCFirstRows == {[id |-> 0, count |-> 8, quiz |-> FALSE, reviews |-> 0]}

MCFirstTypes == [id \in {"r1"} |-> "RECURRING"]
=============================================================================
