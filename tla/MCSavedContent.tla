--------------------------- MODULE MCSavedContent ---------------------------
EXTENDS SavedContent, TLC

\* One content links to one note, the other to two, among them itself; a short one has neither links nor text.
SomeLinks == "a" :> {"t"} @@ "b" :> {"t", "n1"} @@ "short" :> {}
=============================================================================
