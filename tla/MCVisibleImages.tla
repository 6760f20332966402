--------------------------- MODULE MCVisibleImages ---------------------------
(* Two images, one folder query and one video probe. *)
EXTENDS VisibleImages

Visible == {"image", "prefetch"}
Seen == {"image"}
Competing == {"query", "probe"}
Class == [t \in Visible \cup Competing |->
             IF t = "query" THEN "CurrentQuery"
             ELSE IF t \in Visible THEN "VisibleDerived" ELSE "VideoProbe"]
=============================================================================
