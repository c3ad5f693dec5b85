------------------------- MODULE MCProjectKnowledge -------------------------
(***************************************************************************)
(* A writer of a note, two Sessions that publish the Project Home, a short *)
(* page and one that no page of changes holds, and a sibling of the        *)
(* curator's program that follows the changes of other programs. Neither a *)
(* Turn of the writer nor the note's metadata fit in a page of changes.    *)
(***************************************************************************)
EXTENDS ProjectKnowledge

MCSessions == {"writer", "curator", "editor", "sibling"}

MCProgram == [s \in MCSessions |->
                IF s \in {"curator", "sibling"} THEN "summary" ELSE "essay"]

Text(b, ok) == [kind |-> "artifact", body |-> b, valid |-> ok]
Html(b)     == [kind |-> "home", body |-> b, valid |-> TRUE]

MCWorks == [s \in MCSessions |->
              CASE s = "writer"  -> <<Text("note", TRUE)>>
                [] s = "curator" -> <<Html("short")>>
                [] s = "editor"  -> <<Html("long")>>
                [] s = "sibling" -> <<>>]

MCBodies  == {"short", "long", "note"}
MCLength  == [b \in MCBodies |-> IF b = "long" THEN 4 ELSE 1]
MCDetails == [a \in Artifacts |-> IF a = PageOf("writer", 1) THEN 4 ELSE 1]
MCBinary  == {}

MCReaders  == {"sibling"}
MCExcludes == [r \in MCReaders |-> TRUE]

MCRecords    == {"turn"}
MCOwner      == [x \in MCRecords |-> "writer"]
MCRecordSize == [x \in MCRecords |-> 4]
=============================================================================
