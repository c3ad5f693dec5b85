-------------------------- MODULE MCProjectCatalog --------------------------
(***************************************************************************)
(* One Project that is there, two that are created, and every three        *)
(* requests of which one moves or removes it. Both creations want          *)
(* overlapping workspaces, one of them what the first Project may be moved *)
(* to.                                                                     *)
(***************************************************************************)
EXTENDS ProjectCatalog

MCProjects == {"old", "new", "late"}
MCPresent  == [p \in {"old"} |-> "home"]

MCRequests == {"create", "clash", "move", "delete", "begin", "watch"}

MCKind == [h \in MCRequests |->
             CASE h \in {"create", "clash"} -> "create"
               [] h = "move" -> "relocate" [] h = "delete" -> "remove"
               [] h = "begin" -> "start"   [] h = "watch" -> "stream"]

MCProject == [h \in MCRequests |->
                CASE h = "create" -> "new" [] h = "clash" -> "late" [] OTHER -> "old"]

MCTarget == [h \in MCRequests |->
               CASE h = "create" -> "paper" [] h = "clash" -> "draft"
                 [] h = "move" -> "paper" [] OTHER -> "home"]

MCAsked == {s \in SUBSET MCRequests :
              Cardinality(s) = 3 /\ s \cap {"move", "delete"} # {}}

MCWorkspaces == {"home", "paper", "draft", "data"}
MCAbove == [w \in MCWorkspaces |-> IF w = "draft" THEN {"draft", "paper"} ELSE {w}]
=============================================================================
