---------------------------- MODULE MCRoomRecords ----------------------------
(* Room records, erasure and the ontology on small sets of rooms, texts, users   *)
(* and operators.  A behaviour is of one of five parts, so that their state       *)
(* spaces add: "operators", two operators erase in one room while anything is     *)
(* typed once; "members", one operator erases twice and two texts of anything     *)
(* are typed; "rooms", one operator erases messages and memories in two rooms,    *)
(* dies and begins again; "audits", one erasure of those and a reader that audits *)
(* it all; "ontology", tasks and decisions of one room move, are extracted,       *)
(* reviewed and erased once.                                                     *)
EXTENDS Ontology, TLC

CONSTANTS r1, r2, x1, x2, u1, a1, o1, o2,
          FewEvents        \* bound on the events of a room, where nothing is extracted
AllMembers == Users \X Rooms
Symmetry == Permutations({x1, x2})

VARIABLE part
MCInit == Init /\ OntInit /\ part \in {"operators", "members", "rooms", "audits", "ontology"}

Elsewhere ==
    /\ UNCHANGED ontVars
    /\ \A r \in Rooms : counter'[r] <= FewEvents

Extracting ==
    /\ \A c \in held' : c[2] \in {"tasks", "decisions", "search_documents", "delegated tasks",
                                  "delegated search_documents"} \cup Quoted
    /\ Cardinality({ x \in Texts : typed'[x] # Nobody }) <= 1
    /\ \A x \in Texts : typed'[x] # Nobody => status'[x] # "none"
    /\ reached'[r2] = 0 /\ begun' <= 1 /\ erasures'[o2] = erasures[o2]
    /\ \A o \in Operators : erasures'[o].at = "idle" => erasures[o].at = "idle"

MCNext ==
    /\ OntologyNext /\ part' = part
    /\ part # "audits" => started' = 0
    /\ part \in {"operators", "members", "ontology"} => \A x \in Texts : typed'[x] # Nobody => typed'[x].room = r1
    /\ part = "operators" => Cardinality({ x \in Texts : typed'[x] # Nobody }) <= 1
    /\ part \in {"members", "rooms", "audits"} => erasures'[o2] = erasures[o2]
    /\ part \in {"rooms", "audits"} =>
           \A c \in held' : c[2] \in {"messages", "search_documents", "notifications", "memories"}
    /\ part = "audits" => begun' <= 1
    /\ IF part = "ontology" THEN Extracting ELSE Elsewhere
MCSpec == MCInit /\ [][MCNext]_<<vars, ontVars, part>>
=============================================================================
