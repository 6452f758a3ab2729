--------------------------- MODULE MCAttribution ---------------------------
(***************************************************************************)
(* Two applications, one of them muted for its vendor, and a database.     *)
(* The timer of one names the host of a member, as most libraries do; that *)
(* of the other names the component.                                       *)
(***************************************************************************)
EXTENDS Attribution

MCApps  == {"api", "web"}
MCDbs   == {"docs"}
MCLabel == [api |-> [d \in MCDbs |-> "docs_mongo-1"], web |-> [d \in MCDbs |-> d]]
MCMuted == [api |-> {}, web |-> {"vendor"}]
=============================================================================
