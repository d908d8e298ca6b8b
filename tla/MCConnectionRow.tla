-------------------------- MODULE MCConnectionRow --------------------------
(* Values for the constants of ConnectionRow. *)
EXTENDS ConnectionRow
CONSTANTS masculine, feminine, c1, c2, p1

(* Operations of different concerns meet nowhere; preferences and          *)
(* bookmarks of the two phones do not either.                              *)
OneConcern ==
  LET both(k) == [s \in Side |-> k]
      only(k) == [s \in Side |-> IF s = "a" THEN k ELSE {}] IN
  {both({"role.set"}), both({"sever.schedule", "sever.cancel"}),
   only({"prompt_preference.set", "saved_post.add"})}
=============================================================================
