------------------------ MODULE MCTimestampMigration ------------------------
(* Two rows of logs, written at any instant, and the row of meta.          *)
EXTENDS TimestampMigration

MCTableOf(r) == IF r = Meta THEN "meta" ELSE "logs"
=============================================================================
