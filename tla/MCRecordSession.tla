--------------------------- MODULE MCRecordSession ---------------------------
(***************************************************************************)
(* Two writers on one run id, of which the recorder is one at most, up     *)
(* to two frames each.  The other segments of the dataset are none; enough *)
(* to train; enough, with two segments in one stratum; too few attempts;   *)
(* too many frames without play; more strata than samples.                 *)
(***************************************************************************)
EXTENDS DatasetGate, TLC

MCKinds == {"attempt", "idle"}
MCOutcomes == "attempt" :> {"DEATH", "KNOCKOUT", "INCOMPLETE"}
                @@ "menu" :> {"NAVIGATION", "INCOMPLETE"} @@ "idle" :> {"IDLE"}
MCProvisional == {"INCOMPLETE", "KNOCKOUT"}
MCStrata == << <<"attempt", "DEATH">>, <<"attempt", "INCOMPLETE">>, <<"attempt", "KNOCKOUT">>,
               <<"idle", "IDLE">>, <<"menu", "INCOMPLETE">>, <<"menu", "NAVIGATION">> >>

MCLibraries ==
    {<<>>,
     <<Segment("attempt", "DEATH", 5, TRUE), Segment("idle", "IDLE", 1, FALSE),
       Segment("attempt", "KNOCKOUT", 4, TRUE), Segment("menu", "NAVIGATION", 2, FALSE)>>,
     <<Segment("attempt", "DEATH", 1, TRUE), Segment("attempt", "DEATH", 7, TRUE),
       Segment("menu", "NAVIGATION", 1, FALSE), Segment("idle", "IDLE", 1, FALSE)>>,
     <<Segment("attempt", "DEATH", 8, TRUE), Segment("idle", "IDLE", 1, FALSE),
       Segment("menu", "NAVIGATION", 1, FALSE)>>,
     <<Segment("attempt", "DEATH", 3, TRUE), Segment("attempt", "KNOCKOUT", 3, TRUE),
       Segment("idle", "IDLE", 3, FALSE), Segment("menu", "INCOMPLETE", 1, FALSE)>>,
     <<Segment("attempt", "DEATH", 2, TRUE), Segment("attempt", "INCOMPLETE", 1, FALSE),
       Segment("attempt", "KNOCKOUT", 1, TRUE), Segment("idle", "IDLE", 2, FALSE),
       Segment("menu", "INCOMPLETE", 1, FALSE), Segment("menu", "NAVIGATION", 1, FALSE)>>}
=============================================================================
