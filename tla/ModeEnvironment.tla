--------------------------- MODULE ModeEnvironment ----------------------------
(***************************************************************************)
(* The runtime mode as the services see it when they call                  *)
(* runtime_controller.current_mode(): it can change whenever a request of  *)
(* either endpoint ends.  GradualRecovery of RequestAdmission, checked and *)
(* proved there, is why it never goes from degraded to normal at once.     *)
(***************************************************************************)

RuntimeMode == {"normal", "elevated", "degraded"}

(* The modes that the next change can leave behind. *)
Turns(mode) ==
    IF mode = "degraded" THEN {"degraded", "elevated"} ELSE RuntimeMode

=============================================================================
