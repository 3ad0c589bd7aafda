-------------------------------- MODULE Jobs --------------------------------
(***************************************************************************)
(* The jobs table as storage.py keeps it: what each operation of the       *)
(* repository does to the status of a row.  Every operation is one BEGIN   *)
(* IMMEDIATE transaction, so it reads and writes the row in one step.      *)
(***************************************************************************)

NoJob == "gone"                          \* no such row
Terminal == {"completed", "failed", "stopped"}
JobStatus == {"created", "running", "stopping"} \union Terminal
Rows == JobStatus \union {NoJob}

AllowedTransitions ==
    [created   |-> {"running", "failed", "stopped"},
     running   |-> {"stopping", "completed", "failed", "stopped"},
     stopping  |-> {"stopped", "failed"},
     completed |-> {},
     failed    |-> {},
     stopped   |-> {}]

(* transition: raises JobNotFound or InvalidJobTransition unless this holds. *)
CanTransition(row, target) ==
    row # NoJob /\ target \in AllowedTransitions[row]

Transition(row, target) == IF CanTransition(row, target) THEN target ELSE row

(* complete_or_stop: raises unless this holds. *)
CanFinalize(row) == row \in {"running", "stopping"}

(* Mutant: the stop is not looked at. *)
CompleteAnyway(row) == "completed"

CompleteOrStop(row) == IF row = "running" THEN "completed" ELSE "stopped"
=============================================================================
